---------------------------- MODULE TransferBundle ----------------------------
(***************************************************************************)
(* The DATA_ONLY transfer bundle (transfer_bundle.py): which artifacts of a *)
(* working dataset are transferable, the manifest that declares them, and   *)
(* the standalone validation core that judges a bundle directory.           *)
(*                                                                         *)
(* A path is <<stem, ext>>.  Fold maps a stem to its casefolded form, so    *)
(* two stems with the same fold are names that differ only by case.  A tree *)
(* is a function from the paths that exist to file contents; a content      *)
(* stands for the bytes of the file, so it is its own digest and size.      *)
(***************************************************************************)
EXTENDS Naturals, FiniteSets

CONSTANTS
  Stems,          \* names of files, without extension
  Fold,           \* [Stems -> Stems], str.casefold
  Unportable,     \* names that are drive-qualified, absolute or too long
  NoCount         \* the null of an FPT entry's record count and schema

ASSUME FoldIsIdempotent ==
  /\ Fold \in [Stems -> Stems]
  /\ \A s \in Stems : Fold[Fold[s]] = Fold[s]
  /\ Unportable \subseteq Stems
  /\ NoCount \notin Nat \cup BOOLEAN

\* transfer-manifest.json, the only file of a bundle that is not payload.
ManifestPath == <<"transfer-manifest", "json">>

casefold(path) ==
  IF path = ManifestPath THEN path ELSE <<Fold[path[1]], path[2]>>

normalized_artifact_path(path) == path = ManifestPath \/ path[1] \notin Unportable

\* The suffix and marker denylist, by class.
forbidden_artifact_class(path) == path[2] \in {"cdx", "tmp"}

companion(path) == <<path[1], "fpt">>

\* Two actual files whose names differ only by case.
CaseCollision(paths) ==
  \E p, q \in paths : p # q /\ casefold(p) = casefold(q)

(***************************************************************************)
(* Table contents: header is the record count the DBF header states,        *)
(* records the number of physical records that can be streamed, memo        *)
(* whether the schema has a memo field.                                     *)
(***************************************************************************)
TableContent(body, header, records, memo) ==
  [body |-> body, header |-> header, records |-> records, memo |-> memo]

\* Exactly the tables of the result and the fresh companions they need.
Allowlist(tables, tree) ==
  tables \cup {companion(t) : t \in {u \in tables : tree[u].memo}}

AllowlistRefused(allowlist) ==
  \/ \E p \in allowlist : forbidden_artifact_class(p) \/ ~normalized_artifact_path(p)
  \/ CaseCollision(allowlist)

\* One artifact entry: digest and size are taken from the bytes that were
\* copied, count and schema from the table as it is in the working tree then.
Entry(path, copied, table) ==
  IF path[2] = "dbf"
  THEN [path |-> path, digest |-> copied, count |-> table.records, schema |-> table.memo]
  ELSE [path |-> path, digest |-> copied, count |-> NoCount, schema |-> NoCount]

\* _count_records refuses a table whose stream disagrees with its header.
CountRecordsRaises(table) == table.records # table.header

build_manifest(assurance, entries) ==
  [wellFormed |-> TRUE, artifacts |-> entries, assurance |-> assurance]

(***************************************************************************)
(* The standalone validation core.                                          *)
(***************************************************************************)
\* The closed schema: exact keys, bounded tokens and the truthful profile, index
\* and data states (wellFormed), and one entry per casefolded path, bound to its
\* extension.
ManifestContractHolds(m) ==
  /\ m.wellFormed
  /\ m.artifacts # {}
  /\ \A e \in m.artifacts :
       /\ normalized_artifact_path(e.path) /\ e.path # ManifestPath
       /\ ~forbidden_artifact_class(e.path)
       /\ e.path[2] \in {"dbf", "fpt"}
       /\ (e.path[2] = "fpt") <=> (e.count = NoCount /\ e.schema = NoCount)
  /\ \A e, f \in m.artifacts : casefold(e.path) = casefold(f.path) => e = f

\* The level an assurance declares must be the one its counts support.
ManifestAssuranceHolds(a) ==
  /\ a.verified + a.failed + a.incomplete = a.declared
  /\ CASE a.level = "GLOBAL_EXACT_VALUE" -> a.declared = 0
       [] a.level \in {"DECLARED_RELATIONS_VERIFIED", "VFP_METADATA_VERIFIED"} ->
            a.declared > 0 /\ a.verified = a.declared
       [] OTHER -> a.declared > 0 /\ a.verified # a.declared

Declared(m) == {casefold(e.path) : e \in m.artifacts}

\* A mutant of the allowlist comparison that lets extra files pass.
InventoryCoversManifest(tree, m) ==
  Declared(m) \cup {ManifestPath} \subseteq {casefold(p) : p \in DOMAIN tree}

\* The strict allowlist: the files that exist are exactly the declared ones.
InventoryIsExact(tree, m) ==
  /\ \A p \in DOMAIN tree : normalized_artifact_path(p)
  /\ ~CaseCollision(DOMAIN tree)
  /\ {casefold(p) : p \in DOMAIN tree} = Declared(m) \cup {ManifestPath}

\* The file the core opens for an entry: the casefolded path, looked up by the
\* file system the bundle is on.
Opened(tree, path, sensitive) ==
  {p \in DOMAIN tree : IF sensitive THEN p = casefold(path) ELSE casefold(p) = casefold(path)}

ArtifactHolds(tree, e, m, sensitive) ==
  \E p \in Opened(tree, e.path, sensitive) :
    /\ tree[p] = e.digest
    /\ e.path[2] = "dbf" =>
         /\ tree[p].header = e.count
         /\ tree[p].memo = e.schema
         /\ tree[p].records = e.count
         /\ tree[p].memo => casefold(companion(e.path)) \in Declared(m)

\* No FPT is declared that no memo table needs.
NoUnexpectedFpt(tree, m, sensitive) ==
  \A e \in m.artifacts : e.path[2] = "fpt" =>
    \E f \in m.artifacts :
      /\ f.path[2] = "dbf" /\ casefold(companion(f.path)) = casefold(e.path)
      /\ \E p \in Opened(tree, f.path, sensitive) : tree[p].memo

verify_bundle_core(tree, sensitive) ==
  /\ ManifestPath \in DOMAIN tree
  /\ \A p \in DOMAIN tree : ~forbidden_artifact_class(p)
  /\ LET m == tree[ManifestPath] IN
       /\ ManifestContractHolds(m)
       /\ InventoryIsExact(tree, m)
       /\ \A e \in m.artifacts : ArtifactHolds(tree, e, m, sensitive)
       /\ NoUnexpectedFpt(tree, m, sensitive)
       /\ ManifestAssuranceHolds(m.assurance)

=============================================================================
