SPECIFICATION RetrySpec
CONSTANTS
  Procs = {p1, p2}
  Dests = {d1}
  Payloads = {x1}
  Partial = Partial
  Foreign = Foreign
  Empty = Empty
  None = None
  Dead = Dead
  Faults = {"crash", "io", "vault", "cancel", "interrupt"}
INVARIANTS ResidueIsPrivate
PROPERTIES EveryRunEnds PublishedOrTold
