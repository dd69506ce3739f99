--------------------------- MODULE DeliveryContract ---------------------------
(***************************************************************************)
(* What recover and create_transfer_bundle promise about a destination.     *)
(*                                                                         *)
(* A destination is empty, or holds one whole delivery that no other        *)
(* invocation ever replaces; an invocation answers "delivered" only for a   *)
(* delivery of its own.  Any other answer may come before or after the      *)
(* delivery: a failure is allowed to leave a whole delivery behind, never a *)
(* part of one.  Only a user may change what was delivered.                 *)
(***************************************************************************)
CONSTANTS
  Procs,        \* invocations of recover or create_transfer_bundle
  Dests,        \* destinations
  Nobody

VARIABLES
  place,        \* [Dests -> {"empty", "whole", "touched"}]
  owner,        \* [Dests -> Procs \cup {Nobody}], whose delivery it is
  answer        \* [Procs -> {"none", "delivered", "other"}]

cvars == <<place, owner, answer>>

CInit ==
  /\ place = [d \in Dests |-> "empty"]
  /\ owner = [d \in Dests |-> Nobody]
  /\ answer = [p \in Procs |-> "none"]

CDeliver(p, d) ==
  /\ place[d] = "empty" /\ answer[p] = "none"
  /\ place' = [place EXCEPT ![d] = "whole"]
  /\ owner' = [owner EXCEPT ![d] = p]
  /\ UNCHANGED answer

CSucceed(p) ==
  /\ answer[p] = "none"
  /\ \E d \in Dests : owner[d] = p
  /\ answer' = [answer EXCEPT ![p] = "delivered"]
  /\ UNCHANGED <<place, owner>>

CFail(p) ==
  /\ answer[p] = "none"
  /\ answer' = [answer EXCEPT ![p] = "other"]
  /\ UNCHANGED <<place, owner>>

\* A user changes what is there, or puts it back.
CTouch(d) ==
  /\ place[d] # "empty"
  /\ \E s \in {"whole", "touched"} : place' = [place EXCEPT ![d] = s]
  /\ UNCHANGED <<owner, answer>>

CNext ==
  \/ \E p \in Procs : CSucceed(p) \/ CFail(p)
  \/ \E p \in Procs, d \in Dests : CDeliver(p, d)
  \/ \E d \in Dests : CTouch(d)

CSpec == CInit /\ [][CNext]_cvars

=============================================================================
