------------------------ MODULE PublicationContract ------------------------
(***************************************************************************)
(* What transactional publication promises, one destination at a time: an  *)
(* operation begins, exposes one complete dataset at its destination, and  *)
(* then, and only then, writes the receipt that names it.  It may be       *)
(* abandoned only while nothing has been exposed.  A receipt is final.     *)
(* Users may change the destination behind the program's back, but the     *)
(* program itself writes it once, and over nothing but an empty directory. *)
(***************************************************************************)
EXTENDS Naturals

CONSTANTS Dests, Payloads, Foreign, Empty, None

VARIABLES
  status,    \* "free", "started", "exposed" or "completed"
  output,    \* the dataset the program exposed
  receipt,   \* the dataset the completion receipt names
  place      \* what is at the destination

cvars == <<status, output, receipt, place>>

CInit ==
  /\ status = [d \in Dests |-> "free"]
  /\ output = [d \in Dests |-> None]
  /\ receipt = [d \in Dests |-> None]
  /\ place = [d \in Dests |-> None]

Begin(d) ==
  /\ status[d] = "free"
  /\ status' = [status EXCEPT ![d] = "started"]
  /\ UNCHANGED <<output, receipt, place>>

Abandon(d) ==
  /\ status[d] = "started"
  /\ status' = [status EXCEPT ![d] = "free"]
  /\ UNCHANGED <<output, receipt, place>>

Expose(d) ==
  /\ status[d] = "started" /\ place[d] \in {None, Empty}
  /\ \E x \in Payloads :
       /\ output' = [output EXCEPT ![d] = x]
       /\ place' = [place EXCEPT ![d] = x]
  /\ status' = [status EXCEPT ![d] = "exposed"]
  /\ UNCHANGED receipt

Complete(d) ==
  /\ status[d] = "exposed"
  /\ status' = [status EXCEPT ![d] = "completed"]
  /\ receipt' = [receipt EXCEPT ![d] = output[d]]
  /\ UNCHANGED <<output, place>>

Tamper(d) ==
  /\ \E x \in {None, Empty, Foreign} : place' = [place EXCEPT ![d] = x]
  /\ UNCHANGED <<status, output, receipt>>

CNext == \E d \in Dests :
  Begin(d) \/ Abandon(d) \/ Expose(d) \/ Complete(d) \/ Tamper(d)

CSpec == CInit /\ [][CNext]_cvars

=============================================================================
