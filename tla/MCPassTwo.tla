------------------------------ MODULE MCPassTwo ------------------------------
(* The instance of PassTwo for TLC: inline and in a pool, with every fault. *)
EXTENDS PassTwo

EveryFault == AllFaults
=============================================================================
