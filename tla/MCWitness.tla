----------------------------- MODULE MCWitness -----------------------------
(***************************************************************************)
(* Instance of Witness for TLC.                                            *)
(***************************************************************************)
EXTENDS Witness

CONSTANTS v1, v2

\* v2 joins without power; an epoch may promote it to a power that v1 needs
JoinerToEqual == {[n \in Node |-> IF n = v2 THEN 0 ELSE 1], [n \in Node |-> 1]}
=============================================================================
