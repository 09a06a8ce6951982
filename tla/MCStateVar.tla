----------------------------- MODULE MCStateVar -----------------------------
(***************************************************************************)
(* Instances of StateVar: two validators whose results may differ, within  *)
(* the tolerance or beyond it, and the orders in which the rng may try the *)
(* nodes.                                                                  *)
(***************************************************************************)
EXTENDS StateVar

CONSTANTS v1, v2

EqualPower  == [n \in Node |-> 1]
NearAndFar  == [n \in Node |-> IF n = v1 THEN {0} ELSE {1, 2}]
EitherFirst == {[n \in Node |-> IF n = m THEN 1 ELSE 2] : m \in Node}

=============================================================================
