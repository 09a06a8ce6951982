------------------------- MODULE MCProtocolUpgrade -------------------------
EXTENDS ProtocolUpgrade

CONSTANTS p, q, r

\* r is no validator in the second epoch, and the required majority is down to a half
Validators == [ep \in Epoch |-> IF ep = 1 THEN {p, q, r} ELSE {p, q}]
Majorities ==
  [ep \in Epoch |->
     {S \in SUBSET Pk : Cardinality(S \cap Validators[ep]) >= IF ep = 1 THEN 2 ELSE 1}]

=============================================================================
