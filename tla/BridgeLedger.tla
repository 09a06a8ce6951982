---------------------------- MODULE BridgeLedger ----------------------------
(***************************************************************************)
(* What the deposit path promises: the party of an Ethereum deposit is     *)
(* credited when the deposit really happened, and once at most.            *)
(***************************************************************************)
EXTENDS Naturals

CONSTANTS Event, Genuine, Legacy

VARIABLE paid   \* paid[e]: how often deposit e was paid out

Init == paid = [e \in Event |-> IF e \in Legacy THEN 1 ELSE 0]

Credit(e) ==
  /\ paid[e] = 0
  /\ paid' = [paid EXCEPT ![e] = 1]

Next == \E e \in Genuine : Credit(e)

Spec == Init /\ [][Next]_paid
=============================================================================
