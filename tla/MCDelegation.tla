---------------------------- MODULE MCDelegation ----------------------------
EXTENDS Delegation

\* A deposit, a second one, and a removal that the first does not cover.
MCLinkOf ==
    [l \in Link |->
        CASE l = 1 -> [party |-> "p", deposited |-> TRUE, amount |-> 3, ts |-> 1]
          [] l = 2 -> [party |-> "p", deposited |-> TRUE, amount |-> 3, ts |-> 3]
          [] l = 3 -> [party |-> "p", deposited |-> FALSE, amount |-> 4, ts |-> 4]
          [] l = 4 -> [party |-> "p", deposited |-> FALSE, amount |-> 1, ts |-> 6]]
=============================================================================
