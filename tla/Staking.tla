------------------------------ MODULE Staking ------------------------------
(***************************************************************************)
(* The staking accounts of core/staking.  An account is the set of the     *)
(* stake links (deposits to and removals from the staking contract) that   *)
(* the validators have confirmed so far; they are confirmed one by one, in *)
(* any order.  Its list of events is kept sorted by Ethereum time, so it   *)
(* is a function of that set.                                              *)
(***************************************************************************)
EXTENDS Integers, FiniteSets, FiniteSetsExt, Functions

CONSTANTS Party, Link,
          LinkOf  \* what Ethereum says of a link

ASSUME LinkAssumption ==
    LinkOf \in [Link -> [party : Party, deposited : BOOLEAN,
                         amount : Nat \ {0}, ts : Nat \ {0}]]

Smaller(a, b) == IF a < b THEN a ELSE b

Larger(a, b) == IF a > b THEN a ELSE b

(***************************************************************************)
(* The order of an account's events: by time, deposits before removals.    *)
(* Events that this order does not tell apart are interchangeable.         *)
(***************************************************************************)
EventBefore(a, b) ==
    LET x == LinkOf[a]
        y == LinkOf[b]
    IN  IF x.ts = y.ts THEN x.deposited /\ ~ y.deposited ELSE x.ts < y.ts

\* links is the set of the confirmed links of all the accounts.
Events(links, p) == {l \in links : LinkOf[l].party = p}

\* The one of some events that comes last in the account's list.
LastEvent(events) == CHOOSE l \in events : \A k \in events : ~ EventBefore(l, k)

\* AddEvent.  An account exists from its first event on.
HasAccount(links, p) == \E l \in links : LinkOf[l].party = p

\* One event: a removal of more than there is stops the computation.
ApplyEvent(b, l) ==
    IF ~ b.ok THEN b
    ELSE IF LinkOf[l].deposited
         THEN [ok |-> TRUE, balance |-> b.balance + LinkOf[l].amount]
    ELSE IF b.balance < LinkOf[l].amount
         THEN [ok |-> FALSE, balance |-> 0]
    ELSE [ok |-> TRUE, balance |-> b.balance - LinkOf[l].amount]

\* The balance after the events, one after the other in the order of the list.
calculateBalance(events) ==
    MapThenFoldSet(LAMBDA l, b : ApplyEvent(b, l), [ok |-> TRUE, balance |-> 0],
                   LAMBDA l : l, LastEvent, events)

(***************************************************************************)
(* The balance of all the events.  When some prefix of them is negative it *)
(* is zero, and that is not an error for the reader.                       *)
(***************************************************************************)
GetAvailableBalance(links, p) ==
    [ok |-> HasAccount(links, p), balance |-> calculateBalance(Events(links, p)).balance]

GetAvailableBalanceAt(links, p, at) ==
    calculateBalance({l \in Events(links, p) : LinkOf[l].ts <= at})

\* One event of a period: the balance after it, and the lowest so far.
ApplyInRange(b, l) ==
    [ok |-> ApplyEvent(b, l).ok, balance |-> ApplyEvent(b, l).balance,
     least |-> IF LinkOf[l].deposited THEN b.least
               ELSE Smaller(b.least, ApplyEvent(b, l).balance)]

lowestInRange(balance, events) ==
    MapThenFoldSet(LAMBDA l, b : ApplyInRange(b, l),
                   [ok |-> TRUE, balance |-> balance, least |-> balance],
                   LAMBDA l : l, LastEvent, events)

(***************************************************************************)
(* The lowest balance from the beginning to the end of a period: that at   *)
(* its beginning, or that after a removal during it.                       *)
(***************************************************************************)
GetAvailableBalanceInRange(links, p, from, to) ==
    LET start == GetAvailableBalanceAt(links, p, from)
        end   == lowestInRange(start.balance,
                     {l \in Events(links, p) : LinkOf[l].ts > from /\ LinkOf[l].ts <= to})
    IN  IF HasAccount(links, p) /\ start.ok /\ end.ok
        THEN [ok |-> TRUE, balance |-> end.least]
        ELSE [ok |-> FALSE, balance |-> 0]

=============================================================================
