----------------------------- MODULE Delegation -----------------------------
(***************************************************************************)
(* Nominations of validators: the delegation engine (core/delegation), the *)
(* staking accounts it is reconciled with (module Staking), the epochs     *)
(* that promote nominations (core/epochtime) and the removal of validators *)
(* nobody nominates (core/validators), in one replica.                     *)
(*                                                                         *)
(* A delegation state gives a party its total and its amount per node;     *)
(* parties and nodes without an entry are outside of the domains.  Blocks  *)
(* are ticks of the clock; transactions come between two ticks.            *)
(***************************************************************************)
EXTENDS Staking

CONSTANTS Node,         \* numbers, in the order of the node IDs
          Tendermint,   \* the nodes that cannot be dropped
          Amount,       \* amounts that transactions ask for
          MinDelegationAmount,
          EpochLength, ReconciliationInterval,
          Scale,        \* a quotient is rounded to a multiple of 1/Scale
          MaxTime, MaxStep

ASSUME DelegationAssumption ==
    /\ Node \subseteq Nat /\ IsFiniteSet(Node) /\ Tendermint \subseteq Node
    /\ Amount \subseteq Nat /\ MinDelegationAmount \in Nat \ {0}
    /\ EpochLength \in Nat /\ ReconciliationInterval \in Nat \ {0}
    /\ Scale \in Nat \ {0} /\ MaxTime \in Nat /\ MaxStep \in Nat \ {0}

VARIABLES links,      \* the confirmed stake links
          now,
          epoch,      \* StartTime and ExpireTime of the current epoch
          ending,     \* the next tick ends the epoch
          validators, \* the topology
          cur, next,  \* delegation states of this epoch and of the next
          auto,       \* the parties in auto delegation mode
          lastReconciliation

engine == <<cur, next, auto, lastReconciliation>>
vars == <<links, now, epoch, ending, validators, engine>>

EmptyState == [p \in {} |-> [total |-> 0, on |-> << >>]]

SumOf(f) == FoldFunction(LAMBDA x, y : x + y, 0, f)

\* What party p has on node n in the delegation state ds.
On(ds, p, n) ==
    IF p \in DOMAIN ds /\ n \in DOMAIN ds[p].on THEN ds[p].on[n] ELSE 0

Total(ds, p) == IF p \in DOMAIN ds THEN ds[p].total ELSE 0

WithParty(ds, p, state) ==
    [q \in DOMAIN ds \cup {p} |-> IF q = p THEN state ELSE ds[q]]

-----------------------------------------------------------------------------
(* Nominating and withdrawing nominations.                                 *)

increase(ds, p, n, amt) ==
    LET old == IF p \in DOMAIN ds THEN ds[p].on ELSE << >>
    IN  WithParty(ds, p,
            [total |-> Total(ds, p) + amt,
             on |-> [m \in DOMAIN old \cup {n} |->
                        On(ds, p, m) + (IF m = n THEN amt ELSE 0)]])

\* decreaseBalanceAndFireEvent, without and with the cleanup of zeros.
Decreased(state, n, amt) ==
    [total |-> Larger(state.total - amt, 0),
     on |-> [m \in DOMAIN state.on |->
                IF m = n THEN Larger(state.on[m] - amt, 0) ELSE state.on[m]]]

\* mutant: a nomination that is withdrawn stays, of nothing
DecreasedKept(ds, p, n, amt) ==
    IF p \notin DOMAIN ds THEN ds
    ELSE [ds EXCEPT ![p] = Decreased(@, n, amt)]

decreaseBalance(ds, p, n, amt) ==
    IF p \notin DOMAIN ds THEN ds
    ELSE LET state == Decreased(ds[p], n, amt)
         IN  IF state.total = 0
             THEN Restrict(ds, DOMAIN ds \ {p})
             ELSE [ds EXCEPT ![p] =
                      [state EXCEPT !.on = Restrict(state.on,
                          {m \in DOMAIN state.on : m # n \/ state.on[m] # 0})]]

Delegate(p, n, amt) ==
    /\ n \in validators
    /\ GetAvailableBalance(links, p).ok
    /\ amt >= MinDelegationAmount
    /\ Total(next, p) + amt <= GetAvailableBalance(links, p).balance
    /\ next' = increase(next, p, n, amt)
    /\ UNCHANGED <<links, now, epoch, ending, validators, cur, auto,
                   lastReconciliation>>

\* An amount of zero stands for all there is.
UndelegateAtEndOfEpoch(p, n, amount) ==
    LET has == On(next, p, n)
        amt == IF amount = 0 THEN has ELSE amount
    IN  /\ n \in validators
        /\ amt <= has
        /\ next' = decreaseBalance(next, p, n, amt)
        /\ auto' = auto \ {p}
        /\ UNCHANGED <<links, now, epoch, ending, validators, cur,
                       lastReconciliation>>

UndelegateNow(p, n, amount) ==
    LET has == Larger(On(cur, p, n), On(next, p, n))
        amt == IF amount = 0 THEN has ELSE amount
        take(ds) ==
            LET some == Smaller(On(ds, p, n), amt)
            IN  IF some = 0 THEN ds ELSE decreaseBalance(ds, p, n, some)
    IN  /\ n \in validators
        /\ amt <= has
        /\ cur' = take(cur)
        /\ next' = take(next)
        /\ auto' = auto \ {p}
        /\ UNCHANGED <<links, now, epoch, ending, validators,
                       lastReconciliation>>

-----------------------------------------------------------------------------
(* Reconciling nominations with the stake.                                 *)

Short(ds, p, stake) == stake[p].ok /\ stake[p].balance < ds[p].total

(***************************************************************************)
(* What a party keeps when its stake no longer covers its nominations: the *)
(* difference is taken from the nodes in proportion, rounded down, and the *)
(* remainder one by one in the order of the nodes.                         *)
(***************************************************************************)
DecreasedBy(state, take) ==
    [total |-> Larger(state.total - SumOf(take), 0),
     on |-> [n \in DOMAIN state.on |-> Larger(state.on[n] - take[n], 0)]]

TakeRemainder(state, left) ==
    LET some == {n \in DOMAIN state.on : state.on[n] # 0}
        first == {n \in some : Cardinality({m \in some : m < n}) < left}
    IN  DecreasedBy(state, [n \in DOMAIN state.on |-> IF n \in first THEN 1 ELSE 0])

\* mutant: the remainder is left
CutInProportion(state, excess, share) == DecreasedBy(state, share)

CutBy(state, excess, share) ==
    TakeRemainder(DecreasedBy(state, share), excess - SumOf(share))

WithoutZeros(state) == [state EXCEPT !.on = RestrictValues(@, LAMBDA a : a # 0)]

CutDown(state, balance) ==
    LET cut(excess) ==
            CutBy(state, excess,
                  [n \in DOMAIN state.on |-> (state.on[n] * excess) \div state.total])
    IN  WithoutZeros(cut(state.total - balance))

reconcile(ds, stake) ==
    LET short == {p \in DOMAIN ds : Short(ds, p, stake)}
        kept(new) == Restrict(new, {p \in DOMAIN ds : p \in short => new[p].total # 0})
    IN  kept([p \in DOMAIN ds |-> IF p \in short THEN CutDown(ds[p], stake[p].balance)
                                                 ELSE ds[p]])

StakeNow(ls) == [p \in Party |-> GetAvailableBalance(ls, p)]

StakeInRange(ls, from, to) ==
    [p \in Party |-> GetAvailableBalanceInRange(ls, p, from, to)]

(***************************************************************************)
(* reconcileAssociationWithNomination: this epoch against the lowest stake *)
(* since it began, the next against the stake there is; a party that was   *)
(* cut down leaves auto delegation mode.                                   *)
(***************************************************************************)
Reconciled(ls, from, to) ==
    LET with(range, latest) ==
            [cur  |-> reconcile(cur, range),
             next |-> reconcile(next, latest),
             auto |-> auto \ ({p \in DOMAIN cur : Short(cur, p, range)} \cup
                              {p \in DOMAIN next : Short(next, p, latest)})]
    IN  with(StakeInRange(ls, from, to), StakeNow(ls))

-----------------------------------------------------------------------------
(* The end of an epoch.                                                    *)

\* The parties whose nominations have changed during the epoch.
ExcludeFromAutoDelegation(r) ==
    {p \in DOMAIN r.next : \E n \in DOMAIN r.next[p].on :
        ~ (/\ p \in DOMAIN r.cur /\ n \in DOMAIN r.cur[p].on
           /\ r.cur[p].on[n] = r.next[p].on[n])}

prepareNextEpochDelegationState(r) ==
    [p \in DOMAIN r.next |-> [r.next[p] EXCEPT !.on = Restrict(@,
        {n \in DOMAIN @ : @[n] # 0 \/ On(r.cur, p, n) # 0})]]

\* A decimal quotient, in units of 1/Scale, rounded half up.
Quotient(a, b) == (2 * a * Scale + b) \div (2 * b)

\* What auto delegation adds to the nominations of a party.
AutoShare(state, available, n) ==
    (Quotient(state.on[n], state.total) * available) \div Scale

AutoDelegated(state, available) ==
    LET share == [n \in DOMAIN state.on |-> AutoShare(state, available, n)]
    IN  [total |-> state.total + SumOf(share),
         on |-> [n \in DOMAIN state.on |-> state.on[n] + share[n]]]

eligiblePartiesForAutoDelegation(r) ==
    {p \in (r.auto \cap DOMAIN r.next) \ ExcludeFromAutoDelegation(r) :
        /\ GetAvailableBalance(links, p).ok
        /\ r.next[p].total < GetAvailableBalance(links, p).balance}

(***************************************************************************)
(* ProcessEpochDelegations, of the reconciled state r: the nominations of  *)
(* the next epoch become those of this one, what auto delegation adds is   *)
(* added to both, and a party that nominates nearly all of its stake       *)
(* enters auto delegation mode.                                            *)
(***************************************************************************)
Promoted(r) ==
    LET spare(p) == GetAvailableBalance(links, p).balance - r.next[p].total
        adding == eligiblePartiesForAutoDelegation(r)
        add(ds) == [p \in DOMAIN ds |->
            IF p \in adding THEN
                LET more == AutoDelegated(r.next[p], spare(p))
                IN  [total |-> more.total,
                     on |-> [n \in DOMAIN ds[p].on |-> more.on[n]]]
            ELSE ds[p]]
        active == add(r.next)
    IN  [cur  |-> active,
         next |-> add(prepareNextEpochDelegationState(r)),
         auto |-> r.auto \cup {p \in DOMAIN active :
             /\ GetAvailableBalance(links, p).ok
             /\ 100 * Quotient(active[p].total,
                               GetAvailableBalance(links, p).balance)
                  >= 95 * Scale}]

\* getValidatorData: the stake that a delegation state puts on a node.
StakeOn(ds, n) == SumOf([p \in DOMAIN ds |-> On(ds, p, n)])

\* mutant: the nominations of the epoch that ends are looked at
MayDropRewarded(rewarded, active) ==
    {n \in validators \ Tendermint : StakeOn(rewarded, n) = 0}

(***************************************************************************)
(* RecalcValidatorSet, as far as nominations go: a node outside of the     *)
(* Tendermint set that has no stake in the epoch about to begin may have   *)
(* performed badly for long enough to be dropped.                          *)
(***************************************************************************)
MayDrop(rewarded, active) == {n \in validators \ Tendermint : StakeOn(active, n) = 0}

endEpoch(t) ==
    /\ \E r \in {Reconciled(links, epoch.start, t)} : \E p \in {Promoted(r)} :
          /\ cur' = p.cur
          /\ next' = p.next
          /\ auto' = p.auto
          /\ \E dropped \in SUBSET MayDrop(r.cur, p.cur) :
                validators' = validators \ dropped
    /\ lastReconciliation' = t
    /\ epoch' = [start |-> t, expire |-> t + EpochLength]
    /\ ending' = FALSE

\* OnTick of the delegation engine, after the links of the tick were added.
OnTick(ls, t) ==
    IF t - lastReconciliation >= ReconciliationInterval
    THEN /\ \E r \in {Reconciled(ls, epoch.start, t)} :
               cur' = r.cur /\ next' = r.next /\ auto' = r.auto
         /\ lastReconciliation' = t
    ELSE UNCHANGED engine

(***************************************************************************)
(* The tick at the beginning of a block: first the epoch, then the links   *)
(* whose check has just succeeded, then the delegation engine.  The first  *)
(* block past the expiry still belongs to the epoch; the next one ends it. *)
(***************************************************************************)
Tick(t, new) ==
    /\ links' = links \cup new
    /\ now' = t
    /\ IF ending
       THEN endEpoch(t)
       ELSE /\ ending' = (epoch.expire < t)
            /\ OnTick(links', t)
            /\ UNCHANGED <<epoch, validators>>

\* Another node joins the topology (ProcessAnnounceNode).
Announce(n) ==
    /\ n \notin validators
    /\ validators' = validators \cup {n}
    /\ UNCHANGED <<links, now, epoch, ending, engine>>

-----------------------------------------------------------------------------
(* Snapshots and checkpoints.                                              *)

Entries(ds) ==
    UNION {{[party |-> p, node |-> n, amount |-> ds[p].on[n]] :
               n \in DOMAIN ds[p].on} : p \in DOMAIN ds}

FromEntries(entries) ==
    [p \in {e.party : e \in entries} |->
        LET on == [n \in {e.node : e \in {x \in entries : x.party = p}} |->
                      (CHOOSE e \in entries : e.party = p /\ e.node = n).amount]
        IN  [total |-> SumOf(on), on |-> on]]

(***************************************************************************)
(* A checkpoint stores the nominations of the next epoch as differences    *)
(* from those of this one, per node a nomination or a withdrawal.          *)
(***************************************************************************)
getPending(active, pending) ==
    LET difference(p, n) ==
            [party |-> p, node |-> n,
             amount |-> IF On(pending, p, n) > On(active, p, n)
                        THEN On(pending, p, n) - On(active, p, n)
                        ELSE On(active, p, n) - On(pending, p, n),
             undelegate |-> On(pending, p, n) < On(active, p, n)]
    IN  {e \in {difference(p, n) : p \in Party, n \in Node} : e.amount # 0}

setPending(active, entries) ==
    LET apply(ds, e) ==
            IF ~ e.undelegate THEN increase(ds, e.party, e.node, e.amount)
            ELSE IF On(ds, e.party, e.node) = 0 THEN ds
            ELSE [ds EXCEPT ![e.party] =
                     Decreased(@, e.node, Smaller(@.on[e.node], e.amount))]
        all == FoldSet(LAMBDA e, ds : apply(ds, e), active, entries)
    IN  [p \in {q \in DOMAIN all : all[q].total # 0} |->
            [all[p] EXCEPT !.on = RestrictValues(@, LAMBDA a : a # 0)]]

\* A restart from the snapshot of the last block.
LoadState ==
    /\ cur' = FromEntries(Entries(cur))
    /\ next' = FromEntries(Entries(next))
    /\ UNCHANGED <<links, now, epoch, ending, validators, auto,
                   lastReconciliation>>

-----------------------------------------------------------------------------
Init ==
    /\ links = {}
    /\ now = 1
    /\ epoch = [start |-> 1, expire |-> 1 + EpochLength]
    /\ ending = FALSE
    /\ validators = Tendermint
    /\ cur = EmptyState
    /\ next = EmptyState
    /\ auto = {}
    /\ lastReconciliation = 1

Next ==
    \/ \E t \in (now + 1)..Smaller(now + MaxStep, MaxTime) :
          \E new \in {{}} \cup {{l} : l \in {k \in Link \ links :
                                               LinkOf[k].ts < t}} :
             Tick(t, new)
    \/ \E p \in Party, n \in Node :
          \/ \E amt \in Amount : Delegate(p, n, amt)
          \/ \E amt \in Amount \cup {0} : UndelegateAtEndOfEpoch(p, n, amt)
          \/ \E amt \in Amount \cup {0} : UndelegateNow(p, n, amt)
    \/ \E n \in Node : Announce(n)
    \/ LoadState

Spec == Init /\ [][Next]_vars

-----------------------------------------------------------------------------
(***************************************************************************)
(* A delegation engine restored from its snapshot is the engine that was   *)
(* saved, though the snapshot has no totals; and the differences that a    *)
(* checkpoint stores for the next epoch lead back to the nominations they  *)
(* were computed from (core/delegation/snapshot.go, checkpoint.go).        *)
(***************************************************************************)
SnapshotsAreExact ==
    /\ FromEntries(Entries(cur)) = cur
    /\ FromEntries(Entries(next)) = next
    /\ setPending(cur, getPending(cur, next)) = next

(***************************************************************************)
(* The end of an epoch finds every node that it needs: whenever it comes,  *)
(* the nominations to be rewarded and those about to become active are on  *)
(* nodes of the topology (getValidatorData reads them without a check),    *)
(* and neither a total nor a stake balance that ProcessEpochDelegations    *)
(* divides by is zero.                                                     *)
(***************************************************************************)
EpochEndIsSafe ==
    \A r \in {Reconciled(links, epoch.start, now + 1)} :
      /\ \A ds \in {r.cur, r.next} : \A p \in DOMAIN ds :
            DOMAIN ds[p].on \subseteq validators
      /\ \A p \in DOMAIN r.next :
            r.next[p].total # 0 /\ GetAvailableBalance(links, p).balance # 0

\* The stake of a party at a time, by the links known in ls.
StakeAt(ls, p, t) ==
    LET known == {l \in ls : LinkOf[l].party = p /\ LinkOf[l].ts <= t}
        sum(S) == SumOf([l \in S |-> LinkOf[l].amount])
    IN  sum({l \in known : LinkOf[l].deposited})
          - sum({l \in known : ~ LinkOf[l].deposited})

\* No removal of more than there was: no earlier deposit is missing.
InOrder(ls, p) == \A l \in ls : StakeAt(ls, p, LinkOf[l].ts) >= 0

LeastStake(ls, p, from, to) ==
    CHOOSE s \in {StakeAt(ls, p, t) : t \in from..to} :
        \A t \in from..to : s <= StakeAt(ls, p, t)

(***************************************************************************)
(* Nominations count only as far as stake covers them.  Whenever the epoch *)
(* ends, a party whose links are in order is rewarded for what it had      *)
(* nominated or for the least stake it had at any time of the epoch,       *)
(* whichever is less; each node loses its share, to within one unit; and   *)
(* what becomes active is covered by the stake of the moment, up to the    *)
(* rounding of the quotients of auto delegation.                           *)
(***************************************************************************)
CoveredByStake ==
    \A r \in {Reconciled(links, epoch.start, now + 1)} :
      /\ \A p \in {q \in DOMAIN cur : InOrder(links, q)} :
            /\ Total(r.cur, p)
                 = Smaller(cur[p].total, LeastStake(links, p, epoch.start, now + 1))
            /\ \A n \in DOMAIN cur[p].on :
                  LET exact == cur[p].on[n] * Total(r.cur, p)
                      kept  == On(r.cur, p, n) * cur[p].total
                  IN  exact - cur[p].total <= kept /\ kept <= exact + cur[p].total
      /\ \A active \in {Promoted(r).cur} : \A p \in DOMAIN active :
            LET stake == GetAvailableBalance(links, p).balance
            IN  2 * Scale * (active[p].total - stake)
                  <= Cardinality(DOMAIN active[p].on) * (stake - r.next[p].total)

=============================================================================
