---------------------------- MODULE BridgeProofs ----------------------------
(***************************************************************************)
(* The deposit path implements BridgeLedger for every set of nodes, events *)
(* and bounds, the recorded Ethereum height never decreases, the state of  *)
(* the bridge is that of its latest event, and nothing that was read is    *)
(* lost while one node does not restart.  The hashes of acknowledged       *)
(* events, for every length of a bucket and of the time they are kept, are *)
(* recognised long enough and come through an upgrade as they were.        *)
(***************************************************************************)
EXTENDS Bridge, AckedEvents, FiniteSetTheorems, WellFoundedInduction, TLAPS

\* What makes the refinement inductive: whatever was paid out is among the references
\* deduplicateAssetAction looks for, with or without the ID of the chain.
PaidIsSeen ==
  /\ credits \in [Event -> {0, 1}]
  /\ \A e \in Event : credits[e] = 1 => AlreadySeen(e)

\* Heights are numbers all the way from a poll to the tracker.
HeightsAreNumbers ==
  /\ eth \in Nat /\ lastSeen \in Nat
  /\ evts \in [Node -> SUBSET (Event \cup Nat)]
  /\ pool \subseteq Node \X (Event \cup Nat)
  /\ beats \subseteq [height : Nat, votes : SUBSET Node]

\* The larger of two heights is one of them and bounds both (UpdateContractBlock).
LEMMA MaxOfTwo ==
  ASSUME NEW a \in Nat, NEW b \in Nat
  PROVE  Max({a, b}) \in Nat /\ Max({a, b}) >= a /\ Max({a, b}) >= b
<1>1. \E x \in {a, b} : \A y \in {a, b} : x >= y
  OBVIOUS
<1>. QED BY <1>1 DEF Max

\* Nothing is paid out before its reference is recorded, and a reference is never removed
\* (processAssetActions, deduplicateAssetAction).
LEMMA PaidIsSeenStep == PaidIsSeen /\ [Next]_vars => PaidIsSeen'
<1> SUFFICES ASSUME PaidIsSeen, [Next]_vars PROVE PaidIsSeen'
  OBVIOUS
<1> USE DEF PaidIsSeen
<1>1. CASE UNCHANGED <<credits, seen>>
  BY <1>1, Zenon DEF AlreadySeen
<1>2. ASSUME NEW e \in Event, ActionOk(e) PROVE PaidIsSeen'
  <2>1. CASE AlreadySeen(e)
    BY <1>1, <1>2, <2>1 DEF ActionOk
  <2>2. CASE ~AlreadySeen(e)
    <3>1. seen' = seen \cup {RefKey(e, "1")}
      BY <1>2, <2>2 DEF ActionOk, FinalizeAction
    <3>2. credits' = credits \/ credits' = [credits EXCEPT ![e] = @ + 1]
      BY <1>2, <2>2 DEF ActionOk, FinalizeAction
    <3>3. credits[e] = 0
      BY <2>2
    <3>4. AlreadySeen(e)' /\ \A f \in Event : AlreadySeen(f) => AlreadySeen(f)'
      BY <3>1, Zenon DEF AlreadySeen
    <3>5. credits' \in [Event -> {0, 1}] /\ \A f \in Event : f # e => credits'[f] = credits[f]
      BY <3>2, <3>3
    <3>6. \A f \in Event : credits'[f] = 1 => AlreadySeen(f)'
      BY <3>4, <3>5, Zenon
    <3>. QED BY <3>5, <3>6
  <2>. QED BY <2>1, <2>2
<1>3. CASE UNCHANGED vars
  BY <1>3, Zenon DEF vars, chain, AlreadySeen
<1>4. CASE Next
  <2>1. CASE EthereumGrows \/ TakeSnapshot
    BY <2>1, Zenon DEF EthereumGrows, TakeSnapshot, chain, AlreadySeen
  <2>2. ASSUME NEW n \in Node, Poll(n) \/ Restart(n) PROVE PaidIsSeen'
    BY <2>2, Zenon DEF Poll, Restart, chain, AlreadySeen
  <2>3. ASSUME NEW n \in Node, NEW x \in evts[n], Send(n, x) PROVE PaidIsSeen'
    BY <2>3, Zenon DEF Send, chain, AlreadySeen
  <2>4. ASSUME NEW p \in pool, Deliver(p[1], p[2]) \/ CommandLost(p[1], p[2])
        PROVE PaidIsSeen'
    BY <2>4, Zenon DEF Deliver, CommandLost, chain, AlreadySeen
  <2>5. ASSUME NEW x \in acked, ForgetAcked(x) PROVE PaidIsSeen'
    BY <2>5, Zenon DEF ForgetAcked, AlreadySeen
  <2>6. ASSUME NEW e \in Event, ActionRejected(e) PROVE PaidIsSeen'
    BY <2>6, Zenon DEF ActionRejected, AlreadySeen
  <2>7. ASSUME NEW b \in beats, CloseHeartbeat(b) PROVE PaidIsSeen'
    BY <2>7, Zenon DEF CloseHeartbeat, AlreadySeen
  <2>8. ASSUME NEW b \in beats, NEW n \in Node, VoteHeartbeat(n, b) PROVE PaidIsSeen'
    BY <2>8, Zenon DEF VoteHeartbeat, AlreadySeen
  <2>. QED BY <1>2, <1>4, <2>1, <2>2, <2>3, <2>4, <2>5, <2>6, <2>7, <2>8 DEF Next
<1>. QED BY <1>3, <1>4

\* A step of the model is a step of the ledger or leaves it alone.
LEMMA LedgerStep == PaidIsSeen /\ [Next]_vars => [Ledger!Next]_credits
<1> SUFFICES ASSUME PaidIsSeen, [Next]_vars PROVE [Ledger!Next]_credits
  OBVIOUS
<1>1. ASSUME NEW e \in Event, ActionOk(e) PROVE [Ledger!Next]_credits
  <2>1. CASE credits' = credits
    BY <2>1
  <2>2. CASE credits' # credits
    <3>1. ~AlreadySeen(e) /\ credits' = [credits EXCEPT ![e] = @ + 1] /\ e \in Genuine
      BY <1>1, <2>2 DEF ActionOk, FinalizeAction
    <3>2. credits[e] = 0
      BY <3>1 DEF PaidIsSeen
    <3>3. Ledger!Credit(e)
      BY <3>1, <3>2 DEF Ledger!Credit, PaidIsSeen
    <3>. QED BY <3>1, <3>3 DEF Ledger!Next
  <2>. QED BY <2>1, <2>2
<1>2. ASSUME ~\E e \in Event : ActionOk(e) PROVE credits' = credits
  BY <1>2, Zenon DEF Next, vars, chain, EthereumGrows, TakeSnapshot, Poll, Restart, Send, Deliver,
    CommandLost, ForgetAcked, ActionRejected, CloseHeartbeat, VoteHeartbeat
<1>. QED BY <1>1, <1>2

\* Every behaviour of the deposit path, with its lost, repeated and reordered chain
\* events, is one of the ledger: genuine deposits are paid out once at most.
THEOREM DepositsArePaidOnce == Spec => LedgerSpec
<1>1. Init => PaidIsSeen
  <2> SUFFICES ASSUME Init PROVE PaidIsSeen
    OBVIOUS
  <2>1. \A e \in Event : e \in Legacy => RefKey(e, "") \in seen
    BY Zenon DEF Init
  <2>2. credits \in [Event -> {0, 1}] /\ \A e \in Event : credits[e] = 1 => e \in Legacy
    <3>1. credits = [e \in Event |-> IF e \in Legacy THEN 1 ELSE 0]
      BY Zenon DEF Init
    <3>. QED BY <3>1
  <2>. QED BY <2>1, <2>2, Zenon DEF PaidIsSeen, AlreadySeen
<1>2. Init => Ledger!Init
  BY Zenon DEF Init, Ledger!Init
<1>3. PaidIsSeen /\ [Next]_vars => PaidIsSeen'
  BY PaidIsSeenStep
<1>4. PaidIsSeen /\ [Next]_vars => [Ledger!Next]_credits
  BY LedgerStep, SMTT(30)
<1>. QED BY <1>1, <1>2, <1>3, <1>4, PTL DEF Spec, LedgerSpec, Ledger!Spec

-----------------------------------------------------------------------------
\* Everything that is polled, sent, delivered or applied keeps heights numbers.
LEMMA HeightsStep == HeightsAreNumbers /\ [Next]_vars => HeightsAreNumbers'
<1> SUFFICES ASSUME HeightsAreNumbers, [Next]_vars PROVE HeightsAreNumbers'
  OBVIOUS
<1> USE DEF HeightsAreNumbers
<1>1. CASE UNCHANGED vars
  BY <1>1 DEF vars, chain
<1>2. CASE EthereumGrows \/ TakeSnapshot
  BY <1>2 DEF EthereumGrows, TakeSnapshot, chain
<1>3. ASSUME NEW n \in Node, Poll(n) PROVE HeightsAreNumbers'
  <2>1. PICK S \in SUBSET (Event \cup Nat) : evts' = [evts EXCEPT ![n] = @ \cup S]
    <3>1. \A items : Forwarded(n, items) = evts[n] \cup (items \ acked)
      BY DEF Forwarded
    <3>2. Found(n) \subseteq Event /\ \A f, t : Heartbeats(f, t) \subseteq Nat
      BY DEF Found, Heartbeats
    <3>. QED BY <1>3, <3>1, <3>2, Zenon DEF Poll
  <2>. QED BY <1>3, <2>1, Zenon DEF Poll, chain
<1>4. ASSUME NEW n \in Node, Restart(n) PROVE HeightsAreNumbers'
  BY <1>4 DEF Restart, chain
<1>5. ASSUME NEW n \in Node, NEW x \in evts[n], Send(n, x) PROVE HeightsAreNumbers'
  BY <1>5 DEF Send, chain
<1>6. ASSUME NEW p \in pool, CommandLost(p[1], p[2]) PROVE HeightsAreNumbers'
  BY <1>6 DEF CommandLost, chain
<1>7. ASSUME NEW p \in pool, Deliver(p[1], p[2]) PROVE HeightsAreNumbers'
  <2>1. p[2] \in Event \cup Nat
    OBVIOUS
  <2>2. evts' \in [Node -> SUBSET (Event \cup Nat)]
    BY <1>7 DEF Deliver
  <2>3. beats' \subseteq [height : Nat, votes : SUBSET Node]
    <3>1. beats' = beats \/ (p[2] \notin Event /\ beats' = beats \cup {[height |-> p[2], votes |-> {}]})
      BY <1>7 DEF Deliver
    <3>. QED BY <2>1, <3>1
  <2>. QED BY <1>7, <2>2, <2>3 DEF Deliver
<1>8. ASSUME NEW x \in acked, ForgetAcked(x) PROVE HeightsAreNumbers'
  BY <1>8 DEF ForgetAcked
<1>9. ASSUME NEW e \in Event, ActionOk(e) PROVE HeightsAreNumbers'
  <2>1. lastSeen' = lastSeen \/ lastSeen' = Max({lastSeen, Block[e]})
    BY <1>9 DEF ActionOk, FinalizeAction, ContractBlock
  <2>2. Block[e] \in Nat
    BY BridgeAssumption
  <2>3. lastSeen' \in Nat
    BY <2>1, <2>2, MaxOfTwo
  <2>. QED BY <1>9, <2>3 DEF ActionOk
<1>10. ASSUME NEW e \in Event, ActionRejected(e) PROVE HeightsAreNumbers'
  BY <1>10 DEF ActionRejected
<1>11. ASSUME NEW b \in beats, CloseHeartbeat(b) PROVE HeightsAreNumbers'
  <2>1. lastSeen' = lastSeen \/ lastSeen' = Max({lastSeen, b.height})
    BY <1>11 DEF CloseHeartbeat, ContractBlock
  <2>2. lastSeen' \in Nat
    BY <2>1, MaxOfTwo
  <2>. QED BY <1>11, <2>2 DEF CloseHeartbeat
<1>12. ASSUME NEW b \in beats, NEW n \in Node, VoteHeartbeat(n, b) PROVE HeightsAreNumbers'
  <2>1. [b EXCEPT !.votes = @ \cup {n}] \in [height : Nat, votes : SUBSET Node]
    OBVIOUS
  <2>. QED BY <1>12, <2>1 DEF VoteHeartbeat
<1>. QED BY <1>1, <1>2, <1>3, <1>4, <1>5, <1>6, <1>7, <1>8, <1>9, <1>10, <1>11, <1>12 DEF Next

LEMMA HeightsHold == Spec => []HeightsAreNumbers
<1>1. Init => HeightsAreNumbers
  <2> SUFFICES ASSUME Init PROVE HeightsAreNumbers
    OBVIOUS
  <2>1. /\ eth = Origin /\ lastSeen = Recorded
        /\ evts = [n \in Node |-> {}] /\ pool = {} /\ beats = {}
    BY Zenon DEF Init
  <2>. QED BY <2>1, BridgeAssumption DEF HeightsAreNumbers
<1>. QED BY <1>1, HeightsStep, PTL DEF Spec

\* The Ethereum height that restarted nodes poll from never goes back, in whatever order
\* the checks of events and heartbeats end.
THEOREM RecordedHeightGrows == Spec => LastSeenGrows
<1>1. HeightsAreNumbers /\ [Next]_vars => [lastSeen' >= lastSeen]_vars
  <2> SUFFICES ASSUME HeightsAreNumbers, Next PROVE lastSeen' >= lastSeen
    OBVIOUS
  <2> USE DEF HeightsAreNumbers
  <2>1. ASSUME NEW e \in Event, ActionOk(e) PROVE lastSeen' >= lastSeen
    <3>1. lastSeen' = lastSeen \/ lastSeen' = Max({lastSeen, Block[e]})
      BY <2>1 DEF ActionOk, FinalizeAction, ContractBlock
    <3>. QED BY <3>1, MaxOfTwo, BridgeAssumption
  <2>2. ASSUME NEW b \in beats, CloseHeartbeat(b) PROVE lastSeen' >= lastSeen
    <3>1. lastSeen' = lastSeen \/ lastSeen' = Max({lastSeen, b.height})
      BY <2>2 DEF CloseHeartbeat, ContractBlock
    <3>. QED BY <3>1, MaxOfTwo
  <2>3. CASE lastSeen' = lastSeen
    BY <2>3
  <2>. QED BY <2>1, <2>2, <2>3, Zenon DEF Next, chain, EthereumGrows, TakeSnapshot, Poll, Restart,
         Send, Deliver, CommandLost, ForgetAcked, ActionRejected, VoteHeartbeat
<1>. QED BY <1>1, HeightsHold, PTL DEF Spec, LastSeenGrows

-----------------------------------------------------------------------------
\* stops and resumptions that were applied
Applied == {e \in Event : Kind[e] \in {"stop", "resume"} /\ RefKey(e, "1") \in seen}

\* What makes BridgeStateIsLatest inductive: the position kept with the state is that of
\* an applied event, the one the state is from, and no applied event is behind it.
StateHasPosition ==
  /\ bridge \in [active : BOOLEAN, block : Nat, index : Nat]
  /\ \A e \in Applied : Block[e] < bridge.block \/ (Block[e] = bridge.block /\ Index[e] <= bridge.index)
  /\ IF Applied = {} THEN bridge.block = 0
     ELSE \E e \in Applied : /\ Block[e] = bridge.block /\ Index[e] = bridge.index
                             /\ bridge.active = (Kind[e] = "resume")

\* An event at a later position replaces the state, one at an earlier position does not
\* (isNewerEvent); the first one is behind the position of the initial state.
LEMMA StateHasPositionStep == StateHasPosition /\ [Next]_vars => StateHasPosition'
<1> SUFFICES ASSUME StateHasPosition, [Next]_vars PROVE StateHasPosition'
  OBVIOUS
<1>1. CASE UNCHANGED <<bridge, seen>>
  BY <1>1, Zenon DEF StateHasPosition, Applied
<1>2. ASSUME NEW e \in Event, ActionOk(e), ~AlreadySeen(e) PROVE StateHasPosition'
  <2>1. FinalizeAction(e)
    BY <1>2, Zenon DEF ActionOk
  <2>2. seen' = seen \cup {RefKey(e, "1")}
    BY <2>1, Zenon DEF FinalizeAction
  <2>3. \A f \in Event : RefKey(f, "1") \in seen' <=> (RefKey(f, "1") \in seen \/ f = e)
    BY <2>2 DEF RefKey
  <2>4. \A f \in Event : Block[f] \in Nat /\ Index[f] \in Nat
    BY BridgeAssumption
  <2>5. CASE Kind[e] \notin {"stop", "resume"}
    <3>1. bridge' = bridge
      BY <2>1, <2>5, Zenon DEF FinalizeAction
    <3>2. Applied' = Applied
      BY <2>3, <2>5, Zenon DEF Applied
    <3> QED
      BY <3>1, <3>2, Zenon DEF StateHasPosition
  <2>6. CASE Kind[e] \in {"stop", "resume"}
    <3>1. PICK A : A = Applied /\ Applied' = A \cup {e}
      <4>1. Applied' = Applied \cup {e}
        <5>1. \A f : f \in Applied' <=> (f \in Applied \/ f = e)
          BY <2>3, <2>6, Zenon DEF Applied
        <5> QED
          BY <5>1, Zenon
      <4> QED
        BY <4>1, Zenon
    <3>2. bridge.block \in Nat /\ bridge.index \in Nat
      BY DEF StateHasPosition
    <3>3. CASE isNewerEvent(Block[e], Index[e])
      <4>1. bridge' = [active |-> Kind[e] = "resume", block |-> Block[e], index |-> Index[e]]
        BY <2>1, <2>6, <3>3, Zenon DEF FinalizeAction
      <4>2. bridge' \in [active : BOOLEAN, block : Nat, index : Nat]
        BY <2>4, <4>1
      <4>3. bridge'.block = Block[e] /\ bridge'.index = Index[e] /\ bridge'.active = (Kind[e] = "resume")
        BY <4>1
      <4>4. ASSUME NEW f \in A \cup {e}
            PROVE  Block[f] < Block[e] \/ (Block[f] = Block[e] /\ Index[f] <= Index[e])
        <5>1. CASE f = e
          BY <2>4, <5>1
        <5>2. CASE f \in A
          <6>1. /\ Block[f] \in Nat /\ Index[f] \in Nat /\ Block[e] \in Nat /\ Index[e] \in Nat
                /\ Block[f] < bridge.block \/ (Block[f] = bridge.block /\ Index[f] <= bridge.index)
            BY <2>4, <3>1, <5>2, Zenon DEF StateHasPosition, Applied
          <6> QED
            BY <3>2, <3>3, <6>1 DEF isNewerEvent
        <5> QED
          BY <5>1, <5>2
      <4> QED
        BY <3>1, <4>2, <4>3, <4>4, Zenon DEF StateHasPosition
    <3>4. CASE ~isNewerEvent(Block[e], Index[e])
      <4>1. bridge' = bridge
        BY <2>1, <3>4, Zenon DEF FinalizeAction
      <4>2. Block[e] < bridge.block \/ (Block[e] = bridge.block /\ Index[e] <= bridge.index)
        BY <2>4, <3>2, <3>4 DEF isNewerEvent
      <4>3. Block[e] > 0
        BY <2>6, LogPositions, Zenon
      <4>4. bridge.block # 0
        BY <2>4, <3>2, <4>2, <4>3
      <4>5. PICK f \in A : /\ Block[f] = bridge.block /\ Index[f] = bridge.index
                           /\ bridge.active = (Kind[f] = "resume")
        BY <3>1, <4>4, Zenon DEF StateHasPosition
      <4> QED
        BY <3>1, <4>1, <4>2, <4>5, Zenon DEF StateHasPosition
    <3> QED
      BY <3>3, <3>4
  <2> QED
    BY <2>5, <2>6
<1>3. ASSUME ~\E e \in Event : ActionOk(e) /\ ~AlreadySeen(e) PROVE UNCHANGED <<bridge, seen>>
  BY <1>3, Zenon DEF Next, vars, chain, EthereumGrows, TakeSnapshot, Poll, Restart, Send, Deliver,
    CommandLost, ForgetAcked, ActionOk, ActionRejected, CloseHeartbeat, VoteHeartbeat
<1> QED
  BY <1>1, <1>2, <1>3

\* In whatever order the stops and resumptions of the bridge are confirmed, the state is
\* that of the one latest on Ethereum among those applied (isNewerEvent).
THEOREM LatestStateWins == Spec => []BridgeStateIsLatest
<1>1. Init => StateHasPosition
  <2> SUFFICES ASSUME Init PROVE StateHasPosition
    OBVIOUS
  <2>1. Applied = {}
    BY Zenon DEF Init, Applied, RefKey
  <2>2. bridge = [active |-> TRUE, block |-> 0, index |-> 0]
    BY Zenon DEF Init
  <2> QED
    BY <2>1, <2>2 DEF StateHasPosition
<1>2. StateHasPosition => BridgeStateIsLatest
  <2> SUFFICES ASSUME StateHasPosition, NEW e \in Applied,
                      \A f \in Applied : Block[f] < Block[e] \/ (Block[f] = Block[e] /\ Index[f] <= Index[e])
               PROVE  bridge.active = (Kind[e] = "resume")
    BY Zenon DEF BridgeStateIsLatest, Applied
  <2>1. PICK f \in Applied : /\ Block[f] = bridge.block /\ Index[f] = bridge.index
                             /\ bridge.active = (Kind[f] = "resume")
    BY Zenon DEF StateHasPosition
  <2>2. /\ Block[e] < Block[f] \/ (Block[e] = Block[f] /\ Index[e] <= Index[f])
        /\ Block[f] < Block[e] \/ (Block[f] = Block[e] /\ Index[f] <= Index[e])
    BY <2>1 DEF StateHasPosition
  <2>3. Block[e] \in Nat /\ Index[e] \in Nat /\ Block[f] \in Nat /\ Index[f] \in Nat
    BY BridgeAssumption DEF Applied
  <2>4. Block[e] = Block[f] /\ Index[e] = Index[f]
    BY <2>2, <2>3
  <2>5. e = f
    BY <2>4, LogPositions, Zenon DEF Applied
  <2> QED
    BY <2>1, <2>5, Zenon
<1> QED
  BY <1>1, <1>2, StateHasPositionStep, PTL DEF Spec

-----------------------------------------------------------------------------
\* e was taken up by the chain
TakenUp(e) == pending[e] > 0 \/ e \in closed

\* n has not lost an event it is done reading
Intact(n) == \A e \in Event \ Legacy : Block[e] < next[n] => TakenUp(e) \/ e \in evts[n]

\* What makes NoEventForgotten inductive: what was acknowledged was taken up, although
\* its hash may be forgotten, and only a restart makes a node lose what it has read.
OnlyRestartsLose ==
  /\ next \in [Node -> Nat] /\ saved \in Nat
  /\ pending \in [Event -> Nat] /\ restarts \in 0 .. MaxRestarts
  /\ \A e \in acked \cap Event : TakenUp(e)
  /\ \E B \in SUBSET Node : /\ IsFiniteSet(B) /\ Cardinality(B) <= restarts
                            /\ \A n \in Node \ B : Intact(n)

\* The last block of a request is the smaller of two heights (issueFilteringRequest).
LEMMA RequestToType ==
  ASSUME NEW n \in Node, eth \in Nat, next \in [Node -> Nat]
  PROVE  RequestTo(n) \in Nat
<1>1. next[n] + MaxEthereumBlocks \in Nat
  BY BridgeAssumption
<1>2. \E x \in {next[n] + MaxEthereumBlocks, eth} : \A y \in {next[n] + MaxEthereumBlocks, eth} : x <= y
  BY <1>1
<1> QED
  BY <1>1, <1>2 DEF RequestTo, Min

\* A poll hands on what it found, but for what was acknowledged (ForwardFromSelf), and
\* goes on with the block after the last one it asked for.
LEMMA PollKeepsIntact ==
  ASSUME HeightsAreNumbers, OnlyRestartsLose, NEW n \in Node, Poll(n)
  PROVE  /\ next' \in [Node -> Nat]
         /\ \A m \in Node : Intact(m) => Intact(m)'
<1>1. eth \in Nat /\ next \in [Node -> Nat] /\ evts \in [Node -> SUBSET (Event \cup Nat)]
  BY Zenon DEF HeightsAreNumbers, OnlyRestartsLose
<1>2. RequestTo(n) \in Nat
  BY <1>1, RequestToType, Zenon
<1>3. next' = [next EXCEPT ![n] = RequestTo(n) + 1] /\ next' \in [Node -> Nat]
  BY <1>1, <1>2 DEF Poll
<1>4. PICK beat : evts' = [evts EXCEPT ![n] = evts[n] \cup ((Found(n) \cup beat) \ acked)]
  BY Zenon DEF Poll, Forwarded
<1>6. \A e \in Event : TakenUp(e)' <=> TakenUp(e)
  BY Zenon DEF Poll, chain, TakenUp
<1>7. ASSUME NEW m \in Node, Intact(m) PROVE Intact(m)'
  <2>1. CASE m # n
    <3>1. next'[m] = next[m] /\ evts'[m] = evts[m]
      BY <1>1, <1>3, <1>4, <2>1, Zenon
    <3> QED
      BY <1>6, <1>7, <3>1, Zenon DEF Intact
  <2>2. CASE m = n
    <3> SUFFICES ASSUME NEW e \in Event \ Legacy, Block[e] < next'[n]
                 PROVE  TakenUp(e) \/ e \in evts'[n]
      BY <1>6, <2>2, Zenon DEF Intact
    <3>1. evts'[n] = evts[n] \cup ((Found(n) \cup beat) \ acked) /\ next'[n] = RequestTo(n) + 1
      BY <1>1, <1>3, <1>4, Zenon
    <3>2. CASE Block[e] < next[n]
      BY <1>7, <2>2, <3>1, <3>2, Zenon DEF Intact
    <3>3. CASE ~(Block[e] < next[n])
      <4>1. Block[e] \in next[n] .. RequestTo(n)
        BY <1>1, <1>2, <3>1, <3>3, BridgeAssumption
      <4>2. e \in Found(n)
        BY <4>1, Zenon DEF Found
      <4> QED
        BY <3>1, <4>2, Zenon DEF OnlyRestartsLose
    <3> QED
      BY <3>2, <3>3
  <2> QED
    BY <2>1, <2>2
<1> QED
  BY <1>3, <1>7, Zenon

\* What is acknowledged is taken off the nodes' lists and its check starts in the same
\* step; what was acknowledged before is left alone (processChainEvent).
LEMMA DeliverKeepsIntact ==
  ASSUME HeightsAreNumbers, OnlyRestartsLose, NEW n, NEW x, Deliver(n, x)
  PROVE  OnlyRestartsLose'
<1>1. CASE ~Ack(x)
  BY <1>1, Zenon DEF OnlyRestartsLose, Deliver, TakenUp, Intact
<1>2. CASE Ack(x)
  <2>1. /\ acked' = acked \cup {x} /\ evts' = [m \in Node |-> evts[m] \ {x}]
        /\ pending' = (IF x \in Event THEN [pending EXCEPT ![x] = @ + 1] ELSE pending)
        /\ UNCHANGED <<next, saved, restarts, closed>>
    BY <1>2, Zenon DEF Deliver
  <2>2. pending \in [Event -> Nat] /\ evts \in [Node -> SUBSET (Event \cup Nat)]
    BY Zenon DEF HeightsAreNumbers, OnlyRestartsLose
  <2>3. /\ pending' \in [Event -> Nat]
        /\ \A e \in Event : (pending[e] > 0 => pending'[e] > 0) /\ (e = x => pending'[e] > 0)
    BY <2>1, <2>2
  <2>4. \A e \in Event : (TakenUp(e) => TakenUp(e)') /\ (e = x => TakenUp(e)')
    BY <2>1, <2>3, Zenon DEF TakenUp
  <2>5. \A m \in Node : evts'[m] = evts[m] \ {x}
    BY <2>1, <2>2
  <2>6. \A e \in acked' \cap Event : TakenUp(e)'
    BY <2>1, <2>4, Zenon DEF OnlyRestartsLose
  <2>7. ASSUME NEW m \in Node, Intact(m) PROVE Intact(m)'
    BY <2>1, <2>4, <2>5, <2>7, Zenon DEF Intact
  <2> QED
    BY <2>1, <2>3, <2>6, <2>7, Zenon DEF OnlyRestartsLose
<1> QED
  BY <1>1, <1>2

\* An action that is over stays closed (processAssetActions).
LEMMA ActionKeepsIntact ==
  ASSUME OnlyRestartsLose, NEW e \in Event, ActionOk(e) \/ ActionRejected(e)
  PROVE  OnlyRestartsLose'
<1>1. /\ pending[e] > 0 /\ pending' = [pending EXCEPT ![e] = @ - 1] /\ closed' = closed \cup {e}
      /\ UNCHANGED <<next, saved, restarts, acked, evts>>
  BY Zenon DEF ActionOk, ActionRejected
<1>2. pending \in [Event -> Nat]
  BY Zenon DEF OnlyRestartsLose
<1>3. pending' \in [Event -> Nat] /\ \A f \in Event : f # e => pending'[f] = pending[f]
  BY <1>1, <1>2
<1>4. \A f \in Event : TakenUp(f) => TakenUp(f)'
  BY <1>1, <1>3, Zenon DEF TakenUp
<1>5. ASSUME NEW m \in Node, Intact(m) PROVE Intact(m)'
  BY <1>1, <1>4, <1>5, Zenon DEF Intact
<1> QED
  BY <1>1, <1>3, <1>4, <1>5, Zenon DEF OnlyRestartsLose

\* A restarted node may have lost what it held; it is one more.
LEMMA RestartLosesOne ==
  ASSUME HeightsAreNumbers, OnlyRestartsLose, NEW n \in Node, Restart(n)
  PROVE  OnlyRestartsLose'
<1>1. /\ restarts < MaxRestarts /\ restarts' = restarts + 1
      /\ evts' = [evts EXCEPT ![n] = {}] /\ next' = [next EXCEPT ![n] = StartingBlock]
      /\ UNCHANGED <<saved, pending, acked, closed>>
  BY Zenon DEF Restart, chain
<1>2. /\ eth \in Nat /\ next \in [Node -> Nat] /\ saved \in Nat /\ restarts \in 0 .. MaxRestarts
      /\ evts \in [Node -> SUBSET (Event \cup Nat)]
  BY Zenon DEF HeightsAreNumbers, OnlyRestartsLose
<1>3. next' \in [Node -> Nat] /\ restarts' \in 0 .. MaxRestarts
  BY <1>1, <1>2, BridgeAssumption DEF StartingBlock
<1>4. PICK B \in SUBSET Node : /\ IsFiniteSet(B) /\ Cardinality(B) <= restarts
                               /\ \A m \in Node \ B : Intact(m)
  BY Zenon DEF OnlyRestartsLose
<1>5. IsFiniteSet(B \cup {n}) /\ Cardinality(B \cup {n}) <= restarts'
  <2>1. /\ Cardinality(B) \in Nat /\ IsFiniteSet(B \cup {n})
        /\ Cardinality(B \cup {n}) = IF n \in B THEN Cardinality(B) ELSE Cardinality(B) + 1
    BY <1>4, FS_CardinalityType, FS_AddElement, Zenon
  <2> QED
    BY <1>1, <1>2, <1>4, <2>1
<1>6. \A e \in Event : TakenUp(e)' <=> TakenUp(e)
  BY <1>1, Zenon DEF TakenUp
<1>7. ASSUME NEW m \in Node \ (B \cup {n}) PROVE Intact(m)'
  <2>1. next'[m] = next[m] /\ evts'[m] = evts[m] /\ Intact(m)
    BY <1>1, <1>2, <1>4, Zenon
  <2> QED
    BY <1>6, <2>1, Zenon DEF Intact
<1>8. \A e \in acked' \cap Event : TakenUp(e)'
  BY <1>1, <1>6, Zenon DEF OnlyRestartsLose
<1>9. B \cup {n} \in SUBSET Node
  OBVIOUS
<1> QED
  BY <1>1, <1>3, <1>5, <1>7, <1>8, <1>9, Zenon DEF OnlyRestartsLose

LEMMA OnlyRestartsLoseStep ==
  HeightsAreNumbers /\ OnlyRestartsLose /\ [Next]_vars => OnlyRestartsLose'
<1> SUFFICES ASSUME HeightsAreNumbers, OnlyRestartsLose, [Next]_vars PROVE OnlyRestartsLose'
  OBVIOUS
<1>1. CASE UNCHANGED <<next, evts, restarts, acked, pending, closed, saved>>
  BY <1>1, Zenon DEF OnlyRestartsLose, Intact, TakenUp
<1>2. CASE TakeSnapshot
  BY <1>2, Zenon DEF HeightsAreNumbers, OnlyRestartsLose, TakeSnapshot, chain, Intact, TakenUp
<1>3. ASSUME NEW n \in Node, Poll(n) PROVE OnlyRestartsLose'
  <2>1. UNCHANGED <<saved, restarts, acked, pending, closed>>
    BY <1>3, Zenon DEF Poll, chain
  <2>2. \A e : TakenUp(e)' <=> TakenUp(e)
    BY <2>1, Zenon DEF TakenUp
  <2> QED
    BY <1>3, <2>1, <2>2, PollKeepsIntact, Zenon DEF OnlyRestartsLose
<1>4. ASSUME NEW x \in acked, ForgetAcked(x) PROVE OnlyRestartsLose'
  BY <1>4, Zenon DEF ForgetAcked, OnlyRestartsLose, Intact, TakenUp
<1>5. CASE EthereumGrows
  BY <1>1, <1>5, Zenon DEF EthereumGrows, chain
<1>6. ASSUME NEW n, NEW x, Send(n, x) \/ CommandLost(n, x) PROVE OnlyRestartsLose'
  BY <1>1, <1>6, Zenon DEF Send, CommandLost, chain
<1>7. ASSUME NEW b, CloseHeartbeat(b) \/ \E n \in Node : VoteHeartbeat(n, b) PROVE OnlyRestartsLose'
  BY <1>1, <1>7, Zenon DEF CloseHeartbeat, VoteHeartbeat
<1>8. CASE UNCHANGED vars
  BY <1>1, <1>8, Zenon DEF vars, chain
<1> QED
  BY <1>2, <1>3, <1>4, <1>5, <1>6, <1>7, <1>8, DeliverKeepsIntact, ActionKeepsIntact,
     RestartLosesOne, Zenon DEF Next

\* When not every node may restart and no event was missed before the nodes started: what
\* all nodes are done reading is taken up by the chain or still being sent by somebody,
\* whatever chain events are lost, repeated or forgotten.
THEOREM NothingReadIsLost ==
  ASSUME IsFiniteSet(Node), MaxRestarts < Cardinality(Node),
         \A e \in Event \ Legacy : Block[e] >= Origin
  PROVE  Spec => []NoEventForgotten
<1>1. Init => OnlyRestartsLose
  <2> SUFFICES ASSUME Init PROVE OnlyRestartsLose
    OBVIOUS
  <2>1. /\ next = [n \in Node |-> Origin] /\ acked = {} /\ pending = [e \in Event |-> 0]
        /\ saved = Recorded /\ restarts = 0
    BY Zenon DEF Init
  <2>2. /\ next \in [Node -> Nat] /\ saved \in Nat /\ pending \in [Event -> Nat]
        /\ restarts \in 0 .. MaxRestarts
    BY <2>1, BridgeAssumption
  <2>3. ASSUME NEW n \in Node PROVE Intact(n)
    BY <2>1, BridgeAssumption DEF Intact
  <2>4. IsFiniteSet({}) /\ Cardinality({}) <= restarts
    BY <2>1, FS_EmptySet
  <2> QED
    BY <2>1, <2>2, <2>3, <2>4, Zenon DEF OnlyRestartsLose
<1>2. OnlyRestartsLose => NoEventForgotten
  <2> SUFFICES ASSUME OnlyRestartsLose PROVE NoEventForgotten
    OBVIOUS
  <2>1. PICK B \in SUBSET Node : /\ IsFiniteSet(B) /\ Cardinality(B) <= restarts
                                 /\ \A n \in Node \ B : Intact(n)
    BY Zenon DEF OnlyRestartsLose
  <2>2. B # Node
    <3>1. Cardinality(B) \in Nat /\ restarts \in 0 .. MaxRestarts
      BY <2>1, FS_CardinalityType, Zenon DEF OnlyRestartsLose
    <3> QED
      BY <2>1, <3>1, BridgeAssumption
  <2>3. PICK n \in Node : Intact(n)
    BY <2>1, <2>2, Zenon
  <2> QED
    BY <2>3, Zenon DEF NoEventForgotten, Intact, TakenUp
<1> QED
  BY <1>1, <1>2, HeightsHold, OnlyRestartsLoseStep, PTL DEF Spec

-----------------------------------------------------------------------------
(* The buckets of acknowledged hashes (AckedEvents).                       *)

\* A set of numbers that is not empty has a least one.
LEMMA LeastNumber ==
  ASSUME NEW T \in SUBSET Nat, T # {}
  PROVE  \E x \in T : \A y \in T : x <= y
<1>1. PICK x \in T : \A y \in T : <<y, x>> \notin OpToRel(<, Nat)
  BY NatLessThanWellFounded, WFMin, Zenon
<1>2. ASSUME NEW y \in T PROVE x <= y
  <2>1. x \in Nat /\ y \in Nat
    OBVIOUS
  <2>2. ~(y < x)
    BY <1>1, <2>1, Zenon DEF OpToRel
  <2> QED
    BY <2>1, <2>2
<1> QED
  BY <1>2

\* Buckets do not overlap: each is open for an hour, and the next one starts later.
Spaced(bs) ==
  /\ bs \subseteq Bucket
  /\ \A b, c \in bs : b.ts < c.ts => b.ts + OneHour < c.ts
  /\ \A b, c \in bs : b.ts = c.ts => b = c

\* Rebucketed as a recursive function of sets of buckets.
Adds(f, bs) ==
  f = [s \in SUBSET bs |->
         IF s = {} THEN {} ELSE AddAt(f[s \ {Latest(s)}], Latest(s).ts, Latest(s).hashes)]

\* What an upgrade makes of the buckets is the value of that function (restore).
LEMMA RebucketedIsFold ==
  ASSUME NEW bs
  PROVE  Rebucketed(bs) = (CHOOSE f : Adds(f, bs))[bs]
BY Zenon DEF Rebucketed, MapThenFoldSet, Adds

\* A set of buckets that is not empty has a latest one.
LEMMA LatestBucket ==
  ASSUME NEW s \in SUBSET Bucket, s # {}
  PROVE  Latest(s) \in s /\ \A c \in s : c.ts <= Latest(s).ts
<1> DEFINE T == {MaxTime - b.ts : b \in s}
<1>1. \A b \in s : b.ts \in 0 .. MaxTime
  BY DEF Bucket
<1>2. T \in SUBSET Nat /\ T # {}
  BY <1>1, AckedAssumption
<1>3. PICK x \in T : \A y \in T : x <= y
  BY <1>2, LeastNumber, Zenon
<1>4. PICK b \in s : x = MaxTime - b.ts
  BY <1>3
<1>5. ASSUME NEW c \in s PROVE c.ts <= b.ts
  <2>1. MaxTime - b.ts <= MaxTime - c.ts
    BY <1>3, <1>4, Zenon
  <2>2. b.ts \in 0 .. MaxTime /\ c.ts \in 0 .. MaxTime
    BY <1>1, Zenon
  <2> QED
    BY <2>1, <2>2, AckedAssumption
<1> QED
  BY <1>5, Zenon DEF Latest

\* Adding the latest of some buckets to the others puts it back (AddAt).
LEMMA AddLatest ==
  ASSUME NEW s, Spaced(s), s # {}
  PROVE  AddAt(s \ {Latest(s)}, Latest(s).ts, Latest(s).hashes) = s
<1> DEFINE x == Latest(s)
           rest == s \ {x}
<1>1. x \in s /\ \A c \in s : c.ts <= x.ts
  BY LatestBucket, Zenon DEF Spaced
<1> HIDE DEF x
<1>2. x \in Bucket /\ x = [ts |-> x.ts, hashes |-> x.hashes]
  BY <1>1 DEF Spaced, Bucket
<1>3. ASSUME NEW b \in rest PROVE b.ts # x.ts /\ ~Covers(b, x.ts)
  <2>1. b \in s /\ b # x /\ b.ts \in 0 .. MaxTime /\ x.ts \in 0 .. MaxTime
    BY <1>1 DEF Spaced, Bucket
  <2>2. b.ts # x.ts
    BY <1>1, <2>1, Zenon DEF Spaced
  <2>3. b.ts <= x.ts
    BY <1>1, <2>1
  <2>4. b.ts < x.ts
    BY <2>1, <2>2, <2>3, AckedAssumption
  <2>5. b.ts + OneHour < x.ts
    BY <1>1, <2>1, <2>4, Zenon DEF Spaced
  <2>6. ~(b.ts + OneHour >= x.ts)
    BY <2>1, <2>5, AckedAssumption
  <2> QED
    BY <2>2, <2>6, Zenon DEF Covers
<1>4. {b \in rest : Covers(b, x.ts)} = {} /\ {b \in rest : b.ts # x.ts} = rest
  BY <1>3, Zenon
<1>5. AddAt(rest, x.ts, x.hashes) = rest \cup {[ts |-> x.ts, hashes |-> x.hashes]}
  BY <1>4, Zenon DEF AddAt
<1>6. rest \cup {x} = s
  BY <1>1
<1> QED
  BY <1>2, <1>5, <1>6, Zenon DEF x

\* Buckets that do not overlap come through an upgrade as they are: whichever function
\* restore computes, it gives back every set of them.  Of those it would not give back,
\* one with the least last bucket leads to a contradiction.
LEMMA RebucketedIsExact ==
  ASSUME NEW bs, Spaced(bs)
  PROVE  Rebucketed(bs) = bs
<1>1. ASSUME NEW s \in SUBSET bs PROVE Spaced(s)
  BY Zenon DEF Spaced
<1>2. Adds([s \in SUBSET bs |-> s], bs)
  <2> DEFINE g == [s \in SUBSET bs |-> s]
  <2>1. ASSUME NEW s \in SUBSET bs, s # {}
        PROVE  AddAt(g[s \ {Latest(s)}], Latest(s).ts, Latest(s).hashes) = s
    <3>1. g[s \ {Latest(s)}] = s \ {Latest(s)}
      BY Zenon
    <3> QED
      BY <1>1, <2>1, <3>1, AddLatest, Zenon
  <2>2. \A s \in SUBSET bs :
          g[s] = IF s = {} THEN {} ELSE AddAt(g[s \ {Latest(s)}], Latest(s).ts, Latest(s).hashes)
    BY <2>1, Zenon
  <2> HIDE DEF g
  <2>3. g = [s \in SUBSET bs |-> g[s]]
    BY Zenon DEF g
  <2>4. g = [s \in SUBSET bs |->
               IF s = {} THEN {} ELSE AddAt(g[s \ {Latest(s)}], Latest(s).ts, Latest(s).hashes)]
    BY <2>2, <2>3, Zenon
  <2> QED
    BY <2>4, Zenon DEF Adds, g
<1>3. PICK f : f = (CHOOSE g : Adds(g, bs)) /\ Adds(f, bs)
  BY <1>2, Zenon
<1>4. \A s \in SUBSET bs :
        f[s] = IF s = {} THEN {} ELSE AddAt(f[s \ {Latest(s)}], Latest(s).ts, Latest(s).hashes)
  BY <1>3, Zenon DEF Adds
<1> DEFINE Bad == {s \in SUBSET bs : f[s] # s}
           T == {Latest(s).ts : s \in Bad}
<1>5. ASSUME NEW s \in Bad
      PROVE  s # {} /\ s \in SUBSET Bucket /\ Latest(s) \in s /\ Latest(s).ts \in Nat
  <2>1. s # {} /\ s \in SUBSET Bucket
    BY <1>4, Zenon DEF Spaced
  <2>2. Latest(s) \in s
    BY <2>1, LatestBucket, Zenon
  <2> QED
    BY <2>1, <2>2 DEF Bucket
<1>6. Bad = {}
  <2> SUFFICES ASSUME Bad # {} PROVE FALSE
    OBVIOUS
  <2>1. T \in SUBSET Nat /\ T # {}
    BY <1>5
  <2>2. PICK t \in T : \A u \in T : t <= u
    BY <2>1, LeastNumber, Zenon
  <2>3. PICK s \in Bad : t = Latest(s).ts
    BY <2>2
  <2>4. PICK r : r = s \ {Latest(s)}
    BY Zenon
  <2>5. r \in SUBSET bs /\ f[s] = AddAt(f[r], Latest(s).ts, Latest(s).hashes)
    BY <1>4, <1>5, <2>3, <2>4, Zenon
  <2>6. f[r] # r
    BY <1>1, <1>5, <2>3, <2>4, <2>5, AddLatest, Zenon
  <2>7. r \in Bad
    BY <2>5, <2>6, Zenon
  <2>8. Latest(r) \in r /\ Latest(r).ts \in T
    BY <1>5, <2>7, Zenon
  <2>9. /\ Latest(r) \in s /\ Latest(r) # Latest(s) /\ Latest(s) \in s
        /\ \A c \in s : c.ts <= Latest(s).ts
    BY <1>5, <2>3, <2>4, <2>8, LatestBucket, Zenon
  <2>10. Latest(r).ts # Latest(s).ts
    BY <1>1, <2>9, Zenon DEF Spaced
  <2>11. Latest(r).ts <= Latest(s).ts /\ Latest(s).ts <= Latest(r).ts
    BY <2>2, <2>3, <2>8, <2>9, Zenon
  <2>12. Latest(r).ts \in Nat /\ Latest(s).ts \in Nat
    BY <1>5, <2>3, <2>7, Zenon
  <2> QED
    BY <2>10, <2>11, <2>12
<1>7. f[bs] = bs
  BY <1>6, Zenon
<1> QED
  BY <1>3, <1>7, RebucketedIsFold, Zenon

-----------------------------------------------------------------------------
\* Every hash that must still be recognised is in a bucket that was open, for an hour,
\* when it was acknowledged.
Findable ==
  \A h \in Hash : ackedAt[h] >= 0 /\ now - ackedAt[h] < Keep - OneHour =>
    \E b \in events : h \in b.hashes /\ b.ts + OneHour >= ackedAt[h]

AckedInv ==
  /\ AckedTypeOK /\ Spaced(events) /\ Findable
  /\ \A b \in events : b.ts <= now

\* AddAt at the block time: a bucket that covers it gets the hashes, or else a new
\* bucket, later than the others by more than an hour, does.
LEMMA AddedNow ==
  ASSUME Spaced(events), now \in 0 .. MaxTime, \A b \in events : b.ts <= now,
         NEW H \in SUBSET Hash
  PROVE  LET new == AddAt(events, now, H) IN
         /\ Spaced(new) /\ \A b \in new : b.ts <= now
         /\ \A b \in events : \E c \in new : c.ts = b.ts /\ b.hashes \subseteq c.hashes
         /\ \E c \in new : H \subseteq c.hashes /\ c.ts + OneHour >= now
<1> DEFINE covering == {b \in events : Covers(b, now)}
           new == AddAt(events, now, H)
<1>0. \A b \in events : b \in Bucket /\ b.ts \in 0 .. MaxTime /\ b.hashes \in SUBSET Hash
  BY DEF Spaced, Bucket
<1>1. CASE covering = {}
  <2> DEFINE x == [ts |-> now, hashes |-> H]
  <2>1. ASSUME NEW b \in events PROVE b.ts # now /\ b.ts < now /\ b.ts + OneHour < now
    BY <1>0, <1>1, AckedAssumption DEF Covers
  <2>2. new = {b \in events : b.ts # now} \cup {x}
    BY <1>1, Zenon DEF AddAt
  <2>3. new = events \cup {x}
    BY <2>1, <2>2
  <2>4. x \in Bucket /\ x.ts = now /\ x.hashes = H /\ now + OneHour >= now
    BY AckedAssumption DEF Bucket
  <2> HIDE DEF x, new
  <2>5. ASSUME NEW b \in new, NEW c \in new
        PROVE  (b.ts < c.ts => b.ts + OneHour < c.ts) /\ (b.ts = c.ts => b = c)
    <3>1. CASE b \in events /\ c \in events
      BY <3>1, Zenon DEF Spaced
    <3>2. CASE b \in events /\ c = x
      BY <2>1, <2>4, <3>2, Zenon
    <3>3. CASE b = x /\ c \in events
      <4>1. c.ts < now /\ c.ts \in 0 .. MaxTime /\ b.ts = now
        BY <1>0, <2>1, <2>4, <3>3, Zenon
      <4> QED
        BY <4>1, AckedAssumption
    <3>4. CASE b = x /\ c = x
      BY <2>4, <3>4, AckedAssumption
    <3> QED
      BY <2>3, <3>1, <3>2, <3>3, <3>4, Zenon
  <2>6. Spaced(new)
    BY <1>0, <2>3, <2>4, <2>5, Zenon DEF Spaced
  <2>7. \A b \in new : b.ts <= now
    BY <2>3, <2>4, AckedAssumption
  <2>8. \A b \in events : \E c \in new : c.ts = b.ts /\ b.hashes \subseteq c.hashes
    BY <2>3, Zenon
  <2>9. \E c \in new : H \subseteq c.hashes /\ c.ts + OneHour >= now
    BY <2>3, <2>4, SMTT(30)
  <2> QED
    BY <2>6, <2>7, <2>8, <2>9, Zenon DEF new
<1>2. CASE covering # {}
  <2>1. ASSUME NEW b \in covering, NEW c \in covering PROVE b.ts <= c.ts
    <3>1. b \in events /\ c \in events /\ b.ts \in 0 .. MaxTime /\ c.ts \in 0 .. MaxTime
      BY <1>0
    <3>2. c.ts + OneHour >= now /\ b.ts <= now
      BY Zenon DEF Covers
    <3>3. c.ts < b.ts => c.ts + OneHour < b.ts
      BY <3>1, Zenon DEF Spaced
    <3> QED
      BY <3>1, <3>2, <3>3, AckedAssumption
  <2> DEFINE first == CHOOSE b \in covering : \A c \in covering : b.ts <= c.ts
             x == [first EXCEPT !.hashes = @ \cup H]
  <2>2. first \in covering
    BY <1>2, <2>1, Zenon
  <2>3. new = (events \ {first}) \cup {x}
    BY <1>2, Zenon DEF AddAt
  <2> HIDE DEF first, new
  <2>4. first \in events /\ first.ts + OneHour >= now /\ first.ts <= now
    BY <2>2, Zenon DEF Covers
  <2>5. x \in Bucket /\ x.ts = first.ts /\ x.hashes = first.hashes \cup H
    BY <2>4 DEF Spaced, Bucket
  <2> HIDE DEF x
  <2>6. ASSUME NEW b \in new PROVE \E c \in events : c.ts = b.ts /\ ((b = c /\ b # first) \/ (c = first /\ b = x))
    BY <2>3, <2>4, <2>5, <2>6, Zenon
  <2>7. ASSUME NEW b \in new, NEW c \in new
        PROVE  (b.ts < c.ts => b.ts + OneHour < c.ts) /\ (b.ts = c.ts => b = c)
    <3>1. PICK b1 \in events : b1.ts = b.ts /\ ((b = b1 /\ b # first) \/ (b1 = first /\ b = x))
      BY <2>6, Zenon
    <3>2. PICK c1 \in events : c1.ts = c.ts /\ ((c = c1 /\ c # first) \/ (c1 = first /\ c = x))
      BY <2>6, Zenon
    <3>3. (b1.ts < c1.ts => b1.ts + OneHour < c1.ts) /\ (b1.ts = c1.ts => b1 = c1)
      BY Zenon DEF Spaced
    <3>4. b1 = c1 => b = c
      BY <3>1, <3>2
    <3> QED
      BY <3>1, <3>2, <3>3, <3>4, Zenon
  <2>8. Spaced(new)
    BY <1>0, <2>3, <2>5, <2>7, Zenon DEF Spaced
  <2>9. \A b \in new : b.ts <= now
    BY <2>6, Zenon
  <2>10. \A b \in events : \E c \in new : c.ts = b.ts /\ b.hashes \subseteq c.hashes
    BY <2>3, <2>5, Zenon
  <2>11. \E c \in new : H \subseteq c.hashes /\ c.ts + OneHour >= now
    BY <2>3, <2>4, <2>5, Zenon
  <2> QED
    BY <2>8, <2>9, <2>10, <2>11, Zenon DEF new
<1> QED
  BY <1>1, <1>2

\* Time passes, and buckets become too old: none that still has a hash to be recognised.
LEMMA OnTickInv == ASSUME AckedInv, NEW t \in 0 .. MaxTime, OnTick(t) PROVE AckedInv'
<1>1. /\ now \in 0 .. MaxTime /\ ackedAt \in [Hash -> -1 .. MaxTime] /\ Spaced(events)
      /\ upgrades \in 0 .. MaxUpgrades
  BY Zenon DEF AckedInv, AckedTypeOK
<1>2. t \in now .. Min({now + MaxStep, MaxTime}) /\ now' = t /\ ackedAt' = ackedAt /\ upgrades' = upgrades
  BY Zenon DEF OnTick
<1>3. now <= t
  <2>1. Min({now + MaxStep, MaxTime}) \in Int
    <3>1. now + MaxStep \in Int /\ MaxTime \in Int
      BY <1>1, AckedAssumption
    <3>2. \E m \in {now + MaxStep, MaxTime} : \A k \in {now + MaxStep, MaxTime} : m <= k
      BY <3>1
    <3>3. Min({now + MaxStep, MaxTime}) \in {now + MaxStep, MaxTime}
      BY <3>2, Zenon DEF Min
    <3> QED
      BY <3>1, <3>3
  <2> QED
    BY <1>1, <1>2, <2>1
<1>4. events' = {b \in events : b.ts > t - Keep}
  BY Zenon DEF OnTick, RemoveBefore
<1>5. \A b \in events : b.ts \in 0 .. MaxTime /\ b.ts <= now
  BY DEF AckedInv, Spaced, Bucket
<1>6. Spaced(events')
  BY <1>1, <1>4, Zenon DEF Spaced
<1>7. events' \subseteq Bucket /\ \A b, c \in events' : b.ts = c.ts => b = c
  BY <1>6, Zenon DEF Spaced
<1>8. AckedTypeOK'
  BY <1>1, <1>2, <1>7, Zenon DEF AckedTypeOK
<1>9. \A b \in events' : b.ts <= now'
  BY <1>1, <1>2, <1>3, <1>4, <1>5
<1>10. ASSUME NEW h \in Hash, ackedAt'[h] >= 0, now' - ackedAt'[h] < Keep - OneHour
       PROVE  \E b \in events' : h \in b.hashes /\ b.ts + OneHour >= ackedAt'[h]
  <2>1. ackedAt[h] \in -1 .. MaxTime /\ ackedAt[h] >= 0 /\ t - ackedAt[h] < Keep - OneHour
    BY <1>1, <1>2, <1>10, Zenon
  <2>2. now - ackedAt[h] < Keep - OneHour
    BY <1>1, <1>3, <2>1, AckedAssumption
  <2>3. PICK b \in events : h \in b.hashes /\ b.ts + OneHour >= ackedAt[h]
    BY <2>1, <2>2, Zenon DEF AckedInv, Findable
  <2>4. b.ts \in 0 .. MaxTime
    BY <1>5, Zenon
  <2>5. b.ts > t - Keep
    BY <1>1, <2>1, <2>3, <2>4, AckedAssumption
  <2> QED
    BY <1>2, <1>4, <2>3, <2>5, Zenon
<1> QED
  BY <1>6, <1>8, <1>9, <1>10, Zenon DEF AckedInv, Findable

\* What is acknowledged goes into a bucket that is open; the others keep their hashes.
LEMMA AckHashInv == ASSUME AckedInv, NEW h \in Hash, AckHash(h) PROVE AckedInv'
<1>1. /\ now \in 0 .. MaxTime /\ ackedAt \in [Hash -> -1 .. MaxTime] /\ Spaced(events)
      /\ upgrades \in 0 .. MaxUpgrades /\ \A b \in events : b.ts <= now
  BY Zenon DEF AckedInv, AckedTypeOK
<1>2. /\ now' = now /\ upgrades' = upgrades /\ ackedAt' = [ackedAt EXCEPT ![h] = now]
      /\ events' = AddAt(events, now, {h})
  BY Zenon DEF AckHash
<1>3. /\ Spaced(events') /\ \A b \in events' : b.ts <= now
      /\ \A b \in events : \E c \in events' : c.ts = b.ts /\ b.hashes \subseteq c.hashes
      /\ \E c \in events' : {h} \subseteq c.hashes /\ c.ts + OneHour >= now
  <2>1. {h} \in SUBSET Hash
    OBVIOUS
  <2>2. LET new == AddAt(events, now, {h}) IN
        /\ Spaced(new) /\ \A b \in new : b.ts <= now
        /\ \A b \in events : \E c \in new : c.ts = b.ts /\ b.hashes \subseteq c.hashes
        /\ \E c \in new : {h} \subseteq c.hashes /\ c.ts + OneHour >= now
    BY <1>1, <2>1, AddedNow, Zenon
  <2> QED
    BY <1>2, <2>2, Zenon
<1>4. events' \subseteq Bucket /\ \A b, c \in events' : b.ts = c.ts => b = c
  BY <1>3, Zenon DEF Spaced
<1>5. ackedAt' \in [Hash -> -1 .. MaxTime]
  <2>1. now \in -1 .. MaxTime
    BY <1>1, AckedAssumption
  <2> QED
    BY <1>1, <1>2, <2>1, Zenon
<1>6. AckedTypeOK'
  BY <1>1, <1>2, <1>4, <1>5, Zenon DEF AckedTypeOK
<1>7. ASSUME NEW g \in Hash, ackedAt'[g] >= 0, now' - ackedAt'[g] < Keep - OneHour
      PROVE  \E b \in events' : g \in b.hashes /\ b.ts + OneHour >= ackedAt'[g]
  <2>1. CASE g = h
    <3>1. ackedAt'[g] = now
      BY <1>1, <1>2, <2>1, Zenon
    <3> QED
      BY <1>3, <2>1, <3>1, Zenon
  <2>2. CASE g # h
    <3>1. ackedAt'[g] = ackedAt[g]
      BY <1>1, <1>2, <2>2, Zenon
    <3>2. PICK b \in events : g \in b.hashes /\ b.ts + OneHour >= ackedAt[g]
      BY <1>2, <1>7, <3>1, Zenon DEF AckedInv, Findable
    <3>3. PICK c \in events' : c.ts = b.ts /\ b.hashes \subseteq c.hashes
      BY <1>3, Zenon
    <3> QED
      BY <3>1, <3>2, <3>3, Zenon
  <2> QED
    BY <2>1, <2>2
<1>8. \A b \in events' : b.ts <= now'
  BY <1>2, <1>3, Zenon
<1> QED
  BY <1>3, <1>6, <1>7, <1>8, Zenon DEF AckedInv, Findable

\* Every step keeps the buckets apart and the hashes findable.
LEMMA AckedInvStep == AckedInv /\ [AckedNext]_ackedVars => AckedInv'
<1> SUFFICES ASSUME AckedInv, [AckedNext]_ackedVars PROVE AckedInv'
  OBVIOUS
<1>1. ASSUME Upgrade PROVE AckedInv'
  <2>1. events' = events /\ now' = now /\ ackedAt' = ackedAt
    BY <1>1, RebucketedIsExact, Zenon DEF Upgrade, AckedInv
  <2>2. upgrades' \in 0 .. MaxUpgrades
    BY <1>1, AckedAssumption DEF Upgrade, AckedInv, AckedTypeOK
  <2> QED
    BY <2>1, <2>2, Zenon DEF AckedInv, AckedTypeOK, Findable
<1>2. CASE UNCHANGED ackedVars
  BY <1>2, Zenon DEF ackedVars, AckedInv, AckedTypeOK, Findable
<1> QED
  BY <1>1, <1>2, OnTickInv, AckHashInv, Zenon DEF AckedNext

\* The invariant holds from the empty set of buckets on.
LEMMA AckedInvHolds == AckedSpec => []AckedInv
<1>1. AckedInit => AckedInv
  <2> SUFFICES ASSUME AckedInit PROVE AckedInv
    OBVIOUS
  <2>1. AckedTypeOK
    BY AckedAssumption DEF AckedInit, AckedTypeOK
  <2>2. events = {} /\ \A h \in Hash : ackedAt[h] = -1
    BY Zenon DEF AckedInit
  <2>3. Findable
    BY <2>2 DEF Findable
  <2> QED
    BY <2>1, <2>2, <2>3, Zenon DEF AckedInv, Spaced
<1> QED
  BY <1>1, AckedInvStep, PTL DEF AckedSpec

\* Time, buckets and the history range over the values the code can store (AckedEvents).
THEOREM AckedTypeCorrect == AckedSpec => []AckedTypeOK
<1>1. AckedInv => AckedTypeOK
  BY Zenon DEF AckedInv
<1> QED
  BY <1>1, AckedInvHolds, PTL

\* For every block time, length of a bucket and time hashes are kept: an acknowledged
\* event is recognised for that time less the length of a bucket, through upgrades too.
THEOREM KeptForAsLongAsPromised == AckedSpec => []KeptLongEnough
<1>1. AckedInv => KeptLongEnough
  BY Zenon DEF AckedInv, Findable, KeptLongEnough, Contains
<1> QED
  BY <1>1, AckedInvHolds, PTL

\* Adding the saved buckets one after the other, as restore does during an upgrade,
\* yields the buckets that were saved: they never overlap, because block time does not
\* go back.
THEOREM UpgradeIsExact == AckedSpec => UpgradeKeepsBuckets
<1>1. AckedInv /\ Upgrade => events' = events
  BY RebucketedIsExact, Zenon DEF Upgrade, AckedInv
<1>2. AckedInv /\ [AckedNext]_ackedVars => [Upgrade => events' = events]_ackedVars
  BY <1>1, Zenon
<1> QED
  BY <1>2, AckedInvHolds, PTL DEF AckedSpec, UpgradeKeepsBuckets

=============================================================================
