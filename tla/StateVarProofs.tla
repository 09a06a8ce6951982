--------------------------- MODULE StateVarProofs ---------------------------
(***************************************************************************)
(* Proofs about StateVar, for every set of nodes and validators, every     *)
(* voting power, tolerance and set of results, every schedule of blocks,   *)
(* snapshots and restarts, and every bound.                                *)
(***************************************************************************)
EXTENDS StateVar, WellFoundedInduction, TLAPS

(* The outcome of a vote.                                                  *)

\* A set of numbers that is not empty has a least one.
LEMMA LeastNumber ==
  ASSUME NEW T \in SUBSET Nat, T # {}
  PROVE  \E x \in T : \A y \in T : x <= y
<1>1. PICK x \in T : \A y \in T : <<y, x>> \notin OpToRel(<, Nat)
  BY NatLessThanWellFounded, WFMin, Zenon
<1>2. ASSUME NEW y \in T PROVE x <= y
  <2>1. x \in Nat /\ y \in Nat
    OBVIOUS
  <2>2. ~(y < x)
    BY <1>1, <2>1, Zenon DEF OpToRel
  <2> QED
    BY <2>1, <2>2
<1> QED
  BY <1>2

\* Whatever the order in which the rng tries the nodes, the one that is picked is a
\* candidate (tryConsensusLocked).
LEMMA PickedIsCandidate ==
  ASSUME NEW results \in SUBSET Proposal, NEW order \in Orders, Candidates(results) # {}
  PROVE  Picked(results, order) \in Candidates(results)
<1> DEFINE C == Candidates(results)
           T == {order[p.node] : p \in C}
<1>1. order \in [Node -> Nat]
  BY StateVarAssumption
<1>2. \A p \in C : p \in results /\ p.node \in Node
  BY DEF Candidates, Proposal
<1>3. T \in SUBSET Nat /\ T # {}
  BY <1>1, <1>2
<1>4. PICK x \in T : \A y \in T : x <= y
  BY <1>3, LeastNumber, Zenon
<1>5. PICK p \in C : x = order[p.node]
  BY <1>4
<1>6. \A q \in C : order[p.node] <= order[q.node]
  BY <1>4, <1>5
<1> HIDE DEF T, C
<1>7. \E y \in C : \A q \in C : order[y.node] <= order[q.node]
  BY <1>6, Zenon
<1> QED
  BY <1>7, Zenon DEF Picked, C

-----------------------------------------------------------------------------
(* A block on the agreed state.                                            *)

\* an event can still be triggered
Fits(c, b) == b.trigger # "no" => c.last < MaxEvents

\* the results are some of K, for the event that is active
Sound(c, K) ==
  \A p \in c.results : p \in K /\ p.node \in Validators /\ p.event = c.event

\* the accepted value a is within tolerance of what enough of the validators have in K
BackedBy(a, K) ==
  \E S \in SUBSET {m \in Validators : \E p \in K :
                      /\ p.node = m /\ p.event = a.event
                      /\ WithinTolerance(p.value, a.value)} : Enough(S)

Backed(c, K) == \A a \in c.accepted : BackedBy(a, K)

Good(c, K) == Sound(c, K) /\ Backed(c, K)

\* A result is within any tolerance of itself (WithinTolerance).
LEMMA WithinSelf == ASSUME NEW v \in Values PROVE WithinTolerance(v, v)
<1>1. v \in Int
  BY StateVarAssumption DEF Values
<1> QED
  BY <1>1, StateVarAssumption DEF WithinTolerance

\* What is backed stays so when more results are calculated.
LEMMA GoodGrows ==
  ASSUME NEW c, NEW K, NEW L, K \subseteq L, Good(c, K)
  PROVE  Good(c, L)
<1>1. Sound(c, L)
  BY Zenon DEF Good, Sound
<1>2. ASSUME NEW a, BackedBy(a, K) PROVE BackedBy(a, L)
  BY <1>2, Zenon DEF BackedBy
<1> QED
  BY <1>1, <1>2, Zenon DEF Good, Backed

\* An accepted value closes the event, and it has the type of one.
LEMMA ReachedType ==
  ASSUME NEW c \in Agreed, c.event \in Event, NEW state \in States, NEW v \in Values
  PROVE  /\ consensusReached(c, state, v) \in Agreed
         /\ consensusReached(c, state, v).results = {}
         /\ consensusReached(c, state, v).accepted
              = c.accepted \cup {[event |-> c.event, value |-> v]}
<1>1. [event |-> c.event, value |-> v] \in [event : Event, value : Values]
  BY Zenon
<1>2. c.accepted \cup {[event |-> c.event, value |-> v]} \in SUBSET [event : Event, value : Values]
  BY <1>1 DEF Agreed
<1>3. NoEvent \in Event \cup {NoEvent} /\ 0 \in Nat
  OBVIOUS
<1> QED
  BY <1>2, <1>3, Zenon DEF consensusReached, Agreed

\* The sender's result replaces its earlier one (bundleReceived).
LEMMA SavedFields ==
  ASSUME NEW c \in Agreed, NEW p \in Proposal
  PROVE  /\ Saved(c, p) \in Agreed
         /\ Saved(c, p).event = c.event /\ Saved(c, p).accepted = c.accepted
         /\ Saved(c, p).results = {q \in c.results : q.node # p.node} \cup {p}
BY DEF Saved, Agreed

\* The decision (bundleReceived, tryConsensusLocked) takes a value that is backed by
\* the results, or leaves them alone.
LEMMA DecideGood ==
  ASSUME NEW c \in Agreed, c.event \in Event, c.results # {}, NEW order \in Orders
  PROVE  /\ Decide(c, order) \in Agreed
         /\ \A K : Good(c, K) => Good(Decide(c, order), K)
<1>1. CASE ~Enough(Voters(c.results))
  BY <1>1, Zenon DEF Decide
<1>0. c.results \subseteq Proposal
  BY DEF Agreed
<1>2. ASSUME NEW v \in Values, NEW state \in States, NEW R \in SUBSET c.results,
             \A p \in R : WithinTolerance(p.value, v), Enough({p.node : p \in R})
      PROVE  /\ consensusReached(c, state, v) \in Agreed
             /\ \A K : Good(c, K) => Good(consensusReached(c, state, v), K)
  <2> DEFINE d == consensusReached(c, state, v)
             new == [event |-> c.event, value |-> v]
  <2>1. d \in Agreed /\ d.results = {} /\ d.accepted = c.accepted \cup {new}
    BY <1>2, ReachedType, Zenon
  <2>2. ASSUME NEW K, Good(c, K) PROVE Good(d, K)
    <3>1. BackedBy(new, K)
      <4>1. new.event = c.event /\ new.value = v
        OBVIOUS
      <4>2. ASSUME NEW p \in R
            PROVE  /\ p.node \in Validators /\ p \in K /\ p.event = new.event
                   /\ WithinTolerance(p.value, new.value)
        BY <1>2, <2>2, <4>1, <4>2, Zenon DEF Good, Sound
      <4> HIDE DEF new
      <4>3. {p.node : p \in R} \in SUBSET {m \in Validators : \E p \in K :
                      /\ p.node = m /\ p.event = new.event
                      /\ WithinTolerance(p.value, new.value)}
        BY <4>2, Zenon
      <4> QED
        BY <1>2, <4>3, Zenon DEF BackedBy
    <3> HIDE DEF d, new
    <3> QED
      BY <2>1, <2>2, <3>1, Zenon DEF Good, Sound, Backed
  <2> QED
    BY <2>1, <2>2, Zenon
<1>3. CASE /\ Enough(Voters(c.results)) /\ c.state # "SeekingConsensus"
           /\ \A p, q \in c.results : p.value = q.value
  <2> DEFINE p == CHOOSE p \in c.results : TRUE
  <2>1. p \in c.results /\ p.value \in Values
    BY <1>0 DEF Proposal
  <2>2. Decide(c, order) = consensusReached(c, "PerfectMatch", p.value)
    BY <1>3, Zenon DEF Decide
  <2>3. "PerfectMatch" \in States /\ c.results \in SUBSET c.results
    BY DEF States
  <2>4. \A q \in c.results : WithinTolerance(q.value, p.value)
    BY <1>3, <2>1, WithinSelf, Zenon
  <2>5. Enough({q.node : q \in c.results})
    BY <1>3, Zenon DEF Voters
  <2> HIDE DEF p
  <2> QED
    BY <1>2, <2>1, <2>2, <2>3, <2>4, <2>5, Zenon
<1>4. CASE Decide(c, order) = tryConsensus(c, order)
  <2>1. CASE Candidates(c.results) = {}
    <3> DEFINE d == [c EXCEPT !.state = "SeekingConsensus"]
    <3>1. /\ d \in Agreed /\ d.results = c.results /\ d.event = c.event
          /\ d.accepted = c.accepted
      BY DEF Agreed, States
    <3>2. Decide(c, order) = d
      BY <1>4, <2>1, Zenon DEF tryConsensus
    <3> HIDE DEF d
    <3> QED
      BY <3>1, <3>2, Zenon DEF Good, Sound, Backed
  <2>2. CASE Candidates(c.results) # {}
    <3> DEFINE p == Picked(c.results, order)
               R == {q \in c.results : WithinTolerance(q.value, p.value)}
    <3>1. p \in Candidates(c.results)
      BY <1>0, <2>2, PickedIsCandidate
    <3>2. Decide(c, order) = consensusReached(c, "consensusReached", p.value)
      BY <1>4, <2>2, Zenon DEF tryConsensus
    <3> HIDE DEF p
    <3>3. p \in c.results /\ Enough({q.node : q \in R})
      BY <3>1, Zenon DEF Candidates
    <3>4. p.value \in Values /\ "consensusReached" \in States
      BY <1>0, <3>3 DEF Proposal, States
    <3>5. R \in SUBSET c.results /\ \A q \in R : WithinTolerance(q.value, p.value)
      BY Zenon
    <3> HIDE DEF R
    <3> QED
      BY <1>2, <3>2, <3>3, <3>4, <3>5, Zenon
  <2> QED
    BY <2>1, <2>2, Zenon
<1> QED
  BY <1>1, <1>3, <1>4, Zenon DEF Decide

\* eventTriggered drops the results and keeps what was accepted.
LEMMA TriggeredGood ==
  ASSUME NEW c \in Agreed, NEW trigger \in {"no", "calculated", "failed"},
         trigger # "no" => c.last < MaxEvents
  PROVE  /\ eventTriggered(c, trigger) \in Agreed
         /\ \A K : Good(c, K) => Good(eventTriggered(c, trigger), K)
<1>1. CASE trigger = "no"
  BY <1>1, Zenon DEF eventTriggered
<1>2. CASE trigger # "no"
  <2> DEFINE d == eventTriggered(c, trigger)
  <2>1. PICK aborted \in Nat, event \in Event \cup {NoEvent}, state \in States :
          d = [c EXCEPT !.last = @ + 1, !.rounds = aborted, !.results = {},
                        !.event = event, !.state = state]
    <3> DEFINE ab == IF c.event # NoEvent /\ c.state = "SeekingConsensus"
                     THEN c.rounds + 1 ELSE c.rounds
               ev == IF trigger = "failed" THEN NoEvent ELSE c.last + 1
               st == IF trigger = "failed" THEN "Error" ELSE "CalculationStarted"
    <3>1. d = [c EXCEPT !.last = @ + 1, !.rounds = ab, !.results = {},
                        !.event = ev, !.state = st]
      BY <1>2, Zenon DEF eventTriggered
    <3>2. c.rounds \in Nat /\ c.last \in Event \cup {NoEvent}
      BY DEF Agreed
    <3>3. ab \in Nat /\ st \in States
      BY <3>2 DEF States
    <3>4. ev \in Event \cup {NoEvent}
      BY <1>2, <3>2, StateVarAssumption DEF Event, NoEvent
    <3> HIDE DEF ab, ev, st, d
    <3> QED
      BY <3>1, <3>3, <3>4, Zenon
  <2> HIDE DEF d
  <2>2. c.last \in Event \cup {NoEvent} /\ c.last + 1 \in Event \cup {NoEvent}
    BY <1>2, StateVarAssumption DEF Agreed, Event, NoEvent
  <2>3. d \in Agreed /\ d.results = {} /\ d.accepted = c.accepted
    BY <2>1, <2>2, Zenon DEF Agreed
  <2>4. \A K : Good(c, K) => Good(d, K)
    BY <2>3, Zenon DEF Good, Sound, Backed
  <2> QED
    BY <2>3, <2>4, Zenon DEF d
<1> QED
  BY <1>1, <1>2

\* A block leaves an agreed state, and every value that it accepts is backed by the
\* results it delivers and those received before (eventTriggered, bundleReceived).
LEMMA BlockGood ==
  ASSUME NEW c \in Agreed, NEW b \in Block, Fits(c, b)
  PROVE  /\ AgreedBlock(c, b) \in Agreed
         /\ \A K : b.txs \subseteq K /\ Good(c, K) => Good(AgreedBlock(c, b), K)
<1> DEFINE c1 == eventTriggered(c, b.trigger)
<1>0. /\ b.trigger \in {"no", "calculated", "failed"} /\ b.txs \subseteq Proposal
      /\ b.order \in Orders
  BY DEF Block
<1>1. c1 \in Agreed /\ \A K : Good(c, K) => Good(c1, K)
  BY <1>0, TriggeredGood, Zenon DEF Fits
<1>2. CASE b.txs = {}
  BY <1>1, <1>2, Zenon DEF AgreedBlock
<1>3. CASE b.txs # {}
  <2> DEFINE p == CHOOSE p \in b.txs : TRUE
  <2>1. p \in b.txs /\ p \in Proposal
    BY <1>0, <1>3, Zenon
  <2>2. AgreedBlock(c, b) = bundleReceived(c1, p, b.order)
    BY <1>3, Zenon DEF AgreedBlock
  <2> HIDE DEF c1, p
  <2>3. CASE c1.event # p.event \/ p.node \notin Validators
    BY <1>1, <2>2, <2>3, Zenon DEF bundleReceived
  <2>4. CASE c1.event = p.event /\ p.node \in Validators
    <3> DEFINE s == Saved(c1, p)
    <3>1. AgreedBlock(c, b) = Decide(s, b.order)
      BY <2>2, <2>4, Zenon DEF bundleReceived
    <3>2. /\ s \in Agreed /\ s.event = c1.event /\ s.accepted = c1.accepted
          /\ s.results = {q \in c1.results : q.node # p.node} \cup {p}
      BY <1>1, <2>1, SavedFields, Zenon
    <3> HIDE DEF s
    <3>3. s.event \in Event /\ s.results # {}
      BY <2>1, <2>4, <3>2, Zenon DEF Proposal
    <3>4. /\ Decide(s, b.order) \in Agreed
          /\ \A K : Good(s, K) => Good(Decide(s, b.order), K)
      BY <1>0, <3>2, <3>3, DecideGood, Zenon
    <3>5. ASSUME NEW K, b.txs \subseteq K, Good(c1, K) PROVE Good(s, K)
      BY <2>1, <2>4, <3>2, <3>5, Zenon DEF Good, Sound, Backed
    <3> QED
      BY <1>1, <3>1, <3>4, <3>5, Zenon
  <2> QED
    BY <2>3, <2>4, Zenon
<1> QED
  BY <1>2, <1>3

-----------------------------------------------------------------------------
(* Replicas.  A node is on its way from its last snapshot to the tip of    *)
(* the chain: executing the blocks logged since the snapshot, one after    *)
(* the other, leads through what the node has now to the agreed state.     *)
Leads(tr, n) ==
  /\ tr \in [0 .. Len(log[n]) -> Agreed]
  /\ \A k \in 1 .. Len(log[n]) :
       tr[k] = AgreedBlock(tr[k - 1], log[n][k]) /\ Fits(tr[k - 1], log[n][k])
  /\ tr[0] = saved[n] /\ tr[done[n]] = cs[n] /\ tr[Len(log[n])] = tip

OnItsWay == \A n \in Node : done[n] \in 0 .. Len(log[n]) /\ \E tr : Leads(tr, n)

\* The blocks after a snapshot are what is left of the log.
LEMMA RestOfLog ==
  ASSUME NEW S, NEW q \in Seq(S), NEW d \in Nat, d < Len(q)
  PROVE  /\ Len(SubSeq(q, d + 2, Len(q))) = Len(q) - d - 1
         /\ \A k \in 1 .. Len(q) - d - 1 : SubSeq(q, d + 2, Len(q))[k] = q[k + d + 1]
<1>1. Len(SubSeq(q, d + 2, Len(q))) = Len(q) - d - 1
  OBVIOUS
<1>2. ASSUME NEW k \in 1 .. Len(q) - d - 1 PROVE SubSeq(q, d + 2, Len(q))[k] = q[k + d + 1]
  OBVIOUS
<1> QED
  BY <1>1, <1>2

\* The rest of the log is a sequence of blocks.
LEMMA RestIsLog ==
  ASSUME NEW S, NEW q \in Seq(S), NEW d \in Nat, d < Len(q)
  PROVE  SubSeq(q, d + 2, Len(q)) \in Seq(S)
OBVIOUS

\* A node starts with a variable that nothing was calculated for (NewStateVar).
LEMMA InitType == InitAgreed \in Agreed
BY DEF InitAgreed, Agreed, States

\* What a node executes is a block that it can execute (ExecuteBlock).
LEMMA Executed ==
  ASSUME TypeOK, OnItsWay, NEW n \in Node, done[n] < Len(log[n])
  PROVE  /\ log[n][done[n] + 1] \in Block /\ cs[n] \in Agreed
         /\ Fits(cs[n], log[n][done[n] + 1])
         /\ AgreedBlock(cs[n], log[n][done[n] + 1]) \in Agreed
<1>1. log[n][done[n] + 1] \in Block /\ cs[n] \in Agreed
  BY DEF TypeOK
<1>2. PICK tr : Leads(tr, n)
  BY DEF OnItsWay
<1>3. done[n] + 1 \in 1 .. Len(log[n]) /\ (done[n] + 1) - 1 = done[n]
  BY DEF TypeOK
<1>4. Fits(tr[(done[n] + 1) - 1], log[n][done[n] + 1])
  BY <1>2, <1>3, Zenon DEF Leads
<1>5. tr[done[n]] = cs[n]
  BY <1>2, Zenon DEF Leads
<1>6. Fits(cs[n], log[n][done[n] + 1])
  BY <1>3, <1>4, <1>5
<1> QED
  BY <1>1, <1>6, BlockGood, Zenon

\* What a validator calculates is a proposal for the event that the block triggers.
LEMMA OwnType ==
  ASSUME TypeOK, NEW n \in Node, NEW v \in Results[n], NEW b \in Block, Fits(cs[n], b)
  PROVE  Calculated(n, b, v) \subseteq Proposal
<1>1. CASE b.trigger = "calculated"
  <2>1. cs[n].last \in Event \cup {NoEvent} /\ cs[n].last < MaxEvents
    BY <1>1 DEF TypeOK, Agreed, Fits
  <2>2. cs[n].last + 1 \in Event /\ v \in Values
    BY <2>1, StateVarAssumption DEF Event, NoEvent, Values
  <2>3. [node |-> n, event |-> cs[n].last + 1, value |-> v] \in Proposal
    BY <2>2 DEF Proposal
  <2> QED
    BY <2>3, Zenon DEF Calculated
<1>2. CASE b.trigger # "calculated"
  BY <1>2, Zenon DEF Calculated
<1> QED
  BY <1>1, <1>2

\* The bundle a node keeps is the one it had, the one it has just calculated, or none.
LEMMA BundleKept ==
  ASSUME NEW n, NEW b, NEW v
  PROVE  BundleAfter(n, b, v) \in {bundle[n], None} \cup Calculated(n, b, v)
<1> DEFINE own == Calculated(n, b, v)
<1>1. own # {} => (CHOOSE p \in own : TRUE) \in own
  BY Zenon
<1> HIDE DEF own
<1> QED
  BY <1>1, Zenon DEF BundleAfter, own

\* Every variable has its type at the start (NewStateVar).
LEMMA TypeInit == Init => TypeOK
<1> SUFFICES ASSUME Init PROVE TypeOK
  OBVIOUS
<1>1. cooldown \in [Node -> 0 .. ResendInterval] /\ restarts \in 0 .. MaxRestarts
  BY StateVarAssumption DEF Init
<1>2. log \in [Node -> Seq(Block)] /\ done \in [Node -> Nat]
  BY DEF Init
<1> QED
  BY <1>1, <1>2, InitType DEF Init, TypeOK

\* A block that is executed keeps the types.
LEMMA ExecuteType ==
  ASSUME TypeOK, OnItsWay, NEW n \in Node, NEW v \in Results[n], ExecuteBlock(n, v)
  PROVE  TypeOK'
<1> DEFINE b == log[n][done[n] + 1]
           next == AgreedBlock(cs[n], b)
           own == Calculated(n, b, v)
<1>1. done[n] < Len(log[n])
  BY Zenon DEF ExecuteBlock
<1>2. b \in Block /\ Fits(cs[n], b) /\ next \in Agreed
  BY <1>1, Executed, Zenon
<1> HIDE DEF b
<1>3. own \subseteq Proposal
  BY <1>2, OwnType, Zenon
<1> HIDE DEF next, own
<1>4. cs' \in [Node -> Agreed] /\ saved' \in [Node -> Agreed]
  <2>1. cs' = [cs EXCEPT ![n] = next] /\ saved' \in {saved, [saved EXCEPT ![n] = next]}
    BY DEF ExecuteBlock, Serialise, b, next
  <2> QED
    BY <1>2, <2>1, Zenon DEF TypeOK
<1>5. bundle' \in [Node -> Proposal \cup {None}]
  <2>1. bundle' = [bundle EXCEPT ![n] = BundleAfter(n, b, v)]
    BY Zenon DEF ExecuteBlock, b
  <2>2. BundleAfter(n, b, v) \in Proposal \cup {None}
    BY <1>3, BundleKept, Zenon DEF own, TypeOK
  <2> QED
    BY <2>1, <2>2, Zenon DEF TypeOK
<1>6. pool' \subseteq Proposal /\ computed' \subseteq Proposal
  <2>1. pool' = pool \cup Resends(n) \cup own /\ computed' = computed \cup own
    BY Zenon DEF ExecuteBlock, b, own
  <2>2. Resends(n) \subseteq Proposal
    BY Zenon DEF Resends, Due, TypeOK
  <2> QED
    BY <1>3, <2>1, <2>2, Zenon DEF TypeOK
<1>7. cooldown' \in [Node -> 0 .. ResendInterval]
  <2> DEFINE x == BundleAfter(n, b, v) = None
             y == own # {} \/ Due(n)
  <2>1. cooldown' = [cooldown EXCEPT ![n] = IF x THEN 0 ELSE IF y THEN ResendInterval
                                            ELSE IF @ > 0 THEN @ - 1 ELSE 0]
    BY Zenon DEF ExecuteBlock, b, own
  <2> HIDE DEF x, y
  <2>2. cooldown[n] \in 0 .. ResendInterval /\ ResendInterval \in Nat
    BY StateVarAssumption DEF TypeOK
  <2>3. (IF x THEN 0 ELSE IF y THEN ResendInterval
         ELSE IF cooldown[n] > 0 THEN cooldown[n] - 1 ELSE 0) \in 0 .. ResendInterval
    BY <2>2
  <2>4. cooldown' = [cooldown EXCEPT ![n] = IF x THEN 0 ELSE IF y THEN ResendInterval
                        ELSE IF cooldown[n] > 0 THEN cooldown[n] - 1 ELSE 0]
    BY <2>1 DEF TypeOK
  <2> QED
    BY <2>3, <2>4, Zenon DEF TypeOK
<1>8. log' \in [Node -> Seq(Block)] /\ done' \in [Node -> Nat]
  <2>1. log' \in {log, [log EXCEPT ![n] = SubSeq(log[n], done[n] + 2, Len(log[n]))]}
    BY Zenon DEF ExecuteBlock
  <2>2. SubSeq(log[n], done[n] + 2, Len(log[n])) \in Seq(Block)
    BY <1>1, RestIsLog, Zenon DEF TypeOK
  <2>3. done' = [done EXCEPT ![n] = IF done[n] + 1 = SnapshotInterval THEN 0 ELSE @ + 1]
    BY Zenon DEF ExecuteBlock
  <2>4. done' \in [Node -> Nat]
    BY <2>3 DEF TypeOK
  <2> QED
    BY <2>1, <2>2, <2>4, Zenon DEF TypeOK
<1>9. UNCHANGED <<tip, restarts>>
  BY Zenon DEF ExecuteBlock
<1> QED
  BY <1>4, <1>5, <1>6, <1>7, <1>8, <1>9, Zenon DEF TypeOK

\* A block that is decided keeps the types.
LEMMA ProposeType ==
  ASSUME TypeOK, NEW b \in Block, ProposeBlock(b)
  PROVE  TypeOK' /\ Fits(tip, b)
<1>0. Fits(tip, b) /\ tip' = AgreedBlock(tip, b) /\ tip \in Agreed
  BY Zenon DEF ProposeBlock, Fits, TypeOK
<1>1. tip' \in Agreed
  BY <1>0, BlockGood, Zenon
<1>2. log' \in [Node -> Seq(Block)]
  BY DEF ProposeBlock, TypeOK
<1>3. pool' \subseteq Proposal
  BY Zenon DEF ProposeBlock, TypeOK
<1> QED
  BY <1>0, <1>1, <1>2, <1>3, Zenon DEF ProposeBlock, TypeOK

\* A restart, and a proposal that is lost, keep the types.
LEMMA RestartType ==
  ASSUME TypeOK, (\E n \in Node : Restart(n)) \/ \E p \in pool : CommandLost(p)
  PROVE  TypeOK'
<1>1. ASSUME NEW n \in Node, Restart(n) PROVE TypeOK'
  <2>1. cooldown' \in [Node -> 0 .. ResendInterval] /\ restarts' \in 0 .. MaxRestarts
    BY <1>1, StateVarAssumption DEF Restart, TypeOK
  <2>2. done' \in [Node -> Nat]
    BY <1>1 DEF Restart, TypeOK
  <2> QED
    BY <1>1, <2>1, <2>2, Zenon DEF Restart, TypeOK
<1>2. ASSUME NEW p \in pool, CommandLost(p) PROVE TypeOK'
  BY <1>2, Zenon DEF CommandLost, TypeOK
<1> QED
  BY <1>1, <1>2

\* A block that is decided makes the way of every node one step longer.
LEMMA DecidedOnItsWay ==
  ASSUME TypeOK, OnItsWay, NEW b \in Block, ProposeBlock(b)
  PROVE  OnItsWay'
<1> SUFFICES ASSUME NEW n \in Node
             PROVE  done'[n] \in 0 .. Len(log'[n]) /\ \E tr : Leads(tr, n)'
  BY DEF OnItsWay
<1>1. PICK tr : Leads(tr, n)
  BY DEF OnItsWay
<1>2. PICK l \in Nat : l = Len(log[n])
  BY DEF TypeOK
<1>3. /\ UNCHANGED <<done, cs, saved>> /\ tip' = AgreedBlock(tip, b)
      /\ log'[n] = Append(log[n], b)
  BY DEF ProposeBlock
<1>4. /\ Len(log'[n]) = l + 1 /\ log'[n][l + 1] = b
      /\ \A k \in 1 .. l : log'[n][k] = log[n][k]
  BY <1>2, <1>3 DEF TypeOK
<1>5. tip' \in Agreed /\ Fits(tip, b)
  BY ProposeType, Zenon DEF TypeOK
<1>0. PICK next : next = [k \in 0 .. l + 1 |-> IF k = l + 1 THEN tip' ELSE tr[k]]
  BY Zenon
<1>6. next \in [0 .. l + 1 -> Agreed]
  BY <1>0, <1>1, <1>2, <1>5 DEF Leads
<1>7. ASSUME NEW k \in 1 .. l + 1 
      PROVE  /\ next[k] = AgreedBlock(next[k - 1], log'[n][k])
             /\ Fits(next[k - 1], log'[n][k])
  <2>1. CASE k = l + 1
    <3>1. next[k] = tip' /\ next[k - 1] = tr[l]
      BY <1>0, <2>1
    <3>2. tr[l] = tip /\ log'[n][k] = b
      BY <1>1, <1>2, <1>4, <2>1 DEF Leads
    <3> QED
      BY <1>3, <1>5, <3>1, <3>2, Zenon
  <2>2. CASE k \in 1 .. l
    <3>1. next[k] = tr[k] /\ next[k - 1] = tr[k - 1]
      BY <1>0, <2>2
    <3>2. /\ tr[k] = AgreedBlock(tr[k - 1], log[n][k]) /\ Fits(tr[k - 1], log[n][k])
          /\ log'[n][k] = log[n][k]
      BY <1>1, <1>2, <1>4, <2>2 DEF Leads
    <3> QED
      BY <3>1, <3>2, Zenon
  <2> QED
    BY <2>1, <2>2
<1>8. done[n] \in 0 .. l
  BY <1>2 DEF OnItsWay
<1>9. next[0] = saved[n] /\ next[done[n]] = cs[n] /\ next[l + 1] = tip'
  BY <1>0, <1>1, <1>2, <1>8 DEF Leads
<1>10. Leads(next, n)'
  BY <1>3, <1>4, <1>6, <1>7, <1>9, SMTT(30) DEF Leads
<1> QED
  BY <1>3, <1>4, <1>8, <1>10

\* A node that executes a block is one step further on its way; a snapshot makes
\* the rest of the way the whole of it.
LEMMA ExecutedOnItsWay ==
  ASSUME TypeOK, OnItsWay, NEW n \in Node, NEW v, ExecuteBlock(n, v)
  PROVE  OnItsWay'
<1> SUFFICES ASSUME NEW m \in Node
             PROVE  done'[m] \in 0 .. Len(log'[m]) /\ \E tr : Leads(tr, m)'
  BY DEF OnItsWay
<1>1. PICK tr : Leads(tr, m)
  BY DEF OnItsWay
<1> DEFINE next == AgreedBlock(cs[n], log[n][done[n] + 1])
           full == done[n] + 1 = SnapshotInterval
<1>2. /\ done[n] < Len(log[n]) /\ tip' = tip /\ cs' = [cs EXCEPT ![n] = next]
      /\ saved' = IF full THEN [saved EXCEPT ![n] = next] ELSE saved
      /\ log' = IF full
                THEN [log EXCEPT ![n] = SubSeq(@, done[n] + 2, Len(@))] ELSE log
      /\ done' = [done EXCEPT ![n] = IF full THEN 0 ELSE @ + 1]
  BY Zenon DEF ExecuteBlock, Serialise
<1>3. CASE m # n
  <2>1. /\ done'[m] = done[m] /\ log'[m] = log[m] /\ saved'[m] = saved[m]
        /\ cs'[m] = cs[m] /\ tip' = tip
    BY <1>2, <1>3 DEF TypeOK
  <2>2. Leads(tr, m)'
    BY <1>1, <2>1, Zenon DEF Leads
  <2> QED
    BY <2>1, <2>2, Zenon DEF OnItsWay
<1>4. CASE m = n /\ ~full
  <2>1. /\ done'[n] = done[n] + 1 /\ log'[n] = log[n] /\ saved'[n] = saved[n]
        /\ cs'[n] = next /\ tip' = tip /\ done[n] + 1 \in 0 .. Len(log[n])
    BY <1>2, <1>4 DEF TypeOK
  <2>2. tr[done[n] + 1] = next
    <3>1. tr[done[n] + 1] = AgreedBlock(tr[(done[n] + 1) - 1], log[n][done[n] + 1])
      <4>1. done[n] + 1 \in 1 .. Len(log[n])
        BY <2>1 DEF TypeOK
      <4> QED
        BY <1>1, <1>4, <4>1, Zenon DEF Leads
    <3>2. (done[n] + 1) - 1 = done[n] /\ tr[done[n]] = cs[n]
      BY <1>1, <1>4 DEF Leads, TypeOK
    <3> QED
      BY <3>1, <3>2
  <2> HIDE DEF next
  <2>3. Leads(tr, n)'
    BY <1>1, <1>4, <2>1, <2>2, Zenon DEF Leads
  <2> QED
    BY <1>4, <2>1, <2>3
<1>5. CASE m = n /\ full
  <2>0. PICK l \in Nat, d \in Nat : l = Len(log[n]) /\ d = done[n]
    BY DEF TypeOK
  <2>1. /\ d < l /\ done'[n] = 0 /\ saved'[n] = next /\ cs'[n] = next /\ tip' = tip
        /\ log'[n] = SubSeq(log[n], d + 2, l)
    BY <1>2, <1>5, <2>0, Zenon DEF TypeOK
  <2>2. tr[d + 1] = next
    <3>0. d + 1 \in 1 .. Len(log[n])
      BY <2>0, <2>1
    <3>1. tr[d + 1] = AgreedBlock(tr[(d + 1) - 1], log[n][d + 1])
      BY <1>1, <1>5, <3>0, Zenon DEF Leads
    <3>2. (d + 1) - 1 = d /\ tr[d] = cs[n]
      BY <1>1, <1>5, <2>0 DEF Leads
    <3> QED
      BY <3>1, <3>2, <2>0
  <2> HIDE DEF next, full
  <2>3. /\ Len(log'[n]) = l - d - 1
        /\ \A k \in 1 .. l - d - 1 : log'[n][k] = log[n][k + d + 1]
    <3>1. log[n] \in Seq(Block)
      BY DEF TypeOK
    <3>2. d < Len(log[n]) /\ log'[n] = SubSeq(log[n], d + 2, Len(log[n]))
      BY <2>0, <2>1
    <3> DEFINE left == SubSeq(log[n], d + 2, Len(log[n]))
    <3>3. /\ Len(left) = Len(log[n]) - d - 1
          /\ \A k \in 1 .. Len(log[n]) - d - 1 : left[k] = log[n][k + d + 1]
      BY <3>1, <3>2, RestOfLog, Zenon
    <3>4. log'[n] = left
      BY <3>2, Zenon
    <3> HIDE DEF left
    <3> QED
      BY <2>0, <3>3, <3>4
  <2>4. tr \in [0 .. l -> Agreed] /\ tr[l] = tip
    BY <1>1, <1>5, <2>0 DEF Leads
  <2>5. PICK rest : rest = [k \in 0 .. l - d - 1 |-> tr[k + d + 1]]
    BY Zenon
  <2>6. rest \in [0 .. l - d - 1 -> Agreed] /\ rest[0] = next /\ rest[l - d - 1] = tip
    <3>0. d < l
      BY <2>1, Zenon
    <3>1. \A k \in 0 .. l - d - 1 : k + d + 1 \in 0 .. l
      BY <3>0
    <3>2. rest \in [0 .. l - d - 1 -> Agreed]
      BY <2>4, <2>5, <3>1
    <3>3. /\ 0 \in 0 .. l - d - 1 /\ 0 + d + 1 = d + 1
          /\ l - d - 1 \in 0 .. l - d - 1 /\ (l - d - 1) + d + 1 = l
      BY <3>0
    <3>4. rest[0] = tr[0 + d + 1] /\ rest[l - d - 1] = tr[(l - d - 1) + d + 1]
      BY <2>5, <3>3, Zenon
    <3> QED
      BY <2>2, <2>4, <3>2, <3>3, <3>4, Zenon
  <2>7. ASSUME NEW k \in 1 .. l - d - 1
        PROVE  /\ rest[k] = AgreedBlock(rest[k - 1], log'[n][k])
               /\ Fits(rest[k - 1], log'[n][k])
    <3>1. rest[k] = tr[k + d + 1] /\ rest[k - 1] = tr[(k + d + 1) - 1]
      BY <2>5
    <3>2. /\ tr[k + d + 1] = AgreedBlock(tr[(k + d + 1) - 1], log[n][k + d + 1])
          /\ Fits(tr[(k + d + 1) - 1], log[n][k + d + 1])
      <4>1. k + d + 1 \in 1 .. l
        BY <2>1
      <4> QED
        BY <1>1, <1>5, <2>0, <4>1, Zenon DEF Leads
    <3> QED
      BY <2>3, <3>1, <3>2, Zenon
  <2>8. Leads(rest, n)'
    BY <2>1, <2>3, <2>6, <2>7, Zenon DEF Leads
  <2> QED
    BY <1>5, <2>0, <2>1, <2>3, <2>8, SMTT(30)
<1> QED
  BY <1>3, <1>4, <1>5

\* A node that restarts is at the start of its way again (postRestore).
LEMMA RestartedOnItsWay ==
  ASSUME TypeOK, OnItsWay, NEW n \in Node, Restart(n)
  PROVE  OnItsWay'
<1> SUFFICES ASSUME NEW m \in Node
             PROVE  done'[m] \in 0 .. Len(log'[m]) /\ \E tr : Leads(tr, m)'
  BY DEF OnItsWay
<1>1. PICK tr : Leads(tr, m)
  BY DEF OnItsWay
<1>2. UNCHANGED <<tip, log, saved>>
  BY DEF Restart
<1>3. \/ done'[m] = done[m] /\ cs'[m] = cs[m]
      \/ done'[m] = 0 /\ cs'[m] = saved[m]
  BY DEF Restart, TypeOK
<1>4. Leads(tr, m)'
  BY <1>1, <1>2, <1>3, Zenon DEF Leads
<1>5. done'[m] \in 0 .. Len(log'[m])
  BY <1>2, <1>3 DEF OnItsWay, TypeOK
<1> QED
  BY <1>4, <1>5

ReplicaInv == TypeOK /\ OnItsWay

\* What Tendermint decides is a block of transactions that were sent.
LEMMA ProposedBlock ==
  ASSUME TypeOK, Propose
  PROVE  \E b \in Block : b.txs \subseteq pool /\ ProposeBlock(b)
<1>1. PICK trigger \in {"no", "calculated", "failed"}, order \in Orders,
           txs \in {{}} \cup {{p} : p \in pool} :
        ProposeBlock([trigger |-> trigger, txs |-> txs, order |-> order])
  BY Zenon DEF Propose
<1>2. txs \subseteq pool /\ pool \subseteq Proposal
  BY DEF TypeOK
<1>3. [trigger |-> trigger, txs |-> txs, order |-> order] \in Block
  BY <1>2 DEF Block
<1> QED
  BY <1>1, <1>2, <1>3

\* At the start there is no way to go.
LEMMA ReplicaInit == Init => ReplicaInv
<1> SUFFICES ASSUME Init PROVE ReplicaInv
  OBVIOUS
<1>1. ASSUME NEW n \in Node PROVE Leads([k \in {0} |-> InitAgreed], n)
  <2>1. 0 .. Len(log[n]) = {0} /\ 1 .. Len(log[n]) = {} /\ done[n] = 0
    BY DEF Init
  <2> QED
    BY <2>1, InitType DEF Leads, Init
<1>2. OnItsWay
  BY <1>1 DEF OnItsWay, Init
<1> QED
  BY <1>2, TypeInit DEF ReplicaInv

\* Every action (block, event, bundle, loss, restart) keeps the types and the ways.
LEMMA ReplicaStep == ReplicaInv /\ [Next]_vars => ReplicaInv'
<1> SUFFICES ASSUME TypeOK, OnItsWay, [Next]_vars PROVE TypeOK' /\ OnItsWay'
  BY DEF ReplicaInv
<1>1. ASSUME UNCHANGED <<tip, log, done, cs, saved>> PROVE OnItsWay'
  BY <1>1 DEF OnItsWay, Leads
<1>2. CASE Propose
  BY <1>2, ProposedBlock, ProposeType, DecidedOnItsWay, Zenon
<1>3. ASSUME NEW n \in Node, NEW v \in Results[n], ExecuteBlock(n, v)
      PROVE  TypeOK' /\ OnItsWay'
  BY <1>3, ExecuteType, ExecutedOnItsWay, Zenon
<1>4. ASSUME NEW n \in Node, Restart(n) PROVE TypeOK' /\ OnItsWay'
  BY <1>4, RestartType, RestartedOnItsWay, Zenon
<1>5. ASSUME NEW p \in pool, CommandLost(p) PROVE TypeOK' /\ OnItsWay'
  BY <1>1, <1>5, RestartType, Zenon DEF CommandLost
<1>6. CASE UNCHANGED vars
  BY <1>1, <1>6, Zenon DEF vars, TypeOK
<1> QED
  BY <1>2, <1>3, <1>4, <1>5, <1>6, Zenon DEF Next

\* Every variable keeps its type, whatever the schedule: no event is numbered beyond
\* those that were triggered, and no value is accepted without one (eventTriggered,
\* bundleReceived).
THEOREM TypeCorrect == Spec => []TypeOK
<1>1. ReplicaInv => TypeOK
  BY DEF ReplicaInv
<1> QED
  BY <1>1, ReplicaInit, ReplicaStep, PTL DEF Spec

\* Replicas agree: nodes that have executed all the blocks have accepted the same
\* values for the same events, whatever each of them calculated, sent, lost, or
\* restored from a snapshot and executed again (bundleReceived, postRestore).
THEOREM ReplicasAgree == Spec => []CaughtUpAgree
<1>1. ReplicaInv => CaughtUpAgree
  BY Zenon DEF ReplicaInv, OnItsWay, Leads, CaughtUpAgree
<1> QED
  BY <1>1, ReplicaInit, ReplicaStep, PTL DEF Spec

-----------------------------------------------------------------------------
(* Backing.  What the nodes have, keep in their snapshots, send, and read  *)
(* from the blocks was calculated by validators.                           *)
SentIsComputed ==
  /\ pool \subseteq computed
  /\ \A n \in Node : /\ bundle[n] \in computed \cup {None}
                     /\ \A k \in 1 .. Len(log[n]) : log[n][k].txs \subseteq computed

AllGood == \A n \in Node : Good(cs[n], computed) /\ Good(saved[n], computed)

BackingInv == ReplicaInv /\ SentIsComputed /\ AllGood

\* Executing a block adds what the node calculates, and nothing else, to what is sent.
LEMMA ExecuteSends ==
  ASSUME TypeOK, SentIsComputed, NEW n \in Node, NEW v, ExecuteBlock(n, v)
  PROVE  SentIsComputed' /\ computed \subseteq computed'
<1> DEFINE b == log[n][done[n] + 1]
           own == Calculated(n, b, v)
<1>0. /\ done[n] < Len(log[n]) /\ computed' = computed \cup own
      /\ pool' = pool \cup Resends(n) \cup own
      /\ bundle' = [bundle EXCEPT ![n] = BundleAfter(n, b, v)]
      /\ log' \in {log, [log EXCEPT ![n] = SubSeq(log[n], done[n] + 2, Len(log[n]))]}
  BY Zenon DEF ExecuteBlock
<1>1. BundleAfter(n, b, v) \in {bundle[n], None} \cup own
  BY BundleKept, Zenon
<1> HIDE DEF own, b
<1>2. pool' \subseteq computed'
  BY <1>0, Zenon DEF Resends, Due, SentIsComputed
<1>3. ASSUME NEW m \in Node PROVE bundle'[m] \in computed' \cup {None}
  <2>1. bundle'[m] = IF m = n THEN BundleAfter(n, b, v) ELSE bundle[m]
    BY <1>0, Zenon DEF TypeOK
  <2>2. bundle[n] \in computed \cup {None} /\ bundle[m] \in computed \cup {None}
    BY Zenon DEF SentIsComputed
  <2> QED
    BY <1>0, <1>1, <2>1, <2>2
<1>4. ASSUME NEW m \in Node, NEW k \in 1 .. Len(log'[m])
      PROVE  log'[m][k].txs \subseteq computed'
  <2>1. CASE log'[m] = log[m]
    BY <1>0, <1>4, <2>1, Zenon DEF SentIsComputed
  <2>2. CASE m = n /\ log'[n] = SubSeq(log[n], done[n] + 2, Len(log[n]))
    <3>1. PICK l \in Nat, d \in Nat : l = Len(log[n]) /\ d = done[n]
      BY DEF TypeOK
    <3>2. /\ Len(log'[n]) = Len(log[n]) - done[n] - 1
          /\ \A i \in 1 .. Len(log[n]) - done[n] - 1 : log'[n][i] = log[n][i + done[n] + 1]
      <4>1. log[n] \in Seq(Block) /\ done[n] \in Nat
        BY Zenon DEF TypeOK
      <4> DEFINE rest == SubSeq(log[n], done[n] + 2, Len(log[n]))
      <4>2. /\ Len(rest) = Len(log[n]) - done[n] - 1
            /\ \A i \in 1 .. Len(log[n]) - done[n] - 1 : rest[i] = log[n][i + done[n] + 1]
        BY <1>0, <4>1, RestOfLog, Zenon
      <4> HIDE DEF rest
      <4> QED
        BY <2>2, <4>2, Zenon DEF rest
    <3>3. k \in 1 .. l - d - 1
      BY <2>2, <3>1, <3>2, Zenon
    <3>4. k + d + 1 \in 1 .. l
      BY <3>3
    <3> QED
      BY <1>0, <2>2, <3>1, <3>2, <3>3, <3>4, Zenon DEF SentIsComputed
  <2> QED
    BY <1>0, <2>1, <2>2, Zenon DEF TypeOK
<1> QED
  BY <1>0, <1>2, <1>3, <1>4, Zenon DEF SentIsComputed

\* Executing a block takes only values that are backed.
LEMMA ExecuteGood ==
  ASSUME ReplicaInv, SentIsComputed, AllGood, NEW n \in Node, NEW v, ExecuteBlock(n, v)
  PROVE  AllGood'
<1> DEFINE b == log[n][done[n] + 1]
           next == AgreedBlock(cs[n], b)
<1>1. /\ done[n] < Len(log[n]) /\ cs' = [cs EXCEPT ![n] = next]
      /\ saved' \in {saved, [saved EXCEPT ![n] = next]}
  BY Zenon DEF ExecuteBlock, Serialise
<1>2. b \in Block /\ cs[n] \in Agreed /\ Fits(cs[n], b)
  BY <1>1, Executed, Zenon DEF ReplicaInv
<1>3. b.txs \subseteq computed
  <2>1. done[n] + 1 \in 1 .. Len(log[n])
    BY <1>1 DEF ReplicaInv, TypeOK
  <2> QED
    BY <2>1, Zenon DEF SentIsComputed
<1> HIDE DEF b
<1>4. Good(next, computed)
  BY <1>2, <1>3, BlockGood, Zenon DEF AllGood
<1> HIDE DEF next
<1>5. ASSUME NEW m \in Node PROVE Good(cs'[m], computed) /\ Good(saved'[m], computed)
  BY <1>1, <1>4, Zenon DEF AllGood, ReplicaInv, TypeOK
<1>6. computed \subseteq computed'
  BY ExecuteSends, Zenon DEF ReplicaInv
<1> QED
  BY <1>5, <1>6, GoodGrows, Zenon DEF AllGood

\* Every action keeps what is sent among what was calculated, and what is accepted
\* backed by it.
LEMMA BackingStep == BackingInv /\ [Next]_vars => BackingInv'
<1> SUFFICES ASSUME ReplicaInv, SentIsComputed, AllGood, [Next]_vars
             PROVE  SentIsComputed' /\ AllGood'
  BY ReplicaStep, Zenon DEF BackingInv
<1>0. TypeOK
  BY DEF ReplicaInv
<1>1. CASE Propose
  <2>1. PICK b \in Block : b.txs \subseteq pool /\ ProposeBlock(b)
    BY <1>0, <1>1, ProposedBlock, Zenon
  <2>2. /\ UNCHANGED <<cs, saved, bundle, computed>> /\ pool' \subseteq pool
        /\ log' = [n \in Node |-> Append(log[n], b)]
    BY <2>1, Zenon DEF ProposeBlock
  <2>3. ASSUME NEW n \in Node, NEW k \in 1 .. Len(log'[n])
        PROVE  log'[n][k].txs \subseteq computed
    <3>1. log'[n] = Append(log[n], b) /\ log[n] \in Seq(Block)
      BY <1>0, <2>2, Zenon DEF TypeOK
    <3>2. log'[n][k] = b \/ (k \in 1 .. Len(log[n]) /\ log'[n][k] = log[n][k])
      BY <2>3, <3>1
    <3> QED
      BY <2>1, <3>2, Zenon DEF SentIsComputed
  <2> QED
    BY <2>2, <2>3, Zenon DEF SentIsComputed, AllGood
<1>2. ASSUME NEW n \in Node, NEW v \in Results[n], ExecuteBlock(n, v)
      PROVE  SentIsComputed' /\ AllGood'
  BY <1>0, <1>2, ExecuteSends, ExecuteGood, Zenon
<1>3. ASSUME NEW n \in Node, Restart(n) PROVE SentIsComputed' /\ AllGood'
  BY <1>0, <1>3, Zenon DEF Restart, SentIsComputed, AllGood, TypeOK
<1>4. ASSUME NEW p \in pool, CommandLost(p) PROVE SentIsComputed' /\ AllGood'
  BY <1>4, Zenon DEF CommandLost, SentIsComputed, AllGood
<1>5. CASE UNCHANGED vars
  BY <1>5, Zenon DEF vars, SentIsComputed, AllGood
<1> QED
  BY <1>1, <1>2, <1>3, <1>4, <1>5, Zenon DEF Next

\* A value that a node takes over is within tolerance of what validators with the
\* required voting power calculated for that very event, although results of aborted
\* events are still on their way and nodes fall back to snapshots with results in
\* them (bundleReceived, tryConsensusLocked).
THEOREM ValuesAreBacked == Spec => []AcceptedIsBacked
<1>1. Init => BackingInv
  <2> SUFFICES ASSUME Init PROVE SentIsComputed /\ AllGood
    BY ReplicaInit, Zenon DEF BackingInv
  <2>1. Good(InitAgreed, computed)
    BY DEF InitAgreed, Good, Sound, Backed
  <2>2. ASSUME NEW n \in Node
        PROVE  cs[n] = InitAgreed /\ saved[n] = InitAgreed /\ bundle[n] = None
    BY Zenon DEF Init
  <2>3. ASSUME NEW n \in Node PROVE 1 .. Len(log[n]) = {}
    BY DEF Init
  <2>4. pool \subseteq computed
    BY Zenon DEF Init
  <2> QED
    BY <2>1, <2>2, <2>3, <2>4, Zenon DEF SentIsComputed, AllGood
<1>2. BackingInv => AcceptedIsBacked
  BY Zenon DEF BackingInv, AllGood, Good, Backed, BackedBy, AcceptedIsBacked
<1> QED
  BY <1>1, <1>2, BackingStep, PTL DEF Spec

=============================================================================
