------------------------------ MODULE StateVar ------------------------------
(***************************************************************************)
(* One floating-point state variable of core/statevar: an event makes      *)
(* every validator calculate a value, the values are sent as transactions, *)
(* and a value within tolerance of those of the required voting power is   *)
(* accepted by every node.                                                 *)
(*                                                                         *)
(* Every node executes the same blocks at its own pace; a block may        *)
(* trigger an event and delivers at most one proposed value (the order of  *)
(* transactions is the order of blocks).  cooldown counts the blocks until *)
(* startBlock takes the node's own bundle for lost.                        *)
(***************************************************************************)
EXTENDS Integers, Sequences, FiniteSets, FiniteSetsExt

CONSTANTS
  Node,             \* the nodes
  Validators,       \* the ones that are validators
  Power,            \* Power[n]: voting power
  RequiredNum,      \* validatorVotesRequired = RequiredNum / RequiredDen
  RequiredDen,
  Results,          \* Results[n]: integers the calculation of n may have as its result
  Tolerance,        \* WithinTolerance: how far apart results may be
  Orders,           \* orders in which the block's rng may try the nodes
  ResendInterval,   \* the 5 seconds of startBlock, in blocks
  SnapshotInterval, \* in blocks
  MaxEvents,        \* bound: events that trigger the calculation
  MaxLag,           \* bound: blocks a node may be behind
  MaxRestarts       \* bound: restarts of nodes

ASSUME StateVarAssumption ==
  /\ Validators \subseteq Node /\ Power \in [Node -> Nat]
  /\ RequiredNum \in Nat /\ RequiredDen \in Nat \ {0}
  /\ Results \in [Node -> SUBSET Int] /\ Tolerance \in Nat
  /\ Orders \subseteq [Node -> Nat] /\ Orders # {}
  /\ ResendInterval \in Nat /\ SnapshotInterval \in Nat \ {0}
  /\ MaxEvents \in Nat /\ MaxLag \in Nat \ {0} /\ MaxRestarts \in Nat

VARIABLES
  tip,       \* the agreed state after the last block decided
  log,       \* log[n]: the blocks decided since n's last snapshot
  done,      \* done[n]: how many of log[n] the node has executed
  cs,        \* cs[n]: what the blocks determine, as n has it
  bundle,    \* bundle[n]: lastSentSelfBundle
  cooldown,  \* cooldown[n]: blocks until bundle[n] may be sent again
  saved,     \* saved[n]: n's last snapshot
  pool,      \* proposals handed to the Commander and not in a block yet
  computed,  \* history: every proposal a validator has calculated
  restarts

vars == <<tip, log, done, cs, bundle, cooldown, saved, pool, computed, restarts>>

NoEvent  == 0
Event    == 1 .. MaxEvents
Values == UNION {Results[n] : n \in Node}

Proposal == [node : Node, event : Event, value : Values]
None     == [node |-> "none"]
States   == {"Unspecified", "CalculationStarted", "PerfectMatch", "SeekingConsensus",
             "consensusReached", "Error"}
Block    == [trigger : {"no", "calculated", "failed"}, txs : SUBSET Proposal,
             order : Orders]
\* accepted is history: the value handed to result() for each event
Agreed   == [event : Event \cup {NoEvent}, last : Event \cup {NoEvent}, state : States,
             results : SUBSET Proposal, rounds : Nat, accepted : SUBSET [event : Event, value : Values]]

-----------------------------------------------------------------------------
TotalPower(S) == MapThenSumSet(LAMBDA n : Power[n], S)

Enough(S) == TotalPower(S) * RequiredDen >= RequiredNum * TotalPower(Node)

Voters(results) == {p.node : p \in results}

WithinTolerance(v, w) == v - w <= Tolerance /\ w - v <= Tolerance

\* tryConsensusLocked: the results that would be accepted as candidates
Candidates(results) ==
  {p \in results :
     Enough({q.node : q \in {q \in results : WithinTolerance(q.value, p.value)}})}

\* the rng tries the nodes in some order, the same on every node
Picked(results, order) ==
  CHOOSE p \in Candidates(results) :
    \A q \in Candidates(results) : order[p.node] <= order[q.node]

consensusReached(c, state, v) ==
  [c EXCEPT !.state = state, !.event = NoEvent, !.results = {}, !.rounds = 0,
            !.accepted = @ \cup {[event |-> c.event, value |-> v]}]

tryConsensus(c, order) ==
  IF Candidates(c.results) = {} THEN [c EXCEPT !.state = "SeekingConsensus"]
  ELSE consensusReached(c, "consensusReached", Picked(c.results, order).value)

\* the bundle of the sender replaces its earlier one
Saved(c, p) ==
  [c EXCEPT !.results = {q \in @ : q.node # p.node} \cup {p}]

Decide(c, order) ==
  IF ~Enough(Voters(c.results)) THEN c
  ELSE IF c.state # "SeekingConsensus" /\ \A p, q \in c.results : p.value = q.value
       THEN consensusReached(c, "PerfectMatch", (CHOOSE p \in c.results : TRUE).value)
       ELSE tryConsensus(c, order)

\* mutant: a result for an event that was aborted is taken
bundleReceivedAnyEvent(c, p, order) ==
  IF c.event = NoEvent \/ p.node \notin Validators THEN c
  ELSE Decide(Saved(c, p), order)

bundleReceived(c, p, order) ==
  IF c.event # p.event \/ p.node \notin Validators THEN c
  ELSE Decide(Saved(c, p), order)

\* eventTriggered, with the calculation that it starts, which finishes before it
\* returns; a calculation that fails ends the event on every node
eventTriggered(c, trigger) ==
  LET aborted == IF c.event # NoEvent /\ c.state = "SeekingConsensus"
                 THEN c.rounds + 1 ELSE c.rounds
  IN IF trigger = "no" THEN c
     ELSE [c EXCEPT !.last = @ + 1, !.rounds = aborted, !.results = {},
                    !.event = IF trigger = "failed" THEN NoEvent ELSE c.last + 1,
                    !.state = IF trigger = "failed" THEN "Error" ELSE "CalculationStarted"]

AgreedBlock(c, b) ==
  LET c1 == eventTriggered(c, b.trigger)
  IN IF b.txs = {} THEN c1
     ELSE bundleReceived(c1, CHOOSE p \in b.txs : TRUE, b.order)

InitAgreed == [event |-> NoEvent, last |-> NoEvent, state |-> "Unspecified",
               results |-> {}, rounds |-> 0, accepted |-> {}]

-----------------------------------------------------------------------------
\* bundleReceived compares the sender's Vega public key with our own node id
PubKey(n)     == <<"key", n>>
SelfNodeID(n) == <<"id", n>>
IsSelf(n, m)  == SelfNodeID(n) = PubKey(m)

\* mutant: the bundle is never taken for lost
DueNever(n) == FALSE

\* startBlock: an active event and a bundle that was sent a while ago
Due(n) == cs[n].event # NoEvent /\ bundle[n] # None /\ cooldown[n] = 0

Resends(n) == IF Due(n) THEN {bundle[n]} ELSE {}

\* CalculationFinished at n for the event that block b triggers: the result depends on
\* the machine, so it is any value
Calculated(n, b, v) ==
  IF b.trigger = "calculated" /\ n \in Validators
  THEN {[node |-> n, event |-> cs[n].last + 1, value |-> v]} ELSE {}

\* lastSentSelfBundle after block b: eventTriggered clears it when it aborts an event,
\* CalculationFinished sets it, our own bundle clears it
BundleAfter(n, b, v) ==
  LET own     == Calculated(n, b, v)
      aborted == b.trigger # "no" /\ cs[n].event # NoEvent
      event   == eventTriggered(cs[n], b.trigger).event
      after   == IF own # {} THEN CHOOSE p \in own : TRUE
                 ELSE IF aborted THEN None ELSE bundle[n]
  IN IF \E p \in b.txs : p.event = event /\ IsSelf(n, p.node) THEN None ELSE after

\* mutant: the results received so far are not in the snapshot
SerialiseNoResults(c) == [c EXCEPT !.results = {}]

\* what the snapshot keeps: event, state, results and rounds
Serialise(c) == c

ExecuteBlock(n, v) ==
  LET b    == log[n][done[n] + 1]
      next == AgreedBlock(cs[n], b)
      own  == Calculated(n, b, v)
      full == done[n] + 1 = SnapshotInterval
  IN
  /\ done[n] < Len(log[n])
  /\ cs' = [cs EXCEPT ![n] = next]
  /\ bundle' = [bundle EXCEPT ![n] = BundleAfter(n, b, v)]
  /\ cooldown' = [cooldown EXCEPT ![n] =
       IF BundleAfter(n, b, v) = None THEN 0
       ELSE IF own # {} \/ Due(n) THEN ResendInterval
       ELSE IF @ > 0 THEN @ - 1 ELSE 0]
  /\ pool' = pool \cup Resends(n) \cup own
  /\ computed' = computed \cup own
  /\ saved' = IF full THEN [saved EXCEPT ![n] = Serialise(next)] ELSE saved
  /\ log' = IF full
            THEN [log EXCEPT ![n] = SubSeq(@, done[n] + 2, Len(@))] ELSE log
  /\ done' = [done EXCEPT ![n] = IF full THEN 0 ELSE @ + 1]
  /\ UNCHANGED <<tip, restarts>>

\* the next block can be decided
Ready == \A n \in Node : Len(log[n]) - done[n] < MaxLag

\* A proposal goes missing in Tendermint, or its submission fails when its event is no
\* longer active; while it is active, logAndRetry submits it again at once.  The
\* mempool is read for the next block only, so that is when losses are made to show.
CommandLost(p) ==
  /\ p \in pool /\ Ready
  /\ pool' = pool \ {p}
  /\ UNCHANGED <<tip, log, done, cs, bundle, cooldown, saved, computed, restarts>>

\* postRestore: the state of the variable comes back, and nothing is calculated
Restart(n) ==
  /\ restarts < MaxRestarts
  /\ restarts' = restarts + 1
  /\ cs' = [cs EXCEPT ![n] = saved[n]]
  /\ done' = [done EXCEPT ![n] = 0]
  /\ bundle' = [bundle EXCEPT ![n] = None]
  /\ cooldown' = [cooldown EXCEPT ![n] = 0]
  /\ UNCHANGED <<tip, log, saved, pool, computed>>

\* Tendermint decides the next block
ProposeBlock(b) ==
  /\ Ready
  /\ b.trigger # "no" => tip.last < MaxEvents
  /\ b.txs \subseteq pool /\ Cardinality(b.txs) <= 1
  /\ tip' = AgreedBlock(tip, b)
  /\ log' = [n \in Node |-> Append(log[n], b)]
  /\ pool' = pool \ b.txs
  /\ UNCHANGED <<done, cs, bundle, cooldown, saved, computed, restarts>>

Propose ==
  \E trigger \in {"no", "calculated", "failed"}, order \in Orders :
    \E txs \in {{}} \cup {{p} : p \in pool} :
      ProposeBlock([trigger |-> trigger, txs |-> txs, order |-> order])

Init ==
  /\ tip = InitAgreed
  /\ log = [n \in Node |-> <<>>] /\ done = [n \in Node |-> 0]
  /\ cs = [n \in Node |-> InitAgreed] /\ saved = [n \in Node |-> InitAgreed]
  /\ bundle = [n \in Node |-> None] /\ cooldown = [n \in Node |-> 0]
  /\ pool = {} /\ computed = {} /\ restarts = 0

Next ==
  \/ Propose
  \/ \E n \in Node : (\E v \in Results[n] : ExecuteBlock(n, v)) \/ Restart(n)
  \/ \E p \in pool : CommandLost(p)

Spec == Init /\ [][Next]_vars

-----------------------------------------------------------------------------
\* Every variable ranges over the values the code can store in it.
TypeOK ==
  /\ tip \in Agreed
  /\ log \in [Node -> Seq(Block)] /\ done \in [Node -> Nat]
  /\ cs \in [Node -> Agreed] /\ saved \in [Node -> Agreed]
  /\ bundle \in [Node -> Proposal \cup {None}]
  /\ cooldown \in [Node -> 0 .. ResendInterval]
  /\ pool \subseteq Proposal /\ computed \subseteq Proposal
  /\ restarts \in 0 .. MaxRestarts

\* Nodes that have executed all the blocks have accepted the same values for the same
\* events, whatever each of them calculated, sent, lost or restored (bundleReceived
\* and postRestore read nothing that is local to a node).
CaughtUpAgree == \A n \in Node : done[n] = Len(log[n]) => cs[n] = tip

\* A value that every node takes over was within tolerance of what validators holding
\* the required voting power calculated for that very event, although results of
\* aborted events are still on their way (bundleReceived, tryConsensusLocked).
AcceptedIsBacked ==
  \A n \in Node : \A a \in cs[n].accepted :
    \E S \in SUBSET {m \in Validators : \E p \in computed :
                        /\ p.node = m /\ p.event = a.event
                        /\ WithinTolerance(p.value, a.value)} : Enough(S)

\* Blocks keep coming and are executed, and a proposal that is sent again and again
\* gets into a block at last.
IncludeProposal(n) ==
  \E order \in Orders : \E p \in {p \in pool : p.node = n /\ p.event = tip.event} :
    ProposeBlock([trigger |-> "no", txs |-> {p}, order |-> order])

\* Weak fairness of Propose and ExecuteBlock, strong fairness of IncludeProposal, with
\* the conditions they are enabled under written out.
Fairness ==
  /\ []<>~Ready \/ []<><<Propose>>_vars
  /\ \A n \in Node :
       /\ \/ []<>(done[n] = Len(log[n]))
          \/ []<><<\E v \in Results[n] : ExecuteBlock(n, v)>>_vars
       /\ \/ <>[](~Ready \/ \A p \in pool : p.node = n => p.event # tip.event)
          \/ []<><<IncludeProposal(n)>>_vars

FairSpec == Spec /\ Fairness

\* Every event ends at every node, with an accepted value, an error or another event
\* (startBlock: "use retries to workaround transactions go missing in tendermint"), unless
\* two results for it are too far apart or a node restarts: a restored node does not
\* calculate its result again.
EveryEventEnds ==
  \A e \in Event :
    (\E n \in Node : cs[n].event = e) ~>
      \/ \A n \in Node : cs[n].event # e
      \/ restarts > 0
      \/ \E p, q \in computed :
           p.event = e /\ q.event = e /\ ~WithinTolerance(p.value, q.value)

=============================================================================
