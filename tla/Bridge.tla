------------------------------- MODULE Bridge -------------------------------
(***************************************************************************)
(* The way of an event of the collateral bridge from Ethereum into the     *)
(* ledger: every node polls the bridge contract (evtforward/ethereum),     *)
(* keeps what it finds until somebody's chain event is in a block          *)
(* (evtforward), validators vote on it (the Witness module, here by what   *)
(* it promises), and banking deduplicates and applies it.  Heartbeats and  *)
(* applied events move the Ethereum height a restarted node polls from     *)
(* (evtforward/tracker.go).                                                *)
(*                                                                         *)
(* evts, next and last belong to a node.  The other variables are          *)
(* determined by the blocks: they are modelled once for all replicas.      *)
(* Time is left out: a node is the sender of an event now and again        *)
(* (isSender), an acknowledged hash is forgotten some time later           *)
(* (module AckedEvents), a check closes when it passes or times out.       *)
(***************************************************************************)
EXTENDS Integers, FiniteSets, FiniteSetsExt

CONSTANTS
  Node,              \* the validators
  Quorum,            \* sets of validators whose votes pass a check
  Event,             \* events of the bridge contract
  Genuine,           \* the ones that stay on Ethereum's canonical chain
  Legacy,            \* the ones applied before references had a chain ID
  Kind,              \* Kind[e]: "list", "deposit", "stop" or "resume"
  Block, Index,      \* Block[e], Index[e]: Ethereum height and log index
  Origin,            \* Ethereum height when the nodes start
  Recorded,          \* contract height recorded by then, 0 if none
  MaxEthereumBlocks, \* blocks a poll reads beyond the first
  HeartbeatInterval, \* in Ethereum blocks
  MaxEth,            \* bound: Ethereum's height
  MaxForgotten,      \* bound: acknowledged hashes forgotten
  MaxRestarts        \* bound: restarts of nodes

ASSUME BridgeAssumption ==
  /\ Quorum \subseteq SUBSET Node
  /\ Genuine \subseteq Event /\ Legacy \subseteq Event
  /\ Kind \in [Event -> {"list", "deposit", "stop", "resume"}]
  /\ Block \in [Event -> Nat] /\ Index \in [Event -> Nat]
  /\ Origin \in Nat /\ Recorded \in 0 .. Origin /\ MaxEthereumBlocks \in Nat
  /\ HeartbeatInterval \in Nat \ {0}
  /\ MaxEth \in Nat /\ MaxForgotten \in Nat /\ MaxRestarts \in Nat
  /\ Event \cap Nat = {}

\* Ethereum numbers the logs of a block, and the first block has none.
ASSUME LogPositions ==
  \A e, f \in {g \in Event : Kind[g] \in {"stop", "resume"}} :
    Block[e] > 0 /\ (Block[e] = Block[f] /\ Index[e] = Index[f] => e = f)

VARIABLES
  eth,        \* Ethereum's height
  next,       \* next[n]: the height node n polls next
  last,       \* last[n]: the height n last sent something for
  evts,       \* evts[n]: what n has seen and nobody has acknowledged
  pool,       \* <<n, x>>: chain events handed to the Commander
  acked,      \* hashes of acknowledged chain events
  pending,    \* pending[e]: asset actions for e that are being checked
  beats,      \* pending heartbeats with the votes they have
  seen,       \* seenAssetActions: references of applied events
  lastSeen,   \* the tracker's block height of the bridge contract
  saved,      \* lastSeen in the last snapshot
  listed,     \* the asset is enabled in collateral
  bridge,     \* bridgeState
  credits,    \* history: how often a deposit was paid out
  closed,     \* history: events whose action is over
  forgotten, restarts

chain == <<acked, pending, beats, seen, lastSeen, listed, bridge, credits, closed>>
vars  == <<eth, next, last, evts, pool, chain, saved, forgotten, restarts>>

Height    == 0 .. MaxEth
Item      == Event \cup Height      \* a bridge event, or a heartbeat for a height
RefKey(e, chainID) == <<e, chainID>>

-----------------------------------------------------------------------------
EthereumGrows ==
  /\ eth < MaxEth
  /\ eth' = eth + 1
  /\ UNCHANGED <<next, last, evts, pool, chain, saved, forgotten, restarts>>

\* issueFilteringRequest: the last block of the request
RequestTo(n) == Min({next[n] + MaxEthereumBlocks, eth})

Found(n) == {e \in Event : Block[e] \in next[n] .. RequestTo(n)}

\* the height of the last event found in a request
LastFound(n) == IF Found(n) = {} THEN last[n] ELSE Max({Block[e] : e \in Found(n)})

\* sendHeartbeat: whole intervals between the last thing sent and the next poll; there
\* is no block time for a height Ethereum has not reached
Heartbeats(from, to) ==
  {h \in 0 .. eth :
     h # from /\ h = from + ((to + 1 - from) \div HeartbeatInterval) * HeartbeatInterval}

\* ForwardFromSelf drops what it knows already
Forwarded(n, items) == evts[n] \cup (items \ acked)

\* mutant: the block after the one the request ended with is not asked for
PollSkips(n) ==
  /\ next[n] <= eth
  /\ evts' = [evts EXCEPT ![n] = Forwarded(n, Found(n))]
  /\ next' = [next EXCEPT ![n] = RequestTo(n) + 2]
  /\ last' = [last EXCEPT ![n] = LastFound(n)]
  /\ UNCHANGED <<eth, pool, chain, saved, forgotten, restarts>>

\* gatherEvents for the collateral contract
Poll(n) ==
  LET beat == Heartbeats(LastFound(n), RequestTo(n)) IN
  /\ next[n] <= eth
  /\ evts' = [evts EXCEPT ![n] = Forwarded(n, Found(n) \cup beat)]
  /\ next' = [next EXCEPT ![n] = RequestTo(n) + 1]
  /\ last' = [last EXCEPT ![n] = IF beat = {} THEN LastFound(n) ELSE CHOOSE h \in beat : TRUE]
  /\ UNCHANGED <<eth, pool, chain, saved, forgotten, restarts>>

\* mutant: an event that was sent is not sent again
SendOnce(n, x) ==
  /\ x \in evts[n]
  /\ pool' = pool \cup {<<n, x>>}
  /\ evts' = [evts EXCEPT ![n] = @ \ {x}]
  /\ UNCHANGED <<eth, next, last, chain, saved, forgotten, restarts>>

\* Forwarder.OnTick: time for another try, and the node is the sender
Send(n, x) ==
  /\ x \in evts[n]
  /\ pool' = pool \cup {<<n, x>>}
  /\ UNCHANGED <<eth, next, last, evts, chain, saved, forgotten, restarts>>

CommandLost(n, x) ==
  /\ <<n, x>> \in pool
  /\ pool' = pool \ {<<n, x>>}
  /\ UNCHANGED <<eth, next, last, evts, chain, saved, forgotten, restarts>>

-----------------------------------------------------------------------------
\* Ack: newly acknowledged
Ack(x) == x \notin acked

\* processChainEvent: what Ack lets through starts a check, but a heartbeat that is
\* behind the height already recorded
Deliver(n, x) ==
  /\ <<n, x>> \in pool
  /\ pool' = pool \ {<<n, x>>}
  /\ IF Ack(x)
     THEN /\ acked' = acked \cup {x}
          /\ evts' = [m \in Node |-> evts[m] \ {x}]
          /\ pending' = IF x \in Event THEN [pending EXCEPT ![x] = @ + 1] ELSE pending
          /\ beats' = IF x \notin Event /\ x > lastSeen /\ \A b \in beats : b.height # x
                      THEN beats \cup {[height |-> x, votes |-> {}]} ELSE beats
     ELSE UNCHANGED <<acked, evts, pending, beats>>
  /\ UNCHANGED <<eth, next, last, seen, lastSeen, listed, bridge, credits, closed, saved,
                 forgotten, restarts>>

\* ackedEvents.RemoveBefore
ForgetAcked(x) ==
  /\ x \in acked /\ forgotten < MaxForgotten
  /\ acked' = acked \ {x}
  /\ forgotten' = forgotten + 1
  /\ UNCHANGED <<eth, next, last, evts, pool, pending, beats, seen, lastSeen, saved, listed,
                 bridge, credits, closed, restarts>>

-----------------------------------------------------------------------------
\* mutant: the reference without a chain ID is not looked for
AlreadySeenWithChain(e) == RefKey(e, "1") \in seen

\* deduplicateAssetAction: events of the primary chain may have been recorded without
\* its ID
AlreadySeen(e) == RefKey(e, "1") \in seen \/ RefKey(e, "") \in seen

\* mutant: only the block is compared
isNewerBlock(b, i) == b >= bridge.block

isNewerEvent(b, i) == IF b = bridge.block THEN i > bridge.index ELSE b > bridge.block

\* mutant: the height of the event replaces the recorded one
ContractBlockAny(h) == h

\* UpdateContractBlock
ContractBlock(h) == Max({lastSeen, h})

\* finalizeAction: a deposit of an asset that collateral does not know is cancelled
FinalizeAction(e) ==
  /\ seen' = seen \cup {RefKey(e, "1")}
  /\ lastSeen' = ContractBlock(Block[e])
  /\ credits' = IF Kind[e] = "deposit" /\ listed
                THEN [credits EXCEPT ![e] = @ + 1] ELSE credits
  /\ listed' = (listed \/ Kind[e] = "list")
  /\ bridge' = IF Kind[e] \in {"stop", "resume"} /\ isNewerEvent(Block[e], Index[e])
               THEN [active |-> Kind[e] = "resume", block |-> Block[e], index |-> Index[e]]
               ELSE bridge

\* The validators found the event: witness.OnTick calls onCheckDone and banking.OnTick
\* processes the action in the same tick.
ActionOk(e) ==
  /\ pending[e] > 0 /\ e \in Genuine
  /\ pending' = [pending EXCEPT ![e] = @ - 1]
  /\ closed' = closed \cup {e}
  /\ IF AlreadySeen(e) THEN UNCHANGED <<seen, lastSeen, credits, listed, bridge>>
     ELSE FinalizeAction(e)
  /\ UNCHANGED <<eth, next, last, evts, pool, acked, beats, saved, forgotten, restarts>>

\* The validators did not find the event before the deadline.
ActionRejected(e) ==
  /\ pending[e] > 0
  /\ pending' = [pending EXCEPT ![e] = @ - 1]
  /\ closed' = closed \cup {e}
  /\ UNCHANGED <<eth, next, last, evts, pool, acked, beats, seen, lastSeen, saved, listed,
                 bridge, credits, forgotten, restarts>>

-----------------------------------------------------------------------------
\* VerifyHeartbeat: the node has itself read the logs up to that height
VerifyHeartbeat(n, h) == h <= next[n] - 1

VoteHeartbeat(n, b) ==
  /\ b \in beats /\ n \notin b.votes
  /\ VerifyHeartbeat(n, b.height)
  /\ beats' = (beats \ {b}) \cup {[b EXCEPT !.votes = @ \cup {n}]}
  /\ UNCHANGED <<eth, next, last, evts, pool, acked, pending, seen, lastSeen, saved, listed,
                 bridge, credits, closed, forgotten, restarts>>

\* onVerified, and Tracker.OnTick in the same tick; without enough votes at the
\* deadline the heartbeat is dropped
CloseHeartbeat(b) ==
  /\ b \in beats
  /\ beats' = beats \ {b}
  /\ lastSeen' = IF \E Q \in Quorum : Q \subseteq b.votes
                 THEN ContractBlock(b.height) ELSE lastSeen
  /\ UNCHANGED <<eth, next, last, evts, pool, acked, pending, seen, saved, listed, bridge,
                 credits, closed, forgotten, restarts>>

TakeSnapshot ==
  /\ saved # lastSeen
  /\ saved' = lastSeen
  /\ UNCHANGED <<eth, next, last, evts, pool, chain, forgotten, restarts>>

\* UpdateStartingBlock, or the current height when nothing was ever recorded
StartingBlock == IF saved = 0 THEN eth ELSE saved

\* What the blocks determine comes back from the snapshot and the blocks after it.
Restart(n) ==
  /\ restarts < MaxRestarts
  /\ restarts' = restarts + 1
  /\ evts' = [evts EXCEPT ![n] = {}]
  /\ next' = [next EXCEPT ![n] = StartingBlock]
  /\ last' = [last EXCEPT ![n] = IF saved = 0 THEN Origin ELSE saved]
  /\ UNCHANGED <<eth, pool, chain, saved, forgotten>>

-----------------------------------------------------------------------------
Init ==
  /\ eth = Origin
  /\ next = [n \in Node |-> Origin] /\ last = [n \in Node |-> Origin]
  /\ evts = [n \in Node |-> {}] /\ pool = {} /\ acked = {}
  /\ pending = [e \in Event |-> 0] /\ beats = {}
  /\ seen = {RefKey(e, "") : e \in Legacy}
  /\ lastSeen = Recorded /\ saved = Recorded
  /\ listed = (\A e \in Event : Kind[e] = "list" => e \in Legacy)
  /\ bridge = [active |-> TRUE, block |-> 0, index |-> 0]
  /\ credits = [e \in Event |-> IF e \in Legacy THEN 1 ELSE 0]
  /\ closed = Legacy
  /\ forgotten = 0 /\ restarts = 0

Next ==
  \/ EthereumGrows \/ TakeSnapshot
  \/ \E n \in Node : Poll(n) \/ Restart(n)
  \/ \E n \in Node : \E x \in evts[n] : Send(n, x)
  \/ \E p \in pool : Deliver(p[1], p[2]) \/ CommandLost(p[1], p[2])
  \/ \E x \in acked : ForgetAcked(x)
  \/ \E e \in Event : ActionOk(e) \/ ActionRejected(e)
  \/ \E b \in beats : CloseHeartbeat(b) \/ \E n \in Node : VoteHeartbeat(n, b)

Spec == Init /\ [][Next]_vars

\* Every validator keeps polling, an event somebody holds is sent now and again, and one
\* that is sent again and again gets into a block; checks close.
\* Deliver is strongly fair, the others weakly; the conditions under which they change
\* the state are written out.
Fairness ==
  /\ \A n \in Node : []<>(next[n] > eth) \/ []<><<Poll(n)>>_vars
  /\ \A e \in Event :
       /\ \/ []<>(\A n \in Node : e \in evts[n] => <<n, e>> \in pool)
          \/ []<><<\E n \in Node : Send(n, e)>>_vars
       /\ \/ <>[](\A n \in Node : <<n, e>> \notin pool)
          \/ []<><<\E n \in Node : Deliver(n, e)>>_vars
       /\ []<>(pending[e] = 0) \/ []<><<ActionOk(e) \/ ActionRejected(e)>>_vars

FairSpec == Spec /\ Fairness

-----------------------------------------------------------------------------
\* Every variable ranges over the values the code can store in it.
TypeOK ==
  /\ eth \in Height /\ next \in [Node -> 0 .. MaxEth + 1] /\ last \in [Node -> Height]
  /\ evts \in [Node -> SUBSET Item] /\ pool \subseteq Node \X Item /\ acked \subseteq Item
  /\ pending \in [Event -> Nat]
  /\ beats \subseteq [height : Height, votes : SUBSET Node]
  /\ seen \subseteq Event \X {"", "1"}
  /\ lastSeen \in Height /\ saved \in Height
  /\ listed \in BOOLEAN /\ bridge \in [active : BOOLEAN, block : Nat, index : Nat]
  /\ credits \in [Event -> Nat] /\ closed \subseteq Event
  /\ forgotten \in 0 .. MaxForgotten /\ restarts \in 0 .. MaxRestarts

\* The deposit path implements the ledger: a deposit is paid out when it is genuine, and
\* once at most, although it is seen, sent and acknowledged again after its hash was
\* forgotten or its node restarted (deduplicateAssetAction).
Ledger == INSTANCE BridgeLedger WITH paid <- credits
LedgerSpec == Ledger!Spec

\* The height restarted nodes poll from never goes back, in whatever order the checks of
\* events and heartbeats finish (UpdateContractBlock, Tracker.OnTick).
LastSeenGrows == [][lastSeen' >= lastSeen]_vars

\* Stops and resumptions of the bridge may be confirmed in any order: the state is that
\* of the one latest on Ethereum among those applied (isNewerEvent).
BridgeStateIsLatest ==
  LET applied == {e \in Event : Kind[e] \in {"stop", "resume"} /\ RefKey(e, "1") \in seen}
  IN \A e \in applied :
       (\A f \in applied : Block[f] < Block[e] \/ (Block[f] = Block[e] /\ Index[f] <= Index[e]))
         => bridge.active = (Kind[e] = "resume")

\* What all nodes are done reading is not lost on the way: an event below every node's
\* next poll has been taken up by the chain or is still being sent by somebody.  The
\* comment of Contract.next says "all block heights less than this will have events
\* sent in".
NoEventForgotten ==
  \A e \in Event \ Legacy :
    (\A n \in Node : Block[e] < next[n]) =>
      \/ pending[e] > 0 \/ e \in closed
      \/ \E n \in Node : e \in evts[n]

\* Every event that reaches Ethereum is applied, rejected or recognised as a duplicate,
\* although chain events get lost and a node restarts.
EveryEventCloses ==
  \A e \in Event : (eth >= Block[e]) ~> (e \in closed)

=============================================================================
