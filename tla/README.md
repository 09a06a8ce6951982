# A TLA+ model of the Vega node

This directory holds TLA+ specifications of parts of the Vega protocol node
(`src/core` and what stands around it), TLC configurations that check them on
small instances, and TLAPS proofs of the central results for every instance.

1. The system · 2. Modules and the code · 3. Runs · 4. Bounds · 5. Fairness ·
6. Proofs · 7. Where the code and its documentation disagree · 8. Not modelled

## 1. The system

A Vega node is a deterministic state machine driven by Tendermint blocks. Every
node executes the same transactions in the same order, so two nodes at the same
height must be in the same state: what goes beyond that (polling Ethereum,
signing, sending transactions of its own, writing snapshots) depends on
goroutines, on the network and on restarts.

| Group | Parts (under `src/`) |
|---|---|
| Consensus front end | `core/blockchain/abci`, `core/processor`, `core/txcache`, `core/pow`, `core/spam`, **`core/snapshot`**, `core/checkpoint`, **`core/protocolupgrade`**, `visor` |
| Validators and bridges | **`core/validators`** (witness, part of the topology), **`core/notary`**, **`core/evtforward`**, **`core/banking`** (deposits, stops of the bridge), `core/assets`, **`core/staking`** (accounts), `core/bridges`, `core/nodewallets` |
| Trading | `core/execution` (**stop orders**), **`core/matching`**, `core/positions`, `core/settlement`, `core/collateral`, `core/risk`, `core/liquidity`, `core/monitor`, `core/fee`, `core/products` |
| Economy | **`core/epochtime`**, **`core/delegation`**, `core/rewards`, `core/vesting`, `core/referral`, `core/teams`, `core/activitystreak`, discount and rebate programs |
| Decisions and data | `core/governance`, `core/netparams`, `core/limits`, **`core/statevar`**, `core/datasource` |
| Outside the state machine | `core/broker`, `core/subscribers`, `datanode`, `wallet`, `blockexplorer`, `core/api` |

What is in bold has a module. How these parts meet:

- An event on Ethereum is found by every node (`evtforward/ethereum`), kept and
  sent until it is in a block (`evtforward`), confirmed by votes (`validators/witness`),
  then deduplicated and applied (`banking`, `staking`). `Bridge` is that whole way;
  `Witness` is the vote in detail and `AckedEvents` the memory of what was sent, both
  of which `Bridge` uses by what they promise.
- The way back to Ethereum needs the signatures that `notary` collects.
- Stake that was confirmed carries nominations (`delegation`), which epochs promote and
  which decide on the validators. `Delegation` composes the accounts (`Staking`), the
  delegation engine, the epochs and the removal of validators.
- A trade in the book (`matching`) moves the price that triggers stop orders.
- All of it is saved by `snapshot` and handed to the next release by `protocolupgrade`.

## 2. Modules and the code

In the modules of replicated state the blocks are a variable, each node has executed
a number of them, and what the nodes must agree on is kept apart from what is local to
one node. An action is a whole callback, handler or step of a goroutine.

**Witness** (`core/validators/witness.go`, `witness_snapshot.go`). `chain` is the list
of blocks; `cs[n]` the resources, deadlines and votes of node n; the rest is local: the
state of the check routine, votes sent, the snapshot to restart from. `ExecuteBlock` is
OnTick (closing what has passed or is out of time, resending) and the block's
transactions; a check succeeds or gives up, a command fails, is lost or gets into a
block. `PowerMaps` are the voting powers an epoch may install. The removal of nodes
without stake and status is left out: their votes have no power.

**Notary** (`core/notary`). Signatures per resource, changes of the Tendermint set,
retries (`CommandOk`, `CommandFailed`, `IncludeSignature`), restarts from a snapshot
with the offer of missing signatures.

**StateVar** (`core/statevar`). One variable: events start a consensus round, bundles
of values arrive, a value with enough power within the tolerance is accepted, and a
random choice between several candidates is fixed by the block. Floats are integers,
the tolerance is a distance.

**Bridge**, **BridgeLedger** (`core/evtforward`, `core/banking`). A node's `next`,
`last` and `evts` are its position on Ethereum and the events it wants in a block. What
the blocks determine (`acked`, `pending`, `beats`, `seen`, `lastSeen`, `credits`,
`bridge`) is modelled once. `Poll`, `Send`, `Deliver`, `ActionOk`, `ActionRejected`,
`VoteHeartbeat`, `CloseHeartbeat`, `TakeSnapshot`, `Restart`. `BridgeLedger` is the
abstract specification: a genuine deposit is credited once at most. `Bridge` implements
it under the mapping paid <- credits.

**AckedEvents** (`core/evtforward/acked_events.go`). Hashes in buckets of an hour,
cleaned up bucket by bucket, and bucketed again by an upgrade.

**ProtocolUpgrade** (`core/protocolupgrade`, its calls in `processor/abci.go`). Votes per
version and height, acceptance and rejection at the height, the handshake with the data
node, the replacement of the release, crashes.

**Snapshot** (`core/snapshot`). A snapshot each interval of commits, `SaveVersion` as
the sequence of its writes to two databases by a goroutine, pruning, crashes between any
two writes, restarts, starts from a chosen older snapshot, state sync with chunks that
are refused and snapshots that vanish, a change of the interval, upgrades. A hash is
determined by the contents and the version of the tree.

**PriceLevels**, **OrderBook** (`core/matching`). `PriceLevels` has orders, levels and
sides as values: matching an aggressor against a level with own orders, hidden reserves
and their crumbs; fill-or-kill; the rehearsal for fees. `OrderBook` has the state
(levels, index, indicative volumes, cache) and one action per operation. `usage` is what
the parties of a market do; it is chosen at the start and never changes, so one run
covers several markets.

**StopOrders** (`core/execution/stoporders` and the market's handlers). The pool, the
tree of prices, the tree of trailing triggers, the expiry list. A handler runs to its
end; `phase` says where it is, and the history variable `told` whether anything has
traded since the pool was told of the price. The book is abstract: an order may trade at any price,
change any position or start an auction.

**Staking**, **Delegation** (`core/staking`, `core/delegation`, `core/epochtime`, part
of `core/validators`). `Staking` is a set of operators: the balance an account has, had,
or at least had during a period, from the set of the links confirmed so far, taken in the
order the account keeps them sorted in. `Delegation` has the
nominations of this epoch and of the next; `Tick` is the start of a block, which may end
the epoch (reconcile, reward, promote, delegate automatically, drop validators) or
reconcile. Division in auto delegation is rounded to 1/`Scale`, as the decimal library
rounds to 16 digits. That a node's stake score is zero exactly if its stake is zero is
assumed.

The `MC*` modules give the constants their values. The `map` of `PROJECT.json` names the
lines of code behind every definition. A definition under a comment `mutant:` is a
deliberate error that a property must notice; nothing uses it otherwise.

## 3. Runs

Run one with `tlc -config <cfg> <module>`.

| Run | Module, cfg | What it shows |
|---|---|---|
| `witness` | MCWitness, Witness.cfg | Replicas at the same height agree, restarted or not (`Agreement`). Every recorded vote is backed by a successful check of the voter, or by a resource it took up unchecked (`VotesAreChecked`). A resource that does not exist passes only if nodes that took it up unchecked hold the required power (`PassedMeansGenuine`). Every check is closed (`EveryCheckCloses`). |
| `notary` | MCNotary, Notary.cfg | Nodes that have caught up agree; a complete bundle is not held back; a signature a node owes is sent or still to be sent; every bundle is complete in the end. |
| `statevar` | MCStateVar, StateVar.cfg | Every node accepts the same value; it has the required power behind it, counted for this event; every event ends. |
| `bridge_safety` | MCBridge, BridgeSafety.cfg | No event gets lost between the polls; `Bridge` implements `BridgeLedger`; the recorded Ethereum height never goes back. |
| `bridge_live` | MCBridge, BridgeLive.cfg | The bridge is stopped or active as the event latest on Ethereum says; every event is applied or rejected in the end. |
| `acked_events` | MCAckedEvents, AckedEvents.cfg | How long a hash is recognised; an upgrade leaves the buckets alone. |
| `upgrade` | MCProtocolUpgrade, ProtocolUpgrade.cfg | A key counts once and snapshots hold the votes; releases only go up; an accepted release runs in the end unless the node is killed on the way. |
| `snapshot` | MCSnapshot, Snapshot.cfg | Nodes report the same hashes; the databases hold agreed snapshots only; a restart goes back one snapshot at most; nodes catch up. |
| `order_book` | MCOrderBook, OrderBook.cfg | The book is never crossed in continuous trading; an uncrossing takes exactly the indicative volume; index, levels and volumes agree; trades are what was announced; a cached or restored indicative price is the true one; time priority is kept; an auction may end exactly when orders will be left on both sides. |
| `stop_orders` | MCStopOrders, StopOrders.cfg | Pool and trees agree; a trailing order hangs on the peak; one cancels the other; nothing triggered is left behind; handlers end. |
| `stop_orders_linked` | MCStopOrders, StopOrdersLinked.cfg | A violation: a stop order reported as cancelled is submitted (section 7). |
| `delegation` | MCDelegation, Delegation.cfg | Nominations count only as far as stake covers them, each node within a unit of its share; the end of an epoch finds every node it looks up and divides by nothing that is zero; snapshots and checkpoints restore what they saved. |

Three order book properties have conditions, since the code does not keep them without:
announced trades and the foretold end of an auction are claimed for a book without
icebergs, the freshness of the cache for markets where prices are not amended (section 7).

## 4. Bounds

- `witness`: two nodes, one of which joins without power and may be promoted, one
  resource, four blocks with an epoch and a snapshot every two, one restart. Enough for
  a vote before, during and after a restart, a promotion between vote and count, and a
  deadline. Resources do not interact.
- `notary`, `statevar`: two nodes, one resource or two events, one restart; a node is
  one block behind at most. Time is relative there, so behaviours do not end.
- `bridge_safety`: two nodes, two deposits, one of them applied by an older release,
  three Ethereum blocks polled two at a time, a heartbeat for every block, one forgotten
  acknowledgement, one restart. The instance has no listing event: assets are listed.
  `bridge_live`: a deposit that never happened, a stop and a resumption in one block.
- `acked_events`: three hashes, buckets of 2, kept for 7, twelve time units.
- `upgrade`: three keys, two epochs with different validators and majorities, three
  releases, four heights, one crash.
- `snapshot`: two nodes, one of which joins by state sync, interval 1 that may become
  2, three versions kept, four blocks, one of each: change, upgrade, crash, rewind.
  `KeepRecent > MaxCrashes` is assumed: each crash may cost a kept version (section 7).
  Three versions and one crash are the least with which `RestartIsRecent` says something
  after a crash.
- `order_book`: three orders of two parties at two prices. A market with sizes 1 and 2,
  every time in force and amended sizes; a market with sizes 1 and 3, icebergs that show
  1, and amended prices. Three orders are enough for an aggressor against two, an own
  order between two, and crumbs of two reserves. Orders and parties are symmetric.
- `stop_orders`: four orders over time, three at a time, prices 1 to 3, two block times.
  Pairs are such that one price cannot trigger both orders (section 7).
- `delegation`: one party, two nodes, two deposits and two removals confirmed in any
  order, time 8 with epochs of one unit and reconciliation every two. Parties meet only
  in the stake of a node.

Runs may stop where a counter is at its bound, or where everything has happened; these
have `CHECK_DEADLOCK FALSE`. `notary`, `statevar`, `order_book` and `stop_orders` never stop.

## 5. Fairness

`Fairness` states WF and SF by their definitions, `[]<>~P \/ []<><<A>>_vars` and
`<>[]~P \/ []<><<A>>_vars`, with the condition `P` under which `A` can change the state in
the place of `ENABLED`, whose evaluation at every transition takes most of a run; TLC found
`P` equal to `ENABLED <<A>>_vars` in every reachable state of the runs. `Snapshot` and
`StopOrders` use `WF_vars`.

- Blocks are decided and nodes execute them: weak fairness of `Propose` and
  `ExecuteBlock`. Tendermint guarantees it, and a node that is stopped is outside of what
  these properties promise.
- A transaction sent again and again gets into a block: strong fairness of
  `IncludeSignature`, `IncludeProposal`, `CommandOk` and `Deliver`. The code retries
  without end on a timer; one attempt may be lost.
- A validator polls Ethereum on a timer, is the sender of an event in its turn
  (`isSender`), and checks end by a deadline: weak fairness of `Poll`, `Send` and of
  closing a check.
- A handler that has begun runs to its end (`Finish` of `StopOrders`).
- An upgrade: blocks, the data node's answer and the supervisor's start of the release.
- `snapshot`: blocks are decided, and every node takes a step it can take. Crashes,
  refused chunks and rewinds have no fairness, and their number is bounded.

No fairness is assumed of checks that succeed, of crashes, or of user transactions.

## 6. Proofs

Proved with TLAPS for every value of the constants that satisfies the module's named
assumptions. Check a module with `tlapm <module>.tla`; `NominationProofs` and
`DelegationProofs` take some sixteen minutes each, `SnapshotProofs` twelve, the others six
at most. `VotingProofs` is about `Witness` and `ProtocolUpgrade`, `BridgeProofs` about
`Bridge` and `AckedEvents`.

| Theorem | Statement |
|---|---|
| `VotingProofs!ReplicasAgree` | `Spec => []Agreement` |
| `VotingProofs!VotesChecked` | `Spec => []VotesAreChecked` |
| `VotingProofs!PassedGenuine` | `Spec => []PassedMeansGenuine` |
| `NotaryProofs!ReplicasAgree` | `Spec => []CaughtUpAgree` |
| `NotaryProofs!NeverForgotten` | `Spec => []SignatureNotForgotten` |
| `NotaryProofs!CompleteIsSent` | `Spec => []NoCompleteBundlePending` |
| `StateVarProofs!ReplicasAgree` | `Spec => []CaughtUpAgree` |
| `StateVarProofs!ValuesAreBacked` | `Spec => []AcceptedIsBacked` |
| `BridgeProofs!DepositsArePaidOnce` | `Spec => LedgerSpec`: `Bridge` implements `BridgeLedger` |
| `BridgeProofs!RecordedHeightGrows` | `Spec => LastSeenGrows` |
| `BridgeProofs!LatestStateWins` | `Spec => []BridgeStateIsLatest` |
| `BridgeProofs!NothingReadIsLost` | `Spec => []NoEventForgotten`, for fewer restarts than nodes |
| `BridgeProofs!KeptForAsLongAsPromised` | `AckedSpec => []KeptLongEnough` |
| `BridgeProofs!UpgradeIsExact` | `AckedSpec => UpgradeKeepsBuckets` |
| `VotingProofs!VotesExact` | `UpgradeSpec => []VotesAreExact` |
| `VotingProofs!ReleasesGoUp` | `UpgradeSpec => VersionsGrow` |
| `VotingProofs!ProposalsEndInTime` | no open proposal is below the height |
| `SnapshotProofs!SnapshotHashesAgree` | `Spec => []HashesAgree` |
| `SnapshotProofs!DisksAreTrue` | `Spec => []DiskIsTrue` |
| `SnapshotProofs!RestartsAreRecent` | `Spec => []RestartIsRecent` |
| `StopOrdersProofs!OnlyOneOfAPair` | `Spec => []OneCancelsOther` |
| `StopOrdersProofs!TrailingOrdersFollowThePeak` | `Spec => []TrailsThePeak` |
| `StopOrdersProofs!HandlersLeaveNothingTriggered` | `Spec => []NothingLeftTriggered` |
| `StopOrdersProofs!IndexesAgreeWithPool` | `Spec => []IndexesMirrorPool`, for exclusive pairs |
| `NominationProofs!NominationsAreSound` | `Spec => []Inv`, the invariant of `Delegation` |
| `DelegationProofs!EpochEndSafety` | `Spec => []EpochEndIsSafe` |
| `DelegationProofs!StakeCovers` | `Spec => []CoveredByStake` |
| `DelegationProofs!SnapshotExactness` | `Spec => []SnapshotsAreExact` |
| `TypeCorrect` of `VotingProofs` (`Witness`), `NotaryProofs`, `StateVarProofs` and `SnapshotProofs` | `Spec => []TypeOK` |
| `UpgradeTypeCorrect` of `VotingProofs`, `AckedTypeCorrect` of `BridgeProofs` | the same of `ProtocolUpgrade` and `AckedEvents` |

*Witness.* `ledger[k+1]` is the agreed state after block k, a history variable that
grows with the chain. Agreement is inductive with: each entry is the agreed effect of a
block on the one before, each node's state is the entry of its height, and so is its
saved snapshot. `VotesChecked` needs more: a vote on its way, in a snapshot or in a block
is also backed. `PassedGenuine` adds that the votes in every entry of the ledger have such
an origin, and that a check succeeds only for what exists; the votes that closed a
resource that does not exist are then all unchecked ones.

*Notary*, *StateVar.* These models forget old blocks, so that there is no ledger to compare
with. `OnItsWay` says instead that there is a sequence of agreed states, one per block
logged since a node's snapshot, that starts at the snapshot, passes through what the node
has now and ends at the tip of the chain; a decided block makes it longer, a snapshot cuts
its beginning off, a restart goes back to it. `SignatureInv` keeps for the state and for
the snapshot that no pending bundle is complete and that who is on duty is known: this is
what a restart needs to rebuild the retry list. `NoEmptyBundle` is assumed: a bundle
without a signature is not complete. `BackingInv` follows results of a state variable from
the calculation into commands, blocks, snapshots and the bundles counted for an event.

*Bridge.* Agreement on payments needs `PaidIsSeen`: what was paid is among the
references, under the key deduplication looks for, with or without chain ID.
`HeightsAreNumbers` carries the recorded heights. `StateHasPosition` says that the
position kept with the state of the bridge is that of the applied event it is from, and
that no applied event is behind it; `LogPositions` is assumed: two logs of the bridge
contract have different positions, none in block 0. `NothingReadIsLost` has three
hypotheses: the nodes are finitely many, fewer restarts happen than there are nodes, and
what is not yet applied at the start is not below the block the nodes start from. Without
the second it is false (section 7). `OnlyRestartsLose` is its invariant: all but as many
nodes as have restarted still keep every event they have read that no block has taken up.

*AckedEvents.* Buckets are more than their length apart, none is in the future, and a hash
that must still be recognised is in a bucket that was open when it was acknowledged. The
first of these makes bucketing again exact: a saved hash finds its own bucket only.

*ProtocolUpgrade.* `UpgradeInv` is type correctness with `OneVoteEach` (a key is counted for
one proposal), `EventsMirror` (the saved events are the votes), `NothingStale` (no open
proposal is below the height) and `ReleasesAhead` (votes and an accepted release are
above the running one); each is needed for another.

*Snapshot.* `LedgerInv` (what is agreed at a height), `Reported`, `NodeInv` and
`DiskInv`. Hashes agree because a block with a snapshot leaves a full interval to the
next one, which is also what a starting node gets, though it does not know the counter
of the others. `RestartsAreRecent` counts: `Recoverable` says that no more versions have
lost their metadata than crashes have happened, that the newest version on disk is the one
the node is at, that pruning, which deletes the oldest, leaves it alone, and that a node
without any metadata is at its first version at most. It holds at every stage of
`SaveVersion`, in state sync and after a rewind, while two more versions are kept than
crashes have happened.

*StopOrders.* `PairInv` says that the orders of a pair name each other, are of one party
and are pooled together; that what is pooled or queued was neither submitted nor stopped;
and that once one of a pair is on its way the other is not. It needs that the orders of a
pair are not submitted at their expiry, which the check of the command refuses
(`commands/stop_orders_submission.go:127`) and `StopOrdersAssumption` states. `TrailInv`
adds that a peak is never on the near side of the price seen last, which is what lets
`adjustBuckets` look at one side only. `LeftInv` says that the tree of prices knows every
pooled order, and that nothing pooled is triggered from the moment the pool is told of a
price until the next trade. `MirrorInv` is the other direction: every entry of the tree of
prices, the trailing buckets and the expiry list is that of a pooled order, and an order
with an expiry is listed unless its cancellation was reported. Both panics of the pool are
guards of the steps. `IndexesAgreeWithPool` shows that the guards hold whenever the steps
are due, under the hypothesis `ExclusivePairs`: the orders of a pair are both on prices,
the falling trigger below the rising one, or both trailing. The code accepts other pairs,
for which it is false (section 7); the first three theorems hold for them up to a panic.

*Staking*, *Delegation.* `Inv` says that whoever nominates has an account, that every entry
is a positive amount on a node of the topology, and that every total is the sum of its
entries. That is what `EpochEndSafety` needs, and what makes a snapshot, which has no
totals, exact. Sums, balances and checkpoints are folds over finite sets. What a fold
computes is shown with the library's `WFMin` instead of induction: of the subsets for which
the claim fails one would be smallest, and without its last element it would not fail.
`FoldOf` and `FoldUnique` state that once for all folds. From it follow, for every set of links:

- the balance of an account is deposits less removals as long as no prefix of its events is
  negative, which is so at all times if it is so at the time of each link (`InOrder`), since
  deposits come before removals of the same time;
- the lowest balance of a period is the least stake at any time in it;
- the shares taken in proportion miss the excess by less than one unit per node that still
  has something, so taking the remainder one by one suffices and brings the total to the
  stake exactly; rounded quotients of auto delegation add at most half of 1/`Scale` per node;
- the differences of a checkpoint concern different nodes or parties, so that applying them
  in any order gives, node by node, what they were computed from.

A node is dropped only if the nominations that become active give it nothing; since entries
are positive, none of them is on it.

Only model-checked: everything about liveness, which is out of the prover's reach; and
`OrderBook` with `PriceLevels`. Matching consumes sequences of orders level by level, with folds
over sequences nested in each other, and the announced trades are a recursive operator
(`fakeUncrossAuction`). What these compute for every sequence needs induction over data, and
the prover loses its arithmetic in a module that reaches a recursive operator.

## 7. Where the code and its documentation disagree

Checked by a run:

- `stop_orders_linked`: `CheckDirection` (`stop_orders.go:137`) says it removes cancelled
  orders from the maps, and deletes under the empty OrderID. The order stays and is
  submitted after the position flips back.

Met while modelling; the modules follow the code:

- A witness restored before the topology takes up votes without a check
  (`witness_snapshot.go:139`); `VotesAreChecked` names the exception.
- `AssetUpdate` signatures are never offered after a restart (`abci.go:2802`).
- A node never recognises its own bundle as received (`state_variable.go:286`); an event
  active at a restart is not recalculated (`statevar/snapshot.go:158`).
- Bridge events on their way are lost if all nodes restart after the recorded height has
  passed them (`tracker.go:342`). `NoEventForgotten` holds as long as some node keeps
  what it has polled: the instances restart one of their two nodes.
- A deposit confirmed before its asset's listing is cancelled for good
  (`banking/engine.go:544`).
- A proposal whose last vote is withdrawn in the upgrade block is reported rejected
  (`protocolupgrade/engine.go:321`).
- The cache of the indicative price is stale after an amended price in an auction
  (`cached_orderbook.go:164`). A reduced iceberg leaves a level's volume too high
  (`side.go:170`). Announced trades leave out a reserve behind an own order
  (`pricelevel.go:250`) and reserves in an auction (`side.go:598`), and so does the test
  whether an auction may end (`orderbook.go:375`).
- Stop orders are triggered during auctions (`stoporders-auctions.feature:21` says
  otherwise); orders submitted at their expiry do not trigger others until the next order;
  a pair pooled in an auction may have both orders triggered by one price.
- `tree.go:33` says the two snapshot databases are kept in sync. A crash between their
  writes leaves a version without metadata, and metadata of pruned versions stay. With
  `KeepRecent` crashes in a row no version is usable and the node starts over.
- The restored state of state sync is never freed: the last chunk's index is compared
  with the number of chunks.
- `accounting.go:153` says of stake events out of order that the account "would recover
  from by itself later on". The balance does; but while it is zero the next
  reconciliation removes the party's nominations for the next epoch, which do not come
  back. `CoveredByStake` claims exactness for links in order only.

## 8. Not modelled

The reason for each part is in the `components` of `PROJECT.json`. In short:

- Decimal arithmetic is out of TLC's reach: margins, AMM curves, funding, fees, rewards,
  liquidity scores, validator scores.
- Procedures that run alone from start to end on one node's state, without time, faults
  or other actors in between, are left to the repository's tests: positions, settlement,
  liquidation, vesting, referrals, programs, governance of one proposal.
- Collateral is a ledger moved by some hundred procedures; withdrawals and transfers
  depend on it.
- Proof of work and spam protection are admission control of transactions, outside of
  this project.
- Block proposals with delayed transactions (`txcache`), key rotations, heartbeats of
  validators and the multisig signer set are not taken up.
- Observers (event bus, data node, wallet, explorer, APIs) do not change the state.

Inside of the modelled parts: pegged orders and off-book volume (`OrderBook`), time
triggers (`StateVar`), log decoding (`Bridge`), parallel gathering of provider states and
`SnapshotDump` (`Snapshot`), the download of releases (`ProtocolUpgrade`), the total
supply of the stake token, checkpoints being loaded, and fast forwarding of epochs
(`Delegation`). Writing a version of the tree is atomic with respect to crashes
(`Snapshot`), which is what the tree's library promises.
