------------------------------ MODULE Snapshot ------------------------------
(***************************************************************************)
(* The snapshot engine (core/snapshot): every node takes a snapshot of its *)
(* state each interval of commits and reports its hash as the application  *)
(* hash of the block.  The AVL tree is saved by a goroutine, version by    *)
(* version, in two databases; a node that restarts loads a version and     *)
(* replays the blocks after it, a node that joins fetches a version from   *)
(* its peers (state sync).                                                 *)
(*                                                                         *)
(* The state of the application at a height is the same at every node; of  *)
(* the contents of a snapshot only the height and the network parameter    *)
(* snapshot.interval.length are kept.  A hash is determined by the         *)
(* contents and the version of the tree; the version stands for it.        *)
(* Tendermint is modelled by how it calls the engine: it executes blocks   *)
(* in order, after a restart from the height Info reports, and hands       *)
(* chunks over in order, again after RETRY, until state sync is over.      *)
(***************************************************************************)
EXTENDS Integers, FiniteSets

CONSTANTS
  Node,             \* the nodes
  Joiner,           \* the ones that state sync when they have no snapshot
  Interval,         \* values the interval may be set to
  GenesisInterval,  \* the interval in the genesis file
  KeepRecent,       \* Config.KeepRecent
  RetryLimit,       \* Config.RetryLimit
  Chunks,           \* number of chunks of a snapshot
  MaxHeight,        \* bound: height of the chain
  MaxChanges,       \* bound: changes of the interval
  MaxUpgrades,      \* bound: protocol upgrades
  MaxCrashes,       \* bound: crashes of nodes
  MaxRewinds,       \* bound: starts from a configured height
  MaxBad            \* bound: chunks that do not match their hash

(* A crash between the two databases costs the metadata of a version.      *)
(* After KeepRecent crashes there may be none left: the node starts over   *)
(* with versions in its tree that it has not loaded, and what the AVL      *)
(* library makes of them is not modelled.                                  *)
ASSUME SnapshotAssumption ==
  /\ Joiner \subseteq Node
  /\ Interval \subseteq Nat \ {0} /\ GenesisInterval \in Nat \ {0}
  /\ KeepRecent \in Nat /\ KeepRecent > MaxCrashes
  /\ RetryLimit \in Nat /\ Chunks \in Nat \ {0}
  /\ MaxHeight \in Nat /\ MaxChanges \in Nat /\ MaxUpgrades \in Nat
  /\ MaxCrashes \in Nat /\ MaxRewinds \in Nat /\ MaxBad \in Nat

VARIABLES
  height,    \* number of decided blocks
  ledger,    \* ledger[h]: block h and what a node that never stops makes of it
  up,        \* "off", "sync" (state sync), "on", "waiting" (for its upgrade)
  pos,       \* pos[n]: last block n has executed or restored
  count,     \* intervalBetweenSnapshots and commitsLeftBeforeSnapshot
  hash,      \* hash[n]: snapshot hash n last reported, 0 without snapshot
  ver,       \* version of innerTree
  work,      \* contents of the working tree
  phase,     \* where SaveVersion is; snapshotTreeLock is free when "idle"
  victim,    \* versionToDelete of SaveVersion
  inner,     \* snapshot database: contents of every version
  meta,      \* metadata database: block height of every version
  offered,   \* offeredSnapshot, chunks seen and attempts
  loaded,    \* loadedSnapshot, shared with peers
  used       \* how much of each bound is used

disk == <<inner, meta>>
memory == <<up, pos, count, hash, ver, work, phase, victim, offered, loaded>>
vars == <<height, ledger, memory, disk, used>>

None == [ver |-> 0]
Empty == [v \in {} |-> 0]
Nothing == [height |-> 0, interval |-> 0]

-----------------------------------------------------------------------------
(* The counters.                                                           *)

\* mutant: a longer interval does not postpone the snapshot
OnSnapshotIntervalUpdateKeeps(c, new) ==
  [interval |-> new,
   left |-> IF new < c.left \/ c.left = 0 THEN new ELSE c.left]

OnSnapshotIntervalUpdate(c, new) ==
  [interval |-> new,
   left |-> IF new < c.left \/ c.left = 0 THEN new
            ELSE IF new > c.interval THEN c.left + (new - c.interval)
            ELSE c.left]

(* NewEngine, then the value of the genesis file or of the snapshot, which *)
(* the network parameters dispatch to their watchers.                      *)
Initialised(interval) ==
  OnSnapshotIntervalUpdate([interval |-> 1, left |-> 1], interval)

(* A block may enact a change of the parameter: set is 0 if it does not.   *)
Enacted(c, set) == IF set = 0 THEN c ELSE OnSnapshotIntervalUpdate(c, set)

(* Finalize takes a snapshot when it is time for an upgrade, else when no  *)
(* commit is left before the snapshot; SnapshotNow leaves the counter.     *)
Due(c, upgrade) == upgrade \/ c.left - 1 = 0

Committed(c, upgrade) ==
  IF upgrade THEN c
  ELSE [c EXCEPT !.left = IF c.left - 1 > 0 THEN c.left - 1 ELSE c.interval]

(* What a node that never stops has after a block; every node is replaced  *)
(* by its next release in the block of an upgrade.                         *)
AfterBlock(l, set, upgrade) ==
  LET c == Enacted(l.count, set)
  IN [set |-> set, upgrade |-> upgrade,
      count |-> IF upgrade THEN Initialised(c.interval) ELSE Committed(c, upgrade),
      taken |-> Due(c, upgrade),
      ver |-> IF Due(c, upgrade) THEN l.ver + 1 ELSE l.ver]

Genesis == [set |-> 0, upgrade |-> FALSE, count |-> Initialised(GenesisInterval),
            taken |-> FALSE, ver |-> 0]

-----------------------------------------------------------------------------
(* The tree and its two databases.                                         *)

Running(n) == up[n] \in {"on", "waiting"}

LockFree(n) == phase[n] = "idle"

With(f, v, x) == [w \in DOMAIN f \cup {v} |-> IF w = v THEN x ELSE f[w]]
Only(f, S) == [w \in DOMAIN f \cap S |-> f[w]]

(* Versions that are left when only the newest KeepRecent are kept.        *)
Newest(versions) ==
  {v \in versions : Cardinality({w \in versions : w > v}) < KeepRecent}

(* removeOldSnapshots deletes a range of versions from both databases.     *)
OldMetadata(n) ==
  {v \in DOMAIN meta[n] : /\ \E w \in DOMAIN inner[n] : w <= v
                          /\ \A w \in Newest(DOMAIN inner[n]) : v < w}

\* mutant: both databases must know the newest version as well
LoadableRecorded(n, start, v) ==
  /\ v \in Newest(DOMAIN inner[n]) \cap (DOMAIN meta[n] \ OldMetadata(n))
  /\ IF start = 0 THEN \A w \in DOMAIN inner[n] : w <= v ELSE meta[n][v] = start

(* The version that is loaded after a start: the one of the configured     *)
(* height, which both databases must know, or the newest in the tree.      *)
Loadable(n, start, v) ==
  /\ v \in Newest(DOMAIN inner[n])
  /\ IF start = 0 THEN \A w \in DOMAIN inner[n] : w <= v
     ELSE /\ v \in DOMAIN meta[n] \ OldMetadata(n)
          /\ meta[n][v] = start

(* At least one commit is left before a snapshot: the unsigned counter of  *)
(* Snapshot never drops below zero.                                        *)
Counters == {c \in [interval : Nat, left : Nat] : c.left \in 1 .. c.interval}
Block == [set : Nat, upgrade : BOOLEAN, count : Counters, taken : BOOLEAN, ver : Nat]
Contents == [height : Nat, interval : Nat]
Offer == [ver : Nat, state : Contents, seen : Nat, attempts : Nat]

TypeOK ==
  /\ height \in 0 .. MaxHeight
  /\ ledger \in [0 .. height -> Block]
  /\ up \in [Node -> {"off", "sync", "on", "waiting"}]
  /\ pos \in [Node -> 0 .. height]
  /\ count \in [Node -> Counters]
  /\ hash \in [Node -> Nat] /\ ver \in [Node -> Nat]
  /\ work \in [Node -> Contents]
  /\ phase \in [Node -> {"idle", "save", "prune", "forget", "record"}]
  /\ offered \in [Node -> {None} \cup Offer]
  /\ DOMAIN inner = Node /\ DOMAIN meta = Node

Init ==
  /\ height = 0
  /\ ledger = [h \in {0} |-> Genesis]
  /\ up = [n \in Node |-> "off"]
  /\ pos = [n \in Node |-> 0]
  /\ count = [n \in Node |-> Initialised(GenesisInterval)]
  /\ hash = [n \in Node |-> 0]
  /\ ver = [n \in Node |-> 0]
  /\ work = [n \in Node |-> Nothing]
  /\ phase = [n \in Node |-> "idle"]
  /\ victim = [n \in Node |-> 0]
  /\ inner = [n \in Node |-> Empty]
  /\ meta = [n \in Node |-> Empty]
  /\ offered = [n \in Node |-> None]
  /\ loaded = [n \in Node |-> None]
  /\ used = [changes |-> 0, upgrades |-> 0, crashes |-> 0, rewinds |-> 0, bad |-> 0]

-----------------------------------------------------------------------------
(* Blocks.                                                                 *)

(* A node that has executed all blocks proposes the next one.              *)
Propose(set, upgrade) ==
  /\ height < MaxHeight
  /\ \E n \in Node : up[n] = "on" /\ pos[n] = height
  /\ set # 0 => used.changes < MaxChanges
  /\ upgrade => used.upgrades < MaxUpgrades
  /\ height' = height + 1
  /\ ledger' = [h \in 0 .. height + 1 |->
                 IF h = height + 1 THEN AfterBlock(ledger[height], set, upgrade)
                                   ELSE ledger[h]]
  /\ used' = [used EXCEPT !.changes = IF set # 0 THEN @ + 1 ELSE @,
                          !.upgrades = IF upgrade THEN @ + 1 ELSE @]
  /\ UNCHANGED <<memory, disk>>

(* snapshotNow waits for snapshotTreeLock, sets every key of the tree and  *)
(* starts the goroutine that saves it; the hash is the working hash, of    *)
(* the version that will be saved next.                                    *)
snapshotNow(n, h, interval) ==
  /\ LockFree(n)
  /\ work' = [work EXCEPT ![n] = [height |-> h, interval |-> interval]]
  /\ hash' = [hash EXCEPT ![n] = ver[n] + 1]
  /\ phase' = [phase EXCEPT ![n] = "save"]

(* The block is executed, Finalize takes a snapshot when one is due.  In   *)
(* the block of an upgrade the snapshot is saved before Finalize returns,  *)
(* and the node waits for its replacement.                                 *)
Execute(n) ==
  LET b == ledger[pos[n] + 1]
      c == Enacted(count[n], b.set)
  IN /\ up[n] = "on" /\ pos[n] < height
     /\ pos' = [pos EXCEPT ![n] = @ + 1]
     /\ count' = [count EXCEPT ![n] = Committed(c, b.upgrade)]
     /\ up' = [up EXCEPT ![n] = IF b.upgrade THEN "waiting" ELSE @]
     /\ \/ /\ Due(c, b.upgrade)
           /\ snapshotNow(n, pos[n] + 1, c.interval)
        \/ /\ ~Due(c, b.upgrade)
           /\ hash' = [hash EXCEPT ![n] = 0]
           /\ UNCHANGED <<work, phase>>
     /\ UNCHANGED <<height, ledger, ver, victim, offered, loaded, disk, used>>

-----------------------------------------------------------------------------
(* SaveVersion, one action for every write to a database: a crash may come *)
(* between two of them.                                                    *)

\* mutant: a version too many is deleted
TooManyFew(versions) == Cardinality(versions) >= KeepRecent

TooMany(versions) == Cardinality(versions) > KeepRecent

SaveTree(n) ==
  /\ phase[n] = "save"
  /\ inner' = [inner EXCEPT ![n] = With(@, ver[n] + 1, work[n])]
  /\ ver' = [ver EXCEPT ![n] = @ + 1]
  /\ phase' = [phase EXCEPT ![n] = IF TooMany(DOMAIN inner'[n]) THEN "prune" ELSE "record"]
  /\ UNCHANGED <<height, ledger, up, pos, count, hash, work, victim, offered, loaded, meta, used>>

DeleteVersion(n) ==
  /\ phase[n] = "prune"
  /\ \E v \in DOMAIN inner[n] :
       /\ \A w \in DOMAIN inner[n] : v <= w
       /\ victim' = [victim EXCEPT ![n] = v]
       /\ inner' = [inner EXCEPT ![n] = Only(@, DOMAIN @ \ {v})]
  /\ phase' = [phase EXCEPT ![n] = "forget"]
  /\ UNCHANGED <<height, ledger, up, pos, count, hash, ver, work, offered, loaded, meta, used>>

DeleteMetadata(n) ==
  /\ phase[n] = "forget"
  /\ meta' = [meta EXCEPT ![n] = Only(@, DOMAIN @ \ {victim[n]})]
  /\ victim' = [victim EXCEPT ![n] = 0]
  /\ phase' = [phase EXCEPT ![n] = "record"]
  /\ UNCHANGED <<height, ledger, up, pos, count, hash, ver, work, offered, loaded, inner, used>>

\* mutant: the metadata is saved with the version the tree had before
RecordedBefore(n) == With(meta[n], ver[n] - 1, work[n].height)

Recorded(n) == With(meta[n], ver[n], work[n].height)

SaveMetadata(n) ==
  /\ phase[n] = "record"
  /\ meta' = [meta EXCEPT ![n] = Recorded(n)]
  /\ phase' = [phase EXCEPT ![n] = "idle"]
  /\ work' = [work EXCEPT ![n] = Nothing]
  /\ UNCHANGED <<height, ledger, up, pos, count, hash, ver, victim, offered, loaded, inner, used>>

SaveVersion(n) == SaveTree(n) \/ DeleteVersion(n) \/ DeleteMetadata(n) \/ SaveMetadata(n)

-----------------------------------------------------------------------------
(* Stops and starts.                                                       *)

Stop(n) ==
  /\ up' = [up EXCEPT ![n] = "off"]
  /\ pos' = [pos EXCEPT ![n] = 0]
  /\ count' = [count EXCEPT ![n] = Initialised(GenesisInterval)]
  /\ hash' = [hash EXCEPT ![n] = 0]
  /\ ver' = [ver EXCEPT ![n] = 0]
  /\ work' = [work EXCEPT ![n] = Nothing]
  /\ phase' = [phase EXCEPT ![n] = "idle"]
  /\ victim' = [victim EXCEPT ![n] = 0]
  /\ offered' = [offered EXCEPT ![n] = None]
  /\ loaded' = [loaded EXCEPT ![n] = None]

Crash(n) ==
  /\ up[n] # "off" /\ used.crashes < MaxCrashes
  /\ used' = [used EXCEPT !.crashes = @ + 1]
  /\ Stop(n)
  /\ UNCHANGED <<height, ledger, disk>>

(* The process manager replaces a node that is ready for the upgrade.      *)
Replaced(n) ==
  /\ up[n] = "waiting" /\ LockFree(n)
  /\ Stop(n)
  /\ UNCHANGED <<height, ledger, disk, used>>

(* Without metadata nothing is loaded: the node state syncs, or Tendermint *)
(* starts it from the genesis file.                                        *)
StartEmpty(n) ==
  /\ up[n] = "off" /\ DOMAIN meta[n] = {}
  /\ up' = [up EXCEPT ![n] = IF n \in Joiner THEN "sync" ELSE "on"]
  /\ UNCHANGED <<height, ledger, pos, count, hash, ver, work, phase, victim, offered, loaded,
                 disk, used>>

(* restoreStateFromSnapshot                                                *)
Restored(n, v, s) ==
  /\ up' = [up EXCEPT ![n] = "on"]
  /\ pos' = [pos EXCEPT ![n] = s.height]
  /\ count' = [count EXCEPT ![n] = Initialised(s.interval)]
  /\ hash' = [hash EXCEPT ![n] = v]
  /\ ver' = [ver EXCEPT ![n] = v]

StartFrom(n, start) ==
  /\ up[n] = "off" /\ DOMAIN meta[n] # {}
  /\ start # 0 => used.rewinds < MaxRewinds
  /\ \E v \in DOMAIN inner[n] :
       /\ Loadable(n, start, v)
       /\ Restored(n, v, inner[n][v])
       /\ inner' = [inner EXCEPT ![n] =
                     Only(@, {w \in Newest(DOMAIN @) : start # 0 => w <= v})]
  /\ meta' = [meta EXCEPT ![n] = Only(@, DOMAIN @ \ OldMetadata(n))]
  /\ used' = [used EXCEPT !.rewinds = IF start # 0 THEN @ + 1 ELSE @]
  /\ UNCHANGED <<height, ledger, work, phase, victim, offered, loaded>>

-----------------------------------------------------------------------------
(* State sync.                                                             *)

(* findTreeByBlockHeight, unless the snapshot is loaded already.           *)
CanServe(p, h) ==
  /\ Running(p)
  /\ \/ loaded[p] # None /\ loaded[p].state.height = h
     \/ /\ LockFree(p)
        /\ \E v \in DOMAIN inner[p] \cap DOMAIN meta[p] : meta[p][v] = h

Served(p, h) ==
  IF loaded[p] # None /\ loaded[p].state.height = h THEN loaded[p]
  ELSE LET v == CHOOSE w \in DOMAIN inner[p] \cap DOMAIN meta[p] : meta[p][w] = h
       IN [ver |-> v, state |-> inner[p][v]]

(* Tendermint offers another snapshot when it gets no chunk of the first.  *)
Receives(n) ==
  offered[n] # None => \A p \in Node : ~CanServe(p, offered[n].state.height)

(* ListLatestSnapshots at p, OfferSnapshot at n: the hash of the snapshot  *)
(* must be the application hash in the header of the next block.           *)
ReceiveSnapshot(n, p, v) ==
  /\ up[n] = "sync" /\ Running(p) /\ LockFree(p)
  /\ v \in DOMAIN inner[p] \cap DOMAIN meta[p]
  /\ meta[p][v] < height
  /\ ledger[meta[p][v]].taken /\ ledger[meta[p][v]].ver = v
  /\ Receives(n)
  /\ offered' = [offered EXCEPT ![n] =
                  [ver |-> v, state |-> inner[p][v], seen |-> 0, attempts |-> 0]]
  /\ UNCHANGED <<height, ledger, up, pos, count, hash, ver, work, phase, victim, loaded,
                 disk, used>>

(* RetrieveSnapshotChunk at p; the snapshot stays loaded.                  *)
RetrieveSnapshotChunk(n, p) ==
  /\ up[n] = "sync" /\ offered[n] # None
  /\ CanServe(p, offered[n].state.height)
  /\ loaded' = [loaded EXCEPT ![p] = Served(p, offered[n].state.height)]

(* ReceiveSnapshotChunk with a chunk that is not the last one.             *)
ReceiveChunk(n, p) ==
  /\ RetrieveSnapshotChunk(n, p)
  /\ loaded'[p].state = offered[n].state
  /\ offered[n].seen + 1 < Chunks
  /\ offered' = [offered EXCEPT ![n].seen = @ + 1]
  /\ UNCHANGED <<height, ledger, up, pos, count, hash, ver, work, phase, victim, disk, used>>

(* The last chunk: AddSnapshot, then the state is restored.                *)
ReceiveLastChunk(n, p) ==
  /\ RetrieveSnapshotChunk(n, p)
  /\ loaded'[p].state = offered[n].state
  /\ offered[n].seen + 1 = Chunks
  /\ inner' = [inner EXCEPT ![n] = With(@, offered[n].ver, offered[n].state)]
  /\ meta' = [meta EXCEPT ![n] = With(@, offered[n].ver, offered[n].state.height)]
  /\ Restored(n, offered[n].ver, offered[n].state)
  /\ offered' = [offered EXCEPT ![n] = None]
  /\ UNCHANGED <<height, ledger, work, phase, victim, used>>

(* A chunk does not match its hash: it is fetched again, until the limit   *)
(* of attempts is reached and state sync, and with it the node, gives up.  *)
ReceiveBadChunk(n, p) ==
  /\ RetrieveSnapshotChunk(n, p)
  /\ used.bad < MaxBad
  /\ used' = [used EXCEPT !.bad = @ + 1]
  /\ IF offered[n].attempts + 1 >= RetryLimit
     THEN /\ offered' = [offered EXCEPT ![n] = None]
          /\ up' = [up EXCEPT ![n] = "off"]
     ELSE /\ offered' = [offered EXCEPT ![n].attempts = @ + 1]
          /\ UNCHANGED up
  /\ UNCHANGED <<height, ledger, pos, count, hash, ver, work, phase, victim, disk>>

-----------------------------------------------------------------------------
SyncStep(n) ==
  \E p \in Node : \/ \E v \in DOMAIN inner[p] : ReceiveSnapshot(n, p, v)
                  \/ ReceiveChunk(n, p) \/ ReceiveLastChunk(n, p)

Next ==
  \/ \E set \in Interval \cup {0}, upgrade \in BOOLEAN : Propose(set, upgrade)
  \/ \E n \in Node :
       \/ Execute(n) \/ SaveVersion(n) \/ Crash(n) \/ Replaced(n) \/ StartEmpty(n)
       \/ \E start \in 0 .. MaxHeight : StartFrom(n, start)
       \/ SyncStep(n)
       \/ \E p \in Node : ReceiveBadChunk(n, p)

Spec == Init /\ [][Next]_vars

(* The chain goes on, nodes that stopped are started again by the process  *)
(* manager, and running ones get on with what they do.                     *)
Step(n) ==
  \/ Execute(n) \/ SaveVersion(n) \/ Replaced(n) \/ StartEmpty(n)
  \/ StartFrom(n, 0) \/ SyncStep(n)

FairSpec ==
  /\ Spec
  /\ WF_vars(Propose(0, FALSE))
  /\ \A n \in Node : WF_vars(Step(n))

-----------------------------------------------------------------------------
(* A snapshot of the agreed state: contents s under version v.             *)
Agreed(v, s) ==
  /\ s.height \in 1 .. height
  /\ ledger[s.height].taken
  /\ ledger[s.height].ver = v
  /\ ledger[s.height].count.interval = s.interval

(* HashesAgree: every node that runs reports for the block it is at the    *)
(* hash a node reports that never stopped: a snapshot is taken in the same *)
(* blocks and under the same version by all nodes, also by those that      *)
(* restarted, were upgraded or joined by state sync, although the counters *)
(* of engine.go are not part of the snapshot.                              *)
HashesAgree ==
  \A n \in Node : Running(n) /\ pos[n] > 0 =>
    hash[n] = IF ledger[pos[n]].taken THEN ledger[pos[n]].ver ELSE 0

(* DiskIsTrue: whatever a node can restart from, or hand to a peer, is a   *)
(* snapshot all nodes agreed on, and the metadata of a version names the   *)
(* height of that snapshot; the tree is saved by a goroutine while the     *)
(* node goes on (engine.go, snapshotNow).                                  *)
DiskIsTrue ==
  \A n \in Node :
    /\ \A v \in DOMAIN inner[n] : Agreed(v, inner[n][v])
    /\ \A v \in DOMAIN meta[n] : ledger[meta[n][v]].taken /\ ledger[meta[n][v]].ver = v

(* RestartIsRecent: at whatever moment a node stops, between any two       *)
(* writes of SaveVersion, it can restart from the last snapshot it took,   *)
(* or, while that one is being saved, from the one before.  Every crash    *)
(* may have cost the metadata of a version, and the oldest is deleted      *)
(* before the newest is recorded: so it needs two more than crashes.       *)
RestartIsRecent ==
  \A n \in Node : Running(n) /\ used.crashes + 2 <= KeepRecent =>
    LET sure == IF phase[n] = "idle" THEN ver[n] ELSE ver[n] - 1
    IN sure >= 1 => /\ DOMAIN meta[n] # {}
                    /\ \E v \in DOMAIN inner[n] : v >= sure

(* No peer has a snapshot below the last block of the bounded chain, so    *)
(* that Tendermint has a header to check its hash against.                 *)
NothingToOffer ==
  \A p \in Node : \A v \in DOMAIN inner[p] \cap DOMAIN meta[p] : meta[p][v] = MaxHeight

(* CatchesUp: every node, wherever it crashed or however its state sync    *)
(* went (a snapshot deleted by its peer while it is fetched, chunks that   *)
(* do not match), executes all blocks in the end.  Only one that is to     *)
(* state sync when its peers have nothing to offer goes on waiting.        *)
CatchesUp ==
  <>[](\A n \in Node : \/ up[n] = "on" /\ pos[n] = MaxHeight
                       \/ up[n] = "sync" /\ NothingToOffer)

=============================================================================
