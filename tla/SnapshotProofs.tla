--------------------------- MODULE SnapshotProofs ---------------------------
(***************************************************************************)
(* Proofs about Snapshot, for every number of nodes, interval, number of   *)
(* versions kept, and bound.                                               *)
(*                                                                         *)
(* The counters are not in the snapshot; the inductive invariant says why  *)
(* it does not matter: after a block with a snapshot as many commits are   *)
(* left as the interval has, and that is what a node gets that starts with *)
(* the interval of the snapshot.                                           *)
(*                                                                         *)
(* The two databases are not written together; a node can restart from a   *)
(* recent snapshot all the same, since a crash costs the metadata of one   *)
(* version at most (Recoverable).                                          *)
(***************************************************************************)
EXTENDS Snapshot, FiniteSetTheorems, WellFoundedInduction, TLAPS

(* What the ledger, a node and its databases are like at every moment.     *)
LedgerInv ==
  /\ ledger[0] = Genesis
  /\ \A h \in 0 .. height : h < height =>
       ledger[h + 1] = AfterBlock(ledger[h], ledger[h + 1].set, ledger[h + 1].upgrade)
  /\ \A h \in 0 .. height :
       ledger[h].taken => ledger[h].count.left = ledger[h].count.interval

Reported(n) == IF ledger[pos[n]].taken THEN ledger[pos[n]].ver ELSE 0

NodeInv(n) ==
  /\ up[n] = "on" => count[n] = ledger[pos[n]].count
  /\ Running(n) => ledger[pos[n]].ver = IF phase[n] = "save" THEN ver[n] + 1 ELSE ver[n]
  /\ ~Running(n) => /\ phase[n] = "idle" /\ pos[n] = 0 /\ ver[n] = 0
                    /\ count[n] = Initialised(GenesisInterval)
  /\ phase[n] = "save" => Agreed(ver[n] + 1, work[n])
  /\ phase[n] \in {"prune", "forget", "record"} => Agreed(ver[n], work[n])
  /\ Running(n) /\ pos[n] > 0 => hash[n] = Reported(n)
  /\ offered[n] # None => Agreed(offered[n].ver, offered[n].state)

DiskInv(n) ==
  /\ \A v \in DOMAIN inner[n] : inner[n][v] \in Contents /\ v \in Nat /\ Agreed(v, inner[n][v])
  /\ \A v \in DOMAIN meta[n] : /\ meta[n][v] \in 1 .. height
                               /\ ledger[meta[n][v]].taken
                               /\ ledger[meta[n][v]].ver = v

IInv == TypeOK /\ LedgerInv /\ \A n \in Node : NodeInv(n) /\ DiskInv(n)

-----------------------------------------------------------------------------
(* The counters.                                                           *)

(* A node that starts has as many commits left as the interval it loaded.  *)
LEMMA StartsFull ==
  ASSUME NEW i \in Nat \ {0}
  PROVE  Initialised(i) = [interval |-> i, left |-> i] /\ Initialised(i) \in Counters
BY DEF Initialised, OnSnapshotIntervalUpdate, Counters

(* A change of the interval keeps the counter between one and the interval *)
(* (OnSnapshotIntervalUpdate).                                             *)
LEMMA EnactedType ==
  ASSUME NEW c \in Counters, NEW set \in Nat
  PROVE  Enacted(c, set) \in Counters
BY DEF Enacted, OnSnapshotIntervalUpdate, Counters

(* So does a commit (Snapshot).                                            *)
LEMMA CommittedType ==
  ASSUME NEW c \in Counters, NEW upgrade \in BOOLEAN
  PROVE  /\ Committed(c, upgrade) \in Counters
         /\ Committed(c, upgrade).interval = c.interval
         /\ ~upgrade /\ Due(c, upgrade) => Committed(c, upgrade).left = c.interval
         /\ Due(c, upgrade) \in BOOLEAN
BY DEF Committed, Due, Counters

(* A block after which a snapshot is taken leaves a full interval.         *)
LEMMA AfterBlockType ==
  ASSUME NEW l \in Block, NEW set \in Nat, NEW upgrade \in BOOLEAN
  PROVE  LET b == AfterBlock(l, set, upgrade)
             c == Enacted(l.count, set)
         IN /\ b \in Block
            /\ b.set = set /\ b.upgrade = upgrade
            /\ b.taken = Due(c, upgrade)
            /\ b.ver = IF Due(c, upgrade) THEN l.ver + 1 ELSE l.ver
            /\ b.count.interval = c.interval
            /\ ~upgrade => b.count = Committed(c, upgrade)
            /\ b.taken => b.count.left = b.count.interval
<1> DEFINE c == Enacted(l.count, set)
           b == AfterBlock(l, set, upgrade)
<1>1. c \in Counters
  BY EnactedType DEF Block
<1>2. c.interval \in Nat \ {0}
  BY <1>1 DEF Counters
<1>3. b = [set |-> set, upgrade |-> upgrade,
           count |-> IF upgrade THEN Initialised(c.interval) ELSE Committed(c, upgrade),
           taken |-> Due(c, upgrade),
           ver |-> IF Due(c, upgrade) THEN l.ver + 1 ELSE l.ver]
  BY DEF AfterBlock
<1> HIDE DEF c, b
<1>4. b.count \in Counters /\ b.count.interval = c.interval
      /\ (b.taken => b.count.left = b.count.interval)
  BY <1>1, <1>2, <1>3, StartsFull, CommittedType
<1>5. b.ver \in Nat
  BY <1>3 DEF Block
<1>6. b \in Block
  BY <1>1, <1>3, <1>4, <1>5, CommittedType, ZenonT(30) DEF Block
<1>. QED BY <1>3, <1>4, <1>6 DEF b, c

-----------------------------------------------------------------------------
(* Frames.                                                                 *)

(* A node the step leaves alone.                                           *)
LEMMA NodeStays ==
  ASSUME height' = height, ledger' = ledger, NEW m \in Node, NodeInv(m),
         up'[m] = up[m], pos'[m] = pos[m], count'[m] = count[m], hash'[m] = hash[m],
         ver'[m] = ver[m], work'[m] = work[m], phase'[m] = phase[m],
         offered'[m] = offered[m]
  PROVE  NodeInv(m)'
BY SMTT(30) DEF NodeInv, Running, Reported, Agreed

(* Databases the step leaves alone.                                       *)
LEMMA DiskStays ==
  ASSUME height' = height, ledger' = ledger, NEW m \in Node, DiskInv(m),
         inner'[m] = inner[m], meta'[m] = meta[m]
  PROVE  DiskInv(m)'
BY DEF DiskInv, Agreed

(* What was agreed stays agreed.                                          *)
LEMMA AgreedStays ==
  ASSUME height' = height, ledger' = ledger, NEW v, NEW s, Agreed(v, s)
  PROVE  Agreed(v, s)'
BY DEF Agreed

(* The ledger is only changed by a new block.                              *)
LEMMA LedgerStays ==
  ASSUME height' = height, ledger' = ledger, LedgerInv
  PROVE  LedgerInv'
BY DEF LedgerInv

(* A database gains an entry, or an entry is replaced.                     *)
LEMMA WithValues ==
  ASSUME NEW f, NEW v, NEW x
  PROVE  \A w \in DOMAIN With(f, v, x) : \/ w \in DOMAIN f /\ With(f, v, x)[w] = f[w]
                                         \/ w = v /\ With(f, v, x)[w] = x
BY DEF With

(* A database loses entries.                                               *)
LEMMA OnlyValues ==
  ASSUME NEW f, NEW S
  PROVE  \A w \in DOMAIN Only(f, S) : w \in DOMAIN f /\ Only(f, S)[w] = f[w]
BY DEF Only

(* The databases stay true when all they gain is agreed.                   *)
LEMMA DiskGrows ==
  ASSUME height' = height, ledger' = ledger, NEW n \in Node, DiskInv(n),
         NEW v \in Nat, NEW s \in Contents,
         \A w \in DOMAIN inner'[n] : \/ w \in DOMAIN inner[n] /\ inner'[n][w] = inner[n][w]
                                     \/ w = v /\ inner'[n][w] = s /\ Agreed(v, s),
         \A w \in DOMAIN meta'[n] : \/ w \in DOMAIN meta[n] /\ meta'[n][w] = meta[n][w]
                                    \/ w = v /\ meta'[n][w] = s.height /\ Agreed(v, s)
  PROVE  DiskInv(n)'
<1>1. ASSUME NEW w \in DOMAIN inner'[n]
      PROVE  inner'[n][w] \in Contents /\ w \in Nat /\ Agreed(w, inner[n][w])'
  <2>1. inner'[n][w] \in Contents /\ w \in Nat /\ Agreed(w, inner'[n][w])
    BY DEF DiskInv
  <2>. QED BY <2>1, AgreedStays
<1>2. ASSUME NEW w \in DOMAIN meta'[n]
      PROVE  /\ meta'[n][w] \in 1 .. height'
             /\ ledger'[meta'[n][w]].taken
             /\ ledger'[meta'[n][w]].ver = w
  <2>1. CASE w \in DOMAIN meta[n] /\ meta'[n][w] = meta[n][w]
    BY <2>1 DEF DiskInv
  <2>2. CASE w = v /\ meta'[n][w] = s.height /\ Agreed(v, s)
    BY <2>2 DEF Agreed
  <2>. QED BY <2>1, <2>2
<1>. QED BY <1>1, <1>2 DEF DiskInv

(* They stay true when they lose entries.                                  *)
LEMMA DiskShrinks ==
  ASSUME height' = height, ledger' = ledger, NEW n \in Node, DiskInv(n),
         \A w \in DOMAIN inner'[n] : w \in DOMAIN inner[n] /\ inner'[n][w] = inner[n][w],
         \A w \in DOMAIN meta'[n] : w \in DOMAIN meta[n] /\ meta'[n][w] = meta[n][w]
  PROVE  DiskInv(n)'
BY 0 \in Nat, Nothing \in Contents, DiskGrows, Zenon DEF Nothing, Contents

(* An agreed snapshot restores the counters of a node that never stopped.  *)
LEMMA AgreedRestores ==
  ASSUME IInv, NEW v \in Nat, NEW s \in Contents, Agreed(v, s)
  PROVE  /\ s.height \in 1 .. height
         /\ Initialised(s.interval) = ledger[s.height].count
         /\ Initialised(s.interval) \in Counters
         /\ ledger[s.height].ver = v /\ ledger[s.height].taken
<1>1. s.height \in 0 .. height /\ s.height \in 1 .. height
  BY DEF Agreed, IInv, TypeOK
<1>2. ledger[s.height] \in Block
  BY <1>1 DEF IInv, TypeOK
<1>3. /\ ledger[s.height].count \in Counters
      /\ ledger[s.height].count.interval = s.interval
      /\ ledger[s.height].count.left = s.interval
  BY <1>1, <1>2 DEF Agreed, IInv, LedgerInv, Block
<1>4. s.interval \in Nat \ {0} /\ ledger[s.height].count = [interval |-> s.interval, left |-> s.interval]
  BY <1>3 DEF Counters
<1>. QED BY <1>1, <1>4, StartsFull DEF Agreed

-----------------------------------------------------------------------------
(* All nodes are off, with the counters of the genesis block (Init).       *)
LEMMA InitInv == Init => IInv
<1> SUFFICES ASSUME Init PROVE IInv
  OBVIOUS
<1> USE SnapshotAssumption DEF Init
<1>1. Initialised(GenesisInterval) \in Counters
  BY StartsFull
<1>2. Genesis \in Block
  BY <1>1 DEF Genesis, Block
<1>3. ledger \in [0 .. height -> Block] /\ ledger[0] = Genesis
  BY <1>2
<1>4. TypeOK
  BY <1>1, <1>3 DEF TypeOK, Nothing, Contents
<1>5. LedgerInv
  BY <1>3 DEF LedgerInv, Genesis
<1>6. \A n \in Node : NodeInv(n) /\ DiskInv(n)
  BY DEF NodeInv, DiskInv, Running, Empty
<1>. QED BY <1>4, <1>5, <1>6 DEF IInv

(* A new block: what was agreed stays agreed (Propose).                    *)
LEMMA ProposeInv ==
  ASSUME IInv, NEW set \in Interval \cup {0}, NEW upgrade \in BOOLEAN, Propose(set, upgrade)
  PROVE  IInv'
<1> USE SnapshotAssumption
<1> DEFINE b == AfterBlock(ledger[height], set, upgrade)
<1>1. height \in Nat /\ height < MaxHeight /\ height' = height + 1
      /\ ledger \in [0 .. height -> Block] /\ set \in Nat
  BY SMTT(30) DEF IInv, TypeOK, Propose
<1>2. ledger[height] \in Block
  BY <1>1
<1>3. b \in Block /\ b.set = set /\ b.upgrade = upgrade
      /\ (b.taken => b.count.left = b.count.interval)
  BY <1>1, <1>2, AfterBlockType, SMTT(30)
<1>4. ledger' = [h \in 0 .. height + 1 |-> IF h = height + 1 THEN b ELSE ledger[h]]
  BY DEF Propose
<1> HIDE DEF b
<1>5. ledger' \in [0 .. height' -> Block]
  BY <1>1, <1>3, <1>4
<1>6. \A h \in 0 .. height : ledger'[h] = ledger[h]
  BY <1>1, <1>4
<1>7. ledger'[height + 1] = b
  BY <1>1, <1>4
<1>8. UNCHANGED <<up, pos, count, hash, ver, work, phase, offered, inner, meta>>
  BY DEF Propose, memory, disk
<1>9. TypeOK'
  <2>1. pos' \in [Node -> 0 .. height']
    BY <1>1, <1>8 DEF IInv, TypeOK
  <2>. QED BY <1>1, <1>5, <1>8, <2>1 DEF IInv, TypeOK
<1>10. LedgerInv'
  <2>1. ledger'[0] = Genesis
    BY <1>1, <1>6 DEF IInv, LedgerInv
  <2>2. ASSUME NEW h \in 0 .. height', h < height'
        PROVE  ledger'[h + 1] = AfterBlock(ledger'[h], ledger'[h + 1].set, ledger'[h + 1].upgrade)
    <3>1. CASE h = height
      BY <3>1, <1>1, <1>3, <1>6, <1>7 DEF b
    <3>2. CASE h # height
      <4>1. h \in 0 .. height /\ h + 1 \in 0 .. height /\ h < height
        BY <1>1, <2>2, <3>2
      <4>. QED BY <4>1, <1>6 DEF IInv, LedgerInv
    <3>. QED BY <3>1, <3>2
  <2>3. ASSUME NEW h \in 0 .. height', ledger'[h].taken
        PROVE  ledger'[h].count.left = ledger'[h].count.interval
    <3>1. CASE h = height + 1
      BY <3>1, <1>3, <1>7, <2>3
    <3>2. CASE h # height + 1
      <4>1. h \in 0 .. height
        BY <1>1, <3>2
      <4>. QED BY <4>1, <1>6, <2>3 DEF IInv, LedgerInv
    <3>. QED BY <3>1, <3>2
  <2>. QED BY <2>1, <2>2, <2>3 DEF LedgerInv
<1>11. ASSUME NEW v, NEW s, Agreed(v, s) PROVE Agreed(v, s)'
  <2>1. s.height \in 0 .. height /\ s.height \in 1 .. height'
    BY <1>1, <1>11 DEF Agreed
  <2>. QED BY <2>1, <1>6, <1>11 DEF Agreed
<1>12. ASSUME NEW n \in Node PROVE NodeInv(n)' /\ DiskInv(n)'
  <2>1. NodeInv(n) /\ DiskInv(n) /\ pos[n] \in 0 .. height
    BY DEF IInv, TypeOK
  <2>2. ledger'[pos[n]] = ledger[pos[n]]
    BY <2>1, <1>6, Zenon
  <2>3. NodeInv(n)'
    BY <2>1, <2>2, <1>8, <1>11, Zenon DEF NodeInv, Running, Reported
  <2>4. \A v \in DOMAIN meta[n] : meta[n][v] \in 1 .. height' /\ meta[n][v] \in 0 .. height
    BY <2>1, <1>1, SMTT(30) DEF DiskInv
  <2>5. DiskInv(n)'
    BY <2>1, <2>4, <1>6, <1>8, <1>11 DEF DiskInv
  <2>. QED BY <2>3, <2>5
<1>. QED BY <1>9, <1>10, <1>12 DEF IInv

(* A block is executed: the counters are those of the ledger, so that the  *)
(* snapshot is due where the ledger has one (Execute, snapshotNow).        *)
LEMMA ExecuteInv ==
  ASSUME IInv, NEW n \in Node, Execute(n)
  PROVE  IInv'
<1> DEFINE h == pos[n]
           b == ledger[pos[n] + 1]
           c == Enacted(count[n], b.set)
<1>1. /\ up[n] = "on" /\ h \in 0 .. height /\ h < height /\ h + 1 \in 0 .. height
      /\ h + 1 \in 1 .. height /\ h \in Nat
  BY DEF Execute, IInv, TypeOK
<1>2. /\ ledger[h] \in Block /\ b \in Block /\ b.set \in Nat /\ b.upgrade \in BOOLEAN
      /\ count[n] = ledger[h].count /\ count[n] \in Counters
  BY <1>1, SMTT(30) DEF IInv, TypeOK, NodeInv, Block
<1>3. b = AfterBlock(ledger[h], b.set, b.upgrade)
  BY <1>1 DEF IInv, LedgerInv
<1>4. c = Enacted(ledger[h].count, b.set)
  BY <1>2
<1>5. /\ pos' = [pos EXCEPT ![n] = h + 1]
      /\ count' = [count EXCEPT ![n] = Committed(c, b.upgrade)]
      /\ up' = [up EXCEPT ![n] = IF b.upgrade THEN "waiting" ELSE up[n]]
      /\ UNCHANGED <<height, ledger, ver, offered, inner, meta>>
      /\ \/ Due(c, b.upgrade) /\ snapshotNow(n, h + 1, c.interval)
         \/ /\ ~Due(c, b.upgrade)
            /\ hash' = [hash EXCEPT ![n] = 0]
            /\ UNCHANGED <<work, phase>>
  BY Zenon DEF Execute, disk
<1>6. c \in Counters /\ c.interval \in Nat
  BY <1>2, EnactedType, Zenon DEF Counters
<1> HIDE DEF h, b, c
<1>7. /\ b.taken = Due(c, b.upgrade)
      /\ b.ver = IF Due(c, b.upgrade) THEN ledger[h].ver + 1 ELSE ledger[h].ver
      /\ b.count.interval = c.interval
      /\ ~b.upgrade => b.count = Committed(c, b.upgrade)
  <2> DEFINE a == AfterBlock(ledger[h], b.set, b.upgrade)
             e == Enacted(ledger[h].count, b.set)
  <2>1. /\ a.taken = Due(e, b.upgrade)
        /\ a.ver = IF Due(e, b.upgrade) THEN ledger[h].ver + 1 ELSE ledger[h].ver
        /\ a.count.interval = e.interval
        /\ ~b.upgrade => a.count = Committed(e, b.upgrade)
    BY <1>2, AfterBlockType, SMTT(30)
  <2>2. a = b /\ e = c
    BY <1>3, <1>4
  <2> HIDE DEF a, e
  <2>. QED BY <2>1, <2>2, Zenon
<1>8. Committed(c, b.upgrade) \in Counters
  BY <1>2, <1>6, CommittedType
<1>9. /\ hash' \in [Node -> Nat] /\ work' \in [Node -> Contents]
      /\ phase' \in [Node -> {"idle", "save", "prune", "forget", "record"}]
  <2>1. /\ [height |-> h + 1, interval |-> c.interval] \in Contents
        /\ ver[n] + 1 \in Nat /\ TypeOK
    BY <1>1, <1>6, SMTT(30) DEF IInv, TypeOK, Contents
  <2>2. CASE snapshotNow(n, h + 1, c.interval)
    <3>1. hash' \in [Node -> Nat]
      BY <2>1, <2>2 DEF TypeOK, snapshotNow
    <3>2. work' \in [Node -> Contents]
      BY <2>1, <2>2 DEF TypeOK, snapshotNow
    <3>3. phase' \in [Node -> {"idle", "save", "prune", "forget", "record"}]
      BY <2>1, <2>2 DEF TypeOK, snapshotNow
    <3>. QED BY <3>1, <3>2, <3>3
  <2>3. CASE hash' = [hash EXCEPT ![n] = 0] /\ UNCHANGED <<work, phase>>
    BY <2>1, <2>3 DEF TypeOK
  <2>. QED BY <1>5, <2>2, <2>3
<1>10. TypeOK'
  BY <1>1, <1>8, <1>5, <1>9, Zenon DEF IInv, TypeOK
<1>11. NodeInv(n)'
  <2>1. /\ pos'[n] = h + 1 /\ ledger'[h + 1] = b /\ count'[n] = Committed(c, b.upgrade)
        /\ up'[n] = IF b.upgrade THEN "waiting" ELSE "on"
        /\ ver'[n] = ver[n] /\ offered'[n] = offered[n] /\ height' = height /\ ledger' = ledger
    BY <1>1, <1>5, Zenon DEF IInv, TypeOK, b, h
  <2>2. /\ offered[n] # None => Agreed(offered[n].ver, offered[n].state)
        /\ ledger[h].ver = IF phase[n] = "save" THEN ver[n] + 1 ELSE ver[n]
        /\ phase[n] = "save" => Agreed(ver[n] + 1, work[n])
        /\ phase[n] \in {"prune", "forget", "record"} => Agreed(ver[n], work[n])
    BY <1>1 DEF IInv, NodeInv, Running, h
  <2>3. CASE Due(c, b.upgrade) /\ snapshotNow(n, h + 1, c.interval)
    <3>1. /\ phase[n] = "idle" /\ phase'[n] = "save" /\ hash'[n] = ver[n] + 1
          /\ work'[n] = [height |-> h + 1, interval |-> c.interval]
      BY <2>3 DEF snapshotNow, LockFree, IInv, TypeOK
    <3>2. b.ver = ver[n] + 1 /\ b.taken
      BY <1>7, <2>2, <2>3, <3>1, Zenon
    <3>3. Agreed(ver[n] + 1, work'[n])
      <4>1. work'[n].height = h + 1 /\ work'[n].interval = c.interval /\ ledger[h + 1] = b
        BY <2>1, <3>1
      <4>. QED BY <1>1, <1>7, <3>2, <4>1 DEF Agreed
    <3>4. Agreed(ver[n] + 1, work[n])'
      BY <2>1, <3>3, Zenon DEF Agreed
    <3>5. offered'[n] # None => Agreed(offered[n].ver, offered[n].state)'
      BY <2>1, <2>2, Zenon DEF Agreed
    <3>. QED BY <1>7, <2>1, <3>1, <3>2, <3>4, <3>5, Zenon DEF NodeInv, Running, Reported
  <2>4. CASE ~Due(c, b.upgrade) /\ hash' = [hash EXCEPT ![n] = 0] /\ UNCHANGED <<work, phase>>
    <3>1. phase'[n] = phase[n] /\ work'[n] = work[n] /\ hash'[n] = 0
      BY <2>4, Zenon DEF IInv, TypeOK
    <3>2. b.ver = ledger[h].ver /\ ~b.taken
      BY <1>7, <2>4, SMTT(30)
    <3>3. /\ phase'[n] = "save" => Agreed(ver[n] + 1, work[n])'
          /\ phase'[n] \in {"prune", "forget", "record"} => Agreed(ver[n], work[n])'
          /\ offered'[n] # None => Agreed(offered[n].ver, offered[n].state)'
      BY <2>1, <2>2, <3>1, Zenon DEF Agreed
    <3>. QED BY <1>7, <2>1, <2>2, <3>1, <3>2, <3>3, Zenon DEF NodeInv, Running, Reported
  <2>. QED BY <1>5, <2>3, <2>4, Zenon
<1>12. ASSUME NEW m \in Node, m # n PROVE NodeInv(m)'
  <2>1. /\ up'[m] = up[m] /\ pos'[m] = pos[m] /\ count'[m] = count[m] /\ hash'[m] = hash[m]
        /\ ver'[m] = ver[m] /\ work'[m] = work[m] /\ phase'[m] = phase[m]
        /\ offered'[m] = offered[m]
    BY <1>5, <1>12, ZenonT(40) DEF IInv, TypeOK, snapshotNow
  <2>. QED BY <1>5, <2>1, NodeStays, Zenon DEF IInv
<1>13. \A m \in Node : DiskInv(m)'
  BY <1>5, DiskStays DEF IInv
<1>14. LedgerInv'
  BY <1>5, LedgerStays DEF IInv
<1>. QED BY <1>10, <1>11, <1>12, <1>13, <1>14, Zenon DEF IInv

(* The writes of SaveVersion: what is saved and recorded is the working    *)
(* tree, which nobody changes while the lock is held.                      *)
LEMMA SaveInv ==
  ASSUME IInv, NEW n \in Node, SaveVersion(n)
  PROVE  IInv'
<1>1. UNCHANGED <<height, ledger, up, pos, count, hash, offered>>
  BY DEF SaveVersion, SaveTree, DeleteVersion, DeleteMetadata, SaveMetadata
<1>2. NodeInv(n) /\ DiskInv(n) /\ TypeOK
  BY DEF IInv
<1>3. CASE SaveTree(n)
  <2>1. /\ phase[n] = "save" /\ UNCHANGED <<work, meta>> /\ ver[n] \in Nat
        /\ inner' = [inner EXCEPT ![n] = With(inner[n], ver[n] + 1, work[n])]
        /\ ver' = [ver EXCEPT ![n] = ver[n] + 1]
        /\ \/ phase' = [phase EXCEPT ![n] = "prune"]
           \/ phase' = [phase EXCEPT ![n] = "record"]
    BY <1>2, <1>3, Zenon DEF SaveTree, TypeOK
  <2>2. Agreed(ver[n] + 1, work[n]) /\ work[n] \in Contents
    BY <1>2, <2>1 DEF NodeInv, TypeOK
  <2>3. TypeOK'
    <3>1. ver' \in [Node -> Nat] /\ DOMAIN inner' = Node
      BY <1>2, <2>1 DEF TypeOK
    <3>2. phase' \in [Node -> {"idle", "save", "prune", "forget", "record"}]
      <4>1. CASE phase' = [phase EXCEPT ![n] = "prune"]
        BY <1>2, <4>1 DEF TypeOK
      <4>2. CASE phase' = [phase EXCEPT ![n] = "record"]
        BY <1>2, <4>2, ZenonT(30) DEF TypeOK
      <4>. QED BY <2>1, <4>1, <4>2, SMTT(30)
    <3>. QED BY <1>1, <1>2, <2>1, <3>1, <3>2 DEF TypeOK
  <2>4. NodeInv(n)'
    <3>1. /\ ver'[n] = ver[n] + 1 /\ phase'[n] \in {"prune", "record"} /\ work'[n] = work[n]
      BY <1>2, <2>1 DEF TypeOK
    <3>. QED BY <1>1, <1>2, <2>1, <2>2, <3>1, AgreedStays DEF NodeInv, Running, Reported
  <2>5. DiskInv(n)'
    <3>1. inner'[n] = With(inner[n], ver[n] + 1, work[n]) /\ meta'[n] = meta[n]
      BY <1>2, <2>1 DEF TypeOK
    <3>2. ver[n] + 1 \in Nat
      BY <2>1
    <3> DEFINE D == With(inner[n], ver[n] + 1, work[n])
    <3>3. \A w \in DOMAIN D :
            \/ w \in DOMAIN inner[n] /\ D[w] = inner[n][w]
            \/ w = ver[n] + 1 /\ D[w] = work[n]
      BY WithValues, Zenon
    <3>4. inner'[n] = D /\ meta'[n] = meta[n]
      BY <3>1, Zenon
    <3> HIDE DEF D
    <3>. QED BY <1>1, <1>2, <2>2, <3>2, <3>3, <3>4, DiskGrows, Zenon
  <2>6. ASSUME NEW m \in Node, m # n PROVE NodeInv(m)' /\ DiskInv(m)'
    <3>1. ver'[m] = ver[m] /\ phase'[m] = phase[m] /\ inner'[m] = inner[m]
      BY <1>2, <2>1, <2>6 DEF TypeOK
    <3>. QED BY <1>1, <2>1, <3>1, NodeStays, DiskStays, SMTT(30) DEF IInv
  <2>. QED BY <1>1, <2>3, <2>4, <2>5, <2>6, LedgerStays DEF IInv
<1>4. CASE DeleteVersion(n)
  <2>1. PICK v \in DOMAIN inner[n] : inner' = [inner EXCEPT ![n] = Only(inner[n], DOMAIN inner[n] \ {v})]
    BY <1>4, Zenon DEF DeleteVersion
  <2>2. /\ phase[n] = "prune" /\ UNCHANGED <<work, meta, ver>>
        /\ phase' = [phase EXCEPT ![n] = "forget"]
    BY <1>4 DEF DeleteVersion
  <2>3. TypeOK'
    BY <1>1, <1>2, <2>1, <2>2, Zenon DEF TypeOK
  <2>4. NodeInv(n)'
    <3>1. phase'[n] = "forget"
      BY <1>2, <2>2, Zenon DEF TypeOK
    <3>. QED BY <1>1, <1>2, <2>2, <3>1, AgreedStays, Zenon DEF NodeInv, Running, Reported
  <2>5. DiskInv(n)'
    <3>1. inner'[n] = Only(inner[n], DOMAIN inner[n] \ {v}) /\ meta'[n] = meta[n]
      BY <1>2, <2>1, <2>2 DEF TypeOK
    <3>. QED BY <1>1, <1>2, <3>1, OnlyValues, DiskShrinks, SMTT(30)
  <2>6. ASSUME NEW m \in Node, m # n PROVE NodeInv(m)' /\ DiskInv(m)'
    <3>1. phase'[m] = phase[m] /\ inner'[m] = inner[m]
      BY <1>2, <2>1, <2>2, <2>6 DEF TypeOK
    <3>. QED BY <1>1, <2>2, <3>1, NodeStays, DiskStays, Zenon DEF IInv
  <2>. QED BY <1>1, <2>3, <2>4, <2>5, <2>6, LedgerStays DEF IInv
<1>5. CASE DeleteMetadata(n)
  <2>1. /\ phase[n] = "forget" /\ UNCHANGED <<work, inner, ver>>
        /\ meta' = [meta EXCEPT ![n] = Only(meta[n], DOMAIN meta[n] \ {victim[n]})]
        /\ phase' = [phase EXCEPT ![n] = "record"]
    BY <1>5, Zenon DEF DeleteMetadata
  <2>2. TypeOK'
    BY <1>1, <1>2, <2>1, Zenon DEF TypeOK
  <2>3. NodeInv(n)'
    <3>1. phase'[n] = "record"
      BY <1>2, <2>1, ZenonT(40) DEF TypeOK
    <3>. QED BY <1>1, <1>2, <2>1, <3>1, AgreedStays, Zenon DEF NodeInv, Running, Reported
  <2>4. DiskInv(n)'
    <3>1. meta'[n] = Only(meta[n], DOMAIN meta[n] \ {victim[n]}) /\ inner'[n] = inner[n]
      BY <1>2, <2>1 DEF TypeOK
    <3>. QED BY <1>1, <1>2, <3>1, OnlyValues, DiskShrinks, SMTT(30)
  <2>5. ASSUME NEW m \in Node, m # n PROVE NodeInv(m)' /\ DiskInv(m)'
    <3>1. phase'[m] = phase[m] /\ meta'[m] = meta[m]
      BY <1>2, <2>1, <2>5, SMTT(30) DEF TypeOK
    <3>. QED BY <1>1, <2>1, <3>1, NodeStays, DiskStays, Zenon DEF IInv
  <2>. QED BY <1>1, <2>2, <2>3, <2>4, <2>5, LedgerStays DEF IInv
<1>6. CASE SaveMetadata(n)
  <2>1. /\ phase[n] = "record" /\ UNCHANGED <<inner, ver>>
        /\ meta' = [meta EXCEPT ![n] = With(meta[n], ver[n], work[n].height)]
        /\ phase' = [phase EXCEPT ![n] = "idle"]
        /\ work' = [work EXCEPT ![n] = Nothing]
    BY <1>6, ZenonT(40) DEF SaveMetadata, Recorded
  <2>2. Agreed(ver[n], work[n])
    BY <1>2, <2>1 DEF NodeInv
  <2>3. TypeOK'
    BY <1>1, <1>2, <2>1, Zenon DEF TypeOK, Nothing, Contents
  <2>4. NodeInv(n)'
    <3>1. phase'[n] = "idle"
      BY <1>2, <2>1 DEF TypeOK
    <3>. QED BY <1>1, <1>2, <2>1, <3>1, AgreedStays, Zenon DEF NodeInv, Running, Reported
  <2>5. DiskInv(n)'
    <3>1. meta'[n] = With(meta[n], ver[n], work[n].height) /\ inner'[n] = inner[n]
      BY <1>2, <2>1, ZenonT(40) DEF TypeOK
    <3>2. ver[n] \in Nat /\ work[n] \in Contents
      BY <1>2 DEF TypeOK
    <3> DEFINE D == With(meta[n], ver[n], work[n].height)
    <3>3. \A w \in DOMAIN D :
            \/ w \in DOMAIN meta[n] /\ D[w] = meta[n][w]
            \/ w = ver[n] /\ D[w] = work[n].height
      BY WithValues, Zenon
    <3>4. meta'[n] = D /\ inner'[n] = inner[n]
      BY <3>1, Zenon
    <3> HIDE DEF D
    <3>. QED BY <1>1, <1>2, <2>2, <3>2, <3>3, <3>4, DiskGrows, Zenon
  <2>6. ASSUME NEW m \in Node, m # n PROVE NodeInv(m)' /\ DiskInv(m)'
    <3>1. phase'[m] = phase[m] /\ work'[m] = work[m] /\ meta'[m] = meta[m]
      BY <1>2, <2>1, <2>6 DEF TypeOK
    <3>. QED BY <1>1, <2>1, <3>1, NodeStays, DiskStays, Zenon DEF IInv
  <2>. QED BY <1>1, <2>3, <2>4, <2>5, <2>6, LedgerStays DEF IInv
<1>. QED BY <1>3, <1>4, <1>5, <1>6 DEF SaveVersion

-----------------------------------------------------------------------------
(* A stop leaves the databases, and nothing else (Crash, Replaced).        *)
LEMMA StopInv ==
  ASSUME IInv, NEW n \in Node, Stop(n), UNCHANGED <<height, ledger, disk>>
  PROVE  IInv'
<1> USE SnapshotAssumption
<1>1. Initialised(GenesisInterval) \in Counters
  BY StartsFull
<1>2. TypeOK /\ Nothing \in Contents
  BY Zenon DEF IInv, Nothing, Contents
<1>3. TypeOK'
  <2>1. up' \in [Node -> {"off", "sync", "on", "waiting"}]
    BY <1>2, Zenon DEF TypeOK, Stop
  <2>2. pos' \in [Node -> 0 .. height]
    BY <1>2 DEF TypeOK, Stop
  <2>3. phase' \in [Node -> {"idle", "save", "prune", "forget", "record"}]
    BY <1>2, Zenon DEF TypeOK, Stop
  <2>4. count' \in [Node -> Counters] /\ hash' \in [Node -> Nat] /\ ver' \in [Node -> Nat]
    BY <1>1, <1>2, Zenon DEF TypeOK, Stop
  <2>5. work' \in [Node -> Contents] /\ offered' \in [Node -> {None} \cup Offer]
    BY <1>2, Zenon DEF TypeOK, Stop
  <2>. QED BY <1>2, <2>1, <2>2, <2>3, <2>4, <2>5, Zenon DEF TypeOK, disk
<1>4. NodeInv(n)'
  <2>1. /\ up'[n] = "off" /\ pos'[n] = 0 /\ count'[n] = Initialised(GenesisInterval)
        /\ ver'[n] = 0 /\ phase'[n] = "idle" /\ offered'[n] = None
    BY <1>2, Zenon DEF TypeOK, Stop
  <2>. QED BY <2>1, Zenon DEF NodeInv, Running
<1>5. ASSUME NEW m \in Node, m # n PROVE NodeInv(m)'
  <2>1. /\ up'[m] = up[m] /\ pos'[m] = pos[m] /\ count'[m] = count[m] /\ hash'[m] = hash[m]
        /\ ver'[m] = ver[m] /\ work'[m] = work[m] /\ phase'[m] = phase[m]
        /\ offered'[m] = offered[m]
    BY <1>2, <1>5, Zenon DEF TypeOK, Stop
  <2>. QED BY <2>1, NodeStays, Zenon DEF IInv
<1>6. \A m \in Node : DiskInv(m)'
  BY DiskStays DEF IInv, disk
<1>. QED BY <1>3, <1>4, <1>5, <1>6, LedgerStays DEF IInv

(* Without a snapshot a node starts with the counters of the genesis block *)
(* (StartEmpty).                                                           *)
LEMMA StartEmptyInv ==
  ASSUME IInv, NEW n \in Node, StartEmpty(n)
  PROVE  IInv'
<1>1. /\ up[n] = "off" /\ (up' = [up EXCEPT ![n] = "sync"] \/ up' = [up EXCEPT ![n] = "on"])
      /\ UNCHANGED <<height, ledger, pos, count, hash, ver, work, phase, offered, inner, meta>>
  BY Zenon DEF StartEmpty, disk
<1>2. up' \in [Node -> {"off", "sync", "on", "waiting"}]
  <2>1. CASE up' = [up EXCEPT ![n] = "sync"]
    BY <2>1, Zenon DEF IInv, TypeOK
  <2>2. CASE up' = [up EXCEPT ![n] = "on"]
    BY <2>2, Zenon DEF IInv, TypeOK
  <2>. QED BY <1>1, <2>1, <2>2, Zenon
<1>3. TypeOK'
  BY <1>1, <1>2, Zenon DEF IInv, TypeOK
<1>4. NodeInv(n)'
  <2>1. /\ phase[n] = "idle" /\ pos[n] = 0 /\ ver[n] = 0
        /\ count[n] = Initialised(GenesisInterval)
        /\ (offered[n] # None => Agreed(offered[n].ver, offered[n].state))
    BY <1>1, ZenonT(40) DEF IInv, NodeInv, Running
  <2>2. ledger[0].count = Initialised(GenesisInterval) /\ ledger[0].ver = 0
    <3>1. ledger[0] = Genesis
      BY DEF IInv, LedgerInv
    <3>. QED BY <3>1 DEF Genesis
  <2>3. up'[n] \in {"sync", "on"}
    BY <1>1, Zenon DEF IInv, TypeOK
  <2>4. offered'[n] # None => Agreed(offered[n].ver, offered[n].state)'
    BY <1>1, <2>1, AgreedStays, Zenon
  <2>. QED BY <1>1, <2>1, <2>2, <2>3, <2>4 DEF NodeInv, Running
<1>5. ASSUME NEW m \in Node, m # n PROVE NodeInv(m)'
  <2>1. up'[m] = up[m]
    BY <1>1, <1>5, Zenon DEF IInv, TypeOK
  <2>. QED BY <1>1, <2>1, NodeStays, Zenon DEF IInv
<1>6. \A m \in Node : DiskInv(m)'
  BY <1>1, DiskStays, Zenon DEF IInv
<1>. QED BY <1>1, <1>3, <1>4, <1>5, <1>6, LedgerStays DEF IInv

(* A node that restores an agreed snapshot is where a node is that         *)
(* executed all blocks up to it (restoreStateFromSnapshot).                *)
LEMMA RestoredInv ==
  ASSUME IInv, NEW n \in Node, NEW v \in Nat, NEW s \in Contents, Agreed(v, s),
         Restored(n, v, s), ~Running(n), UNCHANGED <<height, ledger, work, phase>>,
         offered'[n] = None \/ offered'[n] = offered[n]
  PROVE  /\ NodeInv(n)'
         /\ up' \in [Node -> {"off", "sync", "on", "waiting"}]
         /\ pos' \in [Node -> 0 .. height] /\ count' \in [Node -> Counters]
         /\ hash' \in [Node -> Nat] /\ ver' \in [Node -> Nat]
<1>1. /\ s.height \in 1 .. height /\ s.height \in 0 .. height /\ s.height > 0
      /\ Initialised(s.interval) = ledger[s.height].count
      /\ Initialised(s.interval) \in Counters
      /\ ledger[s.height].ver = v /\ ledger[s.height].taken
  <2>1. /\ s.height \in 1 .. height
        /\ Initialised(s.interval) = ledger[s.height].count
        /\ Initialised(s.interval) \in Counters
        /\ ledger[s.height].ver = v /\ ledger[s.height].taken
    BY AgreedRestores, Zenon
  <2>2. height \in Nat
    BY DEF IInv, TypeOK
  <2>. QED BY <2>1, <2>2
<1>2. /\ up'[n] = "on" /\ pos'[n] = s.height /\ count'[n] = Initialised(s.interval)
      /\ hash'[n] = v /\ ver'[n] = v /\ phase'[n] = "idle"
  BY Zenon DEF IInv, TypeOK, Restored, NodeInv
<1>3. offered'[n] # None => Agreed(offered[n].ver, offered[n].state)'
  <2>1. offered[n] # None => Agreed(offered[n].ver, offered[n].state)
    BY Zenon DEF IInv, NodeInv
  <2>. QED BY <2>1, AgreedStays, Zenon
<1>4. NodeInv(n)'
  BY <1>1, <1>2, <1>3, Zenon DEF NodeInv, Running, Reported
<1>5. up' \in [Node -> {"off", "sync", "on", "waiting"}]
  BY Zenon DEF IInv, TypeOK, Restored
<1>6. pos' \in [Node -> 0 .. height]
  BY <1>1, Zenon DEF IInv, TypeOK, Restored
<1>7. count' \in [Node -> Counters]
  BY <1>1, Zenon DEF IInv, TypeOK, Restored
<1>8. hash' \in [Node -> Nat] /\ ver' \in [Node -> Nat]
  BY ZenonT(40) DEF IInv, TypeOK, Restored
<1>. QED BY <1>4, <1>5, <1>6, <1>7, <1>8, Zenon

(* A start from the databases: only agreed snapshots are there to load     *)
(* (StartFrom).                                                            *)
LEMMA StartFromInv ==
  ASSUME IInv, NEW n \in Node, NEW start, StartFrom(n, start)
  PROVE  IInv'
<1>1. PICK v \in DOMAIN inner[n] :
        /\ Restored(n, v, inner[n][v])
        /\ inner' = [inner EXCEPT ![n] =
                      Only(inner[n], {w \in Newest(DOMAIN inner[n]) : start # 0 => w <= v})]
  BY Zenon DEF StartFrom
<1>2. /\ up[n] = "off" /\ UNCHANGED <<height, ledger, work, phase, offered>>
      /\ meta' = [meta EXCEPT ![n] = Only(meta[n], DOMAIN meta[n] \ OldMetadata(n))]
  BY Zenon DEF StartFrom
<1>3. v \in Nat /\ inner[n][v] \in Contents /\ Agreed(v, inner[n][v]) /\ ~Running(n)
  BY <1>2, Zenon DEF IInv, DiskInv, Running
<1>4. /\ NodeInv(n)'
      /\ up' \in [Node -> {"off", "sync", "on", "waiting"}]
      /\ pos' \in [Node -> 0 .. height] /\ count' \in [Node -> Counters]
      /\ hash' \in [Node -> Nat] /\ ver' \in [Node -> Nat]
  BY <1>1, <1>2, <1>3, RestoredInv, Zenon
<1>5. TypeOK'
  BY <1>1, <1>2, <1>4, Zenon DEF IInv, TypeOK
<1>6. DiskInv(n)'
  <2>1. /\ \A w \in DOMAIN inner'[n] : w \in DOMAIN inner[n] /\ inner'[n][w] = inner[n][w]
        /\ \A w \in DOMAIN meta'[n] : w \in DOMAIN meta[n] /\ meta'[n][w] = meta[n][w]
    <3>1. /\ inner'[n] = Only(inner[n], {w \in Newest(DOMAIN inner[n]) : start # 0 => w <= v})
          /\ meta'[n] = Only(meta[n], DOMAIN meta[n] \ OldMetadata(n))
      BY <1>1, <1>2 DEF IInv, TypeOK
    <3>. QED BY <3>1, OnlyValues
  <2>2. DiskInv(n)
    BY DEF IInv
  <2>. QED BY <1>2, <2>1, <2>2, DiskShrinks, Zenon
<1>7. ASSUME NEW m \in Node, m # n PROVE NodeInv(m)' /\ DiskInv(m)'
  <2>1. /\ up'[m] = up[m] /\ pos'[m] = pos[m] /\ count'[m] = count[m] /\ hash'[m] = hash[m]
        /\ ver'[m] = ver[m] /\ inner'[m] = inner[m] /\ meta'[m] = meta[m]
    BY <1>1, <1>2, <1>7 DEF IInv, TypeOK, Restored
  <2>. QED BY <1>2, <2>1, NodeStays, DiskStays, ZenonT(40) DEF IInv
<1>. QED BY <1>2, <1>4, <1>5, <1>6, <1>7, LedgerStays DEF IInv

-----------------------------------------------------------------------------
(* State sync.                                                             *)

(* A step that changes what node n is offered and nothing else.            *)
LEMMA OfferedInv ==
  ASSUME IInv, NEW n \in Node, NEW o \in {None} \cup Offer,
         o # None => Agreed(o.ver, o.state),
         offered' = [offered EXCEPT ![n] = o],
         \/ UNCHANGED up
         \/ up[n] = "sync" /\ up' = [up EXCEPT ![n] = "off"],
         UNCHANGED <<height, ledger, pos, count, hash, ver, work, phase, inner, meta>>
  PROVE  IInv'
<1>1. offered' \in [Node -> {None} \cup Offer] /\ offered'[n] = o
  BY Zenon DEF IInv, TypeOK
<1>2. up' \in [Node -> {"off", "sync", "on", "waiting"}]
  BY Zenon DEF IInv, TypeOK
<1>3. TypeOK'
  BY <1>1, <1>2 DEF IInv, TypeOK
<1>4. NodeInv(n)'
  <2>1. up'[n] = up[n] \/ (up[n] = "sync" /\ up'[n] = "off")
    BY Zenon DEF IInv, TypeOK
  <2>2. offered'[n] # None => Agreed(offered[n].ver, offered[n].state)'
    BY <1>1, Zenon DEF Agreed
  <2>3. NodeInv(n)
    BY Zenon DEF IInv
  <2>. QED BY <2>1, <2>2, <2>3, Zenon DEF NodeInv, Running, Reported, Agreed
<1>5. ASSUME NEW m \in Node, m # n PROVE NodeInv(m)'
  <2>1. up'[m] = up[m] /\ offered'[m] = offered[m]
    BY <1>5, ZenonT(30) DEF IInv, TypeOK
  <2>. QED BY <2>1, NodeStays, Zenon DEF IInv
<1>6. \A m \in Node : DiskInv(m)'
  BY DiskStays DEF IInv
<1>. QED BY <1>3, <1>4, <1>5, <1>6, LedgerStays, Zenon DEF IInv

(* An offer of a snapshot comes from the databases of a peer.              *)
LEMMA ReceiveSnapshotInv ==
  ASSUME IInv, NEW n \in Node, NEW p \in Node, NEW v, ReceiveSnapshot(n, p, v)
  PROVE  IInv'
<1> DEFINE o == [ver |-> v, state |-> inner[p][v], seen |-> 0, attempts |-> 0]
<1>1. v \in Nat /\ inner[p][v] \in Contents /\ Agreed(v, inner[p][v])
  BY Zenon DEF ReceiveSnapshot, IInv, DiskInv
<1>2. o \in Offer /\ o.ver = v /\ o.state = inner[p][v]
  BY <1>1, Zenon DEF Offer
<1>3. /\ offered' = [offered EXCEPT ![n] = o] /\ UNCHANGED up
      /\ UNCHANGED <<height, ledger, pos, count, hash, ver, work, phase, inner, meta>>
  BY Zenon DEF ReceiveSnapshot, disk
<1> HIDE DEF o
<1>. QED BY <1>1, <1>2, <1>3, OfferedInv, Zenon

(* A chunk that is not the last, or does not match (ReceiveSnapshotChunk). *)
LEMMA ReceiveChunkInv ==
  ASSUME IInv, NEW n \in Node, NEW p \in Node,
         ReceiveChunk(n, p) \/ ReceiveBadChunk(n, p)
  PROVE  IInv'
<1>1. /\ up[n] = "sync" /\ offered[n] # None
      /\ UNCHANGED <<height, ledger, pos, count, hash, ver, work, phase, inner, meta>>
  BY Zenon DEF ReceiveChunk, ReceiveBadChunk, RetrieveSnapshotChunk, disk
<1>2. offered[n] \in Offer /\ Agreed(offered[n].ver, offered[n].state)
  BY <1>1, Zenon DEF IInv, TypeOK, NodeInv
<1>3. CASE ReceiveChunk(n, p)
  <2> DEFINE o == [offered[n] EXCEPT !.seen = offered[n].seen + 1]
  <2>1. o \in Offer /\ o.ver = offered[n].ver /\ o.state = offered[n].state
    BY <1>2 DEF Offer
  <2>2. offered' = [offered EXCEPT ![n] = o] /\ UNCHANGED up
    BY <1>3 DEF ReceiveChunk
  <2> HIDE DEF o
  <2>. QED BY <1>1, <1>2, <2>1, <2>2, OfferedInv, Zenon
<1>4. CASE ReceiveBadChunk(n, p)
  <2> DEFINE o == [offered[n] EXCEPT !.attempts = offered[n].attempts + 1]
  <2>1. o \in Offer /\ o.ver = offered[n].ver /\ o.state = offered[n].state
    BY <1>2 DEF Offer
  <2>2. \/ offered' = [offered EXCEPT ![n] = o] /\ UNCHANGED up
        \/ offered' = [offered EXCEPT ![n] = None] /\ up' = [up EXCEPT ![n] = "off"]
    BY <1>4 DEF ReceiveBadChunk
  <2> HIDE DEF o
  <2>3. CASE offered' = [offered EXCEPT ![n] = o] /\ UNCHANGED up
    BY <1>1, <1>2, <2>1, <2>3, OfferedInv, Zenon
  <2>4. CASE offered' = [offered EXCEPT ![n] = None] /\ up' = [up EXCEPT ![n] = "off"]
    BY <1>1, <2>4, OfferedInv, Zenon
  <2>. QED BY <2>2, <2>3, <2>4
<1>. QED BY <1>3, <1>4

(* The last chunk: the offered snapshot is saved and restored.             *)
LEMMA ReceiveLastChunkInv ==
  ASSUME IInv, NEW n \in Node, NEW p \in Node, ReceiveLastChunk(n, p)
  PROVE  IInv'
<1> DEFINE v == offered[n].ver
           s == offered[n].state
<1>1. /\ up[n] = "sync" /\ offered[n] # None /\ Restored(n, v, s)
      /\ offered' = [offered EXCEPT ![n] = None]
      /\ inner' = [inner EXCEPT ![n] = With(inner[n], v, s)]
      /\ meta' = [meta EXCEPT ![n] = With(meta[n], v, s.height)]
      /\ UNCHANGED <<height, ledger, work, phase>>
  BY Zenon DEF ReceiveLastChunk, RetrieveSnapshotChunk
<1>2. v \in Nat /\ s \in Contents /\ Agreed(v, s)
  BY <1>1, Zenon DEF IInv, TypeOK, NodeInv, Offer
<1> HIDE DEF v, s
<1>3. ~Running(n) /\ offered'[n] = None
  BY <1>1, Zenon DEF IInv, TypeOK, Running
<1>4. /\ NodeInv(n)'
      /\ up' \in [Node -> {"off", "sync", "on", "waiting"}]
      /\ pos' \in [Node -> 0 .. height] /\ count' \in [Node -> Counters]
      /\ hash' \in [Node -> Nat] /\ ver' \in [Node -> Nat]
  BY <1>1, <1>2, <1>3, RestoredInv
<1>5. TypeOK'
  BY <1>1, <1>4, Zenon DEF IInv, TypeOK
<1>6. DiskInv(n)'
  <2>1. inner'[n] = With(inner[n], v, s) /\ meta'[n] = With(meta[n], v, s.height)
    BY <1>1 DEF IInv, TypeOK
  <2>2. DiskInv(n)
    BY Zenon DEF IInv
  <2>. QED BY <1>1, <1>2, <2>1, <2>2, WithValues, DiskGrows, SMTT(30)
<1>7. ASSUME NEW m \in Node, m # n PROVE NodeInv(m)' /\ DiskInv(m)'
  <2>1. /\ up'[m] = up[m] /\ pos'[m] = pos[m] /\ count'[m] = count[m] /\ hash'[m] = hash[m]
        /\ ver'[m] = ver[m] /\ offered'[m] = offered[m]
        /\ inner'[m] = inner[m] /\ meta'[m] = meta[m]
    BY <1>1, <1>7 DEF IInv, TypeOK, Restored
  <2>. QED BY <1>1, <2>1, NodeStays, DiskStays, ZenonT(30) DEF IInv
<1>. QED BY <1>1, <1>4, <1>5, <1>6, <1>7, LedgerStays, Zenon DEF IInv

-----------------------------------------------------------------------------
(* Every step keeps the invariant.                                         *)
LEMMA StepInv == IInv /\ [Next]_vars => IInv'
<1> SUFFICES ASSUME IInv, [Next]_vars PROVE IInv'
  OBVIOUS
<1>1. CASE \E set \in Interval \cup {0}, upgrade \in BOOLEAN : Propose(set, upgrade)
  BY <1>1, ProposeInv, Zenon
<1>2. ASSUME NEW n \in Node,
             Execute(n) \/ SaveVersion(n) \/ Crash(n) \/ Replaced(n) \/ StartEmpty(n)
      PROVE  IInv'
  <2>1. CASE Execute(n)
    BY <2>1, ExecuteInv
  <2>2. CASE SaveVersion(n)
    BY <2>2, SaveInv
  <2>3. CASE Crash(n) \/ Replaced(n)
    BY <2>3, StopInv DEF Crash, Replaced
  <2>4. CASE StartEmpty(n)
    BY <2>4, StartEmptyInv
  <2>. QED BY <1>2, <2>1, <2>2, <2>3, <2>4
<1>3. ASSUME NEW n \in Node, NEW start \in 0 .. MaxHeight, StartFrom(n, start)
      PROVE  IInv'
  BY <1>3, StartFromInv
<1>4. ASSUME NEW n \in Node, SyncStep(n) \/ \E p \in Node : ReceiveBadChunk(n, p)
      PROVE  IInv'
  BY <1>4, ReceiveSnapshotInv, ReceiveChunkInv, ReceiveLastChunkInv, ZenonT(40) DEF SyncStep
<1>5. CASE UNCHANGED vars
  <2>1. UNCHANGED <<height, ledger, up, pos, count, hash, ver, work, phase, offered,
                    inner, meta>>
    BY <1>5, Zenon DEF vars, memory, disk
  <2>2. TypeOK'
    BY <2>1 DEF IInv, TypeOK
  <2>. QED BY <2>1, <2>2, NodeStays, DiskStays, LedgerStays DEF IInv
<1>. QED BY <1>1, <1>2, <1>3, <1>4, <1>5 DEF Next

(* Every variable keeps its type; in particular at least one commit is     *)
(* left before a snapshot, so that the unsigned counter Snapshot           *)
(* decrements (engine.go, commitsLeftBeforeSnapshot) never wraps around.   *)
THEOREM TypeCorrect == Spec => []TypeOK
<1>1. IInv => TypeOK
  BY DEF IInv
<1>. QED BY <1>1, InitInv, StepInv, PTL DEF Spec

(* All running nodes report the snapshot hash of a node that never         *)
(* stopped: after crashes, upgrades, starts from an older snapshot and     *)
(* state sync, for all values of the interval (Finalize, Snapshot).        *)
THEOREM SnapshotHashesAgree == Spec => []HashesAgree
<1>1. IInv => HashesAgree
  BY ZenonT(30) DEF IInv, NodeInv, HashesAgree, Reported
<1>. QED BY <1>1, InitInv, StepInv, PTL DEF Spec

(* The two databases hold agreed snapshots only, between any two writes of *)
(* SaveVersion (tree.go) and whichever peer a snapshot was fetched from.   *)
THEOREM DisksAreTrue == Spec => []DiskIsTrue
<1>1. IInv => DiskIsTrue
  BY DEF IInv, DiskInv, DiskIsTrue
<1>. QED BY <1>1, InitInv, StepInv, PTL DEF Spec

-----------------------------------------------------------------------------
(* What a node can restart from.  I are the versions in the tree, M those  *)
(* with metadata, of a node in state u, where SaveVersion is at ph with    *)
(* version v and victim x; c crashes have happened.                        *)

(* Versions whose metadata a crash has cost: not the one being saved.      *)
LostOf(I, M, ph, v) ==
  I \ (M \cup IF ph \in {"prune", "forget", "record"} THEN {v} ELSE {})

(* There are no more of them than crashes, and the newest version is the   *)
(* one the node is at; metadata are missing only before the first version  *)
(* is recorded.                                                            *)
Recoverable(I, M, u, ph, v, x, c) ==
  /\ IsFiniteSet(I) /\ I \subseteq Nat \ {0} /\ Cardinality(I) <= KeepRecent + 1
  /\ Cardinality(LostOf(I, M, ph, v)) <= c
  /\ ph = "prune" => Cardinality(I) > KeepRecent
  /\ ph = "forget" => Cardinality(I) >= KeepRecent /\ x \notin I
  /\ u \in {"on", "waiting"} =>
       /\ ph # "prune" => Cardinality(I) <= KeepRecent
       /\ v = 0 => I \subseteq {1}
       /\ v > 0 => v \in I /\ \A w \in I : w <= v
       /\ v > 0 /\ ph \in {"idle", "save"} => M # {}
  /\ M = {} => I \subseteq {1}
  /\ u = "sync" => M = {}

(* The lost versions are a finite set.                                     *)
LEMMA LostFinite ==
  ASSUME NEW I, IsFiniteSet(I), NEW M, NEW ph, NEW v, NEW J, J \subseteq LostOf(I, M, ph, v)
  PROVE  /\ IsFiniteSet(J) /\ Cardinality(J) \in Nat /\ IsFiniteSet(LostOf(I, M, ph, v))
         /\ Cardinality(LostOf(I, M, ph, v)) \in Nat
         /\ Cardinality(J) <= Cardinality(LostOf(I, M, ph, v))
<1>1. LostOf(I, M, ph, v) \subseteq I
  BY Zenon DEF LostOf
<1>2. IsFiniteSet(LostOf(I, M, ph, v))
  BY <1>1, FS_Subset, Zenon
<1>. QED BY <1>2, FS_Subset, FS_CardinalityType, Zenon

(* Fewer versions lost than kept: one of them has metadata.                *)
LEMMA SomeRecorded ==
  ASSUME NEW I, IsFiniteSet(I), NEW M, NEW c \in Nat,
         Cardinality(I \ M) <= c, Cardinality(I) > c
  PROVE  I \cap M # {}
<1>1. SUFFICES ASSUME I \cap M = {} PROVE FALSE
  OBVIOUS
<1>2. I \ M = I
  BY <1>1, Zenon
<1>3. Cardinality(I) \in Nat
  BY FS_CardinalityType, Zenon
<1>. QED BY <1>2, <1>3

(* SaveTree: the next version is written.                                  *)
LEMMA SavedTree ==
  ASSUME NEW I, NEW M, NEW u \in {"on", "waiting"}, NEW v \in Nat, NEW x, NEW c \in Nat,
         c + 2 <= KeepRecent, Recoverable(I, M, u, "save", v, x, c),
         NEW J, J = I \cup {v + 1}, NEW ph,
         ph = IF TooMany(J) THEN "prune" ELSE "record"
  PROVE  Recoverable(J, M, u, ph, v + 1, x, c)
<1> USE SnapshotAssumption
<1>1. /\ IsFiniteSet(I) /\ I \subseteq Nat \ {0} /\ Cardinality(I) <= KeepRecent
      /\ Cardinality(LostOf(I, M, "save", v)) <= c
      /\ v = 0 => I \subseteq {1}
      /\ v > 0 => M # {} /\ v \in I /\ \A w \in I : w <= v
      /\ M = {} => I \subseteq {1}
  BY DEF Recoverable
<1>2. /\ IsFiniteSet(J) /\ Cardinality(J) \in Nat /\ Cardinality(I) \in Nat
      /\ Cardinality(J) <= Cardinality(I) + 1
  <2>1. /\ IsFiniteSet(J)
        /\ Cardinality(J) = IF v + 1 \in I THEN Cardinality(I) ELSE Cardinality(I) + 1
    BY <1>1, FS_AddElement, Zenon
  <2>2. Cardinality(J) \in Nat /\ Cardinality(I) \in Nat
    BY <1>1, <2>1, FS_CardinalityType, Zenon
  <2>. QED BY <2>1, <2>2
<1>3. Cardinality(LostOf(J, M, ph, v + 1)) <= c
  <2>1. LostOf(J, M, ph, v + 1) \subseteq LostOf(I, M, "save", v)
    BY Zenon DEF LostOf
  <2>2. /\ Cardinality(LostOf(J, M, ph, v + 1)) \in Nat
        /\ Cardinality(LostOf(I, M, "save", v)) \in Nat
        /\ Cardinality(LostOf(J, M, ph, v + 1)) <= Cardinality(LostOf(I, M, "save", v))
    BY <1>1, <2>1, LostFinite, Zenon
  <2>. QED BY <1>1, <2>2
<1>4. ph = "prune" => Cardinality(J) > KeepRecent
  BY Zenon DEF TooMany
<1>5. ph # "prune" => ph = "record" /\ Cardinality(J) <= KeepRecent
  BY <1>2 DEF TooMany
<1>6. v + 1 \in J /\ \A w \in J : w <= v + 1
  BY <1>1
<1>7. M = {} => J \subseteq {1}
  <2>1. SUFFICES ASSUME M = {} PROVE J \subseteq {1}
    OBVIOUS
  <2>2. v = 0 /\ I \subseteq {1}
    BY <1>1, <2>1
  <2>. QED BY <2>2
<1>8. J \subseteq Nat \ {0} /\ Cardinality(J) <= KeepRecent + 1 /\ v + 1 # 0
  BY <1>1, <1>2
<1>9. ph # "forget" /\ ph \notin {"idle", "save"} /\ u # "sync"
  OBVIOUS
<1>. QED BY <1>2, <1>3, <1>4, <1>5, <1>6, <1>7, <1>8, <1>9, Zenon DEF Recoverable

(* DeleteVersion: the oldest version is pruned, not the one just written.  *)
LEMMA PrunedTree ==
  ASSUME NEW I, NEW M, NEW u \in {"on", "waiting"}, NEW v \in Nat \ {0}, NEW x, NEW c \in Nat,
         c + 2 <= KeepRecent, Recoverable(I, M, u, "prune", v, x, c),
         NEW m \in I, \A w \in I : m <= w
  PROVE  Recoverable(I \ {m}, M, u, "forget", v, m, c)
<1> USE SnapshotAssumption
<1> DEFINE J == I \ {m}
<1>1. /\ IsFiniteSet(I) /\ I \subseteq Nat \ {0} /\ Cardinality(I) <= KeepRecent + 1
      /\ Cardinality(LostOf(I, M, "prune", v)) <= c /\ Cardinality(I) > KeepRecent
      /\ v \in I /\ \A w \in I : w <= v
      /\ M = {} => I \subseteq {1}
  BY DEF Recoverable
<1>2. /\ IsFiniteSet(J) /\ Cardinality(J) = Cardinality(I) - 1 /\ Cardinality(I) \in Nat
  BY <1>1, FS_RemoveElement, FS_CardinalityType, Zenon
<1>3. m # v
  <2>1. SUFFICES ASSUME m = v PROVE FALSE
    OBVIOUS
  <2>2. \A w \in I : w = v
    BY <1>1, <2>1
  <2>3. I = {v}
    BY <1>1, <2>2, Zenon
  <2>4. Cardinality(I) = 1
    BY <2>3, FS_Singleton, Zenon
  <2>. QED BY <1>1, <2>4
<1>4. Cardinality(LostOf(J, M, "forget", v)) <= c
  <2>1. LostOf(J, M, "forget", v) \subseteq LostOf(I, M, "prune", v)
    BY Zenon DEF LostOf
  <2>2. /\ Cardinality(LostOf(J, M, "forget", v)) \in Nat
        /\ Cardinality(LostOf(I, M, "prune", v)) \in Nat
        /\ Cardinality(LostOf(J, M, "forget", v)) <= Cardinality(LostOf(I, M, "prune", v))
    BY <1>1, <2>1, LostFinite, Zenon
  <2>. QED BY <1>1, <2>2
<1>5. /\ Cardinality(J) <= KeepRecent /\ Cardinality(J) >= KeepRecent
      /\ Cardinality(J) <= KeepRecent + 1
  BY <1>1, <1>2
<1>6. v \in J /\ m \notin J /\ J \subseteq Nat \ {0} /\ (\A w \in J : w <= v)
      /\ (M = {} => J \subseteq {1}) /\ v # 0 /\ u # "sync"
  BY <1>1, <1>3, Zenon
<1> HIDE DEF J
<1>7. "forget" # "prune" /\ "forget" \notin {"idle", "save"}
  OBVIOUS
<1>8. Recoverable(J, M, u, "forget", v, m, c)
  BY <1>2, <1>4, <1>5, <1>6, <1>7, Zenon DEF Recoverable
<1>. QED BY <1>8, SMTT(30) DEF J

(* DeleteMetadata: of the versions that are kept one at least has metadata.*)
LEMMA ForgottenVictim ==
  ASSUME NEW I, NEW M, NEW u \in {"on", "waiting"}, NEW v \in Nat \ {0}, NEW x, NEW c \in Nat,
         c + 2 <= KeepRecent, Recoverable(I, M, u, "forget", v, x, c)
  PROVE  Recoverable(I, M \ {x}, u, "record", v, 0, c)
<1> USE SnapshotAssumption
<1>1. /\ IsFiniteSet(I) /\ I \subseteq Nat \ {0} /\ Cardinality(I) <= KeepRecent
      /\ Cardinality(LostOf(I, M, "forget", v)) <= c /\ Cardinality(I) >= KeepRecent
      /\ v \in I /\ (\A w \in I : w <= v) /\ x \notin I
  BY DEF Recoverable
<1>2. LostOf(I, M \ {x}, "record", v) = LostOf(I, M, "forget", v)
  BY <1>1, Zenon DEF LostOf
<1>3. I \cap M # {}
  <2>1. /\ IsFiniteSet(I \ {v}) /\ Cardinality(I \ {v}) = Cardinality(I) - 1
        /\ Cardinality(I) \in Nat
    BY <1>1, FS_RemoveElement, FS_CardinalityType, Zenon
  <2>2. (I \ {v}) \ M = LostOf(I, M, "forget", v)
    BY Zenon DEF LostOf
  <2>3. Cardinality((I \ {v}) \ M) <= c
    BY <1>1, <2>2, Zenon
  <2>4. Cardinality(I \ {v}) > c
    BY <1>1, <2>1
  <2>5. (I \ {v}) \cap M # {}
    BY <2>1, <2>3, <2>4, SomeRecorded, Zenon
  <2>. QED BY <2>5, Zenon
<1>4. M \ {x} # {}
  BY <1>1, <1>3, Zenon
<1>5. Cardinality(I) \in Nat /\ Cardinality(I) <= KeepRecent + 1 /\ u # "sync" /\ v # 0
  BY <1>1, FS_CardinalityType
<1>6. "record" \notin {"idle", "save", "prune", "forget"}
  OBVIOUS
<1>. QED BY <1>1, <1>2, <1>4, <1>5, <1>6, Zenon DEF Recoverable

(* SaveMetadata: the version just written is not lost.                     *)
LEMMA RecordedVersion ==
  ASSUME NEW I, NEW M, NEW u \in {"on", "waiting"}, NEW v \in Nat \ {0}, NEW x, NEW c \in Nat,
         Recoverable(I, M, u, "record", v, x, c)
  PROVE  Recoverable(I, M \cup {v}, u, "idle", v, x, c)
<1>1. LostOf(I, M \cup {v}, "idle", v) = LostOf(I, M, "record", v)
  BY Zenon DEF LostOf
<1>2. M \cup {v} # {} /\ u # "sync" /\ v # 0
  BY Zenon
<1>3. /\ "record" \notin {"idle", "save", "prune", "forget"}
      /\ "idle" \notin {"prune", "forget"}
  OBVIOUS
<1>. QED BY <1>1, <1>2, <1>3, Zenon DEF Recoverable

(* A set of versions has an oldest one.                                    *)
LEMMA LeastVersion ==
  ASSUME NEW I, I \subseteq Nat, I # {}
  PROVE  \E m \in I : \A w \in I : m <= w
<1>1. PICK m \in I : \A w \in I : <<w, m>> \notin OpToRel(<, Nat)
  BY NatLessThanWellFounded, WFMin, Zenon
<1>2. ASSUME NEW w \in I PROVE m <= w
  <2>1. m \in Nat /\ w \in Nat
    OBVIOUS
  <2>2. ~(w < m)
    BY <1>1, <2>1, Zenon DEF OpToRel
  <2>. QED BY <2>1, <2>2
<1>. QED BY <1>2

(* A node stops: a crash costs the metadata of one version at most.        *)
LEMMA StoppedNode ==
  ASSUME NEW I, NEW M, NEW u, NEW ph, NEW v, NEW x, NEW c \in Nat,
         Recoverable(I, M, u, ph, v, x, c), NEW d \in Nat,
         d = c + 1 \/ (d = c /\ ph = "idle")
  PROVE  Recoverable(I, M, "off", "idle", 0, 0, d)
<1>1. /\ IsFiniteSet(I) /\ Cardinality(LostOf(I, M, ph, v)) <= c
  BY Zenon DEF Recoverable
<1>2. Cardinality(LostOf(I, M, "idle", 0)) <= d
  <2>1. CASE ph = "idle"
    <3>1. LostOf(I, M, "idle", 0) = LostOf(I, M, ph, v)
      BY <2>1, Zenon DEF LostOf
    <3>2. Cardinality(LostOf(I, M, ph, v)) \in Nat
      BY <1>1, LostFinite, Zenon
    <3>. QED BY <1>1, <3>1, <3>2
  <2>2. CASE d = c + 1
    <3> DEFINE L == LostOf(I, M, ph, v)
               K == LostOf(I, M, "idle", 0)
    <3>1. K \subseteq L \cup {v}
      BY Zenon DEF LostOf
    <3>2. IsFiniteSet(L) /\ Cardinality(L) \in Nat
      BY <1>1, LostFinite, Zenon
    <3> HIDE DEF K, L
    <3>3. /\ IsFiniteSet(L \cup {v})
          /\ Cardinality(L \cup {v}) = IF v \in L THEN Cardinality(L) ELSE Cardinality(L) + 1
      BY <3>2, FS_AddElement, Zenon
    <3>4. /\ Cardinality(K) <= Cardinality(L \cup {v}) /\ Cardinality(K) \in Nat
      BY <3>1, <3>3, FS_Subset, FS_CardinalityType, Zenon
    <3>5. Cardinality(L) <= c
      BY <1>1, Zenon DEF L
    <3>6. Cardinality(K) <= d
      BY <2>2, <3>2, <3>3, <3>4, <3>5
    <3>. QED BY <3>6, Zenon DEF K
  <2>. QED BY <2>1, <2>2, SMTT(30)
<1>3. "off" \notin {"on", "waiting", "sync"} /\ "idle" \notin {"prune", "forget"}
  OBVIOUS
<1>. QED BY <1>2, <1>3, Zenon DEF Recoverable

(* StartEmpty: there is no version, or the first one was not recorded.     *)
LEMMA StartedEmpty ==
  ASSUME NEW I, NEW M, NEW u, NEW x, NEW c \in Nat, c + 2 <= KeepRecent,
         Recoverable(I, M, u, "idle", 0, x, c), M = {}, NEW t \in {"sync", "on"}
  PROVE  Recoverable(I, M, t, "idle", 0, x, c)
<1>1. IsFiniteSet(I) /\ I \subseteq {1}
  BY Zenon DEF Recoverable
<1>2. Cardinality(I) <= KeepRecent
  <2>1. IsFiniteSet({1}) /\ Cardinality({1}) = 1
    BY FS_Singleton, Zenon
  <2>2. Cardinality(I) <= 1 /\ Cardinality(I) \in Nat
    <3>1. Cardinality(I) <= Cardinality({1}) /\ Cardinality(I) \in Nat
      BY <1>1, <2>1, FS_Subset, FS_CardinalityType, Zenon
    <3>. QED BY <2>1, <3>1
  <2>. QED BY <2>2, SnapshotAssumption
<1>3. ~(0 > 0)
  OBVIOUS
<1>. QED BY <1>1, <1>2, <1>3, Zenon DEF Recoverable

(* AddSnapshot: the version a node fetched is its newest.                  *)
LEMMA SyncedNode ==
  ASSUME NEW I, NEW M, NEW x, NEW c \in Nat, c + 2 <= KeepRecent,
         Recoverable(I, M, "sync", "idle", 0, x, c), NEW v \in Nat \ {0}
  PROVE  Recoverable(I \cup {v}, M \cup {v}, "on", "idle", v, x, c)
<1> USE SnapshotAssumption
<1>1. /\ IsFiniteSet(I) /\ I \subseteq {1} /\ I \subseteq Nat \ {0}
      /\ Cardinality(LostOf(I, M, "idle", 0)) <= c
  BY Zenon DEF Recoverable
<1>2. Cardinality(I) <= 1 /\ Cardinality(I) \in Nat
  <2>1. IsFiniteSet({1}) /\ Cardinality({1}) = 1
    BY FS_Singleton, Zenon
  <2>2. Cardinality(I) <= Cardinality({1}) /\ Cardinality(I) \in Nat
    BY <1>1, <2>1, FS_Subset, FS_CardinalityType, Zenon
  <2>. QED BY <2>1, <2>2
<1>3. /\ IsFiniteSet(I \cup {v})
      /\ Cardinality(I \cup {v}) = IF v \in I THEN Cardinality(I) ELSE Cardinality(I) + 1
  BY <1>1, FS_AddElement, Zenon
<1>4. Cardinality(I \cup {v}) <= KeepRecent /\ Cardinality(I \cup {v}) <= KeepRecent + 1
  BY <1>2, <1>3
<1>5. Cardinality(LostOf(I \cup {v}, M \cup {v}, "idle", v)) <= c
  <2>1. LostOf(I \cup {v}, M \cup {v}, "idle", v) \subseteq LostOf(I, M, "idle", 0)
    BY Zenon DEF LostOf
  <2>2. /\ Cardinality(LostOf(I \cup {v}, M \cup {v}, "idle", v)) \in Nat
        /\ Cardinality(LostOf(I, M, "idle", 0)) \in Nat
        /\ Cardinality(LostOf(I \cup {v}, M \cup {v}, "idle", v))
             <= Cardinality(LostOf(I, M, "idle", 0))
    BY <1>1, <2>1, LostFinite, Zenon
  <2>. QED BY <1>1, <2>2
<1>6. v \in I \cup {v} /\ (\A w \in I \cup {v} : w <= v) /\ I \cup {v} \subseteq Nat \ {0}
  BY <1>1
<1>7. M \cup {v} # {} /\ v # 0 /\ "on" # "sync" /\ "idle" \notin {"prune", "forget"}
  BY Zenon
<1>. QED BY <1>3, <1>4, <1>5, <1>6, <1>7, Zenon DEF Recoverable

(* Execute: a block may begin a snapshot, or the wait for an upgrade.      *)
LEMMA ExecutedBlock ==
  ASSUME NEW I, NEW M, NEW ph, NEW v, NEW x, NEW c, Recoverable(I, M, "on", ph, v, x, c),
         NEW t \in {"on", "waiting"}, NEW q, q = ph \/ (ph = "idle" /\ q = "save")
  PROVE  Recoverable(I, M, t, q, v, x, c)
<1>1. LostOf(I, M, q, v) = LostOf(I, M, ph, v)
  BY Zenon DEF LostOf
<1>2. t # "sync" /\ "idle" # "prune" /\ "idle" # "save" /\ "save" # "prune" /\ "save" # "forget"
  OBVIOUS
<1>. QED BY <1>1, <1>2, Zenon DEF Recoverable

(* A step that is not a crash.                                             *)
LEMMA NoFewer ==
  ASSUME NEW c \in Nat
  PROVE  c <= c
OBVIOUS

(* A crash of another node.                                                *)
LEMMA MoreCrashes ==
  ASSUME NEW I, NEW M, NEW u, NEW ph, NEW v, NEW x, NEW c \in Nat, NEW d \in Nat,
         Recoverable(I, M, u, ph, v, x, c), c <= d
  PROVE  Recoverable(I, M, u, ph, v, x, d)
<1>1. IsFiniteSet(I) /\ Cardinality(LostOf(I, M, ph, v)) <= c
  BY Zenon DEF Recoverable
<1>2. Cardinality(LostOf(I, M, ph, v)) \in Nat
  BY <1>1, LostFinite, Zenon
<1>3. Cardinality(LostOf(I, M, ph, v)) <= d
  BY <1>1, <1>2
<1>. QED BY <1>3, Zenon DEF Recoverable

(* The newest versions: all of them, or all but the oldest.                *)
LEMMA NewestVersions ==
  ASSUME NEW I, IsFiniteSet(I), I \subseteq Nat, Cardinality(I) <= KeepRecent + 1
  PROVE  /\ IsFiniteSet(Newest(I)) /\ Cardinality(Newest(I)) <= KeepRecent
         /\ Newest(I) = I \/ Cardinality(Newest(I)) = KeepRecent
<1> USE SnapshotAssumption
<1>1. /\ IsFiniteSet(Newest(I)) /\ Cardinality(Newest(I)) \in Nat /\ Cardinality(I) \in Nat
  <2>1. Newest(I) \subseteq I
    BY Zenon DEF Newest
  <2>. QED BY <2>1, FS_Subset, FS_CardinalityType, Zenon
<1>2. CASE I = {}
  <2>1. Newest(I) = I
    BY <1>2, Zenon DEF Newest
  <2>2. Cardinality(I) = 0
    BY <1>2, FS_EmptySet, Zenon
  <2>. QED BY <1>1, <2>1, <2>2
<1>3. CASE I # {}
  <2>1. PICK m \in I : \A w \in I : m <= w
    BY <1>3, LeastVersion, Zenon
  <2>2. /\ IsFiniteSet(I \ {m}) /\ Cardinality(I \ {m}) = Cardinality(I) - 1
    BY FS_RemoveElement, Zenon
  <2>3. ASSUME NEW v \in I, v # m PROVE v \in Newest(I)
    <3> DEFINE above == {w \in I : w > v}
    <3>1. above \subseteq (I \ {m}) \ {v}
      BY <2>1, <2>3
    <3>2. /\ IsFiniteSet((I \ {m}) \ {v})
          /\ Cardinality((I \ {m}) \ {v}) = Cardinality(I \ {m}) - 1
      BY <2>2, <2>3, FS_RemoveElement, Zenon
    <3>3. Cardinality(above) <= Cardinality((I \ {m}) \ {v}) /\ Cardinality(above) \in Nat
      BY <3>1, <3>2, FS_Subset, FS_CardinalityType, Zenon
    <3> HIDE DEF above
    <3>4. Cardinality(above) < KeepRecent
      BY <1>1, <2>2, <3>2, <3>3
    <3>. QED BY <3>4, Zenon DEF above, Newest
  <2>4. {w \in I : w > m} = I \ {m}
    <3>1. \A w \in I : w > m <=> w # m
      BY <2>1
    <3>. QED BY <3>1, Zenon
  <2>5. m \in Newest(I) <=> Cardinality(I \ {m}) < KeepRecent
    BY <2>4, Zenon DEF Newest
  <2>6. CASE Cardinality(I) <= KeepRecent
    <3>1. m \in Newest(I)
      BY <1>1, <2>2, <2>5, <2>6
    <3>2. Newest(I) = I
      BY <2>3, <3>1, Zenon DEF Newest
    <3>. QED BY <1>1, <2>6, <3>2, Zenon
  <2>7. CASE Cardinality(I) = KeepRecent + 1
    <3>1. m \notin Newest(I) /\ Cardinality(I \ {m}) = KeepRecent
      BY <1>1, <2>2, <2>5, <2>7
    <3>2. Newest(I) = I \ {m}
      BY <2>3, <3>1, Zenon DEF Newest
    <3>3. Cardinality(Newest(I)) = KeepRecent
      BY <3>1, <3>2, Zenon
    <3>. QED BY <1>1, <3>3
  <2>. QED BY <1>1, <2>6, <2>7
<1>. QED BY <1>2, <1>3, Zenon

(* StartFrom: old versions, and for a chosen height newer ones, are        *)
(* removed; metadata of the versions that stay remain.                     *)
LEMMA StartedFrom ==
  ASSUME NEW I, NEW M, NEW u, NEW x, NEW c \in Nat, c + 2 <= KeepRecent,
         Recoverable(I, M, u, "idle", 0, x, c), M # {}, M \subseteq Nat,
         NEW J, J \subseteq Newest(I), NEW v \in J, \A w \in J : w <= v,
         NEW Old, Old = {y \in M : /\ \E w \in I : w <= y
                                   /\ \A w \in Newest(I) : y < w},
         J = Newest(I) \/ v \in M
  PROVE  Recoverable(J, M \ Old, "on", "idle", v, x, c)
<1> USE SnapshotAssumption
<1>1. /\ IsFiniteSet(I) /\ I \subseteq Nat \ {0} /\ I \subseteq Nat
      /\ Cardinality(I) <= KeepRecent + 1
      /\ Cardinality(LostOf(I, M, "idle", 0)) <= c
  BY Zenon DEF Recoverable
<1>2. /\ IsFiniteSet(Newest(I)) /\ Cardinality(Newest(I)) <= KeepRecent
      /\ Newest(I) = I \/ Cardinality(Newest(I)) = KeepRecent
  BY <1>1, NewestVersions, Zenon
<1>3. Newest(I) \subseteq I
  BY Zenon DEF Newest
<1>4. /\ IsFiniteSet(J) /\ Cardinality(J) <= Cardinality(Newest(I))
      /\ Cardinality(J) \in Nat /\ Cardinality(Newest(I)) \in Nat
  BY <1>2, FS_Subset, FS_CardinalityType, Zenon
<1>5. Cardinality(J) <= KeepRecent /\ Cardinality(J) <= KeepRecent + 1
  BY <1>2, <1>4
<1>6. Newest(I) \cap Old = {}
  <2>1. ASSUME NEW w \in Newest(I) PROVE ~(w < w)
    <3>1. w \in Nat
      BY <1>1, <1>3, Zenon
    <3>. QED BY <3>1
  <2>. QED BY <2>1, Zenon
<1>7. /\ LostOf(J, M \ Old, "idle", v) \subseteq LostOf(I, M, "idle", 0)
      /\ LostOf(I, M, "idle", 0) = I \ M
  BY <1>3, <1>6, Zenon DEF LostOf
<1>8. Cardinality(LostOf(J, M \ Old, "idle", v)) <= c
  <2>1. /\ Cardinality(LostOf(J, M \ Old, "idle", v)) \in Nat
        /\ Cardinality(LostOf(I, M, "idle", 0)) \in Nat
        /\ Cardinality(LostOf(J, M \ Old, "idle", v)) <= Cardinality(LostOf(I, M, "idle", 0))
    BY <1>1, <1>7, LostFinite, Zenon
  <2>. QED BY <1>1, <2>1
<1>9. M \ Old # {}
  <2>1. CASE v \in M
    BY <1>6, <2>1, Zenon
  <2>2. CASE Newest(I) = I
    <3>1. Old = {}
      <4>1. \A y \in M : \A w \in I : w <= y /\ y < w => FALSE
        <5>1. SUFFICES ASSUME NEW y \in M, NEW w \in I, w <= y, y < w PROVE FALSE
          BY Zenon
        <5>. QED BY <1>1, <5>1
      <4>. QED BY <2>2, <4>1, Zenon
    <3>. QED BY <3>1, Zenon
  <2>3. CASE J = Newest(I) /\ Cardinality(Newest(I)) = KeepRecent
    <3>1. Cardinality(J) > c
      BY <1>4, <2>3
    <3>2. J \ M \subseteq LostOf(I, M, "idle", 0)
      BY <1>3, <1>7, Zenon
    <3>3. /\ Cardinality(J \ M) <= Cardinality(LostOf(I, M, "idle", 0))
          /\ Cardinality(J \ M) \in Nat /\ Cardinality(LostOf(I, M, "idle", 0)) \in Nat
      BY <1>1, <3>2, LostFinite, Zenon
    <3>4. Cardinality(J \ M) <= c
      BY <1>1, <3>3
    <3>5. J \cap M # {}
      BY <1>4, <3>1, <3>4, SomeRecorded, Zenon
    <3>. QED BY <1>6, <3>5, Zenon
  <2>. QED BY <1>2, <2>1, <2>2, <2>3, Zenon
<1>10. J \subseteq Nat \ {0} /\ v # 0 /\ "on" # "sync" /\ "idle" \notin {"prune", "forget"}
  BY <1>1, <1>3, Zenon
<1>. QED BY <1>4, <1>5, <1>8, <1>9, <1>10, Zenon DEF Recoverable

-----------------------------------------------------------------------------
(* What every node can restart from, step by step.                         *)

Counts == used \in [changes : Nat, upgrades : Nat, crashes : Nat, rewinds : Nat, bad : Nat]

Recent(n) ==
  Recoverable(DOMAIN inner[n], DOMAIN meta[n], up[n], phase[n], ver[n], victim[n], used.crashes)

(* As long as crashes leave two of the versions that are kept.             *)
RecentInv ==
  /\ Counts /\ DOMAIN victim = Node
  /\ used.crashes + 2 <= KeepRecent => \A n \in Node : Recent(n)

Ready ==
  /\ IInv /\ Counts /\ DOMAIN victim = Node /\ used.crashes \in Nat
  /\ used.crashes + 2 <= KeepRecent /\ \A m \in Node : Recent(m)

(* The version of a snapshot is positive.                                  *)
LEMMA TakenIsPositive ==
  ASSUME IInv, NEW h \in 1 .. height, ledger[h].taken
  PROVE  ledger[h].ver \in Nat \ {0}
<1>1. height \in Nat /\ h - 1 \in 0 .. height /\ h - 1 < height /\ (h - 1) + 1 = h /\ h \in 0 .. height
  BY DEF IInv, TypeOK
<1>2. ledger[h - 1] \in Block
  BY <1>1, Zenon DEF IInv, TypeOK
<1>3. ledger[h] = AfterBlock(ledger[h - 1], ledger[h].set, ledger[h].upgrade)
  <2>1. ledger[(h - 1) + 1] = AfterBlock(ledger[h - 1], ledger[(h - 1) + 1].set,
                                         ledger[(h - 1) + 1].upgrade)
    BY <1>1, Zenon DEF IInv, LedgerInv
  <2>. QED BY <1>1, <2>1, Zenon
<1>4. ASSUME NEW b, NEW l, NEW s, NEW g, b = AfterBlock(l, s, g), b.taken
      PROVE  b.ver = l.ver + 1
  BY <1>4 DEF AfterBlock
<1>5. ledger[h].ver = ledger[h - 1].ver + 1
  <2>1. PICK s, g : ledger[h] = AfterBlock(ledger[h - 1], s, g)
    BY <1>3, Zenon
  <2>. QED BY <2>1, <1>4
<1>6. ledger[h - 1].ver \in Nat
  BY <1>2, Zenon DEF Block
<1>. QED BY <1>5, <1>6, SMTT(30)

(* Every stage of a save is told apart from an idle saver.                 *)
LEMMA StagesAreBusy ==
  "save" # "idle" /\ "prune" # "idle" /\ "forget" # "idle" /\ "record" # "idle"
BY Zenon

(* A node that saves a version runs, and the version is positive once it   *)
(* is written.                                                             *)
LEMMA SavingNode ==
  ASSUME IInv, NEW n \in Node, phase[n] # "idle"
  PROVE  /\ up[n] \in {"on", "waiting"} /\ ver[n] \in Nat
         /\ phase[n] \in {"prune", "forget", "record"} => ver[n] \in Nat \ {0}
<1>1. NodeInv(n) /\ Running(n) /\ ver[n] \in Nat
  BY Zenon DEF IInv, TypeOK, NodeInv
<1>2. ASSUME phase[n] \in {"prune", "forget", "record"} PROVE ver[n] \in Nat \ {0}
  <2>1. Agreed(ver[n], work[n])
    BY <1>1, <1>2, Zenon DEF NodeInv
  <2>. QED BY <2>1, TakenIsPositive, Zenon DEF Agreed
<1>. QED BY <1>1, <1>2, Zenon DEF Running

(* Bounds are used up, crash by crash.                                     *)
LEMMA CountsStep ==
  ASSUME Counts, [Next]_vars
  PROVE  Counts' /\ used.crashes \in Nat /\ used'.crashes \in Nat /\ used.crashes <= used'.crashes
<1>1. used.crashes \in Nat /\ used.changes \in Nat /\ used.upgrades \in Nat /\ used.rewinds \in Nat
      /\ used.bad \in Nat
  BY DEF Counts
<1>2. \/ used' = used
      \/ \E i, j \in Nat : used' = [used EXCEPT !.changes = i, !.upgrades = j]
      \/ used' = [used EXCEPT !.crashes = @ + 1]
      \/ used' = [used EXCEPT !.rewinds = @ + 1]
      \/ used' = [used EXCEPT !.bad = @ + 1]
  <2>1. ASSUME NEW set, NEW upgrade, Propose(set, upgrade)
        PROVE  \E i, j \in Nat : used' = [used EXCEPT !.changes = i, !.upgrades = j]
    <3> DEFINE i == IF set # 0 THEN used.changes + 1 ELSE used.changes
               j == IF upgrade THEN used.upgrades + 1 ELSE used.upgrades
    <3>1. used' = [used EXCEPT !.changes = i, !.upgrades = j]
      BY <2>1, Zenon DEF Propose
    <3>2. i \in Nat /\ j \in Nat
      BY <1>1
    <3>. QED BY <3>1, <3>2, Zenon
  <2>2. ASSUME NEW n \in Node, NEW start, StartFrom(n, start)
        PROVE  used' = used \/ used' = [used EXCEPT !.rewinds = @ + 1]
    <3>1. used' = [used EXCEPT !.rewinds = IF start # 0 THEN @ + 1 ELSE @]
      BY <2>2, Zenon DEF StartFrom
    <3>. QED BY <3>1 DEF Counts
  <2>3. ASSUME NEW n \in Node, Execute(n) \/ SaveVersion(n) \/ Replaced(n) \/ StartEmpty(n) \/ SyncStep(n)
        PROVE  used' = used
    BY <2>3, Zenon DEF Execute, SaveVersion, SaveTree, DeleteVersion, DeleteMetadata, SaveMetadata,
       Replaced, StartEmpty, SyncStep, ReceiveSnapshot, ReceiveChunk, ReceiveLastChunk
  <2>4. CASE UNCHANGED vars
    BY <2>4, Zenon DEF vars
  <2>. QED BY <2>1, <2>2, <2>3, <2>4, Zenon DEF Next, Crash, ReceiveBadChunk
<1>3. CASE used' = used
  BY <1>1, <1>3 DEF Counts
<1>4. CASE \E i, j \in Nat : used' = [used EXCEPT !.changes = i, !.upgrades = j]
  <2>1. PICK i, j \in Nat : used' = [used EXCEPT !.changes = i, !.upgrades = j]
    BY <1>4, Zenon
  <2>2. used' = [changes |-> i, upgrades |-> j, crashes |-> used.crashes,
                 rewinds |-> used.rewinds, bad |-> used.bad]
    BY <2>1, Zenon DEF Counts
  <2>3. used'.crashes = used.crashes
    BY <2>2
  <2>4. Counts'
    BY <1>1, <2>2, Zenon DEF Counts
  <2>. QED BY <1>1, <2>3, <2>4
<1>5. CASE used' = [used EXCEPT !.crashes = @ + 1]
  BY <1>1, <1>5 DEF Counts
<1>6. CASE used' = [used EXCEPT !.rewinds = @ + 1] \/ used' = [used EXCEPT !.bad = @ + 1]
  BY <1>1, <1>6 DEF Counts
<1>. QED BY <1>2, <1>3, <1>4, <1>5, <1>6, Zenon

(* A step of one node: the others keep what they have.                     *)
LEMMA OthersKeep ==
  ASSUME Ready, used'.crashes \in Nat, used.crashes <= used'.crashes, NEW n,
         \A m \in Node : m # n =>
           /\ inner'[m] = inner[m] /\ meta'[m] = meta[m] /\ up'[m] = up[m]
           /\ phase'[m] = phase[m] /\ ver'[m] = ver[m] /\ victim'[m] = victim[m],
         n \in Node => Recent(n)'
  PROVE  \A m \in Node : Recent(m)'
<1> SUFFICES ASSUME NEW m \in Node, m # n PROVE Recent(m)'
  BY Zenon
<1>1. Recoverable(DOMAIN inner[m], DOMAIN meta[m], up[m], phase[m], ver[m], victim[m], used.crashes)
  BY Zenon DEF Ready, Recent
<1>2. Recoverable(DOMAIN inner[m], DOMAIN meta[m], up[m], phase[m], ver[m], victim[m], used'.crashes)
  BY <1>1, MoreCrashes, Zenon DEF Ready
<1>. QED BY <1>2, Zenon DEF Recent

(* The domains of a database that gains or loses entries.                  *)
LEMMA DomainWith ==
  ASSUME NEW f, NEW v, NEW x
  PROVE  DOMAIN With(f, v, x) = DOMAIN f \cup {v}
BY Zenon DEF With

LEMMA DomainOnly ==
  ASSUME NEW f, NEW S
  PROVE  DOMAIN Only(f, S) = DOMAIN f \cap S
BY Zenon DEF Only

(* SaveVersion, write by write.                                            *)
LEMMA SaveKeepsRecent ==
  ASSUME Ready, NEW n \in Node, SaveVersion(n), used' = used
  PROVE  \A m \in Node : Recent(m)'
<1> DEFINE I == DOMAIN inner[n]
           M == DOMAIN meta[n]
           c == used.crashes
<1>1. /\ DOMAIN inner = Node /\ DOMAIN meta = Node /\ DOMAIN up = Node /\ DOMAIN phase = Node
      /\ DOMAIN ver = Node /\ DOMAIN victim = Node /\ IInv /\ c \in Nat /\ c + 2 <= KeepRecent
      /\ Recoverable(I, M, up[n], phase[n], ver[n], victim[n], c)
  BY Zenon DEF Ready, IInv, TypeOK, Recent
<1>2. UNCHANGED up /\ c <= c
  <2>1. UNCHANGED up
    BY Zenon DEF SaveVersion, SaveTree, DeleteVersion, DeleteMetadata, SaveMetadata
  <2>. QED BY <1>1, <2>1, NoFewer, Zenon
<1>3. CASE SaveTree(n)
  <2>1. /\ phase[n] = "save" /\ UNCHANGED <<meta, victim>>
        /\ inner' = [inner EXCEPT ![n] = With(inner[n], ver[n] + 1, work[n])]
        /\ ver' = [ver EXCEPT ![n] = ver[n] + 1]
        /\ phase' = [phase EXCEPT ![n] = IF TooMany(DOMAIN inner'[n]) THEN "prune" ELSE "record"]
    BY <1>3, Zenon DEF SaveTree
  <2>2. /\ inner'[n] = With(inner[n], ver[n] + 1, work[n]) /\ ver'[n] = ver[n] + 1
        /\ phase'[n] = IF TooMany(DOMAIN inner'[n]) THEN "prune" ELSE "record"
        /\ \A m \in Node : m # n => inner'[m] = inner[m] /\ ver'[m] = ver[m] /\ phase'[m] = phase[m]
    BY <1>1, <2>1, Zenon
  <2>3. DOMAIN inner'[n] = I \cup {ver[n] + 1}
    <3>1. DOMAIN With(inner[n], ver[n] + 1, work[n]) = DOMAIN inner[n] \cup {ver[n] + 1}
      BY DomainWith, Zenon
    <3>. QED BY <2>2, <3>1, Zenon
  <2>4. up[n] \in {"on", "waiting"} /\ ver[n] \in Nat
    BY <1>1, <2>1, SavingNode, StagesAreBusy, ZenonT(30)
  <2>5. Recoverable(I, M, up[n], "save", ver[n], victim[n], c)
    BY <1>1, <2>1, Zenon
  <2>6. Recoverable(DOMAIN inner'[n], M, up[n], phase'[n], ver[n] + 1, victim[n], c)
    <3> DEFINE J == DOMAIN inner'[n]
               q == phase'[n]
    <3>1. J = I \cup {ver[n] + 1} /\ q = IF TooMany(J) THEN "prune" ELSE "record"
      BY <2>2, <2>3, Zenon
    <3>2. c \in Nat /\ c + 2 <= KeepRecent
      BY <1>1, Zenon
    <3> HIDE DEF I, M, c, J, q
    <3>3. Recoverable(J, M, up[n], q, ver[n] + 1, victim[n], c)
      BY <2>4, <2>5, <3>1, <3>2, SavedTree, Zenon
    <3>. QED BY <3>3, Zenon DEF J, q
  <2>7. Recent(n)'
    BY <1>2, <2>1, <2>2, <2>6, Zenon DEF Recent
  <2>. QED BY <1>1, <1>2, <2>1, <2>2, <2>7, OthersKeep, Zenon
<1>4. CASE DeleteVersion(n)
  <2>1. PICK v \in I : /\ \A w \in I : v <= w
                       /\ victim' = [victim EXCEPT ![n] = v]
                       /\ inner' = [inner EXCEPT ![n] = Only(inner[n], I \ {v})]
    BY <1>4, Zenon DEF DeleteVersion
  <2>2. /\ phase[n] = "prune" /\ UNCHANGED <<meta, ver>>
        /\ phase' = [phase EXCEPT ![n] = "forget"]
    BY <1>4, Zenon DEF DeleteVersion
  <2>3. /\ inner'[n] = Only(inner[n], I \ {v}) /\ victim'[n] = v /\ phase'[n] = "forget"
        /\ \A m \in Node : m # n =>
             inner'[m] = inner[m] /\ victim'[m] = victim[m] /\ phase'[m] = phase[m]
    BY <1>1, <2>1, <2>2, Zenon
  <2>4. DOMAIN inner'[n] = I \ {v}
    <3>1. DOMAIN inner'[n] = I \cap (I \ {v})
      BY <2>3, DomainOnly, Zenon
    <3>. QED BY <3>1, Zenon
  <2>5. up[n] \in {"on", "waiting"} /\ ver[n] \in Nat \ {0}
    BY <1>1, <2>2, SavingNode, StagesAreBusy, ZenonT(30)
  <2>6. Recoverable(I, M, up[n], "prune", ver[n], victim[n], c)
    BY <1>1, <2>2, Zenon
  <2>7. Recoverable(I \ {v}, M, up[n], "forget", ver[n], v, c)
    BY <1>1, <2>1, <2>5, <2>6, PrunedTree, Zenon
  <2>8. Recent(n)'
    BY <1>2, <2>2, <2>3, <2>4, <2>7, Zenon DEF Recent
  <2>. QED BY <1>1, <1>2, <2>2, <2>3, <2>8, OthersKeep, Zenon
<1>5. CASE DeleteMetadata(n)
  <2>1. /\ phase[n] = "forget" /\ UNCHANGED <<inner, ver>>
        /\ meta' = [meta EXCEPT ![n] = Only(meta[n], M \ {victim[n]})]
        /\ victim' = [victim EXCEPT ![n] = 0]
        /\ phase' = [phase EXCEPT ![n] = "record"]
    BY <1>5, Zenon DEF DeleteMetadata
  <2>2. /\ meta'[n] = Only(meta[n], M \ {victim[n]}) /\ victim'[n] = 0 /\ phase'[n] = "record"
        /\ \A m \in Node : m # n =>
             meta'[m] = meta[m] /\ victim'[m] = victim[m] /\ phase'[m] = phase[m]
    BY <1>1, <2>1, Zenon
  <2>3. DOMAIN meta'[n] = M \ {victim[n]}
    <3>1. DOMAIN meta'[n] = M \cap (M \ {victim[n]})
      BY <2>2, DomainOnly, Zenon
    <3>. QED BY <3>1, Zenon
  <2>4. up[n] \in {"on", "waiting"} /\ ver[n] \in Nat \ {0}
    BY <1>1, <2>1, SavingNode, StagesAreBusy, ZenonT(30)
  <2>5. Recoverable(I, M, up[n], "forget", ver[n], victim[n], c)
    BY <1>1, <2>1, Zenon
  <2>6. Recoverable(I, M \ {victim[n]}, up[n], "record", ver[n], 0, c)
    <3>1. c \in Nat /\ c + 2 <= KeepRecent
      BY <1>1, Zenon
    <3> HIDE DEF I, M, c
    <3>. QED BY <2>4, <2>5, <3>1, ForgottenVictim, ZenonT(30)
  <2>7. Recent(n)'
    BY <1>2, <2>1, <2>2, <2>3, <2>6, Zenon DEF Recent
  <2>. QED BY <1>1, <1>2, <2>1, <2>2, <2>7, OthersKeep, Zenon
<1>6. CASE SaveMetadata(n)
  <2>1. /\ phase[n] = "record" /\ UNCHANGED <<inner, ver, victim>>
        /\ meta' = [meta EXCEPT ![n] = With(meta[n], ver[n], work[n].height)]
        /\ phase' = [phase EXCEPT ![n] = "idle"]
    BY <1>6, Zenon DEF SaveMetadata, Recorded
  <2>2. /\ meta'[n] = With(meta[n], ver[n], work[n].height) /\ phase'[n] = "idle"
        /\ \A m \in Node : m # n => meta'[m] = meta[m] /\ phase'[m] = phase[m]
    BY <1>1, <2>1, Zenon
  <2>3. DOMAIN meta'[n] = M \cup {ver[n]}
    <3>1. DOMAIN With(meta[n], ver[n], work[n].height) = DOMAIN meta[n] \cup {ver[n]}
      BY DomainWith, Zenon
    <3>. QED BY <2>2, <3>1, Zenon
  <2>4. up[n] \in {"on", "waiting"} /\ ver[n] \in Nat \ {0}
    BY <1>1, <2>1, SavingNode, StagesAreBusy, ZenonT(30)
  <2>5. Recoverable(I, M, up[n], "record", ver[n], victim[n], c)
    BY <1>1, <2>1, Zenon
  <2>6. Recoverable(I, M \cup {ver[n]}, up[n], "idle", ver[n], victim[n], c)
    BY <1>1, <2>4, <2>5, RecordedVersion, ZenonT(30)
  <2>7. Recent(n)'
    BY <1>2, <2>1, <2>2, <2>3, <2>6, Zenon DEF Recent
  <2>. QED BY <1>1, <1>2, <2>1, <2>2, <2>7, OthersKeep, Zenon
<1>. QED BY <1>3, <1>4, <1>5, <1>6, Zenon DEF SaveVersion

(* A counter that stays or goes up by one stays a number and never falls.  *)
LEMMA SameOrNext ==
  ASSUME NEW a \in Nat, NEW b, b = a + 1 \/ b = a
  PROVE  b \in Nat /\ a <= b
OBVIOUS

(* Crash and Replaced.                                                     *)
LEMMA StopKeepsRecent ==
  ASSUME Ready, NEW n \in Node, Crash(n) \/ Replaced(n)
  PROVE  \A m \in Node : Recent(m)'
<1>1. /\ DOMAIN up = Node /\ DOMAIN phase = Node /\ DOMAIN ver = Node /\ DOMAIN victim = Node
      /\ used.crashes \in Nat /\ Counts
      /\ Recoverable(DOMAIN inner[n], DOMAIN meta[n], up[n], phase[n], ver[n], victim[n], used.crashes)
  BY Zenon DEF Ready, IInv, TypeOK, Recent
<1>2. Stop(n) /\ UNCHANGED disk
  BY Zenon DEF Crash, Replaced
<1>3. /\ up'[n] = "off" /\ phase'[n] = "idle" /\ ver'[n] = 0 /\ victim'[n] = 0
      /\ inner' = inner /\ meta' = meta
      /\ \A m \in Node : m # n => /\ up'[m] = up[m] /\ phase'[m] = phase[m] /\ ver'[m] = ver[m]
                                  /\ victim'[m] = victim[m]
  BY <1>1, <1>2, Zenon DEF Stop, disk
<1>4. \/ used'.crashes = used.crashes + 1
      \/ used'.crashes = used.crashes /\ phase[n] = "idle"
  <2>1. CASE Crash(n)
    <3>1. used' = [used EXCEPT !.crashes = @ + 1]
      BY <2>1, Zenon DEF Crash
    <3>. QED BY <1>1, <3>1 DEF Counts
  <2>2. CASE Replaced(n)
    BY <2>2, ZenonT(30) DEF Replaced, LockFree
  <2>. QED BY <2>1, <2>2, Zenon
<1>5. used'.crashes \in Nat /\ used.crashes <= used'.crashes
  BY <1>1, <1>4, SameOrNext, Zenon
<1>6. Recoverable(DOMAIN inner[n], DOMAIN meta[n], "off", "idle", 0, 0, used'.crashes)
  BY <1>1, <1>4, <1>5, StoppedNode, Zenon
<1>7. Recent(n)'
  BY <1>3, <1>6, Zenon DEF Recent
<1>. QED BY <1>3, <1>5, <1>7, OthersKeep, Zenon

(* StartFrom: the node loads a version, and prunes both databases.         *)
LEMMA StartFromKeepsRecent ==
  ASSUME Ready, NEW n \in Node, NEW start, StartFrom(n, start),
         used'.crashes = used.crashes
  PROVE  \A m \in Node : Recent(m)'
<1> DEFINE I   == DOMAIN inner[n]
           M   == DOMAIN meta[n]
           c   == used.crashes
           Old == OldMetadata(n)
<1>1. /\ DOMAIN inner = Node /\ DOMAIN meta = Node /\ DOMAIN up = Node /\ DOMAIN phase = Node
      /\ DOMAIN ver = Node /\ DOMAIN victim = Node /\ IInv /\ c \in Nat /\ c + 2 <= KeepRecent
      /\ Recoverable(I, M, up[n], phase[n], ver[n], victim[n], c)
  BY Zenon DEF Ready, IInv, TypeOK, Recent
<1>2. PICK v \in I :
        /\ Loadable(n, start, v)
        /\ Restored(n, v, inner[n][v])
        /\ inner' = [inner EXCEPT ![n] = Only(inner[n], {w \in Newest(I) : start # 0 => w <= v})]
  BY Zenon DEF StartFrom
<1>3. /\ up[n] = "off" /\ M # {} /\ UNCHANGED <<phase, victim>>
      /\ meta' = [meta EXCEPT ![n] = Only(meta[n], M \ Old)]
  BY Zenon DEF StartFrom
<1>4. phase[n] = "idle" /\ ver[n] = 0
  BY <1>1, <1>3, Zenon DEF IInv, NodeInv, Running
<1>5. /\ up'[n] = "on" /\ ver'[n] = v /\ meta'[n] = Only(meta[n], M \ Old)
      /\ inner'[n] = Only(inner[n], {w \in Newest(I) : start # 0 => w <= v})
      /\ \A m \in Node : m # n =>
           inner'[m] = inner[m] /\ meta'[m] = meta[m] /\ up'[m] = up[m] /\ ver'[m] = ver[m]
  BY <1>1, <1>2, <1>3, Zenon DEF Restored
<1> DEFINE J == {w \in Newest(I) : start # 0 => w <= v}
<1>6. DOMAIN inner'[n] = J /\ DOMAIN meta'[n] = M \ Old
  <2>1. DOMAIN inner'[n] = I \cap J /\ DOMAIN meta'[n] = M \cap (M \ Old)
    BY <1>5, DomainOnly, Zenon
  <2>2. J \subseteq I
    BY Zenon DEF Newest
  <2>. QED BY <2>1, <2>2, Zenon
<1>7. v \in J /\ J \subseteq Newest(I) /\ (\A w \in J : w <= v) /\ (J = Newest(I) \/ v \in M)
  <2>1. v \in Newest(I) /\ Newest(I) \subseteq I
    BY <1>2, Zenon DEF Loadable, Newest
  <2>2. CASE start = 0
    <3>1. \A w \in I : w <= v
      BY <1>2, <2>2, Zenon DEF Loadable
    <3>. QED BY <2>1, <2>2, <3>1, Zenon
  <2>3. CASE start # 0
    <3>1. v \in M
      BY <1>2, <2>3, Zenon DEF Loadable
    <3>2. v \in Nat
      BY <1>1, <2>1, Zenon DEF Recoverable
    <3>3. v <= v
      BY <3>2, NoFewer, Zenon
    <3>. QED BY <2>1, <2>3, <3>1, <3>3, Zenon
  <2>. QED BY <2>2, <2>3, Zenon
<1>8. M \subseteq Nat
  <2>1. \A w \in M : meta[n][w] \in 1 .. height /\ ledger[meta[n][w]].taken /\ ledger[meta[n][w]].ver = w
    BY <1>1, Zenon DEF IInv, DiskInv
  <2>2. ASSUME NEW w \in M PROVE w \in Nat \ {0}
    <3> DEFINE h == meta[n][w]
    <3>1. h \in 1 .. height /\ ledger[h].taken /\ ledger[h].ver = w
      BY <2>1, Zenon
    <3>2. IInv
      BY <1>1, Zenon
    <3> HIDE DEF h, M
    <3>3. ledger[h].ver \in Nat \ {0}
      BY <3>1, <3>2, TakenIsPositive, Zenon
    <3>. QED BY <3>1, <3>3, Zenon
  <2>. QED BY <2>2, Zenon
<1>9. Old = {y \in M : /\ \E w \in I : w <= y
                       /\ \A w \in Newest(I) : y < w}
  BY Zenon DEF OldMetadata
<1>10. Recoverable(I, M, up[n], "idle", 0, victim[n], c) /\ c \in Nat /\ c + 2 <= KeepRecent
  BY <1>1, <1>4, Zenon
<1>11. Recoverable(J, M \ Old, "on", "idle", v, victim[n], c)
  <2> HIDE DEF I, M, c, Old, J
  <2>. QED BY <1>3, <1>7, <1>8, <1>9, <1>10, StartedFrom, Zenon
<1>12. Recent(n)'
  <2> HIDE DEF J, Old
  <2>. QED BY <1>3, <1>4, <1>5, <1>6, <1>11, Zenon DEF Recent
<1>13. used'.crashes \in Nat /\ used.crashes <= used'.crashes
  BY <1>1, NoFewer, Zenon
<1>. QED BY <1>3, <1>5, <1>12, <1>13, OthersKeep, Zenon

(* Execute, StartEmpty and state sync.                                     *)
LEMMA OtherStepsKeepRecent ==
  ASSUME Ready, NEW n \in Node, used'.crashes = used.crashes,
         \/ Execute(n) \/ StartEmpty(n) \/ SyncStep(n)
         \/ \E p \in Node : ReceiveBadChunk(n, p)
  PROVE  \A m \in Node : Recent(m)'
<1> DEFINE I == DOMAIN inner[n]
           M == DOMAIN meta[n]
           c == used.crashes
<1>1. /\ DOMAIN inner = Node /\ DOMAIN meta = Node /\ DOMAIN up = Node /\ DOMAIN phase = Node
      /\ DOMAIN ver = Node /\ DOMAIN victim = Node /\ IInv /\ c \in Nat /\ c + 2 <= KeepRecent
      /\ Recoverable(I, M, up[n], phase[n], ver[n], victim[n], c)
  BY Zenon DEF Ready, IInv, TypeOK, Recent
<1>2. used'.crashes \in Nat /\ used.crashes <= used'.crashes
  BY <1>1, NoFewer, Zenon
<1>3. CASE UNCHANGED <<inner, meta, up, phase, ver, victim>>
  <2>1. Recent(n)'
    BY <1>1, <1>3, Zenon DEF Recent
  <2>. QED BY <1>2, <1>3, <2>1, OthersKeep, Zenon
<1>4. CASE Execute(n)
  <2>1. /\ up[n] = "on" /\ UNCHANGED <<inner, meta, ver, victim>>
        /\ \E t \in {"on", "waiting"} : up' = [up EXCEPT ![n] = t]
        /\ phase' = phase \/ (phase[n] = "idle" /\ phase' = [phase EXCEPT ![n] = "save"])
    BY <1>4, Zenon DEF Execute, snapshotNow, LockFree, disk
  <2>2. PICK t \in {"on", "waiting"} : up' = [up EXCEPT ![n] = t]
    BY <2>1, Zenon
  <2>3. UNCHANGED <<inner, meta, ver, victim>> /\ up'[n] = t
    BY <1>1, <2>1, <2>2, Zenon
  <2>4. phase'[n] = phase[n] \/ (phase[n] = "idle" /\ phase'[n] = "save")
    BY <1>1, <2>1, Zenon
  <2>5. \A m \in Node : m # n => up'[m] = up[m] /\ phase'[m] = phase[m]
    BY <1>1, <2>1, <2>2, Zenon
  <2>6. Recoverable(I, M, "on", phase[n], ver[n], victim[n], c)
    BY <1>1, <2>1, Zenon
  <2>7. Recoverable(I, M, t, phase'[n], ver[n], victim[n], c)
    BY <2>4, <2>6, ExecutedBlock, Zenon
  <2>8. Recent(n)'
    BY <2>3, <2>7, Zenon DEF Recent
  <2>. QED BY <1>2, <2>3, <2>5, <2>8, OthersKeep, Zenon
<1>5. CASE StartEmpty(n)
  <2>1. /\ up[n] = "off" /\ M = {} /\ UNCHANGED <<inner, meta, ver, victim, phase>>
        /\ \E t \in {"sync", "on"} : up' = [up EXCEPT ![n] = t]
    BY <1>5, Zenon DEF StartEmpty, disk
  <2>2. PICK t \in {"sync", "on"} : up' = [up EXCEPT ![n] = t]
    BY <2>1, Zenon
  <2>3. phase[n] = "idle" /\ ver[n] = 0
    BY <1>1, <2>1, Zenon DEF IInv, NodeInv, Running
  <2>4. /\ UNCHANGED <<inner, meta, ver, victim, phase>> /\ up'[n] = t
        /\ \A m \in Node : m # n => up'[m] = up[m]
    BY <1>1, <2>1, <2>2, Zenon
  <2>5. /\ Recoverable(I, M, up[n], "idle", 0, victim[n], c) /\ M = {}
        /\ c \in Nat /\ c + 2 <= KeepRecent
    BY <1>1, <2>1, <2>3, Zenon
  <2>6. Recoverable(I, M, t, "idle", 0, victim[n], c)
    <3> HIDE DEF I, M, c
    <3>. QED BY <2>5, StartedEmpty, Zenon
  <2>7. Recent(n)'
    BY <2>3, <2>4, <2>6, Zenon DEF Recent
  <2>. QED BY <1>2, <2>4, <2>7, OthersKeep, Zenon
<1>6. ASSUME NEW p \in Node, ReceiveLastChunk(n, p) PROVE \A m \in Node : Recent(m)'
  <2> DEFINE v == offered[n].ver
  <2>1. /\ up[n] = "sync" /\ offered[n] # None /\ UNCHANGED <<phase, victim>>
        /\ inner' = [inner EXCEPT ![n] = With(inner[n], v, offered[n].state)]
        /\ meta' = [meta EXCEPT ![n] = With(meta[n], v, offered[n].state.height)]
        /\ Restored(n, v, offered[n].state)
    BY <1>6, Zenon DEF ReceiveLastChunk, RetrieveSnapshotChunk
  <2>2. phase[n] = "idle" /\ ver[n] = 0 /\ v \in Nat \ {0}
    <3>1. Agreed(v, offered[n].state)
      BY <1>1, <2>1, Zenon DEF IInv, NodeInv
    <3>2. v \in Nat \ {0}
      BY <1>1, <3>1, TakenIsPositive, Zenon DEF Agreed
    <3>. QED BY <1>1, <2>1, <3>2, Zenon DEF IInv, NodeInv, Running
  <2>3. /\ up'[n] = "on" /\ ver'[n] = v
        /\ inner'[n] = With(inner[n], v, offered[n].state)
        /\ meta'[n] = With(meta[n], v, offered[n].state.height)
        /\ \A m \in Node : m # n =>
             inner'[m] = inner[m] /\ meta'[m] = meta[m] /\ up'[m] = up[m] /\ ver'[m] = ver[m]
    BY <1>1, <2>1, Zenon DEF Restored
  <2>4. DOMAIN inner'[n] = I \cup {v} /\ DOMAIN meta'[n] = M \cup {v}
    <3>1. /\ DOMAIN With(inner[n], v, offered[n].state) = DOMAIN inner[n] \cup {v}
          /\ DOMAIN With(meta[n], v, offered[n].state.height) = DOMAIN meta[n] \cup {v}
      BY DomainWith, Zenon
    <3>. QED BY <2>3, <3>1, Zenon
  <2>5. Recoverable(I, M, "sync", "idle", 0, victim[n], c) /\ c \in Nat /\ c + 2 <= KeepRecent
    BY <1>1, <2>1, <2>2, Zenon
  <2>6. Recoverable(I \cup {v}, M \cup {v}, "on", "idle", v, victim[n], c)
    <3> HIDE DEF I, M, c, v
    <3>. QED BY <2>2, <2>5, SyncedNode, Zenon
  <2>7. Recent(n)'
    <3>1. up'[n] = "on" /\ phase'[n] = "idle" /\ ver'[n] = v /\ victim'[n] = victim[n]
      BY <2>1, <2>2, <2>3, Zenon
    <3> HIDE DEF v
    <3>. QED BY <2>4, <2>6, <3>1, Zenon DEF Recent
  <2>. QED BY <1>2, <2>1, <2>3, <2>7, OthersKeep, ZenonT(30)
<1>7. ASSUME NEW p \in Node, ReceiveBadChunk(n, p) PROVE \A m \in Node : Recent(m)'
  <2>1. /\ up[n] = "sync" /\ UNCHANGED <<inner, meta, phase, ver, victim>>
        /\ up' = up \/ up' = [up EXCEPT ![n] = "off"]
    BY <1>7, Zenon DEF ReceiveBadChunk, RetrieveSnapshotChunk, disk
  <2>2. CASE up' = [up EXCEPT ![n] = "off"]
    <3>1. up'[n] = "off" /\ \A m \in Node : m # n => up'[m] = up[m]
      BY <1>1, <2>2, Zenon
    <3>2. "off" \notin {"on", "waiting", "sync"}
      BY Zenon
    <3>3. Recoverable(I, M, "off", phase[n], ver[n], victim[n], c)
      BY <1>1, <3>2, Zenon DEF Recoverable
    <3>4. Recent(n)'
      BY <2>1, <3>1, <3>3, Zenon DEF Recent
    <3>. QED BY <1>2, <2>1, <3>1, <3>4, OthersKeep, Zenon
  <2>. QED BY <1>3, <2>1, <2>2, Zenon
<1>8. ASSUME NEW p \in Node, NEW v, ReceiveSnapshot(n, p, v) \/ ReceiveChunk(n, p)
      PROVE  UNCHANGED <<inner, meta, up, phase, ver, victim>>
  BY <1>8, Zenon DEF ReceiveSnapshot, ReceiveChunk, disk
<1>. QED BY <1>3, <1>4, <1>5, <1>6, <1>7, <1>8, Zenon DEF SyncStep

(* Every step leaves every node something recent to restart from.          *)
LEMMA RecentStep ==
  ASSUME IInv, RecentInv, [Next]_vars
  PROVE  RecentInv'
<1>1. /\ Counts' /\ used.crashes \in Nat /\ used'.crashes \in Nat
      /\ used.crashes <= used'.crashes
  BY CountsStep, Zenon DEF RecentInv
<1>2. DOMAIN victim' = Node
  <2>1. DOMAIN victim = Node
    BY Zenon DEF RecentInv
  <2>2. CASE \/ UNCHANGED vars
             \/ \E set \in Interval \cup {0}, upgrade \in BOOLEAN : Propose(set, upgrade)
    BY <2>1, <2>2, Zenon DEF vars, memory, Propose
  <2>3. ASSUME NEW n \in Node,
               \/ Execute(n) \/ StartEmpty(n) \/ SyncStep(n)
               \/ \E start \in 0 .. MaxHeight : StartFrom(n, start)
               \/ \E p \in Node : ReceiveBadChunk(n, p)
        PROVE  victim' = victim
    BY <2>3, Zenon DEF Execute, StartEmpty, StartFrom, SyncStep, ReceiveSnapshot, ReceiveChunk,
       ReceiveLastChunk, ReceiveBadChunk
  <2>4. ASSUME NEW n \in Node, SaveVersion(n) \/ Crash(n) \/ Replaced(n)
        PROVE  victim' = victim \/ \E x : victim' = [victim EXCEPT ![n] = x]
    <3>1. CASE SaveVersion(n)
      BY <3>1, Zenon DEF SaveVersion, SaveTree, DeleteVersion, DeleteMetadata, SaveMetadata
    <3>2. CASE Crash(n) \/ Replaced(n)
      BY <3>2, Zenon DEF Crash, Replaced, Stop
    <3>. QED BY <2>4, <3>1, <3>2, Zenon
  <2>5. ASSUME NEW n \in Node, SaveVersion(n) \/ Crash(n) \/ Replaced(n)
        PROVE  DOMAIN victim' = Node
    BY <2>1, <2>4, <2>5, Zenon
  <2>. QED BY <2>1, <2>2, <2>3, <2>5, Zenon DEF Next
<1>3. ASSUME used'.crashes + 2 <= KeepRecent PROVE \A n \in Node : Recent(n)'
  <2>1. used.crashes + 2 <= KeepRecent
    BY <1>1, <1>3, SnapshotAssumption
  <2>2. Ready
    BY <1>1, <2>1, Zenon DEF RecentInv, Ready
  <2>3. CASE UNCHANGED <<inner, meta, up, phase, ver, victim>>
    <3>1. ASSUME NEW m \in Node PROVE Recent(m)'
      <4>1. Recoverable(DOMAIN inner[m], DOMAIN meta[m], up[m], phase[m], ver[m], victim[m],
                        used.crashes)
        BY <2>2, Zenon DEF Ready, Recent
      <4>2. Recoverable(DOMAIN inner[m], DOMAIN meta[m], up[m], phase[m], ver[m], victim[m],
                        used'.crashes)
        BY <1>1, <4>1, MoreCrashes, Zenon
      <4>. QED BY <2>3, <4>2, Zenon DEF Recent
    <3>. QED BY <3>1, Zenon
  <2>4. CASE \E set \in Interval \cup {0}, upgrade \in BOOLEAN : Propose(set, upgrade)
    BY <2>3, <2>4, Zenon DEF Propose, memory, disk
  <2>5. ASSUME NEW n \in Node, SaveVersion(n) PROVE \A m \in Node : Recent(m)'
    <3>1. used' = used
      BY <2>5, Zenon DEF SaveVersion, SaveTree, DeleteVersion, DeleteMetadata, SaveMetadata
    <3>. QED BY <2>2, <2>5, <3>1, SaveKeepsRecent, Zenon
  <2>6. ASSUME NEW n \in Node, Crash(n) \/ Replaced(n) PROVE \A m \in Node : Recent(m)'
    BY <2>2, <2>6, StopKeepsRecent, Zenon
  <2>7. ASSUME NEW n \in Node, NEW start, StartFrom(n, start) PROVE \A m \in Node : Recent(m)'
    <3>1. used' = [used EXCEPT !.rewinds = IF start # 0 THEN @ + 1 ELSE @]
      BY <2>7, Zenon DEF StartFrom
    <3>2. Counts
      BY Zenon DEF RecentInv
    <3>3. used'.crashes = used.crashes
      BY <3>1, <3>2 DEF Counts
    <3>. QED BY <2>2, <2>7, <3>3, StartFromKeepsRecent, Zenon
  <2>8. ASSUME NEW n \in Node, Execute(n) \/ StartEmpty(n) \/ SyncStep(n)
        PROVE  \A m \in Node : Recent(m)'
    <3>1. used' = used
      BY <2>8, Zenon DEF Execute, StartEmpty, SyncStep, ReceiveSnapshot, ReceiveChunk,
         ReceiveLastChunk
    <3>. QED BY <2>2, <2>8, <3>1, OtherStepsKeepRecent, Zenon
  <2>9. ASSUME NEW n \in Node, NEW p \in Node, ReceiveBadChunk(n, p)
        PROVE  \A m \in Node : Recent(m)'
    <3>1. used' = [used EXCEPT !.bad = @ + 1]
      BY <2>9, Zenon DEF ReceiveBadChunk
    <3>2. Counts
      BY Zenon DEF RecentInv
    <3>3. used'.crashes = used.crashes
      BY <3>1, <3>2 DEF Counts
    <3>. QED BY <2>2, <2>9, <3>3, OtherStepsKeepRecent, Zenon
  <2>10. CASE UNCHANGED vars
    BY <2>3, <2>10, Zenon DEF vars, memory, disk
  <2>. QED BY <2>4, <2>5, <2>6, <2>7, <2>8, <2>9, <2>10, Zenon DEF Next
<1>. QED BY <1>1, <1>2, <1>3, Zenon DEF RecentInv

(* At whatever moment a node stops, between any two writes of SaveVersion, *)
(* it can restart from the last snapshot it took, or, while that one is    *)
(* being saved, from the one before (tree.go): crashes cost the metadata   *)
(* of one version each, pruning never takes the newest version, and a      *)
(* version with metadata is left.                                          *)
THEOREM RestartsAreRecent == Spec => []RestartIsRecent
<1>1. Init => RecentInv
  <2> SUFFICES ASSUME Init PROVE RecentInv
    OBVIOUS
  <2>1. Counts /\ used.crashes = 0
    BY DEF Init, Counts
  <2>2. DOMAIN victim = Node
    BY Zenon DEF Init
  <2>3. ASSUME NEW n \in Node PROVE Recent(n)
    <3>1. /\ DOMAIN inner[n] = {} /\ DOMAIN meta[n] = {} /\ up[n] = "off" /\ phase[n] = "idle"
      BY Zenon DEF Init, Empty
    <3>2. IsFiniteSet({}) /\ Cardinality({}) = 0
      BY FS_EmptySet, Zenon
    <3>3. LostOf({}, {}, "idle", ver[n]) = {}
      BY Zenon DEF LostOf
    <3>4. 0 <= KeepRecent + 1 /\ 0 <= 0
      BY SnapshotAssumption
    <3>5. "off" \notin {"on", "waiting", "sync"} /\ "idle" \notin {"prune", "forget"}
      OBVIOUS
    <3>6. Recoverable({}, {}, "off", "idle", ver[n], victim[n], 0)
      BY <3>2, <3>3, <3>4, <3>5, Zenon DEF Recoverable
    <3>. QED BY <2>1, <3>1, <3>6, Zenon DEF Recent
  <2>. QED BY <2>1, <2>2, <2>3, Zenon DEF RecentInv
<1>2. IInv /\ RecentInv /\ [Next]_vars => RecentInv'
  BY RecentStep, Zenon
<1>3. IInv /\ RecentInv => RestartIsRecent
  <2> SUFFICES ASSUME IInv, RecentInv, NEW n \in Node, Running(n),
                      used.crashes + 2 <= KeepRecent,
                      NEW sure, sure = IF phase[n] = "idle" THEN ver[n] ELSE ver[n] - 1,
                      sure >= 1
               PROVE  DOMAIN meta[n] # {} /\ \E v \in DOMAIN inner[n] : v >= sure
    BY Zenon DEF RestartIsRecent
  <2> DEFINE I == DOMAIN inner[n]
             M == DOMAIN meta[n]
  <2>1. ver[n] \in Nat
    BY Zenon DEF IInv, TypeOK
  <2>2. Recoverable(I, M, up[n], phase[n], ver[n], victim[n], used.crashes)
    BY Zenon DEF RecentInv, Recent
  <2>3. up[n] \in {"on", "waiting"}
    BY Zenon DEF Running
  <2>4. ver[n] >= sure /\ ver[n] > 0 /\ (phase[n] # "idle" => ver[n] # 1)
    BY <2>1
  <2>5. ver[n] \in I /\ (phase[n] = "idle" => M # {}) /\ (M = {} => I \subseteq {1})
    BY <2>2, <2>3, <2>4, Zenon DEF Recoverable
  <2>6. M # {}
    BY <2>4, <2>5, Zenon
  <2>. QED BY <2>4, <2>5, <2>6, Zenon
<1>. QED BY <1>1, <1>2, <1>3, InitInv, StepInv, PTL DEF Spec

=============================================================================
