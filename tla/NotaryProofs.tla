---------------------------- MODULE NotaryProofs ----------------------------
(***************************************************************************)
(* Proofs about Notary, for every set of nodes, validators and resources,  *)
(* every schedule of blocks, snapshots and restarts, and every bound.      *)
(***************************************************************************)
EXTENDS Notary, TLAPS

(* A block on the agreed state, field by field.                            *)
Valid(c, sigs, r) ==
  IF r \in c.started THEN {n \in c.known : <<n, r>> \in sigs} ELSE {}
Base(c, b, r) == IF r \in b.start THEN {} ELSE c.sigs[r]
Added(c, b, r) ==
  IF r \in c.started \cup b.start
  THEN {n \in c.known \cup b.announce : <<n, r>> \in b.sigs} ELSE {}

\* OnTick publishes what the change of the Tendermint validators completed.
LEMMA TickFields ==
  ASSUME NEW c \in Agreed, NEW tm
  PROVE  LET d == AgreedTick(c, tm) IN
         /\ d \in Agreed
         /\ d.known = c.known /\ d.sigs = c.sigs /\ d.started = c.started
         /\ d.duty = c.duty /\ d.pending = c.pending \ Signed(c, tm)
<1>1. Signed(c, tm) \in SUBSET Res
  BY DEF Signed, Agreed
<1> QED
  BY <1>1, Zenon DEF AgreedTick, Agreed

\* StartAggregate starts without signatures and puts the validators on duty.
LEMMA StartFields ==
  ASSUME NEW c \in Agreed, NEW start \in SUBSET Res
  PROVE  LET d == AgreedStart(c, start) IN
         /\ d \in Agreed
         /\ d.known = c.known /\ d.started = c.started \cup start
         /\ d.pending = c.pending \cup start
         /\ d.sigs = [r \in Res |-> IF r \in start THEN {} ELSE c.sigs[r]]
         /\ d.duty = [r \in Res |-> IF r \in start THEN c.known ELSE c.duty[r]]
BY Zenon DEF AgreedStart, Agreed

\* The set of Tendermint validators is the block's, and AddNewNode adds nodes.
LEMMA AnnounceFields ==
  ASSUME NEW c \in Agreed, NEW tm \in SUBSET Node, NEW announce \in SUBSET Node
  PROVE  LET d == AgreedAnnounce([c EXCEPT !.tm = tm], announce) IN
         /\ d \in Agreed
         /\ d.known = c.known \cup announce /\ d.tm = tm
         /\ d.sigs = c.sigs /\ d.started = c.started
         /\ d.pending = c.pending /\ d.duty = c.duty
BY Zenon DEF AgreedAnnounce, Agreed

\* RegisterSignature adds the signatures of known nodes and publishes a bundle
\* that a signature completed.
LEMMA RegisterFields ==
  ASSUME NEW c \in Agreed, NEW sigs, NEW tm
  PROVE  LET d == RegisterSignatures(c, sigs, tm) IN
         /\ d \in Agreed
         /\ d.known = c.known /\ d.started = c.started
         /\ d.duty = c.duty /\ d.tm = c.tm
         /\ \A r \in Res : d.sigs[r] = c.sigs[r] \cup Valid(c, sigs, r)
         /\ d.pending = {r \in c.pending : ~(Valid(c, sigs, r) # {} /\ IsSigned(d.sigs[r], tm))}
<1> DEFINE touched == {r \in c.started : \E n \in c.known : <<n, r>> \in sigs}
           all == [r \in Res |-> IF r \in touched
                                 THEN c.sigs[r] \cup {n \in c.known : <<n, r>> \in sigs}
                                 ELSE c.sigs[r]]
           ready == {r \in touched : IsSigned(all[r], tm)}
           d == [c EXCEPT !.sigs = all, !.pending = @ \ ready, !.published = @ \cup ready]
<1>1. RegisterSignatures(c, sigs, tm) = d
  BY Zenon DEF RegisterSignatures
<1>2. \A r \in Res : r \in touched <=> Valid(c, sigs, r) # {}
  BY Zenon DEF Agreed, Valid
<1>3. all \in [Res -> SUBSET Node] /\ ready \in SUBSET Res
  BY DEF Agreed
<1>4. \A r \in Res : all[r] = c.sigs[r] \cup Valid(c, sigs, r)
  BY <1>2, Zenon DEF Agreed, Valid
<1>5. \A r \in Res : r \in ready <=> (Valid(c, sigs, r) # {} /\ IsSigned(all[r], tm))
  BY <1>2, Zenon
<1> HIDE DEF touched, all, ready
<1>6. /\ d \in Agreed /\ d.sigs = all /\ d.pending = c.pending \ ready
      /\ d.known = c.known /\ d.started = c.started /\ d.duty = c.duty /\ d.tm = c.tm
  BY <1>3, Zenon DEF Agreed
<1>7. c.pending \ ready = {r \in c.pending : ~(Valid(c, sigs, r) # {} /\ IsSigned(all[r], tm))}
  <2>1. c.pending \in SUBSET Res
    BY DEF Agreed
  <2> QED
    BY <1>5, <2>1, Zenon
<1> QED
  BY <1>1, <1>4, <1>6, <1>7, Zenon

\* OnTick, StartAggregate, AddNewNode and RegisterSignature, one after the other:
\* what each field of the agreed state is after a block.
LEMMA BlockFields ==
  ASSUME NEW c \in Agreed, NEW b \in Block
  PROVE  LET d == AgreedBlock(c, b) IN
         /\ d \in Agreed
         /\ d.known = c.known \cup b.announce /\ d.started = c.started \cup b.start
         /\ d.tm = b.tm
         /\ d.duty = [r \in Res |-> IF r \in b.start THEN c.known ELSE c.duty[r]]
         /\ \A r \in Res : d.sigs[r] = Base(c, b, r) \cup Added(c, b, r)
         /\ d.pending =
              {r \in (c.pending \ Signed(c, b.tm)) \cup b.start :
                 ~(Added(c, b, r) # {} /\ IsSigned(d.sigs[r], b.tm))}
<1>0. /\ b.tm \in SUBSET Node /\ b.start \in SUBSET Res /\ b.announce \in SUBSET Node
  BY NotaryAssumption DEF Block
<1> DEFINE c1 == AgreedTick(c, b.tm)
           c2 == AgreedStart(c1, b.start)
           c3 == AgreedAnnounce([c2 EXCEPT !.tm = b.tm], b.announce)
           d == AgreedBlock(c, b)
<1>1. d = RegisterSignatures(c3, b.sigs, b.tm)
  BY Zenon DEF AgreedBlock
<1>2. /\ c1 \in Agreed
      /\ c1.known = c.known /\ c1.sigs = c.sigs /\ c1.started = c.started
      /\ c1.duty = c.duty /\ c1.pending = c.pending \ Signed(c, b.tm)
  BY TickFields, Zenon
<1> HIDE DEF c1
<1>3. /\ c2 \in Agreed
      /\ c2.known = c1.known /\ c2.started = c1.started \cup b.start
      /\ c2.pending = c1.pending \cup b.start
      /\ c2.sigs = [r \in Res |-> IF r \in b.start THEN {} ELSE c1.sigs[r]]
      /\ c2.duty = [r \in Res |-> IF r \in b.start THEN c1.known ELSE c1.duty[r]]
  BY <1>0, <1>2, StartFields, Zenon
<1> HIDE DEF c2
<1>4. /\ c3 \in Agreed
      /\ c3.known = c2.known \cup b.announce /\ c3.tm = b.tm
      /\ c3.sigs = c2.sigs /\ c3.started = c2.started
      /\ c3.pending = c2.pending /\ c3.duty = c2.duty
  <2>1. c2 \in Agreed
    BY <1>3, Zenon
  <2> QED
    BY <1>0, <2>1, AnnounceFields, ZenonT(40) DEF c3
<1> HIDE DEF c3
<1>5. /\ d \in Agreed
      /\ d.known = c3.known /\ d.started = c3.started
      /\ d.duty = c3.duty /\ d.tm = c3.tm
      /\ \A r \in Res : d.sigs[r] = c3.sigs[r] \cup Valid(c3, b.sigs, r)
      /\ d.pending = {r \in c3.pending : ~(Valid(c3, b.sigs, r) # {} /\ IsSigned(d.sigs[r], b.tm))}
  <2>1. c3 \in Agreed
    BY <1>4, Zenon
  <2> HIDE DEF d
  <2> QED
    BY <1>1, <2>1, RegisterFields
<1> HIDE DEF d
<1>6. \A r : Valid(c3, b.sigs, r) = Added(c, b, r)
  BY <1>2, <1>3, <1>4 DEF Added, Valid
<1>7. \A r \in Res : c3.sigs[r] = Base(c, b, r)
  BY <1>2, <1>3, <1>4 DEF Base
<1>8. /\ d \in Agreed
      /\ d.known = c.known \cup b.announce /\ d.started = c.started \cup b.start
      /\ d.tm = b.tm
      /\ d.duty = [r \in Res |-> IF r \in b.start THEN c.known ELSE c.duty[r]]
      /\ \A r \in Res : d.sigs[r] = Base(c, b, r) \cup Added(c, b, r)
  BY <1>2, <1>3, <1>4, <1>5, <1>6, <1>7
<1>9. d.pending = {r \in (c.pending \ Signed(c, b.tm)) \cup b.start :
                     ~(Added(c, b, r) # {} /\ IsSigned(d.sigs[r], b.tm))}
  <2>1. c3.pending = (c.pending \ Signed(c, b.tm)) \cup b.start
    BY <1>2, <1>3, <1>4
  <2>2. d.pending = {r \in c3.pending : ~(Valid(c3, b.sigs, r) # {} /\ IsSigned(d.sigs[r], b.tm))}
    BY <1>5
  <2> QED
    BY <1>6, <2>1, <2>2, Zenon
<1> QED
  BY <1>8, <1>9, Zenon DEF d
-----------------------------------------------------------------------------
\* A node starts without signatures, and with its topology (NewNotary).
LEMMA InitType == InitAgreed \in Agreed
BY NotaryAssumption DEF InitAgreed, Agreed

\* Every variable has its type at the start (NewNotary).
LEMMA TypeInit == Init => TypeOK
<1> SUFFICES ASSUME Init PROVE TypeOK
  OBVIOUS
<1>1. cooldown \in [Node -> [Res -> 0 .. RetryInterval]] /\ restarts \in 0 .. MaxRestarts
  BY NotaryAssumption DEF Init
<1>2. log \in [Node -> Seq(Block)] /\ done \in [Node -> Nat]
  BY DEF Init
<1> QED
  BY <1>1, <1>2, InitType DEF Init, TypeOK

\* What a node executes is a block, and it leaves an agreed state (ExecuteBlock).
LEMMA Executed ==
  ASSUME TypeOK, NEW n \in Node, done[n] < Len(log[n])
  PROVE  /\ log[n][done[n] + 1] \in Block
         /\ AgreedBlock(cs[n], log[n][done[n] + 1]) \in Agreed
<1>1. log[n][done[n] + 1] \in Block /\ cs[n] \in Agreed
  BY DEF TypeOK
<1> QED
  BY <1>1, BlockFields, Zenon

\* Every action (block, retry, commander, restart) keeps the types.
LEMMA TypeStep == TypeOK /\ [Next]_vars => TypeOK'
<1> SUFFICES ASSUME TypeOK, [Next]_vars PROVE TypeOK'
  OBVIOUS
<1>1. ASSUME NEW n \in Node, ExecuteBlock(n) PROVE TypeOK'
  <2> DEFINE b == log[n][done[n] + 1]
             next == AgreedBlock(cs[n], b)
             own == IF n \in cs[n].known THEN b.start ELSE {}
             acked == {r \in next.started : n \in next.known /\ <<n, r>> \in b.sigs}
             kept == (retries[n] \cup own) \ acked
  <2>1. done[n] < Len(log[n])
    BY <1>1, Zenon DEF ExecuteBlock
  <2>2. b \in Block /\ next \in Agreed
    BY <2>1, Executed
  <2>3. kept \in SUBSET Res
    BY <2>2 DEF Block, TypeOK
  <2> HIDE DEF b, next, own, acked
  <2>4. cs' \in [Node -> Agreed] /\ saved' \in [Node -> Agreed]
    <3>1. cs' = [cs EXCEPT ![n] = next] /\ saved' \in {saved, [saved EXCEPT ![n] = next]}
      BY <1>1 DEF ExecuteBlock, Serialise, b, next
    <3> QED
      BY <2>2, <3>1, Zenon DEF TypeOK
  <2>5. retries' \in [Node -> SUBSET Res] /\ hasSig' \in [Node -> SUBSET Res]
    <3> HIDE DEF kept
    <3>1. /\ retries' = [retries EXCEPT ![n] = kept]
          /\ \E S : hasSig' = [hasSig EXCEPT ![n] = S \cap kept]
      BY <1>1, Zenon DEF ExecuteBlock, b, next, own, acked, kept
    <3> QED
      BY <2>3, <3>1 DEF TypeOK
  <2>6. inflight' \subseteq Sig
    BY <1>1 DEF ExecuteBlock, TypeOK, Sig, getRetries
  <2>7. cooldown' \in [Node -> [Res -> 0 .. RetryInterval]]
    <3>1. cooldown' = [cooldown EXCEPT ![n] = [r \in Res |->
                  IF r \in own \/ r \notin kept THEN 0
                  ELSE IF r \in getRetries(n) THEN RetryInterval
                  ELSE IF @[r] > 0 THEN @[r] - 1 ELSE 0]]
      BY <1>1, Zenon DEF ExecuteBlock, b, next, own, acked, kept
    <3> HIDE DEF kept
    <3> QED
      BY <3>1, NotaryAssumption DEF TypeOK
  <2>8. log' \in [Node -> Seq(Block)] /\ done' \in [Node -> Nat]
    <3>1. log' \in {log, [log EXCEPT ![n] = SubSeq(log[n], done[n] + 2, Len(log[n]))]}
      BY <1>1, Zenon DEF ExecuteBlock
    <3>2. SubSeq(log[n], done[n] + 2, Len(log[n])) \in Seq(Block)
      BY <2>1 DEF TypeOK
    <3>3. ASSUME NEW q \in Seq(Block) PROVE [log EXCEPT ![n] = q] \in [Node -> Seq(Block)]
      BY DEF TypeOK
    <3>4. log' \in [Node -> Seq(Block)]
      BY <3>1, <3>2, <3>3, Zenon DEF TypeOK
    <3>5. done' = [done EXCEPT ![n] = IF done[n] + 1 = SnapshotInterval THEN 0 ELSE @ + 1]
      BY <1>1, Zenon DEF ExecuteBlock
    <3>6. done' \in [Node -> Nat]
      BY <3>5 DEF TypeOK
    <3> QED
      BY <3>4, <3>6
  <2>9. UNCHANGED <<tip, pool, restarts>>
    BY <1>1, Zenon DEF ExecuteBlock
  <2> QED
    BY <2>4, <2>5, <2>6, <2>7, <2>8, <2>9 DEF TypeOK
<1>2. ASSUME NEW n \in Node, Restart(n) PROVE TypeOK'
  <2>1. cooldown' \in [Node -> [Res -> 0 .. RetryInterval]] /\ restarts' \in 0 .. MaxRestarts
    BY <1>2, NotaryAssumption DEF Restart, TypeOK
  <2>2. retries' \in [Node -> SUBSET Res] /\ hasSig' \in [Node -> SUBSET Res]
    BY <1>2 DEF Restart, TypeOK, Missing, Agreed
  <2> QED
    BY <1>2, <2>1, <2>2, Zenon DEF Restart, TypeOK
<1>3. ASSUME NEW n \in Node, NEW r \in Res, CommandOk(n, r) \/ CommandFails(n, r)
      PROVE  TypeOK'
  BY <1>3 DEF CommandOk, CommandFails, TypeOK, Sig
<1>4. ASSUME NEW b \in Block, ProposeBlock(b) PROVE TypeOK'
  <2>1. tip' \in Agreed
    BY <1>4, BlockFields, Zenon DEF ProposeBlock, TypeOK
  <2>2. log' \in [Node -> Seq(Block)]
    BY <1>4 DEF ProposeBlock, TypeOK
  <2> QED
    BY <1>4, <2>1, <2>2 DEF ProposeBlock, TypeOK
<1>5. ASSUME Propose PROVE \E b \in Block : ProposeBlock(b)
  BY <1>5, Zenon DEF Propose, Block, TypeOK
<1>6. CASE UNCHANGED vars
  BY <1>6 DEF vars, TypeOK
<1> QED
  BY <1>1, <1>2, <1>3, <1>4, <1>5, <1>6, Zenon DEF Next
\* Every variable keeps its type, whatever the schedule (Init and every action).
THEOREM TypeCorrect == Spec => []TypeOK
BY TypeInit, TypeStep, PTL DEF Spec

-----------------------------------------------------------------------------
(* Replicas.  A node is on its way from its last snapshot to the tip of    *)
(* the chain: executing the blocks logged since the snapshot, one after    *)
(* the other, leads through what the node has now to the agreed state.     *)
Leads(tr, n) ==
  /\ tr \in [0 .. Len(log[n]) -> Agreed]
  /\ \A k \in 1 .. Len(log[n]) : tr[k] = AgreedBlock(tr[k - 1], log[n][k])
  /\ tr[0] = saved[n] /\ tr[done[n]] = cs[n] /\ tr[Len(log[n])] = tip

\* The blocks after a snapshot are what is left of the log.
LEMMA RestOfLog ==
  ASSUME NEW S, NEW q \in Seq(S), NEW d \in Nat, d < Len(q)
  PROVE  /\ Len(SubSeq(q, d + 2, Len(q))) = Len(q) - d - 1
         /\ \A k \in 1 .. Len(q) - d - 1 : SubSeq(q, d + 2, Len(q))[k] = q[k + d + 1]
<1>1. Len(SubSeq(q, d + 2, Len(q))) = Len(q) - d - 1
  OBVIOUS
<1>2. ASSUME NEW k \in 1 .. Len(q) - d - 1 PROVE SubSeq(q, d + 2, Len(q))[k] = q[k + d + 1]
  OBVIOUS
<1> QED
  BY <1>1, <1>2

OnItsWay == \A n \in Node : done[n] \in 0 .. Len(log[n]) /\ \E tr : Leads(tr, n)

\* A block that is decided makes the way of every node one step longer.
LEMMA DecidedOnItsWay ==
  ASSUME TypeOK, OnItsWay, NEW b \in Block, ProposeBlock(b)
  PROVE  OnItsWay'
<1> SUFFICES ASSUME NEW n \in Node
             PROVE  done'[n] \in 0 .. Len(log'[n]) /\ \E tr : Leads(tr, n)'
  BY DEF OnItsWay
<1>1. PICK tr : Leads(tr, n)
  BY DEF OnItsWay
<1>2. PICK l \in Nat : l = Len(log[n])
  BY DEF TypeOK
<1>3. /\ UNCHANGED <<done, cs, saved>> /\ tip' = AgreedBlock(tip, b)
      /\ log'[n] = Append(log[n], b)
  BY DEF ProposeBlock
<1>4. /\ Len(log'[n]) = l + 1 /\ log'[n][l + 1] = b
      /\ \A k \in 1 .. l : log'[n][k] = log[n][k]
  BY <1>2, <1>3 DEF TypeOK
<1>5. tip' \in Agreed
  BY <1>3, BlockFields, Zenon DEF TypeOK
<1>0. PICK next : next = [k \in 0 .. l + 1 |-> IF k = l + 1 THEN tip' ELSE tr[k]]
  BY Zenon
<1>6. next \in [0 .. l + 1 -> Agreed]
  BY <1>0, <1>1, <1>2, <1>5 DEF Leads
<1>7. ASSUME NEW k \in 1 .. l + 1 PROVE next[k] = AgreedBlock(next[k - 1], log'[n][k])
  <2>1. CASE k = l + 1
    <3>1. next[k] = tip' /\ next[k - 1] = tr[l]
      BY <1>0, <2>1
    <3>2. tr[l] = tip /\ log'[n][k] = b
      BY <1>1, <1>2, <1>4, <2>1 DEF Leads
    <3> QED
      BY <1>3, <3>1, <3>2, Zenon
  <2>2. CASE k \in 1 .. l
    <3>1. next[k] = tr[k] /\ next[k - 1] = tr[k - 1]
      BY <1>0, <2>2
    <3>2. tr[k] = AgreedBlock(tr[k - 1], log[n][k]) /\ log'[n][k] = log[n][k]
      BY <1>1, <1>2, <1>4, <2>2 DEF Leads
    <3> QED
      BY <3>1, <3>2, Zenon
  <2> QED
    BY <2>1, <2>2
<1>8. done[n] \in 0 .. l
  BY <1>2 DEF OnItsWay
<1>9. next[0] = saved[n] /\ next[done[n]] = cs[n] /\ next[l + 1] = tip'
  BY <1>0, <1>1, <1>2, <1>8 DEF Leads
<1>10. Leads(next, n)'
  BY <1>3, <1>4, <1>6, <1>7, <1>9 DEF Leads
<1> QED
  BY <1>3, <1>4, <1>8, <1>10

\* A node that executes a block is one step further on its way; a snapshot makes
\* the rest of the way the whole of it.
LEMMA ExecutedOnItsWay ==
  ASSUME TypeOK, OnItsWay, NEW n \in Node, ExecuteBlock(n)
  PROVE  OnItsWay'
<1> SUFFICES ASSUME NEW m \in Node
             PROVE  done'[m] \in 0 .. Len(log'[m]) /\ \E tr : Leads(tr, m)'
  BY DEF OnItsWay
<1>1. PICK tr : Leads(tr, m)
  BY DEF OnItsWay
<1> DEFINE next == AgreedBlock(cs[n], log[n][done[n] + 1])
           full == done[n] + 1 = SnapshotInterval
<1>2. /\ done[n] < Len(log[n]) /\ tip' = tip /\ cs' = [cs EXCEPT ![n] = next]
      /\ saved' = IF full THEN [saved EXCEPT ![n] = next] ELSE saved
      /\ log' = IF full
                THEN [log EXCEPT ![n] = SubSeq(@, done[n] + 2, Len(@))] ELSE log
      /\ done' = [done EXCEPT ![n] = IF full THEN 0 ELSE @ + 1]
  BY Zenon DEF ExecuteBlock, Serialise
<1>3. CASE m # n
  <2>1. /\ done'[m] = done[m] /\ log'[m] = log[m] /\ saved'[m] = saved[m]
        /\ cs'[m] = cs[m] /\ tip' = tip
    BY <1>2, <1>3 DEF TypeOK
  <2>2. Leads(tr, m)'
    BY <1>1, <2>1, Zenon DEF Leads
  <2> QED
    BY <2>1, <2>2, Zenon DEF OnItsWay
<1>4. CASE m = n /\ ~full
  <2>1. /\ done'[n] = done[n] + 1 /\ log'[n] = log[n] /\ saved'[n] = saved[n]
        /\ cs'[n] = next /\ tip' = tip /\ done[n] + 1 \in 0 .. Len(log[n])
    BY <1>2, <1>4 DEF TypeOK
  <2>2. tr[done[n] + 1] = next
    <3>1. tr[done[n] + 1] = AgreedBlock(tr[(done[n] + 1) - 1], log[n][done[n] + 1])
      BY <1>1, <1>4, <2>1 DEF Leads, TypeOK
    <3>2. (done[n] + 1) - 1 = done[n] /\ tr[done[n]] = cs[n]
      BY <1>1, <1>4 DEF Leads, TypeOK
    <3> QED
      BY <3>1, <3>2
  <2> HIDE DEF next
  <2>3. Leads(tr, n)'
    BY <1>1, <1>4, <2>1, <2>2, Zenon DEF Leads
  <2> QED
    BY <1>4, <2>1, <2>3
<1>5. CASE m = n /\ full
  <2>0. PICK l \in Nat, d \in Nat : l = Len(log[n]) /\ d = done[n]
    BY DEF TypeOK
  <2>1. /\ d < l /\ done'[n] = 0 /\ saved'[n] = next /\ cs'[n] = next /\ tip' = tip
        /\ log'[n] = SubSeq(log[n], d + 2, l)
    BY <1>2, <1>5, <2>0, Zenon DEF TypeOK
  <2>2. tr[d + 1] = next
    <3>01. d + 1 \in 1 .. l
      BY <2>1
    <3>0. d + 1 \in 1 .. Len(log[n])
      BY <2>0, <3>01, Zenon
    <3>1. tr[d + 1] = AgreedBlock(tr[(d + 1) - 1], log[n][d + 1])
      BY <1>1, <1>5, <3>0, Zenon DEF Leads
    <3>2. (d + 1) - 1 = d /\ tr[d] = cs[n]
      BY <1>1, <1>5, <2>0 DEF Leads
    <3> QED
      BY <3>1, <3>2, <2>0
  <2> HIDE DEF next, full
  <2>3. /\ Len(log'[n]) = l - d - 1
        /\ \A k \in 1 .. l - d - 1 : log'[n][k] = log[n][k + d + 1]
    <3>1. log[n] \in Seq(Block)
      BY DEF TypeOK
    <3>2. d < Len(log[n]) /\ log'[n] = SubSeq(log[n], d + 2, Len(log[n]))
      BY <2>0, <2>1
    <3> DEFINE left == SubSeq(log[n], d + 2, Len(log[n]))
    <3>3. /\ Len(left) = Len(log[n]) - d - 1
          /\ \A k \in 1 .. Len(log[n]) - d - 1 : left[k] = log[n][k + d + 1]
      BY <3>1, <3>2, RestOfLog, Zenon
    <3>4. log'[n] = left
      BY <3>2, Zenon
    <3> HIDE DEF left
    <3> QED
      BY <2>0, <3>3, <3>4
  <2>4. tr \in [0 .. l -> Agreed] /\ tr[l] = tip
    BY <1>1, <1>5, <2>0 DEF Leads
  <2>5. PICK rest : rest = [k \in 0 .. l - d - 1 |-> tr[k + d + 1]]
    BY Zenon
  <2>6. rest \in [0 .. l - d - 1 -> Agreed] /\ rest[0] = next /\ rest[l - d - 1] = tip
    <3>0. d < l
      BY <2>1, Zenon
    <3>1. \A k \in 0 .. l - d - 1 : k + d + 1 \in 0 .. l
      BY <3>0
    <3>2. rest \in [0 .. l - d - 1 -> Agreed]
      BY <2>4, <2>5, <3>1
    <3>3. /\ 0 \in 0 .. l - d - 1 /\ 0 + d + 1 = d + 1
          /\ l - d - 1 \in 0 .. l - d - 1 /\ (l - d - 1) + d + 1 = l
      BY <3>0
    <3>4. rest[0] = tr[0 + d + 1] /\ rest[l - d - 1] = tr[(l - d - 1) + d + 1]
      BY <2>5, <3>3, Zenon
    <3> QED
      BY <2>2, <2>4, <3>2, <3>3, <3>4, Zenon
  <2>7. ASSUME NEW k \in 1 .. l - d - 1
        PROVE  rest[k] = AgreedBlock(rest[k - 1], log'[n][k])
    <3>1. rest[k] = tr[k + d + 1] /\ rest[k - 1] = tr[(k + d + 1) - 1]
      BY <2>5
    <3>2. tr[k + d + 1] = AgreedBlock(tr[(k + d + 1) - 1], log[n][k + d + 1])
      <4>0. k + d + 1 \in 1 .. l
        OBVIOUS
      <4>1. k + d + 1 \in 1 .. Len(log[n])
        BY <2>0, <4>0, Zenon
      <4> QED
        BY <1>1, <1>5, <4>1, Zenon DEF Leads
    <3> QED
      BY <2>3, <3>1, <3>2, Zenon
  <2>8. Leads(rest, n)'
    BY <2>1, <2>3, <2>6, <2>7, Zenon DEF Leads
  <2> QED
    BY <1>5, <2>0, <2>1, <2>3, <2>8, SMTT(30)
<1> QED
  BY <1>3, <1>4, <1>5

\* A node that restarts is at the start of its way again (restoreNotary).
LEMMA RestartedOnItsWay ==
  ASSUME TypeOK, OnItsWay, NEW n \in Node, Restart(n)
  PROVE  OnItsWay'
<1> SUFFICES ASSUME NEW m \in Node
             PROVE  done'[m] \in 0 .. Len(log'[m]) /\ \E tr : Leads(tr, m)'
  BY DEF OnItsWay
<1>1. PICK tr : Leads(tr, m)
  BY DEF OnItsWay
<1>2. UNCHANGED <<tip, log, saved>>
  BY DEF Restart
<1>3. \/ done'[m] = done[m] /\ cs'[m] = cs[m]
      \/ done'[m] = 0 /\ cs'[m] = saved[m]
  BY DEF Restart, TypeOK
<1>4. Leads(tr, m)'
  BY <1>1, <1>2, <1>3, Zenon DEF Leads
<1>5. done'[m] \in 0 .. Len(log'[m])
  BY <1>2, <1>3 DEF OnItsWay, TypeOK
<1> QED
  BY <1>4, <1>5

ReplicaInv == TypeOK /\ OnItsWay

\* Replicas agree: nodes that have executed all the blocks hold the same state,
\* whatever they restored from a snapshot and executed again (RegisterSignature,
\* OnTick, StartAggregate, restoreNotary).
THEOREM ReplicasAgree == Spec => []CaughtUpAgree
<1>1. Init => ReplicaInv
  <2> SUFFICES ASSUME Init PROVE ReplicaInv
    OBVIOUS
  <2>1. ASSUME NEW n \in Node PROVE Leads([k \in {0} |-> InitAgreed], n)
    <3>1. 0 .. Len(log[n]) = {0} /\ 1 .. Len(log[n]) = {} /\ done[n] = 0
      BY DEF Init
    <3> QED
      BY <3>1, InitType DEF Leads, Init
  <2>2. OnItsWay
    BY <2>1 DEF OnItsWay, Init
  <2> QED
    BY <2>2, TypeInit DEF ReplicaInv
<1>2. ReplicaInv /\ [Next]_vars => ReplicaInv'
  <2> SUFFICES ASSUME TypeOK, OnItsWay, [Next]_vars PROVE OnItsWay'
    BY TypeStep DEF ReplicaInv
  <2>1. ASSUME UNCHANGED <<tip, log, done, cs, saved>> PROVE OnItsWay'
    BY <2>1 DEF OnItsWay, Leads
  <2>2. ASSUME NEW n \in Node, NEW r \in Res, CommandOk(n, r) \/ CommandFails(n, r)
        PROVE  UNCHANGED <<tip, log, done, cs, saved>>
    BY <2>2 DEF CommandOk, CommandFails
  <2>3. UNCHANGED vars => UNCHANGED <<tip, log, done, cs, saved>>
    BY DEF vars
  <2>4. ASSUME Propose PROVE \E b \in Block : ProposeBlock(b)
    BY <2>4, Zenon DEF Propose, Block, TypeOK
  <2> QED
    BY <2>1, <2>2, <2>3, <2>4, DecidedOnItsWay, ExecutedOnItsWay, RestartedOnItsWay, Zenon
    DEF Next
<1>3. ReplicaInv => CaughtUpAgree
  BY Zenon DEF ReplicaInv, OnItsWay, Leads, CaughtUpAgree
<1> QED
  BY <1>1, <1>2, <1>3, PTL DEF Spec

-----------------------------------------------------------------------------
(* Signatures.  What the agreed state of a node, and the one in its        *)
(* snapshot, says of the aggregates that are pending.                      *)
NoneComplete(c) == \A r \in c.pending : ~IsSigned(c.sigs[r], c.tm)

OnDutyIsKnown(c) == \A r \in Res : c.duty[r] \subseteq c.known

\* Whatever was pending before, after a block no complete bundle is: OnTick looks
\* at all of them with the new validator set, RegisterSignature at those it signs.
LEMMA BlockNoneComplete ==
  ASSUME NEW c \in Agreed, NEW b \in Block
  PROVE  NoneComplete(AgreedBlock(c, b))
<1> DEFINE d == AgreedBlock(c, b)
<1>1. /\ d.tm = b.tm
      /\ \A r \in Res : d.sigs[r] = Base(c, b, r) \cup Added(c, b, r)
      /\ d.pending = {r \in (c.pending \ Signed(c, b.tm)) \cup b.start :
                        ~(Added(c, b, r) # {} /\ IsSigned(d.sigs[r], b.tm))}
  BY BlockFields, Zenon
<1>2. b.tm \in TmSets /\ b.start \subseteq Res /\ c.pending \subseteq Res
  BY DEF Block, Agreed
<1> HIDE DEF d
<1>3. ASSUME NEW r \in d.pending PROVE ~IsSigned(d.sigs[r], b.tm)
  <2>1. /\ r \in Res /\ d.sigs[r] = Base(c, b, r) \cup Added(c, b, r)
        /\ r \in (c.pending \ Signed(c, b.tm)) \cup b.start
    BY <1>1, <1>2, <1>3, Zenon
  <2>2. CASE Added(c, b, r) # {}
    BY <1>1, <1>3, <2>2, Zenon
  <2>3. CASE Added(c, b, r) = {} /\ r \in b.start
    <3>1. d.sigs[r] = {}
      BY <2>1, <2>3, Zenon DEF Base
    <3> QED
      BY <1>2, <3>1, NoEmptyBundle, Zenon
  <2>4. CASE Added(c, b, r) = {} /\ r \notin b.start
    <3>1. d.sigs[r] = c.sigs[r] /\ r \in c.pending /\ r \notin Signed(c, b.tm)
      BY <2>1, <2>4, Zenon DEF Base
    <3> QED
      BY <3>1, Zenon DEF Signed
  <2> QED
    BY <2>2, <2>3, <2>4, Zenon
<1> QED
  BY <1>1, <1>3, Zenon DEF NoneComplete, d

\* StartAggregate puts nodes of the topology on duty, and nodes stay in it.
LEMMA BlockOnDuty ==
  ASSUME NEW c \in Agreed, OnDutyIsKnown(c), NEW b \in Block
  PROVE  OnDutyIsKnown(AgreedBlock(c, b))
<1> DEFINE d == AgreedBlock(c, b)
<1>1. /\ d.known = c.known \cup b.announce
      /\ d.duty = [r \in Res |-> IF r \in b.start THEN c.known ELSE c.duty[r]]
  BY BlockFields, Zenon
<1> HIDE DEF d
<1>2. OnDutyIsKnown(d)
  BY <1>1 DEF OnDutyIsKnown
<1> QED
  BY <1>2, Zenon DEF d

\* A node's own signature leaves its retry list only when it is in the agreed
\* state, and a node on duty for a new aggregate puts it on the list.
LEMMA BlockTracked ==
  ASSUME NEW c \in Agreed, NEW b \in Block, NEW n \in Node, NEW r \in Res, NEW tracked,
         r \in c.pending /\ n \in c.duty[r] \ c.sigs[r] => r \in tracked,
         r \in AgreedBlock(c, b).pending,
         n \in AgreedBlock(c, b).duty[r] \ AgreedBlock(c, b).sigs[r]
  PROVE  /\ r \in tracked \cup (IF n \in c.known THEN b.start ELSE {})
         /\ ~(/\ r \in AgreedBlock(c, b).started /\ n \in AgreedBlock(c, b).known
              /\ <<n, r>> \in b.sigs)
<1> DEFINE d == AgreedBlock(c, b)
<1>1. /\ d.known = c.known \cup b.announce /\ d.started = c.started \cup b.start
      /\ d.duty = [s \in Res |-> IF s \in b.start THEN c.known ELSE c.duty[s]]
      /\ \A s \in Res : d.sigs[s] = Base(c, b, s) \cup Added(c, b, s)
      /\ d.pending = {s \in (c.pending \ Signed(c, b.tm)) \cup b.start :
                        ~(Added(c, b, s) # {} /\ IsSigned(d.sigs[s], b.tm))}
  BY BlockFields, Zenon
<1>2. n \in d.duty[r] /\ n \notin d.sigs[r] /\ r \in d.pending
  BY Zenon
<1> HIDE DEF d
<1>3. n \notin Base(c, b, r) /\ n \notin Added(c, b, r)
  BY <1>1, <1>2, ZenonT(40)
<1>4. CASE r \in b.start
  <2>1. n \in c.known
    BY <1>1, <1>2, <1>4
  <2>2. <<n, r>> \notin b.sigs
    BY <1>3, <1>4, <2>1 DEF Added
  <2> QED
    BY <1>4, <2>1, <2>2, Zenon
<1>5. CASE r \notin b.start
  <2>1. r \in c.pending
    BY <1>1, <1>2, <1>5, Zenon
  <2>3. n \in c.duty[r] /\ n \notin c.sigs[r]
    BY <1>1, <1>2, <1>3, <1>5 DEF Base
  <2>2. ~(r \in d.started /\ n \in d.known /\ <<n, r>> \in b.sigs)
    BY <1>1, <1>3 DEF Added
  <2> QED
    BY <2>1, <2>2, <2>3, Zenon DEF d
<1> QED
  BY <1>4, <1>5

SignatureInv ==
  /\ TypeOK
  /\ \A n \in Node : /\ NoneComplete(cs[n]) /\ NoneComplete(saved[n])
                     /\ OnDutyIsKnown(cs[n]) /\ OnDutyIsKnown(saved[n])
  /\ SignatureNotForgotten

\* Initially nothing is pending and nobody is on duty.
LEMMA SignatureInit == Init => SignatureInv
<1> SUFFICES ASSUME Init PROVE SignatureInv
  OBVIOUS
<1>1. NoneComplete(InitAgreed) /\ OnDutyIsKnown(InitAgreed)
  BY DEF NoneComplete, OnDutyIsKnown, InitAgreed
<1>2. SignatureNotForgotten
  BY DEF Init, SignatureNotForgotten, InitAgreed
<1> QED
  BY <1>1, <1>2, TypeInit DEF SignatureInv, Init

\* Every action keeps the invariant: a block by the lemmas above, a restart because
\* restoreNotary tracks what is pending without the node's signature.
LEMMA SignatureStep == SignatureInv /\ [Next]_vars => SignatureInv'
<1> SUFFICES ASSUME SignatureInv, [Next]_vars PROVE SignatureInv'
  OBVIOUS
<1>0. TypeOK /\ TypeOK' /\ SignatureNotForgotten
  BY TypeStep DEF SignatureInv
<1>1. ASSUME NEW n \in Node, ExecuteBlock(n) PROVE SignatureInv'
  <2> DEFINE b == log[n][done[n] + 1]
             next == AgreedBlock(cs[n], b)
             own == IF n \in cs[n].known THEN b.start ELSE {}
             acked == {r \in next.started : n \in next.known /\ <<n, r>> \in b.sigs}
  <2>1. /\ done[n] < Len(log[n]) /\ cs' = [cs EXCEPT ![n] = next]
        /\ saved' \in {saved, [saved EXCEPT ![n] = next]}
        /\ retries' = [retries EXCEPT ![n] = (@ \cup own) \ acked]
    BY <1>1, Zenon DEF ExecuteBlock, Serialise
  <2>2. b \in Block /\ cs[n] \in Agreed
    BY <1>0, <2>1, Executed DEF TypeOK
  <2>3. NoneComplete(next) /\ OnDutyIsKnown(next)
    BY <2>2, BlockNoneComplete, BlockOnDuty DEF SignatureInv
  <2>4. ASSUME NEW r \in Res, r \in next.pending, n \in next.duty[r] \ next.sigs[r]
        PROVE  r \in (retries[n] \cup own) \ acked
    <3>1. r \in cs[n].pending /\ n \in cs[n].duty[r] \ cs[n].sigs[r] => r \in retries[n]
      BY <1>0, Zenon DEF SignatureNotForgotten
    <3>2. /\ r \in retries[n] \cup own
          /\ ~(r \in next.started /\ n \in next.known /\ <<n, r>> \in b.sigs)
      BY <2>2, <2>4, <3>1, BlockTracked
    <3> QED
      BY <3>2, Zenon
  <2> HIDE DEF b, next, own, acked
  <2>5. ASSUME NEW m \in Node
        PROVE  /\ cs'[m] = (IF m = n THEN next ELSE cs[m]) /\ saved'[m] \in {saved[m], next}
               /\ retries'[m] = (IF m = n THEN (retries[n] \cup own) \ acked ELSE retries[m])
    BY <1>0, <2>1 DEF TypeOK
  <2>6. SignatureNotForgotten'
    BY <1>0, <2>4, <2>5, Zenon DEF SignatureNotForgotten
  <2> QED
    BY <1>0, <2>3, <2>5, <2>6, Zenon DEF SignatureInv
<1>2. ASSUME NEW n \in Node, Restart(n) PROVE SignatureInv'
  <2>1. ASSUME NEW m \in Node
        PROVE  /\ cs'[m] = (IF m = n THEN saved[n] ELSE cs[m]) /\ saved'[m] = saved[m]
               /\ retries'[m] = (IF m = n THEN Missing(n, saved[n]) ELSE retries[m])
    BY <1>0, <1>2 DEF Restart, TypeOK
  <2>2. ASSUME NEW r \in Res, r \in saved[n].pending,
               n \in saved[n].duty[r] \ saved[n].sigs[r]
        PROVE  r \in Missing(n, saved[n])
    BY <2>2, Zenon DEF SignatureInv, OnDutyIsKnown, Missing
  <2>3. SignatureNotForgotten'
    BY <1>0, <2>1, <2>2, Zenon DEF SignatureNotForgotten
  <2> QED
    BY <1>0, <2>1, <2>3, Zenon DEF SignatureInv
<1>3. ASSUME UNCHANGED <<cs, saved, retries>> PROVE SignatureInv'
  BY <1>0, <1>3 DEF SignatureInv, SignatureNotForgotten
<1>4. ASSUME NEW n \in Node, NEW r \in Res, CommandOk(n, r) \/ CommandFails(n, r)
      PROVE  UNCHANGED <<cs, saved, retries>>
  BY <1>4 DEF CommandOk, CommandFails
<1>5. Propose => UNCHANGED <<cs, saved, retries>>
  BY DEF Propose, ProposeBlock
<1>6. UNCHANGED vars => UNCHANGED <<cs, saved, retries>>
  BY DEF vars
<1> QED
  BY <1>1, <1>2, <1>3, <1>4, <1>5, <1>6, Zenon DEF Next

\* No node forgets to sign: a validator on duty keeps its signature on the retry
\* list until it is in a block or the bundle is complete, although the list is not
\* in the snapshot (StartAggregate, RegisterSignature, restoreNotary).
THEOREM NeverForgotten == Spec => []SignatureNotForgotten
<1>1. SignatureInv => SignatureNotForgotten
  BY DEF SignatureInv
<1> QED
  BY <1>1, SignatureInit, SignatureStep, PTL DEF Spec

\* No complete bundle is held back, be it completed by a signature or by a change
\* of the Tendermint validators (OnTick, RegisterSignature).
THEOREM CompleteIsSent == Spec => []NoCompleteBundlePending
<1>1. SignatureInv => NoCompleteBundlePending
  BY DEF SignatureInv, NoneComplete, NoCompleteBundlePending
<1> QED
  BY <1>1, SignatureInit, SignatureStep, PTL DEF Spec

=============================================================================
