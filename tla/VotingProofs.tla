---------------------------- MODULE VotingProofs ----------------------------
(***************************************************************************)
(* What validators vote on, for every set of nodes or keys, every voting   *)
(* power or sequence of validator sets and majorities, and every bound.    *)
(*                                                                         *)
(* Witness: replicas agree, votes are backed by checks, and what passes is *)
(* genuine.  ProtocolUpgrade: votes are counted once, snapshots hold the   *)
(* votes, proposals do not outlive their height, and releases only go up.  *)
(***************************************************************************)
EXTENDS Witness, ProtocolUpgrade, WellFoundedInduction, TLAPS

-----------------------------------------------------------------------------
(* Votes on what nodes have checked (Witness).                             *)

\* Before every block that was executed there is a state, of the right type (ledger).
LEMMA StateBefore ==
  ASSUME NEW S, NEW T, NEW a \in Seq(S), NEW b \in Seq(T), Len(a) = Len(b) + 1,
         NEW p \in 0 .. Len(b), NEW k \in 1 .. p
  PROVE  k \in 1 .. Len(a) /\ a[k] \in S
OBVIOUS

\* The operators on the agreed state keep its type.
LEMMA TickType ==
  ASSUME NEW c \in Agreed, NEW power, NEW t
  PROVE  AgreedTick(c, power, t) \in Agreed
BY DEF AgreedTick, Agreed, Phases

\* startCheck keeps the type of the agreed state, refused or not.
LEMMA StartType ==
  ASSUME NEW c \in Agreed, NEW start \in Start \cup {NoStart}, NEW t
  PROVE  AgreedStart(c, start, t) \in Agreed
<1>1. CASE ~Starts(c, start, t)
  BY <1>1 DEF AgreedStart
<1>2. CASE Starts(c, start, t)
  <2>1. start \in Start
    BY <1>2 DEF Starts
  <2> QED
    BY <1>2, <2>1 DEF AgreedStart, Agreed, Phases, Start
<1> QED
  BY <1>1, <1>2

\* AddNodeCheck records voters of the topology only, so it keeps the type.
LEMMA ChecksType ==
  ASSUME NEW c \in Agreed, NEW votes, NEW known \in SUBSET Node
  PROVE  AddNodeChecks(c, votes, known) \in Agreed
BY Zenon DEF AddNodeChecks, Agreed

\* Executing a block (OnTick, startCheck, AddNodeCheck) keeps the type.
LEMMA BlockType ==
  ASSUME NEW c \in Agreed, NEW b \in Block, NEW t, NEW known \in SUBSET Node
  PROVE  AgreedBlock(c, b, t, known) \in Agreed
<1>1. b.start \in Start \cup {NoStart}
  BY DEF Block
<1> QED
  BY <1>1, TickType, StartType, ChecksType, Zenon DEF AgreedBlock

\* The topology after a block of the chain is a set of nodes.
LEMMA KnownType ==
  ASSUME chain \in Seq(Block), NEW k \in 0 .. Len(chain)
  PROVE  Known(k) \in SUBSET Node
BY DEF Known

\* IsValidator is a Boolean, for the provers that need to be told.
LEMMA IsValidatorBool ==
  ASSUME NEW n, NEW k
  PROVE  IsValidator(n, k) \in BOOLEAN
<1>1. (n \in Known(k)) \in BOOLEAN
  OBVIOUS
<1> QED
  BY <1>1, Zenon DEF IsValidator

\* A new witness (NewWitness) has a well-typed agreed state.
LEMMA InitType == InitAgreed \in Agreed
BY DEF InitAgreed, Agreed, Phases

-----------------------------------------------------------------------------
\* The initial state (NewWitness on every node) is well typed.
LEMMA TypeInit == Init => TypeOK
<1> SUFFICES ASSUME Init PROVE TypeOK
  OBVIOUS
<1>1. /\ chain \in Seq(Block) /\ Len(chain) = 0
      /\ ledger \in Seq(Agreed) /\ Len(ledger) = 1
  BY InitType DEF Init
<1>2. pos \in [Node -> 0 .. Len(chain)] /\ restarts \in 0 .. MaxRestarts
  BY <1>1, WitnessAssumption DEF Init
<1>3. saved \in [Node -> [pos : 0 .. Len(chain), agreed : Agreed]]
  BY <1>1, InitType DEF Init
<1>4. lastSent \in [Node -> [Res -> Int]]
  BY WitnessAssumption DEF Init, NeverSent
<1> QED
  BY <1>1, <1>2, <1>3, <1>4, InitType DEF Init, TypeOK, Replica, States

\* Every action (block, check routine, commander, restart) keeps the types.
LEMMA TypeStep == TypeOK /\ [Next]_vars => TypeOK'
<1> SUFFICES ASSUME TypeOK, [Next]_vars PROVE TypeOK'
  OBVIOUS
<1> USE DEF TypeOK, Replica
<1>1. ASSUME NEW power \in PowerMaps, NEW announce \in SUBSET (Node \ Validators),
             NEW votes \in SUBSET pool, NEW start \in Start \cup {NoStart},
             ProposeBlock(power, start, announce, votes)
      PROVE  TypeOK'
  <2> DEFINE b == [power |-> power, start |-> start, announce |-> announce,
                   votes |-> votes]
  <2>1. b \in Block
    BY DEF Block
  <2>2. Tip \in Agreed
    BY DEF Tip
  <2>3. Known(Len(chain)) \cup announce \in SUBSET Node
    <3>1. Len(chain) \in 0 .. Len(chain)
      OBVIOUS
    <3> QED
      BY <3>1, KnownType, Zenon
  <2>4. AgreedBlock(Tip, b, Len(chain) + 1, Known(Len(chain)) \cup announce) \in Agreed
    BY <2>1, <2>2, <2>3, BlockType
  <2>5. chain' \in Seq(Block) /\ Len(chain') = Len(chain) + 1
    BY <1>1, <2>1 DEF ProposeBlock
  <2>6. ledger' \in Seq(Agreed) /\ Len(ledger') = Len(ledger) + 1
    BY <1>1, <2>4 DEF ProposeBlock
  <2>7. pos' \in [Node -> 0 .. Len(chain')]
    BY <1>1, <2>5 DEF ProposeBlock
  <2>8. saved' \in [Node -> [pos : 0 .. Len(chain'), agreed : Agreed]]
    BY <1>1, <2>5 DEF ProposeBlock
  <2> QED
    BY <1>1, <2>5, <2>6, <2>7, <2>8 DEF ProposeBlock
<1>2. ASSUME NEW n \in Node, ExecuteBlock(n) PROVE TypeOK'
  <2> DEFINE t == pos[n] + 1
             b == chain[t]
             next == AgreedBlock(cs[n], b, t, Known(t))
  <2>0. /\ pos[n] < Len(chain)
        /\ ExecuteAgreed(n, b, t) /\ SendVotes(n, b, t) /\ TrackChecks(n, b, t)
        /\ UNCHANGED <<chain, pool, restarts, ledger, genuine, checked>>
    BY <1>2, Zenon DEF ExecuteBlock
  <2>1. t \in 1 .. Len(chain) /\ b \in Block
    BY <2>0
  <2>2. next \in Agreed
    BY <2>1, KnownType, BlockType
  <2> HIDE DEF t, b, next
  <2>3. pos' = [pos EXCEPT ![n] = t] /\ cs' = [cs EXCEPT ![n] = next]
    BY <2>0, Zenon DEF ExecuteAgreed, next
  <2>4. pos' \in [Node -> 0 .. Len(chain)] /\ cs' \in [Node -> Agreed]
    BY <2>1, <2>2, <2>3
  <2>5. saved' \in {saved, [saved EXCEPT ![n] = [pos |-> t, agreed |-> next]]}
    BY <2>0, SMTT(30) DEF ExecuteAgreed, Serialise, next
  <2>6. saved' \in [Node -> [pos : 0 .. Len(chain), agreed : Agreed]]
    <3>1. CASE saved' = saved
      BY <3>1
    <3>2. CASE saved' = [saved EXCEPT ![n] = [pos |-> t, agreed |-> next]]
      BY <2>1, <2>2, <3>2, SMTT(30)
    <3> QED
      BY <2>5, <3>1, <3>2
  <2>7. inflight' \in SUBSET Vote
    BY <2>0 DEF SendVotes, Sending, Validated, Resent, Live, Open, Vote
  <2>8. needResend' \in [Node -> SUBSET Res]
    BY <2>0, SMTT(30) DEF SendVotes, Overdue, Live, Open
  <2>9. lastSent' \in [Node -> [Res -> Int]]
    BY <2>0, <2>1, WitnessAssumption DEF SendVotes, NeverSent
  <2>10. state' \in [Node -> [Res -> States]]
    BY <2>0 DEF TrackChecks, StartState, States
  <2>11. routine' \in [Node -> [Res -> BOOLEAN]]
    <3> DEFINE gone == Closing(cs[n], b.power, t)
               new == NewChecks(cs[n], b, t)
               f == [r \in Res |-> IF r \in new THEN IsValidator(n, t - 1)
                                   ELSE routine[n][r] /\ r \notin gone]
    <3>1. routine' = [routine EXCEPT ![n] = f]
      BY <2>0, Zenon DEF TrackChecks
    <3> HIDE DEF gone, new
    <3>2. \A r \in Res : (IF r \in new THEN IsValidator(n, t - 1)
                          ELSE routine[n][r] /\ r \notin gone) \in BOOLEAN
      <4>1. IsValidator(n, t - 1) \in BOOLEAN
        BY IsValidatorBool
      <4>2. \A r \in Res : (routine[n][r] /\ r \notin gone) \in BOOLEAN
        BY Zenon
      <4> QED
        BY <4>1, <4>2, Zenon
    <3>3. f \in [Res -> BOOLEAN]
      BY <3>2
    <3> HIDE DEF f
    <3> QED
      BY <3>1, <3>3
  <2>12. unsupervised' \in SUBSET Vote
    BY <2>0, SMTT(30) DEF TrackChecks, NewChecks, Vote
  <2> QED
    BY <2>0, <2>4, <2>6, <2>7, <2>8, <2>9, <2>10, <2>11, <2>12, Zenon
<1>3. ASSUME NEW n \in Node, Restart(n) PROVE TypeOK'
  <2>1. saved[n].agreed \in Agreed /\ saved[n].pos \in 0 .. Len(chain)
    OBVIOUS
  <2>2. pos' \in [Node -> 0 .. Len(chain)] /\ cs' \in [Node -> Agreed]
    BY <1>3, <2>1, SMTT(30) DEF Restart
  <2>3. state' \in [Node -> [Res -> States]]
    BY <1>3 DEF Restart, RestoreState, States
  <2>4. routine' \in [Node -> [Res -> BOOLEAN]]
    BY <1>3, Zenon DEF Restart
  <2>5. lastSent' \in [Node -> [Res -> Int]]
    BY <1>3, WitnessAssumption, SMTT(30) DEF Restart, NeverSent
  <2>6. inflight' \in SUBSET Vote /\ unsupervised' \in SUBSET Vote
    BY <1>3 DEF Restart, Vote, Open
  <2>7. restarts' \in 0 .. MaxRestarts /\ needResend' \in [Node -> SUBSET Res]
    BY <1>3, WitnessAssumption, SMTT(30) DEF Restart
  <2> QED
    BY <1>3, <2>2, <2>3, <2>4, <2>5, <2>6, <2>7, Zenon DEF Restart
<1>4. ASSUME NEW n \in Node, NEW r \in Res, CheckSucceeds(n, r) PROVE TypeOK'
  <2>1. routine' \in [Node -> [Res -> BOOLEAN]]
    BY <1>4, Zenon DEF CheckSucceeds
  <2>2. state' \in [Node -> [Res -> States]] /\ checked' \in SUBSET Vote
    BY <1>4 DEF CheckSucceeds, States, Vote
  <2> QED
    BY <1>4, <2>1, <2>2, SMTT(30) DEF CheckSucceeds
<1>5. ASSUME NEW n \in Node, NEW r \in Res, CheckGivesUp(n, r) PROVE TypeOK'
  BY <1>5, Zenon DEF CheckGivesUp
<1>6. ASSUME NEW n \in Node, NEW r \in Res, CommandOk(n, r) PROVE TypeOK'
  BY <1>6, Zenon DEF CommandOk, Vote
<1>7. ASSUME NEW n \in Node, NEW r \in Res, CommandFails(n, r) PROVE TypeOK'
  BY <1>7 DEF CommandFails
<1>8. ASSUME NEW n \in Node, NEW r \in Res, CommandLost(n, r) PROVE TypeOK'
  BY <1>8, SMTT(30) DEF CommandLost
<1>9. CASE UNCHANGED vars
  BY <1>9 DEF vars
<1>10. ASSUME Propose PROVE TypeOK'
  <2>1. {Len(chain) + 1 + d : d \in Offsets} \subseteq Int
    <3>1. \A d \in Offsets : Len(chain) + 1 + d \in Int
      BY WitnessAssumption
    <3> QED
      BY <3>1
  <2>2. [res : Res, until : {Len(chain) + 1 + d : d \in Offsets}] \subseteq Start
    BY <2>1 DEF Start
  <2> QED
    BY <1>10, <1>1, <2>2, Zenon DEF Propose
<1> QED
  BY <1>2, <1>3, <1>4, <1>5, <1>6, <1>7, <1>8, <1>9, <1>10, Zenon DEF Next

\* Every variable keeps its type, whatever the schedule (Init and every action).
THEOREM TypeCorrect == Spec => []TypeOK
BY TypeInit, TypeStep, PTL DEF Spec

-----------------------------------------------------------------------------
\* What makes Agreement inductive: each entry of the ledger is the previous one
\* with the block of that height executed on it.
LedgerFollowsChain ==
  \A k \in 1 .. Len(chain) :
    ledger[k + 1] = AgreedBlock(ledger[k], chain[k], k, Known(k))

AgreementInv == TypeOK /\ Agreement /\ LedgerFollowsChain

\* A step that leaves the chain and the ledger alone keeps LedgerFollowsChain.
LEMMA LedgerStays ==
  LedgerFollowsChain /\ UNCHANGED <<chain, ledger>> => LedgerFollowsChain'
<1> SUFFICES ASSUME LedgerFollowsChain, UNCHANGED <<chain, ledger>>
             PROVE  LedgerFollowsChain'
  OBVIOUS
<1>1. ASSUME NEW k PROVE Known(k)' = Known(k)
  BY DEF Known
<1> QED
  BY <1>1 DEF LedgerFollowsChain

\* Replicas agree: a node that has executed k blocks, restarted from snapshots or
\* not, holds the agreed state after block k (ExecuteBlock, Restart).
THEOREM ReplicasAgree == Spec => []Agreement
<1>1. Init => AgreementInv
  <2> SUFFICES ASSUME Init PROVE AgreementInv
    OBVIOUS
  <2>1. TypeOK
    BY TypeInit
  <2>2. Agreement
    BY DEF Init, Agreement
  <2>3. LedgerFollowsChain
    BY DEF Init, LedgerFollowsChain
  <2> QED
    BY <2>1, <2>2, <2>3 DEF AgreementInv
<1>2. AgreementInv /\ [Next]_vars => AgreementInv'
  <2> SUFFICES ASSUME AgreementInv, [Next]_vars PROVE AgreementInv'
    OBVIOUS
  <2> USE DEF AgreementInv
  <2>0. TypeOK'
    BY TypeStep
  <2>1. ASSUME NEW power, NEW announce \in SUBSET Node, NEW votes, NEW start,
               ProposeBlock(power, start, announce, votes)
        PROVE  Agreement' /\ LedgerFollowsChain'
    <3> DEFINE b == [power |-> power, start |-> start, announce |-> announce,
                     votes |-> votes]
               l == AgreedBlock(Tip, b, Len(chain) + 1, Known(Len(chain)) \cup announce)
    <3>1. /\ chain' = Append(chain, b) /\ ledger' = Append(ledger, l)
          /\ UNCHANGED <<pos, cs, saved>>
      BY <2>1, Zenon DEF ProposeBlock
    <3>2. /\ \A k \in 1 .. Len(chain) : chain'[k] = chain[k]
          /\ chain'[Len(chain) + 1] = b /\ Len(chain') = Len(chain) + 1
      <4> HIDE DEF b
      <4> QED
        BY <3>1, SMTT(30) DEF TypeOK
    <3>3. /\ \A k \in 1 .. Len(ledger) : ledger'[k] = ledger[k]
          /\ ledger'[Len(ledger) + 1] = l
      <4> HIDE DEF l
      <4> QED
        BY <3>1 DEF TypeOK
    <3>0. PICK h \in Nat : h = Len(chain)
      BY DEF TypeOK
    <3>4. ASSUME NEW k \in 0 .. h PROVE Known(k)' = Known(k)
      <4>1. ASSUME NEW i \in 1 .. k PROVE chain'[i] = chain[i]
        <5>1. i \in 1 .. Len(chain)
          BY <3>0
        <5> QED
          BY <3>2, <5>1
      <4> QED
        BY <4>1 DEF Known
    <3>5. Known(h + 1)' = Known(h) \cup announce
      <4>1. 1 .. (h + 1) = (1 .. h) \cup {h + 1}
        BY <3>0
      <4>2. chain'[h + 1].announce = announce /\ announce \subseteq Node
        BY <3>0, <3>2
      <4>3. ASSUME NEW i \in 1 .. h PROVE chain'[i] = chain[i]
        BY <3>0, <3>2, ZenonT(40)
      <4> HIDE DEF b
      <4> QED
        BY <4>1, <4>2, <4>3 DEF Known
    <3>6. Agreement'
      BY <3>1, <3>3 DEF Agreement, TypeOK
    <3>7. ASSUME NEW k \in 1 .. Len(chain')
          PROVE  ledger'[k + 1] = AgreedBlock(ledger'[k], chain'[k], k, Known(k)')
      <4>1. CASE k \in 1 .. Len(chain)
        <5>1. ledger[k + 1] = AgreedBlock(ledger[k], chain[k], k, Known(k))
          BY <4>1, Zenon DEF LedgerFollowsChain
        <5>2. ledger'[k + 1] = ledger[k + 1] /\ ledger'[k] = ledger[k]
          <6>1. k \in 1 .. Len(ledger) /\ k + 1 \in 1 .. Len(ledger)
            BY <4>1 DEF TypeOK
          <6> QED
            BY <3>3, <6>1, Zenon
        <5>3. chain'[k] = chain[k] /\ Known(k)' = Known(k)
          BY <3>0, <3>2, <3>4, <4>1
        <5> QED
          BY <5>1, <5>2, <5>3
      <4>2. CASE k = Len(chain) + 1
        <5>1. ledger'[k + 1] = l /\ ledger'[k] = Tip
          BY <3>3, <4>2 DEF TypeOK, Tip
        <5>2. chain'[k] = b /\ Known(k)' = Known(Len(chain)) \cup announce
          <6> HIDE DEF b
          <6> QED
            BY <3>0, <3>2, <3>5, <4>2
        <5> QED
          BY <5>1, <5>2, <4>2, ZenonT(40)
      <4> QED
        BY <3>2, <4>1, <4>2, SMTT(30) DEF TypeOK
    <3>8. LedgerFollowsChain'
      BY <3>7 DEF LedgerFollowsChain
    <3> QED
      BY <3>6, <3>8, Zenon
  <2>2. ASSUME NEW n \in Node, ExecuteBlock(n)
        PROVE  Agreement' /\ LedgerFollowsChain'
    <3> DEFINE t == pos[n] + 1
               next == AgreedBlock(cs[n], chain[t], t, Known(t))
    <3>0. /\ pos[n] < Len(chain) /\ ExecuteAgreed(n, chain[t], t)
          /\ UNCHANGED <<chain, ledger>>
      BY <2>2, Zenon DEF ExecuteBlock
    <3>1. t \in 1 .. Len(chain) /\ t - 1 = pos[n] /\ UNCHANGED <<chain, ledger>>
      <4>1. pos[n] \in Nat /\ Len(chain) \in Nat
        BY DEF TypeOK
      <4> QED
        BY <3>0, <4>1
    <3>2. next = ledger[t + 1]
      BY <3>1, Zenon DEF Agreement, LedgerFollowsChain
    <3>3. /\ pos' = [pos EXCEPT ![n] = t] /\ cs' = [cs EXCEPT ![n] = next]
          /\ saved' \in {saved, [saved EXCEPT ![n] = [pos |-> t, agreed |-> next]]}
      BY <3>0, Zenon DEF ExecuteAgreed, Serialise
    <3>4. Agreement'
      <4> HIDE DEF next
      <4>1. \A m \in Node : cs'[m] = ledger'[pos'[m] + 1]
        BY <3>1, <3>2, <3>3, Zenon DEF Agreement, TypeOK, Replica
      <4>2. \A m \in Node : saved'[m].agreed = ledger'[saved'[m].pos + 1]
        <5>1. CASE saved' = saved
          BY <5>1, <3>1, SMTT(30) DEF Agreement
        <5>2. CASE saved' = [saved EXCEPT ![n] = [pos |-> t, agreed |-> next]]
          BY <5>2, <3>1, <3>2, SMTT(30) DEF Agreement, TypeOK
        <5> QED
          BY <5>1, <5>2, <3>3, SMTT(30)
      <4> QED
        BY <4>1, <4>2 DEF Agreement
    <3>5. LedgerFollowsChain'
      BY <3>1, LedgerStays
    <3> QED
      BY <3>4, <3>5
  <2>3. ASSUME NEW n \in Node, Restart(n)
        PROVE  Agreement' /\ LedgerFollowsChain'
    <3>1. Agreement'
      BY <2>3, Zenon DEF Restart, Agreement, TypeOK, Replica
    <3>2. LedgerFollowsChain'
      BY <2>3, LedgerStays, Zenon DEF Restart
    <3> QED
      BY <3>1, <3>2
  <2>4. CASE UNCHANGED <<chain, ledger, pos, cs, saved>>
    BY <2>0, <2>4, LedgerStays, ZenonT(40) DEF Agreement
  <2>5. ASSUME NEW n \in Node, NEW r \in Res,
               \/ CheckSucceeds(n, r) \/ CheckGivesUp(n, r)
               \/ CommandOk(n, r) \/ CommandFails(n, r) \/ CommandLost(n, r)
        PROVE  UNCHANGED <<chain, ledger, pos, cs, saved>>
    BY <2>5 DEF CheckSucceeds, CheckGivesUp, CommandOk, CommandFails, CommandLost
  <2>6. CASE UNCHANGED vars
    BY <2>4, <2>6, ZenonT(40) DEF vars
  <2>7. CASE Propose
    BY <2>0, <2>1, <2>7 DEF Propose
  <2> QED
    BY <2>0, <2>2, <2>3, <2>4, <2>5, <2>6, <2>7 DEF Next
<1>3. AgreementInv => Agreement
  BY Zenon DEF AgreementInv
<1> QED
  BY <1>1, <1>2, <1>3, PTL DEF Spec

-----------------------------------------------------------------------------
\* Where a vote comes from: whatever can still become a recorded vote of n for r
\* already has n's check, or n's taking r up unchecked, behind it.
Vouched == checked \cup unsupervised

VoteOrigin ==
  /\ pool \subseteq Vouched /\ inflight \subseteq Vouched
  /\ \A k \in 1 .. Len(chain) : chain[k].votes \subseteq Vouched
  /\ \A n \in Node, r \in Res :
       r \in needResend[n] \/ state[n][r] # "notValidated" => <<n, r>> \in Vouched
  /\ \A n, m \in Node, r \in Res : m \in cs[n].votes[r] => <<m, r>> \in Vouched
  /\ \A n, m \in Node, r \in Res :
       m \in saved[n].agreed.votes[r] => <<m, r>> \in Vouched

\* Executing a block records no vote that was not recorded before or in the block.
LEMMA BlockVotes ==
  ASSUME NEW c \in Agreed, NEW b \in Block, NEW t, NEW known \in SUBSET Node,
         NEW m, NEW r \in Res, m \in AgreedBlock(c, b, t, known).votes[r]
  PROVE  m \in c.votes[r] \/ <<m, r>> \in b.votes
<1> DEFINE c1 == AgreedTick(c, b.power, t)
           c2 == AgreedStart(c1, b.start, t)
<1>1. b.start \in Start \cup {NoStart}
  BY DEF Block
<1>2. c1 \in Agreed /\ c2 \in Agreed
  BY <1>1, TickType, StartType, Zenon
<1>3. c1.votes[r] \subseteq c.votes[r]
  BY Zenon DEF AgreedTick, Agreed
<1>4. c2.votes[r] \subseteq c1.votes[r]
  <2> HIDE DEF c1
  <2>1. CASE ~Starts(c1, b.start, t)
    BY <2>1, Zenon DEF AgreedStart
  <2>2. CASE Starts(c1, b.start, t)
    <3>1. c2.votes = [c1.votes EXCEPT ![b.start.res] = {}]
      BY <2>2 DEF AgreedStart
    <3> QED
      BY <3>1, <1>2, Zenon DEF Agreed
  <2> QED
    BY <2>1, <2>2, Zenon
<1>5. m \in c2.votes[r] \/ <<m, r>> \in b.votes
  <2>1. m \in AddNodeChecks(c2, b.votes, known).votes[r]
    BY DEF AgreedBlock
  <2> HIDE DEF c2
  <2> QED
    BY <2>1, <1>2, ZenonT(40) DEF AddNodeChecks, Agreed
<1> QED
  BY <1>3, <1>4, <1>5, Zenon

VoteInv == TypeOK /\ VoteOrigin

\* Initially there is no vote anywhere, so every vote has an origin.
LEMMA VoteInit == Init => VoteInv
<1> SUFFICES ASSUME Init PROVE VoteInv
  OBVIOUS
<1>1. TypeOK
  BY TypeInit
<1>2. Len(chain) = 0 /\ 1 .. Len(chain) = {}
  <2>1. chain = <<>>
    BY Zenon DEF Init
  <2>2. Len(chain) = 0
    BY <2>1
  <2> QED
    BY <2>2
<1>3. ASSUME NEW r \in Res PROVE InitAgreed.votes[r] = {}
  BY Zenon DEF InitAgreed
<1>4. ASSUME NEW n \in Node
      PROVE  /\ cs[n] = InitAgreed /\ saved[n].agreed = InitAgreed
             /\ needResend[n] = {} /\ \A r \in Res : state[n][r] = "notValidated"
  BY Zenon DEF Init
<1>5. pool = {} /\ inflight = {}
  BY Zenon DEF Init
<1>6. VoteOrigin
  BY <1>2, <1>3, <1>4, <1>5, Zenon DEF VoteOrigin
<1> QED
  BY <1>1, <1>6, Zenon DEF VoteInv

\* Every action keeps the origin of votes: OnTick sends, the commander moves and
\* AddNodeCheck records votes of checked or unsupervised resources only.
LEMMA VoteStep == VoteInv /\ [Next]_vars => VoteInv'
<1> SUFFICES ASSUME VoteInv, [Next]_vars PROVE VoteInv'
  OBVIOUS
<1> USE DEF VoteInv
<1>0. TypeOK'
  BY TypeStep, Zenon
<1>1. ASSUME NEW power, NEW announce, NEW votes \in SUBSET pool, NEW start,
             ProposeBlock(power, start, announce, votes)
      PROVE  VoteOrigin'
  <2> DEFINE b == [power |-> power, start |-> start, announce |-> announce,
                   votes |-> votes]
  <2>1. /\ pool' \subseteq pool
        /\ chain' = Append(chain, b)
        /\ UNCHANGED <<inflight, cs, state, needResend, saved, checked, unsupervised>>
    BY <1>1, Zenon DEF ProposeBlock
  <2>2. ASSUME NEW k \in 1 .. Len(chain') PROVE chain'[k].votes \subseteq Vouched
    <3>1. CASE k \in 1 .. Len(chain)
      <4>1. chain'[k] = chain[k]
        <5> HIDE DEF b
        <5> QED
          BY <2>1, <3>1, SMTT(30) DEF TypeOK
      <4> QED
        BY <4>1, <3>1, ZenonT(40) DEF VoteOrigin
    <3>2. CASE k = Len(chain) + 1
      <4>1. chain'[k] = b
        <5> HIDE DEF b
        <5> QED
          BY <2>1, <3>2, SMTT(30) DEF TypeOK
      <4>2. b.votes = votes
        BY Zenon
      <4>3. pool \subseteq Vouched
        BY Zenon DEF VoteOrigin
      <4> HIDE DEF b
      <4> QED
        BY <4>1, <4>2, <4>3, Zenon
    <3>3. Len(chain') = Len(chain) + 1
      BY <2>1, SMTT(30) DEF TypeOK
    <3>4. Len(chain) \in Nat
      BY DEF TypeOK
    <3>5. k \in 1 .. Len(chain) \/ k = Len(chain) + 1
      BY <3>3, <3>4
    <3> QED
      BY <3>1, <3>2, <3>5, Zenon
  <2> QED
    BY <2>1, <2>2, SMTT(30) DEF VoteOrigin, Vouched
<1>2. ASSUME NEW n \in Node, ExecuteBlock(n) PROVE VoteOrigin'
  <2> DEFINE t == pos[n] + 1
             b == chain[t]
             next == AgreedBlock(cs[n], b, t, Known(t))
             sent == Sending(n, cs[n], b.power, t)
             new == NewChecks(cs[n], b, t)
  <2>0. /\ pos[n] < Len(chain)
        /\ ExecuteAgreed(n, b, t) /\ SendVotes(n, b, t) /\ TrackChecks(n, b, t)
        /\ UNCHANGED <<chain, pool, restarts, ledger, genuine, checked>>
    BY <1>2, Zenon DEF ExecuteBlock
  <2>1. t \in 1 .. Len(chain) /\ b \in Block /\ cs[n] \in Agreed
    BY <2>0, SMTT(30) DEF TypeOK, Replica
  <2>2. Known(t) \in SUBSET Node
    BY <2>1, KnownType, SMTT(30) DEF TypeOK
  <2> HIDE DEF t, b, next, sent, new
  <2>3. UNCHANGED <<chain, pool, checked>> /\ Vouched \subseteq Vouched'
    <3>1. UNCHANGED <<chain, pool, checked>>
      BY <2>0, Zenon
    <3>2. unsupervised \subseteq unsupervised'
      BY <2>0, Zenon DEF TrackChecks
    <3> QED
      BY <3>1, <3>2, Zenon DEF Vouched
  <2>4. \A r \in sent : r \in Res /\ <<n, r>> \in Vouched
    BY Zenon DEF sent, Sending, Validated, Resent, Live, Open, VoteOrigin
  <2>5. ASSUME NEW m \in Node, NEW r \in Res, m \in next.votes[r]
        PROVE  <<m, r>> \in Vouched
    <3>1. m \in cs[n].votes[r] \/ <<m, r>> \in b.votes
      BY <2>1, <2>2, <2>5, BlockVotes, Zenon DEF next
    <3>2. b.votes \subseteq Vouched
      BY <2>1, ZenonT(40) DEF VoteOrigin, b
    <3>3. m \in cs[n].votes[r] => <<m, r>> \in Vouched
      BY Zenon DEF VoteOrigin
    <3> QED
      BY <3>1, <3>2, <3>3, SMTT(30)
  <2>6. inflight' \subseteq Vouched'
    <3>1. inflight' = inflight \cup ({n} \X sent)
      BY <2>0, Zenon DEF SendVotes, sent
    <3> HIDE DEF sent
    <3> QED
      BY <3>1, <2>3, <2>4 DEF VoteOrigin
  <2>7. ASSUME NEW m \in Node, NEW r \in Res, r \in needResend'[m]
        PROVE  <<m, r>> \in Vouched'
    <3>1. r \in needResend[m] \/ (m = n /\ state[n][r] = "voteSent")
      BY <2>0, <2>7, Zenon DEF SendVotes, Overdue, TypeOK
    <3> QED
      BY <3>1, <2>3, SMTT(30) DEF VoteOrigin
  <2>8. ASSUME NEW m \in Node, NEW r \in Res, state'[m][r] # "notValidated"
        PROVE  <<m, r>> \in Vouched'
    <3>1. CASE m # n
      <4>1. state'[m] = state[m]
        BY <2>0, <3>1 DEF TrackChecks, TypeOK
      <4> QED
        BY <4>1, <2>3, <2>8, Zenon DEF VoteOrigin
    <3>2. CASE m = n /\ r \in sent
      BY <3>2, <2>3, <2>4
    <3>3. CASE m = n /\ r \notin sent /\ r \in new
      <4>1. state'[n][r] = StartState(n, t)
        BY <2>0, <3>3, SMTT(30) DEF TrackChecks, sent, new, TypeOK
      <4>2. ~IsValidator(n, t - 1)
        BY <4>1, <2>8, <3>3 DEF StartState
      <4>3. unsupervised' = unsupervised \cup ({n} \X new)
        BY <2>0, <4>2, Zenon DEF TrackChecks, new
      <4> QED
        BY <4>3, <3>3, Zenon DEF Vouched
    <3>4. CASE m = n /\ r \notin sent /\ r \notin new
      <4>1. state'[n][r] \in {"notValidated", state[n][r]}
        BY <2>0, <3>4, Zenon DEF TrackChecks, sent, new, TypeOK
      <4> QED
        BY <4>1, <3>4, <2>3, <2>8, Zenon DEF VoteOrigin
    <3> QED
      BY <3>1, <3>2, <3>3, <3>4, SMTT(30)
  <2>9. ASSUME NEW l \in Node, NEW m \in Node, NEW r \in Res
        PROVE  /\ m \in cs'[l].votes[r] => <<m, r>> \in Vouched'
               /\ m \in saved'[l].agreed.votes[r] => <<m, r>> \in Vouched'
    <3>1. cs' = [cs EXCEPT ![n] = next]
      BY <2>0, Zenon DEF ExecuteAgreed, next
    <3>2. saved' \in {saved, [saved EXCEPT ![n] = [pos |-> t, agreed |-> next]]}
      BY <2>0, SMTT(30) DEF ExecuteAgreed, next, Serialise
    <3> HIDE DEF next
    <3>3. m \in cs'[l].votes[r] => <<m, r>> \in Vouched'
      BY <3>1, <2>3, <2>5, Zenon DEF VoteOrigin, TypeOK, Replica
    <3>4. saved'[l].agreed \in {saved[l].agreed, next}
      <4>1. CASE saved' = saved
        BY <4>1
      <4>2. CASE saved' = [saved EXCEPT ![n] = [pos |-> t, agreed |-> next]]
        BY <4>2, Zenon DEF TypeOK
      <4> QED
        BY <3>2, <4>1, <4>2
    <3>5. m \in saved'[l].agreed.votes[r] => <<m, r>> \in Vouched'
      BY <3>4, <2>3, <2>5 DEF VoteOrigin
    <3> QED
      BY <3>3, <3>5
  <2> QED
    BY <2>3, <2>6, <2>7, <2>8, <2>9, Zenon DEF VoteOrigin
<1>3. ASSUME NEW n \in Node, Restart(n) PROVE VoteOrigin'
  <2> DEFINE c == saved[n].agreed
  <2>1. /\ UNCHANGED <<chain, pool, saved, checked>>
        /\ inflight' \subseteq inflight
        /\ unsupervised' = unsupervised \cup ({n} \X Open(c))
        /\ cs' = [cs EXCEPT ![n] = c]
        /\ needResend' = [needResend EXCEPT ![n] = {}]
        /\ state' = [state EXCEPT ![n] = [r \in Res |-> RestoreState(n, c, r)]]
    BY <1>3, Zenon DEF Restart
  <2>2. Vouched \subseteq Vouched'
    BY <2>1 DEF Vouched
  <2>3. ASSUME NEW m \in Node, NEW r \in Res,
               r \in needResend'[m] \/ state'[m][r] # "notValidated"
        PROVE  <<m, r>> \in Vouched'
    <3>1. CASE m = n
      <4>1. r \in Open(c)
        BY <2>1, <2>3, <3>1, Zenon DEF RestoreState, TypeOK
      <4> QED
        BY <2>1, <3>1, <4>1, Zenon DEF Vouched
    <3>2. CASE m # n
      BY <2>1, <2>2, <2>3, <3>2, SMTT(30) DEF VoteOrigin, TypeOK
    <3> QED
      BY <3>1, <3>2
  <2> QED
    BY <2>1, <2>2, <2>3, Zenon DEF VoteOrigin, TypeOK, Replica
<1>4. ASSUME NEW n \in Node, NEW r \in Res, CheckSucceeds(n, r) PROVE VoteOrigin'
  BY <1>4, Zenon DEF CheckSucceeds, VoteOrigin, Vouched, TypeOK
<1>5. ASSUME NEW n \in Node, NEW r \in Res,
             CheckGivesUp(n, r) \/ CommandOk(n, r) \/ CommandLost(n, r)
      PROVE  VoteOrigin'
  BY <1>5, SMTT(30) DEF CheckGivesUp, CommandOk, CommandLost, VoteOrigin, Vouched
<1>6. ASSUME NEW n \in Node, NEW r \in Res, CommandFails(n, r) PROVE VoteOrigin'
  BY <1>6, Zenon DEF CommandFails, VoteOrigin, Vouched, TypeOK
<1>7. CASE UNCHANGED vars
  BY <1>0, <1>7, Zenon DEF vars, VoteOrigin, Vouched
<1>8. CASE Propose
  BY <1>0, <1>1, <1>8 DEF Propose
<1> QED
  BY <1>0, <1>2, <1>3, <1>4, <1>5, <1>6, <1>7, <1>8 DEF Next

\* No vote out of nothing: a recorded vote of a node was preceded by a successful
\* check at that node, or by the node restoring or registering the resource
\* without checking it (start, OnTick, onCommandSent, restore, startCheck).
THEOREM VotesChecked == Spec => []VotesAreChecked
<1>1. VoteInv => VotesAreChecked
  BY DEF VoteInv, VoteOrigin, Vouched, VotesAreChecked
<1> QED
  BY <1>1, VoteInit, VoteStep, PTL DEF Spec

-----------------------------------------------------------------------------
\* A check only succeeds for a resource that exists (start, Check), and the votes
\* in the agreed state after any block have an origin.
CheckedIsGenuine == checked \subseteq Node \X genuine

LedgerVotes ==
  \A k \in 1 .. Len(ledger), m \in Node, r \in Res :
    m \in ledger[k].votes[r] => <<m, r>> \in Vouched

GenuineInv == VoteInv /\ CheckedIsGenuine /\ LedgerVotes

\* What a node has checked or taken up unchecked stays so, and nothing becomes
\* genuine or stops being so; only a successful check adds to what was checked.
LEMMA VouchedGrows ==
  ASSUME TypeOK, [Next]_vars
  PROVE  /\ Vouched \subseteq Vouched' /\ genuine' = genuine
         /\ CheckedIsGenuine => CheckedIsGenuine'
<1>1. ASSUME NEW n \in Node, NEW r \in Res, CheckSucceeds(n, r)
      PROVE  /\ Vouched \subseteq Vouched' /\ genuine' = genuine
             /\ CheckedIsGenuine => CheckedIsGenuine'
  BY <1>1 DEF CheckSucceeds, Vouched, CheckedIsGenuine
<1>2. CASE checked' = checked /\ genuine' = genuine /\ unsupervised \subseteq unsupervised'
  BY <1>2, Zenon DEF Vouched, CheckedIsGenuine
<1>3. ASSUME NEW n \in Node, NEW r \in Res,
             \/ CheckGivesUp(n, r) \/ CommandOk(n, r)
             \/ CommandFails(n, r) \/ CommandLost(n, r)
      PROVE  checked' = checked /\ genuine' = genuine /\ unsupervised \subseteq unsupervised'
  BY <1>3 DEF CheckGivesUp, CommandOk, CommandFails, CommandLost
<1>4. ASSUME NEW n \in Node, ExecuteBlock(n) \/ Restart(n)
      PROVE  checked' = checked /\ genuine' = genuine /\ unsupervised \subseteq unsupervised'
  BY <1>4, Zenon DEF ExecuteBlock, TrackChecks, Restart
<1>5. ASSUME Propose
      PROVE  checked' = checked /\ genuine' = genuine /\ unsupervised \subseteq unsupervised'
  BY <1>5 DEF Propose, ProposeBlock
<1>6. ASSUME UNCHANGED vars
      PROVE  checked' = checked /\ genuine' = genuine /\ unsupervised \subseteq unsupervised'
  BY <1>6 DEF vars
<1> QED
  BY <1>1, <1>2, <1>3, <1>4, <1>5, <1>6, Zenon DEF Next

\* A block adds to the ledger no vote without an origin (ProposeBlock), and no
\* other step changes the ledger.
LEMMA LedgerVotesStep ==
  ASSUME VoteInv, LedgerVotes, [Next]_vars
  PROVE  LedgerVotes'
<1>1. TypeOK /\ VoteOrigin /\ Vouched \subseteq Vouched'
  BY VouchedGrows DEF VoteInv
<1>2. CASE ledger' = ledger
  BY <1>1, <1>2 DEF LedgerVotes
<1>3. ASSUME NEW power \in PowerMaps, NEW announce \in SUBSET (Node \ Validators),
             NEW votes \in SUBSET pool, NEW start \in Start \cup {NoStart},
             ProposeBlock(power, start, announce, votes)
      PROVE  LedgerVotes'
  <2> DEFINE b == [power |-> power, start |-> start, announce |-> announce,
                   votes |-> votes]
             known == Known(Len(chain)) \cup announce
             l == AgreedBlock(Tip, b, Len(chain) + 1, known)
  <2>1. ledger' = Append(ledger, l)
    BY <1>3, Zenon DEF ProposeBlock
  <2>2. b \in Block /\ b.votes \subseteq pool
    BY <1>1 DEF Block, TypeOK
  <2>3. Tip \in Agreed /\ Len(chain) + 1 = Len(ledger)
    BY <1>1 DEF Tip, TypeOK
  <2>4. known \in SUBSET Node
    <3>1. Len(chain) \in 0 .. Len(chain)
      BY <1>1 DEF TypeOK
    <3> QED
      BY <1>1, <3>1, KnownType, Zenon DEF TypeOK
  <2>5. ASSUME NEW m \in Node, NEW r \in Res, m \in l.votes[r]
        PROVE  <<m, r>> \in Vouched
    <3> HIDE DEF b, known
    <3>1. m \in Tip.votes[r] \/ <<m, r>> \in b.votes
      BY <2>2, <2>3, <2>4, <2>5, BlockVotes, SMTT(30)
    <3>2. m \in Tip.votes[r] => <<m, r>> \in Vouched
      <4>1. Len(chain) + 1 \in 1 .. Len(ledger)
        BY <1>1, SMTT(30) DEF TypeOK
      <4> QED
        BY <4>1 DEF LedgerVotes, Tip
    <3> QED
      BY <1>1, <2>2, <3>1, <3>2, ZenonT(40) DEF VoteOrigin
  <2>6. ASSUME NEW k \in 1 .. Len(ledger')
        PROVE  ledger'[k] = l \/ (k \in 1 .. Len(ledger) /\ ledger'[k] = ledger[k])
    <3> HIDE DEF l
    <3> QED
      BY <1>1, <2>1 DEF TypeOK
  <2> HIDE DEF l
  <2> QED
    BY <1>1, <2>5, <2>6, Zenon DEF LedgerVotes
<1>4. CASE Propose
  <2>1. {Len(chain) + 1 + d : d \in Offsets} \subseteq Int
    <3>1. \A d \in Offsets : Len(chain) + 1 + d \in Int
      BY <1>1, WitnessAssumption DEF TypeOK
    <3> QED
      BY <3>1
  <2>2. [res : Res, until : {Len(chain) + 1 + d : d \in Offsets}] \subseteq Start
    BY <2>1 DEF Start
  <2> QED
    BY <1>3, <1>4, <2>2, Zenon DEF Propose
<1>5. ASSUME NEW n \in Node, ExecuteBlock(n) \/ Restart(n) PROVE ledger' = ledger
  BY <1>5, Zenon DEF ExecuteBlock, Restart
<1>6. ASSUME NEW n \in Node, NEW r \in Res,
             \/ CheckSucceeds(n, r) \/ CheckGivesUp(n, r) \/ CommandOk(n, r)
             \/ CommandFails(n, r) \/ CommandLost(n, r)
      PROVE  ledger' = ledger
  BY <1>6 DEF CheckSucceeds, CheckGivesUp, CommandOk, CommandFails, CommandLost
<1>7. UNCHANGED vars => ledger' = ledger
  BY DEF vars
<1> QED
  BY <1>2, <1>4, <1>5, <1>6, <1>7, Zenon DEF Next

\* A resource that OnTick closes as passed had the required share of the votes.
LEMMA PassedHasQuorum ==
  ASSUME NEW c \in Agreed, NEW power, NEW t, NEW r \in Res, c.phase[r] = "open",
         AgreedTick(c, power, t).phase[r] = "passed"
  PROVE  votePassed(c.votes[r], power)
BY Zenon DEF AgreedTick

\* No resource that does not exist passes on checks that failed: the callback is
\* told TRUE for it only if nodes that took it up unchecked, after a restart or
\* before they were validators, have the required power by themselves (start,
\* OnTick, votePassed, restore).
THEOREM PassedGenuine == Spec => []PassedMeansGenuine
<1>1. Init => GenuineInv
  <2> SUFFICES ASSUME Init PROVE GenuineInv
    OBVIOUS
  <2>1. VoteInv
    BY VoteInit
  <2>2. CheckedIsGenuine
    BY Zenon DEF Init, CheckedIsGenuine
  <2>3. LedgerVotes
    BY DEF Init, LedgerVotes, InitAgreed
  <2> QED
    BY <2>1, <2>2, <2>3, Zenon DEF GenuineInv
<1>2. GenuineInv /\ [Next]_vars => GenuineInv'
  <2> SUFFICES ASSUME GenuineInv, [Next]_vars PROVE GenuineInv'
    OBVIOUS
  <2>1. VoteInv /\ CheckedIsGenuine /\ LedgerVotes /\ TypeOK
    BY Zenon DEF GenuineInv, VoteInv
  <2>2. VoteInv'
    BY <2>1, VoteStep, Zenon
  <2>3. CheckedIsGenuine'
    BY <2>1, VouchedGrows, Zenon
  <2>4. LedgerVotes'
    BY <2>1, LedgerVotesStep, Zenon
  <2> QED
    BY <2>2, <2>3, <2>4, Zenon DEF GenuineInv
<1>3. GenuineInv => PassedMeansGenuine
  <2> SUFFICES ASSUME GenuineInv, NEW r \in Res \ genuine, NEW n \in Node,
                      NEW k \in 1 .. pos[n], ledger[k].phase[r] = "open",
                      AgreedTick(ledger[k], chain[k].power, k).phase[r] = "passed"
               PROVE  \E S \in SUBSET {m \in Node : <<m, r>> \in unsupervised} :
                        votePassed(S, chain[k].power)
    BY Zenon DEF PassedMeansGenuine
  <2>1. TypeOK /\ CheckedIsGenuine /\ LedgerVotes
    BY Zenon DEF GenuineInv, VoteInv
  <2>2. /\ ledger \in Seq(Agreed) /\ chain \in Seq(Block)
        /\ Len(ledger) = Len(chain) + 1 /\ pos[n] \in 0 .. Len(chain)
    BY <2>1, Zenon DEF TypeOK
  <2>3. k \in 1 .. Len(ledger) /\ ledger[k] \in Agreed
    BY <2>2, StateBefore, Zenon
  <2>4. votePassed(ledger[k].votes[r], chain[k].power)
    BY <2>3, PassedHasQuorum, Zenon
  <2>5. ledger[k].votes[r] \in SUBSET Node
    BY <2>3, Zenon DEF Agreed
  <2>6. ASSUME NEW m \in Node, m \in ledger[k].votes[r] PROVE <<m, r>> \in unsupervised
    <3>1. <<m, r>> \in checked \cup unsupervised
      BY <2>1, <2>3, <2>6, Zenon DEF LedgerVotes, Vouched
    <3>2. <<m, r>> \notin Node \X genuine
      BY Zenon
    <3> QED
      BY <3>1, <3>2, <2>1, Zenon DEF CheckedIsGenuine
  <2> QED
    BY <2>4, <2>5, <2>6, Zenon
<1> QED
  BY <1>1, <1>2, <1>3, PTL DEF Spec

-----------------------------------------------------------------------------
(* Votes on releases (ProtocolUpgrade).                                    *)

\* What makes VersionsGrow inductive: votes are for releases not older than the running
\* one, so is the accepted one, and a node that is ready for an upgrade has one accepted,
\* executes nothing and has no votes left.
ReleasesAhead ==
  /\ \A i \in ID : active[i] # {} => i[1] >= version
  /\ accepted # None => accepted[1] >= version
  /\ coreReady => accepted # None /\ ~executing /\ \A i \in ID : active[i] = {}
  /\ ready => coreReady

UpgradeInv == UpgradeTypeOK /\ OneVoteEach /\ EventsMirror /\ NothingStale /\ ReleasesAhead

\* A nonempty set of numbers has a least element.
LEMMA LeastNumber ==
  ASSUME NEW S \in SUBSET Nat, S # {}
  PROVE  \E m \in S : \A x \in S : m <= x
<1>1. \E m \in S : \A x \in S : ~(<<x, m>> \in OpToRel(<, Nat))
  BY NatLessThanWellFounded, WFMin, Zenon
<1>2. OpToRel(<, Nat) = {p \in Nat \X Nat : p[1] < p[2]}
  BY Zenon DEF OpToRel
<1> DEFINE R == OpToRel(<, Nat)
<1>3. \E m \in S : \A x \in S : <<x, m>> \notin R
  BY <1>1, Zenon
<1>4. R = {p \in Nat \X Nat : p[1] < p[2]}
  BY <1>2, Zenon
<1> HIDE DEF R
<1>5. \A x, m \in Nat : <<x, m>> \notin R => m <= x
  <2> TAKE x, m \in Nat
  <2>1. <<x, m>> \in Nat \X Nat /\ <<x, m>>[1] = x /\ <<x, m>>[2] = m
    OBVIOUS
  <2>2. x < m => <<x, m>> \in R
    BY <1>4, <2>1
  <2>. QED BY <2>2
<1>. QED BY <1>3, <1>5, Zenon

\* BeginBlock accepts one of the proposals that have a majority, if there are any.
LEMMA EarliestIsOne ==
  ASSUME NEW ids \in SUBSET ID
  PROVE  Earliest(ids) \in ids \cup {None}
<1>1. CASE ids = {}
  BY <1>1 DEF Earliest
<1>2. CASE ids # {}
  <2>1. \A i \in ids : i[1] \in Nat /\ i[2] \in Nat /\ i = <<i[1], i[2]>>
    BY DEF ID, Version, Height
  <2> DEFINE H == {i[2] : i \in ids}
  <2>2. PICK h \in H : \A x \in H : h <= x
    <3>1. H \in SUBSET Nat /\ H # {}
      BY <1>2, <2>1
    <3> HIDE DEF H
    <3>. QED BY <3>1, LeastNumber
  <2> DEFINE V == {i[1] : i \in {j \in ids : j[2] = h}}
  <2>3. PICK v \in V : \A x \in V : v <= x
    <3>1. V \in SUBSET Nat /\ V # {}
      BY <2>1, <2>2
    <3> HIDE DEF V
    <3>. QED BY <3>1, LeastNumber
  <2>4. PICK i \in ids : i[2] = h /\ i[1] = v
    BY <2>3
  <2>5. \A j \in ids : i[2] < j[2] \/ (i[2] = j[2] /\ i[1] <= j[1])
    <3> SUFFICES ASSUME NEW j \in ids, j[2] <= i[2] PROVE i[2] = j[2] /\ i[1] <= j[1]
      BY <2>1
    <3>1. j[2] = h
      BY <2>1, <2>2, <2>4, SMTT(30)
    <3>. QED BY <2>3, <2>4, <3>1
  <2>6. \E k \in ids : \A j \in ids : k[2] < j[2] \/ (k[2] = j[2] /\ k[1] <= j[1])
    BY <2>5
  <2>. QED BY <1>2, <2>6 DEF Earliest
<1>. QED BY <1>1, <1>2

\* The invariant holds at genesis.
LEMMA UpgradeInvInit == UpgradeInit => UpgradeInv
<1> SUFFICES ASSUME UpgradeInit PROVE UpgradeInv
  OBVIOUS
<1> USE UpgradeAssumption DEF UpgradeInit
<1>1. active = NoVotes /\ events = NoVotes /\ NoVotes \in [ID -> SUBSET Pk]
  BY DEF NoVotes
<1>2. UpgradeTypeOK
  <2>1. version \in Version
    BY DEF Version
  <2>2. block \in 0 .. MaxBlock /\ current \in 0 .. MaxBlock /\ crashes \in 0 .. MaxCrashes
    OBVIOUS
  <2>. QED BY <1>1, <2>1, <2>2, Zenon DEF UpgradeTypeOK
<1>3. OneVoteEach /\ EventsMirror /\ NothingStale /\ ReleasesAhead
  <2>1. \A i \in ID : active[i] = {}
    BY <1>1 DEF NoVotes
  <2>. QED BY <1>1, <2>1, Zenon DEF OneVoteEach, EventsMirror, NothingStale, ReleasesAhead
<1>. QED BY <1>2, <1>3 DEF UpgradeInv

\* The parts of the invariant.
LEMMA UpgradeInvParts ==
  ASSUME UpgradeInv
  PROVE  UpgradeTypeOK /\ OneVoteEach /\ EventsMirror /\ NothingStale /\ ReleasesAhead
BY Zenon DEF UpgradeInv

\* A vote replaces the other votes of its key, and the events follow (UpgradeProposal).
LEMMA ProposalInv ==
  ASSUME UpgradeInv, NEW pk \in Pk, NEW id \in ID, UpgradeProposal(pk, id)
  PROVE  UpgradeInv'
<1>1. UpgradeTypeOK /\ OneVoteEach /\ EventsMirror /\ NothingStale /\ ReleasesAhead
  BY UpgradeInvParts, Zenon
<1>2. /\ executing /\ id[2] > current /\ id[1] >= version
      /\ active' = VotesAfter(active, pk, id, id[1] = version)
      /\ events' = EventsAfter(active, pk, id, id[1] = version)
      /\ UNCHANGED <<block, executing, epoch, version, current, accepted, coreReady,
                     dataReady, ready, reported, crashes>>
  BY Zenon DEF UpgradeProposal, IsValidProposal
<1>3. active \in [ID -> SUBSET Pk] /\ events = active
  BY <1>1, Zenon DEF UpgradeTypeOK, EventsMirror
<1>4. ASSUME NEW i \in ID
      PROVE  /\ active'[i] \in SUBSET Pk /\ active'[i] \subseteq active[i] \cup {pk}
             /\ pk \in active'[i] => i = id
             /\ active'[i] # {} => active[i] # {} \/ (i = id /\ id[1] # version)
             /\ EventsAfter(active, pk, id, id[1] = version)[i] = active'[i]
  <2>1. active'[i] = IF i = id
                     THEN (IF id[1] = version THEN active[i] ELSE active[i] \cup {pk})
                     ELSE active[i] \ {pk}
    BY <1>2, Zenon DEF VotesAfter
  <2>2. EventsAfter(active, pk, id, id[1] = version)[i]
          = IF i = id
            THEN (IF id[1] = version THEN active[i] ELSE active[i] \cup {pk})
            ELSE IF pk \in active[i] THEN active[i] \ {pk} ELSE active[i]
    BY <1>3, Zenon DEF EventsAfter
  <2>3. active[i] \in SUBSET Pk
    BY <1>3, Zenon
  <2>4. active'[i] \in SUBSET Pk /\ active'[i] \subseteq active[i] \cup {pk}
    BY <2>1, <2>3, Zenon
  <2>5. pk \in active'[i] => i = id
    BY <2>1, Zenon
  <2>6. active'[i] # {} => active[i] # {} \/ (i = id /\ id[1] # version)
    BY <2>1, Zenon
  <2>7. pk \notin active[i] => active[i] \ {pk} = active[i]
    BY Zenon
  <2>8. EventsAfter(active, pk, id, id[1] = version)[i] = active'[i]
    BY <2>1, <2>2, <2>7, Zenon
  <2> QED
    BY <2>4, <2>5, <2>6, <2>8, Zenon
<1>5. active' = [i \in ID |-> active'[i]] /\ events' = [i \in ID |-> events'[i]]
  BY <1>2, Zenon DEF VotesAfter, EventsAfter
<1>6. EventsMirror'
  <2>1. \A i \in ID : events'[i] = active'[i]
    BY <1>2, <1>4, Zenon
  <2>2. [i \in ID |-> events'[i]] = [i \in ID |-> active'[i]]
    BY <2>1, Zenon
  <2> QED
    BY <1>5, <2>2, Zenon DEF EventsMirror
<1>7. UpgradeTypeOK'
  <2>1. active' \in [ID -> SUBSET Pk] /\ events' = active'
    BY <1>4, <1>5, <1>6, Zenon DEF EventsMirror
  <2> QED
    BY <1>1, <1>2, <2>1, Zenon DEF UpgradeTypeOK
<1>8. OneVoteEach'
  <2>1. ASSUME NEW i \in ID, NEW j \in ID, NEW k \in active'[i], k \in active'[j], i # j
        PROVE  FALSE
    <3>1. k # pk
      BY <1>4, <2>1, Zenon
    <3>2. k \in active[i] /\ k \in active[j]
      BY <1>4, <2>1, <3>1, Zenon
    <3> QED
      BY <1>1, <2>1, <3>2, Zenon DEF OneVoteEach
  <2> QED
    BY <2>1, Zenon DEF OneVoteEach
<1>9. NothingStale'
  <2>1. id[2] >= current
    BY <1>1, <1>2 DEF UpgradeTypeOK, ID, Height
  <2> QED
    BY <1>1, <1>2, <1>4, <2>1, Zenon DEF NothingStale
<1>10. ReleasesAhead'
  BY <1>1, <1>2, <1>4, Zenon DEF ReleasesAhead
<1> QED
  BY <1>6, <1>7, <1>8, <1>9, <1>10, Zenon DEF UpgradeInv

\* BeginBlock drops what is due and has no majority, and accepts the earliest that has.
LEMMA BeginInv ==
  ASSUME UpgradeInv, NEW ep \in Epoch, BeginBlock(ep)
  PROVE  UpgradeInv'
<1>1. UpgradeTypeOK /\ OneVoteEach /\ EventsMirror /\ NothingStale /\ ReleasesAhead
  BY UpgradeInvParts, Zenon
<1>2. PICK h, R, A : /\ h = block + 1 /\ R = Rejected(active, h, ep)
                     /\ A = {i \in ID : isAccepted(active, i, h, ep)}
  BY Zenon
<1>3. /\ ~coreReady /\ block < MaxBlock /\ block' = h /\ current' = h /\ executing' = TRUE /\ epoch' = ep
      /\ active' = [i \in ID |-> IF i \in R THEN {} ELSE active[i]]
      /\ events' = [i \in ID |-> IF i \in R THEN {} ELSE events[i]]
      /\ accepted' = Earliest(A)
      /\ UNCHANGED <<version, coreReady, dataReady, ready, reported, crashes>>
  BY <1>2, Zenon DEF BeginBlock
<1>4. h \in 0 .. MaxBlock /\ h \in Nat
  BY <1>1, <1>2, <1>3, UpgradeAssumption DEF UpgradeTypeOK
<1>5. active \in [ID -> SUBSET Pk] /\ events = active
  BY <1>1, Zenon DEF UpgradeTypeOK, EventsMirror
<1>6. EventsMirror'
  BY <1>3, <1>5, Zenon DEF EventsMirror
<1>7. ASSUME NEW i \in ID
      PROVE  /\ active'[i] \in SUBSET Pk /\ active'[i] \subseteq active[i]
             /\ active'[i] # {} => i \notin R /\ active[i] # {}
  <2>1. active'[i] = IF i \in R THEN {} ELSE active[i]
    BY <1>3, Zenon
  <2> QED
    BY <1>5, <2>1, Zenon
<1>8. accepted' \in A \cup {None}
  <2>1. A \in SUBSET ID
    BY <1>2, Zenon
  <2> QED
    BY <1>3, <2>1, EarliestIsOne, Zenon
<1>9. ASSUME NEW i \in A PROVE i \in ID /\ active[i] # {}
  <2>1. i \in ID /\ active[i] \in Majority[ep]
    BY <1>2, Zenon DEF isAccepted
  <2> QED
    BY <2>1, UpgradeAssumption, Zenon
<1>10. UpgradeTypeOK'
  <2>1. active' = [i \in ID |-> active'[i]]
    BY <1>3, Zenon
  <2>2. active' \in [ID -> SUBSET Pk] /\ events' \in [ID -> SUBSET Pk]
    BY <1>6, <1>7, <2>1, Zenon DEF EventsMirror
  <2>3. accepted' \in ID \cup {None}
    BY <1>8, <1>9, Zenon
  <2> QED
    BY <1>1, <1>3, <1>4, <2>2, <2>3, Zenon DEF UpgradeTypeOK
<1>11. OneVoteEach'
  <2>1. ASSUME NEW i \in ID, NEW j \in ID, i # j PROVE active'[i] \cap active'[j] = {}
    <3>1. active[i] \cap active[j] = {}
      BY <1>1, <2>1, Zenon DEF OneVoteEach
    <3>2. active'[i] \subseteq active[i] /\ active'[j] \subseteq active[j]
      BY <1>7, Zenon
    <3> QED
      BY <3>1, <3>2, Zenon
  <2> QED
    BY <2>1, Zenon DEF OneVoteEach
<1>12. NothingStale'
  <2>1. ASSUME NEW i \in ID, active'[i] # {} PROVE i[2] >= h
    <3>1. i \notin Rejected(active, h, ep)
      BY <1>2, <1>7, <2>1, Zenon
    <3>2. i[2] >= h \/ ~(h >= i[2])
      BY <3>1, Zenon DEF Rejected, isAccepted
    <3>3. i[2] \in Nat
      BY DEF ID, Height
    <3> QED
      BY <1>4, <3>2, <3>3
  <2> QED
    BY <1>3, <2>1, Zenon DEF NothingStale
<1>13. ReleasesAhead'
  <2>1. \A i \in ID : active'[i] # {} => i[1] >= version
    BY <1>1, <1>7, Zenon DEF ReleasesAhead
  <2>2. accepted' # None => accepted'[1] >= version
    BY <1>1, <1>8, <1>9, Zenon DEF ReleasesAhead
  <2> QED
    BY <1>1, <1>3, <2>1, <2>2, Zenon DEF ReleasesAhead
<1> QED
  BY <1>6, <1>10, <1>11, <1>12, <1>13, Zenon DEF UpgradeInv

\* Finalize clears all votes when the node stops for an upgrade.
LEMMA FinalizeInv ==
  ASSUME UpgradeInv, Finalize
  PROVE  UpgradeInv'
<1>1. UpgradeTypeOK /\ OneVoteEach /\ EventsMirror /\ NothingStale /\ ReleasesAhead
  BY UpgradeInvParts, Zenon
<1>2. /\ executing' = FALSE
      /\ UNCHANGED <<block, epoch, version, current, accepted, dataReady, ready, crashes>>
  BY Zenon DEF Finalize
<1>3. CASE TimeForUpgrade
  <2>1. /\ active' = NoVotes /\ events' = NoVotes /\ coreReady' = TRUE /\ accepted # None
        /\ reported' \in {"approved", "rejected"}
    BY <1>3 DEF Finalize, TimeForUpgrade
  <2>2. NoVotes \in [ID -> SUBSET Pk] /\ \A i \in ID : NoVotes[i] = {}
    BY DEF NoVotes
  <2>3. reported' \in {"none", "approved", "rejected"}
    BY <2>1, Zenon
  <2>4. UpgradeTypeOK'
    BY <1>1, <1>2, <2>1, <2>2, <2>3, Zenon DEF UpgradeTypeOK
  <2>5. OneVoteEach' /\ NothingStale' /\ EventsMirror'
    BY <1>2, <2>1, <2>2, Zenon DEF OneVoteEach, NothingStale, EventsMirror
  <2>6. ReleasesAhead'
    BY <1>1, <1>2, <2>1, <2>2, Zenon DEF ReleasesAhead
  <2> QED
    BY <2>4, <2>5, <2>6, Zenon DEF UpgradeInv
<1>4. CASE ~TimeForUpgrade
  <2>1. UNCHANGED <<active, events, reported, coreReady>>
    BY <1>4, Zenon DEF Finalize
  <2>2. UpgradeTypeOK'
    BY <1>1, <1>2, <2>1, Zenon DEF UpgradeTypeOK
  <2>3. OneVoteEach' /\ NothingStale' /\ EventsMirror'
    BY <1>1, <1>2, <2>1, Zenon DEF OneVoteEach, NothingStale, EventsMirror
  <2>4. ReleasesAhead'
    BY <1>1, <1>2, <2>1, Zenon DEF ReleasesAhead
  <2> QED
    BY <2>2, <2>3, <2>4, Zenon DEF UpgradeInv
<1> QED
  BY <1>3, <1>4, Zenon

\* A restart, with the same release or the accepted one, finds the votes in the events.
LEMMA LoadInv ==
  ASSUME UpgradeInv, StartRelease \/ Crash
  PROVE  UpgradeInv' /\ version' >= version
<1>1. UpgradeTypeOK /\ OneVoteEach /\ EventsMirror /\ NothingStale /\ ReleasesAhead
  BY UpgradeInvParts, Zenon
<1>2. /\ active' = events /\ current' = 0 /\ coreReady' = FALSE /\ dataReady' = FALSE
      /\ ready' = FALSE /\ UNCHANGED <<block, executing, epoch, events, accepted, reported>>
  BY Zenon DEF StartRelease, Crash, Load
<1>3. active' = active /\ events' = active /\ executing = FALSE
  <2>1. ready => ~executing
    BY <1>1, Zenon DEF ReleasesAhead
  <2>2. ~executing
    BY <2>1, Zenon DEF StartRelease, Crash
  <2>3. executing = FALSE
    BY <1>1, <2>2, Zenon DEF UpgradeTypeOK
  <2> QED
    BY <1>1, <1>2, <2>3, Zenon DEF EventsMirror
<1>4. /\ version' \in Version /\ version' >= version /\ crashes' \in 0 .. MaxCrashes
      /\ accepted # None => accepted[1] >= version'
      /\ \A i \in ID : active[i] # {} => i[1] >= version'
  <2>1. CASE StartRelease
    <3>1. accepted # None /\ (\A i \in ID : active[i] = {}) /\ version' = accepted[1]
      BY <1>1, <2>1, Zenon DEF StartRelease, ReleasesAhead
    <3>2. accepted \in ID /\ accepted[1] >= version /\ crashes' = crashes
      BY <1>1, <2>1, <3>1, Zenon DEF StartRelease, UpgradeTypeOK, ReleasesAhead
    <3>3. accepted[1] \in Version
      BY <3>2 DEF ID
    <3>4. accepted[1] >= accepted[1]
      BY <3>3 DEF Version
    <3>5. crashes' \in 0 .. MaxCrashes
      BY <1>1, <3>2, Zenon DEF UpgradeTypeOK
    <3> QED
      BY <3>1, <3>2, <3>3, <3>4, <3>5, Zenon
  <2>2. CASE Crash
    <3>1. version' = version /\ crashes' = crashes + 1 /\ crashes < MaxCrashes
      BY <2>2, Zenon DEF Crash
    <3>2. version \in Version /\ version >= version /\ crashes' \in 0 .. MaxCrashes
      BY <1>1, <3>1, UpgradeAssumption DEF UpgradeTypeOK, Version
    <3> QED
      BY <1>1, <3>1, <3>2, Zenon DEF ReleasesAhead
  <2> QED
    BY <2>1, <2>2, Zenon
<1>5. OneVoteEach' /\ NothingStale' /\ EventsMirror'
  BY <1>1, <1>2, <1>3, Zenon DEF OneVoteEach, NothingStale, EventsMirror
<1>6. UpgradeTypeOK'
  <2>1. 0 \in 0 .. MaxBlock
    BY UpgradeAssumption
  <2> QED
    BY <1>1, <1>2, <1>4, <2>1, Zenon DEF UpgradeTypeOK
<1>7. ReleasesAhead'
  BY <1>2, <1>3, <1>4, Zenon DEF ReleasesAhead
<1> QED
  BY <1>4, <1>5, <1>6, <1>7, Zenon DEF UpgradeInv

\* Every step keeps the invariant, and no step goes back to an older release.
LEMMA UpgradeInvStep ==
  UpgradeInv /\ [UpgradeNext]_upgradeVars => UpgradeInv' /\ version' >= version
<1> SUFFICES ASSUME UpgradeInv, [UpgradeNext]_upgradeVars PROVE UpgradeInv' /\ version' >= version
  OBVIOUS
<1>1. version >= version
  BY DEF UpgradeInv, UpgradeTypeOK, Version
<1>2. ASSUME NEW pk \in Pk, NEW id \in ID, UpgradeProposal(pk, id)
      PROVE  UpgradeInv' /\ version' >= version
  BY <1>1, <1>2, ProposalInv, Zenon DEF UpgradeProposal
<1>3. ASSUME NEW ep \in Epoch, BeginBlock(ep) PROVE UpgradeInv' /\ version' >= version
  BY <1>1, <1>3, BeginInv, Zenon DEF BeginBlock
<1>4. CASE Finalize
  BY <1>1, <1>4, FinalizeInv, Zenon DEF Finalize
<1>5. CASE DataNodeReady \/ SetReadyForUpgrade \/ UNCHANGED upgradeVars
  <2>1. UNCHANGED <<block, executing, epoch, version, current, active, events, accepted,
                    coreReady, reported, crashes>>
    BY <1>5, Zenon DEF DataNodeReady, SetReadyForUpgrade, upgradeVars, engine
  <2>2. dataReady' \in BOOLEAN /\ ready' \in BOOLEAN /\ (ready' => coreReady)
    <3>1. dataReady \in BOOLEAN /\ ready \in BOOLEAN /\ (ready => coreReady)
      BY DEF UpgradeInv, UpgradeTypeOK, ReleasesAhead
    <3>2. CASE DataNodeReady
      BY <3>1, <3>2 DEF DataNodeReady
    <3>3. CASE SetReadyForUpgrade
      BY <3>1, <3>3 DEF SetReadyForUpgrade
    <3>4. CASE UNCHANGED upgradeVars
      BY <3>1, <3>4 DEF upgradeVars
    <3>. QED BY <1>5, <3>2, <3>3, <3>4, Zenon
  <2>3. UpgradeTypeOK'
    BY <2>1, <2>2, Zenon DEF UpgradeInv, UpgradeTypeOK
  <2>4. OneVoteEach' /\ EventsMirror' /\ NothingStale' /\ ReleasesAhead'
    BY <2>1, <2>2, Zenon DEF UpgradeInv, OneVoteEach, EventsMirror, NothingStale, ReleasesAhead
  <2>. QED BY <1>1, <2>1, <2>3, <2>4, Zenon DEF UpgradeInv
<1>6. CASE StartRelease \/ Crash
  BY <1>6, LoadInv, Zenon
<1>. QED BY <1>2, <1>3, <1>4, <1>5, <1>6, Zenon DEF UpgradeNext

\* Every variable keeps its type, for all keys, epochs and bounds.
THEOREM UpgradeTypeCorrect == UpgradeSpec => []UpgradeTypeOK
<1>. QED BY UpgradeInvInit, UpgradeInvStep, PTL DEF UpgradeSpec, UpgradeInv

\* No key is ever counted for two proposals, and what a snapshot holds are the votes
\* (UpgradeProposal, sendAndKeepEvent, serialise, LoadState).
THEOREM VotesExact == UpgradeSpec => []VotesAreExact
<1>. QED BY UpgradeInvInit, UpgradeInvStep, PTL DEF UpgradeSpec, UpgradeInv, VotesAreExact

\* No proposal outlives its height (BeginBlock).
THEOREM ProposalsEndInTime == UpgradeSpec => []NothingStale
<1>. QED BY UpgradeInvInit, UpgradeInvStep, PTL DEF UpgradeSpec, UpgradeInv

\* A node is only replaced by a newer release (IsValidProposal).
THEOREM ReleasesGoUp == UpgradeSpec => VersionsGrow
<1>1. UpgradeInv /\ [UpgradeNext]_upgradeVars => [version' >= version]_upgradeVars
  BY UpgradeInvStep
<1>. QED BY <1>1, UpgradeInvInit, UpgradeInvStep, PTL DEF UpgradeSpec, VersionsGrow

=============================================================================
