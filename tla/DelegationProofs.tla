-------------------------- MODULE DelegationProofs --------------------------
(***************************************************************************)
(* What sound nominations (NominationProofs) mean for the end of an epoch, *)
(* for snapshots and checkpoints, and for the stake behind a nomination.   *)
(***************************************************************************)
EXTENDS NominationProofs

-----------------------------------------------------------------------------
(* The end of an epoch.                                                    *)

\* Sound nominations make the end of an epoch safe.
LEMMA SafeByInv ==
  ASSUME Inv
  PROVE  EpochEndIsSafe
<1>1. PICK r : r = Reconciled(links, epoch.start, now + 1)
  OBVIOUS
<1>2. /\ validators \in SUBSET Node /\ links \in SUBSET Link /\ IsFiniteSet(links)
      /\ IsDelegation(cur, validators) /\ IsDelegation(next, validators)
      /\ \A p \in DOMAIN next : HasAccount(links, p)
  BY Zenon DEF Inv
<1>3. /\ IsCutTo(r.cur, cur, StakeInRange(links, epoch.start, now + 1), validators)
      /\ IsCutTo(r.next, next, StakeNow(links), validators)
  BY <1>1, <1>2, ReconciledFacts, Zenon
<1>4. /\ IsDelegation(r.cur, validators) /\ IsDelegation(r.next, validators)
      /\ DOMAIN r.next \in SUBSET DOMAIN next
  BY <1>3, Zenon DEF IsCutTo
<1>5. \A ds \in {r.cur, r.next} : \A p \in DOMAIN ds : DOMAIN ds[p].on \subseteq validators
  <2>1. ASSUME NEW ds, IsDelegation(ds, validators), NEW p \in DOMAIN ds
        PROVE  DOMAIN ds[p].on \subseteq validators
    <3>1. IsState(ds[p], validators)
      BY <2>1, Zenon DEF IsDelegation
    <3> QED
      BY <3>1, Zenon DEF IsState
  <2> QED
    BY <1>4, <2>1, Zenon
<1>6. ASSUME NEW p \in DOMAIN r.next
      PROVE  r.next[p].total # 0 /\ GetAvailableBalance(links, p).balance # 0
  <2>1. PICK T, b : T = r.next[p].total /\ b = GetAvailableBalance(links, p).balance
    OBVIOUS
  <2>2. HasAccount(links, p)
    BY <1>2, <1>4, Zenon
  <2>3. T \in Nat \ {0} /\ b \in Nat /\ T <= b
    BY <1>2, <1>3, <2>1, <2>2, CutCovers, Zenon
  <2>4. T # 0 /\ b # 0
    BY <2>3
  <2> QED
    BY <2>1, <2>4, Zenon
<1> QED
  BY <1>1, <1>5, <1>6, Zenon DEF EpochEndIsSafe

\* The end of an epoch finds every node it looks up and never divides by zero
\* (getValidatorData, ProcessEpochDelegations).
THEOREM EpochEndSafety == Spec => []EpochEndIsSafe
<1>1. Inv => EpochEndIsSafe
  BY SafeByInv
<1> QED
  BY <1>1, NominationsAreSound, PTL

-----------------------------------------------------------------------------
(* Checkpoints.                                                            *)

\* Nominations in which the state of one party is replaced.
LEMMA LooseWith ==
  ASSUME NEW ds, IsLoose(ds), NEW p \in Party, NEW s, IsSums(s), NEW w, Replaces(w, ds, p, s)
  PROVE  /\ IsLoose(w) /\ p \in DOMAIN w
         /\ \A q, n : On(w, q, n) = IF q = p THEN OnNode(s, n) ELSE On(ds, q, n)
<1>1. PICK D : D = DOMAIN ds \cup {p}
  BY Zenon
<1>2. w = [q \in D |-> IF q = p THEN s ELSE ds[q]]
  <2>1. CASE w = WithParty(ds, p, s)
    BY <1>1, <2>1, Zenon DEF WithParty
  <2>2. CASE p \in DOMAIN ds /\ w = [ds EXCEPT ![p] = s]
    <3>1. D = DOMAIN ds
      BY <1>1, <2>2, Zenon
    <3>2. [ds EXCEPT ![p] = s] = [q \in DOMAIN ds |-> IF q = p THEN s ELSE ds[q]]
      BY <2>2, Zenon
    <3> QED
      BY <2>2, <3>1, <3>2, Zenon
  <2> QED
    BY <2>1, <2>2, Zenon DEF Replaces
<1>3. DOMAIN w = D /\ w = [q \in D |-> w[q]] /\ w[p] = s /\ \A q \in D : q # p => q \in DOMAIN ds /\ w[q] = ds[q]
  BY <1>1, <1>2, Zenon
<1>4. \A q \in D : IsSums(w[q])
  BY <1>3, Zenon DEF IsLoose
<1>5. D \in SUBSET Party
  BY <1>1, Zenon DEF IsLoose
<1>6. ASSUME NEW q, NEW n PROVE On(w, q, n) = IF q = p THEN OnNode(s, n) ELSE On(ds, q, n)
  <2>1. CASE q = p
    BY <1>1, <1>3, <2>1, Zenon DEF On, OnNode
  <2>2. CASE q # p
    <3>1. q \in DOMAIN w <=> q \in DOMAIN ds
      BY <1>1, <1>3, <2>2, Zenon
    <3> QED
      BY <1>3, <2>2, <3>1, Zenon DEF On
  <2> QED
    BY <2>1, <2>2, Zenon
<1> QED
  BY <1>1, <1>3, <1>4, <1>5, <1>6, Zenon DEF IsLoose

\* The entry of getPending for a party and a node.
Difference(a, b, p, n) ==
  [party |-> p, node |-> n,
   amount |-> IF On(b, p, n) > On(a, p, n) THEN On(b, p, n) - On(a, p, n)
                                           ELSE On(a, p, n) - On(b, p, n),
   undelegate |-> On(b, p, n) < On(a, p, n)]

\* e leads from a to b for its party on its node.
IsEntry(e, a, b) ==
  /\ e = Difference(a, b, e.party, e.node)
  /\ e.party \in Party /\ e.node \in Node /\ e.amount \in Nat
  /\ On(a, e.party, e.node) \in Nat /\ On(b, e.party, e.node) \in Nat
  /\ ~ e.undelegate => On(b, e.party, e.node) = On(a, e.party, e.node) + e.amount
  /\ e.undelegate => /\ On(b, e.party, e.node) = On(a, e.party, e.node) + (-e.amount)
                     /\ On(a, e.party, e.node) # 0

\* e is the entry for p and n, and says nothing when there is no difference.
IsDifference(e, a, b, p, n) ==
  /\ e.party = p /\ e.node = n /\ IsEntry(e, a, b)
  /\ e.amount = 0 <=> On(a, p, n) = On(b, p, n)

Covers(s, p, n) == \E e \in s : e.party = p /\ e.node = n

\* The entries of getPending are the differences of the two epochs, all of them.
LEMMA PendingFacts ==
  ASSUME NEW V \in SUBSET Node, NEW a, IsDelegation(a, V), NEW b, IsDelegation(b, V),
         NEW E, E = getPending(a, b)
  PROVE  /\ \A e \in E : IsEntry(e, a, b)
         /\ \A p \in Party, n \in Node : On(a, p, n) # On(b, p, n) => Covers(E, p, n)
         /\ IsFiniteSet(E)
<1>1. \A e : e \in E <=> /\ \E p \in Party, n \in Node : e = Difference(a, b, p, n)
                         /\ e.amount # 0
  <2>1. E = {e \in {Difference(a, b, p, n) : p \in Party, n \in Node} : e.amount # 0}
    BY SMTT(30) DEF getPending, Difference
  <2> QED
    BY <2>1
<1>2. ASSUME NEW p \in Party, NEW n \in Node, NEW e, e = Difference(a, b, p, n)
      PROVE  IsDifference(e, a, b, p, n)
  <2>1. PICK x \in Nat, y \in Nat : x = On(a, p, n) /\ y = On(b, p, n)
    BY OnIsNat, Zenon
  <2>2. PICK d : d = IF y > x THEN y - x ELSE x - y
    OBVIOUS
  <2>3. e = [party |-> p, node |-> n, amount |-> d, undelegate |-> y < x]
    BY <1>2, <2>1, <2>2, Zenon DEF Difference
  <2>4. e.party = p /\ e.node = n /\ e.amount = d /\ (e.undelegate <=> y < x)
    BY <2>3, Zenon
  <2>5. d \in Nat /\ (d = 0 <=> x = y)
    BY <2>2
  <2>6. CASE y < x
    <3>1. y = x + (-d) /\ x # 0
      BY <2>2, <2>6
    <3> QED
      <4>1. y = x + (-e.amount) /\ e.undelegate /\ e.amount \in Nat
        BY <2>4, <2>5, <2>6, <3>1
      <4>2. IsEntry(e, a, b)
        BY <1>2, <2>1, <2>4, <3>1, <4>1, Zenon DEF IsEntry
      <4> QED
        BY <2>1, <2>4, <2>5, <4>2, Zenon DEF IsDifference
  <2>7. CASE ~(y < x)
    <3>1. y = x + d
      BY <2>2, <2>7
    <3> QED
      BY <1>2, <2>1, <2>2, <2>4, <2>5, <2>7, <3>1, Zenon DEF IsEntry, IsDifference
  <2> QED
    BY <2>6, <2>7, Zenon
<1>3. ASSUME NEW e \in E
      PROVE  /\ IsEntry(e, a, b) /\ e.party \in DOMAIN a \cup DOMAIN b /\ e.node \in Node
  <2>1. e.amount # 0
    BY <1>1, Zenon
  <2>2. PICK p \in Party, n \in Node : e = Difference(a, b, p, n)
    BY <1>1, Zenon
  <2>6. IsDifference(e, a, b, p, n)
    BY <1>2, <2>2, Zenon
  <2>3. e.party = p /\ e.node = n /\ IsEntry(e, a, b) /\ On(a, p, n) # On(b, p, n)
    BY <2>1, <2>6, Zenon DEF IsDifference
  <2>4. p \in DOMAIN a \cup DOMAIN b
    <3>1. SUFFICES ASSUME p \notin DOMAIN a, p \notin DOMAIN b PROVE FALSE
      BY Zenon
    <3>2. On(a, p, n) = 0 /\ On(b, p, n) = 0
      BY <3>1, Zenon DEF On
    <3> QED
      BY <2>3, <3>2, Zenon
  <2> QED
    BY <2>3, <2>4, Zenon
<1>4. ASSUME NEW p \in Party, NEW n \in Node, On(a, p, n) # On(b, p, n) PROVE Covers(E, p, n)
  <2>1. PICK e : e = Difference(a, b, p, n)
    OBVIOUS
  <2>4. IsDifference(e, a, b, p, n)
    BY <1>2, <2>1, Zenon
  <2>2. e.party = p /\ e.node = n /\ e.amount # 0
    BY <1>4, <2>4, Zenon DEF IsDifference
  <2>3. e \in E
    BY <1>1, <2>1, <2>2, Zenon
  <2> QED
    BY <2>2, <2>3, Zenon DEF Covers
<1>5. IsFiniteSet(E)
  <2>1. PICK T : T = (DOMAIN a \cup DOMAIN b) \X Node
    BY Zenon
  <2>2. IsFiniteSet(T)
    <3>1. IsFiniteSet(DOMAIN a) /\ IsFiniteSet(DOMAIN b) /\ IsFiniteSet(Node)
      BY DelegationAssumption, Zenon DEF IsDelegation
    <3>2. IsFiniteSet(DOMAIN a \cup DOMAIN b)
      BY <3>1, FS_Union, Zenon
    <3> QED
      BY <2>1, <3>1, <3>2, FS_Product, Zenon
  <2>3. PICK f : f = [e \in E |-> <<e.party, e.node>>]
    BY Zenon
  <2>4. f \in [E -> T]
    <3>1. \A e \in E : <<e.party, e.node>> \in T
      BY <1>3, <2>1, Zenon
    <3> QED
      BY <2>3, <3>1, Zenon
  <2>5. ASSUME NEW e \in E, NEW d \in E, f[e] = f[d] PROVE e = d
    <3>1. <<e.party, e.node>> = <<d.party, d.node>>
      BY <2>3, <2>5, Zenon
    <3>2. e.party = d.party /\ e.node = d.node
      BY <3>1, Zenon
    <3>3. e = Difference(a, b, e.party, e.node) /\ d = Difference(a, b, d.party, d.node)
      BY <1>3, Zenon DEF IsEntry
    <3> QED
      BY <3>2, <3>3, Zenon
  <2>6. f \in Injection(E, T)
    BY <2>4, <2>5, Zenon DEF Injection, IsInjective
  <2> QED
    BY <2>2, <2>6, FS_Injection, Zenon
<1> QED
  BY <1>3, <1>4, <1>5, Zenon

\* One step of setPending.
Apply(ds, e) ==
  IF ~ e.undelegate THEN increase(ds, e.party, e.node, e.amount)
  ELSE IF On(ds, e.party, e.node) = 0 THEN ds
  ELSE [ds EXCEPT ![e.party] = Decreased(@, e.node, Smaller(@.on[e.node], e.amount))]

\* w is ds with the entry e applied.
Applies(w, ds, e, a, b) ==
  /\ IsLoose(w)
  /\ \A q, m : ~(q = e.party /\ m = e.node) => On(w, q, m) = On(ds, q, m)
  /\ On(ds, e.party, e.node) = On(a, e.party, e.node)
       => On(w, e.party, e.node) = On(b, e.party, e.node)

\* An entry changes what it is about, from this epoch's nomination to the next one's.
LEMMA ApplyFacts ==
  ASSUME NEW ds, IsLoose(ds), NEW a, NEW b, NEW e, IsEntry(e, a, b), NEW w, w = Apply(ds, e)
  PROVE  Applies(w, ds, e, a, b)
<1>1. PICK p, n, amt, x, y : /\ p = e.party /\ n = e.node /\ amt = e.amount
                             /\ x = On(a, p, n) /\ y = On(b, p, n)
  OBVIOUS
<1>2. /\ p \in Party /\ n \in Node /\ amt \in Nat /\ x \in Nat /\ y \in Nat
      /\ ~ e.undelegate => y = x + amt
      /\ e.undelegate => y = x + (-amt) /\ x # 0
  BY <1>1, Zenon DEF IsEntry
<1>3. CASE ~ e.undelegate
  <2>1. w = increase(ds, p, n, amt)
    BY <1>1, <1>3, Zenon DEF Apply
  <2>2. PICK E, h : Increases(w, ds, p, n, amt, E, h)
    BY <1>2, <2>1, IncreasedState, Zenon
  <2>3. PICK s : s = [total |-> SumOf(h), on |-> h]
    BY Zenon
  <2>4. h \in [E -> Nat] /\ E \in SUBSET Node /\ w = WithParty(ds, p, s)
    BY <2>2, <2>3, Zenon DEF Increases
  <2>5. s.total = SumOf(h) /\ s.on = h /\ DOMAIN s.on = E
    BY <2>3, <2>4
  <2>6. IsSums(s) /\ Replaces(w, ds, p, s)
    BY <2>3, <2>4, <2>5, Zenon DEF IsSums, Replaces
  <2>7. /\ IsLoose(w)
        /\ \A q, m : On(w, q, m) = IF q = p THEN OnNode(s, m) ELSE On(ds, q, m)
    BY <1>2, <2>6, LooseWith, SMTT(20)
  <2>8. ASSUME NEW m, m # n PROVE OnNode(s, m) = On(ds, p, m)
    <3>1. CASE m \in E
      <4>1. h[m] = On(ds, p, m) + 0 /\ p \in DOMAIN ds /\ m \in DOMAIN ds[p].on
        BY <2>2, <2>8, <3>1, Zenon DEF Increases
      <4>2. IsSums(ds[p])
        BY <4>1, Zenon DEF IsLoose
      <4>3. PICK z \in Nat : z = On(ds, p, m)
        <5>1. ds[p].on[m] \in Nat
          BY <4>1, <4>2, SumsFacts, Zenon
        <5> QED
          BY <4>1, <5>1, Zenon DEF On
      <4>4. z + 0 = z
        OBVIOUS
      <4> QED
        BY <2>5, <3>1, <4>1, <4>3, <4>4, Zenon DEF OnNode
    <3>2. CASE m \notin E
      <4>1. ~(p \in DOMAIN ds /\ m \in DOMAIN ds[p].on)
        BY <2>2, <3>2, Zenon DEF Increases
      <4> QED
        BY <2>5, <3>2, <4>1, Zenon DEF On, OnNode
    <3> QED
      BY <3>1, <3>2, Zenon
  <2>9. OnNode(s, n) = On(ds, p, n) + amt
    BY <2>2, <2>5, Zenon DEF Increases, OnNode
  <2>10. On(ds, p, n) = x => On(w, p, n) = y
    BY <1>2, <1>3, <2>7, <2>9, Zenon
  <2>11. ASSUME NEW q, NEW m, ~(q = p /\ m = n) PROVE On(w, q, m) = On(ds, q, m)
    BY <2>7, <2>8, <2>11, Zenon
  <2> QED
    BY <1>1, <2>7, <2>10, <2>11, Zenon DEF Applies
<1>4. CASE e.undelegate /\ On(ds, p, n) = 0
  <2>1. w = ds
    BY <1>1, <1>4, Zenon DEF Apply
  <2>2. On(ds, p, n) # x
    BY <1>2, <1>4, Zenon
  <2> QED
    BY <1>1, <2>1, <2>2, Zenon DEF Applies
<1>5. CASE e.undelegate /\ On(ds, p, n) # 0
  <2>1. p \in DOMAIN ds /\ n \in DOMAIN ds[p].on
    BY <1>5, Zenon DEF On
  <2>2. PICK t, z : t = ds[p] /\ z = t.on[n]
    OBVIOUS
  <2>3. IsSums(t) /\ z = On(ds, p, n) /\ z = OnNode(t, n)
    BY <2>1, <2>2, Zenon DEF IsLoose, On, OnNode
  <2>4. z \in Nat
    BY <2>1, <2>2, <2>3, SumsFacts, Zenon
  <2>5. PICK some : some = Smaller(z, amt)
    OBVIOUS
  <2>6. some \in Nat /\ some <= z /\ (amt <= z => some = amt)
    <3>1. some = IF z < amt THEN z ELSE amt
      BY <2>5, Zenon DEF Smaller
    <3> QED
      BY <1>2, <2>4, <3>1
  <2>7. PICK u : u = Decreased(t, n, some)
    OBVIOUS
  <2>8. PICK h : Decreases(u, t, n, some, h)
    BY <2>3, <2>6, <2>7, DecreasedState, Zenon
  <2>9. /\ h \in [DOMAIN t.on -> Nat] /\ u = [total |-> SumOf(h), on |-> h]
        /\ \A m \in DOMAIN t.on : h[m] = IF m = n THEN t.on[m] + (-some) ELSE t.on[m]
    BY <2>8, Zenon DEF Decreases
  <2>10. u.total = SumOf(h) /\ u.on = h /\ DOMAIN u.on = DOMAIN t.on
    BY <2>9
  <2>11. IsSums(u)
    BY <2>3, <2>9, <2>10, Zenon DEF IsSums
  <2>12. Replaces(w, ds, p, u)
    <3>1. w = [ds EXCEPT ![p] = Decreased(ds[p], n, Smaller(ds[p].on[n], amt))]
      BY <1>1, <1>5, <2>1 DEF Apply
    <3> QED
      BY <2>1, <2>2, <2>5, <2>7, <3>1, Zenon DEF Replaces
  <2>13. /\ IsLoose(w)
         /\ \A q, m : On(w, q, m) = IF q = p THEN OnNode(u, m) ELSE On(ds, q, m)
    BY <1>2, <2>11, <2>12, LooseWith, SMTT(20)
  <2>14. ASSUME NEW m, m # n PROVE OnNode(u, m) = On(ds, p, m)
    BY <2>1, <2>2, <2>9, <2>10, <2>14, Zenon DEF On, OnNode
  <2>15. OnNode(u, n) = z + (-some)
    BY <2>1, <2>2, <2>9, <2>10, Zenon DEF OnNode
  <2>16. On(ds, p, n) = x => On(w, p, n) = y
    <3>1. SUFFICES ASSUME z = x PROVE On(w, p, n) = y
      BY <2>3, Zenon
    <3>2. y = x + (-amt)
      BY <1>2, <1>5, Zenon
    <3>3. amt <= z
      BY <1>2, <3>1, <3>2
    <3>4. On(w, p, n) = z + (-some)
      BY <2>13, <2>15, Zenon
    <3> QED
      BY <2>6, <3>1, <3>2, <3>3, <3>4, Zenon
  <2>17. ASSUME NEW q, NEW m, ~(q = p /\ m = n) PROVE On(w, q, m) = On(ds, q, m)
    BY <2>13, <2>14, <2>17, Zenon
  <2> QED
    BY <1>1, <2>13, <2>16, <2>17, Zenon DEF Applies
<1> QED
  BY <1>3, <1>4, <1>5, Zenon

\* The loose delegation states are a set.
AnyState == [total : Nat, on : UNION {[D -> Nat] : D \in SUBSET Node}]

Loose == {ds \in UNION {[P -> AnyState] : P \in SUBSET Party} : IsLoose(ds)}

\* The nominations that may have zeros are that set.
LEMMA LooseMember ==
  ASSUME NEW ds
  PROVE  IsLoose(ds) <=> ds \in Loose
<1>1. ASSUME IsLoose(ds) PROVE ds \in Loose
  <2>1. ASSUME NEW p \in DOMAIN ds PROVE ds[p] \in AnyState
    <3>1. PICK s : s = ds[p] /\ IsSums(s)
      BY <1>1, Zenon DEF IsLoose
    <3>2. s.total \in Nat
      BY <3>1, SumsFacts, Zenon
    <3>3. PICK U : U = UNION {[D -> Nat] : D \in SUBSET Node}
      BY Zenon
    <3>4. s.on \in U
      BY <3>1, <3>3, Zenon DEF IsSums
    <3>5. PICK t \in Nat, on \in U : s = [total |-> t, on |-> on]
      BY <3>1, <3>2, <3>4, Zenon DEF IsSums
    <3>6. s \in [total : Nat, on : U]
      BY <3>5
    <3> QED
      BY <3>1, <3>3, <3>6, Zenon DEF AnyState
  <2>2. ds \in [DOMAIN ds -> AnyState] /\ DOMAIN ds \in SUBSET Party
    BY <1>1, <2>1, Zenon DEF IsLoose
  <2> QED
    BY <1>1, <2>2, Zenon DEF Loose
<1>2. ASSUME ds \in Loose PROVE IsLoose(ds)
  BY <1>2, Zenon DEF Loose
<1> QED
  BY <1>1, <1>2, Zenon

\* What the entries of E leave of a, the fold of setPending.
AllOf(a, E) == FoldSet(LAMBDA e, ds : Apply(ds, e), a, E)

IsAll(G, a, E) ==
  G = [s \in SUBSET E |->
         IF s = {} THEN a
         ELSE Apply(G[s \ {CHOOSE x \in s : TRUE}], CHOOSE x \in s : TRUE)]

\* The fold of setPending, unfolded.
LEMMA AllUnfolded ==
  ASSUME NEW a, NEW E
  PROVE  AllOf(a, E) = (CHOOSE G : IsAll(G, a, E))[E]
BY Zenon DEF AllOf, FoldSet, MapThenFoldSet, IsAll

ApplyingAll(E) == [e \in E |-> [ds \in Loose |-> Apply(ds, e)]]

\* The loop of setPending is a fold over the entries that are left.
LEMMA AllIsFold ==
  ASSUME NEW a, IsLoose(a), NEW b, NEW E, IsFiniteSet(E), \A e \in E : IsEntry(e, a, b)
  PROVE  \E G : /\ IsFold(G, E, a, AnyOf(E), ApplyingAll(E))
                /\ \A s \in SUBSET E : G[s] \in Loose
                /\ AllOf(a, E) = G[E]
<1> DEFINE ch == AnyOf(E)
           step == ApplyingAll(E)
<1>3. \A s \in SUBSET E : ch[s] = CHOOSE x \in s : TRUE
  BY Zenon DEF AnyOf
<1>2. \A s \in SUBSET E : s # {} => ch[s] \in s
  BY Zenon DEF AnyOf
<1>4. \A e \in E : \A ds \in Loose : step[e][ds] = Apply(ds, e)
  BY Zenon DEF ApplyingAll
<1>5. \A e \in E : \A ds \in Loose : step[e][ds] \in Loose
  <2>1. ASSUME NEW e \in E, NEW ds \in Loose PROVE step[e][ds] \in Loose
    <3>1. PICK w : w = Apply(ds, e)
      BY Zenon
    <3>2. IsLoose(ds)
      BY LooseMember, Zenon
    <3>3. Applies(w, ds, e, a, b)
      BY <3>1, <3>2, ApplyFacts, Zenon
    <3>4. w \in Loose
      BY <3>3, LooseMember, Zenon DEF Applies
    <3> QED
      BY <1>4, <3>1, <3>4, Zenon
  <2> QED
    BY <2>1, Zenon
<1>6. a \in Loose
  BY LooseMember, Zenon
<1> HIDE DEF ch, step
<1>7. PICK F : IsFold(F, E, a, ch, step)
  BY <1>2, FoldExists, Zenon
<1>8. \A s \in SUBSET E : F[s] \in Loose
  BY <1>2, <1>5, <1>6, <1>7, FoldType, Zenon
<1>9. IsAll(F, a, E)
  <2>1. ASSUME NEW s \in SUBSET E
        PROVE  F[s] = IF s = {} THEN a
                      ELSE Apply(F[s \ {CHOOSE x \in s : TRUE}], CHOOSE x \in s : TRUE)
    <3>1. F[s] = IF s = {} THEN a ELSE step[ch[s]][F[s \ {ch[s]}]]
      BY ONLY <1>7, <2>1, Zenon DEF IsFold
    <3>2. CASE s # {}
      <4>1. ch[s] \in s /\ ch[s] \in E
        BY <1>2, <3>2, Zenon
      <4>2. F[s \ {ch[s]}] \in Loose
        BY <1>8, Zenon
      <4>3. step[ch[s]][F[s \ {ch[s]}]] = Apply(F[s \ {ch[s]}], ch[s])
        BY <1>4, <4>1, <4>2, Zenon
      <4> QED
        BY <1>3, <3>1, <3>2, <4>3, Zenon
    <3> QED
      BY <3>1, <3>2, Zenon
  <2>2. F = [s \in SUBSET E |-> F[s]]
    BY <1>7, Zenon DEF IsFold
  <2> QED
    BY <2>1, <2>2, Zenon DEF IsAll
<1>10. PICK G : G = (CHOOSE g : IsAll(g, a, E)) /\ IsAll(G, a, E)
  BY <1>9, Zenon
<1>11. FoldsWithin(Loose, G, E, a, ch, step)
  <2>1. G = [s \in SUBSET E |-> G[s]] /\ G[{}] = a
    BY <1>10, Zenon DEF IsAll
  <2>2. ASSUME NEW s \in SUBSET E, s # {}, G[s \ {ch[s]}] \in Loose
        PROVE  G[s] = step[ch[s]][G[s \ {ch[s]}]]
    <3>1. G[s] = Apply(G[s \ {CHOOSE x \in s : TRUE}], CHOOSE x \in s : TRUE)
      BY ONLY <1>10, <2>2, Zenon DEF IsAll
    <3>2. ch[s] \in E
      BY <1>2, <2>2, Zenon
    <3>3. step[ch[s]][G[s \ {ch[s]}]] = Apply(G[s \ {ch[s]}], ch[s])
      BY <1>4, <2>2, <3>2, Zenon
    <3> QED
      BY <1>3, <3>1, <3>3, Zenon
  <2> QED
    BY <2>1, <2>2, Zenon DEF FoldsWithin
<1>12. IsFold(G, E, a, ch, step) /\ \A s \in SUBSET E : G[s] \in Loose
  BY <1>2, <1>5, <1>6, <1>11, FoldOf, Zenon
<1>13. AllOf(a, E) = G[E]
  BY <1>10, AllUnfolded, Zenon
<1> QED
  BY <1>12, <1>13, Zenon DEF ch, step

\* ds has the nominations of b where an entry of s says so, and those of a elsewhere.
Mixed(ds, a, b, s) ==
  /\ IsLoose(ds)
  /\ \A p, n : On(ds, p, n) = IF Covers(s, p, n) THEN On(b, p, n) ELSE On(a, p, n)

\* The entries that are applied make a into b where they say so.
LEMMA AllIsMixed ==
  ASSUME NEW a, IsLoose(a), NEW b, NEW E, IsFiniteSet(E), \A e \in E : IsEntry(e, a, b)
  PROVE  Mixed(AllOf(a, E), a, b, E)
<1> DEFINE ch == AnyOf(E)
           step == ApplyingAll(E)
<1>1. PICK G : /\ IsFold(G, E, a, ch, step)
               /\ \A s \in SUBSET E : G[s] \in Loose
               /\ AllOf(a, E) = G[E]
  BY AllIsFold, Zenon
<1>2. \A s \in SUBSET E : s # {} => ch[s] \in s
  BY Zenon DEF AnyOf
<1>3. \A e \in E : \A ds \in Loose : step[e][ds] = Apply(ds, e)
  BY Zenon DEF ApplyingAll
<1> HIDE DEF ch, step
<1> DEFINE B == {s \in SUBSET E : ~ Mixed(G[s], a, b, s)}
<1>4. B = {}
  <2> SUFFICES ASSUME B # {} PROVE FALSE
    BY Zenon
  <2>1. PICK s \in B : \A x \in s : s \ {x} \notin B
    <3>1. B \in SUBSET SUBSET E
      BY Zenon
    <3> HIDE DEF B
    <3> QED
      BY <3>1, SmallestSubset, Zenon
  <2>2. s \in SUBSET E /\ ~ Mixed(G[s], a, b, s)
    BY <2>1, Zenon
  <2>3. G[s] = IF s = {} THEN a ELSE step[ch[s]][G[s \ {ch[s]}]]
    BY ONLY <1>1, <2>2, Zenon DEF IsFold
  <2>4. CASE s = {}
    BY <2>2, <2>3, <2>4, Zenon DEF Mixed, Covers
  <2>5. CASE s # {}
    <3>1. PICK e, r, ds, w : /\ e = ch[s] /\ r = s \ {e} /\ ds = G[r] /\ w = G[s]
      BY Zenon
    <3>2. e \in s /\ e \in E /\ r \in SUBSET E
      BY <1>2, <2>2, <2>5, <3>1, Zenon
    <3>3. ds \in Loose /\ Mixed(ds, a, b, r)
      BY <1>1, <2>1, <3>1, <3>2, Zenon
    <3>4. w = Apply(ds, e)
      BY <1>3, <2>3, <2>5, <3>1, <3>2, <3>3, Zenon
    <3>5. Applies(w, ds, e, a, b)
      BY <3>2, <3>3, <3>4, ApplyFacts, Zenon DEF Mixed
    <3>6. ASSUME NEW p, NEW n
          PROVE  On(w, p, n) = IF Covers(s, p, n) THEN On(b, p, n) ELSE On(a, p, n)
      <4>1. CASE p = e.party /\ n = e.node
        <5>1. Covers(s, p, n)
          BY <3>2, <4>1, Zenon DEF Covers
        <5>2. ~ Covers(r, p, n)
          <6> SUFFICES ASSUME Covers(r, p, n) PROVE FALSE
            BY Zenon
          <6>1. PICK d \in r : d.party = p /\ d.node = n
            BY Zenon DEF Covers
          <6>2. d = Difference(a, b, p, n) /\ e = Difference(a, b, p, n)
            BY <3>2, <4>1, <6>1, Zenon DEF IsEntry
          <6> QED
            BY <3>1, <6>1, <6>2, Zenon
        <5>3. On(ds, p, n) = On(a, p, n)
          BY <3>3, <5>2, Zenon DEF Mixed
        <5> QED
          BY <3>5, <4>1, <5>1, <5>3, Zenon DEF Applies
      <4>2. CASE ~(p = e.party /\ n = e.node)
        <5>1. On(w, p, n) = On(ds, p, n)
          BY <3>5, <4>2, Zenon DEF Applies
        <5>2. Covers(s, p, n) <=> Covers(r, p, n)
          BY <3>1, <3>2, <4>2, Zenon DEF Covers
        <5> QED
          BY <3>3, <5>1, <5>2, Zenon DEF Mixed
      <4> QED
        BY <4>1, <4>2, Zenon
    <3>7. Mixed(w, a, b, s)
      BY <3>5, <3>6, Zenon DEF Mixed, Applies
    <3> QED
      BY <2>2, <3>1, <3>7, Zenon
  <2> QED
    BY <2>4, <2>5, Zenon
<1>5. Mixed(G[E], a, b, E)
  BY <1>4, Zenon
<1> QED
  BY <1>1, <1>5, Zenon

\* The state of a party that has the entries of another one, once its zeros are gone.
LEMMA WithoutZerosIs ==
  ASSUME NEW V \in SUBSET Node, NEW s, IsSums(s), NEW t, IsState(t, V),
         \A n \in Node : OnNode(s, n) = OnNode(t, n)
  PROVE  s.total # 0 /\ [s EXCEPT !.on = RestrictValues(@, LAMBDA a : a # 0)] = t
<1>1. PICK f, D, g, A : f = s.on /\ D = DOMAIN f /\ g = t.on /\ A = DOMAIN g
  BY Zenon
<1>2. /\ D \in SUBSET Node /\ f \in [D -> Int] /\ IsFiniteSet(D) /\ s.total = SumOf(f)
      /\ s = [total |-> s.total, on |-> f]
  BY <1>1, SumsFacts, Zenon DEF IsSums
<1>3. /\ A \in SUBSET V /\ g \in [A -> Nat \ {0}] /\ t.total = SumOf(g)
      /\ t = [total |-> t.total, on |-> g]
  BY <1>1, Zenon DEF IsState
<1>4. t.total # 0 /\ \A n \in A : g[n] # 0
  BY <1>1, StateFacts, Zenon
<1>5. \A n \in Node : (IF n \in D THEN f[n] ELSE 0) = (IF n \in A THEN g[n] ELSE 0)
  BY <1>1, Zenon DEF OnNode
<1>6. A \in SUBSET D /\ (\A n \in A : f[n] = g[n]) /\ \A n \in D \ A : f[n] = 0
  <2>1. ASSUME NEW n \in A PROVE n \in D /\ f[n] = g[n]
    BY <1>3, <1>4, <1>5, Zenon
  <2>2. ASSUME NEW n \in D \ A PROVE f[n] = 0
    BY <1>2, <1>5, Zenon
  <2> QED
    BY <2>1, <2>2, Zenon
<1>7. [n \in A |-> f[n]] = g
  BY <1>3, <1>6, Zenon
<1>8. SumOf(f) = SumOf(g)
  <2>1. SumOf([n \in A |-> f[n]]) = SumOf(f)
    BY <1>2, <1>6, SumOfNonZero, SMTT(20)
  <2> QED
    BY <1>7, <2>1, Zenon
<1>9. {n \in D : f[n] # 0} = A
  BY <1>4, <1>6, Zenon
<1>10. RestrictValues(f, LAMBDA a : a # 0) = g
  BY <1>1, <1>7, <1>9, Zenon DEF RestrictValues, Restrict
<1>11. [s EXCEPT !.on = RestrictValues(@, LAMBDA a : a # 0)] = [s EXCEPT !.on = g]
  BY <1>1, <1>10, Zenon
<1>12. [s EXCEPT !.on = g] = [total |-> s.total, on |-> g]
  BY <1>2
<1> QED
  BY <1>2, <1>3, <1>4, <1>8, <1>11, <1>12, Zenon

\* A checkpoint that is loaded on top of this epoch's nominations gives the next epoch's.
LEMMA SetPendingFacts ==
  ASSUME NEW V \in SUBSET Node, NEW a, IsDelegation(a, V), NEW b, IsDelegation(b, V)
  PROVE  setPending(a, getPending(a, b)) = b
<1>1. PICK E, w : E = getPending(a, b) /\ w = AllOf(a, E)
  BY Zenon
<1>2. /\ \A e \in E : IsEntry(e, a, b)
      /\ \A p \in Party, n \in Node : On(a, p, n) # On(b, p, n) => Covers(E, p, n)
      /\ IsFiniteSet(E)
  BY <1>1, PendingFacts, Zenon
<1>3. IsLoose(a) /\ IsLoose(b)
  BY DelegationIsLoose, Zenon
<1>4. Mixed(w, a, b, E)
  BY <1>1, <1>2, <1>3, AllIsMixed, Zenon
<1>5. IsLoose(w) /\ \A p \in Party, n \in Node : On(w, p, n) = On(b, p, n)
  <2>1. ASSUME NEW p \in Party, NEW n \in Node PROVE On(w, p, n) = On(b, p, n)
    BY <1>2, <1>4, Zenon DEF Mixed
  <2> QED
    BY <1>4, <2>1, Zenon DEF Mixed
<1>6. DOMAIN w \in SUBSET Party /\ DOMAIN b \in SUBSET Party
  BY <1>3, <1>5, Zenon DEF IsLoose
<1>7. ASSUME NEW p \in DOMAIN b
      PROVE  /\ p \in DOMAIN w /\ w[p].total # 0
             /\ [w[p] EXCEPT !.on = RestrictValues(@, LAMBDA x : x # 0)] = b[p]
  <2>1. PICK t : t = b[p] /\ IsState(t, V) /\ p \in Party
    BY <1>6, Zenon DEF IsDelegation
  <2>2. PICK n : n \in DOMAIN t.on /\ n \in Node
    BY <2>1, Zenon DEF IsState
  <2>3. t.on[n] # 0
    BY <2>1, <2>2, StateFacts, SMTT(30)
  <2>4. p \in DOMAIN w
    BY <1>5, <2>1, <2>2, <2>3, Zenon DEF On
  <2>5. PICK s : s = w[p] /\ IsSums(s)
    BY <1>5, <2>4, Zenon DEF IsLoose
  <2>6. \A m \in Node : OnNode(s, m) = OnNode(t, m)
    <3>1. ASSUME NEW m \in Node PROVE OnNode(s, m) = OnNode(t, m)
      <4>1. On(w, p, m) = On(b, p, m)
        BY <1>5, <2>1, Zenon
      <4> QED
        BY <2>1, <2>4, <2>5, <4>1, Zenon DEF On, OnNode
    <3> QED
      BY <3>1, Zenon
  <2>7. s.total # 0 /\ [s EXCEPT !.on = RestrictValues(@, LAMBDA x : x # 0)] = t
    BY <2>1, <2>5, <2>6, WithoutZerosIs, ZenonT(40)
  <2> QED
    BY <2>1, <2>4, <2>5, <2>7, Zenon
<1>8. ASSUME NEW p \in DOMAIN w, p \notin DOMAIN b PROVE w[p].total = 0
  <2>1. PICK s, f, D : s = w[p] /\ f = s.on /\ D = DOMAIN f
    BY Zenon
  <2>2. IsSums(s) /\ p \in Party
    BY <1>5, <1>6, <2>1, Zenon DEF IsLoose
  <2>3. f \in [D -> Int] /\ IsFiniteSet(D) /\ D \in SUBSET Node /\ s.total = SumOf(f)
    BY <2>1, <2>2, SumsFacts, Zenon DEF IsSums
  <2>4. \A n \in D : f[n] = 0
    BY <1>5, <1>8, <2>1, <2>2, <2>3, Zenon DEF On
  <2>5. SumOver(f, D) = 0
    BY <2>3, <2>4, SumZeros, Zenon
  <2>6. SumOf(f) = SumOver(f, D)
    BY <2>3, SumOfType, Zenon
  <2> QED
    BY <2>1, <2>3, <2>5, <2>6, Zenon
<1>9. {q \in DOMAIN w : w[q].total # 0} = DOMAIN b
  BY <1>7, <1>8, Zenon
<1>10. setPending(a, E)
         = [p \in {q \in DOMAIN w : w[q].total # 0} |->
              [w[p] EXCEPT !.on = RestrictValues(@, LAMBDA x : x # 0)]]
  BY <1>1, Zenon DEF setPending, AllOf, Apply
<1>11. b = [p \in DOMAIN b |-> b[p]]
  BY Zenon DEF IsDelegation
<1>12. setPending(a, E) = [p \in DOMAIN b |-> b[p]]
  BY <1>7, <1>9, <1>10, Zenon
<1> QED
  BY <1>1, <1>11, <1>12, Zenon

\* Sound nominations survive a snapshot and a checkpoint.
LEMMA SnapshotsByInv ==
  ASSUME Inv
  PROVE  SnapshotsAreExact
<1>1. /\ validators \in SUBSET Node
      /\ IsDelegation(cur, validators) /\ IsDelegation(next, validators)
  BY Zenon DEF Inv
<1>2. FromEntries(Entries(cur)) = cur /\ FromEntries(Entries(next)) = next
  BY <1>1, EntriesFacts, Zenon
<1>3. setPending(cur, getPending(cur, next)) = next
  BY <1>1, SetPendingFacts, Zenon
<1> QED
  BY <1>2, <1>3, Zenon DEF SnapshotsAreExact

\* A restart loses no nomination: what core/delegation/snapshot.go restores from its list of
\* entries, and what checkpoint.go rebuilds by applying the pending differences to this
\* epoch's nominations, are exactly the nominations that were saved.
THEOREM SnapshotExactness == Spec => []SnapshotsAreExact
<1>1. Inv => SnapshotsAreExact
  BY SnapshotsByInv, Zenon
<1> QED
  BY <1>1, NominationsAreSound, PTL

-----------------------------------------------------------------------------
(* Stake as a sum of deposits and removals.                                *)

Signed(ls) ==
  [l \in ls |-> IF LinkOf[l].deposited THEN LinkOf[l].amount ELSE -LinkOf[l].amount]

Net(ls, S) == SumOver(Signed(ls), S)

Known(ls, p, t) == {l \in Events(ls, p) : LinkOf[l].ts <= t}

\* A deposit counts as it is, a removal as its negative.
LEMMA SignedFacts ==
  ASSUME NEW ls \in SUBSET Link
  PROVE  /\ Signed(ls) \in [ls -> Int]
         /\ \A l \in ls : /\ LinkOf[l].amount \in Nat /\ LinkOf[l].ts \in Nat
                          /\ LinkOf[l].deposited \in BOOLEAN
                          /\ LinkOf[l].deposited => Signed(ls)[l] = LinkOf[l].amount
                          /\ ~ LinkOf[l].deposited => Signed(ls)[l] = -LinkOf[l].amount
<1>1. \A l \in ls : /\ LinkOf[l].amount \in Nat /\ LinkOf[l].ts \in Nat
                    /\ LinkOf[l].deposited \in BOOLEAN
  BY LinkAssumption
<1>2. ASSUME NEW l \in ls PROVE LinkOf[l].amount \in Int /\ -LinkOf[l].amount \in Int
  BY <1>1
<1> QED
  BY <1>1, <1>2, Zenon DEF Signed

\* What StakeAt says is the sum of the signed amounts.
LEMMA StakeIsNet ==
  ASSUME NEW ls \in SUBSET Link, IsFiniteSet(ls), NEW p, NEW t
  PROVE  StakeAt(ls, p, t) = Net(ls, Known(ls, p, t)) /\ StakeAt(ls, p, t) \in Int
<1>1. PICK K, A, R, f : /\ K = Known(ls, p, t) /\ f = Signed(ls)
                        /\ A = {l \in K : LinkOf[l].deposited}
                        /\ R = {l \in K : ~ LinkOf[l].deposited}
  BY Zenon
<1>2. /\ K \in SUBSET ls /\ A \in SUBSET ls /\ R \in SUBSET ls /\ R \in SUBSET (ls \ A) /\ K = A \cup R
      /\ K = {l \in ls : LinkOf[l].party = p /\ LinkOf[l].ts <= t}
  BY <1>1, Zenon DEF Known, Events
<1>3. f \in [ls -> Int]
  BY <1>1, SignedFacts, Zenon
<1>4. SumOver(f, K) = SumOver(f, A) + SumOver(f, R)
  BY <1>2, <1>3, SumUnion, SMTT(20)
<1>5. IsFiniteSet(R) /\ IsFiniteSet(A)
  BY <1>2, FS_Subset, Zenon
<1>6. [l \in A |-> f[l]] = [l \in A |-> LinkOf[l].amount]
  BY <1>1, <1>2, SignedFacts, Zenon
<1>7. SumOver(f, A) = SumOf([l \in A |-> LinkOf[l].amount])
  BY <1>6, Zenon DEF SumOver
<1>8. PICK g, h : g = [l \in R |-> LinkOf[l].amount] /\ h = [l \in R |-> f[l]]
  BY Zenon
<1>9. \A l \in R : f[l] = -LinkOf[l].amount /\ LinkOf[l].amount \in Nat
  BY <1>1, <1>2, SignedFacts, Zenon
<1>10. g \in [R -> Int] /\ h \in [R -> Int] /\ IsCombination(h, R, -1, g, 0, g)
  BY <1>8, <1>9 DEF IsCombination
<1>11. SumCombines(h, -1, g, 0, g)
  <2>1. -1 \in Int /\ 0 \in Int
    OBVIOUS
  <2> QED
    BY <1>5, <1>10, <2>1, SumOfLinear, Zenon
<1>12. SumOf(h) = (-1) * SumOf(g) + 0 * SumOf(g)
  BY <1>11, Zenon DEF SumCombines
<1>13. SumOf(g) \in Int /\ SumOver(f, A) \in Int
  BY <1>2, <1>3, <1>5, <1>10, SumOfType, SumInt, Zenon
<1>14. SumOver(f, R) = SumOf(h)
  BY <1>8, Zenon DEF SumOver
<1>15. StakeAt(ls, p, t) = SumOf([l \in A |-> LinkOf[l].amount]) - SumOf(g)
  BY <1>1, <1>2, <1>8, Zenon DEF StakeAt
<1>16. StakeAt(ls, p, t) = SumOver(f, K) /\ StakeAt(ls, p, t) \in Int
  BY <1>4, <1>7, <1>12, <1>13, <1>14, <1>15, SMTT(30)
<1> QED
  BY <1>1, <1>16, Zenon DEF Net

\* The net amount of some linkings is that of one of them and of the others.
LEMMA NetRemove ==
  ASSUME NEW ls \in SUBSET Link, IsFiniteSet(ls), NEW S \in SUBSET ls, NEW c \in S
  PROVE  Net(ls, S) = Signed(ls)[c] + Net(ls, S \ {c})
<1>1. Signed(ls) \in [ls -> Int]
  BY SignedFacts, Zenon
<1> QED
  BY <1>1, SumRemove, SMTT(20) DEF Net

\* More removals make less stake.
LEMMA NetLess ==
  ASSUME NEW ls \in SUBSET Link, IsFiniteSet(ls), NEW S \in SUBSET ls, NEW U \in SUBSET S,
         \A l \in S \ U : ~ LinkOf[l].deposited
  PROVE  Net(ls, S) <= Net(ls, U)
<1>1. PICK R, f : R = S \ U /\ f = Signed(ls)
  BY Zenon
<1>2. U \in SUBSET ls /\ R \in SUBSET (ls \ U) /\ S = U \cup R /\ R \in SUBSET ls
  BY <1>1
<1>3. f \in [ls -> Int]
  BY <1>1, SignedFacts, Zenon
<1>4. SumOver(f, S) = SumOver(f, U) + SumOver(f, R)
  BY <1>2, <1>3, SumUnion, SMTT(20)
<1>5. PICK h, z : h = [l \in R |-> f[l]] /\ z = [l \in R |-> 0]
  BY Zenon
<1>6. \A l \in R : f[l] = -LinkOf[l].amount /\ LinkOf[l].amount \in Nat
  BY <1>1, <1>2, SignedFacts, Zenon
<1>7. h \in [R -> Int] /\ z \in [R -> Int] /\ (\A l \in R : h[l] <= z[l]) /\ IsFiniteSet(R)
  <2>1. IsFiniteSet(R)
    BY <1>2, FS_Subset, Zenon
  <2> QED
    BY <1>5, <1>6, <2>1, SMTT(30)
<1>8. SumOf(h) <= SumOf(z)
  BY <1>7, SumOfLeq, Zenon
<1>9. SumOf(h) = SumOver(f, R)
  BY <1>5, Zenon DEF SumOver
<1>10. SumOf(z) = 0
  <2>1. \A l \in R : z[l] = 0
    BY <1>5
  <2>2. SumOver(z, R) = 0
    BY <1>7, <2>1, SumZeros, Zenon
  <2> QED
    BY <1>7, <2>2, SumOfType, Zenon
<1>11. SumOver(f, U) \in Int /\ SumOver(f, R) \in Int
  BY <1>2, <1>3, SumInt, Zenon
<1>12. SumOver(f, S) <= SumOver(f, U)
  BY <1>4, <1>8, <1>9, <1>10, <1>11, SMTT(30)
<1> QED
  BY <1>1, <1>12, Zenon DEF Net

\* S has with an event of p all those that come before it.
Prefix(ls, p, S) ==
  /\ S \in SUBSET Events(ls, p)
  /\ \A l \in S : \A k \in Events(ls, p) : EventBefore(k, l) => k \in S

\* Without its last event a prefix of the history is a prefix.
LEMMA PrefixRest ==
  ASSUME NEW ls \in SUBSET Link, IsFiniteSet(ls), NEW p, NEW S, Prefix(ls, p, S), S # {}
  PROVE  Prefix(ls, p, S \ {LastEvent(S)})
<1>1. S \in SUBSET Events(ls, p)
  BY Zenon DEF Prefix
<1>2. \A k \in S : ~ EventBefore(LastEvent(S), k)
  BY <1>1, EventsFacts, Zenon
<1> QED
  BY <1>1, <1>2, Zenon DEF Prefix

\* When the last event of a prefix is a removal, only removals of that time are missing.
LEMMA PrefixEnd ==
  ASSUME NEW ls \in SUBSET Link, IsFiniteSet(ls), NEW p, NEW S, Prefix(ls, p, S),
         NEW c \in S, \A k \in S : ~ EventBefore(c, k), ~ LinkOf[c].deposited
  PROVE  /\ S \in SUBSET Known(ls, p, LinkOf[c].ts)
         /\ \A k \in Known(ls, p, LinkOf[c].ts) \ S : ~ LinkOf[k].deposited
         /\ StakeAt(ls, p, LinkOf[c].ts) <= Net(ls, S)
<1>1. S \in SUBSET Events(ls, p) /\ c \in S /\ \A k \in S : ~ EventBefore(c, k)
  BY Zenon DEF Prefix
<1>2. \A k \in Events(ls, p) : k \in ls /\ LinkOf[k].ts \in Nat /\ LinkOf[k].deposited \in BOOLEAN
  BY SignedFacts, Zenon DEF Events
<1>3. ASSUME NEW k \in S PROVE LinkOf[k].ts <= LinkOf[c].ts
  <2>1. k \in Events(ls, p) /\ c \in Events(ls, p)
    BY <1>1, Zenon
  <2>2. LinkOf[k].ts \in Nat /\ LinkOf[c].ts \in Nat
    BY <1>2, <2>1, Zenon
  <2>3. ~ EventBefore(c, k)
    BY <1>1, Zenon
  <2>4. LinkOf[c].ts # LinkOf[k].ts => ~(LinkOf[c].ts < LinkOf[k].ts)
    BY <2>3, Zenon DEF EventBefore
  <2> QED
    BY <2>2, <2>4
<1>4. ASSUME NEW k \in Known(ls, p, LinkOf[c].ts) \ S PROVE ~ LinkOf[k].deposited
  <2>1. k \in Events(ls, p) /\ c \in Events(ls, p) /\ LinkOf[k].ts <= LinkOf[c].ts /\ k \notin S
    BY <1>1, Zenon DEF Known
  <2>2. LinkOf[k].ts \in Nat /\ LinkOf[c].ts \in Nat
    BY <1>2, <2>1, Zenon
  <2>3. ~ EventBefore(k, c)
    BY <1>1, <2>1, Zenon DEF Prefix
  <2>4. LinkOf[k].ts = LinkOf[c].ts \/ LinkOf[k].ts < LinkOf[c].ts
    BY <2>1, <2>2
  <2>5. LinkOf[k].ts < LinkOf[c].ts => LinkOf[k].ts # LinkOf[c].ts
    BY <2>2
  <2> QED
    BY <2>3, <2>4, <2>5, Zenon DEF EventBefore
<1>5. PICK K : K = Known(ls, p, LinkOf[c].ts)
  OBVIOUS
<1>6. S \in SUBSET K /\ K \in SUBSET ls
  BY <1>1, <1>3, <1>5, Zenon DEF Known, Events
<1>7. Net(ls, K) <= Net(ls, S)
  BY <1>4, <1>5, <1>6, NetLess, Zenon
<1>8. StakeAt(ls, p, LinkOf[c].ts) = Net(ls, K)
  BY <1>5, StakeIsNet, Zenon
<1> QED
  BY <1>4, <1>5, <1>6, <1>7, <1>8, Zenon

IsBalance(ls, S) == Net(ls, S) \in Nat /\ calculateBalance(S) = [ok |-> TRUE, balance |-> Net(ls, S)]

\* A balance is never refused, and is the sum of the deposits and removals, where there was
\* never less than what was removed (calculateBalance).
LEMMA InOrderBalance ==
  ASSUME NEW ls \in SUBSET Link, IsFiniteSet(ls), NEW p, InOrder(ls, p)
  PROVE  \A S : Prefix(ls, p, S) => IsBalance(ls, S)
<1> DEFINE Ev == Events(ls, p)
           B == {S \in SUBSET Ev : Prefix(ls, p, S) /\ ~ IsBalance(ls, S)}
<1>1. B = {}
  <2> SUFFICES ASSUME B # {} PROVE FALSE
    OBVIOUS
  <2>1. PICK S \in B : \A x \in S : S \ {x} \notin B
    <3>1. B \in SUBSET SUBSET Ev
      BY Zenon
    <3>2. IsFiniteSet(Ev)
      <4>1. Ev \in SUBSET Ev
        OBVIOUS
      <4> QED
        BY <4>1, EventsFacts, Zenon
    <3> HIDE DEF B, Ev
    <3> QED
      BY <3>1, <3>2, SmallestSubset, Zenon
  <2>2. S \in SUBSET Ev /\ Prefix(ls, p, S) /\ ~ IsBalance(ls, S)
    BY <2>1, Zenon
  <2> HIDE DEF B
  <2>3. S \in SUBSET ls /\ S \in SUBSET Link /\ IsFiniteSet(S)
    BY <2>2, EventsFacts, Zenon
  <2>4. S # {}
    <3>1. SUFFICES ASSUME S = {} PROVE FALSE
      OBVIOUS
    <3>2. Net(ls, S) = 0
      BY <3>1, SignedFacts, SumNone, Zenon DEF Net
    <3>3. calculateBalance(S) = [ok |-> TRUE, balance |-> 0]
      BY <2>3, <3>1, CalcStep, Zenon
    <3>4. 0 \in Nat
      OBVIOUS
    <3> QED
      BY <2>2, <3>2, <3>3, <3>4, Zenon DEF IsBalance
  <2>5. PICK c, R : c = LastEvent(S) /\ R = S \ {LastEvent(S)}
    BY Zenon
  <2>6. c \in S /\ Prefix(ls, p, R) /\ R \in SUBSET Ev /\ R \in SUBSET ls /\ c \in ls
    <3>1. c \in S
      BY <2>2, <2>4, <2>5, EventsFacts, Zenon
    <3>2. Prefix(ls, p, R)
      BY <2>2, <2>4, <2>5, PrefixRest, Zenon
    <3> QED
      BY <2>2, <2>3, <2>5, <3>1, <3>2, Zenon
  <2>7. IsBalance(ls, R)
    BY <2>1, <2>5, <2>6, Zenon DEF B
  <2>8. PICK x \in Nat : x = Net(ls, R)
    BY <2>7, Zenon DEF IsBalance
  <2>9. PICK b : b = [ok |-> TRUE, balance |-> x]
    BY Zenon
  <2>10. calculateBalance(S) = ApplyEvent(b, c)
    <3>1. calculateBalance(R) = b
      BY <2>7, <2>8, <2>9, Zenon DEF IsBalance
    <3>2. calculateBalance(S) = ApplyEvent(calculateBalance(R), c)
      BY <2>3, <2>4, <2>5, CalcStep, Zenon
    <3> QED
      BY <3>1, <3>2, Zenon
  <2>11. Net(ls, S) = Signed(ls)[c] + x
    BY <2>3, <2>5, <2>6, <2>8, NetRemove, SMTT(20)
  <2>12. /\ LinkOf[c].amount \in Nat /\ LinkOf[c].deposited \in BOOLEAN
         /\ LinkOf[c].deposited => Signed(ls)[c] = LinkOf[c].amount
         /\ ~ LinkOf[c].deposited => Signed(ls)[c] = -LinkOf[c].amount
    BY <2>6, SignedFacts, Zenon
  <2>13. b.ok = TRUE /\ b.balance = x
    BY <2>9
  <2>14. CASE LinkOf[c].deposited
    <3>1. ApplyEvent(b, c) = [ok |-> TRUE, balance |-> x + LinkOf[c].amount]
      BY <2>13, <2>14, Zenon DEF ApplyEvent
    <3>2. Net(ls, S) = x + LinkOf[c].amount /\ Net(ls, S) \in Nat
      BY <2>11, <2>12, <2>14
    <3> QED
      BY <2>2, <2>10, <3>1, <3>2, Zenon DEF IsBalance
  <2>15. CASE ~ LinkOf[c].deposited
    <3>1. Net(ls, S) = x - LinkOf[c].amount
      BY <2>11, <2>12, <2>15
    <3>2. StakeAt(ls, p, LinkOf[c].ts) >= 0
      BY <2>6, Zenon DEF InOrder
    <3>3. StakeAt(ls, p, LinkOf[c].ts) <= Net(ls, S) /\ StakeAt(ls, p, LinkOf[c].ts) \in Int
      <4>1. c \in S /\ \A k \in S : ~ EventBefore(c, k)
        BY <2>2, <2>4, <2>5, EventsFacts, Zenon
      <4> QED
        BY <2>2, <2>15, <4>1, PrefixEnd, StakeIsNet, Zenon
    <3>4. Net(ls, S) \in Nat /\ ~(x < LinkOf[c].amount)
      BY <2>12, <3>1, <3>2, <3>3, SMTT(30)
    <3>5. ApplyEvent(b, c) = [ok |-> TRUE, balance |-> x - LinkOf[c].amount]
      BY <2>13, <2>15, <3>4, Zenon DEF ApplyEvent
    <3> QED
      BY <2>2, <2>10, <3>1, <3>4, <3>5, Zenon DEF IsBalance
  <2> QED
    BY <2>14, <2>15, Zenon
<1> QED
  BY <1>1, Zenon DEF Prefix

\* What there is by some time is a prefix, so the balance at a time is the stake of that time.
LEMMA KnownIsPrefix ==
  ASSUME NEW ls \in SUBSET Link, NEW p, NEW t \in Nat
  PROVE  Prefix(ls, p, Known(ls, p, t))
<1>1. \A k \in Events(ls, p) : LinkOf[k].ts \in Nat
  BY SignedFacts, Zenon DEF Events
<1>2. ASSUME NEW l \in Known(ls, p, t), NEW k \in Events(ls, p), EventBefore(k, l)
      PROVE  k \in Known(ls, p, t)
  <2>1. l \in Events(ls, p) /\ LinkOf[l].ts <= t
    BY Zenon DEF Known
  <2>2. LinkOf[k].ts = LinkOf[l].ts \/ LinkOf[k].ts < LinkOf[l].ts
    BY <1>2, Zenon DEF EventBefore
  <2>3. LinkOf[k].ts \in Nat /\ LinkOf[l].ts \in Nat
    BY <1>1, <2>1, Zenon
  <2>4. LinkOf[k].ts <= t
    BY <2>1, <2>2, <2>3
  <2> QED
    BY <2>4, Zenon DEF Known
<1> QED
  BY <1>2, Zenon DEF Prefix, Known

\* GetAvailableBalanceAt is the stake at that time, if no removal came before its deposit.
LEMMA BalanceAt ==
  ASSUME NEW ls \in SUBSET Link, IsFiniteSet(ls), NEW p, NEW t \in Nat, InOrder(ls, p)
  PROVE  /\ StakeAt(ls, p, t) \in Nat
         /\ GetAvailableBalanceAt(ls, p, t) = [ok |-> TRUE, balance |-> StakeAt(ls, p, t)]
<1>1. PICK K : K = Known(ls, p, t)
  OBVIOUS
<1>2. IsBalance(ls, K)
  BY <1>1, KnownIsPrefix, InOrderBalance, Zenon
<1>3. StakeAt(ls, p, t) = Net(ls, K)
  BY <1>1, StakeIsNet, Zenon
<1>4. GetAvailableBalanceAt(ls, p, t) = calculateBalance(K)
  BY <1>1, Zenon DEF GetAvailableBalanceAt, Known
<1> QED
  BY <1>2, <1>3, <1>4, Zenon DEF IsBalance

\* r is what lowestInRange should have found once it has seen the events in A.
Lowest(ls, p, from, to, r, A) ==
  /\ r.ok = TRUE /\ r.balance = Net(ls, A) /\ r.least <= r.balance
  /\ \E t \in from..to : StakeAt(ls, p, t) <= r.least
  /\ \A t \in from..to : Known(ls, p, t) \in SUBSET A => r.least <= StakeAt(ls, p, t)

During(ls, p, from, to) == {l \in Events(ls, p) : LinkOf[l].ts > from /\ LinkOf[l].ts <= to}

\* Without its last event a period is still one without gaps.
LEMMA DuringRest ==
  ASSUME NEW ls \in SUBSET Link, IsFiniteSet(ls), NEW p, NEW from \in Nat, NEW to \in Nat,
         NEW W \in SUBSET During(ls, p, from, to), W # {},
         Prefix(ls, p, Known(ls, p, from) \cup W), NEW c, c = LastEvent(W)
  PROVE  /\ c \in W /\ c \notin Known(ls, p, from)
         /\ Prefix(ls, p, Known(ls, p, from) \cup (W \ {c}))
         /\ \A k \in Known(ls, p, from) \cup W : ~ EventBefore(c, k) /\ LinkOf[k].ts <= LinkOf[c].ts
<1>1. W \in SUBSET Events(ls, p)
  BY Zenon DEF During
<1>2. c \in W /\ \A k \in W : ~ EventBefore(c, k)
  BY <1>1, EventsFacts, Zenon
<1>3. \A k \in Events(ls, p) : LinkOf[k].ts \in Nat
  BY SignedFacts, Zenon DEF Events
<1>4. c \in Events(ls, p) /\ LinkOf[c].ts > from /\ LinkOf[c].ts \in Nat
  BY <1>1, <1>2, <1>3, Zenon DEF During
<1>5. ASSUME NEW k \in Known(ls, p, from)
      PROVE  ~ EventBefore(c, k) /\ LinkOf[k].ts <= LinkOf[c].ts /\ k # c
  <2>1. LinkOf[k].ts <= from /\ LinkOf[k].ts \in Nat
    BY <1>3, Zenon DEF Known
  <2>2. LinkOf[k].ts <= LinkOf[c].ts /\ LinkOf[k].ts # LinkOf[c].ts /\ ~(LinkOf[c].ts < LinkOf[k].ts)
    BY <1>4, <2>1
  <2> QED
    BY <2>2, Zenon DEF EventBefore
<1>6. ASSUME NEW k \in W PROVE LinkOf[k].ts <= LinkOf[c].ts
  <2>1. LinkOf[k].ts \in Nat
    BY <1>1, <1>3, Zenon
  <2>2. LinkOf[c].ts # LinkOf[k].ts => ~(LinkOf[c].ts < LinkOf[k].ts)
    BY <1>2, Zenon DEF EventBefore
  <2> QED
    BY <1>4, <2>1, <2>2, SMTT(30)
<1>7. Prefix(ls, p, Known(ls, p, from) \cup (W \ {c}))
  <2>1. ASSUME NEW l \in Known(ls, p, from) \cup (W \ {c}), NEW k \in Events(ls, p), EventBefore(k, l)
        PROVE  k \in Known(ls, p, from) \cup (W \ {c})
    <3>1. k \in Known(ls, p, from) \cup W
      BY <2>1, Zenon DEF Prefix
    <3>2. k # c
      BY <1>2, <1>5, <2>1, Zenon
    <3> QED
      BY <3>1, <3>2, Zenon
  <2> QED
    BY <1>1, <2>1, Zenon DEF Prefix, Known
<1> QED
  BY <1>2, <1>5, <1>6, <1>7, Zenon

\* One more event keeps Lowest.
LEMMA LowestStep ==
  ASSUME NEW ls \in SUBSET Link, IsFiniteSet(ls), NEW p, InOrder(ls, p),
         NEW from \in Nat, NEW to \in Nat,
         NEW A, Prefix(ls, p, A), NEW c \in A, LinkOf[c].ts \in from..to,
         \A k \in A : ~ EventBefore(c, k) /\ LinkOf[k].ts <= LinkOf[c].ts,
         NEW r \in RangeBalance, Lowest(ls, p, from, to, r, A \ {c})
  PROVE  Lowest(ls, p, from, to, ApplyInRange(r, c), A)
<1>1. A \in SUBSET Events(ls, p) /\ A \in SUBSET ls /\ c \in ls
  BY Zenon DEF Prefix, Events
<1>2. PICK x \in Nat, m \in Nat : x = r.balance /\ m = r.least /\ r.ok = TRUE
  BY Zenon DEF RangeBalance, Lowest
<1>3. x = Net(ls, A \ {c}) /\ m <= x
  BY <1>2, Zenon DEF Lowest
<1>4. PICK a \in Nat : a = LinkOf[c].amount
  BY <1>1, SignedFacts, Zenon
<1>5. PICK y \in Nat : y = Net(ls, A)
  BY InOrderBalance, Zenon DEF IsBalance
<1>6. /\ LinkOf[c].deposited => y = x + a
      /\ ~ LinkOf[c].deposited => y = x - a
  <2>1. y = Signed(ls)[c] + x
    BY <1>1, <1>3, <1>5, NetRemove, SMTT(20)
  <2>2. /\ LinkOf[c].deposited => Signed(ls)[c] = a
        /\ ~ LinkOf[c].deposited => Signed(ls)[c] = -a
    BY <1>1, <1>4, SignedFacts, Zenon
  <2> QED
    BY <2>1, <2>2
<1>7. ApplyEvent(r, c) = [ok |-> TRUE, balance |-> y]
  <2>1. CASE LinkOf[c].deposited
    BY <1>2, <1>4, <1>6, <2>1, Zenon DEF ApplyEvent
  <2>2. CASE ~ LinkOf[c].deposited
    <3>1. ~(x < a)
      BY <1>6, <2>2
    <3> QED
      BY <1>2, <1>4, <1>6, <2>2, <3>1, Zenon DEF ApplyEvent
  <2> QED
    BY <2>1, <2>2, Zenon
<1>8. PICK l : l = IF LinkOf[c].deposited THEN m ELSE Smaller(m, y)
  OBVIOUS
<1>9. ApplyInRange(r, c) = [ok |-> TRUE, balance |-> y, least |-> l]
  <2>1. PICK b : b = ApplyEvent(r, c)
    OBVIOUS
  <2>2. b.ok = TRUE /\ b.balance = y
    BY <1>7, <2>1
  <2>3. ApplyInRange(r, c) = [ok |-> b.ok, balance |-> b.balance,
                              least |-> IF LinkOf[c].deposited THEN m ELSE Smaller(m, b.balance)]
    BY <1>2, <2>1, Zenon DEF ApplyInRange
  <2> QED
    BY <1>8, <2>2, <2>3, Zenon
<1>10. l \in Nat /\ l <= m /\ l <= y /\ (l = m \/ (l = y /\ ~ LinkOf[c].deposited))
  <2>1. CASE LinkOf[c].deposited
    <3>1. l = m
      BY <1>8, <2>1, Zenon
    <3>2. y = x + a
      BY <1>6, <2>1, Zenon
    <3>3. m <= m /\ m <= y
      BY <1>3, <3>2
    <3> QED
      BY <3>1, <3>3, Zenon
  <2>2. CASE ~ LinkOf[c].deposited
    <3>1. l = IF m < y THEN m ELSE y
      BY <1>8, <2>2, Zenon DEF Smaller
    <3> QED
      BY <2>2, <3>1
  <2> QED
    BY <2>1, <2>2, Zenon
<1>11. \E t \in from..to : StakeAt(ls, p, t) <= l
  <2>1. CASE l = m
    BY <1>2, <2>1, Zenon DEF Lowest
  <2>2. CASE l = y /\ ~ LinkOf[c].deposited
    <3>1. StakeAt(ls, p, LinkOf[c].ts) <= Net(ls, A)
      BY <2>2, PrefixEnd, Zenon
    <3> QED
      BY <1>5, <2>2, <3>1, Zenon
  <2> QED
    BY <1>10, <2>1, <2>2, Zenon
<1>12. ASSUME NEW t \in from..to, Known(ls, p, t) \in SUBSET A PROVE l <= StakeAt(ls, p, t)
  <2>1. StakeAt(ls, p, t) \in Int
    BY StakeIsNet, Zenon
  <2>2. CASE c \notin Known(ls, p, t)
    <3>1. Known(ls, p, t) \in SUBSET (A \ {c})
      BY <1>12, <2>2, Zenon
    <3>2. m <= StakeAt(ls, p, t)
      BY <1>2, <3>1, Zenon DEF Lowest
    <3> QED
      BY <1>10, <2>1, <3>2
  <2>3. CASE c \in Known(ls, p, t)
    <3>1. LinkOf[c].ts <= t /\ LinkOf[c].ts \in Int /\ t \in Int
      BY <2>3 DEF Known
    <3>2. ASSUME NEW k \in A PROVE k \in Known(ls, p, t)
      <4>1. LinkOf[k].ts \in Nat /\ LinkOf[k].ts <= LinkOf[c].ts /\ k \in Events(ls, p)
        BY <1>1, SignedFacts, Zenon
      <4>2. LinkOf[k].ts <= t
        BY <3>1, <4>1
      <4> QED
        BY <4>1, <4>2, Zenon DEF Known
    <3>3. Known(ls, p, t) = A
      BY <1>12, <3>2, Zenon
    <3>4. StakeAt(ls, p, t) = y
      BY <1>5, <3>3, StakeIsNet, Zenon
    <3> QED
      BY <1>10, <3>4, Zenon
  <2> QED
    BY <2>2, <2>3, Zenon
<1>13. PICK s : s = ApplyInRange(r, c)
  OBVIOUS
<1>14. s.ok = TRUE /\ s.balance = y /\ s.least = l
  BY <1>9, <1>13
<1> QED
  BY <1>5, <1>10, <1>11, <1>12, <1>13, <1>14, ZenonT(40) DEF Lowest

\* lowestInRange computes the lowest stake of a period.
LEMMA LowestOfPeriod ==
  ASSUME NEW ls \in SUBSET Link, IsFiniteSet(ls), NEW p, InOrder(ls, p),
         NEW from \in Nat, NEW to \in Nat, from <= to
  PROVE  \A W \in SUBSET During(ls, p, from, to) :
           Prefix(ls, p, Known(ls, p, from) \cup W)
             => Lowest(ls, p, from, to, lowestInRange(StakeAt(ls, p, from), W), Known(ls, p, from) \cup W)
<1>1. PICK D, K, b0 : D = During(ls, p, from, to) /\ K = Known(ls, p, from) /\ b0 = StakeAt(ls, p, from)
  OBVIOUS
<1> DEFINE good(W) == Lowest(ls, p, from, to, lowestInRange(b0, W), K \cup W)
           B == {W \in SUBSET D : Prefix(ls, p, K \cup W) /\ ~ good(W)}
<1>2. b0 \in Nat /\ b0 = Net(ls, K)
  BY <1>1, BalanceAt, StakeIsNet, Zenon
<1>3. D \in SUBSET Events(ls, p) /\ \A W \in SUBSET D : W \in SUBSET Events(ls, p)
  BY <1>1, Zenon DEF During
<1>4. IsFiniteSet(D) /\ \A W \in SUBSET D : W \in SUBSET Link /\ IsFiniteSet(W)
  BY <1>3, EventsFacts, Zenon
<1>5. \A W \in SUBSET D : lowestInRange(b0, W) \in RangeBalance
  BY <1>2, <1>4, RangeStep, Zenon
<1>6. good({})
  <2>1. PICK r : r = lowestInRange(b0, {})
    OBVIOUS
  <2>2. r = [ok |-> TRUE, balance |-> b0, least |-> b0]
    <3>1. {} \in SUBSET Link /\ IsFiniteSet({})
      BY FS_EmptySet
    <3> QED
      BY <1>2, <2>1, <3>1, RangeStep, Zenon
  <2>3. r.ok = TRUE /\ r.balance = b0 /\ r.least = b0
    BY <2>2, Zenon
  <2>4. b0 <= b0 /\ from \in from..to
    BY <1>2
  <2>5. ASSUME NEW t \in from..to, Known(ls, p, t) \in SUBSET K PROVE b0 <= StakeAt(ls, p, t)
    <3>1. t \in Nat /\ from <= t
      OBVIOUS
    <3>2. ASSUME NEW k \in K PROVE k \in Known(ls, p, t)
      <4>1. k \in Events(ls, p) /\ LinkOf[k].ts <= from
        BY <1>1, Zenon DEF Known
      <4>2. LinkOf[k].ts \in Nat
        BY <4>1, SignedFacts, Zenon DEF Events
      <4>3. LinkOf[k].ts <= t
        BY <3>1, <4>1, <4>2
      <4> QED
        BY <4>1, <4>3, Zenon DEF Known
    <3>3. Known(ls, p, t) = K
      BY <2>5, <3>2, Zenon
    <3>4. StakeAt(ls, p, t) = b0
      BY <1>2, <3>3, StakeIsNet, Zenon
    <3> QED
      BY <2>4, <3>4, Zenon
  <2>6. K \cup {} = K
    OBVIOUS
  <2>7. Lowest(ls, p, from, to, r, K)
    BY <1>1, <1>2, <2>3, <2>4, <2>5, Zenon DEF Lowest
  <2> QED
    BY <2>1, <2>6, <2>7, Zenon
<1>7. ASSUME NEW W \in SUBSET D, W # {}, Prefix(ls, p, K \cup W), NEW c, c = LastEvent(W),
             good(W \ {c})
      PROVE  good(W)
  <2>1. /\ c \in W /\ c \notin K
        /\ \A k \in K \cup W : ~ EventBefore(c, k) /\ LinkOf[k].ts <= LinkOf[c].ts
    BY <1>1, <1>7, DuringRest, Zenon
  <2>2. PICK A : A = K \cup W
    BY Zenon
  <2>3. K \cup (W \ {c}) = A \ {c} /\ c \in A
    BY <2>1, <2>2, Zenon
  <2>4. LinkOf[c].ts \in from..to
    <3>1. LinkOf[c].ts > from /\ LinkOf[c].ts <= to /\ c \in Events(ls, p)
      BY <1>1, <2>1, Zenon DEF During
    <3>2. LinkOf[c].ts \in Nat
      BY <3>1, SignedFacts, Zenon DEF Events
    <3> QED
      BY <3>1, <3>2
  <2>5. PICK r : r = lowestInRange(b0, W \ {c}) /\ r \in RangeBalance
    <3>1. W \ {c} \in SUBSET D
      BY Zenon
    <3> QED
      BY <1>5, <3>1, Zenon
  <2>6. lowestInRange(b0, W) = ApplyInRange(r, c)
    BY <1>2, <1>4, <1>7, <2>5, RangeStep, Zenon
  <2>7. Lowest(ls, p, from, to, r, A \ {c})
    BY <1>7, <2>3, <2>5, Zenon
  <2>8. \A k \in A : ~ EventBefore(c, k) /\ LinkOf[k].ts <= LinkOf[c].ts
    BY <2>1, <2>2, Zenon
  <2>9. Lowest(ls, p, from, to, ApplyInRange(r, c), A)
    BY <1>7, <2>2, <2>3, <2>4, <2>5, <2>7, <2>8, LowestStep, Zenon
  <2> QED
    BY <2>2, <2>6, <2>9, Zenon
<1> HIDE DEF good
<1>8. B = {}
  <2> SUFFICES ASSUME B # {} PROVE FALSE
    OBVIOUS
  <2>1. PICK W \in B : \A x \in W : W \ {x} \notin B
    <3>1. B \in SUBSET SUBSET D
      BY Zenon
    <3> HIDE DEF B
    <3> QED
      BY <1>4, <3>1, SmallestSubset, Zenon
  <2>2. W \in SUBSET D /\ Prefix(ls, p, K \cup W) /\ ~ good(W)
    BY <2>1, Zenon
  <2>3. W # {}
    BY <1>6, <2>2, Zenon
  <2>4. PICK c : c = LastEvent(W)
    OBVIOUS
  <2>5. c \in W /\ Prefix(ls, p, K \cup (W \ {c})) /\ W \ {c} \in SUBSET D
    BY <1>1, <2>2, <2>3, <2>4, DuringRest, Zenon
  <2>6. good(W \ {c})
    BY <2>1, <2>5, Zenon
  <2> HIDE DEF B
  <2> QED
    BY <1>7, <2>2, <2>3, <2>4, <2>6, Zenon
<1> QED
  BY <1>1, <1>8, Zenon DEF good

\* The stake that nominations of an epoch are reconciled with is the least of the epoch.
LEMMA RangeIsLeast ==
  ASSUME NEW ls \in SUBSET Link, IsFiniteSet(ls), NEW p, InOrder(ls, p), HasAccount(ls, p),
         NEW from \in Nat, NEW to \in Nat, from <= to
  PROVE  /\ LeastStake(ls, p, from, to) \in Nat
         /\ GetAvailableBalanceInRange(ls, p, from, to)
              = [ok |-> TRUE, balance |-> LeastStake(ls, p, from, to)]
<1>1. PICK D, K, b0 : D = During(ls, p, from, to) /\ K = Known(ls, p, from) /\ b0 = StakeAt(ls, p, from)
  OBVIOUS
<1>2. b0 \in Nat /\ GetAvailableBalanceAt(ls, p, from) = [ok |-> TRUE, balance |-> b0]
  BY <1>1, BalanceAt, Zenon
<1>3. K \cup D = Known(ls, p, to)
  <2>1. \A k \in Events(ls, p) : LinkOf[k].ts \in Nat
    BY SignedFacts, Zenon DEF Events
  <2>2. \A k \in Events(ls, p) : LinkOf[k].ts <= to <=> \/ LinkOf[k].ts <= from
                                                        \/ LinkOf[k].ts > from /\ LinkOf[k].ts <= to
    BY <2>1
  <2> QED
    BY <1>1, <2>2, Zenon DEF Known, During
<1>4. PICK r : r = lowestInRange(b0, D)
  OBVIOUS
<1>5. r \in RangeBalance
  <2>1. D \in SUBSET Events(ls, p)
    BY <1>1, Zenon DEF During
  <2>2. D \in SUBSET Link /\ IsFiniteSet(D)
    BY <2>1, EventsFacts, Zenon
  <2> QED
    BY <1>2, <1>4, <2>2, RangeStep, Zenon
<1>6. Lowest(ls, p, from, to, r, K \cup D)
  <2>1. D \in SUBSET During(ls, p, from, to) /\ Prefix(ls, p, K \cup D)
    BY <1>1, <1>3, KnownIsPrefix, Zenon
  <2> QED
    BY <1>1, <1>4, <2>1, LowestOfPeriod, Zenon
<1>7. PICK m \in Nat : m = r.least /\ r.ok = TRUE
  BY <1>5, <1>6, Zenon DEF RangeBalance, Lowest
<1>8. GetAvailableBalanceInRange(ls, p, from, to) = [ok |-> TRUE, balance |-> m]
  <2>1. GetAvailableBalanceAt(ls, p, from).ok = TRUE /\ GetAvailableBalanceAt(ls, p, from).balance = b0
    BY <1>2
  <2> QED
    BY <1>1, <1>4, <1>7, <2>1, Zenon DEF GetAvailableBalanceInRange, During
<1>9. ASSUME NEW t \in from..to PROVE m <= StakeAt(ls, p, t)
  <2>1. t <= to /\ t \in Nat
    OBVIOUS
  <2>2. \A k \in Events(ls, p) : LinkOf[k].ts \in Nat
    BY SignedFacts, Zenon DEF Events
  <2>3. \A k \in Events(ls, p) : LinkOf[k].ts <= t => LinkOf[k].ts <= to
    BY <2>1, <2>2
  <2>4. Known(ls, p, t) \in SUBSET (K \cup D)
    BY <1>3, <2>3, Zenon DEF Known
  <2> QED
    BY <1>6, <1>7, <2>4, Zenon DEF Lowest
<1>10. PICK u \in from..to : StakeAt(ls, p, u) <= m
  BY <1>6, <1>7, Zenon DEF Lowest
<1>11. \A t \in from..to : StakeAt(ls, p, t) \in Int
  BY StakeIsNet, Zenon
<1>12. StakeAt(ls, p, u) = m
  <2>1. m <= StakeAt(ls, p, u) /\ StakeAt(ls, p, u) \in Int
    BY <1>9, <1>11, Zenon
  <2> QED
    BY <1>10, <2>1
<1>13. LeastStake(ls, p, from, to) = m
  <2> DEFINE S == {StakeAt(ls, p, t) : t \in from..to}
             least(s) == \A t \in from..to : s <= StakeAt(ls, p, t)
  <2>1. m \in S /\ least(m)
    BY <1>9, <1>12, Zenon
  <2>2. PICK s : s = LeastStake(ls, p, from, to) /\ s \in S /\ least(s)
    <3>1. LeastStake(ls, p, from, to) = CHOOSE s \in S : least(s)
      BY Zenon DEF LeastStake
    <3> HIDE DEF S, least
    <3> QED
      BY <2>1, <3>1, Zenon
  <2>3. PICK v \in from..to : s = StakeAt(ls, p, v)
    BY <2>2, Zenon
  <2>4. s <= m /\ m <= s /\ s \in Int
    BY <1>9, <1>11, <1>12, <2>2, <2>3, Zenon
  <2>5. s = m
    BY <2>4
  <2> QED
    BY <2>2, <2>5, Zenon
<1> QED
  BY <1>7, <1>8, <1>13, Zenon

-----------------------------------------------------------------------------
(* Nominations and stake.                                                  *)

\* r has what p nominated or its least stake of the period, each node within a unit.
IsRewardable(r, ds, p, ls, from, to) ==
  /\ Total(r, p) = Smaller(ds[p].total, LeastStake(ls, p, from, to))
  /\ \A n \in DOMAIN ds[p].on : Near(ds[p].on[n], On(r, p, n), Total(r, p), ds[p].total)

\* A party whose links are in order keeps what it nominated or the least stake of the epoch.
LEMMA RewardedFor ==
  ASSUME NEW V \in SUBSET Node, NEW ls \in SUBSET Link, IsFiniteSet(ls),
         NEW from \in Nat, NEW to \in Nat, from <= to,
         NEW ds, IsDelegation(ds, V), NEW r, IsCutTo(r, ds, StakeInRange(ls, from, to), V),
         NEW p \in DOMAIN ds, InOrder(ls, p), HasAccount(ls, p)
  PROVE  IsRewardable(r, ds, p, ls, from, to)
<1>1. PICK T, L, stake : /\ T = ds[p].total /\ L = LeastStake(ls, p, from, to)
                         /\ stake = StakeInRange(ls, from, to)
  OBVIOUS
<1>2. IsState(ds[p], V) /\ p \in Party
  BY Zenon DEF IsDelegation
<1>3. T \in Nat \ {0} /\ \A n \in DOMAIN ds[p].on : ds[p].on[n] \in Nat \ {0}
  BY <1>1, <1>2, StateFacts, Zenon
<1>4. L \in Nat /\ stake[p].ok /\ stake[p].balance = L
  <2>1. /\ LeastStake(ls, p, from, to) \in Nat
        /\ GetAvailableBalanceInRange(ls, p, from, to)
             = [ok |-> TRUE, balance |-> LeastStake(ls, p, from, to)]
    BY RangeIsLeast, SMTT(20)
  <2>2. stake[p] = [ok |-> TRUE, balance |-> L]
    BY <1>1, <1>2, <2>1, Zenon DEF StakeInRange
  <2>3. stake[p].ok /\ stake[p].balance = L
    BY ONLY <2>2
  <2> QED
    BY <1>1, <2>1, <2>3, Zenon
<1>5. CASE L < T
  <2>1. Short(ds, p, stake)
    BY <1>1, <1>4, <1>5, Zenon DEF Short
  <2>2. /\ Total(r, p) = L
        /\ \A n \in DOMAIN ds[p].on : Near(ds[p].on[n], On(r, p, n), L, T)
    BY <1>1, <1>4, <2>1, Zenon DEF IsCutTo
  <2>3. ~(T < L)
    BY <1>3, <1>4, <1>5, SMTT(30)
  <2>4. Smaller(T, L) = L
    BY <2>3, Zenon DEF Smaller
  <2> QED
    BY <1>1, <2>2, <2>4, Zenon DEF IsRewardable
<1>6. CASE ~(L < T)
  <2>1. ~ Short(ds, p, stake)
    BY <1>1, <1>4, <1>6, Zenon DEF Short
  <2>2. p \in DOMAIN r /\ r[p] = ds[p]
    BY <1>1, <2>1, Zenon DEF IsCutTo
  <2>3. Total(r, p) = T
    BY <1>1, <2>2, Zenon DEF Total
  <2>4. ~(T < L) => T = L
    BY <1>3, <1>4, <1>6, SMTT(30)
  <2>5. Smaller(T, L) = T
    BY <2>4, Zenon DEF Smaller
  <2>6. ASSUME NEW n \in DOMAIN ds[p].on PROVE Near(ds[p].on[n], On(r, p, n), T, T)
    <3>1. PICK x \in Nat : x = ds[p].on[n]
      <4>1. ds[p].on[n] \in Nat
        BY <1>3
      <4> QED
        BY <4>1, Zenon
    <3>2. On(r, p, n) = x
      BY <2>2, <3>1, Zenon DEF On
    <3>3. x * T \in Int
      BY <1>3, SMTT(30)
    <3>4. x * T - T <= x * T /\ x * T <= x * T + T
      BY <1>3, <3>3
    <3> QED
      BY <3>1, <3>2, <3>4, Zenon DEF Near
  <2> QED
    BY <1>1, <2>3, <2>5, <2>6, Zenon DEF IsRewardable
<1> QED
  BY <1>5, <1>6, Zenon

\* What becomes active is covered, up to the rounding of auto delegation.
LEMMA ActiveIsCovered ==
  ASSUME NEW V \in SUBSET Node, NEW s, IsState(s, V), NEW a, IsState(a, V), NEW b \in Nat,
         s.total <= b, Promotes(a, s, b)
  PROVE  2 * Scale * (a.total - b) <= Cardinality(DOMAIN a.on) * (b - s.total)
<1>1. PICK S \in Nat \ {0} : S = Scale
  BY DelegationAssumption, Zenon
<1>2. PICK T \in Nat, A \in Nat : T = s.total /\ A = a.total
  <2>1. s.total \in Nat \ {0} /\ a.total \in Nat \ {0}
    BY StateFacts, Zenon
  <2>2. s.total \in Nat /\ a.total \in Nat
    BY <2>1
  <2> QED
    BY <2>2, Zenon
<1>3. PICK C \in Nat : C = Cardinality(DOMAIN a.on)
  <2>1. IsFiniteSet(DOMAIN a.on)
    BY StateFacts, Zenon
  <2> QED
    BY <2>1, FS_CardinalityType, Zenon
<1>4. PICK av \in Nat : av = b - T
  <2>1. b - T \in Nat
    BY <1>2
  <2> QED
    BY <2>1, Zenon
<1>5. PICK k \in Nat : k = 2 * S
  OBVIOUS
<1>6. k * (A - b) <= C * av
  <2>1. CASE a = s
    <3>1. A - b = -av
      BY <1>2, <1>4, <2>1, SMTT(30)
    <3>2. k * (-av) = -(k * av) /\ k * av \in Nat /\ C * av \in Nat
      OBVIOUS
    <3>3. -(k * av) <= C * av
      BY <3>2
    <3> QED
      BY <3>1, <3>2, <3>3, Zenon
  <2>2. CASE DOMAIN a.on = DOMAIN s.on /\ Rounded(a, s, b - s.total)
    <3>1. k * (A - T) <= k * av + C * av
      BY <1>1, <1>2, <1>3, <1>4, <1>5, <2>2, Zenon DEF Rounded
    <3>2. A - b = (A - T) - av
      BY <1>2, <1>4, SMTT(30)
    <3>3. PICK d \in Int : d = A - T
      OBVIOUS
    <3>4. k * (d - av) = k * d - k * av
      OBVIOUS
    <3>5. PICK u \in Int, v \in Int, w \in Int : u = k * d /\ v = k * av /\ w = C * av
      OBVIOUS
    <3>6. u <= v + w
      BY <3>1, <3>3, <3>5, Zenon
    <3>7. u - v <= w
      BY <3>6
    <3> QED
      BY <3>2, <3>3, <3>4, <3>5, <3>7, Zenon
  <2> QED
    BY <2>1, <2>2, Zenon DEF Promotes
<1> QED
  BY <1>1, <1>2, <1>3, <1>4, <1>5, <1>6, Zenon

\* Sound nominations are rewarded and renewed only as far as stake covers them.
LEMMA CoveredByInv ==
  ASSUME Inv
  PROVE  CoveredByStake
<1>1. PICK r : r = Reconciled(links, epoch.start, now + 1)
  OBVIOUS
<1>2. /\ validators \in SUBSET Node /\ links \in SUBSET Link /\ IsFiniteSet(links)
      /\ IsDelegation(cur, validators) /\ IsDelegation(next, validators)
      /\ \A p \in DOMAIN cur \cup DOMAIN next : HasAccount(links, p)
  BY Zenon DEF Inv
<1>3. epoch.start \in Nat /\ now + 1 \in Nat /\ epoch.start <= now + 1
  BY DEF Inv
<1>4. /\ IsCutTo(r.cur, cur, StakeInRange(links, epoch.start, now + 1), validators)
      /\ IsCutTo(r.next, next, StakeNow(links), validators)
  BY <1>1, <1>2, ReconciledFacts, Zenon
<1>5. ASSUME NEW p \in DOMAIN cur, InOrder(links, p)
      PROVE  /\ Total(r.cur, p)
                  = Smaller(cur[p].total, LeastStake(links, p, epoch.start, now + 1))
             /\ \A n \in DOMAIN cur[p].on :
                   LET exact == cur[p].on[n] * Total(r.cur, p)
                       kept  == On(r.cur, p, n) * cur[p].total
                   IN  exact - cur[p].total <= kept /\ kept <= exact + cur[p].total
  <2>1. PICK q, from, to : q = r.cur /\ from = epoch.start /\ to = now + 1
    OBVIOUS
  <2>2. HasAccount(links, p)
    BY <1>2, Zenon
  <2>3. /\ Total(q, p) = Smaller(cur[p].total, LeastStake(links, p, from, to))
        /\ \A n \in DOMAIN cur[p].on : Near(cur[p].on[n], On(q, p, n), Total(q, p), cur[p].total)
    <3>1. IsRewardable(q, cur, p, links, from, to)
      BY <1>2, <1>3, <1>4, <1>5, <2>1, <2>2, RewardedFor, Zenon
    <3> QED
      BY <3>1, Zenon DEF IsRewardable
  <2> QED
    BY <2>1, <2>3, Zenon DEF Near
<1>6. ASSUME NEW active, active = Promoted(r).cur, NEW p \in DOMAIN active
      PROVE  2 * Scale * (active[p].total - GetAvailableBalance(links, p).balance)
                  <= Cardinality(DOMAIN active[p].on)
                       * (GetAvailableBalance(links, p).balance - r.next[p].total)
  <2>1. PICK P, d : P = Promoted(r) /\ d = r.next
    OBVIOUS
  <2>2. IsDelegation(d, validators) /\ DOMAIN d \in SUBSET DOMAIN next
    BY <1>4, <2>1, Zenon DEF IsCutTo
  <2>3. /\ IsDelegation(P.cur, validators) /\ DOMAIN P.cur = DOMAIN d
        /\ \A q \in DOMAIN d : Promotes(P.cur[q], d[q], GetAvailableBalance(links, q).balance)
    <3>1. IsPromotion(P, r.next, validators)
      BY <1>2, <2>1, <2>2, PromotedFacts, Zenon
    <3> QED
      BY <2>1, <3>1, Zenon DEF IsPromotion
  <2>4. active = P.cur /\ p \in DOMAIN d
    BY <1>6, <2>1, <2>3, Zenon
  <2>5. HasAccount(links, p)
    BY <1>2, <2>2, <2>4, Zenon
  <2>6. PICK b : b = GetAvailableBalance(links, p).balance
    OBVIOUS
  <2>7. b \in Nat /\ d[p].total <= b
    BY <1>2, <1>4, <2>1, <2>4, <2>5, <2>6, CutCovers, Zenon
  <2>8. IsState(d[p], validators) /\ IsState(active[p], validators)
    BY <2>2, <2>3, <2>4, Zenon DEF IsDelegation
  <2>9. Promotes(active[p], d[p], b)
    BY <2>3, <2>4, <2>6, Zenon
  <2>10. 2 * Scale * (active[p].total - b) <= Cardinality(DOMAIN active[p].on) * (b - d[p].total)
    BY <1>2, <2>7, <2>8, <2>9, ActiveIsCovered, Zenon
  <2> QED
    BY <2>1, <2>6, <2>10, Zenon
<1> QED
  BY <1>1, <1>5, <1>6, Zenon DEF CoveredByStake

\* Nominations count only as far as stake covers them: rewards at the end of an epoch are for
\* the least stake of the epoch at most, shared out in proportion to within one unit per node,
\* and what becomes active is covered up to rounding (reconcileAssociationWithNomination,
\* ProcessEpochDelegations).
THEOREM StakeCovers == Spec => []CoveredByStake
<1>1. Inv => CoveredByStake
  BY CoveredByInv
<1> QED
  BY <1>1, NominationsAreSound, PTL

=============================================================================
