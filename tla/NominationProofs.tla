-------------------------- MODULE NominationProofs --------------------------
(***************************************************************************)
(* Nominations stay sound in Delegation and Staking, for every set of      *)
(* parties, links and nodes, and every bound: the inductive invariant,     *)
(* with the lemmas about sums, folds, shares and balances it rests on.     *)
(***************************************************************************)
EXTENDS Delegation, FiniteSetTheorems, WellFoundedInduction, TLAPS

-----------------------------------------------------------------------------
(* Induction over finite sets, and what a fold computes.                   *)

\* Of some subsets of a finite set one is smallest: without any of its elements it is not
\* one of them.
LEMMA SmallestSubset ==
  ASSUME NEW D, IsFiniteSet(D), NEW B \in SUBSET SUBSET D, B # {}
  PROVE  \E s \in B : \A x \in s : s \ {x} \notin B
<1>1. IsWellFoundedOn(StrictSubsetOrdering(D), SUBSET D)
  BY FS_FiniteSubsetsOfFinite, FS_StrictSubsetOrderingWellFounded, Zenon
<1>2. PICK s \in B : \A t \in B : <<t, s>> \notin StrictSubsetOrdering(D)
  BY <1>1, WFMin, Zenon
<1>3. ASSUME NEW x \in s, s \ {x} \in B PROVE FALSE
  <2>1. PICK t : t = s \ {x}
    BY Zenon
  <2>2. t \in SUBSET D /\ s \in SUBSET D /\ t \subseteq s /\ t # s
    BY <2>1, <1>3
  <2>3. <<t, s>> \in StrictSubsetOrdering(D)
    BY <2>2 DEF StrictSubsetOrdering
  <2> QED
    BY <1>2, <1>3, <2>1, <2>3, Zenon
<1> QED
  BY <1>3

\* Induction: a family of subsets that has the empty one, and with each one those with one
\* element more, has them all.
LEMMA SubsetInduction ==
  ASSUME NEW D, IsFiniteSet(D), NEW G, {} \in G,
         \A s \in SUBSET D : \A x \in D \ s : s \in G => s \cup {x} \in G
  PROVE  \A s \in SUBSET D : s \in G
<1> SUFFICES ASSUME NEW r \in SUBSET D, r \notin G PROVE FALSE
  OBVIOUS
<1> DEFINE B == (SUBSET D) \ G
<1>1. PICK s \in B : \A x \in s : s \ {x} \notin B
  <2>1. B \in SUBSET SUBSET D /\ B # {}
    OBVIOUS
  <2> HIDE DEF B
  <2> QED
    BY <2>1, SmallestSubset, Zenon
<1>2. PICK x : x \in s
  OBVIOUS
<1>3. PICK t : t = s \ {x}
  BY Zenon
<1>4. t \in SUBSET D /\ t \in G /\ x \in D \ t /\ s = t \cup {x}
  BY <1>1, <1>2, <1>3
<1> QED
  BY <1>4

\* F is the fold of step over the subsets of S that takes their elements in the order of ch.
IsFold(F, S, base, ch, step) ==
  F = [s \in SUBSET S |-> IF s = {} THEN base ELSE step[ch[s]][F[s \ {ch[s]}]]]

\* Two folds agree where both are defined.
LEMMA FoldUnique ==
  ASSUME NEW S, IsFiniteSet(S), NEW A \in SUBSET S, NEW E \in SUBSET S,
         NEW base, NEW ch, NEW step,
         \A s \in SUBSET S : s # {} => ch[s] \in s,
         NEW F, IsFold(F, A, base, ch, step), NEW G, IsFold(G, E, base, ch, step)
  PROVE  \A s \in SUBSET (A \cap E) : F[s] = G[s]
<1> DEFINE B == {s \in SUBSET (A \cap E) : F[s] # G[s]}
<1> SUFFICES ASSUME B # {} PROVE FALSE
  BY Zenon
<1>1. PICK s \in B : \A x \in s : s \ {x} \notin B
  <2>1. B \in SUBSET SUBSET S
    BY Zenon
  <2> HIDE DEF B
  <2> QED
    BY <2>1, SmallestSubset, Zenon
<1>2. s \in SUBSET S /\ s \in SUBSET E /\ s \in SUBSET A
  BY Zenon
<1>3. /\ s = {} => F[s] = base
      /\ s # {} => F[s] = step[ch[s]][F[s \ {ch[s]}]]
  <2>1. IsFold(F, A, base, ch, step) /\ s \in SUBSET A
    BY <1>2, Zenon
  <2> QED
    BY ONLY <2>1, Zenon DEF IsFold
<1>4. /\ s = {} => G[s] = base
      /\ s # {} => G[s] = step[ch[s]][G[s \ {ch[s]}]]
  <2>1. IsFold(G, E, base, ch, step) /\ s \in SUBSET E
    BY <1>2, Zenon
  <2> QED
    BY ONLY <2>1, Zenon DEF IsFold
<1>5. s # {} /\ ch[s] \in s
  BY <1>1, <1>2, <1>3, <1>4, Zenon
<1>6. s \ {ch[s]} \in SUBSET (A \cap E)
  BY <1>2, Zenon
<1>7. F[s \ {ch[s]}] = G[s \ {ch[s]}]
  BY <1>1, <1>5, <1>6, Zenon
<1> QED
  BY <1>1, <1>3, <1>4, <1>5, <1>7, Zenon

\* There is a fold over every finite set: one over the set is put together from those over
\* the sets that have one element less.
LEMMA FoldExists ==
  ASSUME NEW S, IsFiniteSet(S), NEW base, NEW ch, NEW step,
         \A s \in SUBSET S : s # {} => ch[s] \in s
  PROVE  \E F : IsFold(F, S, base, ch, step)
<1> DEFINE B == {s \in SUBSET S : ~ \E F : IsFold(F, s, base, ch, step)}
<1> SUFFICES ASSUME B # {} PROVE FALSE
  BY Zenon
<1>1. PICK s \in B : \A x \in s : s \ {x} \notin B
  <2>1. B \in SUBSET SUBSET S
    BY Zenon
  <2> HIDE DEF B
  <2> QED
    BY <2>1, SmallestSubset, Zenon
<1> DEFINE H == [x \in s |-> CHOOSE F : IsFold(F, s \ {x}, base, ch, step)]
           out(t) == CHOOSE x \in s : x \notin t
           V == [t \in SUBSET s |->
                   IF t = {} THEN base
                   ELSE IF t = s THEN step[ch[s]][H[ch[s]][s \ {ch[s]}]]
                   ELSE H[out(t)][t]]
<1>2. ASSUME NEW x \in s PROVE IsFold(H[x], s \ {x}, base, ch, step)
  <2>1. s \ {x} \in SUBSET S
    BY Zenon
  <2>2. \E F : IsFold(F, s \ {x}, base, ch, step)
    BY <1>1, <2>1, Zenon
  <2>3. H[x] = CHOOSE F : IsFold(F, s \ {x}, base, ch, step)
    BY Zenon
  <2> QED
    BY <2>2, <2>3, Zenon
<1>3. ASSUME NEW t \in SUBSET s, t # s PROVE out(t) \in s /\ out(t) \notin t
  BY <1>3, Zenon
<1>4. ASSUME NEW t \in SUBSET s, NEW x \in s, NEW y \in s, x \notin t, y \notin t
      PROVE  H[x][t] = H[y][t]
  <2>1. s \ {x} \in SUBSET S /\ s \ {y} \in SUBSET S
    BY Zenon
  <2>2. t \in SUBSET ((s \ {x}) \cap (s \ {y}))
    BY <1>4, Zenon
  <2>3. IsFold(H[x], s \ {x}, base, ch, step) /\ IsFold(H[y], s \ {y}, base, ch, step)
    BY <1>2, Zenon
  <2> HIDE DEF H
  <2>4. PICK A, E, F, G : A = s \ {x} /\ E = s \ {y} /\ F = H[x] /\ G = H[y]
    BY Zenon
  <2>5. /\ A \in SUBSET S /\ E \in SUBSET S /\ t \in SUBSET (A \cap E)
        /\ IsFold(F, A, base, ch, step) /\ IsFold(G, E, base, ch, step)
    BY <2>1, <2>2, <2>3, <2>4, Zenon
  <2>6. F[t] = G[t]
    BY <2>5, FoldUnique, SMTT(20)
  <2> QED
    BY <2>4, <2>6, Zenon
<1>5. ASSUME NEW t \in SUBSET s, t # {}
      PROVE  V[t] = step[ch[t]][V[t \ {ch[t]}]]
  <2>0. t \in SUBSET S
    OBVIOUS
  <2>1. ch[t] \in t /\ ch[t] \in s /\ t \ {ch[t]} \in SUBSET s /\ t \ {ch[t]} # s
    <3>1. ch[t] \in t
      BY <1>5, <2>0
    <3> QED
      BY <3>1
  <2> DEFINE r == t \ {ch[t]}
  <2>2. ASSUME NEW x \in s, x \notin r PROVE V[r] = H[x][r]
    <3>1. IsFold(H[x], s \ {x}, base, ch, step) /\ r \in SUBSET (s \ {x})
      BY <1>2, <2>1, <2>2, Zenon
    <3>2. r = {} => H[x][r] = base
      BY <3>1, Zenon DEF IsFold
    <3>3. V[r] = IF r = {} THEN base ELSE H[out(r)][r]
      <4>1. r \in SUBSET s /\ r # s
        BY <2>1, Zenon
      <4> HIDE DEF r, H, out
      <4> QED
        BY <4>1
    <3>4. out(r) \in s /\ out(r) \notin r
      BY <1>3, <2>1, Zenon
    <3> HIDE DEF V, H, out, r
    <3>5. H[out(r)][r] = H[x][r]
      BY <1>4, <2>1, <2>2, <3>4, Zenon DEF r
    <3> QED
      BY <3>2, <3>3, <3>5, Zenon
  <2>3. CASE t = s
    <3>1. V[t] = step[ch[s]][H[ch[s]][s \ {ch[s]}]]
      BY <1>5, <2>3, Zenon
    <3>2. V[r] = H[ch[s]][r]
      <4>1. ch[s] \in s /\ ch[s] \notin r
        BY <2>1, <2>3, Zenon
      <4> HIDE DEF V, H, r
      <4> QED
        BY <2>2, <4>1, Zenon
    <3> HIDE DEF V, H
    <3> QED
      BY <2>3, <3>1, <3>2, Zenon
  <2>4. CASE t # s
    <3>1. out(t) \in s /\ out(t) \notin t
      BY <1>3, <2>4, Zenon
    <3>2. V[t] = H[out(t)][t]
      BY <1>5, <2>4, Zenon
    <3>3. IsFold(H[out(t)], s \ {out(t)}, base, ch, step) /\ t \in SUBSET (s \ {out(t)})
      BY <1>2, <3>1, Zenon
    <3> HIDE DEF V, H, out
    <3>4. H[out(t)][t] = step[ch[t]][H[out(t)][r]]
      BY <1>5, <3>3, Zenon DEF IsFold
    <3>5. V[r] = H[out(t)][r]
      <4>1. out(t) \notin r
        BY <3>1, Zenon
      <4> HIDE DEF r
      <4> QED
        BY <2>2, <3>1, <4>1, Zenon
    <3> QED
      BY <3>2, <3>4, <3>5, Zenon
  <2> QED
    BY <2>3, <2>4, Zenon
<1>6. \A t \in SUBSET s :
        V[t] = IF t = {} THEN base ELSE step[ch[t]][V[t \ {ch[t]}]]
  <2>1. V[{}] = base
    BY Zenon
  <2> HIDE DEF V
  <2> QED
    BY <1>5, <2>1, Zenon
<1>7. V = [t \in SUBSET s |-> V[t]]
  <2> HIDE DEF H, out
  <2> QED
    OBVIOUS
<1> HIDE DEF V
<1>8. V = [t \in SUBSET s |-> IF t = {} THEN base ELSE step[ch[t]][V[t \ {ch[t]}]]]
  BY <1>6, <1>7, Zenon
<1>9. IsFold(V, s, base, ch, step)
  BY <1>8, Zenon DEF IsFold
<1> QED
  BY <1>1, <1>9, Zenon

\* What a fold computes stays where its steps stay.
LEMMA FoldType ==
  ASSUME NEW S, IsFiniteSet(S), NEW T, NEW base \in T, NEW ch, NEW step,
         \A s \in SUBSET S : s # {} => ch[s] \in s,
         \A x \in S : \A t \in T : step[x][t] \in T,
         NEW F, IsFold(F, S, base, ch, step)
  PROVE  \A s \in SUBSET S : F[s] \in T
<1> DEFINE B == {s \in SUBSET S : F[s] \notin T}
<1> SUFFICES ASSUME B # {} PROVE FALSE
  BY Zenon
<1>2. PICK s \in B : \A x \in s : s \ {x} \notin B
  <2>1. B \in SUBSET SUBSET S
    BY Zenon
  <2> HIDE DEF B
  <2> QED
    BY <2>1, SmallestSubset, Zenon
<1>4. F[s] = IF s = {} THEN base ELSE step[ch[s]][F[s \ {ch[s]}]]
  BY Zenon DEF IsFold
<1>6. s # {} /\ ch[s] \in s /\ ch[s] \in S
  BY <1>4, Zenon
<1>8. F[s \ {ch[s]}] \in T
  <2>1. s \ {ch[s]} \in SUBSET S
    BY Zenon
  <2> QED
    BY <1>2, <1>6, <2>1, Zenon
<1> QED
  BY <1>4, <1>6, <1>8, Zenon

\* G satisfies the equations of a fold as far as its values are in T.
FoldsWithin(T, G, S, base, ch, step) ==
  /\ G = [s \in SUBSET S |-> G[s]]
  /\ G[{}] = base
  /\ \A s \in SUBSET S : s # {} /\ G[s \ {ch[s]}] \in T
                            => G[s] = step[ch[s]][G[s \ {ch[s]}]]

\* Whatever satisfies the equations of a fold as far as its values are in T is that fold.
LEMMA FoldOf ==
  ASSUME NEW S, IsFiniteSet(S), NEW T, NEW base \in T, NEW ch, NEW step,
         \A s \in SUBSET S : s # {} => ch[s] \in s,
         \A x \in S : \A t \in T : step[x][t] \in T,
         NEW G, FoldsWithin(T, G, S, base, ch, step)
  PROVE  IsFold(G, S, base, ch, step) /\ \A s \in SUBSET S : G[s] \in T
<1> DEFINE B == {s \in SUBSET S : G[s] \notin T}
<1>1. B = {}
  <2> SUFFICES ASSUME B # {} PROVE FALSE
    OBVIOUS
  <2>1. PICK s \in B : \A x \in s : s \ {x} \notin B
    <3>1. B \in SUBSET SUBSET S
      BY Zenon
    <3> HIDE DEF B
    <3> QED
      BY <3>1, SmallestSubset, Zenon
  <2>2. s # {} /\ ch[s] \in s /\ ch[s] \in S
    BY Zenon DEF FoldsWithin
  <2>3. s \ {ch[s]} \in SUBSET S
    BY Zenon
  <2>4. G[s \ {ch[s]}] \in T
    BY <2>1, <2>2, <2>3, Zenon
  <2>5. G[s] = step[ch[s]][G[s \ {ch[s]}]]
    BY <2>2, <2>4, Zenon DEF FoldsWithin
  <2> QED
    BY <2>2, <2>4, <2>5, Zenon
<1>2. \A s \in SUBSET S : G[s] \in T
  BY <1>1, Zenon
<1>3. ASSUME NEW s \in SUBSET S
      PROVE  G[s] = IF s = {} THEN base ELSE step[ch[s]][G[s \ {ch[s]}]]
  <2>1. s \ {ch[s]} \in SUBSET S
    BY Zenon
  <2> QED
    BY <1>2, <2>1, Zenon DEF FoldsWithin
<1>4. G = [s \in SUBSET S |-> IF s = {} THEN base ELSE step[ch[s]][G[s \ {ch[s]}]]]
  BY <1>3, Zenon DEF FoldsWithin
<1> QED
  BY <1>2, <1>4, Zenon DEF IsFold

-----------------------------------------------------------------------------
(* Sums.                                                                   *)

\* The sum of the values of f over a part of its domain.
SumOver(f, s) == SumOf([x \in s |-> f[x]])

AnyOf(D) == [s \in SUBSET D |-> CHOOSE x \in s : TRUE]

Adding(f, D) == [x \in D |-> [t \in Int |-> f[x] + t]]

IsSum(G, f, E) ==
  G = [s \in SUBSET E |->
         IF s = {} THEN 0
         ELSE [y \in E |-> f[y]][CHOOSE x \in s : TRUE] + G[s \ {CHOOSE x \in s : TRUE}]]

\* SumOf, unfolded.
LEMMA SumUnfolded ==
  ASSUME NEW f, NEW E
  PROVE  SumOver(f, E) = (CHOOSE G : IsSum(G, f, E))[E]
<1> DEFINE g == [y \in E |-> f[y]]
<1>1. DOMAIN g = E
  OBVIOUS
<1> HIDE DEF g
<1>2. SumOf(g) = (CHOOSE G : G = [s \in SUBSET DOMAIN g |->
         IF s = {} THEN 0
         ELSE g[CHOOSE x \in s : TRUE] + G[s \ {CHOOSE x \in s : TRUE}]])[DOMAIN g]
  BY Zenon DEF SumOf, FoldFunction, FoldFunctionOnSet, MapThenFoldSet
<1> QED
  BY <1>1, <1>2, Zenon DEF g, SumOver, IsSum

\* SumOf is a fold over the sets of the terms that are left.
LEMMA SumIsFold ==
  ASSUME NEW D, IsFiniteSet(D), NEW f \in [D -> Int], NEW E \in SUBSET D
  PROVE  \E G : /\ IsFold(G, E, 0, AnyOf(D), Adding(f, D))
                /\ \A s \in SUBSET E : G[s] \in Int
                /\ SumOver(f, E) = G[E]
<1> DEFINE ch == AnyOf(D)
           step == Adding(f, D)
<1>1. IsFiniteSet(E)
  BY FS_Subset, Zenon
<1>2. \A s \in SUBSET E : s # {} => ch[s] \in s
  BY Zenon DEF AnyOf
<1>3. \A s \in SUBSET E : ch[s] = CHOOSE x \in s : TRUE
  BY Zenon DEF AnyOf
<1>4. \A x \in E : \A t \in Int : step[x][t] = f[x] + t
  BY DEF Adding
<1>41. \A x \in E : \A t \in Int : step[x][t] \in Int
  BY DEF Adding
<1>5. \A x \in E : [y \in E |-> f[y]][x] = f[x]
  BY Zenon
<1> HIDE DEF ch, step
<1>12. 0 \in Int
  OBVIOUS
<1>6. PICK F : IsFold(F, E, 0, ch, step)
  BY <1>1, <1>2, FoldExists, Zenon
<1>7. \A s \in SUBSET E : F[s] \in Int
  BY <1>1, <1>2, <1>41, <1>6, <1>12, FoldType, Zenon
<1>8. IsSum(F, f, E)
  <2>1. ASSUME NEW s \in SUBSET E
        PROVE  F[s] = IF s = {} THEN 0
                      ELSE [y \in E |-> f[y]][CHOOSE x \in s : TRUE] + F[s \ {CHOOSE x \in s : TRUE}]
    <3>1. F[s] = IF s = {} THEN 0 ELSE step[ch[s]][F[s \ {ch[s]}]]
      BY <1>6, Zenon DEF IsFold
    <3>2. CASE s # {}
      <4>1. ch[s] \in s /\ ch[s] \in E
        BY <1>2, <3>2, Zenon
      <4>2. F[s \ {ch[s]}] \in Int
        BY <1>7, Zenon
      <4>3. step[ch[s]][F[s \ {ch[s]}]] = f[ch[s]] + F[s \ {ch[s]}]
        BY <1>4, <4>1, <4>2, Zenon
      <4>4. [y \in E |-> f[y]][ch[s]] = f[ch[s]] /\ ch[s] = CHOOSE x \in s : TRUE
        BY <1>3, <1>5, <4>1, Zenon
      <4> QED
        BY <3>1, <3>2, <4>3, <4>4, Zenon
    <3> QED
      BY <3>1, <3>2, Zenon
  <2>2. F = [s \in SUBSET E |-> F[s]]
    BY <1>6, Zenon DEF IsFold
  <2> QED
    BY <2>1, <2>2, Zenon DEF IsSum
<1>9. PICK G : G = (CHOOSE g : IsSum(g, f, E)) /\ IsSum(G, f, E)
  BY <1>8, Zenon
<1>10. G = [s \in SUBSET E |-> G[s]] /\ G[{}] = 0
  <2>1. G = [s \in SUBSET E |-> G[s]]
    BY <1>9, Zenon DEF IsSum
  <2>2. {} \in SUBSET E
    BY Zenon
  <2>3. G[{}] = 0
    BY <1>9, <2>2, Zenon DEF IsSum
  <2> QED
    BY <2>1, <2>3, Zenon
<1>11. ASSUME NEW s \in SUBSET E, s # {}, G[s \ {ch[s]}] \in Int
       PROVE  G[s] = step[ch[s]][G[s \ {ch[s]}]]
  <2>1. G[s] = [y \in E |-> f[y]][CHOOSE x \in s : TRUE] + G[s \ {CHOOSE x \in s : TRUE}]
    BY <1>9, <1>11, Zenon DEF IsSum
  <2>2. ch[s] \in E
    BY <1>2, <1>11, Zenon
  <2>3. step[ch[s]][G[s \ {ch[s]}]] = f[ch[s]] + G[s \ {ch[s]}]
    BY <1>4, <1>11, <2>2, Zenon
  <2>4. [y \in E |-> f[y]][ch[s]] = f[ch[s]] /\ ch[s] = CHOOSE x \in s : TRUE
    BY <1>3, <1>5, <2>2, Zenon
  <2> QED
    BY <2>1, <2>3, <2>4, Zenon
<1>15. \A s \in SUBSET E : s # {} /\ G[s \ {ch[s]}] \in Int
                               => G[s] = step[ch[s]][G[s \ {ch[s]}]]
  BY <1>11, Zenon
<1>13. IsFold(G, E, 0, ch, step) /\ \A s \in SUBSET E : G[s] \in Int
  <2>1. FoldsWithin(Int, G, E, 0, ch, step)
    BY <1>10, <1>15, Zenon DEF FoldsWithin
  <2> QED
    BY <1>1, <1>2, <1>12, <1>41, <2>1, FoldOf, Zenon
<1>14. SumOver(f, E) = G[E]
  BY <1>9, SumUnfolded, Zenon
<1> QED
  BY <1>13, <1>14, Zenon DEF ch, step

\* A sum without one of its terms, whichever SumOf leaves out.
LEMMA SumStep ==
  ASSUME NEW D, IsFiniteSet(D), NEW f \in [D -> Int], NEW E \in SUBSET D
  PROVE  /\ SumOver(f, E) \in Int
         /\ E = {} => SumOver(f, E) = 0
         /\ E # {} => \E c \in E : SumOver(f, E) = f[c] + SumOver(f, E \ {c})
<1> DEFINE ch == AnyOf(D)
           step == Adding(f, D)
<1>1. PICK G : /\ IsFold(G, E, 0, ch, step) /\ \A s \in SUBSET E : G[s] \in Int
               /\ SumOver(f, E) = G[E]
  BY SumIsFold, Zenon
<1>2. \A s \in SUBSET D : s # {} => ch[s] \in s
  BY Zenon DEF AnyOf
<1>3. \A x \in D : \A t \in Int : step[x][t] = f[x] + t
  BY DEF Adding
<1>4. SumOver(f, E) \in Int
  BY <1>1, Zenon
<1> HIDE DEF ch, step
<1>5. CASE E = {}
  <2>1. G[E] = 0
    BY ONLY <1>1, <1>5, Zenon DEF IsFold
  <2> QED
    BY <1>1, <1>4, <1>5, <2>1, Zenon
<1>6. CASE E # {}
  <2>1. PICK c : c = ch[E]
    OBVIOUS
  <2>2. c \in E /\ c \in D
    BY <1>2, <1>6, <2>1, Zenon
  <2>3. PICK E1 : E1 = E \ {c}
    BY Zenon
  <2>4. E1 \in SUBSET D /\ E1 \in SUBSET E /\ E1 \in SUBSET (E \cap E1)
    BY <2>3, Zenon
  <2>5. G[E] = step[c][G[E1]]
    BY ONLY <1>1, <1>6, <2>1, <2>3, Zenon DEF IsFold
  <2>6. PICK G1 : /\ IsFold(G1, E1, 0, ch, step) /\ SumOver(f, E1) = G1[E1]
    BY <2>4, SumIsFold, Zenon DEF ch, step
  <2>7. G[E1] = G1[E1]
    BY <1>1, <1>2, <2>4, <2>6, FoldUnique, SMTT(20)
  <2>8. step[c][G[E1]] = f[c] + G[E1]
    BY <1>1, <1>3, <2>2, <2>4, Zenon
  <2> QED
    BY <1>1, <1>4, <1>6, <2>2, <2>3, <2>5, <2>6, <2>7, <2>8, Zenon
<1> QED
  BY <1>5, <1>6, Zenon

\* A sum without any one of its terms: the order of the terms does not matter.
LEMMA SumRemove ==
  ASSUME NEW D, IsFiniteSet(D), NEW f \in [D -> Int], NEW E \in SUBSET D, NEW x \in E
  PROVE  SumOver(f, E) = f[x] + SumOver(f, E \ {x})
<1> DEFINE B == {s \in SUBSET D : \E y \in s : SumOver(f, s) # f[y] + SumOver(f, s \ {y})}
<1>1. B = {}
  <2> SUFFICES ASSUME B # {} PROVE FALSE
    OBVIOUS
  <2>1. PICK s \in B : \A y \in s : s \ {y} \notin B
    <3>1. B \in SUBSET SUBSET D
      BY Zenon
    <3> HIDE DEF B
    <3> QED
      BY <3>1, SmallestSubset, Zenon
  <2>2. PICK y \in s : SumOver(f, s) # f[y] + SumOver(f, s \ {y})
    BY Zenon
  <2>3. s \in SUBSET D
    BY Zenon
  <2>4. PICK c \in s : SumOver(f, s) = f[c] + SumOver(f, s \ {c})
    <3>1. s # {} /\ f \in [D -> Int] /\ IsFiniteSet(D)
      OBVIOUS
    <3> QED
      BY ONLY <2>3, <3>1, SumStep, SMTT(20)
  <2>5. c # y
    BY <2>2, <2>4
  <2>6. PICK r, u, v : r = s \ {c} /\ u = s \ {y} /\ v = s \ {c, y}
    BY Zenon
  <2>7. r \in SUBSET D /\ u \in SUBSET D /\ v \in SUBSET D /\ y \in r /\ c \in u
        /\ v = r \ {y} /\ v = u \ {c}
    BY <2>3, <2>5, <2>6
  <2>71. r \notin B /\ u \notin B
    BY <2>1, <2>6, Zenon
  <2>8. SumOver(f, r) = f[y] + SumOver(f, v)
    BY <2>71, <2>7, Zenon
  <2>9. SumOver(f, u) = f[c] + SumOver(f, v)
    BY <2>71, <2>7, Zenon
  <2>10. SumOver(f, v) \in Int /\ f[y] \in Int /\ f[c] \in Int
    BY <2>3, <2>7, SumStep, Zenon
  <2> QED
    BY <2>2, <2>4, <2>6, <2>8, <2>9, <2>10
<1> QED
  BY <1>1, Zenon

\* One more term adds its value.
LEMMA SumAdd ==
  ASSUME NEW D, IsFiniteSet(D), NEW f \in [D -> Int], NEW s \in SUBSET D, NEW x \in D \ s
  PROVE  SumOver(f, s \cup {x}) = f[x] + SumOver(f, s)
<1>1. PICK E : E = s \cup {x}
  BY Zenon
<1>2. E \in SUBSET D /\ x \in E /\ s = E \ {x}
  BY <1>1
<1> QED
  BY <1>1, <1>2, SumRemove, SMTT(20)

\* A sum of integers is an integer.
LEMMA SumInt ==
  ASSUME NEW D, IsFiniteSet(D), NEW f \in [D -> Int], NEW s \in SUBSET D
  PROVE  SumOver(f, s) \in Int
BY SumStep, Zenon

\* The sum of no terms is zero.
LEMMA SumNone ==
  ASSUME NEW D, IsFiniteSet(D), NEW f \in [D -> Int]
  PROVE  SumOver(f, {}) = 0
<1>1. {} \in SUBSET D
  OBVIOUS
<1> QED
  BY <1>1, SumStep, Zenon

IsCombination(h, D, a, f, b, g) == \A x \in D : h[x] = a * f[x] + b * g[x]

SumsCombine(h, D, a, f, b, g) ==
  \A s \in SUBSET D : SumOver(h, s) = a * SumOver(f, s) + b * SumOver(g, s)

\* Sums are linear.
LEMMA SumLinear ==
  ASSUME NEW D, IsFiniteSet(D), NEW f \in [D -> Int], NEW g \in [D -> Int],
         NEW h \in [D -> Int], NEW a \in Int, NEW b \in Int,
         IsCombination(h, D, a, f, b, g)
  PROVE  SumsCombine(h, D, a, f, b, g)
<1> DEFINE G == {s \in SUBSET D : SumOver(h, s) = a * SumOver(f, s) + b * SumOver(g, s)}
<1>1. {} \in G
  <2>1. SumOver(h, {}) = 0 /\ SumOver(f, {}) = 0 /\ SumOver(g, {}) = 0
    BY SumNone, Zenon
  <2>2. 0 = a * 0 + b * 0
    OBVIOUS
  <2> QED
    BY <2>1, <2>2, Zenon
<1>2. ASSUME NEW s \in SUBSET D, NEW x \in D \ s, s \in G PROVE s \cup {x} \in G
  <2>1. SumOver(h, s \cup {x}) = h[x] + SumOver(h, s)
    BY SumAdd, SMTT(20)
  <2>2. SumOver(f, s \cup {x}) = f[x] + SumOver(f, s)
    BY SumAdd, SMTT(20)
  <2>3. SumOver(g, s \cup {x}) = g[x] + SumOver(g, s)
    BY SumAdd, SMTT(20)
  <2>4. PICK F, K : F = SumOver(f, s) /\ K = SumOver(g, s)
    OBVIOUS
  <2>5. F \in Int /\ K \in Int
    BY <2>4, SumInt, Zenon
  <2>6. f[x] \in Int /\ g[x] \in Int
    OBVIOUS
  <2>7. SumOver(h, s) = a * F + b * K
    BY <1>2, <2>4, Zenon
  <2>8. h[x] = a * f[x] + b * g[x]
    BY Zenon DEF IsCombination
  <2>9. (a * f[x] + b * g[x]) + (a * F + b * K) = a * (f[x] + F) + b * (g[x] + K)
    BY <2>5, <2>6
  <2>10. SumOver(h, s \cup {x}) = a * SumOver(f, s \cup {x}) + b * SumOver(g, s \cup {x})
    BY <2>1, <2>2, <2>3, <2>4, <2>7, <2>8, <2>9, Zenon
  <2>11. s \cup {x} \in SUBSET D
    OBVIOUS
  <2> QED
    BY <2>10, <2>11, Zenon
<1>3. \A s \in SUBSET D : s \in G
  <2> HIDE DEF G
  <2> QED
    BY <1>1, <1>2, SubsetInduction, Zenon
<1> QED
  BY <1>3, Zenon DEF SumsCombine

\* Sums are monotone.
LEMMA SumLeq ==
  ASSUME NEW D, IsFiniteSet(D), NEW f \in [D -> Int], NEW g \in [D -> Int],
         \A x \in D : f[x] <= g[x]
  PROVE  \A s \in SUBSET D : SumOver(f, s) <= SumOver(g, s)
<1> DEFINE G == {s \in SUBSET D : SumOver(f, s) <= SumOver(g, s)}
<1>1. {} \in G
  <2>1. SumOver(f, {}) = 0 /\ SumOver(g, {}) = 0
    BY SumNone, Zenon
  <2> QED
    BY <2>1
<1>2. ASSUME NEW s \in SUBSET D, NEW x \in D \ s, s \in G PROVE s \cup {x} \in G
  <2>1. SumOver(f, s \cup {x}) = f[x] + SumOver(f, s)
    BY SumAdd, SMTT(20)
  <2>2. SumOver(g, s \cup {x}) = g[x] + SumOver(g, s)
    BY SumAdd, SMTT(20)
  <2>3. SumOver(f, s) \in Int /\ SumOver(g, s) \in Int
    BY SumInt, Zenon
  <2>4. SumOver(f, s) <= SumOver(g, s)
    BY <1>2, Zenon
  <2>5. f[x] \in Int /\ g[x] \in Int /\ f[x] <= g[x]
    OBVIOUS
  <2>6. SumOver(f, s \cup {x}) <= SumOver(g, s \cup {x})
    BY <2>1, <2>2, <2>3, <2>4, <2>5
  <2> QED
    BY <2>6
<1>3. \A s \in SUBSET D : s \in G
  <2> HIDE DEF G
  <2> QED
    BY <1>1, <1>2, SubsetInduction, Zenon
<1> QED
  BY <1>3, Zenon

\* A sum of equal terms.
LEMMA SumConst ==
  ASSUME NEW D, IsFiniteSet(D), NEW c \in Int, NEW f \in [D -> Int], \A x \in D : f[x] = c
  PROVE  \A s \in SUBSET D : SumOver(f, s) = c * Cardinality(s)
<1> DEFINE G == {s \in SUBSET D : SumOver(f, s) = c * Cardinality(s)}
<1>1. {} \in G
  <2>1. SumOver(f, {}) = 0 /\ Cardinality({}) = 0
    BY SumNone, FS_EmptySet, Zenon
  <2> QED
    BY <2>1
<1>2. ASSUME NEW s \in SUBSET D, NEW x \in D \ s, s \in G PROVE s \cup {x} \in G
  <2>1. SumOver(f, s \cup {x}) = c + SumOver(f, s)
    BY SumAdd, SMTT(20)
  <2>2. IsFiniteSet(s)
    BY FS_Subset, Zenon
  <2>3. Cardinality(s) \in Nat /\ Cardinality(s \cup {x}) = Cardinality(s) + 1
    BY <2>2, FS_CardinalityType, FS_AddElement, Zenon
  <2>4. SumOver(f, s) = c * Cardinality(s)
    BY <1>2, Zenon
  <2>5. PICK k \in Nat : k = Cardinality(s)
    BY <2>3
  <2>6. c + c * k = c * (k + 1)
    OBVIOUS
  <2> QED
    BY <2>1, <2>3, <2>4, <2>5, <2>6
<1>3. \A s \in SUBSET D : s \in G
  <2> HIDE DEF G
  <2> QED
    BY <1>1, <1>2, SubsetInduction, Zenon
<1> QED
  BY <1>3, Zenon

\* A sum depends on the values of its terms only.
LEMMA SumSame ==
  ASSUME NEW f, NEW g, NEW s, \A x \in s : f[x] = g[x]
  PROVE  SumOver(f, s) = SumOver(g, s)
<1>1. [x \in s |-> f[x]] = [x \in s |-> g[x]]
  BY Zenon
<1> QED
  BY <1>1, Zenon DEF SumOver

\* SumOf takes every term of a function.
LEMMA SumOfAll ==
  ASSUME NEW D, NEW f, f = [x \in D |-> f[x]]
  PROVE  SumOf(f) = SumOver(f, D)
BY Zenon DEF SumOver

\* A sum over two parts.
LEMMA SumUnion ==
  ASSUME NEW D, IsFiniteSet(D), NEW f \in [D -> Int], NEW A \in SUBSET D
  PROVE  \A s \in SUBSET (D \ A) : SumOver(f, A \cup s) = SumOver(f, A) + SumOver(f, s)
<1> DEFINE G == {s \in SUBSET (D \ A) : SumOver(f, A \cup s) = SumOver(f, A) + SumOver(f, s)}
<1>0. IsFiniteSet(D \ A)
  BY FS_Difference, Zenon
<1>1. {} \in G
  <2>1. SumOver(f, {}) = 0 /\ SumOver(f, A) \in Int
    BY SumNone, SumInt, Zenon
  <2>2. SumOver(f, A) = SumOver(f, A) + SumOver(f, {})
    BY <2>1
  <2>3. A \cup {} = A /\ {} \in SUBSET (D \ A)
    OBVIOUS
  <2> QED
    BY <2>2, <2>3, Zenon
<1>2. ASSUME NEW s \in SUBSET (D \ A), NEW x \in (D \ A) \ s, s \in G PROVE s \cup {x} \in G
  <2>1. PICK t : t = A \cup s
    BY Zenon
  <2>2. /\ t \in SUBSET D /\ x \in D \ t /\ A \cup (s \cup {x}) = t \cup {x}
        /\ s \in SUBSET D /\ x \in D \ s /\ s \cup {x} \in SUBSET (D \ A)
    <3> HIDE DEF G
    <3> QED
      BY <2>1
  <2>3. SumOver(f, t \cup {x}) = f[x] + SumOver(f, t)
    BY <2>2, SumAdd, SMTT(20)
  <2>4. SumOver(f, s \cup {x}) = f[x] + SumOver(f, s)
    BY <2>2, SumAdd, SMTT(20)
  <2>5. SumOver(f, s) \in Int /\ SumOver(f, A) \in Int /\ f[x] \in Int
    BY <2>2, SumInt
  <2>6. SumOver(f, t) = SumOver(f, A) + SumOver(f, s)
    BY <1>2, <2>1, Zenon
  <2>7. SumOver(f, A \cup (s \cup {x})) = SumOver(f, A) + SumOver(f, s \cup {x})
    <3>1. f[x] + (SumOver(f, A) + SumOver(f, s)) = SumOver(f, A) + (f[x] + SumOver(f, s))
      BY <2>5
    <3> QED
      BY <2>2, <2>3, <2>4, <2>6, <3>1, Zenon
  <2> QED
    BY <2>2, <2>7, Zenon
<1>3. \A s \in SUBSET (D \ A) : s \in G
  <2>1. PICK R : R = D \ A
    BY Zenon
  <2>2. \A s \in SUBSET R : \A x \in R \ s : s \in G => s \cup {x} \in G
    BY <1>2, <2>1, Zenon
  <2> HIDE DEF G
  <2>3. IsFiniteSet(R)
    BY <1>0, <2>1, Zenon
  <2>4. \A s \in SUBSET R : s \in G
    BY <1>1, <2>2, <2>3, SubsetInduction, Zenon
  <2> QED
    BY <2>1, <2>4, Zenon
<1> QED
  BY <1>3, Zenon

\* A sum of zeros.
LEMMA SumZeros ==
  ASSUME NEW s, IsFiniteSet(s), NEW f, \A x \in s : f[x] = 0
  PROVE  SumOver(f, s) = 0
<1>0. PICK g : g = [x \in s |-> 0]
  BY Zenon
<1>1. g \in [s -> Int] /\ (\A x \in s : g[x] = 0) /\ (\A x \in s : f[x] = g[x]) /\ s \in SUBSET s
  BY <1>0
<1>2. SumOver(g, s) = 0 * Cardinality(s)
  BY <1>1, SumConst, SMTT(20)
<1>3. Cardinality(s) \in Nat
  BY FS_CardinalityType, Zenon
<1>4. SumOver(f, s) = SumOver(g, s)
  BY <1>1, SumSame
<1> QED
  BY <1>2, <1>3, <1>4

\* Terms that are zero may be left out.
LEMMA SumNonZero ==
  ASSUME NEW D, IsFiniteSet(D), NEW f \in [D -> Int], NEW A \in SUBSET D,
         \A x \in D \ A : f[x] = 0
  PROVE  SumOver(f, D) = SumOver(f, A)
<1>1. PICK s : s = D \ A
  BY Zenon
<1>2. s \in SUBSET (D \ A) /\ A \cup s = D /\ IsFiniteSet(s)
  BY <1>1, FS_Difference
<1>3. SumOver(f, D) = SumOver(f, A) + SumOver(f, s)
  BY <1>2, SumUnion, SMTT(20)
<1>4. SumOver(f, s) = 0
  BY <1>1, <1>2, SumZeros, Zenon
<1>5. SumOver(f, A) \in Int
  BY SumInt, Zenon
<1> QED
  BY <1>3, <1>4, <1>5

\* A sum of terms that are not negative is at least each of them.
LEMMA SumTerm ==
  ASSUME NEW D, IsFiniteSet(D), NEW f \in [D -> Nat]
  PROVE  \A s \in SUBSET D : SumOver(f, s) \in Nat /\ \A x \in s : f[x] <= SumOver(f, s)
<1>1. f \in [D -> Int]
  OBVIOUS
<1>2. ASSUME NEW s \in SUBSET D PROVE SumOver(f, s) \in Nat
  <2>1. PICK z : z = [x \in D |-> 0]
    BY Zenon
  <2>2. z \in [D -> Int] /\ \A x \in D : z[x] <= f[x]
    BY <2>1
  <2>3. SumOver(z, s) <= SumOver(f, s)
    BY <1>1, <2>2, SumLeq, Zenon
  <2>4. SumOver(z, s) = 0
    <3>1. \A x \in s : z[x] = 0
      BY <2>1
    <3>2. IsFiniteSet(s)
      BY FS_Subset, Zenon
    <3> QED
      BY <3>1, <3>2, SumZeros, Zenon
  <2>5. SumOver(f, s) \in Int
    BY <1>1, SumInt, Zenon
  <2> QED
    BY <2>3, <2>4, <2>5
<1>3. ASSUME NEW s \in SUBSET D, NEW x \in s PROVE f[x] <= SumOver(f, s)
  <2>1. SumOver(f, s) = f[x] + SumOver(f, s \ {x})
    BY <1>1, SumRemove, SMTT(20)
  <2>2. s \ {x} \in SUBSET D
    OBVIOUS
  <2>3. SumOver(f, s \ {x}) \in Nat
    BY <1>2, <2>2, Zenon
  <2>4. f[x] \in Nat
    OBVIOUS
  <2> QED
    BY <2>1, <2>3, <2>4
<1> QED
  BY <1>2, <1>3

-----------------------------------------------------------------------------
(* The first elements of a set of numbers.                                 *)

\* A set of numbers that is not empty has a least one.
LEMMA LeastNumber ==
  ASSUME NEW T \in SUBSET Nat, T # {}
  PROVE  \E x \in T : \A y \in T : x <= y
<1>1. PICK x \in T : \A y \in T : <<y, x>> \notin OpToRel(<, Nat)
  BY NatLessThanWellFounded, WFMin, Zenon
<1>2. ASSUME NEW y \in T PROVE x <= y
  <2>1. x \in Nat /\ y \in Nat
    OBVIOUS
  <2>2. ~(y < x)
    BY <1>1, <2>1, Zenon DEF OpToRel
  <2> QED
    BY <2>1, <2>2
<1> QED
  BY <1>2

\* How many elements of A come before n, and the first k elements of A.
Rank(A, n) == Cardinality({m \in A : m < n})

FirstOf(A, k) == {n \in A : Rank(A, n) < k}

\* One element of A is the next after the first k.
LEMMA NextOf ==
  ASSUME NEW A \in SUBSET Nat, IsFiniteSet(A), NEW k \in Nat, k < Cardinality(A),
         Cardinality(FirstOf(A, k)) = k
  PROVE  Cardinality(FirstOf(A, k + 1)) = k + 1
<1> DEFINE F == FirstOf(A, k)
<1>1. F \in SUBSET A /\ IsFiniteSet(F)
  <2>1. F \in SUBSET A
    BY Zenon DEF FirstOf
  <2> QED
    BY <2>1, FS_Subset, Zenon
<1>2. ASSUME NEW n \in A
      PROVE  /\ IsFiniteSet({m \in A : m < n}) /\ Rank(A, n) \in Nat
             /\ n \in F <=> Rank(A, n) < k
  <2>1. {m \in A : m < n} \in SUBSET A
    OBVIOUS
  <2>2. IsFiniteSet({m \in A : m < n})
    BY <2>1, FS_Subset, Zenon
  <2> QED
    BY <2>2, FS_CardinalityType, Zenon DEF Rank, FirstOf
<1>3. PICK n \in A \ F : \A m \in A \ F : n <= m
  <2>1. A \ F # {}
    <3>1. SUFFICES ASSUME A = F PROVE FALSE
      BY <1>1
    <3> QED
      BY <3>1
  <2>2. A \ F \in SUBSET Nat
    BY Zenon
  <2> HIDE DEF F
  <2> QED
    BY <2>1, <2>2, LeastNumber, Zenon
<1>4. {m \in A : m < n} = F
  <2>1. ASSUME NEW m \in A, m < n PROVE m \in F
    <3>1. n \in Nat /\ m \in Nat
      OBVIOUS
    <3>2. ~(n <= m)
      BY <2>1, <3>1
    <3> QED
      BY <1>3, <3>2, Zenon
  <2>2. ASSUME NEW m \in F PROVE m \in A /\ m < n
    <3>1. m \in A /\ m \in Nat /\ n \in Nat
      BY <1>1, Zenon
    <3>2. SUFFICES ASSUME n <= m PROVE FALSE
      BY <3>1
    <3>3. {j \in A : j < n} \in SUBSET {j \in A : j < m}
      <4>1. \A j \in Nat : j < n => j < m
        BY <3>1, <3>2
      <4>2. \A j \in A : j < n => j < m
        BY <4>1, Zenon
      <4> QED
        BY <4>2, Zenon
    <3>4. Rank(A, n) <= Rank(A, m)
      BY <1>2, <3>1, <3>3, FS_Subset, Zenon DEF Rank
    <3>5. Rank(A, m) < k /\ ~(Rank(A, n) < k) /\ Rank(A, m) \in Nat /\ Rank(A, n) \in Nat
      BY <1>2, <1>3, <3>1, Zenon
    <3> QED
      BY <3>4, <3>5
  <2> HIDE DEF F
  <2> QED
    BY <2>1, <2>2, Zenon
<1>5. Rank(A, n) = k
  BY <1>4, Zenon DEF Rank
<1>6. ASSUME NEW m \in A \ F, m # n PROVE ~(Rank(A, m) < k + 1)
  <2>1. n <= m /\ m \in Nat /\ n \in Nat
    BY <1>3
  <2>2. F \cup {n} \in SUBSET {j \in A : j < m}
    <3>1. ASSUME NEW j \in F PROVE j \in A /\ j < m
      <4>1. j \in A /\ j < n /\ j \in Nat
        BY <1>4, Zenon
      <4> QED
        BY <2>1, <4>1
    <3>2. n < m
      BY <1>6, <2>1
    <3> HIDE DEF F
    <3> QED
      BY <3>1, <3>2
  <2>3. Cardinality(F \cup {n}) = k + 1
    <3>1. n \notin F
      OBVIOUS
    <3> HIDE DEF F
    <3> QED
      BY <1>1, <3>1, FS_AddElement DEF F
  <2>4. Cardinality(F \cup {n}) <= Rank(A, m)
    BY <1>2, <2>2, FS_Subset, Zenon DEF Rank
  <2>5. Rank(A, m) \in Nat
    BY <1>2, Zenon
  <2> QED
    BY <2>3, <2>4, <2>5
<1>7. FirstOf(A, k + 1) = F \cup {n}
  <2>1. ASSUME NEW m \in F PROVE Rank(A, m) < k + 1 /\ m \in A
    <3>1. m \in A /\ Rank(A, m) < k /\ Rank(A, m) \in Nat
      BY <1>1, <1>2, Zenon
    <3> QED
      BY <3>1
  <2>2. Rank(A, n) < k + 1
    BY <1>5
  <2> HIDE DEF F
  <2> QED
    BY <1>6, <2>1, <2>2, Zenon DEF FirstOf
<1>8. n \notin F
  OBVIOUS
<1> HIDE DEF F
<1> QED
  BY <1>1, <1>7, <1>8, FS_AddElement DEF F

\* The first k elements are k elements, where there are as many.
LEMMA FirstOfCount ==
  ASSUME NEW A \in SUBSET Nat, IsFiniteSet(A), NEW k \in Nat, k <= Cardinality(A)
  PROVE  Cardinality(FirstOf(A, k)) = k
<1> DEFINE Bad == {i \in Nat : i <= Cardinality(A) /\ Cardinality(FirstOf(A, i)) # i}
<1>0. Cardinality(A) \in Nat
  BY FS_CardinalityType, Zenon
<1>1. Bad = {}
  <2> SUFFICES ASSUME Bad # {} PROVE FALSE
    OBVIOUS
  <2>1. PICK i \in Bad : \A j \in Bad : i <= j
    <3>1. Bad \in SUBSET Nat
      BY Zenon
    <3> HIDE DEF Bad
    <3> QED
      BY <3>1, LeastNumber, Zenon
  <2>2. CASE i = 0
    <3>1. ASSUME NEW n \in A PROVE ~(Rank(A, n) < 0)
      <4>1. {m \in A : m < n} \in SUBSET A
        OBVIOUS
      <4>2. IsFiniteSet({m \in A : m < n})
        BY <4>1, FS_Subset, Zenon
      <4>3. Rank(A, n) \in Nat
        BY <4>2, FS_CardinalityType, Zenon DEF Rank
      <4> QED
        BY <4>3
    <3>2. FirstOf(A, 0) = {}
      BY <3>1, Zenon DEF FirstOf
    <3> QED
      BY <2>2, <3>2, FS_EmptySet, Zenon
  <2>3. CASE i # 0
    <3>1. PICK j \in Nat : i = j + 1
      BY <2>3
    <3>2. j < Cardinality(A) /\ ~(i <= j) /\ j <= Cardinality(A)
      BY <1>0, <3>1
    <3>3. Cardinality(FirstOf(A, j)) = j
      BY <2>1, <3>2, Zenon
    <3> QED
      BY <3>1, <3>2, <3>3, NextOf, Zenon
  <2> QED
    BY <2>2, <2>3, Zenon
<1> QED
  BY <1>1, Zenon

-----------------------------------------------------------------------------
(* Sums of whole functions.                                                *)

\* A sum of integers over the whole domain.
LEMMA SumOfType ==
  ASSUME NEW D, IsFiniteSet(D), NEW f \in [D -> Int]
  PROVE  SumOf(f) \in Int /\ SumOf(f) = SumOver(f, D)
<1>1. f = [x \in D |-> f[x]] /\ D \in SUBSET D
  OBVIOUS
<1>2. SumOf(f) = SumOver(f, D)
  BY <1>1, SumOfAll, SMTT(20)
<1>3. SumOver(f, D) \in Int
  BY <1>1, SumInt, Zenon
<1> QED
  BY <1>2, <1>3, Zenon

\* A sum of naturals is at least each of its terms.
LEMMA SumOfNat ==
  ASSUME NEW D, IsFiniteSet(D), NEW f \in [D -> Nat]
  PROVE  SumOf(f) \in Nat /\ \A x \in D : f[x] <= SumOf(f)
<1>1. f \in [D -> Int] /\ D \in SUBSET D
  OBVIOUS
<1>2. SumOf(f) = SumOver(f, D)
  BY <1>1, SumOfType, Zenon
<1>3. SumOver(f, D) \in Nat /\ \A x \in D : f[x] <= SumOver(f, D)
  BY <1>1, SumTerm, Zenon
<1> QED
  BY <1>2, <1>3, Zenon

SumCombines(h, a, f, b, g) == SumOf(h) = a * SumOf(f) + b * SumOf(g)

\* Sums are linear.
LEMMA SumOfLinear ==
  ASSUME NEW D, IsFiniteSet(D), NEW f \in [D -> Int], NEW g \in [D -> Int],
         NEW h \in [D -> Int], NEW a \in Int, NEW b \in Int,
         IsCombination(h, D, a, f, b, g)
  PROVE  SumCombines(h, a, f, b, g)
<1>1. SumOf(f) = SumOver(f, D) /\ SumOf(g) = SumOver(g, D) /\ SumOf(h) = SumOver(h, D)
  BY SumOfType, Zenon
<1>2. D \in SUBSET D
  OBVIOUS
<1>3. SumsCombine(h, D, a, f, b, g)
  BY SumLinear, Zenon
<1>4. SumOver(h, D) = a * SumOver(f, D) + b * SumOver(g, D)
  BY <1>2, <1>3, Zenon DEF SumsCombine
<1> QED
  BY <1>1, <1>4, Zenon DEF SumCombines

\* The sum of differences is the difference of the sums.
LEMMA SumOfDifference ==
  ASSUME NEW D, IsFiniteSet(D), NEW f \in [D -> Int], NEW g \in [D -> Int]
  PROVE  SumOf([x \in D |-> f[x] - g[x]]) = SumOf(f) - SumOf(g)
<1>1. PICK h : h = [x \in D |-> f[x] - g[x]]
  BY Zenon
<1>2. h \in [D -> Int]
  BY <1>1
<1>3. IsCombination(h, D, 1, f, -1, g)
  BY <1>1 DEF IsCombination
<1>4. SumOf(h) = 1 * SumOf(f) + (-1) * SumOf(g)
  <2>1. 1 \in Int /\ -1 \in Int
    OBVIOUS
  <2>2. SumCombines(h, 1, f, -1, g)
    BY <1>2, <1>3, <2>1, SumOfLinear, Zenon
  <2> QED
    BY <2>2, Zenon DEF SumCombines
<1>5. SumOf(f) \in Int /\ SumOf(g) \in Int
  BY SumOfType, Zenon
<1>6. SumOf(h) = SumOf(f) - SumOf(g)
  BY <1>4, <1>5
<1> QED
  BY <1>1, <1>6, Zenon

\* The sum of sums, term by term, is the sum of the two.
LEMMA SumOfPlus ==
  ASSUME NEW D, IsFiniteSet(D), NEW f \in [D -> Int], NEW g \in [D -> Int]
  PROVE  SumOf([x \in D |-> f[x] + g[x]]) = SumOf(f) + SumOf(g)
<1>1. PICK h : h = [x \in D |-> f[x] + g[x]]
  BY Zenon
<1>2. h \in [D -> Int]
  BY <1>1
<1>3. IsCombination(h, D, 1, f, 1, g)
  BY <1>1 DEF IsCombination
<1>4. SumOf(h) = 1 * SumOf(f) + 1 * SumOf(g)
  <2>1. 1 \in Int
    OBVIOUS
  <2>2. SumCombines(h, 1, f, 1, g)
    BY <1>2, <1>3, <2>1, SumOfLinear, Zenon
  <2> QED
    BY <2>2, Zenon DEF SumCombines
<1>5. SumOf(f) \in Int /\ SumOf(g) \in Int
  BY SumOfType, Zenon
<1>6. SumOf(h) = SumOf(f) + SumOf(g)
  BY <1>4, <1>5
<1> QED
  BY <1>1, <1>6, Zenon

\* Sums are monotone.
LEMMA SumOfLeq ==
  ASSUME NEW D, IsFiniteSet(D), NEW f \in [D -> Int], NEW g \in [D -> Int],
         \A x \in D : f[x] <= g[x]
  PROVE  SumOf(f) <= SumOf(g)
<1>1. SumOf(f) = SumOver(f, D) /\ SumOf(g) = SumOver(g, D) /\ D \in SUBSET D
  BY SumOfType, Zenon
<1>2. SumOver(f, D) <= SumOver(g, D)
  BY <1>1, SumLeq, Zenon
<1> QED
  BY <1>1, <1>2, Zenon

\* The sum of a function that is one on a set and zero elsewhere counts the set.
LEMMA SumOfOnes ==
  ASSUME NEW D, IsFiniteSet(D), NEW A \in SUBSET D
  PROVE  SumOf([x \in D |-> IF x \in A THEN 1 ELSE 0]) = Cardinality(A)
<1>1. PICK h : h = [x \in D |-> IF x \in A THEN 1 ELSE 0]
  BY Zenon
<1>2. h \in [D -> Int] /\ (\A x \in D \ A : h[x] = 0) /\ (\A x \in A : h[x] = 1)
  BY <1>1
<1>3. SumOf(h) = SumOver(h, D)
  BY <1>2, SumOfType, Zenon
<1>4. SumOver(h, D) = SumOver(h, A)
  BY <1>2, SumNonZero, SMTT(20)
<1>5. PICK g : g = [x \in A |-> 1]
  BY Zenon
<1>6. g \in [A -> Int] /\ (\A x \in A : g[x] = 1) /\ (\A x \in A : h[x] = g[x]) /\ A \in SUBSET A
  BY <1>2, <1>5
<1>7. IsFiniteSet(A) /\ Cardinality(A) \in Nat
  BY FS_Subset, FS_CardinalityType, Zenon
<1>8. SumOver(g, A) = 1 * Cardinality(A)
  BY <1>6, <1>7, SumConst, SMTT(20)
<1>9. SumOver(h, A) = SumOver(g, A)
  BY <1>6, SumSame, SMTT(20)
<1>10. 1 * Cardinality(A) = Cardinality(A)
  BY <1>7
<1> QED
  BY <1>1, <1>3, <1>4, <1>8, <1>9, <1>10, Zenon

\* Leaving zeros out.
LEMMA SumOfNonZero ==
  ASSUME NEW D, IsFiniteSet(D), NEW f \in [D -> Int], NEW A \in SUBSET D,
         \A x \in D \ A : f[x] = 0
  PROVE  SumOf([x \in A |-> f[x]]) = SumOf(f)
<1>1. SumOf(f) = SumOver(f, D)
  BY SumOfType, Zenon
<1>2. SumOver(f, D) = SumOver(f, A)
  BY SumNonZero, SMTT(20)
<1> QED
  BY <1>1, <1>2, Zenon DEF SumOver

-----------------------------------------------------------------------------
(* Arithmetic.                                                             *)

\* What integer division rounds off is less than the divisor.
LEMMA DivFacts ==
  ASSUME NEW y \in Nat, NEW T \in Nat \ {0}
  PROVE  y \div T \in Nat /\ (y \div T) * T <= y /\ y < (y \div T) * T + T
OBVIOUS

\* Products of naturals are monotone.
LEMMA MulLeq ==
  ASSUME NEW a \in Nat, NEW b \in Nat, NEW c \in Nat, a <= b
  PROVE  a * c <= b * c /\ c * a <= c * b /\ a * c \in Nat
OBVIOUS

\* The share of one node in an excess of e out of T, rounded down.
LEMMA ShareFacts ==
  ASSUME NEW x \in Nat, NEW T \in Nat \ {0}, NEW e \in Nat, e <= T,
         NEW q, q = (x * e) \div T
  PROVE  /\ q \in Nat /\ q <= x
         /\ q * T <= x * e /\ x * e < q * T + T
         /\ x = q => q * T = x * e
<1>1. PICK y \in Nat : y = x * e
  OBVIOUS
<1>2. q \in Nat /\ q * T <= y /\ y < q * T + T
  BY <1>1, DivFacts
<1>3. x * e <= x * T
  BY MulLeq
<1>4. q <= x
  <2>1. SUFFICES ASSUME x + 1 <= q PROVE FALSE
    BY <1>2
  <2>2. (x + 1) * T <= q * T
    BY <1>2, <2>1, MulLeq
  <2>3. (x + 1) * T = x * T + T
    OBVIOUS
  <2>4. x * T \in Nat /\ q * T \in Nat
    BY <1>2
  <2> QED
    BY <1>1, <1>2, <1>3, <2>2, <2>3, <2>4
<1>5. x = q => q * T = x * e
  BY <1>1, <1>2, <1>3
<1> QED
  BY <1>1, <1>2, <1>4, <1>5

-----------------------------------------------------------------------------
(* Cutting nominations down.                                               *)

\* share has what each node loses of an excess e out of T, and some are the nodes with more.
AreShares(D, on, T, e, share, some) ==
  /\ IsFiniteSet(D) /\ on \in [D -> Nat] /\ T \in Nat \ {0} /\ T = SumOf(on)
  /\ e \in Nat /\ e <= T
  /\ share = [n \in D |-> (on[n] * e) \div T]
  /\ some = {n \in D : on[n] - share[n] # 0}

LeaveUnits(D, on, e, share, some) ==
  /\ share \in [D -> Nat] /\ \A n \in D : share[n] <= on[n]
  /\ SumOf(share) \in Nat /\ SumOf(share) <= e
  /\ e - SumOf(share) <= Cardinality(some)

\* The shares of an excess come to no more than it, and what they leave of it is one unit of
\* each of some nodes at most (reconcile).
LEMMA SharesLeave ==
  ASSUME NEW D, NEW on, NEW T, NEW e, NEW share, NEW some,
         AreShares(D, on, T, e, share, some)
  PROVE  LeaveUnits(D, on, e, share, some)
<1>0. /\ IsFiniteSet(D) /\ on \in [D -> Nat] /\ T \in Nat \ {0} /\ T = SumOf(on)
      /\ e \in Nat /\ e <= T
      /\ share = [n \in D |-> (on[n] * e) \div T]
      /\ some = {n \in D : on[n] - share[n] # 0}
  BY Zenon DEF AreShares
<1> USE <1>0
<1>1. ASSUME NEW n \in D
      PROVE  /\ share[n] \in Nat /\ share[n] <= on[n]
             /\ share[n] * T <= on[n] * e /\ on[n] * e < share[n] * T + T
             /\ on[n] = share[n] => share[n] * T = on[n] * e
  <2>1. PICK x, q : x \in Nat /\ x = on[n] /\ q = share[n] /\ q = (x * e) \div T
    OBVIOUS
  <2>2. /\ q \in Nat /\ q <= x
        /\ q * T <= x * e /\ x * e < q * T + T
        /\ x = q => q * T = x * e
    BY <2>1, ShareFacts
  <2> QED
    BY <2>1, <2>2, Zenon
<1>2. share \in [D -> Nat] /\ share \in [D -> Int] /\ on \in [D -> Int]
  BY <1>1
<1>3. PICK S \in Nat : S = SumOf(share)
  BY <1>2, SumOfNat, Zenon
<1>4. PICK rem : rem = [n \in D |-> e * on[n] + (-T) * share[n]]
  BY Zenon
<1>5. rem \in [D -> Int] /\ IsCombination(rem, D, e, on, -T, share)
  BY <1>2, <1>4 DEF IsCombination
<1>6. SumOf(rem) = e * T + (-T) * S
  <2>1. e \in Int /\ -T \in Int
    OBVIOUS
  <2>2. SumCombines(rem, e, on, -T, share)
    BY <1>2, <1>5, <2>1, SumOfLinear, Zenon
  <2> QED
    BY <1>3, <2>2, Zenon DEF SumCombines
<1>7. ASSUME NEW n \in D
      PROVE  rem[n] \in Nat /\ rem[n] <= T - 1 /\ (n \notin some => rem[n] = 0)
  <2>1. PICK x \in Nat, q \in Nat : x = on[n] /\ q = share[n]
    BY <1>1
  <2>2. q * T <= x * e /\ x * e < q * T + T /\ (x = q => q * T = x * e)
    BY <1>1, <2>1, Zenon
  <2>3. rem[n] = e * x + (-T) * q
    BY <1>4, <2>1
  <2>40. x * e \in Nat /\ q * T \in Nat
    OBVIOUS
  <2>4. PICK y \in Nat, z \in Nat : y = x * e /\ z = q * T
    BY <2>40, Zenon
  <2>5. rem[n] = y - z
    BY <2>3, <2>4
  <2>6. n \notin some => x = q
    BY <2>1
  <2> QED
    BY <2>2, <2>4, <2>5, <2>6
<1>8. SumOf(rem) \in Nat
  <2>1. rem \in [D -> Nat]
    BY <1>5, <1>7
  <2> QED
    BY <2>1, SumOfNat, Zenon
<1>9. S <= e
  <2>1. SUFFICES ASSUME e + 1 <= S PROVE FALSE
    BY <1>3
  <2>2. (e + 1) * T <= S * T
    BY <1>3, <2>1, MulLeq
  <2>3. PICK y \in Nat, z \in Nat : y = e * T /\ z = S * T
    OBVIOUS
  <2>4. SumOf(rem) = y - z
    BY <1>6, <2>3
  <2>5. (e + 1) * T = y + T
    BY <2>3
  <2> QED
    BY <1>8, <2>2, <2>3, <2>4, <2>5
<1>10. some \in SUBSET D /\ IsFiniteSet(some) /\ Cardinality(some) \in Nat
  <2>1. some \in SUBSET D
    BY Zenon
  <2> QED
    BY <2>1, FS_Subset, FS_CardinalityType, Zenon
<1>11. SumOf(rem) <= (T - 1) * Cardinality(some)
  <2>1. PICK ones : ones = [n \in D |-> IF n \in some THEN 1 ELSE 0]
    BY Zenon
  <2>2. SumOf(ones) = Cardinality(some)
    BY <1>10, <2>1, SumOfOnes, Zenon
  <2>3. PICK bound : bound = [n \in D |-> (T - 1) * ones[n] + 0 * ones[n]]
    BY Zenon
  <2>4. ones \in [D -> Int] /\ \A n \in D : ones[n] = IF n \in some THEN 1 ELSE 0
    BY <2>1
  <2>5. bound \in [D -> Int] /\ IsCombination(bound, D, T - 1, ones, 0, ones)
    BY <2>3, <2>4 DEF IsCombination
  <2>6. ASSUME NEW n \in D PROVE rem[n] <= bound[n]
    <3>1. bound[n] = IF n \in some THEN T - 1 ELSE 0
      BY <2>3, <2>4
    <3> QED
      BY <1>7, <3>1
  <2>7. SumOf(rem) <= SumOf(bound)
    BY <1>5, <2>5, <2>6, SumOfLeq, Zenon
  <2>8. SumCombines(bound, T - 1, ones, 0, ones)
    <3>1. T - 1 \in Int /\ 0 \in Int
      OBVIOUS
    <3> QED
      BY <2>4, <2>5, <3>1, SumOfLinear, Zenon
  <2>9. SumOf(bound) = (T - 1) * Cardinality(some) + 0 * Cardinality(some)
    BY <2>2, <2>8, Zenon DEF SumCombines
  <2>10. SumOf(bound) = (T - 1) * Cardinality(some)
    BY <1>10, <2>9
  <2> QED
    BY <2>7, <2>10, Zenon
<1>12. e - S <= Cardinality(some)
  <2>1. PICK C \in Nat : C = Cardinality(some)
    BY <1>10, Zenon
  <2>2. SUFFICES ASSUME C + 1 <= e - S PROVE FALSE
    BY <1>3, <2>1
  <2>3. (C + 1) * T <= (e - S) * T
    BY <1>9, <2>2, MulLeq
  <2>4. (e - S) * T = SumOf(rem)
    BY <1>6
  <2>5. SumOf(rem) <= (T - 1) * C
    BY <1>11, <2>1, Zenon
  <2>6. PICK y \in Nat : y = C * T
    OBVIOUS
  <2>7. (C + 1) * T = y + T /\ (T - 1) * C = y - C
    BY <2>6
  <2> QED
    BY <1>8, <2>3, <2>4, <2>5, <2>7
<1> QED
  BY <1>1, <1>2, <1>3, <1>9, <1>12 DEF LeaveUnits

\* less is what is left of the amounts on when take is taken from them.
Takes(D, on, take, less) ==
  /\ IsFiniteSet(D) /\ on \in [D -> Nat] /\ take \in [D -> Nat]
  /\ \A n \in D : take[n] <= on[n]
  /\ less = [n \in D |-> on[n] - take[n]]

\* What a state with a total that is the sum of its amounts loses, its total loses.
LEMMA DecreasedByFacts ==
  ASSUME NEW D, NEW on, NEW take, NEW less, Takes(D, on, take, less)
  PROVE  /\ less \in [D -> Nat] /\ SumOf(less) = SumOf(on) - SumOf(take)
         /\ DecreasedBy([total |-> SumOf(on), on |-> on], take)
              = [total |-> SumOf(less), on |-> less]
<1>0. /\ IsFiniteSet(D) /\ on \in [D -> Nat] /\ take \in [D -> Nat]
      /\ \A n \in D : take[n] <= on[n]
      /\ less = [n \in D |-> on[n] - take[n]]
  BY Zenon DEF Takes
<1> USE <1>0
<1>1. on \in [D -> Int] /\ take \in [D -> Int]
  OBVIOUS
<1>2. less \in [D -> Nat]
  OBVIOUS
<1>3. SumOf(less) = SumOf(on) - SumOf(take)
  BY <1>1, SumOfDifference, Zenon
<1>4. SumOf(less) \in Nat /\ SumOf(on) \in Nat /\ SumOf(take) \in Nat
  BY <1>2, SumOfNat, Zenon
<1>5. Larger(SumOf(on) - SumOf(take), 0) = SumOf(less)
  <2>1. ~(SumOf(less) > 0) => SumOf(less) = 0
    BY <1>4
  <2> QED
    BY <1>3, <2>1, Zenon DEF Larger
<1>6. DOMAIN on = D
  OBVIOUS
<1>7. [n \in D |-> Larger(on[n] - take[n], 0)] = less
  <2>1. ASSUME NEW n \in D PROVE Larger(on[n] - take[n], 0) = on[n] - take[n]
    BY DEF Larger
  <2> QED
    BY <2>1, Zenon
<1>8. DecreasedBy([total |-> SumOf(on), on |-> on], take)
        = [total |-> Larger(SumOf(on) - SumOf(take), 0),
           on |-> [n \in DOMAIN on |-> Larger(on[n] - take[n], 0)]]
  BY DEF DecreasedBy
<1> QED
  BY <1>2, <1>3, <1>5, <1>6, <1>7, <1>8, Zenon

\* A state of a party: an amount on each node that it nominates, and their sum.
IsState(s, V) ==
  /\ s = [total |-> s.total, on |-> s.on]
  /\ s.on \in [DOMAIN s.on -> Nat \ {0}]
  /\ DOMAIN s.on \in SUBSET V /\ DOMAIN s.on # {}
  /\ s.total = SumOf(s.on)

\* The types of a party's nominations, each at most the total and none of them zero.
LEMMA StateFacts ==
  ASSUME NEW V \in SUBSET Node, NEW s, IsState(s, V)
  PROVE  /\ IsFiniteSet(DOMAIN s.on) /\ DOMAIN s.on \in SUBSET Nat
         /\ s.on \in [DOMAIN s.on -> Nat]
         /\ s.total \in Nat \ {0}
         /\ \A n \in DOMAIN s.on : s.on[n] <= s.total /\ s.on[n] \in Nat \ {0}
<1>1. IsFiniteSet(DOMAIN s.on)
  <2>1. DOMAIN s.on \in SUBSET Node /\ IsFiniteSet(Node)
    BY DelegationAssumption, Zenon DEF IsState
  <2> QED
    BY <2>1, FS_Subset, Zenon
<1>2. DOMAIN s.on \in SUBSET Nat
  BY DelegationAssumption, Zenon DEF IsState
<1>3. s.on \in [DOMAIN s.on -> Nat] /\ \A n \in DOMAIN s.on : s.on[n] \in Nat \ {0}
  BY DEF IsState
<1>4. s.total \in Nat /\ \A n \in DOMAIN s.on : s.on[n] <= s.total
  BY <1>1, <1>3, SumOfNat, Zenon DEF IsState
<1>5. s.total # 0
  <2>1. PICK n \in DOMAIN s.on : TRUE
    BY DEF IsState
  <2>2. s.on[n] <= s.total /\ s.on[n] \in Nat \ {0}
    BY <1>3, <1>4, Zenon
  <2> QED
    BY <1>4, <2>2
<1> QED
  BY <1>1, <1>2, <1>3, <1>4, <1>5

\* Amounts whose sum is not zero make a state, without those that are zero.
LEMMA MakeState ==
  ASSUME NEW V \in SUBSET Node, NEW D \in SUBSET V, NEW on \in [D -> Nat], SumOf(on) # 0,
         NEW A, A = {n \in D : on[n] # 0},
         NEW s, s = [total |-> SumOf(on), on |-> [n \in A |-> on[n]]]
  PROVE  IsState(s, V)
<1>1. IsFiniteSet(D)
  <2>1. D \in SUBSET Node /\ IsFiniteSet(Node)
    BY DelegationAssumption, Zenon
  <2> QED
    BY <2>1, FS_Subset, Zenon
<1>2. A \in SUBSET D /\ \A n \in D \ A : on[n] = 0
  BY Zenon
<1>3. PICK f : f = [n \in A |-> on[n]]
  BY SMTT(30)
<1>4. f \in [A -> Nat \ {0}]
  BY <1>2, <1>3
<1>5. on \in [D -> Int]
  OBVIOUS
<1>6. SumOf(f) = SumOf(on)
  BY <1>1, <1>2, <1>3, <1>5, SumOfNonZero, SMTT(20)
<1>7. A # {}
  <2>1. SUFFICES ASSUME A = {} PROVE FALSE
    OBVIOUS
  <2>2. D \in SUBSET D /\ \A n \in D : on[n] = 0
    BY <1>2, <2>1, Zenon
  <2>3. SumOver(on, D) = 0
    BY <1>1, <2>2, SumZeros, Zenon
  <2> QED
    BY <1>1, <1>5, <2>3, SumOfType, Zenon
<1>8. s = [total |-> SumOf(f), on |-> f]
  BY <1>3, <1>6, Zenon
<1>9. s.total = SumOf(f) /\ s.on = f /\ DOMAIN f = A
  BY <1>8, <1>3
<1> QED
  BY <1>2, <1>4, <1>7, <1>8, <1>9, Zenon DEF IsState

\* Within one unit of a share of b in T.
Near(x, kept, b, T) == x * b - T <= kept * T /\ kept * T <= x * b + T

OnNode(s, n) == IF n \in DOMAIN s.on THEN s.on[n] ELSE 0

\* A cut of the rounded-down share, or of one more, is near the exact share.
LEMMA NearFacts ==
  ASSUME NEW x \in Nat, NEW q \in Nat, NEW T \in Nat \ {0}, NEW b \in Nat, NEW e \in Nat,
         b = T - e, NEW d \in {0, 1}, q * T <= x * e, x * e < q * T + T
  PROVE  Near(x, (x - q) - d, b, T)
<1>0. x * e \in Nat /\ q * T \in Nat /\ x * T \in Nat
  OBVIOUS
<1>1. PICK y \in Nat, z \in Nat, w \in Nat : y = x * e /\ z = q * T /\ w = x * T
  BY <1>0, Zenon
<1>2. x * b = w - y
  BY <1>1
<1>3. ((x - q) - d) * T = (w - z) - d * T
  BY <1>1
<1>4. d * T = 0 \/ d * T = T
  OBVIOUS
<1> QED
  BY <1>1, <1>2, <1>3, <1>4 DEF Near

\* A party that is cut down keeps exactly its stake; each node loses its share to within a unit.
LEMMA CutDownFacts ==
  ASSUME NEW V \in SUBSET Node, NEW s, IsState(s, V), NEW b \in Nat, b < s.total,
         NEW c, c = CutDown(s, b)
  PROVE  /\ c.total = b
         /\ b # 0 => IsState(c, V)
         /\ \A n \in DOMAIN s.on : Near(s.on[n], OnNode(c, n), b, s.total)
<1>1. PICK D, on, T : D = DOMAIN s.on /\ on = s.on /\ T = s.total
  OBVIOUS
<1>2. /\ IsFiniteSet(D) /\ D \in SUBSET Nat /\ D \in SUBSET V
      /\ on \in [D -> Nat] /\ T \in Nat \ {0} /\ T = SumOf(on)
      /\ s = [total |-> SumOf(on), on |-> on] /\ DOMAIN on = D
  BY <1>1, StateFacts, Zenon DEF IsState
<1>3. PICK e : e = T - b
  OBVIOUS
<1>4. e \in Nat /\ e <= T /\ b = T - e
  BY <1>1, <1>2, <1>3
<1>5. PICK share : share = [n \in D |-> (on[n] * e) \div T]
  BY Zenon
<1>6. PICK less : less = [n \in D |-> on[n] - share[n]]
  BY Zenon
<1>7. PICK some : some = {n \in D : on[n] - share[n] # 0}
  BY Zenon
<1>8. /\ share \in [D -> Nat] /\ \A n \in D : share[n] <= on[n]
      /\ SumOf(share) \in Nat /\ SumOf(share) <= e
      /\ e - SumOf(share) <= Cardinality(some)
  <2>1. AreShares(D, on, T, e, share, some)
    BY <1>2, <1>4, <1>5, <1>7, Zenon DEF AreShares
  <2>2. LeaveUnits(D, on, e, share, some)
    BY <2>1, SharesLeave, Zenon
  <2> QED
    BY <2>2, Zenon DEF LeaveUnits
<1>9. PICK left \in Nat : left = e - SumOf(share)
  BY <1>4, <1>8
<1>10. /\ less \in [D -> Nat] /\ SumOf(less) = SumOf(on) - SumOf(share)
       /\ DecreasedBy(s, share) = [total |-> SumOf(less), on |-> less]
  <2>1. /\ less \in [D -> Nat] /\ SumOf(less) = SumOf(on) - SumOf(share)
        /\ DecreasedBy([total |-> SumOf(on), on |-> on], share)
             = [total |-> SumOf(less), on |-> less]
    <3>1. Takes(D, on, share, less)
      BY <1>2, <1>6, <1>8, Zenon DEF Takes
    <3> QED
      BY <3>1, DecreasedByFacts, Zenon
  <2> QED
    BY <1>2, <2>1, Zenon
<1>11. DOMAIN less = D /\ some = {n \in D : less[n] # 0} /\ some \in SUBSET D
  BY <1>6, <1>7
<1>12. IsFiniteSet(some) /\ some \in SUBSET Nat
  BY <1>2, <1>11, FS_Subset, Zenon
<1>13. PICK first : first = FirstOf(some, left)
  OBVIOUS
<1>14. first \in SUBSET some /\ Cardinality(first) = left
  <2>1. first \in SUBSET some
    BY <1>13, Zenon DEF FirstOf
  <2>2. left <= Cardinality(some)
    BY <1>8, <1>9, Zenon
  <2> QED
    BY <1>12, <1>13, <2>1, <2>2, FirstOfCount, Zenon
<1>15. PICK ones : ones = [n \in D |-> IF n \in first THEN 1 ELSE 0]
  BY Zenon
<1>16. ones \in [D -> Nat] /\ (\A n \in D : ones[n] <= less[n])
       /\ (\A n \in D : ones[n] \in {0, 1})
  <2>1. ASSUME NEW n \in D PROVE ones[n] \in {0, 1} /\ ones[n] \in Nat /\ ones[n] <= less[n]
    <3>1. n \in first => less[n] # 0
      BY <1>11, <1>14, Zenon
    <3>2. less[n] \in Nat
      BY <1>10
    <3> QED
      BY <1>15, <3>1, <3>2
  <2> QED
    BY <1>15, <2>1
<1>17. SumOf(ones) = left
  <2>1. first \in SUBSET D
    BY <1>11, <1>14, Zenon
  <2> QED
    BY <1>2, <1>14, <1>15, <2>1, SumOfOnes, Zenon
<1>18. PICK kept : kept = [n \in D |-> less[n] - ones[n]]
  BY Zenon
<1>19. /\ kept \in [D -> Nat] /\ SumOf(kept) = SumOf(less) - SumOf(ones)
       /\ DecreasedBy([total |-> SumOf(less), on |-> less], ones)
            = [total |-> SumOf(kept), on |-> kept]
  <2>1. Takes(D, less, ones, kept)
    BY <1>2, <1>10, <1>16, <1>18, Zenon DEF Takes
  <2> QED
    BY <2>1, DecreasedByFacts, Zenon
<1>20. SumOf(kept) = b
  BY <1>2, <1>4, <1>8, <1>9, <1>10, <1>17, <1>19
<1>21. CutBy(s, e, share) = [total |-> b, on |-> kept]
  <2>1. CutBy(s, e, share) = TakeRemainder([total |-> SumOf(less), on |-> less], left)
    BY <1>9, <1>10, Zenon DEF CutBy
  <2>2. PICK t : t = [total |-> SumOf(less), on |-> less]
    BY Zenon
  <2>3. t.on = less
    BY <2>2
  <2>4. TakeRemainder(t, left) = DecreasedBy(t, ones)
    <3>1. {n \in DOMAIN t.on : t.on[n] # 0} = some
      BY <1>11, <2>3, Zenon
    <3>2. {n \in some : Cardinality({m \in some : m < n}) < left} = first
      BY <1>13, Zenon DEF FirstOf, Rank
    <3>3. [n \in DOMAIN t.on |-> IF n \in first THEN 1 ELSE 0] = ones
      BY <1>11, <1>15, <2>3, Zenon
    <3> QED
      BY <3>1, <3>2, <3>3, Zenon DEF TakeRemainder
  <2> QED
    BY <1>19, <1>20, <2>1, <2>2, <2>4, Zenon
<1>22. PICK A : A = {n \in D : kept[n] # 0}
  BY Zenon
<1>23. c = [total |-> b, on |-> [n \in A |-> kept[n]]]
  <2>1. [n \in DOMAIN s.on |-> (s.on[n] * (s.total - b)) \div s.total] = share
    BY <1>1, <1>3, <1>5, Zenon
  <2>2. c = WithoutZeros(CutBy(s, s.total - b,
                [n \in DOMAIN s.on |-> (s.on[n] * (s.total - b)) \div s.total]))
    BY Zenon DEF CutDown
  <2>3. c = WithoutZeros(CutBy(s, e, share))
    BY <1>1, <1>3, <2>1, <2>2, Zenon
  <2>4. PICK t : t = [total |-> b, on |-> kept]
    BY Zenon
  <2>5. c = WithoutZeros(t)
    BY <1>21, <2>3, <2>4, Zenon
  <2>6. DOMAIN kept = D
    BY <1>18
  <2>7. RestrictValues(kept, LAMBDA a : a # 0) = [n \in A |-> kept[n]]
    BY <1>22, <2>6, Zenon DEF RestrictValues, Restrict
  <2>8. WithoutZeros(t) = [total |-> b, on |-> RestrictValues(kept, LAMBDA a : a # 0)]
    BY <2>4 DEF WithoutZeros
  <2> QED
    BY <2>5, <2>7, <2>8, Zenon
<1>24. c.total = b /\ c.on = [n \in A |-> kept[n]]
  BY <1>23
<1>25. b # 0 => IsState(c, V)
  BY <1>2, <1>19, <1>20, <1>22, <1>23, MakeState, Zenon
<1>26. ASSUME NEW n \in D PROVE Near(on[n], OnNode(c, n), b, T)
  <2>1. OnNode(c, n) = kept[n]
    BY <1>22, <1>24, Zenon DEF OnNode
  <2>2. PICK x, q, d : x = on[n] /\ q = share[n] /\ d = ones[n]
    OBVIOUS
  <2>3. x \in Nat /\ q = (x * e) \div T /\ d \in {0, 1}
    BY <1>2, <1>5, <1>16, <2>2, SMTT(30)
  <2>4. kept[n] = (x - q) - d
    BY <1>6, <1>18, <2>2
  <2>5. q \in Nat /\ q * T <= x * e /\ x * e < q * T + T
    BY <1>2, <1>4, <2>3, ShareFacts, Zenon
  <2>6. Near(x, (x - q) - d, b, T)
    BY <1>2, <1>4, <2>3, <2>5, NearFacts, Zenon
  <2> QED
    BY <2>1, <2>2, <2>4, <2>6, Zenon
<1> QED
  BY <1>1, <1>24, <1>25, <1>26, Zenon

-----------------------------------------------------------------------------
(* Delegation states, and what reconciling makes of them.                  *)

\* Parties with a state each, on nodes of V.
IsDelegation(ds, V) ==
  /\ ds = [p \in DOMAIN ds |-> ds[p]]
  /\ DOMAIN ds \in SUBSET Party /\ IsFiniteSet(DOMAIN ds)
  /\ \A p \in DOMAIN ds : IsState(ds[p], V)

\* r is ds cut down to the stake, where that is less.
IsCutTo(r, ds, stake, V) ==
  /\ IsDelegation(r, V)
  /\ DOMAIN r \in SUBSET DOMAIN ds
  /\ \A p \in DOMAIN ds : ~ Short(ds, p, stake) => p \in DOMAIN r /\ r[p] = ds[p]
  /\ \A p \in DOMAIN ds : Short(ds, p, stake) =>
       /\ Total(r, p) = stake[p].balance
       /\ \A n \in DOMAIN ds[p].on : Near(ds[p].on[n], On(r, p, n), stake[p].balance, ds[p].total)

HasBalances(ds, stake) == \A p \in DOMAIN ds : stake[p].ok => stake[p].balance \in Nat

\* Reconciling cuts every party down whose stake no longer covers its nominations (reconcile).
LEMMA ReconcileFacts ==
  ASSUME NEW V \in SUBSET Node, NEW ds, IsDelegation(ds, V), NEW stake, HasBalances(ds, stake)
  PROVE  IsCutTo(reconcile(ds, stake), ds, stake, V)
<1> DEFINE short == {p \in DOMAIN ds : Short(ds, p, stake)}
           new == [p \in DOMAIN ds |-> IF p \in short THEN CutDown(ds[p], stake[p].balance)
                                                      ELSE ds[p]]
           stay == {p \in DOMAIN ds : p \in short => new[p].total # 0}
<1>1. PICK r : r = reconcile(ds, stake)
  OBVIOUS
<1>2. r = [p \in stay |-> new[p]]
  BY <1>1, Zenon DEF reconcile, Restrict
<1>3. ASSUME NEW p \in DOMAIN ds, p \in short
      PROVE  /\ new[p].total = stake[p].balance
             /\ p \in stay <=> stake[p].balance # 0
             /\ stake[p].balance # 0 => IsState(new[p], V)
             /\ \A n \in DOMAIN ds[p].on :
                  Near(ds[p].on[n], OnNode(new[p], n), stake[p].balance, ds[p].total)
  <2>1. PICK b, s, c : b = stake[p].balance /\ s = ds[p] /\ c = new[p]
    OBVIOUS
  <2>2. c = CutDown(s, b)
    BY <1>3, <2>1, Zenon
  <2>3. b \in Nat /\ b < s.total /\ IsState(s, V)
    BY <1>3, <2>1, Zenon DEF Short, HasBalances, IsDelegation
  <2>4. /\ c.total = b
        /\ b # 0 => IsState(c, V)
        /\ \A n \in DOMAIN s.on : Near(s.on[n], OnNode(c, n), b, s.total)
    BY <2>2, <2>3, CutDownFacts, Zenon
  <2>5. p \in stay <=> c.total # 0
    BY <1>3, <2>1, Zenon
  <2> QED
    BY <2>1, <2>4, <2>5, Zenon
<1>4. ASSUME NEW p \in DOMAIN ds, p \notin short
      PROVE  p \in stay /\ new[p] = ds[p] /\ IsState(ds[p], V)
  BY <1>4, Zenon DEF IsDelegation
<1>5. DOMAIN r = stay /\ stay \in SUBSET DOMAIN ds /\ \A p \in stay : r[p] = new[p]
  <2> HIDE DEF new
  <2> QED
    BY <1>2
<1> HIDE DEF new, stay
<1>6. IsDelegation(r, V)
  <2>1. IsFiniteSet(stay)
    BY <1>5, FS_Subset, Zenon DEF IsDelegation
  <2>2. DOMAIN r \in SUBSET Party
    BY <1>5, Zenon DEF IsDelegation
  <2>3. ASSUME NEW p \in DOMAIN r PROVE IsState(r[p], V)
    <3>1. p \in stay /\ p \in DOMAIN ds /\ r[p] = new[p]
      BY <1>5, Zenon
    <3> QED
      BY <1>3, <1>4, <3>1, Zenon
  <2>4. r = [p \in DOMAIN r |-> r[p]]
    BY <1>2, <1>5, Zenon
  <2> QED
    BY <1>5, <2>1, <2>2, <2>3, <2>4, Zenon DEF IsDelegation
<1>7. ASSUME NEW p \in DOMAIN ds, ~ Short(ds, p, stake) PROVE p \in DOMAIN r /\ r[p] = ds[p]
  BY <1>4, <1>5, <1>7, Zenon
<1>8. ASSUME NEW p \in DOMAIN ds, Short(ds, p, stake)
      PROVE  /\ Total(r, p) = stake[p].balance
             /\ \A n \in DOMAIN ds[p].on :
                  Near(ds[p].on[n], On(r, p, n), stake[p].balance, ds[p].total)
  <2>1. p \in short
    BY <1>8, Zenon
  <2>2. CASE stake[p].balance # 0
    <3>1. p \in DOMAIN r /\ r[p] = new[p]
      BY <1>3, <1>5, <2>1, <2>2, Zenon
    <3>2. ASSUME NEW n \in DOMAIN ds[p].on PROVE On(r, p, n) = OnNode(new[p], n)
      BY <3>1, Zenon DEF On, OnNode
    <3>3. Total(r, p) = stake[p].balance
      BY <1>3, <2>1, <3>1, Zenon DEF Total
    <3> QED
      BY <1>3, <2>1, <3>2, <3>3, Zenon
  <2>3. CASE stake[p].balance = 0
    <3>1. p \notin DOMAIN r
      BY <1>3, <1>5, <2>1, <2>3, Zenon
    <3>2. ASSUME NEW n \in DOMAIN ds[p].on
          PROVE  Near(ds[p].on[n], On(r, p, n), stake[p].balance, ds[p].total)
      <4>1. On(r, p, n) = 0
        BY <3>1, Zenon DEF On
      <4>2. ds[p].on[n] \in Nat /\ ds[p].total \in Nat
        <5>1. IsState(ds[p], V)
          BY Zenon DEF IsDelegation
        <5> QED
          BY <5>1, StateFacts, Zenon
      <4> QED
        BY <2>3, <4>1, <4>2 DEF Near
    <3>3. Total(r, p) = 0
      BY <3>1, Zenon DEF Total
    <3> QED
      BY <2>3, <3>2, <3>3, Zenon
  <2> QED
    BY <2>2, <2>3, Zenon
<1> QED
  BY <1>1, <1>5, <1>6, <1>7, <1>8, Zenon DEF IsCutTo

-----------------------------------------------------------------------------
(* Balances of staking accounts as folds over their events.                *)

Balance == [ok : BOOLEAN, balance : Nat]

RangeBalance == [ok : BOOLEAN, balance : Nat, least : Nat]

\* Time and kind of an event as one number: EventBefore is its order.
Key(l) == 2 * LinkOf[l].ts + IF LinkOf[l].deposited THEN 0 ELSE 1

\* The order of the stake linkings (time, then log position) is that of their keys.
LEMMA KeyFacts ==
  /\ \A l \in Link : Key(l) \in Nat
  /\ \A k, l \in Link : EventBefore(k, l) <=> Key(k) < Key(l)
<1>1. \A l \in Link : LinkOf[l].ts \in Nat /\ LinkOf[l].deposited \in BOOLEAN
  BY LinkAssumption
<1>2. ASSUME NEW k \in Link, NEW l \in Link PROVE EventBefore(k, l) <=> Key(k) < Key(l)
  <2>1. PICK x \in Nat, y \in Nat : x = LinkOf[k].ts /\ y = LinkOf[l].ts
    BY <1>1, Zenon
  <2>2. PICK d \in BOOLEAN, e \in BOOLEAN : d = LinkOf[k].deposited /\ e = LinkOf[l].deposited
    BY <1>1, Zenon
  <2>3. EventBefore(k, l) <=> IF x = y THEN d /\ ~ e ELSE x < y
    BY <2>1, <2>2, Zenon DEF EventBefore
  <2>4. Key(k) = 2 * x + (IF d THEN 0 ELSE 1) /\ Key(l) = 2 * y + (IF e THEN 0 ELSE 1)
    BY <2>1, <2>2, Zenon DEF Key
  <2> QED
    BY <2>3, <2>4
<1>3. ASSUME NEW l \in Link PROVE Key(l) \in Nat
  BY <1>1 DEF Key
<1> QED
  BY <1>2, <1>3, Zenon

\* Some events have a last one.
LEMMA LastEventFacts ==
  ASSUME NEW D \in SUBSET Link, IsFiniteSet(D), D # {}
  PROVE  LastEvent(D) \in D /\ \A k \in D : ~ EventBefore(LastEvent(D), k)
<1> DEFINE G == {s \in SUBSET D : s = {} \/ \E l \in s : \A k \in s : Key(k) <= Key(l)}
<1>1. {} \in G
  BY Zenon
<1>2. ASSUME NEW s \in SUBSET D, NEW x \in D \ s, s \in G PROVE s \cup {x} \in G
  <2>0. s \cup {x} \in SUBSET D
    BY Zenon
  <2>1. CASE s = {}
    <3>1. Key(x) <= Key(x)
      BY KeyFacts
    <3>2. \A k \in s \cup {x} : k = x
      BY <2>1, Zenon
    <3> QED
      BY <2>0, <3>1, <3>2, Zenon
  <2>2. CASE s # {}
    <3>1. PICK l \in s : \A k \in s : Key(k) <= Key(l)
      BY <1>2, <2>2, Zenon
    <3>2. Key(x) \in Nat /\ Key(l) \in Nat /\ \A k \in s : Key(k) \in Nat
      BY KeyFacts
    <3>3. CASE Key(x) <= Key(l)
      BY <2>0, <3>1, <3>3, Zenon
    <3>4. CASE ~(Key(x) <= Key(l))
      <4>1. \A k \in s : Key(k) <= Key(x)
        BY <3>1, <3>2, <3>4
      <4>2. Key(x) <= Key(x)
        BY <3>2
      <4> QED
        BY <2>0, <4>1, <4>2, Zenon
    <3> QED
      BY <3>3, <3>4, Zenon
  <2> QED
    BY <2>1, <2>2, Zenon
<1>3. D \in G
  <2>1. D \in SUBSET D
    OBVIOUS
  <2> HIDE DEF G
  <2> QED
    BY <1>1, <1>2, <2>1, SubsetInduction, Zenon
<1>4. PICK l \in D : \A k \in D : Key(k) <= Key(l)
  BY <1>3, Zenon
<1>5. ASSUME NEW k \in D PROVE ~ EventBefore(l, k)
  <2>1. Key(k) <= Key(l) /\ Key(k) \in Nat /\ Key(l) \in Nat
    BY <1>4, KeyFacts, Zenon
  <2>2. ~(Key(l) < Key(k))
    BY <2>1
  <2>3. l \in Link /\ k \in Link
    OBVIOUS
  <2> QED
    BY <2>2, <2>3, KeyFacts, Zenon
<1> QED
  BY <1>5, Zenon DEF LastEvent

LastOf(D) == [s \in SUBSET D |-> LastEvent(s)]

Applying(D) == [l \in D |-> [b \in Balance |-> ApplyEvent(b, l)]]

IsCalc(G, E) ==
  G = [s \in SUBSET E |->
         IF s = {} THEN [ok |-> TRUE, balance |-> 0]
         ELSE ApplyEvent(G[s \ {LastEvent(s)}], LastEvent(s))]

\* One linking makes a balance of a balance.
LEMMA ApplyType ==
  ASSUME NEW b \in Balance, NEW l \in Link
  PROVE  ApplyEvent(b, l) \in Balance
<1>1. LinkOf[l].amount \in Nat /\ b.balance \in Nat /\ b.ok \in BOOLEAN
  BY LinkAssumption DEF Balance
<1> QED
  BY <1>1 DEF ApplyEvent, Balance

\* calculateBalance, unfolded.
LEMMA CalcUnfolded ==
  ASSUME NEW E
  PROVE  calculateBalance(E) = (CHOOSE G : IsCalc(G, E))[E]
BY Zenon DEF calculateBalance, MapThenFoldSet, IsCalc

\* calculateBalance is a fold that takes the last event first.
LEMMA CalcIsFold ==
  ASSUME NEW D \in SUBSET Link, IsFiniteSet(D), NEW E \in SUBSET D
  PROVE  \E G : /\ IsFold(G, E, [ok |-> TRUE, balance |-> 0], LastOf(D), Applying(D))
                /\ \A s \in SUBSET E : G[s] \in Balance
                /\ calculateBalance(E) = G[E]
<1> DEFINE base == [ok |-> TRUE, balance |-> 0]
           ch == LastOf(D)
           step == Applying(D)
<1>1. IsFiniteSet(E) /\ \A s \in SUBSET E : s \in SUBSET Link /\ IsFiniteSet(s)
  BY FS_Subset
<1>3. \A s \in SUBSET E : ch[s] = LastEvent(s)
  BY Zenon DEF LastOf
<1>2. \A s \in SUBSET E : s # {} => ch[s] \in s
  BY <1>1, <1>3, LastEventFacts, Zenon
<1>4. \A l \in E : \A b \in Balance : step[l][b] = ApplyEvent(b, l)
  BY Zenon DEF Applying
<1>5. \A l \in E : \A b \in Balance : step[l][b] \in Balance
  BY <1>4, ApplyType, Zenon
<1>6. base \in Balance
  BY DEF Balance
<1> HIDE DEF base, ch, step
<1>7. PICK F : IsFold(F, E, base, ch, step)
  BY <1>1, <1>2, FoldExists, Zenon
<1>8. \A s \in SUBSET E : F[s] \in Balance
  BY <1>1, <1>2, <1>5, <1>6, <1>7, FoldType, Zenon
<1>9. IsCalc(F, E)
  <2>1. ASSUME NEW s \in SUBSET E
        PROVE  F[s] = IF s = {} THEN base ELSE ApplyEvent(F[s \ {LastEvent(s)}], LastEvent(s))
    <3>1. F[s] = IF s = {} THEN base ELSE step[ch[s]][F[s \ {ch[s]}]]
      BY ONLY <1>7, <2>1, Zenon DEF IsFold
    <3>2. CASE s # {}
      <4>1. ch[s] \in s /\ ch[s] \in E
        BY <1>2, <3>2, Zenon
      <4>2. F[s \ {ch[s]}] \in Balance
        BY <1>8, Zenon
      <4>3. step[ch[s]][F[s \ {ch[s]}]] = ApplyEvent(F[s \ {ch[s]}], ch[s])
        BY <1>4, <4>1, <4>2, Zenon
      <4> QED
        BY <1>3, <3>1, <3>2, <4>3, Zenon
    <3> QED
      BY <3>1, <3>2, Zenon
  <2>2. F = [s \in SUBSET E |-> F[s]]
    BY <1>7, Zenon DEF IsFold
  <2> QED
    BY <2>1, <2>2, Zenon DEF IsCalc, base
<1>10. PICK G : G = (CHOOSE g : IsCalc(g, E)) /\ IsCalc(G, E)
  BY <1>9, Zenon
<1>11. FoldsWithin(Balance, G, E, base, ch, step)
  <2>1. G = [s \in SUBSET E |-> G[s]] /\ G[{}] = base
    BY <1>10, Zenon DEF IsCalc, base
  <2>2. ASSUME NEW s \in SUBSET E, s # {}, G[s \ {ch[s]}] \in Balance
        PROVE  G[s] = step[ch[s]][G[s \ {ch[s]}]]
    <3>1. G[s] = ApplyEvent(G[s \ {LastEvent(s)}], LastEvent(s))
      BY ONLY <1>10, <2>2, Zenon DEF IsCalc
    <3>2. ch[s] \in E
      BY <1>2, <2>2, Zenon
    <3>3. step[ch[s]][G[s \ {ch[s]}]] = ApplyEvent(G[s \ {ch[s]}], ch[s])
      BY <1>4, <2>2, <3>2, Zenon
    <3> QED
      BY <1>3, <3>1, <3>3, Zenon
  <2> QED
    BY <2>1, <2>2, Zenon DEF FoldsWithin
<1>12. IsFold(G, E, base, ch, step) /\ \A s \in SUBSET E : G[s] \in Balance
  BY <1>1, <1>2, <1>5, <1>6, <1>11, FoldOf, Zenon
<1>13. calculateBalance(E) = G[E]
  BY <1>10, CalcUnfolded, Zenon
<1> QED
  BY <1>12, <1>13, Zenon DEF base, ch, step

\* The balance after some events is that of the last one, applied to the balance before it.
LEMMA CalcStep ==
  ASSUME NEW E \in SUBSET Link, IsFiniteSet(E)
  PROVE  /\ calculateBalance(E) \in Balance
         /\ E = {} => calculateBalance(E) = [ok |-> TRUE, balance |-> 0]
         /\ E # {} => calculateBalance(E)
                        = ApplyEvent(calculateBalance(E \ {LastEvent(E)}), LastEvent(E))
<1> DEFINE base == [ok |-> TRUE, balance |-> 0]
           ch == LastOf(E)
           step == Applying(E)
<1>1. \A s \in SUBSET E : ch[s] = LastEvent(s)
  BY Zenon DEF LastOf
<1>2. \A s \in SUBSET E : s # {} => ch[s] \in s
  <2>1. \A s \in SUBSET E : s \in SUBSET Link /\ IsFiniteSet(s)
    BY FS_Subset
  <2> QED
    BY <1>1, <2>1, LastEventFacts, Zenon
<1>3. \A l \in E : \A b \in Balance : step[l][b] = ApplyEvent(b, l)
  BY Zenon DEF Applying
<1>4. PICK G : /\ IsFold(G, E, base, ch, step) /\ \A s \in SUBSET E : G[s] \in Balance
               /\ calculateBalance(E) = G[E]
  <2>1. E \in SUBSET E
    OBVIOUS
  <2> QED
    BY <2>1, CalcIsFold, Zenon
<1>5. calculateBalance(E) \in Balance
  BY <1>4, Zenon
<1> HIDE DEF ch, step, base
<1>6. CASE E = {}
  <2>1. G[E] = base
    BY ONLY <1>4, <1>6, Zenon DEF IsFold
  <2> QED
    BY <1>4, <1>5, <1>6, <2>1, Zenon DEF base
<1>7. CASE E # {}
  <2>1. PICK c : c = LastEvent(E)
    OBVIOUS
  <2>2. c \in E /\ c = ch[E]
    BY <1>1, <1>2, <1>7, <2>1, Zenon
  <2>3. PICK E1 : E1 = E \ {c}
    BY Zenon
  <2>4. E1 \in SUBSET E /\ E \in SUBSET E /\ E1 \in SUBSET (E \cap E1)
    BY <2>3, Zenon
  <2>5. G[E] = step[c][G[E1]]
    BY ONLY <1>4, <1>7, <2>2, <2>3, Zenon DEF IsFold
  <2>6. PICK G1 : /\ IsFold(G1, E1, base, ch, step) /\ calculateBalance(E1) = G1[E1]
    BY <2>4, CalcIsFold, Zenon DEF ch, step, base
  <2>7. G[E1] = G1[E1]
    BY <1>2, <1>4, <2>4, <2>6, FoldUnique, SMTT(20)
  <2>8. step[c][G[E1]] = ApplyEvent(G[E1], c)
    BY <1>3, <1>4, <2>2, <2>4, Zenon
  <2> QED
    BY <1>4, <1>5, <1>7, <2>1, <2>3, <2>5, <2>6, <2>7, <2>8, Zenon
<1> QED
  BY <1>6, <1>7, Zenon

-----------------------------------------------------------------------------
(* The same for the lowest balance of a period.                            *)

ApplyingInRange(D) == [l \in D |-> [b \in RangeBalance |-> ApplyInRange(b, l)]]

IsRange(G, b0, E) ==
  G = [s \in SUBSET E |->
         IF s = {} THEN [ok |-> TRUE, balance |-> b0, least |-> b0]
         ELSE ApplyInRange(G[s \ {LastEvent(s)}], LastEvent(s))]

\* One linking of the period makes a running balance and its least value of another.
LEMMA ApplyInRangeType ==
  ASSUME NEW b \in RangeBalance, NEW l \in Link
  PROVE  ApplyInRange(b, l) \in RangeBalance
<1>1. /\ LinkOf[l].amount \in Nat
      /\ b.balance \in Nat /\ b.ok \in BOOLEAN /\ b.least \in Nat
  BY LinkAssumption DEF RangeBalance
<1>2. ApplyEvent(b, l).ok \in BOOLEAN /\ ApplyEvent(b, l).balance \in Nat
  <2>1. CASE ~ b.ok
    BY <1>1, <2>1, Zenon DEF ApplyEvent
  <2>2. CASE b.ok /\ LinkOf[l].deposited
    <3>1. ApplyEvent(b, l) = [ok |-> TRUE, balance |-> b.balance + LinkOf[l].amount]
      BY <2>2, Zenon DEF ApplyEvent
    <3> QED
      BY <1>1, <3>1
  <2>3. CASE b.ok /\ ~ LinkOf[l].deposited /\ b.balance < LinkOf[l].amount
    <3>1. ApplyEvent(b, l) = [ok |-> FALSE, balance |-> 0]
      BY <2>3, Zenon DEF ApplyEvent
    <3> QED
      BY <3>1
  <2>4. CASE b.ok /\ ~ LinkOf[l].deposited /\ ~(b.balance < LinkOf[l].amount)
    <3>1. ApplyEvent(b, l) = [ok |-> TRUE, balance |-> b.balance - LinkOf[l].amount]
      BY <2>4, Zenon DEF ApplyEvent
    <3> QED
      BY <1>1, <2>4, <3>1
  <2> QED
    BY <2>1, <2>2, <2>3, <2>4, Zenon
<1>3. Smaller(b.least, ApplyEvent(b, l).balance) \in Nat
  BY <1>1, <1>2, Zenon DEF Smaller
<1> QED
  <2>1. PICK o, x, m : /\ o = ApplyEvent(b, l).ok /\ x = ApplyEvent(b, l).balance
                       /\ m = IF LinkOf[l].deposited THEN b.least
                               ELSE Smaller(b.least, ApplyEvent(b, l).balance)
    OBVIOUS
  <2>2. o \in BOOLEAN /\ x \in Nat /\ m \in Nat
    BY <1>1, <1>2, <1>3, <2>1, Zenon
  <2>3. ApplyInRange(b, l) = [ok |-> o, balance |-> x, least |-> m]
    BY <2>1, Zenon DEF ApplyInRange
  <2> QED
    BY <2>2, <2>3 DEF RangeBalance

\* lowestInRange, unfolded.
LEMMA RangeUnfolded ==
  ASSUME NEW b0, NEW E
  PROVE  lowestInRange(b0, E) = (CHOOSE G : IsRange(G, b0, E))[E]
BY Zenon DEF lowestInRange, MapThenFoldSet, IsRange

\* lowestInRange is a fold that takes the last event first.
LEMMA RangeIsFold ==
  ASSUME NEW b0 \in Nat, NEW D \in SUBSET Link, IsFiniteSet(D), NEW E \in SUBSET D
  PROVE  \E G : /\ IsFold(G, E, [ok |-> TRUE, balance |-> b0, least |-> b0], LastOf(D), ApplyingInRange(D))
                /\ \A s \in SUBSET E : G[s] \in RangeBalance
                /\ lowestInRange(b0, E) = G[E]
<1> DEFINE base == [ok |-> TRUE, balance |-> b0, least |-> b0]
           ch == LastOf(D)
           step == ApplyingInRange(D)
<1>1. IsFiniteSet(E) /\ \A s \in SUBSET E : s \in SUBSET Link /\ IsFiniteSet(s)
  BY FS_Subset
<1>3. \A s \in SUBSET E : ch[s] = LastEvent(s)
  BY Zenon DEF LastOf
<1>2. \A s \in SUBSET E : s # {} => ch[s] \in s
  BY <1>1, <1>3, LastEventFacts, Zenon
<1>4. \A l \in E : \A b \in RangeBalance : step[l][b] = ApplyInRange(b, l)
  BY Zenon DEF ApplyingInRange
<1>5. \A l \in E : \A b \in RangeBalance : step[l][b] \in RangeBalance
  BY <1>4, ApplyInRangeType, Zenon
<1>6. base \in RangeBalance
  BY DEF RangeBalance
<1> HIDE DEF base, ch, step
<1>7. PICK F : IsFold(F, E, base, ch, step)
  BY <1>1, <1>2, FoldExists, Zenon
<1>8. \A s \in SUBSET E : F[s] \in RangeBalance
  BY <1>1, <1>2, <1>5, <1>6, <1>7, FoldType, Zenon
<1>9. IsRange(F, b0, E)
  <2>1. ASSUME NEW s \in SUBSET E
        PROVE  F[s] = IF s = {} THEN base ELSE ApplyInRange(F[s \ {LastEvent(s)}], LastEvent(s))
    <3>1. F[s] = IF s = {} THEN base ELSE step[ch[s]][F[s \ {ch[s]}]]
      BY ONLY <1>7, <2>1, Zenon DEF IsFold
    <3>2. CASE s # {}
      <4>1. ch[s] \in s /\ ch[s] \in E
        BY <1>2, <3>2, Zenon
      <4>2. F[s \ {ch[s]}] \in RangeBalance
        BY <1>8, Zenon
      <4>3. step[ch[s]][F[s \ {ch[s]}]] = ApplyInRange(F[s \ {ch[s]}], ch[s])
        BY <1>4, <4>1, <4>2, Zenon
      <4> QED
        BY <1>3, <3>1, <3>2, <4>3, Zenon
    <3> QED
      BY <3>1, <3>2, Zenon
  <2>2. F = [s \in SUBSET E |-> F[s]]
    BY <1>7, Zenon DEF IsFold
  <2> QED
    BY <2>1, <2>2, Zenon DEF IsRange, base
<1>10. PICK G : G = (CHOOSE g : IsRange(g, b0, E)) /\ IsRange(G, b0, E)
  BY <1>9, Zenon
<1>11. FoldsWithin(RangeBalance, G, E, base, ch, step)
  <2>1. G = [s \in SUBSET E |-> G[s]] /\ G[{}] = base
    BY <1>10, Zenon DEF IsRange, base
  <2>2. ASSUME NEW s \in SUBSET E, s # {}, G[s \ {ch[s]}] \in RangeBalance
        PROVE  G[s] = step[ch[s]][G[s \ {ch[s]}]]
    <3>1. G[s] = ApplyInRange(G[s \ {LastEvent(s)}], LastEvent(s))
      BY ONLY <1>10, <2>2, Zenon DEF IsRange
    <3>2. ch[s] \in E
      BY <1>2, <2>2, Zenon
    <3>3. step[ch[s]][G[s \ {ch[s]}]] = ApplyInRange(G[s \ {ch[s]}], ch[s])
      BY <1>4, <2>2, <3>2, Zenon
    <3> QED
      BY <1>3, <3>1, <3>3, Zenon
  <2> QED
    BY <2>1, <2>2, Zenon DEF FoldsWithin
<1>12. IsFold(G, E, base, ch, step) /\ \A s \in SUBSET E : G[s] \in RangeBalance
  BY <1>1, <1>2, <1>5, <1>6, <1>11, FoldOf, Zenon
<1>13. lowestInRange(b0, E) = G[E]
  BY <1>10, RangeUnfolded, Zenon
<1> QED
  BY <1>12, <1>13, Zenon DEF base, ch, step

\* The lowest balance of a period, likewise.
LEMMA RangeStep ==
  ASSUME NEW b0 \in Nat, NEW E \in SUBSET Link, IsFiniteSet(E)
  PROVE  /\ lowestInRange(b0, E) \in RangeBalance
         /\ E = {} => lowestInRange(b0, E) = [ok |-> TRUE, balance |-> b0, least |-> b0]
         /\ E # {} => lowestInRange(b0, E)
                        = ApplyInRange(lowestInRange(b0, E \ {LastEvent(E)}), LastEvent(E))
<1> DEFINE base == [ok |-> TRUE, balance |-> b0, least |-> b0]
           ch == LastOf(E)
           step == ApplyingInRange(E)
<1>1. \A s \in SUBSET E : ch[s] = LastEvent(s)
  BY Zenon DEF LastOf
<1>2. \A s \in SUBSET E : s # {} => ch[s] \in s
  <2>1. \A s \in SUBSET E : s \in SUBSET Link /\ IsFiniteSet(s)
    BY FS_Subset
  <2> QED
    BY <1>1, <2>1, LastEventFacts, Zenon
<1>3. \A l \in E : \A b \in RangeBalance : step[l][b] = ApplyInRange(b, l)
  BY Zenon DEF ApplyingInRange
<1>4. PICK G : /\ IsFold(G, E, base, ch, step) /\ \A s \in SUBSET E : G[s] \in RangeBalance
               /\ lowestInRange(b0, E) = G[E]
  <2>1. E \in SUBSET E
    OBVIOUS
  <2> QED
    BY <2>1, RangeIsFold, Zenon
<1>5. lowestInRange(b0, E) \in RangeBalance
  BY <1>4, Zenon
<1> HIDE DEF ch, step, base
<1>6. CASE E = {}
  <2>1. G[E] = base
    BY ONLY <1>4, <1>6, Zenon DEF IsFold
  <2> QED
    BY <1>4, <1>5, <1>6, <2>1, Zenon DEF base
<1>7. CASE E # {}
  <2>1. PICK c : c = LastEvent(E)
    OBVIOUS
  <2>2. c \in E /\ c = ch[E]
    BY <1>1, <1>2, <1>7, <2>1, Zenon
  <2>3. PICK E1 : E1 = E \ {c}
    BY Zenon
  <2>4. E1 \in SUBSET E /\ E \in SUBSET E /\ E1 \in SUBSET (E \cap E1)
    BY <2>3, Zenon
  <2>5. G[E] = step[c][G[E1]]
    BY ONLY <1>4, <1>7, <2>2, <2>3, Zenon DEF IsFold
  <2>6. PICK G1 : /\ IsFold(G1, E1, base, ch, step) /\ lowestInRange(b0, E1) = G1[E1]
    BY <2>4, RangeIsFold, Zenon DEF ch, step, base
  <2>7. G[E1] = G1[E1]
    BY <1>2, <1>4, <2>4, <2>6, FoldUnique, SMTT(20)
  <2>8. step[c][G[E1]] = ApplyInRange(G[E1], c)
    BY <1>3, <1>4, <2>2, <2>4, Zenon
  <2> QED
    BY <1>4, <1>5, <1>7, <2>1, <2>3, <2>5, <2>6, <2>7, <2>8, Zenon
<1> QED
  BY <1>6, <1>7, Zenon

\* Any events of a party are finitely many, and have a last one.
LEMMA EventsFacts ==
  ASSUME NEW ls \in SUBSET Link, IsFiniteSet(ls), NEW p, NEW S \in SUBSET Events(ls, p)
  PROVE  /\ S \in SUBSET ls /\ S \in SUBSET Link /\ IsFiniteSet(S)
         /\ S # {} => LastEvent(S) \in S /\ \A k \in S : ~ EventBefore(LastEvent(S), k)
<1>1. S \in SUBSET ls /\ S \in SUBSET Link
  BY Zenon DEF Events
<1>2. IsFiniteSet(S)
  BY <1>1, FS_Subset, Zenon
<1> QED
  BY <1>1, <1>2, LastEventFacts, Zenon

-----------------------------------------------------------------------------
(* Nominating and withdrawing nominations.                                 *)

\* h is f, with d more at n.
Bumps(h, f, D, n, d) == \A x \in D : h[x] = IF x = n THEN f[x] + d ELSE f[x]

\* A change of one term by d changes the sum by d.
LEMMA SumBump ==
  ASSUME NEW D, IsFiniteSet(D), NEW f \in [D -> Int], NEW h \in [D -> Int], NEW n \in D,
         NEW d \in Int, Bumps(h, f, D, n, d)
  PROVE  SumOf(h) = SumOf(f) + d
<1>1. PICK R : R = D \ {n}
  BY Zenon
<1>2. D \in SUBSET D /\ R \in SUBSET D
  BY <1>1, Zenon
<1>3. SumOver(h, D) = h[n] + SumOver(h, R) /\ SumOver(f, D) = f[n] + SumOver(f, R)
  BY <1>1, <1>2, SumRemove, SMTT(20)
<1>4. SumOver(h, R) = SumOver(f, R)
  <2>1. \A x \in R : h[x] = f[x]
    BY <1>1, Zenon DEF Bumps
  <2> QED
    BY <2>1, SumSame, SMTT(20)
<1>5. h[n] = f[n] + d
  BY Zenon DEF Bumps
<1>6. SumOver(f, R) \in Int /\ f[n] \in Int
  BY <1>2, SumInt, Zenon
<1>7. SumOver(h, D) = SumOver(f, D) + d
  BY <1>3, <1>4, <1>5, <1>6
<1> QED
  BY <1>7, SumOfType, Zenon

\* w is ds, with s as the state of p.
Replaces(w, ds, p, s) ==
  \/ w = WithParty(ds, p, s)
  \/ p \in DOMAIN ds /\ w = [ds EXCEPT ![p] = s]

\* A delegation state stays one when a party gets another state, or loses its own.
LEMMA DelegationWith ==
  ASSUME NEW V \in SUBSET Node, NEW ds, IsDelegation(ds, V), NEW p \in Party, NEW s, IsState(s, V),
         NEW w, Replaces(w, ds, p, s)
  PROVE  IsDelegation(w, V) /\ DOMAIN w = DOMAIN ds \cup {p}
<1>1. PICK D : D = DOMAIN ds \cup {p}
  BY Zenon
<1>2. w = [q \in D |-> IF q = p THEN s ELSE ds[q]]
  <2>1. CASE w = WithParty(ds, p, s)
    BY <1>1, <2>1, Zenon DEF WithParty
  <2>2. CASE p \in DOMAIN ds /\ w = [ds EXCEPT ![p] = s]
    <3>1. D = DOMAIN ds
      BY <1>1, <2>2, Zenon
    <3>2. [ds EXCEPT ![p] = s] = [q \in DOMAIN ds |-> IF q = p THEN s ELSE ds[q]]
      BY <2>2, Zenon
    <3> QED
      BY <2>2, <3>1, <3>2, Zenon
  <2> QED
    BY <2>1, <2>2, Zenon DEF Replaces
<1>3. DOMAIN w = D /\ w = [q \in D |-> w[q]]
  BY <1>2, Zenon
<1>4. D \in SUBSET Party /\ IsFiniteSet(D)
  BY <1>1, FS_AddElement, Zenon DEF IsDelegation
<1>5. ASSUME NEW q \in D PROVE IsState(w[q], V)
  <2>1. CASE q = p
    BY <1>2, <2>1, Zenon
  <2>2. CASE q # p
    <3>1. q \in DOMAIN ds /\ w[q] = ds[q]
      BY <1>1, <1>2, <2>2, Zenon
    <3> QED
      BY <3>1, Zenon DEF IsDelegation
  <2> QED
    BY <2>1, <2>2, Zenon
<1>6. IsDelegation(w, V)
  BY <1>3, <1>4, <1>5, Zenon DEF IsDelegation
<1> QED
  BY <1>1, <1>3, <1>6, Zenon

\* The nominations of some of the parties are nominations.
LEMMA DelegationOn ==
  ASSUME NEW V \in SUBSET Node, NEW ds, IsDelegation(ds, V), NEW D \in SUBSET DOMAIN ds,
         NEW w, w = [q \in D |-> ds[q]]
  PROVE  IsDelegation(w, V)
<1>2. w = [q \in D |-> w[q]] /\ DOMAIN w = D /\ \A q \in D : w[q] = ds[q]
  BY Zenon
<1>3. IsFiniteSet(DOMAIN ds) /\ D \in SUBSET Party /\ \A q \in D : IsState(ds[q], V)
  BY Zenon DEF IsDelegation
<1>4. IsFiniteSet(D)
  BY <1>3, FS_Subset, Zenon
<1>5. \A q \in D : IsState(w[q], V)
  BY <1>2, <1>3, Zenon
<1> QED
  BY <1>2, <1>3, <1>4, <1>5, Zenon DEF IsDelegation

\* Delegation states that may have entries of zero, as setPending has them on the way.
IsSums(s) ==
  /\ s = [total |-> s.total, on |-> s.on]
  /\ s.on \in [DOMAIN s.on -> Nat] /\ DOMAIN s.on \in SUBSET Node
  /\ s.total = SumOf(s.on)

IsLoose(ds) ==
  /\ ds = [p \in DOMAIN ds |-> ds[p]] /\ DOMAIN ds \in SUBSET Party
  /\ \A p \in DOMAIN ds : IsSums(ds[p])

\* Nominations without zeros are nominations that may have them.
LEMMA DelegationIsLoose ==
  ASSUME NEW V \in SUBSET Node, NEW ds, IsDelegation(ds, V)
  PROVE  IsLoose(ds)
<1>1. ASSUME NEW p \in DOMAIN ds PROVE IsSums(ds[p])
  <2>1. IsState(ds[p], V)
    BY Zenon DEF IsDelegation
  <2>2. ds[p].on \in [DOMAIN ds[p].on -> Nat]
    BY <2>1, StateFacts, Zenon
  <2> QED
    BY <2>1, <2>2, Zenon DEF IsState, IsSums
<1> QED
  BY <1>1, Zenon DEF IsDelegation, IsLoose

\* The types of a party's nominations when some of them may be zero.
LEMMA SumsFacts ==
  ASSUME NEW s, IsSums(s)
  PROVE  /\ IsFiniteSet(DOMAIN s.on) /\ s.on \in [DOMAIN s.on -> Int] /\ s.total \in Nat
         /\ \A n \in DOMAIN s.on : s.on[n] \in Nat /\ s.on[n] <= s.total
<1>1. PICK D, on : D = DOMAIN s.on /\ on = s.on
  OBVIOUS
<1>2. on \in [D -> Nat] /\ D \in SUBSET Node /\ s.total = SumOf(on)
  BY <1>1, Zenon DEF IsSums
<1>3. IsFiniteSet(D)
  BY <1>2, DelegationAssumption, FS_Subset, Zenon
<1>4. SumOf(on) \in Nat /\ \A n \in D : on[n] <= SumOf(on)
  BY <1>2, <1>3, SumOfNat, Zenon
<1>5. on \in [D -> Int] /\ \A n \in D : on[n] \in Nat
  BY <1>2
<1> QED
  BY <1>1, <1>2, <1>3, <1>4, <1>5, Zenon

\* The nominations of a party, on more nodes: none of those it has no entry for.
LEMMA OnFacts ==
  ASSUME NEW ds, IsLoose(ds), NEW p, NEW E \in SUBSET Node,
         p \in DOMAIN ds => DOMAIN ds[p].on \in SUBSET E,
         NEW f, f = [m \in E |-> On(ds, p, m)]
  PROVE  /\ IsFiniteSet(E) /\ f \in [E -> Nat] /\ SumOf(f) = Total(ds, p)
         /\ Total(ds, p) \in Nat
<1>1. IsFiniteSet(E)
  BY DelegationAssumption, FS_Subset, Zenon
<1>2. CASE p \notin DOMAIN ds
  <2>1. \A m \in E : f[m] = 0
    BY <1>2, Zenon DEF On
  <2>2. f \in [E -> Nat] /\ f = [m \in E |-> f[m]]
    BY <2>1
  <2>3. SumOver(f, E) = 0 /\ SumOf(f) = SumOver(f, E)
    BY <1>1, <2>1, <2>2, SumZeros, SumOfAll, Zenon
  <2>4. Total(ds, p) = 0 /\ 0 \in Nat
    BY <1>2 DEF Total
  <2> QED
    BY <1>1, <2>2, <2>3, <2>4, Zenon
<1>3. CASE p \in DOMAIN ds
  <2>1. PICK s, D, on : s = ds[p] /\ on = s.on /\ D = DOMAIN s.on
    OBVIOUS
  <2>2. IsSums(s)
    BY <1>3, <2>1, Zenon DEF IsLoose
  <2>3. on \in [D -> Nat] /\ s.total = SumOf(on) /\ s.total \in Nat /\ D \in SUBSET E
    <3>1. s.total \in Nat
      BY <2>2, SumsFacts, Zenon
    <3>2. on \in [D -> Nat] /\ s.total = SumOf(on)
      BY <2>1, <2>2, Zenon DEF IsSums
    <3> QED
      BY <1>3, <2>1, <3>1, <3>2, Zenon
  <2>4. \A m \in E : f[m] = IF m \in D THEN on[m] ELSE 0
    BY <1>3, <2>1, Zenon DEF On
  <2>5. \A m \in E : f[m] \in Nat
    <3>1. ASSUME NEW m \in E PROVE f[m] \in Nat
      BY <2>3, <2>4
    <3> QED
      BY <3>1, Zenon
  <2>6. f \in [E -> Nat] /\ f \in [E -> Int]
    BY <2>5
  <2>7. \A m \in E \ D : f[m] = 0
    BY <2>4, Zenon
  <2>8. SumOf([m \in D |-> f[m]]) = SumOf(f)
    BY <1>1, <2>3, <2>6, <2>7, SumOfNonZero, SMTT(20)
  <2>9. [m \in D |-> f[m]] = on
    <3>1. \A m \in D : f[m] = on[m]
      BY <2>3, <2>4, Zenon
    <3> QED
      BY <2>3, <3>1
  <2>10. Total(ds, p) = s.total
    BY <1>3, <2>1, Zenon DEF Total
  <2> QED
    BY <1>1, <2>3, <2>6, <2>8, <2>9, <2>10, Zenon
<1> QED
  BY <1>2, <1>3, Zenon

\* What a party nominates on a node is a natural number.
LEMMA OnIsNat ==
  ASSUME NEW V \in SUBSET Node, NEW ds, IsDelegation(ds, V), NEW p, NEW n
  PROVE  On(ds, p, n) \in Nat
<1>1. CASE p \in DOMAIN ds /\ n \in DOMAIN ds[p].on
  <2>1. IsState(ds[p], V)
    BY <1>1, Zenon DEF IsDelegation
  <2>2. ds[p].on[n] \in Nat \ {0}
    BY <1>1, <2>1, StateFacts, Zenon
  <2>3. On(ds, p, n) = ds[p].on[n]
    BY <1>1, Zenon DEF On
  <2> QED
    BY <2>2, <2>3
<1>2. CASE ~(p \in DOMAIN ds /\ n \in DOMAIN ds[p].on)
  <2>1. On(ds, p, n) = 0
    BY <1>2, Zenon DEF On
  <2> QED
    BY <2>1
<1> QED
  BY <1>1, <1>2, Zenon

\* r is ds with amt more for p on n: its nodes are E, and it has h on them.
Increases(r, ds, p, n, amt, E, h) ==
  /\ E \in SUBSET Node /\ n \in E
  /\ p \in DOMAIN ds => E = DOMAIN ds[p].on \cup {n}
  /\ p \notin DOMAIN ds => E = {n}
  /\ h \in [E -> Nat] /\ \A m \in E : h[m] = On(ds, p, m) + (IF m = n THEN amt ELSE 0)
  /\ r = WithParty(ds, p, [total |-> SumOf(h), on |-> h])
  /\ SumOf(h) \in Nat /\ amt <= SumOf(h)

\* increase adds the amount on the one node, and the total stays the sum.
LEMMA IncreasedState ==
  ASSUME NEW ds, IsLoose(ds), NEW p \in Party, NEW n \in Node, NEW amt \in Nat,
         NEW r, r = increase(ds, p, n, amt)
  PROVE  \E E, h : Increases(r, ds, p, n, amt, E, h)
<1>1. PICK old, D, E : /\ old = (IF p \in DOMAIN ds THEN ds[p].on ELSE << >>)
                       /\ D = DOMAIN old /\ E = D \cup {n}
  BY Zenon
<1>2. PICK f, h, t : /\ f = [m \in E |-> On(ds, p, m)] /\ t = Total(ds, p)
                     /\ h = [m \in E |-> On(ds, p, m) + (IF m = n THEN amt ELSE 0)]
  BY Zenon
<1>3. r = WithParty(ds, p, [total |-> t + amt, on |-> h])
  BY <1>1, <1>2, Zenon DEF increase
<1>4. /\ p \in DOMAIN ds => D = DOMAIN ds[p].on /\ D \in SUBSET Node
      /\ p \notin DOMAIN ds => D = {}
  <2>1. CASE p \in DOMAIN ds
    <3>1. D = DOMAIN ds[p].on
      BY <1>1, <2>1, Zenon
    <3>2. IsSums(ds[p])
      BY <2>1, Zenon DEF IsLoose
    <3> QED
      BY <2>1, <3>1, <3>2, Zenon DEF IsSums
  <2>2. CASE p \notin DOMAIN ds
    <3>1. old = << >>
      BY <1>1, <2>2, Zenon
    <3>2. D = {}
      BY <1>1, <3>1
    <3> QED
      BY <2>2, <3>2, Zenon
  <2> QED
    BY <2>1, <2>2, Zenon
<1>5. /\ E \in SUBSET Node /\ n \in E /\ (p \in DOMAIN ds => DOMAIN ds[p].on \in SUBSET E)
      /\ p \in DOMAIN ds => E = DOMAIN ds[p].on \cup {n}
      /\ p \notin DOMAIN ds => E = {n}
  BY <1>1, <1>4, Zenon
<1>6. IsFiniteSet(E) /\ f \in [E -> Nat] /\ SumOf(f) = t /\ t \in Nat
  BY <1>2, <1>5, OnFacts, SMTT(20)
<1>7. \A m \in E : h[m] = IF m = n THEN f[m] + amt ELSE f[m]
  <2>1. ASSUME NEW m \in E PROVE h[m] = IF m = n THEN f[m] + amt ELSE f[m]
    <3>1. h[m] = f[m] + (IF m = n THEN amt ELSE 0) /\ f[m] \in Nat
      BY <1>2, <1>6
    <3> QED
      BY <3>1
  <2> QED
    BY <2>1, Zenon
<1>8. \A m \in E : h[m] \in Nat
  BY <1>6, <1>7
<1>9. h \in [E -> Nat] /\ h \in [E -> Int] /\ f \in [E -> Int]
  BY <1>2, <1>6, <1>8
<1>10. SumOf(h) = t + amt
  <2>1. Bumps(h, f, E, n, amt)
    BY <1>7, Zenon DEF Bumps
  <2>2. amt \in Int
    OBVIOUS
  <2>3. SumOf(h) = SumOf(f) + amt
    BY <1>5, <1>6, <1>9, <2>1, <2>2, SumBump, SMTT(20)
  <2> QED
    BY <1>6, <2>3, Zenon
<1>11. t + amt \in Nat /\ amt <= t + amt
  BY <1>6
<1>12. \A m \in E : h[m] = On(ds, p, m) + (IF m = n THEN amt ELSE 0)
  BY <1>2, Zenon
<1> QED
  BY <1>3, <1>5, <1>9, <1>10, <1>11, <1>12, Zenon DEF Increases

\* increase, by a positive amount on a known node, keeps nominations sound.
LEMMA IncreaseFacts ==
  ASSUME NEW V \in SUBSET Node, NEW ds, IsDelegation(ds, V), NEW p \in Party, NEW n \in V,
         NEW amt \in Nat \ {0}, NEW r, r = increase(ds, p, n, amt)
  PROVE  IsDelegation(r, V) /\ DOMAIN r \in SUBSET (DOMAIN ds \cup {p})
<1>1. n \in Node /\ amt \in Nat /\ IsLoose(ds)
  <2>1. n \in Node /\ amt \in Nat
    OBVIOUS
  <2> QED
    BY <2>1, DelegationIsLoose, Zenon
<1>2. PICK E, h : Increases(r, ds, p, n, amt, E, h)
  BY <1>1, IncreasedState, Zenon
<1>3. /\ n \in E /\ h \in [E -> Nat] /\ SumOf(h) \in Nat /\ amt <= SumOf(h)
      /\ r = WithParty(ds, p, [total |-> SumOf(h), on |-> h])
  BY <1>2, Zenon DEF Increases
<1>4. E \in SUBSET V
  <2>1. CASE p \in DOMAIN ds
    <3>1. IsState(ds[p], V)
      BY <2>1, Zenon DEF IsDelegation
    <3> QED
      BY <1>2, <2>1, <3>1, Zenon DEF Increases, IsState
  <2>2. CASE p \notin DOMAIN ds
    BY <1>2, <2>2, Zenon DEF Increases
  <2> QED
    BY <2>1, <2>2, Zenon
<1>5. ASSUME NEW m \in E PROVE h[m] # 0
  <2>1. PICK x \in Nat : x = On(ds, p, m)
    BY OnIsNat, Zenon
  <2>2. h[m] = x + (IF m = n THEN amt ELSE 0)
    BY <1>2, <2>1, Zenon DEF Increases
  <2>3. CASE m = n
    BY <2>2, <2>3
  <2>4. CASE m # n
    <3>1. p \in DOMAIN ds /\ m \in DOMAIN ds[p].on
      BY <1>2, <2>4, Zenon DEF Increases
    <3>2. IsState(ds[p], V)
      BY <3>1, Zenon DEF IsDelegation
    <3>3. ds[p].on[m] \in Nat \ {0}
      BY <3>1, <3>2, StateFacts, Zenon
    <3>4. x = ds[p].on[m]
      BY <2>1, <3>1, Zenon DEF On
    <3> QED
      BY <2>2, <2>4, <3>3, <3>4
  <2> QED
    BY <2>3, <2>4, Zenon
<1>6. PICK s : s = [total |-> SumOf(h), on |-> h]
  BY Zenon
<1>7. IsState(s, V)
  <2>1. E = {m \in E : h[m] # 0} /\ [m \in E |-> h[m]] = h
    BY <1>3, <1>5
  <2>2. SumOf(h) # 0
    BY <1>3
  <2>3. s = [total |-> SumOf(h), on |-> [m \in E |-> h[m]]]
    BY <1>6, <2>1, Zenon
  <2> QED
    BY <1>3, <1>4, <2>1, <2>2, <2>3, MakeState, Zenon
<1>8. Replaces(r, ds, p, s)
  BY <1>3, <1>6, Zenon DEF Replaces
<1>9. IsDelegation(r, V) /\ DOMAIN r = DOMAIN ds \cup {p}
  BY <1>7, <1>8, DelegationWith, SMTT(20)
<1> QED
  BY <1>9, Zenon

\* u is s with amt less on n: it has h on its nodes.
Decreases(u, s, n, amt, h) ==
  /\ h \in [DOMAIN s.on -> Nat]
  /\ \A m \in DOMAIN s.on : h[m] = IF m = n THEN s.on[m] + (-amt) ELSE s.on[m]
  /\ u = [total |-> SumOf(h), on |-> h]

\* Decreased takes the amount off the one node, and the total stays the sum.
LEMMA DecreasedState ==
  ASSUME NEW s, IsSums(s), NEW n, NEW amt \in Nat, amt <= OnNode(s, n),
         NEW u, u = Decreased(s, n, amt)
  PROVE  \E h : Decreases(u, s, n, amt, h)
<1>1. PICK D, on : on = s.on /\ D = DOMAIN s.on
  OBVIOUS
<1>2. /\ IsFiniteSet(D) /\ on \in [D -> Int] /\ s.total \in Nat /\ s.total = SumOf(on)
      /\ \A m \in D : on[m] \in Nat /\ on[m] <= s.total
  <2>1. s.total = SumOf(on)
    BY <1>1, Zenon DEF IsSums
  <2> QED
    BY <1>1, <2>1, SumsFacts, Zenon
<1>3. (n \in D /\ amt <= on[n] /\ on[n] \in Nat) \/ (n \notin D /\ amt = 0)
  <2>1. CASE n \in D
    <3>1. amt <= on[n]
      BY <1>1, <2>1, Zenon DEF OnNode
    <3> QED
      BY <1>2, <2>1, <3>1, Zenon
  <2>2. CASE n \notin D
    <3>1. amt <= 0
      BY <1>1, <2>2, Zenon DEF OnNode
    <3>2. amt = 0
      BY <3>1
    <3> QED
      BY <2>2, <3>2, Zenon
  <2> QED
    BY <2>1, <2>2, Zenon
<1>4. amt <= s.total
  <2>1. CASE n \in D
    <3>1. amt <= on[n] /\ on[n] \in Nat /\ on[n] <= s.total
      BY <1>2, <1>3, <2>1, Zenon
    <3> QED
      BY <1>2, <3>1
  <2>2. CASE n \notin D
    <3>1. amt = 0
      BY <1>3, <2>2, Zenon
    <3> QED
      BY <1>2, <3>1
  <2> QED
    BY <2>1, <2>2, Zenon
<1>5. PICK h : h = [m \in D |-> IF m = n THEN Larger(on[m] - amt, 0) ELSE on[m]]
  BY Zenon
<1>6. PICK t : t = s.total - amt
  OBVIOUS
<1>7. t \in Nat /\ Larger(s.total - amt, 0) = t
  <2>1. t \in Nat
    BY <1>2, <1>4, <1>6
  <2>2. ~(t > 0) => t = 0
    BY <2>1
  <2> QED
    BY <1>6, <2>1, <2>2, Zenon DEF Larger
<1>8. ASSUME NEW m \in D
      PROVE  h[m] = (IF m = n THEN on[m] + (-amt) ELSE on[m]) /\ h[m] \in Nat
  <2>1. CASE m = n
    <3>1. PICK x \in Nat : x = on[m] /\ amt <= x
      BY <1>3, <2>1, Zenon
    <3>2. h[m] = IF x - amt > 0 THEN x - amt ELSE 0
      BY <1>5, <2>1, <3>1, Zenon DEF Larger
    <3>3. h[m] = x + (-amt) /\ h[m] \in Nat
      BY <3>1, <3>2
    <3> QED
      BY <2>1, <3>1, <3>3, Zenon
  <2>2. CASE m # n
    BY <1>2, <1>5, <2>2, Zenon
  <2> QED
    BY <2>1, <2>2, Zenon
<1>9. h \in [D -> Nat] /\ h \in [D -> Int]
  BY <1>5, <1>8
<1>10. SumOf(h) = t
  <2>1. CASE n \in D
    <3>1. -amt \in Int
      OBVIOUS
    <3>2. Bumps(h, on, D, n, -amt)
      BY <1>8, Zenon DEF Bumps
    <3>3. SumOf(h) = SumOf(on) + (-amt)
      BY <1>2, <1>9, <2>1, <3>1, <3>2, SumBump, SMTT(20)
    <3> QED
      BY <1>2, <1>6, <3>3
  <2>2. CASE n \notin D
    <3>1. \A m \in D : h[m] = on[m]
      BY <1>5, <2>2, Zenon
    <3>2. h = on
      BY <1>2, <1>9, <3>1, SMTT(30)
    <3>3. amt = 0
      BY <1>3, <2>2, Zenon
    <3> QED
      BY <1>2, <1>6, <3>2, <3>3
  <2> QED
    BY <2>1, <2>2, Zenon
<1>11. u = [total |-> SumOf(h), on |-> h]
  BY <1>1, <1>5, <1>7, <1>10, Zenon DEF Decreased
<1> QED
  BY <1>1, <1>8, <1>9, <1>11, Zenon DEF Decreases

\* decreaseBalance, by at most what is there, keeps nominations sound.
LEMMA DecreaseFacts ==
  ASSUME NEW V \in SUBSET Node, NEW ds, IsDelegation(ds, V), NEW p \in Party, NEW n,
         NEW amt \in Nat, amt <= On(ds, p, n), NEW r, r = decreaseBalance(ds, p, n, amt)
  PROVE  IsDelegation(r, V) /\ DOMAIN r \in SUBSET DOMAIN ds
<1>1. CASE p \notin DOMAIN ds
  <2>1. r = ds
    BY <1>1, Zenon DEF decreaseBalance
  <2> QED
    BY <2>1, Zenon
<1>2. CASE p \in DOMAIN ds
  <2>1. PICK s, D, u : s = ds[p] /\ D = DOMAIN s.on /\ u = Decreased(s, n, amt)
    OBVIOUS
  <2>2. IsState(s, V) /\ IsSums(s)
    BY <1>2, <2>1, DelegationIsLoose, Zenon DEF IsDelegation, IsLoose
  <2>3. amt <= OnNode(s, n)
    BY <1>2, <2>1, Zenon DEF On, OnNode
  <2>4. PICK h : Decreases(u, s, n, amt, h)
    BY <2>1, <2>2, <2>3, DecreasedState, Zenon
  <2>5. /\ h \in [D -> Nat] /\ \A m \in D : h[m] = IF m = n THEN s.on[m] + (-amt) ELSE s.on[m]
        /\ u = [total |-> SumOf(h), on |-> h]
    BY <2>1, <2>4, Zenon DEF Decreases
  <2>6. u.total = SumOf(h) /\ u.on = h /\ DOMAIN h = D
    BY <2>5
  <2>7. PICK A : A = {m \in D : m # n \/ h[m] # 0}
    BY Zenon
  <2>8. A = {m \in D : h[m] # 0} /\ D \in SUBSET V
    <3>1. \A m \in D : s.on[m] # 0
      <4>1. \A m \in D : s.on[m] \in Nat \ {0}
        BY <2>1, <2>2, StateFacts, Zenon
      <4> QED
        BY <4>1
    <3>2. \A m \in D : m # n => h[m] # 0
      BY <2>5, <3>1, Zenon
    <3> QED
      BY <2>1, <2>2, <2>7, <3>2, Zenon DEF IsState
  <2>9. CASE SumOf(h) = 0
    <3>1. r = [q \in DOMAIN ds \ {p} |-> ds[q]]
      BY <1>2, <2>1, <2>6, <2>9, Zenon DEF decreaseBalance, Restrict
    <3>2. DOMAIN ds \ {p} \in SUBSET DOMAIN ds
      BY Zenon
    <3>3. DOMAIN r = DOMAIN ds \ {p}
      BY <3>1, Zenon
    <3> QED
      BY <3>1, <3>2, <3>3, DelegationOn, Zenon
  <2>10. CASE SumOf(h) # 0
    <3>1. PICK v : v = [total |-> SumOf(h), on |-> [m \in A |-> h[m]]]
      BY Zenon
    <3>2. [u EXCEPT !.on = [m \in A |-> h[m]]] = v
      BY <2>5, <3>1
    <3>3. r = [ds EXCEPT ![p] = v]
      <4>1. r = [ds EXCEPT ![p] = [u EXCEPT !.on = Restrict(u.on,
                          {m \in DOMAIN u.on : m # n \/ u.on[m] # 0})]]
        BY <1>2, <2>1, <2>6, <2>10, Zenon DEF decreaseBalance
      <4>2. Restrict(u.on, {m \in DOMAIN u.on : m # n \/ u.on[m] # 0}) = [m \in A |-> h[m]]
        BY <2>6, <2>7, Zenon DEF Restrict
      <4> QED
        BY <3>2, <4>1, <4>2, Zenon
    <3>4. IsState(v, V)
      BY <2>5, <2>8, <2>10, <3>1, MakeState, Zenon
    <3>5. IsDelegation(r, V) /\ DOMAIN r = DOMAIN ds \cup {p}
      <4>1. Replaces(r, ds, p, v)
        BY <1>2, <3>3, Zenon DEF Replaces
      <4> QED
        BY <3>4, <4>1, DelegationWith, SMTT(20)
    <3> QED
      BY <1>2, <3>5, Zenon
  <2> QED
    BY <2>9, <2>10, Zenon
<1> QED
  BY <1>1, <1>2, Zenon

-----------------------------------------------------------------------------
(* Auto delegation.                                                        *)

\* Products of integers.
LEMMA Commute ==
  ASSUME NEW a \in Int, NEW b \in Int, NEW c \in Int
  PROVE  a * b = b * a /\ a * b \in Int /\ (a * b) * c = a * (b * c) /\ (a + b) * c = a * c + b * c
OBVIOUS

\* What auto delegation adds on a node, from the rounding of its quotient.
LEMMA AutoShareBound ==
  ASSUME NEW x \in Nat, NEW T \in Nat \ {0}, NEW av \in Nat, NEW q, q = Quotient(x, T),
         NEW sh, sh = (q * av) \div Scale
  PROVE  /\ sh \in Nat
         /\ ((2 * T) * Scale) * sh <= ((2 * Scale) * av) * x + (T * av) * 1
<1>1. PICK S \in Nat \ {0} : S = Scale
  BY DelegationAssumption, Zenon
<1>2. PICK u \in Nat, w \in Nat \ {0} : u = 2 * x * S + T /\ w = 2 * T
  <2>1. 2 * x \in Nat
    OBVIOUS
  <2>2. 2 * x * S \in Nat
    BY <2>1
  <2>3. 2 * x * S + T \in Nat /\ 2 * T \in Nat \ {0}
    BY <2>2
  <2> QED
    BY <2>3, Zenon
<1>3. q = u \div w
  BY <1>1, <1>2, Zenon DEF Quotient
<1>4. q \in Nat /\ q * w <= u
  BY <1>3, DivFacts, SMTT(20)
<1>5. PICK y \in Nat : y = q * av
  BY <1>4, MulLeq
<1>6. sh \in Nat /\ sh * S <= y
  BY <1>1, <1>5, DivFacts, SMTT(20)
<1>7. w * (sh * S) <= w * y
  <2>1. sh * S \in Nat /\ w \in Nat
    BY <1>6
  <2> QED
    BY <1>5, <1>6, <2>1, MulLeq, SMTT(20)
<1>8. (q * w) * av <= u * av
  <2>1. q * w \in Nat
    BY <1>4
  <2> QED
    BY <1>2, <1>4, <2>1, MulLeq, SMTT(20)
<1>9. w * y = (q * w) * av
  <2>1. w * y = w * (q * av) /\ q \in Int /\ w \in Int /\ av \in Int
    BY <1>4, <1>5
  <2>2. w * (q * av) = (w * q) * av /\ w * q = q * w
    BY <2>1, Commute, SMTT(20)
  <2> QED
    BY <2>1, <2>2, Zenon
<1>10. w * (sh * S) = (w * S) * sh
  <2>1. w \in Int /\ sh \in Int /\ S \in Int
    BY <1>6
  <2>2. sh * S = S * sh /\ (w * S) * sh = w * (S * sh)
    BY <2>1, Commute, SMTT(20)
  <2> QED
    BY <2>2, Zenon
<1>11. u * av = ((2 * S) * av) * x + (T * av) * 1
  <2>1. PICK z \in Int : z = 2 * x * S
    OBVIOUS
  <2>2. u * av = z * av + T * av
    BY <1>2, <2>1
  <2>3. z * av = ((2 * S) * av) * x
    <3>1. z = (2 * S) * x /\ 2 * S \in Int /\ x \in Int /\ av \in Int
      BY <2>1
    <3>2. PICK k \in Int : k = 2 * S
      BY <3>1, Zenon
    <3>3. (k * x) * av = k * (x * av) /\ x * av = av * x /\ (k * av) * x = k * (av * x)
      BY <3>1, Commute, SMTT(20)
    <3> QED
      BY <3>1, <3>2, <3>3, Zenon
  <2>4. (T * av) * 1 = T * av
    BY <1>1
  <2> QED
    BY <2>2, <2>3, <2>4, Zenon
<1>12. PICK l \in Int, m \in Int, g \in Int : /\ l = (w * S) * sh /\ m = w * y
                                              /\ g = ((2 * S) * av) * x + (T * av) * 1
  <2>1. w * S \in Int /\ w * y \in Int /\ u * av \in Int
    BY <1>2, <1>5
  <2>2. (w * S) * sh \in Int
    BY <1>6, <2>1
  <2> QED
    BY <1>11, <2>1, <2>2, Zenon
<1>13. l <= m /\ m <= g
  BY <1>7, <1>8, <1>9, <1>10, <1>11, <1>12, Zenon
<1>14. l <= g
  BY <1>13
<1> QED
  BY <1>1, <1>2, <1>6, <1>12, <1>14, Zenon

\* a has at most av more than s, up to half a unit of 1/Scale of av per node.
Rounded(a, s, av) ==
  (2 * Scale) * (a.total - s.total) <= (2 * Scale) * av + Cardinality(DOMAIN s.on) * av

\* What auto-delegation hands out follows the party's proportions, rounded down per node.
LEMMA AutoFacts ==
  ASSUME NEW V \in SUBSET Node, NEW s, IsState(s, V), NEW av \in Nat,
         NEW a, a = AutoDelegated(s, av)
  PROVE  IsState(a, V) /\ DOMAIN a.on = DOMAIN s.on /\ Rounded(a, s, av)
<1>1. PICK D, on, T : D = DOMAIN s.on /\ on = s.on /\ T = s.total
  OBVIOUS
<1>2. /\ IsFiniteSet(D) /\ on \in [D -> Nat] /\ on \in [D -> Int] /\ T \in Nat \ {0}
      /\ D \in SUBSET V /\ D # {} /\ SumOf(on) = T /\ \A n \in D : on[n] \in Nat \ {0}
  <2>1. /\ IsFiniteSet(D) /\ on \in [D -> Nat] /\ T \in Nat \ {0}
        /\ \A n \in D : on[n] \in Nat \ {0}
    BY <1>1, StateFacts, Zenon
  <2>2. SumOf(on) = T /\ D \in SUBSET V /\ D # {}
    BY <1>1, Zenon DEF IsState
  <2>3. on \in [D -> Int]
    BY <2>1
  <2> QED
    BY <2>1, <2>2, <2>3, Zenon
<1>3. PICK S \in Nat \ {0} : S = Scale
  BY DelegationAssumption, Zenon
<1>4. PICK share : share = [n \in D |-> AutoShare(s, av, n)]
  BY Zenon
<1>5. PICK c1 \in Int, c2 \in Int, c3 \in Int : c1 = (2 * T) * S /\ c2 = (2 * S) * av /\ c3 = T * av
  <2>1. 2 * T \in Int /\ 2 * S \in Int
    BY <1>2
  <2>2. (2 * T) * S \in Int /\ (2 * S) * av \in Int /\ T * av \in Int
    BY <1>2, <2>1
  <2> QED
    BY <2>2, Zenon
<1>6. ASSUME NEW n \in D
      PROVE  share[n] \in Nat /\ c1 * share[n] <= c2 * on[n] + c3 * 1
  <2>1. PICK q, sh : q = Quotient(on[n], T) /\ sh = (q * av) \div Scale
    OBVIOUS
  <2>2. share[n] = sh
    BY <1>1, <1>4, <2>1, Zenon DEF AutoShare
  <2>3. PICK x \in Nat : x = on[n]
    BY <1>2, Zenon
  <2>4. /\ sh \in Nat
        /\ ((2 * T) * Scale) * sh <= ((2 * Scale) * av) * x + (T * av) * 1
    BY <1>2, <2>1, <2>3, AutoShareBound, SMTT(20)
  <2> QED
    BY <1>3, <1>5, <2>2, <2>3, <2>4, Zenon
<1>7. share \in [D -> Nat] /\ share \in [D -> Int]
  <2>1. \A n \in D : share[n] \in Nat
    BY <1>6, Zenon
  <2> QED
    BY <1>4, <2>1
<1>8. PICK sum \in Nat : sum = SumOf(share)
  BY <1>2, <1>7, SumOfNat, Zenon
<1>9. PICK h : h = [n \in D |-> on[n] + share[n]]
  BY Zenon
<1>10. SumOf(h) = T + sum
  BY <1>2, <1>7, <1>8, <1>9, SumOfPlus, SMTT(20)
<1>11. a = [total |-> T + sum, on |-> h]
  BY <1>1, <1>4, <1>8, <1>9, Zenon DEF AutoDelegated
<1>12. IsState(a, V)
  <2>1. \A n \in D : h[n] \in Nat \ {0}
    BY <1>2, <1>7, <1>9
  <2>2. h \in [D -> Nat] /\ D = {n \in D : h[n] # 0} /\ h = [n \in D |-> h[n]]
    BY <1>9, <2>1
  <2>3. SumOf(h) # 0
    BY <1>2, <1>8, <1>10
  <2>4. a = [total |-> SumOf(h), on |-> [n \in D |-> h[n]]]
    BY <1>10, <1>11, <2>2, Zenon
  <2> QED
    BY <1>2, <2>2, <2>3, <2>4, MakeState, ZenonT(40)
<1>13. a.total = T + sum /\ DOMAIN a.on = D
  BY <1>9, <1>11
<1>14. PICK C \in Nat : C = Cardinality(D)
  BY <1>2, FS_CardinalityType, Zenon
<1>15. c1 * sum <= c2 * T + c3 * C
  <2>1. PICK ones : ones = [n \in D |-> IF n \in D THEN 1 ELSE 0]
    BY Zenon
  <2>2. ones \in [D -> Int] /\ \A n \in D : ones[n] = 1
    BY <2>1
  <2>3. SumOf(ones) = C
    <3>1. D \in SUBSET D
      OBVIOUS
    <3> QED
      BY <1>2, <1>14, <2>1, <3>1, SumOfOnes, SMTT(20)
  <2>4. PICK l, r : l = [n \in D |-> c1 * share[n] + 0 * share[n]] /\ r = [n \in D |-> c2 * on[n] + c3 * ones[n]]
    BY Zenon
  <2>5. \A n \in D : l[n] = c1 * share[n] /\ l[n] \in Int /\ r[n] \in Int
    <3>1. ASSUME NEW n \in D PROVE l[n] = c1 * share[n] /\ l[n] \in Int /\ r[n] \in Int
      <4>1. PICK x \in Int, y \in Int : x = share[n] /\ y = on[n] /\ ones[n] = 1
        BY <1>2, <1>7, <2>2
      <4>2. l[n] = c1 * x + 0 * x /\ r[n] = c2 * y + c3 * 1
        BY <2>4, <4>1, Zenon
      <4>3. c1 * x \in Int /\ c2 * y \in Int /\ 0 * x = 0 /\ c3 * 1 = c3
        OBVIOUS
      <4> QED
        BY <4>1, <4>2, <4>3, SMTT(30)
    <3> QED
      BY <3>1, Zenon
  <2>6. l \in [D -> Int] /\ r \in [D -> Int]
    BY <2>4, <2>5
  <2>7. \A n \in D : l[n] <= r[n]
    <3>1. ASSUME NEW n \in D PROVE l[n] <= r[n]
      <4>1. l[n] = c1 * share[n] /\ r[n] = c2 * on[n] + c3 * 1
        BY <2>2, <2>4, <2>5, Zenon
      <4> QED
        BY <1>6, <4>1, Zenon
    <3> QED
      BY <3>1, Zenon
  <2>8. SumOf(l) <= SumOf(r)
    BY <1>2, <2>6, <2>7, SumOfLeq, Zenon
  <2>9. 0 \in Int /\ IsCombination(l, D, c1, share, 0, share) /\ IsCombination(r, D, c2, on, c3, ones)
    <3>1. 0 \in Int
      OBVIOUS
    <3> QED
      BY <2>4, <3>1, Zenon DEF IsCombination
  <2>10. SumCombines(l, c1, share, 0, share) /\ SumCombines(r, c2, on, c3, ones)
    BY <1>2, <1>7, <2>2, <2>6, <2>9, SumOfLinear, Zenon
  <2>11. SumOf(l) = c1 * sum + 0 * sum /\ SumOf(r) = c2 * T + c3 * C
    BY <1>2, <1>8, <2>3, <2>10, Zenon DEF SumCombines
  <2>12. c1 * sum + 0 * sum = c1 * sum
    <3>1. c1 * sum \in Int /\ 0 * sum = 0
      OBVIOUS
    <3> QED
      BY <3>1
  <2> QED
    BY <2>8, <2>11, <2>12, Zenon
<1>16. (2 * S) * sum <= (2 * S) * av + C * av
  <2>1. PICK k \in Int : k = 2 * S
    OBVIOUS
  <2>2. PICK u \in Int, w \in Int : u = k * sum /\ w = k * av + C * av
    <3>1. k * sum \in Int /\ k * av \in Int /\ C * av \in Int
      OBVIOUS
    <3>2. k * av + C * av \in Int
      BY <3>1
    <3> QED
      BY <3>1, <3>2, Zenon
  <2>3. c1 * sum = u * T
    <3>1. c1 = k * T /\ T \in Int /\ sum \in Int
      BY <1>2, <1>5, <2>1
    <3>2. (k * T) * sum = k * (T * sum) /\ T * sum = sum * T /\ (k * sum) * T = k * (sum * T)
      BY <3>1, Commute, SMTT(20)
    <3> QED
      BY <2>2, <3>1, <3>2, Zenon
  <2>4. c2 * T + c3 * C = w * T
    <3>1. c2 = k * av /\ c3 = T * av /\ T \in Int /\ C \in Int /\ av \in Int
      BY <1>2, <1>5, <2>1
    <3>2. PICK v \in Int, z \in Int : v = k * av /\ z = C * av
      <4>1. k * av \in Int /\ C * av \in Int
        BY <3>1
      <4> QED
        BY <4>1, Zenon
    <3>3. (v + z) * T = v * T + z * T
      BY <3>1, Commute, SMTT(20)
    <3>4. z * T = c3 * C
      <4>1. (T * av) * C = T * (av * C) /\ av * C = C * av /\ T * (C * av) = (C * av) * T
        <5>1. C * av \in Int
          OBVIOUS
        <5> QED
          BY <3>1, <5>1, Commute, SMTT(20)
      <4> QED
        BY <3>1, <3>2, <4>1, Zenon
    <3> QED
      BY <2>2, <3>1, <3>2, <3>3, <3>4, Zenon
  <2>5. u * T <= w * T
    BY <1>15, <2>3, <2>4, Zenon
  <2>6. u <= w
    <3>1. SUFFICES ASSUME w < u PROVE FALSE
      BY <2>2
    <3>2. w + 1 <= u
      BY <3>1
    <3>3. PICK d \in Nat : u = w + 1 + d
      <4>1. u - (w + 1) \in Nat /\ u = w + 1 + (u - (w + 1))
        BY <3>2, SMTT(30)
      <4> QED
        BY <4>1, Zenon
    <3>4. (w + 1 + d) * T = w * T + T + d * T
      BY <1>2
    <3>5. d * T \in Nat /\ w * T \in Int
      BY <1>2
    <3> QED
      BY <1>2, <2>5, <3>3, <3>4, <3>5, SMTT(30)
  <2> QED
    BY <2>1, <2>2, <2>6, Zenon
<1>17. Rounded(a, s, av)
  <2>1. a.total - s.total = sum
    BY <1>1, <1>2, <1>13
  <2> QED
    BY <1>1, <1>3, <1>14, <1>16, <2>1, Zenon DEF Rounded
<1> QED
  BY <1>1, <1>12, <1>13, <1>17, Zenon

-----------------------------------------------------------------------------
(* The end of an epoch.                                                    *)

\* The balances of a party are natural numbers; there is one if it has an account.
LEMMA BalanceFacts ==
  ASSUME NEW ls \in SUBSET Link, IsFiniteSet(ls), NEW p, NEW from, NEW to
  PROVE  /\ GetAvailableBalance(ls, p).balance \in Nat
         /\ GetAvailableBalance(ls, p).ok <=> HasAccount(ls, p)
         /\ GetAvailableBalanceInRange(ls, p, from, to).balance \in Nat
<1>1. PICK E, A, W : /\ E = Events(ls, p) /\ A = {l \in E : LinkOf[l].ts <= from}
                     /\ W = {l \in E : LinkOf[l].ts > from /\ LinkOf[l].ts <= to}
  BY Zenon
<1>2. /\ E \in SUBSET Link /\ IsFiniteSet(E) /\ A \in SUBSET Link /\ IsFiniteSet(A)
      /\ W \in SUBSET Link /\ IsFiniteSet(W)
  <2>1. E \in SUBSET Events(ls, p) /\ A \in SUBSET Events(ls, p) /\ W \in SUBSET Events(ls, p)
    BY <1>1, Zenon
  <2> QED
    BY <2>1, EventsFacts, Zenon
<1>3. PICK b, c : b = calculateBalance(E) /\ c = calculateBalance(A)
  OBVIOUS
<1>4. b \in Balance /\ c \in Balance
  BY <1>2, <1>3, CalcStep, Zenon
<1>5. b.balance \in Nat /\ c.balance \in Nat
  BY <1>4 DEF Balance
<1>6. PICK g : g = GetAvailableBalance(ls, p)
  OBVIOUS
<1>7. g = [ok |-> HasAccount(ls, p), balance |-> b.balance]
  BY <1>1, <1>3, <1>6, Zenon DEF GetAvailableBalance
<1>8. (g.ok <=> HasAccount(ls, p)) /\ g.balance \in Nat
  BY <1>5, <1>7, Zenon
<1>9. PICK d : d = lowestInRange(c.balance, W)
  OBVIOUS
<1>10. d \in RangeBalance
  BY <1>2, <1>5, <1>9, RangeStep, Zenon
<1>11. d.least \in Nat
  BY <1>10 DEF RangeBalance
<1>12. PICK k : k = GetAvailableBalanceInRange(ls, p, from, to)
  OBVIOUS
<1>13. k = IF HasAccount(ls, p) /\ c.ok /\ d.ok THEN [ok |-> TRUE, balance |-> d.least]
           ELSE [ok |-> FALSE, balance |-> 0]
  BY <1>1, <1>3, <1>9, <1>12, Zenon DEF GetAvailableBalanceInRange, GetAvailableBalanceAt
<1>14. k.balance \in Nat
  BY <1>11, <1>13
<1> QED
  BY <1>6, <1>8, <1>12, <1>14, Zenon

\* Reconciling leaves both delegation states cut down to their stake.
LEMMA ReconciledFacts ==
  ASSUME NEW V \in SUBSET Node, NEW ls \in SUBSET Link, IsFiniteSet(ls), NEW from, NEW to,
         IsDelegation(cur, V), IsDelegation(next, V), NEW r, r = Reconciled(ls, from, to)
  PROVE  /\ IsCutTo(r.cur, cur, StakeInRange(ls, from, to), V)
         /\ IsCutTo(r.next, next, StakeNow(ls), V)
<1>1. PICK a, b : a = StakeInRange(ls, from, to) /\ b = StakeNow(ls)
  OBVIOUS
<1>2. r.cur = reconcile(cur, a) /\ r.next = reconcile(next, b)
  BY <1>1 DEF Reconciled
<1>3. \A p \in Party : a[p].balance \in Nat /\ b[p].balance \in Nat
  <2>1. \A p \in Party : /\ a[p] = GetAvailableBalanceInRange(ls, p, from, to)
                         /\ b[p] = GetAvailableBalance(ls, p)
    BY <1>1, Zenon DEF StakeInRange, StakeNow
  <2> QED
    BY <2>1, BalanceFacts, Zenon
<1>4. HasBalances(cur, a) /\ HasBalances(next, b)
  BY <1>3, Zenon DEF HasBalances, IsDelegation
<1> QED
  BY <1>1, <1>2, <1>4, ReconcileFacts, Zenon

\* A party keeps at most what its stake covers.
LEMMA CutCovers ==
  ASSUME NEW V \in SUBSET Node, NEW ls \in SUBSET Link, IsFiniteSet(ls),
         NEW ds, IsDelegation(ds, V), NEW r, IsCutTo(r, ds, StakeNow(ls), V),
         NEW p \in DOMAIN r, HasAccount(ls, p)
  PROVE  /\ r[p].total \in Nat \ {0} /\ GetAvailableBalance(ls, p).balance \in Nat
         /\ r[p].total <= GetAvailableBalance(ls, p).balance
<1>1. p \in DOMAIN ds /\ p \in Party /\ IsDelegation(r, V)
  BY Zenon DEF IsCutTo, IsDelegation
<1>2. IsState(r[p], V) /\ IsState(ds[p], V)
  BY <1>1, Zenon DEF IsDelegation
<1>3. r[p].total \in Nat \ {0} /\ ds[p].total \in Nat \ {0}
  BY <1>2, StateFacts, Zenon
<1>4. PICK b : b = GetAvailableBalance(ls, p)
  OBVIOUS
<1>5. b.balance \in Nat /\ b.ok
  BY <1>4, BalanceFacts, Zenon
<1>6. StakeNow(ls)[p] = b
  BY <1>1, <1>4, Zenon DEF StakeNow
<1>7. CASE Short(ds, p, StakeNow(ls))
  <2>1. Total(r, p) = b.balance
    BY <1>1, <1>6, <1>7, Zenon DEF IsCutTo
  <2>2. r[p].total = b.balance
    BY <2>1, Zenon DEF Total
  <2>3. b.balance <= b.balance
    BY <1>5
  <2> QED
    BY <1>3, <1>4, <1>5, <2>2, <2>3, Zenon
<1>8. CASE ~ Short(ds, p, StakeNow(ls))
  <2>1. r[p] = ds[p]
    BY <1>1, <1>8, Zenon DEF IsCutTo
  <2>2. ~(b.balance < ds[p].total)
    BY <1>5, <1>6, <1>8, Zenon DEF Short
  <2>3. ds[p].total <= b.balance
    BY <1>3, <1>5, <2>2
  <2> QED
    BY <1>3, <1>4, <1>5, <2>1, <2>3, Zenon
<1> QED
  BY <1>7, <1>8, Zenon

\* Nominations that nobody has left: what a node without stake leaves behind.
LEMMA DropFacts ==
  ASSUME NEW V \in SUBSET Node, NEW ds, IsDelegation(ds, V), NEW dropped,
         \A n \in dropped : StakeOn(ds, n) = 0
  PROVE  IsDelegation(ds, V \ dropped)
<1>1. ASSUME NEW p \in DOMAIN ds, NEW n \in DOMAIN ds[p].on PROVE n \notin dropped
  <2>1. IsState(ds[p], V)
    BY Zenon DEF IsDelegation
  <2>2. ds[p].on[n] \in Nat \ {0}
    BY <2>1, StateFacts, Zenon
  <2>3. PICK f : f = [q \in DOMAIN ds |-> On(ds, q, n)]
    BY Zenon
  <2>4. \A q \in DOMAIN ds : On(ds, q, n) \in Nat
    BY OnIsNat, Zenon
  <2>5. f \in [DOMAIN ds -> Nat] /\ f[p] = On(ds, p, n)
    BY <2>3, <2>4
  <2>6. IsFiniteSet(DOMAIN ds)
    BY Zenon DEF IsDelegation
  <2>7. f[p] <= SumOf(f) /\ SumOf(f) \in Nat
    BY <2>5, <2>6, SumOfNat, Zenon
  <2>8. SumOf(f) = StakeOn(ds, n)
    BY <2>3, Zenon DEF StakeOn
  <2>9. On(ds, p, n) = ds[p].on[n]
    BY Zenon DEF On
  <2>10. SumOf(f) # 0
    BY <2>2, <2>5, <2>7, <2>9
  <2> QED
    BY <2>8, <2>10, Zenon
<1>2. ASSUME NEW p \in DOMAIN ds PROVE IsState(ds[p], V \ dropped)
  <2>1. IsState(ds[p], V)
    BY Zenon DEF IsDelegation
  <2>2. DOMAIN ds[p].on \in SUBSET (V \ dropped)
    BY <1>1, <2>1, Zenon DEF IsState
  <2> QED
    BY <2>1, <2>2, Zenon DEF IsState
<1> QED
  BY <1>2, Zenon DEF IsDelegation

\* Nominations on known nodes stay so when the topology grows.
LEMMA MoreNodes ==
  ASSUME NEW V, NEW W, V \in SUBSET W, NEW ds, IsDelegation(ds, V)
  PROVE  IsDelegation(ds, W)
<1>1. ASSUME NEW p \in DOMAIN ds PROVE IsState(ds[p], W)
  <2>1. IsState(ds[p], V)
    BY Zenon DEF IsDelegation
  <2> QED
    BY <2>1, Zenon DEF IsState
<1> QED
  BY <1>1, Zenon DEF IsDelegation

\* a is s, or s with what auto delegation adds when the balance is more than its total.
Promotes(a, s, balance) ==
  \/ a = s
  \/ /\ DOMAIN a.on = DOMAIN s.on
     /\ s.total < balance /\ Rounded(a, s, balance - s.total)

\* Sound nominations have nothing for prepareNextEpochDelegationState to drop.
LEMMA PrepareKeeps ==
  ASSUME NEW V \in SUBSET Node, NEW r, IsDelegation(r.next, V)
  PROVE  prepareNextEpochDelegationState(r) = r.next
<1>1. PICK d : d = r.next
  OBVIOUS
<1>2. ASSUME NEW p \in DOMAIN d
      PROVE  [d[p] EXCEPT !.on = Restrict(@, {n \in DOMAIN @ : @[n] # 0 \/ On(r.cur, p, n) # 0})] = d[p]
  <2>1. PICK s, D : s = d[p] /\ D = DOMAIN s.on
    OBVIOUS
  <2>2. IsState(s, V)
    BY <1>1, <2>1, Zenon DEF IsDelegation
  <2>3. s.on \in [D -> Nat] /\ \A n \in D : s.on[n] # 0
    <3>1. s.on \in [D -> Nat] /\ \A n \in D : s.on[n] \in Nat \ {0}
      BY <2>1, <2>2, StateFacts, Zenon
    <3> QED
      BY <3>1
  <2>4. {n \in DOMAIN s.on : s.on[n] # 0 \/ On(r.cur, p, n) # 0} = D
    BY <2>1, <2>3, Zenon
  <2>5. Restrict(s.on, D) = s.on
    <3>1. [n \in D |-> s.on[n]] = s.on
      BY <2>3
    <3> QED
      BY <3>1, Zenon DEF Restrict
  <2>6. [s EXCEPT !.on = s.on] = s
    <3>1. PICK t, on : s = [total |-> t, on |-> on]
      BY <2>2, Zenon DEF IsState
    <3> QED
      BY <3>1
  <2> QED
    BY <2>1, <2>4, <2>5, <2>6, Zenon
<1>3. prepareNextEpochDelegationState(r)
        = [p \in DOMAIN d |-> [d[p] EXCEPT !.on = Restrict(@, {n \in DOMAIN @ : @[n] # 0 \/ On(r.cur, p, n) # 0})]]
  BY <1>1, Zenon DEF prepareNextEpochDelegationState
<1>4. d = [p \in DOMAIN d |-> d[p]]
  BY <1>1, Zenon DEF IsDelegation
<1>5. prepareNextEpochDelegationState(r) = [p \in DOMAIN d |-> d[p]]
  BY <1>2, <1>3, Zenon
<1> QED
  BY <1>1, <1>4, <1>5, Zenon

\* P has the nominations ds for the epoch that begins, with what auto delegation adds.
IsPromotion(P, ds, V) ==
  /\ IsDelegation(P.cur, V) /\ P.next = P.cur /\ DOMAIN P.cur = DOMAIN ds
  /\ \A p \in DOMAIN ds : Promotes(P.cur[p], ds[p], GetAvailableBalance(links, p).balance)

\* What becomes active at the end of an epoch, for this epoch and for the next.
LEMMA PromotedFacts ==
  ASSUME NEW V \in SUBSET Node, links \in SUBSET Link, IsFiniteSet(links),
         NEW r, IsDelegation(r.next, V), NEW P, P = Promoted(r)
  PROVE  IsPromotion(P, r.next, V)
<1>1. PICK d, adding : d = r.next /\ adding = eligiblePartiesForAutoDelegation(r)
  OBVIOUS
<1> DEFINE more(p) == AutoDelegated(d[p], GetAvailableBalance(links, p).balance - d[p].total)
<1>2. PICK active : active = [p \in DOMAIN d |->
          IF p \in adding
          THEN [total |-> more(p).total, on |-> [n \in DOMAIN d[p].on |-> more(p).on[n]]]
          ELSE d[p]]
  BY Zenon
<1>3. P.cur = active /\ P.next = active
  <2>1. prepareNextEpochDelegationState(r) = d
    BY <1>1, PrepareKeeps, Zenon
  <2>2. PICK a : Promoted(r) = [cur |-> active, next |-> active, auto |-> a]
    BY <1>1, <1>2, <2>1, Zenon DEF Promoted
  <2> QED
    BY <2>2
<1>4. IsDelegation(d, V) /\ DOMAIN active = DOMAIN d /\ active = [p \in DOMAIN active |-> active[p]]
  BY <1>1, <1>2, Zenon
<1>5. ASSUME NEW p \in DOMAIN d
      PROVE  IsState(active[p], V) /\ Promotes(active[p], d[p], GetAvailableBalance(links, p).balance)
  <2>1. IsState(d[p], V)
    BY <1>4, Zenon DEF IsDelegation
  <2>2. CASE p \notin adding
    <3>1. active[p] = d[p]
      BY <1>2, <2>2, Zenon
    <3> QED
      BY <2>1, <3>1, Zenon DEF Promotes
  <2>3. CASE p \in adding
    <3>1. PICK b : b = GetAvailableBalance(links, p).balance
      OBVIOUS
    <3>2. d[p].total < b
      BY <1>1, <2>3, <3>1, Zenon DEF eligiblePartiesForAutoDelegation
    <3>3. b \in Nat /\ d[p].total \in Nat \ {0}
      BY <2>1, <3>1, BalanceFacts, StateFacts, Zenon
    <3>4. PICK av : av = b - d[p].total
      OBVIOUS
    <3>5. av \in Nat
      BY <3>2, <3>3, <3>4, SMTT(30)
    <3>6. PICK m : m = AutoDelegated(d[p], av)
      OBVIOUS
    <3>7. IsState(m, V) /\ DOMAIN m.on = DOMAIN d[p].on /\ Rounded(m, d[p], av)
      BY <2>1, <3>5, <3>6, AutoFacts, SMTT(20)
    <3>8. active[p] = [total |-> m.total, on |-> [n \in DOMAIN d[p].on |-> m.on[n]]]
      BY <1>2, <2>3, <3>1, <3>4, <3>6, Zenon
    <3>9. [n \in DOMAIN d[p].on |-> m.on[n]] = m.on /\ m = [total |-> m.total, on |-> m.on]
      <4>1. m.on \in [DOMAIN m.on -> Nat \ {0}] /\ m = [total |-> m.total, on |-> m.on]
        BY <3>7, Zenon DEF IsState
      <4>2. [n \in DOMAIN m.on |-> m.on[n]] = m.on
        BY <4>1
      <4> QED
        BY <3>7, <4>1, <4>2, Zenon
    <3>10. active[p] = m
      BY <3>8, <3>9, Zenon
    <3> QED
      BY <3>1, <3>2, <3>4, <3>7, <3>10, Zenon DEF Promotes
  <2> QED
    BY <2>2, <2>3, Zenon
<1>6. IsDelegation(active, V)
  BY <1>4, <1>5, Zenon DEF IsDelegation
<1> QED
  BY <1>1, <1>3, <1>4, <1>5, <1>6, Zenon DEF IsPromotion

-----------------------------------------------------------------------------
(* Snapshots.                                                              *)

\* A delegation state is what its entries say, totals included (LoadState).
LEMMA EntriesFacts ==
  ASSUME NEW V \in SUBSET Node, NEW ds, IsDelegation(ds, V)
  PROVE  FromEntries(Entries(ds)) = ds
<1> DEFINE E == Entries(ds)
           of(p) == {[party |-> p, node |-> n, amount |-> ds[p].on[n]] : n \in DOMAIN ds[p].on}
<1>1. E = UNION {of(p) : p \in DOMAIN ds}
  BY Zenon DEF Entries
<1> HIDE DEF E
<1>2. \A e \in E : /\ e.party \in DOMAIN ds /\ e.node \in DOMAIN ds[e.party].on
                   /\ e.amount = ds[e.party].on[e.node]
  <2>1. ASSUME NEW e \in E
        PROVE  /\ e.party \in DOMAIN ds /\ e.node \in DOMAIN ds[e.party].on
               /\ e.amount = ds[e.party].on[e.node]
    <3>1. PICK p \in DOMAIN ds : e \in of(p)
      <4> HIDE DEF of
      <4> QED
        BY <1>1, Zenon
    <3>2. PICK n \in DOMAIN ds[p].on : e = [party |-> p, node |-> n, amount |-> ds[p].on[n]]
      BY <3>1, Zenon
    <3>3. e.party = p /\ e.node = n /\ e.amount = ds[p].on[n]
      BY <3>2
    <3> QED
      BY <3>3, Zenon
  <2> QED
    BY <2>1, Zenon
<1>3. ASSUME NEW p \in DOMAIN ds, NEW n \in DOMAIN ds[p].on
      PROVE  \E e \in E : e.party = p /\ e.node = n
  <2>1. PICK e : e = [party |-> p, node |-> n, amount |-> ds[p].on[n]]
    BY Zenon
  <2>2. e.party = p /\ e.node = n
    BY <2>1
  <2>3. e \in of(p)
    BY <2>1, Zenon
  <2> HIDE DEF of
  <2>4. e \in E
    BY <1>1, <2>3, Zenon
  <2> QED
    BY <2>2, <2>4, Zenon
<1> HIDE DEF of
<1> DEFINE nodes(p) == {e.node : e \in {x \in E : x.party = p}}
           entry(p, n) == CHOOSE e \in E : e.party = p /\ e.node = n
           on(p) == [n \in nodes(p) |-> entry(p, n).amount]
<1>4. FromEntries(E) = [p \in {e.party : e \in E} |-> [total |-> SumOf(on(p)), on |-> on(p)]]
  BY Zenon DEF FromEntries
<1>5. ASSUME NEW p \in DOMAIN ds
      PROVE  on(p) = ds[p].on /\ [total |-> SumOf(on(p)), on |-> on(p)] = ds[p]
  <2>1. IsState(ds[p], V)
    BY Zenon DEF IsDelegation
  <2>2. PICK D : D = DOMAIN ds[p].on
    OBVIOUS
  <2>3. nodes(p) = D
    <3>1. ASSUME NEW n \in nodes(p) PROVE n \in D
      <4>1. PICK e \in E : e.party = p /\ n = e.node
        BY Zenon
      <4> QED
        BY <1>2, <2>2, <4>1, Zenon
    <3>2. ASSUME NEW n \in D PROVE n \in nodes(p)
      <4>1. PICK e \in E : e.party = p /\ e.node = n
        BY <1>3, <2>2, Zenon
      <4> QED
        BY <4>1, Zenon
    <3> HIDE DEF nodes
    <3> QED
      BY <3>1, <3>2, Zenon
  <2>4. ASSUME NEW n \in D PROVE entry(p, n).amount = ds[p].on[n]
    <3>1. PICK c : c = entry(p, n)
      OBVIOUS
    <3>2. c \in E /\ c.party = p /\ c.node = n
      <4>1. \E e \in E : e.party = p /\ e.node = n
        BY <1>3, <2>2, Zenon
      <4> QED
        BY <3>1, <4>1, Zenon
    <3> HIDE DEF entry
    <3>3. c.amount = ds[p].on[n]
      BY <1>2, <3>2, Zenon
    <3> QED
      BY <3>1, <3>3, Zenon
  <2> HIDE DEF nodes, entry
  <2>5. on(p) = [n \in D |-> ds[p].on[n]]
    BY <2>3, <2>4, Zenon
  <2>6. [n \in D |-> ds[p].on[n]] = ds[p].on
    <3>1. ds[p].on \in [D -> Nat]
      BY <2>1, <2>2, StateFacts, Zenon
    <3> QED
      BY <3>1
  <2>7. on(p) = ds[p].on
    BY <2>5, <2>6, Zenon
  <2> HIDE DEF on
  <2> QED
    BY <2>1, <2>7, Zenon DEF IsState
<1>6. {e.party : e \in E} = DOMAIN ds
  <2>1. ASSUME NEW p \in DOMAIN ds PROVE \E e \in E : p = e.party
    <3>1. IsState(ds[p], V)
      BY Zenon DEF IsDelegation
    <3>2. DOMAIN ds[p].on # {}
      BY <3>1, Zenon DEF IsState
    <3>3. PICK n : n \in DOMAIN ds[p].on
      BY <3>2, Zenon
    <3> QED
      BY <1>3, <3>3, Zenon
  <2>2. \A p : (\E e \in E : p = e.party) <=> p \in DOMAIN ds
    BY <1>2, <2>1, Zenon
  <2> QED
    BY <2>2, Zenon
<1>7. ds = [p \in DOMAIN ds |-> ds[p]]
  BY Zenon DEF IsDelegation
<1> HIDE DEF on
<1>8. FromEntries(E) = ds
  BY <1>4, <1>5, <1>6, <1>7, Zenon
<1> QED
  BY <1>8, Zenon DEF E

-----------------------------------------------------------------------------
(* The inductive invariant: every party with nominations has an account    *)
(* and nominates nodes of the topology only, no entry is zero, and totals  *)
(* are the sums of the entries.                                            *)

Inv ==
  /\ links \in SUBSET Link /\ IsFiniteSet(links) /\ validators \in SUBSET Node
  /\ now \in Nat /\ epoch.start \in Nat /\ epoch.start <= now
  /\ IsDelegation(cur, validators) /\ IsDelegation(next, validators)
  /\ \A p \in DOMAIN cur \cup DOMAIN next : HasAccount(links, p)

\* At the start nobody nominates.
LEMMA InvInit ==
  ASSUME Init
  PROVE  Inv
<1>1. links \in SUBSET Link /\ IsFiniteSet(links)
  BY FS_EmptySet, Zenon DEF Init
<1>2. validators \in SUBSET Node
  BY DelegationAssumption, Zenon DEF Init
<1>3. now \in Nat /\ epoch.start \in Nat /\ epoch.start <= now
  BY DEF Init
<1>4. DOMAIN EmptyState = {} /\ EmptyState = [p \in DOMAIN EmptyState |-> EmptyState[p]]
  BY Zenon DEF EmptyState
<1>5. IsDelegation(EmptyState, validators)
  BY <1>4, FS_EmptySet, Zenon DEF IsDelegation
<1>6. cur = EmptyState /\ next = EmptyState
  BY Zenon DEF Init
<1>7. IsDelegation(cur, validators) /\ IsDelegation(next, validators)
  BY <1>5, <1>6, Zenon
<1>8. DOMAIN cur \cup DOMAIN next = {}
  BY <1>4, <1>6, Zenon
<1>9. \A p \in DOMAIN cur \cup DOMAIN next : HasAccount(links, p)
  BY <1>8, Zenon
<1> QED
  BY <1>1, <1>2, <1>3, <1>7, <1>9, Zenon DEF Inv

\* Delegate keeps the invariant.
LEMMA InvDelegate ==
  ASSUME Inv, NEW p \in Party, NEW n \in Node, NEW amt \in Amount, Delegate(p, n, amt)
  PROVE  Inv'
<1>1. amt \in Nat \ {0}
  <2>1. amt \in Nat /\ MinDelegationAmount \in Nat \ {0} /\ amt >= MinDelegationAmount
    BY DelegationAssumption, Zenon DEF Delegate
  <2> QED
    BY <2>1
<1>2. next' = increase(next, p, n, amt) /\ n \in validators /\ validators \in SUBSET Node
  BY Zenon DEF Delegate, Inv
<1>3. IsDelegation(next, validators)
  BY Zenon DEF Inv
<1>4. IsDelegation(next', validators) /\ DOMAIN next' \in SUBSET (DOMAIN next \cup {p})
  BY <1>1, <1>2, <1>3, IncreaseFacts, ZenonT(40)
<1>5. HasAccount(links, p)
  <2>1. links \in SUBSET Link /\ IsFiniteSet(links) /\ GetAvailableBalance(links, p).ok
    BY Zenon DEF Inv, Delegate
  <2> QED
    BY <2>1, BalanceFacts, Zenon
<1>6. UNCHANGED <<links, now, epoch, validators, cur>>
  BY DEF Delegate
<1> QED
  BY <1>4, <1>5, <1>6, Zenon DEF Inv

\* UndelegateAtEndOfEpoch keeps the invariant.
LEMMA InvUndelegateAtEndOfEpoch ==
  ASSUME Inv, NEW p \in Party, NEW n \in Node, NEW amount \in Amount \cup {0},
         UndelegateAtEndOfEpoch(p, n, amount)
  PROVE  Inv'
<1>1. PICK amt : amt = IF amount = 0 THEN On(next, p, n) ELSE amount
  OBVIOUS
<1>2. amt <= On(next, p, n) /\ next' = decreaseBalance(next, p, n, amt)
  BY <1>1, Zenon DEF UndelegateAtEndOfEpoch
<1>3. IsDelegation(next, validators) /\ validators \in SUBSET Node
  BY Zenon DEF Inv
<1>4. On(next, p, n) \in Nat
  BY <1>3, OnIsNat, Zenon
<1>5. amt \in Nat
  <2>1. amount \in Nat
    BY DelegationAssumption
  <2> QED
    BY <1>1, <1>4, <2>1, Zenon
<1>6. IsDelegation(next', validators) /\ DOMAIN next' \in SUBSET DOMAIN next
  BY <1>2, <1>3, <1>5, DecreaseFacts, Zenon
<1>7. UNCHANGED <<links, now, epoch, validators, cur>>
  BY DEF UndelegateAtEndOfEpoch
<1> QED
  BY <1>6, <1>7, Zenon DEF Inv

\* UndelegateNow keeps the invariant.
LEMMA InvUndelegateNow ==
  ASSUME Inv, NEW p \in Party, NEW n \in Node, NEW amount \in Amount \cup {0},
         UndelegateNow(p, n, amount)
  PROVE  Inv'
<1>1. PICK amt : amt = IF amount = 0 THEN Larger(On(cur, p, n), On(next, p, n)) ELSE amount
  OBVIOUS
<1> DEFINE take(ds) == IF Smaller(On(ds, p, n), amt) = 0 THEN ds
                       ELSE decreaseBalance(ds, p, n, Smaller(On(ds, p, n), amt))
<1>2. cur' = take(cur) /\ next' = take(next)
  BY <1>1, Zenon DEF UndelegateNow
<1>3. IsDelegation(cur, validators) /\ IsDelegation(next, validators) /\ validators \in SUBSET Node
  BY Zenon DEF Inv
<1>4. On(cur, p, n) \in Nat /\ On(next, p, n) \in Nat
  BY <1>3, OnIsNat, Zenon
<1>5. amt \in Nat
  <2>1. amount \in Nat
    BY DelegationAssumption
  <2> QED
    BY <1>1, <1>4, <2>1, Zenon DEF Larger
<1>6. ASSUME NEW ds, IsDelegation(ds, validators), NEW r, r = take(ds)
      PROVE  IsDelegation(r, validators) /\ DOMAIN r \in SUBSET DOMAIN ds
  <2>1. PICK x \in Nat : x = On(ds, p, n)
    BY <1>3, <1>6, OnIsNat, Zenon
  <2>2. PICK some : some = Smaller(x, amt)
    OBVIOUS
  <2>3. some \in Nat /\ some <= x
    <3>1. some = IF x < amt THEN x ELSE amt
      BY <2>2, Zenon DEF Smaller
    <3> QED
      BY <1>5, <3>1
  <2>4. CASE some = 0
    <3>1. r = ds
      BY <1>6, <2>1, <2>2, <2>4, Zenon
    <3> QED
      BY <1>6, <3>1, Zenon
  <2>5. CASE some # 0
    <3>1. r = decreaseBalance(ds, p, n, some)
      BY <1>6, <2>1, <2>2, <2>5, Zenon
    <3> QED
      BY <1>3, <1>6, <2>1, <2>3, <3>1, DecreaseFacts, Zenon
  <2> QED
    BY <2>4, <2>5, Zenon
<1> HIDE DEF take
<1>7. /\ IsDelegation(cur', validators) /\ DOMAIN cur' \in SUBSET DOMAIN cur
      /\ IsDelegation(next', validators) /\ DOMAIN next' \in SUBSET DOMAIN next
  BY <1>2, <1>3, <1>6, Zenon
<1>8. UNCHANGED <<links, now, epoch, validators>>
  BY DEF UndelegateNow
<1> QED
  BY <1>7, <1>8, Zenon DEF Inv

\* A node that joins the topology keeps the invariant.
LEMMA InvAnnounce ==
  ASSUME Inv, NEW n \in Node, Announce(n)
  PROVE  Inv'
<1>1. validators' = validators \cup {n} /\ UNCHANGED <<links, now, epoch, cur, next>>
  BY DEF Announce, engine
<1>2. validators' \in SUBSET Node /\ validators \in SUBSET validators'
  BY <1>1, Zenon DEF Inv
<1>3. IsDelegation(cur, validators') /\ IsDelegation(next, validators')
  BY <1>2, MoreNodes, Zenon DEF Inv
<1> QED
  BY <1>1, <1>2, <1>3, Zenon DEF Inv

\* A restart from a snapshot keeps the invariant.
LEMMA InvLoadState ==
  ASSUME Inv, LoadState
  PROVE  Inv'
<1>1. validators \in SUBSET Node /\ IsDelegation(cur, validators) /\ IsDelegation(next, validators)
  BY Zenon DEF Inv
<1>2. cur' = FromEntries(Entries(cur)) /\ next' = FromEntries(Entries(next))
  BY Zenon DEF LoadState
<1>3. FromEntries(Entries(cur)) = cur /\ FromEntries(Entries(next)) = next
  BY <1>1, EntriesFacts, SMTT(20)
<1>4. UNCHANGED <<links, now, epoch, validators>>
  BY DEF LoadState
<1> QED
  BY <1>2, <1>3, <1>4, Zenon DEF Inv

\* A block keeps the invariant, whether or not it ends an epoch.
LEMMA InvTick ==
  ASSUME Inv, NEW t \in (now + 1)..Smaller(now + MaxStep, MaxTime),
         NEW new \in {{}} \cup {{l} : l \in {k \in Link \ links : LinkOf[k].ts < t}},
         Tick(t, new)
  PROVE  Inv'
<1>1. t \in Nat /\ now < t /\ now \in Nat
  <2>1. now \in Nat
    BY Zenon DEF Inv
  <2>2. now + MaxStep \in Nat /\ MaxTime \in Nat
    BY <2>1, DelegationAssumption
  <2>3. PICK m \in Nat : m = Smaller(now + MaxStep, MaxTime)
    BY <2>2, Zenon DEF Smaller
  <2>4. t \in (now + 1)..m
    BY <2>3, Zenon
  <2> QED
    BY <2>1, <2>4
<1>2. links' = links \cup new /\ now' = t
  BY Zenon DEF Tick
<1>3. links' \in SUBSET Link /\ IsFiniteSet(links') /\ links \in SUBSET links'
  <2>1. links \in SUBSET Link /\ IsFiniteSet(links)
    BY Zenon DEF Inv
  <2>2. CASE new = {}
    <3>1. links' = links
      BY <1>2, <2>2, Zenon
    <3> QED
      BY <2>1, <3>1, Zenon
  <2>3. ASSUME NEW l \in Link, new = {l}
        PROVE  links' \in SUBSET Link /\ IsFiniteSet(links') /\ links \in SUBSET links'
    <3>1. links' = links \cup {l}
      BY <1>2, <2>3, Zenon
    <3>2. IsFiniteSet(links \cup {l})
      BY <2>1, FS_AddElement, Zenon
    <3> QED
      BY <2>1, <3>1, <3>2, Zenon
  <2>4. new = {} \/ \E l \in Link : new = {l}
    BY Zenon
  <2> QED
    BY <2>2, <2>3, <2>4, Zenon
<1>4. \A p : HasAccount(links, p) => HasAccount(links', p)
  BY <1>3, Zenon DEF HasAccount
<1>5. /\ validators \in SUBSET Node /\ links \in SUBSET Link /\ IsFiniteSet(links)
      /\ IsDelegation(cur, validators) /\ IsDelegation(next, validators)
      /\ epoch.start \in Nat /\ epoch.start <= now
      /\ \A p \in DOMAIN cur \cup DOMAIN next : HasAccount(links, p)
  BY Zenon DEF Inv
<1>6. CASE ending
  <2>1. endEpoch(t)
    BY <1>6, Zenon DEF Tick
  <2>2. PICK r, P : /\ r = Reconciled(links, epoch.start, t) /\ P = Promoted(r)
                    /\ cur' = P.cur /\ next' = P.next
                    /\ \E dropped \in SUBSET MayDrop(r.cur, P.cur) : validators' = validators \ dropped
    BY <2>1, Zenon DEF endEpoch
  <2>3. PICK dropped \in SUBSET MayDrop(r.cur, P.cur) : validators' = validators \ dropped
    BY <2>2, Zenon
  <2>4. IsCutTo(r.next, next, StakeNow(links), validators)
    BY <1>5, <2>2, ReconciledFacts, Zenon
  <2>5. IsDelegation(r.next, validators) /\ DOMAIN r.next \in SUBSET DOMAIN next
    BY <2>4, Zenon DEF IsCutTo
  <2>6. IsDelegation(P.cur, validators) /\ P.next = P.cur /\ DOMAIN P.cur = DOMAIN r.next
    <3>1. IsPromotion(P, r.next, validators)
      BY <1>5, <2>2, <2>5, PromotedFacts, Zenon
    <3> QED
      BY <3>1, Zenon DEF IsPromotion
  <2>7. \A n \in dropped : StakeOn(P.cur, n) = 0
    BY <2>3, Zenon DEF MayDrop
  <2>8. IsDelegation(P.cur, validators \ dropped)
    BY <1>5, <2>6, <2>7, DropFacts, Zenon
  <2>9. IsDelegation(cur', validators') /\ IsDelegation(next', validators')
    BY <2>2, <2>3, <2>6, <2>8, Zenon
  <2>10. \A p \in DOMAIN cur' \cup DOMAIN next' : HasAccount(links', p)
    <3>1. DOMAIN cur' \in SUBSET DOMAIN next /\ DOMAIN next' \in SUBSET DOMAIN next
      BY <2>2, <2>5, <2>6, Zenon
    <3>2. \A p \in DOMAIN next : HasAccount(links', p)
      BY <1>4, <1>5, Zenon
    <3> QED
      BY <3>1, <3>2, Zenon
  <2>11. validators' \in SUBSET Node
    BY <1>5, <2>3, ZenonT(40)
  <2>12. epoch'.start = t
    BY <2>1 DEF endEpoch
  <2>13. now' \in Nat /\ epoch'.start \in Nat /\ epoch'.start <= now'
    BY <1>1, <1>2, <2>12
  <2> QED
    BY <1>3, <2>9, <2>10, <2>11, <2>13, Zenon DEF Inv
<1>7. CASE ~ ending
  <2>1. OnTick(links', t) /\ epoch' = epoch /\ validators' = validators
    BY <1>7, Zenon DEF Tick
  <2>2. now' \in Nat /\ epoch'.start \in Nat /\ epoch'.start <= now'
    <3>1. PICK x \in Nat : x = epoch.start /\ x <= now
      BY <1>5, Zenon
    <3>2. x <= t
      BY <1>1, <3>1
    <3> QED
      BY <1>1, <1>2, <2>1, <3>1, <3>2, Zenon
  <2>3. /\ IsDelegation(cur', validators) /\ DOMAIN cur' \in SUBSET DOMAIN cur
        /\ IsDelegation(next', validators) /\ DOMAIN next' \in SUBSET DOMAIN next
    <3>1. CASE t - lastReconciliation >= ReconciliationInterval
      <4>1. PICK r : r = Reconciled(links', epoch.start, t) /\ cur' = r.cur /\ next' = r.next
        BY <2>1, <3>1, Zenon DEF OnTick
      <4>2. /\ IsCutTo(r.cur, cur, StakeInRange(links', epoch.start, t), validators)
            /\ IsCutTo(r.next, next, StakeNow(links'), validators)
        BY <1>3, <1>5, <4>1, ReconciledFacts, Zenon
      <4> QED
        BY <4>1, <4>2, Zenon DEF IsCutTo
    <3>2. CASE ~(t - lastReconciliation >= ReconciliationInterval)
      <4>1. cur' = cur /\ next' = next
        BY <2>1, <3>2 DEF OnTick, engine
      <4> QED
        BY <1>5, <4>1, Zenon
    <3> QED
      BY <3>1, <3>2, Zenon
  <2>4. \A p \in DOMAIN cur' \cup DOMAIN next' : HasAccount(links', p)
    BY <1>4, <1>5, <2>3, Zenon
  <2>5. validators' \in SUBSET Node /\ IsDelegation(cur', validators') /\ IsDelegation(next', validators')
    BY <1>5, <2>1, <2>3, Zenon
  <2> QED
    BY <1>3, <2>2, <2>4, <2>5, Zenon DEF Inv
<1> QED
  BY <1>6, <1>7, Zenon

\* Every step keeps the invariant.
LEMMA InvStep ==
  ASSUME Inv, [Next]_vars
  PROVE  Inv'
<1>1. ASSUME NEW t \in (now + 1)..Smaller(now + MaxStep, MaxTime),
             NEW new \in {{}} \cup {{l} : l \in {k \in Link \ links : LinkOf[k].ts < t}},
             Tick(t, new)
      PROVE  Inv'
  BY <1>1, InvTick
<1>2. ASSUME NEW p \in Party, NEW n \in Node, NEW amt \in Amount, Delegate(p, n, amt) PROVE Inv'
  BY <1>2, InvDelegate
<1>3. ASSUME NEW p \in Party, NEW n \in Node, NEW amt \in Amount \cup {0},
             UndelegateAtEndOfEpoch(p, n, amt)
      PROVE  Inv'
  BY <1>3, InvUndelegateAtEndOfEpoch
<1>4. ASSUME NEW p \in Party, NEW n \in Node, NEW amt \in Amount \cup {0}, UndelegateNow(p, n, amt)
      PROVE  Inv'
  BY <1>4, InvUndelegateNow
<1>5. ASSUME NEW n \in Node, Announce(n) PROVE Inv'
  BY <1>5, InvAnnounce
<1>6. CASE LoadState
  BY <1>6, InvLoadState
<1>7. CASE UNCHANGED vars
  BY <1>7 DEF vars, engine, Inv
<1> QED
  BY <1>1, <1>2, <1>3, <1>4, <1>5, <1>6, <1>7, Zenon DEF Next

\* Every party that nominates has a stake account and nominates nodes of the topology, every
\* entry is positive, and every total is the sum of its entries, in this epoch and the next
\* (core/delegation/engine.go keeps totals and entries apart and deletes entries by hand).
THEOREM NominationsAreSound == Spec => []Inv
<1>1. Init => Inv
  BY InvInit
<1>2. Inv /\ [Next]_vars => Inv'
  BY InvStep
<1> QED
  BY <1>1, <1>2, PTL DEF Spec

=============================================================================
