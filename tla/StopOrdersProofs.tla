-------------------------- MODULE StopOrdersProofs --------------------------
(***************************************************************************)
(* Proofs about StopOrders, for every number of orders, parties, prices    *)
(* and block times, and whatever the orders that are submitted do to the   *)
(* market: of an OCO pair one order at most is submitted, a trailing order *)
(* hangs on the peak, no handler leaves an order behind that the last      *)
(* price triggers, and the pool and its indexes hold the same orders.      *)
(***************************************************************************)
EXTENDS StopOrders, TLAPS

(* OCO pairs                                                               *)

Issued == 1 .. Len(order)

Typed ==
  /\ order \in Seq(Order) /\ Len(order) <= MaxOrders
  /\ pool \subseteq Issued /\ queue \subseteq Issued
  /\ fate \in [Ids -> SUBSET Fates] /\ sent \in [Ids -> Nat] /\ peak \in [Ids -> Nat]
  /\ last \in Price /\ lastSeen \in Price

\* The two orders of a pair name each other and are of one party; they are pooled together.
Paired ==
  \A i \in Issued : Linked(i) =>
    /\ order[i].oco \in Issued \ {i} /\ order[order[i].oco].oco = i
    /\ order[order[i].oco].party = order[i].party /\ ~order[i].setup.submit
    /\ i \in pool <=> order[i].oco \in pool

\* An order that is pooled or queued was neither submitted nor stopped, and is not both;
\* only submitStopOrders has a queue.
Waiting ==
  /\ \A i \in Ids \ Issued : sent[i] = 0 /\ fate[i] = {}
  /\ \A i \in pool \cup queue : sent[i] = 0 /\ "stopped" \notin fate[i]
  /\ pool \cap queue = {}
  /\ phase # "submit" => queue = {}

\* An order is submitted once at most, a stopped one never, and once one of a pair is on
\* its way the other is not.
Once ==
  \A i \in Issued :
    /\ sent[i] <= 1 /\ ("stopped" \in fate[i] => sent[i] = 0)
    /\ Linked(i) /\ (sent[i] # 0 \/ i \in queue) =>
         sent[order[i].oco] = 0 /\ order[i].oco \notin queue

PairInv == Typed /\ Paired /\ Waiting /\ Once

-----------------------------------------------------------------------------
(* What a submission adds.                                                 *)

\* The identifiers of a submission follow those given out before: one order, or two that
\* are linked to each other (IntoStopOrders).
LEMMA NewOrders ==
  ASSUME Typed, NEW setups \in Submissions, NEW new, new = Numbered(setups)
  PROVE  /\ Len(order) \in Nat /\ Len(setups) \in {1, 2}
         /\ DOMAIN new = Len(order) + 1 .. Len(order) + Len(setups)
         /\ \A i \in DOMAIN new : new[i] \in Setup
         /\ Len(setups) = 1 => LinkIn(new, Len(order) + 1) = NoId
         /\ Len(setups) = 2 =>
              /\ LinkIn(new, Len(order) + 1) = Len(order) + 2
              /\ LinkIn(new, Len(order) + 2) = Len(order) + 1
              /\ \A i \in DOMAIN new : ~new[i].submit
  <1> DEFINE n == Len(order)
  <1>0. n \in Nat
    BY DEF Typed
  <1>1. CASE setups \in {<<s>> : s \in Singles}
    <2>1. PICK s \in Singles : setups = <<s>>
      BY <1>1
    <2>2. Len(setups) = 1 /\ setups[1] = s /\ s \in Setup
      BY <2>1, StopOrdersAssumption DEF StopOrdersAssumption
    <2>3. DOMAIN new = {n + 1} /\ DOMAIN new = n + 1 .. n + 1
      BY <1>0, <2>2 DEF Numbered
    <2>4. new[n + 1] = s
      BY <1>0, <2>2 DEF Numbered
    <2>5. LinkIn(new, n + 1) = NoId
      BY <2>3 DEF LinkIn
    <2> QED
      BY <1>0, <2>2, <2>3, <2>4, <2>5
  <1>2. CASE setups \in Pairs
    <2>1. /\ setups \in Setup \X Setup /\ ~setups[1].submit /\ ~setups[2].submit
      BY <1>2, StopOrdersAssumption DEF StopOrdersAssumption
    <2>2. Len(setups) = 2 /\ setups[1] \in Setup /\ setups[2] \in Setup
      BY <2>1
    <2>3. DOMAIN new = {n + 1, n + 2} /\ DOMAIN new = n + 1 .. n + 2
      BY <1>0, <2>2 DEF Numbered
    <2>4. new[n + 1] = setups[1] /\ new[n + 2] = setups[2]
      BY <1>0, <2>2 DEF Numbered
    <2>5. (CHOOSE j \in DOMAIN new : j # n + 1) = n + 2
      BY <1>0, <2>3
    <2>6. (CHOOSE j \in DOMAIN new : j # n + 2) = n + 1
      BY <1>0, <2>3
    <2>7. DOMAIN new # {n + 1} /\ DOMAIN new # {n + 2}
      <3>1. n + 1 # n + 2 /\ n + 1 \in DOMAIN new /\ n + 2 \in DOMAIN new
        BY <1>0, <2>3
      <3> QED
        BY <3>1, Zenon
    <2>8. LinkIn(new, n + 1) = n + 2 /\ LinkIn(new, n + 2) = n + 1
      BY <2>5, <2>6, <2>7 DEF LinkIn
    <2> QED
      BY <1>0, <2>1, <2>2, <2>3, <2>4, <2>8
  <1> QED
    BY <1>1, <1>2 DEF Submissions

\* A function on 1 .. n is a sequence of length n.
LEMMA FunctionIsSeq ==
  ASSUME NEW n \in Nat, NEW S, NEW f \in [1 .. n -> S]
  PROVE  f \in Seq(S) /\ Len(f) = n
  OBVIOUS

\* The k orders of new are appended to those before, and name each other (IntoStopOrders).
Appended(p, new, k) ==
  /\ order' \in Seq(Order) /\ Len(order') = Len(order) + k
  /\ \A i \in Issued : order'[i] = order[i]
  /\ \A i \in DOMAIN new :
       order'[i] = [party |-> p, setup |-> new[i], oco |-> LinkIn(new, i)]
  /\ \A i \in DOMAIN new : order'[i].setup = new[i] /\ order'[i].oco = LinkIn(new, i)
  /\ Issued' = Issued \cup DOMAIN new /\ Issued \cap DOMAIN new = {}
  /\ Issued' \subseteq Ids

\* Recording a submission leaves the orders before it alone.
LEMMA Recorded ==
  ASSUME Typed, NEW p \in Parties, NEW setups \in Submissions, NEW new,
         new = Numbered(setups), Len(order) + Len(setups) <= MaxOrders, Record(p, new)
  PROVE  Appended(p, new, Len(setups))
  <1> DEFINE n == Len(order)
             k == Len(setups)
  <1>1. /\ n \in Nat /\ k \in {1, 2} /\ DOMAIN new = n + 1 .. n + k
        /\ \A i \in DOMAIN new : new[i] \in Setup
        /\ k = 1 => LinkIn(new, n + 1) = NoId
        /\ k = 2 => LinkIn(new, n + 1) = n + 2 /\ LinkIn(new, n + 2) = n + 1
    BY NewOrders
  <1>2. (1 .. n) \cup DOMAIN new = 1 .. n + k /\ (1 .. n) \cap DOMAIN new = {}
    BY <1>1
  <1>3. \A i \in 1 .. n : i \in DOMAIN order /\ order[i] \in Order
    BY <1>1 DEF Typed
  <1>4. \A i \in DOMAIN new : LinkIn(new, i) \in Ids \cup {NoId}
    <2> TAKE i \in DOMAIN new
    <2>1. n + k <= MaxOrders /\ MaxOrders \in Nat
      BY StopOrdersAssumption DEF StopOrdersAssumption
    <2>2. CASE k = 1
      BY <1>1, <2>2 DEF NoId
    <2>3. CASE k = 2
      <3>1. i = n + 1 \/ i = n + 2
        BY <1>1, <2>3
      <3> QED
        BY <1>1, <2>1, <2>3, <3>1 DEF Ids
    <2> QED
      BY <1>1, <2>2, <2>3
  <1>5. \A i \in DOMAIN new : [party |-> p, setup |-> new[i], oco |-> LinkIn(new, i)] \in Order
    BY <1>1, <1>4 DEF Order
  <1>6. order' = [i \in 1 .. n + k |->
              IF i \notin DOMAIN new THEN order[i]
              ELSE [party |-> p, setup |-> new[i], oco |-> LinkIn(new, i)]]
    BY <1>2 DEF Record
  <1>7. order' \in [1 .. n + k -> Order]
    BY <1>1, <1>2, <1>3, <1>5, <1>6
  <1>8. n + k \in Nat
    BY <1>1
  <1>9. order' \in Seq(Order) /\ Len(order') = n + k
    BY <1>7, <1>8, FunctionIsSeq
  <1>10. Issued' = 1 .. n + k /\ 1 .. n + k \subseteq Ids
    BY <1>9, <1>1, StopOrdersAssumption DEF Issued, Ids, StopOrdersAssumption
  <1>11. \A i \in DOMAIN new :
           order'[i] = [party |-> p, setup |-> new[i], oco |-> LinkIn(new, i)]
    BY <1>2, <1>6
  <1>12. \A i \in DOMAIN new : order'[i].setup = new[i] /\ order'[i].oco = LinkIn(new, i)
    <2> TAKE i \in DOMAIN new
    <2>1. order'[i] = [party |-> p, setup |-> new[i], oco |-> LinkIn(new, i)]
      BY <1>11, Zenon
    <2> QED
      BY <2>1
  <1> QED
    BY <1>2, <1>6, <1>9, <1>10, <1>11, <1>12 DEF Appended, Issued

\* The orders of a submission name each other, those before it are not touched.
LEMMA NewPairs ==
  ASSUME Typed, Paired, NEW p \in Parties, NEW setups \in Submissions, NEW new,
         new = Numbered(setups), Len(order) + Len(setups) <= MaxOrders, Record(p, new),
         NEW i \in Issued', Linked(i)'
  PROVE  /\ order'[i].oco \in Issued' \ {i} /\ order'[order'[i].oco].oco = i
         /\ order'[order'[i].oco].party = order'[i].party /\ ~order'[i].setup.submit
         /\ i \in Issued => order'[i].oco \in Issued /\ Linked(i) /\ order'[i] = order[i]
         /\ i \in DOMAIN new => order'[i].oco \in DOMAIN new
  <1> DEFINE n == Len(order)
             k == Len(setups)
             j == LinkIn(new, i)
  <1>1. /\ n \in Nat /\ k \in {1, 2} /\ DOMAIN new = n + 1 .. n + k
        /\ k = 1 => LinkIn(new, n + 1) = NoId
        /\ k = 2 => /\ LinkIn(new, n + 1) = n + 2 /\ LinkIn(new, n + 2) = n + 1
                    /\ \A m \in DOMAIN new : ~new[m].submit
    BY NewOrders
  <1>2. /\ \A m \in Issued : order'[m] = order[m]
        /\ \A m \in DOMAIN new :
             order'[m] = [party |-> p, setup |-> new[m], oco |-> LinkIn(new, m)]
        /\ Issued' = Issued \cup DOMAIN new /\ Issued \cap DOMAIN new = {}
    <2>1. Appended(p, new, k)
      BY Recorded
    <2> QED
      BY <2>1, Zenon DEF Appended
  <1>3. CASE i \in Issued
    <2>1. Linked(i) /\ order'[i] = order[i]
      BY <1>2, <1>3 DEF Linked
    <2>2. order[i].oco \in Issued
      BY <1>3, <2>1 DEF Paired
    <2>3. order'[order[i].oco] = order[order[i].oco]
      BY <1>2, <2>2
    <2> QED
      BY <1>2, <1>3, <2>1, <2>2, <2>3 DEF Paired
  <1>4. CASE i \in DOMAIN new
    <2>0. order'[i] = [party |-> p, setup |-> new[i], oco |-> LinkIn(new, i)]
      BY <1>2, <1>4, Zenon
    <2>1. order'[i].oco = j /\ order'[i].setup = new[i] /\ order'[i].party = p
      BY <2>0
    <2>2. k = 2
      <3>1. j # NoId
        BY <2>1 DEF Linked
      <3>2. k = 1 => i = n + 1
        BY <1>1, <1>4
      <3> QED
        BY <1>1, <3>1, <3>2
    <2>3. (i = n + 1 /\ j = n + 2) \/ (i = n + 2 /\ j = n + 1)
      BY <1>1, <1>4, <2>2
    <2>4. j \in DOMAIN new \ {i} /\ LinkIn(new, j) = i
      BY <1>1, <2>2, <2>3
    <2> HIDE DEF j
    <2>5. order'[j] = [party |-> p, setup |-> new[j], oco |-> i]
      BY <1>2, <2>4, SMTT(30)
    <2> QED
      BY <1>1, <1>2, <1>4, <2>1, <2>2, <2>4, <2>5
  <1> QED
    BY <1>2, <1>3, <1>4

-----------------------------------------------------------------------------
(* Pairs                                                                   *)

\* Orders leave the pool in whole pairs and are reported; nothing is queued.  This is what
\* cancellation, a closed position and an expiry in an auction do.
LEMMA RemovalKeepsPairs ==
  ASSUME PairInv, NEW S, S \subseteq pool, Remove(S),
         \A i \in S : Linked(i) => order[i].oco \in S,
         NEW f \in Fates \ {"stopped"}, fate' = Report(S, f),
         phase # "submit", last' \in Price,
         UNCHANGED <<order, lastSeen, queue, sent>>
  PROVE  PairInv'
  <1> USE DEF PairInv
  <1>0. Issued \subseteq Ids /\ Issued' = Issued
    BY StopOrdersAssumption DEF Typed, Issued, Ids, StopOrdersAssumption
  <1>1. Typed'
    <2>1. fate' \in [Ids -> SUBSET Fates]
      BY DEF Typed, Report
    <2>2. peak' \in [Ids -> Nat]
      BY DEF Typed, Remove
    <2> QED
      BY <1>0, <2>1, <2>2 DEF Typed, Remove
  <1>2. Paired'
    <2> SUFFICES ASSUME NEW i \in Issued, Linked(i)
                 PROVE  i \in pool' <=> order[i].oco \in pool'
      BY <1>0 DEF Paired, Linked
    <2>1. /\ order[i].oco \in Issued /\ order[order[i].oco].oco = i
          /\ i \in pool <=> order[i].oco \in pool
      BY DEF Paired
    <2>2. Linked(order[i].oco)
      BY <2>1, <1>0 DEF Linked, Issued, NoId
    <2>3. i \in S <=> order[i].oco \in S
      BY <2>1, <2>2
    <2> QED
      BY <2>1, <2>3 DEF Remove
  <1>3. queue = {}
    BY DEF Waiting
  <1>4. \A i \in Ids : fate'[i] = fate[i] \/ (i \in S /\ fate'[i] = fate[i] \cup {f})
    BY DEF Report
  <1>5. Waiting'
    <2>1. \A i \in Ids \ Issued : fate'[i] = {}
      BY <1>4 DEF Waiting, Typed
    <2>2. \A i \in pool' : "stopped" \notin fate'[i]
      BY <1>0, <1>4 DEF Waiting, Typed, Remove
    <2> QED
      BY <1>0, <1>3, <2>1, <2>2 DEF Waiting, Remove
  <1>6. Once'
    <2>1. \A i \in Issued : "stopped" \in fate'[i] => "stopped" \in fate[i]
      BY <1>0, <1>4
    <2> QED
      BY <1>0, <2>1 DEF Once, Linked
  <1> QED
    BY <1>1, <1>2, <1>5, <1>6

\* A submission that is pooled: its orders are new, and linked to each other only.
LEMMA SubmitAndPoolKeepsPairs ==
  ASSUME PairInv, NEW p \in Parties, NEW setups \in Submissions, NEW new,
         new = Numbered(setups), Len(order) + Len(setups) <= MaxOrders,
         SubmitAndPool(p, new)
  PROVE  PairInv'
  <1> USE DEF PairInv
  <1> DEFINE n == Len(order)
             k == Len(setups)
  <1>1. /\ n \in Nat /\ k \in {1, 2} /\ DOMAIN new = n + 1 .. n + k
        /\ k = 1 => LinkIn(new, n + 1) = NoId
        /\ k = 2 => /\ LinkIn(new, n + 1) = n + 2 /\ LinkIn(new, n + 2) = n + 1
                    /\ \A i \in DOMAIN new : ~new[i].submit
    BY NewOrders
  <1>2. /\ order' \in Seq(Order) /\ Len(order') = n + k
        /\ \A i \in Issued : order'[i] = order[i]
        /\ \A i \in DOMAIN new :
             order'[i] = [party |-> p, setup |-> new[i], oco |-> LinkIn(new, i)]
        /\ Issued' = Issued \cup DOMAIN new /\ Issued \cap DOMAIN new = {}
        /\ Issued' \subseteq Ids
    <2>1. Appended(p, new, k)
      BY Recorded, Zenon DEF SubmitAndPool
    <2> QED
      BY <2>1, Zenon DEF Appended
  <1>3. /\ pool' = pool \cup DOMAIN new /\ peak' \in [Ids -> Nat]
        /\ UNCHANGED <<queue, fate, sent, last, lastSeen, phase>>
    BY DEF SubmitAndPool, PoolStopOrders, market, Typed, Price
  <1>4. Typed'
    BY <1>2, <1>3, Zenon DEF Typed
  <1>5. Paired'
    <2> SUFFICES ASSUME NEW i \in Issued', Linked(i)'
                 PROVE  /\ order'[i].oco \in Issued' \ {i} /\ order'[order'[i].oco].oco = i
                        /\ order'[order'[i].oco].party = order'[i].party
                        /\ ~order'[i].setup.submit
                        /\ i \in pool' <=> order'[i].oco \in pool'
      BY Zenon DEF Paired
    <2>1. /\ order'[i].oco \in Issued' \ {i} /\ order'[order'[i].oco].oco = i
          /\ order'[order'[i].oco].party = order'[i].party /\ ~order'[i].setup.submit
          /\ i \in Issued => order'[i].oco \in Issued /\ Linked(i) /\ order'[i] = order[i]
          /\ i \in DOMAIN new => order'[i].oco \in DOMAIN new
      BY NewPairs, Zenon DEF SubmitAndPool
    <2>2. i \in Issued => (i \in pool <=> order'[i].oco \in pool)
      BY <2>1 DEF Paired
    <2> QED
      BY <1>2, <1>3, <2>1, <2>2, Zenon
  <1>6. Waiting'
    <2>1. \A i \in DOMAIN new : sent[i] = 0 /\ fate[i] = {}
      BY <1>2 DEF Waiting
    <2>2. queue = {}
      BY DEF Waiting, SubmitAndPool
    <2> QED
      BY <1>2, <1>3, <2>1, <2>2, Zenon DEF Waiting
  <1>7. Once'
    <2> SUFFICES ASSUME NEW i \in Issued'
                 PROVE  /\ sent[i] <= 1 /\ ("stopped" \in fate[i] => sent[i] = 0)
                        /\ Linked(i)' /\ (sent[i] # 0 \/ i \in queue) =>
                             sent[order'[i].oco] = 0 /\ order'[i].oco \notin queue
      BY <1>3, Zenon DEF Once
    <2>1. CASE i \in Issued
      BY <1>2, <2>1, Zenon DEF Once, Linked
    <2>2. CASE i \in DOMAIN new
      <3>1. sent[i] = 0 /\ fate[i] = {} /\ queue = {}
        <4>1. i \in Ids \ Issued /\ phase = "idle"
          BY <1>2, <2>2, Zenon DEF SubmitAndPool
        <4> QED
          BY <4>1 DEF Waiting
      <3> QED
        BY <3>1
    <2> QED
      BY <1>2, <2>1, <2>2, Zenon
  <1> QED
    BY <1>4, <1>5, <1>6, <1>7

\* A submission that is triggered at once: the first order whose price is reached is
\* submitted, the other is stopped, and neither enters the pool.
LEMMA SubmitAndTriggerKeepsPairs ==
  ASSUME PairInv, NEW p \in Parties, NEW setups \in Submissions, NEW new,
         new = Numbered(setups), Len(order) + Len(setups) <= MaxOrders,
         SubmitAndTrigger(p, new)
  PROVE  PairInv'
  <1> USE DEF PairInv
  <1> DEFINE n == Len(order)
             k == Len(setups)
             hit == {i \in DOMAIN new : WouldTrigger(new[i])}
             falls == {i \in hit : new[i].dir = "falls"}
             h == CHOOSE j \in hit : falls # {} => j \in falls
  <1>1. /\ n \in Nat /\ k \in {1, 2} /\ DOMAIN new = n + 1 .. n + k
        /\ k = 1 => LinkIn(new, n + 1) = NoId
        /\ k = 2 => /\ LinkIn(new, n + 1) = n + 2 /\ LinkIn(new, n + 2) = n + 1
                    /\ \A i \in DOMAIN new : ~new[i].submit
    BY NewOrders
  <1>2. /\ order' \in Seq(Order) /\ Len(order') = n + k
        /\ \A i \in Issued : order'[i] = order[i]
        /\ \A i \in DOMAIN new :
             order'[i] = [party |-> p, setup |-> new[i], oco |-> LinkIn(new, i)]
        /\ Issued' = Issued \cup DOMAIN new /\ Issued \cap DOMAIN new = {}
        /\ Issued' \subseteq Ids
    <2>1. Appended(p, new, k)
      BY Recorded, Zenon DEF SubmitAndTrigger
    <2> QED
      BY <2>1, Zenon DEF Appended
  <1>3. /\ sent' = [sent EXCEPT ![h] = @ + 1]
        /\ fate' = [Report(DOMAIN new \ {h}, "stopped") EXCEPT ![h] = @ \cup {"triggered"}]
        /\ phase = "idle" /\ phase' = "trigger" /\ hit # {}
        /\ UNCHANGED <<pool, peak, lastSeen, queue>>
    BY SMTT(30) DEF SubmitAndTrigger, tables
  <1>4. h \in DOMAIN new
    <2>1. \E j \in hit : falls # {} => j \in falls
      BY <1>3
    <2> HIDE DEF falls
    <2>2. h \in hit
      BY <2>1
    <2> QED
      BY <2>2, Zenon
  <1> HIDE DEF h, hit, falls
  <1>5. last' \in Price
    BY Zenon DEF SubmitAndTrigger, Placed, Trades, Rests, Typed
  <1>6. queue = {} /\ \A i \in DOMAIN new : sent[i] = 0 /\ fate[i] = {}
    BY <1>2, <1>3, Zenon DEF Waiting
  <1>7. /\ sent'[h] = 1 /\ \A i \in Ids \ {h} : sent'[i] = sent[i]
        /\ sent' \in [Ids -> Nat]
    BY <1>2, <1>3, <1>4, <1>6 DEF Typed
  <1>8. /\ fate' \in [Ids -> SUBSET Fates] /\ fate'[h] = {"triggered"}
        /\ \A i \in Ids \ DOMAIN new : fate'[i] = fate[i]
    BY <1>2, <1>3, <1>4, <1>6, Zenon DEF Typed, Report, Fates
  <1>9. Typed'
    BY <1>2, <1>3, <1>5, <1>7, <1>8, Zenon DEF Typed
  <1>10. ASSUME NEW i \in Issued', Linked(i)'
         PROVE  /\ order'[i].oco \in Issued' \ {i} /\ order'[order'[i].oco].oco = i
                /\ order'[order'[i].oco].party = order'[i].party /\ ~order'[i].setup.submit
                /\ i \in Issued => order'[i].oco \in Issued /\ Linked(i) /\ order'[i] = order[i]
                /\ i \in DOMAIN new => order'[i].oco \in DOMAIN new
    BY <1>10, NewPairs, Zenon DEF SubmitAndTrigger
  <1>11. Paired'
    <2> SUFFICES ASSUME NEW i \in Issued', Linked(i)'
                 PROVE  i \in pool <=> order'[i].oco \in pool
      BY <1>3, <1>10, Zenon DEF Paired
    <2>1. i \in Issued => (i \in pool <=> order'[i].oco \in pool)
      BY <1>10 DEF Paired
    <2>2. i \in DOMAIN new => i \notin pool /\ order'[i].oco \notin pool
      BY <1>2, <1>10, Zenon DEF Typed
    <2> QED
      BY <1>2, <2>1, <2>2, Zenon
  <1>12. Waiting'
    <2>1. \A i \in pool : i \in Ids \ DOMAIN new /\ i # h
      BY <1>2, <1>4 DEF Typed
    <2>2. \A i \in pool : sent'[i] = 0 /\ "stopped" \notin fate'[i]
      BY <1>7, <1>8, <2>1 DEF Waiting
    <2>3. \A i \in Ids \ Issued' : sent'[i] = 0 /\ fate'[i] = {}
      <3> TAKE i \in Ids \ Issued'
      <3>1. i \notin Issued /\ i \notin DOMAIN new /\ i # h
        BY <1>2, <1>4, Zenon
      <3> QED
        BY <1>7, <1>8, <3>1 DEF Waiting
    <2> QED
      BY <1>3, <1>6, <2>2, <2>3, Zenon DEF Waiting
  <1>13. Once'
    <2> SUFFICES ASSUME NEW i \in Issued'
                 PROVE  /\ sent'[i] <= 1 /\ ("stopped" \in fate'[i] => sent'[i] = 0)
                        /\ Linked(i)' /\ sent'[i] # 0 => sent'[order'[i].oco] = 0
      BY <1>3, <1>6, Zenon DEF Once
    <2>1. CASE i \in Issued
      <3>1. i # h /\ i \in Ids /\ i \notin DOMAIN new
        BY <1>2, <1>4, <2>1, Zenon
      <3>2. sent'[i] = sent[i] /\ fate'[i] = fate[i]
        BY <1>7, <1>8, <3>1
      <3>3. ASSUME Linked(i)'
            PROVE  Linked(i) /\ order'[i] = order[i] /\ sent'[order[i].oco] = sent[order[i].oco]
        <4>1. Linked(i) /\ order'[i] = order[i] /\ order[i].oco \in Issued
          BY <1>10, <2>1, <3>3, Zenon
        <4>2. order[i].oco # h /\ order[i].oco \in Ids
          BY <1>2, <1>4, <4>1, Zenon
        <4> QED
          BY <1>7, <4>1, <4>2
      <3> QED
        BY <2>1, <3>2, <3>3, Zenon DEF Once
    <2>2. CASE i = h
      <3>1. sent'[h] = 1 /\ "stopped" \notin fate'[h]
        BY <1>7, <1>8, Zenon
      <3>2. ASSUME Linked(i)' PROVE sent'[order'[i].oco] = 0
        <4>1. order'[i].oco \in DOMAIN new \ {h}
          BY <1>4, <1>10, <2>2, <3>2, Zenon
        <4> QED
          BY <1>2, <1>6, <1>7, <4>1, Zenon
      <3> QED
        BY <2>2, <3>1, <3>2
    <2>3. CASE i \in DOMAIN new \ {h}
      BY <1>2, <1>6, <1>7, <2>3
    <2> QED
      BY <1>2, <2>1, <2>2, <2>3
  <1> QED
    BY <1>9, <1>11, <1>12, <1>13

\* triggerStopOrders: what is triggered goes to the queue and its other side is stopped;
\* PriceUpdated has found both in the pool.
LEMMA TriggerKeepsPairs ==
  ASSUME PairInv, TriggerStopOrders
  PROVE  PairInv'
  <1> USE DEF PairInv
  <1> DEFINE hit == Triggered
             stopped == Mates(hit)
             wrong == WrongSide(pool \ (hit \cup stopped))
  <1>0. Issued \subseteq Ids /\ Issued' = Issued /\ UNCHANGED <<order, sent, last>>
    BY StopOrdersAssumption
    DEF Typed, Issued, Ids, StopOrdersAssumption, TriggerStopOrders, market
  <1>1. /\ hit \subseteq pool /\ stopped \subseteq pool \ hit
        /\ pool' = pool \ (hit \cup stopped) /\ queue' = hit
        /\ phase' = IF hit = {} THEN "idle" ELSE "submit"
        /\ fate' = [i \in Ids |-> Report(stopped, "stopped")[i] \cup
                                  IF i \in wrong THEN {"cancelled"} ELSE {}]
        /\ peak' = [i \in Ids |-> IF i \in pool' THEN NewPeak(i) ELSE 0]
        /\ lastSeen' = last
    BY Zenon DEF TriggerStopOrders, TriggerIsSafe, StoppedBy, AfterTrigger
  <1>2. \A i \in Issued : i \in stopped <=> Linked(i) /\ order[i].oco \in hit
    <2> TAKE i \in Issued
    <2>1. ASSUME i \in stopped PROVE Linked(i) /\ order[i].oco \in hit
      <3>1. PICK j \in hit : Linked(j) /\ i = order[j].oco
        BY <2>1, Zenon DEF Mates
      <3>2. j \in Issued /\ order[i].oco = j
        BY <1>1, <3>1 DEF Typed, Paired
      <3> QED
        BY <3>1, <3>2, <1>0 DEF Linked, NoId, Issued
    <2>2. ASSUME Linked(i), order[i].oco \in hit PROVE i \in stopped
      <3>1. order[order[i].oco].oco = i
        BY <2>2 DEF Paired
      <3>2. Linked(order[i].oco)
        BY <3>1 DEF Linked, NoId, Issued
      <3> QED
        BY <2>2, <3>1, <3>2 DEF Mates
    <2> QED
      BY <2>1, <2>2
  <1>3. \A i \in Issued : Linked(i) =>
          order[i].oco \in Issued /\ Linked(order[i].oco) /\ order[order[i].oco].oco = i
    BY DEF Paired, Linked, NoId, Issued
  <1> HIDE DEF hit, stopped, wrong
  <1>4. /\ \A i \in Ids \ pool : fate'[i] = fate[i]
        /\ \A i \in Ids \ stopped : "stopped" \in fate'[i] => "stopped" \in fate[i]
        /\ fate' \in [Ids -> SUBSET Fates]
    <2>1. wrong \subseteq pool
      BY DEF wrong, WrongSide
    <2> QED
      BY <1>0, <1>1, <2>1 DEF Report, Typed, Fates
  <1>5. Typed'
    <2>1. \A i \in Ids : NewPeak(i) \in Nat
      BY DEF NewPeak, Typed, Price
    <2>2. peak' \in [Ids -> Nat]
      BY <1>1, <2>1
    <2> QED
      BY <1>0, <1>1, <1>4, <2>2 DEF Typed
  <1>6. Paired'
    <2> SUFFICES ASSUME NEW i \in Issued, Linked(i)
                 PROVE  i \in pool' <=> order[i].oco \in pool'
      BY <1>0 DEF Paired, Linked
    <2>1. i \in hit \cup stopped <=> order[i].oco \in hit \cup stopped
      BY <1>2, <1>3, SMTT(30)
    <2> QED
      BY <1>1, <2>1, Zenon DEF Paired
  <1>7. Waiting'
    <2>1. \A i \in pool' \cup queue' : i \in pool /\ i \notin stopped
      BY <1>1
    <2>2. \A i \in pool' \cup queue' : sent'[i] = 0 /\ "stopped" \notin fate'[i]
      BY <1>0, <1>4, <2>1, SMTT(30) DEF Waiting, Typed
    <2>3. \A i \in Ids \ Issued' : sent'[i] = 0 /\ fate'[i] = {}
      BY <1>0, <1>4 DEF Waiting, Typed
    <2>4. pool' \cap queue' = {} /\ (phase' # "submit" => queue' = {})
      BY <1>1
    <2> QED
      BY <2>2, <2>3, <2>4 DEF Waiting
  <1>8. Once'
    <2> SUFFICES ASSUME NEW i \in Issued
                 PROVE  /\ sent[i] <= 1 /\ ("stopped" \in fate'[i] => sent[i] = 0)
                        /\ Linked(i) /\ (sent[i] # 0 \/ i \in queue') =>
                             sent[order[i].oco] = 0 /\ order[i].oco \notin queue'
      BY <1>0, Zenon DEF Once, Linked
    <2>1. "stopped" \in fate'[i] => sent[i] = 0
      BY <1>0, <1>1, <1>4 DEF Once, Waiting
    <2>2. ASSUME Linked(i), sent[i] # 0
          PROVE  sent[order[i].oco] = 0 /\ order[i].oco \notin queue'
      <3>1. i \notin pool
        BY <2>2 DEF Waiting
      <3> QED
        BY <1>1, <2>2, <3>1 DEF Once, Paired
    <2>3. ASSUME Linked(i), i \in queue'
          PROVE  sent[order[i].oco] = 0 /\ order[i].oco \notin queue'
      <3>1. order[i].oco \in stopped
        BY <1>1, <1>2, <1>3, <2>3
      <3> QED
        BY <1>1, <3>1, Zenon DEF Waiting
    <2> QED
      BY <2>1, <2>2, <2>3 DEF Once
  <1> QED
    BY <1>5, <1>6, <1>7, <1>8, Zenon

\* submitStopOrders takes an order from the queue, and submits it or not.
LEMMA QueueKeepsPairs ==
  ASSUME PairInv, NEW i \in queue, SubmitQueued(i) \/ SkipQueued(i)
  PROVE  PairInv'
  <1> USE DEF PairInv
  <1>0. Issued \subseteq Ids /\ Issued' = Issued /\ UNCHANGED <<order, pool, peak, lastSeen>>
    BY StopOrdersAssumption, SMTT(30)
    DEF Typed, Issued, Ids, StopOrdersAssumption, SubmitQueued, SkipQueued, tables
  <1>1. /\ queue' = queue \ {i} /\ i \in Issued /\ i \in Ids
        /\ phase' # "submit" => queue' = {}
    BY <1>0 DEF Typed, SubmitQueued, SkipQueued, NextInQueue
  <1>2. last' \in Price
    BY Zenon DEF SubmitQueued, SkipQueued, Placed, Trades, Rests, Typed, market
  <1>3. /\ fate' \in [Ids -> SUBSET Fates]
        /\ \A j \in Ids : "stopped" \in fate'[j] <=> "stopped" \in fate[j]
        /\ \A j \in Ids \ {i} : fate'[j] = fate[j]
    <2>1. fate' = fate \/ \E f \in {"triggered", "expired"} : fate' = Report({i}, f)
      BY DEF SubmitQueued, SkipQueued
    <2>2. CASE fate' = fate
      BY <2>2 DEF Typed
    <2>3. ASSUME NEW f \in {"triggered", "expired"}, fate' = Report({i}, f)
          PROVE  <1>3!:
      BY <2>3 DEF Typed, Report, Fates
    <2> QED
      BY <2>1, <2>2, <2>3
  <1>4. /\ sent' \in [Ids -> Nat] /\ sent'[i] \in {sent[i], sent[i] + 1}
        /\ \A j \in Ids \ {i} : sent'[j] = sent[j]
    BY <1>1 DEF Typed, SubmitQueued, SkipQueued
  <1>5. sent[i] = 0 /\ "stopped" \notin fate[i] /\ i \notin pool
    BY DEF Waiting
  <1>6. Typed'
    BY <1>0, <1>1, <1>2, <1>3, <1>4 DEF Typed
  <1>7. Paired'
    BY <1>0, Zenon DEF Paired, Linked
  <1>8. Waiting'
    <2>1. \A j \in Ids \ Issued' : sent'[j] = 0 /\ fate'[j] = {}
      BY <1>0, <1>1, <1>3, <1>4 DEF Waiting
    <2>2. \A j \in pool' \cup queue' : j \in Ids \ {i} /\ j \in pool \cup queue
      BY <1>0, <1>1, <1>5 DEF Typed
    <2>3. \A j \in pool' \cup queue' : sent'[j] = 0 /\ "stopped" \notin fate'[j]
      BY <1>3, <1>4, <2>2 DEF Waiting
    <2> QED
      BY <1>0, <1>1, <2>1, <2>3 DEF Waiting
  <1>9. Once'
    <2> SUFFICES ASSUME NEW j \in Issued
                 PROVE  /\ sent'[j] <= 1 /\ ("stopped" \in fate'[j] => sent'[j] = 0)
                        /\ Linked(j) /\ (sent'[j] # 0 \/ j \in queue') =>
                             sent'[order[j].oco] = 0 /\ order[j].oco \notin queue'
      BY <1>0, Zenon DEF Once, Linked
    <2>1. sent'[j] <= 1 /\ ("stopped" \in fate'[j] => sent'[j] = 0)
      BY <1>0, <1>3, <1>4, <1>5, SMTT(30) DEF Once
    <2>2. ASSUME Linked(j), sent'[j] # 0 \/ j \in queue'
          PROVE  sent'[order[j].oco] = 0 /\ order[j].oco \notin queue'
      <3>1. sent[j] # 0 \/ j \in queue
        BY <1>0, <1>1, <1>4, <2>2, Zenon
      <3>2. sent[order[j].oco] = 0 /\ order[j].oco \notin queue /\ order[j].oco \in Ids
        BY <1>0, <2>2, <3>1, Zenon DEF Once, Paired
      <3> QED
        BY <1>1, <1>4, <3>2
    <2> QED
      BY <2>1, <2>2, Zenon
  <1> QED
    BY <1>6, <1>7, <1>8, <1>9

\* OnTick in continuous trading: what is due leaves with its other side, which is stopped;
\* an order that is submitted at its expiry has no other side.
LEMMA TickKeepsPairs ==
  ASSUME PairInv, Tick
  PROVE  PairInv'
  <1> USE DEF PairInv
  <1> DEFINE due == Due(now + 1)
             stopped == Mates(due) \ due
             submit == {i \in due : order[i].setup.submit}
  <1>0. Issued \subseteq Ids /\ Issued' = Issued /\ UNCHANGED <<order, sent, last, lastSeen>>
    BY StopOrdersAssumption
    DEF Typed, Issued, Ids, StopOrdersAssumption, Tick, market
  <1>1. /\ due \subseteq pool /\ Remove(due \cup stopped) /\ queue' = submit
        /\ fate' = [i \in Ids |-> Report(due \ submit, "expired")[i] \cup
                                  IF i \in stopped THEN {"stopped"} ELSE {}]
        /\ phase = "idle" /\ phase' = IF submit = {} THEN "idle" ELSE "submit"
    BY Zenon DEF Tick, ExpiryIsSafe
  <1>2. \A i \in Issued : Linked(i) =>
          order[i].oco \in Issued /\ Linked(order[i].oco) /\ order[order[i].oco].oco = i
    BY DEF Paired, Linked, NoId, Issued
  <1>3. \A i \in Issued : i \in Mates(due) <=> Linked(i) /\ order[i].oco \in due
    <2> TAKE i \in Issued
    <2>1. ASSUME i \in Mates(due) PROVE Linked(i) /\ order[i].oco \in due
      <3>1. PICK j \in due : Linked(j) /\ i = order[j].oco
        BY <2>1 DEF Mates
      <3>2. j \in Issued /\ order[i].oco = j
        BY <1>1, <3>1, Zenon DEF Typed, Paired
      <3> QED
        BY <3>1, <3>2, <1>0 DEF Linked, NoId, Issued
    <2>2. ASSUME Linked(i), order[i].oco \in due PROVE i \in Mates(due)
      BY <1>2, <2>2 DEF Mates
    <2> QED
      BY <2>1, <2>2
  <1>4. stopped \subseteq pool
    <2> SUFFICES ASSUME NEW i \in Mates(due) PROVE i \in pool
      OBVIOUS
    <2>1. PICK j \in due : Linked(j) /\ i = order[j].oco
      BY DEF Mates
    <2> QED
      BY <1>1, <2>1, Zenon DEF Typed, Paired
  <1>5. submit \subseteq due /\ \A i \in submit : ~Linked(i)
    BY <1>1, Zenon DEF Typed, Paired
  <1>6. stopped \cap due = {}
    OBVIOUS
  <1>7. \A i \in Issued : Linked(i) =>
          (i \in due \cup stopped <=> order[i].oco \in due \cup stopped)
    BY <1>2, <1>3
  <1> HIDE DEF due, stopped, submit
  <1>8. /\ \A i \in Ids \ pool : fate'[i] = fate[i]
        /\ \A i \in Ids \ stopped : "stopped" \in fate'[i] => "stopped" \in fate[i]
        /\ fate' \in [Ids -> SUBSET Fates]
    BY <1>0, <1>1, <1>4, <1>5, Zenon DEF Report, Typed, Fates
  <1>9. pool' = pool \ (due \cup stopped) /\ peak' \in [Ids -> Nat]
    BY <1>1 DEF Remove, Typed
  <1>10. Typed'
    BY <1>0, <1>1, <1>5, <1>8, <1>9, Zenon DEF Typed
  <1>11. Paired'
    <2> SUFFICES ASSUME NEW i \in Issued, Linked(i)
                 PROVE  i \in pool' <=> order[i].oco \in pool'
      BY <1>0, Zenon DEF Paired, Linked
    <2> QED
      BY <1>7, <1>9, Zenon DEF Paired
  <1>12. Waiting'
    <2>1. \A i \in pool' \cup queue' : i \in pool /\ i \notin stopped
      BY <1>1, <1>5, <1>6, <1>9
    <2>2. \A i \in pool' \cup queue' : sent'[i] = 0 /\ "stopped" \notin fate'[i]
      BY <1>0, <1>8, <2>1 DEF Waiting, Typed
    <2>3. \A i \in Ids \ Issued' : sent'[i] = 0 /\ fate'[i] = {}
      BY <1>0, <1>8 DEF Waiting, Typed
    <2>4. pool' \cap queue' = {} /\ (phase' # "submit" => queue' = {})
      BY <1>1, <1>5, <1>9
    <2> QED
      BY <2>2, <2>3, <2>4 DEF Waiting
  <1>13. Once'
    <2> SUFFICES ASSUME NEW i \in Issued
                 PROVE  /\ sent[i] <= 1 /\ ("stopped" \in fate'[i] => sent[i] = 0)
                        /\ Linked(i) /\ (sent[i] # 0 \/ i \in queue') =>
                             sent[order[i].oco] = 0 /\ order[i].oco \notin queue'
      BY <1>0, Zenon DEF Once, Linked
    <2>1. "stopped" \in fate'[i] => sent[i] = 0
      BY <1>0, <1>4, <1>8, Zenon DEF Once, Waiting
    <2>2. Linked(i) => i \notin queue' /\ order[i].oco \notin queue'
      BY <1>1, <1>2, <1>5
    <2> QED
      BY <2>1, <2>2, Zenon DEF Once
  <1> QED
    BY <1>10, <1>11, <1>12, <1>13, SMTT(30)

\* Every step of the market keeps the pairs in order.
LEMMA PairStep ==
  ASSUME PairInv, [Next]_vars
  PROVE  PairInv'
  <1> USE DEF PairInv
  <1>0. \A i \in Issued : Linked(i) =>
          order[i].oco \in Issued /\ Linked(order[i].oco) /\ order[order[i].oco].oco = i
    BY DEF Paired, Linked, NoId, Issued
  <1>1. CASE SubmitStopOrders
    <2>1. PICK p \in Parties, setups \in Submissions :
            /\ Len(order) + Len(setups) <= MaxOrders
            /\ \/ SubmitAndPool(p, Numbered(setups))
               \/ SubmitAndTrigger(p, Numbered(setups))
      BY <1>1 DEF SubmitStopOrders
    <2>2. PICK new : new = Numbered(setups)
      OBVIOUS
    <2>3. SubmitAndPool(p, new) \/ SubmitAndTrigger(p, new)
      BY <2>1, <2>2, Zenon
    <2> QED
      BY <2>1, <2>2, <2>3, SubmitAndPoolKeepsPairs, SubmitAndTriggerKeepsPairs
  <1>2. CASE OrderHandled
    <2>1. /\ last' \in Price /\ phase = "idle"
          /\ UNCHANGED <<order, pool, lastSeen, queue, fate, sent, peak>>
      BY <1>2, Zenon DEF OrderHandled, Placed, Trades, Rests, Typed, tables
    <2> QED
      BY <2>1, Zenon DEF Typed, Paired, Waiting, Once, Issued, Linked
  <1>3. CASE Tick
    BY <1>3, TickKeepsPairs, Zenon
  <1>4. CASE AuctionTick
    <2> DEFINE gone == Due(now + 1) \cup Mates(Due(now + 1))
    <2>1. /\ Due(now + 1) \subseteq pool /\ Remove(gone) /\ fate' = Report(gone, "expired")
          /\ phase = "idle" /\ last' \in Price /\ UNCHANGED <<order, lastSeen, queue, sent>>
      BY <1>4, Zenon DEF AuctionTick, ExpiryIsSafe, Typed, market
    <2>2. gone \subseteq pool /\ \A i \in gone : Linked(i) => order[i].oco \in gone
      <3>1. \A j \in Due(now + 1) : Linked(j) => j \in Issued /\ order[j].oco \in pool
        BY <2>1, Zenon DEF Typed, Paired
      <3> QED
        BY <1>0, <2>1, <3>1 DEF Mates
    <2> HIDE DEF gone
    <2> QED
      BY <2>1, <2>2, RemovalKeepsPairs DEF Fates
  <1>5. ASSUME NEW i \in pool, CancelStopOrder(i) PROVE PairInv'
    <2> DEFINE gone == {i} \cup Mates({i})
    <2>1. /\ Remove(gone) /\ fate' = Report(gone, "cancelled")
          /\ phase = "idle" /\ last' \in Price /\ UNCHANGED <<order, lastSeen, queue, sent>>
      BY <1>5 DEF CancelStopOrder, CancelledWith, Typed, market
    <2>2. gone \subseteq pool /\ \A j \in gone : Linked(j) => order[j].oco \in gone
      <3>1. i \in Issued /\ (Linked(i) => order[i].oco \in pool)
        BY Zenon DEF Typed, Paired
      <3> QED
        BY <1>0, <3>1, ZenonT(40) DEF Mates
    <2> HIDE DEF gone
    <2> QED
      BY <2>1, <2>2, RemovalKeepsPairs DEF Fates
  <1>6. ASSUME NEW p \in Parties, CancelAllStopOrders(p) \/ ClosePosition(p) PROVE PairInv'
    <2>1. /\ Remove(Of(p)) /\ fate' = Report(Of(p), "cancelled")
          /\ phase = "idle" /\ last' \in Price /\ UNCHANGED <<order, lastSeen, queue, sent>>
      BY <1>6, Zenon DEF CancelAllStopOrders, ClosePosition, Typed, market
    <2>2. Of(p) \subseteq pool /\ \A i \in Of(p) : Linked(i) => order[i].oco \in Of(p)
      BY DEF Of, Typed, Paired
    <2> QED
      BY <2>1, <2>2, RemovalKeepsPairs DEF Fates
  <1>7. CASE TriggerStopOrders
    BY <1>7, TriggerKeepsPairs
  <1>8. ASSUME NEW i \in queue, SubmitQueued(i) \/ SkipQueued(i) PROVE PairInv'
    BY <1>8, QueueKeepsPairs
  <1>9. CASE UNCHANGED vars
    BY <1>9, Zenon DEF vars, tables, market, Typed, Paired, Waiting, Once, Issued, Linked
  <1> QED
    BY <1>1, <1>2, <1>3, <1>4, <1>5, <1>6, <1>7, <1>8, <1>9, Zenon DEF Next, Finish

\* A market starts without stop orders, so with no pair out of order (New).
LEMMA PairInit ==
  ASSUME Init
  PROVE  PairInv
  <1>1. order \in Seq(Order) /\ Len(order) = 0 /\ Issued = {}
    BY DEF Init, Issued
  <1>2. Typed
    BY <1>1, StopOrdersAssumption DEF Init, Typed, StopOrdersAssumption, Fates
  <1>3. Paired /\ Waiting /\ Once
    BY <1>1, Zenon DEF Init, Paired, Waiting, Once
  <1> QED
    BY <1>2, <1>3 DEF PairInv

\* The pairs are in order in every state of a market, whatever its handlers do.
THEOREM PairsInvariant == Spec => []PairInv
  <1>1. Init => PairInv
    BY PairInit
  <1>2. PairInv /\ [Next]_vars => PairInv'
    BY PairStep
  <1> QED
    BY <1>1, <1>2, PTL DEF Spec

\* One cancels the other (PriceUpdated, removeWithOCO, RemoveExpired): whatever trades,
\* expires and is cancelled, at most one order of a pair is submitted, at most once, and
\* none that was reported stopped.
THEOREM OnlyOneOfAPair == Spec => []OneCancelsOther
  <1>1. PairInv => OneCancelsOther
    BY DEF PairInv, Paired, Waiting, Once, OneCancelsOther, Issued
  <1> QED
    BY <1>1, PairsInvariant, PTL

-----------------------------------------------------------------------------
(* Trailing orders                                                         *)

TrailEntry ==
  [dir : {"falls", "rises"}, price : Price, offset : 1 .. 99, id : Ids]

\* Every entry of the tree of trailing orders is of a pooled order and at its peak; a peak
\* is on the far side of the price the tree has seen last, which is what lets adjustBuckets
\* move the buckets on one side only.
TrailInv ==
  /\ trailing \subseteq TrailEntry
  /\ \A x \in trailing :
       /\ x.id \in pool /\ order[x.id].setup.kind = "trailing"
       /\ x.dir = order[x.id].setup.dir /\ x.price = peak[x.id]
       /\ IF x.dir = "falls" THEN x.price >= lastSeen ELSE x.price <= lastSeen
  /\ \A i \in pool : order[i].setup.kind = "trailing" => \E x \in trailing : x.id = i

\* Orders that leave the pool leave the tree.
LEMMA RemovalKeepsTrails ==
  ASSUME PairInv, TrailInv, NEW S, Remove(S), UNCHANGED <<order, lastSeen>>
  PROVE  TrailInv'
  <1>1. /\ pool' = pool \ S /\ trailing' = {x \in trailing : x.id \notin S}
        /\ \A i \in Ids \ S : peak'[i] = peak[i]
    BY DEF Remove
  <1>2. \A x \in trailing' : x \in trailing /\ x.id \in Ids \ S
    BY <1>1 DEF TrailInv, TrailEntry
  <1> QED
    BY <1>1, <1>2 DEF TrailInv

\* A new order hangs on the price the tree has seen last (Insert).
LEMMA PoolingKeepsTrails ==
  ASSUME PairInv, TrailInv, NEW p \in Parties, NEW setups \in Submissions, NEW new,
         new = Numbered(setups), Len(order) + Len(setups) <= MaxOrders,
         SubmitAndPool(p, new)
  PROVE  TrailInv'
  <1>1. \A i \in DOMAIN new : new[i] \in Setup
    BY NewOrders DEF PairInv
  <1>2. /\ \A i \in Issued : order'[i] = order[i]
        /\ \A i \in DOMAIN new : order'[i].setup = new[i]
        /\ Issued' = Issued \cup DOMAIN new /\ Issued \cap DOMAIN new = {}
        /\ Issued' \subseteq Ids
    <2>1. Appended(p, new, Len(setups))
      BY Recorded DEF SubmitAndPool, PairInv
    <2> QED
      BY <2>1, Zenon DEF Appended
  <1> DEFINE added == {[dir |-> new[i].dir, price |-> lastSeen, offset |-> new[i].at, id |-> i]
                       : i \in {j \in DOMAIN new : new[j].kind = "trailing"}}
  <1>3. /\ pool' = pool \cup DOMAIN new /\ trailing' = trailing \cup added
        /\ peak' = [i \in Ids |-> IF i \in DOMAIN new THEN lastSeen ELSE peak[i]]
        /\ lastSeen' = lastSeen
    BY Zenon DEF SubmitAndPool, PoolStopOrders
  <1>4. lastSeen \in Price /\ lastSeen \in Int /\ pool \subseteq Issued
    BY DEF PairInv, Typed, Price
  <1>5. \A x \in added :
          /\ x \in TrailEntry /\ x.id \in DOMAIN new /\ new[x.id].kind = "trailing"
          /\ x.dir = new[x.id].dir /\ x.price = lastSeen
    <2> TAKE x \in added
    <2>1. PICK i \in DOMAIN new :
            /\ new[i].kind = "trailing"
            /\ x = [dir |-> new[i].dir, price |-> lastSeen, offset |-> new[i].at, id |-> i]
      BY Zenon
    <2>2. x.dir = new[i].dir /\ x.price = lastSeen /\ x.id = i
      BY <2>1, Zenon
    <2>3. new[i].dir \in {"falls", "rises"} /\ new[i].at \in 1 .. 99 /\ i \in Ids
      <3>1. new[i] \in Setup
        BY <1>1, Zenon
      <3>2. i \in Ids
        BY <1>2, Zenon
      <3> QED
        BY <2>1, <3>1, <3>2 DEF Setup
    <2>4. x \in TrailEntry
      BY <1>4, <2>1, <2>3 DEF TrailEntry
    <2> QED
      BY <2>1, <2>2, <2>4, Zenon
  <1>6. \A i \in DOMAIN new : new[i].kind = "trailing" => \E x \in added : x.id = i
    <2> SUFFICES ASSUME NEW i \in DOMAIN new, new[i].kind = "trailing"
                 PROVE  \E x \in added : x.id = i
      BY Zenon
    <2> DEFINE e == [dir |-> new[i].dir, price |-> lastSeen, offset |-> new[i].at, id |-> i]
    <2>1. e \in added
      BY Zenon
    <2>2. e.id = i
      BY Zenon
    <2> QED
      BY <2>1, <2>2, Zenon
  <1> HIDE DEF added
  <1>7. ASSUME NEW x \in trailing'
        PROVE  /\ x \in TrailEntry
               /\ x.id \in pool' /\ order'[x.id].setup.kind = "trailing"
               /\ x.dir = order'[x.id].setup.dir /\ x.price = peak'[x.id]
               /\ IF x.dir = "falls" THEN x.price >= lastSeen ELSE x.price <= lastSeen
    <2>1. CASE x \in trailing
      <3>1. x.id \in Issued /\ x.id \in Ids /\ x.id \notin DOMAIN new
        BY <1>2, <1>4, <2>1 DEF TrailInv
      <3> QED
        BY <1>2, <1>3, <2>1, <3>1, Zenon DEF TrailInv
    <2>2. CASE x \in added
      <3>1. x.id \in DOMAIN new /\ x.id \in Ids /\ order'[x.id].setup = new[x.id]
        BY <1>2, <1>5, <2>2, Zenon
      <3> QED
        <4>1. /\ x \in TrailEntry /\ new[x.id].kind = "trailing"
              /\ x.dir = new[x.id].dir /\ x.price = lastSeen
          BY <1>5, <2>2, Zenon
        <4>2. x.id \in pool' /\ peak'[x.id] = lastSeen
          BY <1>3, <3>1
        <4>3. lastSeen >= lastSeen /\ lastSeen <= lastSeen
          BY <1>4
        <4> QED
          BY <3>1, <4>1, <4>2, <4>3, Zenon
    <2> QED
      BY <1>3, <2>1, <2>2, Zenon
  <1>8. ASSUME NEW i \in pool', order'[i].setup.kind = "trailing"
        PROVE  \E x \in trailing' : x.id = i
    <2>1. CASE i \in pool
      BY <1>2, <1>3, <1>4, <1>8, <2>1, Zenon DEF TrailInv
    <2>2. CASE i \in DOMAIN new
      <3>1. new[i].kind = "trailing"
        BY <1>2, <1>8, <2>2, Zenon
      <3> QED
        BY <1>3, <1>6, <2>2, <3>1, Zenon
    <2> QED
      BY <1>3, <2>1, <2>2
  <1> QED
    BY <1>3, <1>7, <1>8, Zenon DEF TrailInv

\* adjustBuckets moves an entry exactly when its peak moves.
LEMMA TriggerKeepsTrails ==
  ASSUME PairInv, TrailInv, TriggerStopOrders
  PROVE  TrailInv'
  <1>1. /\ pool' \subseteq pool /\ order' = order /\ lastSeen' = last
        /\ trailing' = {x \in Adjusted(last) : x.id \in pool'}
        /\ peak' = [i \in Ids |-> IF i \in pool' THEN NewPeak(i) ELSE 0]
    BY Zenon DEF TriggerStopOrders
  <1>2. last \in Price /\ last \in Int /\ lastSeen \in Int
    BY DEF PairInv, Typed, Price
  <1> DEFINE moved(y) == [y EXCEPT !.price =
               IF \/ lastSeen < last /\ y.dir = "falls" /\ y.price < last
                  \/ lastSeen > last /\ y.dir = "rises" /\ y.price > last
               THEN last ELSE y.price]
  <1>3. \A y \in trailing : /\ moved(y) \in TrailEntry
                            /\ moved(y).id = y.id /\ moved(y).dir = y.dir
                            /\ y.dir \in {"falls", "rises"} /\ y.price \in Int /\ y.id \in Ids
    BY <1>2 DEF TrailInv, TrailEntry, Price
  <1>4. \A y \in trailing : moved(y).price = NewPeak(y.id)
    <2> TAKE y \in trailing
    <2>1. /\ y.dir \in {"falls", "rises"} /\ y.price \in Int /\ y.price = peak[y.id]
          /\ y.dir = order[y.id].setup.dir
          /\ IF y.dir = "falls" THEN y.price >= lastSeen ELSE y.price <= lastSeen
      BY <1>3, Zenon DEF TrailInv
    <2>2. moved(y).price = IF \/ lastSeen < last /\ y.dir = "falls" /\ y.price < last
                              \/ lastSeen > last /\ y.dir = "rises" /\ y.price > last
                           THEN last ELSE y.price
      BY DEF TrailInv, TrailEntry
    <2> QED
      BY <1>2, <2>1, <2>2 DEF NewPeak
  <1>5. Adjusted(last) = {moved(y) : y \in trailing}
    BY DEF Adjusted
  <1> HIDE DEF moved
  <1>6. ASSUME NEW x \in trailing'
        PROVE  /\ x \in TrailEntry
               /\ x.id \in pool' /\ order[x.id].setup.kind = "trailing"
               /\ x.dir = order[x.id].setup.dir /\ x.price = peak'[x.id]
               /\ IF x.dir = "falls" THEN x.price >= last ELSE x.price <= last
    <2>1. PICK y \in trailing : x = moved(y)
      BY <1>1, <1>5
    <2>2. /\ x \in TrailEntry /\ x.id = y.id /\ x.dir = y.dir /\ x.id \in pool' /\ x.id \in Ids
          /\ x.price = NewPeak(y.id)
      BY <1>1, <1>3, <1>4, <2>1, Zenon
    <2>3. order[x.id].setup.kind = "trailing" /\ x.dir = order[x.id].setup.dir
      BY <2>2 DEF TrailInv
    <2>4. x.price = peak'[x.id]
      BY <1>1, <2>2
    <2>5. peak[x.id] \in Int
      BY <2>2 DEF PairInv, Typed
    <2>6. IF x.dir = "falls" THEN x.price >= last ELSE x.price <= last
      BY <1>2, <2>2, <2>3, <2>5 DEF NewPeak
    <2> QED
      BY <2>2, <2>3, <2>4, <2>6, Zenon
  <1>7. ASSUME NEW i \in pool', order[i].setup.kind = "trailing"
        PROVE  \E x \in trailing' : x.id = i
    <2>1. PICK y \in trailing : y.id = i
      BY <1>1, <1>7 DEF TrailInv
    <2>2. moved(y) \in trailing' /\ moved(y).id = i
      BY <1>1, <1>3, <1>5, <2>1
    <2> QED
      BY <2>2, Zenon
  <1> QED
    BY <1>1, <1>6, <1>7, Zenon DEF TrailInv

\* Every handler keeps the entries of the trailing tree at their peaks.
LEMMA TrailStep ==
  ASSUME PairInv, TrailInv, [Next]_vars
  PROVE  TrailInv'
  <1>1. ASSUME NEW p \in Parties, NEW setups \in Submissions, NEW new,
               new = Numbered(setups), Len(order) + Len(setups) <= MaxOrders,
               SubmitAndTrigger(p, new)
        PROVE  TrailInv'
    <2>1. /\ \A i \in Issued : order'[i] = order[i]
          /\ UNCHANGED <<pool, trailing, lastSeen, peak>> /\ pool \subseteq Issued
      <3>1. Appended(p, new, Len(setups))
        BY <1>1, Recorded DEF SubmitAndTrigger, PairInv
      <3> QED
        BY <1>1, <3>1, Zenon DEF Appended, SubmitAndTrigger, tables, PairInv, Typed
    <2> QED
      BY <2>1 DEF TrailInv
  <1>2. CASE SubmitStopOrders
    <2>1. PICK p \in Parties, setups \in Submissions :
            /\ Len(order) + Len(setups) <= MaxOrders
            /\ \/ SubmitAndPool(p, Numbered(setups))
               \/ SubmitAndTrigger(p, Numbered(setups))
      BY <1>2 DEF SubmitStopOrders
    <2>2. PICK new : new = Numbered(setups)
      OBVIOUS
    <2>3. SubmitAndPool(p, new) \/ SubmitAndTrigger(p, new)
      BY <2>1, <2>2
    <2> QED
      BY <1>1, <2>1, <2>2, <2>3, PoolingKeepsTrails
  <1>3. CASE Tick \/ AuctionTick
    <2>1. \E S : Remove(S) /\ UNCHANGED <<order, lastSeen>>
      BY <1>3, Zenon DEF Tick, AuctionTick
    <2> QED
      BY <2>1, RemovalKeepsTrails
  <1>4. ASSUME NEW i \in pool, CancelStopOrder(i) PROVE TrailInv'
    BY <1>4, RemovalKeepsTrails DEF CancelStopOrder
  <1>5. ASSUME NEW p \in Parties, CancelAllStopOrders(p) \/ ClosePosition(p) PROVE TrailInv'
    BY <1>5, RemovalKeepsTrails DEF CancelAllStopOrders, ClosePosition
  <1>6. CASE TriggerStopOrders
    BY <1>6, TriggerKeepsTrails, Zenon
  <1>7. CASE OrderHandled \/ (\E i \in queue : SubmitQueued(i) \/ SkipQueued(i)) \/ UNCHANGED vars
    <2>1. UNCHANGED <<order, pool, trailing, lastSeen, peak>>
      BY <1>7, Zenon DEF OrderHandled, SubmitQueued, SkipQueued, tables, vars
    <2> QED
      BY <2>1 DEF TrailInv
  <1> QED
    BY <1>2, <1>3, <1>4, <1>5, <1>6, <1>7, Zenon DEF Next, Finish

\* A trailing stop order hangs on the highest price (lowest, if it rises above) the pool
\* was told of since it was inserted, through every merge of buckets (adjustBuckets).
THEOREM TrailingOrdersFollowThePeak == Spec => []TrailsThePeak
  <1>1. Init => TrailInv
    BY DEF Init, TrailInv
  <1>2. PairInv /\ TrailInv /\ [Next]_vars => TrailInv'
    BY TrailStep
  <1>3. TrailInv => TrailsThePeak
    <2> SUFFICES ASSUME TrailInv, NEW i \in pool, order[i].setup.kind = "trailing"
                 PROVE  {x.price : x \in {y \in trailing : y.id = i}} = {peak[i]}
      BY DEF TrailsThePeak
    <2>1. \A x \in trailing : x.id = i => x.price = peak[i]
      BY DEF TrailInv
    <2>2. PICK x \in trailing : x.id = i
      BY DEF TrailInv
    <2> QED
      BY <2>1, <2>2
  <1> QED
    BY <1>1, <1>2, <1>3, PairsInvariant, PTL DEF Spec

-----------------------------------------------------------------------------
(* Nothing left triggered                                                  *)

\* The tree of prices knows every pooled order that waits for a price.  From the pass of
\* triggerStopOrders that told the pool of the price until something trades, no pooled
\* order is triggered by it, but for those that are pooled in an auction; and an auction
\* ends in a handler that looks for triggers.
LeftInv ==
  /\ \A i \in pool : order[i].setup.kind = "price" => Entry(i) \in priced
  /\ ~auction /\ told /\ phase # "trigger" =>
       \A i \in pool : ~WouldTrigger(order[i].setup)

\* Orders leave the pool, and the price stays or a trigger is looked for.
LEMMA RemovalKeepsLeft ==
  ASSUME LeftInv, NEW S, Remove(S), UNCHANGED order, phase = "idle",
         UNCHANGED <<last, auction, told>> \/ phase' = "trigger"
  PROVE  LeftInv'
  <1>1. pool' = pool \ S /\ priced' = {x \in priced : x.id \notin S}
    BY DEF Remove
  <1>2. \A i : Entry(i)' = Entry(i) /\ Entry(i).id = i
    BY Zenon DEF Entry
  <1>3. \A i \in pool' : order[i].setup.kind = "price" => Entry(i) \in priced'
    BY <1>1, <1>2 DEF LeftInv
  <1>4. ASSUME ~auction', told', phase' # "trigger", NEW i \in pool'
        PROVE  ~WouldTrigger(order[i].setup)'
    <2>1. ~WouldTrigger(order[i].setup)
      BY <1>1, <1>4, Zenon DEF LeftInv
    <2> QED
      BY <1>4, <2>1, Zenon DEF WouldTrigger
  <1> QED
    BY <1>2, <1>3, <1>4, Zenon DEF LeftInv

\* What is pooled in continuous trading is not triggered by the last price
\* (stopOrderWouldTriggerAtSubmission).
LEMMA PoolingKeepsLeft ==
  ASSUME PairInv, LeftInv, NEW p \in Parties, NEW setups \in Submissions, NEW new,
         new = Numbered(setups), Len(order) + Len(setups) <= MaxOrders,
         SubmitAndPool(p, new)
  PROVE  LeftInv'
  <1>1. /\ \A i \in Issued : order'[i] = order[i]
        /\ \A i \in DOMAIN new : order'[i].setup = new[i]
        /\ pool \subseteq Issued
    <2>1. Appended(p, new, Len(setups))
      BY Recorded DEF SubmitAndPool, PairInv
    <2> QED
      BY <2>1, Zenon DEF Appended, PairInv, Typed
  <1>2. /\ pool' = pool \cup DOMAIN new
        /\ priced' = priced \cup
             {[dir |-> new[i].dir, price |-> new[i].at, id |-> i]
              : i \in {i \in DOMAIN new : new[i].kind = "price"}}
        /\ UNCHANGED <<last, auction, told, phase>> /\ phase = "idle"
        /\ auction \/ \A i \in DOMAIN new : ~WouldTrigger(new[i])
    BY Zenon DEF SubmitAndPool, PoolStopOrders, market
  <1>3. ASSUME NEW i \in pool', order'[i].setup.kind = "price" PROVE Entry(i)' \in priced'
    <2>1. CASE i \in pool
      <3>1. Entry(i)' = Entry(i) /\ Entry(i) \in priced
        BY <1>1, <1>3, <2>1, Zenon DEF Entry, LeftInv
      <3> QED
        BY <1>2, <3>1, ZenonT(30)
    <2>2. CASE i \in DOMAIN new
      <3>1. order'[i].setup = new[i]
        BY <1>1, <2>2, Zenon
      <3>2. Entry(i)' = [dir |-> new[i].dir, price |-> new[i].at, id |-> i]
        BY <3>1, Zenon DEF Entry
      <3>3. new[i].kind = "price"
        BY <1>3, <3>1, Zenon
      <3> QED
        BY <1>2, <2>2, <3>2, <3>3, Zenon
    <2> QED
      BY <1>2, <2>1, <2>2, Zenon
  <1>4. ASSUME ~auction', told', phase' # "trigger", NEW i \in pool'
        PROVE  ~WouldTrigger(order[i].setup)'
    <2>1. CASE i \in pool
      <3>1. order'[i] = order[i]
        BY <1>1, <2>1, Zenon
      <3>2. ~auction /\ told /\ phase # "trigger"
        BY <1>2, <1>4, Zenon
      <3>3. ~WouldTrigger(order[i].setup)
        BY <2>1, <3>2, Zenon DEF LeftInv
      <3>4. last' = last
        BY <1>2, Zenon
      <3> QED
        BY <3>1, <3>3, <3>4 DEF WouldTrigger
    <2>2. CASE i \in DOMAIN new
      <3>1. ~WouldTrigger(new[i]) /\ order'[i].setup = new[i]
        BY <1>1, <1>2, <1>4, <2>2, Zenon
      <3> QED
        BY <1>2, <3>1, Zenon DEF WouldTrigger
    <2> QED
      BY <1>2, <2>1, <2>2, Zenon
  <1> QED
    BY <1>3, <1>4, Zenon DEF LeftInv

\* PriceUpdated takes every order out of the tree that the price has reached.
LEMMA TriggerKeepsLeft ==
  ASSUME PairInv, LeftInv, TriggerStopOrders
  PROVE  LeftInv'
  <1>1. /\ pool' \subseteq pool \ PricedHit(last) /\ priced' = {x \in priced : x.id \in pool'}
        /\ UNCHANGED <<order, last>>
    BY Zenon DEF TriggerStopOrders, Triggered
  <1>2. \A i : Entry(i)' = Entry(i) /\ Entry(i).id = i
    BY <1>1, Zenon DEF Entry
  <1>3. \A i \in pool' : order[i].setup.kind = "price" => Entry(i) \in priced'
    BY <1>1, <1>2 DEF LeftInv
  <1>4. ASSUME NEW i \in pool', WouldTrigger(order[i].setup) PROVE FALSE
    <2>1. i \in pool /\ order[i].setup.kind = "price" /\ Entry(i) \in priced
      BY <1>1, <1>4, Zenon DEF WouldTrigger, LeftInv
    <2>2. order[i].setup \in Setup
      <3>1. order \in Seq(Order) /\ i \in 1 .. Len(order)
        BY <2>1 DEF PairInv, Typed, Issued
      <3>2. order[i] \in Order
        BY <3>1
      <3> QED
        BY <3>2 DEF Order
    <2>3. order[i].setup.at \in Int /\ last \in Int /\ order[i].setup.dir \in {"falls", "rises"}
      <3>1. last \in Int
        BY SMTT(30) DEF Price, PairInv, Typed
      <3>2. order[i].setup.at \in 1 .. 99 \cup Price /\ order[i].setup.dir \in {"falls", "rises"}
        BY <2>2 DEF Setup
      <3> QED
        BY <3>1, <3>2 DEF Price
    <2>4. /\ Entry(i).dir = order[i].setup.dir /\ Entry(i).price = order[i].setup.at
          /\ Entry(i).id = i
      BY Zenon DEF Entry
    <2>5. \/ Entry(i).dir = "falls" /\ Entry(i).price > last - 1
          \/ Entry(i).dir = "rises" /\ Entry(i).price < last + 1
      BY <1>4, <2>3, <2>4 DEF WouldTrigger
    <2>6. i \in PricedHit(last)
      BY <2>1, <2>4, <2>5, Zenon DEF PricedHit
    <2> QED
      BY <1>1, <2>6, Zenon
  <1>5. \A i \in pool' : ~WouldTrigger(order[i].setup)'
    BY <1>1, <1>4 DEF WouldTrigger
  <1> QED
    BY <1>1, <1>2, <1>3, <1>5, Zenon DEF LeftInv

\* Every handler keeps the tree of prices complete, and leaves nothing triggered behind a
\* price the pool was told of.
LEMMA LeftStep ==
  ASSUME PairInv, LeftInv, [Next]_vars
  PROVE  LeftInv'
  <1>1. ASSUME NEW p \in Parties, NEW setups \in Submissions, NEW new,
               new = Numbered(setups), Len(order) + Len(setups) <= MaxOrders,
               SubmitAndTrigger(p, new)
        PROVE  LeftInv'
    <2>1. /\ \A i \in Issued : order'[i] = order[i]
          /\ UNCHANGED <<pool, priced>> /\ pool \subseteq Issued /\ phase' = "trigger"
      <3>1. Appended(p, new, Len(setups))
        BY <1>1, Recorded DEF SubmitAndTrigger, PairInv
      <3> QED
        BY <1>1, <3>1, Zenon DEF Appended, SubmitAndTrigger, tables, PairInv, Typed
    <2> QED
      BY <2>1 DEF LeftInv, Entry
  <1>2. CASE SubmitStopOrders
    <2>1. PICK p \in Parties, setups \in Submissions :
            /\ Len(order) + Len(setups) <= MaxOrders
            /\ \/ SubmitAndPool(p, Numbered(setups))
               \/ SubmitAndTrigger(p, Numbered(setups))
      BY <1>2 DEF SubmitStopOrders
    <2>2. PICK new : new = Numbered(setups)
      OBVIOUS
    <2>3. SubmitAndPool(p, new) \/ SubmitAndTrigger(p, new)
      BY <2>1, <2>2
    <2> QED
      BY <1>1, <2>1, <2>2, <2>3, PoolingKeepsLeft
  <1>3. CASE Tick \/ AuctionTick
    <2>1. /\ \E S : Remove(S)
          /\ UNCHANGED order /\ phase = "idle"
          /\ UNCHANGED <<last, auction, told>> \/ phase' = "trigger"
      BY <1>3, Zenon DEF Tick, AuctionTick, market
    <2> QED
      BY <2>1, RemovalKeepsLeft
  <1>4. ASSUME NEW i \in pool, CancelStopOrder(i) PROVE LeftInv'
    BY <1>4, RemovalKeepsLeft, Zenon DEF CancelStopOrder, market
  <1>5. ASSUME NEW p \in Parties, CancelAllStopOrders(p) \/ ClosePosition(p) PROVE LeftInv'
    BY <1>5, RemovalKeepsLeft DEF CancelAllStopOrders, ClosePosition, market
  <1>6. CASE TriggerStopOrders
    BY <1>6, TriggerKeepsLeft
  <1>7. CASE OrderHandled
    BY <1>7, Zenon DEF OrderHandled, tables, LeftInv, Entry
  <1>8. ASSUME NEW i \in queue, SubmitQueued(i) \/ SkipQueued(i) PROVE LeftInv'
    <2>1. UNCHANGED <<order, pool, priced>> /\ phase = "submit"
      BY <1>8 DEF SubmitQueued, SkipQueued, tables
    <2>2. ~told' \/ (UNCHANGED <<last, told>> /\ (auction => auction'))
      BY <1>8, Zenon DEF SubmitQueued, SkipQueued, Placed, Trades, Rests, market
    <2> QED
      BY <2>1, <2>2, SMTT(30) DEF LeftInv, Entry, WouldTrigger
  <1>9. CASE UNCHANGED vars
    BY <1>9, Zenon DEF vars, tables, market, LeftInv, Entry, WouldTrigger
  <1> QED
    BY <1>2, <1>3, <1>4, <1>5, <1>6, <1>7, <1>8, <1>9, Zenon DEF Next, Finish

\* When a handler ends in continuous trading, the pool holds no order that the last price
\* triggers, unless the pool was not told of that price (triggerStopOrders,
\* stopOrderWouldTriggerAtSubmission).
THEOREM HandlersLeaveNothingTriggered == Spec => []NothingLeftTriggered
  <1>1. Init => LeftInv
    BY DEF Init, LeftInv
  <1>2. PairInv /\ LeftInv /\ [Next]_vars => LeftInv'
    BY LeftStep
  <1>3. LeftInv => NothingLeftTriggered
    BY DEF LeftInv, NothingLeftTriggered
  <1> QED
    BY <1>1, <1>2, <1>3, PairsInvariant, PTL DEF Spec

-----------------------------------------------------------------------------
(* The pool and its indexes                                                *)

\* What TypeOK says beyond the types the other invariants have.
MarketTyped ==
  /\ auction \in BOOLEAN /\ told \in BOOLEAN /\ now \in Time
  /\ pos \in [Parties -> Positions] /\ phase \in Phases /\ again \in BOOLEAN

\* The orders of a pair are, in either order, what a submission asked for.
PairsAsSubmitted ==
  \A i \in Issued : Linked(i) =>
    \/ <<order[i].setup, order[order[i].oco].setup>> \in Pairs
    \/ <<order[order[i].oco].setup, order[i].setup>> \in Pairs

\* An order with an expiry is listed among the expiring orders; a linked order on the wrong
\* side leaves the list when it is reported cancelled, but not the pool.
Expires(i) == order[i].setup.expires # 0 /\ "cancelled" \notin fate[i]

\* Every entry of an index is that of a pooled order (TrailInv and LeftInv say the rest of
\* the trees), and the list of expiring orders misses none.
MirrorInv ==
  /\ \A x \in priced : x.id \in pool /\ order[x.id].setup.kind = "price" /\ x = Entry(x.id)
  /\ \A x \in trailing : x.offset = order[x.id].setup.at
  /\ \A x \in expiring : x[2] \in pool /\ Expires(x[2]) /\ x = <<order[x[2]].setup.expires, x[2]>>
  /\ \A i \in pool : Expires(i) => <<order[i].setup.expires, i>> \in expiring

\* Placing an order leaves the market in one of its states.
LEMMA PlacedTyped ==
  ASSUME MarketTyped, Placed
  PROVE  auction' \in BOOLEAN /\ told' \in BOOLEAN /\ pos' \in [Parties -> Positions]
  <1>1. CASE Trades
    BY <1>1, Zenon DEF Trades
  <1>2. CASE Rests
    <2>1. auction' \in BOOLEAN /\ told' = told
      BY <1>2, Zenon DEF Rests, MarketTyped
    <2>2. PICK S \in SUBSET Parties :
            pos' = [p \in Parties |-> IF pos[p] = "none" /\ p \in S THEN "flat" ELSE pos[p]]
      BY <1>2, Zenon DEF Rests
    <2> QED
      BY <2>1, <2>2, StopOrdersAssumption DEF MarketTyped, Positions
  <1> QED
    BY <1>1, <1>2, Zenon DEF Placed

\* Every handler leaves the market in one of its states.
LEMMA MarketStep ==
  ASSUME MarketTyped, [Next]_vars
  PROVE  MarketTyped'
  <1>1. CASE UNCHANGED <<auction, told, now, pos>> /\ phase' \in Phases /\ again' \in BOOLEAN
    BY <1>1, Zenon DEF MarketTyped
  <1>2. CASE Placed /\ UNCHANGED now /\ phase' \in Phases /\ again' \in BOOLEAN
    BY <1>2, PlacedTyped, Zenon DEF MarketTyped
  <1>3. ASSUME NEW p, NEW new, SubmitAndPool(p, new) \/ SubmitAndTrigger(p, new) PROVE MarketTyped'
    <2>1. CASE SubmitAndPool(p, new)
      BY <1>1, <2>1, Zenon DEF SubmitAndPool, market, MarketTyped
    <2>2. CASE SubmitAndTrigger(p, new)
      <3>1. Placed /\ phase' = "trigger" /\ UNCHANGED <<now, again>>
        BY <2>2, Zenon DEF SubmitAndTrigger
      <3> QED
        BY <1>2, <3>1, Zenon DEF MarketTyped, Phases
    <2> QED
      BY <1>3, <2>1, <2>2
  <1>4. CASE OrderHandled
    BY <1>2, <1>4, Zenon DEF OrderHandled, MarketTyped, Phases
  <1>5. CASE Tick \/ AuctionTick
    <2>1. now' \in Time
      BY <1>5, StopOrdersAssumption DEF Tick, AuctionTick, MarketTyped, Time
    <2>2. phase' \in Phases /\ again' \in BOOLEAN
      BY <1>5, Zenon DEF Tick, AuctionTick, MarketTyped, Phases
    <2>3. auction' \in BOOLEAN /\ told' \in BOOLEAN /\ pos' \in [Parties -> Positions]
      BY <1>5, Zenon DEF Tick, AuctionTick, MarketTyped, market
    <2> QED
      BY <2>1, <2>2, <2>3, ZenonT(30) DEF MarketTyped
  <1>6. ASSUME NEW i, CancelStopOrder(i) PROVE MarketTyped'
    BY <1>1, <1>6, Zenon DEF CancelStopOrder, market, MarketTyped
  <1>7. ASSUME NEW p \in Parties, CancelAllStopOrders(p) PROVE MarketTyped'
    BY <1>1, <1>7, Zenon DEF CancelAllStopOrders, market, MarketTyped
  <1>8. ASSUME NEW p \in Parties, ClosePosition(p) PROVE MarketTyped'
    <2>1. pos' \in [Parties -> Positions]
      BY <1>8 DEF ClosePosition, MarketTyped, Positions
    <2> QED
      BY <1>8, <2>1, Zenon DEF ClosePosition, MarketTyped
  <1>9. CASE TriggerStopOrders
    <2>1. phase' \in Phases /\ again' \in BOOLEAN /\ told' \in BOOLEAN
      BY <1>9, Zenon DEF TriggerStopOrders, AfterTrigger, Phases
    <2> QED
      BY <1>9, <2>1, Zenon DEF TriggerStopOrders, MarketTyped
  <1>10. ASSUME NEW i \in queue, SubmitQueued(i) \/ SkipQueued(i) PROVE MarketTyped'
    <2>1. phase' \in Phases /\ again' \in BOOLEAN
      BY <1>10, Zenon DEF SubmitQueued, SkipQueued, NextInQueue, Phases
    <2> QED
      BY <1>1, <1>2, <1>10, <2>1, Zenon DEF SubmitQueued, SkipQueued, market
  <1>11. CASE UNCHANGED vars
    BY <1>1, <1>11, Zenon DEF vars, market, MarketTyped
  <1> QED
    BY <1>3, <1>4, <1>5, <1>6, <1>7, <1>8, <1>9, <1>10, <1>11, Zenon
    DEF Next, Finish, SubmitStopOrders

\* A pair keeps the setups it was submitted with (IntoStopOrders).
LEMMA PairsAsSubmittedStep ==
  ASSUME PairInv, PairsAsSubmitted, [Next]_vars
  PROVE  PairsAsSubmitted'
  <1>1. CASE order' = order
    BY <1>1, Zenon DEF PairsAsSubmitted, Issued, Linked
  <1>2. ASSUME NEW p \in Parties, NEW setups \in Submissions, NEW new, new = Numbered(setups),
               Len(order) + Len(setups) <= MaxOrders, Record(p, new)
        PROVE  PairsAsSubmitted'
    <2> DEFINE n == Len(order)
    <2>1. Typed /\ Paired
      BY Zenon DEF PairInv
    <2>2. /\ n \in Nat /\ Len(setups) \in {1, 2} /\ DOMAIN new = n + 1 .. n + Len(setups)
          /\ Len(setups) = 1 => LinkIn(new, n + 1) = NoId
          /\ Len(setups) = 2 => LinkIn(new, n + 1) = n + 2 /\ LinkIn(new, n + 2) = n + 1
      BY <1>2, <2>1, NewOrders, Zenon
    <2>3. Appended(p, new, Len(setups))
      BY <1>2, <2>1, Recorded, Zenon
    <2>4. /\ \A i \in Issued : order'[i] = order[i]
          /\ \A i \in DOMAIN new : order'[i].setup = new[i] /\ order'[i].oco = LinkIn(new, i)
          /\ Issued' = Issued \cup DOMAIN new
      BY <2>3, Zenon DEF Appended
    <2>5. ASSUME NEW i \in Issued, Linked(i)'
          PROVE  \/ <<order'[i].setup, order'[order'[i].oco].setup>> \in Pairs
                 \/ <<order'[order'[i].oco].setup, order'[i].setup>> \in Pairs
      <3>1. order'[i] = order[i] /\ Linked(i)
        BY <2>4, <2>5, Zenon DEF Linked
      <3>2. order[i].oco \in Issued
        BY <2>1, <3>1, Zenon DEF Paired
      <3>3. order'[order[i].oco] = order[order[i].oco]
        BY <2>4, <3>2, Zenon
      <3> QED
        BY <3>1, <3>3, Zenon DEF PairsAsSubmitted
    <2>6. ASSUME NEW i \in DOMAIN new, Linked(i)'
          PROVE  \/ <<order'[i].setup, order'[order'[i].oco].setup>> \in Pairs
                 \/ <<order'[order'[i].oco].setup, order'[i].setup>> \in Pairs
      <3>1. order'[i].oco = LinkIn(new, i) /\ LinkIn(new, i) # NoId
        BY <2>4, <2>6, Zenon DEF Linked
      <3>2. Len(setups) = 2
        <4>1. Len(setups) = 1 => i = n + 1
          BY <2>2
        <4> QED
          BY <2>2, <3>1, <4>1, Zenon
      <3>3. (i = n + 1 /\ LinkIn(new, i) = n + 2) \/ (i = n + 2 /\ LinkIn(new, i) = n + 1)
        BY <2>2, <3>2
      <3>4. /\ new[n + 1] = setups[1] /\ new[n + 2] = setups[2]
            /\ n + 1 \in DOMAIN new /\ n + 2 \in DOMAIN new
        BY <1>2, <2>2, <3>2 DEF Numbered
      <3>5. setups \in Pairs /\ setups = <<setups[1], setups[2]>>
        <4>1. \A s : Len(<<s>>) # 2
          OBVIOUS
        <4>2. setups \in Pairs
          BY <3>2, <4>1, Zenon DEF Submissions
        <4>3. setups \in Setup \X Setup
          BY <4>2, StopOrdersAssumption, Zenon
        <4> QED
          BY <4>2, <4>3
      <3>6. order'[n + 1].setup = setups[1] /\ order'[n + 2].setup = setups[2]
        BY <2>4, <3>4, Zenon
      <3> QED
        BY <3>1, <3>3, <3>5, <3>6, Zenon
    <2> QED
      BY <2>4, <2>5, <2>6, Zenon DEF PairsAsSubmitted
  <1>3. CASE SubmitStopOrders
    <2>1. PICK p \in Parties, setups \in Submissions :
            Len(order) + Len(setups) <= MaxOrders /\ Record(p, Numbered(setups))
      BY <1>3, Zenon DEF SubmitStopOrders, SubmitAndPool, SubmitAndTrigger
    <2> QED
      BY <1>2, <2>1, Zenon
  <1>4. ASSUME ~SubmitStopOrders PROVE order' = order
    BY <1>4, Zenon DEF Next, Finish, vars, OrderHandled, Tick, AuctionTick, CancelStopOrder,
      CancelAllStopOrders, ClosePosition, TriggerStopOrders, SubmitQueued, SkipQueued
  <1> QED
    BY <1>1, <1>3, <1>4, Zenon

\* Orders that leave the pool leave every index; the others are reported nothing.
LEMMA RemovalKeepsMirror ==
  ASSUME MirrorInv, NEW S, Remove(S), UNCHANGED order, \A i \in pool \ S : fate'[i] = fate[i]
  PROVE  MirrorInv'
  <1>1. /\ pool' = pool \ S /\ priced' = {x \in priced : x.id \notin S}
        /\ trailing' = {x \in trailing : x.id \notin S} /\ expiring' = {x \in expiring : x[2] \notin S}
    BY Zenon DEF Remove
  <1>2. \A i : Entry(i)' = Entry(i)
    BY Zenon DEF Entry
  <1>3. \A i \in pool \ S : Expires(i)' <=> Expires(i)
    BY Zenon DEF Expires
  <1>4. \A x \in priced' : x.id \in pool' /\ order[x.id].setup.kind = "price" /\ x = Entry(x.id)
    BY <1>1, Zenon DEF MirrorInv
  <1>5. \A x \in trailing' : x.offset = order[x.id].setup.at
    BY <1>1, Zenon DEF MirrorInv
  <1>6. ASSUME NEW x \in expiring'
        PROVE  x[2] \in pool' /\ Expires(x[2])' /\ x = <<order[x[2]].setup.expires, x[2]>>
    BY <1>1, <1>3, Zenon DEF MirrorInv
  <1>7. ASSUME NEW i \in pool', Expires(i)' PROVE <<order[i].setup.expires, i>> \in expiring'
    <2>1. i \in pool \ S /\ Expires(i)
      BY <1>1, <1>3, <1>7, Zenon
    <2>2. <<order[i].setup.expires, i>> \in expiring
      BY <2>1, Zenon DEF MirrorInv
    <2>3. <<order[i].setup.expires, i>>[2] = i
      OBVIOUS
    <2> QED
      BY <1>1, <2>1, <2>2, <2>3, Zenon
  <1> QED
    BY <1>2, <1>4, <1>5, <1>6, <1>7, Zenon DEF MirrorInv

\* A submission that is pooled is entered where its setup says (Insert, ExpiringOrders.Insert).
LEMMA PoolingKeepsMirror ==
  ASSUME PairInv, TrailInv, MirrorInv, NEW p \in Parties, NEW setups \in Submissions, NEW new,
         new = Numbered(setups), Len(order) + Len(setups) <= MaxOrders,
         SubmitAndPool(p, new)
  PROVE  MirrorInv'
  <1>1. /\ \A i \in Issued : order'[i] = order[i]
        /\ \A i \in DOMAIN new : order'[i].setup = new[i]
        /\ Issued \cap DOMAIN new = {} /\ Issued' = Issued \cup DOMAIN new /\ Issued' \subseteq Ids
        /\ pool \subseteq Issued
    <2>1. Appended(p, new, Len(setups))
      BY Recorded, Zenon DEF SubmitAndPool, PairInv
    <2> QED
      BY <2>1, Zenon DEF Appended, PairInv, Typed
  <1> DEFINE addP == {[dir |-> new[i].dir, price |-> new[i].at, id |-> i]
                      : i \in {i \in DOMAIN new : new[i].kind = "price"}}
             addT == {[dir |-> new[i].dir, price |-> lastSeen, offset |-> new[i].at, id |-> i]
                      : i \in {j \in DOMAIN new : new[j].kind = "trailing"}}
             addE == {<<new[i].expires, i>> : i \in {j \in DOMAIN new : new[j].expires # 0}}
  <1>2. /\ pool' = pool \cup DOMAIN new /\ priced' = priced \cup addP
        /\ trailing' = trailing \cup addT /\ expiring' = expiring \cup addE /\ fate' = fate
    BY Zenon DEF SubmitAndPool, PoolStopOrders
  <1>3. ASSUME NEW i \in pool
        PROVE  order'[i] = order[i] /\ Entry(i)' = Entry(i) /\ (Expires(i)' <=> Expires(i))
    BY <1>1, <1>2, Zenon DEF Entry, Expires
  <1>4. ASSUME NEW i \in DOMAIN new
        PROVE  /\ order'[i].setup = new[i] /\ (Expires(i)' <=> new[i].expires # 0)
               /\ Entry(i)' = [dir |-> new[i].dir, price |-> new[i].at, id |-> i]
    <2>1. order'[i].setup = new[i]
      BY <1>1, Zenon
    <2>2. fate'[i] = {}
      BY <1>1, <1>2, Zenon DEF PairInv, Waiting
    <2> QED
      BY <2>1, <2>2, Zenon DEF Entry, Expires
  <1>5. ASSUME NEW x \in priced'
        PROVE  x.id \in pool' /\ order'[x.id].setup.kind = "price" /\ x = Entry(x.id)'
    <2>1. CASE x \in priced
      BY <1>2, <1>3, <2>1, ZenonT(30) DEF MirrorInv
    <2>2. CASE x \in addP
      <3>1. PICK i \in DOMAIN new : /\ new[i].kind = "price"
                                    /\ x = [dir |-> new[i].dir, price |-> new[i].at, id |-> i]
        BY <2>2, Zenon
      <3>2. x.id = i
        BY <3>1, Zenon
      <3> QED
        BY <1>2, <1>4, <3>1, <3>2, Zenon
    <2> QED
      BY <1>2, <2>1, <2>2, Zenon
  <1>6. ASSUME NEW x \in trailing' PROVE x.offset = order'[x.id].setup.at
    <2>1. CASE x \in trailing
      <3>1. x.id \in pool
        BY <2>1, Zenon DEF TrailInv
      <3> QED
        BY <1>3, <2>1, <3>1, Zenon DEF MirrorInv
    <2>2. CASE x \in addT
      <3>1. PICK i \in DOMAIN new :
              x = [dir |-> new[i].dir, price |-> lastSeen, offset |-> new[i].at, id |-> i]
        BY <2>2, Zenon
      <3>2. x.id = i /\ x.offset = new[i].at
        BY <3>1, Zenon
      <3> QED
        BY <1>4, <3>2, Zenon
    <2> QED
      BY <1>2, <2>1, <2>2, Zenon
  <1>7. ASSUME NEW x \in expiring'
        PROVE  x[2] \in pool' /\ Expires(x[2])' /\ x = <<order'[x[2]].setup.expires, x[2]>>
    <2>1. CASE x \in expiring
      BY <1>2, <1>3, <2>1, Zenon DEF MirrorInv
    <2>2. CASE x \in addE
      <3>1. PICK i \in DOMAIN new : new[i].expires # 0 /\ x = <<new[i].expires, i>>
        BY <2>2, Zenon
      <3>2. x[2] = i
        BY <3>1
      <3> QED
        BY <1>2, <1>4, <3>1, <3>2, Zenon
    <2> QED
      BY <1>2, <2>1, <2>2, Zenon
  <1>8. ASSUME NEW i \in pool', Expires(i)' PROVE <<order'[i].setup.expires, i>> \in expiring'
    <2>1. CASE i \in pool
      BY <1>2, <1>3, <1>8, <2>1, Zenon DEF MirrorInv
    <2>2. CASE i \in DOMAIN new
      <3>1. new[i].expires # 0 /\ order'[i].setup = new[i]
        BY <1>4, <1>8, <2>2, Zenon
      <3>2. <<new[i].expires, i>> \in addE
        BY <2>2, <3>1, Zenon
      <3> QED
        BY <1>2, <3>1, <3>2, Zenon
    <2> QED
      BY <1>2, <2>1, <2>2, Zenon
  <1> QED
    BY <1>5, <1>6, <1>7, <1>8, Zenon DEF MirrorInv

\* triggerStopOrders takes what is triggered, and its other sides, out of every index, and
\* what is on the wrong side out of the list of expiring orders.
LEMMA TriggerKeepsMirror ==
  ASSUME PairInv, TrailInv, MirrorInv, TriggerStopOrders
  PROVE  MirrorInv'
  <1> DEFINE gone == Triggered \cup StoppedBy(Triggered)
             wrong == WrongSide(pool \ gone)
  <1>1. /\ pool' = pool \ gone /\ priced' = {x \in priced : x.id \in pool'}
        /\ trailing' = {x \in Adjusted(last) : x.id \in pool'} /\ order' = order
        /\ expiring' = {x \in expiring : x[2] \notin gone \cup wrong}
        /\ fate' = [i \in Ids |-> Report(StoppedBy(Triggered), "stopped")[i] \cup
                                  IF i \in wrong THEN {"cancelled"} ELSE {}]
    BY Zenon DEF TriggerStopOrders
  <1>2. pool \subseteq Ids /\ wrong \subseteq pool
    BY StopOrdersAssumption DEF PairInv, Typed, Issued, Ids, WrongSide
  <1> HIDE DEF gone, wrong
  <1>3. ASSUME NEW i \in pool' PROVE Expires(i)' <=> Expires(i) /\ i \notin wrong
    <2>1. i \in Ids /\ i \notin StoppedBy(Triggered)
      BY <1>1, <1>2, Zenon DEF gone
    <2>2. Report(StoppedBy(Triggered), "stopped")[i] = fate[i]
      BY <2>1, Zenon DEF Report
    <2>3. fate'[i] = fate[i] \cup (IF i \in wrong THEN {"cancelled"} ELSE {})
      BY <1>1, <2>1, <2>2, Zenon
    <2>4. "cancelled" \in fate'[i] <=> "cancelled" \in fate[i] \/ i \in wrong
      BY <2>3
    <2> QED
      BY <1>1, <2>4, Zenon DEF Expires
  <1>4. \A i : Entry(i)' = Entry(i)
    BY <1>1, Zenon DEF Entry
  <1>5. \A x \in priced' : x.id \in pool' /\ order[x.id].setup.kind = "price" /\ x = Entry(x.id)
    BY <1>1, Zenon DEF MirrorInv
  <1>6. ASSUME NEW x \in trailing' PROVE x.offset = order[x.id].setup.at
    <2>1. PICK y \in trailing : \E q : x = [y EXCEPT !.price = q]
      BY <1>1 DEF Adjusted
    <2>2. y \in TrailEntry
      BY Zenon DEF TrailInv
    <2>3. x.id = y.id /\ x.offset = y.offset
      BY <2>1, <2>2 DEF TrailEntry
    <2> QED
      BY <2>3, Zenon DEF MirrorInv
  <1>7. ASSUME NEW x \in expiring'
        PROVE  x[2] \in pool' /\ Expires(x[2])' /\ x = <<order[x[2]].setup.expires, x[2]>>
    BY <1>1, <1>3, Zenon DEF MirrorInv
  <1>8. ASSUME NEW i \in pool', Expires(i)' PROVE <<order[i].setup.expires, i>> \in expiring'
    <2>1. i \in pool \ gone /\ i \notin wrong /\ Expires(i)
      BY <1>1, <1>3, <1>8, Zenon
    <2>2. <<order[i].setup.expires, i>> \in expiring
      BY <2>1, Zenon DEF MirrorInv
    <2>3. <<order[i].setup.expires, i>>[2] = i
      OBVIOUS
    <2> QED
      BY <1>1, <2>1, <2>2, <2>3, Zenon
  <1> QED
    BY <1>1, <1>4, <1>5, <1>6, <1>7, <1>8, Zenon DEF MirrorInv

\* Every handler keeps the indexes in step with the pool.
LEMMA MirrorStep ==
  ASSUME PairInv, TrailInv, MirrorInv, [Next]_vars
  PROVE  MirrorInv'
  <1>1. pool \subseteq Issued /\ Issued \subseteq Ids /\ pool \cap queue = {}
    BY StopOrdersAssumption DEF PairInv, Typed, Waiting, Issued, Ids
  <1>2. CASE /\ UNCHANGED <<pool, priced, trailing, expiring>>
             /\ \A i \in pool : order'[i] = order[i] /\ fate'[i] = fate[i]
    <2>1. \A i \in pool : Entry(i)' = Entry(i) /\ (Expires(i)' <=> Expires(i))
      BY <1>2, Zenon DEF Entry, Expires
    <2>2. \A x \in trailing : x.id \in pool
      BY Zenon DEF TrailInv
    <2> QED
      BY <1>2, <2>1, <2>2, Zenon DEF MirrorInv
  <1>3. ASSUME NEW p \in Parties, NEW setups \in Submissions, NEW new,
               new = Numbered(setups), Len(order) + Len(setups) <= MaxOrders,
               SubmitAndTrigger(p, new)
        PROVE  MirrorInv'
    <2>1. /\ \A i \in Issued : order'[i] = order[i]
          /\ UNCHANGED <<pool, priced, trailing, expiring>> /\ Issued \cap DOMAIN new = {}
      <3>1. Appended(p, new, Len(setups))
        BY <1>3, Recorded, Zenon DEF SubmitAndTrigger, PairInv
      <3> QED
        BY <1>3, <3>1, Zenon DEF Appended, SubmitAndTrigger, tables
    <2>2. \E i \in DOMAIN new :
            fate' = [Report(DOMAIN new \ {i}, "stopped") EXCEPT ![i] = @ \cup {"triggered"}]
      <3> DEFINE hit   == {i \in DOMAIN new : WouldTrigger(new[i])}
                 falls == {i \in hit : new[i].dir = "falls"}
                 i     == CHOOSE j \in hit : falls # {} => j \in falls
      <3>1. /\ hit # {}
            /\ fate' = [Report(DOMAIN new \ {i}, "stopped") EXCEPT ![i] = @ \cup {"triggered"}]
        BY <1>3, Zenon DEF SubmitAndTrigger
      <3>2. \E j \in hit : falls # {} => j \in falls
        BY <3>1, Zenon
      <3>3. i \in DOMAIN new
        BY <3>2, Zenon
      <3> QED
        BY <3>1, <3>3, Zenon
    <2>3. \A i \in pool : i \in Ids /\ i \notin DOMAIN new
      BY <1>1, <2>1, Zenon
    <2>4. \A i \in pool : fate'[i] = fate[i]
      BY <2>2, <2>3 DEF Report
    <2> QED
      BY <1>1, <1>2, <2>1, <2>4, Zenon
  <1>4. CASE SubmitStopOrders
    <2>1. PICK p \in Parties, setups \in Submissions :
            /\ Len(order) + Len(setups) <= MaxOrders
            /\ \/ SubmitAndPool(p, Numbered(setups))
               \/ SubmitAndTrigger(p, Numbered(setups))
      BY <1>4, Zenon DEF SubmitStopOrders
    <2> QED
      BY <1>3, <2>1, PoolingKeepsMirror, Zenon
  <1>5. ASSUME NEW S, Remove(S), order' = order, NEW f, NEW T \in SUBSET S, fate' = Report(T, f)
        PROVE  MirrorInv'
    <2>1. \A i \in pool \ S : fate'[i] = fate[i]
      BY <1>1, <1>5, Zenon DEF Report
    <2> QED
      BY <1>5, <2>1, RemovalKeepsMirror, Zenon
  <1>6. CASE Tick
    <2> DEFINE due     == Due(now + 1)
               stopped == Mates(due) \ due
               expired == due \ {i \in due : order[i].setup.submit}
    <2>1. /\ Remove(due \cup stopped) /\ order' = order
          /\ fate' = [i \in Ids |-> Report(expired, "expired")[i] \cup
                                    IF i \in stopped THEN {"stopped"} ELSE {}]
      BY <1>6, Zenon DEF Tick
    <2>2. expired \subseteq due
      BY Zenon
    <2> HIDE DEF due, stopped, expired
    <2>3. ASSUME NEW i \in pool \ (due \cup stopped) PROVE fate'[i] = fate[i]
      <3>1. i \in Ids /\ i \notin expired /\ i \notin stopped
        BY <1>1, <2>2, Zenon
      <3>2. Report(expired, "expired")[i] = fate[i]
        BY <3>1, Zenon DEF Report
      <3>3. fate'[i] = fate[i] \cup {}
        BY <2>1, <3>1, <3>2, Zenon
      <3> QED
        BY <3>3
    <2> QED
      BY <2>1, <2>3, RemovalKeepsMirror, Zenon
  <1>7. CASE AuctionTick
    <2> DEFINE gone == Due(now + 1) \cup Mates(Due(now + 1))
    <2>1. Remove(gone) /\ order' = order /\ fate' = Report(gone, "expired")
      BY <1>7, Zenon DEF AuctionTick
    <2> HIDE DEF gone
    <2> QED
      BY <1>5, <2>1, Zenon
  <1>8. ASSUME NEW i \in pool, CancelStopOrder(i) PROVE MirrorInv'
    BY <1>5, <1>8, Zenon DEF CancelStopOrder
  <1>9. ASSUME NEW p \in Parties, CancelAllStopOrders(p) \/ ClosePosition(p) PROVE MirrorInv'
    BY <1>5, <1>9, Zenon DEF CancelAllStopOrders, ClosePosition
  <1>10. CASE TriggerStopOrders
    BY <1>10, TriggerKeepsMirror, Zenon
  <1>11. ASSUME NEW i \in queue, SubmitQueued(i) \/ SkipQueued(i) PROVE MirrorInv'
    <2>1. /\ UNCHANGED <<order, pool, priced, trailing, expiring>>
          /\ fate' = fate \/ \E f : fate' = Report({i}, f)
      BY <1>11, Zenon DEF SubmitQueued, SkipQueued, tables
    <2>2. \A j \in pool : j \in Ids /\ j \notin {i}
      BY <1>1, Zenon
    <2>3. \A j \in pool : fate'[j] = fate[j]
      BY <2>1, <2>2, Zenon DEF Report
    <2> QED
      BY <1>2, <2>1, <2>3, Zenon
  <1>12. CASE OrderHandled \/ UNCHANGED vars
    BY <1>2, <1>12, Zenon DEF OrderHandled, vars, tables
  <1> QED
    BY <1>4, <1>6, <1>7, <1>8, <1>9, <1>10, <1>11, <1>12, Zenon DEF Next, Finish

-----------------------------------------------------------------------------
\* The fields of what is asked for.
LEMMA SetupFields ==
  ASSUME NEW s \in Setup
  PROVE  /\ s.dir \in {"falls", "rises"} /\ s.expires \in {0} \cup Time /\ s.at \in Int
         /\ s.kind = "price" => s.at \in Price
  <1>1. /\ s \in [dir : {"falls", "rises"}, kind : {"price", "trailing"},
                  at : 1 .. 99 \cup Price, expires : {0} \cup Time, submit : BOOLEAN,
                  linked : BOOLEAN, side : {"buy", "sell"}]
        /\ s.at \in IF s.kind = "price" THEN Price ELSE 1 .. 99
    BY Zenon DEF Setup
  <1>2. s.dir \in {"falls", "rises"} /\ s.expires \in {0} \cup Time
    BY <1>1, Zenon
  <1>3. s.at \in Int
    BY <1>1, StopOrdersAssumption DEF Price
  <1> QED
    BY <1>1, <1>2, <1>3, Zenon

\* No price triggers both orders of a pair.
ExclusivePairs ==
  \A q \in Pairs : \/ q[1].kind = "price" /\ q[2].kind = "price" /\ q[1].at < q[2].at
                   \/ q[1].kind = "trailing" /\ q[2].kind = "trailing"

\* An order that is triggered is pooled, and its own trigger was reached.
LEMMA TriggeredIsPooled ==
  ASSUME PairInv, TrailInv, MirrorInv, NEW i \in Triggered
  PROVE  /\ i \in pool
         /\ LET s == order[i].setup IN
            \/ /\ s.kind = "price"
               /\ (s.dir = "falls" /\ s.at > last - 1) \/ (s.dir = "rises" /\ s.at < last + 1)
            \/ /\ s.kind = "trailing"
               /\ (s.dir = "rises" /\ lastSeen < last) \/ (s.dir = "falls" /\ lastSeen > last)
  <1>1. CASE i \in PricedHit(last)
    <2>1. PICK y \in priced : /\ y.id = i
                              /\ \/ y.dir = "falls" /\ y.price > last - 1
                                 \/ y.dir = "rises" /\ y.price < last + 1
      BY <1>1, Zenon DEF PricedHit
    <2>2. i \in pool /\ order[i].setup.kind = "price" /\ y = Entry(i)
      BY <2>1, Zenon DEF MirrorInv
    <2>3. y.dir = order[i].setup.dir /\ y.price = order[i].setup.at
      BY <2>2, Zenon DEF Entry
    <2> QED
      BY <2>1, <2>2, <2>3, Zenon
  <1>2. CASE i \in TrailingHit(last)
    <2>1. PICK y \in trailing : /\ y.id = i
                                /\ \/ y.dir = "rises" /\ lastSeen < last
                                   \/ y.dir = "falls" /\ lastSeen > last
      BY <1>2, Zenon DEF TrailingHit
    <2>2. i \in pool /\ order[i].setup.kind = "trailing" /\ y.dir = order[i].setup.dir
      BY <2>1, Zenon DEF TrailInv
    <2> QED
      BY <2>1, <2>2, Zenon
  <1> QED
    BY <1>1, <1>2, Zenon DEF Triggered

\* PriceUpdated finds what it looks for: it does not panic.
LEMMA TriggersAreSafe ==
  ASSUME ExclusivePairs, PairInv, TrailInv, MirrorInv, PairsAsSubmitted
  PROVE  TriggerIsSafe(Triggered)
  <1>1. Triggered \subseteq pool
    BY TriggeredIsPooled, Zenon
  <1>2. ASSUME NEW i \in Triggered, Linked(i) PROVE order[i].oco \in pool \ Triggered
    <2> DEFINE s == order[i].setup
               t == order[order[i].oco].setup
    <2>1. i \in Issued /\ order[i].oco \in pool
      BY <1>1, <1>2, Zenon DEF PairInv, Typed, Paired
    <2>2. last \in Int /\ lastSeen \in Int
      BY DEF PairInv, Typed, Price
    <2>3. PICK q \in Pairs : (s = q[1] /\ t = q[2]) \/ (s = q[2] /\ t = q[1])
      <3>1. \/ <<s, t>> \in Pairs
            \/ <<t, s>> \in Pairs
        BY <1>2, <2>1, Zenon DEF PairsAsSubmitted
      <3> HIDE DEF s, t
      <3>2. <<s, t>>[1] = s /\ <<s, t>>[2] = t /\ <<t, s>>[1] = t /\ <<t, s>>[2] = s
        OBVIOUS
      <3> QED
        BY <3>1, <3>2, Zenon
    <2>4. /\ q[1].dir = "falls" /\ q[2].dir = "rises" /\ q[1] \in Setup /\ q[2] \in Setup
      BY StopOrdersAssumption
    <2>5. /\ q[1].at \in Int /\ q[2].at \in Int
      BY <2>4, SetupFields, Zenon
    <2>6. \/ q[1].kind = "price" /\ q[2].kind = "price" /\ q[1].at < q[2].at
          \/ q[1].kind = "trailing" /\ q[2].kind = "trailing"
      BY Zenon DEF ExclusivePairs
    <2>7. ASSUME order[i].oco \in Triggered PROVE FALSE
      <3>1. /\ \/ /\ s.kind = "price"
                  /\ (s.dir = "falls" /\ s.at > last - 1) \/ (s.dir = "rises" /\ s.at < last + 1)
               \/ /\ s.kind = "trailing"
                  /\ (s.dir = "rises" /\ lastSeen < last) \/ (s.dir = "falls" /\ lastSeen > last)
            /\ \/ /\ t.kind = "price"
                  /\ (t.dir = "falls" /\ t.at > last - 1) \/ (t.dir = "rises" /\ t.at < last + 1)
               \/ /\ t.kind = "trailing"
                  /\ (t.dir = "rises" /\ lastSeen < last) \/ (t.dir = "falls" /\ lastSeen > last)
        BY <2>7, TriggeredIsPooled, Zenon
      <3> HIDE DEF s, t
      <3> QED
        BY <2>2, <2>3, <2>4, <2>5, <2>6, <3>1
    <2> QED
      BY <2>1, <2>7, Zenon
  <1>3. Mates(Triggered) \subseteq pool \ Triggered
    BY <1>2, Zenon DEF Mates
  <1> QED
    BY <1>1, <1>3, Zenon DEF TriggerIsSafe

\* The trees and the list of expiring orders hold the pooled orders and no other.
LEMMA IndexesAreExact ==
  ASSUME PairInv, TrailInv, LeftInv, MirrorInv
  PROVE  /\ priced = {Entry(i) : i \in {j \in pool : order[j].setup.kind = "price"}}
         /\ {[dir |-> x.dir, offset |-> x.offset, id |-> x.id] : x \in trailing}
              = {[dir |-> order[i].setup.dir, offset |-> order[i].setup.at, id |-> i]
                 : i \in {j \in pool : order[j].setup.kind = "trailing"}}
         /\ expiring = {<<order[i].setup.expires, i>> : i \in
              {j \in pool : order[j].setup.expires # 0 /\ "cancelled" \notin fate[j]}}
  <1>1. priced = {Entry(i) : i \in {j \in pool : order[j].setup.kind = "price"}}
    <2> DEFINE waiting == {j \in pool : order[j].setup.kind = "price"}
    <2>1. ASSUME NEW x \in priced PROVE x \in {Entry(i) : i \in waiting}
      BY <2>1, Zenon DEF MirrorInv
    <2>2. ASSUME NEW i \in waiting PROVE Entry(i) \in priced
      BY <2>2, Zenon DEF LeftInv
    <2>3. \A x : x \in priced <=> x \in {Entry(i) : i \in waiting}
      BY <2>1, <2>2, Zenon
    <2> QED
      BY <2>3, Zenon
  <1>2. {[dir |-> x.dir, offset |-> x.offset, id |-> x.id] : x \in trailing}
          = {[dir |-> order[i].setup.dir, offset |-> order[i].setup.at, id |-> i]
             : i \in {j \in pool : order[j].setup.kind = "trailing"}}
    <2> DEFINE Shown(x)   == [dir |-> x.dir, offset |-> x.offset, id |-> x.id]
               Asked(i)   == [dir |-> order[i].setup.dir, offset |-> order[i].setup.at, id |-> i]
               following  == {j \in pool : order[j].setup.kind = "trailing"}
    <2>1. ASSUME NEW x \in trailing PROVE x.id \in following /\ Shown(x) = Asked(x.id)
      <3>1. /\ x.id \in pool /\ order[x.id].setup.kind = "trailing"
            /\ x.dir = order[x.id].setup.dir /\ x.offset = order[x.id].setup.at
        BY Zenon DEF TrailInv, MirrorInv
      <3> QED
        BY <3>1, Zenon
    <2>2. ASSUME NEW i \in following PROVE \E x \in trailing : x.id = i
      BY <2>2, Zenon DEF TrailInv
    <2> HIDE DEF Shown, Asked, following
    <2>3. \A y : y \in {Shown(x) : x \in trailing} <=> y \in {Asked(i) : i \in following}
      BY <2>1, <2>2, Zenon
    <2>4. {Shown(x) : x \in trailing} = {Asked(i) : i \in following}
      BY <2>3, Zenon
    <2> QED
      BY <2>4, Zenon DEF Shown, Asked, following
  <1>3. expiring = {<<order[i].setup.expires, i>> : i \in
          {j \in pool : order[j].setup.expires # 0 /\ "cancelled" \notin fate[j]}}
    <2> DEFINE listed == {j \in pool : order[j].setup.expires # 0 /\ "cancelled" \notin fate[j]}
    <2>1. ASSUME NEW x \in expiring PROVE x \in {<<order[i].setup.expires, i>> : i \in listed}
      BY <2>1, Zenon DEF MirrorInv, Expires
    <2>2. ASSUME NEW i \in listed PROVE <<order[i].setup.expires, i>> \in expiring
      BY <2>2, Zenon DEF MirrorInv, Expires
    <2>3. \A x : x \in expiring <=> x \in {<<order[i].setup.expires, i>> : i \in listed}
      BY <2>1, <2>2, Zenon
    <2> QED
      BY <2>3, Zenon
  <1> QED
    BY <1>1, <1>2, <1>3, Zenon

\* What the indexes hold has its type.
LEMMA IndexesTyped ==
  ASSUME PairInv, TrailInv, MirrorInv, MarketTyped
  PROVE  TypeOK
  <1>1. ASSUME NEW i \in pool PROVE i \in Ids /\ order[i].setup \in Setup
    <2>1. i \in Issued /\ Issued = 1 .. Len(order) /\ Len(order) <= MaxOrders
          /\ order \in Seq(Order)
      BY Zenon DEF PairInv, Typed, Issued
    <2>2. i \in Ids /\ order[i] \in Order
      BY <2>1, StopOrdersAssumption DEF Ids
    <2> QED
      BY <2>2, Zenon DEF Order
  <1>2. ASSUME NEW x \in priced
        PROVE  x \in [dir : {"falls", "rises"}, price : Price, id : Ids]
    <2>1. x.id \in pool /\ order[x.id].setup.kind = "price" /\ x = Entry(x.id)
      BY Zenon DEF MirrorInv
    <2>2. order[x.id].setup.dir \in {"falls", "rises"} /\ order[x.id].setup.at \in Price
      BY <1>1, <2>1, SetupFields, Zenon
    <2>3. x = [dir |-> order[x.id].setup.dir, price |-> order[x.id].setup.at, id |-> x.id]
      BY <2>1, Zenon DEF Entry
    <2>4. x.id \in Ids
      BY <1>1, <2>1, Zenon
    <2> QED
      BY <2>2, <2>3, <2>4
  <1>3. ASSUME NEW x \in expiring PROVE x \in Time \X Ids
    <2>1. /\ x[2] \in pool /\ order[x[2]].setup.expires # 0
          /\ x = <<order[x[2]].setup.expires, x[2]>>
      BY Zenon DEF MirrorInv, Expires
    <2>2. order[x[2]].setup.expires \in Time /\ x[2] \in Ids
      BY <1>1, <2>1, SetupFields, Zenon
    <2>3. \A t \in Time, i \in Ids : <<t, i>> \in Time \X Ids
      OBVIOUS
    <2> QED
      BY <2>1, <2>2, <2>3, Zenon
  <1>4. /\ order \in Seq(Order) /\ Len(order) <= MaxOrders
        /\ pool \subseteq 1 .. Len(order) /\ queue \subseteq 1 .. Len(order)
        /\ fate \in [Ids -> SUBSET Fates] /\ sent \in [Ids -> Nat] /\ peak \in [Ids -> Nat]
        /\ last \in Price /\ lastSeen \in Price
    BY Zenon DEF PairInv, Typed, Issued
  <1>5. trailing \subseteq TrailEntry
    BY Zenon DEF TrailInv
  <1>6. /\ priced \subseteq [dir : {"falls", "rises"}, price : Price, id : Ids]
        /\ expiring \subseteq Time \X Ids
    BY <1>2, <1>3, Zenon
  <1> QED
    BY <1>4, <1>5, <1>6, Zenon DEF TypeOK, TrailEntry, MarketTyped

\* The pool and its indexes say the same in whatever way orders came and went (Insert,
\* remove, PriceUpdated, RemoveExpired), and neither panic of the pool can happen, as long as
\* no price triggers both orders of a pair.
THEOREM IndexesAgreeWithPool ==
  ASSUME ExclusivePairs
  PROVE  Spec => []IndexesMirrorPool
  <1> DEFINE Inv == PairInv /\ TrailInv /\ LeftInv /\ MarketTyped /\ PairsAsSubmitted /\ MirrorInv
  <1>1. Init => Inv
    <2> SUFFICES ASSUME Init PROVE Inv
      OBVIOUS
    <2>1. PairInv
      BY PairInit, Zenon
    <2>2. TrailInv /\ LeftInv /\ MirrorInv
      BY Zenon DEF Init, TrailInv, LeftInv, MirrorInv
    <2>3. PairsAsSubmitted
      <3>1. Issued = {}
        BY DEF Init, Issued
      <3> QED
        BY <3>1, Zenon DEF PairsAsSubmitted
    <2>4. MarketTyped
      <3>1. 1 \in Time
        BY StopOrdersAssumption DEF Time
      <3> QED
        BY <3>1, Zenon DEF Init, MarketTyped, Phases
    <2> QED
      BY <2>1, <2>2, <2>3, <2>4, Zenon
  <1>2. Inv /\ [Next]_vars => Inv'
    BY PairStep, TrailStep, LeftStep, MarketStep, PairsAsSubmittedStep, MirrorStep, Zenon
  <1>3. Inv => IndexesMirrorPool
    <2> SUFFICES ASSUME Inv PROVE IndexesMirrorPool
      OBVIOUS
    <2>1. ExpiryIsSafe(Due(MaxTime))
      BY Zenon DEF MirrorInv, ExpiryIsSafe, Due
    <2> QED
      BY <2>1, IndexesTyped, IndexesAreExact, TriggersAreSafe, Zenon DEF IndexesMirrorPool
  <1> QED
    BY <1>1, <1>2, <1>3, PTL DEF Spec

=============================================================================
