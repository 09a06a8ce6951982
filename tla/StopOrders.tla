---------------------------- MODULE StopOrders ----------------------------
(***************************************************************************)
(* Stop orders of one futures market: core/execution/stoporders (the pool, *)
(* the tree of trigger prices, the tree of trailing triggers), the list of *)
(* expiring stop orders, and the handlers of core/execution/future that    *)
(* drive them.                                                             *)
(*                                                                         *)
(* A handler runs to its end before the next one starts.  One that trades  *)
(* ends in triggerStopOrders, which submits what the new price triggers    *)
(* and calls itself again; phase says how far the running handler is.  The *)
(* order book is abstract: an order that is submitted may trade at any     *)
(* price, move any position, or start an auction.                          *)
(***************************************************************************)
EXTENDS Integers, Sequences, FiniteSets

CONSTANTS
  MaxOrders,    \* bound: stop orders over time
  Parties,
  Singles,      \* stop orders that are submitted alone
  Pairs,        \* OCO pairs <<falls below, rises above>>
  Sizes,        \* positions parties may have: flat, long, short
  MaxPrice,     \* bound: traded prices are 1 .. MaxPrice
  MaxTime,      \* bound: block times
  MaxPerParty   \* market.parties.maximumStopOrders

Ids   == 1 .. MaxOrders   \* given out in turn by the id generator
NoId  == 0                \* the empty identifier
Price == 1 .. MaxPrice
Time  == 1 .. MaxTime

\* at: a price, or a trailing offset in percent; expires = 0: never; submit: the
\* expiry strategy, which checkStopOrderSetup refuses in a pair; linked: its size is that
\* of the position
Setup ==
  {s \in [dir : {"falls", "rises"}, kind : {"price", "trailing"}, at : 1 .. 99 \cup Price,
          expires : {0} \cup Time, submit : BOOLEAN, linked : BOOLEAN, side : {"buy", "sell"}]
   : s.at \in IF s.kind = "price" THEN Price ELSE 1 .. 99}

ASSUME StopOrdersAssumption ==
  /\ MaxOrders \in Nat /\ MaxPrice \in Nat \ {0} /\ MaxTime \in Nat \ {0} /\ MaxPerParty \in Nat
  /\ Singles \subseteq Setup
  /\ Sizes \subseteq {"flat", "long", "short"} /\ "flat" \in Sizes
  /\ Pairs \subseteq {p \in Setup \X Setup : /\ p[1].dir = "falls" /\ p[2].dir = "rises"
                                             /\ ~p[1].submit /\ ~p[2].submit}

VARIABLES
  order,      \* order[i]: party, setup and OCO link of the i-th stop order
  pool,       \* Pool.orders and Pool.orderToParty: identifiers
  priced,     \* PricedStopOrders: [dir, price, id]
  trailing,   \* TrailingStopOrders: [dir, price, offset, id]
  lastSeen,   \* TrailingStopOrders.lastSeenPrice
  expiring,   \* expiringStopOrders: <<time, id>>
  last,       \* lastTradedPrice
  auction,    \* as.InAuction
  now,
  pos,        \* pos[p]: the position record of p, if there is one
  told,       \* history: nothing has traded since the pool was told of the price
  phase,      \* where the running handler is
  queue,      \* stop orders that submitStopOrders has still to submit
  again,      \* triggerStopOrders runs once more after the queue
  fate,       \* history: fate[i]: the final states reported for i
  sent,       \* history: sent[i]: how often the order of i was submitted
  peak        \* history: peak[i]: highest (lowest) price told to the pool with i

tables == <<pool, priced, trailing, expiring>>
market == <<last, auction, pos, told>>
vars == <<order, tables, lastSeen, market, now, phase, queue, again, fate, sent, peak>>

Fates     == {"triggered", "cancelled", "stopped", "expired"}
Positions == Sizes \cup {"none"}
Phases    == {"idle", "trigger", "submit"}

Order == [party : Parties, setup : Setup, oco : Ids \cup {NoId}]
Of(p) == {i \in pool : order[i].party = p}
Linked(i) == order[i].oco # NoId
Mates(S) == {order[i].oco : i \in {j \in S : Linked(j)}}

-----------------------------------------------------------------------------
(* What an order that is submitted does to the market: it trades, or rests *)
(* on the book (in an auction always), or is the one that starts a price   *)
(* monitoring auction.  A position record stays until the market removes   *)
(* it, and an order is enough to have one.                                 *)
Trades ==
  /\ ~auction /\ auction' = FALSE
  /\ last' \in Price /\ told' = FALSE
  /\ pos' \in [Parties -> Positions]
  /\ \A p \in Parties : pos'[p] = "none" => pos[p] = "none"

Rests ==
  /\ UNCHANGED <<last, told>>
  /\ auction' \in {auction, TRUE}
  /\ pos' \in {[p \in Parties |-> IF pos[p] = "none" /\ p \in S THEN "flat" ELSE pos[p]]
               : S \in SUBSET Parties}

Placed == Trades \/ Rests

-----------------------------------------------------------------------------
(* The pool and its two trees.                                             *)
\* mutant: the list of expiring orders is left alone
RemoveFromPool(S) ==
  /\ pool' = pool \ S
  /\ priced' = {x \in priced : x.id \notin S}
  /\ trailing' = {x \in trailing : x.id \notin S}
  /\ expiring' = expiring
  /\ peak' = [i \in Ids |-> IF i \in S THEN 0 ELSE peak[i]]

\* remove, and the list of expiring orders, which every caller keeps in step
Remove(S) ==
  /\ pool' = pool \ S
  /\ priced' = {x \in priced : x.id \notin S}
  /\ trailing' = {x \in trailing : x.id \notin S}
  /\ expiring' = {x \in expiring : x[2] \notin S}
  /\ peak' = [i \in Ids |-> IF i \in S THEN 0 ELSE peak[i]]

Report(S, f) == [i \in Ids |-> IF i \in S THEN fate[i] \cup {f} ELSE fate[i]]

\* mutant: a trigger price must be crossed, not just reached
PricedHitStrict(p) ==
  {x.id : x \in {y \in priced : \/ y.dir = "falls" /\ y.price > p
                                \/ y.dir = "rises" /\ y.price < p}}

\* PricedStopOrders.PriceUpdated: falls below from p - 1 on, rises above up to p + 1
PricedHit(p) ==
  {x.id : x \in {y \in priced : \/ y.dir = "falls" /\ y.price > p - 1
                                \/ y.dir = "rises" /\ y.price < p + 1}}

\* mutant: the buckets follow the price in both directions
AdjustedBoth(p) == {[x EXCEPT !.price = p] : x \in trailing}

\* adjustBuckets: what trails a rising price moves up, what trails a falling one down
Adjusted(p) ==
  {[x EXCEPT !.price = IF \/ lastSeen < p /\ x.dir = "falls" /\ x.price < p
                          \/ lastSeen > p /\ x.dir = "rises" /\ x.price > p
                       THEN p ELSE @] : x \in trailing}

\* TrailingStopOrders.trigger: the price has come back by the offset
TrailingHit(p) ==
  {x.id : x \in {y \in trailing :
     \/ /\ lastSeen < p /\ y.dir = "rises" /\ y.price <= p
        /\ y.price * (100 + y.offset) <= p * 100
     \/ /\ lastSeen > p /\ y.dir = "falls" /\ y.price >= p
        /\ y.price * (100 - y.offset) >= p * 100}}

Triggered == PricedHit(last) \cup TrailingHit(last)

\* CheckDirection: linked orders that would add to the position
WrongSide(S) ==
  {i \in S : /\ order[i].setup.linked
             /\ \/ pos[order[i].party] = "long" /\ order[i].setup.side = "buy"
                \/ pos[order[i].party] = "short" /\ order[i].setup.side = "sell"}

NewPeak(i) ==
  IF order[i].setup.dir = "falls" THEN (IF last > peak[i] THEN last ELSE peak[i])
  ELSE (IF last < peak[i] THEN last ELSE peak[i])

-----------------------------------------------------------------------------
(* triggerStopOrders and submitStopOrders                                  *)

\* mutant: the other side of an OCO stays in the pool
StoppedByNone(hit) == {}

\* PriceUpdated: the other sides of the OCOs that were triggered
StoppedBy(hit) == Mates(hit)

\* mutant: looks again although nothing was triggered
AfterTriggerAgain(hit) == IF hit = {} THEN "trigger" ELSE "submit"

\* nothing triggered: triggerStopOrders returns
AfterTrigger(hit) == IF hit = {} THEN "idle" ELSE "submit"

\* PriceUpdated panics unless every order that is triggered is in the pool, and its other
\* side as well; RemoveExpired panics on an order that is not pooled.  After a panic the
\* node takes no further step.
TriggerIsSafe(hit) == hit \subseteq pool /\ Mates(hit) \subseteq pool \ hit
ExpiryIsSafe(due)  == due \subseteq pool

\* Removal of wrong-sided linked orders from the pool uses their OrderID, which is still
\* empty: they leave the list of expiring orders only.
TriggerStopOrders ==
  LET hit     == Triggered
      stopped == StoppedBy(hit)
      wrong   == WrongSide(pool \ (hit \cup stopped))
  IN
  /\ phase = "trigger"
  /\ TriggerIsSafe(hit)
  /\ pool' = pool \ (hit \cup stopped)
  /\ priced' = {x \in priced : x.id \in pool'}
  /\ trailing' = {x \in Adjusted(last) : x.id \in pool'}
  /\ lastSeen' = last
  /\ expiring' = {x \in expiring : x[2] \notin hit \cup stopped \cup wrong}
  /\ fate' = [i \in Ids |-> Report(stopped, "stopped")[i] \cup
                            IF i \in wrong THEN {"cancelled"} ELSE {}]
  /\ queue' = hit /\ again' = (hit # {})
  /\ phase' = AfterTrigger(hit)
  /\ peak' = [i \in Ids |-> IF i \in pool' THEN NewPeak(i) ELSE 0]
  /\ told' = TRUE
  /\ UNCHANGED <<order, last, auction, pos, now, sent>>

\* submitStopOrders sends a linked order only if it reduces the position
Reduces(i) ==
  \/ ~order[i].setup.linked
  \/ pos[order[i].party] = "long" /\ order[i].setup.side = "sell"
  \/ pos[order[i].party] = "short" /\ order[i].setup.side = "buy"

NextInQueue(i) ==
  /\ queue' = queue \ {i}
  /\ again' = (again /\ queue' # {})
  /\ phase' = IF queue' # {} THEN "submit" ELSE IF again THEN "trigger" ELSE "idle"

SubmitQueued(i) ==
  /\ phase = "submit" /\ i \in queue
  /\ NextInQueue(i)
  /\ Reduces(i)
  /\ Placed
  /\ sent' = [sent EXCEPT ![i] = @ + 1]
  /\ fate' = Report({i}, IF again THEN "triggered" ELSE "expired")
  /\ UNCHANGED <<order, tables, lastSeen, now, peak>>

SkipQueued(i) ==
  /\ phase = "submit" /\ i \in queue
  /\ NextInQueue(i)
  /\ ~Reduces(i)
  /\ UNCHANGED <<order, tables, lastSeen, market, now, fate, sent, peak>>

-----------------------------------------------------------------------------
(* SubmitStopOrders: new is a function from identifiers to setups          *)
Numbered(setups) ==
  [i \in Len(order) + 1 .. Len(order) + Len(setups) |-> setups[i - Len(order)]]

LinkIn(new, i) ==
  IF DOMAIN new = {i} THEN NoId ELSE CHOOSE j \in DOMAIN new : j # i

WouldTrigger(s) ==
  /\ s.kind = "price"
  /\ IF s.dir = "falls" THEN last <= s.at ELSE last >= s.at

Accepted(p, new) ==
  /\ pos[p] # "none"
  /\ \A i \in DOMAIN new : new[i].expires = 0 \/ new[i].expires >= now
  /\ \A i, j \in DOMAIN new : i = j \/ new[i].expires = 0 \/ new[i].expires # new[j].expires
  /\ Cardinality(Of(p)) + Cardinality(DOMAIN new) <= MaxPerParty

Record(p, new) ==
  order' = [i \in 1 .. Len(order) \cup DOMAIN new |->
              IF i \notin DOMAIN new THEN order[i]
              ELSE [party |-> p, setup |-> new[i], oco |-> LinkIn(new, i)]]

\* poolStopOrders
PoolStopOrders(new) ==
  LET at(kind) == {i \in DOMAIN new : new[i].kind = kind} IN
  /\ pool' = pool \cup DOMAIN new
  /\ priced' = priced \cup
       {[dir |-> new[i].dir, price |-> new[i].at, id |-> i] : i \in at("price")}
  /\ trailing' = trailing \cup
       {[dir |-> new[i].dir, price |-> lastSeen, offset |-> new[i].at, id |-> i]
        : i \in at("trailing")}
  /\ expiring' = expiring \cup
       {<<new[i].expires, i>> : i \in {j \in DOMAIN new : new[j].expires # 0}}
  /\ peak' = [i \in Ids |-> IF i \in DOMAIN new THEN lastSeen ELSE peak[i]]

SubmitAndPool(p, new) ==
  /\ phase = "idle" /\ Accepted(p, new)
  /\ auction \/ \A i \in DOMAIN new : ~WouldTrigger(new[i])
  /\ Record(p, new) /\ PoolStopOrders(new)
  /\ UNCHANGED <<lastSeen, market, now, phase, queue, again, fate, sent>>

\* the price is there already: the order is submitted at once, the other side is stopped
SubmitAndTrigger(p, new) ==
  LET hit   == {i \in DOMAIN new : WouldTrigger(new[i])}
      falls == {i \in hit : new[i].dir = "falls"}
      i     == CHOOSE j \in hit : falls # {} => j \in falls
  IN
  /\ phase = "idle" /\ Accepted(p, new)
  /\ ~auction /\ hit # {}
  /\ Record(p, new) /\ Placed
  /\ sent' = [sent EXCEPT ![i] = @ + 1]
  /\ fate' = [Report(DOMAIN new \ {i}, "stopped") EXCEPT ![i] = @ \cup {"triggered"}]
  /\ phase' = "trigger"
  /\ UNCHANGED <<tables, lastSeen, now, queue, again, peak>>
-----------------------------------------------------------------------------
(* The other handlers                                                      *)

\* SubmitOrder and AmendOrder, refused or not: triggerStopOrders is deferred
OrderHandled ==
  /\ phase = "idle"
  /\ Placed
  /\ phase' = "trigger"
  /\ UNCHANGED <<order, tables, lastSeen, now, queue, again, fate, sent, peak>>

\* removeWithOCO
CancelledWith(i) == {i} \cup Mates({i})

CancelStopOrder(i) ==
  /\ phase = "idle" /\ i \in pool
  /\ Remove(CancelledWith(i))
  /\ fate' = Report(CancelledWith(i), "cancelled")
  /\ UNCHANGED <<order, lastSeen, market, now, phase, queue, again, sent>>

CancelAllStopOrders(p) ==
  /\ phase = "idle" /\ Of(p) # {}
  /\ Remove(Of(p))
  /\ fate' = Report(Of(p), "cancelled")
  /\ UNCHANGED <<order, lastSeen, market, now, phase, queue, again, sent>>

\* BlockEnd: mark to market removes the closed positions, and their stop orders
ClosePosition(p) ==
  /\ phase = "idle" /\ ~auction /\ pos[p] = "flat"
  /\ pos' = [pos EXCEPT ![p] = "none"]
  /\ Remove(Of(p))
  /\ fate' = Report(Of(p), "cancelled")
  /\ UNCHANGED <<order, lastSeen, last, auction, told, now, phase, queue, again, sent>>

\* ExpiringOrders.Expire
Due(t) == {x[2] : x \in {y \in expiring : y[1] <= t}}

\* OnTick, removeExpiredStopOrders in continuous trading
Tick ==
  LET t       == now + 1
      due     == Due(t)
      stopped == Mates(due) \ due
      submit  == {i \in due : order[i].setup.submit}
  IN
  /\ phase = "idle" /\ ~auction /\ t <= MaxTime
  /\ ExpiryIsSafe(due)
  /\ now' = t
  /\ Remove(due \cup stopped)
  /\ fate' = [i \in Ids |-> Report(due \ submit, "expired")[i] \cup
                            IF i \in stopped THEN {"stopped"} ELSE {}]
  /\ queue' = submit /\ again' = FALSE
  /\ phase' = IF submit = {} THEN "idle" ELSE "submit"
  /\ UNCHANGED <<order, lastSeen, market, sent>>

\* OnTick in an auction: nothing is submitted at its expiry; then checkAuction, which may
\* end the auction and looks for triggers unless it extends a suspension by governance
AuctionTick ==
  LET t    == now + 1
      gone == Due(t) \cup Mates(Due(t))
  IN
  /\ phase = "idle" /\ auction /\ t <= MaxTime
  /\ ExpiryIsSafe(Due(t))
  /\ now' = t
  /\ Remove(gone)
  /\ fate' = Report(gone, "expired")
  /\ \/ UNCHANGED market /\ phase' \in {"idle", "trigger"}
     \/ /\ auction' = FALSE /\ phase' = "trigger"
        /\ last' \in Price /\ told' = FALSE
        /\ pos' \in [Parties -> Positions]
        /\ \A p \in Parties : pos'[p] = "none" => pos[p] = "none"
  /\ UNCHANGED <<order, lastSeen, queue, again, sent>>

-----------------------------------------------------------------------------
(* The opening auction has ended with a trade, which set both prices.      *)
Init ==
  /\ order = <<>> /\ pool = {} /\ priced = {} /\ trailing = {} /\ expiring = {}
  /\ last \in Price /\ lastSeen = last /\ auction = FALSE /\ told = TRUE /\ now = 1
  /\ pos \in [Parties -> Positions]
  /\ phase = "idle" /\ queue = {} /\ again = FALSE
  /\ fate = [i \in Ids |-> {}] /\ sent = [i \in Ids |-> 0] /\ peak = [i \in Ids |-> 0]

Submissions == {<<s>> : s \in Singles} \cup Pairs

SubmitStopOrders ==
  \E p \in Parties, setups \in Submissions :
    /\ Len(order) + Len(setups) <= MaxOrders
    /\ \/ SubmitAndPool(p, Numbered(setups))
       \/ SubmitAndTrigger(p, Numbered(setups))

\* the rest of a handler that has begun
Finish ==
  \/ TriggerStopOrders
  \/ \E i \in queue : SubmitQueued(i) \/ SkipQueued(i)

Next ==
  \/ SubmitStopOrders \/ OrderHandled \/ Tick \/ AuctionTick
  \/ \E i \in pool : CancelStopOrder(i)
  \/ \E p \in Parties : CancelAllStopOrders(p) \/ ClosePosition(p)
  \/ Finish

\* A handler that has begun runs to its end.
Spec == Init /\ [][Next]_vars /\ WF_vars(Finish)

-----------------------------------------------------------------------------
\* Every variable ranges over the values the code can store in it.
TypeOK ==
  /\ order \in Seq(Order) /\ Len(order) <= MaxOrders
  /\ pool \subseteq 1 .. Len(order) /\ queue \subseteq 1 .. Len(order)
  /\ priced \subseteq [dir : {"falls", "rises"}, price : Price, id : Ids]
  /\ trailing \subseteq [dir : {"falls", "rises"}, price : Price, offset : 1 .. 99, id : Ids]
  /\ lastSeen \in Price /\ last \in Price /\ auction \in BOOLEAN /\ told \in BOOLEAN
  /\ now \in Time /\ expiring \subseteq Time \X Ids
  /\ pos \in [Parties -> Positions]
  /\ phase \in Phases /\ again \in BOOLEAN
  /\ fate \in [Ids -> SUBSET Fates] /\ sent \in [Ids -> Nat] /\ peak \in [Ids -> Nat]

Entry(i) ==
  [dir |-> order[i].setup.dir, price |-> order[i].setup.at, id |-> i]

\* The pool and its indexes say the same in whatever way orders came and went (Insert,
\* remove, PriceUpdated, RemoveExpired): every pooled order is in one tree, under its own
\* trigger, and every tree entry is pooled.  No index is missing something the code would
\* panic on ("order in tree but not in pool", RemoveExpired).
IndexesMirrorPool ==
  /\ TypeOK
  /\ phase = "trigger" => TriggerIsSafe(Triggered)
  /\ ExpiryIsSafe(Due(MaxTime))
  /\ priced = {Entry(i) : i \in {j \in pool : order[j].setup.kind = "price"}}
  /\ {[dir |-> x.dir, offset |-> x.offset, id |-> x.id] : x \in trailing}
       = {[dir |-> order[i].setup.dir, offset |-> order[i].setup.at, id |-> i]
          : i \in {j \in pool : order[j].setup.kind = "trailing"}}
  /\ expiring = {<<order[i].setup.expires, i>> : i \in
       {j \in pool : order[j].setup.expires # 0 /\ "cancelled" \notin fate[j]}}

\* A trailing stop order hangs on the highest price (lowest, if it rises above) the pool
\* was told of since it was inserted, and on one only, however the buckets of many orders
\* were merged on the way (adjustBuckets, trigger).
TrailsThePeak ==
  \A i \in pool : order[i].setup.kind = "trailing" =>
    {x.price : x \in {y \in trailing : y.id = i}} = {peak[i]}

\* One cancels the other: the two orders of a pair are pooled together, and at most one of
\* them is ever submitted, once, and not after it was reported stopped (PriceUpdated,
\* removeWithOCO, RemoveExpired).
OneCancelsOther ==
  \A i \in 1 .. Len(order) :
    /\ sent[i] <= 1 /\ (i \in queue \/ "stopped" \in fate[i] => sent[i] = 0)
    /\ Linked(i) => (i \in pool <=> order[i].oco \in pool)
    /\ Linked(i) /\ (sent[i] = 1 \/ i \in queue) =>
         sent[order[i].oco] = 0 /\ order[i].oco \notin queue

\* After a handler in continuous trading no stop order is left in the pool whose trigger the
\* last traded price has reached (triggerStopOrders calls itself until nothing is triggered,
\* and what is pooled between is checked against the price), unless an order submitted at
\* its expiry has traded: OnTick does not tell the pool.
NothingLeftTriggered ==
  phase = "idle" /\ ~auction /\ told =>
    \A i \in pool : ~WouldTrigger(order[i].setup)

\* The comment of CheckDirection, "Remove the deleted items from the map", and the scenario
\* "A linked stop order with position size override will be cancelled if the position flips":
\* an order that was reported cancelled is never submitted.
CancelledIsFinal ==
  \A i \in Ids : "cancelled" \in fate[i] => sent[i] = 0

\* triggerStopOrders does not call itself for ever, whatever the orders it submits do.
HandlersEnd == phase \in {"trigger", "submit"} ~> phase = "idle"

=============================================================================
