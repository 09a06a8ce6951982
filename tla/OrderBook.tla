------------------------------ MODULE OrderBook ------------------------------
(***************************************************************************)
(* The limit order book of a market: core/matching (price levels, sides,    *)
(* the book, the indicative price of an auction and the cache in front of   *)
(* it), driven the way core/execution/future/market.go drives it.           *)
(*                                                                          *)
(* The book has no off-book source, as in a spot market, and no pegged       *)
(* orders.  A market order is a limit order at the worst price.             *)
(***************************************************************************)
EXTENDS PriceLevels

CONSTANTS
    Ids,         \* names of orders; at most Cardinality(Ids) rest at a time
    Parties,
    Usages       \* what the parties of a market may do:
                 \*   sizes     sizes of orders, no order is amended beyond the largest
                 \*   icebergs  <<peak size, minimum visible size>> of iceberg orders
                 \*   tifs      times in force that are submitted
                 \*   amends    kinds of amendment that are made: "size", "price"

ASSUME BookAssumption ==
    /\ MaxPrice \in Nat \ {0}
    /\ \A u \in Usages :
         /\ u.sizes \subseteq Nat \ {0} /\ IsFiniteSet(u.sizes)
         /\ u.icebergs \subseteq {<<p, m>> \in u.sizes \X u.sizes : m <= p}
         /\ u.tifs \subseteq {"GTC", "GFA", "GFN", "IOC", "FOK"}
         /\ u.amends \subseteq {"size", "price"}

VARIABLES
    levels,      \* side -> price -> PriceLevel
    byID,        \* keys of ordersByID and ordersPerParty
    auction,     \* OrderBook.auction
    ipv,         \* indicativePriceAndVolume
    cache,       \* CachedOrderBook.cache
    usage        \* the usage of this market, which never changes

vars == <<levels, byID, auction, ipv, cache, usage>>

MaxSize == Max(usage.sizes)

Orders == [id : Ids, party : Parties, side : Sides, price : Prices,
           remaining : 0..MaxSize, reserve : 0..MaxSize,
           iceberg : usage.icebergs \cup {NotIceberg}, tif : usage.tifs]

\* GetTrades: what SubmitOrder will do, for fees and price monitoring.
GetTrades(o) == fakeUncross(o, levels[Opposite(o.side)]).trades

---------------------------------------------------------------------------
(* The indicative price and volume of an auction *)

OccupiedIn(lvs, s) == {p \in Prices : lvs[s][p].orders # <<>>}
Occupied(s) == OccupiedIn(levels, s)
BestBid == Max(Occupied("buy"))
BestAsk == Min(Occupied("sell"))
Crossed ==
    /\ Occupied("buy") # {}
    /\ Occupied("sell") # {}
    /\ BestBid >= BestAsk

NoIpv == [known |-> {}, volume |-> [s \in Sides |-> [p \in Prices |-> 0]]]
NoIndicative == [price |-> 0, volume |-> 0, side |-> "none"]
NoCache == [price |-> 0, volume |-> 0, side |-> "invalid"]

\* buildInitialCumulativeLevels: from the volumes the levels have cached.
NewIpv(lvs) ==
    [known |-> OccupiedIn(lvs, "buy") \cup OccupiedIn(lvs, "sell"),
     volume |-> [s \in Sides |-> [p \in Prices |-> lvs[s][p].volume]]]

AddVolumeAtPrice(v, o, size) ==
    [known |-> v.known \cup {o.price},
     volume |-> [v.volume EXCEPT ![o.side][o.price] = @ + size]]

RemoveVolumeAtPrice(v, o, size) ==
    [v EXCEPT !.volume[o.side][o.price] = @ - size]

\* The prices of the crossed region; the cumulative volume of each side, over
\* the prices R.
Region(v, bid, ask) == {p \in v.known : ask <= p /\ p <= bid}
CumulativeBid(v, R, p) == Sum(LAMBDA q : v.volume["buy"][q], {q \in R : q >= p})
CumulativeAsk(v, R, p) == Sum(LAMBDA q : v.volume["sell"][q], {q \in R : q <= p})
MaxTradable(v, R, p) == Smaller(CumulativeBid(v, R, p), CumulativeAsk(v, R, p))

\* The side that is filled exactly is taken off the book.
UncrossSideFor(v, R, most) ==
    IF CumulativeBid(v, R, Max({p \in R : CumulativeBid(v, R, p) >= most})) = most
    THEN "buy" ELSE "sell"

IndicativeAmong(v, R, most) ==
    LET best == {p \in R : MaxTradable(v, R, p) = most}
    IN [price |-> (Min(best) + Max(best)) \div 2,
        volume |-> most,
        side |-> UncrossSideFor(v, R, most)]

GetIndicativePriceAndVolume(v) ==
    LET among(R) == IndicativeAmong(v, R, Max({MaxTradable(v, R, p) : p \in R}))
    IN IF Crossed THEN among(Region(v, BestBid, BestAsk)) ELSE NoIndicative

Indicative == GetIndicativePriceAndVolume(ipv)

\* Will non-GFA orders be left on a side once the book is uncrossed?  One
\* beyond the best price of the other side, or one that reaches past the
\* volume which trades.
Beyond(s, o) == IF s = "buy" THEN o.price < BestAsk ELSE o.price > BestBid
InReach(s) == SelectSeq(Queue(s, levels[s]), LAMBDA o : ~Beyond(s, o))
OutOfReach(s) == \E o \in ToSet(Queue(s, levels[s])) : Beyond(s, o) /\ o.tif # "GFA"

\* mutant: only orders beyond the other side's best price are looked at
LeftIfBeyond(s) == OutOfReach(s)

LeftAfterAuction(s) ==
    LET q == InReach(s)
    IN \/ OutOfReach(s)
       \/ \E v \in {Indicative.volume} :
            \E i \in 1..Len(q) : q[i].tif # "GFA" /\ Ahead(q, i + 1) > v

canUncross(requireTrades) ==
    /\ Occupied("buy") # {} /\ Occupied("sell") # {}
    /\ requireTrades => BestBid >= BestAsk
    /\ LeftAfterAuction("buy") /\ LeftAfterAuction("sell")

---------------------------------------------------------------------------
(* Uncrossing at the end of an auction *)

\* The orders to be traded in full, taken off the top of the side that fits.
\* The code panics when no number of them gives the volume within the price.
Extracts(r) ==
    LET q == Queue(r.side, levels[r.side])
        within(o) == IF r.side = "buy" THEN o.price >= r.price ELSE o.price <= r.price
    IN {SubSeq(q, 1, n) : n \in {m \in 0..Len(q) :
          /\ Sum(LAMBDA i : TrueRemaining(q[i]), 1..m) = r.volume
          /\ \A i \in 1..m : within(q[i])}}

ExtractOrders(r) == CHOOSE os \in Extracts(r) : TRUE

Without(lv, os) ==
    FoldLeft(LAMBDA l, o : [l EXCEPT ![o.price] = RemoveOrder(@, o)], lv, os)

\* The next extracted order, o, has been matched with the other side: u.
AfterExtracted(st, o, u) ==
    [lv |-> u.lv, volume |-> st.volume + FullSize(o).remaining - u.agg.remaining,
     filled |-> IF u.agg.remaining = 0 THEN st.filled \cup {o.id} ELSE st.filled,
     hit |-> st.hit \cup {t[1] : t \in u.trades}]

uncrossBookSide(os, s) ==
    FoldLeft(LAMBDA st, o :
               AfterExtracted(st, o, UncrossSide(FullSize(o), st.lv, FALSE, FALSE)),
             [lv |-> levels[s], volume |-> 0, filled |-> {}, hit |-> {}], os)

OnLevels(lv) == UNION {{o.id : o \in ToSet(lv[p].orders)} : p \in Prices}

\* mutant: filled orders are not removed from the maps
FilledKept(before, after) == {}

Filled(before, after) == OnLevels(before) \ OnLevels(after)

\* uncrossBook and what LeaveAuction does with the orders that traded: os were
\* taken off their side, u is the outcome on the other side, s.
UncrossedWith(os, s, u) ==
    [levels |-> [x \in Sides |-> IF x = s THEN Refreshed(u.lv, u.hit)
                                          ELSE Without(levels[x], os)],
     gone |-> u.filled \cup Filled(levels[s], u.lv),
     volume |-> u.volume]

UncrossedAt(r) ==
    LET extracted(os, s) == UncrossedWith(os, s, uncrossBookSide(os, s))
    IN IF r = NoIndicative THEN [levels |-> levels, gone |-> {}, volume |-> 0]
       ELSE extracted(ExtractOrders(r), Opposite(r.side))

Uncrossed == UncrossedAt(Indicative)

\* fakeUncrossAuction: the volume of the trades announced for the uncrossing.
\* An iceberg shows its whole size only if a level begins with it.
RECURSIVE fakeUncrossAuction(_, _, _, _)
fakeUncrossAuction(os, lv, ps, levelStart) ==
    IF os = <<>> \/ ps = <<>> THEN 0
    ELSE LET fake == IF levelStart THEN FullSize(Head(os)) ELSE Head(os)
             u == UncrossLevel(fake, lv[Head(ps)], FALSE)
             then == [lv EXCEPT ![Head(ps)] = u.level]
         IN IF ~Crosses(fake, Head(ps))
            THEN fakeUncrossAuction(<<fake>> \o Tail(os), lv, Tail(ps), TRUE)
            ELSE fake.remaining - u.agg.remaining
                 + IF u.agg.remaining = 0
                   THEN fakeUncrossAuction(Tail(os), then, ps, FALSE)
                   ELSE fakeUncrossAuction(<<u.agg>> \o Tail(os), then, Tail(ps), TRUE)

GetIndicativeTrades(r) ==
    LET s == Opposite(r.side)
    IN IF r = NoIndicative THEN 0
       ELSE fakeUncrossAuction(ExtractOrders(r), levels[s], BestFirst(s), TRUE)

---------------------------------------------------------------------------
(* The cache in front of the indicative price *)

\* mutant: an order at the other side's best price does not matter
MattersIfBeyond(o) ==
    \/ Occupied("buy") = {} \/ Occupied("sell") = {}
    \/ o.side = "buy" /\ o.price > BestAsk
    \/ o.side = "sell" /\ o.price < BestBid

\* An order is taken to matter if its price is in the crossed region.
MattersToAuction(o) ==
    \/ Occupied("buy") = {} \/ Occupied("sell") = {}
    \/ /\ o.side = "buy"
       /\ o.price >= BestAsk
    \/ /\ o.side = "sell"
       /\ o.price <= BestBid

maybeInvalidate(o) == IF ~auction \/ MattersToAuction(o) THEN NoCache ELSE cache

ReadIndicative ==
    /\ auction
    /\ cache = NoCache
    /\ cache' = Indicative
    /\ UNCHANGED <<levels, byID, auction, ipv, usage>>

---------------------------------------------------------------------------
(* Operations *)

NewOrders(id) ==
    {o \in [id : {id}, party : Parties, side : Sides, price : Prices,
            remaining : usage.sizes, reserve : {0},
            iceberg : usage.icebergs \cup {NotIceberg}, tif : usage.tifs] :
       o.iceberg # NotIceberg => Persistent(o) /\ o.iceberg[1] <= o.remaining}

Resting == UNION {ToSet(levels[s][p].orders) : s \in Sides, p \in Prices}

validateOrder(o) == o.tif # (IF auction THEN "GFN" ELSE "GFA")

\* The book after o is matched, with outcome u, and, if something of it is to
\* rest, added.  lvs, v: the levels and the indicative volumes before.
Placed(o, lvs, v, u) ==
    LET opp == Opposite(o.side)
        rests == Persistent(u.agg) /\ ~u.wash
        new == SetIcebergPeaks(u.agg)
        own == IF rests THEN [lvs[o.side] EXCEPT ![o.price] = AddOrder(@, new)]
                        ELSE lvs[o.side]
    IN [levels |-> [s \in Sides |-> IF s = opp THEN Refreshed(u.lv, {t[1] : t \in u.trades})
                                               ELSE own],
        ipv |-> IF auction /\ rests THEN AddVolumeAtPrice(v, o, TrueRemaining(new)) ELSE v,
        added |-> IF rests THEN {o.id} ELSE {},
        gone |-> Filled(lvs[opp], u.lv)]

Submitted(o, lvs, v) ==
    LET other == lvs[Opposite(o.side)]
    IN Placed(o, lvs, v,
              IF auction THEN [agg |-> o, lv |-> other, trades |-> {}, wash |-> FALSE]
              ELSE uncross(o, other))

SubmitOrder(o) ==
    /\ o.id \notin byID
    /\ validateOrder(o)
    /\ \E b \in {Submitted(o, levels, ipv)} :
         /\ levels' = b.levels
         /\ byID' = (byID \ b.gone) \cup b.added
         /\ ipv' = b.ipv
    /\ cache' = maybeInvalidate(o)
    /\ UNCHANGED <<auction, usage>>

DeletedFrom(lvs, o) == [lvs EXCEPT ![o.side][o.price] = RemoveOrder(@, o)]

DeletedIpv(o) == IF auction THEN RemoveVolumeAtPrice(ipv, o, TrueRemaining(o)) ELSE ipv

CancelOrder(o) ==
    /\ levels' = DeletedFrom(levels, o)
    /\ byID' = byID \ {o.id}
    /\ ipv' = DeletedIpv(o)
    /\ cache' = maybeInvalidate(o)
    /\ UNCHANGED <<auction, usage>>

\* CancelAllOrders and RemoveDistressedOrders
CancelAll(party) ==
    LET os == SetToSeq({o \in Resting : o.party = party})
    IN /\ os # <<>>
       /\ levels' = FoldLeft(DeletedFrom, levels, os)
       /\ byID' = byID \ {o.id : o \in ToSet(os)}
       /\ ipv' = IF auction
                 THEN FoldLeft(LAMBDA v, o : RemoveVolumeAtPrice(v, o, TrueRemaining(o)), ipv, os)
                 ELSE ipv
       /\ cache' = NoCache
       /\ UNCHANGED <<auction, usage>>

\* The amended copy of an order whose size is increased or decreased by d.
AmendedSize(o, more, d) ==
    LET cut == Smaller(o.reserve, d)
    IN IF o.iceberg # NotIceberg
       THEN IF more THEN [o EXCEPT !.reserve = @ + d]
            ELSE [o EXCEPT !.reserve = @ - cut, !.remaining = @ - Smaller(@, d - cut)]
       ELSE IF more THEN [o EXCEPT !.remaining = @ + d]
            ELSE [o EXCEPT !.remaining = @ - Smaller(@, d)]

\* The volume a level caches after new took the place of old: nothing is
\* subtracted when an iceberg without a reserve shows less.
AmendedVolume(l, old, new) ==
    IF old.iceberg # NotIceberg /\ new.reserve = old.reserve THEN l.volume
    ELSE l.volume + TrueRemaining(new) - TrueRemaining(old)

\* mutant: the amended order is put at the end of the level
SwappedToBack(l, old, new) ==
    [orders |-> Append(SelectSeq(l.orders, LAMBDA o : o.id # old.id), new),
     volume |-> AmendedVolume(l, old, new)]

Swapped(l, old, new) ==
    [orders |-> [i \in DOMAIN l.orders |-> IF l.orders[i].id = old.id THEN new ELSE l.orders[i]],
     volume |-> AmendedVolume(l, old, new)]

AmendInPlace(old, new) ==
    /\ levels' = [levels EXCEPT ![old.side][old.price] = Swapped(@, old, new)]
    /\ ipv' = IF auction
              THEN [ipv EXCEPT !.volume[old.side][old.price] =
                      @ + TrueRemaining(new) - TrueRemaining(old)]
              ELSE ipv
    /\ cache' = maybeInvalidate(old)
    /\ UNCHANGED <<byID, auction, usage>>

\* The wrapper asks whether the order matters under the id of the new order,
\* which finds the old one.
ReplaceInvalidates(old, new) == maybeInvalidate(old)

ReplaceOrder(old, new) ==
    LET o == IF auction THEN new ELSE FullSize(new)
    IN /\ \E b \in {Submitted(o, DeletedFrom(levels, old), DeletedIpv(old))} :
            /\ levels' = b.levels
            /\ byID' = ((byID \ {old.id}) \ b.gone) \cup b.added
            /\ ipv' = b.ipv
       /\ cache' = ReplaceInvalidates(old, new)
       /\ UNCHANGED <<auction, usage>>

AmendSize(o, more, d) ==
    LET new == AmendedSize(o, more, d)
    IN /\ "size" \in usage.amends
       /\ TrueRemaining(new) <= MaxSize
       /\ IF new.remaining = 0 THEN CancelOrder(o)
          ELSE IF more /\ o.iceberg = NotIceberg THEN ReplaceOrder(o, new)
          ELSE AmendInPlace(o, new)

AmendPrice(o, p) ==
    /\ "price" \in usage.amends
    /\ p # o.price
    /\ ReplaceOrder(o, [o EXCEPT !.price = p])

\* Orders that are not valid in the other mode are cancelled by the market.
getOrdersToCancel(lvs, tif) ==
    SelectSeq(Queue("buy", lvs["buy"]) \o Queue("sell", lvs["sell"]), LAMBDA o : o.tif = tif)

EnterAuction ==
    LET os == getOrdersToCancel(levels, "GFN")
    IN /\ ~auction
       /\ auction' = TRUE
       /\ levels' = FoldLeft(DeletedFrom, levels, os)
       /\ byID' = byID \ {o.id : o \in ToSet(os)}
       /\ ipv' = FoldLeft(LAMBDA v, o : RemoveVolumeAtPrice(v, o, TrueRemaining(o)),
                          NewIpv(levels), os)
       /\ cache' = NoCache
       /\ UNCHANGED usage

LeaveAuction ==
    /\ auction
    /\ auction' = FALSE
    /\ \E r \in {Indicative} :
         /\ r # NoIndicative => Extracts(r) # {}
         /\ \E u \in {UncrossedAt(r)} :
              LET os == getOrdersToCancel(u.levels, "GFA")
              IN /\ levels' = FoldLeft(DeletedFrom, u.levels, os)
                 /\ byID' = (byID \ u.gone) \ {o.id : o \in ToSet(os)}
    /\ ipv' = NoIpv
    /\ cache' = NoCache
    /\ UNCHANGED usage

\* A node that restarts adds the saved orders to an empty book.
Reloaded(l) == FoldLeft(AddOrder, NoLevel, l.orders)

LoadState ==
    LET lvs == [s \in Sides |-> [p \in Prices |-> Reloaded(levels[s][p])]]
    IN /\ levels' = lvs
       /\ ipv' = IF auction THEN NewIpv(lvs) ELSE NoIpv
       /\ cache' = IF auction THEN GetIndicativePriceAndVolume(NewIpv(lvs)) ELSE NoCache
       /\ UNCHANGED <<byID, auction, usage>>

---------------------------------------------------------------------------
Init ==
    /\ levels = [s \in Sides |-> [p \in Prices |-> NoLevel]]
    /\ byID = {}
    /\ auction = FALSE
    /\ ipv = NoIpv
    /\ cache = NoCache
    /\ usage \in Usages

Next ==
    \/ \E id \in Ids : \E o \in NewOrders(id) : SubmitOrder(o)
    \/ \E o \in Resting : CancelOrder(o)
    \/ \E p \in Parties : CancelAll(p)
    \/ \E o \in Resting, more \in BOOLEAN, d \in 1..MaxSize : AmendSize(o, more, d)
    \/ \E o \in Resting, p \in Prices : AmendPrice(o, p)
    \/ EnterAuction
    \/ LeaveAuction
    \/ LoadState
    \/ ReadIndicative

Spec == Init /\ [][Next]_vars

---------------------------------------------------------------------------
(* Properties *)

\* Every part of the book has the type of its Go counterpart.
TypeOK ==
    /\ byID \subseteq Ids
    /\ auction \in BOOLEAN
    /\ \A s \in Sides, p \in Prices :
         /\ levels[s][p].volume \in Nat
         /\ ipv.volume[s][p] \in Nat
         /\ \A o \in ToSet(levels[s][p].orders) :
              o \in Orders /\ o.side = s /\ o.price = p /\ o.remaining > 0
    /\ ipv.known \subseteq Prices

\* In continuous trading the book is never crossed: whatever could trade has
\* traded, own orders and the reserves of icebergs included.
NeverCrossed == ~auction => ~Crossed

\* The lookup maps name exactly the orders on the levels, each of which is there
\* once, and the volume a level has cached is what its orders have left
\* (OrderBook.add and remove against PriceLevel; amendOrder).
IndexMirrorsLevels ==
    /\ TypeOK
    /\ LET q == Queue("buy", levels["buy"]) \o Queue("sell", levels["sell"])
       IN byID = {q[i].id : i \in 1..Len(q)} /\ Cardinality(byID) = Len(q)
    /\ \A s \in Sides, p \in Prices :
         levels[s][p].volume
           = LET os == levels[s][p].orders IN Sum(LAMBDA i : TrueRemaining(os[i]), 1..Len(os))

OnlyPlainOrders == \A o \in Resting : o.iceberg = NotIceberg

SomeId == CHOOSE id \in Ids : TRUE

\* Trades are what they were announced to be, unless icebergs rest on the book: in continuous trading those that
\* SubmitOrder makes are those that GetTrades has told fees and price monitoring
\* of, and in an auction the volume that GetIndicativeTrades announces is the
\* volume that is uncrossed.
AnnouncedTradesHappen ==
    OnlyPlainOrders =>
      IF auction THEN GetIndicativeTrades(Indicative) = Uncrossed.volume
      ELSE \A o \in NewOrders(SomeId) :
             validateOrder(o) => GetTrades(o) = uncross(o, levels[Opposite(o.side)]).trades

\* During an auction there is one indicative price: a cached one is the one the
\* volumes kept order by order give, and that is what a node finds that is
\* restarted and adds up the volumes from scratch (CachedOrderBook, LoadState).
\* The cache is excepted where prices are amended.
IndicativeIsTrue ==
    auction =>
      /\ cache # NoCache /\ "price" \notin usage.amends => cache = Indicative
      /\ Indicative = GetIndicativePriceAndVolume(
                        NewIpv([s \in Sides |-> [p \in Prices |-> Reloaded(levels[s][p])]]))

\* The auction can always be uncrossed: the extracted orders add up to the
\* indicative volume, all of it trades, and the book is not crossed after.
UncrossingIsExact ==
    auction => \A r \in {Indicative} : r # NoIndicative =>
      /\ Extracts(r) # {}
      /\ \A u \in {UncrossedAt(r)} :
           /\ u.volume = r.volume
           /\ \A b \in OccupiedIn(u.levels, "buy") :
                \A a \in OccupiedIn(u.levels, "sell") : b < a

\* An auction that may end leaves orders on both sides (canUncross).
StaysOnBook(s) ==
    \E u \in {Uncrossed}, p \in Prices :
      \E o \in ToSet(u.levels[s][p].orders) : o.tif # "GFA"

\* Without icebergs on the book, an auction may end exactly when orders will be
\* left on both sides (canUncross).
CanUncrossForetells ==
    auction /\ OnlyPlainOrders => (canUncross(FALSE) <=> \A s \in Sides : StaysOnBook(s))

\* An order is overtaken at its price only if it was traded and refreshed, or
\* replaced by a larger one.
Precedes(os, a, b) == \E i, j \in 1..Len(os) : i < j /\ os[i].id = a.id /\ os[j].id = b.id

KeepsPriority ==
    [][\A s \in Sides, p \in Prices :
         LET now == levels[s][p].orders
             then == levels'[s][p].orders
         IN \A a, b \in ToSet(now) :
              Precedes(now, a, b) /\ Precedes(then, b, a) =>
                LET x == CHOOSE x \in ToSet(then) : x.id = a.id
                IN \/ a.iceberg # NotIceberg /\ TrueRemaining(x) < TrueRemaining(a)
                   \/ TrueRemaining(x) > TrueRemaining(a)]_vars
=============================================================================
