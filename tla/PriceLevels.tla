----------------------------- MODULE PriceLevels -----------------------------
(***************************************************************************)
(* Orders, price levels and sides of an order book as values, and how an    *)
(* order is matched against them (core/matching/pricelevel.go, side.go and   *)
(* the iceberg operations of core/types/matching.go).                        *)
(*                                                                          *)
(* An order is [id, party, side, price, remaining, reserve, iceberg, tif],   *)
(* where iceberg is <<peak size, minimum visible size>>; a level is          *)
(* [orders, volume]; a side maps every price to its level.                   *)
(***************************************************************************)
EXTENDS Naturals, Sequences, FiniteSets, SequencesExt

CONSTANT MaxPrice    \* prices are 1..MaxPrice

Sides == {"buy", "sell"}
Prices == 1..MaxPrice
Opposite(s) == IF s = "buy" THEN "sell" ELSE "buy"
Smaller(x, y) == IF x < y THEN x ELSE y
Sum(f(_), S) == MapThenSumSet(f, S)

---------------------------------------------------------------------------
(* Orders *)

NotIceberg == <<0, 0>>

TrueRemaining(o) == o.remaining + o.reserve

IcebergNeedsRefresh(o) ==
    /\ o.iceberg # NotIceberg
    /\ o.reserve > 0
    /\ o.remaining < o.iceberg[2]

\* The visible part is cut from a full order, or refilled from the reserve.
SetIcebergPeaks(o) ==
    LET peak == o.iceberg[1]
        refill == Smaller(peak - o.remaining, o.reserve)
    IN IF o.iceberg = NotIceberg THEN o
       ELSE IF o.remaining > peak /\ o.reserve = 0
            THEN [o EXCEPT !.remaining = peak, !.reserve = o.remaining - peak]
            ELSE [o EXCEPT !.remaining = @ + refill, !.reserve = @ - refill]

\* mutant: an aggressive iceberg is matched with its visible part
VisibleSize(o) == o

\* An aggressive iceberg is matched with its whole size.
FullSize(o) == [o EXCEPT !.remaining = TrueRemaining(o), !.reserve = 0]

Persistent(o) == o.tif \in {"GTC", "GFA", "GFN"} /\ o.remaining > 0

---------------------------------------------------------------------------
(* Price levels; a level without orders is deleted *)

NoLevel == [orders |-> <<>>, volume |-> 0]

Kept(l) == IF l.orders = <<>> THEN NoLevel ELSE l

AddOrder(l, o) == [orders |-> Append(l.orders, o), volume |-> l.volume + TrueRemaining(o)]

RemoveOrder(l, o) ==
    Kept([orders |-> SelectSeq(l.orders, LAMBDA x : x.id # o.id),
          volume |-> l.volume - TrueRemaining(o)])

\* Orders that traded and show too little go to the back of the line, in the
\* order in which they were hit, which is their order on the level.
icebergRefresh(l, hit) ==
    FoldLeft(LAMBDA lev, o : IF o.id \in hit /\ IcebergNeedsRefresh(o)
                             THEN AddOrder(RemoveOrder(lev, o), SetIcebergPeaks(o))
                             ELSE lev,
             l, l.orders)

Refreshed(lv, hit) == [p \in Prices |-> icebergRefresh(lv[p], hit)]

Ahead(os, i) == Sum(LAMBDA j : os[j].remaining, 1..(i - 1))

\* Matching stops at the first order of the aggressor's own party.
StopAt(agg, os, checkWash) ==
    IF checkWash /\ \E i \in 1..Len(os) : os[i].party = agg.party
    THEN Min({i \in 1..Len(os) : os[i].party = agg.party})
    ELSE Len(os) + 1

IsWash(agg, os, checkWash) ==
    LET stop == StopAt(agg, os, checkWash)
    IN stop <= Len(os) /\ Ahead(os, stop) < agg.remaining

Visible(agg, os, n) ==
    [i \in 1..Len(os) |->
        IF i > n THEN 0
        ELSE Smaller(os[i].remaining, agg.remaining - Smaller(agg.remaining, Ahead(os, i)))]

\* mutant: the reserves are not traded with
uncrossNoReserves(left, os, n) == [i \in 1..Len(os) |-> 0]

\* A part of the reserves, in proportion; and what each gets when the crumbs of
\* the division go to the orders in front.
InProportion(part, total, os, n) ==
    [i \in 1..n |-> IF total = 0 THEN 0 ELSE (os[i].reserve * part) \div total]

WithCrumbs(share, part, os) ==
    LET n == Len(share)
        crumbs == part - Sum(LAMBDA i : share[i], 1..n)
        before(i) == Sum(LAMBDA j : os[j].reserve - share[j], 1..(i - 1))
    IN [i \in 1..Len(os) |->
          IF i > n THEN 0
          ELSE share[i] + Smaller(os[i].reserve - share[i], crumbs - Smaller(crumbs, before(i)))]

\* What is left of the aggressor is shared among the reserves.
uncrossIcebergs(left, os, n) ==
    LET among(total) == WithCrumbs(InProportion(Smaller(left, total), total, os, n),
                                   Smaller(left, total), os)
    IN among(Sum(LAMBDA i : os[i].reserve, 1..n))

\* The trades at one level: pairs of passive order and size.  An iceberg whose
\* visible part is used up may get a share of zero.
TradesOf(os, visible, hidden, left, n) ==
    {<<os[i].id, visible[i] + hidden[i]>> :
       i \in {j \in 1..n : visible[j] > 0 \/ (left > 0 /\ os[j].reserve > 0)}}

\* The level after its first n orders gave what they show and what they hide.
Matched(agg, l, n, visible, left, hidden, wash) ==
    LET os == l.orders
        traded == Sum(LAMBDA i : visible[i] + hidden[i], DOMAIN visible)
        after == [i \in DOMAIN visible |->
                    [os[i] EXCEPT !.remaining = @ - visible[i], !.reserve = @ - hidden[i]]]
    IN [agg |-> [agg EXCEPT !.remaining = @ - traded],
        level |-> Kept([orders |-> SelectSeq(after, LAMBDA o : TrueRemaining(o) > 0),
                        volume |-> l.volume - traded]),
        trades |-> TradesOf(os, visible, hidden, left, n),
        wash |-> wash]

UncrossLevel(agg, l, checkWash) ==
    LET hiddenToo(n, visible, left) ==
            Matched(agg, l, n, visible, left, uncrossIcebergs(left, l.orders, n),
                    IsWash(agg, l.orders, checkWash))
        first(n, visible) ==
            hiddenToo(n, visible, agg.remaining - Sum(LAMBDA i : visible[i], DOMAIN visible))
        upTo(n) == first(n, Visible(agg, l.orders, n))
    IN upTo(StopAt(agg, l.orders, checkWash) - 1)

\* mutant: the rehearsal goes on after an own order
fakeUncrossIgnoresWash(agg, l, checkWash) == [UncrossLevel(agg, l, FALSE) EXCEPT !.level = l]

\* The rehearsal returns at an own order, before the reserves are looked at.
fakeUncrossLevel(agg, l, checkWash) ==
    LET n == StopAt(agg, l.orders, checkWash) - 1
        visible == Visible(agg, l.orders, n)
        none == [i \in DOMAIN visible |-> 0]
    IN IF IsWash(agg, l.orders, checkWash)
       THEN [agg |-> [agg EXCEPT !.remaining = @ - Sum(LAMBDA i : visible[i], DOMAIN visible)],
             level |-> l, trades |-> TradesOf(l.orders, visible, none, 0, n), wash |-> TRUE]
       ELSE [UncrossLevel(agg, l, checkWash) EXCEPT !.level = l]

---------------------------------------------------------------------------
(* Sides *)

BestFirst(s) == [i \in Prices |-> IF s = "sell" THEN i ELSE MaxPrice + 1 - i]

Crosses(agg, p) == IF agg.side = "buy" THEN p <= agg.price ELSE p >= agg.price

\* The orders of a side in price-time priority.
Queue(s, lv) == FlattenSeq([i \in Prices |-> lv[BestFirst(s)[i]].orders])

AfterLevel(st, p, u) ==
    [agg |-> u.agg, lv |-> [st.lv EXCEPT ![p] = u.level],
     trades |-> st.trades \cup u.trades, wash |-> u.wash]

\* From the best price on, for real or as a rehearsal.
UncrossSide(agg, lv, checkWash, fake) ==
    FoldLeft(LAMBDA st, p :
               IF st.agg.remaining = 0 \/ st.wash \/ st.lv[p] = NoLevel \/ ~Crosses(agg, p)
               THEN st
               ELSE AfterLevel(st, p, IF fake THEN fakeUncrossLevel(st.agg, st.lv[p], checkWash)
                                              ELSE UncrossLevel(st.agg, st.lv[p], checkWash)),
             [agg |-> agg, lv |-> lv, trades |-> {}, wash |-> FALSE],
             BestFirst(Opposite(agg.side)))

\* A fill-or-kill order is checked against the visible volume first.
FokQueue(agg, lv) == SelectSeq(Queue(Opposite(agg.side), lv), LAMBDA o : Crosses(agg, o.price))

FokWash(agg, lv) == IsWash(agg, FokQueue(agg, lv), TRUE)

FokShort(agg, lv) ==
    LET q == FokQueue(agg, lv) IN Ahead(q, Len(q) + 1) < agg.remaining

UncrossWith(agg, lv, fake) ==
    IF agg.tif = "FOK" /\ (FokWash(agg, lv) \/ FokShort(agg, lv))
    THEN [agg |-> agg, lv |-> lv, trades |-> {}, wash |-> FokWash(agg, lv)]
    ELSE UncrossSide(agg, lv, TRUE, fake)

uncross(agg, lv) == UncrossWith(agg, lv, FALSE)
fakeUncross(agg, lv) == UncrossWith(agg, lv, TRUE)
=============================================================================
