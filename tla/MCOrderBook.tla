----------------------------- MODULE MCOrderBook -----------------------------
(***************************************************************************)
(* A small instance of OrderBook for TLC, for two ways to use a market.     *)
(***************************************************************************)
EXTENDS OrderBook, TLC

\* Orders are told apart by their names only.
Symmetry == Permutations(Ids) \cup Permutations(Parties)

\* Every time in force, sizes amended, no icebergs.
Plain == [sizes |-> {1, 2}, icebergs |-> {}, amends |-> {"size"},
          tifs |-> {"GTC", "IOC", "FOK", "GFA", "GFN"}]

\* Icebergs, prices amended.
Hidden == [sizes |-> {1, 3}, icebergs |-> {<<1, 1>>}, amends |-> {"price"}, tifs |-> {"GTC"}]

BothUsages == {Plain, Hidden}
=============================================================================
