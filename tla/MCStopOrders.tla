---------------------------- MODULE MCStopOrders ----------------------------
(***************************************************************************)
(* Small instances of StopOrders for TLC.                                  *)
(***************************************************************************)
EXTENDS StopOrders

Plain(dir, kind, at) ==
  [dir |-> dir, kind |-> kind, at |-> at, expires |-> 0, submit |-> FALSE,
   linked |-> FALSE, side |-> "sell"]

\* a trailing order that is submitted when it expires
Alone == {[Plain("falls", "trailing", 50) EXCEPT !.expires = 2, !.submit = TRUE]}

\* pairs whose triggers exclude each other
Exclusive ==
  {<<Plain("falls", "price", 1),
     [Plain("rises", "price", 3) EXCEPT !.expires = 2, !.linked = TRUE]>>,
   <<Plain("falls", "trailing", 25), Plain("rises", "trailing", 50)>>}

\* a linked order that takes the profit of a long position
LinkedOnly == {[Plain("rises", "price", 2) EXCEPT !.linked = TRUE]}
NoPairs == {}
=============================================================================
