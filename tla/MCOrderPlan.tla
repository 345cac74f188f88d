----------------------------- MODULE MCOrderPlan -----------------------------
(* Prices around the edge of a nickel and dime market rule, policies with     *)
(* equal, unequal and too many levels for the contracts, stops next to zero,  *)
(* and two that are refused: 90 percent in all, and triggers that do not rise. *)
EXTENDS OrderPlan

Level(t, s) == [trigger |-> t, share |-> s]

PoliciesDef ==
  {[levels |-> <<Level(20, 50), Level(50, 50)>>, stop |-> 30],
   [levels |-> <<Level(10, 33), Level(25, 33), Level(40, 34)>>, stop |-> 50],
   [levels |-> <<Level(1, 25), Level(2, 25), Level(3, 25), Level(900, 25)>>, stop |-> 1],
   [levels |-> <<Level(20, 100)>>, stop |-> 94],
   [levels |-> <<Level(20, 100)>>, stop |-> 100],
   [levels |-> <<Level(20, 50), Level(50, 40)>>, stop |-> 30],
   [levels |-> <<Level(50, 50), Level(50, 50)>>, stop |-> 30]}

NickelDime == <<[low |-> 0, inc |-> 5], [low |-> 300, inc |-> 10]>>

StrikesDef == <<10, 20, 30, 40>>

QuotesDef ==
  {<<b, a>> : b \in {100, 290, 298}, a \in {97, 103, 298, 300, 305}} \cup {<<490, 505>>}
=============================================================================
