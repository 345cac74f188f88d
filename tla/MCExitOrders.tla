----------------------------- MODULE MCExitOrders -----------------------------
(* Small instances of ExitOrders: how the contracts are split over the        *)
(* take-profit levels, and which close requests the operator sends.           *)
EXTENDS ExitOrders

CONSTANT c1  \* the close request that is a flatten

AllToLevelOne == [l \in Levels |-> IF l = 1 THEN N ELSE 0]
OneToEachLevel == [l \in Levels |-> 1]
KindDef == [c \in Closes |-> IF c = c1 THEN "FLATTEN" ELSE "PARTIAL"]
=============================================================================
