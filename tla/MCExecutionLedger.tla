-------------------------- MODULE MCExecutionLedger --------------------------
(* An entry of two contracts, protection that sells them one by one, a close  *)
(* of one under a key of its own, and a trade made by hand in TWS.            *)
EXTENDS ExecutionLedger

CONSTANTS k1, kc, entry, leg, close, tws, b1, b2, s1, s2, x1, f1

OwnerOfDef == [o \in Orders |-> IF o = close THEN kc ELSE IF o = tws THEN None ELSE k1]
KindOfDef == [o \in Orders |->
  CASE o = entry -> "entry" [] o = leg -> "leg" [] o = close -> "close" [] OTHER -> "foreign"]
OrderOfDef == [e \in Execs |->
  IF e \in {b1, b2} THEN entry ELSE IF e \in {s1, s2} THEN leg ELSE IF e = x1 THEN close ELSE tws]
TargetOfDef == [k \in Keys |-> IF k = k1 THEN 2 ELSE 1]
=============================================================================
