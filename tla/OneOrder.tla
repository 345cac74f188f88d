------------------------------- MODULE OneOrder -------------------------------
(***************************************************************************)
(* What whoever sends a signal is promised, and nothing of how: a signal   *)
(* leads to at most one order, and what is told of it in the end is true   *)
(* and stays true. "UNKNOWN" is the one verdict an order may still follow. *)
(***************************************************************************)
CONSTANTS
  Signals,  \* signals and operator requests, by their key
  None      \* nothing told yet; not a verdict

Verdicts == {"SUBMITTED", "NOT_SUBMITTED", "UNKNOWN"}

VARIABLES
  orders,  \* the orders each signal led to, 0 or 1
  told     \* what has been told of the signal

vars == <<orders, told>>

Init ==
  /\ orders = [s \in Signals |-> 0]
  /\ told = [s \in Signals |-> None]

Order(s) ==
  /\ orders[s] = 0 /\ told[s] \in {None, "UNKNOWN"}
  /\ orders' = [orders EXCEPT ![s] = 1]
  /\ UNCHANGED told

Tell(s, verdict) ==
  /\ told[s] = None
  /\ verdict = "SUBMITTED" => orders[s] = 1
  /\ verdict = "NOT_SUBMITTED" => orders[s] = 0
  /\ told' = [told EXCEPT ![s] = verdict]
  /\ UNCHANGED orders

\* A process that starts again settles every signal it was interrupted at.
TellUnknown(S) ==
  /\ \A s \in S : told[s] = None
  /\ told' = [s \in Signals |-> IF s \in S THEN "UNKNOWN" ELSE told[s]]
  /\ UNCHANGED orders

Next ==
  \/ \E s \in Signals : Order(s) \/ \E v \in Verdicts : Tell(s, v)
  \/ \E S \in SUBSET Signals : TellUnknown(S)

Spec == Init /\ [][Next]_vars
=============================================================================
