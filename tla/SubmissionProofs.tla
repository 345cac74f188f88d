--------------------------- MODULE SubmissionProofs ---------------------------
(***************************************************************************)
(* Safety of the order-entry path, for any sets of keys and payloads.      *)
(*                                                                         *)
(* Layers, each inductive relative to the ones before:                     *)
(*   TypeInv      types, and the row of the request in progress            *)
(*   CallInv      what the broker was sent and what the row says of it     *)
(*   GateInv      no unresolved row while a request is past the ready gate *)
(*   AnswerInv    what callers were told                                   *)
(*   OnlyCurrent  the lock, seen from the registry                         *)
(*   FillInv      the executions stored, and those that happened           *)
(*   SlotInv      one order that can fill per account/underlying/right     *)
(***************************************************************************)
EXTENDS Submission, TLAPS, FiniteSetTheorems

-----------------------------------------------------------------------------
(* The layers. *)

\* The request that holds the lock has a SUBMITTING row; none outlives the
\* process.
InProgress ==
  /\ pc # "idle" =>
       cur \in Keys /\ status[cur] = "SUBMITTING" /\ hash[cur] \in Payloads
  /\ pc = "cancelling" => target \in Keys
  /\ proc = "down" => pc = "idle"

TypeInv == TypeOK /\ InProgress

\* An order goes out once, with its order_ref stored, from a claimed row.
CallOnce ==
  /\ \A k \in Keys :
       /\ placed[k] <= 1
       /\ placed[k] = 0 <=> order[k] = "none"
       /\ order[k] # "none" => orderRef[k] /\ status[k] # "NONE"
  /\ pc \in PreCall \cup {"cancelling", "evidenced"} => order[cur] = "none"
  /\ pc \in {"evidenced", "awaiting"} => orderRef[cur]

\* Whatever says that an order is dead says so of a dead order.
DeadIsDead ==
  /\ pc = "awaiting" /\ "error" \in ack => ~Live(cur) /\ order[cur] # "none"
  /\ \A k \in completed : order[k] = "cancelled"
  /\ \A k \in Keys :
       /\ entryCancel[k] = "CANCEL_CONFIRMED" => order[k] = "cancelled"
       /\ outcome[k] = "CONFIRMED_NO_FILL" => order[k] = "cancelled"
       /\ status[k] = "BLOCKED" => ~Live(k)

CallInv == CallOnce /\ DeadIsDead

\* Past the readiness gate nothing is unresolved, until the call returns.
GateInv ==
  pc \in {"ready", "local", "positions", "cancelling", "cleared", "evidenced"}
    => ~has_unresolved_unknown

-----------------------------------------------------------------------------
(* Executions of one key on one side: at most Qty of them. *)

\* ExecutionLedger keys executions by exec_id, one per contract of the order:
\* one key and side have finitely many, at most Qty.
LEMMA ExecsFinite ==
  ASSUME NEW S, S \subseteq Execs, NEW k, NEW side
  PROVE  IsFiniteSet(ExecsOf(S, k, side)) /\ Cardinality(ExecsOf(S, k, side)) <= Qty
<1> DEFINE T == ExecsOf(S, k, side)
           f == [e \in T |-> e[3]]
<1>1. f \in [T -> 1..Qty]
  BY DEF ExecsOf, Execs
<1>2. \A a, b \in T : f[a] = f[b] => a = b
  BY DEF ExecsOf, Execs
<1>3. f \in Injection(T, 1..Qty)
  BY <1>1, <1>2 DEF Injection, IsInjective
<1>4. IsFiniteSet(1..Qty) /\ Cardinality(1..Qty) = Qty
  BY QtyAssumption, FS_Interval
<1> QED
  BY <1>3, <1>4, FS_Injection

LEMMA CountBound ==
  ASSUME NEW S, S \subseteq Execs, NEW k, NEW side
  PROVE  Count(S, k, side) \in Nat /\ Count(S, k, side) <= Qty
BY ExecsFinite, FS_CardinalityType DEF Count

-----------------------------------------------------------------------------
(* The first layer: types and the request in progress. *)

LEMMA TypeInit == Init => TypeInv
<1> SUFFICES ASSUME Init
             PROVE  TypeInv
  OBVIOUS
<1> USE DEF Init
<1>1. /\ status \in [Keys -> Statuses]
      /\ order \in [Keys -> OrderStates]
  BY DEF Statuses, OrderStates
<1>2. /\ hash \in [Keys -> Payloads \cup {None}]
      /\ orderRef \in [Keys -> BOOLEAN]
      /\ outcome \in [Keys -> Outcomes \cup {None}]
      /\ entryCancel \in [Keys -> CancelStatuses \cup {None}]
      /\ placed \in [Keys -> Nat]
  OBVIOUS
<1>3. told \in [Keys -> SUBSET (Payloads \X Answers)]
  OBVIOUS
<1> QED
  BY <1>1, <1>2, <1>3 DEF TypeInv, TypeOK, InProgress, Steps, PreCall

\* Every action keeps the types and the row of the request in progress.
LEMMA TypeStep == TypeInv /\ [Next]_vars => TypeInv'
<1> SUFFICES ASSUME TypeInv, [Next]_vars
             PROVE  TypeInv'
  OBVIOUS
<1> USE DEF TypeInv, TypeOK, InProgress, Statuses, Outcomes, CancelStatuses,
            Answers, PreCall, Steps, OrderStates,
            registryVars, engineVars, transportVars, sweepVars, brokerVars
<1>1. ASSUME NEW k \in Keys, NEW p \in Payloads, Claim(k, p)
      PROVE  TypeInv'
  BY <1>1 DEF Claim, Claimable
<1>2. ASSUME NEW k \in Keys, NEW p \in Payloads, Replay(k, p)
      PROVE  TypeInv'
  BY <1>2 DEF Replay, ReplayAnswer
<1>3. CASE BlockBeforeCall
  BY <1>3 DEF BlockBeforeCall, Finish
<1>4. CASE VerifyReadiness
  BY <1>4 DEF VerifyReadiness, Advance
<1>5. CASE NoLocalReservation
  BY <1>5 DEF NoLocalReservation, Advance
<1>6. CASE CheckPositions
  BY <1>6 DEF CheckPositions, Advance
<1>7. CASE CheckWorkingOrders
  BY <1>7 DEF CheckWorkingOrders, Advance
<1>8. ASSUME NEW j \in Keys, CancelStaleEntry(j)
      PROVE  TypeInv'
  BY <1>8 DEF CancelStaleEntry
<1>9. CASE CancelConfirmed
  BY <1>9 DEF CancelConfirmed
<1>10. CASE CancelAmbiguous
  BY <1>10 DEF CancelAmbiguous, Finish
<1>11. CASE RecordEvidence
  BY <1>11 DEF RecordEvidence
<1>12. CASE PlaceOrder
  BY <1>12 DEF PlaceOrder
<1>13. CASE PlaceDisconnected
  BY <1>13 DEF PlaceDisconnected, Finish
<1>14. CASE SubmitReturns
  BY <1>14 DEF SubmitReturns, Finish, Verdict
<1>15. CASE AckStatus
  BY <1>15 DEF AckStatus
<1>16. CASE AckError
  BY <1>16 DEF AckError
<1>17. ASSUME NEW e \in inflight, ExecDetails(e)
       PROVE  TypeInv'
  BY <1>17 DEF ExecDetails
<1>18. CASE ConnectionClosed
  BY <1>18 DEF ConnectionClosed
<1>19. CASE ReadinessLost
  BY <1>19 DEF ReadinessLost
<1>20. CASE SweepExecutions
  BY <1>20 DEF SweepExecutions
<1>21. CASE SweepTimesOut
  BY <1>21 DEF SweepTimesOut
<1>22. CASE CompletedOrders
  BY <1>22 DEF CompletedOrders
<1>23. CASE ResolveUnknowns
  BY <1>23 DEF ResolveUnknowns, Resolved, Resolvable, Evidence
<1>24. CASE Crash
  BY <1>24 DEF Crash
<1>25. CASE Restart
  BY <1>25 DEF Restart, SweptStatus, SweptCancel
<1>26. ASSUME NEW k \in Keys, BrokerAccepts(k)
       PROVE  TypeInv'
  BY <1>26 DEF BrokerAccepts
<1>27. ASSUME NEW k \in Keys, BrokerRejects(k)
       PROVE  TypeInv'
  BY <1>27 DEF BrokerRejects
<1>28. ASSUME NEW k \in Keys, OrderLost(k)
       PROVE  TypeInv'
  BY <1>28 DEF OrderLost
<1>29. ASSUME NEW k \in Keys, BrokerCancels(k)
       PROVE  TypeInv'
  BY <1>29 DEF BrokerCancels
<1>30. ASSUME NEW k \in Keys, BrokerFills(k)
       PROVE  TypeInv'
  <2>1. Count(fills, k, "BOT") + 1 \in 1..Qty
    BY <1>30, CountBound, QtyAssumption DEF BrokerFills
  <2>2. <<k, "BOT", Count(fills, k, "BOT") + 1>> \in Execs
    BY <2>1 DEF Execs
  <2> QED
    BY <1>30, <2>2 DEF BrokerFills, Report
<1>31. ASSUME NEW k \in Keys, ExitFills(k)
       PROVE  TypeInv'
  \* An exit sells a contract the entry bought: at most Qty sales in all.
  <2>1. Count(fills, k, "SLD") + 1 \in 1..Qty
    BY <1>31, CountBound, QtyAssumption DEF ExitFills, Held
  <2>2. <<k, "SLD", Count(fills, k, "SLD") + 1>> \in Execs
    BY <2>1 DEF Execs
  <2> QED
    BY <1>31, <2>2 DEF ExitFills, Report
<1>32. ASSUME NEW k \in Keys, Age(k)
       PROVE  TypeInv'
  BY <1>32 DEF Age
<1>33. CASE UNCHANGED vars
  BY <1>33 DEF vars
<1> QED
  BY <1>1, <1>2, <1>3, <1>4, <1>5, <1>6, <1>7, <1>8, <1>9, <1>10, <1>11, <1>12, <1>13,
      <1>14, <1>15, <1>16, <1>17, <1>18, <1>19, <1>20, <1>21, <1>22, <1>23, <1>24, <1>25,
      <1>26, <1>27, <1>28, <1>29, <1>30, <1>31, <1>32, <1>33
     DEF Next, Engine, Reader, Reconcile, Broker

\* Every variable keeps its type, in every behaviour and for any keys,
\* payloads and order size.
THEOREM TypeCorrect == Spec => []TypeOK
<1>1. Init => TypeInv
  BY TypeInit
<1>2. TypeInv /\ [Next]_vars => TypeInv'
  BY TypeStep
<1>3. TypeInv => TypeOK
  BY DEF TypeInv
<1> QED
  BY <1>1, <1>2, <1>3, PTL DEF Spec

-----------------------------------------------------------------------------
(* The second layer: the order, and what the row says of it. *)

LEMMA CallInit == Init => CallInv
BY NoneAssumption DEF Init, CallInv, CallOnce, DeadIsDead, PreCall, Live, Outcomes, CancelStatuses

\* Every action keeps CallInv, given the types.
LEMMA CallStep == TypeInv /\ TypeInv' /\ CallInv /\ [Next]_vars => CallInv'
<1> SUFFICES ASSUME TypeInv, TypeInv', CallInv, [Next]_vars
             PROVE  CallInv'
  OBVIOUS
<1> USE NoneAssumption
    DEF TypeInv, TypeOK, InProgress, CallInv, CallOnce, DeadIsDead, PreCall, Live,
        registryVars, engineVars, transportVars, sweepVars, brokerVars
<1>1. ASSUME NEW k \in Keys, NEW p \in Payloads, Claim(k, p)
      PROVE  CallInv'
  BY <1>1 DEF Claim, Claimable
<1>2. ASSUME NEW k \in Keys, NEW p \in Payloads, Replay(k, p)
      PROVE  CallInv'
  BY <1>2 DEF Replay, ReplayAnswer
<1>3. CASE BlockBeforeCall
  BY <1>3 DEF BlockBeforeCall, Finish
<1>4. CASE VerifyReadiness
  BY <1>4 DEF VerifyReadiness, Advance
<1>5. CASE NoLocalReservation
  BY <1>5 DEF NoLocalReservation, Advance
<1>6. CASE CheckPositions
  BY <1>6 DEF CheckPositions, Advance
<1>7. CASE CheckWorkingOrders
  BY <1>7 DEF CheckWorkingOrders, Advance
<1>8. ASSUME NEW j \in Keys, CancelStaleEntry(j)
      PROVE  CallInv'
  BY <1>8 DEF CancelStaleEntry
<1>9. CASE CancelConfirmed
  BY <1>9 DEF CancelConfirmed, CancelProven
<1>10. CASE CancelAmbiguous
  BY <1>10 DEF CancelAmbiguous, Finish
<1>11. CASE RecordEvidence
  BY <1>11 DEF RecordEvidence
<1>12. CASE PlaceOrder
  BY <1>12 DEF PlaceOrder
<1>13. CASE PlaceDisconnected
  BY <1>13 DEF PlaceDisconnected, Finish
<1>14. CASE SubmitReturns
  BY <1>14 DEF SubmitReturns, Finish, Verdict
<1>15. CASE AckStatus
  BY <1>15 DEF AckStatus
<1>16. CASE AckError
  BY <1>16 DEF AckError
<1>17. ASSUME NEW e \in inflight, ExecDetails(e)
       PROVE  CallInv'
  BY <1>17 DEF ExecDetails
<1>18. CASE ConnectionClosed
  BY <1>18 DEF ConnectionClosed
<1>19. CASE ReadinessLost
  BY <1>19 DEF ReadinessLost
<1>20. CASE SweepExecutions
  BY <1>20 DEF SweepExecutions
<1>21. CASE SweepTimesOut
  BY <1>21 DEF SweepTimesOut
<1>22. CASE CompletedOrders
  BY <1>22 DEF CompletedOrders
<1>23. CASE ResolveUnknowns
  BY <1>23 DEF ResolveUnknowns, Resolved, Resolvable, Evidence
<1>24. CASE Crash
  BY <1>24 DEF Crash
<1>25. CASE Restart
  BY <1>25 DEF Restart, SweptStatus, SweptCancel
<1>26. ASSUME NEW k \in Keys, BrokerAccepts(k)
       PROVE  CallInv'
  BY <1>26 DEF BrokerAccepts
<1>27. ASSUME NEW k \in Keys, BrokerRejects(k)
       PROVE  CallInv'
  BY <1>27 DEF BrokerRejects
<1>28. ASSUME NEW k \in Keys, OrderLost(k)
       PROVE  CallInv'
  BY <1>28 DEF OrderLost
<1>29. ASSUME NEW k \in Keys, BrokerCancels(k)
       PROVE  CallInv'
  BY <1>29 DEF BrokerCancels
<1>30. ASSUME NEW k \in Keys, BrokerFills(k)
       PROVE  CallInv'
  BY <1>30 DEF BrokerFills, Report
<1>31. ASSUME NEW k \in Keys, ExitFills(k)
       PROVE  CallInv'
  BY <1>31 DEF ExitFills, Report
<1>32. ASSUME NEW k \in Keys, Age(k)
       PROVE  CallInv'
  BY <1>32 DEF Age
<1>33. CASE UNCHANGED vars
  BY <1>33 DEF vars
<1> QED
  BY <1>1, <1>2, <1>3, <1>4, <1>5, <1>6, <1>7, <1>8, <1>9, <1>10, <1>11, <1>12, <1>13,
      <1>14, <1>15, <1>16, <1>17, <1>18, <1>19, <1>20, <1>21, <1>22, <1>23, <1>24, <1>25,
      <1>26, <1>27, <1>28, <1>29, <1>30, <1>31, <1>32, <1>33
     DEF Next, Engine, Reader, Reconcile, Broker

\* No idempotency key ever puts two orders on the broker's socket.
THEOREM OneOrderPerKey == Spec => []AtMostOneOrder
<1>1. Init => TypeInv /\ CallInv
  BY TypeInit, CallInit
<1>2. TypeInv /\ CallInv /\ [Next]_vars => TypeInv' /\ CallInv'
  BY TypeStep, CallStep
<1>3. CallInv => AtMostOneOrder
  BY DEF CallInv, CallOnce, AtMostOneOrder
<1> QED
  BY <1>1, <1>2, <1>3, PTL DEF Spec

\* An order that can still fill has a row that says so: what the invariants
\* amount to for one key.
LEMMA AccountedByRow ==
  ASSUME TypeInv, CallInv, NEW k \in Keys, Live(k)
  PROVE  Accounted(k)
<1>1. order[k] # "none" /\ order[k] # "cancelled"
  BY DEF Live
<1>2. orderRef[k] /\ status[k] # "NONE" /\ status[k] # "BLOCKED"
  BY <1>1 DEF CallInv, CallOnce, DeadIsDead
<1>3. entryCancel[k] # "CANCEL_CONFIRMED" /\ outcome[k] # "CONFIRMED_NO_FILL"
  BY <1>1 DEF CallInv, DeadIsDead
<1>4. status[k] \in {"SUBMITTING", "SUBMITTED", "SUBMISSION_UNKNOWN"}
  BY <1>2 DEF TypeInv, TypeOK, Statuses
<1> QED
  BY <1>2, <1>3, <1>4 DEF Accounted

\* No crash, timeout, rejection race, cancel or reconciliation loses track of an
\* order that can still fill.
THEOREM LiveOrdersAccounted == Spec => []LiveOrderAccounted
<1>1. Init => TypeInv /\ CallInv
  BY TypeInit, CallInit
<1>2. TypeInv /\ CallInv /\ [Next]_vars => TypeInv' /\ CallInv'
  BY TypeStep, CallStep
<1>3. TypeInv /\ CallInv => LiveOrderAccounted
  BY AccountedByRow DEF LiveOrderAccounted
<1> QED
  BY <1>1, <1>2, <1>3, PTL DEF Spec

-----------------------------------------------------------------------------
(* A verdict, once given, stands. *)

\* The statuses and outcomes one step may not touch.
VerdictKept(k) ==
  /\ status[k] \in Answers => status'[k] = status[k]
  /\ outcome[k] # None => outcome'[k] = outcome[k]

LEMMA VerdictStep ==
  ASSUME TypeInv, [Next]_vars, NEW q \in Keys
  PROVE  VerdictKept(q)
<1> USE DEF TypeInv, TypeOK, InProgress, Answers, PreCall, VerdictKept,
            registryVars, engineVars, transportVars, sweepVars, brokerVars
<1>1. ASSUME NEW k \in Keys, NEW p \in Payloads, Claim(k, p)
      PROVE  VerdictKept(q)
  BY <1>1 DEF Claim, Claimable
<1>2. ASSUME NEW k \in Keys, NEW p \in Payloads, Replay(k, p)
      PROVE  VerdictKept(q)
  BY <1>2 DEF Replay, ReplayAnswer
<1>3. CASE BlockBeforeCall
  BY <1>3 DEF BlockBeforeCall, Finish
<1>4. CASE VerifyReadiness
  BY <1>4 DEF VerifyReadiness, Advance
<1>5. CASE NoLocalReservation
  BY <1>5 DEF NoLocalReservation, Advance
<1>6. CASE CheckPositions
  BY <1>6 DEF CheckPositions, Advance
<1>7. CASE CheckWorkingOrders
  BY <1>7 DEF CheckWorkingOrders, Advance
<1>8. ASSUME NEW j \in Keys, CancelStaleEntry(j)
      PROVE  VerdictKept(q)
  BY <1>8 DEF CancelStaleEntry
<1>9. CASE CancelConfirmed
  BY <1>9 DEF CancelConfirmed, CancelProven
<1>10. CASE CancelAmbiguous
  BY <1>10 DEF CancelAmbiguous, Finish
<1>11. CASE RecordEvidence
  BY <1>11 DEF RecordEvidence
<1>12. CASE PlaceOrder
  BY <1>12 DEF PlaceOrder
<1>13. CASE PlaceDisconnected
  BY <1>13 DEF PlaceDisconnected, Finish
<1>14. CASE SubmitReturns
  BY <1>14 DEF SubmitReturns, Finish, Verdict
<1>15. CASE AckStatus
  BY <1>15 DEF AckStatus
<1>16. CASE AckError
  BY <1>16 DEF AckError
<1>17. ASSUME NEW e \in inflight, ExecDetails(e)
       PROVE  VerdictKept(q)
  BY <1>17 DEF ExecDetails
<1>18. CASE ConnectionClosed
  BY <1>18 DEF ConnectionClosed
<1>19. CASE ReadinessLost
  BY <1>19 DEF ReadinessLost
<1>20. CASE SweepExecutions
  BY <1>20 DEF SweepExecutions
<1>21. CASE SweepTimesOut
  BY <1>21 DEF SweepTimesOut
<1>22. CASE CompletedOrders
  BY <1>22 DEF CompletedOrders
<1>23. CASE ResolveUnknowns
  BY <1>23 DEF ResolveUnknowns, Resolved, Resolvable, Evidence
<1>24. CASE Crash
  BY <1>24 DEF Crash
<1>25. CASE Restart
  BY <1>25 DEF Restart, SweptStatus, SweptCancel
<1>26. ASSUME NEW k \in Keys, BrokerAccepts(k)
       PROVE  VerdictKept(q)
  BY <1>26 DEF BrokerAccepts
<1>27. ASSUME NEW k \in Keys, BrokerRejects(k)
       PROVE  VerdictKept(q)
  BY <1>27 DEF BrokerRejects
<1>28. ASSUME NEW k \in Keys, OrderLost(k)
       PROVE  VerdictKept(q)
  BY <1>28 DEF OrderLost
<1>29. ASSUME NEW k \in Keys, BrokerCancels(k)
       PROVE  VerdictKept(q)
  BY <1>29 DEF BrokerCancels
<1>30. ASSUME NEW k \in Keys, BrokerFills(k)
       PROVE  VerdictKept(q)
  BY <1>30 DEF BrokerFills, Report
<1>31. ASSUME NEW k \in Keys, ExitFills(k)
       PROVE  VerdictKept(q)
  BY <1>31 DEF ExitFills, Report
<1>32. ASSUME NEW k \in Keys, Age(k)
       PROVE  VerdictKept(q)
  BY <1>32 DEF Age
<1>33. CASE UNCHANGED vars
  BY <1>33 DEF vars
<1> QED
  BY <1>1, <1>2, <1>3, <1>4, <1>5, <1>6, <1>7, <1>8, <1>9, <1>10, <1>11, <1>12, <1>13,
      <1>14, <1>15, <1>16, <1>17, <1>18, <1>19, <1>20, <1>21, <1>22, <1>23, <1>24, <1>25,
      <1>26, <1>27, <1>28, <1>29, <1>30, <1>31, <1>32, <1>33
     DEF Next, Engine, Reader, Reconcile, Broker

\* A finished row keeps its status and a reconciled one its outcome.
THEOREM VerdictsStand == Spec => VerdictsFinal
<1>1. Init => TypeInv
  BY TypeInit
<1>2. TypeInv /\ [Next]_vars => TypeInv'
  BY TypeStep
<1>3. TypeInv /\ [Next]_vars =>
        [\A k \in Keys :
           /\ status[k] \in Answers => status'[k] = status[k]
           /\ outcome[k] # None => outcome'[k] = outcome[k]]_vars
  BY VerdictStep DEF VerdictKept
<1> QED
  BY <1>1, <1>2, <1>3, PTL DEF Spec, VerdictsFinal

-----------------------------------------------------------------------------
(* The third layer: the gate on unresolved rows. *)

LEMMA GateInit == Init => GateInv
BY DEF Init, GateInv

\* A request past the gate stays there with nothing unresolved: only the end
\* of a call and a restart can leave a row unresolved.
LEMMA GateStep == TypeInv /\ GateInv /\ [Next]_vars => GateInv'
<1> SUFFICES ASSUME TypeInv, GateInv, [Next]_vars
             PROVE  GateInv'
  OBVIOUS
<1> USE DEF TypeInv, TypeOK, InProgress, GateInv, has_unresolved_unknown,
            UnresolvedRow, PreCall,
            registryVars, engineVars, transportVars, sweepVars, brokerVars
<1>1. ASSUME NEW k \in Keys, NEW p \in Payloads, Claim(k, p)
      PROVE  GateInv'
  BY <1>1 DEF Claim, Claimable
<1>2. ASSUME NEW k \in Keys, NEW p \in Payloads, Replay(k, p)
      PROVE  GateInv'
  BY <1>2 DEF Replay, ReplayAnswer
<1>3. CASE BlockBeforeCall
  BY <1>3 DEF BlockBeforeCall, Finish
<1>4. CASE VerifyReadiness
  BY <1>4 DEF VerifyReadiness, Advance, Ready, has_unresolved_unknown
<1>5. CASE NoLocalReservation
  BY <1>5 DEF NoLocalReservation, Advance
<1>6. CASE CheckPositions
  BY <1>6 DEF CheckPositions, Advance
<1>7. CASE CheckWorkingOrders
  BY <1>7 DEF CheckWorkingOrders, Advance
<1>8. ASSUME NEW j \in Keys, CancelStaleEntry(j)
      PROVE  GateInv'
  BY <1>8 DEF CancelStaleEntry
<1>9. CASE CancelConfirmed
  BY <1>9 DEF CancelConfirmed, CancelProven
<1>10. CASE CancelAmbiguous
  BY <1>10 DEF CancelAmbiguous, Finish
<1>11. CASE RecordEvidence
  BY <1>11 DEF RecordEvidence
<1>12. CASE PlaceOrder
  BY <1>12 DEF PlaceOrder
<1>13. CASE PlaceDisconnected
  BY <1>13 DEF PlaceDisconnected, Finish
<1>14. CASE SubmitReturns
  BY <1>14 DEF SubmitReturns, Finish, Verdict
<1>15. CASE AckStatus
  BY <1>15 DEF AckStatus
<1>16. CASE AckError
  BY <1>16 DEF AckError
<1>17. ASSUME NEW e \in inflight, ExecDetails(e)
       PROVE  GateInv'
  BY <1>17 DEF ExecDetails
<1>18. CASE ConnectionClosed
  BY <1>18 DEF ConnectionClosed
<1>19. CASE ReadinessLost
  BY <1>19 DEF ReadinessLost
<1>20. CASE SweepExecutions
  BY <1>20 DEF SweepExecutions
<1>21. CASE SweepTimesOut
  BY <1>21 DEF SweepTimesOut
<1>22. CASE CompletedOrders
  BY <1>22 DEF CompletedOrders
<1>23. CASE ResolveUnknowns
  BY <1>23 DEF ResolveUnknowns, Resolved, Resolvable, Evidence
<1>24. CASE Crash
  BY <1>24 DEF Crash
<1>25. CASE Restart
  BY <1>25 DEF Restart, SweptStatus, SweptCancel
<1>26. ASSUME NEW k \in Keys, BrokerAccepts(k)
       PROVE  GateInv'
  BY <1>26 DEF BrokerAccepts
<1>27. ASSUME NEW k \in Keys, BrokerRejects(k)
       PROVE  GateInv'
  BY <1>27 DEF BrokerRejects
<1>28. ASSUME NEW k \in Keys, OrderLost(k)
       PROVE  GateInv'
  BY <1>28 DEF OrderLost
<1>29. ASSUME NEW k \in Keys, BrokerCancels(k)
       PROVE  GateInv'
  BY <1>29 DEF BrokerCancels
<1>30. ASSUME NEW k \in Keys, BrokerFills(k)
       PROVE  GateInv'
  BY <1>30 DEF BrokerFills, Report
<1>31. ASSUME NEW k \in Keys, ExitFills(k)
       PROVE  GateInv'
  BY <1>31 DEF ExitFills, Report
<1>32. ASSUME NEW k \in Keys, Age(k)
       PROVE  GateInv'
  BY <1>32 DEF Age
<1>33. CASE UNCHANGED vars
  BY <1>33 DEF vars
<1> QED
  BY <1>1, <1>2, <1>3, <1>4, <1>5, <1>6, <1>7, <1>8, <1>9, <1>10, <1>11, <1>12, <1>13,
      <1>14, <1>15, <1>16, <1>17, <1>18, <1>19, <1>20, <1>21, <1>22, <1>23, <1>24, <1>25,
      <1>26, <1>27, <1>28, <1>29, <1>30, <1>31, <1>32, <1>33
     DEF Next, Engine, Reader, Reconcile, Broker

\* Only PlaceOrder sends an order, and it runs behind the gate.
LEMMA PlacedBehindGate ==
  ASSUME TypeInv, GateInv, [Next]_vars, NEW q \in Keys, placed'[q] # placed[q]
  PROVE  ~has_unresolved_unknown
<1> USE DEF registryVars, engineVars, transportVars, sweepVars, brokerVars
<1>1. CASE PlaceOrder
  BY <1>1 DEF PlaceOrder, GateInv
<1>2. CASE ~PlaceOrder
  <2>1. UNCHANGED placed
    BY <1>2 DEF Next, Engine, Reader, Reconcile, Broker, vars,
      Claim, Replay, BlockBeforeCall, VerifyReadiness, NoLocalReservation,
      CheckPositions, CheckWorkingOrders, Advance, CancelStaleEntry,
      CancelConfirmed, CancelAmbiguous, RecordEvidence, PlaceDisconnected,
      SubmitReturns, AckStatus, AckError, ExecDetails, ConnectionClosed,
      ReadinessLost, SweepExecutions, SweepTimesOut, CompletedOrders,
      ResolveUnknowns, Crash, Restart, BrokerAccepts, BrokerRejects, OrderLost,
      BrokerCancels, BrokerFills, ExitFills, Age
  <2> QED
    BY <2>1
<1> QED
  BY <1>1, <1>2

\* No entry goes out while any row of the registry is unresolved.
THEOREM NothingSentWhileUnknown == Spec => NoEntryWhileUnknown
<1>1. Init => TypeInv /\ GateInv
  BY TypeInit, GateInit
<1>2. TypeInv /\ GateInv /\ [Next]_vars => TypeInv' /\ GateInv'
  BY TypeStep, GateStep
<1>3. TypeInv /\ GateInv /\ [Next]_vars =>
        [\A k \in Keys : placed'[k] # placed[k] => ~has_unresolved_unknown]_vars
  BY PlacedBehindGate
<1> QED
  BY <1>1, <1>2, <1>3, PTL DEF Spec, NoEntryWhileUnknown
-----------------------------------------------------------------------------
(* What callers were told. *)

Taken == {"working", "filled", "cancelled"}

\* What was told of one key is what its row says, for the payload of the row.
ToldByRow(k) ==
  /\ status[k] = "SUBMITTED" => order[k] \in Taken
  /\ told[k] # {} => status[k] \in Answers
  /\ \A p \in Payloads :
       <<p, "SUBMITTED">> \in told[k] => p = hash[k] /\ status[k] = "SUBMITTED"
  /\ \A a \in Answers : <<hash[k], a>> \in told[k] => a = status[k]

\* An acknowledgement is about an order the broker took.
AckTaken == pc = "awaiting" /\ "status" \in ack => order[cur] \in Taken

AnswerInv == AckTaken /\ \A k \in Keys : ToldByRow(k)

LEMMA AnswerInit == Init => AnswerInv
BY DEF Init, AnswerInv, AckTaken, ToldByRow, Answers

\* A call that ends says one thing of its key, for the first time.
LEMMA FinishTrue ==
  ASSUME TypeInv, AnswerInv, NEW a \in Answers, pc # "idle", pc' # "awaiting",
         Finish(a), hash' = hash, order' = order,
         a = "SUBMITTED" => order[cur] \in Taken
  PROVE  AnswerInv'
<1>1. cur \in Keys /\ status[cur] = "SUBMITTING" /\ told[cur] = {}
  BY DEF TypeInv, InProgress, AnswerInv, ToldByRow, Answers
<1>2. status' = [status EXCEPT ![cur] = a]
  BY DEF Finish
<1>3. told' = [told EXCEPT ![cur] = {<<hash[cur], a>>}]
  BY <1>1 DEF Finish
<1>4. ASSUME NEW k \in Keys, k = cur
      PROVE  ToldByRow(k)'
  <2>1. status'[k] = a /\ told'[k] = {<<hash[k], a>>}
    BY <1>1, <1>2, <1>3, <1>4 DEF TypeInv, TypeOK
  <2>2. \A p, b : <<p, b>> \in told'[k] => p = hash[k] /\ b = a
    BY <2>1
  <2> QED
    BY <1>4, <2>1, <2>2 DEF ToldByRow
<1>5. ASSUME NEW k \in Keys, k # cur
      PROVE  ToldByRow(k)'
  <2>1. status'[k] = status[k] /\ told'[k] = told[k]
    BY <1>5, <1>2, <1>3 DEF TypeInv, TypeOK
  <2> QED
    BY <2>1 DEF AnswerInv, ToldByRow
<1> QED
  BY <1>4, <1>5 DEF AnswerInv, AckTaken

\* A claim starts a row nobody has been told anything of.
LEMMA ClaimTrue ==
  ASSUME TypeInv, AnswerInv, NEW k \in Keys, NEW p \in Payloads, Claim(k, p)
  PROVE  AnswerInv'
<1>1. told[k] = {} /\ status[k] = "NONE"
  BY DEF Claim, Claimable, AnswerInv, ToldByRow, Answers
<1>2. /\ status' = [status EXCEPT ![k] = "SUBMITTING"]
      /\ hash' = [hash EXCEPT ![k] = p]
      /\ order' = order /\ told' = told /\ pc' = "claimed"
  BY DEF Claim, brokerVars
<1>3. ASSUME NEW j \in Keys, j = k
      PROVE  ToldByRow(j)'
  <2>1. status'[j] = "SUBMITTING" /\ told'[j] = {}
    BY <1>1, <1>2, <1>3 DEF TypeInv, TypeOK
  <2> QED
    BY <2>1 DEF ToldByRow
<1>4. ASSUME NEW j \in Keys, j # k
      PROVE  ToldByRow(j)'
  <2>1. status'[j] = status[j] /\ hash'[j] = hash[j]
    BY <1>2, <1>4 DEF TypeInv, TypeOK
  <2> QED
    BY <1>2, <2>1 DEF AnswerInv, ToldByRow
<1> QED
  BY <1>2, <1>3, <1>4 DEF AnswerInv, AckTaken

\* A replay repeats the row to the payload that made it, and says BLOCKED to any
\* other.
LEMMA ReplayTrue ==
  ASSUME TypeInv, AnswerInv, NEW k \in Keys, NEW p \in Payloads, Replay(k, p)
  PROVE  AnswerInv'
<1>1. told' = [told EXCEPT ![k] = @ \cup {<<p, ReplayAnswer(k, p)>>}]
  BY DEF Replay
<1>2. /\ status[k] \in Answers
      /\ status' = status /\ hash' = hash /\ order' = order
      /\ pc' = pc /\ ack' = ack /\ cur' = cur
  BY DEF Replay, registryVars, engineVars, transportVars, brokerVars
<1>3. ASSUME NEW j \in Keys, j = k
      PROVE  ToldByRow(j)'
  <2>1. \A q, a : <<q, a>> \in told'[j] =>
          <<q, a>> \in told[j] \/ (q = p /\ a = ReplayAnswer(j, p))
    BY <1>1, <1>3 DEF TypeInv, TypeOK
  <2>2. ReplayAnswer(j, p) = "SUBMITTED" => p = hash[j] /\ status[j] = "SUBMITTED"
    BY DEF ReplayAnswer
  <2>3. p = hash[j] => ReplayAnswer(j, p) = status[j]
    BY DEF ReplayAnswer
  <2> QED
    BY <1>2, <1>3, <2>1, <2>2, <2>3 DEF AnswerInv, ToldByRow
<1>4. ASSUME NEW j \in Keys, j # k
      PROVE  ToldByRow(j)'
  <2>1. told'[j] = told[j]
    BY <1>1, <1>4 DEF TypeInv, TypeOK
  <2> QED
    BY <1>2, <2>1 DEF AnswerInv, ToldByRow
<1> QED
  BY <1>2, <1>3, <1>4 DEF AnswerInv, AckTaken

\* Every action keeps AnswerInv, given the types and CallInv.
LEMMA AnswerStep ==
  TypeInv /\ CallInv /\ AnswerInv /\ [Next]_vars => AnswerInv'
<1> SUFFICES ASSUME TypeInv, CallInv, AnswerInv, [Next]_vars
             PROVE  AnswerInv'
  OBVIOUS
<1> USE NoneAssumption
    DEF TypeInv, TypeOK, InProgress, CallInv, CallOnce, AnswerInv, AckTaken, ToldByRow,
        PreCall, Answers, Taken, registryVars, engineVars, transportVars, sweepVars,
        brokerVars
<1>1. ASSUME NEW k \in Keys, NEW p \in Payloads, Claim(k, p)
      PROVE  AnswerInv'
  BY <1>1, ClaimTrue
<1>2. ASSUME NEW k \in Keys, NEW p \in Payloads, Replay(k, p)
      PROVE  AnswerInv'
  BY <1>2, ReplayTrue
<1>3. CASE BlockBeforeCall
  <2>1. "BLOCKED" \in Answers /\ pc # "idle" /\ pc' # "awaiting"
    BY <1>3 DEF BlockBeforeCall, Finish
  <2>2. "BLOCKED" = "SUBMITTED" => order[cur] \in Taken
    BY <1>3 DEF BlockBeforeCall, Finish
  <2>3. Finish("BLOCKED") /\ hash' = hash /\ order' = order
    BY <1>3 DEF BlockBeforeCall
  <2> QED
    BY <2>1, <2>2, <2>3, FinishTrue
<1>4. CASE VerifyReadiness
  BY <1>4 DEF VerifyReadiness, Advance
<1>5. CASE NoLocalReservation
  BY <1>5 DEF NoLocalReservation, Advance
<1>6. CASE CheckPositions
  BY <1>6 DEF CheckPositions, Advance
<1>7. CASE CheckWorkingOrders
  BY <1>7 DEF CheckWorkingOrders, Advance
<1>8. ASSUME NEW j \in Keys, CancelStaleEntry(j)
      PROVE  AnswerInv'
  BY <1>8 DEF CancelStaleEntry
<1>9. CASE CancelConfirmed
  BY <1>9 DEF CancelConfirmed, CancelProven
<1>10. CASE CancelAmbiguous
  <2>1. "BLOCKED" \in Answers /\ pc # "idle" /\ pc' # "awaiting"
    BY <1>10 DEF CancelAmbiguous, Finish
  <2>2. "BLOCKED" = "SUBMITTED" => order[cur] \in Taken
    BY <1>10 DEF CancelAmbiguous, Finish
  <2>3. Finish("BLOCKED") /\ hash' = hash /\ order' = order
    BY <1>10 DEF CancelAmbiguous
  <2> QED
    BY <2>1, <2>2, <2>3, FinishTrue
<1>11. CASE RecordEvidence
  BY <1>11 DEF RecordEvidence
<1>12. CASE PlaceOrder
  BY <1>12 DEF PlaceOrder
<1>13. CASE PlaceDisconnected
  <2>1. "SUBMISSION_UNKNOWN" \in Answers /\ pc # "idle" /\ pc' # "awaiting"
    BY <1>13 DEF PlaceDisconnected, Finish
  <2>2. "SUBMISSION_UNKNOWN" = "SUBMITTED" => order[cur] \in Taken
    BY <1>13 DEF PlaceDisconnected, Finish
  <2>3. Finish("SUBMISSION_UNKNOWN") /\ hash' = hash /\ order' = order
    BY <1>13 DEF PlaceDisconnected
  <2> QED
    BY <2>1, <2>2, <2>3, FinishTrue
<1>14. CASE SubmitReturns
  <2>1. Verdict \in Answers /\ pc # "idle" /\ pc' # "awaiting"
    BY <1>14 DEF SubmitReturns, Finish, Verdict
  <2>2. Verdict = "SUBMITTED" => order[cur] \in Taken
    BY <1>14 DEF SubmitReturns, Finish, Verdict
  <2>3. Finish(Verdict) /\ hash' = hash /\ order' = order
    BY <1>14 DEF SubmitReturns
  <2> QED
    BY <2>1, <2>2, <2>3, FinishTrue
<1>15. CASE AckStatus
  BY <1>15 DEF AckStatus
<1>16. CASE AckError
  BY <1>16 DEF AckError
<1>17. ASSUME NEW e \in inflight, ExecDetails(e)
       PROVE  AnswerInv'
  BY <1>17 DEF ExecDetails
<1>18. CASE ConnectionClosed
  BY <1>18 DEF ConnectionClosed
<1>19. CASE ReadinessLost
  BY <1>19 DEF ReadinessLost
<1>20. CASE SweepExecutions
  BY <1>20 DEF SweepExecutions
<1>21. CASE SweepTimesOut
  BY <1>21 DEF SweepTimesOut
<1>22. CASE CompletedOrders
  BY <1>22 DEF CompletedOrders
<1>23. CASE ResolveUnknowns
  BY <1>23 DEF ResolveUnknowns, Resolved, Resolvable, Evidence
<1>24. CASE Crash
  BY <1>24 DEF Crash
<1>25. CASE Restart
  BY <1>25 DEF Restart, SweptStatus, SweptCancel
<1>26. ASSUME NEW k \in Keys, BrokerAccepts(k)
       PROVE  AnswerInv'
  BY <1>26 DEF BrokerAccepts
<1>27. ASSUME NEW k \in Keys, BrokerRejects(k)
       PROVE  AnswerInv'
  BY <1>27 DEF BrokerRejects
<1>28. ASSUME NEW k \in Keys, OrderLost(k)
       PROVE  AnswerInv'
  BY <1>28 DEF OrderLost
<1>29. ASSUME NEW k \in Keys, BrokerCancels(k)
       PROVE  AnswerInv'
  BY <1>29 DEF BrokerCancels
<1>30. ASSUME NEW k \in Keys, BrokerFills(k)
       PROVE  AnswerInv'
  BY <1>30 DEF BrokerFills, Report
<1>31. ASSUME NEW k \in Keys, ExitFills(k)
       PROVE  AnswerInv'
  BY <1>31 DEF ExitFills, Report
<1>32. ASSUME NEW k \in Keys, Age(k)
       PROVE  AnswerInv'
  BY <1>32 DEF Age
<1>33. CASE UNCHANGED vars
  BY <1>33 DEF vars
<1> QED
  BY <1>1, <1>2, <1>3, <1>4, <1>5, <1>6, <1>7, <1>8, <1>9, <1>10, <1>11, <1>12, <1>13,
      <1>14, <1>15, <1>16, <1>17, <1>18, <1>19, <1>20, <1>21, <1>22, <1>23, <1>24, <1>25,
      <1>26, <1>27, <1>28, <1>29, <1>30, <1>31, <1>32, <1>33
     DEF Next, Engine, Reader, Reconcile, Broker

\* Nobody is told SUBMITTED of an order the broker did not take, BLOCKED of one
\* that can still fill, or two different things of one request.
THEOREM AnswersStayTrue == Spec => []AnswersTrue
<1>1. Init => TypeInv /\ CallInv /\ AnswerInv
  BY TypeInit, CallInit, AnswerInit
<1>2. TypeInv /\ CallInv /\ AnswerInv /\ [Next]_vars => TypeInv' /\ CallInv' /\ AnswerInv'
  BY TypeStep, CallStep, AnswerStep
<1>3. TypeInv /\ CallInv /\ AnswerInv => AnswersTrue
  BY DEF AnswerInv, ToldByRow, AnswersTrue, CallInv, DeadIsDead, Answers, Taken
<1> QED
  BY <1>1, <1>2, <1>3, PTL DEF Spec

-----------------------------------------------------------------------------
(* One request at a time: the lock, seen from the registry. *)

\* In a live process only the request that holds the lock is SUBMITTING.
OnlyCurrent ==
  /\ proc = "down" => rpc = "idle"
  /\ proc # "down" =>
       \A k \in Keys : status[k] = "SUBMITTING" => pc # "idle" /\ k = cur

LEMMA CurrentInit == Init => OnlyCurrent
BY DEF Init, OnlyCurrent

LEMMA CurrentStep == TypeInv /\ OnlyCurrent /\ [Next]_vars => OnlyCurrent'
<1> SUFFICES ASSUME TypeInv, OnlyCurrent, [Next]_vars
             PROVE  OnlyCurrent'
  OBVIOUS
<1> USE DEF TypeInv, TypeOK, InProgress, OnlyCurrent, PreCall,
        registryVars, engineVars, transportVars, sweepVars, brokerVars
<1>1. ASSUME NEW k \in Keys, NEW p \in Payloads, Claim(k, p)
      PROVE  OnlyCurrent'
  BY <1>1 DEF Claim, Claimable
<1>2. ASSUME NEW k \in Keys, NEW p \in Payloads, Replay(k, p)
      PROVE  OnlyCurrent'
  BY <1>2 DEF Replay, ReplayAnswer
<1>3. CASE BlockBeforeCall
  BY <1>3 DEF BlockBeforeCall, Finish
<1>4. CASE VerifyReadiness
  BY <1>4 DEF VerifyReadiness, Advance
<1>5. CASE NoLocalReservation
  BY <1>5 DEF NoLocalReservation, Advance
<1>6. CASE CheckPositions
  BY <1>6 DEF CheckPositions, Advance
<1>7. CASE CheckWorkingOrders
  BY <1>7 DEF CheckWorkingOrders, Advance
<1>8. ASSUME NEW j \in Keys, CancelStaleEntry(j)
      PROVE  OnlyCurrent'
  BY <1>8 DEF CancelStaleEntry
<1>9. CASE CancelConfirmed
  BY <1>9 DEF CancelConfirmed, CancelProven
<1>10. CASE CancelAmbiguous
  BY <1>10 DEF CancelAmbiguous, Finish
<1>11. CASE RecordEvidence
  BY <1>11 DEF RecordEvidence
<1>12. CASE PlaceOrder
  BY <1>12 DEF PlaceOrder
<1>13. CASE PlaceDisconnected
  BY <1>13 DEF PlaceDisconnected, Finish
<1>14. CASE SubmitReturns
  BY <1>14 DEF SubmitReturns, Finish, Verdict
<1>15. CASE AckStatus
  BY <1>15 DEF AckStatus
<1>16. CASE AckError
  BY <1>16 DEF AckError
<1>17. ASSUME NEW e \in inflight, ExecDetails(e)
       PROVE  OnlyCurrent'
  BY <1>17 DEF ExecDetails
<1>18. CASE ConnectionClosed
  BY <1>18 DEF ConnectionClosed
<1>19. CASE ReadinessLost
  BY <1>19 DEF ReadinessLost
<1>20. CASE SweepExecutions
  BY <1>20 DEF SweepExecutions
<1>21. CASE SweepTimesOut
  BY <1>21 DEF SweepTimesOut
<1>22. CASE CompletedOrders
  BY <1>22 DEF CompletedOrders
<1>23. CASE ResolveUnknowns
  BY <1>23 DEF ResolveUnknowns, Resolved, Resolvable, Evidence
<1>24. CASE Crash
  BY <1>24 DEF Crash
<1>25. CASE Restart
  BY <1>25 DEF Restart, SweptStatus, SweptCancel
<1>26. ASSUME NEW k \in Keys, BrokerAccepts(k)
       PROVE  OnlyCurrent'
  BY <1>26 DEF BrokerAccepts
<1>27. ASSUME NEW k \in Keys, BrokerRejects(k)
       PROVE  OnlyCurrent'
  BY <1>27 DEF BrokerRejects
<1>28. ASSUME NEW k \in Keys, OrderLost(k)
       PROVE  OnlyCurrent'
  BY <1>28 DEF OrderLost
<1>29. ASSUME NEW k \in Keys, BrokerCancels(k)
       PROVE  OnlyCurrent'
  BY <1>29 DEF BrokerCancels
<1>30. ASSUME NEW k \in Keys, BrokerFills(k)
       PROVE  OnlyCurrent'
  BY <1>30 DEF BrokerFills, Report
<1>31. ASSUME NEW k \in Keys, ExitFills(k)
       PROVE  OnlyCurrent'
  BY <1>31 DEF ExitFills, Report
<1>32. ASSUME NEW k \in Keys, Age(k)
       PROVE  OnlyCurrent'
  BY <1>32 DEF Age
<1>33. CASE UNCHANGED vars
  BY <1>33 DEF vars
<1> QED
  BY <1>1, <1>2, <1>3, <1>4, <1>5, <1>6, <1>7, <1>8, <1>9, <1>10, <1>11, <1>12, <1>13,
      <1>14, <1>15, <1>16, <1>17, <1>18, <1>19, <1>20, <1>21, <1>22, <1>23, <1>24, <1>25,
      <1>26, <1>27, <1>28, <1>29, <1>30, <1>31, <1>32, <1>33
     DEF Next, Engine, Reader, Reconcile, Broker

-----------------------------------------------------------------------------
(* Executions: what the ledger has is what happened, and nothing is sold that  *)
(* was not bought.                                                             *)

\* Executions of a part are no more than those of the whole.
LEMMA CountMonotone ==
  ASSUME NEW S, NEW T, S \subseteq T, T \subseteq Execs, NEW k, NEW side
  PROVE  Count(S, k, side) <= Count(T, k, side)
<1>1. ExecsOf(S, k, side) \subseteq ExecsOf(T, k, side)
  BY DEF ExecsOf
<1>2. IsFiniteSet(ExecsOf(T, k, side))
  BY ExecsFinite
<1> QED
  BY <1>1, <1>2, FS_Subset DEF Count

\* One more execution is counted at most once, on its own key and side.
LEMMA CountAdd ==
  ASSUME NEW S, S \subseteq Execs, NEW e \in Execs, NEW k, NEW side
  PROVE  Count(S \cup {e}, k, side) <= Count(S, k, side) + 1
<1>1. IsFiniteSet(ExecsOf(S, k, side))
  BY ExecsFinite
<1>2. CASE e[1] = k /\ e[2] = side
  <2>1. ExecsOf(S \cup {e}, k, side) = ExecsOf(S, k, side) \cup {e}
    BY <1>2 DEF ExecsOf
  <2>2. Cardinality(ExecsOf(S, k, side)) \in Nat
    BY <1>1, FS_CardinalityType
  <2>3. Cardinality(ExecsOf(S, k, side) \cup {e}) =
          IF e \in ExecsOf(S, k, side) THEN Cardinality(ExecsOf(S, k, side))
          ELSE Cardinality(ExecsOf(S, k, side)) + 1
    BY <1>1, FS_AddElement, Zenon
  <2> QED
    BY <2>1, <2>2, <2>3 DEF Count
<1>3. CASE ~(e[1] = k /\ e[2] = side)
  <2>1. ExecsOf(S \cup {e}, k, side) = ExecsOf(S, k, side)
    BY <1>3 DEF ExecsOf
  <2> QED
    BY <1>1, <2>1, FS_CardinalityType DEF Count
<1> QED
  BY <1>2, <1>3

\* A full order reads filled at the broker, and only such an order has exits.
BoughtInFull(k) ==
  /\ Count(fills, k, "BOT") >= Qty => order[k] = "filled"
  /\ ExecsOf(fills, k, "SLD") # {} => order[k] = "filled"

FillInv ==
  /\ ledger \subseteq fills /\ inflight \subseteq fills
  /\ \A k \in Keys : BoughtInFull(k)

LEMMA FillInit == Init => FillInv
<1> SUFFICES ASSUME Init
             PROVE  FillInv
  OBVIOUS
<1>1. \A k, side : ExecsOf(fills, k, side) = {} /\ Count(fills, k, side) = 0
  BY FS_EmptySet DEF Init, ExecsOf, Count
<1> QED
  BY <1>1, QtyAssumption DEF Init, FillInv, BoughtInFull

\* The ledger of a protected entry has it bought in full.
LEMMA ProtectedIsFilled ==
  ASSUME TypeInv, FillInv, NEW k \in Keys,
         Lifecycle(k) \in {"FILLED", "CLOSING", "CLOSED"}
  PROVE  order[k] = "filled"
<1>1. Count(ledger, k, "BOT") <= Count(fills, k, "BOT")
  BY CountMonotone DEF TypeInv, TypeOK, FillInv
<1>2. /\ Count(ledger, k, "BOT") \in Nat /\ Count(fills, k, "BOT") \in Nat
      /\ Count(ledger, k, "SLD") \in Nat
  BY CountBound DEF TypeInv, TypeOK
<1>3. CASE Count(ledger, k, "SLD") > 0
  <2>1. ExecsOf(ledger, k, "SLD") # {}
    BY <1>3, FS_EmptySet DEF Count
  <2>2. ExecsOf(fills, k, "SLD") # {}
    BY <2>1 DEF FillInv, ExecsOf
  <2> QED
    BY <2>2 DEF FillInv, BoughtInFull
<1>4. CASE Count(ledger, k, "SLD") = 0
  <2>1. Count(ledger, k, "BOT") >= Qty
    BY <1>2, <1>4, NoneAssumption DEF Lifecycle, Lifecycles
  <2> QED
    BY <1>1, <1>2, <2>1, QtyAssumption DEF FillInv, BoughtInFull
<1> QED
  BY <1>2, <1>3, <1>4

\* Steps that move neither the broker's executions nor an order that has filled.
LEMMA FillKept ==
  ASSUME FillInv, fills' = fills, ledger' \subseteq fills, inflight' \subseteq fills,
         \A k \in Keys : order[k] = "filled" => order'[k] = "filled"
  PROVE  FillInv'
<1> SUFFICES ASSUME NEW k \in Keys
             PROVE  BoughtInFull(k)'
  BY DEF FillInv
<1>1. BoughtInFull(k)
  BY DEF FillInv
<1> QED
  BY <1>1 DEF BoughtInFull, Count, ExecsOf

\* The step that adds an execution of a working order.
LEMMA FillByOrder ==
  ASSUME TypeInv, FillInv, NEW k \in Keys, BrokerFills(k)
  PROVE  FillInv'
<1> DEFINE n == Count(fills, k, "BOT") + 1
           e == <<k, "BOT", n>>
<1>1. n \in 1..Qty /\ e \in Execs
  BY CountBound, QtyAssumption DEF TypeInv, TypeOK, BrokerFills, Execs
<1>2. /\ order[k] = "working" /\ fills' = fills \cup {e}
      /\ inflight' \subseteq inflight \cup {e} /\ ledger' = ledger
      /\ order' = [order EXCEPT ![k] = IF n = Qty THEN "filled" ELSE @]
  BY DEF BrokerFills, Report
<1> HIDE DEF e
<1>3. ASSUME NEW j \in Keys, j = k
      PROVE  BoughtInFull(j)'
  <2>1. Count(fills', j, "BOT") <= n
    BY <1>1, <1>2, <1>3, CountAdd DEF TypeInv, TypeOK
  <2>2. Count(fills', j, "BOT") \in Nat
    BY <1>1, <1>2, CountBound DEF TypeInv, TypeOK
  <2>3. Count(fills', j, "BOT") >= Qty => order'[j] = "filled"
    BY <1>1, <1>2, <1>3, <2>1, <2>2, QtyAssumption DEF TypeInv, TypeOK
  <2>4. ExecsOf(fills', j, "SLD") = ExecsOf(fills, j, "SLD")
    BY <1>2 DEF ExecsOf, e
  <2>5. ExecsOf(fills', j, "SLD") = {}
    BY <1>2, <1>3, <2>4 DEF FillInv, BoughtInFull
  <2> QED
    BY <2>3, <2>5 DEF BoughtInFull, Count, ExecsOf
<1>4. ASSUME NEW j \in Keys, j # k
      PROVE  BoughtInFull(j)'
  <2>1. \A side : ExecsOf(fills', j, side) = ExecsOf(fills, j, side)
    BY <1>2, <1>4 DEF ExecsOf, e
  <2>2. order'[j] = order[j]
    BY <1>2, <1>4 DEF TypeInv, TypeOK
  <2> QED
    BY <2>1, <2>2 DEF FillInv, BoughtInFull, Count, ExecsOf
<1> QED
  BY <1>2, <1>3, <1>4 DEF FillInv

\* The step that sells a contract of a protected entry.
LEMMA FillByExit ==
  ASSUME TypeInv, FillInv, NEW k \in Keys, ExitFills(k)
  PROVE  FillInv'
<1> DEFINE e == <<k, "SLD", Count(fills, k, "SLD") + 1>>
<1>1. /\ fills' = fills \cup {e} /\ inflight' \subseteq inflight \cup {e}
      /\ ledger' = ledger /\ order' = order
  BY DEF ExitFills, Report
<1>2. order[k] = "filled"
  BY ProtectedIsFilled DEF ExitFills
<1> HIDE DEF e
<1>3. ASSUME NEW j \in Keys, j = k
      PROVE  BoughtInFull(j)'
  BY <1>1, <1>2, <1>3 DEF BoughtInFull
<1>4. ASSUME NEW j \in Keys, j # k
      PROVE  BoughtInFull(j)'
  <2>1. \A side : ExecsOf(fills', j, side) = ExecsOf(fills, j, side)
    BY <1>1, <1>4 DEF ExecsOf, e
  <2> QED
    BY <1>1, <2>1 DEF FillInv, BoughtInFull, Count, ExecsOf
<1> QED
  BY <1>1, <1>3, <1>4 DEF FillInv

LEMMA FillStep == TypeInv /\ CallInv /\ FillInv /\ [Next]_vars => FillInv'
<1> SUFFICES ASSUME TypeInv, CallInv, FillInv, [Next]_vars
             PROVE  FillInv'
  OBVIOUS
<1>1. CASE \E k \in Keys : BrokerFills(k) \/ ExitFills(k)
  BY <1>1, FillByOrder, FillByExit
<1>2. CASE SweepExecutions
  BY <1>2, FillKept DEF SweepExecutions, FillInv, brokerVars
<1>3. ASSUME NEW e \in inflight, ExecDetails(e)
      PROVE  FillInv'
  BY <1>3, FillKept DEF ExecDetails, FillInv, brokerVars
<1>4. CASE ~(\E k \in Keys : BrokerFills(k) \/ ExitFills(k)) /\ ~SweepExecutions
           /\ ~(\E e \in inflight : ExecDetails(e))
  <2>1. fills' = fills /\ ledger' = ledger /\ inflight' \subseteq inflight
    BY <1>4 DEF Next, Engine, Reader, Reconcile, Broker, vars, registryVars, engineVars,
      transportVars, sweepVars, brokerVars, Claim, Replay, BlockBeforeCall,
      VerifyReadiness, NoLocalReservation, CheckPositions, CheckWorkingOrders, Advance,
      CancelStaleEntry, CancelConfirmed, CancelAmbiguous, RecordEvidence, PlaceOrder,
      PlaceDisconnected, SubmitReturns, AckStatus, AckError, ConnectionClosed,
      ReadinessLost, SweepTimesOut, CompletedOrders, ResolveUnknowns, Crash, Restart,
      BrokerAccepts, BrokerRejects, OrderLost, BrokerCancels, Age
  <2>2. \A k \in Keys : order[k] = "filled" => order'[k] = "filled"
    <3>1. CASE PlaceOrder
      BY <3>1 DEF PlaceOrder, TypeInv, TypeOK, InProgress, CallInv, CallOnce
    <3>2. CASE \E k \in Keys : BrokerAccepts(k) \/ BrokerRejects(k) \/ OrderLost(k)
                 \/ BrokerCancels(k)
      BY <3>2 DEF BrokerAccepts, BrokerRejects, OrderLost, BrokerCancels, TypeInv, TypeOK
    <3>3. CASE UNCHANGED order
      BY <3>3
    <3> QED
      BY <1>4, <3>1, <3>2, <3>3 DEF Next, Engine, Reader, Reconcile, Broker, vars,
        registryVars, engineVars, transportVars, sweepVars, brokerVars, Claim, Replay,
        BlockBeforeCall, VerifyReadiness, NoLocalReservation, CheckPositions,
        CheckWorkingOrders, Advance, CancelStaleEntry, CancelConfirmed, CancelAmbiguous,
        RecordEvidence, PlaceDisconnected, SubmitReturns, AckStatus, AckError,
        ConnectionClosed, ReadinessLost, SweepTimesOut, CompletedOrders,
        ResolveUnknowns, Crash, Restart, Age
  <2> QED
    BY <2>1, <2>2, FillKept DEF FillInv
<1> QED
  BY <1>1, <1>2, <1>3, <1>4

-----------------------------------------------------------------------------
(* One entry per symbol/right. *)

\* Past the registry's gate no other order that can fill is in the slot; while
\* a stale entry is cancelled, none but that one.
SlotFree ==
  /\ pc \in {"local", "positions", "cleared", "evidenced"} =>
       \A j \in Keys : Live(j) => SlotOf[hash[j]] # MySlot
  /\ pc = "cancelling" =>
       \A j \in Keys : Live(j) /\ j # target => SlotOf[hash[j]] # MySlot

SlotInv == NoConcurrentEntries /\ SlotFree

LEMMA SlotInit == Init => SlotInv
BY DEF Init, SlotInv, SlotFree, NoConcurrentEntries, Live

\* An order that can fill reserves its slot for whoever passes the gate.
LEMMA LiveBlocks ==
  ASSUME TypeInv, CallInv, OnlyCurrent, FillInv, pc = "ready", NEW j \in Keys, Live(j),
         SlotOf[hash[j]] = MySlot
  PROVE  j \in blocking_open_entries(MySlot)
<1>1. Accounted(j)
  BY AccountedByRow
<1>2. j # cur
  BY DEF Live, CallInv, CallOnce, PreCall
<1>3. status[j] # "SUBMITTING"
  BY <1>2 DEF OnlyCurrent, TypeInv, InProgress
<1>4. Lifecycle(j) # "CLOSED"
  BY ProtectedIsFilled DEF Live
<1> QED
  BY <1>1, <1>3, <1>4 DEF Accounted, blocking_open_entries

\* Steps that make no order live, and leave the request where it was.
LEMMA SlotKept ==
  ASSUME SlotInv, \A k \in Keys : Live(k)' => Live(k) /\ hash'[k] = hash[k],
         \/ pc' \notin {"local", "positions", "cleared", "evidenced", "cancelling"}
         \/ pc' = pc /\ MySlot' = MySlot /\ target' = target
         \/ /\ pc \in {"local", "positions", "cleared", "evidenced"}
            /\ pc' \in {"local", "positions", "cleared", "evidenced"}
            /\ MySlot' = MySlot
  PROVE  SlotInv'
<1>1. NoConcurrentEntries'
  BY DEF SlotInv, NoConcurrentEntries
<1>2. SlotFree'
  BY DEF SlotInv, SlotFree
<1> QED
  BY <1>1, <1>2 DEF SlotInv

\* Every action keeps SlotInv, given the layers below.
LEMMA SlotStep ==
  TypeInv /\ CallInv /\ OnlyCurrent /\ FillInv /\ SlotInv /\ [Next]_vars => SlotInv'
<1> SUFFICES ASSUME TypeInv, CallInv, OnlyCurrent, FillInv, SlotInv, [Next]_vars
             PROVE  SlotInv'
  OBVIOUS
<1> USE SlotKept
    DEF TypeInv, TypeOK, InProgress, CallInv, CallOnce, PreCall, Live, MySlot,
        registryVars, engineVars, transportVars, sweepVars, brokerVars
<1>1. ASSUME NEW k \in Keys, NEW p \in Payloads, Claim(k, p)
      PROVE  SlotInv'
  BY <1>1 DEF Claim, Claimable
<1>2. ASSUME NEW k \in Keys, NEW p \in Payloads, Replay(k, p)
      PROVE  SlotInv'
  BY <1>2 DEF Replay, ReplayAnswer
<1>3. CASE BlockBeforeCall
  BY <1>3 DEF BlockBeforeCall, Finish
<1>4. CASE VerifyReadiness
  BY <1>4 DEF VerifyReadiness, Advance
<1>5. CASE NoLocalReservation
  <2>1. \A j \in Keys : Live(j) => SlotOf[hash[j]] # MySlot
    BY <1>5, LiveBlocks DEF NoLocalReservation
  <2>2. UNCHANGED <<order, hash, cur>> /\ pc' = "local"
    BY <1>5 DEF NoLocalReservation, Advance
  <2> QED
    BY <2>1, <2>2 DEF SlotInv, SlotFree, NoConcurrentEntries
<1>6. CASE CheckPositions
  BY <1>6 DEF CheckPositions, Advance
<1>7. CASE CheckWorkingOrders
  BY <1>7 DEF CheckWorkingOrders, Advance
<1>8. ASSUME NEW j \in Keys, CancelStaleEntry(j)
      PROVE  SlotInv'
  <2>1. Live(j) /\ SlotOf[hash[j]] = MySlot
    BY <1>8 DEF CancelStaleEntry, StaleCandidate, blocking_open_entries
  <2>2. UNCHANGED <<order, hash, cur>> /\ pc' = "cancelling" /\ target' = j
    BY <1>8 DEF CancelStaleEntry
  <2> QED
    BY <2>1, <2>2 DEF SlotInv, SlotFree, NoConcurrentEntries
<1>9. CASE CancelConfirmed
  <2>1. ~Live(target) /\ pc = "cancelling" /\ pc' = "cleared"
    BY <1>9 DEF CancelConfirmed, CancelProven
  <2>2. UNCHANGED <<order, hash, cur>>
    BY <1>9 DEF CancelConfirmed
  <2> QED
    BY <2>1, <2>2 DEF SlotInv, SlotFree, NoConcurrentEntries
<1>10. CASE CancelAmbiguous
  BY <1>10 DEF CancelAmbiguous, Finish
<1>11. CASE RecordEvidence
  BY <1>11 DEF RecordEvidence
<1>12. CASE PlaceOrder
  <2>1. /\ pc = "evidenced" /\ pc' = "awaiting" /\ hash' = hash
        /\ order' = [order EXCEPT ![cur] = "sent"]
    BY <1>12 DEF PlaceOrder
  <2>2. \A j \in Keys : j # cur /\ Live(j)' => Live(j)
    BY <2>1
  <2>3. \A j \in Keys : Live(j) => SlotOf[hash[j]] # MySlot
    BY <2>1 DEF SlotInv, SlotFree
  <2>4. NoConcurrentEntries'
    BY <2>1, <2>2, <2>3 DEF SlotInv, NoConcurrentEntries
  <2> QED
    BY <2>1, <2>4 DEF SlotInv, SlotFree
<1>13. CASE PlaceDisconnected
  BY <1>13 DEF PlaceDisconnected, Finish
<1>14. CASE SubmitReturns
  BY <1>14 DEF SubmitReturns, Finish, Verdict
<1>15. CASE AckStatus
  BY <1>15 DEF AckStatus
<1>16. CASE AckError
  BY <1>16 DEF AckError
<1>17. ASSUME NEW e \in inflight, ExecDetails(e)
       PROVE  SlotInv'
  BY <1>17 DEF ExecDetails
<1>18. CASE ConnectionClosed
  BY <1>18 DEF ConnectionClosed
<1>19. CASE ReadinessLost
  BY <1>19 DEF ReadinessLost
<1>20. CASE SweepExecutions
  BY <1>20 DEF SweepExecutions
<1>21. CASE SweepTimesOut
  BY <1>21 DEF SweepTimesOut
<1>22. CASE CompletedOrders
  BY <1>22 DEF CompletedOrders
<1>23. CASE ResolveUnknowns
  BY <1>23 DEF ResolveUnknowns, Resolved, Resolvable, Evidence
<1>24. CASE Crash
  BY <1>24 DEF Crash
<1>25. CASE Restart
  BY <1>25 DEF Restart, SweptStatus, SweptCancel
<1>26. ASSUME NEW k \in Keys, BrokerAccepts(k)
       PROVE  SlotInv'
  BY <1>26 DEF BrokerAccepts
<1>27. ASSUME NEW k \in Keys, BrokerRejects(k)
       PROVE  SlotInv'
  BY <1>27 DEF BrokerRejects
<1>28. ASSUME NEW k \in Keys, OrderLost(k)
       PROVE  SlotInv'
  BY <1>28 DEF OrderLost
<1>29. ASSUME NEW k \in Keys, BrokerCancels(k)
       PROVE  SlotInv'
  BY <1>29 DEF BrokerCancels
<1>30. ASSUME NEW k \in Keys, BrokerFills(k)
       PROVE  SlotInv'
  BY <1>30 DEF BrokerFills, Report
<1>31. ASSUME NEW k \in Keys, ExitFills(k)
       PROVE  SlotInv'
  BY <1>31 DEF ExitFills, Report
<1>32. ASSUME NEW k \in Keys, Age(k)
       PROVE  SlotInv'
  BY <1>32 DEF Age
<1>33. CASE UNCHANGED vars
  BY <1>33 DEF vars
<1> QED
  BY <1>1, <1>2, <1>3, <1>4, <1>5, <1>6, <1>7, <1>8, <1>9, <1>10, <1>11, <1>12, <1>13,
      <1>14, <1>15, <1>16, <1>17, <1>18, <1>19, <1>20, <1>21, <1>22, <1>23, <1>24, <1>25,
      <1>26, <1>27, <1>28, <1>29, <1>30, <1>31, <1>32, <1>33
     DEF Next, Engine, Reader, Reconcile, Broker

\* Two entry orders of one account/underlying/right never work at the broker
\* together.
THEOREM EntriesExclusive == Spec => []NoConcurrentEntries
<1> DEFINE Inv == TypeInv /\ CallInv /\ OnlyCurrent /\ FillInv /\ SlotInv
<1>1. Init => Inv
  BY TypeInit, CallInit, CurrentInit, FillInit, SlotInit
<1>2. Inv /\ [Next]_vars => Inv'
  BY TypeStep, CallStep, CurrentStep, FillStep, SlotStep
<1>3. Inv => NoConcurrentEntries
  BY DEF SlotInv
<1> QED
  BY <1>1, <1>2, <1>3, PTL DEF Spec
=============================================================================
