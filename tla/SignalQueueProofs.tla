-------------------------- MODULE SignalQueueProofs --------------------------
(***************************************************************************)
(* Safety of the signal queue for any number of signals, and that it       *)
(* implements OneOrder: each step of server, core, broker or process loss  *)
(* is a step of OneOrder or changes nothing it speaks of.                  *)
(***************************************************************************)
EXTENDS SignalQueue, TLAPS, FiniteSetTheorems

-----------------------------------------------------------------------------
(* The inductive invariant. *)

\* Where the server is with a signal agrees with the signal's row; no call
\* outlives the server.
CallInv ==
  /\ \A s \in Signals :
       /\ call[s] = "received" => row[s] = "READY" /\ s \notin Alerts
       /\ call[s] \in {"prepared", "sent"} => row[s] = "PROCESSING"
  /\ server = "down" => drain = "idle" /\ \A s \in Signals : call[s] = "none"

\* One request per signal: none yet while the row can still be claimed, none
\* under way once the row is final.
RequestInv ==
  \A s \in Signals :
    /\ row[s] \in {"NONE", "READY",
        "EXPIRED"} \/ call[s] = "prepared" => http[s] = "none"
    /\ row[s] \in {"SUBMITTED", "BLOCKED"} => http[s] \in {"none", "over"}
    /\ http[s] \in {"none", "sent"} => claim[s] = "NONE" /\ order[s] = "none"
    /\ lock = s => http[s] = "taken"

\* What the core answers is true, and an order that may still be placed belongs
\* to a signal of which nothing final has been said.
OrderInv ==
  \A s \in Signals :
    /\ http[s] = "SUBMITTED" => order[s] = "placed"
    /\ http[s] = "BLOCKED" => order[s] \in {"none", "refused"}
    /\ order[s] = "sent" => row[s] \in {"PROCESSING", "SUBMISSION_UNKNOWN"}

Inv == TypeOK /\ CallInv /\ RequestInv /\ OrderInv

-----------------------------------------------------------------------------
\* The alerts that have arrived can be counted.
LEMMA ArrivedCount == Cardinality({b \in Alerts : row[b] # "NONE"}) \in Nat
  BY SignalsAssumption, FS_Subset, FS_CardinalityType

LEMMA InvInit == Init => Inv
<1> SUFFICES ASSUME Init
             PROVE  Inv
  OBVIOUS
<1> USE DEF Init
<1>1. TypeOK
  BY DEF TypeOK, Rows, Claims, Calls
<1>2. CallInv
  BY DEF CallInv
<1>3. RequestInv
  BY NoneAssumption DEF RequestInv
<1>4. OrderInv
  BY DEF OrderInv
<1> QED
  BY <1>1, <1>2, <1>3, <1>4 DEF Inv

\* Every action keeps the types.
LEMMA TypeStep == TypeOK /\ [Next]_vars => TypeOK'
<1> SUFFICES ASSUME TypeOK, [Next]_vars
             PROVE  TypeOK'
  OBVIOUS
<1> USE DEF TypeOK, Signals, storeVars, serverVars, coreVars, Rows, Answers, Claims,
            Calls
<1>1. ASSUME NEW a \in Alerts, ReceiveAlert(a)
      PROVE  TypeOK'
  BY <1>1, ArrivedCount DEF ReceiveAlert
<1>2. ASSUME NEW a \in Alerts, GrowsStale(a)
      PROVE  TypeOK'
  BY <1>2 DEF GrowsStale
<1>3. ASSUME NEW m \in Manuals, SubmitManual(m)
      PROVE  TypeOK'
  BY <1>3 DEF SubmitManual
<1>4. ASSUME NEW c \in Closes, SubmitClose(c)
      PROVE  TypeOK'
  BY <1>4 DEF SubmitClose
<1>5. CASE StartDrain
  BY <1>5 DEF StartDrain, CheckCore
<1>6. CASE EndDrain
  BY <1>6 DEF EndDrain
<1>7. ASSUME NEW a \in Alerts, ExpireHead(a)
      PROVE  TypeOK'
  BY <1>7 DEF ExpireHead, HeadOfQueue, Queue, Claimable
<1>8. ASSUME NEW a \in Alerts, DrainHead(a)
      PROVE  TypeOK'
  BY <1>8 DEF DrainHead, HeadOfQueue, Queue, Claimable
<1>9. CASE RefreshSnapshot
  BY <1>9 DEF RefreshSnapshot, CheckCore
<1>10. ASSUME NEW s \in Signals, PrepareManual(s)
      PROVE  TypeOK'
  BY <1>10 DEF PrepareManual, Claimable
<1>11. ASSUME NEW s \in Signals, AdapterBlocks(s)
      PROVE  TypeOK'
  BY <1>11 DEF AdapterBlocks, Finish
<1>12. ASSUME NEW s \in Signals, SendRequest(s)
      PROVE  TypeOK'
  BY <1>12 DEF SendRequest
<1>13. ASSUME NEW s \in Signals, Answered(s)
      PROVE  TypeOK'
  BY <1>13 DEF Answered, Finish
<1>14. ASSUME NEW s \in Signals, CallFails(s)
      PROVE  TypeOK'
  BY <1>14 DEF CallFails, Finish, FailureStatus, Unheard
<1>15. ASSUME NEW s \in Signals, CoreRejects(s)
      PROVE  TypeOK'
  BY <1>15 DEF CoreRejects, Answer
<1>16. ASSUME NEW s \in Signals, CoreClaims(s)
      PROVE  TypeOK'
  BY <1>16 DEF CoreClaims, Answer
<1>17. ASSUME NEW s \in Signals, CorePlaces(s)
      PROVE  TypeOK'
  BY <1>17 DEF CorePlaces
<1>18. ASSUME NEW s \in Signals, CoreFinishes(s)
      PROVE  TypeOK'
  BY <1>18 DEF CoreFinishes, Answer
<1>19. ASSUME NEW s \in Signals, BrokerAnswers(s)
      PROVE  TypeOK'
  BY <1>19 DEF BrokerAnswers
<1>20. CASE ServerDies
  BY <1>20 DEF ServerDies, Unheard
<1>21. CASE ServerStarts
  BY <1>21 DEF ServerStarts, Recovered
<1>22. CASE CoreDies
  BY <1>22 DEF CoreDies
<1>23. CASE CoreStarts
  BY <1>23 DEF CoreStarts
<1>24. CASE UNCHANGED vars
  BY <1>24 DEF vars
<1>25. QED
  BY <1>1, <1>2, <1>3, <1>4, <1>5, <1>6, <1>7, <1>8, <1>9, <1>10, <1>11, <1>12, <1>13,
     <1>14, <1>15, <1>16, <1>17, <1>18, <1>19, <1>20, <1>21, <1>22, <1>23, <1>24
  DEF Next, Operator, Drain, CallSteps, CoreSteps

\* The row agrees with the call.
LEMMA CallStep == TypeOK /\ CallInv /\ [Next]_vars => CallInv'
<1> SUFFICES ASSUME TypeOK, CallInv, [Next]_vars
             PROVE  CallInv'
  OBVIOUS
<1> USE DEF TypeOK, CallInv, Signals, storeVars, serverVars, coreVars, Rows, Answers,
            Claims, Calls
<1>1. ASSUME NEW a \in Alerts, ReceiveAlert(a)
      PROVE  CallInv'
  BY <1>1 DEF ReceiveAlert
<1>2. ASSUME NEW a \in Alerts, GrowsStale(a)
      PROVE  CallInv'
  BY <1>2 DEF GrowsStale
<1>3. ASSUME NEW m \in Manuals, SubmitManual(m)
      PROVE  CallInv'
  BY <1>3, SignalsAssumption DEF SubmitManual
<1>4. ASSUME NEW c \in Closes, SubmitClose(c)
      PROVE  CallInv'
  BY <1>4, SignalsAssumption DEF SubmitClose
<1>5. CASE StartDrain
  BY <1>5 DEF StartDrain, CheckCore
<1>6. CASE EndDrain
  BY <1>6 DEF EndDrain
<1>7. ASSUME NEW a \in Alerts, ExpireHead(a)
      PROVE  CallInv'
  BY <1>7 DEF ExpireHead, HeadOfQueue, Queue, Claimable
<1>8. ASSUME NEW a \in Alerts, DrainHead(a)
      PROVE  CallInv'
  BY <1>8 DEF DrainHead, HeadOfQueue, Queue, Claimable
<1>9. CASE RefreshSnapshot
  BY <1>9 DEF RefreshSnapshot, CheckCore
<1>10. ASSUME NEW s \in Signals, PrepareManual(s)
      PROVE  CallInv'
  BY <1>10 DEF PrepareManual, Claimable
<1>11. ASSUME NEW s \in Signals, AdapterBlocks(s)
      PROVE  CallInv'
  BY <1>11 DEF AdapterBlocks, Finish
<1>12. ASSUME NEW s \in Signals, SendRequest(s)
      PROVE  CallInv'
  BY <1>12 DEF SendRequest
<1>13. ASSUME NEW s \in Signals, Answered(s)
      PROVE  CallInv'
  BY <1>13 DEF Answered, Finish
<1>14. ASSUME NEW s \in Signals, CallFails(s)
      PROVE  CallInv'
  BY <1>14 DEF CallFails, Finish, FailureStatus, Unheard
<1>15. ASSUME NEW s \in Signals, CoreRejects(s)
      PROVE  CallInv'
  BY <1>15 DEF CoreRejects, Answer
<1>16. ASSUME NEW s \in Signals, CoreClaims(s)
      PROVE  CallInv'
  BY <1>16 DEF CoreClaims, Answer
<1>17. ASSUME NEW s \in Signals, CorePlaces(s)
      PROVE  CallInv'
  BY <1>17 DEF CorePlaces
<1>18. ASSUME NEW s \in Signals, CoreFinishes(s)
      PROVE  CallInv'
  BY <1>18 DEF CoreFinishes, Answer
<1>19. ASSUME NEW s \in Signals, BrokerAnswers(s)
      PROVE  CallInv'
  BY <1>19 DEF BrokerAnswers
<1>20. CASE ServerDies
  BY <1>20 DEF ServerDies, Unheard
<1>21. CASE ServerStarts
  BY <1>21 DEF ServerStarts, Recovered
<1>22. CASE CoreDies
  BY <1>22 DEF CoreDies
<1>23. CASE CoreStarts
  BY <1>23 DEF CoreStarts
<1>24. CASE UNCHANGED vars
  BY <1>24 DEF vars
<1>25. QED
  BY <1>1, <1>2, <1>3, <1>4, <1>5, <1>6, <1>7, <1>8, <1>9, <1>10, <1>11, <1>12, <1>13,
     <1>14, <1>15, <1>16, <1>17, <1>18, <1>19, <1>20, <1>21, <1>22, <1>23, <1>24
  DEF Next, Operator, Drain, CallSteps, CoreSteps

\* A signal is asked about once.
LEMMA RequestStep == TypeOK /\ CallInv /\ RequestInv /\ [Next]_vars => RequestInv'
<1> SUFFICES ASSUME TypeOK, CallInv, RequestInv, [Next]_vars
             PROVE  RequestInv'
  OBVIOUS
<1> USE DEF TypeOK, CallInv, RequestInv, Signals, storeVars, serverVars, coreVars, Rows,
            Answers, Claims, Calls
<1>1. ASSUME NEW a \in Alerts, ReceiveAlert(a)
      PROVE  RequestInv'
  BY <1>1 DEF ReceiveAlert
<1>2. ASSUME NEW a \in Alerts, GrowsStale(a)
      PROVE  RequestInv'
  BY <1>2 DEF GrowsStale
<1>3. ASSUME NEW m \in Manuals, SubmitManual(m)
      PROVE  RequestInv'
  BY <1>3 DEF SubmitManual
<1>4. ASSUME NEW c \in Closes, SubmitClose(c)
      PROVE  RequestInv'
  BY <1>4 DEF SubmitClose
<1>5. CASE StartDrain
  BY <1>5 DEF StartDrain, CheckCore
<1>6. CASE EndDrain
  BY <1>6 DEF EndDrain
<1>7. ASSUME NEW a \in Alerts, ExpireHead(a)
      PROVE  RequestInv'
  BY <1>7 DEF ExpireHead, HeadOfQueue, Queue, Claimable
<1>8. ASSUME NEW a \in Alerts, DrainHead(a)
      PROVE  RequestInv'
  BY <1>8 DEF DrainHead, HeadOfQueue, Queue, Claimable
<1>9. CASE RefreshSnapshot
  BY <1>9 DEF RefreshSnapshot, CheckCore
<1>10. ASSUME NEW s \in Signals, PrepareManual(s)
      PROVE  RequestInv'
  BY <1>10 DEF PrepareManual, Claimable
<1>11. ASSUME NEW s \in Signals, AdapterBlocks(s)
      PROVE  RequestInv'
  BY <1>11 DEF AdapterBlocks, Finish
<1>12. ASSUME NEW s \in Signals, SendRequest(s)
      PROVE  RequestInv'
  BY <1>12 DEF SendRequest
<1>13. ASSUME NEW s \in Signals, Answered(s)
      PROVE  RequestInv'
  BY <1>13 DEF Answered, Finish
<1>14. ASSUME NEW s \in Signals, CallFails(s)
      PROVE  RequestInv'
  BY <1>14 DEF CallFails, Finish, FailureStatus, Unheard
<1>15. ASSUME NEW s \in Signals, CoreRejects(s)
      PROVE  RequestInv'
  BY <1>15 DEF CoreRejects, Answer
<1>16. ASSUME NEW s \in Signals, CoreClaims(s)
      PROVE  RequestInv'
  BY <1>16 DEF CoreClaims, Answer
<1>17. ASSUME NEW s \in Signals, CorePlaces(s)
      PROVE  RequestInv'
  BY <1>17 DEF CorePlaces
<1>18. ASSUME NEW s \in Signals, CoreFinishes(s)
      PROVE  RequestInv'
  BY <1>18, NoneAssumption DEF CoreFinishes, Answer
<1>19. ASSUME NEW s \in Signals, BrokerAnswers(s)
      PROVE  RequestInv'
  BY <1>19 DEF BrokerAnswers
<1>20. CASE ServerDies
  BY <1>20 DEF ServerDies, Unheard
<1>21. CASE ServerStarts
  BY <1>21 DEF ServerStarts, Recovered
<1>22. CASE CoreDies
  BY <1>22, NoneAssumption DEF CoreDies
<1>23. CASE CoreStarts
  BY <1>23 DEF CoreStarts
<1>24. CASE UNCHANGED vars
  BY <1>24 DEF vars
<1>25. QED
  BY <1>1, <1>2, <1>3, <1>4, <1>5, <1>6, <1>7, <1>8, <1>9, <1>10, <1>11, <1>12, <1>13,
     <1>14, <1>15, <1>16, <1>17, <1>18, <1>19, <1>20, <1>21, <1>22, <1>23, <1>24
  DEF Next, Operator, Drain, CallSteps, CoreSteps

\* Nothing final is said of a signal with an order under way.
LEMMA OrderStep == TypeOK /\ CallInv /\ RequestInv /\ OrderInv /\ [Next]_vars => OrderInv'
<1> SUFFICES ASSUME TypeOK, CallInv, RequestInv, OrderInv, [Next]_vars
             PROVE  OrderInv'
  OBVIOUS
<1> USE DEF TypeOK, CallInv, RequestInv, OrderInv, Signals, storeVars, serverVars,
            coreVars, Rows, Answers, Claims, Calls
<1>1. ASSUME NEW a \in Alerts, ReceiveAlert(a)
      PROVE  OrderInv'
  BY <1>1 DEF ReceiveAlert
<1>2. ASSUME NEW a \in Alerts, GrowsStale(a)
      PROVE  OrderInv'
  BY <1>2 DEF GrowsStale
<1>3. ASSUME NEW m \in Manuals, SubmitManual(m)
      PROVE  OrderInv'
  BY <1>3 DEF SubmitManual
<1>4. ASSUME NEW c \in Closes, SubmitClose(c)
      PROVE  OrderInv'
  BY <1>4 DEF SubmitClose
<1>5. CASE StartDrain
  BY <1>5 DEF StartDrain, CheckCore
<1>6. CASE EndDrain
  BY <1>6 DEF EndDrain
<1>7. ASSUME NEW a \in Alerts, ExpireHead(a)
      PROVE  OrderInv'
  BY <1>7 DEF ExpireHead, HeadOfQueue, Queue, Claimable
<1>8. ASSUME NEW a \in Alerts, DrainHead(a)
      PROVE  OrderInv'
  BY <1>8 DEF DrainHead, HeadOfQueue, Queue, Claimable
<1>9. CASE RefreshSnapshot
  BY <1>9 DEF RefreshSnapshot, CheckCore
<1>10. ASSUME NEW s \in Signals, PrepareManual(s)
      PROVE  OrderInv'
  BY <1>10 DEF PrepareManual, Claimable
<1>11. ASSUME NEW s \in Signals, AdapterBlocks(s)
      PROVE  OrderInv'
  BY <1>11 DEF AdapterBlocks, Finish
<1>12. ASSUME NEW s \in Signals, SendRequest(s)
      PROVE  OrderInv'
  BY <1>12 DEF SendRequest
<1>13. ASSUME NEW s \in Signals, Answered(s)
      PROVE  OrderInv'
  BY <1>13 DEF Answered, Finish
<1>14. ASSUME NEW s \in Signals, CallFails(s)
      PROVE  OrderInv'
  BY <1>14 DEF CallFails, Finish, FailureStatus, Unheard
<1>15. ASSUME NEW s \in Signals, CoreRejects(s)
      PROVE  OrderInv'
  BY <1>15 DEF CoreRejects, Answer
<1>16. ASSUME NEW s \in Signals, CoreClaims(s)
      PROVE  OrderInv'
  BY <1>16 DEF CoreClaims, Answer
<1>17. ASSUME NEW s \in Signals, CorePlaces(s)
      PROVE  OrderInv'
  BY <1>17 DEF CorePlaces
<1>18. ASSUME NEW s \in Signals, CoreFinishes(s)
      PROVE  OrderInv'
  BY <1>18 DEF CoreFinishes, Answer
<1>19. ASSUME NEW s \in Signals, BrokerAnswers(s)
      PROVE  OrderInv'
  BY <1>19 DEF BrokerAnswers
<1>20. CASE ServerDies
  BY <1>20 DEF ServerDies, Unheard
<1>21. CASE ServerStarts
  BY <1>21 DEF ServerStarts, Recovered
<1>22. CASE CoreDies
  BY <1>22 DEF CoreDies
<1>23. CASE CoreStarts
  BY <1>23 DEF CoreStarts
<1>24. CASE UNCHANGED vars
  BY <1>24 DEF vars
<1>25. QED
  BY <1>1, <1>2, <1>3, <1>4, <1>5, <1>6, <1>7, <1>8, <1>9, <1>10, <1>11, <1>12, <1>13,
     <1>14, <1>15, <1>16, <1>17, <1>18, <1>19, <1>20, <1>21, <1>22, <1>23, <1>24
  DEF Next, Operator, Drain, CallSteps, CoreSteps

LEMMA InvStep == Inv /\ [Next]_vars => Inv'
  BY TypeStep, CallStep, RequestStep, OrderStep DEF Inv

LEMMA Invariance == Spec => []Inv
  BY InvInit, InvStep, PTL DEF Spec

\* An alert that has outlived its budget in the queue, expired by now or not.
Outlived(a) == stale[a] /\ row[a] \in {"READY", "EXPIRED"}

\* It stays so: the drain drops it, and neither a restart of the server nor anything
\* the core or the broker does brings it back.
LEMMA OutlivedStays ==
  ASSUME Inv, [Next]_vars, NEW old \in Alerts, Outlived(old)
  PROVE  Outlived(old)'
<1> USE DEF Inv, TypeOK, CallInv, Signals, storeVars, serverVars, coreVars, TooOld, Outlived
<1>1. ASSUME NEW a \in Alerts, ReceiveAlert(a)
      PROVE  Outlived(old)'
  BY <1>1 DEF ReceiveAlert
<1>2. ASSUME NEW a \in Alerts, GrowsStale(a)
      PROVE  Outlived(old)'
  BY <1>2 DEF GrowsStale
<1>3. ASSUME NEW m \in Manuals, SubmitManual(m)
      PROVE  Outlived(old)'
  BY <1>3 DEF SubmitManual
<1>4. ASSUME NEW c \in Closes, SubmitClose(c)
      PROVE  Outlived(old)'
  BY <1>4 DEF SubmitClose
<1>5. CASE StartDrain
  BY <1>5 DEF StartDrain, CheckCore
<1>6. CASE EndDrain
  BY <1>6 DEF EndDrain
<1>7. ASSUME NEW a \in Alerts, ExpireHead(a)
      PROVE  Outlived(old)'
  BY <1>7 DEF ExpireHead, HeadOfQueue, Queue, Claimable
<1>8. ASSUME NEW a \in Alerts, DrainHead(a)
      PROVE  Outlived(old)'
  BY <1>8 DEF DrainHead, HeadOfQueue, Queue, Claimable
<1>9. CASE RefreshSnapshot
  BY <1>9 DEF RefreshSnapshot, CheckCore
<1>10. ASSUME NEW s \in Signals, PrepareManual(s)
      PROVE  Outlived(old)'
  BY <1>10 DEF PrepareManual, Claimable
<1>11. ASSUME NEW s \in Signals, AdapterBlocks(s)
      PROVE  Outlived(old)'
  BY <1>11 DEF AdapterBlocks, Finish
<1>12. ASSUME NEW s \in Signals, SendRequest(s)
      PROVE  Outlived(old)'
  BY <1>12 DEF SendRequest
<1>13. ASSUME NEW s \in Signals, Answered(s)
      PROVE  Outlived(old)'
  BY <1>13 DEF Answered, Finish
<1>14. ASSUME NEW s \in Signals, CallFails(s)
      PROVE  Outlived(old)'
  BY <1>14 DEF CallFails, Finish, FailureStatus, Unheard
<1>15. ASSUME NEW s \in Signals, CoreRejects(s)
      PROVE  Outlived(old)'
  BY <1>15 DEF CoreRejects, Answer
<1>16. ASSUME NEW s \in Signals, CoreClaims(s)
      PROVE  Outlived(old)'
  BY <1>16 DEF CoreClaims, Answer
<1>17. ASSUME NEW s \in Signals, CorePlaces(s)
      PROVE  Outlived(old)'
  BY <1>17 DEF CorePlaces
<1>18. ASSUME NEW s \in Signals, CoreFinishes(s)
      PROVE  Outlived(old)'
  BY <1>18 DEF CoreFinishes, Answer
<1>19. ASSUME NEW s \in Signals, BrokerAnswers(s)
      PROVE  Outlived(old)'
  BY <1>19 DEF BrokerAnswers
<1>20. CASE ServerDies
  BY <1>20 DEF ServerDies, Unheard
<1>21. CASE ServerStarts
  <2>1. \A s \in Signals : row'[s] = Recovered(row[s])
    BY <1>21 DEF ServerStarts
  <2>2. UNCHANGED stale
    BY <1>21 DEF ServerStarts
  <2> QED
    BY <2>1, <2>2 DEF Recovered
<1>22. CASE CoreDies
  BY <1>22 DEF CoreDies
<1>23. CASE CoreStarts
  BY <1>23 DEF CoreStarts
<1>24. CASE UNCHANGED vars
  BY <1>24 DEF vars
<1> QED
  BY <1>1, <1>2, <1>3, <1>4, <1>5, <1>6, <1>7, <1>8, <1>9, <1>10, <1>11, <1>12, <1>13,
     <1>14, <1>15, <1>16, <1>17, <1>18, <1>19, <1>20, <1>21, <1>22, <1>23, <1>24
  DEF Next, Operator, Drain, CallSteps, CoreSteps

-----------------------------------------------------------------------------
(* Theorems. *)

\* Every reachable state of server, store and core is well typed.
THEOREM TypeCorrect == Spec => []TypeOK
<1>1. Inv => TypeOK
  BY DEF Inv
<1> QED
  BY <1>1, Invariance, PTL

\* No retry, repeated alert or restart asks the core about a signal twice: a
\* request is only sent for a signal without one.
THEOREM OneRequest == Spec => AskedOnce
<1>1. Inv => \A s \in Signals : call[s] = "prepared" => http[s] = "none"
  BY DEF Inv, RequestInv
<1>2. Inv /\ [Next]_vars =>
        [\A s \in Signals :
           call[s] = "prepared" /\ call'[s] = "sent" => http[s] = "none"]_vars
  BY <1>1
<1> QED
  BY <1>2, Invariance, PTL DEF AskedOnce, Spec

\* An alert that outlives the budget in the queue never runs: RequestInv knows that
\* no request of an earlier life of the server is behind a row still in the queue.
THEOREM BacklogDropped == Spec => OutlivedNeverRuns
<1> SUFFICES ASSUME NEW a \in Alerts
             PROVE  Spec => [](row[a] = "READY" /\ stale[a] => []NeverAsked(a))
  BY DEF OutlivedNeverRuns
<1>1. Inv /\ Outlived(a) /\ [Next]_vars => Outlived(a)'
  BY OutlivedStays
<1>2. Inv /\ Outlived(a) => NeverAsked(a)
  BY DEF Inv, RequestInv, Outlived, NeverAsked, Signals
<1>3. row[a] = "READY" /\ stale[a] => Outlived(a)
  BY DEF Outlived
<1> QED
  BY <1>1, <1>2, <1>3, Invariance, PTL DEF Spec

\* What was captured while sending was off is not sent later.
THEOREM CapturedOnly == Spec => []CapturedStaysCaptured
<1>1. Init => CapturedStaysCaptured
  BY DEF Init, CapturedStaysCaptured
<1>2. Inv /\ CapturedStaysCaptured /\ [Next]_vars => CapturedStaysCaptured'
  <2> SUFFICES ASSUME Inv, CapturedStaysCaptured, [Next]_vars
               PROVE  CapturedStaysCaptured'
    OBVIOUS
  <2> USE DEF Inv, TypeOK, CallInv, RequestInv, CapturedStaysCaptured, Signals, Answers,
              storeVars, serverVars, coreVars
  <2>1. ASSUME NEW a \in Alerts, ReceiveAlert(a)
        PROVE  CapturedStaysCaptured'
    BY <2>1 DEF ReceiveAlert
  <2>2. ASSUME NEW a \in Alerts, GrowsStale(a)
        PROVE  CapturedStaysCaptured'
    BY <2>2 DEF GrowsStale
  <2>3. ASSUME NEW m \in Manuals, SubmitManual(m)
        PROVE  CapturedStaysCaptured'
    BY <2>3 DEF SubmitManual
  <2>4. ASSUME NEW c \in Closes, SubmitClose(c)
        PROVE  CapturedStaysCaptured'
    BY <2>4 DEF SubmitClose
  <2>5. CASE StartDrain
    BY <2>5 DEF StartDrain, CheckCore
  <2>6. CASE EndDrain
    BY <2>6 DEF EndDrain
  <2>7. ASSUME NEW a \in Alerts, ExpireHead(a)
        PROVE  CapturedStaysCaptured'
    BY <2>7 DEF ExpireHead, HeadOfQueue, Queue, Claimable
  <2>8. ASSUME NEW a \in Alerts, DrainHead(a)
        PROVE  CapturedStaysCaptured'
    BY <2>8 DEF DrainHead, HeadOfQueue, Queue, Claimable
  <2>9. CASE RefreshSnapshot
    BY <2>9 DEF RefreshSnapshot, CheckCore
  <2>10. ASSUME NEW s \in Signals, PrepareManual(s)
        PROVE  CapturedStaysCaptured'
    BY <2>10 DEF PrepareManual, Claimable
  <2>11. ASSUME NEW s \in Signals, AdapterBlocks(s)
        PROVE  CapturedStaysCaptured'
    BY <2>11 DEF AdapterBlocks, Finish
  <2>12. ASSUME NEW s \in Signals, SendRequest(s)
        PROVE  CapturedStaysCaptured'
    BY <2>12 DEF SendRequest
  <2>13. ASSUME NEW s \in Signals, Answered(s)
        PROVE  CapturedStaysCaptured'
    BY <2>13 DEF Answered, Finish
  <2>14. ASSUME NEW s \in Signals, CallFails(s)
        PROVE  CapturedStaysCaptured'
    BY <2>14 DEF CallFails, Finish, FailureStatus, Unheard
  <2>15. ASSUME NEW s \in Signals, CoreRejects(s)
        PROVE  CapturedStaysCaptured'
    BY <2>15 DEF CoreRejects, Answer
  <2>16. ASSUME NEW s \in Signals, CoreClaims(s)
        PROVE  CapturedStaysCaptured'
    BY <2>16 DEF CoreClaims, Answer
  <2>17. ASSUME NEW s \in Signals, CorePlaces(s)
        PROVE  CapturedStaysCaptured'
    BY <2>17 DEF CorePlaces
  <2>18. ASSUME NEW s \in Signals, CoreFinishes(s)
        PROVE  CapturedStaysCaptured'
    BY <2>18 DEF CoreFinishes, Answer
  <2>19. ASSUME NEW s \in Signals, BrokerAnswers(s)
        PROVE  CapturedStaysCaptured'
    BY <2>19 DEF BrokerAnswers
  <2>20. CASE ServerDies
    BY <2>20 DEF ServerDies, Unheard
  <2>21. CASE ServerStarts
    <3>1. \A s \in Signals : row'[s] = Recovered(row[s])
      BY <2>21 DEF ServerStarts
    <3>2. UNCHANGED <<eligible, http>>
      BY <2>21 DEF ServerStarts
    <3> QED
      BY <3>1, <3>2 DEF Recovered
  <2>22. CASE CoreDies
    BY <2>22 DEF CoreDies
  <2>23. CASE CoreStarts
    BY <2>23 DEF CoreStarts
  <2>24. CASE UNCHANGED vars
    BY <2>24 DEF vars
  <2> QED
    BY <2>1, <2>2, <2>3, <2>4, <2>5, <2>6, <2>7, <2>8, <2>9, <2>10, <2>11, <2>12, <2>13,
       <2>14, <2>15, <2>16, <2>17, <2>18, <2>19, <2>20, <2>21, <2>22, <2>23, <2>24
    DEF Next, Operator, Drain, CallSteps, CoreSteps
<1> QED
  BY <1>1, <1>2, Invariance, PTL DEF Spec

-----------------------------------------------------------------------------
(* The queue implements OneOrder. *)

\* A step after which the same signals have orders and the same has been told.
LEMMA Unnoticed ==
  ASSUME \A s \in Signals : order'[s] = "placed" <=> order[s] = "placed",
         \A s \in Signals : Told(s)' = Told(s)
  PROVE  UNCHANGED Promise!vars
  BY DEF Promise!vars

\* A step that settles one signal.
LEMMA Settled ==
  ASSUME NEW s \in Signals, NEW status \in Rows, NEW verdict \in Promise!Verdicts,
         TypeOK, UNCHANGED order, row' = [row EXCEPT ![s] = status],
         Told(s) = None, Told(s)' = verdict,
         verdict = "SUBMITTED" => order[s] = "placed",
         verdict = "NOT_SUBMITTED" => order[s] # "placed"
  PROVE  Promise!Next
<1> DEFINE told0 == [x \in Signals |-> Told(x)]
<1>1. \A x \in Signals \ {s} : Told(x)' = Told(x)
  BY DEF Told, TypeOK
<1>2. told0' = [told0 EXCEPT ![s] = verdict]
  BY <1>1
<1>3. Promise!Tell(s, verdict)
  BY <1>2 DEF Promise!Tell
<1> QED
  BY <1>3 DEF Promise!Next

LEMMA PromiseInit == Init => Promise!Init
  BY DEF Init, Promise!Init, Told

LEMMA PromiseStep == Inv /\ [Next]_vars => [Promise!Next]_Promise!vars
<1> SUFFICES ASSUME Inv, [Next]_vars
             PROVE  Promise!Next \/ UNCHANGED Promise!vars
  BY DEF Promise!vars
<1> USE DEF Inv
<1>1. ASSUME NEW a \in Alerts, ReceiveAlert(a)
      PROVE  Promise!Next \/ UNCHANGED Promise!vars
  BY <1>1, Unnoticed DEF ReceiveAlert, TypeOK, CallInv, RequestInv, OrderInv, Signals,
     storeVars, serverVars, coreVars, Told
<1>2. ASSUME NEW a \in Alerts, GrowsStale(a)
      PROVE  Promise!Next \/ UNCHANGED Promise!vars
  BY <1>2, Unnoticed DEF GrowsStale, TypeOK, CallInv, RequestInv, OrderInv, Signals,
     storeVars, serverVars, coreVars, Told
<1>3. ASSUME NEW m \in Manuals, SubmitManual(m)
      PROVE  Promise!Next \/ UNCHANGED Promise!vars
  BY <1>3, Unnoticed DEF SubmitManual, TypeOK, CallInv, RequestInv, OrderInv, Signals,
     storeVars, serverVars, coreVars, Told
<1>4. ASSUME NEW c \in Closes, SubmitClose(c)
      PROVE  Promise!Next \/ UNCHANGED Promise!vars
  BY <1>4, Unnoticed DEF SubmitClose, TypeOK, CallInv, RequestInv, OrderInv, Signals,
     storeVars, serverVars, coreVars, Told
<1>5. CASE StartDrain
  BY <1>5, Unnoticed DEF StartDrain, CheckCore, TypeOK, CallInv, RequestInv, OrderInv,
     Signals, storeVars, serverVars, coreVars, Told
<1>6. CASE EndDrain
  BY <1>6, Unnoticed DEF EndDrain, TypeOK, CallInv, RequestInv, OrderInv, Signals,
     storeVars, serverVars, coreVars, Told
<1>7. ASSUME NEW a \in Alerts, ExpireHead(a)
      PROVE  Promise!Next \/ UNCHANGED Promise!vars
  <2>1. row' = [row EXCEPT ![a] = "EXPIRED"] /\ UNCHANGED order /\ a \in Signals
    BY <1>7 DEF ExpireHead, HeadOfQueue, Queue, Claimable, TypeOK, CallInv, RequestInv,
       OrderInv, Signals, storeVars, serverVars, coreVars
  <2>2. Told(a) = None /\ Told(a)' = "NOT_SUBMITTED" /\ order[a] # "placed"
    BY <1>7, <2>1 DEF ExpireHead, HeadOfQueue, Queue, Claimable, TypeOK, CallInv,
       RequestInv, OrderInv, Signals, storeVars, serverVars, coreVars, Told
  <2> QED
    BY <2>1, <2>2, Settled DEF Rows, Promise!Verdicts
<1>8. ASSUME NEW a \in Alerts, DrainHead(a)
      PROVE  Promise!Next \/ UNCHANGED Promise!vars
  BY <1>8, Unnoticed DEF DrainHead, HeadOfQueue, Queue, Claimable, TypeOK, CallInv,
     RequestInv, OrderInv, Signals, storeVars, serverVars, coreVars, Told
<1>9. CASE RefreshSnapshot
  BY <1>9, Unnoticed DEF RefreshSnapshot, CheckCore, TypeOK, CallInv, RequestInv,
     OrderInv, Signals, storeVars, serverVars, coreVars, Told
<1>10. ASSUME NEW s \in Signals, PrepareManual(s)
      PROVE  Promise!Next \/ UNCHANGED Promise!vars
  BY <1>10, Unnoticed DEF PrepareManual, Claimable, TypeOK, CallInv, RequestInv,
     OrderInv, Signals, storeVars, serverVars, coreVars, Told
<1>11. ASSUME NEW s \in Signals, AdapterBlocks(s)
      PROVE  Promise!Next \/ UNCHANGED Promise!vars
  <2>1. row' = [row EXCEPT ![s] = "BLOCKED"] /\ UNCHANGED order /\ s \in Signals
    BY <1>11 DEF AdapterBlocks, Finish, TypeOK, CallInv, RequestInv, OrderInv, Signals,
       storeVars, serverVars, coreVars
  <2>2. Told(s) = None /\ Told(s)' = "NOT_SUBMITTED" /\ order[s] # "placed"
    BY <1>11, <2>1 DEF AdapterBlocks, Finish, TypeOK, CallInv, RequestInv, OrderInv,
       Signals, storeVars, serverVars, coreVars, Told
  <2> QED
    BY <2>1, <2>2, Settled DEF Rows, Promise!Verdicts
<1>12. ASSUME NEW s \in Signals, SendRequest(s)
      PROVE  Promise!Next \/ UNCHANGED Promise!vars
  BY <1>12, Unnoticed DEF SendRequest, TypeOK, CallInv, RequestInv, OrderInv, Signals,
     storeVars, serverVars, coreVars, Told
<1>13. ASSUME NEW s \in Signals, Answered(s)
      PROVE  Promise!Next \/ UNCHANGED Promise!vars
  <2>1. row' = [row EXCEPT ![s] = http[s]] /\ UNCHANGED order /\ http[s] \in Answers
    BY <1>13 DEF Answered, Finish, TypeOK, CallInv, RequestInv, OrderInv, Signals,
       storeVars, serverVars, coreVars
  <2>2. Told(s) = None
    BY <1>13 DEF Answered, Finish, TypeOK, CallInv, RequestInv, OrderInv, Signals,
       storeVars, serverVars, coreVars, Told
  <2>3. CASE http[s] = "SUBMITTED"
    <3>1. Told(s)' = "SUBMITTED" /\ order[s] = "placed"
      BY <2>1, <2>3 DEF TypeOK, CallInv, RequestInv, OrderInv, Signals, storeVars,
         serverVars, coreVars, Told
    <3> QED
      BY <2>1, <2>2, <2>3, <3>1, Settled DEF Rows, Promise!Verdicts
  <2>4. CASE http[s] = "BLOCKED"
    <3>1. Told(s)' = "NOT_SUBMITTED" /\ order[s] # "placed"
      BY <2>1, <2>4 DEF TypeOK, CallInv, RequestInv, OrderInv, Signals, storeVars,
         serverVars, coreVars, Told
    <3> QED
      BY <2>1, <2>2, <2>4, <3>1, Settled DEF Rows, Promise!Verdicts
  <2>5. CASE http[s] = "SUBMISSION_UNKNOWN"
    <3>1. Told(s)' = "UNKNOWN"
      BY <2>1, <2>5 DEF TypeOK, CallInv, RequestInv, OrderInv, Signals, storeVars,
         serverVars, coreVars, Told
    <3> QED
      BY <2>1, <2>2, <2>5, <3>1, Settled DEF Rows, Promise!Verdicts
  <2> QED
    BY <2>1, <2>3, <2>4, <2>5 DEF Answers
<1>14. ASSUME NEW s \in Signals, CallFails(s)
      PROVE  Promise!Next \/ UNCHANGED Promise!vars
  <2>1. row' = [row EXCEPT ![s] = "SUBMISSION_UNKNOWN"] /\ UNCHANGED order
    BY <1>14 DEF CallFails, Finish, FailureStatus, Unheard, TypeOK, CallInv, RequestInv,
       OrderInv, Signals, storeVars, serverVars, coreVars
  <2>2. Told(s) = None /\ Told(s)' = "UNKNOWN"
    BY <1>14, <2>1 DEF CallFails, Finish, FailureStatus, Unheard, TypeOK, CallInv,
       RequestInv, OrderInv, Signals, storeVars, serverVars, coreVars, Told
  <2> QED
    BY <2>1, <2>2, Settled DEF Rows, Promise!Verdicts, TypeOK
<1>15. ASSUME NEW s \in Signals, CoreRejects(s)
      PROVE  Promise!Next \/ UNCHANGED Promise!vars
  BY <1>15, Unnoticed DEF CoreRejects, Answer, TypeOK, CallInv, RequestInv, OrderInv,
     Signals, storeVars, serverVars, coreVars, Told
<1>16. ASSUME NEW s \in Signals, CoreClaims(s)
      PROVE  Promise!Next \/ UNCHANGED Promise!vars
  BY <1>16, Unnoticed DEF CoreClaims, Answer, TypeOK, CallInv, RequestInv, OrderInv,
     Signals, storeVars, serverVars, coreVars, Told
<1>17. ASSUME NEW s \in Signals, CorePlaces(s)
      PROVE  Promise!Next \/ UNCHANGED Promise!vars
  BY <1>17, Unnoticed DEF CorePlaces, TypeOK, CallInv, RequestInv, OrderInv, Signals,
     storeVars, serverVars, coreVars, Told
<1>18. ASSUME NEW s \in Signals, CoreFinishes(s)
      PROVE  Promise!Next \/ UNCHANGED Promise!vars
  BY <1>18, Unnoticed DEF CoreFinishes, Answer, TypeOK, CallInv, RequestInv, OrderInv,
     Signals, storeVars, serverVars, coreVars, Told
<1>19. ASSUME NEW s \in Signals, BrokerAnswers(s)
      PROVE  Promise!Next \/ UNCHANGED Promise!vars
  <2>1. UNCHANGED row /\ order[s] = "sent" /\ \A x \in Signals : Told(x)' = Told(x)
    BY <1>19 DEF BrokerAnswers, TypeOK, CallInv, RequestInv, OrderInv, Signals,
       storeVars, serverVars, coreVars, Told
  <2>2. CASE order' = [order EXCEPT ![s] = "placed"]
    <3> DEFINE orders0 == [x \in Signals |-> IF order[x] = "placed" THEN 1 ELSE 0]
    <3>1. orders0' = [orders0 EXCEPT ![s] = 1]
      BY <2>1, <2>2 DEF TypeOK
    <3>2. Told(s) \in {None, "UNKNOWN"}
      BY <2>1 DEF OrderInv, Told
    <3>3. Promise!Order(s)
      BY <2>1, <3>1, <3>2 DEF Promise!Order
    <3> QED
      BY <3>3 DEF Promise!Next
  <2>3. CASE order' = [order EXCEPT ![s] = "refused"]
    BY <2>1, <2>3, Unnoticed DEF TypeOK
  <2> QED
    BY <1>19, <2>2, <2>3 DEF BrokerAnswers
<1>20. CASE ServerDies
  BY <1>20, Unnoticed DEF ServerDies, Unheard, TypeOK, CallInv, RequestInv, OrderInv,
     Signals, storeVars, serverVars, coreVars, Told
<1>21. CASE ServerStarts
  <2> DEFINE S == {s \in Signals : row[s] = "PROCESSING"}
  <2>1. UNCHANGED order /\ row' = [s \in Signals |-> Recovered(row[s])]
    BY <1>21 DEF ServerStarts, coreVars
  <2>2. \A s \in S : Told(s) = None
    BY DEF Told
  <2>3. \A s \in Signals : Told(s)' = IF s \in S THEN "UNKNOWN" ELSE Told(s)
    BY <2>1 DEF Told, Recovered
  <2>4. Promise!TellUnknown(S)
    BY <2>1, <2>2, <2>3 DEF Promise!TellUnknown
  <2> QED
    BY <2>4 DEF Promise!Next
<1>22. CASE CoreDies
  BY <1>22, Unnoticed DEF CoreDies, TypeOK, CallInv, RequestInv, OrderInv, Signals,
     storeVars, serverVars, coreVars, Told
<1>23. CASE CoreStarts
  BY <1>23, Unnoticed DEF CoreStarts, TypeOK, CallInv, RequestInv, OrderInv, Signals,
     storeVars, serverVars, coreVars, Told
<1>24. CASE UNCHANGED vars
  BY <1>24, Unnoticed DEF vars, TypeOK, CallInv, RequestInv, OrderInv, Signals,
     storeVars, serverVars, coreVars, Told
<1> QED
  BY <1>1, <1>2, <1>3, <1>4, <1>5, <1>6, <1>7, <1>8, <1>9, <1>10, <1>11, <1>12, <1>13,
     <1>14, <1>15, <1>16, <1>17, <1>18, <1>19, <1>20, <1>21, <1>22, <1>23, <1>24
  DEF Next, Operator, Drain, CallSteps, CoreSteps

\* For every set of alerts and operator requests: a signal leads to at most one
\* order, and what the store says of it in the end is true and stays true.
THEOREM ImplementsOneOrder == Spec => KeepsPromise
<1> QED
  BY PromiseInit, PromiseStep, Invariance, PTL DEF Spec, KeepsPromise, Promise!Spec
=============================================================================
