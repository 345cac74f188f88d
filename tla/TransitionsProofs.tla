-------------------------- MODULE TransitionsProofs --------------------------
(***************************************************************************)
(* Safety of management transitions, for any levels, policy and prices.    *)
(*                                                                         *)
(* Four layers, each inductive relative to the ones before:                *)
(*   TypeInv    types, and what the sweep holds at each of its steps       *)
(*   StatusInv  the two ledgers agree with the sweep and with each other   *)
(*   PriceInv   triggers: resting, confirmed, intended and on the way      *)
(*   ReachInv   what a transition in progress has still to reach           *)
(***************************************************************************)
EXTENDS Transitions, TLAPS, SequenceTheorems

Modifying == {"modify", "evidenced", "awaiting"}

SweepHolds ==
  /\ spc # "idle" => proc = "up" /\ idx \in 1..Len(Policy)
  /\ spc \in {"evidenced", "awaiting"} =>
       todo # {} /\ mod[Leg] = "MODIFYING" /\ pend[Leg] = target
  /\ spc \in Modifying \cup {"priced"} => target \in Triggers

TypeInv == TypeOK /\ SweepHolds

\* A modify in progress or in doubt shows in the row of its transition, which is
\* never opened again once it has called the broker.
StatusInv ==
  /\ spc = "priced" => tr[After] = "PENDING"
  /\ spc \in Modifying => tr[After] = "APPLYING"
  /\ \A l \in Levels :
       /\ mod[l] = "MODIFYING" =>
            IF proc = "up" THEN spc \in {"evidenced", "awaiting"} /\ l = Leg
            ELSE \E k \in Levels : tr[k] = "APPLYING"
       /\ mod[l] = "MODIFY_UNKNOWN" => \E k \in Levels : tr[k] = "FAILED_UNKNOWN"
       /\ calls[l] # {} => tr[l] \in {"APPLYING", "APPLIED", "FAILED_UNKNOWN"}
  /\ spc \in {"modify", "evidenced"} => todo \cap calls[After] = {}
  /\ spc = "awaiting" => (todo \ {Leg}) \cap calls[After] = {}

\* A request on the way never lowers a trigger, and what it will raise is either
\* confirmed already or on record as intended.
PriceInv ==
  /\ \A l \in Levels :
       /\ wire[l] # None =>
            /\ wire[l] >= resting[l]
            /\ wire[l] <= trig[l] \/ (mod[l] # None /\ pend[l] = wire[l])
       /\ resting[l] > trig[l] => mod[l] # None /\ resting[l] = pend[l]
  /\ spc \in {"modify", "evidenced"} => \A l \in todo : wire[l] = None
  /\ spc = "awaiting" => \A l \in todo \ {Leg} : wire[l] = None
  /\ spc \in {"evidenced", "awaiting"} => target > trig[Leg]
  /\ spc = "evidenced" => resting[Leg] <= trig[Leg]
  /\ spc = "awaiting" /\ (wire[Leg] # None \/ ack = "error") => resting[Leg] <= trig[Leg]
  /\ spc = "awaiting" /\ ack = "error" => wire[Leg] = None

ReachInv ==
  spc \in Modifying =>
    \A g \in Eligible(After) : g \in todo \/ trig[g] >= target \/ g \in refused

-----------------------------------------------------------------------------
LEMMA FirstIn ==
  ASSUME NEW S, S # {}
  PROVE  FirstOf(S) \in S
  BY DEF FirstOf

LEMMA AfterIn ==
  ASSUME spc # "idle", SweepHolds
  PROVE  After \in Levels /\ Policy[idx].action \in Actions
<1>1. Policy[idx] \in [after : Levels, action : Actions]
  BY PolicyAssumption, ElementOfSeq DEF SweepHolds
<1> QED
  BY <1>1 DEF After

-----------------------------------------------------------------------------
(* The first layer. *)

LEMMA TypeInit == Init => TypeInv
<1> SUFFICES ASSUME Init
             PROVE  TypeInv
  OBVIOUS
<1> USE DEF Init
<1>1. /\ tr \in [Levels -> TransitionStatuses]
      /\ tp \in [Levels -> LegStatuses] /\ st \in [Levels -> LegStatuses]
  BY PlacementAssumption DEF TransitionStatuses, LegStatuses
<1>2. /\ trig \in [Levels -> Triggers] /\ pend \in [Levels -> Triggers \cup {None}]
      /\ resting \in [Levels -> Triggers] /\ wire \in [Levels -> Triggers \cup {None}]
  BY PriceAssumption DEF Triggers
<1>3. tpOrder \in [Levels -> OrderStates] /\ stOrder \in [Levels -> OrderStates]
  BY DEF OrderStates
<1>4. idx \in 1..(Len(Policy) + 1)
  BY PolicyAssumption
<1> QED
  BY <1>1, <1>2, <1>3, <1>4 DEF TypeInv, TypeOK, SweepHolds, Modifying, SweepSteps

\* Every action keeps the types and what the sweep holds.
LEMMA TypeStep == TypeInv /\ [Next]_vars => TypeInv'
<1> SUFFICES ASSUME TypeInv, [Next]_vars
             PROVE  TypeInv'
  OBVIOUS
<1> USE PolicyAssumption DEF TypeInv, TypeOK, SweepHolds, Modifying, TransitionStatuses,
    LegStatuses, OrderStates, SweepSteps, rowVars, seenVars, sweepVars, brokerVars
<1>1. CASE ReconcileLegs
  BY <1>1 DEF ReconcileLegs, Reconciled
<1>2. CASE SkipTransition
  BY <1>2 DEF SkipTransition, NextTransition
<1>3. CASE MarkInert
  BY <1>3, AfterIn DEF MarkInert, NextTransition, Open
<1>4. ASSUME NEW l \in Levels, PricingFails(l)
      PROVE  TypeInv'
  BY <1>4 DEF PricingFails, Triggered, Open, NextTransition
<1>5. CASE PriceTransition
  BY <1>5, AfterIn, PriceAssumption DEF PriceTransition, Triggered, Open, NewTriggers,
     Triggers
<1>6. CASE MarkApplying
  BY <1>6, AfterIn DEF MarkApplying, Eligible
<1>7. CASE WorkingOrdersTimeOut
  BY <1>7 DEF WorkingOrdersTimeOut
<1>8. CASE RatchetNoOp
  BY <1>8, FirstIn DEF RatchetNoOp, LegDone, Improves, Leg
<1>9. CASE RecordModifyEvidence
  BY <1>9, FirstIn DEF RecordModifyEvidence, Improves, Leg
<1>10. CASE SendModify
  BY <1>10, FirstIn, AfterIn DEF SendModify, Leg
<1>11. CASE Modified
  BY <1>11, FirstIn DEF Modified, LegDone, Leg
<1>12. CASE ModifyRejected
  BY <1>12, FirstIn DEF ModifyRejected, AfterRefusal, LegDone, Leg
<1>13. CASE ModifyAmbiguous
  BY <1>13, FirstIn, AfterIn DEF ModifyAmbiguous, InDoubt, AmbiguityOutcome,
     NextTransition, Leg
<1>14. CASE MarkApplied
  BY <1>14, AfterIn DEF MarkApplied, NextTransition
<1>15. ASSUME NEW l \in Levels, ExecDetails(l)
      PROVE  TypeInv'
  BY <1>15 DEF ExecDetails, Leg
<1>16. CASE RepeatedStatus
  BY <1>16 DEF RepeatedStatus, Leg
<1>17. CASE ConnectionChanges
  BY <1>17 DEF ConnectionChanges, Leg
<1>18. CASE Crash
  <2>1. 1 \in 1..(Len(Policy) + 1)
    OBVIOUS
  <2> QED
    BY <1>18, <2>1 DEF Crash
<1>19. CASE Restart
  BY <1>19 DEF Restart, SweptTransition
<1>20. ASSUME NEW l \in Levels, TakeProfitFills(l)
      PROVE  TypeInv'
  BY <1>20 DEF TakeProfitFills, Leg
<1>21. ASSUME NEW l \in Levels, StopFills(l)
      PROVE  TypeInv'
  BY <1>21 DEF StopFills, Leg
<1>22. ASSUME NEW l \in Levels, StopCancelled(l)
      PROVE  TypeInv'
  BY <1>22 DEF StopCancelled, Leg
<1>23. ASSUME NEW l \in Levels, BrokerModifies(l)
      PROVE  TypeInv'
  BY <1>23 DEF BrokerModifies, Awaited, Leg
<1>24. ASSUME NEW l \in Levels, BrokerRefusesModify(l)
      PROVE  TypeInv'
  BY <1>24 DEF BrokerRefusesModify, Awaited, Leg
<1>25. ASSUME NEW l \in Levels, ModifyLost(l)
      PROVE  TypeInv'
  BY <1>25 DEF ModifyLost, Leg
<1>26. CASE UNCHANGED vars
  BY <1>26 DEF vars, Leg
<1> QED
  BY <1>1, <1>2, <1>3, <1>4, <1>5, <1>6, <1>7, <1>8, <1>9, <1>10, <1>11, <1>12, <1>13,
     <1>14, <1>15, <1>16, <1>17, <1>18, <1>19, <1>20, <1>21, <1>22, <1>23, <1>24, <1>25,
     <1>26
  DEF Next, Sweep, Reader, Process, Broker

-----------------------------------------------------------------------------
(* The second layer. *)

LEMMA StatusInit == Init => StatusInv
  BY NoneAssumption DEF Init, StatusInv, Modifying

\* Every action keeps the two ledgers in agreement.
LEMMA StatusStep == TypeInv /\ StatusInv /\ [Next]_vars => StatusInv'
<1> SUFFICES ASSUME TypeInv, StatusInv, [Next]_vars
             PROVE  StatusInv'
  OBVIOUS
<1> USE DEF StatusInv, TypeInv, TypeOK, SweepHolds, Modifying, TransitionStatuses,
            After, Leg, rowVars, seenVars, sweepVars, brokerVars
<1>1. CASE ReconcileLegs
  BY <1>1, FirstIn, AfterIn DEF ReconcileLegs
<1>2. CASE SkipTransition
  BY <1>2, FirstIn, AfterIn DEF SkipTransition, NextTransition
<1>3. CASE MarkInert
  BY <1>3, FirstIn, AfterIn DEF MarkInert, NextTransition, Open
<1>4. ASSUME NEW l \in Levels, PricingFails(l)
      PROVE  StatusInv'
  BY <1>4, FirstIn, AfterIn DEF PricingFails, Triggered, Open, NextTransition
<1>5. CASE PriceTransition
  BY <1>5, FirstIn, AfterIn DEF PriceTransition, Triggered, Open
<1>6. CASE MarkApplying
  BY <1>6, FirstIn, AfterIn DEF MarkApplying
<1>7. CASE WorkingOrdersTimeOut
  BY <1>7, FirstIn, AfterIn DEF WorkingOrdersTimeOut
<1>8. CASE RatchetNoOp
  BY <1>8, FirstIn, AfterIn DEF RatchetNoOp, LegDone, Improves
<1>9. CASE RecordModifyEvidence
  BY <1>9, FirstIn, AfterIn DEF RecordModifyEvidence, Improves
<1>10. CASE SendModify
  <2>1. After \in Levels /\ Leg \in todo /\ Leg \in Levels
    BY <1>10, FirstIn, AfterIn DEF SendModify
  <2>2. /\ UNCHANGED <<tr, mod, proc, todo, idx>>
        /\ spc = "evidenced" /\ spc' = "awaiting"
        /\ calls' = [calls EXCEPT ![After] = calls[After] \cup {Leg}]
    BY <1>10 DEF SendModify
  <2>3. (todo' \ {Leg'}) \cap calls'[After'] = {}
    BY <2>1, <2>2
  <2>4. \A l \in Levels :
          calls'[l] # {} => tr'[l] \in {"APPLYING", "APPLIED", "FAILED_UNKNOWN"}
    BY <2>1, <2>2
  <2> QED
    BY <2>1, <2>2, <2>3, <2>4
<1>11. CASE Modified
  BY <1>11, FirstIn, AfterIn, NoneAssumption DEF Modified, LegDone
<1>12. CASE ModifyRejected
  BY <1>12, FirstIn, AfterIn, NoneAssumption DEF ModifyRejected, AfterRefusal, LegDone
<1>13. CASE ModifyAmbiguous
  BY <1>13, FirstIn, AfterIn DEF ModifyAmbiguous, InDoubt, AmbiguityOutcome,
     NextTransition
<1>14. CASE MarkApplied
  BY <1>14, FirstIn, AfterIn DEF MarkApplied, NextTransition
<1>15. ASSUME NEW l \in Levels, ExecDetails(l)
      PROVE  StatusInv'
  BY <1>15, FirstIn, AfterIn DEF ExecDetails
<1>16. CASE RepeatedStatus
  BY <1>16, FirstIn, AfterIn DEF RepeatedStatus
<1>17. CASE ConnectionChanges
  BY <1>17, FirstIn, AfterIn DEF ConnectionChanges
<1>18. CASE Crash
  BY <1>18, FirstIn, AfterIn DEF Crash
<1>19. CASE Restart
  BY <1>19, FirstIn, AfterIn DEF Restart, SweptTransition
<1>20. ASSUME NEW l \in Levels, TakeProfitFills(l)
      PROVE  StatusInv'
  BY <1>20, FirstIn, AfterIn DEF TakeProfitFills
<1>21. ASSUME NEW l \in Levels, StopFills(l)
      PROVE  StatusInv'
  BY <1>21, FirstIn, AfterIn DEF StopFills
<1>22. ASSUME NEW l \in Levels, StopCancelled(l)
      PROVE  StatusInv'
  BY <1>22, FirstIn, AfterIn DEF StopCancelled
<1>23. ASSUME NEW l \in Levels, BrokerModifies(l)
      PROVE  StatusInv'
  BY <1>23, FirstIn, AfterIn DEF BrokerModifies, Awaited
<1>24. ASSUME NEW l \in Levels, BrokerRefusesModify(l)
      PROVE  StatusInv'
  BY <1>24, FirstIn, AfterIn DEF BrokerRefusesModify, Awaited
<1>25. ASSUME NEW l \in Levels, ModifyLost(l)
      PROVE  StatusInv'
  BY <1>25, FirstIn, AfterIn DEF ModifyLost
<1>26. CASE UNCHANGED vars
  BY <1>26, FirstIn, AfterIn DEF vars
<1> QED
  BY <1>1, <1>2, <1>3, <1>4, <1>5, <1>6, <1>7, <1>8, <1>9, <1>10, <1>11, <1>12, <1>13,
     <1>14, <1>15, <1>16, <1>17, <1>18, <1>19, <1>20, <1>21, <1>22, <1>23, <1>24, <1>25,
     <1>26
  DEF Next, Sweep, Reader, Process, Broker

-----------------------------------------------------------------------------
(* The third layer. *)

LEMMA PriceInit == Init => PriceInv
  BY NoneAssumption, PriceAssumption DEF Init, PriceInv

\* Every action keeps the triggers in line.
LEMMA PriceStep == TypeInv /\ StatusInv /\ PriceInv /\ [Next]_vars => PriceInv'
<1> SUFFICES ASSUME TypeInv, StatusInv, PriceInv, [Next]_vars
             PROVE  PriceInv'
  OBVIOUS
<1> USE DEF PriceInv, StatusInv, TypeInv, TypeOK, SweepHolds, Modifying, Triggers, Leg,
            rowVars, seenVars, sweepVars, brokerVars
<1>1. CASE ReconcileLegs
  BY <1>1, FirstIn, AfterIn, NoneAssumption, PriceAssumption DEF ReconcileLegs
<1>2. CASE SkipTransition
  BY <1>2, FirstIn, AfterIn, NoneAssumption, PriceAssumption DEF SkipTransition,
     NextTransition
<1>3. CASE MarkInert
  BY <1>3, FirstIn, AfterIn, NoneAssumption, PriceAssumption DEF MarkInert,
     NextTransition, Open
<1>4. ASSUME NEW l \in Levels, PricingFails(l)
      PROVE  PriceInv'
  BY <1>4, FirstIn, AfterIn, NoneAssumption, PriceAssumption DEF PricingFails,
     Triggered, Open, NextTransition
<1>5. CASE PriceTransition
  BY <1>5, FirstIn, AfterIn, NoneAssumption, PriceAssumption DEF PriceTransition,
     Triggered, Open
<1>6. CASE MarkApplying
  BY <1>6, FirstIn, AfterIn, NoneAssumption, PriceAssumption DEF MarkApplying, Eligible
<1>7. CASE WorkingOrdersTimeOut
  BY <1>7, FirstIn, AfterIn, NoneAssumption, PriceAssumption DEF WorkingOrdersTimeOut
<1>8. CASE RatchetNoOp
  BY <1>8, FirstIn, AfterIn, NoneAssumption, PriceAssumption DEF RatchetNoOp, LegDone,
     Improves
<1>9. CASE RecordModifyEvidence
  BY <1>9, FirstIn, AfterIn, NoneAssumption, PriceAssumption DEF RecordModifyEvidence,
     Improves
<1>10. CASE SendModify
  BY <1>10, FirstIn, AfterIn, NoneAssumption, PriceAssumption DEF SendModify
<1>11. CASE Modified
  BY <1>11, FirstIn, AfterIn, NoneAssumption, PriceAssumption DEF Modified, LegDone
<1>12. CASE ModifyRejected
  BY <1>12, FirstIn, AfterIn, NoneAssumption, PriceAssumption DEF ModifyRejected,
     AfterRefusal, LegDone
<1>13. CASE ModifyAmbiguous
  BY <1>13, FirstIn, AfterIn, NoneAssumption, PriceAssumption DEF ModifyAmbiguous,
     InDoubt, AmbiguityOutcome, NextTransition
<1>14. CASE MarkApplied
  BY <1>14, FirstIn, AfterIn, NoneAssumption, PriceAssumption DEF MarkApplied,
     NextTransition
<1>15. ASSUME NEW l \in Levels, ExecDetails(l)
      PROVE  PriceInv'
  BY <1>15, FirstIn, AfterIn, NoneAssumption, PriceAssumption DEF ExecDetails
<1>16. CASE RepeatedStatus
  BY <1>16, FirstIn, AfterIn, NoneAssumption, PriceAssumption DEF RepeatedStatus
<1>17. CASE ConnectionChanges
  BY <1>17, FirstIn, AfterIn, NoneAssumption, PriceAssumption DEF ConnectionChanges
<1>18. CASE Crash
  BY <1>18, FirstIn, AfterIn, NoneAssumption, PriceAssumption DEF Crash
<1>19. CASE Restart
  BY <1>19, FirstIn, AfterIn, NoneAssumption, PriceAssumption DEF Restart,
     SweptTransition
<1>20. ASSUME NEW l \in Levels, TakeProfitFills(l)
      PROVE  PriceInv'
  BY <1>20, FirstIn, AfterIn, NoneAssumption, PriceAssumption DEF TakeProfitFills
<1>21. ASSUME NEW l \in Levels, StopFills(l)
      PROVE  PriceInv'
  BY <1>21, FirstIn, AfterIn, NoneAssumption, PriceAssumption DEF StopFills
<1>22. ASSUME NEW l \in Levels, StopCancelled(l)
      PROVE  PriceInv'
  BY <1>22, FirstIn, AfterIn, NoneAssumption, PriceAssumption DEF StopCancelled
<1>23. ASSUME NEW l \in Levels, BrokerModifies(l)
      PROVE  PriceInv'
  BY <1>23, FirstIn, AfterIn, NoneAssumption, PriceAssumption DEF BrokerModifies,
     Awaited
<1>24. ASSUME NEW l \in Levels, BrokerRefusesModify(l)
      PROVE  PriceInv'
  BY <1>24, FirstIn, AfterIn, NoneAssumption, PriceAssumption DEF BrokerRefusesModify,
     Awaited
<1>25. ASSUME NEW l \in Levels, ModifyLost(l)
      PROVE  PriceInv'
  BY <1>25, FirstIn, AfterIn, NoneAssumption, PriceAssumption DEF ModifyLost
<1>26. CASE UNCHANGED vars
  BY <1>26, FirstIn, AfterIn, NoneAssumption, PriceAssumption DEF vars
<1> QED
  BY <1>1, <1>2, <1>3, <1>4, <1>5, <1>6, <1>7, <1>8, <1>9, <1>10, <1>11, <1>12, <1>13,
     <1>14, <1>15, <1>16, <1>17, <1>18, <1>19, <1>20, <1>21, <1>22, <1>23, <1>24, <1>25,
     <1>26
  DEF Next, Sweep, Reader, Process, Broker

-----------------------------------------------------------------------------
(* The fourth layer. *)

LEMMA ReachInit == Init => ReachInv
  BY DEF Init, ReachInv, Modifying

\* Every action keeps what the transition has still to reach.
LEMMA ReachStep == TypeInv /\ ReachInv /\ [Next]_vars => ReachInv'
<1> SUFFICES ASSUME TypeInv, ReachInv, [Next]_vars
             PROVE  ReachInv'
  OBVIOUS
<1> USE DEF ReachInv, TypeInv, TypeOK, SweepHolds, Modifying, Triggers, Eligible, After,
            Leg, rowVars, seenVars, sweepVars, brokerVars
<1>1. CASE ReconcileLegs
  BY <1>1, FirstIn, AfterIn DEF ReconcileLegs
<1>2. CASE SkipTransition
  BY <1>2, FirstIn, AfterIn DEF SkipTransition, NextTransition
<1>3. CASE MarkInert
  BY <1>3, FirstIn, AfterIn DEF MarkInert, NextTransition, Open
<1>4. ASSUME NEW l \in Levels, PricingFails(l)
      PROVE  ReachInv'
  BY <1>4, FirstIn, AfterIn DEF PricingFails, Triggered, Open, NextTransition
<1>5. CASE PriceTransition
  BY <1>5, FirstIn, AfterIn DEF PriceTransition, Triggered, Open
<1>6. CASE MarkApplying
  BY <1>6, FirstIn, AfterIn DEF MarkApplying
<1>7. CASE WorkingOrdersTimeOut
  BY <1>7, FirstIn, AfterIn DEF WorkingOrdersTimeOut
<1>8. CASE RatchetNoOp
  BY <1>8, FirstIn, AfterIn DEF RatchetNoOp, LegDone, Improves
<1>9. CASE RecordModifyEvidence
  BY <1>9, FirstIn, AfterIn DEF RecordModifyEvidence, Improves
<1>10. CASE SendModify
  BY <1>10, FirstIn, AfterIn DEF SendModify
<1>11. CASE Modified
  BY <1>11, FirstIn, AfterIn DEF Modified, LegDone
<1>12. CASE ModifyRejected
  BY <1>12, FirstIn, AfterIn DEF ModifyRejected, AfterRefusal, LegDone
<1>13. CASE ModifyAmbiguous
  BY <1>13, FirstIn, AfterIn DEF ModifyAmbiguous, InDoubt, AmbiguityOutcome,
     NextTransition
<1>14. CASE MarkApplied
  BY <1>14, FirstIn, AfterIn DEF MarkApplied, NextTransition
<1>15. ASSUME NEW l \in Levels, ExecDetails(l)
      PROVE  ReachInv'
  BY <1>15, FirstIn, AfterIn DEF ExecDetails
<1>16. CASE RepeatedStatus
  BY <1>16, FirstIn, AfterIn DEF RepeatedStatus
<1>17. CASE ConnectionChanges
  BY <1>17, FirstIn, AfterIn DEF ConnectionChanges
<1>18. CASE Crash
  BY <1>18, FirstIn, AfterIn DEF Crash
<1>19. CASE Restart
  BY <1>19, FirstIn, AfterIn DEF Restart, SweptTransition
<1>20. ASSUME NEW l \in Levels, TakeProfitFills(l)
      PROVE  ReachInv'
  BY <1>20, FirstIn, AfterIn DEF TakeProfitFills
<1>21. ASSUME NEW l \in Levels, StopFills(l)
      PROVE  ReachInv'
  BY <1>21, FirstIn, AfterIn DEF StopFills
<1>22. ASSUME NEW l \in Levels, StopCancelled(l)
      PROVE  ReachInv'
  BY <1>22, FirstIn, AfterIn DEF StopCancelled
<1>23. ASSUME NEW l \in Levels, BrokerModifies(l)
      PROVE  ReachInv'
  BY <1>23, FirstIn, AfterIn DEF BrokerModifies, Awaited
<1>24. ASSUME NEW l \in Levels, BrokerRefusesModify(l)
      PROVE  ReachInv'
  BY <1>24, FirstIn, AfterIn DEF BrokerRefusesModify, Awaited
<1>25. ASSUME NEW l \in Levels, ModifyLost(l)
      PROVE  ReachInv'
  BY <1>25, FirstIn, AfterIn DEF ModifyLost
<1>26. CASE UNCHANGED vars
  BY <1>26, FirstIn, AfterIn DEF vars
<1> QED
  BY <1>1, <1>2, <1>3, <1>4, <1>5, <1>6, <1>7, <1>8, <1>9, <1>10, <1>11, <1>12, <1>13,
     <1>14, <1>15, <1>16, <1>17, <1>18, <1>19, <1>20, <1>21, <1>22, <1>23, <1>24, <1>25,
     <1>26
  DEF Next, Sweep, Reader, Process, Broker

-----------------------------------------------------------------------------
(* What follows of every behaviour. *)

Inv == TypeInv /\ StatusInv /\ PriceInv /\ ReachInv

LEMMA Invariance == Spec => []Inv
<1>1. Init => Inv
  BY TypeInit, StatusInit, PriceInit, ReachInit DEF Inv
<1>2. Inv /\ [Next]_vars => Inv'
  BY TypeStep, StatusStep, PriceStep, ReachStep DEF Inv
<1> QED
  BY <1>1, <1>2, PTL DEF Spec

\* Every variable of the sweep, the ledgers and the broker stays in its set.
THEOREM TypeCorrect == Spec => []TypeOK
<1>1. Inv => TypeOK
  BY DEF Inv, TypeInv
<1> QED
  BY <1>1, Invariance, PTL

\* A modify left in doubt in one ledger is surfaced as a transition left in doubt
\* in the other, whatever crashes fall between the two writes.
THEOREM InDoubtSurfaced == Spec => []DoubtSurfaced
<1>1. Inv => DoubtSurfaced
  BY DEF Inv, StatusInv, DoubtSurfaced
<1> QED
  BY <1>1, Invariance, PTL

\* A stop that rests higher than its confirmed trigger has the modify on record.
THEOREM HigherOnRecord == Spec => []HigherTriggerInDoubt
<1>1. Inv => HigherTriggerInDoubt
  BY DEF Inv, PriceInv, HigherTriggerInDoubt
<1> QED
  BY <1>1, Invariance, PTL

\* No step of the broker lowers the trigger a stop rests at, whatever modify
\* requests are lost, late or answered by a status meant for another.
THEOREM NeverLoosened == Spec => RatchetOnly
<1> DEFINE Ratchet == \A l \in Levels : resting'[l] >= resting[l]
<1>1. Inv /\ [Next]_vars => [Ratchet]_vars
  <2> SUFFICES ASSUME Inv, Next, ~UNCHANGED vars
               PROVE  Ratchet
    OBVIOUS
  <2> USE DEF Inv, TypeInv, TypeOK, Triggers, rowVars, seenVars, sweepVars, brokerVars
  <2>1. ASSUME NEW l \in Levels, BrokerModifies(l)
        PROVE  Ratchet
    BY <2>1, NoneAssumption, PriceAssumption DEF BrokerModifies, PriceInv
  <2>2. ASSUME UNCHANGED resting
        PROVE  Ratchet
    BY <2>2, PriceAssumption
  <2>3. (\E l \in Levels : BrokerModifies(l)) \/ UNCHANGED resting
    <3>1. Sweep => UNCHANGED resting
      BY DEF Sweep, ReconcileLegs, SkipTransition, MarkInert, PricingFails,
         PriceTransition,
        MarkApplying, WorkingOrdersTimeOut, RatchetNoOp, RecordModifyEvidence,
            SendModify,
        Modified, ModifyRejected, ModifyAmbiguous, MarkApplied
    <3>2. Reader \/ Process => UNCHANGED resting
      BY DEF Reader, Process, ExecDetails, RepeatedStatus, ConnectionChanges, Crash,
         Restart
    <3>3. Broker => (\E l \in Levels : BrokerModifies(l)) \/ UNCHANGED resting
      BY DEF Broker, TakeProfitFills, StopFills, StopCancelled, BrokerRefusesModify,
         ModifyLost
    <3> QED
      BY <3>1, <3>2, <3>3 DEF Next
  <2> QED
    BY <2>1, <2>2, <2>3
<1> QED
  BY <1>1, Invariance, PTL DEF Spec, RatchetOnly

\* No transition calls the broker twice for one stop.
THEOREM CalledOnce == Spec => OneCallPerLeg
<1> DEFINE Fresh == spc = "evidenced" /\ spc' = "awaiting" => Leg \notin calls[After]
<1>1. Inv => Fresh
  BY FirstIn DEF Inv, TypeInv, SweepHolds, StatusInv, Leg
<1> QED
  BY <1>1, Invariance, PTL DEF Spec, OneCallPerLeg

\* A transition is applied only when every stop it could reach has been raised to
\* its trigger or refused for good.
THEOREM AppliedReaches == Spec => AppliedReachesEveryStop
<1> DEFINE Reached ==
      \A l \in Levels :
        tr[l] # "APPLIED" /\ tr'[l] = "APPLIED" =>
          \A g \in Eligible(l) : trig[g] >= target \/ g \in refused
<1>1. Inv /\ [Next]_vars => [Reached]_vars
  <2> SUFFICES ASSUME Inv, Next,
                      NEW l \in Levels, tr[l] # "APPLIED", tr'[l] = "APPLIED"
               PROVE  \A g \in Eligible(l) : trig[g] >= target \/ g \in refused
    OBVIOUS
  <2>1. MarkApplied /\ l = After
    <3> USE DEF Inv, TypeInv, TypeOK, rowVars, seenVars, sweepVars, brokerVars
    <3>1. Sweep => MarkApplied /\ l = After
      BY DEF Sweep, ReconcileLegs, SkipTransition, MarkInert, PricingFails,
         PriceTransition,
        MarkApplying, WorkingOrdersTimeOut, RatchetNoOp, RecordModifyEvidence,
            SendModify,
        Modified, ModifyRejected, ModifyAmbiguous, MarkApplied, AmbiguityOutcome
    <3>2. ~Reader /\ ~Process
      BY DEF Reader, Process, ExecDetails, RepeatedStatus, ConnectionChanges, Crash,
         Restart,
        SweptTransition
    <3>3. ~Broker
      BY DEF Broker, TakeProfitFills, StopFills, StopCancelled, BrokerModifies,
        BrokerRefusesModify, ModifyLost
    <3> QED
      BY <3>1, <3>2, <3>3 DEF Next
  <2> QED
    BY <2>1 DEF Inv, ReachInv, MarkApplied, Modifying
<1> QED
  BY <1>1, Invariance, PTL DEF Spec, AppliedReachesEveryStop
=============================================================================
