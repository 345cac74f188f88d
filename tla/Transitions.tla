----------------------------- MODULE Transitions -----------------------------
(***************************************************************************)
(* Management transitions of one filled entry: once a take-profit level    *)
(* has filled, the stop orders of the other levels are moved to breakeven  *)
(* or behind a fresh bid, each at most once and never down.                *)
(*                                                                         *)
(*   - TransitionLedger   a durable row per transition, keyed by its level *)
(*   - ProtectionLedger   the legs' rows and their modify evidence         *)
(*   - ExecutionEngine    reconcile_protection_legs, ensure_transitions    *)
(*   - OfficialIbapiTransport  placeOrder on a working id, and its answer  *)
(*   - IBKR               external: fills, modifies or refuses             *)
(*                                                                         *)
(* One thread, the periodic sweep, takes the steps, under the engine's     *)
(* lock; the socket reader, the broker and process loss interleave with it.*)
(* Each level holds one contract, so a leg fills at once; prices are ticks.*)
(***************************************************************************)
EXTENDS Integers, Sequences

CONSTANTS
  Levels,       \* take-profit levels, in policy order
  Policy,       \* the transitions of the policy: [after, action] records
  Entry,        \* the entry's average price, on the tick
  StopTrigger,  \* trigger the stop legs were placed with
  MaxTrigger,   \* highest trigger a fresh bid yields
  Placements,   \* what the placement of the stops may have led to, by level
  None

Actions == {"MOVE_STOP_TO_BREAKEVEN", "TRAIL_FRESH_BID"}

ASSUME PolicyAssumption == Policy \in Seq([after : Levels, action : Actions])
ASSUME PriceAssumption ==
  /\ StopTrigger \in Nat /\ Entry \in Nat /\ MaxTrigger \in Nat
  /\ StopTrigger < Entry /\ Entry <= MaxTrigger
ASSUME PlacementAssumption ==
  Placements \subseteq
    [Levels -> {"SUBMITTED", "BLOCKED", "SUBMISSION_UNKNOWN", "SKIPPED_ZERO_ALLOCATION"}]
ASSUME NoneAssumption ==
  /\ None \notin Levels /\ None \notin Nat
  /\ None \notin {"MODIFYING", "MODIFY_UNKNOWN", "status", "error"}

VARIABLES
  tr,             \* TransitionLedger: status of the row of each level
  tp, st,         \* ProtectionLedger: status of the level's two legs
  trig, pend,     \* a stop's last confirmed trigger, and the intended one
  mod,            \* a stop's modify_status
  tpSeen, stSeen, \* ExecutionLedger: the leg has executions stored
  spc, idx,       \* sweep: step, position in Policy
  target,         \* new trigger of the transition in hand
  todo, refused,  \* stops still to modify; those the broker refused to modify
  ack,            \* what the socket reader put in the waiter's _OrderAck
  proc, link,     \* process and socket
  tpOrder, stOrder, \* IBKR: state of each leg's order
  resting,        \* IBKR: the trigger a stop rests at
  wire,           \* trigger of a stop's modify request on the way to IBKR
  calls           \* history: the stops each transition has called modify for

rowVars    == <<tr, tp, st, trig, pend, mod>>
seenVars   == <<tpSeen, stSeen>>
sweepVars  == <<spc, idx, target, todo, refused, ack>>
brokerVars == <<tpOrder, stOrder, resting>>
vars == <<rowVars, seenVars, sweepVars, proc, link, brokerVars, wire, calls>>

TransitionStatuses == {"NONE", "PENDING", "APPLYING", "APPLIED", "INERT", "FAILED_UNKNOWN"}
LegStatuses == {"SUBMITTED", "FILLED", "CANCELLED", "BLOCKED", "SUBMISSION_UNKNOWN",
                "SKIPPED_ZERO_ALLOCATION"}
OrderStates == {"none", "working", "filled", "cancelled"}
Triggers == StopTrigger..MaxTrigger
SweepSteps == {"idle", "level", "priced", "modify", "evidenced", "awaiting"}

\* The sweep has placed the legs: a level without contracts has neither leg, a
\* blocked stop has no order, one in doubt may have one.
Skipped(l) == tp[l] = "SKIPPED_ZERO_ALLOCATION"
StopPlaced(status) ==
  CASE status = "SUBMITTED" -> {"working"}
    [] status = "SUBMISSION_UNKNOWN" -> {"none", "working"}
    [] OTHER -> {"none"}

Init ==
  /\ tr = [l \in Levels |-> "NONE"]
  /\ st \in Placements
  /\ tp = [l \in Levels |->
       IF st[l] = "SKIPPED_ZERO_ALLOCATION" THEN "SKIPPED_ZERO_ALLOCATION" ELSE "SUBMITTED"]
  /\ tpOrder = [l \in Levels |-> IF Skipped(l) THEN "none" ELSE "working"]
  /\ stOrder \in [Levels -> OrderStates]
  /\ \A l \in Levels : stOrder[l] \in StopPlaced(st[l])
  /\ trig = [l \in Levels |-> StopTrigger]
  /\ pend = [l \in Levels |-> None]
  /\ mod = [l \in Levels |-> None]
  /\ tpSeen = [l \in Levels |-> FALSE] /\ stSeen = [l \in Levels |-> FALSE]
  /\ spc = "idle" /\ idx = 1 /\ target = None /\ todo = {} /\ refused = {} /\ ack = None
  /\ proc = "up" /\ link = TRUE
  /\ resting = [l \in Levels |-> StopTrigger]
  /\ wire = [l \in Levels |-> None]
  /\ calls = [l \in Levels |-> {}]

-----------------------------------------------------------------------------
(* The sweep. *)

\* position_state is CLOSED once every contract has been sold.
Closed == \A l \in Levels : Skipped(l) \/ tpSeen[l] \/ stSeen[l]

\* reconcile_protection_legs: FILLED on executions, and the other leg of the
\* level, one OCA group, CANCELLED on the filled one.
Reconciled(status, own, sibling) ==
  IF status # "SUBMITTED" THEN status
  ELSE IF own THEN "FILLED"
  ELSE IF sibling THEN "CANCELLED" ELSE status

ReconcileLegs ==
  /\ proc = "up" /\ spc = "idle"
  /\ tp' = [l \in Levels |->
       Reconciled(tp[l], tpSeen[l], st[l] = "SUBMITTED" /\ stSeen[l])]
  /\ st' = [l \in Levels |->
       Reconciled(st[l], stSeen[l], tp[l] = "SUBMITTED" /\ tpSeen[l])]
  /\ IF Closed \/ Policy = <<>> THEN UNCHANGED <<spc, idx>> ELSE spc' = "level" /\ idx' = 1
  /\ UNCHANGED <<tr, trig, pend, mod, seenVars, target, todo, refused, ack, proc,
                 link, brokerVars, wire, calls>>

After == Policy[idx].after
NextTransition ==
  IF idx < Len(Policy) THEN spc' = "level" /\ idx' = idx + 1 ELSE spc' = "idle" /\ idx' = 1

\* _take_profit_level_confirmed_filled: executions of a placed or filled leg.
ConfirmedFilled(l) == tp[l] \in {"SUBMITTED", "FILLED"} /\ tpSeen[l]
OpenOnce(l) == tr[l] = "NONE"
Open(l) == tr[l] \in {"NONE", "PENDING"}

\* Already in flight, terminal, or not triggered yet.
SkipTransition ==
  /\ spc = "level"
  /\ ~Open(After) \/ (~Skipped(After) /\ ~ConfirmedFilled(After))
  /\ NextTransition
  /\ UNCHANGED <<rowVars, seenVars, target, todo, refused, ack, proc, link,
                 brokerVars, wire, calls>>

\* ensure_pending and mark_inert: the level has no take-profit to wait for.
MarkInert ==
  /\ spc = "level" /\ Open(After) /\ Skipped(After)
  /\ tr' = [tr EXCEPT ![After] = "INERT"]
  /\ NextTransition
  /\ UNCHANGED <<tp, st, trig, pend, mod, seenVars, target, todo, refused, ack,
                 proc, link, brokerVars, wire, calls>>

Triggered == spc = "level" /\ Open(After) /\ ~Skipped(After) /\ ConfirmedFilled(After)

\* ensure_pending, then a rule or quote that blocks (mark_pending_retry, on to
\* the next transition) or a request that fails (the sweep of the entry ends).
PricingFails(l) ==
  /\ Triggered /\ After = l
  /\ tr' = [tr EXCEPT ![l] = "PENDING"]
  /\ NextTransition \/ (spc' = "idle" /\ idx' = 1)
  /\ UNCHANGED <<tp, st, trig, pend, mod, seenVars, target, todo, refused, ack,
                 proc, link, brokerVars, wire, calls>>

\* Breakeven is the entry price; a fresh bid less the distance is any trigger.
NewTriggers == IF Policy[idx].action = "MOVE_STOP_TO_BREAKEVEN" THEN {Entry} ELSE Triggers

PriceTransition ==
  /\ Triggered /\ link
  /\ tr' = [tr EXCEPT ![After] = "PENDING"]
  /\ \E t \in NewTriggers : target' = t
  /\ spc' = "priced"
  /\ UNCHANGED <<tp, st, trig, pend, mod, seenVars, idx, todo, refused, ack, proc,
                 link, brokerVars, wire, calls>>

\* _eligible_stop_legs_for_transition, by rows and by orders resting at IBKR.
Eligible(l) ==
  {g \in Levels \ {l} : st[g] = "SUBMITTED" /\ mod[g] # "MODIFY_UNKNOWN" /\ stOrder[g] = "working"}

\* ... and mark_applying, before any broker call. One socket carries requests
\* and answers in order: the open orders come after the answers to whatever was
\* sent before.
MarkApplying ==
  /\ spc = "priced" /\ link /\ \A l \in Levels : wire[l] = None
  /\ todo' = Eligible(After) /\ refused' = {}
  /\ tr' = [tr EXCEPT ![After] = "APPLYING"]
  /\ spc' = "modify"
  /\ UNCHANGED <<tp, st, trig, pend, mod, seenVars, idx, target, ack, proc, link,
                 brokerVars, wire, calls>>

\* working_orders times out: the row stays PENDING.
WorkingOrdersTimeOut ==
  /\ spc = "priced"
  /\ spc' = "idle" /\ idx' = 1 /\ target' = None
  /\ UNCHANGED <<rowVars, seenVars, todo, refused, ack, proc, link, brokerVars,
                 wire, calls>>

\* The stop in hand: the legs are taken in the order of their rows.
FirstOf(legs) == CHOOSE l \in legs : TRUE
Leg == FirstOf(todo)
LegDone == todo' = todo \ {Leg} /\ spc' = "modify"

\* A trigger that would not improve on the confirmed one is not sent.
ImprovesOrLoosens == target # trig[Leg]
Improves == target > trig[Leg]

RatchetNoOp ==
  /\ spc = "modify" /\ todo # {} /\ ~Improves
  /\ LegDone
  /\ UNCHANGED <<rowVars, seenVars, idx, target, refused, ack, proc, link,
                 brokerVars, wire, calls>>

RecordModifyEvidence ==
  /\ spc = "modify" /\ todo # {} /\ Improves
  /\ st[Leg] = "SUBMITTED" /\ mod[Leg] = None
  /\ mod' = [mod EXCEPT ![Leg] = "MODIFYING"]
  /\ pend' = [pend EXCEPT ![Leg] = target]
  /\ spc' = "evidenced"
  /\ UNCHANGED <<tr, tp, st, trig, seenVars, idx, target, todo, refused, ack, proc,
                 link, brokerVars, wire, calls>>

\* modify_stop_limit_order: placeOrder on the order's own id.
SendModify ==
  /\ spc = "evidenced" /\ link
  /\ wire' = [wire EXCEPT ![Leg] = target]
  /\ calls' = [calls EXCEPT ![After] = @ \cup {Leg}]
  /\ ack' = None
  /\ spc' = "awaiting"
  /\ UNCHANGED <<rowVars, seenVars, idx, target, todo, refused, proc, link, brokerVars>>

\* finish_modify_success
Modified ==
  /\ spc = "awaiting" /\ ack = "status"
  /\ trig' = [trig EXCEPT ![Leg] = pend[Leg]]
  /\ pend' = [pend EXCEPT ![Leg] = None]
  /\ mod' = [mod EXCEPT ![Leg] = None]
  /\ ack' = None
  /\ LegDone
  /\ UNCHANGED <<tr, tp, st, seenVars, idx, target, refused, proc, link, brokerVars,
                 wire, calls>>

\* abandon_modify_attempt: the confirmed trigger stands.
AfterRefusalStops == todo' = {} /\ spc' = "modify"
AfterRefusal == LegDone

ModifyRejected ==
  /\ spc = "awaiting" /\ ack = "error"
  /\ pend' = [pend EXCEPT ![Leg] = None]
  /\ mod' = [mod EXCEPT ![Leg] = None]
  /\ refused' = refused \cup {Leg}
  /\ ack' = None
  /\ AfterRefusal
  /\ UNCHANGED <<tr, tp, st, trig, seenVars, idx, target, proc, link, brokerVars,
                 wire, calls>>

\* Timeout, disconnect before or after the call: finish_modify_unknown and
\* mark_failed_unknown; the other legs are left alone.
InDoubtForgotten == None
InDoubt == "MODIFY_UNKNOWN"
AmbiguityApplied == "APPLIED"
AmbiguityOutcome == "FAILED_UNKNOWN"

ModifyAmbiguous ==
  /\ \/ spc = "awaiting" /\ ack = None
     \/ spc = "evidenced" /\ ~link
  /\ mod' = [mod EXCEPT ![Leg] = InDoubt]
  /\ tr' = [tr EXCEPT ![After] = AmbiguityOutcome]
  /\ todo' = {} /\ target' = None /\ refused' = {}
  /\ NextTransition
  /\ UNCHANGED <<tp, st, trig, pend, seenVars, ack, proc, link, brokerVars, wire, calls>>

MarkApplied ==
  /\ spc = "modify" /\ todo = {}
  /\ tr' = [tr EXCEPT ![After] = "APPLIED"]
  /\ target' = None /\ refused' = {}
  /\ NextTransition
  /\ UNCHANGED <<tp, st, trig, pend, mod, seenVars, todo, ack, proc, link,
                 brokerVars, wire, calls>>

-----------------------------------------------------------------------------
(* Socket reader, process loss and restart. *)

\* execDetails, live or in answer to the sweep's reqExecutions.
ExecDetails(l) ==
  /\ proc = "up" /\ link
  /\ \/ /\ tpOrder[l] = "filled" /\ ~tpSeen[l]
        /\ tpSeen' = [tpSeen EXCEPT ![l] = TRUE] /\ UNCHANGED stSeen
     \/ /\ stOrder[l] = "filled" /\ ~stSeen[l]
        /\ stSeen' = [stSeen EXCEPT ![l] = TRUE] /\ UNCHANGED tpSeen
  /\ UNCHANGED <<rowVars, sweepVars, proc, link, brokerVars, wire, calls>>

\* openOrder or orderStatus for the id in hand: a status IBKR repeats of a
\* working order wakes the waiter just as the answer to the modify does.
RepeatedStatus ==
  /\ spc = "awaiting" /\ link /\ ack = None /\ stOrder[Leg] = "working"
  /\ ack' = "status"
  /\ UNCHANGED <<rowVars, seenVars, spc, idx, target, todo, refused, proc, link,
                 brokerVars, wire, calls>>

ConnectionChanges ==
  /\ proc = "up"
  /\ link' = ~link
  /\ UNCHANGED <<rowVars, seenVars, sweepVars, proc, brokerVars, wire, calls>>

Crash ==
  /\ proc = "up"
  /\ proc' = "down" /\ link' = FALSE
  /\ spc' = "idle" /\ idx' = 1 /\ target' = None /\ todo' = {} /\ refused' = {} /\ ack' = None
  /\ UNCHANGED <<rowVars, seenVars, brokerVars, wire, calls>>

\* The sweeps of TransitionLedger.__init__ and ProtectionLedger.__init__.
SweptMisnamed(status) == IF status = "APPLYING" THEN "UNKNOWN" ELSE status
SweptBackToPending(status) == IF status = "APPLYING" THEN "PENDING" ELSE status
SweptTransition(status) == IF status = "APPLYING" THEN "FAILED_UNKNOWN" ELSE status

Restart ==
  /\ proc = "down"
  /\ tr' = [l \in Levels |-> SweptTransition(tr[l])]
  /\ mod' = [l \in Levels |-> IF mod[l] = "MODIFYING" THEN "MODIFY_UNKNOWN" ELSE mod[l]]
  /\ proc' = "up" /\ link' = TRUE
  /\ UNCHANGED <<tp, st, trig, pend, seenVars, sweepVars, brokerVars, wire, calls>>

-----------------------------------------------------------------------------
(* External: IBKR. *)

\* The fill of one leg cancels the other leg of the level (one OCA group).
TakeProfitFills(l) ==
  /\ tpOrder[l] = "working"
  /\ tpOrder' = [tpOrder EXCEPT ![l] = "filled"]
  /\ stOrder' = [stOrder EXCEPT ![l] = IF @ = "working" THEN "cancelled" ELSE @]
  /\ UNCHANGED <<rowVars, seenVars, sweepVars, proc, link, resting, wire, calls>>

StopFills(l) ==
  /\ stOrder[l] = "working"
  /\ stOrder' = [stOrder EXCEPT ![l] = "filled"]
  /\ tpOrder' = [tpOrder EXCEPT ![l] = IF @ = "working" THEN "cancelled" ELSE @]
  /\ UNCHANGED <<rowVars, seenVars, sweepVars, proc, link, resting, wire, calls>>

\* Cancelled in TWS or by the exchange.
StopCancelled(l) ==
  /\ stOrder[l] = "working"
  /\ stOrder' = [stOrder EXCEPT ![l] = "cancelled"]
  /\ UNCHANGED <<rowVars, seenVars, sweepVars, proc, link, tpOrder, resting, wire, calls>>

\* A modify request arrives: carried out on a working order and answered with
\* its status, or refused with an error, which overrides a status that came
\* before. An answer names the order, not the request it answers.
Awaited(l) == spc = "awaiting" /\ Leg = l /\ link

BrokerModifies(l) ==
  /\ wire[l] # None /\ stOrder[l] = "working"
  /\ resting' = [resting EXCEPT ![l] = wire[l]]
  /\ wire' = [wire EXCEPT ![l] = None]
  /\ ack' = IF Awaited(l) /\ ack = None THEN "status" ELSE ack
  /\ UNCHANGED <<rowVars, seenVars, spc, idx, target, todo, refused, proc, link,
                 tpOrder, stOrder, calls>>

BrokerRefusesModify(l) ==
  /\ wire[l] # None
  /\ wire' = [wire EXCEPT ![l] = None]
  /\ ack' = IF Awaited(l) THEN "error" ELSE ack
  /\ UNCHANGED <<rowVars, seenVars, spc, idx, target, todo, refused, proc, link,
                 brokerVars, calls>>

ModifyLost(l) ==
  /\ ~link /\ wire[l] # None
  /\ wire' = [wire EXCEPT ![l] = None]
  /\ UNCHANGED <<rowVars, seenVars, sweepVars, proc, link, brokerVars, calls>>

-----------------------------------------------------------------------------
Sweep ==
  \/ ReconcileLegs \/ SkipTransition \/ MarkInert
  \/ (\E l \in Levels : PricingFails(l)) \/ PriceTransition
  \/ MarkApplying \/ WorkingOrdersTimeOut
  \/ RatchetNoOp \/ RecordModifyEvidence \/ SendModify
  \/ Modified \/ ModifyRejected \/ ModifyAmbiguous \/ MarkApplied

Reader == (\E l \in Levels : ExecDetails(l)) \/ RepeatedStatus

Process == ConnectionChanges \/ Crash \/ Restart

Broker ==
  \E l \in Levels :
    \/ TakeProfitFills(l) \/ StopFills(l) \/ StopCancelled(l)
    \/ BrokerModifies(l) \/ BrokerRefusesModify(l) \/ ModifyLost(l)

Next == Sweep \/ Reader \/ Process \/ Broker

Spec == Init /\ [][Next]_vars

-----------------------------------------------------------------------------
(* Properties. *)

\* Every variable stays in its declared set of values.
TypeOK ==
  /\ tr \in [Levels -> TransitionStatuses]
  /\ tp \in [Levels -> LegStatuses] /\ st \in [Levels -> LegStatuses]
  /\ trig \in [Levels -> Triggers] /\ pend \in [Levels -> Triggers \cup {None}]
  /\ mod \in [Levels -> {None, "MODIFYING", "MODIFY_UNKNOWN"}]
  /\ tpSeen \in [Levels -> BOOLEAN] /\ stSeen \in [Levels -> BOOLEAN]
  /\ spc \in SweepSteps /\ idx \in 1..(Len(Policy) + 1)
  /\ target \in Triggers \cup {None}
  /\ todo \subseteq Levels /\ refused \subseteq Levels /\ ack \in {None, "status", "error"}
  /\ proc \in {"up", "down"} /\ link \in BOOLEAN
  /\ tpOrder \in [Levels -> OrderStates] /\ stOrder \in [Levels -> OrderStates]
  /\ resting \in [Levels -> Triggers]
  /\ wire \in [Levels -> Triggers \cup {None}]
  /\ calls \in [Levels -> SUBSET Levels]

\* Protection is never loosened: the trigger a stop rests at never goes down,
\* whatever answers are lost, late or not meant for the modify that waits.
RatchetOnly == [][\A l \in Levels : resting'[l] >= resting[l]]_vars

\* A stop that rests higher than the ledger's confirmed trigger has the
\* difference on record as the modify in flight or in doubt.
HigherTriggerInDoubt ==
  \A l \in Levels :
    resting[l] > trig[l] => mod[l] # None /\ resting[l] = pend[l]

\* A modify left in doubt, in one ledger, always has its transition left in
\* doubt, in the other, where opens are blocked and the operator sees it.
DoubtSurfaced ==
  \A l \in Levels :
    mod[l] = "MODIFY_UNKNOWN" => \E k \in Levels : tr[k] = "FAILED_UNKNOWN"

\* A transition calls the broker at most once per stop, across failures,
\* restarts and retries.
OneCallPerLeg ==
  [][spc = "evidenced" /\ spc' = "awaiting" => Leg \notin calls[After]]_vars

\* A transition is APPLIED only when each stop it could reach was raised to its
\* trigger, or the broker refused that stop for good.
AppliedReachesEveryStop ==
  [][\A l \in Levels :
       tr[l] # "APPLIED" /\ tr'[l] = "APPLIED" =>
         \A g \in Eligible(l) : trig[g] >= target \/ g \in refused]_vars

\* "Only reachable from APPLYING, i.e. only after a broker call was actually
\* attempted": what mark_applied says of APPLIED.
AppliedAfterBrokerCall ==
  \A l \in Levels : tr[l] = "APPLIED" => calls[l] # {}

\* "A proven broker acknowledgement of the modify": what finish_modify_success
\* says of the confirmed trigger of a stop that still works.
ConfirmedTriggerRests ==
  \A l \in Levels :
    stOrder[l] = "working" /\ mod[l] = None /\ wire[l] = None => resting[l] = trig[l]

(* Liveness. The sweep thread keeps running in a live process, and the socket
   reader delivers executions; crashes, the link and the broker stay free.    *)
Fairness == WF_vars(Sweep) /\ \A l \in Levels : WF_vars(ExecDetails(l))

FairSpec == Spec /\ Fairness

\* While the process stays up and connected, a level that fills has its transition
\* resolved for good, unless the position closes or a price keeps failing (for any
\* level: a request that times out ends the sweep for the levels after it too).
TransitionResolves ==
  <>[](proc = "up" /\ link) =>
    \A i \in DOMAIN Policy :
      LET l == Policy[i].after
      IN  \/ <>[](tr[l] \in {"APPLIED", "INERT", "FAILED_UNKNOWN"})
          \/ <>[](tpOrder[l] # "filled" /\ ~Skipped(l))
          \/ <>[]Closed
          \/ []<><<(\E k \in Levels : PricingFails(k)) \/ WorkingOrdersTimeOut>>_vars
=============================================================================
