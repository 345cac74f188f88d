------------------------------ MODULE ExitOrders ------------------------------
(***************************************************************************)
(* The exit side of one filled APP_MANAGED entry of N contracts: the       *)
(* protection legs the periodic sweep keeps in place, and the operator's   *)
(* close requests that sell around them.                                   *)
(*                                                                         *)
(*   - ProtectionLedger   a durable row per leg (role, level, index)       *)
(*   - SubmissionRegistry the durable row per close request                *)
(*   - ExecutionEngine    reconcile_protection_legs, ensure_protection,    *)
(*                        execute() of a CLOSE_* request                   *)
(*   - ExecutionLedger    executions seen, position_state                  *)
(*   - IBKR               external: accepts, rejects, fills, cancels, OCA  *)
(*                                                                         *)
(* Two threads: the periodic sweep, which takes the engine's lock only     *)
(* while it places legs, and the request that executes, which holds it     *)
(* throughout. The socket reader and the broker interleave with both.      *)
(***************************************************************************)
EXTENDS Integers, FiniteSets, Sums

CONSTANTS
  Levels,      \* take-profit levels of the policy, in policy order
  Alloc,       \* level -> contracts largest_remainder_allocation gives it
  N,           \* contracts the entry bought
  MaxIndex,    \* bound: top-up rows per leg family
  Closes,      \* idempotency keys of close requests
  Kind,        \* close -> "FLATTEN" or "PARTIAL"
  PartialQty,  \* contracts a REDUCE_ONLY_PARTIAL asks for
  None

ASSUME LevelsAssumption == Levels \subseteq Nat /\ IsFiniteSet(Levels)
ASSUME AllocAssumption ==
  /\ N \in Nat \ {0}
  /\ Alloc \in [Levels -> 0..N]
  /\ Levels # {} => Total(Alloc, Levels) = N
ASSUME BoundsAssumption == MaxIndex \in Nat \ {0} /\ PartialQty \in Nat \ {0}
ASSUME ClosesAssumption ==
  IsFiniteSet(Closes) /\ Kind \in [Closes -> {"FLATTEN", "PARTIAL"}]

VARIABLES
  \* ProtectionLedger: one row per leg
  st, qty, cancel,
  \* SubmissionRegistry: one row per close
  cst, cev, cres, cqty,
  \* ExecutionLedger: contracts sold by each order, as stored
  seen,
  \* periodic sweep: step, OCA groups found filled, families to do, leg in hand
  spc, hit, todo, leg,
  \* request in execute(): step, close, legs to cancel, position read
  cpc, close, tocancel, held,
  \* process and socket
  proc, link,
  \* IBKR: state of each order and contracts it sold
  order, filled

ledgerVars  == <<st, qty, cancel>>
closeRows   == <<cst, cev, cres, cqty>>
sweepVars   == <<spc, hit, todo, leg>>
requestVars == <<cpc, close, tocancel, held>>
vars == <<ledgerVars, closeRows, seen, sweepVars, requestVars, proc, link,
          order, filled>>

Roles == {"TAKE_PROFIT", "STOP_LOSS"}
Families == Roles \X Levels
Legs == Roles \X Levels \X (1..MaxIndex)
Orders == Legs \cup Closes
ASSUME OrdersAssumption == Legs \cap Closes = {}
LegStatuses == {"NONE", "PENDING_FILL_CONFIRMATION", "SKIPPED_ZERO_ALLOCATION",
                "SUBMITTING", "SUBMITTED", "BLOCKED", "SUBMISSION_UNKNOWN",
                "FILLED", "CANCELLED"}
CloseStatuses == {"NONE", "SUBMITTING", "SUBMITTED", "BLOCKED", "SUBMISSION_UNKNOWN"}
CancelStatuses == {"CANCELLING", "CANCEL_CONFIRMED", "CANCEL_UNKNOWN"}
Outcomes == {"CONFIRMED_FILLED", "CONFIRMED_NO_FILL"}
OrderStates == {"none", "sent", "lost", "rejected", "working", "filled", "cancelled"}
SweepSteps == {"idle", "fills", "oca", "lock", "ensure", "claimed", "evidenced", "awaiting"}
CloseSteps == {"idle", "cancel", "cancelling", "position", "orders", "sized",
               "evidenced", "awaiting"}

FamilyOf(g) == <<g[1], g[2]>>
LegsOf(f) == {g \in Legs : FamilyOf(g) = f}
Rows(f) == {g \in LegsOf(f) : st[g] # "NONE"}
Quantity(o) == IF o \in Legs THEN qty[o] ELSE cqty[o]
Sold(S) == Total(filled, S)

\* protection_oca_group: the legs of a level are one group, whatever their role
\* and index. Once one has filled the broker accepts no further order in it.
OcaGroupPerRow(g) == g
OcaGroup(g) == g[2]
Groups == {OcaGroup(g) : g \in Legs}
SameGroup(g) == {h \in Legs : OcaGroup(h) = OcaGroup(g)}
GroupHit(o) == o \in Legs /\ \E g \in SameGroup(o) : filled[g] > 0

\* The order can still sell.
Live(o) == order[o] = "working" \/ (order[o] = "sent" /\ ~GroupHit(o))

\* Contracts the account holds at the broker.
Position == N - Sold(Orders)

\* The entry has filled and its executions are stored; nothing protects it yet.
Init ==
  /\ st = [g \in Legs |-> "NONE"]
  /\ qty = [g \in Legs |-> 0]
  /\ cancel = [g \in Legs |-> None]
  /\ cst = [c \in Closes |-> "NONE"]
  /\ cev = [c \in Closes |-> FALSE]
  /\ cres = [c \in Closes |-> None]
  /\ cqty = [c \in Closes |-> 0]
  /\ seen = [o \in Orders |-> 0]
  /\ spc = "idle" /\ hit = {} /\ todo = {} /\ leg = None
  /\ cpc = "idle" /\ close = None /\ tocancel = {} /\ held = 0
  /\ proc = "up" /\ link = TRUE
  /\ order = [o \in Orders |-> "none"]
  /\ filled = [o \in Orders |-> 0]

-----------------------------------------------------------------------------
(* Reads of the durable state. *)

\* position_state of the entry. Only executions with a leg's order_ref count:
\* those of a close carry the close's own order_ref and its own key.
Lifecycle ==
  LET closed == Total(seen, Legs)
  IN  CASE closed = 0 -> "FILLED"
        [] closed > 0 /\ closed < N -> "CLOSING"
        [] OTHER -> "CLOSED"

\* executions_for_order_ref: every index of a family shares one order_ref.
HasExecutions(f) == \E g \in LegsOf(f) : seen[g] > 0

UnknownLeg == \E g \in Legs : st[g] = "SUBMISSION_UNKNOWN"
UnknownClose(c) == cst[c] = "SUBMISSION_UNKNOWN" /\ cres[c] = None
CancelUnknown == \E g \in Legs : cancel[g] = "CANCEL_UNKNOWN"

CommittedOnlyFilled(f) == Total(qty, {g \in Rows(f) : st[g] = "FILLED"})
CommittedQty(f) == Total(qty, {g \in Rows(f) : st[g] \in {"SUBMITTED", "FILLED"}})

\* Families in the order ensure_protection visits them; rows by protection_id,
\* in which ":STOP:" sorts before ":TP:".
FamilyBefore(f, g) == f[2] < g[2] \/ (f[2] = g[2] /\ f[1] = "TAKE_PROFIT")
NextFamily(S) == CHOOSE f \in S : \A g \in S \ {f} : FamilyBefore(f, g)
LegBefore(g, h) ==
  \/ g[1] = "STOP_LOSS" /\ h[1] = "TAKE_PROFIT"
  \/ g[1] = h[1] /\ g[2] < h[2]
  \/ g[1] = h[1] /\ g[2] = h[2] /\ g[3] < h[3]
FirstLeg(S) == CHOOSE g \in S : \A h \in S \ {g} : LegBefore(g, h)

SweepHoldsLock == spc \in {"ensure", "claimed", "evidenced", "awaiting"}

-----------------------------------------------------------------------------
(* The periodic sweep. *)

\* transport.reconcile("PERIODIC"): executions and completed orders, or
\* neither when a request times out; UNKNOWN closes are resolved from them.
\* A leg's row is never resolved here.
Resolved(c, execs, completed) ==
  IF ~UnknownClose(c) \/ ~cev[c] THEN cres[c]
  ELSE IF execs[c] > 0 THEN "CONFIRMED_FILLED"
  ELSE IF c \in completed THEN "CONFIRMED_NO_FILL" ELSE None

ReconcileTransport ==
  /\ proc = "up" /\ spc = "idle"
  /\ \E swept, listed \in IF link THEN BOOLEAN ELSE {FALSE} :
       LET execs == IF swept THEN filled ELSE seen
           completed == IF listed THEN {o \in Orders : order[o] = "cancelled"} ELSE {}
       IN  /\ seen' = execs
           /\ cres' = [c \in Closes |-> Resolved(c, execs, completed)]
  /\ spc' = "fills"
  /\ UNCHANGED <<ledgerVars, cst, cev, cqty, hit, todo, leg, requestVars, proc,
                 link, order, filled>>

\* reconcile_protection_legs, first loop: mark_filled on any execution ...
WorkingWithExecutions == {g \in Legs : st[g] = "SUBMITTED" /\ HasExecutions(FamilyOf(g))}

MarkFilled ==
  /\ spc = "fills"
  /\ st' = [g \in Legs |-> IF g \in WorkingWithExecutions THEN "FILLED" ELSE st[g]]
  /\ hit' = {OcaGroup(g) : g \in WorkingWithExecutions}
  /\ spc' = "oca"
  /\ UNCHANGED <<qty, cancel, closeRows, seen, todo, leg, requestVars, proc,
                 link, order, filled>>

\* ... second loop: mark_cancelled_by_oca on the siblings of a filled leg.
OcaSibling(g) == st[g] = "SUBMITTED" /\ cancel[g] = None /\ OcaGroup(g) \in hit

MarkCancelledByOca ==
  /\ spc = "oca"
  /\ st' = [g \in Legs |-> IF OcaSibling(g) THEN "CANCELLED" ELSE st[g]]
  /\ hit' = {} /\ spc' = "lock"
  /\ UNCHANGED <<qty, cancel, closeRows, seen, todo, leg, requestVars, proc,
                 link, order, filled>>

\* ensure_protection under the lock: FILLED is the one gate, read once.
EnsureProtection ==
  /\ spc = "lock" /\ cpc = "idle"
  /\ Lifecycle = "FILLED" /\ Families # {}
  /\ spc' = "ensure" /\ todo' = Families
  /\ UNCHANGED <<ledgerVars, closeRows, seen, hit, leg, requestVars, proc, link,
                 order, filled>>

NothingToProtect ==
  /\ spc = "lock" /\ cpc = "idle"
  /\ Lifecycle # "FILLED" \/ Families = {}
  /\ spc' = "idle"
  /\ UNCHANGED <<ledgerVars, closeRows, seen, hit, todo, leg, requestVars, proc,
                 link, order, filled>>

\* The loop goes on with the next family, or ends and frees the lock.
FamilyDone(f) ==
  /\ todo' = todo \ {f}
  /\ spc' = IF todo \ {f} = {} THEN "idle" ELSE "ensure"

Family == NextFamily(todo)
InDoubtWhenPending(f) ==
  \E g \in Rows(f) : st[g] \in {"SUBMISSION_UNKNOWN", "SUBMITTING", "PENDING_FILL_CONFIRMATION"}
InDoubt(f) == \E g \in Rows(f) : st[g] \in {"SUBMISSION_UNKNOWN", "SUBMITTING"}
Resumable(f) == {g \in Rows(f) : st[g] = "PENDING_FILL_CONFIRMATION"}
Delta(f) == Alloc[f[2]] - CommittedQty(f)

\* _ensure_leg_family: in doubt, or already covered (or the bound MaxIndex).
SkipFamily ==
  /\ spc = "ensure"
  /\ \/ InDoubt(Family)
     \/ /\ Resumable(Family) = {}
        /\ \/ Alloc[Family[2]] = 0 /\ Rows(Family) # {}
           \/ Alloc[Family[2]] > 0 /\ Delta(Family) <= 0
           \/ Cardinality(Rows(Family)) = MaxIndex
  /\ FamilyDone(Family)
  /\ UNCHANGED <<ledgerVars, closeRows, seen, hit, leg, requestVars, proc, link,
                 order, filled>>

\* mark_skipped_zero_allocation
SkipZeroAllocation ==
  /\ spc = "ensure"
  /\ Alloc[Family[2]] = 0 /\ Rows(Family) = {}
  /\ st' = [st EXCEPT ![<<Family[1], Family[2], 1>>] = "SKIPPED_ZERO_ALLOCATION"]
  /\ FamilyDone(Family)
  /\ UNCHANGED <<qty, cancel, closeRows, seen, hit, leg, requestVars, proc, link,
                 order, filled>>

\* A row a crash left between claim and broker call is submitted as it is.
ResumeLeg ==
  /\ spc = "ensure" /\ ~InDoubt(Family)
  /\ \E g \in Resumable(Family) : leg' = g
  /\ spc' = "claimed"
  /\ UNCHANGED <<ledgerVars, closeRows, seen, hit, todo, requestVars, proc, link,
                 order, filled>>

\* claim_leg with index len(existing) + 1.
ClaimLeg ==
  /\ spc = "ensure"
  /\ ~InDoubt(Family) /\ Resumable(Family) = {}
  /\ Alloc[Family[2]] > 0 /\ Delta(Family) > 0
  /\ Cardinality(Rows(Family)) < MaxIndex
  /\ LET g == <<Family[1], Family[2], Cardinality(Rows(Family)) + 1>>
     IN  /\ st' = [st EXCEPT ![g] = "PENDING_FILL_CONFIRMATION"]
         /\ qty' = [qty EXCEPT ![g] = Delta(Family)]
         /\ leg' = g
  /\ spc' = "claimed"
  /\ UNCHANGED <<cancel, closeRows, seen, hit, todo, requestVars, proc, link,
                 order, filled>>

\* The end of _submit_protection_leg for the leg in hand.
LegEnds(status) ==
  /\ st' = [st EXCEPT ![leg] = status]
  /\ leg' = None
  /\ FamilyDone(FamilyOf(leg))

\* mark_blocked_pending: market rule or price unavailable.
PricingFails ==
  /\ spc = "claimed"
  /\ LegEnds("BLOCKED")
  /\ UNCHANGED <<qty, cancel, closeRows, seen, hit, requestVars, proc, link,
                 order, filled>>

\* ProtectionLedger.record_broker_call_evidence
RecordLegEvidence ==
  /\ spc = "claimed"
  /\ st' = [st EXCEPT ![leg] = "SUBMITTING"]
  /\ spc' = "evidenced"
  /\ UNCHANGED <<qty, cancel, closeRows, seen, hit, todo, leg, requestVars, proc,
                 link, order, filled>>

PlaceLeg ==
  /\ spc = "evidenced" /\ link
  /\ order' = [order EXCEPT ![leg] = "sent"]
  /\ spc' = "awaiting"
  /\ UNCHANGED <<ledgerVars, closeRows, seen, hit, todo, leg, requestVars, proc,
                 link, filled>>

PlaceLegDisconnected ==
  /\ spc = "evidenced" /\ ~link
  /\ LegEnds("SUBMISSION_UNKNOWN")
  /\ UNCHANGED <<qty, cancel, closeRows, seen, hit, requestVars, proc, link,
                 order, filled>>

\* What _submit_order can report of an order: acknowledged, refused (or 202
\* for one cancelled before the waiter woke), or nothing definitive in time.
VerdictsTimeoutBlocks(o) ==
  {"BLOCKED"}
    \cup (IF link /\ order[o] \in {"working", "filled", "cancelled"} THEN {"SUBMITTED"} ELSE {})
Verdicts(o) ==
  {"SUBMISSION_UNKNOWN"}
    \cup (IF link /\ order[o] \in {"working", "filled", "cancelled"} THEN {"SUBMITTED"} ELSE {})
    \cup (IF link /\ order[o] \in {"rejected", "cancelled"} THEN {"BLOCKED"} ELSE {})

PlaceLegReturns ==
  /\ spc = "awaiting"
  /\ \E v \in Verdicts(leg) : LegEnds(v)
  /\ UNCHANGED <<qty, cancel, closeRows, seen, hit, requestVars, proc, link,
                 order, filled>>

-----------------------------------------------------------------------------
(* execute() of a CLOSE_* request. *)

\* claim, then _verify_readiness, _verify_close_eligible and
\* _verify_close_contract_not_ambiguous; a flatten lists its working legs.
\* A close without evidence has no action or contract in its row yet, so
\* has_blocking_close cannot see it; readiness sees it once it is UNKNOWN.
CloseAdmittedDespiteDoubt == link /\ Lifecycle \in {"FILLED", "CLOSING"}
CloseAdmitted ==
  /\ link
  /\ ~UnknownLeg /\ \A c \in Closes : ~UnknownClose(c)
  /\ Lifecycle \in {"FILLED", "CLOSING"}
  /\ ~CancelUnknown

\* _cancel_all_protection_legs lists every SUBMITTED row, or nothing to cancel.
LegsToCancel(c) == {g \in Legs : Kind[c] = "FLATTEN" /\ st[g] = "SUBMITTED"}

CloseStep(legs) == IF legs = {} THEN "position" ELSE "cancel"

BeginClose(c) ==
  /\ proc = "up" /\ cpc = "idle" /\ ~SweepHoldsLock
  /\ cst[c] = "NONE"
  /\ CloseAdmitted
  /\ cst' = [cst EXCEPT ![c] = "SUBMITTING"]
  /\ tocancel' = LegsToCancel(c)
  /\ cpc' = CloseStep(tocancel')
  /\ close' = c
  /\ UNCHANGED <<ledgerVars, cev, cres, cqty, seen, sweepVars, held, proc, link,
                 order, filled>>

RefuseClose(c) ==
  /\ proc = "up" /\ cpc = "idle" /\ ~SweepHoldsLock
  /\ cst[c] = "NONE"
  /\ ~CloseAdmitted
  /\ cst' = [cst EXCEPT ![c] = "BLOCKED"]
  /\ UNCHANGED <<ledgerVars, cev, cres, cqty, seen, sweepVars, requestVars, proc,
                 link, order, filled>>

\* SubmissionRegistry.finish of the close; the lock is freed.
CloseEnds(status) ==
  /\ cst' = [cst EXCEPT ![close] = status]
  /\ cpc' = "idle" /\ close' = None /\ tocancel' = {} /\ held' = 0

\* record_cancel_intent, leg by leg in protection_id order.
CancelIntent ==
  /\ cpc = "cancel"
  /\ LET g == FirstLeg(tocancel)
     IN  /\ st[g] = "SUBMITTED" /\ cancel[g] = None
         /\ cancel' = [cancel EXCEPT ![g] = "CANCELLING"]
  /\ cpc' = "cancelling"
  /\ UNCHANGED <<st, qty, closeRows, seen, sweepVars, close, tocancel, held, proc,
                 link, order, filled>>

\* The row changed since it was listed: RuntimeError, PRE_SUBMIT_INTERNAL_FAILURE.
CancelIntentRefused ==
  /\ cpc = "cancel"
  /\ LET g == FirstLeg(tocancel) IN st[g] # "SUBMITTED" \/ cancel[g] # None
  /\ CloseEnds("BLOCKED")
  /\ UNCHANGED <<ledgerVars, cev, cres, cqty, seen, sweepVars, proc, link, order,
                 filled>>

\* finish_cancel_confirmed overwrites the status whatever it is by now.
CancelProvenByRequest(g) == link
CancelProven(g) == link /\ order[g] = "cancelled"

CancelConfirmed ==
  /\ cpc = "cancelling"
  /\ LET g == FirstLeg(tocancel)
     IN  /\ CancelProven(g)
         /\ st' = [st EXCEPT ![g] = "CANCELLED"]
         /\ cancel' = [cancel EXCEPT ![g] = "CANCEL_CONFIRMED"]
         /\ tocancel' = tocancel \ {g}
  /\ cpc' = CloseStep(tocancel')
  /\ UNCHANGED <<qty, closeRows, seen, sweepVars, close, held, proc, link, order,
                 filled>>

\* Timeout, disconnect, error or a fill in the cancel race: the flatten halts.
CancelAmbiguous ==
  /\ cpc = "cancelling"
  /\ cancel' = [cancel EXCEPT ![FirstLeg(tocancel)] = "CANCEL_UNKNOWN"]
  /\ CloseEnds("BLOCKED")
  /\ UNCHANGED <<st, qty, cev, cres, cqty, seen, sweepVars, proc, link, order,
                 filled>>

\* _fresh_verified_long_quantity
ReadPosition ==
  /\ cpc = "position" /\ link /\ Position >= 1
  /\ held' = Position
  /\ cpc' = "orders"
  /\ UNCHANGED <<ledgerVars, closeRows, seen, sweepVars, close, tocancel, proc,
                 link, order, filled>>

\* _fresh_working_exit_quantity: SUBMITTED legs once per OCA group, plus the
\* other working SELL orders, told apart by the order ids the ledger knows.
KnownLeg(g) == st[g] \in {"SUBMITTED", "FILLED", "CANCELLED"}
SubmittedIn(x) == {g \in Legs : OcaGroup(g) = x /\ st[g] = "SUBMITTED"}
ProtectionReserved ==
  Total(qty, {FirstLeg(SubmittedIn(x)) : x \in {y \in Groups : SubmittedIn(y) # {}}})
OtherWorking ==
  {o \in Orders : order[o] = "working" /\ (o \in Legs => ~KnownLeg(o))}
OtherReserved == Total([o \in Orders |-> Quantity(o) - filled[o]], OtherWorking)
WorkingExitQuantity == ProtectionReserved + OtherReserved

CloseQuantity(available) == IF Kind[close] = "FLATTEN" THEN available ELSE PartialQty

ReadWorkingOrders ==
  /\ cpc = "orders" /\ link
  /\ LET available == held - WorkingExitQuantity
     IN  /\ 1 <= available /\ CloseQuantity(available) <= available
         /\ cqty' = [cqty EXCEPT ![close] = CloseQuantity(available)]
  /\ cpc' = "sized"
  /\ UNCHANGED <<ledgerVars, cst, cev, cres, seen, sweepVars, close, tocancel,
                 held, proc, link, order, filled>>

\* Any refusal before the broker call: quantity, quote, spread, age, timeout.
BlockClose ==
  /\ cpc \in {"cancel", "position", "orders", "sized"}
  /\ CloseEnds("BLOCKED")
  /\ UNCHANGED <<ledgerVars, cev, cres, cqty, seen, sweepVars, proc, link, order,
                 filled>>

RecordCloseEvidence ==
  /\ cpc = "sized"
  /\ cev' = [cev EXCEPT ![close] = TRUE]
  /\ cpc' = "evidenced"
  /\ UNCHANGED <<ledgerVars, cst, cres, cqty, seen, sweepVars, close, tocancel,
                 held, proc, link, order, filled>>

PlaceClose ==
  /\ cpc = "evidenced" /\ link
  /\ order' = [order EXCEPT ![close] = "sent"]
  /\ cpc' = "awaiting"
  /\ UNCHANGED <<ledgerVars, closeRows, seen, sweepVars, close, tocancel, held,
                 proc, link, filled>>

PlaceCloseDisconnected ==
  /\ cpc = "evidenced" /\ ~link
  /\ CloseEnds("SUBMISSION_UNKNOWN")
  /\ UNCHANGED <<ledgerVars, cev, cres, cqty, seen, sweepVars, proc, link, order,
                 filled>>

PlaceCloseReturns ==
  /\ cpc = "awaiting"
  /\ \E v \in Verdicts(close) : CloseEnds(v)
  /\ UNCHANGED <<ledgerVars, cev, cres, cqty, seen, sweepVars, proc, link, order,
                 filled>>

-----------------------------------------------------------------------------
(* Socket reader, process loss and restart. *)

\* execDetails: a fill reaches the ledger.
ExecDetails(o) ==
  /\ proc = "up" /\ link /\ seen[o] < filled[o]
  /\ seen' = [seen EXCEPT ![o] = @ + 1]
  /\ UNCHANGED <<ledgerVars, closeRows, sweepVars, requestVars, proc, link, order,
                 filled>>

ConnectionClosed ==
  /\ proc = "up" /\ link
  /\ link' = FALSE
  /\ UNCHANGED <<ledgerVars, closeRows, seen, sweepVars, requestVars, proc, order,
                 filled>>

Crash ==
  /\ proc = "up"
  /\ proc' = "down" /\ link' = FALSE
  /\ spc' = "idle" /\ hit' = {} /\ todo' = {} /\ leg' = None
  /\ cpc' = "idle" /\ close' = None /\ tocancel' = {} /\ held' = 0
  /\ UNCHANGED <<ledgerVars, closeRows, seen, order, filled>>

\* The sweeps of ProtectionLedger.__init__ and SubmissionRegistry.__init__.
SweptLeg(g) == IF st[g] = "SUBMITTING" THEN "SUBMISSION_UNKNOWN" ELSE st[g]
SweptCancel(g) == IF cancel[g] = "CANCELLING" THEN "CANCEL_UNKNOWN" ELSE cancel[g]
SweptCloseMisnamed(c) == IF cst[c] = "SUBMITTING" THEN "UNKNOWN" ELSE cst[c]
SweptClose(c) == IF cst[c] = "SUBMITTING" THEN "SUBMISSION_UNKNOWN" ELSE cst[c]

Restart ==
  /\ proc = "down"
  /\ st' = [g \in Legs |-> SweptLeg(g)]
  /\ cancel' = [g \in Legs |-> SweptCancel(g)]
  /\ cst' = [c \in Closes |-> SweptClose(c)]
  /\ proc' = "up" /\ link' = TRUE
  /\ UNCHANGED <<qty, cev, cres, cqty, seen, sweepVars, requestVars, order, filled>>

-----------------------------------------------------------------------------
(* External: IBKR. The two legs of a level are one OCA group of type 1: the  *)
(* first fill in the group cancels the others, and a group that has filled   *)
(* accepts no further order.                                                 *)

BrokerAccepts(o) ==
  /\ order[o] = "sent" /\ ~GroupHit(o)
  /\ order' = [order EXCEPT ![o] = "working"]
  /\ UNCHANGED <<ledgerVars, closeRows, seen, sweepVars, requestVars, proc, link,
                 filled>>

BrokerRejects(o) ==
  /\ order[o] = "sent"
  /\ order' = [order EXCEPT ![o] = "rejected"]
  /\ UNCHANGED <<ledgerVars, closeRows, seen, sweepVars, requestVars, proc, link,
                 filled>>

OrderLost(o) ==
  /\ order[o] = "sent" /\ ~link
  /\ order' = [order EXCEPT ![o] = "lost"]
  /\ UNCHANGED <<ledgerVars, closeRows, seen, sweepVars, requestVars, proc, link,
                 filled>>

\* The core's cancel request, the exchange, or the operator in TWS.
BrokerCancels(o) ==
  /\ order[o] = "working"
  /\ order' = [order EXCEPT ![o] = "cancelled"]
  /\ UNCHANGED <<ledgerVars, closeRows, seen, sweepVars, requestVars, proc, link,
                 filled>>

BrokerFills(o) ==
  /\ order[o] = "working"
  /\ filled' = [filled EXCEPT ![o] = @ + 1]
  /\ order' = [p \in Orders |->
       IF p = o THEN IF filled'[o] = Quantity(o) THEN "filled" ELSE "working"
       ELSE IF o \in Legs /\ p \in Legs /\ OcaGroup(p) = OcaGroup(o) /\ order[p] = "working"
            THEN "cancelled" ELSE order[p]]
  /\ UNCHANGED <<ledgerVars, closeRows, seen, sweepVars, requestVars, proc, link>>

-----------------------------------------------------------------------------
Sweep ==
  \/ ReconcileTransport \/ MarkFilled \/ MarkCancelledByOca
  \/ EnsureProtection \/ NothingToProtect
  \/ SkipFamily \/ SkipZeroAllocation \/ ResumeLeg \/ ClaimLeg
  \/ PricingFails \/ RecordLegEvidence \/ PlaceLeg \/ PlaceLegDisconnected
  \/ PlaceLegReturns

Request ==
  \/ \E c \in Closes : BeginClose(c) \/ RefuseClose(c)
  \/ CancelIntent \/ CancelIntentRefused \/ CancelConfirmed \/ CancelAmbiguous
  \/ ReadPosition \/ ReadWorkingOrders \/ BlockClose
  \/ RecordCloseEvidence \/ PlaceClose \/ PlaceCloseDisconnected \/ PlaceCloseReturns

Process ==
  (\E o \in Orders : ExecDetails(o)) \/ ConnectionClosed \/ Crash \/ Restart

Broker ==
  \E o \in Orders :
    BrokerAccepts(o) \/ BrokerRejects(o) \/ OrderLost(o) \/ BrokerCancels(o) \/ BrokerFills(o)

Next == Sweep \/ Request \/ Process \/ Broker

Spec == Init /\ [][Next]_vars

-----------------------------------------------------------------------------
(* Properties. *)

\* Every variable stays in its declared set of values.
TypeOK ==
  /\ st \in [Legs -> LegStatuses]
  /\ qty \in [Legs -> 0..N]
  /\ cancel \in [Legs -> CancelStatuses \cup {None}]
  /\ cst \in [Closes -> CloseStatuses]
  /\ cev \in [Closes -> BOOLEAN]
  /\ cres \in [Closes -> Outcomes \cup {None}]
  /\ cqty \in [Closes -> 0..N]
  /\ seen \in [Orders -> 0..N]
  /\ spc \in SweepSteps /\ hit \subseteq Groups /\ todo \subseteq Families
  /\ leg \in Legs \cup {None}
  /\ cpc \in CloseSteps /\ close \in Closes \cup {None}
  /\ tocancel \subseteq Legs /\ held \in 0..N
  /\ proc \in {"up", "down"} /\ link \in BOOLEAN
  /\ order \in [Orders -> OrderStates]
  /\ filled \in [Orders -> 0..N]

\* What the protection can still sell, contract by contract: as the orders of an
\* OCA group exclude each other, a group counts as its largest one.
Remaining(o) == IF Live(o) THEN Quantity(o) - filled[o] ELSE 0
Exposed == {u \in Groups \X (1..N) :
              \E g \in Legs : OcaGroup(g) = u[1] /\ u[2] <= Remaining(g)}
WorkingLegs == Cardinality(Exposed)
WorkingExits == WorkingLegs + Total([c \in Closes |-> Remaining(c)], Closes)

\* The orders that can still sell never exceed the position they sell from: no
\* retry, crash or race of sweep, close and fills oversells the account.
SellsCovered == WorkingExits <= Position

\* A protection order that can still sell is never recorded as gone or as never
\* placed, whatever the sweep, a flatten or a restart did to its row.
LiveLegTracked ==
  \A g \in Legs :
    Live(g) => st[g] \in {"SUBMITTING", "SUBMITTED", "SUBMISSION_UNKNOWN", "FILLED"}

\* No second protection order goes out for a slice while an earlier one of the
\* same role is in doubt or may still be working.
OneOrderPerSlice ==
  [][\A g \in Legs :
       order[g] = "none" /\ order'[g] = "sent" =>
         \A h \in LegsOf(FamilyOf(g)) \ {g} : ~Live(h) /\ st[h] # "SUBMISSION_UNKNOWN"]_vars

\* A flatten sends its SELL only when no protection order of the entry can sell
\* any more (but one recorded FILLED on a partial fill, see ReservationComplete),
\* and no close goes out over a cancel or another close in doubt.
FlattenAlone ==
  [][\A c \in Closes :
       order[c] = "none" /\ order'[c] = "sent" =>
         /\ Kind[c] = "FLATTEN" => \A g \in Legs : Live(g) => st[g] = "FILLED"
         /\ ~CancelUnknown
         /\ \A d \in Closes \ {c} : ~UnknownClose(d)]_vars

\* The working-exit reservation a close subtracts covers every protection
\* order that can still sell at that moment.
ReservationComplete ==
  cpc = "orders" => WorkingLegs <= WorkingExitQuantity

(* Liveness. The sweep thread keeps running in a live process; nothing else
   is assumed: crashes, disconnects, restarts and the broker stay free.      *)
Fairness == WF_vars(Sweep)

FairSpec == Spec /\ Fairness

Covered(f) ==
  \/ CommittedQty(f) = Alloc[f[2]]
  \/ \E g \in LegsOf(f) : st[g] \in {"SUBMISSION_UNKNOWN", "SKIPPED_ZERO_ALLOCATION"}
  \/ Cardinality(Rows(f)) = MaxIndex /\ Resumable(f) = {}

\* A filled entry is protected for good in the end, crashes and restarts on the way
\* included: each slice has its orders placed, is an UNKNOWN the operator must
\* clear, or has used up its attempts; or contracts have been sold already.
EventuallyProtected ==
  <>[](proc = "up" /\ link) =>
    <>[](Lifecycle # "FILLED" \/ \A f \in Families : Covered(f))
=============================================================================
