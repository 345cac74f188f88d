------------------------------ MODULE Submission ------------------------------
(***************************************************************************)
(* The order-entry path of the QuickyTrade core: one idempotent request    *)
(* becomes at most one broker order.                                       *)
(*                                                                         *)
(*   - SubmissionRegistry   the durable row per idempotency key            *)
(*   - ExecutionEngine      execute() of an OPEN_* request, step by step   *)
(*   - OfficialIbapiTransport  socket, acknowledgements, reconciliation    *)
(*   - ExecutionLedger      the executions that reached the database       *)
(*   - IBKR                 external: accepts, rejects, fills, cancels     *)
(*                                                                         *)
(* execute() holds one process-wide lock, so one request is in progress at *)
(* a time; the socket reader thread, the reconciliation thread, the broker *)
(* and a crash of the process interleave with each of its steps.           *)
(***************************************************************************)
EXTENDS Naturals, FiniteSets

CONSTANTS
  Keys,      \* idempotency keys of requests
  Payloads,  \* request bodies, told apart only by their hash
  SlotOf,    \* payload -> the account/underlying/right it opens
  Qty,       \* contracts an entry order buys
  None       \* SQL NULL / "nothing"

ASSUME QtyAssumption == Qty \in Nat \ {0}
ASSUME SlotAssumption == DOMAIN SlotOf = Payloads

VARIABLES
  \* SubmissionRegistry: one row per key
  status, hash, orderRef, outcome, entryCancel,
  \* ExecutionLedger: executions stored
  ledger,
  \* ExecutionEngine: the request that holds _execution_lock
  pc, cur, target,
  \* transport: process, socket, readiness flag, pending acknowledgement
  proc, link, reconciled, ack, inflight,
  \* reconciliation sweep
  rpc, completed,
  \* IBKR
  order, placed, fills,
  \* wall clock and clients
  stale, told

registryVars  == <<status, hash, orderRef, outcome, entryCancel>>
engineVars    == <<pc, cur, target>>
transportVars == <<proc, link, reconciled, ack, inflight>>
sweepVars     == <<rpc, completed>>
brokerVars    == <<order, placed, fills>>
vars == <<registryVars, ledger, engineVars, transportVars, sweepVars,
          brokerVars, stale, told>>

Statuses == {"NONE", "SUBMITTING", "SUBMITTED", "BLOCKED", "SUBMISSION_UNKNOWN"}
Outcomes == {"CONFIRMED_FILLED", "CONFIRMED_NO_FILL"}
CancelStatuses == {"CANCELLING", "CANCEL_CONFIRMED", "CANCEL_UNKNOWN"}
Lifecycles == {"PARTIALLY_FILLED", "FILLED", "CLOSING", "CLOSED"}
ASSUME NoneAssumption ==
  None \notin Keys \cup Payloads \cup Outcomes \cup CancelStatuses \cup Lifecycles
Answers  == {"SUBMITTED", "BLOCKED", "SUBMISSION_UNKNOWN"}
PreCall  == {"claimed", "ready", "local", "positions", "cleared"}
Steps    == PreCall \cup {"idle", "cancelling", "evidenced", "awaiting"}
OrderStates == {"none", "sent", "lost", "rejected", "working", "filled", "cancelled"}

\* One execution report per contract bought (BOT) or sold by an exit (SLD).
Execs == Keys \X {"BOT", "SLD"} \X (1..Qty)
ExecsOf(S, k, side) == {e \in S : e[1] = k /\ e[2] = side}
Count(S, k, side) == Cardinality(ExecsOf(S, k, side))

Init ==
  /\ status = [k \in Keys |-> "NONE"]
  /\ hash = [k \in Keys |-> None]
  /\ orderRef = [k \in Keys |-> FALSE]
  /\ outcome = [k \in Keys |-> None]
  /\ entryCancel = [k \in Keys |-> None]
  /\ ledger = {}
  /\ pc = "idle" /\ cur = None /\ target = None
  /\ proc = "starting" /\ link = TRUE /\ reconciled = FALSE
  /\ ack = {} /\ inflight = {}
  /\ rpc = "idle" /\ completed = {}
  /\ order = [k \in Keys |-> "none"]
  /\ placed = [k \in Keys |-> 0]
  /\ fills = {}
  /\ stale = {}
  /\ told = [k \in Keys |-> {}]

-----------------------------------------------------------------------------
(* Reads of the durable state. *)

\* position_state.lifecycle_status, rebuilt from the stored executions.
Lifecycle(k) ==
  LET opened == Count(ledger, k, "BOT")
      closed == Count(ledger, k, "SLD")
  IN  CASE opened + closed = 0                -> None
        [] closed > 0 /\ opened <= closed     -> "CLOSED"
        [] closed > 0 /\ opened > closed      -> "CLOSING"
        [] closed = 0 /\ opened >= Qty        -> "FILLED"
        [] OTHER                              -> "PARTIALLY_FILLED"

UnresolvedRow(k) ==
  \/ status[k] = "SUBMISSION_UNKNOWN" /\ outcome[k] = None
  \/ entryCancel[k] = "CANCEL_UNKNOWN"

has_unresolved_unknown == \E k \in Keys : UnresolvedRow(k)

\* A prior entry that still reserves the account/underlying/right of a slot.
blocking_open_entries(s) ==
  {k \in Keys :
     /\ orderRef[k] /\ SlotOf[hash[k]] = s
     /\ entryCancel[k] # "CANCEL_CONFIRMED"
     /\ \/ status[k] = "SUBMITTED"
        \/ status[k] = "SUBMISSION_UNKNOWN" /\ outcome[k] # "CONFIRMED_NO_FILL"
     /\ Lifecycle(k) # "CLOSED"}

MySlot == SlotOf[hash[cur]]
EntriesOf(s) == {k \in Keys : hash[k] # None /\ SlotOf[hash[k]] = s}

\* Contracts of entry k the account still holds at the broker.
Held(k) == Count(fills, k, "BOT") - Count(fills, k, "SLD")

\* transport.positions() and transport.working_orders(): broker truth.
PositionIn(s) == \E k \in EntriesOf(s) : Held(k) # 0
WorkingEntryIn(s) == \E k \in EntriesOf(s) : order[k] = "working"

-----------------------------------------------------------------------------
(* execute() of an OPEN_* request. *)

\* SubmissionRegistry.claim on a key with no row.
Claimable(k) == status[k] = "NONE"

Claim(k, p) ==
  /\ proc = "up" /\ pc = "idle"
  /\ Claimable(k)
  /\ status' = [status EXCEPT ![k] = "SUBMITTING"]
  /\ hash' = [hash EXCEPT ![k] = p]
  /\ pc' = "claimed" /\ cur' = k
  /\ UNCHANGED <<orderRef, outcome, entryCancel, ledger, target, transportVars,
                 sweepVars, brokerVars, stale, told>>

\* What a repeated request is told: a conflict is a BLOCKED answer; an
\* unresolved row is never resubmitted; a finished one returns its result.
ReplayAnswerIgnoringHash(k, p) == status[k]
ReplayAnswer(k, p) == IF hash[k] # p THEN "BLOCKED" ELSE status[k]

Replay(k, p) ==
  /\ proc = "up" /\ pc = "idle"
  /\ status[k] \in Answers
  /\ told' = [told EXCEPT ![k] = @ \cup {<<p, ReplayAnswer(k, p)>>}]
  /\ UNCHANGED <<registryVars, ledger, engineVars, transportVars, sweepVars,
                 brokerVars, stale>>

\* SubmissionRegistry.finish, and the answer to the caller; the lock is freed.
Finish(answer) ==
  /\ status' = [status EXCEPT ![cur] = answer]
  /\ told' = [told EXCEPT ![cur] = @ \cup {<<hash[cur], answer>>}]
  /\ pc' = "idle" /\ cur' = None

\* Any ExecutionBlocked, SelectionError, BrokerDefinitiveError or unexpected
\* exception raised before the broker call: age, quote, spread, size,
\* allowlist and account gates among them.
BlockBeforeCall ==
  /\ pc \in PreCall
  /\ Finish("BLOCKED")
  /\ UNCHANGED <<hash, orderRef, outcome, entryCancel, ledger, target,
                 transportVars, sweepVars, brokerVars, stale>>

Advance(from, to) ==
  /\ pc = from /\ pc' = to
  /\ UNCHANGED <<registryVars, ledger, cur, target, transportVars, sweepVars,
                 brokerVars, stale, told>>

ReadyIgnoringUnknown == link /\ reconciled
Ready == link /\ reconciled /\ ~has_unresolved_unknown

\* _verify_readiness
VerifyReadiness == Ready /\ Advance("claimed", "ready")

\* _block_duplicate_exposure, first gate: no local row reserves the slot.
NoLocalReservation ==
  /\ pc = "ready"
  /\ blocking_open_entries(MySlot) = {}
  /\ Advance("ready", "local")

\* second gate: no broker position in the slot.
CheckPositions ==
  /\ pc = "local"
  /\ link /\ ~PositionIn(MySlot)
  /\ Advance("local", "positions")

\* third gate: no working BUY in the slot.
CheckWorkingOrders ==
  /\ pc = "positions"
  /\ link /\ ~WorkingEntryIn(MySlot)
  /\ Advance("positions", "cleared")

\* _cancel_stale_blocking_entry: the reserving entry is older than the signal
\* age limit and still rests at the broker; the intent is durable first.
StaleCandidate(j) == j \in stale /\ order[j] = "working"

CancelStaleEntry(j) ==
  /\ pc = "ready" /\ link
  /\ j \in blocking_open_entries(MySlot)
  /\ StaleCandidate(j)
  /\ status[j] = "SUBMITTED" /\ entryCancel[j] = None
  /\ entryCancel' = [entryCancel EXCEPT ![j] = "CANCELLING"]
  /\ pc' = "cancelling" /\ target' = j
  /\ UNCHANGED <<status, hash, orderRef, outcome, ledger, cur, transportVars,
                 sweepVars, brokerVars, stale, told>>

\* cancel_order returns only on Cancelled/ApiCancelled/202. Callbacks are
\* processed in socket order, so earlier fills of the order are stored.
CancelProvenOnAnyTerminal == order[target] \in {"cancelled", "filled", "working"}
CancelProven == order[target] = "cancelled"

\* The slot is free and the rest of _block_duplicate_exposure is skipped.
CancelConfirmed ==
  /\ pc = "cancelling" /\ link
  /\ CancelProven
  /\ \A e \in inflight : e[1] # target
  /\ entryCancel' = [entryCancel EXCEPT ![target] = "CANCEL_CONFIRMED"]
  /\ pc' = "cleared" /\ target' = None
  /\ UNCHANGED <<status, hash, orderRef, outcome, ledger, cur, transportVars,
                 sweepVars, brokerVars, stale, told>>

\* Timeout, disconnect, error or a fill in the cancel race.
CancelAmbiguous ==
  /\ pc = "cancelling"
  /\ entryCancel' = [entryCancel EXCEPT ![target] = "CANCEL_UNKNOWN"]
  /\ target' = None
  /\ Finish("BLOCKED")
  /\ UNCHANGED <<hash, orderRef, outcome, ledger, transportVars, sweepVars,
                 brokerVars, stale>>

\* record_broker_call_evidence, after the second age gate and the re-quote.
RecordEvidence ==
  /\ pc = "cleared"
  /\ orderRef' = [orderRef EXCEPT ![cur] = TRUE]
  /\ pc' = "evidenced"
  /\ UNCHANGED <<status, hash, outcome, entryCancel, ledger, cur, target,
                 transportVars, sweepVars, brokerVars, stale, told>>

\* place_limit_order writes the order to the socket ...
PlaceOrder ==
  /\ pc = "evidenced" /\ link
  /\ order' = [order EXCEPT ![cur] = "sent"]
  /\ placed' = [placed EXCEPT ![cur] = @ + 1]
  /\ pc' = "awaiting" /\ ack' = {}
  /\ UNCHANGED <<registryVars, ledger, cur, target, proc, link, reconciled,
                 inflight, sweepVars, fills, stale, told>>

\* ... unless the socket is already down: ambiguous, although nothing was sent.
PlaceDisconnected ==
  /\ pc = "evidenced" /\ ~link
  /\ Finish("SUBMISSION_UNKNOWN")
  /\ UNCHANGED <<hash, orderRef, outcome, entryCancel, ledger, target,
                 transportVars, sweepVars, brokerVars, stale>>

\* The waiter's verdict on _OrderAck: an error wins over an acknowledgement
\* seen before it; no event in time, or a closed socket, is ambiguous.
VerdictTimeoutBlocks == IF ack = {} \/ "error" \in ack THEN "BLOCKED" ELSE "SUBMITTED"
Verdict ==
  CASE "error" \in ack -> "BLOCKED"
    [] ack = {"status"} -> "SUBMITTED"
    [] OTHER -> "SUBMISSION_UNKNOWN"

SubmitReturns ==
  /\ pc = "awaiting"
  /\ Finish(Verdict)
  /\ ack' = {}
  /\ UNCHANGED <<hash, orderRef, outcome, entryCancel, ledger, target, proc,
                 link, reconciled, inflight, sweepVars, brokerVars, stale>>

-----------------------------------------------------------------------------
(* Callbacks of the socket reader thread. *)

\* openOrder / orderStatus with an acknowledging status.
AckStatus ==
  /\ pc = "awaiting" /\ link
  /\ order[cur] \in {"working", "filled", "cancelled"}
  /\ ack' = ack \cup {"status"}
  /\ UNCHANGED <<registryVars, ledger, engineVars, proc, link, reconciled,
                 inflight, sweepVars, brokerVars, stale, told>>

\* error() with a code that is neither a warning nor informational: the
\* rejection of the order, or 202 for one cancelled before the waiter woke.
AckError ==
  /\ pc = "awaiting" /\ link
  /\ order[cur] \in {"rejected", "cancelled"}
  /\ ack' = ack \cup {"error"}
  /\ UNCHANGED <<registryVars, ledger, engineVars, proc, link, reconciled,
                 inflight, sweepVars, brokerVars, stale, told>>

\* execDetails -> record_execution: INSERT OR IGNORE, keyed by execId.
ExecDetails(e) ==
  /\ e \in inflight
  /\ ledger' = ledger \cup {e}
  /\ inflight' = inflight \ {e}
  /\ UNCHANGED <<registryVars, engineVars, proc, link, reconciled, ack,
                 sweepVars, brokerVars, stale, told>>

\* connectionClosed: not ready, and no code reconnects in this process.
ConnectionClosed ==
  /\ proc # "down" /\ link
  /\ link' = FALSE /\ reconciled' = FALSE /\ inflight' = {}
  /\ UNCHANGED <<registryVars, ledger, engineVars, proc, ack, sweepVars,
                 brokerVars, stale, told>>

\* error() 1100-1300, or a snapshot request that timed out: the socket stays
\* up but the process is not ready again before it restarts.
ReadinessLost ==
  /\ proc = "up" /\ reconciled
  /\ reconciled' = FALSE
  /\ UNCHANGED <<registryVars, ledger, engineVars, proc, link, ack, inflight,
                 sweepVars, brokerVars, stale, told>>

-----------------------------------------------------------------------------
(* reconcile(): at start-up, then periodically; without the engine's lock. *)

\* reqExecutions answered in full, ...
SweepExecutions ==
  /\ proc # "down" /\ rpc = "idle" /\ link
  /\ ledger' = ledger \cup fills
  /\ inflight' = {}
  /\ rpc' = "swept"
  /\ UNCHANGED <<registryVars, engineVars, proc, link, reconciled, ack,
                 completed, brokerVars, stale, told>>

\* ... or not before the timeout (or no socket): the sweep goes on regardless.
SweepTimesOut ==
  /\ proc # "down" /\ rpc = "idle"
  /\ rpc' = "swept"
  /\ UNCHANGED <<registryVars, ledger, engineVars, transportVars, completed,
                 brokerVars, stale, told>>

\* reqCompletedOrders; fills pushed earlier on the socket are stored already.
CompletedOrders ==
  /\ rpc = "swept"
  /\ \/ link /\ inflight = {} /\ completed' = {k \in Keys : order[k] = "cancelled"}
     \/ completed' = {}
  /\ rpc' = "completed"
  /\ UNCHANGED <<registryVars, ledger, engineVars, transportVars, brokerVars,
                 stale, told>>

\* _resolve_unknown_submissions for one row: the rows it looks at, and what it
\* writes there.
ResolvableAgain(k) == status[k] = "SUBMISSION_UNKNOWN" /\ orderRef[k]
Resolvable(k) == status[k] = "SUBMISSION_UNKNOWN" /\ outcome[k] = None /\ orderRef[k]

EvidenceByCompletionOnly(k) == IF k \in completed THEN "CONFIRMED_NO_FILL" ELSE outcome[k]
Evidence(k) ==
  IF ExecsOf(ledger, k, "BOT") # {} THEN "CONFIRMED_FILLED"
  ELSE IF k \in completed THEN "CONFIRMED_NO_FILL" ELSE outcome[k]

Resolved(k) == IF Resolvable(k) THEN Evidence(k) ELSE outcome[k]

\* The end of a sweep; the start-up one makes the process ready and serving.
ResolveUnknowns ==
  /\ rpc = "completed"
  /\ proc = "starting" => link
  /\ outcome' = [k \in Keys |-> Resolved(k)]
  /\ rpc' = "idle" /\ completed' = {}
  /\ proc' = "up"
  /\ reconciled' = (reconciled \/ proc = "starting")
  /\ UNCHANGED <<status, hash, orderRef, entryCancel, ledger, engineVars, link,
                 ack, inflight, brokerVars, stale, told>>

-----------------------------------------------------------------------------
(* Process loss and restart. *)

\* The process dies; what it knew but had not stored is gone.
Crash ==
  /\ proc # "down"
  /\ proc' = "down" /\ link' = FALSE /\ reconciled' = FALSE
  /\ ack' = {} /\ inflight' = {}
  /\ pc' = "idle" /\ cur' = None /\ target' = None
  /\ rpc' = "idle" /\ completed' = {}
  /\ UNCHANGED <<registryVars, ledger, brokerVars, stale, told>>

\* SubmissionRegistry.__init__: an interrupted call is ambiguous.
SweptAsPending(k) == IF status[k] = "SUBMITTING" THEN "PENDING" ELSE status[k]
SweptAsNeverSent(k) == IF status[k] = "SUBMITTING" THEN "NONE" ELSE status[k]
SweptStatus(k) == IF status[k] = "SUBMITTING" THEN "SUBMISSION_UNKNOWN" ELSE status[k]
SweptCancel(k) == IF entryCancel[k] = "CANCELLING" THEN "CANCEL_UNKNOWN" ELSE entryCancel[k]

Restart ==
  /\ proc = "down"
  /\ status' = [k \in Keys |-> SweptStatus(k)]
  /\ entryCancel' = [k \in Keys |-> SweptCancel(k)]
  /\ proc' = "starting" /\ link' = TRUE
  /\ UNCHANGED <<hash, orderRef, outcome, ledger, engineVars, reconciled, ack,
                 inflight, sweepVars, brokerVars, stale, told>>

-----------------------------------------------------------------------------
(* External: IBKR and the passage of time. *)

BrokerAccepts(k) ==
  /\ order[k] = "sent"
  /\ order' = [order EXCEPT ![k] = "working"]
  /\ UNCHANGED <<registryVars, ledger, engineVars, transportVars, sweepVars,
                 placed, fills, stale, told>>

BrokerRejects(k) ==
  /\ order[k] = "sent"
  /\ order' = [order EXCEPT ![k] = "rejected"]
  /\ UNCHANGED <<registryVars, ledger, engineVars, transportVars, sweepVars,
                 placed, fills, stale, told>>

\* An order still in the socket when it closed may never arrive.
OrderLost(k) ==
  /\ order[k] = "sent" /\ ~link
  /\ order' = [order EXCEPT ![k] = "lost"]
  /\ UNCHANGED <<registryVars, ledger, engineVars, transportVars, sweepVars,
                 placed, fills, stale, told>>

\* Day end, exchange, operator in TWS, or the core's own cancel request.
BrokerCancels(k) ==
  /\ order[k] = "working"
  /\ order' = [order EXCEPT ![k] = "cancelled"]
  /\ UNCHANGED <<registryVars, ledger, engineVars, transportVars, sweepVars,
                 placed, fills, stale, told>>

\* A fill is reported on the socket if there is one; otherwise only a later
\* reqExecutions can tell.
Report(e) ==
  /\ fills' = fills \cup {e}
  /\ inflight' = IF link THEN inflight \cup {e} ELSE inflight

BrokerFills(k) ==
  /\ order[k] = "working"
  /\ LET n == Count(fills, k, "BOT") + 1
     IN  /\ n <= Qty
         /\ Report(<<k, "BOT", n>>)
         /\ order' = [order EXCEPT ![k] = IF n = Qty THEN "filled" ELSE @]
  /\ UNCHANGED <<registryVars, ledger, engineVars, proc, link, reconciled, ack,
                 sweepVars, placed, stale, told>>

\* A protection leg, placed once the entry's position_state read FILLED, sells.
ExitFills(k) ==
  /\ Lifecycle(k) \in {"FILLED", "CLOSING"}
  /\ Held(k) > 0
  /\ Report(<<k, "SLD", Count(fills, k, "SLD") + 1>>)
  /\ UNCHANGED <<registryVars, ledger, engineVars, proc, link, reconciled, ack,
                 sweepVars, order, placed, stale, told>>

\* A resting entry outlives the signal-age limit. (The age of any other row is
\* never acted on: record_entry_cancel_intent refuses it.)
Age(k) ==
  /\ status[k] = "SUBMITTED" /\ order[k] = "working" /\ k \notin stale
  /\ stale' = stale \cup {k}
  /\ UNCHANGED <<registryVars, ledger, engineVars, transportVars, sweepVars,
                 brokerVars, told>>

-----------------------------------------------------------------------------
Engine ==
  \/ \E k \in Keys, p \in Payloads : Claim(k, p) \/ Replay(k, p)
  \/ BlockBeforeCall \/ VerifyReadiness \/ NoLocalReservation
  \/ CheckPositions \/ CheckWorkingOrders
  \/ \E j \in Keys : CancelStaleEntry(j)
  \/ CancelConfirmed \/ CancelAmbiguous
  \/ RecordEvidence \/ PlaceOrder \/ PlaceDisconnected \/ SubmitReturns

Reader ==
  \/ AckStatus \/ AckError
  \/ \E e \in inflight : ExecDetails(e)
  \/ ConnectionClosed \/ ReadinessLost

Reconcile ==
  SweepExecutions \/ SweepTimesOut \/ CompletedOrders \/ ResolveUnknowns

Broker ==
  \E k \in Keys :
    \/ BrokerAccepts(k) \/ BrokerRejects(k) \/ OrderLost(k)
    \/ BrokerCancels(k) \/ BrokerFills(k) \/ ExitFills(k) \/ Age(k)

Next == Engine \/ Reader \/ Reconcile \/ Crash \/ Restart \/ Broker

Spec == Init /\ [][Next]_vars

-----------------------------------------------------------------------------
(* Properties. *)

\* Every variable stays in its declared set of values.
TypeOK ==
  /\ status \in [Keys -> Statuses]
  /\ hash \in [Keys -> Payloads \cup {None}]
  /\ orderRef \in [Keys -> BOOLEAN]
  /\ outcome \in [Keys -> Outcomes \cup {None}]
  /\ entryCancel \in [Keys -> CancelStatuses \cup {None}]
  /\ ledger \subseteq Execs
  /\ pc \in Steps /\ cur \in Keys \cup {None} /\ target \in Keys \cup {None}
  /\ proc \in {"down", "starting", "up"}
  /\ link \in BOOLEAN /\ reconciled \in BOOLEAN
  /\ ack \subseteq {"status", "error"}
  /\ inflight \subseteq Execs
  /\ rpc \in {"idle", "swept", "completed"} /\ completed \subseteq Keys
  /\ order \in [Keys -> OrderStates]
  /\ placed \in [Keys -> Nat]
  /\ fills \subseteq Execs
  /\ stale \subseteq Keys
  /\ told \in [Keys -> SUBSET (Payloads \X Answers)]

\* One idempotency key never puts two orders on the broker's socket, whatever
\* retries, crashes and restarts happen between claim and finish.
AtMostOneOrder == \A k \in Keys : placed[k] <= 1

Live(k) == order[k] \in {"sent", "working"}

\* A request the caller may still be waiting for: SUBMITTING, in this process
\* or left by one that died.
Accounted(k) ==
  /\ orderRef[k]
  /\ entryCancel[k] # "CANCEL_CONFIRMED"
  /\ \/ status[k] \in {"SUBMITTING", "SUBMITTED"}
     \/ status[k] = "SUBMISSION_UNKNOWN" /\ outcome[k] # "CONFIRMED_NO_FILL"

\* Every order that can still fill at the broker is backed by a registry row
\* with its order_ref recorded and its symbol/right still reserved: no crash,
\* timeout, rejection race, cancel or reconciliation loses track of it.
LiveOrderAccounted == \A k \in Keys : Live(k) => Accounted(k)

\* Two entry orders for the same account/underlying/right never work at the
\* broker at the same time (the duplicate-exposure gates under the lock).
NoConcurrentEntries ==
  \A j, k \in Keys :
    j # k /\ Live(j) /\ Live(k) => SlotOf[hash[j]] # SlotOf[hash[k]]

\* What callers were told stays true: SUBMITTED only for the very payload the
\* broker accepted an order for, BLOCKED only when no order of that payload can
\* fill any more, and never two different answers to the same request.
AnswersTrue ==
  \A k \in Keys :
    /\ \A p \in Payloads :
         /\ <<p, "SUBMITTED">> \in told[k] =>
              /\ p = hash[k]
              /\ order[k] \in {"working", "filled", "cancelled"}
         /\ <<p, "BLOCKED">> \in told[k] => p # hash[k] \/ ~Live(k)
    /\ \A a, b \in Answers :
         <<hash[k], a>> \in told[k] /\ <<hash[k], b>> \in told[k] => a = b

\* No entry order is sent while another row is an unresolved SUBMISSION_UNKNOWN
\* or CANCEL_UNKNOWN: ambiguity anywhere stops every new entry.
NoEntryWhileUnknown ==
  [][\A k \in Keys : placed'[k] # placed[k] => ~has_unresolved_unknown]_vars

\* A finished row keeps its status and a reconciled one its outcome for ever,
\* across replays, sweeps and restarts.
VerdictsFinal ==
  [][\A k \in Keys :
       /\ status[k] \in Answers => status'[k] = status[k]
       /\ outcome[k] # None => outcome'[k] = outcome[k]]_vars

\* Reconciliation never calls a submission unfilled that did buy contracts.
NoFillMeansNoFill ==
  \A k \in Keys : outcome[k] = "CONFIRMED_NO_FILL" => ExecsOf(fills, k, "BOT") = {}

\* An entry is sent only while the account holds nothing in its symbol/right.
NoEntryOverPosition ==
  [][\A k \in Keys : placed'[k] # placed[k] => ~PositionIn(SlotOf[hash[k]])]_vars

(* Liveness. The periodic thread runs for as long as the process does, and a
   broker that is reachable answers some sweep; nothing else is assumed: crash,
   disconnect and the operator's restart stay free to happen or not.          *)
Fairness ==
  /\ WF_vars(Reconcile)
  /\ SF_vars(SweepExecutions)
  /\ SF_vars(rpc = "swept" /\ link /\ inflight = {} /\ CompletedOrders
             /\ completed' = {k \in Keys : order[k] = "cancelled"})
  /\ WF_vars(\E e \in inflight : ExecDetails(e))

FairSpec == Spec /\ Fairness

ConnectedForever == <>[](proc # "down" /\ link)

\* An ambiguous submission that did buy contracts is resolved, as long as the
\* process stays connected.
FilledUnknownResolved ==
  ConnectedForever =>
    \A k \in Keys :
      (status[k] = "SUBMISSION_UNKNOWN" /\ ExecsOf(fills, k, "BOT") # {})
        ~> outcome[k] # None

\* An entry that died unfilled at the broker stops reserving its symbol/right
\* after some reconciliation pass.
DeadEntryReleased ==
  ConnectedForever =>
    \A k \in Keys :
      (status[k] = "SUBMITTED" /\ order[k] = "cancelled" /\ ExecsOf(fills, k, "BOT") = {})
        ~> k \notin blocking_open_entries(SlotOf[hash[k]])
=============================================================================
