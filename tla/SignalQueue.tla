----------------------------- MODULE SignalQueue -----------------------------
(***************************************************************************)
(* The server in front of the core: TradingView alerts are stored, queued  *)
(* and drained to the core one at a time; the operator's entries and       *)
(* closes go through the same store but past the queue.                    *)
(*                                                                         *)
(*   - TradingViewStore     durable rows: signal_intents and orders        *)
(*   - IbkrAlertProcessor   prepareSubmission, placeTrade, finishSubmission*)
(*   - server.mjs           drainQueue, submitManualIntent,                *)
(*                          submitCloseIntent, twsAdapter, checkCore       *)
(*   - the core             its claims, one request at a time, as the      *)
(*                          module Submission shows them to the server     *)
(*                                                                         *)
(* The server is one thread: between two awaits only process loss and the  *)
(* core interleave with it. Server and core fail and restart on their own. *)
(***************************************************************************)
EXTENDS Naturals, FiniteSets

CONSTANTS
  Alerts,   \* TradingView alerts, by alert_id
  Manuals,  \* manual entries, by proposal id
  Closes,   \* close requests, by requestId
  None

Signals == Alerts \cup Manuals \cup Closes

ASSUME SignalsAssumption ==
  /\ IsFiniteSet(Alerts)
  /\ Alerts \cap Manuals = {} /\ Alerts \cap Closes = {} /\ Manuals \cap Closes = {}
ASSUME NoneAssumption == None \notin Signals \cup {"SUBMITTED", "NOT_SUBMITTED", "UNKNOWN"}

VARIABLES
  \* TradingViewStore
  row,      \* status of the intent
  eligible, \* execution_eligible of the intent
  rank,     \* place of an alert in the order of arrival (its row id)
  \* the server
  server,   \* "up" or "down"
  mode,     \* "paper_tws" or "capture_only": the setting it started with
  snapshot, \* coreSnapshot.ready
  drain,    \* drainQueue: not running, in its loop, waiting for an alert's call
  call,     \* the step at which the server is with a signal
  \* time
  stale,    \* the alert is older than WEBHOOK_MAX_AGE_MS
  \* the private HTTP connection
  http,     \* the signal's request and the answer to it
  \* the core
  core,     \* "up" or "down"
  claim,    \* SubmissionRegistry: status of the key's row
  lock,     \* the signal execute() is at work on
  order     \* the signal's order, at IBKR

storeVars  == <<row, eligible, rank>>
serverVars == <<server, mode, snapshot, drain, call>>
coreVars   == <<core, claim, lock, order>>
vars == <<storeVars, serverVars, stale, http, coreVars>>

Rows == {"NONE", "READY", "PROCESSING", "SUBMITTED", "BLOCKED",
         "SUBMISSION_UNKNOWN", "EXPIRED"}
Answers == {"SUBMITTED", "BLOCKED", "SUBMISSION_UNKNOWN"}
Claims == {"NONE", "SUBMITTING"} \cup Answers
Calls == {"none", "received", "prepared", "sent"}

Init ==
  /\ row = [s \in Signals |-> "NONE"]
  /\ eligible = [s \in Signals |-> FALSE]
  /\ rank = [s \in Signals |-> 0]
  /\ server = "up" /\ mode \in {"paper_tws", "capture_only"} /\ snapshot = FALSE
  /\ drain = "idle"
  /\ call = [s \in Signals |-> "none"]
  /\ stale = [a \in Alerts |-> FALSE]
  /\ http = [s \in Signals |-> "none"]
  /\ core = "up" /\ lock = None
  /\ claim = [s \in Signals |-> "NONE"]
  /\ order = [s \in Signals |-> "none"]

-----------------------------------------------------------------------------
(* Intake. *)

\* TradingViewWebhookIngress.handle and store.receive: eligibility is what mode
\* and ownership say now. A repeated alert_id finds its row and changes nothing.
ReceiveAlert(a) ==
  /\ server = "up" /\ row[a] = "NONE"
  /\ row' = [row EXCEPT ![a] = "READY"]
  /\ \E appManaged \in BOOLEAN :
       eligible' = [eligible EXCEPT ![a] = mode = "paper_tws" /\ appManaged]
  /\ rank' = [rank EXCEPT ![a] = Cardinality({b \in Alerts : row[b] # "NONE"})]
  /\ UNCHANGED <<serverVars, stale, http, coreVars>>

\* submitManualIntent up to store.receive; a retry finds the row and goes on to
\* processIntent with it.
SubmitManual(m) ==
  /\ server = "up" /\ mode = "paper_tws" /\ snapshot
  /\ call[m] = "none" /\ row[m] \in {"NONE", "READY"}
  /\ row' = [row EXCEPT ![m] = "READY"]
  /\ eligible' = [eligible EXCEPT ![m] = TRUE]
  /\ call' = [call EXCEPT ![m] = "received"]
  /\ UNCHANGED <<rank, server, mode, snapshot, drain, stale, http, coreVars>>

\* submitCloseIntent up to store.receive; a retry is answered with the row's
\* status before that, whatever the status is.
SubmitClose(c) ==
  /\ server = "up" /\ mode = "paper_tws" /\ snapshot
  /\ row[c] = "NONE"
  /\ row' = [row EXCEPT ![c] = "READY"]
  /\ eligible' = [eligible EXCEPT ![c] = TRUE]
  /\ call' = [call EXCEPT ![c] = "received"]
  /\ UNCHANGED <<rank, server, mode, snapshot, drain, stale, http, coreVars>>

-----------------------------------------------------------------------------
(* drainQueue. *)

\* checkCore: what healthz says, or not ready when it cannot be asked.
CheckCore(ready) == ready => core = "up"

\* drainRunning keeps it to one at a time; drainTimer and every webhook start it.
StartDrain ==
  /\ server = "up" /\ mode = "paper_tws" /\ drain = "idle"
  /\ \E ready \in BOOLEAN :
       /\ CheckCore(ready)
       /\ snapshot' = ready
       /\ drain' = IF ready THEN "loop" ELSE "idle"
  /\ UNCHANGED <<storeVars, server, mode, call, stale, http, coreVars>>

\* Any other route that asks for the core's health.
RefreshSnapshot ==
  /\ server = "up" /\ mode = "paper_tws"
  /\ \E ready \in BOOLEAN : CheckCore(ready) /\ snapshot' = ready
  /\ UNCHANGED <<storeVars, server, mode, drain, call, stale, http, coreVars>>

\* What findNextReady selects and prepareSubmission claims.
ClaimableUnlessUnready(s) == row[s] = "READY"
Claimable(s) == row[s] = "READY" /\ eligible[s]

Queue == {a \in Alerts : Claimable(a)}
HeadOfQueue(a) == a \in Queue /\ \A b \in Queue \ {a} : rank[a] < rank[b]

\* findNextReady: a head older than the budget is EXPIRED, and on to the next.
TooOld(a) == stale[a]

ExpireHead(a) ==
  /\ drain = "loop" /\ HeadOfQueue(a) /\ TooOld(a)
  /\ row' = [row EXCEPT ![a] = "EXPIRED"]
  /\ UNCHANGED <<eligible, rank, serverVars, stale, http, coreVars>>

\* processNext: findNextReady again, and prepareSubmission.
DrainHead(a) ==
  /\ drain = "loop" /\ HeadOfQueue(a) /\ ~TooOld(a)
  /\ row' = [row EXCEPT ![a] = "PROCESSING"]
  /\ call' = [call EXCEPT ![a] = "prepared"]
  /\ drain' = "waiting"
  /\ UNCHANGED <<eligible, rank, server, mode, snapshot, stale, http, coreVars>>

EndDrain ==
  /\ drain = "loop" /\ Queue = {}
  /\ drain' = "idle"
  /\ UNCHANGED <<storeVars, server, mode, snapshot, call, stale, http, coreVars>>

-----------------------------------------------------------------------------
(* processIntent, and the same steps in submitCloseIntent. *)

\* prepareSubmission of an operator's request.
PrepareManual(s) ==
  /\ call[s] = "received" /\ Claimable(s)
  /\ row' = [row EXCEPT ![s] = "PROCESSING"]
  /\ call' = [call EXCEPT ![s] = "prepared"]
  /\ UNCHANGED <<eligible, rank, server, mode, snapshot, drain, stale, http, coreVars>>

\* finishSubmission; a drained signal gives the loop back its turn.
FinishKeepsWaiting(s, status) ==
  /\ row' = [row EXCEPT ![s] = status]
  /\ call' = [call EXCEPT ![s] = "none"]
  /\ UNCHANGED drain
Finish(s, status) ==
  /\ row' = [row EXCEPT ![s] = status]
  /\ call' = [call EXCEPT ![s] = "none"]
  /\ drain' = IF s \in Alerts THEN "loop" ELSE drain

\* twsAdapter before fetch: core not ready, symbol or strategy not allowed, no
\* policy.
AdapterBlocks(s) ==
  /\ call[s] = "prepared"
  /\ Finish(s, "BLOCKED")
  /\ UNCHANGED <<eligible, rank, server, mode, snapshot, stale, http, coreVars>>

\* fetch: it fails at once when nobody listens.
SendRequest(s) ==
  /\ call[s] = "prepared" /\ snapshot
  /\ http' = [http EXCEPT ![s] = IF core = "up" THEN "sent" ELSE "over"]
  /\ call' = [call EXCEPT ![s] = "sent"]
  /\ UNCHANGED <<storeVars, server, mode, snapshot, drain, stale, coreVars>>

\* The answer in time: SUBMITTED, BLOCKED, or one that throws as ambiguous.
Answered(s) ==
  /\ call[s] = "sent" /\ http[s] \in Answers
  /\ Finish(s, http[s])
  /\ http' = [http EXCEPT ![s] = "over"]
  /\ UNCHANGED <<eligible, rank, server, mode, snapshot, stale, coreVars>>

\* Answers on their way to callers that wait no longer are never read.
Unheard(S) ==
  [s \in Signals |-> IF s \in S /\ http[s] \in Answers THEN "over" ELSE http[s]]

\* The adapter throws, fetch fails or is aborted after 30 s, or the answer cannot
\* be read: the error is ambiguous, whether or not the core has the request and
\* goes on with it.
FailureIsFinal == "BLOCKED"
FailureStatus == "SUBMISSION_UNKNOWN"

CallFails(s) ==
  /\ call[s] \in {"prepared", "sent"}
  /\ Finish(s, FailureStatus)
  /\ http' = Unheard({s})
  /\ UNCHANGED <<eligible, rank, server, mode, snapshot, stale, coreVars>>

-----------------------------------------------------------------------------
(* Loss and restart of the server; time. *)

ServerDies ==
  /\ server = "up"
  /\ server' = "down" /\ snapshot' = FALSE /\ drain' = "idle"
  /\ call' = [s \in Signals |-> "none"]
  /\ http' = Unheard(Signals)
  /\ UNCHANGED <<storeVars, mode, stale, coreVars>>

\* recoverInterruptedSubmissions: never back to READY.
RecoveredToQueue(status) == IF status = "PROCESSING" THEN "READY" ELSE status
RecoveredMisnamed(status) == IF status = "PROCESSING" THEN "UNKNOWN" ELSE status
Recovered(status) == IF status = "PROCESSING" THEN "SUBMISSION_UNKNOWN" ELSE status

ServerStarts ==
  /\ server = "down"
  /\ row' = [s \in Signals |-> Recovered(row[s])]
  /\ server' = "up" /\ mode' \in {"paper_tws", "capture_only"}
  /\ UNCHANGED <<eligible, rank, snapshot, drain, call, stale, http, coreVars>>

\* Time that passes over a queued alert; the age of others is not asked for.
GrowsStale(a) ==
  /\ row[a] = "READY" /\ ~stale[a]
  /\ stale' = [stale EXCEPT ![a] = TRUE]
  /\ UNCHANGED <<storeVars, serverVars, http, coreVars>>

-----------------------------------------------------------------------------
(* The core, as Submission describes it: a key is claimed once, and the     *)
(* answer SUBMITTED or BLOCKED is true.                                     *)

\* The answer goes to the server if it still waits for it.
Answer(s, status) ==
  http' = [http EXCEPT ![s] = IF call[s] = "sent" THEN status ELSE "over"]

\* _parse_request refuses, or the path does not fit the action.
CoreRejects(s) ==
  /\ core = "up" /\ http[s] = "sent"
  /\ Answer(s, "BLOCKED")
  /\ UNCHANGED <<storeVars, serverVars, stale, coreVars>>

\* A key claimed before would be answered from its row (AskedOnce: none comes).
CoreClaims(s) ==
  /\ core = "up" /\ lock = None /\ http[s] = "sent"
  /\ IF claim[s] = "NONE"
     THEN /\ http' = [http EXCEPT ![s] = "taken"]
          /\ claim' = [claim EXCEPT ![s] = "SUBMITTING"]
          /\ lock' = s
     ELSE /\ Answer(s, IF claim[s] = "SUBMITTING" THEN "SUBMISSION_UNKNOWN" ELSE claim[s])
          /\ UNCHANGED <<claim, lock>>
  /\ UNCHANGED <<storeVars, serverVars, stale, core, order>>

\* placeOrder, after every check of the core's own.
CorePlaces(s) ==
  /\ lock = s /\ order[s] = "none"
  /\ order' = [order EXCEPT ![s] = "sent"]
  /\ UNCHANGED <<storeVars, serverVars, stale, http, core, claim, lock>>

\* SubmissionRegistry.finish: what has been proven of the order by then.
CoreFinishes(s) ==
  /\ lock = s
  /\ \E status \in Answers :
       /\ status = "SUBMITTED" => order[s] = "placed"
       /\ status = "BLOCKED" => order[s] \in {"none", "refused"}
       /\ claim' = [claim EXCEPT ![s] = status]
       /\ Answer(s, status)
  /\ lock' = None
  /\ UNCHANGED <<storeVars, serverVars, stale, core, order>>

\* The requests in progress die with the process.
CoreDies ==
  /\ core = "up"
  /\ core' = "down" /\ lock' = None
  /\ http' = [s \in Signals |-> IF http[s] \in {"sent", "taken"} THEN "over" ELSE http[s]]
  /\ UNCHANGED <<storeVars, serverVars, stale, claim, order>>

CoreStarts ==
  /\ core = "down"
  /\ core' = "up"
  /\ claim' = [s \in Signals |->
       IF claim[s] = "SUBMITTING" THEN "SUBMISSION_UNKNOWN" ELSE claim[s]]
  /\ UNCHANGED <<storeVars, serverVars, stale, http, lock, order>>

\* External: IBKR takes the order or refuses it, however late.
BrokerAnswers(s) ==
  /\ order[s] = "sent"
  /\ \E outcome \in {"placed", "refused"} : order' = [order EXCEPT ![s] = outcome]
  /\ UNCHANGED <<storeVars, serverVars, stale, http, core, claim, lock>>

-----------------------------------------------------------------------------
Operator ==
  (\E m \in Manuals : SubmitManual(m)) \/ (\E c \in Closes : SubmitClose(c))

Drain == StartDrain \/ EndDrain \/ \E a \in Alerts : ExpireHead(a) \/ DrainHead(a)

CallSteps(s) ==
  PrepareManual(s) \/ AdapterBlocks(s) \/ SendRequest(s) \/ Answered(s) \/ CallFails(s)

CoreSteps(s) ==
  CoreRejects(s) \/ CoreClaims(s) \/ CorePlaces(s) \/ CoreFinishes(s)

Next ==
  \/ \E a \in Alerts : ReceiveAlert(a) \/ GrowsStale(a)
  \/ Operator \/ Drain \/ RefreshSnapshot
  \/ \E s \in Signals : CallSteps(s) \/ CoreSteps(s) \/ BrokerAnswers(s)
  \/ ServerDies \/ ServerStarts \/ CoreDies \/ CoreStarts

Spec == Init /\ [][Next]_vars

-----------------------------------------------------------------------------
(* Properties. *)

\* Every variable stays in its declared set of values.
TypeOK ==
  /\ row \in [Signals -> Rows] /\ eligible \in [Signals -> BOOLEAN]
  /\ rank \in [Signals -> Nat]
  /\ server \in {"up", "down"} /\ mode \in {"paper_tws", "capture_only"}
  /\ snapshot \in BOOLEAN /\ drain \in {"idle", "loop", "waiting"}
  /\ call \in [Signals -> Calls]
  /\ stale \in [Alerts -> BOOLEAN]
  /\ http \in [Signals -> {"none", "sent", "taken", "over"} \cup Answers]
  /\ core \in {"up", "down"} /\ claim \in [Signals -> Claims]
  /\ lock \in Signals \cup {None}
  /\ order \in [Signals -> {"none", "sent", "placed", "refused"}]

\* The server keeps the promise of OneOrder: what its store says of a signal in
\* the end is true of the orders at IBKR and stays true, however the calls, the
\* crashes of both processes and late orders fall together.
Told(s) ==
  CASE row[s] = "SUBMITTED" -> "SUBMITTED"
    [] row[s] \in {"BLOCKED", "EXPIRED"} -> "NOT_SUBMITTED"
    [] row[s] = "SUBMISSION_UNKNOWN" -> "UNKNOWN"
    [] OTHER -> None

Promise == INSTANCE OneOrder WITH
  orders <- [s \in Signals |-> IF order[s] = "placed" THEN 1 ELSE 0],
  told <- [s \in Signals |-> Told(s)]

KeepsPromise == Promise!Spec

\* The core is asked about a signal once, ever: a retry, a repeated alert or a
\* restart never sends a second request.
AskedOnce ==
  [][\A s \in Signals :
       call[s] = "prepared" /\ call'[s] = "sent" => http[s] = "none"]_vars

\* An alert captured while sending was off, or not for the app to manage, is
\* never sent, whatever the settings are when the server runs again.
CapturedStaysCaptured ==
  \A s \in Signals : ~eligible[s] => row[s] \in {"NONE", "READY"} /\ http[s] = "none"

\* An alert that outlived the budget in the queue never runs: not from a backlog
\* "submitted in a burst on reconnect" (server.mjs:1375), and not by a request of an
\* earlier life of the server either, so that its EXPIRED is right to mean that
\* "no broker was ever contacted" (store.js:197). The core holds no request of it,
\* no claim and no order, from then on.
NeverAsked(s) == http[s] = "none" /\ claim[s] = "NONE" /\ order[s] = "none"

OutlivedNeverRuns ==
  \A a \in Alerts : [](row[a] = "READY" /\ stale[a] => []NeverAsked(a))

\* "The already-durable outcome" a retried close request is answered with is
\* the outcome of a request someone works on or has finished.
CloseNotAbandoned ==
  \A c \in Closes : server = "up" /\ call[c] = "none" => row[c] # "READY"

(* Liveness. The drain timer keeps firing and every await ends (each request
   has a time limit), so the server's own steps are fair; alerts, operator,
   failures, the core and IBKR stay free.                                     *)
Fairness == WF_vars(Drain) /\ \A s \in Signals : WF_vars(CallSteps(s))

FairSpec == Spec /\ Fairness

\* Once both processes stay up and every drain finds the core ready, each eligible
\* alert is settled: failed calls, crashes before that and an expired head never
\* keep the alerts behind waiting for good.
EveryAlertSettled ==
  \A a \in Alerts :
    (/\ <>[](server = "up" /\ core = "up" /\ mode = "paper_tws")
     /\ <>[][StartDrain => snapshot']_vars)
    => (eligible[a] ~> row[a] \in Answers \cup {"EXPIRED"})
=============================================================================
