# QuickyTrade: models, model checking and proofs

This directory specifies the parts of QuickyTrade that decide whether an order
is sent, what is sold against it, and what is believed about it afterwards: the
alert queue of the server, the path of an entry request through the Python core,
the exit orders of a filled entry, the management transitions that move its
stops, the ledger of fills, and the arithmetic of prices and sizes. Paths below
are relative to the repository; `core/` stands for `core/quickytrade_core/`.

| module | what it is |
|---|---|
| `OneOrder.tla` | the promise to whoever sends a signal: at most one order, and what is told of it is true and stays true |
| `SignalQueue.tla` | the server in front of the core: store, drain, operator requests, the HTTP call, loss and restart of both processes; implements `OneOrder` |
| `Submission.tla` | entry requests in the core: registry rows, `execute()` step by step, acknowledgements, reconciliation, crash and restart, the broker |
| `ExitOrders.tla` | one filled entry: protection legs, the periodic sweep, flatten and partial close, the broker with OCA groups |
| `Transitions.tla` | the stops of a filled entry moved to breakeven or behind a fresh bid: transition rows, modify evidence, the modify's answer |
| `ExecutionLedger.tla` | executions, commissions, attribution and `position_state`, SQL statement by statement |
| `OrderPlan.tla` | one trade's numbers, from policy validation to the last stop price |
| `Sums.tla` | sums of contracts, for `ExitOrders` and `OrderPlan` |
| `MC*.tla`, `*.cfg` | small instances of each |
| `*Proofs.tla` | theorems about each of the first seven but `OneOrder` (whose promise is proved of `SignalQueue`), and the lemmas about sums, proved with TLAPS |

## The system

QuickyTrade receives TradingView alerts and manual operator requests, and turns
them into IBKR option orders.

    TradingView --webhook--> server.mjs/ingress --> SignalQueue (SQLite)
    operator   --HTTP-----> server.mjs --> OperatorStore (SQLite)
                                |  drain timer, one request at a time
                                v  HTTP, Idempotency-Key
    core: http_service -> ExecutionEngine --+-- SubmissionRegistry  \
                          (_execution_lock) |-- ProtectionLedger     } one SQLite file,
                                            |-- TransitionLedger    /  one RLock
                                            |-- ExecutionLedger    /
                          periodic thread --+
                                            v
                             OfficialIbapiTransport (socket reader thread)
                                            |
                                           IBKR

| component | state | operations | what makes it correct | where |
|---|---|---|---|---|
| signal queue (`src/tradingview/`) | intents, orders, events | receive, findNextReady, prepareSubmission, finishSubmission, restart sweep | an alert is submitted at most once, never after its age limit, and its status is true | `SignalQueue` |
| `server.mjs` | drain flag, core process handle, snapshots | webhook, drain, manual submit, close, supervision, shutdown | one drain at a time; failures after the call count as ambiguous | `SignalQueue` |
| `SubmissionRegistry` (`core/registry.py`) | a row per idempotency key: status, payload hash, order_ref, reconciliation outcome, entry-cancel status | claim, record_broker_call_evidence, finish, cancel intent/confirmed/unknown, blocking queries, restart sweep | a key is claimed once; what is unknown stays unknown until there is broker evidence | `Submission` |
| `ExecutionEngine` (`core/engine.py`) | `_execution_lock` | execute (open, close, flatten), ensure_protection, reconcile_protection_legs, ensure_transitions | one order per key, no duplicate exposure, sells never exceed the position | `Submission`, `ExitOrders`, `Transitions`, `OrderPlan` |
| `ProtectionLedger` (`core/protection.py`) | a row per leg (role, level, index): status, quantity, cancel and modify status | claim_leg, evidence, finish, mark_filled, mark_cancelled_by_oca, cancel and modify methods, restart sweep | no slice is covered twice, no live leg is forgotten | `ExitOrders`, `Transitions` |
| `TransitionLedger` (`core/transitions.py`) | a row per management transition | ensure_pending, mark_applying, applied, inert, failed_unknown | a stop only moves up; an ambiguous modify is never retried | `Transitions` |
| `ExecutionLedger` (`core/execution_ledger.py`) | executions, commissions, position_state, runs | record_execution, record_commission, backfill, rebuild, outcomes | the same in any callback order, each execution counted once | `ExecutionLedger`, `Submission` |
| `OfficialIbapiTransport` (`core/ibapi_transport.py`) | socket, reconciled flag, waiters for acknowledgements and cancels, snapshots | place, modify, cancel, reconcile, callbacks | a timeout is never reported as success or rejection | `Submission`, `ExitOrders`, `Transitions` |
| periodic thread (`core/__main__.py`) | none | reconcile, mark legs, ensure protection and transitions of each candidate | level-triggered: a missed fill or a crash is made good by a later pass | all of the core's modules |
| `selection.py`, `management.py`, `domain.py`, `config.py` | none | strikes, limits, ticks, policy validation | limits valid and within the cap, debit within the capital | `OrderPlan` |
| operator store (`src/operator/store.js`) | profiles, manual intents | updateProfile, createManualIntent, recordManualActionBlock | a manual intent is bound to one profile revision | not modelled |
| `http_service.py` | none that outlives a request | one request to one engine call | | its answers: `SignalQueue` |
| `app.js`, `src-tauri/` | none | views, packaging | | not modelled |

The modules meet at narrow interfaces. `SignalQueue` takes of the core that a key
is claimed once and an answer SUBMITTED or BLOCKED is true: that is
`AtMostOneOrder` and `AnswersTrue` of `Submission`. `Submission` ends where an
entry has filled, `ExitOrders` and `Transitions` start there, with a stored fill,
and `OrderPlan` gives the prices and the allocation both take as constants.
`ExecutionLedger` says when the stored fill can be relied on. Their product is
not composed into one module: it would be far out of TLC's reach, and the
hazards listed in `PROJECT.json` each live inside one of them.

The hard part is that four things interleave with every step: the socket reader
thread (acknowledgements, fills, connection loss), the periodic thread, the
broker, and the death of a process, after which only SQLite is left. The list of
hazards, each at its line and with the properties that would notice, is in
`PROJECT.json`. A second core process is kept out by a file lock
(`core/registry.py:71-81`), so no module has two.

## SignalQueue and OneOrder

| state | code |
|---|---|
| `row`, `eligible`, `rank` | `signal_intents` and `orders`: status, `execution_eligible`, row id |
| `server`, `mode`, `snapshot`, `drain` | the Node process, its execution mode, `coreSnapshot.ready`, `drainRunning` |
| `call` | how far `processIntent` is with a signal |
| `http` | the request, and the answer on its way |
| `stale` | the alert is older than `WEBHOOK_MAX_AGE_MS` |
| `core`, `claim`, `lock`, `order` | the core process, its registry row, the request `execute()` is at, the order at IBKR |

The server is one thread, so its steps lie between two `await`s. Either process
dies at any step and comes back with what SQLite holds; the connection can fail
before or after the core has the request, the 30 s abort can fire while the core
goes on, and IBKR may answer long after all of them. `CallFails` gives
SUBMISSION_UNKNOWN for every failure, since no code of the adapter sets
`definitive`; the status FAILED is therefore not reachable and not in `Rows`.
Staleness is tracked of READY alerts only: of other rows nothing asks for it.

- `KeepsPromise` is the refinement: `Promise == INSTANCE OneOrder WITH ...`, with
  `Promise!Spec` as a property. `Told` maps a row to what it tells.
- `AskedOnce`, `CapturedStaysCaptured`: no second request, no submission of what
  was captured for review.
- `OutlivedNeverRuns`: once an alert is older than its budget in the queue, the core
  never has a request, a claim or an order of it, then or later. The drain's check of
  the age alone does not give that: it also takes that no request of an earlier life
  of the server is still on its way, so that the row of a request that was interrupted
  may not go back to READY.
- `EveryAlertSettled` is the liveness of the queue. Fairness: the drain timer keeps
  firing and each await has a time limit (`WF` of `Drain` and of each signal's
  call steps). It is conditional on what no code ensures: both processes stay up
  in paper_tws mode and each drain finds the core ready.

| run | instance | result |
|---|---|---|
| `signal_queue` | 2 alerts | all of the above but `AskedOnce`; 19 602 states |
| `signal_queue_operator` | an alert, a manual entry, a close | `KeepsPromise`, `AskedOnce`; 505 012 states |

Two alerts make a queue with a head and one behind it; three kinds of signal in
flight together are what the one-thread server can confuse.

## Submission

`execute()` holds `_execution_lock`, so one request is in progress; `pc` is its
position, one value for every point at which something else can happen:

    idle -> claimed -> ready -> local -> positions -> cleared -> evidenced -> awaiting -> idle
                         \-> cancelling -----------> cleared

| state | code |
|---|---|
| `status`, `hash`, `orderRef`, `outcome`, `entryCancel` | columns of `broker_submissions` |
| `ledger` | `broker_executions`; `Lifecycle` is `position_state.lifecycle_status` |
| `pc`, `cur`, `target` | the running `_execute_serialized`, its key, the stale entry it cancels |
| `proc`, `link`, `reconciled` | process, socket, `_reconciled` |
| `ack` | the events of `_OrderAck`; `inflight` the executions in the socket |
| `rpc`, `completed` | `reconcile()` and the answer of reqCompletedOrders |
| `order`, `placed`, `fills` | IBKR's order, how often it was sent, its executions |
| `stale`, `told` | rows older than the signal-age limit; answers given to callers |

What is abstracted. A payload is its hash; its account, symbol and right are
`SlotOf`. Every gate that depends on quotes, strikes, sizes or age is the choice
to refuse (`BlockBeforeCall`). An execution is one contract. `Restart` and the
start-up sweep are two steps, as `start()` waits for the second. Callbacks come
in socket order, so a confirmed cancel means that the earlier fills of that order
are stored; fills that happen while there is no socket are known only through
reqExecutions. `AckError` includes the 202 of an order that is cancelled before
the waiter wakes.

Not in it: closes (they share the lock but never place a BUY), protection and
transition ambiguity as further reasons not to be ready (each only adds refusals),
and submissions older than the day reqExecutions covers.

| run | instance | result |
|---|---|---|
| `submission` | 2 keys, 2 payloads, each its own slot, 2 contracts, symmetric | all safety below; passes |
| `submission_live` | 1 key, 2 contracts | `FilledUnknownResolved`; passes |
| `no_fill_verdict` | 1 key | a sweep may call a partially filled order unfilled: violated |

- `AtMostOneOrder`, `LiveOrderAccounted`: over all crashes, lost orders, late
  acknowledgements and retries, one key is one order, and an order that can fill has a
  row that still reserves its slot.
- `NoConcurrentEntries`: two entries of one slot never work together, though the
  gates read the registry, the positions and the orders at three different times.
- `AnswersTrue`: what callers were told, on the first call and on every replay.
- `NoEntryWhileUnknown`, `VerdictsFinal`: action properties.

Two keys are what it takes for an entry and its rival; three would add a second
rival that meets the same guards. Two payloads let the keys share a slot, use
different ones, or repeat a key with another body. Two contracts make an order
partially filled. Nothing else is bounded: the state space is finite because a
key is placed once.

Fairness (`FairSpec`): the periodic thread loops for as long as the process lives
(`WF Reconcile`); a reachable broker answers some sweep of executions and some
request for completed orders (`SF`); the reader thread processes what arrives
(`WF`). Crash, disconnect, restart and the operator are unconstrained, and the
properties are conditional on the process staying connected, because no code
reconnects (`connectionClosed` only clears the flag) and nothing restarts the core.

## ExitOrders

One APP_MANAGED entry of `N` contracts whose fill is stored. A leg is
`<<role, level, index>>`: the index counts the rows of a family, because every
top-up and every retry after a BLOCKED leg is a new row.

| state | code |
|---|---|
| `st`, `qty`, `cancel` | `broker_protection_orders` |
| `cst`, `cev`, `cres`, `cqty` | the closes' rows in `broker_submissions` |
| `seen` | contracts sold per order, as `broker_executions` has them |
| `spc`, `hit`, `todo`, `leg` | the periodic thread: reconcile, mark filled, mark OCA siblings, `ensure_protection` family by family |
| `cpc`, `close`, `tocancel`, `held` | the running close: cancel legs, read position, read working orders, price, evidence, place |
| `order`, `filled` | IBKR |

The lock is `SweepHoldsLock` against `cpc`. The first two loops of the sweep run
without it, as in `reconcile_protection_legs`. Each loop is one step: it only
writes rows, and each row at most once. `Verdicts` is the nondeterministic
summary of the acknowledgement protocol that `Submission` models in full. The
ledger read and the broker read of `_fresh_working_exit_quantity` are one step:
between them the sweep can only retire rows whose quantity has been counted.

Assumed of IBKR (it is outside the repository): `ocaType=1`, so the first fill in
a group cancels the group's other orders, and a group that has filled refuses
further orders. `Live` and `BrokerAccepts` are the only places where this enters.

`MaxIndex` bounds the rows of a family; the code has no such bound. With
`MaxIndex = 2` a family is placed, loses its order and is placed once more.

| run | instance | result |
|---|---|---|
| `exits` | levels 1 and 2, both contracts on level 1, `MaxIndex = 2`, no close, with fairness | `SellsCovered`, `LiveLegTracked`, `OneOrderPerSlice`, `EventuallyProtected`; passes |
| `exits_closes` | one level, one contract, a flatten and a partial close | `TypeOK`, `LiveLegTracked`, `FlattenAlone`; passes |
| `reprotect` | one level, one contract, a flatten | `SellsCovered` with a close: violated |

- `SellsCovered` is the requirement that matters most: what the working orders of
  the account can sell is never more than it holds. It holds among the protection
  legs themselves, with partial fills, zero-allocation levels, retries and crashes.
- `LiveLegTracked` and `FlattenAlone` are about the races of a flatten with the
  sweep's unlocked loops and with fills.
- `OneOrderPerSlice` is about retry: no new leg while an old one may still sell.
- `EventuallyProtected` is about the level-triggered sweep and the resumed
  PENDING_FILL_CONFIRMATION row. It counts as done an UNKNOWN leg, since no code
  resolves one, and a family that has used its `MaxIndex` rows, where the code
  would go on retrying. It assumes only that the sweep thread keeps running (`WF
  Sweep`); crashes and restarts may happen any number of times before.

Two contracts on one level make a partially filled leg and, on the other level,
a zero allocation. One contract suffices for the races of a flatten.

## Transitions

| state | code |
|---|---|
| `tr` | `management_transitions`, by the level that triggers it |
| `tp`, `st`, `trig`, `pend`, `mod` | a level's two legs in `broker_protection_orders`: status, confirmed and intended trigger, `modify_status` |
| `tpSeen`, `stSeen` | the leg has rows in `broker_executions` |
| `spc`, `idx`, `target`, `todo`, `refused` | `_ensure_transitions_locked`: the transition in hand, its price, the stops still to do |
| `ack`, `wire` | the waiter's `_OrderAck` and the modify request on its way |
| `tpOrder`, `stOrder`, `resting` | IBKR: the orders and the trigger a stop rests at |
| `calls` | history: the stops a transition has called the broker for |

    idle -> level -> priced -> modify -> evidenced -> awaiting -> modify ... -> level

The sweep begins with `reconcile_protection_legs` and then takes the policy's
transitions in order; a refused modify goes on to the next stop, one in doubt
ends the transition as FAILED_UNKNOWN, and a price that cannot be had leaves it
PENDING for the next sweep. An error the engine does not catch (`working_orders()`
timing out, a pricing request that times out) ends the whole sweep, so the
levels after it wait as well. A crash leaves MODIFYING and APPLYING rows, which
the start-up sweeps of the two ledgers turn into MODIFY_UNKNOWN and
FAILED_UNKNOWN (`Restart`).

An acknowledgement names an order, not a request: a repeated `orderStatus` wakes
the waiter of a modify it does not answer (`RepeatedStatus`), and the modify may
still be refused after the row says it was done. What the model assumes of the
socket is that requests of one order arrive in the order they were sent.

What is abstracted. Each level holds one contract, so a leg fills at once and
its two orders are one OCA group. Prices are ticks; the arithmetic is in
`OrderPlan`. Levels are what validated policies have: at most one transition each
(two transitions after one level would share one row, `core/transitions.py:241`).

| run | instance | result |
|---|---|---|
| `transitions` | 3 levels, two transitions (breakeven, then trailing); the stops all placed, one skipped, or one in doubt | all properties; 399 399 states |

- `RatchetOnly`, `HigherTriggerInDoubt`, `DoubtSurfaced`: a stop's trigger never goes
  down; one that rests higher than the ledger believes has that on record; doubt in
  one ledger shows in the other.
- `OneCallPerLeg`, `AppliedReachesEveryStop`: an ambiguous modify is never repeated,
  and APPLIED is not said of a stop that was passed over.
- `TransitionResolves`: every triggered transition ends, under fairness of the sweep
  (its thread loops while the process lives) and of execDetails. It excuses a price
  that keeps failing, which the code retries for ever.

Three levels are what it takes for a transition with two stops left to modify,
one refused or filled while the other is in flight, and a second transition that
finds what the first left behind.

## ExecutionLedger

| state | code |
|---|---|
| `refs` | `order_ref` in `broker_submissions` and `broker_protection_orders` |
| `correlation`, `fees`, `position` | `broker_executions.correlation_id`, `broker_commissions`, `position_state` |
| `todo`, `dirty` | what the operation in progress has still to attribute and to rebuild |
| `torn` | history: keys whose rebuild was cut off and not made up for |
| `happened` | IBKR's executions |

One lock covers an operation, but the connection commits each statement
(`core/registry.py:83`), so `Crash` cuts an operation between any two. Executions and
commissions come late, in either order and again; an execution of one contract
stands for one with a quantity. An `order_ref` is recorded before its order is
sent, as `Submission` and `ExitOrders` do; a foreign order never has one. Delivery is
not fair: an execution may never be told.

| run | instance | result |
|---|---|---|
| `execution_ledger` | an entry of 2, its leg of 2, a close of 1 under its own key, a foreign order | all properties; 215 050 states |
| `fill_noticed` | the same | `FillNoticed`: violated |

- `PositionCurrent`: between operations `position_state` is what the rows say, but
  for a key in `torn`; that exception is the subject of `fill_noticed`.
- `ClosedMeansFlat`, `LifecycleForward`: a late fill never makes an open position
  look closed, and no position goes back.
- `EventuallyAttributed`: fairness of an operation begun and of the periodic backfill.

## OrderPlan

One trade as a chain of pure steps, each by the code's own arithmetic: validate
the policy, choose a strike by its premium (TARGET_RANGE), the buy limit, the
quantity, a fill at the limit or better, the allocation, the legs' prices, the
stop at breakeven and behind a fresh bid, or a closing sell limit. Prices are
cents and averages fractions `n/d`, both exact, as `Decimal` is. The model stops
after the last step, so `order_plan` does not check deadlock.

`order_plan` (43 108 states) runs over five valid and two invalid policies, a
market rule with nickel and dime bands, quotes on and off the tick around the
band edge, and capital that is absent, too small, tight and ample. It checks
`StrikeWithinBand`, `DebitWithinCapital`, `LimitBest`, `AllocationExact` and
`ExitsBracketEntry`, each against a definition that is not the code's (no valid
price in between, one contract more would not fit, no level short without a
larger claim). `DebitWithinCapital` follows the code, which sizes from the limit it
sends; the documents that name the mid instead are listed further down.

Not in it: expiry and chain choice, the ATM_OFFSET and EXACT_LISTED policies, the
delta metric, revalidation of a drifted quote, and environment parsing.

## Where the code departs from what it says

Three runs end in a counterexample; each is described with the quoted promise
under `findings` in `PROJECT.json`.

1. `no_fill_verdict`: reqExecutions times out, the sweep goes on to the completed
   orders, and a partially filled, cancelled order becomes CONFIRMED_NO_FILL.
2. `reprotect`: executions of a close do not change the entry's lifecycle, so the
   next sweep places legs beside the SELL of a flatten. In the run, with one row per
   slice, they are the first ones; with more rows also replacements of cancelled ones.
3. `fill_noticed`: a process loss between the attribution of an execution and the
   rebuild leaves an entry PARTIALLY_FILLED, or without a row, until a commission of
   one of its executions is newly recorded (`core/execution_ledger.py:259-264`). Nothing
   ensures that one comes: if they are all stored, the entry is never protected.

Eight more properties state what a document, a comment or a refusal promises and the
code does not do. They stay in their modules without a run; TLC refutes each when its
name is put in the configuration named here.

| property | configuration | what the code does |
|---|---|---|
| `Submission!NoEntryOverPosition` | 2 keys, 1 payload, 2 contracts | the return after a stale-entry cancel (`core/engine.py:994`) skips the position gate, so a partially filled stale entry is doubled |
| `Submission!DeadEntryReleased` | `SubmissionLive.cfg` | a SUBMITTED entry that died unfilled at the broker blocks its slot for ever (`core/engine.py:1065`) |
| `ExitOrders!ReservationComplete` | `ExitOrdersReprotect.cfg` with `N = 2` | one execution marks a leg FILLED; its remaining contracts are not reserved by a later close (`core/engine.py:1605`) |
| `Transitions!AppliedAfterBrokerCall` | `Transitions.cfg` | a transition whose stops are all above its price, or gone, becomes APPLIED without a broker call |
| `Transitions!ConfirmedTriggerRests` | `Transitions.cfg` | a repeated status confirms a modify that is then refused |
| `OrderPlan!StopLimitPositive` | `OrderPlan.cfg` | a stop's limit is checked to be above 0 and then rounded down to the tick (`core/engine.py:1353`), so a stop within a tick of nothing is sent with a limit of 0 |
| `OrderPlan!SizedFromMid` | `OrderPlan.cfg` | the core's own README (lines 36-41 and 281-284) and the comment at `core/engine.py:644-649` size an entry by the fresh mid; the code (`core/engine.py:674-678`) and its docstring size it by the limit sent, so it may buy fewer contracts |
| `SignalQueue!CloseNotAbandoned` | `SignalQueueOperator.cfg` | a close whose server died before preparing it stays READY; its retry is answered with that, and nothing takes it up |

## Proofs

Each theorem holds for every value of the constants, under the named assumptions
of its module, which TLC evaluates in the runs.

| module | theorem | statement |
|---|---|---|
| `SubmissionProofs` | `TypeCorrect` | `Spec => []TypeOK` |
| | `OneOrderPerKey` | `Spec => []AtMostOneOrder` |
| | `LiveOrdersAccounted` | `Spec => []LiveOrderAccounted` |
| | `NothingSentWhileUnknown` | `Spec => NoEntryWhileUnknown` |
| | `VerdictsStand` | `Spec => VerdictsFinal` |
| | `AnswersStayTrue` | `Spec => []AnswersTrue` |
| | `EntriesExclusive` | `Spec => []NoConcurrentEntries` |
| `SignalQueueProofs` | `TypeCorrect` | `Spec => []TypeOK` |
| | `OneRequest` | `Spec => AskedOnce` |
| | `BacklogDropped` | `Spec => OutlivedNeverRuns` |
| | `CapturedOnly` | `Spec => []CapturedStaysCaptured` |
| | `ImplementsOneOrder` | `Spec => KeepsPromise`, the refinement |
| `ExitOrdersProofs` | `TypeCorrect` | `Spec => []TypeOK` |
| | `LiveLegsTracked` | `Spec => []LiveLegTracked` |
| | `SliceExclusive` | `Spec => OneOrderPerSlice` |
| | `FlattenIsAlone` | `Spec => FlattenAlone` |
| | `ProtectionCovered` | `Spec => []LegsCovered` |
| | `CoveredWithoutCloses` | `Closes = {}` implies `Spec => []SellsCovered` |
| `TransitionsProofs` | `TypeCorrect` | `Spec => []TypeOK` |
| | `InDoubtSurfaced` | `Spec => []DoubtSurfaced` |
| | `HigherOnRecord` | `Spec => []HigherTriggerInDoubt` |
| | `NeverLoosened` | `Spec => RatchetOnly` |
| | `CalledOnce` | `Spec => OneCallPerLeg` |
| | `AppliedReaches` | `Spec => AppliedReachesEveryStop` |
| `ExecutionLedgerProofs` | `TypeCorrect` | `Spec => []TypeOK` |
| | `NeverDiverges` | `Spec => []PositionCurrent` |
| | `ClosedIsFlat` | `Spec => []ClosedMeansFlat` |
| | `NeverBack` | `Spec => LifecycleForward` |
| `OrderPlanProofs` | `TypeCorrect` | `Spec => []TypeOK` |
| | `StrikeInBand` | `Spec => []StrikeWithinBand` |
| | `DebitBounded` | `Spec => []DebitWithinCapital` |
| | `LimitsBest` | `Spec => []LimitBest` |
| | `AllocationCovers` | `Spec => []AllocationExact` |
| | `ExitsBracket` | `SlipPercent < 100` implies `Spec => []ExitsBracketEntry` |

None of the safety properties of the concurrent modules is inductive. Each proof
strengthens them in layers, each inductive relative to the ones before.

`SubmissionProofs`. `AtMostOneOrder` says nothing of what happens between evidence
and placing, and `LiveOrderAccounted` needs to know that what frees a row is only
ever written of a dead order.

1. `TypeInv`: types, and `InProgress`: the running request has a SUBMITTING row,
   and none runs in a dead process.
2. `CallInv`: `CallOnce` (placed at most once, only from an evidenced row, and not
   yet sent before `awaiting`) and `DeadIsDead` (an error acknowledgement, a
   completed order, a confirmed cancel, a no-fill outcome and a BLOCKED row are
   all about orders that cannot fill).
3. `GateInv`: past the readiness gate no row is unresolved. It rests on the lock:
   only the running request, or a restart that ends it, makes a row unknown.
4. `AnswerInv`: what was told of a key is what its row says, and a status
   acknowledgement is about an order the broker took. With `DeadIsDead` that makes
   every answer true, replays included.
5. `OnlyCurrent`: in a live process no row but that of the running request is
   SUBMITTING.
6. `FillInv`: the ledger and the socket hold executions of the broker only, and an
   order bought in full, or with exits, reads filled. So a lifecycle of FILLED,
   CLOSING or CLOSED, which frees the slot, is never that of an order that can fill.
7. `SlotInv`: `NoConcurrentEntries`, and past the registry's gate no other order
   that can fill is in the slot. While a stale entry is cancelled, that one may be.

The sets need not be finite, except that counting executions (`CountBound`) uses
that an order has at most `Qty` of them.

`SignalQueueProofs`. 1. `TypeOK`. 2. `CallInv`: where the server is with a signal
agrees with its row, and no call outlives the server. 3. `RequestInv`: no request yet
while a row can be claimed, none under way once the row is final; this is what makes a
restart harmless, since it turns PROCESSING into a status nothing claims. `Outlived`,
stale and queued or expired, is closed under every step, and by `RequestInv` nothing
of such an alert is at the core. 4. `OrderInv`: what the core answers is true of the
order, and an order that may still be placed belongs to a signal of which nothing
final has been said. The refinement maps the initial states, and then each action:
most are stutters of `OneOrder`, `Finish` is `Tell`, a broker's acceptance is `Order`,
and a restart of the server is one `TellUnknown` of all it was interrupted at.

`ExitOrdersProofs`. Each layer needs to know what any action can do to one row or
one order, so that is proved once, as four lemmas on a step (`RowMoves`,
`OrderMoves`, `CloseMoves`, `FillExclusive`), and the layers reason from those.

1. `TypeInv`: types, where the sweep and the running close are, that the rows of a
   family are contiguous, and that a row is SUBMITTING before its order is sent.
2. `TrackedInv`: one row of a slice in play (`SliceInv`), one order of an OCA group
   trading (`OcaOne`), a group marked as hit only on a fill (`HitInv`), and
   `LiveLegTracked`. `OneOrderPerSlice` follows at the one step that sends.
3. `AloneInv`: while a close is in flight no cancel and no other close is in
   doubt, and behind a flatten's cancels no leg is left. It rests on the lock.

`LegsCovered` (of `ExitOrdersProofs`) is the half of `SellsCovered` that survives
closes: what the legs have sold and can still sell is at most `N`. It follows
from `TrackedInv`: number the contracts of a level's allocation from one end for
what can be sold and from the other for what was; as one leg of a level trades,
the two never meet. With a close `SellsCovered` is false, as `reprotect` shows, so
`CoveredWithoutCloses` assumes that none is requested.

`TransitionsProofs`. 1. `TypeInv`: types, and what the sweep holds at each step.
2. `StatusInv`: a modify in progress or in doubt shows in the row of its
transition, which is never opened again once it has called. 3. `PriceInv`: a
request on the way never lowers a trigger, and is confirmed or on record as
intended; without it a late request could undo a later one. 4. `ReachInv`: of the
stops a transition in progress concerns, each is still to do, raised, or refused.

`ExecutionLedgerProofs`. `PositionCurrent` with types and one fact more: what an
operation has still to attribute is attributed to no key yet, so attributing it
takes it away from no other key's sum. `GrowthInv`: what is attributed happened and
is its owner's, so no step takes a row away from a key. `BehindInv`: a stored
position is never ahead of the rows, and no leg has an `order_ref` before its entry
is attributed in full. `ClosedIsFlat` and `NeverBack` need
`FillsAssumption`: an order fills for no more than its quantity (IBKR), the legs of
an entry sell no more than it bought (`ProtectionCovered`), and a close has a key of
its own.

`OrderPlanProofs` is mostly arithmetic. A trade is a chain of steps, so the layer is
thin (`TypeInv`: types, a validated policy from then on, a cost above 0 from the
fill on) and each property follows from the step that computes its numbers; what
takes work is one lemma for each calculation.

- Ticks. `BandOf` finds the band of the market rule a price lies in. A rounded
  price is on the tick and no valid price lies in between, also where rounding up
  ends in the next band (`RoundedDown`, `RoundedUp`, `UpMonotone`); this uses that
  a band starts on a tick of its own and of the band before it.
  `BuyLimitBest`, `SellLimitBest` and `StopAtOnTick` build on it.
- `ChoiceIn`: of the quoted candidates the least by distance to the target, then by
  distance to the money, is in range if any is.
- `AllocationSplits`: the shares are hundredths, so the remainders sum to a hundred
  times `Leftover` and fewer contracts are left than levels have a remainder. `Before`
  is a strict total order, so ranks run from 0 without a gap, and exactly `Leftover`
  levels get one contract more.

The assumptions are those of `OrderPlan`: a market rule rises from 0 in bands that
fit each other (IBKR's), and the configuration and the inputs are the whole numbers
`CoreConfig` and the request parser let through. A fill costs more than 0.
`ExitsBracket` assumes one thing that `CoreConfig` does not enforce, a slippage cap
under 100 percent (`core/config.py:147` only refuses a negative one): with a larger one
the stop at breakeven may have no limit price above 0, and stays where it was.

`SumsProofs` has what both arithmetic arguments need of sums. Induction over a set is
out of reach, so sums are compared by injections between their units (`Units` counts
contract by contract), and a least counterexample (`NatMin`) stands in for induction
over numbers.

## What is only checked

The liveness properties, whose fairness and ENABLED are out of the provers' reach:
they hold on the instances. Every safety property of a passing run is proved for all
values of the constants; `SellsCovered` and `ExitsBracketEntry` under the hypothesis
their theorems name.

## Not modelled, and the plan

1. `OperatorStore`: profile revisions, manual intents and recorded blocks. Each
   is one SQL statement made by one thread; `SignalQueue` takes the proposal id
   and the profile as given.
2. The other strike policies in `OrderPlan`.

Left out for good: market data and contract discovery (read-only requests whose
refusals are choices in the models), averages and realized P&L (sums over the rows
`ExecutionLedger` already relates), webhook authentication and schema validation
(pure, before anything is stored), HTTP routing, the web interface, the desktop
shell, the retired native bridge.

## Running

    tlc -config Submission.cfg MCSubmission.tla
    tlapm SubmissionProofs.tla

Each run takes from a few seconds to three minutes, and so does each proof. Deadlock
is checked in every run but `order_plan`, and means little where a process that stops
can always crash and restart. What must not stop is said by the liveness properties.
