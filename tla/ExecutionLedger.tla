--------------------------- MODULE ExecutionLedger ---------------------------
(***************************************************************************)
(* Fills become positions: executions and commissions arrive from IBKR     *)
(* late, repeated and in any order, are attributed to the request whose    *)
(* order_ref they carry, and position_state is rebuilt from them. The      *)
(* sweep protects what position_state calls FILLED, so what is wrong here  *)
(* is bought and never protected.                                          *)
(*                                                                         *)
(*   - ExecutionLedger        record_execution, record_commission,         *)
(*                            backfill_missing_correlation_ids, rebuild    *)
(*   - OfficialIbapiTransport execDetails, commissionAndFeesReport         *)
(*   - reconcile and __main__ startup and periodic backfill, candidates    *)
(*                                                                         *)
(* One lock covers a whole operation, but each SQL statement commits on    *)
(* its own (isolation_level=None): process loss cuts an operation between  *)
(* its statements. Every execution here is of one contract.                *)
(***************************************************************************)
EXTENDS Naturals, FiniteSets

CONSTANTS
  Orders,    \* orders, by order_ref
  OwnerOf,   \* the correlation_id _match_order_ref has for an order_ref
  KindOf,    \* "entry", "leg" (protection), "close" or "foreign" (not the app's)
  Execs,     \* executions, by exec_id
  OrderOf,   \* the order an execution belongs to
  TargetOf,  \* the quantity of a key's own order
  None

Kinds == {"entry", "leg", "close", "foreign"}
Keys == {OwnerOf[o] : o \in {p \in Orders : KindOf[p] # "foreign"}}
Entries == {OwnerOf[o] : o \in {p \in Orders : KindOf[p] = "entry"}}

Lifecycles == {"PARTIALLY_FILLED", "FILLED", "CLOSING", "CLOSED"}
PositionRows == [opened : Nat, closed : Nat, fees : Nat, lifecycle : Lifecycles]

ASSUME OrdersAssumption ==
  /\ KindOf \in [Orders -> Kinds]
  /\ OrderOf \in [Execs -> Orders]
  /\ IsFiniteSet(Execs)
  /\ None \notin Keys \cup {"unattributed"} \cup PositionRows
  /\ "unattributed" \notin Keys
  /\ TargetOf \in [Keys -> Nat \ {0}]

Bought(S) == {e \in S : KindOf[OrderOf[e]] = "entry"}
Sold(S) == {e \in S : KindOf[OrderOf[e]] \in {"leg", "close"}}
OwnExecs(k) == {e \in Execs : OwnerOf[OrderOf[e]] = k}

\* No order trades more than its quantity, the legs of an entry sell no more than
\* it bought (ExitOrders), and a close has an idempotency key of its own.
ASSUME FillsAssumption ==
  /\ \A k \in Entries :
       /\ Cardinality(Bought(OwnExecs(k))) <= TargetOf[k]
       /\ Cardinality(Sold(OwnExecs(k))) <= TargetOf[k]
  /\ \A o \in Orders : KindOf[o] = "close" => OwnerOf[o] \notin Entries

VARIABLES
  \* IBKR
  happened,    \* the executions there are
  \* broker_submissions and broker_protection_orders
  refs,        \* order_refs recorded, each before its order is sent
  \* broker_executions, broker_commissions, position_state
  correlation, \* None: no row yet; correlation_id, "unattributed" for NULL
  fees,        \* the executions whose commission is recorded
  position,    \* the row of each key, None when there is none
  \* the core
  up,
  todo,        \* executions the operation in progress has still to attribute
  dirty,       \* keys it has still to rebuild
  torn         \* history: keys whose rebuild was cut off and not made up for

tables == <<refs, correlation, fees, position>>
vars == <<happened, tables, up, todo, dirty, torn>>

Init ==
  /\ happened = {} /\ refs = {}
  /\ correlation = [e \in Execs |-> None]
  /\ fees = {}
  /\ position = [k \in Keys |-> None]
  /\ up = TRUE /\ todo = {} /\ dirty = {} /\ torn = {}

-----------------------------------------------------------------------------
\* The lock of the registry, which every operation holds to its end.
Unlocked == up /\ todo = {} /\ dirty = {}

\* lifecycle_status of opened and closed contracts against the order's quantity.
LifecycleByFirstFill(opened, closed, target) ==
  CASE closed > 0 /\ opened <= closed -> "CLOSED"
    [] closed > 0 /\ opened > closed -> "CLOSING"
    [] OTHER -> "FILLED"
LifecycleByNet(opened, closed, target) ==
  CASE opened <= closed -> "CLOSED"
    [] opened > closed /\ opened - closed >= target -> "FILLED"
    [] OTHER -> "PARTIALLY_FILLED"
LifecycleAsSubmitted(opened, closed, target) ==
  CASE closed > 0 -> "CLOSING"
    [] closed = 0 /\ opened >= target -> "FILLED"
    [] OTHER -> "SUBMITTED"
Lifecycle(opened, closed, target) ==
  CASE closed > 0 /\ opened <= closed -> "CLOSED"
    [] closed > 0 /\ opened > closed -> "CLOSING"
    [] closed = 0 /\ opened >= target -> "FILLED"
    [] OTHER -> "PARTIALLY_FILLED"

\* _rebuild_position_state_locked: from the rows of the key, and no other state.
Rebuilt(k) ==
  LET rows == {e \in Execs : correlation[e] = k}
      opened == Cardinality(Bought(rows))
      closed == Cardinality(Sold(rows))
  IN IF rows = {} THEN None
     ELSE [opened |-> opened, closed |-> closed,
           fees |-> Cardinality(rows \cap fees),
           lifecycle |-> Lifecycle(opened, closed, TargetOf[k])]

\* _match_order_ref: broker_submissions, then broker_protection_orders.
MatchSubmissionOnly(o) == IF o \in refs /\ KindOf[o] # "leg" THEN OwnerOf[o] ELSE None
Match(o) == IF o \in refs THEN OwnerOf[o] ELSE None

-----------------------------------------------------------------------------
(* Orders and fills: what Submission and ExitOrders do, as far as the ledger *)
(* sees it.                                                                  *)

Filled(k) == position[k] # None /\ position[k].lifecycle = "FILLED"

\* record_broker_call_evidence: an entry any time, a leg by ensure_protection
\* over a FILLED position, a close over a position there is.
RecordOrderRef(o) ==
  /\ Unlocked /\ o \notin refs /\ KindOf[o] # "foreign"
  /\ KindOf[o] = "leg" => Filled(OwnerOf[o])
  /\ KindOf[o] = "close" => Bought(happened) # {}
  /\ refs' = refs \cup {o}
  /\ UNCHANGED <<happened, correlation, fees, position, up, todo, dirty, torn>>

\* External: the order trades, whether or not anyone is there to be told.
Trade(e) ==
  /\ e \notin happened
  /\ OrderOf[e] \in refs \/ KindOf[OrderOf[e]] = "foreign"
  /\ happened' = happened \cup {e}
  /\ UNCHANGED <<tables, up, todo, dirty, torn>>

-----------------------------------------------------------------------------
(* The operations, statement by statement. *)

\* record_execution: INSERT OR IGNORE; a known exec_id ends it there.
RecordExecution(e) ==
  /\ Unlocked /\ e \in happened /\ correlation[e] = None
  /\ correlation' = [correlation EXCEPT ![e] = "unattributed"]
  /\ todo' = {e}
  /\ UNCHANGED <<happened, refs, fees, position, up, dirty, torn>>

\* UPDATE ... SET correlation_id, when its order_ref is known.
Attribute(e) ==
  /\ up /\ e \in todo
  /\ todo' = todo \ {e}
  /\ LET k == Match(OrderOf[e])
     IN IF k = None
        THEN UNCHANGED <<correlation, dirty>>
        ELSE /\ correlation' = [correlation EXCEPT ![e] = k]
             /\ dirty' = dirty \cup {k}
  /\ UNCHANGED <<happened, refs, fees, position, up, torn>>

Rebuild(k) ==
  /\ up /\ todo = {} /\ k \in dirty
  /\ position' = [position EXCEPT ![k] = Rebuilt(k)]
  /\ dirty' = dirty \ {k}
  /\ torn' = torn \ {k}
  /\ UNCHANGED <<happened, refs, correlation, fees, up, todo>>

\* record_commission: the key of its execution, if that is known and attributed.
ToRebuildNone(e) == {}
ToRebuild(e) == {correlation[e]} \cap Keys

RecordCommission(e) ==
  /\ Unlocked /\ e \in happened \ fees
  /\ fees' = fees \cup {e}
  /\ dirty' = ToRebuild(e)
  /\ UNCHANGED <<happened, refs, correlation, position, up, todo, torn>>

\* backfill_missing_correlation_ids, at startup and in every periodic sweep.
Backfill ==
  /\ Unlocked
  /\ todo' = {e \in Execs : correlation[e] = "unattributed"}
  /\ UNCHANGED <<happened, tables, up, dirty, torn>>

Crash ==
  /\ up
  /\ up' = FALSE /\ todo' = {} /\ dirty' = {}
  /\ torn' = torn \cup dirty
  /\ UNCHANGED <<happened, tables>>

\* The tables are opened as they are; nothing is rebuilt.
Restart ==
  /\ ~up
  /\ up' = TRUE
  /\ UNCHANGED <<happened, tables, todo, dirty, torn>>

Write == (\E e \in Execs : Attribute(e)) \/ (\E k \in Keys : Rebuild(k))

Next ==
  \/ \E o \in Orders : RecordOrderRef(o)
  \/ \E e \in Execs : Trade(e) \/ RecordExecution(e) \/ RecordCommission(e)
  \/ Write \/ Backfill \/ Crash \/ Restart

Spec == Init /\ [][Next]_vars

\* An operation that has begun goes on, and the sweep thread comes round.
Fairness == WF_vars(Write) /\ WF_vars(Backfill)

FairSpec == Spec /\ Fairness

-----------------------------------------------------------------------------
(* Properties. *)

\* Every variable stays in its declared set of values.
TypeOK ==
  /\ happened \subseteq Execs /\ refs \subseteq {o \in Orders : KindOf[o] # "foreign"}
  /\ correlation \in [Execs -> Keys \cup {None, "unattributed"}]
  /\ fees \subseteq Execs
  /\ position \in [Keys -> {None} \cup PositionRows]
  /\ up \in BOOLEAN /\ todo \subseteq Execs /\ dirty \subseteq Keys /\ torn \subseteq Keys

\* "So it can never silently diverge": between operations position_state says of
\* each key what the recorded executions and commissions say, in whichever order
\* they came; only a rebuild cut off by process loss leaves it behind.
PositionCurrent ==
  \A k \in Keys \ (dirty \cup torn) : position[k] = Rebuilt(k)

\* The operator is shown CLOSED, and the sweep lets go, only when everything the
\* entry bought has been sold by its own legs: no fill that came late makes a
\* position that is still open look closed.
ClosedMeansFlat ==
  \A k \in Entries :
    LET mine == happened \cap OwnExecs(k)
    IN position[k] # None /\ position[k].lifecycle = "CLOSED" =>
         Cardinality(Bought(mine)) = Cardinality(Sold(mine))

Rank == [PARTIALLY_FILLED |-> 1, FILLED |-> 2, CLOSING |-> 3, CLOSED |-> 4]

\* A position only moves forward through its life: repeated, late or backfilled
\* executions and commissions, crashes and restarts never take one back.
LifecycleForward ==
  [][\A k \in Keys :
       position[k] # None =>
         /\ position'[k] # None
         /\ Rank[position'[k].lifecycle] >= Rank[position[k].lifecycle]]_vars

\* An execution of the app's own order, once recorded, is attributed in the end,
\* also when process loss fell between its row and its attribution.
EventuallyAttributed ==
  <>[]up =>
    \A e \in Execs :
      (correlation[e] # None /\ KindOf[OrderOf[e]] # "foreign") ~> correlation[e] \in Keys

\* "A fill landing between two sweeps, or across a restart, is still noticed and
\* acted on the next pass": an entry whose executions are all recorded becomes a
\* candidate of the sweep.
FillNoticed ==
  <>[]up =>
    \A k \in Entries :
      Cardinality({e \in Execs : correlation[e] # None /\ OwnerOf[OrderOf[e]] = k
                                 /\ KindOf[OrderOf[e]] = "entry"}) >= TargetOf[k]
      ~> (position[k] # None /\ position[k].lifecycle # "PARTIALLY_FILLED")
=============================================================================
