------------------------ MODULE ExecutionLedgerProofs ------------------------
(***************************************************************************)
(* position_state follows the recorded executions and commissions, for any *)
(* orders, keys and executions, and a position only moves forward.         *)
(*                                                                         *)
(*   LedgerInv  what an operation has still to attribute is unattributed,  *)
(*              so that attributing it takes it away from no other key     *)
(*   GrowthInv  what is attributed happened, on a recorded order, to the   *)
(*              order's own key, so that the rows of a key only grow       *)
(*   BehindInv  a row of position_state is a count of fewer rows, and of   *)
(*              all the entry's own once anything of it was sold           *)
(***************************************************************************)
EXTENDS ExecutionLedger, TLAPS, FiniteSetTheorems

-----------------------------------------------------------------------------
\* The executions of a key on one side can be counted.
LEMMA Countable ==
  ASSUME NEW S, S \subseteq Execs
  PROVE  Cardinality(S) \in Nat
  BY OrdersAssumption, FS_Subset, FS_CardinalityType

\* With executions attributed to the key there is a row.
LEMMA RebuiltIsRow ==
  ASSUME NEW k \in Keys, {e \in Execs : correlation[e] = k} # {}
  PROVE  Rebuilt(k) \in PositionRows /\ Rebuilt(k) # None
<1> DEFINE rows == {e \in Execs : correlation[e] = k}
           opened == Cardinality(Bought(rows))
           closed == Cardinality(Sold(rows))
<1>1. opened \in Nat /\ closed \in Nat /\ Cardinality(rows \cap fees) \in Nat
  BY Countable DEF Bought, Sold
<1>2. Lifecycle(opened, closed, TargetOf[k]) \in Lifecycles
  BY <1>1 DEF Lifecycle, Lifecycles
<1>3. Rebuilt(k) \in PositionRows
  BY <1>1, <1>2 DEF Rebuilt, PositionRows
<1> QED
  BY <1>3, OrdersAssumption

\* A rebuilt row is a row.
LEMMA RebuiltType ==
  ASSUME NEW k \in Keys
  PROVE  Rebuilt(k) \in {None} \cup PositionRows
  BY RebuiltIsRow DEF Rebuilt

\* Of an execution that is attributed to no key, nothing is rebuilt.
LEMMA RebuiltSame ==
  ASSUME NEW k \in Keys, UNCHANGED fees,
         \A e \in Execs : correlation'[e] = k <=> correlation[e] = k
  PROVE  Rebuilt(k)' = Rebuilt(k)
<1>1. {e \in Execs : correlation'[e] = k} = {e \in Execs : correlation[e] = k}
  OBVIOUS
<1> QED
  BY <1>1 DEF Rebuilt

LEMMA TypeInit == Init => TypeOK
  BY DEF Init, TypeOK

LEMMA TypeStep == TypeOK /\ [Next]_vars => TypeOK'
<1> SUFFICES ASSUME TypeOK, [Next]_vars
             PROVE  TypeOK'
  OBVIOUS
<1> USE DEF TypeOK, tables
<1>1. ASSUME NEW o \in Orders, RecordOrderRef(o)
      PROVE  TypeOK'
  BY <1>1 DEF RecordOrderRef
<1>2. ASSUME NEW e \in Execs, Trade(e)
      PROVE  TypeOK'
  BY <1>2 DEF Trade
<1>3. ASSUME NEW e \in Execs, RecordExecution(e)
      PROVE  TypeOK'
  BY <1>3 DEF RecordExecution
<1>4. ASSUME NEW e \in Execs, RecordCommission(e)
      PROVE  TypeOK'
  BY <1>4 DEF RecordCommission, ToRebuild
<1>5. ASSUME NEW e \in Execs, Attribute(e)
      PROVE  TypeOK'
  <2>1. Match(OrderOf[e]) \in Keys \cup {None}
    BY OrdersAssumption DEF Match, Keys
  <2> QED
    BY <1>5, <2>1 DEF Attribute
<1>6. ASSUME NEW k \in Keys, Rebuild(k)
      PROVE  TypeOK'
  BY <1>6, RebuiltType DEF Rebuild
<1>7. CASE Backfill
  BY <1>7 DEF Backfill
<1>8. CASE Crash
  BY <1>8 DEF Crash
<1>9. CASE Restart
  BY <1>9 DEF Restart
<1>10. CASE UNCHANGED vars
  BY <1>10 DEF vars
<1> QED
  BY <1>1, <1>2, <1>3, <1>4, <1>5, <1>6, <1>7, <1>8, <1>9, <1>10 DEF Next, Write

\* Every reachable state of the ledger is well typed: what is counted is a number
\* and what is called a lifecycle is one.
THEOREM TypeCorrect == Spec => []TypeOK
  BY TypeInit, TypeStep, PTL DEF Spec

-----------------------------------------------------------------------------
TodoInv == \A e \in todo : correlation[e] = "unattributed"

LedgerInv == TypeOK /\ TodoInv /\ PositionCurrent

LEMMA LedgerInit == Init => LedgerInv
<1> SUFFICES ASSUME Init
             PROVE  LedgerInv
  OBVIOUS
<1>1. TypeOK /\ TodoInv
  BY TypeInit DEF TodoInv, Init
<1>2. ASSUME NEW k \in Keys
      PROVE  position[k] = Rebuilt(k)
  <2>1. {e \in Execs : correlation[e] = k} = {}
    BY OrdersAssumption DEF Init
  <2>2. Rebuilt(k) = None
    BY <2>1 DEF Rebuilt
  <2> QED
    BY <2>2 DEF Init
<1> QED
  BY <1>1, <1>2 DEF LedgerInv, PositionCurrent

\* Every statement of every operation, and its loss half way, keeps the rows of
\* all keys current but those it has named as still to be rebuilt.
LEMMA LedgerStep == LedgerInv /\ [Next]_vars => LedgerInv'
<1> SUFFICES ASSUME LedgerInv, [Next]_vars
             PROVE  LedgerInv'
  OBVIOUS
<1>0. TypeOK'
  BY TypeStep DEF LedgerInv
<1> SUFFICES TodoInv' /\ PositionCurrent'
  BY <1>0 DEF LedgerInv
<1> USE DEF LedgerInv, TodoInv, PositionCurrent, TypeOK, tables
<1>1. ASSUME NEW o \in Orders, RecordOrderRef(o)
      PROVE  TodoInv' /\ PositionCurrent'
  <2>1. \A k \in Keys : Rebuilt(k)' = Rebuilt(k)
    BY <1>1, RebuiltSame DEF RecordOrderRef
  <2> QED
    BY <1>1, <2>1 DEF RecordOrderRef
<1>2. ASSUME NEW e \in Execs, Trade(e)
      PROVE  TodoInv' /\ PositionCurrent'
  <2>1. \A k \in Keys : Rebuilt(k)' = Rebuilt(k)
    BY <1>2, RebuiltSame DEF Trade
  <2> QED
    BY <1>2, <2>1 DEF Trade
<1>3. ASSUME NEW e \in Execs, RecordExecution(e)
      PROVE  TodoInv' /\ PositionCurrent'
  <2>1. \A k \in Keys, x \in Execs : correlation'[x] = k <=> correlation[x] = k
    BY <1>3, OrdersAssumption DEF RecordExecution
  <2>2. \A k \in Keys : Rebuilt(k)' = Rebuilt(k)
    BY <1>3, <2>1, RebuiltSame DEF RecordExecution
  <2> QED
    BY <1>3, <2>2 DEF RecordExecution
<1>4. ASSUME NEW e \in Execs, RecordCommission(e)
      PROVE  TodoInv' /\ PositionCurrent'
  <2>1. ASSUME NEW k \in Keys, k \notin dirty'
        PROVE  Rebuilt(k)' = Rebuilt(k)
    <3>1. correlation[e] # k
      BY <1>4, <2>1 DEF RecordCommission, ToRebuild
    <3> DEFINE rows == {x \in Execs : correlation[x] = k}
    <3>2. rows' = rows /\ rows \cap fees' = rows \cap fees
      BY <1>4, <3>1 DEF RecordCommission
    <3> QED
      BY <3>2 DEF Rebuilt
  <2>2. dirty = {}
    BY <1>4 DEF RecordCommission, Unlocked
  <2> QED
    BY <1>4, <2>1, <2>2 DEF RecordCommission
<1>5. ASSUME NEW e \in Execs, Attribute(e)
      PROVE  TodoInv' /\ PositionCurrent'
  <2>1. ASSUME NEW k \in Keys, k \notin dirty'
        PROVE  Rebuilt(k)' = Rebuilt(k)
    <3>1. correlation[e] # k /\ correlation'[e] # k
      BY <1>5, <2>1, OrdersAssumption DEF Attribute
    <3>2. \A x \in Execs : correlation'[x] = k <=> correlation[x] = k
      BY <1>5, <3>1 DEF Attribute
    <3> QED
      BY <1>5, <3>2, RebuiltSame DEF Attribute
  <2>2. dirty \subseteq dirty'
    BY <1>5 DEF Attribute
  <2> QED
    BY <1>5, <2>1, <2>2 DEF Attribute
<1>6. ASSUME NEW k \in Keys, Rebuild(k)
      PROVE  TodoInv' /\ PositionCurrent'
  <2>1. \A j \in Keys : Rebuilt(j)' = Rebuilt(j)
    BY <1>6, RebuiltSame DEF Rebuild
  <2> QED
    BY <1>6, <2>1 DEF Rebuild
<1>7. CASE Backfill
  <2>1. \A k \in Keys : Rebuilt(k)' = Rebuilt(k)
    BY <1>7, RebuiltSame DEF Backfill
  <2> QED
    BY <1>7, <2>1 DEF Backfill
<1>8. CASE Crash
  <2>1. \A k \in Keys : Rebuilt(k)' = Rebuilt(k)
    BY <1>8, RebuiltSame DEF Crash
  <2> QED
    BY <1>8, <2>1 DEF Crash
<1>9. CASE Restart
  <2>1. \A k \in Keys : Rebuilt(k)' = Rebuilt(k)
    BY <1>9, RebuiltSame DEF Restart
  <2> QED
    BY <1>9, <2>1 DEF Restart
<1>10. CASE UNCHANGED vars
  <2>1. \A k \in Keys : Rebuilt(k)' = Rebuilt(k)
    BY <1>10, RebuiltSame DEF vars
  <2> QED
    BY <1>10, <2>1 DEF vars
<1> QED
  BY <1>1, <1>2, <1>3, <1>4, <1>5, <1>6, <1>7, <1>8, <1>9, <1>10 DEF Next, Write

\* Whatever the order, repetition and delay of executions and commissions, and
\* whatever was attributed late: between operations each row of position_state is
\* what the recorded evidence says, unless process loss cut its rebuild off.
THEOREM NeverDiverges == Spec => []PositionCurrent
<1>1. LedgerInv => PositionCurrent
  BY DEF LedgerInv
<1> QED
  BY <1>1, LedgerInit, LedgerStep, PTL DEF Spec
-----------------------------------------------------------------------------
(* The rows of a key only grow, and are its own.                               *)

RowsOf(k) == {e \in Execs : correlation[e] = k}

\* What is attributed happened, on an order whose order_ref is recorded, to the
\* key that owns the order.
AttributionInv ==
  \A e \in Execs : correlation[e] \in Keys =>
    e \in happened /\ OrderOf[e] \in refs /\ correlation[e] = OwnerOf[OrderOf[e]]

RecordedInv == \A e \in Execs : correlation[e] # None => e \in happened

GrowthInv == TypeOK /\ TodoInv /\ AttributionInv /\ RecordedInv

\* No step takes an attributed execution away from its key.
LEMMA RowsGrow ==
  ASSUME TypeOK, TodoInv, [Next]_vars, NEW k \in Keys
  PROVE  RowsOf(k) \subseteq RowsOf(k)'
<1> USE DEF TypeOK, tables
<1> SUFFICES ASSUME NEW x \in Execs, correlation[x] = k
             PROVE  correlation'[x] = k
  BY DEF RowsOf
<1>0. k # None /\ k # "unattributed"
  BY OrdersAssumption
<1>1. ASSUME NEW e \in Execs, RecordExecution(e)
      PROVE  correlation'[x] = k
  BY <1>0, <1>1 DEF RecordExecution
<1>2. ASSUME NEW e \in Execs, Attribute(e)
      PROVE  correlation'[x] = k
  BY <1>0, <1>2 DEF Attribute, TodoInv
<1>3. CASE correlation' = correlation
  BY <1>3
<1> QED
  BY <1>1, <1>2, <1>3 DEF Next, Write, vars, RecordOrderRef, Trade, RecordCommission,
    Rebuild, Backfill, Crash, Restart

LEMMA GrowthInit == Init => GrowthInv
  BY TypeInit, OrdersAssumption DEF Init, GrowthInv, TodoInv, AttributionInv, RecordedInv

LEMMA GrowthStep == GrowthInv /\ [Next]_vars => GrowthInv'
<1> SUFFICES ASSUME GrowthInv, [Next]_vars
             PROVE  TodoInv' /\ AttributionInv' /\ RecordedInv'
  BY TypeStep DEF GrowthInv
<1> DEFINE Goal == TodoInv /\ AttributionInv /\ RecordedInv
<1> USE DEF GrowthInv, TodoInv, AttributionInv, RecordedInv, TypeOK, tables
<1>1. ASSUME NEW o \in Orders, RecordOrderRef(o)
      PROVE  Goal'
  BY <1>1 DEF RecordOrderRef
<1>2. ASSUME NEW e \in Execs, Trade(e)
      PROVE  Goal'
  BY <1>2 DEF Trade
<1>3. ASSUME NEW e \in Execs, RecordExecution(e)
      PROVE  Goal'
  <2>1. \A x \in Execs : correlation'[x] # correlation[x] =>
          x = e /\ correlation'[x] = "unattributed"
    BY <1>3 DEF RecordExecution
  <2> QED
    BY <1>3, <2>1, OrdersAssumption DEF RecordExecution, Unlocked
<1>4. ASSUME NEW e \in Execs, RecordCommission(e)
      PROVE  Goal'
  BY <1>4 DEF RecordCommission
<1>5. ASSUME NEW e \in Execs, Attribute(e)
      PROVE  Goal'
  <2>1. correlation[e] = "unattributed" /\ e \in happened
    BY <1>5, OrdersAssumption DEF Attribute
  <2>2. \A x \in Execs : correlation'[x] # correlation[x] =>
          x = e /\ OrderOf[e] \in refs /\ correlation'[x] = OwnerOf[OrderOf[e]]
    BY <1>5 DEF Attribute, Match
  <2> QED
    BY <1>5, <2>1, <2>2 DEF Attribute
<1>6. ASSUME NEW k \in Keys, Rebuild(k)
      PROVE  Goal'
  BY <1>6 DEF Rebuild
<1>7. CASE Backfill
  BY <1>7 DEF Backfill
<1>8. CASE Crash
  BY <1>8 DEF Crash
<1>9. CASE Restart
  BY <1>9 DEF Restart
<1>10. CASE UNCHANGED vars
  BY <1>10 DEF vars
<1> QED
  BY <1>1, <1>2, <1>3, <1>4, <1>5, <1>6, <1>7, <1>8, <1>9, <1>10 DEF Next, Write

-----------------------------------------------------------------------------
(* Bought in full before anything is sold.                                     *)

\* The sides of a set of executions, against those of a larger one.
LEMMA SidesMonotone ==
  ASSUME NEW S, NEW T, S \subseteq T, T \subseteq Execs
  PROVE  /\ Bought(S) \subseteq Bought(T) /\ Sold(S) \subseteq Sold(T)
         /\ Cardinality(Bought(S)) \in Nat /\ Cardinality(Sold(S)) \in Nat
         /\ Cardinality(Bought(T)) \in Nat /\ Cardinality(Sold(T)) \in Nat
         /\ Cardinality(Bought(S)) <= Cardinality(Bought(T))
         /\ Cardinality(Sold(S)) <= Cardinality(Sold(T))
<1>1. Bought(S) \subseteq Bought(T) /\ Sold(S) \subseteq Sold(T)
  BY DEF Bought, Sold
<1>2. Bought(T) \subseteq Execs /\ Sold(T) \subseteq Execs
  BY DEF Bought, Sold
<1>3. IsFiniteSet(Bought(T)) /\ IsFiniteSet(Sold(T))
  BY <1>2, OrdersAssumption, FS_Subset
<1>4. /\ Cardinality(Bought(S)) <= Cardinality(Bought(T))
      /\ Cardinality(Sold(S)) <= Cardinality(Sold(T))
  BY <1>1, <1>3, FS_Subset
<1>5. /\ Cardinality(Bought(S)) \in Nat /\ Cardinality(Sold(S)) \in Nat
      /\ Cardinality(Bought(T)) \in Nat /\ Cardinality(Sold(T)) \in Nat
  BY <1>1, <1>2, Countable
<1> QED
  BY <1>1, <1>4, <1>5

\* A row of position_state was right once: it is the count of fewer rows than
\* there are by now, all of its entry's once anything was sold.
RowBehind(k) ==
  position[k] # None =>
    /\ RowsOf(k) # {}
    /\ position[k].opened <= Cardinality(Bought(RowsOf(k)))
    /\ position[k].closed <= Cardinality(Sold(RowsOf(k)))
    /\ position[k].lifecycle =
         Lifecycle(position[k].opened, position[k].closed, TargetOf[k])
    /\ position[k].closed > 0 =>
         position[k].opened = Cardinality(Bought(OwnExecs(k)))

\* Protection is recorded only of an entry whose every contract is attributed.
FullBeforeLeg ==
  \A o \in refs : KindOf[o] = "leg" /\ OwnerOf[o] \in Entries =>
    Cardinality(Bought(RowsOf(OwnerOf[o]))) >= TargetOf[OwnerOf[o]]

BehindInv == FullBeforeLeg /\ \A k \in Keys : RowBehind(k)

\* The rows of a key are among its own executions.
LEMMA RowsAreOwn ==
  ASSUME GrowthInv, NEW k \in Keys
  PROVE  RowsOf(k) \subseteq OwnExecs(k) \cap happened /\ OwnExecs(k) \subseteq Execs
  BY DEF GrowthInv, AttributionInv, RowsOf, OwnExecs

\* Once a contract of a key is sold, all that its entry ever buys is attributed.
LEMMA AllBoughtOnceSold ==
  ASSUME GrowthInv, FullBeforeLeg, NEW k \in Keys, Cardinality(Sold(RowsOf(k))) > 0
  PROVE  /\ Bought(RowsOf(k)) = Bought(OwnExecs(k))
         /\ k \in Entries => Cardinality(Bought(OwnExecs(k))) = TargetOf[k]
<1>1. PICK e \in Sold(RowsOf(k)) : TRUE
  <2>1. Sold(RowsOf(k)) # {}
    BY FS_EmptySet
  <2> QED
    BY <2>1
<1>2. /\ e \in Execs /\ KindOf[OrderOf[e]] \in {"leg", "close"}
      /\ OrderOf[e] \in refs /\ OwnerOf[OrderOf[e]] = k
  BY <1>1 DEF Sold, RowsOf, GrowthInv, AttributionInv
<1>3. RowsOf(k) \subseteq OwnExecs(k) /\ OwnExecs(k) \subseteq Execs
  BY RowsAreOwn
<1>4. CASE k \in Entries
  <2>1. KindOf[OrderOf[e]] = "leg"
    BY <1>2, <1>4, FillsAssumption, OrdersAssumption
  <2>2. Cardinality(Bought(RowsOf(k))) >= TargetOf[k]
    BY <1>2, <1>4, <2>1 DEF FullBeforeLeg
  <2>3. Cardinality(Bought(OwnExecs(k))) <= TargetOf[k] /\ TargetOf[k] \in Nat
    BY <1>4, FillsAssumption, OrdersAssumption
  <2>4. /\ Cardinality(Bought(RowsOf(k))) <= Cardinality(Bought(OwnExecs(k)))
        /\ Cardinality(Bought(RowsOf(k))) \in Nat
        /\ Cardinality(Bought(OwnExecs(k))) \in Nat
        /\ Bought(RowsOf(k)) \subseteq Bought(OwnExecs(k))
    BY <1>3, SidesMonotone
  <2>5. /\ Cardinality(Bought(RowsOf(k))) = Cardinality(Bought(OwnExecs(k)))
        /\ Cardinality(Bought(OwnExecs(k))) = TargetOf[k]
    BY <2>2, <2>3, <2>4
  <2>6. IsFiniteSet(Bought(OwnExecs(k)))
    <3>1. Bought(OwnExecs(k)) \subseteq Execs
      BY <1>3 DEF Bought
    <3> QED
      BY <3>1, OrdersAssumption, FS_Subset
  <2> QED
    BY <2>4, <2>5, <2>6, FS_Subset
<1>5. CASE k \notin Entries
  <2>1. Bought(OwnExecs(k)) = {}
    BY <1>5, OrdersAssumption DEF Bought, OwnExecs, Entries
  <2> QED
    BY <1>3, <1>5, <2>1 DEF Bought
<1> QED
  BY <1>4, <1>5

LEMMA BehindInit == Init => BehindInv
  BY DEF Init, BehindInv, FullBeforeLeg, RowBehind

\* Rows that grow leave a row that is behind behind.
LEMMA BehindKept ==
  ASSUME GrowthInv, NEW k \in Keys, RowBehind(k), [Next]_vars, position'[k] = position[k]
  PROVE  RowBehind(k)'
<1>1. RowsOf(k) \subseteq RowsOf(k)' /\ RowsOf(k)' \subseteq Execs
  BY RowsGrow DEF GrowthInv, RowsOf
<1> DEFINE R == RowsOf(k)
           Q == RowsOf(k)'
<1>2. /\ Cardinality(Bought(R)) <= Cardinality(Bought(Q))
      /\ Cardinality(Sold(R)) <= Cardinality(Sold(Q))
      /\ Cardinality(Bought(R)) \in Nat /\ Cardinality(Bought(Q)) \in Nat
      /\ Cardinality(Sold(R)) \in Nat /\ Cardinality(Sold(Q)) \in Nat
  BY <1>1, SidesMonotone
<1>3. position[k] # None => position[k].opened \in Nat /\ position[k].closed \in Nat
  BY DEF GrowthInv, TypeOK, PositionRows
<1>4. Bought(Q) = Bought(RowsOf(k))' /\ Sold(Q) = Sold(RowsOf(k))'
  BY DEF Bought, Sold
<1>5. RowsOf(k) # {} => RowsOf(k)' # {}
  BY <1>1
<1> QED
  BY <1>2, <1>3, <1>4, <1>5 DEF RowBehind

\* A rebuilt row is level with the rows it was made of.
LEMMA RebuiltLevel ==
  ASSUME GrowthInv, FullBeforeLeg, NEW k \in Keys, Rebuilt(k) # None
  PROVE  /\ RowsOf(k) # {}
         /\ Rebuilt(k).opened = Cardinality(Bought(RowsOf(k)))
         /\ Rebuilt(k).closed = Cardinality(Sold(RowsOf(k)))
         /\ Rebuilt(k).lifecycle =
              Lifecycle(Rebuilt(k).opened, Rebuilt(k).closed, TargetOf[k])
         /\ Rebuilt(k).closed > 0 => Rebuilt(k).opened = Cardinality(Bought(OwnExecs(k)))
<1>1. /\ RowsOf(k) # {}
      /\ Rebuilt(k).opened = Cardinality(Bought(RowsOf(k)))
      /\ Rebuilt(k).closed = Cardinality(Sold(RowsOf(k)))
      /\ Rebuilt(k).lifecycle =
           Lifecycle(Rebuilt(k).opened, Rebuilt(k).closed, TargetOf[k])
  BY DEF Rebuilt, RowsOf
<1> QED
  BY <1>1, AllBoughtOnceSold

LEMMA BehindStep == GrowthInv /\ BehindInv /\ [Next]_vars => BehindInv'
<1> SUFFICES ASSUME GrowthInv, BehindInv, [Next]_vars
             PROVE  BehindInv'
  OBVIOUS
<1>1. FullBeforeLeg'
  <2> SUFFICES ASSUME NEW o \in refs', KindOf[o] = "leg", OwnerOf[o] \in Entries
               PROVE  Cardinality(Bought(RowsOf(OwnerOf[o])'))  >= TargetOf[OwnerOf[o]]
    BY DEF FullBeforeLeg, Bought
  <2> DEFINE k == OwnerOf[o]
  <2>0. k \in Keys /\ TargetOf[k] \in Nat
    BY OrdersAssumption DEF Entries, Keys
  <2>1. Cardinality(Bought(RowsOf(k))) >= TargetOf[k]
    <3>1. CASE o \in refs
      BY <3>1 DEF BehindInv, FullBeforeLeg
    <3>2. CASE o \notin refs
      <4>1. RecordOrderRef(o)
        BY <3>2 DEF Next, Write, vars, tables, RecordOrderRef, Trade, RecordExecution,
          RecordCommission, Attribute, Rebuild, Backfill, Crash, Restart
      <4>2. position[k] # None /\ position[k].lifecycle = "FILLED"
        BY <4>1 DEF RecordOrderRef, Filled
      <4>3. position[k].opened \in Nat /\ position[k].closed \in Nat
        BY <2>0, <4>2 DEF GrowthInv, TypeOK, PositionRows
      <4>4. /\ position[k].opened <= Cardinality(Bought(RowsOf(k)))
            /\ "FILLED" = Lifecycle(position[k].opened, position[k].closed, TargetOf[k])
        BY <2>0, <4>2 DEF BehindInv, RowBehind
      <4>5. position[k].opened >= TargetOf[k]
        BY <4>3, <4>4, <2>0 DEF Lifecycle
      <4>6. Cardinality(Bought(RowsOf(k))) \in Nat
        BY SidesMonotone DEF RowsOf
      <4> QED
        BY <2>0, <4>3, <4>4, <4>5, <4>6
    <3> QED
      BY <3>1, <3>2
  <2>2. RowsOf(k) \subseteq RowsOf(k)' /\ RowsOf(k)' \subseteq Execs
    BY <2>0, RowsGrow DEF GrowthInv, RowsOf
  <2> DEFINE R == RowsOf(k)
             Q == RowsOf(k)'
  <2>3. /\ Cardinality(Bought(R)) <= Cardinality(Bought(Q))
        /\ Cardinality(Bought(R)) \in Nat /\ Cardinality(Bought(Q)) \in Nat
    BY <2>2, SidesMonotone
  <2> QED
    BY <2>0, <2>1, <2>3
<1>2. ASSUME NEW k \in Keys
      PROVE  RowBehind(k)'
  <2>1. CASE position'[k] = position[k]
    BY <2>1, BehindKept DEF BehindInv
  <2>2. CASE position'[k] # position[k]
    <3>1. Rebuild(k) /\ position'[k] = Rebuilt(k)
      BY <2>2 DEF Next, Write, vars, tables, RecordOrderRef, Trade, RecordExecution,
        RecordCommission, Attribute, Rebuild, Backfill, Crash, Restart, GrowthInv, TypeOK
    <3>2. RowsOf(k)' = RowsOf(k)
      BY <3>1 DEF Rebuild, RowsOf
    <3>3. /\ Cardinality(Bought(RowsOf(k))) \in Nat
          /\ Cardinality(Sold(RowsOf(k))) \in Nat
      BY SidesMonotone DEF RowsOf
    <3>4. /\ Bought(RowsOf(k))' = Bought(RowsOf(k)) /\ Sold(RowsOf(k))' = Sold(RowsOf(k))
          /\ Bought(OwnExecs(k))' = Bought(OwnExecs(k))
      BY <3>2 DEF Bought, Sold
    <3>5. Rebuilt(k) # None =>
            /\ RowsOf(k) # {}
            /\ Rebuilt(k).opened <= Cardinality(Bought(RowsOf(k)))
            /\ Rebuilt(k).closed <= Cardinality(Sold(RowsOf(k)))
            /\ Rebuilt(k).lifecycle =
                 Lifecycle(Rebuilt(k).opened, Rebuilt(k).closed, TargetOf[k])
            /\ Rebuilt(k).closed > 0 =>
                 Rebuilt(k).opened = Cardinality(Bought(OwnExecs(k)))
      BY <3>3, RebuiltLevel DEF BehindInv
    <3> QED
      BY <3>1, <3>2, <3>4, <3>5 DEF RowBehind
  <2> QED
    BY <2>1, <2>2
<1> QED
  BY <1>1, <1>2 DEF BehindInv

\* An entry is called CLOSED, and let go, only when all it bought is sold again,
\* whatever comes late, repeated or after a crash.
THEOREM ClosedIsFlat == Spec => []ClosedMeansFlat
<1>1. ASSUME GrowthInv, BehindInv
      PROVE  ClosedMeansFlat
  <2> SUFFICES ASSUME NEW k \in Entries, position[k] # None,
                      position[k].lifecycle = "CLOSED"
               PROVE  Cardinality(Bought(happened \cap OwnExecs(k)))
                        = Cardinality(Sold(happened \cap OwnExecs(k)))
    BY DEF ClosedMeansFlat
  <2> DEFINE mine == happened \cap OwnExecs(k)
  <2>0. k \in Keys /\ TargetOf[k] \in Nat
    BY OrdersAssumption DEF Entries, Keys
  <2>1. position[k].opened \in Nat /\ position[k].closed \in Nat
    BY <1>1, <2>0 DEF GrowthInv, TypeOK, PositionRows
  <2>2. position[k].closed > 0 /\ position[k].opened <= position[k].closed
    BY <1>1, <2>0, <2>1 DEF BehindInv, RowBehind, Lifecycle
  <2>3. /\ RowsOf(k) \subseteq mine /\ mine \subseteq OwnExecs(k)
        /\ OwnExecs(k) \subseteq Execs
    BY <1>1, <2>0, RowsAreOwn
  <2>4. /\ Cardinality(Sold(RowsOf(k))) \in Nat
        /\ Cardinality(Sold(RowsOf(k))) <= Cardinality(Sold(mine))
        /\ Cardinality(Sold(mine)) \in Nat
        /\ Cardinality(Sold(mine)) <= Cardinality(Sold(OwnExecs(k)))
        /\ Cardinality(Sold(OwnExecs(k))) \in Nat
        /\ Cardinality(Bought(OwnExecs(k))) \in Nat
        /\ Bought(RowsOf(k)) \subseteq Bought(mine)
        /\ Bought(mine) \subseteq Bought(OwnExecs(k))
    BY <2>3, SidesMonotone
  <2>5. /\ position[k].closed <= Cardinality(Sold(RowsOf(k)))
        /\ position[k].opened = Cardinality(Bought(OwnExecs(k)))
    BY <1>1, <2>0, <2>2 DEF BehindInv, RowBehind
  <2>6. /\ Bought(RowsOf(k)) = Bought(OwnExecs(k))
        /\ Cardinality(Bought(OwnExecs(k))) = TargetOf[k]
    BY <1>1, <2>0, <2>1, <2>2, <2>4, <2>5, AllBoughtOnceSold DEF BehindInv
  <2>7. Bought(mine) = Bought(OwnExecs(k))
    BY <2>4, <2>6
  <2>8. Cardinality(Sold(OwnExecs(k))) <= TargetOf[k]
    BY FillsAssumption
  <2> QED
    BY <2>0, <2>1, <2>2, <2>4, <2>5, <2>6, <2>7, <2>8
<1> QED
  BY <1>1, GrowthInit, GrowthStep, BehindInit, BehindStep, PTL DEF Spec

\* From one row to the next of the same key the lifecycle does not go back.
LEMMA ForwardStep ==
  ASSUME GrowthInv, BehindInv, NEW k \in Keys, Rebuild(k), position[k] # None
  PROVE  /\ Rebuilt(k) # None
         /\ Rank[Rebuilt(k).lifecycle] >= Rank[position[k].lifecycle]
<1> DEFINE o == position[k].opened
           c == position[k].closed
           oo == Cardinality(Bought(RowsOf(k)))
           cc == Cardinality(Sold(RowsOf(k)))
<1>1. o \in Nat /\ c \in Nat /\ TargetOf[k] \in Nat
  BY OrdersAssumption DEF GrowthInv, TypeOK, PositionRows
<1>2. oo \in Nat /\ cc \in Nat
  BY SidesMonotone DEF RowsOf
<1>3. o <= oo /\ c <= cc /\ position[k].lifecycle = Lifecycle(o, c, TargetOf[k])
  BY DEF BehindInv, RowBehind
<1>4. Rebuilt(k) # None
  <2>1. RowsOf(k) # {}
    BY DEF BehindInv, RowBehind
  <2> QED
    BY <2>1, RebuiltIsRow DEF RowsOf
<1>5. Rebuilt(k).lifecycle = Lifecycle(oo, cc, TargetOf[k])
  BY <1>4 DEF Rebuilt, RowsOf
<1>6. c > 0 => o = oo
  <2> SUFFICES ASSUME c > 0
               PROVE  o = oo
    OBVIOUS
  <2>1. o = Cardinality(Bought(OwnExecs(k)))
    BY DEF BehindInv, RowBehind
  <2>2. Bought(RowsOf(k)) = Bought(OwnExecs(k))
    BY <1>1, <1>2, <1>3, AllBoughtOnceSold DEF BehindInv
  <2> QED
    BY <2>1, <2>2
<1> HIDE DEF o, c, oo, cc
<1>7. Rank[Lifecycle(oo, cc, TargetOf[k])] >= Rank[Lifecycle(o, c, TargetOf[k])]
  BY <1>1, <1>2, <1>3, <1>6 DEF Lifecycle, Rank
<1> QED
  BY <1>3, <1>4, <1>5, <1>7

\* A position only moves forward: repeated, late or backfilled executions and
\* commissions, crashes and restarts never take one back.
THEOREM NeverBack == Spec => LifecycleForward
<1>1. ASSUME GrowthInv, BehindInv, [Next]_vars, NEW k \in Keys, position[k] # None
      PROVE  /\ position'[k] # None
             /\ Rank[position'[k].lifecycle] >= Rank[position[k].lifecycle]
  <2>1. CASE position'[k] = position[k]
    <3>1. Rank[position[k].lifecycle] \in Nat
      BY <1>1 DEF GrowthInv, TypeOK, Rank, Lifecycles, PositionRows
    <3> QED
      BY <1>1, <2>1, <3>1
  <2>2. CASE position'[k] # position[k]
    <3>1. Rebuild(k) /\ position'[k] = Rebuilt(k)
      BY <1>1, <2>2 DEF Next, Write, vars, tables, RecordOrderRef, Trade, RecordExecution,
        RecordCommission, Attribute, Rebuild, Backfill, Crash, Restart, GrowthInv, TypeOK
    <3> QED
      BY <1>1, <3>1, ForwardStep
  <2> QED
    BY <2>1, <2>2
<1>2. GrowthInv /\ BehindInv /\ [Next]_vars =>
        [\A k \in Keys :
           position[k] # None =>
             /\ position'[k] # None
             /\ Rank[position'[k].lifecycle] >= Rank[position[k].lifecycle]]_vars
  BY <1>1
<1> QED
  BY <1>2, GrowthInit, GrowthStep, BehindInit, BehindStep, PTL DEF Spec, LifecycleForward
=============================================================================
