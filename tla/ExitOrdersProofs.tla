------------------------- MODULE ExitOrdersProofs -------------------------
(***************************************************************************)
(* Proofs about ExitOrders, for every allocation of every entry over any   *)
(* levels, any number of top-up rows and any close requests:               *)
(*                                                                         *)
(*   TypeInv     types, the two threads, the rows and the orders           *)
(*   TrackedInv  one row of a slice in play, one order of an OCA group     *)
(*               trading, no live order with a row that calls it gone      *)
(*   AloneInv    what a close in flight has excluded                       *)
(*                                                                         *)
(* Between the first layer and the others stand four lemmas that say what  *)
(* one step can do to one row or one order (RowMoves, OrderMoves,          *)
(* CloseMoves, FillExclusive): the later layers reason from those, not     *)
(* from the actions.                                                       *)
(***************************************************************************)
EXTENDS ExitOrders, SumsProofs

-----------------------------------------------------------------------------
(* Sums, and the orders in which families and legs are visited.                *)

LEMMA LegsFinite ==
  /\ IsFiniteSet(Families) /\ IsFiniteSet(Legs) /\ IsFiniteSet(Orders)
  /\ IsFiniteSet(Levels)
<1>1. IsFiniteSet(Roles)
  <2>1. Roles = ({} \cup {"TAKE_PROFIT"}) \cup {"STOP_LOSS"}
    BY DEF Roles
  <2>2. IsFiniteSet({} \cup {"TAKE_PROFIT"})
    BY FS_EmptySet, FS_AddElement
  <2>3. IsFiniteSet(({} \cup {"TAKE_PROFIT"}) \cup {"STOP_LOSS"})
    BY <2>2, FS_AddElement
  <2> QED
    BY <2>1, <2>3
<1>2. IsFiniteSet(Roles \X Levels)
  BY <1>1, LevelsAssumption, FS_Product
<1>3. IsFiniteSet(1..MaxIndex)
  BY BoundsAssumption, FS_Interval
<1>4. IsFiniteSet(Levels \X (1..MaxIndex))
  BY <1>3, LevelsAssumption, FS_Product
<1>5. IsFiniteSet(Roles \X (Levels \X (1..MaxIndex)))
  BY <1>1, <1>4, FS_Product
<1> DEFINE f == [g \in Legs |-> <<g[1], <<g[2], g[3]>>>>]
<1>6. f \in Injection(Legs, Roles \X (Levels \X (1..MaxIndex)))
  BY DEF Legs, Injection, IsInjective
<1>7. IsFiniteSet(Legs)
  BY <1>5, <1>6, FS_Injection
<1> QED
  BY <1>2, <1>7, LevelsAssumption, ClosesAssumption, FS_Union DEF Families, Orders

LEMMA NextFamilyIn ==
  ASSUME NEW S, S \subseteq Families, S # {}
  PROVE  NextFamily(S) \in S
<1>1. PICK n \in {f[2] : f \in S} : \A m \in {f[2] : f \in S} : n <= m
  <2>1. {f[2] : f \in S} \subseteq Nat
    BY LevelsAssumption DEF Families
  <2> QED
    BY <2>1, NatMin
<1> DEFINE T == {f \in S : f[2] = n}
<1>2. PICK f \in T : f[1] = "TAKE_PROFIT" \/ \A g \in T : g[1] # "TAKE_PROFIT"
  BY <1>1
<1>3. \A g \in S \ {f} : FamilyBefore(f, g)
  <2> SUFFICES ASSUME NEW g \in S \ {f}
               PROVE  FamilyBefore(f, g)
    OBVIOUS
  <2>1. f[2] = n /\ n <= g[2] /\ n \in Nat /\ g[2] \in Nat
    BY <1>1, <1>2, LevelsAssumption DEF Families
  <2>2. CASE g[2] = n
    <3>1. f[1] \in Roles /\ g[1] \in Roles /\ f = <<f[1], f[2]>> /\ g = <<g[1], g[2]>>
      BY <1>2 DEF Families
    <3>2. f[1] # g[1]
      BY <2>1, <2>2, <3>1
    <3> QED
      BY <1>2, <2>1, <2>2, <3>1, <3>2 DEF FamilyBefore, Roles
  <2> QED
    BY <2>1, <2>2 DEF FamilyBefore
<1> QED
  BY <1>2, <1>3 DEF NextFamily

\* A flatten has a first leg as long as one is left to cancel.
LEMMA FirstLegIn ==
  ASSUME NEW S, S \subseteq Legs, S # {}
  PROVE  FirstLeg(S) \in S
<1>1. PICK r \in Roles : /\ \E g \in S : g[1] = r
                         /\ r = "STOP_LOSS" \/ \A g \in S : g[1] # "STOP_LOSS"
  BY DEF Legs, Roles
<1> DEFINE T == {g \in S : g[1] = r}
<1>2. PICK n \in {g[2] : g \in T} : \A m \in {g[2] : g \in T} : n <= m
  <2>1. {g[2] : g \in T} \subseteq Nat /\ {g[2] : g \in T} # {}
    BY <1>1, LevelsAssumption DEF Legs
  <2> QED
    BY <2>1, NatMin
<1> DEFINE U == {g \in T : g[2] = n}
<1>3. PICK i \in {g[3] : g \in U} : \A m \in {g[3] : g \in U} : i <= m
  <2>1. {g[3] : g \in U} \subseteq Nat /\ {g[3] : g \in U} # {}
    BY <1>2, BoundsAssumption DEF Legs
  <2> QED
    BY <2>1, NatMin
<1>4. PICK g \in U : g[3] = i
  BY <1>3
<1>5. \A h \in S \ {g} : LegBefore(g, h)
  <2> SUFFICES ASSUME NEW h \in S \ {g}
               PROVE  LegBefore(g, h)
    OBVIOUS
  <2>1. /\ g[1] = r /\ g[2] = n /\ g[3] = i /\ g[2] \in Nat /\ g[3] \in Nat
        /\ g = <<g[1], g[2], g[3]>>
    BY <1>4, LevelsAssumption, BoundsAssumption DEF Legs
  <2>2. h[1] \in Roles /\ h[2] \in Nat /\ h[3] \in Nat /\ h = <<h[1], h[2], h[3]>>
    BY LevelsAssumption, BoundsAssumption DEF Legs
  <2>3. CASE h[1] # r
    BY <1>1, <2>1, <2>2, <2>3 DEF LegBefore, Roles
  <2>4. CASE h[1] = r /\ h[2] # n
    <3>1. n <= h[2]
      BY <1>2, <2>4
    <3> QED
      BY <2>1, <2>2, <2>4, <3>1 DEF LegBefore
  <2>5. CASE h[1] = r /\ h[2] = n
    <3>1. i <= h[3]
      BY <1>3, <2>5
    <3>2. h[3] # i
      BY <2>1, <2>2, <2>5
    <3> QED
      BY <2>1, <2>2, <2>5, <3>1, <3>2 DEF LegBefore
  <2> QED
    BY <2>3, <2>4, <2>5
<1> QED
  BY <1>4, <1>5 DEF FirstLeg

-----------------------------------------------------------------------------
(* The first layer: types, the two threads, the rows and the orders.           *)

\* The sweep and the request hold the lock in turn, with a row in hand, and
\* neither outlives the process.
Control ==
  /\ SweepHoldsLock => cpc = "idle"
  /\ proc = "down" => spc = "idle" /\ cpc = "idle"
  /\ spc = "ensure" => todo # {}
  /\ spc = "claimed" => leg \in Legs /\ st[leg] = "PENDING_FILL_CONFIRMATION"
  /\ spc \in {"evidenced", "awaiting"} => leg \in Legs /\ st[leg] = "SUBMITTING"
  /\ cpc # "idle" => close \in Closes /\ cst[close] = "SUBMITTING"
  /\ cpc \in {"cancel", "cancelling"} <=> tocancel # {}

Unplaced == {"NONE", "PENDING_FILL_CONFIRMATION", "SKIPPED_ZERO_ALLOCATION"}

\* Rows are made index by index, each for the whole allocation of its level, and
\* have no order before they are SUBMITTING.
RowInv ==
  \A g \in Legs :
    /\ st[g] # "NONE" => \A i \in 1..g[3] : st[<<g[1], g[2], i>>] # "NONE"
    /\ st[g] \in Unplaced => order[g] = "none"
    /\ st[g] \notin {"NONE", "SKIPPED_ZERO_ALLOCATION"} =>
         qty[g] = Alloc[g[2]] /\ qty[g] >= 1

\* An order sells no more than its quantity, and only when it works.
OrderInv ==
  /\ spc = "evidenced" => order[leg] = "none"
  /\ cpc \notin {"idle", "awaiting"} => order[close] = "none"
  /\ cpc \in {"sized", "evidenced"} => cqty[close] >= 1
  /\ \A c \in Closes : cst[c] = "NONE" => order[c] = "none"
  /\ \A o \in Orders :
       /\ order[o] \in {"none", "sent", "lost", "rejected"} => filled[o] = 0
       /\ order[o] \in {"sent", "working"} => filled[o] < Quantity(o)
       /\ seen[o] <= filled[o] /\ filled[o] <= Quantity(o)

TypeInv == TypeOK /\ Control /\ RowInv /\ OrderInv

\* What is read of the sums is a number.
LEMMA QuantityType ==
  ASSUME TypeOK
  PROVE  /\ \A g \in Legs : qty[g] \in Nat
         /\ \A o \in Orders : Quantity(o) \in Nat /\ filled[o] \in Nat
<1>1. N \in Nat
  BY AllocAssumption
<1>2. \A g \in Legs : qty[g] \in 0..N
  BY DEF TypeOK
<1>3. \A c \in Closes : cqty[c] \in 0..N
  BY DEF TypeOK
<1>4. \A o \in Orders : filled[o] \in 0..N
  BY DEF TypeOK
<1> QED
  BY <1>1, <1>2, <1>3, <1>4 DEF Quantity, Orders

LEMMA CommittedType == ASSUME TypeOK, NEW f PROVE CommittedQty(f) \in Nat
<1> DEFINE placed == {g \in Rows(f) : st[g] \in {"SUBMITTED", "FILLED"}}
<1>1. placed \in SUBSET Legs
  BY DEF Rows, LegsOf
<1>2. IsFiniteSet(placed)
  BY <1>1, LegsFinite, FS_Subset
<1>3. \A g \in placed : qty[g] \in Int
  BY <1>1, QuantityType
<1> HIDE DEF placed
<1>4. Total(qty, placed) \in Nat
  BY <1>2, <1>3, TotalType
<1> QED
  BY <1>4 DEF CommittedQty, placed

LEMMA WorkingType == ASSUME TypeOK PROVE WorkingExitQuantity \in Nat /\ Sold(Orders) \in Nat
<1> DEFINE first == {FirstLeg(SubmittedIn(x)) : x \in {y \in Groups : SubmittedIn(y) # {}}}
           rest == [o \in Orders |-> Quantity(o) - filled[o]]
<1>1. first \in SUBSET Legs
  BY FirstLegIn DEF SubmittedIn
<1>2. OtherWorking \in SUBSET Orders
  BY DEF OtherWorking
<1>3. IsFiniteSet(first) /\ IsFiniteSet(OtherWorking) /\ IsFiniteSet(Orders)
  BY <1>1, <1>2, LegsFinite, FS_Subset
<1>4. \A g \in first : qty[g] \in Int
  BY <1>1, QuantityType
<1>5. \A o \in OtherWorking : rest[o] \in Int
  BY <1>2, QuantityType
<1>6. \A o \in Orders : filled[o] \in Int
  BY QuantityType
<1> HIDE DEF first, rest
<1>7. /\ Total(qty, first) \in Nat /\ Total(rest, OtherWorking) \in Nat
      /\ Total(filled, Orders) \in Nat
  BY <1>3, <1>4, <1>5, <1>6, TotalType
<1> QED
  BY <1>7 DEF WorkingExitQuantity, ProtectionReserved, OtherReserved, Sold, first, rest

LEMMA TypeInit == Init => TypeInv
<1> SUFFICES ASSUME Init
             PROVE  TypeInv
  OBVIOUS
<1> USE AllocAssumption DEF Init
<1>1. TypeOK
  BY DEF TypeOK, LegStatuses, CloseStatuses, OrderStates, SweepSteps, CloseSteps
<1>2. Control
  BY DEF Control, SweepHoldsLock
<1>3. RowInv
  BY DEF RowInv, Orders, Unplaced
<1>4. OrderInv
  BY DEF OrderInv, Orders, Quantity
<1> QED
  BY <1>1, <1>2, <1>3, <1>4 DEF TypeInv

\* The family in hand, and the row a claim would make: the first index free.
LEMMA FamilyIn ==
  ASSUME TypeOK, Control, spc = "ensure"
  PROVE  Family \in Families /\ Family \in todo
  BY NextFamilyIn DEF TypeOK, Control, Family

LEMMA TypeOKStep == TypeInv /\ [Next]_vars => TypeOK'
<1> SUFFICES ASSUME TypeInv, [Next]_vars
             PROVE  TypeOK'
  OBVIOUS
<1> USE DEF TypeInv, TypeOK, Control, ledgerVars, closeRows, sweepVars, requestVars,
        LegStatuses, CloseStatuses, CancelStatuses, OrderStates, SweepSteps, CloseSteps
<1>0. 0 \in 0..N
  BY AllocAssumption
<1>1. CASE ReconcileTransport
  <2>1. \A c \in Closes : \A e, l : Resolved(c, e, l) \in Outcomes \cup {None}
    BY DEF Resolved, Outcomes
  <2>2. PICK swept \in BOOLEAN, listed \in BOOLEAN :
          LET execs == IF swept THEN filled ELSE seen
              completed == IF listed THEN {o \in Orders : order[o] = "cancelled"} ELSE {}
          IN  /\ seen' = execs
              /\ cres' = [c \in Closes |-> Resolved(c, execs, completed)]
    BY <1>1 DEF ReconcileTransport
  <2>3. seen' \in [Orders -> 0..N] /\ cres' \in [Closes -> Outcomes \cup {None}]
    BY <2>1, <2>2
  <2> QED
    BY <1>1, <2>3 DEF ReconcileTransport
<1>2. CASE MarkFilled
  <2>1. WorkingWithExecutions \subseteq Legs
    BY DEF WorkingWithExecutions
  <2> QED
    BY <1>2, <2>1 DEF MarkFilled, Groups
<1>3. CASE SkipFamily
  BY <1>3, FamilyIn DEF SkipFamily, FamilyDone
<1>4. CASE SkipZeroAllocation
  BY <1>4, FamilyIn DEF SkipZeroAllocation, FamilyDone
<1>5. CASE ResumeLeg
  BY <1>5 DEF ResumeLeg, Resumable, Rows, LegsOf
<1>6. CASE ClaimLeg
  <2> DEFINE g == <<Family[1], Family[2], Cardinality(Rows(Family)) + 1>>
  <2>1. Family \in Families /\ Delta(Family) > 0
    BY <1>6, FamilyIn DEF ClaimLeg
  <2>2. Rows(Family) \in SUBSET Legs
    BY DEF Rows, LegsOf
  <2>3. Cardinality(Rows(Family)) \in Nat
    BY <2>2, LegsFinite, FS_Subset, FS_CardinalityType
  <2>4. Cardinality(Rows(Family)) < MaxIndex
    BY <1>6 DEF ClaimLeg
  <2>5. g \in Legs
    BY <2>1, <2>3, <2>4, BoundsAssumption DEF Legs, Families
  <2>6. Delta(Family) \in 0..N
    BY <2>1, CommittedType, AllocAssumption DEF Delta, Families
  <2> QED
    BY <1>6, <2>5, <2>6 DEF ClaimLeg
<1>7. CASE MarkCancelledByOca \/ EnsureProtection \/ NothingToProtect \/ PricingFails \/
           RecordLegEvidence \/ PlaceLeg \/ PlaceLegDisconnected \/ PlaceLegReturns
  BY <1>7 DEF MarkCancelledByOca, EnsureProtection, NothingToProtect, PricingFails,
     LegEnds, FamilyDone, RecordLegEvidence, PlaceLeg, PlaceLegDisconnected,
     PlaceLegReturns, Verdicts
<1>8. ASSUME NEW c \in Closes, BeginClose(c)
      PROVE  TypeOK'
  BY <1>8 DEF BeginClose, CloseStep, LegsToCancel
<1>9. CASE CancelIntentRefused
  BY <1>9, <1>0 DEF CancelIntentRefused, CloseEnds
<1>10. CASE CancelAmbiguous
  BY <1>10, <1>0 DEF CancelAmbiguous, CloseEnds
<1>11. CASE ReadPosition
  <2>1. Position \in 0..N
    BY <1>11, WorkingType, AllocAssumption DEF ReadPosition, Position
  <2> QED
    BY <1>11, <2>1 DEF ReadPosition
<1>12. CASE ReadWorkingOrders
  <2> DEFINE available == held - WorkingExitQuantity
  <2>1. 1 <= available /\ CloseQuantity(available) <= available
    BY <1>12 DEF ReadWorkingOrders
  <2>2. available \in 0..N
    BY <2>1, WorkingType, AllocAssumption
  <2>3. CloseQuantity(available) \in 0..N
    BY <2>1, <2>2, BoundsAssumption, AllocAssumption DEF CloseQuantity
  <2>4. cqty' = [cqty EXCEPT ![close] = CloseQuantity(available)]
    BY <1>12 DEF ReadWorkingOrders
  <2> HIDE DEF available
  <2> QED
    BY <1>12, <2>3, <2>4 DEF ReadWorkingOrders
<1>13. CASE BlockClose
  BY <1>13, <1>0 DEF BlockClose, CloseEnds
<1>14. CASE PlaceCloseDisconnected
  BY <1>14, <1>0 DEF PlaceCloseDisconnected, CloseEnds
<1>15. CASE PlaceCloseReturns
  BY <1>15, <1>0 DEF PlaceCloseReturns, CloseEnds, Verdicts
<1>16. CASE \/ CancelIntent \/ CancelConfirmed \/ RecordCloseEvidence \/ PlaceClose
            \/ \E c \in Closes : RefuseClose(c)
  BY <1>16 DEF RefuseClose, CancelIntent, CancelConfirmed, CancelProven, CloseStep,
     RecordCloseEvidence, PlaceClose
<1>17. ASSUME NEW o \in Orders, ExecDetails(o)
       PROVE  TypeOK'
  <2>1. seen[o] + 1 \in 0..N
    BY <1>17, AllocAssumption DEF ExecDetails
  <2> QED
    BY <1>17, <2>1 DEF ExecDetails
<1>18. CASE Crash
  BY <1>18, <1>0 DEF Crash
<1>19. CASE Restart
  BY <1>19 DEF Restart, SweptLeg, SweptCancel, SweptClose
<1>20. CASE ConnectionClosed
  BY <1>20 DEF ConnectionClosed
<1>21. ASSUME NEW o \in Orders, BrokerFills(o)
       PROVE  TypeOK'
  <2>1. filled[o] + 1 \in 0..N
    BY <1>21, AllocAssumption DEF BrokerFills, OrderInv, Quantity, Orders
  <2> QED
    BY <1>21, <2>1 DEF BrokerFills
<1>22. CASE \E o \in Orders : BrokerAccepts(o) \/ BrokerRejects(o) \/ OrderLost(o) \/
            BrokerCancels(o)
  BY <1>22 DEF BrokerAccepts, BrokerRejects, OrderLost, BrokerCancels
<1>23. CASE UNCHANGED vars
  BY <1>23 DEF vars
<1> QED
  BY <1>1, <1>2, <1>3, <1>4, <1>5, <1>6, <1>7, <1>8, <1>9, <1>10, <1>11, <1>12, <1>13,
     <1>14, <1>15, <1>16, <1>17, <1>18, <1>19, <1>20, <1>21, <1>22, <1>23
     DEF Next, Sweep, Request, Process, Broker

LEMMA ClaimedRow ==
  ASSUME TypeInv, ClaimLeg
  PROVE  LET g == <<Family[1], Family[2], Cardinality(Rows(Family)) + 1>>
         IN  g \in Legs
<1> DEFINE g == <<Family[1], Family[2], Cardinality(Rows(Family)) + 1>>
<1>1. Family \in Families /\ Delta(Family) > 0
  BY FamilyIn DEF ClaimLeg, TypeInv
<1>2. Rows(Family) \in SUBSET Legs
  BY DEF Rows, LegsOf
<1>3. Cardinality(Rows(Family)) \in Nat
  BY <1>2, LegsFinite, FS_Subset, FS_CardinalityType
<1>4. Cardinality(Rows(Family)) < MaxIndex
  BY DEF ClaimLeg
<1> QED
  BY <1>1, <1>3, <1>4, BoundsAssumption DEF Legs, Families

LEMMA ControlStep == TypeInv /\ [Next]_vars => Control'
<1> SUFFICES ASSUME TypeInv, [Next]_vars
             PROVE  Control'
  OBVIOUS
<1> USE DEF TypeInv, TypeOK, Control, SweepHoldsLock, ledgerVars, closeRows, sweepVars,
        requestVars, CloseSteps, SweepSteps
<1>1. CASE MarkFilled
  BY <1>1 DEF MarkFilled, WorkingWithExecutions
<1>2. CASE SkipZeroAllocation
  BY <1>2, FamilyIn DEF SkipZeroAllocation, FamilyDone
<1>3. CASE ResumeLeg
  BY <1>3 DEF ResumeLeg, Resumable, Rows, LegsOf
<1>4. CASE ClaimLeg
  <2> DEFINE g == <<Family[1], Family[2], Cardinality(Rows(Family)) + 1>>
  <2>1. g \in Legs
    BY <1>4, ClaimedRow DEF ClaimLeg
  <2> QED
    BY <1>4, <2>1 DEF ClaimLeg
<1>5. CASE ReconcileTransport \/ MarkCancelledByOca \/ EnsureProtection \/
           NothingToProtect \/ SkipFamily \/ PricingFails \/ RecordLegEvidence \/ PlaceLeg
  BY <1>5 DEF ReconcileTransport, MarkCancelledByOca, EnsureProtection, NothingToProtect,
     SkipFamily, FamilyDone, PricingFails, LegEnds, RecordLegEvidence, PlaceLeg
<1>6. CASE PlaceLegDisconnected \/ PlaceLegReturns
  BY <1>6 DEF PlaceLegDisconnected, LegEnds, FamilyDone, PlaceLegReturns, Verdicts
<1>7. ASSUME NEW c \in Closes, BeginClose(c)
      PROVE  Control'
  BY <1>7 DEF BeginClose, CloseStep, LegsToCancel
<1>8. CASE \/ CancelIntent \/ CancelIntentRefused \/ CancelConfirmed \/ CancelAmbiguous \/
              ReadPosition \/ ReadWorkingOrders \/ BlockClose
           \/ \E c \in Closes : RefuseClose(c)
  BY <1>8 DEF RefuseClose, CancelIntent, CancelIntentRefused, CloseEnds, CancelConfirmed,
     CancelProven, CloseStep, CancelAmbiguous, ReadPosition, ReadWorkingOrders, BlockClose
<1>9. CASE RecordCloseEvidence \/ PlaceClose \/ PlaceCloseDisconnected \/
           PlaceCloseReturns
  BY <1>9 DEF RecordCloseEvidence, PlaceClose, PlaceCloseDisconnected, CloseEnds,
     PlaceCloseReturns, Verdicts
<1>10. CASE \/ ConnectionClosed \/ Crash \/ Restart
            \/ \E o \in Orders : ExecDetails(o)
  BY <1>10 DEF ExecDetails, ConnectionClosed, Crash, Restart, SweptLeg, SweptCancel,
     SweptClose
<1>11. CASE \E o \in Orders : BrokerAccepts(o) \/ BrokerRejects(o) \/ OrderLost(o) \/
            BrokerCancels(o) \/ BrokerFills(o)
  BY <1>11 DEF BrokerAccepts, BrokerRejects, OrderLost, BrokerCancels, BrokerFills
<1>12. CASE UNCHANGED vars
  BY <1>12 DEF vars
<1> QED
  BY <1>1, <1>2, <1>3, <1>4, <1>5, <1>6, <1>7, <1>8, <1>9, <1>10, <1>11, <1>12
     DEF Next, Sweep, Request, Process, Broker

\* The rows of a family are the indexes up to their number.
LEMMA RowsContiguous ==
  ASSUME TypeInv, NEW f \in Families, NEW i \in 1..MaxIndex
  PROVE  /\ Cardinality(Rows(f)) \in Nat
         /\ st[<<f[1], f[2], i>>] # "NONE" <=> i <= Cardinality(Rows(f))
<1> DEFINE row(j) == <<f[1], f[2], j>>
           n == Cardinality(Rows(f))
<1>1. f[1] \in Roles /\ f[2] \in Levels /\ f = <<f[1], f[2]>>
  BY DEF Families
<1>2. Rows(f) \in SUBSET Legs
  BY DEF Rows, LegsOf
<1>3. IsFiniteSet(Rows(f)) /\ n \in Nat
  BY <1>2, LegsFinite, FS_Subset, FS_CardinalityType
<1>4. \A j \in 1..MaxIndex : row(j) \in Legs /\ FamilyOf(row(j)) = f
  BY <1>1 DEF Legs, FamilyOf
<1>5. ASSUME st[row(i)] # "NONE"
      PROVE  i <= n
  <2>1. \A j \in 1..i : j \in 1..MaxIndex /\ st[row(j)] # "NONE"
    BY <1>4, <1>5, BoundsAssumption DEF TypeInv, RowInv
  <2>2. \A j \in 1..i : row(j) \in Rows(f)
    BY <1>4, <2>1 DEF Rows, LegsOf
  <2> DEFINE e == [j \in 1..i |-> row(j)]
  <2>3. e \in Injection(1..i, Rows(f))
    BY <2>2 DEF Injection, IsInjective
  <2>4. Cardinality(1..i) <= n
    BY <1>3, <2>3, FS_Injection
  <2>5. Cardinality(1..i) = i
    BY FS_Interval
  <2> QED
    BY <2>4, <2>5
<1>6. ASSUME st[row(i)] = "NONE"
      PROVE  n < i
  <2>1. \A g \in Rows(f) : /\ g \in Legs /\ g[1] = f[1] /\ g[2] = f[2]
                           /\ st[g] # "NONE" /\ g[3] \in 1..MaxIndex
                           /\ g = <<g[1], g[2], g[3]>>
    BY <1>1 DEF Rows, LegsOf, FamilyOf, Legs
  <2>2. ASSUME NEW g \in Rows(f)
        PROVE  g[3] \in 1..(i - 1)
    <3>1. g[3] \in 1..MaxIndex /\ g \in Legs /\ st[g] # "NONE"
      BY <2>1
    <3>2. \A j \in 1..g[3] : st[<<g[1], g[2], j>>] # "NONE"
      BY <3>1 DEF TypeInv, RowInv
    <3>3. ~(i \in 1..g[3])
      BY <1>6, <2>1, <3>2
    <3> QED
      BY <3>1, <3>3, BoundsAssumption
  <2> DEFINE e == [g \in Rows(f) |-> g[3]]
  <2>3. e \in Injection(Rows(f), 1..(i - 1))
    <3>1. e \in [Rows(f) -> 1..(i - 1)]
      BY <2>2
    <3>2. \A g, h \in Rows(f) : e[g] = e[h] => g = h
      BY <2>1
    <3> QED
      BY <3>1, <3>2 DEF Injection, IsInjective
  <2>4. i - 1 \in Nat /\ 1 \in Nat
    BY BoundsAssumption
  <2>5. IsFiniteSet(1..(i - 1)) /\ Cardinality(1..(i - 1)) = i - 1
    <3>1. IsFiniteSet(1..(i-1))
      BY <2>4, FS_Interval
    <3>2. CASE i = 1
      <4>1. Cardinality(1..(i-1)) = IF 1 > i - 1 THEN 0 ELSE (i - 1) - 1 + 1
        BY <2>4, FS_Interval
      <4> QED
        BY <3>1, <3>2, <4>1
    <3>3. CASE i # 1
      <4>1. Cardinality(1..(i-1)) = IF 1 > i - 1 THEN 0 ELSE (i - 1) - 1 + 1
        BY <2>4, FS_Interval
      <4> QED
        BY <3>1, <3>3, <4>1, <2>4
    <3> QED
      BY <3>2, <3>3
  <2>6. n <= i - 1
    BY <2>3, <2>5, FS_Injection
  <2> QED
    BY <1>3, <2>6
<1> QED
  BY <1>3, <1>5, <1>6

\* A claim is made only when nothing of the family is placed: the row it makes is
\* the first free one, and it is for the whole allocation.
LEMMA ClaimFresh ==
  ASSUME TypeInv, ClaimLeg
  PROVE  LET g == <<Family[1], Family[2], Cardinality(Rows(Family)) + 1>>
         IN  /\ g \in Legs /\ st[g] = "NONE"
             /\ \A i \in 1..Cardinality(Rows(Family)) :
                  st[<<Family[1], Family[2], i>>] # "NONE"
             /\ Delta(Family) = Alloc[Family[2]]
             /\ \A h \in Rows(Family) :
                  st[h] \in {"SKIPPED_ZERO_ALLOCATION", "BLOCKED", "CANCELLED"}
<1> DEFINE n == Cardinality(Rows(Family))
           g == <<Family[1], Family[2], n + 1>>
           placed == {h \in Rows(Family) : st[h] \in {"SUBMITTED", "FILLED"}}
<1>1. Family \in Families /\ n < MaxIndex /\ g \in Legs
  BY FamilyIn, ClaimedRow DEF ClaimLeg, TypeInv
<1>2. n \in Nat
  <2>1. 1 \in 1..MaxIndex
    BY BoundsAssumption
  <2> QED
    BY <1>1, <2>1, RowsContiguous
<1>3. n + 1 \in 1..MaxIndex
  BY <1>1, <1>2, BoundsAssumption
<1>4. st[g] = "NONE"
  <2>1. st[g] # "NONE" <=> n + 1 <= n
    BY <1>1, <1>3, RowsContiguous
  <2> QED
    BY <1>2, <2>1
<1>5. \A i \in 1..n : st[<<Family[1], Family[2], i>>] # "NONE"
  <2>1. \A i \in 1..n : i \in 1..MaxIndex /\ i <= n
    BY <1>1, <1>2, BoundsAssumption
  <2> QED
    BY <1>1, <2>1, RowsContiguous
<1>6. placed \in SUBSET Legs /\ IsFiniteSet(placed)
  <2>1. placed \in SUBSET Legs
    BY DEF Rows, LegsOf
  <2> QED
    BY <2>1, LegsFinite, FS_Subset
<1>7. Delta(Family) > 0 /\ Alloc[Family[2]] \in 0..N
  BY <1>1, AllocAssumption DEF ClaimLeg, Families
<1>8. placed = {}
  <2> SUFFICES ASSUME NEW h \in placed
               PROVE  FALSE
    OBVIOUS
  <2>1. qty[h] = Alloc[Family[2]]
    BY <1>6 DEF TypeInv, RowInv, Rows, LegsOf, FamilyOf
  <2>2. qty[h] <= Total(qty, placed)
    <3>1. \A x \in placed : qty[x] \in Nat
      BY <1>6, QuantityType DEF TypeInv
    <3> HIDE DEF placed
    <3> QED
      BY <1>6, <3>1, TotalAtLeast
  <2>3. Total(qty, placed) = CommittedQty(Family)
    BY DEF CommittedQty
  <2> QED
    BY <1>7, <2>1, <2>2, <2>3, CommittedType DEF Delta, TypeInv
<1>9. Delta(Family) = Alloc[Family[2]]
  <2>1. Units(qty, placed) = {}
    BY <1>8 DEF Units
  <2>2. CommittedQty(Family) = 0
    BY <2>1, FS_EmptySet DEF CommittedQty, Total
  <2> QED
    BY <1>7, <2>2 DEF Delta
<1>10. ASSUME NEW h \in Rows(Family)
       PROVE  st[h] \in {"SKIPPED_ZERO_ALLOCATION", "BLOCKED", "CANCELLED"}
  <2>1. h \in Legs /\ st[h] # "NONE" /\ st[h] \in LegStatuses
    BY DEF Rows, LegsOf, TypeInv, TypeOK
  <2>2. st[h] # "PENDING_FILL_CONFIRMATION"
    BY DEF ClaimLeg, Resumable
  <2>3. st[h] \notin {"SUBMISSION_UNKNOWN", "SUBMITTING"}
    BY DEF ClaimLeg, InDoubt
  <2>4. st[h] \notin {"SUBMITTED", "FILLED"}
    BY <1>8
  <2> QED
    BY <2>1, <2>2, <2>3, <2>4 DEF LegStatuses
<1> QED
  BY <1>1, <1>4, <1>5, <1>9, <1>10

\* What a step can do to the row of a leg ...
Idle == {"NONE", "SKIPPED_ZERO_ALLOCATION", "BLOCKED", "CANCELLED"}

RowMade(g) ==
  /\ spc = "ensure" /\ st[g] = "NONE"
  /\ \A i \in 1..(g[3] - 1) : st[<<g[1], g[2], i>>] # "NONE"
  /\ \A h \in LegsOf(FamilyOf(g)) : st[h] \in Idle
  /\ \/ st'[g] = "SKIPPED_ZERO_ALLOCATION"
     \/ /\ st'[g] = "PENDING_FILL_CONFIRMATION"
        /\ qty'[g] = Alloc[g[2]] /\ Alloc[g[2]] >= 1

RowSubmitted(g) ==
  /\ g = leg
  /\ \/ spc = "claimed" /\ st'[g] \in {"BLOCKED", "SUBMITTING"}
     \/ spc \in {"evidenced", "awaiting"} /\ st'[g] = "SUBMISSION_UNKNOWN"
     \/ /\ spc = "awaiting" /\ st'[g] = "SUBMITTED"
        /\ order[g] \in {"working", "filled", "cancelled"}
     \/ /\ spc = "awaiting" /\ st'[g] = "BLOCKED"
        /\ order[g] \in {"rejected", "cancelled"}

RowSettled(g) ==
  \/ st[g] = "SUBMITTED" /\ st'[g] = "FILLED"
  \/ st[g] = "SUBMITTED" /\ st'[g] = "CANCELLED" /\ spc = "oca" /\ OcaGroup(g) \in hit
  \/ st'[g] = "CANCELLED" /\ order[g] = "cancelled" /\ cpc = "cancelling"

RowSwept(g) == proc = "down" /\ st[g] = "SUBMITTING" /\ st'[g] = "SUBMISSION_UNKNOWN"

RowMove(g) ==
  \/ st'[g] = st[g] /\ qty'[g] = qty[g]
  \/ RowMade(g)
  \/ qty'[g] = qty[g] /\ (RowSubmitted(g) \/ RowSettled(g) \/ RowSwept(g))

LEMMA RowMoves ==
  ASSUME TypeInv, [Next]_vars, NEW g \in Legs
  PROVE  RowMove(g)
<1> USE DEF TypeInv, TypeOK, Control, RowMove, ledgerVars, closeRows, sweepVars,
        requestVars
<1>1. CASE MarkFilled
  BY <1>1 DEF MarkFilled, WorkingWithExecutions, RowSettled
<1>2. CASE MarkCancelledByOca
  BY <1>2 DEF MarkCancelledByOca, OcaSibling, RowSettled
<1>3. CASE SkipZeroAllocation
  <2> DEFINE r == <<Family[1], Family[2], 1>>
  <2>1. Family \in Families /\ Rows(Family) = {}
    BY <1>3, FamilyIn DEF SkipZeroAllocation
  <2>2. FamilyOf(r) = Family /\ r[3] = 1
    BY <2>1 DEF FamilyOf, Families
  <2>3. \A h \in LegsOf(Family) : st[h] = "NONE"
    BY <2>1 DEF Rows
  <2>4. CASE g = r
    BY <1>3, <2>2, <2>3, <2>4 DEF SkipZeroAllocation, RowMade, LegsOf, Idle
  <2> QED
    BY <1>3, <2>4 DEF SkipZeroAllocation
<1>4. CASE ClaimLeg
  <2> DEFINE n == Cardinality(Rows(Family))
             r == <<Family[1], Family[2], n + 1>>
  <2>1. /\ st[r] = "NONE" /\ \A i \in 1..n : st[<<Family[1], Family[2], i>>] # "NONE"
        /\ Delta(Family) = Alloc[Family[2]]
        /\ \A h \in Rows(Family) :
             st[h] \in {"SKIPPED_ZERO_ALLOCATION", "BLOCKED", "CANCELLED"}
    BY <1>4, ClaimFresh
  <2>2. Family \in Families /\ Family = <<Family[1], Family[2]>> /\ Alloc[Family[2]] \in Nat
    BY <1>4, FamilyIn, AllocAssumption DEF ClaimLeg, Families
  <2>3. \A h \in LegsOf(Family) : st[h] \in Idle
    BY <2>1 DEF Rows, Idle
  <2>4. CASE g = r
    <3>1. n \in Nat
      <4>1. 1 \in 1..MaxIndex
        BY BoundsAssumption
      <4> QED
        BY <2>2, <4>1, RowsContiguous
    <3>2. FamilyOf(g) = Family /\ g[3] - 1 = n /\ g[1] = Family[1] /\ g[2] = Family[2]
      BY <2>2, <2>4, <3>1 DEF FamilyOf
    <3>3. st'[g] = "PENDING_FILL_CONFIRMATION" /\ qty'[g] = Alloc[g[2]]
      BY <1>4, <2>1, <2>4, <3>2 DEF ClaimLeg
    <3>4. spc = "ensure" /\ Alloc[g[2]] >= 1
      BY <1>4, <2>2, <3>2 DEF ClaimLeg
    <3>5. \A i \in 1..(g[3] - 1) : st[<<g[1], g[2], i>>] # "NONE"
      BY <2>1, <3>2
    <3>6. st[g] = "NONE" /\ \A h \in LegsOf(FamilyOf(g)) : st[h] \in Idle
      BY <2>1, <2>3, <2>4, <3>2
    <3> QED
      BY <3>3, <3>4, <3>5, <3>6 DEF RowMade
  <2> QED
    BY <1>4, <2>4 DEF ClaimLeg
<1>5. CASE PricingFails
  BY <1>5 DEF PricingFails, LegEnds, RowSubmitted
<1>6. CASE RecordLegEvidence
  BY <1>6 DEF RecordLegEvidence, RowSubmitted
<1>7. CASE PlaceLegDisconnected
  BY <1>7 DEF PlaceLegDisconnected, LegEnds, RowSubmitted
<1>8. CASE PlaceLegReturns
  BY <1>8 DEF PlaceLegReturns, LegEnds, Verdicts, RowSubmitted
<1>9. CASE ReconcileTransport \/ EnsureProtection \/ NothingToProtect \/ SkipFamily \/
           ResumeLeg \/ PlaceLeg
  BY <1>9 DEF ReconcileTransport, EnsureProtection, NothingToProtect, SkipFamily,
     FamilyDone, ResumeLeg, PlaceLeg
<1>10. CASE CancelConfirmed
  BY <1>10, FirstLegIn DEF CancelConfirmed, CancelProven, CloseStep, RowSettled
<1>11. CASE \/ CancelIntent \/ CancelIntentRefused \/ CancelAmbiguous \/ ReadPosition \/
               ReadWorkingOrders \/ BlockClose
            \/ \E c \in Closes : BeginClose(c) \/ RefuseClose(c)
  BY <1>11 DEF BeginClose, CloseStep, RefuseClose, CancelIntent, CancelIntentRefused,
     CloseEnds, CancelAmbiguous, ReadPosition, ReadWorkingOrders, BlockClose
<1>12. CASE RecordCloseEvidence \/ PlaceClose \/ PlaceCloseDisconnected \/
            PlaceCloseReturns
  BY <1>12 DEF RecordCloseEvidence, PlaceClose, PlaceCloseDisconnected, CloseEnds,
     PlaceCloseReturns, Verdicts
<1>13. CASE Restart
  BY <1>13 DEF Restart, SweptLeg, RowSwept
<1>14. CASE \/ ConnectionClosed \/ Crash
            \/ \E o \in Orders : ExecDetails(o)
  BY <1>14 DEF ExecDetails, ConnectionClosed, Crash
<1>15. CASE \E o \in Orders : BrokerAccepts(o) \/ BrokerRejects(o) \/ OrderLost(o) \/
            BrokerCancels(o) \/ BrokerFills(o)
  BY <1>15 DEF BrokerAccepts, BrokerRejects, OrderLost, BrokerCancels, BrokerFills
<1>16. CASE UNCHANGED vars
  BY <1>16 DEF vars
<1> QED
  BY <1>1, <1>2, <1>3, <1>4, <1>5, <1>6, <1>7, <1>8, <1>9, <1>10, <1>11, <1>12, <1>13,
     <1>14, <1>15, <1>16
     DEF Next, Sweep, Request, Process, Broker

\* ... and to an order: the leg or the close in hand is sent, and the broker
\* takes it from there.
Sent(o) ==
  /\ order[o] = "none" /\ order'[o] = "sent" /\ filled'[o] = filled[o]
  /\ \/ o \in Legs /\ o = leg /\ spc = "evidenced"
     \/ o \in Closes /\ o = close /\ cpc = "evidenced"

BrokerMove(o) ==
  \/ order[o] = "sent" /\ order'[o] = "working" /\ ~GroupHit(o) /\ filled'[o] = filled[o]
  \/ order[o] = "sent" /\ order'[o] \in {"rejected", "lost"} /\ filled'[o] = filled[o]
  \/ order[o] = "working" /\ order'[o] = "cancelled" /\ filled'[o] = filled[o]
  \/ /\ order[o] = "working" /\ filled'[o] = filled[o] + 1
     /\ order'[o] = IF filled'[o] = Quantity(o) THEN "filled" ELSE "working"

OrderMove(o) ==
  (order'[o] = order[o] /\ filled'[o] = filled[o]) \/ Sent(o) \/ BrokerMove(o)

LEMMA OrderMoves ==
  ASSUME TypeInv, [Next]_vars, NEW x \in Orders
  PROVE  OrderMove(x)
<1> USE DEF TypeInv, TypeOK, Control, OrderInv, OrderMove, ledgerVars, closeRows,
        sweepVars, requestVars
<1>1. CASE PlaceLeg
  BY <1>1 DEF PlaceLeg, Sent
<1>2. CASE ReconcileTransport \/ MarkFilled \/ MarkCancelledByOca \/ EnsureProtection \/
           NothingToProtect \/ SkipFamily \/ SkipZeroAllocation \/ ResumeLeg
  BY <1>2 DEF ReconcileTransport, MarkFilled, MarkCancelledByOca, EnsureProtection,
     NothingToProtect, SkipFamily, FamilyDone, SkipZeroAllocation, ResumeLeg
<1>3. CASE ClaimLeg \/ PricingFails \/ RecordLegEvidence \/ PlaceLegDisconnected \/
           PlaceLegReturns
  BY <1>3 DEF ClaimLeg, PricingFails, LegEnds, FamilyDone, RecordLegEvidence,
     PlaceLegDisconnected, PlaceLegReturns, Verdicts
<1>4. CASE PlaceClose
  BY <1>4 DEF PlaceClose, Sent
<1>5. CASE \/ CancelIntent \/ CancelIntentRefused \/ CancelConfirmed \/ CancelAmbiguous \/
              ReadPosition \/ ReadWorkingOrders
           \/ \E c \in Closes : BeginClose(c) \/ RefuseClose(c)
  BY <1>5 DEF BeginClose, CloseStep, RefuseClose, CancelIntent, CancelIntentRefused,
     CloseEnds, CancelConfirmed, CancelProven, CancelAmbiguous, ReadPosition,
     ReadWorkingOrders
<1>6. CASE BlockClose \/ RecordCloseEvidence \/ PlaceCloseDisconnected \/
           PlaceCloseReturns
  BY <1>6 DEF BlockClose, CloseEnds, RecordCloseEvidence, PlaceCloseDisconnected,
     PlaceCloseReturns, Verdicts
<1>7. CASE \/ ConnectionClosed \/ Crash \/ Restart
           \/ \E o \in Orders : ExecDetails(o)
  BY <1>7 DEF ExecDetails, ConnectionClosed, Crash, Restart, SweptLeg, SweptCancel,
     SweptClose
<1>8. ASSUME NEW o \in Orders, BrokerAccepts(o)
      PROVE  OrderMove(x)
  BY <1>8 DEF BrokerAccepts, BrokerMove
<1>9. ASSUME NEW o \in Orders, BrokerRejects(o)
      PROVE  OrderMove(x)
  BY <1>9 DEF BrokerRejects, BrokerMove
<1>10. ASSUME NEW o \in Orders, OrderLost(o)
       PROVE  OrderMove(x)
  BY <1>10 DEF OrderLost, BrokerMove
<1>11. ASSUME NEW o \in Orders, BrokerCancels(o)
       PROVE  OrderMove(x)
  BY <1>11 DEF BrokerCancels, BrokerMove
<1>12. ASSUME NEW o \in Orders, BrokerFills(o)
       PROVE  OrderMove(x)
  BY <1>12 DEF BrokerFills, BrokerMove
<1>13. CASE UNCHANGED vars
  BY <1>13 DEF vars
<1> QED
  BY <1>1, <1>2, <1>3, <1>4, <1>5, <1>6, <1>7, <1>8, <1>9, <1>10, <1>11, <1>12, <1>13
     DEF Next, Sweep, Request, Process, Broker

LEMMA RowStep == TypeInv /\ [Next]_vars => RowInv'
<1> SUFFICES ASSUME TypeInv, [Next]_vars, NEW g \in Legs
             PROVE  /\ st'[g] # "NONE" => \A i \in 1..g[3] : st'[<<g[1], g[2], i>>] # "NONE"
                    /\ st'[g] \in Unplaced => order'[g] = "none"
                    /\ st'[g] \notin {"NONE", "SKIPPED_ZERO_ALLOCATION"} =>
                         qty'[g] = Alloc[g[2]] /\ qty'[g] >= 1
  BY DEF RowInv
<1> USE DEF RowSubmitted, RowSettled, RowSwept, RowMade, Unplaced
<1>0. g \in Orders /\ g = <<g[1], g[2], g[3]>> /\ g[3] \in 1..MaxIndex
  BY DEF Orders, Legs
<1>1. RowMove(g) /\ OrderMove(g)
  BY <1>0, RowMoves, OrderMoves
<1>2. RowInv /\ Control /\ OrderInv
  BY DEF TypeInv
<1>3. \A h \in Legs : st[h] # "NONE" => st'[h] # "NONE"
  <2> SUFFICES ASSUME NEW h \in Legs, st[h] # "NONE"
               PROVE  st'[h] # "NONE"
    OBVIOUS
  <2> QED
    BY RowMoves DEF RowMove
<1>4. ASSUME st'[g] # "NONE", NEW i \in 1..g[3]
      PROVE  st'[<<g[1], g[2], i>>] # "NONE"
  <2>1. <<g[1], g[2], i>> \in Legs
    BY <1>0, BoundsAssumption DEF Legs
  <2>2. CASE st[g] # "NONE"
    BY <1>2, <1>3, <2>1, <2>2 DEF RowInv
  <2>3. CASE st[g] = "NONE"
    <3>1. RowMade(g)
      BY <1>1, <1>2, <1>4, <2>3 DEF RowMove, Control, RowInv
    <3>2. CASE i = g[3]
      BY <1>0, <1>4, <3>2
    <3>3. CASE i # g[3]
      <4>1. i \in 1..(g[3] - 1)
        BY <1>0, <3>3, BoundsAssumption
      <4> QED
        BY <1>3, <2>1, <3>1, <4>1
    <3> QED
      BY <3>2, <3>3
  <2> QED
    BY <2>2, <2>3
<1>5. ASSUME st'[g] \in Unplaced
      PROVE  order'[g] = "none"
  <2>1. order[g] = "none" /\ ~(g = leg /\ spc = "evidenced")
    BY <1>1, <1>2, <1>5 DEF RowMove, Control, RowInv
  <2>2. g \notin Closes
    BY OrdersAssumption
  <2> QED
    BY <1>1, <2>1, <2>2 DEF OrderMove, Sent, BrokerMove
<1>6. ASSUME st'[g] \notin {"NONE", "SKIPPED_ZERO_ALLOCATION"}
      PROVE  qty'[g] = Alloc[g[2]] /\ qty'[g] >= 1
  BY <1>1, <1>2, <1>6 DEF RowMove, Control, RowInv
<1> QED
  BY <1>4, <1>5, <1>6

\* What a step can do to the row of a close.
CloseMove(c) ==
  /\ \/ cst'[c] = cst[c]
     \/ cst[c] = "NONE" /\ cpc = "idle" /\ cst'[c] \in {"SUBMITTING", "BLOCKED"}
     \/ c = close /\ cpc # "idle" /\ cst'[c] # "NONE"
     \/ proc = "down" /\ cst[c] = "SUBMITTING" /\ cst'[c] = "SUBMISSION_UNKNOWN"
  /\ cqty'[c] = cqty[c] \/ (c = close /\ cpc = "orders")

LEMMA CloseMoves ==
  ASSUME TypeInv, [Next]_vars, NEW d \in Closes
  PROVE  CloseMove(d)
<1> USE DEF TypeInv, TypeOK, Control, CloseMove, ledgerVars, closeRows, sweepVars,
        requestVars
<1>1. CASE ReconcileTransport \/ MarkFilled \/ MarkCancelledByOca \/ EnsureProtection \/
           NothingToProtect \/ SkipFamily \/ SkipZeroAllocation \/ ResumeLeg
  BY <1>1 DEF ReconcileTransport, MarkFilled, MarkCancelledByOca, EnsureProtection,
     NothingToProtect, SkipFamily, FamilyDone, SkipZeroAllocation, ResumeLeg
<1>2. CASE ClaimLeg \/ PricingFails \/ RecordLegEvidence \/ PlaceLeg \/
           PlaceLegDisconnected \/ PlaceLegReturns
  BY <1>2 DEF ClaimLeg, PricingFails, LegEnds, FamilyDone, RecordLegEvidence, PlaceLeg,
     PlaceLegDisconnected, PlaceLegReturns, Verdicts
<1>3. CASE PlaceCloseReturns
  BY <1>3 DEF PlaceCloseReturns, CloseEnds, Verdicts
<1>4. CASE \/ CancelIntent \/ CancelIntentRefused \/ CancelConfirmed \/ CancelAmbiguous \/
              ReadPosition \/ ReadWorkingOrders
           \/ \E c \in Closes : BeginClose(c) \/ RefuseClose(c)
  BY <1>4 DEF BeginClose, CloseStep, RefuseClose, CancelIntent, CancelIntentRefused,
     CloseEnds, CancelConfirmed, CancelProven, CancelAmbiguous, ReadPosition,
     ReadWorkingOrders
<1>5. CASE BlockClose \/ RecordCloseEvidence \/ PlaceClose \/ PlaceCloseDisconnected
  BY <1>5 DEF BlockClose, CloseEnds, RecordCloseEvidence, PlaceClose,
     PlaceCloseDisconnected
<1>6. CASE Restart
  BY <1>6 DEF Restart, SweptClose
<1>7. CASE \/ ConnectionClosed \/ Crash
           \/ \E o \in Orders : ExecDetails(o)
  BY <1>7 DEF ExecDetails, ConnectionClosed, Crash
<1>8. CASE \E o \in Orders : BrokerAccepts(o) \/ BrokerRejects(o) \/ OrderLost(o) \/
           BrokerCancels(o) \/ BrokerFills(o)
  BY <1>8 DEF BrokerAccepts, BrokerRejects, OrderLost, BrokerCancels, BrokerFills
<1>9. CASE UNCHANGED vars
  BY <1>9 DEF vars
<1> QED
  BY <1>1, <1>2, <1>3, <1>4, <1>5, <1>6, <1>7, <1>8, <1>9
     DEF Next, Sweep, Request, Process, Broker

\* What was stored of an order is no more than what it traded.
LEMMA SeenStep ==
  ASSUME TypeInv, [Next]_vars, NEW x \in Orders
  PROVE  seen'[x] <= filled'[x]
<1> USE DEF TypeInv, TypeOK, OrderInv, ledgerVars, closeRows, sweepVars, requestVars
<1>1. CASE ReconcileTransport
  <2>1. seen' \in {seen, filled} /\ filled' = filled
    BY <1>1 DEF ReconcileTransport
  <2>2. filled[x] \in 0..N /\ seen[x] <= filled[x]
    OBVIOUS
  <2> QED
    BY <2>1, <2>2, AllocAssumption
<1>2. CASE MarkFilled \/ MarkCancelledByOca \/ EnsureProtection \/ NothingToProtect \/
           SkipFamily \/ SkipZeroAllocation \/ ResumeLeg \/ ClaimLeg
  BY <1>2 DEF MarkFilled, MarkCancelledByOca, EnsureProtection, NothingToProtect,
     SkipFamily, FamilyDone, SkipZeroAllocation, ResumeLeg, ClaimLeg
<1>3. CASE PricingFails \/ RecordLegEvidence \/ PlaceLeg \/ PlaceLegDisconnected \/
           PlaceLegReturns
  BY <1>3 DEF PricingFails, LegEnds, FamilyDone, RecordLegEvidence, PlaceLeg,
     PlaceLegDisconnected, PlaceLegReturns, Verdicts
<1>4. CASE \/ CancelIntent \/ CancelIntentRefused \/ CancelConfirmed \/ CancelAmbiguous \/
              ReadPosition \/ ReadWorkingOrders
           \/ \E c \in Closes : BeginClose(c) \/ RefuseClose(c)
  BY <1>4 DEF BeginClose, CloseStep, RefuseClose, CancelIntent, CancelIntentRefused,
     CloseEnds, CancelConfirmed, CancelProven, CancelAmbiguous, ReadPosition,
     ReadWorkingOrders
<1>5. CASE BlockClose \/ RecordCloseEvidence \/ PlaceClose \/ PlaceCloseDisconnected \/
           PlaceCloseReturns
  BY <1>5 DEF BlockClose, CloseEnds, RecordCloseEvidence, PlaceClose,
     PlaceCloseDisconnected, PlaceCloseReturns, Verdicts
<1>6. ASSUME NEW o \in Orders, ExecDetails(o)
      PROVE  seen'[x] <= filled'[x]
  <2>1. filled[x] \in 0..N /\ seen[x] \in 0..N /\ filled' = filled
    BY <1>6 DEF ExecDetails
  <2> QED
    BY <1>6, <2>1, AllocAssumption DEF ExecDetails
<1>7. CASE ConnectionClosed \/ Crash \/ Restart
  BY <1>7 DEF ConnectionClosed, Crash, Restart, SweptLeg, SweptCancel, SweptClose
<1>8. ASSUME NEW o \in Orders, BrokerFills(o)
      PROVE  seen'[x] <= filled'[x]
  <2>1. filled'[x] \in {filled[x], filled[x] + 1} /\ filled[x] \in 0..N /\ seen[x] \in 0..N
    BY <1>8 DEF BrokerFills
  <2>2. seen' = seen
    BY <1>8 DEF BrokerFills
  <2> QED
    BY <2>1, <2>2, AllocAssumption
<1>9. CASE \E o \in Orders : BrokerAccepts(o) \/ BrokerRejects(o) \/ OrderLost(o) \/
           BrokerCancels(o)
  BY <1>9 DEF BrokerAccepts, BrokerRejects, OrderLost, BrokerCancels
<1>10. CASE UNCHANGED vars
  BY <1>10 DEF vars
<1> QED
  BY <1>1, <1>2, <1>3, <1>4, <1>5, <1>6, <1>7, <1>8, <1>9, <1>10
     DEF Next, Sweep, Request, Process, Broker

\* The order in hand is not out before it is placed.
InHand ==
  /\ spc = "evidenced" => order[leg] = "none"
  /\ cpc \notin {"idle", "awaiting"} => order[close] = "none"
  /\ cpc \in {"sized", "evidenced"} => cqty[close] >= 1

LEMMA InHandStep == TypeInv /\ [Next]_vars => InHand'
<1> SUFFICES ASSUME TypeInv, [Next]_vars
             PROVE  InHand'
  OBVIOUS
<1> USE DEF TypeInv, TypeOK, Control, OrderInv, InHand, ledgerVars, closeRows,
        sweepVars, requestVars
<1>1. CASE RecordLegEvidence
  BY <1>1 DEF RecordLegEvidence, RowInv, Unplaced, SweepHoldsLock
<1>2. CASE PlaceLeg
  BY <1>2, OrdersAssumption DEF PlaceLeg, SweepHoldsLock
<1>3. CASE ReconcileTransport \/ MarkFilled \/ MarkCancelledByOca \/ EnsureProtection \/
           NothingToProtect \/ SkipFamily \/ SkipZeroAllocation \/ ResumeLeg
  BY <1>3 DEF ReconcileTransport, MarkFilled, MarkCancelledByOca, EnsureProtection,
     NothingToProtect, SkipFamily, FamilyDone, SkipZeroAllocation, ResumeLeg
<1>4. CASE ClaimLeg \/ PricingFails \/ PlaceLegDisconnected \/ PlaceLegReturns
  BY <1>4 DEF ClaimLeg, PricingFails, LegEnds, FamilyDone, PlaceLegDisconnected,
     PlaceLegReturns, Verdicts
<1>5. ASSUME NEW c \in Closes, BeginClose(c)
      PROVE  InHand'
  BY <1>5 DEF BeginClose, CloseStep
<1>6. CASE ReadWorkingOrders
  <2>1. CloseQuantity(held - WorkingExitQuantity) >= 1
    BY <1>6, BoundsAssumption DEF ReadWorkingOrders, CloseQuantity
  <2>2. cqty' = [cqty EXCEPT ![close] = CloseQuantity(held - WorkingExitQuantity)]
    BY <1>6 DEF ReadWorkingOrders
  <2> QED
    BY <1>6, <2>1, <2>2 DEF ReadWorkingOrders
<1>7. CASE PlaceClose
  BY <1>7, OrdersAssumption DEF PlaceClose, SweepHoldsLock
<1>8. CASE \/ CancelIntent \/ CancelIntentRefused \/ CancelConfirmed \/ CancelAmbiguous \/
              ReadPosition \/ BlockClose \/ RecordCloseEvidence
           \/ \E c \in Closes : RefuseClose(c)
  BY <1>8 DEF RefuseClose, CancelIntent, CancelIntentRefused, CloseEnds, CancelConfirmed,
     CancelProven, CloseStep, CancelAmbiguous, ReadPosition, BlockClose,
     RecordCloseEvidence
<1>9. CASE PlaceCloseDisconnected \/ PlaceCloseReturns
  BY <1>9 DEF PlaceCloseDisconnected, CloseEnds, PlaceCloseReturns, Verdicts
<1>10. CASE \/ ConnectionClosed \/ Crash \/ Restart
            \/ \E o \in Orders : ExecDetails(o)
  BY <1>10 DEF ExecDetails, ConnectionClosed, Crash, Restart, SweptLeg, SweptCancel,
     SweptClose
<1>11. ASSUME NEW o \in Orders, BrokerAccepts(o)
       PROVE  InHand'
  BY <1>11 DEF BrokerAccepts
<1>12. ASSUME NEW o \in Orders, BrokerRejects(o)
       PROVE  InHand'
  BY <1>12 DEF BrokerRejects
<1>13. ASSUME NEW o \in Orders, OrderLost(o)
       PROVE  InHand'
  BY <1>13 DEF OrderLost
<1>14. ASSUME NEW o \in Orders, BrokerCancels(o)
       PROVE  InHand'
  BY <1>14 DEF BrokerCancels
<1>15. ASSUME NEW o \in Orders, BrokerFills(o)
       PROVE  InHand'
  <2>1. \A p \in Orders : order[p] = "none" => order'[p] = "none"
    BY <1>15 DEF BrokerFills
  <2> QED
    BY <1>15, <2>1 DEF BrokerFills, Orders
<1>16. CASE UNCHANGED vars
  BY <1>16 DEF vars
<1> QED
  BY <1>1, <1>2, <1>3, <1>4, <1>5, <1>6, <1>7, <1>8, <1>9, <1>10, <1>11, <1>12, <1>13,
     <1>14, <1>15, <1>16
     DEF Next, Sweep, Request, Process, Broker

LEMMA OrderStep == TypeInv /\ [Next]_vars => OrderInv'
<1> SUFFICES ASSUME TypeInv, [Next]_vars
             PROVE  OrderInv'
  OBVIOUS
<1>1. RowInv /\ Control /\ OrderInv /\ TypeOK
  BY DEF TypeInv
<1>2. InHand'
  BY InHandStep
<1>3. ASSUME NEW c \in Closes, cst'[c] = "NONE"
      PROVE  order'[c] = "none"
  <2>1. CloseMove(c) /\ OrderMove(c) /\ c \notin Legs
    BY CloseMoves, OrderMoves, OrdersAssumption DEF Orders
  <2>2. cst[c] = "NONE" /\ ~(c = close /\ cpc = "evidenced")
    BY <1>1, <1>3, <2>1 DEF CloseMove, Control
  <2> QED
    BY <1>1, <2>1, <2>2 DEF OrderInv, OrderMove, Sent, BrokerMove
<1>4. ASSUME NEW o \in Orders
      PROVE  /\ order'[o] \in {"none", "sent", "lost", "rejected"} => filled'[o] = 0
             /\ order'[o] \in {"sent", "working"} => filled'[o] < Quantity(o)'
             /\ seen'[o] <= filled'[o] /\ filled'[o] <= Quantity(o)'
  <2>1. OrderMove(o)
    BY OrderMoves
  <2>2. /\ Quantity(o) \in 0..N /\ filled[o] \in 0..N
        /\ order[o] \in {"none", "sent", "lost", "rejected"} => filled[o] = 0
        /\ order[o] \in {"sent", "working"} => filled[o] < Quantity(o)
        /\ filled[o] <= Quantity(o)
    BY <1>1 DEF OrderInv, TypeOK, Orders, Quantity
  <2>3. Quantity(o)' \in 0..N
    BY TypeOKStep DEF TypeOK, Orders, Quantity
  <2>4. Quantity(o)' = Quantity(o) \/ (order[o] = "none" /\ order'[o] = "none")
    <3>1. CASE o \in Legs
      <4>1. RowMove(o)
        BY <3>1, RowMoves
      <4>2. CASE RowMade(o)
        <5>1. order[o] = "none" /\ spc # "evidenced" /\ o \notin Closes
          BY <1>1, <3>1, <4>2, OrdersAssumption DEF RowInv, RowMade, Unplaced
        <5> QED
          BY <2>1, <5>1 DEF OrderMove, Sent, BrokerMove
      <4> QED
        BY <3>1, <4>1, <4>2 DEF RowMove, Quantity
    <3>2. CASE o \in Closes
      <4>1. CloseMove(o) /\ o \notin Legs
        BY <3>2, CloseMoves, OrdersAssumption
      <4>2. CASE o = close /\ cpc = "orders"
        <5>1. order[o] = "none"
          BY <1>1, <4>2 DEF OrderInv
        <5> QED
          BY <2>1, <4>1, <4>2, <5>1 DEF OrderMove, Sent, BrokerMove
      <4> QED
        BY <4>1, <4>2 DEF CloseMove, Quantity
    <3> QED
      BY <3>1, <3>2 DEF Orders
  <2>5. Sent(o) => Quantity(o) >= 1
    <3>1. CASE o \in Legs
      BY <1>1, <3>1, OrdersAssumption DEF Sent, Control, RowInv, Quantity
    <3>2. CASE o \in Closes
      BY <1>1, <3>2, OrdersAssumption DEF Sent, OrderInv, Quantity
    <3> QED
      BY <3>1, <3>2 DEF Orders
  <2>6. seen'[o] <= filled'[o]
    BY SeenStep
  <2>7. CASE order'[o] = order[o] /\ filled'[o] = filled[o]
    BY <2>2, <2>3, <2>4, <2>6, <2>7, AllocAssumption
  <2>8. CASE Sent(o)
    BY <2>2, <2>3, <2>4, <2>5, <2>6, <2>8, AllocAssumption DEF Sent
  <2>9. CASE BrokerMove(o)
    <3>1. Quantity(o)' = Quantity(o)
      BY <2>4, <2>9 DEF BrokerMove
    <3> QED
      BY <2>2, <2>6, <2>9, <3>1, AllocAssumption DEF BrokerMove
  <2> QED
    BY <2>1, <2>7, <2>8, <2>9 DEF OrderMove
<1> QED
  BY <1>2, <1>3, <1>4 DEF InHand, OrderInv

LEMMA TypeStep == TypeInv /\ [Next]_vars => TypeInv'
  BY TypeOKStep, ControlStep, RowStep, OrderStep DEF TypeInv

LEMMA TypeHolds == Spec => []TypeInv
<1> QED
  BY TypeInit, TypeStep, PTL DEF Spec

\* Every variable keeps to its declared values, for any allocation and any closes.
THEOREM TypeCorrect == Spec => []TypeOK
<1>1. TypeInv => TypeOK
  BY DEF TypeInv
<1> QED
  BY <1>1, TypeHolds, PTL

-----------------------------------------------------------------------------
(* The second layer: one order in play per slice, none of them untracked.      *)

\* At most one row of a slice is in play, ...
SliceInv ==
  \A g, h \in Legs : FamilyOf(g) = FamilyOf(h) /\ g # h => st[g] \in Idle \/ st[h] \in Idle

\* ... at most one order of an OCA group trades, ...
OcaOne ==
  \A g, h \in Legs :
    OcaGroup(g) = OcaGroup(h) /\ g # h /\ filled[g] > 0 =>
      filled[h] = 0 /\ order[h] # "working"

\* ... and a group is taken for hit on a fill of a row no longer SUBMITTED.
HitInv ==
  spc = "oca" =>
    \A x \in hit : \E h \in Legs : OcaGroup(h) = x /\ filled[h] > 0 /\ st[h] # "SUBMITTED"

TrackedInv == TypeInv /\ SliceInv /\ OcaOne /\ HitInv /\ LiveLegTracked

LEMMA TrackedInit == Init => TrackedInv
<1> SUFFICES ASSUME Init
             PROVE  TrackedInv
  OBVIOUS
<1>1. SliceInv /\ OcaOne /\ HitInv /\ LiveLegTracked
  BY DEF Init, SliceInv, Idle, OcaOne, HitInv, LiveLegTracked, Live, Orders
<1> QED
  BY <1>1, TypeInit DEF TrackedInv

LEMMA SliceStep ==
  ASSUME TypeInv, SliceInv, [Next]_vars
  PROVE  SliceInv'
<1>1. \A g \in Legs : st[g] \in Idle /\ st'[g] \notin Idle => RowMade(g)
  <2> SUFFICES ASSUME NEW g \in Legs, st[g] \in Idle, st'[g] \notin Idle
               PROVE  RowMade(g)
    OBVIOUS
  <2>1. RowMove(g)
    BY RowMoves
  <2> QED
    BY <2>1 DEF RowMove, RowSubmitted, RowSettled, RowSwept, Idle, TypeInv, Control
<1>2. ASSUME NEW g \in Legs, NEW h \in Legs, FamilyOf(g) = FamilyOf(h), g # h,
             RowMade(g)
      PROVE  st'[h] \in Idle
  <2>1. st[h] \in Idle
    BY <1>2 DEF RowMade, LegsOf
  <2>2. CASE RowMade(h)
    <3>1. /\ g = <<g[1], g[2], g[3]>> /\ h = <<h[1], h[2], h[3]>>
          /\ g[3] \in 1..MaxIndex /\ h[3] \in 1..MaxIndex
          /\ g[1] = h[1] /\ g[2] = h[2]
      BY <1>2 DEF Legs, FamilyOf
    <3>2. g[3] \in 1..(h[3] - 1) \/ h[3] \in 1..(g[3] - 1)
      BY <1>2, <3>1, BoundsAssumption
    <3> QED
      BY <1>2, <2>2, <3>1, <3>2 DEF RowMade
  <2> QED
    BY <1>1, <2>1, <2>2
<1> QED
  BY <1>1, <1>2 DEF SliceInv

\* When an order fills, the others of its group neither fill nor work.
LEMMA FillExclusive ==
  ASSUME TypeInv, [Next]_vars, NEW g \in Legs, filled'[g] # filled[g],
         NEW h \in Legs, h # g, OcaGroup(h) = OcaGroup(g)
  PROVE  filled'[h] = filled[h] /\ order'[h] # "working"
<1> DEFINE alone == filled'[h] = filled[h] /\ order'[h] # "working"
<1> USE DEF TypeInv, TypeOK, ledgerVars, closeRows, sweepVars, requestVars
<1>1. CASE ReconcileTransport \/ MarkFilled \/ MarkCancelledByOca \/ EnsureProtection \/
           NothingToProtect \/ SkipFamily \/ SkipZeroAllocation \/ ResumeLeg
  BY <1>1 DEF ReconcileTransport, MarkFilled, MarkCancelledByOca, EnsureProtection,
     NothingToProtect, SkipFamily, FamilyDone, SkipZeroAllocation, ResumeLeg
<1>2. CASE ClaimLeg \/ PricingFails \/ RecordLegEvidence \/ PlaceLeg \/
           PlaceLegDisconnected \/ PlaceLegReturns
  BY <1>2 DEF ClaimLeg, PricingFails, LegEnds, FamilyDone, RecordLegEvidence, PlaceLeg,
     PlaceLegDisconnected, PlaceLegReturns, Verdicts
<1>3. CASE \/ CancelIntent \/ CancelIntentRefused \/ CancelConfirmed \/ CancelAmbiguous \/
              ReadPosition \/ ReadWorkingOrders
           \/ \E c \in Closes : BeginClose(c) \/ RefuseClose(c)
  BY <1>3 DEF BeginClose, CloseStep, RefuseClose, CancelIntent, CancelIntentRefused,
     CloseEnds, CancelConfirmed, CancelProven, CancelAmbiguous, ReadPosition,
     ReadWorkingOrders
<1>4. CASE BlockClose \/ RecordCloseEvidence \/ PlaceClose \/ PlaceCloseDisconnected \/
           PlaceCloseReturns
  BY <1>4 DEF BlockClose, CloseEnds, RecordCloseEvidence, PlaceClose,
     PlaceCloseDisconnected, PlaceCloseReturns, Verdicts
<1>5. CASE \/ ConnectionClosed \/ Crash \/ Restart
           \/ \E o \in Orders : ExecDetails(o)
  BY <1>5 DEF ExecDetails, ConnectionClosed, Crash, Restart, SweptLeg, SweptCancel,
     SweptClose
<1>6. ASSUME NEW o \in Orders, BrokerFills(o)
      PROVE  alone
  BY <1>6 DEF BrokerFills, Orders
<1>7. CASE \E o \in Orders : BrokerAccepts(o) \/ BrokerRejects(o) \/ OrderLost(o) \/
           BrokerCancels(o)
  BY <1>7 DEF BrokerAccepts, BrokerRejects, OrderLost, BrokerCancels
<1>8. CASE UNCHANGED vars
  BY <1>8 DEF vars
<1> QED
  BY <1>1, <1>2, <1>3, <1>4, <1>5, <1>6, <1>7, <1>8
     DEF Next, Sweep, Request, Process, Broker

LEMMA FilledGrows ==
  ASSUME TypeInv, [Next]_vars, NEW o \in Orders
  PROVE  filled'[o] = filled[o] \/ (order[o] = "working" /\ filled'[o] = filled[o] + 1)
BY OrderMoves DEF OrderMove, Sent, BrokerMove

LEMMA OcaStep ==
  ASSUME TypeInv, OcaOne, [Next]_vars
  PROVE  OcaOne'
<1> SUFFICES ASSUME NEW g \in Legs, NEW h \in Legs, OcaGroup(g) = OcaGroup(h), g # h,
                    filled'[g] > 0
             PROVE  filled'[h] = 0 /\ order'[h] # "working"
  BY DEF OcaOne
<1>1. /\ g \in Orders /\ h \in Orders
      /\ filled[g] \in 0..N /\ filled[h] \in 0..N /\ h \notin Closes
  BY OrdersAssumption DEF Orders, TypeInv, TypeOK
<1>2. OrderMove(h)
  BY <1>1, OrderMoves
<1>3. CASE filled[g] > 0
  <2>1. filled[h] = 0 /\ order[h] # "working" /\ GroupHit(h)
    BY <1>3 DEF OcaOne, GroupHit, SameGroup
  <2> QED
    BY <1>2, <2>1 DEF OrderMove, Sent, BrokerMove
<1>4. CASE filled[g] = 0
  <2>1. filled'[g] # filled[g]
    BY <1>4
  <2>2. filled'[h] = filled[h] /\ order'[h] # "working"
    BY <2>1, FillExclusive
  <2>3. order[g] = "working"
    BY <1>1, <2>1, FilledGrows
  <2>4. ~(filled[h] > 0)
    BY <2>3 DEF OcaOne
  <2> QED
    BY <1>1, <2>2, <2>4
<1> QED
  BY <1>1, <1>3, <1>4

LEMMA HitKept ==
  ASSUME TypeInv, [Next]_vars, spc' = "oca", ~MarkFilled
  PROVE  spc = "oca" /\ hit' = hit
<1> DEFINE kept == spc = "oca" /\ hit' = hit
<1> USE DEF ledgerVars, closeRows, sweepVars, requestVars
<1>1. CASE ReconcileTransport \/ MarkFilled \/ MarkCancelledByOca \/ EnsureProtection \/
           NothingToProtect \/ SkipFamily \/ SkipZeroAllocation \/ ResumeLeg
  BY <1>1 DEF ReconcileTransport, MarkFilled, MarkCancelledByOca, EnsureProtection,
     NothingToProtect, SkipFamily, FamilyDone, SkipZeroAllocation, ResumeLeg
<1>2. CASE ClaimLeg \/ PricingFails \/ RecordLegEvidence \/ PlaceLeg \/
           PlaceLegDisconnected \/ PlaceLegReturns
  BY <1>2 DEF ClaimLeg, PricingFails, LegEnds, FamilyDone, RecordLegEvidence, PlaceLeg,
     PlaceLegDisconnected, PlaceLegReturns, Verdicts
<1>3. CASE \/ CancelIntent \/ CancelIntentRefused \/ CancelConfirmed \/ CancelAmbiguous \/
              ReadPosition \/ ReadWorkingOrders
           \/ \E c \in Closes : BeginClose(c) \/ RefuseClose(c)
  BY <1>3 DEF BeginClose, CloseStep, RefuseClose, CancelIntent, CancelIntentRefused,
     CloseEnds, CancelConfirmed, CancelProven, CancelAmbiguous, ReadPosition,
     ReadWorkingOrders
<1>4. CASE BlockClose \/ RecordCloseEvidence \/ PlaceClose \/ PlaceCloseDisconnected \/
           PlaceCloseReturns
  BY <1>4 DEF BlockClose, CloseEnds, RecordCloseEvidence, PlaceClose,
     PlaceCloseDisconnected, PlaceCloseReturns, Verdicts
<1>5. CASE \/ ConnectionClosed \/ Crash \/ Restart
           \/ \E o \in Orders : ExecDetails(o)
  BY <1>5 DEF ExecDetails, ConnectionClosed, Crash, Restart, SweptLeg, SweptCancel,
     SweptClose
<1>6. CASE \E o \in Orders : BrokerAccepts(o) \/ BrokerRejects(o) \/ OrderLost(o) \/
           BrokerCancels(o) \/ BrokerFills(o)
  BY <1>6 DEF BrokerAccepts, BrokerRejects, OrderLost, BrokerCancels, BrokerFills
<1>7. CASE UNCHANGED vars
  BY <1>7 DEF vars
<1> QED
  BY <1>1, <1>2, <1>3, <1>4, <1>5, <1>6, <1>7
     DEF Next, Sweep, Request, Process, Broker

LEMMA HitStep ==
  ASSUME TypeInv, HitInv, [Next]_vars
  PROVE  HitInv'
<1>1. ASSUME NEW h \in Legs, filled[h] > 0
      PROVE  filled'[h] > 0
  <2>1. h \in Orders /\ filled[h] \in 0..N
    BY DEF Orders, TypeInv, TypeOK
  <2> QED
    BY <1>1, <2>1, FilledGrows
<1>2. ASSUME spc = "oca", spc' = "oca", hit' = hit
      PROVE  HitInv'
  <2> SUFFICES ASSUME NEW x \in hit
               PROVE  \E h \in Legs : /\ OcaGroup(h) = x
                                      /\ filled'[h] > 0 /\ st'[h] # "SUBMITTED"
    BY <1>2 DEF HitInv
  <2>1. PICK h \in Legs : OcaGroup(h) = x /\ filled[h] > 0 /\ st[h] # "SUBMITTED"
    BY <1>2 DEF HitInv
  <2>2. RowMove(h)
    BY RowMoves
  <2>3. st'[h] # "SUBMITTED"
    BY <1>2, <2>1, <2>2 DEF RowMove, RowMade, RowSubmitted, RowSettled, RowSwept
  <2> QED
    BY <1>1, <2>1, <2>3
<1>3. CASE MarkFilled
  <2> SUFFICES ASSUME NEW g \in WorkingWithExecutions
               PROVE  \E h \in Legs : /\ OcaGroup(h) = OcaGroup(g)
                                      /\ filled'[h] > 0 /\ st'[h] # "SUBMITTED"
    BY <1>3 DEF MarkFilled, HitInv
  <2>1. g \in Legs /\ HasExecutions(FamilyOf(g))
    BY DEF WorkingWithExecutions
  <2>2. PICK h \in LegsOf(FamilyOf(g)) : seen[h] > 0
    BY <2>1 DEF HasExecutions
  <2>3. h \in Legs /\ FamilyOf(h) = FamilyOf(g) /\ OcaGroup(h) = OcaGroup(g)
    BY <2>1, <2>2 DEF LegsOf, FamilyOf, OcaGroup
  <2>4. filled[h] > 0
    <3>1. h \in Orders
      BY <2>3 DEF Orders
    <3>2. seen[h] \in 0..N /\ filled[h] \in 0..N /\ seen[h] <= filled[h]
      BY <3>1 DEF TypeInv, TypeOK, OrderInv
    <3> QED
      BY <2>2, <3>2
  <2>5. st'[h] # "SUBMITTED"
    BY <1>3, <2>1, <2>3 DEF MarkFilled, WorkingWithExecutions
  <2> QED
    BY <1>1, <2>3, <2>4, <2>5
<1>4. CASE spc' # "oca"
  BY <1>4 DEF HitInv
<1>5. CASE spc' = "oca" /\ ~MarkFilled
  BY <1>2, <1>5, HitKept
<1> QED
  BY <1>3, <1>4, <1>5

LEMMA LiveStep ==
  ASSUME TrackedInv, [Next]_vars
  PROVE  LiveLegTracked'
<1> DEFINE Known == {"SUBMITTING", "SUBMITTED", "SUBMISSION_UNKNOWN", "FILLED"}
<1> SUFFICES ASSUME NEW g \in Legs, Live(g)'
             PROVE  st'[g] \in Known
  BY DEF LiveLegTracked
<1>1. /\ TypeInv /\ Control /\ OcaOne /\ HitInv
      /\ g \in Orders /\ g \notin Closes
  BY OrdersAssumption DEF TrackedInv, TypeInv, Orders
<1>2. RowMove(g) /\ OrderMove(g)
  BY <1>1, RowMoves, OrderMoves
<1>3. ~GroupHit(g)' => ~GroupHit(g)
  <2>1. \A h \in Legs : filled[h] > 0 => filled'[h] > 0
    <3> SUFFICES ASSUME NEW h \in Legs, filled[h] > 0
                 PROVE  filled'[h] > 0
      OBVIOUS
    <3>1. h \in Orders /\ filled[h] \in 0..N
      BY <1>1 DEF Orders, TypeInv, TypeOK
    <3> QED
      BY <1>1, <3>1, FilledGrows
  <2> QED
    BY <2>1 DEF GroupHit, SameGroup
<1>4. Live(g) \/ Sent(g)
  BY <1>2, <1>3 DEF Live, OrderMove, BrokerMove
<1>5. order'[g] \in {"sent", "working"}
  BY DEF Live
<1>6. order[g] \notin {"rejected", "cancelled"}
  BY <1>4 DEF Live, Sent
<1>7. st[g] \in Known
  BY <1>1, <1>4 DEF TrackedInv, LiveLegTracked, Sent, Control
<1>8. ~(spc = "oca" /\ OcaGroup(g) \in hit /\ st[g] = "SUBMITTED")
  <2> SUFFICES ASSUME spc = "oca", OcaGroup(g) \in hit, st[g] = "SUBMITTED"
               PROVE  FALSE
    OBVIOUS
  <2>1. PICK h \in Legs : OcaGroup(h) = OcaGroup(g) /\ filled[h] > 0 /\ h # g
    BY <1>1 DEF HitInv
  <2>2. order[g] # "working" /\ GroupHit(g)
    BY <1>1, <2>1 DEF OcaOne, GroupHit, SameGroup
  <2> QED
    BY <1>1, <1>4, <2>2 DEF Live, Sent
<1> QED
  BY <1>1, <1>2, <1>6, <1>7, <1>8
     DEF RowMove, RowMade, RowSubmitted, RowSettled, RowSwept, Control

LEMMA TrackedStep == TrackedInv /\ [Next]_vars => TrackedInv'
  BY TypeStep, SliceStep, OcaStep, HitStep, LiveStep DEF TrackedInv

LEMMA TrackedHolds == Spec => []TrackedInv
<1> QED
  BY TrackedInit, TrackedStep, PTL DEF Spec

\* A protection order that can still sell never has a row that calls it gone or
\* never placed: sweep, flatten, restart and OCA bookkeeping keep track of it.
THEOREM LiveLegsTracked == Spec => []LiveLegTracked
<1>1. TrackedInv => LiveLegTracked
  BY DEF TrackedInv
<1> QED
  BY <1>1, TrackedHolds, PTL

\* A protection order goes out only when no other order of its slice can still sell
\* and none is in doubt, through every retry, top-up, crash and restart.
THEOREM SliceExclusive == Spec => OneOrderPerSlice
<1>1. ASSUME TrackedInv, [Next]_vars, NEW g \in Legs, order[g] = "none", order'[g] = "sent",
             NEW h \in LegsOf(FamilyOf(g)) \ {g}
      PROVE  ~Live(h) /\ st[h] # "SUBMISSION_UNKNOWN"
  <2>1. g \in Orders /\ g \notin Closes /\ h \in Legs /\ FamilyOf(h) = FamilyOf(g)
    BY OrdersAssumption DEF Orders, LegsOf
  <2>2. Sent(g)
    BY <1>1, <2>1, OrderMoves DEF TrackedInv, OrderMove, BrokerMove
  <2>3. st[g] = "SUBMITTING"
    BY <1>1, <2>1, <2>2 DEF TrackedInv, TypeInv, Control, Sent
  <2>4. st[h] \in Idle
    BY <1>1, <2>1, <2>3 DEF TrackedInv, SliceInv, Idle
  <2> QED
    BY <1>1, <2>1, <2>4 DEF TrackedInv, LiveLegTracked, Idle
<1>2. TrackedInv /\ [Next]_vars =>
        [\A g \in Legs :
           order[g] = "none" /\ order'[g] = "sent" =>
             \A h \in LegsOf(FamilyOf(g)) \ {g} :
               ~Live(h) /\ st[h] # "SUBMISSION_UNKNOWN"]_vars
  BY <1>1
<1> QED
  BY <1>2, TrackedHolds, PTL DEF Spec, OneOrderPerSlice

-----------------------------------------------------------------------------
(* The third layer: what a close in flight has excluded.                       *)

SubmittingInv ==
  \A g \in Legs :
    st[g] = "SUBMITTING" => proc = "down" \/ (spc \in {"evidenced", "awaiting"} /\ g = leg)

NoDoubt == ~CancelUnknown /\ \A d \in Closes : ~UnknownClose(d)

NoLegLeft ==
  \A g \in Legs :
    /\ st[g] \notin {"SUBMITTING", "SUBMISSION_UNKNOWN"}
    /\ st[g] = "SUBMITTED" => g \in tocancel

CloseInv == cpc # "idle" => NoDoubt /\ (Kind[close] = "FLATTEN" => NoLegLeft)

AloneInv == TrackedInv /\ SubmittingInv /\ CloseInv

LEMMA AloneInit == Init => AloneInv
<1> SUFFICES ASSUME Init
             PROVE  AloneInv
  OBVIOUS
<1>1. SubmittingInv /\ CloseInv
  BY DEF Init, SubmittingInv, CloseInv
<1> QED
  BY <1>1, TrackedInit DEF AloneInv

LEMMA SubmittingStep ==
  ASSUME TypeInv, SubmittingInv, [Next]_vars
  PROVE  SubmittingInv'
<1> USE DEF TypeInv, TypeOK, Control, SubmittingInv, ledgerVars, closeRows, sweepVars,
        requestVars
<1>1. CASE SkipZeroAllocation
  BY <1>1 DEF SkipZeroAllocation, SweepHoldsLock
<1>2. CASE PlaceLegReturns
  BY <1>2 DEF PlaceLegReturns, LegEnds, FamilyDone, Verdicts
<1>3. CASE ReconcileTransport \/ MarkFilled \/ MarkCancelledByOca \/ EnsureProtection \/
           NothingToProtect \/ SkipFamily \/ ResumeLeg \/ ClaimLeg
  BY <1>3 DEF ReconcileTransport, MarkFilled, MarkCancelledByOca, EnsureProtection,
     NothingToProtect, SkipFamily, FamilyDone, ResumeLeg, ClaimLeg
<1>4. CASE PricingFails \/ RecordLegEvidence \/ PlaceLeg \/ PlaceLegDisconnected
  BY <1>4 DEF PricingFails, LegEnds, FamilyDone, RecordLegEvidence, PlaceLeg,
     PlaceLegDisconnected
<1>5. CASE \/ CancelIntent \/ CancelIntentRefused \/ CancelConfirmed \/ CancelAmbiguous \/
              ReadPosition \/ ReadWorkingOrders
           \/ \E c \in Closes : BeginClose(c) \/ RefuseClose(c)
  BY <1>5 DEF BeginClose, CloseStep, RefuseClose, CancelIntent, CancelIntentRefused,
     CloseEnds, CancelConfirmed, CancelProven, CancelAmbiguous, ReadPosition,
     ReadWorkingOrders
<1>6. CASE BlockClose \/ RecordCloseEvidence \/ PlaceClose \/ PlaceCloseDisconnected \/
           PlaceCloseReturns
  BY <1>6 DEF BlockClose, CloseEnds, RecordCloseEvidence, PlaceClose,
     PlaceCloseDisconnected, PlaceCloseReturns, Verdicts
<1>7. CASE \/ ConnectionClosed \/ Crash \/ Restart
           \/ \E o \in Orders : ExecDetails(o)
  BY <1>7 DEF ExecDetails, ConnectionClosed, Crash, Restart, SweptLeg, SweptCancel,
     SweptClose
<1>8. CASE \E o \in Orders : BrokerAccepts(o) \/ BrokerRejects(o) \/ OrderLost(o) \/
           BrokerCancels(o) \/ BrokerFills(o)
  BY <1>8 DEF BrokerAccepts, BrokerRejects, OrderLost, BrokerCancels, BrokerFills
<1>9. CASE UNCHANGED vars
  BY <1>9 DEF vars
<1> QED
  BY <1>1, <1>2, <1>3, <1>4, <1>5, <1>6, <1>7, <1>8, <1>9
     DEF Next, Sweep, Request, Process, Broker

\* While a close is in flight no order of a leg is placed, and a row only leaves
\* SUBMITTED.
LEMMA NoLegStep ==
  ASSUME TypeInv, NoLegLeft, cpc # "idle", cpc' # "idle", [Next]_vars
  PROVE  NoLegLeft'
<1> USE DEF TypeInv, TypeOK, Control, SweepHoldsLock, NoLegLeft, ledgerVars, closeRows,
        sweepVars, requestVars
<1>1. CASE ReconcileTransport \/ MarkFilled \/ MarkCancelledByOca \/ EnsureProtection \/
           NothingToProtect \/ SkipFamily \/ SkipZeroAllocation \/ ResumeLeg
  BY <1>1 DEF ReconcileTransport, MarkFilled, MarkCancelledByOca, EnsureProtection,
     NothingToProtect, SkipFamily, FamilyDone, SkipZeroAllocation, ResumeLeg
<1>2. CASE ClaimLeg \/ PricingFails \/ RecordLegEvidence \/ PlaceLeg \/
           PlaceLegDisconnected \/ PlaceLegReturns
  BY <1>2 DEF ClaimLeg, PricingFails, LegEnds, FamilyDone, RecordLegEvidence, PlaceLeg,
     PlaceLegDisconnected, PlaceLegReturns, Verdicts
<1>3. CASE \/ CancelIntent \/ CancelIntentRefused \/ CancelConfirmed \/ CancelAmbiguous \/
              ReadPosition \/ ReadWorkingOrders
           \/ \E c \in Closes : BeginClose(c) \/ RefuseClose(c)
  BY <1>3 DEF BeginClose, CloseStep, RefuseClose, CancelIntent, CancelIntentRefused,
     CloseEnds, CancelConfirmed, CancelProven, CancelAmbiguous, ReadPosition,
     ReadWorkingOrders
<1>4. CASE BlockClose \/ RecordCloseEvidence \/ PlaceClose \/ PlaceCloseDisconnected \/
           PlaceCloseReturns
  BY <1>4 DEF BlockClose, CloseEnds, RecordCloseEvidence, PlaceClose,
     PlaceCloseDisconnected, PlaceCloseReturns, Verdicts
<1>5. CASE \/ ConnectionClosed \/ Crash \/ Restart
           \/ \E o \in Orders : ExecDetails(o)
  BY <1>5 DEF ExecDetails, ConnectionClosed, Crash, Restart, SweptLeg, SweptCancel,
     SweptClose
<1>6. CASE \E o \in Orders : BrokerAccepts(o) \/ BrokerRejects(o) \/ OrderLost(o) \/
           BrokerCancels(o) \/ BrokerFills(o)
  BY <1>6 DEF BrokerAccepts, BrokerRejects, OrderLost, BrokerCancels, BrokerFills
<1>7. CASE UNCHANGED vars
  BY <1>7 DEF vars
<1> QED
  BY <1>1, <1>2, <1>3, <1>4, <1>5, <1>6, <1>7
     DEF Next, Sweep, Request, Process, Broker

LEMMA NoDoubtStep ==
  ASSUME TypeInv, NoDoubt, cpc # "idle", cpc' # "idle", [Next]_vars
  PROVE  NoDoubt'
<1> USE DEF TypeInv, TypeOK, Control, SweepHoldsLock, NoDoubt, CancelUnknown,
        UnknownClose,
        ledgerVars, closeRows, sweepVars, requestVars
<1>1. CASE ReconcileTransport
  BY <1>1 DEF ReconcileTransport, Resolved
<1>2. CASE MarkFilled \/ MarkCancelledByOca \/ EnsureProtection \/ NothingToProtect \/
           SkipFamily \/ SkipZeroAllocation \/ ResumeLeg \/ ClaimLeg
  BY <1>2 DEF MarkFilled, MarkCancelledByOca, EnsureProtection, NothingToProtect,
     SkipFamily, FamilyDone, SkipZeroAllocation, ResumeLeg, ClaimLeg
<1>3. CASE PricingFails \/ RecordLegEvidence \/ PlaceLeg \/ PlaceLegDisconnected \/
           PlaceLegReturns
  BY <1>3 DEF PricingFails, LegEnds, FamilyDone, RecordLegEvidence, PlaceLeg,
     PlaceLegDisconnected, PlaceLegReturns, Verdicts
<1>4. CASE \/ CancelIntent \/ CancelIntentRefused \/ CancelConfirmed \/ CancelAmbiguous \/
              ReadPosition \/ ReadWorkingOrders
           \/ \E c \in Closes : BeginClose(c) \/ RefuseClose(c)
  BY <1>4 DEF BeginClose, CloseStep, RefuseClose, CancelIntent, CancelIntentRefused,
     CloseEnds, CancelConfirmed, CancelProven, CancelAmbiguous, ReadPosition,
     ReadWorkingOrders
<1>5. CASE BlockClose \/ RecordCloseEvidence \/ PlaceClose \/ PlaceCloseDisconnected \/
           PlaceCloseReturns
  BY <1>5 DEF BlockClose, CloseEnds, RecordCloseEvidence, PlaceClose,
     PlaceCloseDisconnected, PlaceCloseReturns, Verdicts
<1>6. CASE \/ ConnectionClosed \/ Crash \/ Restart
           \/ \E o \in Orders : ExecDetails(o)
  BY <1>6 DEF ExecDetails, ConnectionClosed, Crash, Restart, SweptLeg, SweptCancel,
     SweptClose
<1>7. CASE \E o \in Orders : BrokerAccepts(o) \/ BrokerRejects(o) \/ OrderLost(o) \/
           BrokerCancels(o) \/ BrokerFills(o)
  BY <1>7 DEF BrokerAccepts, BrokerRejects, OrderLost, BrokerCancels, BrokerFills
<1>8. CASE UNCHANGED vars
  BY <1>8 DEF vars
<1> QED
  BY <1>1, <1>2, <1>3, <1>4, <1>5, <1>6, <1>7, <1>8
     DEF Next, Sweep, Request, Process, Broker

LEMMA BeginStep ==
  ASSUME TypeInv, SubmittingInv, NEW c \in Closes, BeginClose(c)
  PROVE  NoDoubt' /\ (Kind[close'] = "FLATTEN" => NoLegLeft')
<1>1. NoDoubt'
  BY DEF BeginClose, CloseAdmitted, NoDoubt, CancelUnknown, UnknownClose, closeRows,
    ledgerVars, TypeInv, TypeOK
<1>2. ASSUME Kind[c] = "FLATTEN"
      PROVE  NoLegLeft'
  BY <1>2 DEF BeginClose, CloseAdmitted, SubmittingInv, SweepHoldsLock, NoLegLeft,
    LegsToCancel, UnknownLeg, ledgerVars
<1> QED
  BY <1>1, <1>2 DEF BeginClose

LEMMA IdleKept ==
  ASSUME TypeInv, cpc = "idle", cpc' # "idle", [Next]_vars
  PROVE  \E c \in Closes : BeginClose(c)
<1> DEFINE begun == \E c \in Closes : BeginClose(c)
<1> USE DEF TypeInv, TypeOK, Control, ledgerVars, closeRows, sweepVars, requestVars
<1>1. CASE ReconcileTransport \/ MarkFilled \/ MarkCancelledByOca \/ EnsureProtection \/
           NothingToProtect \/ SkipFamily \/ SkipZeroAllocation \/ ResumeLeg
  BY <1>1 DEF ReconcileTransport, MarkFilled, MarkCancelledByOca, EnsureProtection,
     NothingToProtect, SkipFamily, FamilyDone, SkipZeroAllocation, ResumeLeg
<1>2. CASE ClaimLeg \/ PricingFails \/ RecordLegEvidence \/ PlaceLeg \/
           PlaceLegDisconnected \/ PlaceLegReturns
  BY <1>2 DEF ClaimLeg, PricingFails, LegEnds, FamilyDone, RecordLegEvidence, PlaceLeg,
     PlaceLegDisconnected, PlaceLegReturns, Verdicts
<1>3. ASSUME NEW c \in Closes, BeginClose(c)
      PROVE  begun
  BY <1>3
<1>4. CASE \/ CancelIntent \/ CancelIntentRefused \/ CancelConfirmed \/ CancelAmbiguous \/
              ReadPosition \/ ReadWorkingOrders \/ BlockClose
           \/ \E c \in Closes : RefuseClose(c)
  BY <1>4 DEF RefuseClose, CancelIntent, CancelIntentRefused, CloseEnds, CancelConfirmed,
     CancelProven, CloseStep, CancelAmbiguous, ReadPosition, ReadWorkingOrders, BlockClose
<1>5. CASE RecordCloseEvidence \/ PlaceClose \/ PlaceCloseDisconnected \/
           PlaceCloseReturns
  BY <1>5 DEF RecordCloseEvidence, PlaceClose, PlaceCloseDisconnected, CloseEnds,
     PlaceCloseReturns, Verdicts
<1>6. CASE \/ ConnectionClosed \/ Crash \/ Restart
           \/ \E o \in Orders : ExecDetails(o)
  BY <1>6 DEF ExecDetails, ConnectionClosed, Crash, Restart, SweptLeg, SweptCancel,
     SweptClose
<1>7. CASE \E o \in Orders : BrokerAccepts(o) \/ BrokerRejects(o) \/ OrderLost(o) \/
           BrokerCancels(o) \/ BrokerFills(o)
  BY <1>7 DEF BrokerAccepts, BrokerRejects, OrderLost, BrokerCancels, BrokerFills
<1>8. CASE UNCHANGED vars
  BY <1>8 DEF vars
<1> QED
  BY <1>1, <1>2, <1>3, <1>4, <1>5, <1>6, <1>7, <1>8
     DEF Next, Sweep, Request, Process, Broker

LEMMA CloseKept ==
  ASSUME TypeInv, cpc # "idle", cpc' # "idle", [Next]_vars
  PROVE  close' = close
<1> USE DEF TypeInv, TypeOK, Control, SweepHoldsLock, ledgerVars, closeRows, sweepVars,
        requestVars
<1>1. CASE ReconcileTransport \/ MarkFilled \/ MarkCancelledByOca \/ EnsureProtection \/
           NothingToProtect \/ SkipFamily \/ SkipZeroAllocation \/ ResumeLeg
  BY <1>1 DEF ReconcileTransport, MarkFilled, MarkCancelledByOca, EnsureProtection,
     NothingToProtect, SkipFamily, FamilyDone, SkipZeroAllocation, ResumeLeg
<1>2. CASE ClaimLeg \/ PricingFails \/ RecordLegEvidence \/ PlaceLeg \/
           PlaceLegDisconnected \/ PlaceLegReturns
  BY <1>2 DEF ClaimLeg, PricingFails, LegEnds, FamilyDone, RecordLegEvidence, PlaceLeg,
     PlaceLegDisconnected, PlaceLegReturns, Verdicts
<1>3. CASE \/ CancelIntent \/ CancelIntentRefused \/ CancelConfirmed \/ CancelAmbiguous \/
              ReadPosition \/ ReadWorkingOrders
           \/ \E c \in Closes : BeginClose(c) \/ RefuseClose(c)
  BY <1>3 DEF BeginClose, CloseStep, RefuseClose, CancelIntent, CancelIntentRefused,
     CloseEnds, CancelConfirmed, CancelProven, CancelAmbiguous, ReadPosition,
     ReadWorkingOrders
<1>4. CASE BlockClose \/ RecordCloseEvidence \/ PlaceClose \/ PlaceCloseDisconnected \/
           PlaceCloseReturns
  BY <1>4 DEF BlockClose, CloseEnds, RecordCloseEvidence, PlaceClose,
     PlaceCloseDisconnected, PlaceCloseReturns, Verdicts
<1>5. CASE \/ ConnectionClosed \/ Crash \/ Restart
           \/ \E o \in Orders : ExecDetails(o)
  BY <1>5 DEF ExecDetails, ConnectionClosed, Crash, Restart, SweptLeg, SweptCancel,
     SweptClose
<1>6. CASE \E o \in Orders : BrokerAccepts(o) \/ BrokerRejects(o) \/ OrderLost(o) \/
           BrokerCancels(o) \/ BrokerFills(o)
  BY <1>6 DEF BrokerAccepts, BrokerRejects, OrderLost, BrokerCancels, BrokerFills
<1>7. CASE UNCHANGED vars
  BY <1>7 DEF vars
<1> QED
  BY <1>1, <1>2, <1>3, <1>4, <1>5, <1>6, <1>7
     DEF Next, Sweep, Request, Process, Broker

LEMMA CloseStepInv ==
  ASSUME TypeInv, SubmittingInv, CloseInv, [Next]_vars
  PROVE  CloseInv'
<1>1. CASE cpc' = "idle"
  BY <1>1 DEF CloseInv
<1>2. CASE cpc = "idle" /\ cpc' # "idle"
  BY <1>2, IdleKept, BeginStep DEF CloseInv
<1>3. CASE cpc # "idle" /\ cpc' # "idle"
  <2>1. NoDoubt'
    BY <1>3, NoDoubtStep DEF CloseInv
  <2>2. close' = close
    BY <1>3, CloseKept
  <2>3. Kind[close] = "FLATTEN" => NoLegLeft'
    BY <1>3, NoLegStep DEF CloseInv
  <2> QED
    BY <2>1, <2>2, <2>3 DEF CloseInv
<1> QED
  BY <1>1, <1>2, <1>3

LEMMA AloneStep == AloneInv /\ [Next]_vars => AloneInv'
  BY TrackedStep, SubmittingStep, CloseStepInv DEF AloneInv, TrackedInv

LEMMA AloneHolds == Spec => []AloneInv
<1> QED
  BY AloneInit, AloneStep, PTL DEF Spec

\* A flatten's SELL goes out when no leg can sell but one recorded FILLED, and no
\* close goes out over a cancel or another close in doubt.
THEOREM FlattenIsAlone == Spec => FlattenAlone
<1>1. ASSUME AloneInv, [Next]_vars, NEW c \in Closes, order[c] = "none", order'[c] = "sent"
      PROVE  /\ Kind[c] = "FLATTEN" => \A g \in Legs : Live(g) => st[g] = "FILLED"
             /\ ~CancelUnknown
             /\ \A d \in Closes \ {c} : ~UnknownClose(d)
  <2>1. c \in Orders /\ c \notin Legs /\ TypeInv /\ CloseInv /\ LiveLegTracked
    BY <1>1, OrdersAssumption DEF Orders, AloneInv, TrackedInv
  <2>2. Sent(c)
    BY <1>1, <2>1, OrderMoves DEF OrderMove, BrokerMove
  <2>3. c = close /\ cpc = "evidenced" /\ tocancel = {}
    BY <2>1, <2>2 DEF Sent, TypeInv, Control
  <2>4. NoDoubt /\ (Kind[c] = "FLATTEN" => NoLegLeft)
    BY <2>1, <2>3 DEF CloseInv
  <2> QED
    BY <2>1, <2>3, <2>4 DEF NoDoubt, NoLegLeft, LiveLegTracked
<1>2. AloneInv /\ [Next]_vars =>
        [\A c \in Closes :
           order[c] = "none" /\ order'[c] = "sent" =>
             /\ Kind[c] = "FLATTEN" => \A g \in Legs : Live(g) => st[g] = "FILLED"
             /\ ~CancelUnknown
             /\ \A d \in Closes \ {c} : ~UnknownClose(d)]_vars
  BY <1>1
<1> QED
  BY <1>2, AloneHolds, PTL DEF Spec, FlattenAlone

-----------------------------------------------------------------------------
(* What the protection can still sell, and what it has sold.                   *)

\* An order of a leg is for the allocation of its level; once a leg has filled, no
\* other of its level can sell.
LEMMA LegBounds ==
  ASSUME TrackedInv, NEW g \in Legs
  PROVE  /\ g[2] \in Levels /\ Alloc[g[2]] \in 0..N
         /\ filled[g] \in 0..Alloc[g[2]]
         /\ Remaining(g) \in 0..(Alloc[g[2]] - filled[g])
         /\ \A h \in Legs : h[2] = g[2] /\ h # g /\ filled[h] > 0 =>
              filled[g] = 0 /\ Remaining(g) = 0
<1>1. g \in Orders /\ g[2] \in Levels /\ Alloc[g[2]] \in 0..N
  BY AllocAssumption DEF Orders, Legs
<1>2. filled[g] \in 0..N /\ filled[g] <= qty[g] /\ qty[g] \in 0..N
  BY <1>1 DEF TrackedInv, TypeInv, TypeOK, OrderInv, Quantity
<1>3. order[g] # "none" => qty[g] = Alloc[g[2]]
  <2> SUFFICES ASSUME order[g] # "none"
               PROVE  qty[g] = Alloc[g[2]]
    OBVIOUS
  <2> QED
    BY DEF TrackedInv, TypeInv, RowInv, Unplaced
<1>4. order[g] = "none" => filled[g] = 0 /\ ~Live(g)
  BY <1>1 DEF TrackedInv, TypeInv, OrderInv, Live
<1>5. filled[g] \in 0..Alloc[g[2]]
  BY <1>1, <1>2, <1>3, <1>4
<1>6. Remaining(g) \in 0..(Alloc[g[2]] - filled[g])
  <2>1. CASE Live(g)
    BY <1>1, <1>2, <1>3, <1>4, <2>1 DEF Remaining, Quantity
  <2>2. CASE ~Live(g)
    BY <1>1, <1>5, <2>2 DEF Remaining
  <2> QED
    BY <2>1, <2>2
<1>7. ASSUME NEW h \in Legs, h[2] = g[2], h # g, filled[h] > 0
      PROVE  filled[g] = 0 /\ Remaining(g) = 0
  <2>1. filled[g] = 0 /\ order[g] # "working"
    BY <1>7 DEF TrackedInv, OcaOne, OcaGroup
  <2>2. GroupHit(g)
    BY <1>7 DEF GroupHit, SameGroup, OcaGroup
  <2> QED
    BY <2>1, <2>2 DEF Remaining, Live
<1> QED
  BY <1>1, <1>5, <1>6, <1>7

LEMMA ExposedAllotted == TrackedInv => Exposed \subseteq Units(Alloc, Levels)
<1> SUFFICES ASSUME TrackedInv, NEW u \in Exposed
             PROVE  u \in Units(Alloc, Levels)
  OBVIOUS
<1>1. PICK g \in Legs : g[2] = u[1] /\ u[2] <= Remaining(g)
  BY DEF Exposed, OcaGroup
<1>2. u \in Groups \X (1..N)
  BY DEF Exposed
<1>3. /\ g[2] \in Levels /\ Alloc[g[2]] \in 0..N /\ filled[g] \in 0..Alloc[g[2]]
      /\ Remaining(g) \in 0..(Alloc[g[2]] - filled[g])
  BY LegBounds
<1>4. u[2] <= Alloc[u[1]]
  BY <1>1, <1>2, <1>3, AllocAssumption
<1> QED
  BY <1>1, <1>2, <1>3, <1>4 DEF Units

\* The contracts the protection has sold or can still sell, each a contract of the
\* allocation of its level: those sold counted from the top, the others from below.
LegsCovered == WorkingLegs + Sold(Legs) <= N

LEMMA LegsWithinAllocation == TrackedInv => LegsCovered
<1> SUFFICES ASSUME TrackedInv
             PROVE  LegsCovered
  OBVIOUS
<1> DEFINE allotted == Units(Alloc, Levels)
           gone(u) == <<u[1][2], Alloc[u[1][2]] + 1 - u[2]>>
           sold == Units(filled, Legs)
           used == {gone(u) : u \in sold}
<1>1. IsFiniteSet(allotted) /\ IsFiniteSet(sold)
  <2>1. \A x \in Levels : Alloc[x] \in Int
    BY AllocAssumption
  <2>2. \A g \in Legs : filled[g] \in Int
    BY QuantityType DEF TrackedInv, TypeInv, Orders
  <2> QED
    BY <2>1, <2>2, LegsFinite, TotalType
<1>2. \A u \in sold : /\ u[1] \in Legs /\ u[2] \in 1..filled[u[1]] /\ u = <<u[1], u[2]>>
  <2> SUFFICES ASSUME NEW u \in sold
               PROVE  u[1] \in Legs /\ u[2] \in 1..filled[u[1]] /\ u = <<u[1], u[2]>>
    OBVIOUS
  <2>1. PICK g \in Legs : u \in {g} \X (1..filled[g])
    BY DEF Units
  <2> QED
    BY <2>1
<1>3. used \subseteq allotted
  <2> SUFFICES ASSUME NEW u \in sold
               PROVE  gone(u) \in allotted
    OBVIOUS
  <2>1. u[1] \in Legs /\ u[2] \in 1..filled[u[1]]
    BY <1>2
  <2>2. /\ u[1][2] \in Levels /\ Alloc[u[1][2]] \in 0..N
        /\ filled[u[1]] \in 0..Alloc[u[1][2]]
    BY <2>1, LegBounds
  <2>3. Alloc[u[1][2]] + 1 - u[2] \in 1..N /\ Alloc[u[1][2]] + 1 - u[2] <= Alloc[u[1][2]]
    BY <2>1, <2>2, AllocAssumption
  <2> QED
    BY <2>2, <2>3 DEF Units
<1>4. Cardinality(sold) <= Cardinality(used)
  <2> DEFINE e == [u \in sold |-> gone(u)]
  <2>1. \A u, v \in sold : gone(u) = gone(v) => u = v
    <3> SUFFICES ASSUME NEW u \in sold, NEW v \in sold, gone(u) = gone(v)
                 PROVE  u = v
      OBVIOUS
    <3>1. /\ u[1] \in Legs /\ u[2] \in 1..filled[u[1]] /\ u = <<u[1], u[2]>>
          /\ v[1] \in Legs /\ v[2] \in 1..filled[v[1]] /\ v = <<v[1], v[2]>>
      BY <1>2
    <3>2. /\ u[1][2] = v[1][2] /\ Alloc[u[1][2]] \in 0..N
          /\ Alloc[u[1][2]] + 1 - u[2] = Alloc[u[1][2]] + 1 - v[2]
          /\ filled[u[1]] \in 0..Alloc[u[1][2]] /\ filled[v[1]] \in 0..Alloc[v[1][2]]
      BY <3>1, LegBounds
    <3>3. u[2] = v[2]
      BY <3>1, <3>2
    <3>4. u[1] = v[1]
      BY <3>1, <3>2, LegBounds
    <3> QED
      BY <3>1, <3>3, <3>4
  <2>2. e \in Injection(sold, used)
    BY <2>1 DEF Injection, IsInjective
  <2>3. IsFiniteSet(used)
    BY <1>1, <1>3, FS_Subset
  <2> QED
    BY <2>2, <2>3, FS_Injection
<1>5. Exposed \subseteq allotted
  BY ExposedAllotted
<1>6. Exposed \cap used = {}
  <2> SUFFICES ASSUME NEW u \in sold, gone(u) \in Exposed
               PROVE  FALSE
    OBVIOUS
  <2>1. PICK h \in Legs : h[2] = u[1][2] /\ Alloc[u[1][2]] + 1 - u[2] <= Remaining(h)
    BY DEF Exposed, OcaGroup
  <2>2. u[1] \in Legs /\ u[2] \in 1..filled[u[1]]
    BY <1>2
  <2>3. /\ Alloc[u[1][2]] \in 0..N /\ filled[u[1]] \in 0..Alloc[u[1][2]]
        /\ Remaining(u[1]) \in 0..(Alloc[u[1][2]] - filled[u[1]])
    BY <2>2, LegBounds
  <2>4. CASE h = u[1]
    BY <2>1, <2>2, <2>3, <2>4
  <2>5. CASE h # u[1]
    <3>1. filled[u[1]] > 0
      BY <2>2, <2>3
    <3>2. Remaining(h) = 0
      BY <2>1, <2>2, <2>5, <3>1, LegBounds
    <3> QED
      BY <2>1, <2>2, <2>3, <3>2
  <2> QED
    BY <2>4, <2>5
<1>7. Cardinality(Exposed) + Cardinality(used) <= Cardinality(allotted)
  <2>1. IsFiniteSet(Exposed) /\ IsFiniteSet(used)
    BY <1>1, <1>3, <1>5, FS_Subset
  <2>2. Cardinality(Exposed \cup used)
          = Cardinality(Exposed) + Cardinality(used) - Cardinality(Exposed \cap used)
    BY <2>1, FS_Union
  <2>3. Cardinality(Exposed \cap used) = 0
    BY <1>6, FS_EmptySet
  <2>4. Exposed \cup used \in SUBSET allotted
    BY <1>3, <1>5
  <2>5. Cardinality(Exposed \cup used) <= Cardinality(allotted)
    BY <1>1, <2>4, FS_Subset
  <2>6. Cardinality(Exposed) \in Nat /\ Cardinality(used) \in Nat
    BY <2>1, FS_CardinalityType
  <2> QED
    BY <2>2, <2>3, <2>5, <2>6
<1>8. Cardinality(allotted) <= N
  <2>1. CASE Levels = {}
    <3>1. allotted = {}
      BY <2>1 DEF Units
    <3>2. Cardinality(allotted) = 0
      BY <3>1, FS_EmptySet
    <3> QED
      BY <3>2, AllocAssumption
  <2>2. CASE Levels # {}
    BY <2>2, AllocAssumption DEF Total
  <2> QED
    BY <2>1, <2>2
<1>9. /\ Cardinality(Exposed) \in Nat /\ Cardinality(used) \in Nat
      /\ Cardinality(sold) \in Nat /\ Cardinality(allotted) \in Nat
  BY <1>1, <1>3, <1>5, FS_Subset, FS_CardinalityType
<1>10. Cardinality(Exposed) + Cardinality(sold) <= N
  BY <1>4, <1>7, <1>8, <1>9, AllocAssumption
<1> QED
  BY <1>10 DEF LegsCovered, WorkingLegs, Sold, Total

\* Whatever closes run beside it, the protection never sells and stands ready to
\* sell, in all, more contracts than the entry bought.
THEOREM ProtectionCovered == Spec => []LegsCovered
<1> QED
  BY LegsWithinAllocation, TrackedHolds, PTL

\* Where no close is requested, the orders that can still sell never exceed the
\* position. With closes they do: that is what the run reprotect shows.
THEOREM CoveredWithoutCloses ==
  ASSUME Closes = {}
  PROVE  Spec => []SellsCovered
<1>1. TrackedInv => SellsCovered
  <2> SUFFICES ASSUME TrackedInv
               PROVE  SellsCovered
    OBVIOUS
  <2> DEFINE rest == [c \in Closes |-> Remaining(c)]
  <2>1. Units(rest, Closes) = {}
    BY DEF Units
  <2>2. Total(rest, Closes) = 0
    BY <2>1, FS_EmptySet DEF Total
  <2>3. Orders = Legs
    BY DEF Orders
  <2>4. WorkingLegs \in Nat /\ Sold(Legs) \in Nat
    <3>1. Sold(Legs) \in Nat
      BY <2>3, WorkingType DEF TrackedInv, TypeInv
    <3>2. Exposed \in SUBSET Units(Alloc, Levels)
      BY ExposedAllotted
    <3>3. IsFiniteSet(Units(Alloc, Levels))
      <4>1. \A x \in Levels : Alloc[x] \in Int
        BY AllocAssumption
      <4> QED
        BY <4>1, LegsFinite, TotalType
    <3> QED
      BY <3>1, <3>2, <3>3, FS_Subset, FS_CardinalityType DEF WorkingLegs
  <2>5. WorkingLegs + Sold(Legs) <= N
    BY LegsWithinAllocation DEF LegsCovered
  <2>6. WorkingExits = WorkingLegs
    BY <2>2, <2>4 DEF WorkingExits
  <2> QED
    BY <2>3, <2>4, <2>5, <2>6, AllocAssumption DEF SellsCovered, Position
<1> QED
  BY <1>1, TrackedHolds, PTL
=============================================================================
