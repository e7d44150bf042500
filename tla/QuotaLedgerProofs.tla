------------------------- MODULE QuotaLedgerProofs -------------------------
(***************************************************************************)
(* What holds of the quota ledger for every set of keys, cycles, limits    *)
(* and reserves, and for reservations of any size.                         *)
(***************************************************************************)
EXTENDS QuotaLedger, FiniteSetTheorems, TLAPS

-----------------------------------------------------------------------------
(* Rows *)

LEMMA NoRowType == NoRow \in Row /\ RowConsistent(NoRow)
  BY AmountAssumption DEF NoRow, Row, Statuses, RowConsistent

\* A fresh reservation is a consistent row.
LEMMA FreshRow ==
  ASSUME NEW n \in 1 .. MaxAmount, NEW c \in Cycles \cup {LegacyCycle, NoCycle}
  PROVE  LET r == [status |-> "RESERVED", amount |-> n, confirmed |-> 0,
                   released |-> 0, cycle |-> c, steps |-> {}]
         IN  r \in Row /\ RowConsistent(r)
  BY AmountAssumption DEF Row, Statuses, RowConsistent, NoRow

\* Settling part of what an open row holds leaves a consistent row.
LEMMA SettledRow ==
  ASSUME NEW r \in Row, RowConsistent(r), r.status = "RESERVED",
         NEW conf \in Nat, NEW rel \in Nat, NEW s \in Labels,
         conf + rel > 0, conf + rel <= Unsettled(r)
  PROVE  /\ Settled(r, conf, rel, s) \in Row
         /\ RowConsistent(Settled(r, conf, rel, s))
         /\ TransitionAllowed(r, Settled(r, conf, rel, s))
  <1> DEFINE t == Settled(r, conf, rel, s)
  <1>1. t.steps \in SUBSET StepKeys
    BY DEF Settled, Row, Labels
  <1>2. /\ t.amount = r.amount
        /\ t.confirmed = r.confirmed + conf
        /\ t.released = r.released + rel
        /\ t.cycle = r.cycle
        /\ t.status = IF r.confirmed + conf + r.released + rel = r.amount
                      THEN IF r.confirmed + conf > 0 THEN "CONFIRMED" ELSE "RELEASED"
                      ELSE "RESERVED"
    BY AmountAssumption DEF Settled, Row
  <1>3. /\ r.amount \in 0 .. MaxAmount
        /\ r.confirmed \in 0 .. MaxAmount
        /\ r.released \in 0 .. MaxAmount
    BY DEF Row
  <1>4. t \in Row
    <2>1. /\ t.status \in Statuses
          /\ t.confirmed \in 0 .. MaxAmount
          /\ t.released \in 0 .. MaxAmount
      BY <1>2, <1>3, AmountAssumption DEF Statuses, Unsettled
    <2> QED
      BY <1>1, <1>2, <1>3, <2>1 DEF Row, Settled
  <1>5. RowConsistent(t)
    BY <1>2, <1>3, AmountAssumption DEF RowConsistent, Unsettled
  <1>6. TransitionAllowed(r, t)
    BY <1>2, <1>3, AmountAssumption DEF TransitionAllowed
  <1> QED
    BY <1>4, <1>5, <1>6

\* Giving back all an open row holds leaves a consistent row.
LEMMA ClosedRow ==
  ASSUME NEW r \in Row, RowConsistent(r), r.status = "RESERVED",
         NEW v \in {"RELEASED", "ROLLED_BACK"}
  PROVE  /\ Closed(r, v) \in Row
         /\ RowConsistent(Closed(r, v))
         /\ TransitionAllowed(r, Closed(r, v))
  <1>1. /\ r.amount \in 0 .. MaxAmount
        /\ r.confirmed \in 0 .. MaxAmount
        /\ r.released \in 0 .. MaxAmount
        /\ r.cycle \in Cycles \cup {LegacyCycle, NoCycle}
        /\ r.steps \in SUBSET StepKeys
    BY DEF Row
  <1>2. r.confirmed + r.released < r.amount
    BY DEF RowConsistent
  <1>3. r.amount - r.confirmed \in 0 .. MaxAmount
    BY <1>1, <1>2, AmountAssumption
  <1>4. Closed(r, v) \in Row
    BY <1>1, <1>3 DEF Closed, Row, Statuses
  <1>5. RowConsistent(Closed(r, v))
    BY <1>1, <1>2, <1>3, AmountAssumption DEF Closed, RowConsistent
  <1>6. TransitionAllowed(r, Closed(r, v))
    BY <1>1, <1>2, <1>3, AmountAssumption DEF Closed, TransitionAllowed
  <1> QED
    BY <1>4, <1>5, <1>6

LEMMA CeilingType ==
  ASSUME NEW lim \in Nat, NEW rsv \in Nat
  PROVE  OperationalCeiling(lim, rsv) \in 0 .. lim
  BY DEF OperationalCeiling, Least, Greatest

LEMMA GreatestType ==
  ASSUME NEW a \in Nat, NEW b \in Nat
  PROVE  /\ Greatest(a, b) \in Nat
         /\ Greatest(a, b) >= a
         /\ Greatest(a, b) >= b
  BY DEF Greatest

LEMMA UnitsFinite == IsFiniteSet(Units)
  <1>1. IsFiniteSet(1 .. MaxAmount)
    BY FS_Interval, AmountAssumption
  <1> QED
    BY <1>1, FS_Product, KeysAssumption DEF Units

LEMMA HeldFinite ==
  ASSUME NEW S \in SUBSET Keys
  PROVE  IsFiniteSet(UNION {HeldBy(k) : k \in S})
  <1>1. UNION {HeldBy(k) : k \in S} \subseteq Units
    BY DEF HeldBy
  <1> QED
    BY <1>1, UnitsFinite, FS_Subset

-----------------------------------------------------------------------------
(* The inductive invariant *)

Inv == TypeOK /\ StatusTellsSettlement /\ CeilingIsCurrent

LEMMA InvInit == LedgerInit => Inv
  <1> SUFFICES ASSUME LedgerInit PROVE Inv
    OBVIOUS
  <1>1. rows \in [Keys -> Row] /\ StatusTellsSettlement
    BY NoRowType DEF LedgerInit, StatusTellsSettlement
  <1>2. CASE cycle = NoCycle
    BY <1>1, <1>2, AmountAssumption, CycleAssumption
       DEF LedgerInit, Inv, TypeOK, CeilingIsCurrent
  <1>3. CASE cycle = LegacyCycle
    <2>1. /\ limit \in Nat /\ consumed \in Nat
          /\ mandatoryReserve = AlignedReserve
          /\ operationalCeiling = OperationalCeiling(limit, AlignedReserve)
      BY <1>3, AmountAssumption, CycleAssumption DEF LedgerInit
    <2>2. operationalCeiling \in 0 .. limit
      BY <2>1, CeilingType, AmountAssumption
    <2> QED
      BY <1>1, <1>3, <2>1, <2>2, AmountAssumption
         DEF LedgerInit, Inv, TypeOK, CeilingIsCurrent
  <1> QED
    BY <1>2, <1>3 DEF LedgerInit

\* A sync writes a limit, a reserve and a ceiling that agree.
LEMMA SnapshotWritten ==
  ASSUME NEW c \in Cycles, NEW lim \in Limits, NEW rsv \in Reserves,
         WriteSnapshot(c, lim, rsv)
  PROVE  /\ cycle' \in Cycles
         /\ limit' \in Nat
         /\ mandatoryReserve' \in Nat
         /\ mandatoryReserve' >= ReserveFloor
         /\ operationalCeiling' \in 0 .. limit'
         /\ operationalCeiling' = OperationalCeiling(limit', mandatoryReserve')
  <1>1. lim \in Nat /\ rsv \in Nat /\ ReserveFloor \in Nat
    BY AmountAssumption
  <1>2. /\ Greatest(rsv, ReserveFloor) \in Nat
        /\ Greatest(rsv, ReserveFloor) >= ReserveFloor
    BY <1>1, GreatestType
  <1>3. OperationalCeiling(lim, Greatest(rsv, ReserveFloor)) \in 0 .. lim
    BY <1>1, <1>2, CeilingType
  <1> QED
    BY <1>1, <1>2, <1>3 DEF WriteSnapshot

\* A sync, whatever count the provider reports.
AnySync == \E c \in Cycles, count \in Nat, lim \in Limits, rsv \in Reserves :
               Sync(c, count, lim, rsv)

\* A step of the ledger with a sync of that kind.
AnyNext == AnySync \/ LedgerNext

LEMMA SyncNextIsAny ==
  ASSUME SyncNext
  PROVE  AnySync
  BY AmountAssumption DEF AnySync, SyncNext

LEMMA SyncStep ==
  ASSUME Inv, AnySync
  PROVE  Inv' /\ rows' = rows
  <1>1. PICK c \in Cycles, count \in Nat, lim \in Limits, rsv \in Reserves :
           Sync(c, count, lim, rsv)
    BY DEF AnySync
  <1>2. /\ WriteSnapshot(c, lim, rsv)
        /\ consumed' \in {count, Greatest(consumed, count)}
        /\ reserved' \in {0, reserved}
        /\ UNCHANGED <<installed, rows, expired>>
    BY <1>1 DEF Sync, SyncInsert, SyncSameCycle, SyncRollover
  <1>3. consumed' \in Nat /\ reserved' \in Nat
    <2>1. count \in Nat /\ consumed \in Nat /\ reserved \in Nat
      BY AmountAssumption DEF Inv, TypeOK
    <2>2. Greatest(consumed, count) \in Nat
      BY <2>1, GreatestType
    <2> QED
      BY <1>2, <2>1, <2>2
  <1>4. TypeOK'
    BY <1>2, <1>3, SnapshotWritten DEF Inv, TypeOK
  <1>5. StatusTellsSettlement'
    BY <1>2 DEF Inv, StatusTellsSettlement
  <1>6. CeilingIsCurrent'
    BY <1>2, SnapshotWritten DEF CeilingIsCurrent
  <1> QED
    BY <1>2, <1>4, <1>5, <1>6 DEF Inv

\* What a caller with reserve rsv leaves as reserve and ceiling.
LEMMA ReserveRaised ==
  ASSUME TypeOK, NEW rsv \in Nat
  PROVE  LET eff == Greatest(mandatoryReserve, rsv)
         IN  /\ Greatest(eff, ReserveFloor) \in Nat
             /\ Greatest(eff, ReserveFloor) >= ReserveFloor
             /\ Greatest(eff, ReserveFloor) >= mandatoryReserve
             /\ OperationalCeiling(limit, Greatest(eff, ReserveFloor)) \in 0 .. limit
  <1>1. mandatoryReserve \in Nat /\ limit \in Nat /\ ReserveFloor \in Nat
    BY AmountAssumption DEF TypeOK
  <1>2. /\ Greatest(mandatoryReserve, rsv) \in Nat
        /\ Greatest(mandatoryReserve, rsv) >= mandatoryReserve
    BY <1>1, GreatestType
  <1>3. /\ Greatest(Greatest(mandatoryReserve, rsv), ReserveFloor) \in Nat
        /\ Greatest(Greatest(mandatoryReserve, rsv), ReserveFloor) >= ReserveFloor
        /\ Greatest(Greatest(mandatoryReserve, rsv), ReserveFloor)
              >= Greatest(mandatoryReserve, rsv)
    BY <1>1, <1>2, GreatestType
  <1>4. OperationalCeiling(limit,
           Greatest(Greatest(mandatoryReserve, rsv), ReserveFloor)) \in 0 .. limit
    BY <1>1, <1>3, CeilingType
  <1> QED
    BY <1>1, <1>2, <1>3, <1>4

LEMMA ReserveStep ==
  ASSUME Inv,
         NEW k \in Keys, NEW n \in 1 .. MaxAmount,
         NEW c \in Cycles \cup {NoCycle}, NEW rsv \in Reserves,
         Reserve(k, n, c, rsv)
  PROVE  Inv' /\ TransitionAllowed(rows[k], rows'[k])
  <1> DEFINE eff == EffectiveReserve(rsv)
             new == [status |-> "RESERVED", amount |-> n, confirmed |-> 0,
                     released |-> 0, cycle |-> cycle', steps |-> {}]
  <1>1. rsv \in Nat /\ n \in Nat
    BY AmountAssumption
  <1>2. /\ eff \in Nat
        /\ eff >= ReserveFloor
        /\ OperationalCeiling(limit, eff) \in 0 .. limit
    BY <1>1, ReserveRaised DEF Inv, EffectiveReserve
  <1>3. cycle' \in Cycles \cup {LegacyCycle, NoCycle} /\ cycle' # NoCycle
    BY CycleAssumption DEF Reserve, Inv, TypeOK
  <1>4. new \in Row /\ RowConsistent(new)
    BY <1>3, FreshRow
  <1>5. rows' = [rows EXCEPT ![k] = new] /\ rows \in [Keys -> Row]
    BY DEF Reserve, Inv, TypeOK
  <1>6. rows' \in [Keys -> Row] /\ StatusTellsSettlement'
    BY <1>4, <1>5 DEF Inv, StatusTellsSettlement
  <1>7. TypeOK'
    BY <1>1, <1>2, <1>3, <1>6 DEF Reserve, Inv, TypeOK
  <1>8. CeilingIsCurrent'
    BY <1>2 DEF Reserve, CeilingIsCurrent
  <1>9. TransitionAllowed(rows[k], rows'[k])
    <2>1. rows[k] = NoRow
      BY DEF Reserve, Inv, StatusTellsSettlement, RowConsistent
    <2> QED
      BY <1>5, <2>1 DEF TransitionAllowed, NoRow
  <1> QED
    BY <1>6, <1>7, <1>8, <1>9 DEF Inv

\* Confirm and free release settle one open row in the same way.
LEMMA SettleStep ==
  ASSUME Inv,
         NEW k \in Keys, NEW conf \in Nat, NEW rel \in Nat, NEW s \in Labels,
         CanSettle(k, conf, rel, s),
         rows' = [rows EXCEPT ![k] = Settled(@, conf, rel, s)],
         consumed' = consumed + conf,
         reserved' = Greatest(0, reserved - (conf + rel)),
         UNCHANGED <<installed, stateVars, expired>>
  PROVE  Inv' /\ TransitionAllowed(rows[k], rows'[k])
  <1>1. rows \in [Keys -> Row] /\ RowConsistent(rows[k])
    BY DEF Inv, TypeOK, StatusTellsSettlement
  <1>2. /\ Settled(rows[k], conf, rel, s) \in Row
        /\ RowConsistent(Settled(rows[k], conf, rel, s))
        /\ TransitionAllowed(rows[k], Settled(rows[k], conf, rel, s))
    BY <1>1, SettledRow DEF CanSettle
  <1>3. rows' \in [Keys -> Row] /\ StatusTellsSettlement'
    BY <1>1, <1>2 DEF Inv, StatusTellsSettlement
  <1>4. consumed' \in Nat /\ reserved' \in Nat
    BY DEF Inv, TypeOK, Greatest
  <1>5. TypeOK' /\ CeilingIsCurrent'
    BY <1>3, <1>4 DEF Inv, TypeOK, CeilingIsCurrent, stateVars
  <1> QED
    BY <1>1, <1>2, <1>3, <1>5 DEF Inv

LEMMA ConfirmStep ==
  ASSUME Inv, NEW k \in Keys, NEW conf \in Nat, NEW rel \in Nat,
         NEW s \in Labels, Confirm(k, conf, rel, s)
  PROVE  Inv' /\ TransitionAllowed(rows[k], rows'[k])
  BY SettleStep DEF Confirm

LEMMA FreeReleaseStep ==
  ASSUME Inv, NEW k \in Keys, NEW rel \in Nat, NEW s \in Labels,
         FreeRelease(k, rel, s)
  PROVE  Inv' /\ TransitionAllowed(rows[k], rows'[k])
  <1>1. /\ CanSettle(k, 0, rel, s)
        /\ rows' = [rows EXCEPT ![k] = Settled(@, 0, rel, s)]
        /\ reserved' = Greatest(0, reserved - (0 + rel))
        /\ UNCHANGED <<installed, stateVars, expired>>
    BY DEF FreeRelease
  <1>2. consumed' = consumed + 0
    BY DEF FreeRelease, Inv, TypeOK
  <1> QED
    BY <1>1, <1>2, SettleStep

\* Cleanup and rollback close a set of open rows.
LEMMA DrainStep ==
  ASSUME Inv, NEW S \in SUBSET Open, NEW v \in {"RELEASED", "ROLLED_BACK"},
         Drain(S, v), installed' \in BOOLEAN,
         UNCHANGED <<stateVars, consumed, expired>>
  PROVE  Inv' /\ \A k \in Keys : TransitionAllowed(rows[k], rows'[k])
  <1>1. \A k \in Keys : /\ rows'[k] \in Row
                        /\ RowConsistent(rows'[k])
                        /\ TransitionAllowed(rows[k], rows'[k])
    <2> TAKE k \in Keys
    <2>1. rows[k] \in Row /\ RowConsistent(rows[k])
      BY DEF Inv, TypeOK, StatusTellsSettlement
    <2>2. CASE k \in S
      BY <2>1, <2>2, ClosedRow DEF Drain, Open
    <2>3. CASE k \notin S
      <3>1. rows'[k] = rows[k]
        BY <2>3 DEF Drain
      <3> QED
        BY <2>1, <3>1 DEF TransitionAllowed, Row
    <2> QED
      BY <2>2, <2>3
  <1>2. rows' \in [Keys -> Row] /\ StatusTellsSettlement'
    BY <1>1 DEF Drain, StatusTellsSettlement
  <1>3. reserved' \in Nat
    <2>1. IsFiniteSet(UNION {HeldBy(k) : k \in S})
      BY HeldFinite DEF Open
    <2> QED
      BY <2>1, FS_CardinalityType DEF Drain, Greatest, Inv, TypeOK
  <1>4. TypeOK' /\ CeilingIsCurrent'
    BY <1>2, <1>3 DEF Inv, TypeOK, CeilingIsCurrent, stateVars
  <1> QED
    BY <1>1, <1>2, <1>4 DEF Inv

LEMMA ReapplyStep ==
  ASSUME Inv, ReapplyMigration
  PROVE  Inv' /\ rows' = rows
  <1>1. /\ mandatoryReserve \in Nat /\ limit \in Nat
        /\ AlignedReserve \in Nat /\ ReserveFloor \in Nat
        /\ ReserveFloor <= AlignedReserve
    BY AmountAssumption DEF Inv, TypeOK
  <1>2. /\ Greatest(mandatoryReserve, AlignedReserve) \in Nat
        /\ Greatest(mandatoryReserve, AlignedReserve) >= AlignedReserve
    BY <1>1, GreatestType
  <1>3. OperationalCeiling(limit, Greatest(mandatoryReserve, AlignedReserve))
           \in 0 .. limit
    BY <1>1, <1>2, CeilingType
  <1>4. TypeOK'
    BY <1>1, <1>2, <1>3 DEF ReapplyMigration, Inv, TypeOK
  <1>5. StatusTellsSettlement'
    BY DEF ReapplyMigration, Inv, StatusTellsSettlement
  <1>6. CeilingIsCurrent'
    BY <1>1, <1>2 DEF ReapplyMigration, CeilingIsCurrent
  <1> QED
    BY <1>4, <1>5, <1>6 DEF Inv, ReapplyMigration

LEMMA PassStep ==
  ASSUME Inv, NEW k \in Keys, Pass(k)
  PROVE  Inv' /\ rows' = rows
  BY DEF Inv, Pass, TypeOK, StatusTellsSettlement, CeilingIsCurrent, stateVars

\* A row that is not touched makes no transition the trigger could refuse.
LEMMA UntouchedRow ==
  ASSUME TypeOK, NEW k \in Keys, rows'[k] = rows[k]
  PROVE  TransitionAllowed(rows[k], rows'[k])
  BY DEF TransitionAllowed, TypeOK, Row

\* One step of the ledger, whatever it is.
LEMMA LedgerStep ==
  ASSUME Inv, [AnyNext]_ledgerVars
  PROVE  Inv' /\ \A k \in Keys : TransitionAllowed(rows[k], rows'[k])
  <1> DEFINE Goal == Inv' /\ \A k \in Keys : TransitionAllowed(rows[k], rows'[k])
  <1>1. ASSUME Inv', rows' = rows PROVE Goal
    BY <1>1, UntouchedRow DEF Inv
  <1>2. ASSUME NEW k \in Keys, NEW r, rows' = [rows EXCEPT ![k] = r],
               Inv' /\ TransitionAllowed(rows[k], rows'[k])
        PROVE  Goal
    <2>1. \A j \in Keys \ {k} : rows'[j] = rows[j]
      BY <1>2 DEF Inv, TypeOK
    <2> QED
      BY <1>2, <2>1, UntouchedRow DEF Inv
  <1>3. CASE AnySync
    BY <1>1, <1>3, SyncStep
  <1>4. CASE ReserveNext
    <2>1. PICK k \in Keys, n \in 1 .. MaxAmount, c \in Cycles \cup {NoCycle},
               rsv \in Reserves : Reserve(k, n, c, rsv)
      BY <1>4 DEF ReserveNext
    <2>2. Inv' /\ TransitionAllowed(rows[k], rows'[k])
      BY <2>1, ReserveStep
    <2>3. \E r : rows' = [rows EXCEPT ![k] = r]
      BY <2>1 DEF Reserve
    <2> QED
      BY <1>2, <2>2, <2>3
  <1>5. ASSUME NEW k \in Keys, NEW conf \in Nat, NEW rel \in Nat,
               NEW s \in Labels, Confirm(k, conf, rel, s)
        PROVE  Goal
    <2>1. Inv' /\ TransitionAllowed(rows[k], rows'[k])
      BY <1>5, ConfirmStep
    <2>2. \E r : rows' = [rows EXCEPT ![k] = r]
      BY <1>5 DEF Confirm
    <2> QED
      BY <1>2, <2>1, <2>2
  <1>6. CASE ConfirmNext
    BY <1>5, <1>6, AmountAssumption DEF ConfirmNext
  <1>7. CASE ReleaseNext
    <2>1. PICK k \in Keys, rel \in 1 .. MaxAmount, b \in BOOLEAN, s \in Labels :
             Release(k, rel, b, s)
      BY <1>7 DEF ReleaseNext
    <2>2. rel \in Nat /\ 0 \in Nat
      BY AmountAssumption
    <2>3. CASE Confirm(k, rel, 0, s)
      BY <1>5, <2>2, <2>3
    <2>4. CASE FreeRelease(k, rel, s)
      <3>1. Inv' /\ TransitionAllowed(rows[k], rows'[k])
        BY <2>2, <2>4, FreeReleaseStep
      <3>2. \E r : rows' = [rows EXCEPT ![k] = r]
        BY <2>4 DEF FreeRelease
      <3> QED
        BY <1>2, <3>1, <3>2
    <2> QED
      BY <2>1, <2>3, <2>4 DEF Release
  <1>8. CASE \E k \in Keys : Pass(k)
    BY <1>1, <1>8, PassStep
  <1>9. CASE CleanupStale
    <2>1. /\ Drain(Open \cap expired, "RELEASED")
          /\ UNCHANGED <<installed, stateVars, consumed, expired>>
      BY <1>9 DEF CleanupStale
    <2>2. installed' \in BOOLEAN
      BY <2>1 DEF Inv, TypeOK
    <2> QED
      BY <2>1, <2>2, DrainStep
  <1>10. CASE RollbackMigration
    BY <1>10, DrainStep DEF RollbackMigration
  <1>11. CASE ReapplyMigration
    BY <1>1, <1>11, ReapplyStep
  <1>12. CASE UNCHANGED ledgerVars
    <2>1. Inv' /\ rows' = rows
      BY <1>12 DEF ledgerVars, Inv, TypeOK, StatusTellsSettlement, CeilingIsCurrent
    <2> QED
      BY <1>1, <2>1
  <1> QED
    BY <1>3, <1>4, <1>6, <1>7, <1>8, <1>9, <1>10, <1>11, <1>12, SyncNextIsAny
       DEF AnyNext, LedgerNext

(***************************************************************************)
(* Every reachable ledger state is well typed and within its constraints.  *)
(***************************************************************************)
THEOREM TypeCorrect == LedgerSpec => []TypeOK
  <1>1. LedgerInit => Inv
    BY InvInit
  <1>2. Inv /\ [LedgerNext]_ledgerVars => Inv'
    BY LedgerStep DEF AnyNext
  <1>3. Inv => TypeOK
    BY DEF Inv
  <1> QED
    BY <1>1, <1>2, <1>3, PTL DEF LedgerSpec

(***************************************************************************)
(* The status of every reservation always tells how its units were         *)
(* settled, whichever of confirm, release, cleanup and rollback wrote it.  *)
(***************************************************************************)
THEOREM StatusCorrect == LedgerSpec => []StatusTellsSettlement
  <1>1. LedgerInit => Inv
    BY InvInit
  <1>2. Inv /\ [LedgerNext]_ledgerVars => Inv'
    BY LedgerStep DEF AnyNext
  <1>3. Inv => StatusTellsSettlement
    BY DEF Inv
  <1> QED
    BY <1>1, <1>2, <1>3, PTL DEF LedgerSpec

(***************************************************************************)
(* The stored ceiling always is the one of the stored limit and reserve.   *)
(***************************************************************************)
THEOREM CeilingCorrect == LedgerSpec => []CeilingIsCurrent
  <1>1. LedgerInit => Inv
    BY InvInit
  <1>2. Inv /\ [LedgerNext]_ledgerVars => Inv'
    BY LedgerStep DEF AnyNext
  <1>3. Inv => CeilingIsCurrent
    BY DEF Inv
  <1> QED
    BY <1>1, <1>2, <1>3, PTL DEF LedgerSpec

(***************************************************************************)
(* No ledger function ever attempts an update the transition trigger would *)
(* abort: verdicts are final and settled amounts never shrink.             *)
(***************************************************************************)
THEOREM TriggerSilent == LedgerSpec => TriggerNeverFires
  <1>1. LedgerInit => Inv
    BY InvInit
  <1>2. Inv /\ [LedgerNext]_ledgerVars => Inv'
    BY LedgerStep DEF AnyNext
  <1>3. Inv /\ [LedgerNext]_ledgerVars
          => [\A k \in Keys : TransitionAllowed(rows[k], rows'[k])]_ledgerVars
    BY LedgerStep DEF AnyNext
  <1> QED
    BY <1>1, <1>2, <1>3, PTL DEF LedgerSpec, TriggerNeverFires

-----------------------------------------------------------------------------
(* How many units the open rows hold *)

\* An open row holds exactly what it has not settled; any other row nothing.
LEMMA HeldByCount ==
  ASSUME TypeOK, StatusTellsSettlement, NEW k \in Keys
  PROVE  /\ IsFiniteSet(HeldBy(k))
         /\ rows[k].status = "RESERVED" =>
               /\ Cardinality(HeldBy(k)) = Unsettled(rows[k])
               /\ Cardinality(HeldBy(k)) > 0
         /\ rows[k].status # "RESERVED" => HeldBy(k) = {}
  <1> DEFINE r  == rows[k]
             lo == r.confirmed + r.released + 1
  <1>1. /\ r.amount \in 0 .. MaxAmount
        /\ r.confirmed \in 0 .. MaxAmount
        /\ r.released \in 0 .. MaxAmount
    BY DEF TypeOK, Row
  <1>2. ASSUME r.status = "RESERVED"
        PROVE  /\ Cardinality(HeldBy(k)) = Unsettled(r)
               /\ Cardinality(HeldBy(k)) > 0
    <2>1. r.confirmed + r.released < r.amount
      BY <1>2 DEF StatusTellsSettlement, RowConsistent
    <2>2. HeldBy(k) = {k} \X (lo .. r.amount)
      <3>1. lo .. r.amount \subseteq 1 .. MaxAmount
        BY <1>1, AmountAssumption
      <3>2. \A u \in {k} \X (lo .. r.amount) : u \in HeldBy(k)
        BY <1>1, <1>2, <3>1 DEF HeldBy, Units
      <3>3. \A u \in HeldBy(k) : u \in {k} \X (lo .. r.amount)
        BY <1>1, AmountAssumption DEF HeldBy, Units
      <3> QED
        BY <3>2, <3>3
    <2>3. lo \in Int /\ r.amount \in Int /\ lo <= r.amount
      BY <1>1, <2>1, AmountAssumption
    <2>4. /\ IsFiniteSet(lo .. r.amount)
          /\ Cardinality(lo .. r.amount) = r.amount - lo + 1
      BY <2>3, FS_Interval
    <2>5. IsFiniteSet({k}) /\ Cardinality({k}) = 1
      BY FS_Singleton
    <2>6. Cardinality(HeldBy(k)) = Cardinality({k}) * Cardinality(lo .. r.amount)
      <3> DEFINE I == lo .. r.amount
      <3>1. IsFiniteSet(I) /\ IsFiniteSet({k})
        BY <2>4, <2>5
      <3> HIDE DEF I
      <3>2. Cardinality({k} \X I) = Cardinality({k}) * Cardinality(I)
        BY <3>1, FS_Product
      <3> QED
        BY <2>2, <3>2 DEF I
    <2>7. Cardinality(HeldBy(k)) = r.amount - lo + 1
      BY <1>1, <2>3, <2>4, <2>5, <2>6, AmountAssumption
    <2> QED
      BY <1>1, <2>1, <2>3, <2>7, AmountAssumption DEF Unsettled
  <1>3. r.status # "RESERVED" => HeldBy(k) = {}
    BY DEF HeldBy
  <1>4. IsFiniteSet(HeldBy(k))
    BY UnitsFinite, FS_Subset DEF HeldBy
  <1> QED
    BY <1>2, <1>3, <1>4

HeldElsewhere(k) == UNION {HeldBy(j) : j \in Keys \ {k}}

LEMMA HeldSplit ==
  ASSUME NEW k \in Keys
  PROVE  /\ IsFiniteSet(Held)
         /\ IsFiniteSet(HeldElsewhere(k))
         /\ Cardinality(Held) = Cardinality(HeldBy(k)) + Cardinality(HeldElsewhere(k))
  <1>1. IsFiniteSet(Held) /\ IsFiniteSet(HeldElsewhere(k))
    BY HeldFinite DEF Held, HeldElsewhere
  <1>2. IsFiniteSet(HeldBy(k))
    BY UnitsFinite, FS_Subset DEF HeldBy
  <1>3. Held = HeldBy(k) \cup HeldElsewhere(k)
    BY DEF Held, HeldElsewhere
  <1>4. HeldBy(k) \cap HeldElsewhere(k) = {}
    BY DEF HeldBy, HeldElsewhere
  <1>5. Cardinality({}) = 0
    BY FS_EmptySet
  <1>6. /\ Cardinality(HeldBy(k)) \in Nat
        /\ Cardinality(HeldElsewhere(k)) \in Nat
    BY <1>1, <1>2, FS_CardinalityType
  <1> QED
    BY <1>1, <1>2, <1>3, <1>4, <1>5, <1>6, FS_Union

\* Changing one row changes what is held by what that row's holding changes.
LEMMA HeldChange ==
  ASSUME TypeOK, NEW k \in Keys, NEW r, rows' = [rows EXCEPT ![k] = r]
  PROVE  /\ Cardinality(Held') - Cardinality(Held)
              = Cardinality(HeldBy(k)') - Cardinality(HeldBy(k))
         /\ Cardinality(Held) \in Nat
         /\ Cardinality(Held') \in Nat
         /\ Cardinality(HeldBy(k)) <= Cardinality(Held)
  <1>1. HeldElsewhere(k)' = HeldElsewhere(k)
    <2>1. \A j \in Keys \ {k} : rows'[j] = rows[j]
      BY DEF TypeOK
    <2>2. \A j \in Keys \ {k} : HeldBy(j)' = HeldBy(j)
      BY <2>1 DEF HeldBy
    <2> QED
      BY <2>2 DEF HeldElsewhere
  <1>2. /\ IsFiniteSet(Held) /\ IsFiniteSet(HeldElsewhere(k))
        /\ Cardinality(Held) = Cardinality(HeldBy(k)) + Cardinality(HeldElsewhere(k))
    BY HeldSplit
  <1>3. (/\ IsFiniteSet(Held) /\ IsFiniteSet(HeldElsewhere(k))
         /\ Cardinality(Held) = Cardinality(HeldBy(k)) + Cardinality(HeldElsewhere(k)))'
    BY HeldSplit, PTL
  <1>4. IsFiniteSet(HeldBy(k)) /\ IsFiniteSet(HeldBy(k)')
    BY UnitsFinite, FS_Subset DEF HeldBy
  <1>5. /\ Cardinality(Held) \in Nat /\ Cardinality(Held') \in Nat
        /\ Cardinality(HeldBy(k)) \in Nat /\ Cardinality(HeldBy(k)') \in Nat
        /\ Cardinality(HeldElsewhere(k)) \in Nat
    BY <1>2, <1>3, <1>4, FS_CardinalityType
  <1> QED
    BY <1>1, <1>2, <1>3, <1>5

\* A reservation adds its units to what is held.
LEMMA HeldAfterReserve ==
  ASSUME Inv,
         NEW k \in Keys, NEW n \in 1 .. MaxAmount,
         NEW c \in Cycles \cup {NoCycle}, NEW rsv \in Reserves,
         Reserve(k, n, c, rsv)
  PROVE  /\ Cardinality(Held) \in Nat
         /\ Cardinality(Held') = Cardinality(Held) + n
  <1>1. Inv'
    BY ReserveStep
  <1>2. HeldBy(k) = {} /\ Cardinality(HeldBy(k)) = 0
    BY FS_EmptySet DEF Reserve, HeldBy
  <1>3. /\ rows'[k].status = "RESERVED"
        /\ Unsettled(rows'[k]) = n
    BY AmountAssumption DEF Reserve, Inv, TypeOK, Unsettled
  <1>4. (TypeOK /\ StatusTellsSettlement)'
    BY <1>1 DEF Inv
  <1>5. Cardinality(HeldBy(k)') = Unsettled(rows'[k])
    <2>1. (rows[k].status = "RESERVED" => Cardinality(HeldBy(k)) = Unsettled(rows[k]))'
      BY <1>4, HeldByCount, PTL
    <2> QED
      BY <1>3, <2>1 DEF Unsettled
  <1>6. PICK r : rows' = [rows EXCEPT ![k] = r]
    BY DEF Reserve
  <1>7. /\ Cardinality(Held') - Cardinality(Held)
              = Cardinality(HeldBy(k)') - Cardinality(HeldBy(k))
        /\ Cardinality(Held) \in Nat
        /\ Cardinality(Held') \in Nat
    BY <1>6, HeldChange DEF Inv
  <1> QED
    BY <1>2, <1>3, <1>5, <1>7, AmountAssumption

\* A settlement takes exactly the units it settles from what is held.
LEMMA HeldAfterSettle ==
  ASSUME Inv, Inv',
         NEW k \in Keys, NEW conf \in Nat, NEW rel \in Nat, NEW s \in Labels,
         CanSettle(k, conf, rel, s),
         rows' = [rows EXCEPT ![k] = Settled(@, conf, rel, s)]
  PROVE  /\ Cardinality(Held) \in Nat
         /\ conf + rel > 0
         /\ conf + rel <= Cardinality(Held)
         /\ Cardinality(Held') = Cardinality(Held) - (conf + rel)
  <1> DEFINE old == rows[k]
             new == Settled(old, conf, rel, s)
  <1>1. /\ rows'[k] = new
        /\ old \in Row
        /\ old.status = "RESERVED"
        /\ conf + rel > 0
        /\ conf + rel <= Unsettled(old)
    BY DEF Inv, TypeOK, CanSettle
  <1>2. /\ old.amount \in Nat
        /\ old.confirmed \in Nat
        /\ old.released \in Nat
    BY <1>1, AmountAssumption DEF Row
  <1>3. /\ Unsettled(new) = Unsettled(old) - (conf + rel)
        /\ new.status # "RESERVED" => Unsettled(new) = 0
    BY <1>1, <1>2 DEF Settled, Unsettled
  <1>4. Cardinality(HeldBy(k)) = Unsettled(old)
    BY <1>1, HeldByCount DEF Inv
  <1>5. Cardinality(HeldBy(k)') = Unsettled(new)
    <2>1. (TypeOK /\ StatusTellsSettlement)'
      BY DEF Inv
    <2>2. (/\ rows[k].status = "RESERVED" => Cardinality(HeldBy(k)) = Unsettled(rows[k])
           /\ rows[k].status # "RESERVED" => HeldBy(k) = {})'
      BY <2>1, HeldByCount, PTL
    <2>3. CASE new.status = "RESERVED"
      BY <1>1, <2>2, <2>3 DEF Unsettled
    <2>4. CASE new.status # "RESERVED"
      BY <1>1, <1>3, <2>2, <2>4, FS_EmptySet
    <2> QED
      BY <2>3, <2>4
  <1>6. /\ Cardinality(Held') - Cardinality(Held)
              = Cardinality(HeldBy(k)') - Cardinality(HeldBy(k))
        /\ Cardinality(Held) \in Nat
        /\ Cardinality(Held') \in Nat
        /\ Cardinality(HeldBy(k)) <= Cardinality(Held)
    BY HeldChange DEF Inv
  <1>7. Unsettled(old) \in Int
    BY <1>2 DEF Unsettled
  <1> QED
    BY <1>1, <1>3, <1>4, <1>5, <1>6, <1>7

\* Draining takes all that the drained rows hold.
LEMMA HeldAfterDrain ==
  ASSUME Inv, NEW S \in SUBSET Open, NEW v \in {"RELEASED", "ROLLED_BACK"},
         Drain(S, v)
  PROVE  LET d == Cardinality(UNION {HeldBy(k) : k \in S})
         IN  /\ d \in Nat
             /\ Cardinality(Held) \in Nat
             /\ d <= Cardinality(Held)
             /\ Cardinality(Held') = Cardinality(Held) - d
             /\ reserved' = Greatest(0, reserved - d)
  <1> DEFINE D == UNION {HeldBy(k) : k \in S}
  <1>1. S \subseteq Keys
    BY DEF Open
  <1>2. IsFiniteSet(D) /\ IsFiniteSet(Held)
    BY <1>1, HeldFinite DEF Held
  <1>3. D \subseteq Held
    BY <1>1 DEF Held
  <1>4. Held' = Held \ D
    <2>1. \A k \in S : HeldBy(k)' = {}
      BY <1>1 DEF Drain, Closed, HeldBy
    <2>2. \A k \in Keys \ S : HeldBy(k)' = HeldBy(k)
      BY DEF Drain, HeldBy
    <2>3. \A k \in Keys \ S : \A j \in S : HeldBy(k) \cap HeldBy(j) = {}
      BY DEF HeldBy
    <2> QED
      BY <1>1, <2>1, <2>2, <2>3 DEF Held
  <1>5. Held \cap D = D
    BY <1>3
  <1>6. Cardinality(Held') = Cardinality(Held) - Cardinality(D)
    <2> HIDE DEF D
    <2>1. Cardinality(Held \ D) = Cardinality(Held) - Cardinality(Held \cap D)
      BY <1>2, FS_Difference
    <2> QED
      BY <1>4, <1>5, <2>1
  <1>7. /\ Cardinality(D) \in Nat
        /\ Cardinality(Held) \in Nat
        /\ Cardinality(D) <= Cardinality(Held)
    BY <1>2, <1>3, FS_CardinalityType, FS_Subset
  <1> QED
    BY <1>6, <1>7 DEF Drain

-----------------------------------------------------------------------------
(* The three things a ledger step can do to the units *)

\* Units are handed out under the ceiling the step itself leaves.
HandsOut ==
  \E n \in Nat \ {0} :
    /\ Cardinality(Held') = Cardinality(Held) + n
    /\ reserved' = reserved + n
    /\ consumed' = consumed
    /\ consumed + reserved + n <= operationalCeiling'
    /\ operationalCeiling' <= operationalCeiling

\* Units come back, some of them spent.
TakesBack ==
  \E d \in Nat, x \in Nat :
    /\ x <= d
    /\ d <= Cardinality(Held)
    /\ Cardinality(Held') = Cardinality(Held) - d
    /\ reserved' = Greatest(0, reserved - d)
    /\ consumed' = consumed + x
    /\ operationalCeiling' = operationalCeiling

\* No row changes, so neither does what the rows hold.
LeavesRows == rows' = rows

LEMMA HeldSize ==
  /\ IsFiniteSet(Held)
  /\ Cardinality(Held) \in Nat
  BY HeldFinite, FS_CardinalityType DEF Held

LEMMA RowsKeepHeld ==
  ASSUME rows' = rows
  PROVE  Held' = Held
  BY DEF Held, HeldBy

\* The ceiling can only fall when the reserve rises.
LEMMA CeilingFalls ==
  ASSUME NEW lim \in Nat, NEW a \in Nat, NEW b \in Nat, a <= b
  PROVE  OperationalCeiling(lim, b) <= OperationalCeiling(lim, a)
  BY DEF OperationalCeiling, Least, Greatest

LEMMA ReserveHandsOut ==
  ASSUME Inv, ReserveNext
  PROVE  HandsOut
  <1>1. PICK k \in Keys, n \in 1 .. MaxAmount, c \in Cycles \cup {NoCycle},
             rsv \in Reserves : Reserve(k, n, c, rsv)
    BY DEF ReserveNext
  <1>2. n \in Nat \ {0} /\ rsv \in Nat
    BY AmountAssumption
  <1>3. Cardinality(Held') = Cardinality(Held) + n
    BY <1>1, HeldAfterReserve
  <1>4. /\ EffectiveReserve(rsv) \in Nat
        /\ EffectiveReserve(rsv) >= mandatoryReserve
    BY <1>2, ReserveRaised DEF Inv, EffectiveReserve
  <1>5. operationalCeiling = OperationalCeiling(limit, mandatoryReserve)
    BY <1>1 DEF Reserve, Inv, CeilingIsCurrent
  <1>6. /\ reserved' = reserved + n
        /\ consumed' = consumed
        /\ operationalCeiling' = OperationalCeiling(limit, EffectiveReserve(rsv))
        /\ consumed + reserved + n <= operationalCeiling'
    BY <1>1 DEF Reserve, Fits
  <1>7. operationalCeiling' <= operationalCeiling
    BY <1>4, <1>5, <1>6, CeilingFalls DEF Inv, TypeOK
  <1> QED
    BY <1>2, <1>3, <1>6, <1>7 DEF HandsOut

LEMMA ConfirmTakesBack ==
  ASSUME Inv, NEW k \in Keys, NEW conf \in Nat, NEW rel \in Nat,
         NEW s \in Labels, Confirm(k, conf, rel, s)
  PROVE  TakesBack
  <1>1. Inv'
    BY ConfirmStep
  <1>2. /\ conf + rel <= Cardinality(Held)
        /\ Cardinality(Held') = Cardinality(Held) - (conf + rel)
    BY <1>1, HeldAfterSettle DEF Confirm
  <1>3. conf + rel \in Nat /\ conf <= conf + rel
    OBVIOUS
  <1> QED
    BY <1>2, <1>3 DEF TakesBack, Confirm, stateVars

LEMMA FreeReleaseTakesBack ==
  ASSUME Inv, NEW k \in Keys, NEW rel \in Nat, NEW s \in Labels,
         FreeRelease(k, rel, s)
  PROVE  TakesBack
  <1>1. Inv'
    BY FreeReleaseStep
  <1>2. /\ 0 + rel <= Cardinality(Held)
        /\ Cardinality(Held') = Cardinality(Held) - (0 + rel)
    BY <1>1, HeldAfterSettle DEF FreeRelease
  <1>3. consumed' = consumed + 0 /\ 0 <= rel
    BY DEF FreeRelease, Inv, TypeOK
  <1> QED
    BY <1>2, <1>3 DEF TakesBack, FreeRelease, stateVars

LEMMA DrainTakesBack ==
  ASSUME Inv, NEW S \in SUBSET Open, NEW v \in {"RELEASED", "ROLLED_BACK"},
         Drain(S, v), UNCHANGED <<stateVars, consumed>>
  PROVE  TakesBack
  <1> DEFINE d == Cardinality(UNION {HeldBy(k) : k \in S})
  <1>1. /\ d \in Nat
        /\ d <= Cardinality(Held)
        /\ Cardinality(Held') = Cardinality(Held) - d
        /\ reserved' = Greatest(0, reserved - d)
    BY HeldAfterDrain
  <1>2. consumed' = consumed + 0 /\ operationalCeiling' = operationalCeiling
    BY DEF Inv, TypeOK, stateVars
  <1> HIDE DEF d
  <1> QED
    BY <1>1, <1>2 DEF TakesBack

\* A settlement, a cleanup or the drain of the rollback.
Settles == ConfirmNext \/ ReleaseNext \/ CleanupStale \/ RollbackMigration

LEMMA SettlingTakesBack ==
  ASSUME Inv, Settles
  PROVE  TakesBack
  <1>1. CASE ConfirmNext
    BY <1>1, ConfirmTakesBack, AmountAssumption DEF ConfirmNext
  <1>2. CASE ReleaseNext
    <2>1. PICK k \in Keys, rel \in 1 .. MaxAmount, b \in BOOLEAN, s \in Labels :
             Release(k, rel, b, s)
      BY <1>2 DEF ReleaseNext
    <2>2. rel \in Nat /\ 0 \in Nat
      BY AmountAssumption
    <2> QED
      BY <2>1, <2>2, ConfirmTakesBack, FreeReleaseTakesBack DEF Release
  <1>3. CASE CleanupStale
    BY <1>3, DrainTakesBack DEF CleanupStale
  <1>4. CASE RollbackMigration
    BY <1>4, DrainTakesBack DEF RollbackMigration
  <1> QED
    BY <1>1, <1>2, <1>3, <1>4 DEF Settles

LEMMA StepKinds ==
  ASSUME [AnyNext]_ledgerVars
  PROVE  \/ AnySync
         \/ ReserveNext
         \/ Settles
         \/ LeavesRows /\ UNCHANGED <<cycle, consumed, reserved>>
  BY SyncNextIsAny
     DEF AnyNext, LedgerNext, Settles, LeavesRows, Pass, ReapplyMigration,
         ledgerVars, stateVars

LEMMA PhantomStep ==
  ASSUME Inv, NoPhantomReserve, [AnyNext]_ledgerVars
  PROVE  NoPhantomReserve'
  <1>1. reserved \in Nat /\ Cardinality(Held) \in Nat
    BY HeldSize DEF Inv, TypeOK
  <1>2. CASE AnySync
    <2>1. rows' = rows /\ reserved' \in {0, reserved}
      BY <1>2, SyncStep DEF AnySync, Sync, SyncInsert, SyncSameCycle, SyncRollover
    <2> QED
      BY <1>1, <2>1, RowsKeepHeld DEF NoPhantomReserve
  <1>3. CASE ReserveNext
    BY <1>1, <1>3, ReserveHandsOut DEF HandsOut, NoPhantomReserve
  <1>4. CASE Settles
    BY <1>1, <1>4, SettlingTakesBack DEF TakesBack, NoPhantomReserve, Greatest
  <1>5. CASE LeavesRows /\ UNCHANGED <<cycle, consumed, reserved>>
    BY <1>5, RowsKeepHeld DEF LeavesRows, NoPhantomReserve
  <1> QED
    BY <1>2, <1>3, <1>4, <1>5, StepKinds

LEMMA NothingHeldYet ==
  ASSUME LedgerInit
  PROVE  Cardinality(Held) = 0
  <1>1. \A k \in Keys : rows[k].status = "NONE"
    BY DEF LedgerInit, NoRow
  <1>2. Held = {}
    BY <1>1 DEF Held, HeldBy
  <1> QED
    BY <1>2, FS_EmptySet

(***************************************************************************)
(* Whatever the cycles, snapshots, settlements, cleanups and rollbacks,    *)
(* the reserved counter never exceeds what the open rows hold.             *)
(***************************************************************************)
THEOREM NoPhantoms == LedgerSpec => []NoPhantomReserve
  <1>1. LedgerInit => Inv /\ NoPhantomReserve
    BY InvInit, NothingHeldYet DEF LedgerInit, NoPhantomReserve
  <1>2. Inv /\ NoPhantomReserve /\ [LedgerNext]_ledgerVars => Inv' /\ NoPhantomReserve'
    BY LedgerStep, PhantomStep DEF AnyNext
  <1> QED
    BY <1>1, <1>2, PTL DEF LedgerSpec

-----------------------------------------------------------------------------
(* How many units are charged *)

ChargedTo(k) == {u \in Charged : u[1] = k}
ChargedElsewhere(k) == {u \in Charged : u[1] # k}

\* The units charged to a row are its first ones.
LEMMA ChargedToCount ==
  ASSUME TypeOK, NEW k \in Keys
  PROVE  /\ rows[k].confirmed \in Nat
         /\ Cardinality(ChargedTo(k)) = rows[k].confirmed
  <1> DEFINE n == rows[k].confirmed
             I == 1 .. n
  <1>1. n \in 0 .. MaxAmount /\ n \in Nat
    BY AmountAssumption DEF TypeOK, Row
  <1>2. ChargedTo(k) = {k} \X I
    <2>1. I \subseteq 1 .. MaxAmount
      BY <1>1, AmountAssumption
    <2>2. \A u \in {k} \X I : u \in ChargedTo(k)
      BY <1>1, <2>1 DEF ChargedTo, Charged, Units
    <2>3. \A u \in ChargedTo(k) : u \in {k} \X I
      BY <1>1, AmountAssumption DEF ChargedTo, Charged, Units
    <2> QED
      BY <2>2, <2>3
  <1>3. IsFiniteSet(I) /\ Cardinality(I) = n
    <2> HIDE DEF n
    <2>1. IsFiniteSet(1 .. n) /\ Cardinality(1 .. n) = IF 1 > n THEN 0 ELSE n - 1 + 1
      BY <1>1, FS_Interval
    <2> QED
      BY <1>1, <2>1
  <1>4. IsFiniteSet({k}) /\ Cardinality({k}) = 1
    BY FS_Singleton
  <1> HIDE DEF I
  <1>5. Cardinality({k} \X I) = Cardinality({k}) * Cardinality(I)
    BY <1>3, <1>4, FS_Product
  <1> QED
    BY <1>1, <1>2, <1>3, <1>4, <1>5

LEMMA ChargedSplit ==
  ASSUME NEW k \in Keys
  PROVE  /\ Cardinality(Charged) = Cardinality(ChargedTo(k)) + Cardinality(ChargedElsewhere(k))
         /\ Cardinality(ChargedTo(k)) \in Nat
         /\ Cardinality(ChargedElsewhere(k)) \in Nat
  <1>1. IsFiniteSet(ChargedTo(k)) /\ IsFiniteSet(ChargedElsewhere(k))
    BY UnitsFinite, FS_Subset DEF Charged, ChargedTo, ChargedElsewhere
  <1>2. /\ Charged = ChargedTo(k) \cup ChargedElsewhere(k)
        /\ ChargedTo(k) \cap ChargedElsewhere(k) = {}
    BY DEF ChargedTo, ChargedElsewhere
  <1> DEFINE A == ChargedTo(k)
             B == ChargedElsewhere(k)
  <1> HIDE DEF A, B
  <1>3. Cardinality(A \cup B) = Cardinality(A) + Cardinality(B) - Cardinality(A \cap B)
    BY <1>1, FS_Union DEF A, B
  <1>4. Cardinality(ChargedTo(k)) \in Nat /\ Cardinality(ChargedElsewhere(k)) \in Nat
    BY <1>1, FS_CardinalityType
  <1>5. Charged = A \cup B /\ A \cap B = {}
    BY <1>2 DEF A, B
  <1>6. Cardinality(A \cap B) = 0
    BY <1>5, FS_EmptySet, Zenon
  <1>7. Cardinality(Charged) = Cardinality(A \cup B)
    BY <1>5, Zenon
  <1>8. Cardinality(A) \in Nat /\ Cardinality(B) \in Nat
    BY <1>4 DEF A, B
  <1>9. Cardinality(Charged) = Cardinality(A) + Cardinality(B)
    BY <1>3, <1>6, <1>7, <1>8
  <1> QED
    BY <1>8, <1>9 DEF A, B

\* Changing one row changes what is charged by what that row's charge changes.
LEMMA ChargedChange ==
  ASSUME TypeOK, TypeOK', NEW k \in Keys, NEW r, rows' = [rows EXCEPT ![k] = r]
  PROVE  Cardinality(Charged') - Cardinality(Charged) = r.confirmed - rows[k].confirmed
  <1>1. /\ \A j \in Keys \ {k} : rows'[j] = rows[j]
        /\ rows'[k] = r
    BY DEF TypeOK
  <1>2. ChargedElsewhere(k)' = ChargedElsewhere(k)
    BY <1>1 DEF ChargedElsewhere, Charged, Units
  <1>3. /\ Cardinality(Charged) = Cardinality(ChargedTo(k)) + Cardinality(ChargedElsewhere(k))
        /\ Cardinality(ChargedElsewhere(k)) \in Nat
    BY ChargedSplit
  <1>4. (Cardinality(Charged) = Cardinality(ChargedTo(k)) + Cardinality(ChargedElsewhere(k)))'
    BY ChargedSplit, PTL
  <1>5. rows[k].confirmed \in Nat /\ Cardinality(ChargedTo(k)) = rows[k].confirmed
    BY ChargedToCount
  <1>6. (rows[k].confirmed \in Nat /\ Cardinality(ChargedTo(k)) = rows[k].confirmed)'
    BY ChargedToCount, PTL
  <1> QED
    BY <1>1, <1>2, <1>3, <1>4, <1>5, <1>6

Charges == consumed' - consumed = Cardinality(Charged') - Cardinality(Charged)

LEMMA SettlingCharges ==
  ASSUME Inv, Inv', NEW k \in Keys, NEW conf \in Nat, NEW rel \in Nat, NEW s \in Labels,
         CanSettle(k, conf, rel, s),
         rows' = [rows EXCEPT ![k] = Settled(@, conf, rel, s)],
         consumed' = consumed + conf
  PROVE  Charges
  <1>1. rows[k].confirmed \in Nat /\ consumed \in Nat
    BY AmountAssumption DEF Inv, TypeOK, Row
  <1>2. Settled(rows[k], conf, rel, s).confirmed = rows[k].confirmed + conf
    BY DEF Settled
  <1>3. Cardinality(Charged') - Cardinality(Charged)
           = Settled(rows[k], conf, rel, s).confirmed - rows[k].confirmed
    BY ChargedChange DEF Inv
  <1> QED
    BY <1>1, <1>2, <1>3 DEF Charges

\* Closing rows charges nothing: what was confirmed stays, the rest comes back.
LEMMA DrainCharges ==
  ASSUME TypeOK, NEW S \in SUBSET Open, NEW v \in {"RELEASED", "ROLLED_BACK"},
         Drain(S, v), UNCHANGED consumed
  PROVE  Charges
  <1>1. \A k \in Keys : rows'[k].confirmed = rows[k].confirmed
    BY DEF Drain, Closed
  <1>2. Charged' = Charged
    BY <1>1 DEF Charged, Units
  <1>3. Cardinality(Charged) \in Nat /\ consumed \in Nat
    BY UnitsFinite, FS_Subset, FS_CardinalityType DEF Charged, TypeOK
  <1> QED
    BY <1>2, <1>3 DEF Charges

LEMMA ChargeStep ==
  ASSUME Inv, [AnyNext]_ledgerVars
  PROVE  rows' # rows => Charges
  <1>1. Inv'
    BY LedgerStep
  <1>2. CASE AnySync
    BY <1>2, SyncStep
  <1>3. CASE ReserveNext
    <2>1. PICK k \in Keys, n \in 1 .. MaxAmount, c \in Cycles \cup {NoCycle},
               rsv \in Reserves : Reserve(k, n, c, rsv)
      BY <1>3 DEF ReserveNext
    <2>2. rows[k].confirmed = 0
      BY <2>1 DEF Reserve, Inv, StatusTellsSettlement, RowConsistent, NoRow
    <2> DEFINE r == [status |-> "RESERVED", amount |-> n, confirmed |-> 0, released |-> 0,
                     cycle |-> cycle', steps |-> {}]
    <2>3. rows' = [rows EXCEPT ![k] = r] /\ r.confirmed = 0 /\ consumed' = consumed
      BY <2>1 DEF Reserve
    <2> HIDE DEF r
    <2>4. Cardinality(Charged') - Cardinality(Charged) = 0
      <3>1. TypeOK /\ TypeOK'
        BY <1>1 DEF Inv
      <3>2. Cardinality(Charged') - Cardinality(Charged) = r.confirmed - rows[k].confirmed
        BY <2>3, <3>1, ChargedChange
      <3> QED
        BY <2>2, <2>3, <3>2
    <2>5. consumed' - consumed = 0
      BY <2>3 DEF Inv, TypeOK
    <2> QED
      BY <2>4, <2>5 DEF Charges
  <1>4. CASE ConfirmNext
    <2>1. PICK k \in Keys, conf \in 0 .. MaxAmount, rel \in 0 .. MaxAmount, s \in Labels :
             Confirm(k, conf, rel, s)
      BY <1>4 DEF ConfirmNext
    <2>2. conf \in Nat /\ rel \in Nat
      BY AmountAssumption
    <2> QED
      BY <1>1, <2>1, <2>2, SettlingCharges DEF Confirm
  <1>5. CASE ReleaseNext
    <2>1. PICK k \in Keys, rel \in 1 .. MaxAmount, b \in BOOLEAN, s \in Labels :
             Release(k, rel, b, s)
      BY <1>5 DEF ReleaseNext
    <2>2. rel \in Nat /\ 0 \in Nat /\ consumed + 0 = consumed
      BY AmountAssumption DEF Inv, TypeOK
    <2>3. CASE Confirm(k, rel, 0, s)
      BY <1>1, <2>2, <2>3, SettlingCharges DEF Confirm
    <2>4. CASE FreeRelease(k, rel, s)
      BY <1>1, <2>2, <2>4, SettlingCharges DEF FreeRelease
    <2> QED
      BY <2>1, <2>3, <2>4 DEF Release
  <1>6. CASE CleanupStale
    BY <1>6, DrainCharges DEF CleanupStale, Inv
  <1>7. CASE RollbackMigration
    BY <1>7, DrainCharges DEF RollbackMigration, Inv
  <1>8. CASE LeavesRows
    BY <1>8 DEF LeavesRows
  <1> QED
    BY <1>2, <1>3, <1>4, <1>5, <1>6, <1>7, <1>8, StepKinds DEF Settles

(***************************************************************************)
(* Whatever changes a row charges the account exactly what the row newly   *)
(* shows as confirmed, in any number of cycles: confirm, a release turned  *)
(* into a confirm, cleanup and rollback agree on what a unit costs.        *)
(***************************************************************************)
THEOREM ChargesExact == LedgerSpec => ChargeMatchesRows
  <1>1. LedgerInit => Inv
    BY InvInit
  <1>2. Inv /\ [LedgerNext]_ledgerVars => Inv'
    BY LedgerStep DEF AnyNext
  <1>3. Inv /\ [LedgerNext]_ledgerVars
          => [rows' # rows =>
                consumed' - consumed = Cardinality(Charged') - Cardinality(Charged)]_ledgerVars
    BY ChargeStep DEF Charges, AnyNext
  <1> QED
    BY <1>1, <1>2, <1>3, PTL DEF LedgerSpec, ChargeMatchesRows

-----------------------------------------------------------------------------
(* One subscription cycle: the counter is exact and the ledger is a budget *)

\* Before the first snapshot nothing has been used, held or reserved.
NothingYet ==
  cycle = NoCycle => /\ consumed = 0
                     /\ reserved = 0
                     /\ \A k \in Keys : rows[k].status = "NONE"

CycleInv == Inv /\ ReservedCoversHeld /\ NothingYet

LEMMA CycleInvInit == LedgerInit => CycleInv
  BY InvInit, NothingHeldYet, CycleAssumption
     DEF LedgerInit, CycleInv, ReservedCoversHeld, NothingYet, NoRow

\* Without a second cycle no sync is a rollover, so usage only goes up.
LEMMA SyncWithinCycle ==
  ASSUME OneCycle, CycleInv, AnySync
  PROVE  /\ rows' = rows
         /\ reserved' = reserved
         /\ consumed' >= consumed
         /\ cycle' # NoCycle
         /\ operationalCeiling' \in Nat
  <1>1. PICK c \in Cycles, count \in Nat, lim \in Limits, rsv \in Reserves :
           Sync(c, count, lim, rsv)
    BY DEF AnySync
  <1>2. Inv' /\ rows' = rows
    BY SyncStep DEF CycleInv
  <1>3. cycle' = c /\ c # NoCycle
    BY <1>1, CycleAssumption DEF Sync, SyncInsert, SyncSameCycle, SyncRollover,
                                 WriteSnapshot
  <1>4. operationalCeiling' \in Nat
    BY <1>2 DEF Inv, TypeOK
  <1>5. count \in Nat /\ consumed \in Nat
    BY AmountAssumption DEF CycleInv, Inv, TypeOK
  <1>6. CASE SyncInsert(c, count, lim, rsv)
    BY <1>2, <1>3, <1>4, <1>5, <1>6 DEF SyncInsert, CycleInv, NothingYet
  <1>7. CASE SyncSameCycle(c, count, lim, rsv)
    BY <1>2, <1>3, <1>4, <1>5, <1>7, GreatestType DEF SyncSameCycle
  <1>8. ~ SyncRollover(c, count, lim, rsv)
    BY DEF SyncRollover, OneCycle, CycleInv, Inv, TypeOK
  <1> QED
    BY <1>1, <1>6, <1>7, <1>8 DEF Sync

LEMMA SettlingNeedsRow ==
  ASSUME CycleInv, Settles
  PROVE  cycle' # NoCycle \/ (rows' = rows /\ UNCHANGED <<cycle, consumed, reserved>>)
  <1>1. UNCHANGED cycle
    BY DEF Settles, ConfirmNext, ReleaseNext, Release, Confirm, FreeRelease,
           CleanupStale, RollbackMigration, stateVars
  <1>2. CASE cycle # NoCycle
    BY <1>1, <1>2
  <1>3. CASE cycle = NoCycle
    <2>1. \A k \in Keys : rows[k].status = "NONE"
      BY <1>3 DEF CycleInv, NothingYet
    <2>2. RollbackMigration
      BY <1>3, <2>1 DEF Settles, ConfirmNext, ReleaseNext, Release, Confirm,
                        FreeRelease, CanSettle, CleanupStale
    <2>3. Open = {} /\ UNION {HeldBy(k) : k \in Open} = {}
      BY <2>1 DEF Open
    <2>4. rows' = [k \in Keys |-> rows[k]] /\ reserved' = Greatest(0, reserved - 0)
      BY <2>2, <2>3, FS_EmptySet DEF RollbackMigration, Drain
    <2>5. rows' = rows /\ reserved' = reserved
      BY <2>4 DEF CycleInv, Inv, TypeOK, Greatest
    <2> QED
      BY <1>1, <2>2, <2>5 DEF RollbackMigration
  <1> QED
    BY <1>2, <1>3

LEMMA CycleStep ==
  ASSUME OneCycle, CycleInv, [AnyNext]_ledgerVars
  PROVE  CycleInv'
  <1>1. Inv'
    BY LedgerStep DEF CycleInv
  <1>2. reserved \in Nat /\ Cardinality(Held) \in Nat /\ reserved = Cardinality(Held)
    BY HeldSize DEF CycleInv, Inv, TypeOK, ReservedCoversHeld
  <1>3. CASE AnySync
    BY <1>1, <1>2, <1>3, SyncWithinCycle, RowsKeepHeld
       DEF CycleInv, ReservedCoversHeld, NothingYet
  <1>4. CASE ReserveNext
    <2>1. cycle' # NoCycle
      BY <1>4 DEF ReserveNext, Reserve
    <2>2. HandsOut
      BY <1>4, ReserveHandsOut DEF CycleInv
    <2>3. ReservedCoversHeld'
      BY <1>2, <2>2 DEF HandsOut, ReservedCoversHeld
    <2> QED
      BY <1>1, <2>1, <2>3 DEF CycleInv, NothingYet
  <1>5. CASE Settles
    <2>1. ReservedCoversHeld'
      BY <1>2, <1>5, SettlingTakesBack
         DEF TakesBack, CycleInv, ReservedCoversHeld, Greatest
    <2>2. NothingYet'
      BY <1>5, SettlingNeedsRow DEF CycleInv, NothingYet
    <2> QED
      BY <1>1, <2>1, <2>2 DEF CycleInv
  <1>6. CASE LeavesRows /\ UNCHANGED <<cycle, consumed, reserved>>
    BY <1>1, <1>2, <1>6, RowsKeepHeld
       DEF LeavesRows, CycleInv, ReservedCoversHeld, NothingYet
  <1> QED
    BY <1>3, <1>4, <1>5, <1>6, StepKinds

(***************************************************************************)
(* Within one subscription cycle the counter that the reserve guard adds   *)
(* up is exactly what the open rows hold: no crash, replay, cleanup or     *)
(* rollback makes the guard forget a unit somebody may still spend.        *)
(***************************************************************************)
THEOREM CounterExact ==
  ASSUME OneCycle
  PROVE  LedgerSpec => []ReservedCoversHeld
  <1>1. LedgerInit => CycleInv
    BY CycleInvInit
  <1>2. CycleInv /\ [LedgerNext]_ledgerVars => CycleInv'
    BY CycleStep DEF AnyNext
  <1>3. CycleInv => ReservedCoversHeld
    BY DEF CycleInv
  <1> QED
    BY <1>1, <1>2, <1>3, PTL DEF LedgerSpec

LEMMA BudgetStep ==
  ASSUME OneCycle, CycleInv, [AnyNext]_ledgerVars
  PROVE  [Budget!BudgetNext]_Budget!budgetVars
  <1> USE DEF Budget!BudgetNext, Budget!budgetVars
  <1>1. /\ reserved = Cardinality(Held)
        /\ Cardinality(Held) \in Nat
        /\ consumed \in Nat
        /\ operationalCeiling \in Nat
    BY HeldSize DEF CycleInv, Inv, TypeOK, ReservedCoversHeld
  <1>2. Inv'
    BY LedgerStep DEF CycleInv
  <1>3. CASE AnySync
    BY <1>1, <1>3, SyncWithinCycle, RowsKeepHeld DEF Budget!Learn
  <1>4. CASE ReserveNext
    BY <1>1, <1>4, ReserveHandsOut DEF CycleInv, HandsOut, Budget!Hold
  <1>5. CASE Settles
    <2>1. PICK d \in Nat, x \in Nat :
             /\ x <= d
             /\ d <= Cardinality(Held)
             /\ Cardinality(Held') = Cardinality(Held) - d
             /\ consumed' = consumed + x
             /\ operationalCeiling' = operationalCeiling
      BY <1>5, SettlingTakesBack DEF CycleInv, TakesBack
    <2>2. CASE d = 0
      BY <1>1, <2>1, <2>2
    <2>3. CASE d > 0
      BY <1>1, <2>1, <2>3 DEF Budget!Settle
    <2> QED
      BY <2>2, <2>3
  <1>6. CASE LeavesRows /\ UNCHANGED <<cycle, consumed, reserved>>
    <2>1. Held' = Held /\ consumed' = consumed
      BY <1>6, RowsKeepHeld DEF LeavesRows
    <2>2. operationalCeiling' \in Nat
      BY <1>2 DEF Inv, TypeOK
    <2> QED
      BY <1>1, <2>1, <2>2 DEF Budget!Learn
  <1> QED
    BY <1>3, <1>4, <1>5, <1>6, StepKinds

(***************************************************************************)
(* Within one subscription cycle the ledger implements the budget: units   *)
(* are handed out only under the ceiling, only held units are spent, and   *)
(* no snapshot, however stale, lowers what was spent.                      *)
(***************************************************************************)
THEOREM ImplementsBudget ==
  ASSUME OneCycle
  PROVE  LedgerSpec => KeepsBudget
  <1>1. LedgerInit => Budget!BudgetInit
    BY InvInit, NothingHeldYet
       DEF Inv, TypeOK, Budget!BudgetInit
  <1>2. LedgerInit => CycleInv
    BY CycleInvInit
  <1>3. CycleInv /\ [LedgerNext]_ledgerVars => CycleInv'
    BY CycleStep DEF AnyNext
  <1>4. CycleInv /\ [LedgerNext]_ledgerVars => [Budget!BudgetNext]_Budget!budgetVars
    BY BudgetStep DEF AnyNext
  <1> QED
    BY <1>1, <1>2, <1>3, <1>4, PTL DEF LedgerSpec, KeepsBudget, Budget!BudgetSpec
=============================================================================
