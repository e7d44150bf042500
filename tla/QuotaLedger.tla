---------------------------- MODULE QuotaLedger ----------------------------
(***************************************************************************)
(* The atomic OddsPapi quota ledger: the one quota_state row of the        *)
(* provider, the quota_reservations table, and the five SECURITY DEFINER   *)
(* functions of 20261013_atomic_oddspapi_quota_reservation.sql that are    *)
(* the only writers of both, with the rollback script beside it.           *)
(*                                                                         *)
(* Every function takes the row lock on quota_state before it reads or     *)
(* writes anything else, so one call is one action.  A call that returns   *)
(* an error or an idempotent replay changes nothing and is not an action   *)
(* here; QuotaSystem, which needs the replies, names them.                 *)
(*                                                                         *)
(* A reservation is identified by its idempotency key: the unique index    *)
(* on (provider, idempotency_key) makes key and row id interchangeable.    *)
(***************************************************************************)
EXTENDS Integers, FiniteSets

CONSTANTS
    Keys,            \* idempotency keys, hence reservation rows
    StepKeys,        \* p_step_key values a caller may label a settlement with
    NoStep,          \* p_step_key left out
    Cycles,          \* subscription cycle keys <subscription_id>:<valid_from>
    LegacyCycle,     \* the LEGACY_PERIOD:... key given to rows that predate cycles
    NoCycle,         \* no cycle key: no row yet, or an argument left out
    Limits,          \* request limits the provider may report
    Reserves,        \* mandatory reserves a caller may ask for
    Counts,          \* request counts the provider may report
    MaxAmount,       \* most units one reservation asks for
    ReserveFloor,    \* 25: the reserve no caller can go below
    AlignedReserve   \* 50: the reserve the migration writes to existing rows

ASSUME KeysAssumption == IsFiniteSet(Keys)
ASSUME CycleAssumption ==
    /\ LegacyCycle \notin Cycles
    /\ NoCycle \notin Cycles
    /\ LegacyCycle # NoCycle
ASSUME StepAssumption == NoStep \notin StepKeys
ASSUME AmountAssumption ==
    /\ Limits \subseteq Nat
    /\ Reserves \subseteq Nat
    /\ Counts \subseteq Nat
    /\ MaxAmount \in Nat
    /\ ReserveFloor \in Nat
    /\ AlignedReserve \in Nat
    /\ ReserveFloor <= AlignedReserve

VARIABLES
    installed,            \* the functions exist (false between rollback and re-apply)
    cycle,                \* quota_state.subscription_cycle_key; NoCycle: no row
    limit,                \* quota_state.limit_value
    mandatoryReserve,     \* quota_state.mandatory_reserve
    operationalCeiling,   \* quota_state.operational_ceiling
    consumed,             \* quota_state.consumed
    reserved,             \* quota_state.reserved
    rows,                 \* quota_reservations, by idempotency key
    expired               \* keys of rows older than their TTL

stateVars  == <<cycle, limit, mandatoryReserve, operationalCeiling>>
ledgerVars == <<installed, cycle, limit, mandatoryReserve, operationalCeiling,
                consumed, reserved, rows, expired>>

Statuses == {"NONE", "RESERVED", "CONFIRMED", "RELEASED", "ROLLED_BACK"}

Row == [status    : Statuses,
        amount    : 0 .. MaxAmount,
        confirmed : 0 .. MaxAmount,
        released  : 0 .. MaxAmount,
        cycle     : Cycles \cup {LegacyCycle, NoCycle},
        steps     : SUBSET StepKeys]

NoRow == [status |-> "NONE", amount |-> 0, confirmed |-> 0, released |-> 0,
          cycle |-> NoCycle, steps |-> {}]

-----------------------------------------------------------------------------
Greatest(a, b) == IF a >= b THEN a ELSE b
Least(a, b)    == IF a <= b THEN a ELSE b

\* LEAST(FLOOR(limit * 0.90), GREATEST(0, limit - reserve))
OperationalCeiling(lim, rsv) ==
    Least((lim * 9) \div 10, Greatest(0, lim - rsv))

\* A quota unit is the j-th unit of one reservation; the settled ones come first.
Units == Keys \X (1 .. MaxAmount)

Unsettled(r) == r.amount - r.confirmed - r.released

\* Units a RESERVED row still holds, and units charged to the account.
HeldBy(k)   == {u \in Units : /\ u[1] = k
                              /\ rows[k].status = "RESERVED"
                              /\ u[2] > rows[k].confirmed + rows[k].released
                              /\ u[2] <= rows[k].amount}
Held        == UNION {HeldBy(k) : k \in Keys}
Charged     == {u \in Units : u[2] <= rows[u[1]].confirmed}

-----------------------------------------------------------------------------
(* salmo_sync_oddspapi_quota_cycle *)

WriteSnapshot(c, lim, rsv) ==
    /\ cycle' = c
    /\ limit' = lim
    /\ mandatoryReserve' = Greatest(rsv, ReserveFloor)
    /\ operationalCeiling' = OperationalCeiling(lim, Greatest(rsv, ReserveFloor))

\* No quota_state row yet: insert one.
SyncInsert(c, count, lim, rsv) ==
    /\ installed
    /\ lim > 0
    /\ cycle = NoCycle
    /\ WriteSnapshot(c, lim, rsv)
    /\ consumed' = count
    /\ reserved' = 0
    /\ UNCHANGED <<installed, rows, expired>>

\* A mutant: the snapshot is believed even when it is stale.
SyncTrustingSnapshot(c, count, lim, rsv) ==
    /\ installed
    /\ lim > 0
    /\ cycle \in {LegacyCycle, c}
    /\ WriteSnapshot(c, lim, rsv)
    /\ consumed' = count
    /\ UNCHANGED <<installed, reserved, rows, expired>>

\* The same cycle, or a legacy row being adopted: usage is never lowered.
SyncSameCycle(c, count, lim, rsv) ==
    /\ installed
    /\ lim > 0
    /\ cycle \in {LegacyCycle, c}
    /\ WriteSnapshot(c, lim, rsv)
    /\ consumed' = Greatest(consumed, count)
    /\ UNCHANGED <<installed, reserved, rows, expired>>

\* A mutant: the rollover also closes the rows of the old cycle.
SyncClosingRows(c, count, lim, rsv) ==
    /\ installed
    /\ lim > 0
    /\ cycle \notin {NoCycle, LegacyCycle, c}
    /\ WriteSnapshot(c, lim, rsv)
    /\ consumed' = count
    /\ reserved' = 0
    /\ rows' = [k \in Keys |-> IF rows[k].status # "RESERVED" THEN rows[k]
                               ELSE [rows[k] EXCEPT !.status = "ROLLED_BACK",
                                                    !.released = rows[k].amount]]
    /\ UNCHANGED <<installed, expired>>

\* Any other key is taken for a rollover; the rows of the old cycle stay.
SyncRollover(c, count, lim, rsv) ==
    /\ installed
    /\ lim > 0
    /\ cycle \notin {NoCycle, LegacyCycle, c}
    /\ WriteSnapshot(c, lim, rsv)
    /\ consumed' = count
    /\ reserved' = 0
    /\ UNCHANGED <<installed, rows, expired>>

Sync(c, count, lim, rsv) ==
    \/ SyncInsert(c, count, lim, rsv)
    \/ SyncSameCycle(c, count, lim, rsv)
    \/ SyncRollover(c, count, lim, rsv)

-----------------------------------------------------------------------------
(* salmo_reserve_oddspapi_quota *)

StaleCaller(c) == c # NoCycle /\ cycle # LegacyCycle /\ cycle # c

EffectiveReserve(rsv) == Greatest(Greatest(mandatoryReserve, rsv), ReserveFloor)

\* A mutant: units that others hold are left out.
FitsIgnoringReserved(n, rsv) ==
    consumed + n <= OperationalCeiling(limit, EffectiveReserve(rsv))

Fits(n, rsv) ==
    consumed + reserved + n <= OperationalCeiling(limit, EffectiveReserve(rsv))

Reserve(k, n, c, rsv) ==
    /\ installed
    /\ n > 0
    /\ cycle # NoCycle
    /\ ~ StaleCaller(c)
    /\ rows[k].status = "NONE"
    /\ Fits(n, rsv)
    /\ reserved' = reserved + n
    /\ mandatoryReserve' = EffectiveReserve(rsv)
    /\ operationalCeiling' = OperationalCeiling(limit, EffectiveReserve(rsv))
    /\ cycle' = IF c # NoCycle THEN c ELSE cycle
    /\ rows' = [rows EXCEPT ![k] = [status |-> "RESERVED", amount |-> n,
                                    confirmed |-> 0, released |-> 0,
                                    cycle |-> cycle', steps |-> {}]]
    /\ UNCHANGED <<installed, limit, consumed, expired>>

-----------------------------------------------------------------------------
(* salmo_confirm_oddspapi_quota and salmo_release_oddspapi_quota *)

\* A mutant: the verdict looks at this call's units instead of the row's.
SettledByLastCall(r, conf, rel, s) ==
    LET cf == r.confirmed + conf
        rl == r.released + rel
    IN  [status    |-> IF cf + rl # r.amount THEN "RESERVED"
                       ELSE IF conf > 0 THEN "CONFIRMED" ELSE "RELEASED",
         amount    |-> r.amount,
         confirmed |-> cf,
         released  |-> rl,
         cycle     |-> r.cycle,
         steps     |-> r.steps \cup ({s} \ {NoStep})]

\* The row after settling conf units as billed and rel units as free.
Settled(r, conf, rel, s) ==
    LET cf == r.confirmed + conf
        rl == r.released + rel
    IN  [status    |-> IF cf + rl # r.amount THEN "RESERVED"
                       ELSE IF cf > 0 THEN "CONFIRMED" ELSE "RELEASED",
         amount    |-> r.amount,
         confirmed |-> cf,
         released  |-> rl,
         cycle     |-> r.cycle,
         steps     |-> r.steps \cup ({s} \ {NoStep})]

\* A mutant: bounded by the whole amount, not by what is left of it.
CanSettleWhole(k, conf, rel, s) ==
    /\ rows[k].status = "RESERVED"
    /\ s \notin rows[k].steps
    /\ conf + rel > 0
    /\ conf + rel <= rows[k].amount

CanSettle(k, conf, rel, s) ==
    /\ rows[k].status = "RESERVED"
    /\ s \notin rows[k].steps
    /\ conf + rel > 0
    /\ conf + rel <= Unsettled(rows[k])

\* A mutant: the released units stay reserved.
ConfirmKeepsReleased(k, conf, rel, s) ==
    /\ installed
    /\ CanSettle(k, conf, rel, s)
    /\ rows' = [rows EXCEPT ![k] = Settled(@, conf, rel, s)]
    /\ consumed' = consumed + conf
    /\ reserved' = Greatest(0, reserved - conf)
    /\ UNCHANGED <<installed, stateVars, expired>>

Confirm(k, conf, rel, s) ==
    /\ installed
    /\ CanSettle(k, conf, rel, s)
    /\ rows' = [rows EXCEPT ![k] = Settled(@, conf, rel, s)]
    /\ consumed' = consumed + conf
    /\ reserved' = Greatest(0, reserved - (conf + rel))
    /\ UNCHANGED <<installed, stateVars, expired>>

FreeRelease(k, rel, s) ==
    /\ installed
    /\ CanSettle(k, 0, rel, s)
    /\ rows' = [rows EXCEPT ![k] = Settled(@, 0, rel, s)]
    /\ reserved' = Greatest(0, reserved - rel)
    /\ UNCHANGED <<installed, stateVars, consumed, expired>>

\* billable: an HTTP status other than 401/429, or an ambiguous transport error.
Release(k, rel, billable, s) ==
    IF billable THEN Confirm(k, rel, 0, s) ELSE FreeRelease(k, rel, s)

-----------------------------------------------------------------------------
(* salmo_cleanup_stale_oddspapi_reservations, and the rollback script *)

Pass(k) ==
    /\ rows[k].status = "RESERVED"
    /\ k \notin expired
    /\ expired' = expired \cup {k}
    /\ UNCHANGED <<installed, stateVars, consumed, reserved, rows>>

\* Two mutants: a partly settled row gives everything back, or is used up.
ClosedForgetsConfirmed(r, ifUnused) ==
    [status    |-> ifUnused,
     amount    |-> r.amount,
     confirmed |-> 0,
     released  |-> r.amount,
     cycle     |-> r.cycle,
     steps     |-> r.steps]

ClosedAsConfirmed(r, ifUnused) ==
    [status    |-> IF r.confirmed > 0 THEN "CONFIRMED" ELSE ifUnused,
     amount    |-> r.amount,
     confirmed |-> IF r.confirmed > 0 THEN r.amount - r.released ELSE 0,
     released  |-> IF r.confirmed > 0 THEN r.released ELSE r.amount,
     cycle     |-> r.cycle,
     steps     |-> r.steps]

\* The row after giving back all it holds.
Closed(r, ifUnused) ==
    [status    |-> IF r.confirmed > 0 THEN "CONFIRMED" ELSE ifUnused,
     amount    |-> r.amount,
     confirmed |-> r.confirmed,
     released  |-> r.amount - r.confirmed,
     cycle     |-> r.cycle,
     steps     |-> r.steps]

\* A mutant: the rows are closed and the counter is forgotten.
DrainRowsOnly(S, ifUnused) ==
    /\ rows' = [k \in Keys |-> IF k \in S THEN Closed(rows[k], ifUnused) ELSE rows[k]]
    /\ reserved' = reserved

\* Releases every unit the rows of S hold.
Drain(S, ifUnused) ==
    /\ rows' = [k \in Keys |-> IF k \in S THEN Closed(rows[k], ifUnused) ELSE rows[k]]
    /\ reserved' = Greatest(0, reserved - Cardinality(UNION {HeldBy(k) : k \in S}))

Open == {k \in Keys : rows[k].status = "RESERVED"}

CleanupStale ==
    /\ installed
    /\ cycle # NoCycle
    /\ Open \cap expired # {}
    /\ Drain(Open \cap expired, "RELEASED")
    /\ UNCHANGED <<installed, stateVars, consumed, expired>>

RollbackMigration ==
    /\ installed
    /\ installed' = FALSE
    /\ Drain(Open, "ROLLED_BACK")
    /\ UNCHANGED <<stateVars, consumed, expired>>

\* Applying the migration again re-aligns the reserve of an existing row.
ReapplyMigration ==
    /\ ~ installed
    /\ installed' = TRUE
    /\ IF cycle = NoCycle
       THEN UNCHANGED <<mandatoryReserve, operationalCeiling>>
       ELSE /\ mandatoryReserve' = Greatest(mandatoryReserve, AlignedReserve)
            /\ operationalCeiling' =
                  OperationalCeiling(limit, Greatest(mandatoryReserve, AlignedReserve))
    /\ UNCHANGED <<cycle, limit, consumed, reserved, rows, expired>>

-----------------------------------------------------------------------------
\* The migration finds either no oddspapi row or a legacy one, which it aligns.
LedgerInit ==
    /\ installed = TRUE
    /\ rows = [k \in Keys |-> NoRow]
    /\ expired = {}
    /\ reserved = 0
    /\ \/ /\ cycle = NoCycle
          /\ limit = 0
          /\ consumed = 0
          /\ mandatoryReserve = 0
          /\ operationalCeiling = 0
       \/ /\ cycle = LegacyCycle
          /\ limit \in Limits
          /\ consumed \in Counts
          /\ mandatoryReserve = AlignedReserve
          /\ operationalCeiling = OperationalCeiling(limit, AlignedReserve)

Labels == StepKeys \cup {NoStep}

SyncNext == \E c \in Cycles, count \in Counts, lim \in Limits, rsv \in Reserves :
                Sync(c, count, lim, rsv)

ReserveNext == \E k \in Keys, n \in 1 .. MaxAmount, c \in Cycles \cup {NoCycle},
                  rsv \in Reserves : Reserve(k, n, c, rsv)

ConfirmNext == \E k \in Keys, conf, rel \in 0 .. MaxAmount, s \in Labels :
                   Confirm(k, conf, rel, s)

ReleaseNext == \E k \in Keys, rel \in 1 .. MaxAmount, billable \in BOOLEAN,
                  s \in Labels : Release(k, rel, billable, s)

LedgerNext ==
    \/ SyncNext
    \/ ReserveNext
    \/ ConfirmNext
    \/ ReleaseNext
    \/ \E k \in Keys : Pass(k)
    \/ CleanupStale
    \/ RollbackMigration
    \/ ReapplyMigration

LedgerSpec == LedgerInit /\ [][LedgerNext]_ledgerVars

\* The plan is not renewed while we watch.
OneCycle == \A c, d \in Cycles : c = d

-----------------------------------------------------------------------------
(***************************************************************************)
(* Types, and the CHECK constraints of the two tables.                     *)
(***************************************************************************)
TypeOK ==
    /\ installed \in BOOLEAN
    /\ cycle \in Cycles \cup {LegacyCycle, NoCycle}
    /\ limit \in Nat
    /\ mandatoryReserve \in Nat
    /\ operationalCeiling \in 0 .. limit
    /\ consumed \in Nat
    /\ reserved \in Nat
    /\ rows \in [Keys -> Row]
    /\ expired \subseteq Keys

RowConsistent(r) ==
    /\ r.status = "NONE" => r = NoRow
    /\ r.status # "NONE" => r.amount > 0
    /\ r.status = "RESERVED" => r.confirmed + r.released < r.amount
    /\ r.status = "CONFIRMED" =>
           r.confirmed > 0 /\ r.confirmed + r.released = r.amount
    /\ r.status \in {"RELEASED", "ROLLED_BACK"} =>
           r.confirmed = 0 /\ r.released = r.amount

(***************************************************************************)
(* A row's status always says exactly how its units were settled: RESERVED *)
(* rows have something left, CONFIRMED rows are used up with at least one  *)
(* unit billed, RELEASED and ROLLED_BACK rows billed nothing.  Confirm,    *)
(* release, cleanup and rollback each compute the status on their own.     *)
(***************************************************************************)
StatusTellsSettlement == \A k \in Keys : RowConsistent(rows[k])

(***************************************************************************)
(* The stored ceiling is always the one the stored limit and reserve give, *)
(* and no caller can get below the floor of 25 once a row exists.          *)
(***************************************************************************)
CeilingIsCurrent ==
    cycle # NoCycle =>
        /\ operationalCeiling = OperationalCeiling(limit, mandatoryReserve)
        /\ mandatoryReserve >= ReserveFloor

(***************************************************************************)
(* The reserved counter never exceeds the units that open rows hold: no    *)
(* interleaving of settlements, replays, cleanup, rollover and rollback    *)
(* leaves phantom units that nobody could ever give back.                  *)
(***************************************************************************)
NoPhantomReserve == reserved <= Cardinality(Held)

(***************************************************************************)
(* The reserved counter is exactly the units that open rows hold, so that  *)
(* an unsettled row keeps its units out of everybody else's reach.  The    *)
(* rollover branch of the sync breaks it; within one subscription cycle    *)
(* it holds.                                                               *)
(***************************************************************************)
ReservedCoversHeld == reserved = Cardinality(Held)

(***************************************************************************)
(* Whatever changes a row charges the account exactly the units the row    *)
(* newly shows as confirmed, whether by confirm, by a release turned into  *)
(* a confirm, or (nothing) by cleanup and rollback.                        *)
(***************************************************************************)
ChargeMatchesRows ==
    [][rows' # rows =>
         consumed' - consumed = Cardinality(Charged') - Cardinality(Charged)]_ledgerVars

(***************************************************************************)
(* What the transition trigger and the amounts constraint forbid is never  *)
(* attempted, so no function ever aborts on them: a settled row keeps its  *)
(* verdict and settled amounts never shrink.                               *)
(***************************************************************************)
TransitionAllowed(old, new) ==
    /\ old.status = "CONFIRMED" => new.status = "CONFIRMED"
    /\ old.status \in {"RELEASED", "ROLLED_BACK"} =>
           new.status \in {"RELEASED", "ROLLED_BACK"}
    /\ new.confirmed >= old.confirmed
    /\ new.released >= old.released

TriggerNeverFires ==
    [][\A k \in Keys : TransitionAllowed(rows[k], rows'[k])]_ledgerVars

Budget == INSTANCE QuotaBudget WITH
    held  <- Cardinality(Held),
    spent <- consumed,
    cap   <- operationalCeiling

(***************************************************************************)
(* Within one subscription cycle the ledger is a budget: the guard on the  *)
(* reserved counter protects the units the open rows really hold, usage    *)
(* never goes back however stale the snapshot, and only held units are     *)
(* ever spent.                                                             *)
(***************************************************************************)
KeepsBudget == Budget!BudgetSpec
=============================================================================
