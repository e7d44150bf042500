# SALMO, specified

TLA+ specifications of the parts of SALMO that keep state which outlives a request: the atomic
OddsPapi quota ledger and the guard and provider client around it, the ledger of betting positions
and the settlement of those positions, the durable store of the daily refresh, the activation of leagues,
and the archive of matches.  TLC checks small instances; TLAPS proves the main results
for every value of the constants.

Paths below are relative to the repository root (`src/` in `PROJECT.json` is that root, so the
application's own `src/` directory appears there as `src/src/`).

## 1. The system

SALMO is a Next.js application on serverless instances, with a Supabase (PostgreSQL) database, JSONL
ledger files, and three outside services: OddsPapi (odds, metered per request), The Odds API (a second
odds source) and HandicapLab (fixtures in, results and predictions out).  Two cron routes drive it:
`api/cron/predict` runs a prediction cycle, `api/cron/settle` runs a settlement.  Each is killed after
60 seconds, two of a kind may overlap, and an instance keeps its module state between requests for as
long as the platform lets it live.

| Component | State it keeps | Operations | Talks to | What is hard |
|---|---|---|---|---|
| Atomic quota ledger (SQL functions) | `quota_state`, `quota_reservations` | sync, reserve, confirm, release, cleanup; rollback, re-apply | called by the guard over RPC | replays, partial settlement, rollover with open rows, rows that expire |
| Quota guard | static fields of one instance: breaker, tracked cycle, in-memory cost and floor, cached account, active entries | `detectQuotaReset`, `syncAccount`, `reserveQuota`, `confirmQuota`, `releaseQuotaAsync` | ledger, `/v4/account` | every reply may be lost or late; memory is volatile and private |
| OddsPapi client | none between calls | one reservation, then one request per unit | guard, OddsPapi | errors in the middle of a batch; was the request counted? |
| Prediction persistence | `daily_picks`, `predictions`, `prediction_ledger`, `live_prediction_ledger.jsonl` | upserts, probe, insert, append | database, file | overlapping cycles, failed probes, deaths |
| Settlement runner | the same file, `settlement_results`, status of `daily_picks` | read, resolve scores, rewrite, copy | HandicapLab, database, file | read before two awaits and rewritten after them; repeated runs |
| Settlement rules | none | outcome and profit of a bet | runner | quarter lines, negative lines, sides |
| Multi-league activation | a lock and the registry in memory; picks and bets in the database | detect quota, lock, ingest, evaluate, promote or roll back, discover, persist | guard, registry, persistence | a lock that expires, runs that overlap, restarts, faults in one league |
| Durable prediction storage, daily refresh | `daily_prediction_refresh_ledger`, `daily_picks`, a file per instance | evaluate, upsert, project picks, copy or fall back, report; query | database, file | lost answers, overlapping runs, cold starts, what a report may claim |
| Match archive, fixture ingestion | `matches`, `settlement_results`; evidence and ledger files | ingest, read, reconcile, write back | providers, database, files | unlocked read and write-back, failed queries, moved fixtures, scores of matches under way |
| Canonical ledger, evidence | append-only files | append, report | files | none concurrent |
| HandicapLab client and sync | a file made anew by a script | pull | HandicapLab | repeated records |
| The Odds API manager | count of an instance, quota file | check, record | daily refresh, file | checked before an await, set from headers after it |
| Probability, decision, metrics, gates | none | formulas | | floating point |
| Cron authentication, pages | none | | | none |

What makes each modelled component correct:

* **Ledger.**  A row's status says how its units were settled; the reserved counter is what open rows
  hold; usage is charged exactly once; nothing is handed out beyond the ceiling.
* **Guard and client.**  Every request the provider has counted or may still count is charged or held;
  no settlement is refused; no unit leaks unless a reply or an instance was lost; every job ends.
* **Persistence.**  The first qualifying snapshot of a position is the only one, in the table and in
  the file.
* **Settlement.**  Old rows survive every rewriting; a settled row pays what the published score says
  and stays settled; the copies in the database tell the same story as the file.
* **Durable storage.**  A report claims no more than the database has; a record once accepted never changes;
  every published pick has its record; an answer that calls itself complete is.
* **Activation.**  One activation works at a time on an instance; a market is enabled, and a pick written, only
  where a human approved a run that has the odds; a league rolled back is not published by the run that did it
  without a new approval; the registry agrees with itself and with the proofs.
* **Archive.**  No score is made up; a sync writes only rows that it has read or owns; a fixture gets no
  second row while its first can be found.

`PROJECT.json` lists all components, and under `hazards` the places in the code where one of these
could go wrong, each with the properties that cover it or the reason why none does.

## 2. The modules

```
QuotaBudget                 what the ledger promises: a budget of units
   ^ refined by
QuotaLedger                 quota_state, quota_reservations and the SQL functions
   ^ EXTENDS                       ^ EXTENDS
QuotaSystem                 QuotaLedgerProofs
instances, jobs, provider          ^
   ^                               |
   +---- QuotaSystemProofs (EXTENDS both) <- QuotaCeilingProofs
   |
MCQuotaLedger, MCQuotaSystem       instances for TLC

SettlementRules             outcome and profit of a bet, pure operators
   ^ EXTENDS          ^ EXTENDS
PredictionLedger      SettlementProofs
   ^                        ^
   +---- PredictionLedgerProofs (EXTENDS both)
   |
MCPredictionLedger                 instances for TLC

PositionStore               what a caller of the daily store relies on
   ^ refined by
DurableStorage         Activation          MatchArchive
   ^ EXTENDS              ^                   ^
DurableStorageProofs   ActivationProofs    MatchArchiveProofs
MCDurableStorage       MCActivation        MCMatchArchive
```

The modules meet where the code hands over: `QuotaSystem` says how the quota that `Activation` detects
comes about, `Activation` decides which rows the persistence in `PredictionLedger` is given, and the
settled rows of `PredictionLedger` are the scores that `MatchArchive` reads from the ledger file.

`PROJECT.json` (`map`) gives for every definition that models code the file and lines it stands for.

### QuotaLedger

One `quota_state` row and the table of reservations, keyed by idempotency key (the unique index makes
key and row id interchangeable).  Every SQL function takes the row lock on `quota_state` before it does
anything else, so one call is one action: `SyncInsert`, `SyncSameCycle` and `SyncRollover` are the three
branches of `salmo_sync_oddspapi_quota_cycle`; `Reserve`, `Confirm`, `FreeRelease` and `CleanupStale`
are the other functions, and `Release` of a billable outcome is a `Confirm`, as in the code.
`RollbackMigration` and `ReapplyMigration` are the rollback script and the migration run again.  Calls
that return an error or a replay change nothing and are no actions.  `OperationalCeiling` is the formula of the
migration, in integers.  The initial states are those the migration leaves: no row, or a legacy row it
has aligned.

### QuotaBudget

What callers rely on, with neither rows nor counters: units are held before a request and later spent
or given back; they are handed out only while everything stays under the cap; nothing spent is
forgotten.  `QuotaLedger!Budget` maps `held` to the number of units that open rows hold (not to the
counter), `spent` to `consumed` and `cap` to `operational_ceiling`.

### QuotaSystem

Instances with the static fields of `OddsPapiQuotaGuard` (`guard`), jobs (`job`), and the provider
(`plan`, `past`, `billed`, `stray`) around the shared ledger.  A job is one provider call of the client:
it makes one reservation, takes one unit for odds or one per tournament for fixtures, sends its requests
one by one, and settles each unit by what came back.  Each `await` is a value of `pc`, so that what was
read before it can be stale after it:

| pc | the code is waiting for | steps |
|---|---|---|
| `account` | `/v4/account` | `AccountArrives`, `AccountFails` |
| `sync` | the sync RPC | `SyncAcked`, `SyncUnheard` |
| `ready` | (about to reserve) | `ReserveAcked`, `ReserveUnheard`, `ReserveDenied` |
| `send`, `wait` | the billed request | `Dispatch`, then `Reply`, `Rejection`, `Broken` |
| `settle` | the confirm or release RPC | `SettleAcked`, `SettleUnheard` |

`...Unheard` steps are calls whose reply is lost, executed or not.  The provider processes (`Process`),
rejects (`Reject`) or lets Next's data cache answer (`ServeCached`) a request; a request abandoned after
a transport error becomes `stray` and may still be counted later.  `Broken` classifies the text of the
error as the client does: early (never left), ambiguous (charged), anything else (`opaque`, released).
`Crash` loses an instance and all it remembers, `Renew` starts another subscription cycle, `Age` and
`Sweep` are the cleanup.  The components `cost`, `hurt` and `guess` (the kind of
error text that ended the job) are history, for the properties only.

### SettlementRules

`QuarterLineSettler`, `settleBttsMatch` and `SettlementEngine.settlePosition` as operators on lines
counted in quarters of a goal and odds in thousandths; `SplitStake` is the reference: half a stake on
each neighbouring half line.

### PredictionLedger

Prediction cycles (`cycle`), settlements (`settler`), the tables and the file.  `UpsertPick`,
`UpsertPrediction`, `Probe`, `Insert` and the append in `NextEntry` are the awaits of
`persistPredictionCycle` in their order; `ReadFile`, `ReadScores`, `Rewrite`, `UpdatePick`,
`ProbeResult` and `InsertResult` those of `runProductionSettlement`.  `done` says whether a call was
executed, `heard` whether its answer arrived.  The file holds rows of two shapes: those it came with,
in camelCase with the provider's fixture id, and snapshots in snake_case which the engine appends and in which the
settlement finds none of the keys it looks for (`Resolved`).

### DurableStorage and PositionStore

A run of `runDailyRefresh` evaluates (`Evaluate`), and persists through `persistDailyPredictions`: one upsert of all records
that ignores positions the table has (`Upsert`), one upsert per public pick (`UpsertPick`), then the copy in
the file of the instance (`Conclude`), or the file alone when the upsert failed or nobody heard its
answer (`FallBack`); `Report` and `Fail` are the two ends of the run.  `asked` is what the
caller and the write guard make of the request: dry run, file, a refused or an admitted write.  `Restart`
gives an instance an empty file system.  `Answers` is `queryLatestPredictionsWithStatus`, an operator since
it changes nothing.  A record knows the run that made it, so that an overwritten one
shows.  `PositionStore` is the abstraction: positions get a record once and keep it, and only positions
with a record may be promised; `StoreImplemented` maps `stored` to the table and `promised` to
the positions of the runs that reported `isDurableAcrossRestarts`.

### Activation

Cron and manual runs of `runAutoUnlockCycle` on one instance.  The awaits separate `AskGate` (the detection of the
cron route), `Call`, `Detect` (answer and lock in one synchronous step), one `Ingest` per batch, `Evaluate`
(all leagues, synchronous), `Persist`, a `WritePick` and a `WriteBet` per market, and `Release` (the
`finally` block).  For a manual run the writes come before the release, for the cron after it, in the
prediction cycle that the route runs next.  When the activation hands that cycle no fixtures, because another run
has the lock, its own are stale or the only league with fixtures threw, the cycle fetches fixtures and odds itself
(`Discover`), of any league that is not paused and with no regard to the lock; `Persist` then takes what is enabled by that
time.  `discovered` and `earlier` (the runs whose promotions came before the evaluation of this one) are history, for
the properties only.
`Evaluated` is `evaluateSingleLeague` with the `catch` around it, `Resolved` its final readiness, `Activate`
and `Rollback` the functions of the registry.  Time passes in ticks of a minute: the lock lives two, a cron run one.

### MatchArchive

Rows of `public.matches`, keyed by the two kinds of id the writers make: one from the provider's
number (`<<f, 0>>`) and one from the canonical name, which contains the day (`<<f, d>>`).  `Ingest` and
`IngestByNumber` are the two ingestions; a sync takes `ReadFiles`, `ReadRows`, `WriteMatches` and
`WriteResults`, between which anything may happen.  `Targets` and `Reconciled` are
`deduplicateAndReconcileFixtures`.  The world (`Move`, `KickOff`, `Goal`, `FinalWhistle`) and the
operator (`Quarantine`) are external; `Capture` is the probe that writes the evidence file, at any time.

## 3. What is checked

All runs finish; times are for two workers.

| Run | Module | Question | Instance |
|---|---|---|---|
| `ledger` | MCQuotaLedger | is the ledger consistent under every order of calls? | 2 cycles, 2 keys of up to 2 units, a step label, 2 limits, 2 reserves, 2 counts; rollback and re-apply included |
| `system` | MCQuotaSystem | does the provider stay under the ceiling, is each row charged what was counted, is the ledger a budget? | 1 cycle, 2 instances, an odds job and a fixtures job of 2 units, 2 or 3 units used at the start of a ceiling of 5, crashes |
| `renewal` | MCQuotaSystem | the same jobs when the plan is renewed and stale rows are swept | 2 cycles |
| `progress` | MCQuotaSystem | does every job end, and what can the ledger come to miss? | 1 instance, all kinds of transport errors, crashes, cleanup |
| `settlement` | MCPredictionLedger | are positions filed once, rows kept and settled rightly? | 2 overlapping cycles on one position, 1 settler running any number of times, 3 old rows (away quarter handicap, quarter total, BTTS), 5 results |
| `durable` | MCDurableStorage | what may a refresh claim, whatever is lost? | 2 overlapping runs on one instance that restarts once; one match with 2 handicap lines, a total and BTTS; a query limit of 3 |
| `activation` | MCActivation | is the lock kept, and nothing enabled or published without approval? | a cron and a manual run, 3 leagues (two proven markets, none needed, paused), one batch, a restart |
| `archive` | MCMatchArchive | where do scores and rows come from? | one fixture that may move once, one sync, an operator, both ingestions, a goal |
| `opaque_error`, `late_snapshot`, `unsettled_rows`, `half_time` | | the four disagreements of section 6 | the smallest instance that shows each |

**Why these bounds.**  Limit 10, reserve 5 and floor 2 stand for the real 250, 50 and 25: a caller may ask for less than the
floor (1) or more, a new limit (8) may come with a snapshot, a ceiling of 5 can be overrun by the jobs that
are there, and two units are the least that can be settled in part.  With these limits the 90 per cent branch of
the ceiling never decides, as it does not for the plan of 250; the proofs cover every limit.  Two
keys are enough for two reservations to compete and for one to be swept while the other settles; two
instances for private memories to disagree.  In the settlement run two cycles are the least that race
for a primary key, and the results give wins and losses in full, a half win and a half loss, and an away team
spelled in two ways.
`MaxAmount` bounds the units of a reservation, `Counts` what the provider has counted before, and
`MaxResults` the rows of `settlement_results` that settling again may add.
For the refresh, two runs are the least that overwrite each other, two lines of one market the least that share a
slot of `daily_picks`, and a limit of 3 is passed by the 4 positions.  For the activation, a manual run is the
only one that can outlive the lock, and a proven league beside one that needs no proof has all the branches of
the evaluation.  For the archive, two days are two canonical names; one sync meets stale readings through
ingestions and the operator.  Two overlapping syncs without the move (985,292 states) give the same results, and the proofs cover
any number of both.
Symmetry is over instances, runs, cycles and jobs that are only compared for equality.

**Properties of the ledger** (`ledger`): `StatusTellsSettlement`,
`NoPhantomReserve` (no units stay reserved that no row holds), `ChargeMatchesRows` (a change of a row
charges the account exactly what the row newly shows as confirmed) and `TriggerNeverFires` (no function
attempts what the transition trigger refuses).  These hold across rollovers.

**Of the system.**  Under every fault the ledger can miss only units that it has itself written off: those cleanup
took from rows whose jobs died or were not heard, and one for each transport error of unknown kind
(`MissesOnlyWrittenOff`); by no more than these the provider's count can pass the ceiling
(`OverrunIsWrittenOff`).  Both are checked in `progress`, where cleanup runs and error texts of all kinds
occur.  The run `system` has neither and two instances: there the provider never passes the ceiling
(`NeverOverCeiling`), because a unit is held before its request leaves and charged whenever the outcome is in doubt.
It also checks `NoLeakUnlessHurt` and `ChargedAsCounted`, of jobs that have ended, and two properties of the ledger
that hold within one cycle only: `ReservedCoversHeld` (the counter is exact) and the refinement `KeepsBudget`.
`NothingUnaccounted` is what `MissesOnlyWrittenOff` says when nothing is written off; `opaque_error` shows that
it needs that condition.  Nothing in the repository schedules the cleanup.

**Across a renewal** (`renewal`): the reserved counter is no longer exact, usage of the old
cycle is settled in the new one, and rows are swept; still every settlement a job asks for is accepted
(`SettlementsAccepted`).

**Of the ledger of positions** (`settlement`): `FirstSnapshotWins`, `HistoryKept`,
`SettledAsSplitStake`, `CopiesAgree`, and `SettlementStands`.

**Of the durable storage** (`durable`): `DurableMeansStored` and `HealthHonest` (what a run reports of
durability and health is true then and later), `RecordsImmutable`, `PicksAreRecorded` (of the picks that refreshes write;
the prediction engine upserts others, which have no record), `CopyKept`, `AnswersAreHonest`
(a query that reports success has every promised position, unless no client could be made), and the
refinement `StoreImplemented`.

**Of the activation** (`activation`): `OneWorker` and `LockKept` (both with the exception of a manual run that outlives
the lock, which the code does not prevent), `RegistryCoherent`, `PromotionIsApproved`, `WritesWereApproved`
and `RolledBackReapproved`: a run publishes nothing of a league that it rolled back, but for a cron that finds the league
again in its discovery after a human has approved it anew; no approval from before the rollback counts.  (Without that
exception the property is false: the instance reaches the case.)

**Of the archive** (`archive`): `ScoresHaveASource` (a score is final, or was in an evidence file made during the
match), `SyncsKnowTheirRows` and `NoSecondRow` (what a sync may do to rows it did not read).  The last two permit the losses that
section 6 tells of: a failed query counts as having read nothing, and rows that were read are written back, however stale.

Deadlock is checked where the system never stops (`ledger`, `archive`).  The other runs end when all jobs or
cycles have ended.

**Fairness.**  `JobsEnd` is checked under `FairSystemSpec`: weak fairness of `JobStep(f)` for each job.
This says that an awaited call comes back, with an answer or an error, and that the code goes on
then.  The code sets no timeout of its own; `fetch`, which the database client uses too, gives up after the
runtime's default, and a function that waits longer is killed after 60 seconds (`Crash`), which ends its
jobs as well.  Nothing is
assumed about the provider: it may never process, reject or renew anything, and a transport error ends the wait.

Each property of a passing run has a mutant in `PROJECT.json`: a definition changed the way a plausible
bug would change the code, under which TLC finds the property violated.  The mutated operators stand
in the modules before the definitions they vary, marked as mutants.

## 4. What is proved

`tlapm` checks all proofs; the constants are arbitrary, under the named assumptions of the modules.

**QuotaLedgerProofs.**  `Inv` (types, `StatusTellsSettlement`, and `CeilingIsCurrent`, which no run repeats) is inductive and
gives `TypeCorrect`, `StatusCorrect` and `CeilingCorrect`; the same steps give `TriggerSilent`.
`NoPhantoms` adds `reserved <= Cardinality(Held)`: the inequality is needed because a rollover sets the
counter to zero, and it is inductive because every settlement takes the same number from both sides or
stops at zero.  What each action does to the set of held units is worked out once (`HeldAfterReserve`,
`HeldAfterSettle`, `HeldAfterDrain`).  `ChargesExact` follows from
what they do to the set of charged units.  Under `OneCycle` (a single subscription cycle) the invariant
`CycleInv` adds that the counter is exact and that nothing is used before the first snapshot
(`NothingYet`, without which the first sync could lower `consumed`); it gives `CounterExact`, and step
by step `ImplementsBudget`, the refinement of `QuotaBudget`.  Without `OneCycle` both are false, as a
rollover with open rows shows.

**QuotaSystemProofs.**  For any instances, jobs, batch sizes and cycles.  Each step of the system is a step
of the ledger or leaves it alone (`LedgerMoves`), so the results above carry over: `SystemTriggerSilent`, and under
`OneCycle` `SystemCounterExact` and `SystemImplementsBudget`.  The properties of jobs are not inductive, since they
speak of jobs that settle or have ended.  `SystemInv` says of every job how it and its row stay in step: before the
reservation there is no row (`Fresh`); in the batch loop the row has given nothing back and has confirmed the
requests that are over, all of them unless a reply was lost (`InStep`); what a job asks to settle is the request
just answered, or that and all that is left (`Asks`); the cost is what the answers say was counted (`Tallied`); only
jobs that have ended have rows that expire (`Over`, since an instance lives 60 seconds and a row ten
minutes).  From it follow `SystemTypes`, `SettlementsFit`, `NoLeaks` and `ChargesCounted`, across renewals and
sweeps.  `ChargesCounted` speaks of all jobs that were not hurt: a row charges at least what was counted unless the
error's text was of no known kind, and for fixtures exactly that unless it was ambiguous.  `JobsGoForward` proves
the step property `JobsAdvance`: a measure of what a job has left, three steps per request, never grows and each step of
the job lowers it.  It is the safety half of `JobsEnd`; what remains is fairness and that some step is always possible.
`UsageKept`, under `OneCycle`, is the promise that `late_snapshot` shows broken across cycles:
within one, however late an answer is, confirmed usage is not rolled back.  Its invariant
`UsageCoversCharged` says that `consumed` is at least the charged units of all rows; a sync takes the larger
of what is stored and what is reported.  `UsageKeptForward` locates the cause: over any number of renewals the promise
is kept by every behaviour in which the ledger is never moved back to a cycle in which it has made a reservation
(`NoWayBack`), so refusing the keys of earlier cycles in the sync is all that `late_snapshot` needs.  There the invariant is
`UsageCoversCycle`, about the rows of the ledger's cycle, of which a cycle newly taken up has none.

**QuotaCeilingProofs.**  The reason for which the reservations exist, under `OneCycle` alone:
`OnlyWrittenOffMissed` and `OverrunBounded`, with cleanup at any time and transport errors of any text, for any number of
instances, jobs and units.  Under `Attended` (no cleanup, and no error taken for one that came before dispatch when it
did not) nothing is ever written off, which gives `AllAccounted`, `CeilingHolds` and a refinement,
`ProviderKeepsBudget`: the provider's own count implements `QuotaBudget`, with the requests that are to be sent or
may still be counted as what is held; the ledger's refinement speaks of its own columns only.  The run
`opaque_error` shows that the condition on texts cannot be dropped.
`CeilingInv` sets requests against units.  The units that open
rows hold are numbered (`Backed`, in bijection with `Held`), and two disjoint parts of them are
named: `Owed` back requests that the provider has counted or may count, `Sendable` those that
a job will still send.

* `Accounted`: what the provider has counted or may count (`Burden`) is at most `consumed` plus `Owed` plus `WrittenOff`.
  It must be said with `Owed` instead of `Held`, as a job that stops gives the other units back.
* `WithinCeiling`: `Potential`, the burden and all requests still to be sent, is at most the ceiling plus `WrittenOff`
  while anything may still be counted.  Only an acknowledged reservation raises it, by the units which the guard of
  `Reserve` has just compared with the ceiling, and `Accounted` makes that comparison one of requests.
* `Dawn`: before the first row of `quota_state` no request is under way and every snapshot is current, so that the
  first sync starts with enough.  `PlanKept`: the ceiling of the ledger is that of the plan.

Each step of a job moves one job and one row (`OnlyJob`), and its effect on the cardinalities is the
difference for that job (`FlyingByJob`); the actions then need only arithmetic.

**SettlementProofs.**  For every line, score and odds: `HandicapIsSplitStake` and `OverUnderIsSplitStake`
(a bet pays what half a stake on each neighbouring line pays), `HandicapSidesOppose` and
`TotalSidesOppose` (the two sides of a line are settled against each other), and `HalvesAgree` (the two
halves of a quarter line are never a win and a loss, so the settler's branch for that pair is dead code).

**PredictionLedgerProofs.**  For any number of cycles, settlers, matches and rows:
`LedgerTypes`, `FirstSnapshotAlwaysWins`, `HistoryAlwaysKept`, `SettledRowsPaySplitStake`,
`CopiesAlwaysAgree`, and for settlements that do not overlap (`OneSettler`) `SettledRowsStand`.  None of
these properties is inductive; the invariants come in layers:

* `TypeInv`: types.  A settler's lines are lines of its reading that have a score.
* `SnapInv`: positions of cycles are in the file, in readings of it, or in one cycle's hands; they are
  nowhere twice, no two cycles hold the same, and all are in the table.  The readings matter because a
  settlement writes back what it has read, however old that is.
* `HistInv`: a reading starts with the rows the file came with, as the file does.
* `SettleInv`: an outcome, in the file, in a reading or in a copy, follows from a published score,
  and published scores stand (`ScoresStand`).
* `ReadingInv`, under `OneSettler`: a reading is never behind the file on settled rows.

`CycleEffect` and `SettlerEffect` say once what the steps of each side change, and the layers use
these instead of the actions.

**DurableStorageProofs.**  `DurableInvariant` is inductive: besides the types it says what each step of a run has
left behind (a run past the upsert has its positions in the table, one that reported has them where it
says), that rows stand under their own key, and that every pick has its record.  The table only grows
(`RecordsStay`), so what held when a run reported holds for good; from this follow `DurableTruth`, `HealthTruth`,
`PicksRecorded`, `CopyStays`, `AnswersHonest` and, step by step, `StorageImplementsStore`.

**ActivationProofs.**  `ActivationInvariant` has three parts beside the types.  `LockInv`: a run that works holds the lock or has
outlived it, and the lock is at least as old as its holder thinks.  `RegistryInv`: status, enabled markets, proofs and
readiness agree.  `WriteInv`: what a run has in its hands, and what is enabled, some approved run has
activated; what a run has found without discovering it is of no league that it rolled back; and, in `RolledBackInv`, what
is enabled in a league that a run rolled back was activated by a run that evaluated after it.  The last part is what makes
the exception for discoveries provable: a rollback leaves nothing enabled (`FaultDisables`), so whatever a later
`Persist` finds enabled there is newly approved.  The parts give `OneWorkerAtATime`, `LockStays`, `RegistryStaysCoherent`,
`PromotionApproved`, `WritesApproved` and `RolledBackNeedsApproval`, for any number of runs and leagues and any lifetimes with
`Limit < TTL`.

**MatchArchiveProofs.**  `ArchiveInvariant`: scores have a source in the files (`FilesSourced`), in the table (`TableSourced`),
in the results (`ResultsFinal`) and in whatever a sync has read (`SyncSourced`).  The last part is what makes
it inductive: readings are written back however old they are, and a source once good stays
good.  It gives `ScoresSourced`; `SyncsKnow` and `NoRowTwice` are proved step by step from the types.

**Only model-checked.**  Liveness (`JobsEnd`), which is out of the prover's reach: the measure of `JobsGoForward` decreases
with every step of a job, but that such a step is enabled until the job ends, and is taken, is `ENABLED` and fairness.
`JobsAdvance` itself is listed with no run.  Every other property of a passing
run is a theorem.  Nothing recursive is proved: no module here declares a `RECURSIVE` operator.

## 5. What is left out

*Quota.*  There is one `quota_state` row: two first inserts at once, with different period starts, may leave two
while the model keeps one.  `checkQuota`'s advisory check is not modelled, and the
activation lock is not in QuotaSystem, so more jobs run at once there than the lock admits.  Production writes are on, so the guard always uses the RPC path; the
in-memory engine that stands in for the database in tests is not modelled.  Accounts carry a
subscription id, are active and include the bookmaker and the sport.  The reply of a call is handled in
the step in which the call is executed, unless it is lost; only `/v4/account` answers late.  The account
cooldown is a choice between the cached and a fresh account.  A job is one provider call; a
function that goes on to a second one is a second job (`FollowUp`).  Payloads, logging and offline modes are left out.
Rollback and re-application are explored with the ledger alone, not while jobs run.

*Settlement.*  Lines are multiples of a quarter and odds have three decimals, so the rounding tolerance plays no part.
Draw-no-bet is the handicap at zero; no row of the ledger is a double chance.  Whether the source's name of
the away team occurs in the text of a selection is one bit of the result (`spelled`).  A file is written
in one step; torn writes are not modelled.  `production_run_ledger.jsonl` gets the lines the other file
gets.  The rows have no `matchId`, so `public.matches` yields no score and rows of `settlement_results` are filed
under the home side; the settlement's update of `prediction_ledger` matches no row.  The file's rows carry no position id
under a name the engine looks for, so only the table tells duplicates.

*Durable storage.*  The path with an injected test client, records that fail `verifyRecordIntegrity` and the unordered
choice of a limited query are left out; no route of the application runs a refresh with writes (the cron route only as a dry
run), so a run may end at any time (`Die`) for no reason the source gives; fetching fixtures and odds comes in as the set of matches that a run
evaluates; the hash check of the protected ledgers may give any answer (its hashes are fixed in the source,
so it fails for good once a ledger is rewritten).

*Activation.*  One instance: what the lock cannot do across instances is the budget's concern, in QuotaSystem.  The
budget of a run never runs out (`detectQuotaReset` asks for two calls, and eight tournaments are at most
two batches).  The discovery of a cron is one step, since nothing else can tell its awaits apart, and its answers are any; the requests it
sends are those of QuotaSystem's second job (`FollowUp`).  Fixtures without odds, which leave nothing to write, end like a
discovery that finds nothing.  The five proofs of a market are the constant `Proven`; the evaluation that only reads
(`evaluateAllShadowLeagues`), the verification file and injected test options are left out.

*Archive.*  The merging of observations of several sources, postponed and cancelled fixtures, the copy of research rows to
`forecast_archive`, queries and observability.  Only operators and tests call the sync in this repository.

*Components.*  Those with status `not_modelled` in `PROJECT.json`, each with its reason: formulas in floating point
(probabilities, gates, metrics), files that one script at a time writes (canonical ledger, evidence,
HandicapLab sync), and authentication and pages, which keep no state.  The Odds API manager is the
next to model: the daily refresh falls back on it, its count is private to an instance and stale while a request is
under way, a request that times out is not counted (`theOddsApiProvider.ts`, the `catch` of `getLeagueOdds`), and
once the reserve floor is reached no caller in `src/` sends the request whose headers would show a renewal.

## 6. Disagreements found

Each is a run that TLC ends with a counterexample; `PROJECT.json` (`findings`) quotes the lines.

1. `late_snapshot`: a sync with an older cycle key is taken for a rollover; the next snapshot of the
   current cycle then overwrites confirmed usage, against the header of the migration.
2. `opaque_error`: a transport error whose text matches neither pattern (`fetch failed`) frees a unit
   whose request may have been counted, against the guard's own comment on failing closed.
3. `unsettled_rows`: rows appended by the prediction engine are never settled, since settlement looks
   for keys that they do not have.
4. `half_time`: a fixture captured while it is played is filed as finished with a verified result, and
   its final score is blocked as a conflict; the evidence file in the repository holds such a fixture.

Further behaviours are in the models without a run of their own:

* A rollover sets `reserved` to zero although rows of the old cycle go on holding units, as the rollback
  runbook says they do; `ReservedCoversHeld` and `KeepsBudget` therefore hold within one cycle only.
* When the confirm call throws, or a release that was to charge fails, nothing reaches the memory of the
  instance, although the runbook says that it does at once (`SettleUnheard`).
* A failed probe of `settlement_results` leads to a second row, where a comment promises idempotency; the
  rows agree (`CopiesAgree`).  BTTS rows with a score are settled, where a test says that they stay pending.
* Rows appended between a settlement's reading and rewriting disappear from the file, and of two
  overlapping settlements the one without scores takes the other's outcomes back.
* A query of the daily store without a client answers success with local data or none, where its comment
  tells the two cases apart; `AnswersAreHonest` leaves that way out.
* A re-ingestion writes null over a verified score, and a sync whose query failed overwrites the row under the
  provider's number, where the archive's header says that verified scores are never silently overwritten.
* A sync writes back all rows that it has read, so that what others wrote meanwhile is lost, quarantines too
  (`WriteMatches`).
* A run without quota or approval calls markets blocked that another run has enabled, and they stay enabled
  (`Resolved`); `RegistryCoherent` does not speak of that direction.
* A cron that finds the activation lock held, or has lost its fixtures to an exception, fetches fixtures and odds all the
  same, and may publish a league that it has just rolled back when a manual run enables it meanwhile (`Discover`).
* With its gate closed the cron route still runs an activation that detects the quota again, and may bill
  requests while it answers `billableRequestsMade: 0`.

## 7. Plan

In order of importance to the system:

1. Activation composed with QuotaLedger: the units its batches use, over several instances.
2. The HandicapLab sync, with repeated and reordered records against an abstract "each record applied once".
3. The Odds API quota manager: how far a count that is checked before the request and corrected after it can
   be off, and under what it is opened again after a renewal.
