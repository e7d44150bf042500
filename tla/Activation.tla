----------------------------- MODULE Activation -----------------------------
(***************************************************************************)
(* Multi-league activation on one server instance: runAutoUnlockCycle      *)
(* detects whether quota is available, takes the activation lock of the    *)
(* instance, fetches odds in batches, evaluates every league of the        *)
(* registry and, when a human approved the run, enables the proven markets *)
(* that pass a smoke test; what is enabled decides which picks a run may   *)
(* write.  The cron route runs it without approval, asks for the quota     *)
(* once more before it, and follows it with a prediction cycle, which      *)
(* fetches fixtures and odds of its own when it is given no fixtures.      *)
(*                                                                         *)
(* Lock and registry live in the memory of the instance: a restart resets  *)
(* both.  Each await is a step of its own; the evaluation of the leagues   *)
(* is synchronous.  Time passes in ticks; the lock expires after TTL of    *)
(* them, the platform kills a cron run that outlives Limit, and nothing    *)
(* kills a manual run.                                                     *)
(*                                                                         *)
(* Whether quota is available is any answer (QuotaSystem tells how it      *)
(* comes about).  A found budget covers two calls, which is the most that  *)
(* eight tournaments take, so the budget of a run never runs out.  Flags   *)
(* of a league that change with its production_status are one with it.     *)
(***************************************************************************)
EXTENDS Naturals, FiniteSets

CONSTANTS
    Crons,      \* calls of the cron route
    Manuals,    \* calls of runAutoUnlockCycle by an operator
    NoRun,      \* stands for no run
    Leagues,
    Epl,        \* ENG-PL, which no proof is asked of and no activation reaches
    Paused,     \* leagues without a baseline
    Proven,     \* league and market: passes the five proofs of this deployment
    Batch,      \* per league: the batch its tournament is asked for in
    Batches,    \* number of batches
    TTL,        \* 120 s: when the lock expires, in ticks
    Limit,      \* 60 s: ticks that a cron run may see
    MaxBoots    \* bound on restarts

Markets == {"AH", "OU"}
Rows == Leagues \X Markets
Runs == Crons \cup Manuals

ASSUME ActivationAssumption ==
    /\ Crons \cap Manuals = {}
    /\ NoRun \notin Runs
    /\ Paused \subseteq Leagues \ {Epl}
    /\ Proven \subseteq (Leagues \ {Epl}) \X Markets
    /\ Batches \in Nat \ {0}
    /\ Batch \in [Leagues -> 1 .. Batches]
    /\ {TTL, Limit, MaxBoots} \subseteq Nat
    /\ Limit < TTL

VARIABLES
    lock,      \* activationLock
    registry,  \* CANONICAL_15_LEAGUES, per league
    picks,     \* daily_picks and predictions: per row, the run that wrote it last
    bets,      \* rows of prediction_ledger
    boots,     \* how often the instance was restarted
    run        \* per run: where it is

activationVars == <<lock, registry, picks, bets, boots, run>>

\* Every state that says which proof or baseline is missing is one here, and
\* READY_FOR_PRODUCTION is gone by the end of the evaluation that sets it.
Readiness == {"BLOCKED_MODEL_VALIDATION", "PAUSED_MISSING_BASELINE", "BLOCKED_ODDS",
              "BLOCKED_QUOTA", "PROPOSED_FOR_REVIEW", "ACTIVE"}

Entries == [status : {"SHADOW", "ACTIVE", "PAUSED"}, enabled : SUBSET Markets,
            validated : SUBSET Markets, readiness : [Markets -> Readiness]]

Locks == [holder : Runs \cup {NoRun}, age : 0 .. TTL]
FreeLock == [holder |-> NoRun, age |-> 0]

\* Steps of a run inside the try block whose finally gives the lock back.
Inside == {"ingest", "evaluate", "release"}
Writing == {"persist", "write", "bet"}

\* discovered and earlier are history, which no step looks at.
RunStates == [pc : {"idle", "gate", "detect", "discover", "over"} \cup Inside \cup Writing,
              approved : BOOLEAN, write : BOOLEAN, available : BOOLEAN,
              batch : 1 .. Batches, odds : SUBSET Rows, found : SUBSET Rows,
              todo : SUBSET Rows, cur : SUBSET Rows, age : 0 .. TTL,
              activated : SUBSET Rows, rolledBack : SUBSET Leagues,
              discovered : BOOLEAN, earlier : SUBSET Runs]

IdleRun == [pc |-> "idle", approved |-> FALSE, write |-> FALSE, available |-> FALSE,
            batch |-> 1, odds |-> {}, found |-> {}, todo |-> {},
            cur |-> {}, age |-> 0, activated |-> {}, rolledBack |-> {},
            discovered |-> FALSE, earlier |-> {}]

\* resetRegistryToDefaultState
DefaultReadiness(l) ==
    [m \in Markets |-> IF l \in Paused THEN "PAUSED_MISSING_BASELINE"
                       ELSE "BLOCKED_MODEL_VALIDATION"]

DefaultEntry(l) == [status |-> IF l \in Paused THEN "PAUSED" ELSE "SHADOW",
                    enabled |-> {}, validated |-> {}, readiness |-> DefaultReadiness(l)]

ActivationInit ==
    /\ lock = FreeLock
    /\ registry = [l \in Leagues |-> DefaultEntry(l)]
    /\ picks = [row \in Rows |-> NoRun]
    /\ bets = {}
    /\ boots = 0
    /\ run = [r \in Runs |-> IdleRun]

-----------------------------------------------------------------------------
(* The lock *)

Live(k) == k.holder # NoRun /\ k.age < TTL

\* isActivationInProgress frees a lock that has expired.
Swept(k) == IF Live(k) THEN k ELSE FreeLock

\* A mutant: the lock is freed whoever holds it.
FreedByAnyone(k, r) == FreeLock

\* releaseActivationLock, with the id that the run was given.
Freed(k, r) == IF k.holder = r THEN FreeLock ELSE k

-----------------------------------------------------------------------------
(* The registry *)

MarketsOf(rows, l) == {m \in Markets : <<l, m>> \in rows}

\* isLeagueMarketProductionEnabled
Enabled(row) == registry[row[1]].status = "ACTIVE" /\ row[2] \in registry[row[1]].enabled

\* activateLeagueMarkets, the human approval given.
Activate(e, ms) ==
    IF e.status = "PAUSED" \/ ms \cap e.validated = {} THEN e
    ELSE [e EXCEPT !.status = "ACTIVE", !.enabled = ms \cap e.validated]

\* rollbackLeagueMarkets
Rollback(e, l) == [DefaultEntry(l) EXCEPT !.validated = e.validated]

-----------------------------------------------------------------------------
(* The evaluation of a league *)

\* Markets that pass the proofs and have odds.
Candidates(r, l) ==
    IF run[r].available /\ l # Epl /\ l \notin Paused
    THEN MarketsOf(Proven \cap run[r].odds, l) ELSE {}

\* A mutant: the promotion runs without approval as well.
PromotesAnyway(r, l) == Candidates(r, l) # {}

Promotes(r, l) == Candidates(r, l) # {} /\ run[r].approved

\* validated_markets follow the proofs.
Synced(e, l) == [e EXCEPT !.validated = MarketsOf(Proven, l)]

\* A mutant: a market that passed the smoke test counts as active.
ResolvedEarly(r, l, e, fault, m) ==
    IF <<l, m>> \notin Proven THEN "BLOCKED_MODEL_VALIDATION"
    ELSE IF m \in Candidates(r, l) /\ ~fault THEN "ACTIVE"
    ELSE IF ~run[r].available THEN "BLOCKED_QUOTA"
    ELSE "BLOCKED_ODDS"

\* resolveFinalMarketDetail: what market_readiness says of the market m.
Resolved(r, l, e, fault, m) ==
    IF <<l, m>> \notin Proven THEN "BLOCKED_MODEL_VALIDATION"
    ELSE IF m \in Candidates(r, l) /\ ~fault
    THEN IF ~run[r].approved THEN "PROPOSED_FOR_REVIEW"
         ELSE IF m \in e.enabled THEN "ACTIVE" ELSE "BLOCKED_ODDS"
    ELSE IF ~run[r].available THEN "BLOCKED_QUOTA"
    ELSE "BLOCKED_ODDS"

Finished(r, l, e, fault) ==
    [e EXCEPT !.readiness = [m \in Markets |-> Resolved(r, l, e, fault, m)]]

\* evaluateSingleLeague and the catch around it.  fault: a smoke test failed, or
\* the evaluation of a fixture threw.  A fault of a promotion is caught inside and
\* leaves readiness states behind, any other leaves the league as rolled back.
Evaluated(r, l, fault) ==
    LET e == Synced(registry[l], l)
    IN  IF l \in Paused THEN [registry[l] EXCEPT !.readiness = DefaultReadiness(l)]
        ELSE IF l = Epl THEN IF fault THEN Rollback(registry[l], l) ELSE registry[l]
        ELSE IF Promotes(r, l)
        THEN Finished(r, l, IF fault THEN Rollback(e, l)
                            ELSE Activate(e, Candidates(r, l)), fault)
        ELSE IF fault THEN Rollback(e, l) ELSE Finished(r, l, e, FALSE)

\* Leagues whose fixtures the evaluation looks at.
Tested(r) == {l \in Leagues : \/ Candidates(r, l) # {}
                              \/ l = Epl /\ MarketsOf(run[r].odds, l) # {}}

\* A mutant: what a failed smoke test collected is kept.
CollectedAll(r, faults) == run[r].odds

\* What the run may persist: a promotion's smoke-tested markets with odds, or the
\* fixtures that the cron hands on to the prediction cycle.  A fault clears both.
Collected(r, faults) ==
    {row \in run[r].odds : /\ row[1] \notin faults \cup Paused
                           /\ r \in Manuals => row[1] = Epl \/ Promotes(r, row[1])}

-----------------------------------------------------------------------------
(* The steps of a run *)

\* What an ended run had found is gone; what it reported stays.
Ended(state) == [IdleRun EXCEPT !.pc = "over", !.approved = state.approved,
                                !.activated = state.activated,
                                !.rolledBack = state.rolledBack,
                                !.discovered = state.discovered,
                                !.earlier = state.earlier]

After(state) == IF state.pc = "over" THEN Ended(state) ELSE state

Become(r, state) == run' = [run EXCEPT ![r] = After(state)]

\* The cron route asks for the quota first.  A lock in use is an answer already, and
\* without quota the activation still runs, but nothing may be written.
AskGate(r) ==
    /\ r \in Crons
    /\ run[r].pc = "idle"
    /\ \E write \in BOOLEAN :
          /\ write => ~Live(lock)
          /\ Become(r, [run[r] EXCEPT !.pc = "gate", !.write = write])
    /\ lock' = Swept(lock)
    /\ UNCHANGED <<registry, picks, bets, boots>>

\* The answer, and runAutoUnlockCycle up to the first await of detectQuotaReset.
Call(r) ==
    /\ run[r].pc = IF r \in Crons THEN "gate" ELSE "idle"
    /\ \E approved, write \in BOOLEAN :
          /\ r \in Crons => ~approved /\ (write => run[r].write)
          /\ Become(r, [run[r] EXCEPT !.pc = IF Live(lock) THEN "evaluate" ELSE "detect",
                                      !.approved = approved, !.write = write])
    /\ lock' = Swept(lock)
    /\ UNCHANGED <<registry, picks, bets, boots>>

\* A mutant: a lock that is held is taken over.
DetectAndSeize(r) ==
    /\ run[r].pc = "detect"
    /\ \/ /\ Become(r, [run[r] EXCEPT !.pc = "evaluate"])
          /\ UNCHANGED lock
       \/ /\ Become(r, [run[r] EXCEPT !.pc = "ingest", !.available = TRUE])
          /\ lock' = [holder |-> r, age |-> 0]
    /\ UNCHANGED <<registry, picks, bets, boots>>

\* The answer; with quota the lock is taken in the same step, and whoever does not
\* get it goes on without quota.
Detect(r) ==
    /\ run[r].pc = "detect"
    /\ \/ /\ Become(r, [run[r] EXCEPT !.pc = "evaluate"])
          /\ UNCHANGED lock
       \/ /\ ~Live(lock)
          /\ Become(r, [run[r] EXCEPT !.pc = "ingest", !.available = TRUE])
          /\ lock' = [holder |-> r, age |-> 0]
    /\ UNCHANGED <<registry, picks, bets, boots>>

\* The tournaments of a batch; leagues that are paused are not asked for.
Asked(n) == {row \in Rows : row[1] \notin Paused /\ Batch[row[1]] = n}

\* A mutant: the loop over the batches takes one too many.
IngestBeyond(r) ==
    /\ run[r].pc = "ingest"
    /\ \E got \in SUBSET Asked(run[r].batch) :
          Become(r, IF run[r].batch > Batches
                    THEN [run[r] EXCEPT !.pc = "evaluate", !.odds = @ \cup got]
                    ELSE [run[r] EXCEPT !.batch = @ + 1, !.odds = @ \cup got])
    /\ UNCHANGED <<lock, registry, picks, bets, boots>>

\* One batch of ingestPriorityFixturesAndOdds.  No usable fixtures, a guard that
\* refuses and a breaker that is open end the ingestion, a failed request does not.
Ingest(r) ==
    /\ run[r].pc = "ingest"
    /\ \/ Become(r, [run[r] EXCEPT !.pc = "evaluate"])
       \/ \E got \in SUBSET Asked(run[r].batch) :
             Become(r, IF run[r].batch = Batches
                       THEN [run[r] EXCEPT !.pc = "evaluate", !.odds = @ \cup got]
                       ELSE [run[r] EXCEPT !.batch = @ + 1, !.odds = @ \cup got])
    /\ UNCHANGED <<lock, registry, picks, bets, boots>>

\* Phase D, all leagues.  earlier: the runs whose promotions came before.
Evaluate(r) ==
    /\ run[r].pc = "evaluate"
    /\ \E faults \in SUBSET Tested(r) :
          /\ registry' = [l \in Leagues |-> Evaluated(r, l, l \in faults)]
          /\ Become(r, [run[r] EXCEPT
                !.pc = IF r \in Manuals /\ run[r].write /\ Collected(r, faults) # {}
                       THEN "persist" ELSE "release",
                !.odds = {},
                !.found = Collected(r, faults),
                !.rolledBack = faults,
                !.earlier = {s \in Runs : run[s].activated # {}},
                !.activated = {row \in Rows : /\ Promotes(r, row[1])
                                              /\ row[1] \notin faults
                                              /\ row[2] \in Candidates(r, row[1])}])
    /\ UNCHANGED <<lock, picks, bets, boots>>

\* The finally block.  The cron goes on with its prediction cycle, the lock free; what
\* that does matters here when it may write.  (Fixtures without odds leave it nothing
\* to write, as a discovery does that finds nothing.)
Release(r) ==
    /\ run[r].pc = "release"
    /\ lock' = Freed(lock, r)
    /\ Become(r, [run[r] EXCEPT !.pc = IF r \in Manuals \/ ~run[r].write THEN "over"
                                       ELSE IF run[r].found = {} THEN "discover"
                                       ELSE "persist"])
    /\ UNCHANGED <<registry, picks, bets, boots>>

\* discoverUpcomingFixturesWithOdds: odds of any league that is not paused, whoever
\* has the lock; all answers in one step, as it touches nothing between them.
Discover(r) ==
    /\ r \in Crons
    /\ run[r].pc = "discover"
    /\ \E got \in SUBSET {row \in Rows : row[1] \notin Paused} :
          Become(r, [run[r] EXCEPT !.pc = "persist", !.found = got, !.discovered = TRUE])
    /\ UNCHANGED <<lock, registry, picks, bets, boots>>

\* An exception: the finally block is all that follows.
Fail(r) ==
    /\ run[r].pc = "ingest"
    /\ lock' = Freed(lock, r)
    /\ Become(r, [run[r] EXCEPT !.pc = "over"])
    /\ UNCHANGED <<registry, picks, bets, boots>>

-----------------------------------------------------------------------------
(* persistPredictionCycle *)

\* From the first row on, todo is all that counts of what was found.
AfterRow(r, todo) ==
    [run[r] EXCEPT !.found = {}, !.cur = {},
                   !.pc = IF todo # {} THEN "write"
                          ELSE IF r \in Manuals THEN "release" ELSE "over"]

\* A mutant: every market with odds is eligible.
PersistAll(r) ==
    /\ run[r].pc = "persist"
    /\ Become(r, [AfterRow(r, run[r].found) EXCEPT !.todo = run[r].found])
    /\ UNCHANGED <<lock, registry, picks, bets, boots>>

\* The markets that are enabled now are eligible.
Persist(r) ==
    LET eligible == {row \in run[r].found : Enabled(row)}
    IN  /\ run[r].pc = "persist"
        /\ Become(r, [AfterRow(r, eligible) EXCEPT !.todo = eligible])
        /\ UNCHANGED <<lock, registry, picks, bets, boots>>

\* Upserts of daily_picks and predictions; done: the rows were written.
WritePick(r, done) ==
    /\ run[r].pc = "write"
    /\ \E row \in run[r].todo :
          /\ picks' = IF done THEN [picks EXCEPT ![row] = r] ELSE picks
          /\ Become(r, [run[r] EXCEPT !.pc = "bet", !.cur = {row}, !.todo = @ \ {row}])
    /\ UNCHANGED <<lock, registry, bets, boots>>

\* For a bet the market must still be enabled, and the verdict LAYAK.
WriteBet(r, done) ==
    /\ run[r].pc = "bet"
    /\ bets' = IF done THEN bets \cup {row \in run[r].cur : Enabled(row)} ELSE bets
    /\ Become(r, AfterRow(r, run[r].todo))
    /\ UNCHANGED <<lock, registry, picks, boots>>

-----------------------------------------------------------------------------
(* The world *)

Running(r) == run[r].pc \notin {"idle", "over"}

Older(n) == IF n < TTL THEN n + 1 ELSE n

\* 60 seconds pass.  A cron run cannot see more than Limit ticks.
Tick ==
    /\ lock' = [lock EXCEPT !.age = IF lock.holder = NoRun THEN 0 ELSE Older(@)]
    /\ run' = [r \in Runs |->
                 IF ~Running(r) THEN run[r]
                 ELSE IF r \in Crons /\ run[r].age >= Limit
                 THEN Ended(run[r])
                 ELSE [run[r] EXCEPT !.age = Older(@)]]
    /\ UNCHANGED <<registry, picks, bets, boots>>

Restart ==
    /\ boots < MaxBoots
    /\ boots' = boots + 1
    /\ lock' = FreeLock
    /\ registry' = [l \in Leagues |-> DefaultEntry(l)]
    /\ run' = [r \in Runs |-> IF Running(r) THEN Ended(run[r]) ELSE run[r]]
    /\ UNCHANGED <<picks, bets>>

ActivationNext ==
    \/ \E r \in Runs :
          \/ AskGate(r) \/ Call(r) \/ Detect(r) \/ Ingest(r) \/ Evaluate(r)
          \/ Release(r) \/ Discover(r) \/ Fail(r) \/ Persist(r)
          \/ \E done \in BOOLEAN : WritePick(r, done) \/ WriteBet(r, done)
    \/ Tick
    \/ Restart

ActivationSpec == ActivationInit /\ [][ActivationNext]_activationVars

-----------------------------------------------------------------------------
(* Properties *)

\* Every variable has its type; a run that fetches odds, or has some, found
\* quota.
ActivationTypeOK ==
    /\ lock \in Locks
    /\ registry \in [Leagues -> Entries]
    /\ picks \in [Rows -> Runs \cup {NoRun}]
    /\ bets \subseteq Rows
    /\ boots \in 0 .. MaxBoots
    /\ run \in [Runs -> RunStates]
    /\ \A r \in Runs : run[r].odds # {} \/ run[r].pc = "ingest" => run[r].available

\* The run is in the part of runAutoUnlockCycle that the lock is for.
Working(r) ==
    /\ run[r].available
    /\ run[r].pc \in IF r \in Manuals THEN Inside \cup Writing ELSE Inside

Outlived(r) == r \in Manuals /\ run[r].age >= TTL

\* Two activations of an instance never work at once, unless one of them is a manual
\* run that outlived the lock: whatever order their detections were answered in, and
\* though killed runs leave the lock behind.
OneWorker ==
    \A r, s \in Runs : r # s /\ Working(r) /\ Working(s) => Outlived(r) \/ Outlived(s)

\* The lock of a run that is working is taken from it only after it expired: a run
\* that comes late, gives up or ends never frees or replaces the lock of another.
LockKept ==
    [][\A r \in Runs : lock.holder = r /\ lock'.holder # r /\ Working(r) /\ Working(r)'
          => Outlived(r)]_activationVars

\* The registry agrees with itself and with the proofs: a league is ACTIVE when it
\* has enabled markets, which are proven, and market_readiness calls only an enabled
\* market active, whatever runs without approval or quota said of it in between.
RegistryCoherent ==
    \A l \in Leagues : LET e == registry[l] IN
        /\ e.status = "ACTIVE" <=> e.enabled # {}
        /\ \A m \in e.enabled : <<l, m>> \in Proven
        /\ \A m \in Markets : e.readiness[m] = "ACTIVE" => m \in e.enabled

\* A market becomes enabled only in an evaluation that a human approved, for which
\* the run has fetched the odds under the lock (H2: quota alone promotes nothing).
PromotionIsApproved ==
    [][\A l \in Leagues : \A m \in registry'[l].enabled \ registry[l].enabled :
          \E r \in Runs : /\ run[r].pc = "evaluate" /\ run'[r].pc # "evaluate"
                          /\ run[r].approved
                          /\ <<l, m>> \in run[r].odds
                          /\ lock.holder = r \/ Outlived(r)]_activationVars

ApprovedRows == UNION {run[r].activated : r \in Runs}

\* Picks and bets are only of markets that an approved run has activated, although
\* the runs that write them need no approval and read the registry between awaits.
WritesWereApproved ==
    /\ bets \subseteq ApprovedRows
    /\ \A row \in Rows : picks[row] # NoRun => row \in ApprovedRows
    /\ \A r \in Runs : run[r].activated # {} => run[r].approved

ActivatedAfter(r, row) == \E s \in Runs \ run[r].earlier : row \in run[s].activated

MayPublish(r, row) ==
    row[1] \in run[r].rolledBack => run[r].discovered /\ ActivatedAfter(r, row)

\* A run publishes nothing of a league that it rolled back from the odds that it had
\* then.  A cron whose own fixtures are all gone may publish the league from odds that
\* it discovers later, and only when a human approved it again in between: no approval
\* from before the rollback counts.
RolledBackReapproved ==
    \A row \in Rows : picks[row] # NoRun => MayPublish(picks[row], row)
=============================================================================
