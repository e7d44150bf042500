---------------------------- MODULE QuotaSystem ----------------------------
(***************************************************************************)
(* The quota ledger at work.  Serverless instances run jobs that read      *)
(* /v4/account, sync the ledger, reserve units, send billed requests to    *)
(* the odds provider one by one, and settle every unit by what came back.  *)
(* The volatile guard state is per instance (OddsPapiQuotaGuard's static   *)
(* fields), the ledger is shared, and everything between them can fail:    *)
(* replies of the database and of the provider get lost or arrive late,    *)
(* instances die, and the provider renews the plan.                        *)
(*                                                                         *)
(* Every await of the code is a separate value of a job's pc, so that what *)
(* was read before it can be stale after it.  A job is one provider call:  *)
(* it makes one reservation, so its name serves as idempotency key; odds   *)
(* take one unit, fixtures one unit per tournament.  Production writes     *)
(* are on, so the guard always uses the atomic functions.                  *)
(***************************************************************************)
EXTENDS QuotaLedger, FiniteSetsExt

CONSTANTS
    Instances,          \* serverless instances
    NoInstance,         \* where a job that has not started runs
    OddsJobs,           \* jobs that fetch odds in one request
    Texts,              \* how the text of a transport error may be classified
    PlanLimit,          \* request_limit of the plan
    MandatoryReserve,   \* 50: reserve asked for by every caller
    MinCalls,           \* operational calls detectQuotaReset must find left
    MayCrash,           \* instances may die
    MaySweep            \* somebody runs the cleanup function

ASSUME SystemAssumption ==
    /\ OddsJobs \subseteq Keys
    /\ NoInstance \notin Instances
    /\ Texts \subseteq {"ambiguous", "early", "opaque"}
    /\ PlanLimit \in Limits \ {0}
    /\ MandatoryReserve \in Reserves
    /\ MinCalls \in Nat \ {0}
    /\ MaxAmount > 0
    /\ {MayCrash, MaySweep} \subseteq BOOLEAN

VARIABLES
    guard,   \* per instance: the static fields of OddsPapiQuotaGuard
    job,     \* per job: where it is and what it holds across its awaits
    plan,    \* the provider's current subscription cycle
    past,    \* cycles that are over
    billed,  \* requests the provider has counted, per cycle
    stray    \* requests given up by their job that the provider may still process

guardVars    == <<guard, job>>
providerVars == <<plan, past, billed, stray>>
systemVars   == <<ledgerVars, guardVars, providerVars>>

Size(f) == IF f \in OddsJobs THEN 1 ELSE MaxAmount

NoAccount == [cycle |-> NoCycle, count |-> 0]

\* simulateColdStartForTest lists what an instance loses.
ColdGuard == [tripped |-> FALSE, tracked |-> NoCycle, memCost |-> 0, floor |-> 0,
              cached |-> NoAccount]

NoTask == [how |-> "none", conf |-> 0, rel |-> 0, next |-> "done"]

\* cost, hurt and guess record, for the properties, the requests the provider counted
\* for the job while it listened, whether a reply of the database or its instance was
\* lost, and the kind of transport error whose text decided the job's last request.
IdleJob == [pc |-> "idle", at |-> NoInstance, snap |-> NoAccount, go |-> FALSE,
            sent |-> 0, request |-> "none", task |-> NoTask, entry |-> 0,
            cost |-> 0, hurt |-> FALSE, guess |-> "none"]

\* Units of the reservations that an instance remembers as active.
ActiveReservedCost(i) ==
    MapThenSumSet(LAMBDA f : job[f].entry, {f \in Keys : job[f].at = i})

-----------------------------------------------------------------------------
(* detectQuotaReset and the account snapshot it works on *)

\* The in-memory floor overrides a lower count, once something was confirmed.
Raised(g, a) ==
    [a EXCEPT !.count = IF g.memCost > 0 THEN Greatest(@, g.floor) ELSE @]

\* syncAccount's use of an answer: another cycle than the tracked one resets
\* the memory of this one.
Heard(g, a) ==
    IF g.tracked \notin {NoCycle, a.cycle}
    THEN [g EXCEPT !.memCost = 0, !.floor = a.count, !.tracked = a.cycle,
                   !.cached = a]
    ELSE [g EXCEPT !.tracked = a.cycle, !.cached = Raised(g, a)]

\* The rest of detectQuotaReset up to the sync call, given the account a.
Detect(f, i, g, a) ==
    LET used == Raised(g, a).count
        left == PlanLimit - MandatoryReserve - used - ActiveReservedCost(i)
    IN  /\ guard' = [guard EXCEPT ![i] = g]
        /\ job' = [job EXCEPT ![f].pc = "sync",
                              ![f].at = i,
                              ![f].snap = [cycle |-> a.cycle, count |-> used],
                              ![f].go = left >= MinCalls]

\* Inside the cooldown the cached account serves, raised in place.
UseCachedAccount(f, i) ==
    /\ job[f].pc = "idle"
    /\ ~ guard[i].tripped
    /\ guard[i].cached # NoAccount
    /\ LET a == Raised(guard[i], guard[i].cached)
       IN  Detect(f, i, [guard[i] EXCEPT !.cached = a], a)
    /\ UNCHANGED <<ledgerVars, providerVars>>

\* The provider answers with the count of this moment; the answer may be late.
AskAccount(f, i) ==
    /\ job[f].pc = "idle"
    /\ ~ guard[i].tripped
    /\ job' = [job EXCEPT ![f].pc = "account",
                          ![f].at = i,
                          ![f].snap = [cycle |-> plan, count |-> billed[plan]]]
    /\ UNCHANGED <<ledgerVars, guard, providerVars>>

AccountArrives(f) ==
    /\ job[f].pc = "account"
    /\ LET g == Heard(guard[job[f].at], job[f].snap)
       IN  Detect(f, job[f].at, g, g.cached)
    /\ UNCHANGED <<ledgerVars, providerVars>>

\* A 401 or 429 trips the breaker; either way an older cached account serves.
AccountFails(f, rejected) ==
    /\ job[f].pc = "account"
    /\ LET i == job[f].at
           g == [guard[i] EXCEPT !.tripped = @ \/ rejected]
       IN  IF g.cached # NoAccount
           THEN Detect(f, i, g, g.cached)
           ELSE /\ guard' = [guard EXCEPT ![i] = g]
                /\ job' = [job EXCEPT ![f].pc = "done"]
    /\ UNCHANGED <<ledgerVars, providerVars>>

\* A function goes on to its next provider call without detecting anew.
FollowUp(f, i) ==
    /\ job[f].pc = "idle"
    /\ \E g \in Keys : job[g].at = i /\ job[g].pc = "done" /\ job[g].go
    /\ job' = [job EXCEPT ![f].pc = "ready", ![f].at = i, ![f].go = TRUE]
    /\ UNCHANGED <<ledgerVars, guard, providerVars>>

-----------------------------------------------------------------------------
(* syncQuotaCycleAtomic: its result is not looked at by detectQuotaReset *)

SyncAsked(f) == Sync(job[f].snap.cycle, job[f].snap.count, PlanLimit, MandatoryReserve)

SyncAcked(f) ==
    /\ job[f].pc = "sync"
    /\ SyncAsked(f)
    /\ LET c        == job[f].snap.cycle
           rollover == cycle \notin {NoCycle, LegacyCycle, c}
           g        == guard[job[f].at]
       IN  guard' = [guard EXCEPT ![job[f].at] =
               [g EXCEPT !.tracked = c,
                         !.memCost = IF rollover THEN 0 ELSE @,
                         !.floor   = IF rollover THEN consumed'
                                     ELSE Greatest(@, consumed')]]
    /\ job' = [job EXCEPT ![f].pc = IF job[f].go THEN "ready" ELSE "done"]
    /\ UNCHANGED providerVars

SyncUnheard(f) ==
    /\ job[f].pc = "sync"
    /\ SyncAsked(f) \/ UNCHANGED ledgerVars
    /\ job' = [job EXCEPT ![f].pc = IF job[f].go THEN "ready" ELSE "done"]
    /\ UNCHANGED <<guard, providerVars>>

-----------------------------------------------------------------------------
(* reserveQuota: no await between the breaker check and the call *)

ReserveAsked(f) ==
    Reserve(f, Size(f), guard[job[f].at].tracked, MandatoryReserve)

ReserveAcked(f) ==
    /\ job[f].pc = "ready"
    /\ ~ guard[job[f].at].tripped
    /\ ReserveAsked(f)
    /\ job' = [job EXCEPT ![f].pc = "send", ![f].entry = Size(f)]
    /\ UNCHANGED <<guard, providerVars>>

\* The row is written, but the caller is told DB_UNREACHABLE_BLOCK.
ReserveUnheard(f) ==
    /\ job[f].pc = "ready"
    /\ ~ guard[job[f].at].tripped
    /\ ReserveAsked(f)
    /\ job' = [job EXCEPT ![f].pc = "done", ![f].hurt = TRUE]
    /\ UNCHANGED <<guard, providerVars>>

\* The breaker is open, the ledger refuses, or the call does not reach it.
ReserveDenied(f) ==
    /\ job[f].pc = "ready"
    /\ job' = [job EXCEPT ![f].pc = "done"]
    /\ UNCHANGED <<ledgerVars, guard, providerVars>>

-----------------------------------------------------------------------------
(* The requests, and the provider: getUpcomingFixtures loops over them *)

Dispatch(f) ==
    /\ job[f].pc = "send"
    /\ job' = [job EXCEPT ![f].pc = "wait", ![f].sent = @ + 1, ![f].request = "flying"]
    /\ UNCHANGED <<ledgerVars, guard, providerVars>>

\* Counted once processed, whatever the status: 200, 4xx or 5xx.
Process(f) ==
    /\ job[f].request = "flying"
    /\ billed' = [billed EXCEPT ![plan] = @ + 1]
    /\ job' = [job EXCEPT ![f].request = "processed", ![f].cost = @ + 1]
    /\ UNCHANGED <<ledgerVars, guard, plan, past, stray>>

\* 401 and 429 are sent before processing and not counted.
Reject(f) ==
    /\ job[f].request = "flying"
    /\ job' = [job EXCEPT ![f].request = "rejected"]
    /\ UNCHANGED <<ledgerVars, guard, providerVars>>

\* The odds URL repeats, so for 60 seconds Next's data cache answers it, and once
\* more after that while it asks the provider in the background.
ServeCached(f, fresh) ==
    /\ f \in OddsJobs
    /\ job[f].request = "flying"
    /\ job' = [job EXCEPT ![f].request = "processed"]
    /\ stray' = IF fresh THEN stray ELSE stray + 1
    /\ UNCHANGED <<ledgerVars, guard, plan, past, billed>>

ProcessStray ==
    /\ stray > 0
    /\ stray' = stray - 1
    /\ billed' = [billed EXCEPT ![plan] = @ + 1]
    /\ UNCHANGED <<ledgerVars, guardVars, plan, past>>

DropStray ==
    /\ stray > 0
    /\ stray' = stray - 1
    /\ UNCHANGED <<ledgerVars, guardVars, plan, past, billed>>

Renew(c) ==
    /\ c \notin past \cup {plan}
    /\ past' = past \cup {plan}
    /\ plan' = c
    /\ UNCHANGED <<ledgerVars, guardVars, billed, stray>>

\* Units the job has not asked to settle, the request just answered included.
Remaining(f) == Size(f) - job[f].sent + 1

Settling(f, how, conf, rel, next) ==
    [job[f] EXCEPT !.pc = "settle", !.request = "none",
                   !.task = [how |-> how, conf |-> conf, rel |-> rel, next |-> next]]

\* A mutant: the loop runs once too often.
ReplyOnceMore(f) ==
    /\ job[f].pc = "wait"
    /\ job[f].request = "processed"
    /\ job' = [job EXCEPT ![f] = Settling(f, "confirm", 1, 0,
                                     IF job[f].sent <= Size(f) THEN "send" ELSE "done")]
    /\ UNCHANGED <<ledgerVars, guard, providerVars>>

\* A billable status confirms one unit, and the loop goes on.
Reply(f) ==
    /\ job[f].pc = "wait"
    /\ job[f].request = "processed"
    /\ job' = [job EXCEPT ![f] = Settling(f, "confirm", 1, 0,
                                     IF job[f].sent < Size(f) THEN "send" ELSE "done")]
    /\ UNCHANGED <<ledgerVars, guard, providerVars>>

\* Two mutants: only one unit is given back, or the rejected one is charged.
RejectionOfOne(f) ==
    /\ job[f].pc = "wait"
    /\ job[f].request = "rejected"
    /\ job' = [job EXCEPT ![f] = Settling(f, "rejected", 0, 1, "done")]
    /\ UNCHANGED <<ledgerVars, guard, providerVars>>

RejectionCharged(f) ==
    /\ job[f].pc = "wait"
    /\ job[f].request = "rejected"
    /\ job' = [job EXCEPT ![f] = Settling(f, "confirm", 1, Remaining(f) - 1, "done")]
    /\ UNCHANGED <<ledgerVars, guard, providerVars>>

Rejection(f) ==
    /\ job[f].pc = "wait"
    /\ job[f].request = "rejected"
    /\ job' = [job EXCEPT ![f] = Settling(f, "rejected", 0, Remaining(f), "done")]
    /\ UNCHANGED <<ledgerVars, guard, providerVars>>

\* A mutant: no transport error is ever charged.
BrokenNeverCharged(f, text) ==
    /\ job[f].pc = "wait"
    /\ text = "early" => job[f].request = "flying"
    /\ stray' = IF text # "early" /\ job[f].request = "flying" THEN stray + 1 ELSE stray
    /\ job' = [job EXCEPT ![f] =
           [Settling(f, "free", 0, Remaining(f), "done") EXCEPT !.guess = text]]
    /\ UNCHANGED <<ledgerVars, guard, plan, past, billed>>

\* fetch throws, and the text of the error decides.  Only an early error says
\* that the request never left.  An ambiguous one is charged, by the fixtures
\* flow as a confirm, by the odds flow as a release the ledger turns into one.
\* Any other text counts as not dispatched.
Broken(f, text) ==
    LET how  == IF text # "ambiguous" THEN "free"
                ELSE IF f \in OddsJobs THEN "charge" ELSE "confirm"
        conf == IF text = "ambiguous" THEN 1 ELSE 0
    IN  /\ job[f].pc = "wait"
        /\ text = "early" => job[f].request = "flying"
        /\ stray' = IF text # "early" /\ job[f].request = "flying" THEN stray + 1 ELSE stray
        /\ job' = [job EXCEPT ![f] =
               [Settling(f, how, conf, Remaining(f) - conf, "done") EXCEPT !.guess = text]]
        /\ UNCHANGED <<ledgerVars, guard, plan, past, billed>>

-----------------------------------------------------------------------------
(* confirmQuota and releaseQuotaAsync *)

CanSettleTask(f) == CanSettle(f, job[f].task.conf, job[f].task.rel, NoStep)

\* The call as the ledger executes it.  SettlementsAccepted says that it never
\* refuses or replays one.
SettleAsked(f) ==
    LET t == job[f].task
    IN  \/ t.how \in {"confirm", "charge"} /\ Confirm(f, t.conf, t.rel, NoStep)
        \/ t.how \in {"free", "rejected"} /\ FreeRelease(f, t.rel, NoStep)

\* commitInMemoryUsage, with the count known after it
Committed(g, n, after) ==
    [g EXCEPT !.memCost = @ + n,
              !.floor = Greatest(Greatest(@, after), g.memCost + n),
              !.cached = IF @ = NoAccount THEN @
                         ELSE [cycle |-> @.cycle, count |-> Greatest(@.count, after)]]

KnownBaseline(g) == Greatest(g.floor, g.cached.count)

\* A release that is acknowledged trips the breaker on 401 and 429; the odds
\* flow trips it in any case.
Trips(f, heard) == job[f].task.how = "rejected" /\ (f \in OddsJobs \/ heard)

\* What stays of the active entry: a partial free release leaves it as it was.
EntryLeft(f) ==
    LET t == job[f].task
    IN  IF rows'[f].status # "RESERVED" THEN 0
        ELSE IF t.how \in {"free", "rejected"} THEN job[f].entry
        ELSE Greatest(0, job[f].entry - t.conf - t.rel)

Settle(f, g, entry, hurt) ==
    /\ job[f].pc = "settle"
    /\ guard' = [guard EXCEPT ![job[f].at] = g]
    /\ job' = [job EXCEPT ![f].pc = job[f].task.next,
                          ![f].task = NoTask,
                          ![f].entry = entry,
                          ![f].hurt = @ \/ hurt]
    /\ UNCHANGED providerVars

SettleAcked(f) ==
    LET g == [guard[job[f].at] EXCEPT !.tripped = @ \/ Trips(f, TRUE)]
        t == job[f].task
    IN  /\ SettleAsked(f)
        /\ Settle(f, IF t.conf > 0 THEN Committed(g, t.conf, consumed') ELSE g,
                  EntryLeft(f), FALSE)

\* A mutant: a settlement without a reply is asked for again, under no step key.
SettleUnheardRetries(f, thrown) ==
    /\ job[f].pc = "settle"
    /\ SettleAsked(f) \/ UNCHANGED ledgerVars
    /\ job' = [job EXCEPT ![f].hurt = TRUE]
    /\ UNCHANGED <<guard, providerVars>>

\* An error reply of confirm still commits to memory; an exception does not,
\* nor does a failed release.
SettleUnheard(f, thrown) ==
    LET g == [guard[job[f].at] EXCEPT !.tripped = @ \/ Trips(f, FALSE)]
        t == job[f].task
    IN  /\ SettleAsked(f) \/ UNCHANGED ledgerVars
        /\ Settle(f, IF t.how = "confirm" /\ ~ thrown
                     THEN Committed(g, t.conf, KnownBaseline(g) + t.conf) ELSE g,
                  job[f].entry, TRUE)

-----------------------------------------------------------------------------
(* Deaths of instances, and housekeeping *)

Alive(f) == job[f].pc \notin {"idle", "done"}

Crash(i) ==
    /\ MayCrash
    /\ \E f \in Keys : job[f].at = i /\ Alive(f)
    /\ guard' = [guard EXCEPT ![i] = ColdGuard]
    /\ stray' = stray + Cardinality({f \in Keys : job[f].at = i /\ job[f].request = "flying"})
    /\ job' = [f \in Keys |->
                  IF job[f].at # i THEN job[f]
                  ELSE [job[f] EXCEPT !.pc = "done", !.at = NoInstance,
                                      !.request = "none", !.task = NoTask,
                                      !.entry = 0, !.hurt = @ \/ Alive(f)]]
    /\ UNCHANGED <<ledgerVars, plan, past, billed>>

\* A row outlives its 600 seconds only when its job is over: functions are
\* killed after 60 seconds.
Age(f) ==
    /\ MaySweep
    /\ job[f].pc = "done"
    /\ Pass(f)
    /\ UNCHANGED <<guardVars, providerVars>>

Sweep ==
    /\ MaySweep
    /\ CleanupStale
    /\ UNCHANGED <<guardVars, providerVars>>

-----------------------------------------------------------------------------
\* A legacy row has counted what was billed before; with no row, nothing is known.
SystemInit ==
    /\ LedgerInit
    /\ plan \in Cycles
    /\ past = {}
    /\ stray = 0
    /\ billed \in [Cycles -> Counts]
    /\ \A c \in Cycles \ {plan} : billed[c] = 0
    /\ cycle = LegacyCycle => consumed = billed[plan] /\ limit = PlanLimit
    /\ guard = [i \in Instances |-> ColdGuard]
    /\ job = [f \in Keys |-> IdleJob]

\* What a job does, or has done to it, on its way.
JobStep(f) ==
    \/ AccountArrives(f)
    \/ \E rejected \in BOOLEAN : AccountFails(f, rejected)
    \/ SyncAcked(f) \/ SyncUnheard(f)
    \/ ReserveAcked(f) \/ ReserveUnheard(f) \/ ReserveDenied(f)
    \/ Dispatch(f)
    \/ Reply(f) \/ Rejection(f)
    \/ \E text \in Texts : Broken(f, text)
    \/ SettleAcked(f)
    \/ \E thrown \in BOOLEAN : SettleUnheard(f, thrown)

SystemNext ==
    \/ \E f \in Keys, i \in Instances :
           UseCachedAccount(f, i) \/ AskAccount(f, i) \/ FollowUp(f, i)
    \/ \E f \in Keys : JobStep(f)
    \/ \E f \in Keys : Process(f) \/ Reject(f)
    \/ \E f \in Keys, fresh \in BOOLEAN : ServeCached(f, fresh)
    \/ ProcessStray \/ DropStray
    \/ \E c \in Cycles : Renew(c)
    \/ \E i \in Instances : Crash(i)
    \/ \E f \in Keys : Age(f)
    \/ Sweep

SystemSpec == SystemInit /\ [][SystemNext]_systemVars

\* fetch and the database client always come back, with an answer or an error.
FairSystemSpec == SystemSpec /\ \A f \in Keys : WF_systemVars(JobStep(f))

-----------------------------------------------------------------------------
GuardState == [tripped : BOOLEAN,
               tracked : Cycles \cup {NoCycle},
               memCost : Nat,
               floor   : Nat,
               cached  : [cycle : Cycles \cup {NoCycle}, count : Nat]]

JobState == [pc      : {"idle", "account", "sync", "ready", "send", "wait",
                        "settle", "done"},
             at      : Instances \cup {NoInstance},
             snap    : [cycle : Cycles \cup {NoCycle}, count : Nat],
             go      : BOOLEAN,
             sent    : 0 .. MaxAmount,
             request : {"none", "flying", "processed", "rejected"},
             task    : [how  : {"none", "confirm", "charge", "free", "rejected"},
                        conf : 0 .. 1,
                        rel  : 0 .. MaxAmount,
                        next : {"send", "done"}],
             entry   : 0 .. MaxAmount,
             cost    : 0 .. MaxAmount,
             hurt    : BOOLEAN,
             guess   : {"none"} \cup Texts]

\* Types of the whole system.
SystemTypeOK ==
    /\ TypeOK
    /\ guard \in [Instances -> GuardState]
    /\ job \in [Keys -> JobState]
    /\ plan \in Cycles
    /\ past \subseteq Cycles
    /\ billed \in [Cycles -> Nat]
    /\ stray \in Nat

(***************************************************************************)
(* Every request the provider has counted or may still count is charged or *)
(* held in the ledger, whichever replies were lost and whichever instance  *)
(* died: what the guard relies on when it compares usage with the ceiling. *)
(***************************************************************************)
NothingUnaccounted ==
    cycle # NoCycle =>
        billed[plan] + stray + Cardinality({f \in Keys : job[f].request = "flying"})
            <= consumed + Cardinality(Held)

(***************************************************************************)
(* The provider never counts a request beyond the operational ceiling,     *)
(* which is what the reservations are for (the account once was at 260 of  *)
(* 250), even with jobs of several instances and late or stray requests.   *)
(***************************************************************************)
NeverOverCeiling ==
    [][\A c \in Cycles : billed'[c] > billed[c] =>
           billed'[c] <= OperationalCeiling(PlanLimit, MandatoryReserve)]_systemVars

\* The n-th unit of a finished job's row was given up unknowingly: cleanup gave
\* it back after its time to live, whatever the provider had counted for it, or
\* it backed the one request whose error was of no known kind.
GivenUp(f, j, r, old, n) ==
    /\ j.pc = "done"
    /\ r.amount - r.released < n
    /\ n <= r.amount
    /\ \/ f \in old /\ r.status # "RESERVED"
       \/ j.guess = "opaque" /\ n = r.amount - r.released + 1

WrittenOff ==
    {u \in Units : GivenUp(u[1], job[u[1]], rows[u[1]], expired, u[2])}

(***************************************************************************)
(* With cleanup running and with transport errors of any text, all that    *)
(* the ledger can come to miss of the provider's count are those units:    *)
(* one request per wrong guess, and what cleanup took from rows whose jobs *)
(* died or were not heard; every other loss, crash and delay is covered.   *)
(***************************************************************************)
MissesOnlyWrittenOff ==
    cycle # NoCycle =>
        billed[plan] + stray + Cardinality({f \in Keys : job[f].request = "flying"})
            <= consumed + Cardinality(Held) + Cardinality(WrittenOff)

(***************************************************************************)
(* And by no more than those units the provider's count can pass the       *)
(* operational ceiling: cleanup and guesses hand out a unit a second time, *)
(* nothing else does.                                                      *)
(***************************************************************************)
OverrunIsWrittenOff ==
    [][\A c \in Cycles : billed'[c] > billed[c] =>
           billed'[c] <= OperationalCeiling(PlanLimit, MandatoryReserve)
                             + Cardinality(WrittenOff)]_systemVars

(***************************************************************************)
(* The ledger never refuses or replays a settlement a job asks for: after  *)
(* lost replies and failed confirms the amounts the flow computes still    *)
(* fit what its row holds.  The flows ignore the results of these calls.   *)
(***************************************************************************)
SettlementsAccepted ==
    \A f \in Keys : job[f].pc = "settle" => CanSettleTask(f)

(***************************************************************************)
(* A job that ended leaves a unit reserved only if a reply of the database *)
(* got lost or its instance died: no path through the batch loop forgets   *)
(* the requests it did not send.                                           *)
(***************************************************************************)
NoLeakUnlessHurt ==
    \A f \in Keys : job[f].pc = "done" /\ ~ job[f].hurt => rows[f].status # "RESERVED"

(***************************************************************************)
(* When every reply came back, a finished job is charged no less than the  *)
(* provider counted for it, across answers of every kind in the middle of  *)
(* a batch, unless a text of no known kind was taken for an early error;   *)
(* and no more, unless a cache answered or the text left it open.          *)
(***************************************************************************)
ChargedAsCounted ==
    \A f \in Keys : job[f].pc = "done" /\ ~ job[f].hurt =>
        /\ job[f].guess # "opaque" => rows[f].confirmed >= job[f].cost
        /\ f \notin OddsJobs /\ job[f].guess \in {"none", "early"} =>
               rows[f].confirmed = job[f].cost

(***************************************************************************)
(* While the ledger is in the provider's current cycle, it counts at least *)
(* what was confirmed in this cycle: "preventing stale /v4/account         *)
(* snapshots from rolling back confirmed usage within the same cycle".     *)
(***************************************************************************)
ConfirmedUsageKept ==
    cycle = plan => Cardinality({u \in Charged : rows[u[1]].cycle = plan}) <= consumed

(***************************************************************************)
(* The ledger never takes up a cycle in which it has made a reservation:   *)
(* what a sync that refused the keys of earlier cycles would guarantee.    *)
(***************************************************************************)
NoWayBack ==
    [][cycle' # cycle => \A k \in Keys : rows[k].cycle # cycle']_systemVars

(***************************************************************************)
(* Every job that starts ends, with whatever answers and errors it meets.  *)
(***************************************************************************)
JobsEnd == \A f \in Keys : job[f].pc # "idle" ~> job[f].pc = "done"

\* The steps a job may still take before it ends: three for each request it has not
\* sent (send, wait, settle), and what lies before its loop.
StepsLeft(f, j) ==
    LET within == CASE j.pc = "idle"                -> 4
                    [] j.pc = "account"             -> 3
                    [] j.pc \in {"sync", "wait"}    -> 2
                    [] j.pc \in {"ready", "settle"} -> 1
                    [] OTHER                        -> 0
    IN  IF j.pc = "done" THEN 0 ELSE 3 * (Size(f) - j.sent) + within

(***************************************************************************)
(* Nothing that happens to a job sends it back: each of its own steps      *)
(* brings it nearer to its end, and no answer, loss, crash or other job    *)
(* adds a request to its loop, so none asks for the same unit twice.       *)
(***************************************************************************)
JobsAdvance ==
    [][\A f \in Keys :
           /\ StepsLeft(f, job[f])' <= StepsLeft(f, job[f])
           /\ JobStep(f) => StepsLeft(f, job[f])' < StepsLeft(f, job[f])]_systemVars
=============================================================================
