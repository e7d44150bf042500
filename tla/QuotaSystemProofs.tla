-------------------------- MODULE QuotaSystemProofs --------------------------
(***************************************************************************)
(* What holds of the jobs and the ledger together, for any number of       *)
(* instances, jobs and requests: jobs and their rows stay in step through  *)
(* every answer, lost reply, crash, renewal and sweep.                     *)
(***************************************************************************)
EXTENDS QuotaSystem, QuotaLedgerProofs

-----------------------------------------------------------------------------
(* How a job and its row stay in step *)

\* Nothing has been reserved for the job.
Early == {"idle", "account", "sync", "ready"}

\* The job is inside its batch loop.
Batch == {"send", "wait", "settle"}

Placed(j) ==
    /\ j.pc = "idle" => j.at \notin Instances
    /\ j.pc \notin {"idle", "done"} => j.at \in Instances
    /\ j.pc \in {"account", "sync"} => j.snap.cycle \in Cycles
    /\ j.pc = "wait" <=> j.request # "none"

Fresh(j, r) ==
    j.pc \in Early =>
        /\ r.status = "NONE"
        /\ j.sent = 0 /\ j.cost = 0 /\ j.entry = 0
        /\ ~ j.hurt /\ j.guess = "none"

\* The row of a job in its loop has given nothing back, and has confirmed the
\* requests that are over, all of them unless a reply was lost.
InStep(f, j, r) ==
    j.pc \in Batch =>
        LET over == IF j.pc = "send" THEN j.sent ELSE j.sent - 1
        IN  /\ r.status = "RESERVED"
            /\ r.amount = Size(f)
            /\ r.released = 0
            /\ over \in 0 .. Size(f) - 1
            /\ r.confirmed <= over
            /\ ~ j.hurt => r.confirmed = over

\* What a job asks to settle is the request just answered or all that is left.
Asks(f, j) ==
    j.pc = "settle" =>
        LET t == j.task
        IN  /\ t.how # "none"
            /\ t.conf = IF t.how \in {"confirm", "charge"} THEN 1 ELSE 0
            /\ t.next = "send" => t.how = "confirm" /\ t.rel = 0 /\ j.sent < Size(f)
            /\ t.next = "done" => t.conf + t.rel = Size(f) - j.sent + 1

\* The requests whose answer says that they were counted.
Counted(j) ==
    IF j.request \in {"flying", "rejected"} \/ (j.pc = "settle" /\ j.task.conf = 0)
    THEN j.sent - 1 ELSE j.sent

\* Transport errors that leave no doubt whether the request was counted.
Known == {"none", "early"}

Tallied(f, j, r) ==
    /\ j.cost <= j.sent
    /\ j.guess # "none" => \/ j.pc = "done"
                           \/ j.pc = "settle" /\ j.task.next = "done"
    /\ j.pc # "done" =>
           /\ j.guess # "opaque" => j.cost <= Counted(j)
           /\ j.guess \in Known /\ f \notin OddsJobs => j.cost = Counted(j)
    /\ j.pc = "done" /\ ~ j.hurt =>
           /\ j.guess # "opaque" => r.confirmed >= j.cost
           /\ j.guess \in Known /\ f \notin OddsJobs => r.confirmed = j.cost

Over(f, j, r) ==
    /\ f \in expired => j.pc = "done"
    /\ j.pc = "done" /\ ~ j.hurt => r.status # "RESERVED"

JobOK(f, j, r) ==
    /\ Placed(j)
    /\ Fresh(j, r)
    /\ InStep(f, j, r)
    /\ Asks(f, j)
    /\ Tallied(f, j, r)
    /\ Over(f, j, r)

CachedOK(g) == g.cached = NoAccount \/ g.cached.cycle \in Cycles

SystemInv ==
    /\ SystemTypeOK
    /\ StatusTellsSettlement
    /\ CeilingIsCurrent
    /\ \A i \in Instances : CachedOK(guard[i])
    /\ \A f \in Keys : JobOK(f, job[f], rows[f])


-----------------------------------------------------------------------------
(* The first invariant *)

LEMMA SizeType == \A f \in Keys : Size(f) \in 1 .. MaxAmount
  BY SystemAssumption, AmountAssumption DEF Size

LEMMA SystemInvInit == SystemInit => SystemInv
  <1> SUFFICES ASSUME SystemInit PROVE SystemInv
    OBVIOUS
  <1>1. Inv
    BY InvInit DEF SystemInit
  <1>2. ColdGuard \in GuardState /\ CachedOK(ColdGuard)
    BY DEF ColdGuard, GuardState, NoAccount, CachedOK
  <1>3. IdleJob \in JobState
    BY AmountAssumption DEF IdleJob, JobState, NoAccount, NoTask
  <1>4. \A f \in Keys : JobOK(f, IdleJob, NoRow)
    <2> TAKE f \in Keys
    <2> USE DEF IdleJob
    <2>1. Placed(IdleJob)
      BY SystemAssumption DEF Placed
    <2>2. Fresh(IdleJob, NoRow) /\ InStep(f, IdleJob, NoRow) /\ Asks(f, IdleJob)
      BY DEF Fresh, InStep, Asks, Early, Batch, NoRow
    <2>3. Tallied(f, IdleJob, NoRow)
      BY DEF Tallied, Counted
    <2>4. Over(f, IdleJob, NoRow)
      BY DEF Over, SystemInit, LedgerInit
    <2> QED
      BY <2>1, <2>2, <2>3, <2>4 DEF JobOK
  <1>5. billed \in [Cycles -> Nat]
    BY AmountAssumption DEF SystemInit
  <1>6. \A f \in Keys : JobOK(f, job[f], rows[f])
    BY <1>4 DEF SystemInit, LedgerInit
  <1> QED
    BY <1>1, <1>2, <1>3, <1>5, <1>6 DEF SystemInit, SystemInv, SystemTypeOK, Inv

\* A step that moves one job, and at most the row of that job, keeps the
\* invariant if the job it moves stays in step.
LEMMA OneJobMoves ==
  ASSUME SystemInv, Inv', NEW f \in Keys, NEW j \in JobState,
         job' = [job EXCEPT ![f] = j],
         \A g \in Keys \ {f} : rows'[g] = rows[g],
         expired' = expired,
         guard' \in [Instances -> GuardState],
         \A i \in Instances : CachedOK(guard'[i]),
         plan' \in Cycles, past' \subseteq Cycles,
         billed' \in [Cycles -> Nat], stray' \in Nat,
         JobOK(f, j, rows'[f])
  PROVE  SystemInv'
  <1>1. job' \in [Keys -> JobState] /\ job'[f] = j
    BY DEF SystemInv, SystemTypeOK
  <1>2. \A g \in Keys : JobOK(g, job'[g], rows'[g])
    BY <1>1 DEF SystemInv, SystemTypeOK
  <1>3. \A g \in Keys : JobOK(g, job[g], rows[g])'
    BY <1>2 DEF JobOK, Over
  <1>4. SystemTypeOK'
    BY <1>1 DEF SystemTypeOK, Inv
  <1> QED
    BY <1>3, <1>4 DEF SystemInv, Inv

\* A job with nothing reserved that moves on, or ends, with nothing reserved.
LEMMA EarlyStays ==
  ASSUME SystemInv, NEW f \in Keys, job[f].pc \in Early,
         NEW j \in JobState, j.pc \in Early \cup {"done"},
         Placed(j), j.sent = 0, j.cost = 0, j.entry = 0, ~ j.hurt, j.guess = "none"
  PROVE  JobOK(f, j, rows[f])
  <1>1. rows[f] = NoRow
    BY DEF SystemInv, JobOK, Fresh, StatusTellsSettlement, RowConsistent
  <1>2. Fresh(j, rows[f])
    BY <1>1 DEF Fresh, NoRow
  <1>3. InStep(f, j, rows[f]) /\ Asks(f, j)
    BY DEF InStep, Asks, Early, Batch
  <1>4. j.request = "none"
    BY DEF Placed, Early
  <1>5. Tallied(f, j, rows[f])
    BY <1>1, <1>4 DEF Tallied, Counted, NoRow, Early
  <1>6. Over(f, j, rows[f])
    BY <1>1 DEF Over, NoRow, SystemInv, JobOK, Early
  <1> QED
    BY <1>2, <1>3, <1>5, <1>6 DEF JobOK

-----------------------------------------------------------------------------
(* What detectQuotaReset keeps *)

Accounts == [cycle : Cycles \cup {NoCycle}, count : Nat]

LEMMA RaisedType ==
  ASSUME NEW g \in GuardState, NEW a \in Accounts
  PROVE  /\ Raised(g, a) \in Accounts
         /\ Raised(g, a).cycle = a.cycle
         /\ Raised(g, a).count >= a.count
  <1>1. g.memCost \in Nat /\ g.floor \in Nat /\ a.count \in Nat
    BY DEF GuardState, Accounts
  <1>2. Greatest(a.count, g.floor) \in Nat /\ Greatest(a.count, g.floor) >= a.count
    BY <1>1, GreatestType
  <1> QED
    BY <1>1, <1>2 DEF Raised, Accounts

\* Taking a cached account, or an answer of the provider, for the account.
LEMMA GuardWith ==
  ASSUME NEW g \in GuardState, NEW a \in Accounts
  PROVE  [g EXCEPT !.cached = a] \in GuardState
  BY DEF GuardState, Accounts

LEMMA HeardType ==
  ASSUME NEW g \in GuardState, NEW a \in Accounts, a.cycle \in Cycles
  PROVE  /\ Heard(g, a) \in GuardState
         /\ Heard(g, a).cached \in Accounts
         /\ Heard(g, a).cached.cycle = a.cycle
         /\ Heard(g, a).cached.count >= a.count
  <1>1. /\ Raised(g, a) \in Accounts
        /\ Raised(g, a).cycle = a.cycle
        /\ Raised(g, a).count >= a.count
    BY RaisedType
  <1>2. a.count \in Nat
    BY DEF Accounts
  <1> DEFINE r == Raised(g, a)
  <1>3. r \in Accounts /\ r.cycle = a.cycle /\ r.count >= a.count
    BY <1>1
  <1> HIDE DEF r
  <1>4. CASE g.tracked \notin {NoCycle, a.cycle}
    <2>1. Heard(g, a) = [g EXCEPT !.memCost = 0, !.floor = a.count,
                                  !.tracked = a.cycle, !.cached = a]
      BY <1>4 DEF Heard
    <2>2. Heard(g, a).cached = a
      BY <2>1 DEF GuardState
    <2>3. Heard(g, a) = [tripped |-> g.tripped, tracked |-> a.cycle, memCost |-> 0,
                         floor |-> a.count, cached |-> a]
      BY <2>1 DEF GuardState
    <2>4. Heard(g, a) \in GuardState
      BY <1>2, <2>3 DEF GuardState, Accounts
    <2> QED
      BY <1>2, <2>2, <2>4
  <1>5. CASE g.tracked \in {NoCycle, a.cycle}
    <2>1. Heard(g, a) = [g EXCEPT !.tracked = a.cycle, !.cached = r]
      BY <1>5 DEF Heard, r
    <2>2. Heard(g, a).cached = r
      BY <2>1 DEF GuardState
    <2>3. Heard(g, a) \in GuardState
      BY <1>3, <2>1 DEF GuardState, Accounts
    <2> QED
      BY <1>3, <2>2, <2>3
  <1> QED
    BY <1>4, <1>5

LEMMA CachedIsAccount ==
  ASSUME NEW g \in GuardState
  PROVE  g.cached \in Accounts
  BY DEF GuardState, Accounts

\* The record a job is left with by the detection.
LEMMA DetectedJob ==
  ASSUME SystemInv, NEW f \in Keys, NEW i \in Instances, NEW snap \in Accounts,
         NEW go \in BOOLEAN, snap.cycle \in Cycles, job[f].pc \in Early,
         NEW j, j = [job[f] EXCEPT !.pc = "sync", !.at = i, !.snap = snap, !.go = go]
  PROVE  j \in JobState /\ JobOK(f, j, rows[f])
  <1>1. job[f] \in JobState
    BY DEF SystemInv, SystemTypeOK
  <1>2. /\ j.pc = "sync" /\ j.at = i /\ j.snap = snap
        /\ j.sent = job[f].sent /\ j.cost = job[f].cost /\ j.entry = job[f].entry
        /\ j.hurt = job[f].hurt /\ j.guess = job[f].guess
        /\ j.request = job[f].request
    BY <1>1 DEF JobState
  <1>3. j \in JobState
    BY <1>1 DEF JobState, Accounts
  <1>4. Fresh(job[f], rows[f]) /\ Placed(job[f])
    BY DEF SystemInv, JobOK
  <1>5. Placed(j)
    BY <1>2, <1>4 DEF Placed, Early
  <1>6. JobOK(f, j, rows[f])
    BY <1>2, <1>3, <1>4, <1>5, EarlyStays DEF Fresh, Early
  <1> QED
    BY <1>3, <1>6

LEMMA DetectStep ==
  ASSUME SystemInv, NEW f \in Keys, NEW i \in Instances, job[f].pc \in Early,
         NEW g \in GuardState, CachedOK(g),
         NEW a \in Accounts, a.cycle \in Cycles,
         Detect(f, i, g, a), UNCHANGED <<ledgerVars, providerVars>>
  PROVE  SystemInv'
  <1> DEFINE snap == [cycle |-> a.cycle, count |-> Raised(g, a).count]
             go   == PlanLimit - MandatoryReserve - Raised(g, a).count
                        - ActiveReservedCost(i) >= MinCalls
             j    == [job[f] EXCEPT !.pc = "sync", !.at = i, !.snap = snap, !.go = go]
  <1>1. snap \in Accounts /\ snap.cycle \in Cycles
    BY RaisedType DEF Accounts
  <1>2. go \in BOOLEAN
    OBVIOUS
  <1>3. guard' = [guard EXCEPT ![i] = g]
    BY DEF Detect
  <1>4. job' = [job EXCEPT ![f].pc = "sync", ![f].at = i, ![f].snap = snap, ![f].go = go]
    BY DEF Detect
  <1> HIDE DEF snap, go
  <1>5. job' = [job EXCEPT ![f] = j]
    BY <1>4 DEF SystemInv, SystemTypeOK
  <1>6. j \in JobState /\ JobOK(f, j, rows[f])
    BY <1>1, <1>2, DetectedJob
  <1> HIDE DEF j
  <1>7. Inv' /\ rows' = rows /\ expired' = expired
    BY DEF SystemInv, SystemTypeOK, Inv, TypeOK, StatusTellsSettlement, CeilingIsCurrent,
           ledgerVars
  <1>8. guard' \in [Instances -> GuardState] /\ \A k \in Instances : CachedOK(guard'[k])
    BY <1>3 DEF SystemInv, SystemTypeOK
  <1>9. /\ plan' \in Cycles /\ past' \subseteq Cycles
        /\ billed' \in [Cycles -> Nat] /\ stray' \in Nat
    BY DEF providerVars, SystemInv, SystemTypeOK
  <1> QED
    BY <1>5, <1>6, <1>7, <1>8, <1>9, OneJobMoves

\* The parts of the invariant that most steps leave alone.
LEMMA InvHolds ==
  ASSUME SystemInv
  PROVE  Inv
  BY DEF SystemInv, SystemTypeOK, Inv

LEMMA LedgerStays ==
  ASSUME SystemInv, UNCHANGED ledgerVars
  PROVE  Inv' /\ rows' = rows /\ expired' = expired
  BY DEF SystemInv, SystemTypeOK, Inv, TypeOK, StatusTellsSettlement, CeilingIsCurrent,
         ledgerVars

LEMMA ProviderStays ==
  ASSUME SystemInv, UNCHANGED providerVars
  PROVE  /\ plan' \in Cycles /\ past' \subseteq Cycles
         /\ billed' \in [Cycles -> Nat] /\ stray' \in Nat
  BY DEF providerVars, SystemInv, SystemTypeOK

LEMMA GuardStays ==
  ASSUME SystemInv, UNCHANGED guard
  PROVE  guard' \in [Instances -> GuardState] /\ \A i \in Instances : CachedOK(guard'[i])
  BY DEF SystemInv, SystemTypeOK

LEMMA GuardMoves ==
  ASSUME SystemInv, NEW i \in Instances, NEW g \in GuardState, CachedOK(g),
         guard' = [guard EXCEPT ![i] = g]
  PROVE  guard' \in [Instances -> GuardState] /\ \A k \in Instances : CachedOK(guard'[k])
  BY DEF SystemInv, SystemTypeOK

LEMMA UseCachedAccountStep ==
  ASSUME SystemInv, NEW f \in Keys, NEW i \in Instances, UseCachedAccount(f, i)
  PROVE  SystemInv'
  <1> DEFINE a == Raised(guard[i], guard[i].cached)
             g == [guard[i] EXCEPT !.cached = a]
  <1>1. guard[i] \in GuardState /\ guard[i].cached \in Accounts
    BY CachedIsAccount DEF SystemInv, SystemTypeOK
  <1>2. guard[i].cached.cycle \in Cycles
    BY DEF UseCachedAccount, SystemInv, CachedOK
  <1>3. a \in Accounts /\ a.cycle \in Cycles
    BY <1>1, <1>2, RaisedType
  <1>4. Detect(f, i, g, a) /\ UNCHANGED <<ledgerVars, providerVars>>
    BY DEF UseCachedAccount
  <1>5. job[f].pc \in Early
    BY DEF UseCachedAccount, Early
  <1> HIDE DEF a
  <1>6. g \in GuardState /\ CachedOK(g)
    BY <1>1, <1>3, GuardWith DEF GuardState, CachedOK
  <1> QED
    BY <1>3, <1>4, <1>5, <1>6, DetectStep

LEMMA AccountArrivesStep ==
  ASSUME SystemInv, NEW f \in Keys, AccountArrives(f)
  PROVE  SystemInv'
  <1> DEFINE i == job[f].at
             g == Heard(guard[i], job[f].snap)
  <1>1. job[f] \in JobState /\ Placed(job[f]) /\ job[f].pc = "account"
    BY DEF SystemInv, SystemTypeOK, JobOK, AccountArrives
  <1>2. job[f].snap \in Accounts /\ job[f].snap.cycle \in Cycles /\ i \in Instances
    BY <1>1 DEF JobState, Placed, Accounts
  <1>3. guard[i] \in GuardState
    BY <1>2 DEF SystemInv, SystemTypeOK
  <1>4. g \in GuardState /\ g.cached \in Accounts /\ g.cached.cycle \in Cycles
    BY <1>2, <1>3, HeardType
  <1>5. Detect(f, i, g, g.cached) /\ UNCHANGED <<ledgerVars, providerVars>>
    BY DEF AccountArrives
  <1>6. job[f].pc \in Early
    BY <1>1 DEF Early
  <1> HIDE DEF g, i
  <1>7. CachedOK(g)
    BY <1>4 DEF CachedOK
  <1> QED
    BY <1>2, <1>4, <1>5, <1>6, <1>7, DetectStep

\* A job with nothing reserved gives up.
LEMMA EarlyEnd ==
  ASSUME SystemInv, NEW f \in Keys, job[f].pc \in Early, NEW pc,
         pc \in {"ready", "done"}, pc = "ready" => job[f].pc # "idle",
         Inv', rows' = rows, expired' = expired,
         guard' \in [Instances -> GuardState],
         \A i \in Instances : CachedOK(guard'[i]),
         UNCHANGED providerVars,
         job' = [job EXCEPT ![f].pc = pc]
  PROVE  SystemInv'
  <1> DEFINE j == [job[f] EXCEPT !.pc = pc]
  <1>1. job[f] \in JobState /\ Fresh(job[f], rows[f]) /\ Placed(job[f])
    BY DEF SystemInv, SystemTypeOK, JobOK
  <1>2. j \in JobState
    BY <1>1 DEF JobState
  <1>3. /\ j.pc = pc /\ j.at = job[f].at
        /\ j.sent = job[f].sent /\ j.cost = job[f].cost /\ j.entry = job[f].entry
        /\ j.hurt = job[f].hurt /\ j.guess = job[f].guess
        /\ j.request = job[f].request
    BY <1>1 DEF JobState
  <1>4. job' = [job EXCEPT ![f] = j]
    BY DEF SystemInv, SystemTypeOK
  <1> HIDE DEF j
  <1>5. Placed(j)
    BY <1>1, <1>3 DEF Placed, Early
  <1>6. j.pc \in Early \cup {"done"}
    BY <1>3 DEF Early
  <1>7. JobOK(f, j, rows'[f])
    BY <1>1, <1>2, <1>3, <1>5, <1>6, EarlyStays DEF Fresh
  <1> QED
    BY <1>2, <1>4, <1>7, OneJobMoves, ProviderStays

LEMMA AccountFailsStep ==
  ASSUME SystemInv, NEW f \in Keys, NEW rejected \in BOOLEAN, AccountFails(f, rejected)
  PROVE  SystemInv'
  <1> DEFINE i == job[f].at
             t == guard[i].tripped \/ rejected
             g == [guard[i] EXCEPT !.tripped = t]
  <1>1. /\ job[f] \in JobState /\ Placed(job[f]) /\ job[f].pc = "account"
        /\ UNCHANGED <<ledgerVars, providerVars>>
    BY DEF SystemInv, SystemTypeOK, JobOK, AccountFails
  <1>2. i \in Instances /\ job[f].pc \in Early
    BY <1>1 DEF Placed, Early
  <1>3. guard[i] \in GuardState /\ CachedOK(guard[i]) /\ guard[i].cached \in Accounts
    BY <1>2, CachedIsAccount DEF SystemInv, SystemTypeOK
  <1>4. t \in BOOLEAN
    OBVIOUS
  <1>5. IF g.cached # NoAccount
        THEN Detect(f, i, g, g.cached)
        ELSE guard' = [guard EXCEPT ![i] = g] /\ job' = [job EXCEPT ![f].pc = "done"]
    BY DEF AccountFails
  <1> HIDE DEF i, t
  <1>6. g \in GuardState /\ g.cached = guard[i].cached
    BY <1>3, <1>4 DEF GuardState
  <1> HIDE DEF g
  <1>7. CachedOK(g) /\ g.cached \in Accounts
    BY <1>3, <1>6 DEF CachedOK
  <1>8. CASE g.cached # NoAccount
    <2>1. g.cached.cycle \in Cycles
      BY <1>7, <1>8 DEF CachedOK
    <2> QED
      BY <1>1, <1>2, <1>5, <1>6, <1>7, <1>8, <2>1, DetectStep
  <1>9. CASE g.cached = NoAccount
    BY <1>1, <1>2, <1>5, <1>6, <1>7, <1>9, EarlyEnd, GuardMoves, LedgerStays
  <1> QED
    BY <1>8, <1>9

LEMMA AskAccountStep ==
  ASSUME SystemInv, NEW f \in Keys, NEW i \in Instances, AskAccount(f, i)
  PROVE  SystemInv'
  <1> DEFINE snap == [cycle |-> plan, count |-> billed[plan]]
             j    == [job[f] EXCEPT !.pc = "account", !.at = i, !.snap = snap]
  <1>1. job[f] \in JobState /\ Fresh(job[f], rows[f]) /\ Placed(job[f]) /\ job[f].pc = "idle"
    BY DEF SystemInv, SystemTypeOK, JobOK, AskAccount
  <1>2. snap \in Accounts /\ snap.cycle \in Cycles
    BY DEF SystemInv, SystemTypeOK, Accounts
  <1>3. job' = [job EXCEPT ![f].pc = "account", ![f].at = i, ![f].snap = snap]
    BY DEF AskAccount
  <1> HIDE DEF snap
  <1>4. job' = [job EXCEPT ![f] = j]
    BY <1>3 DEF SystemInv, SystemTypeOK
  <1>5. j \in JobState
    BY <1>1, <1>2 DEF JobState, Accounts
  <1>6. /\ j.pc = "account" /\ j.at = i /\ j.snap = snap
        /\ j.sent = job[f].sent /\ j.cost = job[f].cost /\ j.entry = job[f].entry
        /\ j.hurt = job[f].hurt /\ j.guess = job[f].guess
        /\ j.request = job[f].request
    BY <1>1 DEF JobState
  <1> HIDE DEF j
  <1>7. Placed(j)
    BY <1>1, <1>2, <1>6 DEF Placed
  <1>8. JobOK(f, j, rows[f])
    BY <1>1, <1>5, <1>6, <1>7, EarlyStays DEF Fresh, Early
  <1>9. UNCHANGED <<ledgerVars, guard, providerVars>>
    BY DEF AskAccount
  <1> QED
    BY <1>4, <1>5, <1>8, <1>9, OneJobMoves, LedgerStays, GuardStays, ProviderStays

LEMMA FollowUpStep ==
  ASSUME SystemInv, NEW f \in Keys, NEW i \in Instances, FollowUp(f, i)
  PROVE  SystemInv'
  <1> DEFINE j == [job[f] EXCEPT !.pc = "ready", !.at = i, !.go = TRUE]
  <1>1. job[f] \in JobState /\ Fresh(job[f], rows[f]) /\ Placed(job[f]) /\ job[f].pc = "idle"
    BY DEF SystemInv, SystemTypeOK, JobOK, FollowUp
  <1>2. job' = [job EXCEPT ![f] = j]
    BY DEF FollowUp, SystemInv, SystemTypeOK
  <1>3. j \in JobState
    BY <1>1 DEF JobState
  <1>4. /\ j.pc = "ready" /\ j.at = i
        /\ j.sent = job[f].sent /\ j.cost = job[f].cost /\ j.entry = job[f].entry
        /\ j.hurt = job[f].hurt /\ j.guess = job[f].guess
        /\ j.request = job[f].request
    BY <1>1 DEF JobState
  <1> HIDE DEF j
  <1>5. Placed(j)
    BY <1>1, <1>4 DEF Placed
  <1>6. JobOK(f, j, rows[f])
    BY <1>1, <1>3, <1>4, <1>5, EarlyStays DEF Fresh, Early
  <1>7. UNCHANGED <<ledgerVars, guard, providerVars>>
    BY DEF FollowUp
  <1> QED
    BY <1>2, <1>3, <1>6, <1>7, OneJobMoves, LedgerStays, GuardStays, ProviderStays

LEMMA ReserveDeniedStep ==
  ASSUME SystemInv, NEW f \in Keys, ReserveDenied(f)
  PROVE  SystemInv'
  <1>1. /\ job[f].pc = "ready"
        /\ job' = [job EXCEPT ![f].pc = "done"]
        /\ UNCHANGED <<ledgerVars, guard, providerVars>>
    BY DEF ReserveDenied
  <1>2. job[f].pc \in Early
    BY <1>1 DEF Early
  <1> QED
    BY <1>1, <1>2, EarlyEnd, LedgerStays, GuardStays

-----------------------------------------------------------------------------
(* The sync and the reservation *)

\* The sync a job asks for is one of the ledger's.
LEMMA SyncIsAny ==
  ASSUME SystemInv, NEW f \in Keys, job[f].pc = "sync", SyncAsked(f)
  PROVE  AnySync /\ Inv' /\ rows' = rows /\ expired' = expired
  <1>1. job[f] \in JobState /\ Placed(job[f])
    BY DEF SystemInv, SystemTypeOK, JobOK
  <1>2. job[f].snap.cycle \in Cycles /\ job[f].snap.count \in Nat
    BY <1>1 DEF JobState, Placed
  <1>3. PlanLimit \in Limits /\ MandatoryReserve \in Reserves
    BY SystemAssumption
  <1>4. AnySync
    BY <1>2, <1>3 DEF AnySync, SyncAsked
  <1>5. expired' = expired
    BY DEF SyncAsked, Sync, SyncInsert, SyncSameCycle, SyncRollover
  <1> QED
    BY <1>4, <1>5, InvHolds, SyncStep

LEMMA SyncAckedStep ==
  ASSUME SystemInv, NEW f \in Keys, SyncAcked(f)
  PROVE  SystemInv'
  <1> DEFINE i    == job[f].at
             c    == job[f].snap.cycle
             roll == cycle \notin {NoCycle, LegacyCycle, c}
             cost == IF roll THEN 0 ELSE guard[i].memCost
             flr  == IF roll THEN consumed' ELSE Greatest(guard[i].floor, consumed')
             g    == [guard[i] EXCEPT !.tracked = c, !.memCost = cost, !.floor = flr]
             pc   == IF job[f].go THEN "ready" ELSE "done"
  <1>1. job[f] \in JobState /\ Placed(job[f]) /\ job[f].pc = "sync" /\ SyncAsked(f)
    BY DEF SystemInv, SystemTypeOK, JobOK, SyncAcked
  <1>2. i \in Instances /\ c \in Cycles /\ job[f].pc \in Early
    BY <1>1 DEF Placed, Early
  <1>3. guard[i] \in GuardState /\ CachedOK(guard[i])
    BY <1>2 DEF SystemInv, SystemTypeOK
  <1>4. Inv' /\ rows' = rows /\ expired' = expired
    BY <1>1, SyncIsAny
  <1>5. cost \in Nat /\ flr \in Nat
    <2>1. consumed' \in Nat /\ guard[i].memCost \in Nat /\ guard[i].floor \in Nat
      BY <1>3, <1>4 DEF Inv, TypeOK, GuardState
    <2> QED
      BY <2>1, GreatestType
  <1>6. guard' = [guard EXCEPT ![i] = g]
    <2> DEFINE h == [guard[i] EXCEPT !.tracked = c,
                             !.memCost = IF roll THEN 0 ELSE @,
                             !.floor   = IF roll THEN consumed' ELSE Greatest(@, consumed')]
    <2>1. guard' = [guard EXCEPT ![i] = h]
      BY DEF SyncAcked
    <2>2. h = g
      BY <1>3 DEF GuardState
    <2> HIDE DEF g, h
    <2> QED
      BY <2>1, <2>2
  <1> HIDE DEF cost, flr, c
  <1>7. g \in GuardState /\ CachedOK(g)
    BY <1>2, <1>3, <1>5 DEF GuardState, CachedOK
  <1>8. job' = [job EXCEPT ![f].pc = pc] /\ UNCHANGED providerVars
    BY DEF SyncAcked
  <1>9. pc \in {"ready", "done"}
    OBVIOUS
  <1> HIDE DEF g, i, pc
  <1> QED
    BY <1>1, <1>2, <1>4, <1>6, <1>7, <1>8, <1>9, GuardMoves, EarlyEnd

LEMMA SyncUnheardStep ==
  ASSUME SystemInv, NEW f \in Keys, SyncUnheard(f)
  PROVE  SystemInv'
  <1> DEFINE pc == IF job[f].go THEN "ready" ELSE "done"
  <1>1. job[f].pc = "sync" /\ (SyncAsked(f) \/ UNCHANGED ledgerVars)
    BY DEF SyncUnheard
  <1>2. Inv' /\ rows' = rows /\ expired' = expired
    BY <1>1, SyncIsAny, LedgerStays
  <1>3. job' = [job EXCEPT ![f].pc = pc] /\ UNCHANGED <<guard, providerVars>>
    BY DEF SyncUnheard
  <1>4. job[f].pc \in Early /\ pc \in {"ready", "done"}
    BY <1>1 DEF Early
  <1> HIDE DEF pc
  <1> QED
    BY <1>1, <1>2, <1>3, <1>4, GuardStays, EarlyEnd

\* The reservation a job asks for is one of the ledger's.
LEMMA ReserveIsNext ==
  ASSUME SystemInv, NEW f \in Keys, job[f].pc = "ready", ReserveAsked(f)
  PROVE  /\ ReserveNext
         /\ Inv'
         /\ \A g \in Keys \ {f} : rows'[g] = rows[g]
         /\ rows'[f] = [status |-> "RESERVED", amount |-> Size(f), confirmed |-> 0,
                        released |-> 0, cycle |-> cycle', steps |-> {}]
         /\ expired' = expired
  <1> DEFINE c == guard[job[f].at].tracked
  <1>1. job[f].at \in Instances
    BY DEF SystemInv, JobOK, Placed
  <1>2. c \in Cycles \cup {NoCycle}
    <2>1. guard[job[f].at] \in GuardState
      BY <1>1 DEF SystemInv, SystemTypeOK
    <2> QED
      BY <2>1 DEF GuardState
  <1>3. Size(f) \in 1 .. MaxAmount /\ MandatoryReserve \in Reserves
    BY SizeType, SystemAssumption
  <1>4. Reserve(f, Size(f), c, MandatoryReserve)
    BY DEF ReserveAsked
  <1> HIDE DEF c
  <1>5. ReserveNext
    BY <1>2, <1>3, <1>4 DEF ReserveNext
  <1>6. Inv'
    BY <1>2, <1>3, <1>4, InvHolds, ReserveStep
  <1>7. /\ rows' = [rows EXCEPT ![f] = [status |-> "RESERVED", amount |-> Size(f),
                                        confirmed |-> 0, released |-> 0,
                                        cycle |-> cycle', steps |-> {}]]
        /\ expired' = expired
    BY <1>4 DEF Reserve
  <1>8. rows \in [Keys -> Row]
    BY DEF SystemInv, SystemTypeOK, TypeOK
  <1> QED
    BY <1>5, <1>6, <1>7, <1>8

LEMMA ReserveAckedStep ==
  ASSUME SystemInv, NEW f \in Keys, ReserveAcked(f)
  PROVE  SystemInv'
  <1> DEFINE j == [job[f] EXCEPT !.pc = "send", !.entry = Size(f)]
             r == rows'[f]
  <1>1. /\ job[f] \in JobState /\ Placed(job[f]) /\ Fresh(job[f], rows[f])
        /\ Tallied(f, job[f], rows[f]) /\ Over(f, job[f], rows[f])
        /\ job[f].pc = "ready" /\ ReserveAsked(f)
    BY DEF SystemInv, SystemTypeOK, JobOK, ReserveAcked
  <1>2. Size(f) \in 1 .. MaxAmount /\ MaxAmount \in Nat
    BY SizeType, AmountAssumption
  <1>3. job' = [job EXCEPT ![f] = j]
    BY DEF ReserveAcked, SystemInv, SystemTypeOK
  <1>4. j \in JobState
    <2>1. Size(f) \in 0 .. MaxAmount
      BY <1>2
    <2> QED
      BY <1>1, <2>1 DEF JobState
  <1>5. /\ j.pc = "send" /\ j.at = job[f].at /\ j.request = job[f].request
        /\ j.sent = 0 /\ j.cost = 0 /\ ~ j.hurt /\ j.guess = "none"
    BY <1>1 DEF JobState, Fresh, Early
  <1>6. /\ r.status = "RESERVED" /\ r.amount = Size(f) /\ r.released = 0 /\ r.confirmed = 0
    <2>1. r = [status |-> "RESERVED", amount |-> Size(f), confirmed |-> 0,
               released |-> 0, cycle |-> cycle', steps |-> {}]
      BY <1>1, ReserveIsNext
    <2> QED
      BY <2>1
  <1> HIDE DEF j, r
  <1>7. Placed(j) /\ Fresh(j, r) /\ Asks(f, j) /\ Over(f, j, r)
    BY <1>1, <1>5 DEF Placed, Fresh, Early, Asks, Over
  <1>8. InStep(f, j, r)
    BY <1>2, <1>5, <1>6 DEF InStep
  <1>9. Tallied(f, j, r)
    <2>1. j.request = "none"
      BY <1>1, <1>5 DEF Placed
    <2> QED
      BY <1>5, <2>1 DEF Tallied, Counted
  <1>10. JobOK(f, j, rows'[f])
    BY <1>7, <1>8, <1>9 DEF JobOK, r
  <1>11. UNCHANGED <<guard, providerVars>>
    BY DEF ReserveAcked
  <1> QED
    BY <1>1, <1>3, <1>4, <1>10, <1>11, ReserveIsNext, OneJobMoves, GuardStays, ProviderStays

\* A job that ends hurt: nothing more is asked of its row.
LEMMA HurtEnd ==
  ASSUME NEW f \in Keys, NEW j, NEW r, j.pc = "done", j.hurt, j.request = "none",
         j.cost <= j.sent
  PROVE  JobOK(f, j, r)
  BY DEF JobOK, Placed, Fresh, Early, InStep, Batch, Asks, Tallied, Over

LEMMA ReserveUnheardStep ==
  ASSUME SystemInv, NEW f \in Keys, ReserveUnheard(f)
  PROVE  SystemInv'
  <1> DEFINE j == [job[f] EXCEPT !.pc = "done", !.hurt = TRUE]
  <1>1. /\ job[f] \in JobState /\ Placed(job[f]) /\ Tallied(f, job[f], rows[f])
        /\ job[f].pc = "ready" /\ ReserveAsked(f)
    BY DEF SystemInv, SystemTypeOK, JobOK, ReserveUnheard
  <1>2. job' = [job EXCEPT ![f] = j]
    BY DEF ReserveUnheard, SystemInv, SystemTypeOK
  <1>3. j \in JobState
    BY <1>1 DEF JobState
  <1>4. j.pc = "done" /\ j.hurt /\ j.request = "none" /\ j.cost <= j.sent
    BY <1>1 DEF JobState, Placed, Tallied
  <1> HIDE DEF j
  <1>5. JobOK(f, j, rows'[f])
    BY <1>4, HurtEnd
  <1>6. UNCHANGED <<guard, providerVars>>
    BY DEF ReserveUnheard
  <1> QED
    BY <1>1, <1>2, <1>3, <1>5, <1>6, ReserveIsNext, OneJobMoves, GuardStays, ProviderStays

-----------------------------------------------------------------------------
(* The requests *)

\* What the invariant says of a job that waits for an answer.
LEMMA Waiting ==
  ASSUME SystemInv, NEW f \in Keys, job[f].pc = "wait"
  PROVE  /\ job[f] \in JobState
         /\ job[f].at \in Instances
         /\ Size(f) \in 1 .. MaxAmount /\ MaxAmount \in Nat
         /\ job[f].sent \in 1 .. Size(f)
         /\ rows[f].status = "RESERVED"
         /\ rows[f].amount = Size(f)
         /\ rows[f].released = 0
         /\ rows[f].confirmed \in 0 .. job[f].sent - 1
         /\ ~ job[f].hurt => rows[f].confirmed = job[f].sent - 1
         /\ job[f].request \in {"flying", "processed", "rejected"}
         /\ job[f].cost <= Counted(job[f])
         /\ f \notin OddsJobs => job[f].cost = Counted(job[f])
         /\ job[f].guess = "none"
         /\ f \notin expired
  <1>1. /\ job[f] \in JobState /\ rows[f] \in Row
        /\ Placed(job[f]) /\ InStep(f, job[f], rows[f]) /\ Tallied(f, job[f], rows[f])
        /\ Over(f, job[f], rows[f])
    BY DEF SystemInv, SystemTypeOK, TypeOK, JobOK
  <1>2. Size(f) \in 1 .. MaxAmount /\ MaxAmount \in Nat
    BY SizeType, AmountAssumption
  <1>3. /\ rows[f].confirmed \in 0 .. MaxAmount
        /\ job[f].sent \in 0 .. MaxAmount
        /\ job[f].request \in {"none", "flying", "processed", "rejected"}
    BY <1>1 DEF Row, JobState
  <1>4. /\ rows[f].status = "RESERVED"
        /\ rows[f].amount = Size(f)
        /\ rows[f].released = 0
        /\ job[f].sent - 1 \in 0 .. Size(f) - 1
        /\ rows[f].confirmed <= job[f].sent - 1
        /\ ~ job[f].hurt => rows[f].confirmed = job[f].sent - 1
    BY <1>1 DEF InStep, Batch
  <1>5. /\ job[f].cost <= Counted(job[f])
        /\ f \notin OddsJobs => job[f].cost = Counted(job[f])
        /\ job[f].guess = "none"
    BY <1>1 DEF Tallied, Known
  <1> QED
    BY <1>1, <1>2, <1>3, <1>4, <1>5 DEF Placed, Over

\* A job that goes on waiting, its request processed, refused or sent.
LEMMA StillWaiting ==
  ASSUME SystemInv, NEW f \in Keys, NEW j \in JobState, j.pc = "wait",
         j.at \in Instances, j.request # "none",
         f \notin expired,
         rows[f].status = "RESERVED", rows[f].amount = Size(f), rows[f].released = 0,
         j.sent \in 1 .. Size(f), rows[f].confirmed <= j.sent - 1,
         ~ j.hurt => rows[f].confirmed = j.sent - 1,
         j.cost <= Counted(j),
         f \notin OddsJobs => j.cost = Counted(j),
         j.guess = "none"
  PROVE  JobOK(f, j, rows[f])
  <1>1. Placed(j) /\ Fresh(j, rows[f]) /\ Asks(f, j) /\ Over(f, j, rows[f])
    BY DEF Placed, Fresh, Early, Asks, Over
  <1>2. Size(f) \in Nat
    BY SizeType, AmountAssumption
  <1>3. InStep(f, j, rows[f])
    BY <1>2 DEF InStep
  <1>4. Tallied(f, j, rows[f])
    <2>1. Counted(j) <= j.sent
      BY <1>2 DEF Counted
    <2>2. j.cost \in Nat /\ Counted(j) \in Int /\ j.sent \in Nat
      BY <1>2, AmountAssumption DEF Counted, JobState
    <2> QED
      BY <2>1, <2>2 DEF Tallied
  <1> QED
    BY <1>1, <1>3, <1>4 DEF JobOK

LEMMA DispatchStep ==
  ASSUME SystemInv, NEW f \in Keys, Dispatch(f)
  PROVE  SystemInv'
  <1> DEFINE j == [job[f] EXCEPT !.pc = "wait", !.sent = @ + 1, !.request = "flying"]
  <1>1. /\ job[f] \in JobState /\ rows[f] \in Row
        /\ Placed(job[f]) /\ InStep(f, job[f], rows[f]) /\ Tallied(f, job[f], rows[f])
        /\ Over(f, job[f], rows[f]) /\ job[f].pc = "send"
    BY DEF SystemInv, SystemTypeOK, TypeOK, JobOK, Dispatch
  <1>2. Size(f) \in 1 .. MaxAmount /\ MaxAmount \in Nat
    BY SizeType, AmountAssumption
  <1>3. /\ job[f].sent \in 0 .. Size(f) - 1
        /\ rows[f].status = "RESERVED"
        /\ rows[f].amount = Size(f)
        /\ rows[f].released = 0
        /\ rows[f].confirmed <= job[f].sent
        /\ ~ job[f].hurt => rows[f].confirmed = job[f].sent
    BY <1>1 DEF InStep, Batch
  <1>4. job' = [job EXCEPT ![f] = j]
    BY DEF Dispatch, SystemInv, SystemTypeOK
  <1>5. job[f].sent + 1 \in 1 .. Size(f) /\ job[f].sent + 1 \in 0 .. MaxAmount
    BY <1>2, <1>3
  <1>6. j \in JobState
    BY <1>1, <1>5 DEF JobState
  <1>7. /\ j.pc = "wait" /\ j.at = job[f].at /\ j.request = "flying"
        /\ j.sent = job[f].sent + 1 /\ j.cost = job[f].cost
        /\ j.hurt = job[f].hurt /\ j.guess = job[f].guess
    BY <1>1 DEF JobState
  <1> HIDE DEF j
  <1>8. Counted(j) = job[f].sent
    BY <1>3, <1>7 DEF Counted
  <1>9. /\ job[f].cost <= job[f].sent
        /\ f \notin OddsJobs => job[f].cost = job[f].sent
        /\ job[f].guess = "none"
    BY <1>1, <1>3 DEF Tallied, Counted, Placed, Known
  <1>10. j.sent - 1 = job[f].sent
    BY <1>3, <1>7
  <1>11. JobOK(f, j, rows[f])
    <2>1. j.at \in Instances /\ f \notin expired
      BY <1>1, <1>7 DEF Placed, Over
    <2> QED
      BY <1>3, <1>5, <1>6, <1>7, <1>8, <1>9, <1>10, <2>1, StillWaiting
  <1>12. UNCHANGED <<ledgerVars, guard, providerVars>>
    BY DEF Dispatch
  <1> QED
    BY <1>4, <1>6, <1>11, <1>12, OneJobMoves, LedgerStays, GuardStays, ProviderStays

LEMMA FlyingJob ==
  ASSUME SystemInv, NEW f \in Keys, job[f].request = "flying"
  PROVE  job[f].pc = "wait" /\ job[f] \in JobState /\ job[f].cost + 1 \in 0 .. MaxAmount
  <1>1. job[f].pc = "wait" /\ job[f] \in JobState
    BY DEF SystemInv, SystemTypeOK, JobOK, Placed
  <1>2. /\ job[f].cost <= Counted(job[f])
        /\ job[f].sent \in 1 .. Size(f) /\ Size(f) \in 1 .. MaxAmount /\ MaxAmount \in Nat
    BY <1>1, Waiting
  <1>3. Counted(job[f]) = job[f].sent - 1
    BY DEF Counted
  <1>4. job[f].cost \in 0 .. MaxAmount
    BY <1>1 DEF JobState
  <1> QED
    BY <1>1, <1>2, <1>3, <1>4

\* The provider, or a cache, has done something with the request.
LEMMA Answered ==
  ASSUME SystemInv, NEW f \in Keys, job[f].request = "flying",
         NEW j \in JobState, j.pc = "wait", j.at = job[f].at,
         j.sent = job[f].sent, j.hurt = job[f].hurt, j.guess = job[f].guess,
         \/ j.request = "processed" /\ j.cost = job[f].cost + 1
         \/ j.request = "processed" /\ j.cost = job[f].cost /\ f \in OddsJobs
         \/ j.request = "rejected" /\ j.cost = job[f].cost
  PROVE  JobOK(f, j, rows[f])
  <1>1. job[f].pc = "wait" /\ job[f] \in JobState
    BY FlyingJob
  <1>2. /\ job[f].at \in Instances
        /\ Size(f) \in 1 .. MaxAmount /\ MaxAmount \in Nat
        /\ job[f].sent \in 1 .. Size(f)
        /\ rows[f].status = "RESERVED"
        /\ rows[f].amount = Size(f)
        /\ rows[f].released = 0
        /\ rows[f].confirmed \in 0 .. job[f].sent - 1
        /\ ~ job[f].hurt => rows[f].confirmed = job[f].sent - 1
        /\ job[f].cost <= Counted(job[f])
        /\ f \notin OddsJobs => job[f].cost = Counted(job[f])
        /\ job[f].guess = "none"
        /\ f \notin expired
    BY <1>1, Waiting
  <1>3. Counted(job[f]) = job[f].sent - 1
    BY DEF Counted
  <1>4. job[f].cost \in Nat /\ job[f].sent \in Nat
    BY <1>1, AmountAssumption DEF JobState
  <1>5. /\ j.cost <= Counted(j)
        /\ f \notin OddsJobs => j.cost = Counted(j)
        /\ j.guess = "none"
    BY <1>2, <1>3, <1>4 DEF Counted
  <1>6. rows[f].confirmed <= j.sent - 1 /\ j.request # "none"
    BY <1>2, <1>4, AmountAssumption
  <1> QED
    BY <1>2, <1>5, <1>6, StillWaiting

LEMMA ProcessStep ==
  ASSUME SystemInv, NEW f \in Keys, Process(f)
  PROVE  SystemInv'
  <1> DEFINE j == [job[f] EXCEPT !.request = "processed", !.cost = @ + 1]
  <1>1. job[f].request = "flying"
    BY DEF Process
  <1>2. job[f].pc = "wait" /\ job[f] \in JobState /\ job[f].cost + 1 \in 0 .. MaxAmount
    BY <1>1, FlyingJob
  <1>3. job' = [job EXCEPT ![f] = j]
    BY DEF Process, SystemInv, SystemTypeOK
  <1>4. j \in JobState
    BY <1>2 DEF JobState
  <1>5. /\ j.pc = "wait" /\ j.at = job[f].at /\ j.sent = job[f].sent
        /\ j.hurt = job[f].hurt /\ j.guess = job[f].guess
        /\ j.request = "processed" /\ j.cost = job[f].cost + 1
    BY <1>2 DEF JobState
  <1> HIDE DEF j
  <1>6. JobOK(f, j, rows[f])
    BY <1>1, <1>4, <1>5, Answered
  <1>7. UNCHANGED <<ledgerVars, guard>>
    BY DEF Process
  <1>8. /\ plan' \in Cycles /\ past' \subseteq Cycles
        /\ billed' \in [Cycles -> Nat] /\ stray' \in Nat
    BY DEF Process, SystemInv, SystemTypeOK
  <1> QED
    BY <1>3, <1>4, <1>6, <1>7, <1>8, OneJobMoves, LedgerStays, GuardStays

LEMMA RejectStep ==
  ASSUME SystemInv, NEW f \in Keys, Reject(f)
  PROVE  SystemInv'
  <1> DEFINE j == [job[f] EXCEPT !.request = "rejected"]
  <1>1. job[f].request = "flying"
    BY DEF Reject
  <1>2. job[f].pc = "wait" /\ job[f] \in JobState
    BY <1>1, FlyingJob
  <1>3. job' = [job EXCEPT ![f] = j]
    BY DEF Reject, SystemInv, SystemTypeOK
  <1>4. j \in JobState
    BY <1>2 DEF JobState
  <1>5. /\ j.pc = "wait" /\ j.at = job[f].at /\ j.sent = job[f].sent
        /\ j.hurt = job[f].hurt /\ j.guess = job[f].guess
        /\ j.request = "rejected" /\ j.cost = job[f].cost
    BY <1>2 DEF JobState
  <1> HIDE DEF j
  <1>6. JobOK(f, j, rows[f])
    BY <1>1, <1>4, <1>5, Answered
  <1>7. UNCHANGED <<ledgerVars, guard, providerVars>>
    BY DEF Reject
  <1> QED
    BY <1>3, <1>4, <1>6, <1>7, OneJobMoves, LedgerStays, GuardStays, ProviderStays

LEMMA ServeCachedStep ==
  ASSUME SystemInv, NEW f \in Keys, NEW fresh \in BOOLEAN, ServeCached(f, fresh)
  PROVE  SystemInv'
  <1> DEFINE j == [job[f] EXCEPT !.request = "processed"]
  <1>1. job[f].request = "flying" /\ f \in OddsJobs
    BY DEF ServeCached
  <1>2. job[f].pc = "wait" /\ job[f] \in JobState
    BY <1>1, FlyingJob
  <1>3. job' = [job EXCEPT ![f] = j]
    BY DEF ServeCached, SystemInv, SystemTypeOK
  <1>4. j \in JobState
    BY <1>2 DEF JobState
  <1>5. /\ j.pc = "wait" /\ j.at = job[f].at /\ j.sent = job[f].sent
        /\ j.hurt = job[f].hurt /\ j.guess = job[f].guess
        /\ j.request = "processed" /\ j.cost = job[f].cost
    BY <1>2 DEF JobState
  <1> HIDE DEF j
  <1>6. JobOK(f, j, rows[f])
    BY <1>1, <1>4, <1>5, Answered
  <1>7. UNCHANGED <<ledgerVars, guard>>
    BY DEF ServeCached
  <1>8. /\ plan' \in Cycles /\ past' \subseteq Cycles
        /\ billed' \in [Cycles -> Nat] /\ stray' \in Nat
    BY DEF ServeCached, SystemInv, SystemTypeOK
  <1> QED
    BY <1>3, <1>4, <1>6, <1>7, <1>8, OneJobMoves, LedgerStays, GuardStays

-----------------------------------------------------------------------------
(* The settlements *)

\* A job that has its answer, or its error, asks for what its row still holds.
LEMMA NowAsking ==
  ASSUME SystemInv, NEW f \in Keys, job[f].pc = "wait",
         NEW j \in JobState, j.pc = "settle", j.request = "none", j.at = job[f].at,
         j.sent = job[f].sent, j.cost = job[f].cost, j.hurt = job[f].hurt,
         j.task.how # "none",
         j.task.conf = IF j.task.how \in {"confirm", "charge"} THEN 1 ELSE 0,
         j.task.next = "send" =>
             j.task.how = "confirm" /\ j.task.rel = 0 /\ j.sent < Size(f),
         j.task.next = "done" => j.task.conf + j.task.rel = Size(f) - j.sent + 1,
         j.guess # "none" => j.task.next = "done",
         \/ j.guess = "opaque"
         \/ j.guess = "early" /\ j.task.conf = 0 /\ job[f].request = "flying"
         \/ j.guess = "ambiguous" /\ j.task.conf = 1
         \/ j.guess = "none" /\ job[f].request = "processed" /\ j.task.conf = 1
         \/ j.guess = "none" /\ job[f].request = "rejected" /\ j.task.conf = 0
  PROVE  JobOK(f, j, rows[f])
  <1>1. /\ job[f].at \in Instances
        /\ Size(f) \in 1 .. MaxAmount /\ MaxAmount \in Nat
        /\ job[f].sent \in 1 .. Size(f)
        /\ rows[f].status = "RESERVED"
        /\ rows[f].amount = Size(f)
        /\ rows[f].released = 0
        /\ rows[f].confirmed \in 0 .. job[f].sent - 1
        /\ ~ job[f].hurt => rows[f].confirmed = job[f].sent - 1
        /\ job[f].cost <= Counted(job[f])
        /\ f \notin OddsJobs => job[f].cost = Counted(job[f])
        /\ job[f].guess = "none"
        /\ f \notin expired
    BY Waiting
  <1>2. Placed(j) /\ Fresh(j, rows[f]) /\ Over(f, j, rows[f])
    BY <1>1 DEF Placed, Fresh, Early, Over
  <1>3. InStep(f, j, rows[f])
    BY <1>1 DEF InStep
  <1>4. Asks(f, j)
    BY DEF Asks
  <1>5. Tallied(f, j, rows[f])
    <2>1. Counted(job[f]) \in {job[f].sent - 1, job[f].sent}
      BY DEF Counted
    <2>2. job[f].cost \in Nat /\ job[f].sent \in Nat /\ j.cost \in Nat /\ j.sent \in Nat
      BY AmountAssumption, <1>1 DEF JobState
    <2>3. j.cost <= j.sent
      BY <1>1, <2>1, <2>2
    <2>4. Counted(j) = j.sent - 1 + j.task.conf
      BY <2>2 DEF Counted
    <2>5. Counted(job[f]) = IF job[f].request = "processed" THEN job[f].sent
                            ELSE job[f].sent - 1
      BY <1>1, Waiting DEF Counted
    <2>6. j.guess # "opaque" => j.cost <= Counted(j)
      BY <1>1, <2>2, <2>4, <2>5
    <2>7. j.guess \in Known /\ f \notin OddsJobs => j.cost = Counted(j)
      BY <1>1, <2>2, <2>4, <2>5 DEF Known
    <2> QED
      BY <2>3, <2>6, <2>7 DEF Tallied
  <1> QED
    BY <1>2, <1>3, <1>4, <1>5 DEF JobOK

LEMMA SettlingJob ==
  ASSUME NEW f \in Keys, job[f] \in JobState,
         NEW how \in {"confirm", "charge", "free", "rejected"}, NEW conf \in 0 .. 1,
         NEW rel \in 0 .. MaxAmount, NEW next \in {"send", "done"},
         NEW j, j = Settling(f, how, conf, rel, next)
  PROVE  /\ j \in JobState
         /\ j.pc = "settle" /\ j.request = "none" /\ j.at = job[f].at
         /\ j.sent = job[f].sent /\ j.cost = job[f].cost /\ j.hurt = job[f].hurt
         /\ j.guess = job[f].guess
         /\ j.task.how = how /\ j.task.conf = conf /\ j.task.rel = rel
         /\ j.task.next = next
  <1> DEFINE t == [how |-> how, conf |-> conf, rel |-> rel, next |-> next]
  <1>1. t \in [how  : {"none", "confirm", "charge", "free", "rejected"},
               conf : 0 .. 1, rel : 0 .. MaxAmount, next : {"send", "done"}]
    OBVIOUS
  <1>2. t.how = how /\ t.conf = conf /\ t.rel = rel /\ t.next = next
    OBVIOUS
  <1>3. j = [job[f] EXCEPT !.pc = "settle", !.request = "none", !.task = t]
    BY DEF Settling
  <1> HIDE DEF t
  <1>4. j \in JobState
    BY <1>1, <1>3 DEF JobState
  <1>5. /\ j.pc = "settle" /\ j.request = "none" /\ j.at = job[f].at
        /\ j.sent = job[f].sent /\ j.cost = job[f].cost /\ j.hurt = job[f].hurt
        /\ j.guess = job[f].guess /\ j.task = t
    BY <1>3 DEF JobState
  <1> QED
    BY <1>2, <1>4, <1>5

LEMMA ReplyStep ==
  ASSUME SystemInv, NEW f \in Keys, Reply(f)
  PROVE  SystemInv'
  <1> DEFINE next == IF job[f].sent < Size(f) THEN "send" ELSE "done"
             j    == Settling(f, "confirm", 1, 0, next)
  <1>1. /\ job[f].pc = "wait" /\ job[f].request = "processed"
        /\ job' = [job EXCEPT ![f] = j]
    BY DEF Reply
  <1>2. /\ job[f] \in JobState /\ Size(f) \in 1 .. MaxAmount /\ MaxAmount \in Nat
        /\ job[f].sent \in 1 .. Size(f) /\ job[f].guess = "none"
    BY <1>1, Waiting
  <1>3. /\ next \in {"send", "done"}
        /\ next = "send" => job[f].sent < Size(f)
        /\ next = "done" => 1 + 0 = Size(f) - job[f].sent + 1
    BY <1>2
  <1>4. 0 \in 0 .. MaxAmount /\ 1 \in 0 .. 1
    BY <1>2
  <1> HIDE DEF next
  <1>5. /\ j \in JobState
        /\ j.pc = "settle" /\ j.request = "none" /\ j.at = job[f].at
        /\ j.sent = job[f].sent /\ j.cost = job[f].cost /\ j.hurt = job[f].hurt
        /\ j.guess = job[f].guess
        /\ j.task.how = "confirm" /\ j.task.conf = 1 /\ j.task.rel = 0
        /\ j.task.next = next
    BY <1>2, <1>3, <1>4, SettlingJob
  <1> HIDE DEF j
  <1>6. JobOK(f, j, rows[f])
    BY <1>1, <1>2, <1>3, <1>5, NowAsking
  <1>7. UNCHANGED <<ledgerVars, guard, providerVars>>
    BY DEF Reply
  <1> QED
    BY <1>1, <1>5, <1>6, <1>7, OneJobMoves, LedgerStays, GuardStays, ProviderStays

LEMMA RejectionStep ==
  ASSUME SystemInv, NEW f \in Keys, Rejection(f)
  PROVE  SystemInv'
  <1> DEFINE rel == Remaining(f)
             j   == Settling(f, "rejected", 0, rel, "done")
  <1>1. /\ job[f].pc = "wait" /\ job[f].request = "rejected"
        /\ job' = [job EXCEPT ![f] = j]
    BY DEF Rejection
  <1>2. /\ job[f] \in JobState /\ Size(f) \in 1 .. MaxAmount /\ MaxAmount \in Nat
        /\ job[f].sent \in 1 .. Size(f) /\ job[f].guess = "none"
    BY <1>1, Waiting
  <1>3. rel \in 0 .. MaxAmount /\ 0 + rel = Size(f) - job[f].sent + 1 /\ 0 \in 0 .. 1
    BY <1>2 DEF Remaining
  <1> HIDE DEF rel
  <1>4. /\ j \in JobState
        /\ j.pc = "settle" /\ j.request = "none" /\ j.at = job[f].at
        /\ j.sent = job[f].sent /\ j.cost = job[f].cost /\ j.hurt = job[f].hurt
        /\ j.guess = job[f].guess
        /\ j.task.how = "rejected" /\ j.task.conf = 0 /\ j.task.rel = rel
        /\ j.task.next = "done"
    BY <1>2, <1>3, SettlingJob
  <1> HIDE DEF j
  <1>5. JobOK(f, j, rows[f])
    BY <1>1, <1>2, <1>3, <1>4, NowAsking
  <1>6. UNCHANGED <<ledgerVars, guard, providerVars>>
    BY DEF Rejection
  <1> QED
    BY <1>1, <1>4, <1>5, <1>6, OneJobMoves, LedgerStays, GuardStays, ProviderStays

LEMMA BrokenStep ==
  ASSUME SystemInv, NEW f \in Keys, NEW text \in Texts, Broken(f, text)
  PROVE  SystemInv'
  <1> DEFINE how  == IF text # "ambiguous" THEN "free"
                     ELSE IF f \in OddsJobs THEN "charge" ELSE "confirm"
             conf == IF text = "ambiguous" THEN 1 ELSE 0
             rel  == Remaining(f) - conf
             s    == Settling(f, how, conf, rel, "done")
             j    == [s EXCEPT !.guess = text]
  <1>1. job[f].pc = "wait" /\ job' = [job EXCEPT ![f] = j]
    BY DEF Broken
  <1>2. /\ job[f] \in JobState /\ Size(f) \in 1 .. MaxAmount /\ MaxAmount \in Nat
        /\ job[f].sent \in 1 .. Size(f)
    BY <1>1, Waiting
  <1>3. /\ how \in {"confirm", "charge", "free", "rejected"}
        /\ conf \in 0 .. 1
        /\ conf = IF how \in {"confirm", "charge"} THEN 1 ELSE 0
    OBVIOUS
  <1>4. rel \in 0 .. MaxAmount /\ conf + rel = Size(f) - job[f].sent + 1
    BY <1>2 DEF Remaining
  <1> HIDE DEF how, conf, rel
  <1>5. /\ s \in JobState
        /\ s.pc = "settle" /\ s.request = "none" /\ s.at = job[f].at
        /\ s.sent = job[f].sent /\ s.cost = job[f].cost /\ s.hurt = job[f].hurt
        /\ s.task.how = how /\ s.task.conf = conf /\ s.task.rel = rel
        /\ s.task.next = "done"
    BY <1>2, <1>3, <1>4, SettlingJob
  <1> HIDE DEF s
  <1>6. /\ j \in JobState
        /\ j.pc = "settle" /\ j.request = "none" /\ j.at = job[f].at
        /\ j.sent = job[f].sent /\ j.cost = job[f].cost /\ j.hurt = job[f].hurt
        /\ j.guess = text /\ j.task = s.task
    BY <1>5 DEF JobState
  <1> HIDE DEF j
  <1>7. how # "none"
    BY <1>3
  <1>8. JobOK(f, j, rows[f])
    <2>1. \/ text = "opaque"
          \/ text = "early" /\ conf = 0 /\ job[f].request = "flying"
          \/ text = "ambiguous" /\ conf = 1
      BY SystemAssumption DEF Broken, conf
    <2> QED
      BY <1>1, <1>3, <1>4, <1>5, <1>6, <1>7, <2>1, NowAsking
  <1>9. UNCHANGED <<ledgerVars, guard>>
    BY DEF Broken
  <1>10. /\ plan' \in Cycles /\ past' \subseteq Cycles
         /\ billed' \in [Cycles -> Nat] /\ stray' \in Nat
    BY DEF Broken, SystemInv, SystemTypeOK
  <1> QED
    BY <1>1, <1>6, <1>8, <1>9, <1>10, OneJobMoves, LedgerStays, GuardStays

\* What the invariant says of a job that asks for a settlement.
LEMMA Asking ==
  ASSUME SystemInv, NEW f \in Keys, job[f].pc = "settle"
  PROVE  /\ job[f] \in JobState
         /\ job[f].at \in Instances
         /\ job[f].request = "none"
         /\ Size(f) \in 1 .. MaxAmount /\ MaxAmount \in Nat
         /\ job[f].sent \in 1 .. Size(f)
         /\ rows[f] \in Row
         /\ rows[f].status = "RESERVED"
         /\ rows[f].amount = Size(f)
         /\ rows[f].released = 0
         /\ rows[f].confirmed \in 0 .. job[f].sent - 1
         /\ ~ job[f].hurt => rows[f].confirmed = job[f].sent - 1
         /\ job[f].task.how \in {"confirm", "charge", "free", "rejected"}
         /\ job[f].task.conf = IF job[f].task.how \in {"confirm", "charge"} THEN 1 ELSE 0
         /\ job[f].task.rel \in 0 .. MaxAmount
         /\ job[f].task.next \in {"send", "done"}
         /\ job[f].task.next = "send" =>
               job[f].task.how = "confirm" /\ job[f].task.rel = 0 /\ job[f].sent < Size(f)
         /\ job[f].task.next = "done" =>
               job[f].task.conf + job[f].task.rel = Size(f) - job[f].sent + 1
         /\ Tallied(f, job[f], rows[f])
         /\ f \notin expired
  <1>1. /\ job[f] \in JobState /\ rows[f] \in Row
        /\ Placed(job[f]) /\ InStep(f, job[f], rows[f]) /\ Tallied(f, job[f], rows[f])
        /\ Asks(f, job[f]) /\ Over(f, job[f], rows[f])
    BY DEF SystemInv, SystemTypeOK, TypeOK, JobOK
  <1>2. Size(f) \in 1 .. MaxAmount /\ MaxAmount \in Nat
    BY SizeType, AmountAssumption
  <1>3. rows[f].confirmed \in 0 .. MaxAmount
    BY <1>1 DEF Row
  <1>4. /\ job[f].sent \in 0 .. MaxAmount
        /\ job[f].task.how \in {"none", "confirm", "charge", "free", "rejected"}
        /\ job[f].task.rel \in 0 .. MaxAmount
        /\ job[f].task.next \in {"send", "done"}
    BY <1>1 DEF JobState
  <1>5. /\ rows[f].status = "RESERVED"
        /\ rows[f].amount = Size(f)
        /\ rows[f].released = 0
        /\ job[f].sent - 1 \in 0 .. Size(f) - 1
        /\ rows[f].confirmed <= job[f].sent - 1
        /\ ~ job[f].hurt => rows[f].confirmed = job[f].sent - 1
    BY <1>1 DEF InStep, Batch
  <1>6. /\ job[f].task.how # "none"
        /\ job[f].task.conf = IF job[f].task.how \in {"confirm", "charge"} THEN 1 ELSE 0
        /\ job[f].task.next = "send" =>
              job[f].task.how = "confirm" /\ job[f].task.rel = 0 /\ job[f].sent < Size(f)
        /\ job[f].task.next = "done" =>
              job[f].task.conf + job[f].task.rel = Size(f) - job[f].sent + 1
    BY <1>1 DEF Asks
  <1> QED
    BY <1>1, <1>2, <1>3, <1>4, <1>5, <1>6 DEF Placed, Over

\* Whatever was lost before, what a job asks for is no more than its row holds.
LEMMA Acceptable ==
  ASSUME SystemInv, NEW f \in Keys, job[f].pc = "settle"
  PROVE  CanSettleTask(f)
  <1> DEFINE conf == job[f].task.conf
             rel  == job[f].task.rel
  <1>1. /\ conf \in 0 .. 1 /\ rel \in Nat
        /\ conf + rel > 0
        /\ conf + rel <= Size(f) - (job[f].sent - 1)
    BY Asking
  <1>2. Size(f) - (job[f].sent - 1) <= Unsettled(rows[f])
    BY Asking DEF Unsettled
  <1>3. NoStep \notin rows[f].steps
    <2>1. rows[f].steps \subseteq StepKeys
      BY Asking DEF Row
    <2> QED
      BY <2>1, StepAssumption
  <1>4. Unsettled(rows[f]) \in Int
    BY Asking DEF Unsettled
  <1>5. rows[f].status = "RESERVED" /\ Size(f) - (job[f].sent - 1) \in Int
    BY Asking
  <1>6. conf + rel <= Unsettled(rows[f])
    BY <1>1, <1>2, <1>4, <1>5
  <1> QED
    BY <1>1, <1>3, <1>5, <1>6 DEF CanSettleTask, CanSettle

\* The settlement a job asks for is one of the ledger's.
LEMMA SettleIsNext ==
  ASSUME SystemInv, NEW f \in Keys, job[f].pc = "settle", SettleAsked(f)
  PROVE  /\ ConfirmNext \/ ReleaseNext
         /\ Inv'
         /\ rows' = [rows EXCEPT ![f] =
                        Settled(rows[f], job[f].task.conf, job[f].task.rel, NoStep)]
         /\ consumed' = consumed + job[f].task.conf
         /\ UNCHANGED <<stateVars, expired>>
  <1> DEFINE conf == job[f].task.conf
             rel  == job[f].task.rel
  <1>1. /\ job[f].task.how \in {"confirm", "charge"} => conf = 1
        /\ job[f].task.how \notin {"confirm", "charge"} => conf = 0
        /\ rel \in 0 .. MaxAmount /\ MaxAmount \in Nat /\ 1 \in 0 .. MaxAmount
        /\ 0 \in 0 .. MaxAmount
    BY Asking
  <1>2. NoStep \in Labels
    BY DEF Labels
  <1>3. CASE job[f].task.how \in {"confirm", "charge"} /\ Confirm(f, conf, rel, NoStep)
    <2>1. ConfirmNext
      BY <1>1, <1>2, <1>3 DEF ConfirmNext
    <2>2. Inv'
      <3>1. conf \in Nat /\ rel \in Nat /\ Confirm(f, conf, rel, NoStep)
        BY <1>1, <1>3
      <3> HIDE DEF conf, rel
      <3> QED
        BY <1>2, <3>1, InvHolds, ConfirmStep
    <2> QED
      BY <1>3, <2>1, <2>2 DEF Confirm
  <1>4. CASE job[f].task.how \in {"free", "rejected"} /\ FreeRelease(f, rel, NoStep)
    <2>1. conf = 0
      BY <1>1, <1>4
    <2>2. rel \in 1 .. MaxAmount
      BY <1>1, <1>4 DEF FreeRelease, CanSettle
    <2>3. Release(f, rel, FALSE, NoStep)
      BY <1>4 DEF Release
    <2>4. ReleaseNext
      BY <1>2, <2>2, <2>3 DEF ReleaseNext
    <2>5. Inv'
      BY <1>1, <1>2, <1>4, InvHolds, FreeReleaseStep
    <2>6. consumed \in Nat
      BY DEF SystemInv, SystemTypeOK, TypeOK
    <2>7. consumed' = consumed + 0
      BY <1>4, <2>6 DEF FreeRelease
    <2> QED
      BY <1>4, <2>1, <2>4, <2>5, <2>7 DEF FreeRelease
  <1> QED
    BY <1>3, <1>4 DEF SettleAsked

\* The row after the settlement a job asked for.
LEMMA RowAfter ==
  ASSUME SystemInv, NEW f \in Keys, job[f].pc = "settle",
         NEW r, r = Settled(rows[f], job[f].task.conf, job[f].task.rel, NoStep)
  PROVE  /\ r.confirmed = rows[f].confirmed + job[f].task.conf
         /\ r.released = job[f].task.rel
         /\ r.amount = Size(f)
         /\ job[f].task.next = "send" => r.status = "RESERVED"
         /\ job[f].task.next = "done" /\ ~ job[f].hurt => r.status # "RESERVED"
  <1> DEFINE conf == job[f].task.conf
             rel  == job[f].task.rel
             cf   == rows[f].confirmed + conf
             rl   == rows[f].released + rel
  <1>1. /\ r.confirmed = cf /\ r.released = rl /\ r.amount = rows[f].amount
        /\ cf + rl # rows[f].amount => r.status = "RESERVED"
        /\ cf + rl = rows[f].amount => r.status # "RESERVED"
    BY DEF Settled
  <1>2. rl = rel
    BY Asking
  <1>3. job[f].task.next = "send" => cf + rl # rows[f].amount
    BY Asking
  <1>4. job[f].task.next = "done" /\ ~ job[f].hurt => cf + rl = rows[f].amount
    BY Asking
  <1> QED
    BY <1>1, <1>2, <1>3, <1>4, Asking

\* A job whose settlement was carried out, or whose reply was lost, stays in step.
LEMMA AfterSettling ==
  ASSUME SystemInv, NEW f \in Keys, job[f].pc = "settle",
         NEW j \in JobState, j.pc = job[f].task.next, j.at = job[f].at,
         j.request = "none", j.sent = job[f].sent, j.cost = job[f].cost,
         j.guess = job[f].guess, job[f].hurt => j.hurt,
         NEW r, \/ r = Settled(rows[f], job[f].task.conf, job[f].task.rel, NoStep)
                \/ r = rows[f] /\ j.hurt
  PROVE  JobOK(f, j, r)
  <1> DEFINE t == Settled(rows[f], job[f].task.conf, job[f].task.rel, NoStep)
  <1>1. /\ t.confirmed = rows[f].confirmed + job[f].task.conf
        /\ t.released = job[f].task.rel
        /\ t.amount = Size(f)
        /\ job[f].task.next = "send" => t.status = "RESERVED"
        /\ job[f].task.next = "done" /\ ~ job[f].hurt => t.status # "RESERVED"
    BY RowAfter
  <1>2. r = t \/ (r = rows[f] /\ j.hurt)
    OBVIOUS
  <1> HIDE DEF t
  <1>3. j.pc \in {"send", "done"}
    BY Asking
  <1>4. Placed(j) /\ Fresh(j, r) /\ Asks(f, j)
    BY <1>3, Asking DEF Placed, Fresh, Early, Asks
  <1>5. j.cost <= j.sent /\ j.cost \in Nat
    BY Asking DEF Tallied, JobState
  <1>6. CASE j.pc = "send"
    <2>1. /\ job[f].task.how = "confirm" /\ job[f].task.conf = 1 /\ job[f].task.rel = 0
          /\ job[f].sent \in 1 .. Size(f) - 1 /\ Size(f) \in Nat
      <3>1. job[f].task.next = "send"
        BY <1>6
      <3>2. /\ job[f].task.how = "confirm" /\ job[f].task.rel = 0
            /\ job[f].sent < Size(f) /\ job[f].sent \in 1 .. Size(f)
            /\ Size(f) \in 1 .. MaxAmount /\ MaxAmount \in Nat
        BY <3>1, Asking
      <3>3. job[f].task.conf = 1
        BY <3>2, Asking
      <3> QED
        BY <3>2, <3>3
    <2>2. /\ r.status = "RESERVED" /\ r.amount = Size(f) /\ r.released = 0
          /\ r.confirmed <= j.sent
          /\ ~ j.hurt => r.confirmed = j.sent
      BY <1>1, <1>2, <1>6, <2>1, Asking
    <2>3. InStep(f, j, r)
      BY <1>6, <2>1, <2>2 DEF InStep
    <2>4. Over(f, j, r)
      BY <1>6, Asking DEF Over
    <2>5. Counted(j) = j.sent /\ Counted(job[f]) = job[f].sent
      BY <1>6, <2>1, Asking DEF Counted
    <2>6. Tallied(f, j, r)
      <3>1. Tallied(f, job[f], rows[f])
        BY Asking
      <3> QED
        BY <1>5, <1>6, <2>5, <3>1 DEF Tallied
    <2> QED
      BY <1>4, <2>3, <2>4, <2>6 DEF JobOK
  <1>7. CASE j.pc = "done"
    <2>1. InStep(f, j, r)
      BY <1>7 DEF InStep, Batch
    <2>2. Over(f, j, r)
      BY <1>1, <1>2, <1>7 DEF Over
    <2>3. Tallied(f, j, r)
      <3>1. ASSUME ~ j.hurt
            PROVE  /\ j.guess # "opaque" => r.confirmed >= j.cost
                   /\ j.guess \in Known /\ f \notin OddsJobs => r.confirmed = j.cost
        <4>1. r.confirmed = job[f].sent - 1 + job[f].task.conf
          BY <1>1, <1>2, <3>1, Asking
        <4>2. Counted(job[f]) = job[f].sent - 1 + job[f].task.conf
          BY Asking DEF Counted
        <4>3. Tallied(f, job[f], rows[f])
          BY Asking
        <4>4. /\ j.guess # "opaque" => job[f].cost <= Counted(job[f])
              /\ j.guess \in Known /\ f \notin OddsJobs => job[f].cost = Counted(job[f])
          BY <3>1, <4>3 DEF Tallied
        <4>5. Counted(job[f]) \in Int
          BY <4>2, Asking
        <4> QED
          BY <1>5, <4>1, <4>2, <4>4, <4>5
      <3> QED
        BY <1>5, <1>7, <3>1 DEF Tallied
    <2> QED
      BY <1>4, <2>1, <2>2, <2>3 DEF JobOK
  <1> QED
    BY <1>3, <1>6, <1>7

LEMMA CommittedType ==
  ASSUME NEW g \in GuardState, CachedOK(g), NEW n \in Nat, NEW after \in Nat
  PROVE  Committed(g, n, after) \in GuardState /\ CachedOK(Committed(g, n, after))
  <1> DEFINE m == g.memCost + n
             l == Greatest(Greatest(g.floor, after), m)
             c == IF g.cached = NoAccount THEN g.cached
                  ELSE [cycle |-> g.cached.cycle, count |-> Greatest(g.cached.count, after)]
  <1>1. /\ g.memCost \in Nat /\ g.floor \in Nat /\ g.cached \in Accounts
        /\ g.cached.count \in Nat /\ g.cached.cycle \in Cycles \cup {NoCycle}
    BY DEF GuardState, Accounts
  <1>2. m \in Nat /\ l \in Nat
    BY <1>1 DEF Greatest
  <1>3. c \in Accounts /\ (c = NoAccount \/ c.cycle \in Cycles)
    <2>1. Greatest(g.cached.count, after) \in Nat
      BY <1>1, GreatestType
    <2> QED
      BY <1>1, <2>1 DEF Accounts, CachedOK
  <1>4. Committed(g, n, after) = [g EXCEPT !.memCost = m, !.floor = l, !.cached = c]
    BY DEF Committed
  <1> HIDE DEF m, l, c
  <1>5. [g EXCEPT !.memCost = m, !.floor = l, !.cached = c] \in GuardState
    BY <1>2, <1>3 DEF GuardState, Accounts
  <1>6. [g EXCEPT !.memCost = m, !.floor = l, !.cached = c].cached = c
    BY DEF GuardState
  <1> QED
    BY <1>3, <1>4, <1>5, <1>6 DEF CachedOK

LEMMA SettleMoves ==
  ASSUME SystemInv, NEW f \in Keys, NEW g \in GuardState, CachedOK(g),
         NEW entry \in 0 .. MaxAmount, NEW hurt \in BOOLEAN,
         Settle(f, g, entry, hurt),
         SettleAsked(f) \/ (UNCHANGED ledgerVars /\ hurt)
  PROVE  SystemInv'
  <1> DEFINE h == job[f].hurt \/ hurt
             j == [job[f] EXCEPT !.pc = job[f].task.next, !.task = NoTask,
                                 !.entry = entry, !.hurt = h]
  <1>1. job[f].pc = "settle"
    BY DEF Settle
  <1>2. /\ job[f] \in JobState /\ job[f].at \in Instances /\ job[f].request = "none"
        /\ job[f].task.next \in {"send", "done"}
    BY <1>1, Asking
  <1>3. h \in BOOLEAN
    OBVIOUS
  <1>4. job' = [job EXCEPT ![f].pc = job[f].task.next, ![f].task = NoTask,
                           ![f].entry = entry, ![f].hurt = h]
    BY DEF Settle
  <1>5. (hurt => h) /\ (job[f].hurt => h)
    OBVIOUS
  <1> HIDE DEF h
  <1>6. job' = [job EXCEPT ![f] = j]
    BY <1>4 DEF SystemInv, SystemTypeOK
  <1>7. NoTask \in [how  : {"none", "confirm", "charge", "free", "rejected"},
                    conf : 0 .. 1, rel : 0 .. MaxAmount, next : {"send", "done"}]
    BY AmountAssumption DEF NoTask
  <1>8. j \in JobState
    <2> DEFINE next == job[f].task.next
               t    == NoTask
    <2>1. next \in {"send", "done"} /\ t \in [how  : {"none", "confirm", "charge", "free",
                                                      "rejected"},
                    conf : 0 .. 1, rel : 0 .. MaxAmount, next : {"send", "done"}]
      BY <1>2, <1>7
    <2> HIDE DEF next, t
    <2>2. [job[f] EXCEPT !.pc = next, !.task = t, !.entry = entry, !.hurt = h] \in JobState
      BY <1>2, <1>3, <2>1 DEF JobState
    <2> QED
      BY <2>2 DEF next, t
  <1>9. /\ j.pc = job[f].task.next /\ j.at = job[f].at /\ j.request = "none"
        /\ j.sent = job[f].sent /\ j.cost = job[f].cost /\ j.guess = job[f].guess
        /\ j.hurt = h
    BY <1>2 DEF JobState
  <1> HIDE DEF j
  <1>10. CASE SettleAsked(f)
    <2>1. /\ Inv' /\ expired' = expired
          /\ rows' = [rows EXCEPT ![f] =
                        Settled(rows[f], job[f].task.conf, job[f].task.rel, NoStep)]
      BY <1>1, <1>10, SettleIsNext
    <2>2. /\ rows'[f] = Settled(rows[f], job[f].task.conf, job[f].task.rel, NoStep)
          /\ \A k \in Keys \ {f} : rows'[k] = rows[k]
      BY <2>1 DEF SystemInv, SystemTypeOK, TypeOK
    <2>3. JobOK(f, j, rows'[f])
      BY <1>1, <1>5, <1>8, <1>9, <2>2, AfterSettling
    <2>4. guard' = [guard EXCEPT ![job[f].at] = g] /\ UNCHANGED providerVars
      BY DEF Settle
    <2> QED
      BY <1>2, <1>6, <1>8, <2>1, <2>2, <2>3, <2>4, OneJobMoves, GuardMoves, ProviderStays
  <1>11. CASE UNCHANGED ledgerVars /\ hurt
    <2>1. Inv' /\ rows' = rows /\ expired' = expired
      BY <1>11, LedgerStays
    <2>2. JobOK(f, j, rows'[f])
      BY <1>1, <1>5, <1>8, <1>9, <1>11, <2>1, AfterSettling
    <2>3. guard' = [guard EXCEPT ![job[f].at] = g] /\ UNCHANGED providerVars
      BY DEF Settle
    <2> QED
      BY <1>2, <1>6, <1>8, <2>1, <2>2, <2>3, OneJobMoves, GuardMoves, ProviderStays
  <1> QED
    BY <1>10, <1>11

\* The guard of a job's instance, possibly with the breaker tripped.
LEMMA Tripping ==
  ASSUME NEW g \in GuardState, CachedOK(g), NEW t \in BOOLEAN,
         NEW h, h = [g EXCEPT !.tripped = t]
  PROVE  h \in GuardState /\ CachedOK(h)
  BY DEF GuardState, CachedOK

LEMMA SettleAckedStep ==
  ASSUME SystemInv, NEW f \in Keys, SettleAcked(f)
  PROVE  SystemInv'
  <1> DEFINE b == guard[job[f].at].tripped \/ Trips(f, TRUE)
             g == [guard[job[f].at] EXCEPT !.tripped = b]
             n == job[f].task.conf
             h == IF n > 0 THEN Committed(g, n, consumed') ELSE g
  <1>1. job[f].pc = "settle" /\ SettleAsked(f)
    BY DEF SettleAcked, Settle
  <1>2. Settle(f, h, EntryLeft(f), FALSE)
    BY DEF SettleAcked
  <1>3. b \in BOOLEAN
    OBVIOUS
  <1>4. guard[job[f].at] \in GuardState /\ CachedOK(guard[job[f].at])
    BY <1>1, Asking DEF SystemInv, SystemTypeOK
  <1> HIDE DEF b
  <1>5. g \in GuardState /\ CachedOK(g)
    BY <1>3, <1>4, Tripping
  <1> HIDE DEF g
  <1>6. n \in Nat /\ consumed' \in Nat
    BY <1>1, Asking, SettleIsNext DEF Inv, TypeOK
  <1>7. h \in GuardState /\ CachedOK(h)
    BY <1>5, <1>6, CommittedType
  <1>8. EntryLeft(f) \in 0 .. MaxAmount
    <2>1. /\ job[f].entry \in 0 .. MaxAmount /\ MaxAmount \in Nat
          /\ job[f].task.rel \in Nat
      BY <1>1, Asking DEF JobState
    <2>2. Greatest(0, job[f].entry - n - job[f].task.rel) \in 0 .. MaxAmount
      BY <1>6, <2>1 DEF Greatest
    <2> QED
      BY <2>1, <2>2 DEF EntryLeft
  <1> HIDE DEF h
  <1> QED
    BY <1>1, <1>2, <1>7, <1>8, SettleMoves

LEMMA SettleUnheardStep ==
  ASSUME SystemInv, NEW f \in Keys, NEW thrown \in BOOLEAN, SettleUnheard(f, thrown)
  PROVE  SystemInv'
  <1> DEFINE b == guard[job[f].at].tripped \/ Trips(f, FALSE)
             g == [guard[job[f].at] EXCEPT !.tripped = b]
             n == job[f].task.conf
             h == IF job[f].task.how = "confirm" /\ ~ thrown
                  THEN Committed(g, n, KnownBaseline(g) + n) ELSE g
  <1>1. job[f].pc = "settle" /\ (SettleAsked(f) \/ UNCHANGED ledgerVars)
    BY DEF SettleUnheard, Settle
  <1>2. Settle(f, h, job[f].entry, TRUE)
    BY DEF SettleUnheard
  <1>3. b \in BOOLEAN
    OBVIOUS
  <1>4. guard[job[f].at] \in GuardState /\ CachedOK(guard[job[f].at])
    BY <1>1, Asking DEF SystemInv, SystemTypeOK
  <1> HIDE DEF b
  <1>5. g \in GuardState /\ CachedOK(g)
    BY <1>3, <1>4, Tripping
  <1> HIDE DEF g
  <1>6. n \in Nat /\ KnownBaseline(g) + n \in Nat
    <2>1. n \in Nat
      BY <1>1, Asking
    <2>2. g.floor \in Nat /\ g.cached.count \in Nat
      BY <1>5 DEF GuardState
    <2> QED
      BY <2>1, <2>2 DEF KnownBaseline, Greatest
  <1>7. h \in GuardState /\ CachedOK(h)
    BY <1>5, <1>6, CommittedType
  <1>8. job[f].entry \in 0 .. MaxAmount
    BY <1>1, Asking DEF JobState
  <1> HIDE DEF h
  <1> QED
    BY <1>1, <1>2, <1>7, <1>8, SettleMoves

-----------------------------------------------------------------------------
(* Crashes, renewals and housekeeping *)

LEMMA CrashStep ==
  ASSUME SystemInv, NEW i \in Instances, Crash(i)
  PROVE  SystemInv'
  <1> DEFINE H(f) == job[f].hurt \/ Alive(f)
             D(f) == [job[f] EXCEPT !.pc = "done", !.at = NoInstance, !.request = "none",
                                    !.task = NoTask, !.entry = 0, !.hurt = H(f)]
  <1>1. Inv' /\ rows' = rows /\ expired' = expired
    BY LedgerStays DEF Crash
  <1>2. job' = [f \in Keys |-> IF job[f].at # i THEN job[f] ELSE D(f)]
    BY DEF Crash
  <1>3. NoTask \in [how  : {"none", "confirm", "charge", "free", "rejected"},
                    conf : 0 .. 1, rel : 0 .. MaxAmount, next : {"send", "done"}]
    BY AmountAssumption DEF NoTask
  <1>4. ASSUME NEW f \in Keys, job[f].at = i
        PROVE  D(f) \in JobState /\ JobOK(f, D(f), rows[f])
    <2> DEFINE j == D(f)
               h == H(f)
               t == NoTask
    <2>1. job[f] \in JobState /\ JobOK(f, job[f], rows[f])
      BY DEF SystemInv, SystemTypeOK
    <2>2. h \in BOOLEAN /\ 0 \in 0 .. MaxAmount
      BY AmountAssumption
    <2>3. h = (job[f].hurt \/ job[f].pc \notin {"idle", "done"})
      BY DEF Alive
    <2>4. t \in [how  : {"none", "confirm", "charge", "free", "rejected"},
                 conf : 0 .. 1, rel : 0 .. MaxAmount, next : {"send", "done"}]
      BY <1>3
    <2>5. j = [job[f] EXCEPT !.pc = "done", !.at = NoInstance, !.request = "none",
                             !.task = t, !.entry = 0, !.hurt = h]
      OBVIOUS
    <2> HIDE DEF h, t, j
    <2>6. j \in JobState
      BY <2>1, <2>2, <2>4, <2>5 DEF JobState
    <2>7. /\ j.pc = "done" /\ j.request = "none" /\ j.hurt = h
          /\ j.sent = job[f].sent /\ j.cost = job[f].cost /\ j.guess = job[f].guess
      BY <2>1, <2>5 DEF JobState
    <2>8. job[f].pc # "idle" /\ job[f].cost <= job[f].sent
      BY <2>1, <1>4 DEF JobOK, Placed, Tallied
    <2>9. ASSUME h PROVE JobOK(f, j, rows[f])
      BY <2>7, <2>8, <2>9, HurtEnd
    <2>10. ASSUME ~ h PROVE JobOK(f, j, rows[f])
      <3>1. job[f].pc = "done" /\ ~ job[f].hurt
        BY <2>3, <2>8, <2>10
      <3>2. Placed(j) /\ Fresh(j, rows[f]) /\ InStep(f, j, rows[f]) /\ Asks(f, j)
        BY <2>7 DEF Placed, Fresh, Early, InStep, Batch, Asks
      <3>3. Tallied(f, j, rows[f]) /\ Over(f, j, rows[f])
        BY <2>1, <2>7, <2>8, <2>10, <3>1 DEF JobOK, Tallied, Over
      <3> QED
        BY <3>2, <3>3 DEF JobOK
    <2>11. JobOK(f, j, rows[f])
      BY <2>2, <2>9, <2>10
    <2> QED
      BY <2>6, <2>11 DEF j
  <1>5. \A f \in Keys : job'[f] \in JobState /\ JobOK(f, job'[f], rows[f])
    <2> TAKE f \in Keys
    <2>1. CASE job[f].at = i
      BY <1>2, <1>4, <2>1
    <2>2. CASE job[f].at # i
      <3>1. job'[f] = job[f]
        BY <1>2, <2>2
      <3> QED
        BY <3>1 DEF SystemInv, SystemTypeOK
    <2> QED
      BY <2>1, <2>2
  <1>6. job' \in [Keys -> JobState]
    BY <1>2, <1>5
  <1>7. \A f \in Keys : JobOK(f, job[f], rows[f])'
    BY <1>1, <1>5 DEF JobOK, Over
  <1>8. ColdGuard \in GuardState /\ CachedOK(ColdGuard)
    BY DEF ColdGuard, GuardState, NoAccount, CachedOK
  <1>9. guard' \in [Instances -> GuardState] /\ \A k \in Instances : CachedOK(guard'[k])
    BY <1>8, GuardMoves DEF Crash
  <1>10. stray' \in Nat
    <2> DEFINE S == {f \in Keys : job[f].at = i /\ job[f].request = "flying"}
    <2>1. IsFiniteSet(S)
      BY KeysAssumption, FS_Subset
    <2>2. Cardinality(S) \in Nat
      BY <2>1, FS_CardinalityType
    <2>3. stray' = stray + Cardinality(S)
      BY DEF Crash
    <2> QED
      BY <2>2, <2>3 DEF SystemInv, SystemTypeOK
  <1>11. UNCHANGED <<plan, past, billed>>
    BY DEF Crash
  <1>12. SystemTypeOK'
    BY <1>1, <1>6, <1>9, <1>10, <1>11 DEF SystemTypeOK, SystemInv, Inv
  <1> QED
    BY <1>1, <1>7, <1>9, <1>12 DEF SystemInv, Inv

LEMMA ProviderAlone ==
  ASSUME SystemInv, UNCHANGED <<ledgerVars, guardVars>>,
         plan' \in Cycles, past' \subseteq Cycles,
         billed' \in [Cycles -> Nat], stray' \in Nat
  PROVE  SystemInv'
  <1>1. Inv' /\ rows' = rows /\ expired' = expired
    BY LedgerStays
  <1>2. guard' = guard /\ job' = job
    BY DEF guardVars
  <1>3. SystemTypeOK'
    BY <1>1, <1>2 DEF SystemTypeOK, SystemInv, Inv
  <1>4. \A f \in Keys : JobOK(f, job[f], rows[f])'
    BY <1>1, <1>2 DEF SystemInv, JobOK, Over
  <1> QED
    BY <1>1, <1>2, <1>3, <1>4 DEF SystemInv, Inv

LEMMA AgeStep ==
  ASSUME SystemInv, NEW f \in Keys, Age(f)
  PROVE  SystemInv'
  <1>1. Inv' /\ rows' = rows
    BY InvHolds, PassStep DEF Age
  <1>2. /\ expired' = expired \cup {f} /\ job[f].pc = "done"
        /\ guard' = guard /\ job' = job /\ UNCHANGED providerVars
    BY DEF Age, Pass, guardVars
  <1>3. SystemTypeOK'
    BY <1>1, <1>2 DEF SystemTypeOK, SystemInv, Inv, providerVars
  <1>4. \A k \in Keys : JobOK(k, job[k], rows[k])'
    BY <1>1, <1>2 DEF SystemInv, JobOK, Over
  <1> QED
    BY <1>1, <1>2, <1>3, <1>4 DEF SystemInv, Inv

\* The cleanup closes rows of jobs that ended hurt.
LEMMA SweepStep ==
  ASSUME SystemInv, Sweep
  PROVE  SystemInv'
  <1>1. /\ Drain(Open \cap expired, "RELEASED")
        /\ UNCHANGED <<installed, stateVars, consumed, expired>>
        /\ guard' = guard /\ job' = job /\ UNCHANGED providerVars
    BY DEF Sweep, CleanupStale, guardVars
  <1>2. Inv'
    <2>1. installed' \in BOOLEAN
      BY <1>1 DEF SystemInv, SystemTypeOK, TypeOK
    <2>2. UNCHANGED <<stateVars, consumed, expired>>
      BY <1>1
    <2> QED
      BY <1>1, <2>1, <2>2, InvHolds, DrainStep
  <1>3. \A f \in Keys : JobOK(f, job[f], rows'[f])
    <2> TAKE f \in Keys
    <2>1. JobOK(f, job[f], rows[f])
      BY DEF SystemInv
    <2>2. CASE f \in Open \cap expired
      <3>1. job[f].pc = "done" /\ job[f].hurt
        BY <2>1, <2>2 DEF JobOK, Over, Open, SystemInv, SystemTypeOK, JobState
      <3>2. job[f].request = "none" /\ job[f].cost <= job[f].sent
        BY <2>1, <3>1 DEF JobOK, Placed, Tallied
      <3> QED
        BY <3>1, <3>2, HurtEnd
    <2>3. CASE f \notin Open \cap expired
      <3>1. rows'[f] = rows[f]
        BY <1>1, <2>3 DEF Drain
      <3> QED
        BY <2>1, <3>1
    <2> QED
      BY <2>2, <2>3
  <1>4. \A f \in Keys : JobOK(f, job[f], rows[f])'
    BY <1>1, <1>3 DEF JobOK, Over
  <1>5. SystemTypeOK'
    BY <1>1, <1>2 DEF SystemTypeOK, SystemInv, Inv, providerVars
  <1> QED
    BY <1>1, <1>2, <1>4, <1>5 DEF SystemInv, Inv

-----------------------------------------------------------------------------
(* Every step keeps jobs and rows in step, and is a step of the ledger *)

LEMMA SystemStep ==
  ASSUME SystemInv, [SystemNext]_systemVars
  PROVE  SystemInv'
  <1>1. ASSUME NEW f \in Keys, NEW i \in Instances,
               UseCachedAccount(f, i) \/ AskAccount(f, i) \/ FollowUp(f, i)
        PROVE  SystemInv'
    BY <1>1, UseCachedAccountStep, AskAccountStep, FollowUpStep
  <1>2. ASSUME NEW f \in Keys, JobStep(f)
        PROVE  SystemInv'
    BY <1>2, AccountArrivesStep, AccountFailsStep, SyncAckedStep, SyncUnheardStep,
       ReserveAckedStep, ReserveUnheardStep, ReserveDeniedStep, DispatchStep, ReplyStep,
       RejectionStep, BrokenStep, SettleAckedStep, SettleUnheardStep DEF JobStep
  <1>3. ASSUME NEW f \in Keys, Process(f) \/ Reject(f)
        PROVE  SystemInv'
    BY <1>3, ProcessStep, RejectStep
  <1>4. ASSUME NEW f \in Keys, NEW fresh \in BOOLEAN, ServeCached(f, fresh)
        PROVE  SystemInv'
    BY <1>4, ServeCachedStep
  <1>5. CASE ProcessStray \/ DropStray
    <2>1. /\ UNCHANGED <<ledgerVars, guardVars>>
          /\ plan' \in Cycles /\ past' \subseteq Cycles
          /\ billed' \in [Cycles -> Nat] /\ stray' \in Nat
      BY <1>5 DEF ProcessStray, DropStray, SystemInv, SystemTypeOK
    <2> QED
      BY <2>1, ProviderAlone
  <1>6. ASSUME NEW c \in Cycles, Renew(c)
        PROVE  SystemInv'
    <2>1. /\ UNCHANGED <<ledgerVars, guardVars>>
          /\ plan' \in Cycles /\ past' \subseteq Cycles
          /\ billed' \in [Cycles -> Nat] /\ stray' \in Nat
      BY <1>6 DEF Renew, SystemInv, SystemTypeOK
    <2> QED
      BY <2>1, ProviderAlone
  <1>7. ASSUME NEW i \in Instances, Crash(i)
        PROVE  SystemInv'
    BY <1>7, CrashStep
  <1>8. ASSUME NEW f \in Keys, Age(f)
        PROVE  SystemInv'
    BY <1>8, AgeStep
  <1>9. CASE Sweep
    BY <1>9, SweepStep
  <1>10. CASE UNCHANGED systemVars
    <2>1. /\ UNCHANGED <<ledgerVars, guardVars>>
          /\ plan' \in Cycles /\ past' \subseteq Cycles
          /\ billed' \in [Cycles -> Nat] /\ stray' \in Nat
      BY <1>10 DEF systemVars, providerVars, SystemInv, SystemTypeOK
    <2> QED
      BY <2>1, ProviderAlone
  <1> QED
    BY <1>1, <1>2, <1>3, <1>4, <1>5, <1>6, <1>7, <1>8, <1>9, <1>10 DEF SystemNext

LEMMA LedgerMoves ==
  ASSUME SystemInv, [SystemNext]_systemVars
  PROVE  [AnyNext]_ledgerVars
  <1>1. ASSUME NEW f \in Keys, JobStep(f)
        PROVE  [AnyNext]_ledgerVars
    <2>1. CASE SyncAcked(f) \/ SyncUnheard(f)
      <3>1. job[f].pc = "sync" /\ (SyncAsked(f) \/ UNCHANGED ledgerVars)
        BY <2>1 DEF SyncAcked, SyncUnheard
      <3> QED
        BY <3>1, SyncIsAny DEF AnyNext
    <2>2. CASE ReserveAcked(f) \/ ReserveUnheard(f)
      <3>1. job[f].pc = "ready" /\ ReserveAsked(f)
        BY <2>2 DEF ReserveAcked, ReserveUnheard
      <3> QED
        BY <3>1, ReserveIsNext DEF AnyNext, LedgerNext
    <2>3. CASE SettleAcked(f) \/ \E thrown \in BOOLEAN : SettleUnheard(f, thrown)
      <3>1. job[f].pc = "settle" /\ (SettleAsked(f) \/ UNCHANGED ledgerVars)
        BY <2>3 DEF SettleAcked, SettleUnheard, Settle
      <3> QED
        BY <3>1, SettleIsNext DEF AnyNext, LedgerNext
    <2>4. ASSUME ~ (SyncAcked(f) \/ SyncUnheard(f)),
                 ~ (ReserveAcked(f) \/ ReserveUnheard(f)),
                 ~ (SettleAcked(f) \/ \E thrown \in BOOLEAN : SettleUnheard(f, thrown))
          PROVE  UNCHANGED ledgerVars
      BY <1>1, <2>4 DEF JobStep, AccountArrives, AccountFails, ReserveDenied, Dispatch,
                        Reply, Rejection, Broken
    <2> QED
      BY <2>1, <2>2, <2>3, <2>4
  <1>2. CASE \E f \in Keys : Age(f)
    BY <1>2 DEF Age, AnyNext, LedgerNext
  <1>3. CASE Sweep
    BY <1>3 DEF Sweep, AnyNext, LedgerNext
  <1>4. CASE \/ \E f \in Keys, i \in Instances :
                   UseCachedAccount(f, i) \/ AskAccount(f, i) \/ FollowUp(f, i)
             \/ \E f \in Keys : Process(f) \/ Reject(f)
             \/ \E f \in Keys, fresh \in BOOLEAN : ServeCached(f, fresh)
             \/ ProcessStray \/ DropStray
             \/ \E c \in Cycles : Renew(c)
             \/ \E i \in Instances : Crash(i)
    BY <1>4 DEF UseCachedAccount, AskAccount, FollowUp, Process, Reject, ServeCached,
                ProcessStray, DropStray, Renew, Crash
  <1>5. CASE UNCHANGED systemVars
    BY <1>5 DEF systemVars
  <1> QED
    BY <1>1, <1>2, <1>3, <1>4, <1>5 DEF SystemNext

(***************************************************************************)
(* Every reachable state of the whole system is well typed: every job      *)
(* sends at most its batch and no amount is negative, however answers,     *)
(* losses and crashes interleave.                                          *)
(***************************************************************************)
THEOREM SystemTypes == SystemSpec => []SystemTypeOK
  <1>1. SystemInit => SystemInv
    BY SystemInvInit
  <1>2. SystemInv /\ [SystemNext]_systemVars => SystemInv'
    BY SystemStep
  <1>3. SystemInv => SystemTypeOK
    BY DEF SystemInv
  <1> QED
    BY <1>1, <1>2, <1>3, PTL DEF SystemSpec

(***************************************************************************)
(* The ledger never refuses or replays a settlement that a job of          *)
(* oddsPapiProvider.ts asks for, in any number of cycles, jobs and         *)
(* instances, with replies lost, instances dead and rows swept: ignoring   *)
(* the results of confirmQuota and releaseQuotaAsync loses nothing.        *)
(***************************************************************************)
THEOREM SettlementsFit == SystemSpec => []SettlementsAccepted
  <1>1. SystemInit => SystemInv
    BY SystemInvInit
  <1>2. SystemInv /\ [SystemNext]_systemVars => SystemInv'
    BY SystemStep
  <1>3. SystemInv => SettlementsAccepted
    BY Acceptable DEF SettlementsAccepted
  <1> QED
    BY <1>1, <1>2, <1>3, PTL DEF SystemSpec

(***************************************************************************)
(* No path through the batch loop forgets units: a job that ended without  *)
(* a lost reply or a crash has settled its whole reservation.              *)
(***************************************************************************)
THEOREM NoLeaks == SystemSpec => []NoLeakUnlessHurt
  <1>1. SystemInit => SystemInv
    BY SystemInvInit
  <1>2. SystemInv /\ [SystemNext]_systemVars => SystemInv'
    BY SystemStep
  <1>3. SystemInv => NoLeakUnlessHurt
    BY DEF SystemInv, JobOK, Over, NoLeakUnlessHurt
  <1> QED
    BY <1>1, <1>2, <1>3, PTL DEF SystemSpec

(***************************************************************************)
(* A job whose every reply came back is charged what the provider counted  *)
(* for it, whatever the mix of answers in its batch.                       *)
(***************************************************************************)
THEOREM ChargesCounted == SystemSpec => []ChargedAsCounted
  <1>1. SystemInit => SystemInv
    BY SystemInvInit
  <1>2. SystemInv /\ [SystemNext]_systemVars => SystemInv'
    BY SystemStep
  <1>3. SystemInv => ChargedAsCounted
    BY DEF SystemInv, JobOK, Tallied, Known, ChargedAsCounted
  <1> QED
    BY <1>1, <1>2, <1>3, PTL DEF SystemSpec

(***************************************************************************)
(* With the jobs, the provider and the crashes around it, the ledger still *)
(* never attempts an update its trigger would abort.                       *)
(***************************************************************************)
THEOREM SystemTriggerSilent == SystemSpec => TriggerNeverFires
  <1>1. SystemInit => SystemInv
    BY SystemInvInit
  <1>2. SystemInv /\ [SystemNext]_systemVars => SystemInv'
    BY SystemStep
  <1>3. SystemInv /\ [SystemNext]_systemVars
          => [\A k \in Keys : TransitionAllowed(rows[k], rows'[k])]_ledgerVars
    BY InvHolds, LedgerMoves, LedgerStep
  <1> QED
    BY <1>1, <1>2, <1>3, PTL DEF SystemSpec, TriggerNeverFires

-----------------------------------------------------------------------------
(* The ledger at work keeps its budget *)

LEMMA SystemCycleInit == SystemInit => SystemInv /\ CycleInv
  BY SystemInvInit, CycleInvInit DEF SystemInit

LEMMA SystemCycleStep ==
  ASSUME OneCycle, SystemInv, CycleInv, [SystemNext]_systemVars
  PROVE  SystemInv' /\ CycleInv'
  BY SystemStep, LedgerMoves, CycleStep

(***************************************************************************)
(* Within one subscription cycle the reserved counter is what the open     *)
(* rows of all jobs hold, dead ones included.                              *)
(***************************************************************************)
THEOREM SystemCounterExact ==
  ASSUME OneCycle
  PROVE  SystemSpec => []ReservedCoversHeld
  <1>1. SystemInit => SystemInv /\ CycleInv
    BY SystemCycleInit
  <1>2. SystemInv /\ CycleInv /\ [SystemNext]_systemVars => SystemInv' /\ CycleInv'
    BY SystemCycleStep
  <1>3. CycleInv => ReservedCoversHeld
    BY DEF CycleInv
  <1> QED
    BY <1>1, <1>2, <1>3, PTL DEF SystemSpec

(***************************************************************************)
(* With jobs, crashes, lost replies and late snapshots around it, the      *)
(* ledger implements the budget.                                           *)
(***************************************************************************)
THEOREM SystemImplementsBudget ==
  ASSUME OneCycle
  PROVE  SystemSpec => KeepsBudget
  <1>1. SystemInit => SystemInv /\ CycleInv
    BY SystemCycleInit
  <1>2. SystemInit => Budget!BudgetInit
    BY InvInit, NothingHeldYet
       DEF SystemInit, Inv, TypeOK, Budget!BudgetInit
  <1>3. SystemInv /\ CycleInv /\ [SystemNext]_systemVars => SystemInv' /\ CycleInv'
    BY SystemCycleStep
  <1>4. SystemInv /\ CycleInv /\ [SystemNext]_systemVars
          => [Budget!BudgetNext]_Budget!budgetVars
    BY LedgerMoves, BudgetStep
  <1> QED
    BY <1>1, <1>2, <1>3, <1>4, PTL DEF SystemSpec, KeepsBudget, Budget!BudgetSpec

-----------------------------------------------------------------------------
(* What was confirmed stays counted *)

\* Units charged in any cycle; the property looks at those of the plan's.
UsageCoversCharged == Cardinality(Charged) <= consumed

LEMMA ChargedSize ==
  /\ IsFiniteSet(Charged)
  /\ Cardinality(Charged) \in Nat
  BY UnitsFinite, FS_Subset, FS_CardinalityType DEF Charged

LEMMA UsageInit ==
  ASSUME LedgerInit
  PROVE  UsageCoversCharged
  <1>1. \A u \in Units : u[2] > 0 /\ rows[u[1]].confirmed = 0
    BY AmountAssumption DEF LedgerInit, Units, NoRow
  <1>2. Charged = {}
    <2>1. \A u \in Units : ~ (u[2] <= rows[u[1]].confirmed)
      BY <1>1, AmountAssumption DEF Units
    <2> QED
      BY <2>1 DEF Charged
  <1>3. consumed \in Nat
    BY InvInit DEF Inv, TypeOK
  <1> QED
    BY <1>2, <1>3, FS_EmptySet DEF UsageCoversCharged

LEMMA UsageStep ==
  ASSUME OneCycle, CycleInv, UsageCoversCharged, [AnyNext]_ledgerVars
  PROVE  UsageCoversCharged'
  <1>1. Inv /\ consumed \in Nat /\ consumed' \in Nat
    BY LedgerStep DEF CycleInv, Inv, TypeOK
  <1>2. Cardinality(Charged) \in Nat
    BY ChargedSize
  <1>3. (Cardinality(Charged) \in Nat)'
    BY ChargedSize, PTL
  <1>4. CASE rows' # rows
    <2>1. consumed' - consumed = Cardinality(Charged') - Cardinality(Charged)
      BY <1>1, <1>4, ChargeStep DEF Charges
    <2> QED
      BY <1>1, <1>2, <1>3, <2>1 DEF UsageCoversCharged
  <1>5. CASE rows' = rows
    <2>1. Charged' = Charged
      BY <1>5 DEF Charged
    <2>2. consumed' >= consumed
      <3>1. CASE AnySync
        BY <3>1, SyncWithinCycle
      <3>2. CASE ReserveNext
        BY <1>1, <3>2, ReserveHandsOut DEF HandsOut
      <3>3. CASE Settles
        BY <1>1, <3>3, SettlingTakesBack DEF TakesBack
      <3>4. CASE LeavesRows /\ UNCHANGED <<cycle, consumed, reserved>>
        BY <1>1, <3>4
      <3> QED
        BY <3>1, <3>2, <3>3, <3>4, StepKinds
    <2> QED
      BY <1>1, <1>2, <2>1, <2>2 DEF UsageCoversCharged
  <1> QED
    BY <1>4, <1>5

(***************************************************************************)
(* Unless the plan is renewed, no snapshot rolls back confirmed usage,     *)
(* however late /v4/account answers and whichever instance reports it: the *)
(* promise that a late snapshot breaks is kept within one cycle.           *)
(***************************************************************************)
THEOREM UsageKept ==
  ASSUME OneCycle
  PROVE  SystemSpec => []ConfirmedUsageKept
  <1>1. SystemInit => SystemInv /\ CycleInv /\ UsageCoversCharged
    BY SystemCycleInit, UsageInit DEF SystemInit
  <1>2. SystemInv /\ CycleInv /\ UsageCoversCharged /\ [SystemNext]_systemVars
          => SystemInv' /\ CycleInv' /\ UsageCoversCharged'
    BY SystemCycleStep, LedgerMoves, UsageStep
  <1>3. SystemInv /\ UsageCoversCharged => ConfirmedUsageKept
    <2> SUFFICES ASSUME SystemInv, UsageCoversCharged PROVE ConfirmedUsageKept
      OBVIOUS
    <2> DEFINE U == {u \in Charged : rows[u[1]].cycle = plan}
    <2>1. IsFiniteSet(U) /\ Cardinality(U) <= Cardinality(Charged)
      BY ChargedSize, FS_Subset
    <2>2. Cardinality(U) \in Nat
      BY <2>1, FS_CardinalityType
    <2>3. consumed \in Nat
      BY DEF SystemInv, SystemTypeOK, TypeOK
    <2>4. Cardinality(U) <= consumed
      <3> HIDE DEF U
      <3> QED
        BY <2>1, <2>2, <2>3, ChargedSize DEF UsageCoversCharged
    <2> QED
      BY <2>4 DEF ConfirmedUsageKept
  <1> QED
    BY <1>1, <1>2, <1>3, PTL DEF SystemSpec

-----------------------------------------------------------------------------
(* Across renewals, only a way back loses usage *)

\* Units charged for reservations of the ledger's cycle, and for all others.
ChargedHere  == {u \in Charged : rows[u[1]].cycle = cycle}
ChargedBefore  == {u \in Charged : rows[u[1]].cycle # cycle}

UsageCoversCycle == Cardinality(ChargedHere) <= consumed

LEMMA ChargedByCycle ==
  /\ Cardinality(Charged) = Cardinality(ChargedHere) + Cardinality(ChargedBefore)
  /\ IsFiniteSet(ChargedBefore)
  /\ Cardinality(ChargedHere) \in Nat
  /\ Cardinality(ChargedBefore) \in Nat
  <1> DEFINE A == ChargedHere
             B == ChargedBefore
  <1>1. A \subseteq Charged /\ B \subseteq Charged
    BY DEF ChargedHere, ChargedBefore
  <1>2. Charged = A \cup B /\ A \cap B = {}
    BY DEF ChargedHere, ChargedBefore
  <1>3. /\ IsFiniteSet(A) /\ Cardinality(A) \in Nat
        /\ IsFiniteSet(B) /\ Cardinality(B) \in Nat
    BY <1>1, ChargedSize, FS_Subset, FS_CardinalityType
  <1> HIDE DEF A, B
  <1>4. Cardinality(A \cup B) = Cardinality(A) + Cardinality(B) - Cardinality(A \cap B)
    BY <1>3, FS_Union
  <1>5. Cardinality(A \cap B) = 0
    BY <1>2, FS_EmptySet, Zenon
  <1>6. Cardinality(Charged) = Cardinality(A \cup B)
    BY <1>2, Zenon
  <1>7. Cardinality(Charged) = Cardinality(A) + Cardinality(B)
    BY <1>3, <1>4, <1>5, <1>6
  <1> QED
    BY <1>3, <1>7 DEF A, B

\* A row that has charged anything keeps its cycle and its charge.
LEMMA ChargedRowStays ==
  ASSUME Inv, [AnyNext]_ledgerVars, NEW k \in Keys, rows[k].confirmed > 0
  PROVE  rows'[k].cycle = rows[k].cycle /\ rows'[k].confirmed >= rows[k].confirmed
  <1>1. rows'[k].confirmed >= rows[k].confirmed
    BY LedgerStep DEF TransitionAllowed
  <1>2. rows[k].status # "NONE"
    BY DEF Inv, StatusTellsSettlement, RowConsistent, NoRow
  <1>3. rows \in [Keys -> Row]
    BY DEF Inv, TypeOK
  <1>4. CASE AnySync \/ LeavesRows
    BY <1>1, <1>4, SyncStep DEF LeavesRows
  <1>5. CASE ReserveNext
    <2>1. PICK j \in Keys : rows[j].status = "NONE" /\ \A i \in Keys \ {j} : rows'[i] = rows[i]
      BY <1>3, <1>5 DEF ReserveNext, Reserve
    <2> QED
      BY <1>1, <1>2, <1>3, <2>1
  <1>6. CASE Settles
    <2>1. CASE \E S \in SUBSET Keys, v \in {"RELEASED", "ROLLED_BACK"} : Drain(S, v)
      BY <1>1, <2>1 DEF Drain, Closed
    <2>2. CASE \E j \in Keys, conf, rel \in 0 .. MaxAmount, s \in Labels :
                  rows' = [rows EXCEPT ![j] = Settled(@, conf, rel, s)]
      BY <1>1, <1>3, <2>2 DEF Settled
    <2>3. CASE ConfirmNext
      BY <2>2, <2>3 DEF ConfirmNext, Confirm
    <2>4. CASE ReleaseNext
      <3>1. PICK j \in Keys, rel \in 1 .. MaxAmount, b \in BOOLEAN, s \in Labels :
               Release(j, rel, b, s)
        BY <2>4 DEF ReleaseNext
      <3>2. rel \in 0 .. MaxAmount /\ 0 \in 0 .. MaxAmount
        BY AmountAssumption
      <3>3. \/ rows' = [rows EXCEPT ![j] = Settled(@, rel, 0, s)]
            \/ rows' = [rows EXCEPT ![j] = Settled(@, 0, rel, s)]
        BY <3>1 DEF Release, Confirm, FreeRelease
      <3> QED
        BY <2>2, <3>2, <3>3
    <2>5. CASE CleanupStale \/ RollbackMigration
      BY <2>1, <2>5 DEF CleanupStale, RollbackMigration, Open
    <2> QED
      BY <1>6, <2>3, <2>4, <2>5 DEF Settles
  <1> QED
    BY <1>1, <1>4, <1>5, <1>6, StepKinds

\* As long as the cycle stays, what is charged for it grows no faster than consumed.
LEMMA UsageInCycle ==
  ASSUME Inv, UsageCoversCycle, [AnyNext]_ledgerVars, cycle' = cycle
  PROVE  UsageCoversCycle'
  <1>1. consumed \in Nat /\ consumed' \in Nat
    BY LedgerStep DEF Inv, TypeOK
  <1>2. /\ Cardinality(Charged) = Cardinality(ChargedHere) + Cardinality(ChargedBefore)
        /\ Cardinality(ChargedHere) \in Nat
        /\ Cardinality(ChargedBefore) \in Nat
    BY ChargedByCycle
  <1>3. (/\ Cardinality(Charged) = Cardinality(ChargedHere) + Cardinality(ChargedBefore)
         /\ IsFiniteSet(ChargedBefore)
         /\ Cardinality(ChargedHere) \in Nat
         /\ Cardinality(ChargedBefore) \in Nat)'
    BY ChargedByCycle, PTL
  <1>4. CASE rows' # rows
    <2>1. consumed' - consumed = Cardinality(Charged') - Cardinality(Charged)
      BY <1>4, ChargeStep DEF Charges
    <2>2. ChargedBefore \subseteq ChargedBefore'
      <3> SUFFICES ASSUME NEW u \in ChargedBefore PROVE u \in ChargedBefore'
        OBVIOUS
      <3>1. /\ u \in Units /\ u[1] \in Keys /\ u[2] \in 1 .. MaxAmount
            /\ u[2] <= rows[u[1]].confirmed
            /\ rows[u[1]].cycle # cycle
        BY DEF ChargedBefore, Charged, Units
      <3>2. rows[u[1]].confirmed \in Nat /\ rows'[u[1]].confirmed \in Nat
        BY <3>1, LedgerStep, AmountAssumption DEF Inv, TypeOK, Row
      <3>3. rows'[u[1]].cycle = rows[u[1]].cycle
            /\ rows'[u[1]].confirmed >= rows[u[1]].confirmed
        BY <3>1, <3>2, ChargedRowStays, AmountAssumption
      <3> QED
        BY <3>1, <3>2, <3>3, AmountAssumption DEF ChargedBefore, Charged, Units
    <2>3. Cardinality(ChargedBefore) <= Cardinality(ChargedBefore')
      BY <1>3, <2>2, FS_Subset
    <2> QED
      BY <1>1, <1>2, <1>3, <2>1, <2>3 DEF UsageCoversCycle
  <1>5. CASE rows' = rows
    <2>1. ChargedHere' = ChargedHere
      BY <1>5 DEF ChargedHere, Charged
    <2>2. consumed' >= consumed
      <3>1. CASE AnySync
        <4>1. PICK c \in Cycles, count \in Nat, lim \in Limits, rsv \in Reserves :
                 Sync(c, count, lim, rsv)
          BY <3>1 DEF AnySync
        <4>2. cycle' = c /\ c # NoCycle
          BY <4>1, CycleAssumption DEF Sync, SyncInsert, SyncSameCycle, SyncRollover,
                                       WriteSnapshot
        <4>3. SyncSameCycle(c, count, lim, rsv)
          BY <4>1, <4>2 DEF Sync, SyncInsert, SyncRollover
        <4> QED
          BY <1>1, <4>3, GreatestType DEF SyncSameCycle
      <3>2. CASE ReserveNext
        BY <1>1, <3>2, ReserveHandsOut DEF HandsOut
      <3>3. CASE Settles
        BY <1>1, <3>3, SettlingTakesBack DEF TakesBack
      <3>4. CASE LeavesRows /\ UNCHANGED <<cycle, consumed, reserved>>
        BY <1>1, <3>4
      <3> QED
        BY <3>1, <3>2, <3>3, <3>4, StepKinds
    <2> QED
      BY <1>1, <1>2, <2>1, <2>2 DEF UsageCoversCycle
  <1> QED
    BY <1>4, <1>5

\* A cycle in which nothing was reserved has nothing charged when it is taken up.
LEMMA UsageInNewCycle ==
  ASSUME Inv, [AnyNext]_ledgerVars, cycle' # cycle, \A k \in Keys : rows[k].cycle # cycle'
  PROVE  UsageCoversCycle'
  <1>1. rows \in [Keys -> Row] /\ consumed' \in Nat
    BY LedgerStep DEF Inv, TypeOK
  <1>2. \A k \in Keys : rows'[k].cycle = cycle' => rows'[k].confirmed = 0
    <2>1. CASE AnySync \/ LeavesRows
      BY <2>1, SyncStep DEF LeavesRows
    <2>2. CASE ReserveNext
      BY <1>1, <2>2 DEF ReserveNext, Reserve
    <2>3. ~ Settles
      BY DEF Settles, ConfirmNext, ReleaseNext, CleanupStale, RollbackMigration, Release,
             Confirm, FreeRelease, stateVars
    <2> QED
      BY <2>1, <2>2, <2>3, StepKinds
  <1>3. ChargedHere' = {}
    BY <1>2, AmountAssumption DEF ChargedHere, Charged, Units
  <1> QED
    BY <1>1, <1>3, FS_EmptySet DEF UsageCoversCycle

(***************************************************************************)
(* However often the plan is renewed, and with jobs, sweeps and late       *)
(* answers of all kinds, confirmed usage is lost in one way only: the      *)
(* ledger is moved back to a cycle in which it has made a reservation.     *)
(***************************************************************************)
THEOREM UsageKeptForward == SystemSpec /\ NoWayBack => []ConfirmedUsageKept
  <1>1. SystemInit => SystemInv /\ UsageCoversCycle
    <2> SUFFICES ASSUME SystemInit PROVE UsageCoversCycle
      BY SystemInvInit
    <2>1. UsageCoversCharged /\ consumed \in Nat
      BY UsageInit, InvInit DEF SystemInit, Inv, TypeOK
    <2> QED
      BY <2>1, ChargedByCycle DEF UsageCoversCharged, UsageCoversCycle
  <1>2. SystemInv /\ UsageCoversCycle /\ [SystemNext]_systemVars
          /\ [cycle' # cycle => \A k \in Keys : rows[k].cycle # cycle']_systemVars
          => SystemInv' /\ UsageCoversCycle'
    <2> SUFFICES ASSUME SystemInv, UsageCoversCycle, [SystemNext]_systemVars,
                        [cycle' # cycle => \A k \in Keys : rows[k].cycle # cycle']_systemVars
                 PROVE  SystemInv' /\ UsageCoversCycle'
      OBVIOUS
    <2>1. SystemInv' /\ Inv /\ [AnyNext]_ledgerVars
      BY SystemStep, InvHolds, LedgerMoves
    <2>2. cycle' # cycle => \A k \in Keys : rows[k].cycle # cycle'
      BY DEF systemVars, ledgerVars
    <2> QED
      BY <2>1, <2>2, UsageInCycle, UsageInNewCycle
  <1>3. UsageCoversCycle => ConfirmedUsageKept
    BY DEF UsageCoversCycle, ConfirmedUsageKept, ChargedHere
  <1> QED
    BY <1>1, <1>2, <1>3, PTL DEF SystemSpec, NoWayBack

-----------------------------------------------------------------------------
(* Jobs only go forward *)

\* What a job's own step does to its place in the loop; no other job moves.
GoesOn(j, k) ==
  \/ j.pc = "account" /\ k.pc \in {"sync", "done"} /\ k.sent = j.sent
  \/ j.pc = "sync" /\ k.pc \in {"ready", "done"} /\ k.sent = j.sent
  \/ j.pc = "ready" /\ k.pc \in {"send", "done"} /\ k.sent = j.sent
  \/ j.pc = "send" /\ k.pc = "wait" /\ k.sent = j.sent + 1
  \/ j.pc = "wait" /\ k.pc = "settle" /\ k.sent = j.sent
  \/ j.pc = "settle" /\ k.pc \in {"send", "done"} /\ k.sent = j.sent

LEMMA JobGoesOn ==
  ASSUME SystemInv, NEW f \in Keys, JobStep(f)
  PROVE  /\ GoesOn(job[f], job'[f])
         /\ \A g \in Keys \ {f} : job'[g] = job[g]
  <1>1. job \in [Keys -> JobState] /\ job[f] \in JobState
    BY DEF SystemInv, SystemTypeOK
  <1>2. CASE AccountArrives(f)
    BY <1>1, <1>2 DEF AccountArrives, Detect, GoesOn, JobState
  <1>3. ASSUME NEW rejected \in BOOLEAN, AccountFails(f, rejected)
        PROVE  GoesOn(job[f], job'[f]) /\ \A g \in Keys \ {f} : job'[g] = job[g]
    <2> DEFINE g == [guard[job[f].at] EXCEPT !.tripped = @ \/ rejected]
    <2>1. CASE Detect(f, job[f].at, g, g.cached)
      <3>1. job[f].pc = "account"
        BY <1>3 DEF AccountFails
      <3> QED
        BY <1>1, <2>1, <3>1 DEF Detect, GoesOn, JobState
    <2>2. CASE job' = [job EXCEPT ![f].pc = "done"]
      BY <1>1, <1>3, <2>2 DEF AccountFails, GoesOn, JobState
    <2> QED
      BY <1>3, <2>1, <2>2 DEF AccountFails
  <1>4. CASE SyncAcked(f) \/ SyncUnheard(f)
    BY <1>1, <1>4 DEF SyncAcked, SyncUnheard, GoesOn, JobState
  <1>5. CASE ReserveAcked(f) \/ ReserveUnheard(f) \/ ReserveDenied(f)
    BY <1>1, <1>5 DEF ReserveAcked, ReserveUnheard, ReserveDenied, GoesOn, JobState
  <1>6. CASE Dispatch(f)
    BY <1>1, <1>6 DEF Dispatch, GoesOn, JobState
  <1>7. CASE Reply(f) \/ Rejection(f)
    <2>1. PICK how, conf, rel, next :
             job' = [job EXCEPT ![f] = Settling(f, how, conf, rel, next)]
      BY <1>7 DEF Reply, Rejection
    <2>2. job[f].pc = "wait"
      BY <1>7 DEF Reply, Rejection
    <2> QED
      BY <1>1, <2>1, <2>2 DEF Settling, GoesOn, JobState
  <1>8. ASSUME NEW text \in Texts, Broken(f, text)
        PROVE  GoesOn(job[f], job'[f]) /\ \A g \in Keys \ {f} : job'[g] = job[g]
    BY <1>1, <1>8 DEF Broken, Settling, GoesOn, JobState
  <1>9. CASE SettleAcked(f) \/ \E thrown \in BOOLEAN : SettleUnheard(f, thrown)
    <2>1. PICK g, entry, hurt : Settle(f, g, entry, hurt)
      BY <1>9 DEF SettleAcked, SettleUnheard
    <2> QED
      BY <1>1, <2>1 DEF Settle, GoesOn, JobState
  <1> QED
    BY <1>2, <1>3, <1>4, <1>5, <1>6, <1>7, <1>8, <1>9 DEF JobStep

\* A job on its way has sent no more than its batch, and fewer while it sends.
LEMMA RoomToSend ==
  ASSUME SystemInv, NEW f \in Keys, job[f].pc # "done"
  PROVE  /\ Size(f) \in Nat
         /\ job[f].sent \in 0 .. Size(f)
         /\ job[f].pc = "send" => job[f].sent < Size(f)
  <1>1. job[f] \in JobState /\ Fresh(job[f], rows[f]) /\ InStep(f, job[f], rows[f])
    BY DEF SystemInv, SystemTypeOK, JobOK
  <1>2. Size(f) \in Nat /\ job[f].sent \in Nat
    BY <1>1, SizeType, AmountAssumption DEF JobState
  <1> QED
    BY <1>1, <1>2 DEF JobState, Fresh, InStep, Early, Batch

LEMMA NearerToTheEnd ==
  ASSUME SystemInv, NEW f \in Keys, JobStep(f)
  PROVE  StepsLeft(f, job'[f]) < StepsLeft(f, job[f])
  <1>1. GoesOn(job[f], job'[f]) /\ job[f].pc # "done"
    BY JobGoesOn DEF GoesOn
  <1>2. /\ Size(f) \in Nat /\ job[f].sent \in 0 .. Size(f)
        /\ job[f].pc = "send" => job[f].sent < Size(f)
    BY <1>1, RoomToSend
  <1> DEFINE j == job[f]
             k == job'[f]
  <1>3. CASE j.pc = "account" /\ k.pc \in {"sync", "done"} /\ k.sent = j.sent
    BY <1>2, <1>3 DEF StepsLeft
  <1>4. CASE j.pc = "sync" /\ k.pc \in {"ready", "done"} /\ k.sent = j.sent
    BY <1>2, <1>4 DEF StepsLeft
  <1>5. CASE j.pc = "ready" /\ k.pc \in {"send", "done"} /\ k.sent = j.sent
    BY <1>2, <1>5 DEF StepsLeft
  <1>6. CASE j.pc = "send" /\ k.pc = "wait" /\ k.sent = j.sent + 1
    BY <1>2, <1>6 DEF StepsLeft
  <1>7. CASE j.pc = "wait" /\ k.pc = "settle" /\ k.sent = j.sent
    BY <1>2, <1>7 DEF StepsLeft
  <1>8. CASE j.pc = "settle" /\ k.pc \in {"send", "done"} /\ k.sent = j.sent
    BY <1>2, <1>8 DEF StepsLeft
  <1> QED
    BY <1>1, <1>3, <1>4, <1>5, <1>6, <1>7, <1>8 DEF GoesOn

\* What happens around a job leaves it where it is, ends it, or lets it start.
LEMMA NeverFurther ==
  ASSUME SystemInv, NEW f \in Keys, [SystemNext]_systemVars
  PROVE  StepsLeft(f, job'[f]) <= StepsLeft(f, job[f])
  <1>1. job \in [Keys -> JobState] /\ job[f] \in JobState
    BY DEF SystemInv, SystemTypeOK
  <1>2. /\ Size(f) \in Nat /\ job[f].sent \in Nat
        /\ job[f].pc # "done" => job[f].sent <= Size(f)
    BY <1>1, SizeType, AmountAssumption, RoomToSend DEF JobState
  <1>3. /\ StepsLeft(f, job[f]) \in Int /\ StepsLeft(f, job[f]) >= 0
    BY <1>2 DEF StepsLeft
  <1>4. ASSUME job'[f].pc = job[f].pc, job'[f].sent = job[f].sent
        PROVE  StepsLeft(f, job'[f]) <= StepsLeft(f, job[f])
    BY <1>3, <1>4 DEF StepsLeft
  <1>5. ASSUME job'[f].pc = "done"
        PROVE  StepsLeft(f, job'[f]) <= StepsLeft(f, job[f])
    BY <1>3, <1>5 DEF StepsLeft
  <1>6. ASSUME NEW g \in Keys, NEW i \in Instances,
               UseCachedAccount(g, i) \/ AskAccount(g, i) \/ FollowUp(g, i)
        PROVE  StepsLeft(f, job'[f]) <= StepsLeft(f, job[f])
    <2>1. CASE f = g
      <3>1. /\ job[f].pc = "idle" /\ job'[f].pc \in {"sync", "account", "ready"}
            /\ job'[f].sent = job[f].sent
        BY <1>1, <1>6, <2>1
           DEF UseCachedAccount, Detect, AskAccount, FollowUp, JobState
      <3> QED
        BY <1>2, <3>1 DEF StepsLeft
    <2>2. CASE f # g
      <3>1. job'[f] = job[f]
        BY <1>1, <1>6, <2>2 DEF UseCachedAccount, Detect, AskAccount, FollowUp
      <3> QED
        BY <1>4, <3>1
    <2> QED
      BY <2>1, <2>2
  <1>7. ASSUME NEW g \in Keys, JobStep(g)
        PROVE  StepsLeft(f, job'[f]) <= StepsLeft(f, job[f])
    <2>1. CASE f = g
      <3>1. StepsLeft(f, job'[f]) < StepsLeft(f, job[f])
        BY <1>7, <2>1, NearerToTheEnd
      <3>2. GoesOn(job[f], job'[f])
        BY <1>7, <2>1, JobGoesOn
      <3>3. StepsLeft(f, job'[f]) \in Int
        BY <1>2, <3>2 DEF GoesOn, StepsLeft
      <3> QED
        BY <1>3, <3>1, <3>3
    <2>2. CASE f # g
      <3>1. job'[f] = job[f]
        BY <1>7, <2>2, JobGoesOn
      <3> QED
        BY <1>4, <3>1
    <2> QED
      BY <2>1, <2>2
  <1>8. ASSUME NEW g \in Keys, \/ Process(g) \/ Reject(g)
                               \/ \E fresh \in BOOLEAN : ServeCached(g, fresh)
        PROVE  StepsLeft(f, job'[f]) <= StepsLeft(f, job[f])
    <2>1. \E how, cost : job' = [job EXCEPT ![g].request = how, ![g].cost = cost]
      <3>1. CASE Process(g)
        BY <3>1 DEF Process
      <3>2. CASE Reject(g)
        <4>1. job' = [job EXCEPT ![g].request = "rejected", ![g].cost = job[g].cost]
          BY <1>1, <3>2 DEF Reject, JobState
        <4> QED
          BY <4>1
      <3>3. ASSUME NEW fresh \in BOOLEAN, ServeCached(g, fresh)
            PROVE  \E how, cost : job' = [job EXCEPT ![g].request = how, ![g].cost = cost]
        <4>1. job' = [job EXCEPT ![g].request = "processed", ![g].cost = job[g].cost]
          BY <1>1, <3>3 DEF ServeCached, JobState
        <4> QED
          BY <4>1
      <3> QED
        BY <1>8, <3>1, <3>2, <3>3
    <2>2. job'[f].pc = job[f].pc /\ job'[f].sent = job[f].sent
      BY <1>1, <2>1 DEF JobState
    <2> QED
      BY <1>4, <2>2
  <1>9. ASSUME NEW i \in Instances, Crash(i)
        PROVE  StepsLeft(f, job'[f]) <= StepsLeft(f, job[f])
    <2>1. CASE job[f].at = i
      <3>1. job'[f].pc = "done"
        BY <1>1, <1>9, <2>1 DEF Crash, JobState
      <3> QED
        BY <1>5, <3>1
    <2>2. CASE job[f].at # i
      <3>1. job'[f] = job[f]
        BY <1>9, <2>2 DEF Crash
      <3> QED
        BY <1>4, <3>1
    <2> QED
      BY <2>1, <2>2
  <1>10. CASE \/ ProcessStray \/ DropStray \/ Sweep \/ UNCHANGED systemVars
              \/ \E c \in Cycles : Renew(c)
              \/ \E g \in Keys : Age(g)
    <2>1. job' = job
      BY <1>10 DEF ProcessStray, DropStray, Sweep, Renew, Age, guardVars, systemVars
    <2> QED
      BY <1>4, <2>1
  <1> QED
    BY <1>6, <1>7, <1>8, <1>9, <1>10 DEF SystemNext

(***************************************************************************)
(* Every job, of any size and beside any others, takes at most three steps *)
(* for each of its requests and four before its loop: nothing that gets    *)
(* lost, late or killed makes it send or settle again.  With the fairness  *)
(* of the jobs' own steps this is why they all end.                        *)
(***************************************************************************)
THEOREM JobsGoForward == SystemSpec => JobsAdvance
  <1>1. SystemInit => SystemInv
    BY SystemInvInit
  <1>2. SystemInv /\ [SystemNext]_systemVars => SystemInv'
    BY SystemStep
  <1>3. SystemInv /\ [SystemNext]_systemVars
          => [\A f \in Keys :
                 /\ StepsLeft(f, job[f])' <= StepsLeft(f, job[f])
                 /\ JobStep(f) => StepsLeft(f, job[f])' < StepsLeft(f, job[f])]_systemVars
    BY NeverFurther, NearerToTheEnd
  <1> QED
    BY <1>1, <1>2, <1>3, PTL DEF SystemSpec, JobsAdvance

=============================================================================
