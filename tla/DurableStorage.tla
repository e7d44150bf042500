--------------------------- MODULE DurableStorage ---------------------------
(***************************************************************************)
(* The daily refresh and its storage: runDailyRefresh evaluates the        *)
(* upcoming matches and persistDailyPredictions writes what it found to    *)
(* daily_prediction_refresh_ledger, publishes the public picks in          *)
(* daily_picks and keeps a copy in a file of the instance; when the        *)
(* database fails, the file is all there is and the report says so.        *)
(*                                                                         *)
(* Runs of several instances overlap; each database call is a step of its  *)
(* own, may be executed or not and heard of or not; writing the file may   *)
(* fail; a run may die anywhere; a restart of an instance loses its file.  *)
(* Everything before the first write only reads and is one step.           *)
(*                                                                         *)
(* A record carries the run that made it (its timestamp and provenance).   *)
(* All evaluations pass verifyRecordIntegrity.  The injected test client   *)
(* is left out.                                                            *)
(***************************************************************************)
EXTENDS Naturals, FiniteSets, FiniteSetsExt

CONSTANTS
    Runs,        \* calls of runDailyRefresh
    Instances,   \* server instances, each with a file of its own
    Keys,        \* positions: match, market and line
    NoRecord,    \* stands for no record
    MaxBoots,    \* bound on the restarts of an instance
    Limit        \* rows that a query asks for

Markets == {"AH", "OU", "BTTS"}

ASSUME StorageAssumption ==
    /\ \A k \in Keys : k.market \in Markets
    /\ MaxBoots \in Nat
    /\ Limit \in Nat

Records == {r \in [key : Keys, by : Runs, public : BOOLEAN] :
               r.public => r.key.market # "BTTS"}

ASSUME NoRecordAssumption == NoRecord \notin Records

\* daily_picks has one live row per fixture and market type.
SlotOf(k) == <<k.match, IF k.market = "AH" THEN "ASIAN_HANDICAP" ELSE "OVER_UNDER">>
Slots == {SlotOf(k) : k \in Keys}

VARIABLES
    ledger,   \* daily_prediction_refresh_ledger: per position, its record
    picks,    \* daily_picks: per slot, the record that was published
    file,     \* per instance and position: its row in the local file
    boot,     \* per instance: how often it was restarted
    run       \* per run: where it is and what it reported

durableVars == <<ledger, picks, file, boot, run>>

\* What a run was asked to do: nothing is written, only the file is, the
\* database is asked for but refused by the write guard, or it is written.
Asked == {"dry", "file", "refused", "database"}

RunStates == [pc : {"idle", "upsert", "stored", "fallback", "reported", "failed", "dead"},
              inst : Instances, boot : 0 .. MaxBoots, asked : Asked,
              preds : SUBSET Records, todo : SUBSET Records,
              durable : BOOLEAN, healthy : BOOLEAN]

IdleRun(i) == [pc |-> "idle", inst |-> i, boot |-> 0, asked |-> "dry", preds |-> {},
               todo |-> {}, durable |-> FALSE, healthy |-> FALSE]

DurableInit ==
    /\ ledger = [k \in Keys |-> NoRecord]
    /\ picks = [s \in Slots |-> NoRecord]
    /\ file = [i \in Instances |-> [k \in Keys |-> NoRecord]]
    /\ boot = [i \in Instances |-> 0]
    /\ run \in [Runs -> {IdleRun(i) : i \in Instances}]

-----------------------------------------------------------------------------
(* What a run finds *)

\* Stages 3 and 4: fixtures of unknown leagues, of teams that are the same, begun,
\* seen before or without a source of odds are dropped.
Admitted == SUBSET {k.match : k \in Keys}

Own(r, m, market) == {p \in Records : p.by = r /\ p.key.match = m /\ p.key.market = market}

\* At most one line, the one the odds are for; odds that are missing or out of
\* bounds leave none.  Its pick is public when every gate passes, the league is
\* promoted and the run publishes.
AhFound(r, m) == {{}} \cup {{p} : p \in Own(r, m, "AH")}
OuFound(r, m) == {{}} \cup {{p} : p \in Own(r, m, "OU")}

\* There with or without odds, and never public.
BttsFound(r, m) == Own(r, m, "BTTS")

Found(r, m) == {a \cup o \cup BttsFound(r, m) : a \in AhFound(r, m), o \in OuFound(r, m)}

Evaluations(r) ==
    {ps \in SUBSET {p \in Records : p.by = r} :
        \E admitted \in Admitted :
            /\ {p.key.match : p \in ps} \subseteq admitted
            /\ \A m \in admitted : {p \in ps : p.key.match = m} \in Found(r, m)}

\* A mutant: the verdicts are filtered, the audience is not.
EveryPick(ps) == ps

PublicPicks(ps) == {p \in ps : p.public}

\* A mutant: ON CONFLICT DO UPDATE.
WithLast(rows, ps) ==
    [k \in Keys |-> IF \E p \in ps : p.key = k THEN CHOOSE p \in ps : p.key = k ELSE rows[k]]

\* ON CONFLICT DO NOTHING, and the file's own check of its keys: a position that
\* has a record keeps it.
WithFirst(rows, ps) ==
    [k \in Keys |-> IF rows[k] = NoRecord /\ \E p \in ps : p.key = k
                    THEN CHOOSE p \in ps : p.key = k
                    ELSE rows[k]]

-----------------------------------------------------------------------------
(* Reports *)

\* A mutant: the health is that of the fixtures alone.
HealthyFixtures(r, durable, clean) == clean

\* pipelineHealth is SUCCESS.  clean: nothing but storage keeps it from that: the
\* protected ledgers have the hashes the code expects, which they lose as soon as a
\* cycle or a settlement of the instance rewrites them, and no fixture lacked odds.
Healthy(r, durable, clean) ==
    clean /\ ~(run[r].asked \in {"refused", "database"} /\ ~durable)

Report(r, durable) ==
    \E clean \in BOOLEAN :
        run' = [run EXCEPT ![r] = [@ EXCEPT !.pc = "reported", !.durable = durable,
                                            !.healthy = Healthy(r, durable, clean)]]

\* An exception ends in a report of its own, PIPELINE_FAILED, that lists nothing.
Fail(r) == run' = [run EXCEPT ![r].pc = "failed"]

\* persistToLocalFile is synchronous.
Save(r) ==
    LET i == run[r].inst
    IN  file' = [file EXCEPT ![i] = WithFirst(file[i], run[r].preds)]

-----------------------------------------------------------------------------
(* The steps of a run *)

\* Stages 1 to 8; preds is what there is to persist.  A dry run, like one that finds
\* nothing, goes straight to its report.
Evaluate(r) ==
    /\ run[r].pc = "idle"
    /\ \E ps \in Evaluations(r), asked \in Asked :
          /\ asked = "dry" <=> ps = {}
          /\ run' = [run EXCEPT ![r] =
                [@ EXCEPT !.pc = IF asked = "dry" THEN "reported"
                                 ELSE IF asked = "database" THEN "upsert" ELSE "fallback",
                          !.boot = boot[run[r].inst], !.asked = asked, !.preds = ps]]
    /\ UNCHANGED <<ledger, picks, file, boot>>

\* A mutant: the error that the call returns is not looked at.
UpsertUnchecked(r, done, heard) ==
    /\ run[r].pc = "upsert"
    /\ ledger' = IF done THEN WithFirst(ledger, run[r].preds) ELSE ledger
    /\ run' = [run EXCEPT ![r] =
          IF heard
          THEN [@ EXCEPT !.pc = "stored", !.todo = PublicPicks(run[r].preds)]
          ELSE [@ EXCEPT !.pc = "fallback"]]
    /\ UNCHANGED <<picks, file, boot>>

\* A mutant: the picks are collected before the answer is looked at.
UpsertCollecting(r, done, heard) ==
    /\ run[r].pc = "upsert"
    /\ ledger' = IF done THEN WithFirst(ledger, run[r].preds) ELSE ledger
    /\ run' = [run EXCEPT ![r] =
          [@ EXCEPT !.pc = IF done /\ heard THEN "stored" ELSE "fallback",
                    !.todo = PublicPicks(run[r].preds)]]
    /\ UNCHANGED <<picks, file, boot>>

\* All records in one statement; an error, or no client, leaves the file.
Upsert(r, done, heard) ==
    /\ run[r].pc = "upsert"
    /\ ledger' = IF done THEN WithFirst(ledger, run[r].preds) ELSE ledger
    /\ run' = [run EXCEPT ![r] =
          IF done /\ heard
          THEN [@ EXCEPT !.pc = "stored", !.todo = PublicPicks(run[r].preds)]
          ELSE [@ EXCEPT !.pc = "fallback"]]
    /\ UNCHANGED <<picks, file, boot>>

\* The error that the call returns is ignored.
UpsertPick(r, done) ==
    /\ run[r].pc = "stored"
    /\ \E p \in run[r].todo :
          /\ picks' = IF done THEN [picks EXCEPT ![SlotOf(p.key)] = p] ELSE picks
          /\ run' = [run EXCEPT ![r].todo = @ \ {p}]
    /\ UNCHANGED <<ledger, file, boot>>

\* A mutant: no copy when the database has the records.
ConcludeWithoutCopy(r, saved) ==
    /\ run[r].pc = "stored"
    /\ run[r].todo = {}
    /\ Report(r, TRUE)
    /\ UNCHANGED <<ledger, picks, file, boot>>

\* The copy in the file comes last.  Failing to write it is caught like a failed
\* database: the file is tried once more and the run is reported as degraded.
Conclude(r, saved) ==
    /\ run[r].pc = "stored"
    /\ run[r].todo = {}
    /\ IF saved
       THEN Report(r, TRUE) /\ Save(r)
       ELSE run' = [run EXCEPT ![r].pc = "fallback"] /\ UNCHANGED file
    /\ UNCHANGED <<ledger, picks, boot>>

\* A mutant: a copy in the file counts as durable.
FallBackDurable(r, saved) ==
    /\ run[r].pc = "fallback"
    /\ IF saved THEN Report(r, TRUE) /\ Save(r) ELSE Fail(r) /\ UNCHANGED file
    /\ UNCHANGED <<ledger, picks, boot>>

\* Only the file is left, and writing it may fail too.
FallBack(r, saved) ==
    /\ run[r].pc = "fallback"
    /\ IF saved THEN Report(r, FALSE) /\ Save(r) ELSE Fail(r) /\ UNCHANGED file
    /\ UNCHANGED <<ledger, picks, boot>>

-----------------------------------------------------------------------------
(* The world *)

Running(r) == run[r].pc \in {"upsert", "stored", "fallback"}

\* The process of the run ends.  (External: the one route that runs a refresh asks for
\* a dry run, so whoever runs it with writes decides how long it may take.)
Die(r) ==
    /\ Running(r)
    /\ run' = [run EXCEPT ![r].pc = "dead"]
    /\ UNCHANGED <<ledger, picks, file, boot>>

\* A new container comes with the files of the deployment.
Restart(i) ==
    /\ boot[i] < MaxBoots
    /\ boot' = [boot EXCEPT ![i] = @ + 1]
    /\ file' = [file EXCEPT ![i] = [k \in Keys |-> NoRecord]]
    /\ run' = [r \in Runs |-> IF run[r].inst = i /\ Running(r)
                              THEN [run[r] EXCEPT !.pc = "dead"] ELSE run[r]]
    /\ UNCHANGED <<ledger, picks>>

DurableNext ==
    \/ \E r \in Runs : \/ Evaluate(r)
                       \/ \E done, heard \in BOOLEAN : Upsert(r, done, heard)
                       \/ \E done \in BOOLEAN : UpsertPick(r, done)
                       \/ \E saved \in BOOLEAN : Conclude(r, saved) \/ FallBack(r, saved)
                       \/ Die(r)
    \/ \E i \in Instances : Restart(i)

DurableSpec == DurableInit /\ [][DurableNext]_durableVars

-----------------------------------------------------------------------------
(* Queries *)

Rows(table) == {table[k] : k \in Keys} \ {NoRecord}

\* How the attempt to ask the database ends: with rows, with an error, or before it
\* starts, because no client can be built.
Ways == {"rows", "error", "no client"}

\* A mutant: the rows of the file for an error.
AnswersEither(i, way) ==
    {[success |-> TRUE, data |-> IF way = "rows" THEN Rows(ledger) ELSE Rows(file[i])]}

\* queryLatestPredictionsWithStatus on instance i: the database gives at most Limit
\* rows, in any order; otherwise the file is read, and only an error is told.
Answers(i, way) ==
    IF way # "rows"
    THEN {[success |-> way = "no client", data |-> Rows(file[i])]}
    ELSE IF Cardinality(Rows(ledger)) <= Limit
    THEN {[success |-> TRUE, data |-> Rows(ledger)]}
    ELSE {[success |-> TRUE, data |-> d] : d \in kSubset(Limit, Rows(ledger))}

KeysOf(rows) == {p.key : p \in rows}

-----------------------------------------------------------------------------
(* Properties *)

\* Every variable has its type, and only a run that heard from the ledger has
\* picks to publish, public ones of its own.
DurableTypeOK ==
    /\ ledger \in [Keys -> Records \cup {NoRecord}]
    /\ picks \in [Slots -> Records \cup {NoRecord}]
    /\ file \in [Instances -> [Keys -> Records \cup {NoRecord}]]
    /\ boot \in [Instances -> 0 .. MaxBoots]
    /\ run \in [Runs -> RunStates]
    /\ \A r \in Runs : /\ run[r].todo \subseteq PublicPicks(run[r].preds)
                       /\ run[r].todo # {} => run[r].pc \in {"stored", "dead"}

\* Positions that some run reported as durable across restarts.
Promised == UNION {KeysOf(run[r].preds) : r \in {q \in Runs : run[q].durable}}

\* isDurableAcrossRestarts is said only of a run whose every position is in the
\* database, whatever other runs, restarts and lost answers did before and after.
DurableMeansStored == \A k \in Promised : ledger[k] # NoRecord

\* A run that was asked to write to the database and reports health SUCCESS left
\* no position behind (F-02: degradation is propagated to pipelineHealth).
HealthHonest ==
    \A r \in Runs :
        run[r].healthy /\ run[r].asked \in {"refused", "database"}
            => \A p \in run[r].preds : ledger[p.key] # NoRecord

\* No run replaces a record that the database or the file of an instance has:
\* the first evaluation of a position is the one that counts.
RecordsImmutable ==
    [][/\ \A k \in Keys : ledger[k] # NoRecord => ledger'[k] = ledger[k]
       /\ \A i \in Instances : boot'[i] = boot[i] =>
             \A k \in Keys : file[i][k] # NoRecord => file'[i][k] = file[i][k]]_durableVars

\* What the refreshes put into daily_picks was recorded in the ledger first, stands in
\* the slot of its own market, and is never a BTTS position.  (The prediction engine
\* upserts picks of its own, which no record of a refresh stands behind.)
PicksAreRecorded ==
    \A s \in Slots : picks[s] # NoRecord =>
        /\ picks[s].public
        /\ SlotOf(picks[s].key) = s
        /\ picks[s].key.market # "BTTS"
        /\ ledger[picks[s].key] # NoRecord

\* The position of a record is the one it is stored under, so a run's copy is
\* found where the report says it is: a run that reported, and whose instance was
\* not restarted since, has each of its positions in the file of that instance.
CopyKept ==
    \A r \in Runs :
        run[r].pc = "reported" /\ boot[run[r].inst] = run[r].boot
            => \A p \in run[r].preds : LET row == file[run[r].inst][p.key]
                                       IN  row # NoRecord /\ row.key = p.key

\* A query that reports success has found every position that was ever promised,
\* unless the limit cut it off or no client could be built: that case passes for
\* success too (F-01 has queries tell an empty table from an error).
AnswersAreHonest ==
    Cardinality(Rows(ledger)) <= Limit =>
        \A i \in Instances, way \in Ways : \A a \in Answers(i, way) :
            a.success /\ ~(Promised \subseteq KeysOf(a.data)) => way = "no client"

\* The detailed storage implements the abstract one.
Store == INSTANCE PositionStore WITH stored <- ledger, promised <- Promised
StoreImplemented == Store!StoreSpec
=============================================================================
