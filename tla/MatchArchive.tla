----------------------------- MODULE MatchArchive -----------------------------
(***************************************************************************)
(* The rows of public.matches and the scores in them.  Three programs      *)
(* write the table: runCanonicalSyncAndSettlement (the canonical sync),    *)
(* FixtureIngestionService and the script ingest_real_fixtures.  A fixture *)
(* has one row under an id made of the provider's number and may have more *)
(* under ids made of its canonical name, which ends in the day of kickoff. *)
(*                                                                         *)
(* A sync reads its files, then the table, reconciles the two and upserts  *)
(* every row it has, the ones it only read too; nothing locks the table    *)
(* between.  A read that returns an error counts as an empty table, an     *)
(* error of a write is logged.  Syncs and ingestions overlap, each         *)
(* database call is a step of its own and a sync may die between them.     *)
(*                                                                         *)
(* A score is a number that grows while the match is played.  Names,       *)
(* leagues and venues are the fixture; postponed and cancelled fixtures    *)
(* have no goals and are filed as upcoming like any other.  The copy of    *)
(* the research rows in forecast_archive is left out, and so are dry runs, *)
(* which write nothing.                                                    *)
(***************************************************************************)
EXTENDS Naturals, FiniteSets

CONSTANTS
    Fixtures,
    Syncs,      \* places where the canonical sync runs, one run after another
    NoRow,      \* stands for no row, in the table or among those read
    NoEntry,    \* stands for no entry in the evidence file
    NoScore,    \* null
    MaxScore,   \* bound on the goals
    MaxDay      \* bound on the days a fixture may move to

Scores == 0 .. MaxScore
Days == 1 .. MaxDay

\* <<f, 0>>: the id from the provider's number; <<f, d>>: the one from the name.
Ids == Fixtures \X (0 .. MaxDay)

\* key: day in the canonical name of the row; linked: the row has the provider's
\* number; active: not quarantined.  A row with a score is a verified result.
Rows == [score : Scores \cup {NoScore}, key : Days, linked : BOOLEAN, active : BOOLEAN]
Entries == [day : Days, score : Scores \cup {NoScore}]

ASSUME ArchiveAssumption ==
    /\ MaxScore \in Nat
    /\ MaxDay \in Nat \ {0}
    /\ NoScore \notin Scores
    /\ NoRow \notin Rows
    /\ NoEntry \notin Entries

VARIABLES
    match,      \* per fixture: phase, score and day of kickoff in the world
    evidence,   \* stage_b1_fixture_evidence.json
    early,      \* fixtures and scores that were captured while playing
    settled,    \* live_prediction_ledger.jsonl: per fixture, the settled score
    matches,    \* public.matches
    results,    \* settlement_results: per fixture, the score in its rows
    sync        \* per sync: where it is and what it has read

files == <<evidence, early, settled>>
archiveVars == <<match, files, matches, results, sync>>

World == [phase : {"before", "playing", "over"}, score : Scores, day : Days]

SyncStates == [pc : {"idle", "read", "write", "results"},
               listed : [Fixtures -> Entries \cup {NoEntry}],
               settled : [Fixtures -> Scores \cup {NoScore}],
               seen : [Ids -> Rows \cup {NoRow}]]

NoRows == [i \in Ids |-> NoRow]
IdleSync == [pc |-> "idle", listed |-> [f \in Fixtures |-> NoEntry],
             settled |-> [f \in Fixtures |-> NoScore], seen |-> NoRows]

ArchiveInit ==
    /\ match = [f \in Fixtures |-> [phase |-> "before", score |-> 0, day |-> 1]]
    /\ evidence = [f \in Fixtures |-> NoEntry]
    /\ early = {}
    /\ settled = [f \in Fixtures |-> NoScore]
    /\ matches = NoRows
    /\ results = [f \in Fixtures |-> NoScore]
    /\ sync = [s \in Syncs |-> IdleSync]

-----------------------------------------------------------------------------
(* The world *)

Move(f) ==
    /\ match[f].phase = "before" /\ match[f].day < MaxDay
    /\ match' = [match EXCEPT ![f].day = @ + 1]
    /\ UNCHANGED <<files, matches, results, sync>>

KickOff(f) ==
    /\ match[f].phase = "before"
    /\ match' = [match EXCEPT ![f].phase = "playing"]
    /\ UNCHANGED <<files, matches, results, sync>>

Goal(f) ==
    /\ match[f].phase = "playing" /\ match[f].score < MaxScore
    /\ match' = [match EXCEPT ![f].score = @ + 1]
    /\ UNCHANGED <<files, matches, results, sync>>

FinalWhistle(f) ==
    /\ match[f].phase = "playing"
    /\ match' = [match EXCEPT ![f].phase = "over"]
    /\ UNCHANGED <<files, matches, results, sync>>

\* What the provider says of a fixture: goals from the kickoff on.
Told(f) == [day |-> match[f].day,
            score |-> IF match[f].phase = "before" THEN NoScore ELSE match[f].score]

\* The evidence file is made anew, of the fixtures in some window of days.
Capture ==
    /\ \E fs \in SUBSET Fixtures :
          /\ evidence' = [f \in Fixtures |-> IF f \in fs THEN Told(f) ELSE NoEntry]
          /\ early' = early \cup {<<f, match[f].score>> :
                                    f \in {g \in fs : match[g].phase = "playing"}}
    /\ UNCHANGED <<match, settled, matches, results, sync>>

\* A settlement, with a result that HandicapLab has verified.
Settle(f) ==
    /\ match[f].phase = "over"
    /\ settled' = [settled EXCEPT ![f] = match[f].score]
    /\ UNCHANGED <<match, evidence, early, matches, results, sync>>

\* An operator takes a row out of circulation.
Quarantine(i) ==
    /\ matches[i] # NoRow
    /\ matches' = [matches EXCEPT ![i].active = FALSE]
    /\ UNCHANGED <<match, files, results, sync>>

-----------------------------------------------------------------------------
(* Ingestion *)

\* A mutant: the provider's number is not written.
UpcomingUnnumbered(day, linked) ==
    [score |-> NoScore, key |-> day, linked |-> FALSE, active |-> TRUE]

Upcoming(day, linked) == [score |-> NoScore, key |-> day, linked |-> linked, active |-> TRUE]

\* processAndPersistObservations: sources list whole seasons, played matches too,
\* and may still name an old day.  Goals are always written as null.
Ingest ==
    /\ \E ids \in SUBSET {i \in Ids : i[2] \in 1 .. match[i[1]].day} \ {{}} :
          matches' = [i \in Ids |-> IF i \in ids THEN Upcoming(i[2], FALSE) ELSE matches[i]]
    /\ UNCHANGED <<match, files, results, sync>>

\* ingest_real_fixtures: the same under the provider's number.
IngestByNumber ==
    /\ \E fs \in SUBSET Fixtures \ {{}} :
          matches' = [i \in Ids |-> IF i[1] \in fs /\ i[2] = 0
                                    THEN Upcoming(match[i[1]].day, TRUE) ELSE matches[i]]
    /\ UNCHANGED <<match, files, results, sync>>

-----------------------------------------------------------------------------
(* deduplicateAndReconcileFixtures, on what sync s has read *)

Listed(s) == {f \in Fixtures : sync[s].listed[f] # NoEntry}
Seen(s, f) == {i \in Ids : i[1] = f /\ sync[s].seen[i] # NoRow}
Linked(s, f) == {i \in Seen(s, f) : sync[s].seen[i].linked}
Named(s, f) == {i \in Seen(s, f) : sync[s].seen[i].key = sync[s].listed[f].day}

\* A mutant: rows are only looked for by the provider's number.
TargetsByNumber(s, f) == IF Linked(s, f) # {} THEN Linked(s, f) ELSE {<<f, 0>>}

\* The row that a listed fixture is written to: one with the provider's number,
\* else one with the canonical name, else a new one.
Targets(s, f) ==
    IF Linked(s, f) # {} THEN Linked(s, f)
    ELSE IF Named(s, f) # {} THEN Named(s, f) ELSE {<<f, 0>>}

\* A mutant: missing goals are nil.
IncomingOrNil(s, f) ==
    LET score == IF sync[s].settled[f] # NoScore THEN sync[s].settled[f]
                 ELSE sync[s].listed[f].score
    IN  IF score = NoScore THEN 0 ELSE score

\* A settled row of the ledger goes before the evidence.
Incoming(s, f) ==
    IF sync[s].settled[f] # NoScore THEN sync[s].settled[f] ELSE sync[s].listed[f].score

\* A mutant: the incoming score replaces a verified one.
ReconciledAnew(s, f, row) ==
    [score |-> Incoming(s, f), linked |-> TRUE, active |-> TRUE,
     key |-> IF row = NoRow THEN sync[s].listed[f].day ELSE row.key]

\* A verified result is kept as it is, a conflicting one is blocked.  Otherwise any
\* goals make the match FINISHED and its result verified, whatever its status.
Reconciled(s, f, row) ==
    IF row = NoRow
    THEN [score |-> Incoming(s, f), linked |-> TRUE, active |-> TRUE,
          key |-> sync[s].listed[f].day]
    ELSE IF row.score # NoScore THEN row
    ELSE [row EXCEPT !.score = Incoming(s, f), !.linked = TRUE]

-----------------------------------------------------------------------------
(* The canonical sync *)

Become(s, state) == sync' = [sync EXCEPT ![s] = state]

\* loadCanonicalLocalSnapshot
ReadFiles(s) ==
    /\ sync[s].pc = "idle"
    /\ Become(s, [pc |-> "read", listed |-> evidence, settled |-> settled, seen |-> NoRows])
    /\ UNCHANGED <<match, files, matches, results>>

Active == {i \in Ids : matches[i] # NoRow /\ matches[i].active}
SameName(i, j) == i[1] = j[1] /\ matches[i].key = matches[j].key

\* Of rows with the same canonical name the last one counts; the order is any.  A
\* query that fails leaves no row.
ReadRows(s) ==
    /\ sync[s].pc = "read"
    /\ \E ids \in SUBSET Active :
          /\ ids = {} \/ /\ \A i, j \in ids : SameName(i, j) => i = j
                         /\ \A i \in Active : \E j \in ids : SameName(i, j)
          /\ Become(s, [sync[s] EXCEPT !.pc = "write",
                          !.seen = [i \in Ids |-> IF i \in ids THEN matches[i] ELSE NoRow]])
    /\ UNCHANGED <<match, files, matches, results>>

\* One upsert of the reconciled rows and of all others that were read.
WriteMatches(s, done) ==
    /\ sync[s].pc = "write"
    /\ \E target \in [Listed(s) -> Ids] :
          /\ \A f \in Listed(s) : target[f] \in Targets(s, f)
          /\ matches' = [i \in Ids |->
                IF ~done THEN matches[i]
                ELSE IF i[1] \in Listed(s) /\ target[i[1]] = i
                THEN Reconciled(s, i[1], sync[s].seen[i])
                ELSE IF sync[s].seen[i] # NoRow THEN sync[s].seen[i] ELSE matches[i]]
    /\ Become(s, [IdleSync EXCEPT !.pc = "results", !.settled = sync[s].settled])
    /\ UNCHANGED <<match, files, results>>

\* The settled rows of the ledger, under ids of their own.
WriteResults(s, done) ==
    /\ sync[s].pc = "results"
    /\ results' = [f \in Fixtures |-> IF done /\ sync[s].settled[f] # NoScore
                                      THEN sync[s].settled[f] ELSE results[f]]
    /\ Become(s, IdleSync)
    /\ UNCHANGED <<match, files, matches>>

Die(s) ==
    /\ sync[s].pc # "idle"
    /\ Become(s, IdleSync)
    /\ UNCHANGED <<match, files, matches, results>>

-----------------------------------------------------------------------------
WorldStep ==
    \/ \E f \in Fixtures : Move(f) \/ KickOff(f) \/ Goal(f) \/ FinalWhistle(f) \/ Settle(f)
    \/ \E i \in Ids : Quarantine(i)
    \/ Capture

SyncStep(s) ==
    \/ ReadFiles(s) \/ ReadRows(s) \/ Die(s)
    \/ \E done \in BOOLEAN : WriteMatches(s, done) \/ WriteResults(s, done)

ArchiveNext ==
    \/ WorldStep
    \/ Ingest \/ IngestByNumber
    \/ \E s \in Syncs : SyncStep(s)

ArchiveSpec == ArchiveInit /\ [][ArchiveNext]_archiveVars

-----------------------------------------------------------------------------
(* Properties *)

\* Every variable has its type; a row under the provider's number has that number.
ArchiveTypeOK ==
    /\ match \in [Fixtures -> World]
    /\ evidence \in [Fixtures -> Entries \cup {NoEntry}]
    /\ early \subseteq Fixtures \X Scores
    /\ settled \in [Fixtures -> Scores \cup {NoScore}]
    /\ matches \in [Ids -> Rows \cup {NoRow}]
    /\ results \in [Fixtures -> Scores \cup {NoScore}]
    /\ sync \in [Syncs -> SyncStates]
    /\ \A i \in Ids : i[2] = 0 /\ matches[i] # NoRow => matches[i].linked

\* The score is the final one of the fixture.
Final(f, score) == match[f].phase = "over" /\ score = match[f].score

\* A score that the table shows as verified is final, or is one that the evidence
\* file was given while the match was played: stale files, old readings, failed
\* queries and moved fixtures make up none.
ScoresHaveASource ==
    /\ \A i \in Ids : matches[i] # NoRow /\ matches[i].score # NoScore =>
          Final(i[1], matches[i].score) \/ <<i[1], matches[i].score>> \in early
    /\ \A f \in Fixtures : results[f] # NoScore => Final(f, results[f])

Writes(s) == sync[s].pc = "write" /\ sync'[s].pc = "results"

\* A sync changes a row that exists only when it has read it as active, or when it
\* is the one under the provider's number of a fixture it lists; a score that it has
\* read as verified it leaves, or puts back.
SyncsKnowTheirRows ==
    [][\A s \in Syncs : Writes(s) =>
          \A i \in Ids : matches[i] # NoRow /\ matches'[i] # matches[i] =>
              LET row == sync[s].seen[i]
              IN  IF row = NoRow THEN i[2] = 0 /\ i[1] \in Listed(s)
                  ELSE row.score # NoScore => matches'[i] = row]_archiveVars

\* A sync adds a row for a fixture only when it has read none that has the number or
\* the canonical name its file gives, whatever names the fixture had before it moved.
NoSecondRow ==
    [][\A s \in Syncs : Writes(s) =>
          \A i \in Ids : matches[i] = NoRow /\ matches'[i] # NoRow /\ sync[s].seen[i] = NoRow =>
              Linked(s, i[1]) \cup Named(s, i[1]) = {}]_archiveVars

-----------------------------------------------------------------------------
(* What the documents say and the code does not do *)

\* "Ingest final scorelines from API-Football": a verified result is the final one.
FinalScoresOnly ==
    \A i \in Ids : matches[i] # NoRow /\ matches[i].score # NoScore =>
        Final(i[1], matches[i].score)
=============================================================================
