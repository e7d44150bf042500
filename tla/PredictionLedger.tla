-------------------------- MODULE PredictionLedger --------------------------
(***************************************************************************)
(* The life of a betting position: persistPredictionCycle writes what a    *)
(* prediction cycle found to three tables and to a ledger file, and        *)
(* runProductionSettlement settles the rows of that file once HandicapLab  *)
(* has published results, and copies the outcomes to the database.         *)
(*                                                                         *)
(* Cycles and settlements run side by side, each await is a step of its    *)
(* own, every database call may be executed or not and heard of or not,    *)
(* and a run may die anywhere (functions are killed after 60 seconds).     *)
(*                                                                         *)
(* The file holds rows of two shapes.  The rows it came with are written   *)
(* in camelCase with a predictionId, a market and the provider's fixture   *)
(* id; the rows a cycle appends are snapshots in snake_case, without any   *)
(* key the settlement looks for.  Rows of the first shape have no matchId: *)
(* their scores come from the results HandicapLab publishes, never from    *)
(* public.matches.  Writes are authorised, leagues and markets active.     *)
(***************************************************************************)
EXTENDS SettlementRules, Sequences, FiniteSets, SequencesExt

CONSTANTS
    Cycles,         \* prediction cycles
    Settlers,       \* places where settlements run, one after another
    Matches,
    Quotes,         \* positions that a cycle may find
    FileRows,       \* positions of the rows that the file came with, in order
    Published,      \* results HandicapLab may publish, each for its match
    MaxResults      \* bound on the rows of settlement_results

\* Stands for no result, and for no position.
Nothing == [match |-> "none"]

\* daily_picks, predictions: at most one row per match and market.
Slot(p) == <<p.match, p.market>>
Slots == Matches \X {"AH", "OU"}

Positions == [match : Matches, market : {"AH", "OU", "BTTS"},
              side : {"home", "away", "over", "under", "yes", "no"}, line : Int]

Sides(market) ==
    IF market = "AH" THEN {"home", "away"}
    ELSE IF market = "OU" THEN {"over", "under"} ELSE {"yes", "no"}

ASSUME LedgerAssumption ==
    /\ Quotes \subseteq Positions
    /\ \A p \in Quotes : p.market \in {"AH", "OU"}
    /\ FileRows \in Seq(Positions)
    /\ \A p \in Quotes \cup ToSet(FileRows) : p.side \in Sides(p.market)
    /\ IsInjective(FileRows)
    /\ Published \subseteq [match : Matches, home : Nat, away : Nat, spelled : BOOLEAN]
    /\ MaxResults \in Nat

VARIABLES
    phase,        \* per match: before the 24 hours, inside them, or kicked off
    result,       \* per match: the verified result HandicapLab publishes
    picks,        \* daily_picks: what the cycles wrote, per match and market
    predictions,  \* predictions, per match and market
    ledger,       \* prediction_ledger: the positions, all pending
    file,         \* live_prediction_ledger.jsonl
    oldPicks,     \* status of the daily_picks that rows of the file belong to
    results,      \* settlement_results
    cycle,        \* per cycle: where it is
    settler       \* per settler: where it is

tables == <<picks, predictions, ledger, oldPicks, results>>
ledgerVars == <<phase, result, tables, file, cycle, settler>>

Fresh(p)  == [shape |-> "cycle", pos |-> p, result |-> "PENDING"]
Legacy(p) == [shape |-> "legacy", pos |-> p, result |-> "PENDING"]

IdleCycle   == [pc |-> "idle", todo |-> {}, cur |-> Nothing, fresh |-> <<>>]
DoneCycle   == [pc |-> "done", todo |-> {}, cur |-> Nothing, fresh |-> <<>>]
IdleSettler == [pc |-> "idle", read |-> <<>>, known |-> {}, todo |-> {}]

LedgerInit ==
    /\ phase \in [Matches -> {"early", "window", "started"}]
    /\ result = [m \in Matches |-> Nothing]
    /\ picks = [k \in Slots |-> Nothing]
    /\ predictions = [k \in Slots |-> Nothing]
    /\ ledger = {}
    /\ file = [i \in DOMAIN FileRows |-> Legacy(FileRows[i])]
    /\ oldPicks = [p \in ToSet(FileRows) |-> "PENDING"]
    /\ results = <<>>
    /\ cycle = [c \in Cycles |-> IdleCycle]
    /\ settler = [s \in Settlers |-> IdleSettler]

-----------------------------------------------------------------------------
(* The world *)

TimePasses(m) ==
    /\ phase[m] # "started"
    /\ phase' = [phase EXCEPT ![m] = IF @ = "early" THEN "window" ELSE "started"]
    /\ UNCHANGED <<result, tables, file, cycle, settler>>

Publish(m) ==
    /\ phase[m] = "started"
    /\ result[m] = Nothing
    /\ \E r \in Published : r.match = m /\ result' = [result EXCEPT ![m] = r]
    /\ UNCHANGED <<phase, tables, file, cycle, settler>>

-----------------------------------------------------------------------------
(* persistPredictionCycle *)

\* A cycle finds at most one line for a match and market.
StartCycle(c) ==
    /\ cycle[c].pc = "idle"
    /\ \E found \in SUBSET Quotes \ {{}} :
          /\ \A p, q \in found : Slot(p) = Slot(q) => p = q
          /\ cycle' = [cycle EXCEPT ![c] = [@ EXCEPT !.pc = "pick", !.todo = found]]
    /\ UNCHANGED <<phase, result, tables, file, settler>>

\* daily_picks is upserted on (fixture_id, market_type, source); errors are logged.
UpsertPick(c, done) ==
    /\ cycle[c].pc = "pick"
    /\ \E p \in cycle[c].todo :
          /\ picks' = IF done THEN [picks EXCEPT ![Slot(p)] = p] ELSE picks
          /\ cycle' = [cycle EXCEPT ![c] =
                 [@ EXCEPT !.pc = "prediction", !.todo = cycle[c].todo \ {p}, !.cur = p]]
    /\ UNCHANGED <<phase, result, predictions, ledger, file, oldPicks, results, settler>>

\* The loop goes on; after the last entry the new positions are appended to the
\* file, which may fail.  production_run_ledger.jsonl gets the same lines.
NextEntry(c, fresh) ==
    IF cycle[c].todo # {}
    THEN /\ cycle' = [cycle EXCEPT ![c] = [@ EXCEPT !.pc = "pick", !.cur = Nothing,
                                                    !.fresh = fresh]]
         /\ UNCHANGED file
    ELSE /\ cycle' = [cycle EXCEPT ![c] = DoneCycle]
         /\ \E appended \in BOOLEAN : file' = IF appended THEN file \o fresh ELSE file

\* predictions is upserted on its id.  Only a LAYAK verdict inside the last 24
\* hours before kickoff goes on to the ledger.
UpsertPrediction(c, done, layak) ==
    LET p == cycle[c].cur
    IN  /\ cycle[c].pc = "prediction"
        /\ predictions' = IF done THEN [predictions EXCEPT ![Slot(p)] = p] ELSE predictions
        /\ IF layak /\ phase[p.match] = "window"
           THEN /\ cycle' = [cycle EXCEPT ![c].pc = "probe"]
                /\ UNCHANGED file
           ELSE NextEntry(c, cycle[c].fresh)
        /\ UNCHANGED <<phase, result, picks, ledger, oldPicks, results, settler>>

\* A failed probe counts as "no such row".  The ids read from the file never
\* match: neither shape of row holds a position id under a name looked for.
Probe(c, heard) ==
    /\ cycle[c].pc = "probe"
    /\ IF heard /\ cycle[c].cur \in ledger
       THEN NextEntry(c, cycle[c].fresh)
       ELSE /\ cycle' = [cycle EXCEPT ![c].pc = "insert"]
            /\ UNCHANGED file
    /\ UNCHANGED <<phase, result, tables, settler>>

\* A mutant: the position is written whether or not its id is taken.
InsertTrustingProbe(c, done, heard) ==
    LET p == cycle[c].cur
    IN  /\ cycle[c].pc = "insert"
        /\ heard => done
        /\ ledger' = IF done THEN ledger \cup {p} ELSE ledger
        /\ NextEntry(c, IF heard THEN Append(cycle[c].fresh, Fresh(p)) ELSE cycle[c].fresh)
        /\ UNCHANGED <<phase, result, picks, predictions, oldPicks, results, settler>>

\* The id derives from the position, and is the primary key.
Insert(c, done, heard) ==
    LET p == cycle[c].cur
    IN  /\ cycle[c].pc = "insert"
        /\ done => p \notin ledger
        /\ heard => done
        /\ ledger' = IF done THEN ledger \cup {p} ELSE ledger
        /\ NextEntry(c, IF heard THEN Append(cycle[c].fresh, Fresh(p)) ELSE cycle[c].fresh)
        /\ UNCHANGED <<phase, result, picks, predictions, oldPicks, results, settler>>

CrashCycle(c) ==
    /\ cycle[c].pc \notin {"idle", "done"}
    /\ cycle' = [cycle EXCEPT ![c] = DoneCycle]
    /\ UNCHANGED <<phase, result, tables, file, settler>>

-----------------------------------------------------------------------------
(* runProductionSettlement *)

Outcome(p) ==
    LET r == result[p.match]
    IN  SettlePosition(p.market, p.side, p.line, r.spelled, r.home, r.away)

\* canonicalMatchId and the provider's fixture id lead to a published result.
Resolved(row, known) == row.shape = "legacy" /\ row.pos.match \in known

\* A mutant: a row without a score is written back as pending.
SettleRowAnew(row, known) ==
    [row EXCEPT !.result = IF Resolved(row, known) THEN Outcome(row.pos) ELSE "PENDING"]

\* Every row with a score is settled, settled ones again; others are kept.
SettleRow(row, known) ==
    IF Resolved(row, known) THEN [row EXCEPT !.result = Outcome(row.pos)] ELSE row

\* The lines whose outcome goes to the database.
Snapshots(rows, known) ==
    {i \in DOMAIN rows : Resolved(rows[i], known) /\ rows[i].pos.market \in {"AH", "OU"}}

\* The first of the lines that are left, and its position.
Line(s) == CHOOSE i \in settler[s].todo : \A j \in settler[s].todo : i <= j
Position(s) == settler[s].read[Line(s)].pos

\* A mutant: half a win or loss is filed as a push.
PickStatusInFull(outcome) ==
    IF outcome = "WIN" THEN "WON" ELSE IF outcome = "LOSS" THEN "LOST" ELSE "PUSH"

PickStatus(outcome) ==
    IF outcome \in {"WIN", "HALF_WIN"} THEN "WON"
    ELSE IF outcome \in {"LOSS", "HALF_LOSS"} THEN "LOST"
    ELSE "PUSH"

ReadFile(s) ==
    /\ settler[s].pc = "idle"
    /\ settler' = [settler EXCEPT ![s] = [@ EXCEPT !.pc = "scores", !.read = file]]
    /\ UNCHANGED <<phase, result, tables, file, cycle>>

\* The contract answers with what is published, or fails and leaves no score.
ReadScores(s, heard) ==
    /\ settler[s].pc = "scores"
    /\ settler' = [settler EXCEPT ![s] =
           [@ EXCEPT !.pc = "rewrite",
                     !.known = IF heard THEN {m \in Matches : result[m] # Nothing} ELSE {}]]
    /\ UNCHANGED <<phase, result, tables, file, cycle>>

\* The mutant: only the settled lines are collected.
RewriteSettledOnly(s) ==
    LET rows  == settler[s].read
        known == settler[s].known
        todo  == Snapshots(rows, known)
    IN  /\ settler[s].pc = "rewrite"
        /\ file' = SelectSeq([i \in DOMAIN rows |-> SettleRow(rows[i], known)],
                             LAMBDA row : row.result # "PENDING")
        /\ settler' = [settler EXCEPT ![s] =
               IF todo = {} THEN IdleSettler ELSE [@ EXCEPT !.pc = "pick", !.todo = todo]]
        /\ UNCHANGED <<phase, result, tables, cycle>>

\* The whole file is written anew from the rows read before the awaits.
Rewrite(s) ==
    LET rows  == settler[s].read
        known == settler[s].known
        todo  == Snapshots(rows, known)
    IN  /\ settler[s].pc = "rewrite"
        /\ file' = IF rows = <<>> THEN file
                   ELSE [i \in DOMAIN rows |-> SettleRow(rows[i], known)]
        /\ settler' = [settler EXCEPT ![s] =
               IF todo = {} THEN IdleSettler ELSE [@ EXCEPT !.pc = "pick", !.todo = todo]]
        /\ UNCHANGED <<phase, result, tables, cycle>>

\* daily_picks is updated by prediction_id.  The update of prediction_ledger by
\* (match_id, market) finds no row: the file has the provider's number where the
\* table has a UUID.
UpdatePick(s, done) ==
    LET p == Position(s)
    IN  /\ settler[s].pc = "pick"
        /\ oldPicks' = IF done THEN [oldPicks EXCEPT ![p] = PickStatus(Outcome(p))]
                       ELSE oldPicks
        /\ settler' = [settler EXCEPT ![s].pc = "probe"]
        /\ UNCHANGED <<phase, result, picks, predictions, ledger, results, file, cycle>>

\* A mutant: the loop runs once too often.
NextSnapshotOnceMore(s) ==
    settler' = [settler EXCEPT ![s] =
        IF @.todo = {} THEN IdleSettler
        ELSE [@ EXCEPT !.pc = "pick", !.todo = settler[s].todo \ {Line(s)}]]

NextSnapshot(s) ==
    settler' = [settler EXCEPT ![s] =
        IF @.todo = {Line(s)} THEN IdleSettler
        ELSE [@ EXCEPT !.pc = "pick", !.todo = settler[s].todo \ {Line(s)}]]

HasResult(p) == \E i \in DOMAIN results : Slot(results[i]) = Slot(p)

\* The error of a failed probe is dropped: no data counts as no row.
ProbeResult(s, heard) ==
    LET p == Position(s)
    IN  /\ settler[s].pc = "probe"
        /\ IF heard /\ HasResult(p) THEN NextSnapshot(s)
           ELSE settler' = [settler EXCEPT ![s].pc = "insert"]
        /\ UNCHANGED <<phase, result, tables, file, cycle>>

\* The row copies the bet, its side by the names in public.matches, which has no
\* match of that number: a handicap bet is filed under home.
InsertResult(s, done) ==
    LET p == Position(s)
        side == IF p.market = "AH" THEN "home" ELSE p.side
    IN  /\ settler[s].pc = "insert"
        /\ done => Len(results) < MaxResults
        /\ results' = IF done
                      THEN Append(results, [match |-> p.match, market |-> p.market,
                                            side |-> side, line |-> p.line,
                                            outcome |-> Outcome(p)])
                      ELSE results
        /\ NextSnapshot(s)
        /\ UNCHANGED <<phase, result, picks, predictions, ledger, oldPicks, file, cycle>>

\* An exception, a file system that cannot be written to, or the end of the time.
CrashSettler(s) ==
    /\ settler[s].pc # "idle"
    /\ settler' = [settler EXCEPT ![s] = IdleSettler]
    /\ UNCHANGED <<phase, result, tables, file, cycle>>

-----------------------------------------------------------------------------
CycleStep(c) ==
    \/ StartCycle(c)
    \/ \E done \in BOOLEAN : UpsertPick(c, done)
    \/ \E done, layak \in BOOLEAN : UpsertPrediction(c, done, layak)
    \/ \E heard \in BOOLEAN : Probe(c, heard)
    \/ \E done, heard \in BOOLEAN : Insert(c, done, heard)
    \/ CrashCycle(c)

SettlerStep(s) ==
    \/ ReadFile(s)
    \/ \E heard \in BOOLEAN : ReadScores(s, heard)
    \/ Rewrite(s)
    \/ \E done \in BOOLEAN : UpdatePick(s, done)
    \/ \E heard \in BOOLEAN : ProbeResult(s, heard)
    \/ \E done \in BOOLEAN : InsertResult(s, done)
    \/ CrashSettler(s)

LedgerNext ==
    \/ \E m \in Matches : TimePasses(m) \/ Publish(m)
    \/ \E c \in Cycles : CycleStep(c)
    \/ \E s \in Settlers : SettlerStep(s)

LedgerSpec == LedgerInit /\ [][LedgerNext]_ledgerVars

-----------------------------------------------------------------------------
Rows == [shape : {"cycle", "legacy"}, pos : Quotes \cup ToSet(FileRows),
         result : Outcomes \cup {"PENDING"}]

IsStatus(s) == s \in {"PENDING", "WON", "LOST", "PUSH"}

\* The type of the state; a table has one row per key, and what cycles write to
\* the ledger are positions they may find.
LedgerTypeOK ==
    /\ phase \in [Matches -> {"early", "window", "started"}]
    /\ \A m \in Matches : result[m] # Nothing => result[m] \in Published /\ result[m].match = m
    /\ \A k \in Slots : /\ picks[k] # Nothing => picks[k] \in Quotes /\ Slot(picks[k]) = k
                        /\ predictions[k] # Nothing
                             => predictions[k] \in Quotes /\ Slot(predictions[k]) = k
    /\ ledger \subseteq Quotes
    /\ \A i \in DOMAIN file : file[i] \in Rows
    /\ \A p \in ToSet(FileRows) : IsStatus(oldPicks[p])
    /\ Len(results) <= MaxResults
    /\ \A c \in Cycles : \A i \in DOMAIN cycle[c].fresh : cycle[c].fresh[i] \in Rows
    /\ \A s \in Settlers : /\ \A i \in DOMAIN settler[s].read : settler[s].read[i] \in Rows
                           /\ settler[s].pc \in {"pick", "probe", "insert"}
                                 => settler[s].todo # {}

Of(shape) == {i \in DOMAIN file : file[i].shape = shape}

\* A position of a cycle is in the file at most once and then in the database
\* too, whatever cycles overlap and whichever probes and replies are lost: the
\* primary key decides, and only its winner appends ("First qualifying snapshot
\* wins").
FirstSnapshotWins ==
    /\ \A i \in Of("cycle") : file[i].pos \in ledger
    /\ \A i, j \in Of("cycle") : file[i].pos = file[j].pos => i = j

\* The rows the file came with are all there, in their order and before those of
\* the cycles: rewriting the file from an old reading loses none of them, whatever
\* was settled, failed or died.
HistoryKept ==
    /\ Len(FileRows) <= Len(file)
    /\ \A i \in DOMAIN file :
          IF i \in DOMAIN FileRows THEN file[i].shape = "legacy" /\ file[i].pos = FileRows[i]
          ELSE file[i].shape = "cycle"

MarginOf(p) ==
    LET r == result[p.match]
    IN  IF p.market = "AH" THEN HandicapMargin(p.side, p.line, r.home, r.away)
        ELSE TotalMargin(p.side = "over", p.line, r.home + r.away)

\* What a settled row pays is what half a stake on each neighbouring line pays at
\* the published score: no row is settled early, on another match's score or on
\* the wrong half of a quarter line.  Handicap bets on an away team that the
\* source spells otherwise are left out (they are settled as home).
SettledAsSplitStake ==
    \A i \in DOMAIN file :
        LET p == file[i].pos
        IN  file[i].result # "PENDING" =>
            /\ result[p.match] # Nothing
            /\ p.market \in {"AH", "OU"} /\ (p.side # "away" \/ result[p.match].spelled) =>
                  \A odds \in {1500, 1961} :
                      Profit(file[i].result, odds) = SplitStake(MarginOf(p), p.line, odds)

\* The copies in the database never tell another story than the file's outcome:
\* a pick that is won or lost, and a row of settlement_results, belong to a bet of
\* the file that ended so, although they are written long after the file.
CopiesAgree ==
    /\ \A p \in DOMAIN oldPicks :
          /\ oldPicks[p] = "WON"  => Profit(Outcome(p), 1500) > 0
          /\ oldPicks[p] = "LOST" => Profit(Outcome(p), 1500) < 0
          /\ oldPicks[p] = "PUSH" => Profit(Outcome(p), 1500) = 0
    /\ \A i \in DOMAIN results :
          \E p \in ToSet(FileRows) : Slot(p) = Slot(results[i]) /\ results[i].outcome = Outcome(p)

\* With settlements that do not overlap, a settled row never goes back to pending:
\* neither a failed query of the scores nor a death undoes it.
SettlementStands ==
    [][\A i \in DOMAIN file : file[i].result # "PENDING" => file'[i].result # "PENDING"]_file

-----------------------------------------------------------------------------
(* What the documents say and the code does not do *)

\* "Run quarter-line settlement engine to settle PENDING predictions": a run that
\* has a score for a match leaves no handicap or total row of it pending.
KnownRowsSettle ==
    [][\A s \in Settlers : settler[s].pc = "rewrite" /\ Rewrite(s) =>
          \A i \in DOMAIN file' :
              /\ file'[i].pos.match \in settler[s].known
              /\ file'[i].pos.market \in {"AH", "OU"}
              => file'[i].result # "PENDING"]_ledgerVars
=============================================================================
