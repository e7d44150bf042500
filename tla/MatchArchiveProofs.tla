-------------------------- MODULE MatchArchiveProofs --------------------------
(***************************************************************************)
(* Proofs about MatchArchive: types, where the scores in the table come    *)
(* from, and what a sync may do to rows.                                   *)
(*                                                                         *)
(* A score is sourced when it is final or was captured early, which no     *)
(* step takes back; the invariant says so of the scores in the files, in   *)
(* the table and in everything a sync has read, however old the reading.   *)
(***************************************************************************)
EXTENDS MatchArchive, TLAPS

Sourced(f, score) == Final(f, score) \/ <<f, score>> \in early

FilesSourced ==
    \A f \in Fixtures :
        /\ evidence[f] # NoEntry /\ evidence[f].score # NoScore
              => Sourced(f, evidence[f].score)
        /\ settled[f] # NoScore => Final(f, settled[f])

TableSourced ==
    \A i \in Ids : matches[i] # NoRow /\ matches[i].score # NoScore
                      => Sourced(i[1], matches[i].score)

ResultsFinal == \A f \in Fixtures : results[f] # NoScore => Final(f, results[f])

SyncSourced(s) ==
    /\ \A f \in Fixtures :
          /\ sync[s].listed[f] # NoEntry /\ sync[s].listed[f].score # NoScore
                => Sourced(f, sync[s].listed[f].score)
          /\ sync[s].settled[f] # NoScore => Final(f, sync[s].settled[f])
    /\ \A i \in Ids : sync[s].seen[i] # NoRow =>
          /\ sync[s].seen[i].score # NoScore => Sourced(i[1], sync[s].seen[i].score)
          /\ sync[s].seen[i].active
          /\ i[2] = 0 => sync[s].seen[i].linked

ArchiveInv ==
    /\ ArchiveTypeOK
    /\ FilesSourced
    /\ TableSourced
    /\ ResultsFinal
    /\ \A s \in Syncs : SyncSourced(s)

-----------------------------------------------------------------------------
(* Sources stay *)

MatchMoves ==
    /\ match' \in [Fixtures -> World]
    /\ \A f \in Fixtures : match[f].phase = "over" => match'[f] = match[f]

LEMMA MatchStays ==
    ASSUME ArchiveTypeOK, ArchiveNext
    PROVE  MatchMoves /\ early \subseteq early'
<1> USE DEF ArchiveTypeOK
<1>a. ASSUME NEW f \in Fixtures, Move(f) PROVE MatchMoves /\ early' = early
  <2>1. match[f] \in World OBVIOUS
  <2>2. [match[f] EXCEPT !.day = @ + 1] \in World
    BY <1>a, <2>1, ArchiveAssumption DEF Move, World, Days
  <2> QED BY <1>a, <2>1, <2>2 DEF Move, MatchMoves, files
<1>b. ASSUME NEW f \in Fixtures, KickOff(f) PROVE MatchMoves /\ early' = early
  <2>1. match[f] \in World OBVIOUS
  <2>2. [match[f] EXCEPT !.phase = "playing"] \in World BY <2>1 DEF World
  <2> QED BY <1>b, <2>1, <2>2 DEF KickOff, MatchMoves, files
<1>c. ASSUME NEW f \in Fixtures, Goal(f) PROVE MatchMoves /\ early' = early
  <2>1. match[f] \in World OBVIOUS
  <2>2. [match[f] EXCEPT !.score = @ + 1] \in World
    BY <1>c, <2>1, ArchiveAssumption DEF Goal, World, Scores
  <2> QED BY <1>c, <2>1, <2>2 DEF Goal, MatchMoves, files
<1>d. ASSUME NEW f \in Fixtures, FinalWhistle(f) PROVE MatchMoves /\ early' = early
  <2>1. match[f] \in World OBVIOUS
  <2>2. [match[f] EXCEPT !.phase = "over"] \in World BY <2>1 DEF World
  <2> QED BY <1>d, <2>1, <2>2 DEF FinalWhistle, MatchMoves, files
<1>e. ASSUME match' = match, early \subseteq early'
      PROVE  MatchMoves /\ early \subseteq early'
  BY <1>e DEF MatchMoves
<1>f. CASE Capture BY <1>e, <1>f DEF Capture
<1>g. ASSUME NEW f \in Fixtures, Settle(f) PROVE MatchMoves /\ early \subseteq early'
  BY <1>e, <1>g DEF Settle
<1>h. ASSUME NEW i \in Ids, Quarantine(i) PROVE MatchMoves /\ early \subseteq early'
  BY <1>e, <1>h DEF Quarantine, files
<1>i. CASE WorldStep
  BY <1>a, <1>b, <1>c, <1>d, <1>f, <1>g, <1>h, <1>i DEF WorldStep
<1>j. CASE Ingest \/ IngestByNumber
  BY <1>e, <1>j DEF Ingest, IngestByNumber, files
<1>k. CASE \E s \in Syncs : SyncStep(s)
  BY <1>e, <1>k DEF SyncStep, ReadFiles, ReadRows, Die, WriteMatches, WriteResults, files
<1> QED BY <1>i, <1>j, <1>k DEF ArchiveNext

\* What is final stays final, what is sourced stays sourced.
LEMMA SourcesStay ==
    ASSUME ArchiveTypeOK, ArchiveNext
    PROVE  \A f \in Fixtures, score \in Scores :
               /\ Final(f, score) => Final(f, score)'
               /\ Sourced(f, score) => Sourced(f, score)'
BY MatchStays DEF MatchMoves, Final, Sourced

-----------------------------------------------------------------------------
(* Types of parts *)

LEMMA IdParts == \A i \in Ids : i[1] \in Fixtures /\ i[2] \in 0 .. MaxDay
BY DEF Ids

LEMMA ParseId == \A f \in Fixtures, d \in 0 .. MaxDay : <<f, d>> \in Ids
BY DEF Ids

LEMMA SyncParts ==
    ASSUME ArchiveTypeOK, NEW s \in Syncs
    PROVE  /\ sync[s].listed \in [Fixtures -> Entries \cup {NoEntry}]
           /\ sync[s].settled \in [Fixtures -> Scores \cup {NoScore}]
           /\ sync[s].seen \in [Ids -> Rows \cup {NoRow}]
           /\ sync[s].pc \in {"idle", "read", "write", "results"}
<1>1. sync[s] \in SyncStates BY DEF ArchiveTypeOK
<1> QED BY <1>1 DEF SyncStates

LEMMA IdleTyped == IdleSync \in SyncStates /\ NoRows \in [Ids -> Rows \cup {NoRow}]
BY DEF IdleSync, SyncStates, NoRows

-----------------------------------------------------------------------------
(* Reconciliation *)

\* The rows a sync may write to have been read, or are those under the number.
LEMMA TargetsAre ==
    ASSUME NEW s, NEW f \in Fixtures, NEW i \in Targets(s, f)
    PROVE  /\ i \in Ids
           /\ i[1] = f
           /\ \/ i \in Seen(s, f)
              \/ i = <<f, 0>> /\ Linked(s, f) \cup Named(s, f) = {}
<1>1. CASE Linked(s, f) # {} BY <1>1 DEF Targets, Linked, Seen
<1>2. CASE Linked(s, f) = {} /\ Named(s, f) # {} BY <1>2 DEF Targets, Named, Seen
<1>3. CASE Linked(s, f) = {} /\ Named(s, f) = {}
  <2>1. i = <<f, 0>> BY <1>3 DEF Targets
  <2>2. 0 \in 0 .. MaxDay BY ArchiveAssumption
  <2> QED BY <1>3, <2>1, <2>2, ParseId
<1> QED BY <1>1, <1>2, <1>3

LEMMA IncomingIs ==
    ASSUME ArchiveTypeOK, NEW s \in Syncs, SyncSourced(s), NEW f \in Listed(s)
    PROVE  /\ Incoming(s, f) \in Scores \cup {NoScore}
           /\ Incoming(s, f) # NoScore => Sourced(f, Incoming(s, f))
           /\ sync[s].listed[f].day \in Days
<1>1. f \in Fixtures /\ sync[s].listed[f] # NoEntry BY DEF Listed
<1>2. sync[s].listed[f] \in Entries BY <1>1, SyncParts
<1> DEFINE e == sync[s].listed[f]
<1>3. e.day \in Days /\ e.score \in Scores \cup {NoScore} BY <1>2 DEF Entries
<1>4. sync[s].settled[f] \in Scores \cup {NoScore} BY <1>1, SyncParts
<1> QED BY <1>1, <1>3, <1>4 DEF Incoming, SyncSourced, Sourced

LEMMA ReconciledIs ==
    ASSUME ArchiveTypeOK, NEW s \in Syncs, SyncSourced(s), NEW f \in Listed(s),
           NEW i \in Targets(s, f)
    PROVE  LET row == Reconciled(s, f, sync[s].seen[i])
           IN  /\ row \in Rows
               /\ row.score # NoScore => Sourced(f, row.score)
               /\ i[2] = 0 => row.linked
<1> DEFINE old == sync[s].seen[i]
           in == Incoming(s, f)
<1>1. f \in Fixtures BY DEF Listed
<1>2. i \in Ids /\ i[1] = f BY <1>1, TargetsAre
<1>3. /\ in \in Scores \cup {NoScore}
      /\ in # NoScore => Sourced(f, in)
      /\ sync[s].listed[f].day \in Days
  BY IncomingIs
<1>4. old \in Rows \cup {NoRow} BY <1>2, SyncParts
<1>5. old # NoRow => /\ old.score # NoScore => Sourced(f, old.score)
                     /\ i[2] = 0 => old.linked
  BY <1>2 DEF SyncSourced
<1> HIDE DEF in
<1>6. CASE old = NoRow
  BY <1>3, <1>6 DEF Reconciled, Rows, in
<1>7. CASE old # NoRow /\ old.score # NoScore
  BY <1>4, <1>5, <1>7 DEF Reconciled
<1>8. CASE old # NoRow /\ old.score = NoScore
  <2>1. old \in Rows BY <1>4, <1>8
  <2>2. Reconciled(s, f, old) = [old EXCEPT !.score = in, !.linked = TRUE]
    BY <1>8 DEF Reconciled, in
  <2>3. /\ [old EXCEPT !.score = in, !.linked = TRUE] \in Rows
        /\ [old EXCEPT !.score = in, !.linked = TRUE].score = in
        /\ [old EXCEPT !.score = in, !.linked = TRUE].linked
    BY <2>1, <1>3 DEF Rows
  <2> QED BY <2>2, <2>3, <1>3
<1> QED BY <1>6, <1>7, <1>8

-----------------------------------------------------------------------------
(* The invariant *)

LEMMA ArchiveInitInv == ArchiveInit => ArchiveInv
<1> SUFFICES ASSUME ArchiveInit PROVE ArchiveInv OBVIOUS
<1> USE DEF ArchiveInit
<1>1. \A f \in Fixtures : match[f] \in World
  BY ArchiveAssumption DEF World, Scores, Days
<1>2. match \in [Fixtures -> World] BY <1>1
<1>3. sync \in [Syncs -> SyncStates] BY IdleTyped
<1>4. ArchiveTypeOK BY <1>2, <1>3, IdleTyped DEF ArchiveTypeOK, NoRows
<1>5. \A s \in Syncs : SyncSourced(s) BY DEF SyncSourced, IdleSync, NoRows
<1>6. FilesSourced /\ TableSourced /\ ResultsFinal
  BY DEF FilesSourced, TableSourced, ResultsFinal, NoRows
<1> QED BY <1>4, <1>5, <1>6 DEF ArchiveInv

\* What a step leaves alone keeps its part of the invariant.
LEMMA FilesStay ==
    ASSUME ArchiveInv, ArchiveNext, evidence' = evidence, settled' = settled
    PROVE  FilesSourced'
<1>1. ASSUME NEW f \in Fixtures
      PROVE  /\ evidence[f] # NoEntry /\ evidence[f].score # NoScore
                   => evidence[f].score \in Scores
             /\ settled[f] # NoScore => settled[f] \in Scores
  <2>1. evidence[f] \in Entries \cup {NoEntry} /\ settled[f] \in Scores \cup {NoScore}
    BY DEF ArchiveInv, ArchiveTypeOK
  <2> QED BY <2>1 DEF Entries
<1> QED BY <1>1, SourcesStay DEF ArchiveInv, FilesSourced

LEMMA RowStays ==
    ASSUME ArchiveInv, ArchiveNext, NEW i \in Ids, matches'[i] = matches[i],
           matches'[i] # NoRow, matches'[i].score # NoScore
    PROVE  Sourced(i[1], matches[i].score)'
<1>1. matches[i] \in Rows BY DEF ArchiveInv, ArchiveTypeOK
<1>2. matches[i].score \in Scores BY <1>1 DEF Rows
<1>3. Sourced(i[1], matches[i].score) BY DEF ArchiveInv, TableSourced
<1> QED BY <1>2, <1>3, SourcesStay, IdParts DEF ArchiveInv, Sourced, Final

LEMMA TableStays ==
    ASSUME ArchiveInv, ArchiveNext, matches' = matches PROVE TableSourced'
BY RowStays DEF TableSourced

LEMMA ResultsStay ==
    ASSUME ArchiveInv, ArchiveNext, results' = results PROVE ResultsFinal'
BY SourcesStay DEF ArchiveInv, ArchiveTypeOK, ResultsFinal

LEMMA SyncStays ==
    ASSUME ArchiveInv, ArchiveNext, NEW s \in Syncs, sync'[s] = sync[s]
    PROVE  SyncSourced(s)'
<1>1. SyncSourced(s) BY DEF ArchiveInv
<1>2. ArchiveTypeOK BY DEF ArchiveInv
<1>3. ASSUME NEW f \in Fixtures
      PROVE  /\ sync[s].listed[f] # NoEntry /\ sync[s].listed[f].score # NoScore
                   => sync[s].listed[f].score \in Scores
             /\ sync[s].settled[f] # NoScore => sync[s].settled[f] \in Scores
  <2>1. sync[s].listed[f] \in Entries \cup {NoEntry}
        /\ sync[s].settled[f] \in Scores \cup {NoScore} BY <1>2, SyncParts
  <2> QED BY <2>1 DEF Entries
<1>4. ASSUME NEW i \in Ids, sync[s].seen[i] # NoRow, sync[s].seen[i].score # NoScore
      PROVE  sync[s].seen[i].score \in Scores
  <2>1. sync[s].seen[i] \in Rows BY <1>2, <1>4, SyncParts
  <2> QED BY <2>1, <1>4 DEF Rows
<1> QED BY <1>1, <1>2, <1>3, <1>4, SourcesStay, IdParts DEF SyncSourced

\* A sync whose new state is the idle one has read nothing.
LEMMA IdleSourced ==
    ASSUME NEW s \in Syncs, sync'[s] = IdleSync PROVE SyncSourced(s)'
BY DEF SyncSourced, IdleSync, NoRows

LEMMA BecomeIs ==
    ASSUME ArchiveTypeOK, NEW s \in Syncs, NEW state \in SyncStates, Become(s, state)
    PROVE  /\ sync' \in [Syncs -> SyncStates]
           /\ sync'[s] = state
           /\ \A q \in Syncs \ {s} : sync'[q] = sync[q]
BY DEF ArchiveTypeOK, Become

-----------------------------------------------------------------------------
(* The files *)

FilesTyped ==
    /\ evidence \in [Fixtures -> Entries \cup {NoEntry}]
    /\ early \subseteq Fixtures \X Scores
    /\ settled \in [Fixtures -> Scores \cup {NoScore}]

LEMMA ToldTyped ==
    ASSUME ArchiveTypeOK, NEW f \in Fixtures
    PROVE  /\ Told(f) \in Entries
           /\ Told(f) # NoEntry
           /\ Told(f).score # NoScore => /\ Told(f).score = match[f].score
                                         /\ match[f].phase \in {"playing", "over"}
<1>1. match[f] \in World BY DEF ArchiveTypeOK
<1>2. Told(f) \in Entries BY <1>1 DEF Told, Entries, World
<1> QED BY <1>1, <1>2, ArchiveAssumption DEF Told, World

LEMMA FilesMove ==
    ASSUME ArchiveInv, ArchiveNext PROVE FilesTyped' /\ FilesSourced'
<1> USE DEF ArchiveInv
<1>1. ASSUME UNCHANGED files PROVE FilesTyped' /\ FilesSourced'
  <2>1. FilesTyped' BY <1>1 DEF FilesTyped, files, ArchiveTypeOK
  <2> QED BY <1>1, <2>1, FilesStay DEF files
<1>2. CASE Capture
  <2> PICK fs \in SUBSET Fixtures :
          /\ evidence' = [f \in Fixtures |-> IF f \in fs THEN Told(f) ELSE NoEntry]
          /\ early' = early \cup {<<f, match[f].score>> :
                                    f \in {g \in fs : match[g].phase = "playing"}}
    BY <1>2 DEF Capture
  <2>1. evidence' \in [Fixtures -> Entries \cup {NoEntry}] BY ToldTyped
  <2>2. \A f \in Fixtures : match[f].score \in Scores BY DEF ArchiveTypeOK, World
  <2>3. early' \subseteq Fixtures \X Scores BY <2>2 DEF ArchiveTypeOK
  <2>4. match' = match /\ settled' = settled BY <1>2 DEF Capture
  <2>5. ASSUME NEW f \in Fixtures, evidence'[f] # NoEntry, evidence'[f].score # NoScore
        PROVE  Sourced(f, evidence[f].score)'
    <3>1. f \in fs /\ evidence'[f] = Told(f) BY <2>5
    <3>2. /\ evidence'[f].score = match[f].score
          /\ match[f].phase \in {"playing", "over"}
      BY <3>1, <2>5, ToldTyped
    <3>3. CASE match[f].phase = "over" BY <3>2, <3>3, <2>4 DEF Sourced, Final
    <3>4. CASE match[f].phase = "playing"
      <4>1. <<f, match[f].score>> \in early' BY <3>1, <3>4
      <4> QED BY <3>2, <4>1 DEF Sourced
    <3> QED BY <3>2, <3>3, <3>4
  <2>6. ASSUME NEW f \in Fixtures, settled'[f] # NoScore PROVE Final(f, settled[f])'
    BY <2>4, <2>6 DEF FilesSourced, Final
  <2> QED BY <2>1, <2>3, <2>4, <2>5, <2>6 DEF FilesTyped, FilesSourced, ArchiveTypeOK
<1>3. ASSUME NEW g \in Fixtures, Settle(g) PROVE FilesTyped' /\ FilesSourced'
  <2>1. match[g].score \in Scores /\ match[g].phase = "over"
    BY <1>3 DEF Settle, ArchiveTypeOK, World
  <2>2. /\ settled' = [settled EXCEPT ![g] = match[g].score]
        /\ match' = match /\ evidence' = evidence /\ early' = early
    BY <1>3 DEF Settle
  <2>3. FilesTyped' BY <2>1, <2>2 DEF FilesTyped, ArchiveTypeOK
  <2>4. ASSUME NEW f \in Fixtures, settled'[f] # NoScore PROVE Final(f, settled[f])'
    BY <2>1, <2>2, <2>4 DEF FilesSourced, Final, ArchiveTypeOK
  <2> QED BY <2>2, <2>3, <2>4 DEF FilesSourced, Sourced, Final
<1>4. CASE WorldStep
  BY <1>1, <1>2, <1>3, <1>4 DEF WorldStep, Move, KickOff, Goal, FinalWhistle, Quarantine
<1>5. CASE Ingest \/ IngestByNumber BY <1>1, <1>5 DEF Ingest, IngestByNumber
<1>6. CASE \E s \in Syncs : SyncStep(s)
  BY <1>1, <1>6 DEF SyncStep, ReadFiles, ReadRows, Die, WriteMatches, WriteResults
<1> QED BY <1>4, <1>5, <1>6 DEF ArchiveNext

-----------------------------------------------------------------------------
(* The table *)

TableTyped ==
    /\ matches \in [Ids -> Rows \cup {NoRow}]
    /\ \A i \in Ids : i[2] = 0 /\ matches[i] # NoRow => matches[i].linked

LEMMA UpcomingTyped ==
    ASSUME NEW d \in Days, NEW b \in BOOLEAN
    PROVE  /\ Upcoming(d, b) \in Rows
           /\ Upcoming(d, b).score = NoScore
           /\ Upcoming(d, b).linked = b
BY DEF Upcoming, Rows

\* A row that a step may put into the table.
Good(i, row) ==
    /\ row \in Rows
    /\ row.score # NoScore => Sourced(i[1], row.score)
    /\ i[2] = 0 => row.linked

LEMMA TableKeeps ==
    ASSUME ArchiveInv, ArchiveNext, matches' = [i \in Ids |-> matches'[i]],
           \A i \in Ids : matches'[i] = matches[i] \/ Good(i, matches[i])'
    PROVE  TableTyped' /\ TableSourced'
<1>1. \A i \in Ids : /\ matches[i] \in Rows \cup {NoRow}
                     /\ i[2] = 0 /\ matches[i] # NoRow => matches[i].linked
  BY DEF ArchiveInv, ArchiveTypeOK
<1>2. \A i \in Ids : /\ matches'[i] \in Rows \cup {NoRow}
                     /\ i[2] = 0 /\ matches'[i] # NoRow => matches'[i].linked
  BY <1>1 DEF Good
<1>3. TableTyped' BY <1>2 DEF TableTyped
<1>4. TableSourced' BY RowStays DEF TableSourced, Good
<1> QED BY <1>3, <1>4

LEMMA TableMoves ==
    ASSUME ArchiveInv, ArchiveNext PROVE TableTyped' /\ TableSourced'
<1>0. /\ ArchiveTypeOK
      /\ matches \in [Ids -> Rows \cup {NoRow}]
  BY DEF ArchiveInv, ArchiveTypeOK
<1>1. ASSUME matches' = matches PROVE TableTyped' /\ TableSourced'
  BY <1>0, <1>1, TableKeeps
<1>2. ASSUME NEW j \in Ids, Quarantine(j) PROVE TableTyped' /\ TableSourced'
  <2>1. /\ matches' = [matches EXCEPT ![j].active = FALSE]
        /\ matches[j] \in Rows
        /\ match' = match /\ early' = early
    BY <1>0, <1>2 DEF Quarantine, files
  <2>2. /\ matches'[j] \in Rows
        /\ matches'[j].score = matches[j].score
        /\ matches'[j].linked = matches[j].linked
    BY <1>0, <2>1 DEF Rows
  <2>3. Good(j, matches[j])
    BY <1>0, <1>2, <2>1 DEF ArchiveInv, TableSourced, ArchiveTypeOK, Good, Quarantine
  <2>4. Good(j, matches[j])' BY <2>1, <2>2, <2>3 DEF Good, Sourced, Final
  <2>5. \A i \in Ids : matches'[i] = matches[i] \/ Good(i, matches[i])'
    BY <1>0, <2>1, <2>4
  <2> QED BY <1>0, <2>1, <2>5, TableKeeps
<1>3. CASE Ingest
  <2> PICK ids \in SUBSET {i \in Ids : i[2] \in 1 .. match[i[1]].day} :
          matches' = [i \in Ids |-> IF i \in ids THEN Upcoming(i[2], FALSE) ELSE matches[i]]
    BY <1>3 DEF Ingest
  <2>1. ASSUME NEW i \in ids PROVE Good(i, matches[i])'
    <3>1. i \in Ids /\ i[2] \in 1 .. match[i[1]].day OBVIOUS
    <3>2. match[i[1]] \in World BY <1>0, <3>1, IdParts DEF ArchiveTypeOK
    <3>3. i[2] \in Days /\ i[2] # 0
      BY <3>1, <3>2, ArchiveAssumption DEF World, Days
    <3>4. matches'[i] = Upcoming(i[2], FALSE) BY <3>1
    <3> QED BY <3>3, <3>4, UpcomingTyped DEF Good
  <2> QED BY <2>1, TableKeeps
<1>4. CASE IngestByNumber
  <2> PICK fs \in SUBSET Fixtures :
          matches' = [i \in Ids |-> IF i[1] \in fs /\ i[2] = 0
                                    THEN Upcoming(match[i[1]].day, TRUE) ELSE matches[i]]
    BY <1>4 DEF IngestByNumber
  <2>1. ASSUME NEW i \in Ids, i[1] \in fs, i[2] = 0 PROVE Good(i, matches[i])'
    <3>1. match[i[1]] \in World BY <1>0, <2>1, IdParts DEF ArchiveTypeOK
    <3>2. match[i[1]].day \in Days BY <3>1 DEF World
    <3>3. matches'[i] = Upcoming(match[i[1]].day, TRUE) BY <2>1
    <3> QED BY <3>2, <3>3, UpcomingTyped DEF Good
  <2> QED BY <2>1, TableKeeps
<1>5. ASSUME NEW s \in Syncs, NEW done \in BOOLEAN, WriteMatches(s, done)
      PROVE  TableTyped' /\ TableSourced'
  <2> PICK target \in [Listed(s) -> Ids] :
          /\ \A f \in Listed(s) : target[f] \in Targets(s, f)
          /\ matches' = [i \in Ids |->
                IF ~done THEN matches[i]
                ELSE IF i[1] \in Listed(s) /\ target[i[1]] = i
                THEN Reconciled(s, i[1], sync[s].seen[i])
                ELSE IF sync[s].seen[i] # NoRow THEN sync[s].seen[i] ELSE matches[i]]
    BY <1>5 DEF WriteMatches
  <2>1. match' = match /\ early' = early BY <1>5 DEF WriteMatches, files
  <2>2. SyncSourced(s) BY DEF ArchiveInv
  <2>3. ASSUME NEW i \in Ids PROVE matches'[i] = matches[i] \/ Good(i, matches'[i])
    <3>1. CASE done /\ i[1] \in Listed(s) /\ target[i[1]] = i
      <4>1. i \in Targets(s, i[1]) BY <3>1
      <4>2. matches'[i] = Reconciled(s, i[1], sync[s].seen[i]) BY <3>1
      <4> QED BY <1>0, <2>2, <3>1, <4>1, <4>2, ReconciledIs DEF Good
    <3>2. CASE done /\ ~(i[1] \in Listed(s) /\ target[i[1]] = i) /\ sync[s].seen[i] # NoRow
      <4>1. sync[s].seen[i] \in Rows BY <1>0, <3>2, SyncParts
      <4>2. matches'[i] = sync[s].seen[i] BY <3>2
      <4> QED BY <2>2, <3>2, <4>1, <4>2 DEF SyncSourced, Good
    <3> QED BY <3>1, <3>2
  <2>4. \A i \in Ids : matches'[i] = matches[i] \/ Good(i, matches[i])'
    BY <2>1, <2>3 DEF Good, Sourced, Final
  <2> QED BY <2>4, TableKeeps
<1>6. CASE WorldStep
  BY <1>1, <1>2, <1>6
  DEF WorldStep, Move, KickOff, Goal, FinalWhistle, Settle, Capture
<1>7. CASE \E s \in Syncs : SyncStep(s)
  BY <1>1, <1>5, <1>7 DEF SyncStep, ReadFiles, ReadRows, Die, WriteResults
<1> QED BY <1>3, <1>4, <1>6, <1>7 DEF ArchiveNext

-----------------------------------------------------------------------------
(* settlement_results *)

ResultsTyped == results \in [Fixtures -> Scores \cup {NoScore}]

LEMMA ResultsMove ==
    ASSUME ArchiveInv, ArchiveNext PROVE ResultsTyped' /\ ResultsFinal'
<1>0. ArchiveTypeOK /\ results \in [Fixtures -> Scores \cup {NoScore}]
  BY DEF ArchiveInv, ArchiveTypeOK
<1>1. ASSUME results' = results PROVE ResultsTyped' /\ ResultsFinal'
  BY <1>0, <1>1, ResultsStay DEF ResultsTyped
<1>2. ASSUME NEW s \in Syncs, NEW done \in BOOLEAN, WriteResults(s, done)
      PROVE  ResultsTyped' /\ ResultsFinal'
  <2>1. /\ results' = [f \in Fixtures |-> IF done /\ sync[s].settled[f] # NoScore
                                          THEN sync[s].settled[f] ELSE results[f]]
        /\ match' = match
    BY <1>2 DEF WriteResults
  <2>2. \A f \in Fixtures : sync[s].settled[f] \in Scores \cup {NoScore}
    BY <1>0, SyncParts
  <2>3. ResultsTyped' BY <1>0, <2>1, <2>2 DEF ResultsTyped
  <2>4. SyncSourced(s) /\ ResultsFinal BY DEF ArchiveInv
  <2>5. ResultsFinal' BY <2>1, <2>4 DEF SyncSourced, ResultsFinal, Final
  <2> QED BY <2>3, <2>5
<1>3. CASE WorldStep
  BY <1>1, <1>3
  DEF WorldStep, Move, KickOff, Goal, FinalWhistle, Settle, Capture, Quarantine
<1>4. CASE Ingest \/ IngestByNumber BY <1>1, <1>4 DEF Ingest, IngestByNumber
<1>5. CASE \E s \in Syncs : SyncStep(s)
  BY <1>1, <1>2, <1>5 DEF SyncStep, ReadFiles, ReadRows, Die, WriteMatches
<1> QED BY <1>3, <1>4, <1>5 DEF ArchiveNext

-----------------------------------------------------------------------------
(* The syncs *)

\* A sync that takes a sourced state leaves the others as they are.
LEMMA SyncsKeep ==
    ASSUME ArchiveInv, ArchiveNext, NEW s \in Syncs, NEW state \in SyncStates,
           Become(s, state), SyncSourced(s)'
    PROVE  sync' \in [Syncs -> SyncStates] /\ \A q \in Syncs : SyncSourced(q)'
<1>1. ArchiveTypeOK BY DEF ArchiveInv
<1>2. sync' \in [Syncs -> SyncStates] /\ \A q \in Syncs \ {s} : sync'[q] = sync[q]
  BY <1>1, BecomeIs
<1> QED BY <1>2, SyncStays

LEMMA SyncsMove ==
    ASSUME ArchiveInv, ArchiveNext
    PROVE  sync' \in [Syncs -> SyncStates] /\ \A s \in Syncs : SyncSourced(s)'
<1>0. ArchiveTypeOK BY DEF ArchiveInv
<1> DEFINE Goal1 == sync' \in [Syncs -> SyncStates] /\ \A s \in Syncs : SyncSourced(s)'
<1>1. ASSUME sync' = sync PROVE Goal1
  BY <1>0, <1>1, SyncStays DEF ArchiveTypeOK
<1>2. ASSUME NEW s \in Syncs, Become(s, IdleSync) PROVE Goal1
  BY <1>0, <1>2, IdleTyped, BecomeIs, IdleSourced, SyncsKeep
<1>3. ASSUME NEW s \in Syncs, ReadFiles(s) PROVE Goal1
  <2> DEFINE state == [pc |-> "read", listed |-> evidence, settled |-> settled,
                       seen |-> NoRows]
  <2>1. state \in SyncStates BY <1>0, IdleTyped DEF SyncStates, ArchiveTypeOK
  <2>2. Become(s, state) /\ match' = match /\ early' = early
    BY <1>3 DEF ReadFiles, files
  <2>3. sync'[s] = state BY <1>0, <2>1, <2>2, BecomeIs
  <2>4. SyncSourced(s)'
    <3>1. FilesSourced BY DEF ArchiveInv
    <3> QED BY <2>2, <2>3, <3>1 DEF FilesSourced, SyncSourced, NoRows, Sourced, Final
  <2> QED BY <2>1, <2>2, <2>4, SyncsKeep
<1>4. ASSUME NEW s \in Syncs, ReadRows(s) PROVE Goal1
  <2> PICK ids \in SUBSET Active :
          Become(s, [sync[s] EXCEPT !.pc = "write",
                       !.seen = [i \in Ids |-> IF i \in ids THEN matches[i] ELSE NoRow]])
    BY <1>4 DEF ReadRows
  <2> DEFINE seen == [i \in Ids |-> IF i \in ids THEN matches[i] ELSE NoRow]
             state == [sync[s] EXCEPT !.pc = "write", !.seen = seen]
  <2>1. seen \in [Ids -> Rows \cup {NoRow}] BY <1>0 DEF ArchiveTypeOK
  <2>2. sync[s] \in SyncStates BY <1>0 DEF ArchiveTypeOK
  <2> HIDE DEF seen
  <2>3. /\ state \in SyncStates
        /\ state.listed = sync[s].listed
        /\ state.settled = sync[s].settled
        /\ state.seen = seen
    BY <2>1, <2>2 DEF SyncStates
  <2>4. Become(s, state) /\ match' = match /\ early' = early
    BY <1>4 DEF ReadRows, files, seen
  <2>5. sync'[s] = state BY <1>0, <2>3, <2>4, BecomeIs
  <2>6. ASSUME NEW i \in Ids, seen[i] # NoRow
        PROVE  /\ seen[i].score # NoScore => Sourced(i[1], seen[i].score)
               /\ seen[i].active
               /\ i[2] = 0 => seen[i].linked
    <3>1. i \in ids /\ seen[i] = matches[i] BY <2>6 DEF seen
    <3>2. matches[i] # NoRow /\ matches[i].active BY <3>1 DEF Active
    <3> QED BY <1>0, <3>1, <3>2 DEF ArchiveInv, TableSourced, ArchiveTypeOK
  <2>7. SyncSourced(s) BY DEF ArchiveInv
  <2> HIDE DEF state
  <2>8. SyncSourced(s)'
    BY <2>3, <2>4, <2>5, <2>6, <2>7 DEF SyncSourced, Sourced, Final
  <2> QED BY <2>3, <2>4, <2>8, SyncsKeep
<1>5. ASSUME NEW s \in Syncs, NEW done \in BOOLEAN, WriteMatches(s, done) PROVE Goal1
  <2> DEFINE state == [IdleSync EXCEPT !.pc = "results", !.settled = sync[s].settled]
  <2>1. sync[s].settled \in [Fixtures -> Scores \cup {NoScore}] BY <1>0, SyncParts
  <2>2. /\ state \in SyncStates
        /\ state.listed = IdleSync.listed
        /\ state.settled = sync[s].settled
        /\ state.seen = NoRows
    BY <2>1, IdleTyped DEF SyncStates, IdleSync
  <2>3. Become(s, state) /\ match' = match /\ early' = early
    BY <1>5 DEF WriteMatches, files
  <2>4. sync'[s] = state BY <1>0, <2>2, <2>3, BecomeIs
  <2> HIDE DEF state
  <2>5. /\ \A f \in Fixtures : sync'[s].listed[f] = NoEntry
        /\ \A i \in Ids : sync'[s].seen[i] = NoRow
    BY <2>2, <2>4 DEF IdleSync, NoRows
  <2>6. ASSUME NEW f \in Fixtures, sync'[s].settled[f] # NoScore
        PROVE  Final(f, sync[s].settled[f])'
    <3>1. SyncSourced(s) BY DEF ArchiveInv
    <3>2. sync'[s].settled[f] = sync[s].settled[f] BY <2>2, <2>4
    <3> QED BY <2>3, <2>6, <3>1, <3>2 DEF SyncSourced, Final
  <2>7. SyncSourced(s)' BY <2>5, <2>6 DEF SyncSourced
  <2> QED BY <2>2, <2>3, <2>7, SyncsKeep
<1>6. CASE WorldStep
  BY <1>1, <1>6
  DEF WorldStep, Move, KickOff, Goal, FinalWhistle, Settle, Capture, Quarantine
<1>7. CASE Ingest \/ IngestByNumber BY <1>1, <1>7 DEF Ingest, IngestByNumber
<1>8. CASE \E s \in Syncs : SyncStep(s)
  BY <1>2, <1>3, <1>4, <1>5, <1>8 DEF SyncStep, Die, WriteResults
<1> QED BY <1>6, <1>7, <1>8 DEF ArchiveNext

-----------------------------------------------------------------------------
(* The theorems *)

LEMMA ArchiveStepInv ==
    ASSUME ArchiveInv, [ArchiveNext]_archiveVars PROVE ArchiveInv'
<1>1. CASE ArchiveNext
  <2>1. match' \in [Fixtures -> World]
    BY <1>1, MatchStays DEF ArchiveInv, MatchMoves
  <2>2. ArchiveTypeOK'
    BY <1>1, <2>1, FilesMove, TableMoves, ResultsMove, SyncsMove
    DEF ArchiveTypeOK, FilesTyped, TableTyped, ResultsTyped
  <2> QED
    BY <1>1, <2>2, FilesMove, TableMoves, ResultsMove, SyncsMove DEF ArchiveInv
<1>2. CASE UNCHANGED archiveVars
  BY <1>2
  DEF archiveVars, files, ArchiveInv, ArchiveTypeOK, FilesSourced, TableSourced,
      ResultsFinal, SyncSourced, Sourced, Final
<1> QED BY <1>1, <1>2

\* The inductive invariant: every score in the files, the table and the readings of
\* the syncs is sourced.
THEOREM ArchiveInvariant == ArchiveSpec => []ArchiveInv
BY ArchiveInitInv, ArchiveStepInv, PTL DEF ArchiveSpec

\* Every variable of the match archive has its type, and the row under the
\* provider's number has the number.
THEOREM ArchiveTypeCorrect == ArchiveSpec => []ArchiveTypeOK
<1>1. ArchiveInv => ArchiveTypeOK BY DEF ArchiveInv
<1> QED BY <1>1, ArchiveInvariant, PTL

\* A verified score in public.matches or settlement_results is the final one, or the
\* former was captured while the match was played.
THEOREM ScoresSourced == ArchiveSpec => []ScoresHaveASource
<1>1. ArchiveInv => ScoresHaveASource
  BY DEF ArchiveInv, TableSourced, ResultsFinal, ScoresHaveASource, Sourced
<1> QED BY <1>1, ArchiveInvariant, PTL

LEMMA WriteIs ==
    ASSUME ArchiveTypeOK, ArchiveNext, NEW s \in Syncs, Writes(s)
    PROVE  \E done \in BOOLEAN : WriteMatches(s, done)
<1>0. ASSUME sync' = sync PROVE FALSE BY <1>0 DEF Writes
<1>1. CASE WorldStep
  BY <1>0, <1>1
  DEF WorldStep, Move, KickOff, Goal, FinalWhistle, Settle, Capture, Quarantine
<1>2. CASE Ingest \/ IngestByNumber BY <1>0, <1>2 DEF Ingest, IngestByNumber
<1>3. CASE \E q \in Syncs : SyncStep(q)
  <2> PICK q \in Syncs : SyncStep(q) BY <1>3
  <2>1. \A r \in Syncs \ {q} : sync'[r] = sync[r]
    BY DEF SyncStep, ReadFiles, ReadRows, Die, WriteMatches, WriteResults, Become,
           ArchiveTypeOK
  <2>2. q = s BY <2>1 DEF Writes
  <2>3. \/ ReadFiles(s) \/ ReadRows(s) \/ Die(s)
        \/ \E done \in BOOLEAN : WriteMatches(s, done) \/ WriteResults(s, done)
    BY <2>2 DEF SyncStep
  <2>4. ~ReadFiles(s) /\ ~ReadRows(s) BY DEF ReadFiles, ReadRows, Writes, ArchiveTypeOK, Become
  <2>5. ~Die(s) BY DEF Die, Writes, ArchiveTypeOK, Become, IdleSync
  <2>6. ASSUME NEW done \in BOOLEAN PROVE ~WriteResults(s, done) BY DEF WriteResults, Writes
  <2> QED BY <2>3, <2>4, <2>5, <2>6
<1> QED BY <1>1, <1>2, <1>3 DEF ArchiveNext

\* A sync changes no row that it has not read, but the one under the number of a
\* fixture it lists, and leaves or puts back a score that it has read as verified.
THEOREM SyncsKnow == ArchiveSpec => SyncsKnowTheirRows
<1> DEFINE Known(s) ==
        \A i \in Ids : matches[i] # NoRow /\ matches'[i] # matches[i] =>
            LET row == sync[s].seen[i]
            IN  IF row = NoRow THEN i[2] = 0 /\ i[1] \in Listed(s)
                ELSE row.score # NoScore => matches'[i] = row
<1>1. ASSUME ArchiveInv, ArchiveNext, NEW s \in Syncs, Writes(s) PROVE Known(s)
  <2>1. ArchiveTypeOK BY <1>1 DEF ArchiveInv
  <2> PICK done \in BOOLEAN : WriteMatches(s, done) BY <1>1, <2>1, WriteIs
  <2> PICK target \in [Listed(s) -> Ids] :
          /\ \A f \in Listed(s) : target[f] \in Targets(s, f)
          /\ matches' = [i \in Ids |->
                IF ~done THEN matches[i]
                ELSE IF i[1] \in Listed(s) /\ target[i[1]] = i
                THEN Reconciled(s, i[1], sync[s].seen[i])
                ELSE IF sync[s].seen[i] # NoRow THEN sync[s].seen[i] ELSE matches[i]]
    BY DEF WriteMatches
  <2> SUFFICES ASSUME NEW i \in Ids, matches[i] # NoRow, matches'[i] # matches[i]
               PROVE  IF sync[s].seen[i] = NoRow THEN i[2] = 0 /\ i[1] \in Listed(s)
                      ELSE sync[s].seen[i].score # NoScore => matches'[i] = sync[s].seen[i]
    OBVIOUS
  <2>2. CASE i[1] \in Listed(s) /\ target[i[1]] = i
    <3>1. i \in Targets(s, i[1]) BY <2>2
    <3>2. i \in Seen(s, i[1]) \/ i = <<i[1], 0>> BY <3>1, IdParts, TargetsAre
    <3>3. matches'[i] = Reconciled(s, i[1], sync[s].seen[i]) BY <2>2
    <3>4. CASE sync[s].seen[i] = NoRow
      <4>1. i = <<i[1], 0>> BY <3>2, <3>4 DEF Seen
      <4>2. i[2] = 0 BY <4>1
      <4> QED BY <2>2, <3>4, <4>2
    <3>5. CASE sync[s].seen[i] # NoRow BY <3>3, <3>5 DEF Reconciled
    <3> QED BY <3>4, <3>5
  <2>3. CASE ~(i[1] \in Listed(s) /\ target[i[1]] = i)
    BY <2>3
  <2> QED BY <2>2, <2>3
<1>2. ArchiveInv /\ [ArchiveNext]_archiveVars
         => [\A s \in Syncs : Writes(s) => Known(s)]_archiveVars
  BY <1>1
<1> QED BY <1>2, ArchiveInvariant, PTL DEF ArchiveSpec, SyncsKnowTheirRows

\* A sync adds a row only for a fixture of which it has read none.
THEOREM NoRowTwice == ArchiveSpec => NoSecondRow
<1> DEFINE Alone(s) ==
        \A i \in Ids : matches[i] = NoRow /\ matches'[i] # NoRow /\ sync[s].seen[i] = NoRow =>
            Linked(s, i[1]) \cup Named(s, i[1]) = {}
<1>1. ASSUME ArchiveInv, ArchiveNext, NEW s \in Syncs, Writes(s) PROVE Alone(s)
  <2>1. ArchiveTypeOK BY <1>1 DEF ArchiveInv
  <2> PICK done \in BOOLEAN : WriteMatches(s, done) BY <1>1, <2>1, WriteIs
  <2> PICK target \in [Listed(s) -> Ids] :
          /\ \A f \in Listed(s) : target[f] \in Targets(s, f)
          /\ matches' = [i \in Ids |->
                IF ~done THEN matches[i]
                ELSE IF i[1] \in Listed(s) /\ target[i[1]] = i
                THEN Reconciled(s, i[1], sync[s].seen[i])
                ELSE IF sync[s].seen[i] # NoRow THEN sync[s].seen[i] ELSE matches[i]]
    BY DEF WriteMatches
  <2> SUFFICES ASSUME NEW i \in Ids, matches[i] = NoRow, matches'[i] # NoRow,
                      sync[s].seen[i] = NoRow
               PROVE  Linked(s, i[1]) \cup Named(s, i[1]) = {}
    OBVIOUS
  <2>2. i[1] \in Listed(s) /\ target[i[1]] = i OBVIOUS
  <2>3. i \in Targets(s, i[1]) BY <2>2
  <2> QED BY <2>3, IdParts, TargetsAre DEF Seen
<1>2. ArchiveInv /\ [ArchiveNext]_archiveVars
         => [\A s \in Syncs : Writes(s) => Alone(s)]_archiveVars
  BY <1>1
<1> QED BY <1>2, ArchiveInvariant, PTL DEF ArchiveSpec, NoSecondRow
=============================================================================
