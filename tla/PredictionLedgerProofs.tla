----------------------- MODULE PredictionLedgerProofs -----------------------
(***************************************************************************)
(* Proofs about PredictionLedger for any number of cycles, settlers,       *)
(* matches, positions and results: the type invariant and the safety       *)
(* properties that the settlement run checks.                              *)
(*                                                                         *)
(* The invariants come in layers.  TypeInv gives every variable its type.  *)
(* SnapInv says where the positions of cycles may be: in the file, in a    *)
(* settler's reading of it, or in one cycle's hands, and always in the     *)
(* table.  HistInv says what a reading keeps of the file's first rows.     *)
(* SettleInv ties every outcome, in the file, in a reading or in a table,  *)
(* to the published score.  ReadingInv, for settlements that do not        *)
(* overlap, says that a reading is never behind on settled rows.           *)
(***************************************************************************)
EXTENDS PredictionLedger, SettlementProofs, WellFoundedInduction

Phases == {"early", "window", "started"}

CycleStates == [pc : {"idle", "pick", "prediction", "probe", "insert", "done"},
                todo : SUBSET Quotes, cur : Quotes \cup {Nothing}, fresh : Seq(Rows)]

SettlerStates == [pc : {"idle", "scores", "rewrite", "pick", "probe", "insert"},
                  read : Seq(Rows), known : SUBSET Matches, todo : SUBSET Nat]

IsTable(t) ==
    /\ t \in [Slots -> Quotes \cup {Nothing}]
    /\ \A k \in Slots : t[k] # Nothing => Slot(t[k]) = k

Statuses == {"PENDING", "WON", "LOST", "PUSH"}

WorldType ==
    /\ phase \in [Matches -> Phases]
    /\ result \in [Matches -> Published \cup {Nothing}]
    /\ \A m \in Matches : result[m] # Nothing => result[m].match = m

TablesType ==
    /\ IsTable(picks)
    /\ IsTable(predictions)
    /\ ledger \subseteq Quotes
    /\ oldPicks \in [ToSet(FileRows) -> Statuses]

ResultRows == [match : Matches, market : {"AH", "OU", "BTTS"},
               side : {"home", "away", "over", "under", "yes", "no"},
               line : Int, outcome : Outcomes]

ResultsType ==
    /\ results \in Seq(ResultRows)
    /\ Len(results) <= MaxResults

\* Rows as a cycle makes them.
AreFresh(rows) == \A i \in DOMAIN rows : rows[i].shape = "cycle" /\ rows[i].result = "PENDING"

CyclesType ==
    /\ cycle \in [Cycles -> CycleStates]
    /\ \A c \in Cycles :
          /\ cycle[c].pc \in {"prediction", "probe", "insert"} => cycle[c].cur \in Quotes
          /\ AreFresh(cycle[c].fresh)

\* A settler's lines are lines of its reading with a score and a copy to make.
SettlersType ==
    /\ settler \in [Settlers -> SettlerStates]
    /\ \A s \in Settlers :
          /\ settler[s].pc \in {"pick", "probe", "insert"} <=> settler[s].todo # {}
          /\ settler[s].todo \subseteq Snapshots(settler[s].read, settler[s].known)

\* A row of the first shape is one of those the file came with.
LegacyIn(rows) ==
    \A i \in DOMAIN rows : rows[i].shape = "legacy" => rows[i].pos \in ToSet(FileRows)

FileType ==
    /\ file \in Seq(Rows)
    /\ LegacyIn(file)
    /\ \A s \in Settlers : LegacyIn(settler[s].read)

TypeInv ==
    /\ WorldType
    /\ TablesType
    /\ ResultsType
    /\ CyclesType
    /\ SettlersType
    /\ FileType

-----------------------------------------------------------------------------
(* Operators *)

LEMMA PositionTypes ==
    /\ Quotes \subseteq Positions
    /\ FileRows \in Seq(Positions)
    /\ ToSet(FileRows) \subseteq Positions
  BY LedgerAssumption DEF ToSet

LEMMA OutcomeTypes == \A p : Outcome(p) \in Outcomes
<1> TAKE p
<1> QED
  BY DEF Outcome, SettlePosition, SettleHandicap, SettleOverUnder, SettleOverUnderSingle,
         SettleBtts, Combine, HalfStep, Outcomes

LEMMA TableUpsert ==
    ASSUME NEW t, IsTable(t), NEW p \in Quotes
    PROVE  IsTable([t EXCEPT ![Slot(p)] = p])
<1>1. Slot(p) \in Slots
  BY LedgerAssumption DEF Positions, Slot, Slots
<1> QED
  BY <1>1 DEF IsTable

LEMMA FreshRow == \A p \in Quotes :
    Fresh(p) \in Rows /\ Fresh(p).shape = "cycle" /\ Fresh(p).pos = p /\ Fresh(p).result = "PENDING"
  BY DEF Fresh, Rows

\* A set of line numbers has a first one.
LEMMA LeastNumber ==
    ASSUME NEW S, S \subseteq Nat, S # {}
    PROVE  \E i \in S : \A j \in S : i <= j
<1> DEFINE R == {ss \in Nat \X Nat : ss[1] < ss[2]}
<1>1. IsWellFoundedOn(R, Nat)
  BY NatLessThanWellFounded, Zenon DEF OpToRel
<1> HIDE DEF R
<1>2. \E i \in S : \A j \in S : <<j, i>> \notin R
  BY <1>1, WFMin
<1>3. PICK i \in S : \A j \in S : <<j, i>> \notin R
  BY <1>2
<1>4. ASSUME NEW j \in S PROVE i <= j
  <2>1. i \in Nat /\ j \in Nat /\ (j < i => <<j, i>> \in R)
    BY <1>3 DEF R
  <2> QED
    BY <1>3, <2>1
<1> QED
  BY <1>3, <1>4

\* What a settlement writes for the rows it read.
Settled(rows, known) == [i \in DOMAIN rows |-> SettleRow(rows[i], known)]

\* Settling leaves every row its place, its shape and its position.
LEMMA SettledRows ==
    ASSUME NEW rows \in Seq(Rows), NEW known
    PROVE  /\ Settled(rows, known) \in Seq(Rows)
           /\ DOMAIN Settled(rows, known) = DOMAIN rows
           /\ Len(Settled(rows, known)) = Len(rows)
           /\ \A i \in DOMAIN rows :
                 /\ Settled(rows, known)[i] = SettleRow(rows[i], known)
                 /\ Settled(rows, known)[i].shape = rows[i].shape
                 /\ Settled(rows, known)[i].pos = rows[i].pos
           /\ LegacyIn(rows) => LegacyIn(Settled(rows, known))
<1> DEFINE new == Settled(rows, known)
<1>1. \A r \in Rows : /\ SettleRow(r, known) \in Rows
                      /\ SettleRow(r, known).shape = r.shape
                      /\ SettleRow(r, known).pos = r.pos
  BY OutcomeTypes DEF SettleRow, Rows
<1>2. DOMAIN rows = 1..Len(rows) /\ Len(rows) \in Nat /\ \A i \in DOMAIN rows : rows[i] \in Rows
  OBVIOUS
<1>3. new \in Seq(Rows) /\ Len(new) = Len(rows) /\ DOMAIN new = DOMAIN rows
  BY <1>1, <1>2 DEF Settled
<1>4. \A i \in DOMAIN rows : /\ new[i] = SettleRow(rows[i], known)
                            /\ new[i].shape = rows[i].shape /\ new[i].pos = rows[i].pos
  BY <1>1, <1>2 DEF Settled
<1> HIDE DEF new
<1>5. LegacyIn(rows) => LegacyIn(new)
  BY <1>3, <1>4 DEF LegacyIn
<1> QED
  BY <1>3, <1>4, <1>5 DEF new

\* The line at work is one of the lines to do, and has a score.
LEMMA LineAtWork ==
    ASSUME TypeInv, NEW s \in Settlers, settler[s].pc \in {"pick", "probe", "insert"}
    PROVE  /\ Line(s) \in settler[s].todo
           /\ Line(s) \in DOMAIN settler[s].read
           /\ Resolved(settler[s].read[Line(s)], settler[s].known)
           /\ Position(s) \in ToSet(FileRows)
           /\ Position(s).match \in settler[s].known
           /\ Position(s).market \in {"AH", "OU"}
<1>1. settler[s].todo \subseteq Nat /\ settler[s].todo # {}
  BY DEF TypeInv, SettlersType, SettlerStates
<1>2. \E i \in settler[s].todo : \A j \in settler[s].todo : i <= j
  BY <1>1, LeastNumber
<1>3. Line(s) \in settler[s].todo
  BY <1>2 DEF Line
<1> QED
  BY <1>3 DEF TypeInv, SettlersType, Snapshots, FileType, LegacyIn, Resolved, Position

LEMMA CycleMoves ==
    ASSUME CyclesType, NEW c \in Cycles, NEW x \in CycleStates,
           cycle' = [cycle EXCEPT ![c] = x],
           x.pc \in {"prediction", "probe", "insert"} => x.cur \in Quotes,
           AreFresh(x.fresh)
    PROVE  CyclesType'
  BY DEF CyclesType

\* Where a cycle goes when it is done with a position.
LEMMA NextEntryTypes ==
    ASSUME TypeInv, NEW c \in Cycles, NEW fresh \in Seq(Rows),
           NextEntry(c, fresh), AreFresh(fresh)
    PROVE  CyclesType' /\ file' \in Seq(Rows) /\ LegacyIn(file')
<1>1. cycle \in [Cycles -> CycleStates] /\ file \in Seq(Rows) /\ LegacyIn(file)
  BY DEF TypeInv, CyclesType, FileType
<1>2. file \o fresh \in Seq(Rows) /\ LegacyIn(file \o fresh)
  <2>1. /\ file \o fresh \in Seq(Rows) /\ Len(file \o fresh) = Len(file) + Len(fresh)
        /\ \A i \in 1..Len(file) + Len(fresh) :
              (file \o fresh)[i] = IF i <= Len(file) THEN file[i] ELSE fresh[i - Len(file)]
    BY <1>1
  <2> QED
    BY <1>1, <2>1 DEF LegacyIn, AreFresh
<1>3. CASE cycle[c].todo # {}
  <2> DEFINE x == [cycle[c] EXCEPT !.pc = "pick", !.cur = Nothing, !.fresh = fresh]
  <2>1. x \in CycleStates /\ x.pc = "pick" /\ x.fresh = fresh
    BY <1>1 DEF CycleStates
  <2>2. cycle' = [cycle EXCEPT ![c] = x] /\ file' = file
    BY <1>3 DEF NextEntry
  <2>3. CyclesType'
    BY <2>1, <2>2, CycleMoves DEF TypeInv
  <2> QED
    BY <1>1, <2>2, <2>3
<1>4. CASE cycle[c].todo = {}
  <2>1. DoneCycle \in CycleStates /\ DoneCycle.pc = "done" /\ AreFresh(DoneCycle.fresh)
    BY DEF CycleStates, DoneCycle, AreFresh
  <2>2. cycle' = [cycle EXCEPT ![c] = DoneCycle] /\ file' \in {file, file \o fresh}
    BY <1>4 DEF NextEntry
  <2>3. CyclesType'
    BY <2>1, <2>2, CycleMoves DEF TypeInv
  <2> QED
    BY <1>1, <1>2, <2>2, <2>3
<1> QED
  BY <1>3, <1>4

LEMMA InitTypes == LedgerInit => TypeInv
<1> SUFFICES ASSUME LedgerInit PROVE TypeInv
  OBVIOUS
<1>1. WorldType
  BY DEF LedgerInit, WorldType, Phases
<1>2. TablesType /\ ResultsType
  BY LedgerAssumption DEF LedgerInit, TablesType, ResultsType, IsTable, Statuses
<1>3. file \in Seq(Rows) /\ LegacyIn(file)
  <2>1. /\ DOMAIN FileRows = 1..Len(FileRows) /\ Len(FileRows) \in Nat
        /\ \A i \in DOMAIN FileRows : FileRows[i] \in ToSet(FileRows)
    BY LedgerAssumption DEF ToSet
  <2>2. \A p \in ToSet(FileRows) : Legacy(p) \in Rows /\ Legacy(p).pos = p
    BY DEF Legacy, Rows
  <2>3. file = [i \in 1..Len(FileRows) |-> Legacy(FileRows[i])]
    BY <2>1 DEF LedgerInit
  <2>4. \A i \in 1..Len(FileRows) : file[i] \in Rows /\ file[i].pos \in ToSet(FileRows)
    BY <2>1, <2>2, <2>3
  <2>5. file \in Seq(Rows) /\ DOMAIN file = 1..Len(FileRows)
    BY <2>1, <2>3, <2>4
  <2> QED
    BY <2>4, <2>5 DEF LegacyIn
<1>4. CyclesType /\ SettlersType /\ \A s \in Settlers : LegacyIn(settler[s].read)
  BY DEF LedgerInit, CyclesType, CycleStates, SettlersType, SettlerStates, IdleCycle,
         IdleSettler, LegacyIn, AreFresh
<1> QED
  BY <1>1, <1>2, <1>3, <1>4 DEF TypeInv, FileType

LEMMA SettlerMoves ==
    ASSUME TypeInv, NEW s \in Settlers, NEW x \in SettlerStates,
           settler' = [settler EXCEPT ![s] = x],
           x.pc \in {"pick", "probe", "insert"} <=> x.todo # {},
           x.todo \subseteq Snapshots(x.read, x.known),
           LegacyIn(x.read), file' \in Seq(Rows), LegacyIn(file')
    PROVE  SettlersType' /\ FileType'
  BY DEF TypeInv, SettlersType, FileType, Snapshots, Resolved, LegacyIn

LEMMA IdleSettlerType ==
    /\ IdleSettler \in SettlerStates /\ IdleSettler.pc = "idle"
    /\ IdleSettler.todo = {} /\ IdleSettler.read = <<>> /\ LegacyIn(IdleSettler.read)
  BY DEF IdleSettler, SettlerStates, LegacyIn

LEMMA TypeOfCycleSteps ==
    ASSUME TypeInv, NEW c \in Cycles, CycleStep(c)
    PROVE  TypeInv'
<1>0. /\ cycle[c] \in CycleStates /\ CyclesType /\ TablesType
      /\ cycle[c].pc \in {"prediction", "probe", "insert"} => cycle[c].cur \in Quotes
      /\ AreFresh(cycle[c].fresh)
      /\ file \in Seq(Rows) /\ LegacyIn(file)
  BY DEF TypeInv, CyclesType, FileType
<1>1. CASE StartCycle(c)
  <2>1. PICK found \in SUBSET Quotes :
           cycle' = [cycle EXCEPT ![c] = [@ EXCEPT !.pc = "pick", !.todo = found]]
    BY <1>1 DEF StartCycle
  <2> DEFINE x == [cycle[c] EXCEPT !.pc = "pick", !.todo = found]
  <2>2. x \in CycleStates /\ x.pc = "pick" /\ x.fresh = cycle[c].fresh
    BY <1>0 DEF CycleStates
  <2>3. CyclesType'
    BY <1>0, <2>1, <2>2, CycleMoves
  <2> QED
    BY <1>1, <2>3 DEF StartCycle, tables, TypeInv, WorldType, TablesType, ResultsType, SettlersType, FileType
<1>2. ASSUME NEW done \in BOOLEAN, UpsertPick(c, done)
      PROVE  TypeInv'
  <2>1. PICK p \in cycle[c].todo :
           /\ picks' = IF done THEN [picks EXCEPT ![Slot(p)] = p] ELSE picks
           /\ cycle' = [cycle EXCEPT ![c] =
                 [@ EXCEPT !.pc = "prediction", !.todo = cycle[c].todo \ {p}, !.cur = p]]
    BY <1>2 DEF UpsertPick
  <2> DEFINE x == [cycle[c] EXCEPT !.pc = "prediction", !.todo = cycle[c].todo \ {p}, !.cur = p]
  <2>2. p \in Quotes /\ x \in CycleStates /\ x.cur = p /\ x.fresh = cycle[c].fresh
    BY <1>0, <2>1 DEF CycleStates
  <2>3. CyclesType'
    BY <1>0, <2>1, <2>2, CycleMoves
  <2>4. IsTable(picks')
    BY <1>0, <2>1, <2>2, TableUpsert DEF TablesType
  <2> QED
    BY <1>2, <2>3, <2>4 DEF UpsertPick, TypeInv, WorldType, TablesType, ResultsType, SettlersType, FileType
<1>3. ASSUME NEW done \in BOOLEAN, NEW layak \in BOOLEAN, UpsertPrediction(c, done, layak)
      PROVE  TypeInv'
  <2>1. cycle[c].cur \in Quotes
    BY <1>0, <1>3 DEF UpsertPrediction
  <2>2. IsTable(predictions')
    BY <1>0, <1>3, <2>1, TableUpsert DEF TablesType, UpsertPrediction
  <2>3. CyclesType' /\ file' \in Seq(Rows) /\ LegacyIn(file')
    <3>1. CASE layak /\ phase[cycle[c].cur.match] = "window"
      <4>1. cycle' = [cycle EXCEPT ![c].pc = "probe"] /\ file' = file
        BY <1>3, <3>1 DEF UpsertPrediction
      <4> QED
        BY <1>0, <2>1, <4>1 DEF CyclesType, CycleStates
    <3>2. CASE ~ (layak /\ phase[cycle[c].cur.match] = "window")
      <4>1. NextEntry(c, cycle[c].fresh) /\ cycle[c].fresh \in Seq(Rows)
        BY <1>0, <1>3, <3>2 DEF UpsertPrediction, CycleStates
      <4> QED
        BY <1>0, <4>1, NextEntryTypes
    <3> QED
      BY <3>1, <3>2
  <2> QED
    BY <1>3, <2>2, <2>3 DEF UpsertPrediction, TypeInv, WorldType, TablesType, ResultsType, SettlersType, FileType
<1>4. ASSUME NEW heard \in BOOLEAN, Probe(c, heard)
      PROVE  TypeInv'
  <2>1. cycle[c].cur \in Quotes /\ cycle[c].fresh \in Seq(Rows)
    BY <1>0, <1>4 DEF Probe, CycleStates
  <2>2. CyclesType' /\ file' \in Seq(Rows) /\ LegacyIn(file')
    <3>1. CASE heard /\ cycle[c].cur \in ledger
      BY <1>0, <1>4, <2>1, <3>1, NextEntryTypes DEF Probe
    <3>2. CASE ~ (heard /\ cycle[c].cur \in ledger)
      <4>1. cycle' = [cycle EXCEPT ![c].pc = "insert"] /\ file' = file
        BY <1>4, <3>2 DEF Probe
      <4> QED
        BY <1>0, <2>1, <4>1 DEF CyclesType, CycleStates
    <3> QED
      BY <3>1, <3>2
  <2> QED
    BY <1>4, <2>2 DEF Probe, tables, TypeInv, WorldType, TablesType, ResultsType, SettlersType, FileType
<1>5. ASSUME NEW done \in BOOLEAN, NEW heard \in BOOLEAN, Insert(c, done, heard)
      PROVE  TypeInv'
  <2> DEFINE p == cycle[c].cur
             fresh == IF heard THEN Append(cycle[c].fresh, Fresh(p)) ELSE cycle[c].fresh
  <2>1. p \in Quotes /\ cycle[c].fresh \in Seq(Rows)
    BY <1>0, <1>5 DEF Insert, CycleStates
  <2>2. fresh \in Seq(Rows) /\ AreFresh(fresh)
    BY <1>0, <2>1, FreshRow DEF AreFresh
  <2>3. NextEntry(c, fresh)
    BY <1>5 DEF Insert
  <2> HIDE DEF fresh
  <2>4. CyclesType' /\ file' \in Seq(Rows) /\ LegacyIn(file')
    BY <2>2, <2>3, NextEntryTypes
  <2>5. TablesType'
    BY <1>0, <1>5, <2>1 DEF Insert, TablesType
  <2> QED
    BY <1>5, <2>4, <2>5 DEF Insert, TypeInv, WorldType, ResultsType, SettlersType, FileType
<1>6. CASE CrashCycle(c)
  <2>1. DoneCycle \in CycleStates /\ DoneCycle.pc = "done" /\ AreFresh(DoneCycle.fresh)
    BY DEF CycleStates, DoneCycle, AreFresh
  <2>2. CyclesType'
    BY <1>0, <1>6, <2>1, CycleMoves DEF CrashCycle
  <2> QED
    BY <1>6, <2>2 DEF CrashCycle, tables, TypeInv, WorldType, TablesType, ResultsType, SettlersType, FileType
<1> QED
  BY <1>1, <1>2, <1>3, <1>4, <1>5, <1>6 DEF CycleStep

\* Where a settler goes when it is done with a line.
LEMMA NextSnapshotTypes ==
    ASSUME TypeInv, NEW s \in Settlers, NextSnapshot(s), file' = file,
           settler[s].pc \in {"pick", "probe", "insert"}
    PROVE  SettlersType' /\ FileType'
<1>0. /\ settler[s] \in SettlerStates /\ file \in Seq(Rows) /\ LegacyIn(file)
      /\ LegacyIn(settler[s].read) /\ settler \in [Settlers -> SettlerStates]
      /\ settler[s].todo \subseteq Snapshots(settler[s].read, settler[s].known)
      /\ settler[s].todo # {}
  BY DEF TypeInv, SettlersType, FileType
<1>1. CASE settler[s].todo = {Line(s)}
  <2>1. settler' = [settler EXCEPT ![s] = IdleSettler]
    BY <1>0, <1>1 DEF NextSnapshot
  <2> QED
    BY <1>0, <2>1, IdleSettlerType, SettlerMoves
<1>2. CASE settler[s].todo # {Line(s)}
  <2> DEFINE x == [settler[s] EXCEPT !.pc = "pick", !.todo = settler[s].todo \ {Line(s)}]
  <2>1. /\ x \in SettlerStates /\ x.pc = "pick" /\ x.todo = settler[s].todo \ {Line(s)}
        /\ x.read = settler[s].read /\ x.known = settler[s].known
    BY <1>0 DEF SettlerStates
  <2>2. settler' = [settler EXCEPT ![s] = x]
    BY <1>0, <1>2 DEF NextSnapshot
  <2>3. Line(s) \in settler[s].todo
    BY LineAtWork
  <2> HIDE DEF x
  <2> QED
    BY <1>0, <1>2, <2>1, <2>2, <2>3, SettlerMoves
<1> QED
  BY <1>1, <1>2

LEMMA TypeOfSettlerSteps ==
    ASSUME TypeInv, NEW s \in Settlers, SettlerStep(s)
    PROVE  TypeInv'
<1>0. /\ settler[s] \in SettlerStates /\ file \in Seq(Rows) /\ LegacyIn(file)
      /\ LegacyIn(settler[s].read)
      /\ settler[s].todo \subseteq Snapshots(settler[s].read, settler[s].known)
      /\ settler[s].pc \in {"pick", "probe", "insert"} <=> settler[s].todo # {}
  BY DEF TypeInv, SettlersType, FileType
<1>1. CASE ReadFile(s)
  <2> DEFINE x == [settler[s] EXCEPT !.pc = "scores", !.read = file]
  <2>1. x \in SettlerStates /\ x.pc = "scores" /\ x.read = file /\ x.todo = {}
    BY <1>0, <1>1 DEF ReadFile, SettlerStates
  <2>2. settler' = [settler EXCEPT ![s] = x] /\ file' = file
    BY <1>1 DEF ReadFile
  <2> HIDE DEF x
  <2>3. SettlersType' /\ FileType'
    BY <1>0, <2>1, <2>2, SettlerMoves
  <2> QED
    BY <1>1, <2>3 DEF ReadFile, tables, TypeInv, WorldType, TablesType, ResultsType, CyclesType
<1>2. ASSUME NEW heard \in BOOLEAN, ReadScores(s, heard)
      PROVE  TypeInv'
  <2> DEFINE known == IF heard THEN {m \in Matches : result[m] # Nothing} ELSE {}
             x == [settler[s] EXCEPT !.pc = "rewrite", !.known = known]
  <2>1. /\ x \in SettlerStates /\ x.pc = "rewrite" /\ x.read = settler[s].read /\ x.todo = {}
    BY <1>0, <1>2 DEF ReadScores, SettlerStates
  <2>2. settler' = [settler EXCEPT ![s] = x] /\ file' = file
    BY <1>2 DEF ReadScores
  <2> HIDE DEF x
  <2>3. SettlersType' /\ FileType'
    BY <1>0, <2>1, <2>2, SettlerMoves
  <2> QED
    BY <1>2, <2>3 DEF ReadScores, tables, TypeInv, WorldType, TablesType, ResultsType, CyclesType
<1>3. CASE Rewrite(s)
  <2> DEFINE rows == settler[s].read
             known == settler[s].known
             todo == Snapshots(rows, known)
             new == Settled(rows, known)
             x == [settler[s] EXCEPT !.pc = "pick", !.todo = todo]
  <2>1. rows \in Seq(Rows) /\ LegacyIn(rows)
    BY <1>0 DEF SettlerStates
  <2>2. new \in Seq(Rows) /\ LegacyIn(new)
    BY <2>1, SettledRows
  <2>3. file' \in {file, new}
    BY <1>3 DEF Rewrite, Settled
  <2>4. file' \in Seq(Rows) /\ LegacyIn(file')
    BY <1>0, <2>2, <2>3
  <2>5. SettlersType' /\ FileType'
    <3>1. CASE todo = {}
      <4>1. settler' = [settler EXCEPT ![s] = IdleSettler]
        BY <1>3, <3>1 DEF Rewrite
      <4> QED
        BY <2>4, <4>1, IdleSettlerType, SettlerMoves
    <3>2. CASE todo # {}
      <4>1. settler' = [settler EXCEPT ![s] = x]
        BY <1>3, <3>2 DEF Rewrite
      <4>2. todo \in SUBSET Nat
        BY <2>1 DEF Snapshots
      <4>3. x \in SettlerStates /\ x.pc = "pick" /\ x.todo = todo /\ x.read = rows /\ x.known = known
        BY <1>0, <4>2 DEF SettlerStates
      <4> HIDE DEF x
      <4> QED
        BY <2>1, <2>4, <3>2, <4>1, <4>3, SettlerMoves
    <3> QED
      BY <3>1, <3>2
  <2> QED
    BY <1>3, <2>5 DEF Rewrite, tables, TypeInv, WorldType, TablesType, ResultsType, CyclesType
<1>4. ASSUME NEW done \in BOOLEAN, UpdatePick(s, done)
      PROVE  TypeInv'
  <2> DEFINE x == [settler[s] EXCEPT !.pc = "probe"]
  <2>1. /\ x \in SettlerStates /\ x.pc = "probe" /\ x.read = settler[s].read
        /\ x.todo = settler[s].todo /\ x.known = settler[s].known /\ x.todo # {}
    BY <1>0, <1>4 DEF UpdatePick, SettlerStates
  <2>2. settler' = [settler EXCEPT ![s] = x] /\ file' = file
    BY <1>4 DEF UpdatePick
  <2> HIDE DEF x
  <2>3. SettlersType' /\ FileType'
    BY <1>0, <2>1, <2>2, SettlerMoves
  <2>4. TablesType'
    <3>1. PickStatus(Outcome(Position(s))) \in Statuses
      BY DEF PickStatus, Statuses
    <3> QED
      BY <1>4, <3>1 DEF UpdatePick, TypeInv, TablesType
  <2> QED
    BY <1>4, <2>3, <2>4 DEF UpdatePick, TypeInv, WorldType, ResultsType, CyclesType
<1>5. ASSUME NEW heard \in BOOLEAN, ProbeResult(s, heard)
      PROVE  TypeInv'
  <2>1. SettlersType' /\ FileType'
    <3>1. CASE NextSnapshot(s)
      BY <1>5, <3>1, NextSnapshotTypes DEF ProbeResult
    <3>2. CASE settler' = [settler EXCEPT ![s].pc = "insert"]
      <4> DEFINE x == [settler[s] EXCEPT !.pc = "insert"]
      <4>1. /\ x \in SettlerStates /\ x.pc = "insert" /\ x.read = settler[s].read
            /\ x.todo = settler[s].todo /\ x.known = settler[s].known /\ x.todo # {}
        BY <1>0, <1>5 DEF ProbeResult, SettlerStates
      <4>2. settler' = [settler EXCEPT ![s] = x] /\ file' = file
        BY <1>5, <3>2 DEF ProbeResult
      <4> HIDE DEF x
      <4> QED
        BY <1>0, <4>1, <4>2, SettlerMoves
    <3> QED
      BY <1>5, <3>1, <3>2 DEF ProbeResult
  <2> QED
    BY <1>5, <2>1 DEF ProbeResult, tables, TypeInv, WorldType, TablesType, ResultsType, CyclesType
<1>6. ASSUME NEW done \in BOOLEAN, InsertResult(s, done)
      PROVE  TypeInv'
  <2> DEFINE p == Position(s)
             side == IF p.market = "AH" THEN "home" ELSE p.side
             r == [match |-> p.match, market |-> p.market, side |-> side, line |-> p.line,
                   outcome |-> Outcome(p)]
  <2>1. p \in Positions
    BY <1>6, LineAtWork, PositionTypes DEF InsertResult
  <2>2. r \in ResultRows
    BY <2>1, OutcomeTypes DEF Positions, ResultRows
  <2>3. results' = IF done THEN Append(results, r) ELSE results
    BY <1>6 DEF InsertResult
  <2>4. done => Len(results) < MaxResults
    BY <1>6 DEF InsertResult
  <2> HIDE DEF r
  <2>5. ResultsType'
    BY <2>2, <2>3, <2>4, LedgerAssumption DEF TypeInv, ResultsType
  <2>6. SettlersType' /\ FileType'
    BY <1>6, NextSnapshotTypes DEF InsertResult
  <2> QED
    BY <1>6, <2>5, <2>6 DEF InsertResult, TypeInv, WorldType, TablesType, CyclesType
<1>7. CASE CrashSettler(s)
  <2>1. SettlersType' /\ FileType'
    BY <1>0, <1>7, IdleSettlerType, SettlerMoves DEF CrashSettler
  <2> QED
    BY <1>7, <2>1 DEF CrashSettler, tables, TypeInv, WorldType, TablesType, ResultsType, CyclesType
<1> QED
  BY <1>1, <1>2, <1>3, <1>4, <1>5, <1>6, <1>7 DEF SettlerStep

LEMMA TypeOfWorldSteps ==
    ASSUME TypeInv, NEW m \in Matches, TimePasses(m) \/ Publish(m)
    PROVE  TypeInv'
<1>1. CASE TimePasses(m)
  BY <1>1 DEF TimePasses, tables, TypeInv, WorldType, Phases, TablesType, ResultsType, CyclesType,
              SettlersType, FileType
<1>2. CASE Publish(m)
  BY <1>2 DEF Publish, tables, TypeInv, WorldType, Phases, TablesType, ResultsType, CyclesType,
              SettlersType, FileType
<1> QED
  BY <1>1, <1>2

LEMMA TypeStep == TypeInv /\ [LedgerNext]_ledgerVars => TypeInv'
<1> SUFFICES ASSUME TypeInv, [LedgerNext]_ledgerVars PROVE TypeInv'
  OBVIOUS
<1>1. CASE LedgerNext
  BY <1>1, TypeOfWorldSteps, TypeOfCycleSteps, TypeOfSettlerSteps DEF LedgerNext
<1>2. CASE UNCHANGED ledgerVars
  BY <1>2 DEF ledgerVars, tables, TypeInv, WorldType, TablesType, ResultsType, CyclesType,
              SettlersType, FileType, IsTable
<1> QED
  BY <1>1, <1>2

LEMMA TypeAlways == LedgerSpec => []TypeInv
<1>1. LedgerInit => TypeInv
  BY InitTypes
<1>2. TypeInv /\ [LedgerNext]_ledgerVars => TypeInv'
  BY TypeStep
<1> QED
  BY <1>1, <1>2, PTL DEF LedgerSpec

\* Every variable has its type in every reachable state, whatever the calls, losses
\* and deaths of persistPredictionCycle and runProductionSettlement.
THEOREM LedgerTypes == LedgerSpec => []LedgerTypeOK
<1>1. TypeInv => LedgerTypeOK
  <2> SUFFICES ASSUME TypeInv PROVE LedgerTypeOK
    OBVIOUS
  <2>1. \A m \in Matches : result[m] # Nothing => result[m] \in Published /\ result[m].match = m
    BY DEF TypeInv, WorldType
  <2>2. \A k \in Slots : /\ picks[k] # Nothing => picks[k] \in Quotes /\ Slot(picks[k]) = k
                         /\ predictions[k] # Nothing
                              => predictions[k] \in Quotes /\ Slot(predictions[k]) = k
    BY DEF TypeInv, TablesType, IsTable
  <2>3. \A i \in DOMAIN file : file[i] \in Rows
    BY DEF TypeInv, FileType
  <2>4. \A p \in ToSet(FileRows) : IsStatus(oldPicks[p])
    BY DEF TypeInv, TablesType, Statuses, IsStatus
  <2>5. \A c \in Cycles : \A i \in DOMAIN cycle[c].fresh : cycle[c].fresh[i] \in Rows
    BY DEF TypeInv, CyclesType, CycleStates
  <2>6. \A s \in Settlers : /\ \A i \in DOMAIN settler[s].read : settler[s].read[i] \in Rows
                            /\ settler[s].pc \in {"pick", "probe", "insert"}
                                  => settler[s].todo # {}
    BY DEF TypeInv, SettlersType, SettlerStates
  <2> QED
    BY <2>1, <2>2, <2>3, <2>4, <2>5, <2>6
       DEF LedgerTypeOK, TypeInv, WorldType, Phases, TablesType, ResultsType
<1> QED
  BY <1>1, TypeAlways, PTL

-----------------------------------------------------------------------------
(* Where the positions of cycles are *)

\* Positions of the rows that cycles have made.
Filed(rows) == {p \in Quotes : \E i \in DOMAIN rows : rows[i].shape = "cycle" /\ rows[i].pos = p}

OnceIn(rows) ==
    \A i, j \in DOMAIN rows :
        rows[i].shape = "cycle" /\ rows[j].shape = "cycle" /\ rows[i].pos = rows[j].pos => i = j

\* A row of a cycle holds a position of a cycle.
CyclesOwn(rows) == \A i \in DOMAIN rows : rows[i].shape = "cycle" => rows[i].pos \in Quotes

\* Rows that hold positions of the table at most once.
Sound(rows) == CyclesOwn(rows) /\ OnceIn(rows) /\ Filed(rows) \subseteq ledger

\* A position is in one cycle's hands, or else in the file and its readings.
SnapInv ==
    /\ Sound(file)
    /\ \A s \in Settlers : Sound(settler[s].read)
    /\ \A c \in Cycles :
          /\ Sound(cycle[c].fresh)
          /\ Filed(cycle[c].fresh) \cap Filed(file) = {}
          /\ \A s \in Settlers : Filed(cycle[c].fresh) \cap Filed(settler[s].read) = {}
          /\ \A d \in Cycles \ {c} : Filed(cycle[c].fresh) \cap Filed(cycle[d].fresh) = {}

LEMMA NoneFiled == Filed(<<>>) = {} /\ OnceIn(<<>>) /\ CyclesOwn(<<>>)
  BY DEF Filed, OnceIn, CyclesOwn

LEMMA FiledOfAppend ==
    ASSUME NEW rows \in Seq(Rows), NEW p \in Quotes, CyclesOwn(rows), OnceIn(rows),
           p \notin Filed(rows)
    PROVE  /\ Filed(Append(rows, Fresh(p))) = Filed(rows) \cup {p}
           /\ CyclesOwn(Append(rows, Fresh(p)))
           /\ OnceIn(Append(rows, Fresh(p)))
<1> DEFINE new == Append(rows, Fresh(p))
           n == Len(rows)
<1>1. /\ n \in Nat /\ DOMAIN rows = 1..n /\ DOMAIN new = 1..(n + 1)
      /\ \A i \in 1..n : new[i] = rows[i]
      /\ new[n + 1] = Fresh(p)
  BY FreshRow
<1>2. Fresh(p).shape = "cycle" /\ Fresh(p).pos = p
  BY FreshRow
<1> HIDE DEF new, n
<1>3. Filed(new) = Filed(rows) \cup {p}
  BY <1>1, <1>2 DEF Filed
<1>4. CyclesOwn(new)
  BY <1>1, <1>2 DEF CyclesOwn
<1>5. OnceIn(new)
  BY <1>1, <1>2 DEF OnceIn, Filed
<1> QED
  BY <1>3, <1>4, <1>5 DEF new

LEMMA FiledOfConcat ==
    ASSUME NEW r1 \in Seq(Rows), NEW r2 \in Seq(Rows), CyclesOwn(r1), CyclesOwn(r2),
           OnceIn(r1), OnceIn(r2), Filed(r1) \cap Filed(r2) = {}
    PROVE  /\ Filed(r1 \o r2) = Filed(r1) \cup Filed(r2)
           /\ CyclesOwn(r1 \o r2)
           /\ OnceIn(r1 \o r2)
<1> DEFINE new == r1 \o r2
           m == Len(r1)
           n == Len(r2)
<1>1. /\ m \in Nat /\ n \in Nat /\ DOMAIN r1 = 1..m /\ DOMAIN r2 = 1..n
      /\ DOMAIN new = 1..(m + n)
      /\ \A i \in 1..m : new[i] = r1[i] /\ i \in DOMAIN new
  OBVIOUS
<1>5. \A i \in 1..n : new[m + i] = r2[i] /\ m + i \in DOMAIN new
  OBVIOUS
<1>6. \A i \in DOMAIN new :
         IF i <= m THEN i \in DOMAIN r1 /\ new[i] = r1[i]
         ELSE i - m \in DOMAIN r2 /\ new[i] = r2[i - m]
  OBVIOUS
<1> HIDE DEF new, m, n
<1>2. Filed(new) = Filed(r1) \cup Filed(r2)
  <2>1. Filed(new) \subseteq Filed(r1) \cup Filed(r2)
    <3>1. SUFFICES ASSUME NEW p \in Filed(new) PROVE p \in Filed(r1) \cup Filed(r2)
      OBVIOUS
    <3>2. PICK i \in DOMAIN new : new[i].shape = "cycle" /\ new[i].pos = p
      BY DEF Filed
    <3>3. CASE i <= m
      BY <1>6, <3>2, <3>3 DEF Filed
    <3>4. CASE ~ (i <= m)
      BY <1>6, <3>2, <3>4 DEF Filed
    <3> QED
      BY <3>3, <3>4
  <2>2. Filed(r1) \subseteq Filed(new)
    BY <1>1 DEF Filed
  <2>3. Filed(r2) \subseteq Filed(new)
    <3>1. SUFFICES ASSUME NEW p \in Filed(r2) PROVE p \in Filed(new)
      OBVIOUS
    <3>2. PICK i \in DOMAIN r2 : r2[i].shape = "cycle" /\ r2[i].pos = p
      BY DEF Filed
    <3>3. m + i \in DOMAIN new /\ new[m + i] = r2[i]
      BY <1>1, <1>5, <3>2
    <3> QED
      BY <3>2, <3>3 DEF Filed
  <2> QED
    BY <2>1, <2>2, <2>3
<1>3. CyclesOwn(new)
  BY <1>6 DEF CyclesOwn
<1>4. OnceIn(new)
  <2>1. SUFFICES ASSUME NEW i \in DOMAIN new, NEW j \in DOMAIN new,
                        new[i].shape = "cycle", new[j].shape = "cycle",
                        new[i].pos = new[j].pos
                 PROVE  i = j
    BY DEF OnceIn
  <2>2. CASE i <= m /\ j <= m
    BY <1>6, <2>1, <2>2 DEF OnceIn
  <2>3. CASE ~ (i <= m) /\ ~ (j <= m)
    <3>1. i - m = j - m
      BY <1>6, <2>1, <2>3 DEF OnceIn
    <3> QED
      BY <1>1, <3>1
  <2>4. ASSUME NEW k \in DOMAIN new, NEW l \in DOMAIN new, k <= m, ~ (l <= m),
               new[k].shape = "cycle", new[l].shape = "cycle", new[k].pos = new[l].pos
        PROVE  FALSE
    <3>1. k \in DOMAIN r1 /\ new[k] = r1[k] /\ l - m \in DOMAIN r2 /\ new[l] = r2[l - m]
      BY <1>6, <2>4
    <3>2. new[k].pos \in Filed(r1) /\ new[l].pos \in Filed(r2)
      BY <2>4, <3>1 DEF Filed, CyclesOwn
    <3> QED
      BY <2>4, <3>2
  <2> QED
    BY <2>1, <2>2, <2>3, <2>4
<1> QED
  BY <1>2, <1>3, <1>4 DEF new

LEMMA FiledOfSettled ==
    ASSUME NEW rows \in Seq(Rows), NEW known, CyclesOwn(rows), OnceIn(rows)
    PROVE  /\ Filed(Settled(rows, known)) = Filed(rows)
           /\ CyclesOwn(Settled(rows, known))
           /\ OnceIn(Settled(rows, known))
<1>1. /\ DOMAIN Settled(rows, known) = DOMAIN rows
      /\ \A i \in DOMAIN rows : /\ Settled(rows, known)[i].shape = rows[i].shape
                                /\ Settled(rows, known)[i].pos = rows[i].pos
  BY SettledRows
<1> QED
  BY <1>1 DEF Filed, CyclesOwn, OnceIn

-----------------------------------------------------------------------------
(* What a step does to the rows, wherever they are *)

NextEntryEffect(c, fresh) ==
    /\ \A d \in Cycles \ {c} : cycle'[d] = cycle[d]
    /\ \/ cycle'[c].fresh \in {fresh, <<>>} /\ file' = file
       \/ cycle'[c].fresh = <<>> /\ file' = file \o fresh

LEMMA NextEntryRows ==
    ASSUME TypeInv, NEW c \in Cycles, NEW fresh \in Seq(Rows), NextEntry(c, fresh)
    PROVE  NextEntryEffect(c, fresh)
<1>0. cycle \in [Cycles -> CycleStates]
  BY DEF TypeInv, CyclesType
<1>1. CASE cycle[c].todo # {}
  <2> DEFINE x == [cycle[c] EXCEPT !.pc = "pick", !.cur = Nothing, !.fresh = fresh]
  <2>1. x.fresh = fresh
    BY <1>0 DEF CycleStates
  <2>2. cycle' = [cycle EXCEPT ![c] = x] /\ file' = file
    BY <1>1 DEF NextEntry
  <2> HIDE DEF x
  <2> QED
    BY <1>0, <2>1, <2>2 DEF NextEntryEffect
<1>2. CASE cycle[c].todo = {}
  BY <1>0, <1>2 DEF NextEntry, NextEntryEffect, DoneCycle
<1> QED
  BY <1>1, <1>2

\* A step of a cycle puts a new position in the table, or none; the rows in its
\* hands stay there, with or without the new one, or go to the file, or are lost.
LEMMA CycleEffect ==
    ASSUME TypeInv, NEW c \in Cycles, CycleStep(c)
    PROVE  /\ UNCHANGED <<result, oldPicks, results, settler>>
           /\ \E fresh \in Seq(Rows) :
                 /\ NextEntryEffect(c, fresh) /\ AreFresh(fresh)
                 /\ \/ /\ fresh = cycle[c].fresh
                       /\ ledger \subseteq ledger'
                    \/ \E p \in Quotes \ ledger : /\ fresh = Append(cycle[c].fresh, Fresh(p))
                                                  /\ ledger' = ledger \cup {p}
<1>0. /\ cycle \in [Cycles -> CycleStates] /\ cycle[c].fresh \in Seq(Rows)
      /\ AreFresh(cycle[c].fresh)
      /\ cycle[c].pc \in {"prediction", "probe", "insert"} => cycle[c].cur \in Quotes
  BY DEF TypeInv, CyclesType, CycleStates
<1> DEFINE Kept == /\ \A d \in Cycles \ {c} : cycle'[d] = cycle[d]
                   /\ cycle'[c].fresh \in {cycle[c].fresh, <<>>} /\ file' = file
                   /\ ledger' = ledger
<1>1. Kept => NextEntryEffect(c, cycle[c].fresh) /\ ledger \subseteq ledger'
  BY DEF NextEntryEffect
<1>2. CASE StartCycle(c)
  <2>1. PICK found : cycle' = [cycle EXCEPT ![c] = [@ EXCEPT !.pc = "pick", !.todo = found]]
    BY <1>2 DEF StartCycle
  <2>2. Kept
    BY <1>0, <1>2, <2>1 DEF StartCycle, tables, CycleStates
  <2> QED
    BY <1>0, <1>1, <1>2, <2>2 DEF StartCycle, tables
<1>3. ASSUME NEW done \in BOOLEAN, UpsertPick(c, done)
      PROVE  Kept /\ UNCHANGED <<result, oldPicks, results, settler>>
  <2>1. PICK p : cycle' = [cycle EXCEPT ![c] =
                     [@ EXCEPT !.pc = "prediction", !.todo = cycle[c].todo \ {p}, !.cur = p]]
    BY <1>3 DEF UpsertPick
  <2>2. Kept
    BY <1>0, <1>3, <2>1 DEF UpsertPick, CycleStates
  <2> QED
    BY <1>3, <2>2 DEF UpsertPick
<1>4. ASSUME NEW done \in BOOLEAN, NEW layak \in BOOLEAN, UpsertPrediction(c, done, layak)
      PROVE  /\ NextEntryEffect(c, cycle[c].fresh) /\ ledger \subseteq ledger'
             /\ UNCHANGED <<result, oldPicks, results, settler>>
  <2>1. CASE cycle' = [cycle EXCEPT ![c].pc = "probe"] /\ file' = file
    <3>1. Kept
      BY <1>0, <1>4, <2>1 DEF UpsertPrediction, CycleStates
    <3> QED
      BY <1>1, <1>4, <3>1 DEF UpsertPrediction
  <2>2. CASE NextEntry(c, cycle[c].fresh)
    BY <1>0, <1>4, <2>2, NextEntryRows DEF UpsertPrediction
  <2> QED
    BY <1>4, <2>1, <2>2 DEF UpsertPrediction
<1>5. ASSUME NEW heard \in BOOLEAN, Probe(c, heard)
      PROVE  /\ NextEntryEffect(c, cycle[c].fresh) /\ ledger \subseteq ledger'
             /\ UNCHANGED <<result, oldPicks, results, settler>>
  <2>1. CASE cycle' = [cycle EXCEPT ![c].pc = "insert"] /\ file' = file
    <3>1. Kept
      BY <1>0, <1>5, <2>1 DEF Probe, tables, CycleStates
    <3> QED
      BY <1>1, <1>5, <3>1 DEF Probe, tables
  <2>2. CASE NextEntry(c, cycle[c].fresh)
    BY <1>0, <1>5, <2>2, NextEntryRows DEF Probe, tables
  <2> QED
    BY <1>5, <2>1, <2>2 DEF Probe
<1>6. ASSUME NEW done \in BOOLEAN, NEW heard \in BOOLEAN, Insert(c, done, heard)
      PROVE  /\ UNCHANGED <<result, oldPicks, results, settler>>
             /\ \E fresh \in Seq(Rows) :
                   /\ NextEntryEffect(c, fresh) /\ AreFresh(fresh)
                   /\ \/ /\ fresh = cycle[c].fresh
                         /\ ledger \subseteq ledger'
                      \/ \E p \in Quotes \ ledger : /\ fresh = Append(cycle[c].fresh, Fresh(p))
                                                    /\ ledger' = ledger \cup {p}
  <2> DEFINE p == cycle[c].cur
             fresh == IF heard THEN Append(cycle[c].fresh, Fresh(p)) ELSE cycle[c].fresh
  <2>1. p \in Quotes
    BY <1>0, <1>6 DEF Insert
  <2>2. fresh \in Seq(Rows) /\ AreFresh(fresh)
    BY <1>0, <2>1, FreshRow DEF AreFresh
  <2>3. NextEntryEffect(c, fresh)
    BY <1>6, <2>2, NextEntryRows DEF Insert
  <2>4. CASE heard
    <3>1. p \in Quotes \ ledger /\ fresh = Append(cycle[c].fresh, Fresh(p)) /\ ledger' = ledger \cup {p}
      BY <1>6, <2>1, <2>4 DEF Insert
    <3> QED
      BY <1>6, <2>2, <2>3, <3>1 DEF Insert
  <2>5. CASE ~ heard
    <3>1. fresh = cycle[c].fresh /\ ledger \subseteq ledger'
      BY <1>6, <2>5 DEF Insert
    <3> QED
      BY <1>6, <2>2, <2>3, <3>1 DEF Insert
  <2> QED
    BY <2>4, <2>5
<1>7. CASE CrashCycle(c)
  <2>1. Kept
    BY <1>0, <1>7 DEF CrashCycle, tables, DoneCycle
  <2> QED
    BY <1>0, <1>1, <1>7, <2>1 DEF CrashCycle, tables
<1> HIDE DEF Kept
<1> QED
  BY <1>0, <1>1, <1>2, <1>3, <1>4, <1>5, <1>6, <1>7 DEF CycleStep

\* A step of a settlement may replace the file by what it made of its reading, and
\* its reading by the file; rows in the hands of cycles are not its business.
LEMMA SettlerEffect ==
    ASSUME TypeInv, NEW s \in Settlers, SettlerStep(s)
    PROVE  /\ UNCHANGED <<phase, result, ledger, cycle>>
           /\ \A t \in Settlers \ {s} : settler'[t] = settler[t]
           /\ settler'[s].read \in {settler[s].read, file, <<>>}
           /\ \A m \in settler'[s].known : m \in settler[s].known \/ result[m] # Nothing
           /\ file' \in {file, Settled(settler[s].read, settler[s].known)}
           /\ settler[s].read = <<>> => file' = file
<1>0. settler \in [Settlers -> SettlerStates]
  BY DEF TypeInv, SettlersType
<1>1. ASSUME NextSnapshot(s)
      PROVE  /\ \A t \in Settlers \ {s} : settler'[t] = settler[t]
             /\ settler'[s].read \in {settler[s].read, file, <<>>}
             /\ settler'[s].known \subseteq settler[s].known
  <2> DEFINE x == [settler[s] EXCEPT !.pc = "pick", !.todo = settler[s].todo \ {Line(s)}]
  <2>1. x.read = settler[s].read /\ x.known = settler[s].known
    BY <1>0 DEF SettlerStates
  <2>2. settler' = [settler EXCEPT ![s] = IF settler[s].todo = {Line(s)} THEN IdleSettler ELSE x]
    BY <1>1 DEF NextSnapshot
  <2> HIDE DEF x
  <2> QED
    BY <1>0, <2>1, <2>2 DEF IdleSettler
<1>2. CASE ReadFile(s)
  BY <1>0, <1>2 DEF ReadFile, tables, SettlerStates
<1>3. ASSUME NEW heard \in BOOLEAN, ReadScores(s, heard)
      PROVE  /\ UNCHANGED <<phase, result, ledger, cycle, file>>
             /\ \A t \in Settlers \ {s} : settler'[t] = settler[t]
             /\ settler'[s].read = settler[s].read
             /\ \A m \in settler'[s].known : m \in settler[s].known \/ result[m] # Nothing
  <2> DEFINE known == IF heard THEN {m \in Matches : result[m] # Nothing} ELSE {}
  <2>1. settler' = [settler EXCEPT ![s] = [@ EXCEPT !.pc = "rewrite", !.known = known]]
    BY <1>3 DEF ReadScores
  <2>2. \A m \in known : result[m] # Nothing
    OBVIOUS
  <2> HIDE DEF known
  <2> QED
    BY <1>0, <1>3, <2>1, <2>2 DEF ReadScores, tables, SettlerStates
<1>4. CASE Rewrite(s)
  <2> DEFINE todo == Snapshots(settler[s].read, settler[s].known)
             x == [settler[s] EXCEPT !.pc = "pick", !.todo = todo]
  <2>1. x.read = settler[s].read /\ x.known = settler[s].known
    BY <1>0 DEF SettlerStates
  <2>2. settler' = [settler EXCEPT ![s] = IF todo = {} THEN IdleSettler ELSE x]
    BY <1>4 DEF Rewrite
  <2>3. /\ file' \in {file, Settled(settler[s].read, settler[s].known)}
        /\ settler[s].read = <<>> => file' = file
    BY <1>4 DEF Rewrite, Settled
  <2> HIDE DEF x, todo
  <2> QED
    BY <1>0, <1>4, <2>1, <2>2, <2>3 DEF Rewrite, tables, IdleSettler
<1>5. ASSUME NEW done \in BOOLEAN, UpdatePick(s, done)
      PROVE  /\ UNCHANGED <<phase, result, ledger, cycle, file>>
             /\ \A t \in Settlers \ {s} : settler'[t] = settler[t]
             /\ settler'[s].read = settler[s].read
             /\ \A m \in settler'[s].known : m \in settler[s].known \/ result[m] # Nothing
  BY <1>0, <1>5 DEF UpdatePick, SettlerStates
<1>6. ASSUME NEW heard \in BOOLEAN, ProbeResult(s, heard)
      PROVE  /\ UNCHANGED <<phase, result, ledger, cycle, file>>
             /\ \A t \in Settlers \ {s} : settler'[t] = settler[t]
             /\ settler'[s].read \in {settler[s].read, file, <<>>}
             /\ settler'[s].known \subseteq settler[s].known
  <2>1. CASE NextSnapshot(s)
    BY <1>1, <1>6, <2>1 DEF ProbeResult, tables
  <2>2. CASE settler' = [settler EXCEPT ![s].pc = "insert"]
    BY <1>0, <1>6, <2>2 DEF ProbeResult, tables, SettlerStates
  <2> QED
    BY <1>6, <2>1, <2>2 DEF ProbeResult
<1>7. ASSUME NEW done \in BOOLEAN, InsertResult(s, done)
      PROVE  /\ UNCHANGED <<phase, result, ledger, cycle, file>>
             /\ \A t \in Settlers \ {s} : settler'[t] = settler[t]
             /\ settler'[s].read \in {settler[s].read, file, <<>>}
             /\ settler'[s].known \subseteq settler[s].known
  BY <1>1, <1>7 DEF InsertResult
<1>8. CASE CrashSettler(s)
  BY <1>0, <1>8 DEF CrashSettler, tables, IdleSettler
<1> QED
  BY <1>2, <1>3, <1>4, <1>5, <1>6, <1>7, <1>8 DEF SettlerStep

LEMMA SnapInit == LedgerInit => SnapInv
<1> SUFFICES ASSUME LedgerInit PROVE SnapInv
  OBVIOUS
<1>1. \A i \in DOMAIN file : file[i].shape = "legacy"
  BY DEF LedgerInit, Legacy
<1>2. Filed(file) = {} /\ Sound(file)
  BY <1>1 DEF Filed, Sound, CyclesOwn, OnceIn
<1>3. Sound(<<>>)
  BY NoneFiled DEF Sound
<1>4. /\ \A c \in Cycles : cycle[c].fresh = <<>>
      /\ \A s \in Settlers : settler[s].read = <<>>
  BY DEF LedgerInit, IdleCycle, IdleSettler
<1> QED
  BY <1>2, <1>3, <1>4, NoneFiled DEF SnapInv

LEMMA SnapOfCycleSteps ==
    ASSUME TypeInv, SnapInv, NEW c \in Cycles, CycleStep(c)
    PROVE  SnapInv'
<1>1. PICK fresh \in Seq(Rows) :
         /\ NextEntryEffect(c, fresh)
         /\ \/ fresh = cycle[c].fresh /\ ledger \subseteq ledger'
            \/ \E p \in Quotes \ ledger : /\ fresh = Append(cycle[c].fresh, Fresh(p))
                                          /\ ledger' = ledger \cup {p}
  BY CycleEffect
<1>2. settler' = settler
  BY CycleEffect
<1>3. /\ file \in Seq(Rows) /\ cycle[c].fresh \in Seq(Rows)
  BY DEF TypeInv, FileType, CyclesType, CycleStates
<1>4. /\ ledger \subseteq ledger' /\ CyclesOwn(fresh) /\ OnceIn(fresh)
      /\ Filed(fresh) \subseteq ledger'
      /\ Filed(fresh) \cap Filed(file) = {}
      /\ \A s \in Settlers : Filed(fresh) \cap Filed(settler[s].read) = {}
      /\ \A d \in Cycles \ {c} : Filed(fresh) \cap Filed(cycle[d].fresh) = {}
  <2>1. CASE fresh = cycle[c].fresh /\ ledger \subseteq ledger'
    BY <2>1 DEF SnapInv, Sound
  <2>2. ASSUME NEW p \in Quotes \ ledger, fresh = Append(cycle[c].fresh, Fresh(p)),
               ledger' = ledger \cup {p}
        PROVE  <1>4!:
    <3>1. p \notin Filed(cycle[c].fresh) /\ CyclesOwn(cycle[c].fresh) /\ OnceIn(cycle[c].fresh)
      BY DEF SnapInv, Sound
    <3>2. /\ Filed(fresh) = Filed(cycle[c].fresh) \cup {p}
          /\ CyclesOwn(fresh) /\ OnceIn(fresh)
      BY <1>3, <2>2, <3>1, FiledOfAppend
    <3> QED
      BY <2>2, <3>2 DEF SnapInv, Sound
  <2> QED
    BY <1>1, <2>1, <2>2
<1>5. /\ \A d \in Cycles \ {c} : cycle'[d] = cycle[d]
      /\ \/ cycle'[c].fresh \in {fresh, <<>>} /\ file' = file
         \/ cycle'[c].fresh = <<>> /\ file' = file \o fresh
  BY <1>1 DEF NextEntryEffect
<1>6. CASE cycle'[c].fresh = fresh /\ file' = file
  BY <1>2, <1>4, <1>5, <1>6 DEF SnapInv, Sound
<1>7. CASE cycle'[c].fresh = <<>> /\ file' = file
  BY <1>2, <1>4, <1>5, <1>7, NoneFiled DEF SnapInv, Sound
<1>8. CASE cycle'[c].fresh = <<>> /\ file' = file \o fresh
  <2>1. /\ Filed(file') = Filed(file) \cup Filed(fresh)
        /\ CyclesOwn(file') /\ OnceIn(file')
    BY <1>3, <1>4, <1>8, FiledOfConcat DEF SnapInv, Sound
  <2> QED
    BY <1>2, <1>4, <1>5, <1>8, <2>1, NoneFiled DEF SnapInv, Sound
<1> QED
  BY <1>5, <1>6, <1>7, <1>8

LEMMA SnapOfSettlerSteps ==
    ASSUME TypeInv, SnapInv, NEW s \in Settlers, SettlerStep(s)
    PROVE  SnapInv'
<1> DEFINE rows == settler[s].read
           new == Settled(rows, settler[s].known)
<1>1. /\ UNCHANGED <<ledger, cycle>>
      /\ \A t \in Settlers \ {s} : settler'[t] = settler[t]
      /\ settler'[s].read \in {rows, file, <<>>}
      /\ file' \in {file, new}
  BY SettlerEffect
<1>2. rows \in Seq(Rows)
  BY DEF TypeInv, SettlersType, SettlerStates
<1>3. Filed(new) = Filed(rows) /\ CyclesOwn(new) /\ OnceIn(new)
  BY <1>2, FiledOfSettled DEF SnapInv, Sound
<1> HIDE DEF new
<1>4. \A t \in Settlers : settler'[t].read \in {settler[t].read, file, <<>>}
  BY <1>1
<1>5. Sound(file') /\ \A t \in Settlers : Sound(settler'[t].read)
  BY <1>1, <1>3, <1>4, NoneFiled DEF SnapInv, Sound
<1>6. /\ Filed(file') \in {Filed(file), Filed(rows)}
      /\ \A t \in Settlers :
            Filed(settler'[t].read) \in {Filed(settler[t].read), Filed(file), {}}
  BY <1>1, <1>3, <1>4, NoneFiled
<1>7. (Sound(file) /\ \A t \in Settlers : Sound(settler[t].read))'
  BY <1>1, <1>5 DEF Sound
<1>8. \A c \in Cycles : Sound(cycle[c].fresh)'
  BY <1>1 DEF SnapInv, Sound
<1> QED
  BY <1>1, <1>6, <1>7, <1>8 DEF SnapInv

LEMMA SnapAlways == LedgerSpec => []SnapInv
<1>1. LedgerInit => SnapInv
  BY SnapInit
<1>2. TypeInv /\ SnapInv /\ [LedgerNext]_ledgerVars => SnapInv'
  <2> SUFFICES ASSUME TypeInv, SnapInv, [LedgerNext]_ledgerVars PROVE SnapInv'
    OBVIOUS
  <2>1. ASSUME NEW m \in Matches, TimePasses(m) \/ Publish(m) PROVE SnapInv'
    BY <2>1 DEF TimePasses, Publish, tables, SnapInv, Sound
  <2>2. CASE UNCHANGED ledgerVars
    BY <2>2 DEF ledgerVars, tables, SnapInv, Sound
  <2> QED
    BY <2>1, <2>2, SnapOfCycleSteps, SnapOfSettlerSteps DEF LedgerNext
<1> QED
  BY <1>1, <1>2, TypeAlways, PTL DEF LedgerSpec

\* The first qualifying snapshot wins, for any number of overlapping cycles and
\* settlements: persistPredictionCycle files a position once, and only when its row
\* is in prediction_ledger.
THEOREM FirstSnapshotAlwaysWins == LedgerSpec => []FirstSnapshotWins
<1>1. TypeInv /\ SnapInv => FirstSnapshotWins
  BY DEF SnapInv, Sound, CyclesOwn, OnceIn, Filed, FirstSnapshotWins, Of
<1> QED
  BY <1>1, TypeAlways, SnapAlways, PTL

-----------------------------------------------------------------------------
(* The rows the file came with *)

HistIn(rows) ==
    /\ Len(FileRows) <= Len(rows)
    /\ \A i \in DOMAIN rows :
          IF i \in DOMAIN FileRows THEN rows[i].shape = "legacy" /\ rows[i].pos = FileRows[i]
          ELSE rows[i].shape = "cycle"

HistInv == HistIn(file) /\ \A s \in Settlers : settler[s].read = <<>> \/ HistIn(settler[s].read)

LEMMA HistInit == LedgerInit => HistInv
<1> SUFFICES ASSUME LedgerInit PROVE HistInv
  OBVIOUS
<1>1. FileRows \in Seq(Positions)
  BY LedgerAssumption
<1>2. DOMAIN file = DOMAIN FileRows /\ Len(file) = Len(FileRows)
  BY <1>1 DEF LedgerInit
<1>3. \A i \in DOMAIN file : file[i].shape = "legacy" /\ file[i].pos = FileRows[i]
  BY <1>2 DEF LedgerInit, Legacy
<1>4. \A s \in Settlers : settler[s].read = <<>>
  BY DEF LedgerInit, IdleSettler
<1> QED
  BY <1>1, <1>2, <1>3, <1>4 DEF HistInv, HistIn

LEMMA HistOfCycleSteps ==
    ASSUME TypeInv, HistInv, NEW c \in Cycles, CycleStep(c)
    PROVE  HistInv'
<1>1. PICK fresh \in Seq(Rows) : NextEntryEffect(c, fresh) /\ AreFresh(fresh)
  BY CycleEffect
<1>2. settler' = settler /\ file' \in {file, file \o fresh}
  BY <1>1, CycleEffect DEF NextEntryEffect
<1>3. file \in Seq(Rows) /\ HistIn(file) /\ FileRows \in Seq(Positions)
  BY LedgerAssumption DEF TypeInv, FileType, HistInv
<1>4. HistIn(file \o fresh)
  <2> DEFINE new == file \o fresh
  <2>1. /\ Len(FileRows) <= Len(new)
        /\ \A i \in DOMAIN new :
              IF i \in DOMAIN file THEN new[i] = file[i]
              ELSE i - Len(file) \in DOMAIN fresh /\ new[i] = fresh[i - Len(file)]
    BY <1>3 DEF HistIn
  <2>2. DOMAIN FileRows \subseteq DOMAIN file
    BY <1>3 DEF HistIn
  <2> HIDE DEF new
  <2>3. HistIn(new)
    BY <1>1, <1>3, <2>1, <2>2 DEF HistIn, AreFresh
  <2> QED
    BY <2>3 DEF new
<1> QED
  BY <1>2, <1>3, <1>4 DEF HistInv

LEMMA HistOfSettlerSteps ==
    ASSUME TypeInv, HistInv, NEW s \in Settlers, SettlerStep(s)
    PROVE  HistInv'
<1> DEFINE rows == settler[s].read
           new == Settled(rows, settler[s].known)
<1>1. /\ \A t \in Settlers \ {s} : settler'[t] = settler[t]
      /\ settler'[s].read \in {rows, file, <<>>}
      /\ file' \in {file, new} /\ (rows = <<>> => file' = file)
  BY SettlerEffect
<1>2. rows \in Seq(Rows)
  BY DEF TypeInv, SettlersType, SettlerStates
<1>3. rows # <<>> => HistIn(new)
  BY <1>2, SettledRows DEF HistInv, HistIn
<1> HIDE DEF new
<1> QED
  BY <1>1, <1>3 DEF HistInv

LEMMA HistAlways == LedgerSpec => []HistInv
<1>1. LedgerInit => HistInv
  BY HistInit
<1>2. TypeInv /\ HistInv /\ [LedgerNext]_ledgerVars => HistInv'
  <2> SUFFICES ASSUME TypeInv, HistInv, [LedgerNext]_ledgerVars PROVE HistInv'
    OBVIOUS
  <2>1. ASSUME NEW m \in Matches, TimePasses(m) \/ Publish(m) PROVE HistInv'
    BY <2>1 DEF TimePasses, Publish, HistInv
  <2>2. CASE UNCHANGED ledgerVars
    BY <2>2 DEF ledgerVars, HistInv
  <2> QED
    BY <2>1, <2>2, HistOfCycleSteps, HistOfSettlerSteps DEF LedgerNext
<1> QED
  BY <1>1, <1>2, TypeAlways, PTL DEF LedgerSpec

\* The rows the ledger file came with stay, in their order and before those of the
\* cycles: however many settlements rewrite the file from readings of any age.
THEOREM HistoryAlwaysKept == LedgerSpec => []HistoryKept
<1>1. HistInv => HistoryKept
  BY DEF HistInv, HistIn, HistoryKept
<1> QED
  BY <1>1, HistAlways, PTL

-----------------------------------------------------------------------------
(* Outcomes and the published scores *)

HasScore(p) == result[p.match] # Nothing

\* Settled rows are rows of the first shape that came out as the score says.
Honest(rows) ==
    \A i \in DOMAIN rows : rows[i].result # "PENDING" =>
        /\ rows[i].shape = "legacy"
        /\ HasScore(rows[i].pos)
        /\ rows[i].result = Outcome(rows[i].pos)

RowsInv ==
    /\ Honest(file)
    /\ \A s \in Settlers : /\ Honest(settler[s].read)
                           /\ \A m \in settler[s].known : result[m] # Nothing

RightPicks(picked) ==
    \A p \in ToSet(FileRows) : picked[p] # "PENDING" =>
        HasScore(p) /\ picked[p] = PickStatus(Outcome(p))

RightResults(rows) ==
    \A i \in DOMAIN rows : \E p \in ToSet(FileRows) :
        /\ HasScore(p) /\ Slot(p) = <<rows[i].match, rows[i].market>>
        /\ rows[i].outcome = Outcome(p)

CopiesInv == RightPicks(oldPicks) /\ RightResults(results)

SettleInv == RowsInv /\ CopiesInv

LEMMA SettleInit == LedgerInit => SettleInv
  BY DEF LedgerInit, SettleInv, RowsInv, CopiesInv, RightPicks, RightResults, Honest, Legacy,
         IdleSettler

\* A published score stands, and so does every outcome that follows from it.
LEMMA ScoresStand ==
    ASSUME TypeInv, [LedgerNext]_ledgerVars
    PROVE  /\ \A m \in Matches : result[m] # Nothing => result'[m] = result[m]
           /\ \A p \in Quotes \cup ToSet(FileRows) :
                 HasScore(p) => HasScore(p)' /\ Outcome(p)' = Outcome(p)
<1>1. \A m \in Matches : result[m] # Nothing => result'[m] = result[m]
  <2>1. ASSUME NEW m \in Matches, TimePasses(m) \/ Publish(m)
        PROVE  \A n \in Matches : result[n] # Nothing => result'[n] = result[n]
    BY <2>1 DEF TimePasses, Publish, TypeInv, WorldType
  <2>2. ASSUME NEW c \in Cycles, CycleStep(c) PROVE result' = result
    BY <2>2, CycleEffect
  <2>3. ASSUME NEW s \in Settlers, SettlerStep(s) PROVE result' = result
    BY <2>3, SettlerEffect
  <2>4. CASE UNCHANGED ledgerVars
    BY <2>4 DEF ledgerVars
  <2> QED
    BY <2>1, <2>2, <2>3, <2>4 DEF LedgerNext
<1>2. \A p \in Quotes \cup ToSet(FileRows) : p.match \in Matches
  BY PositionTypes DEF Positions
<1> QED
  BY <1>1, <1>2 DEF HasScore, Outcome

\* Rows and copies that are right by the scores so far are right by those to come.
LEMMA RowsStand ==
    ASSUME TypeInv, TypeInv', [LedgerNext]_ledgerVars, Honest(file'),
           \A s \in Settlers : /\ Honest(settler'[s].read)
                               /\ \A m \in settler'[s].known : result[m] # Nothing
    PROVE  RowsInv'
<1>1. ASSUME NEW rows \in Seq(Rows), Honest(rows)
      PROVE  \A i \in DOMAIN rows : rows[i].result # "PENDING" =>
                /\ rows[i].shape = "legacy"
                /\ HasScore(rows[i].pos)'
                /\ rows[i].result = Outcome(rows[i].pos)'
  <2>1. \A i \in DOMAIN rows : rows[i] \in Rows
    OBVIOUS
  <2>2. \A i \in DOMAIN rows : rows[i].pos \in Quotes \cup ToSet(FileRows)
    BY <2>1 DEF Rows
  <2> QED
    BY <1>1, <2>2, ScoresStand DEF Honest
<1>2. file' \in Seq(Rows) /\ \A s \in Settlers : settler'[s].read \in Seq(Rows)
  BY DEF TypeInv, FileType, SettlersType, SettlerStates
<1>3. Honest(file)'
  BY <1>1, <1>2 DEF Honest
<1>4. \A s \in Settlers : Honest(settler[s].read)'
  BY <1>1, <1>2 DEF Honest
<1>5. \A s \in Settlers : \A m \in settler'[s].known : m \in Matches
  BY DEF TypeInv, SettlersType, SettlerStates
<1>6. \A s \in Settlers : \A m \in settler'[s].known : result'[m] # Nothing
  BY <1>5, ScoresStand
<1> QED
  BY <1>3, <1>4, <1>6 DEF RowsInv

LEMMA CopiesStand ==
    ASSUME TypeInv, [LedgerNext]_ledgerVars, RightPicks(oldPicks'), RightResults(results')
    PROVE  CopiesInv'
  BY ScoresStand DEF RightPicks, RightResults, CopiesInv

LEMMA HonestSettled ==
    ASSUME TypeInv, NEW rows \in Seq(Rows), Honest(rows), NEW known \in SUBSET Matches,
           \A m \in known : result[m] # Nothing
    PROVE  Honest(Settled(rows, known))
<1>1. \A i \in DOMAIN rows : rows[i] \in Rows
  OBVIOUS
<1>2. \A i \in DOMAIN rows :
         /\ Settled(rows, known)[i] = SettleRow(rows[i], known)
         /\ Settled(rows, known)[i].shape = rows[i].shape
         /\ Settled(rows, known)[i].pos = rows[i].pos
  BY SettledRows
<1>3. DOMAIN Settled(rows, known) = DOMAIN rows
  BY SettledRows
<1>4. \A i \in DOMAIN rows :
         IF Resolved(rows[i], known)
         THEN /\ rows[i].shape = "legacy" /\ HasScore(rows[i].pos)
              /\ SettleRow(rows[i], known).result = Outcome(rows[i].pos)
         ELSE SettleRow(rows[i], known).result = rows[i].result
  BY <1>1 DEF Resolved, SettleRow, HasScore, Rows
<1> QED
  BY <1>2, <1>3, <1>4 DEF Honest

LEMMA SettleOfCycleSteps ==
    ASSUME TypeInv, TypeInv', SettleInv, NEW c \in Cycles, CycleStep(c)
    PROVE  SettleInv'
<1>1. [LedgerNext]_ledgerVars
  BY DEF LedgerNext
<1>2. PICK fresh \in Seq(Rows) : NextEntryEffect(c, fresh) /\ AreFresh(fresh)
  BY CycleEffect
<1>3. UNCHANGED <<oldPicks, results, settler>> /\ file' \in {file, file \o fresh}
  BY <1>2, CycleEffect DEF NextEntryEffect
<1>4. file \in Seq(Rows) /\ Honest(file)
  BY DEF TypeInv, FileType, SettleInv, RowsInv
<1>5. Honest(file \o fresh)
  <2> DEFINE new == file \o fresh
  <2>1. \A i \in DOMAIN new :
           IF i \in DOMAIN file THEN new[i] = file[i]
           ELSE i - Len(file) \in DOMAIN fresh /\ new[i] = fresh[i - Len(file)]
    BY <1>4
  <2> HIDE DEF new
  <2>2. Honest(new)
    BY <1>2, <1>4, <2>1 DEF Honest, AreFresh
  <2> QED
    BY <2>2 DEF new
<1>6. RowsInv'
  BY <1>1, <1>3, <1>4, <1>5, RowsStand DEF SettleInv, RowsInv
<1>7. CopiesInv'
  BY <1>1, <1>3, CopiesStand DEF SettleInv, CopiesInv
<1> QED
  BY <1>6, <1>7 DEF SettleInv

LEMMA SettleOfSettlerSteps ==
    ASSUME TypeInv, TypeInv', SettleInv, NEW s \in Settlers, SettlerStep(s)
    PROVE  SettleInv'
<1>1. [LedgerNext]_ledgerVars
  BY DEF LedgerNext
<1> DEFINE rows == settler[s].read
           known == settler[s].known
           new == Settled(rows, known)
<1>2. /\ \A t \in Settlers \ {s} : settler'[t] = settler[t]
      /\ settler'[s].read \in {rows, file, <<>>}
      /\ \A m \in settler'[s].known : m \in known \/ result[m] # Nothing
      /\ file' \in {file, new}
  BY SettlerEffect
<1>3. /\ rows \in Seq(Rows) /\ known \in SUBSET Matches /\ \A m \in known : result[m] # Nothing
      /\ Honest(file) /\ Honest(rows) /\ Honest(<<>>)
  BY DEF TypeInv, SettlersType, SettlerStates, SettleInv, RowsInv, Honest
<1>4. Honest(new)
  BY <1>3, HonestSettled
<1> HIDE DEF new
<1>5. RowsInv'
  BY <1>1, <1>2, <1>3, <1>4, RowsStand DEF SettleInv, RowsInv
<1>6. RightPicks(oldPicks) /\ RightResults(results)
  BY DEF SettleInv, CopiesInv
<1>7. RightPicks(oldPicks') /\ RightResults(results')
  <2>1. CASE UNCHANGED <<oldPicks, results>>
    BY <1>6, <2>1
  <2>2. ASSUME NEW done \in BOOLEAN, UpdatePick(s, done)
        PROVE  RightPicks(oldPicks') /\ results' = results
    <3> DEFINE p == Position(s)
    <3>1. p \in ToSet(FileRows) /\ HasScore(p)
      BY <1>3, <2>2, LineAtWork DEF UpdatePick, HasScore
    <3>2. oldPicks \in [ToSet(FileRows) -> Statuses]
      BY DEF TypeInv, TablesType
    <3>3. oldPicks' = IF done THEN [oldPicks EXCEPT ![p] = PickStatus(Outcome(p))] ELSE oldPicks
      BY <2>2 DEF UpdatePick
    <3> HIDE DEF p
    <3>4. RightPicks(oldPicks')
      BY <1>6, <3>1, <3>2, <3>3 DEF RightPicks
    <3> QED
      BY <2>2, <3>4 DEF UpdatePick
  <2>3. ASSUME NEW done \in BOOLEAN, InsertResult(s, done)
        PROVE  RightResults(results') /\ oldPicks' = oldPicks
    <3> DEFINE p == Position(s)
               side == IF p.market = "AH" THEN "home" ELSE p.side
               r == [match |-> p.match, market |-> p.market, side |-> side, line |-> p.line,
                     outcome |-> Outcome(p)]
    <3>1. p \in ToSet(FileRows) /\ HasScore(p)
      BY <1>3, <2>3, LineAtWork DEF InsertResult, HasScore
    <3>2. r.outcome = Outcome(p) /\ Slot(p) = <<r.match, r.market>>
      BY DEF Slot
    <3>3. results' = IF done THEN Append(results, r) ELSE results
      BY <2>3 DEF InsertResult
    <3>4. results \in Seq(ResultRows)
      BY DEF TypeInv, ResultsType
    <3> HIDE DEF p, r
    <3>5. \A i \in DOMAIN results' : (i \in DOMAIN results /\ results'[i] = results[i]) \/ results'[i] = r
      BY <3>3, <3>4
    <3>6. RightResults(results')
      BY <1>6, <3>1, <3>2, <3>5 DEF RightResults
    <3> QED
      BY <2>3, <3>6 DEF InsertResult
  <2> QED
    BY <1>6, <2>1, <2>2, <2>3
       DEF SettlerStep, ReadFile, ReadScores, Rewrite, ProbeResult, CrashSettler, tables
<1>8. CopiesInv'
  BY <1>1, <1>7, CopiesStand
<1> QED
  BY <1>5, <1>8 DEF SettleInv

LEMMA SettleAlways == LedgerSpec => []SettleInv
<1>1. LedgerInit => SettleInv
  BY SettleInit
<1>2. TypeInv /\ TypeInv' /\ SettleInv /\ [LedgerNext]_ledgerVars => SettleInv'
  <2> SUFFICES ASSUME TypeInv, TypeInv', SettleInv, [LedgerNext]_ledgerVars PROVE SettleInv'
    OBVIOUS
  <2>1. CASE UNCHANGED <<file, settler, oldPicks, results>>
    <3>1. RowsInv'
      BY <2>1, RowsStand DEF SettleInv, RowsInv
    <3>2. CopiesInv'
      BY <2>1, CopiesStand DEF SettleInv, CopiesInv
    <3> QED
      BY <3>1, <3>2 DEF SettleInv
  <2>2. ASSUME NEW m \in Matches, TimePasses(m) \/ Publish(m)
        PROVE  UNCHANGED <<file, settler, oldPicks, results>>
    BY <2>2 DEF TimePasses, Publish, tables
  <2>3. UNCHANGED ledgerVars => UNCHANGED <<file, settler, oldPicks, results>>
    BY DEF ledgerVars, tables
  <2> QED
    BY <2>1, <2>2, <2>3, SettleOfCycleSteps, SettleOfSettlerSteps DEF LedgerNext
<1> QED
  BY <1>1, <1>2, TypeAlways, PTL DEF LedgerSpec

\* A handicap or total bet pays what its two half stakes pay.
LEMMA BetPaysSplitStake ==
    ASSUME TypeInv, NEW p \in Quotes \cup ToSet(FileRows), HasScore(p),
           p.market \in {"AH", "OU"}, p.side # "away" \/ result[p.match].spelled,
           NEW odds \in Int
    PROVE  Profit(Outcome(p), odds) = SplitStake(MarginOf(p), p.line, odds)
<1> DEFINE r == result[p.match]
<1>1. p \in Positions /\ p.side \in Sides(p.market)
  BY PositionTypes, LedgerAssumption
<1>2. r \in Published
  BY <1>1 DEF TypeInv, WorldType, HasScore, Positions
<1>3. r.home \in Nat /\ r.away \in Nat /\ p.line \in Int
  BY <1>1, <1>2, LedgerAssumption DEF Positions
<1> HIDE DEF r
<1>4. ~ (r.home < 0 \/ r.away < 0)
  BY <1>3
<1>5. CASE p.market = "AH"
  <2>1. p.side \in {"home", "away"}
    BY <1>1, <1>5 DEF Sides
  <2>2. (IF p.side = "away" /\ r.spelled THEN "away" ELSE "home") = p.side
    BY <2>1 DEF r
  <2>3. Outcome(p) = SettleHandicap(p.side, p.line, r.home, r.away)
    BY <1>4, <1>5, <2>2 DEF Outcome, SettlePosition, r
  <2>4. MarginOf(p) = HandicapMargin(p.side, p.line, r.home, r.away)
    BY <1>5 DEF MarginOf, r
  <2> QED
    BY <1>3, <2>1, <2>3, <2>4, HandicapIsSplitStake
<1>6. CASE p.market = "OU"
  <2>1. Outcome(p) = SettleOverUnder(p.side = "over", p.line, r.home + r.away)
    BY <1>4, <1>6 DEF Outcome, SettlePosition, r
  <2>2. MarginOf(p) = TotalMargin(p.side = "over", p.line, r.home + r.away)
    BY <1>6 DEF MarginOf, r
  <2>3. r.home + r.away \in Nat
    BY <1>3
  <2>4. CASE p.side = "over"
    <3>1. Profit(SettleOverUnder(TRUE, p.line, r.home + r.away), odds)
            = SplitStake(TotalMargin(TRUE, p.line, r.home + r.away), p.line, odds)
      BY <1>3, <2>3, OverUnderIsSplitStake
    <3> QED
      BY <2>1, <2>2, <2>4, <3>1 DEF SettleOverUnder, SettleOverUnderSingle, TotalMargin
  <2>5. CASE p.side # "over"
    <3>1. Profit(SettleOverUnder(FALSE, p.line, r.home + r.away), odds)
            = SplitStake(TotalMargin(FALSE, p.line, r.home + r.away), p.line, odds)
      BY <1>3, <2>3, OverUnderIsSplitStake
    <3> QED
      BY <2>1, <2>2, <2>5, <3>1 DEF SettleOverUnder, SettleOverUnderSingle, TotalMargin
  <2> QED
    BY <2>4, <2>5
<1> QED
  BY <1>5, <1>6

\* Whatever runs overlap, fail or die, a settled row of the ledger file pays exactly
\* what half a stake on each neighbouring line pays at the published score.
THEOREM SettledRowsPaySplitStake == LedgerSpec => []SettledAsSplitStake
<1>1. TypeInv /\ SettleInv => SettledAsSplitStake
  <2> SUFFICES ASSUME TypeInv, SettleInv, NEW i \in DOMAIN file, file[i].result # "PENDING"
               PROVE  /\ result[file[i].pos.match] # Nothing
                      /\ /\ file[i].pos.market \in {"AH", "OU"}
                         /\ file[i].pos.side # "away" \/ result[file[i].pos.match].spelled
                         => \A odds \in {1500, 1961} :
                               Profit(file[i].result, odds)
                                 = SplitStake(MarginOf(file[i].pos), file[i].pos.line, odds)
    BY DEF SettledAsSplitStake
  <2> DEFINE p == file[i].pos
  <2>1. HasScore(p) /\ file[i].result = Outcome(p)
    BY DEF SettleInv, RowsInv, Honest
  <2>2. p \in Quotes \cup ToSet(FileRows)
    <3>1. file[i] \in Rows
      BY DEF TypeInv, FileType
    <3> QED
      BY <3>1 DEF Rows
  <2> HIDE DEF p
  <2>3. /\ p.market \in {"AH", "OU"} /\ (p.side # "away" \/ result[p.match].spelled)
        => \A odds \in {1500, 1961} :
              Profit(Outcome(p), odds) = SplitStake(MarginOf(p), p.line, odds)
    BY <2>1, <2>2, BetPaysSplitStake
  <2> QED
    BY <2>1, <2>3 DEF HasScore, p
<1> QED
  BY <1>1, TypeAlways, SettleAlways, PTL

\* The statuses of daily_picks and the rows of settlement_results tell the story of
\* the file's bets at the published scores.
THEOREM CopiesAlwaysAgree == LedgerSpec => []CopiesAgree
<1>1. TypeInv /\ SettleInv => CopiesAgree
  <2> SUFFICES ASSUME TypeInv, SettleInv PROVE CopiesAgree
    OBVIOUS
  <2>1. DOMAIN oldPicks = ToSet(FileRows)
    BY DEF TypeInv, TablesType
  <2>2. \A p \in ToSet(FileRows) : oldPicks[p] # "PENDING" => oldPicks[p] = PickStatus(Outcome(p))
    BY DEF SettleInv, CopiesInv, RightPicks
  <2>3. \A o \in Outcomes : /\ PickStatus(o) = "WON"  => Profit(o, 1500) > 0
                            /\ PickStatus(o) = "LOST" => Profit(o, 1500) < 0
                            /\ PickStatus(o) = "PUSH" => Profit(o, 1500) = 0
    BY DEF Outcomes, PickStatus, Profit
  <2>4. \A i \in DOMAIN results : \E p \in ToSet(FileRows) :
           Slot(p) = Slot(results[i]) /\ results[i].outcome = Outcome(p)
    BY DEF SettleInv, CopiesInv, RightResults, Slot
  <2> QED
    BY <2>1, <2>2, <2>3, <2>4, OutcomeTypes DEF CopiesAgree
<1> QED
  BY <1>1, TypeAlways, SettleAlways, PTL

-----------------------------------------------------------------------------
(* Settlements that do not overlap *)

OneSettler == \A s, t \in Settlers : s = t

\* A reading that is yet to be written back has every settled row of the file.
ReadingInv ==
    \A s \in Settlers : settler[s].pc \in {"scores", "rewrite"} =>
        \A i \in DOMAIN file : file[i].result # "PENDING" =>
            i \in DOMAIN settler[s].read /\ settler[s].read[i].result # "PENDING"

SettledStay == \A i \in DOMAIN file : file[i].result # "PENDING" => file'[i].result # "PENDING"

LEMMA CycleKeepsSettled ==
    ASSUME TypeInv, NEW c \in Cycles, CycleStep(c)
    PROVE  /\ SettledStay
           /\ \A i \in DOMAIN file' : file'[i].result # "PENDING" =>
                 i \in DOMAIN file /\ file[i].result # "PENDING"
<1>1. PICK fresh \in Seq(Rows) : NextEntryEffect(c, fresh) /\ AreFresh(fresh)
  BY CycleEffect
<1>2. file' \in {file, file \o fresh} /\ file \in Seq(Rows)
  BY <1>1 DEF NextEntryEffect, TypeInv, FileType
<1> DEFINE new == file \o fresh
<1>3. /\ \A i \in DOMAIN new : IF i \in DOMAIN file THEN new[i] = file[i]
                               ELSE i - Len(file) \in DOMAIN fresh /\ new[i] = fresh[i - Len(file)]
      /\ DOMAIN file \subseteq DOMAIN new
  BY <1>2
<1> HIDE DEF new
<1>4. file' \in {file, new}
  BY <1>2 DEF new
<1> QED
  BY <1>1, <1>3, <1>4 DEF SettledStay, AreFresh

LEMMA RewriteKeepsSettled ==
    ASSUME TypeInv, ReadingInv, NEW s \in Settlers, Rewrite(s)
    PROVE  SettledStay
<1> DEFINE rows == settler[s].read
           known == settler[s].known
           new == Settled(rows, known)
<1>1. rows \in Seq(Rows) /\ file' \in {file, new}
  BY DEF Rewrite, Settled, TypeInv, SettlersType, SettlerStates
<1>2. \A i \in DOMAIN file : file[i].result # "PENDING" =>
         i \in DOMAIN rows /\ rows[i].result # "PENDING"
  BY DEF ReadingInv, Rewrite
<1>3. \A i \in DOMAIN rows : rows[i] \in Rows /\ new[i] = SettleRow(rows[i], known)
  BY <1>1, SettledRows
<1> HIDE DEF new
<1>4. \A i \in DOMAIN rows : rows[i].result # "PENDING" => new[i].result # "PENDING"
  <2>1. \A row \in Rows : row.result # "PENDING" => SettleRow(row, known).result # "PENDING"
    BY OutcomeTypes DEF SettleRow, Rows, Outcomes
  <2> QED
    BY <1>3, <2>1
<1> QED
  BY <1>1, <1>2, <1>4 DEF SettledStay

LEMMA ReadingOfSettlerSteps ==
    ASSUME OneSettler, TypeInv, ReadingInv, NEW s \in Settlers, SettlerStep(s)
    PROVE  ReadingInv' /\ SettledStay
<1>0. settler \in [Settlers -> SettlerStates] /\ \A t \in Settlers : t = s
  BY DEF OneSettler, TypeInv, SettlersType
<1>1. CASE ReadFile(s)
  <2>1. settler'[s].read = file /\ file' = file
    BY <1>0, <1>1 DEF ReadFile, SettlerStates
  <2> QED
    BY <1>0, <2>1 DEF ReadingInv, SettledStay
<1>2. ASSUME NEW heard \in BOOLEAN, ReadScores(s, heard)
      PROVE  ReadingInv' /\ SettledStay
  <2> DEFINE known == IF heard THEN {m \in Matches : result[m] # Nothing} ELSE {}
  <2>1. settler' = [settler EXCEPT ![s] = [@ EXCEPT !.pc = "rewrite", !.known = known]]
    BY <1>2 DEF ReadScores
  <2> HIDE DEF known
  <2>2. settler'[s].read = settler[s].read /\ settler[s].pc = "scores" /\ file' = file
    BY <1>0, <1>2, <2>1 DEF ReadScores, SettlerStates
  <2> QED
    BY <1>0, <2>2 DEF ReadingInv, SettledStay
<1>3. CASE Rewrite(s)
  <2>1. settler'[s].pc \in {"idle", "pick"}
    BY <1>0, <1>3 DEF Rewrite, IdleSettler, SettlerStates
  <2> QED
    BY <1>0, <1>3, <2>1, RewriteKeepsSettled DEF ReadingInv
<1>4. ASSUME file' = file, settler'[s].pc \notin {"scores", "rewrite"}
      PROVE  ReadingInv' /\ SettledStay
  BY <1>0, <1>4 DEF ReadingInv, SettledStay
<1>5. ASSUME NextSnapshot(s) PROVE settler'[s].pc \in {"idle", "pick"}
  BY <1>0, <1>5 DEF NextSnapshot, IdleSettler, SettlerStates
<1>6. ASSUME NEW done \in BOOLEAN, UpdatePick(s, done)
      PROVE  file' = file /\ settler'[s].pc = "probe"
  BY <1>0, <1>6 DEF UpdatePick, SettlerStates
<1>7. ASSUME NEW heard \in BOOLEAN, ProbeResult(s, heard)
      PROVE  file' = file /\ settler'[s].pc \in {"idle", "pick", "insert"}
  BY <1>0, <1>5, <1>7 DEF ProbeResult, SettlerStates
<1>8. ASSUME NEW done \in BOOLEAN, InsertResult(s, done)
      PROVE  file' = file /\ settler'[s].pc \in {"idle", "pick"}
  BY <1>5, <1>8 DEF InsertResult
<1>9. CASE CrashSettler(s)
  BY <1>0, <1>4, <1>9 DEF CrashSettler, IdleSettler
<1> QED
  BY <1>1, <1>2, <1>3, <1>4, <1>6, <1>7, <1>8, <1>9 DEF SettlerStep

LEMMA ReadingStep ==
    ASSUME OneSettler, TypeInv, ReadingInv, [LedgerNext]_ledgerVars
    PROVE  ReadingInv' /\ (SettledStay \/ UNCHANGED file)
<1>1. ASSUME NEW m \in Matches, TimePasses(m) \/ Publish(m)
      PROVE  UNCHANGED <<file, settler>>
  BY <1>1 DEF TimePasses, Publish
<1>2. UNCHANGED ledgerVars => UNCHANGED <<file, settler>>
  BY DEF ledgerVars
<1>3. CASE UNCHANGED <<file, settler>>
  BY <1>3 DEF ReadingInv
<1>4. ASSUME NEW c \in Cycles, CycleStep(c)
      PROVE  ReadingInv' /\ SettledStay
  <2>1. settler' = settler
    BY <1>4, CycleEffect
  <2> QED
    BY <1>4, <2>1, CycleKeepsSettled DEF ReadingInv
<1> QED
  BY <1>1, <1>2, <1>3, <1>4, ReadingOfSettlerSteps DEF LedgerNext

\* As long as settlements do not overlap, no failed query, no death and no cycle
\* takes a settled row back to pending.
THEOREM SettledRowsStand ==
    ASSUME OneSettler
    PROVE  LedgerSpec => SettlementStands
<1>1. LedgerInit => ReadingInv
  BY DEF LedgerInit, ReadingInv, IdleSettler
<1>2. TypeInv /\ ReadingInv /\ [LedgerNext]_ledgerVars => ReadingInv'
  BY ReadingStep
<1>3. TypeInv /\ ReadingInv /\ [LedgerNext]_ledgerVars => [SettledStay]_file
  BY ReadingStep
<1> QED
  BY <1>1, <1>2, <1>3, TypeAlways, PTL DEF LedgerSpec, SettlementStands, SettledStay
=============================================================================
