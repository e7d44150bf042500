------------------------ MODULE DurableStorageProofs ------------------------
(***************************************************************************)
(* Proofs about DurableStorage.  DurableInv is inductive: rows are stored  *)
(* under their own key, a run that heard from the ledger has all of its    *)
(* positions in it, and a run that reported has its copy in the file.      *)
(***************************************************************************)
EXTENDS DurableStorage, TLAPS

RowsKeyed(rows) == \A k \in Keys : rows[k] # NoRecord => rows[k].key = k

Has(rows, ps) == \A p \in ps : rows[p.key] # NoRecord

\* What holds of a run, its reports included.
RunOK(r) ==
    /\ run[r].durable \/ run[r].healthy => run[r].pc = "reported"
    /\ run[r].boot <= boot[run[r].inst]
    /\ run[r].pc = "stored" \/ run[r].durable => Has(ledger, run[r].preds)
    /\ run[r].healthy /\ run[r].asked \in {"refused", "database"} => run[r].durable
    /\ run[r].pc = "reported" /\ boot[run[r].inst] = run[r].boot
          => Has(file[run[r].inst], run[r].preds)

DurableInv ==
    /\ DurableTypeOK
    /\ RowsKeyed(ledger)
    /\ \A i \in Instances : RowsKeyed(file[i])
    /\ PicksAreRecorded
    /\ \A r \in Runs : RunOK(r)

-----------------------------------------------------------------------------
(* The merge that keeps first records *)

LEMMA WithFirstMerges ==
    ASSUME NEW rows \in [Keys -> Records \cup {NoRecord}], NEW ps \in SUBSET Records,
           RowsKeyed(rows)
    PROVE  /\ WithFirst(rows, ps) \in [Keys -> Records \cup {NoRecord}]
           /\ RowsKeyed(WithFirst(rows, ps))
           /\ Has(WithFirst(rows, ps), ps)
           /\ \A k \in Keys : rows[k] # NoRecord => WithFirst(rows, ps)[k] = rows[k]
<1>1. ASSUME NEW k \in Keys, \E p \in ps : p.key = k
      PROVE  LET c == CHOOSE p \in ps : p.key = k
             IN  c \in Records /\ c # NoRecord /\ c.key = k
  <2>1. LET c == CHOOSE p \in ps : p.key = k IN c \in ps /\ c.key = k
    BY <1>1
  <2> QED BY <2>1, NoRecordAssumption
<1>2. \A p \in ps : p.key \in Keys
  BY DEF Records
<1>3. WithFirst(rows, ps) \in [Keys -> Records \cup {NoRecord}]
  BY <1>1 DEF WithFirst
<1>4. \A k \in Keys : rows[k] # NoRecord => WithFirst(rows, ps)[k] = rows[k]
  BY DEF WithFirst
<1>5. RowsKeyed(WithFirst(rows, ps))
  BY <1>1 DEF WithFirst, RowsKeyed
<1>6. Has(WithFirst(rows, ps), ps)
  BY <1>1, <1>2 DEF WithFirst, Has
<1> QED BY <1>3, <1>4, <1>5, <1>6

\* What stays in a table stays found.
LEMMA HasGrows ==
    ASSUME NEW rows, NEW grown, NEW ps \in SUBSET Records, Has(rows, ps),
           \A k \in Keys : rows[k] # NoRecord => grown[k] = rows[k]
    PROVE  Has(grown, ps)
BY DEF Has, Records

LEMMA SlotInSlots == ASSUME NEW p \in Records PROVE p.key \in Keys /\ SlotOf(p.key) \in Slots
BY DEF Records, Slots
-----------------------------------------------------------------------------
(* The invariant *)

LEMMA DurableInitially == DurableInit => DurableInv
<1> SUFFICES ASSUME DurableInit PROVE DurableInv
  OBVIOUS
<1> USE StorageAssumption DEF DurableInit
<1>1. \A r \in Runs : \E i \in Instances : run[r] = IdleRun(i)
  OBVIOUS
<1>2. \A i \in Instances : IdleRun(i) \in RunStates
  BY DEF IdleRun, RunStates, Asked
<1>3. DurableTypeOK
  BY <1>1, <1>2 DEF DurableTypeOK, IdleRun, PublicPicks
<1>4. \A r \in Runs : RunOK(r)
  BY <1>1 DEF RunOK, IdleRun, Has
<1> QED
  BY <1>3, <1>4 DEF DurableInv, RowsKeyed, PicksAreRecorded

\* One run moves on and nothing else changes: what is left to show is about it.
LEMMA RunMoves ==
    ASSUME DurableInv, NEW r \in Runs, NEW state \in RunStates,
           run' = [run EXCEPT ![r] = state],
           UNCHANGED <<ledger, picks, file, boot>>,
           state.todo \subseteq PublicPicks(state.preds),
           state.todo # {} => state.pc \in {"stored", "dead"},
           RunOK(r)'
    PROVE  DurableInv'
<1> USE DEF DurableInv, DurableTypeOK
<1>1. run'[r] = state /\ run' \in [Runs -> RunStates]
  OBVIOUS
<1>2. \A q \in Runs \ {r} : run'[q] = run[q]
  OBVIOUS
<1>3. DurableTypeOK'
  BY <1>1, <1>2 DEF PublicPicks
<1>4. \A q \in Runs : RunOK(q)'
  BY <1>2 DEF RunOK, Has
<1> QED
  BY <1>3, <1>4 DEF RowsKeyed, PicksAreRecorded

LEMMA EvaluateKeeps ==
    ASSUME DurableInv, NEW r \in Runs, Evaluate(r)
    PROVE  DurableInv'
<1> USE DEF DurableInv, DurableTypeOK
<1>1. PICK ps \in Evaluations(r), asked \in Asked :
         /\ asked = "dry" <=> ps = {}
         /\ run' = [run EXCEPT ![r] =
              [@ EXCEPT !.pc = IF asked = "dry" THEN "reported"
                               ELSE IF asked = "database" THEN "upsert" ELSE "fallback",
                        !.boot = boot[run[r].inst], !.asked = asked, !.preds = ps]]
  BY DEF Evaluate
<1>2. ps \in SUBSET Records
  BY DEF Evaluations
<1>3. UNCHANGED <<ledger, picks, file, boot>> /\ run[r].pc = "idle" /\ run[r].todo = {}
  BY DEF Evaluate
<1> DEFINE state == run'[r]
<1>4. /\ state.pc = IF asked = "dry" THEN "reported"
                    ELSE IF asked = "database" THEN "upsert" ELSE "fallback"
      /\ state.boot = boot[state.inst] /\ state.preds = ps /\ state.todo = {}
      /\ state.durable = run[r].durable /\ state.healthy = run[r].healthy
      /\ state.inst = run[r].inst
      /\ run' = [run EXCEPT ![r] = state]
  BY <1>1, <1>3 DEF RunStates
<1>5. state \in RunStates
  <2> DEFINE pc == IF asked = "dry" THEN "reported"
                   ELSE IF asked = "database" THEN "upsert" ELSE "fallback"
             b == boot[run[r].inst]
  <2>1. run[r] \in RunStates /\ b \in 0 .. MaxBoots
    BY DEF RunStates
  <2>2. pc \in {"reported", "upsert", "fallback"}
    OBVIOUS
  <2>3. state = [run[r] EXCEPT !.pc = pc, !.boot = b, !.asked = asked, !.preds = ps]
    BY <1>1
  <2> HIDE DEF state, pc, b, DurableInv, DurableTypeOK
  <2> QED BY <1>2, <2>1, <2>2, <2>3 DEF RunStates
<1>6. boot[run[r].inst] \in Nat
  BY StorageAssumption DEF RunStates
<1>7. RunOK(r)'
  <2>1. ~state.durable /\ ~state.healthy
    BY <1>3, <1>4 DEF RunOK, RunStates
  <2> QED BY <1>1, <1>3, <1>4, <1>6, <2>1 DEF RunOK, Has
<1> HIDE DEF state
<1> QED
  BY RunMoves, <1>3, <1>4, <1>5, <1>7 DEF PublicPicks

LEMMA DieKeeps ==
    ASSUME DurableInv, NEW r \in Runs, Die(r)
    PROVE  DurableInv'
<1> USE DEF DurableInv, DurableTypeOK
<1> DEFINE state == [run[r] EXCEPT !.pc = "dead"]
<1>1. state \in RunStates /\ run' = [run EXCEPT ![r] = state]
  BY DEF Die, RunStates
<1>2. state.todo \subseteq PublicPicks(state.preds)
  BY DEF RunStates, PublicPicks
<1>3. RunOK(r)'
  BY DEF Die, RunOK, Running, Has, RunStates
<1>4. state.todo # {} => state.pc \in {"stored", "dead"}
  BY DEF RunStates
<1> HIDE DEF state
<1> QED
  BY RunMoves, <1>1, <1>2, <1>3, <1>4 DEF Die

LEMMA UpsertKeeps ==
    ASSUME DurableInv, NEW r \in Runs, NEW done \in BOOLEAN, NEW heard \in BOOLEAN,
           Upsert(r, done, heard)
    PROVE  DurableInv'
<1> USE DEF DurableInv, DurableTypeOK
<1> DEFINE ps == run[r].preds
<1>1. ps \in SUBSET Records /\ ~run[r].durable /\ ~run[r].healthy
  BY DEF RunStates, RunOK, Upsert
<1>2. /\ ledger' \in [Keys -> Records \cup {NoRecord}]
      /\ RowsKeyed(ledger')
      /\ done => Has(ledger', ps)
      /\ \A k \in Keys : ledger[k] # NoRecord => ledger'[k] = ledger[k]
  <2>1. CASE done
    <3>1. ledger' = WithFirst(ledger, ps)
      BY <2>1 DEF Upsert
    <3> HIDE DEF ps
    <3> QED BY <1>1, <3>1, WithFirstMerges
  <2>2. CASE ~done
    BY <2>2 DEF Upsert, RowsKeyed
  <2> QED BY <2>1, <2>2
<1>3. /\ run' \in [Runs -> RunStates]
      /\ \A q \in Runs \ {r} : run'[q] = run[q]
      /\ run'[r].pc \in {"stored", "fallback"}
      /\ run'[r].pc = "stored" => done
      /\ run'[r].todo = IF run'[r].pc = "stored" THEN PublicPicks(ps) ELSE run[r].todo
      /\ run'[r].preds = ps /\ run'[r].inst = run[r].inst /\ run'[r].boot = run[r].boot
      /\ ~run'[r].durable /\ ~run'[r].healthy
      /\ UNCHANGED <<picks, file, boot>>
  <2>1. CASE done /\ heard
    <3>1. run' = [run EXCEPT ![r] = [run[r] EXCEPT !.pc = "stored", !.todo = PublicPicks(ps)]]
      BY <2>1 DEF Upsert
    <3>2. PublicPicks(ps) \in SUBSET Records
      BY <1>1 DEF PublicPicks
    <3>3. UNCHANGED <<picks, file, boot>>
      BY DEF Upsert
    <3>4. /\ run'[r] = [run[r] EXCEPT !.pc = "stored", !.todo = PublicPicks(ps)]
          /\ \A q \in Runs \ {r} : run'[q] = run[q]
      BY <3>1
    <3>5. run'[r] \in RunStates
      <4> DEFINE public == PublicPicks(ps)
      <4>1. run[r] \in RunStates /\ public \in SUBSET Records
        BY <3>2
      <4> HIDE DEF public
      <4>2. [run[r] EXCEPT !.pc = "stored", !.todo = public] \in RunStates
        BY <4>1 DEF RunStates
      <4> QED BY <3>4, <4>2 DEF public
    <3>6. run' \in [Runs -> RunStates]
      BY <3>1, <3>4, <3>5
    <3> QED BY <1>1, <2>1, <3>3, <3>4, <3>6 DEF RunStates
  <2>2. CASE ~(done /\ heard)
    <3>1. run' = [run EXCEPT ![r] = [run[r] EXCEPT !.pc = "fallback"]]
      BY <2>2 DEF Upsert
    <3>2. UNCHANGED <<picks, file, boot>>
      BY DEF Upsert
    <3> QED BY <1>1, <3>1, <3>2 DEF RunStates
  <2> QED BY <2>1, <2>2
<1>4. run[r].todo = {}
  BY DEF Upsert
<1>5. DurableTypeOK'
  BY <1>2, <1>3, <1>4 DEF PublicPicks
<1>6. PicksAreRecorded'
  BY <1>2, <1>3, SlotInSlots DEF PicksAreRecorded
<1>7. ASSUME NEW q \in Runs PROVE RunOK(q)'
  <2>1. CASE q = r
    BY <1>2, <1>3, <2>1 DEF RunOK
  <2>2. CASE q # r
    <3>1. Has(ledger, run[q].preds) => Has(ledger, run[q].preds)'
      BY <1>2, <1>3, <2>2, HasGrows DEF RunStates, Has, Records
    <3> QED BY <1>3, <2>2, <3>1 DEF RunOK, Has
  <2> QED BY <2>1, <2>2
<1> QED
  BY <1>2, <1>3, <1>5, <1>6, <1>7 DEF RowsKeyed

LEMMA UpsertPickKeeps ==
    ASSUME DurableInv, NEW r \in Runs, NEW done \in BOOLEAN, UpsertPick(r, done)
    PROVE  DurableInv'
<1> USE DEF DurableInv, DurableTypeOK
<1>1. PICK p \in run[r].todo :
         /\ picks' = IF done THEN [picks EXCEPT ![SlotOf(p.key)] = p] ELSE picks
         /\ run' = [run EXCEPT ![r].todo = @ \ {p}]
  BY DEF UpsertPick
<1>2. run[r].pc = "stored" /\ UNCHANGED <<ledger, file, boot>>
  BY DEF UpsertPick
<1>3. p \in Records /\ p \in run[r].preds /\ p.public /\ p # NoRecord
  BY NoRecordAssumption DEF RunStates, PublicPicks
<1>4. p.key.market # "BTTS" /\ p.key \in Keys /\ SlotOf(p.key) \in Slots
  BY <1>3, SlotInSlots DEF Records
<1>5. ledger[p.key] # NoRecord
  BY <1>2, <1>3 DEF RunOK, Has
<1>6. /\ run' \in [Runs -> RunStates]
      /\ \A q \in Runs : /\ run'[q].pc = run[q].pc /\ run'[q].preds = run[q].preds
                         /\ run'[q].inst = run[q].inst /\ run'[q].boot = run[q].boot
                         /\ run'[q].durable = run[q].durable /\ run'[q].asked = run[q].asked
                         /\ run'[q].healthy = run[q].healthy
                         /\ run'[q].todo \subseteq run[q].todo
  BY <1>1 DEF RunStates
<1>7. picks' \in [Slots -> Records \cup {NoRecord}]
  BY <1>1, <1>3, <1>4
<1>8. DurableTypeOK'
  BY <1>2, <1>6, <1>7 DEF PublicPicks
<1>9. PicksAreRecorded'
  BY <1>1, <1>2, <1>3, <1>4, <1>5 DEF PicksAreRecorded
<1>10. \A q \in Runs : RunOK(q)'
  BY <1>2, <1>6 DEF RunOK, Has
<1> QED
  BY <1>2, <1>8, <1>9, <1>10 DEF RowsKeyed

\* The copy goes to the file and the report goes out.
LEMMA SaveKeeps ==
    ASSUME DurableInv, NEW r \in Runs, NEW durable \in BOOLEAN,
           run[r].pc \in {"stored", "fallback"}, run[r].todo = {},
           durable => run[r].pc = "stored",
           Report(r, durable), Save(r), UNCHANGED <<ledger, picks, boot>>
    PROVE  DurableInv'
<1> USE DEF DurableInv, DurableTypeOK
<1> DEFINE i == run[r].inst
           ps == run[r].preds
<1>1. ps \in SUBSET Records /\ i \in Instances
  BY DEF RunStates
<1>2. PICK clean \in BOOLEAN :
         run' = [run EXCEPT ![r] = [@ EXCEPT !.pc = "reported", !.durable = durable,
                                             !.healthy = Healthy(r, durable, clean)]]
  BY DEF Report
<1>3. Healthy(r, durable, clean) \in BOOLEAN
  BY DEF Healthy
<1>4. /\ run' \in [Runs -> RunStates]
      /\ \A q \in Runs \ {r} : run'[q] = run[q]
      /\ run'[r].pc = "reported" /\ run'[r].durable = durable
      /\ run'[r].healthy = Healthy(r, durable, clean)
      /\ run'[r].preds = ps /\ run'[r].inst = i /\ run'[r].boot = run[r].boot
      /\ run'[r].asked = run[r].asked /\ run'[r].todo = {}
  BY <1>2, <1>3 DEF RunStates
<1>5. LET rows == WithFirst(file[i], ps)
      IN  /\ rows \in [Keys -> Records \cup {NoRecord}] /\ RowsKeyed(rows) /\ Has(rows, ps)
          /\ \A k \in Keys : file[i][k] # NoRecord => rows[k] = file[i][k]
  <2> HIDE DEF i, ps
  <2>1. file[i] \in [Keys -> Records \cup {NoRecord}] /\ RowsKeyed(file[i])
    BY <1>1
  <2> QED BY <1>1, <2>1, WithFirstMerges
<1>6. file' = [file EXCEPT ![i] = WithFirst(file[i], ps)]
  BY DEF Save
<1> HIDE DEF i, ps
<1>7. /\ file' \in [Instances -> [Keys -> Records \cup {NoRecord}]]
      /\ \A j \in Instances : RowsKeyed(file'[j])
      /\ Has(file'[i], ps)
      /\ \A j \in Instances, k \in Keys : file[j][k] # NoRecord => file'[j][k] = file[j][k]
  BY <1>1, <1>5, <1>6
<1>8. DurableTypeOK'
  BY <1>4, <1>7 DEF PublicPicks
<1>9. PicksAreRecorded'
  BY DEF PicksAreRecorded
<1>10. ASSUME NEW q \in Runs PROVE RunOK(q)'
  <2>1. CASE q = r
    <3>1. durable => Has(ledger, ps)
      BY DEF RunOK, ps
    <3>2. Healthy(r, durable, clean) /\ run[r].asked \in {"refused", "database"} => durable
      BY DEF Healthy
    <3>3. run[r].boot <= boot[i]
      BY DEF RunOK, i
    <3> QED BY <1>4, <1>7, <2>1, <3>1, <3>2, <3>3 DEF RunOK, Has
  <2>2. CASE q # r
    <3>1. run'[q] = run[q] /\ run[q].inst \in Instances /\ run[q].preds \in SUBSET Records
      BY <1>4, <2>2 DEF RunStates
    <3>2. Has(file[run[q].inst], run[q].preds) => Has(file'[run[q].inst], run[q].preds)
      BY <1>7, <3>1, HasGrows
    <3> QED BY <3>1, <3>2 DEF RunOK, Has
  <2> QED BY <2>1, <2>2
<1> QED
  BY <1>7, <1>8, <1>9, <1>10 DEF RowsKeyed

\* A failed write of the file, with or without another try ahead.
LEMMA FailedSaveKeeps ==
    ASSUME DurableInv, NEW r \in Runs, NEW pc \in {"fallback", "failed"},
           run[r].pc \in {"stored", "fallback"}, run[r].todo = {},
           run' = [run EXCEPT ![r].pc = pc], UNCHANGED <<ledger, picks, file, boot>>
    PROVE  DurableInv'
<1> USE DEF DurableInv, DurableTypeOK
<1> DEFINE state == [run[r] EXCEPT !.pc = pc]
<1>1. state \in RunStates /\ run' = [run EXCEPT ![r] = state] /\ state.todo = {}
  BY DEF RunStates
<1>2. RunOK(r)'
  BY DEF RunOK, Has, RunStates
<1> HIDE DEF state
<1> QED
  BY RunMoves, <1>1, <1>2

LEMMA ConcludeKeeps ==
    ASSUME DurableInv, NEW r \in Runs, NEW saved \in BOOLEAN, Conclude(r, saved)
    PROVE  DurableInv'
<1>1. CASE saved
  BY <1>1, SaveKeeps DEF Conclude
<1>2. CASE ~saved
  BY <1>2, FailedSaveKeeps DEF Conclude
<1> QED BY <1>1, <1>2

LEMMA FallBackKeeps ==
    ASSUME DurableInv, NEW r \in Runs, NEW saved \in BOOLEAN, FallBack(r, saved)
    PROVE  DurableInv'
<1>1. run[r].todo = {}
  BY DEF DurableInv, DurableTypeOK, FallBack
<1>2. CASE saved
  BY <1>1, <1>2, SaveKeeps DEF FallBack
<1>3. CASE ~saved
  BY <1>1, <1>3, FailedSaveKeeps DEF FallBack, Fail
<1> QED BY <1>2, <1>3

LEMMA RestartKeeps ==
    ASSUME DurableInv, NEW i \in Instances, Restart(i)
    PROVE  DurableInv'
<1> USE DEF DurableInv, DurableTypeOK
<1>1. /\ boot' \in [Instances -> 0 .. MaxBoots] /\ boot'[i] = boot[i] + 1
      /\ \A j \in Instances \ {i} : boot'[j] = boot[j] /\ file'[j] = file[j]
      /\ file' \in [Instances -> [Keys -> Records \cup {NoRecord}]]
      /\ RowsKeyed(file'[i])
      /\ UNCHANGED <<ledger, picks>>
  BY StorageAssumption DEF Restart, RowsKeyed
<1>2. /\ run' \in [Runs -> RunStates]
      /\ \A q \in Runs :
            /\ run'[q].preds = run[q].preds /\ run'[q].todo = run[q].todo
            /\ run'[q].inst = run[q].inst /\ run'[q].boot = run[q].boot
            /\ run'[q].durable = run[q].durable /\ run'[q].healthy = run[q].healthy
            /\ run'[q].asked = run[q].asked
            /\ run'[q].pc = run[q].pc \/ (Running(q) /\ run'[q].pc = "dead")
  BY DEF Restart, RunStates
<1>3. DurableTypeOK'
  BY <1>1, <1>2 DEF PublicPicks
<1>4. PicksAreRecorded'
  BY <1>1 DEF PicksAreRecorded
<1>5. ASSUME NEW q \in Runs PROVE RunOK(q)'
  <2>1. run[q].inst \in Instances /\ run[q].boot \in Nat /\ boot[i] \in Nat
    BY StorageAssumption DEF RunStates
  <2>2. RunOK(q) /\ run[q].boot <= boot'[run[q].inst]
    BY <1>1, <2>1 DEF RunOK
  <2>3. CASE run[q].inst = i
    <3>1. boot'[run[q].inst] # run[q].boot
      BY <1>1, <2>1, <2>2, <2>3 DEF RunOK
    <3> QED BY <1>1, <1>2, <2>2, <3>1 DEF RunOK, Has, Running
  <2>4. CASE run[q].inst # i
    BY <1>1, <1>2, <2>1, <2>2, <2>4 DEF RunOK, Has, Running
  <2> QED BY <2>3, <2>4
<1> QED
  BY <1>1, <1>3, <1>4, <1>5 DEF RowsKeyed

LEMMA DurableStep == DurableInv /\ [DurableNext]_durableVars => DurableInv'
<1> SUFFICES ASSUME DurableInv, [DurableNext]_durableVars PROVE DurableInv'
  OBVIOUS
<1>1. CASE UNCHANGED durableVars
  BY <1>1 DEF durableVars, DurableInv, DurableTypeOK, RowsKeyed, PicksAreRecorded, RunOK, Has,
              PublicPicks
<1>2. CASE DurableNext
  BY <1>2, EvaluateKeeps, UpsertKeeps, UpsertPickKeeps, ConcludeKeeps, FallBackKeeps,
     DieKeeps, RestartKeeps DEF DurableNext
<1> QED BY <1>1, <1>2

THEOREM DurableInvariant == DurableSpec => []DurableInv
BY DurableInitially, DurableStep, PTL DEF DurableSpec

-----------------------------------------------------------------------------
(* The theorems *)

\* Every variable keeps its type, and only runs that heard from the ledger publish.
THEOREM DurableTypeCorrect == DurableSpec => []DurableTypeOK
<1>1. DurableInv => DurableTypeOK
  BY DEF DurableInv
<1> QED BY <1>1, DurableInvariant, PTL

\* What any run reported as durable is in the database.
THEOREM DurableTruth == DurableSpec => []DurableMeansStored
<1>1. DurableInv => DurableMeansStored
  BY DEF DurableInv, RunOK, Has, DurableMeansStored, Promised, KeysOf
<1> QED BY <1>1, DurableInvariant, PTL

\* A healthy report of a run that was asked to write the database hides no loss.
THEOREM HealthTruth == DurableSpec => []HealthHonest
<1>1. DurableInv => HealthHonest
  BY DEF DurableInv, RunOK, Has, HealthHonest
<1> QED BY <1>1, DurableInvariant, PTL

\* Public picks are positions of the ledger, in their own slot.
THEOREM PicksRecorded == DurableSpec => []PicksAreRecorded
<1>1. DurableInv => PicksAreRecorded
  BY DEF DurableInv
<1> QED BY <1>1, DurableInvariant, PTL

\* The copy of a reported run is in the file until the instance restarts.
THEOREM CopyStays == DurableSpec => []CopyKept
<1>1. DurableInv => CopyKept
  <2> SUFFICES ASSUME DurableInv, NEW r \in Runs, run[r].pc = "reported",
                      boot[run[r].inst] = run[r].boot, NEW p \in run[r].preds
               PROVE  LET row == file[run[r].inst][p.key]
                      IN  row # NoRecord /\ row.key = p.key
    BY DEF CopyKept
  <2>1. run[r].inst \in Instances /\ p \in Records
    BY DEF DurableInv, DurableTypeOK, RunStates
  <2>2. p.key \in Keys
    BY <2>1 DEF Records
  <2> QED BY <2>1, <2>2 DEF DurableInv, RunOK, Has, RowsKeyed
<1> QED BY <1>1, DurableInvariant, PTL

\* A query that says it succeeded found all that was promised, within its limit.
THEOREM AnswersHonest == DurableSpec => []AnswersAreHonest
<1>1. DurableInv => AnswersAreHonest
  <2> SUFFICES ASSUME DurableInv, NEW i \in Instances, NEW way \in Ways, way # "no client",
                      NEW a \in Answers(i, way), a.success,
                      Cardinality(Rows(ledger)) <= Limit
               PROVE  Promised \subseteq KeysOf(a.data)
    BY DEF AnswersAreHonest
  <2>1. a.data = Rows(ledger)
    <3>1. way = "rows"
      <4>1. way = "error" => a = [success |-> way = "no client", data |-> Rows(file[i])]
        BY DEF Answers
      <4>2. way # "error"
        <5>1. SUFFICES ASSUME way = "error" PROVE FALSE
          OBVIOUS
        <5> DEFINE told == way = "no client"
        <5>2. a = [success |-> told, data |-> Rows(file[i])]
          BY <4>1, <5>1
        <5>3. ~told
          BY <5>1
        <5> HIDE DEF told
        <5>4. a.success = told
          BY <5>2
        <5> QED BY <5>3, <5>4
      <4> QED BY <4>2 DEF Ways
    <3> QED BY <3>1 DEF Answers
  <2>2. ASSUME NEW r \in Runs, run[r].durable, NEW p \in run[r].preds
        PROVE  p.key \in KeysOf(Rows(ledger))
    <3>1. p.key \in Keys
      BY SlotInSlots DEF DurableInv, DurableTypeOK, RunStates
    <3>2. ledger[p.key] # NoRecord /\ ledger[p.key].key = p.key
      BY <2>2, <3>1 DEF DurableInv, RunOK, Has, RowsKeyed
    <3> QED BY <3>1, <3>2 DEF Rows, KeysOf
  <2>3. Promised \subseteq KeysOf(Rows(ledger))
    <3>1. ASSUME NEW k \in Promised PROVE k \in KeysOf(Rows(ledger))
      <4>1. PICK r \in Runs : run[r].durable /\ \E p \in run[r].preds : k = p.key
        BY DEF Promised, KeysOf
      <4> QED BY <2>2, <4>1
    <3> QED BY <3>1
  <2> QED BY <2>1, <2>3
<1> QED BY <1>1, DurableInvariant, PTL

\* What a step leaves alone: records that exist, and the reports that were made.
LEMMA StepsKeep ==
    ASSUME DurableInv, DurableNext
    PROVE  /\ \A k \in Keys : ledger[k] # NoRecord => ledger'[k] = ledger[k]
           /\ \A i \in Instances : boot'[i] = boot[i] =>
                 \A k \in Keys : file[i][k] # NoRecord => file'[i][k] = file[i][k]
           /\ Promised \subseteq Promised'
           /\ ledger' = ledger \/ Promised' = Promised
<1> DEFINE Same(q) == run'[q].durable = run[q].durable /\ run'[q].preds = run[q].preds
<1> USE DEF DurableInv, DurableTypeOK
<1>1. ASSUME NEW q \in Runs PROVE run[q].durable => run[q].pc = "reported"
  BY DEF RunOK
<1>2. (\A q \in Runs : run[q].durable => Same(q)) => Promised \subseteq Promised'
  BY DEF Promised
<1>3. (\A q \in Runs : Same(q)) => Promised' = Promised
  BY DEF Promised
<1> HIDE DEF DurableInv, DurableTypeOK
<1> SUFFICES /\ \A k \in Keys : ledger[k] # NoRecord => ledger'[k] = ledger[k]
             /\ \A i \in Instances : boot'[i] = boot[i] =>
                   \A k \in Keys : file[i][k] # NoRecord => file'[i][k] = file[i][k]
             /\ \A q \in Runs : run[q].durable => Same(q)
             /\ ledger' = ledger \/ \A q \in Runs : Same(q)
  BY <1>2, <1>3
<1>4. ASSUME NEW r \in Runs, run[r].pc # "reported",
             \A q \in Runs \ {r} : run'[q] = run[q]
      PROVE  \A q \in Runs : run[q].durable => Same(q)
  BY <1>1, <1>4
<1>5. run \in [Runs -> RunStates] /\ \A r \in Runs : run[r].preds \in SUBSET Records
  BY DEF DurableInv, DurableTypeOK, RunStates
<1>6. ASSUME NEW r \in Runs, Evaluate(r) \/ Die(r) PROVE UNCHANGED <<ledger, file>> /\ run[r].pc # "reported" /\ \A q \in Runs \ {r} : run'[q] = run[q]
  BY <1>5, <1>6 DEF Evaluate, Die, Running
<1>7. ASSUME NEW r \in Runs, NEW done \in BOOLEAN, NEW heard \in BOOLEAN, Upsert(r, done, heard)
      PROVE  /\ file' = file
             /\ \A k \in Keys : ledger[k] # NoRecord => ledger'[k] = ledger[k]
             /\ \A q \in Runs : Same(q)
  <2>1. \A k \in Keys : ledger[k] # NoRecord => ledger'[k] = ledger[k]
    BY <1>7 DEF Upsert, WithFirst
  <2>2. \A q \in Runs : Same(q)
    BY <1>5, <1>7 DEF Upsert, RunStates
  <2> QED BY <1>7, <2>1, <2>2 DEF Upsert
<1>8. ASSUME NEW r \in Runs, NEW done \in BOOLEAN, UpsertPick(r, done)
      PROVE  UNCHANGED <<ledger, file>> /\ \A q \in Runs : Same(q)
  BY <1>5, <1>8 DEF UpsertPick, RunStates
<1>9. ASSUME NEW r \in Runs, NEW saved \in BOOLEAN, Conclude(r, saved) \/ FallBack(r, saved)
      PROVE  /\ ledger' = ledger
             /\ \A i \in Instances, k \in Keys : file[i][k] # NoRecord => file'[i][k] = file[i][k]
             /\ run[r].pc # "reported" /\ \A q \in Runs \ {r} : run'[q] = run[q]
  <2>1. /\ ledger' = ledger /\ run[r].pc # "reported"
        /\ \A q \in Runs \ {r} : run'[q] = run[q]
    BY <1>5, <1>9 DEF Conclude, FallBack, Report, Fail
  <2>2. file' = file \/ file' = [file EXCEPT ![run[r].inst] = WithFirst(file[run[r].inst], run[r].preds)]
    BY <1>9 DEF Conclude, FallBack, Save
  <2>3. file \in [Instances -> [Keys -> Records \cup {NoRecord}]]
    BY DEF DurableInv, DurableTypeOK
  <2> QED BY <2>1, <2>2, <2>3 DEF WithFirst
<1>10. ASSUME NEW i \in Instances, Restart(i)
       PROVE  /\ ledger' = ledger
              /\ boot'[i] # boot[i] /\ \A j \in Instances \ {i} : file'[j] = file[j]
              /\ \A q \in Runs : Same(q)
  <2>1. boot[i] \in Nat /\ boot' = [boot EXCEPT ![i] = @ + 1] /\ boot \in [Instances -> 0 .. MaxBoots]
    BY <1>10, StorageAssumption DEF DurableInv, DurableTypeOK, Restart
  <2>2. file \in [Instances -> [Keys -> Records \cup {NoRecord}]]
    BY DEF DurableInv, DurableTypeOK
  <2>3. \A q \in Runs : Same(q)
    BY <1>5, <1>10 DEF Restart, RunStates
  <2> QED BY <1>10, <2>1, <2>2, <2>3 DEF Restart
<1> HIDE DEF Same
<1>11. CASE \E r \in Runs : Evaluate(r) \/ Die(r)
  BY <1>4, <1>6, <1>11
<1>12. CASE \E r \in Runs, done, heard \in BOOLEAN : Upsert(r, done, heard)
  BY <1>7, <1>12
<1>13. CASE \E r \in Runs, done \in BOOLEAN : UpsertPick(r, done)
  BY <1>8, <1>13
<1>14. CASE \E r \in Runs, saved \in BOOLEAN : Conclude(r, saved) \/ FallBack(r, saved)
  BY <1>4, <1>9, <1>14
<1>15. CASE \E i \in Instances : Restart(i)
  BY <1>10, <1>15
<1> QED BY <1>11, <1>12, <1>13, <1>14, <1>15 DEF DurableNext

\* No step replaces a record of the ledger, or of a file that is not lost.
THEOREM RecordsStay == DurableSpec => RecordsImmutable
<1>1. DurableInv /\ [DurableNext]_durableVars =>
        [/\ \A k \in Keys : ledger[k] # NoRecord => ledger'[k] = ledger[k]
         /\ \A i \in Instances : boot'[i] = boot[i] =>
               \A k \in Keys : file[i][k] # NoRecord => file'[i][k] = file[i][k]]_durableVars
  BY StepsKeep
<1> QED BY <1>1, DurableInvariant, PTL DEF DurableSpec, RecordsImmutable

\* The storage with its instances, files and lost answers implements PositionStore.
THEOREM StorageImplementsStore == DurableSpec => StoreImplemented
<1>1. DurableInit => Store!StoreInit
  BY DEF DurableInit, Store!StoreInit, Promised, IdleRun
<1>2. DurableInv /\ DurableInv' /\ [DurableNext]_durableVars =>
         [Store!Accept \/ Store!Promise]_<<ledger, Promised>>
  <2> SUFFICES ASSUME DurableInv, DurableInv', [DurableNext]_durableVars
               PROVE  [Store!Accept \/ Store!Promise]_<<ledger, Promised>>
    OBVIOUS
  <2>1. CASE UNCHANGED durableVars
    BY <2>1 DEF durableVars, Promised
  <2>2. CASE DurableNext
    <3>1. Promised' \subseteq Keys /\ \A k \in Promised' : ledger'[k] # NoRecord
      <4>1. ASSUME NEW r \in Runs, run'[r].durable, NEW p \in run'[r].preds
            PROVE  p.key \in Keys /\ ledger'[p.key] # NoRecord
        BY <4>1, SlotInSlots DEF DurableInv, DurableTypeOK, RunStates, RunOK, Has
      <4> QED BY <4>1 DEF Promised, KeysOf
    <3>2. CASE ledger' = ledger
      BY <2>2, <3>1, <3>2, StepsKeep DEF Store!Promise
    <3>3. CASE Promised' = Promised
      <4>1. ledger' \in [Keys -> Records \cup {NoRecord}] /\ RowsKeyed(ledger')
        BY DEF DurableInv, DurableTypeOK, RowsKeyed
      <4> QED BY <2>2, <3>3, <4>1, StepsKeep DEF Store!Accept, RowsKeyed
    <3> QED BY <2>2, <3>2, <3>3, StepsKeep
  <2> QED BY <2>1, <2>2
<1> QED
  BY <1>1, <1>2, DurableInvariant, PTL DEF DurableSpec, StoreImplemented, Store!StoreSpec
=============================================================================
