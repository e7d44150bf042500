-------------------------- MODULE ActivationProofs --------------------------
(***************************************************************************)
(* Proofs about Activation.  ActivationInv is inductive: a working run     *)
(* holds a lock that is no older than itself unless it outlived it, what   *)
(* is enabled was proven and activated by an approved run, and what a run  *)
(* is about to write is no more than that, and of a league that it rolled  *)
(* back only what it discovered and another run activated again.           *)
(***************************************************************************)
EXTENDS Activation, TLAPS

\* A working run has the lock, and a lock no older than the run.
HoldsLock(r) ==
    /\ r \in Crons => run[r].age <= Limit
    /\ run[r].pc \in {"idle", "gate", "detect"} => ~run[r].available
    /\ Working(r) => (lock.holder = r /\ lock.age <= run[r].age) \/ Outlived(r)

LockInv == \A r \in Runs : HoldsLock(r)

RegistryInv ==
    /\ RegistryCoherent
    /\ \A l \in Leagues : registry[l].validated \subseteq MarketsOf(Proven, l)

\* Steps of a run that has not evaluated the leagues yet.
Early == {"idle", "gate", "detect", "ingest", "evaluate"}

WritesOwn(r) ==
    /\ run[r].pc \in Early => /\ run[r].activated = {} /\ run[r].rolledBack = {}
                              /\ run[r].todo = {} /\ run[r].cur = {}
                              /\ run[r].earlier = {}
    /\ run[r].pc \in Early => \A row \in Rows : picks[row] # r
    /\ run[r].activated # {} => run[r].approved
    /\ \A s \in run[r].earlier : run[s].pc \notin Early
    /\ ~run[r].discovered => \A row \in run[r].found : row[1] \notin run[r].rolledBack
    /\ \A row \in run[r].todo \cup run[r].cur : MayPublish(r, row)
    /\ run[r].todo \cup run[r].cur \subseteq ApprovedRows

\* What is enabled of a league that was rolled back was activated after that.
RolledBackInv ==
    \A r \in Runs : \A l \in run[r].rolledBack : \A m \in registry[l].enabled :
        ActivatedAfter(r, <<l, m>>)

WriteInv ==
    /\ \A r \in Runs : WritesOwn(r)
    /\ RolledBackInv
    /\ \A l \in Leagues : \A m \in registry[l].enabled : <<l, m>> \in ApprovedRows
    /\ WritesWereApproved
    /\ RolledBackReapproved

ActivationInv == ActivationTypeOK /\ LockInv /\ RegistryInv /\ WriteInv

-----------------------------------------------------------------------------
(* Moves of a run *)

LEMMA IdleIsState == IdleRun \in RunStates
<1>1. 1 \in 1 .. Batches /\ 0 \in 0 .. TTL
  BY ActivationAssumption
<1> QED BY <1>1 DEF IdleRun, RunStates

\* What stays of a run that goes on in some state, or ends.
LEMMA AfterState ==
    ASSUME NEW state \in RunStates
    PROVE  /\ After(state) \in RunStates
           /\ After(state).pc = state.pc
           /\ After(state).approved = state.approved
           /\ After(state).activated = state.activated
           /\ After(state).rolledBack = state.rolledBack
           /\ After(state).discovered = state.discovered
           /\ After(state).earlier = state.earlier
           /\ After(state).odds \subseteq state.odds
           /\ After(state).found \subseteq state.found
           /\ After(state).todo \subseteq state.todo
           /\ After(state).cur \subseteq state.cur
           /\ state.pc # "over" => After(state) = state
           /\ state.pc = "over" => After(state).odds = {}
           /\ After(state).age = state.age \/ After(state).age = 0
<1>1. CASE state.pc = "over"
  <2>1. After(state) = Ended(state)
    BY <1>1 DEF After
  <2>2. /\ Ended(state).pc = "over" /\ Ended(state).approved = state.approved
        /\ Ended(state).activated = state.activated
        /\ Ended(state).rolledBack = state.rolledBack
        /\ Ended(state).discovered = state.discovered
        /\ Ended(state).earlier = state.earlier
        /\ Ended(state).odds = {} /\ Ended(state).found = {} /\ Ended(state).todo = {}
        /\ Ended(state).cur = {} /\ Ended(state).age = 0
    BY DEF Ended, IdleRun
  <2>3. Ended(state) \in RunStates
    <3>1. IdleRun \in RunStates
      BY IdleIsState
    <3>2. /\ state.approved \in BOOLEAN /\ state.activated \in SUBSET Rows
          /\ state.rolledBack \in SUBSET Leagues
          /\ state.discovered \in BOOLEAN /\ state.earlier \in SUBSET Runs
      BY DEF RunStates
    <3> QED BY <3>1, <3>2 DEF Ended, RunStates
  <2> QED BY <1>1, <2>1, <2>2, <2>3
<1>2. CASE state.pc # "over"
  BY <1>2 DEF After
<1> QED BY <1>1, <1>2

LEMMA RunMoves ==
    ASSUME run \in [Runs -> RunStates], NEW r \in Runs, NEW state \in RunStates,
           Become(r, state)
    PROVE  /\ run' \in [Runs -> RunStates]
           /\ run'[r] = After(state)
           /\ \A q \in Runs \ {r} : run'[q] = run[q]
BY AfterState DEF Become

-----------------------------------------------------------------------------
(* Types *)

LEMMA TypeMoves ==
    ASSUME ActivationTypeOK, NEW r \in Runs, NEW state \in RunStates, Become(r, state),
           state.odds # {} \/ state.pc = "ingest" => state.available,
           lock' \in Locks, registry' \in [Leagues -> Entries],
           picks' \in [Rows -> Runs \cup {NoRun}], bets' \subseteq Rows,
           boots' \in 0 .. MaxBoots
    PROVE  ActivationTypeOK'
<1>1. run \in [Runs -> RunStates]
  BY DEF ActivationTypeOK
<1>2. /\ run' \in [Runs -> RunStates] /\ run'[r] = After(state)
      /\ \A q \in Runs \ {r} : run'[q] = run[q]
  BY <1>1, RunMoves
<1>3. After(state).odds # {} \/ After(state).pc = "ingest" => After(state) = state
  BY AfterState
<1> QED BY <1>2, <1>3 DEF ActivationTypeOK

\* Every step that only looks at the memory of the instance.
LEMMA EntryTypes ==
    ASSUME ActivationTypeOK, NEW l \in Leagues, NEW r \in Runs, NEW fault \in BOOLEAN
    PROVE  Evaluated(r, l, fault) \in Entries
<1>1. registry[l] \in Entries
  BY DEF ActivationTypeOK
<1>2. \A rows : MarketsOf(rows, l) \in SUBSET Markets
  BY DEF MarketsOf
<1>3. Synced(registry[l], l) \in Entries
  BY <1>1, <1>2 DEF Synced, Entries
<1>4. DefaultReadiness(l) \in [Markets -> Readiness]
  BY DEF DefaultReadiness, Readiness
<1>5. \A e \in Entries : Rollback(e, l) \in Entries
  BY <1>4 DEF Rollback, DefaultEntry, Entries
<1>6. \A e \in Entries, ms \in SUBSET Markets : Activate(e, ms) \in Entries
  BY DEF Activate, Entries
<1>7. Candidates(r, l) \in SUBSET Markets
  BY <1>2 DEF Candidates
<1>8. ASSUME NEW e \in Entries, NEW f \in BOOLEAN PROVE Finished(r, l, e, f) \in Entries
  <2>1. \A m \in Markets : Resolved(r, l, e, f, m) \in Readiness
    BY DEF Resolved, Readiness
  <2> QED BY <2>1 DEF Finished, Entries
<1>9. [registry[l] EXCEPT !.readiness = DefaultReadiness(l)] \in Entries
  BY <1>1, <1>4 DEF Entries
<1> DEFINE e == Synced(registry[l], l)
<1>10. /\ Finished(r, l, Rollback(e, l), fault) \in Entries
       /\ Finished(r, l, Activate(e, Candidates(r, l)), fault) \in Entries
       /\ Finished(r, l, e, FALSE) \in Entries
       /\ Rollback(e, l) \in Entries /\ Rollback(registry[l], l) \in Entries
  BY <1>1, <1>3, <1>5, <1>6, <1>7, <1>8
<1> QED BY <1>1, <1>9, <1>10 DEF Evaluated

LEMMA DefaultTypes == \A l \in Leagues : DefaultEntry(l) \in Entries
<1>1. \A l \in Leagues : DefaultReadiness(l) \in [Markets -> Readiness]
  BY DEF DefaultReadiness, Readiness
<1> QED BY <1>1 DEF DefaultEntry, Entries

LEMMA LockTypes ==
    ASSUME lock \in Locks, NEW r \in Runs
    PROVE  /\ Swept(lock) \in Locks /\ Freed(lock, r) \in Locks
           /\ [holder |-> r, age |-> 0] \in Locks /\ FreeLock \in Locks
BY ActivationAssumption DEF Swept, Freed, FreeLock, Locks

\* The markets that an evaluation lets a run write are markets that had odds.
LEMMA FoundHadOdds ==
    ASSUME NEW r \in Runs, NEW faults PROVE Collected(r, faults) \subseteq run[r].odds
BY DEF Collected

\* A run that has not evaluated the leagues only learns about quota and odds.
EarlyMove(r, s) ==
    /\ s \in RunStates
    /\ Become(r, s)
    /\ s.age = run[r].age
    /\ s.found = run[r].found /\ s.todo = run[r].todo /\ s.cur = run[r].cur
    /\ s.activated = run[r].activated /\ s.rolledBack = run[r].rolledBack
    /\ s.earlier = run[r].earlier
    /\ s.odds # {} \/ s.pc = "ingest" => s.available
    /\ run[r].pc \in Early

LEMMA AskGateMoves ==
    ASSUME ActivationTypeOK, NEW r \in Runs, AskGate(r)
    PROVE  \E s : EarlyMove(r, s) /\ s.pc = "gate" /\ s.available = run[r].available
                  /\ s.approved = run[r].approved
<1>1. run[r] \in RunStates /\ (run[r].odds # {} => run[r].available)
  BY DEF ActivationTypeOK
<1>2. PICK write \in BOOLEAN : Become(r, [run[r] EXCEPT !.pc = "gate", !.write = write])
  BY DEF AskGate
<1> DEFINE s == [run[r] EXCEPT !.pc = "gate", !.write = write]
<1>3. s \in RunStates
  <2>1. run[r] \in RunStates
    BY <1>1
  <2> QED BY <2>1 DEF RunStates
<1>4. /\ s.pc = "gate" /\ s.age = run[r].age /\ s.found = run[r].found
      /\ s.todo = run[r].todo /\ s.cur = run[r].cur /\ s.activated = run[r].activated
      /\ s.rolledBack = run[r].rolledBack /\ s.odds = run[r].odds
      /\ s.earlier = run[r].earlier
      /\ s.available = run[r].available /\ s.approved = run[r].approved
  BY <1>1 DEF RunStates
<1>5. run[r].pc \in Early
  BY DEF AskGate, Early
<1> QED BY <1>1, <1>2, <1>3, <1>4, <1>5 DEF EarlyMove

LEMMA CallMoves ==
    ASSUME ActivationTypeOK, NEW r \in Runs, Call(r)
    PROVE  \E s : EarlyMove(r, s) /\ s.pc \in {"evaluate", "detect"}
                  /\ s.available = run[r].available
<1>1. run[r] \in RunStates /\ (run[r].odds # {} => run[r].available)
  BY DEF ActivationTypeOK
<1>2. PICK approved, write \in BOOLEAN :
         Become(r, [run[r] EXCEPT !.pc = IF Live(lock) THEN "evaluate" ELSE "detect",
                                  !.approved = approved, !.write = write])
  BY DEF Call
<1> DEFINE pc == IF Live(lock) THEN "evaluate" ELSE "detect"
           s == [run[r] EXCEPT !.pc = pc, !.approved = approved, !.write = write]
<1>3. pc \in {"evaluate", "detect"}
  OBVIOUS
<1>4. Become(r, s)
  BY <1>2
<1> HIDE DEF pc
<1>5. s \in RunStates
  <2>1. run[r] \in RunStates
    BY <1>1
  <2> QED BY <1>3, <2>1 DEF RunStates, Inside
<1>6. /\ s.pc = pc /\ s.age = run[r].age /\ s.found = run[r].found
      /\ s.todo = run[r].todo /\ s.cur = run[r].cur /\ s.activated = run[r].activated
      /\ s.rolledBack = run[r].rolledBack /\ s.odds = run[r].odds
      /\ s.earlier = run[r].earlier
      /\ s.available = run[r].available
  BY <1>1 DEF RunStates
<1>7. run[r].pc \in Early
  BY DEF Call, Early
<1> QED BY <1>1, <1>3, <1>4, <1>5, <1>6, <1>7 DEF EarlyMove

LEMMA DetectMoves ==
    ASSUME ActivationTypeOK, NEW r \in Runs, Detect(r)
    PROVE  \E s : /\ EarlyMove(r, s) /\ s.pc \in Inside /\ s.approved = run[r].approved
                  /\ \/ s.available = run[r].available /\ lock' = lock
                     \/ ~Live(lock) /\ lock' = [holder |-> r, age |-> 0]
<1>1. run[r] \in RunStates /\ (run[r].odds # {} => run[r].available)
  BY DEF ActivationTypeOK
<1>2. run[r].pc \in Early
  BY DEF Detect, Early
<1>3. CASE Become(r, [run[r] EXCEPT !.pc = "evaluate"]) /\ lock' = lock
  <2> DEFINE s == [run[r] EXCEPT !.pc = "evaluate"]
  <2>1. s \in RunStates
    <3>1. run[r] \in RunStates
      BY <1>1
    <3> QED BY <3>1 DEF RunStates, Inside
  <2>2. /\ s.pc = "evaluate" /\ s.age = run[r].age /\ s.found = run[r].found
        /\ s.todo = run[r].todo /\ s.cur = run[r].cur /\ s.activated = run[r].activated
        /\ s.rolledBack = run[r].rolledBack /\ s.odds = run[r].odds
        /\ s.earlier = run[r].earlier
        /\ s.available = run[r].available /\ s.approved = run[r].approved
    BY <1>1 DEF RunStates
  <2> QED BY <1>1, <1>2, <1>3, <2>1, <2>2 DEF EarlyMove, Inside
<1>4. CASE /\ ~Live(lock)
           /\ Become(r, [run[r] EXCEPT !.pc = "ingest", !.available = TRUE])
           /\ lock' = [holder |-> r, age |-> 0]
  <2> DEFINE s == [run[r] EXCEPT !.pc = "ingest", !.available = TRUE]
  <2>1. s \in RunStates
    <3>1. run[r] \in RunStates
      BY <1>1
    <3> QED BY <3>1 DEF RunStates, Inside
  <2>2. /\ s.pc = "ingest" /\ s.age = run[r].age /\ s.found = run[r].found
        /\ s.todo = run[r].todo /\ s.cur = run[r].cur /\ s.activated = run[r].activated
        /\ s.rolledBack = run[r].rolledBack /\ s.available
        /\ s.earlier = run[r].earlier
        /\ s.approved = run[r].approved
    BY <1>1 DEF RunStates
  <2> QED BY <1>1, <1>2, <1>4, <2>1, <2>2 DEF EarlyMove, Inside
<1> QED BY <1>3, <1>4 DEF Detect

LEMMA IngestMoves ==
    ASSUME ActivationTypeOK, NEW r \in Runs, Ingest(r)
    PROVE  \E s : EarlyMove(r, s) /\ s.pc \in Inside /\ s.available = run[r].available
                  /\ s.approved = run[r].approved
<1>1. run[r] \in RunStates /\ (run[r].odds # {} => run[r].available)
  BY DEF ActivationTypeOK
<1>2. run[r].pc \in Early /\ run[r].pc \in Inside
  BY DEF Ingest, Early, Inside
<1>3. run[r].available
  BY DEF Ingest, ActivationTypeOK
<1>4. CASE Become(r, [run[r] EXCEPT !.pc = "evaluate"])
  <2> DEFINE s == [run[r] EXCEPT !.pc = "evaluate"]
  <2>1. s \in RunStates
    <3>1. run[r] \in RunStates
      BY <1>1
    <3> QED BY <3>1 DEF RunStates, Inside
  <2>2. /\ s.pc = "evaluate" /\ s.age = run[r].age /\ s.found = run[r].found
        /\ s.todo = run[r].todo /\ s.cur = run[r].cur /\ s.activated = run[r].activated
        /\ s.rolledBack = run[r].rolledBack /\ s.odds = run[r].odds
        /\ s.earlier = run[r].earlier
        /\ s.available = run[r].available /\ s.approved = run[r].approved
    BY <1>1 DEF RunStates
  <2> QED BY <1>2, <1>3, <1>4, <2>1, <2>2 DEF EarlyMove, Inside
<1>5. ASSUME NEW got \in SUBSET Asked(run[r].batch),
             Become(r, IF run[r].batch = Batches
                       THEN [run[r] EXCEPT !.pc = "evaluate", !.odds = @ \cup got]
                       ELSE [run[r] EXCEPT !.batch = @ + 1, !.odds = @ \cup got])
      PROVE  \E s : EarlyMove(r, s) /\ s.pc \in Inside /\ s.available = run[r].available
                    /\ s.approved = run[r].approved
  <2>1. run[r].odds \cup got \in SUBSET Rows
    BY <1>1 DEF Asked, RunStates
  <2>2. CASE run[r].batch = Batches
    <3> DEFINE s == [run[r] EXCEPT !.pc = "evaluate", !.odds = @ \cup got]
    <3>1. s \in RunStates
      <4>1. run[r] \in RunStates
        BY <1>1
      <4> QED BY <2>1, <4>1 DEF RunStates, Inside
    <3>2. /\ s.pc = "evaluate" /\ s.age = run[r].age /\ s.found = run[r].found
          /\ s.todo = run[r].todo /\ s.cur = run[r].cur
          /\ s.activated = run[r].activated /\ s.rolledBack = run[r].rolledBack
          /\ s.earlier = run[r].earlier
          /\ s.available = run[r].available /\ s.approved = run[r].approved
      BY <1>1 DEF RunStates
    <3> QED BY <1>2, <1>3, <1>5, <2>2, <3>1, <3>2 DEF EarlyMove, Inside
  <2>3. CASE run[r].batch # Batches
    <3> DEFINE s == [run[r] EXCEPT !.batch = @ + 1, !.odds = @ \cup got]
    <3>1. s \in RunStates
      <4>1. run[r] \in RunStates
        BY <1>1
      <4>2. run[r].batch \in 1 .. Batches
        BY <4>1 DEF RunStates
      <4>3. run[r].batch + 1 \in 1 .. Batches
        BY <2>3, <4>2, ActivationAssumption
      <4> QED BY <2>1, <4>1, <4>3 DEF RunStates
    <3>2. /\ s.pc = run[r].pc /\ s.age = run[r].age /\ s.found = run[r].found
          /\ s.todo = run[r].todo /\ s.cur = run[r].cur
          /\ s.activated = run[r].activated /\ s.rolledBack = run[r].rolledBack
          /\ s.earlier = run[r].earlier
          /\ s.available = run[r].available /\ s.approved = run[r].approved
      BY <1>1 DEF RunStates
    <3> QED BY <1>2, <1>3, <1>5, <2>3, <3>1, <3>2 DEF EarlyMove
  <2> QED BY <2>2, <2>3
<1> QED BY <1>4, <1>5 DEF Ingest

LEMMA FailMoves ==
    ASSUME ActivationTypeOK, NEW r \in Runs, Fail(r)
    PROVE  \E s : EarlyMove(r, s) /\ s.pc = "over" /\ s.approved = run[r].approved
<1>1. run[r] \in RunStates /\ run[r].available
  BY DEF ActivationTypeOK, Fail
<1> DEFINE s == [run[r] EXCEPT !.pc = "over"]
<1>2. s \in RunStates
  <2>1. run[r] \in RunStates
    BY <1>1
  <2> QED BY <2>1 DEF RunStates
<1>3. /\ s.pc = "over" /\ s.age = run[r].age /\ s.found = run[r].found
      /\ s.todo = run[r].todo /\ s.cur = run[r].cur /\ s.activated = run[r].activated
      /\ s.rolledBack = run[r].rolledBack
      /\ s.earlier = run[r].earlier
      /\ s.available = run[r].available /\ s.approved = run[r].approved
  BY <1>1 DEF RunStates
<1>4. run[r].pc \in Early /\ Become(r, s)
  BY DEF Fail, Early
<1> QED BY <1>1, <1>2, <1>3, <1>4 DEF EarlyMove

\* What the evaluation leaves with the run.
Given(r, faults) ==
    {row \in Rows : /\ Promotes(r, row[1])
                    /\ row[1] \notin faults
                    /\ row[2] \in Candidates(r, row[1])}

\* The runs that have promoted something.
Promoters == {q \in Runs : run[q].activated # {}}

LEMMA EvaluateMoves ==
    ASSUME ActivationTypeOK, NEW r \in Runs, Evaluate(r)
    PROVE  \E s, faults :
              /\ s \in RunStates /\ Become(r, s)
              /\ registry' = [l \in Leagues |-> Evaluated(r, l, l \in faults)]
              /\ s.pc \in IF r \in Manuals THEN {"persist", "release"} ELSE {"release"}
              /\ s.age = run[r].age /\ s.available = run[r].available
              /\ s.approved = run[r].approved
              /\ s.odds = {} /\ s.todo = run[r].todo /\ s.cur = run[r].cur
              /\ s.found = Collected(r, faults)
              /\ s.rolledBack = faults /\ s.activated = Given(r, faults)
              /\ s.discovered = run[r].discovered /\ s.earlier = Promoters
              /\ faults \subseteq Tested(r)
<1>1. run[r] \in RunStates
  BY DEF ActivationTypeOK
<1>2. PICK faults \in SUBSET Tested(r) :
        /\ registry' = [l \in Leagues |-> Evaluated(r, l, l \in faults)]
        /\ Become(r, [run[r] EXCEPT
              !.pc = IF r \in Manuals /\ run[r].write /\ Collected(r, faults) # {}
                     THEN "persist" ELSE "release",
              !.odds = {},
              !.found = Collected(r, faults),
              !.rolledBack = faults,
              !.earlier = Promoters,
              !.activated = Given(r, faults)])
  BY DEF Evaluate, Given, Promoters
<1> DEFINE pc == IF r \in Manuals /\ run[r].write /\ Collected(r, faults) # {}
                 THEN "persist" ELSE "release"
           found == Collected(r, faults)
           given == Given(r, faults)
           earlier == Promoters
           s == [run[r] EXCEPT !.pc = pc, !.odds = {}, !.found = found,
                               !.rolledBack = faults, !.earlier = earlier,
                               !.activated = given]
<1>3. pc \in IF r \in Manuals THEN {"persist", "release"} ELSE {"release"}
  OBVIOUS
<1>4. found \in SUBSET Rows
  BY <1>1, FoundHadOdds DEF RunStates
<1>5. faults \in SUBSET Leagues
  BY DEF Tested
<1>6. given \in SUBSET Rows /\ earlier \in SUBSET Runs
  BY DEF Given, Promoters
<1>7. Become(r, s)
  BY <1>2
<1> HIDE DEF pc, found, given, earlier
<1>8. s \in RunStates
  BY <1>1, <1>3, <1>4, <1>5, <1>6 DEF RunStates, Inside, Writing
<1>9. /\ s.pc = pc /\ s.age = run[r].age /\ s.available = run[r].available
      /\ s.approved = run[r].approved /\ s.odds = {} /\ s.todo = run[r].todo
      /\ s.cur = run[r].cur /\ s.found = found /\ s.rolledBack = faults
      /\ s.activated = given /\ s.earlier = earlier /\ s.discovered = run[r].discovered
  BY <1>1 DEF RunStates
<1> HIDE DEF s
<1> QED BY <1>2, <1>3, <1>7, <1>8, <1>9 DEF found, given, earlier

\* After the evaluation a run gives back the lock and writes.
LateMove(r, s) ==
    /\ s \in RunStates
    /\ Become(r, s)
    /\ s.age = run[r].age /\ s.available = run[r].available
    /\ s.approved = run[r].approved
    /\ s.activated = run[r].activated /\ s.rolledBack = run[r].rolledBack
    /\ s.earlier = run[r].earlier
    /\ \/ s.found \subseteq run[r].found /\ s.discovered = run[r].discovered
       \/ s.discovered
    /\ s.odds # {} => s.available
    /\ run[r].pc \notin Early /\ s.pc \notin Early
    /\ r \in Crons => s.pc \notin Inside
    /\ registry' = registry

LEMMA ReleaseMoves ==
    ASSUME ActivationTypeOK, NEW r \in Runs, Release(r)
    PROVE  \E s : /\ LateMove(r, s) /\ s.todo = run[r].todo /\ s.cur = run[r].cur
                  /\ s.pc \in {"discover", "persist", "over"}
                  /\ (r \in Manuals => s.pc = "over")
<1>1. run[r] \in RunStates /\ (run[r].odds # {} => run[r].available)
  BY DEF ActivationTypeOK
<1> DEFINE pc == IF r \in Manuals \/ ~run[r].write THEN "over"
                 ELSE IF run[r].found = {} THEN "discover" ELSE "persist"
           s == [run[r] EXCEPT !.pc = pc]
<1>2. pc \in {"discover", "persist", "over"} /\ (r \in Manuals => pc = "over")
  BY ActivationAssumption
<1>3. Become(r, s) /\ run[r].pc \notin Early /\ registry' = registry
  BY DEF Release, Early
<1> HIDE DEF pc
<1>4. s \in RunStates
  <2>1. run[r] \in RunStates
    BY <1>1
  <2> QED BY <1>2, <2>1 DEF RunStates, Writing
<1>5. /\ s.pc = pc /\ s.age = run[r].age /\ s.available = run[r].available
      /\ s.approved = run[r].approved /\ s.odds = run[r].odds /\ s.todo = run[r].todo
      /\ s.cur = run[r].cur /\ s.found = run[r].found
      /\ s.rolledBack = run[r].rolledBack /\ s.activated = run[r].activated
      /\ s.earlier = run[r].earlier /\ s.discovered = run[r].discovered
  BY <1>1 DEF RunStates
<1>6. r \in Crons => s.pc \notin Inside
  BY <1>2, <1>5 DEF Inside
<1> HIDE DEF s
<1> QED BY <1>1, <1>2, <1>3, <1>4, <1>5, <1>6 DEF LateMove, Early

\* The state after a row, or before the first.
LEMMA RowMoves ==
    ASSUME ActivationTypeOK, NEW r \in Runs, NEW todo \in SUBSET Rows,
           run[r].pc \in Writing, registry' = registry,
           Become(r, [AfterRow(r, todo) EXCEPT !.todo = todo])
    PROVE  \E s : /\ LateMove(r, s) /\ s.todo = todo /\ s.cur = {}
                  /\ s.pc \in {"write", "release", "over"}
<1>1. run[r] \in RunStates /\ (run[r].odds # {} => run[r].available)
  BY DEF ActivationTypeOK
<1> DEFINE pc == IF todo # {} THEN "write" ELSE IF r \in Manuals THEN "release" ELSE "over"
           s == [run[r] EXCEPT !.found = {}, !.cur = {}, !.pc = pc, !.todo = todo]
<1>2. pc \in {"write", "release", "over"} /\ (r \in Crons => pc # "release")
  BY ActivationAssumption
<1>3. [AfterRow(r, todo) EXCEPT !.todo = todo] = s
  BY <1>1 DEF AfterRow, RunStates
<1> HIDE DEF pc
<1>4. s \in RunStates
  <2>1. run[r] \in RunStates
    BY <1>1
  <2> QED BY <1>2, <2>1 DEF RunStates, Writing, Inside
<1>5. /\ s.pc = pc /\ s.age = run[r].age /\ s.available = run[r].available
      /\ s.approved = run[r].approved /\ s.odds = run[r].odds /\ s.todo = todo
      /\ s.cur = {} /\ s.found = {}
      /\ s.rolledBack = run[r].rolledBack /\ s.activated = run[r].activated
      /\ s.earlier = run[r].earlier /\ s.discovered = run[r].discovered
  BY <1>1 DEF RunStates
<1>6. (r \in Crons => s.pc \notin Inside) /\ s.pc \notin Early
  BY <1>2, <1>5 DEF Inside, Early
<1>7. run[r].pc \notin Early
  BY DEF Writing, Early
<1>8. Become(r, s)
  BY <1>3
<1> HIDE DEF s
<1> QED BY <1>1, <1>2, <1>4, <1>5, <1>6, <1>7, <1>8 DEF LateMove

LEMMA DiscoverMoves ==
    ASSUME ActivationTypeOK, NEW r \in Runs, Discover(r)
    PROVE  \E s : /\ LateMove(r, s) /\ s.todo = run[r].todo /\ s.cur = run[r].cur
                  /\ s.pc = "persist"
<1>1. run[r] \in RunStates /\ (run[r].odds # {} => run[r].available)
  BY DEF ActivationTypeOK
<1>2. PICK got \in SUBSET Rows :
         Become(r, [run[r] EXCEPT !.pc = "persist", !.found = got, !.discovered = TRUE])
  BY DEF Discover
<1> DEFINE s == [run[r] EXCEPT !.pc = "persist", !.found = got, !.discovered = TRUE]
<1>3. s \in RunStates
  <2>1. run[r] \in RunStates
    BY <1>1
  <2> QED BY <2>1 DEF RunStates, Writing
<1>4. /\ s.pc = "persist" /\ s.age = run[r].age /\ s.available = run[r].available
      /\ s.approved = run[r].approved /\ s.odds = run[r].odds /\ s.todo = run[r].todo
      /\ s.cur = run[r].cur /\ s.rolledBack = run[r].rolledBack
      /\ s.activated = run[r].activated /\ s.earlier = run[r].earlier /\ s.discovered
  BY <1>1 DEF RunStates
<1>5. run[r].pc \notin Early /\ s.pc \notin Early /\ s.pc \notin Inside /\ registry' = registry
  BY <1>4 DEF Discover, Early, Inside
<1>6. Become(r, s)
  BY <1>2
<1> HIDE DEF s
<1> QED BY <1>1, <1>3, <1>4, <1>5, <1>6 DEF LateMove

LEMMA PersistMoves ==
    ASSUME ActivationTypeOK, NEW r \in Runs, Persist(r)
    PROVE  \E s : /\ LateMove(r, s) /\ s.cur = {} /\ s.pc \in {"write", "release", "over"}
                  /\ s.todo \subseteq {row \in run[r].found : Enabled(row)}
<1> DEFINE eligible == {row \in run[r].found : Enabled(row)}
<1>1. run[r] \in RunStates
  BY DEF ActivationTypeOK
<1>2. run[r].found \subseteq Rows
  BY <1>1 DEF RunStates
<1>3. eligible \in SUBSET Rows
  BY <1>2
<1>4. /\ run[r].pc \in Writing /\ registry' = registry
      /\ Become(r, [AfterRow(r, eligible) EXCEPT !.todo = eligible])
  BY DEF Persist, Writing
<1> HIDE DEF eligible
<1>5. PICK s : /\ LateMove(r, s) /\ s.todo = eligible /\ s.cur = {}
               /\ s.pc \in {"write", "release", "over"}
  BY <1>3, <1>4, RowMoves
<1> QED BY <1>5 DEF eligible

LEMMA WritePickMoves ==
    ASSUME ActivationTypeOK, NEW r \in Runs, NEW done \in BOOLEAN, WritePick(r, done)
    PROVE  \E s, row : /\ LateMove(r, s) /\ s.pc = "bet" /\ row \in run[r].todo
                       /\ s.cur = {row} /\ s.todo = run[r].todo \ {row}
                       /\ picks' = IF done THEN [picks EXCEPT ![row] = r] ELSE picks
<1>1. run[r] \in RunStates /\ (run[r].odds # {} => run[r].available)
  BY DEF ActivationTypeOK
<1>2. PICK row \in run[r].todo :
        /\ picks' = IF done THEN [picks EXCEPT ![row] = r] ELSE picks
        /\ Become(r, [run[r] EXCEPT !.pc = "bet", !.cur = {row}, !.todo = @ \ {row}])
  BY DEF WritePick
<1> DEFINE s == [run[r] EXCEPT !.pc = "bet", !.cur = {row}, !.todo = @ \ {row}]
<1>3. s \in RunStates
  <2>1. run[r] \in RunStates
    BY <1>1
  <2>2. {row} \in SUBSET Rows /\ run[r].todo \ {row} \in SUBSET Rows
    BY <1>2, <2>1 DEF RunStates
  <2> QED BY <2>1, <2>2 DEF RunStates, Writing
<1>4. /\ s.pc = "bet" /\ s.age = run[r].age /\ s.available = run[r].available
      /\ s.approved = run[r].approved /\ s.odds = run[r].odds
      /\ s.todo = run[r].todo \ {row} /\ s.cur = {row} /\ s.found = run[r].found
      /\ s.rolledBack = run[r].rolledBack /\ s.activated = run[r].activated
      /\ s.earlier = run[r].earlier /\ s.discovered = run[r].discovered
  BY <1>1 DEF RunStates
<1>5. run[r].pc \notin Early /\ s.pc \notin Early /\ s.pc \notin Inside /\ registry' = registry
  BY <1>4 DEF WritePick, Early, Inside
<1>6. Become(r, s)
  BY <1>2
<1> HIDE DEF s
<1> QED BY <1>1, <1>2, <1>3, <1>4, <1>5, <1>6 DEF LateMove

LEMMA WriteBetMoves ==
    ASSUME ActivationTypeOK, NEW r \in Runs, NEW done \in BOOLEAN, WriteBet(r, done)
    PROVE  \E s : /\ LateMove(r, s) /\ s.todo = run[r].todo /\ s.cur = {}
                  /\ s.pc \in {"write", "release", "over"}
<1>1. run[r] \in RunStates
  BY DEF ActivationTypeOK
<1>2. run[r].todo \in SUBSET Rows
  BY <1>1 DEF RunStates
<1>3. AfterRow(r, run[r].todo) = [AfterRow(r, run[r].todo) EXCEPT !.todo = run[r].todo]
  BY <1>1 DEF AfterRow, RunStates
<1>4. /\ run[r].pc \in Writing /\ registry' = registry
      /\ Become(r, [AfterRow(r, run[r].todo) EXCEPT !.todo = run[r].todo])
  BY <1>3 DEF WriteBet, Writing
<1> QED BY <1>2, <1>4, RowMoves

-----------------------------------------------------------------------------
(* The lock *)

\* A lock that may be taken is that of no cron run that works.
LEMMA DeadLock ==
    ASSUME ActivationTypeOK, LockInv, ~Live(lock), NEW q \in Runs, Working(q)
    PROVE  Outlived(q)
<1>1. HoldsLock(q)
  BY DEF LockInv
<1>2. CASE lock.holder = q /\ lock.age <= run[q].age
  <2>1. /\ lock.age \in 0 .. TTL /\ run[q].age \in 0 .. TTL
        /\ {TTL, Limit} \subseteq Nat /\ Limit < TTL
    BY ActivationAssumption DEF ActivationTypeOK, Locks, RunStates
  <2>2. lock.age >= TTL
    BY <1>2, <2>1, ActivationAssumption DEF Live
  <2>3. run[q].age >= TTL
    BY <1>2, <2>1, <2>2
  <2>4. q \notin Crons
    BY <1>1, <2>1, <2>3 DEF HoldsLock
  <2> QED BY <2>3, <2>4 DEF Outlived, Runs
<1> QED BY <1>1, <1>2 DEF HoldsLock

\* The others keep their lock when it is left alone, was dead or was not theirs.
LEMMA LockMoves ==
    ASSUME ActivationTypeOK, LockInv, NEW r \in Runs, NEW s \in RunStates, Become(r, s),
           lock' = lock \/ ~Live(lock) \/ lock.holder = r,
           HoldsLock(r)'
    PROVE  LockInv'
<1>1. \A q \in Runs \ {r} : run'[q] = run[q]
  BY RunMoves DEF ActivationTypeOK
<1>2. SUFFICES ASSUME NEW q \in Runs \ {r} PROVE HoldsLock(q)'
  BY DEF LockInv
<1>3. HoldsLock(q) /\ run'[q] = run[q]
  BY <1>1 DEF LockInv
<1>4. Working(q)' <=> Working(q)
  BY <1>3 DEF Working
<1>5. Outlived(q)' <=> Outlived(q)
  BY <1>3 DEF Outlived
<1>6. CASE lock' = lock
  BY <1>3, <1>4, <1>5, <1>6 DEF HoldsLock
<1>7. CASE ~Live(lock)
  BY <1>3, <1>4, <1>5, <1>7, DeadLock DEF HoldsLock
<1>8. CASE lock.holder = r
  BY <1>3, <1>4, <1>5, <1>8 DEF HoldsLock
<1> QED BY <1>6, <1>7, <1>8

LEMMA SweptLock == Swept(lock) = lock \/ ~Live(lock)
BY DEF Swept

LEMMA FreedLock == \A r \in Runs : Freed(lock, r) = lock \/ lock.holder = r
BY DEF Freed

\* A run that is not at work needs no lock.
LEMMA NotWorking ==
    ASSUME ActivationTypeOK, LockInv, NEW r \in Runs, NEW s \in RunStates, Become(r, s),
           s.age = run[r].age, ~(Working(r)'),
           s.pc \in {"idle", "gate", "detect"} => ~s.available
    PROVE  HoldsLock(r)'
<1>1. run'[r] = After(s) /\ (After(s).age = s.age \/ After(s).age = 0)
  BY RunMoves, AfterState DEF ActivationTypeOK
<1>2. {Limit, TTL} \subseteq Nat
  BY ActivationAssumption
<1>3. r \in Crons => run'[r].age <= Limit
  BY <1>1, <1>2 DEF HoldsLock, LockInv
<1>4. After(s).pc = s.pc /\ (s.pc # "over" => After(s) = s)
  BY AfterState
<1> QED BY <1>1, <1>3, <1>4 DEF HoldsLock

\* A run that goes on working keeps the lock that it had.
LEMMA StillWorking ==
    ASSUME ActivationTypeOK, LockInv, NEW r \in Runs, NEW s \in RunStates, Become(r, s),
           s.age = run[r].age, s.pc \notin {"over", "idle", "gate", "detect"},
           Working(r)' => Working(r), lock' = lock
    PROVE  HoldsLock(r)'
<1>1. run'[r] = s
  BY RunMoves, AfterState DEF ActivationTypeOK
<1>2. Outlived(r)' <=> Outlived(r)
  BY <1>1 DEF Outlived
<1> QED BY <1>1, <1>2 DEF HoldsLock, LockInv

LEMMA EarlyLock ==
    ASSUME ActivationTypeOK, LockInv, NEW r \in Runs,
           \/ AskGate(r) \/ Call(r) \/ Detect(r) \/ Ingest(r) \/ Fail(r)
    PROVE  LockInv'
<1>1. run \in [Runs -> RunStates]
  BY DEF ActivationTypeOK
<1>2. run[r].pc \in {"idle", "gate", "detect"} => ~run[r].available
  BY DEF LockInv, HoldsLock
<1>3. CASE AskGate(r)
  <2>1. PICK s : EarlyMove(r, s) /\ s.pc = "gate" /\ s.available = run[r].available
    BY <1>3, AskGateMoves
  <2>2. s \in RunStates /\ Become(r, s) /\ s.age = run[r].age
    BY <2>1 DEF EarlyMove
  <2>3. run'[r] = s
    BY <1>1, <2>1, <2>2, RunMoves, AfterState
  <2>4. ~(Working(r)') /\ ~s.available
    BY <1>2, <1>3, <2>1, <2>3 DEF Working, AskGate
  <2>5. HoldsLock(r)'
    BY <2>2, <2>4, NotWorking
  <2>6. lock' = lock \/ ~Live(lock)
    BY <1>3, SweptLock DEF AskGate
  <2> QED BY <2>2, <2>5, <2>6, LockMoves
<1>4. CASE Call(r)
  <2>1. PICK s : EarlyMove(r, s) /\ s.pc \in {"evaluate", "detect"}
                    /\ s.available = run[r].available
    BY <1>4, CallMoves
  <2>2. s \in RunStates /\ Become(r, s) /\ s.age = run[r].age
    BY <2>1 DEF EarlyMove
  <2>3. run'[r] = s
    BY <1>1, <2>1, <2>2, RunMoves, AfterState
  <2>4. ~(Working(r)') /\ ~s.available
    BY <1>2, <1>4, <2>1, <2>3 DEF Working, Call
  <2>5. HoldsLock(r)'
    BY <2>2, <2>4, NotWorking
  <2>6. lock' = lock \/ ~Live(lock)
    BY <1>4, SweptLock DEF Call
  <2> QED BY <2>2, <2>5, <2>6, LockMoves
<1>5. CASE Detect(r)
  <2>1. PICK s : /\ EarlyMove(r, s) /\ s.pc \in Inside
                 /\ \/ s.available = run[r].available /\ lock' = lock
                    \/ ~Live(lock) /\ lock' = [holder |-> r, age |-> 0]
    BY <1>5, DetectMoves
  <2>2. s \in RunStates /\ Become(r, s) /\ s.age = run[r].age
    BY <2>1 DEF EarlyMove
  <2>3. run'[r] = s
    BY <1>1, <2>1, <2>2, RunMoves, AfterState DEF Inside
  <2>4. CASE s.available = run[r].available /\ lock' = lock
    <3>1. ~(Working(r)') /\ ~s.available
      BY <1>2, <1>5, <2>3, <2>4 DEF Working, Detect
    <3>2. HoldsLock(r)'
      BY <2>2, <3>1, NotWorking
    <3> QED BY <2>2, <2>4, <3>2, LockMoves
  <2>5. CASE ~Live(lock) /\ lock' = [holder |-> r, age |-> 0]
    <3>1. s.age \in 0 .. TTL
      BY <2>2 DEF RunStates
    <3>2. r \in Crons => run'[r].age <= Limit
      BY <2>2, <2>3 DEF LockInv, HoldsLock
    <3>3. lock'.holder = r /\ lock'.age <= run'[r].age
      BY <2>3, <2>5, <3>1, ActivationAssumption
    <3>4. run'[r].pc \notin {"idle", "gate", "detect"}
      BY <2>1, <2>3 DEF Inside
    <3>5. HoldsLock(r)'
      BY <3>2, <3>3, <3>4 DEF HoldsLock
    <3> QED BY <2>2, <2>5, <3>5, LockMoves
  <2> QED BY <2>1, <2>4, <2>5
<1>6. CASE Ingest(r)
  <2>1. PICK s : EarlyMove(r, s) /\ s.pc \in Inside /\ s.available = run[r].available
    BY <1>6, IngestMoves
  <2>2. s \in RunStates /\ Become(r, s) /\ s.age = run[r].age
    BY <2>1 DEF EarlyMove
  <2>3. run'[r] = s
    BY <1>1, <2>1, <2>2, RunMoves, AfterState DEF Inside
  <2>4. Working(r)' => Working(r)
    BY <1>6, <2>1, <2>3 DEF Working, Ingest, Inside
  <2>5. lock' = lock
    BY <1>6 DEF Ingest
  <2>6. s.pc \notin {"over", "idle", "gate", "detect"}
    BY <2>1 DEF Inside
  <2>7. HoldsLock(r)'
    BY <2>2, <2>4, <2>5, <2>6, StillWorking
  <2> QED BY <2>2, <2>5, <2>7, LockMoves
<1>7. CASE Fail(r)
  <2>1. PICK s : EarlyMove(r, s) /\ s.pc = "over"
    BY <1>7, FailMoves
  <2>2. s \in RunStates /\ Become(r, s) /\ s.age = run[r].age
    BY <2>1 DEF EarlyMove
  <2>3. run'[r].pc = "over"
    BY <1>1, <2>1, <2>2, RunMoves, AfterState
  <2>4. ~(Working(r)')
    BY <2>3 DEF Working, Inside, Writing
  <2>5. HoldsLock(r)'
    BY <2>1, <2>2, <2>4, NotWorking
  <2>6. lock' = lock \/ lock.holder = r
    BY <1>7, FreedLock DEF Fail
  <2> QED BY <2>2, <2>5, <2>6, LockMoves
<1> QED BY <1>3, <1>4, <1>5, <1>6, <1>7

\* Late moves: Persist, WritePick and WriteBet leave the lock alone.
LEMMA LateWorking ==
    ASSUME ActivationTypeOK, LockInv, NEW r \in Runs, NEW s, LateMove(r, s),
           run[r].pc \in Inside \cup Writing,
           lock' = lock \/ (lock.holder = r /\ s.pc \notin Inside \cup Writing)
                        \/ (lock.holder = r /\ r \in Crons)
    PROVE  LockInv'
<1>1. s \in RunStates /\ Become(r, s) /\ s.age = run[r].age /\ s.available = run[r].available
  BY DEF LateMove
<1>2. run'[r] = After(s) /\ After(s).pc = s.pc /\ (s.pc # "over" => After(s) = s)
  BY <1>1, RunMoves, AfterState DEF ActivationTypeOK
<1>3. s.pc \notin {"idle", "gate", "detect"}
  BY DEF LateMove, Early
<1>4. HoldsLock(r)'
  <2>1. CASE ~(Working(r)')
    BY <1>1, <1>3, <2>1, NotWorking
  <2>2. CASE Working(r)'
    <3>1. s.pc # "over" /\ run'[r] = s
      BY <1>2, <2>2 DEF Working, Inside, Writing
    <3>2. r \in Manuals /\ s.pc \in Inside \cup Writing
      BY <2>2, <3>1 DEF Working, LateMove, Runs
    <3>3. Working(r)
      BY <1>1, <2>2, <3>1, <3>2 DEF Working
    <3>4. lock' = lock
      BY <3>2, ActivationAssumption
    <3> QED BY <1>1, <1>3, <3>1, <3>3, <3>4, StillWorking
  <2> QED BY <2>1, <2>2
<1> QED BY <1>1, <1>4, LockMoves

LEMMA EvaluateLock ==
    ASSUME ActivationTypeOK, LockInv, NEW r \in Runs, Evaluate(r)
    PROVE  LockInv'
<1>1. PICK s, faults :
         /\ s \in RunStates /\ Become(r, s)
         /\ s.pc \in IF r \in Manuals THEN {"persist", "release"} ELSE {"release"}
         /\ s.age = run[r].age /\ s.available = run[r].available
  BY EvaluateMoves
<1>2. s.pc \in {"persist", "release"}
  BY <1>1
<1>3. run'[r] = s
  BY <1>1, <1>2, RunMoves, AfterState DEF ActivationTypeOK
<1>4. Working(r)' => Working(r)
  BY <1>1, <1>3 DEF Working, Evaluate, Inside
<1>5. lock' = lock
  BY DEF Evaluate
<1>6. HoldsLock(r)'
  BY <1>1, <1>2, <1>4, <1>5, StillWorking
<1> QED BY <1>1, <1>5, <1>6, LockMoves

LEMMA TickMoves ==
    ASSUME ActivationTypeOK, Tick, NEW q \in Runs
    PROVE  /\ run'[q] \in RunStates
           /\ \/ run'[q] = run[q] /\ ~Running(q)
              \/ run'[q] = Ended(run[q]) /\ Running(q)
              \/ /\ run'[q] = [run[q] EXCEPT !.age = Older(@)] /\ Running(q)
                 /\ q \in Crons => run[q].age < Limit
<1>1. run[q] \in RunStates /\ run[q].age \in 0 .. TTL /\ {TTL, Limit} \subseteq Nat
  BY ActivationAssumption DEF ActivationTypeOK, RunStates
<1>2. run'[q] = IF ~Running(q) THEN run[q]
                ELSE IF q \in Crons /\ run[q].age >= Limit THEN Ended(run[q])
                ELSE [run[q] EXCEPT !.age = Older(@)]
  BY DEF Tick
<1>3. Ended(run[q]) \in RunStates
  <2>1. [run[q] EXCEPT !.pc = "over"] \in RunStates
    <3>1. run[q] \in RunStates
      BY <1>1
    <3> QED BY <3>1 DEF RunStates
  <2>2. After([run[q] EXCEPT !.pc = "over"]) = Ended(run[q])
    BY <1>1 DEF After, Ended, RunStates
  <2> QED BY <2>1, <2>2, AfterState
<1>4. Older(run[q].age) \in 0 .. TTL
  BY <1>1 DEF Older
<1>5. [run[q] EXCEPT !.age = Older(@)] \in RunStates
  <2>1. run[q] \in RunStates
    BY <1>1
  <2> QED BY <1>4, <2>1 DEF RunStates
<1>6. ~(run[q].age >= Limit) => run[q].age < Limit
  BY <1>1
<1>7. CASE ~Running(q)
  BY <1>1, <1>2, <1>7
<1>8. CASE Running(q) /\ q \in Crons /\ run[q].age >= Limit
  BY <1>2, <1>3, <1>8
<1>9. CASE Running(q) /\ ~(q \in Crons /\ run[q].age >= Limit)
  <2>1. run'[q] = [run[q] EXCEPT !.age = Older(@)]
    BY <1>2, <1>9
  <2> QED BY <1>5, <1>6, <1>9, <2>1
<1> QED BY <1>7, <1>8, <1>9

LEMMA TickLock ==
    ASSUME ActivationTypeOK, LockInv, Tick
    PROVE  LockInv'
<1>1. SUFFICES ASSUME NEW q \in Runs PROVE HoldsLock(q)'
  BY DEF LockInv
<1>2. /\ run[q] \in RunStates /\ run[q].age \in 0 .. TTL /\ lock.age \in 0 .. TTL
      /\ {TTL, Limit} \subseteq Nat
  BY ActivationAssumption DEF ActivationTypeOK, RunStates, Locks
<1>3. HoldsLock(q)
  BY DEF LockInv
<1>4. /\ lock'.holder = lock.holder
      /\ lock.holder # NoRun => lock'.age = Older(lock.age)
  BY DEF Tick, ActivationTypeOK, Locks
<1>5. CASE run'[q] = run[q] /\ ~Running(q)
  <2>1. ~(Working(q)')
    BY <1>5 DEF Working, Running, Inside, Writing
  <2> QED BY <1>3, <1>5, <2>1 DEF HoldsLock
<1>6. CASE run'[q] = Ended(run[q])
  <2>1. run'[q].pc = "over" /\ run'[q].age = 0
    BY <1>6 DEF Ended, IdleRun
  <2>2. ~(Working(q)')
    BY <2>1 DEF Working, Inside, Writing
  <2> QED BY <1>2, <2>1, <2>2 DEF HoldsLock
<1>7. CASE /\ run'[q] = [run[q] EXCEPT !.age = Older(@)]
           /\ q \in Crons => run[q].age < Limit
  <2>1. /\ run'[q].age = Older(run[q].age) /\ run'[q].pc = run[q].pc
        /\ run'[q].available = run[q].available
    BY <1>2, <1>7 DEF RunStates
  <2>2. q \in Crons => run'[q].age <= Limit
    BY <1>2, <1>7, <2>1 DEF Older
  <2>3. Working(q)' <=> Working(q)
    BY <2>1 DEF Working
  <2>4. Outlived(q) => Outlived(q)'
    BY <1>2, <2>1 DEF Outlived, Older
  <2>5. lock.holder = q /\ lock.age <= run[q].age
           => lock'.holder = q /\ lock'.age <= run'[q].age
    BY <1>2, <1>4, <2>1, ActivationAssumption DEF Older
  <2> QED BY <1>3, <2>1, <2>2, <2>3, <2>4, <2>5 DEF HoldsLock
<1> QED BY <1>5, <1>6, <1>7, TickMoves

LEMMA RestartMoves ==
    ASSUME ActivationTypeOK, Restart, NEW q \in Runs
    PROVE  /\ run'[q] \in RunStates
           /\ \/ run'[q] = run[q] /\ ~Running(q)
              \/ run'[q] = Ended(run[q]) /\ Running(q)
<1>1. run[q] \in RunStates
  BY DEF ActivationTypeOK
<1>2. run'[q] = IF Running(q) THEN Ended(run[q]) ELSE run[q]
  BY DEF Restart
<1>3. [run[q] EXCEPT !.pc = "over"] \in RunStates
  BY <1>1 DEF RunStates
<1>4. After([run[q] EXCEPT !.pc = "over"]) = Ended(run[q])
  BY <1>1 DEF After, Ended, RunStates
<1>5. Ended(run[q]) \in RunStates
  BY <1>3, <1>4, AfterState
<1> QED BY <1>1, <1>2, <1>5

LEMMA RestartLock ==
    ASSUME ActivationTypeOK, LockInv, Restart
    PROVE  LockInv'
<1>1. SUFFICES ASSUME NEW q \in Runs PROVE HoldsLock(q)'
  BY DEF LockInv
<1>2. CASE run'[q] = run[q] /\ ~Running(q)
  <2>1. ~(Working(q)')
    BY <1>2 DEF Working, Running, Inside, Writing
  <2> QED BY <1>2, <2>1 DEF HoldsLock, LockInv
<1>3. CASE run'[q] = Ended(run[q])
  <2>1. run'[q].pc = "over" /\ run'[q].age = 0
    BY <1>3 DEF Ended, IdleRun
  <2>2. ~(Working(q)')
    BY <2>1 DEF Working, Inside, Writing
  <2> QED BY <2>1, <2>2, ActivationAssumption DEF HoldsLock
<1> QED BY <1>2, <1>3, RestartMoves

-----------------------------------------------------------------------------
(* The registry *)

Coherent(e, l) ==
    /\ e.status = "ACTIVE" <=> e.enabled # {}
    /\ e.enabled \subseteq MarketsOf(Proven, l)
    /\ e.validated \subseteq MarketsOf(Proven, l)
    /\ \A m \in Markets : e.readiness[m] = "ACTIVE" => m \in e.enabled

LEMMA RegistryInvMeans ==
    ASSUME ActivationTypeOK
    PROVE  RegistryInv <=> \A l \in Leagues : Coherent(registry[l], l)
<1>1. \A l \in Leagues : registry[l].enabled \subseteq Markets
  BY DEF ActivationTypeOK, Entries
<1>2. \A l \in Leagues : (\A m \in registry[l].enabled : <<l, m>> \in Proven)
                            <=> registry[l].enabled \subseteq MarketsOf(Proven, l)
  BY <1>1 DEF MarketsOf
<1> QED BY <1>2 DEF RegistryInv, RegistryCoherent, Coherent

LEMMA DefaultCoherent == \A l \in Leagues : Coherent(DefaultEntry(l), l)
BY DEF Coherent, DefaultEntry, DefaultReadiness

LEMMA RollbackCoherent ==
    ASSUME NEW l \in Leagues, NEW e \in Entries, e.validated \subseteq MarketsOf(Proven, l)
    PROVE  /\ Coherent(Rollback(e, l), l)
           /\ Rollback(e, l).enabled = {} /\ Rollback(e, l).status # "ACTIVE"
BY DEF Coherent, Rollback, DefaultEntry, DefaultReadiness

LEMMA CandidatesProven ==
    ASSUME NEW l \in Leagues, NEW r \in Runs
    PROVE  Candidates(r, l) \subseteq MarketsOf(Proven, l) /\ Candidates(r, l) \subseteq Markets
BY DEF Candidates, MarketsOf

\* resolveFinalMarketDetail calls a market active only when it is enabled.
LEMMA FinishedReadiness ==
    ASSUME NEW l \in Leagues, NEW r \in Runs, NEW e \in Entries, NEW fault \in BOOLEAN
    PROVE  LET new == Finished(r, l, e, fault)
           IN  /\ new.status = e.status /\ new.enabled = e.enabled
               /\ new.validated = e.validated
               /\ \A m \in Markets : new.readiness[m] = "ACTIVE" => m \in e.enabled
<1>1. \A m \in Markets : Resolved(r, l, e, fault, m) = "ACTIVE" => m \in e.enabled
  BY DEF Resolved
<1> QED BY <1>1 DEF Finished, Entries

\* An evaluation leaves the entry in order, and enables only what it may promote.
LEMMA EvaluatedEntry ==
    ASSUME ActivationTypeOK, NEW l \in Leagues, NEW r \in Runs, NEW fault \in BOOLEAN,
           Coherent(registry[l], l)
    PROVE  /\ Coherent(Evaluated(r, l, fault), l)
           /\ \A m \in Evaluated(r, l, fault).enabled :
                 \/ m \in registry[l].enabled
                 \/ Promotes(r, l) /\ ~fault /\ m \in Candidates(r, l)
<1> DEFINE e == Synced(registry[l], l)
           ms == Candidates(r, l)
<1>1. registry[l] \in Entries
  BY DEF ActivationTypeOK
<1>2. MarketsOf(Proven, l) \in SUBSET Markets
  BY DEF MarketsOf
<1>3. /\ e \in Entries /\ e.status = registry[l].status
      /\ e.enabled = registry[l].enabled /\ e.validated = MarketsOf(Proven, l)
  BY <1>1, <1>2 DEF Synced, Entries
<1>4. ms \subseteq MarketsOf(Proven, l) /\ ms \subseteq Markets
  BY CandidatesProven
<1>5. e.status = "ACTIVE" <=> e.enabled # {}
  BY <1>3 DEF Coherent
<1>6. e.enabled \subseteq MarketsOf(Proven, l)
  BY <1>3 DEF Coherent
<1>7. CASE l \in Paused
  <2>1. Evaluated(r, l, fault) = [registry[l] EXCEPT !.readiness = DefaultReadiness(l)]
    BY <1>7 DEF Evaluated
  <2> QED BY <1>1, <2>1 DEF Coherent, Entries, DefaultReadiness
<1>8. CASE l \notin Paused /\ l = Epl
  <2>1. Evaluated(r, l, fault) = Rollback(registry[l], l)
           \/ Evaluated(r, l, fault) = registry[l]
    BY <1>8 DEF Evaluated
  <2> QED BY <1>1, <2>1, RollbackCoherent DEF Coherent
<1>9. CASE l \notin Paused /\ l # Epl /\ Promotes(r, l)
  <2> DEFINE new == IF fault THEN Rollback(e, l) ELSE Activate(e, ms)
  <2>1. Evaluated(r, l, fault) = Finished(r, l, new, fault)
    BY <1>9 DEF Evaluated
  <2>2. CASE fault
    <3>1. new = Rollback(e, l) /\ new.enabled = {} /\ Coherent(new, l)
      BY <1>3, <2>2, RollbackCoherent
    <3>2. new \in Entries
      <4>1. DefaultEntry(l) \in Entries
        BY DefaultTypes
      <4> QED BY <1>3, <3>1, <4>1 DEF Rollback, Entries
    <3> HIDE DEF new
    <3> QED BY <2>1, <3>1, <3>2, FinishedReadiness DEF Coherent
  <2>3. CASE ~fault
    <3>1. CASE e.status = "PAUSED" \/ ms \cap e.validated = {}
      <4>1. new = e
        BY <2>3, <3>1 DEF Activate
      <4> HIDE DEF new, e
      <4> QED BY <1>3, <1>5, <1>6, <2>1, <4>1, FinishedReadiness DEF Coherent
    <3>2. CASE ~(e.status = "PAUSED" \/ ms \cap e.validated = {})
      <4>1. new = [e EXCEPT !.status = "ACTIVE", !.enabled = ms \cap e.validated]
        BY <2>3, <3>2 DEF Activate
      <4> HIDE DEF new, e
      <4>2. /\ new \in Entries /\ new.status = "ACTIVE" /\ new.enabled = ms \cap e.validated
            /\ new.validated = e.validated
        BY <1>3, <1>4, <4>1 DEF Entries
      <4> DEFINE last == Finished(r, l, new, fault)
      <4>3. /\ last.status = new.status /\ last.enabled = new.enabled
            /\ last.validated = new.validated
            /\ \A m \in Markets : last.readiness[m] = "ACTIVE" => m \in new.enabled
        BY <4>2, FinishedReadiness
      <4>4. Evaluated(r, l, fault) = last
        BY <2>1
      <4> HIDE DEF last
      <4>5. Coherent(last, l)
        BY <1>3, <1>4, <3>2, <4>2, <4>3 DEF Coherent
      <4>6. \A m \in last.enabled : m \in ms
        BY <4>2, <4>3
      <4>7. \A m \in last.enabled : Promotes(r, l) /\ ~fault /\ m \in Candidates(r, l)
        BY <1>9, <2>3, <4>6
      <4> HIDE DEF ms
      <4>8. Coherent(Evaluated(r, l, fault), l)
        BY ONLY <4>4, <4>5
      <4>9. \A m \in Evaluated(r, l, fault).enabled :
               Promotes(r, l) /\ ~fault /\ m \in Candidates(r, l)
        BY ONLY <4>4, <4>7
      <4> QED BY ONLY <4>8, <4>9
    <3> QED BY <3>1, <3>2
  <2> QED BY <2>2, <2>3
<1>10. CASE l \notin Paused /\ l # Epl /\ ~Promotes(r, l)
  <2>1. CASE fault
    <3>1. Evaluated(r, l, fault) = Rollback(e, l)
      BY <1>10, <2>1 DEF Evaluated
    <3> HIDE DEF e
    <3> QED BY <1>3, <3>1, RollbackCoherent
  <2>2. CASE ~fault
    <3>1. Evaluated(r, l, fault) = Finished(r, l, e, FALSE)
      BY <1>10, <2>2 DEF Evaluated
    <3> HIDE DEF e
    <3> DEFINE last == Finished(r, l, e, FALSE)
    <3>2. /\ last.status = e.status /\ last.enabled = e.enabled
          /\ last.validated = e.validated
          /\ \A m \in Markets : last.readiness[m] = "ACTIVE" => m \in e.enabled
      BY <1>3, FinishedReadiness
    <3> HIDE DEF last
    <3>3. Coherent(last, l)
      BY <1>3, <1>5, <1>6, <3>2 DEF Coherent
    <3>4. last.enabled = registry[l].enabled
      BY <1>3, <3>2
    <3> QED BY <3>1, <3>3, <3>4 DEF last
  <2> QED BY <2>1, <2>2
<1> QED BY <1>7, <1>8, <1>9, <1>10

\* Every step maps each entry to itself, to an evaluated one or to the default.
LEMMA RegistryKeeps ==
    ASSUME ActivationTypeOK, RegistryInv, ActivationTypeOK',
           \/ registry' = registry
           \/ registry' = [l \in Leagues |-> DefaultEntry(l)]
           \/ \E r \in Runs : \E faults :
                 registry' = [l \in Leagues |-> Evaluated(r, l, l \in faults)]
    PROVE  RegistryInv'
<1>1. \A l \in Leagues : Coherent(registry[l], l)
  BY RegistryInvMeans
<1>2. SUFFICES \A l \in Leagues : Coherent(registry'[l], l)
  <2>1. (ActivationTypeOK => (RegistryInv <=> \A l \in Leagues : Coherent(registry[l], l)))'
    BY RegistryInvMeans, PTL
  <2>2. (\A l \in Leagues : Coherent(registry[l], l))'
            <=> \A l \in Leagues : Coherent(registry'[l], l)
    BY DEF Coherent
  <2> QED BY <1>2, <2>1, <2>2
<1>3. CASE registry' = registry
  BY <1>1, <1>3
<1>4. CASE registry' = [l \in Leagues |-> DefaultEntry(l)]
  BY <1>4, DefaultCoherent
<1>5. ASSUME NEW r \in Runs, NEW faults,
             registry' = [l \in Leagues |-> Evaluated(r, l, l \in faults)]
      PROVE  \A l \in Leagues : Coherent(registry'[l], l)
  <2>1. SUFFICES ASSUME NEW l \in Leagues PROVE Coherent(Evaluated(r, l, l \in faults), l)
    BY <1>5
  <2>2. (l \in faults) \in BOOLEAN
    OBVIOUS
  <2> DEFINE fault == l \in faults
  <2> HIDE DEF fault
  <2>3. fault \in BOOLEAN => Coherent(Evaluated(r, l, fault), l)
    BY <1>1, EvaluatedEntry
  <2> QED BY <2>2, <2>3 DEF fault
<1> QED BY <1>3, <1>4, <1>5

-----------------------------------------------------------------------------
(* What is written *)

LEMMA ApprovedGrows ==
    ASSUME \A q \in Runs : run[q].activated \subseteq run'[q].activated
    PROVE  ApprovedRows \subseteq ApprovedRows'
BY DEF ApprovedRows

\* What a run may publish it may publish for as long as no report shrinks.
LEMMA MayPublishLasts ==
    ASSUME NEW r \in Runs, NEW row, MayPublish(r, row),
           \A q \in Runs : run[q].activated \subseteq run'[q].activated,
           run'[r].rolledBack = run[r].rolledBack, run'[r].earlier = run[r].earlier,
           run[r].discovered => run'[r].discovered
    PROVE  MayPublish(r, row)'
BY DEF MayPublish, ActivatedAfter

LEMMA ActivatedAfterLasts ==
    ASSUME NEW r \in Runs, NEW row, ActivatedAfter(r, row),
           \A q \in Runs : run[q].activated \subseteq run'[q].activated,
           run'[r].earlier = run[r].earlier
    PROVE  ActivatedAfter(r, row)'
BY DEF ActivatedAfter

\* A fault leaves nothing enabled.
LEMMA FaultDisables ==
    ASSUME ActivationTypeOK, RegistryInv, NEW r \in Runs, NEW l \in Tested(r)
    PROVE  Evaluated(r, l, TRUE).enabled = {}
<1>1. l \in Leagues /\ l \notin Paused
  BY ActivationAssumption DEF Tested, Candidates
<1>2. registry[l] \in Entries /\ registry[l].validated \subseteq MarketsOf(Proven, l)
  BY <1>1 DEF ActivationTypeOK, RegistryInv
<1> DEFINE e == Synced(registry[l], l)
<1>3. e \in Entries /\ e.validated = MarketsOf(Proven, l)
  <2>1. MarketsOf(Proven, l) \in SUBSET Markets
    BY DEF MarketsOf
  <2> QED BY <1>2, <2>1 DEF Synced, Entries
<1>4. Rollback(e, l).enabled = {} /\ Rollback(registry[l], l).enabled = {}
  BY <1>1, <1>2, <1>3, RollbackCoherent
<1>5. Rollback(e, l) \in Entries
  BY <1>1, <1>3, DefaultTypes DEF Rollback, Entries
<1>6. Finished(r, l, Rollback(e, l), TRUE).enabled = {}
  BY <1>1, <1>4, <1>5, FinishedReadiness
<1> QED BY <1>1, <1>4, <1>6 DEF Evaluated

\* A run that has not evaluated the leagues leaves no trace in what is written.
LEMMA EarlyWrites ==
    ASSUME ActivationTypeOK, WriteInv, NEW r \in Runs, NEW s, EarlyMove(r, s),
           registry' = registry, picks' = picks, bets' = bets
    PROVE  WriteInv'
<1>1. s \in RunStates /\ Become(r, s) /\ run \in [Runs -> RunStates]
  BY DEF EarlyMove, ActivationTypeOK
<1>2. /\ run' \in [Runs -> RunStates] /\ run'[r] = After(s)
      /\ \A q \in Runs \ {r} : run'[q] = run[q]
  BY <1>1, RunMoves
<1>3. /\ After(s).activated = {} /\ After(s).rolledBack = {} /\ After(s).earlier = {}
      /\ After(s).todo = {} /\ After(s).cur = {} /\ run[r].earlier = {}
      /\ run[r].activated = {} /\ run[r].rolledBack = {} /\ run[r].pc \in Early
      /\ \A row \in Rows : picks[row] # r
  BY <1>1, AfterState DEF EarlyMove, WriteInv, WritesOwn
<1>4. \A q \in Runs : /\ run'[q].activated = run[q].activated
                      /\ run'[q].rolledBack = run[q].rolledBack
                      /\ run'[q].earlier = run[q].earlier
  BY <1>2, <1>3
<1>5. ApprovedRows' = ApprovedRows
  BY <1>4 DEF ApprovedRows
<1>6. ASSUME NEW q \in Runs PROVE WritesOwn(q)'
  <2>1. CASE q = r
    BY <1>2, <1>3, <2>1 DEF WritesOwn
  <2>2. CASE q # r
    <3>1. run'[q] = run[q] /\ WritesOwn(q)
      BY <1>2, <2>2 DEF WriteInv
    <3>2. \A x \in run[q].earlier : run'[x].pc \notin Early
      <4>1. run[q].earlier \subseteq Runs \ {r}
        BY <1>1, <1>3, <3>1 DEF WritesOwn, RunStates
      <4> QED BY <1>2, <3>1, <4>1 DEF WritesOwn
    <3>3. \A row \in run[q].todo \cup run[q].cur : MayPublish(q, row)'
      BY <1>4, <3>1, MayPublishLasts DEF WritesOwn
    <3> QED BY <1>5, <3>1, <3>2, <3>3 DEF WritesOwn
  <2> QED BY <2>1, <2>2
<1>7. WritesWereApproved'
  <2>1. \A q \in Runs : run'[q].activated # {} => run'[q].approved
    BY <1>6 DEF WritesOwn
  <2> QED BY <1>5, <2>1 DEF WriteInv, WritesWereApproved
<1>8. RolledBackReapproved' /\ RolledBackInv'
  <2>1. ASSUME NEW row \in Rows, NEW w \in Runs, picks[row] = w
        PROVE  MayPublish(w, row)'
    <3>1. MayPublish(w, row) /\ w # r
      BY <1>3, <2>1, ActivationAssumption DEF WriteInv, RolledBackReapproved
    <3> QED BY <1>2, <1>4, <3>1, MayPublishLasts
  <2>2. \A row \in Rows : picks[row] # NoRun => picks[row] \in Runs
    BY DEF ActivationTypeOK
  <2>3. RolledBackInv'
    BY <1>4, ActivatedAfterLasts DEF WriteInv, RolledBackInv
  <2> QED BY <2>1, <2>2, <2>3 DEF RolledBackReapproved
<1>9. \A l \in Leagues : \A m \in registry'[l].enabled : <<l, m>> \in ApprovedRows'
  BY <1>5 DEF WriteInv
<1> QED BY <1>6, <1>7, <1>8, <1>9 DEF WriteInv

\* The evaluation: the rows that it enables are the rows that it reports.
LEMMA EvaluateWrites ==
    ASSUME ActivationTypeOK, RegistryInv, WriteInv, NEW r \in Runs, Evaluate(r)
    PROVE  WriteInv'
<1>1. run \in [Runs -> RunStates] /\ run[r].pc \in Early
  BY DEF ActivationTypeOK, Evaluate, Early
<1>2. PICK s, faults :
              /\ s \in RunStates /\ Become(r, s)
              /\ registry' = [l \in Leagues |-> Evaluated(r, l, l \in faults)]
              /\ s.pc \in IF r \in Manuals THEN {"persist", "release"} ELSE {"release"}
              /\ s.approved = run[r].approved
              /\ s.todo = run[r].todo /\ s.cur = run[r].cur
              /\ s.found = Collected(r, faults)
              /\ s.rolledBack = faults /\ s.activated = Given(r, faults)
              /\ s.earlier = Promoters /\ faults \subseteq Tested(r)
  BY EvaluateMoves
<1>3. s.pc # "over" /\ s.pc \notin Early
  BY <1>2 DEF Early
<1>4. run'[r] = s /\ \A q \in Runs \ {r} : run'[q] = run[q]
  BY <1>1, <1>2, <1>3, RunMoves, AfterState
<1>5. /\ run[r].activated = {} /\ run[r].rolledBack = {} /\ s.todo = {} /\ s.cur = {}
      /\ \A row \in Rows : picks[row] # r
  BY <1>1, <1>2 DEF WriteInv, WritesOwn
<1>6. picks' = picks /\ bets' = bets
  BY DEF Evaluate
<1>7. \A q \in Runs : run[q].activated \subseteq run'[q].activated
  BY <1>4, <1>5
<1>8. ApprovedRows \subseteq ApprovedRows'
  BY <1>7, ApprovedGrows
<1>9. \A q \in Runs \ {r} : r \notin run[q].earlier
  BY <1>1 DEF WriteInv, WritesOwn
<1>10. Given(r, faults) \subseteq ApprovedRows'
  BY <1>2, <1>4 DEF ApprovedRows
<1>11. ASSUME NEW q \in Runs PROVE WritesOwn(q)'
  <2>1. CASE q = r
    <3>1. \A row \in s.found : row[1] \notin s.rolledBack
      BY <1>2 DEF Collected
    <3>2. s.activated # {} => s.approved
      BY <1>2 DEF Given, Promotes
    <3>3. \A x \in s.earlier : run'[x].pc \notin Early
      <4>1. \A x \in Promoters : run[x].pc \notin Early /\ x \in Runs
        BY DEF Promoters, WriteInv, WritesOwn
      <4> QED BY <1>2, <1>3, <1>4, <4>1
    <3> QED BY <1>3, <1>4, <1>5, <2>1, <3>1, <3>2, <3>3 DEF WritesOwn
  <2>2. CASE q # r
    <3>1. run'[q] = run[q] /\ WritesOwn(q)
      BY <1>4, <2>2 DEF WriteInv
    <3>2. \A x \in run[q].earlier : run'[x].pc \notin Early
      <4>1. run[q].earlier \subseteq Runs
        BY <1>1 DEF RunStates
      <4> QED BY <1>3, <1>4, <3>1, <4>1 DEF WritesOwn
    <3>3. \A row \in run[q].todo \cup run[q].cur : MayPublish(q, row)'
      BY <1>7, <3>1, MayPublishLasts DEF WritesOwn
    <3> QED BY <1>6, <1>8, <3>1, <3>2, <3>3 DEF WritesOwn
  <2> QED BY <2>1, <2>2
<1>12. WritesWereApproved'
  <2>1. \A q \in Runs : run'[q].activated # {} => run'[q].approved
    BY <1>11 DEF WritesOwn
  <2> QED BY <1>6, <1>8, <2>1 DEF WriteInv, WritesWereApproved
<1>13. RolledBackReapproved'
  <2>1. ASSUME NEW row \in Rows, NEW w \in Runs, picks[row] = w
        PROVE  MayPublish(w, row)'
    <3>1. MayPublish(w, row) /\ run'[w] = run[w]
      BY <1>4, <1>5, <2>1, ActivationAssumption DEF WriteInv, RolledBackReapproved
    <3> QED BY <1>7, <3>1, MayPublishLasts
  <2>2. \A row \in Rows : picks[row] # NoRun => picks[row] \in Runs
    BY DEF ActivationTypeOK
  <2> QED BY <1>6, <2>1, <2>2 DEF RolledBackReapproved
<1>14. ASSUME NEW l \in Leagues, NEW m \in registry'[l].enabled
       PROVE  /\ <<l, m>> \in ApprovedRows'
              /\ l \notin faults
              /\ m \in registry[l].enabled \/ <<l, m>> \in run'[r].activated
  <2> DEFINE fault == l \in faults
  <2>1. registry'[l] = Evaluated(r, l, fault)
    BY <1>2
  <2>2. fault \in BOOLEAN
    OBVIOUS
  <2>3. Coherent(registry[l], l)
    BY RegistryInvMeans
  <2>4. fault <=> l \in faults
    OBVIOUS
  <2> HIDE DEF fault
  <2>5. m \in registry[l].enabled \/ (Promotes(r, l) /\ ~fault /\ m \in Candidates(r, l))
    BY <2>1, <2>2, <2>3, EvaluatedEntry
  <2>6. ~fault
    <3>1. fault => Evaluated(r, l, fault).enabled = {}
      BY <1>2, <2>2, <2>4, FaultDisables
    <3> QED BY <2>1, <3>1
  <2>7. CASE m \in registry[l].enabled
    BY <1>8, <2>4, <2>7, <2>6 DEF WriteInv
  <2>8. CASE Promotes(r, l) /\ ~fault /\ m \in Candidates(r, l)
    <3>1. <<l, m>> \in Rows
      BY <2>8, CandidatesProven DEF Rows
    <3>2. <<l, m>> \in Given(r, faults)
      BY <2>4, <2>8, <3>1 DEF Given
    <3> QED BY <1>2, <1>4, <1>10, <2>4, <2>6, <3>2
  <2> QED BY <2>5, <2>7, <2>8
<1>15. RolledBackInv'
  <2> SUFFICES ASSUME NEW q \in Runs, NEW l \in run'[q].rolledBack,
                      NEW m \in registry'[l].enabled
               PROVE  ActivatedAfter(q, <<l, m>>)'
    BY DEF RolledBackInv
  <2>1. q # r /\ l \in Leagues
    <3>1. l \in Leagues
      BY <1>1, <1>2, <1>4 DEF RunStates, Tested
    <3> QED BY <1>2, <1>4, <1>14, <3>1
  <2>2. run'[q] = run[q]
    BY <1>4, <2>1
  <2>3. CASE m \in registry[l].enabled
    <3>1. ActivatedAfter(q, <<l, m>>)
      BY <2>2, <2>3 DEF WriteInv, RolledBackInv
    <3> QED BY <1>7, <2>2, <3>1, ActivatedAfterLasts
  <2>4. CASE <<l, m>> \in run'[r].activated
    BY <1>9, <2>1, <2>2, <2>4 DEF ActivatedAfter
  <2> QED BY <1>14, <2>1, <2>3, <2>4
<1> QED BY <1>11, <1>12, <1>13, <1>14, <1>15 DEF WriteInv

\* A later step writes only rows that its run had to write.
LEMMA LateWrites ==
    ASSUME ActivationTypeOK, WriteInv, NEW r \in Runs, NEW s, LateMove(r, s),
           s.todo \cup s.cur \subseteq ApprovedRows,
           \A row \in s.todo \cup s.cur : MayPublish(r, row),
           bets' \subseteq ApprovedRows,
           NEW new, new \subseteq run[r].todo,
           \A row \in Rows : picks'[row] = IF row \in new THEN r ELSE picks[row]
    PROVE  WriteInv'
<1>1. s \in RunStates /\ Become(r, s) /\ run \in [Runs -> RunStates]
  BY DEF LateMove, ActivationTypeOK
<1>2. run'[r] = After(s) /\ \A q \in Runs \ {r} : run'[q] = run[q]
  BY <1>1, RunMoves
<1>3. /\ After(s).activated = run[r].activated /\ After(s).rolledBack = run[r].rolledBack
      /\ After(s).approved = run[r].approved /\ After(s).pc \notin Early
      /\ After(s).earlier = run[r].earlier
      /\ \/ After(s).found \subseteq run[r].found /\ After(s).discovered = run[r].discovered
         \/ After(s).discovered
      /\ After(s).todo \subseteq s.todo /\ After(s).cur \subseteq s.cur
  BY <1>1, AfterState DEF LateMove
<1>4. \A q \in Runs : /\ run'[q].activated = run[q].activated
                      /\ run'[q].rolledBack = run[q].rolledBack
                      /\ run'[q].earlier = run[q].earlier
                      /\ run[q].discovered => run'[q].discovered
                      /\ run'[q].pc \in Early => run[q].pc \in Early
  BY <1>2, <1>3
<1>5. ApprovedRows' = ApprovedRows
  BY <1>4 DEF ApprovedRows
<1>6. WritesOwn(r) /\ new \subseteq ApprovedRows
      /\ \A row \in new : MayPublish(r, row)
  BY DEF WriteInv, WritesOwn
<1>7. ASSUME NEW q \in Runs PROVE WritesOwn(q)'
  <2>3. \A x \in run'[q].earlier : run'[x].pc \notin Early
    <3>1. run[q].earlier \subseteq Runs
      BY <1>1 DEF RunStates
    <3> QED BY <1>4, <3>1 DEF WriteInv, WritesOwn
  <2>1. CASE q = r
    <3>1. ~After(s).discovered => \A row \in After(s).found : row[1] \notin run[r].rolledBack
      BY <1>3, <1>6 DEF WritesOwn
    <3>4. \A row \in After(s).todo \cup After(s).cur : MayPublish(r, row)'
      BY <1>3, <1>4, MayPublishLasts
    <3>2. After(s).todo \cup After(s).cur \subseteq ApprovedRows
      BY <1>3
    <3>3. run[r].activated # {} => run[r].approved
      BY <1>6 DEF WritesOwn
    <3> QED BY <1>2, <1>3, <1>5, <2>1, <2>3, <3>1, <3>2, <3>3, <3>4 DEF WritesOwn
  <2>2. CASE q # r
    <3>1. run'[q] = run[q] /\ WritesOwn(q)
      BY <1>2, <2>2 DEF WriteInv
    <3>2. run[q].pc \in Early => \A row \in Rows : picks'[row] # q
      BY <2>2, <3>1 DEF WritesOwn
    <3>3. \A row \in run[q].todo \cup run[q].cur : MayPublish(q, row)'
      BY <1>4, <3>1, MayPublishLasts DEF WritesOwn
    <3> QED BY <1>5, <2>3, <3>1, <3>2, <3>3 DEF WritesOwn
  <2> QED BY <2>1, <2>2
<1>8. WritesWereApproved'
  <2>1. \A q \in Runs : run'[q].activated # {} => run'[q].approved
    BY <1>7 DEF WritesOwn
  <2>2. \A row \in Rows : picks'[row] # NoRun => row \in ApprovedRows
    BY <1>6 DEF WriteInv, WritesWereApproved
  <2> QED BY <1>5, <2>1, <2>2 DEF WriteInv, WritesWereApproved
<1>9. RolledBackReapproved'
  <2>1. ASSUME NEW row \in Rows, NEW w \in Runs, picks'[row] = w
        PROVE  MayPublish(w, row)'
    <3>1. MayPublish(w, row)
      <4>1. CASE row \in new
        BY <1>6, <2>1, <4>1
      <4>2. CASE row \notin new
        BY <2>1, <4>2, ActivationAssumption DEF WriteInv, RolledBackReapproved
      <4> QED BY <4>1, <4>2
    <3> QED BY <1>4, <3>1, MayPublishLasts
  <2>2. \A row \in Rows : picks'[row] # NoRun => picks'[row] \in Runs
    BY DEF ActivationTypeOK
  <2> QED BY <2>1, <2>2 DEF RolledBackReapproved
<1>10. \A l \in Leagues : \A m \in registry'[l].enabled : <<l, m>> \in ApprovedRows'
  BY <1>5 DEF WriteInv, LateMove
<1>11. RolledBackInv'
  BY <1>4, ActivatedAfterLasts DEF WriteInv, RolledBackInv, LateMove
<1> QED BY <1>7, <1>8, <1>9, <1>10, <1>11 DEF WriteInv

\* What ends or waits keeps what it reported.
LEMMA WorldWrites ==
    ASSUME ActivationTypeOK, WriteInv, picks' = picks, bets' = bets,
           \/ registry' = registry
           \/ registry' = [l \in Leagues |-> DefaultEntry(l)],
           \A q \in Runs : \/ run'[q] = run[q]
                           \/ run'[q] = Ended(run[q]) /\ Running(q)
                           \/ run'[q] = [run[q] EXCEPT !.age = Older(@)]
    PROVE  WriteInv'
<1>1. ASSUME NEW q \in Runs
      PROVE  /\ run'[q].activated = run[q].activated
             /\ run'[q].rolledBack = run[q].rolledBack
             /\ run'[q].approved = run[q].approved
             /\ run'[q].discovered = run[q].discovered /\ run'[q].earlier = run[q].earlier
             /\ run'[q].found \subseteq run[q].found
             /\ run'[q].todo \subseteq run[q].todo /\ run'[q].cur \subseteq run[q].cur
             /\ run'[q].pc \in Early => run[q].pc \in Early
  <2>1. run[q] \in RunStates
    BY DEF ActivationTypeOK
  <2>2. CASE run'[q] = run[q]
    BY <2>2
  <2>3. CASE run'[q] = Ended(run[q])
    BY <2>3 DEF Ended, IdleRun, Early
  <2>4. CASE run'[q] = [run[q] EXCEPT !.age = Older(@)]
    BY <2>1, <2>4 DEF RunStates
  <2> QED BY <2>2, <2>3, <2>4
<1>2. ApprovedRows' = ApprovedRows
  BY <1>1 DEF ApprovedRows
<1>3. ASSUME NEW q \in Runs PROVE WritesOwn(q)'
  <2>1. WritesOwn(q)
    BY DEF WriteInv
  <2>2. \A x \in run'[q].earlier : run'[x].pc \notin Early
    <3>1. run[q].earlier \subseteq Runs
      BY DEF ActivationTypeOK, RunStates
    <3> QED BY <1>1, <2>1, <3>1 DEF WritesOwn
  <2>3. \A row \in run[q].todo \cup run[q].cur : MayPublish(q, row)'
    BY <1>1, <2>1, MayPublishLasts DEF WritesOwn
  <2>4. \A row \in run'[q].todo \cup run'[q].cur : MayPublish(q, row)'
    BY <1>1, <2>3
  <2> QED BY <1>1, <1>2, <2>1, <2>2, <2>4 DEF WritesOwn
<1>4. WritesWereApproved'
  <2>1. \A q \in Runs : run'[q].activated # {} => run'[q].approved
    BY <1>3 DEF WritesOwn
  <2> QED BY <1>2, <2>1 DEF WriteInv, WritesWereApproved
<1>5. RolledBackReapproved'
  <2>1. ASSUME NEW row \in Rows, NEW w \in Runs, picks[row] = w
        PROVE  MayPublish(w, row)'
    <3>1. MayPublish(w, row)
      BY <2>1, ActivationAssumption DEF WriteInv, RolledBackReapproved
    <3> QED BY <1>1, <3>1, MayPublishLasts
  <2>2. \A row \in Rows : picks[row] # NoRun => picks[row] \in Runs
    BY DEF ActivationTypeOK
  <2> QED BY <2>1, <2>2 DEF RolledBackReapproved
<1>6. /\ \A l \in Leagues : \A m \in registry'[l].enabled : <<l, m>> \in ApprovedRows'
      /\ RolledBackInv'
  <2>1. CASE registry' = registry
    BY <1>1, <1>2, <2>1, ActivatedAfterLasts DEF WriteInv, RolledBackInv
  <2>2. CASE registry' = [l \in Leagues |-> DefaultEntry(l)]
    <3>1. \A l \in Leagues : registry'[l].enabled = {}
      BY <2>2 DEF DefaultEntry
    <3>2. \A q \in Runs : run'[q].rolledBack \subseteq Leagues
      BY <1>1 DEF ActivationTypeOK, RunStates
    <3> QED BY <3>1, <3>2 DEF RolledBackInv
  <2> QED BY <2>1, <2>2
<1> QED BY <1>3, <1>4, <1>5, <1>6 DEF WriteInv

-----------------------------------------------------------------------------
(* Every step *)

\* The step of a run before the evaluation.
LEMMA EarlyKeeps ==
    ASSUME ActivationInv, NEW r \in Runs,
           \/ AskGate(r) \/ Call(r) \/ Detect(r) \/ Ingest(r) \/ Fail(r)
    PROVE  ActivationInv'
<1>1. ActivationTypeOK /\ LockInv /\ RegistryInv /\ WriteInv
  BY DEF ActivationInv
<1>2. PICK s : EarlyMove(r, s)
  BY <1>1, AskGateMoves, CallMoves, DetectMoves, IngestMoves, FailMoves
<1>3. /\ registry' = registry /\ picks' = picks /\ bets' = bets /\ boots' = boots
      /\ \/ lock' \in {lock, Swept(lock), Freed(lock, r)}
         \/ lock' = [holder |-> r, age |-> 0]
  BY DEF AskGate, Call, Detect, Ingest, Fail
<1>4. /\ lock \in Locks /\ registry \in [Leagues -> Entries]
      /\ picks \in [Rows -> Runs \cup {NoRun}] /\ bets \subseteq Rows
      /\ boots \in 0 .. MaxBoots
  BY <1>1 DEF ActivationTypeOK
<1>5. lock' \in Locks
  BY <1>3, <1>4, LockTypes
<1>6. ActivationTypeOK'
  BY <1>1, <1>2, <1>3, <1>4, <1>5, TypeMoves DEF EarlyMove
<1>7. LockInv'
  BY <1>1, EarlyLock
<1>8. RegistryInv'
  BY <1>1, <1>3, <1>6, RegistryKeeps
<1>9. WriteInv'
  BY <1>1, <1>2, <1>3, EarlyWrites
<1> QED BY <1>6, <1>7, <1>8, <1>9 DEF ActivationInv

LEMMA EvaluateKeeps ==
    ASSUME ActivationInv, NEW r \in Runs, Evaluate(r)
    PROVE  ActivationInv'
<1>1. ActivationTypeOK /\ LockInv /\ RegistryInv /\ WriteInv
  BY DEF ActivationInv
<1>2. PICK s, faults :
         /\ s \in RunStates /\ Become(r, s)
         /\ registry' = [l \in Leagues |-> Evaluated(r, l, l \in faults)]
         /\ s.pc \in IF r \in Manuals THEN {"persist", "release"} ELSE {"release"}
         /\ s.odds = {}
  BY <1>1, EvaluateMoves
<1>3. ASSUME NEW l \in Leagues PROVE registry'[l] \in Entries
  <2> DEFINE fault == l \in faults
  <2>1. fault \in BOOLEAN
    OBVIOUS
  <2>2. registry'[l] = Evaluated(r, l, fault)
    BY <1>2
  <2> HIDE DEF fault
  <2> QED BY <1>1, <2>1, <2>2, EntryTypes
<1>4. registry' \in [Leagues -> Entries]
  BY <1>2, <1>3
<1>5. lock' = lock /\ picks' = picks /\ bets' = bets /\ boots' = boots
  BY DEF Evaluate
<1>6. s.pc # "ingest"
  BY <1>2
<1>7. ActivationTypeOK'
  <2>1. /\ lock' \in Locks /\ picks' \in [Rows -> Runs \cup {NoRun}] /\ bets' \subseteq Rows
        /\ boots' \in 0 .. MaxBoots
    BY <1>1, <1>5 DEF ActivationTypeOK
  <2> QED BY <1>1, <1>2, <1>4, <1>6, <2>1, TypeMoves
<1>8. RegistryInv'
  BY <1>1, <1>2, <1>7, RegistryKeeps
<1> QED BY <1>1, <1>7, <1>8, EvaluateLock, EvaluateWrites DEF ActivationInv

\* The types of a step after the evaluation.
LEMMA LateTypes ==
    ASSUME ActivationTypeOK, NEW r \in Runs, NEW s, LateMove(r, s), lock' \in Locks,
           picks' \in [Rows -> Runs \cup {NoRun}], bets' \subseteq Rows, boots' = boots
    PROVE  ActivationTypeOK'
<1>1. /\ s \in RunStates /\ Become(r, s)
      /\ s.odds # {} \/ s.pc = "ingest" => s.available
  BY DEF LateMove, Early
<1>2. registry' \in [Leagues -> Entries] /\ boots' \in 0 .. MaxBoots
  BY DEF LateMove, ActivationTypeOK
<1> QED BY <1>1, <1>2, TypeMoves

LEMMA ReleaseKeeps ==
    ASSUME ActivationInv, NEW r \in Runs, Release(r)
    PROVE  ActivationInv'
<1>1. ActivationTypeOK /\ LockInv /\ RegistryInv /\ WriteInv
  BY DEF ActivationInv
<1>2. PICK s : /\ LateMove(r, s) /\ s.todo = run[r].todo /\ s.cur = run[r].cur
               /\ s.pc \in {"discover", "persist", "over"} /\ (r \in Manuals => s.pc = "over")
  BY <1>1, ReleaseMoves
<1>3. /\ picks' = picks /\ bets' = bets /\ boots' = boots /\ lock' = Freed(lock, r)
      /\ run[r].pc \in Inside
  BY DEF Release, Inside
<1>4. lock \in Locks /\ picks \in [Rows -> Runs \cup {NoRun}] /\ bets \subseteq Rows
  BY <1>1 DEF ActivationTypeOK
<1>5. lock' \in Locks
  BY <1>3, <1>4, LockTypes
<1>6. ActivationTypeOK'
  BY <1>1, <1>2, <1>3, <1>4, <1>5, LateTypes
<1>7. LockInv'
  <2>1. r \in Crons \/ s.pc \notin Inside \cup Writing
    BY <1>2 DEF Runs, Inside, Writing
  <2>2. lock' = lock \/ lock.holder = r
    BY <1>3, FreedLock
  <2> QED BY <1>1, <1>2, <1>3, <2>1, <2>2, LateWorking
<1>8. RegistryInv'
  BY <1>1, <1>2, <1>6, RegistryKeeps DEF LateMove
<1>9. WriteInv'
  <2>1. /\ s.todo \cup s.cur \subseteq ApprovedRows
        /\ \A row \in s.todo \cup s.cur : MayPublish(r, row)
        /\ bets' \subseteq ApprovedRows
    BY <1>1, <1>2, <1>3 DEF WriteInv, WritesOwn, WritesWereApproved
  <2>2. \A row \in Rows : picks'[row] = IF row \in {} THEN r ELSE picks[row]
    BY <1>3
  <2>3. LateMove(r, s)
    BY <1>2
  <2> DEFINE new == {}
  <2>4. new \subseteq run[r].todo /\ \A row \in Rows :
           picks'[row] = IF row \in new THEN r ELSE picks[row]
    BY <2>2
  <2> HIDE DEF new
  <2> QED BY <1>1, <2>1, <2>3, <2>4, LateWrites
<1> QED BY <1>6, <1>7, <1>8, <1>9 DEF ActivationInv

LEMMA DiscoverKeeps ==
    ASSUME ActivationInv, NEW r \in Runs, Discover(r)
    PROVE  ActivationInv'
<1>1. ActivationTypeOK /\ LockInv /\ RegistryInv /\ WriteInv
  BY DEF ActivationInv
<1>2. PICK s : /\ LateMove(r, s) /\ s.todo = run[r].todo /\ s.cur = run[r].cur
               /\ s.pc = "persist"
  BY <1>1, DiscoverMoves
<1>3. picks' = picks /\ bets' = bets /\ boots' = boots /\ lock' = lock /\ r \in Crons
  BY DEF Discover
<1>4. lock \in Locks /\ picks \in [Rows -> Runs \cup {NoRun}] /\ bets \subseteq Rows
  BY <1>1 DEF ActivationTypeOK
<1>5. ActivationTypeOK'
  BY <1>1, <1>2, <1>3, <1>4, LateTypes
<1>6. LockInv'
  <2>1. s \in RunStates /\ Become(r, s) /\ s.age = run[r].age
    BY <1>2 DEF LateMove
  <2>2. run'[r].pc = "persist"
    BY <1>1, <1>2, <2>1, RunMoves, AfterState DEF ActivationTypeOK
  <2>3. ~(Working(r)')
    BY <1>3, <2>2, ActivationAssumption DEF Working, Inside
  <2>4. HoldsLock(r)'
    BY <1>1, <1>2, <2>1, <2>3, NotWorking
  <2> QED BY <1>1, <1>3, <2>1, <2>4, LockMoves
<1>7. RegistryInv'
  BY <1>1, <1>2, <1>5, RegistryKeeps DEF LateMove
<1>8. WriteInv'
  <2>1. /\ s.todo \cup s.cur \subseteq ApprovedRows
        /\ \A row \in s.todo \cup s.cur : MayPublish(r, row)
        /\ bets' \subseteq ApprovedRows
    BY <1>1, <1>2, <1>3 DEF WriteInv, WritesOwn, WritesWereApproved
  <2>2. LateMove(r, s)
    BY <1>2
  <2> DEFINE new == {}
  <2>3. new \subseteq run[r].todo /\ \A row \in Rows :
           picks'[row] = IF row \in new THEN r ELSE picks[row]
    BY <1>3
  <2> HIDE DEF new
  <2> QED BY <1>1, <2>1, <2>2, <2>3, LateWrites
<1> QED BY <1>5, <1>6, <1>7, <1>8 DEF ActivationInv

LEMMA PersistKeeps ==
    ASSUME ActivationInv, NEW r \in Runs, Persist(r)
    PROVE  ActivationInv'
<1>1. ActivationTypeOK /\ LockInv /\ RegistryInv /\ WriteInv
  BY DEF ActivationInv
<1>2. PICK s : /\ LateMove(r, s) /\ s.cur = {} /\ s.pc \in {"write", "release", "over"}
               /\ s.todo \subseteq {row \in run[r].found : Enabled(row)}
  BY <1>1, PersistMoves
<1>3. /\ picks' = picks /\ bets' = bets /\ boots' = boots /\ lock' = lock
      /\ run[r].pc \in Writing
  BY DEF Persist, Writing
<1>4. lock \in Locks /\ picks \in [Rows -> Runs \cup {NoRun}] /\ bets \subseteq Rows
  BY <1>1 DEF ActivationTypeOK
<1>5. ActivationTypeOK'
  BY <1>1, <1>2, <1>3, <1>4, LateTypes
<1>6. LockInv'
  BY <1>1, <1>2, <1>3, LateWorking
<1>7. RegistryInv'
  BY <1>1, <1>2, <1>5, RegistryKeeps DEF LateMove
<1>8. WriteInv'
  <2>1. s.todo \subseteq ApprovedRows
    <3>1. ASSUME NEW row \in s.todo PROVE row \in ApprovedRows
      <4>1. row \in run[r].found /\ row[2] \in registry[row[1]].enabled
        BY <1>2 DEF Enabled
      <4>2. run[r].found \subseteq Rows
        BY <1>1 DEF ActivationTypeOK, RunStates
      <4>3. row[1] \in Leagues /\ row = <<row[1], row[2]>>
        BY <4>1, <4>2 DEF Rows
      <4> QED BY <1>1, <4>1, <4>3 DEF WriteInv
    <3> QED BY <3>1
  <2>2. ASSUME NEW row \in s.todo \cup s.cur PROVE MayPublish(r, row)
    <3>1. row \in run[r].found /\ row[2] \in registry[row[1]].enabled
      BY <1>2 DEF Enabled
    <3>2. run[r].found \subseteq Rows
      BY <1>1 DEF ActivationTypeOK, RunStates
    <3>3. row = <<row[1], row[2]>>
      BY <3>1, <3>2 DEF Rows
    <3>4. row[1] \in run[r].rolledBack => run[r].discovered
      BY <1>1, <3>1 DEF WriteInv, WritesOwn
    <3>5. row[1] \in run[r].rolledBack => ActivatedAfter(r, row)
      BY <1>1, <3>1, <3>3 DEF WriteInv, RolledBackInv
    <3> QED BY <3>4, <3>5 DEF MayPublish
  <2>3. bets' \subseteq ApprovedRows
    BY <1>1, <1>3 DEF WriteInv, WritesWereApproved
  <2>4. \A row \in Rows : picks'[row] = IF row \in {} THEN r ELSE picks[row]
    BY <1>3
  <2> QED BY <1>1, <1>2, <2>1, <2>2, <2>3, <2>4, LateWrites
<1> QED BY <1>5, <1>6, <1>7, <1>8 DEF ActivationInv

LEMMA WritePickKeeps ==
    ASSUME ActivationInv, NEW r \in Runs, NEW done \in BOOLEAN, WritePick(r, done)
    PROVE  ActivationInv'
<1>1. ActivationTypeOK /\ LockInv /\ RegistryInv /\ WriteInv
  BY DEF ActivationInv
<1>2. PICK s, row : /\ LateMove(r, s) /\ s.pc = "bet" /\ row \in run[r].todo
                    /\ s.cur = {row} /\ s.todo = run[r].todo \ {row}
                    /\ picks' = IF done THEN [picks EXCEPT ![row] = r] ELSE picks
  BY <1>1, WritePickMoves
<1>3. bets' = bets /\ boots' = boots /\ lock' = lock /\ run[r].pc \in Writing
  BY DEF WritePick, Writing
<1>4. lock \in Locks /\ picks \in [Rows -> Runs \cup {NoRun}] /\ bets \subseteq Rows
  BY <1>1 DEF ActivationTypeOK
<1>5. row \in Rows
  BY <1>1, <1>2 DEF ActivationTypeOK, RunStates
<1>6. ActivationTypeOK'
  <2>1. picks' \in [Rows -> Runs \cup {NoRun}]
    BY <1>2, <1>4, <1>5
  <2> QED BY <1>1, <1>2, <1>3, <1>4, <2>1, LateTypes
<1>7. LockInv'
  BY <1>1, <1>2, <1>3, LateWorking
<1>8. RegistryInv'
  BY <1>1, <1>2, <1>6, RegistryKeeps DEF LateMove
<1>9. WriteInv'
  <2> DEFINE new == IF done THEN {row} ELSE {}
  <2>1. new \subseteq run[r].todo
    BY <1>2
  <2>2. \A x \in Rows : picks'[x] = IF x \in new THEN r ELSE picks[x]
    BY <1>2, <1>4, <1>5
  <2>3. s.todo \cup s.cur \subseteq run[r].todo
    BY <1>2
  <2>4. /\ s.todo \cup s.cur \subseteq ApprovedRows
        /\ \A x \in s.todo \cup s.cur : MayPublish(r, x)
        /\ bets' \subseteq ApprovedRows
    BY <1>1, <1>3, <2>3 DEF WriteInv, WritesOwn, WritesWereApproved
  <2> HIDE DEF new
  <2> QED BY <1>1, <1>2, <2>1, <2>2, <2>4, LateWrites
<1> QED BY <1>6, <1>7, <1>8, <1>9 DEF ActivationInv

LEMMA WriteBetKeeps ==
    ASSUME ActivationInv, NEW r \in Runs, NEW done \in BOOLEAN, WriteBet(r, done)
    PROVE  ActivationInv'
<1>1. ActivationTypeOK /\ LockInv /\ RegistryInv /\ WriteInv
  BY DEF ActivationInv
<1>2. PICK s : /\ LateMove(r, s) /\ s.todo = run[r].todo /\ s.cur = {}
               /\ s.pc \in {"write", "release", "over"}
  BY <1>1, WriteBetMoves
<1>3. /\ picks' = picks /\ boots' = boots /\ lock' = lock /\ run[r].pc \in Writing
      /\ bets' \subseteq bets \cup run[r].cur
  BY DEF WriteBet, Writing
<1>4. /\ lock \in Locks /\ picks \in [Rows -> Runs \cup {NoRun}] /\ bets \subseteq Rows
      /\ run[r].cur \subseteq Rows
  BY <1>1 DEF ActivationTypeOK, RunStates
<1>5. ActivationTypeOK'
  BY <1>1, <1>2, <1>3, <1>4, LateTypes
<1>6. LockInv'
  BY <1>1, <1>2, <1>3, LateWorking
<1>7. RegistryInv'
  BY <1>1, <1>2, <1>5, RegistryKeeps DEF LateMove
<1>8. WriteInv'
  <2>1. /\ s.todo \cup s.cur \subseteq ApprovedRows
        /\ \A row \in s.todo \cup s.cur : MayPublish(r, row)
        /\ bets' \subseteq ApprovedRows
    BY <1>1, <1>2, <1>3 DEF WriteInv, WritesOwn, WritesWereApproved
  <2>2. \A row \in Rows : picks'[row] = IF row \in {} THEN r ELSE picks[row]
    BY <1>3
  <2> QED BY <1>1, <1>2, <2>1, <2>2, LateWrites
<1> QED BY <1>5, <1>6, <1>7, <1>8 DEF ActivationInv

\* Types after a step of the world: runs wait, end or stay as they are.
LEMMA WorldTypes ==
    ASSUME ActivationTypeOK, NEW q \in Runs, run'[q] \in RunStates,
           \/ run'[q] = run[q]
           \/ run'[q] = Ended(run[q])
           \/ run'[q] = [run[q] EXCEPT !.age = Older(@)]
    PROVE  run'[q].odds # {} \/ run'[q].pc = "ingest" => run'[q].available
<1>1. run[q] \in RunStates
  BY DEF ActivationTypeOK
<1>2. run[q].odds # {} \/ run[q].pc = "ingest" => run[q].available
  BY DEF ActivationTypeOK
<1>3. CASE run'[q] = run[q]
  BY <1>2, <1>3
<1>4. CASE run'[q] = Ended(run[q])
  BY <1>4 DEF Ended, IdleRun
<1>5. CASE run'[q] = [run[q] EXCEPT !.age = Older(@)]
  BY <1>1, <1>2, <1>5 DEF RunStates
<1> QED BY <1>3, <1>4, <1>5

LEMMA TickKeeps ==
    ASSUME ActivationInv, Tick
    PROVE  ActivationInv'
<1>1. ActivationTypeOK /\ LockInv /\ RegistryInv /\ WriteInv
  BY DEF ActivationInv
<1>2. registry' = registry /\ picks' = picks /\ bets' = bets /\ boots' = boots
  BY DEF Tick
<1>3. \A q \in Runs : /\ run'[q] \in RunStates
                      /\ \/ run'[q] = run[q]
                         \/ run'[q] = Ended(run[q]) /\ Running(q)
                         \/ run'[q] = [run[q] EXCEPT !.age = Older(@)]
  BY <1>1, TickMoves
<1>4. ActivationTypeOK'
  <2>1. run' \in [Runs -> RunStates]
    <3>1. DOMAIN run' = Runs /\ run' = [q \in Runs |-> run'[q]]
      BY DEF Tick
    <3> QED BY <1>3, <3>1
  <2>2. lock' \in Locks
    <3>1. lock \in Locks /\ TTL \in Nat
      BY <1>1, ActivationAssumption DEF ActivationTypeOK
    <3>2. lock' = [lock EXCEPT !.age = IF lock.holder = NoRun THEN 0 ELSE Older(@)]
      BY DEF Tick
    <3>3. lock.age \in 0 .. TTL
      BY <3>1 DEF Locks
    <3>4. Older(lock.age) \in 0 .. TTL /\ 0 \in 0 .. TTL
      BY <3>1, <3>3 DEF Older
    <3> QED BY <3>1, <3>2, <3>4 DEF Locks
  <2>3. \A q \in Runs : run'[q].odds # {} \/ run'[q].pc = "ingest" => run'[q].available
    BY <1>1, <1>3, WorldTypes
  <2> QED BY <1>1, <1>2, <2>1, <2>2, <2>3 DEF ActivationTypeOK
<1>5. RegistryInv'
  BY <1>1, <1>2, <1>4, RegistryKeeps
<1>6. WriteInv'
  BY <1>1, <1>2, <1>3, WorldWrites
<1> QED BY <1>1, <1>4, <1>5, <1>6, TickLock DEF ActivationInv

LEMMA RestartKeeps ==
    ASSUME ActivationInv, Restart
    PROVE  ActivationInv'
<1>1. ActivationTypeOK /\ LockInv /\ RegistryInv /\ WriteInv
  BY DEF ActivationInv
<1>2. /\ registry' = [l \in Leagues |-> DefaultEntry(l)] /\ picks' = picks /\ bets' = bets
      /\ lock' = FreeLock /\ boots' = boots + 1 /\ boots < MaxBoots
  BY DEF Restart
<1>3. \A q \in Runs : /\ run'[q] \in RunStates
                      /\ \/ run'[q] = run[q]
                         \/ run'[q] = Ended(run[q]) /\ Running(q)
  BY <1>1, RestartMoves
<1>4. ActivationTypeOK'
  <2>1. run' \in [Runs -> RunStates]
    <3>1. DOMAIN run' = Runs /\ run' = [q \in Runs |-> run'[q]]
      BY DEF Restart
    <3> QED BY <1>3, <3>1
  <2>2. lock' \in Locks /\ registry' \in [Leagues -> Entries]
    <3>1. FreeLock \in Locks
      BY ActivationAssumption DEF FreeLock, Locks
    <3> QED BY <1>2, <3>1, DefaultTypes
  <2>3. boots' \in 0 .. MaxBoots
    <3>1. boots \in 0 .. MaxBoots /\ MaxBoots \in Nat
      BY <1>1, ActivationAssumption DEF ActivationTypeOK
    <3> QED BY <1>2, <3>1
  <2>4. \A q \in Runs : run'[q].odds # {} \/ run'[q].pc = "ingest" => run'[q].available
    BY <1>1, <1>3, WorldTypes
  <2> QED BY <1>1, <1>2, <2>1, <2>2, <2>3, <2>4 DEF ActivationTypeOK
<1>5. RegistryInv'
  BY <1>1, <1>2, <1>4, RegistryKeeps
<1>6. WriteInv'
  BY <1>1, <1>2, <1>3, WorldWrites
<1> QED BY <1>1, <1>4, <1>5, <1>6, RestartLock DEF ActivationInv

LEMMA ActivationStutters ==
    ASSUME ActivationInv, UNCHANGED activationVars
    PROVE  ActivationInv'
BY DEF ActivationInv, activationVars, ActivationTypeOK, LockInv, HoldsLock, Working, Outlived,
       RegistryInv, RegistryCoherent, WriteInv, WritesOwn, ApprovedRows,
       WritesWereApproved, RolledBackReapproved, RolledBackInv, MayPublish, ActivatedAfter

LEMMA ActivationInitial == ActivationInit => ActivationInv
<1> SUFFICES ASSUME ActivationInit PROVE ActivationInv
  OBVIOUS
<1> USE DEF ActivationInit
<1>1. /\ IdleRun \in RunStates /\ FreeLock \in Locks
      /\ \A l \in Leagues : DefaultEntry(l) \in Entries
  BY IdleIsState, DefaultTypes, ActivationAssumption DEF FreeLock, Locks
<1>2. \A q \in Runs : /\ run[q].pc = "idle" /\ ~run[q].available /\ run[q].age = 0
                      /\ run[q].odds = {} /\ run[q].found = {} /\ run[q].todo = {}
                      /\ run[q].cur = {} /\ run[q].activated = {} /\ run[q].rolledBack = {}
                      /\ run[q].earlier = {}
  BY DEF IdleRun
<1>3. ActivationTypeOK
  BY <1>1, <1>2, ActivationAssumption DEF ActivationTypeOK
<1>4. LockInv
  BY <1>2, ActivationAssumption DEF LockInv, HoldsLock, Working
<1>5. RegistryInv
  <2>1. \A l \in Leagues : Coherent(registry[l], l)
    BY DefaultCoherent
  <2> QED BY <1>3, <2>1, RegistryInvMeans
<1>6. WriteInv
  <2>1. \A row \in Rows : picks[row] = NoRun
    OBVIOUS
  <2>2. \A l \in Leagues : registry[l].enabled = {}
    BY DEF DefaultEntry
  <2> QED BY <1>2, <2>1, <2>2, ActivationAssumption
        DEF WriteInv, WritesOwn, WritesWereApproved, RolledBackReapproved, RolledBackInv
<1> QED BY <1>3, <1>4, <1>5, <1>6 DEF ActivationInv

LEMMA ActivationSteps == ActivationInv /\ [ActivationNext]_activationVars => ActivationInv'
<1> SUFFICES ASSUME ActivationInv, [ActivationNext]_activationVars PROVE ActivationInv'
  OBVIOUS
<1>1. ASSUME NEW r \in Runs,
             \/ AskGate(r) \/ Call(r) \/ Detect(r) \/ Ingest(r) \/ Fail(r)
      PROVE  ActivationInv'
  BY <1>1, EarlyKeeps
<1>2. ASSUME NEW r \in Runs, Evaluate(r) PROVE ActivationInv'
  BY <1>2, EvaluateKeeps
<1>3. ASSUME NEW r \in Runs, Release(r) PROVE ActivationInv'
  BY <1>3, ReleaseKeeps
<1>4. ASSUME NEW r \in Runs, Persist(r) PROVE ActivationInv'
  BY <1>4, PersistKeeps
<1>5. ASSUME NEW r \in Runs, NEW done \in BOOLEAN, WritePick(r, done) PROVE ActivationInv'
  BY <1>5, WritePickKeeps
<1>6. ASSUME NEW r \in Runs, NEW done \in BOOLEAN, WriteBet(r, done) PROVE ActivationInv'
  BY <1>6, WriteBetKeeps
<1>7. CASE Tick
  BY <1>7, TickKeeps
<1>8. CASE Restart
  BY <1>8, RestartKeeps
<1>9. CASE UNCHANGED activationVars
  BY <1>9, ActivationStutters
<1>10. ASSUME NEW r \in Runs, Discover(r) PROVE ActivationInv'
  BY <1>10, DiscoverKeeps
<1> QED BY <1>1, <1>2, <1>3, <1>4, <1>5, <1>6, <1>7, <1>8, <1>9, <1>10 DEF ActivationNext

-----------------------------------------------------------------------------
(* The theorems *)

\* ActivationInv holds in every state of the activation, for any leagues, runs,
\* proofs and bounds.
THEOREM ActivationInvariant == ActivationSpec => []ActivationInv
BY ActivationInitial, ActivationSteps, PTL DEF ActivationSpec

\* Lock, registry, picks and runs always have their types, and only a run that
\* found quota fetches odds.
THEOREM ActivationTypeCorrect == ActivationSpec => []ActivationTypeOK
<1>1. ActivationInv => ActivationTypeOK
  BY DEF ActivationInv
<1> QED BY <1>1, ActivationInvariant, PTL

\* Two activations of an instance are at work at once only when a manual one has
\* outlived its lock.
THEOREM OneWorkerAtATime == ActivationSpec => []OneWorker
<1>1. ActivationInv => OneWorker
  <2> SUFFICES ASSUME ActivationInv, NEW r \in Runs, NEW s \in Runs, r # s,
                      Working(r), Working(s), ~Outlived(r), ~Outlived(s)
               PROVE  FALSE
    BY DEF OneWorker
  <2>1. HoldsLock(r) /\ HoldsLock(s)
    BY DEF ActivationInv, LockInv
  <2> QED BY <2>1 DEF HoldsLock
<1> QED BY <1>1, ActivationInvariant, PTL

\* The registry agrees with itself and with the proofs, whichever runs evaluated it.
THEOREM RegistryStaysCoherent == ActivationSpec => []RegistryCoherent
<1>1. ActivationInv => RegistryCoherent
  BY DEF ActivationInv, RegistryInv
<1> QED BY <1>1, ActivationInvariant, PTL

\* Picks and bets are only of markets that an approved run has activated.
THEOREM WritesApproved == ActivationSpec => []WritesWereApproved
<1>1. ActivationInv => WritesWereApproved
  BY DEF ActivationInv, WriteInv
<1> QED BY <1>1, ActivationInvariant, PTL

\* Of a league that it rolled back, a run publishes only what it discovered after that
\* and what a human approved again after that.
THEOREM RolledBackNeedsApproval == ActivationSpec => []RolledBackReapproved
<1>1. ActivationInv => RolledBackReapproved
  BY DEF ActivationInv, WriteInv
<1> QED BY <1>1, ActivationInvariant, PTL

\* Who frees or takes a lock that another holds: nobody, before it expired.
LEMMA LockSteps ==
    ASSUME ActivationInv, [ActivationNext]_activationVars, NEW r \in Runs,
           lock.holder = r, lock'.holder # r, Working(r), Working(r)'
    PROVE  Outlived(r)
<1>1. ActivationTypeOK /\ LockInv
  BY DEF ActivationInv
<1>2. SUFFICES ASSUME Live(lock) PROVE FALSE
  BY <1>1, DeadLock
<1>3. ASSUME NEW q \in Runs, Release(q) \/ Fail(q) PROVE FALSE
  <2>1. lock' = Freed(lock, q)
    BY <1>3 DEF Release, Fail
  <2>2. q = r
    BY <2>1 DEF Freed
  <2>3. run \in [Runs -> RunStates]
    BY <1>1 DEF ActivationTypeOK
  <2>4. CASE Release(r)
    <3>1. PICK s : /\ LateMove(r, s) /\ s.pc \in {"discover", "persist", "over"}
                   /\ r \in Manuals => s.pc = "over"
      BY <1>1, <2>4, ReleaseMoves
    <3>2. run'[r].pc = s.pc
      BY <2>3, <3>1, RunMoves, AfterState DEF LateMove
    <3> QED BY <3>1, <3>2 DEF Working, Inside, Writing
  <2>5. CASE Fail(r)
    <3>1. PICK s : EarlyMove(r, s) /\ s.pc = "over"
      BY <1>1, <2>5, FailMoves
    <3>2. run'[r].pc = "over"
      BY <2>3, <3>1, RunMoves, AfterState DEF EarlyMove
    <3> QED BY <3>2 DEF Working, Inside, Writing
  <2> QED BY <1>3, <2>2, <2>4, <2>5
<1>4. ASSUME NEW q \in Runs, AskGate(q) \/ Call(q) PROVE FALSE
  BY <1>2, <1>4 DEF AskGate, Call, Swept
<1>5. ASSUME NEW q \in Runs, Detect(q) PROVE FALSE
  BY <1>2, <1>5 DEF Detect
<1>6. ASSUME NEW q \in Runs,
             \/ Ingest(q) \/ Evaluate(q) \/ Discover(q) \/ Persist(q)
             \/ \E done \in BOOLEAN : WritePick(q, done) \/ WriteBet(q, done)
      PROVE  FALSE
  BY <1>6 DEF Ingest, Evaluate, Discover, Persist, WritePick, WriteBet
<1>7. CASE Tick
  <2>1. lock'.holder = lock.holder
    BY <1>1, <1>7 DEF Tick, ActivationTypeOK, Locks
  <2> QED BY <2>1
<1>8. CASE Restart
  <2>1. (run'[r] = run[r] /\ ~Running(r)) \/ run'[r] = Ended(run[r])
    BY <1>1, <1>8, RestartMoves
  <2> QED BY <2>1 DEF Working, Running, Ended, IdleRun, Inside, Writing
<1>9. CASE UNCHANGED activationVars
  BY <1>9 DEF activationVars
<1> QED BY <1>3, <1>4, <1>5, <1>6, <1>7, <1>8, <1>9 DEF ActivationNext

\* The lock of a run at work leaves it only after it expired.
THEOREM LockStays == ActivationSpec => LockKept
<1>1. ActivationInv /\ [ActivationNext]_activationVars
         => [\A r \in Runs : lock.holder = r /\ lock'.holder # r /\ Working(r) /\ Working(r)'
                => Outlived(r)]_activationVars
  BY LockSteps
<1> QED BY <1>1, ActivationInvariant, PTL DEF ActivationSpec, LockKept

\* Which steps enable a market, and for whom.
LEMMA PromotionSteps ==
    ASSUME ActivationInv, [ActivationNext]_activationVars,
           NEW l \in Leagues, NEW m \in registry'[l].enabled \ registry[l].enabled
    PROVE  \E r \in Runs : /\ run[r].pc = "evaluate" /\ run'[r].pc # "evaluate"
                           /\ run[r].approved
                           /\ <<l, m>> \in run[r].odds
                           /\ lock.holder = r \/ Outlived(r)
<1>1. ActivationTypeOK /\ LockInv /\ RegistryInv
  BY DEF ActivationInv
<1>2. registry' # registry
  OBVIOUS
<1>3. ~Restart
  BY DEF Restart, DefaultEntry
<1>4. PICK r \in Runs : Evaluate(r)
  BY <1>2, <1>3 DEF ActivationNext, AskGate, Call, Detect, Ingest, Release, Fail,
        Discover, Persist, WritePick, WriteBet, Tick, activationVars
<1>5. PICK s, faults :
         /\ s \in RunStates /\ Become(r, s)
         /\ registry' = [x \in Leagues |-> Evaluated(r, x, x \in faults)]
         /\ s.pc \in IF r \in Manuals THEN {"persist", "release"} ELSE {"release"}
  BY <1>1, <1>4, EvaluateMoves
<1>6. run'[r].pc # "evaluate"
  <2>1. s.pc # "evaluate" /\ run'[r] = After(s)
    BY <1>1, <1>5, RunMoves DEF ActivationTypeOK
  <2> QED BY <1>5, <2>1, AfterState
<1>7. run[r].pc = "evaluate"
  BY <1>4 DEF Evaluate
<1>8. Promotes(r, l) /\ m \in Candidates(r, l)
  <2> DEFINE fault == l \in faults
  <2>1. fault \in BOOLEAN /\ registry'[l] = Evaluated(r, l, fault)
    BY <1>5
  <2>2. Coherent(registry[l], l)
    BY <1>1, RegistryInvMeans
  <2> HIDE DEF fault
  <2> QED BY <1>1, <2>1, <2>2, EvaluatedEntry
<1>9. run[r].approved /\ run[r].available /\ <<l, m>> \in run[r].odds
  BY <1>8 DEF Promotes, Candidates, MarketsOf
<1>10. lock.holder = r \/ Outlived(r)
  <2>1. Working(r)
    BY <1>7, <1>9 DEF Working, Inside
  <2> QED BY <1>1, <2>1 DEF LockInv, HoldsLock
<1> QED BY <1>6, <1>7, <1>9, <1>10

\* A market becomes enabled only when an approved run, which fetched its odds and had
\* the lock, evaluates its league.
THEOREM PromotionApproved == ActivationSpec => PromotionIsApproved
<1>1. ActivationInv /\ [ActivationNext]_activationVars
         => [\A l \in Leagues : \A m \in registry'[l].enabled \ registry[l].enabled :
               \E r \in Runs : /\ run[r].pc = "evaluate" /\ run'[r].pc # "evaluate"
                               /\ run[r].approved
                               /\ <<l, m>> \in run[r].odds
                               /\ lock.holder = r \/ Outlived(r)]_activationVars
  BY PromotionSteps
<1> QED BY <1>1, ActivationInvariant, PTL DEF ActivationSpec, PromotionIsApproved
=============================================================================
