-------------------------- MODULE QuotaCeilingProofs -------------------------
(***************************************************************************)
(* Within one subscription cycle the provider never counts more than the   *)
(* operational ceiling, for any number of instances, jobs and requests.    *)
(* Requests are set against the units of the ledger: what was counted or   *)
(* may be counted against the units consumed or owed, what a job has still *)
(* to send against the units its row holds for it.                         *)
(***************************************************************************)
EXTENDS QuotaSystemProofs

-----------------------------------------------------------------------------
(* One cycle: requests against units *)

\* The requests the provider may still count, those given up included.
Flying == {f \in Keys : job[f].request = "flying"}

\* A job in its loop will send its n-th request.
WillSend(f, j, n) ==
    /\ j.pc \in Batch
    /\ j.pc = "settle" => j.task.next = "send"
    /\ j.sent < n
    /\ n <= Size(f)

\* Units of requests the jobs have still to send.
Sendable == {u \in Units : WillSend(u[1], job[u[1]], u[2])}

\* A transport error may have been taken for one that came before dispatch.
Unsure(j) == j.guess = "opaque"

\* The last request of a job that its row still answers for.
Top(j, r) ==
    IF j.pc = "done" THEN r.amount - r.released
    ELSE IF \/ j.request = "rejected"
            \/ j.pc = "settle" /\ j.task.conf = 0 /\ ~ Unsure(j)
    THEN j.sent - 1 ELSE j.sent

Answers(j, r, n) == r.confirmed < n /\ n <= Top(j, r)

\* Units that back requests the provider has counted or may count.
Owed == {u \in Units : Answers(job[u[1]], rows[u[1]], u[2])}

\* The units open rows hold, numbered from the first not confirmed.
Backed == {u \in Units : /\ rows[u[1]].confirmed < u[2]
                         /\ u[2] <= rows[u[1]].amount - rows[u[1]].released}

\* Before the first row, nothing is asked and every snapshot is current.
Dawn ==
    cycle = NoCycle =>
        /\ stray = 0
        /\ \A i \in Instances :
               guard[i].cached # NoAccount => guard[i].cached.count >= billed[plan]
        /\ \A f \in Keys :
               job[f].pc \in {"account", "sync"} => job[f].snap.count >= billed[plan]

PlanKept == cycle # NoCycle => limit = PlanLimit

\* What the provider has counted in this cycle, or may count.
Burden == billed[plan] + stray + Cardinality(Flying)

\* Units that back requests, and units that were given up without knowing.
Covered == Cardinality(Owed) + Cardinality(WrittenOff)

Accounted == cycle # NoCycle => Burden <= consumed + Covered

\* What the provider may come to count.
Potential == Burden + Cardinality(Sendable)

WithinCeiling ==
    Potential > billed[plan] =>
        Potential <= OperationalCeiling(PlanLimit, MandatoryReserve) + Cardinality(WrittenOff)

CeilingInv ==
    /\ SystemInv
    /\ CycleInv
    /\ Dawn
    /\ PlanKept
    /\ Accounted
    /\ WithinCeiling

\* A step that sends and counts nothing that was not to be sent or counted.
Moved ==
    /\ CeilingInv'
    /\ plan' = plan
    /\ Potential' <= Potential
    /\ billed'[plan] >= billed[plan]

-----------------------------------------------------------------------------
(* Units that back requests *)

LEMMA UnitSets ==
  /\ IsFiniteSet(Owed) /\ Cardinality(Owed) \in Nat
  /\ IsFiniteSet(Sendable) /\ Cardinality(Sendable) \in Nat
  /\ IsFiniteSet(Backed) /\ Cardinality(Backed) \in Nat
  /\ IsFiniteSet(Flying) /\ Cardinality(Flying) \in Nat
  /\ IsFiniteSet(WrittenOff) /\ Cardinality(WrittenOff) \in Nat
  <1>1. /\ Owed \subseteq Units /\ Sendable \subseteq Units /\ Backed \subseteq Units
        /\ WrittenOff \subseteq Units
    BY DEF Owed, Sendable, Backed, WrittenOff
  <1>2. Flying \subseteq Keys
    BY DEF Flying
  <1>3. /\ IsFiniteSet(Owed) /\ IsFiniteSet(Sendable) /\ IsFiniteSet(Backed)
        /\ IsFiniteSet(Flying) /\ IsFiniteSet(WrittenOff)
    BY <1>1, <1>2, UnitsFinite, KeysAssumption, FS_Subset
  <1> QED
    BY <1>3, FS_CardinalityType

\* The numbering of the held units does not matter.
LEMMA BackedIsHeld ==
  ASSUME Inv
  PROVE  Cardinality(Backed) = Cardinality(Held)
  <1> DEFINE F == [u \in Backed |-> <<u[1], u[2] + rows[u[1]].released>>]
  <1>1. \A k \in Keys : /\ rows[k].amount \in 0 .. MaxAmount
                        /\ rows[k].confirmed \in 0 .. MaxAmount
                        /\ rows[k].released \in 0 .. MaxAmount
                        /\ MaxAmount \in Nat
    BY AmountAssumption DEF Inv, TypeOK, Row
  <1>2. \A k \in Keys : rows[k].confirmed < rows[k].amount - rows[k].released
                           => rows[k].status = "RESERVED"
    <2> TAKE k \in Keys
    <2>1. rows[k] \in Row /\ RowConsistent(rows[k])
      BY DEF Inv, TypeOK, StatusTellsSettlement
    <2>2. rows[k].status \in Statuses
      BY <2>1 DEF Row
    <2> QED
      BY <1>1, <2>1, <2>2 DEF RowConsistent, Statuses, NoRow
  <1>3. \A u \in Backed : F[u] \in Held
    <2> TAKE u \in Backed
    <2> DEFINE k == u[1]
               v == <<k, u[2] + rows[k].released>>
    <2>1. /\ k \in Keys /\ u[2] \in 1 .. MaxAmount
          /\ rows[k].confirmed < u[2] /\ u[2] <= rows[k].amount - rows[k].released
      BY DEF Backed, Units
    <2>2. v \in Units /\ v[1] = k /\ v[2] = u[2] + rows[k].released
      BY <1>1, <2>1 DEF Units
    <2>3. rows[k].status = "RESERVED"
      BY <1>1, <1>2, <2>1
    <2>4. v \in HeldBy(k)
      BY <1>1, <2>1, <2>2, <2>3 DEF HeldBy
    <2> QED
      BY <2>1, <2>4 DEF Held
  <1>4. \A u, w \in Backed : F[u] = F[w] => u = w
    <2> TAKE u, w \in Backed
    <2>1. /\ u = <<u[1], u[2]>> /\ u[1] \in Keys /\ u[2] \in Nat
          /\ w = <<w[1], w[2]>> /\ w[1] \in Keys /\ w[2] \in Nat
      BY AmountAssumption DEF Backed, Units
    <2>2. rows[u[1]].released \in Nat /\ rows[w[1]].released \in Nat
      BY <1>1, <2>1
    <2> QED
      BY <2>1, <2>2
  <1>5. \A v \in Held : \E u \in Backed : F[u] = v
    <2> TAKE v \in Held
    <2> DEFINE k == v[1]
               u == <<k, v[2] - rows[k].released>>
    <2>1. /\ k \in Keys /\ v \in Units /\ v = <<k, v[2]>> /\ v[2] \in 1 .. MaxAmount
          /\ v[2] > rows[k].confirmed + rows[k].released /\ v[2] <= rows[k].amount
      BY DEF Held, HeldBy, Units
    <2>2. u \in Units /\ u[1] = k /\ u[2] = v[2] - rows[k].released
      BY <1>1, <2>1 DEF Units
    <2>3. u \in Backed
      BY <1>1, <2>1, <2>2 DEF Backed
    <2>4. F[u] = v
      BY <1>1, <2>1, <2>2, <2>3
    <2> QED
      BY <2>3, <2>4
  <1>6. F \in Bijection(Backed, Held)
    BY <1>3, <1>4, <1>5 DEF Bijection, Injection, Surjection, IsInjective
  <1>7. ExistsBijection(Backed, Held)
    BY <1>6 DEF ExistsBijection
  <1> QED
    BY <1>7, UnitSets, FS_Bijection

\* What backs requests, sent or still to send, is held or reserved for them.
LEMMA OwedAndSendable ==
  ASSUME SystemInv
  PROVE  Cardinality(Owed) + Cardinality(Sendable) <= Cardinality(Held)
  <1>1. ASSUME NEW f \in Keys, NEW n \in 1 .. MaxAmount
        PROVE  /\ Answers(job[f], rows[f], n) \/ WillSend(f, job[f], n)
                     => /\ rows[f].confirmed < n
                        /\ n <= rows[f].amount - rows[f].released
               /\ ~ (Answers(job[f], rows[f], n) /\ WillSend(f, job[f], n))
    <2>1. /\ job[f] \in JobState /\ rows[f] \in Row
          /\ Fresh(job[f], rows[f]) /\ InStep(f, job[f], rows[f])
      BY DEF SystemInv, SystemTypeOK, TypeOK, JobOK
    <2>2. Size(f) \in 1 .. MaxAmount /\ MaxAmount \in Nat
      BY SizeType, AmountAssumption
    <2>3. job[f].sent \in 0 .. MaxAmount /\ rows[f].confirmed \in 0 .. MaxAmount
      BY <2>1 DEF JobState, Row
    <2>4. CASE job[f].pc \in Early
      BY <2>1, <2>2, <2>4 DEF Fresh, Early, Batch, Answers, Top, WillSend
    <2>5. CASE job[f].pc \in Batch
      <3>1. /\ rows[f].amount = Size(f) /\ rows[f].released = 0
            /\ job[f].sent <= Size(f) /\ rows[f].confirmed <= job[f].sent
        BY <2>1, <2>2, <2>3, <2>5 DEF InStep
      <3>2. Top(job[f], rows[f]) <= job[f].sent
        BY <2>3, <2>5 DEF Top, Batch
      <3>3. Top(job[f], rows[f]) \in Int
        BY <2>3, <2>5 DEF Top, Batch
      <3> QED
        BY <2>2, <2>3, <3>1, <3>2, <3>3 DEF Answers, WillSend
    <2>6. CASE job[f].pc = "done"
      BY <2>6 DEF Answers, Top, WillSend, Batch
    <2> QED
      BY <2>1, <2>4, <2>5, <2>6 DEF JobState, Early, Batch
  <1>2. Owed \subseteq Backed /\ Sendable \subseteq Backed /\ Owed \cap Sendable = {}
    BY <1>1 DEF Owed, Sendable, Backed, Units
  <1> DEFINE A == Owed
             B == Sendable
             C == Backed
  <1>3. /\ IsFiniteSet(A) /\ IsFiniteSet(B) /\ IsFiniteSet(C)
        /\ Cardinality(A) \in Nat /\ Cardinality(B) \in Nat /\ Cardinality(C) \in Nat
    BY UnitSets
  <1>4. A \cup B \subseteq C /\ A \cap B = {}
    BY <1>2
  <1>5. Cardinality(C) = Cardinality(Held)
    BY BackedIsHeld, InvHolds
  <1> HIDE DEF A, B, C
  <1>6. /\ IsFiniteSet(A \cup B)
        /\ Cardinality(A \cup B) = Cardinality(A) + Cardinality(B) - Cardinality(A \cap B)
    BY <1>3, FS_Union
  <1>7. Cardinality(A \cap B) = 0
    BY <1>4, FS_EmptySet
  <1>8. Cardinality(A \cup B) <= Cardinality(C)
    BY <1>3, <1>4, FS_Subset
  <1>9. Cardinality(A) + Cardinality(B) <= Cardinality(Held)
    BY <1>3, <1>5, <1>6, <1>7, <1>8
  <1> QED
    BY <1>9 DEF A, B

-----------------------------------------------------------------------------
(* Counting *)

LEMMA CountSubset ==
  ASSUME NEW T, IsFiniteSet(T), NEW S, S \subseteq T
  PROVE  /\ IsFiniteSet(S)
         /\ Cardinality(S) \in Nat /\ Cardinality(T) \in Nat
         /\ Cardinality(S) <= Cardinality(T)
  BY FS_Subset, FS_CardinalityType

LEMMA CountButOne ==
  ASSUME NEW S, NEW T, IsFiniteSet(S), IsFiniteSet(T), NEW u, S \ {u} \subseteq T
  PROVE  Cardinality(S) - 1 <= Cardinality(T)
  <1>1. IsFiniteSet(S \ {u}) /\ Cardinality(S) \in Nat /\ Cardinality(S \ {u}) \in Nat
    BY FS_RemoveElement, FS_CardinalityType
  <1>2. Cardinality(S \ {u}) >= Cardinality(S) - 1
    BY <1>1, FS_RemoveElement
  <1>3. Cardinality(S \ {u}) <= Cardinality(T) /\ Cardinality(T) \in Nat
    BY CountSubset
  <1> QED
    BY <1>1, <1>2, <1>3

LEMMA CountOneMore ==
  ASSUME NEW S, NEW T, IsFiniteSet(S), IsFiniteSet(T), NEW u,
         u \in T, u \notin S, S \subseteq T
  PROVE  Cardinality(S) + 1 <= Cardinality(T)
  <1>1. Cardinality(S \cup {u}) = Cardinality(S) + 1
    BY FS_AddElement
  <1>2. Cardinality(S \cup {u}) <= Cardinality(T)
    BY CountSubset
  <1> QED
    BY <1>1, <1>2

LEMMA CountWithout ==
  ASSUME NEW S, IsFiniteSet(S), NEW x, NEW n, n = IF x \in S THEN 1 ELSE 0
  PROVE  /\ n \in Int /\ Cardinality(S) \in Int
         /\ Cardinality(S \ {x}) = Cardinality(S) - n
  <1>1. Cardinality(S) \in Int
    BY FS_CardinalityType
  <1>2. Cardinality(S \ {x}) = IF x \in S THEN Cardinality(S) - 1 ELSE Cardinality(S)
    BY FS_RemoveElement
  <1> QED
    BY <1>1, <1>2

LEMMA CountJoined ==
  ASSUME NEW S, NEW T, NEW U, IsFiniteSet(S), IsFiniteSet(U), T \subseteq S \cup U
  PROVE  Cardinality(T) <= Cardinality(S) + Cardinality(U)
  <1>1. /\ IsFiniteSet(S \cup U)
        /\ Cardinality(S \cup U) = Cardinality(S) + Cardinality(U) - Cardinality(S \cap U)
    BY FS_Union
  <1>2. Cardinality(S \cap U) \in Nat /\ Cardinality(S) \in Nat /\ Cardinality(U) \in Nat
    BY FS_Intersection, FS_CardinalityType
  <1>3. Cardinality(T) <= Cardinality(S \cup U) /\ Cardinality(T) \in Nat
    BY <1>1, CountSubset
  <1> QED
    BY <1>1, <1>2, <1>3

LEMMA CountApart ==
  ASSUME NEW S, NEW T, NEW U, NEW V,
         IsFiniteSet(S), IsFiniteSet(T), IsFiniteSet(U), IsFiniteSet(V),
         S \cap T = {}, S \cup T \subseteq U \cup V
  PROVE  Cardinality(S) + Cardinality(T) <= Cardinality(U) + Cardinality(V)
  <1>1. /\ IsFiniteSet(S \cup T)
        /\ Cardinality(S \cup T) = Cardinality(S) + Cardinality(T) - Cardinality(S \cap T)
    BY FS_Union
  <1>2. Cardinality(S \cap T) = 0 /\ Cardinality(S) \in Nat /\ Cardinality(T) \in Nat
    BY FS_EmptySet, FS_CardinalityType
  <1>3. Cardinality(S \cup T) <= Cardinality(U) + Cardinality(V)
    BY CountJoined
  <1> QED
    BY <1>1, <1>2, <1>3

\* The sets of the next state are as finite as those of this one.
LEMMA NextUnitSets ==
  /\ IsFiniteSet(Owed') /\ Cardinality(Owed') \in Nat
  /\ IsFiniteSet(Sendable') /\ Cardinality(Sendable') \in Nat
  /\ IsFiniteSet(Flying') /\ Cardinality(Flying') \in Nat
  /\ IsFiniteSet(WrittenOff') /\ Cardinality(WrittenOff') \in Nat
  <1>1. /\ Owed' \subseteq Units /\ Sendable' \subseteq Units /\ Flying' \subseteq Keys
        /\ WrittenOff' \subseteq Units
    BY DEF Owed, Sendable, Flying, WrittenOff, Units
  <1> QED
    BY <1>1, UnitsFinite, KeysAssumption, CountSubset

-----------------------------------------------------------------------------
(* What one job's move does to the units *)

\* Nothing but the job f and its row changes.
OnlyJob(f) ==
    /\ expired' = expired
    /\ \A g \in Keys \ {f} : job'[g] = job[g] /\ rows'[g] = rows[g]

Flies(j) == IF j.request = "flying" THEN 1 ELSE 0

LEMMA FlyingByJob ==
  ASSUME NEW f \in Keys, OnlyJob(f)
  PROVE  Cardinality(Flying') = Cardinality(Flying) - Flies(job[f]) + Flies(job'[f])
  <1> DEFINE S == Flying
             T == Flying'
             m == Flies(job[f])
             n == Flies(job'[f])
  <1>1. S \ {f} = T \ {f}
    BY DEF Flying, OnlyJob
  <1>2. m = IF f \in S THEN 1 ELSE 0
    BY DEF Flying, Flies
  <1>3. n = IF f \in T THEN 1 ELSE 0
    BY DEF Flying, Flies
  <1>4. IsFiniteSet(S) /\ IsFiniteSet(T)
    BY UnitSets, NextUnitSets
  <1> HIDE DEF S, T, m, n
  <1>5. /\ m \in Int /\ Cardinality(S) \in Int
        /\ Cardinality(S \ {f}) = Cardinality(S) - m
    BY <1>2, <1>4, CountWithout
  <1>6. /\ n \in Int /\ Cardinality(T) \in Int
        /\ Cardinality(T \ {f}) = Cardinality(T) - n
    BY <1>3, <1>4, CountWithout
  <1>7. Cardinality(T) = Cardinality(S) - m + n
    BY <1>1, <1>5, <1>6
  <1> QED
    BY <1>7 DEF S, T, m, n

LEMMA UnitsOnly ==
  /\ Owed \subseteq Units /\ Owed' \subseteq Units
  /\ Sendable \subseteq Units /\ Sendable' \subseteq Units
  /\ \A u \in Units : u = <<u[1], u[2]>> /\ u[2] \in 1 .. MaxAmount
  BY DEF Owed, Sendable, Units

\* Membership for one unit, in this state and the next.
LEMMA UnitByJob ==
  ASSUME NEW f \in Keys, OnlyJob(f), NEW u \in Units
  PROVE  /\ u[1] # f => /\ u \in Owed' <=> u \in Owed
                        /\ u \in Sendable' <=> u \in Sendable
         /\ u[1] = f => /\ u \in Owed <=> Answers(job[f], rows[f], u[2])
                        /\ u \in Owed' <=> Answers(job'[f], rows'[f], u[2])
                        /\ u \in Sendable <=> WillSend(f, job[f], u[2])
                        /\ u \in Sendable' <=> WillSend(f, job'[f], u[2])
  <1>1. u[1] \in Keys
    BY DEF Units
  <1>2. /\ u \in Owed <=> Answers(job[u[1]], rows[u[1]], u[2])
        /\ u \in Sendable <=> WillSend(u[1], job[u[1]], u[2])
    BY DEF Owed, Sendable
  <1>3. /\ u \in Owed' <=> Answers(job'[u[1]], rows'[u[1]], u[2])
        /\ u \in Sendable' <=> WillSend(u[1], job'[u[1]], u[2])
    BY DEF Owed, Sendable, Answers, Top, Unsure, WillSend, Units, Size
  <1> QED
    BY <1>1, <1>2, <1>3 DEF OnlyJob

LEMMA OwedStays ==
  ASSUME NEW f \in Keys, OnlyJob(f),
         \A n \in 1 .. MaxAmount : Answers(job[f], rows[f], n) => Answers(job'[f], rows'[f], n)
  PROVE  Cardinality(Owed) <= Cardinality(Owed')
  <1>1. Owed \subseteq Owed'
    <2> SUFFICES ASSUME NEW u \in Units, u \in Owed PROVE u \in Owed'
      BY UnitsOnly
    <2> QED
      BY UnitsOnly, UnitByJob
  <1> QED
    BY <1>1, NextUnitSets, CountSubset

LEMMA OwedLosesOne ==
  ASSUME NEW f \in Keys, OnlyJob(f), NEW m,
         \A n \in 1 .. MaxAmount :
             Answers(job[f], rows[f], n) /\ n # m => Answers(job'[f], rows'[f], n)
  PROVE  Cardinality(Owed) - 1 <= Cardinality(Owed')
  <1>1. Owed \ {<<f, m>>} \subseteq Owed'
    <2> SUFFICES ASSUME NEW u \in Units, u \in Owed, u # <<f, m>> PROVE u \in Owed'
      BY UnitsOnly
    <2>1. u[1] = f => u[2] # m
      BY UnitsOnly
    <2> QED
      BY <2>1, UnitsOnly, UnitByJob
  <1> QED
    BY <1>1, UnitSets, NextUnitSets, CountButOne

LEMMA OwedGainsOne ==
  ASSUME NEW f \in Keys, OnlyJob(f), NEW m \in 1 .. MaxAmount,
         \A n \in 1 .. MaxAmount :
             Answers(job[f], rows[f], n) => Answers(job'[f], rows'[f], n),
         ~ Answers(job[f], rows[f], m), Answers(job'[f], rows'[f], m)
  PROVE  Cardinality(Owed) + 1 <= Cardinality(Owed')
  <1> DEFINE w == <<f, m>>
  <1>1. Owed \subseteq Owed'
    <2> SUFFICES ASSUME NEW u \in Units, u \in Owed PROVE u \in Owed'
      BY UnitsOnly
    <2> QED
      BY UnitsOnly, UnitByJob
  <1>2. w \in Units /\ w[1] = f /\ w[2] = m
    BY DEF Units
  <1>3. w \notin Owed /\ w \in Owed'
    BY <1>2, UnitByJob
  <1> QED
    BY <1>1, <1>3, UnitSets, NextUnitSets, CountOneMore

LEMMA SendableStays ==
  ASSUME NEW f \in Keys, OnlyJob(f),
         \A n \in 1 .. MaxAmount : WillSend(f, job'[f], n) => WillSend(f, job[f], n)
  PROVE  Cardinality(Sendable') <= Cardinality(Sendable)
  <1>1. Sendable' \subseteq Sendable
    <2> SUFFICES ASSUME NEW u \in Units, u \in Sendable' PROVE u \in Sendable
      BY UnitsOnly
    <2> QED
      BY UnitsOnly, UnitByJob
  <1> QED
    BY <1>1, UnitSets, CountSubset

LEMMA SendableLosesOne ==
  ASSUME NEW f \in Keys, OnlyJob(f), NEW m \in 1 .. MaxAmount,
         \A n \in 1 .. MaxAmount : WillSend(f, job'[f], n) => WillSend(f, job[f], n),
         WillSend(f, job[f], m), ~ WillSend(f, job'[f], m)
  PROVE  Cardinality(Sendable') + 1 <= Cardinality(Sendable)
  <1> DEFINE w == <<f, m>>
  <1>1. Sendable' \subseteq Sendable
    <2> SUFFICES ASSUME NEW u \in Units, u \in Sendable' PROVE u \in Sendable
      BY UnitsOnly
    <2> QED
      BY UnitsOnly, UnitByJob
  <1>2. w \in Units /\ w[1] = f /\ w[2] = m
    BY DEF Units
  <1>3. w \in Sendable /\ w \notin Sendable'
    BY <1>2, UnitByJob
  <1> QED
    BY <1>1, <1>3, UnitSets, NextUnitSets, CountOneMore

LEMMA SendableGainsBatch ==
  ASSUME NEW f \in Keys, OnlyJob(f)
  PROVE  Cardinality(Sendable') <= Cardinality(Sendable) + Size(f)
  <1> DEFINE B == {f} \X (1 .. Size(f))
  <1>1. Size(f) \in 1 .. MaxAmount /\ MaxAmount \in Nat
    BY SizeType, AmountAssumption
  <1>2. IsFiniteSet(B) /\ Cardinality(B) = Size(f)
    <2> DEFINE C == 1 .. Size(f)
    <2>1. IsFiniteSet(C) /\ Cardinality(C) = Size(f)
      BY <1>1, FS_Interval
    <2>2. IsFiniteSet({f}) /\ Cardinality({f}) = 1
      BY FS_Singleton
    <2> HIDE DEF C
    <2>3. IsFiniteSet({f} \X C) /\ Cardinality({f} \X C) = 1 * Cardinality(C)
      BY <2>1, <2>2, FS_Product
    <2> QED
      BY <1>1, <2>1, <2>3 DEF C
  <1>3. Sendable' \subseteq Sendable \cup B
    <2> SUFFICES ASSUME NEW u \in Units, u \in Sendable' PROVE u \in Sendable \cup B
      BY UnitsOnly
    <2>1. u = <<u[1], u[2]>> /\ u[2] \in 1 .. MaxAmount
      BY UnitsOnly
    <2>2. CASE u[1] # f
      BY <2>1, <2>2, UnitByJob
    <2>3. CASE u[1] = f
      <3>1. u[2] <= Size(f)
        BY <2>1, <2>3, UnitByJob DEF WillSend
      <3> QED
        BY <1>1, <2>1, <2>3, <3>1
    <2> QED
      BY <2>2, <2>3
  <1> HIDE DEF B
  <1> QED
    BY <1>2, <1>3, UnitSets, CountJoined

LEMMA WrittenOffBy ==
  ASSUME NEW u \in Units
  PROVE  /\ u \in WrittenOff <=> GivenUp(u[1], job[u[1]], rows[u[1]], expired, u[2])
         /\ u \in WrittenOff' <=> GivenUp(u[1], job'[u[1]], rows'[u[1]], expired', u[2])
  BY DEF WrittenOff, GivenUp, Units

\* A job that has not ended gave no unit up, so its move takes none back.
LEMMA WrittenOffOnly ==
  ASSUME NEW f \in Keys, OnlyJob(f), job[f].pc # "done"
  PROVE  /\ WrittenOff \subseteq WrittenOff'
         /\ \A n \in 1 .. MaxAmount :
                /\ <<f, n>> \notin WrittenOff
                /\ GivenUp(f, job'[f], rows'[f], {}, n) => <<f, n>> \in WrittenOff'
  <1>1. WrittenOff \subseteq Units
    BY DEF WrittenOff
  <1>2. ASSUME NEW u \in Units, u \in WrittenOff
        PROVE  u \in WrittenOff'
    <2>1. GivenUp(u[1], job[u[1]], rows[u[1]], expired, u[2])
      BY <1>2, WrittenOffBy
    <2>2. u[1] # f /\ u[1] \in Keys
      BY <2>1 DEF GivenUp, Units
    <2>3. job'[u[1]] = job[u[1]] /\ rows'[u[1]] = rows[u[1]] /\ expired' = expired
      BY <2>2 DEF OnlyJob
    <2>4. GivenUp(u[1], job'[u[1]], rows'[u[1]], expired', u[2])
      BY <2>1, <2>3
    <2> QED
      BY <2>4, WrittenOffBy
  <1>3. ASSUME NEW n \in 1 .. MaxAmount
        PROVE  /\ <<f, n>> \notin WrittenOff
               /\ GivenUp(f, job'[f], rows'[f], {}, n) => <<f, n>> \in WrittenOff'
    <2> DEFINE u == <<f, n>>
    <2>1. u \in Units /\ u[1] = f /\ u[2] = n
      BY DEF Units
    <2> HIDE DEF u
    <2>2. /\ u \in WrittenOff <=> GivenUp(f, job[f], rows[f], expired, n)
          /\ u \in WrittenOff' <=> GivenUp(f, job'[f], rows'[f], expired', n)
      BY <2>1, WrittenOffBy
    <2>3. ~ GivenUp(f, job[f], rows[f], expired, n)
      BY DEF GivenUp
    <2>4. GivenUp(f, job'[f], rows'[f], {}, n) => GivenUp(f, job'[f], rows'[f], expired', n)
      BY DEF GivenUp
    <2> QED
      BY <2>2, <2>3, <2>4 DEF u
  <1> QED
    BY <1>1, <1>2, <1>3

LEMMA WrittenOffStays ==
  ASSUME NEW f \in Keys, OnlyJob(f), job[f].pc # "done"
  PROVE  Cardinality(WrittenOff) <= Cardinality(WrittenOff')
  BY WrittenOffOnly, NextUnitSets, CountSubset

LEMMA WrittenOffGainsOne ==
  ASSUME NEW f \in Keys, OnlyJob(f), job[f].pc # "done", NEW m \in 1 .. MaxAmount,
         GivenUp(f, job'[f], rows'[f], {}, m)
  PROVE  Cardinality(WrittenOff) + 1 <= Cardinality(WrittenOff')
  <1> DEFINE w == <<f, m>>
  <1>1. WrittenOff \subseteq WrittenOff' /\ w \notin WrittenOff /\ w \in WrittenOff'
    BY WrittenOffOnly
  <1> HIDE DEF w
  <1> QED
    BY <1>1, UnitSets, NextUnitSets, CountOneMore

-----------------------------------------------------------------------------
(* When a step keeps the account *)

LEMMA BurdenType ==
  ASSUME SystemInv
  PROVE  /\ Burden \in Int /\ Potential \in Int
         /\ Potential = Burden + Cardinality(Sendable)
         /\ consumed \in Nat /\ billed[plan] \in Nat /\ stray \in Nat
  <1>1. consumed \in Nat /\ billed[plan] \in Nat /\ stray \in Nat
    BY DEF SystemInv, SystemTypeOK, TypeOK
  <1> QED
    BY <1>1, UnitSets DEF Burden, Potential

LEMMA NextBurdenType ==
  ASSUME SystemInv'
  PROVE  /\ Burden' = billed'[plan'] + stray' + Cardinality(Flying')
         /\ Potential' = Burden' + Cardinality(Sendable')
         /\ Burden' \in Int
         /\ consumed' \in Nat /\ billed'[plan'] \in Nat /\ stray' \in Nat
  <1>1. consumed' \in Nat /\ billed'[plan'] \in Nat /\ stray' \in Nat
    BY DEF SystemInv, SystemTypeOK, TypeOK
  <1>2. Burden' = billed'[plan'] + stray' + Cardinality(Flying')
    BY DEF Burden
  <1>3. Potential' = Burden' + Cardinality(Sendable')
    BY DEF Potential
  <1> QED
    BY <1>1, <1>2, <1>3, NextUnitSets

LEMMA SumsUp ==
  ASSUME NEW x \in Int, NEW y \in Nat, NEW z \in Nat
  PROVE  /\ x <= y => x <= y + z
         /\ \A b \in Int, c \in Nat, o \in Nat, d \in Int :
                b <= c + o /\ x <= b + d /\ c + o + d <= y + z => x <= y + z
  OBVIOUS

\* A step that adds no more to what the provider may count than it moves from
\* the sendable to the owed or the consumed.
LEMMA Kept ==
  ASSUME CeilingInv, SystemInv', CycleInv', Dawn', PlanKept', plan' = plan,
         NEW d \in Int,
         Burden' <= Burden + d,
         consumed + Covered + d <= consumed' + Covered',
         Cardinality(WrittenOff) <= Cardinality(WrittenOff'),
         Burden' + Cardinality(Sendable') <= Burden + Cardinality(Sendable),
         billed'[plan] >= billed[plan],
         cycle = NoCycle /\ cycle' # NoCycle => Burden' <= consumed'
  PROVE  Moved
  <1> DEFINE b  == Burden
             bn == Burden'
             o  == Covered
             on == Covered'
             v  == Cardinality(WrittenOff)
             vn == Cardinality(WrittenOff')
             s  == Cardinality(Sendable)
             sn == Cardinality(Sendable')
             c  == OperationalCeiling(PlanLimit, MandatoryReserve)
  <1>1. /\ b \in Int /\ bn \in Int /\ o \in Nat /\ on \in Nat /\ s \in Nat /\ sn \in Nat
        /\ v \in Nat /\ vn \in Nat /\ consumed \in Nat /\ consumed' \in Nat
        /\ billed[plan] \in Nat /\ billed'[plan] \in Nat
    BY BurdenType, NextBurdenType, UnitSets, NextUnitSets DEF CeilingInv, Covered
  <1>2. c \in Int
    <2>1. PlanLimit \in Nat /\ MandatoryReserve \in Nat
      BY SystemAssumption, AmountAssumption
    <2> QED
      BY <2>1, CeilingType
  <1>3. /\ cycle # NoCycle => b <= consumed + o
        /\ b + s > billed[plan] => b + s <= c + v
    BY DEF CeilingInv, Accounted, WithinCeiling, Potential
  <1>4. bn <= b + d /\ consumed + o + d <= consumed' + on /\ bn + sn <= b + s /\ v <= vn
    OBVIOUS
  <1>5. cycle' # NoCycle => bn <= consumed' + on
    <2>1. ASSUME cycle = NoCycle, cycle' # NoCycle PROVE bn <= consumed' + on
      <3>1. bn <= consumed' /\ bn \in Int /\ consumed' \in Nat /\ on \in Nat
        BY <1>1, <2>1
      <3> QED
        BY <3>1, SumsUp
    <2>2. ASSUME cycle # NoCycle PROVE bn <= consumed' + on
      <3>1. /\ bn \in Int /\ consumed' \in Nat /\ on \in Nat
            /\ b \in Int /\ consumed \in Nat /\ o \in Nat
            /\ b <= consumed + o /\ bn <= b + d
            /\ consumed + o + d <= consumed' + on
        BY <1>1, <1>3, <1>4, <2>2
      <3> HIDE DEF b, bn, o, on
      <3> QED
        BY <3>1, SumsUp
    <2> QED
      BY <2>1, <2>2
  <1>6. bn + sn > billed'[plan'] => bn + sn <= c + vn
    <2>1. billed'[plan'] >= billed[plan] /\ billed'[plan'] \in Nat
      BY <1>1
    <2> HIDE DEF b, bn, o, on, s, sn, v, vn, c
    <2> QED
      BY <1>1, <1>2, <1>3, <1>4, <2>1
  <1>7. Accounted'
    BY <1>5 DEF Accounted
  <1>8. WithinCeiling'
    BY <1>6, NextBurdenType DEF WithinCeiling
  <1>9. Potential' <= Potential
    BY NextBurdenType, BurdenType DEF CeilingInv
  <1> QED
    BY <1>7, <1>8, <1>9 DEF CeilingInv, Moved

\* The same for a job with a reservation.
LEMMA JobKept ==
  ASSUME CeilingInv, SystemInv', CycleInv', NEW f \in Keys, OnlyJob(f),
         cycle # NoCycle, cycle' = cycle, limit' = limit, plan' = plan,
         NEW x \in Nat, NEW y \in Int, NEW z \in Int, NEW d \in Int, NEW w \in Int,
         billed'[plan] = billed[plan] + x, stray' = stray + y, consumed' = consumed + z,
         x + y - Flies(job[f]) + Flies(job'[f]) <= d,
         x + y - Flies(job[f]) + Flies(job'[f]) <= w,
         NEW t \in Nat, Cardinality(WrittenOff) + t <= Cardinality(WrittenOff'),
         Cardinality(Owed) + d - z - t <= Cardinality(Owed'),
         Cardinality(Sendable') + w <= Cardinality(Sendable)
  PROVE  Moved
  <1> DEFINE fl == Cardinality(Flying)
             fn == Cardinality(Flying')
             o  == Cardinality(Owed)
             on == Cardinality(Owed')
             s  == Cardinality(Sendable)
             sn == Cardinality(Sendable')
             v  == Cardinality(WrittenOff)
             vn == Cardinality(WrittenOff')
             m  == Flies(job[f])
             n  == Flies(job'[f])
  <1>1. /\ fl \in Nat /\ fn \in Nat /\ o \in Nat /\ on \in Nat /\ s \in Nat /\ sn \in Nat
        /\ v \in Nat /\ vn \in Nat /\ Covered = o + v /\ Covered' = on + vn
        /\ m \in Int /\ n \in Int
        /\ consumed \in Nat /\ consumed' \in Nat /\ stray \in Nat
        /\ billed[plan] \in Nat /\ billed'[plan] \in Nat
    BY BurdenType, NextBurdenType, UnitSets, NextUnitSets DEF CeilingInv, Flies, Covered
  <1>2. fn = fl - m + n
    BY FlyingByJob
  <1>3. Burden = billed[plan] + stray + fl /\ Burden' = billed'[plan] + stray' + fn
    BY NextBurdenType DEF Burden
  <1>4. /\ x + y - m + n <= d /\ x + y - m + n <= w
        /\ o + d - z - t <= on /\ v + t <= vn /\ sn + w <= s
    OBVIOUS
  <1>5. Dawn' /\ PlanKept'
    BY DEF CeilingInv, Dawn, PlanKept
  <1> HIDE DEF fl, fn, o, on, s, sn, v, vn, m, n
  <1>6. /\ Burden' <= Burden + d
        /\ consumed + Covered + d <= consumed' + Covered'
        /\ v <= vn
        /\ Burden' + sn <= Burden + s
        /\ billed'[plan] >= billed[plan]
    BY <1>1, <1>2, <1>3, <1>4
  <1> QED
    BY <1>5, <1>6, Kept DEF o, on, s, sn, v, vn

-----------------------------------------------------------------------------
(* Before the first row *)

LEMMA NothingAtDawn ==
  ASSUME SystemInv, CycleInv, cycle = NoCycle
  PROVE  /\ \A f \in Keys : job[f].pc \notin Batch
         /\ Flying = {}
         /\ Cardinality(Flying) = 0
  <1>1. \A f \in Keys : JobOK(f, job[f], rows[f]) /\ rows[f].status = "NONE"
    BY DEF SystemInv, CycleInv, NothingYet
  <1>2. \A f \in Keys : job[f].pc \notin Batch
    BY <1>1 DEF JobOK, InStep
  <1>3. Flying = {}
    BY <1>1, <1>2 DEF JobOK, Placed, Flying, Batch
  <1> QED
    BY <1>2, <1>3, FS_EmptySet

LEMMA BatchHasRow ==
  ASSUME CeilingInv, NEW f \in Keys, job[f].pc \in Batch
  PROVE  cycle # NoCycle
  BY NothingAtDawn DEF CeilingInv

\* A job with nothing reserved moves, and still has nothing to send.
LEMMA EarlyKept ==
  ASSUME CeilingInv, SystemInv', CycleInv', NEW f \in Keys, OnlyJob(f),
         job[f].pc \in Early, job'[f].pc \in Early \cup {"done"},
         plan' = plan, billed' = billed, stray' = stray, consumed' >= consumed,
         Dawn', PlanKept',
         cycle = NoCycle /\ cycle' # NoCycle => consumed' >= billed[plan]
  PROVE  Moved
  <1>1. /\ JobOK(f, job[f], rows[f]) /\ Placed(job'[f])
        /\ job[f] \in JobState /\ rows[f] = NoRow
    <2>1. JobOK(f, job[f], rows[f]) /\ Placed(job'[f]) /\ job[f] \in JobState
      BY DEF CeilingInv, SystemInv, SystemTypeOK, JobOK, Placed
    <2>2. rows[f].status = "NONE" /\ RowConsistent(rows[f])
      BY <2>1 DEF JobOK, Fresh, CeilingInv, SystemInv, StatusTellsSettlement
    <2> QED
      BY <2>1, <2>2 DEF RowConsistent
  <1>2. Flies(job[f]) = 0 /\ Flies(job'[f]) = 0
    BY <1>1 DEF JobOK, Placed, Flies, Early
  <1>3. Cardinality(Flying') = Cardinality(Flying)
    BY <1>2, FlyingByJob, UnitSets
  <1>4. \A n \in 1 .. MaxAmount : ~ Answers(job[f], rows[f], n)
    BY <1>1 DEF Answers, Top, NoRow, JobOK, Fresh, Placed, Early
  <1>5. \A n \in 1 .. MaxAmount : ~ WillSend(f, job'[f], n)
    BY DEF WillSend, Early, Batch
  <1>6. /\ Cardinality(Owed) <= Cardinality(Owed')
        /\ Cardinality(Sendable') <= Cardinality(Sendable)
        /\ Cardinality(WrittenOff) <= Cardinality(WrittenOff')
    BY <1>4, <1>5, OwedStays, SendableStays, WrittenOffStays DEF Early
  <1>7. Burden' = Burden
    BY <1>3, NextBurdenType DEF Burden
  <1>8. cycle = NoCycle => Burden = billed[plan]
    <2>1. cycle = NoCycle => Cardinality(Flying) = 0 /\ stray = 0
      BY NothingAtDawn DEF CeilingInv, Dawn
    <2> QED
      BY <2>1, BurdenType DEF Burden, CeilingInv
  <1>9. /\ Cardinality(Owed) \in Nat /\ Cardinality(Owed') \in Nat
        /\ Cardinality(WrittenOff) \in Nat /\ Cardinality(WrittenOff') \in Nat
        /\ Cardinality(Sendable) \in Nat /\ Cardinality(Sendable') \in Nat
        /\ Burden \in Int /\ consumed \in Nat /\ consumed' \in Nat /\ billed[plan] \in Nat
    BY UnitSets, NextUnitSets, BurdenType, NextBurdenType DEF CeilingInv
  <1> DEFINE b  == Burden
             o  == Covered
             on == Covered'
             s  == Cardinality(Sendable)
             sn == Cardinality(Sendable')
  <1>10. /\ b \in Int /\ b <= b + 0
         /\ consumed + o + 0 <= consumed' + on /\ b + sn <= b + s
    <2>1. o <= on /\ o \in Nat /\ on \in Nat
      BY <1>6, <1>9 DEF Covered
    <2>2. o <= on /\ sn <= s /\ o \in Nat /\ on \in Nat /\ s \in Nat /\ sn \in Nat /\ b \in Int
      BY <1>6, <1>9, <2>1
    <2>3. consumed \in Nat /\ consumed' \in Nat /\ consumed <= consumed'
      BY <1>9
    <2> HIDE DEF b, o, on, s, sn
    <2>4. \A i, j, k, l \in Nat : i <= j /\ k <= l => i + k <= j + l
      OBVIOUS
    <2>5. consumed + o <= consumed' + on
      BY <2>2, <2>3, <2>4, Zenon
    <2>6. b <= b + 0 /\ b + sn <= b + s
      BY <2>2
    <2>7. consumed + o \in Nat /\ consumed + o + 0 = consumed + o
      BY <2>2, <2>3
    <2> QED
      BY <2>2, <2>5, <2>6, <2>7, Zenon
  <1>11. billed'[plan] >= billed[plan]
    BY <1>9
  <1>12. cycle = NoCycle /\ cycle' # NoCycle => Burden' <= consumed'
    BY <1>7, <1>8, <1>9
  <1> QED
    BY <1>6, <1>7, <1>10, <1>11, <1>12, Kept

-----------------------------------------------------------------------------
(* Detection and sync keep the account *)

LEMMA DawnMoves ==
  ASSUME SystemInv, Dawn, cycle' = cycle, UNCHANGED providerVars, NEW f \in Keys,
         \A g \in Keys \ {f} : job'[g] = job[g],
         \A i \in Instances :
             \/ guard'[i].cached = guard[i].cached
             \/ cycle = NoCycle /\ guard'[i].cached # NoAccount
                    => guard'[i].cached.count >= billed[plan],
         cycle = NoCycle /\ job'[f].pc \in {"account", "sync"}
             => job'[f].snap.count >= billed[plan]
  PROVE  Dawn'
  <1>1. stray' = stray /\ billed' = billed /\ plan' = plan
    BY DEF providerVars
  <1>2. \A i \in Instances : cycle = NoCycle /\ guard'[i].cached # NoAccount
                               => guard'[i].cached.count >= billed[plan]
    BY DEF Dawn
  <1>3. \A g \in Keys : cycle = NoCycle /\ job'[g].pc \in {"account", "sync"}
                          => job'[g].snap.count >= billed[plan]
    BY DEF Dawn
  <1> QED
    BY <1>1, <1>2, <1>3 DEF Dawn

LEMMA PlanStays ==
  ASSUME PlanKept, cycle' = cycle, limit' = limit
  PROVE  PlanKept'
  BY DEF PlanKept

\* Nothing of the ledger moves.
LEMMA EarlyAlone ==
  ASSUME CeilingInv, SystemInv', CycleInv', NEW f \in Keys,
         \A g \in Keys \ {f} : job'[g] = job[g],
         job[f].pc \in Early, job'[f].pc \in Early \cup {"done"},
         UNCHANGED <<ledgerVars, providerVars>>, Dawn'
  PROVE  Moved
  <1>1. /\ rows' = rows /\ consumed' = consumed /\ cycle' = cycle /\ limit' = limit
        /\ plan' = plan /\ billed' = billed /\ stray' = stray
    BY DEF ledgerVars, providerVars
  <1>2. OnlyJob(f)
    BY <1>1 DEF OnlyJob, ledgerVars
  <1>3. consumed \in Nat
    BY BurdenType DEF CeilingInv
  <1>4. PlanKept'
    BY <1>1, PlanStays DEF CeilingInv
  <1> QED
    BY <1>1, <1>2, <1>3, <1>4, EarlyKept

LEMMA DetectKept ==
  ASSUME CeilingInv, SystemInv', CycleInv', NEW f \in Keys, NEW i \in Instances,
         job[f].pc \in Early, NEW g \in GuardState, NEW a \in Accounts,
         cycle = NoCycle => /\ g.cached # NoAccount => g.cached.count >= billed[plan]
                            /\ a.count >= billed[plan],
         Detect(f, i, g, a), UNCHANGED <<ledgerVars, providerVars>>
  PROVE  Moved
  <1> DEFINE n  == Raised(g, a).count
             go == PlanLimit - MandatoryReserve - n - ActiveReservedCost(i) >= MinCalls
  <1>1. n \in Nat /\ n >= a.count /\ a.count \in Nat /\ billed[plan] \in Nat
    BY RaisedType, BurdenType DEF Accounts, CeilingInv
  <1>2. guard' = [guard EXCEPT ![i] = g]
    BY DEF Detect
  <1>3. job' = [job EXCEPT ![f].pc = "sync", ![f].at = i,
                           ![f].snap = [cycle |-> a.cycle, count |-> n], ![f].go = go]
    BY DEF Detect
  <1> HIDE DEF n, go
  <1>4. /\ job'[f].pc = "sync" /\ job'[f].snap.count = n
        /\ \A h \in Keys \ {f} : job'[h] = job[h]
    BY <1>3 DEF CeilingInv, SystemInv, SystemTypeOK, JobState
  <1>5. guard'[i] = g /\ \A k \in Instances \ {i} : guard'[k] = guard[k]
    BY <1>2 DEF CeilingInv, SystemInv, SystemTypeOK
  <1>6. cycle = NoCycle => n >= billed[plan]
    BY <1>1
  <1>7. Dawn'
    <2>1. cycle' = cycle
      BY DEF ledgerVars
    <2> QED
      BY <1>4, <1>5, <1>6, <2>1, DawnMoves DEF CeilingInv
  <1> QED
    BY <1>4, <1>7, EarlyAlone DEF Early

LEMMA UseCachedAccountKept ==
  ASSUME CeilingInv, SystemInv', CycleInv', NEW f \in Keys, NEW i \in Instances,
         UseCachedAccount(f, i)
  PROVE  Moved
  <1> DEFINE a == Raised(guard[i], guard[i].cached)
             g == [guard[i] EXCEPT !.cached = a]
  <1>1. guard[i] \in GuardState /\ guard[i].cached \in Accounts
    BY CachedIsAccount DEF CeilingInv, SystemInv, SystemTypeOK
  <1>2. a \in Accounts /\ a.count >= guard[i].cached.count
    BY <1>1, RaisedType
  <1>3. Detect(f, i, g, a) /\ UNCHANGED <<ledgerVars, providerVars>>
    BY DEF UseCachedAccount
  <1>4. job[f].pc \in Early /\ guard[i].cached # NoAccount
    BY DEF UseCachedAccount, Early
  <1> HIDE DEF a
  <1>5. g \in GuardState /\ g.cached = a
    BY <1>1, <1>2, GuardWith DEF GuardState
  <1>6. cycle = NoCycle => a.count >= billed[plan]
    <2>1. cycle = NoCycle => guard[i].cached.count >= billed[plan]
      BY <1>4 DEF CeilingInv, Dawn
    <2>2. a.count \in Nat /\ guard[i].cached.count \in Nat /\ billed[plan] \in Nat
      BY <1>1, <1>2, BurdenType DEF Accounts, CeilingInv
    <2> QED
      BY <1>2, <2>1, <2>2
  <1> HIDE DEF g
  <1> QED
    BY <1>2, <1>3, <1>4, <1>5, <1>6, DetectKept

LEMMA AccountArrivesKept ==
  ASSUME CeilingInv, SystemInv', CycleInv', NEW f \in Keys, AccountArrives(f)
  PROVE  Moved
  <1> DEFINE i == job[f].at
             g == Heard(guard[i], job[f].snap)
  <1>1. job[f] \in JobState /\ Placed(job[f]) /\ job[f].pc = "account"
    BY DEF CeilingInv, SystemInv, SystemTypeOK, JobOK, AccountArrives
  <1>2. job[f].snap \in Accounts /\ job[f].snap.cycle \in Cycles /\ i \in Instances
    BY <1>1 DEF JobState, Placed, Accounts
  <1>3. guard[i] \in GuardState
    BY <1>2 DEF CeilingInv, SystemInv, SystemTypeOK
  <1>4. g \in GuardState /\ g.cached \in Accounts /\ g.cached.count >= job[f].snap.count
    BY <1>2, <1>3, HeardType
  <1>5. Detect(f, i, g, g.cached) /\ UNCHANGED <<ledgerVars, providerVars>>
    BY DEF AccountArrives
  <1>6. job[f].pc \in Early
    BY <1>1 DEF Early
  <1> HIDE DEF g, i
  <1>7. cycle = NoCycle => g.cached.count >= billed[plan]
    <2>1. cycle = NoCycle => job[f].snap.count >= billed[plan]
      BY <1>1 DEF CeilingInv, Dawn
    <2>2. g.cached.count \in Nat /\ job[f].snap.count \in Nat /\ billed[plan] \in Nat
      BY <1>2, <1>4, BurdenType DEF Accounts, CeilingInv
    <2> QED
      BY <1>4, <2>1, <2>2
  <1> QED
    BY <1>2, <1>4, <1>5, <1>6, <1>7, DetectKept

\* A job with nothing reserved moves without asking the ledger.
LEMMA EarlyGoes ==
  ASSUME CeilingInv, SystemInv', CycleInv', NEW f \in Keys, job[f].pc \in Early,
         \A g \in Keys \ {f} : job'[g] = job[g],
         job'[f].pc \in {"ready", "done"},
         \A i \in Instances : guard'[i].cached = guard[i].cached,
         UNCHANGED <<ledgerVars, providerVars>>
  PROVE  Moved
  <1>1. cycle' = cycle
    BY DEF ledgerVars
  <1>2. Dawn'
    BY <1>1, DawnMoves DEF CeilingInv
  <1> QED
    BY <1>2, EarlyAlone DEF Early

LEMMA AccountFailsKept ==
  ASSUME CeilingInv, SystemInv', CycleInv', NEW f \in Keys, NEW rejected \in BOOLEAN,
         AccountFails(f, rejected)
  PROVE  Moved
  <1> DEFINE i == job[f].at
             t == guard[i].tripped \/ rejected
             g == [guard[i] EXCEPT !.tripped = t]
  <1>1. /\ job[f] \in JobState /\ Placed(job[f]) /\ job[f].pc = "account"
        /\ UNCHANGED <<ledgerVars, providerVars>>
    BY DEF CeilingInv, SystemInv, SystemTypeOK, JobOK, AccountFails
  <1>2. i \in Instances /\ job[f].pc \in Early
    BY <1>1 DEF Placed, Early
  <1>3. guard[i] \in GuardState /\ guard[i].cached \in Accounts
    BY <1>2, CachedIsAccount DEF CeilingInv, SystemInv, SystemTypeOK
  <1>4. t \in BOOLEAN
    OBVIOUS
  <1>5. IF g.cached # NoAccount
        THEN Detect(f, i, g, g.cached)
        ELSE guard' = [guard EXCEPT ![i] = g] /\ job' = [job EXCEPT ![f].pc = "done"]
    BY DEF AccountFails
  <1> HIDE DEF i, t
  <1>6. g \in GuardState /\ g.cached = guard[i].cached
    BY <1>3, <1>4 DEF GuardState
  <1> HIDE DEF g
  <1>7. CASE g.cached # NoAccount
    <2>1. cycle = NoCycle => g.cached.count >= billed[plan]
      BY <1>2, <1>6, <1>7 DEF CeilingInv, Dawn
    <2>2. g.cached \in Accounts
      BY <1>3, <1>6
    <2> QED
      BY <1>1, <1>2, <1>5, <1>6, <1>7, <2>1, <2>2, DetectKept
  <1>8. CASE g.cached = NoAccount
    <2>1. guard' = [guard EXCEPT ![i] = g] /\ job' = [job EXCEPT ![f].pc = "done"]
      BY <1>5, <1>8
    <2>2. \A k \in Instances : guard'[k].cached = guard[k].cached
      BY <1>6, <2>1 DEF CeilingInv, SystemInv, SystemTypeOK
    <2>3. job'[f].pc = "done" /\ \A h \in Keys \ {f} : job'[h] = job[h]
      BY <2>1 DEF CeilingInv, SystemInv, SystemTypeOK, JobState
    <2> QED
      BY <1>1, <1>2, <2>2, <2>3, EarlyGoes
  <1> QED
    BY <1>7, <1>8

LEMMA AskAccountKept ==
  ASSUME CeilingInv, SystemInv', CycleInv', NEW f \in Keys, NEW i \in Instances,
         AskAccount(f, i)
  PROVE  Moved
  <1> DEFINE snap == [cycle |-> plan, count |-> billed[plan]]
  <1>1. job' = [job EXCEPT ![f].pc = "account", ![f].at = i, ![f].snap = snap]
    BY DEF AskAccount
  <1>2. snap.count = billed[plan]
    OBVIOUS
  <1> HIDE DEF snap
  <1>3. /\ job'[f].pc = "account" /\ job'[f].snap.count = billed[plan]
        /\ \A g \in Keys \ {f} : job'[g] = job[g]
    BY <1>1, <1>2 DEF CeilingInv, SystemInv, SystemTypeOK, JobState
  <1>4. UNCHANGED <<ledgerVars, guard, providerVars>> /\ job[f].pc = "idle"
    BY DEF AskAccount
  <1>5. Dawn'
    <2>1. cycle' = cycle /\ guard' = guard /\ billed[plan] \in Nat
      BY <1>4, BurdenType DEF ledgerVars, CeilingInv
    <2> QED
      BY <1>3, <1>4, <2>1, DawnMoves DEF CeilingInv
  <1> QED
    BY <1>3, <1>4, <1>5, EarlyAlone DEF Early

LEMMA FollowUpKept ==
  ASSUME CeilingInv, SystemInv', CycleInv', NEW f \in Keys, NEW i \in Instances,
         FollowUp(f, i)
  PROVE  Moved
  <1>1. job'[f].pc = "ready" /\ \A g \in Keys \ {f} : job'[g] = job[g]
    BY DEF FollowUp, CeilingInv, SystemInv, SystemTypeOK, JobState
  <1>2. UNCHANGED <<ledgerVars, guard, providerVars>> /\ job[f].pc \in Early
    BY DEF FollowUp, Early
  <1> QED
    BY <1>1, <1>2, EarlyGoes

LEMMA ReserveDeniedKept ==
  ASSUME CeilingInv, SystemInv', CycleInv', NEW f \in Keys, ReserveDenied(f)
  PROVE  Moved
  <1>1. job'[f].pc = "done" /\ \A g \in Keys \ {f} : job'[g] = job[g]
    BY DEF ReserveDenied, CeilingInv, SystemInv, SystemTypeOK, JobState
  <1>2. UNCHANGED <<ledgerVars, guard, providerVars>> /\ job[f].pc \in Early
    BY DEF ReserveDenied, Early
  <1> QED
    BY <1>1, <1>2, EarlyGoes

\* A sync that is carried out leaves a row that knows the plan, and what the
\* provider had counted when it is the first.
LEMMA SyncKept ==
  ASSUME OneCycle, CeilingInv, SystemInv', CycleInv', NEW f \in Keys,
         job[f].pc = "sync", SyncAsked(f),
         job'[f].pc \in {"ready", "done"},
         \A g \in Keys \ {f} : job'[g] = job[g],
         UNCHANGED providerVars
  PROVE  Moved
  <1>1. AnySync /\ rows' = rows /\ expired' = expired
    BY SyncIsAny DEF CeilingInv
  <1>2. consumed' >= consumed /\ cycle' # NoCycle
    BY <1>1, SyncWithinCycle DEF CeilingInv
  <1>3. limit' = PlanLimit
    BY DEF SyncAsked, Sync, SyncInsert, SyncSameCycle, SyncRollover, WriteSnapshot
  <1>4. cycle = NoCycle => consumed' = job[f].snap.count
    BY CycleAssumption, SyncIsAny
       DEF SyncAsked, Sync, SyncInsert, SyncSameCycle, SyncRollover, CeilingInv, SystemInv,
           JobOK, Placed
  <1>5. cycle = NoCycle => consumed' >= billed[plan]
    BY <1>4 DEF CeilingInv, Dawn
  <1>6. Dawn' /\ PlanKept'
    BY <1>2, <1>3 DEF Dawn, PlanKept
  <1>7. OnlyJob(f)
    BY <1>1 DEF OnlyJob
  <1>8. plan' = plan /\ billed' = billed /\ stray' = stray
    BY DEF providerVars
  <1> QED
    BY <1>2, <1>5, <1>6, <1>7, <1>8, EarlyKept DEF Early

LEMMA SyncAckedKept ==
  ASSUME OneCycle, CeilingInv, SystemInv', CycleInv', NEW f \in Keys, SyncAcked(f)
  PROVE  Moved
  <1>1. job'[f].pc \in {"ready", "done"} /\ \A g \in Keys \ {f} : job'[g] = job[g]
    BY DEF SyncAcked, CeilingInv, SystemInv, SystemTypeOK, JobState
  <1>2. job[f].pc = "sync" /\ SyncAsked(f) /\ UNCHANGED providerVars
    BY DEF SyncAcked
  <1> QED
    BY <1>1, <1>2, SyncKept

LEMMA SyncUnheardKept ==
  ASSUME OneCycle, CeilingInv, SystemInv', CycleInv', NEW f \in Keys, SyncUnheard(f)
  PROVE  Moved
  <1>1. job'[f].pc \in {"ready", "done"} /\ \A g \in Keys \ {f} : job'[g] = job[g]
    BY DEF SyncUnheard, CeilingInv, SystemInv, SystemTypeOK, JobState
  <1>2. /\ job[f].pc = "sync" /\ (SyncAsked(f) \/ UNCHANGED ledgerVars)
        /\ UNCHANGED <<guard, providerVars>>
    BY DEF SyncUnheard
  <1>3. CASE SyncAsked(f)
    BY <1>1, <1>2, <1>3, SyncKept
  <1>4. CASE UNCHANGED ledgerVars
    BY <1>1, <1>2, <1>4, EarlyGoes DEF Early
  <1> QED
    BY <1>2, <1>3, <1>4

-----------------------------------------------------------------------------
(* The reservation is where the ceiling is compared *)

LEMMA ReserveFits ==
  ASSUME CeilingInv, NEW f \in Keys, job[f].pc = "ready", ReserveAsked(f)
  PROVE  /\ cycle # NoCycle /\ cycle' # NoCycle
         /\ PlanKept' /\ Dawn'
         /\ consumed' = consumed
         /\ consumed + Cardinality(Held) + Size(f)
               <= OperationalCeiling(PlanLimit, MandatoryReserve)
  <1> DEFINE c == guard[job[f].at].tracked
             e == EffectiveReserve(MandatoryReserve)
  <1>1. Reserve(f, Size(f), c, MandatoryReserve)
    BY DEF ReserveAsked
  <1> HIDE DEF c
  <1>2. /\ cycle # NoCycle /\ cycle' # NoCycle /\ limit' = limit /\ consumed' = consumed
        /\ consumed + reserved + Size(f) <= OperationalCeiling(limit, e)
    BY <1>1 DEF Reserve, Fits
  <1>3. PlanKept' /\ Dawn' /\ limit = PlanLimit
    BY <1>2 DEF CeilingInv, PlanKept, Dawn
  <1>4. /\ consumed \in Nat /\ reserved = Cardinality(Held) /\ Cardinality(Held) \in Nat
        /\ mandatoryReserve \in Nat
    BY HeldSize DEF CeilingInv, CycleInv, ReservedCoversHeld, Inv, TypeOK
  <1>5. PlanLimit \in Nat /\ MandatoryReserve \in Nat /\ ReserveFloor \in Nat
    BY SystemAssumption, AmountAssumption
  <1>6. e \in Nat /\ MandatoryReserve <= e
    BY <1>4, <1>5 DEF EffectiveReserve, Greatest
  <1> HIDE DEF e
  <1>7. OperationalCeiling(PlanLimit, e) <= OperationalCeiling(PlanLimit, MandatoryReserve)
    BY <1>5, <1>6, CeilingFalls
  <1>8. /\ OperationalCeiling(PlanLimit, e) \in 0 .. PlanLimit
        /\ OperationalCeiling(PlanLimit, MandatoryReserve) \in 0 .. PlanLimit
    BY <1>5, <1>6, CeilingType
  <1>9. Size(f) \in Nat
    BY SizeType, AmountAssumption
  <1>10. consumed + Cardinality(Held) + Size(f) <= OperationalCeiling(PlanLimit, e)
    BY <1>2, <1>3, <1>4
  <1> DEFINE h == Cardinality(Held)
             p == OperationalCeiling(PlanLimit, e)
             q == OperationalCeiling(PlanLimit, MandatoryReserve)
  <1>11. consumed + h + Size(f) <= q
    <2>1. /\ consumed \in Nat /\ h \in Nat /\ Size(f) \in Nat /\ p \in Int /\ q \in Int
          /\ consumed + h + Size(f) <= p /\ p <= q
      BY <1>4, <1>5, <1>7, <1>8, <1>9, <1>10
    <2> HIDE DEF h, p, q
    <2> QED
      BY <2>1
  <1> QED
    BY <1>2, <1>3, <1>11

LEMMA ReserveUnheardKept ==
  ASSUME CeilingInv, SystemInv', CycleInv', NEW f \in Keys, ReserveUnheard(f)
  PROVE  Moved
  <1>1. /\ job'[f].pc = "done" /\ \A g \in Keys \ {f} : job'[g] = job[g]
        /\ job[f].pc = "ready" /\ ReserveAsked(f) /\ UNCHANGED providerVars
    BY DEF ReserveUnheard, CeilingInv, SystemInv, SystemTypeOK, JobState
  <1>2. OnlyJob(f)
    BY <1>1, ReserveIsNext DEF OnlyJob, CeilingInv
  <1>3. /\ consumed' = consumed /\ consumed \in Nat /\ cycle # NoCycle
        /\ Dawn' /\ PlanKept'
    BY <1>1, ReserveFits, BurdenType DEF CeilingInv
  <1> QED
    BY <1>1, <1>2, <1>3, EarlyKept DEF Early, providerVars

\* What a reservation lets a job send fits below the ceiling together with
\* everything already sent or promised.
LEMMA ReserveAckedKept ==
  ASSUME CeilingInv, SystemInv', CycleInv', NEW f \in Keys, ReserveAcked(f)
  PROVE  /\ CeilingInv'
         /\ plan' = plan /\ billed' = billed
         /\ Potential' <= OperationalCeiling(PlanLimit, MandatoryReserve)
                              + Cardinality(WrittenOff')
  <1>1. /\ job'[f].pc = "send" /\ job'[f].request = job[f].request
        /\ \A g \in Keys \ {f} : job'[g] = job[g]
        /\ job[f].pc = "ready" /\ ReserveAsked(f) /\ UNCHANGED providerVars
    BY DEF ReserveAcked, CeilingInv, SystemInv, SystemTypeOK, JobState
  <1>2. OnlyJob(f)
    BY <1>1, ReserveIsNext DEF OnlyJob, CeilingInv
  <1>3. /\ consumed' = consumed /\ cycle # NoCycle /\ Dawn' /\ PlanKept'
        /\ consumed + Cardinality(Held) + Size(f)
              <= OperationalCeiling(PlanLimit, MandatoryReserve)
    BY <1>1, ReserveFits
  <1>4. \A n \in 1 .. MaxAmount : ~ Answers(job[f], rows[f], n)
    <2>1. JobOK(f, job[f], rows[f]) /\ rows[f].status = "NONE" /\ RowConsistent(rows[f])
      BY <1>1 DEF CeilingInv, SystemInv, JobOK, Fresh, Early, StatusTellsSettlement
    <2> QED
      BY <1>1, <2>1 DEF RowConsistent, JobOK, Fresh, Placed, Early, Answers, Top, NoRow
  <1>5. /\ Cardinality(Owed) <= Cardinality(Owed')
        /\ Cardinality(WrittenOff) <= Cardinality(WrittenOff')
    BY <1>1, <1>2, <1>4, OwedStays, WrittenOffStays
  <1>6. Cardinality(Sendable') <= Cardinality(Sendable) + Size(f)
    BY <1>2, SendableGainsBatch
  <1>7. Burden' = Burden
    <2>1. Flies(job'[f]) = Flies(job[f]) /\ Flies(job[f]) \in Int
      BY <1>1 DEF Flies
    <2>2. Cardinality(Flying') = Cardinality(Flying)
      BY <1>2, <2>1, FlyingByJob, UnitSets
    <2> QED
      BY <1>1, <2>2 DEF Burden, providerVars
  <1>8. Cardinality(Owed) + Cardinality(Sendable) <= Cardinality(Held)
    BY OwedAndSendable DEF CeilingInv
  <1> DEFINE b  == Burden
             o  == Cardinality(Owed)
             on == Cardinality(Owed')
             v  == Cardinality(WrittenOff)
             vn == Cardinality(WrittenOff')
             s  == Cardinality(Sendable)
             sn == Cardinality(Sendable')
             h  == Cardinality(Held)
             c  == OperationalCeiling(PlanLimit, MandatoryReserve)
  <1>9. /\ b \in Int /\ o \in Nat /\ on \in Nat /\ s \in Nat /\ sn \in Nat /\ h \in Nat
        /\ v \in Nat /\ vn \in Nat /\ consumed \in Nat /\ Size(f) \in Nat
    BY BurdenType, UnitSets, NextUnitSets, HeldSize, SizeType DEF CeilingInv
  <1>10. c \in Int
    <2>1. PlanLimit \in Nat /\ MandatoryReserve \in Nat
      BY SystemAssumption, AmountAssumption
    <2> QED
      BY <2>1, CeilingType
  <1>11. b <= consumed + o + v
    BY <1>3, <1>9 DEF CeilingInv, Accounted, Covered
  <1>12. Accounted'
    <2>1. b <= consumed + (on + vn)
      <3>1. o <= on /\ v <= vn
        BY <1>5
      <3> HIDE DEF b, o, on, v, vn
      <3> QED
        BY <1>9, <1>11, <3>1
    <2> QED
      BY <1>3, <1>7, <2>1 DEF Accounted, Covered
  <1>13. Potential' <= c + vn
    <2>1. sn <= s + Size(f) /\ o + s <= h /\ consumed + h + Size(f) <= c
      BY <1>3, <1>6, <1>8
    <2>2. b + sn <= c + vn
      <3>1. v <= vn
        BY <1>5
      <3> HIDE DEF b, o, s, sn, h, c, v, vn
      <3> QED
        BY <1>9, <1>10, <1>11, <2>1, <3>1
    <2> QED
      BY <1>7, <2>2, NextBurdenType
  <1>14. WithinCeiling'
    BY <1>13 DEF WithinCeiling
  <1>15. plan' = plan /\ billed' = billed
    BY <1>1 DEF providerVars
  <1> QED
    BY <1>3, <1>12, <1>13, <1>14, <1>15 DEF CeilingInv

-----------------------------------------------------------------------------
(* Requests and their answers keep the account *)

\* A step on the way of a request: the ledger does not move.
LEMMA RequestKept ==
  ASSUME CeilingInv, SystemInv', CycleInv', NEW f \in Keys, job[f].pc \in Batch,
         \A g \in Keys \ {f} : job'[g] = job[g], UNCHANGED ledgerVars, plan' = plan,
         NEW x \in Nat, NEW y \in Int, NEW d \in Int, NEW w \in Int,
         billed'[plan] = billed[plan] + x, stray' = stray + y,
         x + y - Flies(job[f]) + Flies(job'[f]) <= d,
         x + y - Flies(job[f]) + Flies(job'[f]) <= w,
         Cardinality(Owed) + d <= Cardinality(Owed'),
         Cardinality(Sendable') + w <= Cardinality(Sendable)
  PROVE  Moved
  <1>1. /\ rows' = rows /\ consumed' = consumed /\ cycle' = cycle /\ limit' = limit
        /\ consumed \in Nat
    BY BurdenType DEF ledgerVars, CeilingInv
  <1>2. OnlyJob(f) /\ cycle # NoCycle
    BY <1>1, BatchHasRow DEF OnlyJob, ledgerVars
  <1>3. consumed' = consumed + 0 /\ Cardinality(Owed) + d - 0 - 0 <= Cardinality(Owed')
    BY <1>1, UnitSets
  <1>4. Cardinality(WrittenOff) + 0 <= Cardinality(WrittenOff') /\ 0 \in Nat
    BY <1>2, WrittenOffStays, UnitSets, NextUnitSets DEF Batch
  <1> QED
    BY <1>1, <1>2, <1>3, <1>4, JobKept

\* The same when the job keeps the units it has, and its requests are counted.
LEMMA AnswerKept ==
  ASSUME CeilingInv, SystemInv', CycleInv', NEW f \in Keys, job[f].pc \in Batch,
         \A g \in Keys \ {f} : job'[g] = job[g], UNCHANGED ledgerVars, plan' = plan,
         NEW x \in Nat, NEW y \in Int,
         billed'[plan] = billed[plan] + x, stray' = stray + y,
         x + y + Flies(job'[f]) <= Flies(job[f]),
         \A n \in 1 .. MaxAmount : Answers(job[f], rows[f], n) => Answers(job'[f], rows[f], n),
         \A n \in 1 .. MaxAmount : WillSend(f, job'[f], n) => WillSend(f, job[f], n)
  PROVE  Moved
  <1>1. rows' = rows
    BY DEF ledgerVars
  <1>2. OnlyJob(f)
    BY <1>1 DEF OnlyJob, ledgerVars
  <1>3. /\ Cardinality(Owed) + 0 <= Cardinality(Owed')
        /\ Cardinality(Sendable') + 0 <= Cardinality(Sendable)
    BY <1>1, <1>2, OwedStays, SendableStays, UnitSets, NextUnitSets
  <1>4. x + y - Flies(job[f]) + Flies(job'[f]) <= 0
    BY DEF Flies
  <1> QED
    BY <1>3, <1>4, RequestKept

\* The same when the request in flight is known not to be counted.
LEMMA UncountedKept ==
  ASSUME CeilingInv, SystemInv', CycleInv', NEW f \in Keys, job[f].pc \in Batch,
         \A g \in Keys \ {f} : job'[g] = job[g], UNCHANGED ledgerVars,
         plan' = plan, billed' = billed, stray' = stray,
         job[f].request = "flying", job'[f].request # "flying", NEW m,
         \A n \in 1 .. MaxAmount :
             Answers(job[f], rows[f], n) /\ n # m => Answers(job'[f], rows[f], n),
         \A n \in 1 .. MaxAmount : WillSend(f, job'[f], n) => WillSend(f, job[f], n)
  PROVE  Moved
  <1>1. rows' = rows
    BY DEF ledgerVars
  <1>2. OnlyJob(f)
    BY <1>1 DEF OnlyJob, ledgerVars
  <1>3. /\ Cardinality(Owed) - 1 <= Cardinality(Owed')
        /\ Cardinality(Sendable') <= Cardinality(Sendable)
    BY <1>1, <1>2, OwedLosesOne, SendableStays
  <1>4. Cardinality(Owed) \in Nat /\ Cardinality(Sendable) \in Nat
        /\ Cardinality(Owed') \in Nat /\ Cardinality(Sendable') \in Nat
    BY UnitSets, NextUnitSets
  <1>5. /\ Cardinality(Owed) + (-1) <= Cardinality(Owed')
        /\ Cardinality(Sendable') + 0 <= Cardinality(Sendable)
    BY <1>3, <1>4
  <1> DEFINE d == -1
  <1>6. /\ 0 + 0 - Flies(job[f]) + Flies(job'[f]) <= d
        /\ 0 + 0 - Flies(job[f]) + Flies(job'[f]) <= 0
    BY DEF Flies
  <1>7. /\ billed'[plan] = billed[plan] + 0 /\ stray' = stray + 0
        /\ d \in Int /\ 0 \in Nat /\ 0 \in Int
    BY BurdenType DEF CeilingInv
  <1>8. Cardinality(Owed) + d <= Cardinality(Owed')
    BY <1>5
  <1> HIDE DEF d
  <1> QED
    BY <1>5, <1>6, <1>7, <1>8, RequestKept

LEMMA DispatchKept ==
  ASSUME CeilingInv, SystemInv', CycleInv', NEW f \in Keys, Dispatch(f)
  PROVE  Moved
  <1> DEFINE j == job[f]
             r == rows[f]
             k == job'[f]
             m == job[f].sent + 1
  <1>1. /\ j \in JobState /\ JobOK(f, j, r) /\ j.pc = "send" /\ r \in Row
        /\ Size(f) \in 1 .. MaxAmount /\ MaxAmount \in Nat
    BY SizeType, AmountAssumption
       DEF CeilingInv, SystemInv, SystemTypeOK, TypeOK, Dispatch
  <1>2. /\ job' = [job EXCEPT ![f].pc = "wait", ![f].sent = @ + 1, ![f].request = "flying"]
        /\ UNCHANGED <<ledgerVars, guard, providerVars>>
    BY DEF Dispatch
  <1>3. /\ k.pc = "wait" /\ k.sent = m /\ k.request = "flying"
        /\ \A g \in Keys \ {f} : job'[g] = job[g]
    BY <1>2 DEF CeilingInv, SystemInv, SystemTypeOK, JobState
  <1>4. j.sent \in Nat /\ r.confirmed \in Nat /\ r.confirmed <= j.sent /\ m <= Size(f)
    BY <1>1 DEF JobState, Row, JobOK, InStep, Batch
  <1>5. j.request # "flying" /\ j.request # "rejected"
    BY <1>1 DEF JobOK, Placed
  <1>6. m \in 1 .. MaxAmount
    BY <1>1, <1>4
  <1>7. Flies(j) = 0 /\ Flies(k) = 1
    BY <1>3, <1>5 DEF Flies
  <1>8. rows' = rows /\ OnlyJob(f)
    BY <1>2, <1>3 DEF ledgerVars, OnlyJob
  <1>9. /\ \A n \in 1 .. MaxAmount : Answers(j, r, n) => Answers(k, r, n)
        /\ ~ Answers(j, r, m) /\ Answers(k, r, m)
    BY <1>1, <1>3, <1>4, <1>5 DEF Answers, Top
  <1>10. /\ \A n \in 1 .. MaxAmount : WillSend(f, k, n) => WillSend(f, j, n)
         /\ WillSend(f, j, m) /\ ~ WillSend(f, k, m)
    BY <1>1, <1>3, <1>4 DEF WillSend, Batch
  <1>11. /\ Cardinality(Owed) + 1 <= Cardinality(Owed')
         /\ Cardinality(Sendable') + 1 <= Cardinality(Sendable)
    BY <1>6, <1>8, <1>9, <1>10, OwedGainsOne, SendableLosesOne
  <1>12. /\ plan' = plan /\ billed'[plan] = billed[plan] + 0 /\ stray' = stray + 0
    BY <1>2, BurdenType DEF providerVars, CeilingInv
  <1>13. 0 + 0 - Flies(job[f]) + Flies(job'[f]) <= 1
    BY <1>7
  <1>14. job[f].pc \in Batch
    BY <1>1 DEF Batch
  <1>15. UNCHANGED ledgerVars
    BY <1>2
  <1>16. /\ \A g \in Keys \ {f} : job'[g] = job[g]
         /\ 0 \in Nat /\ 0 \in Int /\ 1 \in Int
    BY <1>3
  <1> HIDE DEF j, r, k, m
  <1> QED
    BY <1>11, <1>12, <1>13, <1>14, <1>15, <1>16, RequestKept

\* What the answered requests of a waiting job come to.
LEMMA WaitingUnits ==
  ASSUME CeilingInv, NEW f \in Keys, job[f].pc = "wait"
  PROVE  /\ job[f] \in JobState /\ job[f].pc \in Batch
         /\ job[f].sent \in Nat
         /\ rows[f].confirmed \in Nat /\ rows[f].amount = Size(f) /\ rows[f].released = 0
         /\ Size(f) \in Nat /\ job[f].sent <= Size(f)
         /\ Top(job[f], rows[f]) = IF job[f].request = "rejected" THEN job[f].sent - 1
                                   ELSE job[f].sent
  <1>1. /\ job[f] \in JobState /\ rows[f] \in Row /\ InStep(f, job[f], rows[f])
        /\ Size(f) \in Nat
    BY SizeType, AmountAssumption DEF CeilingInv, SystemInv, SystemTypeOK, TypeOK, JobOK
  <1>2. job[f].sent \in Nat /\ rows[f].confirmed \in Nat
    BY <1>1 DEF JobState, Row
  <1>3. /\ rows[f].amount = Size(f) /\ rows[f].released = 0
        /\ job[f].sent - 1 <= Size(f) - 1
    BY <1>1, <1>2 DEF InStep, Batch
  <1> QED
    BY <1>1, <1>2, <1>3 DEF Top, Batch

\* The request of a job that waits for its answer.
LEMMA FlyingWaits ==
  ASSUME CeilingInv, NEW f \in Keys, job[f].request = "flying"
  PROVE  job[f].pc = "wait"
  BY DEF CeilingInv, SystemInv, JobOK, Placed

LEMMA ProcessKept ==
  ASSUME CeilingInv, SystemInv', CycleInv', NEW f \in Keys, Process(f)
  PROVE  Moved
  <1> DEFINE j == job[f]
             r == rows[f]
             k == job'[f]
  <1>1. j.request = "flying" /\ j.pc = "wait" /\ j \in JobState
    BY FlyingWaits, WaitingUnits DEF Process
  <1>2. /\ k.request = "processed" /\ k.pc = j.pc /\ k.sent = j.sent
        /\ \A g \in Keys \ {f} : job'[g] = job[g]
    BY DEF Process, CeilingInv, SystemInv, SystemTypeOK, JobState
  <1>3. /\ UNCHANGED ledgerVars /\ plan' = plan
        /\ billed'[plan] = billed[plan] + 1 /\ stray' = stray + 0
    BY BurdenType DEF Process, CeilingInv, SystemInv, SystemTypeOK
  <1>4. 1 + 0 + Flies(k) <= Flies(j)
    BY <1>1, <1>2 DEF Flies
  <1>5. \A n \in 1 .. MaxAmount : Answers(j, r, n) => Answers(k, r, n)
    BY <1>1, <1>2 DEF Answers, Top
  <1>6. \A n \in 1 .. MaxAmount : WillSend(f, k, n) => WillSend(f, j, n)
    BY <1>1, <1>2 DEF WillSend
  <1>7. job[f].pc \in Batch /\ 0 \in Int /\ 1 \in Nat
    BY <1>1 DEF Batch
  <1> QED
    BY <1>2, <1>3, <1>4, <1>5, <1>6, <1>7, AnswerKept

LEMMA RejectKept ==
  ASSUME CeilingInv, SystemInv', CycleInv', NEW f \in Keys, Reject(f)
  PROVE  Moved
  <1> DEFINE j == job[f]
             r == rows[f]
             k == job'[f]
  <1>1. j.request = "flying" /\ j.pc = "wait" /\ j \in JobState /\ j.sent \in Nat
    BY FlyingWaits, WaitingUnits DEF Reject
  <1>2. /\ k.request = "rejected" /\ k.pc = j.pc /\ k.sent = j.sent
        /\ \A g \in Keys \ {f} : job'[g] = job[g]
    BY DEF Reject, CeilingInv, SystemInv, SystemTypeOK, JobState
  <1>3. /\ UNCHANGED ledgerVars /\ plan' = plan /\ billed' = billed /\ stray' = stray
    BY DEF Reject, providerVars
  <1>4. \A n \in 1 .. MaxAmount : Answers(j, r, n) /\ n # j.sent => Answers(k, r, n)
    BY <1>1, <1>2 DEF Answers, Top
  <1>5. \A n \in 1 .. MaxAmount : WillSend(f, k, n) => WillSend(f, j, n)
    BY <1>1, <1>2 DEF WillSend
  <1>6. job[f].pc \in Batch /\ job'[f].request # "flying"
    BY <1>1, <1>2 DEF Batch
  <1> QED
    BY <1>1, <1>2, <1>3, <1>4, <1>5, <1>6, UncountedKept

LEMMA ServeCachedKept ==
  ASSUME CeilingInv, SystemInv', CycleInv', NEW f \in Keys, NEW fresh \in BOOLEAN,
         ServeCached(f, fresh)
  PROVE  Moved
  <1> DEFINE j == job[f]
             r == rows[f]
             k == job'[f]
             y == IF fresh THEN 0 ELSE 1
  <1>1. j.request = "flying" /\ j.pc = "wait" /\ j \in JobState
    BY FlyingWaits, WaitingUnits DEF ServeCached
  <1>2. /\ k.request = "processed" /\ k.pc = j.pc /\ k.sent = j.sent
        /\ \A g \in Keys \ {f} : job'[g] = job[g]
    BY DEF ServeCached, CeilingInv, SystemInv, SystemTypeOK, JobState
  <1>3. /\ UNCHANGED ledgerVars /\ plan' = plan /\ y \in Int
        /\ billed'[plan] = billed[plan] + 0 /\ stray' = stray + y
    BY BurdenType DEF ServeCached, CeilingInv
  <1>4. 0 + y + Flies(k) <= Flies(j)
    BY <1>1, <1>2 DEF Flies
  <1>5. \A n \in 1 .. MaxAmount : Answers(j, r, n) => Answers(k, r, n)
    BY <1>1, <1>2 DEF Answers, Top
  <1>6. \A n \in 1 .. MaxAmount : WillSend(f, k, n) => WillSend(f, j, n)
    BY <1>1, <1>2 DEF WillSend
  <1>7. job[f].pc \in Batch /\ 0 \in Nat
    BY <1>1 DEF Batch
  <1> HIDE DEF y
  <1> QED
    BY <1>2, <1>3, <1>4, <1>5, <1>6, <1>7, AnswerKept

\* The record of a job that asks for a settlement.
LEMMA SettlingRecord ==
  ASSUME NEW f \in Keys, job[f] \in JobState, NEW how, NEW conf, NEW rel, NEW next,
         NEW j, j = Settling(f, how, conf, rel, next)
  PROVE  /\ j.pc = "settle" /\ j.request = "none" /\ j.sent = job[f].sent
         /\ j.task.conf = conf /\ j.task.next = next
  BY DEF Settling, JobState

LEMMA ReplyKept ==
  ASSUME CeilingInv, SystemInv', CycleInv', NEW f \in Keys, Reply(f)
  PROVE  Moved
  <1> DEFINE j == job[f]
             r == rows[f]
             k == job'[f]
             next == IF j.sent < Size(f) THEN "send" ELSE "done"
  <1>1. j.request = "processed" /\ j.pc = "wait" /\ j \in JobState
    BY WaitingUnits DEF Reply
  <1>2. k = Settling(f, "confirm", 1, 0, next) /\ \A g \in Keys \ {f} : job'[g] = job[g]
    BY DEF Reply, CeilingInv, SystemInv, SystemTypeOK
  <1>3. k.pc = "settle" /\ k.request = "none" /\ k.sent = j.sent /\ k.task.conf = 1
    BY <1>1, <1>2, SettlingRecord
  <1>4. /\ UNCHANGED ledgerVars /\ plan' = plan
        /\ billed'[plan] = billed[plan] + 0 /\ stray' = stray + 0
    BY BurdenType DEF Reply, providerVars, CeilingInv
  <1>5. 0 + 0 + Flies(k) <= Flies(j)
    BY <1>1, <1>3 DEF Flies
  <1>6. \A n \in 1 .. MaxAmount : Answers(j, r, n) => Answers(k, r, n)
    BY <1>1, <1>3 DEF Answers, Top
  <1>7. \A n \in 1 .. MaxAmount : WillSend(f, k, n) => WillSend(f, j, n)
    BY <1>1, <1>3 DEF WillSend, Batch
  <1>8. job[f].pc \in Batch /\ 0 \in Nat /\ 0 \in Int
    BY <1>1 DEF Batch
  <1> HIDE DEF next
  <1> QED
    BY <1>2, <1>4, <1>5, <1>6, <1>7, <1>8, AnswerKept

LEMMA RejectionKept ==
  ASSUME CeilingInv, SystemInv', CycleInv', NEW f \in Keys, Rejection(f)
  PROVE  Moved
  <1> DEFINE j == job[f]
             r == rows[f]
             k == job'[f]
  <1>1. j.request = "rejected" /\ j.pc = "wait" /\ j \in JobState /\ j.sent \in Nat
    BY WaitingUnits DEF Rejection
  <1>2. /\ k = Settling(f, "rejected", 0, Remaining(f), "done")
        /\ \A g \in Keys \ {f} : job'[g] = job[g]
    BY DEF Rejection, CeilingInv, SystemInv, SystemTypeOK
  <1>3. /\ k.pc = "settle" /\ k.request = "none" /\ k.sent = j.sent /\ k.task.conf = 0
        /\ k.task.next = "done"
    BY <1>1, <1>2, SettlingRecord
  <1>4. /\ UNCHANGED ledgerVars /\ plan' = plan
        /\ billed'[plan] = billed[plan] + 0 /\ stray' = stray + 0
    BY BurdenType DEF Rejection, providerVars, CeilingInv
  <1>5. 0 + 0 + Flies(k) <= Flies(j)
    BY <1>1, <1>3 DEF Flies
  <1>6. \A n \in 1 .. MaxAmount : Answers(j, r, n) => Answers(k, r, n)
    BY <1>1, <1>3 DEF Answers, Top
  <1>7. \A n \in 1 .. MaxAmount : WillSend(f, k, n) => WillSend(f, j, n)
    BY <1>3 DEF WillSend
  <1>8. job[f].pc \in Batch /\ 0 \in Nat /\ 0 \in Int
    BY <1>1 DEF Batch
  <1> QED
    BY <1>2, <1>4, <1>5, <1>6, <1>7, <1>8, AnswerKept

\* A transport error of a text that says whether the request left, or of one
\* that does not: then the row goes on to answer for it.
LEMMA BrokenKept ==
  ASSUME CeilingInv, SystemInv', CycleInv', NEW f \in Keys, NEW text \in Texts,
         Broken(f, text)
  PROVE  Moved
  <1> DEFINE j    == job[f]
             r    == rows[f]
             k    == job'[f]
             how  == IF text # "ambiguous" THEN "free"
                     ELSE IF f \in OddsJobs THEN "charge" ELSE "confirm"
             conf == IF text = "ambiguous" THEN 1 ELSE 0
             rel  == Remaining(f) - conf
             s    == Settling(f, how, conf, rel, "done")
  <1>1. j.pc = "wait" /\ j \in JobState /\ j.sent \in Nat
    BY WaitingUnits DEF Broken
  <1>2. job' = [job EXCEPT ![f] = [s EXCEPT !.guess = text]]
    BY DEF Broken
  <1>3. /\ s.pc = "settle" /\ s.request = "none" /\ s.sent = j.sent /\ s.task.conf = conf
        /\ s.task.next = "done"
    BY <1>1, SettlingRecord
  <1>4. [s EXCEPT !.guess = text] = [j EXCEPT !.pc = "settle", !.request = "none",
                                              !.task = s.task, !.guess = text]
    BY <1>1 DEF Settling, JobState
  <1> HIDE DEF s
  <1>5. /\ k.pc = "settle" /\ k.request = "none" /\ k.sent = j.sent
        /\ k.task = s.task /\ k.guess = text
        /\ \A g \in Keys \ {f} : job'[g] = job[g]
    <2>1. k = [j EXCEPT !.pc = "settle", !.request = "none",
                        !.task = s.task, !.guess = text]
      BY <1>2, <1>4 DEF CeilingInv, SystemInv, SystemTypeOK
    <2>2. \A g \in Keys \ {f} : job'[g] = job[g]
      BY <1>2 DEF CeilingInv, SystemInv, SystemTypeOK
    <2> QED
      BY <1>1, <2>1, <2>2 DEF JobState
  <1>6. k.task.conf = conf /\ k.task.next = "done"
    BY <1>3, <1>5
  <1>7. \A n \in 1 .. MaxAmount : WillSend(f, k, n) => WillSend(f, j, n)
    BY <1>5, <1>6 DEF WillSend
  <1>8. /\ UNCHANGED ledgerVars /\ plan' = plan /\ billed' = billed
        /\ stray' = IF text # "early" /\ j.request = "flying" THEN stray + 1 ELSE stray
        /\ text = "early" => j.request = "flying"
    BY DEF Broken
  <1>9. job[f].pc \in Batch
    BY <1>1 DEF Batch
  <1>10. CASE text = "early"
    <2>1. \A n \in 1 .. MaxAmount : Answers(j, r, n) /\ n # j.sent => Answers(k, r, n)
      BY <1>1, <1>5, <1>6, <1>8, <1>10 DEF Answers, Top
    <2>2. stray' = stray /\ job[f].request = "flying" /\ job'[f].request # "flying"
      BY <1>5, <1>8, <1>10
    <2> QED
      BY <1>5, <1>7, <1>8, <1>9, <2>1, <2>2, UncountedKept
  <1>11. CASE text = "ambiguous"
    <2>1. \A n \in 1 .. MaxAmount : Answers(j, r, n) => Answers(k, r, n)
      BY <1>1, <1>5, <1>6, <1>11 DEF Answers, Top
    <2>2. /\ stray' = stray + Flies(j)
          /\ billed'[plan] = billed[plan] + 0
          /\ 0 + Flies(j) + Flies(k) <= Flies(j)
          /\ Flies(j) \in Int /\ 0 \in Nat
      BY <1>5, <1>8, <1>11, BurdenType DEF Flies, CeilingInv
    <2> QED
      BY <1>5, <1>7, <1>8, <1>9, <2>1, <2>2, AnswerKept
  <1>12. CASE text = "opaque"
    <2>1. Unsure(k)
      BY <1>5, <1>12 DEF Unsure
    <2>2. \A n \in 1 .. MaxAmount : Answers(j, r, n) => Answers(k, r, n)
      BY <1>1, <1>5, <1>6, <2>1 DEF Answers, Top
    <2>3. /\ stray' = stray + Flies(j)
          /\ billed'[plan] = billed[plan] + 0
          /\ 0 + Flies(j) + Flies(k) <= Flies(j)
          /\ Flies(j) \in Int /\ 0 \in Nat
      BY <1>5, <1>8, <1>12, BurdenType DEF Flies, CeilingInv
    <2> QED
      BY <1>5, <1>7, <1>8, <1>9, <2>2, <2>3, AnswerKept
  <1> QED
    BY <1>10, <1>11, <1>12, SystemAssumption

-----------------------------------------------------------------------------
(* Settlements keep the account *)

\* A job gives up a request it cannot say was counted.
Doubted(j) == j.task.conf = 0 /\ Unsure(j)

\* What a settling job's row answers for, before and after: the doubted request
\* is lost when the ledger gives its unit back.
LEMMA SettleUnits ==
  ASSUME CeilingInv, NEW f \in Keys, job[f].pc = "settle",
         NEW k, k.pc = job[f].task.next, k.sent = job[f].sent, k.request = "none",
         NEW r, r.confirmed = rows[f].confirmed \/
                    r.confirmed = rows[f].confirmed + job[f].task.conf,
         r.confirmed = rows[f].confirmed => r.amount = rows[f].amount /\
             (r.released = 0 \/ (r.released = job[f].task.rel /\ job[f].task.conf = 0)),
         r.confirmed # rows[f].confirmed =>
             r.amount = rows[f].amount /\ r.released = job[f].task.rel
  PROVE  /\ \A n \in 1 .. MaxAmount :
                /\ Answers(job[f], rows[f], n) /\ n > r.confirmed
                /\ ~ (Doubted(job[f]) /\ r.released > 0 /\ n = job[f].sent)
                => Answers(k, r, n)
         /\ \A n \in 1 .. MaxAmount : WillSend(f, k, n) => WillSend(f, job[f], n)
  <1> DEFINE j    == job[f]
             conf == job[f].task.conf
             rel  == job[f].task.rel
             next == job[f].task.next
             top  == IF conf = 0 /\ ~ Unsure(j) THEN j.sent - 1 ELSE j.sent
  <1>1. /\ j \in JobState /\ j.request = "none" /\ j.pc = "settle"
        /\ Size(f) \in Nat /\ j.sent \in 1 .. Size(f)
        /\ rows[f].amount = Size(f) /\ rows[f].confirmed \in Nat
        /\ conf \in 0 .. 1 /\ rel \in Nat /\ next \in {"send", "done"}
        /\ next = "send" => conf = 1 /\ rel = 0
        /\ next = "done" => conf + rel = Size(f) - j.sent + 1
    BY Asking DEF CeilingInv
  <1>2. Top(j, rows[f]) = top
    BY <1>1 DEF Top
  <1>3. CASE next = "send"
    <2>1. top = j.sent /\ Top(k, r) = j.sent
      BY <1>1, <1>3 DEF Top
    <2>2. \A n \in 1 .. MaxAmount :
              Answers(j, rows[f], n) /\ n > r.confirmed => Answers(k, r, n)
      BY <1>1, <1>2, <2>1 DEF Answers
    <2> QED
      BY <1>1, <1>3, <2>2 DEF WillSend, Batch
  <1>4. CASE next = "done"
    <2>1. Top(k, r) = r.amount - r.released
      BY <1>4 DEF Top
    <2>2. /\ r.amount = Size(f) /\ r.confirmed \in Nat
          /\ r.released = 0 \/ r.released = rel
      BY <1>1
    <2>3. ASSUME NEW n \in 1 .. MaxAmount, n <= top,
                 ~ (conf = 0 /\ Unsure(j) /\ r.released > 0 /\ n = j.sent)
          PROVE  n <= r.amount - r.released
      <3>1. n \in Int /\ n <= j.sent /\ n <= Size(f)
        BY <1>1, <2>3
      <3>2. CASE r.released = 0
        BY <1>1, <2>2, <3>1, <3>2
      <3>3. CASE r.released = rel /\ conf = 1
        BY <1>1, <1>4, <2>2, <3>1, <3>3
      <3>4. CASE r.released = rel /\ conf = 0 /\ rel > 0
        <4>1. n <= j.sent - 1
          BY <1>1, <2>3, <3>1, <3>4
        <4> QED
          BY <1>1, <1>4, <2>2, <3>1, <3>4, <4>1
      <3> QED
        BY <1>1, <2>2, <3>2, <3>3, <3>4
    <2> HIDE DEF top
    <2>4. \A n \in 1 .. MaxAmount :
              /\ Answers(j, rows[f], n) /\ n > r.confirmed
              /\ ~ (Doubted(j) /\ r.released > 0 /\ n = j.sent)
              => Answers(k, r, n)
      <3> SUFFICES ASSUME NEW n \in 1 .. MaxAmount, Answers(j, rows[f], n), n > r.confirmed,
                          ~ (Doubted(j) /\ r.released > 0 /\ n = j.sent)
                   PROVE  Answers(k, r, n)
        OBVIOUS
      <3>1. n <= top /\ n \in Int
        BY <1>2 DEF Answers
      <3>2. n <= r.amount - r.released
        BY <2>3, <3>1 DEF Doubted
      <3> QED
        BY <2>1, <2>2, <3>1, <3>2 DEF Answers
    <2>5. \A n \in 1 .. MaxAmount : ~ WillSend(f, k, n)
      BY <1>4 DEF WillSend, Batch
    <2> QED
      BY <2>4, <2>5
  <1> QED
    BY <1>1, <1>3, <1>4

\* The job after a settlement.
LEMMA SettledJob ==
  ASSUME CeilingInv, NEW f \in Keys, NEW g, NEW entry, NEW hurt, Settle(f, g, entry, hurt)
  PROVE  /\ job[f].pc = "settle"
         /\ job'[f].pc = job[f].task.next /\ job'[f].sent = job[f].sent
         /\ job'[f].request = "none" /\ job[f].request = "none"
         /\ job'[f].guess = job[f].guess
         /\ \A h \in Keys \ {f} : job'[h] = job[h]
         /\ UNCHANGED providerVars
  <1> DEFINE e == entry
             h == job[f].hurt \/ hurt
  <1>1. job[f].pc = "settle" /\ UNCHANGED providerVars
    BY DEF Settle
  <1>2. job' = [job EXCEPT ![f].pc = job[f].task.next, ![f].task = NoTask,
                           ![f].entry = e, ![f].hurt = h]
    BY DEF Settle
  <1> HIDE DEF e, h
  <1>3. job[f].request = "none" /\ job[f] \in JobState
    BY <1>1, Asking DEF CeilingInv
  <1> QED
    BY <1>1, <1>2, <1>3 DEF CeilingInv, SystemInv, SystemTypeOK, JobState

\* A settlement that the ledger carries out moves units from the owed to the
\* consumed, or a doubted one to those given up; one that does not reach it
\* moves nothing.
LEMMA SettleKept ==
  ASSUME CeilingInv, SystemInv', CycleInv', NEW f \in Keys, NEW g, NEW entry, NEW hurt,
         Settle(f, g, entry, hurt), SettleAsked(f) \/ UNCHANGED ledgerVars
  PROVE  Moved
  <1> DEFINE j    == job[f]
             k    == job'[f]
             r    == rows'[f]
             conf == job[f].task.conf
  <1>1. /\ j.pc = "settle" /\ k.pc = j.task.next /\ k.sent = j.sent
        /\ k.request = "none" /\ j.request = "none" /\ k.guess = j.guess
        /\ \A h \in Keys \ {f} : job'[h] = job[h]
        /\ UNCHANGED providerVars
    BY SettledJob
  <1>2. /\ conf \in 0 .. 1 /\ rows[f].confirmed \in Nat /\ rows[f].released = 0
        /\ rows[f].amount = Size(f) /\ Size(f) \in 1 .. MaxAmount /\ MaxAmount \in Nat
        /\ j.sent \in 1 .. Size(f) /\ j.task.rel \in Nat
        /\ conf = 0 => j.task.next = "done" /\ j.task.rel = Size(f) - j.sent + 1
    BY <1>1, Asking DEF CeilingInv
  <1>3. /\ plan' = plan /\ billed'[plan] = billed[plan] + 0 /\ stray' = stray + 0
    BY <1>1, BurdenType DEF providerVars, CeilingInv
  <1>4. cycle # NoCycle
    BY <1>1, BatchHasRow DEF Batch
  <1>5. Flies(job[f]) = 0 /\ Flies(job'[f]) = 0
    BY <1>1 DEF Flies
  <1>6. 0 + 0 - Flies(job[f]) + Flies(job'[f]) <= 0
    BY <1>5
  <1>7. /\ Cardinality(Owed) \in Nat /\ Cardinality(Owed') \in Nat
        /\ Cardinality(Sendable) \in Nat /\ Cardinality(Sendable') \in Nat
        /\ Cardinality(WrittenOff) \in Nat /\ Cardinality(WrittenOff') \in Nat
        /\ consumed \in Nat
    BY UnitSets, NextUnitSets, BurdenType DEF CeilingInv
  <1>8. CASE SettleAsked(f)
    <2>1. /\ rows' = [rows EXCEPT ![f] = Settled(rows[f], conf, j.task.rel, NoStep)]
          /\ consumed' = consumed + conf
          /\ cycle' = cycle /\ limit' = limit
      BY <1>1, <1>8, SettleIsNext DEF CeilingInv, stateVars
    <2>2. /\ r = Settled(rows[f], conf, j.task.rel, NoStep)
          /\ OnlyJob(f)
      BY <1>1, <1>8, <2>1, SettleIsNext
         DEF OnlyJob, CeilingInv, SystemInv, SystemTypeOK, TypeOK
    <2>3. /\ r.confirmed = rows[f].confirmed + conf
          /\ r.released = j.task.rel /\ r.amount = Size(f)
      BY <1>1, <2>2, RowAfter DEF CeilingInv
    <2>4. r.confirmed = rows[f].confirmed => conf = 0
      BY <1>2, <2>3
    <2>5. /\ \A n \in 1 .. MaxAmount :
                 /\ Answers(j, rows[f], n) /\ n > r.confirmed
                 /\ ~ (Doubted(j) /\ r.released > 0 /\ n = j.sent)
                 => Answers(k, r, n)
          /\ \A n \in 1 .. MaxAmount : WillSend(f, k, n) => WillSend(f, j, n)
      BY <1>1, <1>2, <2>3, <2>4, SettleUnits
    <2>6. Cardinality(Sendable') + 0 <= Cardinality(Sendable)
      BY <1>7, <2>2, <2>5, SendableStays
    <2> DEFINE t == IF Doubted(j) THEN 1 ELSE 0
    <2>7. /\ Cardinality(WrittenOff) + t <= Cardinality(WrittenOff')
          /\ Cardinality(Owed) + 0 - conf - t <= Cardinality(Owed')
      <3>1. CASE conf = 0 /\ ~ Doubted(j)
        <4>1. \A n \in 1 .. MaxAmount : Answers(j, rows[f], n) => Answers(k, r, n)
          BY <1>2, <2>3, <2>5, <3>1 DEF Answers
        <4>2. /\ Cardinality(Owed) <= Cardinality(Owed')
              /\ Cardinality(WrittenOff) <= Cardinality(WrittenOff')
          BY <1>1, <2>2, <4>1, OwedStays, WrittenOffStays
        <4> QED
          BY <1>7, <3>1, <4>2
      <3>2. CASE conf = 1
        <4>1. ~ Doubted(j)
          BY <3>2 DEF Doubted
        <4>2. \A n \in 1 .. MaxAmount :
                  Answers(j, rows[f], n) /\ n # r.confirmed => Answers(k, r, n)
          BY <1>2, <2>3, <2>5, <3>2, <4>1 DEF Answers
        <4>3. /\ Cardinality(Owed) - 1 <= Cardinality(Owed')
              /\ Cardinality(WrittenOff) <= Cardinality(WrittenOff')
          BY <1>1, <2>2, <4>2, OwedLosesOne, WrittenOffStays
        <4> QED
          BY <1>7, <3>2, <4>1, <4>3
      <3>3. CASE conf = 0 /\ Doubted(j)
        <4> DEFINE m == j.sent
        <4>1. m \in 1 .. MaxAmount
          BY <1>2
        <4>2. \A n \in 1 .. MaxAmount :
                  Answers(j, rows[f], n) /\ n # m => Answers(k, r, n)
          BY <1>2, <2>3, <2>5, <3>3 DEF Answers
        <4>3. GivenUp(f, k, r, {}, m)
          <5>1. k.pc = "done" /\ k.guess = "opaque"
            BY <1>1, <1>2, <3>3 DEF Doubted, Unsure
          <5>2. r.amount - r.released = m - 1 /\ r.amount = Size(f) /\ m \in 1 .. Size(f)
            BY <1>2, <2>3, <3>3
          <5> HIDE DEF k, r, m
          <5> QED
            BY <1>2, <5>1, <5>2 DEF GivenUp
        <4>4. job[f].pc # "done"
          BY <1>1
        <4> HIDE DEF m
        <4>5. /\ Cardinality(Owed) - 1 <= Cardinality(Owed')
              /\ Cardinality(WrittenOff) + 1 <= Cardinality(WrittenOff')
          BY <2>2, <4>1, <4>2, <4>3, <4>4, OwedLosesOne, WrittenOffGainsOne
        <4> QED
          BY <1>7, <3>3, <4>5
      <3> QED
        BY <1>2, <3>1, <3>2, <3>3
    <2>8. conf \in Int /\ t \in Nat /\ 0 \in Nat /\ 0 \in Int
      BY <1>2
    <2> HIDE DEF conf, t
    <2> QED
      BY <1>3, <1>4, <1>6, <2>1, <2>2, <2>6, <2>7, <2>8, JobKept
  <1>9. CASE UNCHANGED ledgerVars
    <2>1. rows' = rows
      BY <1>9 DEF ledgerVars
    <2>2. /\ r.confirmed = rows[f].confirmed /\ r.amount = rows[f].amount
          /\ r.released = 0
      BY <1>2, <2>1
    <2>3. /\ \A n \in 1 .. MaxAmount :
                 /\ Answers(j, rows[f], n) /\ n > r.confirmed
                 /\ ~ (Doubted(j) /\ r.released > 0 /\ n = j.sent)
                 => Answers(k, r, n)
          /\ \A n \in 1 .. MaxAmount : WillSend(f, k, n) => WillSend(f, j, n)
      <3>1. /\ (r.confirmed = rows[f].confirmed
                \/ r.confirmed = rows[f].confirmed + job[f].task.conf)
            /\ r.confirmed = rows[f].confirmed => r.amount = rows[f].amount /\
                 (r.released = 0 \/ (r.released = job[f].task.rel /\ job[f].task.conf = 0))
            /\ r.confirmed # rows[f].confirmed =>
                  r.amount = rows[f].amount /\ r.released = job[f].task.rel
        BY <2>2
      <3> HIDE DEF k, r
      <3> QED
        BY <1>1, <3>1, SettleUnits
    <2>4. \A n \in 1 .. MaxAmount : Answers(j, rows[f], n) => Answers(k, rows[f], n)
      BY <1>2, <2>1, <2>2, <2>3 DEF Answers
    <2>5. /\ 0 + 0 + Flies(job'[f]) <= Flies(job[f]) /\ 0 \in Nat /\ 0 \in Int
          /\ job[f].pc \in Batch
      BY <1>1, <1>5 DEF Batch
    <2> QED
      BY <1>1, <1>3, <1>9, <2>3, <2>4, <2>5, AnswerKept
  <1> QED
    BY <1>8, <1>9

LEMMA SettleAckedKept ==
  ASSUME CeilingInv, SystemInv', CycleInv', NEW f \in Keys, SettleAcked(f)
  PROVE  Moved
  BY SettleKept DEF SettleAcked

LEMMA SettleUnheardKept ==
  ASSUME CeilingInv, SystemInv', CycleInv', NEW f \in Keys, NEW thrown \in BOOLEAN,
         SettleUnheard(f, thrown)
  PROVE  Moved
  BY SettleKept DEF SettleUnheard

-----------------------------------------------------------------------------
(* Crashes and stray requests keep the account *)

LEMMA CrashKept ==
  ASSUME CeilingInv, SystemInv', CycleInv', NEW i \in Instances, Crash(i)
  PROVE  Moved
  <1> DEFINE X == {f \in Keys : job[f].at = i /\ job[f].request = "flying"}
             H(f) == job[f].hurt \/ Alive(f)
             D(f) == [job[f] EXCEPT !.pc = "done", !.at = NoInstance, !.request = "none",
                                    !.task = NoTask, !.entry = 0, !.hurt = H(f)]
  <1>1. /\ UNCHANGED <<ledgerVars, plan, past, billed>>
        /\ guard' = [guard EXCEPT ![i] = ColdGuard]
        /\ stray' = stray + Cardinality(X)
        /\ job' = [f \in Keys |-> IF job[f].at # i THEN job[f] ELSE D(f)]
    BY DEF Crash
  <1>2. /\ rows' = rows /\ consumed' = consumed /\ cycle' = cycle /\ limit' = limit
        /\ plan' = plan /\ billed' = billed /\ expired' = expired
    BY <1>1 DEF ledgerVars
  <1>3. /\ \A f \in Keys : job[f].at # i => job'[f] = job[f]
        /\ \A f \in Keys : job[f].at = i =>
               /\ job'[f].pc = "done" /\ job'[f].request = "none"
               /\ job'[f].guess = job[f].guess
    <2>1. ASSUME NEW f \in Keys, job[f].at = i
          PROVE  /\ job'[f].pc = "done" /\ job'[f].request = "none"
                 /\ job'[f].guess = job[f].guess
      <3> DEFINE h == H(f)
      <3>1. job'[f] = [job[f] EXCEPT !.pc = "done", !.at = NoInstance, !.request = "none",
                                     !.task = NoTask, !.entry = 0, !.hurt = h]
        BY <1>1, <2>1
      <3> HIDE DEF h
      <3> QED
        BY <3>1 DEF CeilingInv, SystemInv, SystemTypeOK, JobState
    <2> QED
      BY <1>1, <2>1
  <1>4. X \subseteq Flying /\ Flying' = Flying \ X
    BY <1>3 DEF Flying
  <1>5. /\ IsFiniteSet(Flying) /\ Cardinality(Flying) \in Nat
        /\ IsFiniteSet(X) /\ Cardinality(X) \in Nat
        /\ Cardinality(Flying') = Cardinality(Flying) - Cardinality(X)
    <2>1. IsFiniteSet(Flying) /\ Cardinality(Flying) \in Nat
      BY UnitSets
    <2>2. IsFiniteSet(X) /\ Cardinality(X) \in Nat
      BY <1>4, <2>1, CountSubset
    <2>3. Cardinality(Flying \ X) = Cardinality(Flying) - Cardinality(Flying \cap X)
      BY <2>1, FS_Difference
    <2>4. Flying \cap X = X
      BY <1>4
    <2> HIDE DEF X
    <2> QED
      BY <1>4, <2>1, <2>2, <2>3, <2>4
  <1> HIDE DEF X
  <1>6. Burden' = Burden
    <2> DEFINE fl == Cardinality(Flying)
               fn == Cardinality(Flying')
               x  == Cardinality(X)
               b  == billed[plan]
    <2>1. Burden = b + stray + fl /\ Burden' = b + stray' + fn
      BY <1>2, NextBurdenType DEF Burden
    <2>2. /\ fl \in Nat /\ x \in Nat /\ fn = fl - x /\ stray' = stray + x
          /\ stray \in Nat /\ b \in Nat
      BY <1>1, <1>5, BurdenType DEF CeilingInv
    <2> HIDE DEF fl, fn, x, b
    <2> QED
      BY <2>1, <2>2
  <1>7. \A f \in Keys, n \in 1 .. MaxAmount :
            /\ Answers(job[f], rows[f], n) => Answers(job'[f], rows[f], n)
            /\ WillSend(f, job'[f], n) => WillSend(f, job[f], n)
    <2> TAKE f \in Keys, n \in 1 .. MaxAmount
    <2>1. CASE job[f].at # i
      BY <1>3, <2>1
    <2>2. CASE job[f].at = i
      <3> DEFINE j == job[f]
                 r == rows[f]
                 k == job'[f]
      <3>1. k.pc = "done" /\ ~ WillSend(f, k, n)
        BY <1>3, <2>2 DEF WillSend, Batch
      <3>2. /\ j \in JobState /\ r \in Row /\ JobOK(f, j, r) /\ n \in Int
            /\ Size(f) \in Nat
        BY SizeType, AmountAssumption DEF CeilingInv, SystemInv, SystemTypeOK, TypeOK
      <3>3. j.sent \in Nat /\ r.confirmed \in Nat /\ r.amount \in Nat /\ r.released \in Nat
        BY <3>2 DEF JobState, Row
      <3>4. Answers(j, r, n) => n <= r.amount - r.released
        <4>1. CASE j.pc \in Early
          BY <3>2, <3>3, <4>1 DEF JobOK, Fresh, Placed, Early, Answers, Top
        <4>2. CASE j.pc \in Batch
          <5>1. r.amount = Size(f) /\ r.released = 0 /\ j.sent <= Size(f)
            BY <3>2, <3>3, <4>2 DEF JobOK, InStep
          <5> QED
            BY <3>2, <3>3, <4>2, <5>1 DEF Answers, Top, Batch
        <4>3. CASE j.pc = "done"
          BY <4>3 DEF Answers, Top
        <4> QED
          BY <3>2, <4>1, <4>2, <4>3 DEF JobState, Early, Batch
      <3> QED
        BY <3>1, <3>4 DEF Answers, Top
    <2> QED
      BY <2>1, <2>2
  <1>8. Owed \subseteq Owed' /\ Sendable' \subseteq Sendable
    BY <1>2, <1>7 DEF Owed, Sendable, Units
  <1>8a. WrittenOff \subseteq WrittenOff'
    <2> SUFFICES ASSUME NEW u \in Units, u \in WrittenOff PROVE u \in WrittenOff'
      BY DEF WrittenOff
    <2>1. GivenUp(u[1], job[u[1]], rows[u[1]], expired, u[2]) /\ u[1] \in Keys
      BY WrittenOffBy DEF Units
    <2>2. /\ job'[u[1]].pc = "done" \/ job'[u[1]] = job[u[1]]
          /\ job'[u[1]].guess = job[u[1]].guess
      BY <1>3, <2>1
    <2>3. GivenUp(u[1], job'[u[1]], rows'[u[1]], expired', u[2])
      BY <1>2, <2>1, <2>2 DEF GivenUp
    <2> QED
      BY <2>3, WrittenOffBy
  <1>9. /\ Cardinality(Owed) <= Cardinality(Owed')
        /\ Cardinality(Sendable') <= Cardinality(Sendable)
        /\ Cardinality(WrittenOff) <= Cardinality(WrittenOff')
    BY <1>8, <1>8a, UnitSets, NextUnitSets, CountSubset
  <1>10. Dawn'
    <2>1. cycle = NoCycle => stray' = 0
      <3> SUFFICES ASSUME cycle = NoCycle PROVE stray' = 0
        OBVIOUS
      <3>1. Flying = {} /\ stray = 0
        BY NothingAtDawn DEF CeilingInv, Dawn
      <3>2. Cardinality(X) = 0
        BY <1>4, <3>1, FS_EmptySet
      <3>3. stray' = stray + Cardinality(X)
        BY <1>1
      <3> QED
        BY <3>1, <3>2, <3>3
    <2>2. \A k \in Instances :
              guard'[k].cached = NoAccount \/ guard'[k].cached = guard[k].cached
      BY <1>1 DEF ColdGuard, CeilingInv, SystemInv, SystemTypeOK
    <2>3. \A f \in Keys : job'[f].pc \in {"account", "sync"} => job'[f] = job[f]
      BY <1>3
    <2> QED
      BY <1>2, <2>1, <2>2, <2>3 DEF CeilingInv, Dawn
  <1>11. PlanKept'
    BY <1>2, PlanStays DEF CeilingInv
  <1> DEFINE b  == Burden
             o  == Covered
             on == Covered'
             s  == Cardinality(Sendable)
             sn == Cardinality(Sendable')
  <1>12. /\ b <= b + 0
         /\ consumed + o + 0 <= consumed' + on /\ b + sn <= b + s
         /\ billed'[plan] >= billed[plan]
    <2>1. o <= on /\ o \in Nat /\ on \in Nat
      BY <1>9, UnitSets, NextUnitSets DEF Covered
    <2>2. /\ o <= on /\ sn <= s /\ o \in Nat /\ on \in Nat /\ s \in Nat /\ sn \in Nat
          /\ b \in Int /\ consumed \in Nat /\ consumed' = consumed
          /\ billed[plan] \in Nat /\ billed' = billed
      BY <1>2, <1>9, <2>1, UnitSets, NextUnitSets, BurdenType DEF CeilingInv
    <2> HIDE DEF b, o, on, s, sn
    <2> QED
      BY <2>2
  <1>13. 0 \in Int /\ ~ (cycle = NoCycle /\ cycle' # NoCycle)
    BY <1>2
  <1> QED
    BY <1>2, <1>6, <1>9, <1>10, <1>11, <1>12, <1>13, Kept

LEMMA StrayKept ==
  ASSUME CeilingInv, SystemInv', CycleInv', ProcessStray \/ DropStray
  PROVE  Moved
  <1>1. /\ UNCHANGED <<ledgerVars, guardVars, plan>> /\ stray > 0
        /\ stray' = stray - 1
        /\ billed'[plan] = billed[plan] \/ billed'[plan] = billed[plan] + 1
    BY DEF ProcessStray, DropStray, CeilingInv, SystemInv, SystemTypeOK
  <1>2. /\ rows' = rows /\ consumed' = consumed /\ cycle' = cycle /\ limit' = limit
        /\ plan' = plan /\ job' = job /\ expired' = expired
    BY <1>1 DEF ledgerVars, guardVars
  <1>3. /\ Owed' = Owed /\ Sendable' = Sendable /\ Flying' = Flying
        /\ WrittenOff' = WrittenOff
    BY <1>2 DEF Owed, Sendable, Flying, WrittenOff, Answers, Top, Unsure, WillSend, GivenUp,
                Size, Units
  <1>4. cycle # NoCycle
    BY <1>1 DEF CeilingInv, Dawn
  <1>5. Dawn' /\ PlanKept'
    BY <1>2, <1>4 DEF CeilingInv, Dawn, PlanKept
  <1> DEFINE fl == Cardinality(Flying)
             o  == Covered
             s  == Cardinality(Sendable)
             b  == billed[plan]
             bn == billed'[plan]
  <1>6. /\ Burden = b + stray + fl /\ Burden' = bn + stray' + fl
        /\ Covered' = o /\ Cardinality(Sendable') = s
    BY <1>2, <1>3, NextBurdenType DEF Burden, Covered
  <1>7. /\ fl \in Nat /\ o \in Nat /\ s \in Nat /\ b \in Nat /\ stray \in Nat
        /\ consumed \in Nat
    BY UnitSets, BurdenType DEF CeilingInv, Covered
  <1> HIDE DEF fl, o, s, bn
  <1>8. /\ Burden' <= Burden + 0
        /\ consumed + o + 0 <= consumed' + o
        /\ Burden' + s <= Burden + s
        /\ bn >= b
    BY <1>1, <1>2, <1>6, <1>7 DEF bn
  <1>9. /\ Cardinality(WrittenOff) <= Cardinality(WrittenOff')
        /\ 0 \in Int /\ ~ (cycle = NoCycle /\ cycle' # NoCycle)
    BY <1>3, <1>4, UnitSets
  <1> QED
    BY <1>2, <1>5, <1>6, <1>8, <1>9, Kept DEF o, s, bn

LEMMA StutterKept ==
  ASSUME CeilingInv, SystemInv', CycleInv', UNCHANGED systemVars
  PROVE  Moved
  <1>1. /\ rows' = rows /\ consumed' = consumed /\ cycle' = cycle /\ limit' = limit
        /\ plan' = plan /\ job' = job /\ guard' = guard /\ stray' = stray /\ billed' = billed
        /\ expired' = expired
    BY DEF systemVars, ledgerVars, guardVars, providerVars
  <1>2. /\ Owed' = Owed /\ Sendable' = Sendable /\ Flying' = Flying
        /\ WrittenOff' = WrittenOff
    BY <1>1 DEF Owed, Sendable, Flying, WrittenOff, Answers, Top, Unsure, WillSend, GivenUp,
                Size, Units
  <1>3. Dawn' /\ PlanKept'
    BY <1>1 DEF CeilingInv, Dawn, PlanKept
  <1>4. Accounted' /\ WithinCeiling'
    BY <1>1, <1>2 DEF CeilingInv, Accounted, Covered, WithinCeiling, Potential, Burden
  <1>5. Potential' <= Potential /\ billed'[plan] >= billed[plan]
    BY <1>1, <1>2, BurdenType DEF Potential, Burden, CeilingInv
  <1> QED
    BY <1>1, <1>3, <1>4, <1>5 DEF CeilingInv, Moved

-----------------------------------------------------------------------------
(* The cleanup gives up no more than what it is charged with *)

\* Only the housekeeping moves: no job, no instance, no request.
LEMMA HousekeepingKept ==
  ASSUME CeilingInv, SystemInv', CycleInv', UNCHANGED <<guardVars, providerVars>>,
         UNCHANGED <<cycle, limit, consumed>>,
         WrittenOff \subseteq WrittenOff', Owed \subseteq Owed' \cup WrittenOff'
  PROVE  Moved
  <1>1. /\ consumed' = consumed /\ cycle' = cycle /\ limit' = limit
        /\ plan' = plan /\ job' = job /\ guard' = guard /\ stray' = stray /\ billed' = billed
    BY DEF guardVars, providerVars
  <1>2. Sendable' = Sendable /\ Flying' = Flying
    BY <1>1 DEF Sendable, Flying, WillSend, Size, Units
  <1>3. Dawn' /\ PlanKept'
    BY <1>1 DEF CeilingInv, Dawn, PlanKept
  <1> DEFINE S == Owed
             T == WrittenOff
             U == Owed'
             V == WrittenOff'
  <1>4. S \cap T = {}
    <2> SUFFICES ASSUME NEW u \in Units, u \in Owed, u \in WrittenOff PROVE FALSE
      BY DEF Owed
    <2>1. u[2] \in 1 .. MaxAmount /\ u[1] \in Keys
      BY DEF Units
    <2>2. Answers(job[u[1]], rows[u[1]], u[2])
      BY DEF Owed
    <2>3. GivenUp(u[1], job[u[1]], rows[u[1]], expired, u[2])
      BY WrittenOffBy
    <2>4. rows[u[1]] \in Row
      BY <2>1 DEF CeilingInv, SystemInv, SystemTypeOK, TypeOK
    <2>5. rows[u[1]].amount \in Nat /\ rows[u[1]].released \in Nat
      BY <2>4, AmountAssumption DEF Row
    <2> QED
      BY <2>1, <2>2, <2>3, <2>5, AmountAssumption DEF Answers, Top, GivenUp
  <1>5. /\ IsFiniteSet(S) /\ IsFiniteSet(T) /\ IsFiniteSet(U) /\ IsFiniteSet(V)
        /\ S \cup T \subseteq U \cup V /\ T \subseteq V
    BY UnitSets, NextUnitSets
  <1> HIDE DEF S, T, U, V
  <1>6. /\ Cardinality(S) + Cardinality(T) <= Cardinality(U) + Cardinality(V)
        /\ Cardinality(T) <= Cardinality(V)
    BY <1>4, <1>5, CountApart, CountSubset
  <1>7. Covered <= Covered' /\ Cardinality(WrittenOff) <= Cardinality(WrittenOff')
    BY <1>6 DEF S, T, U, V, Covered
  <1>8. /\ Burden \in Int /\ consumed \in Nat /\ billed[plan] \in Nat
        /\ Covered \in Nat /\ Covered' \in Nat /\ Cardinality(Sendable) \in Nat
        /\ Burden' = Burden
    BY <1>1, <1>2, BurdenType, UnitSets, NextUnitSets DEF CeilingInv, Covered, Burden
  <1> DEFINE b  == Burden
             o  == Covered
             on == Covered'
             s  == Cardinality(Sendable)
  <1>9. /\ Burden' <= b + 0 /\ consumed + o + 0 <= consumed' + on
        /\ Burden' + Cardinality(Sendable') <= b + s
        /\ billed'[plan] >= billed[plan]
    <2>1. /\ Burden' = b /\ b \in Int /\ o <= on /\ o \in Nat /\ on \in Nat /\ s \in Nat
          /\ Cardinality(Sendable') = s
      BY <1>2, <1>7, <1>8
    <2> HIDE DEF b, o, on, s
    <2> QED
      BY <1>1, <1>8, <2>1
  <1>10. 0 \in Int /\ ~ (cycle = NoCycle /\ cycle' # NoCycle)
    BY <1>1
  <1> QED
    BY <1>1, <1>3, <1>7, <1>9, <1>10, Kept

LEMMA AgeKept ==
  ASSUME CeilingInv, SystemInv', CycleInv', NEW f \in Keys, Age(f)
  PROVE  Moved
  <1>1. /\ UNCHANGED <<guardVars, providerVars>> /\ UNCHANGED <<cycle, limit, consumed>>
        /\ rows' = rows /\ job' = job /\ expired \subseteq expired'
    BY DEF Age, Pass, guardVars, stateVars
  <1>2. Owed' = Owed
    BY <1>1 DEF Owed, Answers, Top, Unsure, Units
  <1>3. WrittenOff \subseteq WrittenOff'
    <2> SUFFICES ASSUME NEW u \in Units, u \in WrittenOff PROVE u \in WrittenOff'
      BY DEF WrittenOff
    <2>1. GivenUp(u[1], job[u[1]], rows[u[1]], expired, u[2])
      BY WrittenOffBy
    <2>2. GivenUp(u[1], job'[u[1]], rows'[u[1]], expired', u[2])
      BY <1>1, <2>1 DEF GivenUp
    <2> QED
      BY <2>2, WrittenOffBy
  <1> QED
    BY <1>1, <1>2, <1>3, HousekeepingKept

\* What the cleanup takes from a row that its job still answers for is given up.
LEMMA SweepKept ==
  ASSUME CeilingInv, SystemInv', CycleInv', Sweep
  PROVE  Moved
  <1>1. /\ UNCHANGED <<guardVars, providerVars>> /\ UNCHANGED <<cycle, limit, consumed>>
        /\ job' = job /\ expired' = expired
        /\ rows' = [k \in Keys |-> IF k \in Open \cap expired
                                  THEN Closed(rows[k], "RELEASED") ELSE rows[k]]
    BY DEF Sweep, CleanupStale, Drain, guardVars, stateVars
  <1>2. ASSUME NEW u \in Units
        PROVE  /\ u \in WrittenOff => u \in WrittenOff'
               /\ u \in Owed => u \in Owed' \/ u \in WrittenOff'
    <2> DEFINE f == u[1]
               n == u[2]
               r == rows[f]
    <2>1. f \in Keys /\ n \in 1 .. MaxAmount /\ MaxAmount \in Nat
      BY AmountAssumption DEF Units
    <2>2. /\ u \in WrittenOff <=> GivenUp(f, job[f], r, expired, n)
          /\ u \in WrittenOff' <=> GivenUp(f, job'[f], rows'[f], expired', n)
          /\ u \in Owed <=> Answers(job[f], r, n)
          /\ u \in Owed' <=> Answers(job'[f], rows'[f], n)
      BY <2>1, WrittenOffBy DEF Owed, Answers, Top, Unsure, Units
    <2>3. CASE f \notin Open \cap expired
      <3>1. rows'[f] = r
        BY <1>1, <2>1, <2>3
      <3> QED
        BY <1>1, <2>2, <3>1
    <2>4. CASE f \in Open \cap expired
      <3>1. rows'[f] = Closed(r, "RELEASED") /\ r.status = "RESERVED" /\ f \in expired
        BY <1>1, <2>1, <2>4 DEF Open
      <3>2. r \in Row /\ JobOK(f, job[f], r) /\ RowConsistent(r)
        BY <2>1 DEF CeilingInv, SystemInv, SystemTypeOK, TypeOK, StatusTellsSettlement
      <3>3. job[f].pc = "done"
        BY <3>1, <3>2 DEF JobOK, Over
      <3>4. /\ r.amount \in Nat /\ r.confirmed \in Nat /\ r.released \in Nat
            /\ r.confirmed + r.released < r.amount
        BY <3>1, <3>2, AmountAssumption DEF Row, RowConsistent
      <3>5. /\ rows'[f].amount = r.amount /\ rows'[f].released = r.amount - r.confirmed
            /\ rows'[f].status # "RESERVED"
        BY <3>1, <3>2, <3>4 DEF Closed, Row
      <3> HIDE DEF f, n, r
      <3>6. Answers(job[f], r, n) => r.confirmed < n /\ n <= r.amount
        BY <2>1, <3>3, <3>4 DEF Answers, Top
      <3>7. GivenUp(f, job[f], r, expired, n) => r.confirmed < n /\ n <= r.amount
        BY <2>1, <3>4 DEF GivenUp
      <3>8. r.confirmed < n /\ n <= r.amount => GivenUp(f, job'[f], rows'[f], expired', n)
        BY <1>1, <2>1, <3>1, <3>3, <3>4, <3>5 DEF GivenUp
      <3> QED
        BY <2>2, <3>6, <3>7, <3>8
    <2> QED
      BY <2>3, <2>4
  <1>3. WrittenOff \subseteq WrittenOff' /\ Owed \subseteq Owed' \cup WrittenOff'
    BY <1>2 DEF WrittenOff, Owed
  <1> QED
    BY <1>1, <1>3, HousekeepingKept

-----------------------------------------------------------------------------
(* The ceiling holds *)

LEMMA NothingAtFirst ==
  ASSUME SystemInit
  PROVE  Burden = billed[plan] /\ billed[plan] \in Nat /\ Potential = billed[plan]
  <1>1. SystemInv
    BY SystemCycleInit
  <1>2. /\ stray = 0
        /\ \A f \in Keys : job[f].pc = "idle" /\ job[f].request = "none"
    BY DEF SystemInit, IdleJob
  <1>3. Cardinality(Flying) = 0 /\ Cardinality(Sendable) = 0
    <2>1. Flying = {} /\ Sendable = {}
      BY <1>2, UnitsOnly DEF Flying, Sendable, WillSend, Batch, Units
    <2> QED
      BY <2>1, FS_EmptySet
  <1> QED
    BY <1>1, <1>2, <1>3, BurdenType DEF Burden, Potential

LEMMA CeilingInvInit == SystemInit => CeilingInv
  <1> SUFFICES ASSUME SystemInit PROVE CeilingInv
    OBVIOUS
  <1>1. SystemInv /\ CycleInv
    BY SystemCycleInit
  <1>2. \A f \in Keys : job[f].pc = "idle" /\ job[f].request = "none"
    BY DEF SystemInit, IdleJob
  <1>3. stray = 0 /\ \A i \in Instances : guard[i].cached = NoAccount
    BY DEF SystemInit, ColdGuard
  <1>4. Dawn
    BY <1>2, <1>3 DEF Dawn
  <1>5. cycle # NoCycle => limit = PlanLimit /\ consumed = billed[plan]
    BY DEF SystemInit, LedgerInit
  <1>6. PlanKept
    BY <1>5 DEF PlanKept
  <1>8. Burden = billed[plan] /\ billed[plan] \in Nat /\ Potential = billed[plan]
    BY NothingAtFirst
  <1>9. Accounted
    <2>1. Covered \in Nat
      BY UnitSets DEF Covered
    <2> QED
      BY <1>5, <1>8, <2>1 DEF Accounted
  <1>10. WithinCeiling
    BY <1>8 DEF WithinCeiling
  <1> QED
    BY <1>1, <1>4, <1>6, <1>9, <1>10 DEF CeilingInv

\* What the provider may come to count only grows where a reservation is
\* compared with the ceiling.
BudgetMove ==
    /\ plan' = plan
    /\ billed'[plan] >= billed[plan]
    /\ \/ Potential' <= Potential
       \/ /\ billed' = billed
          /\ Potential' <= OperationalCeiling(PlanLimit, MandatoryReserve)
                               + Cardinality(WrittenOff')

LEMMA CeilingStep ==
  ASSUME OneCycle, CeilingInv, [SystemNext]_systemVars
  PROVE  CeilingInv' /\ BudgetMove
  <1>1. SystemInv' /\ CycleInv'
    BY SystemCycleStep DEF CeilingInv
  <1>2. Moved => CeilingInv' /\ BudgetMove
    BY DEF Moved, BudgetMove
  <1>3. ASSUME NEW f \in Keys, NEW i \in Instances,
               UseCachedAccount(f, i) \/ AskAccount(f, i) \/ FollowUp(f, i)
        PROVE  Moved
    BY <1>1, <1>3, UseCachedAccountKept, AskAccountKept, FollowUpKept
  <1>4. ASSUME NEW f \in Keys, JobStep(f)
        PROVE  CeilingInv' /\ BudgetMove
    <2>1. CASE ReserveAcked(f)
      <3>1. billed[plan] \in Nat
        BY BurdenType DEF CeilingInv
      <3> QED
        BY <1>1, <2>1, <3>1, ReserveAckedKept DEF BudgetMove
    <2>2. CASE ~ ReserveAcked(f)
      <3>1. Moved
        BY <1>1, <1>4, <2>2, AccountArrivesKept, AccountFailsKept, SyncAckedKept,
           SyncUnheardKept, ReserveUnheardKept, ReserveDeniedKept, DispatchKept, ReplyKept,
           RejectionKept, BrokenKept, SettleAckedKept, SettleUnheardKept DEF JobStep
      <3> QED
        BY <1>2, <3>1
    <2> QED
      BY <2>1, <2>2
  <1>5. ASSUME NEW f \in Keys, Process(f) \/ Reject(f)
        PROVE  Moved
    BY <1>1, <1>5, ProcessKept, RejectKept
  <1>6. ASSUME NEW f \in Keys, NEW fresh \in BOOLEAN, ServeCached(f, fresh)
        PROVE  Moved
    BY <1>1, <1>6, ServeCachedKept
  <1>7. CASE ProcessStray \/ DropStray
    BY <1>1, <1>2, <1>7, StrayKept
  <1>8. ASSUME NEW c \in Cycles, Renew(c)
        PROVE  FALSE
    BY <1>8 DEF Renew, OneCycle, CeilingInv, SystemInv, SystemTypeOK
  <1>9. ASSUME NEW i \in Instances, Crash(i)
        PROVE  Moved
    BY <1>1, <1>9, CrashKept
  <1>10. ASSUME NEW f \in Keys, Age(f)
         PROVE  Moved
    BY <1>1, <1>10, AgeKept
  <1>11. CASE Sweep
    BY <1>1, <1>2, <1>11, SweepKept
  <1>12. CASE UNCHANGED systemVars
    BY <1>1, <1>2, <1>12, StutterKept
  <1> QED
    BY <1>2, <1>3, <1>4, <1>5, <1>6, <1>7, <1>8, <1>9, <1>10, <1>11, <1>12 DEF SystemNext

\* A request is counted when it is processed, in flight or given up.
LEMMA CountedWithinCeiling ==
  ASSUME CeilingInv, [SystemNext]_systemVars, NEW c \in Cycles, billed'[c] > billed[c]
  PROVE  billed'[c] <= OperationalCeiling(PlanLimit, MandatoryReserve)
                          + Cardinality(WrittenOff)
  <1> DEFINE b  == billed[plan]
             fl == Cardinality(Flying)
             s  == Cardinality(Sendable)
             p  == OperationalCeiling(PlanLimit, MandatoryReserve)
             q  == p + Cardinality(WrittenOff)
  <1>1. /\ billed \in [Cycles -> Nat] /\ plan \in Cycles
        /\ b \in Nat /\ fl \in Nat /\ s \in Nat /\ stray \in Nat
        /\ Potential = b + stray + fl + s
    BY BurdenType, UnitSets DEF CeilingInv, SystemInv, SystemTypeOK, Burden
  <1>2. q \in Int
    <2>1. PlanLimit \in Nat /\ MandatoryReserve \in Nat
      BY SystemAssumption, AmountAssumption
    <2>2. p \in Int /\ Cardinality(WrittenOff) \in Nat
      BY <2>1, CeilingType, UnitSets
    <2> QED
      BY <2>2
  <1>3. ~ (billed' = billed)
    BY <1>1
  <1>4. (\E f \in Keys : Process(f)) \/ ProcessStray
    BY <1>3 DEF SystemNext, JobStep, UseCachedAccount, AskAccount, FollowUp, AccountArrives,
                AccountFails, SyncAcked, SyncUnheard, ReserveAcked, ReserveUnheard,
                ReserveDenied, Dispatch, Reply, Rejection, Broken, SettleAcked,
                SettleUnheard, Settle, Reject, ServeCached, DropStray, Renew, Crash, Age,
                Sweep, systemVars, providerVars
  <1>5. billed' = [billed EXCEPT ![plan] = @ + 1]
    BY <1>4 DEF Process, ProcessStray
  <1>6. c = plan /\ billed'[c] = b + 1
    BY <1>1, <1>5
  <1>7. fl + stray >= 1
    <2>1. CASE ProcessStray
      BY <1>1, <2>1 DEF ProcessStray
    <2>2. CASE \E f \in Keys : Process(f)
      <3>1. Flying # {}
        BY <2>2 DEF Process, Flying
      <3>2. fl # 0
        BY <3>1, UnitSets, FS_EmptySet
      <3> QED
        BY <1>1, <3>2
    <2> QED
      BY <1>4, <2>1, <2>2
  <1>8. Potential > b => Potential <= q
    BY DEF CeilingInv, WithinCeiling
  <1> HIDE DEF b, fl, s, p, q
  <1>9. billed'[c] <= q
    BY <1>1, <1>2, <1>6, <1>7, <1>8
  <1> QED
    BY <1>9 DEF p, q

LEMMA HeldAndWrittenOff ==
  ASSUME CeilingInv, cycle # NoCycle
  PROVE  Burden <= consumed + Cardinality(Held) + Cardinality(WrittenOff)
  <1> DEFINE b == Burden
             o == Cardinality(Owed)
             s == Cardinality(Sendable)
             h == Cardinality(Held)
             v == Cardinality(WrittenOff)
  <1>1. /\ b <= consumed + (o + v) /\ o + s <= h
        /\ b \in Int /\ consumed \in Nat /\ o \in Nat /\ s \in Nat /\ h \in Nat /\ v \in Nat
    BY OwedAndSendable, BurdenType, UnitSets, HeldSize DEF CeilingInv, Accounted, Covered
  <1> HIDE DEF b, o, s, h, v
  <1>2. b <= consumed + h + v
    BY <1>1
  <1> QED
    BY <1>2 DEF b, h, v

(***************************************************************************)
(* Within one subscription cycle, with crashes, lost and late answers,     *)
(* transport errors of any text and a cleanup that runs at any time, the   *)
(* ledger misses nothing of what the provider has counted or may count but *)
(* the units that cleanup took from rows of finished jobs and one unit for *)
(* each transport error whose text did not tell whether the request left.  *)
(***************************************************************************)
THEOREM OnlyWrittenOffMissed ==
  ASSUME OneCycle
  PROVE  SystemSpec => []MissesOnlyWrittenOff
  <1>1. SystemInit => CeilingInv
    BY CeilingInvInit
  <1>2. CeilingInv /\ [SystemNext]_systemVars => CeilingInv'
    BY CeilingStep
  <1>3. CeilingInv => MissesOnlyWrittenOff
    BY HeldAndWrittenOff DEF MissesOnlyWrittenOff, Burden, Flying
  <1> QED
    BY <1>1, <1>2, <1>3, PTL DEF SystemSpec

(***************************************************************************)
(* On the same condition the provider's count passes the operational       *)
(* ceiling by at most those units: how far cleanup and wrong guesses can   *)
(* overdraw the plan, for any number of instances, jobs and requests.      *)
(***************************************************************************)
THEOREM OverrunBounded ==
  ASSUME OneCycle
  PROVE  SystemSpec => OverrunIsWrittenOff
  <1>1. SystemInit => CeilingInv
    BY CeilingInvInit
  <1>2. CeilingInv /\ [SystemNext]_systemVars => CeilingInv'
    BY CeilingStep
  <1>3. CeilingInv /\ [SystemNext]_systemVars
          => [\A c \in Cycles : billed'[c] > billed[c] =>
                  billed'[c] <= OperationalCeiling(PlanLimit, MandatoryReserve)
                                    + Cardinality(WrittenOff)]_systemVars
    BY CountedWithinCeiling
  <1> QED
    BY <1>1, <1>2, <1>3, PTL DEF SystemSpec, OverrunIsWrittenOff

-----------------------------------------------------------------------------
(* Without cleanup and guesses nothing is given up *)

\* Nobody sweeps, and the text of an error tells whether the request left.
Attended ==
    /\ OneCycle
    /\ "opaque" \notin Texts
    /\ ~ MaySweep

AttendedInv == CeilingInv /\ expired = {}

LEMMA NothingExpires ==
  ASSUME ~ MaySweep, SystemInv, expired = {}, [SystemNext]_systemVars
  PROVE  expired' = {}
  <1>1. ASSUME NEW f \in Keys, NEW i \in Instances,
               UseCachedAccount(f, i) \/ AskAccount(f, i) \/ FollowUp(f, i)
        PROVE  expired' = expired
    BY <1>1 DEF UseCachedAccount, AskAccount, FollowUp, ledgerVars
  <1>2. ASSUME NEW f \in Keys, JobStep(f)
        PROVE  expired' = expired
    <2>1. CASE SyncAcked(f) \/ SyncUnheard(f)
      BY <2>1, SyncIsAny DEF SyncAcked, SyncUnheard, ledgerVars
    <2>2. CASE ReserveAcked(f) \/ ReserveUnheard(f)
      BY <2>2, ReserveIsNext DEF ReserveAcked, ReserveUnheard
    <2>3. CASE SettleAcked(f) \/ \E thrown \in BOOLEAN : SettleUnheard(f, thrown)
      BY <2>3, SettleIsNext DEF SettleAcked, SettleUnheard, Settle, ledgerVars
    <2> QED
      BY <1>2, <2>1, <2>2, <2>3
         DEF JobStep, AccountArrives, AccountFails, ReserveDenied, Dispatch, Reply, Rejection,
             Broken, ledgerVars
  <1>3. ASSUME NEW f \in Keys, Process(f) \/ Reject(f)
        PROVE  expired' = expired
    BY <1>3 DEF Process, Reject, ledgerVars
  <1>4. ASSUME NEW f \in Keys, NEW fresh \in BOOLEAN, ServeCached(f, fresh)
        PROVE  expired' = expired
    BY <1>4 DEF ServeCached, ledgerVars
  <1>5. CASE ProcessStray \/ DropStray \/ (\E c \in Cycles : Renew(c))
             \/ (\E i \in Instances : Crash(i))
    BY <1>5 DEF ProcessStray, DropStray, Renew, Crash, ledgerVars
  <1>6. ASSUME (\E f \in Keys : Age(f)) \/ Sweep
        PROVE  FALSE
    BY <1>6 DEF Age, Sweep
  <1>7. CASE UNCHANGED systemVars
    BY <1>7 DEF systemVars, ledgerVars
  <1> QED
    BY <1>1, <1>2, <1>3, <1>4, <1>5, <1>6, <1>7 DEF SystemNext

LEMMA NothingWrittenOff ==
  ASSUME Attended, SystemTypeOK, expired = {}
  PROVE  Cardinality(WrittenOff) = 0
  <1>1. \A u \in Units : u[1] \in Keys
    BY DEF Units
  <1>2. \A f \in Keys : job[f].guess # "opaque"
    BY DEF Attended, SystemTypeOK, JobState
  <1>3. WrittenOff = {}
    BY <1>1, <1>2 DEF WrittenOff, GivenUp
  <1> QED
    BY <1>3, FS_EmptySet

LEMMA AttendedInvInit == SystemInit => AttendedInv
  BY CeilingInvInit DEF AttendedInv, SystemInit, LedgerInit

LEMMA AttendedStep ==
  ASSUME Attended, AttendedInv, [SystemNext]_systemVars
  PROVE  AttendedInv' /\ BudgetMove
  BY CeilingStep, NothingExpires DEF Attended, AttendedInv, CeilingInv

(***************************************************************************)
(* Whatever replies are lost and whichever instances die, what the         *)
(* provider has counted in the cycle or may still count is charged or held *)
(* in the ledger, within one subscription cycle and as long as no cleanup  *)
(* runs and no transport error is taken for one that came before dispatch  *)
(* when it did not.                                                        *)
(***************************************************************************)
THEOREM AllAccounted ==
  ASSUME Attended
  PROVE  SystemSpec => []NothingUnaccounted
  <1>1. SystemInit => AttendedInv
    BY AttendedInvInit
  <1>2. AttendedInv /\ [SystemNext]_systemVars => AttendedInv'
    BY AttendedStep
  <1>3. AttendedInv => NothingUnaccounted
    <2> SUFFICES ASSUME AttendedInv, cycle # NoCycle
                 PROVE  Burden <= consumed + Cardinality(Held)
      BY DEF NothingUnaccounted, Burden, Flying
    <2>1. /\ Burden <= consumed + Cardinality(Held) + Cardinality(WrittenOff)
          /\ Cardinality(WrittenOff) = 0
      BY HeldAndWrittenOff, NothingWrittenOff DEF AttendedInv, CeilingInv, SystemInv
    <2>2. consumed \in Nat /\ Cardinality(Held) \in Nat
      BY BurdenType, HeldSize DEF AttendedInv, CeilingInv
    <2> QED
      BY <2>1, <2>2
  <1> QED
    BY <1>1, <1>2, <1>3, PTL DEF SystemSpec

(***************************************************************************)
(* The reservations do what they are for: on the same conditions, for any  *)
(* number of instances, jobs and requests, with late account answers, lost *)
(* replies and crashes, the provider never counts a request beyond the     *)
(* operational ceiling.                                                    *)
(***************************************************************************)
THEOREM CeilingHolds ==
  ASSUME Attended
  PROVE  SystemSpec => NeverOverCeiling
  <1>1. SystemInit => AttendedInv
    BY AttendedInvInit
  <1>2. AttendedInv /\ [SystemNext]_systemVars => AttendedInv'
    BY AttendedStep
  <1>3. AttendedInv /\ [SystemNext]_systemVars
          => [\A c \in Cycles : billed'[c] > billed[c] =>
                  billed'[c] <= OperationalCeiling(PlanLimit, MandatoryReserve)]_systemVars
    <2> SUFFICES ASSUME AttendedInv, [SystemNext]_systemVars,
                        NEW c \in Cycles, billed'[c] > billed[c]
                 PROVE  billed'[c] <= OperationalCeiling(PlanLimit, MandatoryReserve)
      OBVIOUS
    <2> DEFINE q == OperationalCeiling(PlanLimit, MandatoryReserve)
    <2>1. billed'[c] <= q + Cardinality(WrittenOff) /\ Cardinality(WrittenOff) = 0
      BY CountedWithinCeiling, NothingWrittenOff DEF AttendedInv, CeilingInv, SystemInv
    <2>2. PlanLimit \in Nat /\ MandatoryReserve \in Nat
      BY SystemAssumption, AmountAssumption
    <2>3. q \in Int
      BY <2>2, CeilingType
    <2> HIDE DEF q
    <2>4. billed'[c] <= q
      BY <2>1, <2>3
    <2> QED
      BY <2>4 DEF q
  <1> QED
    BY <1>1, <1>2, <1>3, PTL DEF SystemSpec, NeverOverCeiling

-----------------------------------------------------------------------------
(* The provider's count as a budget *)

\* Requests sent, given up or still to be sent, whose count is to come.
Provider == INSTANCE QuotaBudget WITH
    held  <- Potential - billed[plan],
    spent <- billed[plan],
    cap   <- OperationalCeiling(PlanLimit, MandatoryReserve)

(***************************************************************************)
(* On the same conditions the provider's count obeys the budget that the   *)
(* ledger promises, whose steps are taken where its jobs take them: only   *)
(* a reservation hands out requests, while everything counted and handed   *)
(* out stays below the ceiling, and what is counted afterwards was handed  *)
(* out before, whichever job sends it, gives it up or dies with it.        *)
(***************************************************************************)
THEOREM ProviderKeepsBudget ==
  ASSUME Attended
  PROVE  SystemSpec => Provider!BudgetSpec
  <1> DEFINE q == OperationalCeiling(PlanLimit, MandatoryReserve)
  <1>1. q \in Nat
    <2>1. PlanLimit \in Nat /\ MandatoryReserve \in Nat
      BY SystemAssumption, AmountAssumption
    <2> QED
      BY <2>1, CeilingType
  <1>2. SystemInit => AttendedInv
    BY AttendedInvInit
  <1>3. AttendedInv /\ [SystemNext]_systemVars => AttendedInv' /\ BudgetMove
    BY AttendedStep
  <1>4. SystemInit => Provider!BudgetInit
    <2> SUFFICES ASSUME SystemInit PROVE Provider!BudgetInit
      OBVIOUS
    <2>1. Potential = billed[plan] /\ billed[plan] \in Nat
      BY NothingAtFirst
    <2> QED
      BY <1>1, <2>1 DEF Provider!BudgetInit
  <1>5. AttendedInv /\ [SystemNext]_systemVars => [Provider!BudgetNext]_(Provider!budgetVars)
    <2> SUFFICES ASSUME AttendedInv, [SystemNext]_systemVars
                 PROVE  [Provider!BudgetNext]_(Provider!budgetVars)
      OBVIOUS
    <2> DEFINE P  == Potential
               Pn == Potential'
               b  == billed[plan]
               bn == billed'[plan']
    <2>1. AttendedInv' /\ BudgetMove
      BY <1>3
    <2>2. P \in Int /\ Pn \in Int /\ b \in Nat /\ bn \in Nat
      BY <2>1, BurdenType, NextBurdenType, NextUnitSets DEF AttendedInv, CeilingInv
    <2>3. Cardinality(WrittenOff') = 0
      <3>1. Attended /\ SystemTypeOK' /\ expired' = {}
        BY <2>1 DEF AttendedInv, CeilingInv, SystemInv
      <3>2. Attended /\ SystemTypeOK /\ expired = {} => Cardinality(WrittenOff) = 0
        BY NothingWrittenOff
      <3>3. (SystemTypeOK /\ expired = {} => Cardinality(WrittenOff) = 0)'
        BY NothingWrittenOff, PTL
      <3> QED
        BY <3>1, <3>3
    <2>4. /\ bn >= b
          /\ Pn <= P \/ (bn = b /\ Pn <= q)
      BY <1>1, <2>1, <2>3 DEF BudgetMove
    <2>5. /\ Provider!Hold <=> /\ Pn - bn > P - b /\ q <= q
                              /\ b + (Pn - bn) <= q /\ bn = b
          /\ Provider!Settle <=> /\ Pn - bn < P - b /\ bn >= b
                                /\ bn - b <= (P - b) - (Pn - bn) /\ q = q
          /\ Pn - bn = P - b /\ bn = b => UNCHANGED Provider!budgetVars
      BY DEF Provider!Hold, Provider!Settle, Provider!budgetVars
    <2> HIDE DEF P, Pn, b, bn, q
    <2> QED
      BY <1>1, <2>2, <2>4, <2>5 DEF Provider!BudgetNext
  <1> HIDE DEF q
  <1> QED
    BY <1>2, <1>3, <1>4, <1>5, PTL DEF SystemSpec, Provider!BudgetSpec

=============================================================================
