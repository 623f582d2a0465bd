----------------------------- MODULE NFTRunProofs -----------------------------
(***************************************************************************)
(* Proofs about NFTRun, for any number of runs, any chunk size, pool,      *)
(* collection and number of faults.                                        *)
(***************************************************************************)
EXTENDS NFTRun, FiniteSetTheorems, TLAPS

\* A chunk ends above its start and not above the length that was read.
LEMMA ChunkEndIsAbove ==
  ASSUME NEW from \in Nat, NEW h \in Nat, from < h
  PROVE  ChunkEnd(from, h) \in Nat /\ from < ChunkEnd(from, h)
BY NFTAssumption DEF ChunkEnd

\* What a step of one run's pc leaves of the others'.
LEMMA GotoMoves ==
  ASSUME pc \in [Run -> PC], NEW r \in Run, NEW l, NEW m \in PC, Goto(r, l, m)
  PROVE  /\ pc[r] = l
         /\ pc' \in [Run -> PC]
         /\ pc'[r] = m
         /\ \A q \in Run \ {r} : pc'[q] = pc[q]
BY DEF Goto

\* The states of a run, one by one.
LEMMA PCs ==
  /\ PC = {"idle", "readPid", "readTotal", "crawl", "connect", "save", "movePid",
           "commit", "rollback", "returned", "handled", "raw"}
  /\ Ended = {"returned", "handled", "raw"}
BY DEF PC, InTx, Ended

\* Storing the items of a run keeps the type of the table.
LEMMA StoresType == ASSUME TypeOK, NEW r \in Run, Stores(r) PROVE copies' \in [Item -> Nat]
BY DEF TypeOK, Stores

-----------------------------------------------------------------------------
(***************************************************************************)
(* Type correctness.                                                       *)
(***************************************************************************)

\* Every variable keeps its type, and the pool is never overdrawn.
THEOREM TypeCorrect == Spec => []TypeOK
<1>1. Init => TypeOK
  BY NFTAssumption DEF Init, TypeOK, PC, NoPlan
<1>2. TypeOK /\ [Next]_vars => TypeOK'
  <2> SUFFICES ASSUME TypeOK, [Next]_vars PROVE TypeOK'
    OBVIOUS
  <2> USE NFTAssumption DEF TypeOK, table
  <2>1. CASE UNCHANGED vars
    BY <2>1 DEF vars
  <2>2. CASE Crash
    BY <2>2 DEF Crash, Fault, PC, NoPlan
  <2>3. CASE Mint
    BY <2>3 DEF Mint
  <2>4. ASSUME NEW r \in Run, NEW l, NEW m \in PC, Goto(r, l, m), UNCHANGED <<head, table, free, plan>>,
               faults' \in Nat
        PROVE  TypeOK'
    BY <2>4, GotoMoves
  <2>5. ASSUME NEW r \in Run, NEW h \in 0 .. head, NothingNew(r, h) PROVE TypeOK'
    BY <2>4, <2>5, PCs DEF NothingNew, ReadTotal, Fault
  <2>6. ASSUME NEW r \in Run, NEW h \in 0 .. head, Plan(r, h) PROVE TypeOK'
    <3>1. ChunkEnd(plan[r].from, h) \in Nat
      <4>1. plan[r].from \in Nat /\ h \in Nat /\ plan[r].from < h
        BY <2>6 DEF Plan
      <4> QED
        BY <4>1, ChunkEndIsAbove
    <3> QED
      BY <2>6, <3>1, GotoMoves, PCs DEF Plan, ReadTotal, Fault
  <2>7. ASSUME NEW r \in Run, Begin(r) PROVE TypeOK'
    BY <2>4, <2>7, PCs DEF Begin
  <2>8. ASSUME NEW r \in Run, End(r) PROVE TypeOK'
    BY <2>8, GotoMoves, PCs DEF End, NoPlan
  <2>9. ASSUME NEW r \in Run, RunStep(r) PROVE TypeOK'
    <3>1. CASE ReadPid(r)
      BY <3>1, GotoMoves, PCs DEF ReadPid
    <3>2. CASE Crawl(r) \/ Save(r) \/ Rollback(r)
      BY <2>4, <3>2, PCs DEF Crawl, Save, Rollback
    <3>3. CASE Connect(r)
      BY <3>3, GotoMoves, PCs DEF Connect
    <3>4. CASE MovePid(r)
      BY <3>4, GotoMoves, PCs DEF MovePid, PidMoves
    <3>5. CASE Commit(r)
      <4>1. copies' \in [Item -> Nat]
        BY <3>5, StoresType DEF Commit
      <4> QED
        BY <3>5, <4>1, GotoMoves, PCs DEF Commit, Stores
    <3> QED
      BY <2>5, <2>6, <2>9, <3>1, <3>2, <3>3, <3>4, <3>5 DEF RunStep
  <2>10. ASSUME NEW r \in Run, RunFault(r) PROVE TypeOK'
    <3>1. CASE ReadFails(r) \/ CrawlFails(r) \/ ConnectFails(r) \/ StatementFails(r) \/ RollbackFails(r)
      BY <2>4, <3>1, PCs DEF ReadFails, CrawlFails, ConnectFails, StatementFails, RollbackFails, Fails, Fault
    <3>2. CASE MoveUnheard(r)
      BY <3>2, GotoMoves, PCs DEF MoveUnheard, PidMoves, Fault
    <3>3. CASE CommitUnheard(r)
      <4>1. copies' \in [Item -> Nat]
        BY <3>3, StoresType DEF CommitUnheard
      <4> QED
        BY <3>3, <4>1, GotoMoves, PCs DEF CommitUnheard, Stores, Fault
    <3> QED
      BY <2>5, <2>6, <2>10, <3>1, <3>2, <3>3 DEF RunFault
  <2> QED
    BY <2>1, <2>2, <2>3, <2>7, <2>8, <2>9, <2>10 DEF Next
<1> QED
  BY <1>1, <1>2, PTL DEF Spec

-----------------------------------------------------------------------------
(***************************************************************************)
(* Runs that exclude each other store no item twice.                       *)
(***************************************************************************)

\* The part of OnceInv that speaks of one run.
RunInv(r) ==
  /\ pc[r] \in {"readTotal", "crawl", "connect", "save", "movePid"} => plan[r].from = pid
  /\ pc[r] \in {"crawl", "connect", "save", "movePid", "commit"} => plan[r].from < plan[r].to
  /\ pc[r] = "commit" =>
       plan[r].to = pid /\ \A i \in Item \cap Items(r) : copies[i] = 0

\* A step of the only run in flight: the other runs are idle, before and after.
LEMMA OnlyRunMoves ==
  ASSUME TypeOK, OnceInv, NEW r \in Run, NEW l \in PC \ {"idle"}, NEW m \in PC, Goto(r, l, m)
  PROVE  Alone' /\ (RunInv(r)' => \A q \in Run : RunInv(q)')
BY GotoMoves DEF TypeOK, OnceInv, Alone, RunInv

\* The inductive invariant of exclusive runs: nothing from the cursor on is
\* stored, and the run about to commit has items that are not stored.
THEOREM OnceSafety == ASSUME Exclusive PROVE Spec => []OnceInv
<1>1. Init => OnceInv
  BY DEF Init, OnceInv, Alone, StoredOnce, Item
<1>2. TypeOK /\ TypeOK' /\ OnceInv /\ [Next]_vars => OnceInv'
  <2> SUFFICES ASSUME TypeOK, TypeOK', OnceInv, [Next]_vars PROVE OnceInv'
    OBVIOUS
  <2> USE DEF table
  <2>0. OnceInv' <=> /\ Alone' /\ StoredOnce'
                     /\ \A i \in Item : pid' <= i => copies'[i] = 0
                     /\ \A r \in Run : RunInv(r)'
    BY DEF OnceInv, RunInv, Items
  <2>1. CASE UNCHANGED vars
    BY <2>1 DEF vars, OnceInv, Alone, StoredOnce, Items
  \* A step of a run that leaves the table alone.
  <2>2. ASSUME NEW r \in Run, NEW l \in PC \ {"idle"}, NEW m \in PC, Goto(r, l, m),
               UNCHANGED table, RunInv(r)'
        PROVE  OnceInv'
    BY <2>0, <2>2, OnlyRunMoves DEF OnceInv, StoredOnce
  \* One that goes on with its plan, or goes out.
  <2>3. ASSUME NEW r \in Run,
               NEW l \in {"crawl", "connect", "save", "movePid", "commit", "rollback",
                          "readPid", "readTotal"} \cup Ended,
               NEW m \in {"idle", "rollback"} \cup Ended,
               Goto(r, l, m), UNCHANGED table
        PROVE  OnceInv'
    <3>1. RunInv(r)'
      BY <2>3, GotoMoves, PCs DEF TypeOK, RunInv
    <3> QED
      BY <2>2, <2>3, <3>1, PCs
  <2>4. ASSUME NEW r \in Run, NEW l \in {"crawl", "connect", "save"},
               NEW m \in {"connect", "save", "movePid"}, Goto(r, l, m), UNCHANGED <<table, plan>>
        PROVE  OnceInv'
    <3>1. RunInv(r)'
      BY <2>4, GotoMoves, PCs DEF TypeOK, OnceInv, RunInv
    <3> QED
      BY <2>2, <2>4, <3>1, PCs
  <2>5. CASE Crash
    BY <2>5 DEF Crash, OnceInv, Alone, StoredOnce
  <2>6. CASE Mint
    BY <2>6 DEF Mint, OnceInv, Alone, StoredOnce, Items
  <2>7. ASSUME NEW r \in Run, Begin(r) PROVE OnceInv'
    <3>1. pc'[r] = "readPid" /\ \A q \in Run \ {r} : pc'[q] = "idle"
      BY <2>7, GotoMoves, PCs DEF Begin, TypeOK
    <3> QED
      BY <2>7, <3>1 DEF Begin, OnceInv, Alone, StoredOnce
  <2>8. ASSUME NEW r \in Run, End(r) PROVE OnceInv'
    BY <2>3, <2>8 DEF End
  <2>9. ASSUME NEW r \in Run, NEW h \in 0 .. head, NothingNew(r, h) PROVE OnceInv'
    BY <2>3, <2>9, PCs DEF NothingNew, ReadTotal
  <2>10. ASSUME NEW r \in Run, NEW h \in 0 .. head, Plan(r, h) PROVE OnceInv'
    <3>1. plan[r].from < ChunkEnd(plan[r].from, h)
      <4>1. plan[r].from \in Nat /\ h \in Nat /\ plan[r].from < h
        BY <2>10 DEF Plan, TypeOK
      <4> QED
        BY <4>1, ChunkEndIsAbove
    <3>2. /\ pc[r] = "readTotal" /\ pc'[r] = "crawl"
          /\ plan'[r].from = plan[r].from /\ plan'[r].to = ChunkEnd(plan[r].from, h)
      BY <2>10, GotoMoves, PCs DEF Plan, TypeOK
    <3>3. UNCHANGED table
      BY <2>10 DEF Plan, ReadTotal
    <3>4. RunInv(r)'
      BY <3>1, <3>2, <3>3 DEF OnceInv, RunInv
    <3> QED
      BY <2>2, <2>10, <3>3, <3>4, PCs DEF Plan
  \* The cursor moves past the items of the run.
  <2>11. ASSUME NEW r \in Run, NEW m \in {"commit", "rollback"}, Goto(r, "movePid", m), PidMoves(r)
         PROVE  OnceInv'
    <3>1. /\ plan[r].from = pid /\ plan[r].from < plan[r].to
          /\ \A i \in Item : pid <= i => copies[i] = 0
      BY <2>11 DEF Goto, OnceInv
    <3>2. pid' = plan[r].to /\ UNCHANGED <<copies, plan>>
      BY <2>11 DEF PidMoves
    <3>3. plan[r].from \in Nat /\ plan[r].to \in Nat /\ pid \in Nat
      BY DEF TypeOK
    <3>4. \A i \in Item : pid' <= i => copies'[i] = 0
      BY <3>1, <3>2, <3>3 DEF Item
    <3>5. \A i \in Item \cap Items(r) : copies[i] = 0
      BY <3>1, <3>3 DEF Item, Items
    <3>6. RunInv(r)'
      BY <2>11, <3>1, <3>2, <3>5, GotoMoves, PCs DEF TypeOK, RunInv, Items
    <3>7. Alone' /\ \A q \in Run : RunInv(q)'
      BY <2>11, <3>6, OnlyRunMoves, PCs
    <3>8. StoredOnce'
      BY <3>2 DEF OnceInv, StoredOnce
    <3> QED
      BY <2>0, <3>4, <3>7, <3>8
  \* The items of the run are stored.
  <2>12. ASSUME NEW r \in Run, NEW m \in Ended, Goto(r, "commit", m), Stores(r) PROVE OnceInv'
    <3>1. plan[r].to = pid /\ \A i \in Item \cap Items(r) : copies[i] = 0
      BY <2>12 DEF Goto, OnceInv
    <3>2. UNCHANGED pid /\ \A i \in Item : copies'[i] = IF i \in Items(r) THEN copies[i] + 1 ELSE copies[i]
      BY <2>12 DEF Stores
    <3>3. StoredOnce'
      BY <3>1, <3>2 DEF OnceInv, StoredOnce
    <3>4. plan[r].from \in Nat /\ plan[r].to \in Nat /\ pid \in Nat
      BY DEF TypeOK
    <3>5. \A i \in Item : pid' <= i => copies'[i] = 0
      BY <3>1, <3>2, <3>4 DEF OnceInv, Items, Item
    <3>6. RunInv(r)'
      BY <2>12, GotoMoves, PCs DEF TypeOK, RunInv
    <3>7. Alone' /\ \A q \in Run : RunInv(q)'
      BY <2>12, <3>6, OnlyRunMoves, PCs
    <3> QED
      BY <2>0, <3>3, <3>5, <3>7
  <2>13. ASSUME NEW r \in Run, RunStep(r) PROVE OnceInv'
    <3>1. CASE ReadPid(r)
      <4>1. pc'[r] = "readTotal" /\ plan'[r].from = pid /\ UNCHANGED table
        BY <3>1, GotoMoves, PCs DEF ReadPid, TypeOK
      <4>2. RunInv(r)'
        BY <4>1 DEF RunInv
      <4> QED
        BY <2>2, <3>1, <4>1, <4>2, PCs DEF ReadPid
    <3>2. CASE Crawl(r) \/ Save(r) \/ Connect(r)
      BY <2>4, <3>2 DEF Crawl, Save, Connect
    <3>3. CASE Rollback(r)
      BY <2>3, <3>3, PCs DEF Rollback
    <3>4. CASE MovePid(r)
      BY <2>11, <3>4 DEF MovePid
    <3>5. CASE Commit(r)
      BY <2>12, <3>5, PCs DEF Commit
    <3>6. head \in 0 .. head
      BY DEF TypeOK
    <3> QED
      BY <2>9, <2>10, <2>13, <3>1, <3>2, <3>3, <3>4, <3>5, <3>6 DEF RunStep
  <2>14. ASSUME NEW r \in Run, RunFault(r) PROVE OnceInv'
    <3>1. CASE ReadFails(r) \/ CrawlFails(r) \/ ConnectFails(r) \/ StatementFails(r) \/ RollbackFails(r)
      BY <2>3, <3>1, PCs DEF ReadFails, CrawlFails, ConnectFails, StatementFails, RollbackFails, Fails
    <3>2. CASE MoveUnheard(r)
      BY <2>11, <3>2 DEF MoveUnheard
    <3>3. CASE CommitUnheard(r)
      BY <2>12, <3>3, PCs DEF CommitUnheard
    <3>4. 0 .. head - 1 \subseteq 0 .. head
      BY DEF TypeOK
    <3> QED
      BY <2>9, <2>10, <2>14, <3>1, <3>2, <3>3, <3>4 DEF RunFault
  <2> QED
    BY <2>1, <2>5, <2>6, <2>7, <2>8, <2>13, <2>14 DEF Next
<1> QED
  BY <1>1, <1>2, TypeCorrect, PTL DEF Spec

\* Runs that exclude each other store no item twice, whatever fails and whenever
\* the process ends, although the table would let them.
THEOREM NothingStoredTwice == ASSUME Exclusive PROVE Spec => []StoredOnce
<1>1. OnceInv => StoredOnce
  BY DEF OnceInv
<1> QED
  BY <1>1, OnceSafety, PTL
-----------------------------------------------------------------------------
(***************************************************************************)
(* What is lost to faults.                                                 *)
(***************************************************************************)

\* More faults may lose more.
LEMMA MoreFaults ==
  ASSUME NEW n \in Nat, NEW m \in Nat, n <= m
  PROVE  ChunkSize * n <= ChunkSize * m /\ ChunkSize * n \in Nat /\ ChunkSize * m \in Nat
<1>1. ChunkSize \in Nat
  BY NFTAssumption
<1>2. ChunkSize * n \in Nat /\ ChunkSize * m \in Nat
  BY <1>1
<1>3. m - n \in Nat /\ ChunkSize * (m - n) \in Nat
  BY <1>1
<1>4. ChunkSize * m = ChunkSize * n + ChunkSize * (m - n)
  BY <1>1
<1> QED
  BY <1>2, <1>3, <1>4

\* A fault adds a chunk to what is lost, at most.
LEMMA OneChunkMore ==
  ASSUME NEW S, IsFiniteSet(S), NEW n \in Nat, Cardinality(S) <= ChunkSize * n,
         NEW from \in Nat, NEW to \in Nat, to - from <= ChunkSize,
         NEW T, T \subseteq S \cup (from .. to - 1)
  PROVE  Cardinality(T) <= ChunkSize * (n + 1)
<1> DEFINE chunk == from .. to - 1
<1>1. IsFiniteSet(chunk) /\ Cardinality(chunk) \in Nat /\ Cardinality(chunk) <= ChunkSize
  <2>1. IsFiniteSet(chunk) /\ Cardinality(chunk) = IF from > to - 1 THEN 0 ELSE (to - 1) - from + 1
    BY FS_Interval
  <2> QED
    BY <2>1, NFTAssumption
<1>2. IsFiniteSet(S \cup chunk)
      /\ Cardinality(S \cup chunk) = Cardinality(S) + Cardinality(chunk) - Cardinality(S \cap chunk)
  BY <1>1, FS_Union
<1>3. IsFiniteSet(S \cap chunk)
  BY FS_Intersection
<1>4. Cardinality(S) \in Nat /\ Cardinality(S \cap chunk) \in Nat
  BY <1>3, FS_CardinalityType
<1>5. IsFiniteSet(T) /\ Cardinality(T) <= Cardinality(S \cup chunk)
  BY <1>2, FS_Subset
<1>6. Cardinality(T) \in Nat
  BY <1>5, FS_CardinalityType
<1>7. ChunkSize * (n + 1) = ChunkSize * n + ChunkSize /\ ChunkSize * n \in Nat
  BY NFTAssumption
<1> HIDE DEF chunk
<1> QED
  BY <1>1, <1>2, <1>4, <1>5, <1>6, <1>7, NFTAssumption

\* What is missing is among the items of the collection.
LEMMA MissingIsFinite == IsFiniteSet(Missing)
<1>1. IsFiniteSet(Item)
  BY FS_Interval, NFTAssumption DEF Item
<1> QED
  BY <1>1, FS_Subset DEF Missing

\* Runs that exclude each other lose a chunk for each fault, at most: what the
\* chain has and the table has not, behind the cursor, is what faults have cost.
THEOREM LossSafety == ASSUME Exclusive PROVE Spec => [](OnceInv /\ LossInv)
<1>1. Init => LossInv
  <2> SUFFICES ASSUME Init PROVE LossInv
    OBVIOUS
  <2>1. Missing = {}
    BY DEF Init, Missing, Item
  <2>2. Cardinality(Missing) = 0 /\ ChunkSize * faults = 0
    BY <2>1, FS_EmptySet, NFTAssumption DEF Init
  <2> QED
    BY <2>2 DEF Init, LossInv, LossIsBounded, Planned
<1>2. TypeOK /\ TypeOK' /\ OnceInv /\ LossInv /\ [Next]_vars => LossInv'
  <2> SUFFICES ASSUME TypeOK, TypeOK', OnceInv, LossInv, [Next]_vars PROVE LossInv'
    OBVIOUS
  <2> DEFINE Short(r) == pc[r] \in Planned => plan[r].to - plan[r].from <= ChunkSize
  <2> USE DEF table
  \* A step that loses nothing.
  <2>1. ASSUME Missing' \subseteq Missing, faults' \in Nat, faults <= faults' PROVE LossIsBounded'
    <3>1. IsFiniteSet(Missing) /\ Cardinality(Missing) <= ChunkSize * faults
      BY MissingIsFinite DEF LossInv, LossIsBounded
    <3>2. IsFiniteSet(Missing') /\ Cardinality(Missing') <= Cardinality(Missing)
      BY <2>1, <3>1, FS_Subset
    <3>3. Cardinality(Missing) \in Nat /\ Cardinality(Missing') \in Nat
      BY <3>1, <3>2, FS_CardinalityType
    <3>4. faults \in Nat
      BY DEF TypeOK
    <3>5. ChunkSize * faults <= ChunkSize * faults' /\ ChunkSize * faults \in Nat /\ ChunkSize * faults' \in Nat
      BY <2>1, <3>4, MoreFaults
    <3> QED
      BY <3>1, <3>2, <3>3, <3>5 DEF LossIsBounded
  \* A fault that loses the items of a run.
  <2>2. ASSUME NEW r \in Run, pc[r] \in Planned, Fault, Missing' \subseteq Missing \cup Items(r)
        PROVE  LossIsBounded'
    <3>1. IsFiniteSet(Missing) /\ Cardinality(Missing) <= ChunkSize * faults
      BY MissingIsFinite DEF LossInv, LossIsBounded
    <3>2. plan[r].from \in Nat /\ plan[r].to \in Nat /\ faults \in Nat
      BY DEF TypeOK
    <3>3. plan[r].to - plan[r].from <= ChunkSize
      BY <2>2 DEF LossInv
    <3>4. Cardinality(Missing') <= ChunkSize * (faults + 1)
      BY <2>2, <3>1, <3>2, <3>3, OneChunkMore DEF Items
    <3> QED
      BY <2>2, <3>4 DEF LossIsBounded, Fault
  \* A step of a run that is not about to commit, and leaves table and plans alone.
  <2>3. ASSUME NEW r \in Run, NEW l \in PC \ {"commit"}, NEW m \in PC, Goto(r, l, m), UNCHANGED table,
               \A q \in Run \ {r} : plan'[q] = plan[q], faults' \in Nat, faults <= faults', Short(r)'
        PROVE  LossInv'
    <3>1. pc[r] = l /\ pc'[r] = m /\ \A q \in Run \ {r} : pc'[q] = pc[q]
      BY <2>3, GotoMoves DEF TypeOK
    <3>2. Missing' \subseteq Missing
      BY <2>3, <3>1 DEF Missing, Items
    <3>3. \A q \in Run : Short(q)'
      BY <2>3, <3>1 DEF LossInv
    <3> QED
      BY <2>1, <2>3, <3>2, <3>3 DEF LossInv
  <2>4. CASE UNCHANGED vars
    <3>1. Missing' = Missing /\ UNCHANGED <<pc, plan, faults>>
      BY <2>4 DEF vars, Missing, Items
    <3> QED
      BY <3>1 DEF LossInv, LossIsBounded
  <2>5. CASE Mint
    <3>1. Missing' = Missing /\ UNCHANGED <<pc, plan, faults>>
      BY <2>5 DEF Mint, Missing, Items
    <3> QED
      BY <3>1 DEF LossInv, LossIsBounded
  <2>6. CASE Crash
    <3>1. Fault /\ UNCHANGED table /\ \A q \in Run : pc'[q] = "idle"
      BY <2>6 DEF Crash
    <3>2. \A q \in Run : Short(q)'
      BY <3>1 DEF Planned
    <3>3. CASE \E r \in Run : pc[r] = "commit"
      <4>1. PICK r \in Run : pc[r] = "commit"
        BY <3>3
      <4>2. \A q \in Run : pc[q] = "commit" => q = r
        BY <4>1 DEF OnceInv, Alone
      <4>3. Missing' \subseteq Missing \cup Items(r)
        BY <3>1, <4>2 DEF Missing
      <4> QED
        BY <2>2, <3>1, <3>2, <4>1, <4>3 DEF LossInv, Planned
    <3>4. CASE \A r \in Run : pc[r] # "commit"
      <4>1. Missing' \subseteq Missing
        BY <3>1, <3>4 DEF Missing
      <4>2. faults' \in Nat /\ faults <= faults'
        BY <3>1 DEF Fault, TypeOK
      <4> QED
        BY <2>1, <3>2, <4>1, <4>2 DEF LossInv
    <3> QED
      BY <3>3, <3>4
  <2>7. ASSUME NEW r \in Run, Begin(r) PROVE LossInv'
    <3>1. /\ Goto(r, "idle", "readPid") /\ UNCHANGED <<table, plan, faults>>
          /\ pc'[r] = "readPid" /\ faults' \in Nat /\ faults <= faults'
      BY <2>7, GotoMoves, PCs DEF Begin, TypeOK
    <3> QED
      BY <2>3, <3>1, PCs DEF Planned
  <2>8. ASSUME NEW r \in Run, End(r) PROVE LossInv'
    <3>1. PICK l \in Ended : Goto(r, l, "idle")
      BY <2>8 DEF End
    <3>2. /\ UNCHANGED <<table, faults>> /\ \A q \in Run \ {r} : plan'[q] = plan[q]
          /\ pc'[r] = "idle" /\ faults' \in Nat /\ faults <= faults'
      BY <2>8, <3>1, GotoMoves, PCs DEF End, TypeOK
    <3> QED
      BY <2>3, <3>1, <3>2, PCs DEF Planned
  <2>9. ASSUME NEW r \in Run, NEW h \in 0 .. head, NothingNew(r, h) PROVE LossInv'
    <3>1. /\ Goto(r, "readTotal", "returned") /\ UNCHANGED <<table, plan>>
          /\ pc'[r] = "returned" /\ faults' \in Nat /\ faults <= faults'
      BY <2>9, GotoMoves, PCs DEF NothingNew, ReadTotal, Fault, TypeOK
    <3> QED
      BY <2>3, <3>1, PCs DEF Planned
  <2>10. ASSUME NEW r \in Run, NEW h \in 0 .. head, Plan(r, h) PROVE LossInv'
    <3>1. /\ Goto(r, "readTotal", "crawl") /\ UNCHANGED table
          /\ plan' = [plan EXCEPT ![r].to = ChunkEnd(plan[r].from, h)] /\ plan[r].from < h
          /\ faults' \in Nat /\ faults <= faults'
      BY <2>10 DEF Plan, ReadTotal, Fault, TypeOK
    <3>2. plan[r].from \in Nat /\ h \in Nat /\ plan \in [Run -> [from : Nat, to : Nat]]
      BY <2>10 DEF TypeOK
    <3>3. ChunkEnd(plan[r].from, h) - plan[r].from <= ChunkSize
      BY <3>1, <3>2, NFTAssumption DEF ChunkEnd
    <3>4. /\ plan'[r].from = plan[r].from /\ plan'[r].to = ChunkEnd(plan[r].from, h)
          /\ \A q \in Run \ {r} : plan'[q] = plan[q]
      BY <3>1, <3>2
    <3> QED
      BY <2>3, <3>1, <3>3, <3>4, PCs
  \* The cursor moves past the items of the run.
  <2>11. ASSUME NEW r \in Run, NEW m \in {"commit", "rollback"}, Goto(r, "movePid", m), PidMoves(r)
         PROVE  /\ Missing' \subseteq Missing \cup Items(r)
                /\ m = "commit" => Missing' \subseteq Missing
                /\ \A q \in Run : Short(q)'
    <3>1. pc[r] = "movePid" /\ pc'[r] = m /\ \A q \in Run \ {r} : pc'[q] = pc[q] /\ pc[q] = "idle"
      BY <2>11, GotoMoves, PCs DEF OnceInv, Alone, TypeOK
    <3>2. plan[r].from = pid /\ pid' = plan[r].to /\ UNCHANGED <<copies, plan>>
      BY <2>11, <3>1 DEF PidMoves, OnceInv
    <3>3. plan[r].from \in Nat /\ plan[r].to \in Nat /\ pid \in Nat
      BY DEF TypeOK
    <3>4. \A i \in Missing' : i \in Missing \/ i \in Items(r)
      BY <3>1, <3>2, <3>3 DEF Missing, Items, Item
    <3>5. m = "commit" => \A i \in Missing' : i \notin Items(r)
      BY <3>1, <3>2 DEF Missing, Items
    <3>6. \A q \in Run : Short(q)'
      BY <3>1, <3>2 DEF LossInv, Planned
    <3> QED
      BY <3>4, <3>5, <3>6
  \* The items of the run are stored.
  <2>12. ASSUME NEW r \in Run, NEW m \in Ended, Goto(r, "commit", m), Stores(r)
         PROVE  Missing' \subseteq Missing /\ \A q \in Run : Short(q)'
    <3>1. pc[r] = "commit" /\ pc'[r] = m /\ \A q \in Run \ {r} : pc'[q] = pc[q]
      BY <2>12, GotoMoves, PCs DEF TypeOK
    <3>2. /\ UNCHANGED <<pid, plan>>
          /\ \A i \in Item : copies'[i] = IF i \in Items(r) THEN copies[i] + 1 ELSE copies[i]
      BY <2>12 DEF Stores
    <3>3. \A i \in Item : copies[i] \in Nat
      BY DEF TypeOK
    <3>4. Missing' \subseteq Missing
      BY <3>1, <3>2, <3>3 DEF Missing, Items
    <3>5. \A q \in Run : Short(q)'
      BY <3>1, <3>2, PCs DEF LossInv, Planned
    <3> QED
      BY <3>4, <3>5
  <2>13. ASSUME NEW r \in Run, RunStep(r) PROVE LossInv'
    <3>0. faults \in Nat /\ head \in 0 .. head
      BY DEF TypeOK
    <3>1. CASE ReadPid(r)
      <4>1. /\ Goto(r, "readPid", "readTotal") /\ UNCHANGED <<table, faults>>
            /\ pc'[r] = "readTotal" /\ \A q \in Run \ {r} : plan'[q] = plan[q]
        BY <3>1, GotoMoves, PCs DEF ReadPid, TypeOK
      <4> QED
        BY <2>3, <3>0, <4>1, PCs DEF Planned
    <3>2. CASE Crawl(r) \/ Save(r) \/ Connect(r) \/ Rollback(r)
      <4>1. PICK l \in {"crawl", "connect", "save", "rollback"}, m \in {"connect", "save", "movePid", "handled"} :
              /\ Goto(r, l, m)
              /\ l = "rollback" <=> m = "handled"
        BY <3>2 DEF Crawl, Save, Connect, Rollback
      <4>2. UNCHANGED <<table, plan, faults>>
        BY <3>2 DEF Crawl, Save, Connect, Rollback
      <4>3. pc[r] = l /\ pc'[r] = m
        BY <4>1, GotoMoves, PCs DEF TypeOK
      <4>4. Short(r)'
        BY <4>1, <4>2, <4>3 DEF LossInv, Planned
      <4> QED
        BY <2>3, <3>0, <4>1, <4>2, <4>4, PCs
    <3>3. CASE MovePid(r)
      BY <2>1, <2>11, <3>0, <3>3 DEF MovePid, LossInv
    <3>4. CASE Commit(r)
      BY <2>1, <2>12, <3>0, <3>4, PCs DEF Commit, LossInv
    <3> QED
      BY <2>9, <2>10, <2>13, <3>0, <3>1, <3>2, <3>3, <3>4 DEF RunStep
  <2>14. ASSUME NEW r \in Run, RunFault(r) PROVE LossInv'
    <3>0. faults \in Nat /\ 0 .. head - 1 \subseteq 0 .. head
      BY DEF TypeOK
    <3>1. ASSUME NEW l \in PC, NEW m \in {"handled", "raw", "rollback"}, Fails(r, l, m) PROVE LossInv'
      <4>1. /\ Goto(r, l, m) /\ UNCHANGED <<table, plan>> /\ Fault
            /\ faults' \in Nat /\ faults <= faults'
        BY <3>0, <3>1 DEF Fails, Fault
      <4>2. pc[r] = l /\ pc'[r] = m /\ \A q \in Run \ {r} : pc'[q] = pc[q]
        BY <4>1, GotoMoves, PCs DEF TypeOK
      <4>3. CASE l = "commit"
        <5>1. Missing' \subseteq Missing \cup Items(r)
          BY <4>1, <4>2 DEF Missing, Items
        <5>2. \A q \in Run : Short(q)'
          BY <4>1, <4>2 DEF LossInv, Planned
        <5> QED
          BY <2>2, <4>1, <4>2, <4>3, <5>1, <5>2 DEF LossInv, Planned
      <4>4. CASE l # "commit"
        BY <2>3, <4>1, <4>2, <4>4, PCs DEF Planned
      <4> QED
        BY <4>3, <4>4
    <3>2. CASE ReadFails(r) \/ CrawlFails(r) \/ ConnectFails(r) \/ StatementFails(r) \/ RollbackFails(r)
      BY <3>1, <3>2, PCs DEF ReadFails, CrawlFails, ConnectFails, StatementFails, RollbackFails
    <3>3. CASE MoveUnheard(r)
      <4>1. pc[r] \in Planned /\ Fault
        BY <3>3 DEF MoveUnheard, Goto, Planned
      <4> QED
        BY <2>2, <2>11, <3>3, <4>1 DEF MoveUnheard, LossInv
    <3>4. CASE CommitUnheard(r)
      <4>1. faults' \in Nat /\ faults <= faults'
        BY <3>0, <3>4 DEF CommitUnheard, Fault
      <4> QED
        BY <2>1, <2>12, <3>4, <4>1, PCs DEF CommitUnheard, LossInv
    <3> QED
      BY <2>9, <2>10, <2>14, <3>0, <3>2, <3>3, <3>4 DEF RunFault
  <2> QED
    BY <2>4, <2>5, <2>6, <2>7, <2>8, <2>13, <2>14 DEF Next
<1> QED
  BY <1>1, <1>2, OnceSafety, TypeCorrect, PTL DEF Spec

\* A fault loses one chunk of items at most, wherever in a run it comes.
THEOREM FaultsLoseAChunkEach == ASSUME Exclusive PROVE Spec => []LossIsBounded
<1>1. LossInv => LossIsBounded
  BY DEF LossInv
<1> QED
  BY <1>1, LossSafety, PTL
=============================================================================
