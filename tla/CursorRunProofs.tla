--------------------------- MODULE CursorRunProofs ---------------------------
(***************************************************************************)
(* Proofs about CursorRun, for any number of runs, any chunk size, any     *)
(* chain and any number of faults.                                         *)
(***************************************************************************)
EXTENDS CursorRun, TLAPS

\* A chunk ends above its start and not above the length that was read.
LEMMA ChunkEndIsAbove ==
  ASSUME NEW from \in Nat, NEW h \in Nat, from < h
  PROVE  ChunkEnd(from, h) \in Nat /\ from < ChunkEnd(from, h) /\ ChunkEnd(from, h) <= h
BY CursorAssumption DEF ChunkEnd

\* What a step of one run's pc leaves of the others'.
LEMMA GotoMoves ==
  ASSUME pc \in [Run -> PC], NEW r \in Run, NEW l, NEW m \in PC, Goto(r, l, m)
  PROVE  /\ pc[r] = l
         /\ pc' \in [Run -> PC]
         /\ pc'[r] = m
         /\ \A q \in Run \ {r} : pc'[q] = pc[q]
BY DEF Goto

\* The items of a run are numbers.
LEMMA ItemsAreNat == ASSUME TypeOK, NEW r \in Run PROVE Items(r) \subseteq Nat
BY DEF TypeOK, Items

\* The states of a run, one by one.
LEMMA PCs ==
  /\ PC = {"idle", "readCursor", "readHead", "crawl", "connect", "insert", "move",
           "commit", "rollback", "returned", "handled", "raw"}
  /\ Ended = {"returned", "handled", "raw"}
BY DEF PC, InTx, Ended

-----------------------------------------------------------------------------
(***************************************************************************)
(* Type correctness.                                                       *)
(***************************************************************************)

\* Every variable of a run of a cursor job keeps its type.
THEOREM TypeCorrect == Spec => []TypeOK
<1>1. Init => TypeOK
  BY CursorAssumption DEF Init, TypeOK, PC, NoPlan
<1>2. TypeOK /\ [Next]_vars => TypeOK'
  <2> SUFFICES ASSUME TypeOK, [Next]_vars PROVE TypeOK'
    OBVIOUS
  <2> USE DEF TypeOK, table
  <2>1. CASE UNCHANGED vars
    BY <2>1 DEF vars
  <2>2. CASE Crash
    BY <2>2 DEF Crash, Fault, PC, NoPlan
  <2>3. CASE Grow
    BY <2>3 DEF Grow
  <2>4. ASSUME NEW r \in Run, Begin(r) PROVE TypeOK'
    BY <2>4, GotoMoves, PCs DEF Begin
  <2>5. ASSUME NEW r \in Run, End(r) PROVE TypeOK'
    <3>1. PICK l \in Ended : Goto(r, l, "idle")
      BY <2>5 DEF End
    <3> QED
      BY <2>5, <3>1, GotoMoves, PCs DEF End, NoPlan
  <2>6. ASSUME NEW r \in Run, ReadCursor(r) PROVE TypeOK'
    BY <2>6, GotoMoves, PCs DEF ReadCursor
  <2>7. ASSUME NEW r \in Run, NEW h \in 0 .. head, NothingNew(r, h) PROVE TypeOK'
    BY <2>7, GotoMoves, PCs DEF NothingNew, ReadHead, Fault
  <2>8. ASSUME NEW r \in Run, NEW h \in 0 .. head, Plan(r, h) PROVE TypeOK'
    <3>1. ChunkEnd(plan[r].from, h) \in Nat
      BY <2>8, ChunkEndIsAbove DEF Plan
    <3> QED
      BY <2>8, <3>1, GotoMoves, PCs DEF Plan, ReadHead, Fault
  <2>9. ASSUME NEW r \in Run, NEW E \in SUBSET Items(r), Crawl(r, E) PROVE TypeOK'
    <3>1. Items(r) \ E \subseteq Nat
      BY ItemsAreNat
    <3> QED
      BY <2>9, <3>1, GotoMoves, PCs DEF Crawl, Fault
  <2>10. ASSUME NEW r \in Run, Take(r) PROVE cursor' \in Nat /\ stored' \subseteq Nat /\ lost' \subseteq Nat
    <3>1. plan[r].to \in Nat /\ plan[r].got \subseteq Nat
      OBVIOUS
    <3> QED
      BY <2>10, <3>1, ItemsAreNat DEF Take
  <2>11. ASSUME NEW r \in Run, RunStep(r) PROVE TypeOK'
    <3>1. ASSUME NEW l, NEW m \in PC, Goto(r, l, m), UNCHANGED <<head, table, plan, faults>>
          PROVE  TypeOK'
      BY <3>1, GotoMoves
    <3>2. CASE Connect(r) \/ Insert(r) \/ Move(r) \/ Rollback(r)
      BY <3>1, <3>2, PCs DEF Connect, Insert, Move, Rollback
    <3>3. CASE Commit(r)
      BY <3>3, <2>10, GotoMoves, PCs DEF Commit, Take
    <3> QED
      BY <2>6, <2>7, <2>8, <2>9, <2>11, <3>2, <3>3 DEF RunStep
  <2>12. ASSUME NEW r \in Run, RunFault(r) PROVE TypeOK'
    <3>1. ASSUME NEW l, NEW m \in PC, Fails(r, l, m) PROVE TypeOK'
      BY <3>1, GotoMoves DEF Fails, Fault
    <3>2. CASE ReadFails(r) \/ CrawlFails(r) \/ ConnectFails(r) \/ StatementFails(r) \/ RollbackFails(r)
      BY <3>1, <3>2, PCs DEF ReadFails, CrawlFails, ConnectFails, StatementFails, RollbackFails
    <3>3. CASE CommitUnheard(r)
      BY <3>3, <2>10, GotoMoves, PCs DEF CommitUnheard, Take, Fault
    <3> QED
      BY <2>7, <2>8, <2>9, <2>12, <3>2, <3>3 DEF RunFault
  <2> QED
    BY <2>1, <2>2, <2>3, <2>4, <2>5, <2>11, <2>12 DEF Next
<1> QED
  BY <1>1, <1>2, PTL DEF Spec

-----------------------------------------------------------------------------
(***************************************************************************)
(* No gap, whether runs exclude each other or not.                         *)
(***************************************************************************)

\* A run that a step does not move keeps a sound plan: what it relies on grows.
LEMMA OthersStaySound ==
  ASSUME TypeOK, NEW q \in Run, PlanIsSound(q),
         pc'[q] = pc[q], plan'[q] = plan[q],
         stored \subseteq stored', lost \subseteq lost', head' \in Nat, head <= head'
  PROVE  PlanIsSound(q)'
<1> USE DEF TypeOK, PlanIsSound, Items
<1>1. plan[q].from \in Nat /\ plan[q].to \in Nat
  OBVIOUS
<1>2. pc'[q] \in {"readHead"} \cup Planned =>
        Start .. plan'[q].from - 1 \subseteq stored' \cup lost'
  OBVIOUS
<1>3. pc'[q] \in Planned => plan'[q].from < plan'[q].to /\ plan'[q].to <= head'
  BY <1>1
<1> QED
  BY <1>2, <1>3

\* A committed run has passed the items of its chunk, and left no gap.
LEMMA TakeLeavesNoGap ==
  ASSUME TypeOK, CursorInv, NEW r \in Run, pc[r] = "commit", Take(r)
  PROVE  NoGap' /\ stored \subseteq stored' /\ lost \subseteq lost'
<1> USE DEF TypeOK, Planned, Crawled, InTx
<1>1. /\ Start .. plan[r].from - 1 \subseteq stored \cup lost
      /\ plan[r].from \in Nat /\ plan[r].to \in Nat
  BY DEF CursorInv, PlanIsSound
<1>2. Items(r) \subseteq stored' \cup lost'
  BY DEF Take
<1>3. stored \subseteq stored' /\ lost \subseteq lost'
  BY DEF Take
<1>4. ASSUME NEW i \in Start .. plan[r].to - 1 PROVE i \in stored' \cup lost'
  <2>1. i \in Start .. plan[r].from - 1 \/ i \in Items(r)
    BY <1>1, CursorAssumption DEF Items
  <2> QED
    BY <2>1, <1>1, <1>2, <1>3
<1>5. cursor' = plan[r].to
  BY DEF Take
<1> QED
  BY <1>3, <1>4, <1>5 DEF NoGap

\* The inductive invariant of the runs: every item behind the cursor is
\* accounted for, and every run in flight will keep it so when it commits.
THEOREM CursorSafety == Spec => []CursorInv
<1>1. Init => CursorInv
  BY CursorAssumption DEF Init, CursorInv, NoGap, PlanIsSound, Planned, Crawled, InTx
<1>2. TypeOK /\ TypeOK' /\ CursorInv /\ [Next]_vars => CursorInv'
  <2> SUFFICES ASSUME TypeOK, TypeOK', CursorInv, [Next]_vars PROVE CursorInv'
    OBVIOUS
  <2> USE DEF TypeOK, table
  <2>0. head \in Nat /\ head <= head
    OBVIOUS
  <2>1. CASE UNCHANGED vars
    BY <2>1 DEF vars, CursorInv, NoGap, PlanIsSound, Items
  \* A step of one run that leaves the table alone.
  <2>2. ASSUME NEW r \in Run, UNCHANGED <<head, table>>,
               \A q \in Run \ {r} : pc'[q] = pc[q] /\ plan'[q] = plan[q],
               PlanIsSound(r)'
        PROVE  CursorInv'
    <3>1. \A q \in Run \ {r} : PlanIsSound(q)'
      BY <2>2, <2>0, OthersStaySound DEF CursorInv
    <3>2. NoGap'
      BY <2>2 DEF CursorInv, NoGap
    <3> QED
      BY <2>2, <3>1, <3>2 DEF CursorInv
  \* A step that takes the run out of its plan.
  <2>3. ASSUME NEW r \in Run, NEW l, NEW m \in Ended \cup {"idle", "readCursor"},
               Goto(r, l, m), UNCHANGED <<head, table>>,
               \A q \in Run \ {r} : plan'[q] = plan[q]
        PROVE  CursorInv'
    <3>1. PlanIsSound(r)'
      BY <2>3, GotoMoves, PCs DEF PlanIsSound, Planned, Crawled, InTx
    <3> QED
      BY <2>2, <2>3, <3>1, GotoMoves, PCs
  \* A step that goes on with the plan as it is.
  <2>4. ASSUME NEW r \in Run, NEW l \in Crawled, NEW m \in Crawled,
               Goto(r, l, m), UNCHANGED <<head, table, plan>>
        PROVE  CursorInv'
    <3>1. PlanIsSound(r)'
      BY <2>4, GotoMoves, PCs DEF CursorInv, PlanIsSound, Items, Planned, Crawled, InTx
    <3> QED
      BY <2>2, <2>4, <3>1, GotoMoves, PCs DEF Crawled, InTx
  \* A commit.
  <2>5. ASSUME NEW r \in Run, NEW m \in Ended, Goto(r, "commit", m), Take(r)
        PROVE  CursorInv'
    <3>1. NoGap' /\ stored \subseteq stored' /\ lost \subseteq lost'
      BY <2>5, TakeLeavesNoGap DEF Goto
    <3>2. \A q \in Run \ {r} : PlanIsSound(q)'
      BY <2>0, <2>5, <3>1, OthersStaySound, GotoMoves, PCs DEF CursorInv, Take
    <3>3. PlanIsSound(r)'
      BY <2>5, GotoMoves, PCs DEF PlanIsSound, Planned, Crawled, InTx
    <3> QED
      BY <3>1, <3>2, <3>3 DEF CursorInv
  <2>6. CASE Crash
    <3>1. \A q \in Run : PlanIsSound(q)'
      BY <2>6 DEF Crash, PlanIsSound, Planned, Crawled, InTx
    <3> QED
      BY <2>6, <3>1 DEF Crash, CursorInv, NoGap
  <2>7. CASE Grow
    <3>1. \A q \in Run : PlanIsSound(q)'
      BY <2>7, OthersStaySound DEF Grow, CursorInv
    <3> QED
      BY <2>7, <3>1 DEF Grow, CursorInv, NoGap
  <2>8. ASSUME NEW r \in Run, Begin(r) PROVE CursorInv'
    BY <2>8, <2>3 DEF Begin
  <2>9. ASSUME NEW r \in Run, End(r) PROVE CursorInv'
    <3>1. PICK l \in Ended : Goto(r, l, "idle")
      BY <2>9 DEF End
    <3> QED
      BY <2>3, <2>9, <3>1 DEF End
  <2>10. ASSUME NEW r \in Run, ReadCursor(r) PROVE CursorInv'
    <3>1. pc'[r] = "readHead" /\ plan'[r].from = cursor
      BY <2>10, GotoMoves, PCs DEF ReadCursor
    <3>2. PlanIsSound(r)'
      BY <2>10, <3>1 DEF ReadCursor, CursorInv, NoGap, PlanIsSound, Planned, Crawled, InTx
    <3> QED
      BY <2>2, <2>10, <3>2, GotoMoves, PCs DEF ReadCursor
  <2>11. ASSUME NEW r \in Run, NEW h \in 0 .. head, NothingNew(r, h) PROVE CursorInv'
    BY <2>3, <2>11, PCs DEF NothingNew, ReadHead
  <2>12. ASSUME NEW r \in Run, NEW h \in 0 .. head, Plan(r, h) PROVE CursorInv'
    <3>1. /\ plan[r].from < ChunkEnd(plan[r].from, h) /\ ChunkEnd(plan[r].from, h) <= head
          /\ ChunkEnd(plan[r].from, h) \in Nat
      <4>1. plan[r].from \in Nat /\ h \in Nat /\ plan[r].from < h /\ h <= head
        BY <2>12 DEF Plan
      <4> HIDE DEF TypeOK
      <4> QED
        BY <4>1, <2>0, ChunkEndIsAbove
    <3>2. /\ pc[r] = "readHead" /\ pc'[r] = "crawl"
          /\ plan'[r].from = plan[r].from /\ plan'[r].to = ChunkEnd(plan[r].from, h)
      BY <2>12, GotoMoves, PCs DEF Plan
    <3>3. UNCHANGED <<head, table>>
      BY <2>12 DEF Plan, ReadHead
    <3>4. PlanIsSound(r)'
      BY <3>1, <3>2, <3>3 DEF CursorInv, PlanIsSound, Planned, Crawled, InTx
    <3> QED
      BY <2>2, <2>12, <3>3, <3>4, GotoMoves, PCs DEF Plan
  <2>13. ASSUME NEW r \in Run, NEW E \in SUBSET Items(r), Crawl(r, E) PROVE CursorInv'
    <3>1. E = {} \/ LeavesOut
      BY <2>13 DEF Crawl
    <3>2. /\ pc[r] = "crawl" /\ pc'[r] = "connect"
          /\ plan'[r].from = plan[r].from /\ plan'[r].to = plan[r].to
          /\ plan'[r].got = Items(r) \ E
      BY <2>13, GotoMoves, PCs DEF Crawl
    <3>3. PlanIsSound(r)'
      BY <2>13, <3>1, <3>2 DEF Crawl, CursorInv, PlanIsSound, Items, Planned, Crawled, InTx
    <3> QED
      BY <2>2, <2>13, <3>3, GotoMoves, PCs DEF Crawl
  <2>14. ASSUME NEW r \in Run, RunStep(r) PROVE CursorInv'
    <3>1. CASE Connect(r) \/ Insert(r) \/ Move(r)
      BY <2>4, <3>1 DEF Connect, Insert, Move, Crawled, InTx
    <3>2. CASE Rollback(r)
      BY <2>3, <3>2 DEF Rollback, Ended
    <3>3. CASE Commit(r)
      BY <2>5, <3>3 DEF Commit, Ended
    <3>4. ASSUME Crawl(r, {}) PROVE CursorInv'
      BY <2>13, <3>4
    <3> QED
      BY <2>0, <2>10, <2>11, <2>12, <2>14, <3>1, <3>2, <3>3, <3>4 DEF RunStep
  <2>15. ASSUME NEW r \in Run, RunFault(r) PROVE CursorInv'
    <3>1. ASSUME NEW l, NEW m \in Ended, Fails(r, l, m) PROVE CursorInv'
      BY <2>3, <3>1 DEF Fails
    <3>2. CASE ReadFails(r) \/ CrawlFails(r) \/ ConnectFails(r) \/ RollbackFails(r)
      BY <3>1, <3>2 DEF ReadFails, CrawlFails, ConnectFails, RollbackFails, Ended
    <3>3. CASE StatementFails(r)
      BY <2>4, <3>3 DEF StatementFails, Fails, Crawled, InTx
    <3>4. CASE CommitUnheard(r)
      BY <2>5, <3>4 DEF CommitUnheard, Ended
    <3> QED
      BY <2>11, <2>12, <2>13, <2>15, <3>2, <3>3, <3>4 DEF RunFault
  <2> QED
    BY <2>1, <2>6, <2>7, <2>8, <2>9, <2>14, <2>15 DEF Next
<1> QED
  BY <1>1, <1>2, TypeCorrect, PTL DEF Spec

\* No run of a cursor job, alone or overlapping, failing or not, passes an item
\* over.
THEOREM NothingSkipped == Spec => []NoGap
<1>1. CursorInv => NoGap
  BY DEF CursorInv
<1> QED
  BY <1>1, CursorSafety, PTL

-----------------------------------------------------------------------------
(***************************************************************************)
(* Runs that exclude each other.                                           *)
(***************************************************************************)

\* A step of the only run in flight keeps it the only one.
LEMMA StaysAlone ==
  ASSUME TypeOK, Alone, NEW r \in Run, NEW l \in PC \ {"idle"}, NEW m \in PC, Goto(r, l, m)
  PROVE  Alone' /\ \A q \in Run \ {r} : pc'[q] = "idle"
BY GotoMoves DEF TypeOK, Alone

\* The inductive invariant of exclusive runs: one run at a time is in flight,
\* and the cursor it has read is the committed one until it commits.
THEOREM ExclusiveSafety == ASSUME Exclusive PROVE Spec => []ExclusiveInv
<1>1. Init => ExclusiveInv
  BY DEF Init, ExclusiveInv, Alone, CursorIsFresh, InTx
<1>2. TypeOK /\ ExclusiveInv /\ [Next]_vars => ExclusiveInv'
  <2> SUFFICES ASSUME TypeOK, ExclusiveInv, [Next]_vars PROVE ExclusiveInv'
    OBVIOUS
  <2> DEFINE Fresh == {"readHead", "crawl", "connect"} \cup InTx
  <2>0. Fresh \subseteq PC
    BY PCs DEF InTx
  <2> USE DEF ExclusiveInv, table
  <2>1. CASE UNCHANGED vars
    BY <2>1 DEF vars, Alone, CursorIsFresh
  \* A step of a run that goes on with the committed cursor, or goes out.
  <2>2. ASSUME NEW r \in Run, NEW l \in PC \ {"idle"}, NEW m \in PC, Goto(r, l, m),
               m \in Fresh => plan'[r].from = cursor'
        PROVE  ExclusiveInv'
    <3>1. Alone' /\ pc'[r] = m /\ \A q \in Run \ {r} : pc'[q] = "idle"
      BY <2>2, StaysAlone, GotoMoves DEF TypeOK
    <3> QED
      BY <2>2, <3>1 DEF CursorIsFresh, InTx
  <2>3. CASE Crash
    BY <2>3 DEF Crash, Alone, CursorIsFresh, InTx
  <2>4. CASE Grow
    BY <2>4 DEF Grow, Alone, CursorIsFresh
  <2>5. ASSUME NEW r \in Run, Begin(r) PROVE ExclusiveInv'
    <3>1. pc'[r] = "readCursor" /\ \A q \in Run \ {r} : pc'[q] = "idle"
      BY <2>5, GotoMoves, PCs DEF Begin, TypeOK
    <3> QED
      BY <3>1 DEF Alone, CursorIsFresh, InTx
  <2>6. ASSUME NEW r \in Run, End(r) PROVE ExclusiveInv'
    BY <2>2, <2>6, PCs DEF End, InTx
  <2>7. ASSUME NEW r \in Run, ReadCursor(r) PROVE ExclusiveInv'
    BY <2>2, <2>7, PCs DEF ReadCursor, TypeOK
  <2>8. ASSUME NEW r \in Run, NEW h \in 0 .. head, NothingNew(r, h) PROVE ExclusiveInv'
    BY <2>2, <2>8, PCs DEF NothingNew, InTx
  \* A step inside the plan.
  <2>9. ASSUME NEW r \in Run, NEW l \in Fresh, NEW m \in PC, Goto(r, l, m),
               plan'[r].from = plan[r].from, cursor' = cursor
        PROVE  ExclusiveInv'
    BY <2>0, <2>2, <2>9 DEF CursorIsFresh, InTx, Goto
  <2>10. ASSUME NEW r \in Run, NEW h \in 0 .. head, Plan(r, h) PROVE ExclusiveInv'
    <3>1. plan'[r].from = plan[r].from
      BY <2>10 DEF Plan, TypeOK
    <3> QED
      BY <2>9, <2>10, <3>1, PCs DEF Plan, ReadHead
  <2>11. ASSUME NEW r \in Run, NEW E \in SUBSET Items(r), Crawl(r, E) PROVE ExclusiveInv'
    <3>1. plan'[r].from = plan[r].from
      BY <2>11 DEF Crawl, TypeOK
    <3> QED
      BY <2>9, <2>11, <3>1, PCs DEF Crawl
  <2>12. ASSUME NEW r \in Run, NEW m \in Ended, Goto(r, "commit", m) PROVE ExclusiveInv'
    BY <2>2, <2>12, PCs DEF InTx
  <2>13. ASSUME NEW r \in Run, RunStep(r) PROVE ExclusiveInv'
    <3>1. CASE Connect(r) \/ Insert(r) \/ Move(r) \/ Rollback(r)
      BY <2>9, <3>1, PCs DEF Connect, Insert, Move, Rollback, InTx
    <3>2. CASE Commit(r)
      BY <2>12, <3>2, PCs DEF Commit
    <3>3. ASSUME Crawl(r, {}) PROVE ExclusiveInv'
      BY <2>11, <3>3
    <3>4. head \in 0 .. head
      BY DEF TypeOK
    <3> QED
      BY <2>7, <2>8, <2>10, <2>13, <3>1, <3>2, <3>3, <3>4 DEF RunStep
  <2>14. ASSUME NEW r \in Run, RunFault(r) PROVE ExclusiveInv'
    <3>1. CASE ReadFails(r)
      BY <2>2, <3>1, PCs DEF ReadFails, Fails, InTx
    <3>2. CASE CrawlFails(r) \/ ConnectFails(r) \/ StatementFails(r) \/ RollbackFails(r)
      BY <2>9, <3>2, PCs DEF CrawlFails, ConnectFails, StatementFails, RollbackFails, Fails, InTx
    <3>3. CASE CommitUnheard(r)
      BY <2>12, <3>3, PCs DEF CommitUnheard
    <3>4. 0 .. head - 1 \subseteq 0 .. head
      BY DEF TypeOK
    <3> QED
      BY <2>8, <2>10, <2>11, <2>14, <3>1, <3>2, <3>3, <3>4 DEF RunFault
  <2> QED
    BY <2>1, <2>3, <2>4, <2>5, <2>6, <2>13, <2>14 DEF Next
<1> QED
  BY <1>1, <1>2, TypeCorrect, PTL DEF Spec

\* What an exclusive run has read of the cursor stays true until it commits.
THEOREM CursorStaysFresh == ASSUME Exclusive PROVE Spec => []CursorIsFresh
<1>1. ExclusiveInv => CursorIsFresh
  BY DEF ExclusiveInv
<1> QED
  BY <1>1, ExclusiveSafety, PTL

\* Every step of exclusive runs is a step of the indexer or leaves its state alone.
LEMMA StepsImplement ==
  ASSUME TypeOK, TypeOK', CursorInv, ExclusiveInv, [Next]_vars
  PROVE  [I!Next]_(I!vars)
<1> USE DEF table
<1> DEFINE same == UNCHANGED <<head, table>>
<1>1. ASSUME same PROVE [I!Next]_(I!vars)
  BY <1>1 DEF I!vars
<1>2. ASSUME NEW r \in Run, pc[r] = "commit", Take(r) PROVE I!Next
  <2>1. /\ plan[r].from = cursor /\ plan[r].got \subseteq Items(r)
        /\ plan[r].from < plan[r].to /\ plan[r].to <= head
        /\ LeavesOut \/ plan[r].got = Items(r)
    BY <1>2 DEF ExclusiveInv, CursorIsFresh, CursorInv, PlanIsSound, Planned, Crawled, InTx
  <2> DEFINE E == Items(r) \ plan[r].got
             e == plan[r].to
  <2>2. /\ e \in cursor + 1 .. head /\ E \in SUBSET (cursor .. e - 1)
        /\ Items(r) = cursor .. e - 1
    BY <2>1 DEF TypeOK, Items
  <2>3. (cursor .. e - 1) \ E = plan[r].got
    BY <2>1, <2>2
  <2>4. I!Advance(e, E)
    BY <1>2, <2>1, <2>2, <2>3 DEF I!Advance, Take
  <2> QED
    BY <2>2, <2>4 DEF I!Next
<1>3. CASE UNCHANGED vars
  BY <1>1, <1>3 DEF vars
<1>4. CASE Crash
  BY <1>1, <1>4 DEF Crash
<1>5. CASE Grow
  BY <1>5 DEF Grow, TypeOK, I!Next, I!Grow
<1>6. ASSUME NEW r \in Run, Begin(r) \/ RunStep(r) \/ RunFault(r) \/ End(r)
      PROVE  [I!Next]_(I!vars)
  <2>1. CASE Commit(r) \/ CommitUnheard(r)
    BY <1>2, <2>1 DEF Commit, CommitUnheard, Goto
  <2>2. CASE ~(Commit(r) \/ CommitUnheard(r))
    <3>1. ASSUME NEW h, NothingNew(r, h) \/ Plan(r, h) PROVE same
      BY <3>1 DEF NothingNew, Plan, ReadHead
    <3>2. ASSUME NEW E, Crawl(r, E) PROVE same
      BY <3>2 DEF Crawl
    <3>3. ASSUME NEW l, NEW m, Fails(r, l, m) PROVE same
      BY <3>3 DEF Fails
    <3>4. CASE Begin(r) \/ End(r)
      BY <1>1, <3>4 DEF Begin, End
    <3>5. CASE RunStep(r)
      BY <1>1, <2>2, <3>1, <3>2, <3>5 DEF RunStep, ReadCursor, Connect, Insert, Move, Rollback
    <3>6. CASE RunFault(r)
      BY <1>1, <2>2, <3>1, <3>2, <3>3, <3>6
         DEF RunFault, ReadFails, CrawlFails, ConnectFails, StatementFails, RollbackFails
    <3> QED
      BY <1>6, <3>4, <3>5, <3>6
  <2> QED
    BY <2>1, <2>2
<1> QED
  BY <1>3, <1>4, <1>5, <1>6 DEF Next

\* A job whose runs exclude each other implements the indexer.
THEOREM Implements == ASSUME Exclusive PROVE Spec => ImplementsIndexer
<1>1. Init => I!Init
  BY DEF Init, I!Init
<1>2. TypeOK /\ TypeOK' /\ CursorInv /\ ExclusiveInv /\ [Next]_vars => [I!Next]_(I!vars)
  BY StepsImplement
<1> QED
  BY <1>1, <1>2, TypeCorrect, CursorSafety, ExclusiveSafety, PTL DEF Spec, ImplementsIndexer, I!Spec

\* The cursor of such a job never moves back.
THEOREM NeverBack == ASSUME Exclusive PROVE Spec => CursorNeverBack
<1>1. TypeOK /\ [I!Next]_(I!vars) => [cursor' >= cursor]_cursor
  BY DEF TypeOK, I!Next, I!vars, I!Grow, I!Advance
<1>2. TypeOK /\ TypeOK' /\ CursorInv /\ ExclusiveInv /\ [Next]_vars => [cursor' >= cursor]_cursor
  BY <1>1, StepsImplement
<1> QED
  BY <1>2, TypeCorrect, CursorSafety, ExclusiveSafety, PTL DEF Spec, CursorNeverBack
=============================================================================
