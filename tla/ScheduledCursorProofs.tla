------------------------ MODULE ScheduledCursorProofs ------------------------
(***************************************************************************)
(* The scheduler keeps the promise of the indexer: what SchedulerJob shows *)
(* of `process` and what CursorRun shows of exclusive runs, put together.  *)
(***************************************************************************)
EXTENDS ScheduledCursor, SchedulerJobProofs

XP == INSTANCE CursorRunProofs WITH Run <- Slot, pc <- at, Exclusive <- TRUE

-----------------------------------------------------------------------------
(***************************************************************************)
(* The composition keeps to the life cycle of SchedulerJob.                *)
(***************************************************************************)

\* Every step is one of SchedulerJob's or leaves its state alone.
LEMMA SchedulerSteps == ScheduledNext => [Next]_vars
<1> SUFFICES ASSUME ScheduledNext PROVE [Next]_vars
  OBVIOUS
<1>1. ASSUME NEW s \in Slot, Call(s) PROVE Next
  BY <1>1, ScheduledAssumption DEF Call, Next, TickStep
<1>2. ASSUME NEW s \in Slot, Over(s) PROVE Next
  BY <1>2, ScheduledAssumption DEF Over, Next, TickStep
<1>3. CASE RunOnly
  BY <1>3 DEF RunOnly, schedulerVars
<1>4. ASSUME NEW j \in Job, NEW s \in Slot, Aside(j, s) \/ OtherWork(j, s) PROVE Next
  BY <1>4 DEF Aside, OtherWork, Next, TickStep
<1>5. CASE Beside(SchedulerStep)
  BY <1>4, <1>5 DEF Beside, SchedulerStep, Next
<1> QED
  BY <1>1, <1>2, <1>3, <1>5 DEF ScheduledNext

\* The life cycle of a scheduler with a cursor job is that of SchedulerJob.
THEOREM LifeCycle == ScheduledSpec => Spec
<1>1. ScheduledInit => Init
  BY DEF ScheduledInit
<1>2. [ScheduledNext]_allVars => [Next]_vars
  BY SchedulerSteps DEF allVars, schedulerVars
<1> QED
  BY <1>1, <1>2, PTL DEF ScheduledSpec, Spec

-----------------------------------------------------------------------------
(***************************************************************************)
(* A run is in flight exactly when a tick of the job is at work.           *)
(***************************************************************************)

Link == at \in [Slot -> C!PC] /\ WorkIsRun

\* A step of a run, or its end, moves that run's state only.
LEMMA RunMoves ==
  ASSUME Link, NEW s \in Slot, NEW l, NEW m \in C!PC, C!Goto(s, l, m)
  PROVE  /\ at[s] = l /\ at' \in [Slot -> C!PC] /\ at'[s] = m
         /\ \A t \in Slot \ {s} : at'[t] = at[t]
BY DEF Link, C!Goto

\* A run in flight stays in flight until it is over.
LEMMA RunGoesOn ==
  ASSUME Link, NEW s \in Slot, C!RunStep(s) \/ C!RunFault(s)
  PROVE  at' \in [Slot -> C!PC] /\ \A t \in Slot : at'[t] = "idle" <=> at[t] = "idle"
<1>1. ASSUME NEW l \in C!PC \ {"idle"}, NEW m \in C!PC \ {"idle"}, C!Goto(s, l, m)
      PROVE  at' \in [Slot -> C!PC] /\ \A t \in Slot : at'[t] = "idle" <=> at[t] = "idle"
  BY <1>1, RunMoves
<1>2. PICK l \in C!PC \ {"idle"}, m \in C!PC \ {"idle"} : C!Goto(s, l, m)
  <2> USE DEF C!PC, C!InTx, C!Ended
  <2>1. CASE C!RunStep(s)
    BY <2>1 DEF C!RunStep, C!ReadCursor, C!NothingNew, C!Plan, C!Crawl, C!Connect, C!Insert,
         C!Move, C!Commit, C!Rollback
  <2>2. CASE C!RunFault(s)
    BY <2>2 DEF C!RunFault, C!NothingNew, C!Plan, C!Crawl, C!ReadFails, C!CrawlFails,
         C!ConnectFails, C!StatementFails, C!CommitUnheard, C!RollbackFails, C!Fails
  <2> QED
    BY <2>1, <2>2
<1> QED
  BY <1>1, <1>2

\* The process ends: no tick and no run is left.
LEMMA AllGone == ASSUME Dies, C!Crash PROVE Link'
BY ScheduledAssumption DEF Dies, NoTicks, C!Crash, Link, WorkIsRun, C!PC

\* The scheduler steps that are not the job's work leave its work where it is,
\* or end the process.
LEMMA WorkStaysAside ==
  ASSUME TypeOK, SchedulerStep
  PROVE  \/ Dies
         \/ ~Gone /\ \A t \in Slot : pc'[Indexed][t] = "work" <=> pc[Indexed][t] = "work"
<1>0. Indexed \in Job
  BY ScheduledAssumption
<1> USE <1>0
<1> DEFINE stays == \A t \in Slot : pc'[Indexed][t] = "work" <=> pc[Indexed][t] = "work"
<1>1. ASSUME NEW j \in Job, NEW s \in Slot, NEW l, Goto(j, s, l), UNCHANGED phase,
             j # Indexed \/ (pc[j][s] # "work" /\ l # "work")
      PROVE  ~Gone /\ stays
  BY <1>1, GotoMoves DEF Gone
<1>2. ASSUME UNCHANGED pc, phase' # "down" \/ phase = "down" PROVE ~Gone /\ stays
  BY <1>2 DEF Gone
<1>3. ASSUME NEW j \in Job, NEW s \in Slot, Escape(j, s), j # Indexed \/ pc[j][s] # "work"
      PROVE  Dies \/ (~Gone /\ stays)
  BY <1>1, <1>3 DEF Escape, boot
<1>4. CASE Boot \/ StartFind \/ StartReset
  BY <1>2, <1>4 DEF Boot, StartFind, StartReset
<1>5. CASE StartFails
  BY <1>2, <1>5 DEF StartFails
<1>6. CASE Crash
  BY <1>6 DEF Crash
<1>7. ASSUME NEW r \in Row, DisableOrphan(r) PROVE ~Gone /\ stays
  BY <1>2, <1>7 DEF DisableOrphan
<1>8. ASSUME NEW j \in Job, NEW s \in Slot, Fire(j, s) PROVE ~Gone /\ stays
  BY <1>1, <1>8 DEF Fire, boot
<1>9. ASSUME NEW j \in Job, NEW s \in Slot, Aside(j, s) PROVE Dies \/ (~Gone /\ stays)
  <2>1. CASE Read(j, s)
    BY <1>1, <2>1 DEF Read, boot
  <2>2. CASE DecideMissing(j, s)
    BY <1>1, <2>2 DEF DecideMissing, Decide, boot
  <2>3. CASE DecideBusy(j, s)
    BY <1>1, <2>3 DEF DecideBusy, Decide, boot
  <2>4. CASE DecideCron(j, s)
    BY <1>1, <2>4 DEF DecideCron, Decide, boot
  <2>5. CASE DecideWork(j, s)
    BY <1>1, <2>5 DEF DecideWork, Decide, boot
  <2>6. CASE Clear(j, s) \/ NormalStatus(j, s) \/ FatalStatus(j, s) \/ FatalError(j, s)
    BY <1>1, <2>6 DEF Clear, NormalStatus, FatalStatus, FatalError, Step, boot
  <2>7. CASE pc[j][s] = "decide" /\ DeleteMissing(j, s)
    BY <1>3, <2>7 DEF DeleteMissing
  <2> QED
    BY <1>9, <2>1, <2>2, <2>3, <2>4, <2>5, <2>6, <2>7 DEF Aside
<1>10. ASSUME NEW j \in Job, NEW s \in Slot, StatementFails(j, s) PROVE Dies \/ (~Gone /\ stays)
  BY <1>3, <1>10 DEF StatementFails
<1>11. ASSUME NEW j \in Job \ {Indexed}, NEW s \in Slot, OtherWork(j, s)
       PROVE  Dies \/ (~Gone /\ stays)
  <2>1. CASE Mark(j, s) \/ RunReturns(j, s) \/ RunNormal(j, s)
    BY <1>1, <2>1 DEF Mark, RunReturns, RunNormal, Step, boot
  <2>2. CASE RunFatal(j, s)
    BY <1>1, <2>2 DEF RunFatal, boot
  <2>3. CASE DeleteMissing(j, s) \/ RunRaw(j, s)
    BY <1>3, <2>3 DEF DeleteMissing, RunRaw
  <2> QED
    BY <1>11, <2>1, <2>2, <2>3 DEF OtherWork
<1>12. ASSUME NEW r \in Row, \/ EditStatus(r) \/ DeleteRow(r) \/ \E c \in CronName : EditCron(r, c)
       PROVE  ~Gone /\ stays
  BY <1>2, <1>12 DEF EditStatus, DeleteRow, EditCron, Edit, boot
<1> QED
  BY <1>4, <1>5, <1>6, <1>7, <1>8, <1>9, <1>10, <1>11, <1>12 DEF SchedulerStep

\* Every step keeps work and runs together.
LEMMA LinkStep == ASSUME TypeOK, RecordInv, Link, [ScheduledNext]_allVars PROVE Link'
<1>0. Indexed \in Job
  BY ScheduledAssumption
<1> USE <1>0
<1>1. CASE UNCHANGED allVars
  BY <1>1 DEF allVars, schedulerVars, runVars, vars, Link, WorkIsRun
<1>2. ASSUME NEW s \in Slot, Call(s) PROVE Link'
  <2>1. pc'[Indexed][s] = "work" /\ \A t \in Slot \ {s} : pc'[Indexed][t] = pc[Indexed][t]
    BY <1>2, GotoMoves DEF Call, Mark, Step
  <2>2. /\ at' \in [Slot -> C!PC] /\ at'[s] = "readCursor"
        /\ \A t \in Slot \ {s} : at'[t] = at[t]
    BY <1>2, RunMoves DEF Call, C!Begin, C!PC
  <2> QED
    BY <2>1, <2>2 DEF Link, WorkIsRun
<1>3. ASSUME NEW s \in Slot, Over(s) PROVE Link'
  <2>1. \/ Dies
        \/ /\ ~Gone /\ pc'[Indexed][s] # "work"
           /\ \A t \in Slot \ {s} : pc'[Indexed][t] = pc[Indexed][t]
    <3>1. ASSUME NEW l, l # "work", Goto(Indexed, s, l), UNCHANGED phase
          PROVE  /\ ~Gone /\ pc'[Indexed][s] # "work"
                 /\ \A t \in Slot \ {s} : pc'[Indexed][t] = pc[Indexed][t]
      BY <3>1, GotoMoves DEF Gone
    <3>2. CASE RunReturns(Indexed, s) \/ RunNormal(Indexed, s)
      BY <3>1, <3>2 DEF RunReturns, RunNormal, Step, boot
    <3>3. CASE RunFatal(Indexed, s)
      BY <3>1, <3>3 DEF RunFatal, boot
    <3>4. CASE DeleteMissing(Indexed, s) \/ RunRaw(Indexed, s)
      BY <3>1, <3>4 DEF DeleteMissing, RunRaw, Escape, boot
    <3> QED
      BY <1>3, <3>2, <3>3, <3>4 DEF Over
  <2>2. CASE Gone
    <3>1. Dies
      BY <2>1, <2>2
    <3> QED
      BY <1>3, <2>2, <3>1, AllGone DEF Over
  <2>3. CASE ~Gone
    <3>1. ~Dies
      BY <1>3, <2>3 DEF Dies, Gone, Over, RunReturns, RunNormal, RunFatal, DeleteMissing, RunRaw, Step
    <3>2. PICK l \in C!Ended : C!Goto(s, l, "idle")
      BY <1>3, <2>3 DEF Over, C!End
    <3>3. at' \in [Slot -> C!PC] /\ at'[s] = "idle" /\ \A t \in Slot \ {s} : at'[t] = at[t]
      BY <3>2, RunMoves DEF C!PC
    <3> QED
      BY <2>1, <3>1, <3>3 DEF Link, WorkIsRun
  <2> QED
    BY <2>2, <2>3
<1>4. CASE RunOnly
  <2>1. UNCHANGED pc
    BY <1>4 DEF RunOnly, schedulerVars, vars
  <2>2. at' \in [Slot -> C!PC] /\ \A t \in Slot : at'[t] = "idle" <=> at[t] = "idle"
    <3>1. CASE C!Grow
      BY <3>1 DEF C!Grow, Link
    <3> QED
      BY <1>4, <3>1, RunGoesOn DEF RunOnly, Works
  <2> QED
    BY <2>1, <2>2 DEF Link, WorkIsRun
<1>5. CASE Beside(SchedulerStep)
  <2>1. CASE Gone
    BY <1>5, <2>1, AllGone, WorkStaysAside DEF Beside
  <2>2. CASE ~Gone
    <3>1. UNCHANGED at
      BY <1>5, <2>2 DEF Beside, runVars
    <3>2. CASE Dies
      <4>1. \A t \in Slot : pc[Indexed][t] # "work"
        BY <2>2, <3>2 DEF Dies, Gone, RecordInv, StartIsQuiet
      <4> QED
        BY <3>1, <3>2, <4>1 DEF Dies, NoTicks, Link, WorkIsRun
    <3>3. CASE ~Dies
      BY <1>5, <3>1, <3>3, WorkStaysAside DEF Beside, Link, WorkIsRun
    <3> QED
      BY <3>2, <3>3
  <2> QED
    BY <2>1, <2>2
<1> QED
  BY <1>1, <1>2, <1>3, <1>4, <1>5 DEF ScheduledNext

\* The tick that is at work has a run in flight, and every run in flight a tick
\* that waits for it: nothing works behind the back of `process`.
THEOREM WorkIsRunAlways == ScheduledSpec => []WorkIsRun
<1>1. ScheduledInit => Link
  BY ScheduledAssumption DEF ScheduledInit, Init, C!Init, NoTicks, Link, WorkIsRun, C!PC
<1>2. Link => WorkIsRun
  BY DEF Link
<1> QED
  BY <1>1, <1>2, LinkStep, LifeCycle, TypeCorrect, RecordSafety, PTL DEF ScheduledSpec

-----------------------------------------------------------------------------
(***************************************************************************)
(* With prompt ticks `process` makes the runs exclude each other, and the  *)
(* job keeps what the indexer promises.                                    *)
(***************************************************************************)

\* Every step is one of a job whose runs exclude each other.
LEMMA RunSteps ==
  ASSUME TypeOK, PromptInv, Link, ScheduledNext
  PROVE  [X!Next]_(X!vars)
<1>0. Indexed \in Job
  BY ScheduledAssumption
<1> USE <1>0
<1>1. ASSUME NEW s \in Slot, Call(s) PROVE X!Begin(s)
  <2>1. \A t \in Slot : pc[Indexed][t] # "work"
    BY <1>1 DEF Call, Mark, Step, PromptInv, OwnerIsAlone, Owns, Owning, Passing
  <2>2. \A t \in Slot : at[t] = "idle"
    BY <2>1 DEF Link, WorkIsRun
  <2> QED
    BY <1>1, <2>2 DEF Call, C!Begin, X!Begin, C!Goto, X!Goto, C!table, X!table
<1>2. ASSUME C!Crash PROVE X!Crash
  BY <1>2 DEF C!Crash, X!Crash, C!NoPlan, X!NoPlan, C!table, X!table
<1>3. ASSUME NEW s \in Slot, C!End(s) PROVE X!End(s)
  BY <1>3 DEF C!End, X!End, C!Ended, X!Ended, C!Goto, X!Goto, C!NoPlan, X!NoPlan, C!table, X!table
<1>4. ASSUME C!Grow PROVE X!Grow
  BY <1>4 DEF C!Grow, X!Grow, C!table, X!table
<1>5. ASSUME NEW s \in Slot, C!RunStep(s) PROVE X!RunStep(s)
  BY <1>5 DEF C!RunStep, X!RunStep, C!ReadCursor, X!ReadCursor, C!NothingNew, X!NothingNew,
       C!Plan, X!Plan, C!ReadHead, X!ReadHead, C!ChunkEnd, X!ChunkEnd, C!Crawl, X!Crawl,
       C!Items, X!Items, C!Connect, X!Connect, C!Insert, X!Insert, C!Move, X!Move,
       C!Commit, X!Commit, C!Take, X!Take, C!Rollback, X!Rollback, C!Fault, X!Fault,
       C!Goto, X!Goto, C!table, X!table
<1>6. ASSUME NEW s \in Slot, C!RunFault(s) PROVE X!RunFault(s)
  BY <1>6 DEF C!RunFault, X!RunFault, C!NothingNew, X!NothingNew,
       C!Plan, X!Plan, C!ReadHead, X!ReadHead, C!ChunkEnd, X!ChunkEnd, C!Crawl, X!Crawl,
       C!Items, X!Items, C!ReadFails, X!ReadFails, C!CrawlFails, X!CrawlFails,
       C!ConnectFails, X!ConnectFails, C!StatementFails, X!StatementFails,
       C!CommitUnheard, X!CommitUnheard, C!Take, X!Take, C!RollbackFails, X!RollbackFails,
       C!Fails, X!Fails, C!Fault, X!Fault, C!Goto, X!Goto, C!table, X!table
<1>7. CASE RunOnly
  BY <1>4, <1>5, <1>6, <1>7 DEF RunOnly, Works, X!Next
<1>8. CASE Beside(SchedulerStep)
  BY <1>2, <1>8 DEF Beside, runVars, X!Next, X!vars
<1>9. ASSUME NEW s \in Slot, Over(s) PROVE X!Next
  BY <1>2, <1>3, <1>9 DEF Over, X!Next
<1> QED
  BY <1>1, <1>7, <1>8, <1>9 DEF ScheduledNext, X!Next

\* The runs of a job under a prompt scheduler are runs that exclude each other.
THEOREM RunsAreExclusive == ASSUME Prompt PROVE ScheduledSpec => RunsExclude
<1>1. ScheduledInit => X!Init
  BY DEF ScheduledInit, C!Init, X!Init, C!NoPlan, X!NoPlan
<1>2. TypeOK /\ PromptInv /\ Link /\ [ScheduledNext]_allVars => [X!Next]_(X!vars)
  BY RunSteps DEF allVars, runVars, X!vars
<1>3. ScheduledInit => Link
  BY ScheduledAssumption DEF ScheduledInit, Init, C!Init, NoTicks, Link, WorkIsRun, C!PC
<1> QED
  BY <1>1, <1>2, <1>3, LinkStep, LifeCycle, TypeCorrect, RecordSafety, PromptSafety, PTL
     DEF ScheduledSpec, RunsExclude, X!Spec

\* The module of the proofs about CursorRun speaks of the same runs.
LEMMA SameRuns == X!Spec <=> XP!Spec
<1>1. X!Init <=> XP!Init
  BY DEF X!Init, XP!Init, X!NoPlan, XP!NoPlan
<1>2. [X!Next]_(X!vars) <=> [XP!Next]_(XP!vars)
  BY
     DEF X!Next, XP!Next, X!vars, XP!vars, X!table, XP!table, X!Begin,
         XP!Begin, X!End, XP!End, X!Ended, XP!Ended, X!Crash, XP!Crash,
         X!Grow, XP!Grow, X!RunStep, XP!RunStep, X!RunFault, XP!RunFault,
         X!ReadCursor, XP!ReadCursor, X!NothingNew, XP!NothingNew, X!Plan,
         XP!Plan, X!ReadHead, XP!ReadHead, X!ChunkEnd, XP!ChunkEnd, X!Crawl,
         XP!Crawl, X!Items, XP!Items, X!Connect, XP!Connect, X!Insert,
         XP!Insert, X!Move, XP!Move, X!Commit, XP!Commit, X!Take, XP!Take,
         X!Rollback, XP!Rollback, X!ReadFails, XP!ReadFails, X!CrawlFails,
         XP!CrawlFails, X!ConnectFails, XP!ConnectFails, X!StatementFails,
         XP!StatementFails, X!CommitUnheard, XP!CommitUnheard,
         X!RollbackFails, XP!RollbackFails, X!Fails, XP!Fails, X!Fault,
         XP!Fault, X!Goto, XP!Goto, X!NoPlan, XP!NoPlan
<1> QED
  BY <1>1, <1>2, PTL DEF X!Spec, XP!Spec

\* The whole argument: with prompt ticks a cursor job under the scheduler keeps
\* the indexer's promise, through errors, edits, crashes and restarts.
THEOREM IndexesAlways == ASSUME Prompt PROVE ScheduledSpec => Indexes
<1>1. XP!CursorAssumption
  BY ScheduledAssumption DEF X!CursorAssumption, XP!CursorAssumption
<1>2. XP!Spec => XP!ImplementsIndexer
  BY <1>1, XP!Implements, PTL
<1>3. XP!I!Init => X!I!Init
  BY DEF XP!I!Init, X!I!Init
<1>4. [XP!I!Next]_(XP!I!vars) => [X!I!Next]_(X!I!vars)
  BY DEF XP!I!Next, X!I!Next, XP!I!vars, X!I!vars, XP!I!Grow, X!I!Grow, XP!I!Advance, X!I!Advance
<1> QED
  BY <1>2, <1>3, <1>4, SameRuns, RunsAreExclusive, PTL
     DEF RunsExclude, Indexes, X!ImplementsIndexer, XP!ImplementsIndexer, X!I!Spec, XP!I!Spec

\* So the runs the scheduler starts never move the cursor back.
THEOREM NeverBackAlways == ASSUME Prompt PROVE ScheduledSpec => CursorNeverBack
<1>1. XP!CursorAssumption
  BY ScheduledAssumption DEF X!CursorAssumption, XP!CursorAssumption
<1>2. XP!Spec => XP!CursorNeverBack
  BY <1>1, XP!NeverBack, PTL
<1> QED
  BY <1>2, SameRuns, RunsAreExclusive, PTL
     DEF RunsExclude, CursorNeverBack, X!CursorNeverBack, XP!CursorNeverBack

\* And nobody moves the cursor between a run's reading it and its transaction.
THEOREM CursorStaysFreshAlways == ASSUME Prompt PROVE ScheduledSpec => []CursorIsFresh
<1>1. XP!CursorAssumption
  BY ScheduledAssumption DEF X!CursorAssumption, XP!CursorAssumption
<1>2. XP!Spec => []XP!CursorIsFresh
  BY <1>1, XP!CursorStaysFresh, PTL
<1>3. XP!CursorIsFresh => X!CursorIsFresh
  BY DEF XP!CursorIsFresh, X!CursorIsFresh, XP!InTx, X!InTx
<1> QED
  BY <1>2, <1>3, SameRuns, RunsAreExclusive, PTL DEF RunsExclude, CursorIsFresh
=============================================================================
