---------------------------- MODULE ScheduledCursor ----------------------------
(***************************************************************************)
(* A cursor job under the scheduler: the life cycle of SchedulerJob with   *)
(* the runs of CursorRun as the work of one of its jobs.  Tick s of that   *)
(* job is at "work" while its run s is in flight; the way the run ends is  *)
(* the way `await this.run(...)` ends in processWork.                      *)
(*                                                                         *)
(* CursorRun has the assumption Exclusive.  Here nothing is assumed of the *)
(* runs: what keeps them apart, or does not, is the column `process`.      *)
(*                                                                         *)
(* The row of the job is not deleted here (SchedulerJob has that), and the *)
(* lock its transaction holds on that row makes no other statement wait.   *)
(***************************************************************************)
EXTENDS SchedulerJob, Integers

CONSTANTS
  Indexed,    \* the cursor job
  Start, ChunkSize, LeavesOut, ReadsInside, MaxHead, MaxFaults \* of CursorRun

VARIABLES
  head, cursor, stored, lost, \* CursorRun's
  at,         \* CursorRun's pc
  plan, faults

\* The runs of the job, which nothing but their callers keeps apart ...
C == INSTANCE CursorRun WITH Run <- Slot, pc <- at, Exclusive <- FALSE

\* ... and the runs of a job whose runs exclude each other.
X == INSTANCE CursorRun WITH Run <- Slot, pc <- at, Exclusive <- TRUE

ASSUME ScheduledAssumption == Indexed \in Job /\ X!CursorAssumption

runVars == <<head, cursor, stored, lost, at, plan, faults>>
schedulerVars == vars
allVars == <<schedulerVars, runVars>>

ScheduledInit == Init /\ C!Init

-----------------------------------------------------------------------------
\* The tick marks its row and calls run.
Call(s) == Mark(Indexed, s) /\ C!Begin(s)

\* The run goes on by itself: its steps and its faults; the chain grows.
Works == \E s \in Slot : C!RunStep(s) \/ C!RunFault(s)
RunOnly == (Works \/ C!Grow) /\ UNCHANGED schedulerVars

\* The process is gone, and the runs in flight with it.
Gone == phase # "down" /\ phase' = "down"

\* The run is over: what processWork does is decided by how it ended.  Errors of
\* level Fatal and Normal are told apart by their message only.
Over(s) ==
  /\ \/ at[s] = "returned" /\ RunReturns(Indexed, s)
     \/ at[s] = "handled" /\ (RunNormal(Indexed, s) \/ RunFatal(Indexed, s)
                               \/ DeleteMissing(Indexed, s))
     \/ at[s] = "raw" /\ RunRaw(Indexed, s)
  /\ IF Gone THEN C!Crash ELSE C!End(s)

\* A step of the scheduler that is no business of the job's runs.
Beside(A) == A /\ IF Gone THEN C!Crash ELSE UNCHANGED runVars

\* The steps of a tick that neither call run nor wait for it.
Aside(j, s) ==
  \/ Read(j, s) \/ DecideMissing(j, s) \/ DecideBusy(j, s)
  \/ DecideCron(j, s) \/ DecideWork(j, s) \/ Clear(j, s) \/ NormalStatus(j, s)
  \/ FatalStatus(j, s) \/ FatalError(j, s)
  \/ pc[j][s] = "decide" /\ DeleteMissing(j, s)

\* The work of the other jobs.
OtherWork(j, s) ==
  \/ Mark(j, s) \/ RunReturns(j, s) \/ RunNormal(j, s) \/ RunFatal(j, s)
  \/ pc[j][s] = "work" /\ DeleteMissing(j, s)
  \/ RunRaw(j, s)

SchedulerStep ==
  \/ Boot \/ StartFind \/ StartReset \/ StartFails \/ Crash
  \/ \E r \in Row : DisableOrphan(r)
  \/ \E j \in Job, s \in Slot : Fire(j, s) \/ Aside(j, s) \/ StatementFails(j, s)
  \/ \E j \in Job \ {Indexed}, s \in Slot : OtherWork(j, s)
  \/ \E r \in Row : EditStatus(r) \/ \E c \in CronName : EditCron(r, c)
  \/ \E r \in Row \ {Indexed} : DeleteRow(r)

ScheduledNext ==
  \/ \E s \in Slot : Call(s) \/ Over(s)
  \/ RunOnly
  \/ Beside(SchedulerStep)

ScheduledSpec == ScheduledInit /\ [][ScheduledNext]_allVars

\* SchedulerJob's fairness, and CursorRun's inside `run`.
ScheduledFairness ==
  /\ WF_allVars(Beside(StartFind)) /\ WF_allVars(Beside(StartReset))
  /\ \A s \in Slot :
       /\ WF_allVars(Beside(Fire(Indexed, s)))
       /\ WF_allVars(Call(s) \/ Over(s) \/ Beside(Aside(Indexed, s)))
       /\ WF_allVars(C!RunStep(s) /\ UNCHANGED schedulerVars)

FairScheduledSpec == ScheduledSpec /\ ScheduledFairness

-----------------------------------------------------------------------------
(***************************************************************************)
(* Properties.                                                             *)
(***************************************************************************)

\* A run is in flight exactly when a tick of the job is at work.
WorkIsRun == \A s \in Slot : pc[Indexed][s] = "work" <=> at[s] # "idle"

\* With prompt ticks the runs of the job are those of a job whose runs exclude
\* each other, through crashes, restarts and errors.
RunsExclude == X!Spec

\* Hence the scheduler keeps what the indexer promises: the cursor only moves on,
\* and nothing is passed over.
Indexes == X!ImplementsIndexer

\* A run of the scheduler never moves the cursor back, whatever its node says,
\* and what it read of the cursor stays true until its transaction ends.
CursorNeverBack == X!CursorNeverBack
CursorIsFresh == X!CursorIsFresh

\* The job catches up with the chain as long as it is alive in the end: armed,
\* with a row, a known cron, and no error that left processWork.
IndexCatchesUp == <>[]Alive(Indexed) => <>[](cursor >= head)
=============================================================================
