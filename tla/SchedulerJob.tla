---------------------------- MODULE SchedulerJob ----------------------------
(***************************************************************************)
(* The life cycle of the scheduler's cron jobs: SchedulerJobBase           *)
(* (scheduler-job.base.ts), the registry of cron jobs                      *)
(* (scheduler-job.registry.ts), the start of the scheduler process         *)
(* (scheduler-job.service.ts) and the `scheduler` table they share with    *)
(* the operators.                                                          *)
(*                                                                         *)
(* A tick is one call of processWork.  The cron package fires a tick       *)
(* whether or not the earlier ones have finished, so a job has any number  *)
(* of ticks in flight (Slot), each of them between two awaits.  An await   *)
(* of the database is one step of the table; a lookup takes two, because   *)
(* the row it returns is looked at later, in the continuation.             *)
(***************************************************************************)
EXTENDS Naturals

CONSTANTS
  Job,        \* ids of the jobs that have a class: the registry is built from them
  Orphan,     \* ids of rows of the table that no job class answers to
  Slot,       \* the ticks of one job that can be in flight together
  Cron,       \* names in the column `cron` that CronExpression knows
  EverySecond,\* the expression every job is constructed with
  BadCron,    \* a name in the column `cron` that CronExpression does not know
  Exits,      \* TRUE: node ends the process on an unhandled rejection (>= 15)
  Prompt,     \* TRUE: a tick's lookup and mark are over before the next tick
  DbFails,    \* TRUE: a statement may fail
  MaxEdits,   \* bound: rows the operators touch
  MaxBoots    \* bound: times the scheduler process is started

ASSUME ConstantsAssumption ==
  /\ Job \cap Orphan = {}
  /\ EverySecond \in Cron /\ BadCron \notin Cron
  /\ Exits \in BOOLEAN /\ Prompt \in BOOLEAN /\ DbFails \in BOOLEAN
  /\ MaxEdits \in Nat /\ MaxBoots \in Nat

VARIABLES
  rows,       \* table: the ids that have a row
  status,     \* table: column `status`
  process,    \* table: column `process`
  error,      \* table: column `error`
  dbCron,     \* table: column `cron`
  phase,      \* the scheduler process: "down", "find", "reset", "up"
  enabled,    \* start(): the enabled rows it found
  orphans,    \* start(): the rows it still has to disable
  registry,   \* SchedulerRegistry: the jobs it holds
  running,    \* CronJob: its timer is armed
  cron,       \* SchedulerJobBase.cron
  pc,         \* pc[j][s]: the await tick s of job j is at, or "idle"
  seen,       \* seen[j][s]: the row tick s was handed by its lookup
  escaped,    \* ghost: jobs an error of which left processWork since the start
  edits,      \* bound: counts the operators' edits
  boots       \* bound: counts the starts

table == <<rows, status, process, error, dbCron>>
memory == <<registry, running, cron, escaped>>
boot == <<phase, enabled, orphans>>
bounds == <<edits, boots>>
vars == <<table, memory, boot, bounds, pc, seen>>

Row == Job \cup Orphan
CronName == Cron \cup {BadCron}
PC == {"idle", "read", "decide", "mark", "work", "clear",
       "normalStatus", "normalClear", "fatalStatus", "fatalError"}

\* What a lookup returns; NoRow is the undefined of a row that is not there.
NoRow == [found |-> FALSE, process |-> FALSE, cron |-> BadCron]
Seen == [found : BOOLEAN, process : BOOLEAN, cron : CronName]

\* The awaits of a tick that has passed checkState and is not done with `run`
\* or with the statements that follow it.
Owning == {"work", "clear", "normalStatus", "normalClear"}
Fatal == {"fatalStatus", "fatalError"}
Looking == {"read", "decide", "mark"}

Owns(j, s) == pc[j][s] \in Owning
NoTicks == [j \in Job |-> [s \in Slot |-> "idle"]]
NothingSeen == [j \in Job |-> [s \in Slot |-> NoRow]]

-----------------------------------------------------------------------------
\* The seeds: any table whose jobs are idle, and a process not yet started.
Init ==
  /\ rows = Row
  /\ status \in [Row -> BOOLEAN]
  /\ process = [r \in Row |-> FALSE]
  /\ error = [r \in Row |-> FALSE]
  /\ dbCron \in [Row -> CronName]
  /\ phase = "down"
  /\ enabled = {} /\ orphans = {}
  /\ registry = {}
  /\ running = [j \in Job |-> FALSE]
  /\ cron = [j \in Job |-> EverySecond]
  /\ pc = NoTicks
  /\ seen = NothingSeen
  /\ escaped = {}
  /\ edits = 0 /\ boots = 0

-----------------------------------------------------------------------------
(***************************************************************************)
(* The process.                                                            *)
(***************************************************************************)

\* The process is gone: its timers and the ticks in flight are gone with it.
Dies ==
  /\ phase' = "down"
  /\ enabled' = {} /\ orphans' = {}
  /\ registry' = {}
  /\ running' = [j \in Job |-> FALSE]
  /\ cron' = [j \in Job |-> EverySecond]
  /\ pc' = NoTicks
  /\ seen' = NothingSeen
  /\ escaped' = {}

\* main-scheduler: every job class is constructed, which registers its cron
\* job; none of them is running yet.
Boot ==
  /\ phase = "down"
  /\ boots < MaxBoots
  /\ boots' = boots + 1
  /\ phase' = "find"
  /\ registry' = Job
  /\ UNCHANGED <<table, enabled, orphans, running, cron, escaped, edits, pc, seen>>

\* start(): the enabled rows are looked up.
StartFind ==
  /\ phase = "find"
  /\ phase' = "reset"
  /\ enabled' = {r \in rows : status[r]}
  /\ UNCHANGED <<table, memory, bounds, orphans, pc, seen>>

\* Variants of StartReset: `process` is not reset; a row without a job is not
\* told apart, and its timer is armed; such a row is left enabled.
StartResetKeepsMarks ==
  /\ phase = "reset"
  /\ phase' = "up"
  /\ running' = [j \in Job |-> j \in enabled \cap registry]
  /\ orphans' = enabled \ registry
  /\ enabled' = {}
  /\ UNCHANGED <<table, registry, cron, escaped, bounds, pc, seen>>

StartResetUnchecked ==
  /\ phase = "reset"
  /\ phase' = "up"
  /\ process' = [r \in Row |-> IF r \in rows THEN FALSE ELSE process[r]]
  /\ running' = [r \in Job \cup enabled |-> r \in enabled]
  /\ orphans' = {}
  /\ enabled' = {}
  /\ UNCHANGED <<rows, status, error, dbCron, registry, cron, escaped, bounds,
                 pc, seen>>

StartResetNoElse ==
  /\ phase = "reset"
  /\ phase' = "up"
  /\ process' = [r \in Row |-> IF r \in rows THEN FALSE ELSE process[r]]
  /\ running' = [j \in Job |-> j \in enabled \cap registry]
  /\ UNCHANGED <<rows, status, error, dbCron, registry, cron, escaped, bounds,
                 enabled, orphans, pc, seen>>

\* start(): `process` is reset in every row; then the loop over the rows that
\* were found, which arms the registered jobs and sends one update for every
\* row that has none.
StartReset ==
  /\ phase = "reset"
  /\ phase' = "up"
  /\ process' = [r \in Row |-> IF r \in rows THEN FALSE ELSE process[r]]
  /\ running' = [j \in Job |-> j \in enabled \cap registry]
  /\ orphans' = enabled \ registry
  /\ enabled' = {}
  /\ UNCHANGED <<rows, status, error, dbCron, registry, cron, escaped, bounds,
                 pc, seen>>

\* start(): the update of one row without a job.
DisableOrphan(r) ==
  /\ phase = "up"
  /\ r \in orphans
  /\ orphans' = orphans \ {r}
  /\ status' = [status EXCEPT ![r] = IF r \in rows THEN FALSE ELSE @]
  /\ UNCHANGED <<rows, process, error, dbCron, memory, bounds, phase, enabled,
                 pc, seen>>

\* A statement of start() fails.  Nobody awaits run(): the rejection ends the
\* process, or leaves it up with nothing started (or one row not disabled).
StartFails ==
  /\ DbFails
  /\ \/ phase \in {"find", "reset"}
     \/ phase = "up" /\ orphans # {}
  /\ IF Exits
     THEN Dies /\ UNCHANGED <<table, bounds>>
     ELSE /\ phase' = "up"
          /\ enabled' = {}
          /\ IF phase = "up" THEN \E r \in orphans : orphans' = orphans \ {r}
                             ELSE UNCHANGED orphans
          /\ UNCHANGED <<table, memory, bounds, pc, seen>>

Crash == phase # "down" /\ Dies /\ UNCHANGED <<table, bounds>>

-----------------------------------------------------------------------------
(***************************************************************************)
(* One tick: processWork.                                                  *)
(***************************************************************************)

Goto(j, s, l) == pc' = [pc EXCEPT ![j][s] = l]

\* The tick takes the step from l to m and looks at nothing but the table.
Step(j, s, l, m) ==
  /\ phase = "up"
  /\ pc[j][s] = l
  /\ Goto(j, s, m)
  /\ UNCHANGED <<rows, dbCron, memory, boot, bounds, seen>>

\* An update by id: it changes the row if there is one, and no other.
Put(column, j, value) == [column EXCEPT ![j] = IF j \in rows THEN value ELSE @]

\* The cron package calls processWork.  Prompt is the assumption that makes
\* the guard of checkState work: no tick of the job is between its lookup and
\* its mark.
Fire(j, s) ==
  /\ phase = "up"
  /\ running[j]
  /\ pc[j][s] = "idle"
  /\ Prompt => \A t \in Slot : pc[j][t] \notin Looking
  /\ Goto(j, s, "read")
  /\ UNCHANGED <<table, memory, boot, bounds, seen>>

\* getScheduler: the row as it is now ...
Read(j, s) ==
  /\ phase = "up"
  /\ pc[j][s] = "read"
  /\ Goto(j, s, "decide")
  /\ seen' = [seen EXCEPT ![j][s] =
                IF j \in rows
                THEN [found |-> TRUE, process |-> process[j], cron |-> dbCron[j]]
                ELSE NoRow]
  /\ UNCHANGED <<table, memory, boot, bounds>>

\* ... and checkState looks at it when the await resumes.
Decide(j, s) ==
  /\ phase = "up"
  /\ pc[j][s] = "decide"
  /\ seen' = [seen EXCEPT ![j][s] = NoRow]
  /\ UNCHANGED <<table, boot, bounds, escaped>>

\* Variant of Unregister: the timer is left armed.
UnregisterOnly(j) ==
  /\ j \in registry
  /\ registry' = registry \ {j}
  /\ UNCHANGED running

\* deleteCronJob stops the timer and drops the job.
Unregister(j) ==
  /\ j \in registry
  /\ registry' = registry \ {j}
  /\ running' = [running EXCEPT ![j] = FALSE]

\* "Not found scheduler"
DecideMissing(j, s) ==
  /\ Decide(j, s)
  /\ ~seen[j][s].found
  /\ Unregister(j)
  /\ Goto(j, s, "idle")
  /\ UNCHANGED cron

\* "already processing"
DecideBusy(j, s) ==
  /\ Decide(j, s)
  /\ seen[j][s].found /\ seen[j][s].process
  /\ Goto(j, s, "idle")
  /\ UNCHANGED <<registry, running, cron>>

\* Variant of DecideCron: the timer is set, `this.cron` is not.
DecideCronForgets(j, s) ==
  /\ Decide(j, s)
  /\ seen[j][s].found /\ ~seen[j][s].process
  /\ cron[j] # seen[j][s].cron
  /\ running' = [running EXCEPT ![j] = @ \/ seen[j][s].cron \in Cron]
  /\ Goto(j, s, "idle")
  /\ UNCHANGED <<registry, cron>>

\* A changed cron is taken over, which arms the timer; an unknown one is not.
DecideCron(j, s) ==
  /\ Decide(j, s)
  /\ seen[j][s].found /\ ~seen[j][s].process
  /\ cron[j] # seen[j][s].cron
  /\ IF seen[j][s].cron \in Cron
     THEN /\ cron' = [cron EXCEPT ![j] = seen[j][s].cron]
          /\ running' = [running EXCEPT ![j] = TRUE]
     ELSE UNCHANGED <<cron, running>>
  /\ Goto(j, s, "idle")
  /\ UNCHANGED registry

\* Variants of DecideWork: `process` is not looked at; the row is not marked.
DecideWorkUnguarded(j, s) ==
  /\ Decide(j, s)
  /\ seen[j][s].found
  /\ cron[j] = seen[j][s].cron
  /\ Goto(j, s, "mark")
  /\ UNCHANGED <<registry, running, cron>>

DecideWorkUnmarked(j, s) ==
  /\ Decide(j, s)
  /\ seen[j][s].found /\ ~seen[j][s].process
  /\ cron[j] = seen[j][s].cron
  /\ Goto(j, s, "work")
  /\ UNCHANGED <<registry, running, cron>>

\* checkState lets the tick go on to its work.
DecideWork(j, s) ==
  /\ Decide(j, s)
  /\ seen[j][s].found /\ ~seen[j][s].process
  /\ cron[j] = seen[j][s].cron
  /\ Goto(j, s, "mark")
  /\ UNCHANGED <<registry, running, cron>>

\* updateProcessing(true)
Mark(j, s) ==
  /\ Step(j, s, "mark", "work")
  /\ process' = Put(process, j, TRUE)
  /\ UNCHANGED <<status, error>>

\* `run` returns.
RunReturns(j, s) ==
  /\ Step(j, s, "work", "clear")
  /\ UNCHANGED <<status, process, error>>

\* `run` rejects with an Exception of level Normal.
RunNormal(j, s) ==
  /\ Step(j, s, "work", "normalStatus")
  /\ UNCHANGED <<status, process, error>>

\* `run` rejects with an Exception of level Fatal: the job is unregistered
\* before the handler awaits anything.
RunFatal(j, s) ==
  /\ phase = "up"
  /\ pc[j][s] = "work"
  /\ Unregister(j)
  /\ Goto(j, s, "fatalStatus")
  /\ UNCHANGED <<table, boot, bounds, cron, escaped, seen>>

\* updateProcessing(false), after `run` and at the end of the Normal handler.
Clear(j, s) ==
  /\ \/ Step(j, s, "clear", "idle")
     \/ Step(j, s, "normalClear", "idle")
  /\ process' = Put(process, j, FALSE)
  /\ UNCHANGED <<status, error>>

\* Variant of NormalStatus: updateProcessing(false) does not follow.
NormalStatusOnly(j, s) ==
  /\ Step(j, s, "normalStatus", "idle")
  /\ status' = Put(status, j, TRUE)
  /\ UNCHANGED <<process, error>>

\* Normal handler: updateStatus(true)
NormalStatus(j, s) ==
  /\ Step(j, s, "normalStatus", "normalClear")
  /\ status' = Put(status, j, TRUE)
  /\ UNCHANGED <<process, error>>

\* Variant of FatalStatus: updateError(true) does not follow.
FatalStatusOnly(j, s) ==
  /\ Step(j, s, "fatalStatus", "idle")
  /\ status' = Put(status, j, FALSE)
  /\ UNCHANGED <<process, error>>

\* Fatal handler: updateStatus(false)
FatalStatus(j, s) ==
  /\ Step(j, s, "fatalStatus", "fatalError")
  /\ status' = Put(status, j, FALSE)
  /\ UNCHANGED <<process, error>>

\* Variant of FatalError: the Fatal handler runs on into the Normal one.
FatalErrorFallsThrough(j, s) ==
  /\ Step(j, s, "fatalError", "normalStatus")
  /\ error' = Put(error, j, TRUE)
  /\ UNCHANGED <<status, process>>

\* Fatal handler: updateError(true)
FatalError(j, s) ==
  /\ Step(j, s, "fatalError", "idle")
  /\ error' = Put(error, j, TRUE)
  /\ UNCHANGED <<status, process>>

\* An error leaves processWork: the rejection is not handled.
Escape(j, s) ==
  /\ IF Exits
     THEN Dies
     ELSE /\ Goto(j, s, "idle")
          /\ seen' = [seen EXCEPT ![j][s] = NoRow]
          /\ escaped' = escaped \cup {j}
          /\ UNCHANGED <<registry, running, cron, boot>>
  /\ UNCHANGED <<table, bounds>>

\* It does when `run` rejects with something that is not an Exception
\* (errorHandler throws inside the catch), ...
RunRaw(j, s) == phase = "up" /\ pc[j][s] = "work" /\ Escape(j, s)

\* ... when the registry no longer holds the job that is to be deleted, ...
DeleteMissing(j, s) ==
  /\ phase = "up"
  /\ j \notin registry
  /\ \/ pc[j][s] = "work"
     \/ pc[j][s] = "decide" /\ ~seen[j][s].found
  /\ Escape(j, s)

\* ... and when a statement fails, inside the try or inside the catch.
StatementFails(j, s) ==
  /\ DbFails
  /\ phase = "up"
  /\ pc[j][s] \in PC \ {"idle", "decide", "work"}
  /\ Escape(j, s)

TickStep(j, s) ==
  \/ Read(j, s) \/ DecideMissing(j, s) \/ DecideBusy(j, s) \/ DecideCron(j, s)
  \/ DecideWork(j, s) \/ Mark(j, s) \/ RunReturns(j, s) \/ RunNormal(j, s)
  \/ RunFatal(j, s) \/ Clear(j, s) \/ NormalStatus(j, s) \/ FatalStatus(j, s)
  \/ FatalError(j, s) \/ DeleteMissing(j, s)

-----------------------------------------------------------------------------
(***************************************************************************)
(* The operators edit the table while the scheduler is up.                 *)
(***************************************************************************)

Edit ==
  /\ edits < MaxEdits
  /\ edits' = edits + 1
  /\ UNCHANGED <<process, error, memory, boot, boots, pc, seen>>

EditCron(r, c) ==
  /\ Edit
  /\ r \in rows /\ dbCron[r] # c
  /\ dbCron' = [dbCron EXCEPT ![r] = c]
  /\ UNCHANGED <<rows, status>>

EditStatus(r) ==
  /\ Edit
  /\ r \in rows
  /\ status' = [status EXCEPT ![r] = ~@]
  /\ UNCHANGED <<rows, dbCron>>

DeleteRow(r) ==
  /\ Edit
  /\ r \in rows
  /\ rows' = rows \ {r}
  /\ UNCHANGED <<status, dbCron>>

-----------------------------------------------------------------------------
Next ==
  \/ Boot \/ StartFind \/ StartReset \/ StartFails \/ Crash
  \/ \E r \in Row : DisableOrphan(r)
  \/ \E j \in Job, s \in Slot :
       \/ Fire(j, s) \/ TickStep(j, s) \/ RunRaw(j, s) \/ StatementFails(j, s)
  \/ \E r \in Row : EditStatus(r) \/ DeleteRow(r) \/ \E c \in CronName : EditCron(r, c)

Spec == Init /\ [][Next]_vars

\* The database answers, `run` comes to an end, the cron package fires and the
\* process start goes on.  Nobody is obliged to edit, to crash, to restart the
\* process, or to fail.
Fairness ==
  /\ WF_vars(StartFind) /\ WF_vars(StartReset)
  /\ \A r \in Row : WF_vars(DisableOrphan(r))
  /\ \A j \in Job, s \in Slot : WF_vars(Fire(j, s)) /\ WF_vars(TickStep(j, s))

FairSpec == Spec /\ Fairness

-----------------------------------------------------------------------------
(***************************************************************************)
(* Properties.                                                             *)
(***************************************************************************)

\* Every variable has a value of its type.
TypeOK ==
  /\ rows \subseteq Row
  /\ status \in [Row -> BOOLEAN]
  /\ process \in [Row -> BOOLEAN]
  /\ error \in [Row -> BOOLEAN]
  /\ dbCron \in [Row -> CronName]
  /\ phase \in {"down", "find", "reset", "up"}
  /\ enabled \subseteq Row
  /\ orphans \subseteq Row
  /\ registry \subseteq Job
  /\ running \in [Job -> BOOLEAN]
  /\ cron \in [Job -> Cron]
  /\ pc \in [Job -> [Slot -> PC]]
  /\ seen \in [Job -> [Slot -> Seen]]
  /\ escaped \subseteq Job
  /\ edits \in Nat
  /\ boots \in Nat

\* Two ticks of a job are never inside `run` together: the cursor a run reads
\* and moves has one user.  It is what "already processing" is for (checkState);
\* it holds when ticks are Prompt.
WorkExcludesWork ==
  \A j \in Job, s, t \in Slot :
    pc[j][s] = "work" /\ pc[j][t] = "work" => s = t

\* While a tick works its row says so, and no later tick can pass checkState.
\* The comment of updateProcessing promises it: `process` is true at work.
WorkingIsMarked ==
  \A j \in Job \cap rows, s \in Slot : pc[j][s] = "work" => process[j]

\* A job out of the registry is out for good: its timer is off and no tick of
\* it is at work (unless an operator took its row away under a running tick).
UnregisteredIsStopped ==
  phase = "up" =>
    \A j \in Job \ registry :
      ~running[j] /\ \A s \in Slot : pc[j][s] = "work" => j \notin rows

\* The mark of a job whose timer is armed has an owner that will clear it,
\* except after an error that processWork does not handle: no mark survives a
\* restart of the process or a Normal error.
ArmedMarkIsOwned ==
  phase = "up" =>
    \A j \in registry \cap rows :
      running[j] /\ process[j] => j \in escaped \/ \E s \in Slot : Owns(j, s)

\* Every job the Fatal handler has taken out is reported in the table when the
\* handler is through.
FatalIsRecorded ==
  phase = "up" =>
    \A j \in (Job \cap rows) \ (registry \cup escaped) :
      error[j] \/ \E s \in Slot : pc[j][s] \in Fatal

\* Only an operator enables a job again that a Fatal error has taken out; no
\* other tick's updateStatus(true) comes after updateStatus(false).
DisabledStaysDisabled ==
  [][\A j \in Job \ registry :
       phase = "up" /\ ~status[j] /\ status'[j] => edits' # edits]_vars

\* A job that works: armed, registered, with a row, a known cron, and no error
\* that left processWork.
Alive(j) ==
  /\ phase = "up" /\ running[j]
  /\ j \in (registry \cap rows) \ escaped
  /\ dbCron[j] \in Cron

\* A job that stays alive is at work again and again, whatever Normal errors
\* and changes of its cron come.
WorkRecurs ==
  \A j \in Job : []<>(Alive(j) => \E s \in Slot : pc[j][s] = "work")

\* A cron that operators have set is taken over in the end, also when ticks
\* that had read the old one come after.
CronIsFollowed ==
  \A j \in Job : <>[](Alive(j) => cron[j] = dbCron[j])

\* A row without a job class that start() found enabled is disabled in the end.
OrphanIsDisabled ==
  \A r \in Orphan :
    r \in enabled ~> phase = "down" \/ r \notin rows \/ ~status[r]

(***************************************************************************)
(* Why Prompt is enough: the inductive invariant behind WorkExcludesWork,  *)
(* WorkingIsMarked, UnregisteredIsStopped and DisabledStaysDisabled.       *)
(***************************************************************************)

\* The tick has passed checkState, or will when its await resumes and the cron
\* has not changed.
Passing(j, s) ==
  \/ pc[j][s] = "mark"
  \/ pc[j][s] = "decide" /\ seen[j][s].found /\ ~seen[j][s].process

\* Ticks are in flight, and jobs leave the registry, only in an "up" process.
StartIsQuiet ==
  /\ phase # "up" => \A j \in Job, s \in Slot : pc[j][s] = "idle"
  /\ phase \in {"find", "reset"} => registry = Job

OneLooks ==
  \A j \in Job, s, t \in Slot :
    pc[j][s] \in Looking /\ pc[j][t] \in Looking => s = t

\* No tick has passed checkState, or will, while another one owns the mark.
OwnerIsAlone ==
  \A j \in Job, s, t \in Slot :
    Owns(j, s) => ~Passing(j, t) /\ (Owns(j, t) => s = t)

OwnerIsMarked ==
  \A j \in Job \cap rows, s \in Slot : Owns(j, s) => process[j] /\ j \in registry

PassingIsRegistered ==
  \A j \in Job, s \in Slot :
    /\ Passing(j, s) => j \in registry
    /\ pc[j][s] = "decide" /\ ~seen[j][s].found => j \notin rows

UnregisteredIsMarked ==
  phase = "up" =>
    \A j \in Job \ registry : ~running[j] /\ (j \in rows => process[j])

\* The conjuncts together are inductive when ticks are Prompt.
PromptInv ==
  /\ StartIsQuiet
  /\ OneLooks
  /\ OwnerIsAlone
  /\ OwnerIsMarked
  /\ PassingIsRegistered
  /\ UnregisteredIsMarked

(***************************************************************************)
(* The inductive invariant behind ArmedMarkIsOwned and FatalIsRecorded,    *)
(* whether ticks are Prompt or not.                                        *)
(***************************************************************************)

\* No timer is armed before start() arms it; a tick in flight of a registered
\* job is one of an armed timer; a lookup finds no row only where there is none.
TicksAreArmed ==
  /\ phase # "up" => \A j \in Job : ~running[j]
  /\ \A j \in Job, s \in Slot : j \in registry /\ pc[j][s] # "idle" => running[j]
  /\ \A j \in Job, s \in Slot :
       pc[j][s] = "decide" /\ ~seen[j][s].found => j \notin rows

\* The conjuncts together are inductive.
RecordInv ==
  /\ StartIsQuiet
  /\ TicksAreArmed
  /\ ArmedMarkIsOwned
  /\ FatalIsRecorded
=============================================================================
