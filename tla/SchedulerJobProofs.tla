------------------------- MODULE SchedulerJobProofs -------------------------
(***************************************************************************)
(* Theorems about SchedulerJob, for any set of jobs and any number of      *)
(* ticks in flight.                                                        *)
(***************************************************************************)
EXTENDS SchedulerJob, TLAPS

-----------------------------------------------------------------------------
(***************************************************************************)
(* Type correctness.                                                       *)
(***************************************************************************)

\* No tick is in flight before one is fired, and none is handed a row.
LEMMA NoTicksType == NoTicks \in [Job -> [Slot -> PC]] /\ NothingSeen \in [Job -> [Slot -> Seen]]
  BY DEF NoTicks, NothingSeen, PC, Seen, NoRow, CronName

\* The end of the process leaves every variable in its type.
LEMMA DiesType == ASSUME TypeOK, Dies PROVE
    /\ phase' = "down" /\ enabled' = {} /\ orphans' = {} /\ registry' = {} /\ escaped' = {}
    /\ running' \in [Job -> BOOLEAN] /\ cron' \in [Job -> Cron]
    /\ pc' \in [Job -> [Slot -> PC]] /\ seen' \in [Job -> [Slot -> Seen]]
  BY ConstantsAssumption, NoTicksType DEF Dies, TypeOK

\* A tick moves to an await: pc keeps its type.
LEMMA GotoType ==
  ASSUME TypeOK, NEW j \in Job, NEW s \in Slot, NEW l \in PC, Goto(j, s, l)
  PROVE  pc' \in [Job -> [Slot -> PC]]
  BY DEF Goto, TypeOK

\* The row a tick is handed, or drops, is a row.
LEMMA SeenType ==
  ASSUME TypeOK, NEW j \in Job, NEW s \in Slot, NEW r \in Seen,
         seen' = [seen EXCEPT ![j][s] = r]
  PROVE  seen' \in [Job -> [Slot -> Seen]]
  BY DEF TypeOK

\* Every variable keeps its type: TypeOK is an invariant of the specification.
THEOREM TypeCorrect == Spec => []TypeOK
<1>1. Init => TypeOK
  BY ConstantsAssumption, NoTicksType DEF Init, TypeOK, Row
<1>2. ASSUME TypeOK, [Next]_vars PROVE TypeOK'
  <2> USE <1>2
  <2>0. NoRow \in Seen
    BY DEF NoRow, Seen, CronName
  <2>1. CASE Boot
    BY <2>1 DEF Boot, TypeOK, table
  <2>2. CASE StartFind
    BY <2>2 DEF StartFind, TypeOK, table, memory, bounds
  <2>3. CASE StartReset
    <3>1. process' \in [Row -> BOOLEAN]
      <4>1. ASSUME NEW r \in Row PROVE (IF r \in rows THEN FALSE ELSE process[r]) \in BOOLEAN
        BY DEF TypeOK
      <4>2. QED
        BY <2>3, <4>1, Zenon DEF StartReset
    <3>2. running' \in [Job -> BOOLEAN]
      <4>1. ASSUME NEW j \in Job PROVE (j \in enabled \cap registry) \in BOOLEAN
        OBVIOUS
      <4>2. QED
        BY <2>3, <4>1, Zenon DEF StartReset
    <3>3. QED
      BY <2>3, <3>1, <3>2 DEF StartReset, TypeOK, bounds
  <2>4. CASE StartFails
    BY <2>4, DiesType DEF StartFails, TypeOK, table, memory, bounds
  <2>5. CASE Crash
    BY <2>5, DiesType DEF Crash, TypeOK, table, bounds
  <2>6. ASSUME NEW r \in Row, DisableOrphan(r) PROVE TypeOK'
    BY <2>6 DEF DisableOrphan, TypeOK, memory, bounds
  <2>7. ASSUME NEW j \in Job, NEW s \in Slot, Fire(j, s) PROVE TypeOK'
    <3>1. pc' \in [Job -> [Slot -> PC]]
      BY <2>7, GotoType DEF Fire, PC
    <3>2. QED
      BY <2>7, <3>1 DEF Fire, TypeOK, table, memory, boot, bounds
  <2>8. ASSUME NEW j \in Job, NEW s \in Slot, Read(j, s) PROVE TypeOK'
    <3>1. pc' \in [Job -> [Slot -> PC]]
      BY <2>8, GotoType DEF Read, PC
    <3>2. seen' \in [Job -> [Slot -> Seen]]
      <4>1. (IF j \in rows
             THEN [found |-> TRUE, process |-> process[j], cron |-> dbCron[j]]
             ELSE NoRow) \in Seen
        BY <2>0 DEF TypeOK, Seen, Row
      <4>2. QED
        BY <2>8, <4>1, SeenType DEF Read
    <3>3. QED
      BY <2>8, <3>1, <3>2 DEF Read, TypeOK, table, memory, boot, bounds
  <2>9. ASSUME NEW j \in Job, NEW s \in Slot,
               \/ DecideMissing(j, s) \/ DecideBusy(j, s)
               \/ DecideCron(j, s) \/ DecideWork(j, s)
        PROVE TypeOK'
    <3>1. Decide(j, s)
      BY <2>9 DEF DecideMissing, DecideBusy, DecideCron, DecideWork
    <3>2. seen' \in [Job -> [Slot -> Seen]]
      BY <2>0, <3>1, SeenType DEF Decide
    <3>3. Goto(j, s, "idle") \/ Goto(j, s, "mark")
      BY <2>9 DEF DecideMissing, DecideBusy, DecideCron, DecideWork
    <3>4. pc' \in [Job -> [Slot -> PC]]
      BY <3>3, GotoType DEF PC
    <3>5. registry' \subseteq Job /\ running' \in [Job -> BOOLEAN] /\ cron' \in [Job -> Cron]
      BY <2>9 DEF DecideMissing, DecideBusy, DecideCron, DecideWork, Unregister, TypeOK
    <3>6. QED
      BY <3>1, <3>2, <3>4, <3>5 DEF Decide, TypeOK, table, boot, bounds
  <2>10. ASSUME NEW j \in Job, NEW s \in Slot, NEW l \in PC, NEW m \in PC, Step(j, s, l, m),
                status' \in [Row -> BOOLEAN], process' \in [Row -> BOOLEAN],
                error' \in [Row -> BOOLEAN]
         PROVE TypeOK'
    <3>1. pc' \in [Job -> [Slot -> PC]]
      BY <2>10, GotoType DEF Step
    <3>2. QED
      BY <2>10, <3>1 DEF Step, TypeOK, memory, boot, bounds
  <2>11. ASSUME NEW column \in [Row -> BOOLEAN], NEW j \in Job, NEW b \in BOOLEAN
         PROVE Put(column, j, b) \in [Row -> BOOLEAN]
    BY DEF Put
  <2>12. ASSUME NEW j \in Job, NEW s \in Slot,
                \/ Mark(j, s) \/ RunReturns(j, s) \/ RunNormal(j, s) \/ Clear(j, s)
                \/ NormalStatus(j, s) \/ FatalStatus(j, s) \/ FatalError(j, s)
         PROVE TypeOK'
    <3> USE DEF PC
    <3>1. CASE Mark(j, s)
      BY <2>10, <2>11, <3>1 DEF Mark, TypeOK
    <3>2. CASE RunReturns(j, s) \/ RunNormal(j, s)
      BY <2>10, <3>2 DEF RunReturns, RunNormal, TypeOK
    <3>3. CASE Clear(j, s)
      BY <2>10, <2>11, <3>3 DEF Clear, TypeOK
    <3>4. CASE NormalStatus(j, s)
      BY <2>10, <2>11, <3>4 DEF NormalStatus, TypeOK
    <3>5. CASE FatalStatus(j, s)
      BY <2>10, <2>11, <3>5 DEF FatalStatus, TypeOK
    <3>6. CASE FatalError(j, s)
      BY <2>10, <2>11, <3>6 DEF FatalError, TypeOK
    <3>7. QED
      BY <2>12, <3>1, <3>2, <3>3, <3>4, <3>5, <3>6
  <2>13. ASSUME NEW j \in Job, NEW s \in Slot, RunFatal(j, s) PROVE TypeOK'
    <3>1. pc' \in [Job -> [Slot -> PC]]
      BY <2>13, GotoType DEF RunFatal, PC
    <3>2. QED
      BY <2>13, <3>1 DEF RunFatal, Unregister, TypeOK, table, boot, bounds
  <2>14. ASSUME NEW j \in Job, NEW s \in Slot,
                RunRaw(j, s) \/ DeleteMissing(j, s) \/ StatementFails(j, s)
         PROVE TypeOK'
    <3>1. Escape(j, s)
      BY <2>14 DEF RunRaw, DeleteMissing, StatementFails
    <3>2. CASE Exits
      BY <3>1, <3>2, DiesType DEF Escape, TypeOK, table, bounds
    <3>3. CASE ~Exits
      <4>1. pc' \in [Job -> [Slot -> PC]]
        BY <3>1, <3>3, GotoType DEF Escape, PC
      <4>2. seen' \in [Job -> [Slot -> Seen]]
        BY <2>0, <3>1, <3>3, SeenType DEF Escape
      <4>3. QED
        BY <3>1, <3>3, <4>1, <4>2 DEF Escape, TypeOK, table, boot, bounds
    <3>4. QED
      BY <3>2, <3>3
  <2>15. ASSUME NEW r \in Row, EditStatus(r) \/ DeleteRow(r) PROVE TypeOK'
    <3>1. status' \in [Row -> BOOLEAN]
      <4>1. [status EXCEPT ![r] = ~@] \in [Row -> BOOLEAN]
        BY Zenon DEF TypeOK
      <4>2. QED
        BY <2>15, <4>1, Zenon DEF EditStatus, DeleteRow, TypeOK
    <3>2. QED
      BY <2>15, <3>1 DEF EditStatus, DeleteRow, Edit, TypeOK, memory, boot
  <2>16. ASSUME NEW r \in Row, NEW c \in CronName, EditCron(r, c) PROVE TypeOK'
    BY <2>16 DEF EditCron, Edit, TypeOK, memory, boot
  <2>17. CASE UNCHANGED vars
    BY <2>17 DEF vars, table, memory, boot, bounds, TypeOK
  <2>18. QED
    BY <2>1, <2>2, <2>3, <2>4, <2>5, <2>6, <2>7, <2>8, <2>9, <2>12, <2>13, <2>14,
       <2>15, <2>16, <2>17 DEF Next, TickStep
<1>3. QED
  BY <1>1, <1>2, PTL DEF Spec

-----------------------------------------------------------------------------
(***************************************************************************)
(* With Prompt ticks the guard of checkState is a lock on the job.         *)
(***************************************************************************)

\* A tick that moves leaves the other ticks where they are.
LEMMA GotoMoves ==
  ASSUME TypeOK, NEW j \in Job, NEW s \in Slot, NEW l, Goto(j, s, l)
  PROVE  /\ pc'[j][s] = l
         /\ \A k \in Job, t \in Slot : k # j \/ t # s => pc'[k][t] = pc[k][t]
  BY DEF Goto, TypeOK

\* A tick that is handed a row leaves the rows of the other ticks.
LEMMA SeenMoves ==
  ASSUME TypeOK, NEW j \in Job, NEW s \in Slot, NEW r, seen' = [seen EXCEPT ![j][s] = r]
  PROVE  /\ seen'[j][s] = r
         /\ \A k \in Job, t \in Slot : k # j \/ t # s => seen'[k][t] = seen[k][t]
  BY DEF TypeOK

\* A process that has ended satisfies the invariant.
LEMMA DiesQuiet == ASSUME Dies PROVE PromptInv'
  BY DEF Dies, PromptInv, StartIsQuiet, OneLooks, OwnerIsAlone, OwnerIsMarked,
         PassingIsRegistered, UnregisteredIsMarked, NoTicks, Owns, Owning, Looking, Passing

\* A tick that moves between two awaits of its work, or leaves it for good,
\* and changes neither the registry nor a timer nor a mark, keeps the invariant.
LEMMA MovePreserves ==
  ASSUME TypeOK, PromptInv, phase = "up", phase' = "up",
         NEW j \in Job, NEW s \in Slot, NEW l \in PC \ (Looking \cup Owning), Goto(j, s, l),
         \A k \in Job, t \in Slot : k # j \/ t # s => seen'[k][t] = seen[k][t],
         UNCHANGED <<rows, process, registry, running>>
  PROVE  PromptInv'
<1>1. /\ pc'[j][s] = l
      /\ \A k \in Job, t \in Slot : k # j \/ t # s => pc'[k][t] = pc[k][t]
  BY GotoMoves
<1>2. QED
  BY <1>1 DEF PromptInv, StartIsQuiet, OneLooks, OwnerIsAlone, OwnerIsMarked,
       PassingIsRegistered, UnregisteredIsMarked, Owns, Owning, Looking, Passing

\* The parts of PromptInv are kept by every step, if ticks are Prompt.
LEMMA PromptStep ==
  ASSUME Prompt, TypeOK, PromptInv, [Next]_vars
  PROVE  PromptInv'
<1> USE DEF PromptInv
<1>1. CASE Boot
  BY <1>1 DEF Boot, table, StartIsQuiet, OneLooks, OwnerIsAlone, OwnerIsMarked,
       PassingIsRegistered, UnregisteredIsMarked, Owns, Owning, Looking, Passing
<1>2. CASE StartFind
  BY <1>2 DEF StartFind, table, memory, StartIsQuiet, OneLooks, OwnerIsAlone, OwnerIsMarked,
       PassingIsRegistered, UnregisteredIsMarked, Owns, Owning, Looking, Passing
<1>3. CASE StartReset
  BY <1>3 DEF StartReset, StartIsQuiet, OneLooks, OwnerIsAlone, OwnerIsMarked,
       PassingIsRegistered, UnregisteredIsMarked, Owns, Owning, Looking, Passing
<1>4. CASE StartFails
  <2>1. CASE Exits
    BY <1>4, <2>1, DiesQuiet DEF StartFails
  <2>2. CASE ~Exits
    <3>1. /\ phase' = "up" /\ UNCHANGED <<rows, process, registry, running, pc, seen>>
          /\ phase \in {"find", "reset", "up"}
      BY <1>4, <2>2 DEF StartFails, table, memory
    <3>2. QED
      BY <3>1 DEF StartIsQuiet, OneLooks, OwnerIsAlone, OwnerIsMarked,
           PassingIsRegistered, UnregisteredIsMarked, Owns, Owning, Looking, Passing
  <2>3. QED
    BY <2>1, <2>2
<1>5. CASE Crash
  BY <1>5, DiesQuiet DEF Crash
<1>6. ASSUME NEW r \in Row, DisableOrphan(r) PROVE PromptInv'
  BY <1>6 DEF DisableOrphan, memory, StartIsQuiet, OneLooks, OwnerIsAlone, OwnerIsMarked,
       PassingIsRegistered, UnregisteredIsMarked, Owns, Owning, Looking, Passing
<1>7. ASSUME NEW j \in Job, NEW s \in Slot, Fire(j, s) PROVE PromptInv'
  <2>1. /\ pc'[j][s] = "read"
        /\ \A k \in Job, t \in Slot : k # j \/ t # s => pc'[k][t] = pc[k][t]
    BY <1>7, GotoMoves DEF Fire
  <2>2. \A t \in Slot : pc[j][t] \notin Looking
    BY <1>7 DEF Fire
  <2>3. QED
    BY <1>7, <2>1, <2>2 DEF Fire, table, memory, boot, StartIsQuiet, OneLooks, OwnerIsAlone,
         OwnerIsMarked, PassingIsRegistered, UnregisteredIsMarked, Owns, Owning, Looking, Passing
<1>8. ASSUME NEW j \in Job, NEW s \in Slot, Read(j, s) PROVE PromptInv'
  <2>1. /\ pc'[j][s] = "decide"
        /\ \A k \in Job, t \in Slot : k # j \/ t # s => pc'[k][t] = pc[k][t]
    BY <1>8, GotoMoves DEF Read
  <2>2. /\ seen'[j][s] = IF j \in rows
                         THEN [found |-> TRUE, process |-> process[j], cron |-> dbCron[j]]
                         ELSE NoRow
        /\ \A k \in Job, t \in Slot : k # j \/ t # s => seen'[k][t] = seen[k][t]
    <3> DEFINE r == IF j \in rows
                   THEN [found |-> TRUE, process |-> process[j], cron |-> dbCron[j]]
                   ELSE NoRow
    <3>1. seen' = [seen EXCEPT ![j][s] = r]
      BY <1>8 DEF Read
    <3> HIDE DEF r
    <3>2. seen'[j][s] = r /\ \A k \in Job, t \in Slot : k # j \/ t # s => seen'[k][t] = seen[k][t]
      BY <3>1 DEF TypeOK
    <3>3. QED
      BY <3>2 DEF r
  <2>3. phase = "up" /\ pc[j][s] = "read" /\ UNCHANGED <<rows, process, registry, running, phase>>
    BY <1>8 DEF Read, table, memory, boot
  <2>4. /\ seen'[j][s].found => j \in rows /\ seen'[j][s].process = process[j]
        /\ ~seen'[j][s].found => j \notin rows
    BY <2>2 DEF NoRow
  <2>5. StartIsQuiet' /\ OneLooks' /\ OwnerIsMarked' /\ UnregisteredIsMarked'
    BY <2>1, <2>3 DEF StartIsQuiet, OneLooks, OwnerIsMarked, UnregisteredIsMarked, Owns,
         Owning, Looking
  <2>6. OwnerIsAlone'
    BY <2>1, <2>2, <2>3, <2>4 DEF OwnerIsAlone, OwnerIsMarked, Owns, Owning, Passing
  <2>7. PassingIsRegistered'
    BY <2>1, <2>2, <2>3, <2>4 DEF PassingIsRegistered, UnregisteredIsMarked, Passing
  <2>8. QED
    BY <2>5, <2>6, <2>7
<1>9. ASSUME NEW j \in Job, NEW s \in Slot,
             \/ DecideMissing(j, s) \/ DecideBusy(j, s)
             \/ DecideCron(j, s) \/ DecideWork(j, s)
      PROVE PromptInv'
  <2>1. /\ phase = "up" /\ pc[j][s] = "decide"
        /\ UNCHANGED <<rows, process, phase>>
        /\ \A k \in Job, t \in Slot : k # j \/ t # s => seen'[k][t] = seen[k][t]
    BY <1>9, SeenMoves DEF DecideMissing, DecideBusy, DecideCron, DecideWork, Decide, table, boot
  <2>2. CASE DecideMissing(j, s)
    <3>1. /\ pc'[j][s] = "idle"
          /\ \A k \in Job, t \in Slot : k # j \/ t # s => pc'[k][t] = pc[k][t]
      BY <2>2, GotoMoves DEF DecideMissing
    <3>2. \A t \in Slot : ~Passing(j, t)
      BY <2>1, <2>2 DEF DecideMissing, OneLooks, Looking, Passing
    <3>3. j \notin rows
      BY <2>1, <2>2 DEF DecideMissing, PassingIsRegistered
    <3>4. registry' = registry \ {j} /\ running' = [running EXCEPT ![j] = FALSE]
      BY <2>2 DEF DecideMissing, Unregister
    <3>5. StartIsQuiet'
      BY <2>1, <3>1, <3>2, <3>3, <3>4 DEF StartIsQuiet
    <3>6. OneLooks'
      BY <2>1, <3>1, <3>2, <3>3, <3>4 DEF OneLooks, Looking
    <3>7. OwnerIsAlone'
      BY <2>1, <3>1, <3>2, <3>3, <3>4 DEF OwnerIsAlone, Owns, Owning, Passing
    <3>8. OwnerIsMarked'
      BY <2>1, <3>1, <3>2, <3>3, <3>4 DEF OwnerIsMarked, Owns, Owning
    <3>9. PassingIsRegistered'
      BY <2>1, <3>1, <3>2, <3>3, <3>4 DEF PassingIsRegistered, Passing
    <3>10. UnregisteredIsMarked'
      BY <2>1, <3>1, <3>2, <3>3, <3>4 DEF TypeOK, UnregisteredIsMarked
    <3>11. QED
      BY <3>5, <3>6, <3>7, <3>8, <3>9, <3>10
  <2>3. CASE DecideBusy(j, s)
    BY <2>1, <2>3, MovePreserves DEF DecideBusy, PC, Looking, Owning
  <2>4. CASE DecideCron(j, s)
    <3>1. /\ pc'[j][s] = "idle"
          /\ \A k \in Job, t \in Slot : k # j \/ t # s => pc'[k][t] = pc[k][t]
      BY <2>4, GotoMoves DEF DecideCron
    <3>2. j \in registry
      BY <2>1, <2>4 DEF DecideCron, PassingIsRegistered, Passing
    <3>3. /\ registry' = registry
          /\ running' = [running EXCEPT ![j] = TRUE] \/ running' = running
      BY <2>4 DEF DecideCron
    <3>4. StartIsQuiet'
      BY <2>1, <3>1, <3>2, <3>3 DEF StartIsQuiet
    <3>5. OneLooks'
      BY <2>1, <3>1, <3>2, <3>3 DEF OneLooks, Looking
    <3>6. OwnerIsAlone'
      BY <2>1, <3>1, <3>2, <3>3 DEF OwnerIsAlone, Owns, Owning, Passing
    <3>7. OwnerIsMarked'
      BY <2>1, <3>1, <3>2, <3>3 DEF OwnerIsMarked, Owns, Owning
    <3>8. PassingIsRegistered'
      BY <2>1, <3>1, <3>2, <3>3 DEF PassingIsRegistered, Passing
    <3>9. UnregisteredIsMarked'
      BY <2>1, <3>1, <3>2, <3>3 DEF TypeOK, UnregisteredIsMarked
    <3>10. QED
      BY <3>4, <3>5, <3>6, <3>7, <3>8, <3>9
  <2>5. CASE DecideWork(j, s)
    <3>1. /\ pc'[j][s] = "mark"
          /\ \A k \in Job, t \in Slot : k # j \/ t # s => pc'[k][t] = pc[k][t]
      BY <2>5, GotoMoves DEF DecideWork
    <3>2. Passing(j, s) /\ UNCHANGED <<registry, running>>
      BY <2>1, <2>5 DEF DecideWork, Passing
    <3>3. QED
      BY <2>1, <3>1, <3>2 DEF StartIsQuiet, OneLooks, OwnerIsAlone,
           OwnerIsMarked, PassingIsRegistered, UnregisteredIsMarked, Owns, Owning, Looking, Passing
  <2>6. QED
    BY <1>9, <2>2, <2>3, <2>4, <2>5
<1>10. ASSUME NEW j \in Job, NEW s \in Slot, Mark(j, s) PROVE PromptInv'
  <2>1. /\ phase = "up" /\ pc[j][s] = "mark" /\ pc'[j][s] = "work"
        /\ \A k \in Job, t \in Slot : k # j \/ t # s => pc'[k][t] = pc[k][t]
        /\ UNCHANGED <<rows, registry, running, phase, seen>>
    BY <1>10, GotoMoves DEF Mark, Step, memory, boot
  <2>2. /\ j \in rows => process'[j] = TRUE
        /\ \A k \in Row : k # j => process'[k] = process[k]
    BY <1>10 DEF Mark, Put, TypeOK, Row
  <2>3. Passing(j, s) /\ j \in registry /\ Job \subseteq Row
    BY <2>1 DEF Passing, PassingIsRegistered, Row
  <2>4. StartIsQuiet'
    BY <2>1, <2>2, <2>3 DEF StartIsQuiet
  <2>5. OneLooks'
    BY <2>1, <2>2, <2>3 DEF OneLooks, Looking
  <2>6. OwnerIsAlone'
    BY <2>1, <2>2, <2>3 DEF OwnerIsAlone, Owns, Owning, Passing, OneLooks, Looking
  <2>7. OwnerIsMarked'
    BY <2>1, <2>2, <2>3 DEF OwnerIsMarked, Owns, Owning
  <2>8. PassingIsRegistered'
    BY <2>1, <2>2, <2>3 DEF PassingIsRegistered, Passing
  <2>9. UnregisteredIsMarked'
    BY <2>1, <2>2, <2>3 DEF TypeOK, UnregisteredIsMarked
  <2>10. QED
    BY <2>4, <2>5, <2>6, <2>7, <2>8, <2>9
<1>11. ASSUME NEW j \in Job, NEW s \in Slot,
              RunReturns(j, s) \/ RunNormal(j, s) \/ NormalStatus(j, s)
       PROVE PromptInv'
  <2>1. PICK l \in Owning : Goto(j, s, l)
    BY <1>11 DEF RunReturns, RunNormal, NormalStatus, Step, Owning
  <2>2. /\ pc'[j][s] = l
        /\ \A k \in Job, t \in Slot : k # j \/ t # s => pc'[k][t] = pc[k][t]
    BY <2>1, GotoMoves
  <2>3. /\ phase = "up" /\ Owns(j, s)
        /\ UNCHANGED <<rows, process, registry, running, phase, seen>>
    BY <1>11 DEF RunReturns, RunNormal, NormalStatus, Step, Owning, Owns, memory, boot
  <2>4. QED
    BY <2>1, <2>2, <2>3 DEF StartIsQuiet, OneLooks, OwnerIsAlone, OwnerIsMarked,
         PassingIsRegistered, UnregisteredIsMarked, Owns, Owning, Looking, Passing
<1>12. ASSUME NEW j \in Job, NEW s \in Slot, Clear(j, s) PROVE PromptInv'
  <2>1. /\ phase = "up" /\ Owns(j, s) /\ pc'[j][s] = "idle"
        /\ \A k \in Job, t \in Slot : k # j \/ t # s => pc'[k][t] = pc[k][t]
        /\ UNCHANGED <<rows, registry, running, phase, seen>>
    BY <1>12, GotoMoves DEF Clear, Step, memory, boot, Owns, Owning
  <2>2. \A k \in Row : k # j => process'[k] = process[k]
    BY <1>12 DEF Clear, Put, TypeOK
  <2>3. Job \subseteq Row /\ (j \in rows => j \in registry)
    BY <2>1 DEF Row, OwnerIsMarked
  <2>4. StartIsQuiet'
    BY <2>1, <2>2, <2>3 DEF StartIsQuiet
  <2>5. OneLooks'
    BY <2>1, <2>2, <2>3 DEF OneLooks, Looking
  <2>6. OwnerIsAlone'
    BY <2>1, <2>2, <2>3 DEF OwnerIsAlone, Owns, Owning, Passing
  <2>7. OwnerIsMarked'
    BY <2>1, <2>2, <2>3 DEF OwnerIsMarked, Owns, Owning, OwnerIsAlone
  <2>8. PassingIsRegistered'
    BY <2>1, <2>2, <2>3 DEF PassingIsRegistered, Passing
  <2>9. UnregisteredIsMarked'
    BY <2>1, <2>2, <2>3 DEF TypeOK, UnregisteredIsMarked
  <2>10. QED
    BY <2>4, <2>5, <2>6, <2>7, <2>8, <2>9
<1>13. ASSUME NEW j \in Job, NEW s \in Slot, RunFatal(j, s) PROVE PromptInv'
  <2>1. /\ phase = "up" /\ Owns(j, s) /\ pc'[j][s] = "fatalStatus"
        /\ \A k \in Job, t \in Slot : k # j \/ t # s => pc'[k][t] = pc[k][t]
        /\ UNCHANGED <<rows, process, phase, seen>>
        /\ registry' = registry \ {j} /\ running' = [running EXCEPT ![j] = FALSE]
    BY <1>13, GotoMoves DEF RunFatal, Unregister, table, boot, Owns, Owning
  <2>2. \A t \in Slot : ~Passing(j, t) /\ (Owns(j, t) => s = t)
    BY <2>1 DEF OwnerIsAlone
  <2>3. StartIsQuiet'
    BY <2>1, <2>2 DEF StartIsQuiet
  <2>4. OneLooks'
    BY <2>1, <2>2 DEF OneLooks, Looking
  <2>5. OwnerIsAlone'
    BY <2>1, <2>2 DEF OwnerIsAlone, Owns, Owning, Passing
  <2>6. OwnerIsMarked'
    BY <2>1, <2>2 DEF OwnerIsMarked, Owns, Owning
  <2>7. PassingIsRegistered'
    BY <2>1, <2>2 DEF PassingIsRegistered, Passing
  <2>8. UnregisteredIsMarked'
    BY <2>1, <2>2 DEF TypeOK, UnregisteredIsMarked, OwnerIsMarked
  <2>9. QED
    BY <2>3, <2>4, <2>5, <2>6, <2>7, <2>8
<1>14. ASSUME NEW j \in Job, NEW s \in Slot, FatalStatus(j, s) \/ FatalError(j, s)
       PROVE PromptInv'
  <2>1. phase = "up" /\ UNCHANGED <<rows, process, registry, running, phase, seen>>
    BY <1>14 DEF FatalStatus, FatalError, Step, memory, boot
  <2>2. PICK l \in PC \ (Looking \cup Owning) : Goto(j, s, l)
    BY <1>14 DEF FatalStatus, FatalError, Step, PC, Looking, Owning
  <2>3. QED
    BY <2>1, <2>2, MovePreserves
<1>15. ASSUME NEW j \in Job, NEW s \in Slot,
              RunRaw(j, s) \/ DeleteMissing(j, s) \/ StatementFails(j, s)
       PROVE PromptInv'
  <2>1. Escape(j, s) /\ phase = "up"
    BY <1>15 DEF RunRaw, DeleteMissing, StatementFails
  <2>2. CASE Exits
    BY <2>1, <2>2, DiesQuiet DEF Escape
  <2>3. CASE ~Exits
    <3>1. /\ Goto(j, s, "idle")
          /\ UNCHANGED <<rows, process, registry, running, phase>>
          /\ \A k \in Job, t \in Slot : k # j \/ t # s => seen'[k][t] = seen[k][t]
      BY <2>1, <2>3, SeenMoves DEF Escape, table, boot
    <3>2. QED
      BY <2>1, <3>1, MovePreserves DEF PC, Looking, Owning
  <2>4. QED
    BY <2>2, <2>3
<1>16. ASSUME NEW r \in Row,
              EditStatus(r) \/ DeleteRow(r) \/ \E c \in CronName : EditCron(r, c)
       PROVE PromptInv'
  <2>1. /\ UNCHANGED <<process, registry, running, phase, pc, seen>>
        /\ rows' \subseteq rows
    BY <1>16 DEF EditStatus, DeleteRow, EditCron, Edit, memory, boot
  <2>2. QED
    BY <2>1 DEF StartIsQuiet, OneLooks, OwnerIsAlone, OwnerIsMarked,
         PassingIsRegistered, UnregisteredIsMarked, Owns, Owning, Looking, Passing
<1>17. CASE UNCHANGED vars
  BY <1>17 DEF vars, table, memory, boot, StartIsQuiet, OneLooks, OwnerIsAlone, OwnerIsMarked,
       PassingIsRegistered, UnregisteredIsMarked, Owns, Owning, Looking, Passing
<1>18. QED
  BY <1>1, <1>2, <1>3, <1>4, <1>5, <1>6, <1>7, <1>8, <1>9, <1>10, <1>11, <1>12, <1>13,
     <1>14, <1>15, <1>16, <1>17 DEF Next, TickStep

\* The invariant holds of every behaviour with Prompt ticks.
THEOREM PromptSafety == ASSUME Prompt PROVE Spec => []PromptInv
<1>1. Init => PromptInv
  BY DEF Init, PromptInv, StartIsQuiet, OneLooks, OwnerIsAlone, OwnerIsMarked,
       PassingIsRegistered, UnregisteredIsMarked, NoTicks, Owns, Owning, Looking, Passing
<1>2. TypeOK /\ PromptInv /\ [Next]_vars => PromptInv'
  BY PromptStep
<1>3. QED
  BY <1>1, <1>2, TypeCorrect, PTL DEF Spec

\* No two ticks of a job are in `run` together, if ticks are Prompt.
THEOREM MutualExclusion == ASSUME Prompt PROVE Spec => []WorkExcludesWork
<1>1. PromptInv => WorkExcludesWork
  BY DEF PromptInv, OwnerIsAlone, Owns, Owning, WorkExcludesWork
<1>2. QED
  BY <1>1, PromptSafety, PTL

\* A tick at work has its row marked, if ticks are Prompt.
THEOREM WorkIsMarked == ASSUME Prompt PROVE Spec => []WorkingIsMarked
<1>1. PromptInv => WorkingIsMarked
  BY DEF PromptInv, OwnerIsMarked, Owns, Owning, WorkingIsMarked
<1>2. QED
  BY <1>1, PromptSafety, PTL

\* A job out of the registry has no timer and no tick at work, if ticks are
\* Prompt: neither a tick that read the row before a Fatal error nor a change
\* of cron brings it back.
THEOREM UnregisteredStops == ASSUME Prompt PROVE Spec => []UnregisteredIsStopped
<1>1. PromptInv => UnregisteredIsStopped
  BY DEF PromptInv, OwnerIsMarked, UnregisteredIsMarked, Owns, Owning, UnregisteredIsStopped
<1>2. QED
  BY <1>1, PromptSafety, PTL

\* Nothing but an operator's edit enables a job that is out of the registry.
THEOREM DisabledStays == ASSUME Prompt PROVE Spec => DisabledStaysDisabled
<1> DEFINE Sticks == \A j \in Job \ registry :
                       phase = "up" /\ ~status[j] /\ status'[j] => edits' # edits
<1>1. ASSUME TypeOK, PromptInv, [Next]_vars PROVE [Sticks]_vars
  <2> USE <1>1
  <2> SUFFICES ASSUME NEW k \in Job \ registry, phase = "up", ~status[k], status'[k],
                      edits' = edits
               PROVE FALSE
    OBVIOUS
  <2>1. ~(status' = status)
    OBVIOUS
  <2>2. ~UNCHANGED vars
    BY <2>1 DEF vars, table
  <2>3. ASSUME NEW r \in Row, DisableOrphan(r) PROVE FALSE
    BY <2>3 DEF DisableOrphan, TypeOK, Row
  <2>4. ASSUME NEW j \in Job, NEW s \in Slot, NormalStatus(j, s) PROVE FALSE
    <3>1. Owns(j, s)
      BY <2>4 DEF NormalStatus, Step, Owns, Owning
    <3>2. k # j \/ k \notin rows
      BY <3>1 DEF PromptInv, OwnerIsMarked
    <3>3. status'[k] = status[k]
      BY <2>4, <3>2 DEF NormalStatus, Put, TypeOK, Row
    <3>4. QED
      BY <3>3
  <2>5. ASSUME NEW j \in Job, NEW s \in Slot, FatalStatus(j, s) PROVE FALSE
    BY <2>5 DEF FatalStatus, Put, TypeOK, Row
  <2>6. ~(Boot \/ StartFind \/ StartReset \/ StartFails \/ Crash)
    BY <2>1 DEF Boot, StartFind, StartReset, StartFails, Crash, table
  <2>7. ASSUME NEW j \in Job, NEW s \in Slot,
               \/ Fire(j, s) \/ Read(j, s) \/ DecideMissing(j, s) \/ DecideBusy(j, s)
               \/ DecideCron(j, s) \/ DecideWork(j, s) \/ Mark(j, s) \/ RunReturns(j, s)
               \/ RunNormal(j, s) \/ RunFatal(j, s) \/ Clear(j, s) \/ FatalError(j, s)
        PROVE FALSE
    BY <2>1, <2>7 DEF Fire, Read, DecideMissing, DecideBusy, DecideCron, DecideWork, Decide,
         Mark, RunReturns, RunNormal, RunFatal, Clear, FatalError, table
  <2>8. ASSUME NEW j \in Job, NEW s \in Slot,
               DeleteMissing(j, s) \/ RunRaw(j, s) \/ StatementFails(j, s)
        PROVE FALSE
    BY <2>1, <2>8 DEF DeleteMissing, RunRaw, StatementFails, Escape, table
  <2>9. ASSUME NEW r \in Row,
               EditStatus(r) \/ DeleteRow(r) \/ \E c \in CronName : EditCron(r, c)
        PROVE FALSE
    BY <2>9 DEF EditStatus, DeleteRow, EditCron, Edit, TypeOK
  <2>10. QED
    BY <2>2, <2>3, <2>4, <2>5, <2>6, <2>7, <2>8, <2>9 DEF Next, TickStep
<1>2. QED
  BY <1>1, TypeCorrect, PromptSafety, PTL DEF Spec, DisabledStaysDisabled

-----------------------------------------------------------------------------
(***************************************************************************)
(* Without Prompt: what the table still says of a job.                     *)
(***************************************************************************)

\* A process that has ended satisfies the invariant.
LEMMA DiesRecorded == ASSUME Dies PROVE RecordInv'
  BY DEF Dies, RecordInv, StartIsQuiet, TicksAreArmed, ArmedMarkIsOwned, FatalIsRecorded, NoTicks

\* Every step keeps the invariant.
LEMMA RecordStep == ASSUME TypeOK, RecordInv, [Next]_vars PROVE RecordInv'
<1> USE DEF RecordInv
<1>0. Job \subseteq Row /\ registry \subseteq Job /\ running \in [Job -> BOOLEAN]
  BY DEF Row, TypeOK
<1>1. CASE Boot
  BY <1>1 DEF Boot, table, StartIsQuiet, TicksAreArmed, ArmedMarkIsOwned, FatalIsRecorded
<1>2. CASE StartFind
  BY <1>2 DEF StartFind, table, memory, StartIsQuiet, TicksAreArmed, ArmedMarkIsOwned,
       FatalIsRecorded
<1>3. CASE StartReset
  <2>1. /\ phase = "reset" /\ phase' = "up" /\ registry = Job
        /\ UNCHANGED <<rows, error, registry, escaped, pc, seen>>
        /\ \A r \in rows : ~process'[r]
    BY <1>3 DEF StartReset, StartIsQuiet, TypeOK
  <2>2. QED
    BY <1>0, <2>1 DEF StartIsQuiet, TicksAreArmed, ArmedMarkIsOwned, FatalIsRecorded
<1>4. CASE StartFails
  <2>1. CASE Exits
    BY <1>4, <2>1, DiesRecorded DEF StartFails
  <2>2. CASE ~Exits
    <3>1. /\ phase' = "up" /\ UNCHANGED <<rows, process, error, registry, running, escaped, pc, seen>>
          /\ phase \in {"find", "reset", "up"}
      BY <1>4, <2>2 DEF StartFails, table, memory
    <3>2. QED
      BY <3>1 DEF StartIsQuiet, TicksAreArmed, ArmedMarkIsOwned, FatalIsRecorded, Owns
  <2>3. QED
    BY <2>1, <2>2
<1>5. CASE Crash
  BY <1>5, DiesRecorded DEF Crash
<1>6. ASSUME NEW r \in Row, DisableOrphan(r) PROVE RecordInv'
  BY <1>6 DEF DisableOrphan, memory, StartIsQuiet, TicksAreArmed, ArmedMarkIsOwned,
       FatalIsRecorded, Owns
<1>7. ASSUME NEW j \in Job, NEW s \in Slot, Fire(j, s) PROVE RecordInv'
  <2>1. /\ pc'[j][s] = "read" /\ pc[j][s] = "idle"
        /\ \A k \in Job, t \in Slot : k # j \/ t # s => pc'[k][t] = pc[k][t]
    BY <1>7, GotoMoves DEF Fire
  <2>2. StartIsQuiet'
    BY <1>7, <2>1 DEF Fire, table, memory, boot, StartIsQuiet
  <2>3. TicksAreArmed'
    BY <1>7, <2>1 DEF Fire, table, memory, boot, StartIsQuiet, TicksAreArmed
  <2>4. ArmedMarkIsOwned'
    BY <1>0, <1>7, <2>1 DEF Fire, table, memory, boot, ArmedMarkIsOwned, Owns, Owning, Fatal
  <2>5. FatalIsRecorded'
    BY <1>7, <2>1 DEF Fire, table, memory, boot, FatalIsRecorded, Fatal, Owning
  <2>6. QED
    BY <2>2, <2>3, <2>4, <2>5
<1>8. ASSUME NEW j \in Job, NEW s \in Slot, Read(j, s) PROVE RecordInv'
  <2>1. /\ pc'[j][s] = "decide" /\ pc[j][s] = "read" /\ phase = "up"
        /\ \A k \in Job, t \in Slot : k # j \/ t # s => pc'[k][t] = pc[k][t]
        /\ UNCHANGED <<rows, process, error, registry, running, escaped, phase>>
    BY <1>8, GotoMoves DEF Read, table, memory, boot
  <2>2. /\ ~seen'[j][s].found => j \notin rows
        /\ \A k \in Job, t \in Slot : k # j \/ t # s => seen'[k][t] = seen[k][t]
    BY <1>8 DEF Read, NoRow, TypeOK
  <2>3. StartIsQuiet'
    BY <2>1, <2>2 DEF StartIsQuiet
  <2>4. TicksAreArmed'
    BY <1>0, <2>1, <2>2 DEF StartIsQuiet, TicksAreArmed
  <2>5. ArmedMarkIsOwned'
    BY <1>0, <2>1, <2>2 DEF ArmedMarkIsOwned, Owns, Owning, Fatal
  <2>6. FatalIsRecorded'
    BY <2>1, <2>2 DEF FatalIsRecorded, Fatal, Owning
  <2>7. QED
    BY <2>3, <2>4, <2>5, <2>6
<1>9. ASSUME NEW j \in Job, NEW s \in Slot,
             \/ DecideMissing(j, s) \/ DecideBusy(j, s)
             \/ DecideCron(j, s) \/ DecideWork(j, s)
      PROVE RecordInv'
  <2>1. /\ phase = "up" /\ pc[j][s] = "decide"
        /\ UNCHANGED <<rows, process, error, phase, escaped>>
        /\ \A k \in Job, t \in Slot : k # j \/ t # s => seen'[k][t] = seen[k][t]
    BY <1>9, SeenMoves DEF DecideMissing, DecideBusy, DecideCron, DecideWork, Decide, table, boot
  <2>2. /\ pc'[j][s] \in {"idle", "mark"}
        /\ \A k \in Job, t \in Slot : k # j \/ t # s => pc'[k][t] = pc[k][t]
    BY <1>9, GotoMoves DEF DecideMissing, DecideBusy, DecideCron, DecideWork
  <2>3. \/ registry' = registry \ {j} /\ running' = [running EXCEPT ![j] = FALSE] /\ j \notin rows
        \/ registry' = registry /\ running' = [running EXCEPT ![j] = TRUE]
        \/ registry' = registry /\ running' = running
    BY <1>9, <2>1 DEF DecideMissing, DecideBusy, DecideCron, DecideWork, Unregister, TicksAreArmed
  <2>4. j \in registry => running[j]
    BY <2>1 DEF TicksAreArmed
  <2>5. StartIsQuiet' /\ TicksAreArmed'
    BY <1>0, <2>1, <2>2, <2>3, <2>4 DEF StartIsQuiet, TicksAreArmed
  <2>6. ArmedMarkIsOwned'
    BY <1>0, <2>1, <2>2, <2>3, <2>4 DEF ArmedMarkIsOwned, Owns, Owning
  <2>7. FatalIsRecorded'
    BY <2>1, <2>2, <2>3 DEF FatalIsRecorded, Fatal
  <2>8. QED
    BY <2>5, <2>6, <2>7
<1>10. ASSUME NEW j \in Job, NEW s \in Slot,
              \/ Mark(j, s) \/ RunReturns(j, s) \/ RunNormal(j, s) \/ NormalStatus(j, s)
       PROVE RecordInv'
  <2>1. PICK l \in Owning : Goto(j, s, l)
    BY <1>10 DEF Mark, RunReturns, RunNormal, NormalStatus, Step, Owning
  <2>2. /\ pc'[j][s] = l
        /\ \A k \in Job, t \in Slot : k # j \/ t # s => pc'[k][t] = pc[k][t]
    BY <2>1, GotoMoves
  <2>3. /\ phase = "up" /\ pc[j][s] # "idle" /\ pc[j][s] \notin Fatal
        /\ UNCHANGED <<rows, error, registry, running, escaped, phase, seen>>
        /\ \A k \in Row : k # j => process'[k] = process[k]
    BY <1>10 DEF Mark, RunReturns, RunNormal, NormalStatus, Step, Fatal, memory, boot, Put, TypeOK
  <2>4. StartIsQuiet'
    BY <1>0, <2>1, <2>2, <2>3 DEF StartIsQuiet
  <2>5. TicksAreArmed'
    BY <1>0, <2>1, <2>2, <2>3 DEF StartIsQuiet, TicksAreArmed, Owning
  <2>6. ArmedMarkIsOwned'
    BY <1>0, <2>1, <2>2, <2>3 DEF ArmedMarkIsOwned, Owns, Owning, Fatal
  <2>7. FatalIsRecorded'
    BY <1>0, <2>1, <2>2, <2>3 DEF FatalIsRecorded, Fatal, Owning
  <2>8. QED
    BY <2>4, <2>5, <2>6, <2>7
<1>11. ASSUME NEW j \in Job, NEW s \in Slot, Clear(j, s) PROVE RecordInv'
  <2>1. /\ phase = "up" /\ Owns(j, s) /\ pc'[j][s] = "idle"
        /\ \A k \in Job, t \in Slot : k # j \/ t # s => pc'[k][t] = pc[k][t]
        /\ UNCHANGED <<rows, error, registry, running, escaped, phase, seen>>
    BY <1>11, GotoMoves DEF Clear, Step, memory, boot, Owns, Owning
  <2>2. /\ j \in rows => ~process'[j]
        /\ \A k \in Row : k # j => process'[k] = process[k]
    BY <1>0, <1>11 DEF Clear, Put, TypeOK
  <2>3. StartIsQuiet'
    BY <1>0, <2>1, <2>2 DEF StartIsQuiet
  <2>4. TicksAreArmed'
    BY <1>0, <2>1, <2>2 DEF StartIsQuiet, TicksAreArmed
  <2>5. ArmedMarkIsOwned'
    BY <1>0, <2>1, <2>2 DEF ArmedMarkIsOwned, Owns, Owning, Fatal
  <2>6. FatalIsRecorded'
    BY <1>0, <2>1, <2>2 DEF FatalIsRecorded, Fatal, Owning, Owns
  <2>7. QED
    BY <2>3, <2>4, <2>5, <2>6
<1>12. ASSUME NEW j \in Job, NEW s \in Slot, RunFatal(j, s) PROVE RecordInv'
  <2>1. /\ phase = "up" /\ pc[j][s] = "work" /\ pc'[j][s] = "fatalStatus"
        /\ \A k \in Job, t \in Slot : k # j \/ t # s => pc'[k][t] = pc[k][t]
        /\ UNCHANGED <<rows, process, error, escaped, phase, seen>>
        /\ registry' = registry \ {j} /\ running' = [running EXCEPT ![j] = FALSE]
    BY <1>12, GotoMoves DEF RunFatal, Unregister, table, boot
  <2>2. StartIsQuiet'
    BY <2>1 DEF StartIsQuiet
  <2>3. TicksAreArmed'
    BY <1>0, <2>1 DEF StartIsQuiet, TicksAreArmed
  <2>4. ArmedMarkIsOwned'
    BY <1>0, <2>1 DEF ArmedMarkIsOwned, Owns, Owning, Fatal
  <2>5. FatalIsRecorded'
    BY <2>1 DEF FatalIsRecorded, Fatal, Owning
  <2>6. QED
    BY <2>2, <2>3, <2>4, <2>5
<1>13. ASSUME NEW j \in Job, NEW s \in Slot, FatalStatus(j, s) PROVE RecordInv'
  <2>1. /\ phase = "up" /\ pc[j][s] = "fatalStatus" /\ pc'[j][s] = "fatalError"
        /\ \A k \in Job, t \in Slot : k # j \/ t # s => pc'[k][t] = pc[k][t]
        /\ UNCHANGED <<rows, process, error, registry, running, escaped, phase, seen>>
    BY <1>13, GotoMoves DEF FatalStatus, Step, memory, boot
  <2>2. StartIsQuiet'
    BY <2>1 DEF StartIsQuiet
  <2>3. TicksAreArmed'
    BY <1>0, <2>1 DEF StartIsQuiet, TicksAreArmed
  <2>4. ArmedMarkIsOwned'
    BY <1>0, <2>1 DEF ArmedMarkIsOwned, Owns, Owning, Fatal
  <2>5. FatalIsRecorded'
    BY <2>1 DEF FatalIsRecorded, Fatal, Owning
  <2>6. QED
    BY <2>2, <2>3, <2>4, <2>5
<1>14. ASSUME NEW j \in Job, NEW s \in Slot, FatalError(j, s) PROVE RecordInv'
  <2>1. /\ phase = "up" /\ pc[j][s] = "fatalError" /\ pc'[j][s] = "idle"
        /\ \A k \in Job, t \in Slot : k # j \/ t # s => pc'[k][t] = pc[k][t]
        /\ UNCHANGED <<rows, process, registry, running, escaped, phase, seen>>
    BY <1>14, GotoMoves DEF FatalError, Step, memory, boot
  <2>2. /\ j \in rows => error'[j]
        /\ \A k \in Row : k # j => error'[k] = error[k]
    BY <1>0, <1>14 DEF FatalError, Put, TypeOK
  <2>3. StartIsQuiet'
    BY <1>0, <2>1, <2>2 DEF StartIsQuiet
  <2>4. TicksAreArmed'
    BY <1>0, <2>1, <2>2 DEF StartIsQuiet, TicksAreArmed
  <2>5. ArmedMarkIsOwned'
    BY <1>0, <2>1, <2>2 DEF ArmedMarkIsOwned, Owns, Owning, Fatal
  <2>6. FatalIsRecorded'
    BY <1>0, <2>1, <2>2 DEF FatalIsRecorded, Fatal, Owning
  <2>7. QED
    BY <2>3, <2>4, <2>5, <2>6
<1>15. ASSUME NEW j \in Job, NEW s \in Slot,
              RunRaw(j, s) \/ DeleteMissing(j, s) \/ StatementFails(j, s)
       PROVE RecordInv'
  <2>1. Escape(j, s) /\ phase = "up"
    BY <1>15 DEF RunRaw, DeleteMissing, StatementFails
  <2>2. CASE Exits
    BY <2>1, <2>2, DiesRecorded DEF Escape
  <2>3. CASE ~Exits
    <3>1. /\ Goto(j, s, "idle") /\ escaped' = escaped \cup {j}
          /\ UNCHANGED <<rows, process, error, registry, running, phase>>
          /\ \A k \in Job, t \in Slot : k # j \/ t # s => seen'[k][t] = seen[k][t]
      BY <2>1, <2>3, SeenMoves DEF Escape, table, boot
    <3>2. /\ pc'[j][s] = "idle"
          /\ \A k \in Job, t \in Slot : k # j \/ t # s => pc'[k][t] = pc[k][t]
      BY <3>1, GotoMoves
    <3>3. StartIsQuiet'
      BY <2>1, <3>1, <3>2 DEF StartIsQuiet
    <3>4. TicksAreArmed'
      BY <1>0, <2>1, <3>1, <3>2 DEF StartIsQuiet, TicksAreArmed
    <3>5. ArmedMarkIsOwned'
      BY <1>0, <2>1, <3>1, <3>2 DEF ArmedMarkIsOwned, Owns, Owning, Fatal
    <3>6. FatalIsRecorded'
      BY <2>1, <3>1, <3>2 DEF FatalIsRecorded, Fatal, Owning
    <3>7. QED
      BY <3>3, <3>4, <3>5, <3>6
  <2>4. QED
    BY <2>2, <2>3
<1>16. ASSUME NEW r \in Row,
              EditStatus(r) \/ DeleteRow(r) \/ \E c \in CronName : EditCron(r, c)
       PROVE RecordInv'
  <2>1. /\ UNCHANGED <<process, error, registry, running, escaped, phase, pc, seen>>
        /\ rows' \subseteq rows
    BY <1>16 DEF EditStatus, DeleteRow, EditCron, Edit, memory, boot
  <2>2. QED
    BY <1>0, <2>1 DEF StartIsQuiet, TicksAreArmed, ArmedMarkIsOwned, FatalIsRecorded, Owns
<1>17. CASE UNCHANGED vars
  BY <1>17 DEF vars, table, memory, boot, StartIsQuiet, TicksAreArmed, ArmedMarkIsOwned,
       FatalIsRecorded, Owns
<1>18. QED
  BY <1>1, <1>2, <1>3, <1>4, <1>5, <1>6, <1>7, <1>8, <1>9, <1>10, <1>11, <1>12, <1>13,
     <1>14, <1>15, <1>16, <1>17 DEF Next, TickStep

\* The invariant holds of every behaviour.
THEOREM RecordSafety == Spec => []RecordInv
<1>1. Init => RecordInv
  BY DEF Init, RecordInv, StartIsQuiet, TicksAreArmed, ArmedMarkIsOwned, FatalIsRecorded, NoTicks
<1>2. TypeOK /\ RecordInv /\ [Next]_vars => RecordInv'
  BY RecordStep
<1>3. QED
  BY <1>1, <1>2, TypeCorrect, PTL DEF Spec

\* A mark in the table has a tick that will clear it, as long as the job's timer
\* is armed and no error has left processWork: also when ticks overlap, and
\* also after a crash, because start() clears what the last process left.
THEOREM MarksAreOwned == Spec => []ArmedMarkIsOwned
<1>1. RecordInv => ArmedMarkIsOwned
  BY DEF RecordInv
<1>2. QED
  BY <1>1, RecordSafety, PTL

\* A job that the Fatal handler has taken out says so in its row.
THEOREM FatalsAreRecorded == Spec => []FatalIsRecorded
<1>1. RecordInv => FatalIsRecorded
  BY DEF RecordInv
<1>2. QED
  BY <1>1, RecordSafety, PTL
=============================================================================
