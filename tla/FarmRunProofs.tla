----------------------------- MODULE FarmRunProofs -----------------------------
(***************************************************************************)
(* Proofs about FarmRun, for any number of pools and connections, of edits *)
(* and of faults.                                                          *)
(***************************************************************************)
EXTENDS FarmRun, TLAPS

\* The states of a run, one by one.
LEMMA PCs ==
  /\ PC = {"idle", "infos", "state", "find", "check", "disable", "connect", "register", "refresh",
           "update", "commit", "rollback", "release", "abandon", "returned", "handled"}
  /\ InLoop = {"find", "check", "disable", "connect", "register", "refresh", "update", "commit",
               "rollback", "release", "abandon"}
  /\ Holding = {"register", "refresh", "update", "commit", "rollback", "release", "abandon"}
  /\ InTx = {"register", "refresh", "update", "commit", "rollback"}
  /\ Ended = {"returned", "handled"} /\ Written = {"number", "odd"}
BY DEF PC, InTx, InLoop, Holding, Ended, Written

\* Whatever is lost, a client makes one of its five answers of each pool.
LEMMA InfosAreInfo ==
  ASSUME NEW j \in JobName, NEW seen \in [Pid -> {"active", "ended"}], NEW lost
  PROVE  GetFarmInfos(j, seen, lost) \in [Pid -> Info]
<1>1. \A none \in {"null", "broken"} : PoolInfos(seen, lost, none) \in [Pid -> Info]
  BY DEF PoolInfos, Info
<1>2. ThreeCallInfos(seen, lost) \in [Pid -> Info]
  BY DEF ThreeCallInfos, Info
<1>3. BakeryInfos(seen, lost) \in [Pid -> Info]
  BY DEF BakeryInfos, Info
<1>4. PoolInfos(seen, lost, "null") \in [Pid -> Info] /\ PoolInfos(seen, lost, "broken") \in [Pid -> Info]
  BY <1>1
<1> QED
  BY <1>2, <1>3, <1>4
     DEF JobName, GetFarmInfos, PancakeInfos, ApeBSCInfos, WaultInfos, BiSwapInfos, MdexBSCInfos,
         MdexHECOInfos, AutoInfos, ApeMATICInfos, SushiMATICInfos

\* Where a job sends the run: an active pool is served, at the latest when its
\* second contract has been checked, and only a pool with a row is disabled.
LEMMA Destinations ==
  ASSUME NEW j \in JobName, NEW i \in Info, NEW f \in BOOLEAN, NEW c \in BOOLEAN
  PROVE  /\ Served(j, i, f, c) \in {"next", "record", "check", "disable", "connect"}
         /\ Served(j, i, f, c) = "disable" => f
         /\ i = "active" => Served(j, i, f, c) \in {"check", "connect"}
         /\ Served(j, i, f, TRUE) # "check"
<1>1. /\ Serve(i, f) \in {"next", "record", "disable", "connect"}
      /\ Serve(i, f) = "disable" => f
      /\ i = "active" => Serve(i, f) = "connect"
  BY DEF Serve, Info
<1>2. /\ BakeryRun(i, f, c) \in {"next", "record", "disable", "connect"}
      /\ BakeryRun(i, f, c) = "disable" => f
      /\ i = "active" => BakeryRun(i, f, c) = "connect"
      /\ BakeryRun(i, f, TRUE) # "check"
  BY DEF BakeryRun, Serve, Info
<1> QED
  BY <1>1, <1>2
     DEF JobName, Served, PancakeRun, ApeBSCRun, WaultRun, BiSwapRun, MdexBSCRun, MdexHECORun,
         AutoRun, RewarderRun, ApeMATICRun, SushiMATICRun

\* A step is one of the actions, or of the world outside.
LEMMA NextCases ==
  Next => \/ Begin
          \/ (\E seen \in [Pid -> {"active", "ended"}], lost \in SUBSET Calls : Crawl(seen, lost))
          \/ (\E seen \in [Pid -> {"active", "ended"}] : GetFarmState(seen))
          \/ (\E lost \in SUBSET Calls : Crawl(chain, lost)) \/ GetFarmState(chain)
          \/ CrawlFails \/ Find \/ Check \/ Unserved \/ Disable \/ DisableUnheard \/ Connect
          \/ StartFails \/ LeaveOut \/ Register \/ Look \/ Update \/ Commit \/ CommitUnheard
          \/ StatementFails \/ Rollback \/ RollbackFails \/ Release \/ Abandon \/ End \/ Crash
          \/ \E p \in Pid : Allocate(p) \/ AddToken(p) \/ AddSecond(p) \/ Edit(p)
<1>1. {} \in SUBSET Calls
  OBVIOUS
<1> QED
  BY <1>1 DEF Next, RunStep, RunFault

-----------------------------------------------------------------------------
(***************************************************************************)
(* Types and connections.                                                  *)
(***************************************************************************)

\* The pid a run is at is one of the contract's, as long as it is in the loop.
AtInv ==
  /\ pc \in InLoop => at < Pools
  /\ pc \in {"idle", "infos", "state"} => at = 0
  /\ pc = "returned" => at = Pools

BaseInv == TypeOK /\ PoolIsWhole /\ AtInv

\* Types, connections and the place in the loop: the invariant behind the two
\* theorems that follow.
THEOREM BaseSafety == Spec => []BaseInv
<1>1. Init => BaseInv
  <2> SUFFICES ASSUME Init PROVE BaseInv
    OBVIOUS
  <2>1. info \in [Pid -> Info] /\ heard \in [Pid -> {"active", "ended"}] /\ torn \in BOOLEAN
        /\ state \in [total : {"zero", "some"}, base : {"zero", "some"}]
    BY DEF Init, NoInfo, Info, NoState, AllEnded
  <2>2. /\ farm \in [Pid -> {"absent", "on", "off"}] /\ figures \in [Pid -> {"none"} \cup Written]
        /\ second \subseteq Pid
    BY DEF Init
  <2>3. free \in 0 .. PoolSize /\ at \in 0 .. Pools /\ edits \in Nat /\ faults \in Nat
    BY FarmAssumption DEF Init
  <2>4. TypeOK
    BY <2>1, <2>2, <2>3, PCs DEF Init, TypeOK
  <2>5. PoolIsWhole /\ AtInv
    BY FarmAssumption, PCs DEF Init, PoolIsWhole, AtInv
  <2> QED
    BY <2>4, <2>5 DEF BaseInv
<1>2. BaseInv /\ [Next]_vars => BaseInv'
  <2> SUFFICES ASSUME BaseInv, [Next]_vars PROVE BaseInv'
    OBVIOUS
  <2> USE FarmAssumption, PCs DEF BaseInv, TypeOK, PoolIsWhole, AtInv, world, table, answers, locals, Goto, Fault
  <2>0. pc \in InLoop => at \in Pid
    BY DEF Pid
  <2>1. CASE UNCHANGED vars
    BY <2>1 DEF vars
  <2>2. CASE Begin
    BY <2>2 DEF Begin
  <2>3. ASSUME NEW seen \in [Pid -> {"active", "ended"}], NEW lost, Crawl(seen, lost) PROVE BaseInv'
    <3>1. GetFarmInfos(job, seen, lost) \in [Pid -> Info]
      BY InfosAreInfo
    <3> QED
      BY <2>3, <3>1 DEF Crawl
  <2>30. ASSUME NEW seen \in [Pid -> {"active", "ended"}], GetFarmState(seen) PROVE BaseInv'
    <3>1. state' \in [total : {"zero", "some"}, base : {"zero", "some"}]
      BY <2>30 DEF GetFarmState, TotalAllocPoint
    <3>2. heard' \in [Pid -> {"active", "ended"}] /\ torn' \in BOOLEAN
      BY <2>30 DEF GetFarmState, AllEnded
    <3> QED
      BY <2>30, <3>1, <3>2 DEF GetFarmState
  <2>4. CASE CrawlFails
    BY <2>4 DEF CrawlFails
  <2>5. ASSUME NEW l \in {"find", "check"}, NEW where, Take(l, where),
               where \in {"check", "disable", "connect"} => found' \in BOOLEAN /\ paid' \in BOOLEAN,
               left' \subseteq Pid, UNCHANGED <<world, table, free, mine, faults>>
        PROVE  BaseInv'
    <3>1. CASE NextPid(l)
      <4>1. failed' \subseteq Pid
        BY <2>0, <2>5, <3>1 DEF Take, Record, NextPid
      <4> QED
        BY <2>5, <3>1, <4>1 DEF NextPid
    <3>2. CASE where \in {"check", "disable", "connect"} /\ UNCHANGED <<at, answers, failed>> /\ Goto(l, where)
      BY <2>5, <3>2
    <3> QED
      BY <2>5, <3>1, <3>2 DEF Take
  <2>50. CASE Find
    BY <2>5, <2>50 DEF Find
  <2>51. CASE Check
    <3>1. left' \subseteq Pid /\ UNCHANGED <<world, table, free, mine, faults>>
      BY <2>0, <2>51 DEF Check
    <3>2. PICK where : /\ Take("check", where)
                       /\ where \in {"check", "disable", "connect"} =>
                            UNCHANGED found /\ paid' = (at \in second)
      BY <2>51 DEF Check
    <3>3. where \in {"check", "disable", "connect"} => found' \in BOOLEAN /\ paid' \in BOOLEAN
      <4>1. (at \in second) \in BOOLEAN /\ found \in BOOLEAN
        OBVIOUS
      <4> QED
        BY <3>2, <4>1, Zenon
    <3> QED
      BY <2>5, <3>1, <3>2, <3>3, Zenon
  <2>6. CASE Unserved
    BY <2>0, <2>6 DEF Unserved, NextPid, Record
  <2>7. CASE Disable \/ DisableUnheard
    BY <2>0, <2>7 DEF Disable, DisableUnheard, Disables, NextPid, Record
  <2>8. CASE Connect \/ StartFails
    BY <2>8 DEF Connect, StartFails
  <2>9. CASE LeaveOut \/ Register \/ Look \/ StatementFails \/ RollbackFails
    BY <2>0, <2>9 DEF LeaveOut, Register, Look, StatementFails, RollbackFails
  <2>90. CASE Update
    <3>1. mine' \in Written
      BY <2>90 DEF Update
    <3> QED
      BY <2>90, <3>1 DEF Update
  <2>10. CASE Commit \/ CommitUnheard
    BY <2>0, <2>10 DEF Commit, CommitUnheard, Applies
  <2>11. CASE Rollback
    BY <2>0, <2>11 DEF Rollback, Record
  <2>12. CASE Release \/ Abandon
    BY <2>12 DEF Release, Abandon, GiveBack, NextPid
  <2>13. CASE End \/ Crash
    <3>1. /\ NoInfo \in [Pid -> Info] /\ AllEnded \in [Pid -> {"active", "ended"}]
          /\ NoState \in [total : {"zero", "some"}, base : {"zero", "some"}]
      BY DEF NoInfo, Info, AllEnded, NoState
    <3>2. pc' = "idle" /\ Forget /\ UNCHANGED <<world, table>> /\ faults' \in Nat
      BY <2>13 DEF End, Crash
    <3>3. free' = PoolSize
      BY <2>13 DEF End, Crash
    <3>4. PoolIsWhole' /\ AtInv'
      BY <3>2, <3>3 DEF Forget
    <3>5. free' \in 0 .. PoolSize /\ at' \in 0 .. Pools
      BY <3>2, <3>3 DEF Forget
    <3>6. TypeOK'
      BY <3>1, <3>2, <3>5 DEF Forget
    <3> QED
      BY <3>4, <3>6
  <2>14. ASSUME NEW p \in Pid, Allocate(p) \/ AddToken(p) \/ AddSecond(p) \/ Edit(p) PROVE BaseInv'
    BY <2>14 DEF Allocate, AddToken, AddSecond, Edit
  <2> QED
    BY <2>1, <2>2, <2>3, <2>30, <2>4, <2>50, <2>51, <2>6, <2>7, <2>8, <2>9, <2>90, <2>10, <2>11, <2>12,
       <2>13, <2>14, NextCases
<1> QED
  BY <1>1, <1>2, PTL DEF Spec

\* Every variable keeps its type, and no connection is given back twice.
THEOREM TypeCorrect == Spec => []TypeOK
<1>1. BaseInv => TypeOK
  BY DEF BaseInv
<1> QED
  BY <1>1, BaseSafety, PTL

\* Every way out of the loop's body, failures included, gives the connection back.
THEOREM PoolStaysWhole == Spec => []PoolIsWhole
<1>1. BaseInv => PoolIsWhole
  BY DEF BaseInv
<1> QED
  BY <1>1, BaseSafety, PTL

-----------------------------------------------------------------------------
(***************************************************************************)
(* The rows and the report.                                                *)
(***************************************************************************)

\* At every await, however statements, commits and rollbacks fail, no row is bare
\* and no pool forgotten: the inductive invariant of the loop of `run`.
THEOREM FarmSafety == Spec => []FarmInv
<1>1. Init => FarmInv
  BY PCs DEF Init, FarmInv, FillInv, RowsAreFilled, FoundInv, AccountInv
<1>2. BaseInv /\ BaseInv' /\ FarmInv /\ [Next]_vars => FarmInv'
  <2> SUFFICES ASSUME BaseInv, BaseInv', FarmInv, [Next]_vars PROVE FarmInv'
    OBVIOUS
  <2> USE PCs DEF table, answers, locals, world, Goto, FillInv, RowsAreFilled, FoundInv, AccountInv, Passed
  <2>0. /\ pc \in InLoop => at \in Pid
        /\ at \in Int /\ farm \in [Pid -> {"absent", "on", "off"}] /\ Pid \subseteq Int
        /\ pc \in PC /\ mine \in {"none", "new"} \cup Written
        /\ figures \in [Pid -> {"none"} \cup Written] /\ job \in JobName
    <3>1. pc \in InLoop => at \in 0 .. Pools - 1
      BY FarmAssumption DEF BaseInv, TypeOK, AtInv
    <3>2. at \in Int
      BY FarmAssumption DEF BaseInv, TypeOK
    <3>3. Pid \subseteq Int
      BY FarmAssumption DEF Pid
    <3>4. job \in JobName
      BY FarmAssumption DEF BaseInv, TypeOK
    <3> QED
      BY <3>1, <3>2, <3>3, <3>4, Zenon DEF BaseInv, TypeOK, Pid
  <2>00. "none" \notin Written /\ "new" \notin Written
    BY DEF Written
  <2>1. CASE UNCHANGED vars
    <3>1. UNCHANGED <<table, pc, at, info, found, mine, failed, left>>
      BY <2>1 DEF vars
    <3> QED
      BY <3>1 DEF FarmInv
  \* The run is before the loop, or out of it.
  <2>2. CASE Begin \/ CrawlFails
    BY <2>2 DEF Begin, CrawlFails, FarmInv
  <2>3. CASE End \/ Crash
    BY <2>3 DEF End, Crash, Forget, FarmInv
  <2>4. ASSUME NEW seen, NEW lost, Crawl(seen, lost) PROVE FarmInv'
    BY <2>4 DEF Crawl, FarmInv
  <2>40. ASSUME NEW seen, GetFarmState(seen) PROVE FarmInv'
    <3>1. at = 0 /\ \A p \in Pid : ~(p < at)
      BY <2>40 DEF GetFarmState, BaseInv, AtInv, Pid
    <3> QED
      BY <2>40, <3>1 DEF GetFarmState, FarmInv
  \* The run goes on to the next pool: this one is accounted for.
  <2>5. ASSUME NEW l \in InLoop \ InTx, NextPid(l), UNCHANGED mine, mine = "none",
               \A p \in Pid : farm[p] # "absent" => farm'[p] # "absent",
               \A p \in Pid : farm'[p] # "absent" => farm[p] # "absent" \/ figures[p] # "none",
               UNCHANGED figures, failed \subseteq failed', left \subseteq left',
               info[at] = "active" /\ farm'[at] = "absent" => at \in failed' \cup left'
        PROVE  FarmInv'
    <3>1. \A p \in Pid : p < at' => p < at \/ p = at
      BY <2>0, <2>5 DEF NextPid
    <3>2. FillInv' /\ FoundInv'
      BY <2>5 DEF NextPid, FarmInv
    <3>3. AccountInv'
      BY <2>0, <2>5, <3>1 DEF NextPid, FarmInv
    <3> QED
      BY <3>2, <3>3 DEF FarmInv
  <2>6. ASSUME NEW l \in {"find", "check"}, NEW where, Take(l, where), mine = "none",
               UNCHANGED <<table, mine>>, left \subseteq left',
               where \in {"check", "disable", "connect"} => (found' <=> farm[at] # "absent"),
               where = "disable" => farm[at] # "absent",
               where = "next" /\ info[at] = "active" => at \in left'
        PROVE  FarmInv'
    <3>1. CASE NextPid(l)
      <4>1. failed \subseteq failed' /\ (info[at] = "active" => at \in failed' \cup left')
        BY <2>6, <3>1 DEF Take, Record, NextPid
      <4> QED
        BY <2>5, <2>6, <3>1, <4>1
    <3>2. CASE where \in {"check", "disable", "connect"} /\ Goto(l, where) /\ UNCHANGED <<at, answers, failed>>
      BY <2>00, <2>6, <3>2 DEF FarmInv
    <3> QED
      BY <2>6, <3>1, <3>2 DEF Take
  <2>60. info[at] \in Info \/ pc \notin InLoop
    BY <2>0 DEF BaseInv, TypeOK
  <2>61. CASE Find
    <3> DEFINE there == farm[at] # "absent"
               where == Served(job, info[at], there, FALSE)
    <3>1. /\ Take("find", where) /\ UNCHANGED <<table, mine, left>> /\ pc = "find"
          /\ where \in {"check", "disable", "connect"} => found' = there
      BY <2>61 DEF Find
    <3>2. mine = "none"
      BY <2>0, <2>00, <3>1 DEF FarmInv
    <3>3. there \in BOOLEAN /\ info[at] \in Info
      BY <2>60, <3>1
    <3>4. (where = "disable" => there) /\ (info[at] = "active" => where # "next")
      BY <2>0, <3>3, Destinations
    <3> HIDE DEF where
    <3> QED
      BY <2>6, <3>1, <3>2, <3>4
  <2>62. CASE Check
    <3> DEFINE over == PassedOver(job, at \in second)
               where == IF over THEN "next" ELSE Served(job, info[at], found, TRUE)
    <3>1. /\ Take("check", where) /\ UNCHANGED <<table, mine>> /\ pc = "check"
          /\ where \in {"check", "disable", "connect"} => UNCHANGED found
          /\ left' = IF over THEN left \cup {at} ELSE left
      BY <2>62 DEF Check
    <3>2. mine = "none" /\ (found <=> farm[at] # "absent")
      BY <2>0, <2>00, <3>1 DEF FarmInv
    <3>3. found \in BOOLEAN /\ info[at] \in Info
      BY <2>60, <3>1 DEF BaseInv, TypeOK
    <3>4. (where = "disable" => found) /\ (info[at] = "active" /\ ~over => where # "next")
      BY <2>0, <3>3, Destinations
    <3> HIDE DEF where, over
    <3> QED
      BY <2>6, <3>1, <3>2, <3>4
  <2>7. CASE Unserved
    <3>1. PICK l \in {"find", "check", "disable", "connect"} : NextPid(l)
      BY <2>7 DEF Unserved
    <3>2. mine = "none"
      BY <2>0, <3>1 DEF NextPid, FarmInv
    <3> QED
      BY <2>5, <2>7, <3>1, <3>2 DEF Unserved, Record
  <2>8. CASE Disable \/ DisableUnheard
    <3>1. NextPid("disable") /\ Disables /\ UNCHANGED mine /\ failed \subseteq failed' /\ UNCHANGED left
      BY <2>8 DEF Disable, DisableUnheard, Record
    <3>2. pc = "disable" /\ mine = "none"
      BY <2>0, <3>1 DEF NextPid, FarmInv
    <3>3. farm[at] # "absent" /\ figures[at] # "none"
      BY <2>0, <3>2 DEF FarmInv
    <3>4. /\ UNCHANGED figures
          /\ \A p \in Pid : farm[p] # "absent" => farm'[p] # "absent"
          /\ \A p \in Pid : farm'[p] # "absent" => farm[p] # "absent" \/ figures[p] # "none"
          /\ farm'[at] # "absent"
      BY <2>0, <3>1, <3>2, <3>3 DEF Disables
    <3> QED
      BY <2>5, <3>1, <3>2, <3>4
  <2>9. CASE Connect \/ StartFails
    <3>1. pc = "connect" /\ mine = "none" /\ UNCHANGED <<table, at, info, failed, left, mine, found>>
      BY <2>0, <2>9 DEF Connect, StartFails, FarmInv
    <3>2. pc' = "rollback" \/ pc' = IF found THEN "refresh" ELSE "register"
      BY <2>9 DEF Connect, StartFails
    <3> QED
      BY <3>1, <3>2 DEF FarmInv
  <2>10. CASE LeaveOut \/ Register
    <3>1. pc = "register" /\ mine = "none" /\ UNCHANGED <<table, at, info, failed, found>>
      BY <2>0, <2>10 DEF LeaveOut, Register, FarmInv
    <3>2. CASE LeaveOut
      BY <2>0, <3>1, <3>2 DEF LeaveOut, FarmInv
    <3>3. CASE Register
      BY <3>1, <3>3 DEF Register, FarmInv
    <3> QED
      BY <2>10, <3>2, <3>3
  <2>11. CASE Look
    BY <2>0, <2>11 DEF Look, Status, FarmInv
  <2>12. CASE Update
    <3>1. mine' \in Written
      BY <2>0, <2>12 DEF Update, Written
    <3> QED
      BY <2>00, <2>12, <3>1 DEF Update, FarmInv
  <2>13. CASE StatementFails \/ RollbackFails
    BY <2>0, <2>13 DEF StatementFails, RollbackFails, FarmInv
  \* What is applied is filled.
  <2>14. CASE Commit \/ CommitUnheard
    <3>1. /\ pc = "commit" /\ pc' \in {"release", "rollback"} /\ Applies
          /\ UNCHANGED <<at, info, failed, left, found>>
      BY <2>14 DEF Commit, CommitUnheard
    <3>2. mine = "none" \/ mine \in Written
      BY <2>0, <3>1 DEF FarmInv
    <3>3. CASE mine = "none"
      BY <2>0, <3>1, <3>3 DEF Applies, FarmInv
    <3>4. CASE mine \in Written
      BY <2>0, <2>00, <3>1, <3>4 DEF Applies, FarmInv
    <3> QED
      BY <3>2, <3>3, <3>4
  <2>15. CASE Rollback
    BY <2>0, <2>15 DEF Rollback, Record, FarmInv
  <2>16. CASE Release
    <3>1. pc = "release" /\ mine = "none"
      BY <2>0, <2>16 DEF Release, NextPid, FarmInv
    <3> QED
      BY <2>0, <2>5, <2>16, <3>1 DEF Release, FarmInv
  <2>17. CASE Abandon
    BY <2>0, <2>17 DEF Abandon, FarmInv
  <2>18. ASSUME NEW p \in Pid, Allocate(p) \/ AddToken(p) \/ AddSecond(p) PROVE FarmInv'
    BY <2>18 DEF Allocate, AddToken, AddSecond, FarmInv
  <2>19. ASSUME NEW p \in Pid, Edit(p) PROVE FarmInv'
    <3>1. /\ farm[p] # "absent" /\ UNCHANGED <<figures, pc, at, info, found, mine, failed, left>>
          /\ farm'[p] # "absent" /\ \A q \in Pid : q # p => farm'[q] = farm[q]
      BY <2>0, <2>19 DEF Edit
    <3>2. \A q \in Pid : farm'[q] = "absent" <=> farm[q] = "absent"
      BY <3>1
    <3> QED
      BY <2>0, <3>1, <3>2 DEF FarmInv
  <2> QED
    BY <2>1, <2>2, <2>3, <2>4, <2>40, <2>61, <2>62, <2>7, <2>8, <2>9, <2>10, <2>11, <2>12, <2>13, <2>14,
       <2>15, <2>16, <2>17, <2>18, <2>19, NextCases
<1> QED
  BY <1>1, <1>2, BaseSafety, PTL DEF Spec

\* No row is ever seen without its figures, wherever registering or refreshing
\* fails.
THEOREM NoBareRow == Spec => []RowsAreFilled
<1>1. FarmInv => RowsAreFilled
  BY DEF FarmInv, FillInv
<1> QED
  BY <1>1, FarmSafety, PTL

\* A run that returns accounts for every active pool.
THEOREM EveryPoolIsAccounted == Spec => []Accounted
<1>1. BaseInv /\ FarmInv => Accounted
  BY PCs DEF BaseInv, TypeOK, AtInv, FarmInv, AccountInv, Passed, Accounted, Pid
<1> QED
  BY <1>1, BaseSafety, FarmSafety, PTL

-----------------------------------------------------------------------------
(***************************************************************************)
(* What is off stays off.                                                  *)
(***************************************************************************)

\* The row of pool p is off, nobody edits, and no transaction has seen it on.
StaysOff(p) ==
  /\ edits = MaxEdits
  /\ farm[p] = "off"
  /\ at = p => pc # "update" /\ mine = "none"

\* Once nobody edits any more, a pool that is off between two runs stays off.
THEOREM OffIsForever == Spec => OffStaysOff
<1>1. ASSUME NEW p \in Pid
      PROVE  BaseInv /\ FarmInv /\ StaysOff(p) /\ [Next]_vars => StaysOff(p)'
  <2> SUFFICES ASSUME BaseInv, FarmInv, StaysOff(p), [Next]_vars PROVE StaysOff(p)'
    OBVIOUS
  <2> USE PCs DEF StaysOff, table, answers, locals, world, Goto
  <2>0. /\ pc \in PC /\ mine \in {"none", "new"} \cup Written /\ edits \in Nat /\ at \in Int
        /\ farm \in [Pid -> {"absent", "on", "off"}]
        /\ mine # "none" => pc \in {"refresh", "update", "commit", "rollback"}
        /\ pc = "register" => farm[at] = "absent"
        /\ pc \in InLoop => at \in Pid
    <3>1. pc \in InLoop => at \in 0 .. Pools - 1
      BY FarmAssumption DEF BaseInv, TypeOK, AtInv
    <3>2. at \in Int
      BY FarmAssumption DEF BaseInv, TypeOK
    <3>3. /\ mine # "none" => pc \in {"refresh", "update", "commit", "rollback"}
          /\ pc = "register" => farm[at] = "absent"
      BY DEF BaseInv, TypeOK, FarmInv, FillInv, FoundInv
    <3> QED
      BY <3>1, <3>2, <3>3, Zenon DEF BaseInv, TypeOK, Pid
  <2>1. CASE UNCHANGED vars
    BY <2>1 DEF vars
  \* At the end of the loop's body no transaction is open.
  <2>2. ASSUME NEW l \in InLoop \ InTx, NextPid(l), UNCHANGED <<mine, edits>>, farm'[p] = "off"
        PROVE  StaysOff(p)'
    BY <2>0, <2>2 DEF NextPid
  <2>3. CASE Begin \/ CrawlFails \/ Abandon
    BY <2>0, <2>3 DEF Begin, CrawlFails, Abandon
  <2>4. ASSUME NEW seen, NEW lost, Crawl(seen, lost) \/ GetFarmState(seen) PROVE StaysOff(p)'
    BY <2>0, <2>4 DEF Crawl, GetFarmState
  <2>5. CASE Find \/ Check
    <3>1. PICK l \in {"find", "check"} : \E where : Take(l, where)
      BY <2>5 DEF Find, Check
    <3>0. PICK where : Take(l, where)
      BY <3>1
    <3>2. UNCHANGED <<table, mine, edits>>
      BY <2>5 DEF Find, Check
    <3>3. CASE NextPid(l)
      BY <2>2, <3>2, <3>3
    <3>4. CASE where \in {"check", "disable", "connect"} /\ Goto(l, where) /\ UNCHANGED at
      BY <2>0, <3>2, <3>4
    <3> QED
      BY <3>0, <3>3, <3>4 DEF Take
  <2>6. CASE Unserved
    <3>1. PICK l \in {"find", "check", "disable", "connect"} : NextPid(l)
      BY <2>6 DEF Unserved
    <3> QED
      BY <2>2, <2>6, <3>1 DEF Unserved
  <2>7. CASE Disable \/ DisableUnheard
    <3>1. NextPid("disable") /\ Disables /\ UNCHANGED <<mine, edits>>
      BY <2>7 DEF Disable, DisableUnheard
    <3>2. farm'[p] = "off"
      BY <2>0, <3>1 DEF Disables
    <3> QED
      BY <2>2, <3>1, <3>2
  <2>8. CASE Connect \/ StartFails
    BY <2>0, <2>8 DEF Connect, StartFails
  \* A row that is off is neither added nor refreshed.
  <2>9. CASE LeaveOut \/ Register
    BY <2>0, <2>9 DEF LeaveOut, Register
  <2>10. CASE Look
    BY <2>0, <2>10 DEF Look, Status
  <2>11. CASE Update
    BY <2>0, <2>11 DEF Update
  <2>12. CASE StatementFails \/ RollbackFails
    BY <2>0, <2>12 DEF StatementFails, RollbackFails
  <2>13. CASE Commit \/ CommitUnheard
    <3>1. /\ pc = "commit" /\ pc' \in {"release", "rollback"} /\ Applies
          /\ UNCHANGED <<at, edits>>
      BY <2>13 DEF Commit, CommitUnheard
    <3>2. CASE mine = "none"
      BY <2>0, <3>1, <3>2 DEF Applies
    <3>3. CASE at # p
      BY <2>0, <3>1, <3>3 DEF Applies
    <3> QED
      BY <3>2, <3>3
  <2>14. CASE Rollback
    BY <2>0, <2>14 DEF Rollback
  <2>15. CASE Release
    BY <2>2, <2>15 DEF Release
  <2>16. CASE End \/ Crash
    BY <2>0, <2>16 DEF End, Crash, Forget
  <2>17. ASSUME NEW q \in Pid, Allocate(q) \/ AddToken(q) \/ AddSecond(q) \/ Edit(q) PROVE StaysOff(p)'
    BY <2>0, <2>17 DEF Allocate, AddToken, AddSecond, Edit
  <2> QED
    BY <2>1, <2>3, <2>4, <2>5, <2>6, <2>7, <2>8, <2>9, <2>10, <2>11, <2>12, <2>13, <2>14, <2>15,
       <2>16, <2>17, NextCases
<1>2. ASSUME NEW p \in Pid
      PROVE  Spec => [](edits = MaxEdits /\ pc = "idle" /\ farm[p] = "off" => [](farm[p] = "off"))
  <2>1. FarmInv /\ BaseInv /\ edits = MaxEdits /\ pc = "idle" /\ farm[p] = "off" => StaysOff(p)
    BY PCs DEF StaysOff, FarmInv, FillInv, BaseInv, TypeOK
  <2>2. StaysOff(p) => farm[p] = "off"
    BY DEF StaysOff
  <2>3. BaseInv /\ FarmInv /\ StaysOff(p) /\ [Next]_vars => StaysOff(p)'
    BY <1>1
  <2> QED
    BY <2>1, <2>2, <2>3, BaseSafety, FarmSafety, PTL DEF Spec
<1> QED
  BY <1>2 DEF OffStaysOff

-----------------------------------------------------------------------------
(***************************************************************************)
(* The figures are numbers where a run's answers agree.                    *)
(***************************************************************************)

\* A client calls a pool active only if its node does, and only bakery's has the
\* struct of a key the contract does not know.
LEMMA ActiveIsHeard ==
  ASSUME NEW j \in JobName, NEW seen \in [Pid -> {"active", "ended"}], NEW lost, NEW p \in Pid
  PROVE  /\ GetFarmInfos(j, seen, lost)[p] = "active" => seen[p] = "active"
         /\ j # "bakery" => GetFarmInfos(j, seen, lost)[p] # "gone"
<1>1. \A none \in {"null", "broken"} : PoolInfos(seen, lost, none)[p] \in {none, seen[p]}
  BY DEF PoolInfos
<1>2. ThreeCallInfos(seen, lost)[p] \in {"null", seen[p]}
  BY DEF ThreeCallInfos
<1>3. BakeryInfos(seen, lost)[p] \in {"null", "gone", seen[p]}
  BY DEF BakeryInfos
<1>4. seen[p] \in {"active", "ended"}
  OBVIOUS
<1>5. PoolInfos(seen, lost, "null")[p] \in {"null", seen[p]} /\ PoolInfos(seen, lost, "broken")[p] \in {"broken", seen[p]}
  BY <1>1
<1> QED
  BY <1>2, <1>3, <1>4, <1>5
     DEF JobName, GetFarmInfos, PancakeInfos, ApeBSCInfos, WaultInfos, BiSwapInfos, MdexBSCInfos,
         MdexHECOInfos, AutoInfos, ApeMATICInfos, SushiMATICInfos

\* Only an active pool gets a connection.
LEMMA ActiveIsServed ==
  ASSUME NEW j \in JobName, NEW i \in Info, NEW f \in BOOLEAN, NEW c \in BOOLEAN,
         j # "bakery" => i # "gone", Served(j, i, f, c) = "connect"
  PROVE  i = "active"
<1>1. Serve(i, f) = "connect" => i \in {"active", "gone"}
  BY DEF Serve, Info
<1>2. BakeryRun(i, f, c) = "connect" => i = "active"
  BY DEF BakeryRun, Serve, Info
<1> QED
  BY <1>1, <1>2
     DEF JobName, Served, PancakeRun, ApeBSCRun, WaultRun, BiSwapRun, MdexBSCRun, MdexHECORun,
         AutoRun, RewarderRun, ApeMATICRun, SushiMATICRun

\* With a total that is not 0, a guarded job computes a number.
LEMMA GuardedIsANumber ==
  ASSUME NEW j \in Guarded, NEW base \in {"zero", "some"}, NEW extra \in {"zero", "some"},
         NEW liquidity \in {"zero", "some"}
  PROVE  Figure(j, "some", RewardInOneYear(j, base, extra), liquidity) # "odd"
<1> DEFINE reward == RewardInOneYear(j, base, extra)
<1>1. reward \in {"zero", "some"}
  BY DEF Guarded, RewardInOneYear
<1> HIDE DEF reward
<1>2. Allocated("some", reward) \in {"zero", "some"}
  BY <1>1 DEF Allocated, Mul, Div
<1>3. Apr("some", reward, liquidity) # "odd"
  BY <1>2 DEF Apr, AprOfReward, Div
<1>4. Figure(j, "some", reward, liquidity) = Apr("some", reward, liquidity)
  BY DEF Guarded, JobName, Figure, PancakeApr, ApeBSCApr, WaultApr, BiSwapApr, MdexBSCApr,
         MdexHECOApr, BakeryApr, ApeMATICApr
<1> QED
  BY <1>3, <1>4 DEF reward

\* What a run heard of its pools and of the total: the pools it calls active are,
\* for the node that answered, and a total of 0 beside one is of another state of
\* the chain.  The pool in hand is an active one.
HeardInv ==
  /\ job # "bakery" => \A p \in Pid : info[p] # "gone"
  /\ pc = "state" => \A p \in Pid : info[p] = "active" => heard[p] = "active"
  /\ pc \in InLoop /\ ~torn /\ state.total = "zero" => \A p \in Pid : info[p] # "active"
  /\ pc \in {"connect", "register", "refresh", "update"} => info[at] = "active"
  /\ mine = "odd" /\ job \in Guarded => torn

\* The invariant behind the theorem that follows.
THEOREM HeardSafety == Spec => []HeardInv
<1>1. Init => HeardInv
  BY DEF Init, HeardInv, NoInfo, InLoop, InTx, Holding
<1>2. BaseInv /\ FarmInv /\ HeardInv /\ [Next]_vars => HeardInv'
  <2> SUFFICES ASSUME BaseInv, FarmInv, HeardInv, [Next]_vars PROVE HeardInv'
    OBVIOUS
  <2> USE PCs DEF world, table, answers, locals, Goto
  <2>0. /\ job \in JobName /\ info \in [Pid -> Info] /\ found \in BOOLEAN
        /\ heard \in [Pid -> {"active", "ended"}] /\ torn \in BOOLEAN
        /\ state \in [total : {"zero", "some"}, base : {"zero", "some"}]
        /\ pc \in InLoop => at \in Pid
    <3>1. pc \in InLoop => at \in 0 .. Pools - 1
      BY FarmAssumption DEF BaseInv, TypeOK, AtInv
    <3> QED
      BY <3>1, FarmAssumption, Zenon DEF BaseInv, TypeOK, Pid
  \* The answers and the pool in hand stay.
  <2>1. ASSUME UNCHANGED <<job, info, state, torn, at>>, mine' # "odd" \/ UNCHANGED mine,
               pc' \in InLoop => pc \in InLoop, pc' # "state",
               pc' \in {"connect", "register", "refresh", "update"} =>
                 pc \in {"connect", "register", "refresh", "update"} \/ info[at] = "active"
        PROVE  HeardInv'
    BY <2>1 DEF HeardInv
  \* The run goes on, or ends.
  <2>2. ASSUME NEW l \in InLoop, NextPid(l), UNCHANGED <<job, mine>> PROVE HeardInv'
    BY <2>2 DEF NextPid, HeardInv
  <2>3. CASE UNCHANGED vars
    BY <2>3 DEF vars, HeardInv
  <2>4. CASE Begin \/ CrawlFails
    BY <2>4 DEF Begin, CrawlFails, HeardInv
  <2>5. ASSUME NEW seen \in [Pid -> {"active", "ended"}], NEW lost, Crawl(seen, lost) PROVE HeardInv'
    <3>1. /\ pc' = "state" /\ info' = GetFarmInfos(job, seen, lost) /\ heard' = seen
          /\ UNCHANGED <<job, mine, torn>>
      BY <2>5 DEF Crawl
    <3>2. \A p \in Pid : /\ info'[p] = "active" => heard'[p] = "active"
                         /\ job # "bakery" => info'[p] # "gone"
      BY <2>0, <3>1, ActiveIsHeard
    <3> QED
      BY <3>1, <3>2 DEF HeardInv
  <2>6. ASSUME NEW seen \in [Pid -> {"active", "ended"}], GetFarmState(seen) PROVE HeardInv'
    <3>1. /\ pc = "state" /\ pc' = "find" /\ torn' = (seen # heard) /\ state'.total = TotalAllocPoint(seen)
          /\ UNCHANGED <<job, info, mine>>
      BY <2>6 DEF GetFarmState
    <3>2. ~torn' /\ state'.total = "zero" => \A p \in Pid : info[p] # "active"
      <4> SUFFICES ASSUME ~torn', state'.total = "zero", NEW p \in Pid, info[p] = "active" PROVE FALSE
        OBVIOUS
      <4>1. seen[p] = "active"
        BY <3>1 DEF HeardInv
      <4> QED
        BY <3>1, <4>1 DEF TotalAllocPoint
    <3>3. mine # "odd"
      BY <3>1 DEF FarmInv, FillInv, Written
    <3> QED
      BY <3>1, <3>2, <3>3 DEF HeardInv
  <2>7. CASE Find \/ Check
    <3>1. PICK l \in {"find", "check"}, where \in {"next", "record", "check", "disable", "connect"} :
            /\ Take(l, where) /\ UNCHANGED <<job, mine>>
            /\ where = "connect" => info[at] = "active"
      <4>1. CASE Find
        <5> DEFINE there == farm[at] # "absent"
                   where == Served(job, info[at], there, FALSE)
        <5>1. Take("find", where) /\ UNCHANGED <<job, mine>> /\ pc = "find"
          BY <4>1 DEF Find
        <5>2. there \in BOOLEAN /\ info[at] \in Info /\ (job # "bakery" => info[at] # "gone")
          BY <2>0, <5>1 DEF HeardInv
        <5>3. where = "connect" => info[at] = "active"
          BY <2>0, <5>2, ActiveIsServed
        <5> HIDE DEF where
        <5>4. where \in {"next", "record", "check", "disable", "connect"}
          BY <5>1 DEF Take
        <5> QED
          BY <5>1, <5>3, <5>4
      <4>2. CASE Check
        <5> DEFINE over == PassedOver(job, at \in second)
                   where == IF over THEN "next" ELSE Served(job, info[at], found, TRUE)
        <5>1. Take("check", where) /\ UNCHANGED <<job, mine>> /\ pc = "check"
          BY <4>2 DEF Check
        <5>2. info[at] \in Info /\ (job # "bakery" => info[at] # "gone")
          BY <2>0, <5>1 DEF HeardInv
        <5>3. where = "connect" => info[at] = "active"
          BY <2>0, <5>2, ActiveIsServed
        <5> HIDE DEF where, over
        <5>4. where \in {"next", "record", "check", "disable", "connect"}
          BY <5>1 DEF Take
        <5> QED
          BY <5>1, <5>3, <5>4
      <4> QED
        BY <2>7, <4>1, <4>2
    <3>2. CASE NextPid(l)
      BY <2>2, <3>1, <3>2
    <3>3. CASE where \in {"check", "disable", "connect"} /\ Goto(l, where) /\ UNCHANGED <<at, answers, failed>>
      BY <2>1, <3>1, <3>3
    <3> QED
      BY <3>1, <3>2, <3>3 DEF Take
  <2>8. CASE Unserved \/ Disable \/ DisableUnheard \/ Release
    BY <2>2, <2>8 DEF Unserved, Disable, DisableUnheard, Release
  <2>9. CASE Connect \/ StartFails \/ LeaveOut \/ Register \/ Look
    BY <2>1, <2>9 DEF Connect, StartFails, LeaveOut, Register, Look
  <2>10. CASE StatementFails \/ Rollback \/ RollbackFails \/ Abandon
    BY <2>1, <2>10 DEF StatementFails, Rollback, RollbackFails, Abandon
  <2>11. CASE Commit \/ CommitUnheard
    BY <2>1, <2>11 DEF Commit, CommitUnheard, Applies
  \* A total of 0 beside the pool in hand, which is active, is torn.
  <2>12. CASE Update
    <3>1. PICK liquidity \in {"zero", "some"}, extra \in {"zero", "some"} :
            mine' = IF Figure(job, state.total, RewardInOneYear(job, state.base, extra), liquidity) = "odd"
                    THEN "odd" ELSE "number"
      BY <2>12 DEF Update
    <3>2. pc = "update" /\ pc' = "commit" /\ UNCHANGED <<job, info, state, torn, at>>
      BY <2>12 DEF Update
    <3>3. info[at] = "active" /\ at \in Pid
      BY <2>0, <3>2 DEF HeardInv
    <3>4. CASE torn
      BY <3>2, <3>4 DEF HeardInv
    <3>5. CASE ~torn
      <4>1. state.total = "some"
        BY <2>0, <3>2, <3>3, <3>5 DEF HeardInv
      <4>2. job \in Guarded => mine' = "number"
        BY <2>0, <3>1, <4>1, GuardedIsANumber
      <4> QED
        BY <3>2, <4>2 DEF HeardInv
    <3> QED
      BY <3>4, <3>5
  <2>13. CASE End \/ Crash
    BY <2>13 DEF End, Crash, Forget, NoInfo, HeardInv
  <2>14. CASE \E p \in Pid : Allocate(p) \/ AddToken(p) \/ AddSecond(p) \/ Edit(p)
    BY <2>14 DEF Allocate, AddToken, AddSecond, Edit, HeardInv
  <2>15. chain \in [Pid -> {"active", "ended"}]
    BY DEF BaseInv, TypeOK
  <2> QED
    BY <2>3, <2>4, <2>5, <2>6, <2>7, <2>8, <2>9, <2>10, <2>11, <2>12, <2>13, <2>14, <2>15, NextCases
<1> QED
  BY <1>1, <1>2, BaseSafety, FarmSafety, PTL DEF Spec

\* A guarded job takes a number from a row only in a run whose two answers were of
\* two states of the chain: an active pool has a share of a total that is not 0, so
\* what the jobs leave unchecked fails them only between the two awaits.
THEOREM OddIsTorn == Spec => OnlyTornIsOdd
<1>1. BaseInv /\ HeardInv /\ [Next]_vars =>
        [\A p \in Pid :
           job \in Guarded /\ figures'[p] = "odd" => figures[p] = "odd" \/ torn]_vars
  <2> SUFFICES ASSUME BaseInv, HeardInv, Next, NEW p \in Pid, job \in Guarded, figures'[p] = "odd"
               PROVE  figures[p] = "odd" \/ torn
    OBVIOUS
  <2> USE DEF world, table, answers, locals
  <2>1. CASE UNCHANGED figures
    BY <2>1
  <2>2. CASE Commit \/ CommitUnheard
    <3>1. Applies
      BY <2>2 DEF Commit, CommitUnheard
    <3>2. mine = "odd" => torn
      BY DEF HeardInv
    <3>3. figures \in [Pid -> {"none"} \cup Written]
      BY DEF BaseInv, TypeOK
    <3> QED
      BY <3>1, <3>2, <3>3 DEF Applies
  <2>3. CASE \E q \in Pid : Allocate(q) \/ AddToken(q) \/ AddSecond(q) \/ Edit(q)
    BY <2>1, <2>3 DEF Allocate, AddToken, AddSecond, Edit
  <2>4. CASE Begin \/ CrawlFails \/ Find \/ Check \/ Unserved \/ Disable \/ DisableUnheard \/ Connect
    BY <2>1, <2>4 DEF Begin, CrawlFails, Find, Check, Unserved, Disable, DisableUnheard, Connect, Disables
  <2>5. CASE StartFails \/ LeaveOut \/ Register \/ Look \/ Update \/ StatementFails \/ Release \/ Abandon
    BY <2>1, <2>5 DEF StartFails, LeaveOut, Register, Look, Update, StatementFails, Release, Abandon
  <2>6. CASE Rollback \/ RollbackFails \/ End \/ Crash
    BY <2>1, <2>6 DEF Rollback, RollbackFails, End, Crash
  <2>7. ASSUME NEW seen, NEW lost, Crawl(seen, lost) \/ GetFarmState(seen) PROVE UNCHANGED figures
    BY <2>7 DEF Crawl, GetFarmState
  <2> QED
    BY <2>1, <2>2, <2>3, <2>4, <2>5, <2>6, <2>7, NextCases
<1> QED
  BY <1>1, BaseSafety, HeardSafety, PTL DEF Spec, OnlyTornIsOdd
=============================================================================
