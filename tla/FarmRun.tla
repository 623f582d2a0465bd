-------------------------------- MODULE FarmRun --------------------------------
(***************************************************************************)
(* The runs of a farm job: `run`, `registerFarm` and `refreshFarm` of the  *)
(* jobs of a MasterChef contract (FarmJobs says what tells them apart).  A *)
(* run asks the chain for every pool once, then serves the pools in turn,  *)
(* each in a transaction of its own in which a failure stays.  One run is  *)
(* in flight (ScheduledCursor shows when the scheduler provides that);     *)
(* operators, the job that registers tokens and the chain go on beside it. *)
(***************************************************************************)
EXTENDS FarmJobs

CONSTANTS
  Jobs,      \* the jobs under consideration
  PoolSize,  \* connections of the connection pool
  MaxEdits,  \* bound: edits of operators and changes of the chain
  MaxFaults  \* bound: faults

ASSUME FarmAssumption ==
  /\ Jobs \subseteq JobName
  /\ Pools \in Nat \ {0} /\ PoolSize \in Nat \ {0}
  /\ MaxEdits \in Nat /\ MaxFaults \in Nat

VARIABLES
  job,      \* the job whose runs these are
  chain,    \* chain: is a pool "active", or has it "ended" (allocPoint 0)?
  token,    \* table token: the pools whose stake token is there and on
  second,   \* the pools whose second contract is one (auto: the strategy; matic: the
            \*   rewarder, whose token is there and on)
  farm,     \* table farm: the pool's row, "absent", "on" or "off" (status)
  figures,  \* table farm: is the row's apr there, and is it a "number" or "odd"?
  free,     \* pool: connections nobody has taken
  pc,       \* the await the run is at, or how it has ended
  at,       \* the local pid
  info,     \* the local farmInfos: what the chain was heard to say of a pool
  state,    \* the local farmState: the contract's total and its reward, zero or not
  heard,    \* history: what the node that answered for farmInfos knew of the chain
  torn,     \* history: did the one that answered for farmState know otherwise?
  found,    \* the local farm: was there a row?
  paid,     \* the local rewarderRewardToken: is it known?
  mine,     \* the open transaction: "none", the row as "new", or its figure
  failed,   \* the local loggerData.failed
  left,     \* history: the pools the run left out: without a strategy, or registerFarm
            \*   being false
  edits, faults  \* bounds: count edits and faults

vars == <<job, chain, token, second, farm, figures, free, pc, at, info, state, heard, torn,
          found, paid, mine, failed, left, edits, faults>>
world == <<job, chain, token, second, edits>>
table == <<farm, figures>>
answers == <<info, state, heard, torn>>
locals == <<at, answers, found, paid, failed, left>>

InTx == {"register", "refresh", "update", "commit", "rollback"}
\* The run has a connection of its own.
Holding == InTx \cup {"release", "abandon"}
InLoop == {"find", "check", "disable", "connect"} \cup Holding
Ended == {"returned", "handled"}
Written == {"number", "odd"}
PC == {"idle", "infos", "state"} \cup InLoop \cup Ended

NoInfo == [p \in Pid |-> "null"]
NoState == [total |-> "zero", base |-> "zero"]
AllEnded == [p \in Pid |-> "ended"]

Init ==
  /\ job \in Jobs
  /\ chain \in [Pid -> {"active", "ended"}]
  /\ token \in SUBSET Pid
  /\ second \in IF job \in {"auto", "apeMATIC", "sushiMATIC"} THEN SUBSET Pid ELSE {Pid}
  /\ farm = [p \in Pid |-> "absent"]
  /\ figures = [p \in Pid |-> "none"]
  /\ free = PoolSize
  /\ pc = "idle" /\ at = 0 /\ found = FALSE /\ paid = FALSE /\ mine = "none"
  /\ info = NoInfo /\ state = NoState /\ heard = AllEnded /\ torn = FALSE
  /\ failed = {} /\ left = {}
  /\ edits = 0 /\ faults = 0

-----------------------------------------------------------------------------
Fault ==
  /\ faults < MaxFaults
  /\ faults' = faults + 1

Goto(l, m) ==
  /\ pc = l
  /\ pc' = m

Begin ==
  /\ Goto("idle", "infos")
  /\ UNCHANGED <<world, table, free, locals, mine, faults>>

\* networkPid() and getFarmInfos(); `seen` is what the node that answers knows of
\* the chain, `lost` the calls of the batch it does not answer.
Crawl(seen, lost) ==
  /\ Goto("infos", "state")
  /\ IF seen = chain /\ lost = {} THEN UNCHANGED faults ELSE Fault
  /\ info' = GetFarmInfos(job, seen, lost)
  /\ heard' = seen
  /\ UNCHANGED <<world, table, free, at, state, torn, found, paid, mine, failed, left>>

\* getFarmState(), which asks again, another node perhaps.
GetFarmState(seen) ==
  /\ Goto("state", "find")
  /\ IF seen = chain THEN UNCHANGED faults ELSE Fault
  /\ \E base \in {"zero", "some"} : state' = [total |-> TotalAllocPoint(seen), base |-> base]
  /\ torn' = (seen # heard)
  /\ heard' = AllEnded
  /\ UNCHANGED <<world, table, free, at, info, found, paid, mine, failed, left>>

CrawlFails ==
  /\ Fault
  /\ Goto("infos", "handled") \/ Goto("state", "handled")
  /\ UNCHANGED <<world, table, free, locals, mine>>

\* Variant of NextPid: the run returns where it should go on.
NextPidReturns(l) ==
  /\ pc = l
  /\ pc' = IF at + 1 < Pools /\ info[at] = "active" THEN "find" ELSE "returned"
  /\ at' = at + 1
  /\ UNCHANGED <<answers, found, paid>>

\* The end of the loop's body.
NextPid(l) ==
  /\ pc = l
  /\ pc' = IF at + 1 < Pools THEN "find" ELSE "returned"
  /\ at' = at + 1
  /\ UNCHANGED <<answers, found, paid>>

\* The pool's failure is recorded, and the run goes on.
Record == failed' = failed \cup {at}

\* The run goes where the job sends it from `l`.
Take(l, where) ==
  \/ /\ where = "next"
     /\ NextPid(l)
     /\ UNCHANGED failed
  \/ /\ where = "record"
     /\ NextPid(l)
     /\ Record
  \/ /\ where \in {"check", "disable", "connect"}
     /\ Goto(l, where)
     /\ UNCHANGED <<at, answers, failed>>

\* findFarm(), outside of the transaction, and what `farmInfo` says of the pool.
Find ==
  /\ pc = "find" /\ free > 0
  /\ LET there == farm[at] # "absent"
         where == Served(job, info[at], there, FALSE)
     IN  /\ Take("find", where)
         /\ where \in {"check", "disable", "connect"} => found' = there /\ paid' = FALSE
  /\ UNCHANGED <<world, table, free, mine, left, faults>>

\* The pool's strategy, or its rewarder and the rewarder's token.
Check ==
  /\ pc = "check"
  /\ LET valid == at \in second
         over == PassedOver(job, valid)
         where == IF over THEN "next" ELSE Served(job, info[at], found, TRUE)
     IN  /\ Take("check", where)
         /\ where \in {"check", "disable", "connect"} => UNCHANGED found /\ paid' = valid
         /\ left' = IF over THEN left \cup {at} ELSE left
  /\ UNCHANGED <<world, table, free, mine, faults>>

\* Outside of the transaction nothing is to be rolled back: findFarm(), the
\* second contract, the update that disables the pool, the connect.
Unserved ==
  /\ Fault
  /\ \E l \in {"find", "check", "disable", "connect"} : NextPid(l)
  /\ Record
  /\ UNCHANGED <<world, table, free, mine, left>>

\* Variant of Disables: the row is left as it is.
DisablesNothing == UNCHANGED table

Disables ==
  /\ farm' = [farm EXCEPT ![at] = "off"]
  /\ UNCHANGED figures

Disable ==
  /\ free > 0
  /\ NextPid("disable")
  /\ Disables
  /\ UNCHANGED <<world, free, mine, failed, left, faults>>

DisableUnheard ==
  /\ free > 0
  /\ Fault
  /\ NextPid("disable")
  /\ Disables
  /\ Record
  /\ UNCHANGED <<world, free, mine, left>>

\* connect() takes a connection, startTransaction() begins on it.
Connect ==
  /\ free > 0
  /\ Goto("connect", IF found THEN "refresh" ELSE "register")
  /\ free' = free - 1
  /\ UNCHANGED <<world, table, locals, mine, faults>>

\* The transaction counts as active before it has begun, so it is rolled back.
StartFails ==
  /\ free > 0
  /\ Fault
  /\ Goto("connect", "rollback")
  /\ free' = free - 1
  /\ UNCHANGED <<world, table, locals, mine>>

\* registerFarm() misses a token the row needs.
LeaveOut ==
  /\ ~Registers(job, at \in token, paid)
  /\ Goto("register", "commit")
  /\ left' = left \cup {at}
  /\ UNCHANGED <<world, table, free, at, answers, found, paid, mine, failed, faults>>

\* Variant of Register: createFarm() without the transaction's manager.
RegisterAtOnce ==
  /\ Registers(job, at \in token, paid)
  /\ Goto("register", "refresh")
  /\ farm' = [farm EXCEPT ![at] = "on"]
  /\ UNCHANGED <<world, figures, free, locals, mine, faults>>

\* registerFarm() adds the row; its status is true by default.
Register ==
  /\ Registers(job, at \in token, paid)
  /\ Goto("register", "refresh")
  /\ mine' = "new"
  /\ UNCHANGED <<world, table, free, locals, faults>>

\* Variant of Status: the row is taken to be on.
StatusIgnored == "on"

\* The status refreshFarm() sees: of the row just added, or of the table.
Status == IF mine = "new" THEN "on" ELSE farm[at]

\* refreshFarm() looks the row up, and leaves alone one that is off.
Look ==
  /\ Goto("refresh", IF Status = "on" THEN "update" ELSE "commit")
  /\ UNCHANGED <<world, table, free, locals, mine, faults>>

\* It asks the chain for the pool's liquidity, and a rewarder that pays for what it
\* adds, and writes the figures and `status`.
Update ==
  /\ Goto("update", "commit")
  /\ \E liquidity \in {"zero", "some"}, extra \in IF paid THEN {"zero", "some"} ELSE {"zero"} :
       LET apr == Figure(job, state.total, RewardInOneYear(job, state.base, extra), liquidity)
       IN  mine' = IF apr = "odd" THEN "odd" ELSE "number"
  /\ UNCHANGED <<world, table, free, locals, faults>>

\* What the transaction has written is seen.
Applies ==
  /\ farm' = IF mine = "none" THEN farm ELSE [farm EXCEPT ![at] = "on"]
  /\ figures' = IF mine \in Written THEN [figures EXCEPT ![at] = mine] ELSE figures
  /\ mine' = "none"

Commit ==
  /\ Goto("commit", "release")
  /\ Applies
  /\ UNCHANGED <<world, free, locals, faults>>

\* The answer to the commit does not arrive; the transaction counts as active.
CommitUnheard ==
  /\ Fault
  /\ Goto("commit", "rollback")
  /\ Applies
  /\ UNCHANGED <<world, free, locals>>

StatementFails ==
  /\ Fault
  /\ \E l \in InTx \ {"rollback"} : Goto(l, "rollback")
  /\ UNCHANGED <<world, table, free, locals, mine>>

\* Variant of Rollback: the failure is not recorded.
RollbackSilently ==
  /\ Goto("rollback", "release")
  /\ mine' = "none"
  /\ UNCHANGED <<world, table, free, locals, faults>>

Rollback ==
  /\ Goto("rollback", "release")
  /\ mine' = "none"
  /\ Record
  /\ UNCHANGED <<world, table, free, at, answers, found, paid, left, faults>>

\* A fault may be the connection's: the rollback then throws as well, out of the
\* loop; `finally` still releases.
RollbackFails ==
  /\ Goto("rollback", "abandon")
  /\ mine' = "none"
  /\ UNCHANGED <<world, table, free, locals, faults>>

\* Variants of GiveBack: a `finally` without the release; a release in `catch`
\* as well, and no look at isReleased.
GiveBackNothing == UNCHANGED free
GiveBackTwice == free' = free + 2

GiveBack == free' = free + 1

Release ==
  /\ NextPid("release")
  /\ GiveBack
  /\ UNCHANGED <<world, table, mine, failed, left, faults>>

Abandon ==
  /\ Goto("abandon", "handled")
  /\ GiveBack
  /\ UNCHANGED <<world, table, locals, mine, faults>>

Forget ==
  /\ info' = NoInfo /\ state' = NoState /\ heard' = AllEnded /\ torn' = FALSE
  /\ at' = 0 /\ found' = FALSE /\ paid' = FALSE /\ failed' = {} /\ left' = {}
  /\ mine' = "none"

End ==
  /\ \E l \in Ended : Goto(l, "idle")
  /\ Forget
  /\ UNCHANGED <<world, table, free, faults>>

\* The process ends; the server rolls back what is open.
Crash ==
  /\ Fault
  /\ pc' = "idle"
  /\ Forget
  /\ free' = PoolSize
  /\ UNCHANGED <<world, table>>

-----------------------------------------------------------------------------
\* The chain opens or ends a pool.
Allocate(p) ==
  /\ edits < MaxEdits
  /\ edits' = edits + 1
  /\ \E s \in {"active", "ended"} \ {chain[p]} : chain' = [chain EXCEPT ![p] = s]
  /\ UNCHANGED <<job, token, second, table, free, pc, locals, mine, faults>>

\* Another job registers the stake token.
AddToken(p) ==
  /\ p \notin token
  /\ token' = token \cup {p}
  /\ UNCHANGED <<job, chain, second, edits, table, free, pc, locals, mine, faults>>

\* The second contract of a pool is deployed, or its token registered.
AddSecond(p) ==
  /\ p \notin second
  /\ second' = second \cup {p}
  /\ UNCHANGED <<job, chain, token, edits, table, free, pc, locals, mine, faults>>

\* An operator sets the status of a row, once no transaction has it locked.
Edit(p) ==
  /\ edits < MaxEdits
  /\ edits' = edits + 1
  /\ farm[p] # "absent"
  /\ ~(mine \in Written /\ at = p)
  /\ \E s \in {"on", "off"} \ {farm[p]} : farm' = [farm EXCEPT ![p] = s]
  /\ UNCHANGED <<job, chain, token, second, figures, free, pc, locals, mine, faults>>

\* The steps of a run that no fault can take away.
RunStep ==
  \/ Crawl(chain, {}) \/ GetFarmState(chain)
  \/ Find \/ Check \/ Disable \/ Connect \/ LeaveOut \/ Register \/ Look
  \/ Update \/ Commit \/ Rollback \/ Release \/ Abandon

RunFault ==
  \/ \E lost \in (SUBSET Calls) \ {{}} : Crawl(chain, lost)
  \/ \E seen \in [Pid -> {"active", "ended"}] \ {chain} : Crawl(seen, {}) \/ GetFarmState(seen)
  \/ CrawlFails \/ Unserved \/ DisableUnheard \/ StartFails \/ CommitUnheard
  \/ StatementFails \/ RollbackFails

Next ==
  \/ Begin \/ RunStep \/ RunFault \/ End \/ Crash
  \/ \E p \in Pid : Allocate(p) \/ AddToken(p) \/ AddSecond(p) \/ Edit(p)

Spec == Init /\ [][Next]_vars

\* Runs come again and again, and every await is answered once its statement has
\* a connection.
FairSpec == Spec /\ WF_vars(Begin) /\ WF_vars(RunStep) /\ WF_vars(End)

-----------------------------------------------------------------------------
(***************************************************************************)
(* Properties.                                                             *)
(***************************************************************************)

\* Every variable has a value of its type; no connection is given back twice.
TypeOK ==
  /\ job \in Jobs
  /\ chain \in [Pid -> {"active", "ended"}]
  /\ token \subseteq Pid /\ second \subseteq Pid
  /\ farm \in [Pid -> {"absent", "on", "off"}]
  /\ figures \in [Pid -> {"none"} \cup Written]
  /\ free \in 0 .. PoolSize
  /\ pc \in PC
  /\ at \in 0 .. Pools
  /\ info \in [Pid -> Info]
  /\ state \in [total : {"zero", "some"}, base : {"zero", "some"}]
  /\ heard \in [Pid -> {"active", "ended"}] /\ torn \in BOOLEAN
  /\ found \in BOOLEAN /\ paid \in BOOLEAN
  /\ mine \in {"none", "new"} \cup Written
  /\ failed \subseteq Pid /\ left \subseteq Pid
  /\ edits \in Nat /\ faults \in Nat

\* The API serves every row that is on: none is ever seen without its figures,
\* wherever registering or refreshing fails.
RowsAreFilled == \A p \in Pid : farm[p] # "absent" => figures[p] # "none"

\* The jobs that test both the reward they divide and the liquidity they divide by.
Guarded == JobName \ {"auto", "sushiMATIC"}

\* Nothing stops the apr that a total of 0 leaves, but no active pool has one unless
\* the chain was not the same at both awaits: of the guarded jobs, only a run whose
\* answers are of two states of the chain takes a number from a row.
OnlyTornIsOdd ==
  [][\A p \in Pid :
       job \in Guarded /\ figures'[p] = "odd" => figures[p] = "odd" \/ torn]_vars

\* On every way out of the loop's body the connection is given back once.
PoolIsWhole == free = PoolSize - (IF pc \in Holding THEN 1 ELSE 0)

\* A run that returns accounts for every pool it knew to be active: its row is
\* there, or its failure is in the log, or a token or its strategy was unknown.
Accounted ==
  pc = "returned" =>
    \A p \in Pid : info[p] = "active" /\ farm[p] = "absent" => p \in failed \cup left

\* Once nobody edits any more, a pool that is off between two runs stays off,
\* whatever the runs hear and whatever fails.
OffStaysOff ==
  \A p \in Pid :
    [](edits = MaxEdits /\ pc = "idle" /\ farm[p] = "off" => [](farm[p] = "off"))

\* A pool that stays active and whose tokens are known is registered, whatever
\* has failed for it and for the pools before it.
ActiveIsRegistered ==
  \A p \in Pid :
    <>[](chain[p] = "active" /\ p \in token \cap second) => <>(farm[p] # "absent")

\* A pool that has ended is not served for ever (of auto: one whose strategy is
\* still a contract).
EndedIsDisabled ==
  \A p \in Pid :
    <>[](chain[p] = "ended" /\ (job = "auto" => p \in second)) => <>[](farm[p] # "on")

(***************************************************************************)
(* The inductive invariant behind RowsAreFilled and Accounted.             *)
(***************************************************************************)

\* A row the transaction has added is filled before the commit.
FillInv ==
  /\ RowsAreFilled
  /\ mine = "new" => pc \in {"refresh", "update", "rollback"}
  /\ mine \in Written => pc \in {"commit", "rollback"}

\* Only runs add rows, so what a run has found of a row stays true.
FoundInv ==
  /\ pc = "disable" => farm[at] # "absent"
  /\ pc \in {"check", "connect"} => (found <=> farm[at] # "absent")
  /\ pc = "register" \/ mine = "new" => farm[at] = "absent"
  /\ pc = "refresh" => farm[at] # "absent" \/ mine = "new"

\* The pools the run has passed, and the one whose transaction is over.
Passed(p) == p < at \/ (p = at /\ pc = "release")

AccountInv ==
  /\ pc \in InLoop \cup {"returned"} =>
       \A p \in Pid :
         Passed(p) /\ info[p] = "active" /\ farm[p] = "absent" => p \in failed \cup left
  /\ pc = "commit" /\ mine = "none" /\ farm[at] = "absent" => at \in left

\* No row is bare, no pool forgotten, at any await of the loop.
FarmInv == FillInv /\ FoundInv /\ AccountInv
=============================================================================
