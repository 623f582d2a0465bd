--------------------------------- MODULE NFTRun --------------------------------
(***************************************************************************)
(* The runs of an NFT job: `run` of template/nft.template.ts.  It looks    *)
(* like a cursor job (CursorRun) and differs in three awaits:              *)
(*   - the cursor scheduler.pid is updated without the transaction's       *)
(*     manager, by a statement of its own, before the commit;              *)
(*   - nf_token has no unique index, an item can be stored twice;          *)
(*   - the query runner is never released: the connection a run takes from *)
(*     the pool stays taken until the process ends.                        *)
(* A statement outside of the transaction takes a connection from the pool *)
(* and gives it back; with none left it waits.                             *)
(***************************************************************************)
EXTENDS Integers, FiniteSets

CONSTANTS
  Run,        \* the runs of the job that can be in flight together
  ChunkSize,  \* items of one run
  PoolSize,   \* connections of the pool
  Exclusive,  \* TRUE: a run starts when no other is in flight
  MaxHead,    \* bound: items of the collection
  MaxFaults   \* bound: faults

ASSUME NFTAssumption ==
  /\ ChunkSize \in Nat \ {0} /\ PoolSize \in Nat \ {0}
  /\ Exclusive \in BOOLEAN
  /\ MaxHead \in Nat /\ MaxFaults \in Nat

VARIABLES
  head,       \* chain: items of the collection
  pid,        \* table: the cursor
  copies,     \* table: the rows of each item
  free,       \* pool: connections nobody has taken
  pc,         \* pc[r]: the await run r is at, or how it has ended
  plan,       \* plan[r]: the run's locals sPid and ePid
  faults      \* bound: counts the faults

vars == <<head, pid, copies, free, pc, plan, faults>>
table == <<pid, copies>>

InTx == {"save", "movePid", "commit", "rollback"}
Ended == {"returned", "handled", "raw"}
PC == {"idle", "readPid", "readTotal", "crawl", "connect"} \cup InTx \cup Ended

Item == 0 .. MaxHead - 1
NoPlan == [from |-> 0, to |-> 0]
Items(r) == plan[r].from .. plan[r].to - 1

Init ==
  /\ head \in 0 .. MaxHead
  /\ pid = 0
  /\ copies = [i \in Item |-> 0]
  /\ free = PoolSize
  /\ pc = [r \in Run |-> "idle"]
  /\ plan = [r \in Run |-> NoPlan]
  /\ faults = 0

-----------------------------------------------------------------------------
Goto(r, l, m) ==
  /\ pc[r] = l
  /\ pc' = [pc EXCEPT ![r] = m]

Fault ==
  /\ faults < MaxFaults
  /\ faults' = faults + 1

\* A fault takes run r from l to m, and nothing else changes.
Fails(r, l, m) ==
  /\ Fault
  /\ Goto(r, l, m)
  /\ UNCHANGED <<head, table, free, plan>>

Begin(r) ==
  /\ Goto(r, "idle", "readPid")
  /\ Exclusive => \A q \in Run : pc[q] = "idle"
  /\ UNCHANGED <<head, table, free, plan, faults>>

\* schedulerPid(), with a connection of the pool.
ReadPid(r) ==
  /\ free > 0
  /\ Goto(r, "readPid", "readTotal")
  /\ plan' = [plan EXCEPT ![r].from = pid]
  /\ UNCHANGED <<head, table, free, faults>>

\* networkPid(): the node that is asked knows h items.
ReadTotal(r, h) ==
  /\ h \in 0 .. head
  /\ IF h < head THEN Fault ELSE UNCHANGED faults
  /\ UNCHANGED <<head, table, free>>

\* Variant of NothingNew: off by one.
NothingNewShort(r, h) ==
  /\ ReadTotal(r, h)
  /\ plan[r].from + 1 >= h
  /\ Goto(r, "readTotal", "returned")
  /\ UNCHANGED plan

NothingNew(r, h) ==
  /\ ReadTotal(r, h)
  /\ plan[r].from >= h
  /\ Goto(r, "readTotal", "returned")
  /\ UNCHANGED plan

\* Variant of ChunkEnd: the chunk goes the wrong way (`sub` for `add`).
ChunkEndBack(from, h) == IF h - from > ChunkSize THEN from - ChunkSize ELSE h

\* Where the run's chunk ends.
ChunkEnd(from, h) == IF h - from > ChunkSize THEN from + ChunkSize ELSE h

Plan(r, h) ==
  /\ ReadTotal(r, h)
  /\ plan[r].from < h
  /\ Goto(r, "readTotal", "crawl")
  /\ plan' = [plan EXCEPT ![r].to = ChunkEnd(plan[r].from, h)]

\* The reads are inside the try.
ReadFails(r) == \E l \in {"readPid", "readTotal"} : Fails(r, l, "handled")

Crawl(r) ==
  /\ Goto(r, "crawl", "connect")
  /\ UNCHANGED <<head, table, free, plan, faults>>

CrawlFails(r) == Fails(r, "crawl", "handled")

\* The query runner takes a connection, for good.
Connect(r) ==
  /\ free > 0
  /\ Goto(r, "connect", "save")
  /\ free' = free - 1
  /\ UNCHANGED <<head, table, plan, faults>>

\* It gets none: rolling back a transaction that was never started throws.
ConnectFails(r) == Fails(r, "connect", "raw")

Save(r) ==
  /\ Goto(r, "save", "movePid")
  /\ UNCHANGED <<head, table, free, plan, faults>>

\* updateSchedulerPid(ePid): a second connection, committed at once.
PidMoves(r) ==
  /\ free > 0
  /\ pid' = plan[r].to
  /\ UNCHANGED <<head, copies, free, plan>>

\* Variants of MovePid: the cursor moves to the end of the collection; it is
\* left to the next run.
MovePidToTotal(r) ==
  /\ free > 0
  /\ pid' = head
  /\ Goto(r, "movePid", "commit")
  /\ UNCHANGED <<head, copies, free, plan, faults>>

MovePidLater(r) ==
  /\ Goto(r, "movePid", "commit")
  /\ UNCHANGED <<head, table, free, plan, faults>>

MovePid(r) ==
  /\ PidMoves(r)
  /\ Goto(r, "movePid", "commit")
  /\ UNCHANGED faults

\* The answer to the update does not arrive; the transaction is rolled back.
MoveUnheard(r) ==
  /\ Fault
  /\ PidMoves(r)
  /\ Goto(r, "movePid", "rollback")

\* The items of the run are there; the rows it adds are not checked.
Stores(r) ==
  /\ copies' = [i \in Item |-> IF i \in Items(r) THEN copies[i] + 1 ELSE copies[i]]
  /\ UNCHANGED <<head, pid, free, plan>>

Commit(r) ==
  /\ Stores(r)
  /\ Goto(r, "commit", "returned")
  /\ UNCHANGED faults

\* The answer to the commit does not arrive, and the rollback throws.
CommitUnheard(r) ==
  /\ Fault
  /\ Stores(r)
  /\ Goto(r, "commit", "raw")

StatementFails(r) == \E l \in {"save", "movePid", "commit"} : Fails(r, l, "rollback")

Rollback(r) ==
  /\ Goto(r, "rollback", "handled")
  /\ UNCHANGED <<head, table, free, plan, faults>>

RollbackFails(r) == Fails(r, "rollback", "raw")

\* run is over; nothing gives its connection back.
End(r) ==
  /\ \E l \in Ended : Goto(r, l, "idle")
  /\ plan' = [plan EXCEPT ![r] = NoPlan]
  /\ UNCHANGED <<head, table, free, faults>>

\* The process ends; the next one has a pool of its own.
Crash ==
  /\ Fault
  /\ free' = PoolSize
  /\ pc' = [r \in Run |-> "idle"]
  /\ plan' = [r \in Run |-> NoPlan]
  /\ UNCHANGED <<head, table>>

Mint ==
  /\ head < MaxHead
  /\ head' = head + 1
  /\ UNCHANGED <<table, free, pc, plan, faults>>

\* The steps of a run that no fault can take away.
RunStep(r) ==
  \/ ReadPid(r) \/ NothingNew(r, head) \/ Plan(r, head) \/ Crawl(r)
  \/ Connect(r) \/ Save(r) \/ MovePid(r) \/ Commit(r) \/ Rollback(r)

RunFault(r) ==
  \/ \E h \in 0 .. head - 1 : NothingNew(r, h) \/ Plan(r, h)
  \/ ReadFails(r) \/ CrawlFails(r) \/ ConnectFails(r) \/ StatementFails(r)
  \/ MoveUnheard(r) \/ CommitUnheard(r) \/ RollbackFails(r)

Next ==
  \/ \E r \in Run : Begin(r) \/ RunStep(r) \/ RunFault(r) \/ End(r)
  \/ Crash \/ Mint

Spec == Init /\ [][Next]_vars

\* Runs come again and again, and every await is answered once its statement has
\* a connection.
Fairness == \A r \in Run : WF_vars(Begin(r)) /\ WF_vars(RunStep(r)) /\ WF_vars(End(r))

FairSpec == Spec /\ Fairness

-----------------------------------------------------------------------------
(***************************************************************************)
(* Properties.                                                             *)
(***************************************************************************)

\* Every variable has a value of its type; the pool is never overdrawn.
TypeOK ==
  /\ head \in 0 .. MaxHead
  /\ pid \in Nat
  /\ copies \in [Item -> Nat]
  /\ free \in 0 .. PoolSize
  /\ pc \in [Run -> PC]
  /\ plan \in [Run -> [from : Nat, to : Nat]]
  /\ faults \in Nat

\* No item is stored twice although nothing but the cursor keeps a run from
\* storing it again: the cursor is moved before the commit, so whatever fails, a
\* later run starts behind it.  For runs that exclude each other.
StoredOnce == \A i \in Item : copies[i] <= 1

\* The price: items behind the cursor that no row and no run in flight has.
Missing ==
  {i \in Item : i < pid /\ copies[i] = 0 /\ \A r \in Run : pc[r] = "commit" => i \notin Items(r)}

\* A fault loses one chunk of items at most.  For runs that exclude each other: a
\* crash takes a chunk from every run in flight.
LossIsBounded == Cardinality(Missing) <= ChunkSize * faults

\* As long as the pool lasts, the job catches up with the collection.
CatchesUp == <>[](free > 0) => <>[](pid >= head)

\* The tests of the NFT jobs call `await service.run()` in an endless loop, under
\* the name "is working": every run comes to an end.
RunsReturn == \A r \in Run : pc[r] # "idle" ~> pc[r] = "idle"

(***************************************************************************)
(* The inductive invariant behind StoredOnce.                              *)
(***************************************************************************)
Alone == \A r, q \in Run : pc[r] # "idle" /\ pc[q] # "idle" => r = q

\* No item from the cursor on is stored; the items of a run whose cursor is
\* moved are not stored yet, and end there.
OnceInv ==
  /\ Alone
  /\ StoredOnce
  /\ \A i \in Item : pid <= i => copies[i] = 0
  /\ \A r \in Run :
       /\ pc[r] \in {"readTotal", "crawl", "connect", "save", "movePid"} => plan[r].from = pid
       /\ pc[r] \in {"crawl", "connect", "save", "movePid", "commit"} => plan[r].from < plan[r].to
       /\ pc[r] = "commit" =>
            plan[r].to = pid /\ \A i \in Item \cap Items(r) : copies[i] = 0

(***************************************************************************)
(* The inductive invariant behind LossIsBounded, with OnceInv.             *)
(***************************************************************************)
Planned == {"crawl", "connect", "save", "movePid", "commit"}

\* What a run in flight can lose is one chunk.
LossInv ==
  /\ LossIsBounded
  /\ \A r \in Run : pc[r] \in Planned => plan[r].to - plan[r].from <= ChunkSize
=============================================================================
