------------------------------- MODULE CursorRun -------------------------------
(***************************************************************************)
(* The runs of a cursor job: `run` of the interaction jobs                 *)
(* (template/interaction.template.ts: the items are blocks, the cursor is  *)
(* scheduler.block_number) and of the pair jobs (template/pair.template.ts: *)
(* the items are the pairs of an AMM factory, the cursor is scheduler.pid). *)
(*                                                                         *)
(* A run reads the cursor and the length of the chain, fetches the next    *)
(* chunk, and stores it and moves the cursor in one transaction.  What can *)
(* go wrong does: a node that lags behind, a batch or a block that fails,  *)
(* a connection that is not there, a statement, a commit or a rollback     *)
(* that fails, a commit that is done and whose answer is lost, a crash.    *)
(*                                                                         *)
(* The two reads of a run start together (Promise.all).  The length can be *)
(* read after the cursor in the model: a node that lags answers with any   *)
(* length the chain has had.                                               *)
(***************************************************************************)
EXTENDS Integers

CONSTANTS
  Run,        \* the runs of the job that can be in flight together
  Start,      \* the cursor of a fresh table
  ChunkSize,  \* items of one run
  LeavesOut,  \* TRUE: a block the node has an error for is left out
              \* (interaction jobs); FALSE: there is no such thing (pair jobs)
  ReadsInside,\* TRUE: the reads are inside the try (pair jobs)
  Exclusive,  \* TRUE: a run starts when no other is in flight
  MaxHead,    \* bound: items of the chain
  MaxFaults   \* bound: faults

ASSUME CursorAssumption ==
  /\ Start \in Nat
  /\ ChunkSize \in Nat \ {0}
  /\ LeavesOut \in BOOLEAN /\ ReadsInside \in BOOLEAN /\ Exclusive \in BOOLEAN
  /\ MaxHead \in Nat /\ MaxFaults \in Nat

VARIABLES
  head,       \* chain: items it has
  cursor,     \* table: the cursor, as committed
  stored,     \* table: items stored, as committed
  lost,       \* ghost: items a committed run has left out
  pc,         \* pc[r]: the await run r is at, or how it has ended
  plan,       \* plan[r]: the run's locals sBlock, eBlock and what it crawled
  faults      \* bound: counts the faults

vars == <<head, cursor, stored, lost, pc, plan, faults>>
table == <<cursor, stored, lost>>

InTx == {"insert", "move", "commit", "rollback"}
Ended == {"returned", "handled", "raw"}
PC == {"idle", "readCursor", "readHead", "crawl", "connect"} \cup InTx \cup Ended

NoPlan == [from |-> 0, to |-> 0, got |-> {}]
Items(r) == plan[r].from .. plan[r].to - 1

Init ==
  /\ head \in 0 .. MaxHead
  /\ cursor = Start
  /\ stored = {} /\ lost = {}
  /\ pc = [r \in Run |-> "idle"]
  /\ plan = [r \in Run |-> NoPlan]
  /\ faults = 0

-----------------------------------------------------------------------------
Goto(r, l, m) ==
  /\ pc[r] = l
  /\ pc' = [pc EXCEPT ![r] = m]

Fault ==
  /\ faults < MaxFaults
  /\ faults' = faults + 1

\* A fault takes run r from l to m, and nothing else changes.
Fails(r, l, m) ==
  /\ Fault
  /\ Goto(r, l, m)
  /\ UNCHANGED <<head, table, plan>>

\* processWork calls run.
Begin(r) ==
  /\ Goto(r, "idle", "readCursor")
  /\ Exclusive => \A q \in Run : pc[q] = "idle"
  /\ UNCHANGED <<head, table, plan, faults>>

ReadCursor(r) ==
  /\ Goto(r, "readCursor", "readHead")
  /\ plan' = [plan EXCEPT ![r].from = cursor]
  /\ UNCHANGED <<head, table, faults>>

\* The node that is asked knows h items; it lags when the chain has more.
ReadHead(r, h) ==
  /\ h \in 0 .. head
  /\ IF h < head THEN Fault ELSE UNCHANGED faults
  /\ UNCHANGED <<head, table>>

\* Nothing new: run returns.
NothingNew(r, h) ==
  /\ ReadHead(r, h)
  /\ plan[r].from >= h
  /\ Goto(r, "readHead", "returned")
  /\ UNCHANGED plan

\* Variant of ChunkEnd: the chunk goes the wrong way (`sub` for `add`).
ChunkEndBack(from, h) == IF h - from > ChunkSize THEN from - ChunkSize ELSE h

\* Where the run's chunk ends.
ChunkEnd(from, h) == IF h - from > ChunkSize THEN from + ChunkSize ELSE h

\* Variant of Plan: the cursor is not compared with the length.
PlanUnguarded(r, h) ==
  /\ ReadHead(r, h)
  /\ Goto(r, "readHead", "crawl")
  /\ plan' = [plan EXCEPT ![r].to = ChunkEnd(plan[r].from, h)]

Plan(r, h) ==
  /\ ReadHead(r, h)
  /\ plan[r].from < h
  /\ Goto(r, "readHead", "crawl")
  /\ plan' = [plan EXCEPT ![r].to = ChunkEnd(plan[r].from, h)]

\* One of the two reads fails.
ReadFails(r) ==
  \E l \in {"readCursor", "readHead"} :
    Fails(r, l, IF ReadsInside THEN "handled" ELSE "raw")

\* The batch has answers for the items but E, for which it has errors.
Crawl(r, E) ==
  /\ E \subseteq Items(r)
  /\ IF E = {} THEN UNCHANGED faults ELSE LeavesOut /\ Fault
  /\ Goto(r, "crawl", "connect")
  /\ plan' = [plan EXCEPT ![r].got = Items(r) \ E]
  /\ UNCHANGED <<head, table>>

\* There is no query runner yet: nothing to roll back.
CrawlFails(r) == Fails(r, "crawl", "handled")

\* The query runner gets its connection and starts the transaction.
Connect(r) ==
  /\ Goto(r, "connect", "insert")
  /\ UNCHANGED <<head, table, plan, faults>>

\* It gets none: rolling back a transaction that was never started throws.
ConnectFails(r) == Fails(r, "connect", "raw")

Insert(r) ==
  /\ Goto(r, "insert", "move")
  /\ UNCHANGED <<head, table, plan, faults>>

\* Variant of Move: the cursor is moved outside of the transaction.
MoveOutside(r) ==
  /\ Goto(r, "move", "commit")
  /\ cursor' = plan[r].to
  /\ UNCHANGED <<head, stored, lost, plan, faults>>

\* The transaction locks the row of the job until it ends.
Move(r) ==
  /\ \A q \in Run : pc[q] # "commit"
  /\ Goto(r, "move", "commit")
  /\ UNCHANGED <<head, table, plan, faults>>

\* Variant of Take: the cursor is not part of it.
TakeKeepsCursor(r) ==
  /\ stored' = stored \cup plan[r].got
  /\ lost' = lost \cup (Items(r) \ plan[r].got)
  /\ UNCHANGED <<head, cursor, plan>>

\* The transaction takes effect as a whole.
Take(r) ==
  /\ cursor' = plan[r].to
  /\ stored' = stored \cup plan[r].got
  /\ lost' = lost \cup (Items(r) \ plan[r].got)
  /\ UNCHANGED <<head, plan>>

Commit(r) ==
  /\ Goto(r, "commit", "returned")
  /\ Take(r)
  /\ UNCHANGED faults

\* The answer to a commit that was done does not arrive: the connection is
\* gone, and the rollback fails with it.
CommitUnheard(r) ==
  /\ Fault
  /\ Goto(r, "commit", "raw")
  /\ Take(r)

StatementFails(r) == \E l \in {"insert", "move", "commit"} : Fails(r, l, "rollback")

Rollback(r) ==
  /\ Goto(r, "rollback", "handled")
  /\ UNCHANGED <<head, table, plan, faults>>

\* The connection is gone; the server drops the transaction.
RollbackFails(r) == Fails(r, "rollback", "raw")

\* Variant of End: the run leaves its cursor to the next one.
EndKeepsPlan(r) ==
  /\ \E l \in Ended : Goto(r, l, "readHead")
  /\ UNCHANGED <<head, table, plan, faults>>

\* run is over: it has returned, rejected with an Exception ("handled") or
\* rejected with the error of a driver ("raw").
End(r) ==
  /\ \E l \in Ended : Goto(r, l, "idle")
  /\ plan' = [plan EXCEPT ![r] = NoPlan]
  /\ UNCHANGED <<head, table, faults>>

\* The process ends, and with it its connections.
Crash ==
  /\ pc' = [r \in Run |-> "idle"]
  /\ plan' = [r \in Run |-> NoPlan]
  /\ UNCHANGED <<head, table, faults>>

Grow ==
  /\ head < MaxHead
  /\ head' = head + 1
  /\ UNCHANGED <<table, pc, plan, faults>>

\* The steps of a run that no fault can take away.
RunStep(r) ==
  \/ ReadCursor(r) \/ NothingNew(r, head) \/ Plan(r, head) \/ Crawl(r, {})
  \/ Connect(r) \/ Insert(r) \/ Move(r) \/ Commit(r) \/ Rollback(r)

RunFault(r) ==
  \/ \E h \in 0 .. head - 1 : NothingNew(r, h) \/ Plan(r, h)
  \/ \E E \in (SUBSET Items(r)) \ {{}} : Crawl(r, E)
  \/ ReadFails(r) \/ CrawlFails(r) \/ ConnectFails(r) \/ StatementFails(r)
  \/ CommitUnheard(r) \/ RollbackFails(r)

Next ==
  \/ \E r \in Run : Begin(r) \/ RunStep(r) \/ RunFault(r) \/ End(r)
  \/ Crash \/ Grow

Spec == Init /\ [][Next]_vars

\* Runs come again and again (WorkRecurs of SchedulerJob) and every await of a
\* run is answered.  A run that waits for the lock of the row waits for one that
\* holds it and ends.  Nothing makes the chain grow or a fault happen.
Fairness == \A r \in Run : WF_vars(Begin(r)) /\ WF_vars(RunStep(r)) /\ WF_vars(End(r))

FairSpec == Spec /\ Fairness

-----------------------------------------------------------------------------
(***************************************************************************)
(* Properties.                                                             *)
(***************************************************************************)

\* Every variable has a value of its type.
TypeOK ==
  /\ head \in Nat
  /\ cursor \in Nat
  /\ stored \subseteq Nat /\ lost \subseteq Nat
  /\ pc \in [Run -> PC]
  /\ plan \in [Run -> [from : Nat, to : Nat, got : SUBSET Nat]]
  /\ faults \in Nat

\* No item is passed over: every item behind the committed cursor is stored, or
\* a run was told by the node that it cannot have it.  This needs no exclusion:
\* overlapping runs, faults and crashes leave no gap.
NoGap == Start .. cursor - 1 \subseteq stored \cup lost

\* The cursor of a job whose runs exclude each other never moves back, not even
\* when the node that is asked lags behind the cursor.
CursorNeverBack == [][cursor' >= cursor]_cursor

\* The run of a job whose runs exclude each other works on from the committed
\* cursor up to the end of its transaction: what it read stays true across its
\* awaits.
CursorIsFresh ==
  \A r \in Run : pc[r] \in {"readHead", "crawl", "connect"} \cup InTx => plan[r].from = cursor

\* When runs exclude each other, they implement the indexer.
I == INSTANCE Indexer
ImplementsIndexer == I!Spec

\* The job catches up with the chain: whatever faults, crashes, lagging nodes
\* and overlapping runs came, once the process stays up the cursor reaches the
\* end of the chain for good.
CatchesUp == <>[][~Crash]_vars => <>[](cursor >= head)

-----------------------------------------------------------------------------
(***************************************************************************)
(* The inductive invariants.                                               *)
(***************************************************************************)

Planned == {"crawl", "connect"} \cup InTx
Crawled == {"connect"} \cup InTx

\* A run has read a cursor that NoGap held for, and its chunk begins there.
PlanIsSound(r) ==
  /\ pc[r] \in {"readHead"} \cup Planned =>
       Start .. plan[r].from - 1 \subseteq stored \cup lost
  /\ pc[r] \in Planned => plan[r].from < plan[r].to /\ plan[r].to <= head
  /\ pc[r] \in Crawled =>
       /\ plan[r].got \subseteq Items(r)
       /\ LeavesOut \/ plan[r].got = Items(r)

\* Inductive, whether runs exclude each other or not.
CursorInv == NoGap /\ \A r \in Run : PlanIsSound(r)

\* Inductive when runs exclude each other.
Alone == \A r, q \in Run : pc[r] # "idle" /\ pc[q] # "idle" => r = q
ExclusiveInv == Alone /\ CursorIsFresh
=============================================================================
