-------------------------------- MODULE TokenRun --------------------------------
(***************************************************************************)
(* The jobs that share the table `token`: the pair jobs of the exchanges   *)
(* of a network, which add the rows, and the three price jobs, which keep  *)
(* their price.  Nothing keeps the jobs apart but the database: a row that *)
(* is inserted and not committed makes another insert of it wait.          *)
(*                                                                         *)
(* CursorRun has the awaits of `run` around doTask; here a pair job has    *)
(* those at which it meets the table.  A job does not overlap itself       *)
(* (ScheduledCursor).                                                      *)
(***************************************************************************)
EXTENDS PriceJobs

CONSTANTS
  Dex,           \* exchanges, each with its pair job
  Pairs,         \* Pairs[d]: the pairs of the factory, in order
  Compositions,  \* what the pairs may be composed of
  PairChunk,     \* pairs of one run
  PriceChunk,    \* tokens of one batch of a price job
  MaxFlight,     \* bound: jobs in flight together
  MaxFaults,     \* bound: faults
  MaxEdits       \* bound: edits of an operator

ASSUME TokenRunAssumption ==
  /\ Pairs \in [Dex -> Seq(Lp)]
  /\ \A d, e \in Dex : \A i \in DOMAIN Pairs[d], k \in DOMAIN Pairs[e] : Pairs[d][i] = Pairs[e][k] => d = e
  /\ Compositions \subseteq [Lp -> Address \X Address]
  /\ PairChunk \in Nat \ {0} /\ PriceChunk \in Nat \ {0}
  /\ MaxFlight \in Nat /\ MaxFaults \in Nat /\ MaxEdits \in Nat

VARIABLES
  composed,  \* chain: the components of the pairs
  known,     \* table: the addresses with a row
  on,        \* table: those with status true
  price,     \* table: the price of each row
  passed,    \* history: the pairs that were turned away, for a token that was off
  cursor,    \* table: scheduler.pid of each pair job
  pc,        \* pc[d]: where the run of pair job d is, or how it has ended
  to,        \* to[d]: ePid of the run
  fresh,     \* fresh[d]: the addresses it has found without a row
  task,      \* task[d]: what it knows of them
  mine,      \* mine[d]: the rows it has inserted, those with status true, and the pairs
             \*   it has turned away
  step,      \* step[j]: where the run of price job j is
  todo,      \* todo[j]: the tokens it has read and not updated yet
  seen,      \* seen[j]: the prices it has read
  figures,   \* figures[j]: the updates of the batch it is at
  faults,    \* bound: counts the faults
  edits      \* bound: counts the edits

table == <<known, on, price, passed>>
pairRun == <<cursor, pc, to, fresh, task, mine>>
priceRun == <<step, todo, seen, figures>>
bounds == <<faults, edits>>
vars == <<composed, table, pairRun, priceRun, bounds>>

NoTask == [multi |-> {}, single |-> {}, invalid |-> {}, ok |-> {}]
NoRows == [rows |-> {}, on |-> {}, off |-> {}]
NoFigures == [t \in {} |-> "zero"]

InTask == {"lookUp", "classify", "singles", "multis", "commit"}
\* "failed": a statement; "lost": a call of the batch; "reverted": a contract
\* that breaks the batch; "undefined": the TypeError.
Ended == {"failed", "lost", "reverted", "undefined"}

Chunk(d) == {Pairs[d][i] : i \in cursor[d] + 1 .. to[d]}
Grouped(d) == Grouping(composed, Chunk(d))

Init ==
  /\ composed \in Compositions
  /\ known = Feed /\ on = Feed
  /\ price = [a \in Address |-> "zero"]
  /\ passed = {}
  /\ cursor = [d \in Dex |-> 0]
  /\ pc = [d \in Dex |-> "idle"]
  /\ to = [d \in Dex |-> 0]
  /\ fresh = [d \in Dex |-> [multi |-> {}, single |-> {}]]
  /\ task = [d \in Dex |-> NoTask]
  /\ mine = [d \in Dex |-> NoRows]
  /\ step = [j \in PriceJob |-> "idle"]
  /\ todo = [j \in PriceJob |-> {}]
  /\ seen = [j \in PriceJob |-> {}]
  /\ figures = [j \in PriceJob |-> NoFigures]
  /\ faults = 0 /\ edits = 0

InFlight == Cardinality({d \in Dex : pc[d] \in InTask}) + Cardinality({j \in PriceJob : step[j] # "idle"})

Fault ==
  /\ faults < MaxFaults
  /\ faults' = faults + 1

-----------------------------------------------------------------------------
(***************************************************************************)
(* A pair job.                                                             *)
(***************************************************************************)
Goto(d, l, m) ==
  /\ pc[d] = l
  /\ pc' = [pc EXCEPT ![d] = m]

\* Everything a run knows, gone with it.
Forget(d) ==
  /\ to' = [to EXCEPT ![d] = 0]
  /\ fresh' = [fresh EXCEPT ![d] = [multi |-> {}, single |-> {}]]
  /\ task' = [task EXCEPT ![d] = NoTask]
  /\ mine' = [mine EXCEPT ![d] = NoRows]

\* Variant of Ends: the cursor is updated outside of the transaction.
EndsMoved(d, l, how) ==
  /\ Goto(d, l, how)
  /\ Forget(d)
  /\ cursor' = [cursor EXCEPT ![d] = to[d]]
  /\ UNCHANGED <<composed, table, priceRun, edits>>

\* The transaction is rolled back, the cursor stays.
Ends(d, l, how) ==
  /\ Goto(d, l, how)
  /\ Forget(d)
  /\ UNCHANGED <<composed, table, cursor, priceRun, edits>>

\* run() up to doTask: the chunk, its addresses, the transaction.
Begin(d) ==
  /\ InFlight < MaxFlight
  /\ pc[d] \in {"idle"} \cup Ended
  /\ cursor[d] < Len(Pairs[d])
  /\ pc' = [pc EXCEPT ![d] = "lookUp"]
  /\ to' = [to EXCEPT ![d] = IF Len(Pairs[d]) - cursor[d] > PairChunk
                               THEN cursor[d] + PairChunk ELSE Len(Pairs[d])]
  /\ UNCHANGED <<composed, table, cursor, fresh, task, mine, priceRun, bounds>>

\* A pair without an answer is an empty list (getAMMFactoryInfos), for KlaySwap
\* its components are null (getPairsInfo): neither is an address, which throws.
LosesAddress(d) ==
  /\ Fault
  /\ Ends(d, "lookUp", "lost")

\* The table is read without the transaction's manager.
RemoveRegisteredTokens(d) ==
  /\ Goto(d, "lookUp", "classify")
  /\ fresh' = [fresh EXCEPT ![d] = RemoveRegistered(Grouped(d), known)]
  /\ UNCHANGED <<composed, table, cursor, to, task, mine, priceRun, bounds>>

\* removeInvalidTokens(), checkMultiTokenInSinglePosition() and getTokenInfos(),
\* which ask the chain.
Breaks(d) == BreaksBatch(composed, RemoveInvalid(fresh[d]))

Classify(d, dumb) ==
  /\ ~Breaks(d)
  /\ Goto(d, "classify", "singles")
  /\ LET pure == CheckMulti(composed, RemoveInvalid(fresh[d]))
         ok == StatusOn(GetTokenInfos(pure.multi \cup pure.single, dumb))
     IN  /\ dumb \subseteq pure.multi \cup pure.single
         /\ task' = [task EXCEPT ![d] = [multi |-> pure.multi, single |-> pure.single,
                                         invalid |-> pure.invalid, ok |-> ok]]
  /\ IF dumb # {} THEN Fault ELSE UNCHANGED faults
  /\ UNCHANGED <<composed, table, cursor, to, fresh, mine, priceRun, edits>>

ClassifyThrows(d) ==
  /\ pc[d] = "classify" /\ Breaks(d)
  /\ Ends(d, "classify", "reverted")
  /\ UNCHANGED faults

\* INSERT IGNORE of `rows` waits for the rows other jobs have not committed.
Unlocked(d, rows) == \A e \in Dex \ {d} : mine[e].rows \cap rows = {}

Insert(d, rows, away) ==
  mine' = [mine EXCEPT ![d] = [rows |-> @.rows \cup (rows \ known),
                               on |-> @.on \cup ((rows \ known) \cap task[d].ok),
                               off |-> away]]

CreateSingleTokens(d) ==
  /\ Goto(d, "singles", "multis")
  /\ Unlocked(d, task[d].single)
  /\ Insert(d, task[d].single, {})
  /\ UNCHANGED <<composed, table, cursor, to, fresh, task, priceRun, bounds>>

\* Variant of SeenBy: the registered tokens are looked up inside of the
\* transaction, which from then on reads the snapshot of that moment.
SeenBySnapshot(d) == (Grouped(d).single \ fresh[d].single) \cup mine[d].rows

\* What the transaction of d sees: the first statement that reads comes after the
\* single tokens are in.
SeenBy(d) == known \cup mine[d].rows
OnBy(d) == on \cup mine[d].on

\* createMultiTokens(): both looks read from one snapshot.
Undefined(d) == IsUndefined(composed, task[d].multi, task[d].invalid, SeenBy(d), OnBy(d))

NewMultis(d) ==
  FirstRows(composed, task[d].multi, task[d].invalid, SeenBy(d), OnBy(d))
    \cup SecondRows(composed, task[d].multi, task[d].invalid, SeenBy(d), OnBy(d), task[d].ok)

\* The pairs that get no row because a token of theirs is seen to be off.
TurnedAway(d) == {x \in Chunk(d) : Components(composed, x) \cap (SeenBy(d) \ OnBy(d)) # {}}

CreateMultiTokens(d) ==
  /\ Goto(d, "multis", "commit")
  /\ ~Undefined(d)
  /\ Unlocked(d, NewMultis(d))
  /\ Insert(d, NewMultis(d), TurnedAway(d))
  /\ UNCHANGED <<composed, table, cursor, to, fresh, task, priceRun, bounds>>

CreateMultiTokensThrows(d) ==
  /\ pc[d] = "multis" /\ Undefined(d)
  /\ Ends(d, "multis", "undefined")
  /\ UNCHANGED faults

\* updateScheduler() and the commit: the rows and the cursor together.
Commit(d) ==
  /\ Goto(d, "commit", "idle")
  /\ known' = known \cup mine[d].rows
  /\ on' = on \cup mine[d].on
  /\ passed' = passed \cup mine[d].off
  /\ cursor' = [cursor EXCEPT ![d] = to[d]]
  /\ Forget(d)
  /\ UNCHANGED <<composed, price, priceRun, bounds>>

\* A statement or a call of the chain fails; so does an insert that waits too long.
Fails(d) ==
  /\ Fault
  /\ \E l \in InTask : Ends(d, l, "failed")

\* The contracts whose name may not come back, in a run that still may fault.
Dumb(d) == SUBSET (fresh[d].multi \cup (fresh[d].single \cap Token))

PairStep(d) ==
  \/ LosesAddress(d) \/ RemoveRegisteredTokens(d)
  \/ \E dumb \in Dumb(d) : Classify(d, dumb)
  \/ ClassifyThrows(d)
  \/ CreateSingleTokens(d)
  \/ CreateMultiTokens(d) \/ CreateMultiTokensThrows(d)
  \/ Commit(d) \/ Fails(d)

-----------------------------------------------------------------------------
(***************************************************************************)
(* A price job: run() and refresh() read the tokens once, then crawl and   *)
(* update batch by batch, each batch in a transaction of its own.          *)
(***************************************************************************)
Calls(j) ==
  CASE j = "chainlink" -> {"round", "places"}
    [] j = "multi" -> {"supply", "balance"}
    [] j = "single" -> {"target", "other"}

\* The multi job prices with the components as they were read with the token.
StartPrice(j) ==
  /\ InFlight < MaxFlight
  /\ step[j] = "idle"
  /\ GetTokens(j, on, price) # {}
  /\ step' = [step EXCEPT ![j] = "crawl"]
  /\ todo' = [todo EXCEPT ![j] = GetTokens(j, on, price)]
  /\ seen' = [seen EXCEPT ![j] = IF j = "multi" THEN {a \in Feed : price[a] # "zero"} ELSE {}]
  /\ UNCHANGED <<composed, table, pairRun, figures, bounds>>

SeenPrice(j) == [a \in Address |-> IF a \in seen[j] THEN "pos" ELSE "zero"]

\* The pairs the single job prices from, and those it may find the best.
Sources(t) == ConfiguredPairs(composed, t, on, price)

BestPairs(chunk) ==
  LET priced == {t \in chunk : Sources(t) # {}}
  IN  {best \in [priced -> Lp] : \A t \in priced : best[t] \in Sources(t)}

Crawled(j, chunk, lost, best) ==
  CASE j = "chainlink" -> CrawlChainLink(chunk, lost)
    [] j = "multi" -> CrawlMulti(composed, chunk, lost, SeenPrice(j))
    [] j = "single" -> CrawlSingle(composed, chunk, lost, best, price)

Crawl(j, chunk, lost, best) ==
  /\ step[j] = "crawl"
  /\ chunk \subseteq todo[j]
  /\ Cardinality(chunk) <= PriceChunk
  /\ chunk = todo[j] \/ Cardinality(chunk) = PriceChunk
  /\ lost \subseteq chunk \X Calls(j)
  /\ IF lost # {} THEN Fault ELSE UNCHANGED faults
  /\ step' = [step EXCEPT ![j] = "update"]
  /\ todo' = [todo EXCEPT ![j] = @ \ chunk]
  /\ figures' = [figures EXCEPT ![j] = Crawled(j, chunk, lost, best)]
  /\ UNCHANGED <<composed, table, pairRun, seen, edits>>

PriceRunEnds(j) ==
  /\ step' = [step EXCEPT ![j] = "idle"]
  /\ todo' = [todo EXCEPT ![j] = {}]
  /\ seen' = [seen EXCEPT ![j] = {}]
  /\ figures' = [figures EXCEPT ![j] = NoFigures]

BulkUpdate(j) ==
  /\ step[j] = "update"
  /\ price' = [a \in Address |-> IF a \in DOMAIN figures[j] THEN Bounded(figures[j][a])
                                 ELSE price[a]]
  /\ IF todo[j] = {} THEN PriceRunEnds(j)
     ELSE /\ step' = [step EXCEPT ![j] = "crawl"]
          /\ figures' = [figures EXCEPT ![j] = NoFigures]
          /\ UNCHANGED <<todo, seen>>
  /\ UNCHANGED <<composed, known, on, passed, pairRun, bounds>>

\* The batch or the update throws: the run ends, earlier batches stay.
PriceFails(j) ==
  /\ step[j] # "idle"
  /\ Fault
  /\ PriceRunEnds(j)
  /\ UNCHANGED <<composed, table, pairRun, edits>>

PriceStep(j) ==
  \/ \E chunk \in SUBSET todo[j] : \E lost \in SUBSET (chunk \X Calls(j)) :
       \E best \in (IF j = "single" THEN BestPairs(chunk) ELSE {NoFigures}) :
         Crawl(j, chunk, lost, best)
  \/ BulkUpdate(j) \/ PriceFails(j)

-----------------------------------------------------------------------------
\* An operator turns a row off, or on: one that was off, or whose contract did not
\* say its name.
SetStatus(a) ==
  /\ edits < MaxEdits
  /\ edits' = edits + 1
  /\ a \in known
  /\ on' = IF a \in on THEN on \ {a} ELSE on \cup {a}
  /\ UNCHANGED <<composed, known, price, passed, pairRun, priceRun, faults>>

Next ==
  \/ \E d \in Dex : Begin(d) \/ PairStep(d)
  \/ \E j \in PriceJob : StartPrice(j) \/ PriceStep(j)
  \/ \E a \in Address : SetStatus(a)

Spec == Init /\ [][Next]_vars

\* The timers of all jobs fire for ever, and what a run awaits ends.  Strong where
\* a run begins: MaxFlight, which is not the code's, holds it back.
FairSpec ==
  /\ Spec
  /\ \A d \in Dex : SF_vars(Begin(d)) /\ WF_vars(PairStep(d))
  /\ \A j \in PriceJob : SF_vars(StartPrice(j)) /\ WF_vars(PriceStep(j))

-----------------------------------------------------------------------------
\* Types, the jobs' rows and prices among them: whatever a division by zero
\* leaves, the table holds a number.
TypeOK ==
  /\ composed \in [Lp -> Address \X Address]
  /\ known \subseteq Address /\ on \subseteq known
  /\ price \in [Address -> Price]
  /\ passed \subseteq Lp
  /\ cursor \in [Dex -> Nat] /\ to \in [Dex -> Nat]
  /\ \A d \in Dex : cursor[d] <= Len(Pairs[d]) /\ to[d] <= Len(Pairs[d])
  /\ pc \in [Dex -> {"idle"} \cup InTask \cup Ended]
  /\ fresh \in [Dex -> [multi : SUBSET Address, single : SUBSET Address]]
  /\ task \in [Dex -> [multi : SUBSET Address, single : SUBSET Address,
                       invalid : SUBSET Address, ok : SUBSET Address]]
  /\ mine \in [Dex -> [rows : SUBSET Address, on : SUBSET Address, off : SUBSET Lp]]
  /\ \A d \in Dex : mine[d].on \subseteq mine[d].rows
  /\ step \in [PriceJob -> {"idle", "crawl", "update"}]
  /\ todo \in [PriceJob -> SUBSET Address] /\ seen \in [PriceJob -> SUBSET Address]
  /\ DOMAIN figures = PriceJob
  /\ \A j \in PriceJob : \A a \in DOMAIN figures[j] : a \in Address /\ figures[j][a] \in Figure

\* A pair behind the cursor, composed of two tokens, has a row, unless one of the
\* two was off when the run that passed it looked: neither a run that fails, nor an
\* exchange that adds the same tokens at the same time, nor an operator who turns a
\* token off or on between the awaits makes a pair job pass one over.
PlainPairsAreKept ==
  \A d \in Dex : \A i \in 1 .. cursor[d] :
    Components(composed, Pairs[d][i]) \subseteq Token => Pairs[d][i] \in known \cup passed

\* The TypeError of line 425 needs a pair of the chunk that is composed of another
\* pair of the chunk: no order in which the jobs add single tokens leads to it.
UndefinedIsNested ==
  \A d \in Dex : pc[d] = "undefined" =>
    \E x, y \in {Pairs[d][i] : i \in cursor[d] + 1 .. Len(Pairs[d])} :
      y \in Components(composed, x) /\ y \notin known

\* A price that comes from a feed stays: no job, and no call without an answer,
\* makes it zero again.
FeedPriceStays ==
  [][\A t \in Feed : price[t] = "pos" => price'[t] = "pos"]_vars

\* A lost call makes a price zero, and a pair without a price no longer serves to
\* price a token.  The jobs find back: in the end a token is priced by its pair with
\* a fed token, for as long as the rows are on.
Sourced(t, x) ==
  /\ {t, x} \subseteq on
  /\ \E w \in Feed \cap on : Components(composed, x) = {t, w}

PricesHeal ==
  \A t \in Token \ Feed, x \in Lp :
    <>[]Sourced(t, x) => <>[](price[t] = "pos" /\ price[x] = "pos")

\* What the comment at line 213 of pair.template.ts says of a contract that breaks
\* the batch: it is one of the invalid tokens, and not the end of the run.
WeirdIsSetAside == \A d \in Dex : pc[d] # "reverted"

(***************************************************************************)
(* The inductive invariant behind PlainPairsAreKept and UndefinedIsNested. *)
(***************************************************************************)

\* A row that is not committed is nobody else's, and only its own exchange adds
\* a pair.
RowsInv ==
  \A d \in Dex :
    /\ pc[d] \notin {"multis", "commit"} => mine[d] = NoRows
    /\ mine[d].rows \cap known = {}
    /\ mine[d].rows \cap Lp \subseteq Chunk(d)
    /\ \A e \in Dex \ {d} : mine[d].rows \cap mine[e].rows = {}

\* What the run took for new, and what it made of that.
FreshInv(d) ==
  pc[d] \in InTask \ {"lookUp"} =>
    /\ fresh[d].multi \subseteq Chunk(d)
    /\ Chunk(d) \subseteq known \cup fresh[d].multi
    /\ Grouped(d).single \subseteq known \cup fresh[d].single

TaskInv(d) ==
  pc[d] \in {"singles", "multis", "commit"} =>
    /\ task[d].multi = fresh[d].multi
    /\ fresh[d].single \subseteq fresh[d].multi \cup task[d].single \cup task[d].invalid
    /\ task[d].single \cap Lp = {}
    /\ task[d].invalid \cap Token = {}

\* The single tokens are there before the pairs, and these go with the commit.
SinglesInv(d) == pc[d] \in {"multis", "commit"} => task[d].single \subseteq SeenBy(d)

MultisInv(d) ==
  pc[d] = "commit" =>
    \A x \in Chunk(d) :
      Components(composed, x) \subseteq Token => x \in SeenBy(d) \cup mine[d].off

TokenInv ==
  /\ RowsInv
  /\ \A d \in Dex : FreshInv(d) /\ TaskInv(d) /\ SinglesInv(d) /\ MultisInv(d)
  /\ PlainPairsAreKept /\ UndefinedIsNested

\* A price job never has a token with a feed among its figures that is not priced.
FeedInv ==
  /\ \A j \in {"multi", "single"} : todo[j] \cap Feed = {}
  /\ \A j \in PriceJob : \A t \in Feed \cap DOMAIN figures[j] : figures[j][t] = "pos"
=============================================================================
