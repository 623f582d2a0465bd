# A verification of the indexer: its scheduler, its jobs, its API

The repository is a DeFi indexer built on NestJS, TypeORM, MySQL and ethers. It
runs as two processes that share one database: an HTTP API (`src/src/main.ts`)
and a scheduler (`src/src/main-scheduler.ts`). The scheduler holds one cron job
per protocol and task; each tick reads the chain through a random node and
writes tables the API reads. This directory holds TLA+ models of the scheduler,
of its jobs and of the API's requests, the TLC configurations that check them,
and theorems about them that TLAPS checks. Every definition is mapped to its
lines in `PROJECT.json`.

How to run: `tlc -config X.cfg M` for a run of `PROJECT.json`, `tlapm M.tla` for
a `*Proofs` module.

## 1. The system

### Components

| Component | State | Operations | Module |
|---|---|---|---|
| Scheduler life cycle: `scheduler-job.base.ts`, `.service.ts`, `.registry.ts`, `main-scheduler.ts` | table `scheduler` (status, process, error, cron); in memory the registry, each job's timer and its `cron` | construct, `start`, tick (`processWork`: `checkState`, mark, `run`, clear, error handler) | `SchedulerJob` |
| Interaction jobs: `template/interaction.template.ts`, 4 subclasses | `scheduler.block_number`, table `interaction` | `run`: next 10 blocks, in one transaction with the cursor | `CursorRun` |
| Pair jobs: `template/pair.template.ts`, 13 subclasses | `scheduler.pid`, table `token` | `run`: next 10 pairs of an AMM factory; `doTask` sorts their tokens | `CursorRun` (`run`), `PairTask` and `TokenRun` (`doTask`) |
| Token price jobs: `template/price.template.ts`, 3 subclasses | `token.price_value` | `run`: chunks of tokens, a transaction each | `PriceJobs`, `TokenRun` |
| NFT jobs: `template/nft.template.ts`, 7 subclasses | `scheduler.pid`, table `nf_token` | `run`: next 10 tokens; the cursor outside of the transaction | `NFTRun` |
| Farm jobs: `template/farm.template.ts`, 11 subclasses | table `farm` | `run`: for every pool register, refresh, or disable, in a transaction each | `FarmJobs`, `FarmRun`; farm 2 of PancakeSwap: `PoolRun` |
| Lending job: `venus-job.bsc.lending.service.ts` | table `lending` | the same for markets | `LendingMarket`, `PoolRun` |
| Connection pool (MySQL driver) | idle connections; of each its open transaction, snapshot and locks | hand out, take back, statement, start, commit, roll back | `ConnectionPool`; counted only in `NFTRun`, `FarmRun` |
| Wallet API: `wallet.service.ts` | none | token balances, farms, NFTs, lending markets of a wallet | `Requests` |
| Protocol clients: `src/src/defi` | none | put a batch of calls together, take its replies apart | `FarmJobs`, `LendingMarket`, `WalletClients` |
| Swap search: `swap.service.ts` | the exchanges, read at start | reserves of all pairs, best trade of each exchange | `SwapSearch`, `Requests` |
| Interaction API: `interaction.controller.ts` | table `interaction` | add, delete | `Requests` |
| `MultiCall.sol` and `batch-contract.ts` | none | the views a batch is made of | `MultiCall` |
| Repositories, `array.ts` | the tables | searches with filters and pages; list helpers | `Searches` |
| Errors: `common/exceptions` | none | `errorHandler` maps a message to a code and a level | levels in `SchedulerJob` |
| Nodes: `network.service.ts` | none | `provider`: a random node | lagging answers in `CursorRun`, `NFTRun`, `FarmRun` |

### How they interact

    main-scheduler -> start(): find enabled rows; clear every `process`; arm the timers
    timer -> processWork: look the row up; mark it; run; clear the mark
                               |                |
                           scheduler table      chain (random node) -> transaction:
                                                rows of the job + its cursor
    pair jobs -> token <- price jobs;  token -> farm and lending jobs
    request -> interaction, token, farm, ... -> one batch per chain or protocol -> answer

`run` reports by returning, by rejecting with an `Exception` (Normal or Fatal)
or by rejecting with something else. The life cycle and the job share one row of
`scheduler`: the life cycle uses `process`, `status`, `error` and `cron`, the job
its cursor. Operators edit the same rows by hand. All jobs of the process share one
pool of connections, and all requests read what jobs, operators and other
requests write meanwhile.

### What is hard, and what makes each part correct

- *Ticks overlap.* The cron package does not wait for `processWork`, and every
  await lets other ticks in. `process` is looked up at one await and set at a later
  one. Correct: one run of a job at a time; a mark that always has an owner; a job
  taken out stays out and is reported.
- *The process dies* at any await, and on Node 15 or later does so on any unhandled
  rejection, which several paths of `processWork` produce. Correct: the next
  `start` makes a consistent table of what was left.
- *Runs fail half-way*: nodes that lag, batches with errors, connections that
  are not there, statements, commits and rollbacks that fail, commits whose
  answer is lost. Correct: no item is passed over, the cursor never moves back,
  the job catches up, a failure stays with the pool it happened in.
- *Connections are few, and remember.* A run that keeps one starves every other job; one
  that gives one back inside of a transaction leaves its rows and locks to whoever comes
  next. Correct: every way out of a run gives the connection back; what was written is
  committed in the end, and only whole.
- *Jobs share tables.* Two exchanges have pairs of the same tokens; three price jobs
  price from each other's prices. Correct: no pair is passed over, no order of the jobs
  leads to the `TypeError`, a lost call costs a price for a while only.
- *A batch loses calls.* Replies are told apart by position alone. Correct: each item
  carries its own replies, and what was not answered counts as nothing.
- *The world moves between two awaits of a request.* Correct: what was there all the
  time is shown.

The list of hazards with their lines, and the properties that would catch each, is in
`PROJECT.json`.

## 2. The modules

| Module | What it is |
|---|---|
| `SchedulerJob`, `MCSchedulerJob`, `SchedulerJobProofs` | the life cycle: one action per await of a tick, the start of the process, crashes, operators |
| `Indexer` | the abstract specification of a cursor job: it passes the items of the chain in order and stores them |
| `CursorRun`, `CursorRunProofs` | `run` of the interaction and the pair jobs, one action per await; that it implements `Indexer` |
| `ScheduledCursor`, `ScheduledCursorProofs` | composition: the runs of `CursorRun` as the work of a job of `SchedulerJob`; that it keeps to both, and discharges the assumption of `CursorRun` |
| `NFTRun`, `NFTRunProofs` | `run` of the NFT jobs, with the number of connections |
| `FarmJobs` | operators: what tells the ten jobs of a MasterChef contract apart |
| `FarmRun`, `FarmRunProofs` | the run those jobs share |
| `ConnectionPool` | the pool: connections with their transactions |
| `LendingMarket` | operators: what the client of Venus makes of a market, and its figures |
| `PoolRun`, `MCPoolRun`, `PoolRunProofs` | composition: farm 2 and the lending job on one pool |
| `MultiCall` | operators: the contract a batch is answered by |
| `PairTask` | operators: `doTask`, on sets of addresses |
| `PriceJobs` | operators: the figures of the price jobs |
| `TokenRun`, `MCTokenRun`, `TokenRunProofs` | composition: pair jobs and price jobs on the table `token` |
| `Searches` | operators: what the API asks the database, pages included; the list helpers |
| `WalletClients` | operators: the calls and answers of each client, for a wallet |
| `SwapSearch` | operators: pairs, reserves and the best trade |
| `Requests`, `MCRequests`, `RequestsProofs` | a request to the API, from await to await, while others write |

### SchedulerJob

A job has a set of tick *slots*; `pc[j][s]` names the await tick `s` of job `j`
is at. A lookup is two actions (`Read`, then one of `DecideMissing`,
`DecideBusy`, `DecideCron`, `DecideWork`), because the row is looked at in the
continuation of the await; every update is one. `RunReturns`, `RunNormal`,
`RunFatal`, `RunRaw` are the four ways `await this.run()` ends. `Escape` is a
rejection that leaves `processWork`: it ends the process when `Exits`, else it
is remembered in the ghost `escaped`. `DeleteMissing` is `deleteCronJob` of a
job that is not there, which throws. `Crash` may happen at any time.

*Prompt* is the assumption under which the guard of `checkState` works: a tick's
lookup and mark are over before the job's next tick starts. Nothing in the code
enforces it, and it is plausible only because a tick is a second apart and the two
statements are short. Every property says whether it needs it.

### CursorRun and Indexer

Items are numbers; `head` is the length of the chain, `cursor` the committed
cursor, `stored` and `lost` the items committed runs have stored or left out
(a block whose response in the batch is an error, `interaction.template.ts:182`).
A run goes through `readCursor`, `readHead`, `crawl`, `connect`, `insert`,
`move`, `commit` and ends as "returned", "handled" (an `Exception`) or "raw".
A rollback of a transaction that was never started throws, so a failed `connect`
ends "raw", not "handled" (lines 193 and 203). `LeavesOut` and `ReadsInside`
tell the interaction template (TRUE, FALSE) from the pair template (FALSE, TRUE):
the first reads outside of its `try`. What a transaction has written is seen only
when it commits (`Take`); the one lock that matters, on the row of the job, is the
guard of `Move`. For a pair job, "stored" means that `doTask` has dealt with the
pair in that transaction; `TokenRun` says what that comes to.

`Indexer` has the same state without runs: `Grow` and `Advance`. `CursorRun`
implements it when runs exclude each other (`Exclusive`).

### ScheduledCursor

`SchedulerJob` extended, `CursorRun` instantiated with the ticks as its runs and
*without* its exclusion (`C`). `Call` is `Mark` and `Begin` together; `Over` is the
end of a run together with the step of `processWork` its outcome selects: an
`Exception` becomes `RunNormal` or `RunFatal`, the error of a driver `RunRaw`.
Everything else happens in one of the two modules. `X` is the same instance with
exclusion, and `RunsExclude` says that the first behaves like the second.

### NFTRun

`run` of `nft.template.ts`: `MovePid` updates the cursor through a second
connection before the commit; `End` gives no connection back; `copies` counts the
rows of an item, since `nf_token` has no unique index. A statement takes a
connection from the pool (`free`) and waits while there is none.

### FarmJobs and FarmRun

`run`, `registerFarm` and `refreshFarm` are written out ten times in the repository.
`FarmRun` is the text they share, after `pancake-swap-job.bsc.farm.service.ts`; `FarmJobs`
has an operator per job where the copies differ: what the client makes of a batch that
lost calls (`GetFarmInfos`), where the loop goes with a pool (`Served`: the strategy of auto
farm and the rewarders of ape and sushi on matic are checked first), whether a pool is
registered (`Registers`), and its apr (`Figure`): the reward times the pool's share of the
total, over the liquidity. Each is zero, some number, or odd (Infinity or NaN, which `isZero`
does not take for 0); both quotients are there, the share (`Allocated`), which no job checks,
and the apr itself, which all but auto check.

The pools are numbers; `info` is what the run heard of each at its start, `at` the pool it
serves. A run asks the chain twice before the loop, each time a random node: `Crawl` for the
pools, `GetFarmState` for the total and the reward. So it may hear of an active pool beside a
total of 0. A pool goes through `find` and then nothing, `disable`, or `check`, `connect`,
`register`, `refresh`, `update`, `commit`, `release`. `mine` is what the open transaction has
written of the row; `Applies` publishes it. `Look` and `Update` are two actions because
`refreshFarm` asks the chain between reading `status` and writing `status: true`, which is
where an operator can be overruled. A failure outside of the transaction is `Unserved`, one
inside goes to `rollback`; a rollback that throws leaves the loop through `finally`
(`Abandon`). Three are history variables: `left`, since nothing in the code remembers a pool whose
stake token is unknown; `heard` and `torn`, which tell whether the two answers were of one state
of the chain.

### ConnectionPool and PoolRun

`conn[c]` is what the server keeps for a connection: is a transaction open, its snapshot
(`view`), the rows it has written (`rows`). The pool hands out the connection that has been
idle longest and asks nothing when it takes one back, so a transaction that is open then
stays open. `StartTransaction` commits it, as START TRANSACTION does; a statement outside of a
transaction (`Passing`) becomes part of it. `Seen` is what a SELECT sees, `Current` what an
UPDATE does, `Locked` when it waits.

`PoolRun` has the two jobs that meet there. Farm 2 of PancakeSwap ends a pool with
`Farm2Release` and no commit; its `return` for a missing pool is `Farm2Returns`. The lending
job commits. A row is kept with the figures it was written with; `done` remembers, per row,
the last write of a unit that reported no failure. `MarketFigures` are the sixteen figures of
`refreshLendingMarket()` on whole tokens, `GetLendingMarketInfos` what is left of eight calls
some of which were lost: a lost `underlying` names the native coin, a lost `markets` is the
null no field can be read of.

### PairTask, PriceJobs and TokenRun

Addresses are tokens, pairs, addresses without a contract (`NoCode`), or contracts that break
the batch they are asked in (`Weird`, by `safePairInfo`, see `MultiCall`). `PairTask` has
`doTask` as a pipeline of set operators, named as the methods are: `Grouping`,
`RemoveRegistered`, `RemoveInvalid`, `CheckMulti`, `GetTokenInfos`, and the two passes of
`createMultiTokens` (`FirstRows`, `SecondRows`, and `IsUndefined`, the `TypeError` of line 425).
`TokenRun` has the awaits at which the jobs meet the table: the lookup outside of the
transaction, INSERT IGNORE that waits for rows others have not committed, the commit that
publishes rows and cursor together. A price job reads its tokens once (`StartPrice`), then
crawls and updates batch by batch (`Crawl`, `BulkUpdate`). Operators turn rows off and on
(`SetStatus`); a pair with a token that is off gets no row, and the cursor passes it: `passed` is a
history of those (`TurnedAway`). Prices are zero or positive, and a
division by zero is "inf" or "nan" until `Bounded` makes zero of it.

### MultiCall, Searches, WalletClients, SwapSearch and Requests

A reply is `[success, data]`, the data a set of at most one value: `{}` are empty bytes. Each
client has its calls (`<Client>FarmCalls`) and what it makes of the replies
(`<Client>FarmWalletInfo`): the batch is `flat()`, the replies are cut with
`ToSplitWithChunkSize` and put beside the rows with `Zip`, exactly as in the code, so the
position of a reply is all there is. Amounts are pairs of the number and the token whose
decimals it is divided by. `Searches` has the searches as they are in SQL: the farm search is a
join with the reward tokens, a page counts the joined rows. `filter()` is `Filter`, of a list and
the places that stay, `flat()` is `Flat`. A swap goes over one, two or three pairs: `Longer`
takes ways one pair further.

`Requests` has one request, of one of five kinds, from await to await; what it does for several
chains, protocols or contracts at once (`Promise.all`) are its tasks, which go on independently;
one that fails fails the request. Meanwhile operators switch rows (`Switch`), interactions come
and go (`AddInteraction`, `FindInteraction`, `DeleteInteraction`), and the chain changes (`Move`,
`Receive`, `Send`). `replied` and `lost` record what calls were answered, `kept` what has been
there ever since the request began; the properties compare the answer with these.

## 3. The runs

| Run | Bounds | What it shows |
|---|---|---|
| `sched_prompt` | 1 job, 1 orphan row, 2 ticks, 2 edits, 2 starts, failing statements, Node 15 | with Prompt: exclusion, marks, jobs that are taken out stay out |
| `sched_overlap` | 1 job, 1 orphan, 2 ticks, 1 edit, 2 starts, fair, without Prompt | marks have owners, Fatal errors are recorded; work recurs, an edited cron is followed, orphans are disabled |
| `sched_doc_marked` | 1 job, 2 ticks, no edits | violation: `process` is false while a tick works |
| `cursor_overlap` | 2 runs, chunk of 2, 5 items, 2 faults, any number of crashes, fair | overlapping runs leave no gap and catch up |
| `scheduled_prompt` | 1 job, 2 ticks, 4 items, 1 fault, 1 edit, 2 starts, fair | the scheduler provides the exclusion; the runs implement `Indexer`, never move the cursor back, and get to the end of the chain |
| `nft_runs` | 2 runs, chunk of 2, pool of 4, 5 items, 3 faults, fair | no duplicates, bounded loss, progress while the pool lasts |
| `nft_doc_working` | 1 run, pool of 2, no fault | violation: a run that never returns |
| `farm_runs` | ten jobs, 2 pools, pool of 1 connection, 1 edit, 1 fault, fair | failures stay with their pool, rows are never bare, an apr that is no number needs a run that heard of two states of the chain (in the jobs that test both amounts), connections go back, off stays off, pools are registered and disabled in the end |
| `pool_runs` | 3 connections, 2 pools, 1 market, 3 runs, 1 fault, 1 change | what farm 2 leaves on a connection is neither lost nor committed in part |
| `token_runs` | 2 exchanges with 2 and 1 pairs, 4 compositions, 2 jobs in flight, 1 fault, 1 edit, fair | no pair of two tokens is passed over unless one was off when the run looked, the `TypeError` needs a pair of a pair in one chunk, fed prices stay and the others heal |
| `token_doc_weird` | the same, no fault, no edit | violation: a contract that breaks the batch ends the run |
| `requests` | 22 farms of 11 clients, 4 tokens on 2 chains, 4 NFTs of 2 protocols and 4 contracts, 2 markets, 2 exchanges with 6 pairs; 1 fault, 1 write of others | answers are about the items they name, hide nothing that was there all the time, and no exchange's better trade |

*Why the bounds are enough.* Two ticks are the least that can interfere, and the
invariants of overlap speak of pairs of ticks; the theorems below hold for any
number. A chunk of 2 over 5 items gives full chunks, a short last one and
a chunk that ends exactly at the head. Two pools
are a pool and one behind it, which must not suffer; with a single connection the first
one that is kept stops the run. Two or three faults let a fault hit the
handling of a fault (a rollback that fails, a crash of a retry); where one is enough, each
kind of it is tried at each await, and in `farm_runs` the rollback after it may fail as well. Two starts give a
restart after a death at any await. Crashes are not bounded in `CursorRun`: it
returns to known states. In `pool_runs` three connections are one for each job and one
for the statements beside them, so that a dirty one comes to each of the three; three runs
let farm 2 meet its own leavings and the lending job's. In `token_runs` the compositions are a
pair of a pair, a pair of one that is passed over, the same two tokens on both exchanges, and a
contract that breaks the batch; `MaxFlight` bounds the jobs in flight together, not which. In
`requests` each batch has at least two rows, whose replies all differ (`MCWorth`), so that a
reply in the wrong place is a wrong answer; requests share nothing but the database and the
chain, so one per behaviour is enough, with the writes of the others as writes of the
environment. Every bound is a constant `Max...` in a guard of its own.

Deadlock is checked in `cursor_overlap` and `farm_runs`. The scheduler may stop (it goes
down after `MaxBoots` starts, or no timer is armed), the composition with it, the NFT job
stops when its pool is empty, which `nft_doc_working` is about, a request ends, and the jobs of
`pool_runs` and `token_runs` come to the end of their rounds and pairs; those runs say
`CHECK_DEADLOCK FALSE`.

*Fairness.* Weak fairness of every step of a tick and of `Fire`: an armed timer of
the cron package fires for ever, and the database and the nodes answer or fail;
`run` ends. None of the environment: no edit, crash, restart, fault or new block has
to happen. In `CursorRun`, `Begin` is fair because the scheduler calls `run` again
and again (`WorkRecurs`); `ScheduledCursor` does not assume this but derives
progress from the fairness of ticks. `TokenRun` has strong fairness of the beginning of a
run, and only there: a timer that fires for ever begins a run in any case, but `MaxFlight`,
which is not in the code, disables it again and again. Liveness is for what lasts: `WorkRecurs`,
`CronIsFollowed` and `IndexCatchesUp` speak of a job that is `Alive`, `CatchesUp` of
a process that crashes finitely often, `PricesHeal` of rows that stay on. The faults are bounded
there: nothing can be promised of a node that always fails. `PoolRun` and `Requests` state no
liveness: each of their steps answers or fails by itself.

### Findings

- `process` does not mean what `scheduler-job.base.ts:131` says (`sched_doc_marked`).
- The NFT jobs never release their connection; the run that takes the last one
  waits for ever for a second (`nft_doc_working`).
- A contract that breaks the batch is not set aside as `pair.template.ts:213` says, since
  the promise of line 185 is returned without an await (`token_doc_weird`).

Not checked as a violation, since nothing in the repository says otherwise, but
visible in the models: a row stays marked after a Fatal error until the next
start; a block the node has an error for is lost for good (`lost`); a fault
between the NFT job's cursor update and its commit loses the chunk; farm 2's rows wait on a
connection for somebody else's statement to commit them, and die with the process; a market may
be registered under the native coin, or twice; a total of 0 beside a pool heard active leaves
Infinity or NaN in `farm.apr`, in every farm job, auto's leaves one for an empty pool as well, and
the reward of sushi on matic is NaN always; a lost `poolAddresses` call disables an active pool of
bakery; a Normal error turns a job on that an operator has turned off. The notes of the hazards
say which of these each is.

## 4. The proofs

All theorems hold for every value of the constants under the named assumptions on
them (`ConstantsAssumption`, `CursorAssumption`, `ScheduledAssumption`,
`NFTAssumption`, `FarmAssumption`, `PoolRunAssumption`, `TokenRunAssumption`,
`FeedAssumption`, `TablesAssumption`, `ScenesAssumption`), which are the types of the constants
and that chunks, pools and the connection pool are not empty. Five say more. `AddressAssumption`: an address is one kind of
thing, a token or a pair or neither, and the zero address is none of them.
`TokenRunAssumption`: two exchanges have no pair in common, since each factory deploys its own.
`PoolRunAssumption`: the pool lists each connection once. `TablesAssumption`: a row is known by
its name, a farm is of a client of its protocol, an NFT or a market of a protocol that serves
NFTs or lending. `ScenesAssumption`, of what a request may find: a call that answers something
answers more than 0, a wallet has no NFT of a contract twice, reserves are natural numbers or
not there.

**SchedulerJob.** `TypeCorrect` first. *With Prompt*, `WorkExcludesWork` is not
inductive: a tick that has looked the row up may pass it later. `PromptInv` adds that
at most one tick is between lookup and mark (`OneLooks`), that no tick has passed or
will pass the check while another owns the mark (`OwnerIsAlone`), that the owner's
row is marked and its job registered (`OwnerIsMarked`), and that a job out of the
registry has no timer and a marked row (`UnregisteredIsMarked`), which is why a
late tick finds it busy. From it follow `MutualExclusion`, `WorkIsMarked`,
`UnregisteredStops` and `DisabledStays`. *Without Prompt*, `RecordInv` gives
`MarksAreOwned` and `FatalsAreRecorded`.

**CursorRun.** `NothingSkipped` needs no exclusion. Its invariant `CursorInv` says of
each run that everything before the cursor *it has read* is dealt with, and that its
chunk begins there and is as long as planned: a stale cursor is harmless since
`stored` never shrinks. With `Exclusive`, `ExclusiveInv` (one run in flight, its cursor
the committed one) gives `CursorStaysFresh`, `NeverBack` and, together with
`CursorInv`, `Implements`: every step is a step of `Indexer` or a stutter.

**ScheduledCursor.** `LifeCycle`: every behaviour of the composition is one of
`SchedulerJob`, so its theorems hold here. `WorkIsRunAlways`: a run is in flight exactly
when a tick is at work. With Prompt, `RunsAreExclusive` combines the two: mutual
exclusion of ticks is the guard of `X!Begin`. `IndexesAlways` then follows from
`Implements` for the instance `X`. This is the assumption of `CursorRun` discharged.
`NeverBackAlways` and `CursorStaysFreshAlways` carry the other two over.

**NFTRun.** `NothingStoredTwice` rests on `OnceInv`: for exclusive runs no item from the
cursor on is stored, and a run whose cursor is moved has not stored its chunk yet.
`FaultsLoseAChunkEach` counts what is `Missing` behind the cursor. What a run may still commit
is not missing, so moving the cursor costs nothing; the fault that ends such a run adds its
chunk (`OneChunkMore`), which `LossInv` bounds by `ChunkSize`.

**FarmRun.** `BaseSafety`: types, connections and the place in the loop together, since
`free` is in its range only because `PoolIsWhole` holds. `FarmInv` then says of every await
what the run may still rely on: a row it found is still there and one it missed still
missing (`FoundInv`: only runs add rows), a row it has added is filled before the commit
(`FillInv`), and every pool it has passed is accounted for (`AccountInv`). `NoBareRow` and
`EveryPoolIsAccounted` follow. `HeardInv` is about the two answers: a client calls a pool active
only if its node does, so as long as both answers are of one state of the chain there is no total
of 0 beside an active pool, and a connection is taken for active pools only (`ActiveIsServed`); a
case for each job then gives `OddIsTorn`. `OffIsForever` is a
theorem of the form `[](P => []Q)`: `StaysOff(p)` holds of an idle state with `p` off and is
kept by every step, because `Look` stops at such a row and `Register` cannot meet it.

**TokenRun.** `FeedPricesStay` rests on `FeedInv`: neither of the jobs that compute a price has
a token with a feed to do, and every figure that is on its way for such a token is positive, so
the update writes nothing else. `PairsAreKept` and `UndefinedOnlyNested` follow from `TokenInv`,
which follows the data of `doTask` from await to await. `RowsInv`: rows that are not committed
are of one exchange only, and its pairs of its own chunk; this is what the second exchange waits
for at INSERT IGNORE. `FreshInv`: what of the chunk was not taken for new is committed, which
stays true because rows never go. `TaskInv`: what was new is among the pairs, the single tokens or the
invalid ones that `doTask` made of it. `SinglesInv` and `MultisInv`: after each of the two
inserts the exchange sees those rows, whoever inserted them, or has turned the pair away for a
token it saw to be off. Operators may turn rows off and on at any await. Nothing is assumed about the order
of the jobs or the number of exchanges.

**PoolRun.** `WritesAreKept` and `CommittedRowsAreWhole` follow from `PoolInv`, for any number of
connections and rows. `HeldInv` and `OpenInv` say who has which connection: a run has one from
startTransaction() to release(), with its transaction open, and nobody else has it. On all the
others (`Settled`: the idle ones, and the one farm 2 is about to give back) there is nothing, or the
last write of a row that reported no failure (`DoneInv`), so whoever commits such a connection,
by START TRANSACTION, commits that. `Farm2Inv`: between its insert and its update farm 2 has written the row
it is at and no other; the update finds that row, since it is on, and so never releases it bare.
`LendingInv`: the lending job has the lock of its row when it commits, so nothing that waits
elsewhere is overwritten by an older write. `RowTypes` and `Shape` are the types.

**Requests.** `AmountsStayOwn`, `NothingGetsHidden` and `NothingMuchBetterGetsHidden` follow from
`RequestsInv`, for tables, batches, queries and wallets of any size. None of the three is inductive: they
speak of a request that is answered. `TasksInv` says what each task in flight is about: rows of
its own client, chain or protocol, replies that are told of its own calls. `ItemsInv` is
`AmountsAreOwn` for the items that are there before the answer is complete. `WayInv` says that
what is worth something is shown or on its way, at each await in another place: among the
addresses interacted with, in the rows of a task of its client, under a place of the wallet that
`tokenOfOwnerByIndex` is still to be asked for. The last is the delicate one: a `Send` between the
two calls takes an item to another place, and the proof shows that one that stays goes to the
front only (`OwnedMoves`). `WorldInv` relates `kept` to what is there. Underneath are lemmas about
lists: what `flat()`, `filter()`, a page and `GetMany` keep (`Flattened`, `Filtered`, `Paged`,
`GotMany`); that a batch of equally many calls for each row, cut again, has beside each row the
replies to its own calls (`Batched`); that what is nowhere twice is not twice in the flat list
(`FlattenedOnce`), so a pair's reserves are asked for once and `GetProtocolPairs` gives each
exchange its own (`PairsFound`). For the clients, the number of calls is a case for each
(`FarmCallsAre`): this is where a batch of three calls cut in twos would fail. For a swap,
`OutputWithin`: a pair gives no more than it has, so the ways have a largest output and the SDK's
search an answer (`TradeOver`); `BestTradeIs`: the better one of two offers, if "better" means half a
percent, is at most that much worse than the best over three pairs. The induction
that these need is over sets of natural numbers (`NatSetInduction`).

*Only model-checked*: liveness (`WorkRecurs`, `CronIsFollowed`, `OrphanIsDisabled`,
`CatchesUp`, `IndexCatchesUp`, `ActiveIsRegistered`, `EndedIsDisabled`, `PricesHeal`), which the
prover's backends do not reach, and the three properties runs find violated. Every invariant and
every safety property that a run finds to hold is a theorem. Paging is proved about only as far as the
theorems need it: `AmountsStayOwn` holds of any page, `NothingGetsHidden` of requests without one.

## 5. What is abstracted or left out

- Prompt, as above. Without it the exclusion fails (`sched_doc_marked`).
- Rows of `scheduler` deleted by an operator: in `SchedulerJob`; in
  `ScheduledCursor` not the row of the indexed job, whose cursor would go with it.
- Row locks between the life cycle's updates and a job's transaction: the
  updates would wait; nothing is lost.
- Reorganisations of the chain: the code has no notion of them, an item keeps
  its content. A node that lags is a fault that returns any earlier length.
- The pool of connections of `NFTRun` and of `FarmRun` is that job's alone and has no memory;
  `PoolRun` is about a pool that is shared and remembers. Crashes are not in `PoolRun`: with
  the process goes what waits on its connections.
- Overlapping runs of a farm, a lending, a pair or a price job: there is one in flight, as
  `ScheduledCursor` shows for prompt ticks.
- Amounts: the total, the reward and the liquidity of a farm are zero or not, what is divided by
  them may be neither; prices zero or positive, the
  figures of a market integers; decimals only as the token they belong to. So the arithmetic of
  BigNumber is not checked beyond what a division by zero does.
- `total_supply` in the price jobs; the connection their `bulkUpdate` keeps when
  `startTransaction` fails.
- Which transactions of a block are contract calls, what an NFT's metadata says: one item,
  stored or not.
- In `Requests`: balances of the native coin on chains other than the two; counts of items; the
  checks of addresses and chain ids; the cache of answers (`app.module.ts:49`), which is a
  library's. A swap's input is one amount, its bases belong to its chain.

*Not modelled*: log output (`SchedulerLoggerDTO`), Swagger, validation of DTOs, configuration,
migrations, seeds other than as initial states, ABIs (`pair.ts`, `erc20.ts`, most of
`batch-contract.ts` as far as it wraps views nothing above calls), and the clients of exchanges
that have no farm job, which are constants and one-line views: no property depends on them.

## 6. What is left

1. Crashes in `PoolRun`, and its pool under `SchedulerJob`: the lookup of `process` through a
   connection with an old snapshot.
2. The price jobs' `total_supply` and several chains in one run.
3. The ERC721 views of `MultiCall.sol` with the NFT job's decoding.
4. Proofs: the invariants of the modules above once they are extended; liveness stays with TLC.
