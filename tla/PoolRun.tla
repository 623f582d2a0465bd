--------------------------------- MODULE PoolRun --------------------------------
(***************************************************************************)
(* Two jobs on the connections of one process: farm 2 of PancakeSwap,      *)
(* which gives its connection back without a commit, and the lending job   *)
(* of Venus, which commits.  A job does not overlap itself                 *)
(* (ScheduledCursor).  What FarmRun says of the rest of a farm job, of     *)
(* statements that fail while a transaction is ended for one, is not said  *)
(* again here.                                                             *)
(***************************************************************************)
EXTENDS ConnectionPool, LendingMarket

CONSTANTS
  Order,      \* the order in which they are idle at first
  Farm2Pools, \* pools of farm 2 (networkPid)
  Market,     \* the markets, in order (getLendingAllMarkets)
  Underlying, \* their tokens
  Lost,       \* bound: what calls of a batch may get no answer, together
  MaxRounds,  \* bound: runs of both jobs
  MaxCopies,  \* bound: rows of one market and token
  MaxFaults,  \* bound: faults
  MaxEdits    \* bound: changes of the chain

Farm2Pid == 0 .. Farm2Pools - 1
MarketNo == DOMAIN Market
Farm2Key(p) == <<"farm", p, ZeroAddress>>
LendingKey(m, token) == <<"lending", m, token>>
RowKey == {Farm2Key(p) : p \in Farm2Pid}
          \cup {LendingKey(m, token) : m \in MarketNo, token \in {Underlying[n] : n \in MarketNo} \cup {ZeroAddress}}

ASSUME PoolRunAssumption ==
  /\ Key = RowKey
  /\ Order \in Seq(Conn) /\ \A c \in Conn : \E i \in DOMAIN Order : Order[i] = c
  /\ \A i, j \in DOMAIN Order : Order[i] = Order[j] => i = j
  /\ Farm2Pools \in Nat \ {0} /\ Underlying \in [DOMAIN Market -> STRING]
  /\ Lost \subseteq SUBSET MarketView
  /\ MaxRounds \in Nat /\ MaxCopies \in Nat \ {0} /\ MaxFaults \in Nat /\ MaxEdits \in Nat

VARIABLES
  over,     \* chain: the pools of farm 2 that are past their endBlock
  listed,   \* chain: the markets that are listed
  farm2,    \* the run of the farm 2 job
  lending,  \* the run of the lending job
  done,     \* history: the row as it was last written by what reported no failure
  faults,   \* bound: counts the faults
  edits     \* bound: counts the changes of the chain

chain == <<over, listed, edits>>
vars == <<pool, chain, farm2, lending, done, faults>>

\* A row without figures: createFarm(), createLending().
NewRow(copies) == [row |-> "there", on |-> TRUE, figures |-> {}, copies |-> copies]
There(row) == row.row = "there"

NoInfo == GetLendingMarketInfos([view \in MarketView |-> 0], MarketView)

Init ==
  /\ PoolInit(Order)
  /\ over = {} /\ listed \in SUBSET MarketNo
  /\ farm2 = [pc |-> "idle", round |-> 0, pid |-> 0, infos |-> 0, over |-> {}, found |-> FALSE, conn |-> {}]
  /\ lending = [pc |-> "idle", round |-> 0, market |-> 1, info |-> NoInfo, found |-> FALSE, conn |-> {}]
  /\ done = [k \in Key |-> Absent]
  /\ faults = 0 /\ edits = 0

Fault ==
  /\ faults < MaxFaults
  /\ faults' = faults + 1

\* c is the connection of the query runner of `run`.
Held(run) == CHOOSE c \in run.conn : TRUE

Rotated(n) == SubSeq(idle, n + 1, Len(idle)) \o SubSeq(idle, 1, n)

-----------------------------------------------------------------------------
(***************************************************************************)
(* The job of farm 2.                                                      *)
(***************************************************************************)
At(pid) == Farm2Key(pid)
Farm2Goto(from, to) ==
  /\ farm2.pc = from
  /\ farm2' = [farm2 EXCEPT !.pc = to]

\* The end of the loop's body.
Farm2Next ==
  farm2' = IF farm2.pid + 1 < Farm2Pools
           THEN [farm2 EXCEPT !.pc = "find", !.pid = @ + 1, !.conn = {}]
           ELSE [farm2 EXCEPT !.pc = "idle", !.pid = 0, !.infos = 0, !.over = {}, !.found = FALSE, !.conn = {}]

\* getFarm2Infos(): the subgraph may know of fewer pools than the factory has.
GetFarm2Infos == {Farm2Pools - 1, Farm2Pools}

\* getBlockNumber(), networkPid() and getFarm2Infos().
Farm2Begin ==
  /\ farm2.pc = "idle" /\ farm2.round + lending.round < MaxRounds
  /\ \E n \in GetFarm2Infos :
       /\ IF n < Farm2Pools THEN Fault ELSE UNCHANGED faults
       /\ farm2' = [farm2 EXCEPT !.pc = "find", !.round = @ + 1, !.pid = 0, !.infos = n, !.over = over]
  /\ UNCHANGED <<pool, chain, lending, done>>

\* One of the three fails: errorHandler() has it, no pool is served.
Farm2BeginFails ==
  /\ farm2.pc = "idle" /\ farm2.round + lending.round < MaxRounds
  /\ Fault
  /\ farm2' = [farm2 EXCEPT !.round = @ + 1]
  /\ UNCHANGED <<pool, chain, lending, done>>

\* `return`: the pools after one without an info are not served.
Farm2Returns ==
  /\ farm2.pc = "find" /\ farm2.pid >= farm2.infos
  /\ farm2' = [farm2 EXCEPT !.pc = "idle", !.pid = 0, !.infos = 0, !.over = {}, !.found = FALSE]
  /\ UNCHANGED <<pool, chain, lending, done, faults>>

Farm2Find ==
  /\ farm2.pc = "find" /\ farm2.pid < farm2.infos
  /\ \E c \in Conn :
       /\ Passing(c) /\ Look(c)
       /\ LET found == There(Seen(c, At(farm2.pid)))
          IN  IF farm2.pid \in farm2.over
              THEN IF found THEN farm2' = [farm2 EXCEPT !.pc = "disable"] ELSE Farm2Next
              ELSE farm2' = [farm2 EXCEPT !.pc = "connect", !.found = found]
  /\ UNCHANGED <<db, chain, lending, done, faults>>

\* updateFarm() without a manager.
Farm2Disable ==
  /\ farm2.pc = "disable"
  /\ \E c \in Conn :
       LET k == At(farm2.pid)
           row == [Current(c, k) EXCEPT !.on = FALSE]
       IN  /\ Passing(c) /\ ~Locked(c, k) /\ Write(c, k, row)
           /\ done' = [done EXCEPT ![k] = row]
  /\ Farm2Next
  /\ UNCHANGED <<chain, lending, faults>>

Farm2Connect ==
  /\ farm2.pc = "connect"
  /\ \E c \in Conn :
       /\ StartTransaction(c)
       /\ farm2' = [farm2 EXCEPT !.pc = IF farm2.found THEN "refresh" ELSE "tokens", !.conn = {c}]
  /\ UNCHANGED <<chain, lending, done, faults>>

\* registerFarm(): two findToken() at once, without the manager, so each on
\* another connection than the transaction's; `known`: both are there and on.
Farm2Tokens(known) ==
  /\ Farm2Goto("tokens", IF known THEN "insert" ELSE "release")
  /\ idle # <<>>
  /\ LET n == IF Len(idle) = 1 THEN 1 ELSE 2
         looks == {idle[i] : i \in 1 .. n}
     IN  /\ idle' = Rotated(n)
         /\ conn' = [c \in Conn |-> IF c \in looks /\ conn[c].open /\ conn[c].view = {}
                                    THEN [conn[c] EXCEPT !.view = {db}] ELSE conn[c]]
  /\ UNCHANGED <<db, chain, lending, done, faults>>

\* createFarm(): the index is unique.
Farm2Insert ==
  LET c == Held(farm2)
      k == At(farm2.pid)
  IN  /\ farm2.pc = "insert" /\ ~Locked(c, k)
      /\ IF There(Current(c, k))
         THEN Farm2Goto("insert", "rollback") /\ UNCHANGED pool
         ELSE Farm2Goto("insert", "refresh") /\ Write(c, k, NewRow(1)) /\ UNCHANGED idle
      /\ UNCHANGED <<chain, lending, done, faults>>

\* refreshFarm(): a row the transaction does not see is a TypeError.
Farm2Refresh ==
  LET c == Held(farm2)
      row == Seen(c, At(farm2.pid))
  IN  /\ farm2.pc = "refresh"
      /\ Farm2Goto("refresh", IF ~There(row) THEN "rollback" ELSE IF ~row.on THEN "release" ELSE "update")
      /\ Look(c)
      /\ UNCHANGED <<db, idle, chain, lending, done, faults>>

\* `isZero(reward) ? ZERO : ...`: the liquidity is not looked at.
Farm2Figures(liquidity) ==
  [liquidity_amount |-> liquidity, apr |-> IF liquidity = 0 THEN "Infinity" ELSE "number"]

\* A balance that was not answered is 0.
Farm2Update ==
  LET c == Held(farm2)
      k == At(farm2.pid)
  IN  /\ farm2.pc = "update" /\ ~Locked(c, k)
      /\ Farm2Goto("update", "release")
      /\ \E answered \in BOOLEAN :
           LET row == [Current(c, k) EXCEPT !.on = TRUE,
                         !.figures = {Farm2Figures(IF answered THEN farm2.round ELSE 0)}]
           IN  /\ IF answered THEN UNCHANGED faults ELSE Fault
               /\ Write(c, k, row)
               /\ done' = [done EXCEPT ![k] = row]
      /\ UNCHANGED <<idle, chain, lending>>

\* A call or a statement fails; a lock is waited for too long.
Farm2Fails ==
  /\ farm2.pc \in {"tokens", "insert", "refresh", "update"}
  /\ farm2' = [farm2 EXCEPT !.pc = "rollback"]
  /\ IF farm2.pc \in {"insert", "update"} /\ Locked(Held(farm2), At(farm2.pid))
     THEN UNCHANGED faults ELSE Fault
  /\ UNCHANGED <<pool, chain, lending, done>>

\* A failure before there is a query runner: the pool is passed over.
Farm2FailsEarly ==
  /\ farm2.pc \in {"find", "disable", "connect"}
  /\ IF farm2.pc = "disable" /\ idle # <<>> /\ Locked(Head(idle), At(farm2.pid))
     THEN UNCHANGED faults ELSE Fault
  /\ Farm2Next
  /\ UNCHANGED <<pool, chain, lending, done>>

\* Variant of Farm2Rollback: the connection goes back as it is.
Farm2RollbackNot ==
  /\ Farm2Goto("rollback", "release")
  /\ UNCHANGED <<pool, chain, lending, done, faults>>

Farm2Rollback ==
  /\ Farm2Goto("rollback", "release")
  /\ RollbackTransaction(Held(farm2))
  /\ UNCHANGED <<idle, chain, lending, done, faults>>

\* The finally block; nothing has been committed.
Farm2Release ==
  /\ farm2.pc = "release"
  /\ Release(Held(farm2))
  /\ Farm2Next
  /\ UNCHANGED <<db, conn, chain, lending, done, faults>>

-----------------------------------------------------------------------------
(***************************************************************************)
(* The lending job.                                                        *)
(***************************************************************************)
Row == LendingKey(lending.market, lending.info["underlying"])
LendingGoto(from, to) ==
  /\ lending.pc = from
  /\ lending' = [lending EXCEPT !.pc = to]

LendingNext ==
  lending' = IF lending.market < Len(Market)
             THEN [lending EXCEPT !.pc = "infos", !.market = @ + 1, !.info = NoInfo, !.found = FALSE, !.conn = {}]
             ELSE [lending EXCEPT !.pc = "idle", !.market = 1, !.info = NoInfo, !.found = FALSE, !.conn = {}]

\* getLendingAllMarkets().
LendingBegin ==
  /\ lending.pc = "idle" /\ farm2.round + lending.round < MaxRounds
  /\ lending' = [lending EXCEPT !.pc = "infos", !.round = @ + 1]
  /\ UNCHANGED <<pool, chain, farm2, done, faults>>

\* What the views of a market say: the more, the later.
Chain(m) ==
  [view \in MarketView |->
     CASE view = "underlying" -> Underlying[m]
       [] view = "markets" -> [isListed |-> m \in listed, collateralFactorMantissa |-> 1]
       [] OTHER -> lending.round]

\* getLendingMarketInfos() and findToken(underlying); a `market` that is null is
\* a TypeError nobody records, a token that is not `known` is passed over.
LendingInfos(lost, known) ==
  /\ lending.pc = "infos"
  /\ IF lost = {} THEN UNCHANGED faults ELSE Fault
  /\ LET info == GetLendingMarketInfos(Chain(lending.market), lost)
     IN  IF info["markets"] = {} THEN LendingNext /\ UNCHANGED pool
         ELSE /\ \E c \in Conn : Passing(c) /\ Look(c)
              /\ IF known THEN lending' = [lending EXCEPT !.pc = "find", !.info = info] ELSE LendingNext
              /\ UNCHANGED db
  /\ UNCHANGED <<chain, farm2, done>>

IsListed == \A m \in lending.info["markets"] : m.isListed

\* findLending(); `continue` is for the rows there are: a market without a row
\* goes on, listed or not.
LendingFind ==
  /\ lending.pc = "find"
  /\ \E c \in Conn :
       /\ Passing(c) /\ Look(c)
       /\ LET found == There(Seen(c, Row))
          IN  lending' = [lending EXCEPT !.found = found,
                            !.pc = IF ~IsListed /\ found THEN "disable" ELSE "connect"]
  /\ UNCHANGED <<db, chain, farm2, done, faults>>

\* updateLending() without a manager.
LendingDisable ==
  /\ lending.pc = "disable"
  /\ \E c \in Conn :
       LET row == [Current(c, Row) EXCEPT !.on = FALSE]
       IN  /\ Passing(c) /\ ~Locked(c, Row) /\ Write(c, Row, row)
           /\ done' = [done EXCEPT ![Row] = row]
  /\ LendingNext
  /\ UNCHANGED <<chain, farm2, faults>>

LendingConnect ==
  /\ lending.pc = "connect"
  /\ \E c \in Conn :
       /\ StartTransaction(c)
       /\ lending' = [lending EXCEPT !.pc = IF lending.found THEN "update" ELSE "insert", !.conn = {c}]
  /\ UNCHANGED <<chain, farm2, done, faults>>

\* createLending(): the index is not unique, its pid is null.
LendingInsert ==
  LET c == Held(lending)
      copies == IF There(Current(c, Row)) THEN Current(c, Row).copies + 1 ELSE 1
  IN  /\ lending.pc = "insert" /\ copies <= MaxCopies
      /\ LendingGoto("insert", "update")
      /\ Write(c, Row, NewRow(copies))
      /\ UNCHANGED <<idle, chain, farm2, done, faults>>

\* refreshLendingMarket(): the balance of a token that was not answered is 0, the
\* update is by protocol, token and address, of all the rows there are.
LendingUpdate ==
  LET c == Held(lending)
  IN  /\ lending.pc = "update" /\ ~Locked(c, Row)
      /\ LendingGoto("update", "commit")
      /\ \E answered \in BOOLEAN :
           /\ answered \/ lending.info["underlying"] # ZeroAddress
           /\ IF answered THEN UNCHANGED faults ELSE Fault
           /\ Write(c, Row,
                [Current(c, Row) EXCEPT !.on = TRUE,
                   !.figures = {MarketFigures(lending.info, IF answered THEN lending.round ELSE 0, 1, 1)}])
      /\ UNCHANGED <<idle, chain, farm2, done>>

LendingCommit ==
  LET c == Held(lending)
  IN  /\ LendingGoto("commit", "release")
      /\ Commit(c)
      /\ done' = [done EXCEPT ![Row] = Current(c, Row)]
      /\ UNCHANGED <<idle, chain, farm2, faults>>

LendingFails ==
  /\ lending.pc \in {"insert", "update", "commit"}
  /\ lending' = [lending EXCEPT !.pc = "rollback"]
  /\ IF lending.pc = "update" /\ Locked(Held(lending), Row) THEN UNCHANGED faults ELSE Fault
  /\ UNCHANGED <<pool, chain, farm2, done>>

LendingFailsEarly ==
  /\ lending.pc \in {"infos", "find", "disable", "connect"}
  /\ IF lending.pc = "disable" /\ idle # <<>> /\ Locked(Head(idle), Row)
     THEN UNCHANGED faults ELSE Fault
  /\ LendingNext
  /\ UNCHANGED <<pool, chain, farm2, done>>

LendingRollback ==
  /\ LendingGoto("rollback", "release")
  /\ RollbackTransaction(Held(lending))
  /\ UNCHANGED <<idle, chain, farm2, done, faults>>

LendingRelease ==
  /\ lending.pc = "release"
  /\ Release(Held(lending))
  /\ LendingNext
  /\ UNCHANGED <<db, conn, chain, farm2, done, faults>>

-----------------------------------------------------------------------------
Edit ==
  /\ edits < MaxEdits
  /\ edits' = edits + 1
  /\ UNCHANGED <<pool, farm2, lending, done, faults>>

EndPool(p) ==
  /\ Edit
  /\ over' = over \cup {p}
  /\ UNCHANGED listed

List(m) ==
  /\ Edit
  /\ listed' = IF m \in listed THEN listed \ {m} ELSE listed \cup {m}
  /\ UNCHANGED over

Farm2 ==
  \/ Farm2Begin \/ Farm2BeginFails \/ Farm2Returns \/ Farm2Find \/ Farm2Disable \/ Farm2Connect
  \/ \E known \in BOOLEAN : Farm2Tokens(known)
  \/ Farm2Insert \/ Farm2Refresh \/ Farm2Update
  \/ Farm2Fails \/ Farm2FailsEarly \/ Farm2Rollback \/ Farm2Release

Lending ==
  \/ LendingBegin
  \/ \E lost \in Lost \cup {{}}, known \in BOOLEAN : LendingInfos(lost, known)
  \/ LendingFind \/ LendingDisable \/ LendingConnect \/ LendingInsert \/ LendingUpdate
  \/ LendingCommit \/ LendingFails \/ LendingFailsEarly \/ LendingRollback \/ LendingRelease

Next ==
  \/ Farm2 \/ Lending
  \/ \E p \in Farm2Pid : EndPool(p)
  \/ \E m \in MarketNo : List(m)

Spec == Init /\ [][Next]_vars

-----------------------------------------------------------------------------
(***************************************************************************)
(* Properties.                                                             *)
(***************************************************************************)

\* Farm 2 never commits, so what it wrote is the work of whoever gets the connection
\* next.  It is not lost there: of a row that was written without a failure, the last
\* such write is committed or waits on a connection, whatever the jobs roll back.
NoWriteIsLost ==
  \A k \in Key :
    \/ done[k] \in {Absent, db[k]}
    \/ \E c \in Conn : conn[c].rows[k] = done[k]

\* And what is committed there is whole: no farm and no market is seen without the
\* figures its registration goes with, although the statement that commits it belongs
\* to another pool, or to another job, and follows on a failure as on a success.
RowsAreWhole == \A k \in Key : There(db[k]) => db[k].figures # {}

(***************************************************************************)
(* The inductive invariant behind both.                                    *)
(***************************************************************************)
Idle(s) == {s[i] : i \in 1 .. Len(s)}
EachOnce(s) == \A i, j \in 1 .. Len(s) : s[i] = s[j] => i = j

IsRow(r) == r = Absent \/ (There(r) /\ DOMAIN r = {"row", "on", "figures", "copies"})

Shape ==
  /\ DOMAIN db = Key /\ DOMAIN done = Key /\ DOMAIN conn = Conn
  /\ \A c \in Conn : DOMAIN conn[c] = {"open", "view", "rows"} /\ DOMAIN conn[c].rows = Key
  /\ idle \in Seq(Conn) /\ EachOnce(idle)
  /\ DOMAIN farm2 = {"pc", "round", "pid", "infos", "over", "found", "conn"}
  /\ DOMAIN lending = {"pc", "round", "market", "info", "found", "conn"}

RowTypes ==
  \A k \in Key :
    /\ IsRow(db[k]) /\ IsRow(done[k])
    /\ \A c \in Conn : conn[c].rows[k] = Unwritten \/ IsRow(conn[c].rows[k])

\* A run has a connection from startTransaction() to release(), and nobody else has it;
\* its transaction is open until it ends it.
Farm2Works == {"tokens", "insert", "refresh", "update"}
LendingWorks == {"insert", "update", "commit"}

HeldInv ==
  /\ \/ farm2.pc \in {"idle", "find", "disable", "connect"} /\ farm2.conn = {}
     \/ farm2.pc \in Farm2Works \cup {"rollback", "release"} /\ \E c \in Conn : farm2.conn = {c}
  /\ \/ lending.pc \in {"idle", "infos", "find", "disable", "connect"} /\ lending.conn = {}
     \/ lending.pc \in LendingWorks \cup {"rollback", "release"} /\ \E c \in Conn : lending.conn = {c}
  /\ farm2.conn \cap lending.conn = {}
  /\ (farm2.conn \cup lending.conn) \cap Idle(idle) = {}

Clean(c) == \A k \in Key : conn[c].rows[k] = Unwritten

OpenInv ==
  /\ \A c \in Conn : ~conn[c].open => Clean(c)
  /\ farm2.pc \in Farm2Works => \A c \in farm2.conn : conn[c].open
  /\ lending.pc \in LendingWorks => \A c \in lending.conn : conn[c].open

WholeRow(r) == There(r) => r.figures # {}

\* What a run has written so far is the row it is at; the lending job has it alone
\* when it commits.
Farm2Inv ==
  \A c \in farm2.conn :
    /\ farm2.pc \in {"tokens", "insert"} => Clean(c)
    /\ farm2.pc \in {"refresh", "update"} =>
         \A k \in Key : conn[c].rows[k] # Unwritten => k = At(farm2.pid) /\ conn[c].rows[k] = NewRow(1)

LendingInv ==
  \A c \in lending.conn :
    /\ lending.pc \in {"insert", "release"} => Clean(c)
    /\ lending.pc \in {"update", "commit"} => \A k \in Key : conn[c].rows[k] # Unwritten => k = Row
    /\ lending.pc = "commit" =>
         \A k \in Key :
           /\ WholeRow(conn[c].rows[k])
           /\ k = Row => conn[c].rows[k] # Unwritten /\ ~Locked(c, k)

\* The connections whose rows somebody else will commit: what is on them was
\* written without a failure.
Settled == Idle(idle) \cup (IF farm2.pc = "release" THEN farm2.conn ELSE {})

DoneInv ==
  \A k \in Key :
    /\ \A c \in Settled : conn[c].rows[k] \in {Unwritten, done[k]}
    /\ done[k] \in {Absent, db[k]} \/ \E c \in Settled : conn[c].rows[k] = done[k]
    /\ WholeRow(db[k]) /\ WholeRow(done[k])

PoolInv == Shape /\ RowTypes /\ HeldInv /\ OpenInv /\ Farm2Inv /\ LendingInv /\ DoneInv
=============================================================================
