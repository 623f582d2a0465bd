-------------------------------- MODULE FarmJobs -------------------------------
(***************************************************************************)
(* What tells the jobs of a MasterChef contract apart: what the protocol's *)
(* client (src/defi) makes of a batch of calls some of which got no        *)
(* answer, what `run` does with a pool before it takes a connection, what  *)
(* `registerFarm` asks for, and which figures `refreshFarm` computes.      *)
(* FarmRun is the run they share.                                          *)
(***************************************************************************)
EXTENDS Integers

CONSTANT Pools  \* pools of the contract (networkPid)

Pid == 0 .. Pools - 1

JobName ==
  {"pancake", "apeBSC", "wault", "biswap", "mdexBSC", "mdexHECO", "bakery", "auto", "apeMATIC",
   "sushiMATIC"}

\* The views the clients call for a pool, and the calls of a crawl.
View == {"poolInfo", "lpToken", "rewarder", "poolAddresses"}
Calls == View \X Pid

\* What a client makes of a pool: its allocPoint is not 0 ("active"), it is 0
\* ("ended"), a null, a tuple without fields ("broken"), or the struct of a key
\* the contract does not know ("gone").
Info == {"active", "ended", "null", "broken", "gone"}

-----------------------------------------------------------------------------
(***************************************************************************)
(* getFarmInfos(): `chain` says what is true of each pool, `lost` which    *)
(* calls of the batch were not answered.                                   *)
(***************************************************************************)

\* One call per pool; a pool without an answer is `none`.
PoolInfos(chain, lost, none) ==
  [p \in Pid |-> IF <<"poolInfo", p>> \in lost THEN none ELSE chain[p]]

PancakeInfos(chain, lost) == PoolInfos(chain, lost, "null")
WaultInfos(chain, lost) == PoolInfos(chain, lost, "null")
BiSwapInfos(chain, lost) == PoolInfos(chain, lost, "null")
MdexBSCInfos(chain, lost) == PoolInfos(chain, lost, "null")
MdexHECOInfos(chain, lost) == PoolInfos(chain, lost, "null")
AutoInfos(chain, lost) == PoolInfos(chain, lost, "null")
ApeBSCInfos(chain, lost) == PoolInfos(chain, lost, "broken")

\* Two batches: without the first answer the second asks for ZERO_ADDRESS.
BakeryInfos(chain, lost) ==
  [p \in Pid |-> IF <<"poolInfo", p>> \in lost THEN "null"
                 ELSE IF <<"poolAddresses", p>> \in lost THEN "gone" ELSE chain[p]]

\* Three calls per pool in one batch, cut into chunks of three: all or nothing.
ThreeCallInfos(chain, lost) ==
  [p \in Pid |-> IF \E v \in {"poolInfo", "lpToken", "rewarder"} : <<v, p>> \in lost
                 THEN "null" ELSE chain[p]]

ApeMATICInfos(chain, lost) == ThreeCallInfos(chain, lost)
SushiMATICInfos(chain, lost) == ThreeCallInfos(chain, lost)

\* The client of job `j`.
GetFarmInfos(j, chain, lost) ==
  CASE j = "pancake" -> PancakeInfos(chain, lost)
    [] j = "apeBSC" -> ApeBSCInfos(chain, lost)
    [] j = "wault" -> WaultInfos(chain, lost)
    [] j = "biswap" -> BiSwapInfos(chain, lost)
    [] j = "mdexBSC" -> MdexBSCInfos(chain, lost)
    [] j = "mdexHECO" -> MdexHECOInfos(chain, lost)
    [] j = "bakery" -> BakeryInfos(chain, lost)
    [] j = "auto" -> AutoInfos(chain, lost)
    [] j = "apeMATIC" -> ApeMATICInfos(chain, lost)
    [] j = "sushiMATIC" -> SushiMATICInfos(chain, lost)

-----------------------------------------------------------------------------
(***************************************************************************)
(* run(): where the loop goes from findFarm(), `i` being what the client   *)
(* made of the pool, `found` whether it has a row, `checked` whether the   *)
(* job has asked for the pool's second contract.  Each job writes all of   *)
(* `run` out again: FarmRun is that text, this is where the copies differ. *)
(***************************************************************************)

\* isZero(undefined) throws, so a tuple without fields ends in `catch`.
Serve(i, found) ==
  CASE i = "null" -> "next"
    [] i = "broken" -> "record"
    [] i = "ended" -> IF found THEN "disable" ELSE "next"
    [] OTHER -> "connect"

PancakeRun(i, found, checked) == Serve(i, found)
ApeBSCRun(i, found, checked) == Serve(i, found)
WaultRun(i, found, checked) == Serve(i, found)
BiSwapRun(i, found, checked) == Serve(i, found)
MdexBSCRun(i, found, checked) == Serve(i, found)
MdexHECORun(i, found, checked) == Serve(i, found)

\* `isZero(allocPoint) || !exists`
BakeryRun(i, found, checked) == Serve(IF i = "gone" THEN "ended" ELSE i, found)

\* The strategy is checked first, of an ended pool as well.
AutoRun(i, found, checked) ==
  IF i = "null" \/ checked THEN Serve(i, found) ELSE "check"

\* The rewarder is checked, and asked for its token, of an active pool.
RewarderRun(i, found, checked) ==
  IF i = "active" /\ ~checked THEN "check" ELSE Serve(i, found)

ApeMATICRun(i, found, checked) == RewarderRun(i, found, checked)
SushiMATICRun(i, found, checked) == RewarderRun(i, found, checked)

Served(j, i, found, checked) ==
  CASE j = "pancake" -> PancakeRun(i, found, checked)
    [] j = "apeBSC" -> ApeBSCRun(i, found, checked)
    [] j = "wault" -> WaultRun(i, found, checked)
    [] j = "biswap" -> BiSwapRun(i, found, checked)
    [] j = "mdexBSC" -> MdexBSCRun(i, found, checked)
    [] j = "mdexHECO" -> MdexHECORun(i, found, checked)
    [] j = "bakery" -> BakeryRun(i, found, checked)
    [] j = "auto" -> AutoRun(i, found, checked)
    [] j = "apeMATIC" -> ApeMATICRun(i, found, checked)
    [] j = "sushiMATIC" -> SushiMATICRun(i, found, checked)

\* `if (!isValidStrat) continue`: only auto passes a pool over for its contract.
PassedOver(j, valid) == j = "auto" /\ ~valid

-----------------------------------------------------------------------------
(***************************************************************************)
(* registerFarm(): with the stake token known (`stake`), and the token of  *)
(* the rewarder (`paid`), is the row added?                                *)
(***************************************************************************)

PancakeRegisters(stake, paid) == stake
ApeBSCRegisters(stake, paid) == stake
WaultRegisters(stake, paid) == stake
BiSwapRegisters(stake, paid) == stake
MdexBSCRegisters(stake, paid) == stake
MdexHECORegisters(stake, paid) == stake
BakeryRegisters(stake, paid) == stake
AutoRegisters(stake, paid) == stake
ApeMATICRegisters(stake, paid) == stake /\ paid
SushiMATICRegisters(stake, paid) == stake /\ paid

Registers(j, stake, paid) ==
  CASE j = "pancake" -> PancakeRegisters(stake, paid)
    [] j = "apeBSC" -> ApeBSCRegisters(stake, paid)
    [] j = "wault" -> WaultRegisters(stake, paid)
    [] j = "biswap" -> BiSwapRegisters(stake, paid)
    [] j = "mdexBSC" -> MdexBSCRegisters(stake, paid)
    [] j = "mdexHECO" -> MdexHECORegisters(stake, paid)
    [] j = "bakery" -> BakeryRegisters(stake, paid)
    [] j = "auto" -> AutoRegisters(stake, paid)
    [] j = "apeMATIC" -> ApeMATICRegisters(stake, paid)
    [] j = "sushiMATIC" -> SushiMATICRegisters(stake, paid)

-----------------------------------------------------------------------------
(***************************************************************************)
(* getFarmState() and refreshFarm(): the apr, of the total of the shares,  *)
(* the year's reward and the pool's liquidity.                             *)
(***************************************************************************)

\* A BigNumber: 0, a number that is not, or Infinity and NaN, neither of which
\* isZero() takes for 0.
Amount == {"zero", "some", "odd"}

Mul(a, b) ==
  IF "odd" \in {a, b} THEN "odd" ELSE IF "zero" \in {a, b} THEN "zero" ELSE "some"

Div(a, b) == IF b = "zero" THEN "odd" ELSE a

\* What a node that knows `chain` says of the contract's total: a pool that has
\* ended has no share.
TotalAllocPoint(chain) == IF \E p \in Pid : chain[p] = "active" THEN "some" ELSE "zero"

\* rewardValueInOneYear, of the contract's reward and what a rewarder adds.  The
\* one of sushi on matic is `sushiPerSecond` itself, which is not called: NaN.
RewardInOneYear(j, base, extra) ==
  CASE j = "sushiMATIC" -> "odd"
    [] j = "apeMATIC" -> IF "some" \in {base, extra} THEN "some" ELSE "zero"
    [] OTHER -> base

\* The reward of a pool that has a share of it, which no job checks.
Allocated(total, reward) == Mul(reward, Div("some", total))

\* `isZero(allocated) ? ZERO : ...`; as a variant of Apr, the liquidity is not
\* looked at.
AprOfReward(total, reward, liquidity) ==
  IF Allocated(total, reward) = "zero" THEN "zero" ELSE Div(Allocated(total, reward), liquidity)

\* `isZero(allocated) || isZero(liquidity) ? ZERO : ...`
Apr(total, reward, liquidity) ==
  IF liquidity = "zero" THEN "zero" ELSE AprOfReward(total, reward, liquidity)

PancakeApr(total, reward, liquidity) == Apr(total, reward, liquidity)
ApeBSCApr(total, reward, liquidity) == Apr(total, reward, liquidity)
WaultApr(total, reward, liquidity) == Apr(total, reward, liquidity)
BiSwapApr(total, reward, liquidity) == Apr(total, reward, liquidity)
MdexBSCApr(total, reward, liquidity) == Apr(total, reward, liquidity)
MdexHECOApr(total, reward, liquidity) == Apr(total, reward, liquidity)
BakeryApr(total, reward, liquidity) == Apr(total, reward, liquidity)
ApeMATICApr(total, reward, liquidity) == Apr(total, reward, liquidity)
SushiMATICApr(total, reward, liquidity) == Apr(total, reward, liquidity)
AutoApr(total, reward, liquidity) == AprOfReward(total, reward, liquidity)

Figure(j, total, reward, liquidity) ==
  CASE j = "pancake" -> PancakeApr(total, reward, liquidity)
    [] j = "apeBSC" -> ApeBSCApr(total, reward, liquidity)
    [] j = "wault" -> WaultApr(total, reward, liquidity)
    [] j = "biswap" -> BiSwapApr(total, reward, liquidity)
    [] j = "mdexBSC" -> MdexBSCApr(total, reward, liquidity)
    [] j = "mdexHECO" -> MdexHECOApr(total, reward, liquidity)
    [] j = "bakery" -> BakeryApr(total, reward, liquidity)
    [] j = "auto" -> AutoApr(total, reward, liquidity)
    [] j = "apeMATIC" -> ApeMATICApr(total, reward, liquidity)
    [] j = "sushiMATIC" -> SushiMATICApr(total, reward, liquidity)
=============================================================================
