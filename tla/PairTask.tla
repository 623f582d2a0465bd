-------------------------------- MODULE PairTask --------------------------------
(***************************************************************************)
(* `doTask` of template/pair.template.ts: which rows of the table `token`  *)
(* the pairs of a chunk become.  The steps of it that touch the table are  *)
(* actions of TokenRun; here is what they compute.                         *)
(***************************************************************************)
EXTENDS Integers, Sequences, FiniteSets

CONSTANTS
  Token,   \* contracts that are a token
  Lp,      \* contracts that are a pair (a token as well)
  NoCode,  \* addresses without a contract
  Weird    \* contracts that break the batch they are asked in

Address == Token \cup Lp \cup NoCode \cup Weird

\* What is at an address is one thing; the zero address is none of them.
ASSUME AddressAssumption ==
  /\ Token \cap (Lp \cup NoCode \cup Weird) = {}
  /\ Lp \cap (NoCode \cup Weird) = {}
  /\ NoCode \cap Weird = {}
  /\ "zero" \notin Address

\* The contract that answers the batches.
Contract == INSTANCE MultiCall WITH ZeroAddress <- "zero", UnknownString <- "UNKNOWN"

Components(composed, x) == {composed[x][1], composed[x][2]}

-----------------------------------------------------------------------------
\* What address `a` says of token0() and token1().  A weird one answers the
\* first with bytes and the second with none.
View(composed, a, i) ==
  CASE a \in Lp -> [success |-> TRUE, data |-> {composed[a][i]}]
    [] a \in Token -> [success |-> FALSE, data |-> {}]
    [] a \in NoCode -> [success |-> TRUE, data |-> {}]
    [] a \in Weird -> [success |-> TRUE, data |-> IF i = 1 THEN {"zero"} ELSE {}]

SafePairInfos(composed, a) ==
  Contract!SafePairInfo(a, View(composed, a, 1), View(composed, a, 2))

GetBatchPairInfos(composed, addresses) ==
  Contract!GetBatchPairInfos([a \in addresses |-> SafePairInfos(composed, a)])

CheckCA(a) == a \notin NoCode

-----------------------------------------------------------------------------
\* grouping(), from what getPairsInfo() says of the chunk `pairs`.
Grouping(composed, pairs) ==
  [multi |-> pairs, single |-> UNION {Components(composed, x) : x \in pairs}]

\* removeRegisteredTokens(), `known` being the rows it finds.
RemoveRegistered(group, known) ==
  [multi |-> group.multi \ known, single |-> group.single \ known]

\* removeInvalidTokens()
RemoveInvalid(fresh) ==
  LET singles == fresh.single \ fresh.multi IN
  [multi |-> fresh.multi,
   single |-> {a \in singles : CheckCA(a)},
   invalid |-> {a \in singles : ~CheckCA(a)}]

\* checkMultiTokenInSinglePosition(): the batch, or when it reverts each address
\* alone; the first of these that reverts takes the run with it, since the
\* promise is returned without an await.
BreaksBatch(composed, valid) ==
  \/ GetBatchPairInfos(composed, valid.single) = Contract!Reverted
     /\ \E a \in valid.single : SafePairInfos(composed, a) = Contract!Reverted

\* The others are single tokens if both components are the zero address.
CheckMulti(composed, valid) ==
  LET IsSingle(a) == \A info \in SafePairInfos(composed, a) :
                       info.token0 = "zero" /\ info.token1 = "zero"
  IN  [multi |-> valid.multi,
       single |-> {a \in valid.single : IsSingle(a)},
       invalid |-> valid.invalid \cup {a \in valid.single : ~IsSingle(a)}]

\* getTokenInfos(): `dumb` are the contracts that do not say their name; the
\* rows made of the others have status true.
GetTokenInfos(addresses, dumb) ==
  Contract!GetBatchERC20Infos(
    [a \in addresses |->
       [name |-> [success |-> a \notin dumb, data |-> IF a \in dumb THEN {} ELSE {a}],
        symbol |-> [success |-> TRUE, data |-> {a}],
        decimals |-> [success |-> TRUE, data |-> {18}]]])

StatusOn(infos) ==
  {a \in DOMAIN infos : infos[a].name # "UNKNOWN" /\ infos[a].symbol # "UNKNOWN"}

-----------------------------------------------------------------------------
(***************************************************************************)
(* createMultiTokens(): `multi` and `invalid` come from checkMulti, `seen` *)
(* are the rows the transaction sees and `on` those with status true, `ok` *)
(* the pairs that get status true themselves.                              *)
(***************************************************************************)
Unspoilt(composed, multi, invalid) ==
  {x \in multi : Components(composed, x) \cap invalid = {}}

\* The pairs one of whose tokens has no row yet.
SameChunk(composed, multi, invalid, seen) ==
  {x \in Unspoilt(composed, multi, invalid) : ~Components(composed, x) \subseteq seen}

FirstRows(composed, multi, invalid, seen, on) ==
  {x \in Unspoilt(composed, multi, invalid) \ SameChunk(composed, multi, invalid, seen) :
     Components(composed, x) \subseteq on}

\* Those are looked at again after the first rows are in; a token without a row
\* now is undefined, and `undefined.status` throws.
IsUndefined(composed, multi, invalid, seen, on) ==
  \E x \in SameChunk(composed, multi, invalid, seen) :
    ~Components(composed, x) \subseteq seen \cup FirstRows(composed, multi, invalid, seen, on)

SecondRows(composed, multi, invalid, seen, on, ok) ==
  {x \in SameChunk(composed, multi, invalid, seen) :
     Components(composed, x)
       \subseteq on \cup (FirstRows(composed, multi, invalid, seen, on) \cap ok)}
=============================================================================
