----------------------------- MODULE PoolRunProofs -----------------------------
(***************************************************************************)
(* Proofs about PoolRun, for any connections, pools of farm 2 and markets, *)
(* and any number of runs, of rows, of faults and of changes of the chain. *)
(***************************************************************************)
EXTENDS PoolRun, SequenceTheorems, TLAPS

-----------------------------------------------------------------------------
(***************************************************************************)
(* The queue of the idle connections.                                      *)
(***************************************************************************)

\* The connection that is handed out was idle, and is not in what is left.
LEMMA HeadOfIdle ==
  ASSUME NEW s \in Seq(Conn), EachOnce(s), s # <<>>
  PROVE  /\ Head(s) \in Conn /\ Head(s) \in Idle(s)
         /\ Tail(s) \in Seq(Conn) /\ EachOnce(Tail(s))
         /\ Idle(Tail(s)) = Idle(s) \ {Head(s)}
<1>1. /\ Head(s) = s[1] /\ Len(s) \in Nat \ {0} /\ Head(s) \in Conn
      /\ Tail(s) \in Seq(Conn) /\ Len(Tail(s)) = Len(s) - 1
      /\ \A i \in 1 .. Len(Tail(s)) : Tail(s)[i] = s[i + 1]
  BY HeadTailProperties, EmptySeq, LenProperties
<1>2. Head(s) \in Idle(s)
  BY <1>1 DEF Idle
<1>3. EachOnce(Tail(s))
  BY <1>1 DEF EachOnce
<1>4. \A i \in 2 .. Len(s) : i - 1 \in 1 .. Len(Tail(s)) /\ Tail(s)[i - 1] = s[i]
  BY <1>1
<1>5. Idle(Tail(s)) = Idle(s) \ {Head(s)}
  <2>1. ASSUME NEW c \in Idle(Tail(s)) PROVE c \in Idle(s) \ {Head(s)}
    <3>1. PICK i \in 1 .. Len(Tail(s)) : c = Tail(s)[i]
      BY <2>1 DEF Idle
    <3>2. i + 1 \in 1 .. Len(s) /\ c = s[i + 1] /\ 1 \in 1 .. Len(s) /\ i + 1 # 1
      BY <1>1, <3>1
    <3> QED
      BY <1>1, <3>2 DEF Idle, EachOnce
  <2>2. ASSUME NEW c \in Idle(s) \ {Head(s)} PROVE c \in Idle(Tail(s))
    <3>1. PICK i \in 1 .. Len(s) : c = s[i]
      BY <2>2 DEF Idle
    <3>2. i \in 2 .. Len(s)
      BY <1>1, <2>2, <3>1
    <3> QED
      BY <1>4, <3>1, <3>2 DEF Idle
  <2> QED
    BY <2>1, <2>2
<1> QED
  BY <1>1, <1>2, <1>3, <1>5

\* A connection that is given back is idle, behind the others.
LEMMA AppendToIdle ==
  ASSUME NEW s \in Seq(Conn), EachOnce(s), NEW c \in Conn, c \notin Idle(s)
  PROVE  /\ Append(s, c) \in Seq(Conn) /\ EachOnce(Append(s, c))
         /\ Idle(Append(s, c)) = Idle(s) \cup {c}
<1>1. /\ Append(s, c) \in Seq(Conn) /\ Len(s) \in Nat /\ Len(Append(s, c)) = Len(s) + 1
      /\ \A i \in 1 .. Len(s) : Append(s, c)[i] = s[i]
      /\ Append(s, c)[Len(s) + 1] = c
  BY AppendProperties, LenProperties
<1>2. \A i \in 1 .. Len(s) + 1 : i \in 1 .. Len(s) \/ i = Len(s) + 1
  BY <1>1
<1>3. EachOnce(Append(s, c))
  BY <1>1, <1>2 DEF EachOnce, Idle
<1>4. Idle(Append(s, c)) = Idle(s) \cup {c}
  <2>1. \A i \in 1 .. Len(s) : i \in 1 .. Len(s) + 1
    BY <1>1
  <2>2. Len(s) + 1 \in 1 .. Len(s) + 1
    BY <1>1
  <2> QED
    BY <1>1, <1>2, <2>1, <2>2 DEF Idle
<1> QED
  BY <1>1, <1>3, <1>4

\* What the lookups of n connections leave of the queue: the same, in another order.
LEMMA RotationKeeps ==
  ASSUME idle \in Seq(Conn), EachOnce(idle), NEW n \in 1 .. Len(idle)
  PROVE  /\ Rotated(n) \in Seq(Conn) /\ EachOnce(Rotated(n)) /\ Idle(Rotated(n)) = Idle(idle)
<1> DEFINE m == Len(idle)
           s == SubSeq(idle, n + 1, m)
           t == SubSeq(idle, 1, n)
<1>1. m \in Nat /\ n \in Nat /\ 1 <= n /\ n <= m
  BY LenProperties
<1>2. /\ s \in Seq(Conn) /\ Len(s) = m - n /\ \A i \in 1 .. m - n : s[i] = idle[n + i]
      /\ t \in Seq(Conn) /\ Len(t) = n /\ \A i \in 1 .. n : t[i] = idle[i]
  <2>1. /\ t \in Seq(Conn) /\ Len(t) = n /\ \A i \in 1 .. n : t[i] = idle[i]
    BY <1>1, SubSeqProperties
  <2>2. /\ s \in Seq(Conn) /\ Len(s) = m - n /\ \A i \in 1 .. m - n : s[i] = idle[n + i]
    BY <1>1, SubSeqProperties
  <2> QED
    BY <2>1, <2>2
<1>3. /\ s \o t \in Seq(Conn) /\ Len(s \o t) = m
      /\ \A i \in 1 .. m : (s \o t)[i] = IF i <= m - n THEN idle[n + i] ELSE idle[i - (m - n)]
  <2> HIDE DEF s, t
  <2>1. /\ s \o t \in Seq(Conn) /\ Len(s \o t) = Len(s) + Len(t)
        /\ \A i \in 1 .. Len(s) + Len(t) : (s \o t)[i] = IF i <= Len(s) THEN s[i] ELSE t[i - Len(s)]
    BY <1>2, ConcatProperties
  <2> QED
    BY <1>1, <1>2, <2>1
<1>4. Rotated(n) = s \o t
  BY DEF Rotated
<1> HIDE DEF s, t
<1>5. EachOnce(s \o t)
  <2> SUFFICES ASSUME NEW i \in 1 .. m, NEW j \in 1 .. m, (s \o t)[i] = (s \o t)[j] PROVE i = j
    BY <1>3 DEF EachOnce
  <2> DEFINE from(x) == IF x <= m - n THEN n + x ELSE x - (m - n)
  <2>1. from(i) \in 1 .. m /\ from(j) \in 1 .. m
    BY <1>1
  <2>2. idle[from(i)] = idle[from(j)]
    BY <1>3
  <2>3. from(i) = from(j)
    BY <2>1, <2>2 DEF EachOnce
  <2> QED
    BY <1>1, <2>3
<1>6. Idle(s \o t) = Idle(idle)
  <2>1. ASSUME NEW i \in 1 .. m PROVE (s \o t)[i] \in Idle(idle)
    <3>1. CASE i <= m - n
      <4>1. n + i \in 1 .. m /\ (s \o t)[i] = idle[n + i]
        BY <1>1, <1>3, <3>1
      <4> QED
        BY <4>1 DEF Idle
    <3>2. CASE ~(i <= m - n)
      <4>1. i - (m - n) \in 1 .. m /\ (s \o t)[i] = idle[i - (m - n)]
        BY <1>1, <1>3, <3>2
      <4> QED
        BY <4>1 DEF Idle
    <3> QED
      BY <3>1, <3>2
  <2>2. ASSUME NEW i \in 1 .. m PROVE idle[i] \in Idle(s \o t)
    <3>1. CASE i > n
      <4>1. i - n \in 1 .. m /\ i - n <= m - n /\ n + (i - n) = i
        BY <1>1, <3>1
      <4> QED
        BY <1>3, <4>1 DEF Idle
    <3>2. CASE i <= n
      <4>1. i + (m - n) \in 1 .. m /\ ~(i + (m - n) <= m - n) /\ (i + (m - n)) - (m - n) = i
        BY <1>1, <3>2
      <4> QED
        BY <1>3, <4>1 DEF Idle
    <3> QED
      BY <1>1, <3>1, <3>2
  <2> QED
    BY <1>3, <2>1, <2>2 DEF Idle
<1> QED
  BY <1>3, <1>4, <1>5, <1>6

\* A statement beside a transaction leaves the same connections idle.
LEMMA PassingKeeps ==
  ASSUME Shape, NEW c \in Conn, Passing(c)
  PROVE  /\ c \in Idle(idle)
         /\ idle' \in Seq(Conn) /\ EachOnce(idle') /\ Idle(idle') = Idle(idle)
<1>1. idle \in Seq(Conn) /\ EachOnce(idle) /\ idle # <<>> /\ c = Head(idle) /\ idle' = Append(Tail(idle), c)
  BY DEF Shape, Passing
<1>2. /\ c \in Idle(idle) /\ Tail(idle) \in Seq(Conn) /\ EachOnce(Tail(idle))
      /\ Idle(Tail(idle)) = Idle(idle) \ {c}
  BY <1>1, HeadOfIdle
<1>3. idle' \in Seq(Conn) /\ EachOnce(idle') /\ Idle(idle') = Idle(Tail(idle)) \cup {c}
  BY <1>1, <1>2, AppendToIdle
<1> QED
  BY <1>2, <1>3

-----------------------------------------------------------------------------
(***************************************************************************)
(* Rows, and what the statements of ConnectionPool do to them.             *)
(***************************************************************************)

\* Whatever a job writes is a row; with figures it is whole.
LEMMA RowsAreRows ==
  /\ IsRow(Absent) /\ WholeRow(Absent) /\ WholeRow(Unwritten)
  /\ \A r : IsRow(r) => r # Unwritten
  /\ \A n : IsRow(NewRow(n)) /\ There(NewRow(n)) /\ NewRow(n).on
<1>1. Absent.row = "absent" /\ Unwritten.row = "unwritten" /\ DOMAIN Unwritten = {"row"}
  BY DEF Absent, Unwritten
<1>2. ~There(Absent) /\ ~There(Unwritten) /\ Absent # Unwritten
  BY <1>1 DEF There
<1>3. \A n : /\ NewRow(n).row = "there" /\ NewRow(n).on
             /\ DOMAIN NewRow(n) = {"row", "on", "figures", "copies"}
  BY DEF NewRow
<1> QED
  BY <1>2, <1>3 DEF IsRow, WholeRow, There

LEMMA SwitchedIsRow ==
  ASSUME NEW r, IsRow(r)
  PROVE  /\ IsRow([r EXCEPT !.on = FALSE])
         /\ WholeRow(r) => WholeRow([r EXCEPT !.on = FALSE])
<1>1. CASE r = Absent
  <2>1. [r EXCEPT !.on = FALSE] = Absent
    BY <1>1 DEF Absent
  <2> QED
    BY <2>1, RowsAreRows
<1>2. CASE There(r) /\ DOMAIN r = {"row", "on", "figures", "copies"}
  BY <1>2 DEF IsRow, WholeRow, There
<1> QED
  BY <1>1, <1>2 DEF IsRow

LEMMA UpdatedIsRow ==
  ASSUME NEW r, IsRow(r), NEW f
  PROVE  IsRow([r EXCEPT !.on = TRUE, !.figures = {f}]) /\ WholeRow([r EXCEPT !.on = TRUE, !.figures = {f}])
<1>1. CASE r = Absent
  <2>1. [r EXCEPT !.on = TRUE, !.figures = {f}] = Absent
    BY <1>1 DEF Absent
  <2> QED
    BY <2>1, RowsAreRows
<1>2. CASE There(r) /\ DOMAIN r = {"row", "on", "figures", "copies"}
  <2> DEFINE new == [r EXCEPT !.on = TRUE, !.figures = {f}]
  <2>1. DOMAIN new = {"row", "on", "figures", "copies"} /\ new.row = "there" /\ f \in new.figures
    BY <1>2 DEF There
  <2> HIDE DEF new
  <2>2. IsRow(new) /\ WholeRow(new)
    BY <2>1 DEF IsRow, WholeRow, There
  <2> QED
    BY <2>2 DEF new
<1> QED
  BY <1>1, <1>2 DEF IsRow

\* What an INSERT or UPDATE sees of a row.
LEMMA CurrentRow ==
  ASSUME NEW c, NEW k \in Key
  PROVE  Current(c, k) = IF conn[c].rows[k] = Unwritten THEN db[k] ELSE conn[c].rows[k]
BY DEF Current, Over

\* A SELECT writes nothing.
LEMMA Looks ==
  ASSUME Shape, NEW c, Look(c)
  PROVE  /\ DOMAIN conn' = Conn
         /\ \A d \in Conn : /\ DOMAIN conn'[d] = {"open", "view", "rows"}
                            /\ conn'[d].open = conn[d].open /\ conn'[d].rows = conn[d].rows
BY DEF Shape, Look

\* A statement writes one row, in the transaction of its connection if there is one.
LEMMA Writes ==
  ASSUME Shape, NEW c \in Conn, NEW k, NEW row, Write(c, k, row)
  PROVE  /\ DOMAIN db' = Key /\ DOMAIN conn' = Conn
         /\ \A d \in Conn : /\ DOMAIN conn'[d] = {"open", "view", "rows"} /\ DOMAIN conn'[d].rows = Key
                            /\ conn'[d].open = conn[d].open
         /\ \A j \in Key : db'[j] = IF j = k /\ ~conn[c].open THEN row ELSE db[j]
         /\ \A d \in Conn, j \in Key :
              conn'[d].rows[j] = IF d = c /\ j = k /\ conn[c].open THEN row ELSE conn[d].rows[j]
<1>1. CASE conn[c].open
  BY <1>1 DEF Shape, Write
<1>2. CASE ~conn[c].open
  BY <1>2 DEF Shape, Write
<1> QED
  BY <1>1, <1>2

\* startTransaction(), commit and rollback.
LEMMA NewTransaction ==
  /\ DOMAIN Closed = {"open", "view", "rows"} /\ DOMAIN Opened = {"open", "view", "rows"}
  /\ ~Closed.open /\ Opened.open
  /\ DOMAIN Closed.rows = Key /\ DOMAIN Opened.rows = Key
  /\ \A k \in Key : Closed.rows[k] = Unwritten /\ Opened.rows[k] = Unwritten
BY DEF Closed, Opened

LEMMA Ends ==
  ASSUME Shape, NEW c \in Conn, NEW new \in {Closed, Opened}, conn' = [conn EXCEPT ![c] = new]
  PROVE  /\ DOMAIN conn' = Conn
         /\ \A d \in Conn : DOMAIN conn'[d] = {"open", "view", "rows"} /\ DOMAIN conn'[d].rows = Key
         /\ \A d \in Conn \ {c} : conn'[d].open = conn[d].open /\ conn'[d].rows = conn[d].rows
         /\ conn'[c].open = new.open
         /\ \A k \in Key : conn'[c].rows[k] = Unwritten
BY NewTransaction DEF Shape

LEMMA Commits ==
  ASSUME NEW c, db' = Over(conn[c].rows, db)
  PROVE  /\ DOMAIN db' = Key
         /\ \A k \in Key : db'[k] = IF conn[c].rows[k] = Unwritten THEN db[k] ELSE conn[c].rows[k]
BY DEF Over

\* A run that takes a connection takes one that was idle, and its transaction is open.
LEMMA Starts ==
  ASSUME Shape, NEW c \in Conn, StartTransaction(c)
  PROVE  /\ c \in Idle(idle) /\ idle' \in Seq(Conn) /\ EachOnce(idle') /\ Idle(idle') = Idle(idle) \ {c}
         /\ db' = Over(conn[c].rows, db)
         /\ conn' = [conn EXCEPT ![c] = Opened]
<1>1. /\ idle \in Seq(Conn) /\ EachOnce(idle) /\ idle # <<>> /\ c = Head(idle) /\ idle' = Tail(idle)
      /\ db' = Over(conn[c].rows, db) /\ conn' = [conn EXCEPT ![c] = Opened]
  BY DEF Shape, StartTransaction, Hold
<1> QED
  BY <1>1, HeadOfIdle

-----------------------------------------------------------------------------
(***************************************************************************)
(* The runs.                                                               *)
(***************************************************************************)

\* A run that has a connection has this one.
LEMMA HeldIsTheOne == ASSUME NEW run, NEW c, run.conn = {c} PROVE Held(run) = c
BY DEF Held

LEMMA Farm2Moves ==
  ASSUME Shape, NEW l, NEW m, Farm2Goto(l, m)
  PROVE  /\ farm2.pc = l /\ farm2'.pc = m /\ farm2'.conn = farm2.conn /\ farm2'.pid = farm2.pid
         /\ DOMAIN farm2' = DOMAIN farm2
BY DEF Shape, Farm2Goto

LEMMA Farm2GoesOn ==
  ASSUME Shape, Farm2Next
  PROVE  farm2'.pc \in {"find", "idle"} /\ farm2'.conn = {} /\ DOMAIN farm2' = DOMAIN farm2
<1>1. CASE farm2.pid + 1 < Farm2Pools
  BY <1>1 DEF Shape, Farm2Next
<1>2. CASE ~(farm2.pid + 1 < Farm2Pools)
  BY <1>2 DEF Shape, Farm2Next
<1> QED
  BY <1>1, <1>2

LEMMA LendingMoves ==
  ASSUME Shape, NEW l, NEW m, LendingGoto(l, m)
  PROVE  /\ lending.pc = l /\ lending'.pc = m /\ lending'.conn = lending.conn /\ Row' = Row
         /\ DOMAIN lending' = DOMAIN lending
BY DEF Shape, LendingGoto, Row

LEMMA LendingGoesOn ==
  ASSUME Shape, LendingNext
  PROVE  lending'.pc \in {"infos", "idle"} /\ lending'.conn = {} /\ DOMAIN lending' = DOMAIN lending
<1>1. CASE lending.market < Len(Market)
  BY <1>1 DEF Shape, LendingNext
<1>2. CASE ~(lending.market < Len(Market))
  BY <1>2 DEF Shape, LendingNext
<1> QED
  BY <1>1, <1>2

-----------------------------------------------------------------------------
(***************************************************************************)
(* Steps that write nothing, and take and give back nothing.               *)
(***************************************************************************)

\* The job of farm 2 is where it was, or has no connection before and after, or gives
\* its transaction up.
Farm2Quiet ==
  /\ DOMAIN farm2' = DOMAIN farm2
  /\ \/ farm2' = farm2
     \/ farm2.conn = {} /\ farm2'.conn = {} /\ farm2'.pc \in {"idle", "find", "disable", "connect"}
     \/ farm2'.conn = farm2.conn /\ farm2.pc \in Farm2Works /\ farm2'.pc = "rollback"

LendingQuiet ==
  /\ DOMAIN lending' = DOMAIN lending
  /\ \/ lending' = lending
     \/ lending.conn = {} /\ lending'.conn = {} /\ lending'.pc \in {"idle", "infos", "find", "disable", "connect"}
     \/ lending'.conn = lending.conn /\ lending.pc \in LendingWorks /\ lending'.pc = "rollback"

\* No row changes, and the same connections are idle.
PoolQuiet ==
  /\ DOMAIN conn' = Conn
  /\ \A c \in Conn : /\ DOMAIN conn'[c] = {"open", "view", "rows"}
                     /\ conn'[c].open = conn[c].open /\ conn'[c].rows = conn[c].rows
  /\ idle' \in Seq(Conn) /\ EachOnce(idle') /\ Idle(idle') = Idle(idle)
  /\ UNCHANGED <<db, done>>

LEMMA PoolIsQuiet ==
  ASSUME Shape, UNCHANGED <<db, done>>,
         \/ UNCHANGED pool
         \/ UNCHANGED idle /\ \E c \in Conn : Look(c)
         \/ \E c \in Conn : Passing(c) /\ Look(c)
  PROVE  PoolQuiet
<1>1. CASE UNCHANGED pool
  BY <1>1 DEF PoolQuiet, Shape, pool
<1>2. ASSUME UNCHANGED idle, NEW c \in Conn, Look(c) PROVE PoolQuiet
  BY <1>2, Looks DEF PoolQuiet, Shape
<1>3. ASSUME NEW c \in Conn, Passing(c), Look(c) PROVE PoolQuiet
  BY <1>3, Looks, PassingKeeps DEF PoolQuiet
<1> QED
  BY <1>1, <1>2, <1>3

LEMMA QuietStep ==
  ASSUME PoolInv, PoolQuiet, Farm2Quiet, LendingQuiet
  PROVE  PoolInv'
<1> USE DEF PoolInv
<1>1. Shape'
  BY DEF Shape, PoolQuiet, Farm2Quiet, LendingQuiet
<1>2. RowTypes'
  BY DEF RowTypes, PoolQuiet
<1>3. /\ farm2'.conn = farm2.conn
      /\ farm2.pc \in Farm2Works => farm2.conn # {}
      /\ \A m \in Farm2Works \cup {"release"} : farm2'.pc = m => farm2' = farm2
  BY DEF Farm2Quiet, HeldInv, Farm2Works
<1>4. /\ lending'.conn = lending.conn
      /\ \A m \in LendingWorks \cup {"release"} : lending'.pc = m => lending' = lending
  BY DEF LendingQuiet, HeldInv, LendingWorks
<1>5. HeldInv'
  <2>1. \/ farm2'.pc \in {"idle", "find", "disable", "connect"} /\ farm2'.conn = {}
        \/ farm2'.pc \in Farm2Works \cup {"rollback", "release"} /\ \E c \in Conn : farm2'.conn = {c}
    BY <1>3 DEF Farm2Quiet, HeldInv, Farm2Works
  <2>2. \/ lending'.pc \in {"idle", "infos", "find", "disable", "connect"} /\ lending'.conn = {}
        \/ lending'.pc \in LendingWorks \cup {"rollback", "release"} /\ \E c \in Conn : lending'.conn = {c}
    BY <1>4 DEF LendingQuiet, HeldInv, LendingWorks
  <2> QED
    BY <1>3, <1>4, <2>1, <2>2 DEF PoolQuiet, HeldInv
<1>6. /\ farm2.conn \subseteq Conn /\ lending.conn \subseteq Conn
      /\ \A c \in Conn : Clean(c)' <=> Clean(c)
  BY DEF HeldInv, Clean, PoolQuiet
<1>7. OpenInv'
  BY <1>3, <1>4, <1>6 DEF OpenInv, PoolQuiet
<1>8. Farm2Inv'
  <2>1. CASE farm2' = farm2
    BY <1>6, <2>1 DEF Farm2Inv, PoolQuiet
  <2>2. CASE farm2' # farm2
    BY <1>3, <2>2 DEF Farm2Inv, Farm2Works
  <2> QED
    BY <2>1, <2>2
<1>9. LendingInv'
  <2>1. CASE lending' = lending
    <3>1. Row' = Row
      BY <2>1 DEF Row
    <3>2. \A c \in Conn, k \in Key : Locked(c, k)' <=> Locked(c, k)
      BY DEF Locked, PoolQuiet
    <3> QED
      BY <1>6, <2>1, <3>1, <3>2 DEF LendingInv, PoolQuiet
  <2>2. CASE lending' # lending
    BY <1>4, <2>2 DEF LendingInv, LendingWorks
  <2> QED
    BY <2>1, <2>2
<1>10. DoneInv'
  <2>1. Settled' = Settled
    BY <1>3 DEF Settled, PoolQuiet, Farm2Quiet, Farm2Works
  <2>2. Settled \subseteq Conn
    BY <1>6, <1>1 DEF Settled, Idle, Shape
  <2> QED
    BY <2>1, <2>2 DEF DoneInv, PoolQuiet
<1> QED
  BY <1>1, <1>2, <1>5, <1>7, <1>8, <1>9, <1>10

-----------------------------------------------------------------------------
(***************************************************************************)
(* Steps that take a connection, use one that is idle, or give one back.   *)
(***************************************************************************)

\* A run that has no connection is at none of the steps that need one.
Farm2Rests == farm2.conn = {} /\ farm2.pc \in {"idle", "find", "disable", "connect"}
LendingRests == lending.conn = {} /\ lending.pc \in {"idle", "infos", "find", "disable", "connect"}

LEMMA WhoRests ==
  ASSUME PoolInv
  PROVE  /\ farm2.pc \in {"idle", "find", "disable", "connect"} => Farm2Rests
         /\ lending.pc \in {"idle", "infos", "find", "disable", "connect"} => LendingRests
         /\ farm2.conn \subseteq Conn /\ lending.conn \subseteq Conn
         /\ Settled \subseteq Conn /\ Idle(idle) \subseteq Settled
         /\ farm2.pc # "release" => Settled = Idle(idle)
         /\ farm2.pc \in Farm2Works \cup {"rollback", "release"} =>
              \E c \in Conn : /\ farm2.conn = {c} /\ Held(farm2) = c
                              /\ c \notin lending.conn /\ c \notin Idle(idle)
         /\ lending.pc \in LendingWorks \cup {"rollback", "release"} =>
              \E c \in Conn : /\ lending.conn = {c} /\ Held(lending) = c
                              /\ c \notin farm2.conn /\ c \notin Idle(idle) /\ c \notin Settled
<1> USE DEF PoolInv
<1>1. /\ farm2.pc \in {"idle", "find", "disable", "connect"} => Farm2Rests
      /\ lending.pc \in {"idle", "infos", "find", "disable", "connect"} => LendingRests
  BY DEF HeldInv, Farm2Rests, LendingRests, Farm2Works, LendingWorks
<1>2. farm2.conn \subseteq Conn /\ lending.conn \subseteq Conn
  BY DEF HeldInv
<1>3. Settled \subseteq Conn /\ Idle(idle) \subseteq Settled /\ (farm2.pc # "release" => Settled = Idle(idle))
  BY <1>2 DEF Settled, Idle, Shape
<1>4. farm2.pc \in Farm2Works \cup {"rollback", "release"} =>
        \E c \in Conn : /\ farm2.conn = {c} /\ Held(farm2) = c
                        /\ c \notin lending.conn /\ c \notin Idle(idle)
  BY HeldIsTheOne DEF HeldInv, Farm2Works
<1>5. lending.pc \in LendingWorks \cup {"rollback", "release"} =>
        \E c \in Conn : /\ lending.conn = {c} /\ Held(lending) = c
                        /\ c \notin farm2.conn /\ c \notin Idle(idle) /\ c \notin Settled
  BY HeldIsTheOne DEF HeldInv, LendingWorks, Settled
<1> QED
  BY <1>1, <1>2, <1>3, <1>4, <1>5

\* A connection that is taken commits what is on it: the rows it brings are the last
\* that were written.
LEMMA StartStep ==
  ASSUME PoolInv, NEW c \in Conn, StartTransaction(c), UNCHANGED done,
         DOMAIN farm2' = DOMAIN farm2, DOMAIN lending' = DOMAIN lending,
         \/ Farm2Rests /\ farm2'.conn = {c} /\ farm2'.pc \in {"tokens", "refresh"} /\ UNCHANGED lending
         \/ LendingRests /\ lending'.conn = {c} /\ lending'.pc \in {"insert", "update"} /\ UNCHANGED farm2
  PROVE  PoolInv'
<1> USE DEF PoolInv
<1>1. /\ c \in Idle(idle) /\ idle' \in Seq(Conn) /\ EachOnce(idle') /\ Idle(idle') = Idle(idle) \ {c}
      /\ DOMAIN db' = Key
      /\ \A k \in Key : db'[k] = IF conn[c].rows[k] = Unwritten THEN db[k] ELSE conn[c].rows[k]
  BY Starts, Commits
<1>2. /\ DOMAIN conn' = Conn
      /\ \A d \in Conn : DOMAIN conn'[d] = {"open", "view", "rows"} /\ DOMAIN conn'[d].rows = Key
      /\ \A d \in Conn \ {c} : conn'[d].open = conn[d].open /\ conn'[d].rows = conn[d].rows
      /\ conn'[c].open
      /\ \A k \in Key : conn'[c].rows[k] = Unwritten
  BY Starts, Ends, NewTransaction
<1>3. c \notin farm2.conn /\ c \notin lending.conn /\ farm2.conn \subseteq Conn /\ lending.conn \subseteq Conn
  BY <1>1, WhoRests DEF HeldInv
<1>4. Shape'
  BY <1>1, <1>2 DEF Shape
<1>5. RowTypes'
  BY <1>1, <1>2 DEF RowTypes
<1>6. HeldInv'
  <2>1. CASE Farm2Rests /\ farm2'.conn = {c} /\ farm2'.pc \in {"tokens", "refresh"} /\ UNCHANGED lending
    BY <1>1, <1>3, <2>1 DEF HeldInv, Farm2Works
  <2>2. CASE LendingRests /\ lending'.conn = {c} /\ lending'.pc \in {"insert", "update"} /\ UNCHANGED farm2
    BY <1>1, <1>3, <2>2 DEF HeldInv, LendingWorks
  <2> QED
    BY <2>1, <2>2
<1>7. Clean(c)' /\ \A d \in Conn \ {c} : Clean(d)' <=> Clean(d)
  BY <1>2 DEF Clean
<1>8. OpenInv'
  BY <1>2, <1>3, <1>7 DEF OpenInv
<1>9. Farm2Inv'
  <2>1. CASE farm2'.conn = {c}
    BY <1>2, <1>7, <2>1 DEF Farm2Inv
  <2>2. CASE UNCHANGED farm2
    BY <1>2, <1>3, <1>7, <2>2 DEF Farm2Inv
  <2> QED
    BY <2>1, <2>2
<1>10. LendingInv'
  <2>1. CASE lending'.conn = {c} /\ lending'.pc \in {"insert", "update"}
    BY <1>2, <1>7, <2>1 DEF LendingInv
  <2>2. CASE UNCHANGED lending
    <3>1. Row' = Row
      BY <2>2 DEF Row
    <3>2. \A d \in Conn, k \in Key : Locked(d, k)' => Locked(d, k)
      BY <1>2 DEF Locked
    <3> QED
      BY <1>2, <1>3, <1>7, <2>2, <3>1, <3>2 DEF LendingInv
  <2> QED
    BY <2>1, <2>2
<1>11. DoneInv'
  <2>1. Settled' = Settled \ {c} /\ c \in Settled /\ Settled \subseteq Conn
    BY <1>1, <1>3, WhoRests DEF Settled, Farm2Rests
  <2> SUFFICES ASSUME NEW k \in Key
               PROVE  /\ \A d \in Settled' : conn'[d].rows[k] \in {Unwritten, done'[k]}
                      /\ done'[k] \in {Absent, db'[k]} \/ \E d \in Settled' : conn'[d].rows[k] = done'[k]
                      /\ WholeRow(db'[k]) /\ WholeRow(done'[k])
    BY DEF DoneInv
  <2>2. /\ \A d \in Settled : conn[d].rows[k] \in {Unwritten, done[k]}
        /\ done[k] \in {Absent, db[k]} \/ \E d \in Settled : conn[d].rows[k] = done[k]
        /\ WholeRow(db[k]) /\ WholeRow(done[k])
    BY DEF DoneInv
  <2>3. done[k] # Unwritten
    BY RowsAreRows DEF RowTypes
  <2>4. CASE conn[c].rows[k] = Unwritten
    <3>1. done[k] \in {Absent, db'[k]} \/ \E d \in Settled \ {c} : conn[d].rows[k] = done[k]
      BY <1>1, <2>2, <2>3, <2>4
    <3> QED
      BY <1>1, <1>2, <2>1, <2>2, <2>4, <3>1
  <2>5. CASE conn[c].rows[k] # Unwritten
    <3>1. db'[k] = done[k]
      BY <1>1, <2>1, <2>2, <2>5
    <3> QED
      BY <1>2, <2>1, <2>2, <3>1
  <2> QED
    BY <2>4, <2>5
<1> QED
  BY <1>4, <1>5, <1>6, <1>8, <1>9, <1>10, <1>11

\* The connection of a run that is over goes back with rows that were written without
\* a failure, or with none.
LEMMA ReleaseStep ==
  ASSUME PoolInv, NEW c \in Conn, Release(c), UNCHANGED <<db, conn, done>>,
         DOMAIN farm2' = DOMAIN farm2, DOMAIN lending' = DOMAIN lending,
         \/ farm2.pc = "release" /\ farm2.conn = {c} /\ Farm2Rests' /\ UNCHANGED lending
         \/ lending.pc = "release" /\ lending.conn = {c} /\ LendingRests' /\ UNCHANGED farm2
  PROVE  PoolInv'
<1> USE DEF PoolInv
<1>1. c \notin Idle(idle) /\ farm2.conn \cap lending.conn = {}
  BY DEF HeldInv
<1>2. idle' \in Seq(Conn) /\ EachOnce(idle') /\ Idle(idle') = Idle(idle) \cup {c}
  BY <1>1, AppendToIdle DEF Shape, Release
<1>3. Shape'
  BY <1>2 DEF Shape
<1>4. RowTypes'
  BY DEF RowTypes
<1>5. HeldInv'
  <2>1. CASE farm2.conn = {c} /\ Farm2Rests' /\ UNCHANGED lending
    BY <1>1, <1>2, <2>1 DEF HeldInv, Farm2Rests
  <2>2. CASE lending.conn = {c} /\ LendingRests' /\ UNCHANGED farm2
    BY <1>1, <1>2, <2>2 DEF HeldInv, LendingRests
  <2> QED
    BY <2>1, <2>2
<1>6. \A d : Clean(d)' <=> Clean(d)
  BY DEF Clean
<1>7. OpenInv'
  BY <1>6 DEF OpenInv, Farm2Rests, LendingRests, Farm2Works, LendingWorks
<1>8. Farm2Inv'
  BY <1>6 DEF Farm2Inv, Farm2Rests
<1>9. LendingInv'
  <2>1. CASE UNCHANGED lending
    <3>1. Row' = Row /\ \A d, k : Locked(d, k)' <=> Locked(d, k)
      BY <2>1 DEF Row, Locked
    <3> QED
      BY <1>6, <2>1, <3>1 DEF LendingInv
  <2>2. CASE LendingRests'
    BY <2>2 DEF LendingInv, LendingRests
  <2> QED
    BY <2>1, <2>2
<1>10. DoneInv'
  <2>1. CASE farm2.pc = "release" /\ farm2.conn = {c} /\ Farm2Rests'
    <3>1. Settled' = Settled
      BY <1>2, <2>1 DEF Settled, Farm2Rests
    <3> QED
      BY <3>1 DEF DoneInv
  <2>2. CASE lending.pc = "release" /\ lending.conn = {c} /\ UNCHANGED farm2
    <3>1. Settled' = Settled \cup {c}
      BY <1>2, <2>2 DEF Settled
    <3>2. \A k \in Key : conn[c].rows[k] = Unwritten
      BY <2>2 DEF LendingInv, Clean
    <3> QED
      BY <3>1, <3>2 DEF DoneInv
  <2> QED
    BY <2>1, <2>2
<1> QED
  BY <1>3, <1>4, <1>5, <1>7, <1>8, <1>9, <1>10

\* What is on the rows of an idle connection, and under them, is whole; turned off it
\* still is.
LEMMA SwitchedCurrent ==
  ASSUME PoolInv, NEW c \in Settled, NEW k \in Key
  PROVE  IsRow([Current(c, k) EXCEPT !.on = FALSE]) /\ WholeRow([Current(c, k) EXCEPT !.on = FALSE])
<1>1. Current(c, k) = IF conn[c].rows[k] = Unwritten THEN db[k] ELSE conn[c].rows[k]
  BY CurrentRow
<1>2. c \in Conn
  BY WhoRests
<1>3. IsRow(Current(c, k)) /\ WholeRow(Current(c, k))
  BY <1>1, <1>2 DEF PoolInv, RowTypes, DoneInv
<1> QED
  BY <1>3, SwitchedIsRow

\* A row that is written beside a transaction is committed, or stays on the connection
\* it was written on, which is idle again.
LEMMA BesideStep ==
  ASSUME PoolInv, NEW c \in Conn, NEW k, NEW row, Passing(c), ~Locked(c, k),
         k \in Key => IsRow(row) /\ WholeRow(row),
         Write(c, k, row), done' = [done EXCEPT ![k] = row],
         DOMAIN farm2' = DOMAIN farm2, DOMAIN lending' = DOMAIN lending,
         \/ Farm2Rests /\ Farm2Rests' /\ UNCHANGED lending
         \/ LendingRests /\ LendingRests' /\ UNCHANGED farm2
  PROVE  PoolInv'
<1> USE DEF PoolInv
<1>1. c \in Idle(idle) /\ idle' \in Seq(Conn) /\ EachOnce(idle') /\ Idle(idle') = Idle(idle)
  BY PassingKeeps
<1>2. /\ DOMAIN db' = Key /\ DOMAIN conn' = Conn
      /\ \A d \in Conn : /\ DOMAIN conn'[d] = {"open", "view", "rows"} /\ DOMAIN conn'[d].rows = Key
                         /\ conn'[d].open = conn[d].open
      /\ \A j \in Key : db'[j] = IF j = k /\ ~conn[c].open THEN row ELSE db[j]
      /\ \A d \in Conn, j \in Key :
           conn'[d].rows[j] = IF d = c /\ j = k /\ conn[c].open THEN row ELSE conn[d].rows[j]
  BY Writes
<1>3. DOMAIN done' = Key /\ \A j \in Key : done'[j] = IF j = k THEN row ELSE done[j]
  BY DEF Shape
<1>4. c \notin farm2.conn /\ c \notin lending.conn /\ farm2.conn \subseteq Conn /\ lending.conn \subseteq Conn
  BY <1>1, WhoRests DEF HeldInv
<1>5. Settled' = Settled /\ c \in Settled /\ Settled \subseteq Conn
  BY <1>1, WhoRests DEF Settled, Farm2Rests
<1>7. \A d \in Conn \ {c} : k \in Key => conn[d].rows[k] = Unwritten
  BY DEF Locked
<1>8. Shape'
  BY <1>1, <1>2, <1>3 DEF Shape
<1>9. RowTypes'
  BY <1>2, <1>3 DEF RowTypes
<1>10. HeldInv'
  BY <1>1 DEF HeldInv, Farm2Rests, LendingRests
<1>11. \A d \in Conn : (d # c \/ ~conn[c].open) => (Clean(d)' <=> Clean(d))
  BY <1>2 DEF Clean
<1>12. OpenInv'
  BY <1>2, <1>4, <1>11 DEF OpenInv, Farm2Rests, LendingRests, Farm2Works, LendingWorks
<1>13. Farm2Inv'
  <2>1. CASE UNCHANGED farm2
    BY <1>2, <1>4, <1>11, <2>1 DEF Farm2Inv
  <2>2. CASE Farm2Rests'
    BY <2>2 DEF Farm2Inv, Farm2Rests
  <2> QED
    BY <2>1, <2>2
<1>14. LendingInv'
  <2>1. CASE UNCHANGED lending
    <3>1. Row' = Row
      BY <2>1 DEF Row
    <3>2. ASSUME NEW d \in lending.conn, lending.pc = "commit", Row \in Key PROVE ~Locked(d, Row)'
      <4>1. Row # k
        BY <1>4, <1>7, <3>2 DEF LendingInv
      <4>2. ~Locked(d, Row)
        BY <3>2 DEF LendingInv
      <4> QED
        BY <1>2, <3>1, <3>2, <4>1, <4>2 DEF Locked
    <3>3. \A d \in lending.conn, j \in Key : conn'[d].rows[j] = conn[d].rows[j]
      BY <1>2, <1>4
    <3>4. \A d \in lending.conn : Clean(d)' <=> Clean(d)
      BY <1>4, <1>11
    <3> QED
      BY <2>1, <3>1, <3>2, <3>3, <3>4 DEF LendingInv
  <2>2. CASE LendingRests'
    BY <2>2 DEF LendingInv, LendingRests
  <2> QED
    BY <2>1, <2>2
<1>15. DoneInv'
  <2> SUFFICES ASSUME NEW j \in Key
               PROVE  /\ \A d \in Settled' : conn'[d].rows[j] \in {Unwritten, done'[j]}
                      /\ done'[j] \in {Absent, db'[j]} \/ \E d \in Settled' : conn'[d].rows[j] = done'[j]
                      /\ WholeRow(db'[j]) /\ WholeRow(done'[j])
    BY DEF DoneInv
  <2>1. /\ \A d \in Settled : conn[d].rows[j] \in {Unwritten, done[j]}
        /\ done[j] \in {Absent, db[j]} \/ \E d \in Settled : conn[d].rows[j] = done[j]
        /\ WholeRow(db[j]) /\ WholeRow(done[j])
    BY DEF DoneInv
  <2>2. CASE j # k
    BY <1>2, <1>3, <1>5, <2>1, <2>2
  <2>3. CASE j = k /\ conn[c].open
    <3>1. conn'[c].rows[j] = row /\ done'[j] = row /\ db'[j] = db[j]
      BY <1>2, <1>3, <2>3
    <3>2. \A d \in Conn \ {c} : conn'[d].rows[j] = Unwritten
      BY <1>2, <1>7, <2>3
    <3> QED
      BY <1>5, <2>1, <2>3, <3>1, <3>2
  <2>4. CASE j = k /\ ~conn[c].open
    <3>1. \A d \in Settled : conn[d].rows[j] = Unwritten
      BY <1>5, <1>7, <2>4 DEF OpenInv, Clean
    <3> QED
      BY <1>2, <1>3, <1>5, <2>4, <3>1
  <2> QED
    BY <2>2, <2>3, <2>4
<1> QED
  BY <1>8, <1>9, <1>10, <1>12, <1>13, <1>14, <1>15

-----------------------------------------------------------------------------
(***************************************************************************)
(* Steps in the transaction of a run.                                      *)
(***************************************************************************)

\* The job of farm 2 goes on without a write, or is through with nothing to leave.
LEMMA Farm2Advances ==
  ASSUME PoolInv, PoolQuiet, UNCHANGED lending, DOMAIN farm2' = DOMAIN farm2,
         farm2.pc \in Farm2Works, farm2'.conn = farm2.conn, farm2'.pid = farm2.pid,
         \/ farm2'.pc = "insert" /\ \A c \in farm2.conn : Clean(c)
         \/ farm2'.pc = "update" /\ farm2.pc = "refresh"
         \/ farm2'.pc = "release" /\ \A c \in farm2.conn : Clean(c)
  PROVE  PoolInv'
<1> USE DEF PoolInv
<1>1. PICK c \in Conn : farm2.conn = {c} /\ c \notin lending.conn /\ c \notin Idle(idle)
  BY WhoRests
<1>2. Shape'
  BY DEF Shape, PoolQuiet
<1>3. RowTypes'
  BY DEF RowTypes, PoolQuiet
<1>4. HeldInv'
  BY <1>1 DEF HeldInv, PoolQuiet, Farm2Works
<1>5. \A d \in Conn : Clean(d)' <=> Clean(d)
  BY DEF Clean, PoolQuiet
<1>6. OpenInv'
  BY <1>1, <1>5, WhoRests DEF OpenInv, PoolQuiet
<1>7. Farm2Inv'
  BY <1>1, <1>5 DEF Farm2Inv, PoolQuiet, At
<1>8. LendingInv'
  <2>1. Row' = Row
    BY DEF Row
  <2>2. \A d \in Conn, k \in Key : Locked(d, k)' <=> Locked(d, k)
    BY DEF Locked, PoolQuiet
  <2> QED
    BY <1>5, <2>1, <2>2, WhoRests DEF LendingInv, PoolQuiet
<1>9. DoneInv'
  <2>1. CASE farm2'.pc # "release"
    <3>1. Settled' = Settled
      BY <2>1 DEF Settled, PoolQuiet, Farm2Works
    <3> QED
      BY <3>1, WhoRests DEF DoneInv, PoolQuiet
  <2>2. CASE farm2'.pc = "release"
    <3>1. Settled' = Settled \cup {c}
      BY <1>1, <2>2 DEF Settled, PoolQuiet, Farm2Works
    <3>2. \A k \in Key : conn[c].rows[k] = Unwritten
      BY <1>1, <2>2 DEF Clean
    <3> QED
      BY <3>1, <3>2, WhoRests DEF DoneInv, PoolQuiet
  <2> QED
    BY <2>1, <2>2
<1> QED
  BY <1>2, <1>3, <1>4, <1>6, <1>7, <1>8, <1>9

\* What a write in the transaction of c changes, whoever's it is.
LEMMA WritesInside ==
  ASSUME PoolInv, NEW c \in Conn, conn[c].open, NEW k, NEW row, Write(c, k, row),
         k \in Key => IsRow(row), UNCHANGED idle,
         DOMAIN done' = Key, \A j \in Key : IsRow(done'[j]),
         DOMAIN farm2' = DOMAIN farm2, DOMAIN lending' = DOMAIN lending
  PROVE  /\ Shape' /\ RowTypes'
         /\ \A j \in Key : db'[j] = db[j]
         /\ \A d \in Conn : conn'[d].open = conn[d].open
         /\ \A d \in Conn, j \in Key : conn'[d].rows[j] = IF d = c /\ j = k THEN row ELSE conn[d].rows[j]
         /\ \A d \in Conn \ {c} : Clean(d)' <=> Clean(d)
<1> USE DEF PoolInv
<1>1. /\ DOMAIN db' = Key /\ DOMAIN conn' = Conn
      /\ \A d \in Conn : /\ DOMAIN conn'[d] = {"open", "view", "rows"} /\ DOMAIN conn'[d].rows = Key
                         /\ conn'[d].open = conn[d].open
      /\ \A j \in Key : db'[j] = db[j]
      /\ \A d \in Conn, j \in Key : conn'[d].rows[j] = IF d = c /\ j = k THEN row ELSE conn[d].rows[j]
  BY Writes
<1>2. Shape'
  BY <1>1 DEF Shape
<1>3. RowTypes'
  BY <1>1 DEF RowTypes
<1>4. \A d \in Conn \ {c} : Clean(d)' <=> Clean(d)
  BY <1>1 DEF Clean
<1> QED
  BY <1>1, <1>2, <1>3, <1>4

\* createFarm().
LEMMA Farm2InsertStep ==
  ASSUME PoolInv, Farm2Insert
  PROVE  PoolInv'
<1> USE DEF PoolInv
<1> DEFINE k == At(farm2.pid)
<1>1. farm2.pc = "insert" /\ UNCHANGED <<lending, done, idle>>
  BY DEF Farm2Insert, pool
<1>2. PICK c \in Conn : /\ farm2.conn = {c} /\ Held(farm2) = c
                        /\ c \notin lending.conn /\ c \notin Idle(idle)
  BY <1>1, WhoRests DEF Farm2Works
<1>3. conn[c].open /\ Clean(c)
  BY <1>1, <1>2 DEF OpenInv, Farm2Inv, Farm2Works
<1>4. CASE There(Current(c, k))
  <2>1. Farm2Goto("insert", "rollback") /\ UNCHANGED pool
    BY <1>2, <1>4 DEF Farm2Insert
  <2>2. Farm2Quiet
    BY <2>1, Farm2Moves DEF Farm2Quiet, Farm2Works
  <2>3. PoolQuiet
    BY <1>1, <2>1, PoolIsQuiet DEF pool
  <2>4. LendingQuiet
    BY <1>1 DEF LendingQuiet
  <2> QED
    BY <2>2, <2>3, <2>4, QuietStep
<1>5. CASE ~There(Current(c, k))
  <2>1. Farm2Goto("insert", "refresh") /\ Write(c, k, NewRow(1)) /\ ~Locked(c, k)
    BY <1>2, <1>5 DEF Farm2Insert
  <2>2. /\ farm2'.pc = "refresh" /\ farm2'.conn = farm2.conn /\ farm2'.pid = farm2.pid
        /\ DOMAIN farm2' = DOMAIN farm2
    BY <2>1, Farm2Moves
  <2>3. DOMAIN done' = Key /\ (\A j \in Key : IsRow(done'[j])) /\ IsRow(NewRow(1))
    BY <1>1, RowsAreRows DEF Shape, RowTypes
  <2>4. /\ Shape' /\ RowTypes'
        /\ \A j \in Key : db'[j] = db[j]
        /\ \A d \in Conn : conn'[d].open = conn[d].open
        /\ \A d \in Conn, j \in Key : conn'[d].rows[j] = IF d = c /\ j = k THEN NewRow(1) ELSE conn[d].rows[j]
        /\ \A d \in Conn \ {c} : Clean(d)' <=> Clean(d)
    BY <1>1, <1>3, <2>1, <2>2, <2>3, WritesInside
  <2>5. HeldInv'
    BY <1>1, <1>2, <2>2 DEF HeldInv, Farm2Works
  <2>6. OpenInv'
    BY <1>1, <1>2, <1>3, <2>2, <2>4, WhoRests DEF OpenInv
  <2>7. Farm2Inv'
    <3>1. \A j \in Key : conn'[c].rows[j] # Unwritten => j = k /\ conn'[c].rows[j] = NewRow(1)
      BY <1>3, <2>4 DEF Clean
    <3> QED
      BY <1>2, <2>2, <3>1 DEF Farm2Inv, At
  <2>8. LendingInv'
    <3>1. Row' = Row
      BY <1>1 DEF Row
    <3>2. ASSUME NEW d \in lending.conn, lending.pc = "commit", Row \in Key PROVE ~Locked(d, Row)'
      <4>1. d \in Conn \ {c}
        BY <1>2, WhoRests
      <4>2. conn[d].rows[Row] # Unwritten /\ ~Locked(d, Row)
        BY <3>2 DEF LendingInv
      <4>3. Row # k
        BY <2>1, <4>1, <4>2 DEF Locked
      <4> QED
        BY <2>4, <3>1, <3>2, <4>2, <4>3 DEF Locked
    <3>3. \A d \in lending.conn, j \in Key : conn'[d].rows[j] = conn[d].rows[j]
      BY <1>2, <2>4, WhoRests
    <3>4. \A d \in lending.conn : Clean(d)' <=> Clean(d)
      BY <1>2, <2>4, WhoRests
    <3> QED
      BY <1>1, <3>1, <3>2, <3>3, <3>4 DEF LendingInv
  <2>9. DoneInv'
    <3>1. Settled' = Settled /\ c \notin Settled /\ Settled \subseteq Conn
      BY <1>1, <1>2, <2>2, WhoRests DEF Settled
    <3> QED
      BY <1>1, <2>4, <3>1 DEF DoneInv
  <2> QED
    BY <2>4, <2>5, <2>6, <2>7, <2>8, <2>9
<1> QED
  BY <1>4, <1>5

\* refreshFarm(), the update: what it writes is the last that was, and stays on the
\* connection that goes back.
LEMMA Farm2UpdateStep ==
  ASSUME PoolInv, Farm2Update
  PROVE  PoolInv'
<1> USE DEF PoolInv
<1> DEFINE k == At(farm2.pid)
<1>1. farm2.pc = "update" /\ UNCHANGED <<lending, idle>>
  BY DEF Farm2Update
<1>2. PICK c \in Conn : /\ farm2.conn = {c} /\ Held(farm2) = c
                        /\ c \notin lending.conn /\ c \notin Idle(idle)
  BY <1>1, WhoRests DEF Farm2Works
<1>3. conn[c].open /\ \A j \in Key : conn[c].rows[j] # Unwritten => j = k
  BY <1>1, <1>2 DEF OpenInv, Farm2Inv, Farm2Works
<1>4. PICK f : /\ Write(c, k, [Current(c, k) EXCEPT !.on = TRUE, !.figures = {f}])
               /\ done' = [done EXCEPT ![k] = [Current(c, k) EXCEPT !.on = TRUE, !.figures = {f}]]
  BY <1>2 DEF Farm2Update
<1>5. PICK row : row = [Current(c, k) EXCEPT !.on = TRUE, !.figures = {f}]
  OBVIOUS
<1>6. Farm2Goto("update", "release") /\ ~Locked(c, k)
  BY <1>2 DEF Farm2Update
<1>7. /\ farm2'.pc = "release" /\ farm2'.conn = farm2.conn /\ farm2'.pid = farm2.pid
      /\ DOMAIN farm2' = DOMAIN farm2
  BY <1>6, Farm2Moves
<1>8. k \in Key => IsRow(row) /\ WholeRow(row)
  <2> HAVE k \in Key
  <2>1. IsRow(Current(c, k))
    BY CurrentRow DEF RowTypes
  <2> QED
    BY <1>5, <2>1, UpdatedIsRow
<1>9. Write(c, k, row) /\ done' = [done EXCEPT ![k] = row]
  BY <1>4, <1>5
<1>10. DOMAIN done' = Key /\ \A j \in Key : done'[j] = IF j = k THEN row ELSE done[j]
  BY <1>9 DEF Shape
<1>11. \A j \in Key : IsRow(done'[j])
  BY <1>8, <1>10 DEF RowTypes
<1> HIDE DEF k
<1>12. /\ Shape' /\ RowTypes'
       /\ \A j \in Key : db'[j] = db[j]
       /\ \A d \in Conn : conn'[d].open = conn[d].open
       /\ \A d \in Conn, j \in Key : conn'[d].rows[j] = IF d = c /\ j = k THEN row ELSE conn[d].rows[j]
       /\ \A d \in Conn \ {c} : Clean(d)' <=> Clean(d)
  BY <1>1, <1>3, <1>7, <1>8, <1>9, <1>10, <1>11, WritesInside
<1>13. HeldInv'
  BY <1>1, <1>2, <1>7 DEF HeldInv, Farm2Works
<1>14. OpenInv'
  BY <1>1, <1>2, <1>3, <1>7, <1>12, WhoRests DEF OpenInv, Farm2Works
<1>15. Farm2Inv'
  BY <1>7 DEF Farm2Inv
<1>16. LendingInv'
  <2>1. Row' = Row
    BY <1>1 DEF Row
  <2>2. ASSUME NEW d \in lending.conn, lending.pc = "commit", Row \in Key PROVE ~Locked(d, Row)'
    <3>1. d \in Conn \ {c}
      BY <1>2, WhoRests
    <3>2. conn[d].rows[Row] # Unwritten /\ ~Locked(d, Row)
      BY <2>2 DEF LendingInv
    <3>3. Row # k
      BY <1>6, <3>1, <3>2 DEF Locked
    <3> QED
      BY <1>12, <2>1, <2>2, <3>2, <3>3 DEF Locked
  <2>3. \A d \in lending.conn, j \in Key : conn'[d].rows[j] = conn[d].rows[j]
    BY <1>2, <1>12, WhoRests
  <2>4. \A d \in lending.conn : Clean(d)' <=> Clean(d)
    BY <1>2, <1>12, WhoRests
  <2> QED
    BY <1>1, <2>1, <2>2, <2>3, <2>4 DEF LendingInv
<1>17. DoneInv'
  <2>1. Settled' = Settled \cup {c} /\ c \notin Settled /\ Settled \subseteq Conn
    BY <1>1, <1>2, <1>7, WhoRests DEF Settled
  <2> SUFFICES ASSUME NEW j \in Key
               PROVE  /\ \A d \in Settled' : conn'[d].rows[j] \in {Unwritten, done'[j]}
                      /\ done'[j] \in {Absent, db'[j]} \/ \E d \in Settled' : conn'[d].rows[j] = done'[j]
                      /\ WholeRow(db'[j]) /\ WholeRow(done'[j])
    BY DEF DoneInv
  <2>2. /\ \A d \in Settled : conn[d].rows[j] \in {Unwritten, done[j]}
        /\ done[j] \in {Absent, db[j]} \/ \E d \in Settled : conn[d].rows[j] = done[j]
        /\ WholeRow(db[j]) /\ WholeRow(done[j])
    BY DEF DoneInv
  <2>3. CASE j # k
    <3>1. conn'[c].rows[j] = Unwritten
      BY <1>3, <1>12, <2>3
    <3> QED
      BY <1>10, <1>12, <2>1, <2>2, <2>3, <3>1
  <2>4. CASE j = k
    <3>1. conn'[c].rows[j] = row /\ done'[j] = row /\ db'[j] = db[j]
      BY <1>10, <1>12, <2>4
    <3>2. \A d \in Conn \ {c} : conn'[d].rows[j] = Unwritten
      BY <1>6, <1>12, <2>4 DEF Locked
    <3> QED
      BY <1>8, <2>1, <2>2, <2>4, <3>1, <3>2
  <2> QED
    BY <2>3, <2>4
<1> QED
  BY <1>12, <1>13, <1>14, <1>15, <1>16, <1>17

\* createLending() and refreshLendingMarket(): what the lending job writes is its own
\* until it commits; it commits what it has written last, and nobody else has that row.
LEMMA LendingWriteStep ==
  ASSUME PoolInv, NEW c \in Conn, lending.conn = {c}, NEW row, Write(c, Row, row),
         Row \in Key => IsRow(row), UNCHANGED <<idle, farm2, done>>,
         DOMAIN lending' = DOMAIN lending, lending'.conn = lending.conn, Row' = Row,
         \/ lending.pc = "insert" /\ lending'.pc = "update"
         \/ lending.pc = "update" /\ lending'.pc = "commit" /\ ~Locked(c, Row) /\ (Row \in Key => WholeRow(row))
  PROVE  PoolInv'
<1> USE DEF PoolInv
<1>1. c \notin farm2.conn /\ c \notin Idle(idle) /\ c \notin Settled /\ lending.pc \in {"insert", "update"}
  BY DEF HeldInv, Settled
<1>2. conn[c].open /\ \A j \in Key : conn[c].rows[j] # Unwritten => j = Row
  BY <1>1 DEF OpenInv, LendingInv, LendingWorks, Clean
<1>3. DOMAIN done' = Key /\ \A j \in Key : IsRow(done'[j])
  BY DEF Shape, RowTypes
<1>4. /\ Shape' /\ RowTypes'
      /\ \A j \in Key : db'[j] = db[j]
      /\ \A d \in Conn : conn'[d].open = conn[d].open
      /\ \A d \in Conn, j \in Key : conn'[d].rows[j] = IF d = c /\ j = Row THEN row ELSE conn[d].rows[j]
      /\ \A d \in Conn \ {c} : Clean(d)' <=> Clean(d)
  <2> DEFINE k == Row
  <2>1. Write(c, k, row) /\ (k \in Key => IsRow(row))
    OBVIOUS
  <2> HIDE DEF k
  <2>2. /\ Shape' /\ RowTypes'
        /\ \A j \in Key : db'[j] = db[j]
        /\ \A d \in Conn : conn'[d].open = conn[d].open
        /\ \A d \in Conn, j \in Key : conn'[d].rows[j] = IF d = c /\ j = k THEN row ELSE conn[d].rows[j]
        /\ \A d \in Conn \ {c} : Clean(d)' <=> Clean(d)
    BY <1>2, <1>3, <2>1, WritesInside
  <2> QED
    BY <2>2 DEF k
<1>5. HeldInv'
  BY DEF HeldInv, LendingWorks
<1>6. OpenInv'
  BY <1>1, <1>2, <1>4, WhoRests DEF OpenInv
<1>7. Farm2Inv'
  BY <1>1, <1>4, WhoRests DEF Farm2Inv
<1>8. LendingInv'
  <2>1. \A j \in Key : conn'[c].rows[j] # Unwritten => j = Row'
    BY <1>2, <1>4
  <2>2. ASSUME lending'.pc = "commit", NEW j \in Key
        PROVE  /\ WholeRow(conn'[c].rows[j])
               /\ j = Row' => conn'[c].rows[j] # Unwritten /\ ~Locked(c, j)'
    <3>1. lending.pc = "update" /\ ~Locked(c, Row) /\ (Row \in Key => WholeRow(row))
      BY <2>2
    <3>2. CASE j = Row
      <4>1. conn'[c].rows[j] = row /\ row # Unwritten /\ WholeRow(row)
        BY <1>4, <3>1, <3>2, RowsAreRows
      <4>2. ~Locked(c, j)'
        BY <1>4, <3>1, <3>2 DEF Locked
      <4> QED
        BY <4>1, <4>2
    <3>3. CASE j # Row
      <4>1. conn'[c].rows[j] = Unwritten
        BY <1>2, <1>4, <3>3
      <4> QED
        BY <3>3, <4>1, RowsAreRows
    <3> QED
      BY <3>2, <3>3
  <2> QED
    BY <2>1, <2>2 DEF LendingInv
<1>9. DoneInv'
  <2>1. Settled' = Settled /\ Settled \subseteq Conn
    BY WhoRests DEF Settled
  <2> QED
    BY <1>1, <1>4, <2>1 DEF DoneInv
<1> QED
  BY <1>4, <1>5, <1>6, <1>7, <1>8, <1>9

\* A transaction that is ended leaves its connection clean: rolled back, or, that of
\* the lending job, committed.
LEMMA EndStep ==
  ASSUME PoolInv, NEW c \in Conn, conn' = [conn EXCEPT ![c] = Closed], UNCHANGED idle,
         DOMAIN farm2' = DOMAIN farm2, DOMAIN lending' = DOMAIN lending,
         \/ /\ farm2.conn = {c} /\ farm2.pc = "rollback"
            /\ farm2'.conn = farm2.conn /\ farm2'.pc = "release"
            /\ UNCHANGED <<lending, db, done>>
         \/ /\ lending.conn = {c} /\ lending.pc = "rollback"
            /\ lending'.conn = lending.conn /\ lending'.pc = "release"
            /\ UNCHANGED <<farm2, db, done>>
         \/ /\ lending.conn = {c} /\ lending.pc = "commit"
            /\ lending'.conn = lending.conn /\ lending'.pc = "release"
            /\ db' = Over(conn[c].rows, db) /\ done' = [done EXCEPT ![Row] = Current(c, Row)]
            /\ UNCHANGED farm2
  PROVE  PoolInv'
<1> USE DEF PoolInv
<1>1. /\ DOMAIN conn' = Conn
      /\ \A d \in Conn : DOMAIN conn'[d] = {"open", "view", "rows"} /\ DOMAIN conn'[d].rows = Key
      /\ \A d \in Conn \ {c} : conn'[d].open = conn[d].open /\ conn'[d].rows = conn[d].rows
      /\ \A k \in Key : conn'[c].rows[k] = Unwritten
  BY Ends
<1>2. c \in farm2.conn \cup lending.conn /\ c \notin Idle(idle) /\ farm2.conn \cap lending.conn = {}
  BY DEF HeldInv
<1>3. DOMAIN db' = Key /\ DOMAIN done' = Key
  BY Commits DEF Shape
<1>4. Shape'
  BY <1>1, <1>3 DEF Shape
<1>5. ASSUME NEW k \in Key
      PROVE  \/ db'[k] = db[k] /\ done'[k] = done[k]
             \/ /\ lending.conn = {c} /\ db'[k] = conn[c].rows[k] /\ done'[k] = db'[k]
                /\ IsRow(db'[k]) /\ WholeRow(db'[k])
                /\ \A d \in Conn \ {c} : conn[d].rows[k] = Unwritten
  <2>1. CASE UNCHANGED <<db, done>>
    BY <2>1
  <2>2. CASE /\ lending.conn = {c} /\ lending.pc = "commit"
             /\ db' = Over(conn[c].rows, db) /\ done' = [done EXCEPT ![Row] = Current(c, Row)]
    <3>1. db'[k] = IF conn[c].rows[k] = Unwritten THEN db[k] ELSE conn[c].rows[k]
      BY <2>2, Commits
    <3>2. CASE k = Row
      <4>1. conn[c].rows[k] # Unwritten /\ ~Locked(c, k) /\ WholeRow(conn[c].rows[k])
        BY <2>2, <3>2 DEF LendingInv
      <4>2. done'[k] = conn[c].rows[k]
        BY <2>2, <3>2, <4>1, CurrentRow DEF Shape
      <4>3. IsRow(conn[c].rows[k])
        BY <4>1 DEF RowTypes
      <4> QED
        BY <2>2, <3>1, <4>1, <4>2, <4>3 DEF Locked
    <3>3. CASE k # Row
      <4>1. conn[c].rows[k] = Unwritten
        BY <2>2, <3>3 DEF LendingInv
      <4>2. done'[k] = done[k]
        BY <2>2, <3>3 DEF Shape
      <4> QED
        BY <3>1, <4>1, <4>2
    <3> QED
      BY <3>2, <3>3
  <2> QED
    BY <2>1, <2>2
<1>6. RowTypes'
  BY <1>1, <1>5 DEF RowTypes
<1>7. HeldInv'
  BY DEF HeldInv, Farm2Works, LendingWorks
<1>8. Clean(c)' /\ \A d \in Conn \ {c} : Clean(d)' <=> Clean(d)
  BY <1>1 DEF Clean
<1>9. OpenInv'
  BY <1>1, <1>2, <1>8, WhoRests DEF OpenInv, Farm2Works, LendingWorks
<1>10. Farm2Inv'
  <2>1. CASE farm2'.pc = "release"
    BY <2>1 DEF Farm2Inv
  <2>2. CASE UNCHANGED farm2
    BY <1>1, <1>8, <2>2, WhoRests DEF Farm2Inv
  <2> QED
    BY <2>1, <2>2
<1>11. LendingInv'
  <2>1. CASE lending'.pc = "release" /\ lending'.conn = {c}
    BY <1>8, <2>1 DEF LendingInv
  <2>2. CASE UNCHANGED lending /\ farm2.conn = {c}
    <3>1. Row' = Row
      BY <2>2 DEF Row
    <3>2. \A d \in Conn, k \in Key : Locked(d, k)' => Locked(d, k)
      BY <1>1 DEF Locked
    <3>3. \A d \in lending.conn : d \in Conn \ {c}
      BY <1>2, <2>2, WhoRests
    <3> QED
      BY <1>1, <1>8, <2>2, <3>1, <3>2, <3>3 DEF LendingInv
  <2> QED
    BY <2>1, <2>2
<1>12. DoneInv'
  <2>1. c \notin Settled /\ Settled' \in {Settled, Settled \cup {c}} /\ Settled \subseteq Conn
    BY <1>2, WhoRests DEF Settled
  <2> SUFFICES ASSUME NEW k \in Key
               PROVE  /\ \A d \in Settled' : conn'[d].rows[k] \in {Unwritten, done'[k]}
                      /\ done'[k] \in {Absent, db'[k]} \/ \E d \in Settled' : conn'[d].rows[k] = done'[k]
                      /\ WholeRow(db'[k]) /\ WholeRow(done'[k])
    BY DEF DoneInv
  <2>2. /\ \A d \in Settled : conn[d].rows[k] \in {Unwritten, done[k]}
        /\ done[k] \in {Absent, db[k]} \/ \E d \in Settled : conn[d].rows[k] = done[k]
        /\ WholeRow(db[k]) /\ WholeRow(done[k])
    BY DEF DoneInv
  <2>3. \A d \in Settled : conn'[d].rows[k] = conn[d].rows[k]
    BY <1>1, <2>1
  <2> QED
    BY <1>1, <1>5, <2>1, <2>2, <2>3
<1> QED
  BY <1>4, <1>6, <1>7, <1>9, <1>10, <1>11, <1>12

-----------------------------------------------------------------------------
(***************************************************************************)
(* The invariant.                                                          *)
(***************************************************************************)

LEMMA PoolInvAtFirst ==
  ASSUME Init
  PROVE  PoolInv
<1>1. /\ db = [k \in Key |-> Absent] /\ conn = [c \in Conn |-> Closed] /\ idle = Order
      /\ done = [k \in Key |-> Absent]
      /\ farm2.pc = "idle" /\ farm2.conn = {} /\ lending.pc = "idle" /\ lending.conn = {}
  BY DEF Init, PoolInit
<1>2. /\ DOMAIN farm2 = {"pc", "round", "pid", "infos", "over", "found", "conn"}
      /\ DOMAIN lending = {"pc", "round", "market", "info", "found", "conn"}
  BY DEF Init
<1>3. Order \in Seq(Conn) /\ EachOnce(Order)
  BY PoolRunAssumption, LenProperties DEF EachOnce
<1>4. /\ \A c \in Conn : DOMAIN conn[c] = {"open", "view", "rows"} /\ DOMAIN conn[c].rows = Key
      /\ \A c \in Conn : ~conn[c].open /\ \A k \in Key : conn[c].rows[k] = Unwritten
  BY <1>1, NewTransaction
<1>5. Idle(idle) \subseteq Conn
  BY <1>1, <1>3 DEF Idle
<1>6. Shape
  BY <1>1, <1>2, <1>3, <1>4 DEF Shape
<1>7. RowTypes
  BY <1>1, <1>4, RowsAreRows DEF RowTypes
<1>8. HeldInv
  BY <1>1 DEF HeldInv
<1>9. OpenInv
  BY <1>1, <1>4 DEF OpenInv, Clean
<1>10. Farm2Inv /\ LendingInv
  BY <1>1 DEF Farm2Inv, LendingInv
<1>11. DoneInv
  BY <1>1, <1>4, <1>5, RowsAreRows DEF DoneInv, Settled
<1> QED
  BY <1>6, <1>7, <1>8, <1>9, <1>10, <1>11 DEF PoolInv

\* The steps of the job of farm 2.
LEMMA Farm2Keeps ==
  ASSUME PoolInv, Farm2
  PROVE  PoolInv'
<1>1. Shape
  BY DEF PoolInv
<1>2. ASSUME PoolQuiet, UNCHANGED lending, Farm2Quiet PROVE PoolInv'
  BY <1>2, QuietStep DEF LendingQuiet
<1>3. ASSUME UNCHANGED pool, UNCHANGED done PROVE PoolQuiet
  BY <1>1, <1>3, PoolIsQuiet DEF pool
<1>4. CASE Farm2Begin \/ Farm2BeginFails
  <2>1. /\ farm2.pc = "idle" /\ farm2'.conn = farm2.conn /\ farm2'.pc \in {"idle", "find"}
        /\ DOMAIN farm2' = DOMAIN farm2
    BY <1>1, <1>4 DEF Farm2Begin, Farm2BeginFails, Shape
  <2>2. Farm2Quiet
    BY <2>1, WhoRests DEF Farm2Quiet, Farm2Rests
  <2>3. UNCHANGED pool /\ UNCHANGED <<done, lending>>
    BY <1>4 DEF Farm2Begin, Farm2BeginFails
  <2> QED
    BY <1>2, <1>3, <2>2, <2>3
<1>5. CASE Farm2Returns
  <2>1. /\ farm2.pc = "find" /\ farm2'.conn = farm2.conn /\ farm2'.pc = "idle"
        /\ DOMAIN farm2' = DOMAIN farm2
    BY <1>1, <1>5 DEF Farm2Returns, Shape
  <2>2. Farm2Quiet
    BY <2>1, WhoRests DEF Farm2Quiet, Farm2Rests
  <2>3. UNCHANGED pool /\ UNCHANGED <<done, lending>>
    BY <1>5 DEF Farm2Returns
  <2> QED
    BY <1>2, <1>3, <2>2, <2>3
<1>6. CASE Farm2Find
  <2>1. farm2.pc = "find" /\ UNCHANGED <<db, lending, done>>
    BY <1>6 DEF Farm2Find
  <2>2. PICK c \in Conn :
          /\ Passing(c) /\ Look(c)
          /\ \/ farm2' = [farm2 EXCEPT !.pc = "disable"]
             \/ Farm2Next
             \/ \E found : farm2' = [farm2 EXCEPT !.pc = "connect", !.found = found]
    BY <1>6 DEF Farm2Find
  <2>3. PoolQuiet
    BY <1>1, <2>1, <2>2, PoolIsQuiet
  <2>4. farm2.conn = {}
    BY <2>1, WhoRests DEF Farm2Rests
  <2>5. farm2'.conn = {} /\ farm2'.pc \in {"disable", "find", "idle", "connect"} /\ DOMAIN farm2' = DOMAIN farm2
    BY <1>1, <2>2, <2>4, Farm2GoesOn DEF Shape
  <2> QED
    BY <1>2, <2>1, <2>3, <2>4, <2>5 DEF Farm2Quiet
<1>7. CASE Farm2Disable
  <2>1. farm2.pc = "disable" /\ Farm2Next /\ UNCHANGED lending
    BY <1>7 DEF Farm2Disable
  <2> DEFINE k == At(farm2.pid)
  <2>2. PICK c \in Conn :
          /\ Passing(c) /\ ~Locked(c, k)
          /\ Write(c, k, [Current(c, k) EXCEPT !.on = FALSE])
          /\ done' = [done EXCEPT ![k] = [Current(c, k) EXCEPT !.on = FALSE]]
    BY <1>7 DEF Farm2Disable
  <2>3. PICK row : row = [Current(c, k) EXCEPT !.on = FALSE]
    OBVIOUS
  <2>4. Write(c, k, row) /\ done' = [done EXCEPT ![k] = row]
    BY <2>2, <2>3
  <2>5. k \in Key => IsRow(row) /\ WholeRow(row)
    BY <1>1, <2>2, <2>3, PassingKeeps, SwitchedCurrent, WhoRests
  <2>6. Farm2Rests /\ Farm2Rests' /\ DOMAIN farm2' = DOMAIN farm2
    BY <1>1, <2>1, WhoRests, Farm2GoesOn DEF Farm2Rests
  <2> HIDE DEF k
  <2> QED
    BY <2>1, <2>2, <2>4, <2>5, <2>6, BesideStep
<1>8. CASE Farm2Connect
  <2>1. farm2.pc = "connect" /\ UNCHANGED <<lending, done>>
    BY <1>8 DEF Farm2Connect
  <2>2. PICK c \in Conn :
          /\ StartTransaction(c)
          /\ farm2' = [farm2 EXCEPT !.pc = IF farm2.found THEN "refresh" ELSE "tokens", !.conn = {c}]
    BY <1>8 DEF Farm2Connect
  <2>3. farm2'.conn = {c} /\ farm2'.pc \in {"tokens", "refresh"} /\ DOMAIN farm2' = DOMAIN farm2
    BY <1>1, <2>2 DEF Shape
  <2> QED
    BY <2>1, <2>2, <2>3, StartStep, WhoRests
<1>9. ASSUME NEW known \in BOOLEAN, Farm2Tokens(known) PROVE PoolInv'
  <2>1. /\ Farm2Goto("tokens", IF known THEN "insert" ELSE "release")
        /\ idle # <<>> /\ UNCHANGED <<db, lending, done>>
    BY <1>9 DEF Farm2Tokens
  <2>2. /\ farm2.pc = "tokens" /\ farm2'.pc \in {"insert", "release"} /\ farm2'.conn = farm2.conn
        /\ farm2'.pid = farm2.pid /\ DOMAIN farm2' = DOMAIN farm2
    BY <1>1, <2>1, Farm2Moves
  <2>3. \A c \in farm2.conn : Clean(c)
    BY <2>2 DEF PoolInv, Farm2Inv
  <2>4. PoolQuiet
    <3> DEFINE n == IF Len(idle) = 1 THEN 1 ELSE 2
               looks == {idle[i] : i \in 1 .. n}
    <3>1. idle' = Rotated(n)
      BY <1>9 DEF Farm2Tokens
    <3>2. conn' = [c \in Conn |-> IF c \in looks /\ conn[c].open /\ conn[c].view = {}
                                  THEN [conn[c] EXCEPT !.view = {db}] ELSE conn[c]]
      BY <1>9 DEF Farm2Tokens
    <3>3. n \in 1 .. Len(idle)
      <4>1. idle \in Seq(Conn) /\ idle # <<>>
        BY <1>1, <2>1 DEF Shape
      <4>2. Len(idle) \in Nat \ {0}
        BY <4>1, HeadTailProperties, EmptySeq, LenProperties
      <4> QED
        BY <4>2
    <3>4. idle' \in Seq(Conn) /\ EachOnce(idle') /\ Idle(idle') = Idle(idle)
      BY <1>1, <3>1, <3>3, RotationKeeps DEF Shape
    <3> HIDE DEF n, looks
    <3>5. /\ DOMAIN conn' = Conn
          /\ \A c \in Conn : /\ DOMAIN conn'[c] = {"open", "view", "rows"}
                             /\ conn'[c].open = conn[c].open /\ conn'[c].rows = conn[c].rows
      BY <1>1, <3>2 DEF Shape
    <3> QED
      BY <2>1, <3>4, <3>5 DEF PoolQuiet
  <2> QED
    BY <2>1, <2>2, <2>3, <2>4, Farm2Advances DEF Farm2Works
<1>10. CASE Farm2Refresh
  <2> DEFINE row == Seen(Held(farm2), At(farm2.pid))
  <2>1. /\ Farm2Goto("refresh", IF ~There(row) THEN "rollback" ELSE IF ~row.on THEN "release" ELSE "update")
        /\ Look(Held(farm2)) /\ UNCHANGED <<db, idle, lending, done>>
    BY <1>10 DEF Farm2Refresh
  <2>2. farm2.pc = "refresh" /\ farm2'.conn = farm2.conn /\ farm2'.pid = farm2.pid /\ DOMAIN farm2' = DOMAIN farm2
    BY <1>1, <2>1, Farm2Moves
  <2>3. PICK c \in Conn : farm2.conn = {c} /\ Held(farm2) = c
    BY <2>2, WhoRests DEF Farm2Works
  <2>4. PoolQuiet
    BY <1>1, <2>1, <2>3, PoolIsQuiet
  <2>5. CASE ~There(row)
    <3>1. farm2'.pc = "rollback"
      BY <1>1, <2>1, <2>5, Farm2Moves
    <3> QED
      BY <1>2, <2>1, <2>2, <2>4, <3>1 DEF Farm2Quiet, Farm2Works
  <2>6. CASE There(row) /\ ~row.on
    <3>1. farm2'.pc = "release"
      BY <1>1, <2>1, <2>6, Farm2Moves
    <3>2. ASSUME NEW k \in Key, conn[c].rows[k] # Unwritten PROVE FALSE
      <4>1. k = At(farm2.pid) /\ conn[c].rows[k] = NewRow(1)
        BY <2>2, <2>3, <3>2 DEF PoolInv, Farm2Inv
      <4>2. row = NewRow(1)
        BY <2>3, <3>2, <4>1 DEF Seen, Over
      <4> QED
        BY <2>6, <4>2, RowsAreRows
    <3>3. Clean(c)
      BY <3>2 DEF Clean
    <3> QED
      BY <2>1, <2>2, <2>3, <2>4, <3>1, <3>3, Farm2Advances DEF Farm2Works
  <2>7. CASE There(row) /\ row.on
    <3>1. farm2'.pc = "update"
      BY <1>1, <2>1, <2>7, Farm2Moves
    <3> QED
      BY <2>1, <2>2, <2>4, <3>1, Farm2Advances DEF Farm2Works
  <2> QED
    BY <2>5, <2>6, <2>7
<1>11. CASE Farm2Fails
  <2>1. /\ farm2.pc \in Farm2Works /\ farm2' = [farm2 EXCEPT !.pc = "rollback"]
        /\ UNCHANGED pool /\ UNCHANGED <<done, lending>>
    BY <1>11 DEF Farm2Fails, Farm2Works
  <2>2. farm2'.pc = "rollback" /\ farm2'.conn = farm2.conn /\ DOMAIN farm2' = DOMAIN farm2
    BY <1>1, <2>1 DEF Shape
  <2> QED
    BY <1>2, <1>3, <2>1, <2>2 DEF Farm2Quiet
<1>12. CASE Farm2FailsEarly
  <2>1. farm2.pc \in {"find", "disable", "connect"} /\ Farm2Next /\ UNCHANGED pool /\ UNCHANGED <<done, lending>>
    BY <1>12 DEF Farm2FailsEarly
  <2>2. farm2.conn = {}
    BY <2>1, WhoRests DEF Farm2Rests
  <2> QED
    BY <1>1, <1>2, <1>3, <2>1, <2>2, Farm2GoesOn DEF Farm2Quiet
<1>13. CASE Farm2Rollback
  <2>1. /\ Farm2Goto("rollback", "release") /\ RollbackTransaction(Held(farm2))
        /\ UNCHANGED <<idle, lending, done>>
    BY <1>13 DEF Farm2Rollback
  <2>2. /\ farm2.pc = "rollback" /\ farm2'.pc = "release" /\ farm2'.conn = farm2.conn
        /\ DOMAIN farm2' = DOMAIN farm2
    BY <1>1, <2>1, Farm2Moves
  <2>3. PICK c \in Conn : farm2.conn = {c} /\ Held(farm2) = c
    BY <2>2, WhoRests
  <2>4. conn' = [conn EXCEPT ![c] = Closed] /\ UNCHANGED db
    BY <2>1, <2>3 DEF RollbackTransaction
  <2> QED
    BY <2>1, <2>2, <2>3, <2>4, EndStep
<1>14. CASE Farm2Release
  <2>1. farm2.pc = "release" /\ Release(Held(farm2)) /\ Farm2Next /\ UNCHANGED <<db, conn, lending, done>>
    BY <1>14 DEF Farm2Release
  <2>2. PICK c \in Conn : farm2.conn = {c} /\ Held(farm2) = c
    BY <2>1, WhoRests
  <2>3. Farm2Rests' /\ DOMAIN farm2' = DOMAIN farm2
    BY <1>1, <2>1, Farm2GoesOn DEF Farm2Rests
  <2> QED
    BY <2>1, <2>2, <2>3, ReleaseStep
<1> QED
  BY <1>4, <1>5, <1>6, <1>7, <1>8, <1>9, <1>10, <1>11, <1>12, <1>13, <1>14,
     Farm2InsertStep, Farm2UpdateStep DEF Farm2

\* The steps of the lending job.
LEMMA LendingKeeps ==
  ASSUME PoolInv, Lending
  PROVE  PoolInv'
<1>1. Shape
  BY DEF PoolInv
<1>2. ASSUME PoolQuiet, UNCHANGED farm2, LendingQuiet PROVE PoolInv'
  BY <1>2, QuietStep DEF Farm2Quiet
<1>3. ASSUME UNCHANGED pool, UNCHANGED done PROVE PoolQuiet
  BY <1>1, <1>3, PoolIsQuiet DEF pool
<1>4. CASE LendingBegin
  <2>1. /\ lending.pc = "idle" /\ lending'.conn = lending.conn /\ lending'.pc = "infos"
        /\ DOMAIN lending' = DOMAIN lending
    BY <1>1, <1>4 DEF LendingBegin, Shape
  <2>2. LendingQuiet
    BY <2>1, WhoRests DEF LendingQuiet, LendingRests
  <2>3. UNCHANGED pool /\ UNCHANGED <<done, farm2>>
    BY <1>4 DEF LendingBegin
  <2> QED
    BY <1>2, <1>3, <2>2, <2>3
<1>5. ASSUME NEW lost, NEW known, LendingInfos(lost, known) PROVE PoolInv'
  <2>1. lending.pc = "infos" /\ UNCHANGED <<farm2, done>>
    BY <1>5 DEF LendingInfos
  <2>2. PoolQuiet
    <3>1. CASE UNCHANGED pool
      BY <1>3, <2>1, <3>1
    <3>2. ASSUME NEW c \in Conn, Passing(c), Look(c), UNCHANGED db PROVE PoolQuiet
      BY <1>1, <2>1, <3>2, PoolIsQuiet
    <3> QED
      BY <1>5, <3>1, <3>2 DEF LendingInfos
  <2>3. LendingNext \/ \E info : lending' = [lending EXCEPT !.pc = "find", !.info = info]
    BY <1>5 DEF LendingInfos
  <2>4. lending.conn = {}
    BY <2>1, WhoRests DEF LendingRests
  <2>5. lending'.conn = {} /\ lending'.pc \in {"infos", "idle", "find"} /\ DOMAIN lending' = DOMAIN lending
    BY <1>1, <2>3, <2>4, LendingGoesOn DEF Shape
  <2> QED
    BY <1>2, <2>1, <2>2, <2>4, <2>5 DEF LendingQuiet
<1>6. CASE LendingFind
  <2>1. lending.pc = "find" /\ UNCHANGED <<db, farm2, done>>
    BY <1>6 DEF LendingFind
  <2>2. PICK c \in Conn :
          /\ Passing(c) /\ Look(c)
          /\ lending' = [lending EXCEPT !.found = There(Seen(c, Row)),
                           !.pc = IF ~IsListed /\ There(Seen(c, Row)) THEN "disable" ELSE "connect"]
    BY <1>6 DEF LendingFind
  <2>3. PoolQuiet
    BY <1>1, <2>1, <2>2, PoolIsQuiet
  <2>4. lending.conn = {}
    BY <2>1, WhoRests DEF LendingRests
  <2>5. lending'.conn = {} /\ lending'.pc \in {"disable", "connect"} /\ DOMAIN lending' = DOMAIN lending
    BY <1>1, <2>2, <2>4 DEF Shape
  <2> QED
    BY <1>2, <2>1, <2>3, <2>4, <2>5 DEF LendingQuiet
<1>7. CASE LendingDisable
  <2>1. lending.pc = "disable" /\ LendingNext /\ UNCHANGED farm2
    BY <1>7 DEF LendingDisable
  <2> DEFINE k == Row
  <2>2. PICK c \in Conn :
          /\ Passing(c) /\ ~Locked(c, k)
          /\ Write(c, k, [Current(c, k) EXCEPT !.on = FALSE])
          /\ done' = [done EXCEPT ![k] = [Current(c, k) EXCEPT !.on = FALSE]]
    BY <1>7 DEF LendingDisable
  <2>3. PICK row : row = [Current(c, k) EXCEPT !.on = FALSE]
    OBVIOUS
  <2>4. Write(c, k, row) /\ done' = [done EXCEPT ![k] = row]
    BY <2>2, <2>3
  <2>5. k \in Key => IsRow(row) /\ WholeRow(row)
    BY <1>1, <2>2, <2>3, PassingKeeps, SwitchedCurrent, WhoRests
  <2>6. LendingRests /\ LendingRests' /\ DOMAIN lending' = DOMAIN lending
    BY <1>1, <2>1, WhoRests, LendingGoesOn DEF LendingRests
  <2> HIDE DEF k
  <2> QED
    BY <2>1, <2>2, <2>4, <2>5, <2>6, BesideStep
<1>8. CASE LendingConnect
  <2>1. lending.pc = "connect" /\ UNCHANGED <<farm2, done>>
    BY <1>8 DEF LendingConnect
  <2>2. PICK c \in Conn :
          /\ StartTransaction(c)
          /\ lending' = [lending EXCEPT !.pc = IF lending.found THEN "update" ELSE "insert", !.conn = {c}]
    BY <1>8 DEF LendingConnect
  <2>3. lending'.conn = {c} /\ lending'.pc \in {"insert", "update"} /\ DOMAIN lending' = DOMAIN lending
    BY <1>1, <2>2 DEF Shape
  <2> QED
    BY <2>1, <2>2, <2>3, StartStep, WhoRests
<1>9. CASE LendingInsert
  <2>1. LendingGoto("insert", "update") /\ UNCHANGED <<idle, farm2, done>>
    BY <1>9 DEF LendingInsert
  <2>2. /\ lending.pc = "insert" /\ lending'.pc = "update" /\ lending'.conn = lending.conn
        /\ Row' = Row /\ DOMAIN lending' = DOMAIN lending
    BY <1>1, <2>1, LendingMoves
  <2>3. PICK c \in Conn : lending.conn = {c} /\ Held(lending) = c
    BY <2>2, WhoRests DEF LendingWorks
  <2>4. PICK n : Write(c, Row, NewRow(n))
    BY <1>9, <2>3 DEF LendingInsert
  <2>5. IsRow(NewRow(n))
    BY RowsAreRows
  <2> QED
    BY <2>1, <2>2, <2>3, <2>4, <2>5, LendingWriteStep
<1>10. CASE LendingUpdate
  <2>1. LendingGoto("update", "commit") /\ UNCHANGED <<idle, farm2, done>>
    BY <1>10 DEF LendingUpdate
  <2>2. /\ lending.pc = "update" /\ lending'.pc = "commit" /\ lending'.conn = lending.conn
        /\ Row' = Row /\ DOMAIN lending' = DOMAIN lending
    BY <1>1, <2>1, LendingMoves
  <2>3. PICK c \in Conn : lending.conn = {c} /\ Held(lending) = c
    BY <2>2, WhoRests DEF LendingWorks
  <2>4. PICK f : ~Locked(c, Row) /\ Write(c, Row, [Current(c, Row) EXCEPT !.on = TRUE, !.figures = {f}])
    BY <1>10, <2>3 DEF LendingUpdate
  <2>5. PICK row : row = [Current(c, Row) EXCEPT !.on = TRUE, !.figures = {f}]
    OBVIOUS
  <2>6. Row \in Key => IsRow(row) /\ WholeRow(row)
    <3> HAVE Row \in Key
    <3>1. IsRow(Current(c, Row))
      BY CurrentRow DEF PoolInv, RowTypes
    <3> QED
      BY <2>5, <3>1, UpdatedIsRow
  <2>7. Write(c, Row, row)
    BY <2>4, <2>5
  <2> QED
    BY <2>1, <2>2, <2>3, <2>4, <2>6, <2>7, LendingWriteStep
<1>11. CASE LendingCommit
  <2>1. LendingGoto("commit", "release") /\ UNCHANGED <<idle, farm2>>
    BY <1>11 DEF LendingCommit
  <2>2. /\ lending.pc = "commit" /\ lending'.pc = "release" /\ lending'.conn = lending.conn
        /\ DOMAIN lending' = DOMAIN lending
    BY <1>1, <2>1, LendingMoves
  <2>3. PICK c \in Conn : lending.conn = {c} /\ Held(lending) = c
    BY <2>2, WhoRests DEF LendingWorks
  <2>4. /\ conn' = [conn EXCEPT ![c] = Closed]
        /\ db' = Over(conn[c].rows, db) /\ done' = [done EXCEPT ![Row] = Current(c, Row)]
    BY <1>11, <2>3 DEF LendingCommit, Commit
  <2> QED
    BY <2>1, <2>2, <2>3, <2>4, EndStep
<1>12. CASE LendingFails
  <2>1. /\ lending.pc \in LendingWorks /\ lending' = [lending EXCEPT !.pc = "rollback"]
        /\ UNCHANGED pool /\ UNCHANGED <<done, farm2>>
    BY <1>12 DEF LendingFails, LendingWorks
  <2>2. lending'.pc = "rollback" /\ lending'.conn = lending.conn /\ DOMAIN lending' = DOMAIN lending
    BY <1>1, <2>1 DEF Shape
  <2> QED
    BY <1>2, <1>3, <2>1, <2>2 DEF LendingQuiet
<1>13. CASE LendingFailsEarly
  <2>1. /\ lending.pc \in {"infos", "find", "disable", "connect"} /\ LendingNext
        /\ UNCHANGED pool /\ UNCHANGED <<done, farm2>>
    BY <1>13 DEF LendingFailsEarly
  <2>2. lending.conn = {}
    BY <2>1, WhoRests DEF LendingRests
  <2> QED
    BY <1>1, <1>2, <1>3, <2>1, <2>2, LendingGoesOn DEF LendingQuiet
<1>14. CASE LendingRollback
  <2>1. /\ LendingGoto("rollback", "release") /\ RollbackTransaction(Held(lending))
        /\ UNCHANGED <<idle, farm2, done>>
    BY <1>14 DEF LendingRollback
  <2>2. /\ lending.pc = "rollback" /\ lending'.pc = "release" /\ lending'.conn = lending.conn
        /\ DOMAIN lending' = DOMAIN lending
    BY <1>1, <2>1, LendingMoves
  <2>3. PICK c \in Conn : lending.conn = {c} /\ Held(lending) = c
    BY <2>2, WhoRests
  <2>4. conn' = [conn EXCEPT ![c] = Closed] /\ UNCHANGED db
    BY <2>1, <2>3 DEF RollbackTransaction
  <2> QED
    BY <2>1, <2>2, <2>3, <2>4, EndStep
<1>15. CASE LendingRelease
  <2>1. lending.pc = "release" /\ Release(Held(lending)) /\ LendingNext /\ UNCHANGED <<db, conn, farm2, done>>
    BY <1>15 DEF LendingRelease
  <2>2. PICK c \in Conn : lending.conn = {c} /\ Held(lending) = c
    BY <2>1, WhoRests
  <2>3. LendingRests' /\ DOMAIN lending' = DOMAIN lending
    BY <1>1, <2>1, LendingGoesOn DEF LendingRests
  <2> QED
    BY <2>1, <2>2, <2>3, ReleaseStep
<1> QED
  BY <1>4, <1>5, <1>6, <1>7, <1>8, <1>9, <1>10, <1>11, <1>12, <1>13, <1>14, <1>15 DEF Lending

\* Who has which connection, what is open on it and what is written there: the
\* invariant both properties rest on.
THEOREM PoolSafety == Spec => []PoolInv
<1>1. Init => PoolInv
  BY PoolInvAtFirst
<1>2. PoolInv /\ [Next]_vars => PoolInv'
  <2> SUFFICES ASSUME PoolInv, [Next]_vars PROVE PoolInv'
    OBVIOUS
  <2>1. ASSUME UNCHANGED <<pool, farm2, lending, done>> PROVE PoolInv'
    <3>1. PoolQuiet
      BY <2>1, PoolIsQuiet DEF PoolInv, pool
    <3> QED
      BY <2>1, <3>1, QuietStep DEF Farm2Quiet, LendingQuiet
  <2>2. CASE UNCHANGED vars
    BY <2>1, <2>2 DEF vars
  <2>3. CASE (\E p \in Farm2Pid : EndPool(p)) \/ (\E m \in MarketNo : List(m))
    BY <2>1, <2>3 DEF EndPool, List, Edit
  <2> QED
    BY <2>2, <2>3, Farm2Keeps, LendingKeeps DEF Next
<1> QED
  BY <1>1, <1>2, PTL DEF Spec

\* A row the job of farm 2 has updated, or the lending job committed, is committed or
\* on its way, whoever gets the connection it is on and whatever is rolled back.
THEOREM WritesAreKept == Spec => []NoWriteIsLost
<1>1. PoolInv => NoWriteIsLost
  <2> SUFFICES ASSUME PoolInv, NEW k \in Key
               PROVE  done[k] \in {Absent, db[k]} \/ \E c \in Conn : conn[c].rows[k] = done[k]
    BY DEF NoWriteIsLost
  <2> QED
    BY WhoRests DEF PoolInv, DoneInv
<1> QED
  BY <1>1, PoolSafety, PTL

\* What is committed by somebody else's statement is whole.
THEOREM CommittedRowsAreWhole == Spec => []RowsAreWhole
<1>1. PoolInv => RowsAreWhole
  BY DEF PoolInv, DoneInv, WholeRow, RowsAreWhole
<1> QED
  BY <1>1, PoolSafety, PTL
=============================================================================
