----------------------------- MODULE ConnectionPool ----------------------------
(***************************************************************************)
(* The connections all the jobs of a process share, as the code in src     *)
(* uses them (typeorm 0.2 over mysql 2.18, InnoDB, REPEATABLE READ).       *)
(*                                                                         *)
(* The pool hands out the connection that has been idle longest.  It looks *)
(* at nothing when it takes one back: a transaction that is open then      *)
(* stays open, with its snapshot, its rows and their locks, until a        *)
(* statement on that connection ends it.  START TRANSACTION does: it       *)
(* commits what is open.                                                   *)
(***************************************************************************)
EXTENDS Integers, Sequences

CONSTANTS
  Conn,  \* connections of the pool
  Key    \* the rows there may be, by what they are looked up by

VARIABLES
  db,    \* db[k]: the committed row, or Absent
  conn,  \* conn[c]: what the server keeps for a connection
  idle   \* the connections nobody holds, longest idle first

pool == <<db, conn, idle>>

Absent == [row |-> "absent"]
Unwritten == [row |-> "unwritten"]
Closed == [open |-> FALSE, view |-> {}, rows |-> [k \in Key |-> Unwritten]]
Opened == [Closed EXCEPT !.open = TRUE]

PoolInit(order) ==
  /\ db = [k \in Key |-> Absent]
  /\ conn = [c \in Conn |-> Closed]
  /\ idle = order

\* `rows` over `base`.
Over(rows, base) == [k \in Key |-> IF rows[k] = Unwritten THEN base[k] ELSE rows[k]]

\* What a SELECT sees: its own rows, over the snapshot of the first SELECT of the transaction.
Seen(c, k) ==
  Over(conn[c].rows, IF conn[c].view = {} THEN db ELSE CHOOSE v \in conn[c].view : TRUE)[k]

\* What an INSERT or UPDATE sees: its own rows, over what is committed by now.
Current(c, k) == Over(conn[c].rows, db)[k]

\* The row is another transaction's: the statement waits.
Locked(c, k) == \E d \in Conn \ {c} : conn[d].rows[k] # Unwritten

Look(c) ==
  conn' = IF conn[c].open /\ conn[c].view = {} THEN [conn EXCEPT ![c].view = {db}] ELSE conn

\* Without a transaction a statement commits itself.
Write(c, k, row) ==
  IF conn[c].open
  THEN conn' = [conn EXCEPT ![c].rows[k] = row] /\ UNCHANGED db
  ELSE db' = [db EXCEPT ![k] = row] /\ UNCHANGED conn

-----------------------------------------------------------------------------
\* A statement without a transaction's manager: it has the connection for itself alone.
Passing(c) ==
  /\ idle # <<>>
  /\ c = Head(idle)
  /\ idle' = Append(Tail(idle), c)

Hold(c) ==
  /\ idle # <<>>
  /\ c = Head(idle)
  /\ idle' = Tail(idle)

Release(c) == idle' = Append(idle, c)

\* connect() and startTransaction().  Variant: a transaction that is open goes on.
StartTransactionInside(c) ==
  /\ Hold(c)
  /\ conn' = [conn EXCEPT ![c].open = TRUE]
  /\ UNCHANGED db

StartTransaction(c) ==
  /\ Hold(c)
  /\ db' = Over(conn[c].rows, db)
  /\ conn' = [conn EXCEPT ![c] = Opened]

Commit(c) ==
  /\ db' = Over(conn[c].rows, db)
  /\ conn' = [conn EXCEPT ![c] = Closed]

RollbackTransaction(c) ==
  /\ conn' = [conn EXCEPT ![c] = Closed]
  /\ UNCHANGED db
=============================================================================
