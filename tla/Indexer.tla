-------------------------------- MODULE Indexer --------------------------------
(***************************************************************************)
(* What a cursor job promises (the interaction and the pair jobs): the     *)
(* chain is a row of numbered items, a block or a pair each, which only    *)
(* grows; the job passes over them in order, and an item the cursor has    *)
(* passed is stored, or was left out for good because the node answered    *)
(* with an error for it.                                                   *)
(***************************************************************************)
EXTENDS Integers

CONSTANTS
  Start,      \* the cursor of a fresh table
  LeavesOut   \* TRUE: a batch leaves out the items the node has an error for

VARIABLES
  head,       \* items the chain has
  cursor,     \* the job has passed the items Start .. cursor - 1
  stored,     \* items in the database
  lost        \* items left out

vars == <<head, cursor, stored, lost>>

Init ==
  /\ head \in Nat
  /\ cursor = Start
  /\ stored = {} /\ lost = {}

Grow ==
  /\ head' \in Nat /\ head' > head
  /\ UNCHANGED <<cursor, stored, lost>>

\* The job passes the items cursor .. e - 1 and leaves out those of E.
Advance(e, E) ==
  LET items == cursor .. e - 1
  IN /\ E \subseteq items
     /\ E # {} => LeavesOut
     /\ cursor' = e
     /\ stored' = stored \cup (items \ E)
     /\ lost' = lost \cup E
     /\ UNCHANGED head

Next == Grow \/ \E e \in cursor + 1 .. head : \E E \in SUBSET (cursor .. e - 1) : Advance(e, E)

Spec == Init /\ [][Next]_vars
=============================================================================
