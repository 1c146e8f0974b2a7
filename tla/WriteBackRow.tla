---------------------------- MODULE WriteBackRow ----------------------------
(***************************************************************************)
(* What an object with dirty flags promises its user: assignments are kept *)
(* in memory and remembered as pending; saving writes pending columns and  *)
(* forgets a column only when the table has the value the memory has.      *)
(***************************************************************************)
CONSTANTS Columns, Cell, Default, NoRow, DeletedAt, Null

VARIABLES
  live,    \* the values in memory
  saved,   \* the row in the table, or NoRow
  pending  \* the columns that saving still has to write

vars == <<live, saved, pending>>

Row == [Columns -> Cell]

Init ==
  /\ live = [c \in Columns |-> Default]
  /\ saved = NoRow
  /\ pending = Columns

Put(c, v) ==
  /\ live' = [live EXCEPT ![c] = v]
  /\ pending' = pending \cup {c}
  /\ UNCHANGED saved

\* A column that is written while it is being assigned again stays pending.
Save ==
  /\ pending' \subseteq pending
  /\ saved' \in Row
  /\ \A c \in Columns \ pending' : saved'[c] = live[c]
  /\ UNCHANGED live

\* The row goes when deleted_at was set and is saved.
Remove ==
  /\ live[DeletedAt] \notin {Default, Null}
  /\ saved' = NoRow
  /\ pending' \subseteq pending
  /\ UNCHANGED live

Next ==
  \/ \E c \in Columns, v \in Cell : Put(c, v)
  \/ Save
  \/ Remove

Spec == Init /\ [][Next]_vars
=============================================================================
