----------------------------- MODULE SharedRow ------------------------------
(***************************************************************************)
(* What several objects with dirty flags promise when they stand for one   *)
(* row: each is a write-back cache of its own, saving one writes in one    *)
(* step what is pending in it and no other column, the row is made once    *)
(* and removed only by an object whose own deletion is pending, and a      *)
(* write is dropped only when a deletion was asked for.                    *)
(***************************************************************************)
CONSTANTS Objects, Creator, Owners, Columns, Cell, Default, NoRow, DeletedAt, Null

VARIABLES
  open,    \* open[o]: the object exists
  live,    \* live[o]: its values in memory
  pending, \* pending[o]: the columns that saving it still has to write
  saved,   \* the row in the table, or NoRow
  made     \* there was a row, or the deletion of a new object was saved

vars == <<open, live, pending, saved, made>>

Row == [Columns -> Cell]

Init ==
  /\ open = [o \in Objects |-> o = Creator]
  /\ live = [o \in Objects |-> [c \in Columns |-> Default]]
  /\ pending = [o \in Objects |-> IF o = Creator THEN Columns ELSE {}]
  /\ saved = NoRow
  /\ made = FALSE

\* Another object is made of the row in the table.
Open(o) ==
  /\ ~open[o] /\ saved # NoRow
  /\ open' = [open EXCEPT ![o] = TRUE]
  /\ live' = [live EXCEPT ![o] = saved]
  /\ pending' = [pending EXCEPT ![o] = {}]
  /\ UNCHANGED <<saved, made>>

Put(o, c, v) ==
  /\ open[o] /\ o \in Owners[c]
  /\ live' = [live EXCEPT ![o][c] = v]
  /\ pending' = [pending EXCEPT ![o] = @ \cup {c}]
  /\ UNCHANGED <<open, saved, made>>

\* Saving forgets what is pending but the columns that are assigned meanwhile.
Saving(o, kept) ==
  /\ open[o] /\ kept \subseteq pending[o]
  /\ pending' = [pending EXCEPT ![o] = kept]
  /\ made' = TRUE
  /\ UNCHANGED <<open, live>>

Save(o) ==
  \E kept \in SUBSET pending[o] :
    /\ Saving(o, kept)
    /\ saved' \in Row
    /\ \A c \in pending[o] \ kept : saved'[c] = live[o][c]
    /\ \A c \in Columns \ pending[o] : saved # NoRow /\ saved'[c] = saved[c]
    /\ saved = NoRow => o = Creator /\ ~made

Remove(o) ==
  \E kept \in SUBSET pending[o] :
    /\ Saving(o, kept)
    /\ DeletedAt \in pending[o] /\ live[o][DeletedAt] \notin {Default, Null}
    /\ saved' = NoRow

\* The row was removed: there is nothing to write to.
Miss(o) ==
  \E kept \in SUBSET pending[o] :
    /\ Saving(o, kept)
    /\ \E p \in Objects : open[p] /\ live[p][DeletedAt] \notin {Default, Null}
    /\ saved = NoRow /\ saved' = NoRow

Next ==
  \E o \in Objects :
    \/ Open(o)
    \/ \E c \in Columns, v \in Cell : Put(o, c, v)
    \/ Save(o) \/ Remove(o) \/ Miss(o)

Spec == Init /\ [][Next]_vars
=============================================================================
