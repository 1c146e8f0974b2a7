--------------------------- MODULE WriteBackProofs ---------------------------
(***************************************************************************)
(* RowFlush implements WriteBackRow and SharedRow: objects that are each   *)
(* flushed by one thread at a time over a table that answers keep what     *)
(* write-back caches promise, one alone and several of one row, for every  *)
(* number of objects, assigning threads, columns and values, and whether   *)
(* rows are deleted softly or not.                                         *)
(***************************************************************************)
EXTENDS RowFlushProofs

USE EntriesAssumption, ThreadsAssumption, ColumnsAssumption, ValuesAssumption,
    SwitchesAssumption

-----------------------------------------------------------------------------
\* The conditions of Serial, and no other server has loaded the row.
OneObject == Serial /\ Entries = {Creator}

\* The object is there from the start.  While the row is stored, every column is
\* waiting or saved, also when the deletion of the row was asked for.
SavedInv ==
  /\ loaded[Creator]
  /\ row # NoRow =>
       \A c \in Columns : Waiting(Creator, c) \/ row[c] = data[Creator][c]

\* The users of the only object are all threads.
LEMMA OneHomeOnly ==
  ASSUME OneObject, NEW t \in Threads
  PROVE  Home[t] = Creator
  BY DEF OneObject

-----------------------------------------------------------------------------
(* What is pending *)

\* A column is pending when its bit is set or a flush is about to write it.
LEMMA PendingMembers ==
  ASSUME NEW e, NEW c
  PROVE  c \in Pending(e) <=>
           \/ c \in flags[e]
           \/ \E t \in Threads : Home[t] = e /\ pc[t] \in InStatement /\ c \in loc[t].dirty
  BY DEF Pending, InStatement

\* So it is in the next state.
LEMMA PendingNext ==
  ASSUME NEW e, NEW c
  PROVE  c \in Pending(e)' <=>
           \/ c \in flags'[e]
           \/ \E t \in Threads : Home[t] = e /\ pc'[t] \in InStatement /\ c \in loc'[t].dirty
  BY DEF Pending, InStatement

\* A step of a thread that takes no part in a statement of the object, before
\* it and after.
LEMMA PendingStays ==
  ASSUME NEW t \in Threads, OthersStay(t), NEW e,
         Home[t] # e \/ (pc[t] \notin InStatement /\ pc'[t] \notin InStatement),
         flags'[e] = flags[e]
  PROVE  Pending(e)' = Pending(e)
  <1>1. ASSUME NEW c PROVE c \in Pending(e)' <=> c \in Pending(e)
    BY PendingMembers, PendingNext DEF OthersStay
  <1> QED
    BY <1>1

\* Such a step that sets a bit.
LEMMA PendingGrows ==
  ASSUME NEW t \in Threads, OthersStay(t), NEW e, NEW d,
         pc[t] \notin InStatement, pc'[t] \notin InStatement,
         flags'[e] = flags[e] \cup {d}
  PROVE  Pending(e)' = Pending(e) \cup {d}
  <1>1. ASSUME NEW c PROVE c \in Pending(e)' <=> c \in Pending(e) \cup {d}
    BY PendingMembers, PendingNext DEF OthersStay
  <1> QED
    BY <1>1

\* flush() moves the bits to its locals: they stay pending.
LEMMA PendingTaken ==
  ASSUME TypeOK, NEW t \in Threads, FlushBegin(t), NEW e \in Entries
  PROVE  Pending(e)' = Pending(e)
  <1>1. /\ pc[t] = "idle" /\ pc'[t] = "read" /\ OthersStay(t)
        /\ loc'[t].dirty = flags[Home[t]] /\ flags' = [flags EXCEPT ![Home[t]] = {}]
    BY BeginEffect
  <1>2. CASE Home[t] # e
    <2>1. flags'[e] = flags[e]
      BY <1>1, <1>2 DEF TypeOK
    <2> QED
      BY <1>1, <1>2, <2>1, PendingStays
  <1>3. CASE Home[t] = e
    <2>1. flags'[e] = {} /\ loc'[t].dirty = flags[e]
      BY <1>1, <1>3 DEF TypeOK
    <2>2. ASSUME NEW c PROVE c \in Pending(e)' <=> c \in Pending(e)
      BY <1>1, <1>3, <2>1, PendingMembers, PendingNext DEF OthersStay, InStatement
    <2> QED
      BY <2>2
  <1> QED
    BY <1>2, <1>3

\* A turn of the loop over the attributes leaves them pending.
LEMMA PendingRead ==
  ASSUME TypeOK, NEW t \in Threads, FlushRead(t), NEW e
  PROVE  Pending(e)' = Pending(e)
  <1>1. /\ pc[t] \in InStatement /\ pc'[t] \in InStatement /\ OthersStay(t)
        /\ loc'[t].dirty = loc[t].dirty /\ flags' = flags
    BY ReadKeeps DEF entryVars, InStatement
  <1>2. ASSUME NEW c PROVE c \in Pending(e)' <=> c \in Pending(e)
    BY <1>1, PendingMembers, PendingNext DEF OthersStay
  <1> QED
    BY <1>2

\* Once the statement has run, only the bits set meanwhile are pending; before
\* it, what the flush took is, too.
LEMMA PendingWritten ==
  ASSUME Serial, TypeOK, StampInv, NEW t \in Threads, FlushExec(t)
  PROVE  LET e == Home[t]
         IN  /\ Pending(e)' = flags[e]
             /\ \A c : c \in Pending(e) <=> c \in flags[e] \/ c \in loc[t].dirty
             /\ \A f \in Entries \ {e} : Pending(f)' = Pending(f)
  <1> DEFINE e == Home[t]
  <1>1. /\ pc[t] = "exec" /\ pc'[t] = "mark" /\ OthersStay(t)
        /\ UNCHANGED <<flags, loc>>
    BY DEF FlushExec, TypeOK, OthersStay, entryVars
  <1>2. ASSUME NEW u \in Threads, Home[u] = e, pc[u] \in InStatement PROVE u = t
    <2>1. pc[u] \in InFlight /\ pc[t] \in InFlight
      BY <1>1, <1>2 DEF InStatement, InFlight
    <2>2. t \in Flushers
      BY <2>1 DEF StampInv
    <2> QED
      BY <1>2, <2>1, <2>2, Alone
  <1>3. ASSUME NEW u \in Threads, Home[u] = e PROVE pc'[u] \notin InStatement
    <2>1. CASE u = t
      BY <1>1, <2>1 DEF InStatement
    <2>2. CASE u # t
      BY <1>1, <1>2, <1>3, <2>2 DEF OthersStay
    <2> QED
      BY <2>1, <2>2
  <1>4. ASSUME NEW c PROVE c \in Pending(e)' <=> c \in flags[e]
    BY <1>1, <1>3, PendingNext
  <1>5. ASSUME NEW c PROVE c \in Pending(e) <=> c \in flags[e] \/ c \in loc[t].dirty
    BY <1>1, <1>2, PendingMembers DEF InStatement
  <1>6. ASSUME NEW f \in Entries \ {e} PROVE Pending(f)' = Pending(f)
    BY <1>1, <1>6, PendingStays
  <1> QED
    BY <1>4, <1>5, <1>6

-----------------------------------------------------------------------------
(* The strengthening: whatever is not pending is saved, while there is a row *)

\* What a statement does to a table whose saved columns are right.
LEMMA ExecWrites ==
  ASSUME Serial, BaseInv, StampInv, FirstInv, ReadInv, NEW t \in Threads,
         FlushExec(t), row' # NoRow, NEW c \in Columns,
         c \notin flags[Home[t]]
  PROVE  IF c \in loc[t].dirty
         THEN row'[c] = data[Home[t]][c]
         ELSE row # NoRow /\ row'[c] = row[c]
  <1>1. pc[t] = "exec" /\ row' = Applied(loc[t])
    BY DEF FlushExec
  <1>2. ~loc[t].delete
    BY <1>1 DEF Applied
  <1>3. loc[t].todo = {} /\ (loc[t].insert => loc[t].dirty = Columns)
    BY <1>1 DEF FirstInv, InStatement
  <1>4. c \in loc[t].dirty => loc[t].got[c] = data[Home[t]][c]
    BY <1>1, <1>3 DEF ReadInv, InStatement
  <1>5. row' = NoRow \/ row'[c] = IF c \in loc[t].dirty THEN loc[t].got[c] ELSE row[c]
    BY <1>1, <1>2, <1>3 DEF Applied
  <1>6. c \notin loc[t].dirty => row # NoRow
    BY <1>1, <1>2, <1>3 DEF Applied
  <1> QED
    BY <1>4, <1>5, <1>6

\* A step of another thread leaves a column that waits for a flush waiting.
LEMMA WaitingStays ==
  ASSUME NEW t \in Threads, OthersStay(t), NEW e \in Entries, NEW c \in Columns,
         pc[t] \notin InStatement \/ Home[t] # e,
         \/ c \in flags'[e]
         \/ data'[e][c] = data[e][c] /\ flags[e] \subseteq flags'[e],
         Waiting(e, c)
  PROVE  Waiting(e, c)'
  <1>1. CASE c \in flags'[e]
    BY <1>1 DEF Waiting
  <1>2. CASE data'[e][c] = data[e][c] /\ flags[e] \subseteq flags'[e]
    <2>1. CASE c \in flags[e]
      BY <1>2, <2>1 DEF Waiting
    <2>2. ASSUME NEW u \in Threads, Home[u] = e, pc[u] \in InStatement,
                 c \in loc[u].dirty, c \in loc[u].todo \/ loc[u].got[c] = data[e][c]
          PROVE  Waiting(e, c)'
      <3>1. u # t
        BY <2>2
      <3>2. pc'[u] = pc[u] /\ loc'[u] = loc[u]
        BY <3>1 DEF OthersStay
      <3> QED
        BY <1>2, <2>2, <3>2 DEF Waiting
    <2> QED
      BY <2>1, <2>2 DEF Waiting
  <1> QED
    BY <1>1, <1>2

LEMMA SavedInvStep ==
  ASSUME OneObject, BaseInv, StampInv, FirstInv, ReadInv, SavedInv, [Next]_vars
  PROVE  SavedInv'
  <1> DEFINE e == Creator
             Goal(c) == Waiting(e, c)' \/ row'[c] = data'[e][c]
  <1>0. TypeOK /\ Serial /\ e \in Entries /\ loaded[e]
    BY DEF BaseInv, OneObject, SavedInv
  <1>4. ASSUME NEW f \in Entries, Load(f) PROVE FALSE
    BY <1>0, <1>4 DEF OneObject, Load
  <1>14. loaded'[e]
    <2>1. ASSUME NEW t \in Threads, Assign(t) \/ Flush(t) PROVE loaded' = loaded
      BY <2>1 DEF Assign, AssignCompare, AssignStore, SetValue, DeleteLater, Store,
                  Flush, FlushClean, FlushBegin, FlushRead, FlushNothing, FlushExec,
                  FlushFails, FlushLosesReply, FlushMark, FlushAck, vars, entryVars
    <2>2. Tick \/ UNCHANGED vars => loaded' = loaded
      BY DEF Tick, vars, entryVars
    <2> QED
      BY <1>0, <1>4, <2>1, <2>2 DEF Next
  <1> SUFFICES ASSUME row' # NoRow, NEW c \in Columns PROVE Goal(c)
    BY <1>14 DEF SavedInv
  <1>1. row # NoRow => Waiting(e, c) \/ row[c] = data[e][c]
    BY DEF SavedInv
  <1>2. CASE UNCHANGED <<data, flags, row, pc, loc>>
    BY <1>1, <1>2 DEF Waiting
  <1>5. ASSUME NEW t \in Threads, OthersStay(t), pc[t] \notin InStatement, row' = row,
               \/ c \in flags'[e]
               \/ data'[e][c] = data[e][c] /\ flags[e] \subseteq flags'[e]
        PROVE  Goal(c)
    <2>1. CASE Waiting(e, c)
      BY <1>0, <1>5, <2>1, WaitingStays
    <2>2. CASE c \in flags'[e]
      BY <2>2 DEF Waiting
    <2> QED
      BY <1>1, <1>5, <2>1, <2>2
  <1>6. ASSUME NEW t \in Threads, NEW d \in Columns, NEW v \in Value, Store(e, d, v)
        PROVE  /\ row' = row
               /\ \/ c \in flags'[e]
                  \/ data'[e][c] = data[e][c] /\ flags[e] \subseteq flags'[e]
    BY <1>0, <1>6, StoreEffect
  <1>7. ASSUME NEW t \in Threads, Assign(t) PROVE Goal(c)
    <2>1. Home[t] = e
      BY OneHomeOnly
    <2>2. ASSUME NEW d \in Columns, NEW v \in Value, AssignCompare(t, d, v)
          PROVE  Goal(c)
      BY <1>0, <1>5, <2>2, CompareEffect DEF entryVars, InStatement
    <2>3. ASSUME NEW d \in Columns, NEW v \in Value,
                 SetValue(t, d, v) \/ (d = DeletedAt /\ DeleteLater(t, v))
          PROVE  Goal(c)
      <3>1. OthersStay(t) /\ pc[t] \notin InStatement /\ Store(e, d, v)
        BY <2>1, <2>3
           DEF SetValue, DeleteLater, MayAssign, Idle, InStatement, OthersStay
      <3> QED
        BY <3>1, <1>5, <1>6
    <2>4. ASSUME AssignStore(t) PROVE Goal(c)
      <3>1. loc[t].col \in Columns /\ loc[t].val \in Value
        BY <1>0, loc[t] \in Locals DEF TypeOK, Locals
      <3>2. /\ OthersStay(t) /\ pc[t] \notin InStatement
            /\ Store(e, loc[t].col, loc[t].val)
        BY <1>0, <2>1, <2>4, ReturnEffect DEF AssignStore, InStatement
      <3> QED
        BY <3>1, <3>2, <1>5, <1>6
    <2> QED
      BY <1>7, <2>2, <2>3, <2>4 DEF Assign
  <1>8. ASSUME NEW t \in Threads, FlushBegin(t) PROVE Goal(c)
    <2>1. /\ OthersStay(t) /\ pc[t] = "idle" /\ pc'[t] = "read" /\ Home[t] = e
          /\ loc'[t].dirty = flags[e] /\ loc'[t].todo = flags[e]
          /\ UNCHANGED <<data, row>>
      BY <1>0, <1>8, BeginEffect, OneHomeOnly
    <2>2. CASE c \in flags[e]
      BY <2>1, <2>2 DEF Waiting, InStatement
    <2>3. ASSUME NEW u \in Threads, Home[u] = e, pc[u] \in InStatement,
                 c \in loc[u].dirty, c \in loc[u].todo \/ loc[u].got[c] = data[e][c]
          PROVE  Goal(c)
      <3>1. u # t
        BY <2>1, <2>3 DEF InStatement
      <3>2. pc'[u] = pc[u] /\ loc'[u] = loc[u]
        BY <2>1, <3>1 DEF OthersStay
      <3> QED
        BY <2>1, <2>3, <3>2 DEF Waiting
    <2> QED
      BY <1>1, <2>1, <2>2, <2>3 DEF Waiting
  <1>9. ASSUME NEW t \in Threads, FlushRead(t) PROVE Goal(c)
    <2>1. PICK d \in loc[t].todo :
            /\ pc[t] = "read" /\ OthersStay(t)
            /\ loc'[t].todo = loc[t].todo \ {d}
            /\ loc'[t].got = [loc[t].got EXCEPT ![d] = data[Home[t]][d]]
            /\ UNCHANGED <<clock, entryVars, row>>
      BY <1>0, <1>9, ReadEffect
    <2>2. /\ pc'[t] \in InStatement /\ loc'[t].dirty = loc[t].dirty /\ Home[t] = e
          /\ UNCHANGED <<data, flags, row>>
      BY <1>0, <1>9, ReadKeeps, OneHomeOnly DEF entryVars
    <2>3. DOMAIN loc[t].got = Columns
      BY <1>0, loc[t] \in Locals DEF TypeOK, Locals, Row
    <2>4. CASE c \in loc[t].dirty /\ (c \in loc[t].todo \/ loc[t].got[c] = data[e][c])
      <3>1. c \in loc'[t].todo \/ loc'[t].got[c] = data'[e][c]
        BY <2>1, <2>2, <2>3, <2>4
      <3> QED
        BY <2>2, <2>4, <3>1 DEF Waiting
    <2>5. ASSUME NEW u \in Threads, Home[u] = e, pc[u] \in InStatement, u # t,
                 c \in loc[u].dirty, c \in loc[u].todo \/ loc[u].got[c] = data[e][c]
          PROVE  Goal(c)
      <3>1. pc'[u] = pc[u] /\ loc'[u] = loc[u]
        BY <2>1, <2>5 DEF OthersStay
      <3> QED
        BY <2>2, <2>5, <3>1 DEF Waiting
    <2>6. CASE c \in flags[e]
      BY <2>2, <2>6 DEF Waiting
    <2> QED
      BY <1>1, <2>2, <2>4, <2>5, <2>6 DEF Waiting
  <1>10. ASSUME NEW t \in Threads, FlushExec(t) PROVE Goal(c)
    <2>1. /\ pc[t] = "exec" /\ OthersStay(t) /\ UNCHANGED <<data, flags>>
      BY <1>0, <1>10 DEF FlushExec, entryVars, OthersStay, TypeOK
    <2>2. Home[t] = e
      BY OneHomeOnly
    <2>3. CASE c \in flags[e]
      BY <2>1, <2>3 DEF Waiting
    <2>4. CASE c \notin flags[e] /\ c \in loc[t].dirty
      BY <1>0, <1>10, <2>1, <2>2, <2>4, ExecWrites
    <2>5. CASE c \notin flags[e] /\ c \notin loc[t].dirty
      <3>1. row # NoRow /\ row'[c] = row[c]
        BY <1>0, <1>10, <2>2, <2>5, ExecWrites
      <3>2. ASSUME NEW u \in Threads, Home[u] = e, pc[u] \in InStatement,
                   c \in loc[u].dirty, c \in loc[u].todo \/ loc[u].got[c] = data[e][c]
            PROVE  Goal(c)
        <4>1. u # t
          BY <2>5, <3>2
        <4>2. pc'[u] = pc[u] /\ loc'[u] = loc[u]
          BY <2>1, <4>1 DEF OthersStay
        <4> QED
          BY <2>1, <3>2, <4>2 DEF Waiting
      <3> QED
        BY <1>1, <2>1, <2>5, <3>1, <3>2 DEF Waiting
    <2> QED
      BY <2>3, <2>4, <2>5
  <1>11. ASSUME NEW t \in Threads, FlushMark(t) PROVE Goal(c)
    BY <1>0, <1>5, <1>11 DEF FlushMark, OthersStay, TypeOK, InStatement
  <1>12. ASSUME NEW t \in Threads, FlushAck(t) PROVE Goal(c)
    <2>1. flags' = flags
      BY <1>0, <1>12, Home[t] \in Entries
         DEF FlushAck, LeftFlags, StampInv, InFlight, TypeOK
    <2> QED
      BY <1>0, <1>5, <1>12, <2>1, ReturnEffect DEF FlushAck, InStatement
  <1>13. ASSUME NEW t \in Threads, Flush(t) PROVE Goal(c)
    BY <1>0, <1>13, <1>2, <1>8, <1>9, <1>10, <1>11, <1>12, NoRefusal
       DEF Flush, FlushClean, FlushNothing, FlushLosesReply, Serial, vars, entryVars
  <1> QED
    BY <1>2, <1>4, <1>7, <1>13 DEF Next, Tick, vars, entryVars

-----------------------------------------------------------------------------
(* The steps of RowFlush as steps of WriteBackRow *)

\* The object starts with every column pending and no row.
LEMMA InitMaps ==
  ASSUME OneObject, Init
  PROVE  WriteBack!Init
  <1>1. \A t \in Threads : pc[t] = "idle"
    BY DEF Init
  <1>2. flags[Creator] = Columns
    BY DEF Init, CreatedFlags
  <1>3. ASSUME NEW c PROVE c \in Pending(Creator) <=> c \in Columns
    BY <1>1, <1>2, PendingMembers DEF InStatement
  <1>4. Pending(Creator) = Columns
    BY <1>3
  <1> QED
    BY <1>4 DEF Init, WriteBack!Init

\* An assignment is a Put.
LEMMA StoreMaps ==
  ASSUME TypeOK, NEW t \in Threads, NEW c \in Columns, NEW v \in Value,
         Store(Creator, c, v), OthersStay(t),
         pc[t] \notin InStatement, pc'[t] \notin InStatement
  PROVE  WriteBack!Next
  <1>0. flags'[Creator] = flags[Creator] \cup {c} /\ row' = row
    BY StoreEffect
  <1>1. Pending(Creator)' = Pending(Creator) \cup {c}
    BY <1>0, PendingGrows
  <1>2. (data[Creator])' = [data[Creator] EXCEPT ![c] = v]
    BY DEF Store, TypeOK
  <1>3. WriteBack!Put(c, v)
    BY <1>0, <1>1, <1>2 DEF WriteBack!Put
  <1>4. v \in Cell
    BY DEF Cell
  <1> QED
    BY <1>3, <1>4 DEF WriteBack!Next

\* A step that the table and the user do not see.
LEMMA StutterMaps ==
  ASSUME data' = data, row' = row, Pending(Creator)' = Pending(Creator)
  PROVE  UNCHANGED WriteBack!vars
  BY DEF WriteBack!vars

\* The statement of a flush is a Save when it leaves a row, and a Remove when
\* it leaves none.
LEMMA ExecMaps ==
  ASSUME OneObject, BaseInv, StampInv, FirstInv, ReadInv, SavedInv,
         NEW t \in Threads, FlushExec(t)
  PROVE  WriteBack!Next
  <1>1. /\ pc[t] = "exec" /\ row' = Applied(loc[t]) /\ data' = data
        /\ Home[t] = Creator /\ TypeOK /\ Serial
    BY OneHomeOnly DEF FlushExec, entryVars, BaseInv, OneObject
  <1>2. Pending(Creator)' = flags[Creator]
        /\ \A c : c \in Pending(Creator) <=> c \in flags[Creator] \/ c \in loc[t].dirty
    BY <1>1, PendingWritten
  <1>3. Pending(Creator)' \subseteq Pending(Creator)
    BY <1>2
  <1>4. CASE row' = NoRow
    <2>1. DeletionAsked
      <3>1. loc[t].delete \/ (~loc[t].insert /\ row = NoRow)
        BY <1>1, <1>4, AppliedGone
      <3> QED
        BY <1>1, <3>1 DEF BaseInv, StoredInv, InStatement
    <2>2. data[Creator][DeletedAt] \notin {Default, Null}
      BY <2>1 DEF DeletionAsked, OneObject
    <2>3. WriteBack!Remove
      BY <1>1, <1>3, <1>4, <2>2 DEF WriteBack!Remove
    <2> QED
      BY <2>3 DEF WriteBack!Next
  <1>5. CASE row' # NoRow
    <2>1. row' \in Row
      BY <1>1, <1>5, AppliedTyped
    <2>2. ASSUME NEW c \in Columns, c \notin flags[Creator]
          PROVE  row'[c] = data[Creator][c]
      <3>1. CASE c \in loc[t].dirty
        BY <1>1, <1>5, <2>2, <3>1, ExecWrites
      <3>2. CASE c \notin loc[t].dirty
        <4>1. row # NoRow /\ row'[c] = row[c]
          BY <1>1, <1>5, <2>2, <3>2, ExecWrites
        <4>2. c \notin Pending(Creator)
          BY <1>2, <2>2, <3>2
        <4>3. ~Waiting(Creator, c)
          BY <4>2, PendingMembers DEF Waiting
        <4> QED
          BY <4>1, <4>3 DEF SavedInv
      <3> QED
        BY <3>1, <3>2
    <2>3. row' \in WriteBack!Row
      BY <2>1 DEF WriteBack!Row, Row
    <2>4. (data[Creator])' = data[Creator]
      BY <1>1
    <2>5. \A c \in Columns \ Pending(Creator)' : row'[c] = data[Creator][c]
      BY <1>2, <2>2
    <2>6. WriteBack!Save
      BY <1>3, <2>3, <2>4, <2>5 DEF WriteBack!Save
    <2> QED
      BY <2>6 DEF WriteBack!Next
  <1> QED
    BY <1>4, <1>5

LEMMA StepMaps ==
  ASSUME OneObject, BaseInv, StampInv, FirstInv, ReadInv, SavedInv, [Next]_vars
  PROVE  WriteBack!Next \/ UNCHANGED WriteBack!vars
  <1> DEFINE Goal == WriteBack!Next \/ UNCHANGED WriteBack!vars
  <1>0. TypeOK /\ Serial
    BY DEF BaseInv, OneObject
  <1>1. CASE UNCHANGED <<data, flags, row, pc, loc>>
    <2>1. Pending(Creator)' = Pending(Creator)
      BY <1>1 DEF Pending
    <2> QED
      BY <1>1, <2>1, StutterMaps
  <1>2. ASSUME NEW e \in Entries, Load(e) PROVE FALSE
    BY <1>2 DEF Load, OneObject, SavedInv
  <1>3. ASSUME NEW t \in Threads, OthersStay(t), UNCHANGED <<data, row, flags>>,
               pc[t] \notin InStatement, pc'[t] \notin InStatement
        PROVE  Goal
    <2>1. flags'[Creator] = flags[Creator]
      BY <1>3
    <2>2. Pending(Creator)' = Pending(Creator)
      BY <1>3, <2>1, PendingStays
    <2> QED
      BY <1>3, <2>2, StutterMaps
  <1>4. ASSUME NEW t \in Threads, Assign(t) PROVE Goal
    <2>1. Home[t] = Creator
      BY OneHomeOnly
    <2>2. ASSUME NEW d \in Columns, NEW v \in Value, AssignCompare(t, d, v)
          PROVE  Goal
      BY <1>0, <1>3, <2>2, CompareEffect DEF entryVars, InStatement
    <2>3. ASSUME NEW d \in Columns, NEW v \in Value,
                 SetValue(t, d, v) \/ (d = DeletedAt /\ DeleteLater(t, v))
          PROVE  Goal
      <3>1. /\ OthersStay(t) /\ Store(Creator, d, v)
            /\ pc[t] \notin InStatement /\ pc'[t] \notin InStatement
        BY <2>1, <2>3
           DEF SetValue, DeleteLater, MayAssign, Idle, InStatement, OthersStay
      <3> QED
        BY <1>0, <3>1, StoreMaps
    <2>4. ASSUME AssignStore(t) PROVE Goal
      <3>1. loc[t].col \in Columns /\ loc[t].val \in Value
        BY <1>0, loc[t] \in Locals DEF TypeOK, Locals
      <3>2. /\ OthersStay(t) /\ Store(Creator, loc[t].col, loc[t].val)
            /\ pc[t] \notin InStatement /\ pc'[t] \notin InStatement
        BY <1>0, <2>1, <2>4, ReturnEffect DEF AssignStore, InStatement
      <3> QED
        BY <1>0, <3>1, <3>2, StoreMaps
    <2> QED
      BY <1>4, <2>2, <2>3, <2>4 DEF Assign
  <1>5. ASSUME NEW t \in Threads, FlushBegin(t) PROVE Goal
    <2>1. Pending(Creator)' = Pending(Creator)
      BY <1>0, <1>5, PendingTaken
    <2> QED
      BY <1>0, <1>5, <2>1, BeginEffect, StutterMaps
  <1>6. ASSUME NEW t \in Threads, FlushRead(t) PROVE Goal
    <2>1. Pending(Creator)' = Pending(Creator)
      BY <1>0, <1>6, PendingRead
    <2> QED
      BY <1>0, <1>6, <2>1, ReadKeeps, StutterMaps DEF entryVars
  <1>7. ASSUME NEW t \in Threads, FlushExec(t) PROVE Goal
    BY <1>7, ExecMaps
  <1>8. ASSUME NEW t \in Threads, FlushMark(t) PROVE Goal
    BY <1>0, <1>3, <1>8 DEF FlushMark, OthersStay, TypeOK, InStatement
  <1>9. ASSUME NEW t \in Threads, FlushAck(t) PROVE Goal
    <2>1. flags' = flags
      BY <1>0, <1>9, Home[t] \in Entries
         DEF FlushAck, LeftFlags, StampInv, InFlight, TypeOK
    <2> QED
      BY <1>0, <1>3, <1>9, <2>1, ReturnEffect DEF FlushAck, InStatement
  <1>10. ASSUME NEW t \in Threads, Flush(t) PROVE Goal
    BY <1>0, <1>10, <1>1, <1>5, <1>6, <1>7, <1>8, <1>9, NoRefusal
       DEF Flush, FlushClean, FlushNothing, FlushLosesReply, Serial, vars, entryVars
  <1> QED
    BY <1>1, <1>2, <1>4, <1>10 DEF Next, Tick, vars, entryVars

-----------------------------------------------------------------------------
(* One object: the theorems *)

\* One object under Serial: while there is a row, a column is in the table with
\* the value of the object, or its bit is set, or a flush is bringing the value.
LEMMA SavedInvHolds == ASSUME OneObject PROVE Spec => []SavedInv
  <1>1. Init => SavedInv
    BY DEF Init, SavedInv
  <1>2. SerialInv /\ SavedInv /\ [Next]_vars => SavedInv'
    BY SavedInvStep DEF SerialInv
  <1>3. Spec => []SerialInv
    BY SerialInvHolds DEF OneObject
  <1> QED
    BY <1>1, <1>2, <1>3, PTL DEF Spec

\* An object that no other server has loaded and that one thread at a time
\* flushes behaves like the write-back row its user expects: flush() forgets a
\* column only when the table has the value the object has, and the row goes
\* only when its deletion was asked for.
THEOREM RowIsWriteBack == ASSUME OneObject PROVE Spec => ImplementsWriteBack
  <1>1. Init => WriteBack!Init
    BY InitMaps
  <1>2. SerialInv /\ SavedInv /\ [Next]_vars => [WriteBack!Next]_(WriteBack!vars)
    BY StepMaps DEF SerialInv
  <1>3. Spec => []SerialInv
    BY SerialInvHolds DEF OneObject
  <1> QED
    BY <1>1, <1>2, <1>3, SavedInvHolds, PTL
       DEF Spec, ImplementsWriteBack, WriteBack!Spec

-----------------------------------------------------------------------------
(* The steps of RowFlush as steps of SharedRow *)

\* A flush that deletes the row took the bit of deleted_at, which stays set.
DeleteInv ==
  \A t \in Threads : pc[t] \in InStatement /\ loc[t].delete =>
    DeletedAt \in loc[t].dirty /\ data[Home[t]][DeletedAt] \notin {Default, Null}

\* Every step keeps that.
LEMMA DeleteInvStep ==
  ASSUME TypeOK, ThreadInv, DeleteInv, [Next]_vars
  PROVE  DeleteInv'
  <1>1. CASE UNCHANGED <<data, pc, loc>>
    BY <1>1 DEF DeleteInv
  <1>2. ASSUME NEW e \in Entries, Load(e) PROVE DeleteInv'
    <2>1. \A t \in Threads : pc[t] \in InStatement => Home[t] # e
      BY <1>2 DEF ThreadInv, Load, InStatement
    <2>2. UNCHANGED <<pc, loc>> /\ \A f \in Entries \ {e} : data'[f] = data[f]
      BY <1>2 DEF Load, TypeOK
    <2> QED
      BY <2>1, <2>2 DEF DeleteInv
  <1>3. ASSUME NEW t \in Threads, OthersStay(t), pc'[t] \notin InStatement,
               \A f \in Entries : data[f][DeletedAt] \notin {Default, Null} =>
                                    data'[f][DeletedAt] \notin {Default, Null}
        PROVE  DeleteInv'
    BY <1>3 DEF DeleteInv, OthersStay
  <1>4. ASSUME NEW t \in Threads, NEW c \in Columns, NEW v \in Value, Store(Home[t], c, v),
               c = DeletedAt => v # Default, OthersStay(t), pc'[t] \notin InStatement
        PROVE  DeleteInv'
    <2>0. /\ Null \notin Value /\ data'[Home[t]][c] = v
          /\ \A f \in Entries, d \in Columns :
               f # Home[t] \/ d # c => data'[f][d] = data[f][d]
      BY <1>4, StoreEffect, Home[t] \in Entries
    <2>1. ASSUME NEW f \in Entries, data[f][DeletedAt] \notin {Default, Null}
          PROVE  data'[f][DeletedAt] \notin {Default, Null}
      <3>1. CASE f = Home[t] /\ c = DeletedAt
        <4>1. data'[f][DeletedAt] = v
          BY <2>0, <3>1
        <4> QED
          BY <1>4, <2>0, <3>1, <4>1
      <3>2. CASE f # Home[t] \/ DeletedAt # c
        <4>1. data'[f][DeletedAt] = data[f][DeletedAt]
          BY <2>0, <3>2
        <4> QED
          BY <2>1, <4>1
      <3> QED
        BY <3>1, <3>2
    <2> QED
      BY <1>3, <1>4, <2>1
  <1>5. ASSUME NEW t \in Threads, Assign(t) PROVE DeleteInv'
    <2>1. ASSUME NEW d \in Columns, NEW v \in Value, AssignCompare(t, d, v)
          PROVE  DeleteInv'
      BY <1>3, <2>1, CompareEffect DEF entryVars, InStatement
    <2>2. ASSUME NEW d \in Columns, NEW v \in Value, SetValue(t, d, v)
          PROVE  DeleteInv'
      <3>1. /\ OthersStay(t) /\ Store(Home[t], d, v) /\ d # DeletedAt
            /\ pc'[t] \notin InStatement
        BY <2>2 DEF SetValue, MayAssign, Idle, InStatement, OthersStay
      <3> QED
        BY <1>4, <3>1
    <2>3. ASSUME NEW v \in Value, DeleteLater(t, v) PROVE DeleteInv'
      <3>1. /\ OthersStay(t) /\ Store(Home[t], DeletedAt, v) /\ v # Default
            /\ pc'[t] \notin InStatement
        BY <2>3 DEF DeleteLater, MayAssign, Idle, InStatement, OthersStay
      <3> QED
        BY <1>4, <3>1
    <2>4. ASSUME AssignStore(t) PROVE DeleteInv'
      <3>1. loc[t].col \in Columns /\ loc[t].val \in Value /\ loc[t].col # DeletedAt
        BY <2>4, loc[t] \in Locals DEF TypeOK, Locals, ThreadInv, AssignStore
      <3>2. /\ OthersStay(t) /\ Store(Home[t], loc[t].col, loc[t].val)
            /\ pc'[t] \notin InStatement
        BY <2>4, ReturnEffect DEF AssignStore, InStatement
      <3> QED
        BY <1>4, <3>1, <3>2
    <2> QED
      BY <1>5, <2>1, <2>2, <2>3, <2>4 DEF Assign
  <1>6. ASSUME NEW t \in Threads, FlushBegin(t) PROVE DeleteInv'
    BY <1>6, BeginEffect DEF DeleteInv, OthersStay, IsDelete
  <1>7. ASSUME NEW t \in Threads, FlushRead(t) PROVE DeleteInv'
    BY <1>7, ReadKeeps DEF DeleteInv, OthersStay, entryVars, InStatement
  <1>8. ASSUME NEW t \in Threads, Return(t), data' = data PROVE DeleteInv'
    BY <1>3, <1>8, ReturnEffect DEF InStatement
  <1>9. ASSUME NEW t \in Threads, FlushExec(t) \/ FlushMark(t) PROVE DeleteInv'
    BY <1>3, <1>9 DEF FlushExec, FlushMark, TypeOK, entryVars, OthersStay, InStatement
  <1>10. ASSUME NEW t \in Threads, Flush(t) PROVE DeleteInv'
    BY <1>10, <1>1, <1>6, <1>7, <1>8, <1>9
       DEF Flush, FlushClean, FlushNothing, FlushFails, FlushLosesReply, FlushAck,
           vars, entryVars
  <1> QED
    BY <1>1, <1>2, <1>5, <1>10 DEF Next, Tick, vars, entryVars

\* What is pending in every object, from what is pending in each.
LEMMA PendingOf ==
  \A e \in Entries : AllPending[e] = Pending(e)
  BY DEF AllPending

\* So it is in the next state: a step that changes one object.
LEMMA PendingChanges ==
  ASSUME NEW e \in Entries, NEW p, Pending(e)' = p,
         \A f \in Entries \ {e} : Pending(f)' = Pending(f)
  PROVE  AllPending' = [AllPending EXCEPT ![e] = p]
  <1>1. AllPending' = [f \in Entries |-> Pending(f)']
    BY DEF AllPending
  <1>2. \A f \in Entries : Pending(f)' = IF f = e THEN p ELSE Pending(f)
    OBVIOUS
  <1>3. [AllPending EXCEPT ![e] = p] = [f \in Entries |-> IF f = e THEN p ELSE Pending(f)]
    BY DEF AllPending
  <1> QED
    BY <1>1, <1>2, <1>3

\* Whether the row was made is as before when no statement ran or was marked.
LEMMA MadeStays ==
  ASSUME NEW t \in Threads, OthersStay(t), row' = row, exists' = exists,
         pc[t] # "mark", pc'[t] # "mark"
  PROVE  Made' = Made
  <1>1. Made' <=> Made
    BY DEF Made, OthersStay
  <1>2. Made \in BOOLEAN /\ Made' \in BOOLEAN
    BY DEF Made
  <1> QED
    BY <1>1, <1>2

\* One object is there at the start, with every column pending and no row.
LEMMA SharedInit ==
  ASSUME Init
  PROVE  Shared!Init
  <1>1. \A t \in Threads : pc[t] = "idle"
    BY DEF Init
  <1>2. ASSUME NEW e \in Entries PROVE Pending(e) = IF e = Creator THEN Columns ELSE {}
    <2>1. ASSUME NEW c PROVE c \in Pending(e) <=> c \in flags[e]
      BY <1>1, PendingMembers DEF InStatement
    <2>2. flags[e] = IF e = Creator THEN Columns ELSE {}
      BY DEF Init, CreatedFlags
    <2> QED
      BY <2>1, <2>2
  <1>3. AllPending = [e \in Entries |-> IF e = Creator THEN Columns ELSE {}]
    BY <1>2 DEF AllPending
  <1>4. Made = FALSE
    BY <1>1 DEF Init, Made
  <1> QED
    BY <1>3, <1>4 DEF Init, Shared!Init

\* A step that the table and the users do not see.
LEMMA SharedStutters ==
  ASSUME UNCHANGED <<loaded, data, row>>, Made' = Made,
         \A e \in Entries : Pending(e)' = Pending(e)
  PROVE  UNCHANGED Shared!vars
  <1>1. AllPending' = AllPending
    BY DEF AllPending
  <1> QED
    BY <1>1 DEF Shared!vars

\* The load of an object opens it: nothing is pending in it.
LEMMA LoadOpens ==
  ASSUME TypeOK, ThreadInv, NEW e \in Entries, Load(e)
  PROVE  Shared!Next
  <1>1. ~loaded[e] /\ row # NoRow /\ UNCHANGED <<row, pc, loc>>
    BY DEF Load, Found
  <1>2. /\ loaded' = [loaded EXCEPT ![e] = TRUE]
        /\ data' = [data EXCEPT ![e] = row]
        /\ flags'[e] = {} /\ \A f \in Entries \ {e} : flags'[f] = flags[f]
    BY DEF Load, LoadedFlags, TypeOK
  <1>3. \A t \in Threads : pc[t] \in InStatement => Home[t] # e
    BY <1>1 DEF ThreadInv, InStatement
  <1>4. ASSUME NEW c PROVE c \notin Pending(e)'
    BY <1>1, <1>2, <1>3, PendingNext
  <1>5. ASSUME NEW f \in Entries \ {e} PROVE Pending(f)' = Pending(f)
    BY <1>1, <1>2, <1>5 DEF Pending
  <1>6. AllPending' = [AllPending EXCEPT ![e] = {}]
    BY <1>4, <1>5, PendingChanges
  <1>7. Made' = Made
    BY <1>1 DEF Made
  <1>8. Shared!Open(e)
    BY <1>1, <1>2, <1>6, <1>7 DEF Shared!Open
  <1> QED
    BY <1>8 DEF Shared!Next

\* An assignment is a Put to the object of the thread.
LEMMA StorePuts ==
  ASSUME TypeOK, NEW t \in Threads, NEW c \in Columns, NEW v \in Value,
         Store(Home[t], c, v), OthersStay(t),
         loaded[Home[t]], Home[t] \in Writers[c],
         pc[t] \in {"idle", "store"}, pc'[t] \in {"idle", "store"}
  PROVE  Shared!Next
  <1> DEFINE e == Home[t]
  <1>1. /\ flags'[e] = flags[e] \cup {c}
        /\ \A f \in Entries \ {e} : flags'[f] = flags[f]
        /\ UNCHANGED <<loaded, exists, row>>
    BY StoreEffect, e \in Entries
  <1>2. Pending(e)' = Pending(e) \cup {c}
    BY <1>1, PendingGrows DEF InStatement
  <1>3. ASSUME NEW f \in Entries \ {e} PROVE Pending(f)' = Pending(f)
    BY <1>1, <1>3, PendingStays
  <1>4. AllPending' = [AllPending EXCEPT ![e] = AllPending[e] \cup {c}]
    <2>1. AllPending[e] = Pending(e)
      BY PendingOf
    <2> QED
      BY <1>2, <1>3, <2>1, PendingChanges
  <1>5. Made' = Made
    BY <1>1, MadeStays
  <1>6. data' = [data EXCEPT ![e][c] = v]
    BY DEF Store
  <1>7. Shared!Put(e, c, v)
    BY <1>1, <1>4, <1>5, <1>6 DEF Shared!Put
  <1>8. v \in Cell
    BY DEF Cell
  <1> QED
    BY <1>7, <1>8 DEF Shared!Next

\* The statement that finds no row and makes one is the first INSERT.
LEMMA ExecMakes ==
  ASSUME Serial, BaseInv, StampInv, FirstInv, NEW t \in Threads, FlushExec(t),
         row = NoRow, row' # NoRow
  PROVE  Home[t] = Creator /\ ~Made
  <1>1. pc[t] = "exec" /\ loc[t].insert
    BY DEF FlushExec, Applied
  <1>2. Home[t] = Creator /\ \A e \in Entries : ~exists[e]
    BY <1>1, InsertFinds DEF FirstInv, InStatement
  <1>3. ASSUME NEW u \in Threads, pc[u] = "mark" PROVE FALSE
    <2>1. u \in Flushers /\ loaded[Home[u]]
      BY <1>3 DEF StampInv, InFlight, BaseInv, ThreadInv
    <2>2. Home[u] = Creator
      BY <1>2, <2>1 DEF FirstInv
    <2> QED
      BY <1>1, <1>2, <1>3, <2>1, <2>2, Alone DEF InFlight
  <1> QED
    BY <1>2, <1>3 DEF Made

\* A statement is a Save when it leaves a row.  When it leaves none it is the
\* DELETE that its object asked for, or it found no row.
LEMMA ExecShares ==
  ASSUME Serial, BaseInv, StampInv, FirstInv, ReadInv, DeleteInv,
         NEW t \in Threads, FlushExec(t)
  PROVE  Shared!Next
  <1> DEFINE e == Home[t]
  <1>1. /\ pc[t] = "exec" /\ pc'[t] = "mark" /\ row' = Applied(loc[t])
        /\ UNCHANGED <<loaded, data>> /\ TypeOK /\ loaded[e]
    BY DEF FlushExec, entryVars, BaseInv, ThreadInv, TypeOK
  <1>2. /\ Pending(e)' = flags[e]
        /\ \A c : c \in Pending(e) <=> c \in flags[e] \/ c \in loc[t].dirty
        /\ \A f \in Entries \ {e} : Pending(f)' = Pending(f)
    BY <1>1, PendingWritten
  <1>3. AllPending[e] = Pending(e)
    BY PendingOf
  <1>4. AllPending' = [AllPending EXCEPT ![e] = flags[e]]
    BY <1>2, PendingChanges
  <1>5. flags[e] \in SUBSET AllPending[e]
    BY <1>2, <1>3
  <1>6. Made' = TRUE
    BY <1>1 DEF Made
  <1>7. Shared!Saving(e, flags[e])
    BY <1>1, <1>4, <1>5, <1>6 DEF Shared!Saving
  <1>8. CASE row' # NoRow
    <2>1. row' \in Shared!Row
      BY <1>1, <1>8, AppliedTyped DEF Shared!Row, Row
    <2>2. ASSUME NEW c \in AllPending[e] \ flags[e] PROVE row'[c] = data[e][c]
      <3>1. c \in loc[t].dirty /\ c \notin flags[e]
        BY <1>2, <1>3, <2>2
      <3>2. c \in Columns
        BY <1>1, <3>1, loc[t] \in Locals DEF TypeOK, Locals
      <3> QED
        BY <1>8, <3>1, <3>2, ExecWrites
    <2>3. ASSUME NEW c \in Columns \ AllPending[e]
          PROVE  row # NoRow /\ row'[c] = row[c]
      <3>1. c \notin loc[t].dirty /\ c \notin flags[e]
        BY <1>2, <1>3, <2>3
      <3> QED
        BY <1>8, <2>3, <3>1, ExecWrites
    <2>4. row = NoRow => e = Creator /\ ~Made
      BY <1>8, ExecMakes
    <2>5. Shared!Save(e)
      BY <1>5, <1>7, <2>1, <2>2, <2>3, <2>4 DEF Shared!Save
    <2> QED
      BY <2>5 DEF Shared!Next
  <1>9. CASE row' = NoRow
    <2>1. CASE loc[t].delete
      <3>1. DeletedAt \in AllPending[e] /\ data[e][DeletedAt] \notin {Default, Null}
        BY <1>1, <1>2, <1>3, <2>1 DEF DeleteInv, InStatement
      <3>2. Shared!Remove(e)
        BY <1>5, <1>7, <1>9, <3>1 DEF Shared!Remove
      <3> QED
        BY <3>2 DEF Shared!Next
    <2>2. CASE ~loc[t].delete
      <3>1. ~loc[t].insert /\ row = NoRow
        BY <1>1, <1>9, <2>2, AppliedGone
      <3>2. DeletionAsked
        BY <1>1, <3>1 DEF BaseInv, StoredInv, InStatement
      <3>3. Shared!Miss(e)
        BY <1>5, <1>7, <1>9, <3>1, <3>2 DEF Shared!Miss, DeletionAsked
      <3> QED
        BY <3>3 DEF Shared!Next
    <2> QED
      BY <2>1, <2>2
  <1> QED
    BY <1>8, <1>9

\* Every step is a step of SharedRow or leaves it alone.
LEMMA SharedStep ==
  ASSUME Serial, BaseInv, StampInv, FirstInv, ReadInv, DeleteInv, [Next]_vars
  PROVE  Shared!Next \/ UNCHANGED Shared!vars
  <1> DEFINE Goal == Shared!Next \/ UNCHANGED Shared!vars
  <1>0. TypeOK /\ ThreadInv
    BY DEF BaseInv
  <1>1. CASE UNCHANGED <<loaded, data, flags, exists, row, pc, loc>>
    <2>1. \A e \in Entries : Pending(e)' = Pending(e)
      BY <1>1 DEF Pending
    <2>2. Made' = Made
      BY <1>1 DEF Made
    <2> QED
      BY <1>1, <2>1, <2>2, SharedStutters
  <1>2. ASSUME NEW t \in Threads, OthersStay(t),
               UNCHANGED <<loaded, data, flags, exists, row>>,
               pc[t] \notin InStatement, pc'[t] \notin InStatement,
               pc[t] # "mark", pc'[t] # "mark"
        PROVE  Goal
    <2>1. \A e \in Entries : Pending(e)' = Pending(e)
      BY <1>2, PendingStays
    <2>2. Made' = Made
      BY <1>2, MadeStays
    <2> QED
      BY <1>2, <2>1, <2>2, SharedStutters
  <1>3. ASSUME NEW t \in Threads, Assign(t) PROVE Goal
    <2>1. ASSUME NEW c \in Columns, NEW v \in Value, AssignCompare(t, c, v)
          PROVE  Goal
      BY <1>0, <1>2, <2>1, CompareEffect DEF entryVars, InStatement
    <2>2. ASSUME NEW c \in Columns, NEW v \in Value,
                 SetValue(t, c, v) \/ (c = DeletedAt /\ DeleteLater(t, v))
          PROVE  Goal
      <3>1. /\ OthersStay(t) /\ Store(Home[t], c, v)
            /\ loaded[Home[t]] /\ Home[t] \in Writers[c]
            /\ pc[t] = "idle" /\ pc'[t] = "idle"
        BY <2>2 DEF SetValue, DeleteLater, MayAssign, Idle, OthersStay
      <3> QED
        BY <1>0, <3>1, StorePuts
    <2>3. ASSUME AssignStore(t) PROVE Goal
      <3>1. loc[t].col \in Columns /\ loc[t].val \in Value
        BY <1>0, loc[t] \in Locals DEF TypeOK, Locals
      <3>2. /\ OthersStay(t) /\ Store(Home[t], loc[t].col, loc[t].val)
            /\ pc[t] = "store" /\ pc'[t] = "idle"
        BY <1>0, <2>3, ReturnEffect DEF AssignStore
      <3>3. loaded[Home[t]] /\ Home[t] \in Writers[loc[t].col]
        BY <1>0, <3>2 DEF ThreadInv
      <3> QED
        BY <1>0, <3>1, <3>2, <3>3, StorePuts
    <2> QED
      BY <1>3, <2>1, <2>2, <2>3 DEF Assign
  <1>4. ASSUME NEW t \in Threads, FlushBegin(t) PROVE Goal
    <2>1. \A e \in Entries : Pending(e)' = Pending(e)
      BY <1>0, <1>4, PendingTaken
    <2>2. Made' = Made
      BY <1>0, <1>4, BeginEffect, MadeStays
    <2> QED
      BY <1>0, <1>4, <2>1, <2>2, BeginEffect, SharedStutters
  <1>5. ASSUME NEW t \in Threads, FlushRead(t) PROVE Goal
    <2>1. \A e \in Entries : Pending(e)' = Pending(e)
      BY <1>0, <1>5, PendingRead
    <2>2. Made' = Made
      BY <1>0, <1>5, ReadKeeps, MadeStays DEF entryVars, InStatement
    <2> QED
      BY <1>0, <1>5, <2>1, <2>2, ReadKeeps, SharedStutters DEF entryVars
  <1>6. ASSUME NEW t \in Threads, FlushExec(t) PROVE Goal
    BY <1>6, ExecShares
  <1>7. ASSUME NEW t \in Threads, FlushMark(t) PROVE Goal
    <2>1. /\ pc[t] = "mark" /\ pc'[t] = "ack" /\ OthersStay(t)
          /\ UNCHANGED <<loaded, data, flags, row>> /\ exists'[Home[t]]
      BY <1>0, <1>7, Home[t] \in Entries DEF FlushMark, TypeOK, OthersStay
    <2>2. \A e \in Entries : Pending(e)' = Pending(e)
      BY <2>1, PendingStays DEF InStatement
    <2>3. Made = TRUE
      BY <2>1 DEF Made
    <2>4. Made' = TRUE
      BY <2>1, Home[t] \in Entries DEF Made
    <2> QED
      BY <2>1, <2>2, <2>3, <2>4, SharedStutters
  <1>8. ASSUME NEW t \in Threads, FlushAck(t) PROVE Goal
    <2>1. flags' = flags
      BY <1>0, <1>8, Home[t] \in Entries
         DEF FlushAck, LeftFlags, StampInv, InFlight, TypeOK
    <2> QED
      BY <1>0, <1>2, <1>8, <2>1, ReturnEffect DEF FlushAck, InStatement
  <1>9. ASSUME NEW t \in Threads, Flush(t) PROVE Goal
    BY <1>9, <1>1, <1>4, <1>5, <1>6, <1>7, <1>8, NoRefusal
       DEF Flush, FlushClean, FlushNothing, FlushLosesReply, Serial, vars, entryVars
  <1>10. ASSUME NEW e \in Entries, Load(e) PROVE Goal
    BY <1>0, <1>10, LoadOpens
  <1> QED
    BY <1>1, <1>3, <1>9, <1>10 DEF Next, Tick, vars, entryVars

\* Objects of several servers that stand for one row, each flushed by one
\* thread, share it as their users expect: a flush() writes the columns that
\* are pending in its object and no other, also when the object holds old
\* values of those, the row is made once and only an asked deletion removes it
\* or drops a write.
THEOREM RowIsShared == ASSUME Serial PROVE Spec => ImplementsSharedRow
  <1>1. Init => Shared!Init /\ DeleteInv
    BY SharedInit DEF Init, DeleteInv, InStatement
  <1>2. SerialInv /\ DeleteInv /\ [Next]_vars => DeleteInv'
    BY DeleteInvStep DEF SerialInv, BaseInv
  <1>3. SerialInv /\ DeleteInv /\ [Next]_vars => [Shared!Next]_(Shared!vars)
    BY SharedStep DEF SerialInv
  <1> QED
    BY <1>1, <1>2, <1>3, SerialInvHolds, PTL
       DEF Spec, ImplementsSharedRow, Shared!Spec
=============================================================================
