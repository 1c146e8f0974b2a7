--------------------------- MODULE RowFlushProofs ---------------------------
(***************************************************************************)
(* Theorems about RowFlush for every number of entries, threads, columns   *)
(* and values.                                                             *)
(***************************************************************************)
EXTENDS RowFlush, TLAPS

-----------------------------------------------------------------------------
(* The locals of a thread, field by field *)

\* operator= remembers what it is about to store.
LEMMA AssignLocals ==
  ASSUME NEW l \in Locals, NEW c \in Columns, NEW v \in Value
  PROVE  [l EXCEPT !.col = c, !.val = v] \in Locals
  BY DEF Locals

\* flush() remembers what it took.
LEMMA BeginLocals ==
  ASSUME NEW l \in Locals, NEW d \in SUBSET Columns, NEW i \in BOOLEAN,
         NEW x \in BOOLEAN, NEW s \in Nat
  PROVE  [l EXCEPT !.dirty = d, !.todo = d, !.insert = i, !.delete = x,
                   !.stamp = s] \in Locals
  BY DEF Locals

\* flush() remembers a value it read.
LEMMA ReadLocals ==
  ASSUME NEW l \in Locals, NEW c \in Columns, NEW x \in Cell
  PROVE  [l EXCEPT !.got[c] = x, !.todo = @ \ {c}] \in Locals
  <1>1. l.got \in Row /\ l.todo \in SUBSET Columns
    BY DEF Locals
  <1>2. [l.got EXCEPT ![c] = x] \in Row
    BY <1>1 DEF Row
  <1>3. l.todo \ {c} \in SUBSET Columns
    BY <1>1
  <1> QED
    BY <1>2, <1>3 DEF Locals

-----------------------------------------------------------------------------
USE EntriesAssumption, ThreadsAssumption, ColumnsAssumption, ValuesAssumption,
    SwitchesAssumption

-----------------------------------------------------------------------------
(* Type correctness *)

\* An assignment keeps the types of the object it changes.
LEMMA StoreTyped ==
  ASSUME TypeOK, NEW e \in Entries, NEW c \in Columns, NEW v \in Value,
         Store(e, c, v)
  PROVE  /\ clock' \in Nat
         /\ data' \in [Entries -> Row]
         /\ flags' \in [Entries -> SUBSET Columns]
         /\ dataStamp' \in [Entries -> Nat]
         /\ loaded' \in [Entries -> BOOLEAN]
         /\ savedStamp' \in [Entries -> Nat]
         /\ exists' \in [Entries -> BOOLEAN]
         /\ row' \in Row \cup {NoRow}
  BY DEF TypeOK, Store, Row, Cell

\* The thread that returns from a call forgets its locals.
LEMMA ReturnTyped ==
  ASSUME TypeOK, NEW t \in Threads, Return(t)
  PROVE  /\ pc' \in [Threads -> {"idle", "store"} \cup InFlight]
         /\ loc' \in [Threads -> Locals]
  <1>1. NoLocals \in Locals
    BY DEF NoLocals, Locals, Row, Cell
  <1> QED
    BY <1>1 DEF TypeOK, Return

\* What a statement leaves in the table is a row or no row.
LEMMA AppliedTyped ==
  ASSUME TypeOK, NEW t \in Threads
  PROVE  Applied(loc[t]) \in Row \cup {NoRow}
  <1>1. loc[t].got \in Row /\ loc[t].dirty \subseteq Columns
    BY DEF TypeOK, Locals
  <1>2. row # NoRow => row \in Row
    BY DEF TypeOK
  <1> QED
    BY <1>1, <1>2 DEF Applied, Row, Cell

\* Every reachable state is well typed.
THEOREM TypeCorrect == Spec => []TypeOK
  <1>1. Init => TypeOK
    <2> SUFFICES ASSUME Init PROVE TypeOK
      OBVIOUS
    <2>1. NoLocals \in Locals
      BY DEF NoLocals, Locals, Row, Cell
    <2> QED
      BY <2>1 DEF Init, TypeOK, CreatedFlags, Row, Cell, InFlight
  <1>2. TypeOK /\ [Next]_vars => TypeOK'
    <2> SUFFICES ASSUME TypeOK, [Next]_vars PROVE TypeOK'
      OBVIOUS
    <2>1. CASE UNCHANGED vars
      BY <2>1 DEF TypeOK, vars, entryVars
    <2>2. CASE Tick
      BY <2>2 DEF TypeOK, Tick, entryVars
    <2>3. ASSUME NEW e \in Entries, Load(e) PROVE TypeOK'
      BY <2>3 DEF TypeOK, Load, LoadedFlags, Found
    <2>4. ASSUME NEW t \in Threads, NEW c \in Columns, NEW v \in Value,
                 AssignCompare(t, c, v)
          PROVE  TypeOK'
      <3>1. [loc[t] EXCEPT !.col = c, !.val = v] \in Locals
        BY AssignLocals, loc[t] \in Locals DEF TypeOK
      <3>2. loc' \in [Threads -> Locals]
        BY <2>4, <3>1 DEF TypeOK, AssignCompare
      <3> QED
        BY <2>4, <3>2 DEF TypeOK, AssignCompare, entryVars
    <2>5. ASSUME NEW t \in Threads, NEW c \in Columns, NEW v \in Value,
                 SetValue(t, c, v)
          PROVE  TypeOK'
      BY <2>5, StoreTyped, Home[t] \in Entries DEF TypeOK, SetValue
    <2>6. ASSUME NEW t \in Threads, AssignStore(t) PROVE TypeOK'
      <3>1. loc[t].col \in Columns /\ loc[t].val \in Value
        BY DEF TypeOK, Locals
      <3> QED
        BY <2>6, <3>1, StoreTyped, ReturnTyped, Home[t] \in Entries
           DEF TypeOK, AssignStore
    <2>7. ASSUME NEW t \in Threads, NEW v \in Value, DeleteLater(t, v)
          PROVE  TypeOK'
      BY <2>7, StoreTyped, Home[t] \in Entries DEF TypeOK, DeleteLater
    <2>8. ASSUME NEW t \in Threads, FlushClean(t) PROVE TypeOK'
      BY <2>8 DEF TypeOK, FlushClean, vars, entryVars
    <2>9. ASSUME NEW t \in Threads, FlushBegin(t) PROVE TypeOK'
      <3> DEFINE e == Home[t]
                 l == [loc[t] EXCEPT !.dirty = flags[e], !.todo = flags[e],
                         !.insert = IsInsert(e), !.delete = IsDelete(e),
                         !.stamp = dataStamp[e]]
      <3>1. IsInsert(e) \in BOOLEAN /\ IsDelete(e) \in BOOLEAN
        BY DEF IsInsert, IsDelete
      <3>2. flags[e] \in SUBSET Columns /\ dataStamp[e] \in Nat
        BY DEF TypeOK
      <3>3. l \in Locals
        BY <3>1, <3>2, BeginLocals, loc[t] \in Locals DEF TypeOK
      <3>4. loc' = [loc EXCEPT ![t] = l]
        BY <2>9 DEF FlushBegin, TakenFlags, TypeOK
      <3>5. loc' \in [Threads -> Locals]
        BY <3>3, <3>4 DEF TypeOK
      <3> QED
        BY <2>9, <3>5, e \in Entries DEF TypeOK, FlushBegin, InFlight
    <2>10. ASSUME NEW t \in Threads, FlushRead(t) PROVE TypeOK'
      <3>1. PICK c \in loc[t].todo :
              /\ loc' = [loc EXCEPT ![t].got[c] = data[Home[t]][c],
                                   ![t].todo = @ \ {c}]
              /\ pc' = [pc EXCEPT ![t] = IF loc[t].todo = {c} THEN "exec" ELSE "read"]
              /\ UNCHANGED <<clock, entryVars, row>>
        BY <2>10 DEF FlushRead
      <3>2. c \in Columns /\ data[Home[t]][c] \in Cell
        BY Home[t] \in Entries DEF TypeOK, Locals, Row
      <3>3. [loc[t] EXCEPT !.got[c] = data[Home[t]][c], !.todo = @ \ {c}] \in Locals
        BY <3>2, ReadLocals, loc[t] \in Locals DEF TypeOK
      <3>4. loc' \in [Threads -> Locals]
        BY <3>1, <3>3 DEF TypeOK
      <3> QED
        BY <3>1, <3>4 DEF TypeOK, InFlight, entryVars
    <2>11. ASSUME NEW t \in Threads, FlushNothing(t) \/ FlushFails(t)
           PROVE  TypeOK'
      BY <2>11, ReturnTyped DEF TypeOK, FlushNothing, FlushFails, entryVars
    <2>12. ASSUME NEW t \in Threads, FlushExec(t) PROVE TypeOK'
      BY <2>12, AppliedTyped DEF TypeOK, FlushExec, InFlight, entryVars
    <2>13. ASSUME NEW t \in Threads, FlushLosesReply(t) PROVE TypeOK'
      BY <2>13, AppliedTyped, ReturnTyped DEF TypeOK, FlushLosesReply, entryVars
    <2>14. ASSUME NEW t \in Threads, FlushMark(t) PROVE TypeOK'
      BY <2>14 DEF TypeOK, FlushMark, InFlight
    <2>15. ASSUME NEW t \in Threads, FlushAck(t) PROVE TypeOK'
      <3>1. loc[t].stamp \in Nat
        BY DEF TypeOK, Locals
      <3> QED
        BY <2>15, <3>1, ReturnTyped, Home[t] \in Entries
           DEF TypeOK, FlushAck, LeftFlags
    <2> QED
      BY <2>1, <2>2, <2>3, <2>4, <2>5, <2>6, <2>7, <2>8, <2>9, <2>10, <2>11,
         <2>12, <2>13, <2>14, <2>15 DEF Next, Assign, Flush
  <1> QED
    BY <1>1, <1>2, PTL DEF Spec

-----------------------------------------------------------------------------
(* What entries, flushes and the table know of each other.  This holds for *)
(* any number of overlapping flushes, with faults and a coarse clock.      *)

InStatement == {"read", "exec"}

Own(e) == {c \in Columns : e \in Writers[c]}

\* Threads work on loaded objects, and assign what they are meant to assign.
ThreadInv ==
  \A t \in Threads :
    /\ pc[t] # "idle" => loaded[Home[t]]
    /\ pc[t] = "store" => loc[t].col # DeletedAt /\ Home[t] \in Writers[loc[t].col]

\* Whoever relies on the row (an object that is marked as stored, a flush that
\* is to mark it, an UPDATE under way) has a row, or somebody asked to delete it.
StoredInv ==
  /\ \A e \in Entries :
       /\ savedStamp[e] # 0 => exists[e]
       /\ exists[e] => row # NoRow \/ DeletionAsked
  /\ \A t \in Threads :
       /\ pc[t] = "ack" => exists[Home[t]]
       /\ pc[t] = "mark" => row # NoRow \/ DeletionAsked
       /\ pc[t] \in InStatement /\ loc[t].delete => DeletionAsked
       /\ pc[t] \in InStatement /\ ~loc[t].insert => row # NoRow \/ DeletionAsked

\* Bits of columns that others assign are set in a new object only, and are
\* taken by its INSERT.
OwnInv ==
  /\ \A e \in Entries :
       ~(flags[e] \subseteq Own(e)) =>
         /\ ~exists[e] /\ savedStamp[e] = 0
         /\ \A t \in Threads : Home[t] = e => pc[t] \notin InFlight
  /\ \A t \in Threads :
       pc[t] \in InStatement /\ ~loc[t].insert => loc[t].dirty \subseteq Own(Home[t])

-----------------------------------------------------------------------------
(* What the actions do, place by place *)

\* The other threads stay where they are.
OthersStay(t) ==
  \A u \in Threads \ {t} : pc'[u] = pc[u] /\ loc'[u] = loc[u]

LEMMA ReturnEffect ==
  ASSUME TypeOK, NEW t \in Threads, Return(t)
  PROVE  pc'[t] = "idle" /\ OthersStay(t)
  BY DEF TypeOK, Return, OthersStay

LEMMA StoreEffect ==
  ASSUME TypeOK, NEW e \in Entries, NEW c \in Columns, NEW v \in Value,
         Store(e, c, v)
  PROVE  /\ data'[e][c] = v
         /\ \A f \in Entries, d \in Columns :
              f # e \/ d # c => data'[f][d] = data[f][d]
         /\ flags'[e] = flags[e] \cup {c}
         /\ dataStamp'[e] = clock'
         /\ \A f \in Entries \ {e} :
              flags'[f] = flags[f] /\ dataStamp'[f] = dataStamp[f]
         /\ clock' >= clock
         /\ FineClock => clock' > clock
         /\ UNCHANGED <<loaded, savedStamp, exists, row>>
  BY DEF TypeOK, Store, Row

LEMMA CompareEffect ==
  ASSUME TypeOK, NEW t \in Threads, NEW c \in Columns, NEW v \in Value,
         AssignCompare(t, c, v)
  PROVE  /\ pc[t] = "idle" /\ loaded[Home[t]]
         /\ pc'[t] = "store" /\ OthersStay(t)
         /\ loc'[t].col = c /\ c # DeletedAt /\ Home[t] \in Writers[c]
         /\ UNCHANGED <<clock, entryVars, row>>
  <1>1. /\ pc' = [pc EXCEPT ![t] = "store"]
        /\ loc' = [loc EXCEPT ![t] = [loc[t] EXCEPT !.col = c, !.val = v]]
    BY DEF TypeOK, AssignCompare
  <1>2. "col" \in DOMAIN loc[t]
    BY loc[t] \in Locals DEF TypeOK, Locals
  <1> QED
    BY <1>1, <1>2 DEF TypeOK, AssignCompare, MayAssign, Idle, OthersStay

LEMMA BeginEffect ==
  ASSUME TypeOK, NEW t \in Threads, FlushBegin(t)
  PROVE  /\ t \in Flushers /\ pc[t] = "idle" /\ loaded[Home[t]]
         /\ flags[Home[t]] # {}
         /\ pc'[t] = "read" /\ OthersStay(t)
         /\ loc'[t].dirty = flags[Home[t]] /\ loc'[t].todo = flags[Home[t]]
         /\ loc'[t].insert = IsInsert(Home[t])
         /\ loc'[t].delete = IsDelete(Home[t])
         /\ loc'[t].stamp = dataStamp[Home[t]]
         /\ flags' = [flags EXCEPT ![Home[t]] = {}]
         /\ UNCHANGED <<clock, loaded, data, dataStamp, savedStamp, exists, row>>
  <1> DEFINE e == Home[t]
             l == [loc[t] EXCEPT !.dirty = flags[e], !.todo = flags[e],
                     !.insert = IsInsert(e), !.delete = IsDelete(e),
                     !.stamp = dataStamp[e]]
  <1>1. loc' = [loc EXCEPT ![t] = l]
    BY DEF FlushBegin, TakenFlags, TypeOK
  <1>2. /\ l.dirty = flags[e] /\ l.todo = flags[e] /\ l.insert = IsInsert(e)
        /\ l.delete = IsDelete(e) /\ l.stamp = dataStamp[e]
    BY loc[t] \in Locals DEF TypeOK, Locals
  <1>3. loc'[t] = l /\ \A u \in Threads \ {t} : loc'[u] = loc[u]
    BY <1>1 DEF TypeOK
  <1> QED
    BY <1>2, <1>3 DEF FlushBegin, TypeOK, Idle, OthersStay

LEMMA ReadEffect ==
  ASSUME TypeOK, NEW t \in Threads, FlushRead(t)
  PROVE  \E c \in loc[t].todo :
           /\ pc[t] = "read" /\ OthersStay(t)
           /\ pc'[t] = IF loc[t].todo = {c} THEN "exec" ELSE "read"
           /\ loc'[t].todo = loc[t].todo \ {c}
           /\ loc'[t].got = [loc[t].got EXCEPT ![c] = data[Home[t]][c]]
           /\ loc'[t].dirty = loc[t].dirty /\ loc'[t].insert = loc[t].insert
           /\ loc'[t].delete = loc[t].delete /\ loc'[t].stamp = loc[t].stamp
           /\ UNCHANGED <<clock, entryVars, row>>
  <1>1. PICK c \in loc[t].todo :
          /\ pc[t] = "read"
          /\ loc' = [loc EXCEPT ![t].got[c] = data[Home[t]][c], ![t].todo = @ \ {c}]
          /\ pc' = [pc EXCEPT ![t] = IF loc[t].todo = {c} THEN "exec" ELSE "read"]
          /\ UNCHANGED <<clock, entryVars, row>>
    BY DEF FlushRead
  <1> DEFINE l == [loc[t] EXCEPT !.got[c] = data[Home[t]][c], !.todo = @ \ {c}]
  <1>2. /\ l.todo = loc[t].todo \ {c}
        /\ l.got = [loc[t].got EXCEPT ![c] = data[Home[t]][c]]
        /\ l.dirty = loc[t].dirty /\ l.insert = loc[t].insert
        /\ l.delete = loc[t].delete /\ l.stamp = loc[t].stamp
    BY loc[t] \in Locals DEF TypeOK, Locals
  <1>3. loc'[t] = l /\ \A u \in Threads \ {t} : loc'[u] = loc[u]
    BY <1>1 DEF TypeOK
  <1> QED
    BY <1>1, <1>2, <1>3 DEF TypeOK, OthersStay

\* What a turn of the loop leaves alone, whichever column it reads.
LEMMA ReadKeeps ==
  ASSUME TypeOK, NEW t \in Threads, FlushRead(t)
  PROVE  /\ pc[t] = "read" /\ pc'[t] \in InStatement /\ OthersStay(t)
         /\ loc'[t].dirty = loc[t].dirty /\ loc'[t].insert = loc[t].insert
         /\ loc'[t].delete = loc[t].delete /\ loc'[t].stamp = loc[t].stamp
         /\ UNCHANGED <<clock, entryVars, row>>
  BY ReadEffect DEF InStatement

\* A statement takes the row away only if it is a DELETE, or finds no row.
LEMMA AppliedGone ==
  ASSUME TypeOK, NEW t \in Threads, Applied(loc[t]) = NoRow
  PROVE  loc[t].delete \/ (~loc[t].insert /\ row = NoRow)
  <1>2. loc[t].got \in Row /\ (row # NoRow => row \in Row)
    BY DEF TypeOK, Locals
  <1>3. [c \in Columns |-> IF c \in loc[t].dirty THEN loc[t].got[c] ELSE Null] \in Row
    BY <1>2 DEF Row, Cell
  <1>4. row # NoRow =>
          [c \in Columns |-> IF c \in loc[t].dirty THEN loc[t].got[c] ELSE row[c]] \in Row
    BY <1>2 DEF Row, Cell
  <1>5. NoRow \notin Row
    BY DEF Row, Cell
  <1> QED
    BY <1>3, <1>4, <1>5 DEF Applied

-----------------------------------------------------------------------------
(* Preservation of what entries, flushes and the table know of each other  *)

\* An assignment of an attribute other than deleted_at changes neither what
\* was asked nor who knows what.
LEMMA StoreKeepsAsked ==
  ASSUME TypeOK, NEW e \in Entries, NEW c \in Columns, NEW v \in Value,
         Store(e, c, v), c = DeletedAt => v # Default, DeletionAsked
  PROVE  DeletionAsked'
  <1>1. PICK f \in Entries : loaded[f] /\ data[f][DeletedAt] \notin {Default, Null}
    BY DEF DeletionAsked
  <1>2. /\ data'[e][c] = v /\ loaded' = loaded
        /\ \A g \in Entries, d \in Columns :
             g # e \/ d # c => data'[g][d] = data[g][d]
    BY StoreEffect DEF TypeOK
  <1>3. CASE f = e /\ c = DeletedAt
    <2>1. v \notin {Default, Null}
      BY <1>3
    <2> QED
      BY <1>1, <1>2, <1>3, <2>1 DEF DeletionAsked
  <1>4. CASE ~(f = e /\ c = DeletedAt)
    <2>1. data'[f][DeletedAt] = data[f][DeletedAt]
      BY <1>2, <1>4
    <2> QED
      BY <1>1, <1>2, <2>1 DEF DeletionAsked
  <1> QED
    BY <1>3, <1>4

\* A request to delete the row is not withdrawn.
LEMMA AskedStays ==
  ASSUME TypeOK, ThreadInv, [Next]_vars, DeletionAsked
  PROVE  DeletionAsked'
  <1>1. CASE UNCHANGED <<loaded, data>>
    BY <1>1 DEF DeletionAsked
  <1>2. ASSUME NEW e \in Entries, Load(e) PROVE DeletionAsked'
    BY <1>2 DEF DeletionAsked, Load, TypeOK
  <1>3. ASSUME NEW t \in Threads, NEW c \in Columns, NEW v \in Value,
               SetValue(t, c, v)
        PROVE  DeletionAsked'
    BY <1>3, StoreKeepsAsked, Home[t] \in Entries DEF SetValue
  <1>4. ASSUME NEW t \in Threads, AssignStore(t) PROVE DeletionAsked'
    <2>1. loc[t].col \in Columns /\ loc[t].val \in Value /\ loc[t].col # DeletedAt
      BY <1>4, loc[t] \in Locals DEF TypeOK, Locals, ThreadInv, AssignStore
    <2> QED
      BY <1>4, <2>1, StoreKeepsAsked, Home[t] \in Entries DEF AssignStore
  <1>5. ASSUME NEW t \in Threads, NEW v \in Value, DeleteLater(t, v)
        PROVE  DeletionAsked'
    <2>1. Home[t] \in Entries
      OBVIOUS
    <2>2. DeletedAt \in Columns /\ v # Default /\ Store(Home[t], DeletedAt, v)
      BY <1>5 DEF DeleteLater
    <2> QED
      BY <2>1, <2>2, StoreKeepsAsked
  <1>6. ASSUME NEW t \in Threads, Assign(t) PROVE DeletionAsked'
    <2>1. ASSUME NEW c \in Columns, NEW v \in Value, AssignCompare(t, c, v)
          PROVE  DeletionAsked'
      BY <2>1, <1>1 DEF AssignCompare, entryVars
    <2> QED
      BY <1>3, <1>4, <1>5, <1>6, <2>1 DEF Assign
  <1>7. ASSUME NEW t \in Threads, Flush(t) PROVE DeletionAsked'
    BY <1>7, <1>1
       DEF Flush, FlushClean, FlushBegin, FlushRead, FlushNothing, FlushExec,
           FlushFails, FlushLosesReply, FlushMark, FlushAck, vars, entryVars
  <1> QED
    BY <1>1, <1>2, <1>6, <1>7 DEF Next, Tick, vars, entryVars

LEMMA ThreadInvStep == TypeOK /\ ThreadInv /\ [Next]_vars => ThreadInv'
  <1> SUFFICES ASSUME TypeOK, ThreadInv, [Next]_vars PROVE ThreadInv'
    OBVIOUS
  <1>1. CASE UNCHANGED <<loaded, pc, loc>>
    BY <1>1 DEF ThreadInv
  <1>2. ASSUME NEW e \in Entries, Load(e) PROVE ThreadInv'
    BY <1>2 DEF ThreadInv, Load, TypeOK
  <1>3. ASSUME NEW t \in Threads, NEW c \in Columns, NEW v \in Value,
               AssignCompare(t, c, v)
        PROVE  ThreadInv'
    BY <1>3, CompareEffect DEF ThreadInv, OthersStay, entryVars
  <1>4. ASSUME NEW t \in Threads, Return(t), loaded' = loaded PROVE ThreadInv'
    BY <1>4, ReturnEffect DEF ThreadInv, OthersStay
  <1>5. ASSUME NEW t \in Threads, FlushBegin(t) PROVE ThreadInv'
    BY <1>5, BeginEffect DEF ThreadInv, OthersStay
  <1>6. ASSUME NEW t \in Threads, FlushRead(t) PROVE ThreadInv'
    BY <1>6, ReadKeeps DEF ThreadInv, OthersStay, entryVars, InStatement
  <1>7. ASSUME NEW t \in Threads, FlushExec(t) \/ FlushMark(t) PROVE ThreadInv'
    BY <1>7 DEF ThreadInv, FlushExec, FlushMark, TypeOK, entryVars
  <1>8. ASSUME NEW t \in Threads, Assign(t) PROVE ThreadInv'
    BY <1>8, <1>1, <1>3, <1>4 DEF Assign, SetValue, AssignStore, DeleteLater, Store
  <1>9. ASSUME NEW t \in Threads, Flush(t) PROVE ThreadInv'
    BY <1>9, <1>1, <1>4, <1>5, <1>6, <1>7
       DEF Flush, FlushClean, FlushNothing, FlushFails, FlushLosesReply, FlushAck,
           vars, entryVars
  <1> QED
    BY <1>1, <1>2, <1>8, <1>9 DEF Next, Tick, vars, entryVars

LEMMA StoredInvStep ==
  TypeOK /\ ThreadInv /\ StoredInv /\ [Next]_vars => StoredInv'
  <1> SUFFICES ASSUME TypeOK, ThreadInv, StoredInv, [Next]_vars PROVE StoredInv'
    OBVIOUS
  <1>1. DeletionAsked => DeletionAsked'
    BY AskedStays
  <1>2. CASE UNCHANGED <<savedStamp, exists, row, pc, loc>>
    BY <1>1, <1>2 DEF StoredInv
  <1>3. ASSUME NEW e \in Entries, Load(e) PROVE StoredInv'
    BY <1>1, <1>3 DEF StoredInv, Load, Found, TypeOK
  <1>4. ASSUME NEW t \in Threads, NEW c \in Columns, NEW v \in Value,
               AssignCompare(t, c, v)
        PROVE  StoredInv'
    BY <1>1, <1>4, CompareEffect DEF StoredInv, OthersStay, entryVars, InStatement
  <1>5. ASSUME NEW t \in Threads, Return(t), UNCHANGED <<savedStamp, exists, row>>
        PROVE  StoredInv'
    BY <1>1, <1>5, ReturnEffect DEF StoredInv, OthersStay, InStatement
  <1>6. ASSUME NEW t \in Threads, FlushBegin(t) PROVE StoredInv'
    <2>1. IsDelete(Home[t]) => DeletionAsked
      BY <1>6, BeginEffect, Home[t] \in Entries DEF IsDelete, DeletionAsked
    <2>2. ~IsInsert(Home[t]) => row # NoRow \/ DeletionAsked
      BY Home[t] \in Entries DEF IsInsert, StoredInv
    <2> QED
      BY <1>1, <1>6, <2>1, <2>2, BeginEffect DEF StoredInv, OthersStay, InStatement
  <1>7. ASSUME NEW t \in Threads, FlushRead(t) PROVE StoredInv'
    BY <1>1, <1>7, ReadKeeps DEF StoredInv, OthersStay, entryVars, InStatement
  <1>8. ASSUME NEW t \in Threads, pc[t] = "exec", row' = Applied(loc[t])
        PROVE  row' # NoRow \/ DeletionAsked'
    BY <1>1, <1>8, AppliedGone DEF StoredInv, InStatement
  <1>9. ASSUME NEW t \in Threads, FlushExec(t) PROVE StoredInv'
    BY <1>1, <1>8, <1>9 DEF StoredInv, FlushExec, TypeOK, entryVars, InStatement
  <1>10. ASSUME NEW t \in Threads, FlushLosesReply(t) PROVE StoredInv'
    BY <1>1, <1>8, <1>10, ReturnEffect
       DEF StoredInv, FlushLosesReply, OthersStay, entryVars, InStatement
  <1>11. ASSUME NEW t \in Threads, FlushMark(t) PROVE StoredInv'
    BY <1>1, <1>11 DEF StoredInv, FlushMark, TypeOK, InStatement
  <1>12. ASSUME NEW t \in Threads, FlushAck(t) PROVE StoredInv'
    BY <1>1, <1>12, ReturnEffect
       DEF StoredInv, FlushAck, OthersStay, TypeOK, InStatement
  <1>13. ASSUME NEW t \in Threads, Assign(t) PROVE StoredInv'
    BY <1>13, <1>2, <1>4, <1>5 DEF Assign, SetValue, AssignStore, DeleteLater, Store
  <1>14. ASSUME NEW t \in Threads, Flush(t) PROVE StoredInv'
    BY <1>14, <1>2, <1>5, <1>6, <1>7, <1>9, <1>10, <1>11, <1>12
       DEF Flush, FlushClean, FlushNothing, FlushFails, vars, entryVars
  <1> QED
    BY <1>2, <1>3, <1>13, <1>14 DEF Next, Tick, vars, entryVars

LEMMA OwnInvStep ==
  TypeOK /\ ThreadInv /\ OwnInv /\ [Next]_vars => OwnInv'
  <1> SUFFICES ASSUME TypeOK, ThreadInv, OwnInv, [Next]_vars PROVE OwnInv'
    OBVIOUS
  <1>1. CASE UNCHANGED <<flags, savedStamp, exists, pc, loc>>
    BY <1>1 DEF OwnInv, Own
  <1>2. ASSUME NEW e \in Entries, Load(e) PROVE OwnInv'
    BY <1>2 DEF OwnInv, Own, Load, LoadedFlags, TypeOK
  <1>3. ASSUME NEW t \in Threads, NEW c \in Columns, NEW v \in Value,
               AssignCompare(t, c, v)
        PROVE  OwnInv'
    BY <1>3, CompareEffect DEF OwnInv, Own, OthersStay, entryVars, InStatement, InFlight
  <1>4. ASSUME NEW e \in Entries, NEW c \in Columns, NEW v \in Value,
               Store(e, c, v), e \in Writers[c]
        PROVE  \A f \in Entries : flags'[f] \subseteq Own(f) <=> flags[f] \subseteq Own(f)
    BY <1>4, StoreEffect DEF Own
  <1>5. ASSUME NEW t \in Threads, NEW c \in Columns, NEW v \in Value,
               SetValue(t, c, v) \/ (c = DeletedAt /\ DeleteLater(t, v))
        PROVE  OwnInv'
    BY <1>4, <1>5, Home[t] \in Entries
       DEF OwnInv, Own, SetValue, DeleteLater, MayAssign, Store
  <1>6. ASSUME NEW t \in Threads, AssignStore(t) PROVE OwnInv'
    <2>1. /\ loc[t].col \in Columns /\ loc[t].val \in Value
          /\ Home[t] \in Writers[loc[t].col]
      BY <1>6, loc[t] \in Locals DEF TypeOK, Locals, ThreadInv, AssignStore
    <2> QED
      BY <1>4, <1>6, <2>1, ReturnEffect, Home[t] \in Entries
         DEF OwnInv, Own, AssignStore, Store, OthersStay, InStatement, InFlight
  <1>7. ASSUME NEW t \in Threads, Return(t), UNCHANGED <<flags, savedStamp, exists>>
        PROVE  OwnInv'
    BY <1>7, ReturnEffect DEF OwnInv, Own, OthersStay, InStatement, InFlight
  <1>8. ASSUME NEW t \in Threads, FlushBegin(t) PROVE OwnInv'
    <2>1. ~IsInsert(Home[t]) => flags[Home[t]] \subseteq Own(Home[t])
      BY Home[t] \in Entries DEF IsInsert, OwnInv
    <2> QED
      BY <1>8, <2>1, BeginEffect, Home[t] \in Entries
         DEF OwnInv, Own, OthersStay, InStatement, InFlight, TypeOK
  <1>9. ASSUME NEW t \in Threads, FlushRead(t) PROVE OwnInv'
    BY <1>9, ReadKeeps
       DEF OwnInv, Own, OthersStay, entryVars, InStatement, InFlight
  <1>10. ASSUME NEW t \in Threads, FlushExec(t) PROVE OwnInv'
    BY <1>10 DEF OwnInv, Own, FlushExec, TypeOK, entryVars, InStatement, InFlight
  <1>11. ASSUME NEW t \in Threads, FlushMark(t) PROVE OwnInv'
    BY <1>11, Home[t] \in Entries
       DEF OwnInv, Own, FlushMark, TypeOK, InStatement, InFlight
  <1>12. ASSUME NEW t \in Threads, FlushAck(t) PROVE OwnInv'
    <2>1. flags'[Home[t]] \subseteq flags[Home[t]]
      BY <1>12, Home[t] \in Entries DEF FlushAck, LeftFlags, TypeOK
    <2>2. flags[Home[t]] \subseteq Own(Home[t])
      BY <1>12, Home[t] \in Entries DEF OwnInv, FlushAck, InFlight
    <2> QED
      BY <1>12, <2>1, <2>2, ReturnEffect, Home[t] \in Entries
         DEF OwnInv, Own, FlushAck, OthersStay, InStatement, InFlight, TypeOK
  <1>13. ASSUME NEW t \in Threads, Assign(t) PROVE OwnInv'
    BY <1>13, <1>3, <1>5, <1>6 DEF Assign
  <1>14. ASSUME NEW t \in Threads, Flush(t) PROVE OwnInv'
    BY <1>14, <1>1, <1>7, <1>8, <1>9, <1>10, <1>11, <1>12
       DEF Flush, FlushClean, FlushNothing, FlushFails, FlushLosesReply, vars, entryVars
  <1> QED
    BY <1>1, <1>2, <1>13, <1>14 DEF Next, Tick, vars, entryVars

-----------------------------------------------------------------------------
(* The theorems that hold of every use of the model *)

BaseInv == TypeOK /\ ThreadInv /\ StoredInv /\ OwnInv

LEMMA BaseInvHolds == Spec => []BaseInv
  <1>1. Init => ThreadInv /\ StoredInv /\ OwnInv
    BY DEF Init, ThreadInv, StoredInv, OwnInv, InStatement, InFlight, CreatedFlags
  <1>2. TypeOK /\ ThreadInv /\ StoredInv /\ OwnInv /\ [Next]_vars
          => (ThreadInv /\ StoredInv /\ OwnInv)'
    BY ThreadInvStep, StoredInvStep, OwnInvStep
  <1> QED
    BY <1>1, <1>2, TypeCorrect, PTL DEF Spec, BaseInv

\* An object marked as stored has a row, unless its deletion was asked for:
\* whatever overlaps, and whichever statements fail or lose their answer.
THEOREM StoredRowIsKnown == Spec => []KnownRowIsStored
  <1>1. BaseInv => KnownRowIsStored
    BY DEF BaseInv, StoredInv, KnownRowIsStored
  <1> QED
    BY <1>1, BaseInvHolds, PTL

\* Only a statement that runs changes the table.
LEMMA OnlyExecWrites ==
  ASSUME [Next]_vars, row' # row
  PROVE  \E t \in Threads : FlushExec(t) \/ FlushLosesReply(t)
  <1>1. ASSUME NEW t \in Threads, Assign(t) PROVE row' = row
    BY <1>1 DEF Assign, AssignCompare, AssignStore, SetValue, DeleteLater, Store
  <1>2. ASSUME NEW t \in Threads, FlushRead(t) \/ FlushBegin(t) PROVE row' = row
    BY <1>2 DEF FlushRead, FlushBegin
  <1>3. ASSUME NEW t \in Threads,
               FlushNothing(t) \/ FlushFails(t) \/ FlushMark(t) \/ FlushAck(t)
        PROVE  row' = row
    BY <1>3 DEF FlushNothing, FlushFails, FlushMark, FlushAck
  <1>4. Tick \/ (\E e \in Entries : Load(e)) => row' = row
    BY DEF Tick, Load
  <1>5. UNCHANGED vars => row' = row
    BY DEF vars
  <1>6. ASSUME NEW t \in Threads, Flush(t)
        PROVE  FlushExec(t) \/ FlushLosesReply(t)
    BY <1>2, <1>3, <1>5, <1>6 DEF Flush, FlushClean
  <1> QED
    BY <1>1, <1>4, <1>5, <1>6 DEF Next

\* The statement of one flush() changes a stored row only in columns that its
\* own object is meant to assign.
LEMMA ExecOwnColumns ==
  ASSUME BaseInv, NEW t \in Threads, pc[t] = "exec", ~DuplicateKey(loc[t]),
         row' = Applied(loc[t]), NEW c \in Columns,
         row # NoRow, row' # NoRow, row'[c] # row[c]
  PROVE  Home[t] \in Writers[c]
  <1>1. ~loc[t].delete /\ ~loc[t].insert
    BY loc[t] \in Locals DEF BaseInv, TypeOK, Locals, DuplicateKey, Applied
  <1>2. c \in loc[t].dirty
    BY <1>1 DEF Applied
  <1>3. loc[t].dirty \subseteq Own(Home[t])
    BY <1>1 DEF BaseInv, OwnInv, InStatement
  <1> QED
    BY <1>2, <1>3 DEF Own

\* Flushes of different servers do not overwrite each other's columns.
THEOREM NoClobbering == Spec => NoClobber
  <1>1. BaseInv /\ [Next]_vars =>
          [\A c \in Columns :
             /\ row # NoRow /\ row' # NoRow
             /\ row'[c] # row[c]
             => \E t \in Threads :
                  pc[t] = "exec" /\ pc'[t] # "exec" /\ Home[t] \in Writers[c]
          ]_<<row, pc>>
    <2> SUFFICES ASSUME BaseInv, [Next]_vars, NEW c \in Columns,
                        row # NoRow, row' # NoRow, row'[c] # row[c]
                 PROVE  \E t \in Threads :
                          pc[t] = "exec" /\ pc'[t] # "exec" /\ Home[t] \in Writers[c]
      OBVIOUS
    <2>1. ASSUME NEW t \in Threads, FlushExec(t) \/ FlushLosesReply(t)
          PROVE  pc[t] = "exec" /\ pc'[t] # "exec" /\ Home[t] \in Writers[c]
      BY <2>1, ExecOwnColumns
         DEF FlushExec, FlushLosesReply, Return, BaseInv, TypeOK
    <2>2. \E t \in Threads : FlushExec(t) \/ FlushLosesReply(t)
      BY OnlyExecWrites
    <2> QED
      BY <2>1, <2>2
  <1> QED
    BY <1>1, BaseInvHolds, PTL DEF Spec, NoClobber

-----------------------------------------------------------------------------
(* The conditions under which flush() keeps its promise: one thread flushes *)
(* an object, statements do not fail, no two assignments share a            *)
(* millisecond and the model has a primary key.                             *)

Serial ==
  /\ FineClock /\ HasPrimary /\ Faults = {}
  /\ \A t, u \in Flushers : Home[t] = Home[u] => t = u

\* A stamp that has not moved since the flush began means no bit was set since:
\* the epilogue then clears nothing.
StampInv ==
  /\ \A e \in Entries : dataStamp[e] <= clock
  /\ \A t \in Threads : pc[t] \in InFlight =>
       /\ t \in Flushers
       /\ loc[t].stamp <= clock
       /\ loc[t].stamp = dataStamp[Home[t]] => flags[Home[t]] = {}

\* The row is made by one INSERT of all columns, by the creator's first flush.
FirstInv ==
  /\ \A e \in Entries : loaded[e] /\ e # Creator => exists[e]
  /\ \A t \in Threads : pc[t] \in InStatement =>
       /\ pc[t] = "exec" => loc[t].todo = {}
       /\ loc[t].insert => /\ Home[t] = Creator /\ ~exists[Creator]
                          /\ loc[t].dirty = Columns
  /\ \/ exists[Creator]
     \/ \E t \in Threads : Home[t] = Creator /\ pc[t] = "mark"
     \/ /\ row = NoRow /\ savedStamp[Creator] = 0
        /\ \A e \in Entries : ~exists[e]
        /\ \/ flags[Creator] = Columns
           \/ \E t \in Threads : /\ Home[t] = Creator /\ pc[t] \in InStatement
                                 /\ loc[t].insert

\* What a flush has read is the present value, or the bit is set again.
ReadInv ==
  \A t \in Threads, c \in Columns :
    pc[t] \in InStatement /\ c \in loc[t].dirty \ (loc[t].todo \cup flags[Home[t]])
      => loc[t].got[c] = data[Home[t]][c]

\* A column that is not waiting (its bit is clear, no flush is about to write
\* its present value) has its present value in the table.
Waiting(e, c) ==
  \/ c \in flags[e]
  \/ \E t \in Threads :
       /\ Home[t] = e /\ pc[t] \in InStatement /\ c \in loc[t].dirty
       /\ c \in loc[t].todo \/ loc[t].got[c] = data[e][c]

ValueInv ==
  DeletionAsked \/
  \A e \in Entries, c \in Columns :
    loaded[e] /\ Writers[c] = {e} =>
      Waiting(e, c) \/ (row # NoRow /\ row[c] = data[e][c])

\* No NULL is ever read from an object or stored in the table.
WholeInv ==
  /\ WholeRow
  /\ \A e \in Entries, c \in Columns : loaded[e] => data[e][c] # Null
  /\ \A t \in Threads, c \in Columns :
       pc[t] \in InStatement /\ c \in loc[t].dirty \ loc[t].todo => loc[t].got[c] # Null

\* Two flushes of one object do not overlap.
LEMMA Alone ==
  ASSUME Serial, StampInv, NEW t \in Threads, NEW u \in Flushers,
         pc[t] \in InFlight, Home[t] = Home[u]
  PROVE  t = u
  BY DEF Serial, StampInv

\* While an INSERT is under way there is no row, and nobody knows of one.
LEMMA InsertFinds ==
  ASSUME Serial, StampInv, FirstInv, NEW t \in Threads,
         pc[t] \in InStatement, loc[t].insert
  PROVE  row = NoRow /\ \A e \in Entries : ~exists[e]
  <1>1. t \in Flushers /\ Home[t] = Creator /\ ~exists[Creator]
    BY DEF StampInv, FirstInv, InStatement, InFlight
  <1>2. ~\E u \in Threads : Home[u] = Creator /\ pc[u] = "mark"
    BY <1>1, Alone DEF InFlight, InStatement
  <1> QED
    BY <1>1, <1>2 DEF FirstInv

LEMMA StampInvStep ==
  Serial /\ BaseInv /\ StampInv /\ [Next]_vars => StampInv'
  <1> SUFFICES ASSUME Serial, BaseInv, StampInv, [Next]_vars PROVE StampInv'
    OBVIOUS
  <1> USE DEF BaseInv
  <1>1. CASE UNCHANGED <<clock, flags, dataStamp, pc, loc>>
    BY <1>1 DEF StampInv
  <1>2. ASSUME NEW e \in Entries, Load(e) PROVE StampInv'
    BY <1>2 DEF StampInv, Load, LoadedFlags, TypeOK
  <1>3. ASSUME NEW t \in Threads, NEW c \in Columns, NEW v \in Value,
               AssignCompare(t, c, v)
        PROVE  StampInv'
    BY <1>3, CompareEffect DEF StampInv, OthersStay, entryVars, InFlight
  <1>4. ASSUME NEW e \in Entries, NEW c \in Columns, NEW v \in Value, Store(e, c, v)
        PROVE  /\ clock \in Nat /\ clock' \in Nat /\ clock < clock'
               /\ dataStamp'[e] = clock'
               /\ \A f \in Entries : dataStamp'[f] <= clock'
    <2>1. clock \in Nat /\ clock' \in Nat /\ clock < clock' /\ dataStamp'[e] = clock'
      BY <1>4, StoreEffect, StoreTyped DEF Serial, TypeOK
    <2>2. \A f \in Entries \ {e} : dataStamp'[f] = dataStamp[f]
      BY <1>4, StoreEffect
    <2>3. \A f \in Entries : dataStamp[f] \in Nat /\ dataStamp[f] <= clock
      BY DEF StampInv, TypeOK
    <2>4. ASSUME NEW f \in Entries PROVE dataStamp'[f] <= clock'
      BY <2>1, <2>2, <2>3
    <2> QED
      BY <2>1, <2>4
  <1>5. ASSUME NEW e \in Entries, NEW c \in Columns, NEW v \in Value, Store(e, c, v),
               NEW t \in Threads, pc'[t] \notin InFlight, OthersStay(t)
        PROVE  StampInv'
    <2>1. ASSUME NEW u \in Threads, pc'[u] \in InFlight
          PROVE  /\ u \in Flushers
                 /\ loc'[u].stamp <= clock'
                 /\ loc'[u].stamp = dataStamp'[Home[u]] => flags'[Home[u]] = {}
      <3>1. u # t /\ pc'[u] = pc[u] /\ loc'[u] = loc[u]
        BY <1>5, <2>1 DEF OthersStay
      <3>2. /\ u \in Flushers /\ loc[u].stamp <= clock
            /\ loc[u].stamp = dataStamp[Home[u]] => flags[Home[u]] = {}
        BY <2>1, <3>1 DEF StampInv
      <3>3. loc[u].stamp \in Nat
        BY loc[u] \in Locals DEF TypeOK, Locals
      <3>4. loc[u].stamp <= clock' /\ loc[u].stamp # clock'
        BY <1>4, <1>5, <3>2, <3>3
      <3>5. Home[u] # e => /\ flags'[Home[u]] = flags[Home[u]]
                          /\ dataStamp'[Home[u]] = dataStamp[Home[u]]
        BY <1>5, StoreEffect, Home[u] \in Entries
      <3> QED
        BY <1>4, <1>5, <3>1, <3>2, <3>4, <3>5
    <2> QED
      BY <1>4, <1>5, <2>1 DEF StampInv
  <1>6. ASSUME NEW t \in Threads, Assign(t) PROVE StampInv'
    <2>1. ASSUME NEW c \in Columns, NEW v \in Value,
                 SetValue(t, c, v) \/ (c = DeletedAt /\ DeleteLater(t, v))
          PROVE  StampInv'
      BY <2>1, <1>5, Home[t] \in Entries
         DEF SetValue, DeleteLater, MayAssign, Idle, InFlight, OthersStay
    <2>2. ASSUME AssignStore(t) PROVE StampInv'
      <3>1. loc[t].col \in Columns /\ loc[t].val \in Value
        BY loc[t] \in Locals DEF TypeOK, Locals
      <3> QED
        BY <2>2, <3>1, <1>5, ReturnEffect, Home[t] \in Entries DEF AssignStore, InFlight
    <2> QED
      BY <1>6, <1>3, <2>1, <2>2 DEF Assign
  <1>7. ASSUME NEW t \in Threads, Return(t), UNCHANGED <<clock, flags, dataStamp>>
        PROVE  StampInv'
    BY <1>7, ReturnEffect DEF StampInv, OthersStay, InFlight
  <1>8. ASSUME NEW t \in Threads, FlushBegin(t) PROVE StampInv'
    BY <1>8, BeginEffect, Home[t] \in Entries DEF StampInv, OthersStay, InFlight, TypeOK
  <1>9. ASSUME NEW t \in Threads, FlushRead(t) PROVE StampInv'
    BY <1>9, ReadKeeps DEF StampInv, OthersStay, entryVars, InStatement, InFlight
  <1>10. ASSUME NEW t \in Threads, FlushExec(t) \/ FlushMark(t) PROVE StampInv'
    BY <1>10 DEF StampInv, FlushExec, FlushMark, TypeOK, entryVars, InFlight
  <1>11. ASSUME NEW t \in Threads, FlushAck(t) PROVE StampInv'
    BY <1>11, ReturnEffect, Home[t] \in Entries
       DEF StampInv, FlushAck, LeftFlags, OthersStay, TypeOK, InFlight
  <1>12. ASSUME NEW t \in Threads, Flush(t) PROVE StampInv'
    BY <1>12, <1>1, <1>7, <1>8, <1>9, <1>10, <1>11
       DEF Flush, FlushClean, FlushNothing, FlushFails, FlushLosesReply, vars, entryVars
  <1> QED
    BY <1>1, <1>2, <1>6, <1>12 DEF Next, Tick, vars, entryVars, Serial

\* Under Serial a statement that reaches the table is never refused.
LEMMA NoRefusal ==
  ASSUME Serial, StampInv, FirstInv, NEW t \in Threads, FlushFails(t)
  PROVE  FALSE
  BY InsertFinds DEF FlushFails, DuplicateKey, Serial, InStatement

LEMMA FirstInvStep ==
  Serial /\ BaseInv /\ StampInv /\ FirstInv /\ [Next]_vars => FirstInv'
  <1> SUFFICES ASSUME Serial, BaseInv, StampInv, FirstInv, [Next]_vars
               PROVE  FirstInv'
    OBVIOUS
  <1> USE DEF BaseInv
  <1>1. CASE UNCHANGED <<loaded, flags, savedStamp, exists, row, pc, loc>>
    BY <1>1 DEF FirstInv
  <1>2. ASSUME NEW e \in Entries, Load(e) PROVE FirstInv'
    <2>1. row # NoRow
      BY <1>2 DEF Load, Found
    <2>2. \A t \in Threads : ~(pc[t] \in InStatement /\ loc[t].insert)
      BY <2>1, InsertFinds
    <2> QED
      BY <1>2, <2>1, <2>2 DEF FirstInv, Load, TypeOK
  <1>3. ASSUME NEW t \in Threads, NEW c \in Columns, NEW v \in Value,
               AssignCompare(t, c, v)
        PROVE  FirstInv'
    BY <1>3, CompareEffect DEF FirstInv, OthersStay, entryVars, InStatement
  <1>4. ASSUME NEW e \in Entries, NEW c \in Columns, NEW v \in Value, Store(e, c, v)
        PROVE  flags[Creator] = Columns => flags'[Creator] = Columns
    <2>1. CASE e = Creator
      BY <1>4, <2>1, StoreEffect, Columns \cup {c} = Columns
    <2>2. CASE e # Creator
      BY <1>4, <2>2, StoreEffect, Creator \in Entries \ {e}
    <2> QED
      BY <2>1, <2>2
  <1>5. ASSUME NEW t \in Threads, NEW c \in Columns, NEW v \in Value,
               SetValue(t, c, v) \/ (c = DeletedAt /\ DeleteLater(t, v))
        PROVE  FirstInv'
    <2>1. Store(Home[t], c, v) /\ UNCHANGED <<pc, loc>>
      BY <1>5 DEF SetValue, DeleteLater
    <2>2. UNCHANGED <<loaded, savedStamp, exists, row>>
      BY <2>1 DEF Store
    <2>3. flags[Creator] = Columns => flags'[Creator] = Columns
      BY <1>4, <2>1, Home[t] \in Entries
    <2> QED
      BY <2>1, <2>2, <2>3 DEF FirstInv
  <1>6. ASSUME NEW t \in Threads, AssignStore(t) PROVE FirstInv'
    <2>1. loc[t].col \in Columns /\ loc[t].val \in Value
      BY loc[t] \in Locals DEF TypeOK, Locals
    <2> QED
      BY <1>4, <1>6, <2>1, ReturnEffect, Home[t] \in Entries
         DEF FirstInv, AssignStore, Store, OthersStay, InStatement
  <1>7. ASSUME NEW t \in Threads, Assign(t) PROVE FirstInv'
    BY <1>7, <1>3, <1>5, <1>6 DEF Assign
  <1>8. ASSUME NEW t \in Threads, FlushBegin(t) PROVE FirstInv'
    <2> DEFINE e == Home[t]
    <2>1. \A u \in Threads : Home[u] = e => pc[u] \notin InFlight
      BY <1>8, BeginEffect, Alone DEF InFlight
    <2>2. CASE IsInsert(e)
      <3>1. e = Creator /\ ~exists[Creator]
        BY <1>8, <2>2, BeginEffect, e \in Entries DEF FirstInv, IsInsert
      <3>2. /\ row = NoRow /\ savedStamp[Creator] = 0
            /\ \A f \in Entries : ~exists[f]
            /\ flags[Creator] = Columns
        BY <2>1, <3>1 DEF FirstInv, InStatement, InFlight
      <3>3. /\ pc'[t] = "read" /\ loc'[t].insert /\ loc'[t].dirty = Columns
            /\ OthersStay(t)
            /\ UNCHANGED <<loaded, savedStamp, exists, row>>
        BY <1>8, <2>2, <3>1, <3>2, BeginEffect
      <3> QED
        BY <3>1, <3>2, <3>3 DEF FirstInv, OthersStay, InStatement
    <2>3. CASE ~IsInsert(e)
      <3>1. e = Creator => exists[Creator] \/ savedStamp[Creator] # 0
        <4> SUFFICES ASSUME e = Creator PROVE exists[Creator] \/ savedStamp[Creator] # 0
          OBVIOUS
        <4>1. ~IsInsert(Creator)
          BY <2>3
        <4> QED
          BY <4>1 DEF IsInsert
      <3>2. e # Creator => flags'[Creator] = flags[Creator]
        BY <1>8, BeginEffect DEF TypeOK
      <3>3. /\ pc[t] = "idle" /\ pc'[t] = "read" /\ ~loc'[t].insert
            /\ OthersStay(t)
            /\ UNCHANGED <<loaded, savedStamp, exists, row>>
        BY <1>8, <2>3, BeginEffect
      <3>4. \/ exists[Creator]
            \/ \E u \in Threads \ {t} : Home[u] = Creator /\ pc[u] = "mark"
            \/ /\ e # Creator /\ row = NoRow /\ savedStamp[Creator] = 0
               /\ \A f \in Entries : ~exists[f]
               /\ \/ flags[Creator] = Columns
                  \/ \E u \in Threads \ {t} : /\ Home[u] = Creator
                                              /\ pc[u] \in InStatement
                                              /\ loc[u].insert
        BY <3>1, <3>3 DEF FirstInv, InStatement
      <3> QED
        BY <3>2, <3>3, <3>4 DEF FirstInv, OthersStay, InStatement
    <2> QED
      BY <2>2, <2>3
  <1>9. ASSUME NEW t \in Threads, FlushRead(t) PROVE FirstInv'
    <2>1. /\ pc[t] = "read" /\ pc'[t] \in InStatement
          /\ pc'[t] = "exec" => loc'[t].todo = {}
      BY <1>9, ReadEffect DEF InStatement
    <2> QED
      BY <1>9, <2>1, ReadKeeps DEF FirstInv, OthersStay, entryVars, InStatement
  <1>10. ASSUME NEW t \in Threads, FlushExec(t) PROVE FirstInv'
    <2>1. pc'[t] = "mark" /\ \A u \in Threads \ {t} : pc'[u] = pc[u]
      BY <1>10 DEF FlushExec, TypeOK
    <2>2. CASE loc[t].insert
      BY <1>10, <2>1, <2>2, Home[t] = Creator DEF FirstInv, FlushExec, entryVars, InStatement
    <2>3. CASE ~loc[t].insert
      <3>1. row = NoRow => row' = NoRow
        BY <1>10, <2>3 DEF FlushExec, Applied
      <3> QED
        BY <1>10, <2>1, <2>3, <3>1 DEF FirstInv, FlushExec, entryVars, InStatement
    <2> QED
      BY <2>2, <2>3
  <1>11. ASSUME NEW t \in Threads, FlushMark(t) PROVE FirstInv'
    <2>1. pc[t] = "mark" /\ pc'[t] = "ack" /\ \A u \in Threads \ {t} : pc'[u] = pc[u]
      BY <1>11 DEF FlushMark, TypeOK
    <2>2. loaded[Home[t]]
      BY <2>1 DEF ThreadInv
    <2>3. exists'[Home[t]] /\ \A e \in Entries \ {Home[t]} : exists'[e] = exists[e]
      BY <1>11, Home[t] \in Entries DEF FlushMark, TypeOK
    <2>4. \A u \in Threads : u # t /\ pc[u] \in InStatement => Home[u] # Home[t]
      BY <2>1, Alone DEF StampInv, InFlight, InStatement
    <2>5. Home[t] # Creator => exists[Home[t]]
      BY <2>2, Home[t] \in Entries DEF FirstInv
    <2> QED
      BY <1>11, <2>1, <2>3, <2>4, <2>5, Home[t] \in Entries
         DEF FirstInv, FlushMark, InStatement
  <1>12. ASSUME NEW t \in Threads, FlushAck(t) PROVE FirstInv'
    <2>1. exists[Home[t]] /\ Home[t] \in Entries
      BY <1>12 DEF FlushAck, StoredInv
    <2>2. \/ exists[Creator]
          \/ \E u \in Threads : Home[u] = Creator /\ pc[u] = "mark"
      BY <2>1 DEF FirstInv
    <2> QED
      BY <1>12, <2>2, ReturnEffect DEF FirstInv, FlushAck, OthersStay, InStatement
  <1>13. ASSUME NEW t \in Threads, Flush(t) PROVE FirstInv'
    BY <1>13, <1>1, <1>8, <1>9, <1>10, <1>11, <1>12, NoRefusal
       DEF Flush, FlushClean, FlushNothing, FlushLosesReply, Serial, vars, entryVars
  <1> QED
    BY <1>1, <1>2, <1>7, <1>13 DEF Next, Tick, vars, entryVars

LEMMA ReadInvStep ==
  Serial /\ BaseInv /\ StampInv /\ ReadInv /\ [Next]_vars => ReadInv'
  <1> SUFFICES ASSUME Serial, BaseInv, StampInv, ReadInv, [Next]_vars
               PROVE  ReadInv'
    OBVIOUS
  <1> USE DEF BaseInv
  <1>1. CASE UNCHANGED <<data, flags, pc, loc>>
    BY <1>1 DEF ReadInv
  <1>2. ASSUME NEW e \in Entries, Load(e) PROVE ReadInv'
    <2>1. \A t \in Threads : pc[t] \in InStatement => Home[t] # e
      BY <1>2 DEF Load, ThreadInv, InStatement
    <2> QED
      BY <1>2, <2>1 DEF ReadInv, Load, LoadedFlags, TypeOK
  <1>12. ASSUME NEW t \in Threads, OthersStay(t), UNCHANGED <<data, flags>>,
                ASSUME NEW d \in Columns, pc'[t] \in InStatement,
                       d \in loc'[t].dirty, d \notin loc'[t].todo,
                       d \notin flags[Home[t]]
                PROVE  loc'[t].got[d] = data[Home[t]][d]
         PROVE  ReadInv'
    <2> SUFFICES ASSUME NEW u \in Threads, NEW d \in Columns, pc'[u] \in InStatement,
                        d \in loc'[u].dirty,
                        d \notin loc'[u].todo, d \notin flags'[Home[u]]
                 PROVE  loc'[u].got[d] = data'[Home[u]][d]
      BY DEF ReadInv
    <2>1. CASE u = t
      BY <1>12, <2>1
    <2>2. CASE u # t
      <3>1. pc[u] = pc'[u] /\ loc'[u] = loc[u]
        BY <1>12, <2>2 DEF OthersStay
      <3> QED
        BY <1>12, <3>1 DEF ReadInv
    <2> QED
      BY <2>1, <2>2
  <1>3. ASSUME NEW t \in Threads, NEW c \in Columns, NEW v \in Value,
               AssignCompare(t, c, v)
        PROVE  ReadInv'
    <2>1. pc'[t] \notin InStatement /\ OthersStay(t) /\ UNCHANGED <<data, flags>>
      BY <1>3, CompareEffect DEF entryVars, InStatement
    <2> QED
      BY <2>1, <1>12
  <1>4. ASSUME NEW e \in Entries, NEW c \in Columns, NEW v \in Value, Store(e, c, v),
               NEW t \in Threads, pc'[t] \notin InStatement, OthersStay(t)
        PROVE  ReadInv'
    <2> SUFFICES ASSUME NEW u \in Threads, NEW d \in Columns, pc'[u] \in InStatement,
                        d \in loc'[u].dirty,
                        d \notin loc'[u].todo, d \notin flags'[Home[u]]
                 PROVE  loc'[u].got[d] = data'[Home[u]][d]
      BY DEF ReadInv
    <2>1. u # t /\ pc[u] = pc'[u] /\ loc'[u] = loc[u]
      BY <1>4 DEF OthersStay
    <2>2. d \notin flags[Home[u]] /\ (Home[u] # e \/ d # c)
      <3>1. CASE Home[u] = e
        <4>1. flags'[e] = flags[e] \cup {c}
          BY <1>4 DEF Store, BaseInv, TypeOK
        <4>2. d \notin flags[e] \cup {c}
          BY <3>1, <4>1
        <4> QED
          BY <3>1, <4>2
      <3>2. CASE Home[u] # e
        BY <1>4, <3>2, StoreEffect, Home[u] \in Entries
      <3> QED
        BY <3>1, <3>2
    <2>3. data'[Home[u]][d] = data[Home[u]][d]
      BY <1>4, <2>2, StoreEffect, Home[u] \in Entries
    <2> QED
      BY <2>1, <2>2, <2>3 DEF ReadInv
  <1>5. ASSUME NEW t \in Threads, Assign(t) PROVE ReadInv'
    <2>1. ASSUME NEW c \in Columns, NEW v \in Value,
                 SetValue(t, c, v) \/ (c = DeletedAt /\ DeleteLater(t, v))
          PROVE  ReadInv'
      BY <2>1, <1>4, Home[t] \in Entries
         DEF SetValue, DeleteLater, MayAssign, Idle, InStatement, OthersStay
    <2>2. ASSUME AssignStore(t) PROVE ReadInv'
      <3>1. loc[t].col \in Columns /\ loc[t].val \in Value
        BY loc[t] \in Locals DEF TypeOK, Locals
      <3> QED
        BY <2>2, <3>1, <1>4, ReturnEffect, Home[t] \in Entries DEF AssignStore, InStatement
    <2> QED
      BY <1>5, <1>3, <2>1, <2>2 DEF Assign
  <1>6. ASSUME NEW t \in Threads, Return(t), UNCHANGED <<data, flags>>
        PROVE  ReadInv'
    BY <1>6, ReturnEffect DEF ReadInv, OthersStay, InStatement
  <1>7. ASSUME NEW t \in Threads, FlushBegin(t) PROVE ReadInv'
    <2>1. \A u \in Threads : pc[u] \in InStatement => Home[u] # Home[t]
      BY <1>7, BeginEffect, Alone DEF InFlight, InStatement
    <2>2. \A e \in Entries \ {Home[t]} : flags'[e] = flags[e]
      BY <1>7, BeginEffect DEF TypeOK
    <2>3. /\ loc'[t].dirty = loc'[t].todo /\ OthersStay(t) /\ data' = data
      BY <1>7, BeginEffect
    <2> QED
      BY <2>1, <2>2, <2>3 DEF ReadInv, OthersStay
  <1>8. ASSUME NEW t \in Threads, FlushRead(t) PROVE ReadInv'
    <2>1. PICK c \in loc[t].todo :
            /\ pc[t] = "read" /\ OthersStay(t)
            /\ loc'[t].todo = loc[t].todo \ {c}
            /\ loc'[t].got = [loc[t].got EXCEPT ![c] = data[Home[t]][c]]
            /\ loc'[t].dirty = loc[t].dirty
            /\ UNCHANGED <<clock, entryVars, row>>
      BY <1>8, ReadEffect
    <2>2. DOMAIN loc[t].got = Columns
      BY loc[t] \in Locals DEF TypeOK, Locals, Row
    <2>3. ASSUME NEW d \in Columns, d \in loc'[t].dirty, d \notin loc'[t].todo,
                 d \notin flags[Home[t]]
          PROVE  loc'[t].got[d] = data[Home[t]][d]
      BY <2>1, <2>2, <2>3 DEF ReadInv, InStatement
    <2> QED
      BY <2>1, <2>3, <1>12 DEF entryVars
  <1>9. ASSUME NEW t \in Threads, FlushExec(t) \/ FlushMark(t) PROVE ReadInv'
    BY <1>9 DEF ReadInv, FlushExec, FlushMark, TypeOK, entryVars, InStatement
  <1>10. ASSUME NEW t \in Threads, FlushAck(t) PROVE ReadInv'
    <2>1. flags' = flags
      BY <1>10, Home[t] \in Entries DEF FlushAck, LeftFlags, StampInv, InFlight, TypeOK
    <2> QED
      BY <1>10, <2>1, <1>6 DEF FlushAck
  <1>11. ASSUME NEW t \in Threads, Flush(t) PROVE ReadInv'
    BY <1>11, <1>1, <1>6, <1>7, <1>8, <1>9, <1>10
       DEF Flush, FlushClean, FlushNothing, FlushFails, FlushLosesReply, vars, entryVars
  <1> QED
    BY <1>1, <1>2, <1>5, <1>11 DEF Next, Tick, vars, entryVars

LEMMA WholeInvStep ==
  Serial /\ BaseInv /\ StampInv /\ FirstInv /\ WholeInv /\ [Next]_vars => WholeInv'
  <1> SUFFICES ASSUME Serial, BaseInv, StampInv, FirstInv, WholeInv, [Next]_vars
               PROVE  WholeInv'
    OBVIOUS
  <1> USE DEF BaseInv
  <1>1. CASE UNCHANGED <<loaded, data, row, pc, loc>>
    BY <1>1 DEF WholeInv, WholeRow
  <1>2. ASSUME NEW e \in Entries, Load(e) PROVE WholeInv'
    BY <1>2 DEF WholeInv, WholeRow, Load, Found, TypeOK
  <1>3. ASSUME NEW t \in Threads, NEW c \in Columns, NEW v \in Value,
               AssignCompare(t, c, v)
        PROVE  WholeInv'
    BY <1>3, CompareEffect DEF WholeInv, WholeRow, OthersStay, entryVars, InStatement
  <1>4. ASSUME NEW e \in Entries, NEW c \in Columns, NEW v \in Value, Store(e, c, v),
               NEW t \in Threads, pc'[t] \notin InStatement, OthersStay(t)
        PROVE  WholeInv'
    <2>1. \A f \in Entries, d \in Columns : loaded'[f] => data'[f][d] # Null
      BY <1>4, StoreEffect DEF WholeInv
    <2>2. row' = row
      BY <1>4, StoreEffect
    <2> QED
      BY <1>4, <2>1, <2>2 DEF WholeInv, WholeRow, OthersStay
  <1>5. ASSUME NEW t \in Threads, Assign(t) PROVE WholeInv'
    <2>1. ASSUME NEW c \in Columns, NEW v \in Value,
                 SetValue(t, c, v) \/ (c = DeletedAt /\ DeleteLater(t, v))
          PROVE  WholeInv'
      BY <2>1, <1>4, Home[t] \in Entries
         DEF SetValue, DeleteLater, MayAssign, Idle, InStatement, OthersStay
    <2>2. ASSUME AssignStore(t) PROVE WholeInv'
      <3>1. loc[t].col \in Columns /\ loc[t].val \in Value
        BY loc[t] \in Locals DEF TypeOK, Locals
      <3> QED
        BY <2>2, <3>1, <1>4, ReturnEffect, Home[t] \in Entries DEF AssignStore, InStatement
    <2> QED
      BY <1>5, <1>3, <2>1, <2>2 DEF Assign
  <1>6. ASSUME NEW t \in Threads, Return(t), UNCHANGED <<loaded, data, row>>
        PROVE  WholeInv'
    BY <1>6, ReturnEffect DEF WholeInv, WholeRow, OthersStay, InStatement
  <1>7. ASSUME NEW t \in Threads, FlushBegin(t) PROVE WholeInv'
    BY <1>7, BeginEffect DEF WholeInv, WholeRow, OthersStay, InStatement
  <1>8. ASSUME NEW t \in Threads, FlushRead(t) PROVE WholeInv'
    <2>1. PICK c \in loc[t].todo :
            /\ pc[t] = "read" /\ OthersStay(t)
            /\ loc'[t].todo = loc[t].todo \ {c}
            /\ loc'[t].got = [loc[t].got EXCEPT ![c] = data[Home[t]][c]]
            /\ loc'[t].dirty = loc[t].dirty
            /\ UNCHANGED <<clock, entryVars, row>>
      BY <1>8, ReadEffect
    <2>2. DOMAIN loc[t].got = Columns /\ c \in Columns
      BY loc[t] \in Locals DEF TypeOK, Locals, Row
    <2>3. data[Home[t]][c] # Null
      BY <2>1, <2>2, Home[t] \in Entries DEF WholeInv, ThreadInv
    <2>4. \A d \in Columns : d \in loc'[t].dirty \ loc'[t].todo => loc'[t].got[d] # Null
      BY <2>1, <2>2, <2>3 DEF WholeInv, InStatement
    <2>5. WholeRow' /\ \A e \in Entries, d \in Columns : loaded'[e] => data'[e][d] # Null
      BY <2>1 DEF WholeInv, WholeRow, entryVars
    <2>6. ASSUME NEW u \in Threads, u # t, NEW d \in Columns, pc'[u] \in InStatement,
                 d \in loc'[u].dirty \ loc'[u].todo
          PROVE  loc'[u].got[d] # Null
      <3>1. pc[u] = pc'[u] /\ loc'[u] = loc[u]
        BY <2>1, <2>6 DEF OthersStay
      <3> QED
        BY <2>6, <3>1 DEF WholeInv
    <2> QED
      BY <2>4, <2>5, <2>6 DEF WholeInv
  <1>9. ASSUME NEW t \in Threads, FlushExec(t) PROVE WholeInv'
    <2>1. pc[t] = "exec" /\ row' = Applied(loc[t]) /\ pc' = [pc EXCEPT ![t] = "mark"]
      BY <1>9 DEF FlushExec
    <2>2. \A c \in loc[t].dirty : c \in Columns => loc[t].got[c] # Null
      BY <2>1 DEF WholeInv, FirstInv, InStatement
    <2>3. loc[t].insert => loc[t].dirty = Columns
      BY <2>1 DEF FirstInv, InStatement
    <2>4. WholeRow'
      BY <2>1, <2>2, <2>3 DEF WholeInv, WholeRow, Applied
    <2> QED
      BY <1>9, <2>1, <2>4 DEF WholeInv, FlushExec, entryVars, TypeOK, InStatement
  <1>10. ASSUME NEW t \in Threads, FlushMark(t) PROVE WholeInv'
    BY <1>10 DEF WholeInv, WholeRow, FlushMark, TypeOK, InStatement
  <1>11. ASSUME NEW t \in Threads, Flush(t) PROVE WholeInv'
    BY <1>11, <1>1, <1>6, <1>7, <1>8, <1>9, <1>10
       DEF Flush, FlushClean, FlushNothing, FlushFails, FlushLosesReply, FlushAck,
           Serial, vars, entryVars
  <1> QED
    BY <1>1, <1>2, <1>5, <1>11 DEF Next, Tick, vars, entryVars

\* The statement of a flush brings to the table what its object holds, in
\* every column that it has taken and that was not assigned again.
LEMMA ExecSaves ==
  ASSUME Serial, BaseInv, StampInv, FirstInv, ReadInv, NEW t \in Threads,
         FlushExec(t), ~DeletionAsked, NEW c \in Columns,
         c \in loc[t].dirty, loc[t].got[c] = data[Home[t]][c]
  PROVE  row' # NoRow /\ row'[c] = data[Home[t]][c]
  <1>1. pc[t] = "exec" /\ row' = Applied(loc[t])
    BY DEF FlushExec
  <1>2. ~loc[t].delete /\ (~loc[t].insert => row # NoRow)
    BY <1>1 DEF BaseInv, StoredInv, InStatement
  <1>3. row'[c] = loc[t].got[c]
    BY <1>1, <1>2 DEF Applied
  <1>4. row' # NoRow
    BY <1>1, <1>2, AppliedGone DEF BaseInv
  <1> QED
    BY <1>3, <1>4

\* The statement of a flush leaves alone the columns of other objects, and
\* those of its own that it has not taken.
LEMMA ExecKeeps ==
  ASSUME Serial, BaseInv, StampInv, FirstInv, NEW t \in Threads,
         FlushExec(t), ~DeletionAsked, row # NoRow, NEW c \in Columns,
         c \notin loc[t].dirty \/ Home[t] \notin Writers[c]
  PROVE  row' # NoRow /\ row'[c] = row[c]
  <1>1. pc[t] = "exec" /\ row' = Applied(loc[t])
    BY DEF FlushExec
  <1>2. ~loc[t].delete /\ ~loc[t].insert
    BY <1>1, InsertFinds DEF BaseInv, StoredInv, InStatement
  <1>3. c \notin loc[t].dirty
    BY <1>1, <1>2 DEF BaseInv, OwnInv, Own, InStatement
  <1>4. row' # NoRow
    BY <1>1, <1>2, AppliedGone DEF BaseInv
  <1> QED
    BY <1>1, <1>2, <1>3, <1>4 DEF Applied

LEMMA ValueInvStep ==
  /\ Serial /\ BaseInv /\ StampInv /\ FirstInv /\ ReadInv /\ ValueInv
  /\ [Next]_vars
  => ValueInv'
  <1> SUFFICES ASSUME Serial, BaseInv, StampInv, FirstInv, ReadInv, ValueInv,
                      [Next]_vars, ~DeletionAsked',
                      NEW e \in Entries, NEW c \in Columns,
                      loaded'[e], Writers[c] = {e}
               PROVE  Waiting(e, c)' \/ (row' # NoRow /\ row'[c] = data'[e][c])
    BY DEF ValueInv
  <1> USE DEF BaseInv
  <1> DEFINE Safe == row # NoRow /\ row[c] = data[e][c]
  <1>1. ~DeletionAsked
    BY AskedStays
  <1>2. loaded[e] => Waiting(e, c) \/ Safe
    BY <1>1 DEF ValueInv
  <1>3. CASE UNCHANGED <<loaded, data, flags, row, pc, loc>>
    BY <1>2, <1>3 DEF Waiting
  <1>4. ASSUME NEW f \in Entries, Load(f)
        PROVE  Waiting(e, c)' \/ Safe'
    <2>1. CASE f = e
      BY <1>4, <2>1 DEF Load, Found, TypeOK
    <2>2. CASE f # e
      <3>1. /\ loaded[e] /\ data'[e] = data[e] /\ flags'[e] = flags[e]
            /\ UNCHANGED <<row, pc, loc>>
        BY <1>4, <2>2 DEF Load, TypeOK
      <3> QED
        BY <1>2, <3>1 DEF Waiting
    <2> QED
      BY <2>1, <2>2
  \* A step of a thread that takes no part in a statement on e, and after
  \* which what was in the table or waiting still is.
  <1>5. ASSUME NEW t \in Threads, OthersStay(t),
               pc[t] \notin InStatement \/ Home[t] # e,
               UNCHANGED <<loaded, row>>,
               \/ c \in flags'[e]
               \/ data'[e][c] = data[e][c] /\ flags[e] \subseteq flags'[e]
        PROVE  Waiting(e, c)' \/ Safe'
    <2>1. CASE c \in flags'[e]
      BY <2>1 DEF Waiting
    <2>2. CASE data'[e][c] = data[e][c] /\ flags[e] \subseteq flags'[e]
      <3>1. CASE Safe
        BY <1>5, <2>2, <3>1
      <3>2. CASE c \in flags[e]
        BY <2>2, <3>2 DEF Waiting
      <3>3. ASSUME NEW u \in Threads, Home[u] = e, pc[u] \in InStatement,
                   c \in loc[u].dirty, c \in loc[u].todo \/ loc[u].got[c] = data[e][c]
            PROVE  Waiting(e, c)'
        <4>1. u # t
          BY <1>5, <3>3
        <4>2. pc'[u] = pc[u] /\ loc'[u] = loc[u]
          BY <1>5, <4>1 DEF OthersStay
        <4> QED
          BY <2>2, <3>3, <4>2 DEF Waiting
      <3> QED
        BY <1>2, <1>5, <3>1, <3>2, <3>3 DEF Waiting
    <2> QED
      BY <1>5, <2>1, <2>2
  <1>6. ASSUME NEW t \in Threads, NEW f \in Entries, NEW d \in Columns,
               NEW v \in Value, Store(f, d, v)
        PROVE  /\ UNCHANGED <<loaded, row>>
               /\ \/ c \in flags'[e]
                  \/ data'[e][c] = data[e][c] /\ flags[e] \subseteq flags'[e]
    <2>1. flags'[f] = flags[f] \cup {d} /\ UNCHANGED <<loaded, row>>
      BY <1>6, StoreEffect
    <2>2. f # e \/ d # c => data'[e][c] = data[e][c]
      BY <1>6, StoreEffect
    <2>3. f # e => flags'[e] = flags[e]
      BY <1>6, StoreEffect
    <2> QED
      BY <2>1, <2>2, <2>3
  <1>7. ASSUME NEW t \in Threads, Assign(t) PROVE Waiting(e, c)' \/ Safe'
    <2>1. ASSUME NEW d \in Columns, NEW v \in Value, AssignCompare(t, d, v)
          PROVE  Waiting(e, c)' \/ Safe'
      <3>1. /\ OthersStay(t) /\ pc[t] \notin InStatement
            /\ UNCHANGED <<loaded, row, data, flags>>
        BY <2>1, CompareEffect DEF entryVars, InStatement
      <3> QED
        BY <3>1, <1>5
    <2>2. ASSUME NEW d \in Columns, NEW v \in Value,
                 SetValue(t, d, v) \/ (d = DeletedAt /\ DeleteLater(t, v))
          PROVE  Waiting(e, c)' \/ Safe'
      <3>1. /\ OthersStay(t) /\ pc[t] \notin InStatement /\ Store(Home[t], d, v)
        BY <2>2 DEF SetValue, DeleteLater, MayAssign, Idle, InStatement, OthersStay
      <3> QED
        BY <3>1, <1>5, <1>6, Home[t] \in Entries
    <2>3. ASSUME AssignStore(t) PROVE Waiting(e, c)' \/ Safe'
      <3>1. loc[t].col \in Columns /\ loc[t].val \in Value
        BY loc[t] \in Locals DEF TypeOK, Locals
      <3>2. /\ OthersStay(t) /\ pc[t] \notin InStatement
            /\ Store(Home[t], loc[t].col, loc[t].val)
        BY <2>3, ReturnEffect DEF AssignStore, InStatement
      <3> QED
        BY <3>1, <3>2, <1>5, <1>6, Home[t] \in Entries
    <2> QED
      BY <1>7, <2>1, <2>2, <2>3 DEF Assign
  <1>8. ASSUME NEW t \in Threads, FlushBegin(t) PROVE Waiting(e, c)' \/ Safe'
    <2>1. /\ OthersStay(t) /\ pc[t] = "idle" /\ pc'[t] = "read"
          /\ loc'[t].dirty = flags[Home[t]] /\ loc'[t].todo = flags[Home[t]]
          /\ UNCHANGED <<loaded, data, row>>
      BY <1>8, BeginEffect
    <2>2. CASE Home[t] = e /\ c \in flags[e]
      BY <2>1, <2>2 DEF Waiting, InStatement
    <2>3. CASE Home[t] = e /\ c \notin flags[e]
      <3>1. CASE Safe
        BY <2>1, <3>1
      <3>2. ASSUME NEW u \in Threads, Home[u] = e, pc[u] \in InStatement,
                   c \in loc[u].dirty, c \in loc[u].todo \/ loc[u].got[c] = data[e][c]
            PROVE  Waiting(e, c)'
        <4>1. u # t
          BY <2>1, <3>2 DEF InStatement
        <4>2. pc'[u] = pc[u] /\ loc'[u] = loc[u]
          BY <2>1, <4>1 DEF OthersStay
        <4> QED
          BY <2>1, <3>2, <4>2 DEF Waiting
      <3> QED
        BY <1>2, <2>1, <2>3, <3>1, <3>2 DEF Waiting
    <2>4. CASE Home[t] # e
      <3>1. flags'[e] = flags[e]
        BY <1>8, <2>4, BeginEffect DEF TypeOK
      <3> QED
        BY <2>1, <2>4, <3>1, <1>5
    <2> QED
      BY <2>2, <2>3, <2>4

<1>9. ASSUME NEW t \in Threads, FlushRead(t) PROVE Waiting(e, c)' \/ Safe'
    <2>1. PICK d \in loc[t].todo :
            /\ pc[t] = "read" /\ OthersStay(t)
            /\ loc'[t].todo = loc[t].todo \ {d}
            /\ loc'[t].got = [loc[t].got EXCEPT ![d] = data[Home[t]][d]]
            /\ UNCHANGED <<clock, entryVars, row>>
      BY <1>9, ReadEffect
    <2>2. /\ pc'[t] \in InStatement /\ loc'[t].dirty = loc[t].dirty
          /\ UNCHANGED <<loaded, data, flags, row>>
      BY <1>9, ReadKeeps DEF entryVars
    <2>3. DOMAIN loc[t].got = Columns
      BY loc[t] \in Locals DEF TypeOK, Locals, Row
    <2>4. CASE Home[t] = e /\ c \in loc[t].dirty
               /\ (c \in loc[t].todo \/ loc[t].got[c] = data[e][c])
      <3>1. c \in loc'[t].todo \/ loc'[t].got[c] = data'[e][c]
        BY <2>1, <2>2, <2>3, <2>4
      <3> QED
        BY <2>2, <2>4, <3>1 DEF Waiting
    <2>5. ASSUME NEW u \in Threads, Home[u] = e, pc[u] \in InStatement, u # t,
                 c \in loc[u].dirty, c \in loc[u].todo \/ loc[u].got[c] = data[e][c]
          PROVE  Waiting(e, c)'
      <3>1. pc'[u] = pc[u] /\ loc'[u] = loc[u]
        BY <2>1, <2>5 DEF OthersStay
      <3> QED
        BY <2>2, <2>5, <3>1 DEF Waiting
    <2>6. CASE Safe \/ c \in flags[e]
      BY <2>2, <2>6 DEF Waiting
    <2> QED
      BY <1>2, <2>2, <2>4, <2>5, <2>6 DEF Waiting
  <1>10. ASSUME NEW t \in Threads, FlushExec(t) PROVE Waiting(e, c)' \/ Safe'
    <2>1. /\ pc[t] = "exec" /\ OthersStay(t) /\ UNCHANGED <<loaded, data, flags>>
      BY <1>10 DEF FlushExec, entryVars, OthersStay, TypeOK
    <2>2. loc[t].todo = {}
      BY <2>1 DEF FirstInv, InStatement
    <2>3. CASE c \in flags[e]
      BY <2>1, <2>3 DEF Waiting
    <2>4. CASE c \notin flags[e] /\ Home[t] = e /\ c \in loc[t].dirty
      <3>1. loc[t].got[c] = data[Home[t]][c]
        BY <2>1, <2>2, <2>4 DEF ReadInv, InStatement
      <3> QED
        BY <1>1, <1>10, <2>1, <2>4, <3>1, ExecSaves
    <2>5. CASE Safe /\ (Home[t] # e \/ c \notin loc[t].dirty)
      BY <1>1, <1>10, <2>1, <2>5, ExecKeeps
    <2>6. ASSUME NEW u \in Threads, Home[u] = e, pc[u] \in InStatement, u # t,
                 c \in loc[u].dirty, c \in loc[u].todo \/ loc[u].got[c] = data[e][c]
          PROVE  Waiting(e, c)'
      <3>1. pc'[u] = pc[u] /\ loc'[u] = loc[u]
        BY <2>1, <2>6 DEF OthersStay
      <3> QED
        BY <2>1, <2>6, <3>1 DEF Waiting
    <2> QED
      BY <1>2, <2>1, <2>3, <2>4, <2>5, <2>6 DEF Waiting
  <1>11. ASSUME NEW t \in Threads, FlushMark(t) PROVE Waiting(e, c)' \/ Safe'
    <2>1. /\ OthersStay(t) /\ pc[t] \notin InStatement
          /\ UNCHANGED <<loaded, row, data, flags>>
      BY <1>11 DEF FlushMark, OthersStay, TypeOK, InStatement
    <2> QED
      BY <2>1, <1>5
  <1>12. ASSUME NEW t \in Threads, FlushAck(t) PROVE Waiting(e, c)' \/ Safe'
    <2>1. flags' = flags
      BY <1>12, Home[t] \in Entries DEF FlushAck, LeftFlags, StampInv, InFlight, TypeOK
    <2>2. /\ OthersStay(t) /\ pc[t] \notin InStatement
          /\ UNCHANGED <<loaded, row, data>>
      BY <1>12, ReturnEffect DEF FlushAck, InStatement
    <2> QED
      BY <2>1, <2>2, <1>5
  <1>13. ASSUME NEW t \in Threads, Flush(t) PROVE Waiting(e, c)' \/ Safe'
    BY <1>13, <1>3, <1>8, <1>9, <1>10, <1>11, <1>12, NoRefusal
       DEF Flush, FlushClean, FlushNothing, FlushLosesReply, Serial, vars, entryVars
  <1> QED
    BY <1>3, <1>4, <1>7, <1>13 DEF Next, Tick, vars, entryVars

-----------------------------------------------------------------------------
(* The theorems that need Serial *)

SerialInv == BaseInv /\ StampInv /\ FirstInv /\ ReadInv /\ ValueInv /\ WholeInv

LEMMA SerialInvHolds == ASSUME Serial PROVE Spec => []SerialInv
  <1>1. Init => StampInv /\ ReadInv /\ WholeInv
    BY DEF Init, StampInv, ReadInv, WholeInv, WholeRow, InStatement, InFlight
  <1>2. Init => FirstInv /\ ValueInv
    <2> SUFFICES ASSUME Init PROVE FirstInv /\ ValueInv
      OBVIOUS
    <2>1. FirstInv
      BY DEF Init, FirstInv, InStatement, CreatedFlags
    <2>2. ValueInv
      BY DEF Init, ValueInv, Waiting, CreatedFlags
    <2> QED
      BY <2>1, <2>2
  <1>3. BaseInv /\ SerialInv /\ [Next]_vars =>
          (StampInv /\ FirstInv /\ ReadInv /\ ValueInv /\ WholeInv)'
    BY StampInvStep, FirstInvStep, ReadInvStep, ValueInvStep, WholeInvStep
       DEF SerialInv
  <1> QED
    BY <1>1, <1>2, <1>3, BaseInvHolds, PTL DEF Spec, SerialInv

\* A column whose bit is clear and that no flush holds is in the table with the
\* value it has in memory: under Serial the early return of flush() is right.
THEOREM CleanIsSaved == ASSUME Serial PROVE Spec => []CleanMeansSaved
  <1>1. SerialInv => CleanMeansSaved
    <2> SUFFICES ASSUME SerialInv, NEW e \in Entries, NEW c \in Columns,
                        loaded[e], Writers[c] = {e}, c \notin flags[e],
                        c \notin Taken(e), ~DeletionAsked
                 PROVE  row # NoRow /\ row[c] = data[e][c]
      BY DEF CleanMeansSaved
    <2>1. ~Waiting(e, c)
      BY DEF Waiting, Taken, InStatement, InFlight
    <2> QED
      BY <2>1 DEF SerialInv, ValueInv
  <1> QED
    BY <1>1, SerialInvHolds, PTL

\* Under Serial no column of a stored row is NULL: the INSERT carried them all.
THEOREM RowsAreWhole == ASSUME Serial PROVE Spec => []WholeRow
  <1>1. SerialInv => WholeRow
    BY DEF SerialInv, WholeInv
  <1> QED
    BY <1>1, SerialInvHolds, PTL

\* Under Serial a deleted row is not brought back by a late INSERT.
THEOREM DeletedIsGone == ASSUME Serial PROVE Spec => DeletedStaysDeleted
  <1>1. SerialInv /\ [Next]_vars =>
          [(\E e \in Entries : exists[e]) /\ row = NoRow => row' = NoRow]_row
    <2> SUFFICES ASSUME SerialInv, [Next]_vars, NEW e \in Entries, exists[e], row = NoRow
                 PROVE  row' = NoRow
      OBVIOUS
    <2>1. ASSUME NEW t \in Threads, FlushExec(t) \/ FlushLosesReply(t)
          PROVE  row' = NoRow
      <3>1. ~loc[t].insert
        BY <2>1, InsertFinds DEF SerialInv, FlushExec, FlushLosesReply, InStatement
      <3> QED
        BY <2>1, <3>1 DEF FlushExec, FlushLosesReply, Applied
    <2> QED
      BY <2>1, OnlyExecWrites
  <1> QED
    BY <1>1, SerialInvHolds, PTL DEF Spec, DeletedStaysDeleted
=============================================================================
