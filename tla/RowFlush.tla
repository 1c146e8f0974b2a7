------------------------------ MODULE RowFlush ------------------------------
(***************************************************************************)
(* Persistence of one table row through ModelBaseImplSqlOrm::flush().      *)
(*                                                                         *)
(* An entry is one ModelBaseData object in memory: the attribute values,   *)
(* the dirty flags and the two stamps behind one read/write lock.  Several *)
(* threads of a server assign attributes of the same entry and flush it;   *)
(* several entries (of several servers) may stand for the same row of the  *)
(* table.  flush() holds the lock only while it takes the flags and while  *)
(* it acknowledges: reading the values and running the statement happen    *)
(* between the two, unlocked.                                              *)
(***************************************************************************)
EXTENDS Naturals

CONSTANTS
  Entries,    \* the in-memory objects that stand for the row
  Creator,    \* the entry made by MODEL::create(); the others are loaded
  Threads,    \* the threads that use an entry
  Home,       \* Home[t]: the entry that thread t uses
  Flushers,   \* the threads that call flush()
  Columns,    \* attribute indices, in the order of getTableAttributesVec()
  DeletedAt,  \* the index of the deleted_at attribute
  Writers,    \* Writers[c]: the entries whose threads assign column c
  Value,      \* attribute values
  Default,    \* the value an attribute is declared with
  Null,       \* SQL NULL
  NoRow,      \* the table has no row with the entry's key
  HasPrimary, \* MODEL::Params::hasPrimary()
  SoftDelete, \* MODEL::UseSoftDelete()
  Faults,     \* what may happen to a statement: "unapplied", "lostReply"
  FineClock,  \* TRUE: no two stores fall into the same millisecond
  MaxClock    \* bound: the millisecond after which no assignment starts

ASSUME EntriesAssumption == Creator \in Entries /\ Home \in [Threads -> Entries]
ASSUME ThreadsAssumption == Flushers \subseteq Threads
ASSUME ColumnsAssumption ==
  /\ Columns \subseteq Nat
  /\ DeletedAt \in Columns
  /\ Writers \in [Columns -> SUBSET Entries]
ASSUME ValuesAssumption ==
  /\ Default \in Value
  /\ Null \notin Value
  /\ NoRow \notin [Columns -> Value \cup {Null}]
ASSUME SwitchesAssumption ==
  /\ HasPrimary \in BOOLEAN /\ SoftDelete \in BOOLEAN /\ FineClock \in BOOLEAN
  /\ Faults \subseteq {"unapplied", "lostReply"}
  /\ MaxClock \in Nat

VARIABLES
  clock,      \* QDateTime::currentMSecsSinceEpoch()
  loaded,     \* loaded[e]: the object exists
  data,       \* data[e][c]: TableAttributeImpl::_data
  flags,      \* flags[e]: the columns whose bit is set in _attribute_flags
  dataStamp,  \* dataStamp[e]: _dataStamp
  savedStamp, \* savedStamp[e]: _savedStamp
  exists,     \* exists[e]: _existInDataBase # 0
  row,        \* the row of the table
  pc,         \* pc[t]: where thread t is
  loc         \* loc[t]: the local variables of thread t

entryVars == <<loaded, data, flags, dataStamp, savedStamp, exists>>
vars == <<clock, entryVars, row, pc, loc>>

-----------------------------------------------------------------------------
Cell == Value \cup {Null}
Row == [Columns -> Cell]

\* The phases of flush(): reading the values, about to execute, executed,
\* about to acknowledge.  "store" is between the two halves of operator=.
InFlight == {"read", "exec", "mark", "ack"}

\* The locals of flush(): the flags taken, the columns still to be read, the
\* values read, the kind of statement and the stamp taken with the flags; and
\* those of operator=: the column and the value it is about to store.
Locals == [dirty: SUBSET Columns, todo: SUBSET Columns, got: Row,
           insert: BOOLEAN, delete: BOOLEAN, stamp: Nat,
           col: Columns, val: Value]

NoLocals == [dirty |-> {}, todo |-> {}, got |-> [c \in Columns |-> Default],
             insert |-> FALSE, delete |-> FALSE, stamp |-> 0,
             col |-> DeletedAt, val |-> Default]

\* The bits set by the constructor: all of them unless the object was loaded.
\* Mutant: only the attributes of the model itself.
CreatedFlagsOwn == Columns \ {DeletedAt}
CreatedFlags == Columns

Init ==
  /\ clock = 1
  /\ loaded = [e \in Entries |-> e = Creator]
  /\ data = [e \in Entries |-> [c \in Columns |-> Default]]
  /\ flags = [e \in Entries |-> IF e = Creator THEN CreatedFlags ELSE {}]
  /\ dataStamp = [e \in Entries |-> 0]
  /\ savedStamp = [e \in Entries |-> 0]
  /\ exists = [e \in Entries |-> FALSE]
  /\ row = NoRow
  /\ pc = [t \in Threads |-> "idle"]
  /\ loc = [t \in Threads |-> NoLocals]

Idle(t) == pc[t] = "idle" /\ loaded[Home[t]]

Return(t) ==
  /\ pc' = [pc EXCEPT ![t] = "idle"]
  /\ loc' = [loc EXCEPT ![t] = NoLocals]

Tick ==
  /\ ~FineClock
  /\ clock < MaxClock
  /\ clock' = clock + 1
  /\ UNCHANGED <<entryVars, row, pc, loc>>

\* Mutants: an object is made for an empty result; it is dirty like a new one.
FoundAlways == TRUE
Found == row # NoRow /\ (SoftDelete => row[DeletedAt] \in {Default, Null})
LoadedFlagsAll == Columns
LoadedFlags == {}

\* Another server selects the row, if it is not softly deleted: the object
\* starts with no bit set.
Load(e) ==
  /\ ~loaded[e]
  /\ Found
  /\ loaded' = [loaded EXCEPT ![e] = TRUE]
  /\ data' = [data EXCEPT ![e] = row]
  /\ flags' = [flags EXCEPT ![e] = LoadedFlags]
  /\ exists' = [exists EXCEPT ![e] = TRUE]
  /\ UNCHANGED <<clock, dataStamp, savedStamp, row, pc, loc>>

-----------------------------------------------------------------------------
(* Assigning attributes *)

\* Bound: with a fine clock every store takes a millisecond of its own.
MayAssign(t, c) ==
  /\ Idle(t)
  /\ Home[t] \in Writers[c]
  /\ FineClock => clock < MaxClock

\* What every assignment does under the write lock.
Store(e, c, v) ==
  LET now == IF FineClock THEN clock + 1 ELSE clock
  IN  /\ clock' = now
      /\ data' = [data EXCEPT ![e][c] = v]
      /\ flags' = [flags EXCEPT ![e] = @ \cup {c}]
      /\ dataStamp' = [dataStamp EXCEPT ![e] = now]
      /\ UNCHANGED <<loaded, savedStamp, exists, row>>

\* TableAttribute::operator=(const T &): the comparison is made before the
\* write lock is taken; an equal value ends the assignment.
AssignCompare(t, c, v) ==
  /\ MayAssign(t, c) /\ c # DeletedAt
  /\ data[Home[t]][c] # v
  /\ pc' = [pc EXCEPT ![t] = "store"]
  /\ loc' = [loc EXCEPT ![t].col = c, ![t].val = v]
  /\ UNCHANGED <<clock, entryVars, row>>

AssignStore(t) ==
  /\ pc[t] = "store"
  /\ Store(Home[t], loc[t].col, loc[t].val)
  /\ Return(t)

\* update(map): set_value() stores whatever the old value was.
SetValue(t, c, v) ==
  /\ MayAssign(t, c) /\ c # DeletedAt
  /\ Store(Home[t], c, v)
  /\ UNCHANGED <<pc, loc>>

\* deleteLater(): deleted_at is assigned the current time.
DeleteLater(t, v) ==
  /\ MayAssign(t, DeletedAt)
  /\ v # Default /\ v # data[Home[t]][DeletedAt]
  /\ Store(Home[t], DeletedAt, v)
  /\ UNCHANGED <<pc, loc>>

-----------------------------------------------------------------------------
(* flush() *)

\* No bit is set: "we don't need to save/update".
FlushClean(t) ==
  /\ t \in Flushers /\ Idle(t)
  /\ flags[Home[t]] = {}
  /\ UNCHANGED vars

\* The columns that the flush will write.  Mutant: every column.
TakenFlagsAll(e) == Columns
TakenFlags(e) == flags[e]

\* isInsertProcess.  Mutant: "or" for "and".
IsInsertOr(e) == savedStamp[e] = 0 \/ ~exists[e]
IsInsert(e) == savedStamp[e] = 0 /\ ~exists[e]

\* includes_deleting, and a hard delete.  Mutant: a soft delete is not
\* told from a hard one.
IsDeleteHard(e) ==
  DeletedAt \in flags[e] /\ data[e][DeletedAt] \notin {Default, Null}
IsDelete(e) ==
  /\ ~SoftDelete
  /\ DeletedAt \in flags[e] /\ data[e][DeletedAt] \notin {Default, Null}

\* The locked prologue: take the flags, clear them, choose the statement.
FlushBegin(t) ==
  LET e == Home[t] IN
  /\ t \in Flushers /\ Idle(t)
  /\ flags[e] # {}
  /\ flags' = [flags EXCEPT ![e] = {}]
  /\ pc' = [pc EXCEPT ![t] = "read"]
  /\ loc' = [loc EXCEPT
       ![t].dirty = TakenFlags(e), ![t].todo = TakenFlags(e),
       ![t].insert = IsInsert(e), ![t].delete = IsDelete(e),
       ![t].stamp = dataStamp[e]]
  /\ UNCHANGED <<clock, loaded, data, dataStamp, savedStamp, exists, row>>

\* One turn of the loop over the attributes: value() takes the read lock for
\* each of them.  Only the columns whose bit was taken are used.
FlushRead(t) ==
  \E c \in loc[t].todo :
    /\ pc[t] = "read"
    /\ \A d \in loc[t].todo : c <= d
    /\ loc' = [loc EXCEPT ![t].got[c] = data[Home[t]][c], ![t].todo = @ \ {c}]
    /\ pc' = [pc EXCEPT ![t] = IF loc[t].todo = {c} THEN "exec" ELSE "read"]
    /\ UNCHANGED <<clock, entryVars, row>>

\* Mutant of FlushNothing: the object is marked as stored nevertheless.
FlushNothingMarks(t) ==
  /\ pc[t] = "exec" /\ ~HasPrimary
  /\ exists' = [exists EXCEPT ![Home[t]] = TRUE]
  /\ Return(t)
  /\ UNCHANGED <<clock, loaded, data, flags, dataStamp, savedStamp, row>>

\* Without a primary key the list of names stays empty: "nothing to update".
FlushNothing(t) ==
  /\ pc[t] = "exec" /\ ~HasPrimary
  /\ Return(t)
  /\ UNCHANGED <<clock, entryVars, row>>

\* The row after the statement of flush l has run; an UPDATE or DELETE of a
\* row that is not there affects nothing and is no error.
Applied(l) ==
  IF l.delete THEN NoRow
  ELSE IF l.insert
       THEN [c \in Columns |-> IF c \in l.dirty THEN l.got[c] ELSE Null]
  ELSE IF row = NoRow THEN NoRow
  ELSE [c \in Columns |-> IF c \in l.dirty THEN l.got[c] ELSE row[c]]

DuplicateKey(l) == l.insert /\ ~l.delete /\ row # NoRow

FlushExec(t) ==
  /\ pc[t] = "exec" /\ HasPrimary
  /\ ~DuplicateKey(loc[t])
  /\ row' = Applied(loc[t])
  /\ pc' = [pc EXCEPT ![t] = "mark"]
  /\ UNCHANGED <<clock, entryVars, loc>>

\* init_db() or exec() fails and the statement has not run: return false.
\* Mutant: the return is forgotten.
FlushFailsMarks(t) ==
  /\ pc[t] = "exec" /\ HasPrimary
  /\ DuplicateKey(loc[t]) \/ "unapplied" \in Faults
  /\ pc' = [pc EXCEPT ![t] = "mark"]
  /\ UNCHANGED <<clock, entryVars, row, loc>>
FlushFails(t) ==
  /\ pc[t] = "exec" /\ HasPrimary
  /\ DuplicateKey(loc[t]) \/ "unapplied" \in Faults
  /\ Return(t)
  /\ UNCHANGED <<clock, entryVars, row>>

\* The statement has run but the connection broke before its answer.
FlushLosesReply(t) ==
  /\ pc[t] = "exec" /\ HasPrimary
  /\ "lostReply" \in Faults
  /\ ~DuplicateKey(loc[t])
  /\ row' = Applied(loc[t])
  /\ Return(t)
  /\ UNCHANGED <<clock, entryVars>>

\* _existInDataBase is set before the lock is taken again.
FlushMark(t) ==
  /\ pc[t] = "mark"
  /\ exists' = [exists EXCEPT ![Home[t]] = TRUE]
  /\ pc' = [pc EXCEPT ![t] = "ack"]
  /\ UNCHANGED <<clock, loaded, data, flags, dataStamp, savedStamp, row, loc>>

\* The bits left by the epilogue.  Mutants: none, whatever was stored meanwhile;
\* those that the flush has not saved.
LeftFlagsNone(t) == {}
LeftFlagsUnsaved(t) == flags[Home[t]] \ loc[t].dirty
LeftFlags(t) ==
  IF loc[t].stamp = dataStamp[Home[t]] THEN {} ELSE flags[Home[t]]

\* The locked epilogue.
FlushAck(t) ==
  /\ pc[t] = "ack"
  /\ savedStamp' = [savedStamp EXCEPT ![Home[t]] = loc[t].stamp]
  /\ flags' = [flags EXCEPT ![Home[t]] = LeftFlags(t)]
  /\ Return(t)
  /\ UNCHANGED <<clock, loaded, data, dataStamp, exists, row>>

Flush(t) ==
  \/ FlushClean(t) \/ FlushBegin(t) \/ FlushRead(t) \/ FlushNothing(t)
  \/ FlushExec(t) \/ FlushFails(t) \/ FlushLosesReply(t)
  \/ FlushMark(t) \/ FlushAck(t)

Assign(t) ==
  \/ \E c \in Columns, v \in Value : AssignCompare(t, c, v) \/ SetValue(t, c, v)
  \/ AssignStore(t)
  \/ \E v \in Value : DeleteLater(t, v)

Next ==
  \/ Tick
  \/ \E e \in Entries : Load(e)
  \/ \E t \in Threads : Assign(t) \/ Flush(t)

Spec == Init /\ [][Next]_vars

\* A thread inside flush() or an assignment is scheduled until it returns, and
\* the program calls flush() again after it has changed a model.
FairSpec ==
  /\ Spec
  /\ \A t \in Flushers : WF_vars(Flush(t))
  /\ \A t \in Threads : WF_vars(AssignStore(t))

-----------------------------------------------------------------------------
(* Properties *)

\* Types of the entries, the row and the threads' locals (model_base_data.h).
TypeOK ==
  /\ clock \in Nat
  /\ loaded \in [Entries -> BOOLEAN]
  /\ data \in [Entries -> Row]
  /\ flags \in [Entries -> SUBSET Columns]
  /\ dataStamp \in [Entries -> Nat]
  /\ savedStamp \in [Entries -> Nat]
  /\ exists \in [Entries -> BOOLEAN]
  /\ row \in Row \cup {NoRow}
  /\ pc \in [Threads -> {"idle", "store"} \cup InFlight]
  /\ loc \in [Threads -> Locals]

Taken(e) == UNION {loc[t].dirty : t \in {u \in Threads : Home[u] = e /\ pc[u] \in InFlight}}

DeletionAsked ==
  /\ ~SoftDelete
  /\ \E e \in Entries : loaded[e] /\ data[e][DeletedAt] \notin {Default, Null}

\* A column that only one entry assigns, whose bit is clear and that no flush
\* of the entry has taken, has in the table the value it has in memory: what
\* flush() relies on when it returns early because no bit is set.
CleanMeansSaved ==
  \A e \in Entries, c \in Columns :
    /\ loaded[e] /\ Writers[c] = {e}
    /\ c \notin flags[e] /\ c \notin Taken(e)
    => \/ DeletionAsked
       \/ row # NoRow /\ row[c] = data[e][c]

\* A row in the table has a value in every column: the INSERT that made it
\* carried all attributes of the object, not only the ones dirty at some
\* later flush().
WholeRow == row # NoRow => \A c \in Columns : row[c] # Null

\* An entry that takes its row for stored (_existInDataBase) is right, unless
\* somebody asked for the deletion of the row: the next flush() is an UPDATE
\* and would find nothing.
KnownRowIsStored ==
  \A e \in Entries : exists[e] => row # NoRow \/ DeletionAsked

\* flush() changes a column of a stored row only from an entry whose threads
\* assign that column: two servers that work on different columns of one row
\* do not overwrite each other with the stale values they hold.
NoClobber ==
  [][\A c \in Columns :
       /\ row # NoRow /\ row' # NoRow
       /\ row'[c] # row[c]
       => \E t \in Threads : pc[t] = "exec" /\ pc'[t] # "exec" /\ Home[t] \in Writers[c]
    ]_<<row, pc>>

\* A row that some entry knows to have been stored and that is gone was
\* deleted; no late INSERT brings it back.
DeletedStaysDeleted ==
  [][(\E e \in Entries : exists[e]) /\ row = NoRow => row' = NoRow]_row

\* What is pending in an object: the columns that have their bit set, or were
\* taken by a flush that has not yet run its statement.
Pending(e) ==
  flags[e] \cup
    UNION {loc[t].dirty : t \in {u \in Threads : Home[u] = e /\ pc[u] \in {"read", "exec"}}}

\* One object behaves like the write-back row that its user expects.
WriteBack == INSTANCE WriteBackRow WITH
  live <- data[Creator],
  saved <- row,
  pending <- Pending(Creator)

ImplementsWriteBack == WriteBack!Spec

\* What is pending in each of the objects, and whether the row was made: it is
\* there, or some object knows that it was, or is about to learn it.
AllPending == [e \in Entries |-> Pending(e)]
Made ==
  \/ row # NoRow
  \/ \E e \in Entries : exists[e]
  \/ \E t \in Threads : pc[t] = "mark"

\* Several objects of several servers share the row: each keeps to the columns
\* that are pending in it, also when it has old values of the others, and no
\* statement brings a row back or removes one without being asked to.
Shared == INSTANCE SharedRow WITH
  Objects <- Entries, Owners <- Writers,
  open <- loaded, live <- data, pending <- AllPending, saved <- row, made <- Made

ImplementsSharedRow == Shared!Spec

\* Every assignment reaches the table when the program keeps flushing.
EveryWriteIsSaved ==
  \A e \in Entries, c \in Columns :
    c \in flags[e] ~> row # NoRow /\ row[c] = data[e][c]
=============================================================================
