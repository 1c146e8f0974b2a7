----------------------------- MODULE EntryCache -----------------------------
(* Model handles and the cache of model objects of ModelBase.                *)
(*                                                                           *)
(* An object is a ModelBaseData.  A handle is a MODEL variable of a program: *)
(* a strong, a temporary and a weak reference.  A strong reference is to a   *)
(* block, the control block of a shared_ptr, and several blocks may be made  *)
(* for one object: "raw" blocks by createRawModel(), whose deleter keeps an  *)
(* object while the cache is used, and "owner" blocks, which free it.  The   *)
(* cache is a vector of blocks.  No entry of it is ever reset: the deleter   *)
(* tests deleted_at.value(), the stored text read in another format than it  *)
(* was written, which is valid for no object, so that it only ever sets      *)
(* _released, and nothing reads that.  Both fields are left out.             *)
EXTENDS Integers, Sequences, FiniteSets

CONSTANTS
    Handles,
    Keys,        \* values of the primary key
    NoKey,       \* a query that does not name the primary key
    CacheTime,   \* MODEL::UseCache() in milliseconds, when it is not 0
    Modulus,     \* number of values of quint64
    MaxObjects,  \* bound: objects ever made
    MaxBlocks,   \* bound: blocks ever made
    MaxClock     \* bound of the clock, in milliseconds

VARIABLES
    cached,    \* MODEL::UseCache() # 0
    objects,   \* objects[o]: the ModelBaseData
    blocks,    \* blocks[b]: object and deleter of a control block
    entries,   \* ModelBase::_entries: a sequence of blocks
    handles,   \* handles[h]: blocks of _sh_data_ptr, _temp_sh_data_ptr, _w_data_ptr
    clock,
    swapped,   \* history: the objects whose entry was given to another object
    outcome    \* "running", or how the process came to grief

vars == <<cached, objects, blocks, entries, handles, clock, swapped, outcome>>

ASSUME CacheAssumption ==
    /\ CacheTime \in Nat \ {0} /\ MaxClock \in Nat \ {0}
    /\ Modulus \in Nat /\ Modulus > CacheTime + MaxClock
    /\ MaxObjects \in Nat /\ MaxBlocks \in Nat
    /\ NoKey \notin Keys /\ IsFiniteSet(Keys)

Objects == 1 .. MaxObjects
Blocks == 1 .. MaxBlocks
None == 0

\* saved: _existInDataBase; index: _cached_index
Unmade == [state |-> "unmade", key |-> NoKey, saved |-> 0, index |-> -1]
Made(key, saved) == [state |-> "live", key |-> key, saved |-> saved, index |-> -1]
Empty == [sh |-> None, temp |-> None, weak |-> None]

Init ==
    /\ cached \in BOOLEAN
    /\ objects = [o \in Objects |-> Unmade]
    /\ blocks = [b \in Blocks |-> [obj |-> None, kind |-> "unused"]]
    /\ entries = <<>>
    /\ handles = [h \in Handles |-> Empty]
    /\ clock = 1
    /\ swapped = {}
    /\ outcome = "running"

-----------------------------------------------------------------------------
(* Blocks and their deleters, on a record of the variables they change.      *)

Here == [objects |-> objects, blocks |-> blocks, entries |-> entries,
         handles |-> handles, outcome |-> outcome]

Become(st) ==
    /\ objects' = st.objects /\ blocks' = st.blocks /\ entries' = st.entries
    /\ handles' = st.handles /\ outcome' = st.outcome

Fails(st, how) == [st EXCEPT !.outcome = IF @ = "running" THEN how ELSE @]

IsHeld(st, b) ==
    \/ \E i \in DOMAIN st.entries : st.entries[i] = b
    \/ \E h \in Handles : st.handles[h].sh = b \/ st.handles[h].temp = b

\* free_func(), on the main thread.
Free(st, o) ==
    IF st.objects[o].state = "freed" THEN Fails(st, "freed twice")
    ELSE [st EXCEPT !.objects[o].state = "freed"]

Done(st, b) == [st EXCEPT !.blocks[b].kind = "done"]

\* The deleter of createRawModel(): with the cache it reads the object, and
\* keeps it.
DeleteRawKept(st, o) == st   \* mutant: the object is kept, cached or not
DeleteRawAlways(st, o) ==   \* mutant: the object is deleted, cached or not
    Free(st, o)
DeleteRaw(st, o) ==
    IF ~cached THEN Free(st, o)
    ELSE IF st.objects[o].state = "freed" THEN Fails(st, "freed memory")
    ELSE st

\* A reference to block b is gone: if it was the last, the deleter runs.
Release(st, b) ==
    IF b = None \/ IsHeld(st, b) \/ st.blocks[b].kind = "done" THEN st
    ELSE IF st.blocks[b].kind = "owner" THEN Free(Done(st, b), st.blocks[b].obj)
    ELSE DeleteRaw(Done(st, b), st.blocks[b].obj)

-----------------------------------------------------------------------------
(* Making objects: createNonHash().                                          *)

Unused(all, mark) == {n \in DOMAIN all : all[n] = mark}
Next0(numbers) == CHOOSE n \in numbers : \A m \in numbers : n <= m
NewObject == Next0(Unused(objects, Unmade))
NoBlock == [obj |-> None, kind |-> "unused"]
NewBlock == Next0(Unused(blocks, NoBlock))
HasRoom(number) ==
    Unused(objects, Unmade) # {} /\ Cardinality(Unused(blocks, NoBlock)) >= number

Block(o, kind) == [obj |-> o, kind |-> kind]
\* The object an entry holds, and the positions of the entries with the key.
Held(i) == blocks[entries[i]].obj
KeyAt(i) == objects[Held(i)].key

MatchesButLast(key) == {i \in 1 .. Len(entries) - 1 : KeyAt(i) = key}   \* mutant: the last is skipped
Matches(key) == {i \in DOMAIN entries : KeyAt(i) = key}

IndexLost(i) == -1   \* mutant: the object that takes the entry does not learn its index
IndexOf(i) == objects[Held(i)].index

\* Where there is an entry of the key, the new object takes it and the caller
\* gets what was there: the older object.
Create(h, key, saved) ==
    /\ outcome = "running" /\ handles[h] = Empty /\ HasRoom(2)
    /\ LET o == NewObject
           b == NewBlock
           made == [Here EXCEPT !.objects[o] = Made(key, saved), !.blocks[b] = Block(o, "raw")]
       IN  IF ~cached
           THEN /\ Become([made EXCEPT !.handles[h].sh = b])
                /\ UNCHANGED swapped
           ELSE IF Matches(key) # {}
           THEN LET i == Next0(Matches(key))
                IN  /\ Become([made EXCEPT !.objects[o].index = IndexOf(i),
                                           !.entries[i] = b, !.handles[h].sh = entries[i]])
                    /\ swapped' = swapped \cup {Held(i)}
           ELSE /\ Become([made EXCEPT !.objects[o].index = Len(entries),
                                       !.blocks[b + 1] = Block(o, "owner"),
                                       !.entries = Append(@, b + 1), !.handles[h].sh = b])
                /\ UNCHANGED swapped
    /\ UNCHANGED <<cached, clock>>

-----------------------------------------------------------------------------
(* Lookups: retriveFromCache() for OrmEndFirst, and safeEntries() for HasOne. *)

\* (ct - now) > UseCache(), unsigned
IsStale(o) == (objects[o].saved - clock) % Modulus > CacheTime

\* The first entry is the answer whatever its key, unless it has the key asked
\* for and is too old.
Hit(key) == entries # <<>> /\ (KeyAt(1) = key => ~IsStale(Held(1)))

\* first() on a query with or without the key.  Otherwise the row is selected:
\* there is none, or one that becomes an object.
First(h, key) ==
    /\ outcome = "running" /\ handles[h] = Empty
    /\ IF cached /\ Hit(key)
       THEN /\ HasRoom(1)
            /\ Become([Here EXCEPT !.blocks[NewBlock] = Block(Held(1), "raw"),
                                   !.handles[h].sh = NewBlock])
            /\ UNCHANGED <<cached, clock, swapped>>
       ELSE \E row \in IF key = NoKey THEN Keys ELSE {key} : Create(h, row, clock)

\* HasOne::value() for a relation by the key: the handle shares the block of the
\* entry; otherwise as first().
HasOne(h, key) ==
    IF cached /\ Matches(key) # {}
    THEN /\ outcome = "running" /\ handles[h] = Empty
         /\ Become([Here EXCEPT !.handles[h].sh = entries[Next0(Matches(key))]])
         /\ UNCHANGED <<cached, clock, swapped>>
    ELSE First(h, key)

-----------------------------------------------------------------------------
(* Handles.                                                                  *)

Expired(b) == b = None \/ ~IsHeld(Here, b)

\* data_ptr(): the block a handle refers to by its first reference that is set.
Data(h) ==
    LET r == handles[h]
    IN  IF r.sh # None THEN r.sh ELSE IF r.temp # None THEN r.temp
        ELSE IF Expired(r.weak) THEN None ELSE r.weak
Object(h) == blocks[Data(h)].obj
Refers(h) == Data(h) # None
Dangles(h) == Refers(h) /\ objects[Object(h)].state = "freed"

\* handles[h] becomes r; the blocks it referred to are released in turn.
Refer(st, h, r) ==
    LET old == handles[h]
    IN  Release(Release([st EXCEPT !.handles[h] = r], old.sh), old.temp)

OnHandles(st) ==
    /\ outcome = "running" /\ Become(st)
    /\ UNCHANGED <<cached, clock, swapped>>

\* Copying takes the strong reference only.
Copy(h, g) ==
    handles[h] = Empty /\ OnHandles(Refer(Here, h, [Empty EXCEPT !.sh = handles[g].sh]))

\* operator=: a temporary reference is assigned as a weak one.
Assigned(r) ==
    IF r.sh # None THEN [Empty EXCEPT !.sh = r.sh]
    ELSE [Empty EXCEPT !.weak = r.temp]

Assign(h, g) == h # g /\ OnHandles(Refer(Here, h, Assigned(handles[g])))

\* reset() leaves the temporary reference.
Reset(h) == handles[h] # Empty /\ OnHandles(Refer(Here, h, [Empty EXCEPT !.temp = handles[h].temp]))

\* The variable goes out of scope.
Drop(h) == handles[h] # Empty /\ OnHandles(Refer(Here, h, Empty))

Use(h, st) ==
    IF Dangles(h) THEN Fails(Here, "freed memory") ELSE st

\* flush() that stores, or deletes, the row; one that has nothing to store or
\* fails changes nothing here.
Flush(h) ==
    /\ Refers(h)
    /\ OnHandles(Use(h, [Here EXCEPT !.objects[Object(h)].saved = clock]))

\* The strong reference becomes the temporary one; the entry keeps the object.
DeleteLater(h) ==
    /\ Refers(h)
    /\ LET r == handles[h]
       IN  OnHandles(Use(h, IF r.sh = None THEN Here
                            ELSE Refer(Here, h, [r EXCEPT !.sh = None, !.temp = r.sh])))

SqueezedIndexOne(i) == i   \* mutant: counted from one
SqueezedIndex(i) == i - 1

\* No entry is null, so that none is erased: the entries get their index again.
Squeeze ==
    /\ cached
    /\ OnHandles([Here EXCEPT !.objects = [o \in Objects |->
           LET own == {i \in DOMAIN entries : Held(i) = o}
           IN  IF own = {} THEN objects[o]
               ELSE [objects[o] EXCEPT !.index = SqueezedIndex(Next0(own))]]])

Tick ==
    /\ outcome = "running" /\ clock < MaxClock
    /\ clock' = clock + 1
    /\ UNCHANGED <<cached, objects, blocks, entries, handles, swapped, outcome>>

-----------------------------------------------------------------------------
Next ==
    \/ \E h \in Handles :
          \/ \E key \in Keys : Create(h, key, 0) \/ HasOne(h, key)
          \/ \E key \in Keys \cup {NoKey} : First(h, key)
          \/ \E g \in Handles : Copy(h, g) \/ Assign(h, g)
          \/ Reset(h) \/ Drop(h) \/ Flush(h) \/ DeleteLater(h)
    \/ Squeeze \/ Tick

Spec == Init /\ [][Next]_vars

-----------------------------------------------------------------------------
(* Properties.                                                               *)

TypeOK ==
    /\ cached \in BOOLEAN
    /\ objects \in [Objects -> [state : {"unmade", "live", "freed"}, key : Keys \cup {NoKey},
                                saved : 0 .. MaxClock,
                                index : -1 .. Cardinality(Keys) - 1]]
    /\ blocks \in [Blocks -> [obj : Objects \cup {None}, kind : {"unused", "raw", "owner", "done"}]]
    /\ entries \in Seq(Blocks)
    /\ handles \in [Handles -> [sh : Blocks \cup {None}, temp : Blocks \cup {None},
                                weak : Blocks \cup {None}]]
    /\ clock \in 1 .. MaxClock
    /\ swapped \subseteq Objects

\* The cache never refers to an object that was freed, whatever a program did
\* with its handles: neither searching it nor squeezing it reads freed memory.
EntriesLive ==
    outcome = "running" => \A i \in DOMAIN entries : objects[Held(i)].state = "live"

\* At most one entry of a key, and every living object knows the place of the
\* entry of its key, the one whose entry was given away too: what
\* createNonHash() and squeeze() number is what cached_index() answers.
EntriesKeyed ==
    cached /\ outcome = "running" =>
        /\ \A i, j \in DOMAIN entries : KeyAt(i) = KeyAt(j) => i = j
        /\ \A o \in Objects : objects[o].state = "live" =>
               \E i \in DOMAIN entries : objects[o].index = i - 1 /\ KeyAt(i) = objects[o].key

\* An object stays in the cache until a newer one of its key takes its entry,
\* at the place it remembers: no handle that goes, no deletion and no squeeze()
\* takes it out, so that lookups also answer what was deleted.
CachedUntilSwapped ==
    cached /\ outcome = "running" =>
        \A o \in Objects \ swapped : objects[o].state # "unmade" =>
            /\ objects[o].state = "live"
            /\ \E i \in DOMAIN entries : objects[o].index = i - 1 /\ Held(i) = o

\* A handle refers to freed memory only if createNonHash() gave the object away
\* that it refers to, and without such a gift releasing a handle never brings
\* the process down; nothing is freed twice even then.
HarmNeedsSwap ==
    /\ \A h \in Handles : Dangles(h) => Object(h) \in swapped
    /\ outcome # "running" => outcome = "freed memory" /\ swapped # {}

\* Without the cache an object lives exactly as long as some handle refers to it.
UncachedMeansOwned ==
    ~cached =>
        /\ outcome = "running"
        /\ \A o \in Objects :
               objects[o].state = "live" <=>
                   \E b \in Blocks : blocks[b].obj = o /\ IsHeld(Here, b)

=============================================================================
