-------------------------- MODULE EntryCacheProofs --------------------------
(* Theorems about EntryCache.                                                *)
EXTENDS EntryCache, NumberTheorems, FiniteSetTheorems, SequenceTheorems, TLAPS

Outcomes == {"running", "freed memory", "freed twice"}
ObjectSet == [state : {"unmade", "live", "freed"}, key : Keys \cup {NoKey},
              saved : 0 .. MaxClock, index : -1 .. Cardinality(Keys) - 1]
BlockSet == [obj : Objects \cup {None}, kind : {"unused", "raw", "owner", "done"}]
HandleSet == [sh : Blocks \cup {None}, temp : Blocks \cup {None}, weak : Blocks \cup {None}]

\* The records that the blocks and their deleters work on.
Frames == [objects : [Objects -> ObjectSet], blocks : [Blocks -> BlockSet],
           entries : Seq(Blocks), handles : [Handles -> HandleSet],
           outcome : Outcomes]

\* Lemma: a failure only notes how the process came to grief.
LEMMA FailsEffect ==
    ASSUME NEW st \in Frames, NEW how \in Outcomes
    PROVE  LET t == Fails(st, how)
           IN  /\ t \in Frames
               /\ t.objects = st.objects /\ t.blocks = st.blocks
               /\ t.entries = st.entries /\ t.handles = st.handles
               /\ t.outcome = IF st.outcome = "running" THEN how ELSE st.outcome
    BY DEF Fails, Frames

\* Lemma: the block is done, its object is still known.
LEMMA DoneEffect ==
    ASSUME NEW st \in Frames, NEW b \in Blocks
    PROVE  LET t == Done(st, b)
           IN  /\ t \in Frames
               /\ t.objects = st.objects /\ t.entries = st.entries
               /\ t.handles = st.handles /\ t.outcome = st.outcome
               /\ t.blocks[b].kind = "done"
               /\ \A c \in Blocks : t.blocks[c].obj = st.blocks[c].obj
               /\ \A c \in Blocks \ {b} : t.blocks[c] = st.blocks[c]
    BY DEF Done, Frames, BlockSet

\* Lemma: an object is freed, or was freed before.
LEMMA FreeEffect ==
    ASSUME NEW st \in Frames, NEW o \in Objects
    PROVE  LET t == Free(st, o)
           IN  /\ t \in Frames
               /\ t.blocks = st.blocks /\ t.entries = st.entries /\ t.handles = st.handles
               /\ t.objects[o].state = "freed"
               /\ \A p \in Objects \ {o} : t.objects[p] = st.objects[p]
               /\ \A p \in Objects : /\ t.objects[p].key = st.objects[p].key
                                     /\ t.objects[p].index = st.objects[p].index
               /\ t.outcome = IF st.objects[o].state = "freed" /\ st.outcome = "running"
                              THEN "freed twice" ELSE st.outcome
    <1> DEFINE gone == [st.objects EXCEPT ![o].state = "freed"]
               t == Free(st, o)
    <1>1. st.objects \in [Objects -> ObjectSet]
        BY DEF Frames
    <1>2. CASE st.objects[o].state = "freed"
        <2>1. t = Fails(st, "freed twice") /\ "freed twice" \in Outcomes
            BY <1>2 DEF Free, Outcomes
        <2> HIDE DEF t
        <2>2. /\ t \in Frames /\ t.objects = st.objects /\ t.blocks = st.blocks
              /\ t.entries = st.entries /\ t.handles = st.handles
              /\ t.outcome = IF st.outcome = "running" THEN "freed twice" ELSE st.outcome
            BY <2>1, FailsEffect
        <2> QED BY <1>2, <2>2 DEF t
    <1>3. CASE st.objects[o].state # "freed"
        <2>1. /\ gone \in [Objects -> ObjectSet] /\ gone[o].state = "freed"
              /\ \A p \in Objects \ {o} : gone[p] = st.objects[p]
              /\ \A p \in Objects : /\ gone[p].key = st.objects[p].key
                                    /\ gone[p].index = st.objects[p].index
            BY <1>1 DEF ObjectSet
        <2>2. t = [st EXCEPT !.objects = gone]
            BY <1>3 DEF Free, Frames
        <2> HIDE DEF gone, t
        <2>3. /\ t \in Frames /\ t.objects = gone /\ t.blocks = st.blocks
              /\ t.entries = st.entries /\ t.handles = st.handles /\ t.outcome = st.outcome
            BY <2>1, <2>2 DEF Frames
        <2> QED BY <1>3, <2>1, <2>3 DEF t
    <1> QED BY <1>2, <1>3

-----------------------------------------------------------------------------
(* The invariant, on such a record.                                          *)

Live(st, b) == st.blocks[b].kind \in {"raw", "owner"}
EntryObj(st, i) == st.blocks[st.entries[i]].obj

\* Blocks are made in their order, each for an object that was made; what an
\* entry or a handle holds is not done.
BlocksOK(st) ==
    /\ \A b \in Blocks : st.blocks[b].kind = "unused" <=> st.blocks[b].obj = None
    /\ \A b \in Blocks :
          st.blocks[b].obj # None => st.objects[st.blocks[b].obj].state # "unmade"
    /\ \A b \in Blocks : IsHeld(st, b) => Live(st, b)
    /\ \A b, c \in Blocks :
          b <= c /\ st.blocks[c].kind # "unused" => st.blocks[b].kind # "unused"

\* The object of an entry lives and knows its place, and no block outside the
\* cache can free it; there is one entry of a key, thus at most one for each.
EntriesOK(st) ==
    /\ ~cached => DOMAIN st.entries = {}
    /\ \A i \in DOMAIN st.entries :
          /\ st.objects[EntryObj(st, i)].state = "live"
          /\ st.objects[EntryObj(st, i)].index = i - 1
          /\ st.objects[EntryObj(st, i)].key \in Keys
    /\ \A i \in DOMAIN st.entries, c \in Blocks :
          st.blocks[c].kind = "owner" /\ st.blocks[c].obj = EntryObj(st, i) => c = st.entries[i]
    /\ \A i, j \in DOMAIN st.entries :
          st.objects[EntryObj(st, i)].key = st.objects[EntryObj(st, j)].key => i = j
    /\ Len(st.entries) <= Cardinality(Keys)

\* Without the cache: each object has one block, which lives as long as it;
\* except for the blocks in E, which a handle just gave up, it is held.
UncachedOK(st, E) ==
    /\ st.outcome = "running"
    /\ \A b \in Blocks : st.blocks[b].kind # "owner"
    /\ \A b, c \in Blocks :
          st.blocks[b].obj = st.blocks[c].obj /\ st.blocks[b].obj # None => b = c
    /\ \A b \in Blocks :
          st.blocks[b].kind = "raw" => st.objects[st.blocks[b].obj].state = "live"
    /\ \A b \in Blocks \ E : st.blocks[b].kind = "raw" => IsHeld(st, b)
    /\ \A o \in Objects : st.objects[o].state = "live" =>
          \E b \in Blocks : st.blocks[b].obj = o /\ st.blocks[b].kind = "raw"

\* With the cache: an object has one block that frees it and lives as long as
\* that; only the objects in S, whose entries were given away, are ever freed,
\* and all others are in the cache; each knows the place of its key.
OwnersDiffer(st) ==
    \A b, c \in Blocks :
        st.blocks[b].kind = "owner" /\ st.blocks[c].kind = "owner"
           /\ st.blocks[b].obj = st.blocks[c].obj => b = c
OwnersLive(st) ==
    \A b \in Blocks : st.blocks[b].kind = "owner" => st.objects[st.blocks[b].obj].state = "live"
Placed(st, o) == \E i \in DOMAIN st.entries : EntryObj(st, i) = o
OthersPlaced(st, S) ==
    \A o \in Objects \ S : st.objects[o].state # "unmade" => Placed(st, o)
KnowsPlace(st, o) ==
    \E i \in DOMAIN st.entries :
        st.objects[o].index = i - 1 /\ st.objects[EntryObj(st, i)].key = st.objects[o].key
PlacesKnown(st) == \A o \in Objects : st.objects[o].state = "live" => KnowsPlace(st, o)
FreedGiven(st, S) == \A o \in Objects : st.objects[o].state = "freed" => o \in S
HarmOK(outc, S) == outc = "running" \/ (outc = "freed memory" /\ S # {})
CachedOK(st, S) ==
    /\ HarmOK(st.outcome, S)
    /\ OwnersDiffer(st) /\ OwnersLive(st)
    /\ OthersPlaced(st, S) /\ PlacesKnown(st) /\ FreedGiven(st, S)

Safe(st) == st \in Frames /\ BlocksOK(st) /\ EntriesOK(st)
Used(st, b) == st.blocks[b].kind # "unused"

\* Lemma: what an entry or a handle refers to is a block.
LEMMA HeldIsBlock ==
    ASSUME NEW st \in Frames
    PROVE  /\ \A i \in DOMAIN st.entries : st.entries[i] \in Blocks /\ IsHeld(st, st.entries[i])
           /\ DOMAIN st.entries = 1 .. Len(st.entries) /\ Len(st.entries) \in Nat
    <1>1. st.entries \in Seq(Blocks)
        BY DEF Frames
    <1>2. /\ DOMAIN st.entries = 1 .. Len(st.entries) /\ Len(st.entries) \in Nat
          /\ \A i \in 1 .. Len(st.entries) : st.entries[i] \in Blocks
        BY <1>1, LenProperties, ElementOfSeq
    <1> QED BY <1>2 DEF IsHeld

\* Lemma: the object of a used block, and thus of an entry, is one.
LEMMA ObjOfUsed ==
    ASSUME NEW st, Safe(st)
    PROVE  /\ \A b \in Blocks : Used(st, b) => st.blocks[b].obj \in Objects
           /\ \A b \in Blocks : Live(st, b) => Used(st, b)
           /\ \A i \in DOMAIN st.entries : EntryObj(st, i) \in Objects /\ Live(st, st.entries[i])
    <1>1. \A b \in Blocks : Used(st, b) => st.blocks[b].obj \in Objects
        BY DEF Safe, Frames, BlockSet, Used, BlocksOK
    <1>2. \A b \in Blocks : Live(st, b) => Used(st, b)
        BY DEF Live, Used
    <1> QED BY <1>1, <1>2, HeldIsBlock DEF Safe, BlocksOK, EntryObj

\* Lemma: a failure leaves blocks and entries as they are.
LEMMA FailsSafe ==
    ASSUME NEW st, Safe(st), NEW how \in Outcomes
    PROVE  LET t == Fails(st, how)
           IN  Safe(t) /\ \A b \in Blocks : Used(st, b) => Used(t, b)
    <1> DEFINE t == Fails(st, how)
    <1>1. /\ t \in Frames /\ t.objects = st.objects /\ t.blocks = st.blocks
          /\ t.entries = st.entries /\ t.handles = st.handles
        BY FailsEffect DEF Safe
    <1> HIDE DEF t
    <1>2. /\ DOMAIN t.entries = DOMAIN st.entries /\ \A i : EntryObj(t, i) = EntryObj(st, i)
          /\ \A b : (IsHeld(t, b) <=> IsHeld(st, b)) /\ (Live(t, b) <=> Live(st, b))
        BY <1>1 DEF EntryObj, IsHeld, Live
    <1>3. BlocksOK(t)
        BY <1>1, <1>2 DEF Safe, BlocksOK
    <1>4. EntriesOK(t)
        BY <1>1, <1>2 DEF Safe, EntriesOK
    <1> QED BY <1>1, <1>3, <1>4 DEF Safe, Used, t

\* Lemma: a block that is not held may become done.
LEMMA DoneSafe ==
    ASSUME NEW st, Safe(st), NEW b \in Blocks, Used(st, b), ~IsHeld(st, b)
    PROVE  LET t == Done(st, b)
           IN  Safe(t) /\ \A c \in Blocks : Used(st, c) => Used(t, c)
    <1> DEFINE t == Done(st, b)
    <1>1. /\ t \in Frames /\ t.objects = st.objects /\ t.entries = st.entries
          /\ t.handles = st.handles /\ t.blocks[b].kind = "done"
          /\ \A c \in Blocks : t.blocks[c].obj = st.blocks[c].obj
          /\ \A c \in Blocks \ {b} : t.blocks[c] = st.blocks[c]
        BY DoneEffect DEF Safe
    <1>2. \A c : IsHeld(t, c) <=> IsHeld(st, c)
        BY <1>1 DEF IsHeld
    <1>3. /\ DOMAIN t.entries = DOMAIN st.entries
          /\ \A i \in DOMAIN st.entries : EntryObj(t, i) = EntryObj(st, i)
        BY <1>1, HeldIsBlock DEF Safe, EntryObj
    <1> HIDE DEF t
    <1>4. BlocksOK(t)
        BY <1>1, <1>2 DEF Safe, BlocksOK, Used, Live
    <1>5. EntriesOK(t)
        BY <1>1, <1>3 DEF Safe, EntriesOK
    <1> QED BY <1>1, <1>4, <1>5 DEF Safe, Used, t

\* Lemma: an object that no entry refers to may be freed.
LEMMA FreeSafe ==
    ASSUME NEW st, Safe(st), NEW o \in Objects, \A i \in DOMAIN st.entries : EntryObj(st, i) # o
    PROVE  LET t == Free(st, o)
           IN  Safe(t) /\ \A c \in Blocks : Used(st, c) => Used(t, c)
    <1> DEFINE t == Free(st, o)
    <1>1. /\ t \in Frames /\ t.blocks = st.blocks /\ t.entries = st.entries
          /\ t.handles = st.handles /\ t.objects[o].state = "freed"
          /\ \A p \in Objects \ {o} : t.objects[p] = st.objects[p]
        BY FreeEffect DEF Safe
    <1> HIDE DEF t
    <1>2. \A c : IsHeld(t, c) <=> IsHeld(st, c)
        BY <1>1 DEF IsHeld
    <1>3. /\ DOMAIN t.entries = DOMAIN st.entries
          /\ \A i \in DOMAIN st.entries : EntryObj(t, i) = EntryObj(st, i)
        BY <1>1 DEF EntryObj
    <1>4. \A i \in DOMAIN st.entries : t.objects[EntryObj(t, i)] = st.objects[EntryObj(st, i)]
        BY <1>1, <1>3, ObjOfUsed
    <1>5. BlocksOK(t)
        BY <1>1, <1>2, ObjOfUsed DEF Safe, BlocksOK, Used, Live
    <1>6. EntriesOK(t)
        BY <1>1, <1>3, <1>4 DEF Safe, EntriesOK
    <1> QED BY <1>1, <1>5, <1>6 DEF Safe, Used, t

\* Lemma: a block that is not held and its object go, if it is an owner.
LEMMA OwnerSafe ==
    ASSUME NEW st, Safe(st), NEW b \in Blocks, st.blocks[b].kind = "owner", ~IsHeld(st, b)
    PROVE  LET t == Free(Done(st, b), st.blocks[b].obj)
           IN  Safe(t) /\ \A c \in Blocks : Used(st, c) => Used(t, c)
    <1> DEFINE u == Done(st, b)
               o == st.blocks[b].obj
    <1>1. Used(st, b) /\ o \in Objects
        BY ObjOfUsed DEF Live
    <1>2. Safe(u) /\ \A c \in Blocks : Used(st, c) => Used(u, c)
        BY <1>1, DoneSafe
    <1>3. \A i \in DOMAIN st.entries : EntryObj(st, i) # o
        BY HeldIsBlock DEF Safe, EntriesOK
    <1>4. /\ u.entries = st.entries /\ \A c \in Blocks : u.blocks[c].obj = st.blocks[c].obj
        BY DoneEffect DEF Safe
    <1>5. /\ DOMAIN u.entries = DOMAIN st.entries
          /\ \A i \in DOMAIN u.entries : EntryObj(u, i) = EntryObj(st, i)
        BY <1>4, HeldIsBlock DEF Safe, EntryObj
    <1> HIDE DEF u, o
    <1>6. \A i \in DOMAIN u.entries : EntryObj(u, i) # o
        BY <1>3, <1>5
    <1> QED BY <1>1, <1>2, <1>6, FreeSafe DEF u, o

\* Lemma: the deleter of a raw block, after the block is done.
LEMMA DeleteRawSafe ==
    ASSUME NEW st, Safe(st), NEW o \in Objects
    PROVE  LET t == DeleteRaw(st, o)
           IN  Safe(t) /\ \A c \in Blocks : Used(st, c) => Used(t, c)
    <1>1. CASE ~cached
        BY <1>1, FreeSafe DEF DeleteRaw, Safe, EntriesOK
    <1>2. CASE cached
        BY <1>2, FailsSafe DEF DeleteRaw, Outcomes
    <1> QED BY <1>1, <1>2

\* Lemma: a reference to a block goes, and with the last the deleter runs.
LEMMA ReleaseSafe ==
    ASSUME NEW st, Safe(st), NEW b \in Blocks \cup {None}, b # None => Used(st, b)
    PROVE  LET t == Release(st, b)
           IN  Safe(t) /\ \A c \in Blocks : Used(st, c) => Used(t, c)
    <1>1. CASE b = None \/ IsHeld(st, b) \/ st.blocks[b].kind = "done"
        BY <1>1 DEF Release
    <1>2. CASE ~(b = None \/ IsHeld(st, b) \/ st.blocks[b].kind = "done")
        <2>1. b \in Blocks /\ Used(st, b) /\ st.blocks[b].obj \in Objects
            BY <1>2, ObjOfUsed
        <2>2. CASE st.blocks[b].kind = "owner"
            BY <1>2, <2>1, <2>2, OwnerSafe DEF Release
        <2>3. CASE st.blocks[b].kind # "owner"
            <3> DEFINE u == Done(st, b)
            <3>1. Safe(u) /\ \A c \in Blocks : Used(st, c) => Used(u, c)
                BY <1>2, <2>1, DoneSafe
            <3>2. Release(st, b) = DeleteRaw(u, st.blocks[b].obj)
                BY <1>2, <2>3 DEF Release
            <3> HIDE DEF u
            <3> QED BY <2>1, <3>1, <3>2, DeleteRawSafe
        <2> QED BY <2>2, <2>3
    <1> QED BY <1>1, <1>2

-----------------------------------------------------------------------------
(* Without the cache.                                                        *)

\* Lemma: the last reference to a block takes its object with it, once.
LEMMA ReleaseUncached ==
    ASSUME ~cached, NEW st, Safe(st), NEW E, UncachedOK(st, E),
           NEW b \in Blocks \cup {None}, b # None => Used(st, b)
    PROVE  UncachedOK(Release(st, b), E \ {b})
    <1>1. CASE b = None \/ IsHeld(st, b) \/ st.blocks[b].kind = "done"
        <2>1. Release(st, b) = st
            BY <1>1 DEF Release
        <2>2. \A c \in Blocks \ (E \ {b}) : st.blocks[c].kind = "raw" => IsHeld(st, c)
            BY <1>1 DEF UncachedOK, Blocks, None
        <2> QED BY <2>1, <2>2 DEF UncachedOK
    <1>2. CASE ~(b = None \/ IsHeld(st, b) \/ st.blocks[b].kind = "done")
        <2>1. b \in Blocks /\ Used(st, b) /\ st.blocks[b].obj \in Objects
            BY <1>2, ObjOfUsed
        <2>2. st.blocks[b].kind = "raw"
            BY <1>2, <2>1 DEF Safe, Frames, BlockSet, UncachedOK, Used
        <2> DEFINE u == Done(st, b)
                   o == st.blocks[b].obj
                   t == Free(u, o)
        <2>3. Release(st, b) = t
            BY <1>2, <2>2 DEF Release, DeleteRaw
        <2>4. /\ u \in Frames /\ u.objects = st.objects /\ u.entries = st.entries
              /\ u.handles = st.handles /\ u.outcome = st.outcome /\ u.blocks[b].kind = "done"
              /\ \A c \in Blocks : u.blocks[c].obj = st.blocks[c].obj
              /\ \A c \in Blocks \ {b} : u.blocks[c] = st.blocks[c]
            BY <2>1, DoneEffect DEF Safe
        <2>5. st.objects[o].state = "live"
            BY <2>1, <2>2 DEF UncachedOK
        <2>o. o \in Objects
            BY <2>1
        <2> HIDE DEF u, o
        <2>f. t.outcome = u.outcome
            BY <2>o, <2>4, <2>5, FreeEffect
        <2>g. t.blocks = u.blocks /\ t.entries = u.entries /\ t.handles = u.handles
            BY <2>o, <2>4, FreeEffect
        <2>h. t.objects[o].state = "freed"
            BY <2>o, <2>4, FreeEffect
        <2>i. \A p \in Objects \ {o} : t.objects[p] = st.objects[p]
            <3>1. \A p \in Objects \ {o} : t.objects[p] = u.objects[p]
                BY <2>o, <2>4, FreeEffect
            <3> QED BY <2>4, <3>1
        <2>6. /\ t.blocks = u.blocks /\ t.entries = u.entries /\ t.handles = u.handles
              /\ t.objects[o].state = "freed" /\ t.outcome = st.outcome
              /\ \A p \in Objects \ {o} : t.objects[p] = st.objects[p]
            BY <2>4, <2>f, <2>g, <2>h, <2>i
        <2>7. \A c : IsHeld(t, c) <=> IsHeld(st, c)
            BY <2>4, <2>6 DEF IsHeld
        <2> HIDE DEF t
        <2>8. \A c \in Blocks : t.blocks[c].kind = "raw" => c # b /\ st.blocks[c].obj # o
            BY <2>1, <2>2, <2>4, <2>6, ObjOfUsed DEF UncachedOK, o, None, Objects
        <2>9. \A c \in Blocks : t.blocks[c].kind = "raw" => st.blocks[c].obj \in Objects \ {o}
            BY <2>4, <2>6, <2>8, ObjOfUsed DEF Live
        <2>10. \A p \in Objects : t.objects[p].state = "live" =>
                  p # o /\ \E c \in Blocks \ {b} : st.blocks[c].obj = p /\ st.blocks[c].kind = "raw"
            BY <2>1, <2>6 DEF UncachedOK, o
        <2> QED BY <2>1, <2>3, <2>4, <2>6, <2>7, <2>8, <2>9, <2>10 DEF UncachedOK
    <1> QED BY <1>1, <1>2

-----------------------------------------------------------------------------
(* With the cache.                                                           *)

\* Lemma: as long as entries stay, no block becomes an owner and what is freed
\* was given away, it is as before.
LEMMA KeptCached ==
    ASSUME NEW S, NEW st, Safe(st), CachedOK(st, S), NEW t, t.entries = st.entries,
           \A c \in Blocks : t.blocks[c].obj = st.blocks[c].obj,
           \A c \in Blocks : t.blocks[c].kind = "owner" => st.blocks[c].kind = "owner",
           \A o \in Objects : /\ t.objects[o].key = st.objects[o].key
                              /\ t.objects[o].index = st.objects[o].index
                              /\ t.objects[o].state = "live" => st.objects[o].state = "live"
                              /\ t.objects[o].state # "unmade" => st.objects[o].state # "unmade",
           OwnersLive(t), FreedGiven(t, S), HarmOK(t.outcome, S)
    PROVE  CachedOK(t, S)
    <1>1. \A i \in DOMAIN st.entries :
             EntryObj(t, i) = EntryObj(st, i) /\ EntryObj(st, i) \in Objects
        BY HeldIsBlock, ObjOfUsed DEF Safe, EntryObj
    <1>2. OwnersDiffer(t)
        BY DEF CachedOK, OwnersDiffer
    <1>3. OthersPlaced(t, S)
        BY <1>1 DEF CachedOK, OthersPlaced, Placed
    <1>4. PlacesKnown(t)
        <2> SUFFICES ASSUME NEW o \in Objects, t.objects[o].state = "live"
                     PROVE  KnowsPlace(t, o)
            BY DEF PlacesKnown
        <2>1. PICK i \in DOMAIN st.entries :
                 st.objects[o].index = i - 1 /\ st.objects[EntryObj(st, i)].key = st.objects[o].key
            BY DEF CachedOK, PlacesKnown, KnowsPlace
        <2> QED BY <1>1, <2>1 DEF KnowsPlace
    <1> QED BY <1>2, <1>3, <1>4 DEF CachedOK

\* Lemma: with other handles, or another value of an object, it is as before.
LEMMA SameCached ==
    ASSUME NEW S, NEW st, Safe(st), CachedOK(st, S), NEW t,
           t.blocks = st.blocks, t.entries = st.entries,
           \A o \in Objects : /\ t.objects[o].key = st.objects[o].key
                              /\ t.objects[o].index = st.objects[o].index
                              /\ t.objects[o].state = st.objects[o].state,
           HarmOK(t.outcome, S)
    PROVE  CachedOK(t, S)
    <1>1. \A c \in Blocks : st.blocks[c].kind = "owner" => st.blocks[c].obj \in Objects
        BY ObjOfUsed DEF Live
    <1>2. OwnersLive(t)
        BY <1>1 DEF CachedOK, OwnersLive
    <1>3. FreedGiven(t, S)
        BY DEF CachedOK, FreedGiven
    <1> QED BY <1>2, <1>3, KeptCached

\* Lemma: a block that nothing holds is done.
LEMMA DoneCached ==
    ASSUME NEW S, NEW st, Safe(st), CachedOK(st, S), NEW b \in Blocks
    PROVE  CachedOK(Done(st, b), S)
    <1> DEFINE t == Done(st, b)
    <1>1. /\ t.objects = st.objects /\ t.entries = st.entries
          /\ t.outcome = st.outcome /\ t.blocks[b].kind = "done"
          /\ \A c \in Blocks : t.blocks[c].obj = st.blocks[c].obj
          /\ \A c \in Blocks \ {b} : t.blocks[c] = st.blocks[c]
        BY DoneEffect DEF Safe
    <1> HIDE DEF t
    <1>2. \A c \in Blocks : t.blocks[c].kind = "owner" => st.blocks[c].kind = "owner"
        BY <1>1
    <1>3. OwnersLive(t)
        BY <1>1, <1>2 DEF CachedOK, OwnersLive
    <1>4. FreedGiven(t, S) /\ HarmOK(t.outcome, S)
        BY <1>1 DEF CachedOK, FreedGiven
    <1>5. CachedOK(t, S)
        BY <1>1, <1>2, <1>3, <1>4, KeptCached
    <1> QED BY <1>5 DEF t

\* Lemma: an owner that nothing holds goes with its object, whose entry was
\* given away: an entry still holds the owner of its object.
LEMMA OwnerCached ==
    ASSUME NEW S, NEW st, Safe(st), CachedOK(st, S), NEW b \in Blocks,
           st.blocks[b].kind = "owner", ~IsHeld(st, b)
    PROVE  CachedOK(Free(Done(st, b), st.blocks[b].obj), S)
    <1> DEFINE u == Done(st, b)
               o == st.blocks[b].obj
               t == Free(u, o)
    <1>1. Used(st, b) /\ o \in Objects
        BY ObjOfUsed DEF Live
    <1>2. CachedOK(u, S) /\ Safe(u)
        BY <1>1, DoneCached, DoneSafe
    <1>3. /\ u.objects = st.objects /\ u.blocks[b].kind = "done"
          /\ \A c \in Blocks : u.blocks[c].obj = st.blocks[c].obj
          /\ \A c \in Blocks \ {b} : u.blocks[c] = st.blocks[c]
        BY DoneEffect DEF Safe
    <1>4. u.objects[o].state = "live"
        BY <1>3 DEF CachedOK, OwnersLive
    <1>5. \A c \in Blocks : u.blocks[c].kind = "owner" => u.blocks[c].obj \in Objects \ {o}
        <2> SUFFICES ASSUME NEW c \in Blocks, u.blocks[c].kind = "owner"
                     PROVE  u.blocks[c].obj \in Objects \ {o}
            OBVIOUS
        <2>1. u.blocks[c].obj \in Objects
            BY <1>2, ObjOfUsed DEF Live
        <2>2. c # b /\ st.blocks[c].kind = "owner" /\ st.blocks[c].obj = u.blocks[c].obj
            BY <1>3
        <2>3. st.blocks[c].obj # st.blocks[b].obj
            BY <2>2 DEF CachedOK, OwnersDiffer
        <2> QED BY <2>1, <2>2, <2>3
    <1>6. o \in S
        <2> SUFFICES ASSUME o \notin S PROVE FALSE
            OBVIOUS
        <2>1. st.objects[o].state = "live"
            BY <1>3, <1>4
        <2>2. PICK i \in DOMAIN st.entries : EntryObj(st, i) = o
            BY <1>1, <2>1 DEF CachedOK, OthersPlaced, Placed
        <2>3. b = st.entries[i]
            BY <2>2 DEF Safe, EntriesOK
        <2> QED BY <2>2, <2>3, HeldIsBlock DEF Safe
    <1> HIDE DEF u, o
    <1>7. t.blocks = u.blocks /\ t.entries = u.entries
        BY <1>1, <1>2, FreeEffect DEF Safe
    <1>8. t.outcome = u.outcome
        BY <1>1, <1>2, <1>4, FreeEffect DEF Safe
    <1>9. t.objects[o].state = "freed" /\ \A p \in Objects \ {o} : t.objects[p] = u.objects[p]
        BY <1>1, <1>2, FreeEffect DEF Safe
    <1>10. t.objects[o].key = u.objects[o].key /\ t.objects[o].index = u.objects[o].index
        BY <1>1, <1>2, FreeEffect DEF Safe
    <1> HIDE DEF t
    <1>11. \A p \in Objects : /\ t.objects[p].key = u.objects[p].key
                              /\ t.objects[p].index = u.objects[p].index
                              /\ t.objects[p].state = "live" => u.objects[p].state = "live"
                              /\ t.objects[p].state # "unmade" => u.objects[p].state # "unmade"
        BY <1>1, <1>4, <1>9, <1>10
    <1>12. OwnersLive(t)
        BY <1>2, <1>5, <1>7, <1>9 DEF CachedOK, OwnersLive
    <1>13. FreedGiven(t, S)
        BY <1>2, <1>6, <1>9 DEF CachedOK, FreedGiven
    <1>14. HarmOK(t.outcome, S)
        BY <1>2, <1>8 DEF CachedOK
    <1>15. CachedOK(t, S)
        BY <1>2, <1>7, <1>11, <1>12, <1>13, <1>14, KeptCached
    <1> QED BY <1>15 DEF t, u, o

\* Lemma: a failure after an object was given away.
LEMMA FailsCached ==
    ASSUME NEW S, NEW st, Safe(st), CachedOK(st, S), S # {}
    PROVE  CachedOK(Fails(st, "freed memory"), S)
    <1> DEFINE t == Fails(st, "freed memory")
    <1>1. /\ t.objects = st.objects /\ t.blocks = st.blocks /\ t.entries = st.entries
          /\ t.outcome = IF st.outcome = "running" THEN "freed memory" ELSE st.outcome
        BY FailsEffect, "freed memory" \in Outcomes DEF Safe, Outcomes
    <1> HIDE DEF t
    <1>2. HarmOK(t.outcome, S)
        BY <1>1 DEF CachedOK, HarmOK
    <1>3. CachedOK(t, S)
        BY <1>1, <1>2, SameCached
    <1> QED BY <1>3 DEF t

\* Lemma: releasing a block frees only an object that was given away, once, and
\* the deleter of a raw block reads a freed object only of these.
LEMMA ReleaseCached ==
    ASSUME cached, NEW S, NEW st, Safe(st), CachedOK(st, S),
           NEW b \in Blocks \cup {None}, b # None => Used(st, b)
    PROVE  CachedOK(Release(st, b), S)
    <1>1. CASE b = None \/ IsHeld(st, b) \/ st.blocks[b].kind = "done"
        BY <1>1 DEF Release
    <1>2. CASE ~(b = None \/ IsHeld(st, b) \/ st.blocks[b].kind = "done")
        <2>1. b \in Blocks /\ Used(st, b) /\ st.blocks[b].obj \in Objects
            BY <1>2, ObjOfUsed
        <2>2. CASE st.blocks[b].kind = "owner"
            BY <1>2, <2>1, <2>2, OwnerCached DEF Release
        <2>3. CASE st.blocks[b].kind # "owner"
            <3> DEFINE u == Done(st, b)
                       o == st.blocks[b].obj
            <3>1. Safe(u) /\ CachedOK(u, S)
                BY <1>2, <2>1, DoneSafe, DoneCached
            <3>2. Release(st, b) = DeleteRaw(u, o)
                BY <1>2, <2>3 DEF Release
            <3>3. o \in Objects
                BY <2>1
            <3> HIDE DEF u, o
            <3>4. CASE u.objects[o].state = "freed"
                <4>1. S # {}
                    BY <3>1, <3>3, <3>4 DEF CachedOK, FreedGiven
                <4>2. DeleteRaw(u, o) = Fails(u, "freed memory")
                    BY <3>4 DEF DeleteRaw
                <4> QED BY <3>1, <3>2, <4>1, <4>2, FailsCached
            <3>5. CASE u.objects[o].state # "freed"
                BY <3>1, <3>2, <3>5 DEF DeleteRaw
            <3> QED BY <3>4, <3>5
        <2> QED BY <2>2, <2>3
    <1> QED BY <1>1, <1>2

-----------------------------------------------------------------------------
(* Handles.                                                                  *)

\* The invariant of the blocks, the entries and the handles.
Sound(st) ==
    /\ Safe(st)
    /\ ~cached => UncachedOK(st, {})
    /\ cached => CachedOK(st, swapped)

Holdable(st, b) == b = None \/ (b \in Blocks /\ Live(st, b))

\* Lemma: a handle is given other references.
LEMMA HandleEffect ==
    ASSUME NEW st \in Frames, NEW h \in Handles, NEW r \in HandleSet
    PROVE  LET t == [st EXCEPT !.handles[h] = r]
           IN  /\ t \in Frames
               /\ t.objects = st.objects /\ t.blocks = st.blocks
               /\ t.entries = st.entries /\ t.outcome = st.outcome
               /\ t.handles[h] = r
               /\ \A g \in Handles \ {h} : t.handles[g] = st.handles[g]
    BY DEF Frames

\* Lemma: what blocks a handle gave up is held no more, the rest is as before.
LEMMA HandleSound ==
    ASSUME NEW st, Sound(st), NEW h \in Handles, NEW r \in HandleSet,
           Holdable(st, r.sh), Holdable(st, r.temp)
    PROVE  LET t == [st EXCEPT !.handles[h] = r]
           IN  /\ Safe(t)
               /\ \A c \in Blocks : Used(t, c) <=> Used(st, c)
               /\ ~cached => UncachedOK(t, {st.handles[h].sh, st.handles[h].temp})
               /\ cached => CachedOK(t, swapped)
    <1> DEFINE t == [st EXCEPT !.handles[h] = r]
               E == {st.handles[h].sh, st.handles[h].temp}
    <1>0. Safe(st)
        BY DEF Sound
    <1>1. /\ t \in Frames /\ t.objects = st.objects /\ t.blocks = st.blocks
          /\ t.entries = st.entries /\ t.outcome = st.outcome /\ t.handles[h] = r
          /\ \A g \in Handles \ {h} : t.handles[g] = st.handles[g]
        BY <1>0, HandleEffect DEF Safe
    <1> HIDE DEF t
    <1>2. \A c \in Blocks : IsHeld(t, c) => IsHeld(st, c) \/ c = r.sh \/ c = r.temp
        BY <1>1 DEF IsHeld
    <1>3. \A c \in Blocks \ E : IsHeld(st, c) => IsHeld(t, c)
        BY <1>1 DEF IsHeld
    <1>4. /\ DOMAIN t.entries = DOMAIN st.entries /\ \A i : EntryObj(t, i) = EntryObj(st, i)
          /\ \A c : (Live(t, c) <=> Live(st, c)) /\ (Used(t, c) <=> Used(st, c))
        BY <1>1 DEF EntryObj, Live, Used
    <1>5. BlocksOK(t)
        <2>1. \A c \in Blocks : IsHeld(t, c) => Live(t, c)
            BY <1>0, <1>2, <1>4 DEF Holdable, Safe, BlocksOK, None, Blocks
        <2> QED BY <1>0, <1>1, <2>1 DEF Safe, BlocksOK
    <1>6. EntriesOK(t)
        BY <1>0, <1>1, <1>4 DEF Safe, EntriesOK
    <1>7. ASSUME ~cached PROVE UncachedOK(t, E)
        BY <1>1, <1>3, <1>7 DEF Sound, UncachedOK
    <1>8. ASSUME cached PROVE CachedOK(t, swapped)
        <2>1. CachedOK(st, swapped)
            BY <1>8 DEF Sound
        <2>2. HarmOK(t.outcome, swapped)
            BY <1>1, <2>1 DEF CachedOK
        <2> QED BY <1>0, <1>1, <2>1, <2>2, SameCached
    <1> QED BY <1>1, <1>4, <1>5, <1>6, <1>7, <1>8 DEF Safe, t

\* Lemma: a handle becomes another one, and the blocks it referred to are released.
LEMMA ReferSound ==
    ASSUME NEW st, Sound(st), st.handles = handles, NEW h \in Handles, NEW r \in HandleSet,
           Holdable(st, r.sh), Holdable(st, r.temp)
    PROVE  Sound(Refer(st, h, r))
    <1> DEFINE t == [st EXCEPT !.handles[h] = r]
               a == handles[h].sh
               b == handles[h].temp
               u == Release(t, a)
               v == Release(u, b)
    <1>1. Refer(st, h, r) = v
        BY DEF Refer
    <1>2. /\ Safe(t) /\ \A c \in Blocks : Used(t, c) <=> Used(st, c)
          /\ ~cached => UncachedOK(t, {a, b})
          /\ cached => CachedOK(t, swapped)
        BY HandleSound
    <1>3. /\ a \in Blocks \cup {None} /\ b \in Blocks \cup {None}
          /\ a # None => Used(st, a)
          /\ b # None => Used(st, b)
        <2>1. handles[h] \in HandleSet
            BY DEF Sound, Safe, Frames
        <2>2. a \in Blocks \cup {None} /\ b \in Blocks \cup {None}
            BY <2>1 DEF HandleSet
        <2>3. /\ a # None => IsHeld(st, a)
              /\ b # None => IsHeld(st, b)
            BY DEF IsHeld
        <2> QED BY <2>2, <2>3, ObjOfUsed DEF Sound, Safe, BlocksOK
    <1> HIDE DEF t, a, b
    <1>4. Safe(u) /\ \A c \in Blocks : Used(t, c) => Used(u, c)
        BY <1>2, <1>3, ReleaseSafe
    <1>5. /\ ~cached => UncachedOK(u, {a, b} \ {a})
          /\ cached => CachedOK(u, swapped)
        BY <1>2, <1>3, ReleaseUncached, ReleaseCached
    <1> HIDE DEF u
    <1>6. Safe(v)
        BY <1>2, <1>3, <1>4, ReleaseSafe
    <1>7. cached => CachedOK(v, swapped)
        BY <1>2, <1>3, <1>4, <1>5, ReleaseCached
    <1>8. ~cached => UncachedOK(v, ({a, b} \ {a}) \ {b})
        BY <1>2, <1>3, <1>4, <1>5, ReleaseUncached
    <1>9. ({a, b} \ {a}) \ {b} = {}
        OBVIOUS
    <1> QED BY <1>1, <1>6, <1>7, <1>8, <1>9 DEF Sound

-----------------------------------------------------------------------------
(* The actions.                                                              *)

HistoryOK ==
    /\ cached \in BOOLEAN /\ clock \in 1 .. MaxClock
    /\ swapped \subseteq Objects

CacheInv == HistoryOK /\ Sound(Here)

\* Lemma: an action that leaves a sound record behind.
LEMMA BecomeSound ==
    ASSUME NEW st, Safe(st), Become(st), cached' = cached,
           ~cached => UncachedOK(st, {}),
           cached => CachedOK(st, swapped')
    PROVE  Sound(Here)'
    <1>1. Here' = st
        BY DEF Become, Here, Safe, Frames
    <1>2. BlocksOK(Here)'
        BY <1>1 DEF Safe, BlocksOK, IsHeld, Live
    <1>3. EntriesOK(Here)'
        <2>1. EntriesOK(st)
            BY DEF Safe
        <2>2. \A i : EntryObj(Here, i)' = EntryObj(st, i)
            BY <1>1 DEF EntryObj
        <2> QED BY <1>1, <2>1, <2>2 DEF EntriesOK
    <1>4. (Here \in Frames)'
        BY <1>1 DEF Safe
    <1>5. (~cached => UncachedOK(Here, {}))'
        BY <1>1 DEF UncachedOK, IsHeld
    <1>6. (cached => CachedOK(Here, swapped))'
        BY <1>1 DEF CachedOK, OwnersDiffer, OwnersLive, OthersPlaced, Placed, PlacesKnown,
                    KnowsPlace, FreedGiven, HarmOK, EntryObj
    <1> QED BY <1>2, <1>3, <1>4, <1>5, <1>6 DEF Sound, Safe

\* Lemma: an action on the handles that leaves a sound record behind.
LEMMA OntoSound ==
    ASSUME CacheInv, NEW st, Sound(st), OnHandles(st)
    PROVE  CacheInv'
    <1>1. Become(st) /\ UNCHANGED <<cached, clock, swapped>>
        BY DEF OnHandles
    <1>2. Sound(Here)'
        BY <1>1, BecomeSound DEF Sound
    <1> QED BY <1>1, <1>2 DEF CacheInv, HistoryOK

\* Lemma: what a handle refers to may be held.
LEMMA HandleHolds ==
    ASSUME Sound(Here), NEW h \in Handles
    PROVE  /\ handles[h] \in HandleSet
           /\ Holdable(Here, handles[h].sh) /\ Holdable(Here, handles[h].temp)
           /\ Holdable(Here, None)
    <1>1. handles[h] \in HandleSet
        BY DEF Sound, Safe, Frames, Here
    <1>2. handles[h].sh \in Blocks \cup {None} /\ handles[h].temp \in Blocks \cup {None}
        BY <1>1 DEF HandleSet
    <1>3. IsHeld(Here, handles[h].sh) /\ IsHeld(Here, handles[h].temp)
        BY DEF IsHeld, Here
    <1> QED BY <1>1, <1>2, <1>3 DEF Sound, Safe, BlocksOK, Holdable

\* Lemma: the record of the variables.
LEMMA HereFields ==
    /\ Here.objects = objects /\ Here.blocks = blocks /\ Here.entries = entries
    /\ Here.handles = handles /\ Here.outcome = outcome
    BY DEF Here

\* Lemma: Copy() gives the handle the strong reference of the other.
LEMMA CopySound ==
    ASSUME CacheInv, NEW h \in Handles, NEW g \in Handles, Copy(h, g)
    PROVE  CacheInv'
    <1> DEFINE r == [Empty EXCEPT !.sh = handles[g].sh]
    <1>1. OnHandles(Refer(Here, h, r))
        BY DEF Copy
    <1>2. handles[g].sh \in Blocks \cup {None}
        BY HandleHolds DEF CacheInv, HandleSet
    <1>3. r \in HandleSet /\ r.sh = handles[g].sh /\ r.temp = None
        BY <1>2 DEF Empty, HandleSet
    <1> HIDE DEF r
    <1>4. Sound(Refer(Here, h, r))
        BY <1>3, HandleHolds, HereFields, ReferSound DEF CacheInv
    <1> QED BY <1>1, <1>4, OntoSound

\* Lemma: Assign() gives the handle a strong reference, or a weak one.
LEMMA AssignSound ==
    ASSUME CacheInv, NEW h \in Handles, NEW g \in Handles, Assign(h, g)
    PROVE  CacheInv'
    <1> DEFINE r == Assigned(handles[g])
    <1>1. OnHandles(Refer(Here, h, r))
        BY DEF Assign
    <1>2. handles[g].sh \in Blocks \cup {None} /\ handles[g].temp \in Blocks \cup {None}
        BY HandleHolds DEF CacheInv, HandleSet
    <1>3. r \in HandleSet /\ r.sh \in {handles[g].sh, None} /\ r.temp = None
        BY <1>2 DEF Empty, HandleSet, Assigned
    <1> HIDE DEF r
    <1>4. Sound(Refer(Here, h, r))
        BY <1>3, HandleHolds, HereFields, ReferSound DEF CacheInv
    <1> QED BY <1>1, <1>4, OntoSound

\* Lemma: Reset() leaves the temporary reference, Drop() leaves none.
LEMMA ResetSound ==
    ASSUME CacheInv, NEW h \in Handles, Reset(h) \/ Drop(h)
    PROVE  CacheInv'
    <1>1. PICK r \in {Empty, [Empty EXCEPT !.temp = handles[h].temp]} :
             OnHandles(Refer(Here, h, r))
        BY DEF Reset, Drop
    <1>2. handles[h].temp \in Blocks \cup {None}
        BY HandleHolds DEF CacheInv, HandleSet
    <1>3. r \in HandleSet /\ r.sh = None /\ r.temp \in {handles[h].temp, None}
        BY <1>1, <1>2 DEF Empty, HandleSet
    <1>4. Sound(Refer(Here, h, r))
        BY <1>3, HandleHolds, HereFields, ReferSound DEF CacheInv
    <1> QED BY <1>1, <1>4, OntoSound

\* Lemma: what a handle refers to is a block that is not done.
LEMMA DataLives ==
    ASSUME Sound(Here), NEW h \in Handles, Refers(h)
    PROVE  Data(h) \in Blocks /\ Live(Here, Data(h)) /\ Object(h) \in Objects
    <1>1. handles[h].weak \in Blocks \cup {None}
        BY HandleHolds DEF HandleSet
    <1>2. Holdable(Here, Data(h))
        <2>1. CASE Data(h) \in {handles[h].sh, handles[h].temp, None}
            BY <2>1, HandleHolds
        <2>2. CASE Data(h) \notin {handles[h].sh, handles[h].temp, None}
            <3>1. Data(h) = handles[h].weak /\ ~Expired(handles[h].weak)
                BY <2>2 DEF Data
            <3> QED BY <1>1, <3>1 DEF Expired, Sound, Safe, BlocksOK, Holdable
        <2> QED BY <2>1, <2>2
    <1>3. Data(h) \in Blocks /\ Live(Here, Data(h))
        BY <1>2 DEF Holdable, Refers
    <1> QED BY <1>3, ObjOfUsed, HereFields DEF Sound, Object

\* Lemma: no handle dangles without the cache, nor one to an object that was not
\* given away.
LEMMA DanglesGiven ==
    ASSUME Sound(Here), NEW h \in Handles, Dangles(h)
    PROVE  cached /\ Object(h) \in swapped
    <1> DEFINE b == Data(h)
    <1>1. /\ b \in Blocks /\ blocks[b].kind \in {"raw", "owner"}
          /\ Object(h) = blocks[b].obj /\ Object(h) \in Objects
          /\ objects[Object(h)].state = "freed"
        BY DataLives, HereFields DEF Live, Object, Dangles
    <1> HIDE DEF b
    <1>2. cached
        BY <1>1, HereFields DEF Sound, UncachedOK
    <1>3. Object(h) \in swapped
        BY <1>1, <1>2, HereFields DEF Sound, CachedOK, FreedGiven
    <1> QED BY <1>2, <1>3

\* Lemma: an object stays what it is and where it is, whatever else changes of it.
LEMMA TouchSound ==
    ASSUME NEW st, Sound(st), NEW o \in Objects, NEW x \in ObjectSet,
           x.state = st.objects[o].state, x.key = st.objects[o].key,
           x.index = st.objects[o].index
    PROVE  LET t == [st EXCEPT !.objects[o] = x]
           IN  /\ Sound(t) /\ t.handles = st.handles
               /\ \A b : Live(t, b) <=> Live(st, b)
    <1> DEFINE t == [st EXCEPT !.objects[o] = x]
    <1>1. /\ t \in Frames /\ t.blocks = st.blocks /\ t.entries = st.entries
          /\ t.handles = st.handles /\ t.outcome = st.outcome
          /\ \A p \in Objects : /\ t.objects[p].state = st.objects[p].state
                                /\ t.objects[p].key = st.objects[p].key
                                /\ t.objects[p].index = st.objects[p].index
        BY DEF Sound, Safe, Frames
    <1> HIDE DEF t
    <1>2. /\ DOMAIN t.entries = DOMAIN st.entries /\ \A i : EntryObj(t, i) = EntryObj(st, i)
          /\ \A b : (IsHeld(t, b) <=> IsHeld(st, b)) /\ (Live(t, b) <=> Live(st, b))
        BY <1>1 DEF EntryObj, IsHeld, Live
    <1>3. /\ \A b \in Blocks : Used(st, b) => st.blocks[b].obj \in Objects
          /\ \A i \in DOMAIN st.entries : EntryObj(st, i) \in Objects
          /\ \A b \in Blocks : Live(st, b) => st.blocks[b].obj \in Objects
        BY ObjOfUsed DEF Sound
    <1>4. BlocksOK(t)
        BY <1>1, <1>2, <1>3 DEF Sound, Safe, BlocksOK, Used
    <1>5. EntriesOK(t)
        BY <1>1, <1>2, <1>3 DEF Sound, Safe, EntriesOK
    <1>6. ASSUME ~cached PROVE UncachedOK(t, {})
        BY <1>1, <1>2, <1>3, <1>6 DEF Sound, UncachedOK, Live
    <1>7. ASSUME cached PROVE CachedOK(t, swapped)
        <2>1. CachedOK(st, swapped) /\ Safe(st)
            BY <1>7 DEF Sound
        <2>2. HarmOK(t.outcome, swapped)
            BY <1>1, <2>1 DEF CachedOK
        <2> QED BY <1>1, <2>1, <2>2, SameCached
    <1> QED BY <1>1, <1>2, <1>4, <1>5, <1>6, <1>7 DEF Sound, Safe, t

\* Lemma: using a handle fails only if it dangles.
LEMMA UseSound ==
    ASSUME Sound(Here), NEW h \in Handles, NEW st, Sound(st)
    PROVE  Sound(Use(h, st))
    <1>1. CASE Dangles(h)
        <2>1. cached /\ swapped # {}
            BY <1>1, DanglesGiven
        <2>2. Safe(Fails(Here, "freed memory"))
            BY FailsSafe, "freed memory" \in Outcomes DEF Sound, Outcomes
        <2>3. CachedOK(Fails(Here, "freed memory"), swapped)
            BY <2>1, FailsCached DEF Sound
        <2> QED BY <1>1, <2>1, <2>2, <2>3 DEF Use, Sound
    <1>2. CASE ~Dangles(h)
        BY <1>2 DEF Use
    <1> QED BY <1>1, <1>2

\* Lemma: Flush() notes when the row was stored.
LEMMA FlushSound ==
    ASSUME CacheInv, NEW h \in Handles, Flush(h)
    PROVE  CacheInv'
    <1> DEFINE o == Object(h)
               x == [objects[o] EXCEPT !.saved = clock]
    <1>1. o \in Objects
        BY DataLives DEF Flush, CacheInv
    <1>2. objects[o] \in ObjectSet
        BY <1>1, HereFields DEF CacheInv, Sound, Safe, Frames
    <1>3. clock \in 0 .. MaxClock
        BY CacheAssumption DEF CacheAssumption, CacheInv, HistoryOK
    <1>4. x \in ObjectSet
        BY <1>2, <1>3 DEF ObjectSet
    <1>5. x.state = objects[o].state /\ x.key = objects[o].key /\ x.index = objects[o].index
        BY <1>2 DEF ObjectSet
    <1>6. [Here EXCEPT !.objects[o].saved = clock] = [Here EXCEPT !.objects[o] = x]
        BY DEF Here
    <1>7. OnHandles(Use(h, [Here EXCEPT !.objects[o].saved = clock]))
        BY DEF Flush
    <1> HIDE DEF o, x
    <1>8. Sound([Here EXCEPT !.objects[o].saved = clock])
        BY <1>1, <1>4, <1>5, <1>6, HereFields, TouchSound DEF CacheInv
    <1> QED BY <1>7, <1>8, UseSound, OntoSound DEF CacheInv

\* Lemma: DeleteLater() makes the strong reference of the handle a temporary one.
LEMMA DeleteLaterSound ==
    ASSUME CacheInv, NEW h \in Handles, DeleteLater(h)
    PROVE  CacheInv'
    <1> DEFINE r == [handles[h] EXCEPT !.sh = None, !.temp = handles[h].sh]
               st == IF handles[h].sh = None THEN Here ELSE Refer(Here, h, r)
    <1>1. OnHandles(Use(h, st))
        BY DEF DeleteLater
    <1>2. handles[h] \in HandleSet /\ Holdable(Here, handles[h].sh) /\ Holdable(Here, None)
        BY HandleHolds DEF CacheInv
    <1>3. r \in HandleSet /\ r.sh = None /\ r.temp = handles[h].sh
        BY <1>2 DEF HandleSet
    <1> HIDE DEF r
    <1>4. Sound(Refer(Here, h, r))
        BY <1>2, <1>3, HereFields, ReferSound DEF CacheInv
    <1>5. Sound(st)
        BY <1>4 DEF CacheInv
    <1> HIDE DEF st
    <1> QED BY <1>1, <1>5, UseSound, OntoSound DEF CacheInv

\* Lemma: HasRoom() leaves a new object, and new blocks from NewBlock on.
LEMMA RoomForNew ==
    ASSUME Sound(Here), NEW n \in {1, 2}, HasRoom(n)
    PROVE  /\ NewObject \in Objects /\ objects[NewObject] = Unmade
           /\ NewBlock \in Blocks /\ blocks[NewBlock] = NoBlock
           /\ n = 2 => NewBlock + 1 \in Blocks /\ blocks[NewBlock + 1] = NoBlock
           /\ \A c \in Blocks : c < NewBlock => Used(Here, c)
    <1> DEFINE B == Unused(blocks, NoBlock)
               O == Unused(objects, Unmade)
    <1>1. DOMAIN blocks = Blocks /\ DOMAIN objects = Objects
        BY HereFields DEF Sound, Safe, Frames
    <1>2. B \in SUBSET Blocks /\ O \in SUBSET Objects /\ O # {} /\ Cardinality(B) >= n
        BY <1>1 DEF HasRoom, Unused
    <1>3. MaxBlocks \in Nat /\ B \in SUBSET (1 .. MaxBlocks) /\ B \in SUBSET Nat /\ O \in SUBSET Nat
        BY <1>2, CacheAssumption DEF CacheAssumption, Blocks, Objects
    <1>4. IsFiniteSet(B) /\ Cardinality(B) \in Nat
        BY <1>3, RanksCount
    <1>5. B # {}
        BY <1>2, <1>4, FS_EmptySet
    <1>6. NewObject \in O
        BY <1>2, <1>3, Minimum DEF NewObject, Next0
    <1>7. NewBlock \in B /\ \A m \in B : NewBlock <= m
        BY <1>3, <1>5, Minimum DEF NewBlock, Next0
    <1>8. \A c \in Blocks : blocks[c] = NoBlock <=> ~Used(Here, c)
        <2>1. \A c \in Blocks : blocks[c] \in BlockSet
            BY HereFields DEF Sound, Safe, Frames
        <2>2. \A c \in Blocks : blocks[c].kind = "unused" <=> blocks[c].obj = None
            BY HereFields DEF Sound, Safe, BlocksOK
        <2> QED BY <2>1, <2>2, HereFields DEF BlockSet, NoBlock, Used
    <1>9. \A c \in Blocks : c \in B <=> blocks[c] = NoBlock
        BY <1>1 DEF Unused
    <1>10. ASSUME n = 2 PROVE NewBlock + 1 \in B
        <2>1. PICK c \in B : c # NewBlock
            <3> SUFFICES ASSUME B \subseteq {NewBlock} PROVE FALSE
                OBVIOUS
            <3>1. B = {NewBlock}
                BY <1>7
            <3>2. Cardinality(B) = 1
                BY <3>1, FS_Singleton
            <3> QED BY <1>2, <1>10, <3>2
        <2>2. NewBlock + 1 \in Blocks /\ NewBlock + 1 <= c /\ c \in Blocks
            BY <1>2, <1>7, <2>1, CacheAssumption DEF CacheAssumption, Blocks
        <2>3. ~Used(Here, NewBlock + 1)
            <3>1. NewBlock \in Blocks /\ ~Used(Here, NewBlock) /\ NewBlock <= NewBlock + 1
                BY <1>2, <1>3, <1>7, <1>8, <1>9
            <3> QED BY <2>2, <3>1 DEF Sound, Safe, BlocksOK, Used
        <2> QED BY <1>8, <1>9, <2>2, <2>3
    <1>11. \A c \in Blocks : c < NewBlock => Used(Here, c)
        <2> SUFFICES ASSUME NEW c \in Blocks, c < NewBlock, ~Used(Here, c) PROVE FALSE
            OBVIOUS
        <2>1. c \in B
            BY <1>8, <1>9
        <2>2. NewBlock <= c /\ NewBlock \in Int /\ c \in Int
            BY <1>3, <1>7, <2>1
        <2> QED BY <2>2
    <1>12. NewObject \in Objects /\ objects[NewObject] = Unmade
        BY <1>2, <1>6 DEF Unused
    <1>13. NewBlock \in Blocks /\ blocks[NewBlock] = NoBlock
        BY <1>2, <1>7, <1>9
    <1>14. n = 2 => NewBlock + 1 \in Blocks /\ blocks[NewBlock + 1] = NoBlock
        BY <1>2, <1>9, <1>10
    <1> QED BY <1>11, <1>12, <1>13, <1>14

\* Lemma: the position of a match; the smallest of positions is one of them.
LEMMA FirstMatch ==
    ASSUME NEW S, S # {}, S \subseteq Nat
    PROVE  Next0(S) \in S
    BY Minimum DEF Next0

\* Lemma: blocks made in their order, for an object that is made, keep BlocksOK.
LEMMA MadeBlocksOK ==
    ASSUME Sound(Here), NEW t \in Frames, NEW o \in Objects, NEW N \in SUBSET Blocks,
           t.objects[o].state # "unmade",
           \A p \in Objects : objects[p].state # "unmade" => t.objects[p].state # "unmade",
           \A c \in N : t.blocks[c].obj = o /\ Live(t, c),
           \A c \in Blocks \ N : t.blocks[c] = blocks[c],
           \A c \in N, d \in Blocks : d < c => Used(Here, d) \/ d \in N,
           \A c \in Blocks : IsHeld(t, c) => c \in N \/ IsHeld(Here, c)
    PROVE  BlocksOK(t)
    <1>1. \A c \in Blocks : blocks[c].obj # None => blocks[c].obj \in Objects
        BY HereFields DEF Sound, Safe, Frames, BlockSet
    <1>2. BlocksOK(Here)
        BY DEF Sound, Safe
    <1>3. \A c \in Blocks : t.blocks[c].kind = "unused" <=> t.blocks[c].obj = None
        BY <1>2, HereFields DEF BlocksOK, Live, Objects, None
    <1>4. \A c \in Blocks :
             t.blocks[c].obj # None => t.objects[t.blocks[c].obj].state # "unmade"
        BY <1>1, <1>2, HereFields DEF BlocksOK
    <1>5. \A c \in Blocks : IsHeld(t, c) => Live(t, c)
        BY <1>2, HereFields DEF BlocksOK, Live
    <1>6. ASSUME NEW c \in Blocks, NEW d \in Blocks, c <= d, t.blocks[d].kind # "unused"
          PROVE  t.blocks[c].kind # "unused"
        <2>1. CASE c \in N
            BY <2>1 DEF Live
        <2>2. CASE c \notin N
            <3>1. c # d => c < d
                BY <1>6 DEF Blocks
            <3>2. Used(Here, c)
                BY <1>2, <1>6, <2>2, <3>1, HereFields DEF BlocksOK, Used
            <3> QED BY <2>2, <3>2, HereFields DEF Used
        <2> QED BY <2>1, <2>2
    <1> QED BY <1>3, <1>4, <1>5, <1>6 DEF BlocksOK

\* Lemma: a new object has no blocks, and nothing holds a new block.
LEMMA NewIsFresh ==
    ASSUME Sound(Here), NEW n \in {1, 2}, HasRoom(n)
    PROVE  /\ \A c \in Blocks : blocks[c].obj # NewObject
           /\ \A c \in Blocks : ~Used(Here, c) => ~IsHeld(Here, c) /\ blocks[c].obj = None
           /\ ~Used(Here, NewBlock)
           /\ n = 2 => ~Used(Here, NewBlock + 1)
           /\ \A i \in DOMAIN Here.entries : EntryObj(Here, i) # NewObject
    <1>1. /\ NewObject \in Objects /\ objects[NewObject].state = "unmade"
          /\ NewBlock \in Blocks /\ blocks[NewBlock].kind = "unused"
          /\ n = 2 => blocks[NewBlock + 1].kind = "unused"
        BY RoomForNew DEF Unmade, NoBlock
    <1>2. \A c \in Blocks : blocks[c].obj # NewObject
        BY <1>1, HereFields DEF Sound, Safe, BlocksOK, Objects, None
    <1>3. \A c \in Blocks : ~Used(Here, c) => ~IsHeld(Here, c) /\ blocks[c].obj = None
        BY HereFields DEF Sound, Safe, BlocksOK, Used, Live
    <1>4. \A i \in DOMAIN Here.entries : EntryObj(Here, i) # NewObject
        BY <1>1, HereFields DEF Sound, Safe, EntriesOK
    <1> QED BY <1>1, <1>2, <1>3, <1>4, HereFields DEF Used

\* The object and the block that createNonHash() makes first.
MadeHere(o, b, key, saved) ==
    [Here EXCEPT !.objects[o] = Made(key, saved), !.blocks[b] = Block(o, "raw")]

\* Lemma: nothing else changes when they are made.
LEMMA MadeFrame ==
    ASSUME CacheInv, HasRoom(2), NEW key \in Keys, NEW saved \in 0 .. MaxClock,
           NEW o, o = NewObject, NEW b, b = NewBlock
    PROVE  LET m == MadeHere(o, b, key, saved)
           IN  /\ m \in Frames
               /\ m.objects[o] = Made(key, saved)
               /\ \A p \in Objects \ {o} : m.objects[p] = objects[p]
               /\ m.blocks[b] = Block(o, "raw")
               /\ \A c \in Blocks \ {b} : m.blocks[c] = blocks[c]
               /\ m.entries = entries /\ m.handles = handles /\ m.outcome = outcome
    <1> DEFINE x == Made(key, saved)
               y == Block(o, "raw")
               objects2 == [objects EXCEPT ![o] = x]
               blocks2 == [blocks EXCEPT ![b] = y]
               m == MadeHere(o, b, key, saved)
    <1>1. objects \in [Objects -> ObjectSet] /\ blocks \in [Blocks -> BlockSet]
        BY HereFields DEF CacheInv, Sound, Safe, Frames
    <1>2. o \in Objects /\ b \in Blocks
        BY RoomForNew DEF CacheInv
    <1>3. x \in ObjectSet
        <2>1. -1 \in -1 .. Cardinality(Keys) - 1 /\ key \in Keys \cup {NoKey}
            BY CacheAssumption, FS_CardinalityType DEF CacheAssumption
        <2> QED BY <2>1 DEF Made, ObjectSet
    <1>4. y \in BlockSet
        BY <1>2 DEF Block, BlockSet
    <1>5. m = [[Here EXCEPT !.objects = objects2] EXCEPT !.blocks = blocks2]
        BY DEF Here, MadeHere
    <1> HIDE DEF x, y
    <1>6. /\ objects2 \in [Objects -> ObjectSet] /\ objects2[o] = x
          /\ \A p \in Objects \ {o} : objects2[p] = objects[p]
        BY <1>1, <1>2, <1>3
    <1>7. /\ blocks2 \in [Blocks -> BlockSet] /\ blocks2[b] = y
          /\ \A c \in Blocks \ {b} : blocks2[c] = blocks[c]
        BY <1>1, <1>2, <1>4
    <1> HIDE DEF objects2, blocks2
    <1>8. /\ m \in Frames /\ m.objects = objects2 /\ m.blocks = blocks2
          /\ m.entries = entries /\ m.handles = handles /\ m.outcome = outcome
        BY <1>5, <1>6, <1>7, HereFields DEF CacheInv, Sound, Safe, Frames
    <1> QED BY <1>6, <1>7, <1>8 DEF x, y

\* Lemma: Create() without the cache: the object has the block of its handle.
LEMMA CreateUncached ==
    ASSUME CacheInv, ~cached, NEW h \in Handles, handles[h] = Empty, HasRoom(2),
           NEW key \in Keys, NEW saved \in 0 .. MaxClock,
           NEW o, o = NewObject, NEW b, b = NewBlock
    PROVE  Sound([MadeHere(o, b, key, saved) EXCEPT !.handles[h].sh = b])
    <1> DEFINE x == Made(key, saved)
               m == MadeHere(o, b, key, saved)
               objects2 == m.objects
               blocks2 == m.blocks
               handles2 == [handles EXCEPT ![h].sh = b]
               t == [m EXCEPT !.handles[h].sh = b]
    <1>1. /\ objects \in [Objects -> ObjectSet] /\ blocks \in [Blocks -> BlockSet]
          /\ handles \in [Handles -> HandleSet] /\ entries \in Seq(Blocks)
          /\ outcome \in Outcomes
        BY HereFields DEF CacheInv, Sound, Safe, Frames
    <1>2. o \in Objects /\ b \in Blocks /\ \A c \in Blocks : c < b => Used(Here, c)
        BY RoomForNew DEF CacheInv
    <1>3. x.state = "live"
        BY DEF Made
    <1>4. /\ m \in Frames /\ m.objects[o] = x
          /\ \A p \in Objects \ {o} : m.objects[p] = objects[p]
          /\ m.blocks[b] = Block(o, "raw") /\ \A c \in Blocks \ {b} : m.blocks[c] = blocks[c]
          /\ m.entries = entries /\ m.handles = handles /\ m.outcome = outcome
        BY MadeFrame
    <1> HIDE DEF x, m
    <1>5. objects2[o] = x /\ \A p \in Objects \ {o} : objects2[p] = objects[p]
        BY <1>4
    <1>6. blocks2[b] = Block(o, "raw") /\ \A c \in Blocks \ {b} : blocks2[c] = blocks[c]
        BY <1>4
    <1>7. /\ handles2 \in [Handles -> HandleSet]
          /\ handles2[h].sh = b /\ handles2[h].temp = None
          /\ \A g \in Handles \ {h} : handles2[g] = handles[g]
        BY <1>1, <1>2 DEF HandleSet, Empty
    <1>8. /\ t \in Frames /\ t.objects = objects2 /\ t.blocks = blocks2 /\ t.entries = entries
          /\ t.handles = handles2 /\ t.outcome = outcome
        <2>1. t = [m EXCEPT !.handles = handles2]
            BY <1>4
        <2> HIDE DEF handles2, t
        <2> QED BY <1>4, <1>7, <2>1 DEF Frames
    <1> HIDE DEF objects2, blocks2, handles2
    <1> HIDE DEF t
    <1>9. t.blocks[b].obj = o /\ t.blocks[b].kind = "raw"
        BY <1>6, <1>8 DEF Block
    <1>10. /\ \A c \in Blocks : blocks[c].obj # o
           /\ \A c \in Blocks : ~Used(Here, c) => ~IsHeld(Here, c) /\ blocks[c].obj = None
           /\ ~Used(Here, b)
        BY NewIsFresh DEF CacheInv
    <1>11. \A c \in Blocks \ {b} : IsHeld(t, c) <=> IsHeld(Here, c)
        BY <1>7, <1>8, HereFields DEF IsHeld, Empty, Blocks, None
    <1>12. IsHeld(t, b)
        BY <1>7, <1>8 DEF IsHeld
    <1>13. BlocksOK(t)
        <2>1. \A c \in {b}, d \in Blocks : d < c => Used(Here, d) \/ d \in {b}
            BY <1>2
        <2>2. \A c \in {b} : t.blocks[c].obj = o /\ Live(t, c)
            BY <1>9 DEF Live
        <2>3. \A p \in Objects : objects[p].state # "unmade" => t.objects[p].state # "unmade"
            BY <1>3, <1>5, <1>8
        <2>4. {b} \in SUBSET Blocks /\ t.objects[o].state # "unmade" /\ Sound(Here)
            BY <1>2, <1>3, <1>5, <1>8 DEF CacheInv
        <2>5. \A c \in Blocks \ {b} : t.blocks[c] = blocks[c]
            BY <1>6, <1>8
        <2>6. \A c \in Blocks : IsHeld(t, c) => c \in {b} \/ IsHeld(Here, c)
            BY <1>11
        <2> QED BY <1>2, <1>8, <2>1, <2>2, <2>3, <2>4, <2>5, <2>6, MadeBlocksOK
    <1>14. EntriesOK(t)
        <2>1. EntriesOK(Here) /\ DOMAIN t.entries = DOMAIN Here.entries
            BY <1>8, HereFields DEF CacheInv, Sound, Safe
        <2> QED BY <1>8, <2>1, HereFields DEF EntriesOK
    <1>15. UncachedOK(t, {})
        <2>1. UncachedOK(Here, {})
            BY DEF CacheInv, Sound
        <2>2. \A c \in Blocks \ {b} : t.blocks[c] = blocks[c]
            BY <1>6, <1>8
        <2>3. \A c \in Blocks : t.blocks[c].kind # "owner"
            BY <1>9, <2>1, <2>2, HereFields DEF UncachedOK
        <2>4. \A c, d \in Blocks :
                 t.blocks[c].obj = t.blocks[d].obj /\ t.blocks[c].obj # None => c = d
            BY <1>9, <1>10, <2>1, <2>2, HereFields DEF UncachedOK
        <2>5. \A c \in Blocks : t.blocks[c].kind = "raw" =>
                 t.objects[t.blocks[c].obj].state = "live"
            <3>1. \A c \in Blocks : Live(Here, c) => blocks[c].obj \in Objects
                BY ObjOfUsed, HereFields DEF CacheInv, Sound
            <3> QED BY <1>3, <1>5, <1>8, <1>9, <1>10, <2>1, <2>2, <3>1, HereFields
                    DEF UncachedOK, Live
        <2>6. \A c \in Blocks \ {} : t.blocks[c].kind = "raw" => IsHeld(t, c)
            BY <1>11, <1>12, <2>1, <2>2, HereFields DEF UncachedOK
        <2>7. \A p \in Objects : t.objects[p].state = "live" =>
                 \E c \in Blocks : t.blocks[c].obj = p /\ t.blocks[c].kind = "raw"
            <3> SUFFICES ASSUME NEW p \in Objects, t.objects[p].state = "live"
                         PROVE  \E c \in Blocks : t.blocks[c].obj = p /\ t.blocks[c].kind = "raw"
                OBVIOUS
            <3>1. CASE p = o
                BY <1>2, <1>9, <3>1
            <3>2. CASE p # o
                <4>1. PICK c \in Blocks : blocks[c].obj = p /\ blocks[c].kind = "raw"
                    BY <1>5, <1>8, <2>1, <3>2, HereFields DEF UncachedOK
                <4>2. c # b
                    BY <1>10, <4>1, HereFields DEF Used
                <4> QED BY <2>2, <4>1, <4>2
            <3> QED BY <3>1, <3>2
        <2>8. t.outcome = "running"
            BY <1>8, <2>1, HereFields DEF UncachedOK
        <2> QED BY <2>3, <2>4, <2>5, <2>6, <2>7, <2>8 DEF UncachedOK
    <1> QED BY <1>8, <1>13, <1>14, <1>15 DEF Sound, Safe, t, m

\* Lemma: Create() where there is an entry of the key: the new object takes it
\* with its place, and the handle gets what the entry held.
LEMMA CreateSwapped ==
    ASSUME CacheInv, cached, NEW h \in Handles, handles[h] = Empty, HasRoom(2),
           NEW key \in Keys, NEW saved \in 0 .. MaxClock,
           NEW o, o = NewObject, NEW b, b = NewBlock,
           NEW i \in Matches(key), NEW old, old = Held(i)
    PROVE  LET t == [MadeHere(o, b, key, saved)
                        EXCEPT !.objects[o].index = IndexOf(i),
                               !.entries[i] = b, !.handles[h].sh = entries[i]]
           IN  Safe(t) /\ CachedOK(t, swapped \cup {old}) /\ old \in Objects
    <1> DEFINE k == IndexOf(i)
               x == [Made(key, saved) EXCEPT !.index = k]
               m == MadeHere(o, b, key, saved)
               objects2 == [m.objects EXCEPT ![o] = x]
               blocks2 == m.blocks
               entries2 == [entries EXCEPT ![i] = b]
               handles2 == [handles EXCEPT ![h].sh = entries[i]]
               t == [m EXCEPT !.objects[o].index = k,
                              !.entries[i] = b, !.handles[h].sh = entries[i]]
    <1>1. /\ objects \in [Objects -> ObjectSet] /\ blocks \in [Blocks -> BlockSet]
          /\ handles \in [Handles -> HandleSet] /\ entries \in Seq(Blocks)
          /\ outcome \in Outcomes
        BY HereFields DEF CacheInv, Sound, Safe, Frames
    <1>2. o \in Objects /\ b \in Blocks /\ \A c \in Blocks : c < b => Used(Here, c)
        BY RoomForNew DEF CacheInv
    <1>3. /\ i \in DOMAIN Here.entries /\ old = EntryObj(Here, i)
          /\ objects[old].key = key /\ k = objects[old].index
        BY HereFields DEF Matches, KeyAt, Held, EntryObj, IndexOf
    <1>4. /\ old \in Objects /\ entries[i] \in Blocks /\ IsHeld(Here, entries[i])
          /\ DOMAIN entries = 1 .. Len(entries) /\ i \in 1 .. Len(entries)
        BY <1>3, HereFields, HeldIsBlock, ObjOfUsed DEF CacheInv, Sound, Safe
    <1>5. k = i - 1 /\ k \in -1 .. Cardinality(Keys) - 1
        <2>1. objects[old] \in ObjectSet
            BY <1>1, <1>4
        <2>2. k \in -1 .. Cardinality(Keys) - 1
            BY <1>3, <2>1 DEF ObjectSet
        <2> QED BY <1>3, <2>2, HereFields DEF CacheInv, Sound, Safe, EntriesOK
    <1>6. x \in ObjectSet /\ x.state = "live" /\ x.key = key /\ x.index = i - 1
        BY <1>5 DEF Made, ObjectSet
    <1>7. /\ m \in Frames /\ m.objects[o] = Made(key, saved)
          /\ \A p \in Objects \ {o} : m.objects[p] = objects[p]
          /\ m.blocks[b] = Block(o, "raw") /\ \A c \in Blocks \ {b} : m.blocks[c] = blocks[c]
          /\ m.entries = entries /\ m.handles = handles /\ m.outcome = outcome
        BY MadeFrame
    <1> HIDE DEF k, m
    <1>8. /\ objects2 \in [Objects -> ObjectSet] /\ objects2[o] = x
          /\ \A p \in Objects \ {o} : objects2[p] = objects[p]
        <2>1. m.objects \in [Objects -> ObjectSet]
            BY <1>7 DEF Frames
        <2> HIDE DEF x
        <2> QED BY <1>2, <1>6, <1>7, <2>1
    <1>9. /\ blocks2 \in [Blocks -> BlockSet] /\ blocks2[b] = Block(o, "raw")
          /\ \A c \in Blocks \ {b} : blocks2[c] = blocks[c]
        BY <1>7 DEF Frames
    <1>10. /\ entries2 \in Seq(Blocks) /\ Len(entries2) = Len(entries)
           /\ \A j \in 1 .. Len(entries) : entries2[j] = IF j = i THEN b ELSE entries[j]
           /\ DOMAIN entries2 = 1 .. Len(entries)
        <2>1. /\ entries2 \in Seq(Blocks) /\ Len(entries2) = Len(entries)
              /\ \A j \in 1 .. Len(entries) : entries2[j] = IF j = i THEN b ELSE entries[j]
            BY <1>1, <1>2, <1>4, ExceptSeq
        <2> QED BY <2>1, LenProperties
    <1>11. /\ handles2 \in [Handles -> HandleSet]
           /\ handles2[h].sh = entries[i] /\ handles2[h].temp = None
           /\ \A g \in Handles \ {h} : handles2[g] = handles[g]
        BY <1>1, <1>4 DEF HandleSet, Empty
    <1>12. t = [[[m EXCEPT !.objects = objects2] EXCEPT !.entries = entries2]
                   EXCEPT !.handles = handles2]
        <2>1. m.objects[o] = Made(key, saved) /\ m.entries = entries /\ m.handles = handles
            BY <1>7
        <2> QED BY <2>1
    <1>t. /\ t \in Frames /\ t.objects = objects2 /\ t.blocks = blocks2
          /\ t.entries = entries2 /\ t.handles = handles2 /\ t.outcome = outcome
        <2> HIDE DEF objects2, entries2, handles2, t
        <2> QED BY <1>7, <1>8, <1>9, <1>10, <1>11, <1>12 DEF Frames
    <1> HIDE DEF objects2, blocks2, entries2, handles2, x
    <1> HIDE DEF t
    <1>13. t.blocks[b].obj = o /\ t.blocks[b].kind = "raw"
        BY <1>9, <1>t DEF Block
    <1>14. /\ \A c \in Blocks : blocks[c].obj # o
           /\ \A j \in DOMAIN Here.entries : EntryObj(Here, j) # o
           /\ ~Used(Here, b) /\ ~IsHeld(Here, b)
        BY <1>2, NewIsFresh DEF CacheInv
    <1>15. \A c \in Blocks \ {b} : IsHeld(t, c) => IsHeld(Here, c)
        <2> SUFFICES ASSUME NEW c \in Blocks \ {b}, IsHeld(t, c) PROVE IsHeld(Here, c)
            OBVIOUS
        <2>1. CASE \E j \in DOMAIN t.entries : t.entries[j] = c
            BY <1>4, <1>10, <1>t, <2>1, HereFields DEF IsHeld
        <2>2. CASE \E g \in Handles : t.handles[g].sh = c \/ t.handles[g].temp = c
            BY <1>4, <1>11, <1>t, <2>2, HereFields DEF IsHeld, Blocks, None
        <2> QED BY <2>1, <2>2 DEF IsHeld
    <1>16. BlocksOK(t)
        <2>1. \A c \in {b}, d \in Blocks : d < c => Used(Here, d) \/ d \in {b}
            BY <1>2
        <2>2. \A c \in {b} : t.blocks[c].obj = o /\ Live(t, c)
            BY <1>13 DEF Live
        <2>3. \A p \in Objects : objects[p].state # "unmade" => t.objects[p].state # "unmade"
            BY <1>6, <1>8, <1>t
        <2>4. {b} \in SUBSET Blocks /\ t.objects[o].state # "unmade" /\ Sound(Here)
            BY <1>2, <1>6, <1>8, <1>t DEF CacheInv
        <2>5. \A c \in Blocks \ {b} : t.blocks[c] = blocks[c]
            BY <1>9, <1>t
        <2>6. \A c \in Blocks : IsHeld(t, c) => c \in {b} \/ IsHeld(Here, c)
            BY <1>15
        <2> QED BY <1>2, <1>t, <2>1, <2>2, <2>3, <2>4, <2>5, <2>6, MadeBlocksOK
    <1>17. EntriesOK(t)
        <2>1. EntriesOK(Here)
            BY DEF CacheInv, Sound, Safe
        <2>2. \A j \in DOMAIN Here.entries :
                 entries[j] \in Blocks \ {b} /\ EntryObj(Here, j) \in Objects \ {o}
            BY <1>14, HeldIsBlock, ObjOfUsed, HereFields DEF CacheInv, Sound, Safe
        <2>3. DOMAIN t.entries = DOMAIN Here.entries
            BY <1>4, <1>10, <1>t, HereFields
        <2>4. EntryObj(t, i) = o /\ t.objects[o] = x /\ t.entries[i] = b
            BY <1>4, <1>8, <1>10, <1>t, <1>13 DEF EntryObj
        <2>5. \A j \in DOMAIN Here.entries \ {i} :
                 /\ t.entries[j] = entries[j] /\ EntryObj(t, j) = EntryObj(Here, j)
                 /\ t.objects[EntryObj(t, j)] = objects[EntryObj(Here, j)]
            BY <1>4, <1>8, <1>9, <1>10, <1>t, <2>2, HereFields DEF EntryObj
        <2>6. \A j \in DOMAIN t.entries :
                 /\ t.objects[EntryObj(t, j)].state = "live"
                 /\ t.objects[EntryObj(t, j)].index = j - 1
                 /\ t.objects[EntryObj(t, j)].key \in Keys
            BY <1>6, <2>1, <2>3, <2>4, <2>5, HereFields DEF EntriesOK
        <2>7. \A j \in DOMAIN t.entries, c \in Blocks :
                 t.blocks[c].kind = "owner" /\ t.blocks[c].obj = EntryObj(t, j)
                    => c = t.entries[j]
            <3> SUFFICES ASSUME NEW j \in DOMAIN t.entries, NEW c \in Blocks,
                                t.blocks[c].kind = "owner", t.blocks[c].obj = EntryObj(t, j)
                         PROVE  c = t.entries[j]
                OBVIOUS
            <3>1. c # b /\ blocks[c] = t.blocks[c] /\ t.blocks[c].obj # o
                BY <1>9, <1>t, <1>13, <1>14
            <3>2. j \in DOMAIN Here.entries \ {i}
                BY <2>3, <2>4, <3>1
            <3> QED BY <2>1, <2>5, <3>1, <3>2, HereFields DEF EntriesOK
        <2>8. \A j, l \in DOMAIN t.entries :
                 t.objects[EntryObj(t, j)].key = t.objects[EntryObj(t, l)].key => j = l
            <3>1. \A j \in DOMAIN t.entries :
                     t.objects[EntryObj(t, j)].key = objects[EntryObj(Here, j)].key
                BY <1>3, <1>6, <2>3, <2>4, <2>5
            <3> QED BY <2>1, <2>3, <3>1, HereFields DEF EntriesOK
        <2> QED BY <1>10, <1>t, <2>1, <2>6, <2>7, <2>8, HereFields DEF EntriesOK
    <1>18. CachedOK(t, swapped \cup {old})
        <2>1. CachedOK(Here, swapped)
            BY DEF CacheInv, Sound
        <2>2. \A c \in Blocks : t.blocks[c].kind = "owner" => c # b /\ t.blocks[c] = blocks[c]
            BY <1>9, <1>13, <1>t
        <2>3. OwnersDiffer(t)
            BY <2>1, <2>2, HereFields DEF CachedOK, OwnersDiffer
        <2>4. OwnersLive(t)
            <3>1. \A c \in Blocks : blocks[c].kind = "owner" => blocks[c].obj \in Objects \ {o}
                BY <1>14, ObjOfUsed, HereFields DEF CacheInv, Sound, Live
            <3> QED BY <1>8, <1>t, <2>1, <2>2, <3>1, HereFields DEF CachedOK, OwnersLive
        <2>5. /\ EntryObj(t, i) = o /\ i \in DOMAIN t.entries
              /\ \A j \in DOMAIN Here.entries \ {i} :
                     j \in DOMAIN t.entries /\ EntryObj(t, j) = EntryObj(Here, j)
            <3>1. \A j \in DOMAIN Here.entries : entries[j] \in Blocks \ {b}
                BY <1>14, HeldIsBlock, HereFields DEF CacheInv, Sound, Safe
            <3> QED BY <1>4, <1>9, <1>10, <1>13, <1>t, <3>1, HereFields DEF EntryObj
        <2>6. OthersPlaced(t, swapped \cup {old})
            <3> SUFFICES ASSUME NEW p \in Objects \ (swapped \cup {old}),
                                t.objects[p].state # "unmade"
                         PROVE  Placed(t, p)
                BY DEF OthersPlaced
            <3>1. CASE p = o
                BY <2>5, <3>1 DEF Placed
            <3>2. CASE p # o
                <4>1. PICK j \in DOMAIN Here.entries : EntryObj(Here, j) = p
                    BY <1>8, <1>t, <2>1, <3>2, HereFields DEF CachedOK, OthersPlaced, Placed
                <4>2. j # i
                    BY <1>3, <4>1
                <4> QED BY <2>5, <4>1, <4>2 DEF Placed
            <3> QED BY <3>1, <3>2
        <2>7. PlacesKnown(t)
            <3> SUFFICES ASSUME NEW p \in Objects, t.objects[p].state = "live"
                         PROVE  KnowsPlace(t, p)
                BY DEF PlacesKnown
            <3>1. t.objects[EntryObj(t, i)].key = key
                BY <1>6, <1>8, <1>t, <2>5
            <3>2. CASE p = o
                BY <1>6, <1>8, <1>t, <2>5, <3>1, <3>2 DEF KnowsPlace
            <3>3. CASE p # o
                <4>1. t.objects[p] = objects[p]
                    BY <1>8, <1>t, <3>3
                <4>2. PICK j \in DOMAIN Here.entries :
                         objects[p].index = j - 1 /\ objects[EntryObj(Here, j)].key = objects[p].key
                    BY <2>1, <4>1, HereFields DEF CachedOK, PlacesKnown, KnowsPlace
                <4>3. CASE j = i
                    BY <1>3, <2>5, <3>1, <4>1, <4>2, <4>3 DEF KnowsPlace
                <4>4. CASE j # i
                    <5>1. EntryObj(Here, j) \in Objects \ {o}
                        BY <1>14, ObjOfUsed DEF CacheInv, Sound
                    <5>2. EntryObj(t, j) = EntryObj(Here, j) /\ j \in DOMAIN t.entries
                        BY <2>5, <4>4
                    <5>3. t.objects[EntryObj(t, j)] = objects[EntryObj(Here, j)]
                        BY <1>8, <1>t, <5>1, <5>2
                    <5> QED BY <4>1, <4>2, <5>2, <5>3 DEF KnowsPlace
                <4> QED BY <4>3, <4>4
            <3> QED BY <3>2, <3>3
        <2>8. FreedGiven(t, swapped \cup {old})
            BY <1>6, <1>8, <1>t, <2>1, HereFields DEF CachedOK, FreedGiven
        <2>9. HarmOK(t.outcome, swapped \cup {old})
            BY <1>t, <2>1, HereFields DEF CachedOK, HarmOK
        <2> QED BY <2>3, <2>4, <2>6, <2>7, <2>8, <2>9 DEF CachedOK
    <1> QED BY <1>4, <1>t, <1>16, <1>17, <1>18 DEF Safe, t, m, k

\* Lemma: as long as a key has no entry there are fewer entries than keys.
LEMMA FewerThanKeys ==
    ASSUME Sound(Here), NEW key \in Keys, Matches(key) = {}
    PROVE  Len(entries) \in Nat /\ Len(entries) < Cardinality(Keys)
    <1> DEFINE K == Keys \ {key}
               f == [i \in 1 .. Len(entries) |-> KeyAt(i)]
    <1>1. DOMAIN entries = 1 .. Len(entries) /\ Len(entries) \in Nat
        BY HeldIsBlock, HereFields DEF Sound, Safe
    <1>2. \A i \in 1 .. Len(entries) : i \in DOMAIN Here.entries
        BY <1>1, HereFields
    <1>3. \A i \in 1 .. Len(entries) : KeyAt(i) = objects[EntryObj(Here, i)].key
        BY HereFields DEF KeyAt, Held, EntryObj
    <1>4. \A i \in 1 .. Len(entries) : KeyAt(i) \in Keys
        BY <1>2, <1>3, HereFields DEF Sound, Safe, EntriesOK
    <1>5. \A i \in 1 .. Len(entries) : KeyAt(i) # key
        BY <1>1, <1>2 DEF Matches
    <1>6. \A i, j \in 1 .. Len(entries) : KeyAt(i) = KeyAt(j) => i = j
        BY <1>2, <1>3, HereFields DEF Sound, Safe, EntriesOK
    <1>7. f \in Injection(1 .. Len(entries), K)
        BY <1>4, <1>5, <1>6 DEF Injection, IsInjective
    <1>8. IsFiniteSet(Keys) /\ Cardinality(Keys) \in Nat
        BY CacheAssumption, FS_CardinalityType DEF CacheAssumption
    <1>9. IsFiniteSet(K) /\ Cardinality(K) = Cardinality(Keys) - 1
        BY <1>8, FS_RemoveElement
    <1>10. Cardinality(1 .. Len(entries)) <= Cardinality(K)
        BY <1>7, <1>9, FS_Injection
    <1>11. Cardinality(1 .. Len(entries)) = Len(entries)
        <2>1. 1 \in Int /\ Len(entries) \in Int
            BY <1>1
        <2>2. Cardinality(1 .. Len(entries)) =
                 IF 1 > Len(entries) THEN 0 ELSE Len(entries) - 1 + 1
            BY <2>1, FS_Interval
        <2> QED BY <1>1, <2>2
    <1> QED BY <1>1, <1>8, <1>9, <1>10, <1>11

\* Lemma: Create() of a new key: the object gets an entry with a block of its own.
LEMMA CreateAppended ==
    ASSUME CacheInv, cached, NEW h \in Handles, handles[h] = Empty, HasRoom(2),
           NEW key \in Keys, NEW saved \in 0 .. MaxClock, Matches(key) = {},
           NEW o, o = NewObject, NEW b, b = NewBlock
    PROVE  Sound([MadeHere(o, b, key, saved)
                    EXCEPT !.objects[o].index = Len(entries),
                           !.blocks[b + 1] = Block(o, "owner"),
                           !.entries = Append(@, b + 1), !.handles[h].sh = b])
    <1> DEFINE k == Len(entries)
               x == [Made(key, saved) EXCEPT !.index = k]
               y == Block(o, "owner")
               m == MadeHere(o, b, key, saved)
               w == b + 1
               objects2 == [m.objects EXCEPT ![o] = x]
               blocks2 == [m.blocks EXCEPT ![w] = y]
               entries2 == Append(entries, w)
               handles2 == [handles EXCEPT ![h].sh = b]
               t == [m EXCEPT !.objects[o].index = k, !.blocks[w] = y,
                              !.entries = Append(@, w), !.handles[h].sh = b]
    <1>1. /\ handles \in [Handles -> HandleSet] /\ entries \in Seq(Blocks)
        BY HereFields DEF CacheInv, Sound, Safe, Frames
    <1>2. /\ o \in Objects /\ b \in Blocks /\ w \in Blocks /\ w # b
          /\ \A c \in Blocks : c < b => Used(Here, c)
        <2>1. o \in Objects /\ b \in Blocks /\ w \in Blocks
            BY RoomForNew DEF CacheInv
        <2>2. \A c \in Blocks : c < b => Used(Here, c)
            BY RoomForNew DEF CacheInv
        <2>3. w # b
            BY <2>1 DEF Blocks
        <2> QED BY <2>1, <2>2, <2>3
    <1>3. k \in Nat /\ k < Cardinality(Keys) /\ Cardinality(Keys) \in Nat
        BY FewerThanKeys, CacheAssumption, FS_CardinalityType DEF CacheAssumption, CacheInv
    <1>4. DOMAIN entries = 1 .. k
        BY <1>1, LenProperties
    <1>5. x \in ObjectSet /\ x.state = "live" /\ x.key = key /\ x.index = k
        <2>1. k \in -1 .. Cardinality(Keys) - 1 /\ key \in Keys \cup {NoKey}
            BY <1>3
        <2> HIDE DEF k
        <2> QED BY <2>1 DEF Made, ObjectSet
    <1>6. y \in BlockSet /\ y.obj = o /\ y.kind = "owner"
        BY <1>2 DEF Block, BlockSet
    <1>7. /\ m \in Frames /\ m.objects[o] = Made(key, saved)
          /\ \A p \in Objects \ {o} : m.objects[p] = objects[p]
          /\ m.blocks[b] = Block(o, "raw") /\ \A c \in Blocks \ {b} : m.blocks[c] = blocks[c]
          /\ m.entries = entries /\ m.handles = handles /\ m.outcome = outcome
        BY MadeFrame
    <1> HIDE DEF k, m, w
    <1>8. /\ objects2 \in [Objects -> ObjectSet] /\ objects2[o] = x
          /\ \A p \in Objects \ {o} : objects2[p] = objects[p]
        <2>1. m.objects \in [Objects -> ObjectSet]
            BY <1>7 DEF Frames
        <2> HIDE DEF x
        <2> QED BY <1>2, <1>5, <1>7, <2>1
    <1>9. /\ blocks2 \in [Blocks -> BlockSet] /\ blocks2[b] = Block(o, "raw")
          /\ blocks2[w] = y /\ \A c \in Blocks \ {b, w} : blocks2[c] = blocks[c]
        <2>1. m.blocks \in [Blocks -> BlockSet]
            BY <1>7 DEF Frames
        <2> HIDE DEF y
        <2> QED BY <1>2, <1>6, <1>7, <2>1
    <1>10. /\ entries2 \in Seq(Blocks) /\ Len(entries2) = k + 1
           /\ \A j \in 1 .. k : entries2[j] = entries[j]
           /\ entries2[k + 1] = w
           /\ DOMAIN entries2 = 1 .. k + 1
        <2>1. w \in Blocks
            BY <1>2
        <2>2. /\ entries2 \in Seq(Blocks) /\ Len(entries2) = k + 1
              /\ \A j \in 1 .. k : entries2[j] = entries[j]
              /\ entries2[k + 1] = w
            BY <1>1, <1>3, <2>1, AppendProperties DEF k
        <2> QED BY <2>2, LenProperties
    <1>11. /\ handles2 \in [Handles -> HandleSet]
           /\ handles2[h].sh = b /\ handles2[h].temp = None
           /\ \A g \in Handles \ {h} : handles2[g] = handles[g]
        BY <1>1, <1>2 DEF HandleSet, Empty
    <1>12. t = [[[[m EXCEPT !.objects = objects2] EXCEPT !.blocks = blocks2]
                    EXCEPT !.entries = entries2] EXCEPT !.handles = handles2]
        <2>1. m.objects[o] = Made(key, saved) /\ m.entries = entries /\ m.handles = handles
            BY <1>7
        <2> QED BY <2>1
    <1>t. /\ t \in Frames /\ t.objects = objects2 /\ t.blocks = blocks2
          /\ t.entries = entries2 /\ t.handles = handles2 /\ t.outcome = outcome
        <2> HIDE DEF objects2, blocks2, entries2, handles2, t
        <2> QED BY <1>7, <1>8, <1>9, <1>10, <1>11, <1>12 DEF Frames
    <1> HIDE DEF objects2, blocks2, entries2, handles2, x, y, t
    <1>13. /\ t.blocks[b].obj = o /\ t.blocks[b].kind = "raw"
           /\ t.blocks[w].obj = o /\ t.blocks[w].kind = "owner"
           /\ \A c \in Blocks \ {b, w} : t.blocks[c] = blocks[c] /\ t.blocks[c].obj # o
        BY <1>6, <1>9, <1>t, NewIsFresh DEF Block, CacheInv
    <1>14. /\ ~IsHeld(Here, b) /\ ~IsHeld(Here, w)
           /\ \A j \in DOMAIN Here.entries : EntryObj(Here, j) # o
        BY <1>2, NewIsFresh DEF CacheInv, w
    <1>15. \A c \in Blocks \ {b, w} : IsHeld(t, c) => IsHeld(Here, c)
        <2> SUFFICES ASSUME NEW c \in Blocks \ {b, w}, IsHeld(t, c) PROVE IsHeld(Here, c)
            OBVIOUS
        <2>1. CASE \E j \in DOMAIN t.entries : t.entries[j] = c
            <3>1. PICK j \in 1 .. k + 1 : entries2[j] = c
                BY <1>10, <1>t, <2>1
            <3>2. j \in 1 .. k
                BY <1>3, <1>10, <3>1
            <3> QED BY <1>4, <1>10, <3>1, <3>2, HereFields DEF IsHeld
        <2>2. CASE \E g \in Handles : t.handles[g].sh = c \/ t.handles[g].temp = c
            BY <1>11, <1>t, <2>2, HereFields DEF IsHeld, Blocks, None
        <2> QED BY <2>1, <2>2 DEF IsHeld
    <1>16. BlocksOK(t)
        <2>1. \A c \in {b, w}, d \in Blocks : d < c => Used(Here, d) \/ d \in {b, w}
            BY <1>2 DEF Blocks, w
        <2>2. \A c \in {b, w} : t.blocks[c].obj = o /\ Live(t, c)
            BY <1>13 DEF Live
        <2>3. \A p \in Objects : objects[p].state # "unmade" => t.objects[p].state # "unmade"
            BY <1>5, <1>8, <1>t
        <2>4. {b, w} \in SUBSET Blocks /\ t.objects[o].state # "unmade" /\ Sound(Here)
            BY <1>2, <1>5, <1>8, <1>t DEF CacheInv
        <2>5. \A c \in Blocks \ {b, w} : t.blocks[c] = blocks[c]
            BY <1>13
        <2>6. \A c \in Blocks : IsHeld(t, c) => c \in {b, w} \/ IsHeld(Here, c)
            BY <1>15
        <2> QED BY <1>2, <1>t, <2>1, <2>2, <2>3, <2>4, <2>5, <2>6, MadeBlocksOK
    <1>17. /\ DOMAIN t.entries = DOMAIN Here.entries \cup {k + 1}
           /\ EntryObj(t, k + 1) = o /\ t.objects[o] = x /\ t.entries[k + 1] = w
           /\ \A j \in DOMAIN Here.entries :
                 /\ t.entries[j] = entries[j] /\ entries[j] \notin {b, w}
                 /\ EntryObj(t, j) = EntryObj(Here, j)
                 /\ t.objects[EntryObj(t, j)] = objects[EntryObj(Here, j)]
        <2>1. \A j \in DOMAIN Here.entries : /\ entries[j] \in Blocks \ {b, w}
                                      /\ EntryObj(Here, j) \in Objects \ {o} /\ j \in 1 .. k
            BY <1>4, <1>14, HeldIsBlock, ObjOfUsed, HereFields DEF CacheInv, Sound, Safe
        <2>2. k + 1 \in 1 .. k + 1 /\ 1 .. k + 1 = (1 .. k) \cup {k + 1}
            BY <1>3
        <2>3. DOMAIN t.entries = DOMAIN Here.entries \cup {k + 1}
            BY <1>4, <1>10, <1>t, <2>2, HereFields
        <2>4. EntryObj(t, k + 1) = o /\ t.objects[o] = x /\ t.entries[k + 1] = w
            BY <1>8, <1>10, <1>13, <1>t DEF EntryObj
        <2>5. \A j \in DOMAIN Here.entries : t.entries[j] = entries[j]
            BY <1>10, <1>t, <2>1
        <2>6. \A j \in DOMAIN Here.entries : EntryObj(t, j) = EntryObj(Here, j)
            BY <1>13, <2>1, <2>5, HereFields DEF EntryObj
        <2>7. \A j \in DOMAIN Here.entries : t.objects[EntryObj(t, j)] = objects[EntryObj(Here, j)]
            BY <1>8, <1>t, <2>1, <2>6
        <2> QED BY <2>1, <2>3, <2>4, <2>5, <2>6, <2>7
    <1>18. EntriesOK(t)
        <2>1. EntriesOK(Here)
            BY DEF CacheInv, Sound, Safe
        <2>2. \A j \in DOMAIN t.entries :
                 /\ t.objects[EntryObj(t, j)].state = "live"
                 /\ t.objects[EntryObj(t, j)].index = j - 1
                 /\ t.objects[EntryObj(t, j)].key \in Keys
            <3>1. (k + 1) - 1 = k
                BY <1>3
            <3> QED BY <1>5, <1>17, <2>1, <3>1, HereFields DEF EntriesOK
        <2>3. \A j \in DOMAIN t.entries, c \in Blocks :
                 t.blocks[c].kind = "owner" /\ t.blocks[c].obj = EntryObj(t, j)
                    => c = t.entries[j]
            <3> SUFFICES ASSUME NEW j \in DOMAIN t.entries, NEW c \in Blocks,
                                t.blocks[c].kind = "owner", t.blocks[c].obj = EntryObj(t, j)
                         PROVE  c = t.entries[j]
                OBVIOUS
            <3>1. CASE c \in {b, w}
                BY <1>13, <1>14, <1>17, <3>1
            <3>2. CASE c \notin {b, w}
                BY <1>13, <1>17, <2>1, <3>2, HereFields DEF EntriesOK
            <3> QED BY <3>1, <3>2
        <2>4. \A j \in DOMAIN Here.entries : objects[EntryObj(Here, j)].key # key
            BY HereFields DEF Matches, KeyAt, Held, EntryObj
        <2>5. \A j, l \in DOMAIN t.entries :
                 t.objects[EntryObj(t, j)].key = t.objects[EntryObj(t, l)].key => j = l
            BY <1>5, <1>17, <2>1, <2>4, HereFields DEF EntriesOK
        <2>6. Len(t.entries) <= Cardinality(Keys)
            BY <1>3, <1>10, <1>t
        <2> QED BY <2>2, <2>3, <2>5, <2>6 DEF EntriesOK
    <1>19. CachedOK(t, swapped)
        <2>1. CachedOK(Here, swapped)
            BY DEF CacheInv, Sound
        <2>2. OwnersDiffer(t)
            <3>1. OwnersDiffer(Here)
                BY <2>1 DEF CachedOK
            <3> SUFFICES ASSUME NEW c \in Blocks, NEW d \in Blocks,
                                t.blocks[c].obj = t.blocks[d].obj,
                                t.blocks[c].kind = "owner", t.blocks[d].kind = "owner"
                         PROVE  c = d
                BY DEF OwnersDiffer
            <3>2. CASE c \in {b, w} \/ d \in {b, w}
                BY <1>13, <3>2
            <3>3. CASE c \notin {b, w} /\ d \notin {b, w}
                BY <1>13, <3>1, <3>3, HereFields DEF OwnersDiffer
            <3> QED BY <3>2, <3>3
        <2>3. OwnersLive(t)
            <3> SUFFICES ASSUME NEW c \in Blocks, t.blocks[c].kind = "owner"
                         PROVE  t.objects[t.blocks[c].obj].state = "live"
                BY DEF OwnersLive
            <3>1. CASE c \in {b, w}
                BY <1>5, <1>13, <1>17, <3>1
            <3>2. CASE c \notin {b, w}
                <4>1. blocks[c].kind = "owner" /\ t.blocks[c].obj = blocks[c].obj
                    BY <1>13, <3>2
                <4>2. blocks[c].obj \in Objects \ {o}
                    BY <1>13, <3>2, <4>1, ObjOfUsed, HereFields DEF CacheInv, Sound, Live
                <4> QED BY <1>8, <1>t, <2>1, <4>1, <4>2, HereFields DEF CachedOK, OwnersLive
            <3> QED BY <3>1, <3>2
        <2>4. OthersPlaced(t, swapped)
            <3> SUFFICES ASSUME NEW p \in Objects \ swapped, t.objects[p].state # "unmade"
                         PROVE  Placed(t, p)
                BY DEF OthersPlaced
            <3>1. CASE p = o
                BY <1>17, <3>1 DEF Placed
            <3>2. CASE p # o
                <4>1. PICK j \in DOMAIN Here.entries : EntryObj(Here, j) = p
                    BY <1>8, <1>t, <2>1, <3>2, HereFields DEF CachedOK, OthersPlaced, Placed
                <4> QED BY <1>17, <4>1 DEF Placed
            <3> QED BY <3>1, <3>2
        <2>5. PlacesKnown(t)
            <3> SUFFICES ASSUME NEW p \in Objects, t.objects[p].state = "live"
                         PROVE  KnowsPlace(t, p)
                BY DEF PlacesKnown
            <3>1. CASE p = o
                <4>1. t.objects[o].index = (k + 1) - 1
                    BY <1>3, <1>5, <1>17
                <4> QED BY <1>17, <3>1, <4>1 DEF KnowsPlace
            <3>2. CASE p # o
                <4>1. t.objects[p] = objects[p]
                    BY <1>8, <1>t, <3>2
                <4>2. PICK j \in DOMAIN Here.entries :
                         objects[p].index = j - 1 /\ objects[EntryObj(Here, j)].key = objects[p].key
                    BY <2>1, <4>1, HereFields DEF CachedOK, PlacesKnown, KnowsPlace
                <4> QED BY <1>17, <4>1, <4>2 DEF KnowsPlace
            <3> QED BY <3>1, <3>2
        <2>6. FreedGiven(t, swapped)
            BY <1>5, <1>8, <1>t, <2>1, HereFields DEF CachedOK, FreedGiven
        <2>7. HarmOK(t.outcome, swapped)
            BY <1>t, <2>1, HereFields DEF CachedOK
        <2> QED BY <2>2, <2>3, <2>4, <2>5, <2>6, <2>7 DEF CachedOK
    <1>20. Sound(t)
        BY <1>16, <1>18, <1>19, <1>t DEF Sound, Safe, CacheInv
    <1> QED BY <1>20 DEF t, m, k, w, y

\* Lemma: Create(), whichever way it goes.
LEMMA CreateSound ==
    ASSUME CacheInv, NEW h \in Handles, NEW key \in Keys, NEW saved \in 0 .. MaxClock,
           Create(h, key, saved)
    PROVE  CacheInv'
    <1> DEFINE o == NewObject
               b == NewBlock
               m == MadeHere(o, b, key, saved)
    <1>1. /\ handles[h] = Empty /\ HasRoom(2) /\ UNCHANGED <<cached, clock>>
          /\ Sound(Here) /\ HistoryOK
        BY DEF Create, CacheInv
    <1>2. CASE ~cached
        <2>1. Become([m EXCEPT !.handles[h].sh = b]) /\ UNCHANGED swapped
            BY <1>2 DEF Create, MadeHere
        <2>2. Sound([m EXCEPT !.handles[h].sh = b])
            BY <1>1, <1>2, CreateUncached
        <2> HIDE DEF m, b
        <2>3. Sound(Here)'
            BY <1>1, <2>1, <2>2, BecomeSound DEF Sound
        <2> QED BY <1>1, <2>1, <2>3 DEF CacheInv, HistoryOK
    <1>3. CASE cached /\ Matches(key) # {}
        <2> DEFINE i == Next0(Matches(key))
                   old == Held(i)
                   t == [m EXCEPT !.objects[o].index = IndexOf(i),
                                  !.entries[i] = b, !.handles[h].sh = entries[i]]
        <2>1. i \in Matches(key)
            <3>1. Matches(key) \subseteq Nat
                BY <1>1, HeldIsBlock, HereFields DEF Matches, Sound, Safe
            <3> QED BY <1>3, <3>1, FirstMatch
        <2>2. Become(t) /\ swapped' = swapped \cup {old}
            BY <1>3 DEF Create, MadeHere
        <2> HIDE DEF i, b, o
        <2>3. Safe(t) /\ CachedOK(t, swapped \cup {old}) /\ old \in Objects
            BY <1>1, <1>3, <2>1, CreateSwapped DEF o, b
        <2> HIDE DEF t, old
        <2>4. Sound(Here)'
            BY <1>1, <1>3, <2>2, <2>3, BecomeSound
        <2> QED BY <1>1, <2>2, <2>3, <2>4 DEF CacheInv, HistoryOK
    <1>4. CASE cached /\ Matches(key) = {}
        <2> DEFINE t == [m EXCEPT !.objects[o].index = Len(entries),
                                  !.blocks[b + 1] = Block(o, "owner"),
                                  !.entries = Append(@, b + 1), !.handles[h].sh = b]
        <2>1. Become(t) /\ UNCHANGED swapped
            BY <1>4 DEF Create, MadeHere
        <2>2. Sound(t)
            BY <1>1, <1>4, CreateAppended
        <2> HIDE DEF t
        <2>3. Sound(Here)'
            BY <1>1, <2>1, <2>2, BecomeSound DEF Sound
        <2> QED BY <1>1, <2>1, <2>3 DEF CacheInv, HistoryOK
    <1> QED BY <1>2, <1>3, <1>4

\* Lemma: First(): a lookup that is answered makes another block for the object.
LEMMA FirstSound ==
    ASSUME CacheInv, NEW h \in Handles, NEW key \in Keys \cup {NoKey}, First(h, key)
    PROVE  CacheInv'
    <1>1. CASE ~(cached /\ Hit(key))
        <2>1. PICK row \in Keys : Create(h, row, clock)
            BY <1>1 DEF First
        <2>2. clock \in 0 .. MaxClock
            BY CacheAssumption DEF CacheAssumption, CacheInv, HistoryOK
        <2> QED BY <2>1, <2>2, CreateSound
    <1>2. CASE cached /\ Hit(key)
        <2> DEFINE o == Held(1)
                   b == NewBlock
                   y == Block(o, "raw")
                   blocks2 == [blocks EXCEPT ![b] = y]
                   handles2 == [handles EXCEPT ![h].sh = b]
                   t == [Here EXCEPT !.blocks[b] = y, !.handles[h].sh = b]
        <2>1. /\ handles[h] = Empty /\ HasRoom(1) /\ Become(t)
              /\ UNCHANGED <<cached, clock, swapped>> /\ Sound(Here) /\ HistoryOK
            BY <1>2 DEF First, CacheInv
        <2>2. 1 \in DOMAIN Here.entries /\ o = EntryObj(Here, 1)
            <3>1. entries \in Seq(Blocks) /\ entries # <<>>
                BY <1>2, <2>1, HereFields DEF Hit, Sound, Safe, Frames
            <3>2. Len(entries) \in Nat /\ Len(entries) # 0 /\ DOMAIN entries = 1 .. Len(entries)
                BY <3>1, EmptySeq, LenProperties
            <3> QED BY <3>2, HereFields DEF Held, EntryObj
        <2>3. /\ o \in Objects /\ objects[o].state = "live"
              /\ b \in Blocks /\ \A c \in Blocks : c < b => Used(Here, c)
            BY <2>1, <2>2, ObjOfUsed, RoomForNew, HereFields DEF Sound, Safe, EntriesOK
        <2>4. /\ y \in BlockSet /\ y.obj = o /\ y.kind = "raw"
            BY <2>3 DEF Block, BlockSet
        <2>5. /\ blocks \in [Blocks -> BlockSet] /\ handles \in [Handles -> HandleSet]
            BY <2>1, HereFields DEF Sound, Safe, Frames
        <2>6. /\ blocks2 \in [Blocks -> BlockSet] /\ blocks2[b] = y
              /\ \A c \in Blocks \ {b} : blocks2[c] = blocks[c]
            <3> HIDE DEF y
            <3> QED BY <2>3, <2>4, <2>5
        <2>7. /\ handles2 \in [Handles -> HandleSet]
              /\ handles2[h].sh = b /\ handles2[h].temp = None
              /\ \A g \in Handles \ {h} : handles2[g] = handles[g]
            BY <2>1, <2>3, <2>5 DEF HandleSet, Empty
        <2>8. t = [[Here EXCEPT !.blocks = blocks2] EXCEPT !.handles = handles2]
            BY DEF Here
        <2> HIDE DEF blocks2, handles2, y
        <2>9. /\ t \in Frames /\ t.objects = objects /\ t.blocks = blocks2
              /\ t.entries = entries /\ t.handles = handles2 /\ t.outcome = outcome
            BY <2>1, <2>6, <2>7, <2>8, HereFields DEF Sound, Safe, Frames
        <2> HIDE DEF t, b, o
        <2>10. ~Used(Here, b) /\ ~IsHeld(Here, b)
            BY <2>1, <2>3, NewIsFresh DEF b
        <2>11. \A c \in Blocks \ {b} : IsHeld(t, c) => IsHeld(Here, c)
            BY <2>7, <2>9, HereFields DEF IsHeld, Blocks, None
        <2>12. BlocksOK(t)
            <3>1. \A c \in {b}, d \in Blocks : d < c => Used(Here, d) \/ d \in {b}
                BY <2>3
            <3>2. \A c \in {b} : t.blocks[c].obj = o /\ Live(t, c)
                BY <2>4, <2>6, <2>9 DEF Live
            <3>3. \A p \in Objects : objects[p].state # "unmade" => t.objects[p].state # "unmade"
                BY <2>9
            <3>4. {b} \in SUBSET Blocks /\ t.objects[o].state # "unmade"
                BY <2>3, <2>9
            <3>5. \A c \in Blocks \ {b} : t.blocks[c] = blocks[c]
                BY <2>6, <2>9
            <3>6. \A c \in Blocks : IsHeld(t, c) => c \in {b} \/ IsHeld(Here, c)
                BY <2>11
            <3> QED BY <2>1, <2>3, <2>9, <3>1, <3>2, <3>3, <3>4, <3>5, <3>6, MadeBlocksOK
        <2>13. EntriesOK(t)
            <3>1. EntriesOK(Here)
                BY <2>1 DEF Sound, Safe
            <3>2. \A j \in DOMAIN Here.entries : entries[j] \in Blocks \ {b}
                BY <2>1, <2>10, HeldIsBlock, HereFields DEF Sound, Safe
            <3>3. /\ DOMAIN t.entries = DOMAIN Here.entries
                  /\ \A j \in DOMAIN Here.entries : EntryObj(t, j) = EntryObj(Here, j)
                BY <2>6, <2>9, <3>2, HereFields DEF EntryObj
            <3>4. \A c \in Blocks : t.blocks[c].kind = "owner" => c # b /\ t.blocks[c] = blocks[c]
                BY <2>4, <2>6, <2>9
            <3> QED BY <2>9, <3>1, <3>3, <3>4, HereFields DEF EntriesOK
        <2>14. CachedOK(t, swapped)
            <3>1. CachedOK(Here, swapped) /\ Safe(Here)
                BY <1>2, <2>1 DEF Sound
            <3>2. \A c \in Blocks : t.blocks[c].kind = "owner" => c # b /\ t.blocks[c] = blocks[c]
                BY <2>4, <2>6, <2>9
            <3>3. OwnersDiffer(t)
                BY <3>1, <3>2, HereFields DEF CachedOK, OwnersDiffer
            <3>4. OwnersLive(t)
                BY <2>9, <3>1, <3>2, HereFields DEF CachedOK, OwnersLive
            <3>5. \A j \in DOMAIN Here.entries : EntryObj(t, j) = EntryObj(Here, j)
                <4>1. \A j \in DOMAIN Here.entries : entries[j] \in Blocks \ {b}
                    BY <2>10, <3>1, HeldIsBlock, HereFields DEF Safe
                <4> QED BY <2>6, <2>9, <4>1, HereFields DEF EntryObj
            <3>6. OthersPlaced(t, swapped)
                BY <2>9, <3>1, <3>5, HereFields DEF CachedOK, OthersPlaced, Placed
            <3>7. PlacesKnown(t)
                BY <2>9, <3>1, <3>5, HereFields DEF CachedOK, PlacesKnown, KnowsPlace
            <3>8. FreedGiven(t, swapped) /\ HarmOK(t.outcome, swapped)
                BY <2>9, <3>1, HereFields DEF CachedOK, FreedGiven
            <3> QED BY <3>3, <3>4, <3>6, <3>7, <3>8 DEF CachedOK
        <2>15. Sound(Here)'
            BY <1>2, <2>1, <2>9, <2>12, <2>13, <2>14, BecomeSound DEF Safe
        <2> QED BY <2>1, <2>3, <2>15 DEF CacheInv, HistoryOK
    <1> QED BY <1>1, <1>2

\* Lemma: HasOne() shares the block of the entry.
LEMMA HasOneSound ==
    ASSUME CacheInv, NEW h \in Handles, NEW key \in Keys, HasOne(h, key)
    PROVE  CacheInv'
    <1>1. CASE ~(cached /\ Matches(key) # {})
        BY <1>1, FirstSound DEF HasOne
    <1>2. CASE cached /\ Matches(key) # {}
        <2> DEFINE i == Next0(Matches(key))
                   r == [Empty EXCEPT !.sh = entries[i]]
                   t == [Here EXCEPT !.handles[h] = r]
        <2>1. /\ handles[h] = Empty /\ Become([Here EXCEPT !.handles[h].sh = entries[i]])
              /\ UNCHANGED <<cached, clock, swapped>> /\ Sound(Here) /\ HistoryOK
            BY <1>2 DEF HasOne, CacheInv
        <2>2. i \in Matches(key)
            <3>1. Matches(key) \subseteq Nat
                BY <2>1, HeldIsBlock, HereFields DEF Matches, Sound, Safe
            <3> QED BY <1>2, <3>1, FirstMatch
        <2> HIDE DEF i
        <2>3. i \in DOMAIN Here.entries
            BY <2>2, HereFields DEF Matches
        <2>4. entries[i] \in Blocks /\ Live(Here, entries[i])
            BY <2>1, <2>3, HeldIsBlock, ObjOfUsed, HereFields DEF Sound, Safe
        <2>5. r \in HandleSet /\ r.sh = entries[i] /\ r.temp = None
            BY <2>4 DEF Empty, HandleSet
        <2>6. [Here EXCEPT !.handles[h].sh = entries[i]] = t
            BY <2>1 DEF Here
        <2> HIDE DEF r
        <2>7. Safe(t) /\ CachedOK(t, swapped)
            BY <1>2, <2>1, <2>4, <2>5, HandleSound DEF Holdable
        <2> HIDE DEF t
        <2>8. Sound(Here)'
            BY <1>2, <2>1, <2>6, <2>7, BecomeSound
        <2> QED BY <2>1, <2>8 DEF CacheInv, HistoryOK
    <1> QED BY <1>1, <1>2

\* Lemma: the entries have their index already: Squeeze() changes nothing.
LEMMA SqueezeSound ==
    ASSUME CacheInv, Squeeze
    PROVE  CacheInv'
    <1> DEFINE own(o) == {i \in DOMAIN entries : Held(i) = o}
               f(o) == IF own(o) = {} THEN objects[o]
                       ELSE [objects[o] EXCEPT !.index = SqueezedIndex(Next0(own(o)))]
               objects2 == [o \in Objects |-> f(o)]
    <1>1. objects \in [Objects -> ObjectSet] /\ Sound(Here) /\ DOMAIN entries \subseteq Nat
        BY HereFields, HeldIsBlock DEF CacheInv, Sound, Safe, Frames
    <1>2. ASSUME NEW o \in Objects, own(o) # {}
          PROVE  SqueezedIndex(Next0(own(o))) = objects[o].index
        <2>1. own(o) \subseteq Nat
            BY <1>1
        <2> DEFINE i == Next0(own(o))
        <2>2. i \in own(o)
            BY <1>2, <2>1, FirstMatch
        <2>3. i \in DOMAIN Here.entries /\ EntryObj(Here, i) = o
            BY <2>2, HereFields DEF EntryObj, Held
        <2> HIDE DEF own, i
        <2>4. objects[o].index = i - 1
            BY <1>1, <2>3, HereFields DEF Sound, Safe, EntriesOK
        <2> QED BY <2>4 DEF SqueezedIndex, i
    <1>3. ASSUME NEW o \in Objects PROVE f(o) = objects[o]
        <2>1. CASE own(o) = {}
            BY <2>1
        <2>2. CASE own(o) # {}
            <3>1. SqueezedIndex(Next0(own(o))) = objects[o].index
                BY <1>2, <2>2
            <3>2. objects[o] \in ObjectSet
                BY <1>1
            <3>3. [objects[o] EXCEPT !.index = objects[o].index] = objects[o]
                BY <3>2 DEF ObjectSet
            <3> HIDE DEF own
            <3> QED BY <2>2, <3>1, <3>3
        <2> QED BY <2>1, <2>2
    <1> HIDE DEF f
    <1>4. objects2 = objects
        BY <1>1, <1>3
    <1>5. [Here EXCEPT !.objects = objects2] = Here
        <2> HIDE DEF objects2
        <2> QED BY <1>4 DEF Here
    <1>6. OnHandles([Here EXCEPT !.objects = objects2])
        BY DEF Squeeze, f
    <1> HIDE DEF objects2
    <1> QED BY <1>1, <1>5, <1>6, OntoSound

-----------------------------------------------------------------------------
(* The theorems.                                                             *)

\* Lemma: a new process is sound.
LEMMA InitSound ==
    ASSUME Init
    PROVE  CacheInv
    <1>1. Cardinality(Keys) \in Nat
        BY CacheAssumption, FS_CardinalityType DEF CacheAssumption
    <1>2. Unmade \in ObjectSet /\ Unmade.state = "unmade"
        <2>1. -1 \in -1 .. Cardinality(Keys) - 1 /\ 0 \in 0 .. MaxClock
            BY <1>1, CacheAssumption DEF CacheAssumption
        <2> QED BY <2>1 DEF Unmade, ObjectSet
    <1>3. Empty \in HandleSet /\ Empty.sh = None /\ Empty.temp = None
        BY DEF Empty, HandleSet
    <1>4. entries \in Seq(Blocks) /\ Len(entries) = 0 /\ DOMAIN entries = {}
        BY EmptySeq, LenProperties DEF Init
    <1>5. Here \in Frames
        <2>1. objects \in [Objects -> ObjectSet] /\ handles \in [Handles -> HandleSet]
            BY <1>2, <1>3 DEF Init
        <2>2. blocks \in [Blocks -> BlockSet] /\ outcome \in Outcomes
            BY DEF Init, BlockSet, Outcomes
        <2> QED BY <1>4, <2>1, <2>2 DEF Here, Frames
    <1>6. \A b \in Blocks : blocks[b].kind = "unused" /\ blocks[b].obj = None
        BY DEF Init
    <1>7. DOMAIN Here.entries = {}
        BY <1>4, HereFields
    <1>8. \A b \in Blocks : ~IsHeld(Here, b)
        BY <1>3, <1>4, HereFields DEF IsHeld, Init, Blocks, None
    <1>9. BlocksOK(Here)
        BY <1>6, <1>8, HereFields DEF BlocksOK
    <1>10. EntriesOK(Here)
        BY <1>1, <1>4, <1>7, HereFields DEF EntriesOK
    <1>11. UncachedOK(Here, {})
        BY <1>2, <1>6, HereFields DEF UncachedOK, Init
    <1>12. CachedOK(Here, swapped)
        <2>1. \A o \in Objects : objects[o].state = "unmade"
            BY <1>2 DEF Init
        <2>2. outcome = "running"
            BY DEF Init
        <2> QED BY <1>6, <2>1, <2>2, HereFields
                DEF CachedOK, OwnersDiffer, OwnersLive, OthersPlaced, PlacesKnown, FreedGiven,
                    HarmOK
    <1>13. HistoryOK
        BY CacheAssumption DEF CacheAssumption, HistoryOK, Init
    <1> QED BY <1>5, <1>9, <1>10, <1>11, <1>12, <1>13 DEF CacheInv, Sound, Safe

\* Lemma: every step keeps the invariant.
LEMMA StepSound ==
    ASSUME CacheInv, [Next]_vars
    PROVE  CacheInv'
    <1>1. ASSUME NEW h \in Handles, NEW key \in Keys, Create(h, key, 0) PROVE CacheInv'
        <2>1. 0 \in 0 .. MaxClock
            BY CacheAssumption DEF CacheAssumption
        <2> QED BY <1>1, <2>1, CreateSound
    <1>2. ASSUME NEW h \in Handles, NEW key \in Keys, HasOne(h, key) PROVE CacheInv'
        BY <1>2, HasOneSound
    <1>3. ASSUME NEW h \in Handles, NEW key \in Keys \cup {NoKey}, First(h, key) PROVE CacheInv'
        BY <1>3, FirstSound
    <1>4. ASSUME NEW h \in Handles, NEW g \in Handles, Copy(h, g) \/ Assign(h, g) PROVE CacheInv'
        BY <1>4, CopySound, AssignSound
    <1>5. ASSUME NEW h \in Handles, Reset(h) \/ Drop(h) \/ Flush(h) \/ DeleteLater(h)
          PROVE  CacheInv'
        BY <1>5, ResetSound, FlushSound, DeleteLaterSound
    <1>6. CASE Squeeze
        BY <1>6, SqueezeSound
    <1>7. CASE Tick \/ UNCHANGED vars
        <2>1. /\ UNCHANGED <<cached, objects, blocks, entries, handles, swapped, outcome>>
              /\ clock' = clock \/ (clock < MaxClock /\ clock' = clock + 1)
            BY <1>7 DEF Tick, vars
        <2>2. Become(Here)
            BY <2>1, HereFields DEF Become
        <2>3. Sound(Here)'
            BY <2>1, <2>2, BecomeSound DEF CacheInv, Sound
        <2> QED BY <2>1, <2>3, CacheAssumption DEF CacheAssumption, CacheInv, HistoryOK
    <1> QED BY <1>1, <1>2, <1>3, <1>4, <1>5, <1>6, <1>7 DEF Next

\* The invariant of objects, blocks, entries and handles holds for any handles,
\* keys and bounds.
THEOREM CacheInvHolds == Spec => []CacheInv
    <1>1. Init => CacheInv
        BY InitSound
    <1>2. CacheInv /\ [Next]_vars => CacheInv'
        BY StepSound
    <1> QED BY <1>1, <1>2, PTL DEF Spec

\* The types, and that there are never more entries than keys.
THEOREM CacheTyped == Spec => []TypeOK
    <1>1. CacheInv => TypeOK
        BY HereFields
           DEF CacheInv, HistoryOK, Sound, Safe, Frames, ObjectSet, BlockSet, HandleSet, TypeOK
    <1> QED BY <1>1, CacheInvHolds, PTL

\* The cache never refers to an object that was freed, whatever a program did
\* with its handles: only the block of an entry frees the object of the entry.
THEOREM CacheEntriesLive == Spec => []EntriesLive
    <1>1. CacheInv => EntriesLive
        BY HereFields DEF CacheInv, Sound, Safe, EntriesOK, EntriesLive, EntryObj, Held
    <1> QED BY <1>1, CacheInvHolds, PTL

\* An entry is the only one of its key, and every living object of the key,
\* those whose entry was given away too, knows where it is.
THEOREM CacheEntriesKeyed == Spec => []EntriesKeyed
    <1>1. CacheInv => EntriesKeyed
        <2> SUFFICES ASSUME CacheInv, cached PROVE EntriesKeyed
            BY DEF EntriesKeyed
        <2>1. EntriesOK(Here) /\ PlacesKnown(Here)
            BY DEF CacheInv, Sound, Safe, CachedOK
        <2>2. \A i, j \in DOMAIN entries : KeyAt(i) = KeyAt(j) => i = j
            BY <2>1, HereFields DEF EntriesOK, EntryObj, KeyAt, Held
        <2>3. \A o \in Objects : objects[o].state = "live" =>
                 \E i \in DOMAIN entries : objects[o].index = i - 1 /\ KeyAt(i) = objects[o].key
            BY <2>1, HereFields DEF PlacesKnown, KnowsPlace, EntryObj, KeyAt, Held
        <2> QED BY <2>2, <2>3 DEF EntriesKeyed
    <1> QED BY <1>1, CacheInvHolds, PTL

\* Only a newer object of its key takes an object out of the cache: neither a
\* deletion nor the last handle nor squeeze() does.
THEOREM CachedUntilSwappedHolds == Spec => []CachedUntilSwapped
    <1>1. CacheInv => CachedUntilSwapped
        <2> SUFFICES ASSUME CacheInv, cached, NEW o \in Objects \ swapped,
                            objects[o].state # "unmade"
                     PROVE  /\ objects[o].state = "live"
                            /\ \E i \in DOMAIN entries : objects[o].index = i - 1 /\ Held(i) = o
            BY DEF CachedUntilSwapped
        <2>1. EntriesOK(Here) /\ OthersPlaced(Here, swapped)
            BY DEF CacheInv, Sound, Safe, CachedOK
        <2>2. PICK i \in DOMAIN entries : EntryObj(Here, i) = o
            BY <2>1, HereFields DEF OthersPlaced, Placed
        <2>3. objects[o].state = "live" /\ objects[o].index = i - 1
            BY <2>1, <2>2, HereFields DEF EntriesOK
        <2>4. Held(i) = o
            BY <2>2, HereFields DEF EntryObj, Held
        <2> QED BY <2>2, <2>3, <2>4
    <1> QED BY <1>1, CacheInvHolds, PTL

\* A handle dangles only if the object it refers to was given away, nothing is
\* freed twice, and freed memory is read only after such a gift.
THEOREM HarmNeedsSwapHolds == Spec => []HarmNeedsSwap
    <1>1. CacheInv => HarmNeedsSwap
        <2> SUFFICES ASSUME CacheInv PROVE HarmNeedsSwap
            OBVIOUS
        <2>1. \A h \in Handles : Dangles(h) => Object(h) \in swapped
            BY DanglesGiven DEF CacheInv
        <2>2. HarmOK(outcome, swapped)
            BY HereFields DEF CacheInv, HistoryOK, Sound, UncachedOK, CachedOK, HarmOK
        <2> QED BY <2>1, <2>2 DEF HarmNeedsSwap, HarmOK
    <1> QED BY <1>1, CacheInvHolds, PTL

\* Without the cache an object lives exactly as long as a handle refers to it.
THEOREM UncachedMeansOwnedHolds == Spec => []UncachedMeansOwned
    <1>1. CacheInv => UncachedMeansOwned
        <2> SUFFICES ASSUME CacheInv, ~cached PROVE UncachedMeansOwned
            BY DEF UncachedMeansOwned
        <2>1. UncachedOK(Here, {}) /\ Safe(Here)
            BY DEF CacheInv, Sound
        <2>2. outcome = "running"
            BY <2>1, HereFields DEF UncachedOK
        <2>3. ASSUME NEW o \in Objects, objects[o].state = "live"
              PROVE  \E b \in Blocks : blocks[b].obj = o /\ IsHeld(Here, b)
            <3>1. PICK b \in Blocks : blocks[b].obj = o /\ blocks[b].kind = "raw"
                BY <2>1, <2>3, HereFields DEF UncachedOK
            <3> QED BY <2>1, <3>1, HereFields DEF UncachedOK
        <2>4. ASSUME NEW o \in Objects, NEW b \in Blocks, blocks[b].obj = o, IsHeld(Here, b)
              PROVE  objects[o].state = "live"
            <3>1. blocks[b].kind = "raw"
                BY <2>1, <2>4, HereFields DEF Safe, BlocksOK, Live, UncachedOK
            <3> QED BY <2>1, <2>4, <3>1, HereFields DEF UncachedOK
        <2> QED BY <2>2, <2>3, <2>4 DEF UncachedMeansOwned
    <1> QED BY <1>1, CacheInvHolds, PTL
=============================================================================
