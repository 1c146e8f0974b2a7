-------------------------- MODULE FileCacheProofs --------------------------
(***************************************************************************)
(* Theorems about FileCache for every tree of files, every set of contents *)
(* and every size of the cache.                                            *)
(***************************************************************************)
EXTENDS FileCache, FiniteSetTheorems, TLAPS

USE TreeAssumption, FilesAssumption, ContentAssumption

-----------------------------------------------------------------------------
(* Operators *)

\* recursive_add() adds only directories and files of the tree.
LEMMA AddTyped ==
  ASSUME TypeOK, NEW d \in Dirs, RecursiveAdd(d)
  PROVE  dirs' \subseteq Dirs /\ watched' \subseteq Files /\ armed' \subseteq Files
  <1>1. NewFiles(d) \subseteq Files
    BY DEF NewFiles, FilesBelow
  <1>2. DirsAfter(d) \subseteq Dirs
    BY Zenon DEF DirsAfter
  <1>3. watched \subseteq Files /\ armed \subseteq Files
    BY DEF TypeOK
  <1> QED
    BY <1>1, <1>2, <1>3 DEF RecursiveAdd

\* deleteLater() marks the objects of some paths and touches nothing else.
LEMMA DyingTyped ==
  ASSUME TypeOK, NEW S
  PROVE  Dying(S) \in [Files -> Cached \cup {NotCached}]
  <1>1. ASSUME NEW f \in Files
        PROVE  (IF f \in S /\ cache[f] # NotCached THEN [cache[f] EXCEPT !.dying = TRUE]
                ELSE cache[f]) \in Cached \cup {NotCached}
    <2>1. cache[f] \in Cached \cup {NotCached}
      BY DEF TypeOK
    <2>2. ASSUME cache[f] \in Cached
          PROVE  [cache[f] EXCEPT !.dying = TRUE] \in Cached
      BY <2>2 DEF Cached
    <2> QED
      BY <2>1, <2>2
  <1> QED
    BY <1>1 DEF Dying

LEMMA DyingMarks ==
  ASSUME TypeOK, NEW S, NEW f \in Files
  PROVE  /\ Dying(S)[f] = NotCached <=> cache[f] = NotCached
         /\ f \in S /\ cache[f] # NotCached => Dying(S)[f].dying
         /\ cache[f] # NotCached /\ ~Dying(S)[f].dying => Dying(S)[f] = cache[f]
  <1>1. Dying(S)[f] = IF f \in S /\ cache[f] # NotCached
                      THEN [cache[f] EXCEPT !.dying = TRUE] ELSE cache[f]
    BY DEF Dying
  <1>2. CASE cache[f] = NotCached
    BY <1>1, <1>2
  <1>3. CASE cache[f] # NotCached
    <2>1. cache[f] \in Cached
      BY <1>3 DEF TypeOK
    <2>2. [cache[f] EXCEPT !.dying = TRUE] \in Cached
      BY <2>1 DEF Cached
    <2>3. [cache[f] EXCEPT !.dying = TRUE].dying = TRUE
      BY <2>1 DEF Cached
    <2> QED
      BY <1>1, <1>3, <2>2, <2>3
  <1> QED
    BY <1>2, <1>3

\* The eviction callback reaches the object of the changed file.
LEMMA EvictedOwn ==
  ASSUME NEW f \in Files, cache[f] # NotCached, NEW S \in Evicted(f)
  PROVE  f \in S
  BY DEF Evicted

-----------------------------------------------------------------------------
(* Type correctness *)

\* Other programs change files: the disk, the kernel's watches and what they
\* notify keep their types.
LEMMA OutsideTyped ==
  ASSUME TypeOK, Outside
  PROVE  TypeOK'
  <1> PICK f \in Mutable :
        /\ \/ \E v \in Content : Modify(f, v) \/ Replace(f, v) \/ Create(f, v)
           \/ Remove(f)
        /\ UNCHANGED <<watchVars, cache, req>>
    BY DEF Outside
  <1> f \in Files
    OBVIOUS
  <1>1. /\ disk' \in [Files -> Content \cup {Absent}]
        /\ armed' \subseteq Files
        /\ pendFile' \in [Files -> {"none", "changed", "removed"}]
        /\ pendDir' \subseteq Dirs
    <2>1. CASE \E v \in Content : Modify(f, v)
      BY <2>1 DEF TypeOK, Modify, Tell
    <2>2. CASE \E v \in Content : Replace(f, v)
      BY <2>2 DEF TypeOK, Replace, Unlink, Tell
    <2>3. CASE \E v \in Content : Create(f, v)
      BY <2>3 DEF TypeOK, Create, Tell
    <2>4. CASE Remove(f)
      BY <2>4 DEF TypeOK, Remove, Unlink, Tell
    <2> QED
      BY <2>1, <2>2, <2>3, <2>4
  <1> QED
    BY <1>1 DEF TypeOK, watchVars

\* A request in hand keeps its type.
LEMMA RequestTyped ==
  ASSUME TypeOK, Handle
  PROVE  TypeOK'
  <1> DEFINE Reqs == [phase : {"idle", "load", "opened"}, path : Files,
                      fallback : BOOLEAN, got : Content \cup {Absent}]
  <1>0. Idle \in Reqs /\ req \in Reqs
    BY DEF Idle, Errors, TypeOK
  <1>1. CASE Hit
    BY <1>0, <1>1 DEF TypeOK, Hit, Answered, diskVars, watchVars
  <1>2. CASE NotFound
    <2>1. req' \in Reqs
      BY <1>0, <1>2 DEF NotFound, Caught, Answered, Errors
    <2> QED
      BY <1>2, <2>1 DEF TypeOK, NotFound, diskVars, watchVars
  <1>3. CASE OpenFails
    <2>1. req' \in Reqs
      BY <1>0, <1>3 DEF OpenFails, Caught, Answered, HandleError, Errors
    <2> QED
      BY <1>3, <2>1 DEF TypeOK, OpenFails, diskVars, watchVars
  <1>4. CASE Open
    <2>1. disk[req.path] \in Content \cup {Absent}
      BY <1>0 DEF TypeOK
    <2>2. req' \in Reqs
      BY <1>0, <1>4, <2>1 DEF Open
    <2> QED
      BY <1>4, <2>2 DEF TypeOK, Open, diskVars, watchVars
  <1>5. CASE Stream
    BY <1>0, <1>5 DEF TypeOK, Stream, Answered, diskVars, watchVars
  <1>6. CASE Read
    <2>1. PICK v \in Small :
            cache' = [cache EXCEPT ![req.path] = [data |-> v, dying |-> FALSE]]
      BY <1>6 DEF Read
    <2>2. [data |-> v, dying |-> FALSE] \in Cached
      BY DEF Cached
    <2>3. cache' \in [Files -> Cached \cup {NotCached}]
      BY <1>0, <2>1, <2>2 DEF TypeOK
    <2> QED
      BY <1>0, <1>6, <2>3 DEF TypeOK, Read, Answered, diskVars, watchVars
  <1> QED
    BY <1>1, <1>2, <1>3, <1>4, <1>5, <1>6 DEF Handle

LEMMA InitTyped == Init => TypeOK
  <1> SUFFICES ASSUME Init PROVE TypeOK
    OBVIOUS
  <1>1. Idle \in [phase : {"idle", "load", "opened"}, path : Files,
                  fallback : BOOLEAN, got : Content \cup {Absent}]
    BY DEF Idle, Errors
  <1> QED
    BY <1>1 DEF Init, TypeOK

LEMMA NextTyped ==
  ASSUME TypeOK, [Next]_vars
  PROVE  TypeOK'
  <1>1. CASE Outside
    BY <1>1, OutsideTyped
  <1>2. ASSUME NEW f \in Files, FileChanged(f)
        PROVE  TypeOK'
    BY <1>2, DyingTyped DEF TypeOK, FileChanged
  <1>3. ASSUME NEW f \in Files, TimerFires(f)
        PROVE  TypeOK'
    BY <1>3, DyingTyped DEF TypeOK, TimerFires, diskVars, watchVars
  <1>4. ASSUME NEW f \in Files, DeferredDelete(f)
        PROVE  TypeOK'
    BY <1>4 DEF TypeOK, DeferredDelete, Deleted, diskVars, watchVars
  <1>5. ASSUME NEW d \in Dirs, DirectoryChanged(d)
        PROVE  TypeOK'
    <2>1. dirs' \subseteq Dirs /\ watched' \subseteq Files /\ armed' \subseteq Files
      BY <1>5, AddTyped DEF DirectoryChanged
    <2> QED
      BY <1>5, <2>1 DEF TypeOK, DirectoryChanged
  <1>6. ASSUME NEW f \in Files, Request(f)
        PROVE  TypeOK'
    <2>1. dirs' \subseteq Dirs /\ watched' \subseteq Files /\ armed' \subseteq Files
      BY <1>6, AddTyped DEF Request, TypeOK
    <2>2. req' \in [phase : {"idle", "load", "opened"}, path : Files,
                    fallback : BOOLEAN, got : Content \cup {Absent}]
      BY <1>6 DEF Request, Idle
    <2> QED
      BY <1>6, <2>1, <2>2 DEF TypeOK, Request
  <1>7. CASE Handle
    BY <1>7, RequestTyped
  <1>8. CASE UNCHANGED vars
    BY <1>8 DEF TypeOK, vars, diskVars, watchVars
  <1> QED
    BY <1>1, <1>2, <1>3, <1>4, <1>5, <1>6, <1>7, <1>8 DEF Next

\* Every reachable state of the cache, the watcher and urlHandler() is well typed.
THEOREM FilesTypeCorrect == Spec => []TypeOK
  <1>1. TypeOK /\ [Next]_vars => TypeOK'
    BY NextTyped
  <1> QED
    BY InitTyped, <1>1, PTL DEF Spec

-----------------------------------------------------------------------------
(* What is cached is on disk *)

\* The kernel watches the file, or has said that its inode is gone.
Followed(f) == f \in armed \/ pendFile[f] = "removed"

\* v is on disk at f, or a notification says that it may not be.
Fresh(f, v) == v # disk[f] => pendFile[f] # "none"

WatchInv == \A f \in watched : Followed(f)

CopyInv ==
  \A f \in Files :
    cache[f] # NotCached /\ ~cache[f].dying
      => Followed(f) /\ Fresh(f, cache[f].data)

OpenInv ==
  req.phase = "opened" =>
    /\ cache[req.path] = NotCached
    /\ req.path \in watched
    /\ req.got \in Content
    /\ Fresh(req.path, req.got)

CopiesInv == TypeOK /\ WatchInv /\ CopyInv /\ OpenInv

\* Whatever is done to a file that is followed, a content that was fresh stays so.
LEMMA OutsideFollows ==
  ASSUME TypeOK, Outside, NEW g \in Files, Followed(g)
  PROVE  Followed(g)' /\ \A v \in Content : Fresh(g, v) => Fresh(g, v)'
  <1> PICK f \in Mutable :
        /\ \/ \E v \in Content : Modify(f, v) \/ Replace(f, v) \/ Create(f, v)
           \/ Remove(f)
        /\ UNCHANGED <<watchVars, cache, req>>
    BY DEF Outside
  <1> f \in Files
    OBVIOUS
  <1>1. CASE \E v \in Content : Modify(f, v)
    BY <1>1 DEF TypeOK, Modify, Followed, Fresh
  <1>2. CASE \E v \in Content : Replace(f, v)
    BY <1>2 DEF TypeOK, Replace, Unlink, Followed, Fresh
  <1>3. CASE \E v \in Content : Create(f, v)
    BY <1>3 DEF TypeOK, Create, Followed, Fresh
  <1>4. CASE Remove(f)
    BY <1>4 DEF TypeOK, Remove, Unlink, Followed, Fresh
  <1> QED
    BY <1>1, <1>2, <1>3, <1>4

LEMMA OutsideCopies ==
  ASSUME CopiesInv, Outside
  PROVE  WatchInv' /\ CopyInv' /\ OpenInv'
  <1> TypeOK
    BY DEF CopiesInv
  <1>1. UNCHANGED <<watched, cache, req>>
    BY DEF Outside, watchVars
  <1>2. WatchInv'
    BY <1>1, OutsideFollows DEF CopiesInv, WatchInv, TypeOK
  <1>3. CopyInv'
    <2> SUFFICES ASSUME NEW g \in Files, cache[g] # NotCached, ~cache[g].dying
                 PROVE  Followed(g)' /\ Fresh(g, cache[g].data)'
      BY <1>1 DEF CopyInv
    <2>1. Followed(g) /\ Fresh(g, cache[g].data)
      BY DEF CopiesInv, CopyInv
    <2>2. cache[g].data \in Content
      BY DEF TypeOK, Cached, Content
    <2>3. \A v \in Content : Fresh(g, v) => Fresh(g, v)'
      BY <2>1, OutsideFollows
    <2> QED
      BY <1>1, <2>1, <2>2, <2>3, OutsideFollows DEF Fresh
  <1>4. OpenInv'
    BY <1>1, OutsideFollows DEF CopiesInv, OpenInv, WatchInv, Fresh, TypeOK
  <1> QED
    BY <1>2, <1>3, <1>4

\* recursive_add() follows what it adds and drops nothing.
LEMMA AddFollows ==
  ASSUME WatchInv, NEW d \in Dirs, RecursiveAdd(d), UNCHANGED pendFile
  PROVE  WatchInv' /\ \A f \in Files : Followed(f) => Followed(f)'
  BY DEF WatchInv, RecursiveAdd, Followed

\* The copies of a state in which only some objects were marked, or nothing.
LEMMA MarkedCopies ==
  ASSUME TypeOK, CopyInv, NEW S, cache' = Dying(S), UNCHANGED <<disk, armed>>,
         \A f \in Files : f \in S \/ pendFile'[f] = pendFile[f]
  PROVE  CopyInv'
  <1> SUFFICES ASSUME NEW f \in Files, cache'[f] # NotCached, ~cache'[f].dying
               PROVE  Followed(f)' /\ Fresh(f, cache[f].data)'
    BY DEF CopyInv, Fresh
  <1>1. cache[f] # NotCached /\ f \notin S /\ cache'[f] = cache[f]
    BY DyingMarks
  <1>2. pendFile'[f] = pendFile[f]
    BY <1>1
  <1> QED
    BY <1>1, <1>2 DEF CopyInv, Followed, Fresh

\* fileChanged: a file that stays watched is one whose inode is still there.
LEMMA FileChangedCopies ==
  ASSUME CopiesInv, NEW f \in Files, FileChanged(f)
  PROVE  WatchInv' /\ CopyInv' /\ OpenInv'
  <1> TypeOK /\ WatchInv /\ CopyInv
    BY DEF CopiesInv
  <1>1. WatchInv'
    BY DEF TypeOK, WatchInv, FileChanged, Followed
  <1>2. PICK S \in Evicted(f) : cache' = Dying(S)
    BY DEF FileChanged
  <1>3. CopyInv'
    <2>1. CASE cache[f] # NotCached
      <3>1. f \in S
        BY <1>2, <2>1, EvictedOwn
      <3>2. \A g \in Files : g \in S \/ pendFile'[g] = pendFile[g]
        BY <3>1 DEF FileChanged, TypeOK
      <3>3. UNCHANGED <<disk, armed>>
        BY DEF FileChanged
      <3> QED
        BY <1>2, <3>2, <3>3, MarkedCopies
    <2>2. CASE cache[f] = NotCached
      <3> SUFFICES ASSUME NEW g \in Files, cache'[g] # NotCached, ~cache'[g].dying
                   PROVE  Followed(g)' /\ Fresh(g, cache[g].data)'
        BY DEF CopyInv, Fresh
      <3>1. cache[g] # NotCached /\ cache'[g] = cache[g]
        BY <1>2, DyingMarks
      <3>2. pendFile'[g] = pendFile[g]
        BY <2>2, <3>1 DEF FileChanged, TypeOK
      <3> QED
        BY <3>1, <3>2 DEF CopyInv, Followed, Fresh, FileChanged
    <2> QED
      BY <2>1, <2>2
  <1>4. OpenInv'
    BY DEF FileChanged, OpenInv, Idle
  <1> QED
    BY <1>1, <1>3, <1>4

\* urlHandler() turns to an error page without having opened it.
LEMMA PageIsLoaded ==
  ASSUME TypeOK, NEW p, NEW b
  PROVE  /\ [req EXCEPT !.path = p, !.fallback = b].phase = req.phase
         /\ [req EXCEPT !.phase = "load", !.path = p].phase = "load"
  <1>1. /\ "phase" \in DOMAIN req
        /\ "phase" # "path" /\ "phase" # "fallback"
    BY DEF TypeOK
  <1> QED
    BY <1>1, Zenon

\* urlHandler() makes a copy only of an open file, and the open file is followed.
LEMMA HandleCopies ==
  ASSUME CopiesInv, Handle
  PROVE  WatchInv' /\ CopyInv' /\ OpenInv'
  <1> TypeOK /\ WatchInv /\ CopyInv /\ OpenInv
    BY DEF CopiesInv
  <1>0. UNCHANGED <<diskVars, watchVars>>
    BY DEF Handle, Hit, NotFound, OpenFails, Open, Stream, Read
  <1>1. WatchInv'
    BY <1>0 DEF WatchInv, Followed, diskVars, watchVars
  <1>2. CASE Hit \/ NotFound \/ OpenFails \/ Stream
    <2>1. UNCHANGED cache
      BY <1>2 DEF Hit, NotFound, OpenFails, Stream
    <2>2. CopyInv'
      BY <1>0, <2>1 DEF CopyInv, Followed, Fresh, diskVars
    <2>3. req'.phase # "opened"
      <3>1. CASE Hit
        BY <3>1 DEF Hit, Answered, Idle
      <3>2. CASE NotFound
        <4>1. req' = Idle \/ req' = [req EXCEPT !.path = Error404, !.fallback = TRUE]
          BY <3>2 DEF NotFound, Caught, Answered
        <4>2. req.phase = "load"
          BY <3>2 DEF NotFound
        <4>3. CASE req' = Idle
          BY <4>3 DEF Idle
        <4>4. CASE req' = [req EXCEPT !.path = Error404, !.fallback = TRUE]
          <5>1. req'.phase = req.phase
            BY <4>4, PageIsLoaded, Zenon
          <5> QED
            BY <4>2, <5>1
        <4> QED
          BY <4>1, <4>3, <4>4
      <3>3. CASE OpenFails
        <4>1. req' = Idle \/ \E page : HandleError(page)
          BY <3>3 DEF OpenFails, Caught, Answered
        <4>2. CASE req' = Idle
          BY <4>2 DEF Idle
        <4>3. ASSUME NEW page, HandleError(page)
              PROVE  req'.phase = "load"
          <5>1. req' = [req EXCEPT !.phase = "load", !.path = page]
            BY <4>3 DEF HandleError
          <5> QED
            BY <5>1, PageIsLoaded, Zenon
        <4> QED
          BY <4>1, <4>2, <4>3
      <3>4. CASE Stream
        BY <3>4 DEF Stream, Answered, Idle
      <3> QED
        BY <1>2, <3>1, <3>2, <3>3, <3>4
    <2> QED
      BY <1>1, <2>2, <2>3 DEF OpenInv
  <1>3. CASE Open
    <2>1. CopyInv'
      BY <1>0, <1>3 DEF Open, CopyInv, Followed, Fresh, diskVars
    <2>2. req'.path = req.path /\ req'.got = disk[req.path] /\ req.path \in Files
      BY <1>3 DEF Open, TypeOK
    <2>3. disk[req.path] \in Content
      BY <1>3, <2>2 DEF Open, Readable, TypeOK
    <2>4. OpenInv'
      BY <1>0, <1>3, <2>2, <2>3 DEF Open, OpenInv, Fresh, diskVars, watchVars
    <2> QED
      BY <1>1, <2>1, <2>4
  <1>4. CASE Read
    <2>1. PICK v \in (Contents \cap Small) :
            cache' = [cache EXCEPT ![req.path] = [data |-> v, dying |-> FALSE]]
      BY <1>4 DEF Read
    <2>2. Followed(req.path) /\ Fresh(req.path, v)
      BY <1>4, <2>1 DEF Read, OpenInv, WatchInv, Contents, Fresh
    <2>3. CopyInv'
      <3> SUFFICES ASSUME NEW g \in Files, cache'[g] # NotCached, ~cache'[g].dying
                   PROVE  Followed(g)' /\ Fresh(g, cache[g].data)'
        BY DEF CopyInv, Fresh
      <3>1. CASE g = req.path
        <4>1. cache'[g] = [data |-> v, dying |-> FALSE]
          BY <2>1, <3>1 DEF TypeOK
        <4> QED
          BY <1>0, <2>2, <3>1, <4>1 DEF Followed, Fresh, diskVars
      <3>2. CASE g # req.path
        <4>1. cache'[g] = cache[g]
          BY <2>1, <3>2 DEF TypeOK
        <4> QED
          BY <1>0, <3>2, <4>1 DEF CopyInv, Followed, Fresh, diskVars
      <3> QED
        BY <3>1, <3>2
    <2>4. OpenInv'
      BY <1>4 DEF Read, Answered, Idle, OpenInv
    <2> QED
      BY <1>1, <2>3, <2>4
  <1> QED
    BY <1>2, <1>3, <1>4 DEF Handle

LEMMA InitCopies == Init => CopiesInv
  BY InitTyped DEF Init, Idle, CopiesInv, WatchInv, CopyInv, OpenInv

LEMMA NextCopies ==
  ASSUME CopiesInv, [Next]_vars
  PROVE  CopiesInv'
  <1> TypeOK /\ WatchInv /\ CopyInv /\ OpenInv
    BY DEF CopiesInv
  <1>0. TypeOK'
    BY NextTyped
  <1>1. CASE Outside
    BY <1>0, <1>1, OutsideCopies DEF CopiesInv
  <1>2. ASSUME NEW f \in Files, FileChanged(f)
        PROVE  CopiesInv'
    BY <1>0, <1>2, FileChangedCopies DEF CopiesInv
  <1>3. ASSUME NEW f \in Files, TimerFires(f)
        PROVE  CopiesInv'
    <2>1. CopyInv'
      BY <1>3, MarkedCopies DEF TimerFires, diskVars
    <2>2. WatchInv' /\ OpenInv'
      BY <1>3 DEF TimerFires, diskVars, watchVars, WatchInv, OpenInv, Followed, Idle
    <2> QED
      BY <1>0, <2>1, <2>2 DEF CopiesInv
  <1>4. ASSUME NEW f \in Files, DeferredDelete(f)
        PROVE  CopiesInv'
    <2>1. CopyInv'
      BY <1>4 DEF DeferredDelete, Deleted, diskVars, CopyInv, Followed, Fresh, TypeOK
    <2>2. WatchInv' /\ OpenInv'
      BY <1>4 DEF DeferredDelete, diskVars, watchVars, WatchInv, OpenInv, Followed, Idle
    <2> QED
      BY <1>0, <2>1, <2>2 DEF CopiesInv
  <1>5. ASSUME NEW d \in Dirs, DirectoryChanged(d)
        PROVE  CopiesInv'
    <2>1. WatchInv' /\ \A f \in Files : Followed(f) => Followed(f)'
      BY <1>5, AddFollows DEF DirectoryChanged
    <2>2. CopyInv' /\ OpenInv'
      BY <1>5, <2>1 DEF DirectoryChanged, CopyInv, OpenInv, Fresh, Idle
    <2> QED
      BY <1>0, <2>1, <2>2 DEF CopiesInv
  <1>6. ASSUME NEW f \in Files, Request(f)
        PROVE  CopiesInv'
    <2>1. WatchInv' /\ \A g \in Files : Followed(g) => Followed(g)'
      <3>1. CASE started
        BY <1>6, <3>1 DEF Request, WatchInv, Followed
      <3>2. CASE ~started
        <4>1. RecursiveAdd(Root) /\ UNCHANGED pendFile
          BY <1>6, <3>2 DEF Request
        <4> QED
          BY <4>1, AddFollows
      <3> QED
        BY <3>1, <3>2
    <2>2. CopyInv'
      BY <1>6, <2>1 DEF Request, CopyInv, Fresh
    <2>3. OpenInv'
      BY <1>6 DEF Request, OpenInv, Idle
    <2> QED
      BY <1>0, <2>1, <2>2, <2>3 DEF CopiesInv
  <1>7. CASE Handle
    BY <1>0, <1>7, HandleCopies DEF CopiesInv
  <1>8. CASE UNCHANGED vars
    BY <1>0, <1>8 DEF CopiesInv, WatchInv, CopyInv, OpenInv, Followed, Fresh, vars,
                      diskVars, watchVars
  <1> QED
    BY <1>1, <1>2, <1>3, <1>4, <1>5, <1>6, <1>7, <1>8 DEF Next

\* What load_file() has in its cache is what the disk has, or a notification about
\* the file is under way or the copy is about to be deleted: for any tree and any
\* interleaving of changes, notifications and requests.
THEOREM CopiesAreFresh == Spec => []NotStale
  <1>1. CopiesInv /\ [Next]_vars => CopiesInv'
    BY NextCopies
  <1>2. CopiesInv => NotStale
    BY DEF CopiesInv, CopyInv, Fresh, NotStale
  <1> QED
    BY InitCopies, <1>1, <1>2, PTL DEF Spec

-----------------------------------------------------------------------------
(* The size of the cache *)

Held == {f \in Files : cache[f] # NotCached}

LEMMA HeldFinite == IsFiniteSet(Held) /\ Cardinality(Held) \in Nat
  BY FS_Subset, FS_CardinalityType DEF Held

\* A step makes at most one object, and none when the cache is full.
LEMMA HeldGrows ==
  ASSUME TypeOK, [Next]_vars
  PROVE  Held' \subseteq Held \/ (~Full /\ \E f \in Files : Held' \subseteq Held \cup {f})
  <1>1. CASE UNCHANGED cache
    BY <1>1 DEF Held
  <1>2. ASSUME NEW S, cache' = Dying(S)
        PROVE  Held' \subseteq Held
    BY <1>2, DyingMarks DEF Held
  <1>3. ASSUME NEW f \in Files, DeferredDelete(f)
        PROVE  Held' \subseteq Held
    BY <1>3 DEF DeferredDelete, Deleted, TypeOK, Held
  <1>4. CASE Read
    <2>1. req.path \in Files
      BY DEF TypeOK
    <2>2. Held' \subseteq Held \cup {req.path}
      BY <1>4, <2>1 DEF Read, TypeOK, Held
    <2> QED
      BY <1>4, <2>1, <2>2 DEF Read
  <1>5. ASSUME NEW f \in Files, FileChanged(f) \/ TimerFires(f)
        PROVE  Held' \subseteq Held
    BY <1>2, <1>5 DEF FileChanged, TimerFires
  <1>6. CASE Outside \/ Hit \/ NotFound \/ OpenFails \/ Open \/ Stream
    BY <1>1, <1>6 DEF Outside, Hit, NotFound, OpenFails, Open, Stream
  <1>7. ASSUME NEW f \in Files, Request(f)
        PROVE  UNCHANGED cache
    BY <1>7 DEF Request
  <1>8. ASSUME NEW d \in Dirs, DirectoryChanged(d)
        PROVE  UNCHANGED cache
    BY <1>8 DEF DirectoryChanged
  <1>9. CASE UNCHANGED vars
    BY <1>1, <1>9 DEF vars
  <1> QED
    BY <1>1, <1>3, <1>4, <1>5, <1>6, <1>7, <1>8, <1>9 DEF Next, Handle

LEMMA InitBounded == Init => CacheBounded
  <1> SUFFICES ASSUME Init PROVE CacheBounded
    OBVIOUS
  <1>1. Held = {}
    BY DEF Init, Held
  <1>2. Cardinality(Held) = 0
    BY <1>1, FS_EmptySet
  <1> QED
    BY <1>2 DEF CacheBounded, Held

LEMMA NextBounded ==
  ASSUME TypeOK, CacheBounded, [Next]_vars
  PROVE  CacheBounded'
  <1>1. Cardinality(Held) <= MaxFiles + 1
    BY DEF CacheBounded, Held
  <1>2. CASE Held' \subseteq Held
    <2>1. Cardinality(Held') <= Cardinality(Held)
      BY <1>2, HeldFinite, FS_Subset
    <2>2. Cardinality(Held') \in Nat
      BY <1>2, HeldFinite, FS_Subset, FS_CardinalityType
    <2>3. Cardinality(Held') <= MaxFiles + 1
      BY <1>1, <2>1, <2>2, HeldFinite
    <2> QED
      BY <2>3 DEF CacheBounded, Held
  <1>3. ASSUME NEW f \in Files, ~Full, Held' \subseteq Held \cup {f}
        PROVE  CacheBounded'
    <2>1. Cardinality(Held) <= MaxFiles
      BY <1>3, HeldFinite DEF Full, Held
    <2>2. /\ IsFiniteSet(Held \cup {f})
          /\ Cardinality(Held \cup {f}) \in Nat
          /\ Cardinality(Held \cup {f}) <= Cardinality(Held) + 1
      <3>1. /\ IsFiniteSet(Held \cup {f})
            /\ Cardinality(Held \cup {f})
                 = IF f \in Held THEN Cardinality(Held) ELSE Cardinality(Held) + 1
        BY HeldFinite, FS_AddElement
      <3>2. Cardinality(Held) \in Nat
        BY HeldFinite
      <3> QED
        BY <3>1, <3>2
    <2>3. Cardinality(Held') <= Cardinality(Held \cup {f})
      BY <1>3, <2>2, FS_Subset
    <2>4. Cardinality(Held') \in Nat
      BY <1>3, <2>2, FS_Subset, FS_CardinalityType
    <2>5. Cardinality(Held') <= MaxFiles + 1
      BY <2>1, <2>2, <2>3, <2>4, HeldFinite
    <2> QED
      BY <2>5 DEF CacheBounded, Held
  <1> QED
    BY <1>2, <1>3, HeldGrows

\* load_file() makes at most one object more than FILE_CACHE_MAX_SIZE, whatever the
\* timers and the notifications do.
THEOREM CacheStaysBounded == Spec => []CacheBounded
  <1>1. TypeOK /\ CacheBounded /\ [Next]_vars => TypeOK' /\ CacheBounded'
    BY NextTyped, NextBounded
  <1> QED
    BY InitTyped, InitBounded, <1>1, PTL DEF Spec
=============================================================================
