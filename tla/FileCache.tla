----------------------------- MODULE FileCache -----------------------------
(***************************************************************************)
(* The cache of public files (CacheFiles), the file system watcher that    *)
(* keeps it current, and urlHandler(), which answers a request without a   *)
(* route from it.                                                          *)
(*                                                                         *)
(* One thread answers requests, receives notifications and deletes what    *)
(* was given to deleteLater(); other programs change the files at any      *)
(* time.  A request is answered without returning to the event loop.       *)
(* Release build: one public directory.  Directories do not come and go.   *)
(***************************************************************************)
EXTENDS Naturals, FiniteSets

CONSTANTS
  Dirs,        \* the public directory and those below it
  Root,        \* "/var/www/html"
  Files,       \* the paths of files, whether there is a file or not
  Parent,      \* Parent[x]: the directory of a file or of a directory
  Extending,   \* Extending[f]: the files whose path begins with the path of f
  Mutable,     \* the files that other programs change
  Error403, Error404, Error500,  \* the error pages
  Small,       \* contents that fit into the cache
  Big,         \* a content of more than FILE_MAX_BYTE_CAN_CACHE bytes
  Locked,      \* a file that may not be read
  Absent,      \* no file
  NotCached,   \* no object for the path
  MaxFiles     \* FILE_CACHE_MAX_SIZE

Errors == {Error403, Error404, Error500}
Content == Small \cup {Big, Locked}
Cached == [data : Small, dying : BOOLEAN]

ASSUME TreeAssumption ==
  /\ Root \in Dirs
  /\ Parent \in [(Dirs \ {Root}) \cup Files -> Dirs]
  /\ Extending \in [Files -> SUBSET Files]
  /\ IsFiniteSet(Files)
ASSUME FilesAssumption == Mutable \subseteq Files /\ Errors \subseteq Files
ASSUME ContentAssumption ==
  /\ Big \notin Small /\ Locked \notin Small /\ Big # Locked
  /\ Absent \notin Content
  /\ NotCached \notin Cached
  /\ MaxFiles \in Nat

VARIABLES
  disk,      \* disk[f]: what is at path f
  armed,     \* the files whose present inode the kernel watches
  pendFile,  \* pendFile[f]: the notification about f under way
  pendDir,   \* the directories with a notification under way
  started,   \* watchPublicFolders() has been called
  watched,   \* watcher.files()
  dirs,      \* watcher.directories()
  cache,     \* cache[f]: the object of ::files with that path
  req        \* the request that is being answered

diskVars == <<disk, armed, pendFile, pendDir>>
watchVars == <<started, watched, dirs>>
vars == <<diskVars, watchVars, cache, req>>

-----------------------------------------------------------------------------
(* Trees *)

\* The directories above a directory.
Above[d \in Dirs] == IF d = Root THEN {} ELSE {Parent[d]} \cup Above[Parent[d]]

FilesBelow(d) == {f \in Files : Parent[f] = d \/ d \in Above[Parent[f]]}

Readable(f) == disk[f] \notin {Absent, Locked}

\* recursive_add(): a subdirectory is added only if its parent directory is not
\* watched; the directory itself is not added.  Mutant: isDir() is not asked.
DirsAfterEntries(d) == dirs \cup FilesBelow(d) \cup {c \in Dirs : d \in Above[c]}
DirsAfter(d) ==
  LET in[c \in Dirs] == \/ c \in dirs
                        \/ d \in Above[c] /\ ~in[Parent[c]]
  IN  {c \in Dirs : in[c]}

\* The files recursive_add() adds; the kernel refuses a file it may not read.
NewFiles(d) == {f \in FilesBelow(d) \ watched : Readable(f)}

RecursiveAdd(d) ==
  /\ dirs' = DirsAfter(d)
  /\ watched' = watched \cup NewFiles(d)
  /\ armed' = armed \cup NewFiles(d)

-----------------------------------------------------------------------------
(* Other programs change the files (external: the file system and inotify) *)

\* A change of the entries of a directory.
Tell(d) == pendDir' = pendDir \cup ({d} \cap dirs)

\* The inode at path f goes away, and the kernel's watch with it.
Unlink(f) ==
  /\ armed' = armed \ {f}
  /\ pendFile' = [pendFile EXCEPT ![f] = IF f \in armed THEN "removed" ELSE @]
  /\ Tell(Parent[f])

\* The file is written in place, or its permissions change.
Modify(f, v) ==
  /\ disk[f] \notin {Absent, v}
  /\ disk' = [disk EXCEPT ![f] = v]
  /\ pendFile' = [pendFile EXCEPT
       ![f] = IF f \in armed /\ @ = "none" THEN "changed" ELSE @]
  /\ IF Locked \in {v, disk[f]} THEN Tell(Parent[f]) ELSE UNCHANGED pendDir
  /\ UNCHANGED armed

\* Another file is renamed to the path.
Replace(f, v) ==
  /\ disk[f] # Absent
  /\ disk' = [disk EXCEPT ![f] = v]
  /\ Unlink(f)

Create(f, v) ==
  /\ disk[f] = Absent
  /\ disk' = [disk EXCEPT ![f] = v]
  /\ Tell(Parent[f])
  /\ UNCHANGED <<armed, pendFile>>

Remove(f) ==
  /\ disk[f] # Absent
  /\ disk' = [disk EXCEPT ![f] = Absent]
  /\ Unlink(f)

Outside ==
  \E f \in Mutable :
    /\ \/ \E v \in Content : Modify(f, v) \/ Replace(f, v) \/ Create(f, v)
       \/ Remove(f)
    /\ UNCHANGED <<watchVars, cache, req>>

-----------------------------------------------------------------------------
(* The event loop: notifications, the timer, deferred deletion *)

Idle == [phase |-> "idle", path |-> Error404, fallback |-> FALSE, got |-> Absent]

\* deleteLater() for the objects of the paths in S.
Dying(S) ==
  [f \in Files |->
     IF f \in S /\ cache[f] # NotCached THEN [cache[f] EXCEPT !.dying = TRUE]
     ELSE cache[f]]

\* The callback of load_file(): the loop stops at the object of the file, and
\* on its way deletes those whose path begins with that of the file.
\* Mutant: only the objects that come before it.
EvictedBefore(f) == SUBSET Extending[f]
Evicted(f) ==
  IF cache[f] = NotCached THEN {Extending[f]}
  ELSE {S \cup {f} : S \in SUBSET Extending[f]}

\* fileChanged: the watcher has dropped a file whose inode is gone;
\* recursive_add() of a path that is no directory adds nothing.
FileChanged(f) ==
  /\ req = Idle
  /\ pendFile[f] # "none"
  /\ pendFile' = [pendFile EXCEPT ![f] = "none"]
  /\ watched' = IF pendFile[f] = "removed" THEN watched \ {f} ELSE watched
  /\ \E S \in Evicted(f) : cache' = Dying(S)
  /\ UNCHANGED <<disk, armed, pendDir, started, dirs, req>>

\* directoryChanged.
DirectoryChanged(d) ==
  /\ req = Idle
  /\ d \in pendDir
  /\ pendDir' = pendDir \ {d}
  /\ RecursiveAdd(d)
  /\ UNCHANGED <<disk, pendFile, started, cache, req>>

\* The single-shot timer of an object.
TimerFires(f) ==
  /\ req = Idle
  /\ cache[f] # NotCached /\ ~cache[f].dying
  /\ cache' = Dying({f})
  /\ UNCHANGED <<diskVars, watchVars, req>>

\* ~CacheFiles() takes the object out of ::files.  Mutant: it stays.
DeletedKept(f) == [cache EXCEPT ![f].dying = FALSE]
Deleted(f) == [cache EXCEPT ![f] = NotCached]
DeferredDelete(f) ==
  /\ req = Idle
  /\ cache[f] # NotCached /\ cache[f].dying
  /\ cache' = Deleted(f)
  /\ UNCHANGED <<diskVars, watchVars, req>>

-----------------------------------------------------------------------------
(* urlHandler() and load_file() *)

\* A request arrives; the first one starts the watcher.
Request(f) ==
  /\ req = Idle
  /\ req' = [Idle EXCEPT !.phase = "load", !.path = f]
  /\ started' = TRUE
  /\ IF started THEN UNCHANGED <<armed, watched, dirs>> ELSE RecursiveAdd(Root)
  /\ UNCHANGED <<disk, pendFile, pendDir, cache>>

Answered == req' = Idle

\* urlHandler() calls itself for an error page.  Mutant: for the same path.
HandleErrorAgain(page) == req' = [req EXCEPT !.phase = "load"]
HandleError(page) == req' = [req EXCEPT !.phase = "load", !.path = page]

\* What urlHandler() does with an exception of load_file(): in the catch of
\* MVC_FILE_NOT_FOUND every exception gives the page of NOT_FOUND().
Caught(main) == IF req.fallback THEN Answered ELSE main

Hit ==
  /\ req.phase = "load"
  /\ cache[req.path] # NotCached
  /\ Answered
  /\ UNCHANGED <<diskVars, watchVars, cache>>

\* MVC_FILE_NOT_FOUND.
NotFound ==
  /\ req.phase = "load"
  /\ cache[req.path] = NotCached /\ req.path \notin watched
  /\ Caught(req' = [req EXCEPT !.path = Error404, !.fallback = TRUE])
  /\ UNCHANGED <<diskVars, watchVars, cache>>

\* MVC_FILE_PERMISSION_FAILED and MVC_FILE_READ_ERROR.
OpenFails ==
  /\ req.phase = "load"
  /\ cache[req.path] = NotCached /\ req.path \in watched
  /\ ~Readable(req.path)
  /\ Caught(HandleError(IF disk[req.path] = Locked THEN Error403 ELSE Error500))
  /\ UNCHANGED <<diskVars, watchVars, cache>>

Open ==
  /\ req.phase = "load"
  /\ cache[req.path] = NotCached /\ req.path \in watched
  /\ Readable(req.path)
  /\ req' = [req EXCEPT !.phase = "opened", !.got = disk[req.path]]
  /\ UNCHANGED <<diskVars, watchVars, cache>>

\* The cache is full only when it has more than FILE_CACHE_MAX_SIZE objects.
\* Mutant: it is never full.
FullNever == FALSE
Full == Cardinality({f \in Files : cache[f] # NotCached}) > MaxFiles

\* What the open file gives: the content it had, or the one written since.
Contents == {req.got, disk[req.path]} \ {Absent, Locked}

\* MVC_FILE_STREAM_REQUIRED: the file is sent without being cached.
Stream ==
  /\ req.phase = "opened"
  /\ Full \/ Big \in Contents
  /\ Answered
  /\ UNCHANGED <<diskVars, watchVars, cache>>

\* readAll(), a new object, and the answer.
Read ==
  /\ req.phase = "opened"
  /\ ~Full
  /\ \E v \in Contents \cap Small :
       cache' = [cache EXCEPT ![req.path] = [data |-> v, dying |-> FALSE]]
  /\ Answered
  /\ UNCHANGED <<diskVars, watchVars>>

Handle == Hit \/ NotFound \/ OpenFails \/ Open \/ Stream \/ Read

-----------------------------------------------------------------------------
Init ==
  /\ disk \in {s \in [Files -> Content \cup {Absent}] :
                 \A f \in Files : s[f] \in Small \/ f \in Mutable}
  /\ armed = {}
  /\ pendFile = [f \in Files |-> "none"]
  /\ pendDir = {}
  /\ started = FALSE
  /\ watched = {}
  /\ dirs = {}
  /\ cache = [f \in Files |-> NotCached]
  /\ req = Idle

Next ==
  \/ Outside
  \/ \E f \in Files : FileChanged(f) \/ TimerFires(f) \/ DeferredDelete(f)
  \/ \E d \in Dirs : DirectoryChanged(d)
  \/ \E f \in Files : Request(f)
  \/ Handle

Spec == Init /\ [][Next]_vars

\* A request that is being answered keeps the thread until it is answered; in
\* between, the event loop gets to every notification and deferred deletion.
Fairness ==
  /\ WF_vars(Handle)
  /\ \A f \in Files : SF_vars(FileChanged(f)) /\ SF_vars(DeferredDelete(f))

FairSpec == Spec /\ Fairness

-----------------------------------------------------------------------------
(* Properties *)

\* Types of the cache, the watcher and the request (cachefiles.h, watcher.h).
TypeOK ==
  /\ disk \in [Files -> Content \cup {Absent}]
  /\ armed \subseteq Files
  /\ pendFile \in [Files -> {"none", "changed", "removed"}]
  /\ pendDir \subseteq Dirs
  /\ started \in BOOLEAN
  /\ watched \subseteq Files
  /\ dirs \subseteq Dirs
  /\ cache \in [Files -> Cached \cup {NotCached}]
  /\ req \in [phase : {"idle", "load", "opened"}, path : Files,
              fallback : BOOLEAN, got : Content \cup {Absent}]

\* A cached copy that is not about to be deleted is what the disk has, or a
\* notification about the file is under way: whatever happens to the file before,
\* while or after load_file() reads it.
NotStale ==
  \A f \in Files :
    cache[f] # NotCached /\ ~cache[f].dying /\ cache[f].data # disk[f]
      => pendFile[f] # "none"

\* load_file() never holds more objects than its limit allows: one more than
\* FILE_CACHE_MAX_SIZE.
CacheBounded == Cardinality({f \in Files : cache[f] # NotCached}) <= MaxFiles + 1

\* "Add the directory and its subdirectories to the watcher": once nothing is
\* under way, every readable file in the public tree can be served.
TreeIsWatched ==
  req = Idle /\ started /\ pendDir = {} /\ (\A f \in Files : pendFile[f] = "none")
    => \A f \in Files : Readable(f) => f \in watched

\* A copy that differs from the file is not kept.
StaleCopyGoes ==
  \A f \in Files :
    cache[f] # NotCached /\ cache[f].data # disk[f]
      ~> cache[f] = NotCached \/ cache[f].data = disk[f]

\* urlHandler() comes to an answer through its error pages, as long as these
\* can be read.
EveryRequestAnswered == req # Idle ~> req = Idle
=============================================================================
