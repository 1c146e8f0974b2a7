# A verification development for qubit_mvc

qubit_mvc is a C++20/Qt framework for web applications: an HTTP server with
middleware and sessions, an object-relational layer over MySQL, a cache of
static files, a queue of jobs and an interface to Firebase. This directory holds
TLA+ modules translated from its source, configurations that check them with
TLC, and proofs checked by TLAPS. Paths below are relative to the repository
(`H/` stands for `include/qubit_mvc_framework/utilities/`).

- [Inventory](#inventory): the parts of the system and what makes each correct
- [Plan](#plan): modules, order, composition, bounds, theorems
- [Row persistence](#row-persistence)
- [Static files](#static-files)
- [The query builder](#the-query-builder)
- [Requests, sessions and controllers](#requests-sessions-and-controllers)
- [Handles and the entry cache](#handles-and-the-entry-cache)
- [Waits in nested event loops](#waits-in-nested-event-loops)
- [What is proved](#what-is-proved)
- [Divergences](#divergences)
- [What is not modelled](#what-is-not-modelled)

## Inventory

The program is a library. One process serves HTTP in the main thread's event
loop; handlers may start threads of their own, and several waits inside the
library (reconnecting, Firebase, token lookup) run a *nested* event loop, in
which the next request is handled before the current one has returned. Several
processes may share one database.

| Component | State | Operations | Hard behaviour | Correct when |
|---|---|---|---|---|
| Row persistence (`H/model/model_base_impl_sql.h`, `table_attribute*.h`, `model_base_data.h`) | attribute values, one dirty bit per column, `_dataStamp`, `_savedStamp`, `_existInDataBase`; the row | create, load, assign, `update`, `deleteLater`, `flush`, `firstOrCreate` | `flush()` holds the lock only at its two ends; statements fail; several servers hold one row | a clear bit means saved; no server overwrites another's columns; a deleted row stays deleted; every assignment reaches the table |
| Model handles and entry cache (`H/model/model_base.h`, `model_relationships.h`) | `_entries`, `_cached_index`, `_released`; shared, relaxed and weak pointers | `createNonHash`, `retriveFromCache`, `relax_ref`, copy, `squeeze`, `HasOne`, `HasMany` | several control blocks over one object; time to live; the owner releases while another uses | a lookup returns the object of its key; no object is used after it is freed; what was just read wins over what is stale |
| Sessions (`session.cpp`, `H/session.h`) | the registry `sessions`, per session token, user, hits, expiry; one history for all | `user_session_t`, expiry through `deleteLater`, `logout`, `getCookie` | two lookups per request; deferred deletion; nested requests | one client has one session; a session is not collected while it is handed out; a client learns its token |
| Middleware (`middleware.cpp`, `H/middleware.h`) | the routes with their middleware flags | `route`, `beforeController`, `post_middleware`, `urlHandler` | exceptions choose the response; error pages fail themselves | every request is answered exactly once |
| Controllers (`H/session.h`, `H/controller.h`) | the children of a session, one lock each | `instanceOf`, `instanceOf1`, the guard `ControllerSingleTon` | the lock is taken in the thread that must release it; deletion while locked | one request at a time is inside a controller; a request that times out leaves the lock alone |
| Static files (`cachefiles.cpp`, `H/watcher.h`) | `files`, the set of watched paths, timers | `load_file`, `recursive_add`, notifications, eviction | changes while reading; files replaced; deferred deletion | what is served is what is on disk, or a notification is under way; an existing public file is found |
| Jobs (`queues.cpp`, `H/queues.h`, `app.cpp`) | rows of the jobs table, reservation stamp, attempts | dispatch, reserve, run, fail, retry | several workers; crash between steps; reservation by time | a job is run; not by two workers; a failed job is retried at most the configured number of times and then recorded |
| SQL builder (`H/model/sql_query.h`) | the text of the statement, the parameters | `select`, `from`, `where...`, `join`, `orderBy`, `limit`, ends | the order of clauses is enforced by types; some append without separators | every chain the types allow gives a statement of the grammar, with as many parameters as placeholders |
| Database connections (`H/model/model_base_impl_sql.h`, `db_info.h`) | a named connection per thread | `protected_init_db`, retries | the pause between retries is a nested event loop | a bounded number of attempts; a thread never uses another's connection |
| Firebase (`H/utilities.h`, `H/qrtdatabase.h`) | futures, completion callbacks, event loops, listeners | `OnCompletionSync`, `OnVariantCompletionSync`, value listeners | completion in another thread, before, during and after the wait | a completed future ends the wait; no callback touches a frame that is gone |
| Settings and server start (`H/system_settings.h`, `H/core_functions.h`) | option values, subscribers, the listening socket | `opt_set`, notification, `start_server`, `resetSettings` | notification after the unlock | the last value written is the value the server uses |
| Google token lookup (`H/google_token_auth.h`) | retry counters, the certificate store | `retrieveGoogleTokenInfo`, `pullCertKey` | timeout racing the reply | a bounded number of attempts; a late reply changes nothing |
| Migrations, signatures, form data, helpers | none between calls | | | |

How they interact: a request enters the middleware, which finds a session; the
handler gets the session and takes a controller from it; the controller works
with models, which load and flush rows over the thread's connection; requests
without a route go to `urlHandler()` and the file cache; jobs are rows loaded and
flushed like any other; settings decide where the server listens. The hazards of
each part are listed with their lines in `PROJECT.json`.

## Plan

The order is by importance: what loses or mixes up data first, then what every
request goes through, then the parts that only some programs use.

| # | Modules | Of | Abstract specification | Status |
|---|---|---|---|---|
| 1 | `RowFlush`, `WriteBackRow`, `SharedRow`, `MCRowFlush`, `RowFlushProofs`, `WriteBackProofs` | row persistence | `WriteBackRow`: a row behind a write-back cache; `SharedRow`: a row behind several | checked and proved |
| 2 | `FileCache`, `MCFileCache`, `FileCacheProofs` | `load_file`, watcher, eviction, `urlHandler` | every request gets one answer, made from the disk | checked and proved |
| 3 | `SqlQuery`, `MCSqlQuery` | the query builder and its ends | the grammar of the statements, and the conditions a chain asked for | checked |
| 4 | `Requests`, `SessionStore`, `MCRequests`, `RequestsProofs` | the two session lookups of a request, expiry, deletion, the controller lock, nested requests | `SessionStore`: a session belongs to one client and lasts until its time has run out | checked and proved |
| 5 | `EntryCache`, `MCEntryCache`, `EntryCacheProofs` | handles, control blocks, `_entries` | | checked and proved |
| 6 | `Waits`, `MCWaits`, `WaitsProofs`, `WaitsDataProofs` | every function that waits in an event loop of its own | | checked and proved |
| 7 | `Settings` | notification after the unlock, the listening socket | the last value written is the value in use | planned |

Composition: sessions and controllers are one module, because the lock of a
controller is a child of its session and both live on the stack of handlers.
`Requests` and `Waits` look at the same stack from two sides: `Requests` says
only that a handler waits and for how long a wait may last (its time-out), `Waits`
says that each wait of the library does end. `SqlQuery` leaves open whether the
entry cache answers `first()`; `EntryCache` leaves open what the row is, and
`RowFlush` leaves open how many handles an object has.

`NumberTheorems` holds facts about numbers that the proofs of more than one part use:
least elements, and the ranks of the members of a finite set of positions.

Modules with proofs have no RECURSIVE operators, and none of their operators is
defined by a library operator the provers know nothing of (`SelectSeq`): where the
code erases members of a list, `Stored` of `Waits` says which member comes n-th. What
the texts of `SqlQuery` parse to is computed over data and stays with TLC.

## Row persistence

### State and actions

`RowFlush` describes one row of one table, the objects in memory that stand for
it (*entries*: `ModelBaseData`), possibly of several servers, and the threads
that use them.

| Variable | Code |
|---|---|
| `clock` | `QDateTime::currentMSecsSinceEpoch()` |
| `loaded[e]` | the object exists: made by `create()`, or by a SELECT |
| `data[e]`, `flags[e]` | `TableAttributeImpl::_data`, the bits of `_attribute_flags` |
| `dataStamp[e]`, `savedStamp[e]` | `_dataStamp`, `_savedStamp` |
| `exists[e]` | `_existInDataBase # 0` |
| `row` | the row in the database, or `NoRow` |
| `pc[t]`, `loc[t]` | where thread `t` is, and the locals of `flush()` and `operator=` |

| Action | Code | Atomic because |
|---|---|---|
| `Load` | a SELECT that finds the row and `ParamsBase::create` | the object is not shared yet |
| `AssignCompare`, `AssignStore` | `TableAttribute::operator=`: the comparison, unlocked, and the store | the store holds the write lock |
| `SetValue` | `update(map)`, `TableAttributeImpl::set_value` | write lock |
| `DeleteLater` | `deleteLater()` | write lock; the check before it only reads this attribute |
| `FlushClean`, `FlushBegin` | `flush()` up to line 272 | write lock |
| `FlushRead` | one turn of the loop at 284 | `value()` takes the read lock |
| `FlushNothing` | `return true` at 322 | |
| `FlushExec`, `FlushFails`, `FlushLosesReply` | `init_db` and `exec()`: done, not done, done but reported as failed | one SQL statement |
| `FlushMark` | line 360, outside the lock | one atomic variable |
| `FlushAck` | lines 362-367 | write lock |

Left out: `increment_failed()` (it only decides what is logged), columns whose
QVariant is invalid (skipped by the loop; not reachable through the typed
attributes), assigning another primary key to a stored object, and a wall clock
that is set back. The table is assumed to refuse a second row with the same key
(`DuplicateKey`, external); the migrations of the repository do not themselves
create that constraint. A statement of MySQL is one step.

`WriteBackRow` says what a user expects of an object with dirty flags: saving
forgets a pending column only when the table has the value that memory has, and
a row disappears only after `deleted_at` was set. `ImplementsWriteBack` is the
refinement: what is pending is what has its bit set or was taken by a flush that
has not run its statement yet.

`SharedRow` says what several objects promise together, each with its own memory and
its own pending columns. Saving an object is one step although `flush()` takes the
flags, reads and executes in three: it writes what was pending at that step with the
values that memory has then, and no other column, however old the object's values of
those are; what is assigned meanwhile (`kept`) stays pending and may or may not be
written. A row is made by the first save of the created object and never again
(`made`), it is removed by an object whose own deletion is pending, and a write is
dropped (`Miss`) only where some object was asked to delete. `ImplementsSharedRow` is
the refinement. `made` is mapped to: there is a row, or an object knows that there was
one, or is about to learn it. `SharedRow` does not tell a soft deletion from an
assignment.

### Runs

| Run | Instance | What it shows |
|---|---|---|
| `serial` | one object, deleted softly; `t1` flushes again and again and assigns, `t2` assigns; no failures; every store in a millisecond of its own | `CleanMeansSaved`, `WholeRow`, the refinement of `WriteBackRow`, and `EveryWriteIsSaved`: an assignment made between the two locked sections is not lost |
| `servers` | two objects of two servers, one flusher each, each with its own column, the first deletes | also `NoClobber` and `DeletedStaysDeleted`: two servers that work on different columns do not overwrite each other, and no late INSERT revives a deleted row; and the refinement of `SharedRow`, which says both of every step |
| `crowd` | two threads flush one object, a third another, which it deletes softly; statements fail or lose their answer; several stores per millisecond | `KnownRowIsStored` and `NoClobber` need none of the restrictions of the other runs |
| `keyless` | a model without primary key | nothing is ever marked as stored |
| `failed_flush` | `serial` with statements that may fail | `CleanMeansSaved` is violated: see [Divergences](#divergences) |

### Bounds

- Three columns: `deleted_at`, which the code treats specially, and two others, so
  that a flush can take one and miss the other (in `crowd` only one other: its second
  object assigns `deleted_at`). Two values: an assignment can
  change a value and change it back.
- `MaxClock`: with a fine clock every store advances `clock`, so `MaxClock` is a
  bound on the number of assignments (four for 5). A flush overlaps at most two
  assignments in an interesting way (one before and one after it reads a column),
  and a second flush needs one more. With a coarse clock `MaxClock` is the number
  of milliseconds and assignments are unbounded.
- Threads: two users of one object are what the two locked sections separate; a
  third one in `crowd` adds a second server while two flushes overlap.
- Symmetry is used in `crowd` only, for the two threads of one object, and not
  together with liveness.

### Fairness

`FairSpec` says that a thread inside `flush()` or `operator=` is scheduled until it
returns (weak fairness of `Flush(t)` and `AssignStore(t)`), which the operating
system gives, and that a flushing thread calls `flush()` again as long as it can.
The second half is an assumption about the program that uses the framework:
the framework never flushes by itself. Assignments are not fair.

## Static files

### State and actions

`FileCache` describes the public directory on the disk, what the kernel and the
watcher know of it, the cache, and the request in hand. One thread runs the event
loop: a notification, a timer or a deferred deletion is handled only when no
request is in hand, but other programs change the files at any time, also between
the steps of a request.

| Variable | Code |
|---|---|
| `disk[f]` | a small content, one too big for the cache (`Big`), a file that may not be read (`Locked`), or `Absent` |
| `armed`, `pendFile[f]`, `pendDir` | external: the inodes and directories that inotify watches, and what it has still to deliver |
| `watched`, `dirs` | `watcher.files()`, `watcher.directories()` |
| `started` | `pragma_once` has been cleared |
| `cache[f]` | the object of `::files` whose path is `f`; `dying` after `deleteLater()` |
| `req` | the request in `urlHandler()`: looking for the file, or with the file open; `fallback` inside the catch of `MVC_FILE_NOT_FOUND` |

| Action | Code |
|---|---|
| `Request` | `urlHandler()` enters `load_file()`; the first one calls `watchPublicFolders()` |
| `Hit`, `NotFound`, `OpenFails`, `Open` | the lookup in `::files`, the one in `watcher.files()`, `open()` and its failures |
| `Stream`, `Read` | the test of size and number at 63; `readAll()`, the new object, the answer |
| `FileChanged`, `DirectoryChanged` | the two lambdas of `watchPublicFolders()`, with `recursive_add()` and the eviction callback |
| `TimerFires`, `DeferredDelete` | the timer of an object; `~CacheFiles()` |
| `Outside` | external: a file is written in place, replaced by rename, created, removed, or its permissions change |

A path names at most one object because a lookup that finds one, dying or not,
returns it, and a new object is made only when none was found. The order of
`::files` matters in one place: the eviction callback stops at the object of the
changed file, and deletes before that the objects whose path merely begins with
the same text. `Evicted` therefore lets any subset of those go. `readAll()` gives
the content the file had when it was opened, or the one written since.

### Runs

| Run | Instance | What it shows |
|---|---|---|
| `files` | a file of a watched directory is changed in every way, another one's path begins with its path; the error pages stay readable; two contents that fit, a limit of 1 | `NotStale`: a change before, during or after reading is either seen or has its notification under way; `CacheBounded`: the limit is exceeded by one at most; `StaleCopyGoes`; `EveryRequestAnswered` |
| `files_unwatched` | the file in the public directory changes | `TreeIsWatched` is violated: see [Divergences](#divergences) |

Bounds: in `files` the pages for 403 and 500 are one file. The tree has the public directory, the directory of the error pages, one
more directory and an empty one below that, so that both outcomes of the test in
`recursive_add()` occur; the path of one file is a prefix of the path of another,
which is what the eviction callback confuses. The limit 1 lets the cache be full with
the files there are. Nothing else is bounded: changes and requests go on for ever.
Files that nobody changes start with one content (`MCInit`), since no property
compares the contents of two files.

Fairness: weak fairness of `Handle`, since a request keeps the thread until it is
answered; strong fairness of `FileChanged` and `DeferredDelete`, since requests
interrupt them again and again, but the event loop of Qt delivers what is posted
before it waits for more. The timer is not assumed to fire.

## The query builder

### State and actions

A chain such as `SqlBuilder::all<M>()->from(t)->where(c)->orWhere(d)->get()` goes
through one object per call. Each object holds a text; `reset()` of `operator()`
hands that text, with a suffix, to the members that may be called next, and a
member that is not reset keeps the text of an earlier call, or none. `SqlQuery`
follows these texts as sequences of words, because what goes wrong in the code is
about words: a connective that is appended twice, a blank that is missing, a
comma that is left. Columns and values are one word each.

| Variable | Code |
|---|---|
| `obj[p]` | `Query::queryString` of the object at path `p`, and of the ends of the object |
| `used` | the paths of objects that exist |
| `cur` | the object called last; a program may go back to an earlier one |
| `result` | the text an end has run, and what it gave back |
| `soft` | `UseSoftDelete()` |

Each action is one `operator()` or method: `All`, `Select`, `Pug`, `From`,
`WhereBuilder`, `Where`, ..., `Offset`, and the ends `Get`, `First`, ..., `Truncate`.
`...Struct` says which members an object has and which of them its `operator()`
resets. `trap`, `lost` and `asked` are history: whether the chain made a misuse that
the types allow (the list is where `trap` is set), whether it went through a member
that was never reset, and which conditions it asked for. The server is an
automaton over words (`Grammar`, `Parses`; external), and a statement it accepts
selects some or no row. `OfParams` is `where(Params)` and `firstOrCreate(Params)`.

### Run

`query` takes every chain of up to five calls and every end on every chain of up to
four: five is the shortest chain in which an object is called, left and called
again behind a second condition, and each clause has at most two neighbours that
its text depends on. It shows that chains without a misuse are accepted
(`SoundChainsParse`), that *any* chain the server accepts has exactly the conditions
asked for (`AcceptedMeansAsked`: a wrong chain is refused, it never selects other
rows), that an UPDATE is not applied to other rows (`UpdateKeepsConditions`), which
ends work behind which chains (`EndsOfSoundChains`), and that a query made of params
never asks for every row (`ParamsAskForAll`).

What a reader should know of the result: `exists()` is accepted only behind a quoted
word, since its LIMIT is glued to the text; `update()` only when the last column of
the model is assigned, since every other assignment is followed by a comma.

## Requests, sessions and controllers

### State and actions

`Requests` is the main thread: a stack of handlers, each of which may wait in a
nested event loop while others are handled on top of it.

| Variable | Code |
|---|---|
| `sessions` | `::sessions`, in the order of creation |
| `session[s]` | the object: alive, past its `remember_me`, the level at which `deleteLater()` was called, its controller and that one's lock |
| `cookie[c]`, `given[s]` | external: what client `c` sends; the client that was sent the cookie of `s` |
| `stack` | the handlers with their session, their guard (`ControllerSingleTon`), and whether they wait |
| `outcome` | `terminated` by an exception out of a destructor, or `undefined` |

| Action | Code |
|---|---|
| `Arrive` | `post_middleware()` up to the handler: the lookup of `beforeController()` for a WEB route, and that of every request |
| `Acquire`, `Release`, `TimeOut` | `instanceOf<T>()`, the guard's destructor, `ControllerTimeOutException` |
| `Wait`, `Due`, `Wake` | a nested event loop, the event that ends it, its end |
| `Answer`, `Throw` | the cookie and the response; an exception, which unwinds the guard |
| `Expire`, `Delete` | the time runs out; the deferred deletion, which Qt runs only in a loop outside the one it was asked for in |

`SessionStore` is what clients may expect; `ImplementsStore` is the refinement, in
which a session is expired when its object is and given when its cookie was sent.

### Run

`requests`: two clients, two routes, three sessions, handlers two deep, one wait
each. A WEB request without a cookie makes two sessions (both lookups find none), so
three are needed for a second client. Two levels are what the rule for deferred
deletions tells apart. It shows that the lock of a controller is held exactly while
a guard holds it (`LockMeansOneGuard`), that a client whose time has not run out is
known (`KnownUntilExpired`), that a session is deleted under a handler only when it
has expired and a nested handler scanned past it (`DeletedOnlyFromAbove`), and that
every request ends (`EveryRequestEnds`).

Fairness: a handler goes on (weak fairness of `Handler`); every wait ends, by an
event that whichever loop is innermost takes (strong fairness of `Due(i)`, since
other requests are handled in between). The first is what it means to run on one
thread; the second holds for the waits of the library (see `Waits`) and is an
assumption about those of a program. The depth is bounded: a server that received
nested requests for ever would never return to the first one.

What a reader should know: `operator|` of two middlewares gives the left one, so
that a route registered with `API|WEB` is not a WEB route (`Registered`). A cookie
is sent only by a request that already had a session, or by a handler that asks for
it. The page for error 500 is not sent for a controller that was deleted while it
was held, because the destructor of the guard throws first.

## Handles and the entry cache

### State and actions

`EntryCache` has objects (`ModelBaseData`), handles (a MODEL variable with its three
references) and *blocks*, the control blocks of `shared_ptr`. The distinction matters
because `createRawModel()` makes a second block for an object that the cache owns by
another one; its deleter is a function of its own.

| Variable | Code |
|---|---|
| `objects[o]` | key, `_existInDataBase` (`saved`), `_cached_index` (`index`), and whether it was freed |
| `blocks[b]` | the object and which deleter: `raw` (`createRawModel`) or `owner` (`free_func`) |
| `entries` | `_entries` |
| `handles[h]` | `_sh_data_ptr`, `_temp_sh_data_ptr`, `_w_data_ptr` |
| `swapped` | history: objects that lost their entry to another |
| `outcome` | how the process came to grief: freed memory read, an object freed twice |

*No entry is ever reset.* The deleter of `createRawModel()` would reset the entry of a
deleted object (line 445), but tests `deleted_at.value().isValid()` (line 435). For a
date `value()` is `QDateTime::fromString(text)` in the default format
(`table_attribute.h:118`), and the text was written as `yyyy-MM-dd hh:mm:ss`
(`table_attribute.h:86`): the result is valid for no object. With the cache the deleter
therefore reads the object and sets `_released`, which nothing reads. The model says
just that (`DeleteRaw`), and has neither `_released` nor `deleted_at`. `squeeze()`,
which erases null entries, finds none, and numbers the entries as they are numbered.

| Action | Code |
|---|---|
| `Create` | `createNonHash()` |
| `First`, `HasOne` | `retriveFromCache()` and the SELECT behind it; the relation by a key |
| `Copy`, `Assign`, `Reset`, `Drop` | copy constructor, `operator=`, `reset()`, destructor, each with the deleters that run |
| `Flush` | a `flush()` that ran a statement: it stamps the object, also after a DELETE |
| `DeleteLater` | `deleteLater()`: the strong reference becomes the temporary one |
| `Squeeze`, `Tick` | `squeeze()`; time |

### Runs

`entries`: two handles, two keys, four objects, eight blocks (an object takes two,
and each lookup one more), a clock of two milliseconds with a life of one. Two objects
of one key make a swap; with four the object that took an entry loses it in turn, for
both keys. An object stays in the cache, alive and at the place it remembers, until a
newer one of its key takes its entry (`CachedUntilSwapped`, `EntriesLive`); there is one
entry of a key, and an object that lost it still knows the place (`EntriesKeyed`). With
the swap the caller is handed the older object and with it the block that frees it, so
that other handles of that object may dangle and their deleters read freed memory:
both are reachable, and only so (`HarmNeedsSwap`). No object is freed twice. Without the
cache an object lives exactly as long as its handles (`UncachedMeansOwned`). The run
does not check deadlock: a program may stop, and so does the model at its bounds.

`restamped` shows that the stamp by which the cache judges the age of an object is not
written once: see [Divergences](#divergences).

What a reader should know: creating a second object with a key in the cache gives
the *old* object's data to the caller. A lookup answers the first entry whatever its
key, unless that entry has the key asked for and is older than the lookup's own
millisecond (the age is unsigned, and wraps around). An object that was deleted stays in
the cache and is answered like any other; the cache never shrinks. The default life is
5000 ms, so the cache is on unless a program turns it off.

An object has its key from the start: rows that are selected do, and so do params
that name it. A key assigned after creation is not modelled.

## Waits in nested event loops

### State and actions

`Waits` has the five kinds of call that wait: `OnCompletionSync()` for a Firebase
future, a Firebase listener, `retrieveGoogleTokenInfo()`, `pullCertKey()`, and
`protected_init_db()`, which pauses between two attempts. A call is a frame on the
stack; `After...` says what each function does when its `exec()` has returned.

| Field of `calls[c]` | Code |
|---|---|
| `at` | where the function is: before `exec()`, in it, before or in a pause, ended |
| `running`, `code` | the exit flag and the return code of the loop |
| `posted` | a queued `exit`, or the Quit that a `QEventLoopLocker` posts |
| `timer`, `asked` | a time-out set, a request under way |
| `queued`, `callback` | a registration handed to the pool, and one that has run |
| `data` | the future is complete; `hold` is false; the reply gave a user |

| Action | Code |
|---|---|
| `CallFuture`, ..., `Listen` | a handler calls the function |
| `MakeLoop`, `TestHold`, `FirstOpen`, `Enter`, `Leave` | its steps on the main thread, apart where another thread may come between |
| `TimeOut`, `Posted`, `Reply`, `ReplyCerts`, `Quit` | events, taken by the innermost loop whatever loop they are for |
| `PoolRuns`, `Complete`, `Callback`, `Notify`, `Notified` | other threads |

### Run

`waits`: two calls of any kind, nested or in sequence (a third only repeats what one
of the two does to the other), two events of a listener (one lost, one that wakes),
two further rounds of a future instead of five, two certificates.

- `GivesUpLate`: no call returns without its value before its last attempt. The one
  exception is real: a bad reply that a *nested* loop handles is not asked again,
  because the Quit of the locker overwrites the error code before the loop returns.
- `LeftOnlyAfterRetry`: a registration runs on the variables of a function that has
  returned only if the call had timed out before, or the program quits.
- `StuckOnlyByRace`: a listener that has its event waits on only if the event came
  before its loop existed, or between the test of `hold` and `exec()`. Both happen.
- `CertsDistinct`; `EveryWaitEnds`: every call returns, or a listener, which has no
  time-out, waits on top of it.

Fairness: the main thread and the threads of Firebase go on; timers and posted
events of every loop on the stack are taken by the innermost one (strong fairness:
a loop that was told to exit takes no more). The reply with the certificates comes,
if only by the transfer time-out. Nothing else is assumed: futures may never
complete, listeners may get no event, the pool may never have a free thread.

What a reader should know: the first failing `open()` of a connection is not
retried, and later ones go without the password, which `QSqlDatabase` does not keep
(`Open`); `pullCertKey()` reports success when nothing was downloaded.

## What is proved

`RowFlushProofs` proves, for any number of entries, threads, columns and values:

| Theorem | Property | Assuming |
|---|---|---|
| `TypeCorrect` | `TypeOK` | the assumptions on the constants |
| `StoredRowIsKnown` | `KnownRowIsStored` | the same |
| `NoClobbering` | `NoClobber` | the same |
| `CleanIsSaved` | `CleanMeansSaved` | also `Serial` |
| `RowsAreWhole` | `WholeRow` | also `Serial` |
| `DeletedIsGone` | `DeletedStaysDeleted` | also `Serial` |

`Serial` is what the four divergences show to be needed: a primary key, no failing
statement, one flushing thread per entry, stamps that differ.

The argument. None of the properties is inductive. `BaseInv` adds to the types
what every thread knows about itself (`ThreadInv`: what is still to be read was
taken, a statement runs after all is read), that an object marked as stored has
a row unless deletion was asked (`StoredInv`), and that dirty columns are the
object's own (`OwnInv`: it is why `NoClobber` holds, since an UPDATE carries only
the columns that were taken). Under `Serial` five parts are added: `StampInv`, stamps
grow with the clock, so that an equal stamp in the epilogue means that nothing
was stored; `FirstInv`, only the creator inserts and only once, and no one else
can have found a row before; `ReadInv`, a value that a flush holds is the current
one unless the column is dirty again; `ValueInv`, the generalisation of
`CleanMeansSaved` to columns that are being flushed; `WholeInv`, the flush that
inserts carries all columns. Each part has one lemma with one step per action.
Every part was also checked by TLC on the instances of the passing runs.

`FileCacheProofs` proves, for any tree of files, any contents and any limit:

| Theorem | Property | Assuming |
|---|---|---|
| `FilesTypeCorrect` | `TypeOK` | the assumptions on the constants |
| `CopiesAreFresh` | `NotStale` | the same |
| `CacheStaysBounded` | `CacheBounded` | the same |

The argument for `CopiesAreFresh`. A file is *followed* when the kernel watches its
present inode or has said that the inode is gone. `WatchInv`: every file in
`watcher.files()` is followed, because the watcher forgets a file in the same step
that consumes the notification of its removal. `CopyInv`: a copy is of a followed
file and is fresh, because the callback of a notification always reaches the copy
of that file (`EvictedOwn`). `OpenInv`: a file that a request has open is followed,
and the content it will be read with is fresh; no notification can be consumed in
between. `OutsideFollows`: whatever is done to a followed file leaves a notification
behind if its content changes.

`RequestsProofs` proves, for any number of clients, routes, sessions and nested
handlers, and any bound on their waits:

| Theorem | Property | Assuming |
|---|---|---|
| `RequestsTypeCorrect` | `TypeOK` | the assumptions on the constants |
| `LocksHaveGuards` | `LockMeansOneGuard` | the same |
| `ClientsAreKnown` | `KnownUntilExpired` | the same |
| `DeletionsComeFromAbove` | `DeletedOnlyFromAbove` | the same |
| `SessionsImplementStore` | `ImplementsStore` | the same |

The argument. `RegistryInv`: the registry lists exactly the live sessions, each once,
and an object is sent to deletion only when its time has run out; it holds along the
scans of both lookups (`LookupsGive`). It gives `ClientsAreKnown`, together with
`CookieInv`: a token that a client sends names a session that was given to that client.
`HandlerInv`: what a handler on the stack knows of its session, above all that it is
the session of the handler's own client; a lookup finds a session only by its token.
A deletion is run by a loop further out than the one whose handler asked for it, so
that of a deleted session `posted` is greater than the level of every handler that
is left (`HandlerKnows`); that is `DeletionsComeFromAbove`. `LocksHaveGuards` needs
`ShareInv`, of the handlers of one session at most one holds a guard, so that a guard
that is released cannot free the lock of another, and `LockInv`, a lock that is set
has a guard. For the refinement, each step either leaves every session in its
phase, as the abstract store sees it, or is the step of the store that gives, expires
or collects one (`StoreStep`).

`WaitsProofs` proves, for any number of calls, depth, events and rounds:

| Theorem | Property | Assuming |
|---|---|---|
| `WaitersAreWoken` | `StuckOnlyByRace` | the assumptions on the constants |
| `RegisteredBeforeReturn` | `LeftOnlyAfterRetry` | the same; a future has a round after its first |
| `NoEarlyDefault` | `GivesUpLate` | the same |

The argument. Each frame of the stack satisfies `FrameInv`, which depends on the other
frames only through whether its call is innermost: only the innermost call is outside
its loop (`TopInv`), and what is pushed on top of it finds it in its loop and not yet
told to exit (`TopChanges`). `ListenInv` follows an event of a listener from its
arrival to the wake-up: a callback that ends when the loop is in `exec()` posts, one
that ends between the test of `hold` and `exec()` is missed. `FutureInv`: in the first
round there is one registration, and an exit with 0 comes from the callback that this
registration installed, so that nothing is left behind. `TokenInv`: the error code of
a bad reply can be overwritten by the `Quit` of the locker only when the reply was
read by a nested loop; the innermost loop exits before it takes that event.

`WaitsDataProofs` adds, for the same and any identifiers of certificates:

| Theorem | Property | Assuming |
|---|---|---|
| `WaitsTyped` | `TypeOK` | the assumptions on the constants |
| `CertsAreDistinct` | `CertsDistinct` | the same; there are finitely many identifiers |

The argument for `WaitsTyped`. The bounds of the counters in a frame are not inductive
as `TypeOK` has them: `Bounded` says that a call that has not ended has at most two
failed attempts behind it, so that the next one is the last, and that registrations
never outnumber rounds (`queued <= trials + 1`), which `Round` keeps since it adds one
of each. `GoesOnBounded` covers every event; the rest are the steps of the main
thread. For `CertsAreDistinct`: what the search leaves of a list, its members at the
positions `Kept`, has no repetitions (`RemainingGood`), and a certificate is pushed only
if it was nowhere in the list (`StoredGood`). That the whole reply keeps this is an
induction on the number of certificates, done as an argument about a least
counterexample (`Minimum`), which also shows that the recursive function of `StoredAll`
exists (`GivenExists`).

`EntryCacheProofs` proves, for any objects, control blocks, handles, keys and clock:

| Theorem | Property | Assuming |
|---|---|---|
| `CacheTyped` | `TypeOK` | the assumptions on the constants; there are finitely many keys |
| `CacheEntriesLive` | `EntriesLive` | the same |
| `CacheEntriesKeyed` | `EntriesKeyed` | the same |
| `CachedUntilSwappedHolds` | `CachedUntilSwapped` | the same |
| `HarmNeedsSwapHolds` | `HarmNeedsSwap` | the same |
| `UncachedMeansOwnedHolds` | `UncachedMeansOwned` | the same |

The argument. An action of `EntryCache` is a composition of steps on one record (`Here`)
of objects, blocks, entries and handles, so the lemmas are about those steps: what each
of them (`Done`, `Free`, `DeleteRaw`, `Release`, ...) leaves of the invariant `Sound`,
with the blocks that are about to be released as a parameter. `Sound` has three parts.
`Safe`, always: an entry refers to a live object, which knows its place and which no
other block can free, and there is one entry of a key (`EntriesOK`). `UncachedOK`,
without the cache: an object has one block, which is held, and is live as long as the
block is. `CachedOK`, with the cache: an object has at most one block that frees it and
lives as long as that; every object but the swapped ones is in the cache; only swapped
ones are freed; and each live object knows the place of its key. A handle that gives
up its block is then harmless: a raw block frees nothing, and the owner of an object that
is in the cache is held by its entry. `Squeeze` changes nothing (`SqueezeSound`). That a
new entry gets an index below the number of keys is a count of the keys in use
(`FewerThanKeys`); that the two new blocks are the next unused ones, in order, is
`RoomForNew`, with `Minimum` and `RanksCount`.

`WriteBackProofs` proves the two refinements:

| Theorem | Property | Assuming |
|---|---|---|
| `RowIsWriteBack` | `ImplementsWriteBack` | `OneObject`: `Serial`, and no second server |
| `RowIsShared` | `ImplementsSharedRow` | `Serial` |

The argument for one object. The mapping takes the memory and the row as they are; a
column is `Pending` when its bit is set or a flush has taken it and not run its statement. Each
step is then a step of `WriteBackRow` or a stutter: assigning (`PendingGrows`), beginning
a flush (bits move to the locals, a stutter: `PendingTaken`), the statement (`PendingWritten`),
the epilogue, which clears only bits of values that are saved. `SavedInv` is what
`RowFlushProofs` does not give: `CleanMeansSaved` is silent about a row whose deletion was
asked for, but the abstract row may not forget a column of such a row either. The
theorem does not say how rows are deleted; `serial` checks soft deletion.

The argument for several. The lemmas on `Pending` are about any object; `PendingChanges`
puts them together for a step of one. The statement of a flush (`ExecShares`) writes its
columns with the values in memory, or the bit of a column is set again (`ReadInv`), and
leaves the others (`ExecWrites`); if it makes the row, it is the INSERT of the created
object and nobody has marked anything before (`ExecMakes`, from `InsertFinds`); if it
removes the row, the deletion is pending in its own object. The last needs `DeleteInv`:
the flags that a deleting flush took include `deleted_at`, whose value nothing sets back.

Only model-checked: the properties of `SqlQuery`, which are about what a sequence of
texts, folded over a chain of calls, parses to; liveness (`EveryWriteIsSaved`,
`StaleCopyGoes`, `EveryRequestAnswered`, `EveryRequestEnds`, `EveryWaitEnds`), which is
out of this prover's reach; and the violations of [Divergences](#divergences), which
are counterexamples.

## Divergences

- `failed_flush`, against the comment on the early return of `flush()`
  (`model_base_impl_sql.h:261`), "we don't need to save/update": the bits are
  cleared before the statement runs and are not set again when it fails. The
  assignment stays in memory; the next `flush()` returns true without writing it.
  `CleanMeansSaved` fails in the same way when one of the other restrictions of
  `serial` is lifted instead: with a coarse clock (`FineClock = FALSE`) an assignment
  in the millisecond of the previous one leaves the stamp as it was and the epilogue
  clears the new bit; with two flushing threads the statements may run in the other
  order than the values were read; without a primary key the list of names stays
  empty (line 299) and `flush()` reports success for an object it never inserts.
- `files_unwatched`, against the comment in `recursive_add()` (`watcher.h:8`), "Add
  the directory and its subdirectories to the watcher": the directory itself is never
  added, and a subdirectory only if its parent is not watched (line 14). No change of
  an entry of the public directory is reported, so that a file created there, or
  replaced by an editor that renames, is not watched again, and `load_file()` answers
  it as not found.
- `restamped`, against the comment on `_existInDataBase` (`table_base.h:16`), "write only
  on creation": `flush()` sets it after every statement (`model_base_impl_sql.h:360`), an
  UPDATE and a DELETE too. The cache reads it as the time of creation
  (`model_base.h:540`), so that the age of an entry counts from the last statement.

Met while modelling and not run, since the model can only restate the line:
the assertion in the deleter of `createRawModel()` (`model_base.h:443`), "Object must be
the same", joins its four tests with `||` and could never fail, in a branch that is not
reached; `firstOrFail()` throws "Query returned no results." exactly when there is one
(`sql_query.h:479` asks `isEmpty()`, which is true for a model that has data);
`having()` drops its condition; `truncate()` ignores the conditions of its chain;
`latest()` orders ascending.

## What is not modelled

- Jobs (`queues.cpp`): the reservation is an UPDATE of a column that is not the last
  of its table, behind `orWhere()` and `orderBy()`. The server refuses that text
  (`EndsOfSoundChains`), `update()` answers 0, and `process_jobs()` never selects a
  job: reservation by time, retry and failure are not reached in any state of the
  program.
- Settings and server start: `opt_set()` compares and notifies outside its lock. The
  next module to write.
- Migrations: CREATE and DROP text put together once, at start, by one thread.
- Signatures, integrity, form data: calls of OpenSSL and parsing without state
  between calls. Redirects and formatting helpers: pure functions.
- Of row persistence: the race of two callers of `firstOrCreate()`; crashes, since
  nothing but the row outlives the process and a crash at any point leaves the row as
  one of the states modelled.
- Of static files: the second public directory of debug builds, directories that
  are created or removed, the warning about threads, and a missing or unreadable
  error page, with which `urlHandler()` calls itself without end
  (`EveryRequestAnswered` is checked for error pages that stay as they are).
- Of the builder: the variants without a model class, and the lifetime of the objects
  that `operator()` returns a pointer to.
- Of sessions: the user and `logout()`, `history()` and `prev_page()` (one list for all
  sessions, read when it may be empty), the contents of a token.
- Of the entry cache: other threads (objects released there are freed by a queued
  call, and `safe_data_ptr()` uses what another may release), the merge of `HasMany`,
  models without a primary key, whose lookup does not compile.
- Of the waits: a listener that is destroyed while it waits, conversions of values.
