------------------------------ MODULE Requests ------------------------------
(* Requests, sessions and controllers on the main thread of a server.        *)
(*                                                                           *)
(* A request is handled on the stack of the event loop.  A handler that      *)
(* waits (for a query, a token, a pause) runs a nested event loop, in which  *)
(* other requests are handled on top of it: stack[i] waits while stack[i+1]  *)
(* is there.  An event loop also runs deferred deletions, but only those     *)
(* that were asked for above it.                                             *)
EXTENDS Integers, FiniteSets, Sequences

CONSTANTS
    Clients,
    Routes,       \* middlewares of the routes, as written: sequences of names
    MaxSessions,  \* bound: sessions ever made
    MaxDepth,     \* bound: handlers on the stack
    MaxWaits,     \* bound: nested event loops that one handler runs
    NoToken,      \* no cookie, or one of an earlier process: its signature is refused
    Nobody

VARIABLES
    sessions,   \* ::sessions, in the order of creation
    session,    \* session[s]: the Session objects made, by number
    cookie,     \* cookie[c]: the token that client c sends
    given,      \* given[s]: the client to which the cookie of s was sent
    stack,      \* the handlers, the running one last
    outcome     \* "running", "terminated" (std::terminate) or "undefined"

vars == <<sessions, session, cookie, given, stack, outcome>>

Sessions == 1 .. MaxSessions

\* state; remember_me has expired; height of the handler that asked for its
\* deletion (0: none); its controller object; a guard of it existed and is gone
Unborn == [state |-> "unborn", expired |-> FALSE, posted |-> 0,
           controller |-> "none", past |-> FALSE]
Born == [Unborn EXCEPT !.state = "live"]
IsLive(s) == session[s].state = "live"
IsGone(s) == session[s].state = "gone"

ASSUME RequestsAssumption ==
    /\ MaxSessions \in Nat /\ MaxDepth \in Nat /\ MaxWaits \in Nat
    /\ NoToken \notin Sessions /\ Nobody \notin Clients
    /\ \A r \in Routes : r # <<>>

Init ==
    /\ sessions = <<>>
    /\ session = [s \in Sessions |-> Unborn]
    /\ cookie = [c \in Clients |-> NoToken]
    /\ given = [s \in Sessions |-> Nobody]
    /\ stack = <<>>
    /\ outcome = "running"

Depth == Len(stack)
Top == stack[Depth]

\* The innermost event loop takes its next event.
LoopRuns ==
    /\ outcome = "running"
    /\ Depth > 0 => Top.at = "waiting" /\ ~Top.due

-----------------------------------------------------------------------------
(* The lookup of a session: Session::user_session_t().                       *)

\* operator| of the middlewares gives its left operand.
Registered(route) == Head(route)
IsWeb(route) == Registered(route) = "WEB"

Position(registry, token) == {i \in DOMAIN registry : registry[i] = token}

\* Mutant: everything before the match is deleted.
ScannedAlways(store, token, height) ==
    [s \in Sessions |->
        IF \E i \in DOMAIN store.registry :
               /\ store.registry[i] = s /\ store.objects[s].posted = 0
               /\ \A j \in Position(store.registry, token) : i < j
        THEN [store.objects[s] EXCEPT !.posted = height] ELSE store.objects[s]]

\* std::find_if over the registry: the expired ones before the match are sent
\* to deletion (the first deleteLater() of an object counts).
Scanned(store, token, height) ==
    [s \in Sessions |->
        IF \E i \in DOMAIN store.registry :
               /\ store.registry[i] = s
               /\ store.objects[s].expired /\ store.objects[s].posted = 0
               /\ \A j \in Position(store.registry, token) : i < j
        THEN [store.objects[s] EXCEPT !.posted = height] ELSE store.objects[s]]

\* Mutant: any session will do.
FoundAny(store, token) ==
    IF store.registry = <<>> THEN {} ELSE {store.registry[1]}
Found(store, token) ==
    {store.registry[i] : i \in Position(store.registry, token)}

Unused(store) == {s \in Sessions : store.objects[s].state = "unborn"}
First(numbers) == CHOOSE s \in numbers : \A t \in numbers : s <= t

\* The store after a lookup; session and whether it is new are noted in it.
Lookup(store, token, height) ==
    LET skip == token \notin Sessions
        found == IF skip THEN {} ELSE Found(store, token)
        s == First(IF found # {} THEN found ELSE Unused(store))
        objects == IF skip THEN store.objects ELSE Scanned(store, token, height)
    IN  IF found # {}
        THEN [registry |-> store.registry, objects |-> objects, session |-> s, new |-> FALSE]
        ELSE [registry |-> Append(store.registry, s),
              objects |-> [objects EXCEPT ![s] = Born], session |-> s, new |-> TRUE]

\* beforeController() looks the session up for a WEB route, the request handler
\* of every route does so again.
Lookups(c, route) ==
    LET store == [registry |-> sessions, objects |-> session, session |-> 0, new |-> FALSE]
        before == IF IsWeb(route) THEN Lookup(store, cookie[c], Depth + 1) ELSE store
    IN  Lookup(before, cookie[c], Depth + 1)

Arrive(c, route) ==
    /\ LoopRuns /\ Depth < MaxDepth
    /\ Cardinality({s \in Sessions : session[s].state = "unborn"})
           >= IF IsWeb(route) THEN 2 ELSE 1
    /\ LET store == Lookups(c, route)
       IN  /\ sessions' = store.registry
           /\ session' = store.objects
           /\ stack' = Append(stack, [client |-> c, session |-> store.session,
                                      new |-> store.new, guard |-> "none",
                                      at |-> "handler", due |-> FALSE, waits |-> 0])
    /\ UNCHANGED <<cookie, given, outcome>>

-----------------------------------------------------------------------------
(* The handler, and ControllerSingleTon, the guard it takes a controller by. *)

Handling == outcome = "running" /\ Depth > 0 /\ Top.at = "handler"
Pop == stack' = SubSeq(stack, 1, Depth - 1)

\* A session object that is no longer there is used.
UseOfDeleted ==
    /\ outcome' = "undefined"
    /\ UNCHANGED <<sessions, session, cookie, given, stack>>

Unlocked(s) == [session EXCEPT ![s].controller = "free", ![s].past = TRUE]

\* Leaving the handler by an exception: the destructor of the guard unlocks the
\* controller; if that was deleted it throws, and the process ends.
UnwindKeeping ==   \* mutant: the controller stays locked
    /\ Pop /\ UNCHANGED <<session, outcome>>
Unwind ==
    CASE Top.guard = "held" -> Pop /\ session' = Unlocked(Top.session) /\ UNCHANGED outcome
      [] Top.guard = "dead" -> outcome' = "terminated" /\ UNCHANGED <<stack, session>>
      [] OTHER -> Pop /\ UNCHANGED <<session, outcome>>

\* instanceOf<T>(): the controller is made when it is not there; tryLockForWrite()
\* blocks this thread, so that a lock that is held is never released meanwhile:
\* ControllerTimeOutException, answered by the page for 408.
TimeOutBlocked ==   \* mutant: lockForWrite()
    /\ stack' = [stack EXCEPT ![Depth].at = "blocked"]
    /\ UNCHANGED <<session, outcome>>
TimeOut == Unwind

Acquire ==
    /\ Handling /\ Top.guard \in {"none", "held"}
    /\ LET s == Top.session
       IN  IF IsGone(s) THEN UseOfDeleted
           ELSE /\ IF session[s].controller = "locked" THEN TimeOut
                   ELSE /\ session' = [session EXCEPT ![s].controller = "locked"]
                        /\ stack' = [stack EXCEPT ![Depth].guard = "held"]
                        /\ UNCHANGED outcome
                /\ UNCHANGED <<sessions, cookie, given>>

\* The guard goes out of scope, or is used.
Release ==
    /\ Handling
    /\ \/ /\ Top.guard = "held"
          /\ session' = Unlocked(Top.session)
          /\ stack' = [stack EXCEPT ![Depth].guard = "released"]
          /\ UNCHANGED outcome
       \/ Top.guard = "dead" /\ outcome' = "terminated" /\ UNCHANGED <<session, stack>>
    /\ UNCHANGED <<sessions, cookie, given>>

Wait ==
    /\ Handling /\ Top.waits < MaxWaits
    /\ stack' = [stack EXCEPT ![Depth].at = "waiting", ![Depth].due = FALSE,
                              ![Depth].waits = @ + 1]
    /\ UNCHANGED <<sessions, session, cookie, given, outcome>>

\* quit() of the event loop of handler i, by an event of the innermost one; the
\* loop is left when it is the innermost itself.
Due(i) ==
    /\ LoopRuns /\ i \in 1 .. Depth /\ ~stack[i].due
    /\ stack' = [stack EXCEPT ![i].due = TRUE]
    /\ UNCHANGED <<sessions, session, cookie, given, outcome>>

Wake ==
    /\ outcome = "running" /\ Depth > 0 /\ Top.at = "waiting" /\ Top.due
    /\ stack' = [stack EXCEPT ![Depth].at = "handler"]
    /\ UNCHANGED <<sessions, session, cookie, given, outcome>>

\* The handler returns; own: it has asked the session for its cookie.  Otherwise
\* the cookie is sent for a session that is not new.
Answer(own) ==
    /\ Handling /\ Top.guard \in {"none", "released"}
    /\ LET s == Top.session
           sent == own \/ ~Top.new
       IN  IF sent /\ IsGone(s) THEN UseOfDeleted
           ELSE /\ cookie' = IF sent THEN [cookie EXCEPT ![Top.client] = s] ELSE cookie
                /\ given' = IF sent THEN [given EXCEPT ![s] = Top.client] ELSE given
                /\ Pop
                /\ UNCHANGED <<sessions, session, outcome>>

\* std::exception: logged, and no response is sent.
Throw == Handling /\ Unwind /\ UNCHANGED <<sessions, cookie, given>>

-----------------------------------------------------------------------------
(* Time, deletion, and what clients do.                                      *)

\* All sessions last equally long.
Expire(s) ==
    /\ outcome = "running" /\ IsLive(s) /\ ~session[s].expired
    /\ \A t \in Sessions : t < s => session[t].expired
    /\ session' = [session EXCEPT ![s].expired = TRUE]
    /\ UNCHANGED <<sessions, cookie, given, stack, outcome>>

DeletableAnywhere(s) == TRUE   \* mutant: the level of the loop is ignored
Deletable(s) == session[s].posted > Depth

\* The first entry of s is erased.
Erased(registry, s) ==
    LET at == First(Position(registry, s))
    IN  IF Position(registry, s) = {} THEN registry
        ELSE [i \in 1 .. Len(registry) - 1 |-> registry[IF i < at THEN i ELSE i + 1]]

\* ~Session() and, as its child, the controller: every guard that was ever made
\* for it is told, also those that are gone, whose memory is then written to.
Delete(s) ==
    /\ LoopRuns /\ IsLive(s) /\ session[s].posted > 0 /\ Deletable(s)
    /\ sessions' = Erased(sessions, s)
    /\ session' = [session EXCEPT ![s].state = "gone"]
    /\ stack' = [i \in DOMAIN stack |->
                    IF stack[i].session = s /\ stack[i].guard = "held"
                    THEN [stack[i] EXCEPT !.guard = "dead"] ELSE stack[i]]
    /\ outcome' \in (IF session[s].past THEN {"running", "undefined"} ELSE {"running"})
    /\ UNCHANGED <<cookie, given>>

Forget(c) ==
    /\ outcome = "running" /\ cookie[c] # NoToken
    /\ cookie' = [cookie EXCEPT ![c] = NoToken]
    /\ UNCHANGED <<sessions, session, given, stack, outcome>>

-----------------------------------------------------------------------------
Handler == Acquire \/ Release \/ Wait \/ Wake \/ Throw \/ \E own \in BOOLEAN : Answer(own)

Next ==
    \/ \E c \in Clients, route \in Routes : Arrive(c, route)
    \/ Handler
    \/ \E i \in 1 .. MaxDepth : Due(i)
    \/ \E s \in Sessions : Expire(s) \/ Delete(s)
    \/ \E c \in Clients : Forget(c)

\* A handler goes on, and every wait has a time-out, whose event is taken by
\* whichever loop runs, even if others are run in between.
Fairness == WF_vars(Handler) /\ \A i \in 1 .. MaxDepth : SF_vars(Due(i))

Spec == Init /\ [][Next]_vars /\ Fairness

-----------------------------------------------------------------------------
(* Properties.                                                               *)

TypeOK ==
    /\ sessions \in Seq(Sessions)
    /\ session \in [Sessions -> [state : {"unborn", "live", "gone"}, expired : BOOLEAN,
                                 posted : 0 .. MaxDepth, past : BOOLEAN,
                                 controller : {"none", "free", "locked"}]]
    /\ cookie \in [Clients -> Sessions \cup {NoToken}]
    /\ given \in [Sessions -> Clients \cup {Nobody}]
    /\ stack \in Seq([client : Clients, session : Sessions, new : BOOLEAN,
                      guard : {"none", "held", "dead", "released"},
                      at : {"handler", "waiting"}, due : BOOLEAN, waits : 0 .. MaxWaits])
    /\ Depth <= MaxDepth
    /\ outcome \in {"running", "terminated", "undefined"}

\* The lock of the controller of a session is held exactly when one handler,
\* and no other, holds a guard of it: no path leaves it locked.
LockMeansOneGuard ==
    \A s \in Sessions : IsLive(s) =>
        Cardinality({i \in 1 .. Depth : stack[i].session = s /\ stack[i].guard = "held"})
            = IF session[s].controller = "locked" THEN 1 ELSE 0

\* A client that has a cookie whose time has not run out is known by it.
KnownUntilExpired ==
    \A c \in Clients : cookie[c] \in Sessions /\ ~session[cookie[c]].expired =>
        \E i \in DOMAIN sessions : sessions[i] = cookie[c]

\* The session that a handler works with is deleted under it only if its time
\* has run out and a handler above it, in a nested event loop, asked for that.
\* So a process ends (or uses freed memory) only that way.
DeletedOnlyFromAbove ==
    \A i \in 1 .. Depth : IsGone(stack[i].session) =>
        session[stack[i].session].expired /\ session[stack[i].session].posted > i

\* Sessions behave like a SessionStore: none is ever given to two clients, and
\* none goes away before its time.
Phase(s) ==
    IF IsLive(s) /\ session[s].expired THEN "expired" ELSE session[s].state
Store == INSTANCE SessionStore WITH
             Sessions <- Sessions, phase <- [s \in Sessions |-> Phase(s)], owner <- given
ImplementsStore == Store!Spec

\* Every request ends, however deep the loops are nested and whichever
\* controllers are locked below it, or the process does.
EveryRequestEnds ==
    \A i \in 1 .. MaxDepth : Depth >= i ~> Depth < i \/ outcome # "running"
=============================================================================
