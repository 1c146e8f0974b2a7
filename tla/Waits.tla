-------------------------------- MODULE Waits -------------------------------
(* Functions that wait in an event loop of their own for an answer from      *)
(* elsewhere: a Firebase future, a Firebase listener, the token service, the *)
(* certificates, a pause between two attempts to open the database.          *)
(*                                                                           *)
(* A call is a frame on the stack of the main thread.  While it waits, its   *)
(* loop runs the handlers of other events, which wait in turn on top of it:  *)
(* only the innermost loop takes events, and a loop told to exit returns     *)
(* when it is innermost again.  Futures are registered by a thread of a pool *)
(* and answered, like listeners, by a thread of Firebase.                    *)
EXTENDS Integers, Sequences, FiniteSets

CONSTANTS
    MaxCalls,    \* bound: calls ever made
    MaxDepth,    \* bound: calls on the stack
    MaxEvents,   \* bound: events of one listener
    Rounds,      \* rounds of a future after the first: 5 in the code
    Password,    \* the database account has a password
    Kids         \* identifiers of certificates, numbers in the order of the reply

VARIABLES
    calls,      \* calls[c]: the frame of call c, and what it answered
    stack,      \* the calls that have not returned, the innermost last
    connection, \* the database connection of the thread: "none", "closed", "open"
    certs,      \* cert_keys: a sequence of [kid, old]
    quitting,   \* QCoreApplication::quit() was called
    outcome     \* "running", or the undefined behaviour that ended it

vars == <<calls, stack, connection, certs, quitting, outcome>>

Calls == 1 .. MaxCalls
Listeners == {"child", "sync"}   \* QChildListener and QValueListener; ValueListenerSync

ASSUME WaitsAssumption ==
    /\ MaxCalls \in Nat /\ MaxDepth \in Nat /\ MaxEvents \in Nat
    /\ Rounds \in Nat \ {0} /\ Kids \subseteq Nat /\ IsFiniteSet(Kids)
    /\ Password \in BOOLEAN

(* running: the loop was not told to exit; code: what exec() returns;        *)
(* posted: an event that makes it exit with 0 is in the queue of the thread; *)
(* timer: set; asked: a request is under way; queued: registrations that no  *)
(* thread of the pool has run; callback: registered; data: the future is     *)
(* complete, the listener or the reply has stored something; events: that    *)
(* came; seen: "stored" while the listener's callback is between its store   *)
(* and its post; missed and nested: history, see the properties.             *)
Unborn == [kind |-> "none", at |-> "unborn", trials |-> 0, running |-> FALSE,
           code |-> 0, posted |-> FALSE, timer |-> FALSE, asked |-> FALSE,
           queued |-> 0, callback |-> FALSE, data |-> FALSE, events |-> 0,
           seen |-> "no", missed |-> FALSE, nested |-> FALSE, answer |-> "none"]

Init ==
    /\ calls = [c \in Calls |-> Unborn]
    /\ stack = <<>>
    /\ connection = "none"
    /\ certs = <<>>
    /\ quitting = FALSE
    /\ outcome = "running"

IsRunning == outcome = "running"
Depth == Len(stack)
Top == stack[Depth]
IsTop(c) == Depth > 0 /\ Top = c
InLoop(c) == calls[c].at \in {"loop", "pause"}

\* The innermost event loop takes its next event.
LoopRuns ==
    /\ IsRunning
    /\ IF Depth = 0 THEN ~quitting ELSE InLoop(Top) /\ calls[Top].running

Becomes(c, frame) == calls' = [calls EXCEPT ![c] = frame]
OnlyCalls == UNCHANGED <<stack, connection, certs, quitting, outcome>>
Event(c, frame) ==
    LoopRuns /\ Becomes(c, frame) /\ OnlyCalls

\* The function returns.  Only its registrations can still have an effect.
Return(c, frame, answer) ==
    /\ Becomes(c, [Unborn EXCEPT !.kind = frame.kind, !.at = "ended", !.trials = frame.trials,
                                 !.queued = frame.queued, !.answer = answer])
    /\ stack' = SubSeq(stack, 1, Depth - 1)

-----------------------------------------------------------------------------
(* What each function does before exec(), and when exec() has returned.      *)

\* OnCompletionSync() at AGAIN: the first round registers a callback, a later
\* one only for a future that is no longer pending.
RoundUntimed(r) ==   \* mutant: the timer of the first round only
    [r EXCEPT !.at = "before", !.timer = (r.trials = 0), !.queued = 1]
Round(r) ==
    [r EXCEPT !.at = "before", !.timer = TRUE,
              !.queued = IF r.trials = 0 \/ r.data THEN @ + 1 ELSE @]
HasRoundMore(r) == r.trials <= Rounds   \* mutant: one round too many
HasRound(r) == r.trials < Rounds

AfterFuture(c, r, code) ==
    /\ IF code = -1 /\ HasRound(r)
       THEN Becomes(c, Round([r EXCEPT !.trials = @ + 1])) /\ UNCHANGED stack
       ELSE Return(c, r, IF r.data THEN "value" ELSE "default")
    /\ UNCHANGED <<connection, certs>>

\* retrieveGoogleTokenInfo(): -2 is a reply that is no JSON.
Ask(r) == [r EXCEPT !.at = "before", !.asked = TRUE, !.timer = TRUE]
Pauses(r) == [r EXCEPT !.at = "pausing", !.posted = FALSE, !.timer = TRUE]

AfterToken(c, r, code) ==
    LET next == IF code = -2 THEN [r EXCEPT !.trials = @ + 1] ELSE r
    IN  /\ IF code = -2 /\ next.trials < 3
           THEN Becomes(c, Pauses(next)) /\ UNCHANGED stack
           ELSE Return(c, next, IF r.data THEN "value" ELSE "default")
        /\ UNCHANGED <<connection, certs>>

\* pullCertKey()
AfterCerts(c, r, code) ==
    /\ Return(c, r, IF code = 0 THEN "value" ELSE "default")
    /\ UNCHANGED <<connection, certs>>

\* protected_init_db(): the connection is opened with the password only when it
\* is made; opened again, by database() and by open(), it has none.
Open(c, r) ==
    \E opens \in BOOLEAN :
        /\ opens /\ connection = "closed" => ~Password
        /\ connection = "open" => opens
        /\ connection' = IF opens THEN "open" ELSE "closed"
        /\ IF opens THEN Return(c, r, "value")
           ELSE IF connection = "none" \/ r.trials = 3 THEN Return(c, r, "default")
           ELSE Becomes(c, Pauses(r)) /\ UNCHANGED stack
        /\ UNCHANGED certs

\* getSnapShot(), getReference(), get()
AfterListener(c, r) ==
    /\ Return(c, r, IF r.data THEN "value" ELSE "default")
    /\ UNCHANGED <<connection, certs>>

AfterPause(c, r, code) ==
    IF r.kind = "open"
    THEN IF code = 0 THEN Open(c, [r EXCEPT !.trials = @ + 1])
         ELSE Return(c, r, "default") /\ UNCHANGED <<connection, certs>>
    ELSE /\ Becomes(c, IF code = 0 THEN Ask(r) ELSE [r EXCEPT !.at = "before"])
         /\ UNCHANGED <<stack, connection, certs>>

After(c, code) ==
    LET r == calls[c]
    IN  \/ r.at \in {"pausing", "pause"} /\ AfterPause(c, r, code)
        \/ /\ r.at \in {"before", "loop"}
           /\ \/ r.kind = "future" /\ AfterFuture(c, r, code)
              \/ r.kind = "token" /\ AfterToken(c, r, code)
              \/ r.kind = "certs" /\ AfterCerts(c, r, code)
              \/ r.kind \in Listeners /\ AfterListener(c, r)

-----------------------------------------------------------------------------
(* The main thread.                                                          *)

Call(c, frame) ==
    /\ LoopRuns /\ Depth < MaxDepth
    /\ calls[c] = Unborn /\ \A d \in 1 .. c - 1 : calls[d] # Unborn
    /\ Becomes(c, frame)
    /\ stack' = Append(stack, c)
    /\ UNCHANGED <<connection, certs, quitting, outcome>>

CallFuture(c) ==
    \E complete \in BOOLEAN :
        Call(c, Round([Unborn EXCEPT !.kind = "future", !.data = complete]))

CallToken(c) == Call(c, Ask([Unborn EXCEPT !.kind = "token"]))
CallCerts(c) == Call(c, [Unborn EXCEPT !.kind = "certs", !.at = "before", !.asked = TRUE])
CallOpen(c) == Call(c, [Unborn EXCEPT !.kind = "open", !.at = "opening"])
Listen(c) == \E kind \in Listeners : Call(c, [Unborn EXCEPT !.kind = kind, !.at = "built"])

OnMain(c) == IsRunning /\ IsTop(c) /\ UNCHANGED <<quitting, outcome>>

FirstOpen(c) == OnMain(c) /\ calls[c].at = "opening" /\ Open(c, calls[c])

\* The constructor of a listener: eventLoop, after it was registered.
MakeLoop(c) ==
    /\ OnMain(c) /\ calls[c].at = "built"
    /\ Becomes(c, [calls[c] EXCEPT !.at = "made"])
    /\ UNCHANGED <<stack, connection, certs>>

\* if (hold && eventLoop)
HoldsAlways(c) == TRUE   \* mutant: the flag is not tested
Holds(c) == ~calls[c].data
TestHold(c) ==
    /\ OnMain(c) /\ calls[c].at = "made"
    /\ IF Holds(c)
       THEN Becomes(c, [calls[c] EXCEPT !.at = "before"]) /\ UNCHANGED <<stack, connection, certs>>
       ELSE AfterListener(c, calls[c])

\* exec(): it returns -1 at once when the program quits.
Enter(c) ==
    /\ OnMain(c) /\ calls[c].at \in {"before", "pausing"}
    /\ IF quitting THEN After(c, -1)
       ELSE /\ Becomes(c, [calls[c] EXCEPT !.running = TRUE, !.code = 0, !.nested = FALSE,
                              !.at = IF @ = "before" THEN "loop" ELSE "pause"])
            /\ UNCHANGED <<stack, connection, certs>>

\* exec() returns.
Leave(c) ==
    /\ OnMain(c) /\ InLoop(c) /\ ~calls[c].running
    /\ After(c, calls[c].code)

-----------------------------------------------------------------------------
(* Events.                                                                   *)

\* QEventLoop::exit(code), also of a loop that was told to exit before.
Exited(r, code) == [r EXCEPT !.running = FALSE, !.code = code]

\* The timer of a round makes the loop exit with -1, that of a pause with 0.
ExpiredZero(r) == [Exited(r, 0) EXCEPT !.timer = FALSE]   \* mutant: always with 0
Expired(r) ==
    LET off == [r EXCEPT !.timer = FALSE]
    IN  IF r.at = "pause" THEN Exited(off, 0)
        ELSE IF r.running THEN Exited(off, -1) ELSE off

TimeOut(c) == calls[c].timer /\ Event(c, Expired(calls[c]))

\* "exit" invoked from another thread, or the Quit of a QEventLoopLocker.
Posted(c) == calls[c].posted /\ Event(c, [Exited(calls[c], 0) EXCEPT !.posted = FALSE])

\* The reply, under a QEventLoopLocker of the loop.
Replied(c) == [calls[c] EXCEPT !.asked = FALSE, !.posted = TRUE, !.nested = ~IsTop(c)]
Reply(c) ==
    /\ calls[c].kind = "token" /\ calls[c].asked
    /\ \/ Event(c, [Replied(c) EXCEPT !.data = TRUE])
       \/ Event(c, Exited(Replied(c), -2))

\* One certificate of the reply: the list is searched, and old ones are erased
\* on the way.
Fresh(kid) == [kid |-> kid, old |-> FALSE]
StoredAlways(list, kid) == Append(list, Fresh(kid))   \* mutant: not searched
Kept(list, kid) == {i \in DOMAIN list : ~list[i].old \/ \E j \in 1 .. i : list[j].kid = kid}
Nth(places, n) == CHOOSE i \in places : Cardinality(places \cap (1 .. i)) = n
Stored(list, kid) ==
    LET kept == Kept(list, kid)
        left == [n \in 1 .. Cardinality(kept) |-> list[Nth(kept, n)]]
    IN  IF \E i \in DOMAIN list : list[i].kid = kid THEN left ELSE Append(left, Fresh(kid))

\* The list after the certificates of kids were stored, in order.
StoredAll(list, kids) ==
    LET f[set \in SUBSET kids] ==
            IF set = {} THEN list
            ELSE LET last == CHOOSE k \in set : \A l \in set : l <= k
                 IN  Stored(f[set \ {last}], last)
    IN  f[kids]

\* What cannot be read is skipped; a lock that is taken ends it, with -1.
ReplyCerts(c) ==
    /\ calls[c].kind = "certs" /\ calls[c].asked /\ LoopRuns
    /\ \E kids \in SUBSET Kids, locked \in BOOLEAN :
          /\ certs' = StoredAll(certs, kids)
          /\ Becomes(c, IF locked THEN Exited(Replied(c), -1) ELSE Replied(c))
    /\ UNCHANGED <<stack, connection, quitting, outcome>>

\* key_cache_secs pass.
Age ==
    /\ IsRunning /\ \E i \in DOMAIN certs : ~certs[i].old
    /\ certs' = [i \in DOMAIN certs |-> [certs[i] EXCEPT !.old = TRUE]]
    /\ UNCHANGED <<calls, stack, connection, quitting, outcome>>

\* quit(): every loop on the stack exits with 0.
Quit ==
    /\ LoopRuns /\ quitting' = TRUE
    /\ calls' = [c \in Calls |-> IF InLoop(c) THEN Exited(calls[c], 0) ELSE calls[c]]
    /\ UNCHANGED <<stack, connection, certs, outcome>>

-----------------------------------------------------------------------------
(* Other threads.                                                            *)

\* A thread of the pool registers the callback, through references to variables
\* of the function that waits.
PoolRuns(c) ==
    /\ IsRunning /\ calls[c].queued > 0
    /\ IF calls[c].at = "ended"
       THEN outcome' = "left behind" /\ UNCHANGED calls
       ELSE /\ Becomes(c, [calls[c] EXCEPT !.queued = @ - 1, !.callback = TRUE])
            /\ UNCHANGED outcome
    /\ UNCHANGED <<stack, connection, certs, quitting>>

Elsewhere(c, frame) == IsRunning /\ Becomes(c, frame) /\ OnlyCalls

Complete(c) ==
    /\ calls[c].kind = "future" /\ calls[c].at # "ended" /\ ~calls[c].data
    /\ Elsewhere(c, [calls[c] EXCEPT !.data = TRUE])

\* The callback of a complete future: if (event->isRunning()), exit is posted.
Callback(c) ==
    /\ calls[c].callback /\ calls[c].data
    /\ Elsewhere(c, [calls[c] EXCEPT !.callback = FALSE, !.posted = @ \/ calls[c].running])

\* An event of a listener.  Before there is a loop, one class drops it and the
\* other makes a QEventLoopLocker of a null pointer.
Notify(c) ==
    /\ calls[c].kind \in Listeners /\ calls[c].at # "ended"
    /\ calls[c].seen = "no" /\ calls[c].events < MaxEvents
    /\ LET r == [calls[c] EXCEPT !.events = @ + 1]
       IN  IF r.at = "built" /\ r.kind = "sync"
           THEN /\ IsRunning /\ outcome' = "no loop"
                /\ UNCHANGED <<calls, stack, connection, certs, quitting>>
           ELSE IF r.at = "built" THEN Elsewhere(c, [r EXCEPT !.missed = TRUE])
           ELSE Elsewhere(c, [r EXCEPT !.seen = "stored", !.data = TRUE])

\* Its QEventLoopLocker is destroyed: a loop that is in exec() gets a Quit.
Notified(c) ==
    /\ calls[c].seen = "stored"
    /\ Elsewhere(c, [calls[c] EXCEPT !.seen = "no", !.posted = @ \/ InLoop(c),
                                     !.missed = @ \/ calls[c].at = "before"])

-----------------------------------------------------------------------------
MainStep(c) == FirstOpen(c) \/ MakeLoop(c) \/ TestHold(c) \/ Enter(c) \/ Leave(c)

Next ==
    \/ \E c \in Calls :
          \/ CallFuture(c) \/ CallToken(c) \/ CallCerts(c) \/ CallOpen(c) \/ Listen(c)
          \/ MainStep(c)
          \/ TimeOut(c) \/ Posted(c) \/ Reply(c) \/ ReplyCerts(c)
          \/ PoolRuns(c) \/ Complete(c) \/ Callback(c) \/ Notify(c) \/ Notified(c)
    \/ Age \/ Quit

\* The threads run; a timer runs out and a posted event is taken when a loop
\* takes events often enough, and a download ends, with a reply or by its
\* transfer time-out.  No future, reply of the token service or event of a
\* listener has to come, and no thread of the pool to be free.
Fairness ==
    \A c \in Calls :
        /\ WF_vars(MainStep(c)) /\ WF_vars(Notified(c))
        /\ SF_vars(TimeOut(c)) /\ SF_vars(Posted(c)) /\ SF_vars(ReplyCerts(c))

Spec == Init /\ [][Next]_vars /\ Fairness

-----------------------------------------------------------------------------
(* Properties.                                                               *)

TypeOK ==
    /\ calls \in [Calls -> [
           kind : {"none", "future", "token", "certs", "open"} \cup Listeners,
           at : {"unborn", "built", "made", "opening", "before", "loop", "pausing", "pause", "ended"},
           trials : 0 .. (IF Rounds > 3 THEN Rounds ELSE 3), running : BOOLEAN, code : -2 .. 0,
           posted : BOOLEAN, timer : BOOLEAN, asked : BOOLEAN, queued : 0 .. Rounds + 1,
           callback : BOOLEAN, data : BOOLEAN, events : 0 .. MaxEvents, seen : {"no", "stored"},
           missed : BOOLEAN, nested : BOOLEAN, answer : {"none", "value", "default"}]]
    /\ stack \in Seq(Calls) /\ Depth <= MaxDepth
    /\ connection \in {"none", "closed", "open"}
    /\ certs \in Seq([kid : Kids, old : BOOLEAN])
    /\ quitting \in BOOLEAN
    /\ outcome \in {"running", "left behind", "no loop"}

\* A function gives up only after all its attempts: a future after its last
\* round, a token after a time-out or its third bad reply, a connection after
\* four tries.  The exceptions: the program quits; the connection was being
\* made; and a bad reply that a nested loop handled, whose error code the Quit
\* of the locker overwrites, so that it is not asked again.
GaveUpLate(c) ==
    LET r == calls'[c]
    IN  r.answer = "default" /\ calls[c].answer = "none" /\ ~quitting =>
           /\ r.kind = "future" => r.trials = Rounds
           /\ r.kind = "token" => calls[c].code = -1 \/ r.trials = 3 \/ calls[c].nested
           /\ r.kind = "open" => r.trials = 3 \/ connection = "none"
GivesUpLate == [][\A c \in Calls : GaveUpLate(c)]_vars

\* The variables of OnCompletionSync() outlive its registrations, unless the
\* program quits or the call was in a later round.
LeftOnlyAfterRetry ==
    outcome = "left behind" =>
        \/ quitting
        \/ \E c \in Calls : calls[c].at = "ended" /\ calls[c].queued > 0 /\ calls[c].trials > 0

\* A listener that has an event, and waits with nothing to wake it, got the
\* event before its loop was made or between the test of hold and exec().
StuckOnlyByRace ==
    \A c \in Calls :
        /\ calls[c].kind \in Listeners /\ calls[c].at = "loop" /\ calls[c].running
        /\ calls[c].events > 0 /\ calls[c].seen = "no" /\ ~calls[c].posted
        => calls[c].missed

\* No certificate is stored twice, whatever the age of those that are stored.
CertsDistinct == \A i, j \in DOMAIN certs : certs[i].kid = certs[j].kid => i = j

\* Every call returns, or a listener waits on top of it.
IsWaiting(c) == calls[c].at \notin {"unborn", "ended"}
ListenerOnTop ==
    Depth > 0 /\ calls[Top].kind \in Listeners /\ calls[Top].at = "loop"
EveryWaitEnds ==
    \A c \in Calls : IsWaiting(c) ~> ~IsWaiting(c) \/ ListenerOnTop \/ ~IsRunning
=============================================================================
