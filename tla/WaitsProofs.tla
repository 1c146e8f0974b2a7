---------------------------- MODULE WaitsProofs -----------------------------
(***************************************************************************)
(* Theorems about Waits for every number of calls, depth of the stack,     *)
(* number of events and number of rounds.                                  *)
(***************************************************************************)
EXTENDS Waits, SequenceTheorems, TLAPS

USE WaitsAssumption DEF Listeners

-----------------------------------------------------------------------------
(* The inductive invariant: what is true of one frame, the call of which is  *)
(* on top of the stack or not, while the program quits or does not.          *)

Frame ==
  [kind : {"none", "future", "token", "certs", "open"} \cup Listeners,
   at : {"unborn", "built", "made", "opening", "before", "loop", "pausing", "pause", "ended"},
   trials : Nat, running : BOOLEAN, code : -2 .. 0, posted : BOOLEAN, timer : BOOLEAN,
   asked : BOOLEAN, queued : Nat, callback : BOOLEAN, data : BOOLEAN, events : Nat,
   seen : {"no", "stored"}, missed : BOOLEAN, nested : BOOLEAN,
   answer : {"none", "value", "default"}]

Over(r) == r.at \in {"unborn", "ended"}

\* Where a call can be, and what belongs to which kind.
PlaceInv(r) ==
  /\ r.kind = "none" <=> r.at = "unborn"
  /\ r.kind \in {"future", "certs"} => r.at \in {"before", "loop", "ended"}
  /\ r.kind = "token" => r.at \in {"before", "loop", "pausing", "pause", "ended"}
  /\ r.kind = "open" => r.at \in {"opening", "pausing", "pause", "ended"}
  /\ r.kind \in Listeners => r.at \in {"built", "made", "before", "loop", "ended"}
  /\ r.kind # "future" => r.queued = 0 /\ ~r.callback
  /\ r.kind \notin Listeners => r.seen = "no"
  /\ Over(r) => ~r.posted /\ ~r.timer /\ ~r.asked /\ ~r.callback /\ r.seen = "no"

\* Only the innermost call is outside its loop.
TopInv(r, top) == Over(r) \/ r.at \in {"loop", "pause"} \/ top

\* An event of a listener left data, a wake-up, or was missed.
ListenInv(r) ==
  r.kind \in Listeners /\ r.events > 0 =>
    /\ r.at = "built" => r.missed
    /\ r.at = "made" => r.missed \/ r.data
    /\ r.at = "before" /\ r.seen = "no" => r.missed
    /\ r.at = "loop" /\ r.running /\ r.seen = "no" /\ ~r.posted => r.missed

\* In its first round a future is registered once, before it can exit with 0.
Registered(r) == r.trials = 0 => r.queued = 0

FutureInv(r) ==
  r.kind = "future" =>
    /\ r.at = "ended" => Registered(r)
    /\ r.at # "ended" =>
         /\ r.trials <= Rounds
         /\ r.trials = 0 => r.queued <= 1
         /\ r.posted => r.data
         /\ r.callback \/ r.posted => Registered(r)
         /\ r.at = "loop" /\ ~r.running => r.code = -1 \/ (r.data /\ Registered(r))

\* An exit with 0 of the token's loop has data, unless the error code of a bad
\* reply was overwritten in a nested loop.
TokenInv(r, top) ==
  r.kind = "token" /\ r.at # "ended" =>
    /\ r.trials < 3
    /\ r.at \in {"pausing", "pause"} => ~r.asked /\ ~r.posted
    /\ r.at = "before" => ~r.posted
    /\ r.posted => \/ r.data \/ r.nested
                   \/ top /\ r.at = "loop" /\ ~r.running /\ r.code = -2
    /\ r.at = "loop" /\ ~r.running /\ r.code = 0 => r.data \/ r.nested
    /\ r.at = "loop" /\ ~r.running /\ r.code = -2 => ~r.asked

\* Only the timer of the pause, or quit(), ends the wait for a connection.
OpenInv(r) == r.kind = "open" /\ r.at = "pause" /\ ~r.running => r.code = 0

FrameInv(r, top, quits) ==
  /\ PlaceInv(r) /\ TopInv(r, top) /\ ListenInv(r) /\ OpenInv(r)
  /\ quits \/ (FutureInv(r) /\ TokenInv(r, top))

FramesInv ==
  /\ calls \in [Calls -> Frame]
  /\ \A c \in Calls : FrameInv(calls[c], IsTop(c), quitting)

Inv ==
  /\ FramesInv /\ stack \in Seq(Calls) /\ quitting \in BOOLEAN /\ LeftOnlyAfterRetry

-----------------------------------------------------------------------------
(* What happens to one frame *)

\* A frame stays good when its call comes to the top, or leaves it with its
\* loop running.
LEMMA TopChanges ==
  ASSUME NEW r \in Frame, NEW t \in BOOLEAN, NEW u \in BOOLEAN, NEW quits \in BOOLEAN,
         FrameInv(r, t, quits),
         t => u \/ Over(r) \/ (r.at \in {"loop", "pause"} /\ r.running)
  PROVE  FrameInv(r, u, quits)
  <1>1. TopInv(r, u)
    BY DEF FrameInv, TopInv
  <1>2. TokenInv(r, t) => TokenInv(r, u)
    BY DEF TokenInv, Over, FrameInv, PlaceInv
  <1> QED
    BY <1>1, <1>2 DEF FrameInv

\* The frame of a call that has returned.
Left(r, answer) ==
  [Unborn EXCEPT !.kind = r.kind, !.at = "ended", !.trials = r.trials,
                 !.queued = r.queued, !.answer = answer]

\* Unborn is a good frame.
LEMMA UnbornGood ==
  ASSUME NEW t \in BOOLEAN, NEW quits \in BOOLEAN
  PROVE  Unborn \in Frame /\ FrameInv(Unborn, t, quits)
  BY DEF Unborn, Frame, FrameInv, PlaceInv, TopInv, ListenInv, OpenInv, FutureInv, TokenInv, Over

\* A call returns.
LEMMA LeftGood ==
  ASSUME NEW r \in Frame, r.kind # "none", r.kind # "future" => r.queued = 0,
         NEW quits \in BOOLEAN,
         quits \/ (r.kind = "future" => Registered(r)), NEW t \in BOOLEAN,
         NEW answer \in {"none", "value", "default"}
  PROVE  Left(r, answer) \in Frame /\ FrameInv(Left(r, answer), t, quits)
  <1> DEFINE l == Left(r, answer)
  <1>0. Unborn \in Frame
    BY DEF Unborn, Frame
  <1>1. /\ l.kind = r.kind /\ l.at = "ended" /\ l.queued = r.queued /\ l.trials = r.trials
        /\ ~l.posted /\ ~l.timer /\ ~l.asked /\ ~l.callback /\ l.seen = "no"
        /\ l.events = 0 /\ ~l.running
    BY <1>0 DEF Left, Unborn, Frame
  <1>2. l \in Frame
    BY <1>0 DEF Left, Frame
  <1> HIDE DEF l
  <1>3. PlaceInv(l) /\ TopInv(l, t) /\ ListenInv(l) /\ OpenInv(l)
    BY <1>1 DEF PlaceInv, TopInv, ListenInv, OpenInv, Over, Frame
  <1>4. quits \/ (FutureInv(l) /\ TokenInv(l, t))
    BY <1>1 DEF FutureInv, TokenInv, Registered
  <1> QED
    BY <1>2, <1>3, <1>4 DEF FrameInv, l

-----------------------------------------------------------------------------
(* What a step does to all frames *)

\* What the invariant says of call c.
LEMMA FrameFacts ==
  ASSUME Inv, NEW c \in Calls
  PROVE  /\ calls[c] \in Frame /\ FrameInv(calls[c], IsTop(c), quitting)
         /\ PlaceInv(calls[c]) /\ TopInv(calls[c], IsTop(c)) /\ ListenInv(calls[c])
         /\ OpenInv(calls[c]) /\ IsTop(c) \in BOOLEAN /\ quitting \in BOOLEAN
         /\ quitting \/ (FutureInv(calls[c]) /\ TokenInv(calls[c], IsTop(c)))
  <1>1. calls[c] \in Frame /\ FrameInv(calls[c], IsTop(c), quitting) /\ quitting \in BOOLEAN
    BY DEF Inv, FramesInv
  <1> QED
    BY <1>1 DEF FrameInv, IsTop

\* The frame of one call changes.
LEMMA OneFrame ==
  ASSUME Inv, IsRunning, NEW c \in Calls, NEW r \in Frame,
         FrameInv(r, IsTop(c), quitting), Becomes(c, r),
         UNCHANGED <<stack, quitting>>, outcome' # "left behind"
  PROVE  Inv'
  <1>1. calls' \in [Calls -> Frame]
    BY DEF Inv, FramesInv, Becomes
  <1>2. ASSUME NEW d \in Calls PROVE FrameInv(calls[d], IsTop(d), quitting)'
    <2>1. IsTop(d)' = IsTop(d)
      BY DEF IsTop, Top, Depth
    <2>2. calls'[d] = IF d = c THEN r ELSE calls[d]
      BY DEF Inv, FramesInv, Becomes
    <2>3. FrameInv(calls'[d], IsTop(d), quitting)
      BY <2>2 DEF Inv, FramesInv
    <2> QED
      BY <2>1, <2>3
  <1>3. LeftOnlyAfterRetry'
    BY DEF LeftOnlyAfterRetry
  <1> QED
    BY <1>1, <1>2, <1>3 DEF Inv, FramesInv

\* The innermost call returns.
LEMMA ReturnStep ==
  ASSUME Inv, IsRunning, NEW c \in Calls, IsTop(c), NEW r \in Frame, r.kind # "none",
         r.kind # "future" => r.queued = 0,
         quitting \/ (r.kind = "future" => Registered(r)),
         NEW answer \in {"none", "value", "default"}, Return(c, r, answer),
         UNCHANGED <<quitting, outcome>>
  PROVE  Inv'
  <1> DEFINE l == Left(r, answer)
  <1>1. l \in Frame /\ \A t \in BOOLEAN : FrameInv(l, t, quitting)
    BY LeftGood DEF Inv
  <1> HIDE DEF l
  <1>2. calls' = [calls EXCEPT ![c] = l]
    BY DEF Return, Becomes, l, Left
  <1>3. calls' \in [Calls -> Frame]
    BY <1>1, <1>2 DEF Inv, FramesInv
  <1>4. stack' \in Seq(Calls)
    <2>1. stack \in Seq(Calls) /\ Depth > 0 /\ Depth = Len(stack) /\ Depth \in Nat
      BY LenProperties DEF Inv, IsTop, Depth
    <2>2. 1 \in 1 .. Len(stack) + 1 /\ Depth - 1 \in 1 - 1 .. Len(stack)
      BY <2>1
    <2> QED
      BY <2>1, <2>2, SubSeqProperties DEF Return
  <1>5. ASSUME NEW d \in Calls PROVE FrameInv(calls[d], IsTop(d), quitting)'
    <2>1. IsTop(d)' \in BOOLEAN
      BY DEF IsTop
    <2>2. CASE d = c
      BY <1>1, <1>2, <2>1, <2>2 DEF Inv, FramesInv
    <2>3. CASE d # c
      <3>1. calls'[d] = calls[d] /\ ~IsTop(d)
        BY <1>2, <2>3 DEF Inv, FramesInv, IsTop
      <3> QED
        BY <2>1, <3>1, FrameFacts, TopChanges
    <2> QED
      BY <2>2, <2>3
  <1>6. LeftOnlyAfterRetry'
    BY DEF LeftOnlyAfterRetry, IsRunning
  <1> QED
    BY <1>3, <1>4, <1>5, <1>6 DEF Inv, FramesInv

\* A call is made.
LEMMA CallStep ==
  ASSUME Inv, NEW c \in Calls, NEW r \in Frame, FrameInv(r, TRUE, quitting), Call(c, r)
  PROVE  Inv'
  <1>1. calls' = [calls EXCEPT ![c] = r] /\ stack' = Append(stack, c)
        /\ UNCHANGED <<quitting, outcome>> /\ LoopRuns
    BY DEF Call, Becomes
  <1>2. calls' \in [Calls -> Frame] /\ stack' \in Seq(Calls)
    BY <1>1, AppendProperties DEF Inv, FramesInv
  <1>3. ASSUME NEW d \in Calls PROVE FrameInv(calls[d], IsTop(d), quitting)'
    <2>1. IsTop(d)' <=> d = c
      <3>1. stack \in Seq(Calls) /\ Len(stack) \in Nat /\ Len(stack') = Len(stack) + 1
            /\ stack'[Len(stack) + 1] = c
        BY <1>1, AppendProperties, LenProperties DEF Inv
      <3> QED
        BY <3>1 DEF IsTop, Top, Depth
    <2>2. IsTop(d)' = (d = c)
      BY <2>1 DEF IsTop
    <2>3. CASE d = c
      BY <1>1, <2>2, <2>3 DEF Inv, FramesInv
    <2>4. CASE d # c
      <3>1. calls'[d] = calls[d] /\ IsTop(d)' = FALSE
        BY <1>1, <2>2, <2>4 DEF Inv, FramesInv
      <3>2. IsTop(d) => calls[d].at \in {"loop", "pause"} /\ calls[d].running
        BY <1>1 DEF LoopRuns, InLoop, IsTop
      <3>3. FrameInv(calls[d], FALSE, quitting)
        BY <3>2, FrameFacts, TopChanges
      <3> QED
        BY <1>1, <3>1, <3>3
    <2> QED
      BY <2>3, <2>4
  <1>4. LeftOnlyAfterRetry'
    BY <1>1 DEF LeftOnlyAfterRetry, LoopRuns, IsRunning
  <1> QED
    BY <1>1, <1>2, <1>3, <1>4 DEF Inv, FramesInv

-----------------------------------------------------------------------------
(* Events *)

\* A frame with another value of a field is a frame.
LEMMA FieldTyped ==
  ASSUME NEW r \in Frame, NEW b \in BOOLEAN
  PROVE  /\ [r EXCEPT !.asked = b] \in Frame
         /\ [r EXCEPT !.posted = b] \in Frame
         /\ [r EXCEPT !.nested = b] \in Frame
         /\ [r EXCEPT !.callback = b] \in Frame
         /\ [r EXCEPT !.missed = b] \in Frame
         /\ [r EXCEPT !.seen = "no"] \in Frame
  <1>1. [r EXCEPT !.asked = b] \in Frame
    BY DEF Frame
  <1>2. [r EXCEPT !.posted = b] \in Frame
    BY DEF Frame
  <1>3. [r EXCEPT !.nested = b] \in Frame
    BY DEF Frame
  <1>4. [r EXCEPT !.callback = b] \in Frame
    BY DEF Frame
  <1>5. [r EXCEPT !.missed = b] \in Frame
    BY DEF Frame
  <1>6. [r EXCEPT !.seen = "no"] \in Frame
    BY DEF Frame
  <1> QED
    BY <1>1, <1>2, <1>3, <1>4, <1>5, <1>6

\* A call that was replied to has a frame.
LEMMA RepliedTyped ==
  ASSUME NEW c \in Calls, calls[c] \in Frame
  PROVE  Replied(c) \in Frame
  <1> DEFINE r == calls[c]
             r1 == [r EXCEPT !.asked = FALSE]
             r2 == [r1 EXCEPT !.posted = TRUE]
             r3 == [r2 EXCEPT !.nested = ~IsTop(c)]
  <1>1. r1 \in Frame
    BY FieldTyped
  <1>2. r2 \in Frame
    <2> HIDE DEF r1
    <2> QED
      BY <1>1, FieldTyped
  <1>3. r3 \in Frame
    <2>1. (~IsTop(c)) \in BOOLEAN
      OBVIOUS
    <2> HIDE DEF r2
    <2> QED
      BY <1>2, <2>1, FieldTyped
  <1>4. Replied(c) = r3
    BY DEF Replied
  <1> QED
    BY <1>3, <1>4

\* A loop that is told to exit has a frame.
LEMMA ExitedTyped ==
  ASSUME NEW r \in Frame, NEW code \in -2 .. 0
  PROVE  Exited(r, code) \in Frame
  BY DEF Exited, Frame

\* A timer runs out.
LEMMA TimeOutKeeps ==
  ASSUME Inv, NEW c \in Calls, TimeOut(c)
  PROVE  Inv'
  <1> DEFINE r == calls[c]
             x == Expired(r)
  <1>0. r \in Frame
    BY FrameFacts
  <1>1. Becomes(c, x) /\ UNCHANGED <<stack, quitting, outcome>> /\ IsRunning
    BY DEF TimeOut, Event, OnlyCalls, LoopRuns
  <1>2. r.timer
    BY DEF TimeOut
  <1>3. x \in Frame /\ FrameInv(x, IsTop(c), quitting)
    <2>1. x \in Frame
      <3>1. [r EXCEPT !.timer = FALSE] \in Frame
        BY <1>0 DEF Frame
      <3> QED
        BY <3>1, ExitedTyped DEF Expired
    <2>2. PlaceInv(x) /\ TopInv(x, IsTop(c))
      BY <1>2, FrameFacts DEF PlaceInv, TopInv, Over, Frame, Expired, Exited
    <2>3. ListenInv(x) /\ OpenInv(x)
      BY <1>2, FrameFacts DEF PlaceInv, ListenInv, OpenInv, Over, Frame, InLoop, Expired, Exited
    <2>4. quitting \/ FutureInv(x)
      BY <1>2, FrameFacts DEF PlaceInv, FutureInv, Registered, Over, Frame, Expired, Exited
    <2>5. quitting \/ TokenInv(x, IsTop(c))
      BY <1>2, FrameFacts DEF PlaceInv, TokenInv, Over, Frame, Expired, Exited
    <2> QED
      BY <2>1, <2>2, <2>3, <2>4, <2>5, FrameFacts DEF FrameInv
  <1> HIDE DEF x
  <1> QED
    BY <1>1, <1>3, OneFrame DEF IsRunning

\* An event that was posted to the loop is taken.
LEMMA PostedKeeps ==
  ASSUME Inv, NEW c \in Calls, Posted(c)
  PROVE  Inv'
  <1> DEFINE r == calls[c]
             x == [Exited(r, 0) EXCEPT !.posted = FALSE]
  <1>0. r \in Frame
    BY FrameFacts
  <1>1. Becomes(c, x) /\ UNCHANGED <<stack, quitting, outcome>> /\ IsRunning
    BY DEF Posted, Event, OnlyCalls, LoopRuns
  <1>2. r.posted /\ (IsTop(c) => r.running /\ InLoop(c))
    BY DEF Posted, Event, LoopRuns, InLoop, IsTop
  <1>3. x \in Frame /\ FrameInv(x, IsTop(c), quitting)
    <2>1. x \in Frame
      <3>1. Exited(r, 0) \in Frame
        BY <1>0, ExitedTyped
      <3> QED
        BY <3>1 DEF Frame
    <2>2. PlaceInv(x) /\ TopInv(x, IsTop(c))
      BY <1>2, FrameFacts DEF PlaceInv, TopInv, Over, Frame, Exited
    <2>3. ListenInv(x) /\ OpenInv(x)
      BY <1>2, FrameFacts DEF PlaceInv, ListenInv, OpenInv, Over, Frame, InLoop, Exited
    <2>4. quitting \/ FutureInv(x)
      BY <1>2, FrameFacts DEF PlaceInv, FutureInv, Registered, Over, Frame, Exited
    <2>5. quitting \/ TokenInv(x, IsTop(c))
      BY <1>2, FrameFacts DEF PlaceInv, TokenInv, Over, Frame, Exited
    <2> QED
      BY <2>1, <2>2, <2>3, <2>4, <2>5, FrameFacts DEF FrameInv
  <1> HIDE DEF x
  <1> QED
    BY <1>1, <1>3, OneFrame DEF IsRunning

\* A reply of the token service is read.
LEMMA ReplyKeeps ==
  ASSUME Inv, NEW c \in Calls, Reply(c),
         Event(c, [Replied(c) EXCEPT !.data = TRUE])
  PROVE  Inv'
  <1> DEFINE r == calls[c]
             x == [Replied(c) EXCEPT !.data = TRUE]
  <1>0. r \in Frame
    BY FrameFacts
  <1>1. Becomes(c, x) /\ UNCHANGED <<stack, quitting, outcome>> /\ IsRunning
    BY DEF Reply, Event, OnlyCalls, LoopRuns
  <1>2. /\ r.asked /\ r.kind = "token" /\ r.at \in {"loop", "pause"}
        /\ IsTop(c) => r.running /\ InLoop(c)
    BY FrameFacts DEF Reply, Event, LoopRuns, InLoop, IsTop, TopInv, Over, PlaceInv
  <1>3. x \in Frame /\ FrameInv(x, IsTop(c), quitting)
    <2>1. x \in Frame
      <3>1. Replied(c) \in Frame
        BY <1>0, RepliedTyped
      <3> QED
        BY <3>1 DEF Frame
    <2>2. PlaceInv(x) /\ TopInv(x, IsTop(c))
      BY <1>2, FrameFacts DEF PlaceInv, TopInv, Over, Frame, Replied
    <2>3. ListenInv(x) /\ OpenInv(x)
      BY <1>2, FrameFacts DEF PlaceInv, ListenInv, OpenInv, Over, Frame, InLoop, Replied
    <2>4. quitting \/ FutureInv(x)
      BY <1>2, FrameFacts DEF PlaceInv, FutureInv, Registered, Over, Frame, Replied
    <2>5. quitting \/ TokenInv(x, IsTop(c))
      BY <1>2, FrameFacts DEF PlaceInv, TokenInv, Over, Frame, Replied
    <2> QED
      BY <2>1, <2>2, <2>3, <2>4, <2>5, FrameFacts DEF FrameInv
  <1> HIDE DEF x
  <1> QED
    BY <1>1, <1>3, OneFrame DEF IsRunning

\* A reply of the token service is no JSON.
LEMMA BadReplyKeeps ==
  ASSUME Inv, NEW c \in Calls, Reply(c),
         Event(c, Exited(Replied(c), -2))
  PROVE  Inv'
  <1> DEFINE r == calls[c]
             x == Exited(Replied(c), -2)
  <1>0. r \in Frame
    BY FrameFacts
  <1>1. Becomes(c, x) /\ UNCHANGED <<stack, quitting, outcome>> /\ IsRunning
    BY DEF Reply, Event, OnlyCalls, LoopRuns
  <1>2. /\ r.asked /\ r.kind = "token" /\ r.at \in {"loop", "pause"}
        /\ IsTop(c) => r.running /\ InLoop(c)
    BY FrameFacts DEF Reply, Event, LoopRuns, InLoop, IsTop, TopInv, Over, PlaceInv
  <1>3. x \in Frame /\ FrameInv(x, IsTop(c), quitting)
    <2>1. x \in Frame
      <3>1. Replied(c) \in Frame
        BY <1>0, RepliedTyped
      <3> QED
        BY <3>1, ExitedTyped
    <2>2. PlaceInv(x) /\ TopInv(x, IsTop(c))
      BY <1>2, FrameFacts DEF PlaceInv, TopInv, Over, Frame, Replied, Exited
    <2>3. ListenInv(x) /\ OpenInv(x)
      BY <1>2, FrameFacts DEF PlaceInv, ListenInv, OpenInv, Over, Frame, InLoop, Replied, Exited
    <2>4. quitting \/ FutureInv(x)
      BY <1>2, FrameFacts DEF PlaceInv, FutureInv, Registered, Over, Frame, Replied, Exited
    <2>5. quitting \/ TokenInv(x, IsTop(c))
      <3>1. /\ x.kind = r.kind /\ x.at = r.at /\ x.trials = r.trials /\ ~x.running
            /\ x.data = r.data /\ ~x.asked /\ x.code = -2
            /\ x.nested <=> ~IsTop(c)
        BY <1>0 DEF Frame, Replied, Exited
      <3> HIDE DEF x
      <3> QED
        BY <1>2, <3>1, FrameFacts DEF PlaceInv, TokenInv
    <2> QED
      BY <2>1, <2>2, <2>3, <2>4, <2>5, FrameFacts DEF FrameInv
  <1> HIDE DEF x
  <1> QED
    BY <1>1, <1>3, OneFrame DEF IsRunning

\* A future is complete.
LEMMA CompleteKeeps ==
  ASSUME Inv, NEW c \in Calls, Complete(c)
  PROVE  Inv'
  <1> DEFINE r == calls[c]
             x == [r EXCEPT !.data = TRUE]
  <1>0. r \in Frame
    BY FrameFacts
  <1>1. Becomes(c, x) /\ UNCHANGED <<stack, quitting, outcome>> /\ IsRunning
    BY DEF Complete, Elsewhere, OnlyCalls
  <1>2. r.kind = "future"
    BY DEF Complete
  <1>3. x \in Frame /\ FrameInv(x, IsTop(c), quitting)
    <2>1. x \in Frame
      BY <1>0 DEF Frame
    <2>2. PlaceInv(x) /\ TopInv(x, IsTop(c))
      BY <1>2, FrameFacts DEF PlaceInv, TopInv, Over, Frame
    <2>3. ListenInv(x) /\ OpenInv(x)
      BY <1>2, FrameFacts DEF PlaceInv, ListenInv, OpenInv, Over, Frame, InLoop, Frame
    <2>4. quitting \/ FutureInv(x)
      BY <1>2, FrameFacts DEF PlaceInv, FutureInv, Registered, Over, Frame
    <2>5. quitting \/ TokenInv(x, IsTop(c))
      BY <1>2, FrameFacts DEF PlaceInv, TokenInv, Over, Frame
    <2> QED
      BY <2>1, <2>2, <2>3, <2>4, <2>5, FrameFacts DEF FrameInv
  <1> HIDE DEF x
  <1> QED
    BY <1>1, <1>3, OneFrame DEF IsRunning

\* The callback of a complete future runs.
LEMMA CallbackKeeps ==
  ASSUME Inv, NEW c \in Calls, Callback(c)
  PROVE  Inv'
  <1> DEFINE r == calls[c]
             b == r.posted \/ r.running
             y == [r EXCEPT !.callback = FALSE]
             x == [r EXCEPT !.callback = FALSE, !.posted = @ \/ r.running]
  <1>0. r \in Frame
    BY FrameFacts
  <1>1. Becomes(c, x) /\ UNCHANGED <<stack, quitting, outcome>> /\ IsRunning
    BY DEF Callback, Elsewhere, OnlyCalls
  <1>2. r.callback /\ r.data
    BY DEF Callback
  <1>3. x \in Frame /\ FrameInv(x, IsTop(c), quitting)
    <2>1. x \in Frame
      <3>1. b \in BOOLEAN /\ y \in Frame
        <4>1. b \in BOOLEAN
          BY <1>0 DEF Frame
        <4>2. y \in Frame
          BY <1>0, FieldTyped
        <4> QED
          BY <4>1, <4>2
      <3>2. x = [y EXCEPT !.posted = b]
        BY <1>0 DEF Frame
      <3> HIDE DEF x, y, b
      <3> QED
        BY <3>1, <3>2, FieldTyped
    <2>2. PlaceInv(x) /\ TopInv(x, IsTop(c))
      BY <1>2, FrameFacts DEF PlaceInv, TopInv, Over, Frame
    <2>3. ListenInv(x) /\ OpenInv(x)
      BY <1>2, FrameFacts DEF PlaceInv, ListenInv, OpenInv, Over, Frame, InLoop, Frame
    <2>4. quitting \/ FutureInv(x)
      BY <1>2, FrameFacts DEF PlaceInv, FutureInv, Registered, Over, Frame
    <2>5. quitting \/ TokenInv(x, IsTop(c))
      BY <1>2, FrameFacts DEF PlaceInv, TokenInv, Over, Frame
    <2> QED
      BY <2>1, <2>2, <2>3, <2>4, <2>5, FrameFacts DEF FrameInv
  <1> HIDE DEF x
  <1> QED
    BY <1>1, <1>3, OneFrame DEF IsRunning

\* The callback of a listener ends.
LEMMA NotifiedKeeps ==
  ASSUME Inv, NEW c \in Calls, Notified(c)
  PROVE  Inv'
  <1> DEFINE r == calls[c]
             b == r.posted \/ InLoop(c)
             d == r.missed \/ r.at = "before"
             y == [r EXCEPT !.seen = "no"]
             z == [y EXCEPT !.posted = b]
             x == [r EXCEPT !.seen = "no", !.posted = @ \/ InLoop(c),
                          !.missed = @ \/ r.at = "before"]
  <1>0. r \in Frame
    BY FrameFacts
  <1>1. Becomes(c, x) /\ UNCHANGED <<stack, quitting, outcome>> /\ IsRunning
    BY DEF Notified, Elsewhere, OnlyCalls
  <1>2. r.seen = "stored"
    BY DEF Notified
  <1>3. x \in Frame /\ FrameInv(x, IsTop(c), quitting)
    <2>1. x \in Frame
      <3>1. b \in BOOLEAN /\ d \in BOOLEAN /\ y \in Frame
        <4>1. b \in BOOLEAN /\ d \in BOOLEAN
          BY <1>0 DEF Frame, InLoop
        <4>2. y \in Frame
          BY <1>0, FieldTyped
        <4> QED
          BY <4>1, <4>2
      <3>2. x = [z EXCEPT !.missed = d]
        BY <1>0 DEF Frame
      <3> HIDE DEF x, y, b, d
      <3>3. z \in Frame
        BY <3>1, FieldTyped
      <3> HIDE DEF z
      <3> QED
        BY <3>1, <3>2, <3>3, FieldTyped
    <2>2. PlaceInv(x) /\ TopInv(x, IsTop(c))
      BY <1>2, FrameFacts DEF PlaceInv, TopInv, Over, Frame, InLoop
    <2>3. ListenInv(x) /\ OpenInv(x)
      <3>1. /\ x.kind = r.kind /\ x.at = r.at /\ x.running = r.running /\ x.events = r.events
            /\ x.data = r.data /\ x.seen = "no" /\ x.code = r.code
            /\ x.posted <=> r.posted \/ InLoop(c)
            /\ x.missed <=> r.missed \/ r.at = "before"
        BY <1>0 DEF Frame
      <3> HIDE DEF x
      <3> QED
        BY <1>2, <3>1, FrameFacts DEF PlaceInv, ListenInv, OpenInv, InLoop
    <2>4. quitting \/ FutureInv(x)
      BY <1>2, FrameFacts DEF PlaceInv, FutureInv, Registered, Over, Frame, InLoop
    <2>5. quitting \/ TokenInv(x, IsTop(c))
      BY <1>2, FrameFacts DEF PlaceInv, TokenInv, Over, Frame, InLoop
    <2> QED
      BY <2>1, <2>2, <2>3, <2>4, <2>5, FrameFacts DEF FrameInv
  <1> HIDE DEF x
  <1> QED
    BY <1>1, <1>3, OneFrame DEF IsRunning

\* A reply with certificates is read.
LEMMA ReplyCertsKeeps ==
  ASSUME Inv, NEW c \in Calls, ReplyCerts(c),
         NEW locked \in BOOLEAN,
         Becomes(c, IF locked THEN Exited(Replied(c), -1) ELSE Replied(c))
  PROVE  Inv'
  <1> DEFINE r == calls[c]
             x == IF locked THEN Exited(Replied(c), -1) ELSE Replied(c)
  <1>0. r \in Frame
    BY FrameFacts
  <1>1. Becomes(c, x) /\ UNCHANGED <<stack, quitting, outcome>> /\ IsRunning
    BY DEF ReplyCerts, LoopRuns, IsRunning
  <1>2. r.asked /\ r.kind = "certs"
    BY DEF ReplyCerts
  <1>3. x \in Frame /\ FrameInv(x, IsTop(c), quitting)
    <2>1. x \in Frame
      <3>1. Replied(c) \in Frame
        BY <1>0, RepliedTyped
      <3> QED
        BY <3>1, ExitedTyped
    <2>2. PlaceInv(x) /\ TopInv(x, IsTop(c))
      BY <1>2, FrameFacts DEF PlaceInv, TopInv, Over, Frame, Replied, Exited
    <2>3. ListenInv(x) /\ OpenInv(x)
      BY <1>2, FrameFacts DEF PlaceInv, ListenInv, OpenInv, Over, Frame, InLoop, Replied, Exited
    <2>4. quitting \/ FutureInv(x)
      BY <1>2, FrameFacts DEF PlaceInv, FutureInv, Registered, Over, Frame, Replied, Exited
    <2>5. quitting \/ TokenInv(x, IsTop(c))
      BY <1>2, FrameFacts DEF PlaceInv, TokenInv, Over, Frame, Replied, Exited
    <2> QED
      BY <2>1, <2>2, <2>3, <2>4, <2>5, FrameFacts DEF FrameInv
  <1> HIDE DEF x
  <1> QED
    BY <1>1, <1>3, OneFrame DEF IsRunning

\* A thread of the pool registers the callback of a call.
LEMMA RegistrationKeeps ==
  ASSUME Inv, NEW c \in Calls, PoolRuns(c),
         calls[c].at # "ended"
  PROVE  Inv'
  <1> DEFINE r == calls[c]
             x == [r EXCEPT !.queued = @ - 1, !.callback = TRUE]
  <1>0. r \in Frame
    BY FrameFacts
  <1>1. Becomes(c, x) /\ UNCHANGED <<stack, quitting, outcome>> /\ IsRunning
    BY DEF PoolRuns, IsRunning
  <1>2. r.queued > 0 /\ r.kind = "future" /\ r.at # "ended" /\ r.at # "unborn"
    BY FrameFacts DEF PoolRuns, PlaceInv
  <1>3. x \in Frame /\ FrameInv(x, IsTop(c), quitting)
    <2>1. x \in Frame
      <3>1. r.queued - 1 \in Nat
        BY <1>0, <1>2 DEF Frame
      <3> QED
        BY <1>0, <3>1 DEF Frame
    <2>2. PlaceInv(x) /\ TopInv(x, IsTop(c))
      BY <1>2, FrameFacts DEF PlaceInv, TopInv, Over, Frame
    <2>3. ListenInv(x) /\ OpenInv(x)
      BY <1>2, FrameFacts DEF PlaceInv, ListenInv, OpenInv, Over, Frame, InLoop, Frame
    <2>4. quitting \/ FutureInv(x)
      BY <1>2, FrameFacts DEF PlaceInv, FutureInv, Registered, Over, Frame
    <2>5. quitting \/ TokenInv(x, IsTop(c))
      BY <1>2, FrameFacts DEF PlaceInv, TokenInv, Over, Frame
    <2> QED
      BY <2>1, <2>2, <2>3, <2>4, <2>5, FrameFacts DEF FrameInv
  <1> HIDE DEF x
  <1> QED
    BY <1>1, <1>3, OneFrame DEF IsRunning

\* An event of a listener that has no loop.
LEMMA DroppedKeeps ==
  ASSUME Inv, NEW c \in Calls, Notify(c),
         calls[c].at = "built", calls[c].kind # "sync"
  PROVE  Inv'
  <1> DEFINE r == calls[c]
             x == [[r EXCEPT !.events = @ + 1] EXCEPT !.missed = TRUE]
  <1>0. r \in Frame
    BY FrameFacts
  <1>1. Becomes(c, x) /\ UNCHANGED <<stack, quitting, outcome>> /\ IsRunning
    <2>1. [r EXCEPT !.events = @ + 1].at = r.at /\ [r EXCEPT !.events = @ + 1].kind = r.kind
      BY <1>0 DEF Frame
    <2> QED
      BY <2>1 DEF Notify, Elsewhere, OnlyCalls
  <1>2. r.kind \in Listeners /\ r.at = "built"
    BY DEF Notify
  <1>3. x \in Frame /\ FrameInv(x, IsTop(c), quitting)
    <2>1. x \in Frame
      <3>1. r.events + 1 \in Nat
        BY <1>0, <1>2 DEF Frame
      <3> QED
        BY <1>0, <3>1 DEF Frame
    <2>2. PlaceInv(x) /\ TopInv(x, IsTop(c))
      BY <1>2, FrameFacts DEF PlaceInv, TopInv, Over, Frame
    <2>3. ListenInv(x) /\ OpenInv(x)
      BY <1>2, FrameFacts DEF PlaceInv, ListenInv, OpenInv, Over, Frame, InLoop, Frame
    <2>4. quitting \/ FutureInv(x)
      BY <1>2, FrameFacts DEF PlaceInv, FutureInv, Registered, Over, Frame
    <2>5. quitting \/ TokenInv(x, IsTop(c))
      BY <1>2, FrameFacts DEF PlaceInv, TokenInv, Over, Frame
    <2> QED
      BY <2>1, <2>2, <2>3, <2>4, <2>5, FrameFacts DEF FrameInv
  <1> HIDE DEF x
  <1> QED
    BY <1>1, <1>3, OneFrame DEF IsRunning

\* An event of a listener is stored.
LEMMA StoredKeeps ==
  ASSUME Inv, NEW c \in Calls, Notify(c),
         calls[c].at # "built"
  PROVE  Inv'
  <1> DEFINE r == calls[c]
             x == [[r EXCEPT !.events = @ + 1] EXCEPT !.seen = "stored", !.data = TRUE]
  <1>0. r \in Frame
    BY FrameFacts
  <1>1. Becomes(c, x) /\ UNCHANGED <<stack, quitting, outcome>> /\ IsRunning
    <2>1. [r EXCEPT !.events = @ + 1].at = r.at /\ [r EXCEPT !.events = @ + 1].kind = r.kind
      BY <1>0 DEF Frame
    <2> QED
      BY <2>1 DEF Notify, Elsewhere, OnlyCalls
  <1>2. r.kind \in Listeners /\ r.at # "built" /\ ~Over(r)
    BY FrameFacts DEF Notify, PlaceInv, Over
  <1>3. x \in Frame /\ FrameInv(x, IsTop(c), quitting)
    <2>1. x \in Frame
      <3>1. r.events + 1 \in Nat
        BY <1>0, <1>2 DEF Frame
      <3> QED
        BY <1>0, <3>1 DEF Frame
    <2>2. PlaceInv(x) /\ TopInv(x, IsTop(c))
      BY <1>2, FrameFacts DEF PlaceInv, TopInv, Over, Frame
    <2>3. ListenInv(x) /\ OpenInv(x)
      BY <1>2, FrameFacts DEF PlaceInv, ListenInv, OpenInv, Over, Frame, InLoop, Frame
    <2>4. quitting \/ FutureInv(x)
      BY <1>2, FrameFacts DEF PlaceInv, FutureInv, Registered, Over, Frame
    <2>5. quitting \/ TokenInv(x, IsTop(c))
      BY <1>2, FrameFacts DEF PlaceInv, TokenInv, Over, Frame
    <2> QED
      BY <2>1, <2>2, <2>3, <2>4, <2>5, FrameFacts DEF FrameInv
  <1> HIDE DEF x
  <1> QED
    BY <1>1, <1>3, OneFrame DEF IsRunning

\* Nothing happens to the frames.
LEMMA SameFrames ==
  ASSUME Inv, UNCHANGED <<calls, stack, quitting>>, LeftOnlyAfterRetry'
  PROVE  Inv'
  BY DEF Inv, FramesInv, IsTop, Top, Depth

\* A registration, of a call that waits or of one that has returned.
LEMMA PoolRunsKeeps ==
  ASSUME Inv, NEW c \in Calls, PoolRuns(c)
  PROVE  Inv'
  <1>1. CASE calls[c].at = "ended"
    <2>1. UNCHANGED <<calls, stack, quitting>>
      BY <1>1 DEF PoolRuns
    <2>2. quitting \/ calls[c].trials > 0
      <3>1. calls[c].queued > 0 /\ calls[c].queued \in Nat /\ calls[c].trials \in Nat
        BY FrameFacts DEF PoolRuns, Frame
      <3>2. calls[c].kind = "future"
        BY <3>1, FrameFacts DEF PlaceInv
      <3> QED
        BY <1>1, <3>1, <3>2, FrameFacts DEF FutureInv, Registered
    <2>3. calls[c].queued > 0
      BY DEF PoolRuns
    <2> QED
      BY <1>1, <2>1, <2>2, <2>3, SameFrames DEF LeftOnlyAfterRetry
  <1>2. CASE calls[c].at # "ended"
    BY <1>2, RegistrationKeeps
  <1> QED
    BY <1>1, <1>2

\* An event of a listener.
LEMMA NotifyKeeps ==
  ASSUME Inv, NEW c \in Calls, Notify(c)
  PROVE  Inv'
  <1>1. CASE calls[c].at = "built" /\ calls[c].kind = "sync"
    <2>1. /\ [calls[c] EXCEPT !.events = @ + 1].at = calls[c].at
          /\ [calls[c] EXCEPT !.events = @ + 1].kind = calls[c].kind
      BY FrameFacts DEF Frame
    <2>2. UNCHANGED <<calls, stack, quitting>> /\ outcome' = "no loop"
      BY <1>1, <2>1 DEF Notify
    <2> QED
      BY <2>2, SameFrames DEF LeftOnlyAfterRetry
  <1>2. CASE calls[c].at = "built" /\ calls[c].kind # "sync"
    BY <1>2, DroppedKeeps
  <1>3. CASE calls[c].at # "built"
    BY <1>3, StoredKeeps
  <1> QED
    BY <1>1, <1>2, <1>3

\* Every loop on the stack is told to exit.
LEMMA QuitKeeps ==
  ASSUME Inv, Quit
  PROVE  Inv'
  <1>1. ASSUME NEW c \in Calls
        PROVE  calls'[c] \in Frame /\ FrameInv(calls'[c], IsTop(c), TRUE)
    <2> DEFINE r == calls[c]
               x == Exited(r, 0)
    <2>1. calls'[c] = IF InLoop(c) THEN x ELSE r
      BY DEF Quit
    <2>2. r \in Frame
      BY FrameFacts
    <2>3. x \in Frame
      BY <2>2, ExitedTyped
    <2>4. InLoop(c) => PlaceInv(x) /\ TopInv(x, IsTop(c)) /\ ListenInv(x) /\ OpenInv(x)
      BY <2>2, FrameFacts DEF Exited, PlaceInv, TopInv, ListenInv, OpenInv, Over, Frame, InLoop
    <2> HIDE DEF x
    <2> QED
      BY <2>1, <2>2, <2>3, <2>4, FrameFacts DEF FrameInv
  <1>2. calls' \in [Calls -> Frame]
    BY <1>1 DEF Quit
  <1>3. \A c \in Calls : IsTop(c)' = IsTop(c)
    BY DEF Quit, IsTop, Top, Depth
  <1>4. LeftOnlyAfterRetry'
    BY DEF Quit, LeftOnlyAfterRetry
  <1> QED
    BY <1>1, <1>2, <1>3, <1>4 DEF Inv, FramesInv, Quit
-----------------------------------------------------------------------------
(* The main thread *)

\* The frame of a call that begins.
LEMMA Begins ==
  ASSUME Inv, NEW c \in Calls, NEW r \in Frame, Call(c, r), PlaceInv(r),
         r.trials = 0, ~r.running, ~r.posted, r.queued \in 0 .. 1, ~r.callback, r.events = 0,
         r.at \in {"before", "opening", "built"}
  PROVE  Inv'
  <1>1. TopInv(r, TRUE) /\ ListenInv(r) /\ OpenInv(r)
    BY DEF TopInv, ListenInv, OpenInv
  <1>2. FutureInv(r) /\ TokenInv(r, TRUE)
    BY DEF FutureInv, TokenInv
  <1> QED
    BY <1>1, <1>2, CallStep DEF FrameInv

\* A call of each kind is made.
LEMMA CallsKeep ==
  ASSUME Inv, NEW c \in Calls,
         CallFuture(c) \/ CallToken(c) \/ CallCerts(c) \/ CallOpen(c) \/ Listen(c)
  PROVE  Inv'
  <1>0. Unborn \in Frame
    BY UnbornGood
  <1>1. CASE CallFuture(c)
    <2>1. PICK complete \in BOOLEAN :
            Call(c, Round([Unborn EXCEPT !.kind = "future", !.data = complete]))
      BY <1>1 DEF CallFuture
    <2> DEFINE u == [Unborn EXCEPT !.kind = "future", !.data = complete]
               x == Round(u)
    <2>2. u \in Frame /\ u.trials = 0 /\ u.queued = 0
      BY <1>0 DEF Unborn, Frame
    <2>3. x \in Frame
      <3>1. (IF u.trials = 0 \/ u.data THEN u.queued + 1 ELSE u.queued) \in Nat
        BY <2>2
      <3> HIDE DEF u
      <3> QED
        BY <2>2, <3>1 DEF Round, Frame
    <2>4. /\ x.trials = 0 /\ ~x.running /\ ~x.posted /\ x.queued = 1 /\ ~x.callback
          /\ x.events = 0 /\ x.at = "before" /\ x.kind = "future" /\ x.seen = "no"
      BY <2>2 DEF Round, Unborn
    <2> HIDE DEF x
    <2>5. PlaceInv(x)
      BY <2>4 DEF PlaceInv, Over
    <2> QED
      BY <2>1, <2>3, <2>4, <2>5, Begins DEF x
  <1>2. CASE CallToken(c)
    <2> DEFINE x == Ask([Unborn EXCEPT !.kind = "token"])
    <2>1. x \in Frame
      BY <1>0 DEF Ask, Frame
    <2>2. /\ x.trials = 0 /\ ~x.running /\ ~x.posted /\ x.queued = 0 /\ ~x.callback
          /\ x.events = 0 /\ x.at = "before" /\ x.kind = "token" /\ x.seen = "no"
      BY DEF Ask, Unborn
    <2>3. Call(c, x)
      BY <1>2 DEF CallToken
    <2> HIDE DEF x
    <2>4. PlaceInv(x)
      BY <2>2 DEF PlaceInv, Over
    <2> QED
      BY <2>1, <2>2, <2>3, <2>4, Begins
  <1>3. CASE CallCerts(c)
    <2> DEFINE x == [Unborn EXCEPT !.kind = "certs", !.at = "before", !.asked = TRUE]
    <2>1. x \in Frame
      BY <1>0 DEF Frame
    <2>2. /\ x.trials = 0 /\ ~x.running /\ ~x.posted /\ x.queued = 0 /\ ~x.callback
          /\ x.events = 0 /\ x.at = "before" /\ x.kind = "certs" /\ x.seen = "no"
      BY DEF Unborn
    <2>3. Call(c, x)
      BY <1>3 DEF CallCerts
    <2> HIDE DEF x
    <2>4. PlaceInv(x)
      BY <2>2 DEF PlaceInv, Over
    <2> QED
      BY <2>1, <2>2, <2>3, <2>4, Begins
  <1>4. CASE CallOpen(c)
    <2> DEFINE x == [Unborn EXCEPT !.kind = "open", !.at = "opening"]
    <2>1. x \in Frame
      BY <1>0 DEF Frame
    <2>2. /\ x.trials = 0 /\ ~x.running /\ ~x.posted /\ x.queued = 0 /\ ~x.callback
          /\ x.events = 0 /\ x.at = "opening" /\ x.kind = "open" /\ x.seen = "no"
      BY DEF Unborn
    <2>3. Call(c, x)
      BY <1>4 DEF CallOpen
    <2> HIDE DEF x
    <2>4. PlaceInv(x)
      BY <2>2 DEF PlaceInv, Over
    <2> QED
      BY <2>1, <2>2, <2>3, <2>4, Begins
  <1>5. CASE Listen(c)
    <2>1. PICK kind \in Listeners : Call(c, [Unborn EXCEPT !.kind = kind, !.at = "built"])
      BY <1>5 DEF Listen
    <2> DEFINE x == [Unborn EXCEPT !.kind = kind, !.at = "built"]
    <2>2. x \in Frame
      BY <1>0 DEF Frame
    <2>3. /\ x.trials = 0 /\ ~x.running /\ ~x.posted /\ x.queued = 0 /\ ~x.callback
          /\ x.events = 0 /\ x.at = "built" /\ x.kind \in Listeners
      BY DEF Unborn
    <2>4. Call(c, x)
      BY <2>1
    <2> HIDE DEF x
    <2>5. PlaceInv(x)
      BY <2>3 DEF PlaceInv, Over
    <2> QED
      BY <2>2, <2>3, <2>4, <2>5, Begins
  <1> QED
    BY <1>1, <1>2, <1>3, <1>4, <1>5

\* The frame of a call that is not over changes on the main thread.
LEMMA Continues ==
  ASSUME Inv, NEW c \in Calls, NEW r \in Frame, OnMain(c), Becomes(c, r), UNCHANGED stack,
         PlaceInv(r), ListenInv(r), OpenInv(r),
         quitting \/ (FutureInv(r) /\ TokenInv(r, TRUE))
  PROVE  Inv'
  <1>1. IsTop(c) = TRUE /\ IsRunning /\ UNCHANGED <<quitting, outcome>>
    BY DEF OnMain, IsTop
  <1>2. FrameInv(r, IsTop(c), quitting)
    BY <1>1 DEF FrameInv, TopInv
  <1> QED
    BY <1>1, <1>2, OneFrame DEF IsRunning

\* A call returns on the main thread.
LEMMA Returns ==
  ASSUME Inv, NEW c \in Calls, OnMain(c), NEW r \in Frame, r.kind # "none",
         r.kind # "future" => r.queued = 0,
         quitting \/ (r.kind = "future" => Registered(r)),
         NEW answer \in {"none", "value", "default"}, Return(c, r, answer)
  PROVE  Inv'
  BY ReturnStep DEF OnMain

\* The loop of a future has ended.
LEMMA AfterFutureKeeps ==
  ASSUME Inv, NEW c \in Calls, NEW code \in -2 .. 0, OnMain(c), calls[c].kind = "future",
         calls[c].at # "ended", AfterFuture(c, calls[c], code),
         quitting \/ code = -1 \/ Registered(calls[c])
  PROVE  Inv'
  <1> DEFINE r == calls[c]
             n == [r EXCEPT !.trials = @ + 1]
             x == Round(n)
  <1>0. r \in Frame
    BY FrameFacts
  <1>1. CASE code = -1 /\ HasRound(r)
    <2>1. r.trials + 1 \in Nat /\ r.queued + 1 \in Nat /\ r.trials + 1 # 0
      BY <1>0 DEF Frame
    <2>2. n \in Frame /\ n.queued = r.queued /\ n.trials = r.trials + 1 /\ n.data = r.data
      BY <1>0, <2>1 DEF Frame
    <2>3. x \in Frame
      <3>1. (IF n.trials = 0 \/ n.data THEN n.queued + 1 ELSE n.queued) \in Nat
        BY <2>1, <2>2 DEF Frame
      <3> HIDE DEF n
      <3> QED
        BY <2>2, <3>1 DEF Round, Frame
    <2>4. /\ x.kind = "future" /\ x.at = "before" /\ x.trials = r.trials + 1
          /\ x.posted = r.posted /\ x.data = r.data /\ x.seen = r.seen
      BY <1>0 DEF Round, Frame
    <2>5. Becomes(c, x) /\ UNCHANGED stack
      BY <1>1 DEF AfterFuture
    <2> HIDE DEF x
    <2>6. PlaceInv(x) /\ ListenInv(x) /\ OpenInv(x)
      BY <2>4, FrameFacts DEF PlaceInv, ListenInv, OpenInv, Over
    <2>7. quitting \/ (FutureInv(x) /\ TokenInv(x, TRUE))
      <3>1. r.trials + 1 <= Rounds
        BY <1>0, <1>1 DEF HasRound, Frame
      <3> QED
        BY <2>1, <2>4, <3>1, FrameFacts DEF FutureInv, TokenInv, Registered
    <2> QED
      BY <2>3, <2>5, <2>6, <2>7, Continues
  <1>2. CASE ~(code = -1 /\ HasRound(r))
    <2>1. Return(c, r, IF r.data THEN "value" ELSE "default")
      BY <1>2 DEF AfterFuture
    <2>2. quitting \/ Registered(r)
      BY <1>0, <1>2 DEF HasRound, Registered, Frame
    <2> QED
      BY <1>0, <2>1, <2>2, Returns
  <1> QED
    BY <1>1, <1>2

\* The loop of a token has ended.
LEMMA AfterTokenKeeps ==
  ASSUME Inv, NEW c \in Calls, NEW code \in -2 .. 0, OnMain(c), calls[c].kind = "token",
         calls[c].at # "ended", AfterToken(c, calls[c], code),
         quitting \/ code # -2 \/ ~calls[c].asked
  PROVE  Inv'
  <1> DEFINE r == calls[c]
             n == IF code = -2 THEN [r EXCEPT !.trials = @ + 1] ELSE r
             x == Pauses(n)
  <1>0. r \in Frame /\ r.queued = 0 /\ ~r.callback /\ r.seen = "no"
    BY FrameFacts DEF PlaceInv
  <1>1. r.trials + 1 \in Nat
    BY <1>0 DEF Frame
  <1>2. n \in Frame /\ n.kind = "token" /\ n.queued = 0
    <2>1. n \in Frame
      BY <1>0, <1>1 DEF Frame
    <2>2. n.kind = "token" /\ n.queued = 0
      BY <1>0 DEF Frame
    <2> QED
      BY <2>1, <2>2
  <1>3. CASE code = -2 /\ n.trials < 3
    <2>1. x \in Frame
      <3>1. n \in Frame
        BY <1>2
      <3> HIDE DEF n
      <3>2. Pauses(n) \in Frame
        BY <3>1 DEF Pauses, Frame
      <3> QED
        BY <3>2
    <2>2. /\ x.kind = "token" /\ x.at = "pausing" /\ x.trials = n.trials /\ ~x.posted
          /\ x.asked = r.asked /\ x.queued = 0 /\ ~x.callback /\ x.seen = "no"
      BY <1>0, <1>2, <1>3 DEF Pauses, Frame
    <2>3. Becomes(c, x) /\ UNCHANGED stack
      BY <1>3 DEF AfterToken
    <2> HIDE DEF x
    <2>4. PlaceInv(x) /\ ListenInv(x) /\ OpenInv(x)
      BY <2>2 DEF PlaceInv, ListenInv, OpenInv, Over
    <2>5. quitting \/ (FutureInv(x) /\ TokenInv(x, TRUE))
      BY <1>3, <2>2 DEF FutureInv, TokenInv
    <2> QED
      BY <2>1, <2>3, <2>4, <2>5, Continues
  <1>4. CASE ~(code = -2 /\ n.trials < 3)
    <2>1. Return(c, n, IF r.data THEN "value" ELSE "default")
      BY <1>4 DEF AfterToken
    <2> HIDE DEF n
    <2> QED
      BY <1>2, <2>1, Returns
  <1> QED
    BY <1>3, <1>4

\* The connection is opened or not.
LEMMA OpenKeeps ==
  ASSUME Inv, NEW c \in Calls, OnMain(c), NEW r \in Frame, r.kind = "open", r.queued = 0,
         ~r.callback, r.seen = "no", Open(c, r)
  PROVE  Inv'
  <1> DEFINE x == Pauses(r)
  <1>1. x \in Frame
    BY DEF Pauses, Frame
  <1>2. /\ x.kind = "open" /\ x.at = "pausing" /\ x.queued = 0 /\ ~x.callback
        /\ x.seen = "no"
    BY DEF Pauses, Frame
  <1>3. \/ Return(c, r, "value") \/ Return(c, r, "default")
        \/ Becomes(c, x) /\ UNCHANGED stack
    BY DEF Open
  <1> HIDE DEF x
  <1>4. PlaceInv(x) /\ ListenInv(x) /\ OpenInv(x) /\ FutureInv(x) /\ TokenInv(x, TRUE)
    BY <1>2 DEF PlaceInv, ListenInv, OpenInv, FutureInv, TokenInv, Over
  <1> QED
    BY <1>1, <1>3, <1>4, Continues, Returns

\* A pause has ended.
LEMMA AfterPauseKeeps ==
  ASSUME Inv, NEW c \in Calls, NEW code \in -2 .. 0, OnMain(c),
         calls[c].at \in {"pausing", "pause"}, AfterPause(c, calls[c], code)
  PROVE  Inv'
  <1> DEFINE r == calls[c]
             n == [r EXCEPT !.trials = @ + 1]
             x == IF code = 0 THEN Ask(r) ELSE [r EXCEPT !.at = "before"]
  <1>0. /\ r \in Frame /\ r.kind \in {"token", "open"} /\ r.queued = 0 /\ ~r.callback
        /\ r.seen = "no"
    BY FrameFacts DEF PlaceInv, Frame
  <1>1. CASE r.kind = "open"
    <2>1. r.trials + 1 \in Nat
      BY <1>0 DEF Frame
    <2>2. n \in Frame /\ n.kind = "open" /\ n.queued = 0 /\ ~n.callback /\ n.seen = "no"
      BY <1>0, <1>1, <2>1 DEF Frame
    <2>3. Open(c, n) \/ Return(c, r, "default")
      BY <1>1 DEF AfterPause
    <2> HIDE DEF n
    <2> QED
      BY <1>0, <1>1, <2>2, <2>3, OpenKeeps, Returns
  <1>2. CASE r.kind = "token"
    <2>1. x \in Frame
      <3>1. Ask(r) \in Frame
        BY <1>0 DEF Ask, Frame
      <3>2. [r EXCEPT !.at = "before"] \in Frame
        BY <1>0 DEF Frame
      <3> QED
        BY <3>1, <3>2
    <2>2. /\ x.kind = "token" /\ x.at = "before" /\ x.trials = r.trials
          /\ x.posted = r.posted /\ x.queued = 0 /\ ~x.callback /\ x.seen = "no"
      BY <1>0, <1>2 DEF Ask, Frame
    <2>3. Becomes(c, x) /\ UNCHANGED stack
      BY <1>2 DEF AfterPause
    <2> HIDE DEF x
    <2>4. PlaceInv(x) /\ ListenInv(x) /\ OpenInv(x)
      BY <2>2 DEF PlaceInv, ListenInv, OpenInv, Over
    <2>5. quitting \/ (FutureInv(x) /\ TokenInv(x, TRUE))
      BY <1>2, <2>2, FrameFacts DEF FutureInv, TokenInv
    <2> QED
      BY <2>1, <2>3, <2>4, <2>5, Continues
  <1> QED
    BY <1>0, <1>1, <1>2

\* exec() has returned, or has not waited because the program quits.
LEMMA AfterKeeps ==
  ASSUME Inv, NEW c \in Calls, NEW code \in -2 .. 0, OnMain(c), After(c, code),
         quitting \/ (InLoop(c) /\ ~calls[c].running /\ code = calls[c].code)
  PROVE  Inv'
  <1> DEFINE r == calls[c]
  <1>1. CASE r.at \in {"pausing", "pause"}
    BY <1>1, AfterPauseKeeps DEF After
  <1>2. CASE r.at \in {"before", "loop"} /\ r.kind = "future" /\ AfterFuture(c, r, code)
    <2>1. quitting \/ code = -1 \/ Registered(r)
      BY <1>2, FrameFacts DEF FutureInv, InLoop
    <2> QED
      BY <1>2, <2>1, AfterFutureKeeps
  <1>3. CASE r.at \in {"before", "loop"} /\ r.kind = "token" /\ AfterToken(c, r, code)
    <2>1. quitting \/ code # -2 \/ ~r.asked
      BY <1>3, FrameFacts DEF TokenInv, InLoop
    <2> QED
      BY <1>3, <2>1, AfterTokenKeeps
  <1>4. CASE \/ r.kind = "certs" /\ AfterCerts(c, r, code)
             \/ r.kind \in Listeners /\ AfterListener(c, r)
    <2>1. r \in Frame /\ r.queued = 0
      BY <1>4, FrameFacts DEF PlaceInv
    <2>2. Return(c, r, "value") \/ Return(c, r, "default")
      BY <1>4 DEF AfterCerts, AfterListener
    <2> QED
      BY <1>4, <2>1, <2>2, Returns
  <1> QED
    BY <1>1, <1>2, <1>3, <1>4 DEF After

\* A loop that begins has a frame.
LEMMA LoopTyped ==
  ASSUME NEW r \in Frame, NEW code \in -2 .. 0, NEW at \in {"loop", "pause"}
  PROVE  [r EXCEPT !.running = TRUE, !.code = code, !.nested = FALSE, !.at = at] \in Frame
  <1> DEFINE n == [r EXCEPT !.running = TRUE, !.code = code]
             m == [n EXCEPT !.nested = FALSE]
             k == [m EXCEPT !.at = at]
  <1>1. n \in Frame
    BY DEF Frame
  <1>2. m \in Frame
    <2> HIDE DEF n
    <2> QED
      BY <1>1, FieldTyped
  <1>3. k \in Frame
    <2> HIDE DEF m
    <2> QED
      BY <1>2 DEF Frame
  <1> QED
    BY <1>3

\* Each step of the main thread.
LEMMA MainKeeps ==
  ASSUME Inv, NEW c \in Calls, MainStep(c)
  PROVE  Inv'
  <1> DEFINE r == calls[c]
  <1>0. r \in Frame /\ OnMain(c)
    BY FrameFacts DEF MainStep, FirstOpen, MakeLoop, TestHold, Enter, Leave
  <1>1. CASE FirstOpen(c)
    <2>1. r.kind = "open" /\ r.queued = 0 /\ ~r.callback /\ r.seen = "no"
      BY <1>0, <1>1, FrameFacts DEF FirstOpen, PlaceInv, Frame
    <2> QED
      BY <1>0, <1>1, <2>1, OpenKeeps DEF FirstOpen
  <1>2. CASE MakeLoop(c)
    <2> DEFINE x == [r EXCEPT !.at = "made"]
    <2>1. x \in Frame
      BY <1>0 DEF Frame
    <2>2. r.at = "built" /\ r.kind \in Listeners
      BY <1>0, <1>2, FrameFacts DEF MakeLoop, PlaceInv, Frame
    <2>3. PlaceInv(x) /\ ListenInv(x) /\ OpenInv(x) /\ FutureInv(x) /\ TokenInv(x, TRUE)
      BY <1>0, <2>2, FrameFacts
         DEF PlaceInv, ListenInv, OpenInv, FutureInv, TokenInv, Over, Frame
    <2>4. Becomes(c, x) /\ UNCHANGED stack
      BY <1>2 DEF MakeLoop
    <2> HIDE DEF x
    <2> QED
      BY <1>0, <2>1, <2>3, <2>4, Continues
  <1>3. CASE TestHold(c)
    <2> DEFINE x == [r EXCEPT !.at = "before"]
    <2>1. x \in Frame
      BY <1>0 DEF Frame
    <2>2. r.at = "made" /\ r.kind \in Listeners /\ r.queued = 0
      BY <1>0, <1>3, FrameFacts DEF TestHold, PlaceInv, Frame
    <2>3. CASE Holds(c)
      <3>1. PlaceInv(x) /\ ListenInv(x) /\ OpenInv(x) /\ FutureInv(x) /\ TokenInv(x, TRUE)
        BY <1>0, <2>2, <2>3, FrameFacts
           DEF PlaceInv, ListenInv, OpenInv, FutureInv, TokenInv, Over, Frame, Holds
      <3>2. Becomes(c, x) /\ UNCHANGED stack
        BY <1>3, <2>3 DEF TestHold
      <3> HIDE DEF x
      <3> QED
        BY <1>0, <2>1, <3>1, <3>2, Continues
    <2>4. CASE ~Holds(c)
      <3>1. Return(c, r, "value") \/ Return(c, r, "default")
        BY <1>3, <2>4 DEF TestHold, AfterListener
      <3> QED
        BY <1>0, <2>2, <3>1, Returns
    <2> QED
      BY <2>3, <2>4
  <1>4. CASE Enter(c)
    <2>1. CASE quitting
      BY <1>0, <1>4, <2>1, AfterKeeps DEF Enter
    <2>2. CASE ~quitting
      <3> DEFINE at == IF r.at = "before" THEN "loop" ELSE "pause"
                 x == [r EXCEPT !.running = TRUE, !.code = 0, !.nested = FALSE, !.at = at]
      <3>1. x \in Frame
        <4>1. at \in {"loop", "pause"}
          OBVIOUS
        <4>2. 0 \in -2 .. 0
          OBVIOUS
        <4> HIDE DEF at
        <4> QED
          BY <1>0, <4>1, <4>2, LoopTyped
      <3>2. /\ x.kind = r.kind /\ x.trials = r.trials /\ x.running /\ x.posted = r.posted
            /\ x.queued = r.queued /\ x.callback = r.callback /\ x.data = r.data
            /\ x.asked = r.asked
            /\ x.events = r.events /\ x.seen = r.seen /\ x.missed = r.missed
            /\ x.at = IF r.at = "before" THEN "loop" ELSE "pause"
        BY <1>0 DEF Frame
      <3>3. r.at \in {"before", "pausing"} /\ Becomes(c, x) /\ UNCHANGED stack
        BY <1>4, <2>2 DEF Enter
      <3> HIDE DEF x
      <3>4. PlaceInv(x)
        BY <1>0, <3>2, <3>3, FrameFacts DEF PlaceInv, Over, Frame
      <3>5. ListenInv(x) /\ OpenInv(x)
        BY <1>0, <3>2, <3>3, FrameFacts DEF ListenInv, OpenInv, PlaceInv, Frame
      <3>6. FutureInv(x) /\ TokenInv(x, TRUE)
        BY <1>0, <2>2, <3>2, <3>3, FrameFacts DEF FutureInv, TokenInv, Registered, Frame
      <3> QED
        BY <1>0, <3>1, <3>3, <3>4, <3>5, <3>6, Continues
    <2> QED
      BY <2>1, <2>2
  <1>5. CASE Leave(c)
    <2>1. r.code \in -2 .. 0
      BY <1>0 DEF Frame
    <2> QED
      BY <1>0, <1>5, <2>1, AfterKeeps DEF Leave
  <1> QED
    BY <1>1, <1>2, <1>3, <1>4, <1>5 DEF MainStep

-----------------------------------------------------------------------------
(* The invariant holds *)

\* It holds at first.
LEMMA InitInv == Init => Inv
  <1> SUFFICES ASSUME Init PROVE Inv
    OBVIOUS
  <1>1. calls \in [Calls -> Frame] /\ quitting \in BOOLEAN
    BY UnbornGood DEF Init
  <1>2. stack \in Seq(Calls)
    BY DEF Init
  <1>3. ASSUME NEW c \in Calls PROVE FrameInv(calls[c], IsTop(c), quitting)
    BY UnbornGood DEF Init, IsTop
  <1> QED
    BY <1>1, <1>2, <1>3 DEF Inv, FramesInv, LeftOnlyAfterRetry, Init

\* Every step keeps it.
LEMMA NextKeeps == Inv /\ [Next]_vars => Inv'
  <1> SUFFICES ASSUME Inv, [Next]_vars PROVE Inv'
    OBVIOUS
  <1>1. CASE UNCHANGED vars
    BY <1>1, SameFrames DEF vars, LeftOnlyAfterRetry, Inv
  <1>2. ASSUME NEW c \in Calls, Reply(c) PROVE Inv'
    BY <1>2, ReplyKeeps, BadReplyKeeps DEF Reply
  <1>3. ASSUME NEW c \in Calls, ReplyCerts(c) PROVE Inv'
    <2>1. PICK locked \in BOOLEAN :
            Becomes(c, IF locked THEN Exited(Replied(c), -1) ELSE Replied(c))
      BY <1>3 DEF ReplyCerts
    <2> QED
      BY <1>3, <2>1, ReplyCertsKeeps
  <1>4. CASE Age
    BY <1>4, SameFrames DEF Age, LeftOnlyAfterRetry, Inv
  <1> QED
    BY <1>1, <1>2, <1>3, <1>4, CallsKeep, MainKeeps, TimeOutKeeps, PostedKeeps, PoolRunsKeeps,
       CompleteKeeps, CallbackKeeps, NotifyKeeps, NotifiedKeeps, QuitKeeps DEF Next

\* It always holds.
LEMMA AlwaysInv == Spec => []Inv
  BY InitInv, NextKeeps, PTL DEF Spec

-----------------------------------------------------------------------------
(* Theorems *)

\* A loop that waits although its listener has an event has missed that event:
\* a notification wakes every loop that is in exec() when the listener's
\* callback ends.
THEOREM WaitersAreWoken == Spec => []StuckOnlyByRace
  <1>1. ASSUME Inv PROVE StuckOnlyByRace
    <2> SUFFICES ASSUME NEW c \in Calls, calls[c].kind \in Listeners, calls[c].at = "loop",
                        calls[c].running, calls[c].events > 0, calls[c].seen = "no",
                        ~calls[c].posted
                 PROVE  calls[c].missed
      BY DEF StuckOnlyByRace
    <2> QED
      BY <1>1, FrameFacts DEF ListenInv
  <1> QED
    BY <1>1, AlwaysInv, PTL

\* A registration runs after its function has returned only when the program
\* quits or in a later round.
THEOREM RegisteredBeforeReturn == Spec => []LeftOnlyAfterRetry
  <1>1. Inv => LeftOnlyAfterRetry
    BY DEF Inv
  <1> QED
    BY <1>1, AlwaysInv, PTL

\* What Return leaves in the frame.
LEMMA ReturnLeaves ==
  ASSUME Inv, NEW c \in Calls, NEW r \in Frame, NEW answer \in {"value", "default"},
         Return(c, r, answer)
  PROVE  /\ calls'[c].answer = answer /\ calls'[c].kind = r.kind
         /\ calls'[c].trials = r.trials
  <1>1. calls'[c] = Left(r, answer)
    BY DEF Return, Becomes, Left, Inv, FramesInv
  <1> QED
    BY <1>1 DEF Left, Unborn

\* A call that goes on has no new answer.
LEMMA SameAnswer ==
  ASSUME Inv, NEW c \in Calls, NEW r, Becomes(c, r), r.answer = calls[c].answer
  PROVE  GaveUpLate(c)
  BY DEF Becomes, Inv, FramesInv, GaveUpLate

\* A step of another call.
LEMMA OtherAnswer ==
  ASSUME Inv, NEW c \in Calls, NEW d \in Calls, NEW r, Becomes(d, r), c # d
  PROVE  GaveUpLate(c)
  BY DEF Becomes, Inv, FramesInv, GaveUpLate

\* The connection is given up when it is made, or at the fourth try.
LEMMA OpenGivesUpLate ==
  ASSUME Inv, NEW c \in Calls, NEW r \in Frame, r.kind = "open",
         r.answer = calls[c].answer, Open(c, r)
  PROVE  GaveUpLate(c)
  <1>1. CASE Return(c, r, "value")
    BY <1>1, ReturnLeaves DEF GaveUpLate
  <1>2. CASE Return(c, r, "default") /\ (connection = "none" \/ r.trials = 3)
    BY <1>2, ReturnLeaves DEF GaveUpLate
  <1>3. CASE Becomes(c, Pauses(r))
    <2>1. Pauses(r).answer = calls[c].answer
      BY DEF Pauses, Frame
    <2> QED
      BY <1>3, <2>1, SameAnswer
  <1> QED
    BY <1>1, <1>2, <1>3 DEF Open

\* A future is given up after its last round.
LEMMA FutureGivesUpLate ==
  ASSUME Inv, NEW c \in Calls, NEW code \in -2 .. 0, calls[c].kind = "future",
         calls[c].at = "loop", ~calls[c].running, code = calls[c].code,
         AfterFuture(c, calls[c], code)
  PROVE  GaveUpLate(c)
  <1> DEFINE r == calls[c]
             n == [r EXCEPT !.trials = @ + 1]
  <1>0. r \in Frame
    BY FrameFacts
  <1>1. CASE code = -1 /\ HasRound(r)
    <2>1. r.trials + 1 \in Nat
      BY <1>0 DEF Frame
    <2>2. n \in Frame /\ n.answer = r.answer
      BY <1>0, <2>1 DEF Frame
    <2>3. Becomes(c, Round(n))
      BY <1>1 DEF AfterFuture
    <2>4. Round(n).answer = n.answer
      <3> HIDE DEF n
      <3> QED
        BY <2>2 DEF Round, Frame
    <2> HIDE DEF n
    <2> QED
      BY <2>2, <2>3, <2>4, SameAnswer
  <1>2. CASE ~(code = -1 /\ HasRound(r))
    <2>1. Return(c, r, IF r.data THEN "value" ELSE "default")
      BY <1>2 DEF AfterFuture
    <2>2. quitting \/ r.data \/ (r.trials >= Rounds /\ r.trials <= Rounds)
      BY <1>0, <1>2, FrameFacts DEF FutureInv, HasRound, Frame
    <2>3. r.trials \in Nat /\ Rounds \in Nat
      BY <1>0 DEF Frame
    <2> QED
      BY <1>0, <2>1, <2>2, <2>3, ReturnLeaves DEF GaveUpLate
  <1> QED
    BY <1>1, <1>2

\* A token is given up after a time-out, its third bad reply, or a bad reply
\* that a nested loop handled.
LEMMA TokenGivesUpLate ==
  ASSUME Inv, NEW c \in Calls, NEW code \in -2 .. 0, calls[c].kind = "token",
         calls[c].at = "loop", ~calls[c].running, code = calls[c].code,
         AfterToken(c, calls[c], code)
  PROVE  GaveUpLate(c)
  <1> DEFINE r == calls[c]
             n == IF code = -2 THEN [r EXCEPT !.trials = @ + 1] ELSE r
  <1>0. r \in Frame
    BY FrameFacts
  <1>1. r.trials + 1 \in Nat
    BY <1>0 DEF Frame
  <1>2. /\ n \in Frame /\ n.answer = r.answer /\ n.kind = "token"
        /\ code = -2 => n.trials = r.trials + 1
    BY <1>0, <1>1 DEF Frame
  <1>3. CASE code = -2 /\ n.trials < 3
    <2>1. Becomes(c, Pauses(n))
      BY <1>3 DEF AfterToken
    <2>2. Pauses(n).answer = n.answer
      <3> HIDE DEF n
      <3> QED
        BY <1>2 DEF Pauses, Frame
    <2> HIDE DEF n
    <2> QED
      BY <1>2, <2>1, <2>2, SameAnswer
  <1>4. CASE ~(code = -2 /\ n.trials < 3)
    <2>1. Return(c, n, IF r.data THEN "value" ELSE "default")
      BY <1>4 DEF AfterToken
    <2>2. quitting \/ r.data \/ code = -1 \/ r.nested \/ n.trials = 3
      <3>1. CASE code = -2
        <4>1. quitting \/ r.trials < 3
          BY FrameFacts DEF TokenInv
        <4>2. n.trials = r.trials + 1 /\ ~(n.trials < 3) /\ r.trials \in Nat
          BY <1>0, <1>2, <1>4, <3>1 DEF Frame
        <4> HIDE DEF n
        <4> QED
          BY <4>1, <4>2
      <3>2. CASE code = 0
        BY <3>2, FrameFacts DEF TokenInv
      <3> QED
        BY <3>1, <3>2
    <2> HIDE DEF n
    <2> QED
      BY <1>2, <2>1, <2>2, ReturnLeaves DEF GaveUpLate
  <1> QED
    BY <1>3, <1>4

\* A step of the main thread.
LEMMA MainGivesUpLate ==
  ASSUME Inv, NEW c \in Calls, MainStep(c)
  PROVE  GaveUpLate(c)
  <1> DEFINE r == calls[c]
  <1>0. r \in Frame
    BY FrameFacts
  <1>1. CASE FirstOpen(c)
    <2>1. r.kind = "open"
      BY <1>0, <1>1, FrameFacts DEF FirstOpen, PlaceInv, Frame
    <2> QED
      BY <1>0, <1>1, <2>1, OpenGivesUpLate DEF FirstOpen
  <1>2. CASE MakeLoop(c)
    <2>1. [r EXCEPT !.at = "made"].answer = r.answer /\ Becomes(c, [r EXCEPT !.at = "made"])
      BY <1>0, <1>2 DEF MakeLoop, Frame
    <2> QED
      BY <2>1, SameAnswer
  <1>3. CASE TestHold(c)
    <2>1. r.kind \in Listeners
      BY <1>0, <1>3, FrameFacts DEF TestHold, PlaceInv, Frame
    <2>2. CASE Holds(c)
      <3>1. /\ [r EXCEPT !.at = "before"].answer = r.answer
            /\ Becomes(c, [r EXCEPT !.at = "before"])
        BY <1>0, <1>3, <2>2 DEF TestHold, Frame
      <3> QED
        BY <3>1, SameAnswer
    <2>3. CASE ~Holds(c)
      <3>1. Return(c, r, "value") \/ Return(c, r, "default")
        BY <1>3, <2>3 DEF TestHold, AfterListener
      <3> QED
        BY <1>0, <2>1, <3>1, ReturnLeaves DEF GaveUpLate
    <2> QED
      BY <2>2, <2>3
  <1>4. CASE Enter(c) /\ quitting
    BY <1>4 DEF GaveUpLate
  <1>5. CASE Enter(c) /\ ~quitting
    <2> DEFINE x == [r EXCEPT !.running = TRUE, !.code = 0, !.nested = FALSE,
                              !.at = IF @ = "before" THEN "loop" ELSE "pause"]
    <2>1. x.answer = r.answer /\ Becomes(c, x)
      BY <1>0, <1>5 DEF Enter, Frame
    <2> HIDE DEF x
    <2> QED
      BY <2>1, SameAnswer
  <1>6. CASE Leave(c)
    <2>1. r.code \in -2 .. 0 /\ ~r.running /\ After(c, r.code)
          /\ r.at \in {"loop", "pause"}
      BY <1>0, <1>6 DEF Leave, InLoop, Frame
    <2>2. CASE r.at = "pause"
      <3>1. AfterPause(c, r, r.code) /\ r.kind \in {"token", "open"}
        BY <1>0, <2>1, <2>2, FrameFacts DEF After, PlaceInv, Frame
      <3>2. CASE r.kind = "open"
        <4> DEFINE n == [r EXCEPT !.trials = @ + 1]
        <4>1. r.code = 0
          BY <2>1, <2>2, <3>2, FrameFacts DEF OpenInv
        <4>2. Open(c, n)
          BY <3>1, <3>2, <4>1 DEF AfterPause
        <4>3. r.trials + 1 \in Nat
          BY <1>0 DEF Frame
        <4>4. n \in Frame /\ n.kind = "open" /\ n.answer = r.answer
          BY <1>0, <3>2, <4>3 DEF Frame
        <4> HIDE DEF n
        <4> QED
          BY <4>2, <4>4, OpenGivesUpLate
      <3>3. CASE r.kind = "token"
        <4> DEFINE x == IF r.code = 0 THEN Ask(r) ELSE [r EXCEPT !.at = "before"]
        <4>1. x.answer = r.answer /\ Becomes(c, x)
          BY <1>0, <3>1, <3>3 DEF AfterPause, Ask, Frame
        <4> HIDE DEF x
        <4> QED
          BY <4>1, SameAnswer
      <3> QED
        BY <3>1, <3>2, <3>3
    <2>3. CASE r.at = "loop"
      <3>1. CASE r.kind = "future" /\ AfterFuture(c, r, r.code)
        BY <2>1, <2>3, <3>1, FutureGivesUpLate
      <3>2. CASE r.kind = "token" /\ AfterToken(c, r, r.code)
        BY <2>1, <2>3, <3>2, TokenGivesUpLate
      <3>3. CASE \/ r.kind = "certs" /\ AfterCerts(c, r, r.code)
                 \/ r.kind \in Listeners /\ AfterListener(c, r)
        <4>1. Return(c, r, "value") \/ Return(c, r, "default")
          BY <3>3 DEF AfterCerts, AfterListener
        <4> QED
          BY <1>0, <3>3, <4>1, ReturnLeaves DEF GaveUpLate
      <3> QED
        BY <2>1, <2>3, <3>1, <3>2, <3>3 DEF After
    <2> QED
      BY <2>1, <2>2, <2>3
  <1> QED
    BY <1>1, <1>2, <1>3, <1>4, <1>5, <1>6 DEF MainStep

\* A step of the main thread changes the frame of its own call only.
LEMMA MainIsOwn ==
  ASSUME NEW c \in Calls, MainStep(c)
  PROVE  \E r : Becomes(c, r)
  BY DEF MainStep, FirstOpen, MakeLoop, TestHold, Enter, Leave, After, Open, Return,
         AfterFuture, AfterToken, AfterCerts, AfterListener, AfterPause, Becomes

\* A call that begins has no answer.
LEMMA CallsGiveUpLate ==
  ASSUME Inv, NEW c \in Calls, NEW d \in Calls,
         CallFuture(d) \/ CallToken(d) \/ CallCerts(d) \/ CallOpen(d) \/ Listen(d)
  PROVE  GaveUpLate(c)
  <1>0. Unborn.answer = "none" /\ Unborn \in Frame
    BY UnbornGood DEF Unborn
  <1>1. ASSUME NEW r, Call(d, r), r.answer = "none" PROVE GaveUpLate(c)
    <2>1. calls[d] = Unborn /\ Becomes(d, r)
      BY <1>1 DEF Call
    <2> QED
      BY <1>0, <1>1, <2>1, SameAnswer, OtherAnswer
  <1>2. CASE CallFuture(d)
    <2>1. PICK complete \in BOOLEAN :
            Call(d, Round([Unborn EXCEPT !.kind = "future", !.data = complete]))
      BY <1>2 DEF CallFuture
    <2>2. Round([Unborn EXCEPT !.kind = "future", !.data = complete]).answer = "none"
      BY DEF Round, Unborn
    <2> QED
      BY <1>1, <2>1, <2>2
  <1>3. CASE CallToken(d)
    <2>1. Ask([Unborn EXCEPT !.kind = "token"]).answer = "none"
      BY DEF Ask, Unborn
    <2> QED
      BY <1>1, <1>3, <2>1 DEF CallToken
  <1>4. CASE CallCerts(d)
    <2>1. [Unborn EXCEPT !.kind = "certs", !.at = "before", !.asked = TRUE].answer = "none"
      BY DEF Unborn
    <2> QED
      BY <1>1, <1>4, <2>1 DEF CallCerts
  <1>5. CASE CallOpen(d)
    <2>1. [Unborn EXCEPT !.kind = "open", !.at = "opening"].answer = "none"
      BY DEF Unborn
    <2> QED
      BY <1>1, <1>5, <2>1 DEF CallOpen
  <1>6. CASE Listen(d)
    <2>1. PICK kind \in Listeners : Call(d, [Unborn EXCEPT !.kind = kind, !.at = "built"])
      BY <1>6 DEF Listen
    <2>2. [Unborn EXCEPT !.kind = kind, !.at = "built"].answer = "none"
      BY DEF Unborn
    <2> QED
      BY <1>1, <2>1, <2>2
  <1> QED
    BY <1>2, <1>3, <1>4, <1>5, <1>6

\* An event gives no answer.
LEMMA EventsGiveUpLate ==
  ASSUME Inv, NEW c \in Calls, NEW d \in Calls,
         \/ TimeOut(d) \/ Posted(d) \/ Reply(d) \/ ReplyCerts(d) \/ PoolRuns(d)
         \/ Complete(d) \/ Callback(d) \/ Notify(d) \/ Notified(d)
  PROVE  GaveUpLate(c)
  <1>0. calls[d] \in Frame
    BY FrameFacts
  <1>1. CASE UNCHANGED calls
    BY <1>1 DEF GaveUpLate
  <1>2. CASE \E r : Becomes(d, r) /\ r.answer = calls[d].answer
    BY <1>2, SameAnswer, OtherAnswer
  <1>3. CASE TimeOut(d)
    <2>1. Expired(calls[d]).answer = calls[d].answer
      BY <1>0 DEF Expired, Exited, Frame
    <2> QED
      BY <1>2, <1>3, <2>1 DEF TimeOut, Event
  <1>4. CASE Posted(d)
    <2>1. [Exited(calls[d], 0) EXCEPT !.posted = FALSE].answer = calls[d].answer
      BY <1>0 DEF Exited, Frame
    <2> QED
      BY <1>2, <1>4, <2>1 DEF Posted, Event
  <1>5. CASE Reply(d) \/ ReplyCerts(d)
    <2>1. /\ Replied(d).answer = calls[d].answer
          /\ [Replied(d) EXCEPT !.data = TRUE].answer = calls[d].answer
          /\ \A code \in -2 .. 0 : Exited(Replied(d), code).answer = calls[d].answer
      BY <1>0 DEF Replied, Exited, Frame
    <2>2. -2 \in -2 .. 0 /\ -1 \in -2 .. 0
      OBVIOUS
    <2> QED
      BY <1>2, <1>5, <2>1, <2>2 DEF Reply, ReplyCerts, Event
  <1>6. CASE PoolRuns(d)
    <2>1. [calls[d] EXCEPT !.queued = @ - 1, !.callback = TRUE].answer = calls[d].answer
      BY <1>0 DEF Frame
    <2> QED
      BY <1>1, <1>2, <1>6, <2>1 DEF PoolRuns
  <1>7. CASE Complete(d)
    <2>1. [calls[d] EXCEPT !.data = TRUE].answer = calls[d].answer
      BY <1>0 DEF Frame
    <2> QED
      BY <1>2, <1>7, <2>1 DEF Complete, Elsewhere
  <1>8. CASE Callback(d)
    <2> DEFINE x == [calls[d] EXCEPT !.callback = FALSE, !.posted = @ \/ calls[d].running]
    <2>1. x.answer = calls[d].answer /\ Becomes(d, x)
      BY <1>0, <1>8 DEF Callback, Elsewhere, Frame
    <2> HIDE DEF x
    <2> QED
      BY <1>2, <2>1
  <1>9. CASE Notified(d)
    <2> DEFINE x == [calls[d] EXCEPT !.seen = "no", !.posted = @ \/ InLoop(d),
                                     !.missed = @ \/ calls[d].at = "before"]
    <2>1. x.answer = calls[d].answer /\ Becomes(d, x)
      BY <1>0, <1>9 DEF Notified, Elsewhere, Frame
    <2> HIDE DEF x
    <2> QED
      BY <1>2, <2>1
  <1>10. CASE Notify(d)
    <2> DEFINE n == [calls[d] EXCEPT !.events = @ + 1]
    <2>1. /\ [n EXCEPT !.missed = TRUE].answer = calls[d].answer
          /\ [n EXCEPT !.seen = "stored", !.data = TRUE].answer = calls[d].answer
      BY <1>0 DEF Frame
    <2>2. \/ UNCHANGED calls \/ Becomes(d, [n EXCEPT !.missed = TRUE])
          \/ Becomes(d, [n EXCEPT !.seen = "stored", !.data = TRUE])
      BY <1>10 DEF Notify, Elsewhere
    <2> HIDE DEF n
    <2> QED
      BY <1>1, <1>2, <2>1, <2>2
  <1> QED
    BY <1>3, <1>4, <1>5, <1>6, <1>7, <1>8, <1>9, <1>10

\* A function gives up only after all its attempts, with the exceptions that
\* GivesUpLate names.
THEOREM NoEarlyDefault == Spec => GivesUpLate
  <1>1. ASSUME Inv, [Next]_vars PROVE [\A c \in Calls : GaveUpLate(c)]_vars
    <2> SUFFICES ASSUME Next, NEW c \in Calls PROVE GaveUpLate(c)
      BY <1>1
    <2>1. ASSUME NEW d \in Calls, MainStep(d) PROVE GaveUpLate(c)
      BY <1>1, <2>1, MainIsOwn, MainGivesUpLate, OtherAnswer
    <2>2. CASE Age
      BY <2>2 DEF Age, GaveUpLate
    <2>3. CASE Quit
      <3>1. calls'[c].answer = calls[c].answer
        <4>1. calls[c] \in Frame
          BY <1>1, FrameFacts
        <4>2. Exited(calls[c], 0).answer = calls[c].answer
          BY <4>1 DEF Exited, Frame
        <4> QED
          BY <2>3, <4>2 DEF Quit
      <3> QED
        BY <3>1 DEF GaveUpLate
    <2> QED
      BY <1>1, <2>1, <2>2, <2>3, CallsGiveUpLate, EventsGiveUpLate DEF Next
  <1> QED
    BY <1>1, AlwaysInv, PTL DEF Spec, GivesUpLate
=============================================================================
