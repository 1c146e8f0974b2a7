--------------------------- MODULE RequestsProofs ---------------------------
(***************************************************************************)
(* Theorems about Requests for every number of clients, routes, sessions   *)
(* and nested handlers.                                                    *)
(***************************************************************************)
EXTENDS Requests, NumberTheorems, FiniteSetTheorems, SequenceTheorems, TLAPS

-----------------------------------------------------------------------------
(* Numbers and sequences *)

\* First() of a set of sessions is its least element.
LEMMA FirstIsLeast ==
  ASSUME NEW S \in SUBSET Nat, S # {}
  PROVE  First(S) \in S /\ \A t \in S : First(S) <= t
  BY Minimum DEF First

-----------------------------------------------------------------------------
(* The registry and the objects *)

SessionObject ==
  [state : {"unborn", "live", "gone"}, expired : BOOLEAN, posted : 0 .. MaxDepth,
   past : BOOLEAN, controller : {"none", "free", "locked"}]

Objects == [Sessions -> SessionObject]

Listed(registry, s) == \E i \in DOMAIN registry : registry[i] = s

\* The registry lists the live sessions, each once, and only a session whose
\* time has run out is deleted.
RegistryInv(registry, objects) ==
  /\ registry \in Seq(Sessions)
  /\ objects \in Objects
  /\ \A s \in Sessions : objects[s].state = "live" <=> Listed(registry, s)
  /\ \A i, j \in DOMAIN registry : registry[i] = registry[j] => i = j
  /\ \A s \in Sessions :
        objects[s].posted > 0 \/ objects[s].state = "gone" => objects[s].expired

\* y is the object x, which may have been sent to deletion if it is live.
Marked(x, y) ==
  /\ y.state = x.state /\ y.expired = x.expired
  /\ y.controller = x.controller /\ y.past = x.past
  /\ y.posted # x.posted => x.state = "live"

USE RequestsAssumption

\* A new session.
LEMMA BornTyped ==
  /\ Born \in SessionObject
  /\ Born.state = "live" /\ Born.posted = 0 /\ Born.controller = "none"
  <1>1. Unborn \in SessionObject /\ Unborn.posted = 0 /\ Unborn.controller = "none"
    BY DEF Unborn, SessionObject
  <1>2. [Unborn EXCEPT !.state = "live"] \in SessionObject
    BY <1>1 DEF SessionObject
  <1> QED
    BY <1>1, <1>2 DEF Born, SessionObject

\* A scan keeps the invariant of the registry and marks objects.
LEMMA ScanMarks ==
  ASSUME NEW store, NEW token, NEW h \in 1 .. MaxDepth,
         RegistryInv(store.registry, store.objects)
  PROVE  /\ RegistryInv(store.registry, Scanned(store, token, h))
         /\ \A s \in Sessions : Marked(store.objects[s], Scanned(store, token, h)[s])
  <1> DEFINE new == Scanned(store, token, h)
  <1>1. ASSUME NEW s \in Sessions
        PROVE  \/ new[s] = store.objects[s]
               \/ /\ Listed(store.registry, s) /\ store.objects[s].expired
                  /\ new[s] = [store.objects[s] EXCEPT !.posted = h]
    BY DEF Scanned, Listed
  <1>2. ASSUME NEW s \in Sessions
        PROVE  /\ Marked(store.objects[s], new[s])
               /\ new[s] \in SessionObject
               /\ new[s].posted > 0 \/ new[s].state = "gone" => new[s].expired
    <2>1. store.objects[s] \in SessionObject /\ h > 0
          /\ (store.objects[s].posted > 0 \/ store.objects[s].state = "gone"
                => store.objects[s].expired)
          /\ (store.objects[s].state = "live" <=> Listed(store.registry, s))
      BY DEF RegistryInv, Objects
    <2> DEFINE x == store.objects[s]
    <2>2. CASE new[s] = x
      BY <2>1, <2>2 DEF Marked
    <2>3. CASE Listed(store.registry, s) /\ x.expired /\ new[s] = [x EXCEPT !.posted = h]
      <3>1. new[s] \in SessionObject
        BY <2>1, <2>3 DEF SessionObject
      <3>2. /\ new[s].state = x.state /\ new[s].expired = x.expired
            /\ new[s].controller = x.controller /\ new[s].past = x.past
        BY <2>1, <2>3 DEF SessionObject
      <3> QED
        BY <2>1, <2>3, <3>1, <3>2 DEF Marked
    <2> QED
      BY <1>1, <2>2, <2>3
  <1>3. new \in Objects
    BY <1>2 DEF Objects, Scanned
  <1> QED
    BY <1>2, <1>3 DEF RegistryInv, Marked

\* What a lookup with a token makes of a store: it gives a live session, the one
\* of the token or a new one.
GoodLookup(store, token, found) ==
  /\ RegistryInv(found.registry, found.objects)
  /\ found.session \in Sessions /\ found.objects[found.session].state = "live"
  /\ found.new \in BOOLEAN
  /\ \A t \in Sessions :
        \/ Marked(store.objects[t], found.objects[t])
        \/ found.new /\ t = found.session
  /\ \/ /\ found.new /\ found.objects[found.session] = Born
        /\ store.objects[found.session].state = "unborn"
     \/ ~found.new /\ found.session = token

\* A lookup gives what it should.
LEMMA LookupGives ==
  ASSUME NEW store, NEW token \in Sessions \cup {NoToken}, NEW h \in 1 .. MaxDepth,
         RegistryInv(store.registry, store.objects),
         (token \in Sessions /\ Listed(store.registry, token)) \/ Unused(store) # {}
  PROVE  GoodLookup(store, token, Lookup(store, token, h))
  <1> DEFINE skip == token \notin Sessions
             set == IF skip THEN {} ELSE Found(store, token)
             objects == IF skip THEN store.objects ELSE Scanned(store, token, h)
             found == Lookup(store, token, h)
  <1>1. /\ RegistryInv(store.registry, objects)
        /\ \A t \in Sessions : Marked(store.objects[t], objects[t])
    BY ScanMarks DEF Marked
  <1>2. set \subseteq {token} /\ (set # {} <=> token \in Sessions /\ Listed(store.registry, token))
    BY DEF Found, Position, Listed
  <1>3. CASE set # {}
    <2>1. set = {token} /\ token \in Sessions /\ set \in SUBSET Nat
      BY <1>2, <1>3 DEF Sessions
    <2>2. First(set) = token
      BY <2>1, FirstIsLeast
    <2>3. found = [registry |-> store.registry, objects |-> objects,
                   session |-> token, new |-> FALSE]
      BY <1>3, <2>2 DEF Lookup
    <2>4. objects[token].state = "live"
      BY <1>1, <1>2, <1>3, <2>1 DEF RegistryInv
    <2> QED
      BY <1>1, <2>1, <2>3, <2>4 DEF GoodLookup
  <1>4. CASE set = {}
    <2> DEFINE s == First(Unused(store))
    <2>1. s \in Sessions /\ store.objects[s].state = "unborn"
      <3>1. Unused(store) \in SUBSET Nat /\ Unused(store) # {}
        BY <1>2, <1>4 DEF Unused, Sessions
      <3> QED
        BY <3>1, FirstIsLeast DEF Unused
    <2>2. found = [registry |-> Append(store.registry, s),
                   objects |-> [objects EXCEPT ![s] = Born], session |-> s, new |-> TRUE]
      BY <1>4 DEF Lookup
    <2>3. Born \in SessionObject /\ Born.state = "live" /\ Born.posted = 0
      BY BornTyped
    <2>4. [objects EXCEPT ![s] = Born] \in Objects
      BY <1>1, <2>1, <2>3 DEF RegistryInv, Objects
    <2>5. objects[s].state = "unborn" /\ ~Listed(store.registry, s)
      BY <1>1, <2>1 DEF RegistryInv, Marked
    <2> DEFINE list == Append(store.registry, s)
    <2>6. /\ list \in Seq(Sessions) /\ DOMAIN list = 1 .. Len(store.registry) + 1
          /\ DOMAIN store.registry = 1 .. Len(store.registry) /\ Len(store.registry) \in Nat
          /\ \A i \in DOMAIN store.registry : list[i] = store.registry[i]
          /\ list[Len(store.registry) + 1] = s
      BY <1>1, <2>1, AppendProperties, LenProperties DEF RegistryInv
    <2>7. \A t \in Sessions : Listed(list, t) <=> t = s \/ Listed(store.registry, t)
      BY <2>6 DEF Listed
    <2>8. \A i, j \in DOMAIN list : list[i] = list[j] => i = j
      <3> DEFINE n == Len(store.registry) + 1
      <3>1. \A i, j \in DOMAIN store.registry : list[i] = list[j] => i = j
        BY <1>1, <2>6 DEF RegistryInv
      <3>2. \A i \in DOMAIN store.registry : list[i] # s
        BY <2>5, <2>6 DEF Listed
      <3>3. DOMAIN list = DOMAIN store.registry \cup {n} /\ list[n] = s
        BY <2>6
      <3> HIDE DEF list, n
      <3> QED
        BY <3>1, <3>2, <3>3
    <2>9. RegistryInv(list, [objects EXCEPT ![s] = Born])
      <3>1. \A t \in Sessions : [objects EXCEPT ![s] = Born][t] = IF t = s THEN Born ELSE objects[t]
        BY <1>1 DEF RegistryInv, Objects
      <3> QED
        BY <1>1, <2>1, <2>3, <2>4, <2>6, <2>7, <2>8, <3>1 DEF RegistryInv
    <2> QED
      <3>1. \A t \in Sessions : [objects EXCEPT ![s] = Born][t] = IF t = s THEN Born ELSE objects[t]
        BY <1>1 DEF RegistryInv, Objects
      <3> QED
        BY <1>1, <2>1, <2>2, <2>3, <2>9, <3>1 DEF GoodLookup
  <1> QED
    BY <1>3, <1>4

\* The two lookups of a request do the same, and make two sessions at most.
Fresh(y) == y.state = "live" /\ ~y.expired /\ y.controller = "none"

Grown(x, y) ==
  \/ Marked(x, y)
  \/ x.state = "unborn" /\ Fresh(y)

GoodLookups(c, found) ==
  /\ RegistryInv(found.registry, found.objects)
  /\ found.session \in Sessions /\ found.objects[found.session].state = "live"
  /\ found.new \in BOOLEAN
  /\ \A t \in Sessions : Grown(session[t], found.objects[t])
  /\ IF found.new THEN session[found.session].state = "unborn" ELSE found.session = cookie[c]

\* A new session is fresh.
LEMMA FreshBorn == Fresh(Born)
  BY DEF Fresh, Born, Unborn

\* The second of two lookups.
LEMMA SecondLookup ==
  ASSUME NEW c \in Clients, NEW before, NEW found,
         \A t \in Sessions : Grown(session[t], before.objects[t]),
         GoodLookup(before, cookie[c], found)
  PROVE  GoodLookups(c, found)
  <1>1. found.new => session[found.session].state = "unborn"
    BY DEF GoodLookup, Marked, Fresh, Grown
  <1>2. ASSUME NEW t \in Sessions
        PROVE  Grown(session[t], found.objects[t])
    BY <1>1, FreshBorn DEF GoodLookup, Marked, Fresh, Grown
  <1> QED
    BY <1>1, <1>2 DEF GoodLookup, GoodLookups

\* Two lookups of one request give what they should.
LEMMA LookupsGive ==
  ASSUME RegistryInv(sessions, session), Depth \in Nat, Depth < MaxDepth,
         NEW c \in Clients, NEW route \in Routes,
         cookie[c] \in Sessions \cup {NoToken},
         cookie[c] \in Sessions => session[cookie[c]].state # "unborn",
         Cardinality({s \in Sessions : session[s].state = "unborn"})
            >= IF IsWeb(route) THEN 2 ELSE 1
  PROVE  GoodLookups(c, Lookups(c, route))
  <1> DEFINE unborn == {s \in Sessions : session[s].state = "unborn"}
             token == cookie[c]
             store == [registry |-> sessions, objects |-> session, session |-> 0, new |-> FALSE]
             first == Lookup(store, token, Depth + 1)
             before == IF IsWeb(route) THEN first ELSE store
             found == Lookup(before, token, Depth + 1)
             KnownTo(st) == token \in Sessions /\ Listed(st.registry, token)
  <1>1. IsFiniteSet(unborn) /\ Cardinality(unborn) \in Nat
    <2>1. IsFiniteSet(Sessions)
      BY FS_Interval DEF Sessions
    <2>2. IsFiniteSet(unborn)
      BY <2>1, FS_Subset
    <2> QED
      BY <2>2, FS_CardinalityType
  <1>2. unborn # {} /\ (IsWeb(route) => Cardinality(unborn) >= 2)
    <2> HIDE DEF unborn
    <2>1. Cardinality(unborn) >= IF IsWeb(route) THEN 2 ELSE 1
      BY DEF unborn
    <2> QED
      BY <1>1, <2>1, FS_EmptySet
  <1>3. /\ RegistryInv(store.registry, store.objects) /\ Unused(store) = unborn
        /\ Depth + 1 \in 1 .. MaxDepth /\ store.objects = session
    BY DEF Unused
  <1>4. GoodLookup(store, token, first)
    BY <1>2, <1>3, LookupGives
  <1> HIDE DEF first
  <1>5. /\ RegistryInv(before.registry, before.objects)
        /\ \A t \in Sessions : Grown(session[t], before.objects[t])
        /\ KnownTo(before) \/ Unused(before) # {}
    <2>1. CASE ~IsWeb(route)
      BY <1>2, <1>3, <2>1 DEF Marked, Grown
    <2>2. CASE IsWeb(route)
      <3>1. \A t \in Sessions : Grown(session[t], first.objects[t])
        BY <1>3, <1>4, FreshBorn DEF GoodLookup, Grown
      <3>2. CASE first.new
        <4> HIDE DEF unborn
        <4> DEFINE rest == unborn \ {first.session}
        <4>1. IsFiniteSet(rest) /\ Cardinality(rest) # 0
          <5>1. /\ IsFiniteSet(rest)
                /\ Cardinality(rest) = IF first.session \in unborn THEN Cardinality(unborn) - 1
                                       ELSE Cardinality(unborn)
            BY <1>1, FS_RemoveElement
          <5> HIDE DEF rest
          <5> QED
            BY <1>1, <1>2, <2>2, <5>1
        <4>2. PICK t \in unborn : t # first.session
          BY <4>1, FS_EmptySet
        <4>3. t \in Sessions /\ session[t].state = "unborn"
          BY <4>2 DEF unborn
        <4>4. first.objects[t].state = "unborn"
          BY <1>3, <1>4, <4>2, <4>3 DEF GoodLookup, Marked
        <4>5. t \in Unused(first)
          BY <4>3, <4>4 DEF Unused
        <4> QED
          BY <1>4, <2>2, <3>1, <4>5 DEF GoodLookup
      <3>3. CASE ~first.new
        <4>1. token \in Sessions /\ Listed(first.registry, token)
          BY <1>4, <3>3 DEF GoodLookup, RegistryInv
        <4> QED
          BY <1>4, <2>2, <3>1, <4>1 DEF GoodLookup
      <3> QED
        BY <3>2, <3>3
    <2> QED
      BY <2>1, <2>2
  <1> HIDE DEF before
  <1>6. GoodLookup(before, token, found)
    BY <1>3, <1>5, LookupGives
  <1>7. found = Lookups(c, route)
    BY DEF Lookups, before, first
  <1> HIDE DEF found
  <1>8. GoodLookups(c, found)
    BY <1>5, <1>6, SecondLookup
  <1> QED
    BY <1>7, <1>8

-----------------------------------------------------------------------------
(* The inductive invariant *)

HandlerRecord ==
  [client : Clients, session : Sessions, new : BOOLEAN,
   guard : {"none", "held", "dead", "released"},
   at : {"handler", "waiting"}, due : BOOLEAN, waits : 0 .. MaxWaits]

\* A client sends the token of a session that was given to it.
CookieInv ==
  \A c \in Clients : cookie[c] \in Sessions =>
    session[cookie[c]].state # "unborn" /\ given[cookie[c]] = c

GivenInv == \A s \in Sessions : session[s].state = "unborn" => given[s] = Nobody

\* What handler i knows of its session.
HandlerKnows(i) ==
  LET s == stack[i].session
  IN  /\ session[s].state # "unborn"
      /\ given[s] \in {Nobody, stack[i].client}
      /\ stack[i].guard = "held" =>
            session[s].state = "live" /\ session[s].controller = "locked"
      /\ session[s].state = "gone" => session[s].posted > i

HandlerInv == \A i \in 1 .. Depth : HandlerKnows(i)

\* Handlers with one session are of one client, and one of them has a guard.
ShareInv ==
  \A i, j \in 1 .. Depth : stack[i].session = stack[j].session =>
    /\ stack[i].client = stack[j].client
    /\ stack[i].guard = "held" /\ stack[j].guard = "held" => i = j

\* Some handler has a guard of the controller of s.
Guarded(s) == \E i \in 1 .. Depth : stack[i].session = s /\ stack[i].guard = "held"

LockInv ==
  \A s \in Sessions :
    session[s].state = "live" /\ session[s].controller = "locked" => Guarded(s)

Inv ==
  /\ TypeOK /\ RegistryInv(sessions, session) /\ CookieInv /\ GivenInv
  /\ HandlerInv /\ ShareInv /\ LockInv

\* It holds at first.
LEMMA InitInv == Init => Inv
  <1> SUFFICES ASSUME Init PROVE Inv
    OBVIOUS
  <1>1. Unborn \in SessionObject /\ Unborn.state = "unborn" /\ Unborn.posted = 0
    BY DEF Unborn, SessionObject
  <1>2. session \in Objects /\ sessions \in Seq(Sessions) /\ stack \in Seq(HandlerRecord)
        /\ DOMAIN sessions = {} /\ Depth = 0
    BY <1>1 DEF Init, Objects, Depth
  <1>3. TypeOK
    BY <1>2 DEF Init, TypeOK, Objects, SessionObject, HandlerRecord
  <1>4. RegistryInv(sessions, session)
    BY <1>1, <1>2 DEF Init, RegistryInv, Listed
  <1> QED
    BY <1>1, <1>2, <1>3, <1>4
       DEF Init, Inv, CookieInv, GivenInv, HandlerInv, ShareInv, LockInv, Guarded

-----------------------------------------------------------------------------
(* What happens to the stack *)

\* The stack has at most MaxDepth handlers.
LEMMA StackFacts ==
  ASSUME TypeOK
  PROVE  /\ stack \in Seq(HandlerRecord) /\ Depth \in Nat /\ Depth <= MaxDepth
         /\ \A i \in 1 .. Depth : stack[i] \in HandlerRecord
         /\ Depth > 0 => Depth \in 1 .. Depth /\ Top = stack[Depth]
  <1>1. stack \in Seq(HandlerRecord) /\ Depth <= MaxDepth
    BY DEF TypeOK, HandlerRecord
  <1>2. Depth \in Nat /\ \A i \in 1 .. Depth : stack[i] \in HandlerRecord
    BY <1>1, LenProperties, ElementOfSeq DEF Depth
  <1> QED
    BY <1>1, <1>2 DEF Top

\* The stack without its top.
LEMMA PopStack ==
  ASSUME TypeOK, Depth > 0, Pop
  PROVE  /\ stack' \in Seq(HandlerRecord) /\ Depth' = Depth - 1
         /\ \A i \in 1 .. Depth' : stack'[i] = stack[i]
  <1>1. stack \in Seq(HandlerRecord) /\ Depth \in Nat
    BY StackFacts
  <1>2. /\ SubSeq(stack, 1, Depth - 1) \in Seq(HandlerRecord)
        /\ Len(SubSeq(stack, 1, Depth - 1)) = Depth - 1
        /\ \A i \in 1 .. Depth - 1 : SubSeq(stack, 1, Depth - 1)[i] = stack[i]
    <2>1. Depth = Len(stack) /\ 1 \in 1 .. Len(stack) + 1 /\ Depth - 1 \in 1 - 1 .. Len(stack)
      BY <1>1 DEF Depth
    <2> QED
      BY <1>1, <2>1, SubSeqProperties
  <1> QED
    BY <1>2 DEF Pop, Depth

\* The stack with another handler at i.
LEMMA SetStack ==
  ASSUME TypeOK, NEW i \in 1 .. Depth, NEW r \in HandlerRecord, stack' = [stack EXCEPT ![i] = r]
  PROVE  /\ stack' \in Seq(HandlerRecord) /\ Depth' = Depth
         /\ \A j \in 1 .. Depth : stack'[j] = IF j = i THEN r ELSE stack[j]
  <1>1. stack \in Seq(HandlerRecord) /\ Depth = Len(stack)
    BY StackFacts DEF Depth
  <1> QED
    BY <1>1, ExceptSeq DEF Depth

\* The types of the next state, given those of its parts.
LEMMA TypesAgain ==
  ASSUME RegistryInv(sessions, session)', stack' \in Seq(HandlerRecord), Depth' <= MaxDepth,
         cookie' \in [Clients -> Sessions \cup {NoToken}],
         given' \in [Sessions -> Clients \cup {Nobody}],
         outcome' \in {"running", "terminated", "undefined"}
  PROVE  TypeOK'
  BY DEF RegistryInv, Objects, SessionObject, TypeOK, HandlerRecord

\* A step that changes neither sessions nor who holds what.
LEMMA QuietStep ==
  ASSUME Inv, UNCHANGED <<sessions, session, cookie, given>>,
         outcome' \in {"running", "terminated", "undefined"},
         stack' \in Seq(HandlerRecord), Depth' = Depth,
         \A i \in 1 .. Depth : /\ stack'[i].session = stack[i].session
                              /\ stack'[i].client = stack[i].client
                              /\ stack'[i].guard = stack[i].guard
  PROVE  Inv'
  <1>1. RegistryInv(sessions, session)'
    BY DEF Inv, RegistryInv
  <1>2. TypeOK'
    <2>1. /\ cookie' \in [Clients -> Sessions \cup {NoToken}]
          /\ given' \in [Sessions -> Clients \cup {Nobody}] /\ Depth' <= MaxDepth
      BY DEF Inv, TypeOK
    <2> QED
      BY <1>1, <2>1, TypesAgain
  <1>3. CookieInv' /\ GivenInv'
    BY DEF Inv, CookieInv, GivenInv
  <1>4. HandlerInv'
    BY DEF Inv, HandlerInv, HandlerKnows
  <1>5. ShareInv'
    BY DEF Inv, ShareInv
  <1>6. LockInv'
    BY DEF Inv, LockInv, Guarded
  <1> QED
    BY <1>1, <1>2, <1>3, <1>4, <1>5, <1>6 DEF Inv

\* A nested event loop begins.
LEMMA WaitKeeps ==
  ASSUME Inv, Wait
  PROVE  Inv'
  <1> DEFINE r == [Top EXCEPT !.at = "waiting", !.due = FALSE, !.waits = @ + 1]
  <1>1. Depth \in 1 .. Depth /\ Top \in HandlerRecord /\ Top = stack[Depth]
    BY StackFacts DEF Inv, Wait, Handling
  <1>2. r \in HandlerRecord /\ r.session = Top.session /\ r.client = Top.client
        /\ r.guard = Top.guard
    <2>1. Top.waits + 1 \in 0 .. MaxWaits
      BY <1>1 DEF Wait, HandlerRecord
    <2> QED
      BY <1>1, <2>1 DEF HandlerRecord
  <1>3. stack' = [stack EXCEPT ![Depth] = r]
    BY <1>1 DEF Wait
  <1>4. outcome' \in {"running", "terminated", "undefined"}
    BY DEF Wait, Inv, TypeOK
  <1> HIDE DEF r
  <1>5. /\ stack' \in Seq(HandlerRecord) /\ Depth' = Depth
        /\ \A j \in 1 .. Depth : stack'[j] = IF j = Depth THEN r ELSE stack[j]
    BY <1>1, <1>2, <1>3, SetStack DEF Inv
  <1> QED
    BY <1>1, <1>2, <1>4, <1>5, QuietStep DEF Wait

\* An event ends a wait.
LEMMA DueKeeps ==
  ASSUME Inv, NEW i, Due(i)
  PROVE  Inv'
  <1> DEFINE r == [stack[i] EXCEPT !.due = TRUE]
  <1>1. i \in 1 .. Depth /\ stack[i] \in HandlerRecord
    BY StackFacts DEF Inv, Due
  <1>2. r \in HandlerRecord /\ r.session = stack[i].session /\ r.client = stack[i].client
        /\ r.guard = stack[i].guard
    BY <1>1 DEF HandlerRecord
  <1>3. stack' = [stack EXCEPT ![i] = r]
    BY <1>1 DEF Due
  <1>4. outcome' \in {"running", "terminated", "undefined"}
    BY DEF Due, Inv, TypeOK
  <1> HIDE DEF r
  <1>5. /\ stack' \in Seq(HandlerRecord) /\ Depth' = Depth
        /\ \A j \in 1 .. Depth : stack'[j] = IF j = i THEN r ELSE stack[j]
    BY <1>1, <1>2, <1>3, SetStack DEF Inv
  <1> QED
    BY <1>1, <1>2, <1>4, <1>5, QuietStep DEF Due

\* A nested event loop ends.
LEMMA WakeKeeps ==
  ASSUME Inv, Wake
  PROVE  Inv'
  <1> DEFINE r == [Top EXCEPT !.at = "handler"]
  <1>1. Depth \in 1 .. Depth /\ Top \in HandlerRecord /\ Top = stack[Depth]
    BY StackFacts DEF Inv, Wake
  <1>2. r \in HandlerRecord /\ r.session = Top.session /\ r.client = Top.client
        /\ r.guard = Top.guard
    BY <1>1 DEF HandlerRecord
  <1>3. stack' = [stack EXCEPT ![Depth] = r]
    BY <1>1 DEF Wake
  <1>4. outcome' \in {"running", "terminated", "undefined"}
    BY DEF Wake, Inv, TypeOK
  <1> HIDE DEF r
  <1>5. /\ stack' \in Seq(HandlerRecord) /\ Depth' = Depth
        /\ \A j \in 1 .. Depth : stack'[j] = IF j = Depth THEN r ELSE stack[j]
    BY <1>1, <1>2, <1>3, SetStack DEF Inv
  <1> QED
    BY <1>1, <1>2, <1>4, <1>5, QuietStep DEF Wake

-----------------------------------------------------------------------------
(* Controllers and the ends of handlers *)

\* A step that changes only the controller of a session.
LEMMA ControllerStep ==
  ASSUME Inv, NEW s \in Sessions, NEW x \in SessionObject,
         x.state = session[s].state, x.expired = session[s].expired,
         x.posted = session[s].posted,
         session' = [session EXCEPT ![s] = x],
         UNCHANGED <<sessions, cookie, given, outcome>>,
         stack' \in Seq(HandlerRecord), Depth' <= MaxDepth
  PROVE  /\ \A t \in Sessions : session'[t] = IF t = s THEN x ELSE session[t]
         /\ RegistryInv(sessions, session)' /\ CookieInv' /\ GivenInv' /\ TypeOK'
  <1>1. session \in Objects
    BY DEF Inv, RegistryInv
  <1>2. session' \in Objects /\ \A t \in Sessions : session'[t] = IF t = s THEN x ELSE session[t]
    BY <1>1 DEF Objects
  <1>3. RegistryInv(sessions, session)'
    BY <1>2 DEF Inv, RegistryInv, Listed
  <1>4. CookieInv'
    BY <1>2 DEF Inv, CookieInv
  <1>5. GivenInv'
    BY <1>2 DEF Inv, GivenInv
  <1>6. /\ cookie' \in [Clients -> Sessions \cup {NoToken}]
        /\ given' \in [Sessions -> Clients \cup {Nobody}]
        /\ outcome' \in {"running", "terminated", "undefined"}
    BY DEF Inv, TypeOK
  <1> QED
    BY <1>2, <1>3, <1>4, <1>5, <1>6, TypesAgain

\* The destructor of a guard unlocks the controller of the top handler.
LEMMA UnlockedIs ==
  ASSUME Inv, NEW s \in Sessions
  PROVE  \E x \in SessionObject :
            /\ x.state = session[s].state /\ x.expired = session[s].expired
            /\ x.posted = session[s].posted /\ x.controller = "free"
            /\ Unlocked(s) = [session EXCEPT ![s] = x]
  <1> DEFINE x == [session[s] EXCEPT !.controller = "free", !.past = TRUE]
  <1>1. session[s] \in SessionObject /\ session \in Objects
    BY DEF Inv, RegistryInv, Objects
  <1>2. x \in SessionObject
    BY <1>1 DEF SessionObject
  <1>3. /\ x.state = session[s].state /\ x.expired = session[s].expired
        /\ x.posted = session[s].posted /\ x.controller = "free"
    BY <1>1 DEF SessionObject
  <1>4. Unlocked(s) = [session EXCEPT ![s] = x]
    BY <1>1 DEF Unlocked, Objects, SessionObject
  <1> HIDE DEF x
  <1> QED
    BY <1>2, <1>3, <1>4

\* Without its top handler, if that has no guard, everything is as before.
LEMMA PopKeeps ==
  ASSUME Inv, Depth > 0, Top.guard # "held", Pop,
         UNCHANGED <<sessions, session, cookie, given>>,
         outcome' \in {"running", "terminated", "undefined"}
  PROVE  Inv'
  <1>1. /\ stack' \in Seq(HandlerRecord) /\ Depth' = Depth - 1
        /\ \A i \in 1 .. Depth' : stack'[i] = stack[i]
        /\ Depth \in Nat /\ Depth <= MaxDepth /\ Top = stack[Depth]
    BY PopStack, StackFacts DEF Inv
  <1>2. RegistryInv(sessions, session)'
    BY DEF Inv, RegistryInv
  <1>3. TypeOK'
    <2>1. /\ cookie' \in [Clients -> Sessions \cup {NoToken}]
          /\ given' \in [Sessions -> Clients \cup {Nobody}] /\ Depth' <= MaxDepth
      BY <1>1 DEF Inv, TypeOK
    <2> QED
      BY <1>1, <1>2, <2>1, TypesAgain
  <1>4. CookieInv' /\ GivenInv'
    BY DEF Inv, CookieInv, GivenInv
  <1>5. HandlerInv'
    BY <1>1 DEF Inv, HandlerInv, HandlerKnows
  <1>6. ShareInv'
    BY <1>1 DEF Inv, ShareInv
  <1>7. LockInv'
    <2> SUFFICES ASSUME NEW s \in Sessions, session[s].state = "live",
                        session[s].controller = "locked"
                 PROVE  Guarded(s)'
      BY DEF LockInv, Guarded
    <2>1. PICK i \in 1 .. Depth : stack[i].session = s /\ stack[i].guard = "held"
      BY DEF Inv, LockInv, Guarded
    <2>2. i \in 1 .. Depth'
      BY <1>1, <2>1
    <2> QED
      BY <1>1, <2>1, <2>2 DEF Guarded
  <1> QED
    BY <1>2, <1>3, <1>4, <1>5, <1>6, <1>7 DEF Inv

\* An exception leaves the handler.
LEMMA UnwindKeeps ==
  ASSUME Inv, Handling, Unwind, UNCHANGED <<sessions, cookie, given>>
  PROVE  Inv'
  <1>1. /\ Depth \in 1 .. Depth /\ Top = stack[Depth] /\ Top \in HandlerRecord
        /\ Depth <= MaxDepth /\ outcome \in {"running", "terminated", "undefined"}
        /\ stack \in Seq(HandlerRecord)
    BY StackFacts DEF Inv, Handling, TypeOK
  <1>2. CASE Top.guard = "held"
    <2>1. Pop /\ session' = Unlocked(Top.session) /\ UNCHANGED outcome
      BY <1>2 DEF Unwind
    <2> DEFINE s == Top.session
    <2>2. s \in Sessions
      BY <1>1 DEF HandlerRecord
    <2>3. PICK x \in SessionObject :
              /\ x.state = session[s].state /\ x.expired = session[s].expired
              /\ x.posted = session[s].posted /\ x.controller = "free"
              /\ Unlocked(s) = [session EXCEPT ![s] = x]
      BY <2>2, UnlockedIs
    <2>4. /\ stack' \in Seq(HandlerRecord) /\ Depth' = Depth - 1
          /\ \A i \in 1 .. Depth' : stack'[i] = stack[i]
      BY <1>1, <2>1, PopStack DEF Inv
    <2>5. /\ \A t \in Sessions : session'[t] = IF t = s THEN x ELSE session[t]
          /\ RegistryInv(sessions, session)' /\ CookieInv' /\ GivenInv' /\ TypeOK'
      <3>1. Depth' <= MaxDepth
        BY <1>1, <2>4
      <3> QED
        BY <2>1, <2>2, <2>3, <2>4, <3>1, ControllerStep
    <2>6. \A i \in 1 .. Depth' : stack[i].session = s => stack[i].guard # "held"
      <3>1. \A i \in 1 .. Depth' : i \in 1 .. Depth /\ i # Depth
        BY <1>1, <2>4
      <3> QED
        BY <1>1, <1>2, <3>1 DEF Inv, ShareInv
    <2>7. \A i \in 1 .. Depth' : i \in 1 .. Depth /\ stack[i].session \in Sessions
      BY <1>1, <2>4, StackFacts DEF Inv, HandlerRecord
    <2>8. HandlerInv'
      <3> SUFFICES ASSUME NEW i \in 1 .. Depth'
                   PROVE  HandlerKnows(i)'
        BY DEF HandlerInv
      <3> QED
        BY <2>3, <2>4, <2>5, <2>6, <2>7 DEF Inv, HandlerInv, HandlerKnows
    <2>9. ShareInv'
      BY <2>4, <2>7 DEF Inv, ShareInv
    <2>10. LockInv'
      <3> SUFFICES ASSUME NEW t \in Sessions, session'[t].state = "live",
                          session'[t].controller = "locked"
                   PROVE  Guarded(t)'
        BY DEF LockInv, Guarded
      <3>1. t # s
        BY <2>3, <2>5
      <3>2. PICK i \in 1 .. Depth : stack[i].session = t /\ stack[i].guard = "held"
        BY <2>5, <3>1 DEF Inv, LockInv, Guarded
      <3>3. i \in 1 .. Depth'
        BY <1>1, <2>4, <3>1, <3>2
      <3> QED
        BY <2>4, <3>2, <3>3 DEF Guarded
    <2> QED
      BY <2>5, <2>8, <2>9, <2>10 DEF Inv
  <1>3. CASE Top.guard = "dead"
    <2>1. outcome' = "terminated" /\ UNCHANGED <<stack, session>>
      BY <1>3 DEF Unwind
    <2>2. Depth' = Depth
      BY <2>1 DEF Depth
    <2> QED
      BY <1>1, <2>1, <2>2, QuietStep
  <1>4. CASE Top.guard \notin {"held", "dead"}
    <2>1. Pop /\ UNCHANGED <<session, outcome>>
      BY <1>4 DEF Unwind
    <2> QED
      BY <1>1, <1>4, <2>1, PopKeeps
  <1> QED
    BY <1>2, <1>3, <1>4

\* A deleted session is used.
LEMMA UseOfDeletedKeeps ==
  ASSUME Inv, UseOfDeleted
  PROVE  Inv'
  <1>1. stack' = stack /\ stack \in Seq(HandlerRecord)
    BY StackFacts DEF Inv, UseOfDeleted
  <1>2. Depth' = Depth
    BY <1>1 DEF Depth
  <1> QED
    BY <1>1, <1>2, QuietStep DEF UseOfDeleted

\* The handler throws.
LEMMA ThrowKeeps ==
  ASSUME Inv, Throw
  PROVE  Inv'
  BY UnwindKeeps DEF Throw

\* A controller is taken, or not.
LEMMA AcquireKeeps ==
  ASSUME Inv, Acquire
  PROVE  Inv'
  <1> DEFINE s == Top.session
  <1>1. /\ Depth \in 1 .. Depth /\ Top = stack[Depth] /\ Top \in HandlerRecord
        /\ Depth <= MaxDepth /\ stack \in Seq(HandlerRecord) /\ s \in Sessions
    BY StackFacts DEF Inv, Acquire, Handling, HandlerRecord
  <1>2. CASE IsGone(s)
    BY <1>2, UseOfDeletedKeeps DEF Acquire
  <1>3. CASE ~IsGone(s) /\ session[s].controller = "locked"
    <2>1. Handling /\ Unwind /\ UNCHANGED <<sessions, cookie, given>>
      BY <1>3 DEF Acquire, TimeOut
    <2> QED
      BY <2>1, UnwindKeeps
  <1>4. CASE ~IsGone(s) /\ session[s].controller # "locked"
    <2> DEFINE x == [session[s] EXCEPT !.controller = "locked"]
               r == [Top EXCEPT !.guard = "held"]
    <2>1. /\ UNCHANGED <<sessions, cookie, given, outcome>>
          /\ session' = [session EXCEPT ![s] = x] /\ stack' = [stack EXCEPT ![Depth] = r]
      BY <1>1, <1>4 DEF Acquire
    <2>2. session[s] \in SessionObject
      BY <1>1 DEF Inv, RegistryInv, Objects
    <2>3. x \in SessionObject /\ x.state = session[s].state /\ x.expired = session[s].expired
          /\ x.posted = session[s].posted /\ x.controller = "locked"
      BY <2>2 DEF SessionObject
    <2>4. r \in HandlerRecord /\ r.session = s /\ r.client = Top.client /\ r.guard = "held"
      BY <1>1 DEF HandlerRecord
    <2> HIDE DEF x, r
    <2>5. /\ stack' \in Seq(HandlerRecord) /\ Depth' = Depth
          /\ \A j \in 1 .. Depth : stack'[j] = IF j = Depth THEN r ELSE stack[j]
      BY <1>1, <2>1, <2>4, SetStack DEF Inv
    <2>6. /\ \A t \in Sessions : session'[t] = IF t = s THEN x ELSE session[t]
          /\ RegistryInv(sessions, session)' /\ CookieInv' /\ GivenInv' /\ TypeOK'
      <3>1. Depth' <= MaxDepth
        BY <1>1, <2>5
      <3> QED
        BY <1>1, <2>1, <2>3, <2>5, <3>1, ControllerStep
    <2>7. \A i \in 1 .. Depth : stack[i].session \in Sessions
      BY StackFacts DEF Inv, HandlerRecord
    <2>8. \A i \in 1 .. Depth : stack[i].session = s => stack[i].guard # "held"
      BY <1>4 DEF Inv, HandlerInv, HandlerKnows
    <2>9. session[s].state = "live"
      <3>1. session[s].state # "unborn" /\ session[s].state # "gone"
        BY <1>1, <1>4 DEF IsGone, Inv, HandlerInv, HandlerKnows
      <3> QED
        BY <2>2, <3>1 DEF SessionObject
    <2>10. HandlerInv'
      <3> SUFFICES ASSUME NEW i \in 1 .. Depth
                   PROVE  HandlerKnows(i)'
        BY <2>5 DEF HandlerInv
      <3>1. HandlerKnows(i)
        BY DEF Inv, HandlerInv, HandlerKnows
      <3>2. stack'[i].session = stack[i].session /\ stack'[i].client = stack[i].client
        BY <1>1, <2>4, <2>5
      <3>3. stack'[i].guard = "held" => stack[i].guard = "held" \/ stack[i].session = s
        BY <1>1, <2>4, <2>5
      <3>4. given' = given
        BY <2>1
      <3> DEFINE t == stack[i].session
      <3>5. /\ t \in Sessions /\ session'[t].state = session[t].state
            /\ session'[t].posted = session[t].posted
            /\ t = s \/ session[t].controller = "locked" =>
                  session'[t].controller = "locked"
        BY <2>3, <2>6, <2>7
      <3>6. session'[t].state # "unborn" /\ given'[t] \in {Nobody, stack'[i].client}
            /\ (session'[t].state = "gone" => session'[t].posted > i)
        BY <3>1, <3>2, <3>4, <3>5 DEF HandlerKnows
      <3>7. stack'[i].guard = "held" =>
               session'[t].state = "live" /\ session'[t].controller = "locked"
        BY <2>9, <3>1, <3>3, <3>5 DEF HandlerKnows
      <3> QED
        BY <3>2, <3>6, <3>7 DEF HandlerKnows
    <2>11. ShareInv'
      <3>1. \A i \in 1 .. Depth : /\ stack'[i].session = stack[i].session
                                  /\ stack'[i].client = stack[i].client
                                  /\ i # Depth => stack'[i].guard = stack[i].guard
        BY <1>1, <2>4, <2>5
      <3>2. \A i \in 1 .. Depth : i # Depth /\ stack[i].session = stack[Depth].session =>
               stack'[i].guard # "held"
        BY <1>1, <2>8, <3>1
      <3> QED
        BY <2>5, <3>1, <3>2 DEF Inv, ShareInv
    <2>12. LockInv'
      BY <1>1, <2>4, <2>5, <2>6 DEF Inv, LockInv, Guarded
    <2> QED
      BY <2>6, <2>10, <2>11, <2>12 DEF Inv
  <1> QED
    BY <1>2, <1>3, <1>4

\* A guard goes out of scope.
LEMMA ReleaseKeeps ==
  ASSUME Inv, Release
  PROVE  Inv'
  <1> DEFINE s == Top.session
  <1>1. /\ Depth \in 1 .. Depth /\ Top = stack[Depth] /\ Top \in HandlerRecord
        /\ Depth <= MaxDepth /\ stack \in Seq(HandlerRecord) /\ s \in Sessions
    BY StackFacts DEF Inv, Release, Handling, HandlerRecord
  <1>2. CASE Top.guard = "dead" /\ outcome' = "terminated" /\ UNCHANGED <<session, stack>>
    <2>1. Depth' = Depth
      BY <1>2 DEF Depth
    <2> QED
      BY <1>1, <1>2, <2>1, QuietStep DEF Release
  <1>3. CASE /\ Top.guard = "held" /\ session' = Unlocked(s)
             /\ stack' = [stack EXCEPT ![Depth].guard = "released"] /\ UNCHANGED outcome
    <2> DEFINE r == [Top EXCEPT !.guard = "released"]
    <2>1. UNCHANGED <<sessions, cookie, given, outcome>> /\ stack' = [stack EXCEPT ![Depth] = r]
      BY <1>1, <1>3 DEF Release
    <2>2. PICK x \in SessionObject :
              /\ x.state = session[s].state /\ x.expired = session[s].expired
              /\ x.posted = session[s].posted /\ x.controller = "free"
              /\ Unlocked(s) = [session EXCEPT ![s] = x]
      BY <1>1, UnlockedIs
    <2>3. r \in HandlerRecord /\ r.session = s /\ r.client = Top.client /\ r.guard = "released"
      BY <1>1 DEF HandlerRecord
    <2> HIDE DEF r
    <2>4. /\ stack' \in Seq(HandlerRecord) /\ Depth' = Depth
          /\ \A j \in 1 .. Depth : stack'[j] = IF j = Depth THEN r ELSE stack[j]
      BY <1>1, <2>1, <2>3, SetStack DEF Inv
    <2>5. /\ \A t \in Sessions : session'[t] = IF t = s THEN x ELSE session[t]
          /\ RegistryInv(sessions, session)' /\ CookieInv' /\ GivenInv' /\ TypeOK'
      <3>1. Depth' <= MaxDepth
        BY <1>1, <2>4
      <3> QED
        BY <1>1, <1>3, <2>1, <2>2, <2>4, <3>1, ControllerStep
    <2>6. \A i \in 1 .. Depth : stack[i].session \in Sessions
      BY StackFacts DEF Inv, HandlerRecord
    <2>7. \A i \in 1 .. Depth : i # Depth /\ stack[i].session = s => stack[i].guard # "held"
      BY <1>1, <1>3 DEF Inv, ShareInv
    <2>8. HandlerInv'
      <3> SUFFICES ASSUME NEW i \in 1 .. Depth
                   PROVE  HandlerKnows(i)'
        BY <2>4 DEF HandlerInv
      <3>1. HandlerKnows(i)
        BY DEF Inv, HandlerInv, HandlerKnows
      <3>2. stack'[i].session = stack[i].session /\ stack'[i].client = stack[i].client
        BY <1>1, <2>3, <2>4
      <3>3. stack'[i].guard = "held" => stack[i].guard = "held" /\ stack[i].session # s
        BY <1>1, <2>3, <2>4, <2>7
      <3>4. given' = given
        BY <2>1
      <3> DEFINE t == stack[i].session
      <3>5. /\ t \in Sessions /\ session'[t].state = session[t].state
            /\ session'[t].posted = session[t].posted
            /\ t # s => session'[t].controller = session[t].controller
        BY <2>2, <2>5, <2>6
      <3>6. session'[t].state # "unborn" /\ given'[t] \in {Nobody, stack'[i].client}
            /\ (session'[t].state = "gone" => session'[t].posted > i)
        BY <3>1, <3>2, <3>4, <3>5 DEF HandlerKnows
      <3>7. stack'[i].guard = "held" =>
               session'[t].state = "live" /\ session'[t].controller = "locked"
        BY <3>1, <3>3, <3>5 DEF HandlerKnows
      <3> QED
        BY <3>2, <3>6, <3>7 DEF HandlerKnows
    <2>9. ShareInv'
      <3>1. \A i \in 1 .. Depth : /\ stack'[i].session = stack[i].session
                                  /\ stack'[i].client = stack[i].client
                                  /\ stack'[i].guard = "held" => stack[i].guard = "held"
        BY <1>1, <2>3, <2>4
      <3> QED
        BY <2>4, <3>1 DEF Inv, ShareInv
    <2>10. LockInv'
      <3> SUFFICES ASSUME NEW t \in Sessions, session'[t].state = "live",
                          session'[t].controller = "locked"
                   PROVE  Guarded(t)'
        BY DEF LockInv, Guarded
      <3>1. t # s
        BY <2>2, <2>5
      <3>2. PICK i \in 1 .. Depth : stack[i].session = t /\ stack[i].guard = "held"
        BY <2>5, <3>1 DEF Inv, LockInv, Guarded
      <3> QED
        BY <1>1, <2>4, <3>1, <3>2 DEF Guarded
    <2> QED
      BY <2>5, <2>8, <2>9, <2>10 DEF Inv
  <1> QED
    BY <1>2, <1>3 DEF Release

\* The handler returns.
LEMMA AnswerKeeps ==
  ASSUME Inv, NEW own, Answer(own)
  PROVE  Inv'
  <1> DEFINE s == Top.session
             c == Top.client
             sent == own \/ ~Top.new
  <1>1. /\ Depth \in 1 .. Depth /\ Top = stack[Depth] /\ Top \in HandlerRecord
        /\ Depth <= MaxDepth /\ stack \in Seq(HandlerRecord)
        /\ s \in Sessions /\ c \in Clients
    BY StackFacts DEF Inv, Answer, Handling, HandlerRecord
  <1>2. CASE sent /\ IsGone(s)
    BY <1>2, UseOfDeletedKeeps DEF Answer
  <1>3. CASE ~sent
    <2>1. /\ Pop /\ UNCHANGED <<sessions, session, cookie, given, outcome>>
          /\ Top.guard # "held"
      BY <1>3 DEF Answer
    <2>2. outcome' \in {"running", "terminated", "undefined"}
      BY <2>1 DEF Inv, TypeOK
    <2> QED
      BY <1>1, <2>1, <2>2, PopKeeps
  <1>4. CASE sent /\ ~IsGone(s)
    <2>1. /\ Pop /\ UNCHANGED <<sessions, session, outcome>> /\ Top.guard # "held"
          /\ cookie' = [cookie EXCEPT ![c] = s] /\ given' = [given EXCEPT ![s] = c]
      BY <1>4 DEF Answer
    <2>2. /\ cookie \in [Clients -> Sessions \cup {NoToken}]
          /\ given \in [Sessions -> Clients \cup {Nobody}]
          /\ outcome \in {"running", "terminated", "undefined"}
      BY DEF Inv, TypeOK
    <2>3. /\ \A d \in Clients : cookie'[d] = IF d = c THEN s ELSE cookie[d]
          /\ \A t \in Sessions : given'[t] = IF t = s THEN c ELSE given[t]
          /\ cookie' \in [Clients -> Sessions \cup {NoToken}]
          /\ given' \in [Sessions -> Clients \cup {Nobody}]
      BY <1>1, <2>1, <2>2
    <2>4. /\ stack' \in Seq(HandlerRecord) /\ Depth' = Depth - 1
          /\ \A i \in 1 .. Depth' : stack'[i] = stack[i] /\ i \in 1 .. Depth
      BY <1>1, <2>1, PopStack DEF Inv
    <2>5. RegistryInv(sessions, session)'
      BY <2>1 DEF Inv, RegistryInv
    <2>6. TypeOK'
      <3>1. Depth' <= MaxDepth
        BY <1>1, <2>4
      <3> QED
        BY <2>1, <2>2, <2>3, <2>4, <2>5, <3>1, TypesAgain
    <2>7. session[s].state # "unborn" /\ given[s] \in {Nobody, c}
      BY <1>1 DEF Inv, HandlerInv, HandlerKnows
    <2>8. CookieInv'
      <3> SUFFICES ASSUME NEW d \in Clients, cookie'[d] \in Sessions
                   PROVE  session[cookie'[d]].state # "unborn" /\ given'[cookie'[d]] = d
        BY <2>1 DEF CookieInv
      <3>1. CASE d = c
        BY <1>1, <2>3, <2>7, <3>1
      <3>2. CASE d # c
        <4>1. cookie[d] \in Sessions /\ session[cookie[d]].state # "unborn" /\ given[cookie[d]] = d
          BY <2>3, <3>2 DEF Inv, CookieInv
        <4>2. cookie[d] # s
          BY <2>7, <3>2, <4>1
        <4> QED
          BY <2>3, <3>2, <4>1, <4>2
      <3> QED
        BY <3>1, <3>2
    <2>9. GivenInv'
      BY <2>1, <2>3, <2>7 DEF Inv, GivenInv
    <2>10. HandlerInv'
      <3> SUFFICES ASSUME NEW i \in 1 .. Depth'
                   PROVE  HandlerKnows(i)'
        BY <2>1, <2>4 DEF HandlerInv
      <3>1. stack[i].session = s => stack[i].client = c
        BY <1>1, <2>4 DEF Inv, ShareInv
      <3>2. stack[i].session \in Sessions
        BY <2>4, StackFacts DEF Inv, HandlerRecord
      <3> QED
        BY <2>1, <2>3, <2>4, <3>1, <3>2 DEF Inv, HandlerInv, HandlerKnows
    <2>11. ShareInv'
      BY <2>4 DEF Inv, ShareInv
    <2>12. LockInv'
      <3> SUFFICES ASSUME NEW t \in Sessions, session[t].state = "live",
                          session[t].controller = "locked"
                   PROVE  Guarded(t)'
        BY <2>1 DEF LockInv, Guarded
      <3>1. PICK i \in 1 .. Depth : stack[i].session = t /\ stack[i].guard = "held"
        BY DEF Inv, LockInv, Guarded
      <3>2. i \in 1 .. Depth'
        BY <1>1, <2>1, <2>4, <3>1
      <3> QED
        BY <2>4, <3>1, <3>2 DEF Guarded
    <2> QED
      BY <2>5, <2>6, <2>8, <2>9, <2>10, <2>11, <2>12 DEF Inv
  <1> QED
    BY <1>2, <1>3, <1>4

-----------------------------------------------------------------------------
(* Time, deletion and clients *)

\* The time of a session runs out.
LEMMA ExpireKeeps ==
  ASSUME Inv, NEW s \in Sessions, Expire(s)
  PROVE  Inv'
  <1> DEFINE x == [session[s] EXCEPT !.expired = TRUE]
  <1>1. session \in Objects /\ session[s] \in SessionObject
    BY DEF Inv, RegistryInv, Objects
  <1>2. /\ x \in SessionObject /\ x.state = session[s].state /\ x.posted = session[s].posted
        /\ x.controller = session[s].controller
    BY <1>1 DEF SessionObject
  <1>3. x.expired
    BY <1>1 DEF SessionObject
  <1>4. session' = [session EXCEPT ![s] = x]
    BY <1>1 DEF Expire, Objects
  <1> HIDE DEF x
  <1>5. session' \in Objects /\ \A t \in Sessions : session'[t] = IF t = s THEN x ELSE session[t]
    BY <1>1, <1>2, <1>4 DEF Objects
  <1>6. /\ UNCHANGED <<sessions, cookie, given, stack, outcome>> /\ Depth' = Depth
        /\ \A i \in 1 .. Depth : stack[i].session \in Sessions
        /\ stack \in Seq(HandlerRecord) /\ Depth <= MaxDepth
    BY StackFacts DEF Expire, Depth, Inv, HandlerRecord
  <1>7. RegistryInv(sessions, session)'
    BY <1>2, <1>3, <1>5, <1>6 DEF Inv, RegistryInv, Listed
  <1>8. TypeOK'
    <2>1. /\ cookie' \in [Clients -> Sessions \cup {NoToken}]
          /\ given' \in [Sessions -> Clients \cup {Nobody}]
          /\ outcome' \in {"running", "terminated", "undefined"}
      BY <1>6 DEF Inv, TypeOK
    <2> QED
      BY <1>6, <1>7, <2>1, TypesAgain
  <1>9. \A t \in Sessions : /\ session'[t].state = session[t].state
                            /\ session'[t].posted = session[t].posted
                            /\ session'[t].controller = session[t].controller
    BY <1>2, <1>5
  <1>10. CookieInv' /\ GivenInv'
    BY <1>6, <1>9 DEF Inv, CookieInv, GivenInv
  <1>11. HandlerInv'
    BY <1>6, <1>9 DEF Inv, HandlerInv, HandlerKnows
  <1>12. ShareInv' /\ LockInv'
    BY <1>6, <1>9 DEF Inv, ShareInv, LockInv, Guarded
  <1> QED
    BY <1>7, <1>8, <1>10, <1>11, <1>12 DEF Inv

\* A client drops its cookie.
LEMMA ForgetKeeps ==
  ASSUME Inv, NEW c \in Clients, Forget(c)
  PROVE  Inv'
  <1>1. /\ UNCHANGED <<sessions, session, given, stack, outcome>> /\ Depth' = Depth
        /\ stack \in Seq(HandlerRecord) /\ Depth <= MaxDepth
        /\ cookie \in [Clients -> Sessions \cup {NoToken}]
        /\ cookie' = [cookie EXCEPT ![c] = NoToken]
    BY StackFacts DEF Forget, Depth, Inv, TypeOK
  <1>2. /\ cookie' \in [Clients -> Sessions \cup {NoToken}]
        /\ \A d \in Clients : cookie'[d] \in Sessions => cookie'[d] = cookie[d]
    BY <1>1
  <1>3. RegistryInv(sessions, session)'
    BY <1>1 DEF Inv, RegistryInv
  <1>4. TypeOK'
    <2>1. /\ given' \in [Sessions -> Clients \cup {Nobody}]
          /\ outcome' \in {"running", "terminated", "undefined"}
      BY <1>1 DEF Inv, TypeOK
    <2> QED
      BY <1>1, <1>2, <1>3, <2>1, TypesAgain
  <1>5. CookieInv'
    BY <1>1, <1>2 DEF Inv, CookieInv
  <1>6. GivenInv' /\ HandlerInv' /\ ShareInv' /\ LockInv'
    BY <1>1 DEF Inv, GivenInv, HandlerInv, HandlerKnows, ShareInv, LockInv, Guarded
  <1> QED
    BY <1>3, <1>4, <1>5, <1>6 DEF Inv

\* ~Session() takes its session, and no other, out of the registry.
LEMMA ErasedLists ==
  ASSUME NEW s \in Sessions, NEW registry \in Seq(Sessions),
         \A i, j \in DOMAIN registry : registry[i] = registry[j] => i = j
  PROVE  /\ Erased(registry, s) \in Seq(Sessions)
         /\ \A t \in Sessions : Listed(Erased(registry, s), t) <=> t # s /\ Listed(registry, t)
         /\ \A i, j \in DOMAIN Erased(registry, s) :
               Erased(registry, s)[i] = Erased(registry, s)[j] => i = j
  <1>1. Len(registry) \in Nat /\ DOMAIN registry = 1 .. Len(registry)
        /\ \A i \in 1 .. Len(registry) : registry[i] \in Sessions
    BY LenProperties, ElementOfSeq
  <1>2. CASE Position(registry, s) = {}
    <2>1. Erased(registry, s) = registry
      BY <1>2 DEF Erased
    <2> QED
      BY <1>2, <2>1 DEF Listed, Position
  <1>3. CASE Position(registry, s) # {}
    <2> DEFINE at == First(Position(registry, s))
               less == [i \in 1 .. Len(registry) - 1 |-> registry[IF i < at THEN i ELSE i + 1]]
    <2>1. at \in 1 .. Len(registry) /\ registry[at] = s
      <3>1. Position(registry, s) \in SUBSET Nat
        BY <1>1 DEF Position
      <3> QED
        BY <1>1, <1>3, <3>1, FirstIsLeast DEF Position
    <2>2. Erased(registry, s) = less
      BY <1>3 DEF Erased
    <2> HIDE DEF at
    <2>3. \A i \in 1 .. Len(registry) - 1 :
            less[i] \in Sessions /\ less[i] = registry[IF i < at THEN i ELSE i + 1]
      BY <1>1, <2>1
    <2>4. Len(registry) - 1 \in Nat
      BY <1>1, <2>1
    <2>5. less \in Seq(Sessions) /\ DOMAIN less = 1 .. Len(registry) - 1
      BY <2>3, <2>4, SeqDef
    <2> HIDE DEF less
    <2>6. \A i, j \in 1 .. Len(registry) - 1 : less[i] = less[j] => i = j
      <3> SUFFICES ASSUME NEW i \in 1 .. Len(registry) - 1, NEW j \in 1 .. Len(registry) - 1,
                          less[i] = less[j]
                   PROVE  i = j
        OBVIOUS
      <3>1. (IF i < at THEN i ELSE i + 1) = (IF j < at THEN j ELSE j + 1)
        BY <1>1, <2>1, <2>3
      <3> QED
        BY <1>1, <2>1, <3>1
    <2>7. ASSUME NEW t \in Sessions, Listed(less, t) PROVE t # s /\ Listed(registry, t)
      <3>1. PICK i \in 1 .. Len(registry) - 1 : less[i] = t
        BY <2>5, <2>7 DEF Listed
      <3> DEFINE k == IF i < at THEN i ELSE i + 1
      <3>2. k \in 1 .. Len(registry) /\ k # at /\ registry[k] = t
        BY <1>1, <2>1, <2>3, <3>1
      <3> HIDE DEF k
      <3> QED
        BY <1>1, <2>1, <3>2 DEF Listed
    <2>8. ASSUME NEW t \in Sessions, t # s, Listed(registry, t) PROVE Listed(less, t)
      <3>1. PICK k \in 1 .. Len(registry) : registry[k] = t
        BY <1>1, <2>8 DEF Listed
      <3>2. k # at
        BY <2>1, <2>8, <3>1
      <3> DEFINE i == IF k < at THEN k ELSE k - 1
      <3>3. i \in 1 .. Len(registry) - 1 /\ (IF i < at THEN i ELSE i + 1) = k
        BY <1>1, <2>1, <3>2
      <3> HIDE DEF i
      <3>4. less[i] = t
        BY <2>3, <3>1, <3>3
      <3> QED
        BY <2>5, <3>3, <3>4 DEF Listed
    <2> QED
      BY <2>2, <2>5, <2>6, <2>7, <2>8
  <1> QED
    BY <1>2, <1>3

\* A session is deleted.
LEMMA DeleteKeeps ==
  ASSUME Inv, NEW s \in Sessions, Delete(s)
  PROVE  Inv'
  <1> DEFINE x == [session[s] EXCEPT !.state = "gone"]
  <1>1. session \in Objects /\ session[s] \in SessionObject
    BY DEF Inv, RegistryInv, Objects
  <1>2. /\ x \in SessionObject /\ x.state = "gone" /\ x.posted = session[s].posted
        /\ x.expired = session[s].expired
    BY <1>1 DEF SessionObject
  <1>3. session' = [session EXCEPT ![s] = x]
    BY <1>1 DEF Delete, Objects
  <1> HIDE DEF x
  <1>4. session' \in Objects /\ \A t \in Sessions : session'[t] = IF t = s THEN x ELSE session[t]
    BY <1>1, <1>2, <1>3 DEF Objects
  <1>5. /\ stack \in Seq(HandlerRecord) /\ Depth \in Nat /\ Depth <= MaxDepth
        /\ DOMAIN stack = 1 .. Depth /\ \A i \in 1 .. Depth : stack[i] \in HandlerRecord
    BY StackFacts, LenProperties DEF Inv, Depth
  <1> DEFINE Dead(r) == IF r.session = s /\ r.guard = "held"
                        THEN [r EXCEPT !.guard = "dead"] ELSE r
  <1>6. ASSUME NEW r \in HandlerRecord
        PROVE  /\ Dead(r) \in HandlerRecord /\ Dead(r).session = r.session
               /\ Dead(r).client = r.client /\ r.session \in Sessions
               /\ Dead(r).guard = "held" <=> r.guard = "held" /\ r.session # s
    BY DEF HandlerRecord
  <1>7. stack' = [i \in 1 .. Depth |-> Dead(stack[i])]
    BY <1>5 DEF Delete
  <1> HIDE DEF Dead
  <1>8. \A i \in 1 .. Depth : stack'[i] = Dead(stack[i]) /\ stack'[i] \in HandlerRecord
    BY <1>5, <1>6, <1>7
  <1>9. stack' \in Seq(HandlerRecord) /\ DOMAIN stack' = 1 .. Depth
    BY <1>5, <1>7, <1>8, SeqDef
  <1>10. Depth' = Depth
    <2>1. Len(stack') \in Nat /\ 1 .. Len(stack') = 1 .. Depth
      BY <1>9, LenProperties
    <2> QED
      BY <1>5, <2>1 DEF Depth
  <1>11. RegistryInv(sessions, session)'
    <2>1. /\ sessions' \in Seq(Sessions)
          /\ \A t \in Sessions : Listed(sessions', t) <=> t # s /\ Listed(sessions, t)
          /\ \A i, j \in DOMAIN sessions' : sessions'[i] = sessions'[j] => i = j
      BY ErasedLists DEF Delete, Inv, RegistryInv
    <2>2. session[s].expired
      BY DEF Delete, Inv, RegistryInv
    <2> QED
      BY <1>2, <1>4, <2>1, <2>2 DEF Inv, RegistryInv
  <1>12. UNCHANGED <<cookie, given>> /\ outcome' \in {"running", "terminated", "undefined"}
    BY DEF Delete
  <1>13. TypeOK'
    <2>1. /\ cookie' \in [Clients -> Sessions \cup {NoToken}]
          /\ given' \in [Sessions -> Clients \cup {Nobody}] /\ Depth' <= MaxDepth
      BY <1>5, <1>10, <1>12 DEF Inv, TypeOK
    <2> QED
      BY <1>9, <1>11, <1>12, <2>1, TypesAgain
  <1>14. session[s].state = "live" /\ session[s].posted > Depth
    BY DEF Delete, IsLive, Deletable
  <1>15. CookieInv' /\ GivenInv'
    BY <1>2, <1>4, <1>12, <1>14 DEF Inv, CookieInv, GivenInv
  <1>16. HandlerInv'
    <2> SUFFICES ASSUME NEW i \in 1 .. Depth
                 PROVE  HandlerKnows(i)'
      BY <1>10 DEF HandlerInv
    <2>1. HandlerKnows(i)
      BY DEF Inv, HandlerInv, HandlerKnows
    <2>2. /\ stack'[i].session = stack[i].session /\ stack'[i].client = stack[i].client
          /\ stack[i].session \in Sessions
          /\ stack'[i].guard = "held" => stack[i].guard = "held" /\ stack[i].session # s
      BY <1>5, <1>6, <1>8
    <2>3. x.posted > i
      <3>1. session[s].posted \in Nat
        BY <1>1 DEF SessionObject
      <3> QED
        BY <1>2, <1>5, <1>14, <3>1
    <2> QED
      BY <1>2, <1>4, <1>12, <2>1, <2>2, <2>3 DEF HandlerKnows
  <1>17. ShareInv'
    BY <1>5, <1>6, <1>8, <1>10 DEF Inv, ShareInv
  <1>18. LockInv'
    <2> SUFFICES ASSUME NEW t \in Sessions, session'[t].state = "live",
                        session'[t].controller = "locked"
                 PROVE  Guarded(t)'
      BY <1>10 DEF LockInv, Guarded
    <2>1. t # s
      BY <1>2, <1>4
    <2>2. PICK i \in 1 .. Depth : stack[i].session = t /\ stack[i].guard = "held"
      BY <1>4, <2>1 DEF Inv, LockInv, Guarded
    <2> QED
      BY <1>5, <1>10, <1>6, <1>8, <2>1, <2>2 DEF Guarded
  <1> QED
    BY <1>11, <1>13, <1>15, <1>16, <1>17, <1>18 DEF Inv

-----------------------------------------------------------------------------
(* A request arrives *)

\* A request finds its session or gets a new one, and is pushed.
LEMMA ArriveKeeps ==
  ASSUME Inv, NEW c \in Clients, NEW route \in Routes, Arrive(c, route)
  PROVE  Inv' /\ \A t \in Sessions : Grown(session[t], session'[t])
  <1> DEFINE found == Lookups(c, route)
             s == found.session
             r == [client |-> c, session |-> s, new |-> found.new, guard |-> "none",
                   at |-> "handler", due |-> FALSE, waits |-> 0]
  <1>1. /\ stack \in Seq(HandlerRecord) /\ Depth \in Nat /\ Depth = Len(stack)
        /\ \A i \in 1 .. Depth : stack[i] \in HandlerRecord
    BY StackFacts DEF Inv, Depth
  <1>2. /\ Depth < MaxDepth
        /\ cookie[c] \in Sessions \cup {NoToken}
        /\ cookie[c] \in Sessions => session[cookie[c]].state # "unborn" /\ given[cookie[c]] = c
    BY DEF Arrive, Inv, TypeOK, CookieInv
  <1>3. Cardinality({t \in Sessions : session[t].state = "unborn"})
           >= IF IsWeb(route) THEN 2 ELSE 1
    BY DEF Arrive
  <1>4. GoodLookups(c, found)
    BY <1>1, <1>2, <1>3, LookupsGive DEF Inv
  <1>5. /\ sessions' = found.registry /\ session' = found.objects /\ stack' = Append(stack, r)
        /\ UNCHANGED <<cookie, given, outcome>>
    BY DEF Arrive
  <1> HIDE DEF found
  <1>6. /\ RegistryInv(sessions, session)'
        /\ s \in Sessions /\ session'[s].state = "live" /\ found.new \in BOOLEAN
        /\ \A t \in Sessions : Grown(session[t], session'[t])
        /\ IF found.new THEN session[s].state = "unborn" ELSE s = cookie[c]
    BY <1>4, <1>5 DEF GoodLookups
  <1>7. r \in HandlerRecord /\ r.session = s /\ r.client = c /\ r.guard = "none"
    BY <1>6 DEF HandlerRecord
  <1> HIDE DEF r
  <1>8. /\ stack' \in Seq(HandlerRecord) /\ Depth' = Depth + 1 /\ stack'[Depth + 1] = r
        /\ \A i \in 1 .. Depth : stack'[i] = stack[i]
    BY <1>1, <1>5, <1>7, AppendProperties DEF Depth
  <1>9. TypeOK'
    <2>1. /\ cookie' \in [Clients -> Sessions \cup {NoToken}]
          /\ given' \in [Sessions -> Clients \cup {Nobody}]
          /\ outcome' \in {"running", "terminated", "undefined"} /\ Depth' <= MaxDepth
      BY <1>1, <1>2, <1>5, <1>8 DEF Inv, TypeOK
    <2> QED
      BY <1>6, <1>8, <2>1, TypesAgain
  <1>10. \A t \in Sessions : session[t].state # "unborn" =>
           /\ session'[t].state = session[t].state
           /\ session'[t].controller = session[t].controller
           /\ session[t].state = "gone" => session'[t].posted = session[t].posted
    BY <1>6 DEF Grown, Marked
  <1>11. \A t \in Sessions : session[t].state = "unborn" =>
           session'[t].state \in {"unborn", "live"} /\ (session'[t].state = "live" =>
              session'[t].controller = "none")
    BY <1>6 DEF Grown, Marked, Fresh
  <1>12. CookieInv'
    BY <1>5, <1>10 DEF Inv, CookieInv
  <1>13. GivenInv'
    <2>1. \A t \in Sessions : session'[t].state = "unborn" => session[t].state = "unborn"
      BY <1>10
    <2> QED
      BY <1>5, <2>1 DEF Inv, GivenInv
  <1>14. given[s] \in {Nobody, c}
    BY <1>2, <1>6 DEF Inv, GivenInv
  <1>15. \A i \in 1 .. Depth :
           stack[i].session \in Sessions /\ session[stack[i].session].state # "unborn"
    BY <1>1 DEF Inv, HandlerInv, HandlerKnows, HandlerRecord
  <1>16. \A i \in 1 .. Depth : stack[i].session = s => stack[i].client = c
    <2> SUFFICES ASSUME NEW i \in 1 .. Depth, stack[i].session = s PROVE stack[i].client = c
      OBVIOUS
    <2>1. ~found.new /\ s = cookie[c]
      BY <1>6, <1>15
    <2>2. given[s] = c /\ given[s] \in {Nobody, stack[i].client}
      BY <1>2, <1>6, <2>1 DEF Inv, HandlerInv, HandlerKnows
    <2> QED
      BY <2>2
  <1>17. HandlerInv'
    <2> SUFFICES ASSUME NEW i \in 1 .. Depth + 1
                 PROVE  HandlerKnows(i)'
      BY <1>5, <1>8 DEF HandlerInv
    <2>1. CASE i = Depth + 1
      BY <1>5, <1>6, <1>7, <1>8, <1>14, <2>1 DEF HandlerKnows
    <2>2. CASE i # Depth + 1
      <3>1. i \in 1 .. Depth /\ stack'[i] = stack[i]
        BY <1>1, <1>8, <2>2
      <3>2. HandlerKnows(i)
        BY <3>1 DEF Inv, HandlerInv, HandlerKnows
      <3> QED
        BY <1>5, <1>10, <1>15, <3>1, <3>2 DEF HandlerKnows
    <2> QED
      BY <2>1, <2>2
  <1>18. ShareInv'
    <2> SUFFICES ASSUME NEW i \in 1 .. Depth + 1, NEW j \in 1 .. Depth + 1,
                        stack'[i].session = stack'[j].session
                 PROVE  /\ stack'[i].client = stack'[j].client
                        /\ stack'[i].guard = "held" /\ stack'[j].guard = "held" => i = j
      BY <1>8 DEF ShareInv
    <2>1. CASE i \in 1 .. Depth /\ j \in 1 .. Depth
      BY <1>8, <2>1 DEF Inv, ShareInv
    <2>2. CASE i = Depth + 1 /\ j \in 1 .. Depth
      BY <1>7, <1>8, <1>16, <2>2
    <2>3. CASE i \in 1 .. Depth /\ j = Depth + 1
      BY <1>7, <1>8, <1>16, <2>3
    <2>4. CASE i = Depth + 1 /\ j = Depth + 1
      BY <2>4
    <2> QED
      BY <1>1, <2>1, <2>2, <2>3, <2>4
  <1>19. LockInv'
    <2> SUFFICES ASSUME NEW t \in Sessions, session'[t].state = "live",
                        session'[t].controller = "locked"
                 PROVE  Guarded(t)'
      BY <1>8 DEF LockInv, Guarded
    <2>1. session[t].state = "live" /\ session[t].controller = "locked"
      BY <1>10, <1>11
    <2>2. PICK i \in 1 .. Depth : stack[i].session = t /\ stack[i].guard = "held"
      BY <2>1 DEF Inv, LockInv, Guarded
    <2> QED
      BY <1>1, <1>8, <2>2 DEF Guarded
  <1> QED
    BY <1>6, <1>9, <1>12, <1>13, <1>17, <1>18, <1>19 DEF Inv

-----------------------------------------------------------------------------
(* The properties *)

\* Every step keeps the invariant.
LEMMA NextKeeps == Inv /\ [Next]_vars => Inv'
  <1> SUFFICES ASSUME Inv, [Next]_vars PROVE Inv'
    OBVIOUS
  <1>1. CASE UNCHANGED vars
    <2>1. UNCHANGED <<sessions, session, cookie, given, stack, outcome>>
      BY <1>1 DEF vars
    <2>2. Depth' = Depth /\ stack' \in Seq(HandlerRecord)
          /\ outcome' \in {"running", "terminated", "undefined"}
      BY <2>1, StackFacts DEF Depth, Inv, TypeOK
    <2> QED
      BY <2>1, <2>2, QuietStep
  <1>2. CASE \E c \in Clients, route \in Routes : Arrive(c, route)
    BY <1>2, ArriveKeeps
  <1>3. CASE Handler
    BY <1>3, AcquireKeeps, ReleaseKeeps, WaitKeeps, WakeKeeps, ThrowKeeps, AnswerKeeps DEF Handler
  <1>4. CASE \E i \in 1 .. MaxDepth : Due(i)
    BY <1>4, DueKeeps
  <1>5. CASE \E s \in Sessions : Expire(s) \/ Delete(s)
    BY <1>5, ExpireKeeps, DeleteKeeps
  <1>6. CASE \E c \in Clients : Forget(c)
    BY <1>6, ForgetKeeps
  <1> QED
    BY <1>1, <1>2, <1>3, <1>4, <1>5, <1>6 DEF Next

\* The invariant always holds.
LEMMA AlwaysInv == Spec => []Inv
  BY InitInv, NextKeeps, PTL DEF Spec

\* Every reachable state is well typed.
THEOREM RequestsTypeCorrect == Spec => []TypeOK
  <1>1. Inv => TypeOK
    BY DEF Inv
  <1> QED
    BY <1>1, AlwaysInv, PTL

\* A controller is locked exactly when one handler has a guard of it.
THEOREM LocksHaveGuards == Spec => []LockMeansOneGuard
  <1>1. ASSUME Inv PROVE LockMeansOneGuard
    <2> SUFFICES ASSUME NEW s \in Sessions, session[s].state = "live"
                 PROVE  Cardinality({i \in 1 .. Depth :
                                     stack[i].session = s /\ stack[i].guard = "held"})
                           = IF session[s].controller = "locked" THEN 1 ELSE 0
      BY DEF LockMeansOneGuard, IsLive
    <2> DEFINE holders == {i \in 1 .. Depth : stack[i].session = s /\ stack[i].guard = "held"}
    <2>1. CASE session[s].controller = "locked"
      <3>1. PICK i \in 1 .. Depth : stack[i].session = s /\ stack[i].guard = "held"
        BY <1>1, <2>1 DEF Inv, LockInv, Guarded
      <3>2. holders = {i}
        BY <1>1, <3>1 DEF Inv, ShareInv
      <3> HIDE DEF holders
      <3>3. Cardinality(holders) = 1
        BY <3>2, FS_Singleton
      <3> QED
        BY <2>1, <3>3 DEF holders
    <2>2. CASE session[s].controller # "locked"
      <3>1. holders = {}
        BY <1>1, <2>2 DEF Inv, HandlerInv, HandlerKnows
      <3> HIDE DEF holders
      <3>2. Cardinality(holders) = 0
        BY <3>1, FS_EmptySet
      <3> QED
        BY <2>2, <3>2 DEF holders
    <2> QED
      BY <2>1, <2>2
  <1> QED
    BY <1>1, AlwaysInv, PTL

\* A client with a cookie whose time has not run out is in the registry.
THEOREM ClientsAreKnown == Spec => []KnownUntilExpired
  <1>1. ASSUME Inv PROVE KnownUntilExpired
    <2> SUFFICES ASSUME NEW c \in Clients, cookie[c] \in Sessions, ~session[cookie[c]].expired
                 PROVE  \E i \in DOMAIN sessions : sessions[i] = cookie[c]
      BY DEF KnownUntilExpired
    <2>1. session[cookie[c]] \in SessionObject
      BY <1>1 DEF Inv, RegistryInv, Objects
    <2>2. session[cookie[c]].state # "unborn" /\ session[cookie[c]].state # "gone"
      BY <1>1 DEF Inv, CookieInv, RegistryInv
    <2> QED
      BY <1>1, <2>1, <2>2 DEF Inv, RegistryInv, Listed, SessionObject
  <1> QED
    BY <1>1, AlwaysInv, PTL

\* A session is deleted under a handler only after its time, by one above it.
THEOREM DeletionsComeFromAbove == Spec => []DeletedOnlyFromAbove
  <1>1. ASSUME Inv PROVE DeletedOnlyFromAbove
    <2>1. \A i \in 1 .. Depth : stack[i].session \in Sessions
      BY <1>1, StackFacts DEF Inv, HandlerRecord
    <2> QED
      BY <1>1, <2>1 DEF Inv, DeletedOnlyFromAbove, HandlerInv, HandlerKnows, RegistryInv, IsGone
  <1> QED
    BY <1>1, AlwaysInv, PTL

-----------------------------------------------------------------------------
(* Sessions implement a SessionStore *)

phases == [s \in Sessions |-> Phase(s)]

\* A step in which sessions keep their state and their time is a stutter.
LEMMA SamePhases ==
  ASSUME \A s \in Sessions : /\ session'[s].state = session[s].state
                             /\ session'[s].expired = session[s].expired
  PROVE  phases' = phases
  <1>1. ASSUME NEW s \in Sessions PROVE Phase(s)' = Phase(s)
    BY DEF Phase, IsLive
  <1> QED
    BY <1>1 DEF phases

\* A step that changes at most the controller of one session.
LEMMA ControllerPhases ==
  ASSUME Inv, NEW s \in Sessions,
         session' \in {session, Unlocked(s), [session EXCEPT ![s].controller = "locked"]}
  PROVE  phases' = phases
  <1>1. session \in Objects /\ session[s] \in SessionObject
    BY DEF Inv, RegistryInv, Objects
  <1>2. CASE session' = session
    BY <1>2, SamePhases
  <1>3. CASE session' = Unlocked(s)
    <2>1. PICK x \in SessionObject :
            /\ x.state = session[s].state /\ x.expired = session[s].expired
            /\ Unlocked(s) = [session EXCEPT ![s] = x]
      BY UnlockedIs
    <2>2. \A t \in Sessions : session'[t] = IF t = s THEN x ELSE session[t]
      BY <1>1, <1>3, <2>1 DEF Objects
    <2> QED
      BY <2>1, <2>2, SamePhases
  <1>4. CASE session' = [session EXCEPT ![s].controller = "locked"]
    <2> DEFINE x == [session[s] EXCEPT !.controller = "locked"]
    <2>1. x.state = session[s].state /\ x.expired = session[s].expired
      BY <1>1 DEF SessionObject
    <2>2. session' = [session EXCEPT ![s] = x]
      BY <1>1, <1>4 DEF Objects, SessionObject
    <2> HIDE DEF x
    <2>3. \A t \in Sessions : session'[t] = IF t = s THEN x ELSE session[t]
      BY <1>1, <2>2 DEF Objects
    <2> QED
      BY <2>1, <2>3, SamePhases
  <1> QED
    BY <1>2, <1>3, <1>4

\* What the running handler does to its session.
LEMMA HandlerPhases ==
  ASSUME Inv, Handler
  PROVE  phases' = phases
  <1>1. Depth > 0 => Top.session \in Sessions
    BY StackFacts DEF Inv, HandlerRecord
  <1>2. CASE Acquire
    <2>1. Top.session \in Sessions
      BY <1>1, <1>2 DEF Acquire, Handling
    <2>2. session' \in {session, Unlocked(Top.session),
                       [session EXCEPT ![Top.session].controller = "locked"]}
      BY <1>2 DEF Acquire, UseOfDeleted, TimeOut, Unwind
    <2> QED
      BY <2>1, <2>2, ControllerPhases
  <1>3. CASE Release
    BY <1>1, <1>3, ControllerPhases DEF Release, Handling
  <1>4. CASE Throw
    <2>1. Top.session \in Sessions
      BY <1>1, <1>4 DEF Throw, Handling
    <2>2. session' \in {session, Unlocked(Top.session)}
      BY <1>4 DEF Throw, Unwind
    <2> QED
      BY <2>1, <2>2, ControllerPhases
  <1>5. CASE Wait \/ Wake \/ \E own \in BOOLEAN : Answer(own)
    <2>1. session' = session
      BY <1>5 DEF Wait, Wake, Answer, UseOfDeleted
    <2> QED
      BY <2>1, SamePhases
  <1> QED
    BY <1>2, <1>3, <1>4, <1>5 DEF Handler

\* The cookie of a session goes to the client whose request it was made for.
LEMMA HandlerGives ==
  ASSUME Inv, Handler
  PROVE  \/ given' = given
         \/ \E s \in Sessions, c \in Clients :
               /\ session[s].state = "live" /\ given[s] = Nobody
               /\ given' = [given EXCEPT ![s] = c]
  <1>1. Depth > 0 => /\ Depth \in 1 .. Depth /\ Top = stack[Depth]
                     /\ Top.session \in Sessions /\ Top.client \in Clients
    BY StackFacts DEF Inv, HandlerRecord
  <1>2. ASSUME NEW own \in BOOLEAN, Answer(own), given' # given
        PROVE  \E s \in Sessions, c \in Clients :
                  /\ session[s].state = "live" /\ given[s] = Nobody
                  /\ given' = [given EXCEPT ![s] = c]
    <2> DEFINE s == Top.session
               c == Top.client
    <2>1. given' = [given EXCEPT ![s] = c] /\ ~IsGone(s) /\ Depth > 0
      BY <1>2 DEF Answer, UseOfDeleted, Handling
    <2>2. /\ session[s].state # "unborn" /\ given[s] \in {Nobody, c}
          /\ session[s] \in SessionObject /\ given \in [Sessions -> Clients \cup {Nobody}]
      BY <1>1, <2>1 DEF Inv, HandlerInv, HandlerKnows, RegistryInv, Objects, TypeOK
    <2>3. session[s].state = "live"
      BY <2>1, <2>2 DEF IsGone, SessionObject
    <2>4. given[s] = Nobody
      <3>1. given[s] = c => given' = given
        BY <2>1, <2>2
      <3> QED
        BY <1>2, <2>2, <3>1
    <2> QED
      BY <1>1, <2>1, <2>3, <2>4
  <1>3. ASSUME Acquire \/ Release \/ Wait \/ Wake \/ Throw PROVE given' = given
    BY <1>3 DEF Acquire, Release, Wait, Wake, Throw, UseOfDeleted
  <1> QED
    BY <1>2, <1>3 DEF Handler

\* At first no session is open.
LEMMA StoreInit == Init => Store!Init
  <1>1. Init => \A s \in Sessions : Phase(s) = "unborn"
    BY DEF Init, Unborn, Phase
  <1> QED
    BY <1>1 DEF Init, Store!Init

\* Every step is one of the store, or none.
LEMMA StoreStep ==
  ASSUME Inv, [Next]_vars
  PROVE  [Store!Next]_<<phases, given>>
  <1>1. CASE UNCHANGED vars
    <2>1. session' = session /\ given' = given
      BY <1>1 DEF vars
    <2> QED
      BY <2>1, SamePhases
  <1>2. CASE \E c \in Clients, route \in Routes : Arrive(c, route)
    <2> DEFINE opened ==
          {t \in Sessions : session[t].state = "unborn" /\ session'[t].state = "live"}
    <2>1. given' = given /\ \A t \in Sessions : Grown(session[t], session'[t])
      BY <1>2, ArriveKeeps DEF Arrive
    <2>2. ASSUME NEW t \in opened PROVE Phase(t) = "unborn" /\ Phase(t)' = "live"
      <3>1. t \in Sessions /\ session[t].state = "unborn" /\ session'[t].state = "live"
            /\ ~session'[t].expired
        BY <2>1 DEF Grown, Marked, Fresh
      <3> QED
        BY <3>1 DEF Phase, IsLive
    <2>3. ASSUME NEW t \in Sessions \ opened PROVE Phase(t)' = Phase(t)
      <3>1. session'[t].state = session[t].state /\ session'[t].expired = session[t].expired
        BY <2>1 DEF Grown, Marked, Fresh
      <3> QED
        BY <3>1 DEF Phase, IsLive
    <2>4. Store!Open(opened) /\ opened \in SUBSET Sessions
      BY <2>1, <2>2, <2>3 DEF Store!Open, phases
    <2> QED
      BY <2>4 DEF Store!Next
  <1>3. CASE Handler
    <2>1. phases' = phases
      BY <1>3, HandlerPhases
    <2>2. CASE given' = given
      BY <2>1, <2>2
    <2>3. ASSUME NEW s \in Sessions, NEW c \in Clients, session[s].state = "live",
                 given[s] = Nobody, given' = [given EXCEPT ![s] = c]
          PROVE  Store!Next
      <3>1. Phase(s) \in {"live", "expired"}
        BY <2>3 DEF Phase, IsLive
      <3>2. Store!Give(s, c)
        BY <2>1, <2>3, <3>1 DEF Store!Give, phases
      <3> QED
        BY <3>2 DEF Store!Next
    <2> QED
      BY <1>3, <2>2, <2>3, HandlerGives
  <1>4. CASE \E i \in 1 .. MaxDepth : Due(i)
    <2>1. session' = session /\ given' = given
      BY <1>4 DEF Due
    <2> QED
      BY <2>1, SamePhases
  <1>5. ASSUME NEW s \in Sessions, Expire(s) PROVE Store!Next
    <2>1. session \in Objects /\ session[s] \in SessionObject
      BY DEF Inv, RegistryInv, Objects
    <2>2. /\ session[s].state = "live" /\ ~session[s].expired /\ given' = given
          /\ session' = [session EXCEPT ![s].expired = TRUE]
      BY <1>5 DEF Expire, IsLive
    <2>3. session'[s].state = "live" /\ session'[s].expired
      BY <2>1, <2>2 DEF Objects, SessionObject
    <2>4. \A t \in Sessions \ {s} : session'[t] = session[t]
      BY <2>1, <2>2 DEF Objects
    <2>5. /\ Phase(s) = "live" /\ Phase(s)' = "expired"
          /\ \A t \in Sessions \ {s} : Phase(t)' = Phase(t)
      BY <2>2, <2>3, <2>4 DEF Phase, IsLive
    <2>6. Store!Expire(s)
      BY <2>2, <2>5 DEF Store!Expire, phases
    <2> QED
      BY <2>6 DEF Store!Next
  <1>6. ASSUME NEW s \in Sessions, Delete(s) PROVE Store!Next
    <2>1. session \in Objects /\ session[s] \in SessionObject
      BY DEF Inv, RegistryInv, Objects
    <2>2. /\ session[s].state = "live" /\ session[s].expired /\ given' = given
          /\ session' = [session EXCEPT ![s].state = "gone"]
      BY <1>6 DEF Delete, IsLive, Inv, RegistryInv
    <2>3. session'[s].state = "gone"
      BY <2>1, <2>2 DEF Objects, SessionObject
    <2>4. \A t \in Sessions \ {s} : session'[t] = session[t]
      BY <2>1, <2>2 DEF Objects
    <2>5. /\ Phase(s) = "expired" /\ Phase(s)' = "gone"
          /\ \A t \in Sessions \ {s} : Phase(t)' = Phase(t)
      <3>1. Phase(s) = "expired" /\ Phase(s)' = "gone"
        BY <2>2, <2>3 DEF Phase, IsLive
      <3>2. ASSUME NEW t \in Sessions \ {s} PROVE Phase(t)' = Phase(t)
        BY <2>4 DEF Phase, IsLive
      <3> QED
        BY <3>1, <3>2
    <2>6. Store!Collect(s)
      BY <2>2, <2>5 DEF Store!Collect, phases
    <2> QED
      BY <2>6 DEF Store!Next
  <1>7. CASE \E c \in Clients : Forget(c)
    <2>1. session' = session /\ given' = given
      BY <1>7 DEF Forget
    <2> QED
      BY <2>1, SamePhases
  <1> QED
    BY <1>1, <1>2, <1>3, <1>4, <1>5, <1>6, <1>7 DEF Next

\* No session is given to two clients, and none goes away before its time.
THEOREM SessionsImplementStore == Spec => ImplementsStore
  <1>1. Inv /\ [Next]_vars => [Store!Next]_<<[s \in Sessions |-> Phase(s)], given>>
    BY StoreStep DEF phases
  <1> QED
    BY <1>1, StoreInit, AlwaysInv, PTL DEF Spec, ImplementsStore, Store!Spec
=============================================================================
