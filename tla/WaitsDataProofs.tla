-------------------------- MODULE WaitsDataProofs ---------------------------
(***************************************************************************)
(* Theorems about the data of Waits: the list of certificates, whatever    *)
(* the reply brings and however old its members are, and the bounds of the *)
(* counters in the frames.                                                 *)
(***************************************************************************)
EXTENDS WaitsProofs, NumberTheorems

USE WaitsAssumption DEF Listeners

-----------------------------------------------------------------------------
(* The list of certificates *)

Cert == [kid : Kids, old : BOOLEAN]

\* No two members have the same identifier.
Differ(list) == \A i, j \in DOMAIN list : list[i].kid = list[j].kid => i = j

CertLists == {list \in Seq(Cert) : Differ(list)}

\* The n-th of a set of positions.
LEMMA NthFound ==
  ASSUME NEW m \in Nat, NEW places \in SUBSET (1 .. m), NEW n \in 1 .. Cardinality(places)
  PROVE  Nth(places, n) \in places /\ Rank(places, Nth(places, n)) = n
  <1>1. \E i \in places : Rank(places, i) = n
    BY RanksReached
  <1>2. Nth(places, n) = CHOOSE i \in places : Rank(places, i) = n
    BY DEF Nth, Rank
  <1> QED
    BY <1>1, <1>2

\* The members of a list at the positions of kept.
Remaining(list, kept) == [n \in 1 .. Cardinality(kept) |-> list[Nth(kept, n)]]

\* What is left of a list is a list without repetitions.
LEMMA RemainingGood ==
  ASSUME NEW list \in CertLists, NEW kept \in SUBSET (DOMAIN list)
  PROVE  /\ Remaining(list, kept) \in CertLists
         /\ \A n \in DOMAIN Remaining(list, kept) :
              \E i \in DOMAIN list : Remaining(list, kept)[n] = list[i]
  <1> DEFINE N == Cardinality(kept)
             left == Remaining(list, kept)
  <1>0. left = [n \in 1 .. N |-> list[Nth(kept, n)]]
    BY DEF Remaining
  <1>1. list \in Seq(Cert) /\ Differ(list)
    BY DEF CertLists
  <1>2. Len(list) \in Nat /\ DOMAIN list = 1 .. Len(list)
    BY <1>1, LenProperties
  <1>3. kept \in SUBSET (1 .. Len(list))
    BY <1>2
  <1>4. N \in Nat
    BY <1>2, <1>3, RanksCount
  <1>5. \A n \in 1 .. N : Nth(kept, n) \in kept /\ Rank(kept, Nth(kept, n)) = n
    BY <1>2, <1>3, NthFound
  <1>6. \A i \in DOMAIN list : list[i] \in Cert
    BY <1>1, <1>2, ElementOfSeq
  <1>7. \A n \in 1 .. N : left[n] = list[Nth(kept, n)] /\ Nth(kept, n) \in DOMAIN list
    BY <1>0, <1>5
  <1>8. left \in Seq(Cert)
    <2>1. \A n \in 1 .. N : left[n] \in Cert
      BY <1>6, <1>7
    <2>2. left \in [1 .. N -> Cert]
      BY <1>0, <2>1
    <2> HIDE DEF left, N
    <2> QED
      BY <1>4, <2>2, SeqDef
  <1>9. Differ(left)
    <2> SUFFICES ASSUME NEW a \in 1 .. N, NEW b \in 1 .. N, left[a].kid = left[b].kid
                 PROVE  a = b
      BY <1>0 DEF Differ
    <2>1. Nth(kept, a) = Nth(kept, b)
      <3> HIDE DEF left
      <3> QED
        BY <1>1, <1>7 DEF Differ
    <2> QED
      BY <1>5, <2>1
  <1>10. DOMAIN left = 1 .. N
    BY <1>0
  <1> HIDE DEF N
  <1> QED
    BY <1>7, <1>8, <1>9, <1>10 DEF CertLists

\* One certificate is stored.
LEMMA StoredGood ==
  ASSUME NEW list \in CertLists, NEW kid \in Kids
  PROVE  Stored(list, kid) \in CertLists
  <1> DEFINE kept == Kept(list, kid)
             left == Remaining(list, kept)
             more == Append(left, Fresh(kid))
  <1>1. kept \in SUBSET (DOMAIN list)
    BY DEF Kept
  <1>2. left \in CertLists /\ \A n \in DOMAIN left : \E i \in DOMAIN list : left[n] = list[i]
    <2> HIDE DEF kept
    <2> QED
      BY <1>1, RemainingGood
  <1>3. Stored(list, kid) = IF \E i \in DOMAIN list : list[i].kid = kid THEN left ELSE more
    BY DEF Stored, Remaining
  <1> HIDE DEF left
  <1>4. ASSUME \A i \in DOMAIN list : list[i].kid # kid
        PROVE  more \in CertLists
    <2>1. left \in Seq(Cert) /\ Differ(left)
      BY <1>2 DEF CertLists
    <2>2. Fresh(kid) \in Cert /\ Fresh(kid).kid = kid
      BY DEF Fresh, Cert
    <2>3. /\ more \in Seq(Cert) /\ Len(more) = Len(left) + 1
          /\ \A n \in 1 .. Len(left) : more[n] = left[n]
          /\ more[Len(left) + 1] = Fresh(kid)
      BY <2>1, <2>2, AppendProperties
    <2>4. /\ Len(left) \in Nat /\ DOMAIN left = 1 .. Len(left)
          /\ DOMAIN more = 1 .. Len(left) + 1
      BY <2>1, <2>3, LenProperties
    <2>5. \A n \in DOMAIN left : left[n].kid # kid
      BY <1>2, <1>4
    <2>6. \A n \in DOMAIN more : n \in DOMAIN left \/ n = Len(left) + 1
      BY <2>4
    <2> HIDE DEF more
    <2>7. Differ(more)
      BY <2>1, <2>2, <2>3, <2>4, <2>5, <2>6 DEF Differ
    <2> QED
      BY <2>3, <2>7 DEF CertLists
  <1> QED
    BY <1>2, <1>3, <1>4

\* A finite set of numbers that is not empty has a greatest element, which
\* CHOOSE finds.
Greatest(set) == CHOOSE k \in set : \A l \in set : l <= k

\* It is a member, and no member is greater.
LEMMA GreatestFound ==
  ASSUME NEW set \in SUBSET Nat, IsFiniteSet(set), set # {}
  PROVE  Greatest(set) \in set /\ \A l \in set : l <= Greatest(set)
  <1> DEFINE Below(k) == {l \in set : l <= k}
             Sizes == {Cardinality(set) - Cardinality(Below(k)) : k \in set}
  <1>1. \A k \in set : Below(k) \in SUBSET set
    OBVIOUS
  <1>2. \A k \in set : /\ IsFiniteSet(Below(k)) /\ Cardinality(Below(k)) \in Nat
                       /\ Cardinality(Below(k)) <= Cardinality(set)
    BY <1>1, FS_Subset, FS_CardinalityType
  <1>3. Cardinality(set) \in Nat
    BY FS_CardinalityType
  <1>4. Sizes \in SUBSET Nat /\ Sizes # {}
    <2> HIDE DEF Below
    <2>1. \A k \in set : Cardinality(set) - Cardinality(Below(k)) \in Nat
      BY <1>2, <1>3
    <2> QED
      BY <2>1
  <1>5. PICK n \in Sizes : \A m \in Sizes : n <= m
    <2> HIDE DEF Sizes
    <2> QED
      BY <1>4, Minimum
  <1>6. PICK k \in set : n = Cardinality(set) - Cardinality(Below(k))
    OBVIOUS
  <1>7. ASSUME NEW l \in set, ~(l <= k) PROVE FALSE
    <2>1. k \in Nat /\ l \in Nat /\ k < l
      BY <1>7
    <2>2. Below(k) \in SUBSET Below(l) /\ l \in Below(l) /\ l \notin Below(k)
      <3>1. ASSUME NEW x \in Below(k) PROVE x \in Below(l)
        <4>1. x \in set /\ x \in Nat /\ x <= k
          OBVIOUS
        <4> QED
          BY <2>1, <4>1
      <3>2. l \in Below(l) /\ l \notin Below(k)
        BY <2>1
      <3> QED
        BY <3>1, <3>2
    <2>3. /\ Cardinality(Below(k)) <= Cardinality(Below(l))
          /\ Cardinality(Below(k)) # Cardinality(Below(l))
      <3> HIDE DEF Below
      <3> QED
        BY <1>2, <2>2, FS_Subset
    <2>4. n <= Cardinality(set) - Cardinality(Below(l))
      BY <1>5
    <2> HIDE DEF Below
    <2> QED
      BY <1>2, <1>3, <1>6, <2>3, <2>4
  <1>8. \E j \in set : \A l \in set : l <= j
    BY <1>7
  <1> QED
    BY <1>8 DEF Greatest

\* The recursion of StoredAll: what f gives a set of identifiers.
Given(list, f, set) ==
  IF set = {} THEN list ELSE Stored(f[set \ {Greatest(set)}], Greatest(set))

\* There is a function that builds the list from each of the sets.
HasGiven(list, sets) == \E f : f = [set \in sets |-> Given(list, f, set)]

\* There is such a function on the sets of at most n identifiers.
LEMMA GivenExists ==
  ASSUME NEW list, NEW kids \in SUBSET Kids, NEW n \in Nat
  PROVE  HasGiven(list, {s \in SUBSET kids : Cardinality(s) <= n})
  <1> DEFINE Upto(m) == {s \in SUBSET kids : Cardinality(s) <= m}
             Has(m) == \E f : f = [set \in Upto(m) |-> Given(list, f, set)]
             Bad == {m \in Nat : ~Has(m)}
  <1>1. \A s \in SUBSET kids : IsFiniteSet(s) /\ Cardinality(s) \in Nat /\ s \in SUBSET Nat
    BY FS_Subset, FS_CardinalityType
  <1>2. Has(0)
    <2> DEFINE f == [set \in Upto(0) |-> list]
    <2>1. \A set \in Upto(0) : set = {}
      BY <1>1, FS_EmptySet
    <2>2. f = [set \in Upto(0) |-> Given(list, f, set)]
      <3> HIDE DEF Upto
      <3> QED
        BY <2>1 DEF Given
    <2> QED
      BY <2>2
  <1>3. ASSUME NEW m \in Nat, Has(m) PROVE Has(m + 1)
    <2>1. PICK f : f = [set \in Upto(m) |-> Given(list, f, set)]
      BY <1>3
    <2> DEFINE g == [set \in Upto(m + 1) |-> Given(list, f, set)]
    <2>2. \A set \in Upto(m) : set \in Upto(m + 1) /\ g[set] = f[set]
      <3>1. \A set \in Upto(m) : set \in Upto(m + 1)
        BY <1>1
      <3> HIDE DEF Upto
      <3> QED
        BY <2>1, <3>1
    <2>3. ASSUME NEW set \in Upto(m + 1)
          PROVE  Given(list, f, set) = Given(list, g, set)
      <3>1. CASE set = {}
        BY <3>1 DEF Given
      <3>2. CASE set # {}
        <4>1. Greatest(set) \in set
          BY <1>1, <3>2, GreatestFound
        <4>2. set \ {Greatest(set)} \in Upto(m)
          <5>1. set \in SUBSET kids /\ Cardinality(set) <= m + 1
            OBVIOUS
          <5>2. IsFiniteSet(set) /\ Cardinality(set) \in Nat
            BY <1>1, <5>1
          <5>3. \A x \in set : Cardinality(set \ {x}) = Cardinality(set) - 1
            <6> HIDE DEF Upto
            <6> QED
              BY <5>2, FS_RemoveElement
          <5>4. Cardinality(set \ {Greatest(set)}) <= m
            <6>1. Cardinality(set \ {Greatest(set)}) = Cardinality(set) - 1
              <7> HIDE DEF Upto
              <7> QED
                BY <4>1, <5>3
            <6>2. Cardinality(set) - 1 <= m
              BY <5>1, <5>2
            <6> QED
              BY <6>1, <6>2
          <5> QED
            BY <5>1, <5>4
        <4>3. g[set \ {Greatest(set)}] = f[set \ {Greatest(set)}]
          <5> HIDE DEF g, Upto
          <5> QED
            BY <2>2, <4>2
        <4> HIDE DEF g
        <4> QED
          BY <3>2, <4>3 DEF Given
      <3> QED
        BY <3>1, <3>2
    <2>4. g = [set \in Upto(m + 1) |-> Given(list, g, set)]
      <3> HIDE DEF Upto
      <3> SUFFICES \A set \in Upto(m + 1) : Given(list, f, set) = Given(list, g, set)
        OBVIOUS
      <3> QED
        BY <2>3
    <2> QED
      BY <2>4
  <1>4. Bad = {}
    <2> SUFFICES ASSUME Bad # {} PROVE FALSE
      OBVIOUS
    <2> HIDE DEF Has
    <2>1. PICK m \in Bad : \A k \in Bad : m <= k
      BY Minimum
    <2>2. m # 0 /\ m \in Nat
      BY <1>2
    <2>3. m - 1 \in Nat /\ m - 1 \notin Bad
      BY <2>1, <2>2
    <2>4. Has((m - 1) + 1)
      BY <1>3, <2>3
    <2>5. (m - 1) + 1 = m
      BY <2>2
    <2> QED
      BY <2>1, <2>4, <2>5
  <1> QED
    BY <1>4 DEF HasGiven

\* Whatever the reply brings, the list has no repetitions.
LEMMA StoredAllGood ==
  ASSUME NEW list \in CertLists, NEW kids \in SUBSET Kids
  PROVE  StoredAll(list, kids) \in CertLists
  <1> DEFINE F(f) == f = [set \in SUBSET kids |-> Given(list, f, set)]
             f == CHOOSE g : F(g)
             Bad == {s \in SUBSET kids : f[s] \notin CertLists}
             Sizes == {Cardinality(s) : s \in Bad}
  <1>1. \A s \in SUBSET kids : /\ IsFiniteSet(s) /\ Cardinality(s) \in Nat
                               /\ s \in SUBSET Nat /\ Cardinality(s) <= Cardinality(kids)
    BY FS_Subset, FS_CardinalityType
  <1>2. StoredAll(list, kids) = f[kids]
    BY DEF StoredAll, Given, Greatest
  <1>3. F(f)
    <2>1. Cardinality(kids) \in Nat
      BY <1>1
    <2>2. {s \in SUBSET kids : Cardinality(s) <= Cardinality(kids)} = SUBSET kids
      BY <1>1
    <2>3. HasGiven(list, {s \in SUBSET kids : Cardinality(s) <= Cardinality(kids)})
      <3> DEFINE n == Cardinality(kids)
      <3>1. n \in Nat
        BY <2>1
      <3> HIDE DEF n
      <3>2. HasGiven(list, {s \in SUBSET kids : Cardinality(s) <= n})
        BY <3>1, GivenExists
      <3> QED
        BY <3>2 DEF n
    <2>4. HasGiven(list, SUBSET kids)
      BY <2>2, <2>3
    <2>5. \E g : F(g)
      BY <2>4 DEF HasGiven
    <2> HIDE DEF F
    <2> QED
      BY <2>5
  <1>4. \A s \in SUBSET kids : f[s] = Given(list, f, s)
    <2> HIDE DEF f
    <2> QED
      BY <1>3
  <1> HIDE DEF f, F
  <1>5. Bad = {}
    <2> SUFFICES ASSUME Bad # {} PROVE FALSE
      OBVIOUS
    <2>1. Sizes \in SUBSET Nat /\ Sizes # {}
      BY <1>1
    <2>2. PICK n \in Sizes : \A m \in Sizes : n <= m
      <3> HIDE DEF Sizes
      <3> QED
        BY <2>1, Minimum
    <2>3. PICK s \in Bad : n = Cardinality(s)
      OBVIOUS
    <2>4. s # {} /\ f[s] = Stored(f[s \ {Greatest(s)}], Greatest(s))
      BY <1>4 DEF Given
    <2>5. Greatest(s) \in s
      BY <1>1, <2>4, GreatestFound
    <2>6. s \ {Greatest(s)} \in SUBSET kids /\ Greatest(s) \in Kids
      BY <2>5
    <2>7. Cardinality(s \ {Greatest(s)}) = n - 1 /\ n \in Nat
      BY <1>1, <2>3, <2>5, FS_RemoveElement
    <2>8. s \ {Greatest(s)} \notin Bad
      <3> SUFFICES ASSUME s \ {Greatest(s)} \in Bad PROVE FALSE
        OBVIOUS
      <3>1. n - 1 \in Sizes
        BY <2>7
      <3> QED
        BY <2>2, <2>7, <3>1
    <2>9. f[s \ {Greatest(s)}] \in CertLists
      BY <2>6, <2>8
    <2> QED
      BY <2>4, <2>6, <2>9, StoredGood
  <1> QED
    BY <1>2, <1>5

\* What is stored is a list without repetitions.
CertsInv == certs \in CertLists

\* Every step keeps the list free of repetitions.
LEMMA CertsInvStep == CertsInv /\ [Next]_vars => CertsInv'
  <1> SUFFICES ASSUME CertsInv, [Next]_vars PROVE CertsInv'
    OBVIOUS
  <1>1. CASE UNCHANGED certs
    BY <1>1 DEF CertsInv
  <1>2. ASSUME NEW c \in Calls, ReplyCerts(c) PROVE CertsInv'
    BY <1>2, StoredAllGood DEF ReplyCerts, CertsInv
  <1>3. CASE Age
    <2>1. certs \in Seq(Cert) /\ Differ(certs) /\ DOMAIN certs = 1 .. Len(certs)
          /\ Len(certs) \in Nat
      BY LenProperties DEF CertsInv, CertLists
    <2>2. \A i \in DOMAIN certs : certs[i] \in Cert
      BY <2>1, ElementOfSeq
    <2>3. certs' = [i \in DOMAIN certs |-> [certs[i] EXCEPT !.old = TRUE]]
      BY <1>3 DEF Age
    <2>4. \A i \in DOMAIN certs : certs'[i] \in Cert /\ certs'[i].kid = certs[i].kid
      BY <2>2, <2>3 DEF Cert
    <2>5. certs' \in [1 .. Len(certs) -> Cert]
      BY <2>1, <2>3, <2>4
    <2>6. certs' \in Seq(Cert)
      BY <2>1, <2>5, SeqDef
    <2>7. Differ(certs')
      BY <2>1, <2>3, <2>4 DEF Differ
    <2> QED
      BY <2>6, <2>7 DEF CertsInv, CertLists
  <1>4. ASSUME NEW c \in Calls,
               \/ CallFuture(c) \/ CallToken(c) \/ CallCerts(c) \/ CallOpen(c) \/ Listen(c)
               \/ TimeOut(c) \/ Posted(c) \/ Reply(c) \/ PoolRuns(c) \/ Complete(c)
               \/ Callback(c) \/ Notify(c) \/ Notified(c)
        PROVE  UNCHANGED certs
    BY <1>4 DEF CallFuture, CallToken, CallCerts, CallOpen, Listen, Call, TimeOut, Posted,
                Reply, Event, PoolRuns, Complete, Callback, Notify, Notified, Elsewhere,
                OnlyCalls
  <1>5. ASSUME NEW c \in Calls, MainStep(c) PROVE UNCHANGED certs
    BY <1>5 DEF MainStep, FirstOpen, MakeLoop, TestHold, Enter, Leave, After, AfterPause,
                AfterFuture, AfterToken, AfterCerts, AfterListener, Open
  <1>6. Quit \/ UNCHANGED vars => UNCHANGED certs
    BY DEF Quit, vars
  <1> QED
    BY <1>1, <1>2, <1>3, <1>4, <1>5, <1>6 DEF Next

\* The list is free of repetitions in every state.
LEMMA CertsInvHolds == Spec => []CertsInv
  <1>1. Init => CertsInv
    <2> SUFFICES ASSUME Init PROVE CertsInv
      OBVIOUS
    <2>1. certs = <<>> /\ <<>> \in Seq(Cert) /\ DOMAIN <<>> = {}
      BY DEF Init
    <2> QED
      BY <2>1 DEF CertsInv, CertLists, Differ
  <1> QED
    BY <1>1, CertsInvStep, PTL DEF Spec

\* No certificate is stored twice: pullCertKey() pushes only what its search,
\* which erases old members on the way, has not found.
THEOREM CertsAreDistinct == Spec => []CertsDistinct
  <1>1. CertsInv => CertsDistinct
    BY DEF CertsInv, CertLists, Differ, CertsDistinct
  <1> QED
    BY <1>1, CertsInvHolds, PTL

-----------------------------------------------------------------------------
(* The bounds of the counters *)

\* A call asks, or tries, three times at most, and registers once a round.
Counted(r) ==
  /\ r.kind = "future" => r.trials <= Rounds
  /\ r.kind \in {"token", "open"} => r.trials <= 3
  /\ r.kind \notin {"future", "token", "open"} => r.trials = 0
  /\ r.queued <= r.trials + 1
  /\ r.events <= MaxEvents

\* The last of three attempts is not followed by a pause.
Bounded(r) == Counted(r) /\ (r.kind \in {"token", "open"} /\ r.at # "ended" => r.trials < 3)

BoundsInv == \A c \in Calls : Bounded(calls[c])

\* What a frame that only waits on keeps of another.
GoesOn(s, r) ==
  /\ s.kind = r.kind /\ s.trials = r.trials /\ s.queued <= r.queued
  /\ s.events <= MaxEvents /\ (r.at = "ended" => s.at = "ended")

\* The bounds hold of a frame that goes on.
LEMMA GoesOnBounded ==
  ASSUME NEW r \in Frame, NEW s \in Frame, Bounded(r), GoesOn(s, r)
  PROVE  Bounded(s)
  <1>1. s.queued \in Nat /\ r.queued \in Nat /\ r.trials \in Nat
    BY DEF Frame
  <1>2. Counted(s)
    BY <1>1 DEF Bounded, Counted, GoesOn
  <1> QED
    BY <1>2 DEF Bounded, GoesOn

\* The bounds hold of a call that returns.
LEMMA LeftBounded ==
  ASSUME NEW r \in Frame, Counted(r), NEW answer
  PROVE  Bounded(Left(r, answer))
  <1>1. /\ Left(r, answer).kind = r.kind /\ Left(r, answer).trials = r.trials
        /\ Left(r, answer).queued = r.queued /\ Left(r, answer).events = 0
        /\ Left(r, answer).at = "ended"
    BY DEF Left, Unborn
  <1> HIDE DEF Left
  <1> QED
    BY <1>1 DEF Bounded, Counted

\* What a step has to show when it changes the frame of one call.
LEMMA OneBounded ==
  ASSUME Inv, BoundsInv, NEW c \in Calls, NEW r, Becomes(c, r), Bounded(r)
  PROVE  BoundsInv'
  <1> SUFFICES ASSUME NEW d \in Calls PROVE Bounded(calls'[d])
    BY DEF BoundsInv
  <1>1. calls'[d] = IF d = c THEN r ELSE calls[d]
    BY DEF Becomes, Inv, FramesInv
  <1> QED
    BY <1>1 DEF BoundsInv

\* The frame of one call goes on.
LEMMA OneGoesOn ==
  ASSUME Inv, Inv', BoundsInv, NEW c \in Calls, NEW r, Becomes(c, r), GoesOn(r, calls[c])
  PROVE  BoundsInv'
  <1>1. calls[c] \in Frame /\ calls'[c] \in Frame /\ Bounded(calls[c])
    BY DEF Inv, FramesInv, BoundsInv
  <1>2. calls'[c] = r
    BY DEF Becomes, Inv, FramesInv
  <1> QED
    BY <1>1, <1>2, GoesOnBounded, OneBounded

\* A call returns.
LEMMA ReturnBounded ==
  ASSUME Inv, BoundsInv, NEW c \in Calls, NEW r \in Frame, Counted(r), NEW answer,
         Return(c, r, answer)
  PROVE  BoundsInv'
  <1>1. Becomes(c, Left(r, answer))
    BY DEF Return, Left
  <1> QED
    BY <1>1, LeftBounded, OneBounded

\* An event changes none of what is counted, but the events of a listener.
LEMMA EventsBounded ==
  ASSUME Inv, Inv', BoundsInv, NEW c \in Calls,
         \/ TimeOut(c) \/ Posted(c) \/ Reply(c) \/ ReplyCerts(c) \/ PoolRuns(c)
         \/ Complete(c) \/ Callback(c) \/ Notify(c) \/ Notified(c)
  PROVE  BoundsInv'
  <1> DEFINE f == calls[c]
  <1>0. f \in Frame /\ Bounded(f)
    BY DEF Inv, FramesInv, BoundsInv
  <1>a. f.queued \in Nat /\ f.events \in Nat /\ f.events <= MaxEvents
    BY <1>0 DEF Frame, Bounded, Counted
  <1>1. CASE UNCHANGED calls
    BY <1>1 DEF BoundsInv
  <1>2. CASE \E r : Becomes(c, r) /\ GoesOn(r, f)
    BY <1>2, OneGoesOn
  <1>3. CASE TimeOut(c)
    <2>1. GoesOn(Expired(f), f)
      BY <1>0, <1>a DEF Expired, Exited, Frame, GoesOn
    <2> QED
      BY <1>2, <1>3, <2>1 DEF TimeOut, Event
  <1>4. CASE Posted(c)
    <2>1. GoesOn([Exited(f, 0) EXCEPT !.posted = FALSE], f)
      BY <1>0, <1>a DEF Exited, Frame, GoesOn
    <2> QED
      BY <1>2, <1>4, <2>1 DEF Posted, Event
  <1>5. CASE Reply(c) \/ ReplyCerts(c)
    <2>1. GoesOn(Replied(c), f)
      BY <1>0, <1>a DEF Replied, Frame, GoesOn
    <2>2. GoesOn([Replied(c) EXCEPT !.data = TRUE], f)
      BY <1>0, <1>a DEF Replied, Frame, GoesOn
    <2>3. \A code \in -2 .. 0 : GoesOn(Exited(Replied(c), code), f)
      BY <1>0, <1>a DEF Replied, Exited, Frame, GoesOn
    <2>4. -2 \in -2 .. 0 /\ -1 \in -2 .. 0
      OBVIOUS
    <2> QED
      BY <1>2, <1>5, <2>1, <2>2, <2>3, <2>4 DEF Reply, ReplyCerts, Event
  <1>6. CASE PoolRuns(c)
    <2> DEFINE x == [f EXCEPT !.queued = @ - 1, !.callback = TRUE]
    <2>1. x.queued = f.queued - 1
      BY <1>0 DEF Frame
    <2>2. x.kind = f.kind /\ x.trials = f.trials /\ x.events = f.events /\ x.at = f.at
      BY <1>0 DEF Frame
    <2>3. UNCHANGED calls \/ Becomes(c, x)
      BY <1>6 DEF PoolRuns
    <2> HIDE DEF x
    <2>4. GoesOn(x, f)
      BY <1>a, <2>1, <2>2 DEF GoesOn
    <2> QED
      BY <1>1, <1>2, <2>3, <2>4
  <1>7. CASE Complete(c)
    <2>1. GoesOn([f EXCEPT !.data = TRUE], f)
      BY <1>0, <1>a DEF Frame, GoesOn
    <2> QED
      BY <1>2, <1>7, <2>1 DEF Complete, Elsewhere
  <1>8. CASE Callback(c)
    <2> DEFINE x == [f EXCEPT !.callback = FALSE, !.posted = @ \/ calls[c].running]
    <2>1. GoesOn(x, f) /\ Becomes(c, x)
      BY <1>0, <1>8, <1>a DEF Callback, Elsewhere, Frame, GoesOn
    <2> HIDE DEF x
    <2> QED
      BY <1>2, <2>1
  <1>9. CASE Notified(c)
    <2> DEFINE x == [f EXCEPT !.seen = "no", !.posted = @ \/ InLoop(c),
                              !.missed = @ \/ calls[c].at = "before"]
    <2>1. GoesOn(x, f) /\ Becomes(c, x)
      BY <1>0, <1>9, <1>a DEF Notified, Elsewhere, Frame, GoesOn
    <2> HIDE DEF x
    <2> QED
      BY <1>2, <2>1
  <1>10. CASE Notify(c)
    <2> DEFINE n == [f EXCEPT !.events = @ + 1]
               x == [n EXCEPT !.missed = TRUE]
               y == [n EXCEPT !.seen = "stored", !.data = TRUE]
    <2>1. f.events + 1 <= MaxEvents
      <3>1. f.events < MaxEvents
        BY <1>10 DEF Notify
      <3>2. f.events \in Nat /\ MaxEvents \in Nat
        BY <1>a
      <3> HIDE DEF f
      <3> QED
        BY <3>1, <3>2
    <2>2. UNCHANGED calls \/ Becomes(c, x) \/ Becomes(c, y)
      BY <1>10 DEF Notify, Elsewhere
    <2>3. /\ x.kind = f.kind /\ x.trials = f.trials /\ x.queued = f.queued
          /\ x.at = f.at /\ x.events = f.events + 1
      BY <1>0 DEF Frame
    <2>4. /\ y.kind = f.kind /\ y.trials = f.trials /\ y.queued = f.queued
          /\ y.at = f.at /\ y.events = f.events + 1
      BY <1>0 DEF Frame
    <2> HIDE DEF n, x, y
    <2>5. GoesOn(x, f)
      BY <1>a, <2>1, <2>3 DEF GoesOn
    <2>6. GoesOn(y, f)
      BY <1>a, <2>1, <2>4 DEF GoesOn
    <2> QED
      BY <1>1, <1>2, <2>2, <2>5, <2>6
  <1> QED
    BY <1>3, <1>4, <1>5, <1>6, <1>7, <1>8, <1>9, <1>10

\* A call begins.
LEMMA CallsBounded ==
  ASSUME Inv, BoundsInv, NEW c \in Calls,
         CallFuture(c) \/ CallToken(c) \/ CallCerts(c) \/ CallOpen(c) \/ Listen(c)
  PROVE  BoundsInv'
  <1>1. ASSUME NEW r, Call(c, r), r.trials = 0, r.queued <= 1, r.events = 0
        PROVE  BoundsInv'
    <2>1. Bounded(r)
      BY <1>1 DEF Bounded, Counted
    <2> QED
      BY <1>1, <2>1, OneBounded DEF Call
  <1>2. CASE CallFuture(c)
    <2>1. PICK complete \in BOOLEAN :
            Call(c, Round([Unborn EXCEPT !.kind = "future", !.data = complete]))
      BY <1>2 DEF CallFuture
    <2> DEFINE x == Round([Unborn EXCEPT !.kind = "future", !.data = complete])
    <2>2. x.trials = 0 /\ x.queued = 1 /\ x.events = 0
      BY DEF Round, Unborn
    <2> HIDE DEF x
    <2> QED
      BY <1>1, <2>1, <2>2 DEF x
  <1>3. CASE CallToken(c)
    <2> DEFINE x == Ask([Unborn EXCEPT !.kind = "token"])
    <2>1. x.trials = 0 /\ x.queued = 0 /\ x.events = 0
      BY DEF Ask, Unborn
    <2>2. Call(c, x)
      BY <1>3 DEF CallToken
    <2> HIDE DEF x
    <2> QED
      BY <1>1, <2>1, <2>2
  <1>4. CASE CallCerts(c)
    <2> DEFINE x == [Unborn EXCEPT !.kind = "certs", !.at = "before", !.asked = TRUE]
    <2>1. x.trials = 0 /\ x.queued = 0 /\ x.events = 0
      BY DEF Unborn
    <2>2. Call(c, x)
      BY <1>4 DEF CallCerts
    <2> HIDE DEF x
    <2> QED
      BY <1>1, <2>1, <2>2
  <1>5. CASE CallOpen(c)
    <2> DEFINE x == [Unborn EXCEPT !.kind = "open", !.at = "opening"]
    <2>1. x.trials = 0 /\ x.queued = 0 /\ x.events = 0
      BY DEF Unborn
    <2>2. Call(c, x)
      BY <1>5 DEF CallOpen
    <2> HIDE DEF x
    <2> QED
      BY <1>1, <2>1, <2>2
  <1>6. CASE Listen(c)
    <2>1. PICK kind \in Listeners : Call(c, [Unborn EXCEPT !.kind = kind, !.at = "built"])
      BY <1>6 DEF Listen
    <2> DEFINE x == [Unborn EXCEPT !.kind = kind, !.at = "built"]
    <2>2. x.trials = 0 /\ x.queued = 0 /\ x.events = 0 /\ Call(c, x)
      BY <2>1 DEF Unborn
    <2> HIDE DEF x
    <2> QED
      BY <1>1, <2>2
  <1> QED
    BY <1>2, <1>3, <1>4, <1>5, <1>6

\* The connection is opened, or not: at the fourth attempt the call returns.
LEMMA OpenBounded ==
  ASSUME Inv, BoundsInv, NEW c \in Calls, NEW r \in Frame, r.kind = "open", Counted(r),
         Open(c, r)
  PROVE  BoundsInv'
  <1>1. CASE Return(c, r, "value") \/ Return(c, r, "default")
    BY <1>1, ReturnBounded
  <1>2. CASE r.trials # 3 /\ Becomes(c, Pauses(r))
    <2> DEFINE x == Pauses(r)
    <2>1. /\ x.kind = r.kind /\ x.trials = r.trials /\ x.queued = r.queued
          /\ x.events = r.events
      BY DEF Pauses, Frame
    <2>2. r.trials \in Nat
      BY DEF Frame
    <2> HIDE DEF x
    <2>3. Bounded(x)
      BY <1>2, <2>1, <2>2 DEF Bounded, Counted
    <2> QED
      BY <1>2, <2>3, OneBounded DEF x
  <1> QED
    BY <1>1, <1>2 DEF Open

\* exec() of a future has returned.
LEMMA FutureBounded ==
  ASSUME Inv, BoundsInv, NEW c \in Calls, NEW code, calls[c].kind = "future",
         AfterFuture(c, calls[c], code)
  PROVE  BoundsInv'
  <1> DEFINE r == calls[c]
             n == [r EXCEPT !.trials = @ + 1]
             x == Round(n)
  <1>0. r \in Frame /\ Counted(r)
    BY DEF Inv, FramesInv, BoundsInv, Bounded
  <1>1. CASE HasRound(r) /\ Becomes(c, x)
    <2>1. r.trials \in Nat /\ r.queued \in Nat /\ r.events \in Nat
      BY <1>0 DEF Frame
    <2>2. n \in Frame /\ n.trials = r.trials + 1 /\ n.kind = r.kind /\ n.queued = r.queued
          /\ n.events = r.events
      BY <1>0, <2>1 DEF Frame
    <2>3. r.trials < Rounds
      BY <1>1 DEF HasRound
    <2> HIDE DEF n
    <2>4. /\ x.kind = n.kind /\ x.trials = n.trials /\ x.events = n.events
          /\ x.queued = n.queued \/ x.queued = n.queued + 1
      BY <2>2 DEF Round, Frame
    <2> HIDE DEF x, r
    <2>5. x.kind = "future" /\ x.trials = r.trials + 1 /\ x.events = r.events
          /\ x.queued <= r.queued + 1
      BY <2>1, <2>2, <2>4 DEF r
    <2>6. x.trials <= Rounds
      BY <2>1, <2>3, <2>5
    <2>7. x.queued <= x.trials + 1 /\ x.events <= MaxEvents
      BY <1>0, <2>1, <2>2, <2>4, <2>5 DEF Counted
    <2>8. Bounded(x)
      BY <2>5, <2>6, <2>7 DEF Bounded, Counted
    <2> QED
      BY <1>1, <2>8, OneBounded
  <1>2. CASE Return(c, r, IF r.data THEN "value" ELSE "default")
    BY <1>0, <1>2, ReturnBounded
  <1> QED
    BY <1>1, <1>2 DEF AfterFuture

\* exec() of a token has returned: the third bad reply is the last.
LEMMA TokenBounded ==
  ASSUME Inv, BoundsInv, NEW c \in Calls, NEW code, calls[c].kind = "token",
         calls[c].at # "ended", AfterToken(c, calls[c], code)
  PROVE  BoundsInv'
  <1> DEFINE r == calls[c]
             n == IF code = -2 THEN [r EXCEPT !.trials = @ + 1] ELSE r
             x == Pauses(n)
  <1>0. r \in Frame /\ Bounded(r)
    BY DEF Inv, FramesInv, BoundsInv
  <1>1. r.trials \in Nat /\ r.queued \in Nat /\ r.trials < 3
    BY <1>0 DEF Frame, Bounded
  <1>2. /\ n \in Frame /\ n.kind = r.kind /\ n.queued = r.queued /\ n.events = r.events
        /\ n.trials = r.trials \/ n.trials = r.trials + 1
    BY <1>0, <1>1 DEF Frame
  <1> HIDE DEF n
  <1>3. Counted(n)
    <2> HIDE DEF r
    <2>1. n.kind = "token" /\ n.trials <= 3 /\ n.queued <= n.trials + 1
      BY <1>0, <1>1, <1>2 DEF Bounded, Counted, r
    <2> QED
      BY <1>0, <1>2, <2>1 DEF Bounded, Counted
  <1>4. CASE n.trials < 3 /\ Becomes(c, x)
    <2>1. /\ x.kind = n.kind /\ x.trials = n.trials /\ x.queued = n.queued
          /\ x.events = n.events
      BY <1>2 DEF Pauses, Frame
    <2> HIDE DEF x
    <2>2. Bounded(x)
      BY <1>3, <1>4, <2>1 DEF Bounded, Counted
    <2> QED
      BY <1>4, <2>2, OneBounded
  <1>5. CASE Return(c, n, IF r.data THEN "value" ELSE "default")
    BY <1>2, <1>3, <1>5, ReturnBounded
  <1> QED
    BY <1>4, <1>5 DEF AfterToken, n

\* A pause has passed.
LEMMA PauseBounded ==
  ASSUME Inv, Inv', BoundsInv, NEW c \in Calls, NEW code,
         calls[c].at \in {"pausing", "pause"}, AfterPause(c, calls[c], code)
  PROVE  BoundsInv'
  <1> DEFINE r == calls[c]
             n == [r EXCEPT !.trials = @ + 1]
             x == IF code = 0 THEN Ask(r) ELSE [r EXCEPT !.at = "before"]
  <1>0. r \in Frame /\ Bounded(r)
    BY DEF Inv, FramesInv, BoundsInv
  <1>1. CASE r.kind = "open" /\ Open(c, n)
    <2>1. r.trials \in Nat /\ r.trials < 3 /\ r.queued \in Nat
      BY <1>0, <1>1 DEF Frame, Bounded
    <2>2. n \in Frame /\ n.trials = r.trials + 1 /\ n.kind = r.kind /\ n.queued = r.queued
          /\ n.events = r.events
      BY <1>0, <2>1 DEF Frame
    <2> HIDE DEF n, r
    <2>3. n.kind = "open" /\ n.trials <= 3 /\ n.queued <= n.trials + 1
      BY <1>0, <1>1, <2>1, <2>2 DEF Bounded, Counted
    <2>4. Counted(n)
      BY <1>0, <2>2, <2>3 DEF Bounded, Counted
    <2> QED
      BY <1>1, <2>2, <2>3, <2>4, OpenBounded
  <1>2. CASE Return(c, r, "default")
    BY <1>0, <1>2, ReturnBounded DEF Bounded
  <1>3. CASE Becomes(c, x)
    <2>1. GoesOn(x, r)
      <3>1. r.queued \in Nat /\ r.events <= MaxEvents
        BY <1>0 DEF Frame, Bounded, Counted
      <3> QED
        BY <1>0, <3>1 DEF Ask, Frame, GoesOn
    <2> HIDE DEF x
    <2> QED
      BY <1>3, <2>1, OneGoesOn
  <1> QED
    BY <1>1, <1>2, <1>3 DEF AfterPause

\* A step of the main thread.
LEMMA MainBounded ==
  ASSUME Inv, Inv', BoundsInv, NEW c \in Calls, MainStep(c)
  PROVE  BoundsInv'
  <1> DEFINE r == calls[c]
  <1>0. r \in Frame /\ Bounded(r)
    BY DEF Inv, FramesInv, BoundsInv
  <1>a. r.queued \in Nat /\ r.events <= MaxEvents
    BY <1>0 DEF Frame, Bounded, Counted
  <1>1. CASE FirstOpen(c)
    <2>1. r.kind = "open"
      BY <1>0, <1>1, FrameFacts DEF FirstOpen, PlaceInv, Frame
    <2> QED
      BY <1>0, <1>1, <2>1, OpenBounded DEF FirstOpen, Bounded
  <1>2. CASE MakeLoop(c)
    <2> DEFINE x == [r EXCEPT !.at = "made"]
    <2>1. GoesOn(x, r) /\ Becomes(c, x)
      BY <1>0, <1>2, <1>a DEF MakeLoop, Frame, GoesOn
    <2> HIDE DEF x
    <2> QED
      BY <2>1, OneGoesOn
  <1>3. CASE TestHold(c)
    <2> DEFINE x == [r EXCEPT !.at = "before"]
    <2>1. CASE Holds(c)
      <3>1. Becomes(c, x) /\ r.at = "made"
        BY <1>3, <2>1 DEF TestHold
      <3>2. GoesOn(x, r)
        BY <1>0, <1>a, <3>1 DEF Frame, GoesOn
      <3> HIDE DEF x
      <3> QED
        BY <3>1, <3>2, OneGoesOn
    <2>2. CASE ~Holds(c)
      <3>1. Return(c, r, "value") \/ Return(c, r, "default")
        BY <1>3, <2>2 DEF TestHold, AfterListener
      <3> QED
        BY <1>0, <3>1, ReturnBounded DEF Bounded
    <2> QED
      BY <2>1, <2>2
  <1>4. CASE r.at \notin {"unborn", "ended"} /\ \E code \in -2 .. 0 : After(c, code)
    <2>1. PICK code \in -2 .. 0 : After(c, code)
      BY <1>4
    <2>2. CASE r.at \in {"pausing", "pause"} /\ AfterPause(c, r, code)
      BY <2>2, PauseBounded
    <2>3. CASE r.kind = "future" /\ AfterFuture(c, r, code)
      BY <2>3, FutureBounded
    <2>4. CASE r.kind = "token" /\ AfterToken(c, r, code)
      BY <1>4, <2>4, TokenBounded
    <2>5. CASE AfterCerts(c, r, code) \/ AfterListener(c, r)
      <3>1. Return(c, r, "value") \/ Return(c, r, "default")
        BY <2>5 DEF AfterCerts, AfterListener
      <3> QED
        BY <1>0, <3>1, ReturnBounded DEF Bounded
    <2> QED
      BY <2>1, <2>2, <2>3, <2>4, <2>5 DEF After
  <1>5. CASE Enter(c) /\ quitting
    <2>1. r.at \in {"before", "pausing"} /\ After(c, -1) /\ -1 \in -2 .. 0
      BY <1>5 DEF Enter
    <2> QED
      BY <1>4, <2>1
  <1>6. CASE Enter(c) /\ ~quitting
    <2> DEFINE x == [r EXCEPT !.running = TRUE, !.code = 0, !.nested = FALSE,
                              !.at = IF @ = "before" THEN "loop" ELSE "pause"]
    <2>1. Becomes(c, x) /\ r.at \in {"before", "pausing"}
      BY <1>6 DEF Enter
    <2>2. GoesOn(x, r)
      BY <1>0, <1>a, <2>1 DEF Frame, GoesOn
    <2> HIDE DEF x
    <2> QED
      BY <2>1, <2>2, OneGoesOn
  <1>7. CASE Leave(c)
    <2>1. r.at \in {"loop", "pause"} /\ After(c, r.code) /\ r.code \in -2 .. 0
      BY <1>0, <1>7 DEF Leave, InLoop, Frame
    <2> QED
      BY <1>4, <2>1
  <1> QED
    BY <1>1, <1>2, <1>3, <1>5, <1>6, <1>7 DEF MainStep

\* No step leaves the bounds.
LEMMA BoundsStep == Inv /\ Inv' /\ BoundsInv /\ [Next]_vars => BoundsInv'
  <1> SUFFICES ASSUME Inv, Inv', BoundsInv, [Next]_vars PROVE BoundsInv'
    OBVIOUS
  <1>1. CASE UNCHANGED calls
    BY <1>1 DEF BoundsInv
  <1>2. CASE Quit
    <2> SUFFICES ASSUME NEW c \in Calls PROVE Bounded(calls'[c])
      BY DEF BoundsInv
    <2>1. calls[c] \in Frame /\ calls'[c] \in Frame /\ Bounded(calls[c])
      BY DEF Inv, FramesInv, BoundsInv
    <2>2. GoesOn(Exited(calls[c], 0), calls[c]) /\ GoesOn(calls[c], calls[c])
      <3>1. calls[c].queued \in Nat /\ calls[c].events <= MaxEvents
        BY <2>1 DEF Frame, Bounded, Counted
      <3> QED
        BY <2>1, <3>1 DEF Exited, Frame, GoesOn
    <2>3. calls'[c] = Exited(calls[c], 0) \/ calls'[c] = calls[c]
      BY <1>2 DEF Quit
    <2> QED
      BY <2>1, <2>2, <2>3, GoesOnBounded
  <1>3. Age \/ UNCHANGED vars => UNCHANGED calls
    BY DEF Age, vars
  <1> QED
    BY <1>1, <1>2, <1>3, CallsBounded, MainBounded, EventsBounded DEF Next

-----------------------------------------------------------------------------
(* The type invariant *)

\* The stack has its bound, and what else the type invariant says.
StateInv ==
  /\ Depth <= MaxDepth
  /\ connection \in {"none", "closed", "open"}
  /\ outcome \in {"running", "left behind", "no loop"}

\* A step of the main thread leaves the stack, or takes its call from it.
LEMMA MainStack ==
  ASSUME NEW c \in Calls, MainStep(c)
  PROVE  /\ UNCHANGED stack \/ stack' = SubSeq(stack, 1, Depth - 1)
         /\ UNCHANGED connection \/ connection' \in {"open", "closed"}
         /\ UNCHANGED outcome /\ IsTop(c)
  <1>1. OnMain(c)
    BY DEF MainStep, FirstOpen, MakeLoop, TestHold, Enter, Leave
  <1>2. ASSUME NEW r, NEW answer, Return(c, r, answer)
        PROVE  stack' = SubSeq(stack, 1, Depth - 1)
    BY <1>2 DEF Return
  <1>3. ASSUME NEW r, Open(c, r)
        PROVE  /\ UNCHANGED stack \/ stack' = SubSeq(stack, 1, Depth - 1)
               /\ connection' \in {"open", "closed"}
    BY <1>2, <1>3 DEF Open
  <1>4. ASSUME NEW r, NEW code, \/ AfterFuture(c, r, code) \/ AfterToken(c, r, code)
                                \/ AfterCerts(c, r, code) \/ AfterListener(c, r)
        PROVE  /\ UNCHANGED stack \/ stack' = SubSeq(stack, 1, Depth - 1)
               /\ UNCHANGED connection
    BY <1>2, <1>4 DEF AfterFuture, AfterToken, AfterCerts, AfterListener
  <1>5. ASSUME NEW r, NEW code, AfterPause(c, r, code)
        PROVE  /\ UNCHANGED stack \/ stack' = SubSeq(stack, 1, Depth - 1)
               /\ UNCHANGED connection \/ connection' \in {"open", "closed"}
    BY <1>2, <1>3, <1>5 DEF AfterPause
  <1>6. ASSUME NEW code, After(c, code)
        PROVE  /\ UNCHANGED stack \/ stack' = SubSeq(stack, 1, Depth - 1)
               /\ UNCHANGED connection \/ connection' \in {"open", "closed"}
    BY <1>4, <1>5, <1>6 DEF After
  <1> QED
    BY <1>1, <1>3, <1>4, <1>6 DEF MainStep, FirstOpen, MakeLoop, TestHold, Enter, Leave, OnMain

\* No step leaves the bound of the stack, or the other types.
LEMMA StateInvStep == Inv /\ StateInv /\ [Next]_vars => StateInv'
  <1> SUFFICES ASSUME Inv, StateInv, [Next]_vars PROVE StateInv'
    OBVIOUS
  <1>0. stack \in Seq(Calls) /\ Depth \in Nat /\ Depth = Len(stack)
    BY LenProperties DEF Inv, Depth
  <1>1. ASSUME NEW c \in Calls, NEW r, Call(c, r) PROVE StateInv'
    <2>1. Len(stack') = Len(stack) + 1
      BY <1>0, <1>1, AppendProperties DEF Call
    <2>2. Depth < MaxDepth /\ UNCHANGED <<connection, outcome>>
      BY <1>1 DEF Call
    <2>3. Depth' <= MaxDepth
      BY <1>0, <2>1, <2>2 DEF Depth
    <2> QED
      BY <2>2, <2>3 DEF StateInv
  <1>2. ASSUME NEW c \in Calls, MainStep(c) PROVE StateInv'
    <2>1. CASE UNCHANGED stack
      BY <1>2, <2>1, MainStack DEF StateInv, Depth
    <2>2. CASE stack' = SubSeq(stack, 1, Depth - 1)
      <3>1. Depth > 0
        BY <1>2, MainStack DEF IsTop
      <3>2. 1 \in 1 .. Len(stack) + 1 /\ Depth - 1 \in 1 - 1 .. Len(stack)
        BY <1>0, <3>1
      <3>3. Len(stack') = IF 1 <= Depth - 1 THEN (Depth - 1) - 1 + 1 ELSE 0
        BY <1>0, <2>2, <3>2, SubSeqProperties
      <3>4. Depth' <= Depth
        BY <1>0, <3>1, <3>3 DEF Depth
      <3>5. Depth' \in Nat
        BY <1>0, <3>1, <3>3 DEF Depth
      <3>6. Depth' <= MaxDepth
        <4>1. Depth <= MaxDepth /\ MaxDepth \in Nat /\ Depth \in Nat
          BY <1>0 DEF StateInv
        <4> QED
          BY <3>4, <3>5, <4>1
      <3> QED
        BY <1>2, <3>6, MainStack DEF StateInv
    <2> QED
      BY <1>2, <2>1, <2>2, MainStack
  <1>3. ASSUME NEW c \in Calls,
               \/ TimeOut(c) \/ Posted(c) \/ Reply(c) \/ ReplyCerts(c) \/ PoolRuns(c)
               \/ Complete(c) \/ Callback(c) \/ Notify(c) \/ Notified(c)
        PROVE  /\ UNCHANGED <<stack, connection>>
               /\ UNCHANGED outcome \/ outcome' \in {"left behind", "no loop"}
    BY <1>3 DEF TimeOut, Posted, Reply, ReplyCerts, Event, PoolRuns, Complete, Callback,
                Notify, Notified, Elsewhere, OnlyCalls
  <1>4. Age \/ Quit \/ UNCHANGED vars => UNCHANGED <<stack, connection, outcome>>
    BY DEF Age, Quit, vars
  <1>5. /\ UNCHANGED <<stack, connection>>
        /\ UNCHANGED outcome \/ outcome' \in {"left behind", "no loop"}
        => StateInv'
    BY DEF StateInv, Depth
  <1>6. ASSUME NEW c \in Calls,
               CallFuture(c) \/ CallToken(c) \/ CallCerts(c) \/ CallOpen(c) \/ Listen(c)
        PROVE  StateInv'
    <2>1. \E r : Call(c, r)
      BY <1>6 DEF CallFuture, CallToken, CallCerts, CallOpen, Listen
    <2> QED
      BY <1>1, <2>1
  <1> QED
    BY <1>2, <1>3, <1>4, <1>5, <1>6 DEF Next

\* The state has its type: in particular a future takes its rounds and no
\* more, a token and a connection are asked for as often as the code says, and
\* a function registers no more callbacks than it has rounds.
THEOREM WaitsTyped == Spec => []TypeOK
  <1>1. Init => BoundsInv /\ StateInv
    <2> SUFFICES ASSUME Init PROVE BoundsInv /\ StateInv
      OBVIOUS
    <2>1. Bounded(Unborn)
      BY DEF Bounded, Counted, Unborn
    <2>2. BoundsInv
      BY <2>1 DEF Init, BoundsInv
    <2>3. Len(<<>>) = 0
      BY EmptySeq
    <2>4. StateInv
      BY <2>3 DEF Init, StateInv, Depth
    <2> QED
      BY <2>2, <2>4
  <1>2. Inv /\ BoundsInv /\ StateInv /\ CertsInv => TypeOK
    <2> SUFFICES ASSUME Inv, BoundsInv, StateInv, CertsInv PROVE TypeOK
      OBVIOUS
    <2> DEFINE Most == IF Rounds > 3 THEN Rounds ELSE 3
               Typed == [kind : {"none", "future", "token", "certs", "open"} \cup Listeners,
                         at : {"unborn", "built", "made", "opening", "before", "loop",
                               "pausing", "pause", "ended"},
                         trials : 0 .. Most, running : BOOLEAN, code : -2 .. 0,
                         posted : BOOLEAN, timer : BOOLEAN, asked : BOOLEAN,
                         queued : 0 .. Rounds + 1, callback : BOOLEAN, data : BOOLEAN,
                         events : 0 .. MaxEvents, seen : {"no", "stored"},
                         missed : BOOLEAN, nested : BOOLEAN,
                         answer : {"none", "value", "default"}]
    <2>1. ASSUME NEW c \in Calls PROVE calls[c] \in Typed
      <3> DEFINE r == calls[c]
      <3>1. r \in Frame /\ Counted(r) /\ PlaceInv(r)
        BY FrameFacts DEF BoundsInv, Bounded
      <3> HIDE DEF r
      <3>2. r.trials \in Nat /\ r.queued \in Nat /\ r.events \in Nat
        BY <3>1 DEF Frame
      <3>3. r.trials \in 0 .. Most
        <4>1. r.trials <= Rounds \/ r.trials <= 3
          BY <3>1 DEF Counted
        <4> QED
          BY <3>2, <4>1
      <3>4. r.queued \in 0 .. Rounds + 1
        <4>1. r.queued <= Rounds + 1
          BY <3>1, <3>2 DEF Counted, PlaceInv
        <4> QED
          BY <3>2, <4>1
      <3>5. r.events \in 0 .. MaxEvents
        BY <3>1, <3>2 DEF Counted
      <3> HIDE DEF Most
      <3>6. r \in Typed
        BY <3>1, <3>3, <3>4, <3>5 DEF Frame
      <3> QED
        BY <3>6 DEF r
    <2>2. calls \in [Calls -> Typed]
      <3> HIDE DEF Typed
      <3> QED
        BY <2>1 DEF Inv, FramesInv
    <2>3. certs \in Seq([kid : Kids, old : BOOLEAN])
      BY DEF CertsInv, CertLists, Cert
    <2> QED
      BY <2>2, <2>3 DEF TypeOK, Inv, StateInv
  <1>3. BoundsInv /\ StateInv /\ Inv /\ Inv' /\ [Next]_vars => (BoundsInv /\ StateInv)'
    BY BoundsStep, StateInvStep
  <1> QED
    BY <1>1, <1>2, <1>3, AlwaysInv, CertsInvHolds, PTL DEF Spec
=============================================================================
