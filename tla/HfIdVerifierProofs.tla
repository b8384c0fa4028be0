------------------------- MODULE HfIdVerifierProofs -------------------------
(***************************************************************************)
(* Safety of HfIdVerifier for any number of threads, keys and permits, any  *)
(* budget, window, lifetimes, breaker and cache limits.                     *)
(***************************************************************************)
EXTENDS HfIdVerifier, FiniteSetTheorems, SequenceTheorems, TLAPS

\* A thread holds a permit from the acquire to the release.
PermitProtocol ==
  \A t \in Threads :
    /\ pc[t] \in {"clock", "take", "call", "record", "put"} => req[t].holds
    /\ req[t].holds => pc[t] \in {"clock", "take", "call", "record", "put", "release"}

\* The first half of ConcurrencyCap.
PermitsAddUp == permits + Cardinality(Holders) = MaxConcurrent

\* The breaker never opens further ahead than its cooldown.
OpensWithinCooldown == breaker.openUntil <= now + BreakerCooldown

\* Nothing is newer than the clock, and an answer on its way to the cache is
\* no older than what is cached for its id.
AnswersInOrder ==
  /\ \A k \in Keys : cache[k].asOf <= now
  /\ \A t \in Threads : pc[t] \in {"record", "put"} =>
       cache[req[t].key].asOf <= req[t].asOf /\ req[t].asOf <= now

\* The stamps of a deque from s on, and the threads that carry a stamp from
\* before s to the budget lock.
Recent(w, s) == {i \in DOMAIN w : s <= w[i]}
Late(s) == {t \in Threads : pc[t] = "take" /\ req[t].stamp < s}

\* No stamp and no token is of the future.
StampsPast ==
  /\ \A t \in Threads : pc[t] = "take" => req[t].stamp <= now
  /\ \A i \in DOMAIN taken : taken[i] <= now

\* While the window that starts at s is open, each of its tokens is still in the
\* deque with a stamp of the window, or was taken with an older stamp; a thread
\* that may still do so held a permit when the window opened.
OvershootLedger ==
  \A s \in Times : s <= now /\ now < s + Window =>
    Cardinality(TokensWithin(s)) + Cardinality(Late(s))
      <= Cardinality(Recent(window, s)) + MaxConcurrent

-----------------------------------------------------------------------------
(* Facts about the helpers.                                                *)

\* What DropAt returns is still a sequence of the same elements' type.
LEMMA DropAtType ==
  ASSUME NEW S, NEW s \in Seq(S), NEW i \in DOMAIN s
  PROVE  DropAt(s, i) \in Seq(S)
<1>1. /\ Len(s) \in Nat /\ DOMAIN s = 1 .. Len(s)
      /\ \A j \in 1 .. Len(s) : s[j] \in S
  BY LenProperties, ElementOfSeq
<1>2. SubSeq(s, 1, i - 1) \in Seq(S)
  BY <1>1, SubSeqProperties
<1>3. SubSeq(s, i + 1, Len(s)) \in Seq(S)
  BY <1>1, SubSeqProperties
<1>. QED  BY <1>2, <1>3, ConcatProperties DEF DropAt

\* A suffix of a sequence has its elements and at most its length.
LEMMA SuffixType ==
  ASSUME NEW S, NEW s \in Seq(S), NEW i \in Nat
  PROVE  /\ SubSeq(s, i + 1, Len(s)) \in Seq(S)
         /\ Len(SubSeq(s, i + 1, Len(s))) <= Len(s)
<1>1. /\ Len(s) \in Nat
      /\ \A j \in 1 .. Len(s) : s[j] \in S
  BY LenProperties, ElementOfSeq
<1>. QED  BY <1>1, SubSeqProperties

\* What is left of a sequence after its first e elements.
LEMMA SuffixElements ==
  ASSUME NEW S, NEW s \in Seq(S), NEW e \in 0 .. Len(s)
  PROVE  LET r == SubSeq(s, e + 1, Len(s)) IN
         /\ r \in Seq(S) /\ Len(r) = Len(s) - e /\ DOMAIN r = 1 .. Len(s) - e
         /\ \A j \in 1 .. Len(s) - e : r[j] = s[e + j]
<1> DEFINE r == SubSeq(s, e + 1, Len(s))
<1>1. /\ Len(s) \in Nat /\ e \in Nat
      /\ \A j \in e + 1 .. Len(s) : s[j] \in S
  BY LenProperties, ElementOfSeq
<1>2. r \in Seq(S) /\ Len(r) = Len(s) - e
  BY <1>1, SubSeqProperties
<1>3. \A j \in 1 .. Len(s) - e : r[j] = s[e + j]
  BY <1>1, SubSeqProperties
<1>4. DOMAIN r = 1 .. Len(s) - e
  BY <1>2, LenProperties
<1>. QED  BY <1>2, <1>3, <1>4

\* What DropAt leaves of a sequence without repetitions: every other element,
\* once each.
LEMMA DropAtDistinct ==
  ASSUME NEW S, NEW s \in Seq(S), NEW i \in DOMAIN s,
         \A a, b \in DOMAIN s : s[a] = s[b] => a = b
  PROVE  LET d == DropAt(s, i) IN
         /\ Len(d) = Len(s) - 1
         /\ \A a, b \in DOMAIN d : d[a] = d[b] => a = b
         /\ {d[a] : a \in DOMAIN d} = {s[a] : a \in DOMAIN s} \ {s[i]}
<1> DEFINE n == Len(s)
           l == SubSeq(s, 1, i - 1)
           r == SubSeq(s, i + 1, n)
           d == DropAt(s, i)
<1>1. n \in Nat /\ DOMAIN s = 1 .. n /\ i \in 1 .. n /\ \A j \in 1 .. n : s[j] \in S
  BY LenProperties, ElementOfSeq
<1>2. /\ l \in Seq(S) /\ Len(l) = i - 1
      /\ \A j \in 1 .. i - 1 : l[j] = s[j]
  <2>1. \A j \in 1 .. i - 1 : s[j] \in S
    BY <1>1
  <2>. QED  BY <1>1, <2>1, SubSeqProperties
<1>3. /\ r \in Seq(S) /\ Len(r) = n - i
      /\ \A j \in 1 .. n - i : r[j] = s[i + j]
  <2>1. \A j \in i + 1 .. n : s[j] \in S
    BY <1>1
  <2>. QED  BY <1>1, <2>1, SubSeqProperties
<1>4. d = l \o r
  BY DEF DropAt
<1> HIDE DEF d, l, r
<1>cat. /\ d \in Seq(S) /\ Len(d) = Len(l) + Len(r)
      /\ \A j \in 1 .. Len(l) + Len(r) : d[j] = IF j <= Len(l) THEN l[j] ELSE r[j - Len(l)]
  <2>1. l \in Seq(S) /\ r \in Seq(S)
    BY <1>2, <1>3
  <2>. QED  BY <1>4, <2>1, ConcatProperties
<1>5. d \in Seq(S) /\ Len(d) = n - 1 /\ DOMAIN d = 1 .. n - 1
  <2>1. Len(d) = n - 1
    BY <1>1, <1>2, <1>3, <1>cat
  <2>. QED  BY <1>cat, <2>1, LenProperties
<1>6. \A j \in 1 .. n - 1 : d[j] = IF j < i THEN s[j] ELSE s[j + 1]
  <2> SUFFICES ASSUME NEW j \in 1 .. n - 1 PROVE d[j] = IF j < i THEN s[j] ELSE s[j + 1]
    OBVIOUS
  <2>1. CASE j < i
    BY <1>1, <1>2, <1>3, <1>cat, <2>1
  <2>2. CASE ~(j < i)
    <3>1. j - (i - 1) \in 1 .. n - i /\ i + (j - (i - 1)) = j + 1 /\ ~(j <= i - 1)
      BY <1>1, <2>2
    <3>2. d[j] = r[j - (i - 1)]
      BY <1>1, <1>2, <1>3, <1>cat, <2>2
    <3>3. r[j - (i - 1)] = s[j + 1]
      BY <1>3, <3>1
    <3>. QED  BY <2>2, <3>2, <3>3
  <2>. QED  BY <2>1, <2>2
\* The position in s of the j-th element of d.
<1> DEFINE at(j) == IF j < i THEN j ELSE j + 1
<1>7. \A j \in 1 .. n - 1 : at(j) \in 1 .. n /\ at(j) # i /\ d[j] = s[at(j)]
  BY <1>1, <1>6
<1>8. \A a \in 1 .. n : a # i => \E j \in 1 .. n - 1 : at(j) = a
  <2> SUFFICES ASSUME NEW a \in 1 .. n, a # i PROVE \E j \in 1 .. n - 1 : at(j) = a
    OBVIOUS
  <2>1. CASE a < i
    <3>1. a \in 1 .. n - 1 /\ at(a) = a
      BY <1>1, <2>1
    <3>. QED  BY <3>1
  <2>2. CASE a > i
    <3>1. a - 1 \in 1 .. n - 1 /\ at(a - 1) = a
      BY <1>1, <2>2
    <3>. QED  BY <3>1
  <2>. QED  BY <1>1, <2>1, <2>2
<1>9. \A a, b \in 1 .. n - 1 : at(a) = at(b) => a = b
  BY <1>1
<1> HIDE DEF at, n
<1>10. \A a, b \in DOMAIN d : d[a] = d[b] => a = b
  BY <1>1, <1>5, <1>7, <1>9
<1>11. {d[a] : a \in DOMAIN d} = {s[a] : a \in DOMAIN s} \ {s[i]}
  <2>1. DOMAIN d = 1 .. n - 1 /\ DOMAIN s = 1 .. n /\ i \in 1 .. n
    BY <1>1, <1>5
  <2>2. ASSUME NEW a \in DOMAIN d
        PROVE  d[a] \in {s[b] : b \in DOMAIN s} \ {s[i]}
    BY <1>7, <2>1
  <2>3. ASSUME NEW a \in DOMAIN s, s[a] # s[i]
        PROVE  s[a] \in {d[b] : b \in DOMAIN d}
    BY <1>7, <1>8, <2>1, <2>3
  <2>. QED  BY <2>2, <2>3
<1>. QED  BY <1>5, <1>10, <1>11 DEF d, n

\* Whatever the breaker does, it stays in its type.
LEMMA BreakerAfterType ==
  ASSUME TypeOK, NEW o \in Outcomes \cup {"none"}
  PROVE  BreakerAfter(o) \in [failures : 0 .. BreakerThreshold - 1, openUntil : Nat]
<1>1. /\ breaker \in [failures : 0 .. BreakerThreshold - 1, openUntil : Nat]
      /\ now \in Nat /\ BreakerThreshold \in Nat \ {0} /\ BreakerCooldown \in Nat
  BY LimitsAssumption DEF TypeOK, Times
<1>2. CASE o # "failed"
  <2>1. BreakerAfter(o) = [failures |-> 0, openUntil |-> breaker.openUntil]
    BY <1>1, <1>2 DEF BreakerAfter
  <2>. QED  BY <1>1, <2>1
<1>3. CASE o = "failed" /\ breaker.failures + 1 < BreakerThreshold
  <2>1. BreakerAfter(o) = [failures |-> breaker.failures + 1, openUntil |-> breaker.openUntil]
    BY <1>1, <1>3 DEF BreakerAfter
  <2>. QED  BY <1>1, <1>3, <2>1
<1>4. CASE o = "failed" /\ ~(breaker.failures + 1 < BreakerThreshold)
  <2>1. BreakerAfter(o) = [failures |-> 0, openUntil |-> now + BreakerCooldown]
    BY <1>4 DEF BreakerAfter
  <2>. QED  BY <1>1, <2>1
<1>. QED  BY <1>2, <1>3, <1>4

-----------------------------------------------------------------------------
(* Type correctness.                                                       *)

\* The initial state is well typed.
LEMMA InitTyped == Init => TypeOK
<1> SUFFICES ASSUME Init PROVE TypeOK
  OBVIOUS
<1> USE LimitsAssumption
<1>1. now \in Times /\ inFlight \subseteq Keys /\ permits \in 0 .. MaxConcurrent
  BY DEF Init, Times
<1>2. cache \in [Keys -> Entries]
  BY DEF Init, NoEntry, Entries, Times
<1>3. order \in Seq(Keys) /\ window \in Seq(Times)
  BY DEF Init
<1>4. taken \in Seq(Times) /\ breaker \in [failures : 0 .. BreakerThreshold - 1, openUntil : Nat]
  BY DEF Init
<1>5. pc \in [Threads -> Labels]
  BY DEF Init, Labels
<1>6. req \in [Threads -> Requests]
  <2>1. \A k \in Keys : FreshRequest(k) \in Requests
    BY DEF FreshRequest, Requests, Times
  <2>. QED  BY <2>1 DEF Init
<1>. QED  BY <1>1, <1>2, <1>3, <1>4, <1>5, <1>6 DEF TypeOK

\* Any label a step goes to is a label.
LEMMA GotoTyped ==
  ASSUME TypeOK, NEW t, NEW l \in Labels, Goto(t, l)
  PROVE  pc' \in [Threads -> Labels]
BY DEF TypeOK, Goto

\* The set of permit holders is finite, as is that of the next state.
LEMMA HoldersFinite ==
  /\ IsFiniteSet(Holders) /\ Cardinality(Holders) \in Nat
  /\ IsFiniteSet(Holders') /\ Cardinality(Holders') \in Nat
BY ThreadsAssumption, FS_Subset, FS_CardinalityType DEF Holders

\* Every step keeps the types; that a release keeps the semaphore within its
\* permits needs the count of the permit holders.
LEMMA StepTyped == TypeOK /\ PermitsAddUp /\ [Next]_vars => TypeOK'
<1> SUFFICES ASSUME TypeOK, PermitsAddUp, [Next]_vars
             PROVE  TypeOK'
  OBVIOUS
<1> USE LimitsAssumption
<1>1. ASSUME NEW t \in Threads, NEW k \in Keys, CheckCache(t, k)
      PROVE  TypeOK'
  <2>1. cache' \in [Keys -> Entries]
    <3>1. NoEntry \in Entries
      BY DEF NoEntry, Entries, Times
    <3>. QED  BY <1>1, <3>1 DEF CheckCache, TypeOK
  <2>2. order' \in Seq(Keys)
    BY <1>1, DropAtType DEF CheckCache, TypeOK
  <2>3. req' \in [Threads -> Requests]
    <3>1. FreshRequest(k) \in Requests
      BY DEF FreshRequest, Requests, Times
    <3>. QED  BY <1>1, <3>1 DEF CheckCache, TypeOK
  <2>4. pc' \in [Threads -> Labels]
    BY <1>1, GotoTyped DEF CheckCache, Labels
  <2>. QED  BY <1>1, <2>1, <2>2, <2>3, <2>4 DEF CheckCache, TypeOK
<1>2. ASSUME NEW t \in Threads, CheckBreaker(t)
      PROVE  TypeOK'
  <2>1. pc' \in [Threads -> Labels]
    BY <1>2, GotoTyped DEF CheckBreaker, Labels
  <2>. QED  BY <1>2, <2>1 DEF CheckBreaker, TypeOK
<1>3. ASSUME NEW t \in Threads, EnterFlight(t)
      PROVE  TypeOK'
  <2>1. pc' \in [Threads -> Labels]
    BY <1>3, GotoTyped DEF EnterFlight, Labels
  <2>2. inFlight' \subseteq Keys
    BY <1>3 DEF EnterFlight, TypeOK, Requests
  <2>. QED  BY <1>3, <2>1, <2>2 DEF EnterFlight, TypeOK
<1>4. ASSUME NEW t \in Threads, Acquire(t)
      PROVE  TypeOK'
  <2>1. pc' \in [Threads -> Labels]
    BY <1>4, GotoTyped DEF Acquire, Labels
  <2>2. permits' \in 0 .. MaxConcurrent
    <3>1. permits' = permits \/ (permits > 0 /\ permits' = permits - 1)
      BY <1>4 DEF Acquire
    <3>. QED  BY <3>1, LimitsAssumption DEF TypeOK
  <2>3. req' \in [Threads -> Requests]
    <3>1. req' = req \/ req' = [req EXCEPT ![t].holds = TRUE]
      BY <1>4 DEF Acquire
    <3>2. /\ req \in [Threads -> Requests]
          /\ [req[t] EXCEPT !.holds = TRUE] \in Requests
      BY DEF TypeOK, Requests
    <3>. QED  BY <3>1, <3>2
  <2>. QED  BY <1>4, <2>1, <2>2, <2>3 DEF Acquire, TypeOK
<1>5. ASSUME NEW t \in Threads, ReadClock(t)
      PROVE  TypeOK'
  <2>1. pc' \in [Threads -> Labels]
    BY <1>5, GotoTyped DEF ReadClock, Labels
  <2>2. req' \in [Threads -> Requests]
    <3>1. req' = [req EXCEPT ![t].stamp = now]
      BY <1>5 DEF ReadClock
    <3>2. /\ req \in [Threads -> Requests]
          /\ [req[t] EXCEPT !.stamp = now] \in Requests
      BY DEF TypeOK, Requests
    <3>. QED  BY <3>1, <3>2
  <2>. QED  BY <1>5, <2>1, <2>2 DEF ReadClock, TypeOK
<1>6. ASSUME NEW t \in Threads, TakeBudget(t)
      PROVE  TypeOK'
  <2>1. pc' \in [Threads -> Labels]
    BY <1>6, GotoTyped DEF TakeBudget, Labels
  <2>2. req' \in [Threads -> Requests]
    <3>1. req' = [req EXCEPT ![t].stamp = 0]
      BY <1>6 DEF TakeBudget
    <3>2. req \in [Threads -> Requests] /\ 0 \in Times
      BY DEF TypeOK, Times
    <3>3. [req[t] EXCEPT !.stamp = 0] \in Requests
      BY <3>2 DEF Requests
    <3>. QED  BY <3>1, <3>2, <3>3
  <2>3. req[t].stamp \in Times
    BY DEF TypeOK, Requests
  <2>4. window' \in Seq(Times)
    <3>1. Len(window) \in Nat /\ \A i \in Nat : SubSeq(window, i + 1, Len(window)) \in Seq(Times)
      BY SuffixType, LenProperties DEF TypeOK
    <3>2. \A s \in Seq(Times) : Append(s, req[t].stamp) \in Seq(Times)
      BY <2>3
    <3>3. PICK i \in 0 .. Len(window) :
            \/ window' = SubSeq(window, i + 1, Len(window))
            \/ window' = Append(SubSeq(window, i + 1, Len(window)), req[t].stamp)
      BY <1>6 DEF TakeBudget
    <3>4. SubSeq(window, i + 1, Len(window)) \in Seq(Times)
      BY <3>1
    <3>. QED  BY <3>2, <3>3, <3>4
  <2>5. taken' \in Seq(Times)
    <3>1. taken' = taken \/ taken' = Append(taken, now)
      BY <1>6 DEF TakeBudget
    <3>2. taken \in Seq(Times) /\ now \in Times
      BY DEF TypeOK
    <3>. QED  BY <3>1, <3>2, AppendProperties
  <2>. QED  BY <1>6, <2>1, <2>2, <2>4, <2>5 DEF TakeBudget, TypeOK
<1>7. ASSUME NEW t \in Threads, CallHub(t)
      PROVE  TypeOK'
  <2>1. pc' \in [Threads -> Labels]
    BY <1>7, GotoTyped DEF CallHub, Labels
  <2>2. req' \in [Threads -> Requests]
    <3>1. PICK o \in Outcomes : req' = [req EXCEPT ![t].outcome = o, ![t].asOf = now]
      BY <1>7 DEF CallHub
    <3>2. req[t] \in Requests
      BY DEF TypeOK
    <3>3. [req[t] EXCEPT !.outcome = o, !.asOf = now] \in Requests
      BY <3>2 DEF TypeOK, Requests
    <3>4. req' = [req EXCEPT ![t] = [req[t] EXCEPT !.outcome = o, !.asOf = now]]
      BY <3>1, <3>2 DEF TypeOK, Requests
    <3>. QED  BY <3>3, <3>4 DEF TypeOK
  <2>. QED  BY <1>7, <2>1, <2>2 DEF CallHub, TypeOK
<1>8. ASSUME NEW t \in Threads, Record(t)
      PROVE  TypeOK'
  <2>1. pc' \in [Threads -> Labels]
    BY <1>8, GotoTyped DEF Record, Labels
  <2>2. breaker' \in [failures : 0 .. BreakerThreshold - 1, openUntil : Nat]
    <3>1. breaker' = BreakerAfter(req[t].outcome)
      BY <1>8 DEF Record
    <3>2. req[t].outcome \in Outcomes \cup {"none"}
      BY DEF TypeOK, Requests
    <3>. QED  BY <3>1, <3>2, BreakerAfterType
  <2>. QED  BY <1>8, <2>1, <2>2 DEF Record, TypeOK
<1>9. ASSUME NEW t \in Threads, PutCache(t)
      PROVE  TypeOK'
  <2>1. pc' \in [Threads -> Labels]
    BY <1>9, GotoTyped DEF PutCache, Labels
  <2>2. EntryFor(req[t]) \in Entries /\ NoEntry \in Entries
    BY DEF EntryFor, NoEntry, Entries, TypeOK, Requests, Times
  <2>3. cache' \in [Keys -> Entries]
    BY <1>9, <2>2 DEF PutCache, TypeOK
  <2>4. order' \in Seq(Keys)
    <3> DEFINE kept == SubSeq(order, Evicted + 1, Len(order))
    <3>1. kept \in Seq(Keys)
      BY SuffixType DEF Evicted, TypeOK
    <3>2. req[t].key \in Keys
      BY DEF TypeOK, Requests
    <3>3. Append(kept, req[t].key) \in Seq(Keys)
      BY <3>1, <3>2
    <3>. QED  BY <1>9, <3>1, <3>3 DEF PutCache
  <2>. QED  BY <1>9, <2>1, <2>3, <2>4 DEF PutCache, TypeOK
<1>10. ASSUME NEW t \in Threads, Release(t)
       PROVE  TypeOK'
  <2>1. pc' \in [Threads -> Labels]
    BY <1>10, GotoTyped DEF Release, Labels
  <2>2. req' \in [Threads -> Requests]
    <3>1. req' = [req EXCEPT ![t].holds = FALSE]
      BY <1>10 DEF Release
    <3>2. /\ req \in [Threads -> Requests]
          /\ [req[t] EXCEPT !.holds = FALSE] \in Requests
      BY DEF TypeOK, Requests
    <3>. QED  BY <3>1, <3>2
  <2>3. permits' \in 0 .. MaxConcurrent
    <3>1. CASE req[t].holds
      <4>1. Holders # {}
        BY <3>1 DEF Holders
      <4>2. Cardinality(Holders) \in Nat \ {0}
        BY <4>1, HoldersFinite, FS_EmptySet
      <4>3. permits \in Nat /\ permits + 1 \in 0 .. MaxConcurrent
        BY <4>2 DEF TypeOK, PermitsAddUp, LimitsAssumption
      <4>4. permits' = permits + 1
        BY <1>10, <3>1 DEF Release
      <4>. QED  BY <4>3, <4>4
    <3>2. CASE ~req[t].holds
      <4>1. permits' = permits
        BY <1>10, <3>2 DEF Release
      <4>. QED  BY <4>1 DEF TypeOK
    <3>. QED  BY <3>1, <3>2
  <2>. QED  BY <1>10, <2>1, <2>2, <2>3 DEF Release, TypeOK
<1>11. ASSUME NEW t \in Threads, Discard(t)
       PROVE  TypeOK'
  <2>1. pc' \in [Threads -> Labels]
    BY <1>11, GotoTyped DEF Discard, Labels
  <2>2. req' \in [Threads -> Requests]
    <3>1. FreshRequest(req[t].key) \in Requests
      BY DEF FreshRequest, TypeOK, Requests, Times
    <3>. QED  BY <1>11, <3>1 DEF Discard, TypeOK
  <2>. QED  BY <1>11, <2>1, <2>2 DEF Discard, TypeOK
<1>12. CASE Tick
  BY <1>12 DEF Tick, TypeOK, Times
<1>13. CASE UNCHANGED vars
  BY <1>13 DEF vars, TypeOK
<1>. QED  BY <1>1, <1>2, <1>3, <1>4, <1>5, <1>6, <1>7, <1>8, <1>9, <1>10, <1>11, <1>12, <1>13
       DEF Next, Proceed

-----------------------------------------------------------------------------
(* Permits.                                                                *)

\* A step of one thread leaves the others where they are.
LEMMA OthersUntouched ==
  ASSUME TypeOK, NEW t \in Threads, Proceed(t) \/ \E k \in Keys : CheckCache(t, k)
  PROVE  \A u \in Threads \ {t} : pc'[u] = pc[u] /\ req'[u] = req[u]
<1> USE DEF TypeOK, Goto
<1>1. CASE \E k \in Keys : CheckCache(t, k)
  BY <1>1 DEF CheckCache
<1>2. CASE CheckBreaker(t)
  BY <1>2 DEF CheckBreaker
<1>3. CASE EnterFlight(t)
  BY <1>3 DEF EnterFlight
<1>4. CASE Acquire(t)
  BY <1>4 DEF Acquire
<1>5. CASE ReadClock(t)
  BY <1>5 DEF ReadClock
<1>6. CASE TakeBudget(t)
  <2>1. /\ req' = [req EXCEPT ![t].stamp = 0]
        /\ \E l \in Labels : pc' = [pc EXCEPT ![t] = l]
    BY <1>6 DEF TakeBudget, Labels
  <2>. QED  BY <2>1
<1>7. CASE CallHub(t)
  BY <1>7 DEF CallHub
<1>8. CASE Record(t)
  BY <1>8 DEF Record
<1>9. CASE PutCache(t)
  BY <1>9 DEF PutCache
<1>10. CASE Release(t)
  BY <1>10 DEF Release
<1>11. CASE Discard(t)
  BY <1>11 DEF Discard
<1>. QED  BY <1>1, <1>2, <1>3, <1>4, <1>5, <1>6, <1>7, <1>8, <1>9, <1>10, <1>11 DEF Proceed

\* What a step does to the thread that takes it: where it goes, whether it
\* holds a permit, and which key it is about.
LEMMA OwnStep ==
  ASSUME TypeOK, NEW t \in Threads
  PROVE  /\ \A k \in Keys : CheckCache(t, k) =>
              pc[t] = "idle" /\ pc'[t] \in {"idle", "breaker"} /\ req'[t] = FreshRequest(k)
         /\ CheckBreaker(t) =>
              pc[t] = "breaker" /\ pc'[t] \in {"idle", "flight"} /\ req' = req
         /\ EnterFlight(t) =>
              pc[t] = "flight" /\ pc'[t] \in {"idle", "acquire"} /\ req' = req
         /\ Acquire(t) =>
              /\ pc[t] = "acquire" /\ req'[t].key = req[t].key
              /\ \/ pc'[t] = "clock" /\ req'[t].holds
                 \/ pc'[t] = "release" /\ req' = req
         /\ ReadClock(t) =>
              /\ pc[t] = "clock" /\ pc'[t] = "take"
              /\ req'[t].key = req[t].key /\ req'[t].holds = req[t].holds
         /\ TakeBudget(t) =>
              /\ pc[t] = "take" /\ pc'[t] \in {"release", "call"}
              /\ req'[t].key = req[t].key /\ req'[t].holds = req[t].holds
         /\ CallHub(t) =>
              /\ pc[t] = "call" /\ pc'[t] \in {"put", "record"}
              /\ req'[t].key = req[t].key /\ req'[t].holds = req[t].holds
         /\ Record(t) =>
              pc[t] = "record" /\ pc'[t] \in {"put", "release"} /\ req' = req
         /\ PutCache(t) =>
              pc[t] = "put" /\ pc'[t] = "release" /\ req' = req
         /\ Release(t) =>
              /\ pc[t] = "release" /\ pc'[t] = "discard"
              /\ req'[t].key = req[t].key /\ ~req'[t].holds
         /\ Discard(t) =>
              /\ pc[t] = "discard" /\ pc'[t] = "idle"
              /\ req'[t].key = req[t].key /\ ~req'[t].holds
<1> USE DEF TypeOK, Goto, Requests
<1>1. ASSUME NEW k \in Keys, CheckCache(t, k)
      PROVE  pc[t] = "idle" /\ pc'[t] \in {"idle", "breaker"} /\ req'[t] = FreshRequest(k)
  BY <1>1 DEF CheckCache
<1>2. CheckBreaker(t) => pc[t] = "breaker" /\ pc'[t] \in {"idle", "flight"} /\ req' = req
  BY DEF CheckBreaker
<1>3. EnterFlight(t) => pc[t] = "flight" /\ pc'[t] \in {"idle", "acquire"} /\ req' = req
  BY DEF EnterFlight
<1>4. Acquire(t) =>
        /\ pc[t] = "acquire" /\ req'[t].key = req[t].key
        /\ \/ pc'[t] = "clock" /\ req'[t].holds
           \/ pc'[t] = "release" /\ req' = req
  BY DEF Acquire
<1>5. ReadClock(t) =>
        /\ pc[t] = "clock" /\ pc'[t] = "take"
        /\ req'[t].key = req[t].key /\ req'[t].holds = req[t].holds
  BY DEF ReadClock
<1>6. TakeBudget(t) =>
        /\ pc[t] = "take" /\ pc'[t] \in {"release", "call"}
        /\ req'[t].key = req[t].key /\ req'[t].holds = req[t].holds
  <2>1. TakeBudget(t) =>
          /\ pc[t] = "take" /\ req' = [req EXCEPT ![t].stamp = 0]
          /\ pc' = [pc EXCEPT ![t] = "release"] \/ pc' = [pc EXCEPT ![t] = "call"]
    BY DEF TakeBudget
  <2>. QED  BY <2>1
<1>7. CallHub(t) =>
        /\ pc[t] = "call" /\ pc'[t] \in {"put", "record"}
        /\ req'[t].key = req[t].key /\ req'[t].holds = req[t].holds
  BY DEF CallHub
<1>8. Record(t) => pc[t] = "record" /\ pc'[t] \in {"put", "release"} /\ req' = req
  BY DEF Record
<1>9. PutCache(t) => pc[t] = "put" /\ pc'[t] = "release" /\ req' = req
  BY DEF PutCache
<1>10. Release(t) =>
         /\ pc[t] = "release" /\ pc'[t] = "discard"
         /\ req'[t].key = req[t].key /\ ~req'[t].holds
  BY DEF Release
<1>11. Discard(t) =>
         /\ pc[t] = "discard" /\ pc'[t] = "idle"
         /\ req'[t].key = req[t].key /\ ~req'[t].holds
  BY DEF Discard, FreshRequest
<1>. QED  BY <1>1, <1>2, <1>3, <1>4, <1>5, <1>6, <1>7, <1>8, <1>9, <1>10, <1>11

\* Every step keeps the labels at which a thread holds a permit.
LEMMA PermitProtocolStep == TypeOK /\ PermitProtocol /\ [Next]_vars => PermitProtocol'
<1> SUFFICES ASSUME TypeOK, PermitProtocol, [Next]_vars
             PROVE  PermitProtocol'
  OBVIOUS
<1>1. ASSUME NEW t \in Threads, Proceed(t) \/ \E k \in Keys : CheckCache(t, k)
      PROVE  PermitProtocol'
  <2>1. \A u \in Threads \ {t} : pc'[u] = pc[u] /\ req'[u] = req[u]
    BY <1>1, OthersUntouched
  <2>2. /\ pc'[t] \in {"clock", "take", "call", "record", "put"} => req'[t].holds
        /\ req'[t].holds => pc'[t] \in {"clock", "take", "call", "record", "put", "release"}
    <3>1. CASE Proceed(t)
      BY <3>1, OwnStep DEF Proceed, PermitProtocol
    <3>2. ASSUME NEW k \in Keys, CheckCache(t, k)
          PROVE  pc'[t] \in {"idle", "breaker"} /\ ~req'[t].holds
      <4>1. pc'[t] \in {"idle", "breaker"} /\ req'[t] = FreshRequest(k)
        BY <3>2, OwnStep
      <4>. QED  BY <4>1 DEF FreshRequest
    <3>. QED  BY <1>1, <3>1, <3>2
  <2>. QED  BY <2>1, <2>2 DEF PermitProtocol
<1>2. CASE Tick \/ UNCHANGED vars
  BY <1>2 DEF Tick, vars, PermitProtocol
<1>. QED  BY <1>1, <1>2 DEF Next

\* The number of holders follows the semaphore through every step.
LEMMA PermitsAddUpStep ==
  TypeOK /\ PermitProtocol /\ PermitsAddUp /\ [Next]_vars => PermitsAddUp'
<1> SUFFICES ASSUME TypeOK, PermitProtocol, PermitsAddUp, [Next]_vars
             PROVE  PermitsAddUp'
  OBVIOUS
<1>1. ASSUME Holders' = Holders, permits' = permits
      PROVE  PermitsAddUp'
  BY <1>1 DEF PermitsAddUp
<1>2. ASSUME NEW t \in Threads, Proceed(t) \/ \E k \in Keys : CheckCache(t, k)
      PROVE  PermitsAddUp'
  <2>1. \A u \in Threads \ {t} : req'[u] = req[u]
    BY <1>2, OthersUntouched
  <2>2. CASE Acquire(t) /\ permits > 0
    <3>1. ~req[t].holds
      BY <2>2 DEF Acquire, PermitProtocol
    <3>2. permits' = permits - 1 /\ req'[t].holds
      BY <2>2 DEF Acquire, TypeOK, Requests
    <3>3. Holders' = Holders \cup {t} /\ t \notin Holders
      BY <2>1, <3>1, <3>2 DEF Holders
    <3>4. Cardinality(Holders') = Cardinality(Holders) + 1
      BY <3>3, HoldersFinite, FS_AddElement
    <3>. QED  BY <3>2, <3>4, HoldersFinite DEF PermitsAddUp, TypeOK
  <2>3. CASE Release(t) /\ req[t].holds
    <3>1. permits' = permits + 1 /\ ~req'[t].holds
      BY <2>3, OwnStep DEF Release
    <3>2. Holders' = Holders \ {t} /\ t \in Holders
      BY <2>1, <2>3, <3>1 DEF Holders
    <3>3. Cardinality(Holders') = Cardinality(Holders) - 1
      BY <3>2, HoldersFinite, FS_RemoveElement
    <3>. QED  BY <3>1, <3>3, HoldersFinite DEF PermitsAddUp, TypeOK
  <2>4. CASE ~(Acquire(t) /\ permits > 0) /\ ~(Release(t) /\ req[t].holds)
    <3>1. permits' = permits
      BY <1>2, <2>4 DEF Proceed, CheckCache, CheckBreaker, EnterFlight, Acquire, ReadClock,
         TakeBudget, CallHub, Record, PutCache, Release, Discard
    <3>2. req'[t].holds <=> req[t].holds
      <4>1. CASE Acquire(t)
        BY <2>4, <4>1 DEF Acquire, TypeOK
      <4>2. CASE Release(t)
        BY <2>4, <4>2, OwnStep
      <4>3. CASE ~Acquire(t) /\ ~Release(t)
        <5>1. CASE Proceed(t)
          BY <4>3, <5>1, OwnStep DEF Proceed, PermitProtocol
        <5>2. ASSUME NEW k \in Keys, CheckCache(t, k)
              PROVE  ~req[t].holds /\ ~req'[t].holds
          <6>1. pc[t] = "idle" /\ req'[t] = FreshRequest(k)
            BY <5>2, OwnStep
          <6>. QED  BY <6>1 DEF FreshRequest, PermitProtocol
        <5>. QED  BY <1>2, <5>1, <5>2
      <4>. QED  BY <4>1, <4>2, <4>3
    <3>3. Holders' = Holders
      BY <2>1, <3>2 DEF Holders
    <3>. QED  BY <1>1, <3>1, <3>3
  <2>. QED  BY <2>2, <2>3, <2>4
<1>3. CASE Tick \/ UNCHANGED vars
  <2>1. req' = req /\ permits' = permits
    BY <1>3 DEF Tick, vars
  <2>. QED  BY <1>1, <2>1 DEF Holders
<1>. QED  BY <1>2, <1>3 DEF Next

-----------------------------------------------------------------------------
(* Single flight.                                                          *)

\* Every step keeps one thread per id in the region, and the in-flight set equal
\* to the ids in the region.
LEMMA SingleFlightStep == TypeOK /\ SingleFlight /\ [Next]_vars => SingleFlight'
<1> SUFFICES ASSUME TypeOK, SingleFlight, [Next]_vars
             PROVE  SingleFlight'
  OBVIOUS
<1> USE DEF SingleFlight
<1>1. ASSUME NEW t \in Threads, Proceed(t) \/ \E k \in Keys : CheckCache(t, k)
      PROVE  SingleFlight'
  <2>1. \A u \in Threads \ {t} : pc'[u] = pc[u] /\ req'[u] = req[u]
    BY <1>1, OthersUntouched
  <2>2. CASE EnterFlight(t) /\ req[t].key \notin inFlight
    <3>1. InRegion' = InRegion \cup {t} /\ t \notin InRegion
      BY <2>1, <2>2 DEF EnterFlight, Goto, InRegion, TypeOK
    <3>2. req' = req /\ inFlight' = inFlight \cup {req[t].key}
      BY <2>2 DEF EnterFlight
    <3>. QED  BY <2>2, <3>1, <3>2
  <2>3. CASE Discard(t)
    <3>1. InRegion' = InRegion \ {t} /\ t \in InRegion
      BY <2>1, <2>3, OwnStep DEF Discard, InRegion
    <3>2. inFlight' = inFlight \ {req[t].key}
      BY <2>3 DEF Discard
    <3>3. \A u \in InRegion' : req'[u] = req[u]
      BY <2>1, <3>1 DEF InRegion
    <3>. QED  BY <3>1, <3>2, <3>3
  <2>4. CASE ~(EnterFlight(t) /\ req[t].key \notin inFlight) /\ ~Discard(t)
    <3>1. inFlight' = inFlight
      BY <1>1, <2>4 DEF Proceed, CheckCache, CheckBreaker, EnterFlight, Acquire, ReadClock,
         TakeBudget, CallHub, Record, PutCache, Release, Discard
    <3>2. /\ t \in InRegion' <=> t \in InRegion
          /\ t \in InRegion => req'[t].key = req[t].key
      <4>1. CASE EnterFlight(t)
        BY <2>4, <4>1 DEF EnterFlight, Goto, InRegion, TypeOK
      <4>2. CASE ~EnterFlight(t)
        BY <1>1, <2>4, <4>2, OwnStep DEF Proceed, InRegion
      <4>. QED  BY <4>1, <4>2
    <3>3. InRegion' = InRegion
      BY <2>1, <3>2 DEF InRegion
    <3>4. \A u \in InRegion : req'[u].key = req[u].key
      BY <2>1, <3>2 DEF InRegion
    <3>. QED  BY <3>1, <3>3, <3>4
  <2>. QED  BY <2>2, <2>3, <2>4
<1>2. CASE Tick \/ UNCHANGED vars
  BY <1>2 DEF Tick, vars, InRegion
<1>. QED  BY <1>1, <1>2 DEF Next

-----------------------------------------------------------------------------
(* Budget, breaker and cache.                                              *)

\* Only a token that the live stamps leave room for enters the deque.
LEMMA WindowStep == TypeOK /\ WindowWithinBudget /\ [Next]_vars => WindowWithinBudget'
<1> SUFFICES ASSUME TypeOK, WindowWithinBudget, [Next]_vars
             PROVE  WindowWithinBudget'
  OBVIOUS
<1>1. ASSUME NEW t \in Threads, TakeBudget(t)
      PROVE  WindowWithinBudget'
  <2>1. PICK i \in 0 .. Len(window) :
          LET live == SubSeq(window, i + 1, Len(window))
          IN window' = live \/ (Affordable(live) /\ window' = Append(live, req[t].stamp))
    BY <1>1 DEF TakeBudget
  <2> DEFINE live == SubSeq(window, i + 1, Len(window))
  <2>2. /\ live \in Seq(Times) /\ Len(live) <= Len(window)
        /\ Len(window) \in Nat /\ Len(live) \in Nat /\ Budget \in Nat
    BY SuffixType, LenProperties, LimitsAssumption DEF TypeOK
  <2>3. CASE window' = live
    BY <2>2, <2>3 DEF WindowWithinBudget
  <2>4. CASE Affordable(live) /\ window' = Append(live, req[t].stamp)
    <3>1. Len(window') = Len(live) + 1
      BY <2>2, <2>4
    <3>. QED  BY <2>2, <2>4, <3>1 DEF WindowWithinBudget, Affordable
  <2>. QED  BY <2>1, <2>3, <2>4
<1>2. ASSUME window' = window
      PROVE  WindowWithinBudget'
  BY <1>2 DEF WindowWithinBudget
<1>3. ASSUME NEW t \in Threads, Proceed(t), ~TakeBudget(t)
      PROVE  window' = window
  BY <1>3 DEF Proceed, CheckBreaker, EnterFlight, Acquire, ReadClock, CallHub, Record,
     PutCache, Release, Discard
<1>4. ASSUME NEW t \in Threads, NEW k \in Keys, CheckCache(t, k)
      PROVE  window' = window
  BY <1>4 DEF CheckCache
<1>. QED  BY <1>1, <1>2, <1>3, <1>4 DEF Next, Tick, vars

\* The recent stamps of a deque are finitely many, at most its length.
LEMMA RecentFinite ==
  ASSUME NEW w \in Seq(Times), NEW s \in Times
  PROVE  /\ IsFiniteSet(Recent(w, s)) /\ Cardinality(Recent(w, s)) \in Nat
         /\ Cardinality(Recent(w, s)) <= Len(w)
<1>1. Len(w) \in Nat /\ DOMAIN w = 1 .. Len(w)
  BY LenProperties
<1>2. IsFiniteSet(1 .. Len(w)) /\ Cardinality(1 .. Len(w)) = Len(w)
  BY <1>1, FS_Interval
<1>3. Recent(w, s) \in SUBSET (1 .. Len(w))
  BY <1>1 DEF Recent
<1>. QED  BY <1>2, <1>3, FS_Subset, FS_CardinalityType

\* Popping stamps older than s loses no recent one.
LEMMA RecentSuffix ==
  ASSUME NEW w \in Seq(Times), NEW s \in Times, NEW e \in 0 .. Len(w),
         \A j \in 1 .. e : w[j] < s
  PROVE  Cardinality(Recent(w, s)) <= Cardinality(Recent(SubSeq(w, e + 1, Len(w)), s))
<1> DEFINE r == SubSeq(w, e + 1, Len(w))
           f == [i \in Recent(w, s) |-> i - e]
<1>1. Len(w) \in Nat /\ e \in Nat /\ DOMAIN w = 1 .. Len(w)
  BY LenProperties
<1>2. /\ r \in Seq(Times) /\ DOMAIN r = 1 .. Len(w) - e
      /\ \A j \in 1 .. Len(w) - e : r[j] = w[e + j]
  BY SuffixElements
<1>3. \A j \in 1 .. Len(w) : w[j] \in Times
  BY ElementOfSeq
<1>4. ASSUME NEW i \in Recent(w, s)
      PROVE  i - e \in Recent(r, s)
  <2>1. i \in 1 .. Len(w) /\ s <= w[i]
    BY <1>1 DEF Recent
  <2>2. i \notin 1 .. e
    BY <1>3, <2>1, LimitsAssumption DEF Times
  <2>3. i - e \in 1 .. Len(w) - e /\ e + (i - e) = i
    BY <1>1, <2>1, <2>2
  <2>4. r[i - e] = w[i]
    BY <1>2, <2>3
  <2>. QED  BY <1>2, <2>1, <2>3, <2>4 DEF Recent
<1>5. Recent(w, s) \subseteq Int
  BY <1>1 DEF Recent
<1>6. f \in Injection(Recent(w, s), Recent(r, s))
  BY <1>1, <1>4, <1>5 DEF Injection, IsInjective
<1>7. IsFiniteSet(Recent(r, s))
  BY <1>2, RecentFinite
<1>. QED  BY <1>6, <1>7, FS_Injection

\* A new stamp counts when it is recent.
LEMMA RecentAppend ==
  ASSUME NEW w \in Seq(Times), NEW s \in Times, NEW x \in Times
  PROVE  Cardinality(Recent(Append(w, x), s))
           = IF s <= x THEN Cardinality(Recent(w, s)) + 1 ELSE Cardinality(Recent(w, s))
<1>1. Len(w) \in Nat /\ DOMAIN w = 1 .. Len(w)
  BY LenProperties
<1>2. /\ DOMAIN Append(w, x) = 1 .. Len(w) + 1
      /\ \A i \in 1 .. Len(w) : Append(w, x)[i] = w[i]
      /\ Append(w, x)[Len(w) + 1] = x
  BY <1>1, AppendProperties, LenProperties
<1>3. Recent(Append(w, x), s)
        = IF s <= x THEN Recent(w, s) \cup {Len(w) + 1} ELSE Recent(w, s)
  BY <1>1, <1>2 DEF Recent
<1>4. Len(w) + 1 \notin Recent(w, s)
  BY <1>1 DEF Recent
<1>. QED  BY <1>3, <1>4, RecentFinite, FS_AddElement

\* The late threads hold permits, so there are no more of them than permits.
LEMMA LateCapped ==
  ASSUME TypeOK, PermitProtocol, PermitsAddUp, NEW s
  PROVE  /\ IsFiniteSet(Late(s)) /\ Cardinality(Late(s)) \in Nat
         /\ Cardinality(Late(s)) <= MaxConcurrent
<1>1. Late(s) \in SUBSET Holders
  BY DEF Late, Holders, PermitProtocol
<1>2. /\ IsFiniteSet(Late(s)) /\ Cardinality(Late(s)) \in Nat
      /\ Cardinality(Late(s)) <= Cardinality(Holders)
  BY <1>1, HoldersFinite, FS_Subset, FS_CardinalityType
<1>. QED  BY <1>2, HoldersFinite, LimitsAssumption DEF TypeOK, PermitsAddUp

\* The tokens of a window are finitely many.
LEMMA TokensFinite ==
  ASSUME TypeOK, NEW s \in Times
  PROVE  /\ IsFiniteSet(TokensWithin(s)) /\ Cardinality(TokensWithin(s)) \in Nat
         /\ TokensWithin(s) \subseteq 1 .. Len(taken)
<1>1. Len(taken) \in Nat /\ DOMAIN taken = 1 .. Len(taken)
  BY LenProperties DEF TypeOK
<1>2. IsFiniteSet(1 .. Len(taken))
  BY <1>1, FS_Interval
<1>3. TokensWithin(s) \in SUBSET (1 .. Len(taken))
  BY <1>1 DEF TokensWithin
<1>. QED  BY <1>2, <1>3, FS_Subset, FS_CardinalityType

\* A token taken now counts in the windows that are open now.
LEMMA TokensAppend ==
  ASSUME TypeOK, NEW s \in Times, taken' = Append(taken, now)
  PROVE  Cardinality(TokensWithin(s)')
           = IF s <= now /\ now < s + Window THEN Cardinality(TokensWithin(s)) + 1
             ELSE Cardinality(TokensWithin(s))
<1>1. taken \in Seq(Times) /\ Len(taken) \in Nat /\ DOMAIN taken = 1 .. Len(taken)
  BY LenProperties DEF TypeOK
<1>2. /\ DOMAIN taken' = 1 .. Len(taken) + 1
      /\ \A i \in 1 .. Len(taken) : taken'[i] = taken[i]
      /\ taken'[Len(taken) + 1] = now
  BY <1>1, AppendProperties, LenProperties DEF TypeOK
<1>3. TokensWithin(s)'
        = IF s <= now /\ now < s + Window THEN TokensWithin(s) \cup {Len(taken) + 1}
          ELSE TokensWithin(s)
  BY <1>1, <1>2 DEF TokensWithin
<1>4. Len(taken) + 1 \notin TokensWithin(s)
  BY <1>1, TokensFinite
<1>. QED  BY <1>3, <1>4, TokensFinite, FS_AddElement

\* What a step of a thread does to the stamps on their way to the lock: a token
\* is taken, or refused, with the oldest stamps popped; the clock is read; or
\* neither the tokens nor the late threads change.
LEMMA StampStep ==
  ASSUME TypeOK, NEW t \in Threads, Proceed(t) \/ \E k \in Keys : CheckCache(t, k)
  PROVE  \/ TakeBudget(t)
         \/ /\ now' = now /\ taken' = taken /\ window' = window
            /\ pc[t] # "take"
            /\ pc'[t] = "take" => req'[t].stamp = now
<1>1. CASE TakeBudget(t)
  BY <1>1
<1>2. CASE ReadClock(t)
  BY <1>2 DEF ReadClock, Goto, TypeOK, Requests
<1>3. CASE ~TakeBudget(t) /\ ~ReadClock(t)
  <2>1. now' = now /\ taken' = taken /\ window' = window
    BY <1>3 DEF Proceed, CheckCache, CheckBreaker, EnterFlight, Acquire, CallHub, Record,
       PutCache, Release, Discard
  <2>2. pc[t] # "take" /\ pc'[t] # "take"
    BY <1>3, OwnStep DEF Proceed
  <2>. QED  BY <2>1, <2>2
<1>. QED  BY <1>1, <1>2, <1>3

\* A step at the lock: what it pops has expired at its stamp, and it leaves for
\* the call or for the release.
LEMMA TakeStep ==
  ASSUME TypeOK, NEW t \in Threads, TakeBudget(t)
  PROVE  /\ now' = now /\ pc[t] = "take" /\ pc'[t] # "take"
         /\ \E e \in 0 .. Len(window) :
              /\ \A j \in 1 .. e : window[j] + Window <= req[t].stamp
              /\ LET live == SubSeq(window, e + 1, Len(window)) IN
                 \/ window' = live /\ taken' = taken
                 \/ window' = Append(live, req[t].stamp) /\ taken' = Append(taken, now)
<1>1. now' = now /\ pc[t] = "take" /\ pc'[t] # "take"
  <2>1. pc[t] = "take" /\ pc'[t] \in {"release", "call"}
    BY OwnStep
  <2>. QED  BY <2>1 DEF TakeBudget
<1>2. PICK e \in 0 .. Len(window) :
        /\ Expires(e, req[t].stamp)
        /\ LET live == SubSeq(window, e + 1, Len(window)) IN
           \/ window' = live /\ taken' = taken
           \/ window' = Append(live, req[t].stamp) /\ taken' = Append(taken, now)
  BY DEF TakeBudget
<1>3. \A j \in 1 .. e : window[j] + Window <= req[t].stamp
  BY <1>2 DEF Expires
<1>. QED  BY <1>1, <1>2, <1>3

\* No step brings a stamp or a token of the future.
LEMMA StampsPastStep == TypeOK /\ StampsPast /\ [Next]_vars => StampsPast'
<1> SUFFICES ASSUME TypeOK, StampsPast, [Next]_vars
             PROVE  StampsPast'
  OBVIOUS
<1>0. now \in Nat /\ taken \in Seq(Times)
      /\ Len(taken) \in Nat /\ DOMAIN taken = 1 .. Len(taken)
  BY LenProperties, LimitsAssumption DEF TypeOK, Times
<1>1. ASSUME NEW t \in Threads, Proceed(t) \/ \E k \in Keys : CheckCache(t, k)
      PROVE  StampsPast'
  <2>1. \A u \in Threads \ {t} : pc'[u] = pc[u] /\ req'[u] = req[u]
    BY <1>1, OthersUntouched
  <2>2. CASE TakeBudget(t)
    <3>1. /\ now' = now /\ pc'[t] # "take"
          /\ taken' = taken \/ taken' = Append(taken, now)
      BY <2>2, TakeStep
    <3>2. \A i \in DOMAIN taken' : taken'[i] <= now
      <4>1. CASE taken' = taken
        BY <4>1 DEF StampsPast
      <4>2. CASE taken' = Append(taken, now)
        <5>1. /\ DOMAIN taken' = 1 .. Len(taken) + 1
              /\ \A i \in 1 .. Len(taken) : taken'[i] = taken[i]
              /\ taken'[Len(taken) + 1] = now
          BY <1>0, <4>2, AppendProperties, LenProperties DEF TypeOK
        <5>. QED  BY <1>0, <5>1 DEF StampsPast
      <4>. QED  BY <3>1, <4>1, <4>2
    <3>. QED  BY <2>1, <3>1, <3>2 DEF StampsPast
  <2>3. CASE ~TakeBudget(t)
    <3>1. now' = now /\ taken' = taken /\ (pc'[t] = "take" => req'[t].stamp = now)
      BY <1>1, <2>3, StampStep
    <3>. QED  BY <1>0, <2>1, <3>1 DEF StampsPast
  <2>. QED  BY <2>2, <2>3
<1>2. CASE Tick
  <2>1. now' = now + 1 /\ taken' = taken /\ pc' = pc /\ req' = req
    BY <1>2 DEF Tick
  <2>2. \A t \in Threads : req[t].stamp \in Nat
    BY LimitsAssumption DEF TypeOK, Requests, Times
  <2>3. \A i \in DOMAIN taken : taken[i] \in Nat
    BY <1>0, ElementOfSeq, LimitsAssumption DEF Times
  <2>. QED  BY <1>0, <2>1, <2>2, <2>3 DEF StampsPast
<1>3. CASE UNCHANGED vars
  BY <1>3 DEF vars, StampsPast
<1>. QED  BY <1>1, <1>2, <1>3 DEF Next

\* Every step keeps the ledger of the open windows.
LEMMA LedgerStep ==
  TypeOK /\ PermitProtocol /\ PermitsAddUp /\ StampsPast /\ OvershootLedger /\ [Next]_vars
    => OvershootLedger'
<1> SUFFICES ASSUME TypeOK, PermitProtocol, PermitsAddUp, StampsPast, OvershootLedger,
                    [Next]_vars, NEW s \in Times, s <= now', now' < s + Window
             PROVE  Cardinality(TokensWithin(s)') + Cardinality(Late(s)')
                      <= Cardinality(Recent(window', s)) + MaxConcurrent
  BY DEF OvershootLedger
<1>0. /\ now \in Nat /\ s \in Nat /\ Window \in Nat /\ MaxConcurrent \in Nat
      /\ window \in Seq(Times)
  BY LimitsAssumption DEF TypeOK, Times
<1>1. /\ Cardinality(TokensWithin(s)) \in Nat /\ Cardinality(Recent(window, s)) \in Nat
      /\ IsFiniteSet(Late(s)) /\ Cardinality(Late(s)) \in Nat
      /\ Cardinality(Late(s)) <= MaxConcurrent
  BY <1>0, TokensFinite, RecentFinite, LateCapped
<1>2. s <= now => Cardinality(TokensWithin(s)) + Cardinality(Late(s))
                    <= Cardinality(Recent(window, s)) + MaxConcurrent
  <2>1. now' = now \/ now' = now + 1
    BY DEF Next, Tick, vars, Proceed, CheckCache, CheckBreaker, EnterFlight, Acquire, ReadClock,
       TakeBudget, CallHub, Record, PutCache, Release, Discard
  <2>2. now < s + Window
    BY <1>0, <2>1
  <2>. QED  BY <2>2 DEF OvershootLedger
<1>3. ASSUME now' = now, taken' = taken, window' = window, Late(s)' = Late(s)
      PROVE  Cardinality(TokensWithin(s)') + Cardinality(Late(s)')
               <= Cardinality(Recent(window', s)) + MaxConcurrent
  <2>1. TokensWithin(s)' = TokensWithin(s)
    BY <1>3 DEF TokensWithin
  <2>. QED  BY <1>2, <1>3, <2>1
<1>4. ASSUME NEW t \in Threads, Proceed(t) \/ \E k \in Keys : CheckCache(t, k), ~TakeBudget(t)
      PROVE  /\ now' = now /\ taken' = taken /\ window' = window
             /\ Late(s)' = Late(s)
  <2>1. \A u \in Threads \ {t} : pc'[u] = pc[u] /\ req'[u] = req[u]
    BY <1>4, OthersUntouched
  <2>2. /\ now' = now /\ taken' = taken /\ window' = window /\ pc[t] # "take"
        /\ pc'[t] = "take" => req'[t].stamp = now
    BY <1>4, StampStep
  <2>3. t \notin Late(s) /\ t \notin Late(s)'
    BY <1>0, <2>2 DEF Late
  <2>. QED  BY <2>1, <2>2, <2>3 DEF Late
<1>5. ASSUME NEW t \in Threads, TakeBudget(t)
      PROVE  Cardinality(TokensWithin(s)') + Cardinality(Late(s)')
               <= Cardinality(Recent(window', s)) + MaxConcurrent
  <2>1. \A u \in Threads \ {t} : pc'[u] = pc[u] /\ req'[u] = req[u]
    BY <1>5, OthersUntouched DEF Proceed
  <2>2. now' = now /\ pc[t] = "take" /\ pc'[t] # "take"
    BY <1>5, TakeStep
  <2>3. Late(s)' = Late(s) \ {t}
    BY <2>1, <2>2 DEF Late
  <2>4. req[t].stamp \in Times /\ req[t].stamp \in Nat /\ req[t].stamp <= now
    BY <2>2, LimitsAssumption DEF TypeOK, Requests, Times, StampsPast
  <2>5. PICK e \in 0 .. Len(window) :
          /\ \A j \in 1 .. e : window[j] + Window <= req[t].stamp
          /\ LET live == SubSeq(window, e + 1, Len(window)) IN
             \/ window' = live /\ taken' = taken
             \/ window' = Append(live, req[t].stamp) /\ taken' = Append(taken, now)
    BY <1>5, TakeStep
  <2> DEFINE live == SubSeq(window, e + 1, Len(window))
  <2>6. live \in Seq(Times)
    BY <1>0, SuffixElements
  <2>7. \A j \in 1 .. e : window[j] < s
    <3>1. \A j \in 1 .. Len(window) : window[j] \in Nat
      BY <1>0, ElementOfSeq, LimitsAssumption DEF Times
    <3>2. Len(window) \in Nat
      BY <1>0, LenProperties
    <3>. QED  BY <1>0, <2>2, <2>4, <2>5, <3>1, <3>2
  <2>8. /\ Cardinality(Recent(window, s)) <= Cardinality(Recent(live, s))
        /\ Cardinality(Recent(live, s)) \in Nat
    BY <1>0, <2>6, <2>7, RecentSuffix, RecentFinite
  <2>9. Cardinality(Late(s)') = IF t \in Late(s) THEN Cardinality(Late(s)) - 1
                                ELSE Cardinality(Late(s))
    BY <1>1, <2>3, FS_RemoveElement
  <2>10. CASE window' = live /\ taken' = taken
    <3>1. TokensWithin(s)' = TokensWithin(s)
      BY <2>10 DEF TokensWithin
    <3>2. Recent(window', s) = Recent(live, s)
      BY <2>10
    <3>. QED  BY <1>0, <1>1, <1>2, <2>2, <2>8, <2>9, <3>1, <3>2
  <2>11. CASE window' = Append(live, req[t].stamp) /\ taken' = Append(taken, now)
    <3>1. Cardinality(TokensWithin(s)') = Cardinality(TokensWithin(s)) + 1
      BY <2>2, <2>11, TokensAppend
    <3>2. Cardinality(Recent(window', s))
            = IF s <= req[t].stamp THEN Cardinality(Recent(live, s)) + 1
              ELSE Cardinality(Recent(live, s))
      BY <2>4, <2>6, <2>11, RecentAppend
    <3>3. t \in Late(s) <=> ~(s <= req[t].stamp)
      BY <1>0, <2>2, <2>4 DEF Late
    <3>. QED  BY <1>0, <1>1, <1>2, <2>2, <2>8, <2>9, <3>1, <3>2, <3>3
  <2> HIDE DEF live
  <2>. QED  BY <2>5, <2>10, <2>11 DEF live
<1>6. CASE Tick
  <2>1. /\ now' = now + 1 /\ taken' = taken /\ window' = window
        /\ pc' = pc /\ req' = req
    BY <1>6 DEF Tick
  <2>2. Late(s)' = Late(s) /\ TokensWithin(s)' = TokensWithin(s)
    BY <2>1 DEF Late, TokensWithin
  <2>3. CASE s <= now
    BY <1>2, <2>1, <2>2, <2>3
  <2>4. CASE ~(s <= now)
    <3>1. TokensWithin(s) = {}
      <4>1. \A i \in DOMAIN taken : taken[i] \in Nat
        BY ElementOfSeq, LenProperties, LimitsAssumption DEF Times, TypeOK
      <4>. QED  BY <1>0, <2>4, <4>1 DEF TokensWithin, StampsPast
    <3>2. Cardinality(TokensWithin(s)) = 0
      BY <3>1, FS_EmptySet
    <3>. QED  BY <1>0, <1>1, <2>1, <2>2, <3>2
  <2>. QED  BY <2>3, <2>4
<1>7. CASE UNCHANGED vars
  <2>1. now' = now /\ taken' = taken /\ window' = window /\ Late(s)' = Late(s)
    BY <1>7 DEF vars, Late
  <2>. QED  BY <1>3, <2>1
<1>8. ASSUME NEW t \in Threads, Proceed(t) \/ \E k \in Keys : CheckCache(t, k)
      PROVE  Cardinality(TokensWithin(s)') + Cardinality(Late(s)')
               <= Cardinality(Recent(window', s)) + MaxConcurrent
  <2>1. CASE TakeBudget(t)
    BY <2>1, <1>5
  <2>2. CASE ~TakeBudget(t)
    <3>1. now' = now /\ taken' = taken /\ window' = window /\ Late(s)' = Late(s)
      BY <1>4, <1>8, <2>2
    <3>. QED  BY <1>3, <3>1
  <2>. QED  BY <2>1, <2>2
<1>. QED  BY <1>6, <1>7, <1>8 DEF Next

\* The ledger bounds the windows that are open, and a closed one keeps its count.
LEMMA OvershootStep ==
  TypeOK /\ WindowWithinBudget' /\ TypeOK' /\ OvershootLedger' /\ PermitProtocol'
    /\ PermitsAddUp' /\ BudgetOvershootBounded /\ [Next]_vars
      => BudgetOvershootBounded'
<1> SUFFICES ASSUME TypeOK, WindowWithinBudget', TypeOK', OvershootLedger', PermitProtocol',
                    PermitsAddUp', BudgetOvershootBounded, [Next]_vars, NEW s \in Times
             PROVE  Cardinality(TokensWithin(s)') <= Budget + MaxConcurrent
  BY DEF BudgetOvershootBounded
<1>0. /\ Budget \in Nat /\ MaxConcurrent \in Nat /\ window' \in Seq(Times)
      /\ Cardinality(TokensWithin(s)) <= Budget + MaxConcurrent
  BY LimitsAssumption DEF TypeOK, BudgetOvershootBounded
<1>1. taken' = taken \/ (taken' = Append(taken, now) /\ now' = now)
  <2>1. ASSUME NEW t \in Threads, Proceed(t) \/ \E k \in Keys : CheckCache(t, k)
        PROVE  taken' = taken \/ (taken' = Append(taken, now) /\ now' = now)
    BY <2>1, StampStep, TakeStep
  <2>. QED  BY <2>1 DEF Next, Tick, vars
<1>2. CASE taken' = taken
  <2>1. TokensWithin(s)' = TokensWithin(s)
    BY <1>2 DEF TokensWithin
  <2>. QED  BY <1>0, <2>1
<1>3. CASE taken' = Append(taken, now) /\ now' = now /\ ~(s <= now /\ now < s + Window)
  BY <1>0, <1>3, TokensAppend
<1>4. CASE now' = now /\ s <= now /\ now < s + Window
  <2>1. Cardinality(TokensWithin(s)') + Cardinality(Late(s)')
          <= Cardinality(Recent(window', s)) + MaxConcurrent
    BY <1>4 DEF OvershootLedger
  <2>2. Cardinality(Recent(window', s)) <= Budget /\ Cardinality(Recent(window', s)) \in Nat
    <3>1. /\ Cardinality(Recent(window', s)) \in Nat
          /\ Cardinality(Recent(window', s)) <= Len(window')
      BY <1>0, RecentFinite
    <3>2. Len(window') \in Nat /\ Len(window') <= Budget
      BY <1>0, LenProperties DEF WindowWithinBudget
    <3>. QED  BY <1>0, <3>1, <3>2
  <2>3. Cardinality(Late(s)') \in Nat
    <3>1. Late(s)' \in SUBSET Threads
      BY DEF Late
    <3>. QED  BY <3>1, ThreadsAssumption, FS_Subset, FS_CardinalityType
  <2>4. Cardinality(TokensWithin(s)') \in Nat
    <3>1. Len(taken') \in Nat /\ DOMAIN taken' = 1 .. Len(taken')
      BY LenProperties DEF TypeOK
    <3>2. TokensWithin(s)' \in SUBSET (1 .. Len(taken'))
      BY <3>1 DEF TokensWithin
    <3>3. IsFiniteSet(1 .. Len(taken'))
      BY <3>1, FS_Interval
    <3>. QED  BY <3>2, <3>3, FS_Subset, FS_CardinalityType
  <2>. QED  BY <1>0, <2>1, <2>2, <2>3, <2>4
<1>. QED  BY <1>1, <1>2, <1>3, <1>4

\* The breaker only ever moves forward, and never past the cooldown.
LEMMA BreakerStep ==
  TypeOK /\ OpensWithinCooldown /\ [Next]_vars =>
    OpensWithinCooldown' /\ breaker.openUntil <= breaker'.openUntil
<1> SUFFICES ASSUME TypeOK, OpensWithinCooldown, [Next]_vars
             PROVE  OpensWithinCooldown' /\ breaker.openUntil <= breaker'.openUntil
  OBVIOUS
<1>1. /\ breaker \in [failures : 0 .. BreakerThreshold - 1, openUntil : Nat]
      /\ now \in Nat /\ BreakerCooldown \in Nat
  BY LimitsAssumption DEF TypeOK, Times
<1>2. ASSUME NEW t \in Threads, Record(t)
      PROVE  OpensWithinCooldown' /\ breaker.openUntil <= breaker'.openUntil
  <2>1. now' = now /\ breaker' = BreakerAfter(req[t].outcome)
    BY <1>2 DEF Record
  <2>2. \/ breaker'.openUntil = breaker.openUntil
        \/ breaker'.openUntil = now + BreakerCooldown
    BY <1>1, <2>1 DEF BreakerAfter
  <2>. QED  BY <1>1, <2>1, <2>2 DEF OpensWithinCooldown
<1>3. ASSUME breaker' = breaker, now' = now \/ now' = now + 1
      PROVE  OpensWithinCooldown' /\ breaker.openUntil <= breaker'.openUntil
  BY <1>1, <1>3 DEF OpensWithinCooldown
<1>4. ASSUME NEW t \in Threads, Proceed(t), ~Record(t)
      PROVE  breaker' = breaker /\ now' = now
  BY <1>4 DEF Proceed, CheckBreaker, EnterFlight, Acquire, ReadClock, TakeBudget, CallHub,
     PutCache, Release, Discard
<1>5. ASSUME NEW t \in Threads, NEW k \in Keys, CheckCache(t, k)
      PROVE  breaker' = breaker /\ now' = now
  BY <1>5 DEF CheckCache
<1>. QED  BY <1>2, <1>3, <1>4, <1>5 DEF Next, Tick, vars

\* A put never replaces an answer by an older one: its thread is the only one
\* in the region for its key, so the cached answer is not newer than its own.
LEMMA CacheStep ==
  TypeOK /\ SingleFlight /\ AnswersInOrder /\ [Next]_vars =>
    /\ AnswersInOrder'
    /\ \A k \in Keys : Cached(k) /\ cache'[k].kind # "none" => cache[k].asOf <= cache'[k].asOf
<1> SUFFICES ASSUME TypeOK, SingleFlight, AnswersInOrder, [Next]_vars
             PROVE  /\ AnswersInOrder'
                    /\ \A k \in Keys : Cached(k) /\ cache'[k].kind # "none" =>
                         cache[k].asOf <= cache'[k].asOf
  OBVIOUS
<1>1. /\ now \in Nat /\ cache \in [Keys -> Entries]
      /\ req \in [Threads -> Requests] /\ pc \in [Threads -> Labels]
      /\ \A k \in Keys : cache[k].asOf \in Nat
      /\ \A t \in Threads : req[t].asOf \in Nat /\ req[t].key \in Keys
  BY LimitsAssumption DEF TypeOK, Times, Entries, Requests
<1>2. ASSUME NEW t \in Threads, PutCache(t)
      PROVE  /\ AnswersInOrder'
             /\ \A k \in Keys : Cached(k) /\ cache'[k].kind # "none" =>
                  cache[k].asOf <= cache'[k].asOf
  <2>1. /\ now' = now /\ req' = req /\ pc' = [pc EXCEPT ![t] = "release"]
        /\ pc[t] = "put" /\ cache'[req[t].key] = EntryFor(req[t])
        /\ \A k \in Keys \ {req[t].key} : cache'[k] = NoEntry \/ cache'[k] = cache[k]
    BY <1>1, <1>2 DEF PutCache, Goto
  <2>2. EntryFor(req[t]).asOf = req[t].asOf
    BY DEF EntryFor
  <2>3. /\ cache[req[t].key].asOf <= req[t].asOf /\ req[t].asOf <= now
        /\ \A k \in Keys : cache[k].asOf <= now
    BY <2>1 DEF AnswersInOrder
  <2>4. NoEntry.asOf = 0 /\ NoEntry.kind = "none"
    BY DEF NoEntry
  <2>5. \A k \in Keys : cache'[k].asOf <= now
    BY <1>1, <2>1, <2>2, <2>3, <2>4
  <2>6. \A u \in Threads : pc'[u] \in {"record", "put"} =>
          cache'[req[u].key].asOf <= req[u].asOf /\ req[u].asOf <= now
    <3> SUFFICES ASSUME NEW u \in Threads, pc'[u] \in {"record", "put"}
                 PROVE  cache'[req[u].key].asOf <= req[u].asOf /\ req[u].asOf <= now
      OBVIOUS
    <3>1. u # t /\ pc[u] \in {"record", "put"}
      BY <1>1, <2>1
    <3>2. req[u].key # req[t].key
      BY <2>1, <3>1 DEF SingleFlight, InRegion
    <3>3. cache[req[u].key].asOf <= req[u].asOf /\ req[u].asOf <= now
      BY <3>1 DEF AnswersInOrder
    <3>. QED  BY <1>1, <2>1, <2>4, <3>2, <3>3
  <2>7. \A k \in Keys : Cached(k) /\ cache'[k].kind # "none" => cache[k].asOf <= cache'[k].asOf
    BY <1>1, <2>1, <2>2, <2>3, <2>4
  <2>. QED  BY <2>1, <2>5, <2>6, <2>7 DEF AnswersInOrder
<1>3. ASSUME NEW t \in Threads, CallHub(t)
      PROVE  /\ AnswersInOrder' /\ cache' = cache
  <2>1. /\ now' = now /\ cache' = cache
        /\ req'[t].asOf = now /\ req'[t].key = req[t].key
    BY <1>1, <1>3 DEF CallHub, Requests
  <2>2. \A u \in Threads \ {t} : pc'[u] = pc[u] /\ req'[u] = req[u]
    BY <1>3, OthersUntouched DEF Proceed
  <2>. QED  BY <1>1, <2>1, <2>2 DEF AnswersInOrder
<1>4. ASSUME NEW t \in Threads, NEW k \in Keys, CheckCache(t, k)
      PROVE  /\ AnswersInOrder'
             /\ \A c \in Keys : cache'[c] = cache[c] \/ cache'[c].kind = "none"
  <2>1. /\ now' = now /\ cache' = [cache EXCEPT ![k] = NoEntry]
        /\ pc'[t] \in {"idle", "breaker"}
    BY <1>4, OwnStep DEF CheckCache
  <2>2. \A u \in Threads \ {t} : pc'[u] = pc[u] /\ req'[u] = req[u]
    BY <1>4, OthersUntouched
  <2>3. NoEntry.asOf = 0 /\ NoEntry.kind = "none"
    BY DEF NoEntry
  <2>4. \A c \in Keys : cache'[c] = cache[c] \/ cache'[c] = NoEntry
    BY <1>1, <2>1
  <2>5. \A c \in Keys : cache'[c].asOf <= now
    BY <1>1, <2>3, <2>4 DEF AnswersInOrder
  <2>6. \A u \in Threads : pc'[u] \in {"record", "put"} =>
          cache'[req'[u].key].asOf <= req'[u].asOf /\ req'[u].asOf <= now
    BY <1>1, <2>1, <2>2, <2>3, <2>4 DEF AnswersInOrder
  <2>. QED  BY <2>1, <2>3, <2>4, <2>5, <2>6 DEF AnswersInOrder
<1>5. ASSUME NEW t \in Threads, Proceed(t), ~PutCache(t), ~CallHub(t)
      PROVE  AnswersInOrder' /\ cache' = cache
  <2>1. cache' = cache /\ now' = now
    BY <1>5 DEF Proceed, CheckBreaker, EnterFlight, Acquire, ReadClock, TakeBudget, Record,
       Release, Discard
  <2>2. \A u \in Threads \ {t} : pc'[u] = pc[u] /\ req'[u] = req[u]
    BY <1>5, OthersUntouched
  <2>3. pc'[t] \in {"record", "put"} => pc[t] \in {"record", "put"} /\ req'[t] = req[t]
    BY <1>5, OwnStep DEF Proceed
  <2>. QED  BY <2>1, <2>2, <2>3 DEF AnswersInOrder
<1>6. CASE Tick \/ UNCHANGED vars
  <2>1. cache' = cache /\ req' = req /\ pc' = pc /\ (now' = now \/ now' = now + 1)
    BY <1>6 DEF Tick, vars
  <2>. QED  BY <1>1, <2>1 DEF AnswersInOrder
<1>. QED  BY <1>1, <1>2, <1>3, <1>4, <1>5, <1>6 DEF Next

\* Every step keeps the dict and its insertion order in agreement, and within
\* the cap: a put that meets the cap evicts before it stores.
LEMMA CacheCappedStep == TypeOK /\ CacheCapped /\ [Next]_vars => CacheCapped'
<1> SUFFICES ASSUME TypeOK, CacheCapped, [Next]_vars
             PROVE  CacheCapped'
  OBVIOUS
<1> DEFINE n == Len(order)
<1>1. /\ n \in Nat /\ DOMAIN order = 1 .. n /\ n <= MaxCache
      /\ order \in Seq(Keys) /\ \A j \in 1 .. n : order[j] \in Keys
      /\ \A a, b \in 1 .. n : order[a] = order[b] => a = b
      /\ cache \in [Keys -> Entries] /\ MaxCache \in Nat
  BY LenProperties, ElementOfSeq, LimitsAssumption DEF TypeOK, CacheCapped
<1>2. \A k \in Keys : Cached(k) <=> \E j \in 1 .. n : order[j] = k
  BY <1>1 DEF CacheCapped
<1>3. ASSUME NEW t \in Threads, NEW k \in Keys, CheckCache(t, k)
      PROVE  CacheCapped'
  <2>1. cache' = [cache EXCEPT ![k] = NoEntry] /\ NoEntry.kind = "none"
    BY <1>3 DEF CheckCache, NoEntry
  <2>2. CASE Cached(k)
    <3>1. PICK i \in DOMAIN order : order[i] = k /\ order' = DropAt(order, i)
      BY <1>3, <2>2 DEF CheckCache
    <3>2. /\ Len(order') = n - 1
          /\ \A a, b \in DOMAIN order' : order'[a] = order'[b] => a = b
          /\ {order'[a] : a \in DOMAIN order'} = {order[a] : a \in DOMAIN order} \ {k}
      <4>1. /\ order \in Seq(Keys)
            /\ \A a, b \in DOMAIN order : order[a] = order[b] => a = b
        BY <1>1
      <4> DEFINE d == DropAt(order, i)
      <4>2. /\ Len(d) = n - 1
            /\ \A a, b \in DOMAIN d : d[a] = d[b] => a = b
            /\ {d[a] : a \in DOMAIN d} = {order[a] : a \in DOMAIN order} \ {order[i]}
        BY <4>1, DropAtDistinct
      <4> HIDE DEF d
      <4>3. order' = d /\ order[i] = k
        BY <3>1 DEF d
      <4>. QED  BY <4>2, <4>3
    <3>3. {c \in Keys : cache'[c].kind # "none"} = {c \in Keys : Cached(c)} \ {k}
      BY <1>1, <2>1 DEF Cached
    <3>4. {c \in Keys : Cached(c)} = {order[a] : a \in DOMAIN order}
      BY DEF CacheCapped
    <3>5. Len(order') <= MaxCache
      BY <1>1, <3>2
    <3>. QED  BY <3>2, <3>3, <3>4, <3>5 DEF CacheCapped, Cached
  <2>3. CASE ~Cached(k)
    <3>1. order' = order
      BY <1>3, <2>3 DEF CheckCache
    <3>2. \A c \in Keys : (cache'[c].kind # "none") <=> Cached(c)
      BY <1>1, <2>1, <2>3 DEF Cached
    <3>. QED  BY <3>1, <3>2 DEF CacheCapped, Cached
  <2>. QED  BY <2>2, <2>3
<1>4. ASSUME NEW t \in Threads, PutCache(t)
      PROVE  CacheCapped'
  <2> DEFINE e == Evicted
             k == req[t].key
             kept == SubSeq(order, e + 1, n)
  <2>1. /\ e \in 0 .. n /\ (n >= MaxCache => e >= 1)
        /\ k \in Keys /\ EntryFor(req[t]).kind # "none" /\ NoEntry.kind = "none"
    BY <1>1, LimitsAssumption DEF Evicted, TypeOK, Requests, EntryFor, NoEntry
  <2>2. /\ kept \in Seq(Keys) /\ Len(kept) = n - e /\ DOMAIN kept = 1 .. n - e
        /\ \A j \in 1 .. n - e : kept[j] = order[e + j]
    BY <1>1, <2>1, SuffixElements
  <2>3. /\ order' = IF \E i \in DOMAIN kept : kept[i] = k THEN kept ELSE Append(kept, k)
        /\ cache' = [c \in Keys |->
             IF c = k THEN EntryFor(req[t])
             ELSE IF \E i \in 1 .. e : order[i] = c THEN NoEntry ELSE cache[c]]
    BY <1>4 DEF PutCache
  <2> HIDE DEF kept, e, n
  <2>4. \A a, b \in 1 .. n - e : kept[a] = kept[b] => a = b
    <3> SUFFICES ASSUME NEW a \in 1 .. n - e, NEW b \in 1 .. n - e, kept[a] = kept[b]
                 PROVE  a = b
      OBVIOUS
    <3>1. e + a \in 1 .. n /\ e + b \in 1 .. n
      BY <1>1, <2>1
    <3>2. e + a = e + b
      BY <1>1, <2>2, <3>1
    <3>. QED  BY <2>1, <3>2
  <2>5. \A c \in Keys : (\E j \in 1 .. n - e : kept[j] = c)
          <=> Cached(c) /\ ~\E i \in 1 .. e : order[i] = c
    <3> SUFFICES ASSUME NEW c \in Keys
                 PROVE  (\E j \in 1 .. n - e : kept[j] = c)
                          <=> Cached(c) /\ ~\E i \in 1 .. e : order[i] = c
      OBVIOUS
    <3>1. ASSUME NEW j \in 1 .. n - e, kept[j] = c
          PROVE  Cached(c) /\ ~\E i \in 1 .. e : order[i] = c
      <4>1. e + j \in 1 .. n /\ order[e + j] = c
        BY <1>1, <2>1, <2>2, <3>1
      <4>2. \A i \in 1 .. e : i \in 1 .. n /\ i # e + j
        BY <1>1, <2>1
      <4>. QED  BY <1>1, <1>2, <4>1, <4>2
    <3>2. ASSUME Cached(c), ~\E i \in 1 .. e : order[i] = c
          PROVE  \E j \in 1 .. n - e : kept[j] = c
      <4>1. PICK i \in 1 .. n : order[i] = c
        BY <1>2, <3>2
      <4>2. i \notin 1 .. e
        BY <3>2, <4>1
      <4>3. i - e \in 1 .. n - e /\ e + (i - e) = i
        BY <1>1, <2>1, <4>2
      <4>. QED  BY <2>2, <4>1, <4>3
    <3>. QED  BY <3>1, <3>2
  <2>6. \A c \in Keys : cache'[c].kind # "none" <=> c = k \/ \E j \in 1 .. n - e : kept[j] = c
    BY <2>1, <2>3, <2>5 DEF Cached
  <2>7. CASE \E i \in DOMAIN kept : kept[i] = k
    <3>1. order' = kept /\ Len(kept) <= MaxCache
      BY <1>1, <2>1, <2>2, <2>3, <2>7
    <3>2. {c \in Keys : cache'[c].kind # "none"} = {kept[j] : j \in DOMAIN kept}
      <4>1. \A j \in DOMAIN kept : kept[j] \in Keys
        BY <2>2, ElementOfSeq
      <4>. QED  BY <2>2, <2>6, <2>7, <4>1
    <3>. QED  BY <2>2, <2>4, <3>1, <3>2 DEF CacheCapped, Cached
  <2>8. CASE ~\E i \in DOMAIN kept : kept[i] = k
    <3> DEFINE m == n - e + 1
    <3>1. /\ order' = Append(kept, k)
          /\ m \in Nat /\ m <= MaxCache
      BY <1>1, <2>1, <2>3, <2>8
    <3>2. /\ Len(order') = m /\ DOMAIN order' = 1 .. m
          /\ \A j \in 1 .. n - e : order'[j] = kept[j]
          /\ order'[m] = k
      <4>1. kept \in Seq(Keys) /\ k \in Keys /\ Len(kept) = n - e
        BY <2>1, <2>2
      <4>2. /\ order' \in Seq(Keys) /\ Len(order') = Len(kept) + 1
            /\ \A j \in 1 .. Len(kept) : order'[j] = kept[j]
            /\ order'[Len(kept) + 1] = k
        BY <3>1, <4>1, AppendProperties
      <4>3. DOMAIN order' = 1 .. Len(order')
        BY <4>2, LenProperties
      <4>. QED  BY <4>1, <4>2, <4>3
    <3>3. \A j \in 1 .. m : j \in 1 .. n - e \/ j = m
      BY <1>1, <2>1
    <3>4. 1 .. n - e \subseteq 1 .. m /\ m \in 1 .. m
      BY <1>1, <2>1
    <3> HIDE DEF m
    <3>5. \A a, b \in DOMAIN order' : order'[a] = order'[b] => a = b
      BY <2>2, <2>4, <2>8, <3>2, <3>3
    <3>6. {c \in Keys : cache'[c].kind # "none"} = {order'[j] : j \in DOMAIN order'}
      <4>1. ASSUME NEW j \in DOMAIN order'
            PROVE  order'[j] \in {c \in Keys : cache'[c].kind # "none"}
        <5>1. order'[j] \in Keys
          BY <2>1, <2>2, <3>2, <3>3, ElementOfSeq
        <5>. QED  BY <2>6, <3>2, <3>3, <5>1
      <4>2. ASSUME NEW c \in Keys, cache'[c].kind # "none"
            PROVE  c \in {order'[j] : j \in DOMAIN order'}
        BY <2>6, <3>2, <3>4, <4>2
      <4>. QED  BY <4>1, <4>2
    <3>. QED  BY <3>1, <3>2, <3>5, <3>6 DEF CacheCapped, Cached
  <2>. QED  BY <2>7, <2>8
<1>5. ASSUME order' = order, cache' = cache
      PROVE  CacheCapped'
  BY <1>5 DEF CacheCapped, Cached
<1>6. ASSUME NEW t \in Threads, Proceed(t), ~PutCache(t)
      PROVE  order' = order /\ cache' = cache
  BY <1>6 DEF Proceed, CheckBreaker, EnterFlight, Acquire, ReadClock, TakeBudget, CallHub,
     Record, Release, Discard
<1>. QED  BY <1>3, <1>4, <1>5, <1>6 DEF Next, Tick, vars

-----------------------------------------------------------------------------
(* The theorems.                                                           *)

\* The inductive invariant: none of the first four parts is inductive without
\* the others, because the semaphore's type rests on the count of its holders.
IInv ==
  /\ TypeOK
  /\ PermitProtocol
  /\ PermitsAddUp
  /\ SingleFlight
  /\ WindowWithinBudget
  /\ StampsPast
  /\ OvershootLedger
  /\ BudgetOvershootBounded
  /\ CacheCapped
  /\ OpensWithinCooldown
  /\ AnswersInOrder

\* The inductive invariant holds in the first state.
LEMMA InitIInv == Init => IInv
<1> SUFFICES ASSUME Init PROVE IInv
  OBVIOUS
<1>1. TypeOK
  BY InitTyped
<1>2. \A t \in Threads : pc[t] = "idle" /\ \E k \in Keys : req[t] = FreshRequest(k)
  BY DEF Init
<1>3. \A t \in Threads : pc[t] = "idle" /\ ~req[t].holds
  <2>1. \A k \in Keys : FreshRequest(k).holds = FALSE
    BY DEF FreshRequest
  <2>. QED  BY <1>2, <2>1
<1>4. PermitProtocol
  BY <1>3 DEF PermitProtocol
<1>5. PermitsAddUp
  <2>1. Holders = {}
    BY <1>3 DEF Holders
  <2>. QED  BY <2>1, FS_EmptySet, LimitsAssumption DEF Init, PermitsAddUp
<1>6. SingleFlight
  <2>1. InRegion = {}
    BY <1>3 DEF InRegion
  <2>. QED  BY <2>1 DEF Init, SingleFlight
<1>7. WindowWithinBudget /\ OpensWithinCooldown
  BY LimitsAssumption DEF Init, WindowWithinBudget, OpensWithinCooldown
<1>8. AnswersInOrder
  BY <1>3 DEF Init, AnswersInOrder, NoEntry
<1>9. CacheCapped
  BY LimitsAssumption DEF Init, CacheCapped, Cached, NoEntry
<1>10. StampsPast /\ OvershootLedger /\ BudgetOvershootBounded
  <2>1. /\ taken = <<>> /\ DOMAIN taken = {} /\ now = 0 /\ window = <<>>
        /\ Budget \in Nat /\ MaxConcurrent \in Nat
    BY LimitsAssumption DEF Init
  <2>2. \A s \in Times : TokensWithin(s) = {} /\ Late(s) = {} /\ Recent(window, s) = {}
    BY <1>3, <2>1 DEF TokensWithin, Late, Recent
  <2>3. StampsPast
    BY <1>3, <2>1 DEF StampsPast
  <2>4. \A s \in Times : /\ Cardinality(TokensWithin(s)) = 0 /\ Cardinality(Late(s)) = 0
                         /\ Cardinality(Recent(window, s)) = 0
    BY <2>2, FS_EmptySet
  <2>. QED  BY <2>1, <2>3, <2>4 DEF OvershootLedger, BudgetOvershootBounded
<1>. QED  BY <1>1, <1>4, <1>5, <1>6, <1>7, <1>8, <1>9, <1>10 DEF IInv

\* Every step keeps the inductive invariant.
LEMMA StepIInv == IInv /\ [Next]_vars => IInv'
BY StepTyped, PermitProtocolStep, PermitsAddUpStep, SingleFlightStep, WindowStep,
   StampsPastStep, LedgerStep, OvershootStep, CacheCappedStep, BreakerStep, CacheStep DEF IInv

\* The inductive invariant holds of every behaviour.
THEOREM Invariance == Spec => []IInv
BY InitIInv, StepIInv, PTL DEF Spec

\* Every variable keeps its type; in particular the semaphore never exceeds
\* its permits and the failure count never reaches the threshold.
THEOREM TypeCorrect == Spec => []TypeOK
<1>1. IInv => TypeOK
  BY DEF IInv
<1>. QED  BY <1>1, Invariance, PTL

\* No id is ever verified by two threads, and no id is left marked in flight.
THEOREM SingleFlightHolds == Spec => []SingleFlight
<1>1. IInv => SingleFlight
  BY DEF IInv
<1>. QED  BY <1>1, Invariance, PTL

\* No path leaks a permit, and nobody calls the Hub without one.
THEOREM ConcurrencyCapHolds == Spec => []ConcurrencyCap
<1>1. IInv => ConcurrencyCap
  <2> SUFFICES ASSUME IInv PROVE ConcurrencyCap
    OBVIOUS
  <2>1. Calling \subseteq Holders
    BY DEF IInv, PermitProtocol, Calling, Holders
  <2>. QED  BY <2>1 DEF IInv, PermitsAddUp, ConcurrencyCap
<1>. QED  BY <1>1, Invariance, PTL

\* At most MaxConcurrent requests to the Hub are ever under way.
THEOREM LiveCallsCapped == Spec => [](Cardinality(Calling) <= MaxConcurrent)
<1>1. TypeOK /\ ConcurrencyCap => Cardinality(Calling) <= MaxConcurrent
  <2> SUFFICES ASSUME TypeOK, ConcurrencyCap
               PROVE  Cardinality(Calling) <= MaxConcurrent
    OBVIOUS
  <2>1. Cardinality(Calling) <= Cardinality(Holders) /\ Cardinality(Calling) \in Nat
    BY HoldersFinite, FS_Subset, FS_CardinalityType DEF ConcurrencyCap
  <2>. QED  BY <2>1, HoldersFinite, LimitsAssumption DEF TypeOK, ConcurrencyCap
<1>. QED  BY <1>1, TypeCorrect, ConcurrencyCapHolds, PTL

\* The budget deque never holds more tokens than the budget.
THEOREM WindowWithinBudgetHolds == Spec => []WindowWithinBudget
<1>1. IInv => WindowWithinBudget
  BY DEF IInv
<1>. QED  BY <1>1, Invariance, PTL

\* However long a stamp waits for the lock, no window sees more tokens than the
\* budget and one per permit.
THEOREM BudgetOvershootHolds == Spec => []BudgetOvershootBounded
<1>1. IInv => BudgetOvershootBounded
  BY DEF IInv
<1>. QED  BY <1>1, Invariance, PTL

\* The cached answers never exceed the soft cap, and the dict lists each once.
THEOREM CacheCappedHolds == Spec => []CacheCapped
<1>1. IInv => CacheCapped
  BY DEF IInv
<1>. QED  BY <1>1, Invariance, PTL

\* Permits, tokens and cached answers all stay within their limits.
THEOREM LimitsHoldAlways == Spec => []LimitsHold
<1>1. ConcurrencyCap /\ WindowWithinBudget /\ CacheCapped => LimitsHold
  BY DEF LimitsHold
<1>. QED  BY <1>1, ConcurrencyCapHolds, WindowWithinBudgetHolds, CacheCappedHolds, PTL

\* No late success or failure brings the breaker's reopening forward.
THEOREM BreakerNeverShortenedHolds == Spec => BreakerNeverShortened
<1>1. IInv /\ [Next]_vars => [breaker.openUntil <= breaker'.openUntil]_vars
  BY BreakerStep DEF IInv
<1>. QED  BY <1>1, Invariance, PTL DEF Spec, BreakerNeverShortened

\* No slow old answer ever overwrites a newer one in the cache.
THEOREM CacheNeverRegressesHolds == Spec => CacheNeverRegresses
<1>1. IInv /\ [Next]_vars =>
        [\A k \in Keys : Cached(k) /\ cache'[k].kind # "none" =>
           cache[k].asOf <= cache'[k].asOf]_vars
  BY CacheStep DEF IInv
<1>. QED  BY <1>1, Invariance, PTL DEF Spec, CacheNeverRegresses
=============================================================================
