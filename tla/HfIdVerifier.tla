---------------------------- MODULE HfIdVerifier ----------------------------
(***************************************************************************)
(* The live tier of services/hf_id_verifier.py: request threads ask whether *)
(* a raw value is a Hugging Face model id.  Each lock-protected block of    *)
(* the code is one action, so every interleaving of the threads between two *)
(* blocks is explored.  Values are abstracted to their cache key (the       *)
(* lower-cased raw id); only HF-shaped values reach this code.              *)
(***************************************************************************)
EXTENDS Naturals, Sequences, FiniteSets

CONSTANTS
  Threads,         \* request threads of the API (the FastAPI thread pool)
  Keys,            \* lower-cased HF-shaped raw values
  MaxConcurrent,   \* permits of the live semaphore
  Budget,          \* live calls allowed per budget window
  Window,          \* length of the budget window (60 s in the code)
  PositiveTtl,     \* life of a confirmed id in the cache
  NegativeTtl,     \* life of a cached miss
  BreakerThreshold,\* consecutive failures that open the breaker
  BreakerCooldown, \* how long the breaker stays open
  MaxCache,        \* soft cap of the cache
  EvictCount,      \* entries dropped when the cap is met (a tenth of the cap)
  LiveEnabled,     \* the hf_live_id_check_enabled setting
  MaxTime          \* bound on the modelled clock

ASSUME ThreadsAssumption == IsFiniteSet(Threads)
ASSUME LimitsAssumption ==
  /\ MaxConcurrent \in Nat \ {0}
  /\ Budget \in Nat \ {0}
  /\ Window \in Nat \ {0}
  /\ PositiveTtl \in Nat /\ NegativeTtl \in Nat
  /\ BreakerThreshold \in Nat \ {0} /\ BreakerCooldown \in Nat
  /\ EvictCount \in Nat \ {0} /\ MaxCache \in Nat /\ EvictCount <= MaxCache
  /\ MaxTime \in Nat
ASSUME SettingAssumption == LiveEnabled \in BOOLEAN

VARIABLES
  now,       \* the monotonic clock
  cache,     \* key -> entry, kind "none" when the key is not in the dict
  order,     \* the cached keys in the dict's insertion order
  inFlight,  \* keys with a live call in flight
  permits,   \* free permits of the semaphore
  window,    \* the budget deque: stamps of the tokens taken
  taken,     \* history: the instants at which tokens were taken
  breaker,   \* consecutive failures and the instant the breaker closes again
  pc, req    \* per thread: next step, and the request's local variables

vars == <<now, cache, order, inFlight, permits, window, taken, breaker, pc, req>>

Times == 0 .. MaxTime
Labels == {"idle", "breaker", "flight", "acquire", "clock", "take", "call",
           "record", "put", "release", "discard"}

\* What HfApi.model_info can do: the repo exists (gated and renamed ones
\* included), a 404, a client-side validation error, any other failure.
Outcomes == {"found", "notFound", "invalid", "failed"}

NoEntry == [kind |-> "none", expires |-> 0, asOf |-> 0]
Entries == [kind : {"none", "hit", "miss"}, expires : Nat, asOf : Times]

\* holds: the semaphore was acquired; stamp: the clock read for the budget (0
\* once used); asOf: when the Hub answered.
Requests == [key : Keys, holds : BOOLEAN, stamp : Times, asOf : Times,
             outcome : Outcomes \cup {"none"}]
FreshRequest(k) == [key |-> k, holds |-> FALSE, stamp |-> 0, asOf |-> 0, outcome |-> "none"]

Cached(k) == cache[k].kind # "none"
Fresh(k) == Cached(k) /\ now < cache[k].expires

Init ==
  /\ now = 0
  /\ cache = [k \in Keys |-> NoEntry]
  /\ order = <<>>
  /\ inFlight = {}
  /\ permits = MaxConcurrent
  /\ window = <<>>
  /\ taken = <<>>
  /\ breaker = [failures |-> 0, openUntil |-> 0]
  /\ pc = [t \in Threads |-> "idle"]
  /\ req \in [Threads -> {FreshRequest(k) : k \in Keys}]

Goto(t, label) == pc' = [pc EXCEPT ![t] = label]

\* The dict without the entry at position i of its insertion order.
DropAt(s, i) == SubSeq(s, 1, i - 1) \o SubSeq(s, i + 1, Len(s))

\* check(), _cache_get and _check_index.  A fresh entry answers and changes
\* nothing, so only misses are modelled; an expired entry is deleted.  The
\* index belongs to the resolution service, which may rebuild it between any
\* two calls: it may answer the request or not.
CheckCache(t, k) ==
  /\ pc[t] = "idle"
  /\ ~Fresh(k)
  /\ cache' = [cache EXCEPT ![k] = NoEntry]
  /\ \/ Cached(k) /\ \E i \in DOMAIN order : order[i] = k /\ order' = DropAt(order, i)
     \/ ~Cached(k) /\ UNCHANGED order
  /\ req' = [req EXCEPT ![t] = FreshRequest(k)]
  /\ \E indexAnswers \in BOOLEAN : Goto(t, IF indexAnswers THEN "idle" ELSE "breaker")
  /\ UNCHANGED <<now, inFlight, permits, window, taken, breaker>>

\* The enabled flag and the breaker, both before any guard is acquired.
CheckBreaker(t) ==
  /\ pc[t] = "breaker"
  /\ Goto(t, IF ~LiveEnabled \/ now < breaker.openUntil THEN "idle" ELSE "flight")
  /\ UNCHANGED <<now, cache, order, inFlight, permits, window, taken, breaker, req>>

\* Mutant of EnterFlight: the in-flight set is not consulted.
EnterFlightUnchecked(t) ==
  /\ pc[t] = "flight"
  /\ inFlight' = inFlight \cup {req[t].key}
  /\ Goto(t, "acquire")
  /\ UNCHANGED <<now, cache, order, permits, window, taken, breaker, req>>

\* Single flight: a concurrent duplicate answers unknown at once.
EnterFlight(t) ==
  /\ pc[t] = "flight"
  /\ \/ /\ req[t].key \in inFlight
        /\ Goto(t, "idle")
        /\ UNCHANGED inFlight
     \/ /\ req[t].key \notin inFlight
        /\ inFlight' = inFlight \cup {req[t].key}
        /\ Goto(t, "acquire")
  /\ UNCHANGED <<now, cache, order, permits, window, taken, breaker, req>>

\* Mutant of Acquire: a blocking acquire.
AcquireBlocking(t) ==
  /\ pc[t] = "acquire"
  /\ permits > 0
  /\ permits' = permits - 1
  /\ req' = [req EXCEPT ![t].holds = TRUE]
  /\ Goto(t, "clock")
  /\ UNCHANGED <<now, cache, order, inFlight, window, taken, breaker>>

\* _live_semaphore.acquire(blocking=False)
Acquire(t) ==
  /\ pc[t] = "acquire"
  /\ \/ /\ permits > 0
        /\ permits' = permits - 1
        /\ req' = [req EXCEPT ![t].holds = TRUE]
        /\ Goto(t, "clock")
     \/ /\ permits = 0
        /\ Goto(t, "release")
        /\ UNCHANGED <<permits, req>>
  /\ UNCHANGED <<now, cache, order, inFlight, window, taken, breaker>>

\* self._clock() is evaluated before _budget_take enters its lock.
ReadClock(t) ==
  /\ pc[t] = "clock"
  /\ req' = [req EXCEPT ![t].stamp = now]
  /\ Goto(t, "take")
  /\ UNCHANGED <<now, cache, order, inFlight, permits, window, taken, breaker>>

\* Mutant of Expires: a token expires one instant early.
ExpiresEarly(i, stamp) ==
  /\ \A j \in 1 .. i : window[j] + Window <= stamp + 1
  /\ i < Len(window) => window[i + 1] + Window > stamp + 1

\* The first i stamps of the deque are those the popleft loop removes.
Expires(i, stamp) ==
  /\ \A j \in 1 .. i : window[j] + Window <= stamp
  /\ i < Len(window) => window[i + 1] + Window > stamp

\* Mutant of Affordable: off by one.
AffordableAtBudget(live) == Len(live) <= Budget

Affordable(live) == Len(live) < Budget

\* _budget_take, under _budget_lock.
TakeBudget(t) ==
  /\ pc[t] = "take"
  /\ \E i \in 0 .. Len(window) :
       /\ Expires(i, req[t].stamp)
       /\ LET live == SubSeq(window, i + 1, Len(window)) IN
          \/ /\ ~Affordable(live)
             /\ window' = live
             /\ Goto(t, "release")
             /\ UNCHANGED taken
          \/ /\ Affordable(live)
             /\ window' = Append(live, req[t].stamp)
             /\ taken' = Append(taken, now)
             /\ Goto(t, "call")
  /\ req' = [req EXCEPT ![t].stamp = 0]
  /\ UNCHANGED <<now, cache, order, inFlight, permits, breaker>>

\* HfApi.model_info returns or raises; it carries a timeout, so it does one
\* or the other.
CallHub(t) ==
  /\ pc[t] = "call"
  /\ \E o \in Outcomes :
       /\ req' = [req EXCEPT ![t].outcome = o, ![t].asOf = now]
       /\ Goto(t, IF o = "invalid" THEN "put" ELSE "record")
  /\ UNCHANGED <<now, cache, order, inFlight, permits, window, taken, breaker>>

\* Mutants of BreakerAfter: the counter is not reset when the breaker opens; a
\* success closes the breaker.
BreakerKeepsCount(outcome) ==
  IF outcome # "failed" THEN [breaker EXCEPT !.failures = 0]
  ELSE [failures |-> breaker.failures + 1,
        openUntil |-> IF breaker.failures + 1 < BreakerThreshold
                      THEN breaker.openUntil ELSE now + BreakerCooldown]
SuccessCloses(outcome) ==
  IF outcome # "failed" THEN [failures |-> 0, openUntil |-> 0]
  ELSE IF breaker.failures + 1 < BreakerThreshold
       THEN [breaker EXCEPT !.failures = @ + 1]
       ELSE [failures |-> 0, openUntil |-> now + BreakerCooldown]

BreakerAfter(outcome) ==
  IF outcome # "failed" THEN [breaker EXCEPT !.failures = 0]
  ELSE IF breaker.failures + 1 < BreakerThreshold
       THEN [breaker EXCEPT !.failures = @ + 1]
       ELSE [failures |-> 0, openUntil |-> now + BreakerCooldown]

\* _record_success and _record_failure, under _breaker_lock.  Only a failure
\* leaves the cache alone.
Record(t) ==
  /\ pc[t] = "record"
  /\ breaker' = BreakerAfter(req[t].outcome)
  /\ Goto(t, IF req[t].outcome = "failed" THEN "release" ELSE "put")
  /\ UNCHANGED <<now, cache, order, inFlight, permits, window, taken, req>>

EntryFor(r) ==
  IF r.outcome = "found"
  THEN [kind |-> "hit", expires |-> now + PositiveTtl, asOf |-> r.asOf]
  ELSE [kind |-> "miss", expires |-> now + NegativeTtl, asOf |-> r.asOf]

\* The number of keys the cap evicts, oldest first.
Evicted == IF Len(order) >= MaxCache THEN EvictCount ELSE 0

\* _cache_put, under _cache_lock.  Storing under a key that is still present
\* keeps its place in the dict.
PutCache(t) ==
  /\ pc[t] = "put"
  /\ LET k == req[t].key
         kept == SubSeq(order, Evicted + 1, Len(order))
     IN /\ order' = IF \E i \in DOMAIN kept : kept[i] = k THEN kept ELSE Append(kept, k)
        /\ cache' = [c \in Keys |->
             IF c = k THEN EntryFor(req[t])
             ELSE IF \E i \in 1 .. Evicted : order[i] = c THEN NoEntry
             ELSE cache[c]]
  /\ Goto(t, "release")
  /\ UNCHANGED <<now, inFlight, permits, window, taken, breaker, req>>

\* The finally block releases the permit first, then the single-flight entry.
Release(t) ==
  /\ pc[t] = "release"
  /\ permits' = IF req[t].holds THEN permits + 1 ELSE permits
  /\ req' = [req EXCEPT ![t].holds = FALSE]
  /\ Goto(t, "discard")
  /\ UNCHANGED <<now, cache, order, inFlight, window, taken, breaker>>

Discard(t) ==
  /\ pc[t] = "discard"
  /\ inFlight' = inFlight \ {req[t].key}
  /\ req' = [req EXCEPT ![t] = FreshRequest(req[t].key)]
  /\ Goto(t, "idle")
  /\ UNCHANGED <<now, cache, order, permits, window, taken, breaker>>

Tick ==
  /\ now < MaxTime
  /\ now' = now + 1
  /\ UNCHANGED <<cache, order, inFlight, permits, window, taken, breaker, pc, req>>

Proceed(t) ==
  \/ CheckBreaker(t)
  \/ EnterFlight(t)
  \/ Acquire(t)
  \/ ReadClock(t)
  \/ TakeBudget(t)
  \/ CallHub(t)
  \/ Record(t)
  \/ PutCache(t)
  \/ Release(t)
  \/ Discard(t)

Next ==
  \/ \E t \in Threads : Proceed(t) \/ \E k \in Keys : CheckCache(t, k)
  \/ Tick

Spec == Init /\ [][Next]_vars

\* A thread that entered check() is scheduled until it returns: nothing in it
\* blocks, and the Hub request carries a timeout.
FairSpec == Spec /\ \A t \in Threads : WF_vars(Proceed(t))
-----------------------------------------------------------------------------
TypeOK ==
  /\ now \in Times
  /\ cache \in [Keys -> Entries]
  /\ order \in Seq(Keys)
  /\ inFlight \subseteq Keys
  /\ permits \in 0 .. MaxConcurrent
  /\ window \in Seq(Times)
  /\ taken \in Seq(Times)
  /\ breaker \in [failures : 0 .. BreakerThreshold - 1, openUntil : Nat]
  /\ pc \in [Threads -> Labels]
  /\ req \in [Threads -> Requests]

\* The threads between the single-flight entry and the discard.
InRegion == {t \in Threads : pc[t] \in {"acquire", "clock", "take", "call",
                                        "record", "put", "release", "discard"}}
\* The threads that hold a permit of the semaphore.
Holders == {t \in Threads : req[t].holds}
\* The threads whose request to the Hub is under way or about to be sent.
Calling == {t \in Threads : pc[t] = "call"}

\* Two threads never verify the same id at once, and the in-flight set is
\* exactly the ids under verification: an early return, a refused guard or an
\* exception leaves no id behind, which would make it unknown forever.
SingleFlight ==
  /\ \A t, u \in InRegion : req[t].key = req[u].key => t = u
  /\ inFlight = {req[t].key : t \in InRegion}

\* Free permits and holders always add up, so no path leaks a permit or
\* releases one it never acquired, and live calls never exceed the cap.
ConcurrencyCap ==
  /\ permits + Cardinality(Holders) = MaxConcurrent
  /\ Calling \subseteq Holders

\* Tokens taken in the window that starts at s.
TokensWithin(s) == {i \in DOMAIN taken : s <= taken[i] /\ taken[i] < s + Window}

\* The clock is read outside the budget lock, so a stamp may be older than its
\* token, and may enter the deque behind newer ones.  Whatever the delay, a
\* window sees at most one token per permit above the budget.
BudgetOvershootBounded == \A s \in Times : Cardinality(TokensWithin(s)) <= Budget + MaxConcurrent

\* The deque never holds more tokens than the budget, whatever order stamps
\* arrive in.
WindowWithinBudget == Len(window) <= Budget

\* The insertion order lists exactly the cached keys once each, and the soft
\* cap is respected however puts, expiry and eviction interleave.
CacheCapped ==
  /\ \A i, j \in DOMAIN order : order[i] = order[j] => i = j
  /\ {k \in Keys : Cached(k)} = {order[i] : i \in DOMAIN order}
  /\ Len(order) <= MaxCache

\* No limit of the verifier is ever exceeded, in whatever order its blocks
\* interleave: permits, tokens of the deque, cached answers.
LimitsHold == ConcurrencyCap /\ WindowWithinBudget /\ CacheCapped

\* A cached answer is only ever replaced by one the Hub gave no earlier: calls
\* for one id are serialised from the request to the put, so a slow old answer
\* cannot overwrite a newer one.
CacheNeverRegresses ==
  [][\A k \in Keys : Cached(k) /\ cache'[k].kind # "none" =>
       cache[k].asOf <= cache'[k].asOf]_vars

\* Every check returns: no request thread is pinned by a guard.
CheckReturns == \A t \in Threads : pc[t] # "idle" ~> pc[t] = "idle"

\* An open breaker is closed by time alone: a slow call that succeeds after it
\* opened, or fails late, never brings the reopening forward.
BreakerNeverShortened == [][breaker.openUntil <= breaker'.openUntil]_vars
=============================================================================
