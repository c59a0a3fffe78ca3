----------------------------- MODULE RateLimiter -----------------------------
(***************************************************************************)
(* One RateLimiter of the HTTP middleware: token buckets by client key,     *)
(* callers of Allow that read the clock before they take the mutex, the      *)
(* goroutine that removes idle buckets, and Stop.                            *)
(*                                                                          *)
(* Tokens are counted in clock ticks: a tick refills one unit and a request  *)
(* costs Refill units (interval / requests). Rounding of the float64 in the  *)
(* code is not modelled.                                                     *)
(***************************************************************************)
EXTENDS Integers

CONSTANTS Keys,           \* client addresses
          Callers,        \* requests that may be inside Allow together
          Stoppers,       \* callers of Stop
          Burst,          \* tokens of a full bucket
          Refill,         \* ticks that refill one token
          InactiveAfter,  \* idle ticks after which a bucket may be removed
          MaxDelay,       \* ticks a caller may lose between clock and mutex
          MaxNow          \* bound on the clock

Full == Burst * Refill

\* The limiter's settings are positive. A bucket that is idle long enough to be
\* removed would have been full anyway, even if its last users were late.
ASSUME RateLimiterAssumption ==
    /\ Burst \in Nat \ {0} /\ Refill \in Nat \ {0}
    /\ MaxDelay \in Nat /\ MaxNow \in Nat
    /\ Full \in Nat /\ Refill <= Full
    /\ InactiveAfter \in Nat /\ InactiveAfter >= Full + 2 * MaxDelay

VARIABLES now,         \* the process's monotonic clock
          buckets,     \* keys that have a bucket
          tokens, lastRefill, lastSeen,   \* the buckets
          call,        \* caller -> the key and clock reading it waits with, if any
          cleaner,     \* the goroutine of runCleanup
          cleanAt,     \* the clock reading it passes to removeStale, else 0
          ticked,      \* ticker.C holds a tick
          stopCh,      \* stopCh is closed
          stopper,     \* caller of Stop -> its place
          since,       \* history: a window opened at this time, if at all,
          spent,       \* history: what each key was admitted for in the window
          denied       \* history: key -> when its last call was refused, if it was

bucketVars  == <<buckets, tokens, lastRefill, lastSeen>>
cleanerVars == <<cleaner, cleanAt, ticked, stopCh, stopper>>
history     == <<since, spent, denied>>
vars        == <<now, bucketVars, call, cleanerVars, history>>

Readings == [key : Keys, at : Nat]

TypeOK == /\ now \in Nat
          /\ buckets \subseteq Keys
          /\ tokens \in [Keys -> 0..Full]
          /\ lastRefill \in [Keys -> Nat]
          /\ lastSeen \in [Keys -> Nat]
          /\ call \in [Callers -> SUBSET Readings]
          /\ cleaner \in {"select", "removing", "done"}
          /\ cleanAt \in Nat
          /\ ticked \in BOOLEAN
          /\ stopCh \in BOOLEAN
          /\ stopper \in [Stoppers -> {"idle", "waiting", "returned"}]
          /\ since \in Int
          /\ spent \in [Keys -> Nat]
          /\ denied \in [Keys -> SUBSET Nat]

Init == /\ now = 0
        /\ buckets = {}
        /\ tokens = [k \in Keys |-> 0]
        /\ lastRefill = [k \in Keys |-> 0]
        /\ lastSeen = [k \in Keys |-> 0]
        /\ call = [c \in Callers |-> {}]
        /\ cleaner = "select" /\ cleanAt = 0
        /\ ticked = FALSE /\ stopCh = FALSE
        /\ stopper = [s \in Stoppers |-> "idle"]
        /\ since = -1
        /\ spent = [k \in Keys |-> 0]
        /\ denied = [k \in Keys |-> {}]
-----------------------------------------------------------------------------
(* Allow *)

\* now := l.now(), before the mutex is asked for.
Sample(c) ==
    /\ call[c] = {}
    /\ \E k \in Keys : call' = [call EXCEPT ![c] = {[key |-> k, at |-> now]}]
    /\ UNCHANGED <<now, bucketVars, cleanerVars, history>>

\* Faults: no cap at the burst; lastRefill is set before the elapsed time is taken;
\* the refill time follows every reading.
LevelUncapped(k, t) ==
    IF k \notin buckets THEN Full
    ELSE IF t <= lastRefill[k] THEN tokens[k]
    ELSE tokens[k] + (t - lastRefill[k])

LevelAfterMove(k, t) == IF k \notin buckets THEN Full ELSE tokens[k]

RefillTimeAny(k, t) == t

\* A new bucket is full; an old one gains what time brought, up to the burst.
\* A reading that is not later than the last refill brings nothing.
Level(k, t) ==
    IF k \notin buckets THEN Full
    ELSE IF t <= lastRefill[k] THEN tokens[k]
    ELSE IF tokens[k] + (t - lastRefill[k]) > Full THEN Full
    ELSE tokens[k] + (t - lastRefill[k])

RefillTime(k, t) == IF k \notin buckets \/ t > lastRefill[k] THEN t ELSE lastRefill[k]

Allowed(k, t) == Level(k, t) >= Refill

\* The critical section: refill, then take a token or refuse.
Enter(c, k, t) ==
    /\ [key |-> k, at |-> t] \in call[c]
    /\ call' = [call EXCEPT ![c] = {}]
    /\ buckets' = buckets \cup {k}
    /\ lastRefill' = [lastRefill EXCEPT ![k] = RefillTime(k, t)]
    /\ lastSeen' = [lastSeen EXCEPT ![k] = t]
    /\ \/ /\ Allowed(k, t)
          /\ tokens' = [tokens EXCEPT ![k] = Level(k, t) - Refill]
          /\ spent' = [spent EXCEPT ![k] = @ + Refill]
          /\ denied' = [denied EXCEPT ![k] = {}]
       \/ /\ ~Allowed(k, t)
          /\ tokens' = [tokens EXCEPT ![k] = Level(k, t)]
          /\ denied' = [denied EXCEPT ![k] = {now}]
          /\ UNCHANGED spent
    /\ UNCHANGED <<now, cleanerVars, since>>

Allow(c) == \E x \in call[c] : Enter(c, x.key, x.at)
-----------------------------------------------------------------------------
(* The cleanup goroutine and Stop *)

\* The ticker's period is abstracted: a tick may come at any time.
TickerFires ==
    /\ ~ticked /\ cleaner # "done"
    /\ ticked' = TRUE
    /\ UNCHANGED <<now, bucketVars, call, cleaner, cleanAt, stopCh, stopper, history>>

TakeTick ==
    /\ cleaner = "select" /\ ticked
    /\ ticked' = FALSE
    /\ cleanAt' = now
    /\ cleaner' = "removing"
    /\ UNCHANGED <<now, bucketVars, call, stopCh, stopper, history>>

Stale == {k \in buckets : cleanAt - lastSeen[k] >= InactiveAfter}

RemoveStale ==
    /\ cleaner = "removing"
    /\ cleaner' = "select" /\ cleanAt' = 0
    /\ buckets' = buckets \ Stale
    /\ tokens' = [k \in Keys |-> IF k \in Stale THEN 0 ELSE tokens[k]]
    /\ lastRefill' = [k \in Keys |-> IF k \in Stale THEN 0 ELSE lastRefill[k]]
    /\ lastSeen' = [k \in Keys |-> IF k \in Stale THEN 0 ELSE lastSeen[k]]
    /\ UNCHANGED <<now, call, ticked, stopCh, stopper, history>>

\* The select's other case: the goroutine returns and closes doneCh.
TakeStop ==
    /\ cleaner = "select" /\ stopCh
    /\ cleaner' = "done"
    /\ UNCHANGED <<now, bucketVars, call, cleanAt, ticked, stopCh, stopper, history>>

\* Stop closes stopCh once, whoever calls it first,
StopCall(s) ==
    /\ stopper[s] = "idle"
    /\ stopCh' = TRUE
    /\ stopper' = [stopper EXCEPT ![s] = "waiting"]
    /\ UNCHANGED <<now, bucketVars, call, cleaner, cleanAt, ticked, history>>

\* Fault: the goroutine sends one value on doneCh and does not close it.
StopReturnOnce(s) ==
    /\ stopper[s] = "waiting" /\ cleaner = "done"
    /\ \A t \in Stoppers : stopper[t] # "returned"
    /\ stopper' = [stopper EXCEPT ![s] = "returned"]
    /\ UNCHANGED <<now, bucketVars, call, cleaner, cleanAt, ticked, stopCh, history>>

\* and returns when doneCh is closed; closed, it lets every caller of Stop go.
StopReturn(s) ==
    /\ stopper[s] = "waiting" /\ cleaner = "done"
    /\ stopper' = [stopper EXCEPT ![s] = "returned"]
    /\ UNCHANGED <<now, bucketVars, call, cleaner, cleanAt, ticked, stopCh, history>>
-----------------------------------------------------------------------------
\* Time passes, but leaves no caller behind by more than MaxDelay.
Tick ==
    /\ now < MaxNow
    /\ \A c \in Callers : \A x \in call[c] : now < x.at + MaxDelay
    /\ now' = now + 1
    /\ UNCHANGED <<bucketVars, call, cleanerVars, history>>

\* History only: an observer starts counting, at any one time.
OpenWindow ==
    /\ since = -1
    /\ since' = now
    /\ spent' = [k \in Keys |-> 0]
    /\ UNCHANGED <<now, bucketVars, call, cleanerVars, denied>>

Cleanup == TakeTick \/ RemoveStale \/ TakeStop

Next == \/ \E c \in Callers : Sample(c) \/ Allow(c)
        \/ TickerFires \/ Cleanup
        \/ \E s \in Stoppers : StopCall(s) \/ StopReturn(s)
        \/ Tick \/ OpenWindow

Spec == Init /\ [][Next]_vars

\* Goroutines run; a select with two ready cases picks at random, so it does not
\* pass stopCh over for ever.
FairSpec == /\ Spec
            /\ WF_vars(Cleanup) /\ SF_vars(TakeStop)
            /\ \A s \in Stoppers : WF_vars(StopReturn(s))
-----------------------------------------------------------------------------
(* Properties *)

\* In any window a client is admitted for no more than a full bucket plus what
\* the window's length refills, and what late callers can add: neither buckets
\* that are removed and made again nor callers that overtake each other give more.
WindowBound == since >= 0 =>
    \A k \in Keys : spent[k] <= Full + (now - since) + MaxDelay

\* A client that was refused and comes back after the time one token takes (the
\* Retry-After of its rule), no other call having been refused since, is admitted.
RetryAfterSuffices ==
    [][\A c \in Callers : \A x \in call[c] : call'[c] = {} =>
          \A t \in denied[x.key] : x.at >= t + Refill => denied'[x.key] = {}]_vars

\* What may be drawn from a bucket: its tokens and the time since its last refill.
\* A key without a bucket could draw all of a new one.
Drawable(k) ==
    IF k \notin buckets THEN Full + MaxDelay
    ELSE IF tokens[k] + (now - lastRefill[k]) > Full + MaxDelay THEN Full + MaxDelay
    ELSE tokens[k] + (now - lastRefill[k])

Buckets == INSTANCE TokenBucket
             WITH Cost <- [k \in Keys |-> Refill], Slack <- MaxDelay,
                  level <- [k \in Keys |-> Drawable(k)],
                  refused <- {k \in Keys : denied[k] # {}}

\* Readings that overtake each other, buckets that are removed and made again and
\* the cleanup implement a bucket that is filled by time alone: a call is admitted
\* or refused as that bucket would, up to the delay of the callers.
ImplementsBucket == Buckets!BucketSpec

\* Every call of Stop returns: while the cleanup is busy, while ticks keep coming, and
\* when another caller has stopped the limiter before or stops it at the same time.
StopReturns == \A s \in Stoppers : (stopper[s] = "waiting") ~> (stopper[s] = "returned")
=============================================================================
