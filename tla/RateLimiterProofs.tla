-------------------------- MODULE RateLimiterProofs --------------------------
(***************************************************************************)
(* Theorems about module RateLimiter, for any clients, callers and limits  *)
(* that satisfy its assumption.                                            *)
(***************************************************************************)
EXTENDS RateLimiter, TLAPS

\* Readings of the clock are in the past, those of callers not far.
ClockSound ==
    /\ \A c \in Callers : \A x \in call[c] : x.at <= now /\ now <= x.at + MaxDelay
    /\ cleanAt <= now
    /\ since <= now
    /\ \A k \in buckets : /\ lastRefill[k] <= now
                          /\ lastSeen[k] <= now
                          /\ lastRefill[k] <= lastSeen[k] + MaxDelay

\* The account of a window: what was spent and what is left came from the
\* bucket the window found and from time that has passed.
Account ==
    since >= 0 => \A k \in Keys :
        IF k \in buckets
        THEN spent[k] > 0 =>
                spent[k] + tokens[k] <= Full + (lastRefill[k] - since) + MaxDelay
        ELSE spent[k] > 0 => spent[k] <= now - since

\* A refused client's bucket has been refilled up to the refusal at most.
RefusedSound == \A k \in Keys : \A t \in denied[k] :
                   k \in buckets => lastRefill[k] <= t

\* A caller holds one reading at a time.
OneReading == \A c \in Callers : \A x, y \in call[c] : x = y

Inv == TypeOK /\ ClockSound /\ Account /\ RefusedSound /\ OneReading
-----------------------------------------------------------------------------
\* A refill stays within the burst, adds no more than time has passed since the last
\* one, gives a token after Refill ticks, and never moves the refill time back.
LEMMA LevelBounds ==
    ASSUME TypeOK, NEW k \in Keys, NEW t \in Nat
    PROVE  /\ Level(k, t) \in 0..Full
           /\ RefillTime(k, t) \in Nat
           /\ RefillTime(k, t) >= t
           /\ k \in buckets => /\ RefillTime(k, t) >= lastRefill[k]
                               /\ Level(k, t) <= tokens[k] + (RefillTime(k, t) - lastRefill[k])
           /\ k \in buckets /\ t >= lastRefill[k] + Refill => Level(k, t) >= Refill
           /\ k \notin buckets => Level(k, t) = Full /\ RefillTime(k, t) = t
           /\ RefillTime(k, t) = t \/ (k \in buckets /\ RefillTime(k, t) = lastRefill[k])
  <1> USE RateLimiterAssumption DEF TypeOK, Level, RefillTime
  <1>1. CASE k \notin buckets
    BY <1>1
  <1>2. CASE k \in buckets /\ t <= lastRefill[k]
    BY <1>2
  <1>3. CASE k \in buckets /\ t > lastRefill[k]
    BY <1>3
  <1>4. QED
    BY <1>1, <1>2, <1>3

\* The invariant holds of a limiter without buckets.
LEMMA InvInit == Init => Inv
  <1> SUFFICES ASSUME Init PROVE Inv
    OBVIOUS
  <1> USE RateLimiterAssumption DEF Init
  <1>1. TypeOK
    <2>1. tokens \in [Keys -> 0..Full] /\ lastRefill \in [Keys -> Nat]
          /\ lastSeen \in [Keys -> Nat] /\ spent \in [Keys -> Nat]
      OBVIOUS
    <2>2. call \in [Callers -> SUBSET Readings] /\ denied \in [Keys -> SUBSET Nat]
          /\ stopper \in [Stoppers -> {"idle", "waiting", "returned"}]
      OBVIOUS
    <2>3. ticked \in BOOLEAN /\ stopCh \in BOOLEAN
      OBVIOUS
    <2>4. now \in Nat /\ cleanAt \in Nat /\ since \in Int /\ buckets \subseteq Keys
      OBVIOUS
    <2>5. QED
      BY <2>1, <2>2, <2>3, <2>4 DEF TypeOK
  <1>2. ClockSound /\ Account /\ RefusedSound /\ OneReading
    BY DEF ClockSound, Account, RefusedSound, OneReading
  <1>3. QED
    BY <1>1, <1>2 DEF Inv

\* The critical section of Allow keeps the account.
LEMMA EnterStep ==
    ASSUME Inv, NEW c \in Callers, NEW x \in call[c], Enter(c, x.key, x.at)
    PROVE  Inv'
  <1>1. PICK k \in Keys, t \in Nat : k = x.key /\ t = x.at
    BY DEF Inv, TypeOK, Readings
  <1>2. t <= now /\ now <= t + MaxDelay
    BY <1>1 DEF Inv, ClockSound
  <1>3. /\ call' = [call EXCEPT ![c] = {}]
        /\ buckets' = buckets \cup {k}
        /\ lastRefill' = [lastRefill EXCEPT ![k] = RefillTime(k, t)]
        /\ lastSeen' = [lastSeen EXCEPT ![k] = t]
        /\ UNCHANGED <<now, cleanerVars, since>>
    BY <1>1 DEF Enter
  <1>4. \/ /\ Level(k, t) >= Refill
           /\ tokens' = [tokens EXCEPT ![k] = Level(k, t) - Refill]
           /\ spent' = [spent EXCEPT ![k] = @ + Refill]
           /\ denied' = [denied EXCEPT ![k] = {}]
        \/ /\ tokens' = [tokens EXCEPT ![k] = Level(k, t)]
           /\ denied' = [denied EXCEPT ![k] = {now}]
           /\ UNCHANGED spent
    BY <1>1 DEF Enter, Allowed
  <1> HIDE DEF Enter
  <1>5. TypeOK'
    <2>1. Level(k, t) \in 0..Full /\ RefillTime(k, t) \in Nat
      BY LevelBounds DEF Inv
    <2>2. tokens' \in [Keys -> 0..Full]
      BY <1>4, <2>1, RateLimiterAssumption DEF Inv, TypeOK
    <2>3. spent' \in [Keys -> Nat] /\ denied' \in [Keys -> SUBSET Nat]
      BY <1>4, RateLimiterAssumption DEF Inv, TypeOK
    <2>4. QED
      BY <1>3, <2>1, <2>2, <2>3 DEF Inv, TypeOK, cleanerVars
  <1>6. ClockSound'
    BY <1>2, <1>3, LevelBounds, RateLimiterAssumption
       DEF Inv, TypeOK, ClockSound, cleanerVars
  <1>7. Account'
    <2> SUFFICES ASSUME since >= 0, NEW q \in Keys
                 PROVE  IF q \in buckets'
                        THEN spent'[q] > 0 => spent'[q] + tokens'[q]
                               <= Full + (lastRefill'[q] - since) + MaxDelay
                        ELSE spent'[q] > 0 => spent'[q] <= now - since
      BY <1>3 DEF Account
    <2>1. CASE q # k
      BY <1>3, <1>4, <2>1 DEF Inv, Account, TypeOK
    <2>2. CASE q = k
      <3>1. spent'[k] + tokens'[k] = spent[k] + Level(k, t)
        BY <1>4, LevelBounds, RateLimiterAssumption DEF Inv, TypeOK
      <3>2. lastRefill'[k] = RefillTime(k, t) /\ k \in buckets'
        BY <1>3 DEF Inv, TypeOK
      <3>3. spent[k] + Level(k, t) <= Full + (RefillTime(k, t) - since) + MaxDelay
        <4>1. CASE spent[k] = 0
          BY <1>2, <4>1, LevelBounds, RateLimiterAssumption
             DEF Inv, TypeOK, ClockSound
        <4>2. CASE spent[k] > 0 /\ k \in buckets
          BY <4>2, LevelBounds, RateLimiterAssumption DEF Inv, TypeOK, Account
        <4>3. CASE spent[k] > 0 /\ k \notin buckets
          BY <1>2, <4>3, LevelBounds, RateLimiterAssumption DEF Inv, TypeOK, Account
        <4>4. QED
          BY <4>1, <4>2, <4>3 DEF Inv, TypeOK
      <3>4. QED
        BY <2>2, <3>1, <3>2, <3>3
    <2>3. QED
      BY <2>1, <2>2
  <1>8. RefusedSound'
    BY <1>2, <1>3, <1>4, LevelBounds DEF Inv, TypeOK, ClockSound, RefusedSound
  <1>9. OneReading'
    BY <1>3 DEF Inv, TypeOK, OneReading
  <1>10. QED
    BY <1>5, <1>6, <1>7, <1>8, <1>9 DEF Inv

\* What the cleanup goroutine removes had been full.
LEMMA RemoveStep == ASSUME Inv, RemoveStale PROVE Inv'
  <1> USE RateLimiterAssumption DEF Inv, RemoveStale, Stale, history
  <1>1. TypeOK'
    BY DEF TypeOK
  <1>2. ClockSound' /\ RefusedSound' /\ OneReading'
    BY DEF TypeOK, ClockSound, RefusedSound, OneReading
  <1>3. Account'
    <2> SUFFICES ASSUME since >= 0, NEW k \in Stale, spent[k] > 0
                 PROVE  spent[k] <= now - since
      BY DEF Account, TypeOK
    <2>1. /\ spent[k] + tokens[k] <= Full + (lastRefill[k] - since) + MaxDelay
          /\ lastRefill[k] <= lastSeen[k] + MaxDelay
          /\ lastSeen[k] + InactiveAfter <= cleanAt /\ cleanAt <= now
      BY DEF Account, ClockSound, TypeOK
    <2>2. QED
      BY <2>1 DEF TypeOK
  <1>4. QED
    BY <1>1, <1>2, <1>3

\* Each step of callers, cleanup, Stop, clock and observer keeps the invariant.
LEMMA InvStep == Inv /\ [Next]_vars => Inv'
  <1> SUFFICES ASSUME Inv, [Next]_vars PROVE Inv'
    OBVIOUS
  <1> USE RateLimiterAssumption DEF bucketVars, cleanerVars, history
  <1>1. ASSUME NEW c \in Callers, Sample(c) PROVE Inv'
    BY <1>1 DEF Sample, Inv, TypeOK, Readings, ClockSound, Account, RefusedSound, OneReading
  <1>2. ASSUME NEW c \in Callers, Allow(c) PROVE Inv'
    BY <1>2, EnterStep DEF Allow
  <1>3. CASE TickerFires
    BY <1>3 DEF TickerFires, Inv, TypeOK, ClockSound, Account, RefusedSound, OneReading
  <1>4. CASE TakeTick
    <2>1. TypeOK'
      BY <1>4 DEF TakeTick, Inv, TypeOK
    <2>2. ClockSound'
      BY <1>4 DEF TakeTick, Inv, TypeOK, ClockSound
    <2>3. Account' /\ RefusedSound' /\ OneReading'
      BY <1>4 DEF TakeTick, Inv, Account, RefusedSound, OneReading
    <2>4. QED
      BY <2>1, <2>2, <2>3 DEF Inv
  <1>5. CASE RemoveStale
    BY <1>5, RemoveStep
  <1>6. CASE TakeStop
    BY <1>6 DEF TakeStop, Inv, TypeOK, ClockSound, Account, RefusedSound, OneReading
  <1>7. ASSUME NEW s \in Stoppers, StopCall(s) \/ StopReturn(s) PROVE Inv'
    <2>1. TypeOK'
      BY <1>7 DEF StopCall, StopReturn, Inv, TypeOK
    <2>2. ClockSound' /\ Account' /\ RefusedSound' /\ OneReading'
      BY <1>7 DEF StopCall, StopReturn, Inv, ClockSound, Account, RefusedSound, OneReading
    <2>3. QED
      BY <2>1, <2>2 DEF Inv
  <1>8. CASE Tick
    BY <1>8 DEF Tick, Inv, TypeOK, Readings, ClockSound, Account, RefusedSound, OneReading
  <1>9. CASE OpenWindow
    BY <1>9 DEF OpenWindow, Inv, TypeOK, ClockSound, Account, RefusedSound, OneReading
  <1>10. CASE UNCHANGED vars
    BY <1>10 DEF vars, Inv, TypeOK, ClockSound, Account, RefusedSound, OneReading
  <1>11. QED
    BY <1>1, <1>2, <1>3, <1>4, <1>5, <1>6, <1>7, <1>8, <1>9, <1>10 DEF Next, Cleanup

\* The account of every bucket and window holds in every behaviour.
THEOREM Inductive == Spec => []Inv
  BY InvInit, InvStep, PTL DEF Spec

\* In every window a client is admitted for at most one full bucket, the tokens
\* the window refills, and the delay of late callers.
THEOREM WindowBounded == Spec => []WindowBound
  <1>1. ASSUME Inv, since >= 0, NEW k \in Keys
        PROVE  spent[k] <= Full + (now - since) + MaxDelay
    <2> USE <1>1, RateLimiterAssumption DEF Inv, TypeOK
    <2>1. CASE spent[k] = 0
      BY <2>1 DEF ClockSound
    <2>2. CASE spent[k] > 0 /\ k \in buckets
      BY <2>2 DEF ClockSound, Account
    <2>3. CASE spent[k] > 0 /\ k \notin buckets
      BY <2>3 DEF Account
    <2>4. QED
      BY <2>1, <2>2, <2>3
  <1>2. Inv => WindowBound
    BY <1>1 DEF WindowBound
  <1>3. QED
    BY <1>2, Inductive, PTL

\* Whoever waits for one token's refill after a refusal is admitted.
THEOREM RetryAfterHonoured == Spec => RetryAfterSuffices
  <1> DEFINE Honest == \A c \in Callers : \A x \in call[c] : call'[c] = {} =>
             \A t \in denied[x.key] : x.at >= t + Refill => denied'[x.key] = {}
  <1>1. ASSUME Inv, [Next]_vars PROVE Honest
    <2> SUFFICES ASSUME NEW c \in Callers, NEW x \in call[c], call'[c] = {},
                        NEW t \in denied[x.key], x.at >= t + Refill
                 PROVE  denied'[x.key] = {}
      OBVIOUS
    <2>1. x.key \in Keys /\ x.at \in Nat /\ t \in Nat /\ call[c] # {}
      BY <1>1 DEF Inv, TypeOK, Readings
    <2>2. Allow(c)
      BY <1>1, <2>1 DEF Next, Cleanup, vars, Sample, Allow, Enter, TickerFires, TakeTick,
         RemoveStale, TakeStop, StopCall, StopReturn, Tick, OpenWindow, Inv, TypeOK
    <2>3. Level(x.key, x.at) >= Refill
      BY <1>1, <2>1, LevelBounds, RateLimiterAssumption DEF Inv, RefusedSound, TypeOK
    <2>4. QED
      <3>1. Enter(c, x.key, x.at)
        BY <1>1, <2>2 DEF Allow, Inv, OneReading
      <3>2. denied' = [denied EXCEPT ![x.key] = {}]
        BY <2>1, <2>3, <3>1 DEF Enter, Allowed
      <3>3. QED
        BY <1>1, <2>1, <3>2 DEF Inv, TypeOK
  <1>2. Inv /\ [Next]_vars => [Honest]_vars
    BY <1>1
  <1>3. QED
    BY <1>2, Inductive, PTL DEF Spec, RetryAfterSuffices
-----------------------------------------------------------------------------
(* The limiter implements the bucket that time alone fills. *)

\* A drawable level is at most a full bucket and the delay of a caller.
LEMMA DrawableBounds ==
    ASSUME Inv, NEW k \in Keys
    PROVE  Drawable(k) \in 0..(Full + MaxDelay)
  BY RateLimiterAssumption DEF Inv, TypeOK, ClockSound, Drawable

\* An admitted call draws its price from its own bucket and loses at most what stood
\* above the burst; a refused one finds too little and takes nothing.
LEMMA EnterDraws ==
    ASSUME Inv, NEW c \in Callers, NEW k \in Keys, NEW t \in Nat, Enter(c, k, t)
    PROVE  /\ Allowed(k, t) =>
                 /\ Drawable(k) >= Refill
                 /\ Drawable(k)' >= Buckets!Low(Full, Drawable(k)) - Refill
                 /\ Drawable(k)' <= Drawable(k) - Refill
           /\ ~Allowed(k, t) =>
                 /\ Drawable(k) < Refill + MaxDelay
                 /\ Drawable(k)' = Drawable(k)
  <1>1. t <= now /\ now <= t + MaxDelay
    BY DEF Enter, Inv, ClockSound
  <1>2. /\ buckets' = buckets \cup {k} /\ k \in buckets'
        /\ lastRefill'[k] = RefillTime(k, t)
        /\ tokens'[k] = IF Allowed(k, t) THEN Level(k, t) - Refill ELSE Level(k, t)
        /\ now' = now
    BY DEF Enter, Inv, TypeOK
  <1>3. Full \in Nat /\ MaxDelay \in Nat /\ Refill \in Nat \ {0} /\ Refill <= Full
        /\ now \in Nat /\ tokens[k] \in 0..Full /\ lastRefill[k] \in Nat
    BY RateLimiterAssumption DEF Inv, TypeOK
  <1> HIDE DEF Enter
  <1>4. CASE k \notin buckets
    BY <1>1, <1>2, <1>3, <1>4 DEF Drawable, Level, RefillTime, Allowed, Buckets!Low
  <1>5. CASE k \in buckets /\ t <= lastRefill[k]
    BY <1>1, <1>2, <1>3, <1>5 DEF Drawable, Level, RefillTime, Allowed, Buckets!Low, Inv, ClockSound
  <1>6. CASE k \in buckets /\ t > lastRefill[k]
    BY <1>1, <1>2, <1>3, <1>6 DEF Drawable, Level, RefillTime, Allowed, Buckets!Low
  <1>7. QED
    BY <1>3, <1>4, <1>5, <1>6

\* A critical section is an admission or a refusal of the bucket.
LEMMA EnterIsCall ==
    ASSUME Inv, Inv', NEW c \in Callers, NEW x \in call[c], Enter(c, x.key, x.at)
    PROVE  \E k \in Keys : Buckets!Admit(k) \/ Buckets!Refuse(k)
  <1>1. PICK k \in Keys, t \in Nat : k = x.key /\ t = x.at
    BY DEF Inv, TypeOK, Readings
  <1>2. Enter(c, k, t)
    BY <1>1
  <1> DEFINE Lev == [q \in Keys |-> Drawable(q)]
  <1>3. \A q \in Keys : q # k => Drawable(q)' = Drawable(q)
    BY <1>2 DEF Enter, Drawable, Inv, TypeOK
  <1>4. Lev' = [Lev EXCEPT ![k] = Drawable(k)']
    BY <1>3
  <1>5. CASE Allowed(k, t)
    <2>1. denied' = [denied EXCEPT ![k] = {}]
      BY <1>2, <1>5 DEF Enter
    <2>2. {q \in Keys : denied[q] # {}}' = {q \in Keys : denied[q] # {}} \ {k}
      BY <2>1 DEF Inv, TypeOK
    <2>3. Drawable(k)' \in (Buckets!Low(Full, Drawable(k)) - Refill)..(Drawable(k) - Refill)
      BY <1>2, <1>5, EnterDraws, DrawableBounds, RateLimiterAssumption DEF Buckets!Low, Drawable, Inv, TypeOK
    <2>4. Drawable(k) >= Refill
      BY <1>2, <1>5, EnterDraws
    <2>5. Buckets!Admit(k)
      BY <1>4, <2>2, <2>3, <2>4 DEF Buckets!Admit
    <2>6. QED
      BY <2>5
  <1>6. CASE ~Allowed(k, t)
    <2>1. denied' = [denied EXCEPT ![k] = {now}]
      BY <1>2, <1>6 DEF Enter
    <2>2. {q \in Keys : denied[q] # {}}' = {q \in Keys : denied[q] # {}} \cup {k}
      BY <2>1 DEF Inv, TypeOK
    <2>3. Drawable(k) < Refill + MaxDelay /\ Drawable(k)' = Drawable(k)
      BY <1>2, <1>6, EnterDraws
    <2>4. Lev' = Lev
      BY <1>3, <2>3
    <2>5. Buckets!Refuse(k)
      BY <2>2, <2>3, <2>4 DEF Buckets!Refuse
    <2>6. QED
      BY <2>5
  <1>7. QED
    BY <1>5, <1>6

\* Time fills every bucket.
LEMMA TickFills == ASSUME Inv, Tick PROVE Buckets!Fill
  <1>1. \A k \in Keys : Drawable(k)' = Buckets!Low(Full + MaxDelay, Drawable(k) + 1)
    BY RateLimiterAssumption
       DEF Tick, bucketVars, Drawable, Buckets!Low, Inv, TypeOK, ClockSound
  <1>2. denied' = denied
    BY DEF Tick, history
  <1>3. QED
    BY <1>1, <1>2 DEF Buckets!Fill

\* A bucket that is removed had filled up, so that nothing changes.
LEMMA RemovalUnseen ==
    ASSUME Inv, RemoveStale
    PROVE  UNCHANGED <<[k \in Keys |-> Drawable(k)], {k \in Keys : denied[k] # {}}>>
  <1>1. ASSUME NEW k \in Stale
        PROVE  Drawable(k) = Full + MaxDelay /\ Drawable(k)' = Full + MaxDelay
    <2>1. /\ k \in Keys /\ k \in buckets
          /\ lastRefill[k] <= lastSeen[k] + MaxDelay
          /\ lastSeen[k] + InactiveAfter <= cleanAt /\ cleanAt <= now
      BY <1>1, RateLimiterAssumption DEF Stale, Inv, TypeOK, ClockSound
    <2>2. Drawable(k) = Full + MaxDelay
      BY <2>1, RateLimiterAssumption DEF Drawable, Inv, TypeOK
    <2>3. k \notin buckets'
      BY <1>1 DEF RemoveStale
    <2>4. QED
      BY <2>2, <2>3 DEF Drawable
  <1>2. ASSUME NEW k \in Keys, k \notin Stale
        PROVE  Drawable(k)' = Drawable(k)
    BY <1>2 DEF RemoveStale, Drawable
  <1>3. \A k \in Keys : Drawable(k)' = Drawable(k)
    BY <1>1, <1>2
  <1>4. denied' = denied
    BY DEF RemoveStale, history
  <1>5. QED
    BY <1>3, <1>4

\* Every step of the limiter is a step of the bucket or one it does not see.
LEMMA BucketStep ==
    Inv /\ Inv' /\ [Next]_vars => [Buckets!BucketNext]_(Buckets!bucketVars)
  <1> SUFFICES ASSUME Inv, Inv', [Next]_vars
               PROVE  [Buckets!BucketNext]_(Buckets!bucketVars)
    OBVIOUS
  <1> DEFINE Unseen == UNCHANGED <<now, bucketVars, denied>>
  <1>1. ASSUME NEW c \in Callers, Allow(c) PROVE Buckets!BucketNext
    BY <1>1, EnterIsCall DEF Allow, Buckets!BucketNext
  <1>2. CASE Tick
    BY <1>2, TickFills DEF Buckets!BucketNext
  <1>3. CASE RemoveStale
    BY <1>3, RemovalUnseen DEF Buckets!bucketVars
  <1>4. CASE Unseen
    BY <1>4 DEF bucketVars, Drawable, Buckets!bucketVars
  <1>5. ASSUME NEW c \in Callers, Sample(c) PROVE Unseen
    BY <1>5 DEF Sample, history
  <1>6. ASSUME NEW s \in Stoppers, StopCall(s) \/ StopReturn(s) PROVE Unseen
    BY <1>6 DEF StopCall, StopReturn, history
  <1>7. TickerFires \/ TakeTick \/ TakeStop \/ OpenWindow \/ UNCHANGED vars => Unseen
    BY DEF TickerFires, TakeTick, TakeStop, OpenWindow, history, vars
  <1>8. QED
    BY <1>1, <1>2, <1>3, <1>4, <1>5, <1>6, <1>7 DEF Next, Cleanup

\* A limiter without buckets is one whose buckets are full.
LEMMA BucketInitial == Init => Buckets!BucketInit
  BY DEF Init, Buckets!BucketInit, Drawable

\* The limiter with its clock readings, buckets and cleanup admits and refuses as a
\* bucket that only time fills and only admitted calls empty.
THEOREM BucketImplemented == Spec => ImplementsBucket
  <1>1. Inv /\ Inv' /\ [Next]_vars => [Buckets!BucketNext]_(Buckets!bucketVars)
    BY BucketStep
  <1>2. QED
    BY <1>1, BucketInitial, Inductive, PTL DEF Spec, ImplementsBucket, Buckets!BucketSpec

\* Every variable keeps its type; no bucket holds more than the burst.
THEOREM TypeCorrect == Spec => []TypeOK
  BY Inductive, PTL DEF Inv
-----------------------------------------------------------------------------
(* Stop *)

\* Whoever has called Stop has closed stopCh; whoever is back has seen the goroutine end.
StopSound == /\ \A s \in Stoppers : stopper[s] # "idle" => stopCh
             /\ \A s \in Stoppers : stopper[s] = "returned" => cleaner = "done"
             /\ cleaner = "done" => stopCh

\* A goroutine that has ended stays so, and with it no bucket goes away any more.
CleanerGone == cleaner = "done" => cleaner' = "done" /\ buckets \subseteq buckets'

\* A Stop that returned, the first or any other, leaves no goroutine behind: nobody takes
\* a bucket away afterwards, and the calls that are still running go on as before.
THEOREM StopIsFinal == Spec => []StopSound /\ [][CleanerGone]_vars
  <1> USE DEF StopSound, CleanerGone
  <1>1. Init => StopSound
    BY DEF Init
  <1>2. ASSUME TypeOK, StopSound, [Next]_vars PROVE StopSound' /\ [CleanerGone]_vars
    <2> USE DEF cleanerVars, bucketVars
    <2>1. ASSUME NEW c \in Callers, Sample(c) \/ Allow(c) PROVE StopSound' /\ CleanerGone
      BY <1>2, <2>1 DEF Sample, Allow, Enter
    <2>2. CASE TickerFires \/ TakeTick \/ TakeStop
      BY <1>2, <2>2 DEF TickerFires, TakeTick, TakeStop
    <2>3. CASE RemoveStale
      BY <1>2, <2>3 DEF RemoveStale
    <2>4. ASSUME NEW s \in Stoppers, StopCall(s) \/ StopReturn(s)
          PROVE  StopSound' /\ CleanerGone
      BY <1>2, <2>4 DEF StopCall, StopReturn, TypeOK
    <2>5. CASE Tick \/ OpenWindow \/ UNCHANGED vars
      BY <1>2, <2>5 DEF Tick, OpenWindow, vars
    <2>6. QED
      BY <1>2, <2>1, <2>2, <2>3, <2>4, <2>5 DEF Next, Cleanup
  <1>3. TypeOK /\ StopSound /\ [Next]_vars => StopSound' /\ [CleanerGone]_vars
    BY <1>2
  <1>4. QED
    BY <1>1, <1>3, TypeCorrect, PTL DEF Spec
=============================================================================
