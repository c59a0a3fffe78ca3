---------------------------- MODULE TokenBucket ----------------------------
(***************************************************************************)
(* What a rate limiter promises, without its mutex, clock readings, buckets  *)
(* that come and go and cleanup: by key, a level that time fills and that     *)
(* admitted calls draw from. RateLimiter is shown to implement it and         *)
(* HttpLimits is built on it.                                                *)
(*                                                                          *)
(* Callers may reach the limiter up to Slack ticks after they read the clock. *)
(* So the level stands above the burst by up to Slack, an admitted call may    *)
(* find part of that lost, and a call may be refused when the level is short   *)
(* by no more than that.                                                     *)
(***************************************************************************)
EXTENDS Integers

CONSTANTS Keys,    \* one bucket for each
          Full,    \* ticks that fill an empty bucket
          Cost,    \* key -> ticks that pay for one call
          Slack    \* ticks between a caller's clock and its turn

VARIABLES level,    \* key -> what may be drawn
          refused   \* the keys whose last call was refused

bucketVars == <<level, refused>>

Low(a, b) == IF a <= b THEN a ELSE b

BucketInit == /\ level = [k \in Keys |-> Full + Slack]
              /\ refused = {}

\* A call is let through and paid for; what stood above the burst may be lost.
Admit(k) ==
    /\ level[k] >= Cost[k]
    /\ \E n \in (Low(Full, level[k]) - Cost[k])..(level[k] - Cost[k]) :
          level' = [level EXCEPT ![k] = n]
    /\ refused' = refused \ {k}

\* A call is refused and costs nothing.
Refuse(k) ==
    /\ level[k] < Cost[k] + Slack
    /\ refused' = refused \cup {k}
    /\ UNCHANGED level

Fill == /\ level' = [k \in Keys |-> Low(Full + Slack, level[k] + 1)]
        /\ UNCHANGED refused

BucketNext == Fill \/ \E k \in Keys : Admit(k) \/ Refuse(k)

BucketSpec == BucketInit /\ [][BucketNext]_bucketVars
=============================================================================
