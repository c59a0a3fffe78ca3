----------------------------- MODULE HttpLimits -----------------------------
(***************************************************************************)
(* The middleware that limits requests by client: a global limiter for all,   *)
(* then the limiter of the request's rule. A limiter is a TokenBucket, which   *)
(* RateLimiter implements. A tick is half a second.                           *)
(*                                                                          *)
(* A client stands for the key that clientKey makes of RemoteAddr.            *)
(***************************************************************************)
EXTENDS Config

CONSTANTS Connections, \* each serves one request at a time
          Clients,     \* keys of clients
          Sent,        \* what a client may ask for
          Full,        \* ticks that fill a bucket: a minute in the code
          Slack,       \* ticks a call may lose between clock and mutex
          MaxAge       \* ticks the observer's window is kept open

Rules    == {"login", "register", "post", "comment", "reaction"}
Limiters == Rules \cup {"global"}
NoLimit  == "none"

\* Requests a minute, by the policies of newHTTPRateLimiter.
PerMinute(l) == CASE l = "global"                -> 120
                  [] l \in {"login", "register"} -> 5
                  [] l = "post"                  -> 20
                  [] l = "comment"               -> 30
                  [] l = "reaction"              -> 60

Price(l) == 120 \div PerMinute(l)

\* Fault: the time of one token, cut to whole seconds.
WaitCut(l) == (Price(l) \div 2) * 2

\* Retry-After: a second for the global limiter, else retryAfterForRule.
Wait(l) == CASE l \in {"login", "register"}   -> 24
             [] l = "post"                    -> 6
             [] l = "comment"                 -> 4
             [] l \in {"global", "reaction"}  -> 2

\* A full bucket pays for a request: a minute does, for every limiter.
ASSUME HttpLimitsAssumption ==
    /\ Clients # {} /\ Sent # {} /\ Sent \subseteq Targets
    /\ Full \in Nat \ {0} /\ Slack \in Nat /\ MaxAge \in Nat
    /\ \A q \in Sent : Rule(q) # NoLimit => Price(Rule(q)) <= Full

VARIABLES level, refused,  \* the buckets, by limiter and client
          place,           \* connection -> where its request is
          client, query,   \* connection -> who asks for what
          providers,       \* whose routes were declared
          closing,         \* Shutdown was called: the listener is closed
          window,          \* history: one limiter of one client observed, if any
          told,            \* history: client -> the Retry-After it heeds, if any
          promised         \* history: connection -> limiters the wait it heeded was for

limitVars == <<level, refused>>
askVars   == <<client, query>>
history   == <<window, told, promised>>

Buckets == INSTANCE TokenBucket
             WITH Keys <- Limiters \X Clients,
                  Cost <- [k \in Limiters \X Clients |-> Price(k[1])]

LimitPlaces == {"global", "rule"}

\* What a connection without a request has.
Nobody  == CHOOSE c \in Clients : TRUE
Nothing == CHOOSE q \in Sent : TRUE

Windows  == [limiter : Limiters, client : Clients, age : 0..MaxAge, count : Nat]
Promises == [limiters : SUBSET Limiters, asked : Sent, left : Nat]

LimitsTypeOK ==
    /\ level \in [Limiters \X Clients -> 0..(Full + Slack)]
    /\ refused \subseteq Limiters \X Clients
    /\ client \in [Connections -> Clients] /\ query \in [Connections -> Sent]
    /\ window \subseteq Windows
    /\ told \in [Clients -> SUBSET Promises]
    /\ promised \in [Connections -> SUBSET Limiters]
    /\ \A r \in Connections : place[r] = "rule" => Rule(query[r]) \in Rules
-----------------------------------------------------------------------------
\* The handler the router calls, or the status it answers with.
Target(r) == Handler(query[r], providers)

\* The limit of the handler that the router will choose.
Due(r) == LimitOf(query[r], Target(r))

\* History: a request is counted when its own limiter, or the global one, let it by.
\* An observer starts with any request that is counted.
Counted(r, limits) ==
    LET theirs(w) == w.client = client[r] /\ w.limiter \in limits
        first(l)  == {[limiter |-> l, client |-> client[r], age |-> 0, count |-> 1]}
    IN  {{IF theirs(w) THEN [w EXCEPT !.count = @ + 1] ELSE w : w \in window}}
          \cup (IF window = {} THEN {first(l) : l \in limits \ {NoLimit}} ELSE {})

OthersAsking(r, c) ==
    \E x \in Connections \ {r} : client[x] = c /\ place[x] \in LimitPlaces

\* A request is read from an open connection. History: it heeds a Retry-After if the
\* client has waited, asks for the same, and sends nothing else meanwhile.
Arrive(r) ==
    /\ place[r] = "connected"
    /\ place' = [place EXCEPT ![r] = "global"]
    /\ \E c \in Clients, q \in Sent :
          LET heeded == {t \in told[c] : t.left = 0 /\ t.asked = q}
          IN  /\ client' = [client EXCEPT ![r] = c]
              /\ query' = [query EXCEPT ![r] = q]
              /\ told' = [told EXCEPT ![c] = {}]
              /\ promised' = [x \in Connections |->
                                IF x = r THEN UNION {t.limiters : t \in heeded}
                                ELSE IF client[x] = c THEN {} ELSE promised[x]]
    /\ UNCHANGED <<limitVars, providers, closing, window>>

\* The response is written and logged; a server that stops closes the connection.
Finish(r) ==
    /\ place' = [place EXCEPT ![r] = IF closing THEN "idle" ELSE "connected"]
    /\ client' = [client EXCEPT ![r] = Nobody]
    /\ query' = [query EXCEPT ![r] = Nothing]
    /\ promised' = [promised EXCEPT ![r] = {}]

PassTo(r, to) == /\ place' = [place EXCEPT ![r] = to]
                 /\ UNCHANGED <<askVars, promised>>

\* Past the limiters.
CallRouter(r) == IF Target(r) \in Pages THEN PassTo(r, "handler") ELSE Finish(r)

\* writeRateLimitExceeded, with the wait of the limiter that refused; what the rule's
\* limiter would say of a request the global one refused is not looked at. History:
\* the client may heed it.
TooMany(r, l) ==
    /\ Finish(r)
    /\ told' = [told EXCEPT ![client[r]] =
                  IF OthersAsking(r, client[r]) THEN {}
                  ELSE {[limiters |-> {"global", l}, asked |-> query[r], left |-> Wait(l) + Slack]}]
    /\ UNCHANGED window

\* HTTPRateLimiter.Middleware: the global limiter, spent also by what the rule's
\* limiter then refuses,
AskGlobal(r) ==
    /\ place[r] = "global"
    /\ \/ /\ Buckets!Admit(<<"global", client[r]>>)
          /\ \/ /\ Rule(query[r]) = NoLimit
                /\ CallRouter(r)
                /\ window' \in Counted(r, {"global", Due(r)})
             \/ /\ Rule(query[r]) # NoLimit
                /\ PassTo(r, "rule")
                /\ window' \in Counted(r, {"global"})
          /\ UNCHANGED told
       \/ Buckets!Refuse(<<"global", client[r]>>) /\ TooMany(r, "global")
    /\ UNCHANGED <<providers, closing>>

\* and the rule's limiter if there is a rule.
AskRule(r) ==
    /\ place[r] = "rule"
    /\ LET l == Rule(query[r])
       IN  \/ /\ Buckets!Admit(<<l, client[r]>>)
              /\ CallRouter(r)
              /\ window' \in Counted(r, {Due(r)})
              /\ UNCHANGED told
           \/ Buckets!Refuse(<<l, client[r]>>) /\ TooMany(r, l)
    /\ UNCHANGED <<providers, closing>>

\* Half a second.
Tick ==
    /\ Buckets!Fill
    /\ window' = {[w EXCEPT !.age = @ + 1] : w \in {w \in window : w.age < MaxAge}}
    /\ told' = [c \in Clients |->
                  {[t EXCEPT !.left = IF @ > 0 THEN @ - 1 ELSE 0] : t \in told[c]}]
    /\ UNCHANGED <<place, askVars, providers, closing, promised>>

-----------------------------------------------------------------------------
(* Properties *)

\* Whatever the path looks like, a client gets no more requests through to the
\* handlers of a rule, and to all of them, than the rule's bucket and its refill
\* allow: the middleware and the router agree on which requests these are.
RulesHold == \A w \in window : w.count * Price(w.limiter) <= Full + w.age + Slack

\* The limiter a request is in front of, if any; it leaves unpaid if it is refused.
Asked(r) == CASE place[r] = "global" -> "global" [] place[r] = "rule" -> Rule(query[r])
              [] OTHER -> NoLimit

\* A client that was refused, waits as long as Retry-After says, sends nothing meanwhile
\* and asks for the same again passes the limiter that refused it, and the global one.
\* Nothing is said of the rule's limiter when the global one refused.
WaitSuffices ==
    [][\A r \in Connections :
          Asked(r) \in promised[r] /\ place'[r] # place[r] => level' # level]_<<place, limitVars>>

\* "Retry-After is valid when present" (docs/tasks.md:581): such a client is refused by
\* no limiter. The code answers a second to whatever the global limiter refuses, also
\* to a request whose rule's limiter will refuse it after that second.
RetryAfterIsValid ==
    [][\A r \in Connections :
          promised[r] # {} /\ Asked(r) # NoLimit /\ place'[r] # place[r]
             => level' # level]_<<place, limitVars>>
=============================================================================
