------------------------------ MODULE OAuthFlow ------------------------------
(***************************************************************************)
(* Signing in with GitHub or Google up to the moment the provider has named  *)
(* the user: the authorization handlers, the callback handlers, the store of *)
(* states they share (in memory, under a mutex), the state cookie each       *)
(* provider has in a browser, and the redirects between them.                *)
(*                                                                          *)
(* A state stands for the flow's PKCE verifier too: the two are generated    *)
(* and looked up together.                                                   *)
(***************************************************************************)
EXTENDS Naturals

CONSTANTS Providers, Browsers, Requests,
          States,       \* values of GenerateState (bounds the attempts)
          Lifetime,     \* of a flow and of its cookie, in ticks
          MaxNow,       \* bound on the clock
          None          \* no state in a query

ASSUME OAuthFlowAssumption == /\ Lifetime \in Nat \ {0}
                              /\ MaxNow \in Nat
                              /\ None \notin States
                              /\ Providers # {} /\ Browsers # {}

VARIABLES now,
          flows,     \* OAuthStateStore.flows
          jar,       \* browser -> provider -> its state cookie, if it has one
          drawn,     \* states generated so far
          begun,     \* history: attempts that were stored
          sent,      \* states a browser has taken to a provider, which answers
          logins,    \* history: attempts for which onSuccess was called
          pc, req, reply   \* request -> its place, its data, its last Set-Cookie

net  == <<jar, sent>>
vars == <<now, flows, net, drawn, begun, logins, pc, req, reply>>

Flows    == [state : States, provider : Providers, expires : Nat]
Cookies  == [state : States, until : Nat]
Attempts == [state : States, browser : Browsers, provider : Providers]
Data     == [browser : Browsers, provider : Providers, state : States \cup {None},
             code : BOOLEAN,     \* the query has a code
             at : Nat]           \* when a new attempt was made

NoData == [browser |-> CHOOSE b \in Browsers : TRUE,
           provider |-> CHOOSE p \in Providers : TRUE,
           state |-> None, code |-> FALSE, at |-> 0]

TypeOK == /\ now \in Nat
          /\ flows \subseteq Flows
          /\ jar \in [Browsers -> [Providers -> SUBSET Cookies]]
          /\ drawn \subseteq States
          /\ begun \subseteq Attempts
          /\ sent \subseteq States
          /\ logins \subseteq Attempts
          /\ pc \in [Requests -> {"idle", "save", "consume", "exchange", "reply"}]
          /\ req \in [Requests -> Data]
          /\ reply \in [Requests -> {"none", "set", "clear"}]
          /\ \A r \in Requests :
                pc[r] \in {"save", "consume", "exchange"} \/ reply[r] = "set" =>
                   req[r].state \in States

Init == /\ now = 0
        /\ flows = {}
        /\ jar = [b \in Browsers |-> [p \in Providers |-> {}]]
        /\ drawn = {} /\ begun = {} /\ sent = {} /\ logins = {}
        /\ pc = [r \in Requests |-> "idle"]
        /\ req = [r \in Requests |-> NoData]
        /\ reply = [r \in Requests |-> "none"]

Goto(r, step) == pc' = [pc EXCEPT ![r] = step]

Attempt(r) == [state |-> req[r].state, browser |-> req[r].browser,
               provider |-> req[r].provider]
-----------------------------------------------------------------------------
(* GET /auth/<provider> *)

\* State, verifier and expiry are made before the store's mutex is asked for.
Start(r) ==
    /\ pc[r] = "idle"
    /\ \E b \in Browsers, p \in Providers, s \in States \ drawn :
          /\ req' = [req EXCEPT ![r] = [browser |-> b, provider |-> p, state |-> s,
                                        code |-> FALSE, at |-> now]]
          /\ drawn' = drawn \cup {s}
    /\ Goto(r, "save")
    /\ UNCHANGED <<now, flows, net, begun, logins, reply>>

\* What Save leaves of the flows it finds.
Kept(t) == {f \in flows : f.expires > t}

\* AuthorizationURL may fail: then the cookie is taken back, the flow stays.
Save(r) ==
    /\ pc[r] = "save"
    /\ flows' = Kept(req[r].at) \cup
                  {[state |-> req[r].state, provider |-> req[r].provider,
                    expires |-> req[r].at + Lifetime]}
    /\ begun' = begun \cup {Attempt(r)}
    /\ \E c \in {"set", "clear"} : reply' = [reply EXCEPT ![r] = c]
    /\ Goto(r, "reply")
    /\ UNCHANGED <<now, net, drawn, logins, req>>
-----------------------------------------------------------------------------
(* GET /auth/<provider>/callback *)

SentCookie(b, p) == {c.state : c \in {d \in jar[b][p] : now < d.until}}

\* Fault: two missing values compare equal.
EmptyMatches(b, p, s) == \/ s \in SentCookie(b, p)
                         \/ s = None /\ SentCookie(b, p) = {}

CookieMatches(b, p, s) == s # None /\ s \in SentCookie(b, p)

\* The provider's redirect, followed in any browser and any number of times, with
\* a code, without one, or with an error. Every answer clears the state cookie.
Callback(r) ==
    /\ pc[r] = "idle"
    /\ \E b \in Browsers, p \in Providers, s \in sent \cup {None},
          answer \in {"code", "nothing", "error"} :
          /\ req' = [req EXCEPT ![r] = [browser |-> b, provider |-> p, state |-> s,
                                        code |-> answer = "code", at |-> 0]]
          /\ Goto(r, IF answer # "error" /\ CookieMatches(b, p, s)
                     THEN "consume" ELSE "reply")
    /\ reply' = [reply EXCEPT ![r] = "clear"]
    /\ UNCHANGED <<now, flows, net, drawn, begun, logins>>

Found(r) == {f \in flows : f.state = req[r].state}

\* Fault: the flow is left for the next Save to remove.
Unspent(r) == flows

Without(r) == flows \ Found(r)

\* Not expired, and of the provider that answers; the latter is so already, since the
\* cookie that was compared is kept by provider.
Valid(r) == \E f \in Found(r) : now <= f.expires /\ f.provider = req[r].provider

\* One critical section: a flow of another provider stays, an expired one goes.
Consume(r) ==
    /\ pc[r] = "consume"
    /\ \/ /\ Valid(r)
          /\ flows' = Without(r)
          /\ Goto(r, IF req[r].code THEN "exchange" ELSE "reply")
       \/ /\ ~Valid(r)
          /\ flows' = flows \ {f \in Found(r) : now > f.expires}
          /\ Goto(r, "reply")
    /\ UNCHANGED <<now, net, drawn, begun, logins, req, reply>>

\* ExchangeCode and FetchUser answer, or fail: the state is spent either way.
Exchange(r) ==
    /\ pc[r] = "exchange"
    /\ \/ logins' = logins \cup {Attempt(r)}
       \/ UNCHANGED logins
    /\ Goto(r, "reply")
    /\ UNCHANGED <<now, flows, net, drawn, begun, req, reply>>
-----------------------------------------------------------------------------
\* Fault: one cookie name for all providers.
SharedCookie(p) == Providers

\* The providers whose state a response's Set-Cookie is about.
CookieOf(p) == {p}

NewCookie(r) == IF reply[r] = "set" THEN {[state |-> req[r].state, until |-> now + Lifetime]}
                                    ELSE {}

\* The response arrives, and a redirect is followed, or it is lost.
Reply(r) ==
    /\ pc[r] = "reply"
    /\ \/ /\ jar' = [jar EXCEPT ![req[r].browser] =
                       [p \in Providers |-> IF p \in CookieOf(req[r].provider)
                                            THEN NewCookie(r) ELSE @[p]]]
          /\ sent' = IF reply[r] = "set" THEN sent \cup {req[r].state} ELSE sent
       \/ UNCHANGED net
    /\ Goto(r, "idle")
    /\ req' = [req EXCEPT ![r] = NoData]
    /\ reply' = [reply EXCEPT ![r] = "none"]
    /\ UNCHANGED <<now, flows, drawn, begun, logins>>

\* The store is in memory only.
Crash == /\ flows' = {}
         /\ pc' = [r \in Requests |-> "idle"]
         /\ req' = [r \in Requests |-> NoData]
         /\ reply' = [r \in Requests |-> "none"]
         /\ UNCHANGED <<now, net, drawn, begun, logins>>

Tick == /\ now < MaxNow
        /\ now' = now + 1
        /\ UNCHANGED <<flows, net, drawn, begun, logins, pc, req, reply>>

Next == \/ \E r \in Requests : \/ Start(r) \/ Save(r)
                               \/ Callback(r) \/ Consume(r) \/ Exchange(r)
                               \/ Reply(r)
        \/ Crash
        \/ Tick

Spec == Init /\ [][Next]_vars
-----------------------------------------------------------------------------
(* Properties *)

\* An attempt can still succeed: its flow is stored, its browser has the cookie.
Pending(b, p, s) == /\ \E f \in flows : f.state = s /\ f.provider = p
                    /\ s \in SentCookie(b, p)

\* An attempt stops being possible only when its time is over, when its own browser
\* begins or ends one with the same provider, or when the process ends: neither
\* another browser's requests nor another provider's answers take it away.
AttemptsLast ==
    [][\A b \in Browsers, p \in Providers, s \in States :
          Pending(b, p, s) /\ ~Pending(b, p, s)' =>
             \/ \E f \in flows : f.state = s /\ f.expires <= now'
             \/ \E c \in jar[b][p] : c.state = s /\ c.until <= now'
             \/ \E r \in Requests : /\ req[r].browser = b /\ req[r].provider = p
                                    /\ pc[r] \in {"consume", "reply"} /\ pc'[r] # pc[r]
             \/ Crash]_vars

\* Attempts are used at most once, by their own browser and provider.
Promise == INSTANCE OAuthService WITH
              used <- {a.state : a \in begun},
              open <- {a \in begun : \E f \in flows : f.state = a.state},
              held <- {a \in begun : \E r \in Requests : pc[r] = "exchange"
                                                         /\ req[r].state = a.state}

ImplementsService == Promise!Spec
=============================================================================
