--------------------------- MODULE LifecycleProofs ---------------------------
(***************************************************************************)
(* Theorems about Routes, Config, HttpLimits and Lifecycle, for every set of   *)
(* connections, clients, requests and environments.                          *)
(***************************************************************************)
EXTENDS Lifecycle, TLAPS

-----------------------------------------------------------------------------
(* Routes and configuration *)

\* A path has a first segment.
LEMMA TargetPath ==
    ASSUME NEW q \in Targets
    PROVE  q.path \in Seq(STRING) /\ Len(q.path) \in Nat \ {0}
<1>1. q.path \in Seq(STRING) /\ q.path # <<>>
  BY DEF Targets
<1> QED BY <1>1

\* What literal paths look like.
LEMMA Segments ==
    ASSUME NEW path
    PROVE  /\ \A a : path = <<a>> => Len(path) = 1 /\ path[1] = a
           /\ \A a, b : path = <<a, b>> => Len(path) = 2
           /\ \A a, b, c : path = <<a, b, c>> => Len(path) = 3
<1>1. ASSUME NEW a, path = <<a>> PROVE Len(path) = 1 /\ path[1] = a
  BY <1>1
<1>2. ASSUME NEW a, NEW b, path = <<a, b>> PROVE Len(path) = 2
  BY <1>2
<1>3. ASSUME NEW a, NEW b, NEW c, path = <<a, b, c>> PROVE Len(path) = 3
  BY <1>3
<1> QED BY <1>1, <1>2, <1>3

\* A POST to a path of one segment that reaches a handler.
LEMMA PostToOne ==
    ASSUME NEW q, NEW enabled,
           Len(q.path) = 1, q.method = "POST", Handler(q, enabled) \in Pages
    PROVE  \/ q.path = <<"register">> /\ Handler(q, enabled) = "register"
           \/ q.path = <<"login">> /\ Handler(q, enabled) = "login"
           \/ q.path = <<"logout">> /\ Handler(q, enabled) = "logout"
           \/ q.path = <<"posts">> /\ Handler(q, enabled) = "post creation"
<1>0. "301" \notin Pages /\ "405" \notin Pages /\ "404" \notin Pages
  BY DEF Pages
<1>1. ~Redirected(q)
  BY <1>0 DEF Handler
<1>2. ~Under(q, "static") /\ ~Under(q, "posts") /\ ~Under(q, "comments")
  BY DEF Under
<1>3. /\ ~Exactly(q, <<"posts", "new">>)
      /\ \A p : ~Exactly(q, <<"auth", p>>)
      /\ \A p : ~Exactly(q, <<"auth", p, "callback">>)
  BY Segments DEF Exactly
<1>4. /\ \A h : ByMethod(q, {"GET"}, h) = "405"
      /\ \A h : ByMethod(q, {"POST"}, h) = h
      /\ \A h : ByMethod(q, {"GET", "POST"}, h) = h
  BY DEF ByMethod
<1>5. /\ Exactly(q, <<"register">>) => q.path[1] = "register"
      /\ Exactly(q, <<"login">>) => q.path[1] = "login"
      /\ Exactly(q, <<"logout">>) => q.path[1] = "logout"
      /\ Exactly(q, <<"posts">>) => q.path[1] = "posts"
  BY Segments DEF Exactly
<1>6. CASE Exactly(q, <<"register">>)
  <2>1. ~Exactly(q, <<"login">>) /\ ~Exactly(q, <<"logout">>) /\ ~Exactly(q, <<"posts">>)
    BY <1>5, <1>6
  <2>2. Handler(q, enabled) = "register"
    BY <1>1, <1>2, <1>3, <1>4, <1>6, <2>1 DEF Handler
  <2>3. q.path = <<"register">>
    BY <1>6 DEF Exactly
  <2> QED BY <2>2, <2>3
<1>7. CASE Exactly(q, <<"login">>)
  <2>1. ~Exactly(q, <<"register">>) /\ ~Exactly(q, <<"logout">>) /\ ~Exactly(q, <<"posts">>)
    BY <1>5, <1>7
  <2>2. Handler(q, enabled) = "login"
    BY <1>1, <1>2, <1>3, <1>4, <1>7, <2>1 DEF Handler
  <2>3. q.path = <<"login">>
    BY <1>7 DEF Exactly
  <2> QED BY <2>2, <2>3
<1>8. CASE Exactly(q, <<"logout">>)
  <2>1. ~Exactly(q, <<"register">>) /\ ~Exactly(q, <<"login">>) /\ ~Exactly(q, <<"posts">>)
    BY <1>5, <1>8
  <2>2. Handler(q, enabled) = "logout"
    BY <1>1, <1>2, <1>3, <1>4, <1>8, <2>1 DEF Handler
  <2>3. q.path = <<"logout">>
    BY <1>8 DEF Exactly
  <2> QED BY <2>2, <2>3
<1>9. CASE Exactly(q, <<"posts">>)
  <2>1. ~Exactly(q, <<"register">>) /\ ~Exactly(q, <<"login">>) /\ ~Exactly(q, <<"logout">>)
    BY <1>5, <1>9
  <2>2. Handler(q, enabled) = "post creation"
    BY <1>1, <1>2, <1>3, <1>4, <1>9, <2>1 DEF Handler
  <2>3. q.path = <<"posts">>
    BY <1>9 DEF Exactly
  <2> QED BY <2>2, <2>3
<1>10. CASE ~ (\/ Exactly(q, <<"register">>) \/ Exactly(q, <<"login">>)
             \/ Exactly(q, <<"logout">>) \/ Exactly(q, <<"posts">>))
  <2>1. Handler(q, enabled) = "405"
    BY <1>1, <1>2, <1>3, <1>4, <1>10 DEF Handler, Home
  <2> QED BY <1>0, <2>1
<1> QED BY <1>6, <1>7, <1>8, <1>9, <1>10

\* And of more.
LEMMA PostToMore ==
    ASSUME NEW q, NEW enabled,
           Len(q.path) > 1, Len(q.path) # 1, q.method = "POST", Handler(q, enabled) \in Pages
    PROVE  \/ Item(q.path, "posts", "comments") /\ Handler(q, enabled) = "comment"
           \/ Item(q.path, "posts", "react") /\ Handler(q, enabled) = "post reaction"
           \/ Item(q.path, "comments", "react") /\ Handler(q, enabled) = "comment reaction"
<1>0. "301" \notin Pages /\ "405" \notin Pages /\ "404" \notin Pages
  BY DEF Pages
<1>1. ~Redirected(q)
  BY <1>0 DEF Handler
<1>2. ASSUME NEW a PROVE ~Exactly(q, <<a>>)
  <2>1. q.path = <<a>> => Len(q.path) = 1
    OBVIOUS
  <2> QED BY <2>1 DEF Exactly
<1>3. \A h : ByMethod(q, {"GET"}, h) = "405" /\ ByMethod(q, {"POST"}, h) = h
  BY DEF ByMethod
<1>4. CASE Under(q, "posts")
  <2>1. ~Exactly(q, <<"posts", "new">>)
    <3>1. SUFFICES ASSUME Exactly(q, <<"posts", "new">>) PROVE FALSE
      OBVIOUS
    <3>2. ~Under(q, "comments")
      BY <1>4 DEF Under
    <3>3. Handler(q, enabled) = "405"
      BY <1>1, <1>2, <1>3, <3>1, <3>2 DEF Handler
    <3> QED BY <1>0, <3>3
  <2>2. q.path[1] = "posts"
    BY <1>4 DEF Under
  <2>3. ~Under(q, "static") /\ ~Under(q, "comments")
    BY <2>2 DEF Under
  <2>4. \A p : q.path # <<"auth", p>> /\ q.path # <<"auth", p, "callback">>
    <3>1. ASSUME NEW p, q.path = <<"auth", p>> PROVE FALSE
      BY <2>2, <3>1
    <3>2. ASSUME NEW p, q.path = <<"auth", p, "callback">> PROVE FALSE
      BY <2>2, <3>2
    <3> QED BY <3>1, <3>2
  <2>5. Handler(q, enabled) = PostRoutes(q)
    BY <1>1, <1>2, <1>4, <2>1, <2>3, <2>4 DEF Handler, Exactly
  <2>6. ~(Item(q.path, "posts", "comments") /\ Item(q.path, "posts", "react"))
    BY DEF Item
  <2>7. Item(q.path, "posts", "comments") \/ Item(q.path, "posts", "react") => Len(q.path) = 3
    BY DEF Item
  <2> QED BY <1>0, <1>3, <2>5, <2>6, <2>7 DEF PostRoutes
<1>5. CASE ~Under(q, "posts") /\ Under(q, "comments")
  <2>2. q.path[1] = "comments"
    BY <1>5 DEF Under
  <2>3. ~Under(q, "static")
    BY <2>2 DEF Under
  <2>4. \A p : q.path # <<"auth", p>> /\ q.path # <<"auth", p, "callback">>
    <3>1. ASSUME NEW p, q.path = <<"auth", p>> PROVE FALSE
      BY <2>2, <3>1
    <3>2. ASSUME NEW p, q.path = <<"auth", p, "callback">> PROVE FALSE
      BY <2>2, <3>2
    <3> QED BY <3>1, <3>2
  <2>5. q.path # <<"posts", "new">>
    BY <2>2
  <2>6. Handler(q, enabled) = CommentRoutes(q)
    BY <1>1, <1>2, <1>5, <2>3, <2>4, <2>5 DEF Handler, Exactly
  <2> QED BY <1>0, <1>3, <2>6 DEF CommentRoutes
<1>6. CASE ~Under(q, "posts") /\ ~Under(q, "comments")
  <2>1. Handler(q, enabled) = "405"
    BY <1>1, <1>2, <1>3, <1>6 DEF Handler, Home
  <2> QED BY <1>0, <2>1
<1> QED BY <1>4, <1>5, <1>6

\* A POST that reaches a handler with a limit of its own is counted against that
\* limit, and no other request that reaches a handler is counted: also when slashes
\* came encoded, with empty segments, and whichever providers are enabled.
THEOREM RuleFollowsRoute ==
    ASSUME NEW q \in Targets, NEW enabled \in SUBSET Providers,
           Handler(q, enabled) \in Pages
    PROVE  LimitOf(q, Handler(q, enabled)) = Rule(q)
<1>1. CASE q.method # "POST"
  BY <1>1 DEF Rule, LimitOf
<1>2. CASE q.method = "POST" /\ Len(q.path) = 1
  <2>1. \A kind, what : ~Item(q.path, kind, what)
    BY <1>2 DEF Item
  <2>2. \/ q.path = <<"register">> /\ Handler(q, enabled) = "register"
        \/ q.path = <<"login">> /\ Handler(q, enabled) = "login"
        \/ q.path = <<"logout">> /\ Handler(q, enabled) = "logout"
        \/ q.path = <<"posts">> /\ Handler(q, enabled) = "post creation"
    BY <1>2, PostToOne
  <2>3. CASE q.path = <<"register">> /\ Handler(q, enabled) = "register"
    BY <1>2, <2>1, <2>3 DEF Rule, LimitOf
  <2>4. CASE q.path = <<"login">> /\ Handler(q, enabled) = "login"
    BY <1>2, <2>1, <2>4 DEF Rule, LimitOf
  <2>5. CASE q.path = <<"logout">> /\ Handler(q, enabled) = "logout"
    BY <1>2, <2>1, <2>5 DEF Rule, LimitOf
  <2>6. CASE q.path = <<"posts">> /\ Handler(q, enabled) = "post creation"
    <3>1. <<"posts">> # <<"login">> /\ <<"posts">> # <<"register">>
      OBVIOUS
    <3>2. Rule(q) = "post"
      BY <1>2, <2>1, <2>6, <3>1 DEF Rule
    <3> QED BY <1>2, <2>6, <3>2 DEF LimitOf
  <2> QED BY <2>2, <2>3, <2>4, <2>5, <2>6
<1>3. CASE q.method = "POST" /\ Len(q.path) # 1
  <2>1. Len(q.path) > 1
    <3>1. Len(q.path) \in Nat \ {0}
      BY TargetPath
    <3>2. \A n \in Nat \ {0} : n # 1 => n > 1
      OBVIOUS
    <3> QED BY <1>3, <3>1, <3>2
  <2>2. \A a : q.path # <<a>>
    BY <1>3, Segments
  <2>3. \/ Item(q.path, "posts", "comments") /\ Handler(q, enabled) = "comment"
        \/ Item(q.path, "posts", "react") /\ Handler(q, enabled) = "post reaction"
        \/ Item(q.path, "comments", "react") /\ Handler(q, enabled) = "comment reaction"
    BY <1>3, <2>1, PostToMore
  <2>4. ~(Item(q.path, "posts", "comments") /\ Item(q.path, "posts", "react"))
        /\ ~(Item(q.path, "posts", "comments") /\ Item(q.path, "comments", "react"))
    BY DEF Item
  <2> QED BY <1>3, <2>2, <2>3, <2>4 DEF Rule, LimitOf
<1> QED BY <1>1, <1>2, <1>3

\* What Load accepts: HTTPS comes with secure cookies and both files, a provider's
\* routes with all its settings and an absolute redirect URL.
THEOREM LoadedIsSound ==
    ASSUME NEW e \in Environments, Valid(e)
    PROVE  /\ Loaded(e).https => Loaded(e).secure /\ e.cert = "path" /\ e.key = "path"
           /\ \A p \in Loaded(e).providers : e.set[p] = Settings /\ e.url[p] = "absolute"
<1>1. Loaded(e).https => Loaded(e).secure /\ e.cert = "path" /\ e.key = "path"
  BY DEF Loaded, SecureCookie, Valid, ValidHTTPS, Pair
<1>2. ASSUME NEW p \in Loaded(e).providers
      PROVE  e.set[p] = Settings /\ e.url[p] = "absolute"
  BY DEF Loaded, Enabled, Valid, ValidProvider
<1> QED BY <1>1, <1>2
-----------------------------------------------------------------------------
(* Limiters and buckets *)

LevelsOK == level \in [Limiters \X Clients -> 0..(Full + Slack)]

\* There is a client and a request to stand for none.
LEMMA Defaults == Nobody \in Clients /\ Nothing \in Sent
  BY HttpLimitsAssumption DEF Nobody, Nothing

\* A request costs something, and Retry-After pays for it, with each limiter and with
\* the global one.
LEMMA Prices == \A l \in Limiters : /\ Price(l) \in Nat \ {0} /\ Wait(l) \in Nat
                                    /\ Price(l) <= Wait(l) /\ Price("global") <= Wait(l)
<1>1. /\ PerMinute("global") = 120 /\ PerMinute("login") = 5 /\ PerMinute("register") = 5
      /\ PerMinute("post") = 20 /\ PerMinute("comment") = 30 /\ PerMinute("reaction") = 60
  BY DEF PerMinute
<1>2. /\ Wait("global") = 2 /\ Wait("login") = 24 /\ Wait("register") = 24
      /\ Wait("post") = 6 /\ Wait("comment") = 4 /\ Wait("reaction") = 2
  BY DEF Wait
<1>3. /\ Price("global") = 1 /\ Price("login") = 24 /\ Price("register") = 24
      /\ Price("post") = 6 /\ Price("comment") = 4 /\ Price("reaction") = 2
  BY <1>1 DEF Price
<1> QED BY <1>2, <1>3 DEF Limiters, Rules

\* A rule names a limiter other than the global one.
LEMMA RuleKinds == \A q : Rule(q) \in Rules \cup {NoLimit}
  BY DEF Rule, Rules, NoLimit

\* The names of rules, of the global limiter and of none differ.
LEMMA RuleNames == "global" \notin Rules /\ NoLimit \notin Limiters /\ Rules \subseteq Limiters
  BY DEF Rules, Limiters, NoLimit

\* The step of a bucket that admits.
LEMMA AdmitIs ==
    ASSUME LevelsOK, NEW l \in Limiters, NEW c \in Clients,
           Price(l) <= Full, Buckets!Admit(<<l, c>>)
    PROVE  /\ LevelsOK'
           /\ level'[<<l, c>>] <= level[<<l, c>>] - Price(l)
           /\ \A k \in Limiters \X Clients : k # <<l, c>> => level'[k] = level[k]
           /\ level' # level
           /\ refused' \subseteq refused
<1> DEFINE k == <<l, c>>
<1>1. k \in Limiters \X Clients /\ Price(l) \in Nat \ {0} /\ Full \in Nat /\ Slack \in Nat
  BY Prices, HttpLimitsAssumption
<1>2. [x \in Limiters \X Clients |-> Price(x[1])][k] = Price(l)
  BY <1>1
<1>3. level[k] >= Price(l) /\ level[k] \in 0..(Full + Slack)
  BY <1>1, <1>2 DEF Buckets!Admit, LevelsOK
<1>4. PICK n \in (Buckets!Low(Full, level[k]) - Price(l))..(level[k] - Price(l)) :
        level' = [level EXCEPT ![k] = n]
  BY <1>2 DEF Buckets!Admit
<1>5. n \in 0..(Full + Slack) /\ n <= level[k] - Price(l)
  <2>1. CASE Full <= level[k]
    BY <1>1, <1>3, <1>4, <2>1 DEF Buckets!Low
  <2>2. CASE ~(Full <= level[k])
    BY <1>1, <1>3, <1>4, <2>2 DEF Buckets!Low
  <2> QED BY <2>1, <2>2
<1>6. LevelsOK' /\ level'[k] = n /\ \A x \in Limiters \X Clients : x # k => level'[x] = level[x]
  BY <1>1, <1>4, <1>5 DEF LevelsOK
<1>7. n # level[k]
  BY <1>1, <1>3, <1>5
<1>8. refused' \subseteq refused
  BY DEF Buckets!Admit
<1> QED BY <1>5, <1>6, <1>7, <1>8

\* And one that refuses.
LEMMA RefuseIs ==
    ASSUME NEW l \in Limiters, NEW c \in Clients, Buckets!Refuse(<<l, c>>)
    PROVE  /\ level[<<l, c>>] < Price(l) + Slack
           /\ level' = level
           /\ refused' = refused \cup {<<l, c>>}
<1>1. [x \in Limiters \X Clients |-> Price(x[1])][<<l, c>>] = Price(l)
  OBVIOUS
<1> QED BY <1>1 DEF Buckets!Refuse

\* And time.
LEMMA FillIs ==
    ASSUME LevelsOK, Buckets!Fill
    PROVE  /\ LevelsOK'
           /\ \A k \in Limiters \X Clients :
                 /\ level'[k] >= level[k]
                 /\ level'[k] <= level[k] + 1
                 /\ level'[k] = Full + Slack \/ level'[k] = level[k] + 1
<1>1. Full \in Nat /\ Slack \in Nat
  BY HttpLimitsAssumption
<1>2. \A k \in Limiters \X Clients :
         /\ level[k] \in 0..(Full + Slack)
         /\ level'[k] = IF Full + Slack <= level[k] + 1 THEN Full + Slack ELSE level[k] + 1
  BY DEF Buckets!Fill, Buckets!Low, LevelsOK
<1>3. level' = [k \in Limiters \X Clients |-> level'[k]]
  BY DEF Buckets!Fill
<1>4. \A k \in Limiters \X Clients : level'[k] \in 0..(Full + Slack)
  BY <1>1, <1>2
<1> QED BY <1>1, <1>2, <1>3, <1>4 DEF LevelsOK
-----------------------------------------------------------------------------
(* Type correctness *)

AsksOK == /\ client \in [Connections -> Clients] /\ query \in [Connections -> Sent]
          /\ promised \in [Connections -> SUBSET Limiters]
          /\ place \in [Connections -> Places]
          /\ \A r \in Connections : place[r] = "rule" => Rule(query[r]) \in Rules

\* The router's limit is that of the rule, or none.
LEMMA DueIsRule ==
    ASSUME AsksOK, providers \subseteq Providers, NEW r \in Connections
    PROVE  Due(r) \in {NoLimit, Rule(query[r])}
<1>1. query[r] \in Targets
  BY HttpLimitsAssumption DEF AsksOK
<1>2. CASE Target(r) \in Pages
  BY <1>1, <1>2, RuleFollowsRoute DEF Due, Target
<1>3. CASE Target(r) \notin Pages
  <2>1. Target(r) \notin {"login", "register", "comment", "post creation",
                          "post reaction", "comment reaction"}
    BY <1>3 DEF Pages
  <2> QED BY <2>1 DEF Due, LimitOf, NoLimit
<1> QED BY <1>2, <1>3

\* The limiter that a request asks can pay for it.
LEMMA Payable ==
    ASSUME AsksOK, NEW r \in Connections
    PROVE  /\ Price("global") <= Full
           /\ Rule(query[r]) # NoLimit => Price(Rule(query[r])) <= Full
<1>1. Price("global") = 1
  <2>1. PerMinute("global") = 120
    BY DEF PerMinute
  <2> QED BY <2>1 DEF Price
<1> QED BY <1>1, HttpLimitsAssumption DEF AsksOK

\* An observer's window counts one more, or is opened.
LEMMA CountedIs ==
    ASSUME window \subseteq Windows, AsksOK, NEW r \in Connections, NEW limits,
           limits \subseteq Limiters \cup {NoLimit},
           window' \in Counted(r, limits), NEW w \in window'
    PROVE  /\ w \in Windows
           /\ \/ w \in window /\ ~(w.client = client[r] /\ w.limiter \in limits)
              \/ /\ w.client = client[r] /\ w.limiter \in limits
                 /\ \E v \in window : w = [v EXCEPT !.count = v.count + 1]
              \/ /\ w.client = client[r] /\ w.limiter \in limits
                 /\ w.count = 1 /\ w.age = 0
<1> DEFINE Theirs(v) == v.client = client[r] /\ v.limiter \in limits
<1>1. CASE window' = {IF Theirs(v) THEN [v EXCEPT !.count = @ + 1] ELSE v : v \in window}
  <2>1. PICK v \in window : w = IF Theirs(v) THEN [v EXCEPT !.count = v.count + 1] ELSE v
    BY <1>1
  <2>2. v \in [limiter : Limiters, client : Clients, age : 0..MaxAge, count : Nat]
    BY DEF Windows
  <2>3. CASE Theirs(v)
    <3>1. w = [v EXCEPT !.count = v.count + 1]
      BY <2>1, <2>3
    <3>2. w \in Windows /\ w.client = v.client /\ w.limiter = v.limiter
      BY <2>2, <3>1 DEF Windows
    <3> QED BY <2>3, <3>1, <3>2
  <2>4. CASE ~Theirs(v)
    BY <2>1, <2>4
  <2> QED BY <2>3, <2>4
<1>2. CASE \E l \in limits \ {NoLimit} :
              window' = {[limiter |-> l, client |-> client[r], age |-> 0, count |-> 1]}
  <2>1. PICK l \in limits \ {NoLimit} :
          w = [limiter |-> l, client |-> client[r], age |-> 0, count |-> 1]
    BY <1>2
  <2>2. l \in Limiters /\ client[r] \in Clients /\ 0 \in 0..MaxAge
    BY HttpLimitsAssumption DEF AsksOK
  <2> QED BY <2>1, <2>2 DEF Windows
<1> QED BY <1>1, <1>2 DEF Counted

\* A request that ends leaves its connection without one.
LEMMA FinishIs ==
    ASSUME AsksOK, NEW r \in Connections, Finish(r)
    PROVE  /\ AsksOK'
           /\ place'[r] \in {"idle", "connected"}
           /\ promised'[r] = {} /\ client'[r] = Nobody
           /\ \A x \in Connections \ {r} : /\ place'[x] = place[x]
                                           /\ client'[x] = client[x]
                                           /\ query'[x] = query[x]
                                           /\ promised'[x] = promised[x]
<1>1. place' \in [Connections -> Places]
  BY DEF Finish, AsksOK, Places
<1> QED BY <1>1, Defaults DEF Finish, AsksOK

\* Past the limiters a request ends or reaches its handler.
LEMMA CallRouterIs ==
    ASSUME AsksOK, NEW r \in Connections, CallRouter(r)
    PROVE  /\ AsksOK'
           /\ place'[r] \in {"idle", "connected", "handler"}
           /\ promised'[r] \in {{}, promised[r]}
           /\ \A x \in Connections \ {r} : /\ place'[x] = place[x]
                                           /\ client'[x] = client[x]
                                           /\ query'[x] = query[x]
                                           /\ promised'[x] = promised[x]
<1>1. CASE Finish(r)
  BY <1>1, FinishIs
<1>2. CASE PassTo(r, "handler")
  BY <1>2 DEF PassTo, AsksOK, askVars, Places
<1> QED BY <1>1, <1>2 DEF CallRouter

\* The types hold when the process begins.
LEMMA TypeInit == Init => TypeOK
<1> SUFFICES ASSUME Init PROVE TypeOK
  OBVIOUS
<1>1. writer = {r \in Connections : place[r] = "writing"} /\ writer = {}
  BY DEF Init
<1>2. level \in [Limiters \X Clients -> 0..(Full + Slack)] /\ refused = {}
  BY HttpLimitsAssumption DEF Init, Buckets!BucketInit
<1>3. LimitsTypeOK
  BY <1>2, Defaults DEF Init, LimitsTypeOK
<1> QED BY <1>1, <1>3 DEF Init, TypeOK, Places

\* The stages of Run.
LEMMA Stages ==
    /\ DOMAIN After = {"certificate", "open", "limiters", "migrate", "templates", "uploads"}
    /\ \A s \in DOMAIN After : After[s] \in DOMAIN After \cup {"select"}
    /\ After["uploads"] = "select"
<1>1. DOMAIN After = {"certificate", "open", "limiters", "migrate", "templates", "uploads"}
  BY DEF After
<1>2. /\ After["certificate"] = "open" /\ After["open"] = "limiters"
      /\ After["limiters"] = "migrate" /\ After["migrate"] = "templates"
      /\ After["templates"] = "uploads" /\ After["uploads"] = "select"
  BY DEF After
<1> QED BY <1>1, <1>2

\* What the steps of the process leave alone.
LEMMA HttpStays == ASSUME TypeOK, UNCHANGED http
                   PROVE  /\ LimitsTypeOK' /\ place' \in [Connections -> Places]
                          /\ writer' = {r \in Connections : place'[r] = "writing"}
                          /\ \A r, x \in writer' : r = x
  BY DEF TypeOK, LimitsTypeOK, http, limitVars, askVars, history

\* Steps of Run, of main and of the goroutine that serves keep the types.
LEMMA ProcessTypes ==
    ASSUME TypeOK, Running \/ Listen \/ Send \/ StopServing \/ Signal \/ Exit
    PROVE  TypeOK'
<1> USE DEF TypeOK, resources, server
<1>1. CASE Load
  <2>1. \A e : Loaded(e).providers \subseteq Providers /\ Loaded(e).https \in BOOLEAN
    BY DEF Loaded, Enabled
  <2>2. "certificate" \in DOMAIN After /\ "open" \in DOMAIN After
    BY Stages
  <2> QED BY <1>1, <2>1, <2>2, HttpStays DEF Load, Returns
<1>2. CASE StageDone
  BY <1>2, Stages, HttpStays DEF StageDone
<1>3. CASE StageFails
  BY <1>3, HttpStays DEF StageFails, Returns
<1>4. CASE Receive
  BY <1>4, HttpStays DEF Receive, Returns
<1>5. CASE Shutdown
  <2>1. LimitsTypeOK'
    BY <1>5, HttpStays DEF Shutdown
  <2> QED BY <1>5, <2>1, HttpStays DEF Shutdown
<1>6. CASE Drained
  BY <1>6, HttpStays DEF Drained
<1>7. CASE Deadline
  BY <1>7, HttpStays DEF Deadline, Returns
<1>8. CASE StopLimiters
  BY <1>8, HttpStays DEF StopLimiters
<1>9. CASE CloseDB
  BY <1>9, HttpStays DEF CloseDB
<1>10. CASE Listen
  BY <1>10, HttpStays DEF Listen
<1>11. CASE Send
  BY <1>11, HttpStays DEF Send, Returns
<1>12. CASE StopServing
  BY <1>12, HttpStays DEF StopServing
<1>13. CASE Signal
  BY <1>13, HttpStays DEF Signal
<1>14. CASE Exit
  BY <1>14, HttpStays DEF Exit
<1> QED BY <1>1, <1>2, <1>3, <1>4, <1>5, <1>6, <1>7, <1>8, <1>9, <1>10, <1>11, <1>12,
           <1>13, <1>14 DEF Running

\* What a step of a connection may change, when it neither begins nor ends to write.
LEMMA LimitsTypes ==
    ASSUME TypeOK, Limits
    PROVE  TypeOK'
<1>0. AsksOK /\ LevelsOK /\ refused \subseteq Limiters \X Clients /\ window \subseteq Windows
      /\ told \in [Clients -> SUBSET Promises]
  BY DEF TypeOK, LimitsTypeOK, AsksOK, LevelsOK
<1>1. UNCHANGED <<run, result, signalled, db, limiters, serve, sent, writer>>
  BY DEF Limits, resources
<1>2. SUFFICES /\ AsksOK' /\ LevelsOK' /\ refused' \subseteq Limiters \X Clients
               /\ window' \subseteq Windows
               /\ told' \in [Clients -> SUBSET Promises]
               /\ \A x \in Connections : place'[x] = "writing" <=> place[x] = "writing"
               /\ UNCHANGED <<providers, closing>>
  BY <1>1 DEF TypeOK, LimitsTypeOK, AsksOK, LevelsOK
<1>3. ASSUME NEW r \in Connections, Arrive(r)
      PROVE  /\ AsksOK' /\ LevelsOK' /\ refused' \subseteq Limiters \X Clients
             /\ window' \subseteq Windows
             /\ told' \in [Clients -> SUBSET Promises]
             /\ \A x \in Connections : place'[x] = "writing" <=> place[x] = "writing"
             /\ UNCHANGED <<providers, closing>>
  <2>1. PICK c \in Clients, q \in Sent :
          /\ client' = [client EXCEPT ![r] = c]
          /\ query' = [query EXCEPT ![r] = q]
          /\ told' = [told EXCEPT ![c] = {}]
          /\ promised' = [x \in Connections |->
                IF x = r THEN UNION {t.limiters : t \in
                   {t \in told[c] : t.left = 0 /\ t.asked = q}}
                ELSE IF client[x] = c THEN {} ELSE promised[x]]
    BY <1>3 DEF Arrive
  <2>2. \A t \in told[c] : t.limiters \subseteq Limiters
    BY <1>0 DEF Promises
  <2>3. promised' \in [Connections -> SUBSET Limiters]
    BY <1>0, <2>1, <2>2 DEF AsksOK
  <2>4. place' \in [Connections -> Places]
        /\ \A x \in Connections : place'[x] = "writing" <=> place[x] = "writing"
    BY <1>0, <1>3 DEF Arrive, AsksOK, Places, LimitPlaces
  <2>5. LevelsOK' /\ refused' \subseteq Limiters \X Clients /\ window' \subseteq Windows
        /\ UNCHANGED <<providers, closing>>
    BY <1>0, <1>3 DEF Arrive, limitVars, LevelsOK
  <2>6. client' \in [Connections -> Clients] /\ query' \in [Connections -> Sent]
    BY <1>0, <2>1 DEF AsksOK
  <2>7. told' \in [Clients -> SUBSET Promises]
    BY <1>0, <2>1
  <2>8. ASSUME NEW x \in Connections, place'[x] = "rule" PROVE Rule(query'[x]) \in Rules
    <3>1. x # r /\ place[x] = "rule"
      BY <1>0, <1>3, <2>8 DEF Arrive, AsksOK
    <3>2. query'[x] = query[x]
      BY <1>0, <2>1, <3>1 DEF AsksOK
    <3> QED BY <1>0, <3>1, <3>2 DEF AsksOK
  <2> QED BY <2>3, <2>4, <2>5, <2>6, <2>7, <2>8 DEF AsksOK
<1>4. ASSUME NEW r \in Connections, NEW l \in Limiters, place[r] # "writing",
             Buckets!Refuse(<<l, client[r]>>), TooMany(r, l)
      PROVE  /\ AsksOK' /\ LevelsOK' /\ refused' \subseteq Limiters \X Clients
             /\ window' \subseteq Windows
             /\ told' \in [Clients -> SUBSET Promises]
             /\ \A x \in Connections : place'[x] = "writing" <=> place[x] = "writing"
  <2>1. client[r] \in Clients /\ Wait(l) + Slack \in Nat
    BY <1>0, Prices, HttpLimitsAssumption DEF AsksOK
  <2>2. [limiters |-> {"global", l}, asked |-> query[r], left |-> Wait(l) + Slack] \in Promises
    BY <1>0, <2>1 DEF Promises, Limiters, AsksOK
  <2>3. told' \in [Clients -> SUBSET Promises] /\ window' = window
    BY <1>0, <1>4, <2>2 DEF TooMany
  <2>4. AsksOK' /\ \A x \in Connections : place'[x] = "writing" <=> place[x] = "writing"
    BY <1>0, <1>4, FinishIs DEF TooMany
  <2>5. level' = level /\ refused' = refused \cup {<<l, client[r]>>}
    BY <1>4, <2>1, RefuseIs
  <2> QED BY <1>0, <2>1, <2>3, <2>4, <2>5 DEF LevelsOK
<1>5. ASSUME NEW r \in Connections, AskGlobal(r)
      PROVE  /\ AsksOK' /\ LevelsOK' /\ refused' \subseteq Limiters \X Clients
             /\ window' \subseteq Windows
             /\ told' \in [Clients -> SUBSET Promises]
             /\ \A x \in Connections : place'[x] = "writing" <=> place[x] = "writing"
             /\ UNCHANGED <<providers, closing>>
  <2>0. "global" \in Limiters /\ client[r] \in Clients /\ UNCHANGED <<providers, closing>>
        /\ place[r] = "global" /\ Price("global") <= Full
    BY <1>0, <1>5, Payable DEF Limiters, AsksOK, AskGlobal
  <2>1. CASE Buckets!Refuse(<<"global", client[r]>>) /\ TooMany(r, "global")
    BY <1>4, <2>0, <2>1
  <2>2. CASE /\ Buckets!Admit(<<"global", client[r]>>) /\ told' = told
             /\ CallRouter(r) /\ window' \in Counted(r, {"global", Due(r)})
    <3>1. {"global", Due(r)} \subseteq Limiters \cup {NoLimit}
      BY <1>0, <2>0, DueIsRule, RuleKinds, RuleNames DEF TypeOK
    <3>2. window' \subseteq Windows
      BY <1>0, <2>2, <3>1, CountedIs
    <3>3. LevelsOK' /\ refused' \subseteq refused
      BY <1>0, <2>0, <2>2, AdmitIs
    <3>4. AsksOK' /\ \A x \in Connections : place'[x] = "writing" <=> place[x] = "writing"
      BY <1>0, <2>0, <2>2, CallRouterIs
    <3> QED BY <1>0, <2>0, <2>2, <3>2, <3>3, <3>4
  <2>3. CASE /\ Buckets!Admit(<<"global", client[r]>>) /\ told' = told
             /\ Rule(query[r]) # NoLimit /\ PassTo(r, "rule") /\ window' \in Counted(r, {"global"})
    <3>1. window' \subseteq Windows
      BY <1>0, <2>0, <2>3, CountedIs
    <3>2. LevelsOK' /\ refused' \subseteq refused
      BY <1>0, <2>0, <2>3, AdmitIs
    <3>3. AsksOK' /\ \A x \in Connections : place'[x] = "writing" <=> place[x] = "writing"
      BY <1>0, <2>0, <2>3, RuleKinds DEF PassTo, AsksOK, askVars, Places, LimitPlaces
    <3> QED BY <1>0, <2>0, <2>3, <3>1, <3>2, <3>3
  <2> QED BY <1>5, <2>1, <2>2, <2>3 DEF AskGlobal
<1>6. ASSUME NEW r \in Connections, AskRule(r)
      PROVE  /\ AsksOK' /\ LevelsOK' /\ refused' \subseteq Limiters \X Clients
             /\ window' \subseteq Windows
             /\ told' \in [Clients -> SUBSET Promises]
             /\ \A x \in Connections : place'[x] = "writing" <=> place[x] = "writing"
             /\ UNCHANGED <<providers, closing>>
  <2> DEFINE l == Rule(query[r])
  <2>0. l \in Rules /\ l \in Limiters /\ client[r] \in Clients /\ UNCHANGED <<providers, closing>>
        /\ place[r] = "rule" /\ Price(l) <= Full
    <3>1. place[r] = "rule" /\ UNCHANGED <<providers, closing>>
      BY <1>6 DEF AskRule
    <3>2. l \in Rules
      BY <1>0, <3>1 DEF AsksOK
    <3> QED BY <1>0, <3>1, <3>2, Payable, RuleNames DEF AsksOK
  <2>1. CASE Buckets!Refuse(<<l, client[r]>>) /\ TooMany(r, l)
    BY <1>4, <2>0, <2>1
  <2>2. CASE /\ Buckets!Admit(<<l, client[r]>>) /\ told' = told
             /\ CallRouter(r) /\ window' \in Counted(r, {Due(r)})
    <3>1. {Due(r)} \subseteq Limiters \cup {NoLimit}
      BY <1>0, <2>0, DueIsRule DEF TypeOK
    <3>2. window' \subseteq Windows
      BY <1>0, <2>2, <3>1, CountedIs
    <3>3. LevelsOK' /\ refused' \subseteq refused
      BY <1>0, <2>0, <2>2, AdmitIs
    <3>4. AsksOK' /\ \A x \in Connections : place'[x] = "writing" <=> place[x] = "writing"
      BY <1>0, <2>0, <2>2, CallRouterIs
    <3> QED BY <1>0, <2>0, <2>2, <3>2, <3>3, <3>4
  <2> QED BY <1>6, <2>1, <2>2 DEF AskRule
<1>7. CASE Tick
  <2>1. LevelsOK' /\ refused' = refused /\ AsksOK' /\ UNCHANGED <<place, providers, closing>>
    BY <1>0, <1>7, FillIs DEF Tick, Buckets!Fill, AsksOK, askVars
  <2>2. ASSUME NEW v \in window', ~(v \in Windows) PROVE FALSE
    <3>1. PICK w \in window : w.age < MaxAge /\ v = [w EXCEPT !.age = w.age + 1]
      BY <1>7, <2>2 DEF Tick
    <3>2. w \in [limiter : Limiters, client : Clients, age : 0..MaxAge, count : Nat]
      BY <1>0 DEF Windows
    <3>3. w.age + 1 \in 0..MaxAge
      BY <3>1, <3>2, HttpLimitsAssumption
    <3> QED BY <2>2, <3>1, <3>2, <3>3 DEF Windows
  <2>3. ASSUME NEW c \in Clients PROVE told'[c] \in SUBSET Promises
    <3>1. told'[c] = {[t EXCEPT !.left = IF t.left > 0 THEN t.left - 1 ELSE 0] : t \in told[c]}
      BY <1>7 DEF Tick
    <3>2. ASSUME NEW t \in told[c]
          PROVE  [t EXCEPT !.left = IF t.left > 0 THEN t.left - 1 ELSE 0] \in Promises
      <4>1. t \in [limiters : SUBSET Limiters, asked : Sent, left : Nat]
        BY <1>0 DEF Promises
      <4> QED BY <4>1 DEF Promises
    <3> QED BY <3>1, <3>2
  <2>4. told' = [c \in Clients |-> told'[c]]
    BY <1>7 DEF Tick
  <2>5. told' \in [Clients -> SUBSET Promises]
    BY <2>3, <2>4
  <2> QED BY <1>0, <2>1, <2>2, <2>5
<1> QED BY <1>3, <1>5, <1>6, <1>7 DEF Limits, Limiting

-----------------------------------------------------------------------------
(* Handlers *)

\* What a step of a handler, or of a connection without a request, may change.
LEMMA HandlingIs ==
    ASSUME AsksOK, NEW r \in Connections, Handling(r)
    PROVE  /\ AsksOK'
           /\ UNCHANGED <<run, result, signalled, providers, db, limiters, serve, sent,
                          closing, level, refused, window, told>>
           /\ place[r] \notin LimitPlaces /\ place'[r] \notin LimitPlaces
           /\ \/ promised'[r] = {}
              \/ client'[r] = client[r] /\ query'[r] = query[r] /\ promised'[r] = promised[r]
           /\ \A x \in Connections \ {r} : /\ place'[x] = place[x]
                                           /\ client'[x] = client[x]
                                           /\ query'[x] = query[x]
                                           /\ promised'[x] = promised[x]
<1> USE DEF AsksOK, Places, LimitPlaces, process, resources, server, limitVars, askVars, history
<1>1. CASE Accept(r)
  BY <1>1 DEF Accept, Move
<1>2. CASE Leave(r)
  BY <1>2 DEF Leave, Move
<1>3. CASE Begin(r)
  BY <1>3 DEF Begin, Move
<1>4. CASE End(r)
  BY <1>4 DEF End, Move
<1>5. CASE Panic(r) \/ Answer(r)
  <2>1. Finish(r) /\ place[r] \in {"handler", "writing"}
        /\ UNCHANGED <<run, result, signalled, providers, db, limiters, serve, sent,
                       closing, level, refused, window, told>>
    BY <1>5 DEF Panic, Answer
  <2> QED BY <2>1, FinishIs
<1> QED BY <1>1, <1>2, <1>3, <1>4, <1>5 DEF Handling

\* At most one transaction holds the write lock: that of a handler that writes.
LEMMA WriterIs ==
    ASSUME TypeOK, NEW r \in Connections, Handling(r)
    PROVE  /\ writer' = {x \in Connections : place'[x] = "writing"}
           /\ \A x, y \in writer' : x = y
<1>1. /\ place \in [Connections -> Places]
      /\ writer = {x \in Connections : place[x] = "writing"}
      /\ \A x, y \in writer : x = y
  BY DEF TypeOK
<1>2. CASE Accept(r) \/ Leave(r) \/ Answer(r)
  BY <1>1, <1>2 DEF Accept, Leave, Answer, Move, Finish
<1>3. CASE Begin(r)
  BY <1>1, <1>3 DEF Begin, Move
<1>4. CASE End(r)
  BY <1>1, <1>4 DEF End, Move
<1>5. CASE Panic(r)
  BY <1>1, <1>5 DEF Panic, Finish
<1> QED BY <1>2, <1>3, <1>4, <1>5 DEF Handling

\* A connection that is accepted, handled or closed keeps the types.
LEMMA HandlingTypes ==
    ASSUME TypeOK, NEW r \in Connections, Handling(r)
    PROVE  TypeOK'
<1>1. AsksOK
  BY DEF TypeOK, LimitsTypeOK, AsksOK
<1>2. AsksOK' /\ UNCHANGED <<run, result, signalled, providers, db, limiters, serve, sent,
                            closing, level, refused, window, told>>
  BY <1>1, HandlingIs
<1> QED BY <1>2, WriterIs DEF TypeOK, LimitsTypeOK, AsksOK

\* Every step keeps the types.
LEMMA TypeStep == TypeOK /\ [Next]_vars => TypeOK'
<1> SUFFICES ASSUME TypeOK, [Next]_vars PROVE TypeOK'
  OBVIOUS
<1>1. CASE Running \/ Listen \/ Send \/ StopServing \/ Signal \/ Exit
  BY <1>1, ProcessTypes
<1>2. CASE Limits
  BY <1>2, LimitsTypes
<1>3. CASE \E r \in Connections : Handling(r)
  BY <1>3, HandlingTypes
<1>4. CASE UNCHANGED vars
  BY <1>4, HttpStays DEF vars, resources, server, TypeOK
<1> QED BY <1>1, <1>2, <1>3, <1>4 DEF Next

\* Type correctness; with it, that one transaction at most holds the write lock and
\* that it belongs to a handler that is in the middle of it.
THEOREM TypeCorrect == Spec => []TypeOK
<1>1. Init => TypeOK
  BY TypeInit
<1>2. TypeOK /\ [Next]_vars => TypeOK'
  BY TypeStep
<1> QED BY <1>1, <1>2, PTL DEF Spec
-----------------------------------------------------------------------------
(* The inductive invariant of the process *)

AllIdle == \A r \in Connections : place[r] = "idle"

\* What Run has opened and seen when it is where it is.
Orderly ==
    /\ run = "config" => db # "open" /\ limiters # "running"
    /\ run \in DOMAIN After \cup {"config"} => serve = "none"
    /\ run = "close" => limiters = "stopped"
    /\ serve = "ended" \/ "nil" \in sent => closing
    /\ sent # {} => serve = "done"
    /\ closing => run \in {"shutdown", "receive", "cleanup", "close", "returned", "exited"}
    /\ run \in {"shutdown", "receive"} => closing
    /\ run = "receive" => serve # "serving" /\ AllIdle
    /\ result = "nil" => run \in {"cleanup", "close", "returned", "exited"}
-----------------------------------------------------------------------------
(* A clean stop *)

\* Idle connections stay idle unless the server accepts.
LEMMA IdleStays ==
    ASSUME TypeOK, [Next]_vars, AllIdle, serve # "serving"
    PROVE  AllIdle'
<1>1. ASSUME NEW r \in Connections, Handling(r) PROVE FALSE
  BY <1>1 DEF AllIdle, Handling, Accept, Leave, Begin, End, Panic, Answer
<1>2. ASSUME NEW r \in Connections, Limiting(r) PROVE FALSE
  BY <1>2 DEF AllIdle, Limiting, Arrive, AskGlobal, AskRule
<1>3. place' = place
  <2>1. CASE Running
    BY <2>1 DEF Running, Load, StageDone, StageFails, Receive, Shutdown, Drained, Deadline,
                StopLimiters, CloseDB, http
  <2>2. CASE Listen \/ Send \/ StopServing \/ Signal \/ Exit
    BY <2>2 DEF Listen, Send, StopServing, Signal, Exit, http
  <2>3. CASE Tick
    BY <2>3 DEF Tick
  <2>4. CASE UNCHANGED vars
    BY <2>4 DEF vars, http
  <2> QED BY <1>1, <1>2, <2>1, <2>2, <2>3, <2>4 DEF Next, Limits
<1> QED BY <1>3 DEF AllIdle

\* The steps of connections leave what Orderly speaks of alone.
LEMMA ConnectionsLeave ==
    ASSUME TypeOK, Limits \/ (\E r \in Connections : Handling(r)) \/ UNCHANGED vars
    PROVE  UNCHANGED <<run, result, db, limiters, serve, sent, closing>>
<1>1. ASSUME NEW r \in Connections, Handling(r)
      PROVE  UNCHANGED <<run, result, db, limiters, serve, sent, closing>>
  <2>1. AsksOK
    BY DEF TypeOK, LimitsTypeOK, AsksOK
  <2> QED BY <1>1, <2>1, HandlingIs
<1>2. CASE Limits
  <2>1. closing' = closing
    BY <1>2 DEF Limits, Limiting, Arrive, AskGlobal, AskRule, Tick
  <2> QED BY <1>2, <2>1 DEF Limits, resources
<1>3. CASE UNCHANGED vars
  BY <1>3 DEF vars, resources, server
<1> QED BY <1>1, <1>2, <1>3

\* Every step keeps what a clean stop rests on: what each place of Run has opened and closed.
LEMMA OrderlyStep ==
    ASSUME TypeOK, Orderly, CleanStop, [Next]_vars
    PROVE  Orderly' /\ CleanStop'
<1> USE DEF Orderly, CleanStop, resources, server, http
<1>0. /\ AllIdle /\ serve # "serving" => AllIdle'
      /\ (CleanStop <=> /\ run \in {"returned", "exited"} => db # "open" /\ limiters # "running"
                        /\ result = "nil" => serve = "done" /\ AllIdle)
      /\ (CleanStop' <=> /\ run' \in {"returned", "exited"} => db' # "open" /\ limiters' # "running"
                         /\ result' = "nil" => serve' = "done" /\ AllIdle')
  BY IdleStays DEF AllIdle
<1> HIDE DEF CleanStop
<1>1. CASE Load
  BY <1>0, <1>1, Stages DEF Load
<1>2. CASE StageDone
  <2>1. serve = "none" /\ ~closing /\ sent = {} /\ result # "nil"
    BY <1>2, Stages DEF StageDone
  <2> QED BY <1>0, <1>2, <2>1, Stages DEF StageDone
<1>3. CASE StageFails
  BY <1>0, <1>3, Stages DEF StageFails
<1>4. CASE Receive
  BY <1>0, <1>4, Stages DEF Receive
<1>5. CASE Shutdown
  BY <1>0, <1>5, Stages DEF Shutdown
<1>6. CASE Drained
  <2>1. AllIdle' /\ closing
    BY <1>6 DEF Drained, AllIdle
  <2> QED BY <1>0, <1>6, <2>1, Stages DEF Drained
<1>7. CASE Deadline
  BY <1>0, <1>7, Stages DEF Deadline
<1>8. CASE StopLimiters
  BY <1>0, <1>8, Stages DEF StopLimiters
<1>9. CASE CloseDB
  BY <1>0, <1>9, Stages DEF CloseDB
<1>10. CASE Listen
  BY <1>0, <1>10, Stages DEF Listen
<1>11. CASE Send
  BY <1>0, <1>11, Stages DEF Send
<1>12. CASE StopServing
  BY <1>0, <1>12, Stages DEF StopServing
<1>13. CASE Signal
  BY <1>0, <1>13, Stages DEF Signal
<1>14. CASE Exit
  BY <1>0, <1>14, Stages DEF Exit
<1>15. CASE Limits \/ (\E r \in Connections : Handling(r)) \/ UNCHANGED vars
  <2>1. UNCHANGED <<run, result, db, limiters, serve, sent, closing>>
    BY <1>15, ConnectionsLeave
  <2> QED BY <1>0, <2>1
<1> HIDE DEF Orderly, resources, server, http
<1> QED BY <1>1, <1>2, <1>3, <1>4, <1>5, <1>6, <1>7, <1>8, <1>9, <1>10, <1>11, <1>12,
           <1>13, <1>14, <1>15 DEF Next, Running

\* However Run ends, the database is closed and the limiters are stopped; when it
\* returns no error, every request was answered and every connection closed.
THEOREM StopIsClean == Spec => []CleanStop
<1>1. Init => Orderly /\ CleanStop
  <2>1. "config" \notin DOMAIN After
    BY Stages
  <2> QED BY <2>1 DEF Init, Orderly, CleanStop, AllIdle
<1>2. TypeOK /\ Orderly /\ CleanStop /\ [Next]_vars => (Orderly /\ CleanStop)'
  BY OrderlyStep
<1> QED BY <1>1, <1>2, TypeCorrect, PTL DEF Spec
-----------------------------------------------------------------------------
(* Run and the goroutine that serves do not wait for each other in vain *)

\* What one of them waits for is there, or the other still has to do it and can.
Handover ==
    /\ run = "shutdown" => closing
    /\ run = "receive" => sent # {} \/ serve \in {"starting", "ended", "failed"}
    /\ serve \in {"ended", "failed"} => sent = {}

\* Once the goroutine is started its value is sent once, and is there until it is received.
Sending ==
    run \in {"select", "shutdown", "receive"} =>
       serve # "none" /\ (serve = "done" => sent # {})

\* Where Run and the goroutine are, in the order of the code.
RunPlace == [config |-> 0, certificate |-> 1, open |-> 2, limiters |-> 3, migrate |-> 4,
             templates |-> 5, uploads |-> 6, select |-> 7, shutdown |-> 8, receive |-> 9,
             cleanup |-> 10, close |-> 11, returned |-> 12, exited |-> 13]
ServePlace == [none |-> 0, starting |-> 1, serving |-> 2, ended |-> 3, failed |-> 3, done |-> 4]

\* Neither of them goes back.
Onward == /\ run' # run => RunPlace[run'] > RunPlace[run]
          /\ serve' # serve => ServePlace[serve'] > ServePlace[serve]

\* The places by number.
LEMMA PlacesNumbered ==
    /\ RunPlace["config"] = 0 /\ RunPlace["certificate"] = 1 /\ RunPlace["open"] = 2
    /\ RunPlace["limiters"] = 3 /\ RunPlace["migrate"] = 4 /\ RunPlace["templates"] = 5
    /\ RunPlace["uploads"] = 6 /\ RunPlace["select"] = 7 /\ RunPlace["shutdown"] = 8
    /\ RunPlace["receive"] = 9 /\ RunPlace["cleanup"] = 10 /\ RunPlace["close"] = 11
    /\ RunPlace["returned"] = 12 /\ RunPlace["exited"] = 13
    /\ ServePlace["none"] = 0 /\ ServePlace["starting"] = 1 /\ ServePlace["serving"] = 2
    /\ ServePlace["ended"] = 3 /\ ServePlace["failed"] = 3 /\ ServePlace["done"] = 4
  BY DEF RunPlace, ServePlace

\* The stages of Run lead on, and the last of them alone to the select.
LEMMA StagesLeadOn ==
    /\ \A s \in DOMAIN After : RunPlace[After[s]] > RunPlace[s]
    /\ \A s \in DOMAIN After : After[s] \in {"select", "shutdown", "receive"} => s = "uploads"
<1>1. /\ DOMAIN After = {"certificate", "open", "limiters", "migrate", "templates", "uploads"}
      /\ After["certificate"] = "open" /\ After["open"] = "limiters"
      /\ After["limiters"] = "migrate" /\ After["migrate"] = "templates"
      /\ After["templates"] = "uploads" /\ After["uploads"] = "select"
  BY DEF After
<1> QED BY <1>1, PlacesNumbered

\* Every step keeps the value that is waited for, and leads on.
LEMMA SendingStep ==
    ASSUME TypeOK, Orderly, Sending, [Next]_vars
    PROVE  Sending' /\ [Onward]_vars
<1> USE DEF Sending, Onward, resources, server
<1>0. /\ sent # {} => serve = "done"
      /\ run \in DOMAIN After \cup {"config"} => serve = "none"
  BY DEF Orderly
<1>1. CASE Load
  BY <1>1, PlacesNumbered DEF Load
<1>2. CASE StageDone
  <2>1. /\ run \in DOMAIN After /\ run' = After[run] /\ sent' = sent
        /\ serve' = IF run = "uploads" THEN "starting" ELSE serve
    BY <1>2 DEF StageDone
  <2>2. serve = "none"
    BY <1>0, <2>1
  <2>3. Sending'
    BY <2>1, <2>2, StagesLeadOn
  <2>4. Onward
    BY <2>1, <2>2, StagesLeadOn, PlacesNumbered
  <2> QED BY <2>3, <2>4
<1>3. CASE StageFails
  BY <1>3, Stages, PlacesNumbered DEF StageFails
<1>4. CASE Receive
  BY <1>4, PlacesNumbered DEF Receive
<1>5. CASE Shutdown
  BY <1>5, PlacesNumbered DEF Shutdown
<1>6. CASE Drained \/ Deadline
  BY <1>6, PlacesNumbered DEF Drained, Deadline
<1>7. CASE StopLimiters \/ CloseDB \/ Exit
  BY <1>7, PlacesNumbered DEF StopLimiters, CloseDB, Exit
<1>8. CASE Listen
  BY <1>8, PlacesNumbered DEF Listen
<1>9. CASE Send
  BY <1>9, PlacesNumbered DEF Send
<1>10. CASE StopServing
  BY <1>10, PlacesNumbered DEF StopServing
<1>11. CASE Signal
  BY <1>11 DEF Signal
<1>12. CASE Limits \/ (\E r \in Connections : Handling(r)) \/ UNCHANGED vars
  <2>1. UNCHANGED <<run, serve, sent>>
    BY <1>12, ConnectionsLeave
  <2> QED BY <2>1
<1> QED BY <1>1, <1>2, <1>3, <1>4, <1>5, <1>6, <1>7, <1>8, <1>9, <1>10, <1>11, <1>12
        DEF Next, Running

\* The safety half of StopsOnSignal: Run takes at most 13 steps and the goroutine at most
\* 4, neither goes back, and what either waits for is there or about to be done by the
\* other; the send never blocks, and the receive after a shutdown never misses its value.
THEOREM StopIsReached == Spec => []Handover /\ [][Onward]_vars
<1>1. Init => Orderly /\ CleanStop /\ Sending
  <2>1. "config" \notin DOMAIN After
    BY Stages
  <2> QED BY <2>1 DEF Init, Orderly, CleanStop, AllIdle, Sending
<1>2. TypeOK /\ Orderly /\ CleanStop /\ Sending /\ [Next]_vars
        => (Orderly /\ CleanStop /\ Sending)' /\ [Onward]_vars
  BY OrderlyStep, SendingStep
<1>3. ASSUME TypeOK, Orderly, Sending PROVE Handover
  BY <1>3 DEF TypeOK, Orderly, Sending, Handover
<1>4. TypeOK /\ Orderly /\ Sending => Handover
  BY <1>3
<1> QED BY <1>1, <1>2, <1>4, TypeCorrect, PTL DEF Spec
-----------------------------------------------------------------------------
(* The inductive invariants of the limits *)

\* What is left of a bucket pays for what its window has not seen yet.
Booked == \A w \in window :
    level[<<w.limiter, w.client>>] + w.count * Price(w.limiter) <= Full + w.age + Slack

\* A client that heeds a Retry-After has no request in front of the limiters, and when
\* its wait is over each limiter it was told of, all in front of what it asked, can pay.
Quiet == \A c \in Clients, r \in Connections :
    told[c] # {} /\ place[r] \in LimitPlaces => client[r] # c

Kept == \A c \in Clients : \A t \in told[c] : \A l \in t.limiters :
    /\ l \in {"global", Rule(t.asked)}
    /\ Price(l) <= Full /\ level[<<l, c>>] + t.left >= Price(l) + Slack

\* A request that heeded one has the limiters to itself until it has passed them.
Alone == \A r \in Connections :
    promised[r] # {} /\ place[r] \in LimitPlaces => ~OthersAsking(r, client[r])

Reserved == \A r \in Connections : \A l \in promised[r] :
    /\ l \in {"global", Rule(query[r])}
    /\ place[r] = "global" \/ (place[r] = "rule" /\ l # "global")
          => level[<<l, client[r]>>] >= Price(l) + Slack

Promised == Quiet /\ Kept /\ Alone /\ Reserved

\* The types of the limits, one by one.
LEMMA LimitParts ==
    ASSUME TypeOK
    PROVE  /\ AsksOK /\ LevelsOK /\ window \subseteq Windows
           /\ told \in [Clients -> SUBSET Promises] /\ providers \subseteq Providers
  BY DEF TypeOK, LimitsTypeOK, AsksOK, LevelsOK

\* The steps of the process leave the limits alone.
LEMMA LimitsStay ==
    ASSUME Running \/ Listen \/ Send \/ StopServing \/ Signal \/ Exit \/ UNCHANGED vars
    PROVE  UNCHANGED <<level, place, client, query, window, told, promised>>
<1>1. CASE Running
  BY <1>1 DEF Running, Load, StageDone, StageFails, Receive, Shutdown, Drained, Deadline,
              StopLimiters, CloseDB, http, limitVars, askVars, history
<1>2. CASE Listen \/ Send \/ StopServing \/ Signal \/ Exit
  BY <1>2 DEF Listen, Send, StopServing, Signal, Exit, http, limitVars, askVars, history
<1>3. CASE UNCHANGED vars
  BY <1>3 DEF vars, http, limitVars, askVars, history
<1> QED BY <1>1, <1>2, <1>3

\* A request asks the limiter it is in front of, which admits or refuses it. The
\* window counts it for that limiter.
LEMMA AskIs ==
    ASSUME TypeOK, NEW r \in Connections, AskGlobal(r) \/ AskRule(r)
    PROVE  LET l == Asked(r)
           IN  /\ l \in Limiters /\ l \in {"global", Rule(query[r])} /\ Price(l) <= Full
               /\ place[r] \in LimitPlaces /\ (place[r] = "global" <=> l = "global")
               /\ \/ /\ Buckets!Admit(<<l, client[r]>>)
                     /\ told' = told
                     /\ \E limits \in SUBSET {l, NoLimit} : window' \in Counted(r, limits)
                     /\ CallRouter(r) \/ (l = "global" /\ PassTo(r, "rule"))
                  \/ Buckets!Refuse(<<l, client[r]>>) /\ TooMany(r, l)
<1>0. AsksOK /\ providers \subseteq Providers
  BY LimitParts
<1>1. CASE AskGlobal(r)
  <2>1. Asked(r) = "global" /\ place[r] = "global"
    BY <1>1 DEF AskGlobal, Asked
  <2>2. Price("global") <= Full /\ "global" \in Limiters
    BY <1>0, Payable DEF Limiters
  <2>3. ASSUME Rule(query[r]) = NoLimit, window' \in Counted(r, {"global", Due(r)})
        PROVE  \E limits \in SUBSET {"global", NoLimit} : window' \in Counted(r, limits)
    <3>1. {"global", Due(r)} \in SUBSET {"global", NoLimit}
      BY <1>0, <2>3, DueIsRule
    <3> QED BY <2>3, <3>1
  <2> QED BY <1>1, <2>1, <2>2, <2>3 DEF AskGlobal, LimitPlaces
<1>2. CASE AskRule(r)
  <2>1. Asked(r) = Rule(query[r]) /\ place[r] = "rule"
    BY <1>2 DEF AskRule, Asked
  <2>2. Rule(query[r]) \in Rules
    BY <1>0, <2>1 DEF AsksOK
  <2>3. Rule(query[r]) \in Limiters /\ Rule(query[r]) # "global" /\ Price(Rule(query[r])) <= Full
    BY <1>0, <2>2, RuleNames, Payable
  <2>4. ASSUME window' \in Counted(r, {Due(r)})
        PROVE  \E limits \in SUBSET {Rule(query[r]), NoLimit} : window' \in Counted(r, limits)
    <3>1. {Due(r)} \in SUBSET {Rule(query[r]), NoLimit}
      BY <1>0, DueIsRule
    <3> QED BY <2>4, <3>1
  <2> QED BY <1>2, <2>1, <2>3, <2>4 DEF AskRule, LimitPlaces
<1> QED BY <1>1, <1>2

\* Paying for one more request.
LEMMA OneMore ==
    ASSUME NEW n \in Nat, NEW price \in Nat
    PROVE  (n + 1) * price = n * price + price /\ 1 * price = price /\ n * price \in Nat
  OBVIOUS

\* Nobody is observed at first.
LEMMA BookedInit == Init => Booked
  BY DEF Init, Booked

\* What a limiter lets through it has been paid for.
LEMMA BookedAdmit ==
    ASSUME TypeOK, Booked, NEW r \in Connections, NEW l \in Limiters, Price(l) <= Full,
           Buckets!Admit(<<l, client[r]>>),
           NEW limits \in SUBSET {l, NoLimit}, window' \in Counted(r, limits)
    PROVE  Booked'
<1>0. /\ AsksOK /\ LevelsOK /\ window \subseteq Windows
      /\ Full \in Nat /\ Slack \in Nat /\ MaxAge \in Nat
  BY LimitParts, HttpLimitsAssumption
<1>1. client[r] \in Clients
  BY <1>0 DEF AsksOK
<1>2. /\ LevelsOK'
      /\ level'[<<l, client[r]>>] <= level[<<l, client[r]>>] - Price(l)
      /\ \A k \in Limiters \X Clients : k # <<l, client[r]>> => level'[k] = level[k]
  BY <1>0, <1>1, AdmitIs
<1>3. limits \subseteq Limiters \cup {NoLimit}
  OBVIOUS
<1>4. Price(l) \in Nat
  BY Prices
<1> SUFFICES ASSUME NEW w \in window'
             PROVE  level'[<<w.limiter, w.client>>] + w.count * Price(w.limiter)
                       <= Full + w.age + Slack
  BY DEF Booked
<1>5. w \in Windows
  BY <1>0, <1>3, CountedIs
<1>6. /\ w.limiter \in Limiters /\ w.client \in Clients /\ w.count \in Nat /\ w.age \in Nat
      /\ Price(w.limiter) \in Nat
  BY <1>0, <1>5, Prices DEF Windows
<1> DEFINE k == <<w.limiter, w.client>>
<1>7. level[k] \in Nat /\ level'[k] \in Nat /\ level[k] <= Full + Slack /\ k \in Limiters \X Clients
  BY <1>0, <1>2, <1>6 DEF LevelsOK
<1>8. CASE w \in window
  <2>1. level[k] + w.count * Price(w.limiter) <= Full + w.age + Slack
    BY <1>8 DEF Booked
  <2>2. level'[k] <= level[k]
    <3>1. CASE k = <<l, client[r]>>
      <4>1. level'[k] <= level[k] - Price(l)
        BY <1>2, <3>1
      <4> QED BY <1>4, <1>7, <4>1
    <3>2. CASE k # <<l, client[r]>>
      BY <1>2, <1>7, <3>2
    <3> QED BY <3>1, <3>2
  <2>3. w.count * Price(w.limiter) \in Nat
    BY <1>6, OneMore
  <2> QED BY <1>0, <1>6, <1>7, <2>1, <2>2, <2>3
<1>9. CASE w.client = client[r] /\ w.limiter \in limits
  <2>1. w.limiter = l /\ k = <<l, client[r]>>
    BY <1>6, <1>9, RuleNames
  <2>2. level'[k] <= level[k] - Price(l)
    BY <1>2, <2>1
  <2>3. CASE \E v \in window : w = [v EXCEPT !.count = v.count + 1]
    <3>1. PICK v \in window : w = [v EXCEPT !.count = v.count + 1]
      BY <2>3
    <3>2. v \in [limiter : Limiters, client : Clients, age : 0..MaxAge, count : Nat]
      BY <1>0 DEF Windows
    <3>3. /\ w.limiter = v.limiter /\ w.client = v.client /\ w.age = v.age
          /\ w.count = v.count + 1 /\ v.count \in Nat
      BY <3>1, <3>2
    <3>4. level[k] + v.count * Price(l) <= Full + w.age + Slack
      BY <2>1, <3>3 DEF Booked
    <3>5. w.count * Price(w.limiter) = v.count * Price(l) + Price(l) /\ v.count * Price(l) \in Nat
      BY <1>4, <2>1, <3>3, OneMore
    <3>6. \A a, b, p, d, f \in Int : a <= b - p /\ b + d <= f => a + (d + p) <= f
      OBVIOUS
    <3>7. Full + w.age + Slack \in Int /\ level'[k] + w.count * Price(w.limiter)
             = level'[k] + (v.count * Price(l) + Price(l))
      BY <1>0, <1>6, <3>5
    <3>8. level'[k] + w.count * Price(w.limiter) <= Full + w.age + Slack
      <4> HIDE DEF k
      <4> QED BY <1>4, <1>7, <2>2, <3>4, <3>5, <3>6, <3>7
    <3> QED BY <3>8
  <2>4. CASE w.count = 1 /\ w.age = 0
    <3>1. w.count * Price(w.limiter) = Price(l)
      BY <1>4, <2>1, <2>4
    <3>2. \A a, b, p, f \in Int : a <= b - p /\ b <= f => a + p <= f
      OBVIOUS
    <3>3. Full + w.age + Slack = Full + Slack /\ Full + Slack \in Int
      BY <1>0, <2>4
    <3>4. level'[k] + w.count * Price(w.limiter) <= Full + w.age + Slack
      <4> HIDE DEF k
      <4> QED BY <1>4, <1>7, <2>2, <3>1, <3>2, <3>3
    <3> QED BY <3>4
  <2>5. CASE w \in window /\ ~(w.client = client[r] /\ w.limiter \in limits)
    BY <1>9, <2>5
  <2> QED BY <1>0, <1>3, <2>3, <2>4, <2>5, CountedIs
<1> QED BY <1>0, <1>3, <1>8, <1>9, CountedIs

\* Every step keeps the account of the observed limiter.
LEMMA BookedStep ==
    ASSUME TypeOK, Booked, [Next]_vars
    PROVE  Booked'
<1>0. /\ AsksOK /\ LevelsOK /\ window \subseteq Windows
      /\ Full \in Nat /\ Slack \in Nat /\ MaxAge \in Nat
  BY LimitParts, HttpLimitsAssumption
<1>1. ASSUME level' = level, window' = window PROVE Booked'
  BY <1>1 DEF Booked
<1>2. CASE Running \/ Listen \/ Send \/ StopServing \/ Signal \/ Exit \/ UNCHANGED vars
  BY <1>1, <1>2, LimitsStay
<1>3. ASSUME NEW r \in Connections, Handling(r) PROVE Booked'
  BY <1>0, <1>1, <1>3, HandlingIs
<1>4. ASSUME NEW r \in Connections, Arrive(r) PROVE Booked'
  BY <1>1, <1>4 DEF Arrive, limitVars
<1>5. ASSUME NEW r \in Connections, AskGlobal(r) \/ AskRule(r) PROVE Booked'
  <2> DEFINE l == Asked(r)
  <2>0. l \in Limiters /\ Price(l) <= Full /\ client[r] \in Clients
    BY <1>0, <1>5, AskIs DEF AsksOK
  <2>1. CASE Buckets!Refuse(<<l, client[r]>>) /\ TooMany(r, l)
    <3>1. level' = level
      BY <2>0, <2>1, RefuseIs
    <3> QED BY <1>1, <2>1, <3>1 DEF TooMany
  <2>2. CASE /\ Buckets!Admit(<<l, client[r]>>)
             /\ \E limits \in SUBSET {l, NoLimit} : window' \in Counted(r, limits)
    BY <2>0, <2>2, BookedAdmit
  <2> QED BY <1>5, <2>1, <2>2, AskIs
<1>6. CASE Tick
  <2> SUFFICES ASSUME NEW v \in window'
               PROVE  level'[<<v.limiter, v.client>>] + v.count * Price(v.limiter)
                         <= Full + v.age + Slack
    BY DEF Booked
  <2>1. PICK w \in window : v = [w EXCEPT !.age = w.age + 1]
    BY <1>6 DEF Tick
  <2>2. w \in [limiter : Limiters, client : Clients, age : 0..MaxAge, count : Nat]
    BY <1>0 DEF Windows
  <2>3. /\ v.limiter = w.limiter /\ v.client = w.client /\ v.count = w.count
        /\ v.age = w.age + 1 /\ w.age \in Nat /\ w.count \in Nat /\ w.limiter \in Limiters
        /\ w.client \in Clients
    BY <1>0, <2>1, <2>2
  <2> DEFINE k == <<w.limiter, w.client>>
  <2>4. level[k] \in Nat /\ level'[k] \in Nat /\ level'[k] <= level[k] + 1
    <3>1. LevelsOK' /\ \A x \in Limiters \X Clients : level'[x] <= level[x] + 1
      BY <1>0, <1>6, FillIs DEF Tick
    <3> QED BY <1>0, <2>3, <3>1 DEF LevelsOK
  <2>5. level[k] + w.count * Price(w.limiter) <= Full + w.age + Slack
    BY DEF Booked
  <2>6. w.count * Price(w.limiter) \in Nat
    BY <2>3, Prices, OneMore
  <2>7. level'[k] + w.count * Price(w.limiter) <= Full + (w.age + 1) + Slack
    <3> HIDE DEF k
    <3> QED BY <1>0, <2>3, <2>4, <2>5, <2>6
  <2> QED BY <2>3, <2>7
<1> QED BY <1>2, <1>3, <1>4, <1>5, <1>6 DEF Next, Limits, Limiting

\* In any window of time a client gets no more requests through to the handlers of a
\* rule, and to all handlers, than the rule's limiter allows.
THEOREM RulesAreKept == Spec => []RulesHold
<1>1. Init => Booked
  BY BookedInit
<1>2. TypeOK /\ Booked /\ [Next]_vars => Booked'
  BY BookedStep
<1>3. TypeOK /\ Booked => RulesHold
  <2> SUFFICES ASSUME TypeOK, Booked, NEW w \in window
               PROVE  w.count * Price(w.limiter) <= Full + w.age + Slack
    BY DEF RulesHold
  <2>1. LevelsOK /\ w \in Windows /\ Full \in Nat /\ Slack \in Nat /\ MaxAge \in Nat
    BY LimitParts, HttpLimitsAssumption
  <2>2. w.limiter \in Limiters /\ w.client \in Clients /\ w.count \in Nat /\ w.age \in Nat
    BY <2>1 DEF Windows
  <2>3. level[<<w.limiter, w.client>>] \in Nat
    BY <2>1, <2>2 DEF LevelsOK
  <2>4. level[<<w.limiter, w.client>>] + w.count * Price(w.limiter) <= Full + w.age + Slack
    BY DEF Booked
  <2>5. w.count * Price(w.limiter) \in Nat
    BY <2>2, Prices, OneMore
  <2> QED BY <2>1, <2>2, <2>3, <2>4, <2>5
<1> QED BY <1>1, <1>2, <1>3, TypeCorrect, PTL DEF Spec
-----------------------------------------------------------------------------
(* Retry-After *)

\* Nobody has been told to wait at first.
LEMMA PromisedInit == Init => Promised
<1>1. "idle" \notin LimitPlaces
  BY DEF LimitPlaces
<1> QED BY <1>1 DEF Init, Promised, Quiet, Kept, Alone, Reserved

\* A step that takes nothing from the buckets, tells nobody and starts no request.
LEMMA CalmStep ==
    ASSUME AsksOK, Promised, level' = level, told' = told,
           \A x \in Connections :
              \/ promised'[x] = {} /\ place'[x] \notin LimitPlaces
              \/ /\ client'[x] = client[x] /\ query'[x] = query[x] /\ promised'[x] = promised[x]
                 /\ place'[x] = place[x] \/ place'[x] \notin LimitPlaces
    PROVE  Promised'
<1>1. "global" \in LimitPlaces /\ "rule" \in LimitPlaces
  BY DEF LimitPlaces
<1>2. Quiet'
  BY DEF Promised, Quiet
<1>3. Kept'
  BY DEF Promised, Kept
<1>4. Alone'
  BY DEF Promised, Alone, OthersAsking
<1>5. Reserved'
  BY <1>1 DEF Promised, Reserved
<1> QED BY <1>2, <1>3, <1>4, <1>5 DEF Promised

\* A limiter admits a request: no other client, and nobody who heeds, is touched.
LEMMA AdmitKeeps ==
    ASSUME TypeOK, Promised, NEW r \in Connections, NEW l \in Limiters, Price(l) <= Full,
           place[r] \in LimitPlaces, place[r] = "global" <=> l = "global",
           Buckets!Admit(<<l, client[r]>>), told' = told,
           CallRouter(r) \/ (l = "global" /\ PassTo(r, "rule"))
    PROVE  Promised'
<1>0. AsksOK /\ LevelsOK /\ told \in [Clients -> SUBSET Promises]
  BY LimitParts
<1>1. client[r] \in Clients
  BY <1>0 DEF AsksOK
<1>2. \A k \in Limiters \X Clients : k # <<l, client[r]>> => level'[k] = level[k]
  BY <1>0, <1>1, AdmitIs
<1>3. /\ "global" \in LimitPlaces /\ "rule" \in LimitPlaces
      /\ {"idle", "connected", "handler"} \cap LimitPlaces = {}
  BY DEF LimitPlaces
<1>4. \A x \in Connections \ {r} : /\ place'[x] = place[x] /\ client'[x] = client[x]
                                   /\ query'[x] = query[x] /\ promised'[x] = promised[x]
  <2>1. CASE CallRouter(r)
    BY <1>0, <2>1, CallRouterIs
  <2>2. CASE PassTo(r, "rule")
    BY <1>0, <2>2 DEF PassTo, askVars, AsksOK
  <2> QED BY <2>1, <2>2
<1>5. \/ /\ place'[r] \notin LimitPlaces
         /\ promised'[r] \subseteq promised[r]
         /\ promised'[r] # {} => query'[r] = query[r]
      \/ /\ place'[r] = "rule" /\ l = "global" /\ client'[r] = client[r]
         /\ query'[r] = query[r] /\ promised'[r] = promised[r]
  <2>1. CASE Finish(r)
    BY <1>0, <1>3, <2>1, FinishIs
  <2>2. CASE PassTo(r, "handler")
    BY <1>0, <1>3, <2>2 DEF PassTo, askVars, AsksOK
  <2>3. CASE l = "global" /\ PassTo(r, "rule")
    BY <1>0, <2>3 DEF PassTo, askVars, AsksOK
  <2> QED BY <2>1, <2>2, <2>3 DEF CallRouter
<1>6. Quiet'
  BY <1>4, <1>5 DEF Promised, Quiet
<1>7. Kept'
  <2> SUFFICES ASSUME NEW c \in Clients, NEW t \in told[c], NEW m \in t.limiters
               PROVE  /\ m \in {"global", Rule(t.asked)}
                      /\ Price(m) <= Full /\ level'[<<m, c>>] + t.left >= Price(m) + Slack
    BY DEF Kept
  <2>1. m \in Limiters
    BY <1>0 DEF Promises
  <2>2. client[r] # c
    BY DEF Promised, Quiet
  <2>3. level'[<<m, c>>] = level[<<m, c>>]
    BY <1>2, <2>1, <2>2
  <2> QED BY <2>3 DEF Promised, Kept
<1>8. Alone'
  BY <1>4, <1>5 DEF Promised, Alone, OthersAsking
<1>9. Reserved'
  <2> SUFFICES ASSUME NEW x \in Connections, NEW m \in promised'[x]
               PROVE  /\ m \in {"global", Rule(query'[x])}
                      /\ place'[x] = "global" \/ (place'[x] = "rule" /\ m # "global")
                            => level'[<<m, client'[x]>>] >= Price(m) + Slack
    BY DEF Reserved
  <2>1. m \in promised[x] /\ m \in Limiters /\ client[x] \in Clients
    BY <1>0, <1>4, <1>5 DEF AsksOK
  <2>2. CASE x # r
    <3>1. /\ place'[x] = place[x] /\ client'[x] = client[x]
          /\ query'[x] = query[x] /\ promised'[x] = promised[x]
      BY <1>4, <2>2
    <3>2. place[x] \in LimitPlaces => client[r] # client[x]
      BY <2>1, <2>2 DEF Promised, Alone, OthersAsking
    <3>3. place[x] \in LimitPlaces => level'[<<m, client[x]>>] = level[<<m, client[x]>>]
      BY <1>2, <2>1, <3>2
    <3> QED BY <1>3, <2>1, <3>1, <3>3 DEF Promised, Reserved
  <2>3. CASE x = r /\ place'[r] = "rule" /\ l = "global"
    <3>1. client'[r] = client[r] /\ query'[r] = query[r] /\ place[r] = "global"
      BY <1>3, <1>5, <2>3
    <3>2. m # "global" => level'[<<m, client[r]>>] = level[<<m, client[r]>>]
      BY <1>1, <1>2, <2>1, <2>3
    <3> QED BY <2>1, <2>3, <3>1, <3>2 DEF Promised, Reserved
  <2>4. CASE x = r /\ place'[r] \notin LimitPlaces /\ query'[r] = query[r]
    BY <1>3, <2>1, <2>4 DEF Promised, Reserved
  <2> QED BY <1>5, <2>2, <2>3, <2>4
<1> QED BY <1>6, <1>7, <1>8, <1>9 DEF Promised

\* A limiter refuses a request: what it says of the wait is true.
LEMMA RefuseKeeps ==
    ASSUME TypeOK, Promised, NEW r \in Connections, NEW l \in Limiters, Price(l) <= Full,
           place[r] \in LimitPlaces, l \in {"global", Rule(query[r])},
           Buckets!Refuse(<<l, client[r]>>), TooMany(r, l)
    PROVE  Promised'
<1>0. /\ AsksOK /\ LevelsOK /\ told \in [Clients -> SUBSET Promises]
      /\ Full \in Nat /\ Slack \in Nat
  BY LimitParts, HttpLimitsAssumption
<1>1. client[r] \in Clients /\ level' = level
  <2>1. client[r] \in Clients
    BY <1>0 DEF AsksOK
  <2> QED BY <2>1, RefuseIs
<1>2. /\ place'[r] \notin LimitPlaces /\ promised'[r] = {}
      /\ \A x \in Connections \ {r} : /\ place'[x] = place[x] /\ client'[x] = client[x]
                                      /\ query'[x] = query[x] /\ promised'[x] = promised[x]
  BY <1>0, FinishIs DEF TooMany, LimitPlaces
<1>3. /\ \A c \in Clients : c # client[r] => told'[c] = told[c]
      /\ told'[client[r]] # {} =>
           /\ ~OthersAsking(r, client[r])
           /\ told'[client[r]] =
                {[limiters |-> {"global", l}, asked |-> query[r], left |-> Wait(l) + Slack]}
  BY <1>0, <1>1 DEF TooMany
<1>4. Quiet'
  <2> SUFFICES ASSUME NEW c \in Clients, NEW x \in Connections,
                      told'[c] # {}, place'[x] \in LimitPlaces
               PROVE  client'[x] # c
    BY DEF Quiet
  <2>1. x # r /\ place[x] \in LimitPlaces /\ client'[x] = client[x]
    BY <1>2
  <2>2. CASE c = client[r]
    BY <1>3, <2>1, <2>2 DEF OthersAsking
  <2>3. CASE c # client[r]
    BY <1>3, <2>1, <2>3 DEF Promised, Quiet
  <2> QED BY <2>2, <2>3
<1>5. Kept'
  <2> SUFFICES ASSUME NEW c \in Clients, NEW t \in told'[c], NEW m \in t.limiters
               PROVE  /\ m \in {"global", Rule(t.asked)}
                      /\ Price(m) <= Full /\ level[<<m, c>>] + t.left >= Price(m) + Slack
    BY <1>1 DEF Kept
  <2>1. CASE c = client[r]
    <3>1. t.limiters = {"global", l} /\ t.asked = query[r] /\ t.left = Wait(l) + Slack
      BY <1>3, <2>1
    <3>2. m \in {"global", l} /\ "global" \in Limiters
      BY <3>1 DEF Limiters
    <3>3. level[<<m, c>>] \in Nat
      BY <1>0, <3>2 DEF LevelsOK
    <3>4. Price(m) \in Nat /\ Wait(l) \in Nat /\ Price(m) <= Wait(l) /\ Price(m) <= Full
      BY <1>0, <3>2, Prices, Payable
    <3> QED BY <1>0, <3>1, <3>3, <3>4
  <2>2. CASE c # client[r]
    BY <1>3, <2>2 DEF Promised, Kept
  <2> QED BY <2>1, <2>2
<1>6. Alone'
  BY <1>2 DEF Promised, Alone, OthersAsking
<1>7. Reserved'
  BY <1>1, <1>2 DEF Promised, Reserved
<1> QED BY <1>4, <1>5, <1>6, <1>7 DEF Promised

\* A request arrives; if it heeds a Retry-After, the wait is over and nobody else asks.
LEMMA ArriveKeeps ==
    ASSUME TypeOK, Promised, NEW r \in Connections, Arrive(r)
    PROVE  Promised'
<1>0. /\ AsksOK /\ LevelsOK /\ told \in [Clients -> SUBSET Promises]
      /\ Full \in Nat /\ Slack \in Nat
  BY LimitParts, HttpLimitsAssumption
<1>1. PICK c \in Clients, q \in Sent :
        /\ client' = [client EXCEPT ![r] = c]
        /\ query' = [query EXCEPT ![r] = q]
        /\ told' = [told EXCEPT ![c] = {}]
        /\ promised' = [x \in Connections |->
              IF x = r THEN UNION {t.limiters : t \in
                 {t \in told[c] : t.left = 0 /\ t.asked = q}}
              ELSE IF client[x] = c THEN {} ELSE promised[x]]
  BY DEF Arrive
<1>2. /\ client'[r] = c /\ query'[r] = q /\ place'[r] = "global"
      /\ told'[c] = {} /\ level' = level
      /\ \A d \in Clients \ {c} : told'[d] = told[d]
      /\ \A x \in Connections \ {r} :
            /\ place'[x] = place[x] /\ client'[x] = client[x] /\ query'[x] = query[x]
            /\ promised'[x] = {} \/ (client[x] # c /\ promised'[x] = promised[x])
  BY <1>0, <1>1 DEF Arrive, AsksOK, limitVars
<1>3. ASSUME NEW m \in promised'[r]
      PROVE  \E t \in told[c] : t.left = 0 /\ t.asked = q
                                /\ m \in t.limiters
  BY <1>1, <1>3
<1>4. Quiet'
  BY <1>2 DEF Promised, Quiet
<1>5. Kept'
  BY <1>2 DEF Promised, Kept
<1>6. Alone'
  <2> SUFFICES ASSUME NEW x \in Connections, promised'[x] # {}, place'[x] \in LimitPlaces,
                      NEW y \in Connections \ {x},
                      client'[y] = client'[x], place'[y] \in LimitPlaces
               PROVE  FALSE
    BY DEF Alone, OthersAsking
  <2>1. CASE x = r
    <3>1. told[c] # {}
      BY <1>3, <2>1
    <3>2. client[y] = c /\ place[y] \in LimitPlaces
      BY <1>2, <2>1
    <3> QED BY <3>1, <3>2 DEF Promised, Quiet
  <2>2. CASE x # r /\ y = r
    BY <1>2, <2>2
  <2>3. CASE x # r /\ y # r
    BY <1>2, <2>3 DEF Promised, Alone, OthersAsking
  <2> QED BY <2>1, <2>2, <2>3
<1>7. Reserved'
  <2> SUFFICES ASSUME NEW x \in Connections, NEW m \in promised'[x]
               PROVE  /\ m \in {"global", Rule(query'[x])}
                      /\ place'[x] = "global" \/ (place'[x] = "rule" /\ m # "global")
                            => level[<<m, client'[x]>>] >= Price(m) + Slack
    BY <1>2 DEF Reserved
  <2>1. CASE x = r
    <3>1. PICK t \in told[c] : t.left = 0 /\ t.asked = q
                               /\ m \in t.limiters
      BY <1>3, <2>1
    <3>2. m \in {"global", Rule(q)} /\ level[<<m, c>>] + 0 >= Price(m) + Slack
      BY <3>1 DEF Promised, Kept
    <3>3. m \in Limiters
      BY <1>0, <3>1 DEF Promises
    <3>4. level[<<m, c>>] \in Nat
      BY <1>0, <3>3 DEF LevelsOK
    <3> QED BY <1>2, <2>1, <3>1, <3>2, <3>4
  <2>2. CASE x # r
    BY <1>2, <2>2 DEF Promised, Reserved
  <2> QED BY <2>1, <2>2
<1> QED BY <1>4, <1>5, <1>6, <1>7 DEF Promised

\* Time fills the buckets at least as fast as it shortens the waits.
LEMMA TickKeeps ==
    ASSUME TypeOK, Promised, Tick
    PROVE  Promised'
<1>0. /\ AsksOK /\ LevelsOK /\ told \in [Clients -> SUBSET Promises]
      /\ Full \in Nat /\ Slack \in Nat
  BY LimitParts, HttpLimitsAssumption
<1>1. /\ LevelsOK'
      /\ \A k \in Limiters \X Clients :
            /\ level'[k] >= level[k]
            /\ level'[k] = Full + Slack \/ level'[k] = level[k] + 1
  BY <1>0, FillIs DEF Tick
<1>2. UNCHANGED <<place, client, query, promised>>
  BY DEF Tick, askVars
<1>3. \A c \in Clients :
        told'[c] = {[t EXCEPT !.left = IF t.left > 0 THEN t.left - 1 ELSE 0] : t \in told[c]}
  BY DEF Tick
<1>4. Quiet'
  BY <1>2, <1>3 DEF Promised, Quiet
<1>5. Kept'
  <2> SUFFICES ASSUME NEW c \in Clients, NEW u \in told'[c], NEW m \in u.limiters
               PROVE  /\ m \in {"global", Rule(u.asked)}
                      /\ Price(m) <= Full /\ level'[<<m, c>>] + u.left >= Price(m) + Slack
    BY DEF Kept
  <2>1. PICK t \in told[c] : u = [t EXCEPT !.left = IF t.left > 0 THEN t.left - 1 ELSE 0]
    BY <1>3
  <2>2. t \in [limiters : SUBSET Limiters, asked : Sent, left : Nat]
    BY <1>0 DEF Promises
  <2>3. u.limiters = t.limiters /\ u.asked = t.asked /\ u.left = (IF t.left > 0 THEN t.left - 1 ELSE 0)
        /\ t.left \in Nat /\ m \in Limiters
    BY <2>1, <2>2
  <2>4. /\ m \in {"global", Rule(t.asked)}
        /\ Price(m) <= Full /\ level[<<m, c>>] + t.left >= Price(m) + Slack
    BY <2>3 DEF Promised, Kept
  <2>5. level[<<m, c>>] \in Nat /\ level'[<<m, c>>] \in Nat /\ Price(m) \in Nat
    BY <1>0, <1>1, <2>3, Prices DEF LevelsOK
  <2>6. level'[<<m, c>>] >= level[<<m, c>>]
        /\ (level'[<<m, c>>] = Full + Slack \/ level'[<<m, c>>] = level[<<m, c>>] + 1)
    BY <1>1, <2>3
  <2> QED BY <1>0, <2>3, <2>4, <2>5, <2>6
<1>6. Alone'
  BY <1>2 DEF Promised, Alone, OthersAsking
<1>7. Reserved'
  <2> SUFFICES ASSUME NEW x \in Connections, NEW m \in promised[x]
               PROVE  /\ m \in {"global", Rule(query[x])}
                      /\ place[x] = "global" \/ (place[x] = "rule" /\ m # "global")
                            => level'[<<m, client[x]>>] >= Price(m) + Slack
    BY <1>2 DEF Reserved
  <2>1. <<m, client[x]>> \in Limiters \X Clients
    BY <1>0 DEF AsksOK
  <2>2. /\ level[<<m, client[x]>>] \in Nat /\ level'[<<m, client[x]>>] \in Nat
        /\ Price(m) \in Nat /\ level'[<<m, client[x]>>] >= level[<<m, client[x]>>]
    BY <1>0, <1>1, <2>1, Prices DEF LevelsOK
  <2> QED BY <1>0, <2>2 DEF Promised, Reserved
<1> QED BY <1>4, <1>5, <1>6, <1>7 DEF Promised

\* Every step keeps what clients that were told to wait can count on.
LEMMA PromisedStep ==
    ASSUME TypeOK, Promised, [Next]_vars
    PROVE  Promised'
<1>0. AsksOK
  BY LimitParts
<1>1. CASE Running \/ Listen \/ Send \/ StopServing \/ Signal \/ Exit \/ UNCHANGED vars
  <2>1. UNCHANGED <<level, place, client, query, window, told, promised>>
    BY <1>1, LimitsStay
  <2> QED BY <1>0, <2>1, CalmStep
<1>2. ASSUME NEW r \in Connections, Handling(r) PROVE Promised'
  <2>1. /\ UNCHANGED <<level, told>>
        /\ place'[r] \notin LimitPlaces
        /\ \/ promised'[r] = {}
           \/ client'[r] = client[r] /\ query'[r] = query[r] /\ promised'[r] = promised[r]
        /\ \A x \in Connections \ {r} : /\ place'[x] = place[x]
                                        /\ client'[x] = client[x]
                                        /\ query'[x] = query[x]
                                        /\ promised'[x] = promised[x]
    BY <1>0, <1>2, HandlingIs
  <2> QED BY <1>0, <2>1, CalmStep
<1>3. ASSUME NEW r \in Connections, Arrive(r) PROVE Promised'
  BY <1>3, ArriveKeeps
<1>4. ASSUME NEW r \in Connections, AskGlobal(r) \/ AskRule(r) PROVE Promised'
  BY <1>4, AskIs, AdmitKeeps, RefuseKeeps
<1>5. CASE Tick
  BY <1>5, TickKeeps
<1> QED BY <1>1, <1>2, <1>3, <1>4, <1>5 DEF Next, Limits, Limiting

\* Whoever waits as long as Retry-After says, sends nothing meanwhile and asks for the
\* same again passes the limiter that refused it, and the global one.
THEOREM WaitIsEnough == Spec => WaitSuffices
<1>1. Init => Promised
  BY PromisedInit
<1>2. TypeOK /\ Promised /\ [Next]_vars => Promised'
  BY PromisedStep
<1>3. TypeOK /\ Promised /\ [Next]_vars =>
        [\A r \in Connections :
            Asked(r) \in promised[r] /\ place'[r] # place[r] => level' # level]_<<place, limitVars>>
  <2> SUFFICES ASSUME TypeOK, Promised, [Next]_vars, NEW r \in Connections,
                      Asked(r) \in promised[r], place'[r] # place[r]
               PROVE  level' # level
    OBVIOUS
  <2>0. AsksOK /\ LevelsOK /\ Asked(r) \in Limiters /\ client[r] \in Clients
    BY LimitParts DEF AsksOK
  <2>1. \/ place[r] = "global" /\ Asked(r) = "global"
        \/ place[r] = "rule" /\ Asked(r) = Rule(query[r]) /\ Asked(r) # "global"
    <3>1. place[r] = "rule" => Rule(query[r]) # "global"
      BY <2>0, RuleNames DEF AsksOK
    <3>2. NoLimit \notin Limiters
      BY RuleNames
    <3> QED BY <2>0, <3>1, <3>2 DEF Asked
  <2>2. AskGlobal(r) \/ AskRule(r)
    <3>1. place[r] \in LimitPlaces
      BY <2>1 DEF LimitPlaces
    <3>2. ASSUME NEW x \in Connections, Handling(x) PROVE FALSE
      BY <2>0, <3>1, <3>2, HandlingIs
    <3>3. ASSUME NEW x \in Connections, Arrive(x) PROVE FALSE
      BY <2>0, <2>1, <3>3 DEF Arrive, AsksOK
    <3>4. ASSUME NEW x \in Connections, AskGlobal(x) \/ AskRule(x), x # r PROVE FALSE
      <4>1. Finish(x) \/ (\E to : PassTo(x, to))
        BY <3>4 DEF AskGlobal, AskRule, TooMany, CallRouter
      <4> QED BY <2>0, <3>4, <4>1 DEF Finish, PassTo, AsksOK
    <3>5. ~Tick
      BY DEF Tick
    <3>6. ~(Running \/ Listen \/ Send \/ StopServing \/ Signal \/ Exit \/ UNCHANGED vars)
      BY LimitsStay
    <3> QED BY <3>2, <3>3, <3>4, <3>5, <3>6 DEF Next, Limits, Limiting
  <2>3. CASE Buckets!Refuse(<<Asked(r), client[r]>>)
    <3>1. level[<<Asked(r), client[r]>>] < Price(Asked(r)) + Slack
      BY <2>0, <2>3, RefuseIs
    <3>2. level[<<Asked(r), client[r]>>] >= Price(Asked(r)) + Slack
      BY <2>1 DEF Promised, Reserved
    <3>3. /\ level[<<Asked(r), client[r]>>] \in Nat /\ Price(Asked(r)) \in Nat
          /\ Full \in Nat /\ Slack \in Nat
      BY <2>0, Prices, HttpLimitsAssumption DEF LevelsOK
    <3> QED BY <3>1, <3>2, <3>3
  <2>4. CASE Buckets!Admit(<<Asked(r), client[r]>>)
    <3>1. Price(Asked(r)) <= Full
      BY <2>2, AskIs
    <3> QED BY <2>0, <2>4, <3>1, AdmitIs
  <2> QED BY <2>2, <2>3, <2>4, AskIs
<1> QED BY <1>1, <1>2, <1>3, TypeCorrect, PTL DEF Spec, WaitSuffices
=============================================================================
