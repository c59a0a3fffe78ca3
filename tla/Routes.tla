------------------------------- MODULE Routes -------------------------------
(***************************************************************************)
(* Which handler a request reaches, and which limiter it is counted against.  *)
(* The two are decided in different packages, from the same path.            *)
(*                                                                          *)
(* A path is the segments between its slashes. A slash may have come percent-  *)
(* encoded: the mux does not split there, the code that reads URL.Path does.   *)
(* Other encoded characters are the same to both, and a dot segment that came  *)
(* encoded is a segment like any other.                                      *)
(* CONNECT, which the mux does not clean, and hosts are left out.              *)
(***************************************************************************)
EXTENDS Integers, Sequences

Methods   == {"GET", "HEAD", "POST", "PUT"}
Providers == {"github", "google"}

\* escaped: the slashes that came encoded; slash i follows segment i.
Targets == {t \in [method : Methods, path : Seq(STRING) \ {<<>>}, escaped : SUBSET Nat] :
               t.escaped \subseteq 1..(Len(t.path) - 1)}
-----------------------------------------------------------------------------
(* requestRateLimitRule *)

Item(path, kind, what) ==
    Len(path) = 3 /\ path[1] = kind /\ path[2] # "" /\ path[3] = what

\* Fault: reactions to comments are forgotten.
RuleOfPosts(q) ==
    IF q.method # "POST" THEN "none"
    ELSE CASE q.path = <<"login">>               -> "login"
           [] q.path = <<"register">>            -> "register"
           [] q.path = <<"posts">>               -> "post"
           [] Item(q.path, "posts", "comments")  -> "comment"
           [] Item(q.path, "posts", "react")     -> "reaction"
           [] OTHER                              -> "none"

Rule(q) ==
    IF q.method # "POST" THEN "none"
    ELSE CASE q.path = <<"login">>               -> "login"
           [] q.path = <<"register">>            -> "register"
           [] q.path = <<"posts">>               -> "post"
           [] Item(q.path, "posts", "comments")  -> "comment"
           [] \/ Item(q.path, "posts", "react")
              \/ Item(q.path, "comments", "react") -> "reaction"
           [] OTHER                              -> "none"
-----------------------------------------------------------------------------
(* http.ServeMux *)

\* A segment of the path as it was sent, before it was decoded.
Whole(q, i) == {i - 1, i} \cap q.escaped = {}

\* cleanPath would drop an empty segment or a dot segment.
Dirty(q) == \E i \in 1..Len(q.path) :
               Whole(q, i) /\ \/ q.path[i] \in {".", ".."}
                              \/ q.path[i] = "" /\ i < Len(q.path)

\* A pattern with a slash at its end, and one without.
Under(q, name)  == Len(q.path) > 1 /\ q.path[1] = name /\ 1 \notin q.escaped
Exactly(q, path) == q.path = path /\ q.escaped = {}

\* Answered with a redirection to the path that is cleaned, or ends with a slash.
Redirected(q) == Dirty(q) \/ q.path \in {<<"static">>, <<"comments">>}
-----------------------------------------------------------------------------
(* NewForumRouter *)

\* methodHandler
ByMethod(q, methods, handler) == IF q.method \in methods THEN handler ELSE "405"

PostRoutes(q) ==
    CASE Len(q.path) = 2 /\ q.path[2] # "" -> ByMethod(q, {"GET"}, "detail")
      [] Item(q.path, "posts", "comments") -> ByMethod(q, {"POST"}, "comment")
      [] Item(q.path, "posts", "react")    -> ByMethod(q, {"POST"}, "post reaction")
      [] OTHER                             -> "404"

CommentRoutes(q) ==
    IF Item(q.path, "comments", "react") THEN ByMethod(q, {"POST"}, "comment reaction")
    ELSE "404"

Home(q) == ByMethod(q, {"GET"}, IF q.path = <<"">> THEN "home" ELSE "404")

\* The handler of a request, or the status it is answered with instead; providers
\* are those whose routes were declared.
Handler(q, providers) ==
    IF Redirected(q) THEN "301"
    ELSE
    CASE Exactly(q, <<"register">>)        -> ByMethod(q, {"GET", "POST"}, "register")
      [] Exactly(q, <<"login">>)           -> ByMethod(q, {"GET", "POST"}, "login")
      [] Exactly(q, <<"logout">>)          -> ByMethod(q, {"POST"}, "logout")
      [] Exactly(q, <<"posts">>)           -> ByMethod(q, {"POST"}, "post creation")
      [] Exactly(q, <<"posts", "new">>)    -> ByMethod(q, {"GET"}, "post creation")
      [] \E p \in providers : Exactly(q, <<"auth", p>>) -> ByMethod(q, {"GET"}, "authorize")
      [] \E p \in providers : Exactly(q, <<"auth", p, "callback">>)
                                           -> ByMethod(q, {"GET"}, "callback")
      [] Under(q, "static")                -> ByMethod(q, {"GET"}, "static")
      [] /\ Under(q, "posts")
         /\ ~Exactly(q, <<"posts", "new">>) -> PostRoutes(q)
      [] Under(q, "comments")              -> CommentRoutes(q)
      [] OTHER                             -> Home(q)

Pages == {"home", "register", "login", "logout", "post creation", "detail", "comment",
          "post reaction", "comment reaction", "static", "authorize", "callback"}

\* The limit each handler is meant to have: only what it does for a POST is limited.
LimitOf(q, handler) ==
    IF q.method # "POST" THEN "none"
    ELSE CASE handler \in {"login", "register", "comment"}         -> handler
           [] handler = "post creation"                            -> "post"
           [] handler \in {"post reaction", "comment reaction"}    -> "reaction"
           [] OTHER                                                -> "none"
=============================================================================
