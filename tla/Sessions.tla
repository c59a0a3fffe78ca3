------------------------------ MODULE Sessions ------------------------------
(***************************************************************************)
(* Server-side sessions: the authentication middleware every request runs  *)
(* through, login (by password or by a provider identity: both end in      *)
(* Create + CreateSession), logout, and the sessions table in SQLite.      *)
(*                                                                         *)
(* A request is a goroutine; what it does between two database calls is one *)
(* action. SQLite admits one writer: a write transaction works on a private *)
(* draft of the table that COMMIT publishes. Any database call may fail    *)
(* (I/O, or SQLITE_BUSY after the busy timeout), any response may be lost, *)
(* and the process may die between two steps.                              *)
(***************************************************************************)
EXTENDS Naturals, FiniteSets

CONSTANTS Users,       \* registered users
          SessionIds,  \* identifiers uuid.NewString produces (bounds the logins)
          Browsers,    \* browsers, each with one cookie jar
          Requests,    \* requests that may be in flight together
          BrowserOf,   \* request -> the browser that sends it
          Duration,    \* FORUM_SESSION_DURATION, in clock ticks
          Second,      \* clock ticks per second: RFC3339 drops the rest
          MaxNow,      \* bound on the clock
          None         \* no session cookie, no user

ASSUME SessionsAssumption ==
    /\ BrowserOf \in [Requests -> Browsers]
    /\ Duration \in Nat \ {0}
    /\ Second \in Nat \ {0}
    /\ MaxNow \in Nat
    /\ None \notin Users
    /\ None \notin SessionIds
    /\ None \notin Requests

VARIABLES now,       \* the server's wall clock
          sessions,  \* committed rows of table sessions
          writer,    \* the request whose transaction holds SQLite's write lock
          draft,     \* the table as that transaction sees it
          jar,       \* browser -> its session cookie, if it has one
          used,      \* identifiers generated so far
          granted,   \* history: every row ever committed
          \* one value per request in flight
          pc,        \* where its goroutine is
          req,       \* what arrived: kind, cookie, and whether that had ended
          found,     \* the row SessionRepository.ByID read, if any
          who,       \* CurrentUser of its context, None for a guest
          login,     \* the session a login is creating
          reply      \* the effect of the response's last Set-Cookie

store  == <<sessions, writer, draft, granted>>
locals == <<pc, req, found, who, login, reply>>
vars   == <<now, jar, used, store, locals>>

Rows    == [id : SessionIds, user : Users, expires : Nat]
Cookies == [id : SessionIds, expires : Nat]

\* expiresAt.UTC().Format(time.RFC3339), and the Expires of a Set-Cookie.
ToSecond(t) == (t \div Second) * Second

Ids(rows) == {s.id : s \in rows}

\* Sessions that existed and are gone: replaced or logged out.
Ended == Ids(granted) \ Ids(sessions)

NoRequest == [kind |-> "page", sent |-> None, late |-> FALSE]
NoLogin   == [account |-> None, new |-> None, until |-> 0, expires |-> 0]

Steps  == {"idle", "find", "check", "handle", "create", "expiry",
           "delete", "insert", "commit", "reply"}
Sent   == [kind : {"page", "login", "logout"}, sent : SessionIds \cup {None},
           late : BOOLEAN]
Logins == [account : Users \cup {None}, new : SessionIds \cup {None},
           until : Nat, expires : Nat]    \* of the cookie, of the row

TypeOK == /\ now \in Nat
          /\ sessions \subseteq Rows
          /\ writer \in Requests \cup {None}
          /\ draft \subseteq Rows
          /\ jar \in [Browsers -> SUBSET Cookies]
          /\ used \subseteq SessionIds
          /\ granted \subseteq Rows
          /\ pc \in [Requests -> Steps]
          /\ req \in [Requests -> Sent]
          /\ found \in [Requests -> SUBSET Rows]
          /\ who \in [Requests -> Users \cup {None}]
          /\ login \in [Requests -> Logins]
          /\ reply \in [Requests -> {"none", "set", "clear"}]

Init == /\ now = 0
        /\ sessions = {} /\ writer = None /\ draft = {} /\ granted = {}
        /\ jar = [b \in Browsers |-> {}]
        /\ used = {}
        /\ pc    = [r \in Requests |-> "idle"]
        /\ req   = [r \in Requests |-> NoRequest]
        /\ found = [r \in Requests |-> {}]
        /\ who   = [r \in Requests |-> None]
        /\ login = [r \in Requests |-> NoLogin]
        /\ reply = [r \in Requests |-> "none"]

Goto(r, step) == pc' = [pc EXCEPT ![r] = step]
-----------------------------------------------------------------------------
(* The browser *)

\* Expired cookies are not sent.
SentCookie(b) == {c.id : c \in {d \in jar[b] : now < d.expires}}

\* Keeps an identifier in reserve for every login that has not taken its own.
IdsLeft == Cardinality({q \in Requests : req[q].kind = "login" /\ login[q].new = None})
              < Cardinality(SessionIds \ used)

Arrive(r) ==
    /\ pc[r] = "idle"
    /\ Goto(r, "find")
    /\ \E k \in {"page", "login", "logout"} :
       \E id \in IF SentCookie(BrowserOf[r]) = {} THEN {None}
                                                  ELSE SentCookie(BrowserOf[r]) :
          /\ k = "login" => IdsLeft
          /\ req' = [req EXCEPT ![r] =
                       [kind |-> k, sent |-> id, late |-> id \in Ended]]
    /\ UNCHANGED <<now, jar, used, store, found, who, login, reply>>

Forget(r) == /\ pc'    = [pc EXCEPT ![r] = "idle"]
             /\ req'   = [req EXCEPT ![r] = NoRequest]
             /\ found' = [found EXCEPT ![r] = {}]
             /\ who'   = [who EXCEPT ![r] = None]
             /\ login' = [login EXCEPT ![r] = NoLogin]
             /\ reply' = [reply EXCEPT ![r] = "none"]

\* The browser's cookie once the response has arrived.
NewCookie(r) ==
    IF reply[r] = "set" THEN {[id |-> login[r].new, expires |-> login[r].until]}
    ELSE IF reply[r] = "clear" THEN {} ELSE jar[BrowserOf[r]]

\* The response reaches the browser, or the client went away before it did.
Reply(r) ==
    /\ pc[r] = "reply"
    /\ Forget(r)
    /\ \/ jar' = [jar EXCEPT ![BrowserOf[r]] = NewCookie(r)]
       \/ UNCHANGED jar
    /\ UNCHANGED <<now, used, store>>
-----------------------------------------------------------------------------
(* Authentication middleware: any doubt makes the request a guest's *)

\* Faults: the row comes from a cache that no logout invalidates; by no key.
ByIDCached(r) == {s \in granted : s.id = req[r].sent}
ByIDAny(r)    == sessions

\* SELECT ... WHERE id = ?
ByID(r) == {s \in sessions : s.id = req[r].sent}

\* Read the cookie and SELECT its row; no row and a failed query look the same.
FindSession(r) ==
    /\ pc[r] = "find"
    /\ \/ /\ found' = [found EXCEPT ![r] = ByID(r)]
          /\ found'[r] # {}
          /\ Goto(r, "check")
       \/ /\ UNCHANGED found
          /\ Goto(r, "handle")
    /\ UNCHANGED <<now, jar, used, store, req, who, login, reply>>

\* The row read earlier is compared with the clock; then users.ByID.
CheckExpiry(r) ==
    /\ pc[r] = "check"
    /\ Goto(r, "handle")
    /\ \/ \E s \in found[r] : s.expires > now /\ who' = [who EXCEPT ![r] = s.user]
       \/ UNCHANGED who           \* expired, or the user could not be read
    /\ UNCHANGED <<now, jar, used, store, req, found, login, reply>>
-----------------------------------------------------------------------------
(* Handlers *)

\* Any other page or form: the session plays no further part.
Page(r) ==
    /\ pc[r] = "handle" /\ req[r].kind = "page"
    /\ Goto(r, "reply")
    /\ UNCHANGED <<now, jar, used, store, req, found, who, login, reply>>

\* Fault: the DELETE goes by the user of the context.
RemainingOfOthers(r) == {s \in sessions : s.user # who[r]}

\* The rows a logout leaves: it ends the session of the cookie it was sent.
Remaining(r) == {s \in sessions : s.id # req[r].sent}

\* No authentication is asked for: the cookie alone names the session.
Logout(r) ==
    /\ pc[r] = "handle" /\ req[r].kind = "logout"
    /\ req[r].sent = None \/ writer = None
    /\ sessions' = Remaining(r)
    /\ reply' = [reply EXCEPT ![r] = "clear"]
    /\ Goto(r, "reply")
    /\ UNCHANGED <<now, jar, used, writer, draft, granted, req, found, who, login>>

\* The DELETE fails: 500, and the browser keeps its cookie.
LogoutFail(r) ==
    /\ pc[r] = "handle" /\ req[r].kind = "logout" /\ req[r].sent # None
    /\ Goto(r, "reply")
    /\ UNCHANGED <<now, jar, used, store, req, found, who, login, reply>>

\* LoginService.Login, or OAuthLoginService.Login: a user, or an error page.
Credentials(r) ==
    /\ pc[r] = "handle" /\ req[r].kind = "login"
    /\ \/ /\ \E u \in Users : login' = [login EXCEPT ![r].account = u]
          /\ Goto(r, "create")
       \/ /\ Goto(r, "reply")
          /\ UNCHANGED login
    /\ UNCHANGED <<now, jar, used, store, req, found, who, reply>>

\* Fault: the browser's identifier is kept.
SameID(r) == IF req[r].sent = None THEN SessionIds \ used ELSE {req[r].sent}

\* uuid.NewString
NewID(r) == SessionIds \ used

\* Fault: the cookie is written with its fraction of a second.
CookieExpiresExact == now + Duration

CookieExpires == ToSecond(now + Duration)

\* The cookie header is written before the session exists.
CreateCookie(r) ==
    /\ pc[r] = "create"
    /\ \E id \in NewID(r) :
          /\ used' = used \cup {id}
          /\ login' = [login EXCEPT ![r].new = id, ![r].until = CookieExpires]
    /\ reply' = [reply EXCEPT ![r] = "set"]
    /\ Goto(r, "expiry")
    /\ UNCHANGED <<now, jar, store, req, found, who>>

\* The row's expiry is taken from the clock before the write lock is asked for.
CreateSession(r) ==
    /\ pc[r] = "expiry"
    /\ login' = [login EXCEPT ![r].expires = ToSecond(now + Duration)]
    /\ Goto(r, "delete")
    /\ UNCHANGED <<now, jar, used, store, req, found, who, reply>>
-----------------------------------------------------------------------------
(* SessionRepository.Replace *)

\* The first write takes the lock; until it is free the call waits.
ReplaceDelete(r) ==
    /\ pc[r] = "delete"
    /\ writer = None
    /\ writer' = r
    /\ draft' = {s \in sessions : s.user # login[r].account}
    /\ Goto(r, "insert")
    /\ UNCHANGED <<now, jar, used, sessions, granted, req, found, who, login, reply>>

\* Fault: the row is written for the user of the context.
NewRowOfCaller(r) == [id |-> login[r].new, user |-> who[r], expires |-> login[r].expires]

NewRow(r) == [id |-> login[r].new, user |-> login[r].account, expires |-> login[r].expires]

ReplaceInsert(r) ==
    /\ pc[r] = "insert"
    /\ \A s \in draft : s.id # login[r].new /\ s.user # login[r].account   \* UNIQUE
    /\ draft' = draft \cup {NewRow(r)}
    /\ Goto(r, "commit")
    /\ UNCHANGED <<now, jar, used, sessions, writer, granted, req, found, who, login, reply>>

ReplaceCommit(r) ==
    /\ pc[r] = "commit"
    /\ sessions' = draft
    /\ granted' = granted \cup draft
    /\ writer' = None /\ draft' = {}
    /\ Goto(r, "reply")
    /\ UNCHANGED <<now, jar, used, req, found, who, login, reply>>

\* Faults: the cookie already set is not expired; the rollback is forgotten.
ReplaceFailKeepsCookie(r) ==
    /\ pc[r] \in {"delete", "insert", "commit"}
    /\ \/ writer = r /\ writer' = None /\ draft' = {}
       \/ writer # r /\ UNCHANGED <<writer, draft>>
    /\ Goto(r, "reply")
    /\ UNCHANGED <<now, jar, used, sessions, granted, req, found, who, login, reply>>

ReplaceFailKeepsLock(r) ==
    /\ pc[r] \in {"delete", "insert", "commit"}
    /\ reply' = [reply EXCEPT ![r] = "clear"]
    /\ Goto(r, "reply")
    /\ UNCHANGED <<now, jar, used, store, req, found, who, login>>

\* A statement or the COMMIT fails: the deferred Rollback drops the draft, and
\* the handler expires the cookie it had just set.
ReplaceFail(r) ==
    /\ pc[r] \in {"delete", "insert", "commit"}
    /\ \/ writer = r /\ writer' = None /\ draft' = {}
       \/ writer # r /\ UNCHANGED <<writer, draft>>
    /\ reply' = [reply EXCEPT ![r] = "clear"]
    /\ Goto(r, "reply")
    /\ UNCHANGED <<now, jar, used, sessions, granted, req, found, who, login>>
-----------------------------------------------------------------------------
\* The process dies and restarts: SQLite rolls the open transaction back.
Crash ==
    /\ \E r \in Requests : pc[r] # "idle"
    /\ writer' = None /\ draft' = {}
    /\ pc'    = [r \in Requests |-> "idle"]
    /\ req'   = [r \in Requests |-> NoRequest]
    /\ found' = [r \in Requests |-> {}]
    /\ who'   = [r \in Requests |-> None]
    /\ login' = [r \in Requests |-> NoLogin]
    /\ reply' = [r \in Requests |-> "none"]
    /\ UNCHANGED <<now, jar, used, sessions, granted>>

Tick == /\ now < MaxNow
        /\ now' = now + 1
        /\ UNCHANGED <<jar, used, store, locals>>

\* What the goroutine of request r does next.
Serve(r) ==
    \/ FindSession(r) \/ CheckExpiry(r) \/ Page(r)
    \/ Logout(r) \/ LogoutFail(r)
    \/ Credentials(r) \/ CreateCookie(r) \/ CreateSession(r)
    \/ ReplaceDelete(r) \/ ReplaceInsert(r) \/ ReplaceCommit(r) \/ ReplaceFail(r)

Next == \/ \E r \in Requests : Arrive(r) \/ Serve(r) \/ Reply(r)
        \/ Crash
        \/ Tick

Spec == Init /\ [][Next]_vars

\* The Go scheduler runs every goroutine that is not waiting, and the busy
\* timeout ends every wait for the lock.
FairSpec == Spec /\ \A r \in Requests : WF_vars(Serve(r))
-----------------------------------------------------------------------------
(* Properties *)

\* A cookie whose session had already ended when the request arrived (replaced
\* by another login, or logged out) never authenticates that request, however
\* the reads, logins and logouts interleave after that.
StaleStaysGuest == \A r \in Requests : req[r].late => who[r] = None

\* A request acts for the user who logged in with the cookie it carries, even
\* though its row may be replaced between the read and the handler.
Attributed == \A r \in Requests : who[r] # None =>
                 \E s \in granted : s.id = req[r].sent /\ s.user = who[r]

\* A browser never keeps a cookie for a session the database did not commit:
\* the header is written first, and every error after it expires the cookie. A panic
\* after it would not; there is no such step.
CookieBacked == \A b \in Browsers : \A c \in jar[b] : c.id \in Ids(granted)

\* The browser stops sending a cookie no later than the server stops honouring
\* it: the two expiries are computed at two moments, in this order.
CookieNeverOutlivesRow ==
    \A b \in Browsers : \A c \in jar[b] : \A s \in granted :
        c.id = s.id => c.expires <= s.expires

\* A session leaves the table only because its own cookie was logged out, or in
\* the very step that gives the same user the next session: no crash, failed
\* statement or other user's request ends it.
EndsOnlyOwn ==
    [][\A s \in sessions \ sessions' :
          \/ \E t \in sessions' : t.user = s.user /\ t.id \notin Ids(sessions)
          \/ \E r \in Requests : req[r].kind = "logout" /\ req[r].sent = s.id
                                 /\ pc[r] = "handle" /\ pc'[r] = "reply"]_vars

\* A login that took the write lock gives it back, whatever fails.
WriterReleased == \A r \in Requests : (writer = r) ~> (writer # r)

\* The table of committed rows behaves as the login service promises.
Promise == INSTANCE SessionService WITH
              active <- [u \in Users |-> {s.id : s \in {t \in sessions : t.user = u}}],
              spent  <- Ids(granted)

ImplementsService == Promise!Spec
=============================================================================
