--------------------------- MODULE SessionsProofs ---------------------------
(***************************************************************************)
(* Theorems about module Sessions, for any users, browsers, requests,      *)
(* identifiers and clock settings.                                         *)
(***************************************************************************)
EXTENDS Sessions, TLAPS

\* A login past Credentials knows its user, past CreateCookie its identifier.
LoginKnown ==
    \A r \in Requests :
       /\ pc[r] \in {"create", "expiry", "delete", "insert", "commit"}
             => login[r].account \in Users
       /\ pc[r] \in {"expiry", "delete", "insert", "commit"} \/ reply[r] = "set"
             => login[r].new \in SessionIds

TypeInv == TypeOK /\ LoginKnown

\* Rows are written once: an identifier names one row for ever.
OneRowPerId == \A s, t \in granted : s.id = t.id => s = t

\* The table holds committed rows, and no two of them have the same user.
TableSound == /\ sessions \subseteq granted
              /\ \A s, t \in sessions : s.user = t.user => s = t

\* Identifiers are generated once, each for one request.
IdsFresh == /\ Ids(granted) \subseteq used
            /\ \A r \in Requests : login[r].new \in used \cup {None}
            /\ \A q, r \in Requests :
                  login[q].new = login[r].new /\ login[q].new # None => q = r

\* A login that has not committed: no row has its identifier.
LoginPending ==
    \A r \in Requests : pc[r] \in {"expiry", "delete", "insert", "commit"}
                           => login[r].new \notin Ids(granted)

\* The transaction's draft is the committed table with its own changes.
Others(r) == {s \in sessions : s.user # login[r].account}
DraftSound ==
    \A r \in Requests :
       /\ pc[r] = "insert" => writer = r /\ draft = Others(r)
       /\ pc[r] = "commit" => writer = r /\ draft = Others(r) \cup {NewRow(r)}

\* What the middleware read is a committed row of the cookie's identifier.
FoundSound == \A r \in Requests : \A s \in found[r] :
                 s \in granted /\ s.id = req[r].sent

\* Nothing is left over from the request that used this slot before.
CleanStart == \A r \in Requests : pc[r] \in {"idle", "find"}
                 => found[r] = {} /\ who[r] = None

\* A dead cookie stays dead: nothing is found for it.
LateSound == \A r \in Requests : req[r].late =>
                /\ req[r].sent \in Ended
                /\ found[r] = {}
                /\ who[r] = None

\* A "set" header names a row that is committed, or is still to be written.
ReplySound == \A r \in Requests : reply[r] = "set"
                 => \/ pc[r] \in {"expiry", "delete", "insert", "commit"}
                    \/ login[r].new \in Ids(granted)

IInv == /\ TypeInv /\ OneRowPerId /\ TableSound /\ IdsFresh /\ LoginPending
        /\ DraftSound /\ CleanStart /\ FoundSound /\ LateSound /\ ReplySound
        /\ Attributed /\ CookieBacked
-----------------------------------------------------------------------------
\* Dropping the fraction of a second leaves a time.
LEMMA ToSecondNat == ASSUME NEW t \in Nat PROVE ToSecond(t) \in Nat
  BY SessionsAssumption DEF ToSecond

\* The data of an idle request is typed.
LEMMA EmptyTypes == NoRequest \in Sent /\ NoLogin \in Logins
  BY DEF NoRequest, NoLogin, Sent, Logins

\* The types hold initially,
LEMMA TypeInit == Init => TypeInv
  BY SessionsAssumption, EmptyTypes DEF Init, TypeInv, TypeOK, LoginKnown, Steps

\* and each step keeps them.
LEMMA TypeStep == TypeInv /\ [Next]_vars => TypeInv'
  <1> SUFFICES ASSUME TypeInv, [Next]_vars PROVE TypeInv'
    OBVIOUS
  <1> USE SessionsAssumption DEF TypeInv, TypeOK, LoginKnown, store, Goto, Steps
  <1>1. ASSUME NEW r \in Requests, Arrive(r) PROVE TypeInv'
    <2>1. SentCookie(BrowserOf[r]) \subseteq SessionIds
      BY DEF SentCookie, Cookies
    <2>2. PICK k \in {"page", "login", "logout"}, id \in SessionIds \cup {None} :
             req' = [req EXCEPT ![r] = [kind |-> k, sent |-> id, late |-> id \in Ended]]
      BY <1>1, <2>1 DEF Arrive
    <2>3. [kind |-> k, sent |-> id, late |-> id \in Ended] \in Sent
      BY DEF Sent
    <2>4. QED
      BY <1>1, <2>2, <2>3 DEF Arrive
  <1>2. ASSUME NEW r \in Requests, Reply(r) PROVE TypeInv'
    <2>1. NewCookie(r) \subseteq Cookies
      <3>1. CASE reply[r] = "set"
        <4>1. login[r] \in Logins /\ login[r].new \in SessionIds
          BY <3>1
        <4>2. [id |-> login[r].new, expires |-> login[r].until] \in Cookies
          BY <4>1 DEF Cookies, Logins
        <4>3. QED
          BY <3>1, <4>2 DEF NewCookie
      <3>2. CASE reply[r] # "set"
        BY <3>2 DEF NewCookie
      <3>3. QED
        BY <3>1, <3>2
    <2>2. jar' \in [Browsers -> SUBSET Cookies]
      BY <1>2, <2>1 DEF Reply
    <2>3. QED
      BY <1>2, <2>2, EmptyTypes DEF Reply, Forget
  <1>3. ASSUME NEW r \in Requests, FindSession(r) PROVE TypeInv'
    BY <1>3 DEF FindSession, ByID
  <1>4. ASSUME NEW r \in Requests, CheckExpiry(r) PROVE TypeInv'
    BY <1>4 DEF CheckExpiry, Rows
  <1>5. ASSUME NEW r \in Requests, Page(r) PROVE TypeInv'
    BY <1>5 DEF Page
  <1>6. ASSUME NEW r \in Requests, Logout(r) PROVE TypeInv'
    BY <1>6 DEF Logout, Remaining
  <1>7. ASSUME NEW r \in Requests, LogoutFail(r) PROVE TypeInv'
    BY <1>7 DEF LogoutFail
  <1>8. ASSUME NEW r \in Requests, Credentials(r) PROVE TypeInv'
    BY <1>8 DEF Credentials, Logins
  <1>9. ASSUME NEW r \in Requests, CreateCookie(r) PROVE TypeInv'
    <2>1. PICK id \in SessionIds \ used :
             /\ used' = used \cup {id}
             /\ login' = [login EXCEPT ![r].new = id,
                                      ![r].until = ToSecond(now + Duration)]
      BY <1>9 DEF CreateCookie, NewID, CookieExpires
    <2>2. ToSecond(now + Duration) \in Nat
      BY ToSecondNat
    <2>3. login' \in [Requests -> Logins] /\ login'[r].new = id
          /\ \A q \in Requests : /\ login'[q].account = login[q].account
                                /\ q # r => login'[q].new = login[q].new
      BY <2>1, <2>2 DEF Logins
    <2>4. QED
      BY <1>9, <2>1, <2>3 DEF CreateCookie
  <1>10. ASSUME NEW r \in Requests, CreateSession(r) PROVE TypeInv'
    <2>1. ToSecond(now + Duration) \in Nat
      BY ToSecondNat
    <2>2. login' \in [Requests -> Logins]
      BY <1>10, <2>1 DEF CreateSession, Logins
    <2>3. \A q \in Requests : login'[q].new = login[q].new
                              /\ login'[q].account = login[q].account
      BY <1>10 DEF CreateSession, Logins
    <2>4. QED
      BY <1>10, <2>2, <2>3 DEF CreateSession
  <1>11. ASSUME NEW r \in Requests, ReplaceDelete(r) PROVE TypeInv'
    BY <1>11 DEF ReplaceDelete
  <1>12. ASSUME NEW r \in Requests, ReplaceInsert(r) PROVE TypeInv'
    <2>1. NewRow(r) \in Rows
      BY <1>12 DEF ReplaceInsert, NewRow, Logins, Rows
    <2>2. QED
      BY <1>12, <2>1 DEF ReplaceInsert
  <1>13. ASSUME NEW r \in Requests, ReplaceCommit(r) PROVE TypeInv'
    BY <1>13 DEF ReplaceCommit
  <1>14. ASSUME NEW r \in Requests, ReplaceFail(r) PROVE TypeInv'
    BY <1>14 DEF ReplaceFail
  <1>15. CASE Crash
    BY <1>15, EmptyTypes DEF Crash
  <1>16. CASE Tick
    BY <1>16 DEF Tick, locals
  <1>17. CASE UNCHANGED vars
    BY <1>17 DEF vars, locals
  <1>18. QED
    BY <1>1, <1>2, <1>3, <1>4, <1>5, <1>6, <1>7, <1>8, <1>9, <1>10, <1>11,
       <1>12, <1>13, <1>14, <1>15, <1>16, <1>17 DEF Next, Serve

\* Every variable, and every request's locals, keep their types.
THEOREM TypeCorrect == Spec => []TypeOK
  <1>1. TypeInv => TypeOK
    BY DEF TypeInv
  <1>2. QED
    BY <1>1, TypeInit, TypeStep, PTL DEF Spec

\* Each step keeps the inductive invariant.
LEMMA SafeStep == IInv /\ TypeInv' /\ [Next]_vars => IInv'
  <1> SUFFICES ASSUME IInv, TypeInv', [Next]_vars PROVE IInv'
    OBVIOUS
  <1> USE SessionsAssumption DEF IInv, TypeInv, TypeOK, store, Goto, Steps
  <1>1. ASSUME NEW r \in Requests, Arrive(r) PROVE IInv'
    <2>1. FoundSound'
      BY <1>1 DEF Arrive, FoundSound, CleanStart
    <2>2. LateSound'
      <3>0. SentCookie(BrowserOf[r]) \subseteq SessionIds
        BY DEF SentCookie, Cookies
      <3>1. PICK k \in {"page", "login", "logout"}, id \in SessionIds \cup {None} :
               req' = [req EXCEPT ![r] = [kind |-> k, sent |-> id, late |-> id \in Ended]]
        BY <1>1, <3>0 DEF Arrive
      <3>2. req'[r].sent = id /\ req'[r].late = (id \in Ended)
            /\ \A q \in Requests : q # r => req'[q] = req[q]
        BY <3>1
      <3>3. QED
        BY <1>1, <3>2 DEF Arrive, LateSound, Ended, CleanStart
    <2>3. Attributed'
      BY <1>1 DEF Arrive, Attributed, CleanStart
    <2>4. (OneRowPerId /\ TableSound /\ IdsFresh /\ LoginPending /\ DraftSound
           /\ CleanStart /\ ReplySound /\ CookieBacked)'
      BY <1>1 DEF Arrive, OneRowPerId, TableSound, IdsFresh, Ids, LoginPending,
         DraftSound, Others, NewRow, CleanStart, ReplySound, CookieBacked
    <2>5. QED
      BY <2>1, <2>2, <2>3, <2>4
  <1>2. ASSUME NEW r \in Requests, Reply(r) PROVE IInv'
    <2>1. IdsFresh'
      BY <1>2 DEF Reply, Forget, NoRequest, NoLogin, IdsFresh, Ids
    <2>2. CookieBacked'
      <3>1. NewCookie(r) = {} \/ NewCookie(r) = jar[BrowserOf[r]]
            \/ (reply[r] = "set" /\ \A c \in NewCookie(r) : c.id = login[r].new)
        BY DEF NewCookie
      <3>2. \A c \in NewCookie(r) : c.id \in Ids(granted)
        BY <1>2, <3>1 DEF Reply, ReplySound, CookieBacked
      <3>3. QED
        BY <1>2, <3>2 DEF Reply, CookieBacked
    <2>3. (OneRowPerId /\ TableSound /\ LoginPending /\ DraftSound /\ CleanStart
           /\ FoundSound /\ LateSound /\ ReplySound /\ Attributed)'
      BY <1>2 DEF Reply, Forget, NoRequest, NoLogin, OneRowPerId, TableSound,
         LoginPending, Ids, DraftSound, Others, NewRow, CleanStart, FoundSound,
         LateSound, Ended, ReplySound, Attributed
    <2>4. QED
      BY <2>1, <2>2, <2>3
  <1>3. ASSUME NEW r \in Requests, FindSession(r) PROVE IInv'
    <2>1. FoundSound'
      BY <1>3 DEF FindSession, ByID, FoundSound, TableSound
    <2>2. LateSound'
      BY <1>3 DEF FindSession, ByID, LateSound, Ended, Ids, FoundSound
    <2>3. (OneRowPerId /\ TableSound /\ IdsFresh /\ LoginPending /\ DraftSound
           /\ CleanStart /\ ReplySound /\ Attributed /\ CookieBacked)'
      BY <1>3 DEF FindSession, OneRowPerId, TableSound, IdsFresh, Ids,
         LoginPending, DraftSound, Others, NewRow, CleanStart, ReplySound,
         Attributed, CookieBacked
    <2>4. QED
      BY <2>1, <2>2, <2>3
  <1>4. ASSUME NEW r \in Requests, CheckExpiry(r) PROVE IInv'
    <2>1. LateSound'
      BY <1>4 DEF CheckExpiry, LateSound, Ended, Ids
    <2>2. Attributed'
      BY <1>4 DEF CheckExpiry, Attributed, FoundSound
    <2>3. (OneRowPerId /\ TableSound /\ IdsFresh /\ LoginPending /\ DraftSound
           /\ CleanStart /\ FoundSound /\ ReplySound /\ CookieBacked)'
      BY <1>4 DEF CheckExpiry, OneRowPerId, TableSound, IdsFresh, Ids,
         LoginPending, DraftSound, Others, NewRow, CleanStart, FoundSound,
         ReplySound, CookieBacked
    <2>4. QED
      BY <2>1, <2>2, <2>3
  <1>5. ASSUME NEW r \in Requests, Page(r) PROVE IInv'
    BY <1>5 DEF Page, OneRowPerId, TableSound, IdsFresh, Ids, LoginPending,
       DraftSound, Others, NewRow, CleanStart, FoundSound, LateSound, Ended,
       ReplySound, Attributed, CookieBacked
  <1>6. ASSUME NEW r \in Requests, Logout(r) PROVE IInv'
    <2>1. TableSound'
      BY <1>6 DEF Logout, TableSound, Remaining
    <2>2. DraftSound'
      <3>1. CASE req[r].sent = None
        <4>1. sessions' = sessions
          BY <1>6, <3>1 DEF Logout, Remaining, Rows
        <4>2. QED
          BY <1>6, <4>1 DEF Logout, DraftSound, Others, NewRow
      <3>2. CASE req[r].sent # None
        <4>1. \A q \in Requests : pc[q] \notin {"insert", "commit"}
          BY <1>6, <3>2 DEF Logout, DraftSound
        <4>2. QED
          BY <1>6, <4>1 DEF Logout, DraftSound
      <3>3. QED
        BY <3>1, <3>2
    <2>3. LateSound'
      BY <1>6 DEF Logout, LateSound, Ended, Ids, Remaining
    <2>4. (OneRowPerId /\ IdsFresh /\ LoginPending /\ CleanStart /\ FoundSound
           /\ ReplySound /\ Attributed /\ CookieBacked)'
      BY <1>6 DEF Logout, OneRowPerId, IdsFresh, Ids, LoginPending, CleanStart,
         FoundSound, ReplySound, Attributed, CookieBacked
    <2>5. QED
      BY <2>1, <2>2, <2>3, <2>4
  <1>7. ASSUME NEW r \in Requests, LogoutFail(r) PROVE IInv'
    BY <1>7 DEF LogoutFail, OneRowPerId, TableSound, IdsFresh, Ids, LoginPending,
       DraftSound, Others, NewRow, CleanStart, FoundSound, LateSound, Ended,
       ReplySound, Attributed, CookieBacked
  <1>8. ASSUME NEW r \in Requests, Credentials(r) PROVE IInv'
    <2>0. \A q \in Requests : login'[q].new = login[q].new
      BY <1>8 DEF Credentials, Logins
    <2>1. IdsFresh'
      BY <1>8, <2>0 DEF Credentials, IdsFresh, Ids
    <2>2. LoginPending'
      BY <1>8 DEF Credentials, LoginPending, Ids
    <2>3. DraftSound'
      BY <1>8 DEF Credentials, DraftSound, Others, NewRow
    <2>4. ReplySound'
      BY <1>8, <2>0 DEF Credentials, ReplySound, Ids
    <2>5. (OneRowPerId /\ TableSound /\ CleanStart /\ FoundSound /\ LateSound
           /\ Attributed /\ CookieBacked)'
      BY <1>8 DEF Credentials, OneRowPerId, TableSound, CleanStart, FoundSound,
         LateSound, Ended, Ids, Attributed, CookieBacked
    <2>6. QED
      BY <2>1, <2>2, <2>3, <2>4, <2>5
  <1>9. ASSUME NEW r \in Requests, CreateCookie(r) PROVE IInv'
    <2>1. IdsFresh'
      BY <1>9 DEF CreateCookie, NewID, CookieExpires, IdsFresh, Ids
    <2>2. LoginPending'
      BY <1>9 DEF CreateCookie, NewID, CookieExpires, LoginPending, Ids, IdsFresh
    <2>3. DraftSound'
      BY <1>9 DEF CreateCookie, DraftSound, Others, NewRow
    <2>4. (OneRowPerId /\ TableSound /\ CleanStart /\ FoundSound /\ LateSound
           /\ ReplySound /\ Attributed /\ CookieBacked)'
      BY <1>9 DEF CreateCookie, OneRowPerId, TableSound, CleanStart, FoundSound,
         LateSound, Ended, Ids, ReplySound, Attributed, CookieBacked
    <2>5. QED
      BY <2>1, <2>2, <2>3, <2>4
  <1>10. ASSUME NEW r \in Requests, CreateSession(r) PROVE IInv'
    <2>1. DraftSound'
      BY <1>10 DEF CreateSession, DraftSound, Others, NewRow
    <2>2. (OneRowPerId /\ TableSound /\ IdsFresh /\ LoginPending /\ CleanStart
           /\ FoundSound /\ LateSound /\ ReplySound /\ Attributed /\ CookieBacked)'
      BY <1>10 DEF CreateSession, OneRowPerId, TableSound, IdsFresh, Ids,
         LoginPending, CleanStart, FoundSound, LateSound, Ended, ReplySound,
         Attributed, CookieBacked
    <2>3. QED
      BY <2>1, <2>2
  <1>11. ASSUME NEW r \in Requests, ReplaceDelete(r) PROVE IInv'
    <2>1. DraftSound'
      BY <1>11 DEF ReplaceDelete, DraftSound, Others, NewRow
    <2>2. (OneRowPerId /\ TableSound /\ IdsFresh /\ LoginPending /\ CleanStart
           /\ FoundSound /\ LateSound /\ ReplySound /\ Attributed /\ CookieBacked)'
      BY <1>11 DEF ReplaceDelete, OneRowPerId, TableSound, IdsFresh, Ids,
         LoginPending, CleanStart, FoundSound, LateSound, Ended, ReplySound,
         Attributed, CookieBacked
    <2>3. QED
      BY <2>1, <2>2
  <1>12. ASSUME NEW r \in Requests, ReplaceInsert(r) PROVE IInv'
    <2>1. DraftSound'
      BY <1>12 DEF ReplaceInsert, DraftSound, Others, NewRow
    <2>2. (OneRowPerId /\ TableSound /\ IdsFresh /\ LoginPending /\ CleanStart
           /\ FoundSound /\ LateSound /\ ReplySound /\ Attributed /\ CookieBacked)'
      BY <1>12 DEF ReplaceInsert, OneRowPerId, TableSound, IdsFresh, Ids,
         LoginPending, CleanStart, FoundSound, LateSound, Ended, ReplySound,
         Attributed, CookieBacked
    <2>3. QED
      BY <2>1, <2>2
  <1>13. ASSUME NEW r \in Requests, ReplaceCommit(r) PROVE IInv'
    <2>0. /\ sessions' = Others(r) \cup {NewRow(r)}
          /\ granted' = granted \cup {NewRow(r)}
          /\ NewRow(r).id = login[r].new /\ NewRow(r).user = login[r].account
          /\ login[r].new \notin Ids(granted)
          /\ login[r].new \in used
          /\ \A s \in Others(r) : s \in sessions /\ s.user # login[r].account
          /\ UNCHANGED <<jar, used, req, found, who, login, reply>>
          /\ Goto(r, "reply")
      <3>1. draft = Others(r) \cup {NewRow(r)}
        BY <1>13 DEF ReplaceCommit, DraftSound
      <3>2. login[r].new \in used /\ login[r].new \notin Ids(granted)
        BY <1>13 DEF ReplaceCommit, LoginPending, IdsFresh, LoginKnown
      <3>3. Others(r) \subseteq granted
        BY DEF Others, TableSound
      <3>4. QED
        BY <1>13, <3>1, <3>2, <3>3 DEF ReplaceCommit, Others, NewRow
    <2>1. OneRowPerId'
      BY <2>0 DEF OneRowPerId, Ids
    <2>2. TableSound'
      BY <2>0 DEF TableSound
    <2>3. IdsFresh'
      BY <2>0 DEF IdsFresh, Ids
    <2>4. LoginPending'
      <3>1. \A q \in Requests : pc'[q] \in {"expiry", "delete", "insert", "commit"}
               => q # r /\ login[q].new # login[r].new /\ login[q].new \notin Ids(granted)
        BY <2>0 DEF LoginPending, IdsFresh, LoginKnown
      <3>2. QED
        BY <2>0, <3>1 DEF LoginPending, Ids
    <2>5. DraftSound'
      BY <1>13, <2>0 DEF ReplaceCommit, DraftSound, Others, NewRow
    <2>6. FoundSound'
      BY <1>13, <2>0 DEF ReplaceCommit, FoundSound
    <2>7. LateSound'
      <3>1. \A id \in Ended : id \in Ended'
        BY <2>0 DEF Ended, Ids
      <3>2. QED
        BY <2>0, <3>1 DEF LateSound
    <2>8. ReplySound'
      BY <2>0 DEF ReplySound, Ids
    <2>9. Attributed'
      BY <1>13, <2>0 DEF ReplaceCommit, Attributed
    <2>10. CookieBacked'
      BY <1>13, <2>0 DEF ReplaceCommit, CookieBacked, Ids
    <2>11. (CleanStart)'
      BY <1>13 DEF ReplaceCommit, CleanStart
    <2>12. QED
      BY <2>1, <2>2, <2>3, <2>4, <2>5, <2>6, <2>7, <2>8, <2>9, <2>10, <2>11
  <1>14. ASSUME NEW r \in Requests, ReplaceFail(r) PROVE IInv'
    <2>1. DraftSound'
      BY <1>14 DEF ReplaceFail, DraftSound, Others, NewRow
    <2>2. (OneRowPerId /\ TableSound /\ IdsFresh /\ LoginPending /\ CleanStart
           /\ FoundSound /\ LateSound /\ ReplySound /\ Attributed /\ CookieBacked)'
      BY <1>14 DEF ReplaceFail, OneRowPerId, TableSound, IdsFresh, Ids,
         LoginPending, CleanStart, FoundSound, LateSound, Ended, ReplySound,
         Attributed, CookieBacked
    <2>3. QED
      BY <2>1, <2>2
  <1>15. CASE Crash
    BY <1>15 DEF Crash, NoRequest, NoLogin, OneRowPerId, TableSound, IdsFresh, Ids,
       LoginPending, DraftSound, Others, NewRow, CleanStart, FoundSound, LateSound,
       Ended, ReplySound, Attributed, CookieBacked
  <1>16. CASE Tick
    BY <1>16 DEF Tick, locals, OneRowPerId, TableSound, IdsFresh, Ids, LoginPending,
       DraftSound, Others, NewRow, CleanStart, FoundSound, LateSound, Ended,
       ReplySound, Attributed, CookieBacked
  <1>17. CASE UNCHANGED vars
    BY <1>17 DEF vars, locals, OneRowPerId, TableSound, IdsFresh, Ids, LoginPending,
       DraftSound, Others, NewRow, CleanStart, FoundSound, LateSound, Ended,
       ReplySound, Attributed, CookieBacked
  <1>18. QED
    BY <1>1, <1>2, <1>3, <1>4, <1>5, <1>6, <1>7, <1>8, <1>9, <1>10, <1>11, <1>12,
       <1>13, <1>14, <1>15, <1>16, <1>17 DEF Next, Serve

\* The inductive invariant holds of an empty table.
LEMMA SafeInit == Init => IInv
  BY TypeInit DEF Init, IInv, OneRowPerId, TableSound, IdsFresh, Ids, LoginPending,
     DraftSound, CleanStart, FoundSound, LateSound, ReplySound, Attributed,
     CookieBacked, NoRequest, NoLogin

\* The inductive invariant holds in every reachable state.
THEOREM Inductive == Spec => []IInv
  <1>1. IInv => TypeInv
    BY DEF IInv
  <1>2. IInv /\ [Next]_vars => IInv'
    BY <1>1, TypeStep, SafeStep
  <1>3. QED
    BY SafeInit, <1>2, PTL DEF Spec

\* A request that arrives with the cookie of an ended session stays a guest's,
\* whatever logins, logouts and crashes happen while it runs.
THEOREM StaleCookieIsGuest == Spec => []StaleStaysGuest
  <1>1. IInv => StaleStaysGuest
    BY DEF IInv, LateSound, StaleStaysGuest
  <1>2. QED
    BY <1>1, Inductive, PTL

\* A request acts only for the user whose login created the cookie it carries.
THEOREM RequestsAttributed == Spec => []Attributed
  <1>1. IInv => Attributed
    BY DEF IInv
  <1>2. QED
    BY <1>1, Inductive, PTL

\* A browser holds only cookies of sessions that were committed.
THEOREM CookiesBacked == Spec => []CookieBacked
  <1>1. IInv => CookieBacked
    BY DEF IInv
  <1>2. QED
    BY <1>1, Inductive, PTL
-----------------------------------------------------------------------------
(* What one step may do to the table *)

\* The steps that leave the committed rows alone.
LEMMA StoreKept ==
    ASSUME [Next]_vars,
           \A r \in Requests : ~Logout(r) /\ ~ReplaceCommit(r)
    PROVE  UNCHANGED <<sessions, granted>>
  BY DEF Next, Serve, Arrive, Reply, FindSession, CheckExpiry, Page, LogoutFail,
     Credentials, CreateCookie, CreateSession, ReplaceDelete, ReplaceInsert,
     ReplaceFail, Crash, Tick, vars, store

\* A commit puts one new row in the place of its user's old one.
LEMMA CommitReplaces ==
    ASSUME IInv, NEW r \in Requests, ReplaceCommit(r)
    PROVE  /\ sessions' = Others(r) \cup {NewRow(r)}
           /\ granted' = granted \cup {NewRow(r)}
           /\ NewRow(r).id = login[r].new
           /\ NewRow(r).user = login[r].account
           /\ login[r].account \in Users
           /\ login[r].new \in SessionIds \ Ids(granted)
  <1>1. draft = Others(r) \cup {NewRow(r)}
    BY DEF ReplaceCommit, DraftSound, IInv
  <1>2. login[r].account \in Users /\ login[r].new \in SessionIds \ Ids(granted)
    BY DEF ReplaceCommit, LoginPending, LoginKnown, IInv, TypeInv
  <1>3. Others(r) \subseteq granted
    BY DEF Others, TableSound, IInv
  <1>4. QED
    BY <1>1, <1>2, <1>3 DEF ReplaceCommit, NewRow

\* A session ends only by its own logout or by its user's next login.
THEOREM OnlyOwnLogoutEnds == Spec => EndsOnlyOwn
  <1> DEFINE Own(s) ==
          \/ \E t \in sessions' : t.user = s.user /\ t.id \notin Ids(sessions)
          \/ \E r \in Requests : req[r].kind = "logout" /\ req[r].sent = s.id
                                 /\ pc[r] = "handle" /\ pc'[r] = "reply"
  <1>1. ASSUME IInv, [Next]_vars, NEW s \in sessions \ sessions' PROVE Own(s)
    <2>1. CASE \E r \in Requests : Logout(r)
      <3>1. PICK r \in Requests : Logout(r)
        BY <2>1
      <3>2. s.id = req[r].sent
        BY <1>1, <3>1 DEF Logout, Remaining
      <3>3. pc'[r] = "reply"
        BY <1>1, <3>1 DEF Logout, Goto, IInv, TypeInv, TypeOK
      <3>4. QED
        BY <3>1, <3>2, <3>3 DEF Logout
    <2>2. CASE \E r \in Requests : ReplaceCommit(r)
      <3>1. PICK r \in Requests : ReplaceCommit(r)
        BY <2>2
      <3>2. s.user = login[r].account
        BY <1>1, <3>1, CommitReplaces DEF Others
      <3>3. NewRow(r).id \notin Ids(sessions)
        BY <1>1, <3>1, CommitReplaces DEF IInv, TableSound, Ids
      <3>4. QED
        BY <1>1, <3>1, <3>2, <3>3, CommitReplaces
    <2>3. QED
      BY <1>1, <2>1, <2>2, StoreKept
  <1>2. IInv /\ [Next]_vars =>
          [\A s \in sessions \ sessions' : Own(s)]_vars
    BY <1>1
  <1>3. QED
    BY <1>2, Inductive, PTL DEF Spec, EndsOnlyOwn

\* A user has one session at most, also after two logins that overlap; and a session that
\* was replaced or logged out never comes back: not with a commit that began before it
\* ended, not with a rollback, not with a restart.
THEOREM EndedForGood ==
    Spec => []TableSound /\ [][Ended \subseteq Ended']_vars
  <1>1. ASSUME IInv, [Next]_vars PROVE Ended \subseteq Ended'
    <2>1. CASE \E r \in Requests : Logout(r)
      BY <2>1 DEF Logout, Remaining, Ids, Ended
    <2>2. CASE \E r \in Requests : ReplaceCommit(r)
      <3>1. PICK r \in Requests : ReplaceCommit(r)
        BY <2>2
      <3>2. PICK n : n = NewRow(r)
        OBVIOUS
      <3>3. /\ \A s \in sessions' : s = n \/ s \in sessions
            /\ granted' = granted \cup {n}
            /\ n.id \notin Ids(granted)
        BY <1>1, <3>1, <3>2, CommitReplaces DEF Others
      <3>4. QED
        BY <3>3 DEF Ids, Ended
    <2>3. CASE UNCHANGED <<sessions, granted>>
      BY <2>3 DEF Ids, Ended
    <2>4. QED
      BY <1>1, <2>1, <2>2, <2>3, StoreKept
  <1>2. IInv /\ [Next]_vars => [Ended \subseteq Ended']_vars
    BY <1>1
  <1>3. IInv => TableSound
    BY DEF IInv
  <1>4. QED
    BY <1>2, <1>3, Inductive, PTL DEF Spec
-----------------------------------------------------------------------------
(* The table implements the promise *)

Active == [u \in Users |-> {s.id : s \in {t \in sessions : t.user = u}}]

\* A logout is the promise's Logout of the row's user, or changes nothing.
LEMMA LogoutMaps ==
    ASSUME IInv, NEW r \in Requests, Logout(r)
    PROVE  Promise!Next \/ UNCHANGED Promise!vars
  <1>1. UNCHANGED granted
    BY DEF Logout
  <1>2. CASE \E s \in sessions : s.id = req[r].sent
    <2>1. PICK s \in sessions : s.id = req[r].sent
      BY <1>2
    <2>2. s.user \in Users
      BY DEF IInv, TypeInv, TypeOK, Rows
    <2>3. \A t \in sessions : t.user = s.user \/ t.id = s.id => t = s
      BY DEF IInv, TableSound, OneRowPerId
    <2>4. sessions' = sessions \ {s}
      BY <2>1, <2>3 DEF Logout, Remaining
    <2>5. Active[s.user] = {s.id}
      BY <2>2, <2>3 DEF Active
    <2>6. Active' = [Active EXCEPT ![s.user] = {}]
      BY <2>2, <2>3, <2>4 DEF Active
    <2>7. UNCHANGED Ids(granted)
      BY <1>1 DEF Ids
    <2>8. Promise!Logout(s.user)
      BY <2>2, <2>5, <2>6, <2>7 DEF Promise!Logout, Active
    <2>9. QED
      BY <2>2, <2>8 DEF Promise!Next
  <1>3. CASE ~ \E s \in sessions : s.id = req[r].sent
    <2>1. sessions' = sessions
      BY <1>3 DEF Logout, Remaining
    <2>2. QED
      BY <1>1, <2>1 DEF Promise!vars, Ids
  <1>4. QED
    BY <1>2, <1>3

\* A commit is the promise's Login of the user whose row is new.
LEMMA CommitMaps ==
    ASSUME IInv, NEW r \in Requests, ReplaceCommit(r)
    PROVE  Promise!Next
  <1>1. PICK u \in Users, id \in SessionIds \ Ids(granted) :
           u = login[r].account /\ id = login[r].new
    BY CommitReplaces
  <1>2. \A t : t \in sessions' <=> (t \in sessions /\ t.user # u) \/ t = NewRow(r)
    BY <1>1, CommitReplaces DEF Others
  <1>3. NewRow(r).id = id /\ NewRow(r).user = u
    BY <1>1, CommitReplaces
  <1>4. Active' = [Active EXCEPT ![u] = {id}]
    BY <1>1, <1>2, <1>3 DEF Active
  <1>5. Ids(granted') = Ids(granted) \cup {id}
    BY <1>3, CommitReplaces DEF Ids
  <1>6. Promise!Login(u)
    BY <1>1, <1>4, <1>5 DEF Promise!Login, Active, Ids
  <1>7. QED
    BY <1>1, <1>6 DEF Promise!Next

\* Whatever requests, failures and crashes do, the committed rows change only as
\* the abstract service allows: one session per user, replaced in one step, ended
\* by its own logout, and no identifier active twice.
THEOREM ServiceImplemented == Spec => ImplementsService
  <1>1. Init => Promise!Init
    BY DEF Init, Promise!Init, Ids
  <1>2. IInv /\ [Next]_vars => [Promise!Next]_Promise!vars
    <2> SUFFICES ASSUME IInv, [Next]_vars PROVE Promise!Next \/ UNCHANGED Promise!vars
      OBVIOUS
    <2>1. CASE \A r \in Requests : ~Logout(r) /\ ~ReplaceCommit(r)
      <3>1. UNCHANGED <<sessions, granted>>
        BY <2>1, StoreKept
      <3>2. QED
        BY <3>1 DEF Promise!vars, Ids
    <2>2. QED
      BY <2>1, LogoutMaps, CommitMaps
  <1>3. QED
    BY <1>1, <1>2, Inductive, PTL DEF Spec, ImplementsService, Promise!Spec
-----------------------------------------------------------------------------
(* The two expiries of a login *)

\* Multiplication keeps the order of times.
LEMMA Times ==
  ASSUME NEW p \in Nat, NEW q \in Nat, NEW n \in Nat, p <= q
  PROVE  p * n <= q * n
  OBVIOUS

\* Whole seconds of a time.
LEMMA WholeSeconds ==
  ASSUME NEW t \in Nat, NEW n \in Nat \ {0}
  PROVE  t \div n \in Nat /\ (t \div n) * n <= t /\ t < (t \div n + 1) * n
  OBVIOUS

\* A later time is not written as an earlier one.
LEMMA ToSecondMonotone ==
  ASSUME NEW s \in Nat, NEW t \in Nat, s <= t
  PROVE  ToSecond(s) <= ToSecond(t)
  <1> DEFINE p == s \div Second
  <1> DEFINE q == t \div Second
  <1>0. Second \in Nat \ {0}
    BY SessionsAssumption
  <1>1. p \in Nat /\ q \in Nat /\ p * Second <= s /\ t < (q + 1) * Second
    BY <1>0, WholeSeconds
  <1>2. p * Second <= q * Second
    <2> HIDE DEF p, q
    <2>1. CASE p <= q
      BY <1>0, <1>1, <2>1, Times
    <2>2. CASE ~(p <= q)
      <3>1. q + 1 <= p /\ q + 1 \in Nat
        BY <1>1, <2>2
      <3>2. (q + 1) * Second <= p * Second
        BY <1>0, <1>1, <3>1, Times
      <3>3. (q + 1) * Second \in Nat /\ p * Second \in Nat
        BY <1>0, <1>1
      <3>4. QED
        BY <1>1, <3>2, <3>3
    <2>3. QED
      BY <2>1, <2>2
  <1>3. QED
    BY <1>2 DEF ToSecond

\* A login in progress: its cookie was dated before its row, and the row it has
\* committed, if it is still to answer, is dated no earlier than the cookie.
Dated == \A r \in Requests :
    /\ pc[r] \in {"idle", "find", "check", "handle", "create"} => reply[r] = "none"
    /\ pc[r] = "expiry" => login[r].until <= ToSecond(now + Duration)
    /\ pc[r] \in {"delete", "insert", "commit"} => login[r].until <= login[r].expires
    /\ pc[r] = "reply" /\ reply[r] = "set" =>
          \A s \in granted : s.id = login[r].new => login[r].until <= s.expires

\* Every step keeps the order of the expiries of drafts, rows and cookies.
LEMMA DatedStep ==
  ASSUME IInv, IInv', Dated, CookieNeverOutlivesRow, [Next]_vars
  PROVE  Dated' /\ CookieNeverOutlivesRow'
  <1> USE SessionsAssumption DEF TypeInv, TypeOK, store, Goto, Steps
  <1>0. TypeOK /\ TypeInv
    BY DEF IInv
  <1>1. ASSUME NEW r \in Requests, Arrive(r) PROVE Dated' /\ CookieNeverOutlivesRow'
    BY <1>0, <1>1 DEF Arrive, Dated, CookieNeverOutlivesRow
  <1>2. ASSUME NEW r \in Requests, Reply(r) PROVE Dated' /\ CookieNeverOutlivesRow'
    <2>1. Dated'
      BY <1>0, <1>2 DEF Reply, Forget, Dated
    <2>2. ASSUME NEW b \in Browsers, NEW c \in jar'[b], NEW s \in granted, c.id = s.id
          PROVE  c.expires <= s.expires
      <3>1. CASE c \in jar[b]
        BY <2>2, <3>1 DEF CookieNeverOutlivesRow
      <3>2. CASE c \notin jar[b]
        <4>1. reply[r] = "set" /\ c = [id |-> login[r].new, expires |-> login[r].until]
          BY <1>0, <1>2, <2>2, <3>2 DEF Reply, NewCookie
        <4>2. QED
          BY <1>2, <2>2, <4>1 DEF Reply, Dated
      <3>3. QED
        BY <3>1, <3>2
    <2>3. QED
      BY <1>2, <2>1, <2>2 DEF Reply, CookieNeverOutlivesRow
  <1>3. ASSUME NEW r \in Requests, FindSession(r) \/ CheckExpiry(r) \/ Page(r) \/ LogoutFail(r)
        PROVE  Dated' /\ CookieNeverOutlivesRow'
    <2>1. /\ UNCHANGED <<now, jar, granted, login, reply>>
          /\ pc[r] \in {"find", "check", "handle"} /\ pc'[r] \in {"check", "handle", "reply"}
          /\ \A q \in Requests \ {r} : pc'[q] = pc[q]
      BY <1>0, <1>3 DEF FindSession, CheckExpiry, Page, LogoutFail
    <2>2. reply[r] = "none"
      BY <2>1 DEF Dated
    <2>3. QED
      BY <2>1, <2>2 DEF Dated, CookieNeverOutlivesRow
  <1>4. ASSUME NEW r \in Requests, Logout(r) PROVE Dated' /\ CookieNeverOutlivesRow'
    BY <1>0, <1>4 DEF Logout, Dated, CookieNeverOutlivesRow
  <1>5. ASSUME NEW r \in Requests, Credentials(r) PROVE Dated' /\ CookieNeverOutlivesRow'
    <2>1. /\ UNCHANGED <<now, jar, granted, reply>>
          /\ pc[r] = "handle" /\ pc'[r] \in {"create", "reply"}
          /\ \A q \in Requests \ {r} : pc'[q] = pc[q] /\ login'[q] = login[q]
      BY <1>0, <1>5 DEF Credentials
    <2>2. reply[r] = "none"
      BY <2>1 DEF Dated
    <2>3. QED
      BY <2>1, <2>2 DEF Dated, CookieNeverOutlivesRow
  <1>6. ASSUME NEW r \in Requests, CreateCookie(r) PROVE Dated' /\ CookieNeverOutlivesRow'
    <2>1. /\ UNCHANGED <<now, jar, granted>>
          /\ pc'[r] = "expiry" /\ login'[r].until = ToSecond(now + Duration)
          /\ \A q \in Requests \ {r} :
                pc'[q] = pc[q] /\ login'[q] = login[q] /\ reply'[q] = reply[q]
      BY <1>0, <1>6 DEF CreateCookie, CookieExpires, Logins
    <2>2. ToSecond(now + Duration) \in Nat
      BY <1>0, ToSecondNat
    <2>3. QED
      BY <2>1, <2>2 DEF Dated, CookieNeverOutlivesRow
  <1>7. ASSUME NEW r \in Requests, CreateSession(r) PROVE Dated' /\ CookieNeverOutlivesRow'
    <2>1. /\ UNCHANGED <<now, jar, granted, reply>>
          /\ pc[r] = "expiry" /\ pc'[r] = "delete"
          /\ login'[r].until = login[r].until /\ login'[r].expires = ToSecond(now + Duration)
          /\ \A q \in Requests \ {r} : pc'[q] = pc[q] /\ login'[q] = login[q]
      BY <1>0, <1>7 DEF CreateSession, Logins
    <2>2. QED
      BY <2>1 DEF Dated, CookieNeverOutlivesRow
  <1>8. ASSUME NEW r \in Requests, ReplaceDelete(r) \/ ReplaceInsert(r)
        PROVE  Dated' /\ CookieNeverOutlivesRow'
    <2>1. /\ UNCHANGED <<now, jar, granted, login, reply>>
          /\ pc[r] \in {"delete", "insert"} /\ pc'[r] \in {"insert", "commit"}
          /\ \A q \in Requests \ {r} : pc'[q] = pc[q]
      BY <1>0, <1>8 DEF ReplaceDelete, ReplaceInsert
    <2>2. QED
      BY <2>1 DEF Dated, CookieNeverOutlivesRow
  <1>9. ASSUME NEW r \in Requests, ReplaceCommit(r) PROVE Dated' /\ CookieNeverOutlivesRow'
    <2>1. /\ granted' = granted \cup {NewRow(r)}
          /\ NewRow(r).id = login[r].new /\ login[r].new \notin Ids(granted)
          /\ login[r].new # None
      BY <1>9, CommitReplaces
    <2>2. /\ UNCHANGED <<now, jar, login, reply>>
          /\ pc[r] = "commit" /\ pc'[r] = "reply"
          /\ \A q \in Requests \ {r} : pc'[q] = pc[q]
      BY <1>0, <1>9 DEF ReplaceCommit
    <2>3. NewRow(r).expires = login[r].expires /\ login[r].until <= login[r].expires
      BY <2>2 DEF NewRow, Dated
    <2>4. \A q \in Requests \ {r} : login[q].new # login[r].new
      BY <2>1 DEF IInv, IdsFresh
    <2>5. \A s \in granted : s.id # login[r].new
      BY <2>1 DEF Ids
    <2>6. Dated'
      BY <2>1, <2>2, <2>3, <2>4, <2>5 DEF Dated
    <2>7. \A b \in Browsers : \A c \in jar[b] : c.id # login[r].new
      BY <2>1 DEF IInv, CookieBacked
    <2>8. QED
      BY <2>1, <2>2, <2>6, <2>7 DEF CookieNeverOutlivesRow
  <1>10. ASSUME NEW r \in Requests, ReplaceFail(r) PROVE Dated' /\ CookieNeverOutlivesRow'
    BY <1>0, <1>10 DEF ReplaceFail, Dated, CookieNeverOutlivesRow
  <1>11. CASE Crash
    BY <1>11 DEF Crash, Dated, CookieNeverOutlivesRow
  <1>12. CASE Tick
    <2>1. now + Duration <= (now + 1) + Duration /\ now + Duration \in Nat
          /\ (now + 1) + Duration \in Nat
      BY <1>0
    <2>2. ToSecond(now + Duration) <= ToSecond((now + 1) + Duration)
      BY <2>1, ToSecondMonotone
    <2>3. \A t \in Nat : ToSecond(t) \in Nat
      BY ToSecondNat
    <2>4. \A r \in Requests : login[r].until \in Nat
      BY <1>0 DEF Logins
    <2>5. ASSUME NEW r \in Requests, pc[r] = "expiry"
          PROVE  login[r].until <= ToSecond((now + 1) + Duration)
      BY <2>1, <2>2, <2>3, <2>4, <2>5 DEF Dated
    <2>6. QED
      BY <1>12, <2>5 DEF Tick, locals, Dated, CookieNeverOutlivesRow
  <1>13. CASE UNCHANGED vars
    BY <1>13 DEF vars, locals, Dated, CookieNeverOutlivesRow
  <1>14. QED
    BY <1>1, <1>2, <1>3, <1>4, <1>5, <1>6, <1>7, <1>8, <1>9, <1>10, <1>11, <1>12, <1>13
       DEF Next, Serve

\* A browser stops sending a cookie no later than the server stops honouring its
\* row, though the two expiries are read from the clock at two moments and cut to
\* whole seconds.
THEOREM CookieExpiresFirst == Spec => []CookieNeverOutlivesRow
  <1>1. Init => Dated /\ CookieNeverOutlivesRow
    BY DEF Init, Dated, CookieNeverOutlivesRow
  <1>2. IInv /\ IInv' /\ Dated /\ CookieNeverOutlivesRow /\ [Next]_vars
          => (Dated /\ CookieNeverOutlivesRow)'
    BY DatedStep
  <1>3. QED
    BY <1>1, <1>2, Inductive, PTL DEF Spec
=============================================================================
