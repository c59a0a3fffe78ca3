------------------------------- MODULE Identity -------------------------------
(***************************************************************************)
(* Accounts: POST /register, and what onSuccess does with the identity a     *)
(* provider has named, up to the user it signs in (OAuthLoginService with    *)
(* its two repositories). Both insert into users, whose emails and names are *)
(* unique; an identity's first login inserts into oauth_accounts too, in one *)
(* transaction. Rows of these tables are never changed or removed.           *)
(***************************************************************************)
EXTENDS Naturals

CONSTANTS Requests,
          Emails,       \* as they are spelled
          LowerEmails,  \* those that ToLower leaves alone
          Bases,        \* usernames before a number is added
          Full,         \* bases of 32 characters that end in "-2"
          Identities,   \* pairs of a provider and its user id
          MaxSuffix,    \* bound on the numbers in names people register
          None

ASSUME IdentityAssumption == /\ LowerEmails \subseteq Emails /\ Full \subseteq Bases
                             /\ MaxSuffix \in Nat \ {0}
                             /\ None \notin Requests
                             /\ Emails # {} /\ Bases # {} /\ Identities # {}

VARIABLES users, accounts,   \* the committed rows
          seq,               \* the last id of users (AUTOINCREMENT)
          writer,            \* the request that has the write lock
          logins,            \* history: identities and the users they signed in
          pc, req            \* request -> its place, its data

tables == <<users, accounts, seq>>
vars   == <<tables, writer, logins, pc, req>>

Names == Bases \X (Nat \ {0})
Users == [id : Nat, email : Emails, name : Names, local : BOOLEAN]
Pairs == Identities \X Nat
Data  == [email : Emails, base : Bases, attempt : Nat \ {0}, identity : Identities, user : Nat]

NoData == [email |-> CHOOSE e \in Emails : TRUE, base |-> CHOOSE b \in Bases : TRUE,
           attempt |-> 1, identity |-> CHOOSE i \in Identities : TRUE, user |-> 0]

TypeOK == /\ users \subseteq Users
          /\ accounts \subseteq Pairs
          /\ seq \in Nat
          /\ writer \in Requests \cup {None}
          /\ logins \subseteq Pairs
          /\ pc \in [Requests -> {"idle", "create", "find", "check", "insert", "link",
                                  "commit", "load"}]
          /\ req \in [Requests -> Data]
          /\ \A r \in Requests : writer = r <=> pc[r] \in {"link", "commit"}

Init == /\ users = {} /\ accounts = {} /\ seq = 0
        /\ writer = None
        /\ logins = {}
        /\ pc = [r \in Requests |-> "idle"]
        /\ req = [r \in Requests |-> NoData]

Goto(r, step) == pc' = [pc EXCEPT ![r] = step]

\* The answer is written; nothing of the request remains.
End(r) == /\ Goto(r, "idle")
          /\ req' = [req EXCEPT ![r] = NoData]

\* oauthUsernameCandidate: the number takes the place of the end of a long name.
Candidate(base, n) == IF base \in Full /\ n = 2 THEN <<base, 1>> ELSE <<base, n>>

Row(r, local) == [id |-> seq + 1, email |-> req[r].email,
                  name |-> Candidate(req[r].base, req[r].attempt), local |-> local]

EmailTaken(r) == \E u \in users : u.email = req[r].email
NameTaken(r)  == \E u \in users : u.name = Candidate(req[r].base, req[r].attempt)
-----------------------------------------------------------------------------
(* POST /register *)

\* Validated: the email in lower case, a name that may be a candidate of another.
Register(r) ==
    /\ pc[r] = "idle"
    /\ \E e \in LowerEmails, b \in Bases, n \in 1..MaxSuffix :
          req' = [req EXCEPT ![r] = [NoData EXCEPT !.email = e, !.base = b, !.attempt = n]]
    /\ Goto(r, "create")
    /\ UNCHANGED <<tables, writer, logins>>

\* One INSERT; ErrEmailExists and ErrUsernameExists from the unique keys.
Create(r) ==
    /\ pc[r] = "create"
    /\ writer = None
    /\ IF EmailTaken(r) \/ NameTaken(r)
       THEN UNCHANGED <<users, seq>>
       ELSE users' = users \cup {Row(r, TRUE)} /\ seq' = seq + 1
    /\ End(r)
    /\ UNCHANGED <<accounts, writer, logins>>
-----------------------------------------------------------------------------
(* OAuthSuccessHandler.Handle: OAuthLoginService.Login *)

\* The callback has the identity, with the verified email it has at this time.
Callback(r) ==
    /\ pc[r] = "idle"
    /\ \E i \in Identities, e \in Emails, b \in Bases :
          req' = [req EXCEPT ![r] = [NoData EXCEPT !.email = e, !.base = b, !.identity = i]]
    /\ Goto(r, "find")
    /\ UNCHANGED <<tables, writer, logins>>

\* FindByProviderUserID.
FindAccount(r) ==
    /\ pc[r] = "find"
    /\ \/ \E a \in accounts :
             /\ a[1] = req[r].identity
             /\ req' = [req EXCEPT ![r].user = a[2]]
             /\ Goto(r, "load")
       \/ /\ \A a \in accounts : a[1] # req[r].identity
          /\ Goto(r, "check")
          /\ UNCHANGED req
    /\ UNCHANGED <<tables, writer, logins>>

\* ByEmail: an existing account is never linked.
CheckEmail(r) ==
    /\ pc[r] = "check"
    /\ IF EmailTaken(r) THEN End(r) ELSE Goto(r, "insert") /\ UNCHANGED req
    /\ UNCHANGED <<tables, writer, logins>>

\* Fault: the loop does not count.
SameAttempt(n) == n

NextAttempt(n) == n + 1

\* INSERT ... ON CONFLICT DO NOTHING; the name is looked at first, then the email.
InsertUser(r) ==
    /\ pc[r] = "insert"
    /\ writer = None
    /\ \/ /\ NameTaken(r)
          /\ req' = [req EXCEPT ![r].attempt = NextAttempt(@)]
          /\ UNCHANGED <<writer, pc>>
       \/ /\ EmailTaken(r) /\ ~NameTaken(r)
          /\ End(r)
          /\ UNCHANGED writer
       \/ /\ ~EmailTaken(r) /\ ~NameTaken(r)
          /\ writer' = r
          /\ Goto(r, "link")
          /\ UNCHANGED req
    /\ UNCHANGED <<tables, logins>>

\* Fault: an identity that has an account is given another one.
IdentityIgnored(r) == TRUE

\* UNIQUE(provider, provider_user_id).
IdentityFree(r) == \A a \in accounts : a[1] # req[r].identity

\* Fault: the transaction is left open.
EndOnly(r) == End(r) /\ UNCHANGED writer

\* An error returns from the transaction: its deferred Rollback.
Abandon(r) == End(r) /\ writer' = IF writer = r THEN None ELSE writer

Link(r) ==
    /\ pc[r] = "link"
    /\ IF IdentityFree(r) THEN Goto(r, "commit") /\ UNCHANGED <<writer, req>>
                          ELSE Abandon(r)
    /\ UNCHANGED <<tables, logins>>

\* Fault: the user is committed without the sign-in.
UserOnly(r) == accounts

WithAccount(r) == accounts \cup {<<req[r].identity, seq + 1>>}

Commit(r) ==
    /\ pc[r] = "commit"
    /\ users' = users \cup {Row(r, FALSE)}
    /\ accounts' = WithAccount(r)
    /\ seq' = seq + 1
    /\ writer' = None
    /\ req' = [req EXCEPT ![r].user = seq + 1]
    /\ Goto(r, "load")
    /\ UNCHANGED logins

\* ByID; then the session is created for this user (module Sessions).
Load(r) ==
    /\ pc[r] = "load"
    /\ \E u \in users : u.id = req[r].user
    /\ logins' = logins \cup {<<req[r].identity, req[r].user>>}
    /\ End(r)
    /\ UNCHANGED <<tables, writer>>
-----------------------------------------------------------------------------
\* The busy timeout of a statement that waits for the write lock.
Timeout(r) == /\ pc[r] \in {"create", "insert"}
              /\ writer # None
              /\ End(r)
              /\ UNCHANGED <<tables, writer, logins>>

\* Hashing, a statement or the commit fails, or the process ends.
Fail(r) == /\ pc[r] # "idle"
           /\ Abandon(r)
           /\ UNCHANGED <<tables, logins>>

Step(r) == \/ Create(r) \/ Timeout(r)
           \/ FindAccount(r) \/ CheckEmail(r)
           \/ InsertUser(r) \/ Link(r) \/ Commit(r) \/ Load(r)

Next == \E r \in Requests : Register(r) \/ Callback(r) \/ Step(r) \/ Fail(r)

Spec == Init /\ [][Next]_vars

\* A handler runs until it has answered; a statement waits for its timeout at most.
FairSpec == Spec /\ \A r \in Requests : WF_vars(Step(r))
-----------------------------------------------------------------------------
(* Properties *)

\* A user has a password or a provider to sign in with, and never both: no crash or
\* race leaves an account nobody can enter, and no identity is linked to an account
\* that was there ("Do not automatically link an OAuth identity to an existing local
\* account", oauth_login.go).
OneWayIn == \A u \in users : u.local <=> \A a \in accounts : a[2] # u.id

\* Accounts are made whole and identities sign in to the account they made.
Promise == INSTANCE IdentityService WITH owner <- accounts
ImplementsService == Promise!Spec

\* No login goes on looking for a name for ever.
EveryRequestEnds == \A r \in Requests : pc[r] # "idle" ~> pc[r] = "idle"
=============================================================================
