---------------------------- MODULE IdentityProofs ----------------------------
(***************************************************************************)
(* Proofs about Identity, for any number of requests, emails, names and      *)
(* identities: types, each account has one way in, the tables implement       *)
(* IdentityService, and with it keys, owners and sign-ins are as they should *)
(* be.                                                                       *)
(***************************************************************************)
EXTENDS Identity, TLAPS

\* Ids are given in order, to users and to the accounts of their identities.
IdsGiven == /\ \A u \in users : u.id <= seq
            /\ \A a \in accounts : a[2] <= seq

\* What the writer has looked at stays free until it commits.
StillFree == \A r \in Requests :
                /\ pc[r] \in {"link", "commit"} => ~EmailTaken(r) /\ ~NameTaken(r)
                /\ pc[r] = "commit" => IdentityFree(r)

\* A request that loads a user has an account of its identity.
Entitled == \A r \in Requests :
               pc[r] = "load" => <<req[r].identity, req[r].user>> \in accounts

Inv == TypeOK /\ IdsGiven /\ StillFree /\ Entitled /\ OneWayIn

\* The data of an idle request, and the user a request would insert, are well typed.
LEMMA NoDataTyped == NoData \in Data
  BY IdentityAssumption DEF NoData, Data

\* The row a request would insert is typed, with the next id and the request's data.
LEMMA RowTyped ==
    ASSUME TypeOK, NEW r \in Requests, NEW local \in BOOLEAN
    PROVE  /\ Row(r, local) \in Users
           /\ Row(r, local).id = seq + 1
           /\ Row(r, local).email = req[r].email
           /\ Row(r, local).name = Candidate(req[r].base, req[r].attempt)
           /\ Row(r, local).local = local
  <1>1. req[r] \in Data
    BY DEF TypeOK
  <1>2. Candidate(req[r].base, req[r].attempt) \in Names
    BY <1>1 DEF Candidate, Names, Data
  <1>3. seq + 1 \in Nat /\ req[r].email \in Emails
    BY <1>1 DEF TypeOK, Data
  <1>4. QED
    BY <1>2, <1>3 DEF Row, Users

\* The invariant holds initially and each step keeps it.
LEMMA InvInit == Init => Inv
  BY NoDataTyped, IdentityAssumption
  DEF Init, Inv, TypeOK, IdsGiven, StillFree, Entitled, OneWayIn

\* Each step keeps the invariant; the first step covers those that are not the writer's.
LEMMA InvStep == Inv /\ [Next]_vars => Inv'
  <1> SUFFICES ASSUME Inv, [Next]_vars PROVE Inv'
    OBVIOUS
  <1> USE NoDataTyped, IdentityAssumption DEF Inv, tables, Goto, End
  <1>1. ASSUME NEW r \in Requests, UNCHANGED <<tables, writer, logins>>,
               req' \in [Requests -> Data],
               \A q \in Requests \ {r} : req'[q] = req[q],
               writer # r,
               \E step \in {"idle", "create", "find", "check", "insert"} :
                  pc' = [pc EXCEPT ![r] = step]
        PROVE  Inv'
    <2>1. /\ pc'[r] \in {"idle", "create", "find", "check", "insert"}
          /\ \A q \in Requests \ {r} : pc'[q] = pc[q] /\ req'[q] = req[q]
          /\ pc' \in [Requests -> {"idle", "create", "find", "check", "insert", "link",
                                   "commit", "load"}]
      BY <1>1 DEF TypeOK
    <2>2. TypeOK'
      BY <1>1, <2>1 DEF TypeOK
    <2>3. IdsGiven' /\ OneWayIn'
      BY <1>1 DEF IdsGiven, OneWayIn
    <2>4. StillFree'
      BY <1>1, <2>1 DEF StillFree, EmailTaken, NameTaken, IdentityFree
    <2>5. Entitled'
      BY <1>1, <2>1 DEF Entitled
    <2>6. QED
      BY <2>2, <2>3, <2>4, <2>5
  <1>2. ASSUME NEW r \in Requests, Register(r) PROVE Inv'
    <2>1. PICK e \in LowerEmails, b \in Bases, n \in 1..MaxSuffix :
             req' = [req EXCEPT ![r] = [NoData EXCEPT !.email = e, !.base = b, !.attempt = n]]
      BY <1>2 DEF Register
    <2>2. [NoData EXCEPT !.email = e, !.base = b, !.attempt = n] \in Data
      <3>1. e \in Emails /\ n \in Nat \ {0}
        OBVIOUS
      <3>2. QED
        BY <3>1 DEF Data
    <2>3. /\ req' \in [Requests -> Data]
          /\ \A q \in Requests \ {r} : req'[q] = req[q]
      BY <2>1, <2>2 DEF TypeOK
    <2>4. QED
      BY <1>1, <1>2, <2>3 DEF Register, TypeOK
  <1>3. ASSUME NEW r \in Requests, Create(r) PROVE Inv'
    <2>1. /\ pc[r] = "create" /\ writer = None
          /\ UNCHANGED <<accounts, writer, logins>>
          /\ pc' = [pc EXCEPT ![r] = "idle"] /\ req' = [req EXCEPT ![r] = NoData]
      BY <1>3 DEF Create
    <2>2. CASE UNCHANGED <<users, seq>>
      <3>1. /\ req' \in [Requests -> Data]
            /\ \A q \in Requests \ {r} : req'[q] = req[q]
        BY <2>1 DEF TypeOK
      <3>2. QED
        BY <1>1, <2>1, <2>2, <3>1
    <2>3. CASE users' = users \cup {Row(r, TRUE)} /\ seq' = seq + 1
      <3>0. Row(r, TRUE) \in Users /\ Row(r, TRUE).id = seq + 1 /\ Row(r, TRUE).local = TRUE
        BY RowTyped
      <3>1. PICK u \in Users : u = Row(r, TRUE)
        BY <3>0
      <3>2. users' = users \cup {u} /\ u.id = seq + 1 /\ u.local = TRUE
        BY <2>3, <3>0, <3>1
      <3>3. TypeOK'
        <4>0. seq' \in Nat
          BY <2>3 DEF TypeOK
        <4>1. users' \subseteq Users
          BY <3>2 DEF TypeOK
        <4>2. /\ pc'[r] = "idle" /\ \A q \in Requests \ {r} : pc'[q] = pc[q]
              /\ pc' \in [Requests -> {"idle", "create", "find", "check", "insert", "link",
                                       "commit", "load"}]
              /\ req' \in [Requests -> Data]
          BY <2>1 DEF TypeOK
        <4>3. QED
          BY <2>1, <4>0, <4>1, <4>2 DEF TypeOK
      <3>4. seq \in Nat /\ (\A v \in users : v.id \in Nat) /\ \A a \in accounts : a[2] \in Nat
        BY DEF TypeOK, Users, Pairs
      <3>5. IdsGiven'
        <4>1. seq' = seq + 1 /\ accounts' = accounts
          BY <2>1, <2>3
        <4>2. \A v \in users' : v.id <= seq'
          BY <3>2, <3>4, <4>1 DEF IdsGiven
        <4>3. \A a \in accounts' : a[2] <= seq'
          BY <3>4, <4>1 DEF IdsGiven
        <4>4. QED
          BY <4>2, <4>3 DEF IdsGiven
      <3>6. OneWayIn'
        <4>1. \A a \in accounts : a[2] # u.id
          BY <3>2, <3>4 DEF IdsGiven
        <4>2. QED
          BY <2>1, <3>2, <4>1 DEF OneWayIn
      <3>7. StillFree' /\ Entitled'
        BY <2>1 DEF TypeOK, StillFree, Entitled
      <3>8. QED
        BY <3>3, <3>5, <3>6, <3>7
    <2>4. QED
      BY <1>3, <2>2, <2>3 DEF Create
  <1>4. ASSUME NEW r \in Requests, Callback(r) PROVE Inv'
    <2>1. PICK i \in Identities, e \in Emails, b \in Bases :
             req' = [req EXCEPT ![r] = [NoData EXCEPT !.email = e, !.base = b, !.identity = i]]
      BY <1>4 DEF Callback
    <2>2. [NoData EXCEPT !.email = e, !.base = b, !.identity = i] \in Data
      BY DEF Data
    <2>3. /\ req' \in [Requests -> Data]
          /\ \A q \in Requests \ {r} : req'[q] = req[q]
      BY <2>1, <2>2 DEF TypeOK
    <2>4. QED
      BY <1>1, <1>4, <2>3 DEF Callback, TypeOK
  <1>5. ASSUME NEW r \in Requests, FindAccount(r) PROVE Inv'
    <2>1. CASE Goto(r, "check") /\ UNCHANGED req
      BY <1>1, <1>5, <2>1 DEF FindAccount, TypeOK
    <2>2. CASE \E a \in accounts : /\ a[1] = req[r].identity
                                   /\ req' = [req EXCEPT ![r].user = a[2]]
                                   /\ Goto(r, "load")
      <3>1. PICK a \in accounts : /\ a[1] = req[r].identity
                                  /\ req' = [req EXCEPT ![r].user = a[2]]
                                  /\ pc' = [pc EXCEPT ![r] = "load"]
        BY <2>2
      <3>2. /\ a \in Pairs /\ a = <<a[1], a[2]>> /\ a[2] \in Nat
            /\ req[r] \in Data /\ UNCHANGED <<users, accounts, seq, writer, logins>>
            /\ pc[r] = "find"
        BY <1>5 DEF FindAccount, TypeOK, Pairs
      <3>3. /\ req' \in [Requests -> Data]
            /\ req'[r].identity = req[r].identity /\ req'[r].user = a[2]
            /\ \A q \in Requests \ {r} : req'[q] = req[q] /\ pc'[q] = pc[q]
        BY <3>1, <3>2 DEF TypeOK, Data
      <3>4. TypeOK'
        BY <3>1, <3>2, <3>3 DEF TypeOK
      <3>5. IdsGiven' /\ OneWayIn'
        BY <3>2 DEF IdsGiven, OneWayIn
      <3>6. StillFree'
        BY <3>1, <3>2, <3>3 DEF TypeOK, StillFree, EmailTaken, NameTaken, IdentityFree
      <3>7. Entitled'
        BY <3>1, <3>2, <3>3 DEF TypeOK, Entitled
      <3>8. QED
        BY <3>4, <3>5, <3>6, <3>7
    <2>3. QED
      BY <1>5, <2>1, <2>2 DEF FindAccount
  <1>6. ASSUME NEW r \in Requests, CheckEmail(r) PROVE Inv'
    <2>1. /\ req' \in [Requests -> Data]
          /\ \A q \in Requests \ {r} : req'[q] = req[q]
          /\ \E step \in {"idle", "insert"} : pc' = [pc EXCEPT ![r] = step]
      BY <1>6 DEF CheckEmail, TypeOK
    <2>2. QED
      BY <1>1, <1>6, <2>1 DEF CheckEmail, TypeOK
  <1>7. ASSUME NEW r \in Requests, InsertUser(r) PROVE Inv'
    <2>1. /\ pc[r] = "insert" /\ writer = None /\ req[r] \in Data
          /\ UNCHANGED <<users, accounts, seq, logins>>
      BY <1>7 DEF InsertUser, TypeOK
    <2>2. CASE req' = [req EXCEPT ![r].attempt = NextAttempt(@)] /\ UNCHANGED <<writer, pc>>
      <3>1. req' \in [Requests -> Data]
        BY <2>1, <2>2 DEF TypeOK, Data, NextAttempt
      <3>2. /\ \A q \in Requests \ {r} : req'[q] = req[q]
            /\ pc' = [pc EXCEPT ![r] = "insert"]
        BY <2>1, <2>2 DEF TypeOK
      <3>3. QED
        BY <1>1, <2>1, <2>2, <3>1, <3>2
    <2>3. CASE End(r) /\ UNCHANGED writer
      <3>1. /\ req' \in [Requests -> Data]
            /\ \A q \in Requests \ {r} : req'[q] = req[q]
        BY <2>3 DEF TypeOK
      <3>2. QED
        BY <1>1, <2>1, <2>3, <3>1
    <2>4. CASE ~EmailTaken(r) /\ ~NameTaken(r) /\ writer' = r /\ Goto(r, "link") /\ UNCHANGED req
      <3>1. TypeOK'
        BY <2>1, <2>4 DEF TypeOK
      <3>2. IdsGiven' /\ OneWayIn'
        BY <2>1 DEF IdsGiven, OneWayIn
      <3>3. StillFree'
        BY <2>1, <2>4 DEF TypeOK, StillFree, EmailTaken, NameTaken, IdentityFree
      <3>4. Entitled'
        BY <2>1, <2>4 DEF TypeOK, Entitled
      <3>5. QED
        BY <3>1, <3>2, <3>3, <3>4
    <2>5. QED
      BY <1>7, <2>2, <2>3, <2>4 DEF InsertUser
  <1>8. ASSUME NEW r \in Requests, Abandon(r), UNCHANGED <<tables, logins>> PROVE Inv'
    <2>1. /\ pc' = [pc EXCEPT ![r] = "idle"] /\ req' = [req EXCEPT ![r] = NoData]
          /\ writer' = IF writer = r THEN None ELSE writer
          /\ UNCHANGED <<users, accounts, seq, logins>>
      BY <1>8 DEF Abandon
    <2>2. TypeOK'
      BY <2>1 DEF TypeOK
    <2>3. IdsGiven' /\ OneWayIn'
      BY <2>1 DEF IdsGiven, OneWayIn
    <2>4. StillFree'
      BY <2>1 DEF TypeOK, StillFree, EmailTaken, NameTaken, IdentityFree
    <2>5. Entitled'
      BY <2>1 DEF TypeOK, Entitled
    <2>6. QED
      BY <2>2, <2>3, <2>4, <2>5
  <1>9. ASSUME NEW r \in Requests, Link(r) PROVE Inv'
    <2>1. CASE IdentityFree(r) /\ Goto(r, "commit") /\ UNCHANGED <<writer, req>>
      <3>1. /\ pc[r] = "link" /\ pc' = [pc EXCEPT ![r] = "commit"]
            /\ UNCHANGED <<users, accounts, seq, writer, logins, req>>
        BY <1>9, <2>1 DEF Link
      <3>2. TypeOK'
        BY <3>1 DEF TypeOK
      <3>3. IdsGiven' /\ OneWayIn'
        BY <3>1 DEF IdsGiven, OneWayIn
      <3>4. StillFree'
        BY <2>1, <3>1 DEF TypeOK, StillFree, EmailTaken, NameTaken, IdentityFree
      <3>5. Entitled'
        BY <3>1 DEF TypeOK, Entitled
      <3>6. QED
        BY <3>2, <3>3, <3>4, <3>5
    <2>2. CASE Abandon(r)
      BY <1>8, <1>9, <2>2 DEF Link
    <2>3. QED
      BY <1>9, <2>1, <2>2 DEF Link
  <1>10. ASSUME NEW r \in Requests, Commit(r) PROVE Inv'
    <2>0. Row(r, FALSE) \in Users /\ Row(r, FALSE).id = seq + 1 /\ Row(r, FALSE).local = FALSE
      BY RowTyped
    <2>1. PICK u \in Users : u = Row(r, FALSE)
      BY <2>0
    <2>2. u.id = seq + 1 /\ u.local = FALSE
      BY <2>0, <2>1
    <2>13. <<req[r].identity, seq + 1>> \in Pairs
      BY DEF TypeOK, Data, Pairs
    <2>3. PICK a \in Pairs : a = <<req[r].identity, seq + 1>>
      BY <2>13
    <2>4. /\ pc[r] = "commit" /\ writer = r /\ a[2] = seq + 1
          /\ users' = users \cup {u} /\ accounts' = accounts \cup {a} /\ seq' = seq + 1
          /\ writer' = None /\ logins' = logins
          /\ req' = [req EXCEPT ![r].user = seq + 1]
          /\ pc' = [pc EXCEPT ![r] = "load"]
      BY <1>10, <2>1, <2>3 DEF Commit, WithAccount, TypeOK
    <2>5. /\ seq \in Nat /\ (\A v \in users : v.id \in Nat) /\ \A b \in accounts : b[2] \in Nat
          /\ req[r] \in Data
      BY DEF TypeOK, Users, Pairs
    <2>6. /\ req' \in [Requests -> Data]
          /\ req'[r].identity = req[r].identity /\ req'[r].user = seq + 1
          /\ \A q \in Requests \ {r} : req'[q] = req[q] /\ pc'[q] = pc[q]
      BY <2>4, <2>5 DEF TypeOK, Data
    <2>7. TypeOK'
      BY <2>4, <2>6 DEF TypeOK
    <2>8. IdsGiven'
      BY <2>2, <2>4, <2>5 DEF IdsGiven
    <2>9. OneWayIn'
      <3>1. \A v \in users : v.id # a[2]
        BY <2>4, <2>5 DEF IdsGiven
      <3>2. QED
        BY <2>2, <2>4, <3>1 DEF OneWayIn
    <2>10. StillFree'
      BY <2>4, <2>6 DEF TypeOK, StillFree
    <2>11. Entitled'
      BY <2>3, <2>4, <2>6 DEF TypeOK, Entitled
    <2>12. QED
      BY <2>7, <2>8, <2>9, <2>10, <2>11
  <1>11. ASSUME NEW r \in Requests, Load(r) PROVE Inv'
    <2>1. /\ pc[r] = "load" /\ UNCHANGED <<users, accounts, seq, writer>>
          /\ logins' = logins \cup {<<req[r].identity, req[r].user>>}
          /\ pc' = [pc EXCEPT ![r] = "idle"] /\ req' = [req EXCEPT ![r] = NoData]
      BY <1>11 DEF Load
    <2>2. <<req[r].identity, req[r].user>> \in Pairs
      BY DEF TypeOK, Data, Pairs
    <2>3. TypeOK'
      BY <2>1, <2>2 DEF TypeOK
    <2>4. IdsGiven' /\ OneWayIn'
      BY <2>1 DEF IdsGiven, OneWayIn
    <2>5. StillFree'
      BY <2>1 DEF TypeOK, StillFree, EmailTaken, NameTaken, IdentityFree
    <2>6. Entitled'
      BY <2>1 DEF TypeOK, Entitled
    <2>7. QED
      BY <2>3, <2>4, <2>5, <2>6
  <1>12. ASSUME NEW r \in Requests, Timeout(r) PROVE Inv'
    <2>1. /\ req' \in [Requests -> Data]
          /\ \A q \in Requests \ {r} : req'[q] = req[q]
          /\ writer # r
      BY <1>12 DEF Timeout, TypeOK
    <2>2. QED
      BY <1>1, <1>12, <2>1 DEF Timeout
  <1>13. ASSUME NEW r \in Requests, Fail(r) PROVE Inv'
    BY <1>8, <1>13 DEF Fail
  <1>14. CASE UNCHANGED vars
    BY <1>14 DEF vars, TypeOK, IdsGiven, StillFree, Entitled, OneWayIn, EmailTaken, NameTaken,
                 IdentityFree
  <1>15. QED
    BY <1>2, <1>3, <1>4, <1>5, <1>6, <1>7, <1>9, <1>10, <1>11, <1>12, <1>13, <1>14 DEF Next, Step

\* The invariant holds in every behaviour.
THEOREM Inductive == Spec => []Inv
  BY InvInit, InvStep, PTL DEF Spec

\* Identity keeps its types.
THEOREM TypeCorrect == Spec => []TypeOK
  <1>1. Inv => TypeOK
    BY DEF Inv
  <1>2. QED
    BY <1>1, Inductive, PTL

\* Each account has one way in.
THEOREM OneWayInEach == Spec => []OneWayIn
  <1>1. Inv => OneWayIn
    BY DEF Inv
  <1>2. QED
    BY <1>1, Inductive, PTL
-----------------------------------------------------------------------------
\* Each step is a step of the service or changes nothing the service has.
LEMMA PromiseStep == Inv /\ [Next]_vars => [Promise!Next]_Promise!vars
  <1> SUFFICES ASSUME Inv, [Next]_vars PROVE [Promise!Next]_Promise!vars
    OBVIOUS
  <1> USE DEF Inv, tables
  <1>1. ASSUME NEW r \in Requests, Create(r) PROVE Promise!Next \/ UNCHANGED Promise!vars
    <2>1. CASE UNCHANGED <<users, seq>>
      BY <1>1, <2>1 DEF Create, Promise!vars
    <2>2. CASE /\ ~EmailTaken(r) /\ ~NameTaken(r)
               /\ users' = users \cup {Row(r, TRUE)} /\ seq' = seq + 1
      <3>1. PICK u \in Users : u = Row(r, TRUE)
        BY RowTyped
      <3>2. /\ users' = users \cup {u} /\ u.id = seq + 1 /\ u.local
            /\ u.email = req[r].email /\ u.name = Candidate(req[r].base, req[r].attempt)
            /\ UNCHANGED <<accounts, logins>>
        BY <1>1, <2>2, <3>1, RowTyped DEF Create
      <3>3. \A v \in users : v.id # u.id
        BY <3>2 DEF TypeOK, Users, IdsGiven
      <3>4. Promise!Fresh(u)
        BY <2>2, <3>2, <3>3 DEF Promise!Fresh, EmailTaken, NameTaken
      <3>5. Promise!Join(u) /\ u \in users'
        BY <3>2, <3>4 DEF Promise!Join
      <3>6. QED
        BY <3>5 DEF Promise!Next
    <2>3. QED
      BY <1>1, <2>1, <2>2 DEF Create
  <1>2. ASSUME NEW r \in Requests, Commit(r) PROVE Promise!Next
    <2>1. PICK u \in Users : u = Row(r, FALSE)
      BY RowTyped
    <2>2. PICK i \in Identities : i = req[r].identity
      BY DEF TypeOK, Data
    <2>3. /\ pc[r] = "commit" /\ users' = users \cup {u} /\ u.id = seq + 1 /\ ~u.local
          /\ accounts' = accounts \cup {<<i, u.id>>} /\ logins' = logins
          /\ u.email = req[r].email /\ u.name = Candidate(req[r].base, req[r].attempt)
      BY <1>2, <2>1, <2>2, RowTyped DEF Commit, WithAccount
    <2>4. \A v \in users : v.id # u.id
      BY <2>3 DEF TypeOK, Users, IdsGiven
    <2>5. Promise!Fresh(u)
      BY <2>3, <2>4 DEF Promise!Fresh, StillFree, EmailTaken, NameTaken
    <2>6. \A o \in accounts : o[1] # i
      BY <2>2, <2>3 DEF StillFree, IdentityFree
    <2>7. Promise!SignUp(u, i) /\ u \in users'
      BY <2>3, <2>5, <2>6 DEF Promise!SignUp
    <2>8. QED
      BY <2>7 DEF Promise!Next
  <1>3. ASSUME NEW r \in Requests, Load(r) PROVE Promise!Next
    <2>1. PICK o \in accounts : o = <<req[r].identity, req[r].user>>
      BY <1>3 DEF Load, Entitled
    <2>2. Promise!SignIn(o)
      BY <1>3, <2>1 DEF Load, Promise!SignIn
    <2>3. QED
      BY <2>2 DEF Promise!Next
  <1>4. ASSUME NEW r \in Requests,
               \/ Register(r) \/ Callback(r) \/ FindAccount(r) \/ CheckEmail(r)
               \/ InsertUser(r) \/ Link(r) \/ Timeout(r) \/ Fail(r)
        PROVE  UNCHANGED Promise!vars
    BY <1>4 DEF Register, Callback, FindAccount, CheckEmail, InsertUser, Link, Timeout, Fail,
                Promise!vars
  <1>5. CASE UNCHANGED vars
    BY <1>5 DEF vars, Promise!vars
  <1>6. QED
    BY <1>1, <1>2, <1>3, <1>4, <1>5 DEF Next, Step

\* Tables, transactions and races implement whole accounts and faithful sign-ins.
THEOREM ServiceImplemented == Spec => ImplementsService
  <1>1. Init => Promise!Init
    BY DEF Init, Promise!Init
  <1>2. QED
    BY <1>1, Inductive, PromiseStep, PTL DEF Spec, ImplementsService, Promise!Spec
-----------------------------------------------------------------------------
(* What follows from the service, and so for the tables *)

\* The UNIQUE columns, which no transaction and no retry gets around.
KeysUnique == \A u \in users, v \in users :
                 u.id = v.id \/ u.email = v.email \/ u.name = v.name => u = v

\* An account made by a provider's identity is that identity's alone, and its only one.
OneOwner == \A a \in accounts :
               /\ \A b \in accounts : a[1] = b[1] \/ a[2] = b[2] => a = b
               /\ \E u \in users : u.id = a[2] /\ ~u.local

\* Who has signed in through a provider is the owner of the account.
SignedInAsOwner == logins \subseteq accounts

OwnersFaithful == KeysUnique /\ OneOwner /\ SignedInAsOwner

\* Each step of the service keeps the keys, the owners and the sign-ins.
LEMMA OwnersStep ==
    OwnersFaithful /\ [Promise!Next]_Promise!vars => OwnersFaithful'
  <1> SUFFICES ASSUME OwnersFaithful, [Promise!Next]_Promise!vars PROVE OwnersFaithful'
    OBVIOUS
  <1> USE DEF OwnersFaithful
  <1>1. ASSUME NEW u \in users', Promise!Join(u) PROVE OwnersFaithful'
    <2>1. /\ users' = users \cup {u} /\ UNCHANGED <<accounts, logins>>
          /\ \A v \in users : v.id # u.id /\ v.email # u.email /\ v.name # u.name
      BY <1>1 DEF Promise!Join, Promise!Fresh
    <2>2. KeysUnique'
      BY <2>1 DEF KeysUnique
    <2>3. OneOwner' /\ SignedInAsOwner'
      BY <2>1 DEF OneOwner, SignedInAsOwner
    <2>4. QED
      BY <2>2, <2>3
  <1>2. ASSUME NEW u \in users', NEW i \in Identities, Promise!SignUp(u, i)
        PROVE  OwnersFaithful'
    <2>1. /\ users' = users \cup {u} /\ UNCHANGED logins /\ ~u.local
          /\ \A v \in users : v.id # u.id /\ v.email # u.email /\ v.name # u.name
          /\ \A o \in accounts : o[1] # i
      BY <1>2 DEF Promise!SignUp, Promise!Fresh
    <2>2. PICK a : a = <<i, u.id>>
      OBVIOUS
    <2>3. accounts' = accounts \cup {a} /\ a[1] = i /\ a[2] = u.id
      BY <1>2, <2>2 DEF Promise!SignUp
    <2>4. KeysUnique'
      BY <2>1 DEF KeysUnique
    <2>5. \A b \in accounts : b[2] # u.id
      BY <2>1 DEF OneOwner
    <2>6. OneOwner'
      <3>1. ASSUME NEW b \in accounts', NEW c \in accounts', b[1] = c[1] \/ b[2] = c[2]
            PROVE  b = c
        BY <2>1, <2>3, <2>5, <3>1 DEF OneOwner
      <3>2. ASSUME NEW b \in accounts' PROVE \E v \in users' : v.id = b[2] /\ ~v.local
        BY <2>1, <2>3, <3>2 DEF OneOwner
      <3>3. QED
        BY <3>1, <3>2 DEF OneOwner
    <2>7. SignedInAsOwner'
      BY <2>1, <2>3 DEF SignedInAsOwner
    <2>8. QED
      BY <2>4, <2>6, <2>7
  <1>3. ASSUME NEW o \in accounts, Promise!SignIn(o) PROVE OwnersFaithful'
    <2>1. UNCHANGED <<users, accounts>> /\ logins' = logins \cup {o}
      BY <1>3 DEF Promise!SignIn
    <2>2. QED
      BY <2>1 DEF KeysUnique, OneOwner, SignedInAsOwner
  <1>4. CASE UNCHANGED Promise!vars
    BY <1>4 DEF Promise!vars, KeysUnique, OneOwner, SignedInAsOwner
  <1>5. QED
    BY <1>1, <1>2, <1>3, <1>4 DEF Promise!Next

\* Keys stay unique, an identity has one account of its own, and signs in to no other.
THEOREM OwnersKept == Spec => []OwnersFaithful
  <1>1. Init => OwnersFaithful
    BY DEF Init, OwnersFaithful, KeysUnique, OneOwner, SignedInAsOwner
  <1>2. QED
    BY <1>1, Inductive, PromiseStep, OwnersStep, PTL DEF Spec
=============================================================================
