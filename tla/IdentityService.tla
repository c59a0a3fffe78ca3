--------------------------- MODULE IdentityService ---------------------------
(***************************************************************************)
(* What accounts promise: an account appears whole, with the one way its    *)
(* owner will sign in; an identity of a provider signs in to the account it  *)
(* made and to no other. Identity is shown to implement it.                  *)
(***************************************************************************)
CONSTANT Identities

VARIABLES users,       \* the accounts: id, email, name, local (with a password)
          owner,       \* pairs <<identity, id>> of accounts made by an identity
          logins       \* pairs that have signed in

vars == <<users, owner, logins>>

Init == users = {} /\ owner = {} /\ logins = {}

Fresh(u) == \A v \in users : v.id # u.id /\ v.email # u.email /\ v.name # u.name

Join(u) == /\ Fresh(u) /\ u.local
           /\ users' = users \cup {u}
           /\ UNCHANGED <<owner, logins>>

\* The first login of an identity.
SignUp(u, i) == /\ Fresh(u) /\ ~u.local
                /\ \A o \in owner : o[1] # i
                /\ users' = users \cup {u}
                /\ owner' = owner \cup {<<i, u.id>>}
                /\ UNCHANGED logins

SignIn(o) == /\ logins' = logins \cup {o}
             /\ UNCHANGED <<users, owner>>

Next == \/ \E u \in users' : Join(u) \/ \E i \in Identities : SignUp(u, i)
        \/ \E o \in owner : SignIn(o)

Spec == Init /\ [][Next]_vars
=============================================================================
