--------------------------- MODULE SessionService ---------------------------
(***************************************************************************)
(* What the login service promises about sessions, with no requests, no    *)
(* transactions and no failures: a user has at most one active session, a  *)
(* login replaces it in one step, a logout ends exactly one session and an *)
(* identifier that was active once never becomes active again.             *)
(* Module Sessions is shown to implement it.                               *)
(***************************************************************************)
CONSTANTS Users,       \* registered users
          SessionIds   \* identifiers uuid.NewString can produce

VARIABLES active,      \* user -> the identifiers that authenticate this user
          spent        \* identifiers that were active at some time

vars == <<active, spent>>

Init == /\ active = [u \in Users |-> {}]
        /\ spent = {}

\* The new session replaces whatever the user had.
Login(u) == \E id \in SessionIds \ spent :
               /\ active' = [active EXCEPT ![u] = {id}]
               /\ spent' = spent \cup {id}

\* The session of one cookie ends; nobody else notices.
Logout(u) == /\ active[u] # {}
             /\ active' = [active EXCEPT ![u] = {}]
             /\ UNCHANGED spent

Next == \E u \in Users : Login(u) \/ Logout(u)

Spec == Init /\ [][Next]_vars
=============================================================================
