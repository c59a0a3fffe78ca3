---------------------------- MODULE OAuthService ----------------------------
(***************************************************************************)
(* What signing in with a provider promises: an attempt is used at most     *)
(* once, and the login it leads to happens in the browser and with the      *)
(* provider it was begun with. OAuthFlow is shown to implement it.          *)
(***************************************************************************)
CONSTANT Attempts      \* records with a state, a browser and a provider

VARIABLES used,        \* states that were given out
          open,        \* attempts that wait for their callback
          held,        \* attempts a callback is completing
          logins       \* attempts that ended in a login

vars == <<used, open, held, logins>>

Init == used = {} /\ open = {} /\ held = {} /\ logins = {}

\* A new attempt; the store drops some that have expired when it is saved.
Begin(a) == /\ a.state \notin used
            /\ used' = used \cup {a.state}
            /\ \E kept \in SUBSET open : open' = kept \cup {a}
            /\ UNCHANGED <<held, logins>>

Take(a) == /\ a \in open
           /\ open' = open \ {a}
           /\ held' = held \cup {a}
           /\ UNCHANGED <<used, logins>>

LogIn(a) == /\ a \in held
            /\ held' = held \ {a}
            /\ logins' = logins \cup {a}
            /\ UNCHANGED <<used, open>>

\* Attempts expire or fail; all of them when the process ends.
GiveUp == /\ open' \subseteq open
          /\ held' \subseteq held
          /\ UNCHANGED <<used, logins>>

Next == \/ \E a \in Attempts : Begin(a) \/ Take(a) \/ LogIn(a)
        \/ GiveUp

Spec == Init /\ [][Next]_vars
=============================================================================
