-------------------------- MODULE ReactionService --------------------------
(***************************************************************************)
(* What the reaction service promises: a request that is accepted toggles   *)
(* one user's reaction to one target exactly once, atomically, at some      *)
(* moment between its arrival and its answer; a request that is refused     *)
(* changes nothing. Reactions is shown to implement it.                     *)
(***************************************************************************)
CONSTANTS Users, Posts, Comments, Requests

Targets   == Posts \cup Comments
Reactions == {"like", "dislike"}
Orders    == [user : Users, target : Targets, value : Reactions]

VARIABLES reaction,   \* <<user, target>> -> "none", "like" or "dislike"
          exists,     \* targets that have been published
          phase,      \* request -> how far its promise has come
          order       \* request -> what it asks for

vars == <<reaction, exists, phase, order>>

Init == /\ reaction = [k \in Users \X Targets |-> "none"]
        /\ exists = {}
        /\ phase = [r \in Requests |-> "idle"]
        /\ order \in [Requests -> Orders]

\* The same reaction again takes it back, the other one replaces it.
Toggle(table, o) ==
    [table EXCEPT ![<<o.user, o.target>>] = IF @ = o.value THEN "none" ELSE o.value]

Publish(t) == /\ t \notin exists
              /\ exists' = exists \cup {t}
              /\ UNCHANGED <<reaction, phase, order>>

Ask(r) == /\ phase[r] = "idle"
          /\ phase' = [phase EXCEPT ![r] = "asked"]
          /\ \E o \in Orders : order' = [order EXCEPT ![r] = o]
          /\ UNCHANGED <<reaction, exists>>

Apply(r) == /\ phase[r] = "asked"
            /\ order[r].target \in exists
            /\ reaction' = Toggle(reaction, order[r])
            /\ phase' = [phase EXCEPT ![r] = "applied"]
            /\ UNCHANGED <<exists, order>>

\* 303, 404 or 500. Only the answer about a comment may be an error after the
\* toggle: its redirect needs one more query.
Answer(r) == /\ \/ phase[r] = "applied" /\ phase' = [phase EXCEPT ![r] = "ok"]
                \/ phase[r] = "asked"   /\ phase' = [phase EXCEPT ![r] = "error"]
                \/ phase[r] = "asked"   /\ phase' = [phase EXCEPT ![r] = "missing"]
                                        /\ order[r].target \notin exists
                \/ phase[r] = "applied" /\ phase' = [phase EXCEPT ![r] = "error"]
                                        /\ order[r].target \in Comments
             /\ UNCHANGED <<reaction, exists, order>>

\* A request ends with its answer, and all of them end with the process.
End(R) == /\ phase' = [r \in Requests |-> IF r \in R THEN "idle" ELSE phase[r]]
          /\ \A r \in R : phase[r] \in {"ok", "error", "missing"} \/ R = Requests
          /\ order' \in [Requests -> Orders]
          /\ \A r \in Requests \ R : order'[r] = order[r]
          /\ UNCHANGED <<reaction, exists>>

Next == \/ \E t \in Targets : Publish(t)
        \/ \E r \in Requests : Ask(r) \/ Apply(r) \/ Answer(r)
        \/ \E R \in SUBSET Requests : End(R)

Spec == Init /\ [][Next]_vars
=============================================================================
