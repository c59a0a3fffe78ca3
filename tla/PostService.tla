----------------------------- MODULE PostService -----------------------------
(***************************************************************************)
(* What post creation promises: one form makes one whole post, with its      *)
(* picture and all its categories, at one moment between its arrival and its *)
(* answer, or no post at all. "Created" is answered only after that moment,  *)
(* an error only if it never comes. PostCreation is shown to implement it.   *)
(***************************************************************************)
CONSTANTS Forms,      \* what a request may ask for
          Requests

VARIABLES posts,      \* the forms that became posts
          phase,      \* request -> how far it has come
          form        \* request -> what it asked for

vars == <<posts, phase, form>>

Init == /\ posts = {}
        /\ phase = [r \in Requests |-> "idle"]
        /\ form \in [Requests -> Forms]

Ask(r) == /\ phase[r] = "idle"
          /\ phase' = [phase EXCEPT ![r] = "asked"]
          /\ \E f \in Forms : form' = [form EXCEPT ![r] = f]
          /\ UNCHANGED posts

Publish(r) == /\ phase[r] = "asked"
              /\ form[r] \notin posts
              /\ posts' = posts \cup {form[r]}
              /\ phase' = [phase EXCEPT ![r] = "created"]
              /\ UNCHANGED form

Refuse(r) == /\ phase[r] = "asked"
             /\ phase' = [phase EXCEPT ![r] = "refused"]
             /\ UNCHANGED <<posts, form>>

\* A request ends with its answer, and all of them end with the process.
End(R) == /\ phase' = [r \in Requests |-> IF r \in R THEN "idle" ELSE phase[r]]
          /\ R = Requests \/ \A r \in R : phase[r] \in {"created", "refused"}
          /\ form' \in [Requests -> Forms]
          /\ \A r \in Requests \ R : form'[r] = form[r]
          /\ UNCHANGED posts

Next == \/ \E r \in Requests : Ask(r) \/ Publish(r) \/ Refuse(r)
        \/ \E R \in SUBSET Requests : End(R)

Spec == Init /\ [][Next]_vars
=============================================================================
