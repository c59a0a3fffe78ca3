------------------------------ MODULE Reactions ------------------------------
(***************************************************************************)
(* Post and comment reactions: SetPostReaction and SetCommentReaction read  *)
(* a row and write it in one deferred SQLite transaction (rollback journal,  *)
(* one connection per request). The locks are SQLite's: a read takes SHARED  *)
(* and keeps it; the first write takes RESERVED, which a second writer is    *)
(* refused at once because it already reads; COMMIT keeps new readers out    *)
(* (PENDING) and waits until the other readers have left (EXCLUSIVE).        *)
(***************************************************************************)
EXTENDS Forum, Naturals

CONSTANT None

\* An idle request has to have some order, so there is one.
ASSUME ReactionsAssumption == /\ None \notin Requests
                              /\ Users # {}
                              /\ Posts \cup Comments # {}

VARIABLES reaction,  \* committed rows of post_reactions and comment_reactions
          exists,    \* committed posts and comments
          shared,    \* requests that hold SHARED
          writer,    \* the request that holds RESERVED
          draft,     \* the reactions as the writer's transaction sees them
          pc,        \* request -> where it is
          order,     \* request -> user, target and value of the form
          seen       \* request -> the value its SELECT returned

locks == <<shared, writer, draft>>
vars  == <<reaction, exists, locks, pc, order, seen>>

Targets   == Posts \cup Comments
Values    == {"none", "like", "dislike"}
Orders    == [user : Users, target : Targets, value : Values \ {"none"}]
InTx      == {"select", "write", "commit", "pending"}
Answers   == {"ok", "error", "missing"}

Key(r) == <<order[r].user, order[r].target>>

TypeOK == /\ reaction \in [Users \X Targets -> Values]
          /\ exists \subseteq Targets
          /\ shared \subseteq Requests
          /\ writer \in Requests \cup {None}
          /\ draft \in [Users \X Targets -> Values]
          /\ pc \in [Requests -> InTx \cup Answers \cup {"idle", "begin", "locate"}]
          /\ order \in [Requests -> Orders]
          /\ seen \in [Requests -> Values]

NoOrder == CHOOSE o \in Orders : TRUE

Init == /\ reaction = [k \in Users \X Targets |-> "none"]
        /\ exists = {}
        /\ shared = {} /\ writer = None
        /\ draft = [k \in Users \X Targets |-> "none"]
        /\ pc = [r \in Requests |-> "idle"]
        /\ order = [r \in Requests |-> NoOrder]
        /\ seen = [r \in Requests |-> "none"]

Goto(r, step) == pc' = [pc EXCEPT ![r] = step]

\* COMMIT has asked for EXCLUSIVE: no connection may start reading.
Pending == \E q \in Requests : pc[q] = "pending"

\* The locks a transaction holds go with it, and so does what it wrote.
Release(r) ==
    /\ shared' = shared \ {r}
    /\ writer' = IF writer = r THEN None ELSE writer
    /\ draft' = IF writer = r THEN [k \in Users \X Targets |-> "none"] ELSE draft
-----------------------------------------------------------------------------
\* Another request commits a post or a comment. Rows of these are never deleted.
Publish(t) ==
    /\ t \notin exists
    /\ shared = {} /\ writer = None
    /\ exists' = exists \cup {t}
    /\ UNCHANGED <<reaction, locks, pc, order, seen>>

\* Fault: the value of the form is not validated.
AnyReaction(v) == TRUE

\* The service accepts two values, whatever the form says.
validReaction(v) == v \in {"like", "dislike"}

\* An authenticated, well-formed form reaches the repository; BEGIN takes no lock.
Submit(r) ==
    /\ pc[r] = "idle"
    /\ \E u \in Users, t \in Targets, v \in Values :
          /\ validReaction(v)
          /\ order' = [order EXCEPT ![r] = [user |-> u, target |-> t, value |-> v]]
    /\ Goto(r, "begin")
    /\ UNCHANGED <<reaction, exists, locks, seen>>

\* Fault: the target is not looked up.
TargetAssumed(r) == TRUE

TargetExists(r) == order[r].target \in exists

\* SELECT 1: the transaction's first read takes SHARED.
CheckTarget(r) ==
    /\ pc[r] = "begin"
    /\ ~Pending
    /\ IF TargetExists(r)
       THEN shared' = shared \cup {r} /\ Goto(r, "select")
       ELSE UNCHANGED shared /\ Goto(r, "missing")
    /\ UNCHANGED <<reaction, exists, writer, draft, order, seen>>

\* Fault: the SELECT runs outside the transaction.
SelectValueOutside(r) ==
    /\ pc[r] = "select"
    /\ seen' = [seen EXCEPT ![r] = reaction[Key(r)]]
    /\ shared' = shared \ {r}
    /\ Goto(r, "write")
    /\ UNCHANGED <<reaction, exists, writer, draft, order>>

SelectValue(r) ==
    /\ pc[r] = "select"
    /\ seen' = [seen EXCEPT ![r] = reaction[Key(r)]]
    /\ Goto(r, "write")
    /\ UNCHANGED <<reaction, exists, locks, order>>

\* INSERT, DELETE or UPDATE, decided by the value read before; each has its
\* effect on the row that is there now.
Transition(r) ==
    LET now == reaction[Key(r)] IN
    CASE seen[r] = "none"         -> order[r].value
      [] seen[r] = order[r].value -> "none"
      [] OTHER                    -> IF now = "none" THEN "none" ELSE order[r].value

Write(r) ==
    /\ pc[r] = "write"
    /\ writer = None
    /\ seen[r] = "none" => reaction[Key(r)] = "none"     \* PRIMARY KEY
    /\ writer' = r
    /\ shared' = shared \cup {r}
    /\ draft' = [reaction EXCEPT ![Key(r)] = Transition(r)]
    /\ Goto(r, "commit")
    /\ UNCHANGED <<reaction, exists, order, seen>>

\* Fault: the refused writer retries and keeps its SHARED lock.
RefusedRetries(r) == pc[r] = "write" /\ writer # None /\ UNCHANGED vars

\* Another transaction holds RESERVED: SQLITE_BUSY without waiting.
Refused(r) ==
    /\ pc[r] = "write"
    /\ writer # None
    /\ Release(r)
    /\ Goto(r, "error")
    /\ UNCHANGED <<reaction, exists, order, seen>>

AskExclusive(r) ==
    /\ pc[r] = "commit"
    /\ Goto(r, "pending")
    /\ UNCHANGED <<reaction, exists, locks, order, seen>>

\* Fault: a journal that lets the others go on reading.
ReadersStay(r) == TRUE

ReadersLeft(r) == shared = {r}

Commit(r) ==
    /\ pc[r] = "pending"
    /\ ReadersLeft(r)
    /\ reaction' = draft
    /\ Release(r)
    /\ Goto(r, "locate")
    /\ UNCHANGED <<exists, order, seen>>

\* The redirect: a comment's needs PostIDForComment, which may fail although the
\* reaction is committed.
Locate(r) ==
    /\ pc[r] = "locate"
    /\ \/ /\ order[r].target \in Comments => ~Pending
          /\ Goto(r, "ok")
       \/ /\ order[r].target \in Comments
          /\ Goto(r, "error")
    /\ UNCHANGED <<reaction, exists, locks, order, seen>>

\* The first read has waited 5 s for a COMMIT to finish.
Timeout(r) ==
    /\ pc[r] = "begin"
    /\ Pending
    /\ Goto(r, "error")
    /\ UNCHANGED <<reaction, exists, locks, order, seen>>

\* Any statement, or the COMMIT, fails: rolled back.
Fail(r) ==
    /\ pc[r] \in InTx \cup {"begin"}
    /\ Release(r)
    /\ Goto(r, "error")
    /\ UNCHANGED <<reaction, exists, order, seen>>

Reply(r) ==
    /\ pc[r] \in Answers
    /\ pc' = [pc EXCEPT ![r] = "idle"]
    /\ order' = [order EXCEPT ![r] = NoOrder]
    /\ seen' = [seen EXCEPT ![r] = "none"]
    /\ UNCHANGED <<reaction, exists, locks>>

\* The process dies: the journal takes every open transaction back.
Crash ==
    /\ pc' = [r \in Requests |-> "idle"]
    /\ order' = [r \in Requests |-> NoOrder]
    /\ seen' = [r \in Requests |-> "none"]
    /\ shared' = {} /\ writer' = None
    /\ draft' = [k \in Users \X Targets |-> "none"]
    /\ UNCHANGED <<reaction, exists>>

Work(r) == \/ CheckTarget(r) \/ SelectValue(r) \/ Write(r) \/ Refused(r)
           \/ AskExclusive(r) \/ Commit(r) \/ Locate(r) \/ Timeout(r) \/ Reply(r)

Next == \/ \E t \in Targets : Publish(t)
        \/ \E r \in Requests : Submit(r) \/ Work(r) \/ Fail(r)
        \/ Crash

Spec == Init /\ [][Next]_vars

\* Goroutines run, and the busy timeout ends the wait of a first read. A COMMIT
\* gets no such help here: its wait must end because the readers leave.
FairSpec == Spec /\ \A r \in Requests : WF_vars(Work(r))
-----------------------------------------------------------------------------
(* Properties *)

\* What a transaction read is still what the table holds when it writes: the
\* INSERT, DELETE or UPDATE chosen from it is the right one (no lost update).
SeenIsCurrent == \A r \in Requests : pc[r] = "write" => seen[r] = reaction[Key(r)]

\* Readers that hold SHARED and a writer that waits for them never wait for each
\* other: every request that is submitted is answered. A COMMIT that waits needs no
\* busy timeout for it; the wait of a first read may end by one.
EveryRequestEnds == \A r \in Requests : (pc[r] # "idle") ~> (pc[r] = "idle")

\* Requests toggle atomically, once when accepted and not at all when refused.
Phase(r) == IF pc[r] \in InTx \cup {"begin"} THEN "asked"
            ELSE IF pc[r] = "locate" THEN "applied" ELSE pc[r]

Promise == INSTANCE ReactionService WITH phase <- [r \in Requests |-> Phase(r)]

ImplementsService == Promise!Spec
=============================================================================
