---------------------------- MODULE ContentProofs ----------------------------
(***************************************************************************)
(* Theorems about the forum's content, for any users, posts, comments,     *)
(* categories and number of concurrent requests: Reactions, which writes   *)
(* the votes, and ContentReads, which shows posts and comments with them.   *)
(***************************************************************************)
EXTENDS Reactions, ContentReads, FiniteSetTheorems, FunctionTheorems, TLAPS

-----------------------------------------------------------------------------
(* Reactions: one transaction for each *)

\* Who is inside a transaction holds SHARED, and nobody else does.
LocksSound == /\ shared = {r \in Requests : pc[r] \in InTx}
              /\ \A r \in Requests : writer = r <=> pc[r] \in {"commit", "pending"}

\* A transaction works on a target that exists.
TargetSound == \A r \in Requests : pc[r] \in InTx \cup {"locate"}
                  => order[r].target \in exists

\* The writer's draft is the committed table with its user's toggle.
DraftSound == \A r \in Requests : pc[r] \in {"commit", "pending"}
                 => draft = Promise!Toggle(reaction, order[r])

Inv == TypeOK /\ LocksSound /\ TargetSound /\ DraftSound /\ SeenIsCurrent
-----------------------------------------------------------------------------
\* The order of an idle request is one of the orders.
LEMMA NoOrderType == NoOrder \in Orders
  <1>1. PICK u \in Users, t \in Targets : TRUE
    BY ReactionsAssumption DEF Targets
  <1>2. [user |-> u, target |-> t, value |-> "like"] \in Orders
    BY DEF Orders, Values
  <1>3. QED
    BY <1>2 DEF NoOrder

\* Tables without rows are typed.
LEMMA NoRows == [k \in Users \X Targets |-> "none"] \in [Users \X Targets -> Values]
  BY DEF Values

\* What a request asks for is a value for a key of the tables.
LEMMA KeyType == ASSUME TypeOK, NEW r \in Requests
                 PROVE  /\ order[r].value \in {"like", "dislike"}
                        /\ order[r].target \in Targets
                        /\ Key(r) \in Users \X Targets
  BY DEF TypeOK, Orders, Key, Values

\* The invariant holds of empty tables without locks.
LEMMA InvInit == Init => Inv
  BY NoOrderType, NoRows, ReactionsAssumption
     DEF Init, Inv, TypeOK, LocksSound, TargetSound, DraftSound, SeenIsCurrent,
         InTx, Answers, Values

\* The write chosen from the value read is the toggle of the value committed.
LEMMA WriteToggles ==
    ASSUME Inv, NEW r \in Requests, Write(r)
    PROVE  draft' = Promise!Toggle(reaction, order[r])
  <1>1. seen[r] = reaction[Key(r)]
    BY DEF Write, Inv, SeenIsCurrent
  <1>2. Key(r) = <<order[r].user, order[r].target>>
    BY DEF Key
  <1>3. Transition(r) = IF reaction[Key(r)] = order[r].value THEN "none"
                                                            ELSE order[r].value
    BY <1>1, KeyType DEF Transition, Inv
  <1>4. Key(r) \in DOMAIN reaction
    BY KeyType DEF Inv, TypeOK
  <1>5. QED
    BY <1>2, <1>3, <1>4 DEF Write, Promise!Toggle

\* Each step of a transaction, a publication and a crash keep the invariant.
LEMMA InvStep == Inv /\ [Next]_vars => Inv'
  <1> SUFFICES ASSUME Inv, [Next]_vars PROVE Inv'
    OBVIOUS
  <1> USE ReactionsAssumption DEF Inv, TypeOK, locks, Goto, InTx, Answers
  <1>1. ASSUME NEW t \in Targets, Publish(t) PROVE Inv'
    BY <1>1 DEF Publish, LocksSound, TargetSound, DraftSound, SeenIsCurrent, Key
  <1>2. ASSUME NEW r \in Requests, Submit(r) PROVE Inv'
    <2>1. PICK o \in Orders : order' = [order EXCEPT ![r] = o]
      BY <1>2 DEF Submit, validReaction, Orders, Values
    <2>2. QED
      BY <1>2, <2>1 DEF Submit, LocksSound, TargetSound, DraftSound, SeenIsCurrent, Key
  <1>3. ASSUME NEW r \in Requests, CheckTarget(r) PROVE Inv'
    BY <1>3 DEF CheckTarget, TargetExists, LocksSound, TargetSound, DraftSound, SeenIsCurrent, Key
  <1>4. ASSUME NEW r \in Requests, SelectValue(r) PROVE Inv'
    BY <1>4, KeyType DEF SelectValue, LocksSound, TargetSound, DraftSound,
                         SeenIsCurrent, Key
  <1>5. ASSUME NEW r \in Requests, Write(r) PROVE Inv'
    <2>1. Transition(r) \in Values
      BY KeyType DEF Transition, Values
    <2>2. TypeOK'
      BY <1>5, <2>1 DEF Write
    <2>3. DraftSound'
      BY <1>5, WriteToggles DEF Write, LocksSound, DraftSound
    <2>4. QED
      BY <1>5, <2>2, <2>3 DEF Write, LocksSound, TargetSound, SeenIsCurrent, Key
  <1>6. ASSUME NEW r \in Requests, Refused(r) PROVE Inv'
    BY <1>6, NoRows DEF Refused, Release, LocksSound, TargetSound, DraftSound,
                        SeenIsCurrent, Key
  <1>7. ASSUME NEW r \in Requests, AskExclusive(r) PROVE Inv'
    BY <1>7 DEF AskExclusive, LocksSound, TargetSound, DraftSound, SeenIsCurrent, Key
  <1>8. ASSUME NEW r \in Requests, Commit(r) PROVE Inv'
    BY <1>8, NoRows DEF Commit, ReadersLeft, Release, LocksSound, TargetSound, DraftSound,
                        SeenIsCurrent, Key
  <1>9. ASSUME NEW r \in Requests, Locate(r) PROVE Inv'
    BY <1>9 DEF Locate, LocksSound, TargetSound, DraftSound, SeenIsCurrent, Key
  <1>10. ASSUME NEW r \in Requests, Timeout(r) PROVE Inv'
    BY <1>10 DEF Timeout, LocksSound, TargetSound, DraftSound, SeenIsCurrent, Key
  <1>11. ASSUME NEW r \in Requests, Fail(r) PROVE Inv'
    BY <1>11, NoRows DEF Fail, Release, LocksSound, TargetSound, DraftSound,
                         SeenIsCurrent, Key
  <1>12. ASSUME NEW r \in Requests, Reply(r) PROVE Inv'
    BY <1>12, NoOrderType DEF Reply, LocksSound, TargetSound, DraftSound,
                              SeenIsCurrent, Key, Values
  <1>13. CASE Crash
    BY <1>13, NoOrderType, NoRows DEF Crash, LocksSound, TargetSound, DraftSound,
                                      SeenIsCurrent, Values
  <1>14. CASE UNCHANGED vars
    BY <1>14 DEF vars, LocksSound, TargetSound, DraftSound, SeenIsCurrent, Key
  <1>15. QED
    BY <1>1, <1>2, <1>3, <1>4, <1>5, <1>6, <1>7, <1>8, <1>9, <1>10, <1>11, <1>12,
       <1>13, <1>14 DEF Next, Work

\* Locks, drafts and what was read agree in every behaviour.
THEOREM Inductive == Spec => []Inv
  BY InvInit, InvStep, PTL DEF Spec

\* Type correctness: each lock is held by requests at the places that need it.
THEOREM TypeCorrect == Spec => []TypeOK
  BY Inductive, PTL DEF Inv

\* The value a transaction read is the committed one when it writes: the locks
\* make the read-modify-write of a reaction atomic for any number of requests.
THEOREM NoLostUpdate == Spec => []SeenIsCurrent
  <1>1. Inv => SeenIsCurrent
    BY DEF Inv
  <1>2. QED
    BY <1>1, Inductive, PTL
-----------------------------------------------------------------------------
(* Every step is a step of ReactionService, or none *)

\* Only the COMMIT toggles, and it toggles what its request asked for.
LEMMA StepMaps ==
    ASSUME Inv, [Next]_vars
    PROVE  Promise!Next \/ UNCHANGED Promise!vars
  <1> USE DEF Inv, TypeOK, locks, Goto, InTx, Answers, Phase
  <1> DEFINE phase == [r \in Requests |-> Phase(r)]
  <1>1. ASSUME NEW t \in Targets, Publish(t) PROVE Promise!Publish(t)
    BY <1>1 DEF Publish, Promise!Publish
  <1>2. ASSUME NEW r \in Requests, Submit(r) PROVE Promise!Ask(r)
    BY <1>2 DEF Submit, validReaction, Promise!Ask, Promise!Orders, Promise!Targets,
                Promise!Reactions, Orders, Targets, Values
  <1>3. ASSUME NEW r \in Requests, CheckTarget(r)
        PROVE  Promise!Answer(r) \/ UNCHANGED Promise!vars
    BY <1>3 DEF CheckTarget, TargetExists, Promise!Answer, Promise!vars
  <1>4. ASSUME NEW r \in Requests, SelectValue(r) \/ Write(r) \/ AskExclusive(r)
        PROVE  UNCHANGED Promise!vars
    BY <1>4 DEF SelectValue, Write, AskExclusive, Promise!vars
  <1>5. ASSUME NEW r \in Requests, Refused(r) \/ Timeout(r) \/ Fail(r)
        PROVE  Promise!Answer(r)
    BY <1>5 DEF Refused, Timeout, Fail, Promise!Answer
  <1>6. ASSUME NEW r \in Requests, Commit(r) PROVE Promise!Apply(r)
    BY <1>6 DEF Commit, ReadersLeft, DraftSound, TargetSound, Promise!Apply
  <1>7. ASSUME NEW r \in Requests, Locate(r) PROVE Promise!Answer(r)
    BY <1>7 DEF Locate, Promise!Answer
  <1>8. ASSUME NEW r \in Requests, Reply(r) PROVE Promise!End({r})
    BY <1>8, NoOrderType DEF Reply, Promise!End, Promise!Orders, Promise!Targets,
                Promise!Reactions, Orders, Targets, Values
  <1>9. CASE Crash
    <2>1. Promise!End(Requests)
      BY <1>9, NoOrderType DEF Crash, Promise!End, Promise!Orders, Promise!Targets,
                Promise!Reactions, Orders, Targets, Values
    <2>2. QED
      BY <2>1 DEF Promise!Next
  <1>10. CASE UNCHANGED vars
    BY <1>10 DEF vars, Promise!vars
  <1>11. QED
    BY <1>1, <1>2, <1>3, <1>4, <1>5, <1>6, <1>7, <1>8, <1>9, <1>10
       DEF Next, Work, Promise!Next, Targets, Promise!Targets

\* Under any interleaving, lock refusal, failure or crash, every accepted request
\* toggles its user's reaction exactly once and a refused one not at all.
THEOREM ServiceImplemented == Spec => ImplementsService
  <1>1. Init => Promise!Init
    BY NoOrderType DEF Init, Promise!Init, Promise!Orders, Promise!Targets,
       Promise!Reactions, Orders, Targets, Values, Phase, InTx
  <1>2. Inv /\ [Next]_vars => [Promise!Next]_Promise!vars
    BY StepMaps
  <1>3. QED
    BY <1>1, <1>2, Inductive, PTL DEF Spec, ImplementsService, Promise!Spec
-----------------------------------------------------------------------------
(* Why no request of Reactions waits for ever: the part of EveryRequestEnds that is *)
(* about steps                                                                      *)

\* How many steps a request has left at most.
StepsLeft == [idle |-> 0, ok |-> 1, error |-> 1, missing |-> 1, locate |-> 2, pending |-> 3,
              commit |-> 4, write |-> 5, select |-> 6, begin |-> 7]

\* A COMMIT waits only for readers that wait for nobody: they read on, or they want to
\* write and are refused.
ReadersMove == \A r \in Requests : pc[r] = "pending" =>
                  /\ writer = r
                  /\ \A q \in shared \ {r} : pc[q] \in {"select", "write"}

\* While it waits no reader comes.
NoNewReader == Pending => shared' \subseteq shared

\* A handler's step brings it nearer to its end and leaves the others where they are; a
\* failure and a crash do not send anybody back.
MovesOn == \A r \in Requests :
              /\ Work(r) => /\ StepsLeft[pc'[r]] < StepsLeft[pc[r]]
                            /\ \A q \in Requests \ {r} : pc'[q] = pc[q]
              /\ pc[r] # "idle" => StepsLeft[pc'[r]] <= StepsLeft[pc[r]]

\* Each step moves on and lets no reader past a COMMIT that waits.
LEMMA StepMovesOn == Inv /\ [Next]_vars => NoNewReader /\ MovesOn
  <1> SUFFICES ASSUME Inv, [Next]_vars PROVE NoNewReader /\ MovesOn
    OBVIOUS
  <1> USE DEF Inv, TypeOK, InTx, Answers, Goto, locks
  <1>1. ASSUME NEW r \in Requests, Work(r)
        PROVE  /\ StepsLeft[pc'[r]] < StepsLeft[pc[r]]
               /\ \A q \in Requests \ {r} : pc'[q] = pc[q]
    BY <1>1 DEF Work, CheckTarget, SelectValue, Write, Refused, AskExclusive, Commit, Locate,
                Timeout, Reply, StepsLeft
  <1>2. ASSUME NEW r \in Requests, Work(r) PROVE NoNewReader
    BY <1>2 DEF Work, CheckTarget, SelectValue, Write, Refused, AskExclusive, Commit, Locate,
                Timeout, Reply, Release, NoNewReader, LocksSound
  <1>3. ASSUME NEW r \in Requests, Submit(r) \/ Fail(r)
        PROVE  /\ NoNewReader
               /\ \A q \in Requests : pc[q] # "idle" => StepsLeft[pc'[q]] <= StepsLeft[pc[q]]
    BY <1>3 DEF Submit, Fail, Release, NoNewReader, StepsLeft
  <1>4. CASE (\E t \in Targets : Publish(t)) \/ Crash \/ UNCHANGED vars
    <2>1. shared' \subseteq shared
      BY <1>4 DEF Publish, Crash, vars
    <2>2. \A q \in Requests : StepsLeft[pc'[q]] <= StepsLeft[pc[q]]
      BY <1>4 DEF Publish, Crash, vars, StepsLeft
    <2>3. QED
      BY <1>1, <2>1, <2>2 DEF NoNewReader, MovesOn
  <1>5. \A q \in Requests : StepsLeft[pc[q]] \in Nat
    BY DEF StepsLeft
  <1>6. ASSUME NEW r \in Requests, Work(r) PROVE MovesOn
    <2>1. \A q \in Requests : StepsLeft[pc'[q]] <= StepsLeft[pc[q]]
      <3>1. StepsLeft[pc'[r]] <= StepsLeft[pc[r]]
        BY <1>6 DEF Work, CheckTarget, SelectValue, Write, Refused, AskExclusive, Commit,
                    Locate, Timeout, Reply, StepsLeft
      <3>2. QED
        BY <1>1, <1>5, <1>6, <3>1
    <2>2. QED
      BY <1>1, <2>1 DEF MovesOn
  <1>7. QED
    BY <1>1, <1>2, <1>3, <1>4, <1>6 DEF Next, MovesOn

\* No two requests ever wait for each other: a COMMIT waits for readers that wait for
\* nobody, their number only falls, and every step brings its request nearer to its end.
THEOREM WaitsEnd == Spec => []ReadersMove /\ [][NoNewReader /\ MovesOn]_vars
  <1>1. Inv => ReadersMove
    BY DEF Inv, LocksSound, ReadersMove, InTx
  <1>2. QED
    BY <1>1, StepMovesOn, Inductive, PTL DEF Spec
-----------------------------------------------------------------------------
(* Joins and groups: what the SQL of the pages counts *)

\* The reactions to t with value v: what a count should be the number of.
Matching(t, v) == {x \in votes : x.target = t /\ x.value = v}

\* A user reacts to a target with a value at most once: the count is a number, and
\* never more than there are users.
LEMMA MatchingBounded ==
    ASSUME PagesTypeOK, NEW t, NEW v
    PROVE  /\ IsFiniteSet(Matching(t, v))
           /\ Cardinality(Matching(t, v)) \in 0..Cardinality(Users)
  <1> DEFINE S == Matching(t, v)
             who == [x \in S |-> x.user]
  <1>1. \A x, y \in S : x.user = y.user => x = y
    BY DEF PagesTypeOK, Matching
  <1>2. who \in Injection(S, Users)
    BY <1>1 DEF PagesTypeOK, Matching, Injection, IsInjective
  <1>3. IsFiniteSet(Users)
    BY ContentReadsAssumption
  <1>4. IsFiniteSet(S) /\ Cardinality(S) <= Cardinality(Users)
    BY <1>2, <1>3, FS_Injection
  <1>5. Cardinality(S) \in Nat /\ Cardinality(Users) \in Nat
    BY <1>3, <1>4, FS_CardinalityType
  <1>6. QED
    BY <1>4, <1>5

\* The row that a LEFT JOIN makes up for a target without reactions counts as none.
LEMMA NullUncounted ==
    ASSUME NEW t, NEW v \in VoteValues
    PROVE  /\ VotesOn(t) # {}
           /\ {x \in VotesOn(t) : x.value = v} = Matching(t, v)
  <1> DEFINE S == {x \in votes : x.target = t}
  <1>1. Matching(t, v) = {x \in S : x.value = v}
    BY DEF Matching
  <1>2. CASE S = {}
    <2>1. VotesOn(t) = {Null} /\ Matching(t, v) = {}
      BY <1>1, <1>2 DEF VotesOn, LeftJoin
    <2>2. Null.value # v
      BY DEF Null, VoteValues
    <2>3. QED
      BY <2>1, <2>2
  <1>3. CASE S # {}
    <2>1. VotesOn(t) = S
      BY <1>3 DEF VotesOn, LeftJoin
    <2>2. QED
      BY <1>1, <1>3, <2>1
  <1>4. QED
    BY <1>2, <1>3

\* Sets that two functions map to each other, one undoing the other, count the same.
LEMMA SameCount ==
    ASSUME NEW S, IsFiniteSet(S), NEW T, NEW f \in [S -> T], NEW g \in [T -> S],
           \A x \in S : g[f[x]] = x, \A y \in T : f[g[y]] = y
    PROVE  Cardinality(T) = Cardinality(S)
  <1>1. f \in Injection(S, T)
    BY DEF Injection, IsInjective
  <1>2. f \in Surjection(S, T)
    BY DEF Surjection
  <1>3. ExistsBijection(S, T)
    BY <1>1, <1>2 DEF ExistsBijection, Bijection
  <1>4. QED
    BY <1>3, FS_Bijection

\* A group of joined rows counts each reaction once, when the other side of the join
\* has one row for the post (or there is no other side).
LEMMA GroupCounts ==
    ASSUME PagesTypeOK, NEW t, NEW v \in VoteValues, NEW partner
    PROVE  Sum([partner : {partner}, vote : VotesOn(t)], v) = Cardinality(Matching(t, v))
  <1> DEFINE G == {j \in [partner : {partner}, vote : VotesOn(t)] : j.vote.value = v}
             row == [x \in Matching(t, v) |-> [partner |-> partner, vote |-> x]]
             vote == [j \in G |-> j.vote]
  <1>1. \A x \in Matching(t, v) : row[x] \in G /\ row[x].vote = x
    BY NullUncounted
  <1>2. \A j \in G : j.vote \in Matching(t, v) /\ row[j.vote] = j
    BY NullUncounted
  <1>3. Sum([partner : {partner}, vote : VotesOn(t)], v) = Cardinality(G)
    BY DEF Sum
  <1> HIDE DEF G
  <1>4. row \in [Matching(t, v) -> G] /\ vote \in [G -> Matching(t, v)]
    BY <1>1, <1>2
  <1>5. \A x \in Matching(t, v) : vote[row[x]] = x
    BY <1>1
  <1>6. \A j \in G : row[vote[j]] = j
    BY <1>2
  <1> HIDE DEF row, vote
  <1>7. QED
    BY <1>3, <1>4, <1>5, <1>6, MatchingBounded, SameCount

\* And so does a group of a comment's rows, which nothing else is joined with.
LEMMA GroupCountsReplies ==
    ASSUME PagesTypeOK, NEW t, NEW v \in VoteValues
    PROVE  Sum([vote : VotesOn(t)], v) = Cardinality(Matching(t, v))
  <1> DEFINE G == {j \in [vote : VotesOn(t)] : j.vote.value = v}
             row == [x \in Matching(t, v) |-> [vote |-> x]]
             vote == [j \in G |-> j.vote]
  <1>1. \A x \in Matching(t, v) : row[x] \in G /\ row[x].vote = x
    BY NullUncounted
  <1>2. \A j \in G : j.vote \in Matching(t, v) /\ row[j.vote] = j
    BY NullUncounted
  <1>3. Sum([vote : VotesOn(t)], v) = Cardinality(G)
    BY DEF Sum
  <1> HIDE DEF G
  <1>4. row \in [Matching(t, v) -> G] /\ vote \in [G -> Matching(t, v)]
    BY <1>1, <1>2
  <1>5. \A x \in Matching(t, v) : vote[row[x]] = x
    BY <1>1
  <1>6. \A j \in G : row[vote[j]] = j
    BY <1>2
  <1> HIDE DEF row, vote
  <1>7. QED
    BY <1>3, <1>4, <1>5, <1>6, MatchingBounded, SameCount

\* The table a filter joins has at most one row for a post, and has one for exactly
\* the posts that the service selects.
LEMMA PartnersSelect ==
    ASSUME PagesTypeOK, NEW q \in Queries, q.kind # "comment", NEW p \in posts
    PROVE  /\ \E x : Partners(q, p) \subseteq {x}
           /\ Partners(q, p) # {} <=> Service!Selected(q, Whole(p))
  <1>1. q.kind \in {"all", "category", "created", "liked", "detail"}
    BY DEF Queries
  <1>2. CASE q.kind = "all"
    BY <1>2 DEF Partners, Service!Selected
  <1>3. CASE q.kind = "category"
    <2>1. Partners(q, p) = {l \in links : l.post = p.id /\ l.category = q.arg}
      BY <1>3 DEF Partners
    <2>2. \A l, m \in Partners(q, p) : l = m
      BY <2>1 DEF PagesTypeOK
    <2>3. Service!Selected(q, Whole(p)) <=> \E l \in links : l.post = p.id /\ l.category = q.arg
      BY <1>3 DEF Service!Selected, Whole, CategoriesOf
    <2>4. QED
      BY <2>1, <2>2, <2>3
  <1>4. CASE q.kind = "created"
    BY <1>4 DEF Partners, Service!Selected, Whole
  <1>5. CASE q.kind = "liked"
    <2>1. Partners(q, p) = {x \in votes : x.target = p.id /\ x.user = q.user
                                           /\ x.value = "like"}
      BY <1>5 DEF Partners
    <2>2. \A x \in Partners(q, p) : x = [user |-> q.user, target |-> p.id, value |-> "like"]
      BY <2>1 DEF PagesTypeOK
    <2>3. Service!Selected(q, Whole(p))
             <=> [user |-> q.user, target |-> p.id, value |-> "like"] \in votes
      BY <1>5 DEF Service!Selected, Whole
    <2>4. QED
      BY <2>1, <2>2, <2>3
  <1>6. CASE q.kind = "detail"
    BY <1>6 DEF Partners, Service!Selected, Whole
  <1>7. QED
    BY <1>1, <1>2, <1>3, <1>4, <1>5, <1>6
\* The service counts as the pages do.
LEMMA ServiceCardinality == \A S : Service!Cardinality(S) = Cardinality(S)
  BY DEF Service!Cardinality, Cardinality

\* The service's count of a target's reactions is the number of them.
LEMMA CountMatching ==
    ASSUME NEW t, NEW v PROVE Service!Count(t, v) = Cardinality(Matching(t, v))
  BY ServiceCardinality DEF Matching, Service!Count

\* A filter's join keeps the posts that the service selects, and gives each the counts
\* that the service gives it.
LEMMA JoinSelects ==
    ASSUME PagesTypeOK, NEW q \in Queries, q.kind # "comment", NEW p \in posts
    PROVE  /\ Joined(q, p) # {} <=> Service!Selected(q, Whole(p))
           /\ Joined(q, p) # {} =>
                 \A v \in VoteValues : Sum(Joined(q, p), v) = Service!Count(p.id, v)
  <1>1. Joined(q, p) # {} <=> Partners(q, p) # {}
    <2>1. VotesOn(p.id) # {}
      BY NullUncounted DEF VoteValues
    <2>2. PICK y \in VotesOn(p.id) : TRUE
      BY <2>1
    <2>3. \A x \in Partners(q, p) : [partner |-> x, vote |-> y] \in Joined(q, p)
      BY <2>2 DEF Joined
    <2>4. \A j \in Joined(q, p) : j.partner \in Partners(q, p)
      BY DEF Joined
    <2>5. QED
      BY <2>3, <2>4
  <1>2. ASSUME Partners(q, p) # {}, NEW v \in VoteValues
        PROVE  Sum(Joined(q, p), v) = Service!Count(p.id, v)
    <2>1. PICK x : Partners(q, p) = {x}
      BY <1>2, PartnersSelect
    <2>2. Sum(Joined(q, p), v) = Cardinality(Matching(p.id, v))
      BY <2>1, GroupCounts DEF Joined
    <2>3. QED
      BY <2>2, CountMatching
  <1>3. QED
    BY <1>1, <1>2, PartnersSelect

\* A count of the service is a number of users.
LEMMA CountBounded ==
    ASSUME PagesTypeOK, NEW t, NEW v
    PROVE  Service!Count(t, v) \in 0..Cardinality(Users)
  BY MatchingBounded, CountMatching

\* One statement reads what one look at the posts shows.
LEMMA PostsSelected ==
    ASSUME PagesTypeOK, NEW q \in Queries, q.kind # "comment"
    PROVE  /\ SelectPosts(q) \in SUBSET Counted(posts)
           /\ {Dressed(i, links) : i \in SelectPosts(q)} = Service!Items(q)
  <1> DEFINE item(p) == [post |-> p, likes |-> Service!Count(p.id, "like"),
                                     dislikes |-> Service!Count(p.id, "dislike")]
             line(p) == [id |-> p.id, author |-> p.author, categories |-> CategoriesOf(p, links),
                         likes |-> Service!Count(p.id, "like"),
                         dislikes |-> Service!Count(p.id, "dislike")]
             found == {p \in posts : Service!Selected(q, Whole(p))}
  <1>1. SelectPosts(q) = {item(p) : p \in found}
    <2>1. found = {p \in posts : Joined(q, p) # {}}
      BY JoinSelects
    <2>2. \A p \in found : /\ Sum(Joined(q, p), "like") = Service!Count(p.id, "like")
                           /\ Sum(Joined(q, p), "dislike") = Service!Count(p.id, "dislike")
      BY JoinSelects DEF VoteValues
    <2> HIDE DEF found
    <2>3. QED
      BY <2>1, <2>2 DEF SelectPosts
  <1>2. \A p \in posts : item(p) \in Counted(posts)
    BY CountBounded DEF Counted
  <1>3. \A p \in posts : Dressed(item(p), links) = line(p)
    BY DEF Dressed
  <1>4. Service!Items(q) = {line(p) : p \in found}
    <2>1. Service!Items(q) =
            {[id |-> w.id, author |-> w.author, categories |-> w.categories,
              likes |-> Service!Count(w.id, "like"),
              dislikes |-> Service!Count(w.id, "dislike")] :
                w \in {w \in {Whole(p) : p \in posts} : Service!Selected(q, w)}}
      BY DEF Service!Items
    <2>2. {w \in {Whole(p) : p \in posts} : Service!Selected(q, w)} = {Whole(p) : p \in found}
      OBVIOUS
    <2>3. \A p \in posts : /\ Whole(p).id = p.id /\ Whole(p).author = p.author
                           /\ Whole(p).categories = CategoriesOf(p, links)
      BY DEF Whole
    <2>4. QED
      BY <2>1, <2>2, <2>3
  <1>5. {Dressed(i, links) : i \in SelectPosts(q)} = {Dressed(item(p), links) : p \in found}
    <2> HIDE DEF item, found
    <2> QED BY <1>1
  <1>6. QED
    <2> HIDE DEF item, line
    <2> QED BY <1>1, <1>2, <1>3, <1>4, <1>5

\* And so does the statement that reads a post's comments.
LEMMA CommentsSelected ==
    ASSUME PagesTypeOK, NEW q
    PROVE  /\ SelectComments(q) \in SUBSET Counted(comments)
           /\ {[id |-> c.post.id, likes |-> c.likes, dislikes |-> c.dislikes] :
                 c \in SelectComments(q)} = Service!Replies(q)
  <1> DEFINE item(c) == [post |-> c, likes |-> Service!Count(c.id, "like"),
                                     dislikes |-> Service!Count(c.id, "dislike")]
             found == {c \in comments : c.post = q.arg}
  <1>1. ASSUME NEW c \in comments, NEW v \in VoteValues
        PROVE  Sum([vote : VotesOn(c.id)], v) = Service!Count(c.id, v)
    BY GroupCountsReplies, CountMatching
  <1>2. SelectComments(q) = {item(c) : c \in found}
    <2>1. \A c \in found : /\ Sum([vote : VotesOn(c.id)], "like") = Service!Count(c.id, "like")
                           /\ Sum([vote : VotesOn(c.id)], "dislike")
                                = Service!Count(c.id, "dislike")
      BY <1>1 DEF VoteValues
    <2>2. QED
      BY <2>1 DEF SelectComments
  <1>3. \A c \in found : item(c) \in Counted(comments)
    BY CountBounded DEF Counted
  <1>4. {[id |-> c.post.id, likes |-> c.likes, dislikes |-> c.dislikes] :
            c \in {item(c) : c \in found}} = Service!Replies(q)
    <2>1. Service!Replies(q) = {[id |-> item(c).post.id, likes |-> item(c).likes,
                                 dislikes |-> item(c).dislikes] : c \in found}
      BY DEF Service!Replies
    <2> HIDE DEF item, found
    <2>2. QED
      BY <2>1
  <1>5. QED
    <2> HIDE DEF item, found
    <2> QED BY <1>2, <1>3, <1>4
-----------------------------------------------------------------------------
(* ContentReads: the types, and where each kind of request can be *)

\* A handler runs the statements of its own kind of request, and reads the posts of a
\* category only when the category exists.
StageSound ==
    \A r \in Requests :
       /\ stage[r] = "category" => query[r].kind = "category"
       /\ stage[r] = "posts" => /\ query[r].kind # "comment"
                                /\ query[r].kind = "category" => query[r].arg \in Categories
       /\ stage[r] = "comments" => query[r].kind = "detail"
       /\ stage[r] = "insert" => query[r].kind = "comment"

PagesInv == PagesTypeOK /\ StageSound

\* The query of an idle request is one of the queries.
LEMMA NoQueryType == NoQuery \in Queries
  BY DEF NoQuery, Queries

\* The invariant holds of an empty forum.
LEMMA PagesInvInit == PagesInit => PagesInv
  BY NoQueryType, ContentReadsAssumption
     DEF PagesInit, PagesInv, PagesTypeOK, StageSound, Posted, Votable, Statements

\* Each statement and each commit of others keeps the invariant.
LEMMA PagesInvStep == PagesInv /\ [PagesNext]_pageVars => PagesInv'
  <1> SUFFICES ASSUME PagesInv, [PagesNext]_pageVars PROVE PagesInv'
    OBVIOUS
  <1> USE ContentReadsAssumption DEF PagesInv, tables, request, GoTo
  <1>1. CASE PublishPost
    <2>1. PICK i \in Posts \ Posted, u \in Users, C \in (SUBSET Categories) \ {{}} :
             /\ posts' = posts \cup {[id |-> i, author |-> u]}
             /\ links' = links \cup {[post |-> i, category |-> c] : c \in C}
      BY <1>1 DEF PublishPost
    <2>2. UNCHANGED <<comments, votes, stage, query, items, cats, replies, voted>>
      BY <1>1 DEF PublishPost
    <2> DEFINE row == [id |-> i, author |-> u]
    <2>3. Posted' = Posted \cup {i}
      <3>1. row.id = i /\ posts' = posts \cup {row}
        BY <2>1
      <3> HIDE DEF row
      <3>2. QED
        BY <3>1 DEF Posted
    <2>4. Votable \subseteq Votable' /\ Counted(posts) \subseteq Counted(posts')
      BY <2>1, <2>2, <2>3 DEF Votable, Counted
    <2>5. PagesTypeOK'
      <3>1. posts' \subseteq [id : Posts, author : Users]
        BY <2>1 DEF PagesTypeOK
      <3>2. links' \subseteq [post : Posted', category : Categories]
        BY <2>1, <2>3 DEF PagesTypeOK
      <3>3. /\ comments' \subseteq [id : Comments, post : Posted']
            /\ votes' \subseteq [user : Users, target : Votable', value : VoteValues]
        BY <2>2, <2>3, <2>4 DEF PagesTypeOK
      <3>4. /\ items' \in [Requests -> SUBSET Counted(posts')]
            /\ cats' \in [Requests -> SUBSET links']
        BY <2>1, <2>2, <2>4 DEF PagesTypeOK
      <3>5. replies' \in [Requests -> SUBSET Counted(comments')]
        BY <2>2 DEF PagesTypeOK, Counted
      <3>6. QED
        BY <2>2, <3>1, <3>2, <3>3, <3>4, <3>5 DEF PagesTypeOK
    <2>6. QED
      BY <2>2, <2>5 DEF StageSound
  <1>2. ASSUME NEW p \in Posted, AddComment(p), UNCHANGED <<posts, links, votes, items, cats,
                                                      replies, voted>>
        PROVE  /\ comments' \subseteq [id : Comments, post : Posted]
               /\ votes' \subseteq [user : Users, target : Votable', value : VoteValues]
               /\ Counted(comments) \subseteq Counted(comments')
    BY <1>2 DEF AddComment, PagesTypeOK, Votable, Counted, Posted
  <1>3. CASE CommentOfOthers
    <2>1. Posted' = Posted
      BY <1>3 DEF CommentOfOthers, Posted
    <2>2. PagesTypeOK'
      BY <1>2, <1>3, <2>1 DEF CommentOfOthers, PagesTypeOK
    <2>3. QED
      BY <1>3, <2>2 DEF CommentOfOthers, StageSound
  <1>4. CASE React
    BY <1>4 DEF React, PagesTypeOK, StageSound, Posted, Votable
  <1>5. ASSUME NEW r \in Requests, Arrive(r) PROVE PagesInv'
    BY <1>5 DEF Arrive, FirstStatement, PagesTypeOK, StageSound, Posted, Votable, Statements, PageAnswers
  <1>6. ASSUME NEW r \in Requests, CategoryExists(r) PROVE PagesInv'
    BY <1>6 DEF CategoryExists, PagesTypeOK, StageSound, Posted, Votable, Statements, PageAnswers
  <1>7. ASSUME NEW r \in Requests, ReadPosts(r) PROVE PagesInv'
    <2>1. SelectPosts(query[r]) \in SUBSET Counted(posts)
      BY <1>7, PostsSelected DEF ReadPosts, StageSound, PagesTypeOK
    <2>2. QED
      BY <1>7, <2>1 DEF ReadPosts, PagesTypeOK, StageSound, Posted, Votable, Statements, PageAnswers
  <1>8. ASSUME NEW r \in Requests, ReadLinks(r) PROVE PagesInv'
    BY <1>8 DEF ReadLinks, PagesTypeOK, StageSound, Posted, Votable, Statements, PageAnswers
  <1>9. ASSUME NEW r \in Requests, ReadComments(r) PROVE PagesInv'
    BY <1>9, CommentsSelected DEF ReadComments, PagesTypeOK, StageSound, Posted, Votable, Statements, PageAnswers
  <1>10. ASSUME NEW r \in Requests, Render(r) PROVE PagesInv'
    BY <1>10 DEF Render, PagesTypeOK, StageSound, Posted, Votable, Statements, PageAnswers
  <1>11. ASSUME NEW r \in Requests, InsertComment(r) PROVE PagesInv'
    <2>1. Posted' = Posted
      BY <1>11 DEF InsertComment, Posted
    <2>2. CASE ParentExists(query[r])
      BY <1>2, <1>11, <2>1, <2>2
         DEF InsertComment, ParentExists, PagesTypeOK, StageSound, PageAnswers
    <2>3. CASE ~ParentExists(query[r])
      BY <1>11, <2>3 DEF InsertComment, PagesTypeOK, StageSound, Posted, Votable, PageAnswers
    <2>4. QED
      BY <2>2, <2>3
  <1>12. ASSUME NEW r \in Requests, FailPage(r) PROVE PagesInv'
    BY <1>12 DEF FailPage, PagesTypeOK, StageSound, Posted, Votable, PageAnswers
  <1>13. ASSUME NEW r \in Requests, Respond(r) PROVE PagesInv'
    BY <1>13, NoQueryType DEF Respond, PagesTypeOK, StageSound, Posted, Votable
  <1>14. CASE UNCHANGED pageVars
    BY <1>14 DEF pageVars, PagesTypeOK, StageSound, Posted, Votable
  <1>15. QED
    BY <1>1, <1>3, <1>4, <1>5, <1>6, <1>7, <1>8, <1>9, <1>10, <1>11, <1>12, <1>13, <1>14
       DEF PagesNext

\* Rows, queries and what a handler has scanned keep their types, and each handler
\* its place, in every behaviour.
THEOREM PagesInductive == PagesSpec => []PagesInv
  BY PagesInvInit, PagesInvStep, PTL DEF PagesSpec

\* Type correctness: a foreign key holds whatever is committed meanwhile, and no count
\* on a page exceeds the number of users.
THEOREM PagesTypeCorrect == PagesSpec => []PagesTypeOK
  BY PagesInductive, PTL DEF PagesInv
-----------------------------------------------------------------------------
(* Every step of the pages is a step of PageService, or none *)

\* What a request has been promised at each of its places.
LEMMA ViewAt ==
    \A r : /\ stage[r] = "idle" => View(r) = Service!Idle
           /\ stage[r] \in {"category", "posts", "insert"} =>
                 View(r) = [step |-> "asked", query |-> query[r]]
           /\ stage[r] = "links" => View(r) = Page("looked", r, links)
           /\ stage[r] = "comments" => View(r) = Page("looked", r, cats[r])
           /\ stage[r] = "render" =>
                 View(r) = IF query[r].kind = "detail" THEN PageWithReplies("read", r)
                                                       ELSE Page("looked", r, cats[r])
           /\ stage[r] = "shown" =>
                 View(r) = IF query[r].kind = "detail" THEN PageWithReplies("shown", r)
                                                       ELSE Page("shown", r, cats[r])
           /\ stage[r] \in PageAnswers \ {"shown"} =>
                 View(r) = [step |-> stage[r], query |-> query[r]]
  BY DEF View, Service!Idle, PageAnswers

\* And after a step.
LEMMA ViewAtNext == ViewAt'
  BY ViewAt, PTL

\* A step that leaves the links and the other requests alone moves one view.
LEMMA OneViewMoves ==
    ASSUME NEW r \in Requests, NEW rec, View(r)' = rec, links' = links,
           \A x \in Requests \ {r} : /\ stage'[x] = stage[x] /\ query'[x] = query[x]
                                     /\ items'[x] = items[x] /\ cats'[x] = cats[x]
                                     /\ replies'[x] = replies[x]
    PROVE  Service!Goto(r, rec)
  <1>1. ASSUME NEW x \in Requests, x # r PROVE View(x)' = View(x)
    <2>1. /\ stage'[x] = stage[x] /\ query'[x] = query[x] /\ items'[x] = items[x]
          /\ cats'[x] = cats[x] /\ replies'[x] = replies[x]
      BY <1>1
    <2>2. ASSUME NEW s PROVE /\ Page(s, x, links)' = Page(s, x, links)
                             /\ Page(s, x, cats[x])' = Page(s, x, cats[x])
      BY <2>1 DEF Page
    <2>3. ASSUME NEW s PROVE PageWithReplies(s, x)' = PageWithReplies(s, x)
      BY <2>1 DEF PageWithReplies
    <2>4. QED
      BY <2>1, <2>2, <2>3 DEF View
  <1>2. QED
    BY <1>1 DEF Service!Goto

\* Tables that are left alone are left alone for the service.
LEMMA TablesKept == UNCHANGED tables => UNCHANGED Service!content
  BY DEF tables, Service!content, Whole, CategoriesOf

\* The service knows the same targets, posts and queries.
LEMMA SameNames ==
    /\ Service!Targets = Votable
    /\ {w.id : w \in {Whole(p) : p \in posts}} = Posted
    /\ Service!Queries = Queries
    /\ Service!Values = VoteValues
  <1>1. \A p \in posts : Whole(p).id = p.id
    BY DEF Whole
  <1>2. {w.id : w \in {Whole(p) : p \in posts}} = Posted
    BY <1>1 DEF Posted
  <1>3. QED
    BY <1>2 DEF Service!Targets, Votable, Service!Queries, Queries, Service!Values, VoteValues
\* A post appears whole, to the service and to every request that has scanned others.
LEMMA PublishMaps == ASSUME PagesInv, PublishPost PROVE Service!Publish
  <1>1. PICK i \in Posts \ Posted, u \in Users, C \in (SUBSET Categories) \ {{}} :
           /\ posts' = posts \cup {[id |-> i, author |-> u]}
           /\ links' = links \cup {[post |-> i, category |-> c] : c \in C}
    BY DEF PublishPost
  <1>2. UNCHANGED <<comments, votes, stage, query, items, cats, replies>>
    BY DEF PublishPost, request
  <1>3. links \subseteq [post : Posted, category : Categories]
    BY DEF PagesInv, PagesTypeOK
  <1>4. \A p : p.id \in Posted => CategoriesOf(p, links') = CategoriesOf(p, links)
    <2>1. SUFFICES ASSUME NEW p, p.id \in Posted
                   PROVE  {l \in links' : l.post = p.id} = {l \in links : l.post = p.id}
      BY DEF CategoriesOf
    <2>2. \A c : [post |-> i, category |-> c].post # p.id
      BY <2>1
    <2>3. QED
      BY <1>1, <2>2
  <1>5. \A p \in posts : Whole(p)' = Whole(p)
    BY <1>4 DEF Whole, Posted
  <1> DEFINE row == [id |-> i, author |-> u]
  <1>6. CategoriesOf(row, links') = C
    <2> DEFINE new(c) == [post |-> i, category |-> c]
    <2>1. {l \in links' : l.post = i} = {new(c) : c \in C}
      BY <1>1, <1>3
    <2>2. CategoriesOf(row, links') = {l.category : l \in {new(c) : c \in C}}
      BY <2>1 DEF CategoriesOf
    <2>3. \A c \in C : new(c).category = c
      OBVIOUS
    <2> HIDE DEF new
    <2>4. {l.category : l \in {new(c) : c \in C}} = C
      BY <2>3
    <2>5. QED
      BY <2>2, <2>4
  <1>7. Whole(row)' = [id |-> i, author |-> u, categories |-> C]
    BY <1>6 DEF Whole
  <1>8. {Whole(p) : p \in posts}'
           = {Whole(p) : p \in posts} \cup {[id |-> i, author |-> u, categories |-> C]}
    BY <1>1, <1>5, <1>7
  <1>9. \A r \in Requests : View(r)' = View(r)
    <2> SUFFICES ASSUME NEW r \in Requests PROVE View(r)' = View(r)
      OBVIOUS
    <2>1. \A x \in items[r] : Dressed(x, links') = Dressed(x, links)
      BY <1>4 DEF Dressed, PagesInv, PagesTypeOK, Counted, Posted
    <2>2. ASSUME NEW s PROVE /\ Page(s, r, links)' = Page(s, r, links)
                             /\ Page(s, r, cats[r])' = Page(s, r, cats[r])
                             /\ PageWithReplies(s, r)' = PageWithReplies(s, r)
      BY <1>2, <2>1 DEF Page, PageWithReplies
    <2>3. QED
      BY <1>2, <2>2 DEF View
  <1>10. i \in Posts \ Service!Targets
    BY SameNames, ContentReadsAssumption DEF Votable, PagesInv, PagesTypeOK
  <1>11. QED
    BY <1>2, <1>8, <1>9, <1>10 DEF Service!Publish

\* What others comment and vote shows on no page that is already read.
LEMMA OthersMap ==
    ASSUME PagesInv
    PROVE  /\ CommentOfOthers => Service!CommentOfOthers
           /\ React => Service!Vote
  <1>1. ASSUME UNCHANGED <<posts, links, request>>
        PROVE  /\ UNCHANGED {Whole(p) : p \in posts}
               /\ UNCHANGED [r \in Requests |-> View(r)]
    BY <1>1 DEF request, Whole, CategoriesOf, View, Page, PageWithReplies, Dressed
  <1>2. ASSUME CommentOfOthers PROVE Service!CommentOfOthers
    <2>1. PICK p \in posts : AddComment(p.id)
      BY <1>2 DEF CommentOfOthers, Posted
    <2>2. Service!AddComment(Whole(p))
      BY <2>1, SameNames DEF AddComment, Service!AddComment, Whole
    <2>3. QED
      BY <1>1, <1>2, <2>2 DEF CommentOfOthers, Service!CommentOfOthers
  <1>3. ASSUME React PROVE Service!Vote
    <2>1. PICK u \in Users, t \in Votable, v \in VoteValues :
             LET mine == {x \in votes : x.user = u /\ x.target = t}
                 row  == [user |-> u, target |-> t, value |-> v]
             IN  votes' = (votes \ mine) \cup (IF row \in votes THEN {} ELSE {row})
      BY <1>3 DEF React
    <2>2. UNCHANGED <<posts, links, comments, request>>
      BY <1>3 DEF React
    <2>3. t \in Service!Targets /\ v \in Service!Values
      BY SameNames
    <2>4. QED
      BY <1>1, <2>1, <2>2, <2>3 DEF Service!Vote
  <1>4. QED
    BY <1>2, <1>3
\* A request is asked for once, and a guest who asks for what needs a user is refused.
LEMMA ArriveMaps == ASSUME PagesInv, NEW r \in Requests, Arrive(r) PROVE Service!Ask(r)
  <1>1. PICK q \in Queries :
           /\ query' = [query EXCEPT ![r] = q]
           /\ IF q.kind \in Guarded /\ q.user = Guest THEN GoTo(r, "denied")
              ELSE GoTo(r, FirstStatement(q))
    BY DEF Arrive
  <1>2. stage[r] = "idle" /\ UNCHANGED <<tables, links, items, cats, replies>>
    BY DEF Arrive, tables
  <1>3. r \in DOMAIN stage /\ r \in DOMAIN query
    BY DEF PagesInv, PagesTypeOK
  <1>4. query'[r] = q
    BY <1>1, <1>3
  <1>5. stage'[r] = IF q.kind \in Guarded /\ q.user = Guest THEN "denied" ELSE FirstStatement(q)
    BY <1>1, <1>3 DEF GoTo
  <1>6. q.kind \in Guarded <=> Service!Personal(q)
    BY DEF Guarded, Service!Personal
  <1>7. View(r)' = [step |-> IF Service!Personal(q) /\ q.user = Guest THEN "denied" ELSE "asked",
                    query |-> q]
    <2>1. CASE q.kind \in Guarded /\ q.user = Guest
      BY <1>4, <1>5, <1>6, <2>1, ViewAtNext DEF ViewAt, PageAnswers
    <2>2. CASE ~(q.kind \in Guarded /\ q.user = Guest)
      <3>1. stage'[r] \in {"category", "posts", "insert"}
        BY <1>5, <2>2 DEF FirstStatement
      <3>2. View(r)' = [step |-> "asked", query |-> q]
        BY <1>4, <3>1, ViewAtNext DEF ViewAt
      <3>3. QED
        BY <1>6, <2>2, <3>2
    <2>3. QED
      BY <2>1, <2>2
  <1>8. View(r) = Service!Idle
    BY <1>2, ViewAt
  <1>9. Service!Goto(r, [step |-> IF Service!Personal(q) /\ q.user = Guest THEN "denied"
                                  ELSE "asked", query |-> q])
    <2>1. \A x \in Requests \ {r} : stage'[x] = stage[x] /\ query'[x] = query[x]
      BY <1>1 DEF GoTo, PagesInv, PagesTypeOK
    <2>2. QED
      BY <1>2, <1>7, <2>1, OneViewMoves
  <1>10. QED
    BY <1>2, <1>8, <1>9, TablesKept, SameNames DEF Service!Ask
\* What a statement of request r leaves alone.
LEMMA StatementMoves ==
    ASSUME PagesInv, NEW r \in Requests, NEW place, GoTo(r, place),
           UNCHANGED <<links, query>>,
           \A x \in Requests \ {r} :
              items'[x] = items[x] /\ cats'[x] = cats[x] /\ replies'[x] = replies[x]
    PROVE  /\ stage'[r] = place /\ query'[r] = query[r]
           /\ \A rec : View(r)' = rec => Service!Goto(r, rec)
           /\ View(r)' = View(r) => UNCHANGED [x \in Requests |-> View(x)]
  <1>1. stage'[r] = place
    BY DEF GoTo, PagesInv, PagesTypeOK
  <1>2. \A x \in Requests \ {r} : stage'[x] = stage[x]
    BY DEF GoTo, PagesInv, PagesTypeOK
  <1>3. ASSUME NEW rec, View(r)' = rec PROVE Service!Goto(r, rec)
    BY <1>2, <1>3, OneViewMoves
  <1>4. ASSUME View(r)' = View(r) PROVE UNCHANGED [x \in Requests |-> View(x)]
    BY <1>3, <1>4 DEF Service!Goto
  <1>5. QED
    BY <1>1, <1>3, <1>4

\* The category is looked for before the look at the posts.
LEMMA CategoryExistsMaps ==
    ASSUME PagesInv, NEW r \in Requests, CategoryExists(r)
    PROVE  Service!Refuse(r) \/ UNCHANGED Service!vars
  <1>1. /\ stage[r] = "category" /\ query[r].kind = "category"
        /\ View(r) = [step |-> "asked", query |-> query[r]]
    BY ViewAt DEF CategoryExists, PagesInv, StageSound
  <1>2. UNCHANGED Service!content
    BY TablesKept DEF CategoryExists
  <1>3. CASE query[r].arg \in Categories
    <2>1. GoTo(r, "posts")
      BY <1>3 DEF CategoryExists
    <2>2. View(r)' = View(r)
      BY <1>1, <2>1, StatementMoves, ViewAtNext DEF ViewAt, CategoryExists, tables
    <2>3. QED
      BY <1>2, <2>1, <2>2, StatementMoves DEF CategoryExists, tables, Service!vars
  <1>4. CASE query[r].arg \notin Categories
    <2>1. GoTo(r, "missing")
      BY <1>4 DEF CategoryExists
    <2>2. View(r)' = [step |-> "missing", query |-> query[r]]
      BY <2>1, StatementMoves, ViewAtNext DEF ViewAt, PageAnswers, CategoryExists, tables
    <2>3. Service!Goto(r, [step |-> "missing", query |-> query[r]])
      BY <2>1, <2>2, StatementMoves DEF CategoryExists, tables
    <2>4. QED
      BY <1>1, <1>2, <1>4, <2>3 DEF Service!Refuse
  <1>5. QED
    BY <1>3, <1>4

\* One statement is the one look at the posts; a detail page's post may be missing.
LEMMA ReadPostsMaps ==
    ASSUME PagesInv, NEW r \in Requests, ReadPosts(r)
    PROVE  Service!Look(r) \/ Service!Refuse(r)
  <1> DEFINE q == query[r]
  <1>1. /\ stage[r] = "posts" /\ q \in Queries /\ q.kind # "comment"
        /\ q.kind = "category" => q.arg \in Categories
        /\ View(r) = [step |-> "asked", query |-> q]
    BY ViewAt DEF ReadPosts, PagesInv, StageSound, PagesTypeOK
  <1>2. UNCHANGED Service!content
    BY TablesKept DEF ReadPosts
  <1>3. {Dressed(i, links) : i \in SelectPosts(q)} = Service!Items(q)
    BY <1>1, PostsSelected DEF PagesInv
  <1>4. SelectPosts(q) # {} <=> Service!Items(q) # {}
    BY <1>3
  <1>5. CASE q.kind = "detail" /\ SelectPosts(q) = {}
    <2>1. GoTo(r, "missing") /\ UNCHANGED <<tables, query, items, cats, replies>>
      BY <1>5 DEF ReadPosts
    <2>2. View(r)' = [step |-> "missing", query |-> q]
      BY <2>1, StatementMoves, ViewAtNext DEF ViewAt, PageAnswers, tables
    <2>3. Service!Goto(r, [step |-> "missing", query |-> q])
      BY <2>1, <2>2, StatementMoves DEF tables
    <2>4. q.arg \notin {w.id : w \in {Whole(p) : p \in posts}}
      BY <1>4, <1>5 DEF Service!Items, Service!Selected
    <2>5. QED
      BY <1>1, <1>2, <1>5, <2>3, <2>4 DEF Service!Refuse
  <1>6. CASE ~(q.kind = "detail" /\ SelectPosts(q) = {})
    <2>1. /\ GoTo(r, "links") /\ items' = [items EXCEPT ![r] = SelectPosts(q)]
          /\ UNCHANGED <<tables, query, cats, replies>>
      BY <1>6 DEF ReadPosts
    <2>2. /\ items'[r] = SelectPosts(q)
          /\ \A x \in Requests \ {r} : items'[x] = items[x]
      BY <2>1 DEF PagesInv, PagesTypeOK
    <2>3. View(r)' = [step |-> "looked", query |-> q, items |-> Service!Items(q)]
      <3>1. View(r)' = Page("looked", r, links)'
        BY <2>1, <2>2, StatementMoves, ViewAtNext DEF ViewAt, tables
      <3>2. QED
        BY <1>3, <2>1, <2>2, <3>1 DEF Page, tables
    <2>4. Service!Goto(r, [step |-> "looked", query |-> q, items |-> Service!Items(q)])
      BY <2>1, <2>2, <2>3, StatementMoves DEF tables
    <2>5. QED
      BY <1>1, <1>2, <1>4, <1>6, <2>4 DEF Service!Look
  <1>7. QED
    BY <1>5, <1>6
\* The links read later are those the posts had at the look: a post's never change.
LEMMA ReadLinksMaps ==
    ASSUME PagesInv, NEW r \in Requests, ReadLinks(r) PROVE UNCHANGED Service!vars
  <1> DEFINE L == {l \in links : \E i \in items[r] : i.post.id = l.post}
             to == IF query[r].kind = "detail" THEN "comments" ELSE "render"
  <1>1. /\ stage[r] = "links" /\ View(r) = Page("looked", r, links)
        /\ GoTo(r, to) /\ cats' = [cats EXCEPT ![r] = L]
        /\ UNCHANGED <<tables, query, items, replies>>
    BY ViewAt DEF ReadLinks
  <1>2. cats'[r] = L /\ \A x \in Requests \ {r} : cats'[x] = cats[x]
    BY <1>1 DEF PagesInv, PagesTypeOK
  <1>3. stage'[r] = to /\ query'[r] = query[r]
    BY <1>1, <1>2, StatementMoves DEF tables
  <1>4. \A i \in items[r] : Dressed(i, L) = Dressed(i, links)
    <2>1. \A i \in items[r] : {l \in L : l.post = i.post.id} = {l \in links : l.post = i.post.id}
      OBVIOUS
    <2>2. QED
      BY <2>1 DEF Dressed, CategoriesOf
  <1>5. Page("looked", r, cats[r])' = Page("looked", r, links)
    <2>1. UNCHANGED <<items, query>>
      BY <1>1
    <2> HIDE DEF L
    <2>2. QED
      BY <1>2, <1>4, <2>1 DEF Page
  <1>6. View(r)' = Page("looked", r, cats[r])'
    BY <1>3, ViewAtNext DEF ViewAt
  <1>7. UNCHANGED [x \in Requests |-> View(x)]
    BY <1>1, <1>2, <1>5, <1>6, StatementMoves DEF tables
  <1>8. QED
    BY <1>1, <1>7, TablesKept DEF Service!vars

\* One later statement is the look at the comments.
LEMMA ReadCommentsMaps ==
    ASSUME PagesInv, NEW r \in Requests, ReadComments(r) PROVE Service!LookAtReplies(r)
  <1> DEFINE q == query[r]
             shown(c) == [id |-> c.post.id, likes |-> c.likes, dislikes |-> c.dislikes]
  <1>1. /\ stage[r] = "comments" /\ q.kind = "detail"
        /\ View(r) = Page("looked", r, cats[r])
        /\ GoTo(r, "render") /\ replies' = [replies EXCEPT ![r] = SelectComments(q)]
        /\ UNCHANGED <<tables, query, items, cats>>
    BY ViewAt DEF ReadComments, PagesInv, StageSound
  <1>2. replies'[r] = SelectComments(q) /\ \A x \in Requests \ {r} : replies'[x] = replies[x]
    BY <1>1 DEF PagesInv, PagesTypeOK
  <1>3. stage'[r] = "render" /\ query'[r] = q
    BY <1>1, <1>2, StatementMoves DEF tables
  <1>4. {shown(c) : c \in SelectComments(q)} = Service!Replies(q)
    BY CommentsSelected DEF PagesInv
  <1>5. View(r)' = [step |-> "read", query |-> q, items |-> View(r).items,
                    replies |-> Service!Replies(q)]
    <2>1. View(r)' = PageWithReplies("read", r)'
      BY <1>1, <1>3, ViewAtNext DEF ViewAt
    <2>2. View(r).items = {Dressed(i, cats[r]) : i \in items[r]}
      BY <1>1 DEF Page
    <2>3. PageWithReplies("read", r)' =
            [step |-> "read", query |-> query'[r], items |-> {Dressed(i, cats'[r]) : i \in items'[r]},
             replies |-> {shown(c) : c \in replies'[r]}]
      BY DEF PageWithReplies
    <2> HIDE DEF shown
    <2>4. QED
      BY <1>1, <1>2, <1>4, <2>1, <2>2, <2>3
  <1>6. Service!Goto(r, [step |-> "read", query |-> q, items |-> View(r).items,
                         replies |-> Service!Replies(q)])
    BY <1>1, <1>2, <1>5, StatementMoves DEF tables
  <1>7. View(r).step = "looked" /\ View(r).query = q
    BY <1>1 DEF Page
  <1>8. QED
    BY <1>1, <1>6, <1>7, TablesKept DEF Service!LookAtReplies

\* Showing a page changes its step only.
LEMMA ShownChangesStep ==
    ASSUME NEW s, NEW q, NEW I
    PROVE  /\ [step |-> "shown", query |-> q, items |-> I]
                 = [[step |-> s, query |-> q, items |-> I] EXCEPT !.step = "shown"]
           /\ \A C : [step |-> "shown", query |-> q, items |-> I, replies |-> C]
                       = [[step |-> s, query |-> q, items |-> I, replies |-> C]
                            EXCEPT !.step = "shown"]
  <1> DEFINE e == [step |-> s, query |-> q, items |-> I]
             f == [step |-> "shown", query |-> q, items |-> I]
             g(C) == [step |-> s, query |-> q, items |-> I, replies |-> C]
             h(C) == [step |-> "shown", query |-> q, items |-> I, replies |-> C]
  <1>1. /\ DOMAIN e = DOMAIN f /\ f = [x \in DOMAIN f |-> f[x]]
        /\ \A x \in DOMAIN f : f[x] = IF x = "step" THEN "shown" ELSE e[x]
    OBVIOUS
  <1>2. [e EXCEPT !.step = "shown"] = [x \in DOMAIN e |-> IF x = "step" THEN "shown" ELSE e[x]]
    OBVIOUS
  <1>3. ASSUME NEW C PROVE h(C) = [g(C) EXCEPT !.step = "shown"]
    <2> DEFINE gC == g(C)
               hC == h(C)
    <2>1. /\ DOMAIN gC = DOMAIN hC /\ hC = [x \in DOMAIN hC |-> hC[x]]
          /\ \A x \in DOMAIN hC : hC[x] = IF x = "step" THEN "shown" ELSE gC[x]
      OBVIOUS
    <2>2. [gC EXCEPT !.step = "shown"]
             = [x \in DOMAIN gC |-> IF x = "step" THEN "shown" ELSE gC[x]]
      OBVIOUS
    <2> HIDE DEF gC, hC
    <2>3. hC = [gC EXCEPT !.step = "shown"]
      BY <2>1, <2>2
    <2>4. QED
      BY <2>3 DEF gC, hC
  <1>4. f = [e EXCEPT !.step = "shown"]
    <2> HIDE DEF e, f
    <2>1. QED
      BY <1>1, <1>2
  <1>5. QED
    BY <1>3, <1>4

\* The template shows what was read.
LEMMA RenderMaps == ASSUME PagesInv, NEW r \in Requests, Render(r) PROVE Service!Show(r)
  <1>1. /\ stage[r] = "render" /\ GoTo(r, "shown")
        /\ UNCHANGED <<tables, query, items, cats, replies>>
    BY DEF Render
  <1>2. stage'[r] = "shown"
    BY <1>1, StatementMoves DEF tables
  <1>3. View(r)' = [View(r) EXCEPT !.step = "shown"]
    <2>1. CASE query[r].kind = "detail"
      <3>1. View(r) = PageWithReplies("read", r) /\ View(r)' = PageWithReplies("shown", r)'
        BY <1>1, <1>2, <2>1, ViewAt, ViewAtNext DEF ViewAt
      <3>2. PageWithReplies("shown", r)' = PageWithReplies("shown", r)
        BY <1>1 DEF PageWithReplies
      <3>3. PageWithReplies("shown", r) = [PageWithReplies("read", r) EXCEPT !.step = "shown"]
        <4> DEFINE I == {Dressed(i, cats[r]) : i \in items[r]}
                   C == {[id |-> c.post.id, likes |-> c.likes, dislikes |-> c.dislikes] :
                            c \in replies[r]}
        <4>1. \A s : PageWithReplies(s, r) = [step |-> s, query |-> query[r], items |-> I,
                                              replies |-> C]
          BY DEF PageWithReplies
        <4> HIDE DEF I, C
        <4>2. QED
          BY <4>1, ShownChangesStep
      <3>4. QED
        BY <3>1, <3>2, <3>3
    <2>2. CASE query[r].kind # "detail"
      <3>1. View(r) = Page("looked", r, cats[r]) /\ View(r)' = Page("shown", r, cats[r])'
        BY <1>1, <1>2, <2>2, ViewAt, ViewAtNext DEF ViewAt
      <3>2. Page("shown", r, cats[r])' = Page("shown", r, cats[r])
        BY <1>1 DEF Page
      <3>3. Page("shown", r, cats[r]) = [Page("looked", r, cats[r]) EXCEPT !.step = "shown"]
        <4> DEFINE I == {Dressed(i, cats[r]) : i \in items[r]}
                   before == [step |-> "looked", query |-> query[r], items |-> I]
                   after  == [step |-> "shown", query |-> query[r], items |-> I]
        <4>1. Page("looked", r, cats[r]) = before /\ Page("shown", r, cats[r]) = after
          BY DEF Page
        <4>2. after = [before EXCEPT !.step = "shown"]
          <5> HIDE DEF I
          <5>1. QED
            BY ShownChangesStep
        <4> HIDE DEF before, after
        <4>3. QED
          BY <4>1, <4>2
      <3>4. QED
        BY <3>1, <3>2, <3>3
    <2>3. QED
      BY <2>1, <2>2
  <1>4. \/ View(r).step = "looked" /\ View(r).query.kind # "detail"
        \/ View(r).step = "read"
    BY <1>1, ViewAt DEF Page, PageWithReplies
  <1>5. Service!Goto(r, [View(r) EXCEPT !.step = "shown"])
    BY <1>1, <1>3, StatementMoves DEF tables
  <1>6. QED
    BY <1>1, <1>4, <1>5, TablesKept DEF Service!Show
\* A comment is made once, under a post that exists, or is refused.
LEMMA InsertCommentMaps ==
    ASSUME PagesInv, NEW r \in Requests, InsertComment(r)
    PROVE  Service!Comment(r) \/ Service!Refuse(r)
  <1> DEFINE q == query[r]
  <1>1. /\ stage[r] = "insert" /\ q.kind = "comment"
        /\ View(r) = [step |-> "asked", query |-> q]
        /\ UNCHANGED <<posts, links, votes, query, items, cats, replies>>
    BY ViewAt DEF InsertComment, PagesInv, StageSound
  <1>2. UNCHANGED {Whole(p) : p \in posts}
    BY <1>1 DEF Whole, CategoriesOf
  <1>3. CASE ParentExists(q)
    <2>1. GoTo(r, "created") /\ AddComment(q.arg)
      BY <1>3 DEF InsertComment
    <2>2. View(r)' = [step |-> "created", query |-> q]
      BY <1>1, <2>1, StatementMoves, ViewAtNext DEF ViewAt, PageAnswers
    <2>3. Service!Goto(r, [step |-> "created", query |-> q])
      BY <1>1, <2>1, <2>2, StatementMoves
    <2>4. PICK p \in posts : p.id = q.arg
      BY <1>3 DEF ParentExists, Posted
    <2>5. Whole(p).id = q.arg /\ Service!AddComment(Whole(p))
      BY <2>1, <2>4, SameNames DEF AddComment, Service!AddComment, Whole
    <2>6. QED
      BY <1>1, <1>2, <2>3, <2>5 DEF Service!Comment
  <1>4. CASE ~ParentExists(q)
    <2>1. GoTo(r, "missing") /\ UNCHANGED comments
      BY <1>4 DEF InsertComment
    <2>2. View(r)' = [step |-> "missing", query |-> q]
      BY <1>1, <2>1, StatementMoves, ViewAtNext DEF ViewAt, PageAnswers
    <2>3. Service!Goto(r, [step |-> "missing", query |-> q])
      BY <1>1, <2>1, <2>2, StatementMoves
    <2>4. q.arg \notin {w.id : w \in {Whole(p) : p \in posts}}
      BY <1>4, SameNames DEF ParentExists
    <2>5. QED
      BY <1>1, <1>2, <2>1, <2>3, <2>4 DEF Service!Refuse, Service!content
  <1>5. QED
    BY <1>3, <1>4

\* An error at any statement shows nothing and has changed nothing.
LEMMA FailPageMaps == ASSUME PagesInv, NEW r \in Requests, FailPage(r) PROVE Service!Refuse(r)
  <1>1. /\ stage[r] \in Statements /\ GoTo(r, "error")
        /\ UNCHANGED <<tables, query, items, cats, replies>>
    BY DEF FailPage
  <1>2. View(r).step \in {"asked", "looked", "read"} /\ View(r).query = query[r]
    BY <1>1, ViewAt DEF Statements, Page, PageWithReplies
  <1>3. View(r)' = [step |-> "error", query |-> query[r]]
    BY <1>1, StatementMoves, ViewAtNext DEF ViewAt, PageAnswers, tables
  <1>4. Service!Goto(r, [step |-> "error", query |-> View(r).query])
    BY <1>1, <1>2, <1>3, StatementMoves DEF tables
  <1>5. QED
    BY <1>1, <1>2, <1>4, TablesKept DEF Service!Refuse

\* The answer ends the request.
LEMMA RespondMaps == ASSUME PagesInv, NEW r \in Requests, Respond(r) PROVE Service!End(r)
  <1>1. stage[r] \in PageAnswers /\ GoTo(r, "idle") /\ UNCHANGED tables
    BY DEF Respond
  <1>2. stage'[r] = "idle"
    BY <1>1 DEF GoTo, PagesInv, PagesTypeOK
  <1>3. View(r)' = Service!Idle
    BY <1>2, ViewAtNext DEF ViewAt
  <1>4. \A x \in Requests \ {r} : /\ stage'[x] = stage[x] /\ query'[x] = query[x]
                                  /\ items'[x] = items[x] /\ cats'[x] = cats[x]
                                  /\ replies'[x] = replies[x]
    BY DEF Respond, GoTo, PagesInv, PagesTypeOK
  <1>5. Service!Goto(r, Service!Idle)
    BY <1>1, <1>3, <1>4, OneViewMoves DEF tables
  <1>6. View(r).step \in Service!Answers
    BY <1>1, ViewAt DEF PageAnswers, Service!Answers, Page, PageWithReplies
  <1>7. QED
    BY <1>1, <1>5, <1>6, TablesKept DEF Service!End

\* Every step, together.
LEMMA PagesStepMaps == PagesInv /\ [PagesNext]_pageVars => [Service!Next]_Service!vars
  <1> SUFFICES ASSUME PagesInv, [PagesNext]_pageVars
               PROVE  Service!Next \/ UNCHANGED Service!vars
    OBVIOUS
  <1>1. CASE PublishPost
    BY <1>1, PublishMaps DEF Service!Next
  <1>2. CASE CommentOfOthers \/ React
    BY <1>2, OthersMap DEF Service!Next
  <1>3. ASSUME NEW r \in Requests, Arrive(r) PROVE Service!Next
    BY <1>3, ArriveMaps DEF Service!Next
  <1>4. ASSUME NEW r \in Requests, CategoryExists(r)
        PROVE  Service!Next \/ UNCHANGED Service!vars
    BY <1>4, CategoryExistsMaps DEF Service!Next
  <1>5. ASSUME NEW r \in Requests, ReadPosts(r) PROVE Service!Next
    BY <1>5, ReadPostsMaps DEF Service!Next
  <1>6. ASSUME NEW r \in Requests, ReadLinks(r) PROVE UNCHANGED Service!vars
    BY <1>6, ReadLinksMaps
  <1>7. ASSUME NEW r \in Requests, ReadComments(r) PROVE Service!Next
    BY <1>7, ReadCommentsMaps DEF Service!Next
  <1>8. ASSUME NEW r \in Requests, Render(r) PROVE Service!Next
    BY <1>8, RenderMaps DEF Service!Next
  <1>9. ASSUME NEW r \in Requests, InsertComment(r) PROVE Service!Next
    BY <1>9, InsertCommentMaps DEF Service!Next
  <1>10. ASSUME NEW r \in Requests, FailPage(r) PROVE Service!Next
    BY <1>10, FailPageMaps DEF Service!Next
  <1>11. ASSUME NEW r \in Requests, Respond(r) PROVE Service!Next
    BY <1>11, RespondMaps DEF Service!Next
  <1>12. CASE UNCHANGED pageVars
    <2>1. UNCHANGED <<tables, stage, query, items, cats, replies>>
      BY <1>12 DEF pageVars, request
    <2>2. \A r \in Requests : View(r)' = View(r)
      BY <2>1 DEF tables, View, Page, PageWithReplies, Dressed, CategoriesOf
    <2>3. QED
      BY <2>1, <2>2, TablesKept DEF Service!vars
  <1>13. QED
    BY <1>1, <1>2, <1>3, <1>4, <1>5, <1>6, <1>7, <1>8, <1>9, <1>10, <1>11, <1>12 DEF PagesNext

\* For any content and any number of requests, whatever is published, commented or
\* voted between two statements: a list shows the posts of one moment with their
\* categories and counts, each once, and a post's page the comments of a later one.
THEOREM PagesImplemented == PagesSpec => ImplementsPages
  <1>1. PagesInit => Service!Init
    <2>1. SUFFICES ASSUME PagesInit PROVE Service!Init
      OBVIOUS
    <2>2. \A r \in Requests : View(r) = Service!Idle
      BY <2>1, ViewAt DEF PagesInit
    <2>3. QED
      BY <2>1, <2>2 DEF PagesInit, Service!Init
  <1>2. QED
    BY <1>1, PagesStepMaps, PagesInductive, PTL DEF PagesSpec, ImplementsPages, Service!Spec
-----------------------------------------------------------------------------
(* What is shown *)

\* A user has at most one reaction to a target, whatever its value.
OneVote == \A x, y \in votes : x.user = y.user /\ x.target = y.target => x = y

\* An identifier names one post, and a post has a category.
RowsSound == /\ \A p, q \in posts : p.id = q.id => p = q
             /\ \A p \in posts : CategoriesOf(p, links) # {}

\* A list has a post once. The counts of an item or a comment are of different users.
\* From the second statement on, what is shown of a post's categories is all it has,
\* now as when it was listed, and it has one.
PageSound ==
    \A r \in Requests :
       /\ \A i, j \in items[r] : i.post.id = j.post.id => i = j
       /\ \A i \in items[r] \cup replies[r] : i.likes + i.dislikes <= Cardinality(Users)
       /\ stage[r] \in {"comments", "render", "shown"} =>
             \A i \in items[r] : /\ CategoriesOf(i.post, cats[r]) = CategoriesOf(i.post, links)
                                 /\ CategoriesOf(i.post, cats[r]) # {}

PageInv == PagesInv /\ OneVote /\ RowsSound /\ PageSound

\* Likes and dislikes of one target are of different users.
LEMMA UsersCountOnce ==
    ASSUME PagesTypeOK, OneVote, NEW t
    PROVE  Service!Count(t, "like") + Service!Count(t, "dislike") <= Cardinality(Users)
  <1> DEFINE L == Matching(t, "like")
             D == Matching(t, "dislike")
             who == [x \in L \cup D |-> x.user]
  <1>1. IsFiniteSet(L) /\ IsFiniteSet(D)
    BY MatchingBounded
  <1>2. L \cap D = {}
    BY DEF Matching
  <1>3. Cardinality(L \cup D) = Cardinality(L) + Cardinality(D)
    <2>1. Cardinality(L \cap D) = 0
      BY <1>2, FS_EmptySet
    <2>2. Cardinality(L) \in Nat /\ Cardinality(D) \in Nat
      BY <1>1, FS_CardinalityType
    <2> HIDE DEF L, D
    <2>3. Cardinality(L \cup D) = Cardinality(L) + Cardinality(D) - Cardinality(L \cap D)
      BY <1>1, FS_Union
    <2>4. QED
      BY <2>1, <2>2, <2>3
  <1>4. who \in Injection(L \cup D, Users)
    <2>1. \A x \in L \cup D : x \in votes /\ x.user \in Users /\ x.target = t
      BY DEF Matching, PagesTypeOK
    <2>2. \A x, y \in L \cup D : x.user = y.user => x = y
      BY <2>1 DEF OneVote
    <2> HIDE DEF L, D
    <2>3. QED
      BY <2>1, <2>2 DEF Injection, IsInjective
  <1>5. Cardinality(L \cup D) <= Cardinality(Users)
    <2> HIDE DEF L, D, who
    <2> QED BY <1>4, ContentReadsAssumption, FS_Injection
  <1>6. QED
    BY <1>3, <1>5, CountMatching

\* The statement that reads the posts lists each once, with counts of different users.
LEMMA PostsListedOnce ==
    ASSUME PagesTypeOK, OneVote, RowsSound, NEW q \in Queries, q.kind # "comment"
    PROVE  /\ \A i, j \in SelectPosts(q) : i.post.id = j.post.id => i = j
           /\ \A i \in SelectPosts(q) : i.likes + i.dislikes <= Cardinality(Users)
  <1>1. \A i \in SelectPosts(q) : /\ i.post \in posts
                                  /\ i = [post |-> i.post, likes |-> Sum(Joined(q, i.post), "like"),
                                          dislikes |-> Sum(Joined(q, i.post), "dislike")]
                                  /\ Joined(q, i.post) # {}
    BY DEF SelectPosts
  <1>2. \A i, j \in SelectPosts(q) : i.post.id = j.post.id => i = j
    BY <1>1 DEF RowsSound
  <1>3. ASSUME NEW i \in SelectPosts(q) PROVE i.likes + i.dislikes <= Cardinality(Users)
    <2>1. /\ i.likes = Service!Count(i.post.id, "like")
          /\ i.dislikes = Service!Count(i.post.id, "dislike")
      BY <1>1, JoinSelects DEF VoteValues
    <2>2. QED
      BY <2>1, UsersCountOnce
  <1>4. QED
    BY <1>2, <1>3

\* And so does the one that reads the comments.
LEMMA CommentsCountOnce ==
    ASSUME PagesTypeOK, OneVote, NEW q, NEW i \in SelectComments(q)
    PROVE  i.likes + i.dislikes <= Cardinality(Users)
  <1>1. PICK c \in comments : /\ i.likes = Sum([vote : VotesOn(c.id)], "like")
                              /\ i.dislikes = Sum([vote : VotesOn(c.id)], "dislike")
    BY DEF SelectComments
  <1>2. /\ i.likes = Service!Count(c.id, "like")
        /\ i.dislikes = Service!Count(c.id, "dislike")
    BY <1>1, GroupCountsReplies, CountMatching DEF VoteValues
  <1>3. QED
    BY <1>2, UsersCountOnce

\* A post's links are written with it and never after.
LEMMA LinksKept ==
    ASSUME PagesInv, [PagesNext]_pageVars, NEW p, p.id \in Posted
    PROVE  CategoriesOf(p, links') = CategoriesOf(p, links)
  <1>1. CASE PublishPost
    <2>1. PICK i \in Posts \ Posted, C \in SUBSET Categories :
             links' = links \cup {[post |-> i, category |-> c] : c \in C}
      BY <1>1 DEF PublishPost
    <2>2. \A c : [post |-> i, category |-> c].post # p.id
      BY <2>1
    <2>3. {l \in links' : l.post = p.id} = {l \in links : l.post = p.id}
      BY <2>1, <2>2
    <2>4. QED
      BY <2>3 DEF CategoriesOf
  <1>2. CASE ~PublishPost
    BY <1>2 DEF PagesNext, CommentOfOthers, React, Arrive, CategoryExists, ReadPosts, ReadLinks,
                ReadComments, Render, InsertComment, FailPage, Respond, tables, pageVars
  <1>3. QED
    BY <1>1, <1>2
\* A vote takes its user's earlier one away.
LEMMA OneVoteStep == ASSUME OneVote, [PagesNext]_pageVars PROVE OneVote'
  <1>1. CASE React
    BY <1>1 DEF React, OneVote
  <1>2. CASE ~React
    BY <1>2 DEF PagesNext, PublishPost, CommentOfOthers, Arrive, CategoryExists, ReadPosts,
                ReadLinks, ReadComments, Render, InsertComment, FailPage, Respond, tables,
                pageVars, OneVote
  <1>3. QED
    BY <1>1, <1>2

\* A post is published under an identifier of its own, with a category.
LEMMA RowsSoundStep == ASSUME PagesInv, RowsSound, [PagesNext]_pageVars PROVE RowsSound'
  <1>1. \A p \in posts : CategoriesOf(p, links') # {}
    BY LinksKept DEF RowsSound, Posted
  <1>2. CASE PublishPost
    <2>1. PICK i \in Posts \ Posted, u \in Users, C \in (SUBSET Categories) \ {{}} :
             /\ posts' = posts \cup {[id |-> i, author |-> u]}
             /\ links' = links \cup {[post |-> i, category |-> c] : c \in C}
      BY <1>2 DEF PublishPost
    <2> DEFINE row == [id |-> i, author |-> u]
    <2>2. row.id = i /\ \A p \in posts : p.id # i
      BY DEF Posted
    <2>3. PICK c \in C : TRUE
      OBVIOUS
    <2>4. [post |-> i, category |-> c] \in {l \in links' : l.post = row.id}
      BY <2>1
    <2>5. c \in CategoriesOf(row, links')
      BY <2>4 DEF CategoriesOf
    <2>6. posts' = posts \cup {row}
      BY <2>1
    <2> HIDE DEF row
    <2>7. QED
      BY <1>1, <2>2, <2>5, <2>6 DEF RowsSound
  <1>3. CASE ~PublishPost
    <2>1. UNCHANGED <<posts, links>>
      BY <1>3 DEF PagesNext, CommentOfOthers, React, Arrive, CategoryExists, ReadPosts,
                  ReadLinks, ReadComments, Render, InsertComment, FailPage, Respond, tables,
                  pageVars
    <2>2. QED
      BY <1>1, <2>1 DEF RowsSound
  <1>4. QED
    BY <1>2, <1>3

\* The items and comments that a request has are replaced by a whole reading or by none.
LEMMA ReadWhole ==
    ASSUME PagesInv, NEW r \in Requests, [PagesNext]_pageVars
    PROVE  /\ \/ items'[r] \in {items[r], {}}
              \/ stage[r] = "posts" /\ stage'[r] = "links" /\ items'[r] = SelectPosts(query[r])
           /\ replies'[r] \in {replies[r], {}, SelectComments(query[r])}
           /\ stage'[r] \in {"comments", "render", "shown"} =>
                 /\ items'[r] = items[r]
                 /\ \/ /\ stage[r] = "links"
                       /\ cats'[r] = {l \in links : \E i \in items[r] : i.post.id = l.post}
                    \/ stage[r] \in {"comments", "render", "shown"} /\ cats'[r] = cats[r]
  <1> USE DEF PagesInv, PagesTypeOK, GoTo, request, tables
  <1>1. CASE PublishPost \/ CommentOfOthers \/ React \/ UNCHANGED pageVars
    BY <1>1 DEF PublishPost, CommentOfOthers, React, pageVars
  <1>2. ASSUME NEW x \in Requests, Arrive(x) \/ CategoryExists(x) \/ FailPage(x) \/ Respond(x)
        PROVE  /\ items'[r] \in {items[r], {}} /\ replies'[r] \in {replies[r], {}}
               /\ stage'[r] \in {"comments", "render", "shown"} =>
                     /\ items'[r] = items[r] /\ cats'[r] = cats[r]
                     /\ stage[r] \in {"comments", "render", "shown"}
    BY <1>2 DEF Arrive, FirstStatement, CategoryExists, FailPage, Respond
  <1>3. ASSUME NEW x \in Requests, ReadPosts(x)
        PROVE  /\ \/ items'[r] = items[r]
                  \/ stage[r] = "posts" /\ stage'[r] = "links" /\ items'[r] = SelectPosts(query[r])
               /\ replies'[r] = replies[r]
               /\ stage'[r] \in {"comments", "render", "shown"} =>
                     /\ items'[r] = items[r] /\ cats'[r] = cats[r]
                     /\ stage[r] \in {"comments", "render", "shown"}
    BY <1>3 DEF ReadPosts
  <1>4. ASSUME NEW x \in Requests, ReadLinks(x) \/ ReadComments(x) \/ Render(x) \/ InsertComment(x)
        PROVE  /\ items'[r] = items[r]
               /\ replies'[r] \in {replies[r], SelectComments(query[r])}
               /\ stage'[r] \in {"comments", "render", "shown"} =>
                     \/ /\ stage[r] = "links"
                        /\ cats'[r] = {l \in links : \E i \in items[r] : i.post.id = l.post}
                     \/ stage[r] \in {"comments", "render", "shown"} /\ cats'[r] = cats[r]
    BY <1>4 DEF ReadLinks, ReadComments, Render, InsertComment
  <1>5. QED
    BY <1>1, <1>2, <1>3, <1>4 DEF PagesNext

\* Each step keeps what is shown sound: a link of a post that was scanned is never added.
LEMMA PageSoundStep == ASSUME PageInv, [PagesNext]_pageVars PROVE PageSound'
  <1>1. SUFFICES ASSUME NEW r \in Requests
                 PROVE  /\ \A i, j \in items'[r] : i.post.id = j.post.id => i = j
                        /\ \A i \in items'[r] \cup replies'[r] :
                              i.likes + i.dislikes <= Cardinality(Users)
                        /\ stage'[r] \in {"comments", "render", "shown"} =>
                              \A i \in items'[r] :
                                 /\ CategoriesOf(i.post, cats'[r]) = CategoriesOf(i.post, links')
                                 /\ CategoriesOf(i.post, cats'[r]) # {}
    BY DEF PageSound
  <1> USE DEF PageInv
  <1>2. query[r] \in Queries /\ stage[r] = "posts" => query[r].kind # "comment"
    BY DEF PagesInv, PagesTypeOK, StageSound
  <1>3. \A i, j \in items'[r] : i.post.id = j.post.id => i = j
    BY <1>2, ReadWhole, PostsListedOnce DEF PageSound, PagesInv, PagesTypeOK
  <1>4. \A i \in items'[r] \cup replies'[r] : i.likes + i.dislikes <= Cardinality(Users)
    <2>1. \A i \in items'[r] : i.likes + i.dislikes <= Cardinality(Users)
      BY <1>2, ReadWhole, PostsListedOnce DEF PageSound, PagesInv, PagesTypeOK
    <2>2. \A i \in replies'[r] : i.likes + i.dislikes <= Cardinality(Users)
      BY ReadWhole, CommentsCountOnce DEF PageSound, PagesInv
    <2>3. QED
      BY <2>1, <2>2
  <1>5. ASSUME stage'[r] \in {"comments", "render", "shown"}, NEW i \in items'[r]
        PROVE  /\ CategoriesOf(i.post, cats'[r]) = CategoriesOf(i.post, links')
               /\ CategoriesOf(i.post, cats'[r]) # {}
    <2>1. i \in items[r] /\ i.post \in posts /\ i.post.id \in Posted
      BY <1>5, ReadWhole DEF PagesInv, PagesTypeOK, Counted, Posted
    <2>2. CategoriesOf(i.post, links') = CategoriesOf(i.post, links)
      BY <2>1, LinksKept
    <2>3. CategoriesOf(i.post, cats'[r]) = CategoriesOf(i.post, links)
      <3>1. CASE stage[r] \in {"comments", "render", "shown"} /\ cats'[r] = cats[r]
        BY <2>1, <3>1 DEF PageSound
      <3>2. CASE cats'[r] = {l \in links : \E x \in items[r] : x.post.id = l.post}
        <4>1. {l \in cats'[r] : l.post = i.post.id} = {l \in links : l.post = i.post.id}
          BY <2>1, <3>2
        <4>2. QED
          BY <4>1 DEF CategoriesOf
      <3>3. QED
        BY <1>5, <3>1, <3>2, ReadWhole
    <2>4. QED
      BY <2>1, <2>2, <2>3 DEF RowsSound
  <1>6. QED
    BY <1>3, <1>4, <1>5

\* Whatever is published, commented or voted between the statements of a page: it has
\* each post once, with all its categories, and no user is counted twice.
THEOREM PagesSound == PagesSpec => [](OneVote /\ RowsSound /\ PageSound)
  <1>1. PagesInit => PageInv
    BY PagesInvInit DEF PagesInit, PageInv, OneVote, RowsSound, PageSound
  <1>2. PageInv /\ [PagesNext]_pageVars => PageInv'
    BY PagesInvStep, OneVoteStep, RowsSoundStep, PageSoundStep DEF PageInv
  <1>3. PageInv => OneVote /\ RowsSound /\ PageSound
    BY DEF PageInv
  <1>4. QED
    BY <1>1, <1>2, <1>3, PTL DEF PagesSpec
=============================================================================
