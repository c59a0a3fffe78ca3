----------------------------- MODULE PageService -----------------------------
(***************************************************************************)
(* What the pages of the forum promise: a list shows the posts of one moment  *)
(* between its request and its answer, each with its categories and its       *)
(* reactions as they were then; a post's page shows the post as it was at one  *)
(* moment and its comments as they were at one later moment. A comment is     *)
(* made once, under a post that exists, or its author is told otherwise.      *)
(* ContentReads is shown to implement it.                                    *)
(***************************************************************************)
EXTENDS FiniteSets

CONSTANTS Users, Posts, Comments,
          Categories,   \* rows of table categories
          CategoryIds,  \* identifiers a query may name
          Guest,        \* the user of a request that has none
          Requests

VARIABLES posts,      \* rows [id, author, categories]
          comments,   \* rows [id, post]
          votes,      \* rows [user, target, value]
          view        \* request -> what it asked, what it has seen, and its answer

content == <<posts, comments, votes>>
vars    == <<content, view>>

Values  == {"like", "dislike"}
Targets == {p.id : p \in posts} \cup {c.id : c \in comments}

Queries == [kind : {"all"}, user : Users \cup {Guest}]
      \cup [kind : {"category"}, user : Users \cup {Guest}, arg : CategoryIds]
      \cup [kind : {"created", "liked"}, user : Users \cup {Guest}]
      \cup [kind : {"detail", "comment"}, user : Users \cup {Guest}, arg : Posts]

Personal(q) == q.kind \in {"created", "liked", "comment"}

\* Reactions are counted by target and value, each user's once.
Count(t, v) == Cardinality({x \in votes : x.target = t /\ x.value = v})

Selected(q, p) ==
    \/ q.kind = "all"
    \/ q.kind = "category" /\ q.arg \in p.categories
    \/ q.kind = "created" /\ p.author = q.user
    \/ q.kind = "liked" /\ [user |-> q.user, target |-> p.id, value |-> "like"] \in votes
    \/ q.kind = "detail" /\ p.id = q.arg

Items(q) == {[id |-> p.id, author |-> p.author, categories |-> p.categories,
              likes |-> Count(p.id, "like"), dislikes |-> Count(p.id, "dislike")] :
                p \in {p \in posts : Selected(q, p)}}

Replies(q) == {[id |-> c.id, likes |-> Count(c.id, "like"), dislikes |-> Count(c.id, "dislike")] :
                  c \in {c \in comments : c.post = q.arg}}

Idle == [step |-> "idle"]

Init == posts = {} /\ comments = {} /\ votes = {} /\ view = [r \in Requests |-> Idle]

\* A post appears whole, with at least one category.
Publish == /\ \E i \in Posts \ Targets, u \in Users, C \in (SUBSET Categories) \ {{}} :
                 posts' = posts \cup {[id |-> i, author |-> u, categories |-> C]}
           /\ UNCHANGED <<comments, votes, view>>

\* A user has at most one reaction to a target.
Vote == /\ \E u \in Users, t \in Targets, v \in Values :
              LET mine == {x \in votes : x.user = u /\ x.target = t}
                  row  == [user |-> u, target |-> t, value |-> v]
              IN  votes' = (votes \ mine) \cup (IF row \in votes THEN {} ELSE {row})
        /\ UNCHANGED <<posts, comments, view>>

AddComment(p) == \E i \in Comments \ Targets :
                    comments' = comments \cup {[id |-> i, post |-> p.id]}

CommentOfOthers == (\E p \in posts : AddComment(p)) /\ UNCHANGED <<posts, votes, view>>

Goto(r, rec) == view' = [view EXCEPT ![r] = rec]

\* A guest who asks for a page of a user's own, or comments, is turned away: 401.
Ask(r) == /\ view[r] = Idle
          /\ \E q \in Queries :
                Goto(r, [step |-> IF Personal(q) /\ q.user = Guest THEN "denied" ELSE "asked",
                         query |-> q])
          /\ UNCHANGED content

\* The one look at the posts,
Look(r) == /\ view[r].step = "asked" /\ view[r].query.kind # "comment"
           /\ view[r].query.kind = "category" => view[r].query.arg \in Categories
           /\ view[r].query.kind = "detail" => Items(view[r].query) # {}
           /\ Goto(r, [step |-> "looked", query |-> view[r].query, items |-> Items(view[r].query)])
           /\ UNCHANGED content

\* and on a post's page the later one at its comments.
LookAtReplies(r) ==
    /\ view[r].step = "looked" /\ view[r].query.kind = "detail"
    /\ Goto(r, [step |-> "read", query |-> view[r].query, items |-> view[r].items,
                replies |-> Replies(view[r].query)])
    /\ UNCHANGED content

Show(r) ==
    /\ \/ view[r].step = "looked" /\ view[r].query.kind # "detail"
       \/ view[r].step = "read"
    /\ Goto(r, [view[r] EXCEPT !.step = "shown"])
    /\ UNCHANGED content

Comment(r) ==
    /\ view[r].step = "asked" /\ view[r].query.kind = "comment"
    /\ \E p \in posts : p.id = view[r].query.arg /\ AddComment(p)
    /\ Goto(r, [step |-> "created", query |-> view[r].query])
    /\ UNCHANGED <<posts, votes>>

\* 404 for what does not exist, or an error at any time: no answer but "created"
\* has changed anything.
Refuse(r) ==
    /\ view[r].step \in {"asked", "looked", "read"}
    /\ \/ /\ \/ view[r].query.kind = "category" /\ view[r].query.arg \notin Categories
             \/ view[r].query.kind \in {"detail", "comment"}
                   /\ view[r].query.arg \notin {p.id : p \in posts}
          /\ Goto(r, [step |-> "missing", query |-> view[r].query])
       \/ Goto(r, [step |-> "error", query |-> view[r].query])
    /\ UNCHANGED content

Answers == {"shown", "created", "denied", "missing", "error"}

End(r) == /\ view[r].step \in Answers
          /\ Goto(r, Idle)
          /\ UNCHANGED content

Next == \/ Publish \/ CommentOfOthers \/ Vote
        \/ \E r \in Requests : \/ Ask(r) \/ Look(r) \/ LookAtReplies(r) \/ Show(r)
                               \/ Comment(r) \/ Refuse(r) \/ End(r)

Spec == Init /\ [][Next]_vars
=============================================================================
