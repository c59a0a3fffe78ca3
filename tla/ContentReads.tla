---------------------------- MODULE ContentReads ----------------------------
(***************************************************************************)
(* The pages that show content and the comment form: the home page with its  *)
(* filters, a post's page, and POST /posts/{id}/comments. A page is read in    *)
(* several SQL statements without a transaction, and whatever the other        *)
(* requests commit can come between them.                                    *)
(*                                                                          *)
(* A statement is one step: it reads one state of the tables, and database/sql *)
(* gives its lock back with the last row. The posts and votes of others are     *)
(* committed whole, which PostCreation and Reactions show. Texts, times, the    *)
(* order of rows and the rows of users are left out.                         *)
(***************************************************************************)
EXTENDS Forum, Naturals, FiniteSets

CONSTANTS Categories,   \* rows of table categories
          CategoryIds,  \* identifiers a query may name
          Guest,        \* the user of a request that has none
          MaxVotes      \* bound on the reactions of others

ASSUME ContentReadsAssumption == /\ Categories \subseteq CategoryIds
                                 /\ Guest \notin Users
                                 /\ Posts \cap Comments = {}
                                 /\ MaxVotes \in Nat
                                 /\ IsFiniteSet(Users)   \* the counts are numbers

VARIABLES posts,     \* rows [id, author]
          links,     \* rows [post, category]
          comments,  \* rows [id, post]
          votes,     \* rows [user, target, value] of both reaction tables
          stage,     \* request -> where its handler is
          query,     \* request -> user, filter and argument
          items,     \* request -> the posts it has scanned, without their categories
          cats,      \* request -> links it has scanned
          replies,   \* request -> the comments it has scanned
          voted      \* counts the reactions, for their bound

tables   == <<posts, links, comments, votes>>
request  == <<stage, query, items, cats, replies>>
pageVars == <<tables, request, voted>>

VoteValues  == {"like", "dislike"}
Statements  == {"category", "posts", "links", "comments", "insert", "render"}
PageAnswers == {"shown", "created", "denied", "missing", "error"}

Posted  == {p.id : p \in posts}
Votable == Posted \cup {c.id : c \in comments}

Queries == [kind : {"all"}, user : Users \cup {Guest}]
      \cup [kind : {"category"}, user : Users \cup {Guest}, arg : CategoryIds]
      \cup [kind : {"created", "liked"}, user : Users \cup {Guest}]
      \cup [kind : {"detail", "comment"}, user : Users \cup {Guest}, arg : Posts]

Counted(R) == [post : R, likes : 0..Cardinality(Users), dislikes : 0..Cardinality(Users)]

PagesTypeOK ==
    /\ posts \subseteq [id : Posts, author : Users]
    /\ links \subseteq [post : Posted, category : Categories]
    /\ comments \subseteq [id : Comments, post : Posted]
    /\ votes \subseteq [user : Users, target : Votable, value : VoteValues]
    /\ stage \in [Requests -> {"idle"} \cup Statements \cup PageAnswers]
    /\ query \in [Requests -> Queries]
    /\ items \in [Requests -> SUBSET Counted(posts)]
    /\ cats \in [Requests -> SUBSET links]
    /\ replies \in [Requests -> SUBSET Counted(comments)]
    /\ voted \in 0..MaxVotes

NoQuery == [kind |-> "all", user |-> Guest]

PagesInit ==
    /\ posts = {} /\ links = {} /\ comments = {} /\ votes = {}
    /\ stage = [r \in Requests |-> "idle"]
    /\ query = [r \in Requests |-> NoQuery]
    /\ items = [r \in Requests |-> {}]
    /\ cats = [r \in Requests |-> {}]
    /\ replies = [r \in Requests |-> {}]
    /\ voted = 0
-----------------------------------------------------------------------------
(* What other requests commit meanwhile *)

PublishPost ==
    /\ \E i \in Posts \ Posted, u \in Users, C \in (SUBSET Categories) \ {{}} :
          /\ posts' = posts \cup {[id |-> i, author |-> u]}
          /\ links' = links \cup {[post |-> i, category |-> c] : c \in C}
    /\ UNCHANGED <<comments, votes, request, voted>>

AddComment(p) ==
    \E i \in Comments \ Votable : comments' = comments \cup {[id |-> i, post |-> p]}

CommentOfOthers ==
    /\ \E p \in Posted : AddComment(p)
    /\ UNCHANGED <<posts, links, votes, request, voted>>

React ==
    /\ voted < MaxVotes /\ voted' = voted + 1
    /\ \E u \in Users, t \in Votable, v \in VoteValues :
          LET mine == {x \in votes : x.user = u /\ x.target = t}
              row  == [user |-> u, target |-> t, value |-> v]
          IN  votes' = (votes \ mine) \cup (IF row \in votes THEN {} ELSE {row})
    /\ UNCHANGED <<posts, links, comments, request>>
-----------------------------------------------------------------------------
(* SQL *)

\* Fault: an inner join with the reactions.
InnerJoin(S) == S

\* A LEFT JOIN keeps a row without a partner, once.
Null == [value |-> "null"]

LeftJoin(S) == IF S = {} THEN {Null} ELSE S

VotesOn(t) == LeftJoin({v \in votes : v.target = t})

\* COALESCE(SUM(CASE WHEN value = v THEN 1 ELSE 0 END), 0) over one group of rows.
Sum(rows, v) == Cardinality({j \in rows : j.vote.value = v})

\* The table a filter joins each post with: its row of post_categories for that
\* category, or the user's own like; no filter, or a WHERE on posts, joins nothing.
Partners(q, p) ==
    CASE q.kind = "category" -> {l \in links : l.post = p.id /\ l.category = q.arg}
      [] q.kind = "liked"    -> {v \in votes : v.target = p.id /\ v.user = q.user
                                                /\ v.value = "like"}
      [] q.kind = "created"  -> {Null : x \in {p.author} \cap {q.user}}
      [] q.kind = "detail"   -> {Null : x \in {p.id} \cap {q.arg}}
      [] OTHER               -> {Null}

Joined(q, p) == [partner : Partners(q, p), vote : VotesOn(p.id)]

\* GROUP BY p.id
SelectPosts(q) ==
    {[post |-> p, likes |-> Sum(Joined(q, p), "like"), dislikes |-> Sum(Joined(q, p), "dislike")] :
        p \in {p \in posts : Joined(q, p) # {}}}

SelectComments(q) ==
    LET rows(c) == [vote : VotesOn(c.id)]
    IN  {[post |-> c, likes |-> Sum(rows(c), "like"), dislikes |-> Sum(rows(c), "dislike")] :
            c \in {c \in comments : c.post = q.arg}}
-----------------------------------------------------------------------------
(* Handlers *)

GoTo(r, place) == stage' = [stage EXCEPT ![r] = place]

Guarded == {"created", "liked", "comment"}

\* The first statement of each view; personal views and the comment form ask for a
\* user, and a comment is validated before it reaches the database.
FirstStatement(q) ==
    CASE q.kind = "category" -> "category"
      [] q.kind = "comment"  -> "insert"
      [] OTHER               -> "posts"

Arrive(r) ==
    /\ stage[r] = "idle"
    /\ \E q \in Queries :
          /\ query' = [query EXCEPT ![r] = q]
          /\ IF q.kind \in Guarded /\ q.user = Guest THEN GoTo(r, "denied")
             ELSE GoTo(r, FirstStatement(q))
    /\ UNCHANGED <<tables, items, cats, replies, voted>>

\* ListByCategory: SELECT 1 FROM categories.
CategoryExists(r) ==
    /\ stage[r] = "category"
    /\ GoTo(r, IF query[r].arg \in Categories THEN "posts" ELSE "missing")
    /\ UNCHANGED <<tables, query, items, cats, replies, voted>>

\* The posts with their authors and counts. Detail has one row or none.
ReadPosts(r) ==
    /\ stage[r] = "posts"
    /\ IF query[r].kind = "detail" /\ SelectPosts(query[r]) = {}
       THEN GoTo(r, "missing") /\ UNCHANGED items
       ELSE GoTo(r, "links") /\ items' = [items EXCEPT ![r] = SelectPosts(query[r])]
    /\ UNCHANGED <<tables, query, cats, replies, voted>>

\* categoriesForPosts and categoriesForPost: the links of the posts scanned.
ReadLinks(r) ==
    /\ stage[r] = "links"
    /\ cats' = [cats EXCEPT ![r] = {l \in links : \E i \in items[r] : i.post.id = l.post}]
    /\ GoTo(r, IF query[r].kind = "detail" THEN "comments" ELSE "render")
    /\ UNCHANGED <<tables, query, items, replies, voted>>

ReadComments(r) ==
    /\ stage[r] = "comments"
    /\ replies' = [replies EXCEPT ![r] = SelectComments(query[r])]
    /\ GoTo(r, "render")
    /\ UNCHANGED <<tables, query, items, cats, voted>>

Render(r) ==
    /\ stage[r] = "render"
    /\ GoTo(r, "shown")
    /\ UNCHANGED <<tables, query, items, cats, replies, voted>>

\* Fault: the post is not looked for.
ParentAssumed(q) == TRUE

\* The foreign key on post_id.
ParentExists(q) == q.arg \in Posted

\* CommentRepository.Create: one INSERT, which is a transaction of its own.
InsertComment(r) ==
    /\ stage[r] = "insert"
    /\ IF ParentExists(query[r])
       THEN AddComment(query[r].arg) /\ GoTo(r, "created")
       ELSE GoTo(r, "missing") /\ UNCHANGED comments
    /\ UNCHANGED <<posts, links, votes, query, items, cats, replies, voted>>

\* Any statement, or the template, may fail, and what the request names or says may
\* not be valid: 500 or 400.
FailPage(r) ==
    /\ stage[r] \in Statements
    /\ GoTo(r, "error")
    /\ UNCHANGED <<tables, query, items, cats, replies, voted>>

Respond(r) ==
    /\ stage[r] \in PageAnswers
    /\ GoTo(r, "idle")
    /\ query' = [query EXCEPT ![r] = NoQuery]
    /\ items' = [items EXCEPT ![r] = {}]
    /\ cats' = [cats EXCEPT ![r] = {}]
    /\ replies' = [replies EXCEPT ![r] = {}]
    /\ UNCHANGED <<tables, voted>>

PagesNext ==
    \/ PublishPost \/ CommentOfOthers \/ React
    \/ \E r \in Requests :
          \/ Arrive(r) \/ CategoryExists(r) \/ ReadPosts(r)
          \/ ReadLinks(r) \/ ReadComments(r) \/ Render(r) \/ InsertComment(r)
          \/ FailPage(r) \/ Respond(r)

PagesSpec == PagesInit /\ [][PagesNext]_pageVars
-----------------------------------------------------------------------------
(* Properties *)

\* A post's categories out of the links L, and an item as the template gets it.
CategoriesOf(p, L) == {l.category : l \in {l \in L : l.post = p.id}}

Dressed(i, L) == [id |-> i.post.id, author |-> i.post.author,
                  categories |-> CategoriesOf(i.post, L),
                  likes |-> i.likes, dislikes |-> i.dislikes]

Page(step, r, L) == [step |-> step, query |-> query[r], items |-> {Dressed(i, L) : i \in items[r]}]

PageWithReplies(step, r) ==
    [step |-> step, query |-> query[r], items |-> {Dressed(i, cats[r]) : i \in items[r]},
     replies |-> {[id |-> c.post.id, likes |-> c.likes, dislikes |-> c.dislikes] : c \in replies[r]}]

\* What the service has promised request r so far: a list is complete when its posts
\* are read, although its categories are read later.
View(r) ==
    CASE stage[r] = "idle" -> [step |-> "idle"]
      [] stage[r] \in {"category", "posts", "insert"} -> [step |-> "asked", query |-> query[r]]
      [] stage[r] = "links" -> Page("looked", r, links)
      [] stage[r] \in {"comments", "render"} /\ ~(stage[r] = "render" /\ query[r].kind = "detail") ->
            Page("looked", r, cats[r])
      [] stage[r] = "render" /\ query[r].kind = "detail" -> PageWithReplies("read", r)
      [] stage[r] = "shown" /\ query[r].kind # "detail" -> Page("shown", r, cats[r])
      [] stage[r] = "shown" /\ query[r].kind = "detail" -> PageWithReplies("shown", r)
      [] OTHER -> [step |-> stage[r], query |-> query[r]]

\* A post's row and its links are one row to the service.
Whole(p) == [id |-> p.id, author |-> p.author, categories |-> CategoriesOf(p, links)]

Service == INSTANCE PageService WITH posts <- {Whole(p) : p \in posts},
                                     view <- [r \in Requests |-> View(r)]

\* Joins, groups and the statements that follow each other without a transaction
\* show what one look at the forum shows: no list mixes two moments, no post is
\* counted twice, missing or without its categories, whatever is committed meanwhile.
ImplementsPages == Service!Spec
=============================================================================
