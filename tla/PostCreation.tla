---------------------------- MODULE PostCreation ----------------------------
(***************************************************************************)
(* POST /posts: the handler stores the picture first (a temporary file that  *)
(* is renamed into the upload directory), then validates the form and writes *)
(* the post and its category links in one SQLite transaction. The directory  *)
(* takes no part in that transaction: the handler removes the picture itself *)
(* when the post fails, and a crash removes nothing.                         *)
(***************************************************************************)
EXTENDS Naturals

CONSTANTS Requests,     \* requests in flight together
          Names,        \* generated file names (bounds the submissions)
          Categories,   \* rows of table categories
          CategoryIds,  \* identifiers a form may name
          None

ASSUME PostCreationAssumption == /\ None \notin Requests
                                 /\ Names # {}
                                 /\ Categories \subseteq CategoryIds

VARIABLES temp,       \* temporary files in the upload directory
          published,  \* pictures in the upload directory
          posts,      \* committed posts with their category links
          writer,     \* the request that holds SQLite's write lock
          linked,     \* the links its transaction has inserted
          taken,      \* names in use or used
          leaked,     \* history: files that a crash, a panic or a failed remove left
          pc,         \* request -> where its handler is
          form        \* request -> what it submitted

disk  == <<temp, published, leaked>>
store == <<posts, writer, linked>>
vars  == <<disk, store, taken, pc, form>>

\* A form: its name tells submissions apart and names its picture. A bad text is a
\* title, a body or a repeated category that ValidatePost refuses.
Forms == [name : Names, picture : {"absent", "good", "bad"},
          text : {"good", "bad"}, categories : SUBSET CategoryIds]

\* Rows: validated, and with categories that exist.
Posts == [name : Names, picture : {"absent", "good"},
          text : {"good"}, categories : SUBSET Categories]

NoForm == CHOOSE f \in Forms : TRUE

Saving  == {"open", "copy", "rename"}
InTx    == {"insert", "link"}
Answers == {"created", "refused"}

TypeOK == /\ temp \subseteq Names
          /\ published \subseteq Names
          /\ leaked \subseteq Names
          /\ posts \subseteq Posts
          /\ writer \in Requests \cup {None}
          /\ linked \subseteq CategoryIds
          /\ taken \subseteq Names
          /\ pc \in [Requests -> Saving \cup InTx \cup Answers
                                  \cup {"idle", "validate", "cleanup"}]
          /\ form \in [Requests -> Forms]

Init == /\ temp = {} /\ published = {} /\ leaked = {}
        /\ posts = {} /\ writer = None /\ linked = {}
        /\ taken = {}
        /\ pc = [r \in Requests |-> "idle"]
        /\ form = [r \in Requests |-> NoForm]

Goto(r, step) == pc' = [pc EXCEPT ![r] = step]

Name(r) == form[r].name

\* A file is removed, or is still there because the removal failed.
Remove(r, files) ==
    \/ files' = files \ {Name(r)} /\ UNCHANGED leaked
    \/ files' = files /\ leaked' = leaked \cup (files \cap {Name(r)})
-----------------------------------------------------------------------------
\* An authenticated form that could be parsed; the others have no effect.
Submit(r) ==
    /\ pc[r] = "idle"
    /\ \E f \in Forms :
          /\ f.name \notin taken
          /\ form' = [form EXCEPT ![r] = f]
          /\ taken' = taken \cup {f.name}
          /\ Goto(r, IF f.picture = "absent" THEN "validate" ELSE "open")
    /\ UNCHANGED <<disk, store>>
-----------------------------------------------------------------------------
(* Storage.Save *)

CreateTemp(r) ==
    /\ pc[r] = "open"
    /\ \/ temp' = temp \cup {Name(r)} /\ Goto(r, "copy")
       \/ UNCHANGED temp /\ Goto(r, "refused")
    /\ UNCHANGED <<published, leaked, store, taken, form>>

\* The picture is copied and its content checked.
CheckImage(r) ==
    /\ pc[r] = "copy"
    /\ form[r].picture = "good"
    /\ Goto(r, "rename")
    /\ UNCHANGED <<disk, store, taken, form>>

Rename(r) ==
    /\ pc[r] = "rename"
    /\ temp' = temp \ {Name(r)}
    /\ published' = published \cup {Name(r)}
    /\ Goto(r, "validate")
    /\ UNCHANGED <<leaked, store, taken, form>>

\* A bad picture, or an error of the file system: the deferred function removes
\* the temporary file, and nobody looks at its error.
SaveFail(r) ==
    /\ pc[r] \in {"copy", "rename"}
    /\ Remove(r, temp)
    /\ Goto(r, "refused")
    /\ UNCHANGED <<published, store, taken, form>>
-----------------------------------------------------------------------------
(* PostService.Create and PostRepository.Create *)

ValidPost(f) == f.text = "good" /\ f.categories # {}

ValidatePost(r) ==
    /\ pc[r] = "validate"
    /\ Goto(r, IF ValidPost(form[r]) THEN "insert" ELSE "cleanup")
    /\ UNCHANGED <<disk, store, taken, form>>

\* The first write takes the lock; the busy timeout is in TxFail.
InsertPost(r) ==
    /\ pc[r] = "insert"
    /\ writer = None
    /\ writer' = r
    /\ linked' = {}
    /\ Goto(r, "link")
    /\ UNCHANGED <<disk, posts, taken, form>>

\* Fault: foreign keys are off on this connection.
LinkUnchecked(r) ==
    /\ pc[r] = "link"
    /\ \E c \in form[r].categories \ linked : linked' = linked \cup {c}
    /\ UNCHANGED <<disk, posts, writer, taken, pc, form>>

\* One INSERT for each category; the foreign key admits existing ones only.
Link(r) ==
    /\ pc[r] = "link"
    /\ \E c \in form[r].categories \ linked :
          /\ c \in Categories
          /\ linked' = linked \cup {c}
    /\ UNCHANGED <<disk, posts, writer, taken, pc, form>>

\* Fault: the transaction ends after the first link.
SomeLinked(r) == linked # {}

AllLinked(r) == linked = form[r].categories

\* Fault: the removal of the picture is not called off by the commit.
CommitThenCleanup(r) ==
    /\ pc[r] = "link"
    /\ AllLinked(r)
    /\ posts' = posts \cup {[form[r] EXCEPT !.categories = linked]}
    /\ writer' = None /\ linked' = {}
    /\ Goto(r, "cleanup")
    /\ UNCHANGED <<disk, taken, form>>

Commit(r) ==
    /\ pc[r] = "link"
    /\ AllLinked(r)
    /\ posts' = posts \cup {[form[r] EXCEPT !.categories = linked]}
    /\ writer' = None /\ linked' = {}
    /\ Goto(r, "created")
    /\ UNCHANGED <<disk, taken, form>>

\* Fault: this error path forgets the picture.
TxFailForgets(r) ==
    /\ pc[r] \in InTx
    /\ \/ writer = r /\ writer' = None /\ linked' = {}
       \/ writer # r /\ UNCHANGED <<writer, linked>>
    /\ Goto(r, "refused")
    /\ UNCHANGED <<disk, posts, taken, form>>

\* The deferred Rollback; without a write there is nothing to undo.
Rollback(r) == \/ writer = r /\ writer' = None /\ linked' = {}
               \/ writer # r /\ UNCHANGED <<writer, linked>>

\* A statement fails (an unknown category, no lock in time, I/O) or the COMMIT
\* does: rolled back.
TxFail(r) ==
    /\ pc[r] \in InTx
    /\ Rollback(r)
    /\ Goto(r, "cleanup")
    /\ UNCHANGED <<disk, posts, taken, form>>

\* The handler removes the picture it had stored; a failure is only logged.
Cleanup(r) ==
    /\ pc[r] = "cleanup"
    /\ \/ form[r].picture = "absent" /\ UNCHANGED <<published, leaked>>
       \/ form[r].picture # "absent" /\ Remove(r, published)
    /\ Goto(r, "refused")
    /\ UNCHANGED <<temp, store, taken, form>>

\* The handler panics before its post is committed and Recovery answers 500. What is
\* deferred is done: Save removes the temporary file, the transaction is rolled back.
\* The removal of a stored picture is not deferred.
Panic(r) ==
    /\ pc[r] \in Saving \cup InTx \cup {"validate", "cleanup"}
    /\ temp' \in {temp \ {Name(r)}, temp}
    /\ leaked' = leaked \cup ({Name(r)} \cap (temp' \cup published))
    /\ Rollback(r)
    /\ Goto(r, "refused")
    /\ UNCHANGED <<published, posts, taken, form>>
-----------------------------------------------------------------------------
Reply(r) ==
    /\ pc[r] \in Answers
    /\ pc' = [pc EXCEPT ![r] = "idle"]
    /\ form' = [form EXCEPT ![r] = NoForm]
    /\ UNCHANGED <<disk, store, taken>>

\* Files of requests that were being served.
InFlight == {Name(r) : r \in {q \in Requests : pc[q] \notin {"idle", "created", "refused"}}}

\* The process dies: SQLite rolls back, the directory stays as it is.
Crash ==
    /\ leaked' = leaked \cup (InFlight \cap (temp \cup published))
    /\ writer' = None /\ linked' = {}
    /\ pc' = [r \in Requests |-> "idle"]
    /\ form' = [r \in Requests |-> NoForm]
    /\ UNCHANGED <<temp, published, posts, taken>>

Work(r) == \/ CreateTemp(r) \/ CheckImage(r) \/ Rename(r) \/ SaveFail(r)
           \/ ValidatePost(r) \/ InsertPost(r) \/ Link(r) \/ Commit(r)
           \/ TxFail(r) \/ Cleanup(r) \/ Panic(r) \/ Reply(r)

Next == \/ \E r \in Requests : Submit(r) \/ Work(r)
        \/ Crash

Spec == Init /\ [][Next]_vars
-----------------------------------------------------------------------------
(* Properties *)

\* A committed post never shows a picture that is not in the directory: the file
\* is published before the row, and no failed request removes another's.
PicturesPresent == \A p \in posts : p.picture # "absent" => p.name \in published

\* A file that belongs to no post and to no request in flight was left by a crash, by a
\* panic or by a removal that failed: no error path forgets its picture.
OrphansExplained ==
    temp \cup published \subseteq
        {p.name : p \in posts} \cup InFlight \cup leaked

\* A post has every category it was submitted with, exactly once, and only then is
\* it announced: whole posts or none.
Phase(r) == IF pc[r] \in Answers \cup {"idle"} THEN pc[r] ELSE "asked"

Promise == INSTANCE PostService WITH phase <- [r \in Requests |-> Phase(r)]

ImplementsService == Promise!Spec
=============================================================================
