------------------------- MODULE PostCreationProofs -------------------------
(***************************************************************************)
(* Theorems about module PostCreation, for any requests, names and         *)
(* categories.                                                             *)
(***************************************************************************)
EXTENDS PostCreation, TLAPS

Busy(r) == pc[r] # "idle"

\* Every submission has a name of its own.
NamesOwn ==
    /\ temp \cup published \subseteq taken
    /\ \A p \in posts : p.name \in taken
    /\ \A r \in Requests : Busy(r) =>
          /\ Name(r) \in taken
          /\ \A q \in Requests \ {r} : Busy(q) => Name(q) # Name(r)
          /\ pc[r] # "created" => \A p \in posts : p.name # Name(r)

\* Where the picture of a request is, by the place of its handler.
FilesSound == \A r \in Requests :
    /\ pc[r] \in Saving => form[r].picture # "absent" /\ Name(r) \notin published
    /\ pc[r] = "open" => Name(r) \notin temp
    /\ pc[r] = "rename" => form[r].picture = "good"
    /\ pc[r] \in InTx \cup {"validate", "cleanup"} =>
          /\ Name(r) \notin temp
          /\ form[r].picture = "absent" => Name(r) \notin published
    /\ pc[r] \in InTx \cup {"validate"} /\ form[r].picture # "absent" =>
          form[r].picture = "good" /\ Name(r) \in published

\* One transaction at a time, with links of its own form.
TxSound == \A r \in Requests :
    /\ pc[r] \in InTx => form[r].text = "good"
    /\ pc[r] = "link" <=> writer = r
    /\ pc[r] = "link" => linked \subseteq form[r].categories \cap Categories

Inv == /\ TypeOK /\ NamesOwn /\ FilesSound /\ TxSound
       /\ PicturesPresent /\ OrphansExplained
-----------------------------------------------------------------------------
\* The form of an idle request is one of the forms.
LEMMA NoFormType == NoForm \in Forms
  <1>1. PICK n \in Names : TRUE
    BY PostCreationAssumption
  <1>2. [name |-> n, picture |-> "absent", text |-> "bad", categories |-> {}] \in Forms
    BY DEF Forms
  <1>3. QED
    BY <1>2 DEF NoForm

\* The invariant holds of an empty directory and database.
LEMMA InvInit == Init => Inv
  BY NoFormType, PostCreationAssumption
     DEF Init, Inv, TypeOK, NamesOwn, FilesSound, TxSound, PicturesPresent,
         OrphansExplained, Busy, Saving, InTx

\* Each step of Storage.Save, of the transaction and of the handler keeps it.
LEMMA InvStep == Inv /\ [Next]_vars => Inv'
  <1> SUFFICES ASSUME Inv, [Next]_vars PROVE Inv'
    OBVIOUS
  <1> USE PostCreationAssumption DEF Inv, TypeOK, disk, store, Goto, Saving, InTx, Answers,
          Busy, Name, Forms, Posts
  <1>1. ASSUME NEW r \in Requests, Submit(r) PROVE Inv'
    BY <1>1 DEF Submit, NamesOwn, FilesSound, TxSound, PicturesPresent, OrphansExplained,
       InFlight
  <1>2. ASSUME NEW r \in Requests, CreateTemp(r) PROVE Inv'
    BY <1>2 DEF CreateTemp, NamesOwn, FilesSound, TxSound, PicturesPresent,
       OrphansExplained, InFlight
  <1>3. ASSUME NEW r \in Requests, CheckImage(r) PROVE Inv'
    BY <1>3 DEF CheckImage, NamesOwn, FilesSound, TxSound, PicturesPresent,
       OrphansExplained, InFlight
  <1>4. ASSUME NEW r \in Requests, Rename(r) PROVE Inv'
    BY <1>4 DEF Rename, NamesOwn, FilesSound, TxSound, PicturesPresent,
       OrphansExplained, InFlight
  <1>5. ASSUME NEW r \in Requests, SaveFail(r) PROVE Inv'
    BY <1>5 DEF SaveFail, Remove, NamesOwn, FilesSound, TxSound, PicturesPresent,
       OrphansExplained, InFlight
  <1>6. ASSUME NEW r \in Requests, ValidatePost(r) PROVE Inv'
    BY <1>6 DEF ValidatePost, ValidPost, NamesOwn, FilesSound, TxSound, PicturesPresent,
       OrphansExplained, InFlight
  <1>7. ASSUME NEW r \in Requests, InsertPost(r) PROVE Inv'
    BY <1>7 DEF InsertPost, NamesOwn, FilesSound, TxSound, PicturesPresent,
       OrphansExplained, InFlight
  <1>8. ASSUME NEW r \in Requests, Link(r) PROVE Inv'
    BY <1>8 DEF Link, NamesOwn, FilesSound, TxSound, PicturesPresent,
       OrphansExplained, InFlight
  <1>9. ASSUME NEW r \in Requests, Commit(r) PROVE Inv'
    BY <1>9 DEF Commit, AllLinked, NamesOwn, FilesSound, TxSound, PicturesPresent,
       OrphansExplained, InFlight
  <1>10. ASSUME NEW r \in Requests, TxFail(r) PROVE Inv'
    BY <1>10 DEF TxFail, Rollback, NamesOwn, FilesSound, TxSound, PicturesPresent,
       OrphansExplained, InFlight
  <1>11. ASSUME NEW r \in Requests, Cleanup(r) PROVE Inv'
    BY <1>11 DEF Cleanup, Remove, NamesOwn, FilesSound, TxSound, PicturesPresent,
       OrphansExplained, InFlight
  <1>12. ASSUME NEW r \in Requests, Panic(r) PROVE Inv'
    BY <1>12 DEF Panic, Rollback, NamesOwn, FilesSound, TxSound, PicturesPresent,
       OrphansExplained, InFlight
  <1>13. ASSUME NEW r \in Requests, Reply(r) PROVE Inv'
    BY <1>13, NoFormType DEF Reply, NamesOwn, FilesSound, TxSound, PicturesPresent,
       OrphansExplained, InFlight
  <1>14. CASE Crash
    BY <1>14, NoFormType DEF Crash, NamesOwn, FilesSound, TxSound, PicturesPresent,
       OrphansExplained, InFlight
  <1>15. CASE UNCHANGED vars
    BY <1>15 DEF vars, NamesOwn, FilesSound, TxSound, PicturesPresent,
       OrphansExplained, InFlight
  <1>16. QED
    BY <1>1, <1>2, <1>3, <1>4, <1>5, <1>6, <1>7, <1>8, <1>9, <1>10, <1>11, <1>12,
       <1>13, <1>14, <1>15 DEF Next, Work

\* The invariant of files, names and transaction holds in every behaviour.
THEOREM Inductive == Spec => []Inv
  BY InvInit, InvStep, PTL DEF Spec

\* Type correctness: every picture, draft and lock is where its request left it.
THEOREM TypeCorrect == Spec => []TypeOK
  BY Inductive, PTL DEF Inv

\* No committed post refers to a picture that is missing.
THEOREM PicturesKept == Spec => []PicturesPresent
  BY Inductive, PTL DEF Inv

\* Only crashes, panics and failed removals leave files behind.
THEOREM NoForgottenFile == Spec => []OrphansExplained
  BY Inductive, PTL DEF Inv
-----------------------------------------------------------------------------
(* Every step is a step of PostService, or none *)

\* Only the commit publishes a post; the other steps end, refuse or go unnoticed.
LEMMA StepMaps ==
    ASSUME Inv, [Next]_vars
    PROVE  Promise!Next \/ UNCHANGED Promise!vars
  <1> USE DEF Inv, TypeOK, store, Goto, Saving, InTx, Answers, Phase
  <1>1. ASSUME NEW r \in Requests, Submit(r) PROVE Promise!Ask(r)
    BY <1>1 DEF Submit, Promise!Ask
  <1>2. ASSUME NEW r \in Requests, CreateTemp(r)
        PROVE  Promise!Refuse(r) \/ UNCHANGED Promise!vars
    BY <1>2 DEF CreateTemp, Promise!Refuse, Promise!vars
  <1>3. ASSUME NEW r \in Requests, SaveFail(r) \/ Cleanup(r) \/ Panic(r)
        PROVE  Promise!Refuse(r)
    BY <1>3 DEF SaveFail, Cleanup, Panic, Promise!Refuse
  <1>4. ASSUME NEW r \in Requests,
               CheckImage(r) \/ Rename(r) \/ ValidatePost(r) \/ InsertPost(r) \/ Link(r)
               \/ TxFail(r)
        PROVE  UNCHANGED Promise!vars
    BY <1>4 DEF CheckImage, Rename, ValidatePost, InsertPost, Link, TxFail, Promise!vars
  <1>5. ASSUME NEW r \in Requests, Commit(r) PROVE Promise!Publish(r)
    <2>1. form[r] = [form[r] EXCEPT !.categories = linked]
      BY <1>5 DEF Commit, AllLinked, Forms
    <2>2. form[r] \notin posts
      BY <1>5 DEF Commit, NamesOwn, Busy, Name
    <2>3. QED
      BY <1>5, <2>1, <2>2 DEF Commit, Promise!Publish
  <1>6. ASSUME NEW r \in Requests, Reply(r) PROVE Promise!End({r})
    BY <1>6, NoFormType DEF Reply, Promise!End
  <1>7. CASE Crash
    <2>1. Promise!End(Requests)
      BY <1>7, NoFormType DEF Crash, Promise!End
    <2>2. QED
      BY <2>1 DEF Promise!Next
  <1>8. CASE UNCHANGED vars
    BY <1>8 DEF vars, Promise!vars
  <1>9. QED
    BY <1>1, <1>2, <1>3, <1>4, <1>5, <1>6, <1>7, <1>8 DEF Next, Work, Promise!Next

\* Whatever fails and whoever interleaves, a form becomes one whole post before it
\* is announced, or no post at all.
THEOREM ServiceImplemented == Spec => ImplementsService
  <1>1. Init => Promise!Init
    BY NoFormType DEF Init, Promise!Init, Phase, Answers
  <1>2. Inv /\ [Next]_vars => [Promise!Next]_Promise!vars
    BY StepMaps
  <1>3. QED
    BY <1>1, <1>2, Inductive, PTL DEF Spec, ImplementsService, Promise!Spec
-----------------------------------------------------------------------------
(* What the answers say is so *)

\* Posts are whole, each has a name and so a picture of its own.
PostsWhole ==
    /\ \A p \in posts : p.categories # {}
    /\ \A p \in posts, q \in posts : p.name = q.name => p = q
    /\ \A r \in Requests : pc[r] \in InTx => form[r].categories # {}
    /\ \A r \in Requests : pc[r] = "created" => form[r] \in posts

\* A request that is told of its post has it, with every category it asked for; one that
\* is refused has none, and no picture that a panic or a failed removal does not explain.
AnswersTrue ==
    \A r \in Requests :
       /\ pc[r] = "created" => form[r] \in posts /\ form[r].categories # {}
       /\ pc[r] = "refused" => /\ \A p \in posts : p.name # Name(r)
                               /\ Name(r) \in temp \cup published => Name(r) \in leaked

\* Each step keeps posts whole and takes none away.
LEMMA WholeStep ==
    ASSUME Inv, PostsWhole, [Next]_vars
    PROVE  PostsWhole' /\ posts \subseteq posts'
  <1> USE DEF Inv, TypeOK, store, Goto, PostsWhole, InTx
  <1>1. ASSUME NEW r \in Requests, Submit(r) PROVE PostsWhole' /\ posts' = posts
    BY <1>1 DEF Submit
  <1>2. ASSUME NEW r \in Requests,
               \/ CreateTemp(r) \/ CheckImage(r) \/ Rename(r) \/ SaveFail(r) \/ TxFail(r)
               \/ Cleanup(r) \/ Panic(r)
        PROVE  PostsWhole' /\ posts' = posts
    BY <1>2 DEF CreateTemp, CheckImage, Rename, SaveFail, TxFail, Cleanup, Panic
  <1>3. ASSUME NEW r \in Requests, ValidatePost(r) PROVE PostsWhole' /\ posts' = posts
    BY <1>3 DEF ValidatePost, ValidPost
  <1>4. ASSUME NEW r \in Requests, InsertPost(r) \/ Link(r) PROVE PostsWhole' /\ posts' = posts
    BY <1>4 DEF InsertPost, Link
  <1>5. ASSUME NEW r \in Requests, Commit(r) PROVE PostsWhole' /\ posts \subseteq posts'
    <2>1. form[r] = [form[r] EXCEPT !.categories = linked]
      BY <1>5 DEF Commit, AllLinked, Forms
    <2>2. PICK f \in Forms : f = form[r]
      OBVIOUS
    <2>3. /\ pc[r] = "link" /\ pc' = [pc EXCEPT ![r] = "created"] /\ form' = form
          /\ posts' = posts \cup {f} /\ f.categories # {}
      BY <1>5, <2>1, <2>2 DEF Commit
    <2>4. \A p \in posts : p.name # f.name
      BY <2>2, <2>3 DEF NamesOwn, Busy, Name
    <2>5. QED
      BY <2>2, <2>3, <2>4
  <1>6. ASSUME NEW r \in Requests, Reply(r) PROVE PostsWhole' /\ posts' = posts
    BY <1>6 DEF Reply
  <1>7. CASE Crash
    BY <1>7 DEF Crash
  <1>8. CASE UNCHANGED vars
    BY <1>8 DEF vars
  <1>9. QED
    BY <1>1, <1>2, <1>3, <1>4, <1>5, <1>6, <1>7, <1>8 DEF Next, Work

\* Answers are true and posts stay, whatever fails, overlaps or crashes.
THEOREM AnswersHold == Spec => []AnswersTrue /\ [][posts \subseteq posts']_vars
  <1>1. Init => PostsWhole
    BY DEF Init, PostsWhole, InTx
  <1>2. Inv /\ PostsWhole /\ [Next]_vars => PostsWhole' /\ [posts \subseteq posts']_vars
    BY WholeStep
  <1>3. ASSUME Inv, PostsWhole PROVE AnswersTrue
    <2> SUFFICES ASSUME NEW r \in Requests, pc[r] = "refused"
                 PROVE  /\ \A p \in posts : p.name # Name(r)
                        /\ Name(r) \in temp \cup published => Name(r) \in leaked
      BY <1>3 DEF AnswersTrue, PostsWhole
    <2>1. \A p \in posts : p.name # Name(r)
      BY <1>3 DEF Inv, NamesOwn, Busy
    <2>2. Name(r) \notin InFlight
      BY <1>3 DEF Inv, NamesOwn, Busy, InFlight
    <2>3. QED
      BY <1>3, <2>1, <2>2 DEF Inv, OrphansExplained
  <1>4. Inv /\ PostsWhole => AnswersTrue
    BY <1>3
  <1>5. QED
    BY <1>1, <1>2, <1>4, Inductive, PTL DEF Spec
=============================================================================
