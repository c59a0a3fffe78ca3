------------------------------ MODULE Migrations ------------------------------
(***************************************************************************)
(* Starting the forum on its database file: Open, Migrate with the five      *)
(* numbered files, and then serving. A database left by any earlier release  *)
(* may be found, starts overlap, any of them may fail or be killed anywhere, *)
(* and is repeated (restart: unless-stopped).                                *)
(*                                                                          *)
(* Rows are abstracted to the set of tables that have any.                   *)
(***************************************************************************)
EXTENDS Naturals

CONSTANTS Servers,      \* processes that are started on the file
          None,
          MaxExits      \* bound on failures and ends of processes

ASSUME MigrationsAssumption == None \notin Servers /\ MaxExits \in Nat

VARIABLES db,       \* the committed database
          writer,   \* the process that has the write lock
          draft,    \* the database as the writer sees it; db without a writer
          pc, next, \* process -> its place; the version it is at
          exits     \* ends of processes so far

vars == <<db, writer, draft, pc, next, exits>>

Last == 5     \* the highest numbered file

\* The version that makes a table (posts' image_path is a column of its own).
Since == [schema_migrations |-> 0, users |-> 1, sessions |-> 1,
          posts |-> 2, comments |-> 2, categories |-> 2, post_categories |-> 2,
          post_reactions |-> 2, comment_reactions |-> 2,
          oauth_accounts |-> 4, image_path |-> 5]
Tables == DOMAIN Since

\* Foreign keys, all ON DELETE CASCADE: the parents of a table.
Parents(t) ==
    CASE t = "post_categories"   -> {"posts", "categories"}
      [] t = "comments"          -> {"users", "posts"}
      [] t = "post_reactions"    -> {"users", "posts"}
      [] t = "comment_reactions" -> {"users", "comments"}
      [] t \in {"sessions", "posts", "oauth_accounts"} -> {"users"}
      [] OTHER                   -> {}

\* Tables that may have rows together: rows have their parents, posts a category.
Consistent(F) == /\ F \subseteq Tables \ {"schema_migrations", "image_path"}
                 /\ \A t \in F : Parents(t) \subseteq F
                 /\ "posts" \in F => "post_categories" \in F
Fillings == {F \in SUBSET Tables : Consistent(F)}

\* The smallest set with users that is closed under the cascade.
Cascade == {t \in Tables :
              \A S \in SUBSET Tables :
                 "users" \in S /\ (\A u \in Tables : Parents(u) \cap S # {} => u \in S) => t \in S}

Made(v) == {t \in Tables : Since[t] = v}
Schema(k) == {t \in Tables : Since[t] <= k}

Databases == [applied : SUBSET (1..Last), schema : SUBSET Tables, filled : Fillings]

\* What a release with the first k files has left; a file of length zero for k = 0.
Left(k, F) == [applied |-> 1..k, schema |-> IF k = 0 THEN {} ELSE Schema(k), filled |-> F]

TypeOK == /\ db \in Databases /\ draft \in Databases
          /\ writer \in Servers \cup {None}
          /\ pc \in [Servers -> {"down", "ensure", "check", "execute", "record", "commit",
                                 "serving"}]
          /\ next \in [Servers -> 1..(Last + 1)]
          /\ exits \in Nat
          /\ \A s \in Servers : writer = s <=> pc[s] \in {"record", "commit"}
          /\ writer = None => draft = db

Init == /\ \E k \in 0..Last, F \in Fillings :
              /\ F \subseteq Schema(k)
              /\ "categories" \in F <=> k >= 3
              /\ db = Left(k, F)
        /\ draft = db
        /\ writer = None
        /\ pc = [s \in Servers |-> "down"]
        /\ next = [s \in Servers |-> 1]
        /\ exits = 0

Goto(s, step) == pc' = [pc EXCEPT ![s] = step]
-----------------------------------------------------------------------------
(* Migrate *)

Start(s) == /\ pc[s] = "down"
            /\ Goto(s, "ensure")
            /\ UNCHANGED <<db, writer, draft, next, exits>>

\* ensureMigrationTable. Waits while another process writes.
Ensure(s) == /\ pc[s] = "ensure"
             /\ writer = None
             /\ db' = [db EXCEPT !.schema = @ \cup {"schema_migrations"}]
             /\ draft' = db'
             /\ Goto(s, "check")
             /\ next' = [next EXCEPT ![s] = 1]
             /\ UNCHANGED <<writer, exits>>

\* Fault: the last file is not looked at.
DoneEarly(v) == v >= Last

Done(v) == v > Last

\* migrationApplied reads what is committed, before the transaction begins.
Check(s) == /\ pc[s] = "check"
            /\ IF Done(next[s])
               THEN Goto(s, "serving") /\ UNCHANGED next
               ELSE IF next[s] \in db.applied
                    THEN next' = [next EXCEPT ![s] = @ + 1] /\ UNCHANGED pc
                    ELSE Goto(s, "execute") /\ UNCHANGED next
            /\ UNCHANGED <<db, writer, draft, exits>>

\* A file's statements succeed if what they make is not there and what they use is.
Needs == <<{}, {}, {"categories"}, {"users"}, {"posts"}>>
Executable(v, d) == /\ Made(v) \cap d.schema = {}
                    /\ Needs[v] \subseteq d.schema
                    /\ v = 3 => "categories" \notin d.filled     \* UNIQUE names

\* Fault: the users are not copied to the new table.
RowsAfterForgetting(v, F) == CASE v = 3 -> F \cup {"categories"}
                               [] v = 4 -> F \ Cascade
                               [] OTHER -> F

\* The seed of categories; and users, copied and renamed. The foreign keys stay on in
\* the transaction, whatever its PRAGMAs say, so that DROP TABLE cascades.
RowsAfter(v, F) == CASE v = 3 -> F \cup {"categories"}
                     [] v = 4 -> (F \ Cascade) \cup (F \cap {"users"})
                     [] OTHER -> F

Migrated(v, d) == [d EXCEPT !.schema = @ \cup Made(v), !.filled = RowsAfter(v, @)]

\* Fault: the statements run outside the transaction.
ExecuteOutside(s) == /\ pc[s] = "execute"
                     /\ writer = None
                     /\ Executable(next[s], db)
                     /\ db' = Migrated(next[s], db)
                     /\ draft' = db'
                     /\ writer' = s
                     /\ Goto(s, "record")
                     /\ UNCHANGED <<next, exits>>

Execute(s) == /\ pc[s] = "execute"
              /\ writer = None
              /\ Executable(next[s], db)
              /\ draft' = Migrated(next[s], db)
              /\ writer' = s
              /\ Goto(s, "record")
              /\ UNCHANGED <<db, next, exits>>

\* Fault: the failed migration is tried again, without a look at what is applied.
RefusedRetries(s) == UNCHANGED pc

\* Migrate, Run and the process end with the error.
Refused(s) == Goto(s, "down")

\* Another process has applied it since the check.
Refuse(s) == /\ pc[s] = "execute"
             /\ writer = None
             /\ ~Executable(next[s], db)
             /\ Refused(s)
             /\ UNCHANGED <<db, writer, draft, next, exits>>

Record(s) == /\ pc[s] = "record"
             /\ next[s] \notin draft.applied      \* PRIMARY KEY
             /\ draft' = [draft EXCEPT !.applied = @ \cup {next[s]}]
             /\ Goto(s, "commit")
             /\ UNCHANGED <<db, writer, next, exits>>

Commit(s) == /\ pc[s] = "commit"
             /\ db' = draft
             /\ writer' = None
             /\ Goto(s, "check")
             /\ next' = [next EXCEPT ![s] = @ + 1]
             /\ UNCHANGED <<draft, exits>>
-----------------------------------------------------------------------------
\* What the handlers do to the rows: logouts and toggles remove some.
Serve(s) == /\ pc[s] = "serving"
            /\ writer = None
            /\ \E F \in Fillings :
                  /\ db.filled \ {"sessions", "post_reactions", "comment_reactions"} \subseteq F
                  /\ F \subseteq db.schema
                  /\ "categories" \in F => "categories" \in db.filled
                  /\ db' = [db EXCEPT !.filled = F]
            /\ draft' = db'
            /\ UNCHANGED <<writer, pc, next, exits>>

\* Fault: the transaction is neither committed nor rolled back.
ReleaseForgotten(s) == UNCHANGED <<writer, draft>>

\* The deferred Rollback, or SQLite's when the process is gone.
Release(s) == IF writer = s THEN writer' = None /\ draft' = db
                            ELSE UNCHANGED <<writer, draft>>

\* An error, a timeout, a shutdown or a crash.
Exit(s) == /\ pc[s] # "down"
           /\ exits < MaxExits
           /\ exits' = exits + 1
           /\ Release(s)
           /\ Goto(s, "down")
           /\ UNCHANGED <<db, next>>

Step(s) == \/ Start(s) \/ Ensure(s) \/ Check(s)
           \/ Execute(s) \/ Refuse(s) \/ Record(s) \/ Commit(s)

Next == \E s \in Servers : Step(s) \/ Serve(s) \/ Exit(s)

Spec == Init /\ [][Next]_vars

\* A process that was started runs, and one that ended is started again.
FairSpec == Spec /\ \A s \in Servers : WF_vars(Step(s))
-----------------------------------------------------------------------------
(* Properties *)

\* The schema is that of the recorded versions, and these have no gap, whatever was
\* interrupted and whoever ran at the same time ("The schema change and its version
\* record are atomic", migrate.go).
SchemaRecorded == \E k \in 0..Last : /\ db.applied = 1..k
                                     /\ db.schema \cup {"schema_migrations"} = Schema(k)

\* Requests are served on the full schema only, with the seeded categories.
ServedComplete == \A s \in Servers : pc[s] = "serving" =>
                     db.applied = 1..Last /\ db.schema = Tables /\ "categories" \in db.filled

\* Accounts, sign-ins and categories survive every start.
AccountsKept == [][\A t \in {"users", "oauth_accounts", "categories"} :
                      t \in db.filled => t \in db'.filled]_vars

\* No start that is repeated often enough stays out: every process serves in the end.
AllServe == \A s \in Servers : <>[](pc[s] = "serving")

\* Starting a newer release takes no rows away: what migration 4 says with the PRAGMA at
\* its head ("PRAGMA foreign_keys = OFF", so that a rebuilt table keeps what refers to it).
RowsKept == [][(\A s \in Servers : pc[s] # "serving") => db.filled \subseteq db'.filled]_vars
=============================================================================
