--------------------------- MODULE MigrationsProofs ---------------------------
(***************************************************************************)
(* Proofs about Migrations, for any number of processes that start on the    *)
(* file: types, the schema is that of the recorded versions, only a complete *)
(* one is served, and accounts survive.                                      *)
(***************************************************************************)
EXTENDS Migrations, TLAPS

\* The committed schema, and the seed, are those of the first k files.
AtVersion(k) == /\ db.applied = 1..k
                /\ db.schema \cup {"schema_migrations"} = Schema(k)
                /\ "categories" \in db.filled <=> k >= 3

\* What a process has found applied stays applied; it is next to the rest.
Progress == \A s \in Servers :
               /\ pc[s] \in {"check", "execute", "record", "commit", "serving"} =>
                     /\ 1..(next[s] - 1) \subseteq db.applied
                     /\ "schema_migrations" \in db.schema
               /\ pc[s] \in {"execute", "record", "commit"} => next[s] <= Last
               /\ pc[s] = "serving" => next[s] = Last + 1

\* The draft is one migration ahead, recorded or not yet.
Drafted == \A s \in Servers :
              /\ pc[s] \in {"record", "commit"} => Executable(next[s], db)
              /\ pc[s] = "record" => draft = Migrated(next[s], db)
              /\ pc[s] = "commit" =>
                    draft = [Migrated(next[s], db) EXCEPT !.applied = @ \cup {next[s]}]

Inv == /\ TypeOK
       /\ \E k \in 0..Last : AtVersion(k)
       /\ db.filled \subseteq db.schema
       /\ Progress
       /\ Drafted

\* The tables by name.
LEMMA TablesNamed ==
    /\ Tables = {"schema_migrations", "users", "sessions", "posts", "comments", "categories",
                 "post_categories", "post_reactions", "comment_reactions", "oauth_accounts",
                 "image_path"}
    /\ \A t \in Tables : Since[t] \in 0..Last
  BY DEF Tables, Since, Last

\* Dropping users empties every table but the categories.
LEMMA CascadeNamed == Cascade = Tables \ {"schema_migrations", "categories", "image_path"}
  <1> DEFINE Closed(S) == \A u \in Tables : Parents(u) \cap S # {} => u \in S
             D == Tables \ {"schema_migrations", "categories", "image_path"}
  <1>1. ASSUME NEW S \in SUBSET Tables, "users" \in S, Closed(S) PROVE D \subseteq S
    <2>1. "sessions" \in S /\ "posts" \in S /\ "oauth_accounts" \in S /\ "comments" \in S
          /\ "post_reactions" \in S
      BY <1>1, TablesNamed DEF Parents
    <2>2. "comment_reactions" \in S /\ "post_categories" \in S
      BY <1>1, <2>1, TablesNamed DEF Parents
    <2>3. QED
      BY <1>1, <2>1, <2>2, TablesNamed
  <1>2. D \in SUBSET Tables /\ "users" \in D
    BY TablesNamed
  <1>3. Closed(D)
    BY TablesNamed DEF Parents
  <1>4. ASSUME NEW t \in Tables, t \in D PROVE t \in Cascade
    <2>1. SUFFICES ASSUME NEW S \in SUBSET Tables, "users" \in S, Closed(S) PROVE t \in S
      BY DEF Cascade
    <2>2. QED
      BY <1>1, <1>4, <2>1
  <1>5. ASSUME NEW t \in Cascade PROVE t \in D
    <2>1. "users" \in D /\ Closed(D) => t \in D
      BY <1>2, <1>5 DEF Cascade
    <2>2. QED
      BY <1>2, <1>3, <2>1
  <1>6. D \subseteq Tables /\ Cascade \subseteq Tables
    BY DEF Cascade
  <1> HIDE DEF D
  <1>7. Cascade = D
    BY <1>4, <1>5, <1>6
  <1>8. QED
    BY <1>7 DEF D

\* A migration leaves sets of filled tables that can be.
LEMMA RowsAfterConsistent ==
    ASSUME NEW v \in 1..Last, NEW F \in Fillings
    PROVE  RowsAfter(v, F) \in Fillings
  <1> DEFINE G == RowsAfter(v, F)
  <1>1. F \subseteq Tables /\ Consistent(F)
    BY DEF Fillings
  <1>2. CASE v = 3
    <2>1. G = F \cup {"categories"}
      BY <1>2 DEF RowsAfter
    <2>2. Parents("categories") = {}
      BY DEF Parents
    <2>3. Consistent(G)
      BY <1>1, <2>1, <2>2, TablesNamed DEF Consistent
    <2>4. QED
      BY <1>1, <2>1, <2>3, TablesNamed DEF Fillings
  <1>3. CASE v = 4
    <2>1. G \subseteq {"users", "categories"}
      BY <1>1, <1>3, TablesNamed, CascadeNamed DEF RowsAfter, Consistent
    <2>2. Parents("users") = {} /\ Parents("categories") = {}
      BY DEF Parents
    <2>3. Consistent(G)
      BY <2>1, <2>2, TablesNamed DEF Consistent
    <2>4. QED
      BY <2>1, <2>3, TablesNamed DEF Fillings
  <1>4. CASE v # 3 /\ v # 4
    BY <1>4 DEF RowsAfter
  <1>5. QED
    BY <1>2, <1>3, <1>4
-----------------------------------------------------------------------------
\* A version that the schema has cannot be executed again.
LEMMA RepeatedRefused ==
    ASSUME NEW k \in 0..Last, NEW v \in 1..k, AtVersion(k)
    PROVE  ~Executable(v, db)
  <1>1. \A t \in Tables : t # "schema_migrations" /\ Since[t] = v => t \in db.schema
    BY TablesNamed DEF AtVersion, Schema, Last
  <1>2. v \in 1..Last
    BY DEF Last
  <1>3. CASE v = 3
    BY <1>3 DEF AtVersion, Executable
  <1>4. CASE v # 3
    <2>1. \E t \in Tables : t # "schema_migrations" /\ Since[t] = v
      <3>1. /\ Since["users"] = 1 /\ Since["posts"] = 2
            /\ Since["oauth_accounts"] = 4 /\ Since["image_path"] = 5
        BY DEF Since
      <3>2. v = 1 \/ v = 2 \/ v = 4 \/ v = 5
        BY <1>2, <1>4 DEF Last
      <3>3. QED
        BY <3>1, <3>2, TablesNamed
    <2>2. Made(v) \cap db.schema # {}
      BY <1>1, <2>1 DEF Made
    <2>3. QED
      BY <2>2 DEF Executable
  <1>5. QED
    BY <1>3, <1>4

\* What is executed is the version after the ones that are applied.
LEMMA ExecutesNext ==
    ASSUME Inv, NEW s \in Servers, pc[s] \in {"execute", "record", "commit"},
           Executable(next[s], db)
    PROVE  next[s] \in 1..Last /\ AtVersion(next[s] - 1)
  <1>1. PICK k \in 0..Last : AtVersion(k)
    BY DEF Inv
  <1>2. next[s] \in 1..Last /\ 1..(next[s] - 1) \subseteq 1..k
    BY <1>1 DEF Inv, Progress, AtVersion, TypeOK, Last
  <1>3. next[s] - 1 <= k
    BY <1>2 DEF Last
  <1>4. ~(next[s] <= k)
    BY <1>1, <1>2, RepeatedRefused
  <1>5. next[s] - 1 = k
    BY <1>2, <1>3, <1>4 DEF Last
  <1>6. QED
    BY <1>1, <1>2, <1>5

\* Executing the next version leads to its schema, and to rows in it.
LEMMA NextVersion ==
    ASSUME NEW v \in 1..Last, AtVersion(v - 1), Executable(v, db), db \in Databases,
           db.filled \subseteq db.schema
    PROVE  /\ Migrated(v, db) \in Databases
           /\ db.applied \cup {v} = 1..v
           /\ Migrated(v, db).schema \cup {"schema_migrations"} = Schema(v)
           /\ "categories" \in Migrated(v, db).filled <=> v >= 3
           /\ Migrated(v, db).filled \subseteq Migrated(v, db).schema
           /\ db.schema \subseteq Migrated(v, db).schema
  <1> DEFINE m == Migrated(v, db)
  <1>1. /\ m.applied = db.applied /\ m.schema = db.schema \cup Made(v)
        /\ m.filled = RowsAfter(v, db.filled)
    <2> DEFINE rows == RowsAfter(v, db.filled)
               tables == db.schema \cup Made(v)
    <2>1. m = [db EXCEPT !.schema = tables, !.filled = rows]
      BY DEF Migrated
    <2> HIDE DEF m, rows, tables
    <2>2. m.applied = db.applied /\ m.schema = tables /\ m.filled = rows
      BY <2>1 DEF Databases
    <2>3. QED
      BY <2>2 DEF rows, tables
  <1>2. m.filled \in Fillings
    BY <1>1, RowsAfterConsistent DEF Databases
  <1>3. m \in Databases
    <2> DEFINE rows == RowsAfter(v, db.filled)
               tables == db.schema \cup Made(v)
    <2>1. m = [db EXCEPT !.schema = tables, !.filled = rows]
      BY DEF Migrated
    <2>2. rows \in Fillings /\ tables \in SUBSET Tables
      BY RowsAfterConsistent DEF Databases, Made
    <2> HIDE DEF m, rows, tables
    <2>3. QED
      BY <2>1, <2>2 DEF Databases
  <1>4. db.applied \cup {v} = 1..v
    BY DEF AtVersion, Last
  <1>5. m.schema \cup {"schema_migrations"} = Schema(v)
    <2>1. Schema(v - 1) \cup Made(v) = Schema(v)
      BY TablesNamed DEF Schema, Made, Last
    <2>2. QED
      BY <1>1, <2>1 DEF AtVersion
  <1>6. "categories" \in m.filled <=> v >= 3
    <2>1. "categories" \notin Cascade
      BY CascadeNamed
    <2>2. CASE v = 3
      BY <1>1, <2>2 DEF RowsAfter
    <2>3. CASE v = 4
      BY <1>1, <2>1, <2>3 DEF RowsAfter, AtVersion
    <2>4. CASE v # 3 /\ v # 4
      BY <1>1, <2>4 DEF RowsAfter, AtVersion, Last
    <2>5. QED
      BY <2>2, <2>3, <2>4
  <1>7. m.filled \subseteq m.schema
    <2>1. CASE v = 3
      <3>1. "categories" \in db.schema
        BY <2>1 DEF Executable, Needs
      <3>2. QED
        BY <1>1, <2>1, <3>1 DEF RowsAfter
    <2>2. CASE v # 3
      BY <1>1, <2>2 DEF RowsAfter
    <2>3. QED
      BY <2>1, <2>2
  <1>8. QED
    BY <1>1, <1>3, <1>4, <1>5, <1>6, <1>7
-----------------------------------------------------------------------------
\* A database that a release left is at the version of that release.
LEMMA InvInit == Init => Inv
  <1> SUFFICES ASSUME Init PROVE Inv
    OBVIOUS
  <1>1. PICK k \in 0..Last, F \in Fillings :
           /\ F \subseteq Schema(k)
           /\ "categories" \in F <=> k >= 3
           /\ db = Left(k, F)
    BY DEF Init
  <1>2. db.applied = 1..k /\ db.schema = (IF k = 0 THEN {} ELSE Schema(k)) /\ db.filled = F
    BY <1>1 DEF Left
  <1>3. F # {} => k # 0
    <2>1. Schema(0) = {"schema_migrations"}
      BY TablesNamed DEF Schema, Since
    <2>2. "schema_migrations" \notin F
      BY DEF Fillings, Consistent
    <2>3. QED
      BY <1>1, <2>1, <2>2
  <1>4. db \in Databases
    <2>1. 1..k \in SUBSET (1..Last) /\ (IF k = 0 THEN {} ELSE Schema(k)) \in SUBSET Tables
      BY DEF Schema, Last
    <2>2. QED
      BY <1>1, <2>1 DEF Left, Databases
  <1>5. TypeOK
    BY <1>4, MigrationsAssumption DEF Init, TypeOK, Last
  <1>6. AtVersion(k)
    <2>1. {"schema_migrations"} = Schema(0) /\ "schema_migrations" \in Schema(k)
      BY TablesNamed DEF Schema, Since, Last
    <2>2. QED
      BY <1>1, <1>2, <2>1 DEF AtVersion
  <1>7. db.filled \subseteq db.schema
    BY <1>1, <1>2, <1>3
  <1>8. Progress /\ Drafted
    BY DEF Init, Progress, Drafted
  <1>9. QED
    BY <1>5, <1>6, <1>7, <1>8 DEF Inv

\* Each step keeps the invariant.
LEMMA InvStep == Inv /\ [Next]_vars => Inv'
  <1> SUFFICES ASSUME Inv, [Next]_vars PROVE Inv'
    OBVIOUS
  <1> USE DEF Inv, TypeOK, Goto
  <1>0. PICK k \in 0..Last : AtVersion(k)
    OBVIOUS
  <1>1. ASSUME NEW s \in Servers, Start(s) PROVE Inv'
    <2>1. /\ UNCHANGED <<db, writer, draft, next, exits>>
          /\ pc[s] = "down" /\ pc' = [pc EXCEPT ![s] = "ensure"]
      BY <1>1 DEF Start
    <2>2. TypeOK' /\ AtVersion(k)'
      BY <1>0, <2>1 DEF AtVersion
    <2>3. Progress' /\ Drafted'
      BY <2>1 DEF Progress, Drafted
    <2>4. QED
      BY <2>1, <2>2, <2>3
  <1>2. ASSUME NEW s \in Servers, Ensure(s) PROVE Inv'
    <2>1. /\ writer = None /\ pc[s] = "ensure"
          /\ pc' = [pc EXCEPT ![s] = "check"] /\ next' = [next EXCEPT ![s] = 1]
          /\ UNCHANGED <<writer, exits>> /\ draft' = db'
          /\ db' = [db EXCEPT !.schema = @ \cup {"schema_migrations"}]
      BY <1>2 DEF Ensure
    <2>2. /\ db'.applied = db.applied /\ db'.filled = db.filled
          /\ db'.schema = db.schema \cup {"schema_migrations"}
          /\ db' \in Databases
      BY <2>1, TablesNamed DEF Databases
    <2>3. TypeOK'
      BY <2>1, <2>2, MigrationsAssumption DEF Last
    <2>4. AtVersion(k)' /\ (db.filled \subseteq db.schema)'
      BY <1>0, <2>2 DEF AtVersion
    <2>5. Progress'
      BY <2>1, <2>2 DEF Progress
    <2>6. Drafted'
      BY <2>1, MigrationsAssumption DEF Drafted
    <2>7. QED
      BY <2>3, <2>4, <2>5, <2>6
  <1>3. ASSUME NEW s \in Servers, Check(s) PROVE Inv'
    <2>1. /\ pc[s] = "check" /\ UNCHANGED <<db, writer, draft, exits>>
          /\ \/ /\ next[s] > Last /\ pc' = [pc EXCEPT ![s] = "serving"] /\ next' = next
             \/ /\ next[s] <= Last /\ next[s] \in db.applied
                /\ next' = [next EXCEPT ![s] = @ + 1] /\ pc' = pc
             \/ /\ next[s] <= Last /\ pc' = [pc EXCEPT ![s] = "execute"] /\ next' = next
      BY <1>3 DEF Check, Done, Last
    <2>2. TypeOK'
      BY <2>1, MigrationsAssumption DEF Last
    <2>3. AtVersion(k)'
      BY <1>0, <2>1 DEF AtVersion
    <2>4. Progress'
      BY <2>1 DEF Progress, Last
    <2>5. Drafted'
      BY <2>1 DEF Drafted
    <2>6. QED
      BY <2>1, <2>2, <2>3, <2>4, <2>5
  <1>4. ASSUME NEW s \in Servers, Execute(s) PROVE Inv'
    <2>1. /\ pc[s] = "execute" /\ writer = None /\ Executable(next[s], db)
          /\ pc' = [pc EXCEPT ![s] = "record"] /\ UNCHANGED <<db, next, exits>>
          /\ writer' = s /\ draft' = Migrated(next[s], db)
      BY <1>4 DEF Execute
    <2>2. draft' \in Databases
      BY <2>1, ExecutesNext, NextVersion
    <2>3. TypeOK'
      BY <2>1, <2>2, MigrationsAssumption
    <2>4. AtVersion(k)' /\ Progress'
      BY <1>0, <2>1 DEF AtVersion, Progress
    <2>5. Drafted'
      BY <2>1, MigrationsAssumption DEF Drafted
    <2>6. QED
      BY <2>1, <2>3, <2>4, <2>5
  <1>5. ASSUME NEW s \in Servers, Refuse(s) PROVE Inv'
    <2>1. /\ UNCHANGED <<db, writer, draft, next, exits>>
          /\ pc[s] = "execute" /\ pc' = [pc EXCEPT ![s] = "down"]
      BY <1>5 DEF Refuse, Refused
    <2>2. TypeOK' /\ AtVersion(k)'
      BY <1>0, <2>1 DEF AtVersion
    <2>3. Progress' /\ Drafted'
      BY <2>1 DEF Progress, Drafted
    <2>4. QED
      BY <2>1, <2>2, <2>3
  <1>6. ASSUME NEW s \in Servers, Record(s) PROVE Inv'
    <2>1. /\ pc[s] = "record" /\ pc' = [pc EXCEPT ![s] = "commit"]
          /\ UNCHANGED <<db, writer, next, exits>>
          /\ draft' = [draft EXCEPT !.applied = @ \cup {next[s]}]
      BY <1>6 DEF Record
    <2>2. Executable(next[s], db) /\ draft = Migrated(next[s], db) /\ next[s] \in 1..Last
      BY <2>1, ExecutesNext DEF Drafted
    <2>3. draft' \in Databases
      BY <2>1, <2>2 DEF Databases
    <2>4. writer = s
      BY <2>1
    <2>5. TypeOK'
      BY <2>1, <2>3, <2>4, MigrationsAssumption
    <2>6. AtVersion(k)' /\ Progress'
      BY <1>0, <2>1 DEF AtVersion, Progress
    <2>7. Drafted'
      BY <2>1, <2>2, <2>4 DEF Drafted
    <2>8. QED
      BY <2>1, <2>5, <2>6, <2>7
  <1>7. ASSUME NEW s \in Servers, Commit(s) PROVE Inv'
    <2>0. PICK v \in 1..(Last + 1) : v = next[s]
      OBVIOUS
    <2>1. /\ pc[s] = "commit" /\ writer = s
          /\ pc' = [pc EXCEPT ![s] = "check"] /\ next' = [next EXCEPT ![s] = @ + 1]
          /\ db' = draft /\ writer' = None /\ UNCHANGED <<draft, exits>>
      BY <1>7 DEF Commit
    <2>2. /\ v \in 1..Last /\ AtVersion(v - 1) /\ Executable(v, db)
          /\ draft = [Migrated(v, db) EXCEPT !.applied = @ \cup {v}]
      BY <2>0, <2>1, ExecutesNext DEF Drafted
    <2>3. /\ db'.applied = db.applied \cup {v}
          /\ db'.schema = Migrated(v, db).schema
          /\ db'.filled = Migrated(v, db).filled
      <3>1. Migrated(v, db) \in Databases /\ Migrated(v, db).applied = db.applied
        BY <2>2, NextVersion DEF Migrated, Databases
      <3>2. QED
        BY <2>1, <2>2, <3>1 DEF Databases
    <2>4. AtVersion(v)' /\ (db.filled \subseteq db.schema)' /\ db.schema \subseteq db'.schema
      <3> DEFINE m == Migrated(v, db)
      <3>1. /\ db.applied \cup {v} = 1..v
            /\ m.schema \cup {"schema_migrations"} = Schema(v)
            /\ "categories" \in m.filled <=> v >= 3
            /\ m.filled \subseteq m.schema
            /\ db.schema \subseteq m.schema
        BY <2>2, NextVersion
      <3> HIDE DEF m
      <3>2. db'.schema = m.schema /\ db'.filled = m.filled
        BY <2>3 DEF m
      <3>3. QED
        BY <2>3, <3>1, <3>2 DEF AtVersion
    <2>5. TypeOK'
      <3>1. next'[s] \in 1..(Last + 1) /\ \A q \in Servers \ {s} : next'[q] = next[q]
        BY <2>0, <2>1, <2>2 DEF Last
      <3>2. next' \in [Servers -> 1..(Last + 1)]
        BY <2>1, <3>1
      <3>3. db' \in Databases /\ draft' \in Databases /\ draft' = db'
        BY <2>1
      <3>4. \A q \in Servers : writer' = q <=> pc'[q] \in {"record", "commit"}
        BY <2>1, MigrationsAssumption
      <3>5. pc' \in [Servers -> {"down", "ensure", "check", "execute", "record", "commit",
                                 "serving"}]
        BY <2>1
      <3>6. QED
        BY <2>1, <3>2, <3>3, <3>4, <3>5
    <2>6. Progress'
      <3>1. db.applied \subseteq db'.applied /\ 1..v \subseteq db'.applied
        BY <2>3, <2>4 DEF AtVersion
      <3>2. "schema_migrations" \in db'.schema
        BY <2>1, <2>4 DEF Progress
      <3>3. v \in 1..Last
        BY <2>2
      <3>4. next'[s] - 1 = v
        BY <2>0, <2>1, <3>3
      <3>5. QED
        BY <2>1, <3>1, <3>2, <3>4 DEF Progress, Last
    <2>7. Drafted'
      BY <2>1, MigrationsAssumption DEF Drafted
    <2>8. v \in 0..Last
      BY <2>2
    <2>9. QED
      BY <2>4, <2>5, <2>6, <2>7, <2>8
  <1>8. ASSUME NEW s \in Servers, Serve(s) PROVE Inv'
    <2>1. PICK F \in Fillings :
             /\ db.filled \ {"sessions", "post_reactions", "comment_reactions"} \subseteq F
             /\ F \subseteq db.schema
             /\ "categories" \in F => "categories" \in db.filled
             /\ db' = [db EXCEPT !.filled = F]
      BY <1>8 DEF Serve
    <2>2. /\ writer = None /\ draft' = db' /\ UNCHANGED <<writer, pc, next, exits>>
          /\ db'.applied = db.applied /\ db'.schema = db.schema /\ db'.filled = F
          /\ db' \in Databases
      BY <1>8, <2>1 DEF Serve, Databases
    <2>3. TypeOK'
      BY <2>2
    <2>4. AtVersion(k)'
      BY <1>0, <2>1, <2>2 DEF AtVersion
    <2>5. Progress'
      BY <2>2 DEF Progress
    <2>6. Drafted'
      BY <2>2, MigrationsAssumption DEF Drafted
    <2>7. QED
      BY <2>1, <2>2, <2>3, <2>4, <2>5, <2>6
  <1>9. ASSUME NEW s \in Servers, Exit(s) PROVE Inv'
    <2>1. /\ UNCHANGED <<db, next>> /\ exits' = exits + 1
          /\ pc' = [pc EXCEPT ![s] = "down"]
          /\ \/ writer = s /\ writer' = None /\ draft' = db
             \/ writer # s /\ UNCHANGED <<writer, draft>>
      BY <1>9 DEF Exit, Release
    <2>2. TypeOK'
      BY <2>1, MigrationsAssumption
    <2>3. AtVersion(k)'
      BY <1>0, <2>1 DEF AtVersion
    <2>4. Progress'
      BY <2>1 DEF Progress
    <2>5. Drafted'
      BY <2>1 DEF Drafted
    <2>6. QED
      BY <2>1, <2>2, <2>3, <2>4, <2>5
  <1>10. CASE UNCHANGED vars
    <2>1. AtVersion(k)'
      BY <1>0, <1>10 DEF vars, AtVersion
    <2>2. QED
      BY <1>10, <2>1 DEF vars, Progress, Drafted
  <1>11. QED
    BY <1>1, <1>2, <1>3, <1>4, <1>5, <1>6, <1>7, <1>8, <1>9, <1>10 DEF Next, Step

\* The invariant holds in every behaviour.
THEOREM Inductive == Spec => []Inv
  BY InvInit, InvStep, PTL DEF Spec

\* Migrations keeps its types.
THEOREM TypeCorrect == Spec => []TypeOK
  <1>1. Inv => TypeOK
    BY DEF Inv
  <1>2. QED
    BY <1>1, Inductive, PTL

\* Schema and recorded versions agree, however many processes start and fail.
THEOREM SchemaIsRecorded == Spec => []SchemaRecorded
  <1>1. Inv => SchemaRecorded
    BY DEF Inv, SchemaRecorded, AtVersion
  <1>2. QED
    BY <1>1, Inductive, PTL

\* Only the full schema is served.
THEOREM OnlyCompleteServed == Spec => []ServedComplete
  <1>1. ASSUME Inv PROVE ServedComplete
    <2>1. PICK k \in 0..Last : AtVersion(k)
      BY <1>1 DEF Inv
    <2>2. ASSUME NEW s \in Servers, pc[s] = "serving"
          PROVE  db.applied = 1..Last /\ db.schema = Tables /\ "categories" \in db.filled
      <3>0. /\ next[s] = Last + 1 /\ "schema_migrations" \in db.schema
            /\ 1..(next[s] - 1) \subseteq 1..k
        BY <1>1, <2>1, <2>2 DEF Inv, Progress, AtVersion
      <3>1. 1..Last \subseteq 1..k /\ "schema_migrations" \in db.schema
        BY <3>0 DEF Last
      <3>2. k = Last
        BY <3>1 DEF Last
      <3>3. Schema(Last) = Tables
        BY TablesNamed DEF Schema
      <3>4. QED
        BY <2>1, <3>1, <3>2, <3>3 DEF AtVersion, Last
    <2>3. QED
      BY <2>2 DEF ServedComplete
  <1>2. QED
    BY <1>1, Inductive, PTL

\* A commit applies the version after those of the database, and changes the rows as it says.
LEMMA CommitApplies ==
    ASSUME Inv, NEW s \in Servers, Commit(s)
    PROVE  /\ next[s] \in 1..Last /\ AtVersion(next[s] - 1)
           /\ db'.applied = db.applied \cup {next[s]}
           /\ db'.filled = RowsAfter(next[s], db.filled)
  <1> DEFINE v == next[s]
  <1>1. pc[s] = "commit" /\ db' = draft
    BY DEF Commit
  <1>2. /\ v \in 1..Last /\ AtVersion(v - 1) /\ Executable(v, db)
        /\ draft = [Migrated(v, db) EXCEPT !.applied = @ \cup {v}]
    BY <1>1, ExecutesNext DEF Inv, Drafted
  <1>3. db \in Databases /\ Migrated(v, db) \in Databases
    BY <1>2, NextVersion DEF Inv, TypeOK
  <1>4. Migrated(v, db).filled = RowsAfter(v, db.filled) /\ Migrated(v, db).applied = db.applied
    BY <1>3 DEF Migrated, Databases
  <1>5. QED
    BY <1>1, <1>2, <1>3, <1>4 DEF Databases

\* No step takes the accounts, their sign-ins or the categories away.
THEOREM AccountsStay == Spec => AccountsKept
  <1> DEFINE Kept == \A t \in {"users", "oauth_accounts", "categories"} :
                        t \in db.filled => t \in db'.filled
  <1>1. ASSUME Inv, [Next]_vars PROVE [Kept]_vars
    <2> USE DEF Inv
    <2>1. ASSUME NEW s \in Servers, Commit(s) PROVE Kept
      <3> DEFINE v == next[s]
      <3>1. /\ v \in 1..Last /\ AtVersion(v - 1)
            /\ db'.filled = RowsAfter(v, db.filled)
        BY <1>1, <2>1, CommitApplies
      <3>2. v = 4 => "oauth_accounts" \notin db.filled
        <4>1. "oauth_accounts" \notin Schema(3)
          BY DEF Schema, Since
        <4>2. QED
          BY <1>1, <3>1, <4>1 DEF AtVersion
      <3>3. "categories" \notin Cascade
        BY CascadeNamed
      <3>4. QED
        BY <3>1, <3>2, <3>3 DEF RowsAfter
    <2>2. ASSUME NEW s \in Servers, Serve(s) PROVE Kept
      BY <1>1, <2>2 DEF Serve, TypeOK, Databases
    <2>3. ASSUME NEW s \in Servers, Ensure(s) PROVE Kept
      BY <1>1, <2>3 DEF Ensure, TypeOK, Databases
    <2>4. ASSUME NEW s \in Servers,
                 Start(s) \/ Check(s) \/ Execute(s) \/ Refuse(s) \/ Record(s) \/ Exit(s)
          PROVE  Kept
      BY <2>4 DEF Start, Check, Execute, Refuse, Record, Exit
    <2>5. QED
      BY <1>1, <2>1, <2>2, <2>3, <2>4 DEF Next, Step
  <1>2. Inv /\ [Next]_vars => [Kept]_vars
    BY <1>1
  <1>3. QED
    BY Inductive, <1>2, PTL DEF Spec, AccountsKept

\* Rows that a starting release takes away: all of them in migration 4, whose DROP TABLE
\* cascades, and these are the sessions, the posts and what refers to them; users stay.
LossIsMigration4 ==
    (\A s \in Servers : pc[s] # "serving") /\ ~(db.filled \subseteq db'.filled) =>
       /\ 4 \notin db.applied /\ db'.applied = 1..4
       /\ db'.filled = db.filled \cap {"users", "categories"}

\* Migration 4 is the only one that loses rows, and the finding on RowsKept is all of it:
\* a database that has it applied keeps every row through any number of starts.
THEOREM OnlyMigration4Loses == Spec => [][LossIsMigration4]_vars
  <1>1. ASSUME Inv, [Next]_vars PROVE [LossIsMigration4]_vars
    <2>1. ASSUME NEW s \in Servers, Commit(s) PROVE LossIsMigration4
      <3> DEFINE v == next[s]
      <3>1. /\ v \in 1..Last /\ AtVersion(v - 1)
            /\ db'.applied = db.applied \cup {v}
            /\ db'.filled = RowsAfter(v, db.filled)
        BY <1>1, <2>1, CommitApplies
      <3>2. v # 4 => db.filled \subseteq db'.filled
        BY <3>1 DEF RowsAfter
      <3>3. CASE v = 4
        <4>1. db.applied = 1..3
          BY <3>1, <3>3 DEF AtVersion
        <4>2. 4 \notin db.applied /\ db'.applied = 1..4
          BY <3>1, <3>3, <4>1
        <4>3. db.filled \subseteq Tables \ {"schema_migrations", "image_path"}
          BY <1>1 DEF Inv, TypeOK, Databases, Fillings, Consistent
        <4>4. "users" \in Cascade /\ "categories" \notin Cascade
          BY CascadeNamed, TablesNamed
        <4>5. \A t \in db.filled : t # "categories" => t \in Cascade
          BY <4>3, CascadeNamed
        <4>6. db'.filled = (db.filled \ Cascade) \cup (db.filled \cap {"users"})
          BY <3>1, <3>3 DEF RowsAfter
        <4>7. db'.filled = db.filled \cap {"users", "categories"}
          BY <4>4, <4>5, <4>6
        <4>8. QED
          BY <4>2, <4>7 DEF LossIsMigration4
      <3>4. QED
        BY <3>2, <3>3 DEF LossIsMigration4
    <2>2. ASSUME NEW s \in Servers, Serve(s) PROVE LossIsMigration4
      BY <2>2 DEF Serve, LossIsMigration4
    <2>3. ASSUME NEW s \in Servers,
                 \/ Start(s) \/ Ensure(s) \/ Check(s) \/ Execute(s) \/ Refuse(s)
                 \/ Record(s) \/ Exit(s)
          PROVE  db'.filled = db.filled
      BY <1>1, <2>3
      DEF Inv, TypeOK, Databases, Start, Ensure, Check, Execute, Refuse, Record, Exit
    <2>4. QED
      BY <1>1, <2>1, <2>2, <2>3 DEF Next, Step, LossIsMigration4
  <1>2. Inv /\ [Next]_vars => [LossIsMigration4]_vars
    BY <1>1
  <1>3. QED
    BY Inductive, <1>2, PTL DEF Spec
-----------------------------------------------------------------------------
(* No start is stuck *)

\* A file that cannot be executed was applied by another process since the check.
Overtaken == \A s \in Servers :
                pc[s] = "execute" /\ ~Executable(next[s], db) => next[s] \in db.applied

\* The version that a writer records is new, so that the writer goes on to its commit.
RecordFree == \A s \in Servers : pc[s] = "record" => next[s] \notin draft.applied

\* The next file can be executed on every schema that a release or a start has left.
LEMMA NextExecutable ==
    ASSUME Inv, NEW v \in 1..Last, AtVersion(v - 1)
    PROVE  Executable(v, db)
  <1>1. Made(v) \cap db.schema = {}
    <2>1. \A t \in db.schema : t \in Schema(v - 1)
      BY DEF AtVersion
    <2>2. \A t \in Schema(v - 1) : Since[t] # v
      BY TablesNamed DEF Schema, Last
    <2>3. QED
      BY <2>1, <2>2 DEF Made
  <1>2. Needs[v] \subseteq db.schema
    <2>1. \A t \in Schema(v - 1) : t # "schema_migrations" => t \in db.schema
      BY DEF AtVersion
    <2>2. Since["categories"] = 2 /\ Since["users"] = 1 /\ Since["posts"] = 2
      BY DEF Since
    <2>3. \A t \in Needs[v] : t \in {"categories", "users", "posts"} /\ Since[t] <= v - 1
      <3>1. CASE v = 1 \/ v = 2
        BY <3>1 DEF Needs
      <3>2. CASE v = 3
        BY <2>2, <3>2 DEF Needs
      <3>3. CASE v = 4
        BY <2>2, <3>3 DEF Needs
      <3>4. CASE v = 5
        BY <2>2, <3>4 DEF Needs
      <3>5. QED
        BY <3>1, <3>2, <3>3, <3>4 DEF Last
    <2>4. QED
      BY <2>1, <2>3, TablesNamed DEF Schema
  <1>3. v = 3 => "categories" \notin db.filled
    BY DEF AtVersion
  <1>4. QED
    BY <1>1, <1>2, <1>3 DEF Executable

\* The safety half of AllServe: a start is refused only if it was overtaken, by a version
\* that the next one finds applied, and waits only for a writer that cannot be refused.
THEOREM StartsGoOn == Spec => [](Overtaken /\ RecordFree)
  <1>1. ASSUME Inv PROVE Overtaken
    <2> SUFFICES ASSUME NEW s \in Servers, pc[s] = "execute", ~Executable(next[s], db)
                 PROVE  next[s] \in db.applied
      BY DEF Overtaken
    <2>1. PICK k \in 0..Last : AtVersion(k)
      BY <1>1 DEF Inv
    <2>2. next[s] \in 1..Last /\ 1..(next[s] - 1) \subseteq 1..k
      BY <1>1, <2>1 DEF Inv, Progress, AtVersion, TypeOK, Last
    <2>3. next[s] - 1 <= k
      BY <2>2 DEF Last
    <2>4. k # next[s] - 1
      BY <1>1, <2>1, <2>2, NextExecutable
    <2>5. next[s] \in 1..k
      BY <2>2, <2>3, <2>4 DEF Last
    <2>6. QED
      BY <2>1, <2>5 DEF AtVersion
  <1>2. ASSUME Inv PROVE RecordFree
    <2> SUFFICES ASSUME NEW s \in Servers, pc[s] = "record" PROVE next[s] \notin draft.applied
      BY DEF RecordFree
    <2>1. /\ next[s] \in 1..Last /\ AtVersion(next[s] - 1) /\ Executable(next[s], db)
          /\ draft = Migrated(next[s], db)
      BY <1>2, ExecutesNext DEF Inv, Drafted
    <2>2. draft.applied = db.applied
      BY <1>2, <2>1 DEF Inv, TypeOK, Migrated, Databases
    <2>3. QED
      BY <2>1, <2>2 DEF AtVersion, Last
  <1>3. Inv => Overtaken /\ RecordFree
    BY <1>1, <1>2
  <1>4. QED
    BY <1>3, Inductive, PTL
=============================================================================
