--------------------------- MODULE Migrations_proofs ---------------------------
(***************************************************************************)
(* No process works on a database without the whole schema, and no version *)
(* is recorded for one, for any statements and any number of processes.    *)
(***************************************************************************)
EXTENDS Migrations, TLAPS

USE DEF Created

\* The statements that an opener has behind it have taken effect: tables and
\* indexes are only ever added.  With it, the last statement completes the schema.
ProgressOf(p) ==
  /\ opening[p].at \notin {"closed", "table"} => "schema_version" \in schema
  /\ opening[p].at = "create" =>
       /\ opening[p].ran < Len(Statements)
       /\ \A k \in 1..opening[p].ran : Statements[k] \in schema
  /\ opening[p].at \in {"insert", "commit", "open"} => schema = Created

ProgressInv ==
  /\ \A p \in Openers : ProgressOf(p)
  /\ versions > 0 => schema = Created

IInv == MigrationsTypeOK /\ ProgressInv

Places == {"closed", "table", "select", "create", "insert", "commit", "open"}

\* Setting one opener's place keeps the type, if no one gains or loses the lock.
LEMMA MovedType ==
  ASSUME MigrationsTypeOK, NEW p \in Openers, NEW at \in Places, NEW ran \in 0..Len(Statements),
         at # "commit", opening[p].at # "commit",
         opening' = [opening EXCEPT ![p] = Step(at, ran)]
  PROVE  /\ opening' \in [Openers -> [at: Places, ran: 0..Len(Statements)]]
         /\ \A q \in Openers : opening'[q].at = "commit" <=> holder = q
BY DEF MigrationsTypeOK, Step, Places

\* If the schema only grows, what holds of an opener that does not move goes on.
LEMMA OthersProgress ==
  ASSUME NEW q \in Openers, ProgressOf(q), opening'[q] = opening[q],
         schema \subseteq schema', schema' \subseteq Created
  PROVE  ProgressOf(q)'
BY DEF ProgressOf

LEMMA Initially == InitMigrations => IInv
<1> SUFFICES ASSUME InitMigrations PROVE IInv
  OBVIOUS
<1> USE MigrationsAssumption DEF InitMigrations, Step
<1>1. MigrationsTypeOK
  BY DEF MigrationsTypeOK
<1>2. ProgressInv
  BY DEF ProgressInv, ProgressOf
<1>3. QED
  BY <1>1, <1>2 DEF IInv

LEMMA Inductive == IInv /\ [MigrationsNext]_migration => IInv'
<1> SUFFICES ASSUME IInv, [MigrationsNext]_migration PROVE IInv'
  OBVIOUS
<1> USE MigrationsAssumption
<1>0. MigrationsTypeOK /\ ProgressInv
  BY DEF IInv
<1>1. ASSUME NEW p \in Openers, Connect(p) PROVE IInv'
  <2>1. opening' = [opening EXCEPT ![p] = Step("table", 0)] /\ opening[p].at # "commit"
    BY <1>1 DEF Connect
  <2>2. MigrationsTypeOK'
    <3>1. 0 \in 0..Len(Statements) /\ "table" \in Places
      BY DEF Places
    <3>2. /\ opening' \in [Openers -> [at: Places, ran: 0..Len(Statements)]]
          /\ \A q \in Openers : opening'[q].at = "commit" <=> holder = q
      BY <1>0, <2>1, <3>1, MovedType
    <3>3. QED
      BY <1>0, <1>1, <3>2 DEF MigrationsTypeOK, Connect, Places
  <2>3. ASSUME NEW q \in Openers PROVE ProgressOf(q)'
    <3>1. CASE q = p
      BY <1>0, <2>1, <3>1 DEF MigrationsTypeOK, ProgressOf, Step
    <3>2. CASE q # p
      BY <1>0, <1>1, <3>2, OthersProgress DEF Connect, ProgressInv, MigrationsTypeOK
    <3>3. QED
      BY <3>1, <3>2
  <2>4. QED
    BY <1>0, <1>1, <2>2, <2>3 DEF IInv, ProgressInv, Connect
<1>2. ASSUME NEW p \in Openers, CreateVersionTable(p) PROVE IInv'
  <2>1. /\ opening' = [opening EXCEPT ![p] = Step("select", 0)] /\ opening[p].at # "commit"
        /\ schema' = schema \cup {"schema_version"} /\ versions' = versions /\ holder' = holder
    BY <1>2 DEF CreateVersionTable
  <2>2. MigrationsTypeOK'
    <3>1. 0 \in 0..Len(Statements) /\ "select" \in Places
      BY DEF Places
    <3>2. /\ opening' \in [Openers -> [at: Places, ran: 0..Len(Statements)]]
          /\ \A q \in Openers : opening'[q].at = "commit" <=> holder = q
      BY <1>0, <2>1, <3>1, MovedType
    <3>3. QED
      BY <1>0, <2>1, <3>2 DEF MigrationsTypeOK, Places
  <2>3. ASSUME NEW q \in Openers PROVE ProgressOf(q)'
    <3>1. CASE q = p
      BY <1>0, <2>1, <3>1 DEF MigrationsTypeOK, ProgressOf, Step
    <3>2. CASE q # p
      BY <1>0, <2>1, <3>2, OthersProgress DEF ProgressInv, MigrationsTypeOK
    <3>3. QED
      BY <3>1, <3>2
  <2>4. QED
    BY <1>0, <2>1, <2>2, <2>3 DEF IInv, ProgressInv
<1>3. ASSUME NEW p \in Openers, SelectVersion(p) PROVE IInv'
  <2> DEFINE at == IF current THEN "open" ELSE "create"
  <2>1. /\ opening' = [opening EXCEPT ![p] = Step(at, 0)] /\ opening[p].at = "select"
        /\ UNCHANGED <<schema, versions, holder>>
    BY <1>3 DEF SelectVersion
  <2>2. at \in Places /\ at # "commit"
    BY DEF Places
  <2>3. MigrationsTypeOK'
    <3> HIDE DEF at
    <3>1. 0 \in 0..Len(Statements) /\ at \in Places
      BY <2>2
    <3>2. /\ opening' \in [Openers -> [at: Places, ran: 0..Len(Statements)]]
          /\ \A q \in Openers : opening'[q].at = "commit" <=> holder = q
      BY <1>0, <2>1, <2>2, <3>1, MovedType
    <3>3. QED
      BY <1>0, <2>1, <3>2 DEF MigrationsTypeOK, Places
  <2>4. at = "open" => schema = Created
    BY <1>0 DEF ProgressInv, current
  <2>5. ASSUME NEW q \in Openers PROVE ProgressOf(q)'
    <3>1. CASE q = p
      <4>1. opening'[q] = Step(at, 0) /\ "schema_version" \in schema'
        BY <1>0, <2>1, <3>1 DEF MigrationsTypeOK, ProgressInv, ProgressOf
      <4>2. at \in {"open", "create"}
        OBVIOUS
      <4> HIDE DEF at
      <4>3. QED
        BY <2>1, <2>4, <4>1, <4>2 DEF ProgressOf, Step
    <3>2. CASE q # p
      BY <1>0, <2>1, <3>2, OthersProgress DEF ProgressInv, MigrationsTypeOK
    <3>3. QED
      BY <3>1, <3>2
  <2>6. QED
    BY <1>0, <2>1, <2>3, <2>5 DEF IInv, ProgressInv
<1>4. ASSUME NEW p \in Openers, Execute(p) PROVE IInv'
  <2> DEFINE ran == opening[p].ran + 1
  <2> DEFINE at == IF ran = Len(Statements) THEN "insert" ELSE "create"
  <2>1. /\ opening' = [opening EXCEPT ![p] = Step(at, ran)] /\ opening[p].at = "create"
        /\ schema' = schema \cup {Statements[ran]} /\ versions' = versions /\ holder' = holder
    BY <1>4 DEF Execute
  <2>2. ran \in 1..Len(Statements) /\ at \in Places /\ at # "commit"
    BY <1>0, <2>1 DEF MigrationsTypeOK, ProgressInv, ProgressOf, Places
  <2>3. \A k \in 1..ran : Statements[k] \in schema'
    BY <1>0, <2>1, <2>2 DEF MigrationsTypeOK, ProgressInv, ProgressOf
  <2>4. schema \subseteq schema' /\ schema' \subseteq Created /\ "schema_version" \in schema'
    BY <1>0, <2>1, <2>2 DEF MigrationsTypeOK, ProgressInv, ProgressOf
  <2>5. at = "insert" => schema' = Created
    BY <2>3, <2>4
  <2>6. at = "create" => ran < Len(Statements)
    BY <2>2
  <2>7. at \in {"insert", "create"}
    OBVIOUS
  <2> HIDE DEF at, ran
  <2>8. MigrationsTypeOK'
    <3>1. ran \in 0..Len(Statements)
      BY <2>2
    <3>2. QED
      BY <1>0, <2>1, <2>2, <2>4, <3>1, MovedType DEF MigrationsTypeOK, Places
  <2>9. ASSUME NEW q \in Openers PROVE ProgressOf(q)'
    <3>1. CASE q = p
      <4>1. opening'[q] = Step(at, ran)
        BY <1>0, <2>1, <3>1 DEF MigrationsTypeOK
      <4>2. opening'[q].at = at /\ opening'[q].ran = ran
        BY <4>1 DEF Step
      <4>3. QED
        BY <2>3, <2>4, <2>5, <2>6, <2>7, <4>2 DEF ProgressOf
    <3>2. CASE q # p
      BY <1>0, <2>1, <2>4, <3>2, OthersProgress DEF ProgressInv, MigrationsTypeOK
    <3>3. QED
      BY <3>1, <3>2
  <2>10. versions' > 0 => schema' = Created
    BY <1>0, <2>1, <2>4 DEF ProgressInv
  <2>11. QED
    BY <2>8, <2>9, <2>10 DEF IInv, ProgressInv
<1>5. ASSUME NEW p \in Openers, InsertVersion(p) PROVE IInv'
  <2>1. /\ opening' = [opening EXCEPT ![p].at = "commit"] /\ opening[p].at = "insert"
        /\ holder = None /\ holder' = p /\ UNCHANGED <<schema, versions>>
    BY <1>5 DEF InsertVersion
  <2>2. MigrationsTypeOK'
    BY <1>0, <2>1 DEF MigrationsTypeOK
  <2>3. ASSUME NEW q \in Openers PROVE ProgressOf(q)'
    <3>1. CASE q = p
      BY <1>0, <2>1, <3>1 DEF MigrationsTypeOK, ProgressInv, ProgressOf
    <3>2. CASE q # p
      BY <1>0, <2>1, <3>2, OthersProgress DEF ProgressInv, MigrationsTypeOK
    <3>3. QED
      BY <3>1, <3>2
  <2>4. QED
    BY <1>0, <2>1, <2>2, <2>3 DEF IInv, ProgressInv
<1>6. ASSUME NEW p \in Openers, Commit(p) PROVE IInv'
  <2>1. /\ opening' = [opening EXCEPT ![p].at = "open"] /\ opening[p].at = "commit"
        /\ holder' = None /\ schema' = schema /\ versions' = versions + 1
    BY <1>6 DEF Commit
  <2>2. MigrationsTypeOK'
    BY <1>0, <2>1 DEF MigrationsTypeOK
  <2>3. schema = Created
    BY <1>0, <2>1 DEF ProgressInv, ProgressOf
  <2>4. ASSUME NEW q \in Openers PROVE ProgressOf(q)'
    <3>1. CASE q = p
      BY <1>0, <2>1, <3>1 DEF MigrationsTypeOK, ProgressInv, ProgressOf
    <3>2. CASE q # p
      BY <1>0, <2>1, <3>2, OthersProgress DEF ProgressInv, MigrationsTypeOK
    <3>3. QED
      BY <3>1, <3>2
  <2>5. QED
    BY <2>1, <2>2, <2>3, <2>4 DEF IInv, ProgressInv
<1>7. ASSUME NEW p \in Openers, Leave(p) PROVE IInv'
  <2>1. /\ opening' = [opening EXCEPT ![p] = Step("closed", 0)]
        /\ holder' = (IF holder = p THEN None ELSE holder) /\ UNCHANGED <<schema, versions>>
    BY <1>7 DEF Leave
  <2>2. MigrationsTypeOK'
    BY <1>0, <2>1 DEF MigrationsTypeOK, Step
  <2>3. ASSUME NEW q \in Openers PROVE ProgressOf(q)'
    <3>1. CASE q = p
      BY <1>0, <2>1, <3>1 DEF MigrationsTypeOK, ProgressOf, Step
    <3>2. CASE q # p
      BY <1>0, <2>1, <3>2, OthersProgress DEF ProgressInv, MigrationsTypeOK
    <3>3. QED
      BY <3>1, <3>2
  <2>4. QED
    BY <1>0, <2>1, <2>2, <2>3 DEF IInv, ProgressInv
<1>8. CASE UNCHANGED migration
  BY <1>0, <1>8 DEF IInv, MigrationsTypeOK, ProgressInv, ProgressOf, migration
<1>9. QED
  BY <1>1, <1>2, <1>3, <1>4, <1>5, <1>6, <1>7, <1>8 DEF MigrationsNext, Migrate

LEMMA Invariant == MigrationsSpec => []IInv
<1>1. QED
  BY Initially, Inductive, PTL DEF MigrationsSpec

\* The variables have their types, and at most one process holds the lock: the
\* one that is about to commit.
THEOREM TypeCorrect == MigrationsSpec => []MigrationsTypeOK
<1>1. IInv => MigrationsTypeOK
  BY DEF IInv
<1>2. QED
  BY <1>1, Invariant, PTL

\* A recorded version means that every table and index exists, and no process
\* works on a database without them, however the processes that open the file
\* interleave and wherever they are killed.
THEOREM SchemaIsComplete == MigrationsSpec => []SchemaComplete
<1>1. IInv => SchemaComplete
  BY DEF IInv, ProgressInv, ProgressOf, SchemaComplete
<1>2. QED
  BY <1>1, Invariant, PTL
==============================================================================
