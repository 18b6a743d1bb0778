-------------------------- MODULE OperationsProofs --------------------------
(***************************************************************************)
(* Proofs about what runs beside the boletos: the migrations, for any      *)
(* number of files and of runs; the polling of a provider, for any number  *)
(* of boletos, pollers and batches; the two programs that answer a         *)
(* dashboard, for any history and window; and the pages of the list of     *)
(* transactions, for any page size, any creations and any number of readers.*)
(***************************************************************************)
EXTENDS Migrations, PollingOrder, Dashboard, Pages, SequenceTheorems,
        Arithmetic, TLAPS

-----------------------------------------------------------------------------
(* Migrations: the runner's passes over the files.                          *)

\* What a run at file v, of phase pc, knows of the files.
Knows(pc, v) ==
    /\ 1 .. v - 1 \subseteq recorded
    /\ pc \in {"execute", "record"} => v \in Versions
    /\ pc = "record" => v \in executed
    /\ pc = "succeeded" => v = LastVersion + 1

RunsKnow == \A r \in Runners : Knows(runner[r].pc, runner[r].at)

Tables ==
    /\ recorded \subseteq executed
    /\ \A v \in executed : 1 .. v - 1 \subseteq recorded

MigrationsInv == MigrationsTypeOK /\ RunsKnow /\ Tables

\* What a run knows is not undone by the tables growing, so that a step has
\* only to establish what the run that takes it knows.
LEMMA TablesOnlyGrow ==
    ASSUME MigrationsInv,
           NEW r \in Runners,
           NEW pc \in {"off", "check", "execute", "record", "succeeded"},
           NEW v \in 1 .. LastVersion + 1,
           Goes(r, pc, v),
           executed \subseteq executed', recorded \subseteq recorded',
           executed' \subseteq Versions, recorded' \subseteq Versions,
           schema' \subseteq Objects, late' \subseteq Versions,
           overlapped' \in BOOLEAN,
           Knows(pc, v)', Tables'
    PROVE  MigrationsInv'
<1>1. runner' \in [Runners -> [pc: {"off", "check", "execute", "record", "succeeded"},
                               at: 1 .. LastVersion + 1]]
  BY DEF Goes, MigrationsInv, MigrationsTypeOK
<1>2. ASSUME NEW q \in Runners
      PROVE  Knows(runner[q].pc, runner[q].at)'
  <2>1. CASE q = r
    <3>1. runner'[q].pc = pc /\ runner'[q].at = v
      BY <2>1 DEF Goes, MigrationsInv, MigrationsTypeOK
    <3>2. QED
      BY <3>1 DEF Knows
  <2>2. CASE q # r
    <3>1. runner'[q] = runner[q]
      BY <2>2 DEF Goes, MigrationsInv, MigrationsTypeOK
    <3>2. Knows(runner[q].pc, runner[q].at)
      BY DEF MigrationsInv, RunsKnow
    <3>3. QED
      BY <3>1, <3>2 DEF Knows
  <2>3. QED
    BY <2>1, <2>2
<1>3. QED
  BY <1>1, <1>2 DEF MigrationsInv, MigrationsTypeOK, RunsKnow

\* Files are executed and recorded, never the reverse, and a version is recorded
\* by a run that has executed it.
LEMMA MigrationsInvHolds == MigrationsSpec => []MigrationsInv
<1>1. MigrationsInit => MigrationsInv
  <2> SUFFICES ASSUME MigrationsInit PROVE MigrationsInv
    OBVIOUS
  <2>1. 1 \in 1 .. LastVersion + 1
    BY MigrationFiles
  <2>2. MigrationsTypeOK
    BY <2>1 DEF MigrationsInit, MigrationsTypeOK
  <2>3. Tables
    BY DEF MigrationsInit, Tables
  <2>4. Knows("off", 1)
    BY DEF Knows
  <2>5. QED
    BY <2>2, <2>3, <2>4 DEF MigrationsInit, MigrationsInv, RunsKnow
<1>2. MigrationsInv /\ [MigrationsNext]_migrationVars => MigrationsInv'
  <2> SUFFICES ASSUME MigrationsInv, [MigrationsNext]_migrationVars
               PROVE  MigrationsInv'
    OBVIOUS
  <2>1. CASE UNCHANGED migrationVars
    BY <2>1 DEF migrationVars, MigrationsInv, MigrationsTypeOK, RunsKnow, Knows, Tables
  <2>2. ASSUME NEW r \in Runners, RunnerStep(r)
        PROVE  MigrationsInv'
    <3>. PICK v \in 1 .. LastVersion + 1 : v = runner[r].at
      BY DEF MigrationsInv, MigrationsTypeOK
    <3>v. LastVersion \in Nat /\ Tables
      BY MigrationFiles DEF MigrationsInv
    <3>k. Knows(runner[r].pc, v)
      BY DEF MigrationsInv, RunsKnow
    <3>t. /\ executed \subseteq Versions /\ recorded \subseteq Versions
          /\ schema \subseteq Objects /\ late \subseteq Versions
          /\ overlapped \in BOOLEAN
      BY DEF MigrationsInv, MigrationsTypeOK
    <3>1. CASE MigrateStarts(r)
      <4>1. Goes(r, "check", 1) /\ UNCHANGED <<executed, recorded, schema, late>>
            /\ overlapped' \in BOOLEAN
        BY <3>1 DEF MigrateStarts
      <4>2. Knows("check", 1)' /\ Tables' /\ 1 \in 1 .. LastVersion + 1
        BY <3>v, <4>1 DEF Knows, Tables
      <4>3. QED
        BY <3>t, <4>1, <4>2, TablesOnlyGrow
    <3>2. CASE MigrateChecks(r)
      <4>1. /\ v \in Versions
            /\ UNCHANGED <<executed, recorded, schema, late, overlapped>>
        BY <3>2 DEF MigrateChecks
      <4>2. Tables'
        BY <3>v, <4>1 DEF Tables
      <4>3. CASE v \in recorded
        <5>1. Goes(r, "check", v + 1)
          BY <3>2, <4>3 DEF MigrateChecks
        <5>2. Knows("check", v + 1)' /\ v + 1 \in 1 .. LastVersion + 1
          BY <3>v, <3>k, <4>1, <4>3 DEF Knows, Versions
        <5>3. QED
          BY <3>t, <4>1, <4>2, <5>1, <5>2, TablesOnlyGrow
      <4>4. CASE v \notin recorded
        <5>1. Goes(r, "execute", v)
          BY <3>2, <4>4 DEF MigrateChecks
        <5>2. Knows("execute", v)'
          BY <3>k, <4>1 DEF Knows
        <5>3. QED
          BY <3>v, <3>t, <4>1, <4>2, <5>1, <5>2, TablesOnlyGrow
      <4>5. QED
        BY <4>3, <4>4
    <3>3. CASE MigrateExecutes(r)
      <4>1. /\ runner[r].pc = "execute" /\ Goes(r, "record", v)
            /\ executed' = executed \cup {v} /\ UNCHANGED <<recorded, overlapped>>
            /\ schema' = (schema \ Drops[v]) \cup Creates[v]
            /\ late' \subseteq late \cup {v}
        BY <3>3 DEF MigrateExecutes
      <4>2. v \in Versions /\ 1 .. v - 1 \subseteq recorded
        BY <3>k, <4>1 DEF Knows
      <4>4. Tables'
        BY <3>v, <4>1, <4>2 DEF Tables
      <4>5. Knows("record", v)'
        BY <4>1, <4>2 DEF Knows
      <4>6. QED
        BY <3>v, <3>t, <4>1, <4>2, <4>4, <4>5, TablesOnlyGrow, MigrationObjects
    <3>4. CASE MigrateRecords(r)
      <4>1. /\ runner[r].pc = "record" /\ Goes(r, "check", v + 1)
            /\ recorded' = recorded \cup {v}
            /\ UNCHANGED <<executed, schema, late, overlapped>>
        BY <3>4 DEF MigrateRecords
      <4>2. v \in Versions /\ v \in executed /\ 1 .. v - 1 \subseteq recorded
        BY <3>k, <4>1 DEF Knows
      <4>3. v \in Nat /\ v + 1 \in 1 .. LastVersion + 1
        BY <3>v, <4>2 DEF Versions
      <4>4. 1 .. (v + 1) - 1 \subseteq recorded'
        BY <4>1, <4>2, <4>3
      <4>5. Knows("check", v + 1)'
        BY <4>4 DEF Knows
      <4>6. Tables'
        BY <3>v, <4>1, <4>2 DEF Tables
      <4>7. QED
        BY <3>t, <4>1, <4>2, <4>3, <4>5, <4>6, TablesOnlyGrow
    <3>5. CASE MigrateSucceeds(r)
      <4>1. /\ v = LastVersion + 1 /\ Goes(r, "succeeded", v)
            /\ UNCHANGED <<executed, recorded, schema, late, overlapped>>
        BY <3>5 DEF MigrateSucceeds
      <4>2. Knows("succeeded", v)' /\ Tables'
        BY <3>v, <3>k, <4>1 DEF Knows, Tables
      <4>3. QED
        BY <3>v, <3>t, <4>1, <4>2, TablesOnlyGrow
    <3>6. CASE MigrateFails(r)
      <4>1. /\ Goes(r, "off", 1)
            /\ UNCHANGED <<executed, recorded, schema, late, overlapped>>
        BY <3>6 DEF MigrateFails
      <4>2. Knows("off", 1)' /\ Tables' /\ 1 \in 1 .. LastVersion + 1
        BY <3>v, <4>1 DEF Knows, Tables
      <4>3. QED
        BY <3>t, <4>1, <4>2, TablesOnlyGrow
    <3>7. QED
      BY <2>2, <3>1, <3>2, <3>3, <3>4, <3>5, <3>6 DEF RunnerStep
  <2>3. QED
    BY <2>1, <2>2 DEF MigrationsNext
<1>3. QED
  BY <1>1, <1>2, PTL DEF MigrationsSpec

\* The variables of Migrations keep their types.
THEOREM MigrationsTypeCorrect == MigrationsSpec => []MigrationsTypeOK
<1>1. MigrationsInv => MigrationsTypeOK
  BY DEF MigrationsInv
<1>2. QED
  BY <1>1, MigrationsInvHolds, PTL

\* While no two runs have overlapped, the one under way is the only one to
\* record, so that what it has found missing is still missing.
Alone == ~ overlapped =>
    /\ late = {}
    /\ \A q, r \in Runners : Underway(q) /\ Underway(r) => q = r
    /\ \A r \in Runners :
          runner[r].pc \in {"execute", "record"} => runner[r].at \notin recorded

LEMMA AloneIsKept ==
    ASSUME MigrationsInv, Alone, [MigrationsNext]_migrationVars
    PROVE  Alone'
<1>1. CASE UNCHANGED migrationVars
  BY <1>1 DEF migrationVars, Alone, Underway
<1>2. ASSUME NEW r \in Runners, RunnerStep(r)
      PROVE  Alone'
  <2> SUFFICES ASSUME ~ overlapped'
               PROVE  Alone'
    BY DEF Alone
  <2>. PICK v \in 1 .. LastVersion + 1 : v = runner[r].at
    BY DEF MigrationsInv, MigrationsTypeOK
  <2>1. ~ overlapped /\ \A q \in Runners \ {r} : ~ Underway(q)
    <3>1. CASE MigrateStarts(r)
      BY <3>1 DEF MigrateStarts
    <3>2. CASE ~ MigrateStarts(r)
      <4>1. overlapped' = overlapped /\ Underway(r)
        BY <1>2, <3>2 DEF RunnerStep, MigrateChecks, MigrateExecutes,
           MigrateRecords, MigrateSucceeds, MigrateFails, Underway
      <4>2. QED
        BY <4>1 DEF Alone
    <3>3. QED
      BY <3>1, <3>2
  <2>2. /\ late = {}
        /\ runner[r].pc \in {"execute", "record"} => v \notin recorded
    BY <2>1 DEF Alone
  <2>3. ASSUME NEW pc, NEW w, Goes(r, pc, w)
        PROVE  /\ runner'[r].pc = pc /\ runner'[r].at = w
               /\ \A q \in Runners \ {r} : runner'[q] = runner[q]
    BY <2>3 DEF Goes, MigrationsInv, MigrationsTypeOK
  <2>4. \A q \in Runners \ {r} : runner'[q] = runner[q]
    <3>1. \E pc, w : Goes(r, pc, w)
      BY <1>2 DEF RunnerStep, MigrateStarts, MigrateChecks, MigrateExecutes,
         MigrateRecords, MigrateSucceeds, MigrateFails
    <3>2. QED
      BY <2>3, <3>1
  <2>5. late' = {}
    <3>1. CASE MigrateExecutes(r)
      <4>1. /\ runner[r].pc = "execute"
            /\ late' = late \cup {x \in {v} : \E w \in executed : w > x}
        BY <3>1 DEF MigrateExecutes
      <4>2. ASSUME NEW w \in executed, w > v
            PROVE  FALSE
        <5>1. w \in Nat /\ v \in 1 .. w - 1
          BY <4>2, MigrationFiles DEF MigrationsInv, MigrationsTypeOK, Versions
        <5>2. v \in recorded
          BY <5>1 DEF MigrationsInv, Tables
        <5>3. QED
          BY <2>2, <4>1, <5>2
      <4>3. QED
        BY <2>2, <4>1, <4>2
    <3>2. CASE ~ MigrateExecutes(r)
      BY <1>2, <2>2, <3>2 DEF RunnerStep, MigrateStarts, MigrateChecks,
         MigrateRecords, MigrateSucceeds, MigrateFails
    <3>3. QED
      BY <3>1, <3>2
  <2>6. runner'[r].pc \in {"execute", "record"} => runner'[r].at \notin recorded'
    <3>1. CASE MigrateChecks(r)
      <4>1. CASE v \in recorded
        BY <2>3, <3>1, <4>1 DEF MigrateChecks
      <4>2. CASE v \notin recorded
        BY <2>3, <3>1, <4>2 DEF MigrateChecks
      <4>3. QED
        BY <4>1, <4>2
    <3>2. CASE MigrateExecutes(r)
      BY <2>2, <2>3, <3>2 DEF MigrateExecutes
    <3>3. CASE MigrateStarts(r) \/ MigrateRecords(r) \/ MigrateSucceeds(r)
               \/ MigrateFails(r)
      BY <2>3, <3>3 DEF MigrateStarts, MigrateRecords, MigrateSucceeds, MigrateFails
    <3>4. QED
      BY <1>2, <3>1, <3>2, <3>3 DEF RunnerStep
  <2>7. \A q \in Runners \ {r} : ~ Underway(q)'
    BY <2>1, <2>4 DEF Underway
  <2>8. QED
    BY <2>5, <2>6, <2>7 DEF Alone, Underway
<1>3. QED
  BY <1>1, <1>2 DEF MigrationsNext

\* The schema is the one the files so far leave, but for what is undone.
Stands(n) == executed = 1 .. n /\ schema \ Undone = After(n) \ Undone

\* A file executed in its turn takes the schema on to the next one.
LEMMA NextFileStands ==
    ASSUME NEW n \in 0 .. LastVersion, Stands(n), schema \subseteq Objects,
           NEW v \in Versions, v = n + 1,
           executed' = executed \cup {v}, late' = late,
           schema' = (schema \ Drops[v]) \cup Creates[v]
    PROVE  Stands(v)'
<1>1. n \in Nat /\ v \in Nat /\ executed' = 1 .. v
  BY MigrationFiles DEF Stands, Versions
<1>2. \A x : x \in Undone => x \in Undone'
  BY <1>1 DEF Undone
<1>3. ASSUME NEW x \in Objects, x \notin Undone'
      PROVE  x \in schema' <=> x \in After(v)
  <2>1. x \in schema <=> x \in After(n)
    BY <1>2, <1>3 DEF Stands
  <2>2. CASE x \in Creates[v]
    BY <1>1, <2>2 DEF After
  <2>3. CASE x \in Drops[v] /\ x \notin Creates[v]
    <3>1. ASSUME NEW u \in 1 .. v, x \in Creates[u]
          PROVE  v \in u + 1 .. v
      BY <1>1, <2>3, <3>1
    <3>2. QED
      BY <2>3, <3>1 DEF After
  <2>4. CASE x \notin Drops[v] /\ x \notin Creates[v]
    <3>1. ASSUME NEW u \in 1 .. n
          PROVE  (\A w \in u + 1 .. n : x \notin Drops[w])
                    <=> (\A w \in u + 1 .. v : x \notin Drops[w])
      BY <1>1, <2>4
    <3>2. x \in After(n) <=> x \in After(v)
      BY <1>1, <2>4, <3>1 DEF After
    <3>3. QED
      BY <2>1, <2>4, <3>2
  <2>5. QED
    BY <2>2, <2>3, <2>4
<1>4. schema' \subseteq Objects /\ After(v) \subseteq Objects
  BY MigrationObjects DEF After
<1>5. QED
  BY <1>1, <1>3, <1>4 DEF Stands, After

\* A file executed again changes nothing that the files behind it have not
\* touched: what they have is undone, and counted as such.
LEMMA FileAgainStands ==
    ASSUME NEW n \in 0 .. LastVersion, Stands(n), schema \subseteq Objects,
           NEW v \in Versions, v <= n, executed' = executed,
           late' = late \cup {x \in {v} : \E w \in executed : w > x},
           schema' = (schema \ Drops[v]) \cup Creates[v]
    PROVE  Stands(n)'
<1>1. n \in Nat /\ v \in Nat /\ v >= 1 /\ executed' = 1 .. n /\ executed = 1 .. n
  BY MigrationFiles DEF Stands, Versions
<1>2. \A x : x \in Undone => x \in Undone'
  BY DEF Undone
<1>3. ASSUME NEW x \in Objects, x \notin Undone'
      PROVE  x \in schema' <=> x \in After(n)
  <2>1. x \in schema <=> x \in After(n)
    BY <1>2, <1>3 DEF Stands
  <2>2. \A w \in v + 1 .. n :
           /\ w \in executed' /\ w > v /\ v \in late'
           /\ x \notin Creates[v] \cap Drops[w] /\ x \notin Drops[v] \cap Creates[w]
    <3>1. \A w \in v + 1 .. n : w \in executed' /\ w > v /\ w \in executed
      BY <1>1
    <3>2. \A w \in v + 1 .. n : v \in late'
      BY <3>1
    <3>3. QED
      BY <1>3, <3>1, <3>2 DEF Undone
  <2>3. ~ (x \in Creates[v] /\ x \in Drops[v])
    BY MigrationObjects
  <2>4. CASE x \in Creates[v]
    <3>1. x \in After(n)
      BY <1>1, <2>2, <2>4 DEF After
    <3>2. QED
      BY <2>4, <3>1
  <2>5. CASE x \in Drops[v]
    <3>1. ASSUME NEW u \in 1 .. n, x \in Creates[u]
          PROVE  v \in u + 1 .. n
      <4>1. u # v /\ ~ u \in v + 1 .. n
        BY <2>2, <2>3, <2>5, <3>1
      <4>2. QED
        BY <1>1, <4>1
    <3>2. x \notin After(n)
      BY <2>5, <3>1 DEF After
    <3>3. QED
      BY <2>3, <2>5, <3>2
  <2>6. CASE x \notin Creates[v] /\ x \notin Drops[v]
    BY <2>1, <2>6
  <2>7. QED
    BY <2>4, <2>5, <2>6
<1>4. schema' \subseteq Objects /\ After(n) \subseteq Objects
  BY MigrationObjects DEF After
<1>5. QED
  BY <1>1, <1>3, <1>4 DEF Stands, After

SchemaStands == \E n \in 0 .. LastVersion : Stands(n)

LEMMA SchemaStandsIsKept ==
    ASSUME MigrationsInv, SchemaStands, [MigrationsNext]_migrationVars
    PROVE  SchemaStands'
<1>. PICK n \in 0 .. LastVersion : Stands(n)
  BY DEF SchemaStands
<1>1. CASE UNCHANGED <<executed, schema, late>>
  BY <1>1 DEF SchemaStands, Stands, Undone
<1>2. ASSUME NEW r \in Runners, MigrateExecutes(r)
      PROVE  SchemaStands'
  <2>. PICK v \in 1 .. LastVersion + 1 : v = runner[r].at
    BY DEF MigrationsInv, MigrationsTypeOK
  <2>1. /\ runner[r].pc = "execute" /\ executed' = executed \cup {v}
        /\ schema' = (schema \ Drops[v]) \cup Creates[v]
        /\ late' = late \cup {x \in {v} : \E w \in executed : w > x}
    BY <1>2 DEF MigrateExecutes
  <2>2. Knows("execute", v) /\ Tables /\ schema \subseteq Objects
    BY <2>1 DEF MigrationsInv, MigrationsTypeOK, RunsKnow
  <2>3. v \in Versions /\ 1 .. v - 1 \subseteq 1 .. n /\ executed = 1 .. n
    BY <2>2 DEF Knows, Tables, Stands
  <2>4. n \in Nat /\ v \in Nat /\ v >= 1 /\ v <= n + 1 /\ v <= LastVersion
    <3>1. LastVersion \in Nat /\ n \in Nat /\ v \in Nat /\ v >= 1
          /\ v <= LastVersion
      BY <2>3, MigrationFiles DEF Versions
    <3>2. v - 1 \in 1 .. v - 1 \/ v = 1
      BY <3>1
    <3>3. QED
      BY <2>3, <3>1, <3>2
  <2>5. CASE v = n + 1
    <3>1. late' = late
      <4>1. \A w \in executed : ~ w > v
        BY <2>3, <2>4, <2>5
      <4>2. QED
        BY <2>1, <4>1
    <3>2. Stands(v)'
      BY <2>1, <2>2, <2>3, <2>5, <3>1, NextFileStands
    <3>3. QED
      BY <2>3, <3>2 DEF SchemaStands, Versions
  <2>6. CASE v <= n
    <3>1. executed' = executed
      BY <2>1, <2>3, <2>4, <2>6
    <3>2. Stands(n)'
      BY <2>1, <2>2, <2>3, <2>6, <3>1, FileAgainStands
    <3>3. QED
      BY <3>2 DEF SchemaStands
  <2>7. QED
    BY <2>4, <2>5, <2>6
<1>3. \/ UNCHANGED <<executed, schema, late>>
      \/ \E r \in Runners : MigrateExecutes(r)
  BY DEF migrationVars, MigrationsNext, RunnerStep, MigrateStarts, MigrateChecks,
     MigrateRecords, MigrateSucceeds, MigrateFails
<1>4. QED
  BY <1>1, <1>2, <1>3

\* Whatever overlaps and whatever dies, the schema is that of a prefix of the
\* migration files, and of all of them once a run has succeeded, but for the
\* objects that a file executed again behind a later one has undone: those two
\* files disagree on them, and two runs have overlapped.
THEOREM SchemaStaysPrefix == MigrationsSpec => []SchemaIsPrefix
<1>1. MigrationsInit => Alone /\ SchemaStands
  <2> SUFFICES ASSUME MigrationsInit
               PROVE  Alone /\ SchemaStands
    OBVIOUS
  <2>1. Alone
    BY DEF MigrationsInit, Alone, Underway
  <2>2. 0 \in 0 .. LastVersion /\ executed = 1 .. 0 /\ schema = {} /\ After(0) = {}
    BY MigrationFiles DEF MigrationsInit, After
  <2>3. QED
    BY <2>1, <2>2 DEF SchemaStands, Stands
<1>2. MigrationsInv /\ Alone /\ SchemaStands /\ [MigrationsNext]_migrationVars
         => Alone' /\ SchemaStands'
  BY AloneIsKept, SchemaStandsIsKept
<1>3. MigrationsInv /\ Alone /\ SchemaStands => SchemaIsPrefix
  <2> SUFFICES ASSUME MigrationsInv, Alone, SchemaStands
               PROVE  SchemaIsPrefix
    OBVIOUS
  <2>1. ASSUME NEW r \in Runners, runner[r].pc = "succeeded"
        PROVE  executed = Versions
    <3>1. Knows("succeeded", runner[r].at)
      BY <2>1 DEF MigrationsInv, RunsKnow
    <3>2. 1 .. LastVersion \subseteq executed
      BY <3>1, MigrationFiles DEF MigrationsInv, Knows, Tables
    <3>3. QED
      BY <3>2 DEF MigrationsInv, MigrationsTypeOK, Versions
  <2>2. late # {} => overlapped
    BY DEF Alone
  <2>3. QED
    BY <2>1, <2>2 DEF MigrationsInv, Tables, SchemaStands, Stands, SchemaIsPrefix
<1>4. QED
  BY <1>1, <1>2, <1>3, MigrationsInvHolds, PTL DEF MigrationsSpec

-----------------------------------------------------------------------------
(* PollingOrder: a bound on how long a boleto is passed over.               *)
(*                                                                         *)
(* What comes before a boleto shrinks until the boleto is given a new place *)
(* itself.  A turn that leaves it out takes its whole batch from there, and *)
(* every consultation that succeeds moves one of them behind it for good.   *)

UnderWay == [todo: Seq(Queued), on: {TRUE}, failed: Nat, missed: SUBSET Queued,
             alone: BOOLEAN]

PollingTypes ==
    /\ before \subseteq Queued \X Queued
    /\ pollable \subseteq Queued
    /\ turn \in [Pollers -> {NoTurn} \cup UnderWay]
    /\ waited \in [Queued -> Nat]

Ahead(b) == {d \in Queued \ {b} : <<d, b>> \in before}

Rest(p, b) == Ahead(b) \ ToSet(turn[p].todo)

\* Boletos that a turn that counts moves at least.
Gain == BatchLimit - Tolerated

Rivals == Cardinality(Queued) - 1

\* The turn will count against b.
PassesOver(p, b) == turn[p] # NoTurn /\ turn[p].alone /\ b \in turn[p].missed

\* What the turns so far have moved behind b, what this one has taken from before
\* it and what is left there are different boletos, less those that failed.
TurnInv(p, b) == PassesOver(p, b) =>
    /\ waited[b] * Gain + BatchLimit <= Rivals
    /\ waited[b] * Gain + Cardinality(Rest(p, b)) + BatchLimit <= Rivals + turn[p].failed

WaitInv(b) ==
    /\ waited[b] * Gain + Cardinality(Ahead(b)) <= Rivals
    /\ waited[b] # 0 => (waited[b] - 1) * Gain + BatchLimit <= Rivals

PollingInv ==
    /\ PollingTypes
    /\ \A b \in Queued : <<b, b>> \notin before
    /\ \A p \in Pollers, q \in Pollers :
          turn[p] # NoTurn /\ turn[q] # NoTurn /\ turn[p].alone /\ turn[q].alone => p = q
    /\ \A b \in Queued : WaitInv(b)
    /\ \A p \in Pollers, b \in Queued : TurnInv(p, b)

(* Whole numbers.                                                           *)
LEMMA TimesGain ==
    ASSUME NEW k \in Nat
    PROVE  /\ Gain \in Nat \ {0} /\ BatchLimit \in Nat /\ Tolerated \in Nat
           /\ Gain = BatchLimit - Tolerated
           /\ k * Gain \in Nat
           /\ (k + 1) * Gain = k * Gain + Gain
<1>1. Gain \in Nat \ {0} /\ BatchLimit \in Nat /\ Tolerated \in Nat
  BY PollingBounds DEF Gain
<1>2. \A g \in Nat : k * g \in Nat /\ (k + 1) * g = k * g + g
  OBVIOUS
<1>3. QED
  BY <1>1, <1>2 DEF Gain

\* A product that is at most m has a factor that is at most a quotient of m.
LEMMA TimesIsBounded ==
    ASSUME NEW k \in Nat, NEW g \in Nat \ {0}, NEW m \in Nat, k * g <= m
    PROVE  k <= m \div g
<1>1. m \div g \in Int /\ m < (m \div g + 1) * g
  OBVIOUS
<1>2. QED
  BY <1>1

(* What comes before a boleto is finite, and less than the table.           *)
LEMMA AheadIsFinite ==
    ASSUME NEW b \in Queued
    PROVE  /\ IsFiniteSet(Ahead(b)) /\ Rivals \in Nat
           /\ \A S \in SUBSET Ahead(b) :
                 IsFiniteSet(S) /\ Cardinality(S) \in Nat /\ Cardinality(S) <= Rivals
<1>1. IsFiniteSet(Queued) /\ Cardinality(Queued) \in Nat
  BY PollingTable, FS_CardinalityType
<1>2. IsFiniteSet(Queued \ {b}) /\ Cardinality(Queued \ {b}) = Cardinality(Queued) - 1
  BY <1>1, FS_RemoveElement
<1>3. Rivals \in Nat
  BY <1>1, <1>2, FS_CardinalityType DEF Rivals
<1>4. ASSUME NEW S \in SUBSET Ahead(b)
      PROVE  IsFiniteSet(S) /\ Cardinality(S) \in Nat /\ Cardinality(S) <= Rivals
  <2>1. S \subseteq Queued \ {b}
    BY DEF Ahead
  <2>2. QED
    BY <1>2, <2>1, FS_Subset, FS_CardinalityType DEF Rivals
<1>5. QED
  BY <1>3, <1>4

\* What a turn takes from before b can be counted.
LEMMA CountsOfTurns ==
    ASSUME NEW b \in Queued, NEW S \in SUBSET Ahead(b), NEW T \in SUBSET S
    PROVE  Cardinality(T) <= Cardinality(S) /\ Cardinality(T) \in Nat
           /\ Cardinality(S) \in Nat
BY AheadIsFinite, FS_Subset

(* A boleto that goes to the end leaves the others' order as it was.        *)
LEMMA EndIsLast ==
    ASSUME before \subseteq Queued \X Queued, NEW b \in Queued,
           \A d \in Queued : <<d, d>> \notin before, before' = ToEnd(b)
    PROVE  /\ before' \subseteq Queued \X Queued
           /\ \A d \in Queued : <<d, d>> \notin before'
           /\ \A d \in Queued \ {b} : Ahead(d)' = Ahead(d) \ {b}
<1>1. ASSUME NEW x \in Queued, NEW y \in Queued
      PROVE  <<x, y>> \in before' <=>
                \/ y = b /\ x # b
                \/ x # b /\ y # b /\ <<x, y>> \in before
  BY <1>1 DEF ToEnd
<1>2. before' \subseteq Queued \X Queued
  BY DEF ToEnd
<1>3. QED
  BY <1>1, <1>2 DEF Ahead

-----------------------------------------------------------------------------
(* A boleto that keeps its wait and is not further behind.                  *)
LEMMA WaitIsKept ==
    ASSUME PollingInv, NEW b \in Queued, waited'[b] = waited[b], Ahead(b)' \subseteq Ahead(b)
    PROVE  WaitInv(b)'
<1>1. waited[b] * Gain \in Nat /\ WaitInv(b)
  BY TimesGain DEF PollingInv, PollingTypes
<1>2. Cardinality(Ahead(b)') <= Cardinality(Ahead(b)) /\ Cardinality(Ahead(b)') \in Nat
      /\ Cardinality(Ahead(b)) \in Nat /\ Rivals \in Nat
  BY CountsOfTurns, AheadIsFinite
<1>3. QED
  BY <1>1, <1>2 DEF WaitInv, Gain, Rivals

\* One whose wait begins anew has at most all the others before it.
LEMMA WaitBegins ==
    ASSUME NEW b \in Queued, waited'[b] = 0
    PROVE  WaitInv(b)'
<1>1. 0 * Gain = 0 /\ Gain \in Nat
  BY TimesGain
<1>2. (Cardinality(Ahead(b)) <= Rivals)'
  <2>1. IsFiniteSet(Queued \ {b}) /\ Cardinality(Queued \ {b}) = Rivals
    BY PollingTable, FS_RemoveElement DEF Rivals
  <2>2. Ahead(b)' \subseteq Queued \ {b}
    BY DEF Ahead
  <2>3. QED
    BY <2>1, <2>2, FS_Subset DEF Rivals
<1>3. waited'[b] * Gain = 0
  BY <1>1
<1>4. Cardinality(Ahead(b)') \in Nat /\ Rivals \in Nat
  <2>1. Ahead(b)' \subseteq Queued \ {b}
    BY DEF Ahead
  <2>2. IsFiniteSet(Queued \ {b}) /\ Cardinality(Queued \ {b}) = Rivals
    BY PollingTable, FS_RemoveElement DEF Rivals
  <2>3. QED
    BY <2>1, <2>2, FS_Subset, FS_CardinalityType
<1>5. QED
  BY <1>2, <1>3, <1>4 DEF WaitInv, Gain, Rivals

\* A turn that goes on passing over b, when nothing but what failed is left more.
LEMMA TurnIsKept ==
    ASSUME PollingInv, NEW p \in Pollers, NEW b \in Queued, PassesOver(p, b),
           waited'[b] = waited[b], Ahead(b)' \subseteq Ahead(b),
           turn'[p].failed \in Nat,
           \/ Rest(p, b)' \subseteq Rest(p, b) /\ turn'[p].failed = turn[p].failed
           \/ \E d \in Queued : /\ Rest(p, b)' \subseteq Rest(p, b) \cup {d}
                                /\ turn'[p].failed = turn[p].failed + 1
    PROVE  TurnInv(p, b)'
<1>1. /\ waited[b] * Gain \in Nat /\ turn[p].failed \in Nat
      /\ waited[b] * Gain + BatchLimit <= Rivals
      /\ waited[b] * Gain + Cardinality(Rest(p, b)) + BatchLimit
            <= Rivals + turn[p].failed
  BY TimesGain DEF PollingInv, PollingTypes, TurnInv, PassesOver, UnderWay
<1>2. /\ IsFiniteSet(Rest(p, b)) /\ Cardinality(Rest(p, b)) \in Nat
      /\ IsFiniteSet(Rest(p, b)') /\ Cardinality(Rest(p, b)') \in Nat
      /\ Rivals \in Nat /\ BatchLimit \in Nat
  <2>1. Rest(p, b) \subseteq Ahead(b) /\ Rest(p, b)' \subseteq Ahead(b)
    BY DEF Rest
  <2>2. QED
    BY <2>1, AheadIsFinite, PollingBounds
<1>3. Cardinality(Rest(p, b)') <= Cardinality(Rest(p, b)) + turn'[p].failed - turn[p].failed
  <2>1. CASE Rest(p, b)' \subseteq Rest(p, b) /\ turn'[p].failed = turn[p].failed
    BY <1>1, <1>2, <2>1, FS_Subset
  <2>2. ASSUME NEW d \in Queued, Rest(p, b)' \subseteq Rest(p, b) \cup {d},
               turn'[p].failed = turn[p].failed + 1
        PROVE  Cardinality(Rest(p, b)') <= Cardinality(Rest(p, b)) + 1
    <3>1. /\ IsFiniteSet(Rest(p, b) \cup {d})
          /\ Cardinality(Rest(p, b) \cup {d}) <= Cardinality(Rest(p, b)) + 1
      <4>1. PICK S : S = Rest(p, b)
        OBVIOUS
      <4>2. IsFiniteSet(S) /\ Cardinality(S) \in Nat
        BY <1>2, <4>1
      <4>3. /\ IsFiniteSet(S \cup {d})
            /\ Cardinality(S \cup {d}) = Cardinality(S)
               \/ Cardinality(S \cup {d}) = Cardinality(S) + 1
        BY <4>2, FS_AddElement
      <4>4. Cardinality(S \cup {d}) <= Cardinality(S) + 1
        BY <4>2, <4>3
      <4>5. QED
        BY <4>1, <4>3, <4>4
    <3>2. Cardinality(Rest(p, b)') <= Cardinality(Rest(p, b) \cup {d})
          /\ Cardinality(Rest(p, b) \cup {d}) \in Nat
      BY <2>2, <3>1, FS_Subset, FS_CardinalityType
    <3>3. QED
      BY <1>2, <3>1, <3>2
  <2>3. QED
    BY <1>1, <1>2, <2>1, <2>2
<1> DEFINE c == Cardinality(Rest(p, b))
           w == waited[b] * Gain
           f == turn[p].failed
<1>4. waited'[b] * Gain + BatchLimit <= Rivals
  BY <1>1
<1>5. waited'[b] * Gain + Cardinality(Rest(p, b)') + BatchLimit <= Rivals + turn'[p].failed
  <2>1. c \in Nat /\ w \in Nat /\ f \in Nat
        /\ w + c + BatchLimit <= Rivals + f
        /\ Cardinality(Rest(p, b)') <= c + turn'[p].failed - f
        /\ waited'[b] * Gain = w
    BY <1>1, <1>2, <1>3
  <2> HIDE DEF c, w, f
  <2>2. QED
    BY <1>2, <2>1
<1>6. QED
  BY <1>4, <1>5 DEF TurnInv, Gain, Rivals

(* A boleto c is renewed, and perhaps consulted: it leaves what turns have to *)
(* do only by going behind the others.                                      *)
LEMMA RenewalKeeps ==
    ASSUME PollingInv, NEW c \in Queued, pollable' \subseteq Queued,
           turn' \in [Pollers -> {NoTurn} \cup UnderWay],
           waited' = [waited EXCEPT ![c] = 0],
           \A q \in Pollers : turn'[q] # NoTurn =>
              /\ turn[q] # NoTurn /\ turn'[q].alone = turn[q].alone
              /\ turn'[q].failed = turn[q].failed
              /\ turn'[q].missed = turn[q].missed \ {c}
              /\ \/ turn'[q].todo = turn[q].todo
                 \/ /\ before' = ToEnd(c)
                    /\ ToSet(turn[q].todo) \subseteq ToSet(turn'[q].todo) \cup {c},
           before' \in {before, ToEnd(c)}
    PROVE  PollingInv'
<1>0. PollingTypes /\ \A b \in Queued : <<b, b>> \notin before
  BY DEF PollingInv
<1>1. /\ before' \subseteq Queued \X Queued
      /\ \A b \in Queued : <<b, b>> \notin before'
      /\ \A b \in Queued \ {c} : /\ Ahead(b)' \subseteq Ahead(b)
                                 /\ before' = ToEnd(c) => Ahead(b)' = Ahead(b) \ {c}
  <2>1. CASE before' = before
    <3>1. CASE before' = ToEnd(c)
      BY <1>0, <3>1, EndIsLast DEF PollingTypes
    <3>2. CASE before' # ToEnd(c)
      BY <1>0, <2>1, <3>2 DEF PollingTypes, Ahead
    <3>3. QED
      BY <3>1, <3>2
  <2>2. CASE before' = ToEnd(c)
    BY <1>0, <2>2, EndIsLast DEF PollingTypes
  <2>3. QED
    BY <2>1, <2>2
<1>2. /\ waited' \in [Queued -> Nat] /\ waited'[c] = 0
      /\ \A b \in Queued \ {c} : waited'[b] = waited[b]
  BY <1>0 DEF PollingTypes
<1>3. PollingTypes'
  BY <1>1, <1>2 DEF PollingTypes, UnderWay
<1>4. ASSUME NEW b \in Queued PROVE WaitInv(b)'
  <2>1. CASE b = c
    BY <1>2, <2>1, WaitBegins
  <2>2. CASE b # c
    BY <1>1, <1>2, <2>2, WaitIsKept
  <2>3. QED
    BY <2>1, <2>2
<1>5. ASSUME NEW p \in Pollers, NEW b \in Queued PROVE TurnInv(p, b)'
  <2> SUFFICES ASSUME PassesOver(p, b)' PROVE TurnInv(p, b)'
    BY DEF TurnInv
  <2>1. b # c /\ PassesOver(p, b)
    BY DEF PassesOver
  <2>2. turn'[p] # NoTurn /\ turn'[p] \in UnderWay
    BY DEF PassesOver
  <2>3. turn'[p].failed = turn[p].failed /\ turn'[p].failed \in Nat
    BY <2>2 DEF UnderWay
  <2>4. Rest(p, b)' \subseteq Rest(p, b)
    <3>1. CASE turn'[p].todo = turn[p].todo
      BY <1>1, <2>1, <3>1 DEF Rest
    <3>2. CASE /\ before' = ToEnd(c)
               /\ ToSet(turn[p].todo) \subseteq ToSet(turn'[p].todo) \cup {c}
      BY <1>1, <2>1, <3>2 DEF Rest
    <3>3. QED
      BY <2>2, <3>1, <3>2
  <2>5. QED
    BY <1>1, <1>2, <2>1, <2>3, <2>4, TurnIsKept
<1>6. \A p \in Pollers, q \in Pollers :
         turn'[p] # NoTurn /\ turn'[q] # NoTurn /\ turn'[p].alone /\ turn'[q].alone => p = q
  BY DEF PollingInv
<1>7. QED
  BY <1>1, <1>3, <1>4, <1>5, <1>6 DEF PollingInv

(* A turn begins, dies or has a consultation that fails: no boleto moves.    *)
LEMMA OneTurnMoves ==
    ASSUME PollingInv, UNCHANGED <<before, pollable, waited>>,
           NEW p \in Pollers, NEW t \in {NoTurn} \cup UnderWay,
           turn' = [turn EXCEPT ![p] = t],
           \A q \in Pollers \ {p} :
              t # NoTurn /\ t.alone /\ turn[q] # NoTurn => ~ turn[q].alone,
           \A b \in Queued : TurnInv(p, b)'
    PROVE  PollingInv'
<1>1. PollingTypes' /\ \A b \in Queued : <<b, b>> \notin before'
  BY DEF PollingInv, PollingTypes
<1>2. turn'[p] = t /\ \A q \in Pollers \ {p} : turn'[q] = turn[q]
  BY DEF PollingInv, PollingTypes
<1>3. \A b \in Queued : WaitInv(b)'
  BY DEF PollingInv, WaitInv, Ahead, Gain, Rivals
<1>4. ASSUME NEW q \in Pollers, NEW b \in Queued PROVE TurnInv(q, b)'
  <2>1. CASE q = p
    BY <2>1
  <2>2. CASE q # p
    BY <1>2, <2>2 DEF PollingInv, TurnInv, PassesOver, Rest, Ahead, Gain, Rivals
  <2>3. QED
    BY <2>1, <2>2
<1>5. \A r \in Pollers, q \in Pollers :
         turn'[r] # NoTurn /\ turn'[q] # NoTurn /\ turn'[r].alone /\ turn'[q].alone => r = q
  BY <1>2 DEF PollingInv
<1>6. QED
  BY <1>1, <1>3, <1>4, <1>5 DEF PollingInv

\* What the query returns is a list of boletos.
LEMMA ListIsOfBoletos ==
    ASSUME PollingTypes, NEW list \in ListForProviderSync
    PROVE  list \in Seq(Queued)
<1> DEFINE n == Fewer(BatchLimit, Cardinality(pollable))
<1>1. list \in [1 .. n -> pollable]
  BY DEF ListForProviderSync
<1>2. n \in Nat
  BY PollingTable, PollingBounds, FS_Subset, FS_CardinalityType DEF Fewer, PollingTypes
<1> HIDE DEF n
<1>3. list \in [1 .. n -> Queued]
  BY <1>1 DEF PollingTypes
<1>4. QED
  BY <1>2, <1>3, SeqDef

(* A turn that leaves b out has filled its batch from before b.             *)
LEMMA BatchIsAhead ==
    ASSUME PollingInv, NEW list \in ListForProviderSync, NEW b \in pollable \ ToSet(list)
    PROVE  /\ ToSet(list) \subseteq Ahead(b)
           /\ Cardinality(ToSet(list)) = BatchLimit
<1> DEFINE n == Fewer(BatchLimit, Cardinality(pollable))
<1>1. /\ list \in [1 .. n -> pollable] /\ DOMAIN list = 1 .. n
      /\ \A i \in 1 .. n, j \in 1 .. n : i < j => <<list[i], list[j]>> \in before
      /\ \A i \in 1 .. n : <<list[i], b>> \in before
  BY DEF ListForProviderSync
<1>2. pollable \subseteq Queued /\ \A d \in Queued : <<d, d>> \notin before
  BY DEF PollingInv, PollingTypes
<1>3. IsFiniteSet(pollable) /\ Cardinality(pollable) \in Nat
  BY <1>2, PollingTable, FS_Subset, FS_CardinalityType
<1>4. n \in Nat /\ BatchLimit \in Nat
      /\ n <= Cardinality(pollable) /\ (n = BatchLimit \/ n = Cardinality(pollable))
  BY <1>3, PollingBounds DEF Fewer
<1> HIDE DEF n
<1>5. ToSet(list) \subseteq Ahead(b)
  <2>1. ASSUME NEW i \in 1 .. n PROVE list[i] \in Ahead(b)
    BY <1>1, <1>2 DEF Ahead
  <2>2. QED
    BY <1>1, <2>1 DEF ToSet
<1>6. Cardinality(ToSet(list)) = n
  <2>1. ASSUME NEW i \in 1 .. n, NEW j \in 1 .. n, list[i] = list[j]
        PROVE  i = j
    <3>1. list[i] \in Queued
      BY <1>1, <1>2
    <3>2. ~ (i < j) /\ ~ (j < i)
      BY <1>1, <1>2, <2>1, <3>1
    <3>3. QED
      BY <1>4, <3>2
  <2>2. list \in Bijection(1 .. n, ToSet(list))
    BY <1>1, <2>1 DEF Bijection, Injection, Surjection, ToSet, IsInjective
  <2>3. ExistsBijection(1 .. n, ToSet(list))
    BY <2>2 DEF ExistsBijection
  <2>4. IsFiniteSet(1 .. n) /\ Cardinality(1 .. n) = n
    BY <1>4, FS_Interval
  <2>5. QED
    BY <2>3, <2>4, FS_Bijection
<1>7. n = BatchLimit
  <2>1. ToSet(list) \subseteq pollable
    BY <1>1 DEF ToSet
  <2>2. ToSet(list) # pollable /\ ToSet(list) \subseteq pollable
    BY <2>1
  <2>3. Cardinality(ToSet(list)) # Cardinality(pollable)
    BY <1>3, <2>2, FS_Subset
  <2>4. QED
    BY <1>4, <1>6, <2>3
<1>8. QED
  BY <1>5, <1>6, <1>7

(* Taking the next boleto of a turn leaves the others.                      *)
LEMMA NextOfTurn ==
    ASSUME NEW s \in Seq(Queued), s # <<>>
    PROVE  /\ Head(s) \in Queued /\ Tail(s) \in Seq(Queued)
           /\ ToSet(s) \subseteq ToSet(Tail(s)) \cup {Head(s)}
<1>1. /\ Head(s) \in Queued /\ Tail(s) \in Seq(Queued)
      /\ Len(Tail(s)) = Len(s) - 1
      /\ \A i \in 1 .. Len(Tail(s)) : Tail(s)[i] = s[i + 1]
  BY HeadTailProperties
<1>2. DOMAIN s = 1 .. Len(s) /\ DOMAIN Tail(s) = 1 .. Len(s) - 1 /\ Len(s) \in Nat
      /\ Head(s) = s[1]
  BY <1>1, LenProperties DEF Head
<1>3. ASSUME NEW i \in 1 .. Len(s) PROVE s[i] \in ToSet(Tail(s)) \cup {Head(s)}
  <2>1. CASE i = 1
    BY <1>2, <2>1
  <2>2. CASE i # 1
    <3>1. i - 1 \in 1 .. Len(Tail(s)) /\ i - 1 \in DOMAIN Tail(s)
      BY <1>1, <1>2, <2>2
    <3>2. Tail(s)[i - 1] = s[i]
      BY <1>1, <3>1
    <3>3. QED
      BY <3>1, <3>2 DEF ToSet
  <2>3. QED
    BY <2>1, <2>2
<1>4. QED
  BY <1>1, <1>2, <1>3 DEF ToSet

(* A turn ends, and counts against those it left out if it was alone.       *)
LEMMA EndsAreCounted ==
    ASSUME PollingInv, NEW p \in Pollers, TurnEnds(p)
    PROVE  PollingInv'
<1>0. /\ PollingTypes /\ UNCHANGED <<before, pollable>>
      /\ turn' = [turn EXCEPT ![p] = NoTurn]
      /\ turn[p] # NoTurn /\ turn[p] \in UnderWay /\ turn[p].todo = <<>>
      /\ turn[p].failed \in Nat
  BY DEF PollingInv, PollingTypes, TurnEnds, UnderWay
<1>1. turn'[p] = NoTurn /\ \A q \in Pollers \ {p} : turn'[q] = turn[q]
  BY <1>0 DEF PollingTypes
<1>2. ASSUME NEW b \in Queued
      PROVE  \/ waited'[b] = waited[b]
             \/ /\ waited'[b] = waited[b] + 1
                /\ PassesOver(p, b) /\ turn[p].failed <= Tolerated
  BY <1>0 DEF TurnEnds, PassesOver
<1>3. \A b \in Queued : waited[b] \in Nat
  BY <1>0 DEF PollingTypes
<1>4. PollingTypes'
  <2>1. \A b \in Queued : waited'[b] \in Nat
    BY <1>2, <1>3
  <2>2. waited' \in [Queued -> Nat]
    BY <2>1 DEF TurnEnds
  <2>3. QED
    BY <1>0, <2>2 DEF PollingTypes
<1>5. \A b \in Queued : Ahead(b)' = Ahead(b)
  BY <1>0 DEF Ahead
<1>6. ASSUME NEW b \in Queued PROVE WaitInv(b)'
  <2>1. CASE waited'[b] = waited[b]
    BY <1>5, <2>1, WaitIsKept
  <2>2. CASE /\ waited'[b] = waited[b] + 1
             /\ PassesOver(p, b) /\ turn[p].failed <= Tolerated
    <3> DEFINE w == waited[b] * Gain
               c == Cardinality(Ahead(b))
    <3>1. /\ w \in Nat /\ (waited[b] + 1) * Gain = w + Gain
          /\ Gain = BatchLimit - Tolerated /\ BatchLimit \in Nat /\ Tolerated \in Nat
          /\ Gain \in Nat
      BY <1>3, TimesGain
    <3>2. c \in Nat /\ Rivals \in Nat
      BY AheadIsFinite
    <3>3. Rest(p, b) = Ahead(b)
      BY <1>0 DEF Rest, ToSet
    <3>4. /\ w + BatchLimit <= Rivals
          /\ w + c + BatchLimit <= Rivals + turn[p].failed
      BY <2>2, <3>3 DEF PollingInv, TurnInv
    <3>5. waited'[b] * Gain = w + Gain /\ (waited'[b] - 1) * Gain = w
      BY <1>3, <2>2, <3>1
    <3>6. Cardinality(Ahead(b)') = c
      BY <1>5
    <3> HIDE DEF w, c
    <3>7. /\ waited'[b] * Gain + Cardinality(Ahead(b)') <= Rivals
          /\ (waited'[b] - 1) * Gain + BatchLimit <= Rivals
      BY <1>0, <2>2, <3>1, <3>2, <3>4, <3>5, <3>6
    <3>8. QED
      BY <3>7 DEF WaitInv, Gain, Rivals
  <2>3. QED
    BY <1>2, <2>1, <2>2
<1>7. ASSUME NEW q \in Pollers, NEW b \in Queued PROVE TurnInv(q, b)'
  <2> SUFFICES ASSUME PassesOver(q, b)' PROVE TurnInv(q, b)'
    BY DEF TurnInv
  <2>1. q # p /\ turn'[q] = turn[q] /\ PassesOver(q, b)
    BY <1>1 DEF PassesOver
  <2>2. ~ PassesOver(p, b)
    BY <2>1 DEF PollingInv, PassesOver
  <2>3. waited'[b] = waited[b]
    BY <1>2, <2>2
  <2>4. TurnInv(q, b)
    BY DEF PollingInv
  <2>5. Rest(q, b)' = Rest(q, b)
    BY <1>5, <2>1 DEF Rest
  <2>6. QED
    BY <2>1, <2>3, <2>4, <2>5 DEF TurnInv, Gain, Rivals
<1>8. \A r \in Pollers, q \in Pollers :
         turn'[r] # NoTurn /\ turn'[q] # NoTurn /\ turn'[r].alone /\ turn'[q].alone => r = q
  BY <1>1 DEF PollingInv
<1>9. \A b \in Queued : <<b, b>> \notin before'
  BY <1>0 DEF PollingInv
<1>10. QED
  BY <1>4, <1>6, <1>7, <1>8, <1>9 DEF PollingInv

\* A turn that begins and leaves b out has its batch to take from before b.
LEMMA TurnsBeginAhead ==
    ASSUME PollingInv, NEW p \in Pollers, TurnBegins(p)
    PROVE  PollingInv'
<1>0. PollingTypes
  BY DEF PollingInv
<1>1. PICK list \in ListForProviderSync :
         turn' = [turn EXCEPT ![p] =
                    [todo |-> list, on |-> TRUE, failed |-> 0,
                     missed |-> pollable \ ToSet(list), alone |-> Running = {}]]
  BY DEF TurnBegins
<1>2. PICK t : t = [todo |-> list, on |-> TRUE, failed |-> 0,
                    missed |-> pollable \ ToSet(list), alone |-> Running = {}]
  OBVIOUS
<1>3. turn' = [turn EXCEPT ![p] = t] /\ UNCHANGED <<before, pollable, waited>>
  BY <1>1, <1>2 DEF TurnBegins
<1>4. t \in UnderWay
  <2>1. list \in Seq(Queued) /\ (Running = {}) \in BOOLEAN
    BY <1>0, ListIsOfBoletos
  <2>2. pollable \ ToSet(list) \subseteq Queued
    BY <1>0 DEF PollingTypes
  <2> DEFINE alone == Running = {}
  <2> HIDE DEF alone
  <2>3. alone \in BOOLEAN
    BY <2>1 DEF alone
  <2>4. t = [todo |-> list, on |-> TRUE, failed |-> 0,
             missed |-> pollable \ ToSet(list), alone |-> alone]
    BY <1>2 DEF alone
  <2>5. QED
    BY <2>1, <2>2, <2>3, <2>4 DEF UnderWay
<1>5. /\ turn'[p] = t /\ t.todo = list /\ t.failed = 0
      /\ t.missed = pollable \ ToSet(list) /\ (t.alone => Running = {})
  BY <1>0, <1>2, <1>3 DEF PollingTypes
<1>6. \A q \in Pollers \ {p} : t # NoTurn /\ t.alone /\ turn[q] # NoTurn => ~ turn[q].alone
  BY <1>5 DEF Running
<1>7. ASSUME NEW b \in Queued PROVE TurnInv(p, b)'
  <2> SUFFICES ASSUME PassesOver(p, b)' PROVE TurnInv(p, b)'
    BY DEF TurnInv
  <2>1. b \in pollable \ ToSet(list)
    BY <1>5 DEF PassesOver
  <2>2. ToSet(list) \subseteq Ahead(b) /\ Cardinality(ToSet(list)) = BatchLimit
    BY <2>1, BatchIsAhead
  <2> DEFINE A == Ahead(b)
             L == ToSet(list)
             w == waited[b] * Gain
  <2>3. /\ IsFiniteSet(A) /\ Cardinality(A) \in Nat /\ Rivals \in Nat
        /\ BatchLimit \in Nat /\ w \in Nat
    BY <1>0, AheadIsFinite, PollingBounds, TimesGain DEF PollingTypes
  <2>4. w + Cardinality(A) <= Rivals
    BY DEF PollingInv, WaitInv
  <2>5. Rest(p, b)' = A \ L
    BY <1>3, <1>5 DEF Rest, Ahead
  <2>6. waited'[b] * Gain = w
    BY <1>3
  <2>7. L \subseteq A /\ Cardinality(L) = BatchLimit
    BY <2>2
  <2> HIDE DEF A, L, w
  <2>8. A \cap L = L
    BY <2>7
  <2>9. Cardinality(A \ L) = Cardinality(A) - BatchLimit
        /\ BatchLimit <= Cardinality(A)
    <3>1. Cardinality(A \ L) = Cardinality(A) - Cardinality(A \cap L)
      BY <2>3, FS_Difference
    <3>2. Cardinality(L) <= Cardinality(A)
      BY <2>3, <2>7, FS_Subset
    <3>3. QED
      BY <2>7, <2>8, <3>1, <3>2
  <2>10. /\ w + BatchLimit <= Rivals
         /\ w + (Cardinality(A) - BatchLimit) + BatchLimit <= Rivals + 0
    BY <2>3, <2>4, <2>9
  <2>11. /\ waited'[b] * Gain + BatchLimit <= Rivals
         /\ waited'[b] * Gain + Cardinality(Rest(p, b)') + BatchLimit
               <= Rivals + turn'[p].failed
    BY <1>5, <2>5, <2>6, <2>9, <2>10
  <2>12. QED
    BY <2>11 DEF TurnInv, Gain, Rivals
<1>8. QED
  BY <1>3, <1>4, <1>6, <1>7, OneTurnMoves

(* A turn with something to do is under way.                                *)
LEMMA TurnHasNext ==
    ASSUME PollingTypes, NEW p \in Pollers, turn[p].todo # <<>>
    PROVE  /\ turn[p] # NoTurn /\ turn[p] \in UnderWay /\ turn[p].todo \in Seq(Queued)
           /\ turn[p].failed \in Nat
<1>1. turn[p] # NoTurn
  BY DEF NoTurn
<1>2. turn[p] \in UnderWay
  BY <1>1 DEF PollingTypes
<1>3. QED
  BY <1>1, <1>2 DEF UnderWay

\* A boleto that is given a new place is no longer missed by any turn.
LEMMA RenewedTurn ==
    ASSUME PollingTypes, NEW q \in Pollers, NEW b \in Queued
    PROVE  /\ Renewed(turn, b)[q] \in {NoTurn} \cup UnderWay
           /\ Renewed(turn, b)[q] # NoTurn =>
                 /\ turn[q] # NoTurn
                 /\ Renewed(turn, b)[q].alone = turn[q].alone
                 /\ Renewed(turn, b)[q].failed = turn[q].failed
                 /\ Renewed(turn, b)[q].missed = turn[q].missed \ {b}
                 /\ Renewed(turn, b)[q].todo = turn[q].todo
<1>1. CASE turn[q] = NoTurn
  BY <1>1 DEF Renewed
<1>2. CASE turn[q] # NoTurn
  <2>1. turn[q] \in UnderWay
    BY <1>2 DEF PollingTypes
  <2>2. PICK m \in SUBSET Queued : m = turn[q].missed \ {b}
    BY <2>1 DEF UnderWay
  <2>3. Renewed(turn, b)[q] = [turn[q] EXCEPT !.missed = m]
    BY <1>2, <2>2 DEF Renewed
  <2>4. QED
    BY <1>2, <2>1, <2>2, <2>3 DEF UnderWay
<1>3. QED
  BY <1>1, <1>2

\* The bound as an invariant of the steps, one action at a time.
LEMMA PollingInvHolds == PollingSpec => []PollingInv
<1>1. PollingInit => PollingInv
  <2> SUFFICES ASSUME PollingInit PROVE PollingInv
    OBVIOUS
  <2>1. PollingTypes
    BY DEF PollingInit, PollingTypes
  <2>2. \A p \in Pollers : turn[p] = NoTurn
    BY DEF PollingInit
  <2>3. ASSUME NEW b \in Queued PROVE WaitInv(b)
    <3>1. Ahead(b) = {} /\ waited[b] = 0
      BY DEF PollingInit, Ahead
    <3>2. waited[b] * Gain = 0
      BY <3>1, TimesGain
    <3>3. Cardinality(Ahead(b)) \in Nat /\ Cardinality(Ahead(b)) <= Rivals
          /\ Rivals \in Nat
      BY AheadIsFinite
    <3>4. QED
      BY <3>1, <3>2, <3>3 DEF WaitInv
  <2>4. QED
    BY <2>1, <2>2, <2>3 DEF PollingInv, PollingInit, TurnInv, PassesOver
<1>2. PollingInv /\ [PollingNext]_pollingVars => PollingInv'
  <2> SUFFICES ASSUME PollingInv, [PollingNext]_pollingVars PROVE PollingInv'
    OBVIOUS
  <2>t. PollingTypes
    BY DEF PollingInv
  <2>1. CASE UNCHANGED <<before, pollable, turn, waited>>
    BY <2>1 DEF PollingInv, PollingTypes, WaitInv, TurnInv, PassesOver, Rest,
       Ahead, Gain, Rivals
  <2>2. ASSUME NEW b \in Queued, NEW polled \in BOOLEAN, RowUpdated(b, polled)
        PROVE  PollingInv'
    <3>1. pollable' \subseteq Queued
      BY <2>2, <2>t DEF RowUpdated, PollingTypes
    <3>2. CASE b \in synced /\ polled
      <4>1. UNCHANGED <<before, turn, waited>>
        BY <2>2, <3>2 DEF RowUpdated
      <4>2. QED
        BY <3>1, <4>1 DEF PollingInv, PollingTypes, WaitInv, TurnInv, PassesOver,
           Rest, Ahead, Gain, Rivals
    <3>3. CASE ~ (b \in synced /\ polled)
      <4>1. turn' = Renewed(turn, b) /\ waited' = [waited EXCEPT ![b] = 0]
            /\ before' \in {before, ToEnd(b)}
        BY <2>2, <3>3 DEF RowUpdated
      <4>2. ASSUME NEW q \in Pollers
            PROVE  /\ turn'[q] \in {NoTurn} \cup UnderWay
                   /\ turn'[q] # NoTurn =>
                         /\ turn[q] # NoTurn /\ turn'[q].alone = turn[q].alone
                         /\ turn'[q].failed = turn[q].failed
                         /\ turn'[q].missed = turn[q].missed \ {b}
                         /\ turn'[q].todo = turn[q].todo
        BY <2>t, <4>1, RenewedTurn
      <4>3. turn' \in [Pollers -> {NoTurn} \cup UnderWay]
        BY <4>1, <4>2 DEF Renewed
      <4>4. QED
        BY <3>1, <4>1, <4>2, <4>3, RenewalKeeps
    <3>4. QED
      BY <3>2, <3>3
  <2>3. ASSUME NEW p \in Pollers, TurnConsults(p)
        PROVE  PollingInv'
    <3>1. turn[p] # NoTurn /\ turn[p] \in UnderWay /\ turn[p].todo \in Seq(Queued)
          /\ turn[p].todo # <<>>
      BY <2>3, <2>t, TurnHasNext DEF TurnConsults
    <3>2. PICK b : b = Head(turn[p].todo)
      OBVIOUS
    <3>3. b \in Queued /\ Tail(turn[p].todo) \in Seq(Queued)
          /\ ToSet(turn[p].todo) \subseteq ToSet(Tail(turn[p].todo)) \cup {b}
      BY <3>1, <3>2, NextOfTurn
    <3>4. /\ before' = ToEnd(b) /\ waited' = [waited EXCEPT ![b] = 0]
          /\ pollable' = pollable
          /\ turn' = [Renewed(turn, b) EXCEPT ![p].todo = Tail(@)]
      BY <2>3, <3>2 DEF TurnConsults, MarkProviderSynced
    <3>5. PICK r : r = [turn[p] EXCEPT !.missed = turn[p].missed \ {b}]
      OBVIOUS
    <3>6. r \in UnderWay /\ r.todo = turn[p].todo /\ r.alone = turn[p].alone
          /\ r.failed = turn[p].failed /\ r.missed = turn[p].missed \ {b}
      BY <3>1, <3>5 DEF UnderWay
    <3>7. Renewed(turn, b)[p] = r
      BY <3>1, <3>5 DEF Renewed
    <3>8. PICK t : t = [r EXCEPT !.todo = Tail(turn[p].todo)]
      OBVIOUS
    <3>9. t \in UnderWay /\ t.todo = Tail(turn[p].todo) /\ t.alone = turn[p].alone
          /\ t.failed = turn[p].failed /\ t.missed = turn[p].missed \ {b}
      BY <3>3, <3>6, <3>8 DEF UnderWay
    <3>10. turn'[p] = t
      BY <3>4, <3>6, <3>7, <3>8 DEF Renewed
    <3>11. ASSUME NEW q \in Pollers \ {p}
           PROVE  /\ turn'[q] \in {NoTurn} \cup UnderWay
                  /\ turn'[q] # NoTurn =>
                        /\ turn[q] # NoTurn /\ turn'[q].alone = turn[q].alone
                        /\ turn'[q].failed = turn[q].failed
                        /\ turn'[q].missed = turn[q].missed \ {b}
                        /\ turn'[q].todo = turn[q].todo
      <4>1. turn'[q] = Renewed(turn, b)[q]
        BY <3>4 DEF Renewed
      <4>2. QED
        BY <2>t, <3>3, <4>1, RenewedTurn
    <3>12. turn' \in [Pollers -> {NoTurn} \cup UnderWay]
      <4>1. \A q \in Pollers : turn'[q] \in {NoTurn} \cup UnderWay
        BY <3>9, <3>10, <3>11
      <4>2. QED
        BY <3>4, <4>1 DEF Renewed
    <3>13. \A q \in Pollers : turn'[q] # NoTurn =>
              /\ turn[q] # NoTurn /\ turn'[q].alone = turn[q].alone
              /\ turn'[q].failed = turn[q].failed
              /\ turn'[q].missed = turn[q].missed \ {b}
              /\ \/ turn'[q].todo = turn[q].todo
                 \/ /\ before' = ToEnd(b)
                    /\ ToSet(turn[q].todo) \subseteq ToSet(turn'[q].todo) \cup {b}
      BY <3>1, <3>3, <3>4, <3>9, <3>10, <3>11
    <3>14. pollable' \subseteq Queued
      BY <2>t, <3>4 DEF PollingTypes
    <3>15. QED
      BY <3>3, <3>4, <3>12, <3>13, <3>14, RenewalKeeps
  <2>4. ASSUME NEW p \in Pollers, ConsultationFails(p)
        PROVE  PollingInv'
    <3>1. turn[p] # NoTurn /\ turn[p] \in UnderWay /\ turn[p].todo \in Seq(Queued)
          /\ turn[p].todo # <<>> /\ turn[p].failed \in Nat
      BY <2>4, <2>t, TurnHasNext DEF ConsultationFails
    <3>2. PICK b : b = Head(turn[p].todo)
      OBVIOUS
    <3>3. b \in Queued /\ Tail(turn[p].todo) \in Seq(Queued)
          /\ ToSet(turn[p].todo) \subseteq ToSet(Tail(turn[p].todo)) \cup {b}
      BY <3>1, <3>2, NextOfTurn
    <3>4. PICK t : t = [turn[p] EXCEPT !.todo = Tail(turn[p].todo),
                                       !.failed = turn[p].failed + 1]
      OBVIOUS
    <3>5. /\ t \in UnderWay /\ t.todo = Tail(turn[p].todo)
          /\ t.failed = turn[p].failed + 1 /\ t.failed \in Nat
          /\ t.alone = turn[p].alone /\ t.missed = turn[p].missed
      <4>1. PICK s \in Seq(Queued) : s = Tail(turn[p].todo)
        BY <3>3
      <4>2. turn[p].failed + 1 \in Nat
        BY <3>1
      <4>3. PICK f \in Nat : f = turn[p].failed + 1
        BY <4>2
      <4>4. t = [turn[p] EXCEPT !.todo = s, !.failed = f]
        BY <3>4, <4>1, <4>3
      <4>5. /\ t \in UnderWay /\ t.todo = s /\ t.failed = f
            /\ t.alone = turn[p].alone /\ t.missed = turn[p].missed
        BY <3>1, <4>4 DEF UnderWay
      <4>6. QED
        BY <4>1, <4>3, <4>5
    <3>6. turn' = [turn EXCEPT ![p] = t] /\ UNCHANGED <<before, pollable, waited>>
      BY <2>4, <3>4 DEF ConsultationFails
    <3>7. turn'[p] = t
      BY <2>t, <3>6 DEF PollingTypes
    <3>8. ASSUME NEW d \in Queued PROVE TurnInv(p, d)'
      <4> SUFFICES ASSUME PassesOver(p, d)' PROVE TurnInv(p, d)'
        BY DEF TurnInv
      <4>1. PassesOver(p, d)
        BY <3>1, <3>5, <3>7 DEF PassesOver
      <4>2. Ahead(d)' = Ahead(d)
        BY <3>6 DEF Ahead
      <4>3. Rest(p, d)' \subseteq Rest(p, d) \cup {b}
        BY <3>3, <3>5, <3>7, <4>2 DEF Rest
      <4>4. turn'[p].failed \in Nat /\ turn'[p].failed = turn[p].failed + 1
        BY <3>5, <3>7
      <4>5. waited'[d] = waited[d]
        BY <3>6
      <4>6. QED
        BY <3>3, <4>1, <4>2, <4>3, <4>4, <4>5, TurnIsKept
    <3>9. \A q \in Pollers \ {p} : t # NoTurn /\ t.alone /\ turn[q] # NoTurn =>
             ~ turn[q].alone
      BY <3>1, <3>5 DEF PollingInv
    <3>10. QED
      BY <3>5, <3>6, <3>8, <3>9, OneTurnMoves
  <2>5. ASSUME NEW p \in Pollers, TurnDies(p)
        PROVE  PollingInv'
    <3>1. turn' = [turn EXCEPT ![p] = NoTurn] /\ turn'[p] = NoTurn
          /\ UNCHANGED <<before, pollable, waited>>
      BY <2>5, <2>t DEF TurnDies, PollingTypes
    <3>2. \A b \in Queued : TurnInv(p, b)'
      BY <3>1 DEF TurnInv, PassesOver
    <3>3. QED
      BY <3>1, <3>2, OneTurnMoves
  <2>6. ASSUME NEW p \in Pollers, LockIsLost(p)
        PROVE  PollingInv'
    BY <2>1, <2>6 DEF LockIsLost
  <2>7. CASE UNCHANGED pollingVars
    BY <2>1, <2>7 DEF pollingVars
  <2>8. QED
    BY <2>2, <2>3, <2>4, <2>5, <2>6, <2>7, TurnsBeginAhead, EndsAreCounted
       DEF PollingNext, PollerStep
<1>3. QED
  BY <1>1, <1>2, PTL DEF PollingSpec

\* No boleto is passed over for ever: of the turns that count only MaxWait go by
\* without it, for any number of boletos and of processes, any batch and any
\* failures that are tolerated, whoever begins while a lock is lost.
THEOREM NobodyStaysPassedOver == PollingSpec => []NobodyIsPassedOver
<1>1. PollingInv => NobodyIsPassedOver
  <2> SUFFICES ASSUME PollingInv, NEW b \in Queued PROVE waited[b] <= MaxWait
    BY DEF NobodyIsPassedOver
  <2>1. waited[b] \in Nat /\ WaitInv(b)
    BY DEF PollingInv, PollingTypes
  <2> DEFINE N == Cardinality(Queued)
             m == N - 1 - BatchLimit
             k == waited[b] - 1
  <2>2. Rivals = N - 1 /\ Rivals \in Nat /\ BatchLimit \in Nat
        /\ Gain \in Nat \ {0} /\ Gain = BatchLimit - Tolerated /\ N \in Int
    BY AheadIsFinite, TimesGain, PollingTable, FS_CardinalityType DEF Rivals
  <2>3. CASE waited[b] = 0
    <3>1. CASE N <= BatchLimit
      BY <2>3, <3>1 DEF MaxWait
    <3>2. CASE ~ N <= BatchLimit
      <4>1. m \in Nat
        BY <2>2, <3>2
      <4> HIDE DEF m, N
      <4>2. m \div Gain \in Nat
        BY <2>2, <4>1
      <4>3. MaxWait = 1 + m \div Gain
        BY <3>2 DEF MaxWait, m, N, Gain
      <4>4. QED
        BY <2>3, <4>2, <4>3
    <3>3. QED
      BY <3>1, <3>2
  <2>4. CASE waited[b] # 0
    <3>1. k \in Nat /\ k * Gain + BatchLimit <= Rivals /\ k + 1 = waited[b]
      BY <2>1, <2>4 DEF WaitInv
    <3> HIDE DEF k, N
    <3>2. k * Gain \in Nat
      BY <3>1, TimesGain
    <3>3. m \in Nat /\ k * Gain <= m /\ ~ N <= BatchLimit
      BY <2>2, <3>1, <3>2
    <3> HIDE DEF m
    <3>4. k <= m \div Gain
      BY <2>2, <3>1, <3>3, TimesIsBounded
    <3>5. MaxWait = 1 + m \div Gain
      BY <3>3 DEF MaxWait, m, N, Gain
    <3>6. m \div Gain \in Nat
      BY <2>2, <3>3
    <3>7. QED
      BY <3>1, <3>4, <3>5, <3>6
  <2>5. QED
    BY <2>3, <2>4
<1>2. QED
  BY <1>1, PollingInvHolds, PTL

-----------------------------------------------------------------------------
(* Dashboard: the loop of the tenants' handler against the queries.         *)

DrawnBoleto == [status: Statuses \cup {"CREATED", "PAID"}, born: Nat,
           paid: Nat \cup {Unknown}]

\* Nobody writes between an answer and its being sent, so that what the loop
\* added up is what it would add up now.
DashboardInv ==
    /\ now \in Nat
    /\ book \in [Drawn -> {Undrawn} \cup DrawnBoleto]
    /\ answer.by = "loop" =>
          /\ answer.window \in Windows
          /\ answer.totals = TenantSummary(answer.window)

\* A dashboard reads nothing but the boletos.
LEMMA SummaryIsOfBook ==
    ASSUME UNCHANGED book, NEW w
    PROVE  TenantSummary(w)' = TenantSummary(w)
BY DEF TenantSummary, SummaryOf, WithStatusIn

\* Every step keeps the boletos typed and the loop's answer that of the boletos.
LEMMA DashboardInvHolds == DashboardSpec => []DashboardInv
<1>1. DashboardInit => DashboardInv
  BY DEF DashboardInit, DashboardInv, NoAnswer, DrawnBoleto
<1>2. DashboardInv /\ [DashboardNext]_dashboardVars => DashboardInv'
  <2> SUFFICES ASSUME DashboardInv, [DashboardNext]_dashboardVars
               PROVE  DashboardInv'
    OBVIOUS
  <2>a. now \in Nat /\ book \in [Drawn -> {Undrawn} \cup DrawnBoleto]
    BY DEF DashboardInv
  <2>b. NoAnswer.by # "loop"
    BY DEF NoAnswer
  <2>1. ASSUME NEW b \in Drawn, NEW status \in Requested, Drawing(b, status)
        PROVE  DashboardInv'
    <3> DEFINE r == [status |-> status, born |-> now,
                     paid |-> IF status = "PAID" THEN now ELSE Unknown]
    <3>1. r \in DrawnBoleto
      BY <2>a DEF DrawnBoleto, Requested
    <3> HIDE DEF r
    <3>2. book' = [book EXCEPT ![b] = r]
      BY <2>1 DEF Drawing, r
    <3>3. QED
      BY <2>1, <2>a, <2>b, <3>1, <3>2 DEF Drawing, DashboardInv
  <2>2. ASSUME NEW b \in Drawn, NEW status \in Statuses, StatusWritten(b, status)
        PROVE  DashboardInv'
    <3>1. book[b] \in DrawnBoleto
      BY <2>2, <2>a DEF StatusWritten
    <3>2. Confirmed(book[b], status) \in Nat \cup {Unknown}
      BY <2>a, <3>1 DEF Confirmed, DrawnBoleto
    <3> DEFINE r == [book[b] EXCEPT !.status = status, !.paid = Confirmed(book[b], status)]
    <3>3. r \in DrawnBoleto
      <4> HIDE DEF Confirmed
      <4>1. QED
        BY <3>1, <3>2 DEF DrawnBoleto
    <3>4. book' = [book EXCEPT ![b] = r]
      BY <2>2, <2>a DEF StatusWritten
    <3> HIDE DEF r
    <3>5. QED
      BY <2>2, <2>a, <2>b, <3>3, <3>4 DEF StatusWritten, DashboardInv
  <2>3. CASE HalfDayPasses
    BY <2>3, <2>a, <2>b DEF HalfDayPasses, DashboardInv
  <2>4. ASSUME NEW w \in Windows, QueriesAnswer(w)
        PROVE  DashboardInv'
    BY <2>4, <2>a DEF QueriesAnswer, Queried, DashboardInv
  <2>5. ASSUME NEW w \in Windows, LoopAnswers(w)
        PROVE  DashboardInv'
    <3>1. answer'.window = w /\ answer'.totals = TenantSummary(w)
      BY <2>5 DEF LoopAnswers
    <3>2. UNCHANGED <<book, now>>
      BY <2>5 DEF LoopAnswers
    <3>3. TenantSummary(w)' = TenantSummary(w)
      BY <3>2, SummaryIsOfBook
    <3>4. TenantSummary(answer.window)' = TenantSummary(w)'
      BY <3>1
    <3>5. QED
      BY <2>a, <3>1, <3>2, <3>3, <3>4 DEF DashboardInv
  <2>6. CASE AnswerSent
    BY <2>6, <2>a, <2>b DEF AnswerSent, DashboardInv
  <2>7. CASE UNCHANGED dashboardVars
    <3>1. UNCHANGED <<book, now, answer>>
      BY <2>7 DEF dashboardVars
    <3>2. TenantSummary(answer.window)' = TenantSummary(answer.window)
      BY <3>1 DEF TenantSummary, SummaryOf, WithStatusIn
    <3>3. QED
      BY <3>1, <3>2 DEF DashboardInv
  <2>8. QED
    BY <2>1, <2>2, <2>3, <2>4, <2>5, <2>6, <2>7 DEF DashboardNext
<1>3. QED
  BY <1>1, <1>2, PTL DEF DashboardSpec

\* The loop a tenant falls back to says what the queries would have said, for
\* any boletos and any window the queries accept: its two bounds differ from
\* theirs at a single instant, the midnight that ends `to`.
THEOREM FallbackAlwaysAgrees == DashboardSpec => []FallbackAgrees
<1>1. DashboardInv => FallbackAgrees
  <2> SUFFICES ASSUME DashboardInv, answer.by = "loop",
                      \A b \in Drawn :
                         ~ (/\ book[b] # Undrawn
                            /\ answer.window.to # Unknown
                            /\ book[b].born = 2 * answer.window.to + 2)
               PROVE  answer.totals = DashboardTotals(answer.window)
    BY DEF FallbackAgrees
  <2> DEFINE w == answer.window
             S == {b \in Drawn :
                     /\ book[b] # Undrawn
                     /\ w.from # Unknown => ~(book[b].born < 2 * w.from)
                     /\ w.to # Unknown => ~(book[b].born > 2 * w.to + 2)}
  <2>1. w \in Windows /\ answer.totals = SummaryOf(S)
    BY DEF DashboardInv, TenantSummary
  <2>2. /\ w.from # Unknown => w.from \in Int
        /\ w.to # Unknown => w.to \in Int
    BY <2>1, DashboardInstants DEF Windows, Day
  <2>3. \A b \in Drawn : book[b] # Undrawn => book[b].born \in Nat
    BY DEF DashboardInv, DrawnBoleto
  <2>4. S = Cohort(w)
    BY <2>2, <2>3 DEF Cohort
  <2> HIDE DEF S
  <2>5. QED
    BY <2>1, <2>4 DEF DashboardTotals
<1>2. QED
  BY <1>1, DashboardInvHolds, PTL

-----------------------------------------------------------------------------
(* Dashboard: the statements of AdminDashboard against each other.          *)

\* The counts of the groups of a GROUP BY add up to all that is grouped.
LEMMA GroupsCountAll ==
    ASSUME NEW S, IsFiniteSet(S), NEW key, NEW X
    PROVE  Counted(Grouped(S, key, X)) = Cardinality(S)
<1> DEFINE K == GroupsOf(S, key)
           groups == Grouped(S, key, X)
           total == [k \in DOMAIN groups |-> groups[k].count]
           one == [b \in S |-> 1]
<1>1. DOMAIN groups = K /\ DOMAIN total = K
  BY DEF Grouped, GroupsOf
<1>2. ASSUME NEW k \in K
      PROVE  total[k] = SumFunctionOnSet(one, {b \in S : key[b] = k})
  <2>1. PICK T : T = {b \in S : key[b] = k}
    OBVIOUS
  <2>2. IsFiniteSet(T) /\ \A b \in T : one[b] = 1
    BY <2>1, FS_Subset
  <2>3. total[k] = Cardinality(T)
    BY <1>1, <2>1 DEF Grouped
  <2> HIDE DEF one, total
  <2>4. SumFunctionOnSet(one, T) = Cardinality(T)
    BY <2>2, CountIsSum
  <2>5. QED
    BY <2>1, <2>3, <2>4
<1>3. IsIntOn(one, S) /\ \A b \in S : one[b] = 1
  BY DEF IsIntOn
<1>4. Counted(groups) = SumFunctionOnSet(total, K)
  BY <1>1 DEF Counted, SumFunction
<1> HIDE DEF total, one, groups
<1>5. AddsUpGroups(total, S, one, key)
  BY <1>2 DEF AddsUpGroups
<1>6. SumFunctionOnSet(total, K) = SumFunctionOnSet(one, S)
  BY <1>3, <1>5, SumOfGroups
<1>7. SumFunctionOnSet(one, S) = Cardinality(S)
  BY <1>3, CountIsSum
<1>8. QED
  BY <1>4, <1>6, <1>7 DEF groups

\* Prices are whole numbers.
LEMMA PricesAreWhole ==
    ASSUME NEW S \in SUBSET Drawn
    PROVE  IsFiniteSet(S) /\ IsIntOn(Price, S)
BY DashboardBoletos, FS_Subset DEF IsIntOn

\* The amounts of the groups add up to the amount of what counts in them.
LEMMA GroupsAddUpAll ==
    ASSUME NEW S \in SUBSET Drawn, NEW key, NEW X
    PROVE  Amount(Grouped(S, key, X)) = CentsOf(S \cap X)
<1> DEFINE K == GroupsOf(S, key)
           groups == Grouped(S, key, X)
           total == [k \in DOMAIN groups |-> groups[k].cents]
           g == [b \in S |-> IF b \in X THEN Price[b] ELSE 0]
<1>1. IsFiniteSet(S) /\ IsIntOn(Price, S) /\ \A b \in S : g[b] = IF b \in X THEN Price[b] ELSE 0
  BY PricesAreWhole
<1>2. DOMAIN groups = K /\ DOMAIN total = K
  BY DEF Grouped, GroupsOf
<1>3. ASSUME NEW k \in K
      PROVE  total[k] = SumFunctionOnSet(g, {b \in S : key[b] = k})
  <2>1. PICK T : T = {b \in S : key[b] = k}
    OBVIOUS
  <2>2. T \in SUBSET Drawn
    BY <2>1
  <2>3. total[k] = SumFunctionOnSet(Price, T \cap X)
    BY <1>2, <2>1 DEF Grouped, CentsOf
  <2>4. IsFiniteSet(T) /\ IsIntOn(Price, T)
    BY <2>2, PricesAreWhole
  <2>5. Filters(g, T, Price, X)
    BY <2>1 DEF Filters
  <2> HIDE DEF g, total
  <2>6. SumFunctionOnSet(g, T) = SumFunctionOnSet(Price, T \cap X)
    BY <2>4, <2>5, SumFiltered
  <2>7. QED
    BY <2>1, <2>3, <2>6
<1>4. Amount(groups) = SumFunctionOnSet(total, K)
  BY <1>2 DEF Amount, SumFunction
<1> HIDE DEF total, g, groups
<1>5. AddsUpGroups(total, S, g, key) /\ Filters(g, S, Price, X)
  BY <1>1, <1>3 DEF AddsUpGroups, Filters
<1>6. IsIntOn(g, S) /\ SumFunctionOnSet(g, S) = SumFunctionOnSet(Price, S \cap X)
  BY <1>1, <1>5, SumFiltered
<1>7. SumFunctionOnSet(total, K) = SumFunctionOnSet(g, S)
  BY <1>1, <1>6, <1>5, SumOfGroups
<1>8. QED
  BY <1>4, <1>6, <1>7 DEF groups, CentsOf

\* What DashboardAddsUp says of an answer.
AgreesWithItself(a) ==
    /\ \A s \in DOMAIN a.byStatus \ Uncounted :
          s \in Counters /\ a.byStatus[s].count = a.totals.counter[s]
    /\ {Counted(a.byStatus), Counted(a.byDay)} = {a.totals.boletos}
    /\ {Amount(a.byStatus), Amount(a.byDay)} = {a.totals.cents}
    /\ a.totals.counter["PAID"] = Counted(a.settlement.byDay) + a.settlement.unknown
    /\ a.totals.counter["PAID"] = Counted(a.settlement.byAmount)
    /\ a.settlement.cents = Amount(a.settlement.byAmount)

\* What AdminDashboard answers at any state of the boletos.
LEMMA QueriesAddUp ==
    ASSUME DashboardInv, NEW w, answer' = Queried(w)
    PROVE  DashboardAddsUp'
<1>1. PICK C : C = Cohort(w)
  OBVIOUS
<1>2. C \in SUBSET Drawn /\ IsFiniteSet(C)
  BY <1>1, DashboardBoletos, FS_Subset DEF Cohort
<1>3. \A b \in C : book[b].status \in KnownStatuses \cup {"BLOCKED"}
  <2>1. \A b \in C : book[b] \in DrawnBoleto
    BY <1>1 DEF DashboardInv, Cohort
  <2>2. QED
    BY <2>1, DashboardStatuses DEF DrawnBoleto, KnownStatuses
<1> DEFINE emitted == WithStatusIn(C, EmittedStatuses)
           paid == WithStatusIn(C, {"PAID"})
           dated == {b \in paid : book[b].paid # Unknown}
           status == [b \in C |-> book[b].status]
           day == [b \in C |-> Day(book[b].born)]
           paidDay == [b \in dated |-> LocalDay(book[b].paid)]
<1>4. /\ emitted \in SUBSET C /\ paid \in SUBSET C /\ dated \in SUBSET paid
      /\ C \cap emitted = emitted /\ paid \cap paid = paid
      /\ paid \in SUBSET Drawn
  BY <1>2 DEF WithStatusIn
<1>5. IsFiniteSet(paid) /\ IsFiniteSet(dated) /\ IsFiniteSet(paid \ dated)
  BY <1>2, <1>4, FS_Subset
<1>6. /\ answer'.totals = SummaryOf(C)
      /\ answer'.byStatus = Grouped(C, status, emitted)
      /\ answer'.byDay = Grouped(C, day, emitted)
      /\ answer'.settlement =
           [cents |-> CentsOf(paid), unknown |-> Cardinality(paid \ dated),
            byDay |-> Grouped(dated, paidDay, paid),
            byAmount |-> Grouped(paid, Price, paid)]
  BY <1>1 DEF Queried, DashboardTotals, GroupedByStatus, GroupedByDay, Settlement
<1>7. /\ answer'.totals.boletos = Cardinality(C)
      /\ answer'.totals.cents = CentsOf(emitted)
      /\ \A s \in Counters : answer'.totals.counter[s] = Cardinality(WithStatusIn(C, {s}))
      /\ answer'.totals.counter["PAID"] = Cardinality(paid)
  BY <1>6 DEF SummaryOf, Counters, EmittedStatuses
<1>8. /\ DOMAIN answer'.byStatus = {status[b] : b \in C}
      /\ \A s \in DOMAIN answer'.byStatus :
            answer'.byStatus[s].count = Cardinality({b \in C : status[b] = s})
  BY <1>6 DEF Grouped
<1>9. ASSUME NEW s \in DOMAIN answer'.byStatus \ Uncounted
      PROVE  s \in Counters /\ answer'.byStatus[s].count = answer'.totals.counter[s]
  <2>1. PICK b \in C : s = book[b].status
    BY <1>8, <1>9
  <2>2. s \in KnownStatuses \cup {"BLOCKED"}
    BY <1>3, <2>1
  <2>3. s \in Counters
    BY <1>9, <2>2 DEF KnownStatuses, Counters, EmittedStatuses, Uncounted
  <2>4. {c \in C : status[c] = s} = WithStatusIn(C, {s})
    BY DEF WithStatusIn
  <2>5. QED
    BY <1>7, <1>8, <1>9, <2>3, <2>4
<1> HIDE DEF emitted, paid, dated, status, day, paidDay
<1>10. Counted(answer'.byStatus) = Cardinality(C) /\ Counted(answer'.byDay) = Cardinality(C)
  BY <1>2, <1>6, GroupsCountAll
<1>11. Amount(answer'.byStatus) = CentsOf(emitted) /\ Amount(answer'.byDay) = CentsOf(emitted)
  BY <1>2, <1>4, <1>6, GroupsAddUpAll
<1>12. /\ Counted(answer'.settlement.byDay) = Cardinality(dated)
       /\ Counted(answer'.settlement.byAmount) = Cardinality(paid)
       /\ answer'.settlement.unknown = Cardinality(paid \ dated)
  BY <1>5, <1>6, GroupsCountAll
<1>13. Amount(answer'.settlement.byAmount) = answer'.settlement.cents
  BY <1>4, <1>6, GroupsAddUpAll
<1>14. Cardinality(paid) = Cardinality(dated) + Cardinality(paid \ dated)
  <2>1. paid \cap dated = dated
    BY <1>4
  <2>2. Cardinality(paid \ dated) = Cardinality(paid) - Cardinality(dated)
    BY <1>5, <2>1, FS_Difference
  <2>3. Cardinality(paid) \in Nat /\ Cardinality(dated) \in Nat
    BY <1>5, FS_CardinalityType
  <2>4. QED
    BY <2>2, <2>3
<1>15. AgreesWithItself(answer')
  BY <1>7, <1>9, <1>10, <1>11, <1>12, <1>13, <1>14 DEF AgreesWithItself
<1>16. QED
  BY <1>15 DEF AgreesWithItself, DashboardAddsUp, Counted, Amount

\* Every dashboard adds up, for any boletos, prices, history and window: the
\* groupings to the totals, the counters to the statuses and the payments to
\* their days.
THEOREM DashboardsAddUp == DashboardSpec => []DashboardAddsUp
<1>1. DashboardInit => DashboardAddsUp
  BY DEF DashboardInit, NoAnswer, DashboardAddsUp
<1>2. ASSUME DashboardInv, DashboardAddsUp, [DashboardNext]_dashboardVars
      PROVE  DashboardAddsUp'
  <2>1. ASSUME NEW w, QueriesAnswer(w) PROVE DashboardAddsUp'
    BY <1>2, <2>1, QueriesAddUp DEF QueriesAnswer
  <2>2. ASSUME answer'.by # "queries" PROVE DashboardAddsUp'
    BY <2>2 DEF DashboardAddsUp
  <2>3. ASSUME NEW w, LoopAnswers(w) PROVE DashboardAddsUp'
    <3>1. answer'.by = "loop"
      BY <2>3 DEF LoopAnswers
    <3>2. QED
      BY <2>2, <3>1
  <2>4. CASE AnswerSent
    <3>1. answer'.by = "nobody"
      BY <2>4 DEF AnswerSent, NoAnswer
    <3>2. QED
      BY <2>2, <3>1
  <2>5. CASE \/ \E b \in Drawn, status \in Requested : Drawing(b, status)
             \/ \E b \in Drawn, status \in Statuses : StatusWritten(b, status)
             \/ HalfDayPasses \/ UNCHANGED dashboardVars
    <3>1. answer' = answer
      BY <2>5 DEF Drawing, StatusWritten, HalfDayPasses, dashboardVars
    <3>2. QED
      BY <1>2, <3>1 DEF DashboardAddsUp, Counted, Amount
  <2>6. QED
    BY <1>2, <2>1, <2>3, <2>4, <2>5 DEF DashboardNext
<1>3. QED
  BY <1>1, <1>2, DashboardInvHolds, PTL DEF DashboardSpec

-----------------------------------------------------------------------------
(* Pages: which boletos a reader of the whole list may miss.                *)

OpenList == [pc: {"count", "page", "shown"}, offset: Nat, total: Nat, late: Nat,
             seen: SUBSET Billed, cut: SUBSET Billed, owed: SUBSET Billed]

Missing(p) == (p.owed \ p.seen) \ p.cut

\* The next place of the list that the reader has not been shown.
ReadUpTo(p) == IF p.pc = "shown" THEN p.offset + PageLimit ELSE p.offset

Newer(b) == {n \in InList : born[n] > born[b]}

\* What was there, has not been shown and was not parted from its instant is
\* still ahead of the reader: creations only push the boletos further down.
PagerInv(p) ==
    /\ p.pc # "closed" => p \in OpenList
    /\ p.pc # "closed" =>
          /\ p.owed \subseteq InList
          /\ \A b \in Missing(p) : Cardinality(Newer(b)) >= ReadUpTo(p)
    /\ p.pc = "page" => Cardinality(InList) = p.total + p.late
    /\ p.pc = "shown" /\ p.offset + PageLimit >= p.total =>
          Cardinality(Missing(p)) <= p.late

PagesInv ==
    /\ born \in [Billed -> 0 .. LastMoment]
    /\ pager \in [Viewers -> {Closed} \cup OpenList]
    /\ \A v \in Viewers : PagerInv(pager[v])

(* There are finitely many boletos of whatever kind.                        *)
LEMMA BoletosAreFinite ==
    ASSUME NEW S \in SUBSET Billed
    PROVE  IsFiniteSet(S) /\ Cardinality(S) \in Nat
BY PagesBounds, FS_Subset, FS_CardinalityType

LEMMA FewerBoletos ==
    ASSUME NEW S, NEW T, S \subseteq T, T \subseteq Billed
    PROVE  /\ Cardinality(S) \in Nat /\ Cardinality(T) \in Nat
           /\ Cardinality(S) <= Cardinality(T)
           /\ Cardinality(S) = Cardinality(T) => S = T
<1>1. IsFiniteSet(T) /\ S \in SUBSET T /\ S \in SUBSET Billed
  BY BoletosAreFinite
<1>2. QED
  BY <1>1, BoletosAreFinite, FS_Subset

(* Boletos of two sets that share none add up.                              *)
LEMMA ApartAddsUp ==
    ASSUME NEW S \in SUBSET Billed, NEW T \in SUBSET Billed, S \cap T = {}
    PROVE  Cardinality(S \cup T) = Cardinality(S) + Cardinality(T)
<1>1. IsFiniteSet(S) /\ IsFiniteSet(T)
      /\ Cardinality(S) \in Nat /\ Cardinality(T) \in Nat
  BY BoletosAreFinite
<1>2. Cardinality(S \cup T) =
         Cardinality(S) + Cardinality(T) - Cardinality(S \cap T)
  BY <1>1, FS_Union
<1>3. Cardinality(S \cap T) = 0
  BY FS_EmptySet
<1>4. QED
  BY <1>1, <1>2, <1>3

(* A creation adds its boletos to the list, and no boleto that was there    *)
(* has fewer newer ones after it.                                           *)
LEMMA ArrivalPushes ==
    ASSUME born \in [Billed -> 0 .. LastMoment],
           NEW new \in SUBSET Billed, NEW at \in 1 .. LastMoment,
           BoletosArrive(new, at)
    PROVE  /\ born' \in [Billed -> 0 .. LastMoment]
           /\ InList \subseteq InList'
           /\ Cardinality(InList') = Cardinality(InList) + Cardinality(new)
           /\ \A b \in InList : Cardinality(Newer(b)') >= Cardinality(Newer(b))
<1>1. \A b \in Billed : born'[b] = IF b \in new THEN at ELSE born[b]
  BY DEF BoletosArrive
<1>2. born' \in [Billed -> 0 .. LastMoment]
  BY PagesBounds DEF BoletosArrive
<1>3. InList' = InList \cup new /\ InList \in SUBSET Billed /\ InList \cap new = {}
  BY <1>1 DEF InList, NotYet, BoletosArrive
<1>4. Cardinality(InList') = Cardinality(InList) + Cardinality(new)
  BY <1>3, ApartAddsUp
<1>5. ASSUME NEW b \in InList
      PROVE  Cardinality(Newer(b)') >= Cardinality(Newer(b))
  <2>1. Newer(b) \subseteq Newer(b)'
    BY <1>1, <1>3 DEF Newer
  <2>2. Newer(b)' \subseteq Billed
    BY DEF Newer, InList
  <2>3. QED
    BY <2>1, <2>2, FewerBoletos
<1>6. QED
  BY <1>2, <1>3, <1>4, <1>5

(* A boleto with `o` newer ones or more that a page from `o` on does not    *)
(* show nor part from its instant is beyond the page: at least `o` and a    *)
(* page of boletos are newer, and no row up to the page's last is it.       *)
LEMMA PageShowsItsPlaces ==
    ASSUME born \in [Billed -> 0 .. LastMoment], NEW o \in Nat,
           NEW skipped \in Heads(o), NEW page \in SUBSET InList,
           skipped \cap page = {}, skipped \cup page \in Heads(o + PageLimit),
           NEW b \in InList, Cardinality(Newer(b)) >= o,
           b \notin page, b \notin Divided(page)
    PROVE  /\ b \notin skipped \cup page
           /\ Cardinality(Newer(b)) >= o + PageLimit
           /\ Cardinality(skipped \cup page) = o + PageLimit
<1> DEFINE whole == skipped \cup page
           all == Cardinality(InList)
<1>1. /\ InList \in SUBSET Billed /\ Newer(b) \in SUBSET InList
      /\ b \notin Newer(b) /\ \A n \in InList : born[n] \in Int
  BY PagesBounds DEF InList, Newer
<1>2. /\ skipped \in SUBSET InList
      /\ Cardinality(skipped) = IF o < all THEN o ELSE all
      /\ \A m \in skipped, n \in InList \ skipped : born[m] >= born[n]
  BY DEF Heads
<1>3. /\ whole \in SUBSET InList
      /\ Cardinality(whole) = IF o + PageLimit < all THEN o + PageLimit ELSE all
      /\ \A m \in whole, n \in InList \ whole : born[m] >= born[n]
  BY DEF Heads
<1>4. /\ all \in Nat /\ Cardinality(skipped) \in Nat /\ Cardinality(whole) \in Nat
      /\ Cardinality(Newer(b)) \in Nat /\ Cardinality(Newer(b)) <= all
      /\ Cardinality(Newer(b)) # all
      /\ Cardinality(whole) = all => whole = InList
  <2> HIDE DEF whole
  <2>1. InList \subseteq Billed /\ Newer(b) \subseteq InList
        /\ skipped \subseteq InList /\ whole \subseteq InList
    BY <1>1, <1>2, <1>3
  <2>2. /\ all \in Nat /\ Cardinality(Newer(b)) \in Nat
        /\ Cardinality(Newer(b)) <= all
        /\ Cardinality(Newer(b)) = all => Newer(b) = InList
    BY <2>1, FewerBoletos
  <2>3. Cardinality(skipped) \in Nat
    BY <2>1, FewerBoletos
  <2>4. Cardinality(whole) \in Nat /\ (Cardinality(whole) = all => whole = InList)
    BY <2>1, FewerBoletos
  <2>5. Newer(b) # InList
    BY <1>1
  <2> HIDE DEF all
  <2>6. QED
    BY <2>2, <2>3, <2>4, <2>5
<1>5. o < all
  BY <1>4
<1>6. b \notin skipped
  <2> SUFFICES ASSUME b \in skipped PROVE FALSE
    OBVIOUS
  <2>1. Newer(b) \subseteq skipped /\ skipped \subseteq Billed
    BY <1>1, <1>2 DEF Newer
  <2>2. Cardinality(Newer(b)) <= Cardinality(skipped)
        /\ (Cardinality(Newer(b)) = Cardinality(skipped) => skipped = Newer(b))
    BY <2>1, FewerBoletos
  <2>3. Cardinality(skipped) = o
    BY <1>2, <1>5
  <2>4. skipped = Newer(b)
    BY <1>4, <2>2, <2>3
  <2>5. QED
    BY <1>1, <2>4
<1>7. b \notin whole
  BY <1>6
<1> HIDE DEF whole
<1>8. Cardinality(whole) = o + PageLimit
  BY <1>3, <1>4, <1>7
<1>9. PICK w \in page : TRUE
  <2>1. skipped # whole
    BY <1>2, <1>5, <1>8, PagesBounds
  <2>2. QED
    BY <2>1 DEF whole
<1>10. ASSUME NEW m \in whole PROVE born[m] > born[b]
  <2>1. born[m] >= born[b] /\ m \in InList /\ w \in whole /\ w \in InList
    BY <1>3, <1>7, <1>9, <1>10 DEF whole
  <2>2. born[w] >= born[b] /\ born[w] # born[b]
    BY <1>3, <1>7, <1>9, <2>1 DEF Divided
  <2>3. CASE m \in page
    BY <1>1, <2>1, <2>3 DEF Divided
  <2>4. CASE m \in skipped
    <3>1. born[m] >= born[w]
      BY <1>2, <1>9, <2>1, <2>4
    <3>2. QED
      BY <1>1, <2>1, <2>2, <3>1
  <2>5. QED
    BY <1>10, <2>3, <2>4 DEF whole
<1>11. whole \subseteq Newer(b) /\ Newer(b) \subseteq Billed
  BY <1>1, <1>3, <1>10 DEF Newer
<1>12. Cardinality(whole) <= Cardinality(Newer(b))
  BY <1>11, FewerBoletos
<1>13. QED
  BY <1>4, <1>7, <1>8, <1>12, PagesBounds DEF whole

(* A pager that keeps its page keeps what was shown of it.                  *)
LEMMA ArrivalKeepsPagers ==
    ASSUME PagesInv, NEW new \in SUBSET Billed, NEW at \in 1 .. LastMoment,
           BoletosArrive(new, at)
    PROVE  PagesInv'
<1>0. /\ born \in [Billed -> 0 .. LastMoment]
      /\ pager \in [Viewers -> {Closed} \cup OpenList]
  BY DEF PagesInv
<1>1. /\ born' \in [Billed -> 0 .. LastMoment]
      /\ InList \subseteq InList'
      /\ Cardinality(InList') = Cardinality(InList) + Cardinality(new)
      /\ \A b \in InList : Cardinality(Newer(b)') >= Cardinality(Newer(b))
  BY <1>0, ArrivalPushes
<1>2. Cardinality(new) \in Nat /\ Cardinality(InList) \in Nat
  BY BoletosAreFinite DEF InList
<1>3. ASSUME NEW v \in Viewers
      PROVE  pager'[v] \in {Closed} \cup OpenList /\ PagerInv(pager[v])'
  <2>1. pager'[v] = IF pager[v].pc = "page"
                    THEN [pager[v] EXCEPT !.late = @ + Cardinality(new)]
                    ELSE pager[v]
    BY DEF BoletosArrive, Counting
  <2>2. PagerInv(pager[v])
    BY DEF PagesInv
  <2>3. CASE pager[v].pc = "closed"
    BY <1>0, <2>1, <2>3 DEF PagerInv
  <2>4. CASE pager[v].pc # "closed"
    <3>1. pager[v] \in OpenList
      BY <2>2, <2>4 DEF PagerInv
    <3>2. /\ pager'[v] \in OpenList
          /\ pager'[v].pc = pager[v].pc /\ pager'[v].offset = pager[v].offset
          /\ pager'[v].total = pager[v].total /\ pager'[v].cut = pager[v].cut
          /\ pager'[v].seen = pager[v].seen /\ pager'[v].owed = pager[v].owed
          /\ pager[v].pc = "page" => pager'[v].late = pager[v].late + Cardinality(new)
          /\ pager[v].pc = "shown" => pager'[v].late = pager[v].late
      <4>1. CASE pager[v].pc = "page"
        <5>1. pager'[v] = [pager[v] EXCEPT !.late = pager[v].late + Cardinality(new)]
          BY <2>1, <4>1
        <5>2. QED
          BY <1>2, <3>1, <4>1, <5>1 DEF OpenList
      <4>2. CASE pager[v].pc # "page"
        BY <2>1, <3>1, <4>2
      <4>3. QED
        BY <4>1, <4>2
    <3>3. Missing(pager'[v]) = Missing(pager[v])
          /\ ReadUpTo(pager'[v]) = ReadUpTo(pager[v])
      BY <3>2 DEF Missing, ReadUpTo
    <3>4. pager[v].owed \subseteq InList
      BY <2>2, <2>4 DEF PagerInv
    <3>5. ASSUME NEW b \in Missing(pager[v])
          PROVE  Cardinality(Newer(b)') >= ReadUpTo(pager[v])
      <4>1. b \in InList
        BY <3>4 DEF Missing
      <4>2. Cardinality(Newer(b)') >= Cardinality(Newer(b))
        BY <1>1, <4>1
      <4>3. Cardinality(Newer(b)) >= ReadUpTo(pager[v])
        BY <2>2, <2>4 DEF PagerInv
      <4>4. ReadUpTo(pager[v]) \in Nat
        BY <3>1, PagesBounds DEF ReadUpTo, OpenList
      <4>5. Cardinality(Newer(b)) \in Nat /\ Cardinality(Newer(b)') \in Nat
        <5>1. Newer(b) \in SUBSET Billed /\ Newer(b)' \in SUBSET Billed
          BY DEF Newer, InList
        <5>2. QED
          BY <5>1, BoletosAreFinite
      <4>6. QED
        BY <4>2, <4>3, <4>4, <4>5
    <3>6. pager[v].pc = "page" =>
             Cardinality(InList') = pager'[v].total + pager'[v].late
      BY <1>1, <1>2, <2>2, <3>1, <3>2 DEF PagerInv, OpenList
    <3>7. pager[v].pc = "shown" /\ pager[v].offset + PageLimit >= pager[v].total =>
             Cardinality(Missing(pager[v])) <= pager'[v].late
      BY <2>2, <3>2 DEF PagerInv
    <3>8. QED
      BY <1>1, <2>4, <3>2, <3>3, <3>4, <3>5, <3>6, <3>7 DEF PagerInv
  <2>5. QED
    BY <2>3, <2>4
<1>4. pager' \in [Viewers -> {Closed} \cup OpenList]
  BY <1>3 DEF BoletosArrive
<1>5. QED
  BY <1>1, <1>3, <1>4 DEF PagesInv

(* One reader moves, and the list stays as it is.                           *)
LEMMA PagerMoves ==
    ASSUME PagesInv, NEW v \in Viewers, NEW p \in OpenList,
           pager' = [pager EXCEPT ![v] = p], UNCHANGED born, PagerInv(p)
    PROVE  PagesInv'
<1>1. /\ born' \in [Billed -> 0 .. LastMoment]
      /\ pager' \in [Viewers -> {Closed} \cup OpenList]
  BY DEF PagesInv
<1>2. ASSUME NEW u \in Viewers
      PROVE  PagerInv(pager[u])'
  <2>1. pager'[u] = IF u = v THEN p ELSE pager[u]
    BY DEF PagesInv
  <2>2. PagerInv(pager'[u])
    BY <2>1 DEF PagesInv
  <2>3. QED
    BY <2>2 DEF PagerInv, Newer, InList
<1>3. QED
  BY <1>1, <1>2 DEF PagesInv

\* Every step keeps the invariant of the pages.
LEMMA PagesInvHolds == PagesSpec => []PagesInv
<1>1. PagesInit => PagesInv
  <2> SUFFICES ASSUME PagesInit PROVE PagesInv
    OBVIOUS
  <2>1. born \in [Billed -> 0 .. LastMoment]
    BY PagesBounds DEF PagesInit, NotYet
  <2>2. Closed.pc = "closed"
    BY DEF Closed
  <2>3. QED
    BY <2>1, <2>2 DEF PagesInit, PagesInv, PagerInv
<1>2. PagesInv /\ [PagesNext]_pagesVars => PagesInv'
  <2> SUFFICES ASSUME PagesInv, [PagesNext]_pagesVars PROVE PagesInv'
    OBVIOUS
  <2>1. ASSUME NEW new \in SUBSET Billed \ {{}}, NEW at \in 1 .. LastMoment,
               BoletosArrive(new, at)
        PROVE  PagesInv'
    BY <2>1, ArrivalKeepsPagers
  <2>2. CASE UNCHANGED pagesVars
    BY <2>2 DEF pagesVars, PagesInv, PagerInv, Newer, InList
  <2>3. ASSUME NEW v \in Viewers, PagerStep(v)
        PROVE  PagesInv'
    <3> DEFINE old == pager[v]
    <3>0. /\ born \in [Billed -> 0 .. LastMoment]
          /\ InList \in SUBSET Billed /\ Cardinality(InList) \in Nat
          /\ pager \in [Viewers -> {Closed} \cup OpenList]
          /\ PagerInv(old) /\ PageLimit \in Nat \ {0}
      BY BoletosAreFinite, PagesBounds DEF PagesInv, InList
    <3>a. old.pc # "closed" => old \in OpenList
      BY <3>0 DEF PagerInv
    <3> HIDE DEF old
    <3>1. CASE OpensList(v)
      <4> DEFINE p == [pc |-> "count", offset |-> 0, total |-> 0, late |-> 0,
                       seen |-> {}, cut |-> {}, owed |-> InList]
      <4>2. p \in OpenList
        BY <3>0 DEF OpenList
      <4>3. PagerInv(p)
        <5>1. \A b \in InList : Cardinality(Newer(b)) \in Nat
          BY BoletosAreFinite DEF Newer, InList
        <5>2. QED
          BY <3>0, <4>2, <5>1 DEF PagerInv, ReadUpTo, Missing
      <4>4. pager' = [pager EXCEPT ![v] = p] /\ UNCHANGED born
        BY <3>1 DEF OpensList
      <4> HIDE DEF p
      <4>5. QED
        BY <4>2, <4>3, <4>4, PagerMoves
    <3>2. CASE CountsBoletos(v)
      <4>1. old \in OpenList /\ old.pc = "count"
        BY <3>2, <3>a DEF CountsBoletos, old
      <4> DEFINE p == [old EXCEPT !.pc = "page", !.total = Cardinality(InList), !.late = 0]
      <4>2. /\ p \in OpenList /\ p.pc = "page" /\ p.offset = old.offset
            /\ p.total = Cardinality(InList) /\ p.late = 0
            /\ p.seen = old.seen /\ p.cut = old.cut /\ p.owed = old.owed
        BY <3>0, <4>1 DEF OpenList
      <4>3. pager' = [pager EXCEPT ![v] = p] /\ UNCHANGED born
        BY <3>2 DEF CountsBoletos, old
      <4> HIDE DEF p
      <4>4. PagerInv(p)
        BY <3>0, <4>1, <4>2 DEF PagerInv, ReadUpTo, Missing
      <4>5. QED
        BY <4>2, <4>3, <4>4, PagerMoves
    <3>3. CASE ReadsPage(v)
      <4>1. old \in OpenList /\ old.pc = "page" /\ old.offset \in Nat
        BY <3>3, <3>a DEF ReadsPage, old, OpenList
      <4>2. PICK page \in Page(old.offset) :
               pager' = [pager EXCEPT ![v].pc = "shown", ![v].seen = @ \cup page,
                                      ![v].cut = @ \cup Divided(page)]
        BY <3>3 DEF ReadsPage, old
      <4>3. PICK skipped \in Heads(old.offset) :
               /\ page \in SUBSET InList /\ skipped \cap page = {}
               /\ skipped \cup page \in Heads(old.offset + PageLimit)
        BY <4>2 DEF Page
      <4> DEFINE p == [old EXCEPT !.pc = "shown", !.seen = old.seen \cup page,
                                  !.cut = old.cut \cup Divided(page)]
      <4>4. Divided(page) \in SUBSET Billed
        BY <3>0 DEF Divided
      <4>5. /\ p \in OpenList /\ p.pc = "shown" /\ p.offset = old.offset
            /\ p.total = old.total /\ p.late = old.late
            /\ p.seen = old.seen \cup page /\ p.cut = old.cut \cup Divided(page)
            /\ p.owed = old.owed
        BY <3>0, <4>1, <4>3, <4>4 DEF OpenList
      <4>6. pager' = [pager EXCEPT ![v] = p] /\ UNCHANGED born
        BY <3>0, <3>3, <4>2 DEF ReadsPage, old
      <4> HIDE DEF p
      <4>7. p.owed \subseteq InList
        BY <3>0, <4>1, <4>5 DEF PagerInv
      <4>8. ASSUME NEW b \in Missing(p)
            PROVE  /\ b \notin skipped \cup page
                   /\ Cardinality(Newer(b)) >= p.offset + PageLimit
                   /\ Cardinality(skipped \cup page) = p.offset + PageLimit
        <5>1. /\ b \in Missing(old) /\ b \in InList
              /\ b \notin page /\ b \notin Divided(page)
          BY <4>5, <4>7, <4>8 DEF Missing
        <5>2. Cardinality(Newer(b)) >= old.offset
          BY <3>0, <4>1, <5>1 DEF PagerInv, ReadUpTo
        <5>3. QED
          BY <3>0, <4>1, <4>3, <4>5, <5>1, <5>2, PageShowsItsPlaces
      <4>9. ASSUME p.offset + PageLimit >= p.total
            PROVE  Cardinality(Missing(p)) <= p.late
        <5> DEFINE whole == skipped \cup page
        <5>1. /\ p.offset + PageLimit \in Nat /\ p.late \in Nat /\ p.total \in Nat
              /\ Cardinality(InList) = p.total + p.late
          BY <3>0, <4>1, <4>5 DEF PagerInv, OpenList
        <5>2. /\ Missing(p) \in SUBSET InList /\ whole \in SUBSET InList
              /\ Missing(p) \cap whole = {}
          BY <4>3, <4>7, <4>8 DEF Missing, Heads
        <5> HIDE DEF whole
        <5>3. /\ Cardinality(Missing(p)) \in Nat /\ Cardinality(whole) \in Nat
              /\ Cardinality(Missing(p) \cup whole) <= Cardinality(InList)
          <6>1. /\ InList \subseteq Billed /\ Missing(p) \subseteq InList
                /\ whole \subseteq InList
                /\ (Missing(p) \cup whole) \subseteq InList
            BY <3>0, <5>2
          <6>2. Cardinality(Missing(p) \cup whole) <= Cardinality(InList)
            BY <6>1, FewerBoletos
          <6>3. Cardinality(Missing(p)) \in Nat
            BY <6>1, FewerBoletos
          <6>4. Cardinality(whole) \in Nat
            BY <6>1, FewerBoletos
          <6>5. QED
            BY <6>2, <6>3, <6>4
        <5>4. Cardinality(Missing(p) \cup whole) =
                 Cardinality(Missing(p)) + Cardinality(whole)
          BY <3>0, <5>2, ApartAddsUp
        <5>5. CASE Missing(p) = {}
          BY <5>1, <5>5, FS_EmptySet
        <5>6. CASE Missing(p) # {}
          <6>1. Cardinality(whole) = p.offset + PageLimit
            BY <4>8, <5>6 DEF whole
          <6>2. QED
            BY <4>9, <5>1, <5>3, <5>4, <6>1
        <5>7. QED
          BY <5>5, <5>6
      <4>10. PagerInv(p)
        BY <4>5, <4>7, <4>8, <4>9 DEF PagerInv, ReadUpTo
      <4>11. QED
        BY <4>5, <4>6, <4>10, PagerMoves
    <3>4. CASE NextPage(v) \/ PreviousPage(v)
      <4>1. old \in OpenList /\ old.pc = "shown" /\ old.offset \in Nat
        BY <3>4, <3>a DEF NextPage, PreviousPage, old, OpenList
      <4>2. PICK o \in Nat :
               /\ o <= old.offset + PageLimit
               /\ pager' = [pager EXCEPT ![v] = [old EXCEPT !.pc = "count", !.offset = o]]
        <5>1. CASE NextPage(v)
          <6>1. pager' = [pager EXCEPT ![v] =
                   [old EXCEPT !.pc = "count", !.offset = old.offset + PageLimit]]
            BY <4>1, <5>1 DEF NextPage, old, OpenList
          <6>2. old.offset + PageLimit \in Nat
            BY <3>0, <4>1
          <6>3. PICK o \in Nat : o = old.offset + PageLimit
            BY <6>2
          <6>4. /\ o <= old.offset + PageLimit
                /\ pager' = [pager EXCEPT ![v] =
                                [old EXCEPT !.pc = "count", !.offset = o]]
            BY <6>1, <6>3
          <6>5. QED
            BY <6>4
        <5>2. CASE PreviousPage(v)
          <6> DEFINE o == IF old.offset > PageLimit THEN old.offset - PageLimit ELSE 0
          <6>1. pager' = [pager EXCEPT ![v] =
                            [old EXCEPT !.pc = "count", !.offset = o]]
            BY <4>1, <5>2 DEF PreviousPage, old, OpenList
          <6>2. o \in Nat /\ o <= old.offset + PageLimit
            BY <3>0, <4>1
          <6> HIDE DEF o
          <6>3. QED
            BY <6>1, <6>2
        <5>3. QED
          BY <3>4, <5>1, <5>2
      <4> DEFINE p == [old EXCEPT !.pc = "count", !.offset = o]
      <4>3. /\ p \in OpenList /\ p.pc = "count" /\ p.offset = o
            /\ p.seen = old.seen /\ p.cut = old.cut /\ p.owed = old.owed
        BY <4>1 DEF OpenList
      <4>4. pager' = [pager EXCEPT ![v] = p] /\ UNCHANGED born
        BY <3>4, <4>2 DEF NextPage, PreviousPage
      <4> HIDE DEF p
      <4>5. ASSUME NEW b \in Missing(p)
            PROVE  Cardinality(Newer(b)) >= o
        <5>1. b \in Missing(old) /\ b \in Billed
          BY <4>3, <4>5 DEF Missing, OpenList
        <5>2. Cardinality(Newer(b)) >= old.offset + PageLimit
          BY <3>0, <4>1, <5>1 DEF PagerInv, ReadUpTo
        <5>3. Cardinality(Newer(b)) \in Nat
          <6>1. Newer(b) \in SUBSET Billed
            BY DEF Newer, InList
          <6>2. QED
            BY <6>1, BoletosAreFinite
        <5>4. QED
          BY <3>0, <4>1, <4>2, <5>2, <5>3
      <4>6. PagerInv(p)
        BY <3>0, <4>1, <4>3, <4>5 DEF PagerInv, ReadUpTo
      <4>7. QED
        BY <4>3, <4>4, <4>6, PagerMoves
    <3>5. QED
      BY <2>3, <3>1, <3>2, <3>3, <3>4 DEF PagerStep
  <2>4. QED
    BY <2>1, <2>2, <2>3 DEF PagesNext
<1>3. QED
  BY <1>1, <1>2, PTL DEF PagesSpec

\* Whoever pages through the whole list misses no boleto that was there when it
\* was opened, except those a page's edge parted from others of their instant
\* and one for each boleto created between the last page's count and its rows:
\* for any page size, any instants, any creations, and going back and forth.
THEOREM OnlyRacersHide == PagesSpec => []OnlyRacersHideBoletos
<1>1. PagesInv => OnlyRacersHideBoletos
  <2> SUFFICES ASSUME PagesInv, NEW v \in Viewers,
                      pager[v].pc = "shown", ~ MorePages(v)
               PROVE  Cardinality((pager[v].owed \ pager[v].seen) \ pager[v].cut) <= pager[v].late
    BY DEF OnlyRacersHideBoletos
  <2>1. PagerInv(pager[v]) /\ pager[v] \in OpenList
    BY DEF PagesInv, PagerInv
  <2>2. pager[v].offset + PageLimit >= pager[v].total
    BY <2>1, PagesBounds DEF MorePages, OpenList
  <2>3. QED
    BY <2>1, <2>2 DEF PagerInv, Missing
<1>2. QED
  BY <1>1, PagesInvHolds, PTL
=============================================================================
