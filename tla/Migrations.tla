----------------------------- MODULE Migrations -----------------------------
(***************************************************************************)
(* The command `migrate`.  Each run goes through the files in their order   *)
(* and, for each one, asks whether its version is recorded, executes the    *)
(* file and records the version, in three statements that share no          *)
(* transaction; nothing keeps two runs from overlapping.  A file is sent in *)
(* one message, which the server executes as one transaction.  It may be    *)
(* executed twice: what it creates, it creates if it does not exist, so an  *)
(* object that a later file has dropped comes back.                         *)
(***************************************************************************)
EXTENDS Naturals

CONSTANTS
    LastVersion,    \* the files are 1 .. LastVersion
    Runners,        \* runs of the command that may overlap
    Objects,        \* tables, columns and indexes
    Creates,        \* what each file creates or replaces
    Drops           \* what it drops for good

Versions == 1 .. LastVersion

ASSUME MigrationFiles == LastVersion \in Nat \ {0}
ASSUME MigrationObjects == /\ Creates \in [Versions -> SUBSET Objects]
                           /\ Drops \in [Versions -> SUBSET Objects]
                           /\ \A v \in Versions : Creates[v] \cap Drops[v] = {}

VARIABLES
    executed,       \* files whose statements have been committed
    recorded,       \* schema_migrations
    runner,         \* runs of the command
    schema,         \* the objects that exist
    late,           \* history: files executed again behind a later one
    overlapped      \* history: a run has started while another was under way

migrationVars == <<executed, recorded, runner, schema, late, overlapped>>

-----------------------------------------------------------------------------
MigrationsInit ==
    /\ executed = {}
    /\ recorded = {}
    /\ runner = [r \in Runners |-> [pc |-> "off", at |-> 1]]
    /\ schema = {}
    /\ late = {}
    /\ overlapped = FALSE

Underway(r) == runner[r].pc \in {"check", "execute", "record"}

Goes(r, pc, v) == runner' = [runner EXCEPT ![r] = [pc |-> pc, at |-> v]]

\* The command exits if a statement fails, or is killed; it may be run again.
MigrateStarts(r) ==
    /\ runner[r].pc \in {"off", "succeeded"}
    /\ Goes(r, "check", 1)
    /\ overlapped' = (overlapped \/ \E q \in Runners \ {r} : Underway(q))
    /\ UNCHANGED <<executed, recorded, schema, late>>

\* Mutant: past a recorded file the loop advances twice.
CheckSkippingTwo(r) ==
    LET v == runner[r].at IN
    /\ runner[r].pc = "check"
    /\ v \in Versions
    /\ IF v \in recorded THEN Goes(r, "check", v + 2) ELSE Goes(r, "execute", v)
    /\ UNCHANGED <<executed, recorded, schema, late, overlapped>>

MigrateChecks(r) ==
    LET v == runner[r].at IN
    /\ runner[r].pc = "check"
    /\ v \in Versions
    /\ IF v \in recorded THEN Goes(r, "check", v + 1) ELSE Goes(r, "execute", v)
    /\ UNCHANGED <<executed, recorded, schema, late, overlapped>>

\* Mutant: the version is recorded, and then the file is executed.
ExecuteAfterRecord(r) ==
    LET v == runner[r].at IN
    /\ runner[r].pc = "execute"
    /\ v \notin recorded
    /\ recorded' = recorded \cup {v}
    /\ Goes(r, "record", v)
    /\ UNCHANGED <<executed, schema, late, overlapped>>

MigrateExecutes(r) ==
    LET v == runner[r].at IN
    /\ runner[r].pc = "execute"
    /\ executed' = executed \cup {v}
    /\ schema' = (schema \ Drops[v]) \cup Creates[v]
    /\ late' = late \cup {x \in {v} : \E w \in executed : w > x}
    /\ Goes(r, "record", v)
    /\ UNCHANGED <<recorded, overlapped>>

\* The version is the primary key: a run that comes second fails.
MigrateRecords(r) ==
    LET v == runner[r].at IN
    /\ runner[r].pc = "record"
    /\ v \notin recorded
    /\ recorded' = recorded \cup {v}
    /\ Goes(r, "check", v + 1)
    /\ UNCHANGED <<executed, schema, late, overlapped>>

MigrateSucceeds(r) ==
    /\ runner[r].pc = "check"
    /\ runner[r].at = LastVersion + 1
    /\ Goes(r, "succeeded", runner[r].at)
    /\ UNCHANGED <<executed, recorded, schema, late, overlapped>>

MigrateFails(r) ==
    /\ runner[r].pc \in {"check", "execute", "record"}
    /\ Goes(r, "off", 1)
    /\ UNCHANGED <<executed, recorded, schema, late, overlapped>>

-----------------------------------------------------------------------------
RunnerStep(r) ==
    \/ MigrateStarts(r)
    \/ MigrateChecks(r)
    \/ MigrateExecutes(r)
    \/ MigrateRecords(r)
    \/ MigrateSucceeds(r)
    \/ MigrateFails(r)

MigrationsNext == \E r \in Runners : RunnerStep(r)

MigrationsSpec == MigrationsInit /\ [][MigrationsNext]_migrationVars

-----------------------------------------------------------------------------
MigrationsTypeOK ==
    /\ executed \subseteq Versions
    /\ recorded \subseteq Versions
    /\ runner \in [Runners -> [pc: {"off", "check", "execute", "record", "succeeded"},
                               at: 1 .. LastVersion + 1]]
    /\ schema \subseteq Objects
    /\ late \subseteq Versions
    /\ overlapped \in BOOLEAN

\* What the first n files leave behind, each executed once and in order.
After(n) == {x \in Objects : \E v \in 1 .. n :
                /\ x \in Creates[v]
                /\ \A w \in v + 1 .. n : x \notin Drops[w]}

\* What a late file has brought back or taken away, against a file that comes
\* after it: 012_create_blacklist.sql creates the indexes that
\* 016_evolve_blacklist_support_email.sql drops.
Undone == {x \in Objects : \E v \in late, w \in executed :
              /\ w > v
              /\ x \in (Creates[v] \cap Drops[w]) \cup (Drops[v] \cap Creates[w])}

\* However many runs overlap and wherever they die, nothing is recorded that
\* was not executed, a prefix of the files has been, the schema is the one this
\* prefix leaves behind but for what a late file has undone, and a run that
\* succeeds leaves the whole prefix: what a deployment relies on to start the
\* new release (docs/deployment.md:23).  No file is late, and so nothing is
\* undone, unless two runs have overlapped.
SchemaIsPrefix ==
    /\ recorded \subseteq executed
    /\ \E n \in 0 .. LastVersion :
          /\ executed = 1 .. n
          /\ schema \ Undone = After(n) \ Undone
    /\ \A r \in Runners : runner[r].pc = "succeeded" => executed = Versions
    /\ late # {} => overlapped
=============================================================================
