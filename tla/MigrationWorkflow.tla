-------------------------- MODULE MigrationWorkflow ---------------------------
(***************************************************************************)
(* The schema commands (schema-mapper/src/workflows.rs and the schema arms *)
(* of engine-core/src/main.rs): schema push and schema migrate, run one at *)
(* a time by a developer who edits schema.cq in between, while the API     *)
(* stores rows.  A command may die between any two statements.             *)
(***************************************************************************)
EXTENDS SchemaStore

CONSTANTS
  Schema,            \* the validated schemas schema.cq goes through
  Row,               \* row identities
  Shared,            \* a value several rows have in common
  FkAtOpen,          \* foreign_keys of a new connection (a build option of SQLite)
  OneFilePerSecond,  \* TRUE: no two migrations run within a second
  MaxCommands,       \* bound: commands started
  MaxDeaths,         \* bound: commands killed
  MaxRows            \* bound: rows of each table

\* What validate_schema and the parser let through: finitely many fields, named
\* by their words, and relations that lead to models by a column that is
\* neither the id nor one with a default.
Validated(s) ==
  /\ DOMAIN s \subseteq ToSet(TableOrder)
  /\ \A m \in DOMAIN s :
       /\ IsFiniteSet(DOMAIN s[m].fields) /\ DOMAIN s[m].fields \subseteq Seq(STRING)
       /\ \A f \in DOMAIN s[m].fields :
            LET field == s[m].fields[f] IN
            field.kind = "relation" =>
              /\ field.to \in DOMAIN s
              /\ field.key # <<"__id">>
              /\ field.key \in DOMAIN Columns(s[m]) => Columns(s[m])[field.key].rest = "-"

ASSUME MigrationAssumption ==
  /\ TableOrder \in Seq(ToSet(TableOrder))
  /\ \A i \in DOMAIN TableOrder : \A j \in DOMAIN TableOrder : TableOrder[i] = TableOrder[j] => i = j
  /\ \A s \in Schema : Validated(s)
  /\ FkAtOpen \in BOOLEAN /\ OneFilePerSecond \in BOOLEAN
  /\ MaxCommands \in Nat /\ MaxDeaths \in Nat

VARIABLES
  schema,    \* the schema.cq of the moment
  live,      \* app.db
  files,     \* the migrations directory: the script of each <second>_auto_migration.sql
  now,       \* the clock, in seconds
  command,   \* the running command: "none", "push" or "migrate"
  stage,     \* "idle", "writing" (the migration file) or "running" (statements)
  todo,      \* the statements still to run
  enforced,  \* foreign_keys of the command's connection
  applied,   \* rows of _engine_migrations
  outcome,   \* how the last command on this schema.cq ended
  trouble,   \* the live database may have left the history: a push, a death or an error
  commands,  \* commands started so far
  deaths     \* commands killed so far

vars == <<schema, live, files, now, command, stage, todo, enforced, applied,
          outcome, trouble, commands, deaths>>

Outcome ==
  {"none", "pushed", "migrated", "nothing", "failed", "died"}

\* lower_ast_to_physical of each version of the schema.
Lowered == [s \in Schema |-> Lower(s)]

Desired == Lowered[schema]

(***************************************************************************)
(* The shadow database: an empty in-memory database on which the files are *)
(* run in the order of their names.                                        *)
(***************************************************************************)
InOrder(fs) == [i \in 1 .. now + 1 |-> IF i - 1 \in DOMAIN fs THEN fs[i - 1] ELSE <<>>]

Replay(fs) == Batch(Empty, FlattenSeq(InOrder(fs)), FkAtOpen)

Init ==
  /\ schema \in Schema
  /\ live = Empty
  /\ files = <<>>
  /\ now = 0
  /\ command = "none"
  /\ stage = "idle"
  /\ todo = <<>>
  /\ enforced = FkAtOpen
  /\ applied = 0
  /\ outcome = "none"
  /\ trouble = FALSE
  /\ commands = 0
  /\ deaths = 0

Idle == command = "none"

\* The developer changes schema.cq to another valid schema.
Edit(s) ==
  /\ Idle
  /\ commands < MaxCommands
  /\ s # schema
  /\ schema' = s
  /\ outcome' = "none"
  /\ UNCHANGED <<live, files, now, command, stage, todo, enforced, applied, trouble,
                 commands, deaths>>

Tick ==
  /\ Idle
  /\ commands < MaxCommands
  /\ now \in DOMAIN files
  /\ now' = now + 1
  /\ UNCHANGED <<schema, live, files, command, stage, todo, enforced, applied, outcome,
                 trouble, commands, deaths>>

References(db, t) == {fk.from : fk \in db.table[t].foreignKeys}

\* A row for table t: its references point to stored rows or nowhere, its other
\* columns hold a value of its own or one that other rows hold too.
NewRow(db, t, r, parent, value) ==
  [c \in DOMAIN db.table[t].columns |->
     IF c = <<"__id">> THEN r
     ELSE IF c \in References(db, t) THEN parent[c]
     ELSE IF db.table[t].columns[c].rest # "-" THEN Default
     ELSE value]

Parents(db, t) ==
  {p \in [References(db, t) -> Row \cup {Null}] :
     \A fk \in db.table[t].foreignKeys :
       p[fk.from] # Null => /\ fk.to \in DOMAIN db.table
                            /\ p[fk.from] \in DOMAIN db.table[fk.to].rows}

\* The API inserts a row; SQLite refuses it if a trigger fails or an index is violated.
Store(t, r) ==
  /\ Idle
  /\ commands < MaxCommands
  /\ t \in DOMAIN live.table
  /\ r \notin DOMAIN live.table[t].rows
  /\ Cardinality(DOMAIN live.table[t].rows) < MaxRows[t]
  /\ \A g \in Broken(live) : ~ (g.table = t /\ Event(g) = "ai")
  /\ \E parent \in Parents(live, t), value \in {r, Shared} :
       LET stored == [live EXCEPT !.table[t].rows =
                        Over(Only(r, NewRow(live, t, r, parent, value)), @)]
       IN  /\ \A i \in live.index :
                i.table = t /\ i.unique => ~ Duplicates(stored, t, i.columns)
           /\ live' = stored
  /\ UNCHANGED <<schema, files, now, command, stage, todo, enforced, applied, outcome,
                 trouble, commands, deaths>>

(***************************************************************************)
(* schema push: the differ compares with the live database.                *)
(***************************************************************************)
StartPush ==
  /\ Idle
  /\ commands < MaxCommands
  /\ \E ops \in ComputeDiff(Desired, LiveSchema(live)) : todo' = Script(ops)
  /\ command' = "push"
  /\ stage' = "running"
  /\ enforced' = FkAtOpen
  /\ outcome' = "none"
  /\ trouble' = TRUE
  /\ commands' = commands + 1
  /\ UNCHANGED <<schema, live, files, now, applied, deaths>>

(***************************************************************************)
(* schema migrate: the differ compares with the replayed history.  A file  *)
(* that no longer runs ends the command; without differences there is      *)
(* nothing to do, whatever the live database looks like.                   *)
(***************************************************************************)
MigrateStarts ==
  /\ Idle
  /\ commands < MaxCommands
  /\ commands' = commands + 1
  /\ UNCHANGED <<schema, live, files, now, enforced, applied, trouble, deaths>>

MigrateStops ==
  LET shadow == Replay(files) IN
  /\ MigrateStarts
  /\ shadow.ok => <<>> \in ComputeDiff(Desired, LiveSchema(shadow.db))
  /\ outcome' = IF shadow.ok THEN "nothing" ELSE "failed"
  /\ UNCHANGED <<command, stage, todo>>

\* (Mutant: the differ compares with the live database.)
StartMigrateLive ==
  /\ MigrateStarts
  /\ OneFilePerSecond => now \notin DOMAIN files
  /\ \E ops \in ComputeDiff(Desired, LiveSchema(live)) : ops # <<>> /\ todo' = Script(ops)
  /\ command' = "migrate"
  /\ stage' = "writing"
  /\ outcome' = "none"

StartMigrate ==
  LET shadow == Replay(files) IN
  /\ MigrateStarts
  /\ OneFilePerSecond => now \notin DOMAIN files
  /\ shadow.ok
  /\ \E ops \in ComputeDiff(Desired, LiveSchema(shadow.db)) :
       /\ ops # <<>>
       /\ todo' = Script(ops)
  /\ command' = "migrate"
  /\ stage' = "writing"
  /\ outcome' = "none"

\* (Mutant: the last statement is missing from the file.)
WriteFileShort ==
  /\ stage = "writing"
  /\ files' = Over(Only(now, Front(todo)), files)
  /\ stage' = "running"
  /\ enforced' = FkAtOpen
  /\ UNCHANGED <<schema, live, now, command, todo, applied, outcome, trouble, commands,
                 deaths>>

\* The file is named after the second; a file of that name is overwritten.
WriteFile ==
  /\ stage = "writing"
  /\ files' = Over(Only(now, todo), files)
  /\ stage' = "running"
  /\ enforced' = FkAtOpen
  /\ UNCHANGED <<schema, live, now, command, todo, applied, outcome, trouble, commands,
                 deaths>>

End(ended) ==
  /\ command' = "none"
  /\ stage' = "idle"
  /\ todo' = <<>>
  /\ outcome' = ended
  /\ UNCHANGED <<schema, now, enforced, commands>>

RunStatement ==
  /\ stage = "running"
  /\ todo # <<>>
  /\ Execute(live, Head(todo), enforced).ok
  /\ live' = Execute(live, Head(todo), enforced).db
  /\ enforced' = Enforcing(Head(todo), enforced)
  /\ todo' = Tail(todo)
  /\ UNCHANGED <<schema, files, now, command, stage, applied, outcome, trouble, commands,
                 deaths>>

\* An error ends the command; what ran before it stays.
StatementFails ==
  /\ stage = "running"
  /\ todo # <<>>
  /\ ~ Execute(live, Head(todo), enforced).ok
  /\ trouble' = TRUE
  /\ End("failed")
  /\ UNCHANGED <<live, files, applied, deaths>>

Finish ==
  /\ stage = "running"
  /\ todo = <<>>
  /\ \/ /\ command = "push"
        /\ End("pushed")
        /\ UNCHANGED applied
     \/ /\ command = "migrate"
        /\ End("migrated")
        /\ applied' = applied + 1
  /\ UNCHANGED <<live, files, trouble, deaths>>

\* The process is killed; a file being written holds what was written of it,
\* the last statement perhaps in part.
Cut == Op("Cut", "-", "-")

Die ==
  /\ ~ Idle
  /\ deaths < MaxDeaths
  /\ deaths' = deaths + 1
  /\ IF stage = "writing"
     THEN \/ UNCHANGED files
          \/ \E n \in 0..Len(todo) :
               \/ files' = Over(Only(now, SubSeq(todo, 1, n)), files)
               \/ n < Len(todo) /\ files' = Over(Only(now, Append(SubSeq(todo, 1, n), Cut)), files)
     ELSE UNCHANGED files
  /\ trouble' = TRUE
  /\ End("died")
  /\ UNCHANGED <<live, applied>>

Command == WriteFile \/ RunStatement \/ StatementFails \/ Finish

Next ==
  \/ \E s \in Schema : Edit(s)
  \/ Tick
  \/ \E t \in ToSet(TableOrder), r \in Row : Store(t, r)
  \/ StartPush
  \/ MigrateStops
  \/ StartMigrate
  \/ Command
  \/ Die

Spec == Init /\ [][Next]_vars

-------------------------------------------------------------------------------

\* What two databases must agree on to serve the same schema.
Shape(db) ==
  [tables |-> [t \in DOMAIN db.table |->
                [columns |-> LiveColumns(db, t), foreignKeys |-> LiveForeignKeys(db, t)]],
   indexes |-> {<<i.table, i.columns, i.unique>> : i \in db.index},
   triggers |-> {<<g.table, g.name>> : g \in db.trigger}]

\* The shape of the database the lowered schema describes.
DesiredShape ==
  [tables |-> [t \in DOMAIN Desired |->
                [columns |-> [c \in DOMAIN Desired[t].columns |->
                                Plain(Desired[t].columns[c].affinity)],
                 foreignKeys |-> {[fk EXCEPT !.onDelete = IF @ = "no action" THEN "-" ELSE @] :
                                    fk \in Desired[t].foreignKeys}]],
   indexes |-> UNION {{<<t, i.columns, i.unique>> : i \in Desired[t].indexes} : t \in DOMAIN Desired},
   triggers |-> UNION {{<<t, g.name>> : g \in Desired[t].triggers} : t \in DOMAIN Desired}]

TypeOK ==
  /\ schema \in Schema
  /\ DOMAIN live.table \subseteq ToSet(TableOrder)
  /\ \A t \in DOMAIN live.table, r \in Row :
       r \in DOMAIN live.table[t].rows =>
         DOMAIN live.table[t].rows[r] = DOMAIN live.table[t].columns
  /\ DOMAIN files \subseteq 0..now
  /\ command \in {"none", "push", "migrate"}
  /\ stage \in {"idle", "writing", "running"}
  /\ (stage = "idle") <=> Idle
  /\ outcome \in Outcome
  /\ enforced \in BOOLEAN
  /\ applied \in 0..commands
  /\ trouble \in BOOLEAN
  /\ commands \in 0..MaxCommands
  /\ deaths \in 0..MaxDeaths

(***************************************************************************)
(* A push that ends well leaves the tables, columns, foreign keys, indexes *)
(* and triggers of schema.cq, whatever an earlier push or migrate that     *)
(* died or failed at any statement left behind: the differ must see every  *)
(* half-done step (compute_diff against the introspected database, indexes *)
(* and triggers created again after a rebuild).                            *)
(***************************************************************************)
PushReachesSchema == outcome = "pushed" => Shape(live) = DesiredShape

\* The statements of the migrations directory, one after the other.
History == FlattenSeq(InOrder(files))

\* No file ends within a statement.
Uncut(q) == \A i \in DOMAIN q : q[i].kind # "Cut"

\* Statement s makes a full-text table for t.
MakesFts(s, t) ==
  /\ s.table = t
  /\ \/ s.kind = "CreateVirtualTable"
     \/ s.kind = "RebuildTable" /\ s.arg.def.fts # {}

\* A full-text table of t is made within the first n statements of q, and not dropped.
Supplied(q, n, t) ==
  \E j \in 1 .. n :
    /\ MakesFts(q[j], t)
    /\ \A k \in j + 1 .. n : ~ (q[k].kind = "DropVirtualTable" /\ q[k].table = t)

\* Statement s makes a full-text trigger.
Feeds(s) == s.kind = "CreateTrigger" /\ s.arg.feeds # {}

\* The full-text triggers of q come after the table they feed: @@fulltext was
\* added to a model only when its table was made or rebuilt.
Provides(q) == \A i \in DOMAIN q : Feeds(q[i]) => Supplied(q, i - 1, q[i].table)

(***************************************************************************)
(* The files in migrations/ replay without an error on an empty database,  *)
(* also when the statements of the last one failed on the live database,   *)
(* or a command died after writing only the first of them: unless a file   *)
(* ends within a statement, or @@fulltext was added to a table without a   *)
(* rebuild (differ.rs:130 writes the triggers alone).                      *)
(***************************************************************************)
HistoryReplays == Uncut(History) /\ Provides(History) => Replay(files).ok

(***************************************************************************)
(* docs/migrations.md:35, "This guarantees that your migration history     *)
(* files are always the absolute source of truth for the database          *)
(* structure": without deaths or pushes a migrate never writes a file that *)
(* no later migrate can replay.                                            *)
(***************************************************************************)
HistoryAlwaysReplays == Replay(files).ok

(***************************************************************************)
(* As long as every command was a migrate that ran to its end, the live    *)
(* database has the shape the history replays to, and after each migrate   *)
(* that shape is the schema's: the script computed on the empty shadow     *)
(* does the same to a database with rows.                                  *)
(***************************************************************************)
InSync ==
  Idle /\ ~ trouble =>
    /\ Shape(live) = Shape(Replay(files).db)
    /\ outcome \in {"migrated", "nothing"} => Shape(live) = DesiredShape

\* The reference of row r of t by fk leads nowhere.
Dangling(db, t, fk, r) ==
  LET v == db.table[t].rows[r][fk.from]
  IN  v # Null /\ ~ (fk.to \in DOMAIN db.table /\ v \in DOMAIN db.table[fk.to].rows)

\* A dangling reference dangled before the step.
KeepsReferences ==
  \A t \in DOMAIN live'.table : \A fk \in live'.table[t].foreignKeys :
    \A r \in DOMAIN live'.table[t].rows :
      Dangling(live, t, fk, r)' =>
        t \in DOMAIN live.table /\ r \in DOMAIN live.table[t].rows /\ Dangling(live, t, fk, r)

(***************************************************************************)
(* No step leaves a reference without its row: not a rebuild, which drops  *)
(* the referenced table with foreign keys off, nor the drop of a table,    *)
(* which cascades or clears.  A value that leads nowhere led nowhere       *)
(* before; if its foreign key is new, then as a plain value.               *)
(***************************************************************************)
ReferencesSurvive == [][KeepsReferences]_vars

\* The rows of the schema's models are there after the step, with their values.
KeepsRows ==
  \A t \in DOMAIN live.table \cap DOMAIN Desired :
    /\ t \in DOMAIN live'.table
    /\ \A r \in DOMAIN live.table[t].rows :
         /\ r \in DOMAIN live'.table[t].rows
         /\ \A c \in DOMAIN live.table[t].columns \cap DOMAIN Desired[t].columns :
              live'.table[t].rows[r][c] = live.table[t].rows[r][c]

(***************************************************************************)
(* No statement of a push, and none of a migrate on a database that        *)
(* follows its history, removes a row of a model that stays in the schema  *)
(* or changes a value in a column that stays.  It rests on the foreign_keys*)
(* pragmas around a rebuild and on deletions coming after changes.         *)
(***************************************************************************)
RowsKept == [][stage = "running" /\ (command = "push" \/ ~ trouble) => KeepsRows]_vars

(***************************************************************************)
(* After a command that ended well the differ finds nothing to do for the  *)
(* same schema.cq: docs/migrations.md:70, "the engine relies on the        *)
(* intelligent differ to avoid applying the same changes twice".           *)
(***************************************************************************)
NothingLeftToDo ==
  outcome \in {"pushed", "migrated"} => <<>> \in ComputeDiff(Desired, LiveSchema(live))
===============================================================================
