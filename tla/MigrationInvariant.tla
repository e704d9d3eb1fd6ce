------------------------- MODULE MigrationInvariant --------------------------
(***************************************************************************)
(* What holds between any two steps of the schema commands.                *)
(***************************************************************************)
EXTENDS MigrationWorkflow

\* A database is well formed: a foreign key has its column, a row has a value
\* in every column, and there is finitely much to introspect.
FormedTable(def) ==
  /\ def = [columns |-> def.columns, foreignKeys |-> def.foreignKeys, rows |-> def.rows]
  /\ IsFiniteSet(DOMAIN def.columns)
  /\ \A fk \in def.foreignKeys :
       /\ fk = [from |-> fk.from, to |-> fk.to, onDelete |-> fk.onDelete]
       /\ fk.from \in DOMAIN def.columns /\ fk.from # <<"__id">>
  /\ \A r \in DOMAIN def.rows : DOMAIN def.rows[r] = DOMAIN def.columns

Formed(db) ==
  /\ db = [table |-> db.table, index |-> db.index, trigger |-> db.trigger, fts |-> db.fts]
  /\ DOMAIN db.table \subseteq ToSet(TableOrder)
  /\ IsFiniteSet(db.index) /\ IsFiniteSet(db.trigger)
  /\ \A t \in DOMAIN db.table : FormedTable(db.table[t])

Deletes == {"DropTable", "DropVirtualTable"}
Kinds ==
  {"CreateTable", "CreateVirtualTable", "AddColumn", "RebuildTable", "ForeignKeysOff",
   "ForeignKeysOn", "CreateIndex", "DropIndex", "CreateTrigger", "DropTrigger"} \cup Deletes

\* A statement that compute_diff and generate_sql may write for the schema d.
Writes(d, s) ==
  /\ s.kind \in Kinds
  /\ s.kind \in {"CreateTable", "RebuildTable", "AddColumn"} => s.table \in DOMAIN d
  /\ s.kind = "CreateTable" => s.arg = d[s.table]
  /\ s.kind = "RebuildTable" =>
       s.arg.def = d[s.table] /\ s.arg.keep \subseteq DOMAIN d[s.table].columns
  /\ s.kind = "AddColumn" =>
       /\ s.arg[1] \in DOMAIN d[s.table].columns
       /\ s.arg[2] = d[s.table].columns[s.arg[1]]
  /\ s.kind = "DropTable" => s.table \notin DOMAIN d
  /\ s.kind = "CreateIndex" =>
       /\ s.table \in DOMAIN d
       /\ \E i \in d[s.table].indexes : s.arg = [i EXCEPT !.name = IndexName(s.table, i.columns)]
  /\ s.kind = "CreateTrigger" => s.table \in DOMAIN d /\ s.arg \in d[s.table].triggers

\* A sequence of statements, each written for some version of the schema, or the
\* beginning of one that was.
IsScript(q) ==
  /\ q \in Seq(ToSet(q))
  /\ \A i \in DOMAIN q : q[i].kind = "Cut" \/ \E s \in Schema : Writes(Lowered[s], q[i])

TypeInv ==
  /\ schema \in Schema
  /\ Formed(live)
  /\ now \in Nat /\ DOMAIN files \subseteq 0 .. now
  /\ \A n \in DOMAIN files : IsScript(files[n])
  /\ command \in {"none", "push", "migrate"}
  /\ stage \in {"idle", "writing", "running"}
  /\ (stage = "idle") <=> Idle
  /\ stage = "writing" => command = "migrate"
  /\ IsScript(todo) /\ \A i \in DOMAIN todo : Writes(Desired, todo[i])
  /\ Idle => todo = <<>>
  /\ outcome \in Outcome
  /\ enforced \in BOOLEAN /\ trouble \in BOOLEAN
  /\ commands \in 0 .. MaxCommands /\ applied \in 0 .. commands /\ deaths \in 0 .. MaxDeaths
  /\ command = "migrate" => applied < commands

(***************************************************************************)
(* The pragmas stand around the rebuild they are written with, and tables  *)
(* are dropped last.                                                       *)
(***************************************************************************)
Paired(q) ==
  \A i \in DOMAIN q :
    /\ q[i].kind = "ForeignKeysOff" => i < Len(q) /\ q[i + 1].kind = "RebuildTable"
    /\ q[i].kind = "RebuildTable" => i < Len(q) /\ q[i + 1].kind = "ForeignKeysOn"

\* A rebuild comes right after the pragma, or is next while it is in force.
Sheltered(q, on) ==
  \A i \in DOMAIN q :
    q[i].kind = "RebuildTable" =>
      \/ i > 1 /\ q[i - 1].kind = "ForeignKeysOff"
      \/ i = 1 /\ ~ on

DropsLast(q) ==
  \A i \in DOMAIN q : \A j \in DOMAIN q :
    i < j /\ q[i].kind = "DropTable" => q[j].kind \in Deletes

PragmaInv ==
  /\ Paired(todo) /\ DropsLast(todo)
  /\ stage = "running" => Sheltered(todo, enforced)
  /\ stage = "writing" => Sheltered(todo, TRUE)
  /\ FkAtOpen /\ stage = "running" /\ ~ enforced =>
       todo # <<>> /\ todo[1].kind \in {"RebuildTable", "ForeignKeysOn"}

(***************************************************************************)
(* What is still to run suits the live database: a rebuild has every       *)
(* column to copy in its list, save what it would fill in alike, and a     *)
(* table of the schema refers to tables of the schema once it is rebuilt.  *)
(***************************************************************************)
Covers(s, def) ==
  \A c \in DOMAIN def.columns \cap DOMAIN s.arg.def.columns :
    \/ c \in s.arg.keep
    \/ \A r \in DOMAIN def.rows : def.rows[r][c] = Absent(s.arg.def.columns[c])

Suits(q, db, d) ==
  /\ \A i \in DOMAIN q :
       q[i].kind = "RebuildTable" /\ q[i].table \in DOMAIN db.table =>
         Covers(q[i], db.table[q[i].table])
  /\ \A t \in DOMAIN d \cap DOMAIN db.table :
       \/ \A fk \in db.table[t].foreignKeys : fk.to \in DOMAIN d
       \/ \E i \in DOMAIN q : q[i].kind = "RebuildTable" /\ q[i].table = t

\* Foreign keys are enforced from the start, and every file gets a name of its own.
Steady == FkAtOpen /\ OneFilePerSecond

SuitInv ==
  stage # "idle" /\ (command = "push" \/ (Steady /\ ~ trouble)) =>
    Suits(todo, live, Desired)

(***************************************************************************)
(* Without pushes, deaths and errors the live database follows the files:  *)
(* but for its rows it is what the statements before those still to run    *)
(* make of an empty database.                                              *)
(***************************************************************************)
Frame(db) ==
  [table |-> [t \in DOMAIN db.table |->
                [columns |-> db.table[t].columns, foreignKeys |-> db.table[t].foreignKeys]],
   index |-> db.index, trigger |-> db.trigger, fts |-> db.fts]

Follows(q) ==
  LET run == Batch(Empty, q, FkAtOpen)
  IN  run.ok /\ Frame(run.db) = Frame(live) /\ run.enforced = enforced

FollowInv ==
  /\ command = "push" => trouble
  /\ Steady /\ ~ trouble =>
       /\ stage # "running" => enforced
       /\ IF stage = "writing"
          THEN now \notin DOMAIN files /\ Follows(History)
          ELSE LET n == Len(History) - Len(todo)
               IN  /\ n \in Nat
                   /\ \A i \in DOMAIN todo : todo[i] = History[n + i]
                   /\ Follows(SubSeq(History, 1, n))

(***************************************************************************)
(* Statements and frames: whether a statement runs on a database without   *)
(* rows, and what it makes of the columns, keys, indexes and triggers of   *)
(* any database, is decided by its frame.                                  *)
(***************************************************************************)
Shell(def) == [columns |-> def.columns, foreignKeys |-> def.foreignKeys]

\* What s is about is there, and what it makes is not.
Finds(fr, s) ==
  CASE s.kind = "CreateTable" -> s.table \notin DOMAIN fr.table
    [] s.kind = "DropTable" -> s.table \in DOMAIN fr.table
    [] s.kind = "AddColumn" ->
         s.table \in DOMAIN fr.table /\ s.arg[1] \notin DOMAIN fr.table[s.table].columns
    [] s.kind = "RebuildTable" ->
         /\ s.table \in DOMAIN fr.table
         /\ s.arg.keep \subseteq DOMAIN fr.table[s.table].columns
    [] s.kind = "CreateIndex" ->
         /\ s.table \in DOMAIN fr.table
         /\ \A i \in fr.index : i.name # s.arg.name
         /\ ToSet(s.arg.columns) \subseteq DOMAIN fr.table[s.table].columns
    [] s.kind = "DropIndex" -> \E i \in fr.index : i.name = s.arg
    [] s.kind = "CreateTrigger" -> s.table \in DOMAIN fr.table
    [] OTHER -> TRUE

\* No broken trigger is in the way of s, with foreign keys enforced or not.
Clear(fr, s, on) ==
  /\ s.kind \in {"DropTable", "RebuildTable"} => ~ (on /\ Jams(fr, s.table))
  /\ s.kind = "RebuildTable" => \A g \in Broken(fr) : g.table = s.table

Runs(fr, s, on) == s.kind # "Cut" /\ Finds(fr, s) /\ Clear(fr, s, on)

TablesAfter(fr, s) ==
  CASE s.kind = "CreateTable" -> {s.table} \cup DOMAIN fr.table
    [] s.kind = "DropTable" -> DOMAIN fr.table \ {s.table}
    [] OTHER -> DOMAIN fr.table

ShellAfter(fr, s, t) ==
  CASE s.kind = "CreateTable" /\ t = s.table -> Shell(s.arg)
    [] s.kind = "RebuildTable" /\ t = s.table -> Shell(s.arg.def)
    [] s.kind = "AddColumn" /\ t = s.table ->
         [columns |-> Over(Only(s.arg[1], s.arg[2]), fr.table[t].columns),
          foreignKeys |-> fr.table[t].foreignKeys]
    [] OTHER -> fr.table[t]

IndexAfter(fr, s) ==
  CASE s.kind \in {"DropTable", "RebuildTable"} -> {i \in fr.index : i.table # s.table}
    [] s.kind = "CreateIndex" ->
         fr.index \cup {[name |-> s.arg.name, table |-> s.table, columns |-> s.arg.columns,
                         unique |-> s.arg.unique]}
    [] s.kind = "DropIndex" -> {i \in fr.index : i.name # s.arg}
    [] OTHER -> fr.index

TriggerAfter(fr, s) ==
  CASE s.kind \in {"DropTable", "RebuildTable"} -> {g \in fr.trigger : g.table # s.table}
    [] s.kind = "CreateTrigger" ->
         IF \E g \in fr.trigger : g.name = s.arg.name THEN fr.trigger
         ELSE fr.trigger \cup {[name |-> s.arg.name, table |-> s.table,
                                watches |-> s.arg.watches, feeds |-> s.arg.feeds]}
    [] s.kind = "DropTrigger" -> {g \in fr.trigger : g.name # s.arg}
    [] OTHER -> fr.trigger

FtsAfter(fr, s) ==
  CASE s.kind = "RebuildTable" -> IF s.arg.def.fts = {} THEN fr.fts ELSE fr.fts \cup {s.table}
    [] s.kind = "CreateVirtualTable" -> fr.fts \cup {s.table}
    [] s.kind = "DropVirtualTable" -> fr.fts \ {s.table}
    [] OTHER -> fr.fts

After(fr, s) ==
  [table |-> [t \in TablesAfter(fr, s) |-> ShellAfter(fr, s, t)],
   index |-> IndexAfter(fr, s), trigger |-> TriggerAfter(fr, s), fts |-> FtsAfter(fr, s)]

(***************************************************************************)
(* An index, as the database keeps it, is one some version of the schema   *)
(* asked for; a name says whose an index or a trigger is.                  *)
(***************************************************************************)
Made(t, i) ==
  [name |-> IndexName(t, i.columns), table |-> t, columns |-> i.columns, unique |-> i.unique]

Owner(name) == IF name[2] = "fts" THEN name[1] ELSE name[3]

Known(fr) ==
  /\ \A x \in fr.index :
       /\ x.table \in DOMAIN fr.table
       /\ \E z \in Schema : x.table \in DOMAIN Lowered[z]
                            /\ \E i \in Lowered[z][x.table].indexes : x = Made(x.table, i)
  /\ \A g \in fr.trigger :
       /\ g.table \in DOMAIN fr.table /\ g.table = Owner(g.name)
       /\ g.feeds # {} => g.name[2] = "fts"

(***************************************************************************)
(* The names of the indexes tell them apart: no unique field, in any       *)
(* version of a model, is called like the index of a polymorphic field.    *)
(***************************************************************************)
Polymorphic(model) == {f \in DOMAIN model.fields : model.fields[f].kind = "poly"}
UniqueFields(model) == {f \in DOMAIN model.fields : model.fields[f].unique}

NamesTellApart ==
  \A s \in Schema : \A z \in Schema : \A m \in DOMAIN s \cap DOMAIN z :
    \A p \in Polymorphic(s[m]) :
      UniqueFields(z[m]) \cap {Append(p, "polymorphic"), Append(p, "type") \o Append(p, "id")} = {}

(***************************************************************************)
(* Every index has the name the differ looks for, and columns to be on:    *)
(* there are no polymorphic fields, and unique fields are stored.          *)
(***************************************************************************)
Indexable ==
  \A s \in Schema : \A m \in DOMAIN s :
    /\ Polymorphic(s[m]) = {}
    /\ \A f \in UniqueFields(s[m]) : f \in ColumnNames(f, s[m].fields[f])

(***************************************************************************)
(* What is still to run will make of this frame the frame of the schema,   *)
(* if it runs: every table, column, index and trigger there should be is   *)
(* there or will be made, and nothing takes it away again; what should not *)
(* be there will go.                                                       *)
(***************************************************************************)
Does(q, i, kind, t) == q[i].kind = kind /\ q[i].table = t

Removes(s, x) ==
  \/ s.kind \in {"DropTable", "RebuildTable"} /\ s.table = x.table
  \/ s.kind = "DropIndex" /\ s.arg = x.name

Unhooks(s, g) ==
  \/ s.kind \in {"DropTable", "RebuildTable"} /\ s.table = g.table
  \/ s.kind = "DropTrigger" /\ s.arg = g.name

Declared(keys) == {[fk EXCEPT !.onDelete = IF @ = "no action" THEN "-" ELSE @] : fk \in keys}

TablesCome(q, fr, d) ==
  /\ \A t \in DOMAIN d \ DOMAIN fr.table : \E i \in DOMAIN q : Does(q, i, "CreateTable", t)
  /\ \A t \in DOMAIN fr.table \ DOMAIN d : \E i \in DOMAIN q : Does(q, i, "DropTable", t)

ColumnsCome(q, fr, d) ==
  \A t \in DOMAIN d \cap DOMAIN fr.table :
    \/ \E i \in DOMAIN q : Does(q, i, "RebuildTable", t)
    \/ /\ Declared(fr.table[t].foreignKeys) = Declared(d[t].foreignKeys)
       /\ DOMAIN fr.table[t].columns \subseteq DOMAIN d[t].columns
       /\ \A c \in DOMAIN d[t].columns :
            IF c \in DOMAIN fr.table[t].columns
            THEN fr.table[t].columns[c].affinity = d[t].columns[c].affinity
            ELSE \E i \in DOMAIN q : Does(q, i, "AddColumn", t) /\ q[i].arg[1] = c

IndexesCome(q, fr, d) ==
  \A t \in DOMAIN d : \A k \in d[t].indexes :
    \/ Made(t, k) \in fr.index /\ \A j \in DOMAIN q : ~ Removes(q[j], Made(t, k))
    \/ \E i \in DOMAIN q :
         /\ Does(q, i, "CreateIndex", t) /\ q[i].arg.columns = k.columns
         /\ q[i].arg.unique = k.unique
         /\ \A j \in DOMAIN q : i < j => ~ Removes(q[j], Made(t, k))

IndexesGo(q, fr, d) ==
  \A x \in fr.index :
    \/ x.table \in DOMAIN d /\ \E k \in d[x.table].indexes : x = Made(x.table, k)
    \/ \E j \in DOMAIN q : Removes(q[j], x)

TriggersCome(q, fr, d) ==
  \A t \in DOMAIN d : \A k \in d[t].triggers :
    \/ \E g \in fr.trigger :
         g.table = t /\ g.name = k.name /\ \A j \in DOMAIN q : ~ Unhooks(q[j], g)
    \/ \E i \in DOMAIN q :
         /\ Does(q, i, "CreateTrigger", t) /\ q[i].arg.name = k.name
         /\ \A j \in DOMAIN q : i < j => ~ Unhooks(q[j], [name |-> k.name, table |-> t])

TriggersGo(q, fr, d) ==
  \A g \in fr.trigger :
    \/ g.table \in DOMAIN d /\ \E k \in d[g.table].triggers : k.name = g.name
    \/ \E j \in DOMAIN q : Unhooks(q[j], g)

\* An index of its name is in the way of a CREATE INDEX: the script will fail.
Blocked(q, fr) ==
  \E i \in DOMAIN q : \E x \in fr.index :
    /\ q[i].kind = "CreateIndex" /\ q[i].arg.name = x.name
    /\ \A j \in DOMAIN q : j < i => ~ Removes(q[j], x)

Reaches(q, fr, d) ==
  \/ Blocked(q, fr)
  \/ /\ TablesCome(q, fr, d) /\ ColumnsCome(q, fr, d)
     /\ IndexesCome(q, fr, d) /\ IndexesGo(q, fr, d)
     /\ TriggersCome(q, fr, d) /\ TriggersGo(q, fr, d)

\* The frame of the schema, as far as push and migrate must reach it.
Served(fr, d) ==
  /\ TablesCome(<<>>, fr, d) /\ ColumnsCome(<<>>, fr, d)
  /\ IndexesCome(<<>>, fr, d) /\ IndexesGo(<<>>, fr, d)
  /\ TriggersCome(<<>>, fr, d) /\ TriggersGo(<<>>, fr, d)

ReachInv ==
  /\ Known(Frame(live))
  /\ stage # "idle" => outcome = "none"
  /\ stage # "idle" /\ (command = "push" \/ (Steady /\ ~ trouble)) =>
       Reaches(todo, Frame(live), Desired)
  /\ outcome = "pushed" => Served(Frame(live), Desired)
  /\ Steady /\ ~ trouble /\ outcome \in {"migrated", "nothing"} =>
       Served(Frame(live), Desired)

(***************************************************************************)
(* What is still to run will run on this frame without rows: a statement's *)
(* table, columns and index are there or made before, the name of what it  *)
(* makes is free or will be, and no trigger feeds a full-text table that   *)
(* is dropped.                                                             *)
(***************************************************************************)
Earlier(q, i, kind, t) == \E j \in DOMAIN q : j < i /\ Does(q, j, kind, t)

Stands(q, i, fr, t) == t \in DOMAIN fr.table \/ Earlier(q, i, "CreateTable", t)

HasColumn(q, i, fr, t, c) ==
  \/ t \in DOMAIN fr.table /\ c \in DOMAIN fr.table[t].columns
  \/ Earlier(q, i, "CreateTable", t) \/ Earlier(q, i, "RebuildTable", t)
  \/ \E j \in DOMAIN q : j < i /\ Does(q, j, "AddColumn", t) /\ q[j].arg[1] = c

IsFree(q, i, fr, name) ==
  /\ \A x \in fr.index : x.name = name => \E j \in DOMAIN q : j < i /\ Removes(q[j], x)
  /\ \A j \in DOMAIN q : j < i /\ q[j].kind = "CreateIndex" => q[j].arg.name # name

CanRun(q, i, fr, d) ==
  LET t == q[i].table IN
  CASE q[i].kind = "CreateTable" -> ~ Stands(q, i, fr, t)
    [] q[i].kind = "DropTable" -> t \in DOMAIN fr.table /\ ~ Earlier(q, i, "DropTable", t)
    [] q[i].kind = "AddColumn" ->
         /\ t \in DOMAIN fr.table
         /\ ~ HasColumn(q, i, fr, t, q[i].arg[1])
    [] q[i].kind = "RebuildTable" ->
         /\ t \in DOMAIN fr.table /\ ~ Earlier(q, i, "RebuildTable", t)
         /\ q[i].arg.keep \subseteq DOMAIN fr.table[t].columns
    [] q[i].kind = "CreateIndex" ->
         /\ Stands(q, i, fr, t)
         /\ \A c \in ToSet(q[i].arg.columns) :
              c \in DOMAIN d[t].columns /\ HasColumn(q, i, fr, t, c)
         /\ IsFree(q, i, fr, q[i].arg.name)
    [] q[i].kind = "DropIndex" ->
         \E x \in fr.index :
           x.name = q[i].arg /\ \A j \in DOMAIN q : j < i => ~ Removes(q[j], x)
    [] q[i].kind = "CreateTrigger" -> Stands(q, i, fr, t)
    [] q[i].kind = "DropVirtualTable" ->
         /\ \A g \in fr.trigger :
              g.table = t /\ g.feeds # {} => \E j \in DOMAIN q : j < i /\ Unhooks(q[j], g)
         /\ \A j \in DOMAIN q : j < i /\ Does(q, j, "CreateTrigger", t) => q[j].arg.feeds = {}
    [] OTHER -> TRUE

WillRun(q, fr, d) == \A i \in DOMAIN q : CanRun(q, i, fr, d)

HistoryInv ==
  /\ Uncut(History) /\ Provides(History) =>
       Replay(files).ok /\ Broken(Replay(files).db) = {}
  /\ stage = "writing" =>
       now \notin DOMAIN files /\ WillRun(todo, Frame(Replay(files).db), Desired)

MigrationInv == TypeInv /\ PragmaInv /\ SuitInv /\ FollowInv
===============================================================================
