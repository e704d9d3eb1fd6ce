----------------------------- MODULE SchemaStore ------------------------------
(***************************************************************************)
(* What SQLite does with the statements a migration consists of.  SQLite   *)
(* is not part of the repository: this is its documented behaviour for the *)
(* statements migration.rs writes.  A connection is a database and its     *)
(* foreign_keys setting.                                                   *)
(***************************************************************************)
EXTENDS SchemaDiffer, Maps

CONSTANTS
  Null,        \* SQL NULL
  Default      \* the value a DEFAULT clause supplies

Empty == [table |-> <<>>, index |-> {}, trigger |-> {}, fts |-> {}]

Result(ok, db) == [ok |-> ok, db |-> db]
Failed(db) == Result(FALSE, db)

\* The value a row shows in a column it was stored without.
Absent(type) == IF type.rest = "-" THEN Null ELSE Default

NewTable(def) ==
  [columns |-> def.columns, foreignKeys |-> def.foreignKeys, rows |-> <<>>]

WithTable(db, t, def) == [db EXCEPT !.table = Over(Only(t, def), @)]

\* The stored rows, each with its table.
Stored(db) == UNION {{t} \X DOMAIN db.table[t].rows : t \in DOMAIN db.table}

\* The stored row p refers to one of rows by the foreign key fk.
Refers(db, p, fk, rows) ==
  /\ fk \in db.table[p[1]].foreignKeys
  /\ <<fk.to, db.table[p[1]].rows[p[2]][fk.from]>> \in rows

(***************************************************************************)
(* DROP TABLE with foreign keys enforced deletes the rows first.  CASCADE  *)
(* takes the referring rows along, so what goes is the least set that      *)
(* holds the table's rows and is closed under cascading references.        *)
(***************************************************************************)
CascadeClosed(db, rows) ==
  \A p \in Stored(db) :
    (\E fk \in db.table[p[1]].foreignKeys :
       fk.onDelete = "cascade" /\ Refers(db, p, fk, rows)) => p \in rows

Doomed(db, t) ==
  {p \in Stored(db) :
     \A S \in SUBSET Stored(db) :
       {t} \X DOMAIN db.table[t].rows \subseteq S /\ CascadeClosed(db, S) => p \in S}

\* SET NULL and SET DEFAULT (no key column has a default) clear a reference.
Cleared(db, p, c, doomed) ==
  \E fk \in db.table[p[1]].foreignKeys :
    /\ fk.from = c /\ fk.onDelete \in {"set null", "set default"}
    /\ Refers(db, p, fk, doomed)

Spared(db, t, doomed) ==
  [r \in {s \in DOMAIN db.table[t].rows : <<t, s>> \notin doomed} |->
     [c \in DOMAIN db.table[t].rows[r] |->
        IF Cleared(db, <<t, r>>, c, doomed) THEN Null ELSE db.table[t].rows[r][c]]]

ImplicitDelete(db, doomed) ==
  [db EXCEPT !.table =
     [u \in DOMAIN @ |-> [@[u] EXCEPT !.rows = Spared(db, u, doomed)]]]

\* A reference that would be left without its row refuses the drop.
StillReferred(db, doomed) ==
  \E p \in Stored(db) \ doomed : \E fk \in db.table[p[1]].foreignKeys :
    /\ fk.onDelete \notin {"cascade", "set null", "set default"}
    /\ Refers(db, p, fk, doomed)

Without(db, t) ==
  [db EXCEPT !.table = [u \in DOMAIN @ \ {t} |-> @[u]],
             !.index = {i \in @ : i.table # t},
             !.trigger = {g \in @ : g.table # t}]

(***************************************************************************)
(* A full-text trigger whose full-text table is missing fails whatever     *)
(* makes SQLite look at it: the RENAME of a rebuild looks at all, the      *)
(* implicit DELETE at those its CASCADE and SET actions can fire, rows or  *)
(* none.                                                                   *)
(***************************************************************************)
Broken(db) == {g \in db.trigger : g.feeds # {} /\ g.table \notin db.fts}

\* A trigger fires after insert, after delete or after update: ai, ad, au.
Event(g) == g.name[3]

\* The tables whose rows may go along with rows of t.
KeyClosed(db, tables) ==
  \A u \in DOMAIN db.table :
    (\E fk \in db.table[u].foreignKeys : fk.onDelete = "cascade" /\ fk.to \in tables) =>
      u \in tables

Cascading(db, t) ==
  {u \in DOMAIN db.table :
     \A S \in SUBSET DOMAIN db.table : t \in S /\ KeyClosed(db, S) => u \in S}

Jams(db, t) ==
  \E u \in DOMAIN db.table : \E fk \in db.table[u].foreignKeys : \E g \in Broken(db) :
    /\ fk.to \in Cascading(db, t) /\ g.table = u
    /\ \/ fk.onDelete = "cascade" /\ Event(g) = "ad"
       \/ fk.onDelete \in {"set null", "set default"} /\ Event(g) = "au"

DropTable(db, t, enforced) ==
  IF t \notin DOMAIN db.table THEN Failed(db)
  ELSE IF ~ enforced THEN Result(TRUE, Without(db, t))
  ELSE IF Jams(db, t) THEN Failed(db)
  ELSE LET doomed == Doomed(db, t)
       IN  IF StillReferred(db, doomed) THEN Failed(db)
           ELSE Result(TRUE, Without(ImplicitDelete(db, doomed), t))

(***************************************************************************)
(* The rebuild: a new table, the shared columns copied, the old table      *)
(* dropped, the new one renamed, the full-text table made anew.  The       *)
(* triggers of t went with the drop; a broken one of another table fails   *)
(* the RENAME, and the rebuild is undone as a whole.                       *)
(***************************************************************************)
\* (Mutant: the columns that were not there are not filled in.)
CopiedAlone(old, def, keep) ==
  [NewTable(def) EXCEPT !.rows = [r \in DOMAIN old.rows |-> [c \in keep |-> old.rows[r][c]]]]

\* (Mutant: the rows are not copied.)
CopiedNothing(old, def, keep) == NewTable(def)

Copied(old, def, keep) ==
  [NewTable(def) EXCEPT !.rows =
     [r \in DOMAIN old.rows |->
        [c \in DOMAIN def.columns |->
           IF c \in keep THEN old.rows[r][c] ELSE Absent(def.columns[c])]]]

Rebuild(db, t, def, keep, enforced) ==
  IF t \notin DOMAIN db.table THEN Failed(db)
  ELSE IF ~ keep \subseteq DOMAIN db.table[t].columns THEN Failed(db)
  ELSE LET dropped == DropTable(db, t, enforced)
           copied  == WithTable(dropped.db, t, Copied(db.table[t], def, keep))
       IN  IF ~ dropped.ok \/ Broken(dropped.db) # {} THEN Failed(db)
           ELSE Result(TRUE, [copied EXCEPT !.fts = IF def.fts = {} THEN @ ELSE @ \cup {t}])

Duplicates(db, t, columns) ==
  \E r, s \in DOMAIN db.table[t].rows :
     /\ r # s
     /\ \A i \in DOMAIN columns :
          /\ db.table[t].rows[r][columns[i]] = db.table[t].rows[s][columns[i]]
          /\ db.table[t].rows[r][columns[i]] # Null

CreateIndex(db, t, index) ==
  IF \/ t \notin DOMAIN db.table
     \/ \E i \in db.index : i.name = index.name
  THEN Failed(db)
  ELSE IF \/ ~ ToSet(index.columns) \subseteq DOMAIN db.table[t].columns
          \/ /\ index.unique
             /\ Duplicates(db, t, index.columns)
  THEN Failed(db)
  ELSE Result(TRUE, [db EXCEPT !.index = @ \cup
         {[name |-> index.name, table |-> t, columns |-> index.columns,
           unique |-> index.unique]}])

AddColumn(db, t, c, type) ==
  IF t \notin DOMAIN db.table THEN Failed(db)
  ELSE IF c \in DOMAIN db.table[t].columns THEN Failed(db)
  ELSE Result(TRUE, [db EXCEPT
         !.table[t].columns = Over(Only(c, type), @),
         !.table[t].rows = [r \in DOMAIN @ |-> Over(Only(c, Absent(type)), @[r])]])

CreateTrigger(db, t, trigger) ==
  IF t \notin DOMAIN db.table THEN Failed(db)
  ELSE IF \E g \in db.trigger : g.name = trigger.name THEN Result(TRUE, db)
  ELSE Result(TRUE, [db EXCEPT !.trigger = @ \cup
         {[name |-> trigger.name, table |-> t, watches |-> trigger.watches,
           feeds |-> trigger.feeds]}])

\* One statement, on a connection that enforces foreign keys or does not.
Execute(db, s, enforced) ==
  CASE s.kind = "CreateTable" ->
         IF s.table \in DOMAIN db.table THEN Failed(db)
         ELSE Result(TRUE, WithTable(db, s.table, NewTable(s.arg)))
    [] s.kind = "DropTable" -> DropTable(db, s.table, enforced)
    [] s.kind = "AddColumn" -> AddColumn(db, s.table, s.arg[1], s.arg[2])
    [] s.kind = "RebuildTable" -> Rebuild(db, s.table, s.arg.def, s.arg.keep, enforced)
    [] s.kind = "CreateIndex" -> CreateIndex(db, s.table, s.arg)
    [] s.kind = "DropIndex" ->
         IF \E i \in db.index : i.name = s.arg
         THEN Result(TRUE, [db EXCEPT !.index = {i \in @ : i.name # s.arg}])
         ELSE Failed(db)
    [] s.kind = "CreateTrigger" -> CreateTrigger(db, s.table, s.arg)
    [] s.kind = "DropTrigger" ->
         Result(TRUE, [db EXCEPT !.trigger = {g \in @ : g.name # s.arg}])
    [] s.kind = "CreateVirtualTable" -> Result(TRUE, [db EXCEPT !.fts = @ \cup {s.table}])
    [] s.kind = "DropVirtualTable" -> Result(TRUE, [db EXCEPT !.fts = @ \ {s.table}])
    [] s.kind = "Cut" -> Failed(db)   \* a statement of which the end is missing
    [] OTHER -> Result(TRUE, db)   \* the foreign_keys pragmas leave the data alone

\* The foreign_keys setting after a statement.
Enforcing(s, enforced) ==
  CASE s.kind = "ForeignKeysOff" -> FALSE
    [] s.kind = "ForeignKeysOn" -> TRUE
    [] OTHER -> enforced

\* A statement of execute_batch, which stops at the first error.
RunNext(run, s) ==
  IF ~ run.ok THEN run
  ELSE LET r == Execute(run.db, s, run.enforced)
       IN  [ok |-> r.ok, db |-> r.db, enforced |-> Enforcing(s, run.enforced)]

\* execute_batch on a database no one else uses.
Batch(db, script, enforced) ==
  FoldLeft(RunNext, [ok |-> TRUE, db |-> db, enforced |-> enforced], script)
===============================================================================
