----------------------------- MODULE SchemaDiffer -----------------------------
(***************************************************************************)
(* Introspection of a database's schema, the differ, and the statements    *)
(* its operations become (schema-mapper/src/introspection.rs, differ.rs,   *)
(* migration.rs).                                                          *)
(*                                                                         *)
(* A database is a record of                                               *)
(*   table    the tables, by name: columns, foreignKeys, rows              *)
(*   index    the indexes: a set of records with name, table, columns,     *)
(*            unique                                                       *)
(*   trigger  the triggers: a set of records with name, table, watches,    *)
(*            feeds                                                        *)
(*   fts      the full-text tables, by the name of the model they index    *)
(***************************************************************************)
EXTENDS PhysicalSchema

CONSTANT TableOrder   \* all model names, in the order lowering sorts them

(***************************************************************************)
(* Introspection.  table_info gives the affinity word without the rest of  *)
(* the definition; foreign_key_list gives every action, of which the code  *)
(* writes all but NO ACTION.                                               *)
(***************************************************************************)
LiveColumns(db, t) ==
  [c \in DOMAIN db.table[t].columns |-> Plain(db.table[t].columns[c].affinity)]

LiveForeignKeys(db, t) ==
  {[fk EXCEPT !.onDelete = IF @ = "no action" THEN "-" ELSE @] :
     fk \in db.table[t].foreignKeys}

LiveTable(db, t) ==
  [columns |-> LiveColumns(db, t),
   indexes |-> {i.name : i \in {j \in db.index : j.table = t}},
   triggers |-> {g.name : g \in {h \in db.trigger : h.table = t}},
   foreignKeys |-> LiveForeignKeys(db, t)]

LiveSchema(db) ==
  [table |-> [t \in DOMAIN db.table |-> LiveTable(db, t)], fts |-> db.fts]

(***************************************************************************)
(* get_base_type: TEXT, INTEGER, REAL and BLOB are compared by prefix, any *)
(* other type by the whole of its text.                                    *)
(***************************************************************************)
BaseType(type) ==
  IF type.affinity \in {"TEXT", "INTEGER", "REAL", "BLOB"} THEN Plain(type.affinity) ELSE type

Op(kind, t, arg) == [kind |-> kind, table |-> t, arg |-> arg]

\* The sets below have no order the code relies on.
Ops(kind, t, args) ==
  LET ordered == SetToSeq(args) IN [i \in DOMAIN ordered |-> Op(kind, t, ordered[i])]

MustRebuildFor(desired, live) ==
  LET missing == DOMAIN desired.columns \ DOMAIN live.columns
      shared  == DOMAIN desired.columns \cap DOMAIN live.columns
  IN  \/ \E c \in missing : \/ desired.columns[c].rest = "DEFAULT CURRENT_TIMESTAMP"
                            \/ c = <<"email">>
      \/ \E c \in shared : BaseType(live.columns[c]) # BaseType(desired.columns[c])
      \/ DOMAIN live.columns \ DOMAIN desired.columns # {}
      \/ desired.foreignKeys # live.foreignKeys

\* (Mutant: triggers are not created with their table.)
EquipIndexes(t, desired) == Ops("CreateIndex", t, desired.indexes)

Equip(t, desired) ==
  Ops("CreateIndex", t, desired.indexes) \o Ops("CreateTrigger", t, desired.triggers)

DiffTable(t, desired, live) ==
  IF MustRebuildFor(desired, live)
  THEN <<Op("RebuildTable", t,
            [def |-> desired, keep |-> DOMAIN desired.columns \cap DOMAIN live.columns])>>
       \o Equip(t, desired)
  ELSE Ops("AddColumn", t, {<<c, desired.columns[c]>> :
                              c \in DOMAIN desired.columns \ DOMAIN live.columns})
       \o Ops("CreateIndex", t, {i \in desired.indexes : i.name \notin live.indexes})
       \o Ops("DropIndex", t, live.indexes \ {i.name : i \in desired.indexes})
       \o Ops("CreateTrigger", t, {g \in desired.triggers : g.name \notin live.triggers})
       \o Ops("DropTrigger", t, live.triggers \ {g.name : g \in desired.triggers})

DropFullText(t, live) == IF t \in live.fts THEN <<Op("DropVirtualTable", t, "-")>> ELSE <<>>

\* Pass 1, in the order of the desired tables.
Changes(desired, live) ==
  FlattenSeq([i \in 1..Len(TableOrder) |->
    LET t == TableOrder[i] IN
    IF t \notin DOMAIN desired THEN <<>>
    ELSE IF t \notin DOMAIN live.table
    THEN <<Op("CreateTable", t, desired[t])>> \o Equip(t, desired[t])
    ELSE DiffTable(t, desired[t], live.table[t])
         \o (IF desired[t].fts = {} THEN DropFullText(t, live) ELSE <<>>)])

\* Pass 2, in the order `order` in which the hash map hands out the dead tables.
Deletions(order, live) ==
  FlattenSeq([i \in 1..Len(order) |->
    <<Op("DropTable", order[i], "-")>> \o DropFullText(order[i], live)])

\* The operations compute_diff may return.
ComputeDiff(desired, live) ==
  {Changes(desired, live) \o Deletions(order, live) :
     order \in SetToSeqs(DOMAIN live.table \ DOMAIN desired)}

(***************************************************************************)
(* The SQL of an operation.  The columns' names joined give the name of an *)
(* index, whatever name the desired index has.  The rebuild's transaction  *)
(* is one statement here: it is undone as a whole.                         *)
(***************************************************************************)
IndexName(t, columns) == <<"idx", t>> \o FlattenSeq(columns)

\* (Mutant: a rebuild leaves foreign keys on.)
GenerateSqlEnforced(op) ==
  CASE op.kind = "CreateTable" ->
         <<op>> \o (IF op.arg.fts = {} THEN <<>> ELSE <<Op("CreateVirtualTable", op.table, "-")>>)
    [] op.kind = "CreateIndex" ->
         <<[op EXCEPT !.arg.name = IndexName(op.table, op.arg.columns)]>>
    [] OTHER -> <<op>>

GenerateSql(op) ==
  CASE op.kind = "CreateTable" ->
         <<op>> \o (IF op.arg.fts = {} THEN <<>> ELSE <<Op("CreateVirtualTable", op.table, "-")>>)
    [] op.kind = "RebuildTable" ->
         <<Op("ForeignKeysOff", op.table, "-"), op, Op("ForeignKeysOn", op.table, "-")>>
    [] op.kind = "CreateIndex" ->
         <<[op EXCEPT !.arg.name = IndexName(op.table, op.arg.columns)]>>
    [] OTHER -> <<op>>

Script(ops) == FlattenSeq([i \in 1..Len(ops) |-> GenerateSql(ops[i])])
===============================================================================
