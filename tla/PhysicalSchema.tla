---------------------------- MODULE PhysicalSchema ----------------------------
(***************************************************************************)
(* The physical tables a validated schema is lowered to                    *)
(* (schema-mapper/src/lib.rs).                                             *)
(*                                                                         *)
(* A name is a sequence of strings, its parts between underscores: the     *)
(* column "avatar_type" is <<"avatar", "type">>, the index                 *)
(* "idx_User_name" is <<"idx", "User", "name">>.  The order of the columns *)
(* of a table is left out.                                                 *)
(*                                                                         *)
(* A schema is a function from model names to models; a model holds        *)
(* fields: its resolved fields, by name, and fts: the fields of @@fulltext.*)
(***************************************************************************)
EXTENDS Naturals, Sequences, FiniteSets, SequencesExt

(***************************************************************************)
(* A declared column type: the affinity word and what follows it in the    *)
(* column definition.                                                      *)
(***************************************************************************)
Plain(affinity) == [affinity |-> affinity, rest |-> "-"]

Affinity(scalar) ==
  CASE scalar \in {"Int", "Boolean"} -> "INTEGER"
    [] scalar = "Float" -> "REAL"
    [] scalar = "DateTime" -> "DATETIME"
    [] OTHER -> "TEXT"

(***************************************************************************)
(* The columns of a field.  A polymorphic field is a pair of columns, the  *)
(* member model's name and the id; a relation has no column of its own,    *)
(* the one holding its key is a field that validation injected.            *)
(***************************************************************************)
ColumnNames(f, field) ==
  CASE field.kind \in {"relation", "list"} -> {}
    [] field.kind = "poly" -> {Append(f, "type"), Append(f, "id")}
    [] OTHER -> {f}

ColumnType(field) ==
  CASE field.kind = "id" -> [affinity |-> Affinity(field.type), rest |-> "PRIMARY KEY"]
    [] field.kind \in {"tracked", "fieldTracked"} ->
         [affinity |-> Affinity(field.type), rest |-> "DEFAULT CURRENT_TIMESTAMP"]
    [] field.kind = "marker" ->
         [affinity |-> Affinity(field.type), rest |-> "DEFAULT NOT NULL"]
    [] field.kind = "scalar" -> Plain(Affinity(field.type))
    [] OTHER -> Plain("TEXT")

Columns(model) ==
  LET fieldOf(c) == CHOOSE f \in DOMAIN model.fields : c \in ColumnNames(f, model.fields[f])
  IN  [c \in UNION {ColumnNames(f, model.fields[f]) : f \in DOMAIN model.fields}
         |-> ColumnType(model.fields[fieldOf(c)])]

\* A unique field has an index of its own, a polymorphic field one on its pair.
Indexes(m, model) ==
  {[name |-> <<"idx", m>> \o f, columns |-> <<f>>, unique |-> TRUE] :
     f \in {g \in DOMAIN model.fields : model.fields[g].unique}}
  \cup
  {[name |-> <<"idx", m>> \o f \o <<"polymorphic">>,
    columns |-> <<Append(f, "type"), Append(f, "id")>>, unique |-> FALSE] :
     f \in {g \in DOMAIN model.fields : model.fields[g].kind = "poly"}}

\* The columns whose update touches the timestamp of a tracked field.
Watched(model, field) ==
  IF field.kind = "tracked" THEN {}
  ELSE IF field.of \notin DOMAIN model.fields THEN {field.of}
  ELSE LET target == model.fields[field.of]
       IN CASE target.kind = "relation" -> {target.key}
            [] target.kind = "poly" -> {Append(field.of, "type"), Append(field.of, "id")}
            [] OTHER -> {field.of}

Triggers(m, model) ==
  {[name |-> <<"trg", "update", m>> \o f, watches |-> Watched(model, model.fields[f]),
    feeds |-> {}] :
     f \in {g \in DOMAIN model.fields : model.fields[g].kind \in {"tracked", "fieldTracked"}}}
  \cup
  (IF model.fts = {} THEN {}
   ELSE {[name |-> <<m, "fts", event>>, watches |-> {}, feeds |-> model.fts] :
           event \in {"ai", "ad", "au"}})

\* A FOREIGN KEY is declared for a relation field whose column is in this table.
ForeignKeys(model) ==
  {[from |-> model.fields[f].key, to |-> model.fields[f].to,
    onDelete |-> model.fields[f].onDelete] :
     f \in {g \in DOMAIN model.fields :
              model.fields[g].kind = "relation"
              /\ model.fields[g].key \in DOMAIN Columns(model)}}

Lower(schema) ==
  [m \in DOMAIN schema |->
     [columns |-> Columns(schema[m]), indexes |-> Indexes(m, schema[m]),
      triggers |-> Triggers(m, schema[m]), foreignKeys |-> ForeignKeys(schema[m]),
      fts |-> schema[m].fts]]
===============================================================================
