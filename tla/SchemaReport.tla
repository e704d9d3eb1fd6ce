---------------------------- MODULE SchemaReport ----------------------------
(***************************************************************************)
(* What `caqui git diff` compares (diff.rs): two schemas as parsed, before *)
(* any inheritance or key injection, and the rows of two databases.  A     *)
(* change is a tuple; an item without changes is reported with none.       *)
(* Databases are functions from table names to their columns and rows, a   *)
(* row a function from columns to values.                                  *)
(***************************************************************************)
EXTENDS SchemaAst

CONSTANTS
  RowLimit       \* LIMIT 50 of the three queries over rows

ASSUME LimitAssumption == RowLimit \in Nat \ {0}

TypeShown(f) == <<f.of, f.array, f.optional>>

\* The attributes shown: onDisconnect has no text, so a change of it alone
\* is no change.
AttributesShown(f) ==
  [tags |-> f.tags,
   relation |-> IF f.relation = Absent THEN Absent
                ELSE <<f.relation.name, f.relation.onDelete>>]

\* The HashMap of a field list: of two fields of a name the last one counts.
ByName(fields) ==
  LET last(n) == CHOOSE i \in DOMAIN fields :
                   /\ fields[i].name = n
                   /\ \A j \in i + 1 .. Len(fields) : fields[j].name # n
  IN [n \in {f.name : f \in Range(fields)} |-> fields[last(n)].body]

FieldChanges(old, new) ==
  LET before == ByName(old)
      after == ByName(new)
      known == {f \in Range(new) : f.name \in DOMAIN before}
  IN {<<"added field", f.name>> : f \in Range(new) \ known}
     \cup {<<"dropped field", n>> : n \in DOMAIN before \ DOMAIN after}
     \cup {<<"changed type", f.name>> :
             f \in {k \in known : TypeShown(k.body) # TypeShown(before[k.name])}}
     \cup {<<"changed attributes", f.name>> :
             f \in {k \in known : AttributesShown(k.body) # AttributesShown(before[k.name])}}

ModelChanges(old, new) ==
  FieldChanges(old.fields, new.fields)
    \cup {<<"added attribute", b>> : b \in Range(new.blocks) \ Range(old.blocks)}
    \cup {<<"dropped attribute", b>> : b \in Range(old.blocks) \ Range(new.blocks)}

\* Variants of an enum, members of a union.
MemberChanges(old, new) ==
  {<<"added variant", v>> : v \in Range(new) \ Range(old)}
    \cup {<<"dropped variant", v>> : v \in Range(old) \ Range(new)}

\* (Mutant: the fields of bases are not compared.)
ItemChangesOfModels(form, old, new) ==
  CASE form = "models" -> ModelChanges(old, new)
    [] form = "bases" -> {}
    [] OTHER -> MemberChanges(old, new)

ItemChanges(form, old, new) ==
  CASE form = "models" -> ModelChanges(old, new)
    [] form = "bases" -> FieldChanges(old.fields, new.fields)
    [] OTHER -> MemberChanges(old, new)

Section(form, old, new) ==
  [name \in DOMAIN old \cup DOMAIN new |->
     IF name \notin DOMAIN old THEN {<<"added">>}
     ELSE IF name \notin DOMAIN new THEN {<<"dropped">>}
     ELSE ItemChanges(form, old[name], new[name])]

SchemaDiff(old, new) ==
  [form \in {"models", "bases", "unions", "enums"} |-> Section(form, old[form], new[form])]

(***************************************************************************)
(* Rows.  A query on a table the database does not have fails and its part *)
(* of the report stays empty; a dropped model is not looked at.  Columns   *)
(* whose name starts with "__" are not compared.                           *)
(***************************************************************************)
Limited(S) ==
  {T \in SUBSET S : Cardinality(T) = IF Cardinality(S) < RowLimit THEN Cardinality(S)
                                     ELSE RowLimit}

RowsIn(db, table) == IF table \in DOMAIN db THEN DOMAIN db[table].rows ELSE {}

AddedRows(table, oldDb, newDb) == RowsIn(newDb, table) \ RowsIn(oldDb, table)

DeletedRows(table, oldDb, newDb) ==
  IF table \in DOMAIN newDb THEN RowsIn(oldDb, table) \ RowsIn(newDb, table) ELSE {}

Compared(table, oldDb, newDb) ==
  {c \in oldDb[table].columns \cap newDb[table].columns : c[1] # "__"}

ModifiedRows(table, oldDb, newDb, oldAst) ==
  {r \in RowsIn(oldDb, table) \cap RowsIn(newDb, table) :
     /\ table \in DOMAIN oldAst.models
     /\ \E c \in Compared(table, oldDb, newDb) :
          oldDb[table].rows[r][c] # newDb[table].rows[r][c]}

RowReport(table, oldAst, oldDb, newDb) ==
  [added : Limited(AddedRows(table, oldDb, newDb)),
   deleted : Limited(DeletedRows(table, oldDb, newDb)),
   modified : Limited(ModifiedRows(table, oldDb, newDb, oldAst))]

NoRows == [added |-> {}, deleted |-> {}, modified |-> {}]

RowReports(oldAst, newAst, oldDb, newDb) ==
  LET on(m) == RowReport(m, oldAst, oldDb, newDb)
  IN {rep \in [DOMAIN newAst.models -> UNION {on(m) : m \in DOMAIN newAst.models}] :
        \A m \in DOMAIN newAst.models : rep[m] \in on(m)}
=============================================================================
