---------------------------- MODULE RelationSchema ----------------------------
(***************************************************************************)
(* The lowered schema a mutation runs against: tables, the foreign key     *)
(* column each of them may hold, and the rows.  A table holds at most one  *)
(* foreign key column (validation.rs, pass 4, gives every singular relation*)
(* field one "<field>Id" column); the field on the other side is an array  *)
(* (ToMany) or a singular 1:1 field.  Scalar columns are abstracted to one *)
(* column val.                                                             *)
(***************************************************************************)
EXTENDS Integers, FiniteSets, Sequences

CONSTANTS
  Table,         \* the concrete models
  Row,           \* row identities (the __id values), a finite set
  Val,           \* contents of the scalar column
  Null,          \* SQL NULL
  NoId,          \* the empty string the executor keeps when no id came back
  Keep,          \* a column a statement does not assign
  NoTable,       \* "references nothing"
  TableOf,       \* the table each row identity belongs to
  Spare,         \* the identities gen_uuid7 still hands out: no request can
                 \* name one before
  Target,        \* the table a table's foreign key column references
  FkName,        \* the name of that column
  ToMany,        \* whether the field opposite to that column is an array
  Required,      \* whether the relation field holding it is not optional
  OnDelete,      \* the ON DELETE action of the constraint
  OnDisconnect,  \* the onDisconnect attribute of both relation fields
  QuietName      \* whether the model's lower-case name makes every id
                 \* "step_<model>_n" contain _set, _disconnect or _cascade

Direction == {"down", "up"}

HasFk(t) == Target[t] # NoTable

ASSUME RowAssumption ==
  /\ IsFiniteSet(Row)
  /\ TableOf \in [Row -> Table]
  /\ Spare \subseteq Row
  /\ {Null, NoId, Keep} \cap (Row \cup Val) = {}
  /\ Row \cap Val = {}
  /\ Null # NoId /\ Null # Keep /\ NoId # Keep
  /\ NoTable \notin Table

ASSUME SchemaAssumption ==
  /\ Target \in [Table -> Table \cup {NoTable}]
  /\ DOMAIN FkName = Table
  /\ ToMany \in [Table -> BOOLEAN]
  /\ Required \in [Table -> BOOLEAN]
  /\ OnDelete \in [Table -> {"CASCADE", "SET NULL", "RESTRICT", "NO ACTION"}]
  /\ OnDisconnect \in [Table \X Direction -> {"SetNull", "Delete", "Restrict"}]
  /\ QuietName \in [Table -> BOOLEAN]
  /\ \A t \in Table :
       Target[t] = t => ToMany[t] /\ OnDelete[t] # "RESTRICT"

(***************************************************************************)
(* Databases.  A row is live or gone; a live row has a scalar and, when    *)
(* its table holds a foreign key column, a link.                           *)
(***************************************************************************)
Cell == [live : BOOLEAN, fk : Row \cup {Null, NoId}, val : Val \cup {Null}]

Gone == [live |-> FALSE, fk |-> Null, val |-> Null]

Database == [Row -> Cell]

Live(d) == {r \in Row : d[r].live}

RowsOf(d, t) == {r \in Live(d) : TableOf[r] = t}

\* What SQLite's foreign key constraints demand of a committed state.
References(d, r, p) == p \in Live(d) /\ TableOf[p] = Target[TableOf[r]]

FkConsistent(d) ==
  \A r \in Live(d) : d[r].fk # Null => References(d, r, d[r].fk)
=============================================================================
