---------------------------- MODULE SqlStatements -----------------------------
(***************************************************************************)
(* The statements of an ExecutionPlan and what SQLite does for one of      *)
(* them.  A statement is its shape, not its text: the table, the client's  *)
(* filter, the parent scope the translator conjoined, and the columns it   *)
(* assigns.  SQLite itself is external; its behaviour is modelled from how *)
(* executor.rs drives it (DML with RETURNING changes every matching row    *)
(* before the first id comes back, foreign keys are deferred to COMMIT,    *)
(* RESTRICT is not).                                                       *)
(***************************************************************************)
EXTENDS RelationSchema

(***************************************************************************)
(* A compiled where clause: empty ("1=1", no parameter), an id, or a value *)
(* of the scalar column (one bound parameter each).                        *)
(***************************************************************************)
Where == [by : {"any", "id", "val"}, key : Row \cup Val \cup {Null}]

Matches(d, r, w) ==
  CASE w.by = "any" -> TRUE
    [] w.by = "id"  -> r = w.key
    [] w.by = "val" -> d[r].val = w.key

\* NOT w, which SQL leaves unknown when the column is NULL.
Differs(d, r, w) == ~Matches(d, r, w) /\ (w.by = "val" => d[r].val # Null)

Params(w) == IF w.by = "any" THEN 0 ELSE 1

(***************************************************************************)
(* The parent side of a statement.  ref > 0 names an earlier step whose    *)
(* first returned id is the one parent; ref = 0 stands for the subquery a  *)
(* bulk parent is compiled to:  SELECT pk FROM t1 WHERE w1, each further   *)
(* level adding  AND fk IN (the level before).                             *)
(***************************************************************************)
Level == [table : Table, where : Where]

Selected(d, sel) ==
  LET level[i \in 0..Len(sel)] ==
        IF i = 0 THEN {}
        ELSE {r \in RowsOf(d, sel[i].table) :
                /\ Matches(d, r, sel[i].where)
                /\ i > 1 => d[r].fk \in level[i - 1]}
  IN {r \in Live(d) : r \in level[Len(sel)]}

Scope == [by : {"none", "fk", "id", "held"}, ref : Nat, sel : Seq(Level)]

Parents(d, ret, s) == IF s.ref > 0 THEN {ret[s.ref]} ELSE Selected(d, s.sel)

InScope(d, ret, r, s) ==
  CASE s.by = "none" -> TRUE
    [] s.by = "fk"   -> d[r].fk \in Parents(d, ret, s)
    [] s.by = "id"   -> r \in Parents(d, ret, s)
    [] s.by = "held" -> \E p \in Parents(d, ret, s) \cap Live(d) : d[p].fk = r

(***************************************************************************)
(* What a statement assigns to the foreign key column: nothing, NULL, the  *)
(* id an earlier step returned, a literal id of the request, the result of *)
(* a scalar subquery, or (INSERT ... SELECT) each parent's own id.         *)
(***************************************************************************)
Link == [src : {"keep", "null", "step", "literal", "select", "parents"},
         ref : Nat, table : Table, where : Where]

Step ==
  [kind   : {"query", "branch", "many"},  \* ExecutionStep's variants
   quiet  : BOOLEAN,    \* "no rows" is not an error, executor.rs line 82
   broken : BOOLEAN,    \* does not prepare or bind: unknown column, wrong count
   verb   : {"insert", "update", "delete"},
   table  : Table,
   where  : Where,
   spared : SUBSET Where,             \* AND NOT (w OR w ...), or NOT IN
   linked : Table \cup {NoTable},     \* AND fk IN (SELECT pk FROM linked ...)
   scope  : Scope,
   val    : Val \cup {Null, Keep},
   link   : Link]

\* Rows the WHERE clause of an UPDATE or DELETE selects.
Affected(d, ret, s) ==
  {r \in RowsOf(d, s.table) :
     /\ Matches(d, r, s.where)
     /\ \A w \in s.spared : Differs(d, r, w)
     /\ s.linked # NoTable =>
          \E c \in RowsOf(d, s.linked) : d[r].fk = c /\ Matches(d, c, s.where)
     /\ InScope(d, ret, r, s.scope)}

\* (Mutant: a null is bound as the empty string.)
LinkValuesEmpty(d, ret, l) ==
  CASE l.src = "step"    -> {ret[l.ref]}
    [] l.src = "literal" -> {l.where.key}
    [] l.src = "select"  ->
         LET hits == {c \in RowsOf(d, l.table) : Matches(d, c, l.where)}
         IN IF hits = {} THEN {Null} ELSE hits
    [] l.src = "null" -> {NoId}
    [] OTHER -> {Null}

\* Values the link expression may have; a scalar subquery yields its first
\* row, whichever that is, or NULL.
LinkValues(d, ret, l) ==
  CASE l.src = "step"    -> {ret[l.ref]}
    [] l.src = "literal" -> {l.where.key}
    [] l.src = "select"  ->
         LET hits == {c \in RowsOf(d, l.table) : Matches(d, c, l.where)}
         IN IF hits = {} THEN {Null} ELSE hits
    [] OTHER -> {Null}

Assign(d, rows, val, src, fk) ==
  [r \in Row |->
     IF r \in rows
     THEN [d[r] EXCEPT !.val = IF val = Keep THEN @ ELSE val,
                       !.fk  = IF src = "keep" THEN @ ELSE fk]
     ELSE d[r]]

Insert(d, rows, val, fkOf) ==
  [r \in Row |->
     IF r \in rows
     THEN [live |-> TRUE, fk |-> fkOf[r], val |-> IF val = Keep THEN Null ELSE val]
     ELSE d[r]]

(***************************************************************************)
(* DELETE.  ON DELETE CASCADE takes the referencing rows along, so what    *)
(* goes is the least set that holds the selected rows and is closed under  *)
(* cascading references.                                                   *)
(***************************************************************************)
CascadeClosed(d, S) ==
  \A r \in Live(d) :
    OnDelete[TableOf[r]] = "CASCADE" /\ d[r].fk \in S => r \in S

Doomed(d, rows) ==
  {r \in Live(d) :
     \A S \in SUBSET Live(d) : rows \subseteq S /\ CascadeClosed(d, S) => r \in S}

\* RESTRICT fails the statement at once, deferred constraints or not.
RestrictBlocks(d, doomed) ==
  \E r \in Live(d) : OnDelete[TableOf[r]] = "RESTRICT" /\ d[r].fk \in doomed

DeleteRows(d, doomed) ==
  [r \in Row |->
     IF r \in doomed THEN Gone
     ELSE IF /\ d[r].live
             /\ OnDelete[TableOf[r]] = "SET NULL"
             /\ d[r].fk \in doomed
          THEN [d[r] EXCEPT !.fk = Null]
          ELSE d[r]]
=============================================================================
