-------------------------------- MODULE Reads --------------------------------
(***************************************************************************)
(* findMany, from the payload to the rows of the answer: the translator    *)
(* (hydrate_payload_to_ir, translator.rs), the parser of filters           *)
(* (where_parser.rs) and the SELECT that compile_select (read.rs) makes of *)
(* them, with what SQLite answers.  They work on the schema as it was      *)
(* loaded; each looks the key of a relation up in its own way.             *)
(*                                                                         *)
(* A request names a model and has a projection `select` (a field maps to  *)
(* the request nested in it, a polymorphic field to one request for each   *)
(* of its targets), a filter, an order, a limit and a number of rows to    *)
(* skip.  SQLite visits a table in an order nobody promises: scan.         *)
(***************************************************************************)
EXTENDS LoadedSchema

CONSTANTS
  Ids,           \* the ids of every table's rows
  Links,         \* the ways a key column may refer: functions from Ids to Ids or Null
  Questions(_),  \* the requests put to a server that was started with a text:
                 \* a sequence of sets, each of requests of one form
  MaxDepth       \* the nesting that is still served

VARIABLES
  stored,        \* the database: table, row, column
  scan,          \* the order in which its tables are visited
  question,      \* the request
  answer         \* the response

reading == <<stored, scan, question, answer>>

Value(m, r, column) == stored[m][r][column]

-----------------------------------------------------------------------------
(***************************************************************************)
(* Tables.                                                                 *)
(***************************************************************************)
TypeColumn(n) == n \o <<"_type">>
IdColumn(n) == n \o <<"_id">>

Columns(m) ==
  LET fields == resolved[m].fields
      single == {n \in DOMAIN fields : IsPolymorphic(fields[n]) /\ ~fields[n].array}
  IN ({n \in DOMAIN fields : fields[n].kind # "Relation"} \ single)
       \cup {TypeColumn(n) : n \in single} \cup {IdColumn(n) : n \in single}

(***************************************************************************)
(* Which column joins a relation.  The translator: the column named by the *)
(* field itself, on the model's own table if it has it, and otherwise that *)
(* of the first field back that shares the relation's name.                *)
(***************************************************************************)
IsForward(m, n) ==
  LET f == resolved[m].fields[n]
  IN f.key # Absent /\ ~f.array /\ f.key \in DOMAIN resolved[m].fields

Back(m, n) ==
  LET f == resolved[m].fields[n]
      target == resolved[f.of].fields
  IN {o \in DOMAIN target : target[o].kind = "Relation" /\ target[o].of = m /\ target[o].key # Absent}

ReadKey(m, n) ==
  LET f == resolved[m].fields[n]
      target == resolved[f.of].fields
      namesakes == {o \in Back(m, n) : target[o].relation.name = f.relation.name}
  IN IF f.key # Absent THEN f.key
     ELSE IF namesakes # {} THEN target[FirstOf(namesakes)].key
     ELSE <<m, "_id">>

\* The parser of filters: the first field back, whatever its relation.
FilterKey(m, n) ==
  IF IsForward(m, n) THEN resolved[m].fields[n].key
  ELSE resolved[resolved[m].fields[n].of].fields[FirstOf(Back(m, n))].key

JoinedBy(key, m, r, n) ==
  LET t == resolved[m].fields[n].of
  IN IF IsForward(m, n) THEN {x \in Ids : x = Value(m, r, key)}
     ELSE {x \in Ids : Value(t, x, key) = r}

-----------------------------------------------------------------------------
(***************************************************************************)
(* Filters, in SQL's three-valued logic: an EXISTS is never NULL, every is *)
(* the absence of a row that fails.                                        *)
(***************************************************************************)
Connect(op, truths) ==
  LET decisive == Truth(op = "or")
  IN IF decisive \in truths THEN decisive
     ELSE IF "null" \in truths THEN "null"
     ELSE Truth(op = "and")

Comparisons == {"eq", "notEq", "isNull"}
Quantifiers == {"some", "every", "none", "is", "isNot"}

\* (Mutant: isNot asks for a row that fails, and so leaves out who has none.)
QuantifiedNot(op, truths) ==
  CASE op \in {"some", "is"} -> "true" \in truths
    [] op = "none" -> "true" \notin truths
    [] op = "isNot" -> "false" \in truths
    [] op = "every" -> "false" \notin truths

Quantified(op, truths) ==
  CASE op \in {"some", "is"} -> "true" \in truths
    [] op \in {"none", "isNot"} -> "true" \notin truths
    [] op = "every" -> "false" \notin truths

RECURSIVE Filter(_, _, _)
Filter(c, m, r) ==
  CASE c.op = "all" -> "true"
    [] c.op \in {"and", "or"} ->
         Connect(c.op, {Filter(c.parts[i], m, r) : i \in DOMAIN c.parts})
    [] c.op \in Comparisons -> Compare(c.op, Value(m, r, c.field), c.value)
    [] c.op \in Quantifiers ->
         Truth(Quantified(c.op, {Filter(c.inner, resolved[m].fields[c.field].of, x) :
                                   x \in JoinedBy(FilterKey(m, c.field), m, r, c.field)}))
    [] c.op = "target" ->
         Connect("and",
           {Compare("eq", Value(m, r, TypeColumn(c.field)), c.target),
            Truth(\E x \in Ids : /\ x = Value(m, r, IdColumn(c.field))
                                 /\ Filter(c.inner, c.target, x) = "true")})

Passes(c, m, r) == Filter(c, m, r) = "true"

\* parse_where_clause refuses: unknown fields, a quantifier on anything but a
\* relation whose key is found, a target the polymorphic field does not have.
RECURSIVE BadFilter(_, _)
BadFilter(c, m) ==
  LET fields == resolved[m].fields IN
  CASE c.op = "all" -> FALSE
    [] c.op \in {"and", "or"} -> \E i \in DOMAIN c.parts : BadFilter(c.parts[i], m)
    [] c.op \in Comparisons -> c.field \notin DOMAIN fields /\ c.field[1] # "__"
    [] c.op \in Quantifiers ->
         \/ c.field \notin DOMAIN fields
         \/ fields[c.field].kind # "Relation"
         \/ ~IsForward(m, c.field) /\ Back(m, c.field) = {}
         \/ BadFilter(c.inner, fields[c.field].of)
    [] c.op = "target" ->
         \/ c.field \notin DOMAIN fields
         \/ ~IsPolymorphic(fields[c.field]) \/ fields[c.field].array
         \/ c.target \notin TargetsOf(fields[c.field].of)
         \/ BadFilter(c.inner, c.target)

\* SQLite refuses the filter: an empty list of parts, a column there is not.
RECURSIVE BrokenFilter(_, _)
BrokenFilter(c, m) ==
  CASE c.op = "all" -> FALSE
    [] c.op \in {"and", "or"} ->
         c.parts = <<>> \/ \E i \in DOMAIN c.parts : BrokenFilter(c.parts[i], m)
    [] c.op \in Comparisons -> c.field \notin Columns(m)
    [] c.op \in Quantifiers ->
         LET t == resolved[m].fields[c.field].of
         IN \/ ~IsForward(m, c.field) /\ FilterKey(m, c.field) \notin Columns(t)
            \/ BrokenFilter(c.inner, t)
    [] c.op = "target" -> BrokenFilter(c.inner, c.target)

-----------------------------------------------------------------------------
(***************************************************************************)
(* Orders and pages.                                                       *)
(***************************************************************************)
Visited(r) == CHOOSE i \in DOMAIN scan : scan[i] = r

\* NULL sorts first.
Less(v, w) == w # Null /\ (v = Null \/ v < w)

Sorted(t, rows, order) ==
  LET before(x, y) ==
        LET v == Value(t, x, order.by)
            w == Value(t, y, order.by)
        IN IF order = Absent \/ v = w THEN Visited(x) < Visited(y)
           ELSE IF order.desc THEN Less(w, v) ELSE Less(v, w)
  IN SetToSortSeq(rows, before)

Slice(s, q) ==
  LET skip == IF q.skip = Absent THEN 0 ELSE q.skip
      last == IF q.limit = Absent THEN Len(s) ELSE skip + q.limit
  IN SubSeq(s, skip + 1, IF last < Len(s) THEN last ELSE Len(s))

Paged(q) == q.limit # Absent \/ q.skip # Absent

\* (Mutant: the rows are numbered through the table, not for each parent.)
ListedThroughout(m, r, n, q) ==
  LET t == resolved[m].fields[n].of
      linked == JoinedBy(ReadKey(m, n), m, r, n)
      rows == IF Paged(q) THEN Slice(Sorted(t, Ids, q.order), q)
              ELSE Sorted(t, linked, Absent)
      keep(x) == x \in linked /\ Passes(q.where, t, x)
  IN SelectSeq(rows, keep)

\* The rows of a list: with a limit or a skip they are numbered, within the
\* key they are linked by, before the filter is applied; without, the ORDER BY
\* stands next to the aggregate and orders its one row.
Listed(m, r, n, q) ==
  LET t == resolved[m].fields[n].of
      linked == JoinedBy(ReadKey(m, n), m, r, n)
      rows == IF Paged(q) THEN Slice(Sorted(t, linked, q.order), q)
              ELSE Sorted(t, linked, Absent)
      keep(x) == Passes(q.where, t, x)
  IN SelectSeq(rows, keep)

-----------------------------------------------------------------------------
(***************************************************************************)
(* The JSON objects.  A relation joined by the other table's column adds   *)
(* that column to the objects of its rows.                                 *)
(***************************************************************************)
Added(m, n) == IF IsForward(m, n) THEN {} ELSE {ReadKey(m, n)}

RECURSIVE Object(_, _, _, _), Fragment(_, _)
Object(m, q, added, r) ==
  [n \in DOMAIN q.select \cup added |->
     IF n \notin DOMAIN q.select THEN Value(m, r, n)
     ELSE LET f == resolved[m].fields[n]
              rows == Listed(m, r, n, IF f.array THEN q.select[n]
                                      ELSE [q.select[n] EXCEPT !.limit = Absent, !.skip = Absent])
              child(x) == Object(f.of, q.select[n], Added(m, n), x)
          IN CASE f.kind \in {"Scalar", "Enum"} -> Value(m, r, n)
               [] f.kind = "Relation" /\ f.array -> [i \in DOMAIN rows |-> child(rows[i])]
               [] f.kind = "Relation" -> IF rows = <<>> THEN Null ELSE child(rows[1])
               [] f.array -> [i \in DOMAIN Value(m, r, n) |->
                                Fragment(Value(m, r, n)[i], q.select[n])]
               [] OTHER -> Fragment(<<Value(m, r, TypeColumn(n)), Value(m, r, IdColumn(n))>>,
                                    q.select[n])]

Fragment(link, select) ==
  IF /\ link[1] \in DOMAIN select /\ link[2] \in Ids
     /\ Passes(select[link[1]].where, link[1], link[2])
  THEN Object(link[1], select[link[1]], {}, link[2])
  ELSE Null

ModelRows(q) ==
  LET keep(x) == Passes(q.where, q.model, x)
      rows == Slice(SelectSeq(Sorted(q.model, Ids, q.order), keep), q)
  IN [i \in DOMAIN rows |-> Object(q.model, q, {}, rows[i])]

(***************************************************************************)
(* A base or a union is the UNION ALL of its models, one branch for each,  *)
(* in the order of the map or of the declaration.                          *)
(***************************************************************************)
Branch(t, condition) ==
  LET keep(x) == Passes(condition, t, x)
      rows == SelectSeq(Sorted(t, Ids, Absent), keep)
  IN [i \in DOMAIN rows |-> <<t, rows[i]>>]

BaseObject(q, t, x) ==
  [n \in DOMAIN q.select |-> IF n \in DOMAIN resolved[t].fields THEN Value(t, x, n) ELSE 0]

UnionObject(q, t, x) ==
  LET fields == resolved[t].fields
      mine == IF t \in DOMAIN q.select THEN DOMAIN q.select[t].select ELSE {}
  IN [n \in {Marker("id"), Marker("kind")} \cup UNION {DOMAIN q.select[o].select : o \in DOMAIN q.select} |->
        IF n = Marker("kind") THEN t
        ELSE IF n \in (mine \cup {Marker("id")}) \cap DOMAIN fields /\ fields[n].kind = "Scalar"
        THEN Value(t, x, n)
        ELSE Null]

ConditionOf(q, t) ==
  IF q.model \in Bases THEN q.where
  ELSE IF t \in DOMAIN q.select THEN q.select[t].where ELSE [op |-> "all"]

\* (Mutant: UNION for UNION ALL, equal rows of two branches become one.)
BranchedMerged(q, branches) ==
  LET all == FlattenSeq([i \in DOMAIN branches |-> Branch(branches[i], ConditionOf(q, branches[i]))])
      object(row) == IF q.model \in Bases THEN BaseObject(q, row[1], row[2])
                     ELSE UnionObject(q, row[1], row[2])
  IN Slice(SetToSeq({object(all[i]) : i \in DOMAIN all}), q)

Branched(q, branches) ==
  LET all == FlattenSeq([i \in DOMAIN branches |-> Branch(branches[i], ConditionOf(q, branches[i]))])
      object(row) == IF q.model \in Bases THEN BaseObject(q, row[1], row[2])
                     ELSE UnionObject(q, row[1], row[2])
      page == Slice(all, q)
  IN [i \in DOMAIN page |-> object(page[i])]

-----------------------------------------------------------------------------
(***************************************************************************)
(* What the translator refuses, at any level.                              *)
(***************************************************************************)
RECURSIVE Refuses(_, _, _)
Refuses(m, q, depth) ==
  \/ depth > MaxDepth
  \/ m \notin Bases \cup DOMAIN ast.unions \cup Models
  \/ /\ m \in Bases
     /\ LET fields == registry[m].fields IN
        \/ Implementors(m) = {}
        \/ \E n \in DOMAIN q.select :
             IF n \in DOMAIN fields
             THEN fields[n].kind = "Relation" /\ Refuses(fields[n].of, q.select[n], depth + 1)
             ELSE n[1] # "__"
        \/ \E t \in Implementors(m) : BadFilter(q.where, t)
  \/ /\ m \in DOMAIN ast.unions
     /\ \E t \in DOMAIN q.select \cap Range(ast.unions[m]) : BadFilter(q.select[t].where, t)
  \/ /\ m \in Models
     /\ LET fields == resolved[m].fields IN
        \/ BadFilter(q.where, m)
        \/ \E n \in DOMAIN q.select :
             \/ n \notin DOMAIN fields
             \/ /\ fields[n].kind = "Relation"
                /\ Refuses(fields[n].of, q.select[n], depth + 1)
             \/ /\ IsPolymorphic(fields[n])
                /\ \/ DOMAIN q.select[n] = {}
                   \/ \E t \in DOMAIN q.select[n] :
                        \/ t \notin TargetsOf(fields[n].of)
                        \/ Refuses(t, q.select[n][t], depth + 1)

(***************************************************************************)
(* What SQLite refuses: a column the table lacks, an OFFSET without LIMIT. *)
(* Only the root and lists are ordered; a relation field of a base is      *)
(* joined by a column no table has.                                        *)
(***************************************************************************)
BrokenOrder(m, q) == q.order # Absent /\ q.order.by \notin Columns(m)

RECURSIVE Breaks(_, _)
Breaks(m, q) ==
  \/ BrokenFilter(q.where, m)
  \/ \E n \in DOMAIN q.select :
       LET f == resolved[m].fields[n] IN
       \/ /\ f.kind = "Relation"
          /\ \/ ~IsForward(m, n) /\ ReadKey(m, n) \notin Columns(f.of)
             \/ f.array /\ BrokenOrder(f.of, q.select[n])
             \/ Breaks(f.of, q.select[n])
       \/ IsPolymorphic(f) /\ \E t \in DOMAIN q.select[n] : Breaks(t, q.select[n][t])

RootBreaks(q) ==
  \/ q.skip # Absent /\ q.limit = Absent
  \/ q.model \in Models /\ (BrokenOrder(q.model, q) \/ Breaks(q.model, q))
  \/ /\ q.model \in Bases
     /\ \/ \E n \in DOMAIN q.select \cap DOMAIN registry[q.model].fields :
             registry[q.model].fields[n].kind = "Relation"
        \/ \E t \in Implementors(q.model) : BrokenFilter(q.where, t)
  \/ /\ q.model \in DOMAIN ast.unions
     /\ \E t \in DOMAIN q.select \cap Range(ast.unions[q.model]) :
          BrokenFilter(q.select[t].where, t)

Answers(q) ==
  IF Refuses(q.model, q, 0) THEN {[kind |-> "refused"]}
  ELSE IF RootBreaks(q) THEN {[kind |-> "failed"]}
  ELSE {[kind |-> "data", rows |-> rows] :
          rows \in IF q.model \in Models THEN {ModelRows(q)}
                   ELSE IF q.model \in Bases
                   THEN {Branched(q, s) : s \in Orders(Implementors(q.model))}
                   ELSE {Branched(q, ast.unions[q.model])}}

-----------------------------------------------------------------------------
(***************************************************************************)
(* The server: a database that fits the schema, one request, its answer.   *)
(***************************************************************************)
KeyColumns ==
  {<<m, c>> \in Models \X UNION {DOMAIN resolved[m].fields : m \in Models} :
     /\ c \in DOMAIN resolved[m].fields
     /\ \E o \in Models : \E n \in DOMAIN resolved[o].fields :
          /\ resolved[o].fields[n].kind = "Relation" /\ resolved[o].fields[n].key = c
          /\ m \in {o, resolved[o].fields[n].of}}

\* The polymorphic fields' targets change with the row.
Pointer(word, r) ==
  LET targets == SetToSortSeq(TargetsOf(word), Precedes)
  IN <<targets[1 + (r % Len(targets))], r>>

RowOf(m, r, links) ==
  LET fields == resolved[m].fields
      single == {n \in DOMAIN fields : IsPolymorphic(fields[n]) /\ ~fields[n].array}
      plain(c) == CASE c = Marker("id") -> r
                    [] c = Marker("kind") -> m
                    [] <<m, c>> \in KeyColumns -> links[<<m, c>>][r]
                    [] fields[c].of = "Boolean" -> 1
                    [] IsPolymorphic(fields[c]) -> <<Pointer(fields[c].of, r)>>
                    [] OTHER -> Plain[r]
  IN [c \in Columns(m) \cap DOMAIN fields |-> plain(c)]
     @@ [c \in {TypeColumn(n) : n \in single} |->
           LET n == CHOOSE o \in single : TypeColumn(o) = c IN Pointer(fields[n].of, r)[1]]
     @@ [c \in {IdColumn(n) : n \in single} |->
           LET n == CHOOSE o \in single : IdColumn(o) = c IN Pointer(fields[n].of, r)[2]]

Databases ==
  {[m \in Models |-> [r \in Ids |-> RowOf(m, r, links)]] : links \in [KeyColumns -> Links]}

ReadInit ==
  /\ stored = <<>> /\ scan = <<>>
  /\ question = Nobody /\ answer = Nobody

StartRouter ==
  /\ stage = "accepted" /\ stored = <<>> /\ Questions(text) # <<>>
  /\ stored' \in Databases
  /\ scan' \in Orders(Ids)
  /\ UNCHANGED <<question, answer>>
  /\ UNCHANGED loading

FindMany ==
  /\ stored # <<>> /\ answer = Nobody
  /\ \E i \in DOMAIN Questions(text) : question' \in Questions(text)[i]
  /\ answer' \in Answers(question')
  /\ UNCHANGED <<stored, scan>>
  /\ UNCHANGED loading
-----------------------------------------------------------------------------
(***************************************************************************)
(* Properties.                                                             *)
(***************************************************************************)
\* The rows of m.n's target that the stored keys link to row r, where one name
\* pairs m.n with o: the key is the column of the side the schema declares it
\* on, or the many side, or else the model whose name comes first.
Linked(m, n, o, r) ==
  LET f == resolved[m].fields[n]
      g == resolved[f.of].fields[o]
      mine == ~f.array /\ (g.array \/ HoldsKey(m, n, f.of, o))
  IN IF mine THEN {Value(m, r, KeyName(n))} \ {Null}
     ELSE {x \in Ids : Value(f.of, x, KeyName(o)) = r}

\* m.n and its counterpart o: the two sides of a relation 1:N, of a model to
\* another or to itself, or of a relation 1:1 of two models, which share a name
\* that nothing else between these models has.
Pairs(m, n, o) ==
  /\ n \in DOMAIN resolved[m].fields
  /\ LET f == resolved[m].fields[n]
         theirs == RelationsNamed(f.of, m, RelationName(f))
     IN /\ f.kind = "Relation"
        /\ o \in DOMAIN resolved[f.of].fields
        /\ LET g == resolved[f.of].fields[o]
           IN IF f.of = m THEN theirs = {n, o} /\ f.array # g.array
              ELSE Paired(m, n, o) /\ ~(f.array /\ g.array)

Everything == [op |-> "all"]

InOrder(t, s, order) ==
  order = Absent \/
    \A i, j \in DOMAIN s :
      i < j => LET v == Value(t, s[i], order.by)
                   w == Value(t, s[j], order.by)
               IN ~(IF order.desc THEN Less(v, w) ELSE Less(w, v))

RowIds(rows) == [i \in DOMAIN rows |-> rows[i][Marker("id")]]

\* What a nested request must return for a parent whose linked rows are given:
\* without a page, exactly the linked rows that pass the filter, or one of
\* them; without a filter, the page of the linked rows in the order asked.
IsAnswered(t, linked, f, q, shown) ==
  LET passing == {x \in linked : Passes(q.where, t, x)} IN
  IF ~f.array
  THEN IF passing = {} THEN shown = Null ELSE shown[Marker("id")] \in passing
  ELSE IF ~Paged(q)
  THEN Range(RowIds(shown)) = passing /\ Len(shown) = Cardinality(passing)
  ELSE q.where = Everything =>
         \E s \in Orders(linked) : InOrder(t, s, q.order) /\ RowIds(shown) = Slice(s, q)

\* A relation read from either side gives, parent by parent, the rows the
\* stored keys link to that parent, paged and ordered within the parent, and
\* the read succeeds when the rows' own columns are all that is asked of them
\* (translator.rs 59-136, read.rs 103-228); docs/queries.md:223-242.
LinksAreRead ==
  (/\ answer # Nobody /\ question.model \in Models /\ question.where = Everything
   /\ Marker("id") \in DOMAIN question.select) =>
    \A n \in DOMAIN question.select : \A o \in UNION {DOMAIN resolved[m].fields : m \in Models} :
      Pairs(question.model, n, o) =>
        LET f == resolved[question.model].fields[n]
            q == question.select[n]
        IN /\ DOMAIN q.select \subseteq Columns(f.of) => answer.kind = "data"
           /\ answer.kind = "data" =>
                \A i \in DOMAIN answer.rows :
                  IsAnswered(f.of, Linked(question.model, n, o, answer.rows[i][Marker("id")]), f,
                             q, answer.rows[i][n])

\* One relation only leads from n's target back to m.
Unrivalled(m, n) ==
  LET f == resolved[m].fields[n]
  IN \A o \in Back(m, n) : resolved[f.of].fields[o].key = f.key

\* The linked rows satisfy what a filter says of them: one does, none does or,
\* for every, none of them is known not to.
Holds(c, t, linked) ==
  LET truth(x) == Filter(c.inner, t, x) IN
  CASE c.op \in {"some", "is"} -> \E x \in linked : truth(x) = "true"
    [] c.op \in {"none", "isNot"} -> \A x \in linked : truth(x) # "true"
    [] c.op = "every" -> \A x \in linked : truth(x) # "false"

\* A filter on a relation selects the rows whose linked rows it speaks about:
\* the parser of filters finds the key again, in its own way
\* (where_parser.rs 266-303), and the compiler quantifies (read.rs 47-80).
FiltersMatchLinks ==
  (answer # Nobody /\ question.model \in Models /\ question.where.op \in Quantifiers) =>
    \A o \in UNION {DOMAIN resolved[m].fields : m \in Models} :
      LET m == question.model
          c == question.where
      IN (Pairs(m, c.field, o) /\ Unrivalled(m, c.field)) =>
           /\ answer.kind = "data"
           /\ Range(RowIds(answer.rows)) =
                {r \in Ids : Holds(c, resolved[m].fields[c.field].of, Linked(m, c.field, o, r))}

\* A read of a base or a union returns each row of each of its models once,
\* those its filter leaves out excepted, whatever the order of the branches
\* (translator.rs 248-299 and 341-406, read.rs 333-351).
BranchesAreComplete ==
  (/\ answer # Nobody /\ answer.kind = "data"
   /\ question.model \notin Models /\ ~Paged(question)) =>
    LET rows == {<<t, x>> \in TargetsOf(question.model) \X Ids :
                   Passes(ConditionOf(question, t), t, x)}
        object(row) == IF question.model \in Bases
                       THEN BaseObject(question, row[1], row[2])
                       ELSE UnionObject(question, row[1], row[2])
    IN /\ Len(answer.rows) = Cardinality(rows)
       /\ \A row \in rows :
            Cardinality({i \in DOMAIN answer.rows : answer.rows[i] = object(row)})
              = Cardinality({other \in rows : object(other) = object(row)})
=============================================================================
