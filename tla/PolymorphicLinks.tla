--------------------------- MODULE PolymorphicLinks ---------------------------
(***************************************************************************)
(* Mutations of links that may lead to several models                      *)
(* (mutation_translator.rs).  Such a link is a pair of columns, the model  *)
(* and the id, without a constraint in SQLite: the engine alone keeps it   *)
(* up to date.  A plan runs here in one step, as its transaction makes it  *)
(* appear; PlanExecutor takes its statements one by one.                   *)
(*                                                                         *)
(* A request has an action on a model (deleteMany also on a base or a      *)
(* union), a filter, the bases its filter requires, a value for the plain  *)
(* column or none, and an operation op on the polymorphic field.  The      *)
(* models have no other relations here, so no constraint of SQLite's       *)
(* deletes or refuses anything.                                            *)
(***************************************************************************)
EXTENDS LoadedSchema

CONSTANTS
  Records,       \* the ids stored records may have
  Spare,         \* the ids only inserts use
  Changes(_)     \* the mutations sent to a server started with a text

\* There are finitely many records, and an insert finds an id nobody has had,
\* the parent's and then the child's.
ASSUME LinksAssumption ==
  /\ IsFiniteSet(Records) /\ Records \cap Spare = {}
  /\ \E x, y \in Spare : x # y
  /\ Null \notin Records \cup Spare

VARIABLES
  tables,        \* the database: model, id, the plain column and the links
  prior,         \* the database before the mutation
  change,        \* the mutation
  verdict        \* its answer

linking == <<tables, prior, change, verdict>>

LinkFields(m) ==
  {n \in DOMAIN resolved[m].fields :
     IsPolymorphic(resolved[m].fields[n]) /\ ~resolved[m].fields[n].array}

NoLink == <<Null, Null>>

Selected(d, m, where) ==
  {r \in DOMAIN d[m] :
     where.op = "all" \/ Compare("eq", d[m][r].plain, where.value) = "true"}

Without(d, m, gone) == [d EXCEPT ![m] = [r \in DOMAIN @ \ gone |-> @[r]]]

Point(d, m, parents, n, link) ==
  [d EXCEPT ![m] = [r \in DOMAIN @ |-> IF r \in parents THEN [@[r] EXCEPT !.link[n] = link]
                                       ELSE @[r]]]

\* SET of the plain column and, for an operation set, of the pair: the target
\* is taken as given, there need be no such record.
Assign(d, m, chosen, data, n, op) ==
  LET e == IF data = Absent THEN d
           ELSE [d EXCEPT ![m] = [r \in DOMAIN @ |->
                   IF r \in chosen THEN [@[r] EXCEPT !.plain = data] ELSE @[r]]]
  IN CASE op.do = "set" -> Point(e, m, chosen, n, <<op.kind, op.id>>)
       [] op.do = "unset" -> Point(e, m, chosen, n, NoLink)
       [] OTHER -> e

-----------------------------------------------------------------------------
(***************************************************************************)
(* The operations deferred to after the parent's own statement (before it, *)
(* under an updateMany).  A scope is one parent, by the id its statement   *)
(* returned, or the filter of the updateMany, evaluated anew each time.    *)
(* The result is the set of databases there may be, empty if a record is   *)
(* not found.                                                              *)
(***************************************************************************)
One(p) == [bulk |-> FALSE, id |-> p]
Filtered(where) == [bulk |-> TRUE, where |-> where]

ParentsIn(d, m, scope) ==
  IF scope.bulk THEN Selected(d, m, scope.where) ELSE {scope.id} \cap DOMAIN d[m]

\* (Mutant: the type column is not compared.)
HeldUntyped(d, m, parents, n, kind) == {d[m][p].link[n][2] : p \in parents}

\* The ids that the parents' pairs hold of records of this kind.
Held(d, m, parents, n, kind) ==
  {d[m][p].link[n][2] : p \in {q \in parents : d[m][q].link[n][1] = kind}}

Inserted(d, m, data) ==
  LET new == CHOOSE x \in Spare : x \notin DOMAIN d[m]
  IN [id |-> new,
      db |-> [d EXCEPT ![m] =
                Over(Only(new, [plain |-> IF data = Absent THEN Null ELSE data,
                                link |-> [n \in LinkFields(m) |-> NoLink]]), @)]]

\* The cleanup's NOT EXISTS: when the record is of the parent's own model, both
\* columns it compares are taken from the inner table.
Exists(d, m, p, n, kind) ==
  IF kind = m THEN \E t \in DOMAIN d[m] : d[m][t].link[n][2] = t
  ELSE d[m][p].link[n][2] \in DOMAIN d[kind]

Cleaned(d, m, parents, n, kind) ==
  Point(d, m, {p \in parents : d[m][p].link[n][1] = kind /\ ~Exists(d, m, p, n, kind)}, n, NoLink)

Through(d, m, scope, n, op) ==
  LET kind == op.kind
      hit == Held(d, m, ParentsIn(d, m, scope), n, kind) \cap Selected(d, kind, op.where)
  IN CASE op.do = "create" ->
            LET child == Inserted(d, kind, op.value)
            IN {Point(child.db, m, ParentsIn(child.db, m, scope), n, <<kind, child.id>>)}
       [] op.do = "update" /\ hit # {} -> {Assign(d, kind, hit, op.value, n, [do |-> "none"])}
       [] op.do = "delete" /\ (hit # {} \/ scope.bulk) ->
            LET left == Without(d, kind, hit)
            IN {Cleaned(left, m, ParentsIn(left, m, scope), n, kind)}
       [] op.do \in {"update", "delete"} /\ hit = {} /\ ~(op.do = "delete" /\ scope.bulk) -> {}
       [] OTHER -> {d}

-----------------------------------------------------------------------------
(***************************************************************************)
(* The cascade of root deletes.  It follows fields that point to a base of *)
(* the model, never those that point to a union, and removes the record    *)
(* that holds the link.  Models are visited in the order of their map,     *)
(* which is random; the order of models without bases or such fields is of *)
(* no consequence.                                                         *)
(***************************************************************************)
Visits == Orders({m \in Models : LinkFields(m) # {} \/ resolved[m].bases # {}})

Followers(m, order) ==
  LET of(o) == {n \in LinkFields(o) : /\ resolved[o].fields[n].kind = "Base"
                                      /\ resolved[o].fields[n].of \in resolved[m].bases}
  IN FlattenSeq([i \in DOMAIN order |->
       SetToSeq({<<order[i], n>> : n \in of(order[i])})])

DropLinked(d, follower, m, ids) ==
  LET o == follower[1]
      n == follower[2]
  IN Without(d, o, {r \in DOMAIN d[o] : d[o][r].link[n][1] = m /\ d[o][r].link[n][2] \in ids})

\* After a delete: from the one id that it returned.
CascadeFrom(d, m, id, order) ==
  FoldLeft(LAMBDA e, f : DropLinked(e, f, m, {id}), d, Followers(m, order))

\* Before a deleteMany: from the records its filter selects by then.
CascadeAhead(d, m, where, order) ==
  FoldLeft(LAMBDA e, f : DropLinked(e, f, m, Selected(e, m, where)), d, Followers(m, order))

\* The models meant by a model, a base or a union, those without one of the
\* bases the filter requires excepted, and the sequence they are taken from.
Concrete(model, bases) ==
  {m \in IF model \in Models THEN {model} ELSE TargetsOf(model) :
     bases \subseteq resolved[m].bases \cup {m}}

Listing(model, order) ==
  CASE model \in Models -> <<model>>
    [] model \in DOMAIN ast.unions -> ast.unions[model]
    [] OTHER -> order

Cascaded(d, concrete, models, where, order) ==
  FoldLeft(LAMBDA e, m : IF m \in concrete THEN CascadeAhead(e, m, where, order) ELSE e,
           d, models)

Removed(d, concrete, models, where) ==
  FoldLeft(LAMBDA e, m : IF m \in concrete THEN Without(e, m, Selected(e, m, where)) ELSE e,
           d, models)

\* (Mutant: the records go before what refers to them is looked for.)
DeletedManyFirst(d, concrete, models, where, order) ==
  Cascaded(Removed(d, concrete, models, where), concrete, models, where, order)

\* All cascades first, then the records themselves.
DeletedMany(d, concrete, models, where, order) ==
  Removed(Cascaded(d, concrete, models, where, order), concrete, models, where)

-----------------------------------------------------------------------------
(***************************************************************************)
(* The server.                                                             *)
(***************************************************************************)
LinkInit ==
  /\ tables = <<>> /\ prior = <<>>
  /\ change = Nobody /\ verdict = "none"

\* A database that fits the schema, every link empty or to a stored record.
ServeMutations ==
  /\ stage = "accepted" /\ tables = <<>> /\ verdict = "none" /\ Changes(text) # {}
  /\ \E links \in [UNION {{m} \X LinkFields(m) : m \in Models} ->
                       [Records -> {NoLink} \cup (Models \X Records)]] :
       /\ \A f \in DOMAIN links : \A r \in Records :
            links[f][r] # NoLink => links[f][r][1] \in TargetsOf(resolved[f[1]].fields[f[2]].of)
       /\ tables' = [m \in Models |-> [r \in Records |->
                       [plain |-> Plain[r],
                        link |-> [n \in LinkFields(m) |-> links[<<m, n>>][r]]]]]
  /\ UNCHANGED <<prior, change, verdict>>
  /\ UNCHANGED loading

Request(c) ==
  /\ tables # <<>> /\ verdict = "none"
  /\ change' = c
  /\ prior' = tables
  /\ UNCHANGED loading

\* A name that is no model, nor what an updateMany or deleteMany may be of else,
\* or a field that the model does not have.
Unknown(c) ==
  IF c.model \in Models THEN c.op.do # "none" /\ c.field \notin DOMAIN resolved[c.model].fields
  ELSE c.action \in {"updateMany", "deleteMany"} => c.model \notin Bases \cup DOMAIN ast.unions

\* Unknown names are refused, and so are connect and disconnect and a kind that
\* is no model: that the field may hold this kind is not asked.  Without a kind,
\* or for an updateMany without anything to set, there is nothing to do.
Refused(c) ==
  \/ Unknown(c)
  \/ c.op.do \in {"connect", "disconnect"}
  \/ c.op.do \in {"set", "create", "update", "delete"} /\ c.op.kind \notin Models
  \/ c.action = "updateMany" /\ c.data = Absent /\ c.op.do = "none"

RefuseChange(c) ==
  /\ Request(c) /\ Refused(c)
  /\ verdict' = "refused"
  /\ UNCHANGED tables

\* What is modelled of the others: the operation, if any, is on a single link.
OnLink(c) ==
  c.model \in Models /\ (c.op.do # "none" => c.field \in LinkFields(c.model))

\* The transaction commits, or a record was not found and it rolls back.
Ends(outcomes) ==
  \/ tables' \in outcomes /\ verdict' = "ok"
  \/ outcomes = {} /\ verdict' = "notFound" /\ UNCHANGED tables

Create(c) ==
  /\ Request(c) /\ ~Refused(c) /\ OnLink(c) /\ c.action = "create"
  /\ LET new == Inserted(tables, c.model, c.data)
     IN Ends(Through(Assign(new.db, c.model, {new.id}, Absent, c.field, c.op),
                     c.model, One(new.id), c.field, c.op))

\* RETURNING hands out any of the changed records first.
Update(c) ==
  /\ Request(c) /\ ~Refused(c) /\ OnLink(c) /\ c.action = "update"
  /\ LET chosen == Selected(tables, c.model, c.where)
         assigned == Assign(tables, c.model, chosen, c.data, c.field, c.op)
     IN \/ chosen = {} /\ Ends({})
        \/ \E first \in chosen : Ends(Through(assigned, c.model, One(first), c.field, c.op))

UpdateMany(c) ==
  /\ Request(c) /\ ~Refused(c) /\ OnLink(c) /\ c.action = "updateMany"
  /\ Ends({Assign(d, c.model, Selected(d, c.model, c.where), c.data, c.field, c.op) :
             d \in Through(tables, c.model, Filtered(c.where), c.field, c.op)})

Delete(c) ==
  /\ Request(c) /\ ~Refused(c) /\ c.action = "delete"
  /\ LET doomed == Selected(tables, c.model, c.where)
     IN \E order \in Visits :
          Ends({CascadeFrom(Without(tables, c.model, doomed), c.model, first, order) :
                  first \in doomed})

DeleteMany(c) ==
  /\ Request(c) /\ ~Refused(c) /\ c.action = "deleteMany"
  /\ \E order \in Visits :
       Ends({DeletedMany(tables, Concrete(c.model, c.bases), Listing(c.model, order),
                         c.where, order)})

Change(c) ==
  RefuseChange(c) \/ Create(c) \/ Update(c) \/ UpdateMany(c) \/ Delete(c) \/ DeleteMany(c)

LinkNext ==
  \/ Load /\ UNCHANGED linking
  \/ ServeMutations
  \/ \E c \in Changes(text) : Change(c)

LinkSpec == Init /\ LinkInit /\ [][LinkNext]_<<loading, linking>>

-----------------------------------------------------------------------------
(***************************************************************************)
(* Properties.                                                             *)
(***************************************************************************)
\* The records that the delete c asks for of a database, each with its model.
Doomed(d, c) ==
  UNION {{m} \X Selected(d, m, c.where) : m \in Concrete(c.model, c.bases)}

\* Nothing is left of them, nor of the links to them through a base.
Severed(doomed, d) ==
  /\ \A x \in doomed : x[2] \notin DOMAIN d[x[1]]
  /\ \A o \in Models : \A n \in LinkFields(o) :
       resolved[o].fields[n].kind = "Base" =>
         \A r \in DOMAIN d[o] : d[o][r].link[n] \notin doomed

\* A delete of one record, or a deleteMany of records that do not refer to each
\* other, leaves no link through a base to a record it asked for
\* (mutation_translator.rs 131-163, 346-381), as docs/mutations.md:262 says:
\* "deleting a base record removes all referencing polymorphic links".
CascadesComplete ==
  (/\ verdict = "ok" /\ change.action \in {"delete", "deleteMany"}
   /\ change.action = "delete" => Cardinality(Doomed(prior, change)) = 1
   /\ \A x \in Doomed(prior, change) : \A n \in LinkFields(x[1]) :
        prior[x[1]][x[2]].link[n] \notin Doomed(prior, change)) =>
    Severed(Doomed(prior, change), tables)

\* Whether p's pair is empty or leads to a stored record.
Leads(d, m, p, n) ==
  LET link == d[m][p].link[n] IN link = NoLink \/ link[2] \in DOMAIN d[link[1]]

\* The records of a model that a mutation has stored, as pairs.
Fresh(d, e, m) == {m} \X (DOMAIN e[m] \ DOMAIN d[m])

\* What an operation op through m.n made of a database d: of all records there
\* were but the addressed ones, it reached only those that the addressed ones'
\* pairs held, of the kind asked for; and their pairs lead somewhere afterwards
\* if they did, to the new record after a create.
Follows(d, m, n, op, addressed, e) ==
  /\ \A t \in Models : \A x \in DOMAIN d[t] :
       \/ t = m /\ x \in addressed
       \/ x \in DOMAIN e[t] /\ e[t][x] = d[t][x]
       \/ /\ op.do # "create" /\ t = op.kind
          /\ \E p \in addressed : d[m][p].link[n] = <<t, x>>
  /\ \A p \in addressed \cap DOMAIN e[m] :
       /\ Leads(d, m, p, n) /\ op.kind # m => Leads(e, m, p, n)
       /\ op.do = "create" => e[m][p].link[n] \in Fresh(d, e, op.kind)

\* The records a mutation is addressed to: a create to none there were.
Addressed(d, c) == IF c.action = "create" THEN {} ELSE Selected(d, c.model, c.where)

\* An operation through a polymorphic field follows the pairs of the records it
\* is addressed to, a create those of the record it stores
\* (docs/mutations.md:117, mutation_translator.rs 1323-1338 and 1449-1598).  A
\* delete of records of the parent's own model is left out: its cleanup
\* compares the wrong columns (Exists).
FieldsFollowTheirPair ==
  (/\ verdict = "ok" /\ change.op.do \in {"create", "update", "delete"}
   /\ change.action \in {"create", "update", "updateMany"}) =>
    LET m == change.model
        n == change.field
        addressed == Addressed(prior, change)
    IN (change.action = "update" => Cardinality(addressed) = 1) =>
         /\ Follows(prior, m, n, change.op, addressed, tables)
         /\ change.action = "create" =>
              \E x \in Fresh(prior, tables, m) :
                tables[m][x[2]].link[n] \in Fresh(prior, tables, change.op.kind)
=============================================================================
