---------------------------- MODULE NestedMutations ---------------------------
(***************************************************************************)
(* mutation_translator.rs: a nested mutation becomes a linear list of      *)
(* statements.  Relation fields are walked by what they are to the table   *)
(* at hand: "down" is the field opposite to a child's foreign key, "up" the*)
(* field whose foreign key the table itself holds.                         *)
(*                                                                         *)
(* Bounds of the model: a data block touches one relation field, and never *)
(* one whose column the parent relation already assigns; polymorphic fields*)
(* and the array operators of scalar lists are left out.                   *)
(***************************************************************************)
EXTENDS SqlStatements

LOCAL INSTANCE SequencesExt

NoFilter == [by |-> "any", key |-> Null]

(***************************************************************************)
(* Requests.  An operation under a relation field, and the root action.    *)
(* val = Keep: the data block assigns no scalar.  targets are set's array, *)
(* drop its deleteDropped flag.                                            *)
(***************************************************************************)
IsArray(o) == o.dir = "down" /\ ToMany[o.table]

\* The column the code resolves for the field (FK injection gave both sides
\* the owner's column), and whether a table has a column of that name.
FkCol(P, o) == IF o.dir = "up" THEN FkName[P] ELSE FkName[o.table]

HasColumn(t, name) == HasFk(t) /\ FkName[t] = name

ParentOwnsFk(P, o) == HasColumn(P, FkCol(P, o))

\* The parsed form of onDisconnect for the field the operation is under.
FieldPolicy(P, o) ==
  OnDisconnect[IF o.dir = "up" THEN <<P, "up">> ELSE <<o.table, "down">>]

(***************************************************************************)
(* Plans under construction.  at is the step of the node just built.       *)
(***************************************************************************)
Empty == [steps |-> <<>>, err |-> FALSE, at |-> 0]

Emit(b, s) ==
  [b EXCEPT !.steps = Append(@, s), !.at = Len(b.steps) + 1]

Reject(b) == [b EXCEPT !.err = TRUE]

RejectIf(b, bad) == [b EXCEPT !.err = @ \/ bad]

NoScope == [by |-> "none", ref |-> 0, sel |-> <<>>]

\* ParentConstraint::Singular and ParentConstraint::Bulk.
Singular(at) == [bulk |-> FALSE, ref |-> at, sel |-> <<>>]

Bulk(sel) == [bulk |-> TRUE, ref |-> 0, sel |-> sel]

ScopedTo(c, by) == [by |-> by, ref |-> c.ref, sel |-> c.sel]

NoLink == [src |-> "keep", ref |-> 0, table |-> CHOOSE t \in Table : TRUE,
           where |-> NoFilter]

SetNull == [NoLink EXCEPT !.src = "null"]

FromStep(at) == [NoLink EXCEPT !.src = "step", !.ref = at]

Literal(w) == [NoLink EXCEPT !.src = "literal", !.where = w]

FromSelect(t, w) == [NoLink EXCEPT !.src = "select", !.table = t, !.where = w]

Statement(kind, verb, t, w) ==
  [kind |-> kind, quiet |-> FALSE, broken |-> FALSE, verb |-> verb,
   table |-> t, where |-> w, spared |-> {}, linked |-> NoTable,
   scope |-> NoScope, val |-> Keep, link |-> NoLink]

\* A query whose id is "step_<model>_..." : the executor searches the whole id.
Named(t, s) == [s EXCEPT !.quiet = QuietName[t]]

BulkParams(sel) == Cardinality({i \in DOMAIN sel : Params(sel[i].where) = 1})

(***************************************************************************)
(* The order in which a parser looks for the operations of one field, and  *)
(* what it refuses or rewrites.                                            *)
(***************************************************************************)
Order(style) ==
  CASE style = "create" -> <<"create", "connect", "update", "delete",
                             "updateMany", "deleteMany", "disconnect", "set">>
    [] style = "update" -> <<"updateMany", "deleteMany", "update", "delete",
                             "connect", "disconnect", "set", "create">>
    [] style = "bulk"   -> <<"updateMany", "deleteMany", "delete", "create",
                             "connect", "disconnect", "update", "set">>

Sorted(style, kids) ==
  FlattenSeq([i \in 1..8 |->
                SelectSeq(kids, LAMBDA o : o.op = Order(style)[i])])

\* The parser of a nested updateMany has none of these checks.
Denied(style, P, o) ==
  /\ style # "bulk"
  /\ \/ o.op \in {"connect", "disconnect"} /\ ~IsArray(o)
     \/ o.op \in {"disconnect", "set"} /\ FieldPolicy(P, o) = "Restrict"

\* onDisconnect: Delete turns a disconnect into a delete.
Parsed(style, P, o) ==
  IF style # "bulk" /\ o.op = "disconnect" /\ FieldPolicy(P, o) = "Delete"
  THEN [o EXCEPT !.op = "delete"]
  ELSE o

\* The deleteDropped flag of a set, or the field's onDisconnect.
DeleteDropped(P, o) ==
  IF o.drop = "default" THEN FieldPolicy(P, o) = "Delete" ELSE o.drop = "yes"

(***************************************************************************)
(* translate_create_node.  link is the foreign key the parent relation     *)
(* puts into the new row (NoLink at the root), scope the bulk parents.  A  *)
(* node is followed by the operations nested in its data block, which go   *)
(* down to any depth.                                                      *)
(***************************************************************************)
RECURSIVE CreateNode(_, _, _, _, _, _)

RECURSIVE ProcessDeferred(_, _, _, _, _)

InsertStep(t, val, link, scope) ==
  [Statement("query", "insert", t, NoFilter)
     EXCEPT !.val = val, !.link = link, !.scope = scope]

Children(b, t, kids, style) ==
  [ProcessDeferred(b, Singular(b.at), t, kids, style) EXCEPT !.at = b.at]

\* The new row holds the foreign key of the field: create comes first and its
\* id goes into the INSERT, set is a literal; other keys are not looked at.
InlineLink(b, kids) ==
  LET links == {o \in ToSet(kids) : o.op = "set" /\ o.targets # <<>>}
  IN IF \E o \in ToSet(kids) : o.op = "create" THEN FromStep(b.at)
     ELSE IF links # {} THEN Literal((CHOOSE o \in links : TRUE).targets[1])
     ELSE NoLink

CreateNode(b, t, val, kids, link, scope) ==
  IF kids # <<>> /\ kids[1].dir = "up"
  THEN LET Inline(x, o) == CreateNode(x, o.table, o.val, o.kids, NoLink, NoScope)
           b1 == FoldLeft(Inline, b, SelectSeq(kids, LAMBDA o : o.op = "create"))
           b2 == RejectIf(b1, \E o \in ToSet(kids) :
                                \/ o.op \in {"connect", "disconnect"}
                                \/ /\ o.op = "set" /\ o.targets # <<>>
                                   /\ o.targets[1].by # "id")
       IN Emit(b2, InsertStep(t, val, InlineLink(b1, kids), scope))
  ELSE LET b1 == Emit(b, InsertStep(t, val, link, scope))
       IN Children(b1, t, kids, "create")

(***************************************************************************)
(* translate_update_node under a parent: the reverse lookup finds the      *)
(* child's own foreign key for a "down" field, and for an "up" field       *)
(* whatever singular field of the target points back at the parent's model.*)
(***************************************************************************)
ReverseFound(P, o) == o.dir = "down" \/ o.table = P \/ ~ToMany[P]

ByForeignKey(P, o) == ReverseFound(P, o) \/ HasColumn(o.table, FkCol(P, o))

UpdateStep(c, P, o) ==
  LET s == [Statement("branch", "update", o.table, o.where) EXCEPT !.val = o.val]
  IN IF ByForeignKey(P, o)
     THEN [s EXCEPT !.scope  = ScopedTo(c, "fk"),
                    !.broken = o.table # P /\ ~HasColumn(o.table, FkCol(P, o))]
     ELSE IF c.bulk
          THEN Named(o.table, [s EXCEPT !.scope = ScopedTo(c, "held"), !.kind = "query"])
          ELSE [s EXCEPT !.scope = ScopedTo(c, "held")]

UpdateUnder(b, c, P, o) ==
  LET b1 == Emit(RejectIf(b, c.bulk /\ ByForeignKey(P, o)), UpdateStep(c, P, o))
  IN Children(b1, o.table, o.kids, "update")

(***************************************************************************)
(* process_deferred_children, one operator per DeferredAction.             *)
(***************************************************************************)
CreateUnder(b, c, P, o) ==
  IF o.dir = "up"
  THEN LET b1 == CreateNode(b, o.table, o.val, o.kids, NoLink, NoScope)
       IN Emit(b1, [Statement("many", "update", P, NoFilter)
                      EXCEPT !.link = FromStep(b1.at), !.scope = ScopedTo(c, "id")])
  ELSE CreateNode(b, o.table, o.val, o.kids,
                  IF c.bulk THEN [NoLink EXCEPT !.src = "parents"] ELSE FromStep(c.ref),
                  IF c.bulk THEN ScopedTo(c, "id") ELSE NoScope)

ConnectUnder(b, c, P, o) ==
  Emit(RejectIf(b, c.bulk),
       Named(o.table, [Statement("query", "update", o.table, o.where)
                         EXCEPT !.link = FromStep(c.ref)]))

\* (Mutant: the parent constraint is forgotten.)
LinkScopeDropped(c, o) == ScopedTo(c, "none")

\* Through the column the child holds, or the parent's if that is where it is.
LinkScope(c, o) == ScopedTo(c, IF o.dir = "up" THEN "held" ELSE "fk")

DeleteUnder(b, c, P, o) ==
  Emit(b, [Statement(IF c.bulk THEN "many" ELSE "branch", "delete", o.table, o.where)
             EXCEPT !.scope = LinkScope(c, o)])

\* updateMany and deleteMany always name the column in the child.
ManyScope(s, c, P, o) ==
  [s EXCEPT !.scope = ScopedTo(c, "fk"), !.broken = ~HasColumn(o.table, FkCol(P, o))]

\* The subquery grandchildren are scoped by.  Under a singular parent it
\* selects by the child's own filter alone.
Grandparents(c, o) ==
  LET level == [table |-> o.table, where |-> o.where]
  IN IF c.bulk THEN Append(c.sel, level) ELSE <<level>>

UpdateManyUnder(b, c, P, o) ==
  LET b1 == ProcessDeferred(b, Bulk(Grandparents(c, o)), o.table, o.kids, "bulk")
  IN Emit(b1, ManyScope([Statement("many", "update", o.table, o.where)
                           EXCEPT !.val = o.val], c, P, o))

DeleteManyUnder(b, c, P, o) ==
  Emit(b, ManyScope(Statement("many", "delete", o.table, o.where), c, P, o))

\* Disconnect does not pass the bulk subquery's parameters: its ?1 is bound to
\* the child's filter value, and a value too few fails the statement.
Rebound(sel, w) ==
  IF Params(w) = 0 THEN sel
  ELSE [i \in DOMAIN sel |->
          IF Params(sel[i].where) = 0 THEN sel[i]
          ELSE [sel[i] EXCEPT !.where.key = w.key]]

DisconnectStep(c, P, o) ==
  LET t     == IF ParentOwnsFk(P, o) THEN P ELSE o.table
      bound == [c EXCEPT !.sel = Rebound(c.sel, o.where)]
  IN [Statement("query", "update", t, o.where)
        EXCEPT !.quiet  = TRUE,
               !.link   = SetNull,
               !.linked = IF ParentOwnsFk(P, o) THEN o.table ELSE NoTable,
               !.scope  = ScopedTo(bound, IF ParentOwnsFk(P, o) THEN "id" ELSE "fk"),
               !.broken = \/ BulkParams(c.sel) > Params(o.where)
                          \/ t # o.table /\ Params(o.where) > 0]

SetOwned(b, c, P, o) ==
  LET s == [Statement("query", "update", P, NoFilter)
              EXCEPT !.quiet = TRUE, !.scope = ScopedTo(c, "id")]
  IN CASE Len(o.targets) = 0 -> Emit(b, [s EXCEPT !.link = SetNull])
       [] Len(o.targets) = 1 -> Emit(b, [s EXCEPT !.link = FromSelect(o.table, o.targets[1])])
       [] OTHER -> Reject(b)

SetHeldByChildren(b, c, P, o) ==
  LET drop == DeleteDropped(P, o)
      gone == [Statement("query", IF drop THEN "delete" ELSE "update", o.table, NoFilter)
                 EXCEPT !.quiet  = TRUE,
                        !.scope  = ScopedTo(c, "fk"),
                        !.link   = IF drop THEN NoLink ELSE SetNull,
                        !.spared = IF drop THEN ToSet(o.targets) ELSE {}]
      Join(x, w) == Emit(x, [Statement("query", "update", o.table, w)
                               EXCEPT !.quiet = TRUE, !.link = FromStep(c.ref)])
  IN FoldLeft(Join, Emit(b, gone), o.targets)

SetUnder(b, c, P, o) ==
  IF c.bulk THEN Reject(b)
  ELSE IF ParentOwnsFk(P, o) THEN SetOwned(b, c, P, o)
  ELSE SetHeldByChildren(b, c, P, o)

Deferred(b, c, P, o) ==
  CASE o.op = "create"     -> CreateUnder(b, c, P, o)
    [] o.op = "connect"    -> ConnectUnder(b, c, P, o)
    [] o.op = "update"     -> UpdateUnder(b, c, P, o)
    [] o.op = "delete"     -> DeleteUnder(b, c, P, o)
    [] o.op = "updateMany" -> UpdateManyUnder(b, c, P, o)
    [] o.op = "deleteMany" -> DeleteManyUnder(b, c, P, o)
    [] o.op = "disconnect" -> Emit(b, DisconnectStep(c, P, o))
    [] o.op = "set"        -> SetUnder(b, c, P, o)

ProcessDeferred(b, c, P, kids, style) ==
  LET One(x, o) == RejectIf(Deferred(x, c, P, Parsed(style, P, o)),
                            Denied(style, P, o))
  IN FoldLeft(One, b, Sorted(style, kids))

(***************************************************************************)
(* hydrate_mutation_to_plan.                                               *)
(***************************************************************************)
RootUpdate(q) ==
  LET b == Emit(Empty, Named(q.table, [Statement("query", "update", q.table, q.where)
                                         EXCEPT !.val = q.val]))
  IN Children(b, q.table, q.kids, "update")

\* (Mutant: the root rows are updated before the children are.)
RootUpdateManyFirst(q) ==
  LET sel == <<[table |-> q.table, where |-> q.where]>>
      b   == Emit(Empty, [Statement("many", "update", q.table, q.where) EXCEPT !.val = q.val])
  IN RejectIf(ProcessDeferred(b, Bulk(sel), q.table, q.kids, "update"),
              q.val = Keep /\ q.kids = <<>>)

RootUpdateMany(q) ==
  LET sel == <<[table |-> q.table, where |-> q.where]>>
      b   == ProcessDeferred(Empty, Bulk(sel), q.table, q.kids, "update")
  IN RejectIf(Emit(b, [Statement("many", "update", q.table, q.where) EXCEPT !.val = q.val]),
              q.val = Keep /\ q.kids = <<>>)

Translate(q) ==
  CASE q.action = "create" ->
         CreateNode(Empty, q.table, q.val, q.kids, NoLink, NoScope)
    [] q.action = "update"     -> RootUpdate(q)
    [] q.action = "delete"     ->
         Emit(Empty, Named(q.table, Statement("query", "delete", q.table, q.where)))
    [] q.action = "updateMany" -> RootUpdateMany(q)
    [] q.action = "deleteMany" ->
         Emit(Empty, Statement("many", "delete", q.table, q.where))
=============================================================================
