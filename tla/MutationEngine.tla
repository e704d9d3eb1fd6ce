---------------------------- MODULE MutationEngine ----------------------------
(***************************************************************************)
(* The translator and the executor together: POST /api/v1/query with a     *)
(* mutation.                                                               *)
(***************************************************************************)
EXTENDS PlanExecutor, NestedMutations

ASSUME TranslatorAssumption ==
  \A q \in Request :
    /\ Refused(q) <=> Translate(q).err
    /\ ~Refused(q) => PlanOf(q) = Translate(q).steps

(***************************************************************************)
(* The engine does what its documentation says                             *)
(***************************************************************************)
Documented ==
  INSTANCE DocumentedStore WITH
    state <- CASE phase = "idle" -> "idle"
               [] phase = "committed" -> "done"
               [] OTHER -> "asked",
    reply <- IF reply \in {"none", "ok"} THEN reply ELSE "denied"

\* Every execution of the engine is one of the documented store: a plan of
\* several statements has, as a whole, exactly the documented effect of the
\* nested mutation, and is refused or rolled back only if there is none.
ImplementsDocumented == Documented!Spec

(***************************************************************************)
(* Parent scope                                                            *)
(***************************************************************************)
NamedBy(d, o) ==
  {r \in RowsOf(d, o.table) :
     \/ o.op = "connect" /\ Matches(d, r, o.where)
     \/ o.op = "set" /\ \E i \in DOMAIN o.targets : Matches(d, r, o.targets[i])}

\* Records a data block's operations may reach from the records it is about.
Reached(d, ps, o) == Documented!Linked(d, ps, o) \cup NamedBy(d, o)

Targets(d, q) == IF q.action = "create" THEN {} ELSE Documented!Roots(d, q)

RECURSIVE ReachedBelow(_, _, _)

ReachedBelow(d, ps, kids) ==
  UNION {LET rs == Reached(d, ps, kids[i])
         IN rs \cup ReachedBelow(d, rs, kids[i].kids) : i \in DOMAIN kids}

Nested(d, q) == ReachedBelow(d, Targets(d, q), q.kids)

\* What may be written to, and what may go: only a root delete takes the root
\* records, and a delete takes all that hangs below.
Writable(d, q) == Targets(d, q) \cup Nested(d, q)

Removable(d, q) ==
  LET first == IF q.action \in {"delete", "deleteMany"} THEN Writable(d, q) ELSE Nested(d, q)
  IN {r \in Live(d) :
        \A T \in SUBSET Live(d) :
          first \subseteq T /\ (\A x \in Live(d) : d[x].fk \in T => x \in T) => r \in T}

\* A mutation writes to no record but those its where, its relation fields and
\* its connect and set targets lead to, and deletes none, nor cuts a link to a
\* deleted one, but below those: a nested operation never slips to a record of
\* another parent (docs/mutations.md, "Scoped Nested Operations").
ParentScope ==
  [][\A r \in Live(db) :
       /\ db'[r].val # db[r].val /\ db'[r].live => r \in Writable(db, req)
       /\ db'[r] # db[r] => r \in Writable(db, req) \cup Removable(db, req)
       /\ ~db'[r].live => r \in Removable(db, req)]_vars

\* A root update or delete that reports success found its record
\* (docs/mutations.md, "Strict Target Verification").
StrictTarget ==
  [][phase' = "committed" /\ req.action \in {"update", "delete"}
       => Documented!Roots(db, req) # {}]_vars
=============================================================================
