--------------------------- MODULE DocumentedStore ----------------------------
(***************************************************************************)
(* What docs/mutations.md promises a client: a mutation is atomic, has the *)
(* documented effect or none, is denied only when no documented effect is  *)
(* possible, and its answer tells which.  There are no steps, statements   *)
(* or transactions here: an operation acts on the set of parent records it *)
(* is nested under, and Outcomes is the set of databases it may leave.     *)
(***************************************************************************)
EXTENDS SqlStatements

CONSTANTS
  NoRequest,  \* no client is waiting
  Seeds       \* the databases a server may be started on

VARIABLES db, state, req, reply

(***************************************************************************)
(* One operation.  ps are the parent records; bulk says they were selected *)
(* by an updateMany.  DocKids gives the outcomes of the operations nested  *)
(* in o.                                                                   *)
(***************************************************************************)

RECURSIVE DocKids(_, _, _, _, _)

\* Records of the field's table that are linked to one of the parents.
Linked(d, ps, o) ==
  {r \in RowsOf(d, o.table) :
     IF o.dir = "down" THEN d[r].fk \in ps ELSE \E p \in ps : d[p].fk = r}

Chosen(d, ps, o) == {r \in Linked(d, ps, o) : Matches(d, r, o.where)}

Named(d, t, ws) == {r \in RowsOf(d, t) : \E w \in ws : Matches(d, r, w)}

Relink(d, rows, fk) == Assign(d, rows, Keep, "set", fk)

Removed(d, rows) ==
  LET doomed == Doomed(d, rows)
  IN IF RestrictBlocks(d, doomed) THEN {} ELSE {DeleteRows(d, doomed)}

New(d, t) == {r \in Spare : TableOf[r] = t /\ ~d[r].live}

\* One new record per parent, and which parent it belongs to.
Births(d, t, ps) ==
  {owner \in UNION {[new -> ps] : new \in SUBSET New(d, t)} :
     /\ \A p \in ps : \E r \in DOMAIN owner : owner[r] = p
     /\ \A r, q \in DOMAIN owner : owner[r] = owner[q] => r = q}

\* The records o drops from the relation: deleted under onDisconnect: Delete,
\* unlinked otherwise, which a required relation does not allow.
Dropped(d, ps, P, o, rows, delete) ==
  IF delete THEN Removed(d, rows)
  ELSE IF rows # {} /\ Required[IF o.dir = "up" THEN P ELSE o.table] THEN {}
  ELSE {Relink(d, IF o.dir = "up" THEN ps ELSE rows, Null)}

Policy(P, o) == OnDisconnect[IF o.dir = "up" THEN <<P, "up">> ELSE <<o.table, "down">>]

DocCreate(d, ps, o) ==
  UNION {LET new   == DOMAIN owner
             fkOf  == [r \in new |-> IF o.dir = "down" THEN owner[r] ELSE Null]
             e     == Insert(d, new, o.val, fkOf)
             Mother(p) == CHOOSE r \in new : owner[r] = p
         IN DocKids(IF o.dir = "down" THEN e
                    ELSE [r \in Row |-> IF r \in ps THEN [e[r] EXCEPT !.fk = Mother(r)] ELSE e[r]],
                    new, o.table, o.kids, FALSE)
         : owner \in Births(d, o.table, ps)}

DocConnect(d, ps, o, bulk) ==
  IF bulk THEN {}
  ELSE IF o.dir = "up" THEN {Relink(d, ps, r) : r \in Named(d, o.table, {o.where})}
  ELSE {Relink(d, {r}, p) : r \in Named(d, o.table, {o.where}), p \in ps}

DocUpdate(d, ps, o, bulk) ==
  IF bulk THEN {}
  ELSE UNION {DocKids(Assign(d, {r}, o.val, "keep", Null), {r}, o.table, o.kids, FALSE)
              : r \in Chosen(d, ps, o)}

DocDelete(d, ps, o, bulk) ==
  IF bulk THEN Removed(d, Chosen(d, ps, o))
  ELSE UNION {Removed(d, {r}) : r \in Chosen(d, ps, o)}

DocUpdateMany(d, ps, o) ==
  LET rows == Chosen(d, ps, o)
  IN {Assign(e, rows \cap Live(e), o.val, "keep", Null)
      : e \in DocKids(d, rows, o.table, o.kids, TRUE)}

DocDisconnect(d, ps, P, o, bulk) ==
  CASE Policy(P, o) = "Restrict" -> {}
    [] Policy(P, o) = "Delete"   ->
         IF Chosen(d, ps, o) = {} /\ ~bulk THEN {} ELSE Removed(d, Chosen(d, ps, o))
    [] OTHER -> Dropped(d, ps, P, o, Chosen(d, ps, o), FALSE)

DocSet(d, ps, P, o, bulk) ==
  LET ws      == {o.targets[i] : i \in DOMAIN o.targets}
      targets == Named(d, o.table, ws)
      losing  == Linked(d, ps, o) \ targets
      delete  == o.dir = "down" /\ (IF o.drop = "default" THEN Policy(P, o) = "Delete"
                                    ELSE o.drop = "yes")
  IN IF bulk \/ Policy(P, o) = "Restrict" THEN {}
     ELSE IF o.dir = "down"
     THEN {Relink(e, targets, p) : e \in Dropped(d, ps, P, o, losing, delete), p \in ps}
     ELSE IF ws = {} THEN Dropped(d, ps, P, o, losing, FALSE)
     ELSE {Relink(d, ps, r) : r \in targets}

DocOp(d, ps, P, o, bulk) ==
  CASE o.op = "create"     -> DocCreate(d, ps, o)
    [] o.op = "connect"    -> DocConnect(d, ps, o, bulk)
    [] o.op = "update"     -> DocUpdate(d, ps, o, bulk)
    [] o.op = "delete"     -> DocDelete(d, ps, o, bulk)
    [] o.op = "updateMany" -> DocUpdateMany(d, ps, o)
    [] o.op = "deleteMany" -> Removed(d, Chosen(d, ps, o))
    [] o.op = "disconnect" -> DocDisconnect(d, ps, P, o, bulk)
    [] o.op = "set"        -> DocSet(d, ps, P, o, bulk)

\* At most two operations of one level are modelled; the documentation gives
\* them no order.
DocKids(d, ps, P, kids, bulk) ==
  LET Do(e, i) == DocOp(e, ps, P, kids[i], bulk)
      Then(i, j) == UNION {Do(e, j) : e \in Do(d, i)}
  IN CASE Len(kids) = 0 -> {d}
       [] Len(kids) = 1 -> Do(d, 1)
       [] Len(kids) = 2 -> Then(1, 2) \cup Then(2, 1)

(***************************************************************************)
(* The root action targets one record; the *Many actions target all.       *)
(***************************************************************************)
Roots(d, q) == Named(d, q.table, {q.where})

Effects(d, q) ==
  CASE q.action = "create" ->
         UNION {DocKids(Insert(d, {r}, q.val, [x \in {r} |-> Null]), {r}, q.table, q.kids, FALSE)
                : r \in New(d, q.table)}
    [] q.action = "update" ->
         UNION {DocKids(Assign(d, {r}, q.val, "keep", Null), {r}, q.table, q.kids, FALSE)
                : r \in Roots(d, q)}
    [] q.action = "updateMany" ->
         {Assign(e, Roots(d, q) \cap Live(e), q.val, "keep", Null)
          : e \in DocKids(d, Roots(d, q), q.table, q.kids, TRUE)}
    [] q.action = "delete"     -> UNION {Removed(d, {r}) : r \in Roots(d, q)}
    [] q.action = "deleteMany" -> Removed(d, Roots(d, q))

Outcomes(d, q) == {e \in Effects(d, q) : FkConsistent(e)}

(***************************************************************************)
(* The store and its clients.                                              *)
(***************************************************************************)
Init ==
  /\ db \in Seeds /\ state = "idle" /\ req = NoRequest /\ reply = "none"

Ask ==
  /\ state = "idle" /\ state' = "asked"
  /\ req' # NoRequest /\ reply' = "none"
  /\ UNCHANGED db

Apply ==
  /\ state = "asked" /\ state' = "done"
  /\ db' \in Outcomes(db, req)
  /\ UNCHANGED <<req, reply>>

Confirm ==
  /\ state = "done"
  /\ state' = "idle" /\ reply' = "ok" /\ req' = NoRequest
  /\ UNCHANGED db

Deny ==
  /\ state = "asked" /\ state' = "idle" /\ reply' = "denied" /\ req' = NoRequest
  /\ Outcomes(db, req) = {}
  /\ UNCHANGED db

\* The server dies: the client hears nothing, whatever had happened has.
Lose ==
  /\ state # "idle"
  /\ state' = "idle" /\ reply' = "none" /\ req' = NoRequest
  /\ UNCHANGED db

Next == Ask \/ Apply \/ Confirm \/ Deny \/ Lose

Spec == Init /\ [][Next]_<<db, state, req, reply>>
=============================================================================
