----------------------------- MODULE PlanExecutor -----------------------------
(***************************************************************************)
(* handler.rs and executor.rs for one mutation at a time: the request is   *)
(* translated to a plan or refused, the plan's steps run in one SQLite     *)
(* transaction, the first error rolls everything back, and the transaction *)
(* commits when no step is left.  The server may die at any moment.        *)
(*                                                                         *)
(* The translator is a parameter here: Refused holds of the requests it    *)
(* answers with an error, PlanOf gives the steps of the others.            *)
(***************************************************************************)
EXTENDS SqlStatements

CONSTANTS
  Request,      \* the mutations a client may send
  NoRequest,    \* none is being served
  Refused(_),   \* those the translator returns Err for
  PlanOf(_),    \* the ExecutionPlan's steps of the others
  Seeds,        \* the databases the server may be started on
  MaxRequests   \* bound on the number of requests

\* What the executor relies on: a link refers to an earlier step, a literal
\* one is an id of the request.
WellFormed(p) ==
  \A i \in DOMAIN p :
    /\ p[i].link.src = "step" => p[i].link.ref \in 1..(i - 1)
    /\ p[i].link.src = "literal" => p[i].link.where.key \in Row

ASSUME PlanAssumption ==
  /\ NoRequest \notin Request
  /\ \A q \in Request :
       Refused(q) \/ (PlanOf(q) \in Seq(Step) /\ WellFormed(PlanOf(q)))
  /\ MaxRequests \in Nat

\* A database file a server starts on was left behind by committed
\* transactions (or is empty).
ASSUME SeedAssumption ==
  \A d \in Seeds : d \in Database /\ FkConsistent(d)

VARIABLES
  db,      \* the committed database
  work,    \* the open transaction's view of it
  phase,   \* "idle", "received" (body parsed), "running" (transaction open) or
           \* "committed" (the answer not yet sent)
  req,     \* the request being served
  plan,    \* its steps, once translated
  ret,     \* returned_values, by step; NoId for ""
  reply,   \* the last answer
  served   \* requests taken so far

vars == <<db, work, phase, req, plan, ret, reply, served>>

Status == {"none", "ok", "refused", "not_found", "scope", "error"}

TypeOK ==
  /\ db \in Database
  /\ work \in Database
  /\ phase \in {"idle", "received", "running", "committed"}
  /\ req \in Request \/ req = NoRequest
  /\ phase = "idle" <=> req = NoRequest
  /\ plan \in Seq(Step)
  /\ ret \in Seq(Row \cup {NoId})
  /\ reply \in Status
  /\ served \in Nat

Init ==
  /\ db \in Seeds
  /\ work = db
  /\ phase = "idle"
  /\ req = NoRequest
  /\ plan = <<>>
  /\ ret = <<>>
  /\ reply = "none"
  /\ served = 0

Current == plan[Len(ret) + 1]

Receive ==
  /\ phase = "idle" /\ served < MaxRequests
  /\ req' \in Request
  /\ phase' = "received" /\ reply' = "none" /\ served' = served + 1
  /\ UNCHANGED <<db, work, plan, ret>>

\* hydrate_mutation_to_plan returned Err: 400, nothing was executed.
Refuse ==
  /\ phase = "received" /\ Refused(req)
  /\ phase' = "idle" /\ reply' = "refused" /\ req' = NoRequest
  /\ UNCHANGED <<db, work, plan, ret, served>>

\* db.transaction()
Begin ==
  /\ phase = "received" /\ ~Refused(req)
  /\ phase' = "running" /\ work' = db /\ plan' = PlanOf(req) /\ ret' = <<>>
  /\ UNCHANGED <<db, req, reply, served>>

Running(verb) ==
  /\ phase = "running" /\ Len(ret) < Len(plan)
  /\ Current.verb = verb /\ ~Current.broken

\* (Mutant: an absent id is kept as NULL.)
FirstIdOrNull(rows) ==
  IF Current.kind = "many" \/ rows = {} THEN {Null} ELSE rows

\* A query or branch keeps the first id RETURNING yields; a bulk step keeps a
\* count no other step ever refers to.
FirstId(rows) ==
  IF Current.kind = "many" \/ rows = {} THEN {NoId} ELSE rows

Advance(id) == ret' = Append(ret, id)

\* gen_uuid7 never yields an id that was used before.
Fresh(t) == {r \in Spare : TableOf[r] = t /\ ~work[r].live /\ ~db[r].live}

\* INSERT ... VALUES, one fresh row.
RunInsert ==
  /\ Running("insert") /\ Current.link.src # "parents"
  /\ \E r \in Fresh(Current.table), fk \in LinkValues(work, ret, Current.link) :
       /\ work' = Insert(work, {r}, Current.val, [x \in Row |-> fk])
       /\ Advance(r)
  /\ UNCHANGED <<db, phase, req, plan, reply, served>>

\* INSERT ... SELECT pk FROM (bulk parents): a fresh row for each of them.
RunInsertSelect ==
  /\ Running("insert") /\ Current.link.src = "parents"
  /\ LET parents == Selected(work, Current.scope.sel)
     IN \E new \in SUBSET Fresh(Current.table) : \E owner \in [new -> parents] :
          /\ \A p \in parents : \E r \in new : owner[r] = p
          /\ \A r, q \in new : owner[r] = owner[q] => r = q
          /\ work' = Insert(work, new, Current.val, owner)
          /\ \E id \in FirstId(new) : Advance(id)
  /\ UNCHANGED <<db, phase, req, plan, reply, served>>

\* (Mutant: only branches are checked.)
MissingBranch(rows) == rows = {} /\ ~Current.quiet /\ Current.kind = "branch"

\* A step that must hit a row and hits none.
Missing(rows) == rows = {} /\ ~Current.quiet /\ Current.kind # "many"

RunUpdate ==
  /\ Running("update")
  /\ LET rows == Affected(work, ret, Current)
     IN /\ ~Missing(rows)
        /\ \E fk \in LinkValues(work, ret, Current.link), id \in FirstId(rows) :
             /\ work' = Assign(work, rows, Current.val, Current.link.src, fk)
             /\ Advance(id)
  /\ UNCHANGED <<db, phase, req, plan, reply, served>>

RunDelete ==
  /\ Running("delete")
  /\ LET rows   == Affected(work, ret, Current)
         doomed == Doomed(work, rows)
     IN /\ ~Missing(rows) /\ ~RestrictBlocks(work, doomed)
        /\ work' = DeleteRows(work, doomed)
        /\ \E id \in FirstId(rows) : Advance(id)
  /\ UNCHANGED <<db, phase, req, plan, reply, served>>

\* An error drops the transaction and with it everything the plan did.
Rollback(status) ==
  /\ phase' = "idle" /\ work' = db /\ ret' = <<>> /\ reply' = status
  /\ req' = NoRequest /\ plan' = <<>>
  /\ UNCHANGED <<db, served>>

\* Strict target verification: "Record not found" for a query (404), "Scoped
\* Security Violation" for a branch (400).
StepMisses ==
  /\ Running("update") \/ Running("delete")
  /\ Missing(Affected(work, ret, Current))
  /\ Rollback(IF Current.kind = "branch" THEN "scope" ELSE "not_found")

\* The statement does not prepare or bind, or ON DELETE RESTRICT stops it.
StepFails ==
  /\ phase = "running" /\ Len(ret) < Len(plan)
  /\ \/ Current.broken
     \/ /\ Current.verb = "delete"
        /\ RestrictBlocks(work, Doomed(work, Affected(work, ret, Current)))
  /\ Rollback("error")

\* (Mutant: a connection without PRAGMA foreign_keys = ON.)
CommitUnchecked ==
  /\ phase = "running" /\ Len(ret) = Len(plan)
  /\ db' = work /\ phase' = "committed"
  /\ UNCHANGED <<work, req, plan, ret, reply, served>>

\* Deferred foreign keys are checked here.
Commit ==
  /\ phase = "running" /\ Len(ret) = Len(plan)
  /\ FkConsistent(work)
  /\ db' = work /\ phase' = "committed"
  /\ UNCHANGED <<work, req, plan, ret, reply, served>>

Answer ==
  /\ phase = "committed"
  /\ phase' = "idle" /\ req' = NoRequest /\ plan' = <<>> /\ ret' = <<>> /\ reply' = "ok"
  /\ UNCHANGED <<db, work, served>>

CommitFails ==
  /\ phase = "running" /\ Len(ret) = Len(plan)
  /\ ~FkConsistent(work)
  /\ Rollback("error")

\* The process dies, before or after COMMIT; SQLite's journal keeps what was
\* committed and the client hears nothing.
Crash ==
  /\ phase # "idle"
  /\ Rollback("none")

\* No request is left to serve.
Rest ==
  /\ phase = "idle" /\ served = MaxRequests
  /\ UNCHANGED vars

RunStep == RunInsert \/ RunInsertSelect \/ RunUpdate \/ RunDelete

Next ==
  \/ Receive \/ Refuse \/ Begin
  \/ RunStep \/ StepMisses \/ StepFails
  \/ Commit \/ CommitFails \/ Answer \/ Crash \/ Rest

Spec == Init /\ [][Next]_vars

(***************************************************************************)
(* Properties                                                              *)
(***************************************************************************)

\* No committed state has a dangling or ill-typed reference, whatever the
\* plans do in between (deferred foreign keys, create_pool's pragma).
ReferentialIntegrity == FkConsistent(db)

\* What a delete takes along stays within tables no NO ACTION constraint
\* refers to.
DeletesCleanly(t) ==
  \E K \in SUBSET Table :
    /\ t \in K
    /\ \A x \in Table :
         Target[x] \in K => /\ OnDelete[x] # "NO ACTION"
                            /\ OnDelete[x] = "CASCADE" => x \in K

Harmless(s) ==
  IF s.verb = "delete" THEN DeletesCleanly(s.table) ELSE s.link.src \in {"keep", "null"}

\* COMMIT refuses a transaction only if one of its statements set a link or
\* deleted from under a NO ACTION constraint: scalar updates, disconnects and
\* deletes over CASCADE, SET NULL and RESTRICT constraints, in any number and
\* order, never end in a constraint error after all of them succeeded
\* (executor.rs runs them one by one with the constraints deferred).
CommitFailsForCause ==
  [][phase = "running" /\ Len(ret) = Len(plan) /\ reply' = "error"
       => \E i \in DOMAIN plan : ~Harmless(plan[i])]_vars
=============================================================================
