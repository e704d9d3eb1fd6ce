-------------------------- MODULE PlanExecutorProofs --------------------------
(***************************************************************************)
(* Proofs about the executor, for every schema, every translator whose     *)
(* plans are well formed and every set of requests.                        *)
(***************************************************************************)
EXTENDS PlanExecutor, TLAPS

(***************************************************************************)
(* Statements map databases to databases.                                  *)
(***************************************************************************)
LEMMA GoneIsCell == Gone \in Cell
BY DEF Gone, Cell

\* An insert leaves a database.
LEMMA InsertType ==
  ASSUME NEW d \in Database, NEW rows, NEW val \in Val \cup {Null, Keep},
         NEW fkOf, \A r \in rows : fkOf[r] \in Row \cup {Null, NoId}
  PROVE  Insert(d, rows, val, fkOf) \in Database
<1> SUFFICES ASSUME NEW r \in Row
             PROVE  (IF r \in rows
                     THEN [live |-> TRUE, fk |-> fkOf[r], val |-> IF val = Keep THEN Null ELSE val]
                     ELSE d[r]) \in Cell
  BY DEF Insert, Database
<1>1. CASE r \in rows
  BY <1>1 DEF Cell
<1>2. CASE r \notin rows
  BY <1>2 DEF Database
<1> QED BY <1>1, <1>2

\* So does an update,
LEMMA AssignType ==
  ASSUME NEW d \in Database, NEW rows, NEW val \in Val \cup {Null, Keep},
         NEW src, NEW fk \in Row \cup {Null, NoId}
  PROVE  Assign(d, rows, val, src, fk) \in Database
<1> SUFFICES ASSUME NEW r \in Row
             PROVE  (IF r \in rows
                     THEN [d[r] EXCEPT !.val = IF val = Keep THEN @ ELSE val,
                                       !.fk  = IF src = "keep" THEN @ ELSE fk]
                     ELSE d[r]) \in Cell
  BY DEF Assign, Database
<1>1. d[r] \in Cell
  BY DEF Database
<1>2. CASE r \in rows
  BY <1>1, <1>2 DEF Cell
<1> QED BY <1>1, <1>2

\* and a delete.
LEMMA DeleteType ==
  ASSUME NEW d \in Database, NEW doomed
  PROVE  DeleteRows(d, doomed) \in Database
<1> SUFFICES ASSUME NEW r \in Row
             PROVE  (IF r \in doomed THEN Gone
                     ELSE IF /\ d[r].live
                             /\ OnDelete[TableOf[r]] = "SET NULL"
                             /\ d[r].fk \in doomed
                          THEN [d[r] EXCEPT !.fk = Null]
                          ELSE d[r]) \in Cell
  BY DEF DeleteRows, Database
<1>1. d[r] \in Cell
  BY DEF Database
<1> QED BY <1>1, GoneIsCell DEF Cell

\* What a selection finds are rows,
LEMMA SelectedAreRows ==
  ASSUME NEW d, NEW sel
  PROVE  Selected(d, sel) \subseteq Row
BY DEF Selected, Live

\* and so is what a step touches.
LEMMA AffectedAreRows ==
  ASSUME NEW d, NEW r0, NEW s
  PROVE  Affected(d, r0, s) \subseteq Row
BY DEF Affected, RowsOf, Live

(***************************************************************************)
(* Type correctness.  The plan's links must be known to refer to steps     *)
(* that have run: TypeOK alone is not inductive.                           *)
(***************************************************************************)
TypeInv == TypeOK /\ WellFormed(plan)

\* The step to run is one of the plan, and its link refers to a step that has run.
LEMMA CurrentStep ==
  ASSUME TypeInv, Len(ret) < Len(plan)
  PROVE  /\ Current \in Step
         /\ Current.link.src = "step" => Current.link.ref \in 1..Len(ret)
         /\ Current.link.src = "literal" => Current.link.where.key \in Row
BY DEF TypeInv, TypeOK, WellFormed, Current

\* The value a link stands for is an id, NULL or the id of no row.
LEMMA LinkType ==
  ASSUME TypeInv, Len(ret) < Len(plan), NEW fk \in LinkValues(work, ret, Current.link)
  PROVE  fk \in Row \cup {Null, NoId}
<1> DEFINE l == Current.link
<1>1. CASE l.src = "step"
  <2>1. fk = ret[l.ref]
    BY <1>1 DEF LinkValues
  <2> QED BY <1>1, <2>1, CurrentStep DEF TypeInv, TypeOK
<1>2. CASE l.src = "literal"
  BY <1>2, CurrentStep DEF LinkValues
<1>3. CASE l.src = "select"
  <2> DEFINE hits == {c \in RowsOf(work, l.table) : Matches(work, c, l.where)}
  <2>1. fk \in (IF hits = {} THEN {Null} ELSE hits)
    BY <1>3 DEF LinkValues
  <2>2. hits \subseteq Row
    BY DEF RowsOf, Live
  <2> QED BY <2>1, <2>2
<1>4. CASE l.src \notin {"step", "literal", "select"}
  BY <1>4 DEF LinkValues
<1> QED BY <1>1, <1>2, <1>3, <1>4

\* The id a step returns.
LEMMA FirstIdType ==
  ASSUME NEW rows \in SUBSET Row, NEW id \in FirstId(rows)
  PROVE  id \in Row \cup {NoId}
BY DEF FirstId

\* A rollback.
LEMMA RollbackType ==
  ASSUME TypeInv, NEW status \in Status, Rollback(status)
  PROVE  TypeInv'
BY DEF TypeInv, TypeOK, WellFormed, Rollback

\* The first state.
LEMMA InitType == Init => TypeInv
<1> SUFFICES ASSUME Init PROVE TypeInv
  OBVIOUS
<1>1. db \in Database /\ work \in Database
  BY SeedAssumption DEF Init
<1>2. plan \in Seq(Step) /\ ret \in Seq(Row \cup {NoId}) /\ WellFormed(plan)
  BY DEF Init, WellFormed
<1> QED BY <1>1, <1>2 DEF Init, TypeInv, TypeOK, Status

\* Each step keeps the types.
LEMMA NextType == TypeInv /\ [Next]_vars => TypeInv'
<1> SUFFICES ASSUME TypeInv, [Next]_vars PROVE TypeInv'
  OBVIOUS
<1> USE DEF TypeInv, TypeOK, Status
<1>1. CASE Receive
  BY <1>1, PlanAssumption DEF Receive
<1>2. CASE Refuse
  BY <1>2 DEF Refuse
<1>3. CASE Begin
  <2>1. req \in Request
    BY <1>3, PlanAssumption DEF Begin
  <2>2. plan' \in Seq(Step) /\ WellFormed(plan')
    BY <1>3, <2>1, PlanAssumption DEF Begin
  <2> QED BY <1>3, <2>1, <2>2, PlanAssumption DEF Begin, WellFormed
<1>4. CASE RunInsert
  <2>1. PICK r \in Fresh(Current.table), fk \in LinkValues(work, ret, Current.link) :
             /\ work' = Insert(work, {r}, Current.val, [x \in Row |-> fk])
             /\ Advance(r)
    BY <1>4 DEF RunInsert
  <2>2. Len(ret) < Len(plan)
    BY <1>4 DEF RunInsert, Running
  <2>3. r \in Row
    BY RowAssumption DEF Fresh
  <2>4. fk \in Row \cup {Null, NoId}
    BY <2>2, LinkType
  <2>5. Current.val \in Val \cup {Null, Keep}
    BY <2>2, CurrentStep DEF Step
  <2>6. work' \in Database
    BY <2>1, <2>3, <2>4, <2>5, InsertType
  <2>7. ret' \in Seq(Row \cup {NoId})
    BY <2>1, <2>3 DEF Advance
  <2> QED BY <1>4, <2>6, <2>7 DEF RunInsert, WellFormed
<1>5. CASE RunInsertSelect
  <2> DEFINE parents == Selected(work, Current.scope.sel)
  <2>0. PICK new \in SUBSET Fresh(Current.table) :
             \E owner \in [new -> parents] :
               /\ work' = Insert(work, new, Current.val, owner)
               /\ \E id \in FirstId(new) : Advance(id)
    BY <1>5 DEF RunInsertSelect
  <2>1. PICK owner \in [new -> parents] :
             /\ work' = Insert(work, new, Current.val, owner)
             /\ \E id \in FirstId(new) : Advance(id)
    BY <2>0
  <2>2. Len(ret) < Len(plan)
    BY <1>5 DEF RunInsertSelect, Running
  <2>3. new \subseteq Row
    BY RowAssumption DEF Fresh
  <2>4. parents \subseteq Row
    BY SelectedAreRows
  <2>5. Current.val \in Val \cup {Null, Keep}
    BY <2>2, CurrentStep DEF Step
  <2>6. work' \in Database
    BY <2>1, <2>4, <2>5, InsertType
  <2>7. ret' \in Seq(Row \cup {NoId})
    BY <2>1, <2>3, FirstIdType DEF Advance
  <2> QED BY <1>5, <2>6, <2>7 DEF RunInsertSelect, WellFormed
<1>6. CASE RunUpdate
  <2> DEFINE rows == Affected(work, ret, Current)
  <2>1. PICK fk \in LinkValues(work, ret, Current.link), id \in FirstId(rows) :
             /\ work' = Assign(work, rows, Current.val, Current.link.src, fk)
             /\ Advance(id)
    BY <1>6 DEF RunUpdate
  <2>2. Len(ret) < Len(plan)
    BY <1>6 DEF RunUpdate, Running
  <2>3. rows \subseteq Row
    BY AffectedAreRows
  <2>4. fk \in Row \cup {Null, NoId}
    BY <2>2, LinkType
  <2>5. Current.val \in Val \cup {Null, Keep}
    BY <2>2, CurrentStep DEF Step
  <2>6. work' \in Database
    BY <2>1, <2>4, <2>5, AssignType
  <2>7. ret' \in Seq(Row \cup {NoId})
    BY <2>1, <2>3, FirstIdType DEF Advance
  <2> QED BY <1>6, <2>6, <2>7 DEF RunUpdate, WellFormed
<1>7. CASE RunDelete
  <2> DEFINE rows == Affected(work, ret, Current)
  <2>1. work' = DeleteRows(work, Doomed(work, rows))
    BY <1>7 DEF RunDelete
  <2>2. PICK id \in FirstId(rows) : Advance(id)
    BY <1>7 DEF RunDelete
  <2>3. rows \subseteq Row
    BY AffectedAreRows
  <2>4. work' \in Database
    BY <2>1, DeleteType
  <2>5. ret' \in Seq(Row \cup {NoId})
    BY <2>2, <2>3, FirstIdType DEF Advance
  <2> QED BY <1>7, <2>4, <2>5 DEF RunDelete, WellFormed
<1>8. CASE StepMisses
  BY <1>8, RollbackType DEF StepMisses
<1>9. CASE StepFails
  BY <1>9, RollbackType DEF StepFails
<1>10. CASE Commit
  BY <1>10, PlanAssumption DEF Commit, WellFormed
<1>11. CASE CommitFails
  BY <1>11, RollbackType DEF CommitFails
<1>12. CASE Answer
  BY <1>12 DEF Answer, WellFormed
<1>13. CASE Crash
  BY <1>13, RollbackType DEF Crash
<1>14. CASE Rest \/ UNCHANGED vars
  BY <1>14 DEF Rest, vars, WellFormed
<1> QED BY <1>1, <1>2, <1>3, <1>4, <1>5, <1>6, <1>7, <1>8, <1>9, <1>10, <1>11,
           <1>12, <1>13, <1>14 DEF Next, RunStep

\* Every variable keeps its type; in particular no step is ever executed with
\* a reference to a step that has not returned (executor.rs, resolve_params).
THEOREM TypeCorrect == Spec => []TypeOK
<1>1. TypeInv => TypeOK
  BY DEF TypeInv
<1> QED BY <1>1, InitType, NextType, PTL DEF Spec

(***************************************************************************)
(* Foreign keys.  Each statement but one that sets a link keeps a          *)
(* consistent database consistent.                                         *)
(***************************************************************************)
LEMMA DoomedProperties ==
  ASSUME NEW d \in Database, NEW rows \in SUBSET Live(d)
  PROVE  /\ Doomed(d, rows) \subseteq Live(d)
         /\ CascadeClosed(d, Doomed(d, rows))
         /\ \A S \in SUBSET Live(d) :
              rows \subseteq S /\ CascadeClosed(d, S) => Doomed(d, rows) \subseteq S
<1>1. Doomed(d, rows) \subseteq Live(d)
  BY DEF Doomed
<1>2. ASSUME NEW S \in SUBSET Live(d), rows \subseteq S, CascadeClosed(d, S)
      PROVE  Doomed(d, rows) \subseteq S
  BY <1>2 DEF Doomed
<1>3. ASSUME NEW r \in Live(d), OnDelete[TableOf[r]] = "CASCADE",
             d[r].fk \in Doomed(d, rows)
      PROVE  r \in Doomed(d, rows)
  <2>1. ASSUME NEW S \in SUBSET Live(d), rows \subseteq S, CascadeClosed(d, S)
        PROVE  r \in S
    BY <1>2, <1>3, <2>1 DEF CascadeClosed
  <2> QED BY <2>1 DEF Doomed
<1> QED BY <1>1, <1>2, <1>3 DEF CascadeClosed

\* A delete over CASCADE, SET NULL and RESTRICT constraints leaves no dangling
\* reference, however deep it cascades (mutation_translator.rs leaves all of it
\* to the constraints lower_ast_to_physical emits).
THEOREM DeleteKeepsIntegrity ==
  ASSUME NEW d \in Database, FkConsistent(d),
         NEW t \in Table, DeletesCleanly(t),
         NEW rows \in SUBSET RowsOf(d, t),
         ~RestrictBlocks(d, Doomed(d, rows))
  PROVE  FkConsistent(DeleteRows(d, Doomed(d, rows)))
<1> DEFINE doomed == Doomed(d, rows)
           e == DeleteRows(d, doomed)
<1>1. rows \subseteq Live(d)
  BY DEF RowsOf
<1>2. PICK K \in SUBSET Table :
           /\ t \in K
           /\ \A x \in Table :
                Target[x] \in K => /\ OnDelete[x] # "NO ACTION"
                                   /\ OnDelete[x] = "CASCADE" => x \in K
  BY DEF DeletesCleanly
<1>9. ASSUME NEW x \in Table, Target[x] \in K
      PROVE  OnDelete[x] \in {"CASCADE", "SET NULL", "RESTRICT"}
  <2>1. OnDelete[x] # "NO ACTION"
    BY <1>2, <1>9
  <2> QED BY <2>1, SchemaAssumption
<1> DEFINE S == {r \in Live(d) : TableOf[r] \in K}
<1>3. doomed \subseteq S
  <2>1. rows \subseteq S
    BY <1>2 DEF RowsOf
  <2>2. ASSUME NEW r \in Live(d), OnDelete[TableOf[r]] = "CASCADE", d[r].fk \in S
        PROVE  r \in S
    <3>1. d[r].fk # Null
      BY <2>2, RowAssumption DEF Live
    <3>2. TableOf[d[r].fk] = Target[TableOf[r]]
      BY <3>1 DEF FkConsistent, References
    <3>3. TableOf[r] \in Table
      BY RowAssumption DEF Live
    <3> QED BY <1>2, <2>2, <3>2, <3>3
  <2>3. CascadeClosed(d, S)
    BY <2>2 DEF CascadeClosed
  <2> QED BY <1>1, <2>1, <2>3, DoomedProperties
<1>4. SUFFICES ASSUME NEW r \in Live(e), e[r].fk # Null
               PROVE  References(e, r, e[r].fk)
  BY DEF FkConsistent
<1>5. r \in Live(d) /\ r \notin doomed /\ e[r] = d[r]
  <2>1. r \in Row /\ e[r].live
    BY DEF Live
  <2>2. r \notin doomed
    BY <2>1 DEF DeleteRows, Gone
  <2>3. d[r] \in Cell
    BY <2>1 DEF Database
  <2>4. e[r] = IF /\ d[r].live
                  /\ OnDelete[TableOf[r]] = "SET NULL"
                  /\ d[r].fk \in doomed
               THEN [d[r] EXCEPT !.fk = Null]
               ELSE d[r]
    BY <2>1, <2>2 DEF DeleteRows
  <2>5. e[r] = d[r]
    BY <1>4, <2>3, <2>4 DEF Cell
  <2> QED BY <2>1, <2>2, <2>5 DEF Live
<1>6. References(d, r, d[r].fk)
  BY <1>4, <1>5 DEF FkConsistent
<1>7. d[r].fk \notin doomed
  <2>1. TableOf[r] \in Table /\ Target[TableOf[r]] = TableOf[d[r].fk]
    BY <1>5, <1>6, RowAssumption DEF References, Live
  <2>2. SUFFICES ASSUME d[r].fk \in doomed PROVE FALSE
    OBVIOUS
  <2>3. OnDelete[TableOf[r]] \in {"CASCADE", "SET NULL", "RESTRICT"}
    <3>1. Target[TableOf[r]] \in K
      BY <1>3, <2>1, <2>2
    <3> QED BY <1>9, <2>1, <3>1
  <2>4. CASE OnDelete[TableOf[r]] = "CASCADE"
    BY <1>1, <1>5, <2>2, <2>4, DoomedProperties DEF CascadeClosed
  <2>5. CASE OnDelete[TableOf[r]] = "SET NULL"
    <3>1. e[r] = [d[r] EXCEPT !.fk = Null]
      BY <1>5, <2>2, <2>5 DEF DeleteRows, Live
    <3>2. d[r] \in Cell
      BY <1>5 DEF Database, Live
    <3> QED BY <1>4, <3>1, <3>2 DEF Cell
  <2>6. CASE OnDelete[TableOf[r]] = "RESTRICT"
    BY <1>5, <2>2, <2>6 DEF RestrictBlocks
  <2> QED BY <2>3, <2>4, <2>5, <2>6
<1>8. d[r].fk \in Live(e)
  <2>1. d[r].fk \in Row /\ d[d[r].fk].live
    BY <1>6 DEF References, Live
  <2>2. d[d[r].fk] \in Cell
    BY <2>1 DEF Database
  <2>3. e[d[r].fk].live
    BY <1>7, <2>1, <2>2 DEF DeleteRows, Cell
  <2> QED BY <2>1, <2>3 DEF Live
<1> QED BY <1>5, <1>6, <1>8 DEF References

\* An insert without a foreign key refers to nothing new.
LEMMA UnlinkedInsertKeepsIntegrity ==
  ASSUME NEW d \in Database, FkConsistent(d),
         NEW r0 \in Row, ~d[r0].live, NEW val \in Val \cup {Null, Keep}
  PROVE  FkConsistent(Insert(d, {r0}, val, [x \in Row |-> Null]))
<1> DEFINE e == Insert(d, {r0}, val, [x \in Row |-> Null])
<1> SUFFICES ASSUME NEW r \in Live(e), e[r].fk # Null
             PROVE  References(e, r, e[r].fk)
  BY DEF FkConsistent
<1>1. r \in Row
  BY DEF Live
<1>2. r # r0
  BY <1>1 DEF Insert
<1>3. e[r] = d[r] /\ r \in Live(d)
  BY <1>1, <1>2 DEF Insert, Live
<1>4. References(d, r, d[r].fk)
  BY <1>3 DEF FkConsistent
<1>5. d[r].fk \in Live(e)
  <2>1. d[r].fk \in Row /\ d[d[r].fk].live
    BY <1>4 DEF References, Live
  <2>2. e[d[r].fk] = d[d[r].fk]
    BY <2>1 DEF Insert
  <2> QED BY <2>1, <2>2 DEF Live
<1> QED BY <1>3, <1>4, <1>5 DEF References

\* An update that keeps or clears foreign keys refers to nothing new.
LEMMA UnlinkingUpdateKeepsIntegrity ==
  ASSUME NEW d \in Database, FkConsistent(d),
         NEW rows \in SUBSET Live(d), NEW val \in Val \cup {Null, Keep},
         NEW src \in {"keep", "null"}
  PROVE  FkConsistent(Assign(d, rows, val, src, Null))
<1> DEFINE e == Assign(d, rows, val, src, Null)
<1>1. ASSUME NEW r \in Row
      PROVE  e[r].live = d[r].live /\ e[r].fk \in {d[r].fk, Null}
  <2>1. d[r] \in Cell
    BY DEF Database
  <2>2. CASE r \in rows
    <3>1. e[r] = [d[r] EXCEPT !.val = IF val = Keep THEN @ ELSE val,
                              !.fk  = IF src = "keep" THEN @ ELSE Null]
      BY <2>2 DEF Assign
    <3> QED BY <2>1, <3>1 DEF Cell
  <2>3. CASE r \notin rows
    BY <2>3 DEF Assign
  <2> QED BY <2>2, <2>3
<1>2. Live(e) = Live(d)
  BY <1>1 DEF Live
<1> SUFFICES ASSUME NEW r \in Live(e), e[r].fk # Null
             PROVE  References(e, r, e[r].fk)
  BY DEF FkConsistent
<1>3. r \in Live(d) /\ e[r].fk = d[r].fk
  BY <1>1, <1>2 DEF Live
<1> QED BY <1>2, <1>3 DEF FkConsistent, References

(***************************************************************************)
(* The inductive invariant: the committed database is consistent, so is    *)
(* the transaction's view as long as only harmless statements have run,    *)
(* and there is no answer before the end.                                  *)
(***************************************************************************)
HarmlessSoFar == \A i \in 1..Len(ret) : Harmless(plan[i])

IInv ==
  /\ TypeInv
  /\ FkConsistent(db)
  /\ phase = "running" /\ HarmlessSoFar => FkConsistent(work)
  /\ phase # "idle" => reply = "none"

\* What a statement that succeeds does to an inconsistency of its own.
LEMMA HarmlessBefore ==
  ASSUME TypeInv, Len(ret) < Len(plan), NEW id, Advance(id), plan' = plan, HarmlessSoFar'
  PROVE  HarmlessSoFar /\ Harmless(Current)
<1>1. Len(ret') = Len(ret) + 1
  BY DEF Advance, TypeInv, TypeOK
<1>2. Len(ret) \in Nat /\ Len(ret) + 1 \in 1..Len(ret')
  BY <1>1 DEF TypeInv, TypeOK
<1>3. \A i \in 1..Len(ret') : Harmless(plan[i])
  BY DEF HarmlessSoFar, Harmless, DeletesCleanly
<1> QED BY <1>1, <1>2, <1>3 DEF HarmlessSoFar, Current

\* What such a link stands for is NULL.
LEMMA UnlinkedValue ==
  ASSUME NEW l, l.src \in {"keep", "null"}, NEW fk \in LinkValues(work, ret, l)
  PROVE  fk = Null
BY DEF LinkValues

\* Each step keeps the foreign keys consistent while the plan is harmless.
LEMMA NextIntegrity == IInv /\ [Next]_vars => IInv'
<1> SUFFICES ASSUME IInv, [Next]_vars PROVE IInv'
  OBVIOUS
<1>0. TypeInv'
  BY NextType DEF IInv
<1>a. phase' # "idle" => reply' = "none"
  BY DEF IInv, Next, RunStep, Receive, Refuse, Begin, RunInsert, RunInsertSelect, RunUpdate,
         RunDelete, StepMisses, StepFails, Commit, CommitFails, Answer, Crash, Rest,
         Rollback, vars
<1> SUFFICES FkConsistent(db)' /\ (phase' = "running" /\ HarmlessSoFar' => FkConsistent(work)')
  BY <1>0, <1>a DEF IInv
<1> USE DEF IInv
<1>1. CASE Receive \/ Refuse
  BY <1>1 DEF Receive, Refuse, FkConsistent, Live, References
<1>2. CASE Begin
  BY <1>2 DEF Begin, FkConsistent, Live, References
<1>3. CASE RunInsert
  <2>1. db' = db /\ plan' = plan /\ phase = "running" /\ Len(ret) < Len(plan)
    BY <1>3 DEF RunInsert, Running
  <2>2. SUFFICES ASSUME HarmlessSoFar' PROVE FkConsistent(work')
    BY <2>1 DEF FkConsistent, Live, References
  <2>3. PICK r \in Fresh(Current.table), fk \in LinkValues(work, ret, Current.link) :
             /\ work' = Insert(work, {r}, Current.val, [x \in Row |-> fk])
             /\ Advance(r)
    BY <1>3 DEF RunInsert
  <2>4. HarmlessSoFar /\ Harmless(Current)
    BY <2>1, <2>2, <2>3, HarmlessBefore
  <2>5. fk = Null
    BY <1>3, <2>3, <2>4, UnlinkedValue DEF Harmless, RunInsert, Running
  <2>6. r \in Row /\ ~work[r].live /\ Current.val \in Val \cup {Null, Keep}
    BY <2>1, CurrentStep, RowAssumption DEF Fresh, Step
  <2>7. work \in Database /\ FkConsistent(work)
    BY <2>1, <2>4 DEF TypeInv, TypeOK
  <2> QED BY <2>3, <2>5, <2>6, <2>7, UnlinkedInsertKeepsIntegrity
<1>4. CASE RunInsertSelect
  <2>1. db' = db /\ plan' = plan /\ Len(ret) < Len(plan)
    BY <1>4 DEF RunInsertSelect, Running
  <2>2. PICK id : Advance(id)
    BY <1>4 DEF RunInsertSelect
  <2>3. ~Harmless(Current)
    BY <1>4 DEF RunInsertSelect, Running, Harmless
  <2>4. ~HarmlessSoFar'
    BY <2>1, <2>2, <2>3, HarmlessBefore
  <2> QED BY <2>1, <2>4 DEF FkConsistent, Live, References
<1>5. CASE RunUpdate
  <2> DEFINE rows == Affected(work, ret, Current)
  <2>1. db' = db /\ plan' = plan /\ phase = "running" /\ Len(ret) < Len(plan)
    BY <1>5 DEF RunUpdate, Running
  <2>2. SUFFICES ASSUME HarmlessSoFar' PROVE FkConsistent(work')
    BY <2>1 DEF FkConsistent, Live, References
  <2>3. PICK fk \in LinkValues(work, ret, Current.link), id \in FirstId(rows) :
             /\ work' = Assign(work, rows, Current.val, Current.link.src, fk)
             /\ Advance(id)
    BY <1>5 DEF RunUpdate
  <2>4. HarmlessSoFar /\ Harmless(Current)
    BY <2>1, <2>2, <2>3, HarmlessBefore
  <2>5. Current.link.src \in {"keep", "null"}
    BY <1>5, <2>4 DEF Harmless, RunUpdate, Running
  <2>6. fk = Null
    BY <2>3, <2>5, UnlinkedValue
  <2>7. rows \subseteq Live(work) /\ Current.val \in Val \cup {Null, Keep}
    BY <2>1, CurrentStep DEF Step, Affected, RowsOf
  <2>8. work \in Database /\ FkConsistent(work)
    BY <2>1, <2>4 DEF TypeInv, TypeOK
  <2> QED BY <2>3, <2>5, <2>6, <2>7, <2>8, UnlinkingUpdateKeepsIntegrity
<1>6. CASE RunDelete
  <2> DEFINE rows == Affected(work, ret, Current)
  <2>1. db' = db /\ plan' = plan /\ phase = "running" /\ Len(ret) < Len(plan)
    BY <1>6 DEF RunDelete, Running
  <2>2. SUFFICES ASSUME HarmlessSoFar' PROVE FkConsistent(work')
    BY <2>1 DEF FkConsistent, Live, References
  <2>3. /\ ~RestrictBlocks(work, Doomed(work, rows))
        /\ work' = DeleteRows(work, Doomed(work, rows))
    BY <1>6 DEF RunDelete
  <2>4. PICK id \in FirstId(rows) : Advance(id)
    BY <1>6 DEF RunDelete
  <2>5. HarmlessSoFar /\ Harmless(Current)
    BY <2>1, <2>2, <2>4, HarmlessBefore
  <2>6. DeletesCleanly(Current.table)
    BY <1>6, <2>5 DEF Harmless, RunDelete, Running
  <2>7. rows \subseteq RowsOf(work, Current.table) /\ Current.table \in Table
    BY <2>1, CurrentStep DEF Step, Affected
  <2>8. work \in Database /\ FkConsistent(work)
    BY <2>1, <2>5 DEF TypeInv, TypeOK
  <2> QED BY <2>3, <2>6, <2>7, <2>8, DeleteKeepsIntegrity
<1>7. CASE StepMisses \/ StepFails \/ CommitFails \/ Crash
  BY <1>7 DEF StepMisses, StepFails, CommitFails, Crash, Rollback, FkConsistent, Live, References
<1>8. CASE Commit
  BY <1>8 DEF Commit, FkConsistent, Live, References
<1>9. CASE Answer \/ Rest \/ UNCHANGED vars
  BY <1>9 DEF Answer, Rest, vars, FkConsistent, Live, References, HarmlessSoFar, Harmless, DeletesCleanly
<1> QED BY <1>1, <1>2, <1>3, <1>4, <1>5, <1>6, <1>7, <1>8, <1>9 DEF Next, RunStep

\* They are consistent in the first state.
LEMMA InitIntegrity == Init => IInv
<1> SUFFICES ASSUME Init PROVE IInv
  OBVIOUS
<1>1. FkConsistent(db) /\ phase = "idle"  \* nothing runs, nothing was answered
  BY SeedAssumption DEF Init
<1> QED BY <1>1, InitType DEF IInv

\* The committed database never holds a dangling or ill-typed reference,
\* whatever the plans do (deferred foreign keys, db.rs create_pool).
THEOREM IntegrityKept == Spec => []ReferentialIntegrity
<1>1. IInv => ReferentialIntegrity
  BY DEF IInv, ReferentialIntegrity
<1> QED BY <1>1, InitIntegrity, NextIntegrity, PTL DEF Spec

\* A mutation whose statements set no link and delete from under no NO ACTION
\* constraint never fails at COMMIT.
THEOREM CommitFailureHasCause == Spec => CommitFailsForCause
<1> DEFINE A == phase = "running" /\ Len(ret) = Len(plan) /\ reply' = "error"
                  => \E i \in DOMAIN plan : ~Harmless(plan[i])
<1>1. IInv /\ [Next]_vars => [A]_vars
  <2> SUFFICES ASSUME IInv, Next, phase = "running", Len(ret) = Len(plan), reply' = "error"
               PROVE  \E i \in DOMAIN plan : ~Harmless(plan[i])
    OBVIOUS
  <2>1. reply \in Status /\ plan \in Seq(Step)
    BY DEF IInv, TypeInv, TypeOK
  <2>2. ~FkConsistent(work)
    BY DEF IInv, Next, RunStep, Receive, Refuse, Begin, RunInsert, RunInsertSelect, RunUpdate,
           RunDelete, Running, StepMisses, StepFails, Commit, CommitFails, Answer, Crash,
           Rest, Rollback
  <2>3. ~HarmlessSoFar
    BY <2>2 DEF IInv
  <2> QED BY <2>1, <2>3 DEF HarmlessSoFar
<1> QED BY <1>1, InitIntegrity, NextIntegrity, PTL DEF Spec, CommitFailsForCause
=============================================================================
