--------------------------- MODULE MigrationScripts ---------------------------
(***************************************************************************)
(* Lemmas about the differ: the operations it returns, their order, the    *)
(* scripts they become, and that these run and reach the schema.           *)
(***************************************************************************)
EXTENDS MigrationLemmas

(***************************************************************************)
(* Good scripts: written for the schema d, with every column that a        *)
(* rebuild can copy from the database db in its list, and with the pragmas *)
(* in their places.                                                        *)
(***************************************************************************)
Fits(d, db, s) ==
  /\ Writes(d, s)
  /\ s.kind = "RebuildTable" =>
       \A c \in DOMAIN d[s.table].columns :
         s.table \in DOMAIN db.table /\ c \in DOMAIN db.table[s.table].columns => c \in s.arg.keep

Good(d, db, p) ==
  /\ Listed(p) /\ \A i \in DOMAIN p : Fits(d, db, p[i])
  /\ Paired(p) /\ Sheltered(p, TRUE)

\* A good script after another.
LEMMA GoodConcat ==
  ASSUME NEW d, NEW db, NEW a, Good(d, db, a), NEW b, Good(d, db, b)
  PROVE  Good(d, db, a \o b)
<1> DEFINE p == a \o b
           n == Len(a)
<1>0. Joined(p, a, b)
  BY ListedConcat DEF Good
<1> HIDE DEF p
<1>1. /\ Listed(p) /\ n \in Nat /\ Len(b) \in Nat
      /\ DOMAIN a = 1 .. n /\ DOMAIN b = 1 .. Len(b)
      /\ Len(p) = n + Len(b) /\ DOMAIN p = 1 .. n + Len(b)
      /\ \A i \in DOMAIN a : i \in DOMAIN p /\ p[i] = a[i]
      /\ \A i \in DOMAIN b : n + i \in DOMAIN p /\ p[n + i] = b[i]
      /\ \A k \in DOMAIN p :
           IF k \in DOMAIN a THEN p[k] = a[k]
           ELSE k - n \in DOMAIN b /\ p[k] = b[k - n]
  BY <1>0 DEF Joined
<1> HIDE DEF n
<1>2. \A k \in DOMAIN p : Fits(d, db, p[k])
  BY <1>1 DEF Good
<1>3. ASSUME NEW k \in DOMAIN p
      PROVE  /\ p[k].kind = "ForeignKeysOff" => k < Len(p) /\ p[k + 1].kind = "RebuildTable"
             /\ p[k].kind = "RebuildTable" =>
                  /\ k < Len(p) /\ p[k + 1].kind = "ForeignKeysOn"
                  /\ k > 1 /\ p[k - 1].kind = "ForeignKeysOff"
  <2>1. CASE k \in DOMAIN a
    <3>1. p[k] = a[k] /\ k < n => p[k + 1] = a[k + 1]
      BY <1>1, <2>1
    <3>2. k > 1 => p[k - 1] = a[k - 1]
      BY <1>1, <2>1
    <3>3. /\ a[k].kind = "ForeignKeysOff" => k < Len(a) /\ a[k + 1].kind = "RebuildTable"
          /\ a[k].kind = "RebuildTable" =>
               /\ k < Len(a) /\ a[k + 1].kind = "ForeignKeysOn"
               /\ k > 1 /\ a[k - 1].kind = "ForeignKeysOff"
      BY <2>1 DEF Good, Paired, Sheltered
    <3>4. k < n => k < Len(p) /\ p[k + 1] = a[k + 1]
      BY <1>1, <2>1
    <3> QED BY <1>1, <2>1, <3>2, <3>3, <3>4 DEF n
  <2>2. CASE k \notin DOMAIN a
    <3> DEFINE j == k - n
    <3>1. j \in DOMAIN b /\ p[k] = b[j] /\ k \in Nat /\ k = n + j
      BY <1>1, <2>2
    <3> HIDE DEF j
    <3>2. j < Len(b) => k < Len(p) /\ p[k + 1] = b[j + 1]
      <4>1. ASSUME j < Len(b) PROVE j + 1 \in DOMAIN b /\ k + 1 = n + (j + 1) /\ k < Len(p)
        BY <1>1, <3>1, <4>1
      <4> QED BY <1>1, <4>1
    <3>3. j > 1 => k > 1 /\ p[k - 1] = b[j - 1]
      <4>1. ASSUME j > 1 PROVE j - 1 \in DOMAIN b /\ k - 1 = n + (j - 1) /\ k > 1
        BY <1>1, <3>1, <4>1
      <4> QED BY <1>1, <4>1
    <3>4. /\ b[j].kind = "ForeignKeysOff" => j < Len(b) /\ b[j + 1].kind = "RebuildTable"
          /\ b[j].kind = "RebuildTable" =>
               /\ j < Len(b) /\ b[j + 1].kind = "ForeignKeysOn"
               /\ j > 1 /\ b[j - 1].kind = "ForeignKeysOff"
      BY <3>1 DEF Good, Paired, Sheltered
    <3> QED BY <3>1, <3>2, <3>3, <3>4
  <2> QED BY <2>1, <2>2
<1>4. Good(d, db, p)
  BY <1>1, <1>2, <1>3 DEF Good, Paired, Sheltered
<1> QED BY <1>4 DEF p

\* Good scripts flattened.
LEMMA GoodFlat ==
  ASSUME NEW d, NEW db, NEW ss, Listed(ss), \A i \in DOMAIN ss : Good(d, db, ss[i])
  PROVE  Good(d, db, FlattenSeq(ss))
<1> DEFINE S == AllOf(ss)
           G == {p \in Seq(S) : Good(d, db, p)}
<1>1. ss \in Seq(Seq(S))
  BY AllSequences DEF Good
<1>2. <<>> \in G
  BY DEF Good, Listed, Paired, Sheltered, ToSet
<1>3. \A a \in G : \A b \in G : a \o b \in G
  BY GoodConcat
<1>4. ss \in Seq(G)
  <2> HIDE DEF S
  <2>1. Len(ss) \in Nat /\ DOMAIN ss = 1 .. Len(ss) /\ ss = [i \in 1 .. Len(ss) |-> ss[i]]
        /\ \A i \in 1 .. Len(ss) : ss[i] \in Seq(S)
    BY <1>1
  <2>2. \A i \in 1 .. Len(ss) : ss[i] \in G
    BY <2>1
  <2> HIDE DEF G
  <2> QED BY <2>1, <2>2
<1>5. G \subseteq Seq(S)
  OBVIOUS
<1>6. FlattenSeq(ss) \in G
  <2> HIDE DEF G, S
  <2> QED BY <1>2, <1>3, <1>4, <1>5, FlatIn
<1> QED BY <1>6

(***************************************************************************)
(* The statements of one operation of the differ.                          *)
(***************************************************************************)
Operation(d, db, op) ==
  /\ op = Op(op.kind, op.table, op.arg)
  /\ op.kind \notin {"ForeignKeysOff", "ForeignKeysOn", "CreateVirtualTable"}
  /\ op.kind # "CreateIndex" => Fits(d, db, op)
  /\ op.kind = "CreateIndex" => op.table \in DOMAIN d /\ op.arg \in d[op.table].indexes

\* What generate_sql writes.
LEMMA OperationScript ==
  ASSUME NEW d, NEW db, NEW op, Operation(d, db, op)
  PROVE  /\ Good(d, db, GenerateSql(op))
         /\ op.kind # "DropTable" =>
              \A i \in DOMAIN GenerateSql(op) : GenerateSql(op)[i].kind # "DropTable"
         /\ op.kind \in Deletes =>
              \A i \in DOMAIN GenerateSql(op) : GenerateSql(op)[i].kind \in Deletes
         /\ \E i \in DOMAIN GenerateSql(op) :
              /\ GenerateSql(op)[i].kind = op.kind /\ GenerateSql(op)[i].table = op.table
<1> DEFINE k == op.kind
           t == op.table
           a == op.arg
<1>1. op = [kind |-> k, table |-> t, arg |-> a]
  BY DEF Operation, Op
<1>2. CASE k = "CreateTable"
  <2> DEFINE v == Op("CreateVirtualTable", t, "-")
  <2>1. GenerateSql(op) = <<op>> \/ GenerateSql(op) = <<op, v>>
    <3>1. GenerateSql(op) = <<op>> \o (IF op.arg.fts = {} THEN <<>> ELSE <<v>>)
      BY <1>2 DEF GenerateSql
    <3>2. <<op>> \o <<>> = <<op>> /\ <<op>> \o <<v>> = <<op, v>>
      BY PairConcat
    <3> QED BY <3>1, <3>2
  <2>2. v.kind = "CreateVirtualTable" /\ v.table = t
    BY DEF Op
  <2> HIDE DEF v
  <2>3. Fits(d, db, v)
    BY <2>2 DEF Fits, Writes, Kinds
  <2>4. Listed(<<op>>) /\ Listed(<<op, v>>)
    <3>1. <<op>> \in Seq({op, v}) /\ <<op, v>> \in Seq({op, v})
      OBVIOUS
    <3> QED BY <3>1, SeqListed
  <2>5. Good(d, db, <<op>>)
    BY <1>2, <2>4 DEF Good, Paired, Sheltered, Operation
  <2>6. Good(d, db, <<op, v>>)
    <3>1. \A i \in DOMAIN <<op, v>> : <<op, v>>[i] = op \/ <<op, v>>[i] = v
      OBVIOUS
    <3>2. \A i \in DOMAIN <<op, v>> : /\ Fits(d, db, <<op, v>>[i])
             /\ <<op, v>>[i].kind \notin {"ForeignKeysOff", "RebuildTable"}
      BY <1>2, <2>2, <2>3, <3>1 DEF Operation
    <3> HIDE DEF k, t, a
    <3> QED BY <2>4, <3>2 DEF Good, Paired, Sheltered
  <2>7. \A i \in DOMAIN GenerateSql(op) : GenerateSql(op)[i].kind # "DropTable"
    BY <1>2, <2>1, <2>2
  <2>8. 1 \in DOMAIN GenerateSql(op) /\ GenerateSql(op)[1] = op
    BY <2>1
  <2> QED BY <1>2, <2>1, <2>5, <2>6, <2>7, <2>8 DEF Deletes
<1>3. CASE k = "RebuildTable"
  <2> DEFINE off == Op("ForeignKeysOff", t, "-")
             on == Op("ForeignKeysOn", t, "-")
             p == <<off, op, on>>
  <2>1. GenerateSql(op) = p
    BY <1>3 DEF GenerateSql
  <2>2. off.kind = "ForeignKeysOff" /\ on.kind = "ForeignKeysOn"
    BY DEF Op
  <2> HIDE DEF off, on
  <2>3. /\ DOMAIN p = 1 .. 3 /\ Len(p) = 3 /\ p[1] = off /\ p[2] = op /\ p[3] = on
        /\ \A i \in DOMAIN p : i = 1 \/ i = 2 \/ i = 3
    OBVIOUS
  <2>4. Listed(p)
    <3>1. p \in Seq({off, op, on})
      OBVIOUS
    <3> QED BY <3>1, SeqListed
  <2>5. Fits(d, db, off) /\ Fits(d, db, on) /\ Fits(d, db, op)
    <3>1. Fits(d, db, off) /\ Fits(d, db, on)
      BY <2>2 DEF Fits, Writes, Kinds
    <3>2. Fits(d, db, op)
      BY <1>3 DEF Operation
    <3> QED BY <3>1, <3>2
  <2> HIDE DEF p, t, a
  <2>6. Good(d, db, p)
    <3>1. \A i \in DOMAIN p : Fits(d, db, p[i])
      BY <2>3, <2>5
    <3>2. Paired(p)
      BY <1>3, <2>2, <2>3 DEF Paired
    <3>3. Sheltered(p, TRUE)
      BY <1>3, <2>2, <2>3 DEF Sheltered
    <3> QED BY <2>4, <3>1, <3>2, <3>3 DEF Good
  <2>7. \A i \in DOMAIN p : p[i].kind # "DropTable"
    BY <1>3, <2>2, <2>3
  <2>8. 2 \in DOMAIN p
    BY <2>3
  <2> QED BY <1>3, <2>1, <2>3, <2>6, <2>7, <2>8 DEF Deletes
<1>4. CASE k \notin {"CreateTable", "RebuildTable"}
  <2>1. PICK s : GenerateSql(op) = <<s>> /\ s.kind = k /\ s.table = t
    <3>1. CASE k = "CreateIndex"
      <4> DEFINE b == [a EXCEPT !.name = IndexName(t, a.columns)]
                 s == [kind |-> k, table |-> t, arg |-> b]
      <4>1. GenerateSql(op) = <<[op EXCEPT !.arg.name = IndexName(op.table, op.arg.columns)]>>
        BY <3>1 DEF GenerateSql
      <4>2. [op EXCEPT !.arg.name = IndexName(op.table, op.arg.columns)]
              = [op EXCEPT !.arg = [op.arg EXCEPT !.name = IndexName(op.table, op.arg.columns)]]
        OBVIOUS
      <4>3. [op EXCEPT !.arg = b] = s
        <5> HIDE DEF b, k, t, a
        <5> QED BY <1>1
      <4>4. GenerateSql(op) = <<s>>
        BY <4>1, <4>2, <4>3
      <4>5. s.kind = k /\ s.table = t
        OBVIOUS
      <4> HIDE DEF s
      <4> QED BY <4>4, <4>5
    <3>2. CASE k # "CreateIndex"
      <4>1. GenerateSql(op) = <<op>>
        BY <1>4, <3>2 DEF GenerateSql
      <4> QED BY <4>1
    <3> QED BY <3>1, <3>2
  <2>2. Fits(d, db, s)
    <3>1. CASE k = "CreateIndex"
      <4>1. t \in DOMAIN d /\ a \in d[t].indexes
        BY <3>1 DEF Operation
      <4>2. GenerateSql(op) = <<[op EXCEPT !.arg.name = IndexName(op.table, op.arg.columns)]>>
        BY <3>1 DEF GenerateSql
      <4>3. s = [op EXCEPT !.arg.name = IndexName(op.table, op.arg.columns)]
        BY <2>1, <4>2
      <4>4. [op EXCEPT !.arg.name = IndexName(op.table, op.arg.columns)]
              = [op EXCEPT !.arg = [op.arg EXCEPT !.name = IndexName(op.table, op.arg.columns)]]
        OBVIOUS
      <4> DEFINE b == [a EXCEPT !.name = IndexName(t, a.columns)]
      <4>5. [op EXCEPT !.arg = b].arg = b
        <5> HIDE DEF b, k, t, a
        <5> QED BY <1>1
      <4>6. s.arg = b
        BY <4>3, <4>4, <4>5
      <4> HIDE DEF k, t, a
      <4> QED BY <2>1, <3>1, <4>1, <4>6 DEF Fits, Writes, Kinds
    <3>2. CASE k # "CreateIndex"
      <4>1. GenerateSql(op) = <<op>>
        BY <1>4, <3>2 DEF GenerateSql
      <4>2. s = op
        BY <2>1, <4>1
      <4> QED BY <3>2, <4>2 DEF Operation
    <3> QED BY <3>1, <3>2
  <2>3. Listed(<<s>>)
    <3>1. <<s>> \in Seq({s})
      OBVIOUS
    <3> QED BY <3>1, SeqListed
  <2>4. Good(d, db, <<s>>)
    <3>1. k \notin {"ForeignKeysOff", "RebuildTable"}
      BY <1>4 DEF Operation
    <3>2. \A i \in DOMAIN <<s>> : <<s>>[i] = s
      OBVIOUS
    <3> HIDE DEF k
    <3> QED BY <2>1, <2>2, <2>3, <3>1, <3>2 DEF Good, Paired, Sheltered
  <2>5. 1 \in DOMAIN <<s>> /\ \A i \in DOMAIN <<s>> : <<s>>[i] = s
    OBVIOUS
  <2> QED BY <2>1, <2>4, <2>5
<1> QED BY <1>2, <1>3, <1>4

(***************************************************************************)
(* The operations of the differ on the live database db.                   *)
(***************************************************************************)
AllOperations(d, db, p) ==
  Listed(p) /\ \A i \in DOMAIN p : Operation(d, db, p[i]) /\ p[i].kind # "DropTable"

\* No operation, and operations after operations.
LEMMA OperationsConcat ==
  ASSUME NEW d, NEW db
  PROVE  /\ AllOperations(d, db, <<>>)
         /\ \A a, b : AllOperations(d, db, a) /\ AllOperations(d, db, b)
                        => AllOperations(d, db, a \o b)
<1>1. AllOperations(d, db, <<>>)
  BY DEF AllOperations, Listed, ToSet
<1>2. ASSUME NEW a, NEW b, AllOperations(d, db, a), AllOperations(d, db, b)
      PROVE  AllOperations(d, db, a \o b)
  <2> DEFINE p == a \o b
             n == Len(a)
  <2>0. Joined(p, a, b)
    BY <1>2, ListedConcat DEF AllOperations
  <2> HIDE DEF p
  <2>1. /\ Listed(p)
        /\ \A k \in DOMAIN p : IF k \in DOMAIN a THEN p[k] = a[k]
                               ELSE k - n \in DOMAIN b /\ p[k] = b[k - n]
    BY <2>0 DEF Joined
  <2> HIDE DEF n
  <2>2. AllOperations(d, db, p)
    BY <1>2, <2>1 DEF AllOperations
  <2> QED BY <2>2 DEF p
<1> QED BY <1>1, <1>2

\* One operation.
LEMMA OneOperation ==
  ASSUME NEW d, NEW db, NEW op, Operation(d, db, op), op.kind # "DropTable"
  PROVE  AllOperations(d, db, <<op>>)
<1>1. Listed(<<op>>)
  <2>1. <<op>> \in Seq({op})
    OBVIOUS
  <2> QED BY <2>1, SeqListed
<1>2. \A i \in DOMAIN <<op>> : <<op>>[i] = op
  OBVIOUS
<1> QED BY <1>1, <1>2 DEF AllOperations

\* Operations of one kind on one table, in any order.
LEMMA OpsAreOperations ==
  ASSUME NEW d, NEW db, NEW kind, kind # "DropTable", NEW t, NEW args, IsFiniteSet(args),
         \A x \in args : Operation(d, db, Op(kind, t, x))
  PROVE  AllOperations(d, db, Ops(kind, t, args))
<1> DEFINE f == SetToSeq(args)
           n == Cardinality(args)
           p == Ops(kind, t, args)
<1>1. n \in Nat /\ f \in [1 .. n -> args]
  BY SetInSequence
<1>2. p = [i \in 1 .. n |-> Op(kind, t, f[i])]
  BY <1>1 DEF Ops
<1> HIDE DEF f, n, p
<1>3. Listed(p)
  BY <1>1, <1>2, FunctionListed
<1>4. \A i \in DOMAIN p : Operation(d, db, p[i]) /\ p[i].kind # "DropTable"
  <2> SUFFICES ASSUME NEW i \in 1 .. n
               PROVE  Operation(d, db, Op(kind, t, f[i])) /\ Op(kind, t, f[i]).kind # "DropTable"
    BY <1>2
  <2>1. f[i] \in args
    BY <1>1
  <2>2. Op(kind, t, f[i]).kind = kind
    BY DEF Op
  <2> QED BY <2>1, <2>2
<1>5. AllOperations(d, db, p)
  BY <1>3, <1>4 DEF AllOperations
<1> QED BY <1>5 DEF p

Free == {"DropIndex", "DropTrigger", "DropVirtualTable"}

\* Kinds of operations that are good for any table.
LEMMA FreeOperation ==
  ASSUME NEW d, NEW db, NEW kind \in Free, NEW t, NEW x
  PROVE  Operation(d, db, Op(kind, t, x))
<1> DEFINE op == Op(kind, t, x)
<1>1. op.kind = kind /\ op.table = t /\ op.arg = x
  BY DEF Op
<1> HIDE DEF op
<1>2. op = Op(op.kind, op.table, op.arg)
  BY <1>1 DEF op
<1>3. Operation(d, db, op)
  BY <1>1, <1>2 DEF Operation, Fits, Writes, Kinds, Free, Deletes
<1> QED BY <1>3 DEF op

\* The indexes and triggers of the schema.
LEMMA EquipOperation ==
  ASSUME NEW d, NEW db, NEW t \in DOMAIN d
  PROVE  /\ \A i \in d[t].indexes : Operation(d, db, Op("CreateIndex", t, i))
         /\ \A g \in d[t].triggers : Operation(d, db, Op("CreateTrigger", t, g))
<1>1. ASSUME NEW i \in d[t].indexes PROVE Operation(d, db, Op("CreateIndex", t, i))
  BY DEF Operation, Op
<1>2. ASSUME NEW g \in d[t].triggers PROVE Operation(d, db, Op("CreateTrigger", t, g))
  <2> DEFINE op == Op("CreateTrigger", t, g)
  <2>1. op.kind = "CreateTrigger" /\ op.table = t /\ op.arg = g
    BY DEF Op
  <2> HIDE DEF op
  <2>2. op = Op(op.kind, op.table, op.arg)
    BY <2>1 DEF op
  <2>3. Operation(d, db, op)
    BY <2>1, <2>2 DEF Operation, Fits, Writes, Kinds
  <2> QED BY <2>3 DEF op
<1> QED BY <1>1, <1>2

\* The indexes and triggers of a table.
LEMMA EquipOperations ==
  ASSUME NEW d, Sound(d), NEW db, NEW t \in DOMAIN d
  PROVE  AllOperations(d, db, Equip(t, d[t]))
<1>1. IsFiniteSet(d[t].indexes) /\ IsFiniteSet(d[t].triggers)
  BY DEF Sound, SoundTable
<1>2. /\ AllOperations(d, db, Ops("CreateIndex", t, d[t].indexes))
      /\ AllOperations(d, db, Ops("CreateTrigger", t, d[t].triggers))
  BY <1>1, EquipOperation, OpsAreOperations
<1> QED BY <1>2, OperationsConcat DEF Equip

\* A table of the schema that the database has.
LEMMA TableOperations ==
  ASSUME NEW d, Sound(d), NEW db, Formed(db), NEW t \in DOMAIN d \cap DOMAIN db.table
  PROVE  /\ AllOperations(d, db, DiffTable(t, d[t], LiveTable(db, t)))
         /\ MustRebuildFor(d[t], LiveTable(db, t)) =>
              \E i \in DOMAIN DiffTable(t, d[t], LiveTable(db, t)) :
                /\ DiffTable(t, d[t], LiveTable(db, t))[i].kind = "RebuildTable"
                /\ DiffTable(t, d[t], LiveTable(db, t))[i].table = t
<1> DEFINE des == d[t]
           lt == LiveTable(db, t)
<1>1. /\ DOMAIN lt.columns = DOMAIN db.table[t].columns
      /\ IsFiniteSet(lt.indexes) /\ IsFiniteSet(lt.triggers)
  <2>1. DOMAIN lt.columns = DOMAIN db.table[t].columns
    BY DEF LiveTable, LiveColumns
  <2>2. ASSUME NEW S, IsFiniteSet(S) PROVE IsFiniteSet({x.name : x \in {y \in S : y.table = t}})
    <3> DEFINE T == {y \in S : y.table = t}
               f == [x \in T |-> x.name]
    <3>1. IsFiniteSet(T)
      BY <2>2, FS_Subset
    <3>2. DOMAIN f = T /\ {f[x] : x \in DOMAIN f} = {x.name : x \in T}
      OBVIOUS
    <3> HIDE DEF f, T
    <3>3. IsFiniteSet({x.name : x \in T})
      BY <3>1, <3>2, FiniteRange
    <3> QED BY <3>3 DEF T
  <2>3. IsFiniteSet(db.index) /\ IsFiniteSet(db.trigger)
    BY DEF Formed
  <2> QED BY <2>1, <2>2, <2>3 DEF LiveTable
<1>2. IsFiniteSet(des.indexes) /\ IsFiniteSet(des.triggers) /\ IsFiniteSet(DOMAIN des.columns)
  BY DEF Sound, SoundTable
<1>3. CASE MustRebuildFor(des, lt)
  <2> DEFINE arg == [def |-> des, keep |-> DOMAIN des.columns \cap DOMAIN lt.columns]
             op == Op("RebuildTable", t, arg)
  <2>1. DiffTable(t, des, lt) = <<op>> \o Equip(t, des)
    BY <1>3 DEF DiffTable
  <2>2. arg.def = des /\ arg.keep = DOMAIN des.columns \cap DOMAIN db.table[t].columns
    BY <1>1
  <2> HIDE DEF arg
  <2>3. op.kind = "RebuildTable" /\ op.table = t /\ op.arg = arg /\ op = Op(op.kind, op.table, op.arg)
    BY DEF Op
  <2> HIDE DEF op
  <2>4. Operation(d, db, op)
    <3>1. Writes(d, op)
      BY <2>2, <2>3 DEF Writes, Kinds
    <3>2. Fits(d, db, op)
      BY <2>2, <2>3, <3>1 DEF Fits
    <3> QED BY <2>3, <3>2 DEF Operation
  <2>5. AllOperations(d, db, <<op>>) /\ AllOperations(d, db, Equip(t, des))
    BY <2>3, <2>4, OneOperation, EquipOperations
  <2>6. AllOperations(d, db, DiffTable(t, des, lt))
    BY <2>1, <2>5, OperationsConcat
  <2>7. 1 \in DOMAIN (<<op>> \o Equip(t, des)) /\ (<<op>> \o Equip(t, des))[1] = op
    <3>1. 1 \in DOMAIN <<op>> /\ <<op>>[1] = op
      OBVIOUS
    <3> DEFINE a == <<op>>
               b == Equip(t, des)
    <3>2. Listed(a) /\ Listed(b) /\ 1 \in DOMAIN a /\ a[1] = op
      BY <2>5, <3>1 DEF AllOperations
    <3> HIDE DEF a, b
    <3>3. Joined(a \o b, a, b)
      BY <3>2, ListedConcat
    <3>4. 1 \in DOMAIN (a \o b) /\ (a \o b)[1] = op
      BY <3>2, <3>3 DEF Joined
    <3> QED BY <3>4 DEF a, b
  <2> QED BY <2>1, <2>3, <2>6, <2>7
<1>4. CASE ~ MustRebuildFor(des, lt)
  <2> DEFINE new == DOMAIN des.columns \ DOMAIN lt.columns
             f == [c \in new |-> <<c, des.columns[c]>>]
             A == {<<c, des.columns[c]>> : c \in new}
             I == {i \in des.indexes : i.name \notin lt.indexes}
             J == lt.indexes \ {i.name : i \in des.indexes}
             G == {g \in des.triggers : g.name \notin lt.triggers}
             H == lt.triggers \ {g.name : g \in des.triggers}
  <2>1. IsFiniteSet(A)
    <3>1. IsFiniteSet(new) /\ DOMAIN f = new
      BY <1>2, FS_Subset
    <3>2. {f[c] : c \in DOMAIN f} = A
      OBVIOUS
    <3> HIDE DEF f, A
    <3> QED BY <3>1, <3>2, FiniteRange
  <2>2. IsFiniteSet(I) /\ IsFiniteSet(J) /\ IsFiniteSet(G) /\ IsFiniteSet(H)
    <3>1. I \subseteq des.indexes /\ J \subseteq lt.indexes /\ G \subseteq des.triggers /\ H \subseteq lt.triggers
      OBVIOUS
    <3> HIDE DEF I, J, G, H
    <3> QED BY <1>1, <1>2, <3>1, FS_Subset
  <2>3. ASSUME NEW x \in A PROVE Operation(d, db, Op("AddColumn", t, x))
    <3> DEFINE op == Op("AddColumn", t, x)
    <3>1. op.kind = "AddColumn" /\ op.table = t /\ op.arg = x /\ op = Op(op.kind, op.table, op.arg)
      BY DEF Op
    <3>2. x[1] \in DOMAIN des.columns /\ x[2] = des.columns[x[1]]
      OBVIOUS
    <3> HIDE DEF op
    <3>3. Operation(d, db, op)
      BY <3>1, <3>2 DEF Operation, Fits, Writes, Kinds
    <3> QED BY <3>3 DEF op
  <2>4. DiffTable(t, des, lt) =
          Ops("AddColumn", t, A) \o Ops("CreateIndex", t, I) \o Ops("DropIndex", t, J)
            \o Ops("CreateTrigger", t, G) \o Ops("DropTrigger", t, H)
    BY <1>4 DEF DiffTable
  <2> HIDE DEF A, I, J, G, H, new, f
  <2>5. /\ AllOperations(d, db, Ops("AddColumn", t, A))
        /\ AllOperations(d, db, Ops("CreateIndex", t, I))
        /\ AllOperations(d, db, Ops("DropIndex", t, J))
        /\ AllOperations(d, db, Ops("CreateTrigger", t, G))
        /\ AllOperations(d, db, Ops("DropTrigger", t, H))
    <3>1. /\ \A x \in J : Operation(d, db, Op("DropIndex", t, x))
          /\ \A x \in H : Operation(d, db, Op("DropTrigger", t, x))
      BY FreeOperation DEF Free
    <3>2. /\ \A x \in I : Operation(d, db, Op("CreateIndex", t, x))
          /\ \A x \in G : Operation(d, db, Op("CreateTrigger", t, x))
      BY EquipOperation DEF I, G
    <3> QED BY <2>1, <2>2, <2>3, <3>1, <3>2, OpsAreOperations
  <2>6. AllOperations(d, db, DiffTable(t, des, lt))
    BY <2>4, <2>5, OperationsConcat
  <2> QED BY <1>4, <2>6
<1> QED BY <1>3, <1>4

(***************************************************************************)
(* All operations of the differ.                                           *)
(***************************************************************************)
\* What the differ writes for the i-th model.
Change(d, found, i) ==
  LET t == TableOrder[i] IN
  IF t \notin DOMAIN d THEN <<>>
  ELSE IF t \notin DOMAIN found.table
  THEN <<Op("CreateTable", t, d[t])>> \o Equip(t, d[t])
  ELSE DiffTable(t, d[t], found.table[t])
       \o (IF d[t].fts = {} THEN DropFullText(t, found) ELSE <<>>)

\* The parts of an introspected schema.
LEMMA LiveParts ==
  ASSUME NEW db
  PROVE  /\ DOMAIN LiveSchema(db).table = DOMAIN db.table /\ LiveSchema(db).fts = db.fts
         /\ \A t \in DOMAIN db.table : LiveSchema(db).table[t] = LiveTable(db, t)
BY DEF LiveSchema

\* The order of the models is a finite sequence.
LEMMA OrderIsFinite ==
  /\ Len(TableOrder) \in Nat /\ DOMAIN TableOrder = 1 .. Len(TableOrder)
  /\ IsFiniteSet(ToSet(TableOrder))
<1> DEFINE S == ToSet(TableOrder)
<1>1. TableOrder \in Seq(S)
  BY MigrationAssumption
<1>2. Len(TableOrder) \in Nat /\ DOMAIN TableOrder = 1 .. Len(TableOrder)
  <2> HIDE DEF S
  <2> QED BY <1>1
<1>3. IsFiniteSet(DOMAIN TableOrder)
  BY <1>2, FS_Interval
<1>4. IsFiniteSet({TableOrder[i] : i \in DOMAIN TableOrder})
  BY <1>3, FiniteRange
<1> QED BY <1>2, <1>4 DEF ToSet

\* The operations for one model.
LEMMA ChangeOperations ==
  ASSUME NEW d, Sound(d), NEW db, Formed(db), NEW i \in 1 .. Len(TableOrder)
  PROVE  AllOperations(d, db, Change(d, LiveSchema(db), i))
<1> DEFINE t == TableOrder[i]
           found == LiveSchema(db)
<1>1. CASE t \notin DOMAIN d
  BY <1>1, OperationsConcat DEF Change
<1>2. CASE t \in DOMAIN d /\ t \notin DOMAIN found.table
  <2> DEFINE op == Op("CreateTable", t, d[t])
  <2>1. Change(d, found, i) = <<op>> \o Equip(t, d[t])
    BY <1>2 DEF Change
  <2>2. op.kind = "CreateTable" /\ op.table = t /\ op.arg = d[t] /\ op = Op(op.kind, op.table, op.arg)
    BY DEF Op
  <2> HIDE DEF op, t
  <2>3. Operation(d, db, op)
    BY <1>2, <2>2 DEF Operation, Fits, Writes, Kinds
  <2>4. AllOperations(d, db, <<op>>) /\ AllOperations(d, db, Equip(t, d[t]))
    BY <1>2, <2>2, <2>3, OneOperation, EquipOperations
  <2>5. AllOperations(d, db, <<op>> \o Equip(t, d[t]))
    BY <2>4, OperationsConcat
  <2> QED BY <2>1, <2>5
<1>3. CASE t \in DOMAIN d /\ t \in DOMAIN found.table
  <2> DEFINE diff == DiffTable(t, d[t], LiveTable(db, t))
             drop == IF d[t].fts = {} THEN DropFullText(t, found) ELSE <<>>
  <2>1. Change(d, found, i) = diff \o drop
    BY <1>3, LiveParts DEF Change
  <2>2. AllOperations(d, db, diff)
    <3>1. t \in DOMAIN d \cap DOMAIN db.table
      BY <1>3, LiveParts
    <3> HIDE DEF t
    <3> QED BY <3>1, TableOperations
  <2>3. AllOperations(d, db, drop)
    <3> DEFINE op == Op("DropVirtualTable", t, "-")
    <3>1. drop = <<op>> \/ drop = <<>>
      BY DEF DropFullText
    <3>2. Operation(d, db, op)
      BY FreeOperation DEF Free
    <3>3. op.kind # "DropTable"
      BY DEF Op
    <3> HIDE DEF op, drop
    <3> QED BY <3>1, <3>2, <3>3, OneOperation, OperationsConcat
  <2> HIDE DEF diff, drop
  <2> QED BY <2>1, <2>2, <2>3, OperationsConcat
<1> QED BY <1>1, <1>2, <1>3

\* The first pass: changes, and a rebuild of every table that needs one.
LEMMA ChangesAreOperations ==
  ASSUME NEW d, Sound(d), NEW db, Formed(db)
  PROVE  /\ AllOperations(d, db, Changes(d, LiveSchema(db)))
         /\ \A t \in DOMAIN d \cap DOMAIN db.table :
              MustRebuildFor(d[t], LiveTable(db, t)) =>
                \E i \in DOMAIN Changes(d, LiveSchema(db)) :
                  /\ Changes(d, LiveSchema(db))[i].kind = "RebuildTable"
                  /\ Changes(d, LiveSchema(db))[i].table = t
<1> DEFINE n == Len(TableOrder)
           ss == [i \in 1 .. n |-> Change(d, LiveSchema(db), i)]
           ops == Changes(d, LiveSchema(db))
<1>1. n \in Nat
  BY OrderIsFinite
<1>2. ops = FlattenSeq(ss)
  BY DEF Changes, Change
<1>3. /\ DOMAIN ss = 1 .. n
      /\ \A i \in 1 .. n : ss[i] = Change(d, LiveSchema(db), i) /\ AllOperations(d, db, ss[i])
  BY ChangeOperations
<1>4. Listed(ss)
  <2>1. ss = [i \in 1 .. n |-> ss[i]]
    OBVIOUS
  <2> HIDE DEF ss, n
  <2> QED BY <1>1, <1>3, <2>1, FunctionListed
<1>5. /\ Listed(ops)
      /\ \A k \in DOMAIN ops : \E i \in DOMAIN ss : \E j \in DOMAIN ss[i] : ops[k] = ss[i][j]
      /\ \A i \in DOMAIN ss : \A j \in DOMAIN ss[i] : \E k \in DOMAIN ops : ops[k] = ss[i][j]
  <2> HIDE DEF ss, ops
  <2> QED BY <1>2, <1>3, <1>4, FlatListed DEF AllOperations
<1>6. AllOperations(d, db, ops)
  <2> HIDE DEF ss, ops
  <2> QED BY <1>3, <1>5 DEF AllOperations
<1>7. ASSUME NEW t \in DOMAIN d \cap DOMAIN db.table, MustRebuildFor(d[t], LiveTable(db, t))
      PROVE  \E k \in DOMAIN ops : ops[k].kind = "RebuildTable" /\ ops[k].table = t
  <2>1. PICK i \in 1 .. n : TableOrder[i] = t
    BY OrderIsFinite DEF Sound, ToSet
  <2> DEFINE diff == DiffTable(t, d[t], LiveTable(db, t))
             drop == IF d[t].fts = {} THEN DropFullText(t, LiveSchema(db)) ELSE <<>>
  <2>2. ss[i] = diff \o drop
    BY <1>3, <2>1, LiveParts DEF Change
  <2>3. PICK j \in DOMAIN diff : diff[j].kind = "RebuildTable" /\ diff[j].table = t
    BY <1>7, TableOperations
  <2>4. Listed(diff) /\ Listed(drop)
    <3>1. Listed(diff)
      BY TableOperations DEF AllOperations
    <3>2. Listed(<<>>)
      BY DEF Listed, ToSet
    <3>3. Listed(<<Op("DropVirtualTable", t, "-")>>)
      <4> DEFINE op == Op("DropVirtualTable", t, "-")
      <4>1. <<op>> \in Seq({op})
        OBVIOUS
      <4> QED BY <4>1, SeqListed
    <3> QED BY <3>1, <3>2, <3>3 DEF DropFullText
  <2> HIDE DEF diff, drop
  <2>5. j \in DOMAIN (diff \o drop) /\ (diff \o drop)[j] = diff[j]
    <3>1. Joined(diff \o drop, diff, drop)
      BY <2>4, ListedConcat
    <3> QED BY <2>3, <3>1 DEF Joined
  <2>6. i \in DOMAIN ss /\ j \in DOMAIN ss[i] /\ ss[i][j] = diff[j]
    BY <1>3, <2>2, <2>5
  <2> HIDE DEF ss, ops
  <2>7. PICK k \in DOMAIN ops : ops[k] = ss[i][j]
    BY <1>5, <2>6
  <2> QED BY <2>3, <2>6, <2>7
<1> QED BY <1>6, <1>7

\* The second pass: tables that left the schema go.
LEMMA DeletionsAreOperations ==
  ASSUME NEW d, Sound(d), NEW db, Formed(db),
         NEW order \in SetToSeqs(DOMAIN LiveSchema(db).table \ DOMAIN d)
  PROVE  LET ops == Deletions(order, LiveSchema(db)) IN
         Listed(ops) /\ \A k \in DOMAIN ops : Operation(d, db, ops[k]) /\ ops[k].kind \in Deletes
<1> DEFINE found == LiveSchema(db)
           S == DOMAIN found.table \ DOMAIN d
           n == Cardinality(S)
           ops == Deletions(order, found)
<1>1. IsFiniteSet(S)
  <2>1. S \subseteq ToSet(TableOrder)
    BY LiveParts DEF Formed
  <2> HIDE DEF S
  <2> QED BY <2>1, OrderIsFinite, FS_Subset
<1>2. n \in Nat /\ order \in [1 .. n -> S]
  <2>1. n \in Nat
    <3> HIDE DEF S
    <3> QED BY <1>1, FS_CardinalityType
  <2> QED BY <2>1 DEF SetToSeqs
<1> DEFINE piece(i) == <<Op("DropTable", order[i], "-")>> \o DropFullText(order[i], found)
           ss == [i \in 1 .. n |-> piece(i)]
<1>3. ops = FlattenSeq(ss)
  <2>1. Len(order) = n
    <3> HIDE DEF n, S
    <3> QED BY <1>2
  <2> QED BY <2>1 DEF Deletions
<1>4. ASSUME NEW i \in 1 .. n
      PROVE  /\ Listed(piece(i))
             /\ \A j \in DOMAIN piece(i) : Operation(d, db, piece(i)[j]) /\ piece(i)[j].kind \in Deletes
  <2> DEFINE t == order[i]
             a == Op("DropTable", t, "-")
             b == Op("DropVirtualTable", t, "-")
  <2>1. piece(i) = <<a>> \/ piece(i) = <<a, b>>
    BY PairConcat DEF DropFullText
  <2>2. t \notin DOMAIN d
    <3> HIDE DEF n
    <3> QED BY <1>2
  <2>3. /\ a.kind = "DropTable" /\ a.table = t /\ a.arg = "-" /\ a = Op(a.kind, a.table, a.arg)
        /\ b.kind = "DropVirtualTable"
    BY DEF Op
  <2>4. Operation(d, db, b)
    BY FreeOperation DEF Free
  <2> HIDE DEF a, b, t
  <2>5. Operation(d, db, a)
    BY <2>2, <2>3 DEF Operation, Fits, Writes, Kinds, Deletes
  <2>6. Listed(<<a>>) /\ Listed(<<a, b>>)
    <3>1. <<a>> \in Seq({a, b}) /\ <<a, b>> \in Seq({a, b})
      OBVIOUS
    <3> QED BY <3>1, SeqListed
  <2>7. /\ \A j \in DOMAIN <<a>> : <<a>>[j] = a
        /\ \A j \in DOMAIN <<a, b>> : <<a, b>>[j] = a \/ <<a, b>>[j] = b
    OBVIOUS
  <2> HIDE DEF piece
  <2> QED BY <2>1, <2>3, <2>4, <2>5, <2>6, <2>7 DEF Deletes
<1> HIDE DEF piece
<1>5. DOMAIN ss = 1 .. n /\ \A i \in 1 .. n : ss[i] = piece(i)
  OBVIOUS
<1>6. Listed(ss)
  <2>1. ss = [i \in 1 .. n |-> ss[i]]
    OBVIOUS
  <2> HIDE DEF ss, n
  <2> QED BY <1>2, <1>5, <2>1, FunctionListed
<1> HIDE DEF ss, ops, n
<1>7. /\ Listed(ops)
      /\ \A k \in DOMAIN ops : \E i \in DOMAIN ss : \E j \in DOMAIN ss[i] : ops[k] = ss[i][j]
  <2>1. \A i \in DOMAIN ss : Listed(ss[i])
    BY <1>4, <1>5
  <2>2. /\ Listed(FlattenSeq(ss))
        /\ \A k \in DOMAIN FlattenSeq(ss) :
             \E i \in DOMAIN ss : \E j \in DOMAIN ss[i] : FlattenSeq(ss)[k] = ss[i][j]
    BY <1>6, <2>1, FlatListed
  <2> QED BY <1>3, <2>2
<1>8. \A k \in DOMAIN ops : Operation(d, db, ops[k]) /\ ops[k].kind \in Deletes
  BY <1>4, <1>5, <1>7
<1> QED BY <1>7, <1>8 DEF ops

(***************************************************************************)
(* The scripts of the differ.                                              *)
(***************************************************************************)
Operations(d, db, ops) == Listed(ops) /\ \A i \in DOMAIN ops : Operation(d, db, ops[i])

Pieces(ops) == [i \in 1 .. Len(ops) |-> GenerateSql(ops[i])]

\* q holds the statements of the operations ops, and nothing else.
Writing(d, db, ops, q) ==
  /\ Good(d, db, q)
  /\ \A k \in DOMAIN q :
       \E i \in DOMAIN ops : \E j \in DOMAIN GenerateSql(ops[i]) : q[k] = GenerateSql(ops[i])[j]
  /\ \A i \in DOMAIN ops :
       \E k \in DOMAIN q : q[k].kind = ops[i].kind /\ q[k].table = ops[i].table

\* The script of a sequence of operations.
LEMMA ScriptOfOperations ==
  ASSUME NEW d, NEW db, NEW ops, Operations(d, db, ops)
  PROVE  /\ Listed(Pieces(ops)) /\ \A i \in DOMAIN Pieces(ops) : Listed(Pieces(ops)[i])
         /\ Writing(d, db, ops, Script(ops))
<1> DEFINE n == Len(ops)
           ss == Pieces(ops)
           q == Script(ops)
<1>1. n \in Nat /\ DOMAIN ops = 1 .. n
  <2> DEFINE S == ToSet(ops)
  <2>1. ops \in Seq(S)
    BY DEF Operations, Listed
  <2> HIDE DEF S
  <2> QED BY <2>1
<1>2. DOMAIN ss = DOMAIN ops /\ \A i \in DOMAIN ops : ss[i] = GenerateSql(ops[i])
  BY <1>1 DEF Pieces
<1>3. Listed(ss)
  <2>1. ss = [i \in 1 .. n |-> ss[i]]
    BY DEF Pieces
  <2> HIDE DEF ss, n
  <2> QED BY <1>1, <1>2, <2>1, FunctionListed
<1>4. q = FlattenSeq(ss)
  BY DEF Script, Pieces
<1> HIDE DEF n, ss, q
<1>5. \A i \in DOMAIN ss : Good(d, db, ss[i])
  BY <1>2, OperationScript DEF Operations
<1>6. \A i \in DOMAIN ss : Listed(ss[i])
  BY <1>5 DEF Good
<1>7. Good(d, db, q)
  BY <1>3, <1>4, <1>5, GoodFlat
<1>8. /\ \A k \in DOMAIN FlattenSeq(ss) :
           \E i \in DOMAIN ss : \E j \in DOMAIN ss[i] : FlattenSeq(ss)[k] = ss[i][j]
      /\ \A i \in DOMAIN ss : \A j \in DOMAIN ss[i] :
           \E k \in DOMAIN FlattenSeq(ss) : FlattenSeq(ss)[k] = ss[i][j]
  BY <1>3, <1>6, FlatListed
<1>9. ASSUME NEW i \in DOMAIN ops
      PROVE  \E k \in DOMAIN q : q[k].kind = ops[i].kind /\ q[k].table = ops[i].table
  <2>1. PICK j \in DOMAIN GenerateSql(ops[i]) :
          /\ GenerateSql(ops[i])[j].kind = ops[i].kind
          /\ GenerateSql(ops[i])[j].table = ops[i].table
    BY OperationScript DEF Operations
  <2>2. i \in DOMAIN ss /\ j \in DOMAIN ss[i] /\ ss[i][j] = GenerateSql(ops[i])[j]
    BY <1>2, <2>1
  <2>3. PICK k \in DOMAIN q : q[k] = ss[i][j]
    BY <1>4, <1>8, <2>2
  <2> QED BY <2>1, <2>2, <2>3
<1>10. \A k \in DOMAIN q :
         \E i \in DOMAIN ops : \E j \in DOMAIN GenerateSql(ops[i]) : q[k] = GenerateSql(ops[i])[j]
  <2> SUFFICES ASSUME NEW k \in DOMAIN q
               PROVE  \E i \in DOMAIN ops : \E j \in DOMAIN GenerateSql(ops[i]) :
                        q[k] = GenerateSql(ops[i])[j]
    OBVIOUS
  <2>1. PICK i \in DOMAIN ss : \E j \in DOMAIN ss[i] : q[k] = ss[i][j]
    BY <1>4, <1>8
  <2>2. i \in DOMAIN ops /\ ss[i] = GenerateSql(ops[i])
    BY <1>2
  <2> QED BY <2>1, <2>2
<1> QED BY <1>3, <1>6, <1>7, <1>9, <1>10 DEF Writing, ss, q

\* The script of operations after operations.
LEMMA ScriptConcat ==
  ASSUME NEW d, NEW db, NEW a, Operations(d, db, a), NEW b, Operations(d, db, b)
  PROVE  Script(a \o b) = Script(a) \o Script(b)
<1> DEFINE p == Pieces(a)
           q == Pieces(b)
           r == Pieces(a \o b)
           S == AllOf(p) \cup AllOf(q)
<1>1. /\ Listed(a \o b) /\ Len(a) \in Nat /\ Len(b) \in Nat
      /\ DOMAIN a = 1 .. Len(a) /\ DOMAIN b = 1 .. Len(b)
      /\ Len(a \o b) = Len(a) + Len(b)
      /\ \A i \in DOMAIN a : (a \o b)[i] = a[i]
      /\ \A i \in DOMAIN b : (a \o b)[Len(a) + i] = b[i]
  <2> DEFINE c == a \o b
  <2>1. Joined(c, a, b)
    BY ListedConcat DEF Operations
  <2> HIDE DEF c
  <2>2. /\ Listed(c) /\ Len(a) \in Nat /\ Len(b) \in Nat
        /\ DOMAIN a = 1 .. Len(a) /\ DOMAIN b = 1 .. Len(b)
        /\ Len(c) = Len(a) + Len(b)
        /\ \A i \in DOMAIN a : c[i] = a[i]
        /\ \A i \in DOMAIN b : c[Len(a) + i] = b[i]
    BY <2>1 DEF Joined
  <2> QED BY <2>2 DEF c
<1>2. p \in Seq(Seq(S)) /\ q \in Seq(Seq(S))
  <2> DEFINE A == AllOf(p)
             B == AllOf(q)
  <2>1. p \in Seq(Seq(A)) /\ q \in Seq(Seq(B))
    <3>1. Listed(p) /\ \A i \in DOMAIN p : Listed(p[i])
      BY ScriptOfOperations
    <3>2. Listed(q) /\ \A i \in DOMAIN q : Listed(q[i])
      BY ScriptOfOperations
    <3> HIDE DEF p, q
    <3> QED BY <3>1, <3>2, AllSequences
  <2> HIDE DEF A, B, p, q
  <2>2. Seq(A) \subseteq Seq(A \cup B) /\ Seq(B) \subseteq Seq(A \cup B)
    OBVIOUS
  <2> DEFINE AA == Seq(A)
             BB == Seq(B)
             SS == Seq(A \cup B)
  <2>3. AA \subseteq SS /\ BB \subseteq SS /\ p \in Seq(AA) /\ q \in Seq(BB)
    BY <2>1, <2>2
  <2> HIDE DEF AA, BB, SS
  <2>4. p \in Seq(SS) /\ q \in Seq(SS)
    BY <2>3
  <2> QED BY <2>4 DEF SS, A, B
<1>3. /\ Len(p) = Len(a) /\ Len(q) = Len(b)
      /\ \A i \in 1 .. Len(a) : p[i] = GenerateSql(a[i])
      /\ \A i \in 1 .. Len(b) : q[i] = GenerateSql(b[i])
  BY <1>1 DEF Pieces
<1>4. r = p \o q
  <2> DEFINE T == Seq(S)
             m == Len(a)
             n == Len(b)
  <2>1. p \in Seq(T) /\ q \in Seq(T)
    BY <1>2
  <2> HIDE DEF T, p, q, S
  <2>2. /\ p \o q \in Seq(T) /\ Len(p \o q) = m + n
        /\ \A i \in 1 .. m : (p \o q)[i] = p[i]
        /\ \A i \in 1 .. n : (p \o q)[m + i] = q[i]
    <3>1. Len(p) = m /\ Len(q) = n
      BY <1>3
    <3> HIDE DEF m, n
    <3> QED BY <2>1, <3>1
  <2>3. ASSUME NEW i \in 1 .. m + n PROVE (p \o q)[i] = GenerateSql((a \o b)[i])
    <3>1. CASE i <= m
      <4>1. i \in 1 .. m
        BY <1>1, <3>1
      <4> QED BY <1>1, <1>3, <2>2, <4>1
    <3>2. CASE ~ (i <= m)
      <4>1. i - m \in 1 .. n /\ m + (i - m) = i
        BY <1>1, <3>2
      <4> QED BY <1>1, <1>3, <2>2, <4>1, SMTT(30)
    <3> QED BY <3>1, <3>2
  <2>4. r = [i \in 1 .. m + n |-> GenerateSql((a \o b)[i])]
    BY <1>1 DEF Pieces
  <2>5. p \o q = [i \in 1 .. m + n |-> (p \o q)[i]]
    <3> DEFINE w == p \o q
    <3>1. w \in Seq(T) /\ Len(w) = m + n
      BY <2>2
    <3> HIDE DEF w
    <3>2. w = [i \in 1 .. m + n |-> w[i]]
      BY <3>1
    <3> QED BY <3>2 DEF w
  <2> HIDE DEF r, m, n
  <2> QED BY <2>3, <2>4, <2>5
<1>5. FlattenSeq(p \o q) = FlattenSeq(p) \o FlattenSeq(q)
  <2> HIDE DEF p, q, S
  <2> QED BY <1>2, FlatConcat
<1> QED BY <1>4, <1>5 DEF Script, Pieces

(***************************************************************************)
(* What the differ writes on the database db suits every database with the *)
(* frame of db.                                                            *)
(***************************************************************************)
SuitsFrame(q, db, d) == \A other : Frame(other) = Frame(db) => Suits(q, other, d)

\* A table that need not be rebuilt refers to tables of the schema.
LEMMA UnrebuiltReferences ==
  ASSUME NEW d, Sound(d), NEW db, Formed(db), NEW t \in DOMAIN d \cap DOMAIN db.table,
         ~ MustRebuildFor(d[t], LiveTable(db, t)), NEW fk \in db.table[t].foreignKeys
  PROVE  fk.to \in DOMAIN d
<1> DEFINE same == [fk EXCEPT !.onDelete = IF @ = "no action" THEN "-" ELSE @]
<1>1. same \in d[t].foreignKeys
  BY DEF MustRebuildFor, LiveTable, LiveForeignKeys
<1>2. same.to = fk.to
  <2>1. fk = [from |-> fk.from, to |-> fk.to, onDelete |-> fk.onDelete]
    BY DEF Formed, FormedTable
  <2> DEFINE f == fk.from
             g == fk.to
             h == fk.onDelete
             x == IF h = "no action" THEN "-" ELSE h
  <2>2. fk = [from |-> f, to |-> g, onDelete |-> h]
    BY <2>1
  <2> HIDE DEF f, g, h
  <2>3. same = [fk EXCEPT !.onDelete = x]
    BY <2>2
  <2> HIDE DEF same, x
  <2>4. same.to = g
    BY <2>2, <2>3
  <2> QED BY <2>4 DEF g
<1> QED BY <1>1, <1>2 DEF Sound, SoundTable

\* A script of the differ.
LEMMA DiffScript ==
  ASSUME NEW d, Sound(d), NEW db, Formed(db), NEW ops \in ComputeDiff(d, LiveSchema(db))
  PROVE  /\ Good(d, db, Script(ops)) /\ DropsLast(Script(ops))
         /\ SuitsFrame(Script(ops), db, d)
<1>1. PICK order \in SetToSeqs(DOMAIN LiveSchema(db).table \ DOMAIN d) :
        ops = Changes(d, LiveSchema(db)) \o Deletions(order, LiveSchema(db))
  BY DEF ComputeDiff
<1> DEFINE a == Changes(d, LiveSchema(db))
           b == Deletions(order, LiveSchema(db))
           p == Script(a)
           r == Script(b)
           q == Script(ops)
<1>2. /\ Listed(a) /\ \A i \in DOMAIN a : Operation(d, db, a[i]) /\ a[i].kind # "DropTable"
      /\ \A t \in DOMAIN d \cap DOMAIN db.table :
           MustRebuildFor(d[t], LiveTable(db, t)) =>
             \E i \in DOMAIN a : a[i].kind = "RebuildTable" /\ a[i].table = t
  BY ChangesAreOperations DEF AllOperations
<1>3. Listed(b) /\ \A i \in DOMAIN b : Operation(d, db, b[i]) /\ b[i].kind \in Deletes
  BY DeletionsAreOperations
<1> HIDE DEF a, b
<1>4. Operations(d, db, a) /\ Operations(d, db, b)
  BY <1>2, <1>3 DEF Operations
<1>5. q = p \o r
  <2>1. ops = a \o b
    BY <1>1 DEF a, b
  <2>2. Script(a \o b) = Script(a) \o Script(b)
    <3> HIDE DEF p, r, q
    <3> QED BY <1>4, ScriptConcat
  <2> QED BY <2>1, <2>2
<1>6. Writing(d, db, a, p)
  BY <1>4, ScriptOfOperations
<1>7. Writing(d, db, b, r)
  BY <1>4, ScriptOfOperations
<1>8. \A k \in DOMAIN p : p[k].kind # "DropTable"
  BY <1>2, <1>6, OperationScript DEF Writing
<1>9. \A k \in DOMAIN r : r[k].kind \in Deletes
  BY <1>3, <1>7, OperationScript DEF Writing
<1> HIDE DEF p, r, q
<1>10. Good(d, db, q)
  BY <1>5, <1>6, <1>7, GoodConcat DEF Writing
<1>11. /\ Len(p) \in Nat /\ DOMAIN p = 1 .. Len(p)
       /\ \A i \in DOMAIN p : i \in DOMAIN q /\ q[i] = p[i]
       /\ \A k \in DOMAIN q :
            IF k \in DOMAIN p THEN q[k] = p[k]
            ELSE k - Len(p) \in DOMAIN r /\ q[k] = r[k - Len(p)]
       /\ Len(r) \in Nat /\ DOMAIN q = 1 .. Len(p) + Len(r)
  <2>1. Listed(p) /\ Listed(r)
    BY <1>6, <1>7 DEF Writing, Good
  <2>2. Joined(q, p, r)
    BY <1>5, <2>1, ListedConcat
  <2> QED BY <2>2 DEF Joined
<1>12. DropsLast(q)
  <2> SUFFICES ASSUME NEW i \in DOMAIN q, NEW j \in DOMAIN q, i < j, q[i].kind = "DropTable"
               PROVE  q[j].kind \in Deletes
    BY DEF DropsLast
  <2>1. i \notin DOMAIN p
    BY <1>8, <1>11
  <2>2. j \notin DOMAIN p
    BY <1>11, <2>1
  <2> QED BY <1>9, <1>11, <2>2
<1>13. SuitsFrame(q, db, d)
  <2> SUFFICES ASSUME NEW other, Frame(other) = Frame(db) PROVE Suits(q, other, d)
    BY DEF SuitsFrame
  <2>1. /\ DOMAIN other.table = DOMAIN db.table
        /\ \A t \in DOMAIN db.table :
             /\ other.table[t].columns = db.table[t].columns
             /\ other.table[t].foreignKeys = db.table[t].foreignKeys
    <3> DEFINE f == Frame(db)
    <3>1. Frame(other) = f
      OBVIOUS
    <3> HIDE DEF f
    <3>2. /\ DOMAIN f.table = DOMAIN other.table
          /\ \A t \in DOMAIN other.table : f.table[t].columns = other.table[t].columns
                                        /\ f.table[t].foreignKeys = other.table[t].foreignKeys
      BY <3>1, FrameParts
    <3>3. /\ DOMAIN f.table = DOMAIN db.table
          /\ \A t \in DOMAIN db.table : f.table[t].columns = db.table[t].columns
                                     /\ f.table[t].foreignKeys = db.table[t].foreignKeys
      BY FrameParts DEF f
    <3> QED BY <3>2, <3>3
  <2>2. ASSUME NEW i \in DOMAIN q, q[i].kind = "RebuildTable", q[i].table \in DOMAIN other.table
        PROVE  Covers(q[i], other.table[q[i].table])
    <3>1. Fits(d, db, q[i])
      BY <1>10 DEF Good
    <3>2. q[i].arg.def.columns = d[q[i].table].columns
      BY <2>2, <3>1 DEF Fits, Writes
    <3> QED BY <2>1, <2>2, <3>1, <3>2 DEF Fits, Covers
  <2>3. ASSUME NEW t \in DOMAIN d \cap DOMAIN other.table
        PROVE  \/ \A fk \in other.table[t].foreignKeys : fk.to \in DOMAIN d
               \/ \E i \in DOMAIN q : q[i].kind = "RebuildTable" /\ q[i].table = t
    <3>1. t \in DOMAIN d \cap DOMAIN db.table
      BY <2>1
    <3>2. CASE MustRebuildFor(d[t], LiveTable(db, t))
      <4>1. PICK i \in DOMAIN a : a[i].kind = "RebuildTable" /\ a[i].table = t
        BY <1>2, <3>1, <3>2
      <4>2. PICK k \in DOMAIN p : p[k].kind = "RebuildTable" /\ p[k].table = t
        BY <1>6, <4>1 DEF Writing
      <4> QED BY <1>11, <4>2
    <3>3. CASE ~ MustRebuildFor(d[t], LiveTable(db, t))
      <4>1. \A fk \in db.table[t].foreignKeys : fk.to \in DOMAIN d
        BY <3>1, <3>3, UnrebuiltReferences
      <4> QED BY <2>1, <3>1, <4>1
    <3> QED BY <3>2, <3>3
  <2> QED BY <2>2, <2>3 DEF Suits
<1> QED BY <1>10, <1>12, <1>13 DEF q

(***************************************************************************)
(* Where the members of a flattened sequence come from: the x-th is the    *)
(* b[x]-th of the a[x]-th sequence, in that order.                         *)
(***************************************************************************)
Placed(p, ss, m, a, b) ==
  /\ \A x \in DOMAIN p : a[x] \in 1 .. m /\ b[x] \in DOMAIN ss[a[x]] /\ p[x] = ss[a[x]][b[x]]
  /\ \A x \in DOMAIN p : \A y \in DOMAIN p :
       x < y => a[x] < a[y] \/ (a[x] = a[y] /\ b[x] < b[y])
  /\ \A i \in 1 .. m : \A j \in DOMAIN ss[i] : \E x \in DOMAIN p : a[x] = i /\ b[x] = j

\* One sequence more.
LEMMA PlacedNext ==
  ASSUME NEW p, Listed(p), NEW ss, NEW m \in Nat, NEW a, NEW b, Placed(p, ss, m, a, b),
         Listed(ss[m + 1])
  PROVE  \E c, e : Placed(p \o ss[m + 1], ss, m + 1, c, e)
<1> DEFINE s == ss[m + 1]
           r == p \o s
           n == Len(p)
           c == [x \in DOMAIN r |-> IF x \in DOMAIN p THEN a[x] ELSE m + 1]
           e == [x \in DOMAIN r |-> IF x \in DOMAIN p THEN b[x] ELSE x - n]
<1>1. Joined(r, p, s)
  BY ListedConcat
<1> HIDE DEF r
<1>2. /\ n \in Nat /\ Len(s) \in Nat /\ DOMAIN p = 1 .. n /\ DOMAIN s = 1 .. Len(s)
      /\ DOMAIN r = 1 .. n + Len(s)
      /\ \A k \in DOMAIN r : IF k \in DOMAIN p THEN r[k] = p[k]
                             ELSE k - n \in DOMAIN s /\ r[k] = s[k - n]
  BY <1>1 DEF Joined
<1>3. \A x \in DOMAIN r : /\ x \in DOMAIN p => c[x] = a[x] /\ e[x] = b[x]
                          /\ x \notin DOMAIN p => c[x] = m + 1 /\ e[x] = x - n
  OBVIOUS
<1> HIDE DEF n, c, e
<1>4. ASSUME NEW x \in DOMAIN r
      PROVE  c[x] \in 1 .. m + 1 /\ e[x] \in DOMAIN ss[c[x]] /\ r[x] = ss[c[x]][e[x]]
  <2>1. CASE x \in DOMAIN p
    <3>1. a[x] \in 1 .. m /\ b[x] \in DOMAIN ss[a[x]] /\ p[x] = ss[a[x]][b[x]]
      BY <2>1 DEF Placed
    <3>2. a[x] \in 1 .. m + 1
      BY <3>1
    <3> QED BY <1>2, <1>3, <2>1, <3>1, <3>2
  <2>2. CASE x \notin DOMAIN p
    <3>1. m + 1 \in 1 .. m + 1
      OBVIOUS
    <3> QED BY <1>2, <1>3, <2>2, <3>1
  <2> QED BY <2>1, <2>2
<1>5. ASSUME NEW x \in DOMAIN r, NEW y \in DOMAIN r, x < y
      PROVE  c[x] < c[y] \/ (c[x] = c[y] /\ e[x] < e[y])
  <2>1. CASE y \in DOMAIN p
    <3>1. x \in DOMAIN p
      BY <1>2, <1>5, <2>1
    <3> QED BY <1>3, <1>5, <2>1, <3>1 DEF Placed
  <2>2. CASE x \in DOMAIN p /\ y \notin DOMAIN p
    <3>1. a[x] \in 1 .. m
      BY <2>2 DEF Placed
    <3> QED BY <1>3, <2>2, <3>1
  <2>3. CASE x \notin DOMAIN p /\ y \notin DOMAIN p
    <3>1. x - n < y - n
      BY <1>2, <1>5
    <3> QED BY <1>3, <2>3, <3>1
  <2> QED BY <2>1, <2>2, <2>3
<1>6. ASSUME NEW i \in 1 .. m + 1, NEW j \in DOMAIN ss[i]
      PROVE  \E x \in DOMAIN r : c[x] = i /\ e[x] = j
  <2>1. CASE i = m + 1
    <3>1. n + j \in DOMAIN r /\ n + j \notin DOMAIN p /\ (n + j) - n = j
      BY <1>2, <2>1
    <3> QED BY <1>3, <2>1, <3>1
  <2>2. CASE i # m + 1
    <3>1. i \in 1 .. m
      BY <2>2
    <3>2. PICK x \in DOMAIN p : a[x] = i /\ b[x] = j
      BY <3>1 DEF Placed
    <3>3. x \in DOMAIN r
      BY <1>2
    <3> QED BY <1>3, <3>2, <3>3
  <2> QED BY <2>1, <2>2
<1>7. Placed(r, ss, m + 1, c, e)
  BY <1>4, <1>5, <1>6 DEF Placed
<1> QED BY <1>7 DEF r

\* Every member of a flattened sequence has its place.
LEMMA FlatPlaces ==
  ASSUME NEW ss, Listed(ss), \A i \in DOMAIN ss : Listed(ss[i])
  PROVE  \E a, b : Placed(FlattenSeq(ss), ss, Len(ss), a, b)
<1> DEFINE S == AllOf(ss)
           n == Len(ss)
<1>1. ss \in Seq(Seq(S))
  BY AllSequences
<1>2. n \in Nat /\ DOMAIN ss = 1 .. n
  <2> DEFINE T == ToSet(ss)
  <2>1. ss \in Seq(T)
    BY DEF Listed
  <2> HIDE DEF T
  <2> QED BY <2>1
<1> HIDE DEF S
<1>3. PICK g : /\ g[0] = <<>> /\ \A k \in 1 .. Len(ss) : g[k] = g[k - 1] \o ss[k]
               /\ FlattenSeq(ss) = g[Len(ss)]
  BY <1>1, FlatTrace
<1> HIDE DEF n
<1> DEFINE A == {k \in 0 .. n : Listed(g[k]) /\ \E a, b : Placed(g[k], ss, k, a, b)}
<1>4. A \in SUBSET (0 .. n) /\ 0 \in A
  <2>1. Listed(g[0]) /\ DOMAIN g[0] = {}
    BY <1>3 DEF Listed, ToSet
  <2>2. Placed(g[0], ss, 0, g, g)
    BY <2>1 DEF Placed
  <2>3. 0 \in 0 .. n
    BY <1>2
  <2> QED BY <2>1, <2>2, <2>3
<1>5. ASSUME NEW k \in A, k < n PROVE k + 1 \in A
  <2>1. k \in Nat /\ k + 1 \in 1 .. n /\ k + 1 \in 0 .. n /\ (k + 1) - 1 = k
    BY <1>2, <1>5
  <2>2. g[k + 1] = g[k] \o ss[k + 1] /\ Listed(ss[k + 1])
    BY <1>2, <1>3, <2>1 DEF n
  <2>3. Listed(g[k])
    OBVIOUS
  <2>4. PICK a, b : Placed(g[k], ss, k, a, b)
    OBVIOUS
  <2> HIDE DEF A
  <2>5. \E c, e : Placed(g[k + 1], ss, k + 1, c, e)
    BY <2>1, <2>2, <2>3, <2>4, PlacedNext
  <2>6. Listed(g[k + 1])
    <3>1. Joined(g[k] \o ss[k + 1], g[k], ss[k + 1])
      BY <2>2, <2>3, ListedConcat
    <3> QED BY <2>2, <3>1 DEF Joined
  <2> QED BY <2>1, <2>5, <2>6 DEF A
<1>6. A = 0 .. n
  <2> HIDE DEF A
  <2> QED BY <1>2, <1>4, <1>5, InductUpTo
<1>7. n \in 0 .. n
  BY <1>2
<1>8. \E a, b : Placed(g[n], ss, n, a, b)
  BY <1>6, <1>7
<1> QED BY <1>3, <1>8 DEF n

(***************************************************************************)
(* Operations in an order the differ keeps to: each once, and those of one *)
(* table in the order of their ranks.                                      *)
(***************************************************************************)
Rank(kind) ==
  CASE kind = "CreateIndex" -> 2
    [] kind = "DropIndex" -> 3
    [] kind = "CreateTrigger" -> 4
    [] kind = "DropTrigger" -> 5
    [] kind = "DropVirtualTable" -> 6
    [] OTHER -> 1

Before(x, y) == x # y /\ (x.table = y.table => Rank(x.kind) <= Rank(y.kind))

\* p holds the members of S.
Lists(p, S) ==
  /\ Listed(p)
  /\ \A i \in DOMAIN p : p[i] \in S
  /\ \A x \in S : \E i \in DOMAIN p : p[i] = x
  /\ \A i \in DOMAIN p : \A j \in DOMAIN p : i < j => Before(p[i], p[j])

\* One list after another.
LEMMA ListsConcat ==
  ASSUME NEW a, NEW A, Lists(a, A), NEW b, NEW B, Lists(b, B),
         \A x \in A : \A y \in B : Before(x, y)
  PROVE  Lists(a \o b, A \cup B)
<1> DEFINE p == a \o b
           n == Len(a)
<1>1. Joined(p, a, b)
  BY ListedConcat DEF Lists
<1> HIDE DEF p
<1>2. /\ Listed(p) /\ n \in Nat /\ Len(b) \in Nat
      /\ DOMAIN a = 1 .. n /\ DOMAIN b = 1 .. Len(b) /\ DOMAIN p = 1 .. n + Len(b)
      /\ \A i \in DOMAIN a : i \in DOMAIN p /\ p[i] = a[i]
      /\ \A i \in DOMAIN b : n + i \in DOMAIN p /\ p[n + i] = b[i]
      /\ \A k \in DOMAIN p : IF k \in DOMAIN a THEN p[k] = a[k]
                             ELSE k - n \in DOMAIN b /\ p[k] = b[k - n]
  BY <1>1 DEF Joined
<1> HIDE DEF n
<1>3. \A i \in DOMAIN p : p[i] \in A \cup B
  BY <1>2 DEF Lists
<1>4. \A x \in A \cup B : \E i \in DOMAIN p : p[i] = x
  BY <1>2 DEF Lists
<1>5. ASSUME NEW i \in DOMAIN p, NEW j \in DOMAIN p, i < j
      PROVE  Before(p[i], p[j])
  <2>1. CASE j \in DOMAIN a
    <3>1. i \in DOMAIN a
      BY <1>2, <1>5, <2>1
    <3> QED BY <1>2, <1>5, <2>1, <3>1 DEF Lists
  <2>2. CASE i \in DOMAIN a /\ j \notin DOMAIN a
    <3>1. p[i] \in A /\ p[j] \in B
      BY <1>2, <2>2 DEF Lists
    <3> QED BY <3>1
  <2>3. CASE i \notin DOMAIN a /\ j \notin DOMAIN a
    <3>1. i - n < j - n
      BY <1>2, <1>5
    <3> QED BY <1>2, <2>3, <3>1 DEF Lists
  <2> QED BY <2>1, <2>2, <2>3
<1>6. Lists(p, A \cup B)
  BY <1>2, <1>3, <1>4, <1>5 DEF Lists
<1> QED BY <1>6 DEF p

\* Many lists end to end.
LEMMA ListsFlat ==
  ASSUME NEW ss, Listed(ss), NEW SS, DOMAIN SS = DOMAIN ss,
         \A i \in DOMAIN ss : Lists(ss[i], SS[i]),
         \A i \in DOMAIN ss : \A j \in DOMAIN ss :
           i < j => \A x \in SS[i] : \A y \in SS[j] : Before(x, y)
  PROVE  Lists(FlattenSeq(ss), UNION {SS[i] : i \in DOMAIN ss})
<1> DEFINE p == FlattenSeq(ss)
           S == UNION {SS[i] : i \in DOMAIN ss}
           n == Len(ss)
<1>1. \A i \in DOMAIN ss : Listed(ss[i])
  BY DEF Lists
<1>2. /\ Listed(p)
      /\ \A i \in DOMAIN ss : \A j \in DOMAIN ss[i] : \E k \in DOMAIN p : p[k] = ss[i][j]
  BY <1>1, FlatListed
<1>3. PICK a, b : Placed(p, ss, n, a, b)
  BY <1>1, FlatPlaces
<1>4. n \in Nat /\ DOMAIN ss = 1 .. n
  <2> DEFINE T == ToSet(ss)
  <2>1. ss \in Seq(T)
    BY DEF Listed
  <2> HIDE DEF T
  <2> QED BY <2>1
<1> HIDE DEF p, n
<1>5. ASSUME NEW i \in DOMAIN p
      PROVE  /\ a[i] \in DOMAIN ss /\ b[i] \in DOMAIN ss[a[i]] /\ p[i] = ss[a[i]][b[i]]
             /\ p[i] \in SS[a[i]]
  BY <1>3, <1>4 DEF Placed, Lists
<1>6. \A i \in DOMAIN p : p[i] \in S
  BY <1>5
<1>7. \A x \in S : \E i \in DOMAIN p : p[i] = x
  BY <1>2 DEF Lists
<1>8. ASSUME NEW i \in DOMAIN p, NEW j \in DOMAIN p, i < j
      PROVE  Before(p[i], p[j])
  <2>1. a[i] < a[j] \/ (a[i] = a[j] /\ b[i] < b[j])
    BY <1>3, <1>8 DEF Placed
  <2>2. CASE a[i] < a[j]
    BY <1>5, <2>2
  <2>3. CASE a[i] = a[j] /\ b[i] < b[j]
    BY <1>5, <2>3 DEF Lists
  <2> QED BY <2>1, <2>2, <2>3
<1>9. Lists(p, S)
  BY <1>2, <1>6, <1>7, <1>8 DEF Lists
<1> QED BY <1>9 DEF p

\* The operations of one kind on one table.
Wanted(kind, t, args) == {Op(kind, t, x) : x \in args}

\* Operations of one kind on one table, each once.
LEMMA OpsList ==
  ASSUME NEW kind, NEW t, NEW args, IsFiniteSet(args)
  PROVE  Lists(Ops(kind, t, args), Wanted(kind, t, args))
<1> DEFINE f == SetToSeq(args)
           n == Cardinality(args)
           p == Ops(kind, t, args)
<1>1. /\ n \in Nat /\ f \in [1 .. n -> args] /\ \A x \in args : \E i \in 1 .. n : f[i] = x
      /\ \A i \in 1 .. n : \A j \in 1 .. n : f[i] = f[j] => i = j
  BY SetInSequence
<1>2. p = [i \in 1 .. n |-> Op(kind, t, f[i])]
  BY <1>1 DEF Ops
<1> HIDE DEF f, n, p
<1>3. Listed(p)
  BY <1>1, <1>2, FunctionListed
<1>4. \A i \in DOMAIN p : p[i] \in Wanted(kind, t, args)
  BY <1>1, <1>2 DEF Wanted
<1>5. \A x \in Wanted(kind, t, args) : \E i \in DOMAIN p : p[i] = x
  BY <1>1, <1>2 DEF Wanted
<1>6. ASSUME NEW i \in 1 .. n, NEW j \in 1 .. n, i < j
      PROVE  Before(p[i], p[j])
  <2>1. f[i] # f[j]
    BY <1>1, <1>6
  <2>2. p[i] = Op(kind, t, f[i]) /\ p[j] = Op(kind, t, f[j])
    BY <1>2
  <2>3. p[i].arg = f[i] /\ p[j].arg = f[j] /\ p[i].kind = kind /\ p[j].kind = kind
    BY <2>2 DEF Op
  <2>4. Rank(kind) \in Nat
    BY DEF Rank
  <2> QED BY <2>1, <2>3, <2>4 DEF Before
<1>7. Lists(p, Wanted(kind, t, args))
  BY <1>2, <1>3, <1>4, <1>5, <1>6 DEF Lists
<1> QED BY <1>7 DEF p

\* One operation, and none.
LEMMA OneList ==
  /\ Lists(<<>>, {})
  /\ \A x : Lists(<<x>>, {x})
<1>1. Lists(<<>>, {})
  BY EmptyScript DEF Lists
<1>2. ASSUME NEW x PROVE Lists(<<x>>, {x})
  <2>1. Listed(<<x>>)
    <3>1. <<x>> \in Seq({x})
      OBVIOUS
    <3> QED BY <3>1, SeqListed
  <2>2. DOMAIN <<x>> = {1} /\ <<x>>[1] = x
    OBVIOUS
  <2> DEFINE p == <<x>>
  <2> HIDE DEF p
  <2>3. Listed(p) /\ DOMAIN p = {1} /\ p[1] = x
    BY <2>1, <2>2 DEF p
  <2>4. Lists(p, {x})
    BY <2>3 DEF Lists
  <2> QED BY <2>4 DEF p
<1> QED BY <1>1, <1>2

(***************************************************************************)
(* What the differ asks for each table, as a set.                          *)
(***************************************************************************)
EquipAsked(t, des) ==
  Wanted("CreateIndex", t, des.indexes) \cup Wanted("CreateTrigger", t, des.triggers)

Rebuilding(t, des, lt) ==
  Op("RebuildTable", t, [def |-> des, keep |-> DOMAIN des.columns \cap DOMAIN lt.columns])

NewColumns(des, lt) == {<<c, des.columns[c]>> : c \in DOMAIN des.columns \ DOMAIN lt.columns}
NewIndexes(des, lt) == {i \in des.indexes : i.name \notin lt.indexes}
OldIndexes(des, lt) == lt.indexes \ {i.name : i \in des.indexes}
NewTriggers(des, lt) == {g \in des.triggers : g.name \notin lt.triggers}
OldTriggers(des, lt) == lt.triggers \ {g.name : g \in des.triggers}

TableAsked(t, des, lt) ==
  IF MustRebuildFor(des, lt)
  THEN {Rebuilding(t, des, lt)} \cup EquipAsked(t, des)
  ELSE Wanted("AddColumn", t, NewColumns(des, lt))
       \cup Wanted("CreateIndex", t, NewIndexes(des, lt))
       \cup Wanted("DropIndex", t, OldIndexes(des, lt))
       \cup Wanted("CreateTrigger", t, NewTriggers(des, lt))
       \cup Wanted("DropTrigger", t, OldTriggers(des, lt))

FullTextAsked(t, found) == IF t \in found.fts THEN {Op("DropVirtualTable", t, "-")} ELSE {}

ChangeAsked(d, found, t) ==
  IF t \notin DOMAIN d THEN {}
  ELSE IF t \notin DOMAIN found.table
  THEN {Op("CreateTable", t, d[t])} \cup EquipAsked(t, d[t])
  ELSE TableAsked(t, d[t], found.table[t])
       \cup (IF d[t].fts = {} THEN FullTextAsked(t, found) ELSE {})

DropAsked(found, t) == {Op("DropTable", t, "-")} \cup FullTextAsked(t, found)

Asked(d, found, t) ==
  IF t \in DOMAIN d THEN ChangeAsked(d, found, t)
  ELSE IF t \in DOMAIN found.table THEN DropAsked(found, t) ELSE {}

\* Operations of one kind, then of another.
LEMMA WantedBefore ==
  ASSUME NEW j, NEW k, Rank(j) < Rank(k), NEW t, NEW A, NEW B
  PROVE  \A x \in Wanted(j, t, A) : \A y \in Wanted(k, t, B) : Before(x, y)
<1> SUFFICES ASSUME NEW x \in Wanted(j, t, A), NEW y \in Wanted(k, t, B)
             PROVE  Before(x, y)
  OBVIOUS
<1>1. x.kind = j /\ y.kind = k
  BY DEF Wanted, Op
<1>2. Rank(j) \in Nat /\ Rank(k) \in Nat
  BY DEF Rank
<1>3. Rank(x.kind) <= Rank(y.kind) /\ Rank(x.kind) # Rank(y.kind)
  BY <1>1, <1>2
<1> QED BY <1>3 DEF Before

\* One operation, then some of another kind.
LEMMA OneWanted ==
  ASSUME NEW k, NEW t, NEW x
  PROVE  {Op(k, t, x)} = Wanted(k, t, {x})
BY DEF Wanted

\* The order of the kinds.
LEMMA Ranks ==
  /\ Rank("CreateTable") = 1 /\ Rank("RebuildTable") = 1 /\ Rank("AddColumn") = 1
  /\ Rank("DropTable") = 1 /\ Rank("CreateIndex") = 2 /\ Rank("DropIndex") = 3
  /\ Rank("CreateTrigger") = 4 /\ Rank("DropTrigger") = 5 /\ Rank("DropVirtualTable") = 6
BY DEF Rank

\* The indexes and triggers of a table.
LEMMA EquipLists ==
  ASSUME NEW d, Sound(d), NEW t \in DOMAIN d
  PROVE  Lists(Equip(t, d[t]), EquipAsked(t, d[t]))
<1> DEFINE A == d[t].indexes
           B == d[t].triggers
<1>1. IsFiniteSet(A) /\ IsFiniteSet(B)
  BY DEF Sound, SoundTable
<1>2. Lists(Ops("CreateIndex", t, A), Wanted("CreateIndex", t, A))
  BY <1>1, OpsList
<1>3. Lists(Ops("CreateTrigger", t, B), Wanted("CreateTrigger", t, B))
  BY <1>1, OpsList
<1>4. \A x \in Wanted("CreateIndex", t, A) : \A y \in Wanted("CreateTrigger", t, B) : Before(x, y)
  BY Ranks, WantedBefore
<1>5. Lists(Ops("CreateIndex", t, A) \o Ops("CreateTrigger", t, B),
            Wanted("CreateIndex", t, A) \cup Wanted("CreateTrigger", t, B))
  BY <1>2, <1>3, <1>4, ListsConcat
<1> QED BY <1>5 DEF Equip, EquipAsked

\* One operation of rank 1, then the indexes and triggers.
LEMMA EquippedLists ==
  ASSUME NEW d, Sound(d), NEW t \in DOMAIN d, NEW k \in {"CreateTable", "RebuildTable"}, NEW x
  PROVE  Lists(<<Op(k, t, x)>> \o Equip(t, d[t]), {Op(k, t, x)} \cup EquipAsked(t, d[t]))
<1>1. {Op(k, t, x)} = Wanted(k, t, {x})
  BY OneWanted
<1>2. \A y \in {Op(k, t, x)} : \A z \in EquipAsked(t, d[t]) : Before(y, z)
  <2>1. /\ \A y \in Wanted(k, t, {x}) : \A z \in Wanted("CreateIndex", t, d[t].indexes) : Before(y, z)
        /\ \A y \in Wanted(k, t, {x}) : \A z \in Wanted("CreateTrigger", t, d[t].triggers) : Before(y, z)
    BY Ranks, WantedBefore
  <2> QED BY <1>1, <2>1 DEF EquipAsked
<1>3. Lists(<<Op(k, t, x)>>, {Op(k, t, x)})
  BY OneList
<1> QED BY <1>2, <1>3, EquipLists, ListsConcat

\* The sets of a table that is there and in the schema are finite.
LEMMA FiniteArgs ==
  ASSUME NEW d, Sound(d), NEW db, Formed(db), NEW t \in DOMAIN d \cap DOMAIN db.table
  PROVE  LET des == d[t]
             lt == LiveTable(db, t)
         IN  /\ IsFiniteSet(NewColumns(des, lt)) /\ IsFiniteSet(NewIndexes(des, lt))
             /\ IsFiniteSet(OldIndexes(des, lt)) /\ IsFiniteSet(NewTriggers(des, lt))
             /\ IsFiniteSet(OldTriggers(des, lt))
<1> DEFINE des == d[t]
           lt == LiveTable(db, t)
<1>1. /\ IsFiniteSet(DOMAIN des.columns) /\ IsFiniteSet(des.indexes) /\ IsFiniteSet(des.triggers)
      /\ IsFiniteSet(db.index) /\ IsFiniteSet(db.trigger)
  BY DEF Sound, SoundTable, Formed
<1>2. IsFiniteSet(lt.indexes) /\ IsFiniteSet(lt.triggers)
  <2> DEFINE X == {j \in db.index : j.table = t}
             Y == {h \in db.trigger : h.table = t}
             f == [x \in X |-> x.name]
             g == [x \in Y |-> x.name]
  <2>1. IsFiniteSet(X) /\ IsFiniteSet(Y)
    BY <1>1, FS_Subset
  <2>2. IsFiniteSet({f[x] : x \in DOMAIN f}) /\ IsFiniteSet({g[x] : x \in DOMAIN g})
    BY <2>1, FiniteRange
  <2>3. lt.indexes = {f[x] : x \in DOMAIN f} /\ lt.triggers = {g[x] : x \in DOMAIN g}
    BY DEF LiveTable
  <2> QED BY <2>2, <2>3
<1>3. IsFiniteSet(NewColumns(des, lt))
  <2> DEFINE N == DOMAIN des.columns \ DOMAIN lt.columns
             f == [c \in N |-> <<c, des.columns[c]>>]
  <2>1. IsFiniteSet(N)
    BY <1>1, FS_Subset
  <2>2. IsFiniteSet({f[x] : x \in DOMAIN f})
    BY <2>1, FiniteRange
  <2>3. NewColumns(des, lt) = {f[x] : x \in DOMAIN f}
    BY DEF NewColumns
  <2> QED BY <2>2, <2>3
<1> HIDE DEF des, lt
<1>4. /\ NewIndexes(des, lt) \subseteq des.indexes /\ OldIndexes(des, lt) \subseteq lt.indexes
      /\ NewTriggers(des, lt) \subseteq des.triggers /\ OldTriggers(des, lt) \subseteq lt.triggers
  BY DEF NewIndexes, OldIndexes, NewTriggers, OldTriggers
<1>5. /\ IsFiniteSet(NewIndexes(des, lt)) /\ IsFiniteSet(OldIndexes(des, lt))
      /\ IsFiniteSet(NewTriggers(des, lt)) /\ IsFiniteSet(OldTriggers(des, lt))
  BY <1>1, <1>2, <1>4, FS_Subset DEF des
<1> QED BY <1>3, <1>5 DEF des, lt

\* A table that is there and in the schema.
LEMMA TableLists ==
  ASSUME NEW d, Sound(d), NEW db, Formed(db), NEW t \in DOMAIN d \cap DOMAIN db.table
  PROVE  Lists(DiffTable(t, d[t], LiveTable(db, t)), TableAsked(t, d[t], LiveTable(db, t)))
<1> DEFINE des == d[t]
           lt == LiveTable(db, t)
<1>1. CASE MustRebuildFor(des, lt)
  <2> DEFINE x == [def |-> des, keep |-> DOMAIN des.columns \cap DOMAIN lt.columns]
  <2>1. Lists(<<Op("RebuildTable", t, x)>> \o Equip(t, des),
              {Op("RebuildTable", t, x)} \cup EquipAsked(t, des))
    BY EquippedLists
  <2> QED BY <1>1, <2>1 DEF DiffTable, TableAsked, Rebuilding
<1>2. CASE ~ MustRebuildFor(des, lt)
  <2> DEFINE A == NewColumns(des, lt)
             B == NewIndexes(des, lt)
             C == OldIndexes(des, lt)
             E == NewTriggers(des, lt)
             F == OldTriggers(des, lt)
  <2>1. /\ IsFiniteSet(A) /\ IsFiniteSet(B) /\ IsFiniteSet(C) /\ IsFiniteSet(E) /\ IsFiniteSet(F)
    BY FiniteArgs
  <2>2. DiffTable(t, des, lt) =
          Ops("AddColumn", t, A) \o Ops("CreateIndex", t, B) \o Ops("DropIndex", t, C)
          \o Ops("CreateTrigger", t, E) \o Ops("DropTrigger", t, F)
    BY <1>2 DEF DiffTable, NewColumns, NewIndexes, OldIndexes, NewTriggers, OldTriggers
  <2>3. TableAsked(t, des, lt) =
          Wanted("AddColumn", t, A) \cup Wanted("CreateIndex", t, B) \cup Wanted("DropIndex", t, C)
          \cup Wanted("CreateTrigger", t, E) \cup Wanted("DropTrigger", t, F)
    BY <1>2 DEF TableAsked
  <2> HIDE DEF A, B, C, E, F, des, lt
  <2>4. /\ Lists(Ops("AddColumn", t, A), Wanted("AddColumn", t, A))
        /\ Lists(Ops("CreateIndex", t, B), Wanted("CreateIndex", t, B))
        /\ Lists(Ops("DropIndex", t, C), Wanted("DropIndex", t, C))
        /\ Lists(Ops("CreateTrigger", t, E), Wanted("CreateTrigger", t, E))
        /\ Lists(Ops("DropTrigger", t, F), Wanted("DropTrigger", t, F))
    BY <2>1, OpsList
  <2> DEFINE a == Ops("AddColumn", t, A)
             b == Ops("CreateIndex", t, B)
             c == Ops("DropIndex", t, C)
             e == Ops("CreateTrigger", t, E)
             f == Ops("DropTrigger", t, F)
             AA == Wanted("AddColumn", t, A)
             BB == Wanted("CreateIndex", t, B)
             CC == Wanted("DropIndex", t, C)
             EE == Wanted("CreateTrigger", t, E)
             FF == Wanted("DropTrigger", t, F)
  <2>5. \A x \in AA : \A y \in BB : Before(x, y)
    BY Ranks, WantedBefore
  <2>6. \A x \in AA \cup BB : \A y \in CC : Before(x, y)
    BY Ranks, WantedBefore
  <2>7. \A x \in AA \cup BB \cup CC : \A y \in EE : Before(x, y)
    <3>1. /\ \A x \in AA : \A y \in EE : Before(x, y)
          /\ \A x \in BB : \A y \in EE : Before(x, y)
          /\ \A x \in CC : \A y \in EE : Before(x, y)
      BY Ranks, WantedBefore
    <3> QED BY <3>1
  <2>8. \A x \in AA \cup BB \cup CC \cup EE : \A y \in FF : Before(x, y)
    <3>1. /\ \A x \in AA : \A y \in FF : Before(x, y)
          /\ \A x \in BB : \A y \in FF : Before(x, y)
          /\ \A x \in CC : \A y \in FF : Before(x, y)
          /\ \A x \in EE : \A y \in FF : Before(x, y)
      BY Ranks, WantedBefore
    <3> QED BY <3>1
  <2> HIDE DEF a, b, c, e, f, AA, BB, CC, EE, FF
  <2>9. Lists(a \o b, AA \cup BB)
    BY <2>4, <2>5, ListsConcat DEF a, b, AA, BB
  <2>10. Lists((a \o b) \o c, (AA \cup BB) \cup CC)
    BY <2>4, <2>6, <2>9, ListsConcat DEF c, CC
  <2>11. Lists(((a \o b) \o c) \o e, ((AA \cup BB) \cup CC) \cup EE)
    BY <2>4, <2>7, <2>10, ListsConcat DEF e, EE
  <2>12. Lists((((a \o b) \o c) \o e) \o f, (((AA \cup BB) \cup CC) \cup EE) \cup FF)
    BY <2>4, <2>8, <2>11, ListsConcat DEF f, FF
  <2> QED BY <2>2, <2>3, <2>12 DEF a, b, c, e, f, AA, BB, CC, EE, FF, des, lt
<1> QED BY <1>1, <1>2

\* The full-text table goes last.
LEMMA FullTextLast ==
  ASSUME NEW t, NEW found
  PROVE  /\ Lists(DropFullText(t, found), FullTextAsked(t, found))
         /\ \A des, lt : \A x \in TableAsked(t, des, lt) : \A y \in FullTextAsked(t, found) :
              Before(x, y)
         /\ \A x : \A y \in FullTextAsked(t, found) : Before(Op("DropTable", t, x), y)
<1> DEFINE Z == Wanted("DropVirtualTable", t, {"-"})
<1>1. Lists(DropFullText(t, found), FullTextAsked(t, found))
  BY OneList DEF DropFullText, FullTextAsked
<1>2. FullTextAsked(t, found) \subseteq Z
  BY OneWanted DEF FullTextAsked
<1>3. ASSUME NEW k, Rank(k) < 6, NEW A
      PROVE  \A x \in Wanted(k, t, A) : \A y \in Z : Before(x, y)
  BY <1>3, Ranks, WantedBefore
<1> HIDE DEF Z
<1>4. ASSUME NEW des, NEW lt, NEW x \in TableAsked(t, des, lt) PROVE \A y \in Z : Before(x, y)
  <2>1. CASE MustRebuildFor(des, lt)
    <3> DEFINE r == [def |-> des, keep |-> DOMAIN des.columns \cap DOMAIN lt.columns]
    <3>1. \/ x \in Wanted("RebuildTable", t, {r})
          \/ x \in Wanted("CreateIndex", t, des.indexes)
          \/ x \in Wanted("CreateTrigger", t, des.triggers)
      BY <2>1, OneWanted DEF TableAsked, Rebuilding, EquipAsked
    <3> QED BY <1>3, <3>1, Ranks
  <2>2. CASE ~ MustRebuildFor(des, lt)
    <3>1. \/ x \in Wanted("AddColumn", t, NewColumns(des, lt))
          \/ x \in Wanted("CreateIndex", t, NewIndexes(des, lt))
          \/ x \in Wanted("DropIndex", t, OldIndexes(des, lt))
          \/ x \in Wanted("CreateTrigger", t, NewTriggers(des, lt))
          \/ x \in Wanted("DropTrigger", t, OldTriggers(des, lt))
      BY <2>2 DEF TableAsked
    <3> QED BY <1>3, <3>1, Ranks
  <2> QED BY <2>1, <2>2
<1>5. ASSUME NEW x PROVE \A y \in Z : Before(Op("DropTable", t, x), y)
  <2>1. Op("DropTable", t, x) \in Wanted("DropTable", t, {x})
    BY DEF Wanted
  <2> QED BY <1>3, <2>1, Ranks
<1> QED BY <1>1, <1>2, <1>4, <1>5

\* An operation is for the table it is asked for.
LEMMA AskedTable ==
  ASSUME NEW d, NEW found, NEW t, NEW x \in Asked(d, found, t) \cup ChangeAsked(d, found, t)
                                            \cup DropAsked(found, t)
  PROVE  x.table = t
<1>1. \A k, A : \A y \in Wanted(k, t, A) : y.table = t
  BY DEF Wanted, Op
<1>2. \A y \in FullTextAsked(t, found) : y.table = t
  BY DEF FullTextAsked, Op
<1>3. \A des : \A y \in EquipAsked(t, des) : y.table = t
  BY <1>1 DEF EquipAsked
<1>4. \A des, lt : \A y \in TableAsked(t, des, lt) : y.table = t
  <2> SUFFICES ASSUME NEW des, NEW lt, NEW y \in TableAsked(t, des, lt) PROVE y.table = t
    OBVIOUS
  <2>1. CASE MustRebuildFor(des, lt)
    <3>1. Rebuilding(t, des, lt).table = t
      BY DEF Rebuilding, Op
    <3> QED BY <1>3, <2>1, <3>1 DEF TableAsked
  <2>2. CASE ~ MustRebuildFor(des, lt)
    BY <1>1, <2>2 DEF TableAsked
  <2> QED BY <2>1, <2>2
<1>5. \A y : Op("CreateTable", t, y).table = t /\ Op("DropTable", t, y).table = t
  BY DEF Op
<1>6. \A y \in ChangeAsked(d, found, t) : y.table = t
  BY <1>2, <1>3, <1>4, <1>5 DEF ChangeAsked
<1>7. \A y \in DropAsked(found, t) : y.table = t
  BY <1>2, <1>5 DEF DropAsked
<1> QED BY <1>6, <1>7 DEF Asked

\* Operations for different tables may come in any order.
LEMMA TablesApart ==
  ASSUME NEW d, NEW found, NEW t, NEW u, t # u,
         NEW x \in Asked(d, found, t) \cup ChangeAsked(d, found, t) \cup DropAsked(found, t),
         NEW y \in Asked(d, found, u) \cup ChangeAsked(d, found, u) \cup DropAsked(found, u)
  PROVE  Before(x, y)
<1>1. x.table = t /\ y.table = u
  BY AskedTable
<1> QED BY <1>1 DEF Before

\* The operations for one model.
LEMMA ChangeLists ==
  ASSUME NEW d, Sound(d), NEW db, Formed(db), NEW i \in 1 .. Len(TableOrder)
  PROVE  Lists(Change(d, LiveSchema(db), i), ChangeAsked(d, LiveSchema(db), TableOrder[i]))
<1> DEFINE t == TableOrder[i]
           found == LiveSchema(db)
<1>1. CASE t \notin DOMAIN d
  BY <1>1, OneList DEF Change, ChangeAsked
<1>2. CASE t \in DOMAIN d /\ t \notin DOMAIN found.table
  <2>1. Change(d, found, i) = <<Op("CreateTable", t, d[t])>> \o Equip(t, d[t])
    BY <1>2 DEF Change
  <2>2. ChangeAsked(d, found, t) = {Op("CreateTable", t, d[t])} \cup EquipAsked(t, d[t])
    BY <1>2 DEF ChangeAsked
  <2> HIDE DEF t
  <2>3. Lists(<<Op("CreateTable", t, d[t])>> \o Equip(t, d[t]),
              {Op("CreateTable", t, d[t])} \cup EquipAsked(t, d[t]))
    BY <1>2, EquippedLists
  <2> QED BY <2>1, <2>2, <2>3 DEF t
<1>3. CASE t \in DOMAIN d /\ t \in DOMAIN found.table
  <2> DEFINE p == DiffTable(t, d[t], LiveTable(db, t))
             q == IF d[t].fts = {} THEN DropFullText(t, found) ELSE <<>>
             P == TableAsked(t, d[t], LiveTable(db, t))
             Q == IF d[t].fts = {} THEN FullTextAsked(t, found) ELSE {}
  <2>1. Change(d, found, i) = p \o q /\ ChangeAsked(d, found, t) = P \cup Q
    BY <1>3, LiveParts DEF Change, ChangeAsked
  <2>2. Lists(p, P)
    <3>1. t \in DOMAIN d \cap DOMAIN db.table
      BY <1>3, LiveParts
    <3> HIDE DEF t
    <3> QED BY <3>1, TableLists
  <2>3. Lists(q, Q) /\ \A x \in P : \A y \in Q : Before(x, y)
    <3> HIDE DEF t
    <3> QED BY FullTextLast, OneList
  <2> HIDE DEF p, q, P, Q
  <2> QED BY <2>1, <2>2, <2>3, ListsConcat
<1> QED BY <1>1, <1>2, <1>3

\* The first pass.
LEMMA ChangesList ==
  ASSUME NEW d, Sound(d), NEW db, Formed(db)
  PROVE  Lists(Changes(d, LiveSchema(db)),
               UNION {ChangeAsked(d, LiveSchema(db), TableOrder[i]) : i \in DOMAIN TableOrder})
<1> DEFINE n == Len(TableOrder)
           found == LiveSchema(db)
           ss == [i \in 1 .. n |-> Change(d, found, i)]
           SS == [i \in 1 .. n |-> ChangeAsked(d, found, TableOrder[i])]
<1>1. n \in Nat /\ DOMAIN TableOrder = 1 .. n
  BY OrderIsFinite
<1>2. Changes(d, found) = FlattenSeq(ss)
  BY DEF Changes, Change
<1>3. /\ DOMAIN ss = 1 .. n /\ DOMAIN SS = 1 .. n
      /\ \A i \in 1 .. n : Lists(ss[i], SS[i])
  BY ChangeLists
<1>4. Listed(ss)
  <2>1. ss = [i \in 1 .. n |-> ss[i]]
    OBVIOUS
  <2> HIDE DEF ss, n
  <2> QED BY <1>1, <1>3, <2>1, FunctionListed
<1>5. ASSUME NEW i \in 1 .. n, NEW j \in 1 .. n, i < j, NEW x \in SS[i], NEW y \in SS[j]
      PROVE  Before(x, y)
  <2>1. TableOrder[i] # TableOrder[j]
    <3> HIDE DEF n
    <3> QED BY <1>1, <1>5, MigrationAssumption
  <2>2. x \in ChangeAsked(d, found, TableOrder[i]) /\ y \in ChangeAsked(d, found, TableOrder[j])
    OBVIOUS
  <2> HIDE DEF SS, n, found
  <2> QED BY <2>1, <2>2, TablesApart
<1>6. UNION {ChangeAsked(d, found, TableOrder[i]) : i \in DOMAIN TableOrder}
        = UNION {SS[i] : i \in DOMAIN ss}
  BY <1>1
<1>7. Lists(FlattenSeq(ss), UNION {SS[i] : i \in DOMAIN ss})
  <2> HIDE DEF ss, SS
  <2> QED BY <1>3, <1>4, <1>5, ListsFlat
<1> HIDE DEF ss, SS
<1> QED BY <1>2, <1>6, <1>7

\* The second pass.
LEMMA DeletionsList ==
  ASSUME NEW d, Sound(d), NEW db, Formed(db),
         NEW order \in SetToSeqs(DOMAIN LiveSchema(db).table \ DOMAIN d)
  PROVE  Lists(Deletions(order, LiveSchema(db)),
               UNION {DropAsked(LiveSchema(db), t) : t \in DOMAIN LiveSchema(db).table \ DOMAIN d})
<1> DEFINE found == LiveSchema(db)
           S == DOMAIN found.table \ DOMAIN d
           n == Cardinality(S)
           piece(i) == <<Op("DropTable", order[i], "-")>> \o DropFullText(order[i], found)
           ss == [i \in 1 .. n |-> piece(i)]
           SS == [i \in 1 .. n |-> DropAsked(found, order[i])]
<1>1. IsFiniteSet(S)
  <2>1. S \subseteq ToSet(TableOrder)
    BY LiveParts DEF Formed
  <2> HIDE DEF S
  <2> QED BY <2>1, OrderIsFinite, FS_Subset
<1>2. /\ n \in Nat /\ order \in [1 .. n -> S]
      /\ \A i \in 1 .. n : \A j \in 1 .. n : order[i] = order[j] => i = j
      /\ \A t \in S : \E i \in 1 .. n : order[i] = t
  <2>1. n \in Nat
    <3> HIDE DEF S
    <3> QED BY <1>1, FS_CardinalityType
  <2>2. order \in [1 .. n -> S] /\ \A i \in 1 .. n : \A j \in 1 .. n : order[i] = order[j] => i = j
    <3>1. order \in [1 .. n -> S] /\ \A i \in 1 .. n : \A j \in 1 .. n : i # j => order[i] # order[j]
      BY DEF SetToSeqs
    <3> HIDE DEF n, S
    <3> QED BY <3>1
  <2>3. order \in Surjection(1 .. n, S)
    <3>1. order \in Injection(1 .. n, S)
      <4> HIDE DEF n, S
      <4> QED BY <2>2 DEF Injection, IsInjective
    <3>2. IsFiniteSet(1 .. n) /\ Cardinality(1 .. n) = n
      BY <2>1, FS_Interval
    <3> HIDE DEF S
    <3>3. Cardinality(1 .. n) = Cardinality(S) <=> order \in Surjection(1 .. n, S)
      BY <1>1, <3>1, <3>2, FS_Injection
    <3> QED BY <3>2, <3>3
  <2> HIDE DEF n, S
  <2> QED BY <2>1, <2>2, <2>3 DEF Surjection
<1>3. Deletions(order, found) = FlattenSeq(ss)
  <2>1. Len(order) = n
    <3> HIDE DEF n, S
    <3> QED BY <1>2
  <2> QED BY <2>1 DEF Deletions
<1>4. ASSUME NEW i \in 1 .. n PROVE Lists(piece(i), DropAsked(found, order[i]))
  <2> DEFINE t == order[i]
  <2>1. Lists(<<Op("DropTable", t, "-")>>, {Op("DropTable", t, "-")})
    BY OneList
  <2>2. /\ Lists(DropFullText(t, found), FullTextAsked(t, found))
        /\ \A x \in {Op("DropTable", t, "-")} : \A y \in FullTextAsked(t, found) : Before(x, y)
    <3> HIDE DEF t
    <3> QED BY FullTextLast
  <2>3. Lists(<<Op("DropTable", t, "-")>> \o DropFullText(t, found),
              {Op("DropTable", t, "-")} \cup FullTextAsked(t, found))
    <3> HIDE DEF t
    <3> QED BY <2>1, <2>2, ListsConcat
  <2> QED BY <2>3 DEF DropAsked
<1> HIDE DEF piece
<1>5. /\ DOMAIN ss = 1 .. n /\ DOMAIN SS = 1 .. n
      /\ \A i \in 1 .. n : ss[i] = piece(i) /\ SS[i] = DropAsked(found, order[i])
  OBVIOUS
<1>6. Listed(ss)
  <2>1. ss = [i \in 1 .. n |-> ss[i]]
    OBVIOUS
  <2> HIDE DEF ss, n
  <2> QED BY <1>2, <1>5, <2>1, FunctionListed
<1> HIDE DEF ss, SS, n, S
<1>7. ASSUME NEW i \in 1 .. n, NEW j \in 1 .. n, i < j, NEW x \in SS[i], NEW y \in SS[j]
      PROVE  Before(x, y)
  <2>1. order[i] # order[j]
    BY <1>2, <1>7
  <2>2. x \in DropAsked(found, order[i]) /\ y \in DropAsked(found, order[j])
    BY <1>5
  <2> QED BY <2>1, <2>2, TablesApart
<1>8. UNION {DropAsked(found, t) : t \in S} = UNION {SS[i] : i \in DOMAIN ss}
  <2>1. \A x : x \in UNION {SS[i] : i \in DOMAIN ss} <=> \E i \in 1 .. n : x \in DropAsked(found, order[i])
    BY <1>5
  <2>2. \A x : x \in UNION {DropAsked(found, t) : t \in S} <=> \E t \in S : x \in DropAsked(found, t)
    OBVIOUS
  <2>3. \A i \in 1 .. n : order[i] \in S
    BY <1>2
  <2> QED BY <1>2, <2>1, <2>2, <2>3
<1>9. Lists(FlattenSeq(ss), UNION {SS[i] : i \in DOMAIN ss})
  <2>1. DOMAIN SS = DOMAIN ss /\ \A i \in DOMAIN ss : Lists(ss[i], SS[i])
    BY <1>4, <1>5
  <2>2. \A i \in DOMAIN ss : \A j \in DOMAIN ss :
          i < j => \A x \in SS[i] : \A y \in SS[j] : Before(x, y)
    BY <1>5, <1>7
  <2> QED BY <1>6, <2>1, <2>2, ListsFlat
<1> QED BY <1>3, <1>8, <1>9 DEF S

\* Every operation the differ returns, once, those of a table in order.
AllAsked(d, found) == UNION {Asked(d, found, t) : t \in DOMAIN d \cup DOMAIN found.table}

\* The differ returns what is asked, each operation once and in order.
LEMMA DiffLists ==
  ASSUME NEW d, Sound(d), NEW db, Formed(db), NEW ops \in ComputeDiff(d, LiveSchema(db))
  PROVE  Lists(ops, AllAsked(d, LiveSchema(db)))
<1> DEFINE found == LiveSchema(db)
           A == UNION {ChangeAsked(d, found, TableOrder[i]) : i \in DOMAIN TableOrder}
           B == UNION {DropAsked(found, t) : t \in DOMAIN found.table \ DOMAIN d}
<1>1. PICK order \in SetToSeqs(DOMAIN found.table \ DOMAIN d) :
        ops = Changes(d, found) \o Deletions(order, found)
  BY DEF ComputeDiff
<1>2. Lists(Changes(d, found), A)
  BY ChangesList
<1>3. Lists(Deletions(order, found), B)
  BY DeletionsList
<1>4. \A t : t \notin DOMAIN d => ChangeAsked(d, found, t) = {}
  BY DEF ChangeAsked
<1>5. ASSUME NEW x \in A, NEW y \in B PROVE Before(x, y)
  <2>1. PICK i \in DOMAIN TableOrder : x \in ChangeAsked(d, found, TableOrder[i])
    OBVIOUS
  <2>2. PICK u \in DOMAIN found.table \ DOMAIN d : y \in DropAsked(found, u)
    OBVIOUS
  <2>3. TableOrder[i] # u
    BY <1>4, <2>1, <2>2
  <2> HIDE DEF found
  <2> QED BY <2>1, <2>2, <2>3, TablesApart
<1>6. A \cup B = AllAsked(d, found)
  <2>1. \A x : x \in A <=> \E t \in DOMAIN d : x \in Asked(d, found, t)
    <3>1. \A x : x \in A <=> \E i \in DOMAIN TableOrder : x \in ChangeAsked(d, found, TableOrder[i])
      OBVIOUS
    <3>2. \A t \in DOMAIN d : \E i \in DOMAIN TableOrder : TableOrder[i] = t
      BY DEF Sound, ToSet
    <3> HIDE DEF A, found
    <3> QED BY <1>4, <3>1, <3>2 DEF Asked
  <2>2. \A x : x \in B <=> \E t \in DOMAIN found.table \ DOMAIN d : x \in Asked(d, found, t)
    <3>1. \A x : x \in B <=> \E t \in DOMAIN found.table \ DOMAIN d : x \in DropAsked(found, t)
      OBVIOUS
    <3> HIDE DEF B, found
    <3> QED BY <3>1 DEF Asked
  <2>3. \A x : x \in AllAsked(d, found)
               <=> \E t \in DOMAIN d \cup DOMAIN found.table : x \in Asked(d, found, t)
    BY DEF AllAsked
  <2> HIDE DEF A, B, found
  <2> QED BY <2>1, <2>2, <2>3
<1> HIDE DEF A, B
<1>7. Lists(Changes(d, found) \o Deletions(order, found), A \cup B)
  <2> HIDE DEF found
  <2> QED BY <1>2, <1>3, <1>5, ListsConcat
<1> QED BY <1>1, <1>6, <1>7

(***************************************************************************)
(* What it means that an operation is asked.                               *)
(***************************************************************************)
Remade(d, db, t) ==
  t \in DOMAIN d \cap DOMAIN db.table /\ MustRebuildFor(d[t], LiveTable(db, t))

Stays(d, db, t) ==
  t \in DOMAIN d \cap DOMAIN db.table /\ ~ MustRebuildFor(d[t], LiveTable(db, t))

Means(d, db, op) ==
  LET t == op.table
      lt == LiveTable(db, t)
  IN
  /\ op = Op(op.kind, op.table, op.arg)
  /\ op.kind \in {"CreateTable", "RebuildTable", "AddColumn", "CreateIndex", "DropIndex",
                  "CreateTrigger", "DropTrigger", "DropTable", "DropVirtualTable"}
  /\ op.kind = "CreateTable" => t \in DOMAIN d \ DOMAIN db.table /\ op.arg = d[t]
  /\ op.kind = "DropTable" => t \in DOMAIN db.table \ DOMAIN d /\ op.arg = "-"
  /\ op.kind = "RebuildTable" => Remade(d, db, t) /\ op = Rebuilding(t, d[t], lt)
  /\ op.kind = "AddColumn" => Stays(d, db, t) /\ op.arg \in NewColumns(d[t], lt)
  /\ op.kind = "CreateIndex" =>
       /\ t \in DOMAIN d /\ op.arg \in d[t].indexes
       /\ Stays(d, db, t) => op.arg.name \notin lt.indexes
  /\ op.kind = "DropIndex" => Stays(d, db, t) /\ op.arg \in OldIndexes(d[t], lt)
  /\ op.kind = "CreateTrigger" =>
       /\ t \in DOMAIN d /\ op.arg \in d[t].triggers
       /\ Stays(d, db, t) => op.arg.name \notin lt.triggers
  /\ op.kind = "DropTrigger" => Stays(d, db, t) /\ op.arg \in OldTriggers(d[t], lt)
  /\ op.kind = "DropVirtualTable" => (t \in DOMAIN d => d[t].fts = {})

\* An operation by its parts.
LEMMA OpParts ==
  ASSUME NEW k, NEW t, NEW x
  PROVE  /\ Op(k, t, x).kind = k /\ Op(k, t, x).table = t /\ Op(k, t, x).arg = x
BY DEF Op

\* What is asked has a reason in the schema and the database.
LEMMA AskedMeans ==
  ASSUME NEW d, NEW db, NEW op \in AllAsked(d, LiveSchema(db))
  PROVE  Means(d, db, op)
<1> DEFINE found == LiveSchema(db)
<1>1. PICK t \in DOMAIN d \cup DOMAIN found.table : op \in Asked(d, found, t)
  BY DEF AllAsked
<1>2. /\ DOMAIN found.table = DOMAIN db.table
      /\ \A u \in DOMAIN db.table : found.table[u] = LiveTable(db, u)
  BY LiveParts
<1> DEFINE lt == LiveTable(db, t)
<1>3. \A k, A : op \in Wanted(k, t, A) => op.kind = k /\ op.table = t /\ op.arg \in A
                                           /\ op = Op(op.kind, op.table, op.arg)
  BY DEF Wanted, Op
<1>4. ASSUME op \in FullTextAsked(t, found), t \in DOMAIN d => d[t].fts = {}
      PROVE  Means(d, db, op)
  <2>1. op \in Wanted("DropVirtualTable", t, {"-"})
    BY <1>4, OneWanted DEF FullTextAsked
  <2>2. op.kind = "DropVirtualTable" /\ op.table = t /\ op = Op(op.kind, op.table, op.arg)
    BY <1>3, <2>1
  <2> QED BY <1>4, <2>2 DEF Means
<1>5. ASSUME t \in DOMAIN d, op \in EquipAsked(t, d[t]), ~ Stays(d, db, t) PROVE Means(d, db, op)
  <2>1. \/ op \in Wanted("CreateIndex", t, d[t].indexes)
        \/ op \in Wanted("CreateTrigger", t, d[t].triggers)
    BY <1>5 DEF EquipAsked
  <2> QED BY <1>3, <1>5, <2>1 DEF Means
<1>6. CASE t \in DOMAIN d /\ t \notin DOMAIN found.table
  <2>1. \/ op = Op("CreateTable", t, d[t])
        \/ op \in EquipAsked(t, d[t])
    BY <1>1, <1>6 DEF Asked, ChangeAsked
  <2>2. CASE op = Op("CreateTable", t, d[t])
    <3>1. op.kind = "CreateTable" /\ op.table = t /\ op.arg = d[t] /\ op = Op(op.kind, op.table, op.arg)
      BY <2>2, OpParts
    <3> QED BY <1>2, <1>6, <3>1 DEF Means
  <2>3. ~ Stays(d, db, t)
    BY <1>2, <1>6 DEF Stays
  <2> QED BY <1>5, <1>6, <2>1, <2>2, <2>3
<1>7. CASE Remade(d, db, t)
  <2>1. \/ op = Rebuilding(t, d[t], lt)
        \/ op \in EquipAsked(t, d[t])
        \/ op \in FullTextAsked(t, found) /\ d[t].fts = {}
    BY <1>1, <1>2, <1>7 DEF Asked, ChangeAsked, TableAsked, Remade
  <2>2. CASE op = Rebuilding(t, d[t], lt)
    <3>1. op.kind = "RebuildTable" /\ op.table = t /\ op = Op(op.kind, op.table, op.arg)
      BY <2>2, OpParts DEF Rebuilding
    <3> QED BY <1>7, <2>2, <3>1 DEF Means
  <2>3. t \in DOMAIN d /\ ~ Stays(d, db, t)
    BY <1>7 DEF Stays, Remade
  <2> QED BY <1>4, <1>5, <2>1, <2>2, <2>3
<1>8. CASE Stays(d, db, t)
  <2>1. \/ op \in Wanted("AddColumn", t, NewColumns(d[t], lt))
        \/ op \in Wanted("CreateIndex", t, NewIndexes(d[t], lt))
        \/ op \in Wanted("DropIndex", t, OldIndexes(d[t], lt))
        \/ op \in Wanted("CreateTrigger", t, NewTriggers(d[t], lt))
        \/ op \in Wanted("DropTrigger", t, OldTriggers(d[t], lt))
        \/ op \in FullTextAsked(t, found) /\ d[t].fts = {}
    BY <1>1, <1>2, <1>8 DEF Asked, ChangeAsked, TableAsked, Stays
  <2>2. CASE op \in Wanted("AddColumn", t, NewColumns(d[t], lt))
    <3>1. op.kind = "AddColumn" /\ op.table = t /\ op.arg \in NewColumns(d[t], lt)
          /\ op = Op(op.kind, op.table, op.arg)
      BY <1>3, <2>2
    <3> QED BY <1>8, <3>1 DEF Means
  <2>3. CASE op \in Wanted("CreateIndex", t, NewIndexes(d[t], lt))
    <3>1. op.kind = "CreateIndex" /\ op.table = t /\ op.arg \in NewIndexes(d[t], lt)
          /\ op = Op(op.kind, op.table, op.arg) /\ t \in DOMAIN d
      BY <1>3, <1>8, <2>3 DEF Stays
    <3> QED BY <1>8, <3>1 DEF Means, NewIndexes
  <2>4. CASE op \in Wanted("DropIndex", t, OldIndexes(d[t], lt))
    <3>1. op.kind = "DropIndex" /\ op.table = t /\ op.arg \in OldIndexes(d[t], lt)
          /\ op = Op(op.kind, op.table, op.arg)
      BY <1>3, <2>4
    <3> QED BY <1>8, <3>1 DEF Means
  <2>5. CASE op \in Wanted("CreateTrigger", t, NewTriggers(d[t], lt))
    <3>1. op.kind = "CreateTrigger" /\ op.table = t /\ op.arg \in NewTriggers(d[t], lt)
          /\ op = Op(op.kind, op.table, op.arg) /\ t \in DOMAIN d
      BY <1>3, <1>8, <2>5 DEF Stays
    <3> QED BY <1>8, <3>1 DEF Means, NewTriggers
  <2>6. CASE op \in Wanted("DropTrigger", t, OldTriggers(d[t], lt))
    <3>1. op.kind = "DropTrigger" /\ op.table = t /\ op.arg \in OldTriggers(d[t], lt)
          /\ op = Op(op.kind, op.table, op.arg)
      BY <1>3, <2>6
    <3> QED BY <1>8, <3>1 DEF Means
  <2> QED BY <1>4, <2>1, <2>2, <2>3, <2>4, <2>5, <2>6
<1>9. CASE t \notin DOMAIN d
  <2>1. t \in DOMAIN found.table
    BY <1>9
  <2>2. \/ op = Op("DropTable", t, "-")
        \/ op \in FullTextAsked(t, found)
    BY <1>1, <1>9, <2>1 DEF Asked, DropAsked
  <2>3. CASE op = Op("DropTable", t, "-")
    <3>1. /\ op.kind = "DropTable" /\ op.table = t /\ op.arg = "-"
          /\ op = Op(op.kind, op.table, op.arg)
      BY <2>3, OpParts
    <3> QED BY <1>2, <1>9, <2>1, <3>1 DEF Means
  <2> QED BY <1>4, <1>9, <2>2, <2>3
<1> QED BY <1>2, <1>6, <1>7, <1>8, <1>9 DEF Remade, Stays

\* What is asked of each table.
Complete(d, db, A) ==
  /\ \A t \in DOMAIN d \ DOMAIN db.table : Op("CreateTable", t, d[t]) \in A
  /\ \A t \in DOMAIN db.table \ DOMAIN d : Op("DropTable", t, "-") \in A
  /\ \A t : Remade(d, db, t) => Rebuilding(t, d[t], LiveTable(db, t)) \in A
  /\ \A t \in DOMAIN d : ~ Stays(d, db, t) =>
       /\ \A i \in d[t].indexes : Op("CreateIndex", t, i) \in A
       /\ \A g \in d[t].triggers : Op("CreateTrigger", t, g) \in A
  /\ \A t : Stays(d, db, t) =>
       LET lt == LiveTable(db, t) IN
       /\ \A x \in NewColumns(d[t], lt) : Op("AddColumn", t, x) \in A
       /\ \A i \in NewIndexes(d[t], lt) : Op("CreateIndex", t, i) \in A
       /\ \A n \in OldIndexes(d[t], lt) : Op("DropIndex", t, n) \in A
       /\ \A g \in NewTriggers(d[t], lt) : Op("CreateTrigger", t, g) \in A
       /\ \A n \in OldTriggers(d[t], lt) : Op("DropTrigger", t, n) \in A

\* What the schema and the database call for is asked.
LEMMA AskedIsComplete ==
  ASSUME NEW d, NEW db
  PROVE  Complete(d, db, AllAsked(d, LiveSchema(db)))
<1> DEFINE found == LiveSchema(db)
           A == AllAsked(d, found)
<1>1. /\ DOMAIN found.table = DOMAIN db.table
      /\ \A u \in DOMAIN db.table : found.table[u] = LiveTable(db, u)
  BY LiveParts
<1>2. \A t \in DOMAIN d \cup DOMAIN db.table : Asked(d, found, t) \subseteq A
  BY <1>1 DEF AllAsked
<1> HIDE DEF A
<1>3. \A t \in DOMAIN d \ DOMAIN db.table :
        Asked(d, found, t) = {Op("CreateTable", t, d[t])} \cup EquipAsked(t, d[t])
  BY <1>1 DEF Asked, ChangeAsked
<1>4. \A t \in DOMAIN db.table \ DOMAIN d : Op("DropTable", t, "-") \in Asked(d, found, t)
  BY <1>1 DEF Asked, DropAsked
<1>5. \A t \in DOMAIN d \cap DOMAIN db.table :
        TableAsked(t, d[t], LiveTable(db, t)) \subseteq Asked(d, found, t)
  BY <1>1 DEF Asked, ChangeAsked
<1> HIDE DEF found
<1>6. \A k, t, S : \A x \in S : Op(k, t, x) \in Wanted(k, t, S)
  BY DEF Wanted
<1>7. ASSUME NEW t, Remade(d, db, t)
      PROVE  /\ Rebuilding(t, d[t], LiveTable(db, t)) \in A
             /\ EquipAsked(t, d[t]) \subseteq A
  BY <1>2, <1>5, <1>7 DEF Remade, TableAsked
<1>8. ASSUME NEW t \in DOMAIN d, ~ Stays(d, db, t) PROVE EquipAsked(t, d[t]) \subseteq A
  BY <1>2, <1>3, <1>7, <1>8 DEF Remade, Stays
<1>9. ASSUME NEW t, Stays(d, db, t)
      PROVE  LET lt == LiveTable(db, t) IN
             /\ Wanted("AddColumn", t, NewColumns(d[t], lt)) \subseteq A
             /\ Wanted("CreateIndex", t, NewIndexes(d[t], lt)) \subseteq A
             /\ Wanted("DropIndex", t, OldIndexes(d[t], lt)) \subseteq A
             /\ Wanted("CreateTrigger", t, NewTriggers(d[t], lt)) \subseteq A
             /\ Wanted("DropTrigger", t, OldTriggers(d[t], lt)) \subseteq A
  BY <1>2, <1>5, <1>9 DEF Stays, TableAsked
<1>10. Complete(d, db, A)
  <2>1. \A t \in DOMAIN d \ DOMAIN db.table : Op("CreateTable", t, d[t]) \in A
    BY <1>2, <1>3
  <2>2. \A t \in DOMAIN db.table \ DOMAIN d : Op("DropTable", t, "-") \in A
    BY <1>2, <1>4
  <2>3. \A t \in DOMAIN d : ~ Stays(d, db, t) =>
          /\ \A i \in d[t].indexes : Op("CreateIndex", t, i) \in A
          /\ \A g \in d[t].triggers : Op("CreateTrigger", t, g) \in A
    BY <1>6, <1>8 DEF EquipAsked
  <2>4. ASSUME NEW t, Stays(d, db, t)
        PROVE  LET lt == LiveTable(db, t) IN
               /\ \A x \in NewColumns(d[t], lt) : Op("AddColumn", t, x) \in A
               /\ \A i \in NewIndexes(d[t], lt) : Op("CreateIndex", t, i) \in A
               /\ \A n \in OldIndexes(d[t], lt) : Op("DropIndex", t, n) \in A
               /\ \A g \in NewTriggers(d[t], lt) : Op("CreateTrigger", t, g) \in A
               /\ \A n \in OldTriggers(d[t], lt) : Op("DropTrigger", t, n) \in A
    <3>1. LET lt == LiveTable(db, t) IN
             /\ Wanted("AddColumn", t, NewColumns(d[t], lt)) \subseteq A
             /\ Wanted("CreateIndex", t, NewIndexes(d[t], lt)) \subseteq A
             /\ Wanted("DropIndex", t, OldIndexes(d[t], lt)) \subseteq A
             /\ Wanted("CreateTrigger", t, NewTriggers(d[t], lt)) \subseteq A
             /\ Wanted("DropTrigger", t, OldTriggers(d[t], lt)) \subseteq A
      BY <1>9, <2>4
    <3> QED BY <1>6, <3>1
  <2> QED BY <1>7, <2>1, <2>2, <2>3, <2>4 DEF Complete
<1> QED BY <1>10 DEF A, found

(***************************************************************************)
(* The script: every statement is one of the asked operation it comes      *)
(* from.                                                                   *)
(***************************************************************************)
Says(s, op) ==
  /\ s.table = op.table
  /\ \/ s.kind = op.kind /\ op.kind # "CreateIndex" /\ s = op
     \/ /\ s.kind = "CreateIndex" /\ op.kind = "CreateIndex"
        /\ s.arg = [op.arg EXCEPT !.name = IndexName(op.table, op.arg.columns)]
     \/ s.kind = "CreateVirtualTable" /\ op.kind = "CreateTable"
     \/ s.kind \in {"ForeignKeysOff", "ForeignKeysOn"} /\ op.kind = "RebuildTable"

\* p holds the statements of op, each of another kind.
SaidBy(p, op) ==
  /\ Listed(p)
  /\ \A i \in DOMAIN p : Says(p[i], op)
  /\ \A i \in DOMAIN p : \A j \in DOMAIN p : i < j => p[i].kind # p[j].kind
  /\ \E i \in DOMAIN p : p[i].kind = op.kind

\* An operation that is one statement.
LEMMA OneSaid ==
  ASSUME NEW s, NEW op, Says(s, op), s.kind = op.kind
  PROVE  SaidBy(<<s>>, op)
<1>1. Lists(<<s>>, {s})
  BY OneList
<1>2. DOMAIN <<s>> = {1} /\ <<s>>[1] = s
  OBVIOUS
<1> DEFINE p == <<s>>
<1> HIDE DEF p
<1>3. Listed(p) /\ DOMAIN p = {1} /\ p[1] = s
  BY <1>1, <1>2 DEF Lists, p
<1>4. SaidBy(p, op)
  BY <1>3 DEF SaidBy
<1> QED BY <1>4 DEF p

\* The statements of an operation say what was asked.
LEMMA StatementsSay ==
  ASSUME NEW d, NEW db, NEW op, Means(d, db, op)
  PROVE  SaidBy(GenerateSql(op), op)
<1> DEFINE k == op.kind
           t == op.table
           a == op.arg
<1>1. op = [kind |-> k, table |-> t, arg |-> a]
  BY DEF Means, Op
<1>2. CASE k = "CreateTable"
  <2> DEFINE v == Op("CreateVirtualTable", t, "-")
  <2>1. GenerateSql(op) = <<op>> \/ GenerateSql(op) = <<op, v>>
    <3>1. GenerateSql(op) = <<op>> \o (IF op.arg.fts = {} THEN <<>> ELSE <<v>>)
      BY <1>2 DEF GenerateSql
    <3>2. <<op>> \o <<>> = <<op>> /\ <<op>> \o <<v>> = <<op, v>>
      BY PairConcat
    <3> QED BY <3>1, <3>2
  <2>2. Says(op, op)
    BY <1>2 DEF Says
  <2>3. SaidBy(<<op>>, op)
    BY <2>2, OneSaid
  <2>4. v.kind = "CreateVirtualTable" /\ v.table = t
    BY DEF Op
  <2> HIDE DEF v
  <2>5. Says(v, op)
    BY <1>2, <2>4 DEF Says
  <2> DEFINE p == <<op, v>>
  <2>6. Listed(p)
    <3>1. p \in Seq({op, v})
      OBVIOUS
    <3> QED BY <3>1, SeqListed
  <2>7. DOMAIN p = 1 .. 2 /\ p[1] = op /\ p[2] = v
    OBVIOUS
  <2> HIDE DEF p, t, a
  <2>8. SaidBy(p, op)
    BY <1>2, <2>2, <2>4, <2>5, <2>6, <2>7 DEF SaidBy
  <2> QED BY <2>1, <2>3, <2>8 DEF p
<1>3. CASE k = "RebuildTable"
  <2> DEFINE off == Op("ForeignKeysOff", t, "-")
             on == Op("ForeignKeysOn", t, "-")
             p == <<off, op, on>>
  <2>1. GenerateSql(op) = p
    BY <1>3 DEF GenerateSql
  <2>2. /\ off.kind = "ForeignKeysOff" /\ on.kind = "ForeignKeysOn"
        /\ off.table = t /\ on.table = t
    BY DEF Op
  <2> HIDE DEF off, on
  <2>3. DOMAIN p = 1 .. 3 /\ p[1] = off /\ p[2] = op /\ p[3] = on
    OBVIOUS
  <2>4. Listed(p)
    <3>1. p \in Seq({off, op, on})
      OBVIOUS
    <3> QED BY <3>1, SeqListed
  <2>5. Says(off, op) /\ Says(on, op) /\ Says(op, op)
    BY <1>3, <2>2 DEF Says
  <2> HIDE DEF p, t, a
  <2>6. \A i \in DOMAIN p : Says(p[i], op)
    BY <2>3, <2>5
  <2>7. \A i \in DOMAIN p : \A j \in DOMAIN p : i < j => p[i].kind # p[j].kind
    <3>1. p[1].kind # p[2].kind /\ p[1].kind # p[3].kind /\ p[2].kind # p[3].kind
      BY <1>3, <2>2, <2>3
    <3>2. \A i \in 1 .. 3 : \A j \in 1 .. 3 :
            i < j => (i = 1 /\ j = 2) \/ (i = 1 /\ j = 3) \/ (i = 2 /\ j = 3)
      OBVIOUS
    <3> QED BY <2>3, <3>1, <3>2
  <2>8. 2 \in DOMAIN p /\ p[2].kind = k
    BY <2>3
  <2> QED BY <2>1, <2>4, <2>6, <2>7, <2>8 DEF SaidBy
<1>4. CASE k = "CreateIndex"
  <2> DEFINE b == [a EXCEPT !.name = IndexName(t, a.columns)]
             s == [kind |-> k, table |-> t, arg |-> b]
  <2>1. GenerateSql(op) = <<[op EXCEPT !.arg.name = IndexName(op.table, op.arg.columns)]>>
    BY <1>4 DEF GenerateSql
  <2>2. [op EXCEPT !.arg.name = IndexName(op.table, op.arg.columns)]
          = [op EXCEPT !.arg = [op.arg EXCEPT !.name = IndexName(op.table, op.arg.columns)]]
    OBVIOUS
  <2>3. [op EXCEPT !.arg = b] = s
    <3> HIDE DEF b, k, t, a
    <3> QED BY <1>1
  <2>4. GenerateSql(op) = <<s>>
    BY <2>1, <2>2, <2>3
  <2>5. s.kind = k /\ s.table = t /\ s.arg = b
    OBVIOUS
  <2> HIDE DEF s
  <2>6. Says(s, op)
    BY <1>4, <2>5 DEF Says
  <2> QED BY <2>4, <2>5, <2>6, OneSaid
<1>5. CASE k \notin {"CreateTable", "RebuildTable", "CreateIndex"}
  <2>1. GenerateSql(op) = <<op>>
    BY <1>5 DEF GenerateSql
  <2>2. Says(op, op)
    BY <1>5 DEF Says
  <2> QED BY <2>1, <2>2, OneSaid
<1> QED BY <1>2, <1>3, <1>4, <1>5

\* The statements of q come from the operations A, each from o's.
Spelt(q, A, o) ==
  /\ Listed(q)
  /\ \A x \in DOMAIN q : o[x] \in A /\ Says(q[x], o[x])
  /\ \A x \in DOMAIN q : \A y \in DOMAIN q :
       x < y => (o[x] = o[y] /\ q[x].kind # q[y].kind) \/ Before(o[x], o[y])
  /\ \A op \in A : \E x \in DOMAIN q : o[x] = op /\ q[x].kind = op.kind

\* So do those of a whole script, in the order of the operations.
LEMMA ScriptIsSpelt ==
  ASSUME NEW d, NEW db, NEW ops, NEW A, Lists(ops, A), \A op \in A : Means(d, db, op)
  PROVE  \E o : Spelt(Script(ops), A, o)
<1> DEFINE n == Len(ops)
           ss == Pieces(ops)
           q == Script(ops)
<1>1. n \in Nat /\ DOMAIN ops = 1 .. n
  <2> DEFINE S == ToSet(ops)
  <2>1. ops \in Seq(S)
    BY DEF Lists, Listed
  <2> HIDE DEF S
  <2> QED BY <2>1
<1>2. DOMAIN ss = DOMAIN ops /\ \A i \in DOMAIN ops : ss[i] = GenerateSql(ops[i])
  BY <1>1 DEF Pieces
<1>3. Listed(ss) /\ Len(ss) = n
  <2>1. ss = [i \in 1 .. n |-> ss[i]]
    BY DEF Pieces
  <2> HIDE DEF ss, n
  <2> QED BY <1>1, <1>2, <2>1, FunctionListed
<1>4. q = FlattenSeq(ss)
  BY DEF Script, Pieces
<1> HIDE DEF ss, q, n
<1>5. \A i \in DOMAIN ss : ops[i] \in A /\ SaidBy(ss[i], ops[i])
  BY <1>2, StatementsSay DEF Lists
<1>6. \A i \in DOMAIN ss : Listed(ss[i])
  BY <1>5 DEF SaidBy
<1>7. PICK a, b : Placed(q, ss, n, a, b)
  BY <1>3, <1>4, <1>6, FlatPlaces
<1> DEFINE o == [x \in DOMAIN q |-> ops[a[x]]]
<1>8. ASSUME NEW x \in DOMAIN q
      PROVE  /\ a[x] \in DOMAIN ss /\ b[x] \in DOMAIN ss[a[x]] /\ q[x] = ss[a[x]][b[x]]
             /\ o[x] = ops[a[x]] /\ o[x] \in A /\ Says(q[x], o[x])
  BY <1>1, <1>2, <1>5, <1>7 DEF Placed, SaidBy
<1> HIDE DEF o
<1>9. ASSUME NEW x \in DOMAIN q, NEW y \in DOMAIN q, x < y
      PROVE  (o[x] = o[y] /\ q[x].kind # q[y].kind) \/ Before(o[x], o[y])
  <2>1. a[x] < a[y] \/ (a[x] = a[y] /\ b[x] < b[y])
    BY <1>7, <1>9 DEF Placed
  <2>2. CASE a[x] < a[y]
    BY <1>2, <1>8, <2>2 DEF Lists
  <2>3. CASE a[x] = a[y] /\ b[x] < b[y]
    BY <1>5, <1>8, <2>3 DEF SaidBy
  <2> QED BY <2>1, <2>2, <2>3
<1>10. ASSUME NEW op \in A PROVE \E x \in DOMAIN q : o[x] = op /\ q[x].kind = op.kind
  <2>1. PICK i \in DOMAIN ops : ops[i] = op
    BY DEF Lists
  <2>2. PICK j \in DOMAIN ss[i] : ss[i][j].kind = op.kind
    BY <1>2, <1>5, <2>1 DEF SaidBy
  <2>3. PICK x \in DOMAIN q : a[x] = i /\ b[x] = j
    BY <1>1, <1>7, <2>1 DEF Placed
  <2> QED BY <1>8, <2>1, <2>2, <2>3
<1>11. Listed(q)
  BY <1>3, <1>4, <1>6, FlatListed
<1> QED BY <1>8, <1>9, <1>10, <1>11 DEF Spelt, q

(***************************************************************************)
(* The same of the statements alone: what each one is for, and that every  *)
(* statement needed is there.                                              *)
(***************************************************************************)
Spells(s, k, t) ==
  /\ s.kind = "CreateIndex" /\ s.table = t
  /\ s.arg.name = IndexName(t, k.columns) /\ s.arg.columns = k.columns /\ s.arg.unique = k.unique

Sense(d, db, s) ==
  LET t == s.table
      lt == LiveTable(db, t)
  IN
  /\ s.kind = "CreateTable" => t \in DOMAIN d \ DOMAIN db.table
  /\ s.kind = "DropTable" => t \in DOMAIN db.table \ DOMAIN d
  /\ s.kind = "RebuildTable" =>
       Remade(d, db, t) /\ s.arg.keep \subseteq DOMAIN db.table[t].columns
  /\ s.kind = "AddColumn" => Stays(d, db, t) /\ s.arg[1] \notin DOMAIN db.table[t].columns
  /\ s.kind = "CreateIndex" =>
       t \in DOMAIN d /\ \E k \in d[t].indexes :
         Spells(s, k, t) /\ (Stays(d, db, t) => k.name \notin lt.indexes)
  /\ s.kind = "DropIndex" => Stays(d, db, t) /\ s.arg \in OldIndexes(d[t], lt)
  /\ s.kind = "CreateTrigger" =>
       /\ t \in DOMAIN d /\ s.arg \in d[t].triggers
       /\ Stays(d, db, t) => s.arg.name \notin lt.triggers
  /\ s.kind = "DropTrigger" => Stays(d, db, t) /\ s.arg \in OldTriggers(d[t], lt)
  /\ s.kind = "DropVirtualTable" => (t \in DOMAIN d => d[t].fts = {})

\* Two statements of a kind are for different things.
Apart(d, r, s) ==
  /\ r.kind \in {"CreateTable", "DropTable", "RebuildTable"} => r.table # s.table
  /\ r.kind = "AddColumn" /\ r.table = s.table => r.arg[1] # s.arg[1]
  /\ r.kind = "DropIndex" /\ r.table = s.table => r.arg # s.arg
  /\ r.kind = "CreateIndex" /\ r.table = s.table =>
       \E k \in d[r.table].indexes : \E i \in d[r.table].indexes :
         k # i /\ Spells(r, k, r.table) /\ Spells(s, i, r.table)

AllThere(q, d, db) ==
  /\ \A t \in DOMAIN d \ DOMAIN db.table : \E x \in DOMAIN q : Does(q, x, "CreateTable", t)
  /\ \A t \in DOMAIN db.table \ DOMAIN d : \E x \in DOMAIN q : Does(q, x, "DropTable", t)
  /\ \A t : Remade(d, db, t) => \E x \in DOMAIN q : Does(q, x, "RebuildTable", t)
  /\ \A t \in DOMAIN d :
       LET lt == LiveTable(db, t) IN
       /\ \A k \in d[t].indexes :
            (Stays(d, db, t) => k.name \notin lt.indexes) => \E x \in DOMAIN q : Spells(q[x], k, t)
       /\ \A g \in d[t].triggers :
            (Stays(d, db, t) => g.name \notin lt.triggers) =>
              \E x \in DOMAIN q : Does(q, x, "CreateTrigger", t) /\ q[x].arg.name = g.name
  /\ \A t : Stays(d, db, t) =>
       LET lt == LiveTable(db, t) IN
       /\ \A c \in DOMAIN d[t].columns \ DOMAIN db.table[t].columns :
            \E x \in DOMAIN q : Does(q, x, "AddColumn", t) /\ q[x].arg[1] = c
       /\ \A n \in OldIndexes(d[t], lt) :
            \E x \in DOMAIN q : Does(q, x, "DropIndex", t) /\ q[x].arg = n
       /\ \A n \in OldTriggers(d[t], lt) :
            \E x \in DOMAIN q : Does(q, x, "DropTrigger", t) /\ q[x].arg = n

Scripted(q, d, db) ==
  /\ Listed(q)
  /\ \A x \in DOMAIN q : Sense(d, db, q[x])
  /\ \A x \in DOMAIN q : \A y \in DOMAIN q : x < y =>
       /\ q[x].table = q[y].table => Rank(q[x].kind) <= Rank(q[y].kind)
       /\ q[x].kind = q[y].kind => Apart(d, q[x], q[y])
  /\ AllThere(q, d, db)

\* A CREATE INDEX names the index after its columns.
LEMMA IndexSpelt ==
  ASSUME NEW d, IndexRecords(d), NEW db, NEW op, Means(d, db, op), op.kind = "CreateIndex",
         NEW s, Says(s, op)
  PROVE  Spells(s, op.arg, op.table)
<1> DEFINE k == op.arg
           t == op.table
           n == IndexName(t, k.columns)
<1>1. k = [name |-> k.name, columns |-> k.columns, unique |-> k.unique]
  BY DEF Means, IndexRecords
<1>2. s.kind = "CreateIndex" /\ s.table = t /\ s.arg = [k EXCEPT !.name = n]
  BY DEF Says
<1>3. [k EXCEPT !.name = n] = [name |-> n, columns |-> k.columns, unique |-> k.unique]
  <2> DEFINE a == k.name
             b == k.columns
             c == k.unique
  <2>1. k = [name |-> a, columns |-> b, unique |-> c]
    BY <1>1
  <2> HIDE DEF k, a, b, c, n
  <2> QED BY <2>1
<1> DEFINE w == s.arg
<1>4. w = [name |-> n, columns |-> k.columns, unique |-> k.unique]
  BY <1>2, <1>3
<1> HIDE DEF w
<1>5. w.name = n /\ w.columns = k.columns /\ w.unique = k.unique
  BY <1>4
<1> QED BY <1>2, <1>5 DEF Spells, w

\* What a statement is for.
LEMMA StatementSense ==
  ASSUME NEW d, IndexRecords(d), NEW db, NEW op, Means(d, db, op), NEW s, Says(s, op)
  PROVE  Sense(d, db, s) /\ Rank(s.kind) = Rank(op.kind)
<1> DEFINE t == op.table
           lt == LiveTable(db, t)
<1>1. s.table = t
  BY DEF Says
<1>2. CASE s.kind = op.kind /\ op.kind # "CreateIndex" /\ s = op
  <2>1. op.kind = "RebuildTable" =>
          Remade(d, db, t) /\ op.arg.keep \subseteq DOMAIN db.table[t].columns
    <3> SUFFICES ASSUME op.kind = "RebuildTable"
                 PROVE  Remade(d, db, t) /\ op.arg.keep \subseteq DOMAIN db.table[t].columns
      OBVIOUS
    <3>1. Remade(d, db, t) /\ op = Rebuilding(t, d[t], lt)
      BY DEF Means
    <3>2. op.arg = [def |-> d[t], keep |-> DOMAIN d[t].columns \cap DOMAIN lt.columns]
      BY <3>1, OpParts DEF Rebuilding
    <3>3. DOMAIN lt.columns = DOMAIN db.table[t].columns
      BY DEF LiveTable, LiveColumns
    <3> HIDE DEF t, lt
    <3> QED BY <3>1, <3>2, <3>3
  <2>2. op.kind = "AddColumn" => op.arg[1] \notin DOMAIN db.table[t].columns
    <3> SUFFICES ASSUME op.kind = "AddColumn" PROVE op.arg[1] \notin DOMAIN db.table[t].columns
      OBVIOUS
    <3>1. PICK c \in DOMAIN d[t].columns \ DOMAIN lt.columns : op.arg = <<c, d[t].columns[c]>>
      BY DEF Means, NewColumns
    <3>2. op.arg[1] = c
      BY <3>1
    <3>3. DOMAIN lt.columns = DOMAIN db.table[t].columns
      BY DEF LiveTable, LiveColumns
    <3> QED BY <3>1, <3>2, <3>3
  <2> QED BY <1>2, <2>1, <2>2 DEF Means, Sense
<1>3. CASE s.kind = "CreateIndex" /\ op.kind = "CreateIndex"
  <2>1. Spells(s, op.arg, t)
    BY <1>3, IndexSpelt
  <2> QED BY <1>1, <1>3, <2>1 DEF Means, Sense
<1>4. CASE s.kind = "CreateVirtualTable" /\ op.kind = "CreateTable"
  BY <1>4 DEF Sense, Rank
<1>5. CASE s.kind \in {"ForeignKeysOff", "ForeignKeysOn"} /\ op.kind = "RebuildTable"
  BY <1>5 DEF Sense, Rank
<1> QED BY <1>2, <1>3, <1>4, <1>5 DEF Says

\* Statements of one kind come from different operations.
LEMMA StatementsApart ==
  ASSUME NEW d, IndexRecords(d), NEW db, NEW op, Means(d, db, op), NEW r, Says(r, op),
         NEW po, Means(d, db, po), NEW s, Says(s, po), op # po, r.kind = s.kind
  PROVE  Apart(d, r, s)
<1> DEFINE t == r.table
<1>1. CASE r.kind \in {"CreateTable", "DropTable", "RebuildTable"}
  <2>1. r = op /\ s = po
    BY <1>1 DEF Says
  <2>2. ASSUME r.table = s.table PROVE FALSE
    <3>1. CASE r.kind = "CreateTable"
      BY <2>1, <2>2, <3>1 DEF Means
    <3>2. CASE r.kind = "RebuildTable"
      BY <2>1, <2>2, <3>2 DEF Means
    <3>3. CASE r.kind = "DropTable"
      BY <2>1, <2>2, <3>3 DEF Means
    <3> QED BY <1>1, <3>1, <3>2, <3>3
  <2> QED BY <1>1, <2>2 DEF Apart
<1>2. CASE r.kind = "AddColumn"
  <2>1. r = op /\ s = po
    BY <1>2 DEF Says
  <2>2. ASSUME r.table = s.table, r.arg[1] = s.arg[1] PROVE FALSE
    <3> DEFINE D == d[t].columns
    <3>1. PICK c : r.arg = <<c, D[c]>>
      BY <1>2, <2>1 DEF Means, NewColumns
    <3>2. PICK e : s.arg = <<e, D[e]>>
      BY <1>2, <2>1, <2>2 DEF Means, NewColumns
    <3>3. r.arg = s.arg
      <4> HIDE DEF D
      <4>1. c = e
        BY <2>2, <3>1, <3>2
      <4> QED BY <3>1, <3>2, <4>1
    <3> QED BY <1>2, <2>1, <2>2, <3>3 DEF Means
  <2> QED BY <1>2, <2>2 DEF Apart
<1>3. CASE r.kind = "DropIndex"
  <2>1. r = op /\ s = po
    BY <1>3 DEF Says
  <2> QED BY <1>3, <2>1 DEF Means, Apart
<1>4. CASE r.kind = "CreateIndex"
  <2> SUFFICES ASSUME r.table = s.table
               PROVE  \E k \in d[t].indexes : \E i \in d[t].indexes :
                        k # i /\ Spells(r, k, t) /\ Spells(s, i, t)
    BY <1>4 DEF Apart
  <2>1. op.kind = "CreateIndex" /\ po.kind = "CreateIndex" /\ op.table = t /\ po.table = t
    BY <1>4 DEF Says
  <2>2. Spells(r, op.arg, t) /\ Spells(s, po.arg, t)
    BY <2>1, IndexSpelt
  <2>3. op.arg \in d[t].indexes /\ po.arg \in d[t].indexes /\ op.arg # po.arg
    BY <2>1 DEF Means
  <2> QED BY <2>2, <2>3
<1>5. CASE r.kind \notin {"CreateTable", "DropTable", "RebuildTable", "AddColumn", "DropIndex",
                          "CreateIndex"}
  BY <1>5 DEF Apart
<1> QED BY <1>1, <1>2, <1>3, <1>4, <1>5

\* The script of the differ on db.
LEMMA SpeltIsScripted ==
  ASSUME NEW d, IndexRecords(d), NEW db, NEW q, NEW A, NEW o, Spelt(q, A, o),
         \A op \in A : Means(d, db, op), Complete(d, db, A)
  PROVE  Scripted(q, d, db)
<1>1. ASSUME NEW x \in DOMAIN q
      PROVE  /\ o[x] \in A /\ Means(d, db, o[x]) /\ Says(q[x], o[x]) /\ q[x].table = o[x].table
             /\ Sense(d, db, q[x]) /\ Rank(q[x].kind) = Rank(o[x].kind)
  <2>1. o[x] \in A /\ Means(d, db, o[x]) /\ Says(q[x], o[x])
    BY DEF Spelt
  <2> QED BY <2>1, StatementSense DEF Says
<1>2. ASSUME NEW x \in DOMAIN q, NEW y \in DOMAIN q, x < y
      PROVE  /\ q[x].table = q[y].table => Rank(q[x].kind) <= Rank(q[y].kind)
             /\ q[x].kind = q[y].kind => Apart(d, q[x], q[y])
  <2>1. (o[x] = o[y] /\ q[x].kind # q[y].kind) \/ Before(o[x], o[y])
    BY <1>2 DEF Spelt
  <2>2. Rank(q[x].kind) \in Nat /\ Rank(q[y].kind) \in Nat
    BY DEF Rank
  <2>3. q[x].table = q[y].table => Rank(q[x].kind) <= Rank(q[y].kind)
    BY <1>1, <2>1, <2>2 DEF Before
  <2>4. q[x].kind = q[y].kind => o[x] # o[y]
    BY <2>1 DEF Before
  <2> QED BY <1>1, <2>3, <2>4, StatementsApart
<1>3. ASSUME NEW op \in A PROVE \E x \in DOMAIN q : Says(q[x], op) /\ Does(q, x, op.kind, op.table)
  <2>1. PICK x \in DOMAIN q : o[x] = op /\ q[x].kind = op.kind
    BY DEF Spelt
  <2> QED BY <1>1, <2>1 DEF Does
<1>4. ASSUME NEW k, NEW t, NEW x, Op(k, t, x) \in A, k \notin {"CreateIndex"}
      PROVE  \E y \in DOMAIN q : Does(q, y, k, t) /\ q[y].arg = x
  <2>1. PICK y \in DOMAIN q : Says(q[y], Op(k, t, x)) /\ Does(q, y, k, t)
    BY <1>3, <1>4, OpParts
  <2>2. k \in {"CreateTable", "RebuildTable", "AddColumn", "DropIndex", "CreateTrigger",
               "DropTrigger", "DropTable", "DropVirtualTable"}
    BY <1>4, OpParts DEF Means
  <2>3. q[y] = Op(k, t, x)
    BY <1>4, <2>1, <2>2, OpParts DEF Says, Does
  <2> QED BY <2>1, <2>3, OpParts
<1>5. ASSUME NEW t, NEW k, Op("CreateIndex", t, k) \in A
      PROVE  \E y \in DOMAIN q : Spells(q[y], k, t)
  <2>1. PICK y \in DOMAIN q : Says(q[y], Op("CreateIndex", t, k))
    BY <1>3, <1>5
  <2> QED BY <1>5, <2>1, IndexSpelt, OpParts
<1>6. AllThere(q, d, db)
  <2>1. /\ \A t \in DOMAIN d \ DOMAIN db.table : \E x \in DOMAIN q : Does(q, x, "CreateTable", t)
        /\ \A t \in DOMAIN db.table \ DOMAIN d : \E x \in DOMAIN q : Does(q, x, "DropTable", t)
    BY <1>4 DEF Complete
  <2>2. \A t : Remade(d, db, t) => \E x \in DOMAIN q : Does(q, x, "RebuildTable", t)
    BY <1>4 DEF Complete, Rebuilding
  <2>3. ASSUME NEW t \in DOMAIN d, NEW k \in d[t].indexes,
               Stays(d, db, t) => k.name \notin LiveTable(db, t).indexes
        PROVE  \E x \in DOMAIN q : Spells(q[x], k, t)
    <3>1. Op("CreateIndex", t, k) \in A
      BY <2>3 DEF Complete, NewIndexes
    <3> QED BY <1>5, <3>1
  <2>4. ASSUME NEW t \in DOMAIN d, NEW g \in d[t].triggers,
               Stays(d, db, t) => g.name \notin LiveTable(db, t).triggers
        PROVE  \E x \in DOMAIN q : Does(q, x, "CreateTrigger", t) /\ q[x].arg.name = g.name
    <3>1. Op("CreateTrigger", t, g) \in A
      BY <2>4 DEF Complete, NewTriggers
    <3> QED BY <1>4, <3>1
  <2>5. ASSUME NEW t, Stays(d, db, t)
        PROVE  LET lt == LiveTable(db, t) IN
       /\ \A c \in DOMAIN d[t].columns \ DOMAIN db.table[t].columns :
            \E x \in DOMAIN q : Does(q, x, "AddColumn", t) /\ q[x].arg[1] = c
       /\ \A n \in OldIndexes(d[t], lt) :
            \E x \in DOMAIN q : Does(q, x, "DropIndex", t) /\ q[x].arg = n
       /\ \A n \in OldTriggers(d[t], lt) :
            \E x \in DOMAIN q : Does(q, x, "DropTrigger", t) /\ q[x].arg = n
    <3> DEFINE lt == LiveTable(db, t)
    <3>1. /\ \A x \in NewColumns(d[t], lt) : Op("AddColumn", t, x) \in A
          /\ \A n \in OldIndexes(d[t], lt) : Op("DropIndex", t, n) \in A
          /\ \A n \in OldTriggers(d[t], lt) : Op("DropTrigger", t, n) \in A
      BY <2>5 DEF Complete
    <3>2. ASSUME NEW c \in DOMAIN d[t].columns \ DOMAIN db.table[t].columns
          PROVE  \E x \in DOMAIN q : Does(q, x, "AddColumn", t) /\ q[x].arg[1] = c
      <4> DEFINE a == <<c, d[t].columns[c]>>
      <4>1. DOMAIN lt.columns = DOMAIN db.table[t].columns
        BY DEF LiveTable, LiveColumns
      <4>2. a \in NewColumns(d[t], lt) /\ a[1] = c
        BY <4>1 DEF NewColumns
      <4> HIDE DEF a, lt
      <4>3. \E x \in DOMAIN q : Does(q, x, "AddColumn", t) /\ q[x].arg = a
        BY <1>4, <3>1, <4>2
      <4> QED BY <4>2, <4>3
    <3> QED BY <1>4, <3>1, <3>2
  <2> QED BY <2>1, <2>2, <2>3, <2>4, <2>5 DEF AllThere
<1> QED BY <1>1, <1>2, <1>6 DEF Scripted, Spelt

\* The script of the differ, statement by statement.
LEMMA DiffIsScripted ==
  ASSUME NEW z \in Schema, NEW db, Formed(db),
         NEW ops \in ComputeDiff(Lowered[z], LiveSchema(db))
  PROVE  Scripted(Script(ops), Lowered[z], db)
<1> DEFINE d == Lowered[z]
           A == AllAsked(d, LiveSchema(db))
<1>1. IndexRecords(d)
  BY IndexOwner DEF IndexRecords
<1>2. Sound(d)
  BY LoweredIsSound
<1> HIDE DEF d
<1>3. Lists(ops, A)
  BY <1>2, DiffLists DEF d
<1>4. (\A op \in A : Means(d, db, op)) /\ Complete(d, db, A)
  BY AskedMeans, AskedIsComplete
<1> HIDE DEF A
<1>5. PICK o : Spelt(Script(ops), A, o)
  BY <1>3, <1>4, ScriptIsSpelt
<1> QED BY <1>1, <1>4, <1>5, SpeltIsScripted DEF d

(***************************************************************************)
(* The script reaches the schema's frame, if it runs.                      *)
(***************************************************************************)
\* NO ACTION is not written twice.
LEMMA DeclaredOnce ==
  ASSUME NEW keys, \A fk \in keys : fk = [from |-> fk.from, to |-> fk.to, onDelete |-> fk.onDelete]
  PROVE  Declared(Declared(keys)) = Declared(keys)
<1> DEFINE D(fk) == [fk EXCEPT !.onDelete = IF @ = "no action" THEN "-" ELSE @]
<1>1. ASSUME NEW fk \in keys PROVE D(D(fk)) = D(fk)
  <2> DEFINE a == fk.from
             b == fk.to
             c == fk.onDelete
             e == IF c = "no action" THEN "-" ELSE c
  <2>1. fk = [from |-> a, to |-> b, onDelete |-> c]
    OBVIOUS
  <2>2. e = IF e = "no action" THEN "-" ELSE e
    OBVIOUS
  <2>3. D(fk) = [from |-> a, to |-> b, onDelete |-> e]
    <3>1. [fk EXCEPT !.onDelete = e] = [from |-> a, to |-> b, onDelete |-> e]
      <4> HIDE DEF a, b, c, e
      <4> QED BY <2>1
    <3>2. D(fk) = [fk EXCEPT !.onDelete = e]
      OBVIOUS
    <3> QED BY <3>1, <3>2
  <2> DEFINE g == D(fk)
  <2>4. g = [from |-> a, to |-> b, onDelete |-> e]
    BY <2>3
  <2> HIDE DEF g, a, b, e
  <2>5. [g EXCEPT !.onDelete = IF @ = "no action" THEN "-" ELSE @] = g
    BY <2>2, <2>4
  <2> QED BY <2>5 DEF g
<1>2. \A S : Declared(S) = {D(fk) : fk \in S}
  BY DEF Declared
<1> HIDE DEF D
<1> QED BY <1>1, <1>2, SMTT(30)

\* A table that need not be rebuilt differs in the columns it lacks.
LEMMA StaysMeans ==
  ASSUME NEW d, NEW db, Formed(db), NEW t, Stays(d, db, t)
  PROVE  /\ t \in DOMAIN d /\ t \in DOMAIN db.table
         /\ Declared(db.table[t].foreignKeys) = Declared(d[t].foreignKeys)
         /\ DOMAIN db.table[t].columns \subseteq DOMAIN d[t].columns
         /\ \A c \in DOMAIN db.table[t].columns :
              db.table[t].columns[c].affinity = d[t].columns[c].affinity
<1> DEFINE lt == LiveTable(db, t)
           des == d[t]
           def == db.table[t]
<1>1. t \in DOMAIN d /\ t \in DOMAIN db.table /\ ~ MustRebuildFor(des, lt)
  BY DEF Stays
<1>2. /\ lt.columns = [c \in DOMAIN def.columns |-> Plain(def.columns[c].affinity)]
      /\ lt.foreignKeys = Declared(def.foreignKeys)
  BY DEF LiveTable, LiveColumns, LiveForeignKeys, Declared
<1>3. \A fk \in def.foreignKeys : fk = [from |-> fk.from, to |-> fk.to, onDelete |-> fk.onDelete]
  BY <1>1 DEF Formed, FormedTable
<1> HIDE DEF lt, des, def
<1>4. /\ des.foreignKeys = lt.foreignKeys
      /\ DOMAIN lt.columns \ DOMAIN des.columns = {}
      /\ \A c \in DOMAIN des.columns \cap DOMAIN lt.columns :
           BaseType(lt.columns[c]) = BaseType(des.columns[c])
  BY <1>1 DEF MustRebuildFor
<1>5. Declared(def.foreignKeys) = Declared(des.foreignKeys)
  BY <1>2, <1>3, <1>4, DeclaredOnce
<1>6. \A type : BaseType(type).affinity = type.affinity
  BY DEF BaseType, Plain
<1>7. \A a : Plain(a).affinity = a
  BY DEF Plain
<1>8. DOMAIN def.columns \subseteq DOMAIN des.columns
  BY <1>2, <1>4
<1>9. ASSUME NEW c \in DOMAIN def.columns PROVE def.columns[c].affinity = des.columns[c].affinity
  <2>1. BaseType(lt.columns[c]) = BaseType(des.columns[c]) /\ lt.columns[c] = Plain(def.columns[c].affinity)
    BY <1>2, <1>4, <1>8
  <2> QED BY <1>6, <1>7, <2>1
<1> QED BY <1>1, <1>5, <1>8, <1>9 DEF des, def

\* The names the differ sees.
LEMMA LiveNames ==
  ASSUME NEW db, NEW t
  PROVE  /\ \A n : n \in LiveTable(db, t).indexes <=> \E x \in db.index : x.table = t /\ x.name = n
         /\ \A n : n \in LiveTable(db, t).triggers <=> \E g \in db.trigger : g.table = t /\ g.name = n
BY DEF LiveTable

\* What the statements of a script take away.
LEMMA ScriptTakes ==
  ASSUME NEW d, NEW db, Known(Frame(db)), NEW q, Scripted(q, d, db), NEW j \in DOMAIN q
  PROVE  LET t == q[j].table
             n == q[j].arg
         IN  /\ q[j].kind = "DropTable" => t \notin DOMAIN d
             /\ q[j].kind = "RebuildTable" => ~ Stays(d, db, t)
             /\ q[j].kind = "DropIndex" =>
                  /\ Stays(d, db, t) /\ n[2] = t /\ \A k \in d[t].indexes : k.name # n
                  /\ \E x \in db.index : x.table = t /\ x.name = n
             /\ q[j].kind = "DropTrigger" =>
                  /\ Stays(d, db, t) /\ Owner(n) = t /\ \A g \in d[t].triggers : g.name # n
<1> DEFINE t == q[j].table
           n == q[j].arg
           s == q[j]
<1>1. Sense(d, db, s)
  BY DEF Scripted
<1>2. Frame(db).index = db.index /\ Frame(db).trigger = db.trigger
  BY FrameParts
<1>3. s.kind = "DropIndex" =>
        /\ Stays(d, db, t) /\ n[2] = t /\ \A k \in d[t].indexes : k.name # n
        /\ \E x \in db.index : x.table = t /\ x.name = n
  <2> SUFFICES ASSUME s.kind = "DropIndex"
               PROVE  /\ Stays(d, db, t) /\ n[2] = t /\ \A k \in d[t].indexes : k.name # n
                      /\ \E x \in db.index : x.table = t /\ x.name = n
    OBVIOUS
  <2>1. Stays(d, db, t) /\ n \in LiveTable(db, t).indexes /\ \A k \in d[t].indexes : k.name # n
    BY <1>1 DEF Sense, OldIndexes
  <2>2. PICK x \in db.index : x.table = t /\ x.name = n
    BY <2>1, LiveNames
  <2>3. x.name[2] = x.table
    BY <1>2, KnownIndex
  <2> QED BY <2>1, <2>2, <2>3
<1>4. s.kind = "DropTrigger" =>
        /\ Stays(d, db, t) /\ Owner(n) = t /\ \A g \in d[t].triggers : g.name # n
  <2> SUFFICES ASSUME s.kind = "DropTrigger"
               PROVE  Stays(d, db, t) /\ Owner(n) = t /\ \A g \in d[t].triggers : g.name # n
    OBVIOUS
  <2>1. Stays(d, db, t) /\ n \in LiveTable(db, t).triggers /\ \A g \in d[t].triggers : g.name # n
    BY <1>1 DEF Sense, OldTriggers
  <2>2. PICK g \in db.trigger : g.table = t /\ g.name = n
    BY <2>1, LiveNames
  <2>3. g.table = Owner(g.name)
    BY <1>2 DEF Known
  <2> QED BY <2>1, <2>2, <2>3
<1>5. s.kind = "DropTable" => t \notin DOMAIN d
  BY <1>1 DEF Sense
<1>6. s.kind = "RebuildTable" => ~ Stays(d, db, t)
  BY <1>1 DEF Sense, Remade, Stays
<1> QED BY <1>3, <1>4, <1>5, <1>6

\* The script brings the tables, columns and foreign keys.
LEMMA ScriptBringsTables ==
  ASSUME NEW d, NEW db, Formed(db), NEW q, Scripted(q, d, db)
  PROVE  TablesCome(q, Frame(db), d) /\ ColumnsCome(q, Frame(db), d)
<1> DEFINE fr == Frame(db)
<1>1. /\ DOMAIN fr.table = DOMAIN db.table
      /\ \A t \in DOMAIN db.table :
           /\ fr.table[t].columns = db.table[t].columns
           /\ fr.table[t].foreignKeys = db.table[t].foreignKeys
  BY FrameParts
<1> HIDE DEF fr
<1>2. AllThere(q, d, db)
  BY DEF Scripted
<1>3. TablesCome(q, fr, d)
  BY <1>1, <1>2 DEF AllThere, TablesCome
<1>4. ColumnsCome(q, fr, d)
  <2> SUFFICES ASSUME NEW t \in DOMAIN d \cap DOMAIN fr.table
               PROVE  \/ \E i \in DOMAIN q : Does(q, i, "RebuildTable", t)
                      \/ /\ Declared(fr.table[t].foreignKeys) = Declared(d[t].foreignKeys)
                         /\ DOMAIN fr.table[t].columns \subseteq DOMAIN d[t].columns
                         /\ \A c \in DOMAIN d[t].columns :
                              IF c \in DOMAIN fr.table[t].columns
                              THEN fr.table[t].columns[c].affinity = d[t].columns[c].affinity
                              ELSE \E i \in DOMAIN q : Does(q, i, "AddColumn", t) /\ q[i].arg[1] = c
    BY DEF ColumnsCome
  <2>1. CASE Remade(d, db, t)
    BY <1>2, <2>1 DEF AllThere
  <2>2. CASE Stays(d, db, t)
    <3>1. \A c \in DOMAIN d[t].columns \ DOMAIN db.table[t].columns :
            \E x \in DOMAIN q : Does(q, x, "AddColumn", t) /\ q[x].arg[1] = c
      BY <1>2, <2>2 DEF AllThere
    <3>2. /\ Declared(db.table[t].foreignKeys) = Declared(d[t].foreignKeys)
          /\ DOMAIN db.table[t].columns \subseteq DOMAIN d[t].columns
          /\ \A c \in DOMAIN db.table[t].columns :
               db.table[t].columns[c].affinity = d[t].columns[c].affinity
      BY <2>2, StaysMeans
    <3> QED BY <1>1, <3>1, <3>2
  <2> QED BY <1>1, <2>1, <2>2 DEF Remade, Stays
<1> QED BY <1>3, <1>4 DEF fr

\* The script brings the triggers and takes the others away.
LEMMA ScriptBringsTriggers ==
  ASSUME NEW z \in Schema, NEW db, Known(Frame(db)), NEW q, Scripted(q, Lowered[z], db)
  PROVE  TriggersCome(q, Frame(db), Lowered[z]) /\ TriggersGo(q, Frame(db), Lowered[z])
<1> DEFINE d == Lowered[z]
           fr == Frame(db)
<1>1. fr.trigger = db.trigger /\ DOMAIN fr.table = DOMAIN db.table
  BY FrameParts
<1>2. \A t \in DOMAIN d : \A g \in d[t].triggers : Owner(g.name) = t
  BY TriggerOwner
<1> HIDE DEF d
<1>3. AllThere(q, d, db)
  BY DEF Scripted, d
<1>4. ASSUME NEW j \in DOMAIN q
      PROVE  LET t == q[j].table
                 n == q[j].arg
             IN  /\ q[j].kind = "DropTable" => t \notin DOMAIN d
                 /\ q[j].kind = "RebuildTable" => ~ Stays(d, db, t)
                 /\ q[j].kind = "DropTrigger" =>
                      /\ Stays(d, db, t) /\ Owner(n) = t /\ \A g \in d[t].triggers : g.name # n
  BY ScriptTakes DEF d
<1>5. \A g \in fr.trigger : g.table \in DOMAIN db.table /\ g.table = Owner(g.name)
  BY <1>1 DEF Known
<1>6. ASSUME NEW x \in DOMAIN q, NEW y \in DOMAIN q, x < y, q[x].table = q[y].table,
             q[x].kind = "CreateTrigger"
      PROVE  q[y].kind # "RebuildTable"
  <2>1. Rank(q[x].kind) <= Rank(q[y].kind)
    BY <1>6 DEF Scripted, d
  <2> QED BY <1>6, <2>1 DEF Rank
<1> HIDE DEF fr
<1>7. TriggersCome(q, fr, d)
  <2> SUFFICES ASSUME NEW t \in DOMAIN d, NEW k \in d[t].triggers
               PROVE  \/ \E g \in fr.trigger :
                           g.table = t /\ g.name = k.name /\ \A j \in DOMAIN q : ~ Unhooks(q[j], g)
                      \/ \E i \in DOMAIN q :
                           /\ Does(q, i, "CreateTrigger", t) /\ q[i].arg.name = k.name
                           /\ \A j \in DOMAIN q : i < j => ~ Unhooks(q[j], [name |-> k.name, table |-> t])
    BY DEF TriggersCome
  <2>1. \A j \in DOMAIN q : ~ (q[j].kind = "DropTrigger" /\ q[j].arg = k.name)
    BY <1>2, <1>4
  <2>2. CASE Stays(d, db, t) /\ k.name \in LiveTable(db, t).triggers
    <3>1. PICK g \in fr.trigger : g.table = t /\ g.name = k.name
      BY <1>1, <2>2, LiveNames
    <3>2. \A j \in DOMAIN q : ~ Unhooks(q[j], g)
      BY <1>4, <2>1, <2>2, <3>1 DEF Unhooks
    <3> QED BY <3>1, <3>2
  <2>3. CASE Stays(d, db, t) => k.name \notin LiveTable(db, t).triggers
    <3>1. PICK i \in DOMAIN q : Does(q, i, "CreateTrigger", t) /\ q[i].arg.name = k.name
      BY <1>3, <2>3 DEF AllThere
    <3>2. ASSUME NEW j \in DOMAIN q, i < j, NEW g, g.name = k.name, g.table = t
          PROVE  ~ Unhooks(q[j], g)
      BY <1>4, <1>6, <2>1, <3>1, <3>2 DEF Unhooks, Does
    <3> DEFINE h == [name |-> k.name, table |-> t]
    <3>3. h.name = k.name /\ h.table = t
      OBVIOUS
    <3> HIDE DEF h
    <3>4. \A j \in DOMAIN q : i < j => ~ Unhooks(q[j], h)
      BY <3>2, <3>3
    <3> QED BY <3>1, <3>4 DEF h
  <2> QED BY <2>2, <2>3
<1>8. TriggersGo(q, fr, d)
  <2> SUFFICES ASSUME NEW g \in fr.trigger,
                      ~ (g.table \in DOMAIN d /\ \E k \in d[g.table].triggers : k.name = g.name)
               PROVE  \E j \in DOMAIN q : Unhooks(q[j], g)
    BY DEF TriggersGo
  <2> DEFINE t == g.table
  <2>1. t \in DOMAIN db.table
    BY <1>5
  <2>2. CASE t \notin DOMAIN d
    BY <1>3, <2>1, <2>2 DEF AllThere, Does, Unhooks
  <2>3. CASE Remade(d, db, t)
    BY <1>3, <2>3 DEF AllThere, Does, Unhooks
  <2>4. CASE Stays(d, db, t)
    <3>1. g.name \in LiveTable(db, t).triggers
      BY <1>1, LiveNames
    <3>2. g.name \in OldTriggers(d[t], LiveTable(db, t))
      BY <2>4, <3>1 DEF OldTriggers, Stays
    <3>3. \A n \in OldTriggers(d[t], LiveTable(db, t)) :
            \E x \in DOMAIN q : Does(q, x, "DropTrigger", t) /\ q[x].arg = n
      BY <1>3, <2>4 DEF AllThere
    <3> QED BY <3>2, <3>3 DEF Does, Unhooks
  <2> QED BY <2>1, <2>2, <2>3, <2>4 DEF Remade, Stays
<1> QED BY <1>7, <1>8 DEF d, fr

\* The script brings the indexes and takes the others away, if none is in its way.
LEMMA ScriptBringsIndexes ==
  ASSUME NamesTellApart, NEW z \in Schema, NEW db, Known(Frame(db)), NEW q,
         Scripted(q, Lowered[z], db), ~ Blocked(q, Frame(db))
  PROVE  IndexesCome(q, Frame(db), Lowered[z]) /\ IndexesGo(q, Frame(db), Lowered[z])
<1> DEFINE d == Lowered[z]
           fr == Frame(db)
<1>1. fr.index = db.index /\ DOMAIN fr.table = DOMAIN db.table
  BY FrameParts
<1>2. \A t \in DOMAIN d : \A k \in d[t].indexes : IndexName(t, k.columns)[2] = t
  BY IndexOwner
<1>3. ASSUME NEW x \in fr.index, NEW k, x.table \in DOMAIN d, k \in d[x.table].indexes,
             k.name = x.name
      PROVE  x = Made(x.table, k)
  <2>1. PICK w \in Schema : x.table \in DOMAIN Lowered[w]
                            /\ \E i \in Lowered[w][x.table].indexes : x = Made(x.table, i)
    BY KnownIndex
  <2>2. PICK i \in Lowered[w][x.table].indexes : x = Made(x.table, i)
    BY <2>1
  <2> DEFINE t == x.table
  <2>3. x.name = IndexName(t, i.columns)
    BY <2>2, MadeParts
  <2>4. t \in DOMAIN Lowered[z] \cap DOMAIN Lowered[w]
    BY <1>3, <2>1
  <2> HIDE DEF t
  <2>5. Made(t, i) = Made(t, k)
    BY <1>3, <2>2, <2>3, <2>4, SameIndex DEF t
  <2> QED BY <2>2, <2>5 DEF t
<1> HIDE DEF d
<1>4. AllThere(q, d, db)
  BY DEF Scripted, d
<1>5. ASSUME NEW j \in DOMAIN q
      PROVE  LET t == q[j].table
                 n == q[j].arg
             IN  /\ q[j].kind = "DropTable" => t \notin DOMAIN d
                 /\ q[j].kind = "RebuildTable" => ~ Stays(d, db, t)
                 /\ q[j].kind = "DropIndex" =>
                      /\ Stays(d, db, t) /\ n[2] = t /\ \A k \in d[t].indexes : k.name # n
                      /\ \E x \in fr.index : x.table = t /\ x.name = n
  BY <1>1, ScriptTakes DEF d
<1>6. \A x \in fr.index : x.table \in DOMAIN db.table /\ x.name[2] = x.table
  BY <1>1, KnownIndex
<1>7. ASSUME NEW x \in DOMAIN q, NEW y \in DOMAIN q, x < y, q[x].table = q[y].table
      PROVE  /\ ~ (q[x].kind = "CreateIndex" /\ q[y].kind = "RebuildTable")
             /\ ~ (q[x].kind = "DropIndex" /\ q[y].kind = "DropIndex" /\ q[x].arg = q[y].arg)
  <2>1. Rank(q[x].kind) <= Rank(q[y].kind) /\ (q[x].kind = q[y].kind => Apart(d, q[x], q[y]))
    BY <1>7 DEF Scripted, d
  <2>2. ~ (q[x].kind = "CreateIndex" /\ q[y].kind = "RebuildTable")
    BY <2>1 DEF Rank
  <2> QED BY <1>7, <2>1, <2>2 DEF Apart
<1>8. ~ Blocked(q, fr)
  OBVIOUS
<1>9. q \in Seq(ToSet(q)) /\ \A x \in DOMAIN q : x \in Nat
  BY DEF Scripted, Listed
<1> HIDE DEF fr
<1>10. IndexesCome(q, fr, d)
  <2> SUFFICES ASSUME NEW t \in DOMAIN d, NEW k \in d[t].indexes
               PROVE  \/ Made(t, k) \in fr.index /\ \A j \in DOMAIN q : ~ Removes(q[j], Made(t, k))
                      \/ \E i \in DOMAIN q :
                           /\ Does(q, i, "CreateIndex", t) /\ q[i].arg.columns = k.columns
                           /\ q[i].arg.unique = k.unique
                           /\ \A j \in DOMAIN q : i < j => ~ Removes(q[j], Made(t, k))
    BY DEF IndexesCome
  <2> DEFINE m == Made(t, k)
  <2>1. m.name = IndexName(t, k.columns) /\ m.table = t
    BY MadeParts
  <2> HIDE DEF m
  <2>2. CASE Stays(d, db, t) /\ k.name \in LiveTable(db, t).indexes
    <3>1. PICK x \in fr.index : x.table = t /\ x.name = k.name
      BY <1>1, <2>2, LiveNames
    <3>2. x = m
      BY <1>3, <3>1 DEF m
    <3>3. \A j \in DOMAIN q : ~ Removes(q[j], m)
      BY <1>5, <1>6, <2>2, <3>1, <3>2 DEF Removes
    <3> QED BY <3>1, <3>2, <3>3 DEF m
  <2>3. CASE Stays(d, db, t) => k.name \notin LiveTable(db, t).indexes
    <3>1. PICK i \in DOMAIN q : Spells(q[i], k, t)
      BY <1>4, <2>3 DEF AllThere
    <3>2. /\ q[i].kind = "CreateIndex" /\ q[i].table = t /\ q[i].arg.name = m.name
          /\ q[i].arg.columns = k.columns /\ q[i].arg.unique = k.unique
      BY <2>1, <3>1 DEF Spells
    <3>3. m.name[2] = t
      BY <1>2, <2>1
    <3>4. ASSUME NEW j \in DOMAIN q, i < j, q[j].kind = "DropIndex", q[j].arg = m.name PROVE FALSE
      <4>1. q[j].table = t /\ Stays(d, db, t)
        BY <1>5, <3>3, <3>4
      <4>2. PICK x \in fr.index : x.table = t /\ x.name = m.name
        BY <1>5, <3>4, <4>1
      <4>3. PICK h \in DOMAIN q : h < i /\ Removes(q[h], x)
        BY <1>8, <3>2, <4>2 DEF Blocked
      <4>4. q[h].kind = "DropIndex" /\ q[h].arg = m.name
        BY <1>5, <4>1, <4>2, <4>3 DEF Removes
      <4>5. q[h].table = t /\ h < j
        BY <1>5, <1>9, <3>3, <3>4, <4>3, <4>4
      <4> QED BY <1>7, <3>4, <4>1, <4>4, <4>5
    <3>5. \A j \in DOMAIN q : i < j => ~ Removes(q[j], m)
      BY <1>5, <1>7, <2>1, <3>2, <3>4 DEF Removes
    <3> QED BY <3>2, <3>5 DEF Does, m
  <2> QED BY <2>2, <2>3
<1>11. IndexesGo(q, fr, d)
  <2> SUFFICES ASSUME NEW x \in fr.index,
                      ~ (x.table \in DOMAIN d /\ \E k \in d[x.table].indexes : x = Made(x.table, k))
               PROVE  \E j \in DOMAIN q : Removes(q[j], x)
    BY DEF IndexesGo
  <2> DEFINE t == x.table
  <2>1. t \in DOMAIN db.table
    BY <1>6
  <2>2. CASE t \notin DOMAIN d
    BY <1>4, <2>1, <2>2 DEF AllThere, Does, Removes
  <2>3. CASE Remade(d, db, t)
    BY <1>4, <2>3 DEF AllThere, Does, Removes
  <2>4. CASE Stays(d, db, t)
    <3>1. x.name \in LiveTable(db, t).indexes
      BY <1>1, LiveNames
    <3>2. x.name \in OldIndexes(d[t], LiveTable(db, t))
      BY <1>3, <2>4, <3>1 DEF OldIndexes, Stays
    <3>3. \A n \in OldIndexes(d[t], LiveTable(db, t)) :
            \E y \in DOMAIN q : Does(q, y, "DropIndex", t) /\ q[y].arg = n
      BY <1>4, <2>4 DEF AllThere
    <3> QED BY <3>2, <3>3 DEF Does, Removes
  <2> QED BY <2>1, <2>2, <2>3, <2>4 DEF Remade, Stays
<1> QED BY <1>10, <1>11 DEF d, fr

\* Whatever is there, the script for it leads to the schema.
LEMMA ScriptReaches ==
  ASSUME NamesTellApart, NEW z \in Schema, NEW db, Formed(db), Known(Frame(db)), NEW q,
         Scripted(q, Lowered[z], db)
  PROVE  Reaches(q, Frame(db), Lowered[z])
BY ScriptBringsTables, ScriptBringsTriggers, ScriptBringsIndexes DEF Reaches

(***************************************************************************)
(* The script runs on a database without rows.                             *)
(***************************************************************************)
\* Without polymorphic fields an index has the name it is created under, no
\* other has it, and its column is there.
LEMMA IndexablePart ==
  ASSUME Indexable, NEW z \in Schema, NEW t \in DOMAIN Lowered[z], NEW k \in Lowered[z][t].indexes
  PROVE  /\ k.name = IndexName(t, k.columns)
         /\ ToSet(k.columns) \subseteq DOMAIN Lowered[z][t].columns
         /\ \A i \in Lowered[z][t].indexes :
              IndexName(t, i.columns) = IndexName(t, k.columns) => i = k
<1> DEFINE S == Words(t)
           a == <<"idx", t>>
           model == z[t]
<1>1. /\ DOMAIN model.fields \subseteq Seq(STRING) /\ t \in DOMAIN z
      /\ Lowered[z][t].columns = Columns(model)
  BY LoweredParts
<1>2. Seq(STRING) \subseteq Seq(S) /\ t \in S /\ "idx" \in S
  BY WordsAre
<1> HIDE DEF S
<1>3. a \in Seq(S)
  BY <1>2
<1>4. Polymorphic(model) = {} /\ \A f \in UniqueFields(model) : f \in ColumnNames(f, model.fields[f])
  BY <1>1 DEF Indexable
<1>5. ASSUME NEW i \in Lowered[z][t].indexes
      PROVE  \E f \in UniqueFields(model) :
               /\ i = [name |-> a \o f, columns |-> <<f>>, unique |-> TRUE]
               /\ IndexName(t, i.columns) = a \o f
  BY <1>4, IndexForms DEF UniqueIndex, PairIndex
<1>6. PICK f \in UniqueFields(model) :
        /\ k = [name |-> a \o f, columns |-> <<f>>, unique |-> TRUE]
        /\ IndexName(t, k.columns) = a \o f
  BY <1>5
<1>7. k.name = IndexName(t, k.columns) /\ ToSet(k.columns) = {f}
  <2>1. k.name = a \o f /\ k.columns = <<f>>
    BY <1>6
  <2>2. ToSet(<<f>>) = {f}
    BY DEF ToSet
  <2> QED BY <1>6, <2>1, <2>2
<1>8. f \in DOMAIN Lowered[z][t].columns
  <2>1. f \in DOMAIN model.fields /\ f \in ColumnNames(f, model.fields[f])
    BY <1>4, <1>6 DEF UniqueFields
  <2>2. DOMAIN Columns(model) = UNION {ColumnNames(g, model.fields[g]) : g \in DOMAIN model.fields}
    BY DEF Columns
  <2>3. f \in DOMAIN Columns(model)
    BY <2>1, <2>2
  <2> QED BY <1>1, <2>3
<1>9. ASSUME NEW i \in Lowered[z][t].indexes, IndexName(t, i.columns) = IndexName(t, k.columns)
      PROVE  i = k
  <2>1. PICK g \in UniqueFields(model) :
          /\ i = [name |-> a \o g, columns |-> <<g>>, unique |-> TRUE]
          /\ IndexName(t, i.columns) = a \o g
    BY <1>5
  <2>2. f \in Seq(S) /\ g \in Seq(S)
    BY <1>1, <1>2, <1>6, <2>1 DEF UniqueFields
  <2>3. a \o g = a \o f
    BY <1>6, <1>9, <2>1
  <2> HIDE DEF a
  <2>4. f = g
    BY <1>3, <2>2, <2>3, SameRest
  <2> QED BY <1>6, <2>1, <2>4
<1> QED BY <1>7, <1>8, <1>9

\* What a script must find is there or made earlier.
LEMMA ScriptStands ==
  ASSUME NEW d, NEW db, NEW q, Scripted(q, d, db), NEW i \in DOMAIN q,
         Rank(q[i].kind) > 1, NEW t, t = q[i].table, t \in DOMAIN d
  PROVE  /\ Stands(q, i, Frame(db), t)
         /\ \A c \in DOMAIN d[t].columns : HasColumn(q, i, Frame(db), t, c)
         /\ Remade(d, db, t) => Earlier(q, i, "RebuildTable", t)
<1> DEFINE fr == Frame(db)
<1>1. /\ DOMAIN fr.table = DOMAIN db.table
      /\ \A u \in DOMAIN db.table : fr.table[u].columns = db.table[u].columns
  BY FrameParts
<1> HIDE DEF fr
<1>2. AllThere(q, d, db) /\ Listed(q)
  BY DEF Scripted
<1>3. ASSUME NEW x \in DOMAIN q, q[x].table = t, Rank(q[x].kind) = 1 PROVE x < i
  <2>1. x \in Nat /\ i \in Nat
    BY <1>2 DEF Listed
  <2>2. ~ (i < x)
    <3> SUFFICES ASSUME i < x PROVE FALSE
      OBVIOUS
    <3>1. Rank(q[i].kind) <= Rank(q[x].kind)
      BY <1>3 DEF Scripted
    <3>2. Rank(q[i].kind) \in Nat
      BY DEF Rank
    <3> QED BY <1>3, <3>1, <3>2
  <2>3. i # x
    BY <1>3
  <2> QED BY <2>1, <2>2, <2>3
<1>4. Rank("CreateTable") = 1 /\ Rank("RebuildTable") = 1 /\ Rank("AddColumn") = 1
  BY DEF Rank
<1>5. t \notin DOMAIN db.table => Earlier(q, i, "CreateTable", t)
  BY <1>2, <1>3, <1>4 DEF AllThere, Earlier, Does
<1>6. Remade(d, db, t) => Earlier(q, i, "RebuildTable", t)
  BY <1>2, <1>3, <1>4 DEF AllThere, Earlier, Does
<1>7. ASSUME Stays(d, db, t), NEW c \in DOMAIN d[t].columns, c \notin DOMAIN db.table[t].columns
      PROVE  \E j \in DOMAIN q : j < i /\ Does(q, j, "AddColumn", t) /\ q[j].arg[1] = c
  <2>1. PICK j \in DOMAIN q : Does(q, j, "AddColumn", t) /\ q[j].arg[1] = c
    BY <1>2, <1>7 DEF AllThere
  <2> QED BY <1>3, <1>4, <2>1 DEF Does
<1>8. Stands(q, i, fr, t)
  BY <1>1, <1>5 DEF Stands
<1>9. \A c \in DOMAIN d[t].columns : HasColumn(q, i, fr, t, c)
  BY <1>1, <1>5, <1>6, <1>7 DEF HasColumn, Remade, Stays
<1> QED BY <1>6, <1>8, <1>9 DEF fr

\* CREATE INDEX.
LEMMA IndexCanRun ==
  ASSUME Indexable, NEW z \in Schema, NEW db, Known(Frame(db)), NEW q,
         Scripted(q, Lowered[z], db), NEW i \in DOMAIN q, q[i].kind = "CreateIndex"
  PROVE  CanRun(q, i, Frame(db), Lowered[z])
<1> DEFINE d == Lowered[z]
           fr == Frame(db)
           t == q[i].table
           name == q[i].arg.name
<1>1. \A u \in DOMAIN d : \A k \in d[u].indexes :
        /\ k.name = IndexName(u, k.columns)
        /\ ToSet(k.columns) \subseteq DOMAIN d[u].columns
        /\ \A h \in d[u].indexes : IndexName(u, h.columns) = IndexName(u, k.columns) => h = k
  BY IndexablePart
<1>2. \A u \in DOMAIN d : \A k \in d[u].indexes : IndexName(u, k.columns)[2] = u
  BY IndexOwner
<1> HIDE DEF d
<1>3. fr.index = db.index /\ DOMAIN fr.table = DOMAIN db.table
  BY FrameParts
<1>4. \A x \in fr.index : x.table \in DOMAIN fr.table /\ x.name[2] = x.table
  BY KnownIndex
<1> HIDE DEF fr
<1>5. \A x \in DOMAIN q : Sense(d, db, q[x])
  BY DEF Scripted, d
<1>6. \A x \in DOMAIN q : q[x].kind = "CreateIndex" =>
        /\ q[x].table \in DOMAIN d
        /\ \E k \in d[q[x].table].indexes :
             /\ Spells(q[x], k, q[x].table)
             /\ Stays(d, db, q[x].table) => k.name \notin LiveTable(db, q[x].table).indexes
  BY <1>5 DEF Sense
<1>7. t \in DOMAIN d
  BY <1>6
<1>8. PICK k \in d[t].indexes :
        Spells(q[i], k, t) /\ (Stays(d, db, t) => k.name \notin LiveTable(db, t).indexes)
  BY <1>6
<1>9. name = IndexName(t, k.columns) /\ q[i].arg.columns = k.columns
  BY <1>8 DEF Spells
<1>10. Rank(q[i].kind) > 1
  BY DEF Rank
<1>11. /\ Stands(q, i, fr, t) /\ \A c \in DOMAIN d[t].columns : HasColumn(q, i, fr, t, c)
       /\ Remade(d, db, t) => Earlier(q, i, "RebuildTable", t)
  BY <1>7, <1>10, ScriptStands DEF d, fr
<1>12. ASSUME NEW x \in fr.index, x.name = name
       PROVE  \E j \in DOMAIN q : j < i /\ Removes(q[j], x)
  <2>1. x.table = t /\ t \in DOMAIN db.table
    BY <1>2, <1>3, <1>4, <1>7, <1>9, <1>12
  <2>2. k.name \in LiveTable(db, t).indexes
    BY <1>1, <1>3, <1>7, <1>9, <1>12, <2>1, LiveNames
  <2>3. Remade(d, db, t)
    BY <1>7, <1>8, <2>1, <2>2 DEF Remade, Stays
  <2> QED BY <1>11, <2>1, <2>3 DEF Earlier, Does, Removes
<1>13. ASSUME NEW j \in DOMAIN q, j < i, q[j].kind = "CreateIndex", q[j].arg.name = name PROVE FALSE
  <2> DEFINE u == q[j].table
  <2>1. PICK h \in d[u].indexes : Spells(q[j], h, u)
    BY <1>6, <1>13
  <2>2. u \in DOMAIN d /\ name = IndexName(u, h.columns)
    BY <1>6, <1>13, <2>1 DEF Spells
  <2>3. u = t
    BY <1>2, <1>7, <1>9, <2>2, ZenonT(60)
  <2>4. Apart(d, q[j], q[i])
    BY <1>13 DEF Scripted, d
  <2>5. PICK a \in d[t].indexes : \E b \in d[t].indexes :
           a # b /\ Spells(q[j], a, t) /\ Spells(q[i], b, t)
    BY <1>13, <2>3, <2>4 DEF Apart
  <2>6. PICK b \in d[t].indexes : a # b /\ Spells(q[j], a, t) /\ Spells(q[i], b, t)
    BY <2>5
  <2>7. IndexName(t, a.columns) = IndexName(t, b.columns)
    BY <1>13, <2>6 DEF Spells
  <2> QED BY <1>1, <1>7, <2>6, <2>7
<1>14. IsFree(q, i, fr, name)
  BY <1>12, <1>13 DEF IsFree
<1>15. \A c \in ToSet(q[i].arg.columns) : c \in DOMAIN d[t].columns /\ HasColumn(q, i, fr, t, c)
  BY <1>1, <1>7, <1>9, <1>11
<1> QED BY <1>11, <1>14, <1>15 DEF CanRun, d, fr

\* Every statement of the script.
LEMMA ScriptWillRun ==
  ASSUME Indexable, NEW z \in Schema, NEW db, Known(Frame(db)), NEW q,
         Scripted(q, Lowered[z], db)
  PROVE  WillRun(q, Frame(db), Lowered[z])
<1> SUFFICES ASSUME NEW i \in DOMAIN q PROVE CanRun(q, i, Frame(db), Lowered[z])
  BY DEF WillRun
<1> DEFINE d == Lowered[z]
           fr == Frame(db)
           s == q[i]
           t == q[i].table
<1>1. CASE s.kind = "CreateIndex"
  BY <1>1, IndexCanRun
<1> HIDE DEF d
<1>2. /\ fr.index = db.index /\ DOMAIN fr.table = DOMAIN db.table
      /\ \A u \in DOMAIN db.table : fr.table[u].columns = db.table[u].columns
  BY FrameParts
<1>3. \A x \in fr.index : x.table \in DOMAIN fr.table /\ x.name[2] = x.table
  BY KnownIndex
<1> HIDE DEF fr
<1>4. \A x \in DOMAIN q : Sense(d, db, q[x])
  BY DEF Scripted, d
<1>5. \A j \in DOMAIN q : j < i /\ q[j].kind = s.kind => Apart(d, q[j], s)
  BY DEF Scripted, d
<1>6. CASE s.kind = "CreateTable"
  BY <1>2, <1>4, <1>5, <1>6 DEF Sense, Apart, CanRun, Stands, Earlier, Does, d, fr
<1>7. CASE s.kind = "DropTable"
  BY <1>2, <1>4, <1>5, <1>7 DEF Sense, Apart, CanRun, Earlier, Does, d, fr
<1>8. CASE s.kind = "RebuildTable"
  <2>1. t \in DOMAIN db.table /\ s.arg.keep \subseteq DOMAIN db.table[t].columns
    BY <1>4, <1>8 DEF Sense, Remade
  <2>2. ~ Earlier(q, i, "RebuildTable", t)
    BY <1>5, <1>8 DEF Apart, Earlier, Does
  <2> QED BY <1>2, <1>8, <2>1, <2>2 DEF CanRun, d, fr
<1>9. CASE s.kind = "AddColumn"
  <2>1. Stays(d, db, t) /\ s.arg[1] \notin DOMAIN db.table[t].columns
    BY <1>4, <1>9 DEF Sense
  <2>2. t \in DOMAIN db.table
    BY <2>1 DEF Stays
  <2>3. ~ Earlier(q, i, "CreateTable", t) /\ ~ Earlier(q, i, "RebuildTable", t)
    BY <1>4, <2>1, <2>2 DEF Earlier, Does, Sense, Remade, Stays
  <2>4. ~ \E j \in DOMAIN q : j < i /\ Does(q, j, "AddColumn", t) /\ q[j].arg[1] = s.arg[1]
    BY <1>5, <1>9 DEF Apart, Does
  <2>5. ~ HasColumn(q, i, fr, t, s.arg[1])
    BY <1>2, <2>1, <2>2, <2>3, <2>4 DEF HasColumn
  <2> QED BY <1>2, <1>9, <2>2, <2>5 DEF CanRun, d, fr
<1>10. CASE s.kind = "DropIndex"
  <2>1. \A j \in DOMAIN q :
          /\ q[j].kind = "DropTable" => q[j].table \notin DOMAIN d
          /\ q[j].kind = "RebuildTable" => ~ Stays(d, db, q[j].table)
          /\ q[j].kind = "DropIndex" =>
               /\ q[j].arg[2] = q[j].table /\ Stays(d, db, q[j].table)
               /\ \E x \in db.index : x.table = q[j].table /\ x.name = q[j].arg
    BY ScriptTakes DEF d
  <2>2. Stays(d, db, t) /\ \E x \in db.index : x.table = t /\ x.name = s.arg
    BY <1>10, <2>1
  <2>3. PICK x \in db.index : x.table = t /\ x.name = s.arg
    BY <2>2
  <2>4. ASSUME NEW j \in DOMAIN q, j < i, Removes(q[j], x) PROVE FALSE
    <3>1. q[j].kind = "DropIndex" /\ q[j].arg = s.arg
      BY <2>1, <2>2, <2>3, <2>4 DEF Removes, Stays
    <3>2. q[j].table = t
      BY <1>10, <2>1, <3>1
    <3> QED BY <1>5, <1>10, <2>4, <3>1, <3>2 DEF Apart
  <2> QED BY <1>2, <1>10, <2>3, <2>4 DEF CanRun, d, fr
<1>11. CASE s.kind = "CreateTrigger"
  <2>1. Rank(s.kind) > 1 /\ t \in DOMAIN d
    BY <1>4, <1>11 DEF Rank, Sense
  <2>2. Stands(q, i, fr, t)
    BY <2>1, ScriptStands DEF d, fr
  <2> QED BY <1>11, <2>2 DEF CanRun, d, fr
<1>13. CASE s.kind = "DropVirtualTable"
  <2>1. t \in DOMAIN d => \A k \in d[t].triggers : k.name[2] # "fts" /\ k.feeds = {}
    <3>1. t \in DOMAIN d => d[t].fts = {}
      BY <1>4, <1>13 DEF Sense
    <3> QED BY <3>1, TriggerOwner DEF d
  <2>2. \A g \in fr.trigger : g.table = Owner(g.name) /\ (g.feeds # {} => g.name[2] = "fts")
    BY DEF Known, fr
  <2>3. ASSUME NEW g \in fr.trigger, g.table = t, g.feeds # {}
        PROVE  \E j \in DOMAIN q : j < i /\ Unhooks(q[j], g)
    <3>1. ~ (t \in DOMAIN d /\ \E k \in d[t].triggers : k.name = g.name)
      BY <2>1, <2>2, <2>3
    <3>2. TriggersGo(q, fr, d)
      BY ScriptBringsTriggers DEF fr, d
    <3>3. PICK j \in DOMAIN q : Unhooks(q[j], g)
      BY <2>3, <3>1, <3>2 DEF TriggersGo
    <3>4. q[j].kind = "DropTrigger" => Owner(q[j].arg) = q[j].table
      BY ScriptTakes DEF d
    <3>5. q[j].table = t /\ q[j].kind \in {"DropTable", "RebuildTable", "DropTrigger"}
      BY <2>2, <2>3, <3>3, <3>4 DEF Unhooks
    <3>6. Rank(q[j].kind) \in 1 .. 5 /\ Rank(s.kind) = 6
      BY <1>13, <3>5 DEF Rank
    <3>7. ~ (i < j)
      <4> SUFFICES ASSUME i < j PROVE FALSE
        OBVIOUS
      <4>1. Rank(s.kind) <= Rank(q[j].kind)
        BY <3>5 DEF Scripted, d
      <4> QED BY <3>6, <4>1
    <3>8. i # j
      BY <1>13, <3>5
    <3>9. i \in Nat /\ j \in Nat
      BY DEF Scripted, Listed
    <3>10. j < i
      BY <3>7, <3>8, <3>9
    <3> QED BY <3>3, <3>10
  <2>4. ASSUME NEW j \in DOMAIN q, j < i, Does(q, j, "CreateTrigger", t) PROVE q[j].arg.feeds = {}
    <3>1. q[j].kind = "CreateTrigger" /\ q[j].table = t
      BY <2>4 DEF Does
    <3>2. t \in DOMAIN d /\ q[j].arg \in d[t].triggers
      BY <1>4, <3>1 DEF Sense
    <3> QED BY <2>1, <3>2
  <2> QED BY <1>13, <2>3, <2>4 DEF CanRun, d, fr
<1>12. CASE s.kind \notin {"CreateIndex", "CreateTable", "DropTable", "RebuildTable", "AddColumn",
                           "DropIndex", "CreateTrigger", "DropVirtualTable"}
  BY <1>12 DEF CanRun, d, fr
<1> QED BY <1>1, <1>6, <1>7, <1>8, <1>9, <1>10, <1>11, <1>12, <1>13
=============================================================================
