--------------------------- MODULE MigrationLemmas ---------------------------
(***************************************************************************)
(* Lemmas about the operators of the schema commands: the lowered schema,  *)
(* the names of its indexes and triggers, and what a statement does to a   *)
(* database, its frame, its rows and its references, and to what the rest  *)
(* of the script needs and brings.                                         *)
(***************************************************************************)
EXTENDS MigrationInvariant, DataInduction

(***************************************************************************)
(* Sequences whose members are known one by one.                           *)
(***************************************************************************)
Listed(p) == p \in Seq(ToSet(p))

\* Any sequence is one of its own members.
LEMMA SeqListed ==
  ASSUME NEW S, NEW p \in Seq(S)
  PROVE  Listed(p) /\ \A i \in DOMAIN p : p[i] \in S
<1>1. Len(p) \in Nat /\ DOMAIN p = 1 .. Len(p) /\ \A i \in DOMAIN p : p[i] \in S
  OBVIOUS
<1>2. p \in [1 .. Len(p) -> ToSet(p)]
  <2>1. p = [i \in 1 .. Len(p) |-> p[i]]
    BY <1>1
  <2>2. \A i \in 1 .. Len(p) : p[i] \in ToSet(p)
    BY <1>1 DEF ToSet
  <2> QED BY <2>1, <2>2
<1>3. p \in Seq(ToSet(p))
  <2> DEFINE T == ToSet(p)
  <2> HIDE DEF T
  <2>1. p \in Seq(T)
    BY <1>1, <1>2 DEF T
  <2> QED BY <2>1 DEF T
<1> QED BY <1>1, <1>3 DEF Listed

\* Positions of a sequence given by a function.
LEMMA FunctionListed ==
  ASSUME NEW n \in Nat, NEW p, DOMAIN p = 1 .. n, p = [i \in 1 .. n |-> p[i]]
  PROVE  Listed(p) /\ Len(p) = n
<1> DEFINE T == ToSet(p)
<1>1. \A i \in 1 .. n : p[i] \in T
  BY DEF ToSet
<1> HIDE DEF T
<1>2. p \in Seq(T)
  BY <1>1
<1>3. Len(p) = n
  BY <1>2
<1> QED BY <1>2, <1>3 DEF Listed, T

\* p is b after a.
Joined(p, a, b) ==
  /\ Listed(p) /\ Len(a) \in Nat /\ Len(b) \in Nat
  /\ DOMAIN a = 1 .. Len(a) /\ DOMAIN b = 1 .. Len(b)
  /\ Len(p) = Len(a) + Len(b) /\ DOMAIN p = 1 .. Len(a) + Len(b)
  /\ \A i \in DOMAIN a : i \in DOMAIN p /\ p[i] = a[i]
  /\ \A i \in DOMAIN b : Len(a) + i \in DOMAIN p /\ p[Len(a) + i] = b[i]
  /\ \A k \in DOMAIN p :
       IF k \in DOMAIN a THEN p[k] = a[k]
       ELSE k - Len(a) \in DOMAIN b /\ p[k] = b[k - Len(a)]

\* Two listed sequences, one after the other.
LEMMA ListedConcat ==
  ASSUME NEW a, Listed(a), NEW b, Listed(b)
  PROVE  Joined(a \o b, a, b)
<1> DEFINE S == ToSet(a) \cup ToSet(b)
<1>1. a \in Seq(S) /\ b \in Seq(S)
  <2> DEFINE A == ToSet(a)
             B == ToSet(b)
  <2>1. a \in Seq(A) /\ b \in Seq(B)
    BY DEF Listed
  <2> HIDE DEF A, B
  <2>2. a \in Seq(A \cup B) /\ b \in Seq(A \cup B)
    BY <2>1
  <2> QED BY <2>2 DEF A, B
<1> HIDE DEF S
<1>2. /\ a \o b \in Seq(S) /\ Len(a) \in Nat /\ Len(b) \in Nat
      /\ Len(a \o b) = Len(a) + Len(b)
      /\ DOMAIN a = 1 .. Len(a) /\ DOMAIN b = 1 .. Len(b)
      /\ DOMAIN (a \o b) = 1 .. Len(a) + Len(b)
      /\ \A i \in 1 .. Len(a) : i \in 1 .. Len(a) + Len(b) /\ (a \o b)[i] = a[i]
      /\ \A i \in 1 .. Len(b) :
           Len(a) + i \in 1 .. Len(a) + Len(b) /\ (a \o b)[Len(a) + i] = b[i]
  BY <1>1, ConcatFacts
<1>3. Listed(a \o b)
  BY <1>2, SeqListed
<1>4. ASSUME NEW k \in DOMAIN (a \o b), k \notin DOMAIN a
      PROVE  k - Len(a) \in DOMAIN b /\ (a \o b)[k] = b[k - Len(a)]
  <2>1. k - Len(a) \in 1 .. Len(b) /\ Len(a) + (k - Len(a)) = k
    BY <1>2, <1>4
  <2> QED BY <1>2, <2>1
<1> QED BY <1>2, <1>3, <1>4 DEF Joined

(***************************************************************************)
(* Flattening: every member of the result is a member of a member.         *)
(***************************************************************************)
AllOf(ss) == UNION {ToSet(ss[i]) : i \in DOMAIN ss}

\* Listed members make a sequence of sequences.
LEMMA AllSequences ==
  ASSUME NEW ss, Listed(ss), \A i \in DOMAIN ss : Listed(ss[i])
  PROVE  ss \in Seq(Seq(AllOf(ss)))
<1>1. \A i \in DOMAIN ss : ss[i] \in Seq(AllOf(ss))
  <2> SUFFICES ASSUME NEW i \in DOMAIN ss PROVE ss[i] \in Seq(AllOf(ss))
    OBVIOUS
  <2> DEFINE p == ss[i]
             A == ToSet(p)
             S == AllOf(ss)
  <2>1. p \in Seq(A)
    BY DEF Listed
  <2>2. A \subseteq S
    BY DEF AllOf
  <2> HIDE DEF p, A, S
  <2>3. p \in Seq(S)
    BY <2>1, <2>2
  <2> QED BY <2>3 DEF p, S
<1> DEFINE S == Seq(AllOf(ss))
           T == ToSet(ss)
<1>2. ss \in Seq(T)
  BY DEF Listed
<1> HIDE DEF S, T
<1>3. Len(ss) \in Nat /\ DOMAIN ss = 1 .. Len(ss) /\ ss = [i \in 1 .. Len(ss) |-> ss[i]]
  BY <1>2
<1>4. ss \in Seq(S)
  BY <1>1, <1>3 DEF S
<1> QED BY <1>4 DEF S

\* Members of the flattened sequence.
LEMMA FlatListed ==
  ASSUME NEW ss, Listed(ss), \A i \in DOMAIN ss : Listed(ss[i])
  PROVE  /\ Listed(FlattenSeq(ss))
         /\ \A k \in DOMAIN FlattenSeq(ss) :
              \E i \in DOMAIN ss : \E j \in DOMAIN ss[i] : FlattenSeq(ss)[k] = ss[i][j]
         /\ \A i \in DOMAIN ss : \A j \in DOMAIN ss[i] :
              \E k \in DOMAIN FlattenSeq(ss) : FlattenSeq(ss)[k] = ss[i][j]
<1>1. ss \in Seq(Seq(AllOf(ss)))
  BY AllSequences
<1>2. FlattenSeq(ss) \in Seq(AllOf(ss))
  <2>1. <<>> \in Seq(AllOf(ss))
    OBVIOUS
  <2> QED BY <1>1, <2>1, FlatGrows
<1>3. Listed(FlattenSeq(ss)) /\ \A k \in DOMAIN FlattenSeq(ss) : FlattenSeq(ss)[k] \in AllOf(ss)
  BY <1>2, SeqListed
<1>4. \A x \in AllOf(ss) : \E i \in DOMAIN ss : \E j \in DOMAIN ss[i] : x = ss[i][j]
  BY DEF AllOf, ToSet
<1>5. \A i \in DOMAIN ss : \A j \in DOMAIN ss[i] :
        \E k \in DOMAIN FlattenSeq(ss) : FlattenSeq(ss)[k] = ss[i][j]
  BY <1>1, FlatHolds
<1> QED BY <1>3, <1>4, <1>5

\* One member after another.
LEMMA PairConcat ==
  ASSUME NEW x, NEW y
  PROVE  <<x>> \o <<>> = <<x>> /\ <<x>> \o <<y>> = <<x, y>>
<1> DEFINE S == {x, y}
           p == <<x>> \o <<y>>
           q == <<x, y>>
<1>1. <<x>> \in Seq(S)
  OBVIOUS
<1>2. <<x>> \o <<>> = <<x>>
  BY <1>1
<1>3. p \in Seq(S) /\ Len(p) = 2 /\ p[1] = x /\ p[2] = y
  OBVIOUS
<1>4. q \in Seq(S) /\ Len(q) = 2 /\ q[1] = x /\ q[2] = y
  OBVIOUS
<1>5. p = q
  <2> HIDE DEF p, q, S
  <2>1. \A i \in 1 .. Len(p) : p[i] = q[i]
    BY <1>3, <1>4
  <2> QED BY <1>3, <1>4, <2>1, SeqEqual
<1> QED BY <1>2, <1>5

\* The empty script.
LEMMA EmptyScript == Listed(<<>>) /\ IsScript(<<>>)
BY DEF Listed, IsScript, ToSet

(***************************************************************************)
(* The lowered schema.                                                     *)
(***************************************************************************)
SoundTable(def, models) ==
  /\ IsFiniteSet(DOMAIN def.columns) /\ IsFiniteSet(def.indexes) /\ IsFiniteSet(def.triggers)
  /\ \A fk \in def.foreignKeys :
       /\ fk = [from |-> fk.from, to |-> fk.to, onDelete |-> fk.onDelete]
       /\ fk.from \in DOMAIN def.columns /\ fk.from # <<"__id">>
       /\ fk.to \in models /\ def.columns[fk.from].rest = "-"

Sound(d) ==
  /\ DOMAIN d \subseteq ToSet(TableOrder)
  /\ \A m \in DOMAIN d : SoundTable(d[m], DOMAIN d)

\* What lower_ast_to_physical makes of a model.
LEMMA ModelIsSound ==
  ASSUME NEW s \in Schema, NEW m \in DOMAIN s
  PROVE  SoundTable(Lower(s)[m], DOMAIN s)
<1> DEFINE model == s[m]
           F == DOMAIN model.fields
           d == Lower(s)[m]
<1>1. /\ d.columns = Columns(model) /\ d.indexes = Indexes(m, model)
      /\ d.triggers = Triggers(m, model) /\ d.foreignKeys = ForeignKeys(model)
  BY DEF Lower
<1>2. /\ IsFiniteSet(F)
      /\ \A f \in F : model.fields[f].kind = "relation" =>
           /\ model.fields[f].to \in DOMAIN s /\ model.fields[f].key # <<"__id">>
           /\ model.fields[f].key \in DOMAIN Columns(model)
                => Columns(model)[model.fields[f].key].rest = "-"
  BY MigrationAssumption DEF Validated
<1>3. IsFiniteSet(DOMAIN Columns(model))
  <2> DEFINE N == [f \in F |-> ColumnNames(f, model.fields[f])]
  <2>1. IsFiniteSet({N[f] : f \in DOMAIN N})
    <3>1. DOMAIN N = F
      OBVIOUS
    <3> HIDE DEF N
    <3> QED BY <1>2, <3>1, FiniteRange
  <2>2. \A T \in {N[f] : f \in DOMAIN N} : IsFiniteSet(T)
    <3>1. ASSUME NEW f \in F PROVE IsFiniteSet(ColumnNames(f, model.fields[f]))
      <4>1. IsFiniteSet({}) /\ IsFiniteSet({f})
        BY FS_EmptySet, FS_Singleton
      <4>2. IsFiniteSet({Append(f, "type"), Append(f, "id")})
        <5>1. IsFiniteSet({Append(f, "type")} \cup {Append(f, "id")})
          BY FS_Singleton, FS_AddElement
        <5>2. {Append(f, "type")} \cup {Append(f, "id")} = {Append(f, "type"), Append(f, "id")}
          OBVIOUS
        <5> QED BY <5>1, <5>2
      <4>3. ColumnNames(f, model.fields[f]) \in {{}, {f}, {Append(f, "type"), Append(f, "id")}}
        BY DEF ColumnNames
      <4> QED BY <4>1, <4>2, <4>3
    <3> QED BY <3>1
  <2>3. DOMAIN Columns(model) = UNION {N[f] : f \in DOMAIN N}
    BY DEF Columns
  <2> HIDE DEF N
  <2> QED BY <2>1, <2>2, <2>3, FS_UNION
<1>4. IsFiniteSet(Indexes(m, model))
  <2> DEFINE U == {g \in F : model.fields[g].unique}
             P == {g \in F : model.fields[g].kind = "poly"}
             u == [f \in U |-> [name |-> <<"idx", m>> \o f, columns |-> <<f>>, unique |-> TRUE]]
             p == [f \in P |-> [name |-> <<"idx", m>> \o f \o <<"polymorphic">>,
                                columns |-> <<Append(f, "type"), Append(f, "id")>>,
                                unique |-> FALSE]]
  <2>1. IsFiniteSet(U) /\ IsFiniteSet(P)
    BY <1>2, FS_Subset
  <2>2. IsFiniteSet({u[f] : f \in DOMAIN u}) /\ IsFiniteSet({p[f] : f \in DOMAIN p})
    <3>1. DOMAIN u = U /\ DOMAIN p = P
      OBVIOUS
    <3> HIDE DEF u, p, U, P
    <3> QED BY <2>1, <3>1, FiniteRange
  <2>3. Indexes(m, model) = {u[f] : f \in DOMAIN u} \cup {p[f] : f \in DOMAIN p}
    <3>1. {u[f] : f \in DOMAIN u}
            = {[name |-> <<"idx", m>> \o f, columns |-> <<f>>, unique |-> TRUE] : f \in U}
      OBVIOUS
    <3>2. {p[f] : f \in DOMAIN p}
            = {[name |-> <<"idx", m>> \o f \o <<"polymorphic">>,
                columns |-> <<Append(f, "type"), Append(f, "id")>>, unique |-> FALSE] : f \in P}
      OBVIOUS
    <3> HIDE DEF u, p
    <3> QED BY <3>1, <3>2 DEF Indexes
  <2> HIDE DEF u, p, U, P
  <2> QED BY <2>2, <2>3, FS_Union
<1>5. IsFiniteSet(Triggers(m, model))
  <2> DEFINE T == {g \in F : model.fields[g].kind \in {"tracked", "fieldTracked"}}
             t == [f \in T |-> [name |-> <<"trg", "update", m>> \o f,
                                watches |-> Watched(model, model.fields[f]), feeds |-> {}]]
             E == {"ai", "ad", "au"}
             e == [x \in E |-> [name |-> <<m, "fts", x>>, watches |-> {}, feeds |-> model.fts]]
  <2>1. IsFiniteSet(T) /\ IsFiniteSet(E)
    <3>1. IsFiniteSet({"ai"} \cup {"ad"}) /\ IsFiniteSet(({"ai"} \cup {"ad"}) \cup {"au"})
      BY FS_Singleton, FS_AddElement
    <3>2. ({"ai"} \cup {"ad"}) \cup {"au"} = E
      OBVIOUS
    <3> QED BY <1>2, <3>1, <3>2, FS_Subset
  <2>2. IsFiniteSet({t[f] : f \in DOMAIN t}) /\ IsFiniteSet({e[x] : x \in DOMAIN e})
    <3>1. DOMAIN t = T /\ DOMAIN e = E
      OBVIOUS
    <3> HIDE DEF t, e, T, E
    <3> QED BY <2>1, <3>1, FiniteRange
  <2>3. Triggers(m, model) = {t[f] : f \in DOMAIN t}
                               \cup (IF model.fts = {} THEN {} ELSE {e[x] : x \in DOMAIN e})
    <3>1. {t[f] : f \in DOMAIN t}
            = {[name |-> <<"trg", "update", m>> \o f,
                watches |-> Watched(model, model.fields[f]), feeds |-> {}] : f \in T}
      OBVIOUS
    <3>2. {e[x] : x \in DOMAIN e}
            = {[name |-> <<m, "fts", x>>, watches |-> {}, feeds |-> model.fts] : x \in E}
      OBVIOUS
    <3> HIDE DEF t, e
    <3> QED BY <3>1, <3>2 DEF Triggers
  <2>4. IsFiniteSet(IF model.fts = {} THEN {} ELSE {e[x] : x \in DOMAIN e})
    BY <2>2, FS_EmptySet
  <2> HIDE DEF t, e, T, E
  <2> QED BY <2>2, <2>3, <2>4, FS_Union
<1>6. ASSUME NEW fk \in ForeignKeys(model)
      PROVE  /\ fk = [from |-> fk.from, to |-> fk.to, onDelete |-> fk.onDelete]
             /\ fk.from \in DOMAIN Columns(model) /\ fk.from # <<"__id">>
             /\ fk.to \in DOMAIN s /\ Columns(model)[fk.from].rest = "-"
  <2>1. PICK f \in F : /\ model.fields[f].kind = "relation"
                       /\ model.fields[f].key \in DOMAIN Columns(model)
                       /\ fk = [from |-> model.fields[f].key, to |-> model.fields[f].to,
                                onDelete |-> model.fields[f].onDelete]
    BY DEF ForeignKeys
  <2>2. /\ fk.from = model.fields[f].key /\ fk.to = model.fields[f].to
        /\ fk.onDelete = model.fields[f].onDelete
    BY <2>1
  <2> QED BY <1>2, <2>1, <2>2
<1>7. SoundTable(d, DOMAIN s)
  <2> HIDE DEF d
  <2> QED BY <1>1, <1>3, <1>4, <1>5, <1>6 DEF SoundTable
<1> QED BY <1>7

\* Every version of the schema is lowered soundly.
LEMMA LoweredIsSound ==
  ASSUME NEW s \in Schema
  PROVE  Sound(Lowered[s])
<1>1. Lowered[s] = Lower(s) /\ DOMAIN Lower(s) = DOMAIN s
  BY DEF Lowered, Lower
<1>2. DOMAIN s \subseteq ToSet(TableOrder)
  BY MigrationAssumption DEF Validated
<1> QED BY <1>1, <1>2, ModelIsSound DEF Sound


(***************************************************************************)
(* What a statement does to a database.                                    *)
(***************************************************************************)
\* The fields of a database are those of a record.
Whole(db) ==
  db = [table |-> db.table, index |-> db.index, trigger |-> db.trigger, fts |-> db.fts]

WholeTable(def) ==
  def = [columns |-> def.columns, foreignKeys |-> def.foreignKeys, rows |-> def.rows]

\* Fields of a record replaced, one or three.
LEMMA RowsReplaced ==
  ASSUME NEW def, WholeTable(def), NEW R
  PROVE  [def EXCEPT !.rows = R]
           = [columns |-> def.columns, foreignKeys |-> def.foreignKeys, rows |-> R]
<1> DEFINE a == def.columns
           b == def.foreignKeys
           c == def.rows
<1>1. def = [columns |-> a, foreignKeys |-> b, rows |-> c]
  BY DEF WholeTable
<1>2. [def EXCEPT !.rows = R] = [columns |-> a, foreignKeys |-> b, rows |-> R]
  <2> HIDE DEF a, b, c
  <2> QED BY <1>1
<1> QED BY <1>2

Replaced(db, A, B, C) == [db EXCEPT !.table = A, !.index = B, !.trigger = C]

\* The database after its tables, indexes and triggers are replaced, field by field.
LEMMA FieldsReplaced ==
  ASSUME NEW db, Whole(db), NEW A, NEW B, NEW C
  PROVE  Replaced(db, A, B, C)
           = [table |-> A, index |-> B, trigger |-> C, fts |-> db.fts]
<1> DEFINE a == db.table
           b == db.index
           c == db.trigger
           d == db.fts
           x == [db EXCEPT !.table = A]
           y == [x EXCEPT !.index = B]
<1>1. db = [table |-> a, index |-> b, trigger |-> c, fts |-> d]
  BY DEF Whole
<1> HIDE DEF a, b, c, d
<1>2. x = [table |-> A, index |-> b, trigger |-> c, fts |-> d]
  BY <1>1
<1> HIDE DEF x
<1>3. y = [table |-> A, index |-> B, trigger |-> c, fts |-> d]
  BY <1>2
<1> HIDE DEF y
<1>4. [y EXCEPT !.trigger = C] = [table |-> A, index |-> B, trigger |-> C, fts |-> d]
  BY <1>3
<1> QED BY <1>4 DEF d, y, x, Replaced

\* A table put into a database, in the place of one of its name if there is one.
Put(db, t, def, new) ==
  /\ Whole(new)
  /\ DOMAIN new.table = {t} \cup DOMAIN db.table
  /\ new.table[t] = def
  /\ \A u \in DOMAIN db.table \ {t} : new.table[u] = db.table[u]
  /\ new.index = db.index /\ new.trigger = db.trigger /\ new.fts = db.fts

\* A table put into the database is there, next to the others.
LEMMA TablePut ==
  ASSUME NEW db, Whole(db), NEW t, NEW def
  PROVE  Put(db, t, def, WithTable(db, t, def))
<1> DEFINE f == Over(Only(t, def), db.table)
<1>1. /\ DOMAIN f = {t} \cup DOMAIN db.table /\ f[t] = def
      /\ \A u \in DOMAIN db.table \ {t} : f[u] = db.table[u]
  BY DEF Over, Only
<1>2. WithTable(db, t, def)
        = [table |-> f, index |-> db.index, trigger |-> db.trigger, fts |-> db.fts]
  BY DEF WithTable, Whole
<1> HIDE DEF f
<1> QED BY <1>1, <1>2 DEF Put, Whole

\* A dropped table takes its indexes and triggers along; of the other tables the
\* rows are the same, or what the implicit delete spares.
LeftAlone(db, u, t, e, def) ==
  /\ WholeTable(def)
  /\ def.columns = db.table[u].columns /\ def.foreignKeys = db.table[u].foreignKeys
  /\ ~ e => def.rows = db.table[u].rows
  /\ e => def.rows = Spared(db, u, Doomed(db, t))

Dropped(db, t, e, new) ==
  /\ t \in DOMAIN db.table
  /\ Whole(new)
  /\ DOMAIN new.table = DOMAIN db.table \ {t}
  /\ \A u \in DOMAIN new.table : LeftAlone(db, u, t, e, new.table[u])
  /\ e => ~ StillReferred(db, Doomed(db, t))
  /\ new.index = {i \in db.index : i.table # t}
  /\ new.trigger = {g \in db.trigger : g.table # t}
  /\ new.fts = db.fts

\* A drop that succeeds does what Dropped says.
LEMMA TableDropped ==
  ASSUME NEW db, Formed(db), NEW t, NEW e \in BOOLEAN, DropTable(db, t, e).ok
  PROVE  Dropped(db, t, e, DropTable(db, t, e).db)
<1> DEFINE doomed == Doomed(db, t)
<1>1. t \in DOMAIN db.table
  BY DEF DropTable, Failed, Result
<1>2. /\ Whole(db)
      /\ \A u \in DOMAIN db.table : WholeTable(db.table[u])
  BY DEF Formed, FormedTable, Whole, WholeTable
<1>3. ASSUME NEW x, Whole(x)
      PROVE  /\ Whole(Without(x, t))
             /\ Without(x, t).table = [u \in DOMAIN x.table \ {t} |-> x.table[u]]
             /\ Without(x, t).index = {i \in x.index : i.table # t}
             /\ Without(x, t).trigger = {g \in x.trigger : g.table # t}
             /\ Without(x, t).fts = x.fts
  <2>1. Without(x, t) = [table |-> [u \in DOMAIN x.table \ {t} |-> x.table[u]],
                         index |-> {i \in x.index : i.table # t},
                         trigger |-> {g \in x.trigger : g.table # t}, fts |-> x.fts]
    <3> DEFINE A == [u \in DOMAIN x.table \ {t} |-> x.table[u]]
               B == {i \in x.index : i.table # t}
               C == {g \in x.trigger : g.table # t}
    <3>1. Without(x, t) = Replaced(x, A, B, C)
      BY DEF Without, Replaced
    <3> HIDE DEF A, B, C
    <3>2. Replaced(x, A, B, C)
            = [table |-> A, index |-> B, trigger |-> C, fts |-> x.fts]
      BY <1>3, FieldsReplaced
    <3> QED BY <3>1, <3>2 DEF A, B, C
  <2> QED BY <2>1 DEF Whole
<1>4. CASE ~ e
  <2>1. DropTable(db, t, e).db = Without(db, t)
    BY <1>1, <1>4 DEF DropTable, Result
  <2> DEFINE new == Without(db, t)
  <2>2. /\ Whole(new)
        /\ new.table = [u \in DOMAIN db.table \ {t} |-> db.table[u]]
        /\ new.index = {i \in db.index : i.table # t}
        /\ new.trigger = {g \in db.trigger : g.table # t}
        /\ new.fts = db.fts
    BY <1>2, <1>3
  <2> HIDE DEF new
  <2>3. DOMAIN new.table = DOMAIN db.table \ {t} /\ \A u \in DOMAIN new.table : new.table[u] = db.table[u]
    BY <2>2
  <2>4. DropTable(db, t, e).db = new
    BY <2>1 DEF new
  <2> QED BY <1>1, <1>2, <1>4, <2>2, <2>3, <2>4 DEF Dropped, LeftAlone
<1>5. CASE e
  <2> DEFINE x == ImplicitDelete(db, doomed)
  <2>1. ~ StillReferred(db, doomed) /\ DropTable(db, t, e).db = Without(x, t)
    BY <1>1, <1>5 DEF DropTable, Failed, Result
  <2>2. x = [table |-> [u \in DOMAIN db.table |->
                          [db.table[u] EXCEPT !.rows = Spared(db, u, doomed)]],
             index |-> db.index, trigger |-> db.trigger, fts |-> db.fts]
    BY <1>2 DEF ImplicitDelete, Whole
  <2>3. Whole(x) /\ x.index = db.index /\ x.trigger = db.trigger /\ x.fts = db.fts
        /\ DOMAIN x.table = DOMAIN db.table
    BY <2>2 DEF Whole
  <2>4. ASSUME NEW u \in DOMAIN db.table
        PROVE  x.table[u] = [columns |-> db.table[u].columns,
                             foreignKeys |-> db.table[u].foreignKeys,
                             rows |-> Spared(db, u, doomed)]
    <3> DEFINE R == Spared(db, u, doomed)
    <3>1. x.table[u] = [db.table[u] EXCEPT !.rows = R]
      BY <2>2
    <3> HIDE DEF R
    <3>2. [db.table[u] EXCEPT !.rows = R]
            = [columns |-> db.table[u].columns, foreignKeys |-> db.table[u].foreignKeys,
               rows |-> R]
      BY <1>2, RowsReplaced
    <3> QED BY <3>1, <3>2 DEF R
  <2> HIDE DEF x, doomed
  <2>5. /\ DOMAIN Without(x, t).table = DOMAIN db.table \ {t}
        /\ \A u \in DOMAIN db.table \ {t} : Without(x, t).table[u] = x.table[u]
    <3> DEFINE f == Without(x, t).table
    <3>1. f = [u \in DOMAIN x.table \ {t} |-> x.table[u]]
      BY <1>3, <2>3
    <3> HIDE DEF f
    <3>2. DOMAIN f = DOMAIN db.table \ {t} /\ \A u \in DOMAIN db.table \ {t} : f[u] = x.table[u]
      BY <2>3, <3>1
    <3> QED BY <3>2 DEF f
  <2>6. ASSUME NEW u \in DOMAIN db.table \ {t}
        PROVE  /\ WholeTable(Without(x, t).table[u])
               /\ Without(x, t).table[u].columns = db.table[u].columns
               /\ Without(x, t).table[u].foreignKeys = db.table[u].foreignKeys
               /\ Without(x, t).table[u].rows = Spared(db, u, doomed)
    <3>1. Without(x, t).table[u]
            = [columns |-> db.table[u].columns, foreignKeys |-> db.table[u].foreignKeys,
               rows |-> Spared(db, u, doomed)]
      BY <2>4, <2>5
    <3> QED BY <3>1 DEF WholeTable
  <2>7. /\ Whole(Without(x, t))
        /\ Without(x, t).index = {i \in db.index : i.table # t}
        /\ Without(x, t).trigger = {g \in db.trigger : g.table # t}
        /\ Without(x, t).fts = db.fts
    BY <1>3, <2>3
  <2> QED BY <1>1, <1>5, <2>1, <2>5, <2>6, <2>7 DEF doomed, Dropped, LeftAlone
<1> QED BY <1>4, <1>5

\* A rebuild: the table is copied, of the other tables the rows are the same or what
\* the implicit delete spares.
Rebuilt(db, t, def, keep, e, new) ==
  /\ t \in DOMAIN db.table /\ keep \subseteq DOMAIN db.table[t].columns
  /\ Whole(new)
  /\ DOMAIN new.table = DOMAIN db.table
  /\ new.table[t] = Copied(db.table[t], def, keep)
  /\ \A u \in DOMAIN new.table \ {t} : LeftAlone(db, u, t, e, new.table[u])
  /\ new.index = {i \in db.index : i.table # t}
  /\ new.trigger = {g \in db.trigger : g.table # t}
  /\ new.fts = IF def.fts = {} THEN db.fts ELSE db.fts \cup {t}

\* A rebuild that succeeds does what Rebuilt says.
LEMMA TableRebuilt ==
  ASSUME NEW db, Formed(db), NEW t, NEW def, NEW keep, NEW e \in BOOLEAN,
         Rebuild(db, t, def, keep, e).ok
  PROVE  Rebuilt(db, t, def, keep, e, Rebuild(db, t, def, keep, e).db)
<1> DEFINE dropped == DropTable(db, t, e)
           copy == Copied(db.table[t], def, keep)
           copied == WithTable(dropped.db, t, copy)
           new == Rebuild(db, t, def, keep, e).db
           fts == IF def.fts = {} THEN copied.fts ELSE copied.fts \cup {t}
<1>1. /\ t \in DOMAIN db.table /\ keep \subseteq DOMAIN db.table[t].columns
      /\ dropped.ok
      /\ new = [copied EXCEPT !.fts = fts]
  BY DEF Rebuild, Failed, Result
<1>2. Dropped(db, t, e, dropped.db)
  BY <1>1, TableDropped
<1> DEFINE mid == dropped.db
<1> HIDE DEF mid, copy
<1>3. Put(mid, t, copy, WithTable(mid, t, copy))
  <2>1. Whole(mid)
    BY <1>2 DEF mid, Dropped
  <2> QED BY <2>1, TablePut
<1>4. copied = WithTable(mid, t, copy)
  BY DEF mid
<1> HIDE DEF copied, fts, new, dropped
<1>5. /\ Whole(new) /\ new.table = copied.table /\ new.index = copied.index
      /\ new.trigger = copied.trigger /\ new.fts = fts
  <2> DEFINE a == copied.table
             b == copied.index
             c == copied.trigger
             f == copied.fts
  <2>1. copied = [table |-> a, index |-> b, trigger |-> c, fts |-> f]
    BY <1>3, <1>4 DEF Whole, Put
  <2> HIDE DEF a, b, c, f
  <2>2. new = [table |-> a, index |-> b, trigger |-> c, fts |-> fts]
    BY <1>1, <2>1
  <2>3. Whole(new) /\ new.table = a /\ new.index = b /\ new.trigger = c /\ new.fts = fts
    BY <2>2 DEF Whole
  <2> QED BY <2>3 DEF a, b, c
<1>6. /\ DOMAIN new.table = DOMAIN db.table /\ new.table[t] = copy
      /\ \A u \in DOMAIN new.table \ {t} : u \in DOMAIN mid.table /\ new.table[u] = mid.table[u]
      /\ new.index = mid.index /\ new.trigger = mid.trigger
      /\ new.fts = IF def.fts = {} THEN mid.fts ELSE mid.fts \cup {t}
  <2>1. DOMAIN mid.table = DOMAIN db.table \ {t}
    BY <1>2 DEF mid, Dropped
  <2> QED BY <1>1, <1>3, <1>4, <1>5, <2>1 DEF fts, Put
<1> QED BY <1>1, <1>2, <1>5, <1>6 DEF mid, copy, new, Dropped, Rebuilt

\* The copy of a rebuilt table.
LEMMA TableCopied ==
  ASSUME NEW old, NEW def, NEW keep
  PROVE  LET new == Copied(old, def, keep) IN
         /\ WholeTable(new)
         /\ new.columns = def.columns /\ new.foreignKeys = def.foreignKeys
         /\ DOMAIN new.rows = DOMAIN old.rows
         /\ \A r \in DOMAIN old.rows :
              /\ DOMAIN new.rows[r] = DOMAIN def.columns
              /\ \A c \in DOMAIN def.columns :
                   /\ c \in keep => new.rows[r][c] = old.rows[r][c]
                   /\ c \notin keep => new.rows[r][c] = Absent(def.columns[c])
<1> DEFINE R == [r \in DOMAIN old.rows |->
                   [c \in DOMAIN def.columns |->
                      IF c \in keep THEN old.rows[r][c] ELSE Absent(def.columns[c])]]
<1>1. WholeTable(NewTable(def)) /\ NewTable(def).columns = def.columns
      /\ NewTable(def).foreignKeys = def.foreignKeys
  BY DEF NewTable, WholeTable
<1>2. Copied(old, def, keep) = [columns |-> def.columns, foreignKeys |-> def.foreignKeys, rows |-> R]
  <2>1. Copied(old, def, keep) = [NewTable(def) EXCEPT !.rows = R]
    BY DEF Copied
  <2> HIDE DEF R
  <2> QED BY <1>1, <2>1, RowsReplaced
<1>3. /\ DOMAIN R = DOMAIN old.rows
      /\ \A r \in DOMAIN old.rows :
           /\ DOMAIN R[r] = DOMAIN def.columns
           /\ \A c \in DOMAIN def.columns :
                /\ c \in keep => R[r][c] = old.rows[r][c]
                /\ c \notin keep => R[r][c] = Absent(def.columns[c])
  OBVIOUS
<1> HIDE DEF R
<1> QED BY <1>2, <1>3 DEF WholeTable

\* A new column has the value every stored row shows in it.
Added(db, t, c, type, new) ==
  /\ t \in DOMAIN db.table /\ c \notin DOMAIN db.table[t].columns
  /\ Whole(new)
  /\ DOMAIN new.table = DOMAIN db.table
  /\ WholeTable(new.table[t])
  /\ new.table[t].columns = Over(Only(c, type), db.table[t].columns)
  /\ new.table[t].foreignKeys = db.table[t].foreignKeys
  /\ DOMAIN new.table[t].rows = DOMAIN db.table[t].rows
  /\ \A r \in DOMAIN db.table[t].rows :
       /\ DOMAIN new.table[t].rows[r] = {c} \cup DOMAIN db.table[t].rows[r]
       /\ new.table[t].rows[r][c] = Absent(type)
       /\ \A x \in DOMAIN db.table[t].rows[r] \ {c} :
            new.table[t].rows[r][x] = db.table[t].rows[r][x]
  /\ \A u \in DOMAIN new.table \ {t} : new.table[u] = db.table[u]
  /\ new.index = db.index /\ new.trigger = db.trigger /\ new.fts = db.fts

\* An added column is in the table and in each of its rows, absent.
LEMMA ColumnAdded ==
  ASSUME NEW db, Formed(db), NEW t, NEW c, NEW type, AddColumn(db, t, c, type).ok
  PROVE  Added(db, t, c, type, AddColumn(db, t, c, type).db)
<1> DEFINE def == db.table[t]
           C == Over(Only(c, type), def.columns)
           R == [r \in DOMAIN def.rows |-> Over(Only(c, Absent(type)), def.rows[r])]
           new == AddColumn(db, t, c, type).db
<1>1. t \in DOMAIN db.table /\ c \notin DOMAIN db.table[t].columns
  BY DEF AddColumn, Failed, Result
<1>2. Whole(db) /\ WholeTable(def)
  BY <1>1 DEF Formed, FormedTable, Whole, WholeTable
<1>3. new = [db EXCEPT !.table[t].columns = C, !.table[t].rows = R]
  BY <1>1 DEF AddColumn, Result
<1>4. new = [table |-> [db.table EXCEPT ![t] = [columns |-> C, foreignKeys |-> def.foreignKeys,
                                                rows |-> R]],
             index |-> db.index, trigger |-> db.trigger, fts |-> db.fts]
  <2> DEFINE a == db.table
             b == db.index
             g == db.trigger
             f == db.fts
             k == def.columns
             m == def.foreignKeys
             o == def.rows
             x == [db EXCEPT !.table[t].columns = C]
             y == [x EXCEPT !.table[t].rows = R]
             T == [a EXCEPT ![t].columns = C]
  <2>1. db = [table |-> a, index |-> b, trigger |-> g, fts |-> f] /\ t \in DOMAIN a
        /\ a[t] = [columns |-> k, foreignKeys |-> m, rows |-> o]
    BY <1>1, <1>2 DEF Whole, WholeTable
  <2>2. new = y
    BY <1>3
  <2> HIDE DEF a, b, g, f, k, m, o, C, R, new
  <2>3. x = [table |-> T, index |-> b, trigger |-> g, fts |-> f]
    BY <2>1
  <2>4. T = [a EXCEPT ![t] = [columns |-> C, foreignKeys |-> m, rows |-> o]]
    <3> DEFINE z == a[t]
    <3>1. z = [columns |-> k, foreignKeys |-> m, rows |-> o]
      BY <2>1
    <3> HIDE DEF z
    <3>2. [z EXCEPT !.columns = C] = [columns |-> C, foreignKeys |-> m, rows |-> o]
      BY <3>1
    <3>3. T = [a EXCEPT ![t] = [z EXCEPT !.columns = C]]
      BY DEF z
    <3> QED BY <3>2, <3>3
  <2> HIDE DEF x, T
  <2>5. y = [table |-> [T EXCEPT ![t].rows = R], index |-> b, trigger |-> g, fts |-> f]
    BY <2>3
  <2>6. [T EXCEPT ![t].rows = R]
          = [a EXCEPT ![t] = [columns |-> C, foreignKeys |-> m, rows |-> R]]
    <3> DEFINE z == T[t]
               X == [columns |-> C, foreignKeys |-> m, rows |-> R]
               Y == [columns |-> C, foreignKeys |-> m, rows |-> o]
    <3>1. z = Y
      BY <2>1, <2>4
    <3> HIDE DEF z
    <3>2. [z EXCEPT !.rows = R] = X
      BY <3>1
    <3>3. [T EXCEPT ![t].rows = R] = [T EXCEPT ![t] = [z EXCEPT !.rows = R]]
      BY DEF z
    <3> HIDE DEF X, Y
    <3>4. T = [a EXCEPT ![t] = Y]
      BY <2>4 DEF Y
    <3>5. [T EXCEPT ![t] = X] = [a EXCEPT ![t] = X]
      BY <3>4
    <3> QED BY <3>2, <3>3, <3>5 DEF X
  <2>7. new = [table |-> [a EXCEPT ![t] = [columns |-> C, foreignKeys |-> m, rows |-> R]],
               index |-> b, trigger |-> g, fts |-> f]
    BY <2>2, <2>5, <2>6
  <2> QED BY <2>7 DEF a, b, g, f, m
<1> HIDE DEF C, new
<1>5. DOMAIN R = DOMAIN def.rows
  OBVIOUS
<1>6. ASSUME NEW r \in DOMAIN def.rows
      PROVE  /\ DOMAIN R[r] = {c} \cup DOMAIN def.rows[r]
             /\ R[r][c] = Absent(type)
             /\ \A x \in DOMAIN def.rows[r] \ {c} : R[r][x] = def.rows[r][x]
  <2> DEFINE g == def.rows[r]
  <2>1. R[r] = Over(Only(c, Absent(type)), g)
    OBVIOUS
  <2> HIDE DEF g, R
  <2>2. /\ DOMAIN R[r] = {c} \cup DOMAIN g /\ R[r][c] = Absent(type)
        /\ \A x \in DOMAIN g \ {c} : R[r][x] = g[x]
    BY <2>1 DEF Over, Only
  <2> QED BY <2>2 DEF g
<1> HIDE DEF R
<1> QED BY <1>1, <1>4, <1>5, <1>6 DEF Whole, WholeTable, C, new, Added

(***************************************************************************)
(* Statements and frames: whether a statement runs on a database without   *)
(* rows, and what it makes of the columns, keys, indexes and triggers of   *)
(* any database, is decided by its frame.                                  *)
(***************************************************************************)
Bare(db) == \A t \in DOMAIN db.table : DOMAIN db.table[t].rows = {}

\* The parts of a frame.
LEMMA FrameParts ==
  ASSUME NEW db
  PROVE  /\ DOMAIN Frame(db).table = DOMAIN db.table
         /\ \A t \in DOMAIN db.table :
              /\ Frame(db).table[t] = Shell(db.table[t])
              /\ Frame(db).table[t].columns = db.table[t].columns
              /\ Frame(db).table[t].foreignKeys = db.table[t].foreignKeys
         /\ Frame(db).index = db.index /\ Frame(db).trigger = db.trigger
         /\ Frame(db).fts = db.fts
BY DEF Frame, Shell

\* Which triggers are broken, and what they are in the way of, is told by the frame.
LEMMA FrameJams ==
  ASSUME NEW db, NEW t
  PROVE  Broken(Frame(db)) = Broken(db) /\ (Jams(Frame(db), t) <=> Jams(db, t))
<1> DEFINE fr == Frame(db)
<1>1. /\ DOMAIN fr.table = DOMAIN db.table
      /\ \A u \in DOMAIN db.table : fr.table[u].foreignKeys = db.table[u].foreignKeys
      /\ fr.trigger = db.trigger /\ fr.fts = db.fts
  BY FrameParts
<1> HIDE DEF fr
<1>2. Broken(fr) = Broken(db)
  BY <1>1 DEF Broken
<1>3. \A S : KeyClosed(fr, S) <=> KeyClosed(db, S)
  BY <1>1 DEF KeyClosed
<1>4. Cascading(fr, t) = Cascading(db, t)
  BY <1>1, <1>3 DEF Cascading
<1> DEFINE C == Cascading(db, t)
           B == Broken(db)
<1>5. Cascading(fr, t) = C /\ Broken(fr) = B /\ Cascading(db, t) = C /\ Broken(db) = B
  BY <1>2, <1>4
<1> HIDE DEF C, B
<1>6. Jams(fr, t) <=> Jams(db, t)
  BY <1>1, <1>5 DEF Jams
<1> QED BY <1>2, <1>6 DEF fr

\* A frame is told by its parts.
LEMMA FrameIs ==
  ASSUME NEW db, NEW new, NEW s,
         DOMAIN new.table = TablesAfter(Frame(db), s),
         \A t \in DOMAIN new.table : Shell(new.table[t]) = ShellAfter(Frame(db), s, t),
         new.index = IndexAfter(Frame(db), s), new.trigger = TriggerAfter(Frame(db), s),
         new.fts = FtsAfter(Frame(db), s)
  PROVE  Frame(new) = After(Frame(db), s)
<1> DEFINE f == [t \in DOMAIN new.table |-> Shell(new.table[t])]
           g == [t \in TablesAfter(Frame(db), s) |-> ShellAfter(Frame(db), s, t)]
<1>1. f = g
  OBVIOUS
<1>2. Frame(new) = [table |-> f, index |-> new.index, trigger |-> new.trigger, fts |-> new.fts]
  BY DEF Frame, Shell
<1> HIDE DEF f
<1> QED BY <1>1, <1>2 DEF After

\* What is known of a statement that runs.
Worked(db, s, e) ==
  LET new == Execute(db, s, e).db IN
  /\ Execute(db, s, e).ok =>
       /\ Runs(Frame(db), s, e)
       /\ Formed(new)
       /\ Frame(new) = After(Frame(db), s)
       /\ Bare(db) => Bare(new)
  /\ Bare(db) /\ Runs(Frame(db), s, e) => Execute(db, s, e).ok

\* CREATE TABLE.
LEMMA CreateTableWorks ==
  ASSUME NEW d, Sound(d), NEW db, Formed(db), NEW s, Writes(d, s), NEW e \in BOOLEAN,
         s.kind = "CreateTable"
  PROVE  Worked(db, s, e)
<1> DEFINE t == s.table
           def == d[t]
           new == WithTable(db, t, NewTable(def))
<1>1. t \in DOMAIN d /\ s.arg = def
  BY DEF Writes
<1>2. /\ WholeTable(NewTable(def)) /\ NewTable(def).columns = def.columns
      /\ NewTable(def).foreignKeys = def.foreignKeys /\ DOMAIN NewTable(def).rows = {}
  BY DEF NewTable, WholeTable
<1>3. /\ Whole(db) /\ IsFiniteSet(db.index) /\ IsFiniteSet(db.trigger)
      /\ DOMAIN db.table \subseteq ToSet(TableOrder)
      /\ \A u \in DOMAIN db.table : FormedTable(db.table[u])
  BY DEF Formed, Whole
<1>4. Put(db, t, NewTable(def), new)
  BY <1>3, TablePut
<1>5. t \notin DOMAIN db.table <=> Runs(Frame(db), s, e)
  BY FrameParts DEF Runs, Finds, Clear
<1>6. Execute(db, s, e) = IF t \in DOMAIN db.table THEN Failed(db) ELSE Result(TRUE, new)
  BY <1>1 DEF Execute
<1>7. Execute(db, s, e).ok <=> t \notin DOMAIN db.table
  BY <1>6 DEF Failed, Result
<1>8. ASSUME t \notin DOMAIN db.table
      PROVE  /\ Execute(db, s, e).db = new
             /\ Formed(new)
             /\ Frame(new) = After(Frame(db), s)
             /\ Bare(db) => Bare(new)
  <2> HIDE DEF new
  <2>1. Execute(db, s, e).db = new
    BY <1>6, <1>8 DEF Result
  <2>2. FormedTable(NewTable(def))
    <3>1. SoundTable(def, DOMAIN d)
      BY <1>1 DEF Sound
    <3> QED BY <1>2, <3>1 DEF FormedTable, WholeTable, SoundTable
  <2>3. Formed(new)
    <3>1. t \in ToSet(TableOrder)
      BY <1>1 DEF Sound
    <3> QED BY <1>3, <1>4, <2>2, <3>1 DEF Formed, Whole, Put
  <2>4. Frame(new) = After(Frame(db), s)
    <3>1. DOMAIN new.table = TablesAfter(Frame(db), s)
      BY <1>4, FrameParts DEF TablesAfter, Put
    <3>2. ASSUME NEW u \in DOMAIN new.table
          PROVE  Shell(new.table[u]) = ShellAfter(Frame(db), s, u)
      <4>1. CASE u = t
        <5>1. ShellAfter(Frame(db), s, u) = Shell(def)
          BY <1>1, <4>1 DEF ShellAfter
        <5> QED BY <1>2, <1>4, <4>1, <5>1 DEF Shell, Put
      <4>2. CASE u # t
        <5>1. ShellAfter(Frame(db), s, u) = Frame(db).table[u]
          BY <4>2 DEF ShellAfter
        <5> QED BY <1>4, <4>2, <5>1, FrameParts DEF Put
      <4> QED BY <4>1, <4>2
    <3>3. /\ new.index = IndexAfter(Frame(db), s) /\ new.trigger = TriggerAfter(Frame(db), s)
          /\ new.fts = FtsAfter(Frame(db), s)
      BY <1>4, FrameParts DEF IndexAfter, TriggerAfter, FtsAfter, Put
    <3> QED BY <3>1, <3>2, <3>3, FrameIs
  <2>5. Bare(db) => Bare(new)
    BY <1>2, <1>4 DEF Bare, Put
  <2> QED BY <2>1, <2>3, <2>4, <2>5
<1> HIDE DEF new
<1> QED BY <1>5, <1>7, <1>8 DEF Worked

\* Nothing refers to anything in a database without rows.
LEMMA BareRefersNot ==
  ASSUME NEW db, Bare(db), NEW doomed
  PROVE  ~ StillReferred(db, doomed)
<1>1. \A p \in Stored(db) : FALSE
  BY DEF Stored, Bare
<1> QED BY <1>1 DEF StillReferred

\* The tables a drop or a rebuild leaves alone.
LEMMA OthersFormed ==
  ASSUME NEW db, Formed(db), NEW u \in DOMAIN db.table, NEW t, NEW def, NEW e \in BOOLEAN,
         LeftAlone(db, u, t, e, def)
  PROVE  /\ FormedTable(def) /\ Shell(def) = Shell(db.table[u])
         /\ DOMAIN def.rows \subseteq DOMAIN db.table[u].rows
<1>1. FormedTable(db.table[u])
  BY DEF Formed
<1>2. CASE ~ e
  <2>1. def = db.table[u]
    BY <1>1, <1>2 DEF WholeTable, FormedTable, LeftAlone
  <2> QED BY <1>1, <2>1
<1>3. CASE e
  <2>1. /\ DOMAIN def.rows \subseteq DOMAIN db.table[u].rows
        /\ \A r \in DOMAIN def.rows : DOMAIN def.rows[r] = DOMAIN db.table[u].rows[r]
    <3> DEFINE doomed == Doomed(db, t)
               rows == Spared(db, u, doomed)
    <3>1. def.rows = rows
      BY <1>3 DEF LeftAlone
    <3> HIDE DEF doomed
    <3>2. /\ DOMAIN rows \subseteq DOMAIN db.table[u].rows
          /\ \A r \in DOMAIN rows : DOMAIN rows[r] = DOMAIN db.table[u].rows[r]
      BY DEF Spared
    <3> QED BY <3>1, <3>2
  <2>2. FormedTable(def)
    BY <1>1, <2>1 DEF FormedTable, WholeTable, LeftAlone
  <2> QED BY <2>1, <2>2 DEF Shell, LeftAlone
<1> QED BY <1>2, <1>3

\* DROP TABLE.
LEMMA DropTableWorks ==
  ASSUME NEW d, Sound(d), NEW db, Formed(db), NEW s, Writes(d, s), NEW e \in BOOLEAN,
         s.kind = "DropTable"
  PROVE  Worked(db, s, e)
<1> DEFINE t == s.table
           r == DropTable(db, t, e)
           new == r.db
<1>1. Execute(db, s, e) = r
  BY DEF Execute
<1>2. t \in DOMAIN db.table /\ ~ (e /\ Jams(db, t)) <=> Runs(Frame(db), s, e)
  BY FrameParts, FrameJams DEF Runs, Finds, Clear
<1>3. Bare(db) /\ t \in DOMAIN db.table /\ ~ (e /\ Jams(db, t)) => r.ok
  BY BareRefersNot DEF DropTable, Result
<1>5. r.ok => ~ (e /\ Jams(db, t))
  BY DEF DropTable, Failed, Result
<1>4. ASSUME r.ok
      PROVE  t \in DOMAIN db.table /\ Formed(new) /\ Frame(new) = After(Frame(db), s) /\ (Bare(db) => Bare(new))
  <2>1. Dropped(db, t, e, new)
    BY <1>4, TableDropped
  <2> HIDE DEF new, r
  <2>2. ASSUME NEW u \in DOMAIN new.table
        PROVE  /\ FormedTable(new.table[u]) /\ Shell(new.table[u]) = Shell(db.table[u])
               /\ DOMAIN new.table[u].rows \subseteq DOMAIN db.table[u].rows
    <3>1. u \in DOMAIN db.table
      BY <2>1 DEF Dropped
    <3> QED BY <2>1, <3>1, OthersFormed DEF Dropped
  <2>3. Formed(new)
    <3>1. IsFiniteSet(new.index) /\ IsFiniteSet(new.trigger)
      <4>1. new.index \subseteq db.index /\ new.trigger \subseteq db.trigger
        BY <2>1 DEF Dropped
      <4> QED BY <4>1, FS_Subset DEF Formed
    <3>2. DOMAIN new.table \subseteq ToSet(TableOrder)
      BY <2>1 DEF Formed, Dropped
    <3> QED BY <2>1, <2>2, <3>1, <3>2 DEF Formed, Whole, Dropped
  <2>4. Frame(new) = After(Frame(db), s)
    <3>1. DOMAIN new.table = TablesAfter(Frame(db), s)
      BY <2>1, FrameParts DEF TablesAfter, Dropped
    <3>2. ASSUME NEW u \in DOMAIN new.table
          PROVE  Shell(new.table[u]) = ShellAfter(Frame(db), s, u)
      <4>1. ShellAfter(Frame(db), s, u) = Frame(db).table[u]
        BY DEF ShellAfter
      <4> QED BY <2>1, <2>2, <4>1, FrameParts DEF Dropped
    <3>3. /\ new.index = IndexAfter(Frame(db), s) /\ new.trigger = TriggerAfter(Frame(db), s)
          /\ new.fts = FtsAfter(Frame(db), s)
      BY <2>1, FrameParts DEF IndexAfter, TriggerAfter, FtsAfter, Dropped
    <3> QED BY <3>1, <3>2, <3>3, FrameIs
  <2>5. Bare(db) => Bare(new)
    BY <2>1, <2>2 DEF Bare, Dropped
  <2> QED BY <2>1, <2>3, <2>4, <2>5 DEF Dropped
<1> HIDE DEF r
<1> QED BY <1>1, <1>2, <1>3, <1>4, <1>5 DEF Worked

\* The rebuild of a table.
LEMMA RebuildTableWorks ==
  ASSUME NEW d, Sound(d), NEW db, Formed(db), NEW s, Writes(d, s), NEW e \in BOOLEAN,
         s.kind = "RebuildTable"
  PROVE  Worked(db, s, e)
<1> DEFINE t == s.table
           def == s.arg.def
           keep == s.arg.keep
           r == Rebuild(db, t, def, keep, e)
           new == r.db
<1>1. Execute(db, s, e) = r
  BY DEF Execute
<1> DEFINE found == t \in DOMAIN db.table /\ keep \subseteq DOMAIN db.table[t].columns
           clear == ~ (e /\ Jams(db, t)) /\ \A g \in Broken(db) : g.table = t
<1>2. found /\ clear <=> Runs(Frame(db), s, e)
  BY FrameParts, FrameJams DEF Runs, Finds, Clear
<1>5. ASSUME DropTable(db, t, e).ok
      PROVE  Broken(DropTable(db, t, e).db) = {} <=> \A g \in Broken(db) : g.table = t
  <2> DEFINE mid == DropTable(db, t, e).db
  <2>1. mid.trigger = {g \in db.trigger : g.table # t} /\ mid.fts = db.fts
    <3> HIDE DEF t
    <3> QED BY <1>5, TableDropped DEF Dropped
  <2> HIDE DEF mid
  <2>2. Broken(mid) = {} <=> \A g \in Broken(db) : g.table = t
    BY <2>1 DEF Broken
  <2> QED BY <2>2 DEF mid
<1>3. Bare(db) /\ found /\ clear => r.ok
  <2>1. Bare(db) /\ found /\ clear => DropTable(db, t, e).ok
    BY BareRefersNot DEF DropTable, Result
  <2> QED BY <1>5, <2>1 DEF Rebuild, Result
<1>6. r.ok => clear
  <2>1. r.ok => DropTable(db, t, e).ok /\ Broken(DropTable(db, t, e).db) = {}
    BY DEF Rebuild, Failed, Result
  <2>2. DropTable(db, t, e).ok => ~ (e /\ Jams(db, t))
    BY DEF DropTable, Failed, Result
  <2> QED BY <1>5, <2>1, <2>2
<1>4. ASSUME r.ok
      PROVE  /\ t \in DOMAIN db.table /\ keep \subseteq DOMAIN db.table[t].columns
             /\ Formed(new) /\ Frame(new) = After(Frame(db), s) /\ (Bare(db) => Bare(new))
  <2>1. Rebuilt(db, t, def, keep, e, new)
    <3> HIDE DEF t, def, keep
    <3> QED BY <1>4, TableRebuilt
  <2> HIDE DEF new, r
  <2>2. ASSUME NEW u \in DOMAIN new.table \ {t}
        PROVE  /\ FormedTable(new.table[u]) /\ Shell(new.table[u]) = Shell(db.table[u])
               /\ DOMAIN new.table[u].rows \subseteq DOMAIN db.table[u].rows
    <3>1. u \in DOMAIN db.table
      BY <2>1 DEF Rebuilt
    <3> QED BY <2>1, <3>1, OthersFormed DEF Rebuilt
  <2>3. /\ FormedTable(new.table[t]) /\ Shell(new.table[t]) = Shell(def)
        /\ DOMAIN new.table[t].rows = DOMAIN db.table[t].rows
    <3>1. /\ WholeTable(new.table[t])
          /\ new.table[t].columns = def.columns /\ new.table[t].foreignKeys = def.foreignKeys
          /\ DOMAIN new.table[t].rows = DOMAIN db.table[t].rows
          /\ \A x \in DOMAIN db.table[t].rows : DOMAIN new.table[t].rows[x] = DOMAIN def.columns
      BY <2>1, TableCopied DEF Rebuilt
    <3>2. SoundTable(def, DOMAIN d)
      BY DEF Writes, Sound
    <3> QED BY <3>1, <3>2 DEF FormedTable, WholeTable, SoundTable, Shell
  <2>4. Formed(new)
    <3>1. IsFiniteSet(new.index) /\ IsFiniteSet(new.trigger)
      <4>1. new.index \subseteq db.index /\ new.trigger \subseteq db.trigger
        BY <2>1 DEF Rebuilt
      <4> QED BY <4>1, FS_Subset DEF Formed
    <3>2. DOMAIN new.table \subseteq ToSet(TableOrder)
      BY <2>1 DEF Formed, Rebuilt
    <3> QED BY <2>1, <2>2, <2>3, <3>1, <3>2 DEF Formed, Whole, Rebuilt
  <2>5. Frame(new) = After(Frame(db), s)
    <3>1. DOMAIN new.table = TablesAfter(Frame(db), s)
      BY <2>1, FrameParts DEF TablesAfter, Rebuilt
    <3>2. ASSUME NEW u \in DOMAIN new.table
          PROVE  Shell(new.table[u]) = ShellAfter(Frame(db), s, u)
      <4>1. CASE u = t
        <5>1. ShellAfter(Frame(db), s, u) = Shell(def)
          BY <4>1 DEF ShellAfter
        <5> QED BY <2>3, <4>1, <5>1
      <4>2. CASE u # t
        <5>1. ShellAfter(Frame(db), s, u) = Frame(db).table[u]
          BY <4>2 DEF ShellAfter
        <5> QED BY <2>1, <2>2, <4>2, <5>1, FrameParts DEF Rebuilt
      <4> QED BY <4>1, <4>2
    <3>3. /\ new.index = IndexAfter(Frame(db), s) /\ new.trigger = TriggerAfter(Frame(db), s)
          /\ new.fts = FtsAfter(Frame(db), s)
      BY <2>1, FrameParts DEF IndexAfter, TriggerAfter, FtsAfter, Rebuilt
    <3> QED BY <3>1, <3>2, <3>3, FrameIs
  <2>6. Bare(db) => Bare(new)
    BY <2>1, <2>2, <2>3 DEF Bare, Rebuilt
  <2> QED BY <2>1, <2>4, <2>5, <2>6 DEF Rebuilt
<1> HIDE DEF r
<1> QED BY <1>1, <1>2, <1>3, <1>4, <1>6 DEF Worked

\* ALTER TABLE ADD COLUMN.
LEMMA AddColumnWorks ==
  ASSUME NEW d, Sound(d), NEW db, Formed(db), NEW s, Writes(d, s), NEW e \in BOOLEAN,
         s.kind = "AddColumn"
  PROVE  Worked(db, s, e)
<1> DEFINE t == s.table
           c == s.arg[1]
           type == s.arg[2]
           r == AddColumn(db, t, c, type)
           new == r.db
<1>1. Execute(db, s, e) = r
  BY DEF Execute
<1>2. (t \in DOMAIN db.table /\ c \notin DOMAIN db.table[t].columns) <=> Runs(Frame(db), s, e)
  BY FrameParts DEF Runs, Finds, Clear
<1>3. t \in DOMAIN db.table /\ c \notin DOMAIN db.table[t].columns => r.ok
  BY DEF AddColumn, Result
<1>4. ASSUME r.ok
      PROVE  /\ t \in DOMAIN db.table /\ c \notin DOMAIN db.table[t].columns
             /\ Formed(new) /\ Frame(new) = After(Frame(db), s) /\ (Bare(db) => Bare(new))
  <2>1. Added(db, t, c, type, new)
    <3> HIDE DEF t, c, type
    <3> QED BY <1>4, ColumnAdded, SMTT(30)
  <2> HIDE DEF new, r
  <2>2. FormedTable(new.table[t])
    <3>1. FormedTable(db.table[t])
      BY <2>1 DEF Formed, Added
    <3>2. DOMAIN new.table[t].columns = {c} \cup DOMAIN db.table[t].columns
      BY <2>1 DEF Added, Over, Only
    <3>3. \A x \in DOMAIN db.table[t].rows :
            DOMAIN new.table[t].rows[x] = {c} \cup DOMAIN db.table[t].rows[x]
      BY <2>1 DEF Added
    <3>4. IsFiniteSet(DOMAIN new.table[t].columns)
      <4>1. IsFiniteSet(DOMAIN db.table[t].columns \cup {c})
        BY <3>1, FS_AddElement DEF FormedTable
      <4>2. DOMAIN db.table[t].columns \cup {c} = DOMAIN new.table[t].columns
        BY <3>2
      <4> QED BY <4>1, <4>2
    <3> QED BY <2>1, <3>1, <3>2, <3>3, <3>4 DEF FormedTable, WholeTable, Added
  <2>3. Formed(new)
    BY <2>1, <2>2 DEF Formed, Whole, Added
  <2>4. Frame(new) = After(Frame(db), s)
    <3>1. DOMAIN new.table = TablesAfter(Frame(db), s)
      BY <2>1, FrameParts DEF TablesAfter, Added
    <3>2. ASSUME NEW u \in DOMAIN new.table
          PROVE  Shell(new.table[u]) = ShellAfter(Frame(db), s, u)
      <4>1. CASE u = t
        <5>1. ShellAfter(Frame(db), s, u)
                = [columns |-> Over(Only(c, type), Frame(db).table[u].columns),
                   foreignKeys |-> Frame(db).table[u].foreignKeys]
          BY <4>1 DEF ShellAfter
        <5>2. /\ Frame(db).table[u].columns = db.table[u].columns
              /\ Frame(db).table[u].foreignKeys = db.table[u].foreignKeys
          BY <2>1, FrameParts DEF Added
        <5> QED BY <2>1, <4>1, <5>1, <5>2 DEF Shell, Added
      <4>2. CASE u # t
        <5>1. ShellAfter(Frame(db), s, u) = Frame(db).table[u]
          BY <4>2 DEF ShellAfter
        <5> QED BY <2>1, <4>2, <5>1, FrameParts DEF Added
      <4> QED BY <4>1, <4>2
    <3>3. /\ new.index = IndexAfter(Frame(db), s) /\ new.trigger = TriggerAfter(Frame(db), s)
          /\ new.fts = FtsAfter(Frame(db), s)
      BY <2>1, FrameParts DEF IndexAfter, TriggerAfter, FtsAfter, Added
    <3> QED BY <3>1, <3>2, <3>3, FrameIs
  <2>5. Bare(db) => Bare(new)
    BY <2>1 DEF Bare, Added
  <2> QED BY <2>1, <2>3, <2>4, <2>5, SMTT(30) DEF Added
<1> HIDE DEF r
<1> QED BY <1>1, <1>2, <1>3, <1>4 DEF Worked

\* A statement about indexes, triggers or full-text tables leaves the tables alone.
Kept(db, s, new) ==
  /\ Whole(new) /\ new.table = db.table
  /\ new.index = IndexAfter(Frame(db), s) /\ new.trigger = TriggerAfter(Frame(db), s)
  /\ new.fts = FtsAfter(Frame(db), s)

Around ==
  {"CreateIndex", "DropIndex", "CreateTrigger", "DropTrigger", "CreateVirtualTable",
   "DropVirtualTable", "ForeignKeysOff", "ForeignKeysOn"}

\* Statements that leave the tables alone keep the database well formed.
LEMMA KeptWorks ==
  ASSUME NEW db, Formed(db), NEW s, s.kind \in Around, NEW new, Kept(db, s, new)
  PROVE  Formed(new) /\ Frame(new) = After(Frame(db), s) /\ (Bare(db) => Bare(new))
<1>1. DOMAIN new.table = TablesAfter(Frame(db), s)
  BY FrameParts DEF Kept, TablesAfter, Around
<1>2. ASSUME NEW u \in DOMAIN new.table
      PROVE  Shell(new.table[u]) = ShellAfter(Frame(db), s, u)
  <2>1. ShellAfter(Frame(db), s, u) = Frame(db).table[u]
    BY DEF ShellAfter, Around
  <2> QED BY <2>1, FrameParts DEF Kept
<1>3. Frame(new) = After(Frame(db), s)
  BY <1>1, <1>2, FrameIs DEF Kept
<1>4. IsFiniteSet(db.index) /\ IsFiniteSet(db.trigger)
  BY DEF Formed
<1>5. IsFiniteSet(IndexAfter(Frame(db), s))
  <2> DEFINE row == [name |-> s.arg.name, table |-> s.table, columns |-> s.arg.columns,
                     unique |-> s.arg.unique]
  <2>1. Frame(db).index = db.index
    BY FrameParts
  <2>2. \/ IndexAfter(Frame(db), s) = db.index \cup {row}
        \/ IndexAfter(Frame(db), s) = {i \in db.index : i.name # s.arg}
        \/ IndexAfter(Frame(db), s) = db.index
    BY <2>1 DEF IndexAfter, Around
  <2> HIDE DEF row
  <2>3. IsFiniteSet(db.index \cup {row})
    BY <1>4, FS_AddElement
  <2>4. IsFiniteSet({i \in db.index : i.name # s.arg})
    BY <1>4, FS_Subset
  <2> QED BY <1>4, <2>2, <2>3, <2>4
<1>6. IsFiniteSet(TriggerAfter(Frame(db), s))
  <2> DEFINE row == [name |-> s.arg.name, table |-> s.table,
                     watches |-> s.arg.watches, feeds |-> s.arg.feeds]
  <2>1. Frame(db).trigger = db.trigger
    BY FrameParts
  <2>2. \/ TriggerAfter(Frame(db), s) = db.trigger \cup {row}
        \/ TriggerAfter(Frame(db), s) = {g \in db.trigger : g.name # s.arg}
        \/ TriggerAfter(Frame(db), s) = db.trigger
    BY <2>1 DEF TriggerAfter, Around
  <2> HIDE DEF row
  <2>3. IsFiniteSet(db.trigger \cup {row})
    BY <1>4, FS_AddElement
  <2>4. IsFiniteSet({g \in db.trigger : g.name # s.arg})
    BY <1>4, FS_Subset
  <2> QED BY <1>4, <2>2, <2>3, <2>4
<1>7. Formed(new)
  BY <1>5, <1>6 DEF Formed, Kept, Whole
<1>8. Bare(db) => Bare(new)
  BY DEF Bare, Kept
<1> QED BY <1>3, <1>7, <1>8

\* One field of a database replaced.
LEMMA FieldReplaced ==
  ASSUME NEW db, Whole(db), NEW A
  PROVE  /\ [db EXCEPT !.index = A]
              = [table |-> db.table, index |-> A, trigger |-> db.trigger, fts |-> db.fts]
         /\ [db EXCEPT !.trigger = A]
              = [table |-> db.table, index |-> db.index, trigger |-> A, fts |-> db.fts]
         /\ [db EXCEPT !.fts = A]
              = [table |-> db.table, index |-> db.index, trigger |-> db.trigger, fts |-> A]
<1> DEFINE a == db.table
           b == db.index
           c == db.trigger
           f == db.fts
<1>1. db = [table |-> a, index |-> b, trigger |-> c, fts |-> f]
  BY DEF Whole
<1> HIDE DEF a, b, c, f
<1>2. /\ [db EXCEPT !.index = A] = [table |-> a, index |-> A, trigger |-> c, fts |-> f]
      /\ [db EXCEPT !.trigger = A] = [table |-> a, index |-> b, trigger |-> A, fts |-> f]
      /\ [db EXCEPT !.fts = A] = [table |-> a, index |-> b, trigger |-> c, fts |-> A]
  BY <1>1
<1> QED BY <1>2 DEF a, b, c, f

\* Indexes, triggers, full-text tables and pragmas.
LEMMA AroundWorks ==
  ASSUME NEW db, Formed(db), NEW s, NEW e \in BOOLEAN, s.kind \in Around
  PROVE  /\ Worked(db, s, e)
         /\ Execute(db, s, e).ok => Kept(db, s, Execute(db, s, e).db)
<1> DEFINE r == Execute(db, s, e)
<1>1. Whole(db)
  BY DEF Formed, Whole
<1>2. /\ Frame(db).index = db.index /\ Frame(db).trigger = db.trigger /\ Frame(db).fts = db.fts
      /\ DOMAIN Frame(db).table = DOMAIN db.table
      /\ \A t \in DOMAIN db.table : Frame(db).table[t].columns = db.table[t].columns
  BY FrameParts
<1>3. ASSUME NEW A
      PROVE  /\ [db EXCEPT !.index = A]
                  = [table |-> db.table, index |-> A, trigger |-> db.trigger, fts |-> db.fts]
             /\ [db EXCEPT !.trigger = A]
                  = [table |-> db.table, index |-> db.index, trigger |-> A, fts |-> db.fts]
             /\ [db EXCEPT !.fts = A]
                  = [table |-> db.table, index |-> db.index, trigger |-> db.trigger, fts |-> A]
  BY <1>1, FieldReplaced
<1>4. /\ r.ok => Runs(Frame(db), s, e) /\ Kept(db, s, r.db)
      /\ Bare(db) /\ Runs(Frame(db), s, e) => r.ok
  <2>1. CASE s.kind = "CreateIndex"
    <3> DEFINE A == db.index \cup {[name |-> s.arg.name, table |-> s.table,
                                    columns |-> s.arg.columns, unique |-> s.arg.unique]}
    <3>1. r = CreateIndex(db, s.table, s.arg)
      BY <2>1 DEF Execute
    <3>2. Bare(db) /\ s.table \in DOMAIN db.table => ~ Duplicates(db, s.table, s.arg.columns)
      BY DEF Bare, Duplicates
    <3>3. /\ r.ok => Runs(Frame(db), s, e) /\ r.db = [db EXCEPT !.index = A]
          /\ Bare(db) /\ Runs(Frame(db), s, e) => r.ok
      BY <1>2, <2>1, <3>1, <3>2 DEF CreateIndex, Failed, Result, Runs, Finds, Clear
    <3>4. /\ A = IndexAfter(Frame(db), s) /\ db.trigger = TriggerAfter(Frame(db), s)
          /\ db.fts = FtsAfter(Frame(db), s)
      BY <1>2, <2>1 DEF IndexAfter, TriggerAfter, FtsAfter
    <3> HIDE DEF A, r
    <3>5. [db EXCEPT !.index = A]
            = [table |-> db.table, index |-> A, trigger |-> db.trigger, fts |-> db.fts]
      BY <1>3
    <3> QED BY <3>3, <3>4, <3>5 DEF Kept, Whole
  <2>2. CASE s.kind = "DropIndex"
    <3> DEFINE A == {i \in db.index : i.name # s.arg}
    <3>1. /\ r.ok => Runs(Frame(db), s, e) /\ r.db = [db EXCEPT !.index = A]
          /\ Bare(db) /\ Runs(Frame(db), s, e) => r.ok
      BY <1>2, <2>2 DEF Execute, Failed, Result, Runs, Finds, Clear
    <3>2. /\ A = IndexAfter(Frame(db), s) /\ db.trigger = TriggerAfter(Frame(db), s)
          /\ db.fts = FtsAfter(Frame(db), s)
      BY <1>2, <2>2 DEF IndexAfter, TriggerAfter, FtsAfter
    <3> HIDE DEF A, r
    <3>3. [db EXCEPT !.index = A]
            = [table |-> db.table, index |-> A, trigger |-> db.trigger, fts |-> db.fts]
      BY <1>3
    <3> QED BY <3>1, <3>2, <3>3 DEF Kept, Whole
  <2>3. CASE s.kind = "CreateTrigger"
    <3> DEFINE A == IF \E g \in db.trigger : g.name = s.arg.name THEN db.trigger
                    ELSE db.trigger \cup {[name |-> s.arg.name, table |-> s.table,
                                           watches |-> s.arg.watches, feeds |-> s.arg.feeds]}
    <3>1. r = CreateTrigger(db, s.table, s.arg)
      BY <2>3 DEF Execute
    <3>2. /\ A = TriggerAfter(Frame(db), s) /\ db.index = IndexAfter(Frame(db), s)
          /\ db.fts = FtsAfter(Frame(db), s)
      BY <1>2, <2>3 DEF IndexAfter, TriggerAfter, FtsAfter
    <3>3. CASE \E g \in db.trigger : g.name = s.arg.name
      <4>1. /\ r.ok => Runs(Frame(db), s, e) /\ r.db = db
            /\ Bare(db) /\ Runs(Frame(db), s, e) => r.ok
        BY <1>2, <2>3, <3>1, <3>3 DEF CreateTrigger, Failed, Result, Runs, Finds, Clear
      <4>2. A = db.trigger
        BY <3>3
      <4> HIDE DEF A, r
      <4> QED BY <1>1, <3>2, <4>1, <4>2 DEF Kept
    <3>4. CASE ~ \E g \in db.trigger : g.name = s.arg.name
      <4>1. /\ r.ok => Runs(Frame(db), s, e) /\ r.db = [db EXCEPT !.trigger = A]
            /\ Bare(db) /\ Runs(Frame(db), s, e) => r.ok
        BY <1>2, <2>3, <3>1, <3>4 DEF CreateTrigger, Failed, Result, Runs, Finds, Clear
      <4> HIDE DEF A, r
      <4>2. [db EXCEPT !.trigger = A]
              = [table |-> db.table, index |-> db.index, trigger |-> A, fts |-> db.fts]
        BY <1>3
      <4> QED BY <3>2, <4>1, <4>2 DEF Kept, Whole
    <3> QED BY <3>3, <3>4
  <2>4. CASE s.kind = "DropTrigger"
    <3> DEFINE A == {g \in db.trigger : g.name # s.arg}
    <3>1. r.ok /\ Runs(Frame(db), s, e) /\ r.db = [db EXCEPT !.trigger = A]
      BY <1>2, <2>4 DEF Execute, Failed, Result, Runs, Finds, Clear
    <3>2. /\ A = TriggerAfter(Frame(db), s) /\ db.index = IndexAfter(Frame(db), s)
          /\ db.fts = FtsAfter(Frame(db), s)
      BY <1>2, <2>4 DEF IndexAfter, TriggerAfter, FtsAfter
    <3> HIDE DEF A, r
    <3>3. [db EXCEPT !.trigger = A]
            = [table |-> db.table, index |-> db.index, trigger |-> A, fts |-> db.fts]
      BY <1>3
    <3> QED BY <3>1, <3>2, <3>3 DEF Kept, Whole
  <2>5. CASE s.kind \in {"CreateVirtualTable", "DropVirtualTable"}
    <3> DEFINE A == IF s.kind = "CreateVirtualTable" THEN db.fts \cup {s.table}
                    ELSE db.fts \ {s.table}
    <3>1. r.ok /\ Runs(Frame(db), s, e) /\ r.db = [db EXCEPT !.fts = A]
      BY <1>2, <2>5 DEF Execute, Failed, Result, Runs, Finds, Clear
    <3>2. /\ A = FtsAfter(Frame(db), s) /\ db.index = IndexAfter(Frame(db), s)
          /\ db.trigger = TriggerAfter(Frame(db), s)
      BY <1>2, <2>5 DEF IndexAfter, TriggerAfter, FtsAfter
    <3> HIDE DEF A, r
    <3>3. [db EXCEPT !.fts = A]
            = [table |-> db.table, index |-> db.index, trigger |-> db.trigger, fts |-> A]
      BY <1>3
    <3> QED BY <3>1, <3>2, <3>3 DEF Kept, Whole
  <2>6. CASE s.kind \in {"ForeignKeysOff", "ForeignKeysOn"}
    <3>1. r.ok /\ Runs(Frame(db), s, e) /\ r.db = db
      BY <2>6 DEF Execute, Failed, Result, Runs, Finds, Clear
    <3>2. /\ db.fts = FtsAfter(Frame(db), s) /\ db.index = IndexAfter(Frame(db), s)
          /\ db.trigger = TriggerAfter(Frame(db), s)
      BY <1>2, <2>6 DEF IndexAfter, TriggerAfter, FtsAfter
    <3> HIDE DEF r
    <3> QED BY <1>1, <3>1, <3>2 DEF Kept
  <2> QED BY <2>1, <2>2, <2>3, <2>4, <2>5, <2>6 DEF Around
<1> HIDE DEF r
<1>5. r.ok => Formed(r.db) /\ Frame(r.db) = After(Frame(db), s) /\ (Bare(db) => Bare(r.db))
  BY <1>4, KeptWorks
<1> QED BY <1>4, <1>5 DEF Worked, r

\* Every statement a command writes.
LEMMA Works ==
  ASSUME NEW d, Sound(d), NEW db, Formed(db), NEW s, Writes(d, s), NEW e \in BOOLEAN
  PROVE  Worked(db, s, e)
<1>1. \/ s.kind \in {"CreateTable", "DropTable", "RebuildTable", "AddColumn"}
      \/ s.kind \in Around
  BY DEF Writes, Kinds, Deletes, Around
<1> QED BY <1>1, CreateTableWorks, DropTableWorks, RebuildTableWorks, AddColumnWorks, AroundWorks

\* What runs on one database runs on another of the same frame that has no rows.
LEMMA FramesAgree ==
  ASSUME NEW d, Sound(d), NEW a, Formed(a), NEW b, Formed(b), Bare(b), Frame(a) = Frame(b),
         NEW s, Writes(d, s), NEW e \in BOOLEAN, Execute(a, s, e).ok
  PROVE  /\ Execute(b, s, e).ok
         /\ Formed(Execute(b, s, e).db) /\ Bare(Execute(b, s, e).db)
         /\ Frame(Execute(b, s, e).db) = Frame(Execute(a, s, e).db)
<1>1. Worked(a, s, e) /\ Worked(b, s, e)
  BY Works
<1> QED BY <1>1 DEF Worked

(***************************************************************************)
(* Rows.                                                                   *)
(***************************************************************************)
\* The rows of a dropped table go, and everything that cascades from what goes.
LEMMA DoomedFacts ==
  ASSUME NEW db, NEW t \in DOMAIN db.table
  PROVE  /\ {t} \X DOMAIN db.table[t].rows \subseteq Doomed(db, t)
         /\ Doomed(db, t) \subseteq Stored(db)
         /\ CascadeClosed(db, Doomed(db, t))
<1> DEFINE base == {t} \X DOMAIN db.table[t].rows
<1>1. base \subseteq Stored(db)
  BY DEF Stored
<1>2. base \subseteq Doomed(db, t)
  BY <1>1 DEF Doomed
<1>3. ASSUME NEW p \in Stored(db), NEW fk \in db.table[p[1]].foreignKeys,
             fk.onDelete = "cascade", Refers(db, p, fk, Doomed(db, t)),
             NEW S \in SUBSET Stored(db), base \subseteq S, CascadeClosed(db, S)
      PROVE  p \in S
  <2>1. Refers(db, p, fk, S)
    BY <1>3 DEF Refers, Doomed
  <2> QED BY <1>3, <2>1 DEF CascadeClosed
<1>4. CascadeClosed(db, Doomed(db, t))
  BY <1>3 DEF CascadeClosed, Doomed
<1> QED BY <1>2, <1>4 DEF Doomed

\* A dropped table takes nothing along from tables that refer to others only.
LEMMA DropSparesOthers ==
  ASSUME NEW db, NEW t \in DOMAIN db.table, NEW models, t \notin models,
         \A u \in DOMAIN db.table \cap models : \A fk \in db.table[u].foreignKeys : fk.to \in models,
         NEW u \in DOMAIN db.table \cap models, NEW r \in DOMAIN db.table[u].rows
  PROVE  /\ <<u, r>> \notin Doomed(db, t)
         /\ \A c : ~ Cleared(db, <<u, r>>, c, Doomed(db, t))
<1> DEFINE S == {p \in Stored(db) : p[1] \notin models}
           doomed == Doomed(db, t)
<1>1. \A p \in Stored(db) : p[1] \in DOMAIN db.table
  BY DEF Stored
<1>2. {t} \X DOMAIN db.table[t].rows \subseteq S
  BY DEF Stored
<1>3. CascadeClosed(db, S)
  <2> SUFFICES ASSUME NEW p \in Stored(db), NEW fk \in db.table[p[1]].foreignKeys,
                      Refers(db, p, fk, S)
               PROVE  p \in S
    BY DEF CascadeClosed
  <2>1. fk.to \notin models
    BY DEF Refers
  <2> QED BY <1>1, <2>1
<1>4. doomed \subseteq S
  BY <1>2, <1>3 DEF Doomed
<1> HIDE DEF doomed
<1>5. <<u, r>> \notin doomed
  BY <1>4
<1>6. ASSUME NEW c, Cleared(db, <<u, r>>, c, doomed) PROVE FALSE
  <2>1. PICK fk \in db.table[u].foreignKeys : Refers(db, <<u, r>>, fk, doomed)
    BY <1>6 DEF Cleared
  <2>2. fk.to \notin models
    BY <1>4, <2>1 DEF Refers
  <2> QED BY <2>2
<1> QED BY <1>5, <1>6 DEF doomed

\* What RowsKept says of one statement.
RowsStay(db, d, new) ==
  \A t \in DOMAIN db.table \cap DOMAIN d :
    /\ t \in DOMAIN new.table
    /\ \A r \in DOMAIN db.table[t].rows :
         /\ r \in DOMAIN new.table[t].rows
         /\ \A c \in DOMAIN db.table[t].columns \cap DOMAIN d[t].columns :
              new.table[t].rows[r][c] = db.table[t].rows[r][c]

\* A script may go on: what comes next does not drop a table before a rebuild, nor
\* rebuild one while foreign keys are enforced.
Ready(q, e) ==
  /\ q # <<>> /\ q[1].kind = "RebuildTable" => ~ e
  /\ q # <<>> /\ q[1].kind = "DropTable" => \A i \in DOMAIN q : q[i].kind # "RebuildTable"

\* A statement that suits the database keeps the rows and the values that the schema
\* keeps.
LEMMA StatementKeepsRows ==
  ASSUME NEW d, Sound(d), NEW db, Formed(db), NEW e \in BOOLEAN, NEW q, 1 \in DOMAIN q, q # <<>>,
         Writes(d, q[1]), Suits(q, db, d), Ready(q, e), Execute(db, q[1], e).ok
  PROVE  RowsStay(db, d, Execute(db, q[1], e).db)
<1> DEFINE s == q[1]
           new == Execute(db, s, e).db
<1>0. \A t \in DOMAIN db.table : FormedTable(db.table[t])
  BY DEF Formed
<1>1. CASE s.kind = "CreateTable"
  <2>1. s.table \notin DOMAIN db.table /\ new = WithTable(db, s.table, NewTable(s.arg))
    BY <1>1 DEF Execute, Failed, Result
  <2>2. Whole(db)
    BY DEF Formed, Whole
  <2> HIDE DEF s, new
  <2>3. Put(db, s.table, NewTable(s.arg), new)
    BY <2>1, <2>2, TablePut
  <2>4. \A t \in DOMAIN db.table : t \in DOMAIN new.table /\ new.table[t] = db.table[t]
    BY <2>1, <2>3 DEF Put
  <2>5. RowsStay(db, d, new)
    BY <2>4 DEF RowsStay
  <2> QED BY <2>5 DEF s, new
<1>2. CASE s.kind = "DropTable"
  <2> DEFINE t == s.table
  <2>1. Dropped(db, t, e, new)
    <3>1. Execute(db, s, e) = DropTable(db, t, e)
      BY <1>2 DEF Execute
    <3> HIDE DEF s
    <3> QED BY <3>1, TableDropped DEF s
  <2>2. t \notin DOMAIN d
    BY <1>2 DEF Writes
  <2>3. \A u \in DOMAIN db.table \cap DOMAIN d : \A fk \in db.table[u].foreignKeys : fk.to \in DOMAIN d
    BY <1>2 DEF Suits, Ready
  <2> HIDE DEF s, new, t
  <2>4. ASSUME NEW u \in DOMAIN db.table \cap DOMAIN d
        PROVE  /\ u \in DOMAIN new.table
               /\ \A r \in DOMAIN db.table[u].rows :
                    /\ r \in DOMAIN new.table[u].rows
                    /\ \A c \in DOMAIN db.table[u].columns :
                         new.table[u].rows[r][c] = db.table[u].rows[r][c]
    <3>1. u \in DOMAIN new.table /\ LeftAlone(db, u, t, e, new.table[u])
      BY <2>1, <2>2 DEF Dropped
    <3>2. CASE ~ e
      BY <3>1, <3>2 DEF LeftAlone
    <3>3. CASE e
      <4> DEFINE doomed == Doomed(db, t)
                 rows == db.table[u].rows
      <4>1. \A r \in DOMAIN rows : <<u, r>> \notin doomed /\ \A c : ~ Cleared(db, <<u, r>>, c, doomed)
        <5>1. t \in DOMAIN db.table
          BY <2>1 DEF Dropped
        <5> QED BY <2>2, <2>3, <5>1, DropSparesOthers
      <4>2. new.table[u].rows = Spared(db, u, doomed)
        BY <3>1, <3>3 DEF LeftAlone
      <4>3. \A r \in DOMAIN rows : DOMAIN rows[r] = DOMAIN db.table[u].columns
        BY <1>0 DEF FormedTable
      <4> HIDE DEF doomed
      <4>4. \A r \in DOMAIN rows :
              /\ r \in DOMAIN Spared(db, u, doomed)
              /\ \A c \in DOMAIN rows[r] : Spared(db, u, doomed)[r][c] = rows[r][c]
        BY <4>1 DEF Spared
      <4> QED BY <3>1, <4>2, <4>3, <4>4
    <3> QED BY <3>2, <3>3
  <2>5. RowsStay(db, d, new)
    BY <2>4 DEF RowsStay
  <2> QED BY <2>5 DEF s, new
<1>3. CASE s.kind = "AddColumn"
  <2> DEFINE t == s.table
             c == s.arg[1]
             type == s.arg[2]
  <2>1. Added(db, t, c, type, new)
    <3>1. Execute(db, s, e) = AddColumn(db, t, c, type)
      BY <1>3 DEF Execute
    <3> HIDE DEF s
    <3> QED BY <3>1, ColumnAdded DEF s
  <2> HIDE DEF s, new, t, c, type
  <2>2. RowsStay(db, d, new)
    <3> SUFFICES ASSUME NEW u \in DOMAIN db.table \cap DOMAIN d
                 PROVE  /\ u \in DOMAIN new.table
                        /\ \A r \in DOMAIN db.table[u].rows :
                             /\ r \in DOMAIN new.table[u].rows
                             /\ \A x \in DOMAIN db.table[u].columns :
                                  new.table[u].rows[r][x] = db.table[u].rows[r][x]
      BY DEF RowsStay
    <3>1. CASE u = t
      <4>1. FormedTable(db.table[u])
        BY <1>0
      <4> QED BY <2>1, <3>1, <4>1 DEF Added, FormedTable
    <3>2. CASE u # t
      BY <2>1, <3>2 DEF Added
    <3> QED BY <3>1, <3>2
  <2> QED BY <2>2 DEF s, new
<1>4. CASE s.kind = "RebuildTable"
  <2> DEFINE t == s.table
             def == s.arg.def
             keep == s.arg.keep
  <2>1. Rebuilt(db, t, def, keep, e, new)
    <3>1. Execute(db, s, e) = Rebuild(db, t, def, keep, e)
      BY <1>4 DEF Execute
    <3> HIDE DEF s, t, def, keep
    <3> QED BY <3>1, TableRebuilt DEF s
  <2>2. ~ e /\ def = d[t] /\ t \in DOMAIN d
    BY <1>4 DEF Ready, Writes
  <2>3. t \in DOMAIN db.table => Covers(s, db.table[t])
    BY <1>4 DEF Suits
  <2>4. s.arg.def = def /\ s.arg.keep = keep
    OBVIOUS
  <2> HIDE DEF s, new, t, def, keep
  <2>5. RowsStay(db, d, new)
    <3> SUFFICES ASSUME NEW u \in DOMAIN db.table \cap DOMAIN d
                 PROVE  /\ u \in DOMAIN new.table
                        /\ \A r \in DOMAIN db.table[u].rows :
                             /\ r \in DOMAIN new.table[u].rows
                             /\ \A x \in DOMAIN db.table[u].columns \cap DOMAIN d[u].columns :
                                  new.table[u].rows[r][x] = db.table[u].rows[r][x]
      BY DEF RowsStay
    <3>1. CASE u = t
      <4> DEFINE old == db.table[t]
      <4>1. new.table[t] = Copied(old, def, keep)
        BY <2>1 DEF Rebuilt
      <4>2. /\ DOMAIN new.table[t].rows = DOMAIN old.rows
            /\ \A r \in DOMAIN old.rows : \A x \in DOMAIN def.columns :
                 /\ x \in keep => new.table[t].rows[r][x] = old.rows[r][x]
                 /\ x \notin keep => new.table[t].rows[r][x] = Absent(def.columns[x])
        <5> HIDE DEF old
        <5> QED BY <4>1, TableCopied
      <4>3. \A x \in DOMAIN old.columns \cap DOMAIN def.columns :
              x \in keep \/ \A r \in DOMAIN old.rows : old.rows[r][x] = Absent(def.columns[x])
        BY <2>1, <2>3, <2>4 DEF Covers, Rebuilt
      <4>4. t \in DOMAIN new.table
        BY <2>1 DEF Rebuilt
      <4> QED BY <2>2, <3>1, <4>2, <4>3, <4>4
    <3>2. CASE u # t
      <4>1. u \in DOMAIN new.table /\ LeftAlone(db, u, t, e, new.table[u])
        BY <2>1, <3>2 DEF Rebuilt
      <4> QED BY <2>2, <4>1 DEF LeftAlone
    <3> QED BY <3>1, <3>2
  <2> QED BY <2>5 DEF s, new
<1>5. CASE s.kind \in Around
  <2>1. new.table = db.table
    BY <1>5, AroundWorks DEF Kept
  <2> HIDE DEF s, new
  <2>2. RowsStay(db, d, new)
    BY <2>1 DEF RowsStay
  <2> QED BY <2>2 DEF s, new
<1> QED BY <1>1, <1>2, <1>3, <1>4, <1>5 DEF Writes, Kinds, Deletes, Around

\* What ReferencesSurvive says of one statement.
ReferencesStay(db, new) ==
  \A t \in DOMAIN new.table : \A fk \in new.table[t].foreignKeys :
    \A r \in DOMAIN new.table[t].rows :
      Dangling(new, t, fk, r) =>
        t \in DOMAIN db.table /\ r \in DOMAIN db.table[t].rows /\ Dangling(db, t, fk, r)

\* A reference whose value is the same leads somewhere still if its target has not lost
\* a row.
LEMMA ReferenceStays ==
  ASSUME NEW db, NEW new, NEW t, NEW fk, NEW r, Dangling(new, t, fk, r),
         new.table[t].rows[r][fk.from] = db.table[t].rows[r][fk.from],
         fk.to \in DOMAIN db.table =>
           /\ fk.to \in DOMAIN new.table
           /\ DOMAIN db.table[fk.to].rows \subseteq DOMAIN new.table[fk.to].rows
  PROVE  Dangling(db, t, fk, r)
BY DEF Dangling

\* A dropped table's rows go with what refers to them, or the drop is refused.
LEMMA DropKeepsReferences ==
  ASSUME NEW db, Formed(db), NEW t, NEW new, Dropped(db, t, TRUE, new)
  PROVE  ReferencesStay(db, new)
<1> DEFINE doomed == Doomed(db, t)
<1>1. t \in DOMAIN db.table /\ ~ StillReferred(db, doomed)
  BY DEF Dropped
<1>2. {t} \X DOMAIN db.table[t].rows \subseteq doomed /\ CascadeClosed(db, doomed)
  BY <1>1, DoomedFacts
<1> HIDE DEF doomed
<1> SUFFICES ASSUME NEW u \in DOMAIN new.table, NEW fk \in new.table[u].foreignKeys,
                    NEW r \in DOMAIN new.table[u].rows, Dangling(new, u, fk, r)
             PROVE  /\ u \in DOMAIN db.table /\ r \in DOMAIN db.table[u].rows
                    /\ Dangling(db, u, fk, r)
  BY DEF ReferencesStay
<1> DEFINE p == <<u, r>>
           v == new.table[u].rows[r][fk.from]
<1>3. /\ u \in DOMAIN db.table /\ u # t /\ fk \in db.table[u].foreignKeys
      /\ new.table[u].rows = Spared(db, u, doomed)
  BY DEF Dropped, LeftAlone, doomed
<1>4. fk.from \in DOMAIN db.table[u].columns
      /\ \A x \in DOMAIN db.table[u].rows : DOMAIN db.table[u].rows[x] = DOMAIN db.table[u].columns
  BY <1>3 DEF Formed, FormedTable
<1>5. /\ r \in DOMAIN db.table[u].rows /\ p \notin doomed
      /\ v = IF Cleared(db, p, fk.from, doomed) THEN Null ELSE db.table[u].rows[r][fk.from]
  <2>1. r \in DOMAIN db.table[u].rows /\ <<u, r>> \notin doomed
    BY <1>3 DEF Spared
  <2>2. fk.from \in DOMAIN db.table[u].rows[r]
    BY <1>4, <2>1
  <2>3. Spared(db, u, doomed)[r][fk.from]
          = IF Cleared(db, <<u, r>>, fk.from, doomed) THEN Null ELSE db.table[u].rows[r][fk.from]
    BY <2>1, <2>2 DEF Spared
  <2> QED BY <1>3, <2>1, <2>3
<1>6. v # Null /\ ~ Cleared(db, p, fk.from, doomed) /\ v = db.table[u].rows[r][fk.from]
  BY <1>5 DEF Dangling
<1>7. ~ Refers(db, p, fk, doomed)
  <2>1. p \in Stored(db) /\ p[1] = u /\ p[2] = r
    BY <1>3, <1>5 DEF Stored
  <2>2. SUFFICES ASSUME Refers(db, p, fk, doomed) PROVE FALSE
    OBVIOUS
  <2>3. fk.onDelete # "cascade"
    BY <1>2, <1>3, <1>5, <2>1, <2>2 DEF CascadeClosed
  <2>4. fk.onDelete \notin {"set null", "set default"}
    BY <1>3, <1>6, <2>1, <2>2 DEF Cleared
  <2> QED BY <1>1, <1>3, <1>5, <2>1, <2>2, <2>3, <2>4 DEF StillReferred
<1>8. <<fk.to, v>> \notin doomed
  BY <1>3, <1>6, <1>7, SMTT(30) DEF Refers
<1>9. ASSUME fk.to \in DOMAIN db.table, v \in DOMAIN db.table[fk.to].rows
      PROVE  fk.to \in DOMAIN new.table /\ v \in DOMAIN new.table[fk.to].rows
  <2>1. fk.to # t
    BY <1>2, <1>8, <1>9
  <2>2. fk.to \in DOMAIN new.table /\ new.table[fk.to].rows = Spared(db, fk.to, doomed)
    BY <1>9, <2>1 DEF Dropped, LeftAlone, doomed
  <2> QED BY <1>8, <1>9, <2>2 DEF Spared
<1> QED BY <1>3, <1>5, <1>6, <1>9 DEF Dangling

\* No statement leaves a reference without its row, if a rebuild runs with foreign keys
\* off and a drop with foreign keys on.
LEMMA StatementKeepsReferences ==
  ASSUME NEW d, Sound(d), NEW db, Formed(db), NEW e \in BOOLEAN, NEW s, Writes(d, s),
         s.kind = "RebuildTable" => ~ e, s.kind = "DropTable" => e, Execute(db, s, e).ok
  PROVE  ReferencesStay(db, Execute(db, s, e).db)
<1> DEFINE new == Execute(db, s, e).db
           t == s.table
<1>0. \A u \in DOMAIN db.table : FormedTable(db.table[u])
  BY DEF Formed
<1>1. CASE s.kind = "CreateTable"
  <2>1. t \notin DOMAIN db.table /\ new = WithTable(db, t, NewTable(s.arg))
    BY <1>1 DEF Execute, Failed, Result
  <2>2. Whole(db)
    BY DEF Formed, Whole
  <2> HIDE DEF new, t
  <2>3. Put(db, t, NewTable(s.arg), new)
    BY <2>1, <2>2, TablePut
  <2>4. DOMAIN NewTable(s.arg).rows = {}
    BY DEF NewTable
  <2>5. /\ \A u \in DOMAIN db.table : u \in DOMAIN new.table /\ new.table[u] = db.table[u]
        /\ \A u \in DOMAIN new.table : DOMAIN new.table[u].rows # {} => u \in DOMAIN db.table
    BY <2>1, <2>3, <2>4 DEF Put
  <2>6. ReferencesStay(db, new)
    BY <2>5, ReferenceStays DEF ReferencesStay
  <2> QED BY <2>6 DEF new
<1>2. CASE s.kind = "DropTable"
  <2>1. Dropped(db, t, TRUE, new)
    <3>1. Execute(db, s, e) = DropTable(db, t, TRUE)
      BY <1>2 DEF Execute
    <3> HIDE DEF t
    <3> QED BY <3>1, TableDropped
  <2> HIDE DEF new, t
  <2>2. ReferencesStay(db, new)
    BY <2>1, DropKeepsReferences
  <2> QED BY <2>2 DEF new
<1>3. CASE s.kind = "AddColumn"
  <2> DEFINE c == s.arg[1]
             type == s.arg[2]
  <2>1. Added(db, t, c, type, new)
    <3>1. Execute(db, s, e) = AddColumn(db, t, c, type)
      BY <1>3 DEF Execute
    <3> HIDE DEF t, c, type
    <3> QED BY <3>1, ColumnAdded
  <2> HIDE DEF new, t, c, type
  <2>2. ReferencesStay(db, new)
    <3> SUFFICES ASSUME NEW u \in DOMAIN new.table, NEW fk \in new.table[u].foreignKeys,
                        NEW r \in DOMAIN new.table[u].rows, Dangling(new, u, fk, r)
                 PROVE  /\ u \in DOMAIN db.table /\ r \in DOMAIN db.table[u].rows
                        /\ Dangling(db, u, fk, r)
      BY DEF ReferencesStay
    <3>1. /\ u \in DOMAIN db.table /\ fk \in db.table[u].foreignKeys
          /\ DOMAIN new.table = DOMAIN db.table
          /\ \A x \in DOMAIN db.table : DOMAIN new.table[x].rows = DOMAIN db.table[x].rows
      BY <2>1 DEF Added
    <3>2. fk.from \in DOMAIN db.table[u].columns /\ DOMAIN db.table[u].rows[r] = DOMAIN db.table[u].columns
      BY <1>0, <3>1 DEF FormedTable
    <3>3. new.table[u].rows[r][fk.from] = db.table[u].rows[r][fk.from]
      BY <2>1, <3>1, <3>2 DEF Added
    <3>4. Dangling(db, u, fk, r)
      BY <3>1, <3>3, ReferenceStays
    <3> QED BY <3>1, <3>4
  <2> QED BY <2>2 DEF new
<1>4. CASE s.kind = "RebuildTable"
  <2> DEFINE def == s.arg.def
             keep == s.arg.keep
  <2>1. Rebuilt(db, t, def, keep, e, new)
    <3>1. Execute(db, s, e) = Rebuild(db, t, def, keep, e)
      BY <1>4 DEF Execute
    <3> HIDE DEF t, def, keep
    <3> QED BY <3>1, TableRebuilt
  <2>2. ~ e
    BY <1>4
  <2>3. \A fk \in def.foreignKeys : fk.from \in DOMAIN def.columns /\ def.columns[fk.from].rest = "-"
    <3>1. t \in DOMAIN d /\ def = d[t]
      BY <1>4 DEF Writes
    <3>2. SoundTable(def, DOMAIN d)
      BY <3>1 DEF Sound
    <3> HIDE DEF def
    <3> QED BY <3>2 DEF SoundTable
  <2> HIDE DEF new, t, def, keep
  <2>4. /\ new.table[t].columns = def.columns /\ new.table[t].foreignKeys = def.foreignKeys
        /\ DOMAIN new.table[t].rows = DOMAIN db.table[t].rows
        /\ \A r \in DOMAIN db.table[t].rows : \A x \in DOMAIN def.columns :
             /\ x \in keep => new.table[t].rows[r][x] = db.table[t].rows[r][x]
             /\ x \notin keep => new.table[t].rows[r][x] = Absent(def.columns[x])
    <3> DEFINE old == db.table[t]
    <3>1. new.table[t] = Copied(old, def, keep)
      BY <2>1 DEF Rebuilt
    <3> HIDE DEF old
    <3>2. /\ new.table[t].columns = def.columns /\ new.table[t].foreignKeys = def.foreignKeys
          /\ DOMAIN new.table[t].rows = DOMAIN old.rows
          /\ \A r \in DOMAIN old.rows : \A x \in DOMAIN def.columns :
               /\ x \in keep => new.table[t].rows[r][x] = old.rows[r][x]
               /\ x \notin keep => new.table[t].rows[r][x] = Absent(def.columns[x])
      BY <3>1, TableCopied
    <3> QED BY <3>2 DEF old
  <2>5. /\ DOMAIN new.table = DOMAIN db.table
        /\ \A u \in DOMAIN new.table \ {t} :
             new.table[u].foreignKeys = db.table[u].foreignKeys /\ new.table[u].rows = db.table[u].rows
    BY <2>1, <2>2 DEF Rebuilt, LeftAlone
  <2>6. ReferencesStay(db, new)
    <3> SUFFICES ASSUME NEW u \in DOMAIN new.table, NEW fk \in new.table[u].foreignKeys,
                        NEW r \in DOMAIN new.table[u].rows, Dangling(new, u, fk, r)
                 PROVE  /\ u \in DOMAIN db.table /\ r \in DOMAIN db.table[u].rows
                        /\ Dangling(db, u, fk, r)
      BY DEF ReferencesStay
    <3>1. \A x \in DOMAIN db.table : DOMAIN new.table[x].rows = DOMAIN db.table[x].rows
      BY <2>4, <2>5
    <3>2. new.table[u].rows[r][fk.from] = db.table[u].rows[r][fk.from]
      <4>1. CASE u # t
        BY <2>5, <4>1
      <4>2. CASE u = t
        <5>1. fk.from \in DOMAIN def.columns /\ def.columns[fk.from].rest = "-"
              /\ r \in DOMAIN db.table[t].rows
          BY <2>3, <2>4, <4>2
        <5>2. Absent(def.columns[fk.from]) = Null
          BY <5>1 DEF Absent
        <5>3. new.table[u].rows[r][fk.from] # Null
          BY DEF Dangling
        <5>4. fk.from \in keep
          BY <2>4, <4>2, <5>1, <5>2, <5>3
        <5> QED BY <2>4, <4>2, <5>1, <5>4
      <4> QED BY <4>1, <4>2
    <3>3. Dangling(db, u, fk, r)
      BY <2>5, <3>1, <3>2, ReferenceStays
    <3> QED BY <2>5, <3>1, <3>3
  <2> QED BY <2>6 DEF new
<1>5. CASE s.kind \in Around
  <2>1. new.table = db.table
    BY <1>5, AroundWorks DEF Kept
  <2> HIDE DEF new
  <2>2. ReferencesStay(db, new)
    BY <2>1 DEF ReferencesStay, Dangling
  <2> QED BY <2>2 DEF new
<1> QED BY <1>1, <1>2, <1>3, <1>4, <1>5 DEF Writes, Kinds, Deletes, Around

\* The rest of a sequence.
LEMMA TailFacts ==
  ASSUME NEW q, q \in Seq(ToSet(q)), q # <<>>
  PROVE  /\ Len(q) \in Nat \ {0} /\ DOMAIN q = 1 .. Len(q) /\ 1 \in DOMAIN q
         /\ Head(q) = q[1]
         /\ Len(Tail(q)) = Len(q) - 1 /\ DOMAIN Tail(q) = 1 .. Len(q) - 1
         /\ \A i \in 1 .. Len(q) - 1 : i + 1 \in DOMAIN q /\ Tail(q)[i] = q[i + 1]
<1> DEFINE S == ToSet(q)
<1>1. q \in Seq(S)
  OBVIOUS
<1> HIDE DEF S
<1>2. Len(q) \in Nat /\ DOMAIN q = 1 .. Len(q) /\ Len(q) # 0
  BY <1>1
<1>3. Len(Tail(q)) = Len(q) - 1 /\ Tail(q) \in Seq(S)
  BY <1>1
<1>4. \A i \in 1 .. Len(q) - 1 : Tail(q)[i] = q[i + 1]
  BY <1>1, <1>2
<1> QED BY <1>1, <1>2, <1>3, <1>4

\* The rest of a script suits what its first statement makes of the database.
LEMMA RestSuits ==
  ASSUME NEW d, Sound(d), NEW db, Formed(db), NEW e \in BOOLEAN,
         NEW q, q \in Seq(ToSet(q)), q # <<>>, \A i \in DOMAIN q : Writes(d, q[i]),
         Suits(q, db, d), DropsLast(q), Ready(q, e), Execute(db, q[1], e).ok
  PROVE  Suits(Tail(q), Execute(db, q[1], e).db, d)
<1> DEFINE s == q[1]
           new == Execute(db, s, e).db
           t == s.table
           p == Tail(q)
<1>0. \A u \in DOMAIN db.table : FormedTable(db.table[u])
  BY DEF Formed
<1>1. /\ Len(q) \in Nat \ {0} /\ DOMAIN q = 1 .. Len(q) /\ 1 \in DOMAIN q /\ DOMAIN p = 1 .. Len(q) - 1
      /\ \A i \in DOMAIN p : i + 1 \in DOMAIN q /\ p[i] = q[i + 1]
  BY TailFacts
<1>2. \A i \in DOMAIN p :
        /\ Writes(d, p[i])
        /\ p[i].kind = "RebuildTable" /\ p[i].table \in DOMAIN db.table => Covers(p[i], db.table[p[i].table])
        /\ p[i].kind = "RebuildTable" => s.kind # "DropTable"
  <2>1. ASSUME NEW i \in DOMAIN p, p[i].kind = "RebuildTable", s.kind = "DropTable" PROVE FALSE
    <3>1. q[i + 1].kind \in Deletes /\ q[i + 1].kind = "RebuildTable"
      BY <1>1, <2>1 DEF DropsLast
    <3> QED BY <3>1 DEF Deletes
  <2> HIDE DEF p, s
  <2> QED BY <1>1, <2>1 DEF Suits
<1>3. Writes(d, s)
  BY <1>1
<1>4. \A u \in DOMAIN d \cap DOMAIN db.table :
        \/ \A fk \in db.table[u].foreignKeys : fk.to \in DOMAIN d
        \/ s.kind = "RebuildTable" /\ t = u
        \/ \E i \in DOMAIN p : p[i].kind = "RebuildTable" /\ p[i].table = u
  <2> SUFFICES ASSUME NEW u \in DOMAIN d \cap DOMAIN db.table,
                      NEW i \in DOMAIN q, q[i].kind = "RebuildTable", q[i].table = u, i # 1
               PROVE  \E j \in DOMAIN p : p[j].kind = "RebuildTable" /\ p[j].table = u
    BY DEF Suits
  <2>1. i - 1 \in DOMAIN p /\ (i - 1) + 1 = i
    BY <1>1
  <2>2. p[i - 1] = q[i]
    BY <1>1, <2>1
  <2> QED BY <2>1, <2>2
<1> HIDE DEF p
<1>5. ASSUME /\ DOMAIN new.table \subseteq DOMAIN d \cup DOMAIN db.table
             /\ \A u \in DOMAIN new.table \cap DOMAIN d :
                  \/ \A fk \in new.table[u].foreignKeys : fk.to \in DOMAIN d
                  \/ /\ u \in DOMAIN db.table /\ new.table[u].foreignKeys = db.table[u].foreignKeys
                     /\ ~ (s.kind = "RebuildTable" /\ t = u),
             \A w : Writes(d, w) /\ w.kind = "RebuildTable" /\ w.table \in DOMAIN new.table
                    /\ (w.table \in DOMAIN db.table => Covers(w, db.table[w.table]))
                    /\ s.kind # "DropTable"
                      => Covers(w, new.table[w.table])
      PROVE  Suits(p, new, d)
  <2> HIDE DEF s, new, t
  <2>1. \A i \in DOMAIN p : p[i].kind = "RebuildTable" /\ p[i].table \in DOMAIN new.table
                              => Covers(p[i], new.table[p[i].table])
    BY <1>2, <1>5
  <2>2. \A u \in DOMAIN d \cap DOMAIN new.table :
          \/ \A fk \in new.table[u].foreignKeys : fk.to \in DOMAIN d
          \/ \E i \in DOMAIN p : p[i].kind = "RebuildTable" /\ p[i].table = u
    BY <1>4, <1>5
  <2> QED BY <2>1, <2>2 DEF Suits
<1>6. CASE s.kind = "CreateTable"
  <2>1. t \notin DOMAIN db.table /\ new = WithTable(db, t, NewTable(s.arg)) /\ t \in DOMAIN d /\ s.arg = d[t]
    BY <1>3, <1>6 DEF Execute, Failed, Result, Writes
  <2>2. Whole(db)
    BY DEF Formed, Whole
  <2>3. /\ DOMAIN NewTable(s.arg).rows = {} /\ NewTable(s.arg).foreignKeys = d[t].foreignKeys
        /\ \A fk \in d[t].foreignKeys : fk.to \in DOMAIN d
    BY <2>1 DEF NewTable, Sound, SoundTable
  <2> HIDE DEF new, t, s
  <2>4. Put(db, t, NewTable(s.arg), new)
    BY <2>1, <2>2, TablePut
  <2>5. ASSUME NEW w, w.table \in DOMAIN new.table,
               w.table \in DOMAIN db.table => Covers(w, db.table[w.table])
        PROVE  Covers(w, new.table[w.table])
    <3>1. CASE w.table = t
      <4>1. DOMAIN new.table[w.table].rows = {}
        BY <2>3, <2>4, <3>1 DEF Put
      <4> QED BY <4>1 DEF Covers
    <3>2. CASE w.table # t
      BY <2>4, <2>5, <3>2 DEF Put
    <3> QED BY <3>1, <3>2
  <2>6. /\ DOMAIN new.table \subseteq DOMAIN d \cup DOMAIN db.table
        /\ \A u \in DOMAIN new.table \cap DOMAIN d :
             \/ \A fk \in new.table[u].foreignKeys : fk.to \in DOMAIN d
             \/ /\ u \in DOMAIN db.table /\ new.table[u].foreignKeys = db.table[u].foreignKeys
                /\ ~ (s.kind = "RebuildTable" /\ t = u)
    BY <1>6, <2>1, <2>3, <2>4 DEF Put
  <2>7. Suits(p, new, d)
    BY <1>5, <2>5, <2>6
  <2> QED BY <2>7 DEF p, new, s
<1>7. CASE s.kind = "DropTable"
  <2>1. Dropped(db, t, e, new)
    <3>1. Execute(db, s, e) = DropTable(db, t, e)
      BY <1>7 DEF Execute
    <3> HIDE DEF s, t
    <3> QED BY <3>1, TableDropped DEF s
  <2> HIDE DEF new, t, s
  <2>2. /\ DOMAIN new.table \subseteq DOMAIN d \cup DOMAIN db.table
        /\ \A u \in DOMAIN new.table \cap DOMAIN d :
             /\ u \in DOMAIN db.table /\ new.table[u].foreignKeys = db.table[u].foreignKeys
             /\ ~ (s.kind = "RebuildTable" /\ t = u)
    BY <1>7, <2>1 DEF Dropped, LeftAlone
  <2>3. Suits(p, new, d)
    BY <1>5, <1>7, <2>2
  <2> QED BY <2>3 DEF p, new, s
<1>8. CASE s.kind = "AddColumn"
  <2> DEFINE c == s.arg[1]
             type == s.arg[2]
  <2>1. Added(db, t, c, type, new)
    <3>1. Execute(db, s, e) = AddColumn(db, t, c, type)
      BY <1>8 DEF Execute
    <3> HIDE DEF s, t, c, type
    <3> QED BY <3>1, ColumnAdded DEF s
  <2>2. c \in DOMAIN d[t].columns /\ type = d[t].columns[c]
    BY <1>3, <1>8 DEF Writes
  <2> HIDE DEF new, t, s, c, type
  <2>3. ASSUME NEW w, Writes(d, w), w.kind = "RebuildTable", w.table \in DOMAIN new.table,
               w.table \in DOMAIN db.table => Covers(w, db.table[w.table])
        PROVE  Covers(w, new.table[w.table])
    <3>1. CASE w.table = t
      <4> DEFINE old == db.table[t]
                 def == new.table[t]
      <4>1. w.arg.def = d[t]
        BY <2>3, <3>1 DEF Writes
      <4>2. /\ DOMAIN def.columns = {c} \cup DOMAIN old.columns
            /\ DOMAIN def.rows = DOMAIN old.rows
            /\ \A r \in DOMAIN old.rows :
                 /\ def.rows[r][c] = Absent(type)
                 /\ \A x \in DOMAIN old.columns \ {c} : def.rows[r][x] = old.rows[r][x]
        <5>1. DOMAIN def.columns = {c} \cup DOMAIN old.columns
          <6>1. def.columns = Over(Only(c, type), old.columns)
            BY <2>1 DEF Added
          <6> HIDE DEF old
          <6> QED BY <6>1 DEF Over, Only
        <5>2. FormedTable(old)
          BY <1>0, <2>1 DEF Added
        <5> QED BY <2>1, <5>1, <5>2 DEF Added, FormedTable
      <4>3. Covers(w, old)
        BY <2>1, <2>3, <3>1 DEF Added
      <4> HIDE DEF old, def
      <4>4. Covers(w, def)
        BY <2>2, <4>1, <4>2, <4>3 DEF Covers
      <4> QED BY <3>1, <4>4 DEF def
    <3>2. CASE w.table # t
      BY <2>1, <2>3, <3>2 DEF Added
    <3> QED BY <3>1, <3>2
  <2>4. /\ DOMAIN new.table \subseteq DOMAIN d \cup DOMAIN db.table
        /\ \A u \in DOMAIN new.table \cap DOMAIN d :
             /\ u \in DOMAIN db.table /\ new.table[u].foreignKeys = db.table[u].foreignKeys
             /\ ~ (s.kind = "RebuildTable" /\ t = u)
    BY <1>8, <2>1 DEF Added
  <2>5. Suits(p, new, d)
    BY <1>5, <2>3, <2>4
  <2> QED BY <2>5 DEF p, new, s
<1>9. CASE s.kind = "RebuildTable"
  <2> DEFINE def == s.arg.def
             keep == s.arg.keep
  <2>0. ~ e
    BY <1>9 DEF Ready
  <2>1. Rebuilt(db, t, def, keep, e, new)
    <3>1. Execute(db, s, e) = Rebuild(db, t, def, keep, e)
      BY <1>9 DEF Execute
    <3> HIDE DEF s, t, def, keep
    <3> QED BY <3>1, TableRebuilt DEF s
  <2>2. t \in DOMAIN d /\ def = d[t] /\ \A fk \in def.foreignKeys : fk.to \in DOMAIN d
    BY <1>3, <1>9 DEF Writes, Sound, SoundTable
  <2> HIDE DEF new, t, s, def, keep
  <2>3. /\ new.table[t].columns = def.columns /\ new.table[t].foreignKeys = def.foreignKeys
        /\ DOMAIN new.table[t].rows = DOMAIN db.table[t].rows
        /\ \A r \in DOMAIN db.table[t].rows : \A x \in DOMAIN def.columns :
             /\ x \in keep => new.table[t].rows[r][x] = db.table[t].rows[r][x]
             /\ x \notin keep => new.table[t].rows[r][x] = Absent(def.columns[x])
    <3> DEFINE old == db.table[t]
    <3>1. new.table[t] = Copied(old, def, keep)
      BY <2>1 DEF Rebuilt
    <3> HIDE DEF old
    <3>2. /\ new.table[t].columns = def.columns /\ new.table[t].foreignKeys = def.foreignKeys
          /\ DOMAIN new.table[t].rows = DOMAIN old.rows
          /\ \A r \in DOMAIN old.rows : \A x \in DOMAIN def.columns :
               /\ x \in keep => new.table[t].rows[r][x] = old.rows[r][x]
               /\ x \notin keep => new.table[t].rows[r][x] = Absent(def.columns[x])
      BY <3>1, TableCopied
    <3> QED BY <3>2 DEF old
  <2>4. ASSUME NEW w, Writes(d, w), w.kind = "RebuildTable", w.table \in DOMAIN new.table,
               w.table \in DOMAIN db.table => Covers(w, db.table[w.table])
        PROVE  Covers(w, new.table[w.table])
    <3>1. CASE w.table = t
      <4>1. w.arg.def = def
        BY <2>2, <2>4, <3>1 DEF Writes
      <4>2. t \in DOMAIN db.table /\ keep \subseteq DOMAIN db.table[t].columns
        BY <2>1 DEF Rebuilt
      <4>3. Covers(w, db.table[t])
        BY <2>4, <3>1, <4>2
      <4>4. Covers(w, new.table[t])
        BY <2>3, <4>1, <4>2, <4>3 DEF Covers
      <4> QED BY <3>1, <4>4
    <3>2. CASE w.table # t
      <4>1. LeftAlone(db, w.table, t, e, new.table[w.table]) /\ w.table \in DOMAIN db.table
        BY <2>1, <2>4, <3>2 DEF Rebuilt
      <4>2. CASE ~ e
        BY <2>4, <4>1, <4>2 DEF LeftAlone, Covers
      <4> QED BY <2>0, <4>2
    <3> QED BY <3>1, <3>2
  <2>5. /\ DOMAIN new.table \subseteq DOMAIN d \cup DOMAIN db.table
        /\ \A u \in DOMAIN new.table \cap DOMAIN d :
             \/ \A fk \in new.table[u].foreignKeys : fk.to \in DOMAIN d
             \/ /\ u \in DOMAIN db.table /\ new.table[u].foreignKeys = db.table[u].foreignKeys
                /\ ~ (s.kind = "RebuildTable" /\ t = u)
    BY <2>1, <2>2, <2>3 DEF Rebuilt, LeftAlone
  <2>6. Suits(p, new, d)
    BY <1>5, <2>4, <2>5
  <2> QED BY <2>6 DEF p, new, s
<1>10. CASE s.kind \in Around
  <2>1. new.table = db.table
    BY <1>10, AroundWorks DEF Kept
  <2>2. s.kind # "RebuildTable"
    BY <1>10 DEF Around
  <2> HIDE DEF new, t, s
  <2>3. Suits(p, new, d)
    BY <1>5, <2>1, <2>2
  <2> QED BY <2>3 DEF p, new, s
<1> QED BY <1>3, <1>6, <1>7, <1>8, <1>9, <1>10 DEF Writes, Kinds, Deletes, Around, p

(***************************************************************************)
(* The names of the indexes and triggers.                                  *)
(***************************************************************************)
\* What follows the same beginning.
LEMMA SameRest ==
  ASSUME NEW S, NEW a \in Seq(S), NEW f \in Seq(S), NEW g \in Seq(S), a \o f = a \o g
  PROVE  f = g
<1> DEFINE n == Len(a)
           r == a \o f
<1>1. /\ n \in Nat /\ Len(f) \in Nat /\ Len(r) = n + Len(f)
      /\ \A i \in 1 .. Len(f) : r[n + i] = f[i]
  BY ConcatFacts, SMTT(30)
<1>2. /\ Len(g) \in Nat /\ Len(r) = n + Len(g) /\ \A i \in 1 .. Len(g) : r[n + i] = g[i]
  BY ConcatFacts
<1> HIDE DEF n, r
<1>3. Len(f) = Len(g)
  BY <1>1, <1>2
<1>4. \A i \in 1 .. Len(f) : f[i] = g[i]
  BY <1>1, <1>2, <1>3
<1> QED BY <1>3, <1>4, SeqEqual

\* The words that names are made of.
Words(t) ==
  STRING \cup {t, "idx", "trg", "update", "polymorphic", "type", "id"}

\* Field names, and the words names are made of.
LEMMA WordsAre ==
  ASSUME NEW t
  PROVE  /\ Seq(STRING) \subseteq Seq(Words(t)) /\ t \in Words(t)
         /\ "idx" \in Words(t) /\ "trg" \in Words(t) /\ "update" \in Words(t)
         /\ "polymorphic" \in Words(t) /\ "type" \in Words(t) /\ "id" \in Words(t)
<1> DEFINE A == {t, "idx", "trg", "update", "polymorphic", "type", "id"}
<1>1. Seq(STRING) \subseteq Seq(STRING \cup A)
  <2> HIDE DEF A
  <2> QED OBVIOUS
<1>2. Words(t) = STRING \cup A
  BY DEF Words
<1>3. A \subseteq Words(t)
  BY <1>2
<1> QED BY <1>1, <1>2, <1>3

\* A name, its first two words, and one more.
LEMMA NameWords ==
  ASSUME NEW S, NEW x \in S, NEW t \in S, NEW f \in Seq(S)
  PROVE  /\ <<x, t>> \o f \in Seq(S) /\ (<<x, t>> \o f)[1] = x /\ (<<x, t>> \o f)[2] = t
         /\ \A y \in S : (<<x, t, y>> \o f)[2] = t /\ (<<x, t, y>> \o f)[3] = y
OBVIOUS

\* One word more.
LEMMA OneWord ==
  ASSUME NEW S, NEW a \in Seq(S), NEW p \in Seq(S), NEW w \in S
  PROVE  a \o p \o <<w>> = a \o Append(p, w)
<1> DEFINE b == a \o p \o <<w>>
           c == a \o Append(p, w)
<1>1. b \in Seq(S) /\ c \in Seq(S) /\ Len(b) = Len(c)
  OBVIOUS
<1>2. \A i \in 1 .. Len(b) : b[i] = c[i]
  OBVIOUS
<1> QED BY <1>1, <1>2, SeqEqual

\* Two sequences that begin alike and end differently.
LEMMA EndsDiffer ==
  ASSUME NEW S, NEW a \in Seq(S), NEW p \in Seq(S), NEW b \in Seq(S), NEW r \in Seq(S),
         NEW w \in S, NEW v \in S, w # v
  PROVE  a \o p \o <<w>> # a \o (b \o Append(r, v))
<1> SUFFICES ASSUME a \o p \o <<w>> = a \o (b \o Append(r, v)) PROVE FALSE
  OBVIOUS
<1>1. Append(p, w) \in Seq(S) /\ Append(b \o r, v) \in Seq(S)
  OBVIOUS
<1>2. b \o Append(r, v) = Append(b \o r, v)
  OBVIOUS
<1>3. a \o Append(p, w) = a \o Append(b \o r, v)
  BY <1>2, OneWord, SMTT(30)
<1>4. Append(p, w) = Append(b \o r, v)
  BY <1>1, <1>3, SameRest
<1>5. Append(p, w)[Len(Append(p, w))] = w
  OBVIOUS
<1>6. b \o r \in Seq(S)
  OBVIOUS
<1>7. Append(b \o r, v)[Len(Append(b \o r, v))] = v
  <2> DEFINE c == b \o r
  <2> HIDE DEF c
  <2> QED BY <1>6 DEF c
<1> QED BY <1>4, <1>5, <1>7

\* One and two sequences flattened.
LEMMA FlatFew ==
  ASSUME NEW S, NEW f \in Seq(S), NEW g \in Seq(S)
  PROVE  FlattenSeq(<<f>>) = f /\ FlattenSeq(<<f, g>>) = f \o g
<1> DEFINE T == Seq(S)
<1>0. FlattenSeq(<<>>) = <<>>
  <2>1. PICK h : h[0] = <<>> /\ FlattenSeq(<<>>) = h[Len(<<>>)]
    <3>1. <<>> \in Seq(Seq(S))
      OBVIOUS
    <3> QED BY <3>1, FlatTrace
  <2> QED BY <2>1
<1>1. <<>> \in Seq(T) /\ <<f>> \in Seq(T) /\ Append(<<>>, f) = <<f>> /\ Append(<<f>>, g) = <<f, g>>
  <2>1. f \in T /\ g \in T
    OBVIOUS
  <2> HIDE DEF T
  <2>2. <<>> \in Seq(T) /\ <<f>> \in Seq(T)
    BY <2>1
  <2>3. Append(<<>>, f) = <<f>>
    BY <2>1, PairConcat
  <2>4. Append(<<f>>, g) = <<f, g>>
    <3> DEFINE b == Append(<<f>>, g)
               c == <<f, g>>
    <3>1. b \in Seq(T) /\ Len(b) = 2 /\ b[1] = f /\ b[2] = g
      BY <2>1
    <3>2. c \in Seq(T) /\ Len(c) = 2 /\ c[1] = f /\ c[2] = g
      BY <2>1
    <3> HIDE DEF b, c
    <3>3. \A i \in 1 .. Len(b) : b[i] = c[i]
      BY <3>1, <3>2
    <3>4. b = c
      BY <3>1, <3>2, <3>3, SeqEqual
    <3> QED BY <3>4 DEF b, c
  <2> QED BY <2>2, <2>3, <2>4
<1>2. FlattenSeq(<<f>>) = <<>> \o f
  BY <1>0, <1>1, FlatGrows
<1>3. <<>> \o f = f
  OBVIOUS
<1>4. FlattenSeq(<<f, g>>) = f \o g
  BY <1>1, <1>2, <1>3, FlatGrows
<1> QED BY <1>2, <1>3, <1>4

\* An index of the model t, on one field or on the pair of a polymorphic one.
UniqueIndex(k, t, model) ==
  \E f \in UniqueFields(model) :
    /\ k = [name |-> <<"idx", t>> \o f, columns |-> <<f>>, unique |-> TRUE]
    /\ IndexName(t, k.columns) = <<"idx", t>> \o f

PairIndex(k, t, model) ==
  \E f \in Polymorphic(model) :
    /\ k = [name |-> <<"idx", t>> \o f \o <<"polymorphic">>,
            columns |-> <<Append(f, "type"), Append(f, "id")>>, unique |-> FALSE]
    /\ IndexName(t, k.columns) = <<"idx", t>> \o (Append(f, "type") \o Append(f, "id"))

\* The parts of a lowered model.
LEMMA LoweredParts ==
  ASSUME NEW z \in Schema, NEW t \in DOMAIN Lowered[z]
  PROVE  /\ t \in DOMAIN z /\ DOMAIN z[t].fields \subseteq Seq(STRING)
         /\ Lowered[z][t].columns = Columns(z[t]) /\ Lowered[z][t].indexes = Indexes(t, z[t])
         /\ Lowered[z][t].triggers = Triggers(t, z[t])
<1>1. Lowered[z] = Lower(z)
  BY DEF Lowered
<1>2. t \in DOMAIN z
  BY <1>1 DEF Lower
<1>3. DOMAIN z[t].fields \subseteq Seq(STRING)
  BY <1>2, MigrationAssumption DEF Validated
<1> QED BY <1>1, <1>2, <1>3 DEF Lower

\* An index is that of a unique field or that of a polymorphic pair.
LEMMA IndexForms ==
  ASSUME NEW z \in Schema, NEW t \in DOMAIN Lowered[z], NEW k \in Lowered[z][t].indexes
  PROVE  UniqueIndex(k, t, z[t]) \/ PairIndex(k, t, z[t])
<1> DEFINE model == z[t]
<1>1. DOMAIN model.fields \subseteq Seq(STRING) /\ k \in Indexes(t, model)
  BY LoweredParts
<1>2. CASE \E f \in DOMAIN model.fields : model.fields[f].unique
                 /\ k = [name |-> <<"idx", t>> \o f, columns |-> <<f>>, unique |-> TRUE]
  <2>1. PICK f \in DOMAIN model.fields : model.fields[f].unique
                 /\ k = [name |-> <<"idx", t>> \o f, columns |-> <<f>>, unique |-> TRUE]
    BY <1>2
  <2>2. f \in Seq(STRING) /\ f \in UniqueFields(model) /\ k.columns = <<f>>
    BY <1>1, <2>1 DEF UniqueFields
  <2>3. FlattenSeq(<<f>>) = f
    BY <2>2, FlatFew
  <2>4. IndexName(t, k.columns) = <<"idx", t>> \o f
    BY <2>2, <2>3 DEF IndexName
  <2> QED BY <2>1, <2>2, <2>4 DEF UniqueIndex
<1>3. CASE \E f \in DOMAIN model.fields : model.fields[f].kind = "poly"
                 /\ k = [name |-> <<"idx", t>> \o f \o <<"polymorphic">>,
                         columns |-> <<Append(f, "type"), Append(f, "id")>>, unique |-> FALSE]
  <2>1. PICK f \in DOMAIN model.fields : model.fields[f].kind = "poly"
                 /\ k = [name |-> <<"idx", t>> \o f \o <<"polymorphic">>,
                         columns |-> <<Append(f, "type"), Append(f, "id")>>, unique |-> FALSE]
    BY <1>3
  <2>2. f \in Seq(STRING) /\ f \in Polymorphic(model)
    BY <1>1, <2>1 DEF Polymorphic
  <2>3. k.columns = <<Append(f, "type"), Append(f, "id")>>
    BY <2>1
  <2>4. Append(f, "type") \in Seq(Words(t)) /\ Append(f, "id") \in Seq(Words(t))
    <3>1. f \in Seq(Words(t)) /\ "type" \in Words(t) /\ "id" \in Words(t)
      BY <2>2, WordsAre
    <3> QED BY <3>1
  <2>5. IndexName(t, k.columns) = <<"idx", t>> \o (Append(f, "type") \o Append(f, "id"))
    BY <2>3, <2>4, FlatFew DEF IndexName
  <2> QED BY <2>1, <2>2, <2>5 DEF PairIndex
<1>4. \/ \E f \in DOMAIN model.fields : model.fields[f].unique
              /\ k = [name |-> <<"idx", t>> \o f, columns |-> <<f>>, unique |-> TRUE]
      \/ \E f \in DOMAIN model.fields : model.fields[f].kind = "poly"
              /\ k = [name |-> <<"idx", t>> \o f \o <<"polymorphic">>,
                      columns |-> <<Append(f, "type"), Append(f, "id")>>, unique |-> FALSE]
  BY <1>1 DEF Indexes
<1> QED BY <1>2, <1>3, <1>4

\* Where a name starts.
LEMMA IndexOwner ==
  ASSUME NEW z \in Schema, NEW t \in DOMAIN Lowered[z], NEW k \in Lowered[z][t].indexes
  PROVE  /\ k = [name |-> k.name, columns |-> k.columns, unique |-> k.unique]
         /\ k.name[2] = t /\ IndexName(t, k.columns)[2] = t
         /\ k.unique \in BOOLEAN
<1> DEFINE S == Words(t)
<1>1. DOMAIN z[t].fields \subseteq Seq(STRING)
  BY LoweredParts
<1>2. Seq(STRING) \subseteq Seq(S) /\ t \in S
  BY WordsAre
<1>4. "idx" \in S /\ "polymorphic" \in S /\ "type" \in S /\ "id" \in S
  BY WordsAre
<1> HIDE DEF S
<1>5. CASE UniqueIndex(k, t, z[t])
  <2>1. PICK f \in UniqueFields(z[t]) :
          /\ k = [name |-> <<"idx", t>> \o f, columns |-> <<f>>, unique |-> TRUE]
          /\ IndexName(t, k.columns) = <<"idx", t>> \o f
    BY <1>5 DEF UniqueIndex
  <2>2. f \in Seq(S)
    BY <1>1, <1>2 DEF UniqueFields
  <2>3. (<<"idx", t>> \o f)[2] = t
    BY <1>2, <1>4, <2>2, NameWords
  <2>4. k.name = <<"idx", t>> \o f /\ k.columns = <<f>> /\ k.unique = TRUE
    BY <2>1
  <2> QED BY <2>1, <2>3, <2>4
<1>6. CASE PairIndex(k, t, z[t])
  <2>1. PICK f \in Polymorphic(z[t]) :
          /\ k = [name |-> <<"idx", t>> \o f \o <<"polymorphic">>,
                  columns |-> <<Append(f, "type"), Append(f, "id")>>, unique |-> FALSE]
          /\ IndexName(t, k.columns) = <<"idx", t>> \o (Append(f, "type") \o Append(f, "id"))
    BY <1>6 DEF PairIndex
  <2>2. f \in Seq(S)
    BY <1>1, <1>2 DEF Polymorphic
  <2>3. /\ Append(f, "type") \o Append(f, "id") \in Seq(S)
        /\ f \o <<"polymorphic">> \in Seq(S)
        /\ <<"idx", t>> \o f \o <<"polymorphic">> = <<"idx", t>> \o (f \o <<"polymorphic">>)
    BY <1>2, <1>4, <2>2
  <2>4. /\ (<<"idx", t>> \o (Append(f, "type") \o Append(f, "id")))[2] = t
        /\ (<<"idx", t>> \o (f \o <<"polymorphic">>))[2] = t
    BY <1>2, <1>4, <2>3, NameWords
  <2>5. /\ k.name = <<"idx", t>> \o f \o <<"polymorphic">> /\ k.unique = FALSE
        /\ k.columns = <<Append(f, "type"), Append(f, "id")>>
    BY <2>1
  <2> QED BY <2>1, <2>3, <2>4, <2>5
<1> QED BY <1>5, <1>6, IndexForms

\* The trigger of a model is called after it; what feeds a full-text table is called
\* otherwise than what does not.
LEMMA TriggerOwner ==
  ASSUME NEW z \in Schema, NEW t \in DOMAIN Lowered[z], NEW g \in Lowered[z][t].triggers
  PROVE  /\ Owner(g.name) = t
         /\ g.feeds # {} => g.name[2] = "fts"
         /\ Lowered[z][t].fts = {} => g.name[2] # "fts" /\ g.feeds = {}
<1> DEFINE model == z[t]
           S == Words(t)
<1>1. DOMAIN model.fields \subseteq Seq(STRING) /\ g \in Triggers(t, model)
  BY LoweredParts
<1>2. Seq(STRING) \subseteq Seq(S) /\ t \in S
  BY WordsAre
<1>4. "trg" \in S /\ "update" \in S
  BY WordsAre
<1> HIDE DEF S
<1>5. \/ g.feeds = {} /\ \E f \in DOMAIN model.fields : g.name = <<"trg", "update", t>> \o f
      \/ model.fts # {} /\ \E event \in {"ai", "ad", "au"} : g.name = <<t, "fts", event>>
  BY <1>1 DEF Triggers
<1>8. Lowered[z][t].fts = model.fts
  BY DEF Lowered, Lower
<1>6. ASSUME NEW f \in DOMAIN model.fields, g.name = <<"trg", "update", t>> \o f
      PROVE  Owner(g.name) = t /\ g.name[2] # "fts"
  <2>1. f \in Seq(S)
    BY <1>1, <1>2
  <2>2. (<<"trg", "update", t>> \o f)[2] = "update" /\ (<<"trg", "update", t>> \o f)[3] = t
    BY <1>2, <1>4, <2>1, NameWords
  <2> QED BY <1>6, <2>2 DEF Owner
<1>7. ASSUME NEW event, g.name = <<t, "fts", event>>
      PROVE  Owner(g.name) = t /\ g.name[2] = "fts"
  BY <1>7 DEF Owner
<1> HIDE DEF model
<1> QED BY <1>5, <1>6, <1>7, <1>8

\* A desired index has the name of one that is there only if it is the same.
LEMMA SameIndex ==
  ASSUME NamesTellApart, NEW z \in Schema, NEW w \in Schema,
         NEW t \in DOMAIN Lowered[z] \cap DOMAIN Lowered[w],
         NEW k \in Lowered[z][t].indexes, NEW i \in Lowered[w][t].indexes,
         k.name = IndexName(t, i.columns)
  PROVE  Made(t, i) = Made(t, k)
<1> DEFINE S == Words(t)
           a == <<"idx", t>>
<1>1. /\ DOMAIN z[t].fields \subseteq Seq(STRING) /\ DOMAIN w[t].fields \subseteq Seq(STRING)
      /\ t \in DOMAIN z /\ t \in DOMAIN w
  BY LoweredParts
<1>2. Seq(STRING) \subseteq Seq(S) /\ t \in S
  BY WordsAre
<1>4. "idx" \in S /\ "polymorphic" \in S /\ "type" \in S /\ "id" \in S
  BY WordsAre
<1> HIDE DEF S
<1>5. a \in Seq(S)
  BY <1>2, <1>4
<1>6. CASE UniqueIndex(k, t, z[t]) /\ UniqueIndex(i, t, w[t])
  <2>1. PICK f \in UniqueFields(z[t]) :
          k = [name |-> a \o f, columns |-> <<f>>, unique |-> TRUE]
    BY <1>6 DEF UniqueIndex
  <2>2. PICK g \in UniqueFields(w[t]) :
          /\ i = [name |-> a \o g, columns |-> <<g>>, unique |-> TRUE]
          /\ IndexName(t, i.columns) = a \o g
    BY <1>6 DEF UniqueIndex
  <2>3. f \in Seq(S) /\ g \in Seq(S)
    BY <1>1, <1>2 DEF UniqueFields
  <2> HIDE DEF a
  <2>4. a \o f = a \o g
    BY <2>1, <2>2
  <2>5. f = g
    BY <1>5, <2>3, <2>4, SameRest
  <2> QED BY <2>1, <2>2, <2>5
<1>7. CASE UniqueIndex(k, t, z[t]) /\ PairIndex(i, t, w[t])
  <2>1. PICK f \in UniqueFields(z[t]) :
          k = [name |-> a \o f, columns |-> <<f>>, unique |-> TRUE]
    BY <1>7 DEF UniqueIndex
  <2>2. PICK p \in Polymorphic(w[t]) :
          IndexName(t, i.columns) = a \o (Append(p, "type") \o Append(p, "id"))
    BY <1>7 DEF PairIndex
  <2> DEFINE g == Append(p, "type") \o Append(p, "id")
  <2>3. f \in Seq(S) /\ p \in Seq(S)
    BY <1>1, <1>2 DEF UniqueFields, Polymorphic
  <2>4. g \in Seq(S)
    BY <1>4, <2>3
  <2> HIDE DEF a, g
  <2>5. a \o f = a \o g
    BY <2>1, <2>2 DEF g
  <2>6. f = g
    BY <1>5, <2>3, <2>4, <2>5, SameRest
  <2>7. g \notin UniqueFields(z[t])
    BY <1>1 DEF NamesTellApart, g
  <2> QED BY <2>6, <2>7
<1>8. CASE PairIndex(k, t, z[t]) /\ UniqueIndex(i, t, w[t])
  <2>1. PICK p \in Polymorphic(z[t]) :
          k = [name |-> a \o p \o <<"polymorphic">>,
               columns |-> <<Append(p, "type"), Append(p, "id")>>, unique |-> FALSE]
    BY <1>8 DEF PairIndex
  <2>2. PICK f \in UniqueFields(w[t]) : IndexName(t, i.columns) = a \o f
    BY <1>8 DEF UniqueIndex
  <2> DEFINE g == Append(p, "polymorphic")
  <2>3. f \in Seq(S) /\ p \in Seq(S)
    BY <1>1, <1>2 DEF UniqueFields, Polymorphic
  <2>4. g \in Seq(S) /\ a \o p \o <<"polymorphic">> = a \o g
    <3> HIDE DEF a
    <3> QED BY <1>4, <1>5, <2>3
  <2> HIDE DEF a, g
  <2>5. a \o f = a \o g
    BY <2>1, <2>2, <2>4
  <2>6. f = g
    BY <1>5, <2>3, <2>4, <2>5, SameRest
  <2>7. g \notin UniqueFields(w[t])
    BY <1>1 DEF NamesTellApart, g
  <2> QED BY <2>6, <2>7
<1>9. CASE PairIndex(k, t, z[t]) /\ PairIndex(i, t, w[t])
  <2>1. PICK p \in Polymorphic(z[t]) :
          k = [name |-> a \o p \o <<"polymorphic">>,
               columns |-> <<Append(p, "type"), Append(p, "id")>>, unique |-> FALSE]
    BY <1>9 DEF PairIndex
  <2>2. PICK r \in Polymorphic(w[t]) :
          IndexName(t, i.columns) = a \o (Append(r, "type") \o Append(r, "id"))
    BY <1>9 DEF PairIndex
  <2> DEFINE b == Append(r, "type")
             w1 == "polymorphic"
             w2 == "id"
  <2>3. p \in Seq(S) /\ r \in Seq(S)
    BY <1>1, <1>2 DEF Polymorphic
  <2>4. b \in Seq(S) /\ w1 \in S /\ w2 \in S /\ w1 # w2
    BY <1>4, <2>3
  <2>5. a \o p \o <<w1>> = a \o (b \o Append(r, w2))
    <3> HIDE DEF a
    <3> QED BY <2>1, <2>2
  <2> HIDE DEF a, b, w1, w2
  <2> QED BY <1>5, <2>3, <2>4, <2>5, EndsDiffer
<1> QED BY <1>6, <1>7, <1>8, <1>9, IndexForms

\* The indexes of a lowered schema are records.
IndexRecords(d) ==
  \A t \in DOMAIN d : \A k \in d[t].indexes :
    k = [name |-> k.name, columns |-> k.columns, unique |-> k.unique]

\* An index that is there is called after its table.
LEMMA KnownIndex ==
  ASSUME NEW fr, Known(fr), NEW x \in fr.index
  PROVE  /\ x.table \in DOMAIN fr.table /\ x.name[2] = x.table
         /\ \E w \in Schema : x.table \in DOMAIN Lowered[w]
                              /\ \E i \in Lowered[w][x.table].indexes : x = Made(x.table, i)
<1>1. /\ x.table \in DOMAIN fr.table
      /\ \E w \in Schema : x.table \in DOMAIN Lowered[w]
                           /\ \E i \in Lowered[w][x.table].indexes : x = Made(x.table, i)
  BY DEF Known
<1>2. PICK w \in Schema : x.table \in DOMAIN Lowered[w]
                          /\ \E i \in Lowered[w][x.table].indexes : x = Made(x.table, i)
  BY <1>1
<1>3. PICK i \in Lowered[w][x.table].indexes : x = Made(x.table, i)
  BY <1>2
<1>4. IndexName(x.table, i.columns)[2] = x.table
  BY <1>2, IndexOwner
<1>5. Made(x.table, i).name = IndexName(x.table, i.columns)
  BY DEF Made
<1>6. x.name = IndexName(x.table, i.columns)
  BY <1>3, <1>5
<1> QED BY <1>1, <1>4, <1>6

\* An index as the database keeps it.
LEMMA MadeParts ==
  ASSUME NEW t, NEW k
  PROVE  /\ Made(t, k).name = IndexName(t, k.columns) /\ Made(t, k).table = t
         /\ Made(t, k).columns = k.columns /\ Made(t, k).unique = k.unique
BY DEF Made

(***************************************************************************)
(* One statement of the script.                                            *)
(***************************************************************************)
\* p is what is left of q after its first statement.
Rest(q, p) ==
  /\ 1 \in DOMAIN q
  /\ \A i \in DOMAIN q : i \in Nat \ {0} /\ (i # 1 => i - 1 \in DOMAIN p /\ p[i - 1] = q[i])
  /\ \A j \in DOMAIN p : j \in Nat \ {0} /\ j + 1 \in DOMAIN q /\ q[j + 1] = p[j]

\* The tail of a script.
LEMMA TailIsRest ==
  ASSUME NEW q, Listed(q), q # <<>>
  PROVE  Rest(q, Tail(q)) /\ Head(q) = q[1]
<1>1. /\ Len(q) \in Nat \ {0} /\ DOMAIN q = 1 .. Len(q) /\ 1 \in DOMAIN q
      /\ Head(q) = q[1]
      /\ Len(Tail(q)) = Len(q) - 1 /\ DOMAIN Tail(q) = 1 .. Len(q) - 1
      /\ \A i \in 1 .. Len(q) - 1 : i + 1 \in DOMAIN q /\ Tail(q)[i] = q[i + 1]
  BY TailFacts DEF Listed
<1> DEFINE p == Tail(q)
           n == Len(q)
<1> HIDE DEF p, n
<1>2. /\ n \in Nat \ {0} /\ DOMAIN q = 1 .. n /\ DOMAIN p = 1 .. n - 1
      /\ \A i \in 1 .. n - 1 : i + 1 \in DOMAIN q /\ p[i] = q[i + 1]
  BY <1>1 DEF p, n
<1>3. \A i \in 1 .. n : i # 1 => i - 1 \in 1 .. n - 1 /\ (i - 1) + 1 = i
  BY <1>2
<1>4. Rest(q, p)
  BY <1>1, <1>2, <1>3 DEF Rest
<1> QED BY <1>1, <1>4 DEF p

\* The parts of the frame after a statement.
LEMMA AfterParts ==
  ASSUME NEW fr, NEW s
  PROVE  /\ DOMAIN After(fr, s).table = TablesAfter(fr, s)
         /\ \A t \in TablesAfter(fr, s) : After(fr, s).table[t] = ShellAfter(fr, s, t)
         /\ After(fr, s).index = IndexAfter(fr, s) /\ After(fr, s).trigger = TriggerAfter(fr, s)
BY DEF After

\* The index a CREATE INDEX makes.
LEMMA IndexMade ==
  ASSUME NEW d, NEW s, Writes(d, s), s.kind = "CreateIndex", IndexRecords(d)
  PROVE  /\ s.table \in DOMAIN d
         /\ \E k \in d[s.table].indexes :
              s.arg.columns = k.columns /\ s.arg.unique = k.unique
              /\ s.arg.name = IndexName(s.table, k.columns)
         /\ [name |-> s.arg.name, table |-> s.table, columns |-> s.arg.columns,
             unique |-> s.arg.unique] = Made(s.table, s.arg)
<1> DEFINE t == s.table
           a == s.arg
<1>1. t \in DOMAIN d
  BY DEF Writes
<1>2. PICK k \in d[t].indexes : a = [k EXCEPT !.name = IndexName(t, k.columns)]
  BY DEF Writes
<1>3. k = [name |-> k.name, columns |-> k.columns, unique |-> k.unique]
  BY <1>1 DEF IndexRecords
<1> DEFINE n == IndexName(t, k.columns)
<1>4. [k EXCEPT !.name = n] = [name |-> n, columns |-> k.columns, unique |-> k.unique]
  <2> DEFINE x == k.name
             b == k.columns
             c == k.unique
  <2>1. k = [name |-> x, columns |-> b, unique |-> c]
    BY <1>3
  <2> HIDE DEF x, b, c, n
  <2> QED BY <2>1
<1> HIDE DEF a, n
<1>5. a.name = n /\ a.columns = k.columns /\ a.unique = k.unique
  BY <1>2, <1>4 DEF n
<1>6. a.name = IndexName(t, a.columns)
  BY <1>5 DEF n
<1> QED BY <1>1, <1>5, <1>6 DEF Made, a, n

\* Statements keep what is known of the names.
LEMMA KnownNext ==
  ASSUME NEW z \in Schema, NEW fr, Known(fr), NEW s, Writes(Lowered[z], s), Finds(fr, s)
  PROVE  Known(After(fr, s))
<1> DEFINE d == Lowered[z]
           new == After(fr, s)
<1>1. IndexRecords(d)
  BY IndexOwner DEF IndexRecords
<1>2. \A t \in DOMAIN d : \A g \in d[t].triggers :
        Owner(g.name) = t /\ (g.feeds # {} => g.name[2] = "fts")
  BY TriggerOwner
<1> HIDE DEF d
<1>3. /\ DOMAIN new.table = TablesAfter(fr, s) /\ new.index = IndexAfter(fr, s)
      /\ new.trigger = TriggerAfter(fr, s)
  BY AfterParts
<1> HIDE DEF new
<1>4. ASSUME NEW x \in new.index
      PROVE  /\ x.table \in DOMAIN new.table
             /\ \E w \in Schema : x.table \in DOMAIN Lowered[w]
                                  /\ \E i \in Lowered[w][x.table].indexes : x = Made(x.table, i)
  <2>1. CASE x \in fr.index
    <3>1. /\ x.table \in DOMAIN fr.table
          /\ \E w \in Schema : x.table \in DOMAIN Lowered[w]
                                  /\ \E i \in Lowered[w][x.table].indexes : x = Made(x.table, i)
      BY <2>1 DEF Known
    <3>2. s.kind = "DropTable" => x.table # s.table
      BY <1>3 DEF IndexAfter
    <3>3. x.table \in DOMAIN new.table
      BY <1>3, <3>1, <3>2 DEF TablesAfter
    <3> QED BY <3>1, <3>3
  <2>2. CASE x \notin fr.index
    <3>1. s.kind = "CreateIndex"
      BY <1>3, <2>2 DEF IndexAfter
    <3>2. x = [name |-> s.arg.name, table |-> s.table, columns |-> s.arg.columns,
               unique |-> s.arg.unique]
      BY <1>3, <2>2, <3>1 DEF IndexAfter
    <3>3. x = Made(s.table, s.arg) /\ s.table \in DOMAIN d
      BY <1>1, <3>1, <3>2, IndexMade DEF d
    <3>4. PICK k \in d[s.table].indexes : s.arg.columns = k.columns /\ s.arg.unique = k.unique
      BY <1>1, <3>1, IndexMade DEF d
    <3>5. x = Made(s.table, k) /\ x.table = s.table
      BY <3>3, <3>4 DEF Made
    <3>6. s.table \in DOMAIN new.table
      BY <1>3, <3>1 DEF Finds, TablesAfter
    <3> QED BY <3>3, <3>4, <3>5, <3>6 DEF d
  <2> QED BY <2>1, <2>2
<1>5. ASSUME NEW g \in new.trigger
      PROVE  /\ g.table \in DOMAIN new.table /\ g.table = Owner(g.name)
             /\ g.feeds # {} => g.name[2] = "fts"
  <2>1. CASE g \in fr.trigger
    <3>1. /\ g.table \in DOMAIN fr.table /\ g.table = Owner(g.name)
          /\ g.feeds # {} => g.name[2] = "fts"
      BY <2>1 DEF Known
    <3>2. s.kind = "DropTable" => g.table # s.table
      BY <1>3 DEF TriggerAfter
    <3>3. g.table \in DOMAIN new.table
      BY <1>3, <3>1, <3>2 DEF TablesAfter
    <3> QED BY <3>1, <3>3
  <2>2. CASE g \notin fr.trigger
    <3>1. s.kind = "CreateTrigger"
      BY <1>3, <2>2 DEF TriggerAfter
    <3>2. g.name = s.arg.name /\ g.table = s.table /\ g.feeds = s.arg.feeds
      BY <1>3, <2>2, <3>1 DEF TriggerAfter
    <3>3. s.table \in DOMAIN d /\ s.arg \in d[s.table].triggers
      BY <3>1 DEF Writes, d
    <3>4. s.table \in DOMAIN new.table
      BY <1>3, <3>1 DEF Finds, TablesAfter
    <3> QED BY <1>2, <3>2, <3>3, <3>4
  <2> QED BY <2>1, <2>2
<1> QED BY <1>4, <1>5 DEF Known, new

\* What is not removed stays.
LEMMA KeptIndexes ==
  ASSUME NEW fr, NEW s
  PROVE  /\ \A x \in fr.index : ~ Removes(s, x) => x \in IndexAfter(fr, s)
         /\ \A x \in IndexAfter(fr, s) : x \in fr.index => ~ Removes(s, x)
         /\ \A g \in fr.trigger : ~ Unhooks(s, g) => g \in TriggerAfter(fr, s)
         /\ \A g \in TriggerAfter(fr, s) : g \in fr.trigger => ~ Unhooks(s, g)
<1>1. \A x \in fr.index : ~ Removes(s, x) => x \in IndexAfter(fr, s)
  BY DEF IndexAfter, Removes
<1>2. \A x \in IndexAfter(fr, s) : x \in fr.index => ~ Removes(s, x)
  BY DEF IndexAfter, Removes
<1>3. \A g \in fr.trigger : ~ Unhooks(s, g) => g \in TriggerAfter(fr, s)
  BY DEF TriggerAfter, Unhooks
<1>4. \A g \in TriggerAfter(fr, s) : g \in fr.trigger => ~ Unhooks(s, g)
  BY DEF TriggerAfter, Unhooks
<1> QED BY <1>1, <1>2, <1>3, <1>4

\* What is in the way of the rest was in the way before.
LEMMA BlockedNext ==
  ASSUME NEW q, NEW p, Rest(q, p), NEW fr, Finds(fr, q[1]), Blocked(q, fr)
  PROVE  Blocked(p, After(fr, q[1]))
<1> DEFINE s == q[1]
           new == After(fr, s)
<1>1. PICK i \in DOMAIN q : \E x \in fr.index :
        /\ q[i].kind = "CreateIndex" /\ q[i].arg.name = x.name
        /\ \A j \in DOMAIN q : j < i => ~ Removes(q[j], x)
  BY DEF Blocked
<1>2. PICK x \in fr.index :
        /\ q[i].kind = "CreateIndex" /\ q[i].arg.name = x.name
        /\ \A j \in DOMAIN q : j < i => ~ Removes(q[j], x)
  BY <1>1
<1>3. i # 1
  BY <1>2 DEF Finds
<1>4. i \in Nat \ {0} /\ i - 1 \in DOMAIN p /\ p[i - 1] = q[i] /\ 1 < i /\ 1 \in DOMAIN q
  <2>1. i \in Nat \ {0} /\ i - 1 \in DOMAIN p /\ p[i - 1] = q[i] /\ 1 \in DOMAIN q
    BY <1>3 DEF Rest
  <2> QED BY <1>3, <2>1
<1>5. x \in new.index
  <2>1. ~ Removes(s, x)
    BY <1>2, <1>4
  <2> QED BY <2>1, KeptIndexes, AfterParts
<1>6. ASSUME NEW j \in DOMAIN p, j < i - 1 PROVE ~ Removes(p[j], x)
  <2>1. j + 1 \in DOMAIN q /\ q[j + 1] = p[j] /\ j \in Nat
    BY DEF Rest
  <2>2. j + 1 < i
    BY <1>4, <1>6, <2>1
  <2> QED BY <1>2, <2>1, <2>2
<1> HIDE DEF new, s
<1> QED BY <1>2, <1>4, <1>5, <1>6 DEF Blocked, new, s

\* A statement that ran leaves the tables to come to the rest.
LEMMA TablesNext ==
  ASSUME NEW d, NEW q, NEW p, Rest(q, p), NEW fr, Writes(d, q[1]), TablesCome(q, fr, d)
  PROVE  TablesCome(p, After(fr, q[1]), d)
<1> DEFINE s == q[1]
           new == After(fr, s)
<1>1. DOMAIN new.table = TablesAfter(fr, s)
  BY AfterParts
<1>2. (s.kind = "CreateTable" => s.table \in DOMAIN d) /\ (s.kind = "DropTable" => s.table \notin DOMAIN d)
  BY DEF Writes
<1>3. \A i \in DOMAIN q : i # 1 => i - 1 \in DOMAIN p /\ p[i - 1] = q[i]
  BY DEF Rest
<1> HIDE DEF new, s
<1>4. ASSUME NEW t \in DOMAIN d \ DOMAIN new.table
      PROVE  \E i \in DOMAIN p : Does(p, i, "CreateTable", t)
  <2>1. t \in DOMAIN d \ DOMAIN fr.table
    BY <1>1, <1>2 DEF TablesAfter
  <2>2. PICK i \in DOMAIN q : Does(q, i, "CreateTable", t)
    BY <2>1 DEF TablesCome
  <2>3. i # 1
    BY <1>1, <2>2 DEF TablesAfter, Does, s
  <2> QED BY <1>3, <2>2, <2>3 DEF Does
<1>5. ASSUME NEW t \in DOMAIN new.table \ DOMAIN d
      PROVE  \E i \in DOMAIN p : Does(p, i, "DropTable", t)
  <2>1. t \in DOMAIN fr.table \ DOMAIN d
    BY <1>1, <1>2 DEF TablesAfter
  <2>2. PICK i \in DOMAIN q : Does(q, i, "DropTable", t)
    BY <2>1 DEF TablesCome
  <2>3. i # 1
    BY <1>1, <2>2 DEF TablesAfter, Does, s
  <2> QED BY <1>3, <2>2, <2>3 DEF Does
<1> QED BY <1>4, <1>5 DEF TablesCome, new, s

\* So it does with the columns and foreign keys.
LEMMA ColumnsNext ==
  ASSUME NEW d, NEW q, NEW p, Rest(q, p), NEW fr, Writes(d, q[1]), Finds(fr, q[1]),
         ColumnsCome(q, fr, d)
  PROVE  ColumnsCome(p, After(fr, q[1]), d)
<1> DEFINE s == q[1]
           new == After(fr, s)
<1>1. /\ DOMAIN new.table = TablesAfter(fr, s)
      /\ \A t \in TablesAfter(fr, s) : new.table[t] = ShellAfter(fr, s, t)
  BY AfterParts
<1>2. \A i \in DOMAIN q : i # 1 => i - 1 \in DOMAIN p /\ p[i - 1] = q[i]
  BY DEF Rest
<1>3. /\ s.kind = "CreateTable" => s.arg = d[s.table]
      /\ s.kind = "RebuildTable" => s.arg.def = d[s.table]
      /\ s.kind = "AddColumn" => /\ s.arg[1] \in DOMAIN d[s.table].columns
                                 /\ s.arg[2] = d[s.table].columns[s.arg[1]]
  BY DEF Writes
<1> HIDE DEF new
<1> SUFFICES ASSUME NEW t \in DOMAIN d \cap DOMAIN new.table
             PROVE  \/ \E i \in DOMAIN p : Does(p, i, "RebuildTable", t)
                    \/ /\ Declared(new.table[t].foreignKeys) = Declared(d[t].foreignKeys)
                       /\ DOMAIN new.table[t].columns \subseteq DOMAIN d[t].columns
                       /\ \A c \in DOMAIN d[t].columns :
                            IF c \in DOMAIN new.table[t].columns
                            THEN new.table[t].columns[c].affinity = d[t].columns[c].affinity
                            ELSE \E i \in DOMAIN p : Does(p, i, "AddColumn", t) /\ p[i].arg[1] = c
  BY DEF ColumnsCome, new
<1> DEFINE def == new.table[t]
           old == fr.table[t]
<1>4. def = ShellAfter(fr, s, t) /\ \A x : Shell(x).columns = x.columns /\ Shell(x).foreignKeys = x.foreignKeys
  BY <1>1 DEF Shell
<1>5. CASE s.kind \in {"CreateTable", "RebuildTable"} /\ s.table = t
  <2>1. def = Shell(d[t])
    BY <1>3, <1>4, <1>5 DEF ShellAfter
  <2>2. def.columns = d[t].columns /\ def.foreignKeys = d[t].foreignKeys
    BY <1>4, <2>1
  <2> QED BY <2>2
<1>6. CASE ~ (s.kind \in {"CreateTable", "RebuildTable"} /\ s.table = t)
  <2>1. t \in DOMAIN fr.table
    BY <1>1, <1>6 DEF TablesAfter
  <2>2. CASE \E i \in DOMAIN q : Does(q, i, "RebuildTable", t)
    <3>1. PICK i \in DOMAIN q : Does(q, i, "RebuildTable", t)
      BY <2>2
    <3>2. i # 1
      BY <1>6, <3>1 DEF Does
    <3> QED BY <1>2, <3>1, <3>2 DEF Does
  <2>3. CASE /\ Declared(old.foreignKeys) = Declared(d[t].foreignKeys)
             /\ DOMAIN old.columns \subseteq DOMAIN d[t].columns
             /\ \A c \in DOMAIN d[t].columns :
                  IF c \in DOMAIN old.columns
                  THEN old.columns[c].affinity = d[t].columns[c].affinity
                  ELSE \E i \in DOMAIN q : Does(q, i, "AddColumn", t) /\ q[i].arg[1] = c
    <3>1. CASE s.kind = "AddColumn" /\ s.table = t
      <4> DEFINE cols == Over(Only(s.arg[1], s.arg[2]), old.columns)
      <4>1. def.columns = cols /\ def.foreignKeys = old.foreignKeys
        BY <1>4, <3>1 DEF ShellAfter
      <4>2. /\ DOMAIN cols = {s.arg[1]} \cup DOMAIN old.columns /\ cols[s.arg[1]] = s.arg[2]
            /\ \A c \in DOMAIN old.columns : c # s.arg[1] => cols[c] = old.columns[c]
        BY DEF Over, Only
      <4>3. ASSUME NEW c \in DOMAIN d[t].columns, c \notin DOMAIN cols
            PROVE  \E i \in DOMAIN p : Does(p, i, "AddColumn", t) /\ p[i].arg[1] = c
        <5>1. PICK i \in DOMAIN q : Does(q, i, "AddColumn", t) /\ q[i].arg[1] = c
          BY <2>3, <4>2, <4>3
        <5>2. i # 1
          BY <4>2, <4>3, <5>1
        <5> QED BY <1>2, <5>1, <5>2 DEF Does
      <4> HIDE DEF cols, s
      <4>4. \A c \in DOMAIN d[t].columns :
              c \in DOMAIN cols => cols[c].affinity = d[t].columns[c].affinity
        BY <1>3, <2>3, <3>1, <4>2
      <4>5. DOMAIN cols \subseteq DOMAIN d[t].columns
        BY <1>3, <2>3, <3>1, <4>2
      <4> QED BY <2>3, <4>1, <4>3, <4>4, <4>5
    <3>2. CASE ~ (s.kind = "AddColumn" /\ s.table = t)
      <4>1. def = old
        BY <1>4, <1>6, <3>2 DEF ShellAfter
      <4>2. ASSUME NEW c \in DOMAIN d[t].columns, c \notin DOMAIN old.columns
            PROVE  \E i \in DOMAIN p : Does(p, i, "AddColumn", t) /\ p[i].arg[1] = c
        <5>1. PICK i \in DOMAIN q : Does(q, i, "AddColumn", t) /\ q[i].arg[1] = c
          BY <2>3, <4>2
        <5>2. i # 1
          BY <3>2, <5>1 DEF Does
        <5> QED BY <1>2, <5>1, <5>2 DEF Does
      <4> QED BY <2>3, <4>1, <4>2
    <3> QED BY <3>1, <3>2
  <2> QED BY <2>1, <2>2, <2>3 DEF ColumnsCome
<1> QED BY <1>5, <1>6

\* So it does with the indexes, those to come and those to go.
LEMMA IndexesNext ==
  ASSUME NEW d, IndexRecords(d), NEW q, NEW p, Rest(q, p), NEW fr, Writes(d, q[1]),
         IndexesCome(q, fr, d), IndexesGo(q, fr, d)
  PROVE  IndexesCome(p, After(fr, q[1]), d) /\ IndexesGo(p, After(fr, q[1]), d)
<1> DEFINE s == q[1]
           new == After(fr, s)
<1>1. new.index = IndexAfter(fr, s)
  BY AfterParts
<1>2. \A i \in DOMAIN q : i \in Nat \ {0} /\ (i # 1 => i - 1 \in DOMAIN p /\ p[i - 1] = q[i])
  BY DEF Rest
<1>3. \A j \in DOMAIN p : j \in Nat \ {0} /\ j + 1 \in DOMAIN q /\ p[j] = q[j + 1] /\ 1 < j + 1
  BY DEF Rest
<1>4. 1 \in DOMAIN q
  BY DEF Rest
<1>5. \A x \in fr.index : ~ Removes(s, x) => x \in new.index
  BY <1>1, KeptIndexes
<1>6. \A x \in new.index : x \in fr.index => ~ Removes(s, x)
  BY <1>1, KeptIndexes
<1> HIDE DEF new
<1>7. IndexesCome(p, new, d)
  <2> SUFFICES ASSUME NEW t \in DOMAIN d, NEW k \in d[t].indexes
               PROVE  \/ Made(t, k) \in new.index /\ \A j \in DOMAIN p : ~ Removes(p[j], Made(t, k))
                      \/ \E i \in DOMAIN p :
                           /\ Does(p, i, "CreateIndex", t) /\ p[i].arg.columns = k.columns
                           /\ p[i].arg.unique = k.unique
                           /\ \A j \in DOMAIN p : i < j => ~ Removes(p[j], Made(t, k))
    BY DEF IndexesCome
  <2> DEFINE m == Made(t, k)
  <2>1. CASE m \in fr.index /\ \A j \in DOMAIN q : ~ Removes(q[j], m)
    <3>1. m \in new.index
      BY <1>4, <1>5, <2>1
    <3>2. \A j \in DOMAIN p : ~ Removes(p[j], m)
      <4> HIDE DEF m
      <4> QED BY <1>3, <2>1
    <3> QED BY <3>1, <3>2
  <2>2. CASE \E i \in DOMAIN q :
               /\ Does(q, i, "CreateIndex", t) /\ q[i].arg.columns = k.columns
               /\ q[i].arg.unique = k.unique
               /\ \A j \in DOMAIN q : i < j => ~ Removes(q[j], m)
    <3>1. PICK i \in DOMAIN q :
               /\ Does(q, i, "CreateIndex", t) /\ q[i].arg.columns = k.columns
               /\ q[i].arg.unique = k.unique
               /\ \A j \in DOMAIN q : i < j => ~ Removes(q[j], m)
      BY <2>2
    <3>2. CASE i = 1
      <4>1. s.kind = "CreateIndex" /\ s.table = t /\ s.arg.columns = k.columns /\ s.arg.unique = k.unique
        BY <3>1, <3>2 DEF Does
      <4>2. Made(t, s.arg) \in new.index
        <5>1. [name |-> s.arg.name, table |-> s.table, columns |-> s.arg.columns,
               unique |-> s.arg.unique] \in new.index
          BY <1>1, <4>1 DEF IndexAfter
        <5>2. [name |-> s.arg.name, table |-> s.table, columns |-> s.arg.columns,
               unique |-> s.arg.unique] = Made(s.table, s.arg)
          BY <4>1, IndexMade
        <5> QED BY <4>1, <5>1, <5>2
      <4>3. m = Made(t, s.arg)
        BY <4>1 DEF Made
      <4>4. \A j \in DOMAIN p : ~ Removes(p[j], m)
        <5> HIDE DEF m
        <5> QED BY <1>3, <3>1, <3>2
      <4> QED BY <4>2, <4>3, <4>4
    <3>3. CASE i # 1
      <4>1. i - 1 \in DOMAIN p /\ p[i - 1] = q[i] /\ i \in Nat
        BY <1>2, <3>3
      <4>2. ASSUME NEW j \in DOMAIN p, i - 1 < j PROVE ~ Removes(p[j], m)
        <5>1. j + 1 \in DOMAIN q /\ p[j] = q[j + 1] /\ i < j + 1
          BY <1>3, <4>1, <4>2
        <5> HIDE DEF m
        <5> QED BY <3>1, <5>1
      <4> QED BY <3>1, <4>1, <4>2 DEF Does
    <3> QED BY <3>2, <3>3
  <2> QED BY <2>1, <2>2 DEF IndexesCome
<1>8. IndexesGo(p, new, d)
  <2> SUFFICES ASSUME NEW x \in new.index,
                      ~ (x.table \in DOMAIN d /\ \E k \in d[x.table].indexes : x = Made(x.table, k))
               PROVE  \E j \in DOMAIN p : Removes(p[j], x)
    BY DEF IndexesGo
  <2>1. CASE x \in fr.index
    <3>1. PICK j \in DOMAIN q : Removes(q[j], x)
      BY <2>1 DEF IndexesGo
    <3>2. j # 1
      BY <1>6, <2>1, <3>1
    <3> QED BY <1>2, <3>1, <3>2
  <2>2. CASE x \notin fr.index
    <3>1. s.kind = "CreateIndex"
      BY <1>1, <2>2 DEF IndexAfter
    <3>2. x = [name |-> s.arg.name, table |-> s.table, columns |-> s.arg.columns,
               unique |-> s.arg.unique]
      BY <1>1, <2>2, <3>1 DEF IndexAfter
    <3>3. x = Made(s.table, s.arg) /\ s.table \in DOMAIN d
      BY <3>1, <3>2, IndexMade
    <3>4. PICK k \in d[s.table].indexes : s.arg.columns = k.columns /\ s.arg.unique = k.unique
      BY <3>1, IndexMade
    <3>5. x = Made(s.table, k) /\ x.table = s.table
      BY <3>3, <3>4 DEF Made
    <3> QED BY <3>3, <3>5
  <2> QED BY <2>1, <2>2
<1> QED BY <1>7, <1>8 DEF new

\* So it does with the triggers: a name says whose one is.
LEMMA TriggersNext ==
  ASSUME NEW z \in Schema, NEW q, NEW p, Rest(q, p), NEW fr, Known(fr),
         Writes(Lowered[z], q[1]),
         TriggersCome(q, fr, Lowered[z]), TriggersGo(q, fr, Lowered[z])
  PROVE  /\ TriggersCome(p, After(fr, q[1]), Lowered[z])
         /\ TriggersGo(p, After(fr, q[1]), Lowered[z])
<1> DEFINE d == Lowered[z]
           s == q[1]
           new == After(fr, s)
<1>1. new.trigger = TriggerAfter(fr, s)
  BY AfterParts
<1>2. \A i \in DOMAIN q : i \in Nat \ {0} /\ (i # 1 => i - 1 \in DOMAIN p /\ p[i - 1] = q[i])
  BY DEF Rest
<1>3. \A j \in DOMAIN p : j \in Nat \ {0} /\ j + 1 \in DOMAIN q /\ p[j] = q[j + 1] /\ 1 < j + 1
  BY DEF Rest
<1>4. 1 \in DOMAIN q
  BY DEF Rest
<1>5. \A g \in fr.trigger : ~ Unhooks(s, g) => g \in new.trigger
  BY <1>1, KeptIndexes
<1>6. \A g \in new.trigger : g \in fr.trigger => ~ Unhooks(s, g)
  BY <1>1, KeptIndexes
<1>7. \A g \in fr.trigger : g.table = Owner(g.name)
  BY DEF Known
<1>8. \A t \in DOMAIN d : \A k \in d[t].triggers : Owner(k.name) = t
  BY TriggerOwner
<1>9. s.kind = "CreateTrigger" => s.table \in DOMAIN d /\ s.arg \in d[s.table].triggers
  BY DEF Writes
<1> HIDE DEF new, d
<1>10. TriggersCome(p, new, d)
  <2> SUFFICES ASSUME NEW t \in DOMAIN d, NEW k \in d[t].triggers
               PROVE  \/ \E g \in new.trigger :
                           g.table = t /\ g.name = k.name /\ \A j \in DOMAIN p : ~ Unhooks(p[j], g)
                      \/ \E i \in DOMAIN p :
                           /\ Does(p, i, "CreateTrigger", t) /\ p[i].arg.name = k.name
                           /\ \A j \in DOMAIN p : i < j => ~ Unhooks(p[j], [name |-> k.name, table |-> t])
    BY DEF TriggersCome
  <2> DEFINE m == [name |-> k.name, table |-> t]
  <2>0. m.name = k.name /\ m.table = t
    OBVIOUS
  <2> HIDE DEF m
  <2>1. ASSUME NEW g \in fr.trigger, g.table = t, g.name = k.name,
               \A j \in DOMAIN q : ~ Unhooks(q[j], g)
        PROVE  g \in new.trigger /\ \A j \in DOMAIN p : ~ Unhooks(p[j], g)
    <3>1. \A j \in DOMAIN p : ~ Unhooks(p[j], g)
      BY <1>3, <2>1
    <3> QED BY <1>4, <1>5, <2>1, <3>1
  <2>2. CASE \E i \in DOMAIN q :
               /\ Does(q, i, "CreateTrigger", t) /\ q[i].arg.name = k.name
               /\ \A j \in DOMAIN q : i < j => ~ Unhooks(q[j], m)
    <3>1. PICK i \in DOMAIN q :
               /\ Does(q, i, "CreateTrigger", t) /\ q[i].arg.name = k.name
               /\ \A j \in DOMAIN q : i < j => ~ Unhooks(q[j], m)
      BY <2>2
    <3>2. CASE i = 1
      <4>1. s.kind = "CreateTrigger" /\ s.table = t /\ s.arg.name = k.name
        BY <3>1, <3>2 DEF Does
      <4>2. PICK g \in new.trigger : g.table = t /\ g.name = k.name
        <5>1. CASE \E g \in fr.trigger : g.name = k.name
          <6>1. PICK g \in fr.trigger : g.name = k.name
            BY <5>1
          <6>2. g.table = t
            BY <1>7, <1>8, <6>1
          <6>3. ~ Unhooks(s, g)
            BY <4>1 DEF Unhooks
          <6> QED BY <1>5, <6>1, <6>2, <6>3
        <5>2. CASE ~ \E g \in fr.trigger : g.name = k.name
          <6> DEFINE g == [name |-> s.arg.name, table |-> s.table,
                           watches |-> s.arg.watches, feeds |-> s.arg.feeds]
          <6>1. new.trigger = fr.trigger \cup {g}
            BY <1>1, <4>1, <5>2 DEF TriggerAfter
          <6>2. g.table = t /\ g.name = k.name
            BY <4>1
          <6> HIDE DEF g
          <6> QED BY <6>1, <6>2
        <5> QED BY <5>1, <5>2
      <4>3. \A j \in DOMAIN p : ~ Unhooks(p[j], m)
        BY <1>3, <3>1, <3>2
      <4>4. \A j \in DOMAIN p : ~ Unhooks(p[j], g)
        BY <2>0, <4>2, <4>3 DEF Unhooks
      <4> QED BY <4>2, <4>4
    <3>3. CASE i # 1
      <4>1. i - 1 \in DOMAIN p /\ p[i - 1] = q[i] /\ i \in Nat
        BY <1>2, <3>3
      <4>2. ASSUME NEW j \in DOMAIN p, i - 1 < j PROVE ~ Unhooks(p[j], m)
        <5>1. j + 1 \in DOMAIN q /\ p[j] = q[j + 1] /\ i < j + 1
          BY <1>3, <4>1, <4>2
        <5> QED BY <3>1, <5>1
      <4> QED BY <3>1, <4>1, <4>2 DEF Does, m
    <3> QED BY <3>2, <3>3
  <2> QED BY <2>1, <2>2 DEF TriggersCome, m, d
<1>11. TriggersGo(p, new, d)
  <2> SUFFICES ASSUME NEW g \in new.trigger,
                      ~ (g.table \in DOMAIN d /\ \E k \in d[g.table].triggers : k.name = g.name)
               PROVE  \E j \in DOMAIN p : Unhooks(p[j], g)
    BY DEF TriggersGo
  <2>1. CASE g \in fr.trigger
    <3>1. PICK j \in DOMAIN q : Unhooks(q[j], g)
      BY <2>1 DEF TriggersGo, d
    <3>2. j # 1
      BY <1>6, <2>1, <3>1
    <3> QED BY <1>2, <3>1, <3>2
  <2>2. CASE g \notin fr.trigger
    <3>1. s.kind = "CreateTrigger"
      BY <1>1, <2>2 DEF TriggerAfter
    <3>2. g.name = s.arg.name /\ g.table = s.table
      BY <1>1, <2>2, <3>1 DEF TriggerAfter
    <3> QED BY <1>9, <3>1, <3>2
  <2> QED BY <2>1, <2>2
<1> QED BY <1>10, <1>11 DEF new, d

\* A statement that runs leaves a script that reaches the schema.
LEMMA ReachesNext ==
  ASSUME NEW z \in Schema, NEW q, NEW p, Rest(q, p), NEW fr, Known(fr), Finds(fr, q[1]),
         Writes(Lowered[z], q[1]), Reaches(q, fr, Lowered[z])
  PROVE  Reaches(p, After(fr, q[1]), Lowered[z])
<1> DEFINE d == Lowered[z]
<1>1. IndexRecords(d)
  BY IndexOwner DEF IndexRecords
<1>2. CASE Blocked(q, fr)
  BY <1>2, BlockedNext DEF Reaches
<1>3. CASE /\ TablesCome(q, fr, d) /\ ColumnsCome(q, fr, d)
           /\ IndexesCome(q, fr, d) /\ IndexesGo(q, fr, d)
           /\ TriggersCome(q, fr, d) /\ TriggersGo(q, fr, d)
  <2>1. TablesCome(p, After(fr, q[1]), d)
    BY <1>3, TablesNext
  <2>2. ColumnsCome(p, After(fr, q[1]), d)
    BY <1>3, ColumnsNext
  <2>3. IndexesCome(p, After(fr, q[1]), d) /\ IndexesGo(p, After(fr, q[1]), d)
    BY <1>1, <1>3, IndexesNext
  <2>4. TriggersCome(p, After(fr, q[1]), d) /\ TriggersGo(p, After(fr, q[1]), d)
    BY <1>3, TriggersNext
  <2> QED BY <2>1, <2>2, <2>3, <2>4 DEF Reaches
<1> QED BY <1>2, <1>3 DEF Reaches

\* At the end of the script the schema is served.
LEMMA ReachedIsServed ==
  ASSUME NEW fr, NEW d, Reaches(<<>>, fr, d)
  PROVE  Served(fr, d)
<1>1. ~ Blocked(<<>>, fr)
  BY DEF Blocked
<1> QED BY <1>1 DEF Reaches, Served

\* The first statement finds what it is about.
LEMMA FirstFinds ==
  ASSUME NEW d, NEW q, NEW p, Rest(q, p), NEW fr, WillRun(q, fr, d)
  PROVE  Finds(fr, q[1])
<1> DEFINE s == q[1]
           t == s.table
<1>1. 1 \in DOMAIN q /\ \A j \in DOMAIN q : ~ (j < 1)
  BY DEF Rest
<1>2. CanRun(q, 1, fr, d)
  BY <1>1 DEF WillRun
<1>3. \A kind : ~ Earlier(q, 1, kind, t)
  BY <1>1 DEF Earlier
<1>4. Stands(q, 1, fr, t) <=> t \in DOMAIN fr.table
  BY <1>3 DEF Stands
<1>5. \A c : HasColumn(q, 1, fr, t, c) <=> t \in DOMAIN fr.table /\ c \in DOMAIN fr.table[t].columns
  BY <1>1, <1>3 DEF HasColumn
<1>6. CASE s.kind = "CreateIndex"
  <2>1. t \in DOMAIN fr.table
    BY <1>2, <1>4, <1>6 DEF CanRun
  <2>2. \A c \in ToSet(s.arg.columns) : c \in DOMAIN fr.table[t].columns
    BY <1>2, <1>5, <1>6 DEF CanRun
  <2>3. \A x \in fr.index : x.name # s.arg.name
    BY <1>1, <1>2, <1>6 DEF CanRun, IsFree
  <2> QED BY <1>6, <2>1, <2>2, <2>3 DEF Finds
<1>7. CASE s.kind = "DropIndex"
  BY <1>2, <1>7 DEF CanRun, Finds
<1>8. CASE s.kind \in {"CreateTable", "CreateTrigger"}
  BY <1>2, <1>4, <1>8 DEF CanRun, Finds
<1>9. CASE s.kind = "AddColumn"
  BY <1>2, <1>5, <1>9 DEF CanRun, Finds
<1>10. CASE s.kind \in {"DropTable", "RebuildTable"}
  BY <1>2, <1>10 DEF CanRun, Finds
<1>11. CASE s.kind \notin {"CreateIndex", "DropIndex", "CreateTable", "CreateTrigger", "AddColumn",
                           "DropTable", "RebuildTable"}
  BY <1>11 DEF Finds
<1> QED BY <1>6, <1>7, <1>8, <1>9, <1>10, <1>11

\* Without broken triggers, the first statement runs and breaks none, if the table
\* that a trigger it makes feeds is there.
LEMMA FirstRuns ==
  ASSUME NEW d, NEW q, NEW p, Rest(q, p), NEW fr, Broken(fr) = {}, WillRun(q, fr, d),
         q[1].kind # "Cut",
         q[1].kind = "CreateTrigger" /\ q[1].arg.feeds # {} => q[1].table \in fr.fts
  PROVE  (\A on \in BOOLEAN : Runs(fr, q[1], on)) /\ Broken(After(fr, q[1])) = {}
<1> DEFINE s == q[1]
           new == After(fr, s)
<1>1. Finds(fr, s)
  BY FirstFinds
<1>2. ~ Jams(fr, s.table)
  BY DEF Jams
<1>3. \A on \in BOOLEAN : Runs(fr, s, on)
  BY <1>1, <1>2 DEF Runs, Clear
<1>4. 1 \in DOMAIN q /\ \A j \in DOMAIN q : ~ (j < 1)
  BY DEF Rest
<1>5. s.kind = "DropVirtualTable" => \A g \in fr.trigger : g.table = s.table => g.feeds = {}
  BY <1>4 DEF WillRun, CanRun
<1>6. new.trigger = TriggerAfter(fr, s) /\ new.fts = FtsAfter(fr, s)
  BY DEF After
<1> HIDE DEF new
<1>7. ASSUME NEW g \in new.trigger, g.feeds # {} PROVE g.table \in new.fts
  <2>1. CASE g \in fr.trigger
    <3>1. g.table \in fr.fts
      BY <1>7, <2>1 DEF Broken
    <3>2. s.kind = "DropVirtualTable" => g.table # s.table
      BY <1>5, <1>7, <2>1
    <3> QED BY <1>6, <3>1, <3>2 DEF FtsAfter
  <2>2. CASE g \notin fr.trigger
    <3>1. s.kind = "CreateTrigger" /\ g.table = s.table /\ g.feeds = s.arg.feeds
      BY <1>6, <1>7, <2>2 DEF TriggerAfter
    <3>2. g.table \in fr.fts
      BY <1>7, <3>1
    <3> QED BY <1>6, <3>1, <3>2 DEF FtsAfter
  <2> QED BY <2>1, <2>2
<1>8. Broken(new) = {}
  BY <1>7 DEF Broken
<1> QED BY <1>3, <1>8 DEF new

\* What a statement makes of a table of the schema that was there, or was not.
LEMMA ColumnsAfter ==
  ASSUME NEW d, NEW fr, NEW s, Writes(d, s), NEW t \in DOMAIN d
  PROVE  /\ t \in DOMAIN After(fr, s).table <=>
              t \in DOMAIN fr.table \/ (s.kind = "CreateTable" /\ s.table = t)
         /\ \A c \in DOMAIN d[t].columns :
              /\ t \in DOMAIN After(fr, s).table
              /\ \/ t \in DOMAIN fr.table /\ c \in DOMAIN fr.table[t].columns
                 \/ s.kind \in {"CreateTable", "RebuildTable"} /\ s.table = t
                 \/ s.kind = "AddColumn" /\ s.table = t /\ s.arg[1] = c
              => c \in DOMAIN After(fr, s).table[t].columns
         /\ t \in DOMAIN fr.table /\ ~ (s.kind \in {"CreateTable", "RebuildTable"} /\ s.table = t) =>
              /\ DOMAIN fr.table[t].columns \subseteq DOMAIN After(fr, s).table[t].columns
              /\ \A c \in DOMAIN After(fr, s).table[t].columns :
                   \/ c \in DOMAIN fr.table[t].columns
                   \/ s.kind = "AddColumn" /\ s.table = t /\ c = s.arg[1]
<1> DEFINE new == After(fr, s)
           old == fr.table[t].columns
           cols == new.table[t].columns
<1>1. /\ DOMAIN new.table = TablesAfter(fr, s)
      /\ \A u \in TablesAfter(fr, s) : new.table[u] = ShellAfter(fr, s, u)
  BY AfterParts
<1>2. /\ s.kind = "CreateTable" => s.arg = d[s.table]
      /\ s.kind = "RebuildTable" => s.arg.def = d[s.table]
      /\ s.kind = "DropTable" => s.table \notin DOMAIN d
  BY DEF Writes
<1> HIDE DEF new
<1>3. t \in DOMAIN new.table <=> t \in DOMAIN fr.table \/ (s.kind = "CreateTable" /\ s.table = t)
  BY <1>1, <1>2 DEF TablesAfter
<1>4. ASSUME t \in DOMAIN new.table, s.kind \in {"CreateTable", "RebuildTable"} /\ s.table = t
      PROVE  cols = d[t].columns
  <2>1. new.table[t] = Shell(d[t])
    BY <1>1, <1>2, <1>4 DEF ShellAfter
  <2> QED BY <2>1 DEF Shell
<1>5. ASSUME t \in DOMAIN fr.table, ~ (s.kind \in {"CreateTable", "RebuildTable"} /\ s.table = t)
      PROVE  /\ DOMAIN old \subseteq DOMAIN cols
             /\ s.kind = "AddColumn" /\ s.table = t => s.arg[1] \in DOMAIN cols
             /\ \A c \in DOMAIN cols :
                   \/ c \in DOMAIN old
                   \/ s.kind = "AddColumn" /\ s.table = t /\ c = s.arg[1]
  <2>1. t \in TablesAfter(fr, s)
    BY <1>1, <1>3, <1>5
  <2>2. CASE s.kind = "AddColumn" /\ s.table = t
    <3>1. new.table[t] = [columns |-> Over(Only(s.arg[1], s.arg[2]), old),
                          foreignKeys |-> fr.table[t].foreignKeys]
      BY <1>1, <2>1, <2>2 DEF ShellAfter
    <3>2. DOMAIN cols = {s.arg[1]} \cup DOMAIN old
      BY <3>1 DEF Over, Only
    <3> QED BY <2>2, <3>2
  <2>3. CASE ~ (s.kind = "AddColumn" /\ s.table = t)
    <3>1. new.table[t] = fr.table[t]
      BY <1>1, <1>5, <2>1, <2>3 DEF ShellAfter
    <3> QED BY <2>3, <3>1
  <2> QED BY <2>2, <2>3
<1>6. ASSUME NEW c \in DOMAIN d[t].columns, t \in DOMAIN new.table,
              \/ t \in DOMAIN fr.table /\ c \in DOMAIN fr.table[t].columns
              \/ s.kind \in {"CreateTable", "RebuildTable"} /\ s.table = t
              \/ s.kind = "AddColumn" /\ s.table = t /\ s.arg[1] = c
      PROVE  c \in DOMAIN cols
  <2>1. CASE s.kind \in {"CreateTable", "RebuildTable"} /\ s.table = t
    BY <1>4, <1>6, <2>1
  <2>2. CASE ~ (s.kind \in {"CreateTable", "RebuildTable"} /\ s.table = t)
    <3>1. t \in DOMAIN fr.table
      BY <1>3, <1>6, <2>2
    <3> QED BY <1>5, <1>6, <2>2, <3>1
  <2> QED BY <2>1, <2>2
<1> QED BY <1>3, <1>5, <1>6 DEF new

\* After the first statement, a later one finds what it needs.
LEMMA CanRunNext ==
  ASSUME NEW d, NEW q, NEW p, Rest(q, p), NEW fr, Finds(fr, q[1]),
         \A i \in DOMAIN q : Writes(d, q[i]),
         NEW i \in DOMAIN p, CanRun(q, i + 1, fr, d)
  PROVE  CanRun(p, i, After(fr, q[1]), d)
<1> DEFINE s == q[1]
           new == After(fr, s)
           n == i + 1
           t == p[i].table
<1>1. /\ n \in DOMAIN q /\ q[n] = p[i] /\ 1 \in DOMAIN q /\ 1 < n
      /\ \A j \in DOMAIN q : j < n => j = 1 \/ \E k \in DOMAIN p : k < i /\ p[k] = q[j]
      /\ \A k \in DOMAIN p : k < i => \E j \in DOMAIN q : j < n /\ q[j] = p[k]
  <2>1. n \in DOMAIN q /\ q[n] = p[i] /\ 1 \in DOMAIN q /\ i \in Nat \ {0}
    BY DEF Rest
  <2>2. ASSUME NEW j \in DOMAIN q, j < n, j # 1 PROVE \E k \in DOMAIN p : k < i /\ p[k] = q[j]
    <3>1. j \in Nat /\ j - 1 \in DOMAIN p /\ p[j - 1] = q[j]
      BY <2>2 DEF Rest
    <3>2. j - 1 < i
      BY <2>1, <2>2, <3>1
    <3> QED BY <3>1, <3>2
  <2>3. ASSUME NEW k \in DOMAIN p, k < i PROVE \E j \in DOMAIN q : j < n /\ q[j] = p[k]
    <3>1. k \in Nat /\ k + 1 \in DOMAIN q /\ q[k + 1] = p[k]
      BY DEF Rest
    <3>2. k + 1 < n
      BY <2>1, <2>3, <3>1
    <3> QED BY <3>1, <3>2
  <2> QED BY <2>1, <2>2, <2>3
<1>2. CanRun(q, n, fr, d) /\ Writes(d, s) /\ Writes(d, p[i])
  BY <1>1
<1> HIDE DEF n
<1>3. \A kind, u : Earlier(q, n, kind, u) <=> (s.kind = kind /\ s.table = u) \/ Earlier(p, i, kind, u)
  <2> HIDE DEF new
  <2> QED BY <1>1 DEF Earlier, Does
<1>4. /\ DOMAIN new.table = TablesAfter(fr, s) /\ new.index = IndexAfter(fr, s)
      /\ \A x \in fr.index : ~ Removes(s, x) => x \in new.index
      /\ \A x \in new.index : x \in fr.index => ~ Removes(s, x)
  BY AfterParts, KeptIndexes
<1>5. ASSUME t \in DOMAIN d
      PROVE  /\ t \in DOMAIN new.table <=>
                  t \in DOMAIN fr.table \/ (s.kind = "CreateTable" /\ s.table = t)
             /\ \A c \in DOMAIN d[t].columns :
                  /\ t \in DOMAIN new.table
                  /\ \/ t \in DOMAIN fr.table /\ c \in DOMAIN fr.table[t].columns
                     \/ s.kind \in {"CreateTable", "RebuildTable"} /\ s.table = t
                     \/ s.kind = "AddColumn" /\ s.table = t /\ s.arg[1] = c
                  => c \in DOMAIN new.table[t].columns
             /\ t \in DOMAIN fr.table /\ ~ (s.kind \in {"CreateTable", "RebuildTable"} /\ s.table = t) =>
                  /\ DOMAIN fr.table[t].columns \subseteq DOMAIN new.table[t].columns
                  /\ \A c \in DOMAIN new.table[t].columns :
                       \/ c \in DOMAIN fr.table[t].columns
                       \/ s.kind = "AddColumn" /\ s.table = t /\ c = s.arg[1]
  BY <1>2, <1>5, ColumnsAfter
<1> HIDE DEF new
<1>6. t \in DOMAIN d => (Stands(q, n, fr, t) => Stands(p, i, new, t))
  BY <1>3, <1>5 DEF Stands
<1>7. \A c, u : (\E j \in DOMAIN q : j < n /\ Does(q, j, "AddColumn", u) /\ q[j].arg[1] = c) <=>
                  \/ s.kind = "AddColumn" /\ s.table = u /\ s.arg[1] = c
                  \/ \E j \in DOMAIN p : j < i /\ Does(p, j, "AddColumn", u) /\ p[j].arg[1] = c
  BY <1>1 DEF Does
<1>8. CASE p[i].kind = "CreateTable"
  <2>1. ~ Stands(q, n, fr, t) /\ t \in DOMAIN d
    BY <1>1, <1>2, <1>8 DEF CanRun, Writes
  <2>2. ~ Stands(p, i, new, t)
    BY <1>3, <1>5, <2>1 DEF Stands
  <2> QED BY <1>8, <2>2 DEF CanRun, new
<1>9. CASE p[i].kind = "DropTable"
  <2>1. t \in DOMAIN fr.table /\ ~ Earlier(q, n, "DropTable", t)
    BY <1>1, <1>2, <1>9 DEF CanRun
  <2>2. t \in DOMAIN new.table /\ ~ Earlier(p, i, "DropTable", t)
    BY <1>3, <1>4, <2>1 DEF TablesAfter
  <2> QED BY <1>9, <2>2 DEF CanRun, new
<1>10. CASE p[i].kind = "AddColumn"
  <2> DEFINE c == p[i].arg[1]
  <2>1. t \in DOMAIN fr.table /\ ~ HasColumn(q, n, fr, t, c) /\ t \in DOMAIN d
    BY <1>1, <1>2, <1>10 DEF CanRun, Writes
  <2>2. /\ c \notin DOMAIN fr.table[t].columns
        /\ ~ (s.kind \in {"CreateTable", "RebuildTable"} /\ s.table = t)
        /\ ~ (s.kind = "AddColumn" /\ s.table = t /\ s.arg[1] = c)
        /\ ~ Earlier(p, i, "CreateTable", t) /\ ~ Earlier(p, i, "RebuildTable", t)
        /\ ~ \E j \in DOMAIN p : j < i /\ Does(p, j, "AddColumn", t) /\ p[j].arg[1] = c
    <3>1. /\ c \notin DOMAIN fr.table[t].columns
          /\ ~ Earlier(q, n, "CreateTable", t) /\ ~ Earlier(q, n, "RebuildTable", t)
          /\ ~ \E j \in DOMAIN q : j < n /\ Does(q, j, "AddColumn", t) /\ q[j].arg[1] = c
      BY <2>1 DEF HasColumn
    <3>2. /\ ~ (s.kind = "AddColumn" /\ s.table = t /\ s.arg[1] = c)
          /\ ~ \E j \in DOMAIN p : j < i /\ Does(p, j, "AddColumn", t) /\ p[j].arg[1] = c
      <4> HIDE DEF c, t, s
      <4> QED BY <1>7, <3>1
    <3> QED BY <1>3, <3>1, <3>2
  <2>3. t \in DOMAIN new.table /\ c \notin DOMAIN new.table[t].columns
    BY <1>5, <2>1, <2>2
  <2>4. ~ HasColumn(p, i, new, t, c)
    BY <2>2, <2>3 DEF HasColumn
  <2> QED BY <1>10, <2>3, <2>4 DEF CanRun, new
<1>11. CASE p[i].kind = "RebuildTable"
  <2>1. /\ t \in DOMAIN fr.table /\ ~ Earlier(q, n, "RebuildTable", t) /\ t \in DOMAIN d
        /\ p[i].arg.keep \subseteq DOMAIN fr.table[t].columns
    BY <1>1, <1>2, <1>11 DEF CanRun, Writes
  <2>2. ~ (s.kind \in {"CreateTable", "RebuildTable"} /\ s.table = t)
    BY <1>3, <2>1 DEF Finds
  <2>3. /\ t \in DOMAIN new.table /\ ~ Earlier(p, i, "RebuildTable", t)
        /\ p[i].arg.keep \subseteq DOMAIN new.table[t].columns
    BY <1>3, <1>5, <2>1, <2>2
  <2> QED BY <1>11, <2>3 DEF CanRun, new
<1>12. CASE p[i].kind = "CreateIndex"
  <2> DEFINE name == p[i].arg.name
  <2>1. /\ Stands(q, n, fr, t) /\ IsFree(q, n, fr, name) /\ t \in DOMAIN d
        /\ \A c \in ToSet(p[i].arg.columns) : c \in DOMAIN d[t].columns /\ HasColumn(q, n, fr, t, c)
    BY <1>1, <1>2, <1>12 DEF CanRun, Writes
  <2>2. Stands(p, i, new, t)
    BY <1>6, <2>1
  <2>3. ASSUME NEW c \in ToSet(p[i].arg.columns) PROVE HasColumn(p, i, new, t, c)
    <3>1. c \in DOMAIN d[t].columns /\ HasColumn(q, n, fr, t, c)
      BY <2>1
    <3>2. CASE t \in DOMAIN new.table
      BY <1>3, <1>5, <1>7, <2>1, <3>1, <3>2 DEF HasColumn
    <3>3. CASE t \notin DOMAIN new.table
      BY <2>2, <3>3 DEF HasColumn, Stands
    <3> QED BY <3>2, <3>3
  <2>4. ASSUME NEW x \in new.index, x.name = name PROVE \E j \in DOMAIN p : j < i /\ Removes(p[j], x)
    <3>1. x \in fr.index
      <4> SUFFICES ASSUME x \notin fr.index PROVE FALSE
        OBVIOUS
      <4>1. s.kind = "CreateIndex" /\ x.name = s.arg.name
        BY <1>4 DEF IndexAfter
      <4> QED BY <1>1, <2>1, <2>4, <4>1 DEF IsFree
    <3>2. PICK j \in DOMAIN q : j < n /\ Removes(q[j], x)
      BY <2>1, <2>4, <3>1 DEF IsFree
    <3>3. q[j] # s
      BY <1>4, <3>1, <3>2
    <3> QED BY <1>1, <3>2, <3>3
  <2>5. \A j \in DOMAIN p : j < i /\ p[j].kind = "CreateIndex" => p[j].arg.name # name
    BY <1>1, <2>1 DEF IsFree
  <2>6. IsFree(p, i, new, name)
    BY <2>4, <2>5 DEF IsFree
  <2> QED BY <1>12, <2>1, <2>2, <2>3, <2>6 DEF CanRun, new
<1>13. CASE p[i].kind = "DropIndex"
  <2>1. PICK x \in fr.index : x.name = p[i].arg /\ \A j \in DOMAIN q : j < n => ~ Removes(q[j], x)
    BY <1>1, <1>2, <1>13 DEF CanRun
  <2>2. x \in new.index
    BY <1>1, <1>4, <2>1
  <2>3. \A j \in DOMAIN p : j < i => ~ Removes(p[j], x)
    BY <1>1, <2>1
  <2> QED BY <1>13, <2>1, <2>2, <2>3 DEF CanRun, new
<1>14. CASE p[i].kind = "CreateTrigger"
  <2>1. Stands(q, n, fr, t) /\ t \in DOMAIN d
    BY <1>1, <1>2, <1>14 DEF CanRun, Writes
  <2>2. Stands(p, i, new, t)
    BY <1>6, <2>1
  <2> QED BY <1>14, <2>2 DEF CanRun, new
<1>16. CASE p[i].kind = "DropVirtualTable"
  <2>1. /\ \A g \in fr.trigger :
             g.table = t /\ g.feeds # {} => \E j \in DOMAIN q : j < n /\ Unhooks(q[j], g)
        /\ \A j \in DOMAIN q : j < n /\ Does(q, j, "CreateTrigger", t) => q[j].arg.feeds = {}
    BY <1>1, <1>2, <1>16 DEF CanRun
  <2>2. new.trigger = TriggerAfter(fr, s)
    BY AfterParts DEF new
  <2>3. ASSUME NEW g \in new.trigger, g.table = t, g.feeds # {}
        PROVE  \E j \in DOMAIN p : j < i /\ Unhooks(p[j], g)
    <3>1. g \in fr.trigger
      <4> SUFFICES ASSUME g \notin fr.trigger PROVE FALSE
        OBVIOUS
      <4>1. s.kind = "CreateTrigger" /\ s.table = t /\ s.arg.feeds = g.feeds
        BY <2>2, <2>3 DEF TriggerAfter
      <4>2. Does(q, 1, "CreateTrigger", t)
        BY <4>1 DEF Does
      <4> HIDE DEF s, t
      <4>3. q[1].arg.feeds = {}
        BY <1>1, <2>1, <4>2
      <4> QED BY <2>3, <4>1, <4>3 DEF s
    <3>2. ~ Unhooks(s, g)
      BY <2>2, <2>3, <3>1 DEF TriggerAfter, Unhooks
    <3>3. PICK j \in DOMAIN q : j < n /\ Unhooks(q[j], g)
      BY <2>1, <2>3, <3>1
    <3>4. q[j] # s
      BY <3>2, <3>3
    <3> HIDE DEF s, t
    <3>5. j # 1
      BY <3>4 DEF s
    <3> QED BY <1>1, <3>3, <3>5
  <2>4. ASSUME NEW j \in DOMAIN p, j < i, Does(p, j, "CreateTrigger", t) PROVE p[j].arg.feeds = {}
    <3>1. PICK k \in DOMAIN q : k < n /\ q[k] = p[j]
      BY <1>1, <2>4
    <3>2. Does(q, k, "CreateTrigger", t)
      BY <2>4, <3>1 DEF Does
    <3> QED BY <2>1, <3>1, <3>2
  <2> QED BY <1>16, <2>3, <2>4 DEF CanRun, new
<1>15. CASE p[i].kind \notin {"CreateIndex", "DropIndex", "CreateTable", "CreateTrigger", "AddColumn",
                           "DropTable", "RebuildTable", "DropVirtualTable"}
  BY <1>15 DEF CanRun
<1> QED BY <1>8, <1>9, <1>10, <1>11, <1>12, <1>13, <1>14, <1>15, <1>16

\* What will run still will after its first statement.
LEMMA WillRunNext ==
  ASSUME NEW d, NEW q, NEW p, Rest(q, p), NEW fr, Finds(fr, q[1]),
         \A i \in DOMAIN q : Writes(d, q[i]), WillRun(q, fr, d)
  PROVE  WillRun(p, After(fr, q[1]), d)
<1>1. \A i \in DOMAIN p : i + 1 \in DOMAIN q
  BY DEF Rest
<1>2. \A i \in DOMAIN p : CanRun(q, i + 1, fr, d)
  BY <1>1 DEF WillRun
<1> QED BY <1>2, CanRunNext DEF WillRun
=============================================================================
