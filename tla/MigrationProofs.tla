--------------------------- MODULE MigrationProofs ----------------------------
(***************************************************************************)
(* The schema commands keep rows and references, reach the schema and      *)
(* leave files that replay.                                                *)
(***************************************************************************)
EXTENDS MigrationScripts

(***************************************************************************)
(* Scripts run on an empty database.                                       *)
(***************************************************************************)
Written(s) == \E v \in Schema : Writes(Lowered[v], s)

\* What is known of a run that began with an empty database.
Sane(run) ==
  run.enforced \in BOOLEAN /\ (run.ok => Formed(run.db) /\ Bare(run.db) /\ Known(Frame(run.db)))

\* The empty database.
LEMMA EmptyIsFormed == Formed(Empty) /\ Bare(Empty) /\ Known(Frame(Empty))
<1> DEFINE none == <<>>
<1>1. DOMAIN none = {}
  OBVIOUS
<1>2. /\ Empty.table = none /\ Empty.index = {} /\ Empty.trigger = {} /\ Empty.fts = {}
      /\ Empty = [table |-> Empty.table, index |-> Empty.index, trigger |-> Empty.trigger,
                  fts |-> Empty.fts]
  BY DEF Empty
<1>3. IsFiniteSet({})
  BY FS_EmptySet
<1>4. Known(Frame(Empty))
  <2>1. Frame(Empty).index = {} /\ Frame(Empty).trigger = {}
    BY <1>2, FrameParts
  <2> QED BY <2>1 DEF Known
<1> HIDE DEF none
<1> QED BY <1>1, <1>2, <1>3, <1>4 DEF Formed, Bare

\* A statement of a script does what is known of it.
LEMMA WrittenWorks ==
  ASSUME NEW db, Formed(db), NEW s, Written(s), NEW e \in BOOLEAN
  PROVE  Worked(db, s, e)
<1>1. PICK v \in Schema : Writes(Lowered[v], s)
  BY DEF Written
<1> DEFINE d == Lowered[v]
<1>2. Sound(d) /\ Writes(d, s)
  BY <1>1, LoweredIsSound
<1> HIDE DEF d
<1> QED BY <1>2, Works

\* A statement of a script keeps the indexes and triggers known.
LEMMA WrittenKnown ==
  ASSUME NEW db, Formed(db), Known(Frame(db)), NEW s, Written(s), NEW e \in BOOLEAN,
         Execute(db, s, e).ok
  PROVE  Known(Frame(Execute(db, s, e).db))
<1>1. PICK v \in Schema : Writes(Lowered[v], s)
  BY DEF Written
<1>2. Finds(Frame(db), s) /\ Frame(Execute(db, s, e).db) = After(Frame(db), s)
  BY WrittenWorks DEF Worked, Runs
<1> DEFINE fr == Frame(db)
<1> HIDE DEF fr
<1>3. Known(After(fr, s))
  BY <1>1, <1>2, KnownNext DEF fr
<1> QED BY <1>2, <1>3 DEF fr

\* The members of a script are written for some version of the schema, or cut.
LEMMA ScriptMembers ==
  ASSUME NEW q, IsScript(q)
  PROVE  \A i \in DOMAIN q : q[i].kind = "Cut" \/ Written(q[i])
BY DEF IsScript, Written

\* A cut statement does not run.
LEMMA CutFails ==
  ASSUME NEW db, NEW s, s.kind = "Cut", NEW e
  PROVE  ~ Execute(db, s, e).ok
BY DEF Execute, Failed, Result

\* The full-text tables that the first n statements of q supply are there.
Stocked(q, n, run) == run.ok => \A t : Supplied(q, n, t) => t \in run.db.fts

\* One statement more.
LEMMA RunStaysSane ==
  ASSUME NEW run, Sane(run), NEW s, s.kind = "Cut" \/ Written(s)
  PROVE  /\ Sane(RunNext(run, s))
         /\ RunNext(run, s).ok =>
              run.ok /\ RunNext(run, s).db.fts = FtsAfter(Frame(run.db), s)
<1> DEFINE db == run.db
           e == run.enforced
           r == Execute(db, s, e)
           next == [ok |-> r.ok, db |-> r.db, enforced |-> Enforcing(s, e)]
<1>1. CASE ~ run.ok
  BY <1>1 DEF RunNext
<1>2. CASE run.ok
  <2>1. Formed(db) /\ Bare(db) /\ Known(Frame(db)) /\ e \in BOOLEAN
    BY <1>2 DEF Sane
  <2>2. RunNext(run, s) = next
    BY <1>2 DEF RunNext
  <2> DEFINE fr == Frame(db)
  <2> HIDE DEF db, e, fr
  <2>3. r.ok => Written(s)
    BY CutFails
  <2>4. r.ok => Formed(r.db) /\ Bare(r.db) /\ Known(Frame(r.db)) /\ Frame(r.db) = After(fr, s)
    BY <2>1, <2>3, WrittenWorks, WrittenKnown DEF Worked, fr
  <2>5. Enforcing(s, e) \in BOOLEAN
    BY <2>1 DEF Enforcing
  <2>6. next.ok = r.ok /\ next.db = r.db /\ next.enforced = Enforcing(s, e)
    OBVIOUS
  <2> HIDE DEF r, next
  <2>7. r.ok => r.db.fts = FtsAfter(fr, s)
    BY <2>4, FrameParts DEF After
  <2>8. Sane(next) /\ (next.ok => next.db.fts = FtsAfter(fr, s))
    BY <2>4, <2>5, <2>6, <2>7 DEF Sane
  <2> QED BY <1>2, <2>2, <2>8 DEF fr, db
<1> QED BY <1>1, <1>2

\* It supplies what it makes, and takes away what it drops.
LEMMA StockNext ==
  ASSUME NEW q, NEW n \in Nat, NEW run, Stocked(q, n, run),
         NEW new, new.ok => run.ok /\ new.db.fts = FtsAfter(Frame(run.db), q[n + 1])
  PROVE  Stocked(q, n + 1, new)
<1> SUFFICES ASSUME new.ok, NEW t, Supplied(q, n + 1, t) PROVE t \in new.db.fts
  BY DEF Stocked
<1> DEFINE s == q[n + 1]
           fts == run.db.fts
<1>1. run.ok /\ new.db.fts = FtsAfter(Frame(run.db), s) /\ Frame(run.db).fts = fts
  BY FrameParts
<1>2. PICK j \in 1 .. n + 1 :
        /\ MakesFts(q[j], t)
        /\ \A k \in j + 1 .. n + 1 : ~ (q[k].kind = "DropVirtualTable" /\ q[k].table = t)
  BY DEF Supplied
<1>3. CASE j = n + 1
  <2>1. MakesFts(s, t)
    BY <1>2, <1>3
  <2> HIDE DEF s, fts
  <2>2. t \in FtsAfter(Frame(run.db), s)
    BY <2>1, <1>1 DEF MakesFts, FtsAfter
  <2> QED BY <1>1, <2>2
<1>4. CASE j # n + 1
  <2>1. j \in 1 .. n /\ n + 1 \in j + 1 .. n + 1 /\ \A k \in j + 1 .. n : k \in j + 1 .. n + 1
    BY <1>4
  <2>2. Supplied(q, n, t) /\ ~ (s.kind = "DropVirtualTable" /\ s.table = t)
    BY <1>2, <2>1 DEF Supplied
  <2>3. t \in fts
    BY <1>1, <2>2 DEF Stocked
  <2> HIDE DEF s, fts
  <2>4. t \in FtsAfter(Frame(run.db), s)
    BY <1>1, <2>2, <2>3 DEF FtsAfter
  <2> QED BY <1>1, <2>4
<1> QED BY <1>3, <1>4

\* A script on an empty database.
LEMMA BatchIsSane ==
  ASSUME NEW q, IsScript(q), NEW e \in BOOLEAN
  PROVE  Sane(Batch(Empty, q, e)) /\ Stocked(q, Len(q), Batch(Empty, q, e))
<1> DEFINE base == [ok |-> TRUE, db |-> Empty, enforced |-> e]
           S == ToSet(q)
           n == Len(q)
<1>1. q \in Seq(S)
  BY DEF IsScript
<1> HIDE DEF S
<1>2. n \in Nat /\ DOMAIN q = 1 .. n
  BY <1>1
<1>3. FoldUnrolls(RunNext, base, q)
  BY <1>1, FoldTrace
<1>4. PICK r : /\ r[0] = base /\ \A k \in 1 .. Len(q) : r[k] = RunNext(r[k - 1], q[k])
               /\ FoldLeft(RunNext, base, q) = r[Len(q)]
  BY <1>3 DEF FoldUnrolls
<1>5. Sane(base) /\ Stocked(q, 0, base)
  <2>1. base.ok /\ base.db = Empty /\ base.enforced = e
    OBVIOUS
  <2> HIDE DEF base
  <2>2. \A t : ~ Supplied(q, 0, t)
    BY DEF Supplied
  <2>3. Stocked(q, 0, base)
    BY <2>2 DEF Stocked
  <2> QED BY <2>1, <2>3, EmptyIsFormed DEF Sane
<1> HIDE DEF base, n
<1> DEFINE A == {k \in 0 .. n : Sane(r[k]) /\ Stocked(q, k, r[k])}
<1>6. A \in SUBSET (0 .. n) /\ 0 \in A
  BY <1>2, <1>4, <1>5
<1>7. ASSUME NEW k \in A, k < n PROVE k + 1 \in A
  <2>1. k \in Nat /\ k + 1 \in 1 .. n /\ k + 1 \in 0 .. n /\ (k + 1) - 1 = k
    BY <1>2, <1>7
  <2> DEFINE run == r[k]
             new == r[k + 1]
             s == q[k + 1]
  <2>2. new = RunNext(run, s)
    BY <1>4, <2>1 DEF n
  <2>3. s.kind = "Cut" \/ Written(s)
    BY <1>2, <2>1, ScriptMembers
  <2>4. Sane(run) /\ Stocked(q, k, run)
    BY <1>7
  <2> HIDE DEF run, new, s
  <2>5. Sane(new) /\ (new.ok => run.ok /\ new.db.fts = FtsAfter(Frame(run.db), s))
    BY <2>2, <2>3, <2>4, RunStaysSane
  <2>6. Stocked(q, k + 1, new)
    BY <2>1, <2>4, <2>5, StockNext DEF s
  <2> QED BY <2>1, <2>5, <2>6 DEF new
<1>8. A = 0 .. n
  <2> HIDE DEF A
  <2> QED BY <1>2, <1>6, <1>7, InductUpTo
<1>9. n \in 0 .. n
  BY <1>2
<1>10. Sane(r[n]) /\ Stocked(q, n, r[n])
  BY <1>8, <1>9
<1> QED BY <1>4, <1>10 DEF Batch, base, n

\* The batch of a longer script.
LEMMA BatchGrows ==
  ASSUME NEW S, NEW q \in Seq(S), NEW s \in S, NEW e
  PROVE  Batch(Empty, Append(q, s), e) = RunNext(Batch(Empty, q, e), s)
<1> DEFINE base == [ok |-> TRUE, db |-> Empty, enforced |-> e]
<1>1. FoldLeft(RunNext, base, Append(q, s)) = RunNext(FoldLeft(RunNext, base, q), s)
  <2>1. FoldsOn(RunNext, base, q, s)
    <3> HIDE DEF base
    <3> QED BY FoldGrows
  <2> QED BY <2>1 DEF FoldsOn
<1> QED BY <1>1 DEF Batch

\* The database that the script q makes of an empty one has the frame of db, and
\* its connection the setting on.
Makes(q, db, on) ==
  LET run == Batch(Empty, q, FkAtOpen)
  IN  run.ok /\ Frame(run.db) = Frame(db) /\ run.enforced = on

\* A statement that runs on db keeps the two together.
LEMMA MakesNext ==
  ASSUME NEW q, IsScript(q), NEW db, Formed(db), NEW e \in BOOLEAN, Makes(q, db, e),
         NEW s, Written(s), Execute(db, s, e).ok
  PROVE  Makes(Append(q, s), Execute(db, s, e).db, Enforcing(s, e))
<1> DEFINE run == Batch(Empty, q, FkAtOpen)
           S == ToSet(q) \cup {s}
           bare == run.db
           r == Execute(bare, s, e)
           long == Batch(Empty, Append(q, s), FkAtOpen)
<1>1. Sane(run) /\ run.ok /\ Frame(run.db) = Frame(db) /\ run.enforced = e
  BY BatchIsSane, MigrationAssumption DEF Makes
<1>2. q \in Seq(S) /\ s \in S
  <2> DEFINE T == ToSet(q)
  <2>1. q \in Seq(T)
    BY DEF IsScript
  <2> HIDE DEF T
  <2>2. q \in Seq(T \cup {s})
    BY <2>1
  <2> QED BY <2>2 DEF T
<1>3. long = RunNext(run, s)
  <2> HIDE DEF S
  <2> QED BY <1>2, BatchGrows
<1>4. Formed(bare) /\ Bare(bare) /\ Frame(bare) = Frame(db)
  BY <1>1 DEF Sane
<1>5. long.ok = r.ok /\ long.db = r.db /\ long.enforced = Enforcing(s, e)
  <2>1. RunNext(run, s) = [ok |-> r.ok, db |-> r.db, enforced |-> Enforcing(s, e)]
    BY <1>1 DEF RunNext
  <2> HIDE DEF run, r, bare, long
  <2> QED BY <1>3, <2>1
<1> HIDE DEF bare, run, long
<1>6. Runs(Frame(db), s, e) /\ Frame(Execute(db, s, e).db) = After(Frame(db), s)
  BY WrittenWorks DEF Worked
<1>7. r.ok
  BY <1>4, <1>6, WrittenWorks DEF Worked
<1>8. Frame(r.db) = After(Frame(db), s)
  BY <1>4, <1>7, WrittenWorks DEF Worked
<1>9. long.ok /\ Frame(long.db) = Frame(Execute(db, s, e).db)
  BY <1>5, <1>6, <1>7, <1>8
<1> QED BY <1>5, <1>9 DEF Makes, long

(***************************************************************************)
(* The files of the migrations directory, end to end.                      *)
(***************************************************************************)
Files(n, fs) == [i \in 1 .. n + 1 |-> IF i - 1 \in DOMAIN fs THEN fs[i - 1] ELSE <<>>]

\* The files are sequences.
LEMMA FilesListed ==
  ASSUME NEW n \in Nat, NEW fs, \A i \in DOMAIN fs : IsScript(fs[i])
  PROVE  /\ Listed(Files(n, fs)) /\ DOMAIN Files(n, fs) = 1 .. n + 1
         /\ \A i \in 1 .. n + 1 : IsScript(Files(n, fs)[i]) /\ Listed(Files(n, fs)[i])
<1> DEFINE p == Files(n, fs)
<1>1. /\ DOMAIN p = 1 .. n + 1 /\ p = [i \in 1 .. n + 1 |-> p[i]]
      /\ \A i \in 1 .. n + 1 : p[i] = IF i - 1 \in DOMAIN fs THEN fs[i - 1] ELSE <<>>
  BY DEF Files
<1> HIDE DEF p
<1>2. n + 1 \in Nat
  OBVIOUS
<1>3. Listed(p)
  BY <1>1, <1>2, FunctionListed
<1>4. \A i \in 1 .. n + 1 : IsScript(p[i])
  BY <1>1, EmptyScript
<1>5. \A i \in 1 .. n + 1 : Listed(p[i])
  BY <1>4 DEF IsScript, Listed
<1> QED BY <1>1, <1>3, <1>4, <1>5 DEF p

\* All files together are a script.
LEMMA FilesAreScript ==
  ASSUME NEW n \in Nat, NEW fs, \A i \in DOMAIN fs : IsScript(fs[i])
  PROVE  IsScript(FlattenSeq(Files(n, fs)))
<1> DEFINE p == Files(n, fs)
           q == FlattenSeq(p)
<1>1. /\ Listed(p) /\ DOMAIN p = 1 .. n + 1
      /\ \A i \in DOMAIN p : IsScript(p[i]) /\ Listed(p[i])
  BY FilesListed
<1> HIDE DEF p
<1>2. Listed(q) /\ \A k \in DOMAIN q : \E i \in DOMAIN p : \E j \in DOMAIN p[i] : q[k] = p[i][j]
  BY <1>1, FlatListed
<1> HIDE DEF q
<1>3. \A k \in DOMAIN q : q[k].kind = "Cut" \/ \E v \in Schema : Writes(Lowered[v], q[k])
  BY <1>1, <1>2 DEF IsScript
<1>4. IsScript(q)
  BY <1>2, <1>3 DEF IsScript, Listed
<1> QED BY <1>4 DEF p, q

\* The script of the last second ends the history; without it there is nothing.
LEMMA LastFile ==
  ASSUME NEW n \in Nat, NEW fs, \A i \in DOMAIN fs : IsScript(fs[i]), DOMAIN fs \subseteq 0 .. n
  PROVE  /\ FlattenSeq(Files(n + 1, fs)) = FlattenSeq(Files(n, fs))
         /\ n \notin DOMAIN fs =>
              \A q : IsScript(q) =>
                FlattenSeq(Files(n, Over(Only(n, q), fs))) = FlattenSeq(Files(n, fs)) \o q
<1>1. ASSUME NEW p, Listed(p), \A i \in DOMAIN p : Listed(p[i]), NEW q, Listed(q)
      PROVE  /\ FlattenSeq(Append(p, q)) = FlattenSeq(p) \o q
             /\ FlattenSeq(Append(p, <<>>)) = FlattenSeq(p)
  <2> DEFINE S == AllOf(p)
             T == ToSet(q)
             U == S \cup T
  <2>1. p \in Seq(Seq(S)) /\ q \in Seq(T)
    BY <1>1, AllSequences DEF Listed
  <2> HIDE DEF S, T
  <2>2. p \in Seq(Seq(U)) /\ q \in Seq(U) /\ <<>> \in Seq(U)
    <3> DEFINE SS == Seq(S)
               UU == Seq(U)
    <3>1. SS \subseteq UU /\ p \in Seq(SS)
      BY <2>1
    <3> HIDE DEF SS, UU
    <3>2. p \in Seq(UU)
      BY <3>1
    <3> QED BY <2>1, <3>2 DEF UU
  <2> HIDE DEF U
  <2>3. FlattenSeq(Append(p, q)) = FlattenSeq(p) \o q
    BY <2>2, FlatGrows
  <2>4. FlattenSeq(Append(p, <<>>)) = FlattenSeq(p) \o <<>> /\ FlattenSeq(p) \in Seq(U)
    BY <2>2, FlatGrows
  <2> DEFINE f == FlattenSeq(p)
  <2>5. f \in Seq(U)
    BY <2>4
  <2> HIDE DEF f
  <2>6. f \o <<>> = f
    BY <2>5
  <2> QED BY <2>3, <2>4, <2>6 DEF f
<1>2. /\ Listed(Files(n, fs)) /\ DOMAIN Files(n, fs) = 1 .. n + 1
      /\ \A i \in DOMAIN Files(n, fs) : Listed(Files(n, fs)[i])
  BY FilesListed
<1>3. ASSUME NEW m \in Nat, NEW p, Listed(p), DOMAIN p = 1 .. m, NEW x
      PROVE  Append(p, x) = [i \in 1 .. m + 1 |-> IF i = m + 1 THEN x ELSE p[i]]
  <2> DEFINE T == ToSet(p)
             S == T \cup {x}
  <2>1. p \in Seq(T)
    BY <1>3 DEF Listed
  <2> HIDE DEF T
  <2>2. Len(p) = m /\ p \in Seq(S) /\ x \in S
    BY <1>3, <2>1
  <2> HIDE DEF S
  <2>3. /\ Append(p, x) = [i \in 1 .. m + 1 |-> Append(p, x)[i]]
        /\ \A i \in 1 .. m + 1 : Append(p, x)[i] = IF i = m + 1 THEN x ELSE p[i]
    <3> DEFINE w == Append(p, x)
    <3>1. w \in Seq(S) /\ Len(w) = m + 1 /\ w[m + 1] = x /\ \A i \in 1 .. m : w[i] = p[i]
      BY <2>2
    <3> HIDE DEF w
    <3>2. w = [i \in 1 .. m + 1 |-> w[i]]
      BY <3>1
    <3>3. \A i \in 1 .. m + 1 : i # m + 1 => i \in 1 .. m
      OBVIOUS
    <3> QED BY <3>1, <3>2, <3>3 DEF w
  <2> QED BY <2>3
<1>4. FlattenSeq(Files(n + 1, fs)) = FlattenSeq(Files(n, fs))
  <2> DEFINE p == Files(n, fs)
  <2>1. Append(p, <<>>) = [i \in 1 .. (n + 1) + 1 |-> IF i = (n + 1) + 1 THEN <<>> ELSE p[i]]
    BY <1>2, <1>3
  <2>2. \A i \in 1 .. (n + 1) + 1 :
          (IF i - 1 \in DOMAIN fs THEN fs[i - 1] ELSE <<>>)
            = IF i = (n + 1) + 1 THEN <<>> ELSE p[i]
    <3> SUFFICES ASSUME NEW i \in 1 .. (n + 1) + 1
                 PROVE  (IF i - 1 \in DOMAIN fs THEN fs[i - 1] ELSE <<>>)
                          = IF i = (n + 1) + 1 THEN <<>> ELSE p[i]
      OBVIOUS
    <3>1. CASE i = (n + 1) + 1
      <4>1. i - 1 \notin DOMAIN fs
        BY <3>1
      <4> QED BY <3>1, <4>1
    <3>2. CASE i # (n + 1) + 1
      <4>1. i \in 1 .. n + 1
        BY <3>2
      <4> QED BY <3>2, <4>1 DEF Files
    <3> QED BY <3>1, <3>2
  <2>3. Files(n + 1, fs) = Append(p, <<>>)
    <3> HIDE DEF p
    <3> QED BY <2>1, <2>2 DEF Files
  <2>4. FlattenSeq(Append(p, <<>>)) = FlattenSeq(p)
    <3> HIDE DEF p
    <3> QED BY <1>1, <1>2, EmptyScript DEF p
  <2> QED BY <2>3, <2>4
<1>5. ASSUME n \notin DOMAIN fs, NEW q, IsScript(q)
      PROVE  FlattenSeq(Files(n, Over(Only(n, q), fs))) = FlattenSeq(Files(n, fs)) \o q
  <2> DEFINE front == [i \in 1 .. n |-> IF i - 1 \in DOMAIN fs THEN fs[i - 1] ELSE <<>>]
             gs == Over(Only(n, q), fs)
  <2>1. DOMAIN front = 1 .. n /\ \A i \in 1 .. n : IsScript(front[i]) /\ Listed(front[i])
    <3>1. \A i \in 1 .. n : IsScript(front[i])
      BY EmptyScript
    <3> HIDE DEF front
    <3>2. \A i \in 1 .. n : Listed(front[i])
      BY <3>1 DEF IsScript, Listed
    <3> QED BY <3>1, <3>2 DEF front
  <2>2. Listed(front)
    <3>1. front = [i \in 1 .. n |-> front[i]]
      OBVIOUS
    <3> HIDE DEF front
    <3> QED BY <2>1, <3>1, FunctionListed
  <2>3. /\ DOMAIN gs = {n} \cup DOMAIN fs /\ gs[n] = q
        /\ \A k \in DOMAIN fs : gs[k] = IF k = n THEN q ELSE fs[k]
    BY DEF Over, Only
  <2> HIDE DEF gs
  <2>4. Files(n, fs) = Append(front, <<>>)
    <3>1. Append(front, <<>>) = [i \in 1 .. n + 1 |-> IF i = n + 1 THEN <<>> ELSE front[i]]
      <4> HIDE DEF front
      <4> QED BY <1>3, <2>1, <2>2
    <3>2. \A i \in 1 .. n + 1 : (IF i - 1 \in DOMAIN fs THEN fs[i - 1] ELSE <<>>)
                                  = IF i = n + 1 THEN <<>> ELSE front[i]
      <4> SUFFICES ASSUME NEW i \in 1 .. n + 1
                   PROVE  (IF i - 1 \in DOMAIN fs THEN fs[i - 1] ELSE <<>>)
                            = IF i = n + 1 THEN <<>> ELSE front[i]
        OBVIOUS
      <4>1. CASE i = n + 1
        BY <1>5, <4>1
      <4>2. CASE i # n + 1
        <5>1. i \in 1 .. n
          BY <4>2
        <5> QED BY <4>2, <5>1
      <4> QED BY <4>1, <4>2
    <3> HIDE DEF front
    <3> QED BY <3>1, <3>2 DEF Files
  <2>5. Files(n, gs) = Append(front, q)
    <3>1. Append(front, q) = [i \in 1 .. n + 1 |-> IF i = n + 1 THEN q ELSE front[i]]
      <4> HIDE DEF front
      <4> QED BY <1>3, <2>1, <2>2
    <3>2. \A i \in 1 .. n + 1 : (IF i - 1 \in DOMAIN gs THEN gs[i - 1] ELSE <<>>)
                                  = IF i = n + 1 THEN q ELSE front[i]
      <4> SUFFICES ASSUME NEW i \in 1 .. n + 1
                   PROVE  (IF i - 1 \in DOMAIN gs THEN gs[i - 1] ELSE <<>>)
                            = IF i = n + 1 THEN q ELSE front[i]
        OBVIOUS
      <4>1. CASE i = n + 1
        <5>1. i - 1 = n
          BY <4>1
        <5> QED BY <2>3, <4>1, <5>1
      <4>2. CASE i # n + 1
        <5>1. i \in 1 .. n /\ i - 1 # n
          BY <4>2
        <5> QED BY <2>3, <4>2, <5>1
      <4> QED BY <4>1, <4>2
    <3> HIDE DEF front
    <3> QED BY <3>1, <3>2 DEF Files
  <2> HIDE DEF front
  <2>6. Listed(q) /\ \A i \in DOMAIN front : Listed(front[i])
    BY <1>5, <2>1 DEF IsScript, Listed
  <2>7. FlattenSeq(Append(front, q)) = FlattenSeq(front) \o q
        /\ FlattenSeq(Append(front, <<>>)) = FlattenSeq(front)
    BY <1>1, <2>2, <2>6
  <2> QED BY <2>4, <2>5, <2>7 DEF gs
<1> QED BY <1>4, <1>5

\* A database of that frame has the shape of the schema.
LEMMA ServedHasShape ==
  ASSUME Served(Frame(live), Desired)
  PROVE  Shape(live) = DesiredShape
<1> DEFINE d == Desired
           fr == Frame(live)
<1>1. /\ DOMAIN fr.table = DOMAIN live.table /\ fr.index = live.index /\ fr.trigger = live.trigger
      /\ \A t \in DOMAIN live.table :
           /\ fr.table[t].columns = live.table[t].columns
           /\ fr.table[t].foreignKeys = live.table[t].foreignKeys
  BY FrameParts
<1>2. /\ TablesCome(<<>>, fr, d) /\ ColumnsCome(<<>>, fr, d)
      /\ IndexesCome(<<>>, fr, d) /\ IndexesGo(<<>>, fr, d)
      /\ TriggersCome(<<>>, fr, d) /\ TriggersGo(<<>>, fr, d)
  BY DEF Served
<1> DEFINE none == <<>>
<1>3. DOMAIN none = {}
  OBVIOUS
<1> DEFINE tables == [t \in DOMAIN live.table |->
                       [columns |-> LiveColumns(live, t), foreignKeys |-> LiveForeignKeys(live, t)]]
           wanted == [t \in DOMAIN d |->
                       [columns |-> [c \in DOMAIN d[t].columns |-> Plain(d[t].columns[c].affinity)],
                        foreignKeys |-> {[fk EXCEPT !.onDelete = IF @ = "no action" THEN "-" ELSE @] :
                                           fk \in d[t].foreignKeys}]]
           indexes == {<<i.table, i.columns, i.unique>> : i \in live.index}
           wantedIndexes == UNION {{<<t, i.columns, i.unique>> : i \in d[t].indexes} : t \in DOMAIN d}
           triggers == {<<g.table, g.name>> : g \in live.trigger}
           wantedTriggers == UNION {{<<t, g.name>> : g \in d[t].triggers} : t \in DOMAIN d}
<1>4. /\ Shape(live) = [tables |-> tables, indexes |-> indexes, triggers |-> triggers]
      /\ DesiredShape = [tables |-> wanted, indexes |-> wantedIndexes, triggers |-> wantedTriggers]
  BY DEF Shape, DesiredShape
<1> HIDE DEF d, fr, none
<1>5. DOMAIN d = DOMAIN live.table
  BY <1>1, <1>2, <1>3 DEF TablesCome, none
<1>6. ASSUME NEW t \in DOMAIN d
      PROVE  /\ LiveColumns(live, t) = [c \in DOMAIN d[t].columns |-> Plain(d[t].columns[c].affinity)]
             /\ LiveForeignKeys(live, t) = Declared(d[t].foreignKeys)
  <2>1. t \in DOMAIN d \cap DOMAIN fr.table
    BY <1>1, <1>5
  <2>2. /\ Declared(fr.table[t].foreignKeys) = Declared(d[t].foreignKeys)
        /\ DOMAIN fr.table[t].columns \subseteq DOMAIN d[t].columns
        /\ \A c \in DOMAIN d[t].columns :
             c \in DOMAIN fr.table[t].columns
             /\ fr.table[t].columns[c].affinity = d[t].columns[c].affinity
    BY <1>2, <1>3, <2>1 DEF ColumnsCome, none
  <2>3. /\ DOMAIN live.table[t].columns = DOMAIN d[t].columns
        /\ \A c \in DOMAIN d[t].columns :
             live.table[t].columns[c].affinity = d[t].columns[c].affinity
    BY <1>1, <1>5, <2>2
  <2>4. LiveColumns(live, t) = [c \in DOMAIN d[t].columns |-> Plain(d[t].columns[c].affinity)]
    BY <2>3 DEF LiveColumns
  <2>5. LiveForeignKeys(live, t) = Declared(live.table[t].foreignKeys)
    BY DEF LiveForeignKeys, Declared
  <2> QED BY <1>1, <1>5, <2>2, <2>4, <2>5
<1>7. tables = wanted
  <2>1. wanted = [t \in DOMAIN d |->
                   [columns |-> [c \in DOMAIN d[t].columns |-> Plain(d[t].columns[c].affinity)],
                    foreignKeys |-> Declared(d[t].foreignKeys)]]
    BY DEF Declared
  <2>2. tables = [t \in DOMAIN d |->
                   [columns |-> LiveColumns(live, t), foreignKeys |-> LiveForeignKeys(live, t)]]
    BY <1>5
  <2>3. \A t \in DOMAIN d :
          [columns |-> LiveColumns(live, t), foreignKeys |-> LiveForeignKeys(live, t)]
            = [columns |-> [c \in DOMAIN d[t].columns |-> Plain(d[t].columns[c].affinity)],
               foreignKeys |-> Declared(d[t].foreignKeys)]
    BY <1>6
  <2> HIDE DEF tables, wanted
  <2> QED BY <2>1, <2>2, <2>3
<1>8. indexes = wantedIndexes
  <2>1. ASSUME NEW x \in live.index
        PROVE  x.table \in DOMAIN d /\ \E k \in d[x.table].indexes :
                 <<x.table, x.columns, x.unique>> = <<x.table, k.columns, k.unique>>
    <3>1. x.table \in DOMAIN d /\ \E k \in d[x.table].indexes : x = Made(x.table, k)
      BY <1>1, <1>2, <1>3 DEF IndexesGo, none
    <3>2. PICK k \in d[x.table].indexes : x = Made(x.table, k)
      BY <3>1
    <3>3. x.columns = k.columns /\ x.unique = k.unique
      BY <3>2, MadeParts
    <3> QED BY <3>1, <3>3
  <2>2. ASSUME NEW t \in DOMAIN d, NEW k \in d[t].indexes
        PROVE  \E x \in live.index : <<t, k.columns, k.unique>> = <<x.table, x.columns, x.unique>>
    <3>1. Made(t, k) \in live.index
      BY <1>1, <1>2, <1>3 DEF IndexesCome, none
    <3> QED BY <3>1, MadeParts
  <2>3. indexes \subseteq wantedIndexes
    <3> SUFFICES ASSUME NEW x \in live.index PROVE <<x.table, x.columns, x.unique>> \in wantedIndexes
      OBVIOUS
    <3> QED BY <2>1
  <2>4. wantedIndexes \subseteq indexes
    <3> SUFFICES ASSUME NEW t \in DOMAIN d, NEW k \in d[t].indexes
                 PROVE  <<t, k.columns, k.unique>> \in indexes
      OBVIOUS
    <3> QED BY <2>2
  <2> QED BY <2>3, <2>4
<1>9. triggers = wantedTriggers
  <2>1. ASSUME NEW g \in live.trigger
        PROVE  g.table \in DOMAIN d /\ \E k \in d[g.table].triggers : k.name = g.name
    BY <1>1, <1>2, <1>3 DEF TriggersGo, none
  <2>2. ASSUME NEW t \in DOMAIN d, NEW k \in d[t].triggers
        PROVE  \E g \in live.trigger : g.table = t /\ g.name = k.name
    BY <1>1, <1>2, <1>3 DEF TriggersCome, none
  <2>3. triggers \subseteq wantedTriggers
    <3> SUFFICES ASSUME NEW g \in live.trigger PROVE <<g.table, g.name>> \in wantedTriggers
      OBVIOUS
    <3> QED BY <2>1
  <2>4. wantedTriggers \subseteq triggers
    <3> SUFFICES ASSUME NEW t \in DOMAIN d, NEW k \in d[t].triggers
                 PROVE  <<t, k.name>> \in triggers
      OBVIOUS
    <3> QED BY <2>2
  <2> QED BY <2>3, <2>4
<1> QED BY <1>4, <1>7, <1>8, <1>9

(***************************************************************************)
(* The API stores a row.                                                   *)
(***************************************************************************)
\* new is db with the row `row` under the identity r in the table t.
Inserted(db, t, r, row, new) ==
  /\ Whole(new)
  /\ DOMAIN new.table = DOMAIN db.table
  /\ WholeTable(new.table[t])
  /\ new.table[t].columns = db.table[t].columns
  /\ new.table[t].foreignKeys = db.table[t].foreignKeys
  /\ DOMAIN new.table[t].rows = {r} \cup DOMAIN db.table[t].rows
  /\ new.table[t].rows[r] = row
  /\ \A x \in DOMAIN db.table[t].rows \ {r} : new.table[t].rows[x] = db.table[t].rows[x]
  /\ \A u \in DOMAIN db.table \ {t} : new.table[u] = db.table[u]
  /\ new.index = db.index /\ new.trigger = db.trigger /\ new.fts = db.fts

\* What storing a row makes of the database.
LEMMA RowInserted ==
  ASSUME NEW db, Formed(db), NEW t \in DOMAIN db.table, NEW r, NEW row
  PROVE  Inserted(db, t, r, row, [db EXCEPT !.table[t].rows = Over(Only(r, row), @)])
<1> DEFINE def == db.table[t]
           R == Over(Only(r, row), def.rows)
           new == [db EXCEPT !.table[t].rows = R]
<1>1. Whole(db) /\ WholeTable(def)
  BY DEF Formed, FormedTable, Whole, WholeTable
<1>2. new = [table |-> [db.table EXCEPT ![t] = [columns |-> def.columns,
                                                foreignKeys |-> def.foreignKeys, rows |-> R]],
             index |-> db.index, trigger |-> db.trigger, fts |-> db.fts]
  <2> DEFINE a == db.table
             b == db.index
             g == db.trigger
             f == db.fts
             x == [def EXCEPT !.rows = R]
             T == [a EXCEPT ![t] = x]
  <2>1. x = [columns |-> def.columns, foreignKeys |-> def.foreignKeys, rows |-> R]
    BY <1>1, RowsReplaced
  <2>2. db = [table |-> a, index |-> b, trigger |-> g, fts |-> f]
    BY <1>1 DEF Whole
  <2>3. new = [db EXCEPT !.table = T]
    OBVIOUS
  <2> HIDE DEF x, T, new, a, b, g, f
  <2>4. new = [table |-> T, index |-> b, trigger |-> g, fts |-> f]
    BY <2>2, <2>3
  <2> QED BY <2>1, <2>4 DEF T, a, b, g, f
<1>3. /\ DOMAIN R = {r} \cup DOMAIN def.rows /\ R[r] = row
      /\ \A x \in DOMAIN def.rows \ {r} : R[x] = def.rows[x]
  <2> DEFINE g == def.rows
  <2> HIDE DEF g
  <2>1. /\ DOMAIN Over(Only(r, row), g) = {r} \cup DOMAIN g /\ Over(Only(r, row), g)[r] = row
        /\ \A x \in DOMAIN g \ {r} : Over(Only(r, row), g)[x] = g[x]
    BY DEF Over, Only
  <2> QED BY <2>1 DEF g
<1>4. new = [db EXCEPT !.table[t].rows = Over(Only(r, row), @)]
  OBVIOUS
<1> HIDE DEF R, new
<1>5. Inserted(db, t, r, row, new)
  BY <1>2, <1>3 DEF Inserted, Whole, WholeTable
<1> QED BY <1>4, <1>5

\* A stored row.
LEMMA StoreFacts ==
  ASSUME Formed(live), NEW t, NEW r, Store(t, r)
  PROVE  /\ t \in DOMAIN live.table /\ r \notin DOMAIN live.table[t].rows
         /\ \E parent \in Parents(live, t) : \E value \in {r, Shared} :
              Inserted(live, t, r, NewRow(live, t, r, parent, value), live')
         /\ Formed(live') /\ Frame(live') = Frame(live)
<1>1. t \in DOMAIN live.table /\ r \notin DOMAIN live.table[t].rows
  BY DEF Store
<1>2. PICK parent \in Parents(live, t), value \in {r, Shared} :
        live' = [live EXCEPT !.table[t].rows = Over(Only(r, NewRow(live, t, r, parent, value)), @)]
  BY DEF Store
<1> DEFINE row == NewRow(live, t, r, parent, value)
<1>3. Inserted(live, t, r, row, live')
  <2> HIDE DEF row
  <2> QED BY <1>1, <1>2, RowInserted DEF row
<1>4. DOMAIN row = DOMAIN live.table[t].columns
  BY DEF NewRow
<1> HIDE DEF row
<1>5. Formed(live')
  <2>1. ASSUME NEW u \in DOMAIN live'.table PROVE FormedTable(live'.table[u])
    <3>1. CASE u = t
      <4>1. FormedTable(live.table[t])
        BY <1>1 DEF Formed
      <4>2. \A x \in DOMAIN live'.table[t].rows :
              DOMAIN live'.table[t].rows[x] = DOMAIN live.table[t].columns
        <5>1. \A x \in DOMAIN live.table[t].rows :
                DOMAIN live.table[t].rows[x] = DOMAIN live.table[t].columns
          BY <4>1 DEF FormedTable
        <5> QED BY <1>3, <1>4, <5>1 DEF Inserted
      <4>3. /\ live'.table[t].columns = live.table[t].columns
            /\ live'.table[t].foreignKeys = live.table[t].foreignKeys
            /\ WholeTable(live'.table[t])
        BY <1>3 DEF Inserted
      <4> QED BY <3>1, <4>1, <4>2, <4>3 DEF FormedTable, WholeTable
    <3>2. CASE u # t
      <4>1. u \in DOMAIN live.table /\ live'.table[u] = live.table[u]
        BY <1>3, <3>2 DEF Inserted
      <4> QED BY <4>1 DEF Formed
    <3> QED BY <3>1, <3>2
  <2> QED BY <1>3, <2>1 DEF Formed, Inserted, Whole
<1>6. Frame(live') = Frame(live)
  <2>1. \A u \in DOMAIN live.table :
          /\ live'.table[u].columns = live.table[u].columns
          /\ live'.table[u].foreignKeys = live.table[u].foreignKeys
    BY <1>3 DEF Inserted
  <2>2. /\ DOMAIN live'.table = DOMAIN live.table /\ live'.index = live.index
        /\ live'.trigger = live.trigger /\ live'.fts = live.fts
    BY <1>3 DEF Inserted
  <2> QED BY <2>1, <2>2 DEF Frame
<1> QED BY <1>1, <1>3, <1>5, <1>6 DEF row

(***************************************************************************)
(* What a command starts with.                                             *)
(***************************************************************************)
\* The schema of the moment is lowered soundly, and what is written for it is a script.
LEMMA DesiredFacts ==
  ASSUME schema \in Schema
  PROVE  /\ Sound(Desired)
         /\ \A q : Listed(q) /\ (\A i \in DOMAIN q : Writes(Desired, q[i])) => IsScript(q)
<1>1. Sound(Desired)
  BY LoweredIsSound DEF Desired
<1>2. ASSUME NEW q, Listed(q), \A i \in DOMAIN q : Writes(Desired, q[i])
      PROVE  IsScript(q)
  BY <1>2 DEF IsScript, Listed, Desired
<1> QED BY <1>1, <1>2

\* The script of a push or a migrate for the schema of the moment.
Prepared(q, db) ==
  /\ IsScript(q) /\ \A i \in DOMAIN q : Writes(Desired, q[i])
  /\ Paired(q) /\ Sheltered(q, TRUE) /\ DropsLast(q)
  /\ SuitsFrame(q, db, Desired)

\* A script written against the database db.
LEMMA ScriptIsPrepared ==
  ASSUME schema \in Schema, NEW db, Formed(db), NEW ops \in ComputeDiff(Desired, LiveSchema(db))
  PROVE  Prepared(Script(ops), db)
<1> DEFINE q == Script(ops)
           d == Desired
<1>1. Sound(d)
  BY DesiredFacts
<1>2. Good(d, db, q) /\ DropsLast(q) /\ SuitsFrame(q, db, d)
  <2> HIDE DEF d
  <2> QED BY <1>1, DiffScript DEF d
<1> HIDE DEF q
<1>3. Listed(q) /\ \A i \in DOMAIN q : Writes(Desired, q[i])
  BY <1>2 DEF Good, Fits
<1>4. IsScript(q)
  BY <1>3, DesiredFacts
<1>5. Prepared(q, db)
  BY <1>2, <1>3, <1>4 DEF Good, Prepared
<1> QED BY <1>5 DEF q

\* The database the files replay to.
LEMMA ShadowIsFormed ==
  ASSUME now \in Nat, \A n \in DOMAIN files : IsScript(files[n]), Replay(files).ok
  PROVE  Formed(Replay(files).db) /\ Known(Frame(Replay(files).db))
<1>1. InOrder(files) = Files(now, files)
  BY DEF InOrder, Files
<1>2. IsScript(FlattenSeq(InOrder(files)))
  BY <1>1, FilesAreScript
<1>3. Sane(Replay(files))
  <2> DEFINE q == FlattenSeq(InOrder(files))
  <2> HIDE DEF q
  <2>1. Sane(Batch(Empty, q, FkAtOpen))
    BY <1>2, BatchIsSane, MigrationAssumption DEF q
  <2> QED BY <2>1 DEF q, Replay
<1> QED BY <1>3 DEF Sane

\* Parts of a script are scripts.
LEMMA PartsOfScripts ==
  ASSUME NEW q, IsScript(q)
  PROVE  /\ q # <<>> => IsScript(Tail(q))
         /\ \A n \in 0 .. Len(q) : IsScript(SubSeq(q, 1, n))
<1> DEFINE S == ToSet(q)
<1>1. q \in Seq(S)
  BY DEF IsScript
<1> HIDE DEF S
<1>2. Len(q) \in Nat /\ DOMAIN q = 1 .. Len(q)
  BY <1>1
<1>3. ASSUME q # <<>> PROVE IsScript(Tail(q))
  <2> DEFINE p == Tail(q)
  <2>1. /\ p \in Seq(S) /\ DOMAIN p = 1 .. Len(q) - 1
        /\ \A i \in 1 .. Len(q) - 1 : p[i] = q[i + 1] /\ i + 1 \in DOMAIN q
    <3>1. Len(q) # 0
      BY <1>1, <1>3
    <3>2. p \in Seq(S) /\ Len(p) = Len(q) - 1
      BY <1>1, <1>3
    <3>3. \A i \in 1 .. Len(q) - 1 : p[i] = q[i + 1]
      BY <1>1, <1>2, <1>3
    <3> QED BY <1>2, <3>1, <3>2, <3>3
  <2> HIDE DEF p
  <2>2. Listed(p)
    BY <2>1, SeqListed
  <2>3. IsScript(p)
    BY <2>1, <2>2 DEF IsScript, Listed
  <2> QED BY <2>3 DEF p
<1>4. ASSUME NEW n \in 0 .. Len(q) PROVE IsScript(SubSeq(q, 1, n))
  <2> DEFINE p == SubSeq(q, 1, n)
  <2>1. p \in Seq(S) /\ DOMAIN p = 1 .. n /\ \A i \in 1 .. n : p[i] = q[i] /\ i \in DOMAIN q
    BY <1>1, <1>2
  <2> HIDE DEF p
  <2>2. Listed(p)
    BY <2>1, SeqListed
  <2>3. IsScript(p)
    BY <2>1, <2>2 DEF IsScript, Listed
  <2> QED BY <2>3 DEF p
<1> QED BY <1>3, <1>4

\* What breaks off within a statement is a script too, but not uncut.
LEMMA CutIsScript ==
  ASSUME NEW q, IsScript(q)
  PROVE  IsScript(Append(q, Cut)) /\ ~ Uncut(Append(q, Cut))
<1> DEFINE S == ToSet(q)
           T == S \cup {Cut}
           a == Append(q, Cut)
           m == Len(q)
<1>1. q \in Seq(S)
  BY DEF IsScript
<1> HIDE DEF S
<1>2. q \in Seq(T) /\ Cut \in T
  BY <1>1
<1> HIDE DEF T
<1>3. /\ a \in Seq(T) /\ m \in Nat /\ DOMAIN a = 1 .. m + 1 /\ DOMAIN q = 1 .. m
      /\ a[m + 1] = Cut /\ \A i \in 1 .. m : a[i] = q[i]
  BY <1>2
<1>4. \A i \in 1 .. m + 1 : i = m + 1 \/ i \in 1 .. m
  BY <1>3
<1>5. m + 1 \in 1 .. m + 1
  BY <1>3
<1> HIDE DEF a, m
<1>6. Listed(a)
  BY <1>3, SeqListed
<1>7. Cut.kind = "Cut"
  BY DEF Cut, Op
<1>8. \A i \in DOMAIN a : a[i].kind = "Cut" \/ \E s \in Schema : Writes(Lowered[s], a[i])
  BY <1>3, <1>4, <1>7 DEF IsScript
<1>9. IsScript(a)
  BY <1>6, <1>8 DEF IsScript, Listed
<1>10. ~ Uncut(a)
  BY <1>3, <1>5, <1>7 DEF Uncut
<1> QED BY <1>9, <1>10 DEF a

(***************************************************************************)
(* A script that will run lengthens one that did.                          *)
(***************************************************************************)
\* What is left of p after its first n statements.
Left(p, n) == [i \in 1 .. Len(p) - n |-> p[n + i]]

\* The first members of a sequence.
LEMMA PrefixFacts ==
  ASSUME NEW S, NEW p \in Seq(S), NEW n \in 0 .. Len(p)
  PROVE  /\ SubSeq(p, 1, n) \in Seq(S) /\ Len(SubSeq(p, 1, n)) = n
         /\ \A i \in 1 .. n : SubSeq(p, 1, n)[i] = p[i]
OBVIOUS

\* Statement by statement, there is one less.
LEMMA LeftFacts ==
  ASSUME NEW p, Listed(p)
  PROVE  /\ Len(p) \in Nat /\ DOMAIN p = 1 .. Len(p) /\ Left(p, 0) = p
         /\ \A n \in 0 .. Len(p) :
              \A i \in DOMAIN Left(p, n) : n + i \in DOMAIN p /\ Left(p, n)[i] = p[n + i]
         /\ \A n \in 0 .. Len(p) : n # Len(p) =>
              /\ n + 1 \in DOMAIN p /\ Left(p, n)[1] = p[n + 1]
              /\ Rest(Left(p, n), Left(p, n + 1))
<1> DEFINE m == Len(p)
           T == ToSet(p)
<1>1. p \in Seq(T)
  BY DEF Listed
<1> HIDE DEF T
<1>2. m \in Nat /\ DOMAIN p = 1 .. m /\ p = [i \in 1 .. m |-> p[i]]
  BY <1>1
<1>3. \A n : DOMAIN Left(p, n) = 1 .. m - n /\ \A i \in 1 .. m - n : Left(p, n)[i] = p[n + i]
  BY DEF Left
<1>4. Left(p, 0) = p
  <2>1. Left(p, 0) = [i \in 1 .. m - 0 |-> p[0 + i]]
    BY DEF Left
  <2> HIDE DEF m
  <2>2. 1 .. m - 0 = 1 .. m /\ \A i \in 1 .. m : 0 + i = i
    BY <1>2
  <2>3. [i \in 1 .. m - 0 |-> p[0 + i]] = [i \in 1 .. m |-> p[i]]
    BY <2>2
  <2> QED BY <1>2, <2>1, <2>3
<1> HIDE DEF m
<1>5. ASSUME NEW n \in 0 .. m, NEW i \in 1 .. m - n PROVE n + i \in 1 .. m
  BY <1>2
<1>6. ASSUME NEW n \in 0 .. m, n # m
      PROVE  /\ n + 1 \in 1 .. m /\ Left(p, n)[1] = p[n + 1]
             /\ Rest(Left(p, n), Left(p, n + 1))
  <2> DEFINE a == Left(p, n)
             b == Left(p, n + 1)
             k == m - n
  <2>1. k \in Nat \ {0} /\ m - (n + 1) = k - 1 /\ n + 1 \in 1 .. m
    BY <1>2, <1>6
  <2>2. /\ DOMAIN a = 1 .. k /\ \A i \in 1 .. k : a[i] = p[n + i]
        /\ DOMAIN b = 1 .. k - 1 /\ \A i \in 1 .. k - 1 : b[i] = p[(n + 1) + i]
    BY <1>3, <2>1
  <2> HIDE DEF a, b, k
  <2>3. \A i \in 1 .. k : /\ i \in Nat \ {0}
                          /\ i # 1 => i - 1 \in 1 .. k - 1 /\ (n + 1) + (i - 1) = n + i
    BY <1>2, <2>1
  <2>4. ASSUME NEW j \in 1 .. k - 1
        PROVE  /\ j \in Nat \ {0} /\ j + 1 \in 1 .. k
               /\ n + (j + 1) = (n + 1) + j
    <3>1. n \in Nat /\ j \in Nat \ {0} /\ j + 1 \in 1 .. k
      BY <1>2, <2>1
    <3> QED BY <3>1
  <2>5. 1 \in 1 .. k
    BY <2>1
  <2>6. \A i \in 1 .. k : i # 1 => b[i - 1] = a[i]
    BY <2>2, <2>3
  <2>7. \A j \in 1 .. k - 1 : a[j + 1] = b[j]
    BY <2>2, <2>4
  <2>8. Rest(a, b)
    BY <2>2, <2>3, <2>4, <2>5, <2>6, <2>7 DEF Rest
  <2>9. a[1] = p[n + 1]
    BY <2>2, <2>5
  <2> QED BY <2>1, <2>8, <2>9 DEF a, b
<1> QED BY <1>2, <1>3, <1>4, <1>5, <1>6 DEF m

\* One statement of it on a database without rows.
LEMMA RunGoesOn ==
  ASSUME NEW run, Sane(run), run.ok, NEW z \in Schema, NEW q, NEW p, Rest(q, p),
         \A i \in DOMAIN q : Writes(Lowered[z], q[i]),
         WillRun(q, Frame(run.db), Lowered[z]),
         Broken(run.db) = {}, Feeds(q[1]) => q[1].table \in run.db.fts
  PROVE  /\ RunNext(run, q[1]).ok /\ Broken(RunNext(run, q[1]).db) = {}
         /\ WillRun(p, Frame(RunNext(run, q[1]).db), Lowered[z])
<1> DEFINE d == Lowered[z]
           s == q[1]
           db == run.db
           e == run.enforced
           fr == Frame(db)
           r == Execute(db, s, e)
           next == [ok |-> r.ok, db |-> r.db, enforced |-> Enforcing(s, e)]
<1>1. Formed(db) /\ Bare(db) /\ e \in BOOLEAN
  BY DEF Sane
<1>2. RunNext(run, s) = next
  BY DEF RunNext
<1>3. next.ok = r.ok /\ next.db = r.db
  OBVIOUS
<1> HIDE DEF next, d, fr
<1>4. Rest(q, p) /\ WillRun(q, fr, d) /\ \A i \in DOMAIN q : Writes(d, q[i])
  BY DEF d, fr
<1>5. /\ Finds(fr, s) /\ Runs(fr, s, e) /\ Broken(After(fr, s)) = {}
  <2>1. 1 \in DOMAIN q
    BY DEF Rest
  <2>2. s.kind # "Cut"
    BY <1>4, <2>1 DEF Writes, Kinds, Deletes
  <2>3. Broken(fr) = {} /\ fr.fts = db.fts
    BY FrameJams, FrameParts DEF fr
  <2>4. s.kind = "CreateTrigger" /\ s.arg.feeds # {} => s.table \in fr.fts
    BY <2>3 DEF Feeds
  <2> HIDE DEF e, db
  <2> QED BY <1>1, <1>4, <2>2, <2>3, <2>4, FirstRuns, FirstFinds
<1>6. Written(s)
  BY DEF Written, Rest
<1>7. r.ok /\ Frame(r.db) = After(fr, s)
  <2> HIDE DEF db, e, s
  <2> QED BY <1>1, <1>5, <1>6, WrittenWorks DEF Worked, fr
<1>8. WillRun(p, After(fr, s), d)
  BY <1>4, <1>5, WillRunNext
<1>9. Broken(r.db) = {}
  BY <1>5, <1>7, FrameJams
<1> HIDE DEF r, s
<1> QED BY <1>2, <1>3, <1>7, <1>8, <1>9 DEF d, s

\* What is supplied by the beginning of a script is supplied by the beginning alone.
LEMMA ProvidesLess ==
  ASSUME NEW S, NEW q \in Seq(S), NEW s \in S, Provides(Append(q, s))
  PROVE  Provides(q) /\ (Feeds(s) => Supplied(q, Len(q), s.table))
<1> DEFINE a == Append(q, s)
           m == Len(q)
<1>1. /\ m \in Nat /\ DOMAIN q = 1 .. m /\ DOMAIN a = 1 .. m + 1
      /\ a[m + 1] = s /\ \A i \in 1 .. m : a[i] = q[i]
  OBVIOUS
<1>2. \A i \in DOMAIN a : Feeds(a[i]) => Supplied(a, i - 1, a[i].table)
  BY DEF Provides
<1> HIDE DEF a, m
<1>3. \A n \in 0 .. m : \A t : Supplied(a, n, t) => Supplied(q, n, t)
  <2> SUFFICES ASSUME NEW n \in 0 .. m, NEW t, Supplied(a, n, t) PROVE Supplied(q, n, t)
    OBVIOUS
  <2>1. PICK j \in 1 .. n :
          /\ MakesFts(a[j], t)
          /\ \A k \in j + 1 .. n : ~ (a[k].kind = "DropVirtualTable" /\ a[k].table = t)
    BY DEF Supplied
  <2>2. j \in 1 .. m /\ \A k \in j + 1 .. n : k \in 1 .. m
    BY <1>1
  <2> QED BY <1>1, <2>1, <2>2 DEF Supplied
<1>4. \A i \in 1 .. m : i \in 1 .. m + 1 /\ i - 1 \in 0 .. m
  BY <1>1
<1>5. \A i \in 1 .. m : Feeds(q[i]) => Supplied(q, i - 1, q[i].table)
  BY <1>1, <1>2, <1>3, <1>4
<1>6. m + 1 \in 1 .. m + 1 /\ m \in 0 .. m /\ (m + 1) - 1 = m
  BY <1>1
<1>7. Feeds(s) => Supplied(q, m, s.table)
  BY <1>1, <1>2, <1>3, <1>6
<1> QED BY <1>1, <1>5, <1>7 DEF Provides, m

\* The script q runs on an empty database and leaves no broken trigger, if it
\* provides the full-text tables.
Replays(q) ==
  LET run == Batch(Empty, q, FkAtOpen)
  IN  Provides(q) => run.ok /\ Broken(run.db) = {}

\* All of it, or what was written of it.
LEMMA ScriptExtends ==
  ASSUME NEW q, IsScript(q), Replays(q), NEW z \in Schema,
         NEW p, IsScript(p), \A i \in DOMAIN p : Writes(Lowered[z], p[i]),
         WillRun(p, Frame(Batch(Empty, q, FkAtOpen).db), Lowered[z])
  PROVE  \A n \in 0 .. Len(p) : Replays(q \o SubSeq(p, 1, n))
<1> DEFINE d == Lowered[z]
           m == Len(p)
           part(n) == q \o SubSeq(p, 1, n)
           run(n) == Batch(Empty, part(n), FkAtOpen)
           S == ToSet(q) \cup ToSet(p)
           Fine(n) == run(n).ok /\ Broken(run(n).db) = {} /\ WillRun(Left(p, n), Frame(run(n).db), d)
           A == {n \in 0 .. m : Provides(part(n)) => Fine(n)}
<1>1. Listed(q) /\ Listed(p)
  BY DEF IsScript, Listed
<1>2. q \in Seq(S) /\ p \in Seq(S)
  <2> DEFINE U == ToSet(q)
             V == ToSet(p)
  <2>1. q \in Seq(U) /\ p \in Seq(V)
    BY <1>1 DEF Listed
  <2> HIDE DEF U, V
  <2>2. q \in Seq(U \cup V) /\ p \in Seq(U \cup V)
    BY <2>1
  <2> QED BY <2>2 DEF U, V
<1>3. /\ m \in Nat /\ DOMAIN p = 1 .. m /\ Left(p, 0) = p
      /\ \A n \in 0 .. m :
           \A i \in DOMAIN Left(p, n) : n + i \in DOMAIN p /\ Left(p, n)[i] = p[n + i]
      /\ \A n \in 0 .. m : n # m =>
           /\ n + 1 \in DOMAIN p /\ Left(p, n)[1] = p[n + 1]
           /\ Rest(Left(p, n), Left(p, n + 1))
  BY <1>1, LeftFacts
<1> HIDE DEF S, m
<1>4. part(0) = q
  <2>1. SubSeq(p, 1, 0) = <<>>
    BY <1>2
  <2>2. q \o <<>> = q
    BY <1>2
  <2> QED BY <2>1, <2>2
<1>5. ASSUME NEW n \in 0 .. m
      PROVE  part(n) \in Seq(S) /\ (n # m => part(n + 1) = Append(part(n), p[n + 1]) /\ p[n + 1] \in S)
  <2> DEFINE a == SubSeq(p, 1, n)
             b == SubSeq(p, 1, n + 1)
             x == p[n + 1]
  <2>1. a \in Seq(S) /\ Len(a) = n /\ \A i \in 1 .. n : a[i] = p[i]
    BY <1>2, PrefixFacts DEF m
  <2>2. part(n) \in Seq(S)
    <3> HIDE DEF a
    <3> QED BY <1>2, <2>1, ConcatFacts DEF a
  <2>3. ASSUME n # m PROVE part(n + 1) = Append(part(n), x) /\ x \in S
    <3>1. n + 1 \in 1 .. m /\ n + 1 \in 0 .. m /\ n \in Nat
      BY <1>3, <2>3
    <3>2. x \in S
      BY <1>2, <1>3, <3>1
    <3>3. b \in Seq(S) /\ Len(b) = n + 1 /\ \A i \in 1 .. n + 1 : b[i] = p[i]
      <4>1. n + 1 \in 0 .. Len(p)
        BY <3>1 DEF m
      <4> QED BY <1>2, <4>1, PrefixFacts
    <3> HIDE DEF a, b, x
    <3> DEFINE c == Append(a, x)
    <3>4. c \in Seq(S) /\ Len(c) = n + 1 /\ c[n + 1] = x /\ \A i \in 1 .. n : c[i] = a[i]
      BY <2>1, <3>1, <3>2
    <3> HIDE DEF c
    <3>5. \A i \in 1 .. n + 1 : c[i] = b[i]
      <4> SUFFICES ASSUME NEW i \in 1 .. n + 1 PROVE c[i] = b[i]
        OBVIOUS
      <4>1. CASE i = n + 1
        BY <3>3, <3>4, <4>1 DEF x
      <4>2. CASE i # n + 1
        <5>1. i \in 1 .. n
          BY <3>1, <4>2
        <5> QED BY <2>1, <3>3, <3>4, <5>1
      <4> QED BY <4>1, <4>2
    <3>6. c = b
      BY <3>3, <3>4, <3>5, SeqEqual
    <3>7. q \o Append(a, x) = Append(q \o a, x)
      BY <1>2, <2>1, <3>2
    <3> QED BY <3>2, <3>6, <3>7 DEF a, b, c
  <2> QED BY <2>2, <2>3
<1>6. ASSUME NEW n \in 0 .. m PROVE IsScript(part(n))
  <2> DEFINE a == SubSeq(p, 1, n)
  <2>1. IsScript(a)
    BY <1>6, PartsOfScripts DEF m
  <2> HIDE DEF a
  <2>2. Listed(a)
    BY <2>1 DEF IsScript, Listed
  <2>3. Joined(q \o a, q, a)
    BY <1>1, <2>2, ListedConcat
  <2>4. IsScript(q \o a)
    BY <2>1, <2>3 DEF Joined, IsScript, Listed
  <2> QED BY <2>4 DEF a
<1>13. \A n \in 0 .. m : n # m /\ Provides(part(n + 1)) =>
          Provides(part(n)) /\ (Feeds(p[n + 1]) => Supplied(part(n), Len(part(n)), p[n + 1].table))
  <2> HIDE DEF part
  <2> QED BY <1>5, ProvidesLess
<1>14. Provides(part(0)) => Fine(0)
  <2>1. run(0) = Batch(Empty, q, FkAtOpen)
    BY <1>4
  <2> HIDE DEF part, run
  <2> QED BY <1>3, <1>4, <2>1 DEF Replays
<1> HIDE DEF part
<1>7. \A n \in 0 .. m : Sane(run(n)) /\ Stocked(part(n), Len(part(n)), run(n))
  BY <1>6, BatchIsSane, MigrationAssumption
<1>8. \A n \in 0 .. m : n # m => run(n + 1) = RunNext(run(n), p[n + 1])
  BY <1>5, BatchGrows
<1> HIDE DEF run, d, Fine
<1>9. 0 \in A /\ A \in SUBSET (0 .. m)
  BY <1>3, <1>14
<1>10. ASSUME NEW n \in A, n < m PROVE n + 1 \in A
  <2> DEFINE a == Left(p, n)
             b == Left(p, n + 1)
             x == run(n)
             y == run(n + 1)
             s == p[n + 1]
  <2>1. n \in 0 .. m /\ n # m /\ n + 1 \in 0 .. m
    BY <1>3, <1>10
  <2> SUFFICES ASSUME Provides(part(n + 1)) PROVE Fine(n + 1)
    BY <2>1
  <2>2. Provides(part(n)) /\ (Feeds(s) => Supplied(part(n), Len(part(n)), s.table))
    BY <1>13, <2>1
  <2>3. /\ Rest(a, b) /\ a[1] = s
        /\ \A i \in DOMAIN a : Writes(Lowered[z], a[i])
    BY <1>3, <2>1
  <2>4. x.ok /\ Broken(x.db) = {} /\ WillRun(a, Frame(x.db), Lowered[z])
    BY <1>10, <2>2 DEF Fine, d
  <2>5. Sane(x) /\ y = RunNext(x, s) /\ (Feeds(s) => s.table \in x.db.fts)
    <3>1. Sane(x) /\ Stocked(part(n), Len(part(n)), x) /\ y = RunNext(x, s)
      BY <1>7, <1>8, <2>1
    <3> HIDE DEF x, y, s
    <3> QED BY <2>2, <2>4, <3>1 DEF Stocked
  <2> HIDE DEF a, b, x, y, s
  <2>6. y.ok /\ Broken(y.db) = {} /\ WillRun(b, Frame(y.db), Lowered[z])
    BY <2>3, <2>4, <2>5, RunGoesOn
  <2> QED BY <2>6 DEF b, y, d, Fine
<1>11. A = 0 .. m
  <2> HIDE DEF A
  <2> QED BY <1>3, <1>9, <1>10, InductUpTo
<1>12. \A n \in 0 .. m : Provides(part(n)) => run(n).ok /\ Broken(run(n).db) = {}
  BY <1>11 DEF Fine
<1> QED BY <1>12 DEF run, part, m, Replays

(***************************************************************************)
(* The type invariant.                                                     *)
(***************************************************************************)
\* The first state.
LEMMA InitTypes == Init => TypeInv
<1> SUFFICES ASSUME Init PROVE TypeInv
  OBVIOUS
<1>1. Formed(live)
  BY EmptyIsFormed DEF Init
<1>2. DOMAIN files = {}
  BY DEF Init
<1>3. IsScript(todo) /\ \A i \in DOMAIN todo : Writes(Desired, todo[i])
  BY EmptyScript DEF Init
<1>4. /\ now \in Nat /\ commands \in 0 .. MaxCommands /\ applied \in 0 .. commands
      /\ deaths \in 0 .. MaxDeaths
  BY MigrationAssumption DEF Init
<1>5. enforced \in BOOLEAN /\ trouble \in BOOLEAN /\ outcome \in Outcome
  BY MigrationAssumption DEF Init, Outcome
<1> QED BY <1>1, <1>2, <1>3, <1>4, <1>5 DEF Init, TypeInv, Idle

\* Each step keeps the types, and the scripts written for the schema.
LEMMA NextTypes == TypeInv /\ [Next]_vars => TypeInv'
<1> SUFFICES ASSUME TypeInv, [Next]_vars PROVE TypeInv'
  OBVIOUS
<1> USE MigrationAssumption
<1>0. /\ schema \in Schema /\ Formed(live) /\ now \in Nat /\ DOMAIN files \subseteq 0 .. now
      /\ \A n \in DOMAIN files : IsScript(files[n])
      /\ IsScript(todo) /\ \A i \in DOMAIN todo : Writes(Desired, todo[i])
  BY DEF TypeInv
<1>1. ASSUME NEW s \in Schema, Edit(s) PROVE TypeInv'
  <2>1. todo = <<>> /\ Idle
    BY <1>1 DEF Edit, TypeInv
  <2>2. \A i \in DOMAIN todo : Writes(Desired, todo[i])'
    BY <1>1, <2>1 DEF Edit
  <2> QED BY <1>1, <2>1, <2>2 DEF TypeInv, Edit, Idle, Outcome
<1>2. CASE Tick
  <2>1. now' \in Nat /\ DOMAIN files \subseteq 0 .. now'
    BY <1>0, <1>2 DEF Tick
  <2> QED BY <1>2, <2>1 DEF TypeInv, Tick, Idle, Desired
<1>3. ASSUME NEW t, NEW r, Store(t, r) PROVE TypeInv'
  <2>1. Formed(live')
    BY <1>0, <1>3, StoreFacts
  <2> QED BY <1>3, <2>1 DEF TypeInv, Store, Idle, Desired
<1>4. CASE StartPush
  <2>1. PICK ops \in ComputeDiff(Desired, LiveSchema(live)) : todo' = Script(ops)
    BY <1>4 DEF StartPush
  <2>2. Prepared(todo', live)
    BY <1>0, <2>1, ScriptIsPrepared
  <2>3. IsScript(todo') /\ \A i \in DOMAIN todo' : Writes(Desired, todo'[i])
    BY <2>2 DEF Prepared
  <2>4. commands' \in 0 .. MaxCommands /\ applied \in 0 .. commands'
    BY <1>4 DEF StartPush, TypeInv
  <2> QED BY <1>4, <2>3, <2>4 DEF TypeInv, StartPush, Idle, Desired, Outcome
<1>5. CASE MigrateStops
  <2>1. commands' \in 0 .. MaxCommands /\ applied \in 0 .. commands'
    BY <1>5 DEF MigrateStops, MigrateStarts, TypeInv
  <2>2. Idle /\ command # "migrate" /\ outcome' \in Outcome
    BY <1>5 DEF MigrateStops, MigrateStarts, Idle, Outcome
  <2> QED BY <1>5, <2>1, <2>2 DEF TypeInv, MigrateStops, MigrateStarts, Idle, Desired
<1>6. CASE StartMigrate
  <2>1. PICK ops \in ComputeDiff(Desired, LiveSchema(Replay(files).db)) : todo' = Script(ops)
    BY <1>6 DEF StartMigrate
  <2>2. Formed(Replay(files).db)
    BY <1>0, <1>6, ShadowIsFormed DEF StartMigrate
  <2>3. Prepared(todo', Replay(files).db)
    BY <1>0, <2>1, <2>2, ScriptIsPrepared
  <2>4. IsScript(todo') /\ \A i \in DOMAIN todo' : Writes(Desired, todo'[i])
    BY <2>3 DEF Prepared
  <2>5. commands' \in 0 .. MaxCommands /\ applied \in 0 .. commands' /\ applied < commands'
    BY <1>6 DEF StartMigrate, MigrateStarts, TypeInv
  <2> QED BY <1>6, <2>4, <2>5 DEF TypeInv, StartMigrate, MigrateStarts, Idle, Desired, Outcome
<1>7. ASSUME NEW q, IsScript(q), files' = Over(Only(now, q), files)
      PROVE  DOMAIN files' \subseteq 0 .. now /\ \A n \in DOMAIN files' : IsScript(files'[n])
  <2>1. /\ DOMAIN files' = {now} \cup DOMAIN files
        /\ \A n \in DOMAIN files' : files'[n] = IF n = now THEN q ELSE files[n]
    BY <1>7 DEF Over, Only
  <2> QED BY <1>0, <1>7, <2>1
<1>8. CASE WriteFile
  <2>1. DOMAIN files' \subseteq 0 .. now /\ \A n \in DOMAIN files' : IsScript(files'[n])
    BY <1>0, <1>7, <1>8 DEF WriteFile
  <2> QED BY <1>8, <2>1 DEF TypeInv, WriteFile, Idle, Desired
<1>9. CASE RunStatement
  <2> DEFINE s == todo[1]
  <2>1. /\ Head(todo) = s /\ 1 \in DOMAIN todo
        /\ DOMAIN Tail(todo) = 1 .. Len(todo) - 1
        /\ \A i \in 1 .. Len(todo) - 1 : i + 1 \in DOMAIN todo /\ Tail(todo)[i] = todo[i + 1]
    BY <1>0, <1>9, TailFacts DEF RunStatement, IsScript
  <2>2. Written(s)
    BY <1>0, <2>1 DEF Written, Desired
  <2>3. Formed(live')
    <3>1. Execute(live, s, enforced).ok /\ live' = Execute(live, s, enforced).db
      BY <1>9, <2>1 DEF RunStatement
    <3>2. enforced \in BOOLEAN
      BY DEF TypeInv
    <3> HIDE DEF s
    <3>3. Worked(live, s, enforced)
      BY <1>0, <2>2, <3>2, WrittenWorks
    <3> QED BY <3>1, <3>3 DEF Worked
  <2>4. IsScript(todo')
    BY <1>0, <1>9, PartsOfScripts DEF RunStatement
  <2>5. \A i \in DOMAIN todo' : Writes(Desired, todo'[i])
    BY <1>0, <1>9, <2>1 DEF RunStatement
  <2>6. enforced' \in BOOLEAN
    BY <1>9 DEF RunStatement, Enforcing, TypeInv
  <2>7. ~ Idle
    BY <1>9 DEF RunStatement, TypeInv
  <2> QED BY <1>9, <2>3, <2>4, <2>5, <2>6, <2>7 DEF TypeInv, RunStatement, Idle, Desired
<1>10. ASSUME NEW ended \in Outcome, End(ended)
       PROVE  /\ IsScript(todo') /\ (\A i \in DOMAIN todo' : Writes(Desired, todo'[i])) /\ todo' = <<>>
              /\ command' = "none" /\ stage' = "idle" /\ outcome' \in Outcome
              /\ UNCHANGED <<schema, now, enforced, commands>>
  BY <1>10, EmptyScript DEF End
<1>11. CASE StatementFails
  <2>1. "failed" \in Outcome
    BY DEF Outcome
  <2> QED BY <1>10, <1>11, <2>1 DEF TypeInv, StatementFails, Idle, Desired
<1>12. CASE Finish
  <2>1. "pushed" \in Outcome /\ "migrated" \in Outcome
    BY DEF Outcome
  <2>2. \/ End("pushed") /\ applied' = applied
        \/ End("migrated") /\ applied' = applied + 1 /\ command = "migrate"
    BY <1>12 DEF Finish
  <2>3. applied' \in 0 .. commands
    BY <2>2 DEF TypeInv
  <2>4. /\ UNCHANGED <<live, files, trouble, deaths>>
        /\ IsScript(todo') /\ (\A i \in DOMAIN todo' : Writes(Desired, todo'[i])) /\ todo' = <<>>
        /\ command' = "none" /\ stage' = "idle" /\ outcome' \in Outcome
        /\ UNCHANGED <<schema, now, enforced, commands>>
    BY <1>10, <1>12, <2>1, <2>2 DEF Finish
  <2> QED BY <2>3, <2>4 DEF TypeInv, Idle, Desired
<1>13. CASE Die
  <2>1. "died" \in Outcome
    BY DEF Outcome
  <2>2. DOMAIN files' \subseteq 0 .. now /\ \A n \in DOMAIN files' : IsScript(files'[n])
    <3>1. CASE UNCHANGED files
      BY <1>0, <3>1
    <3>2. CASE \E n \in 0 .. Len(todo) : files' = Over(Only(now, SubSeq(todo, 1, n)), files)
      BY <1>0, <1>7, <3>2, PartsOfScripts
    <3>3. CASE \E n \in 0 .. Len(todo) :
                 files' = Over(Only(now, Append(SubSeq(todo, 1, n), Cut)), files)
      BY <1>0, <1>7, <3>3, PartsOfScripts, CutIsScript
    <3> QED BY <1>13, <3>1, <3>2, <3>3 DEF Die
  <2>3. deaths' \in 0 .. MaxDeaths
    BY <1>13 DEF Die, TypeInv
  <2> QED BY <1>10, <1>13, <2>1, <2>2, <2>3 DEF TypeInv, Die, Idle, Desired
<1>14. CASE UNCHANGED vars
  BY <1>14 DEF TypeInv, vars, Idle, Desired
<1> QED BY <1>1, <1>2, <1>3, <1>4, <1>5, <1>6, <1>8, <1>9, <1>11, <1>12, <1>13, <1>14
       DEF Next, Command

(***************************************************************************)
(* The pragmas.                                                            *)
(***************************************************************************)
\* With foreign keys off, a rebuild or the pragma that ends it comes next.
Pending(q) == q # <<>> /\ q[1].kind \in {"RebuildTable", "ForeignKeysOn"}

\* What a connection that opens with foreign keys on has to run next.
Guarded(q, e) == FkAtOpen /\ ~ e => Pending(q)

\* The rest of a script.
LEMMA RestPragmas ==
  ASSUME NEW q, q \in Seq(ToSet(q)), q # <<>>, NEW e \in BOOLEAN,
         Paired(q), DropsLast(q), Sheltered(q, e), Guarded(q, e)
  PROVE  /\ Paired(Tail(q)) /\ DropsLast(Tail(q)) /\ Sheltered(Tail(q), Enforcing(q[1], e))
         /\ Guarded(Tail(q), Enforcing(q[1], e))
         /\ Ready(q, e)
<1> DEFINE p == Tail(q)
           n == Len(q)
           s == q[1]
           on == Enforcing(s, e)
<1>1. /\ n \in Nat \ {0} /\ DOMAIN q = 1 .. n /\ 1 \in DOMAIN q
      /\ Len(p) = n - 1 /\ DOMAIN p = 1 .. n - 1
      /\ \A i \in 1 .. n - 1 : i + 1 \in DOMAIN q /\ p[i] = q[i + 1]
  BY TailFacts
<1>2. n > 1 => p # <<>>
  <2>1. n > 1 => 1 \in DOMAIN p
    BY <1>1
  <2>2. DOMAIN <<>> = {}
    OBVIOUS
  <2> QED BY <2>1, <2>2
<1> HIDE DEF p
<1>3. Paired(p)
  <2> SUFFICES ASSUME NEW i \in DOMAIN p
               PROVE  /\ p[i].kind = "ForeignKeysOff" => i < Len(p) /\ p[i + 1].kind = "RebuildTable"
                      /\ p[i].kind = "RebuildTable" => i < Len(p) /\ p[i + 1].kind = "ForeignKeysOn"
    BY DEF Paired
  <2>1. i + 1 \in DOMAIN q /\ p[i] = q[i + 1] /\ i \in Nat
    BY <1>1
  <2>2. i + 1 < n => i < Len(p) /\ p[i + 1] = q[(i + 1) + 1]
    BY <1>1, <2>1
  <2>3. /\ q[i + 1].kind = "ForeignKeysOff" => i + 1 < n /\ q[(i + 1) + 1].kind = "RebuildTable"
        /\ q[i + 1].kind = "RebuildTable" => i + 1 < n /\ q[(i + 1) + 1].kind = "ForeignKeysOn"
    BY <2>1 DEF Paired
  <2> QED BY <2>1, <2>2, <2>3
<1>4. DropsLast(p)
  <2> SUFFICES ASSUME NEW i \in DOMAIN p, NEW j \in DOMAIN p, i < j, p[i].kind = "DropTable"
               PROVE  p[j].kind \in Deletes
    BY DEF DropsLast
  <2>1. /\ i + 1 \in DOMAIN q /\ j + 1 \in DOMAIN q /\ i + 1 < j + 1
        /\ p[i] = q[i + 1] /\ p[j] = q[j + 1]
    BY <1>1
  <2> QED BY <2>1 DEF DropsLast
<1>5. Sheltered(p, on)
  <2> SUFFICES ASSUME NEW i \in DOMAIN p, p[i].kind = "RebuildTable"
               PROVE  \/ i > 1 /\ p[i - 1].kind = "ForeignKeysOff"
                      \/ i = 1 /\ ~ on
    BY DEF Sheltered
  <2>1. i + 1 \in DOMAIN q /\ q[i + 1].kind = "RebuildTable" /\ i + 1 > 1 /\ i + 1 # 1 /\ i \in Nat /\ (i + 1) - 1 = i
    BY <1>1
  <2>2. q[i].kind = "ForeignKeysOff"
    BY <2>1 DEF Sheltered
  <2>3. CASE i = 1
    BY <2>2, <2>3 DEF Enforcing
  <2>4. CASE i # 1
    <3>1. i > 1 /\ i - 1 \in 1 .. n - 1 /\ (i - 1) + 1 = i
      BY <1>1, <2>1, <2>4
    <3>2. p[i - 1] = q[i]
      BY <1>1, <3>1
    <3> QED BY <2>2, <3>1, <3>2
  <2> QED BY <2>3, <2>4
<1>6. Guarded(p, on)
  <2> SUFFICES ASSUME FkAtOpen, ~ on PROVE Pending(p)
    BY DEF Guarded
  <2>1. s.kind = "ForeignKeysOff" \/ s.kind = "RebuildTable"
    <3>1. CASE s.kind = "ForeignKeysOn"
      BY <3>1 DEF Enforcing
    <3>2. CASE s.kind \notin {"ForeignKeysOn", "ForeignKeysOff"}
      <4>1. ~ e
        BY <3>2 DEF Enforcing
      <4> QED BY <3>2, <4>1 DEF Guarded, Pending
    <3> QED BY <3>1, <3>2
  <2>2. 1 < n /\ q[1 + 1].kind \in {"RebuildTable", "ForeignKeysOn"}
    BY <1>1, <2>1 DEF Paired
  <2>3. p[1] = q[1 + 1] /\ p # <<>>
    BY <1>1, <1>2, <2>2
  <2> QED BY <2>2, <2>3 DEF Pending
<1>7. Ready(q, e)
  <2>1. ASSUME s.kind = "RebuildTable" PROVE ~ e
    <3>1. \/ 1 > 1 /\ q[1 - 1].kind = "ForeignKeysOff"
          \/ 1 = 1 /\ ~ e
      BY <1>1, <2>1 DEF Sheltered
    <3>2. ~ (1 > 1)
      OBVIOUS
    <3> QED BY <3>1, <3>2
  <2>2. ASSUME s.kind = "DropTable", NEW i \in DOMAIN q PROVE q[i].kind # "RebuildTable"
    <3>1. i = 1 \/ 1 < i
      BY <1>1
    <3>2. 1 < i => q[i].kind \in Deletes
      BY <1>1, <2>2 DEF DropsLast
    <3> QED BY <2>2, <3>1, <3>2 DEF Deletes
  <2> QED BY <2>1, <2>2 DEF Ready
<1> QED BY <1>3, <1>4, <1>5, <1>6, <1>7 DEF p

\* Nothing to run needs no pragma.
LEMMA NothingPends ==
  Paired(<<>>) /\ DropsLast(<<>>) /\ \A on : Sheltered(<<>>, on)
<1>1. DOMAIN <<>> = {}
  OBVIOUS
<1> QED BY <1>1 DEF Paired, DropsLast, Sheltered

\* A script that is sheltered with foreign keys on is with foreign keys off.
LEMMA ShelteredAnyway ==
  ASSUME NEW q, Sheltered(q, TRUE), NEW on
  PROVE  Sheltered(q, on)
BY DEF Sheltered

\* Each step keeps the pragmas where they belong.
LEMMA NextPragmas == TypeInv /\ PragmaInv /\ [Next]_vars => PragmaInv'
<1> SUFFICES ASSUME TypeInv, PragmaInv, [Next]_vars PROVE PragmaInv'
  OBVIOUS
<1>0. /\ schema \in Schema /\ Formed(live) /\ now \in Nat
      /\ \A n \in DOMAIN files : IsScript(files[n])
      /\ IsScript(todo) /\ enforced \in BOOLEAN
      /\ Paired(todo) /\ DropsLast(todo)
      /\ stage = "running" => Sheltered(todo, enforced) /\ Guarded(todo, enforced)
      /\ stage = "writing" => Sheltered(todo, TRUE)
  BY DEF TypeInv, PragmaInv, Guarded, Pending
<1>1. ASSUME UNCHANGED <<todo, stage, enforced>> PROVE PragmaInv'
  BY <1>1 DEF PragmaInv
<1>2. ASSUME stage' = "idle", todo' = <<>> PROVE PragmaInv'
  BY <1>2, NothingPends DEF PragmaInv
<1>3. ASSUME NEW db, Prepared(todo', db), stage' = "writing" \/ (stage' = "running" /\ enforced' = FkAtOpen)
      PROVE  PragmaInv'
  <2>1. Paired(todo') /\ DropsLast(todo') /\ Sheltered(todo', TRUE) /\ Sheltered(todo', enforced')
    BY <1>3, ShelteredAnyway DEF Prepared
  <2>2. CASE stage' = "writing"
    BY <2>1, <2>2 DEF PragmaInv
  <2>3. CASE stage' = "running" /\ enforced' = FkAtOpen
    <3>1. ~ (FkAtOpen /\ stage' = "running" /\ ~ enforced')
      BY <2>3
    <3>2. stage' # "writing"
      BY <2>3
    <3> QED BY <2>1, <3>1, <3>2 DEF PragmaInv
  <2> QED BY <1>3, <2>2, <2>3
<1>4. CASE StartPush
  <2>1. PICK ops \in ComputeDiff(Desired, LiveSchema(live)) : todo' = Script(ops)
    BY <1>4 DEF StartPush
  <2>2. Prepared(todo', live)
    BY <1>0, <2>1, ScriptIsPrepared
  <2> QED BY <1>3, <1>4, <2>2 DEF StartPush
<1>5. CASE StartMigrate
  <2>1. PICK ops \in ComputeDiff(Desired, LiveSchema(Replay(files).db)) : todo' = Script(ops)
    BY <1>5 DEF StartMigrate
  <2>2. Formed(Replay(files).db)
    BY <1>0, <1>5, ShadowIsFormed DEF StartMigrate
  <2>3. Prepared(todo', Replay(files).db)
    BY <1>0, <2>1, <2>2, ScriptIsPrepared
  <2> QED BY <1>3, <1>5, <2>3 DEF StartMigrate
<1>6. CASE WriteFile
  <2>1. Sheltered(todo, TRUE) /\ stage' = "running" /\ enforced' = FkAtOpen /\ todo' = todo
    BY <1>0, <1>6 DEF WriteFile
  <2>2. Sheltered(todo, FkAtOpen)
    BY <2>1, ShelteredAnyway
  <2> QED BY <1>0, <2>1, <2>2 DEF PragmaInv
<1>7. CASE RunStatement
  <2> DEFINE s == todo[1]
             on == Enforcing(s, enforced)
  <2>1. todo # <<>> /\ stage = "running" /\ todo \in Seq(ToSet(todo))
    BY <1>0, <1>7 DEF RunStatement, IsScript
  <2>2. todo' = Tail(todo) /\ enforced' = Enforcing(todo[1], enforced) /\ stage' = "running"
    BY <1>7, <2>1, TailFacts DEF RunStatement
  <2>3. /\ Paired(Tail(todo)) /\ DropsLast(Tail(todo)) /\ Sheltered(Tail(todo), on)
        /\ Guarded(Tail(todo), on)
    BY <1>0, <2>1, RestPragmas
  <2> QED BY <2>2, <2>3 DEF PragmaInv, Guarded, Pending
<1> QED BY <1>1, <1>2, <1>4, <1>5, <1>6, <1>7
       DEF Next, Command, Edit, Tick, Store, MigrateStops, MigrateStarts, StatementFails, Finish,
           Die, End, vars

(***************************************************************************)
(* What is still to run suits the live database.                           *)
(***************************************************************************)
\* A history that is followed replays to the frame of the live database.
LEMMA FollowedReplay ==
  ASSUME TypeInv, FollowInv, Idle, Steady, ~ trouble
  PROVE  Makes(History, live, enforced) /\ enforced /\ Frame(Replay(files).db) = Frame(live)
<1> DEFINE h == History
<1>1. todo = <<>> /\ stage = "idle"
  BY DEF TypeInv
<1>2. IsScript(h)
  <2>1. InOrder(files) = Files(now, files)
    BY DEF InOrder, Files
  <2> QED BY <2>1, FilesAreScript DEF History, TypeInv
<1>3. Len(h) \in Nat /\ SubSeq(h, 1, Len(h)) = h
  <2> DEFINE S == ToSet(h)
  <2>1. h \in Seq(S)
    BY <1>2 DEF IsScript
  <2> HIDE DEF S, h
  <2> QED BY <2>1
<1>4. Len(h) - Len(todo) = Len(h)
  BY <1>1, <1>3
<1>5. Follows(h) /\ enforced
  BY <1>1, <1>3, <1>4 DEF FollowInv
<1> QED BY <1>5 DEF Follows, Makes, Replay, History

\* Each step keeps it so.
LEMMA NextSuits == MigrationInv /\ [Next]_vars => SuitInv'
<1> SUFFICES ASSUME TypeInv, PragmaInv, SuitInv, FollowInv, [Next]_vars,
                    stage' # "idle", command' = "push" \/ (Steady /\ ~ trouble')
             PROVE  Suits(todo', live', Desired')
  BY DEF SuitInv, MigrationInv
<1>0. /\ schema \in Schema /\ Formed(live) /\ now \in Nat
      /\ \A n \in DOMAIN files : IsScript(files[n])
      /\ IsScript(todo) /\ enforced \in BOOLEAN /\ ((stage = "idle") <=> Idle)
      /\ \A i \in DOMAIN todo : Writes(Desired, todo[i])
  BY DEF TypeInv
<1>1. CASE StartPush
  <2>1. PICK ops \in ComputeDiff(Desired, LiveSchema(live)) : todo' = Script(ops)
    BY <1>1 DEF StartPush
  <2>2. Prepared(todo', live)
    BY <1>0, <2>1, ScriptIsPrepared
  <2>3. live' = live /\ Desired' = Desired
    BY <1>1 DEF StartPush, Desired
  <2> QED BY <2>2, <2>3 DEF Prepared, SuitsFrame
<1>2. CASE StartMigrate
  <2>1. PICK ops \in ComputeDiff(Desired, LiveSchema(Replay(files).db)) : todo' = Script(ops)
    BY <1>2 DEF StartMigrate
  <2>2. Formed(Replay(files).db)
    BY <1>0, <1>2, ShadowIsFormed DEF StartMigrate
  <2>3. Prepared(todo', Replay(files).db)
    BY <1>0, <2>1, <2>2, ScriptIsPrepared
  <2>4. live' = live /\ Desired' = Desired /\ Idle /\ Steady /\ ~ trouble
    BY <1>2 DEF StartMigrate, MigrateStarts, Desired
  <2>5. Frame(live) = Frame(Replay(files).db)
    BY <2>4, FollowedReplay
  <2> QED BY <2>3, <2>4, <2>5 DEF Prepared, SuitsFrame
<1>3. CASE WriteFile
  <2>1. Suits(todo, live, Desired)
    BY <1>3 DEF WriteFile, SuitInv
  <2> QED BY <1>3, <2>1 DEF WriteFile, Desired
<1>4. CASE RunStatement
  <2> DEFINE s == todo[1]
  <2>1. todo # <<>> /\ stage = "running" /\ todo \in Seq(ToSet(todo))
    BY <1>0, <1>4 DEF RunStatement, IsScript
  <2>2. /\ todo' = Tail(todo) /\ live' = Execute(live, todo[1], enforced).db
        /\ Execute(live, todo[1], enforced).ok /\ Desired' = Desired
    BY <1>4, <2>1, TailFacts DEF RunStatement, Desired
  <2>3. Suits(todo, live, Desired)
    BY <1>4, <2>1 DEF RunStatement, SuitInv
  <2>4. Ready(todo, enforced) /\ DropsLast(todo)
    <3>1. /\ Paired(todo) /\ DropsLast(todo) /\ Sheltered(todo, enforced)
          /\ Guarded(todo, enforced)
      BY <2>1 DEF PragmaInv, Guarded, Pending
    <3> QED BY <1>0, <2>1, <3>1, RestPragmas
  <2>5. Sound(Desired)
    BY <1>0, DesiredFacts
  <2>6. Suits(Tail(todo), Execute(live, todo[1], enforced).db, Desired)
    <3> DEFINE d == Desired
    <3> HIDE DEF d
    <3>1. Suits(Tail(todo), Execute(live, todo[1], enforced).db, d)
      BY <1>0, <2>1, <2>2, <2>3, <2>4, <2>5, RestSuits DEF d
    <3> QED BY <3>1 DEF d
  <2> QED BY <2>2, <2>6
<1>5. CASE UNCHANGED vars
  BY <1>5 DEF vars, SuitInv, Desired
<1> QED BY <1>0, <1>1, <1>2, <1>3, <1>4, <1>5
       DEF Next, Command, Edit, Tick, Store, MigrateStops, MigrateStarts, StatementFails, Finish,
           Die, End, Idle

(***************************************************************************)
(* The live database follows the files.                                    *)
(***************************************************************************)
\* But for the statements rest, the script q has run on db.
Behind(q, rest, db, on) ==
  LET n == Len(q) - Len(rest)
  IN  /\ n \in Nat
      /\ \A i \in DOMAIN rest : rest[i] = q[n + i]
      /\ Makes(SubSeq(q, 1, n), db, on)

\* FollowInv in these words.
Following ==
  /\ command = "push" => trouble
  /\ Steady /\ ~ trouble =>
       /\ stage # "running" => enforced
       /\ IF stage = "writing" THEN now \notin DOMAIN files /\ Makes(History, live, enforced)
          ELSE Behind(History, todo, live, enforced)

\* The two say the same, before a step and after it.
LEMMA FollowSays == (FollowInv <=> Following) /\ (FollowInv' <=> Following')
BY DEF FollowInv, Following, Follows, Makes, Behind

\* The history is a script.
LEMMA HistoryIsScript == TypeInv => IsScript(History) /\ History = FlattenSeq(Files(now, files))
<1>1. InOrder(files) = Files(now, files)
  BY DEF InOrder, Files
<1> QED BY <1>1, FilesAreScript DEF History, TypeInv

\* An empty script makes nothing.
LEMMA EmptyMakes == Makes(<<>>, Empty, FkAtOpen)
<1> DEFINE base == [ok |-> TRUE, db |-> Empty, enforced |-> FkAtOpen]
           none == <<>>
<1>1. none \in Seq({}) /\ Len(none) = 0
  OBVIOUS
<1> HIDE DEF none
<1>2. FoldUnrolls(RunNext, base, none)
  BY <1>1, FoldTrace
<1>3. FoldLeft(RunNext, base, none) = base
  BY <1>1, <1>2 DEF FoldUnrolls
<1>4. Batch(Empty, none, FkAtOpen) = base
  BY <1>3 DEF Batch
<1>5. base.ok /\ base.db = Empty /\ base.enforced = FkAtOpen
  OBVIOUS
<1> HIDE DEF base
<1> QED BY <1>4, <1>5 DEF Makes, none

\* A script that ran to its end.
LEMMA BehindNothing ==
  ASSUME NEW q, IsScript(q), NEW db, NEW on, Makes(q, db, on)
  PROVE  Behind(q, <<>>, db, on)
<1> DEFINE S == ToSet(q)
           none == <<>>
<1>1. q \in Seq(S)
  BY DEF IsScript
<1>2. Len(none) = 0 /\ DOMAIN none = {}
  OBVIOUS
<1> HIDE DEF S, none
<1>3. Len(q) - Len(none) = Len(q) /\ Len(q) \in Nat /\ SubSeq(q, 1, Len(q)) = q
  BY <1>1, <1>2
<1> QED BY <1>2, <1>3 DEF Behind, none

\* A script put at the end of one that ran.
LEMMA BehindAppended ==
  ASSUME NEW q, IsScript(q), NEW rest, IsScript(rest), NEW db, NEW on, Makes(q, db, on)
  PROVE  Behind(q \o rest, rest, db, on)
<1> DEFINE Q == ToSet(q)
           R == ToSet(rest)
           S == Q \cup R
           all == q \o rest
           n == Len(q)
<1>1. q \in Seq(Q) /\ rest \in Seq(R)
  BY DEF IsScript
<1> HIDE DEF Q, R
<1>2. q \in Seq(S) /\ rest \in Seq(S)
  BY <1>1
<1> HIDE DEF S
<1>3. /\ all \in Seq(S) /\ Len(all) = n + Len(rest) /\ n \in Nat /\ Len(rest) \in Nat
      /\ DOMAIN rest = 1 .. Len(rest)
  BY <1>2
<1>4. \A i \in DOMAIN rest : all[n + i] = rest[i]
  BY <1>2, <1>3
<1>5. \A i \in 1 .. n : all[i] = q[i]
  BY <1>2
<1> HIDE DEF all
<1>6. SubSeq(all, 1, n) = q
  <2> DEFINE p == SubSeq(all, 1, n)
  <2>1. p \in Seq(S) /\ Len(p) = n /\ \A i \in 1 .. n : p[i] = all[i]
    BY <1>3
  <2> HIDE DEF p
  <2>2. \A i \in 1 .. Len(p) : p[i] = q[i]
    BY <1>5, <2>1
  <2>3. p = q
    BY <1>2, <2>1, <2>2, SeqEqual
  <2> QED BY <2>3 DEF p
<1>7. Len(all) - Len(rest) = n
  BY <1>3
<1> QED BY <1>3, <1>4, <1>6, <1>7 DEF Behind, all

\* One statement of the rest runs.
LEMMA BehindNext ==
  ASSUME NEW q, IsScript(q), NEW rest, IsScript(rest), rest # <<>>,
         \A i \in DOMAIN rest : Written(rest[i]),
         NEW db, Formed(db), NEW e \in BOOLEAN, Behind(q, rest, db, e),
         Execute(db, rest[1], e).ok
  PROVE  Behind(q, Tail(rest), Execute(db, rest[1], e).db, Enforcing(rest[1], e))
<1> DEFINE S == ToSet(q)
           n == Len(q) - Len(rest)
           s == rest[1]
           p == SubSeq(q, 1, n)
           long == SubSeq(q, 1, n + 1)
<1>1. n \in Nat /\ (\A i \in DOMAIN rest : rest[i] = q[n + i]) /\ Makes(p, db, e)
  BY DEF Behind
<1>2. /\ Len(rest) \in Nat \ {0} /\ 1 \in DOMAIN rest
      /\ Len(Tail(rest)) = Len(rest) - 1 /\ DOMAIN Tail(rest) = 1 .. Len(rest) - 1
      /\ \A i \in 1 .. Len(rest) - 1 : i + 1 \in DOMAIN rest /\ Tail(rest)[i] = rest[i + 1]
  BY TailFacts DEF IsScript
<1>3. q \in Seq(S)
  BY DEF IsScript
<1> HIDE DEF S
<1>4. Len(q) \in Nat /\ n + 1 \in 1 .. Len(q) /\ n \in 0 .. Len(q) /\ Len(q) - Len(Tail(rest)) = n + 1
  <2>1. Len(q) \in Nat
    BY <1>3
  <2> QED BY <1>1, <1>2, <2>1
<1>5. s = q[n + 1]
  BY <1>1, <1>2
<1>6. Written(s) /\ IsScript(p)
  BY <1>2, <1>4, PartsOfScripts
<1>7. Makes(Append(p, s), Execute(db, s, e).db, Enforcing(s, e))
  <2> HIDE DEF p, s
  <2> QED BY <1>1, <1>6, MakesNext DEF s
<1> HIDE DEF n
<1>8. Append(p, s) = long
  <2> DEFINE w == Append(p, s)
  <2>1. /\ p \in Seq(S) /\ Len(p) = n /\ (\A i \in 1 .. n : p[i] = q[i])
        /\ long \in Seq(S) /\ Len(long) = n + 1 /\ (\A i \in 1 .. n + 1 : long[i] = q[i])
    BY <1>1, <1>3, <1>4
  <2>2. s \in S
    BY <1>3, <1>4, <1>5
  <2> HIDE DEF p, s, long
  <2>3. w \in Seq(S) /\ Len(w) = n + 1 /\ w[n + 1] = s /\ \A i \in 1 .. n : w[i] = p[i]
    BY <2>1, <2>2
  <2> HIDE DEF w
  <2>4. \A i \in 1 .. n + 1 : w[i] = long[i]
    <3> SUFFICES ASSUME NEW i \in 1 .. n + 1 PROVE w[i] = long[i]
      OBVIOUS
    <3>1. CASE i = n + 1
      BY <1>5, <2>1, <2>3, <3>1
    <3>2. CASE i # n + 1
      <4>1. i \in 1 .. n
        BY <1>1, <3>2
      <4> QED BY <2>1, <2>3, <4>1
    <3> QED BY <3>1, <3>2
  <2>5. w = long
    BY <1>1, <2>1, <2>3, <2>4, SeqEqual
  <2> QED BY <2>5 DEF w
<1>9. \A i \in DOMAIN Tail(rest) : Tail(rest)[i] = q[(n + 1) + i]
  <2> SUFFICES ASSUME NEW i \in 1 .. Len(rest) - 1 PROVE Tail(rest)[i] = q[(n + 1) + i]
    BY <1>2
  <2>1. i + 1 \in DOMAIN rest /\ Tail(rest)[i] = rest[i + 1] /\ n + (i + 1) = (n + 1) + i
    BY <1>1, <1>2
  <2>2. rest[i + 1] = q[n + (i + 1)]
    BY <1>1, <2>1
  <2> QED BY <2>1, <2>2
<1>10. n + 1 \in Nat
  BY <1>1
<1> QED BY <1>4, <1>7, <1>8, <1>9, <1>10 DEF Behind

\* Whether a script makes db is told by its frame.
LEMMA MakesFrame ==
  ASSUME NEW a, NEW b, Frame(a) = Frame(b)
  PROVE  \A q, on : /\ Makes(q, a, on) => Makes(q, b, on)
                    /\ \A rest : Behind(q, rest, a, on) => Behind(q, rest, b, on)
BY DEF Makes, Behind

\* In the first state there are no files.
LEMMA InitHistory == Init => History = <<>>
<1> SUFFICES ASSUME Init PROVE History = <<>>
  OBVIOUS
<1> DEFINE q == History
           p == Files(now, files)
<1>1. now = 0 /\ files = <<>> /\ TypeInv
  BY InitTypes DEF Init
<1>2. IsScript(q) /\ q = FlattenSeq(p)
  BY <1>1, HistoryIsScript
<1>3. DOMAIN files = {}
  BY <1>1
<1>4. /\ Listed(p) /\ DOMAIN p = 1 .. now + 1
      /\ \A i \in DOMAIN p : Listed(p[i])
  BY <1>1, FilesListed DEF TypeInv
<1>5. \A i \in DOMAIN p : DOMAIN p[i] = {}
  BY <1>3, <1>4 DEF Files
<1> HIDE DEF p
<1>6. \A k \in DOMAIN FlattenSeq(p) : \E i \in DOMAIN p : \E j \in DOMAIN p[i] : TRUE
  BY <1>4, FlatListed
<1> HIDE DEF q
<1>7. DOMAIN q = {}
  BY <1>2, <1>5, <1>6
<1>8. q = <<>>
  <2> DEFINE S == ToSet(q)
  <2>1. q \in Seq(S)
    BY <1>2 DEF IsScript
  <2> HIDE DEF S
  <2> QED BY <1>7, <2>1
<1> QED BY <1>8 DEF q

\* The first state: nothing has run.
LEMMA InitFollows == Init => PragmaInv /\ SuitInv /\ FollowInv
<1> SUFFICES ASSUME Init PROVE PragmaInv /\ SuitInv /\ FollowInv
  OBVIOUS
<1>1. /\ stage = "idle" /\ command = "none" /\ todo = <<>> /\ live = Empty
      /\ enforced = FkAtOpen
  BY DEF Init
<1>2. PragmaInv
  BY <1>1, NothingPends DEF PragmaInv
<1>3. SuitInv
  BY <1>1 DEF SuitInv
<1>4. FollowInv
  <2>1. Behind(<<>>, <<>>, Empty, FkAtOpen)
    BY BehindNothing, EmptyMakes, EmptyScript
  <2>2. Behind(History, todo, live, enforced)
    BY <1>1, <2>1, InitHistory
  <2>3. Following
    BY <1>1, <2>2 DEF Following, Steady
  <2> QED BY <2>3, FollowSays
<1> QED BY <1>2, <1>3, <1>4

\* Each step keeps the live database behind the files by what is still to run.
LEMMA NextFollows == TypeInv /\ PragmaInv /\ FollowInv /\ [Next]_vars => FollowInv'
<1> SUFFICES ASSUME TypeInv, PragmaInv, Following, [Next]_vars PROVE Following'
  BY FollowSays
<1>0. /\ Formed(live) /\ now \in Nat /\ DOMAIN files \subseteq 0 .. now
      /\ \A n \in DOMAIN files : IsScript(files[n])
      /\ IsScript(todo) /\ enforced \in BOOLEAN
      /\ ((stage = "idle") <=> Idle) /\ (Idle => todo = <<>>)
      /\ stage = "writing" => command = "migrate"
  BY DEF TypeInv
<1>1. IsScript(History) /\ History = FlattenSeq(Files(now, files))
  BY HistoryIsScript
<1>2. ASSUME trouble' = TRUE PROVE Following'
  BY <1>2 DEF Following
<1>3. ASSUME command' = "push" => trouble', History' = History, Frame(live') = Frame(live),
             todo' = todo, stage # "writing", stage' # "writing", trouble' = trouble,
             enforced' = enforced, stage' # "running" /\ stage = "running" => enforced \/ ~ Steady
      PROVE  Following'
  <2>1. Steady /\ ~ trouble' =>
          Behind(History, todo, live, enforced) /\ (stage' # "running" => enforced)
    BY <1>3 DEF Following
  <2>2. Steady /\ ~ trouble' => Behind(History', todo', live', enforced')
    BY <1>3, <2>1, MakesFrame
  <2> QED BY <1>3, <2>2 DEF Following
<1>4. ASSUME UNCHANGED <<files, now>> PROVE History' = History
  BY <1>4 DEF History, InOrder
<1>5. ASSUME NEW s \in Schema, Edit(s) PROVE Following'
  BY <1>0, <1>3, <1>4, <1>5 DEF Edit, Following
<1>6. CASE Tick
  <2>1. History' = FlattenSeq(Files(now + 1, files))
    <3>1. History' = FlattenSeq(InOrder(files)')
      BY <1>6 DEF Tick, History
    <3>2. InOrder(files)' = Files(now + 1, files)
      BY <1>6 DEF Tick, InOrder, Files
    <3> QED BY <3>1, <3>2
  <2>2. History' = History
    BY <1>0, <1>1, <2>1, LastFile
  <2> QED BY <1>0, <1>3, <1>6, <2>2 DEF Tick, Following, Idle
<1>7. ASSUME NEW t, NEW r, Store(t, r) PROVE Following'
  <2>1. Frame(live') = Frame(live)
    BY <1>0, <1>7, StoreFacts
  <2> QED BY <1>0, <1>3, <1>4, <1>7, <2>1 DEF Store, Following
<1>8. CASE MigrateStops
  BY <1>0, <1>3, <1>4, <1>8 DEF MigrateStops, MigrateStarts, Following
<1>9. CASE StartMigrate
  <2>1. /\ History' = History /\ live' = live /\ trouble' = trouble /\ files' = files
        /\ now' = now /\ enforced' = enforced
    BY <1>4, <1>9 DEF StartMigrate, MigrateStarts
  <2>2. stage' = "writing" /\ command' = "migrate" /\ Idle /\ (OneFilePerSecond => now \notin DOMAIN files)
    BY <1>9 DEF StartMigrate, MigrateStarts
  <2>3. Steady /\ ~ trouble => Makes(History, live, enforced) /\ enforced
    BY <2>2, FollowSays, FollowedReplay
  <2> QED BY <2>1, <2>2, <2>3 DEF Following, Steady
<1>10. CASE WriteFile
  <2>1. /\ stage = "writing" /\ stage' = "running" /\ files' = Over(Only(now, todo), files)
        /\ live' = live /\ todo' = todo /\ now' = now /\ command' = command /\ trouble' = trouble
        /\ enforced' = FkAtOpen
    BY <1>10 DEF WriteFile
  <2>2. command' # "push"
    BY <1>0, <2>1
  <2>3. ASSUME Steady, ~ trouble PROVE Behind(History', todo', live', enforced')
    <3>1. now \notin DOMAIN files /\ Makes(History, live, enforced) /\ enforced' = enforced
      BY <1>0, <2>1, <2>3 DEF Following, Steady
    <3>2. History' = FlattenSeq(Files(now, Over(Only(now, todo), files)))
      <4>1. InOrder(files)' = Files(now, files')
        BY <2>1 DEF InOrder, Files
      <4>2. History' = FlattenSeq(InOrder(files)')
        BY DEF History
      <4> QED BY <2>1, <4>1, <4>2
    <3>3. History' = History \o todo
      BY <1>0, <1>1, <3>1, <3>2, LastFile
    <3>4. Behind(History \o todo, todo, live, enforced)
      BY <1>0, <1>1, <3>1, BehindAppended
    <3> QED BY <2>1, <3>1, <3>3, <3>4
  <2> QED BY <2>1, <2>2, <2>3 DEF Following
<1>11. CASE RunStatement
  <2>1. todo # <<>> /\ stage = "running" /\ todo \in Seq(ToSet(todo))
    BY <1>0, <1>11 DEF RunStatement, IsScript
  <2>2. /\ todo' = Tail(todo) /\ live' = Execute(live, todo[1], enforced).db
        /\ Execute(live, todo[1], enforced).ok
        /\ History' = History /\ stage' = stage /\ command' = command /\ trouble' = trouble
        /\ enforced' = Enforcing(todo[1], enforced)
    BY <1>4, <1>11, <2>1, TailFacts DEF RunStatement
  <2>3. ASSUME Steady, ~ trouble PROVE Behind(History', todo', live', enforced')
    <3>1. Behind(History, todo, live, enforced)
      BY <2>1, <2>3 DEF Following
    <3>2. \A i \in DOMAIN todo : Written(todo[i])
      BY DEF TypeInv, Written, Desired
    <3>3. Behind(History, Tail(todo), Execute(live, todo[1], enforced).db,
                 Enforcing(todo[1], enforced))
      BY <1>0, <1>1, <2>1, <2>2, <3>1, <3>2, BehindNext
    <3> QED BY <2>2, <3>3
  <2> QED BY <2>1, <2>2, <2>3 DEF Following
<1>12. CASE Finish
  <2>1. todo = <<>> /\ stage = "running"
    BY <1>12 DEF Finish
  <2>2. enforced \/ ~ Steady
    BY <1>0, <2>1 DEF PragmaInv, Steady
  <2> QED BY <1>3, <1>4, <1>12, <2>1, <2>2 DEF Finish, End, Following
<1>13. CASE UNCHANGED vars
  <2>1. History' = History
    BY <1>4, <1>13 DEF vars
  <2> QED BY <1>13, <2>1 DEF vars, Following
<1> QED BY <1>2, <1>5, <1>6, <1>7, <1>8, <1>9, <1>10, <1>11, <1>12, <1>13
       DEF Next, Command, StartPush, StatementFails, Die

\* What two databases of the same frame have in common.
SameParts(a, b) ==
  /\ DOMAIN a.table = DOMAIN b.table
  /\ \A t \in DOMAIN a.table :
       /\ a.table[t].columns = b.table[t].columns
       /\ a.table[t].foreignKeys = b.table[t].foreignKeys
  /\ a.index = b.index /\ a.trigger = b.trigger

\* The frame tells the shape.
LEMMA SameShape ==
  ASSUME NEW a, NEW b, Frame(a) = Frame(b)
  PROVE  Shape(a) = Shape(b)
<1>1. SameParts(a, b)
  BY FrameParts DEF SameParts
<1>2. \A t \in DOMAIN a.table :
        LiveColumns(a, t) = LiveColumns(b, t) /\ LiveForeignKeys(a, t) = LiveForeignKeys(b, t)
  BY <1>1 DEF SameParts, LiveColumns, LiveForeignKeys
<1> DEFINE f(db) == [t \in DOMAIN db.table |->
                       [columns |-> LiveColumns(db, t), foreignKeys |-> LiveForeignKeys(db, t)]]
<1>3. f(a) = f(b)
  BY <1>1, <1>2 DEF SameParts
<1>4. a.index = b.index /\ a.trigger = b.trigger
  BY <1>1 DEF SameParts
<1> HIDE DEF f
<1>5. \A db : Shape(db) = [tables |-> f(db),
                          indexes |-> {<<i.table, i.columns, i.unique>> : i \in db.index},
                          triggers |-> {<<g.table, g.name>> : g \in db.trigger}]
  BY DEF Shape, f
<1> QED BY <1>3, <1>4, <1>5

(***************************************************************************)
(* The theorems.                                                           *)
(***************************************************************************)
\* Between any two steps of the schema commands, whichever died or failed before:
\* what is still to run was written for the schema of the moment, the foreign_keys
\* pragmas stand around the rebuilds, the script suits the live database, and
\* without trouble the live database is what the files make (workflows.rs).
THEOREM MigrationIsInvariant == Spec => []MigrationInv
<1>1. Init => MigrationInv
  BY InitTypes, InitFollows DEF MigrationInv
<1>2. MigrationInv /\ [Next]_vars => MigrationInv'
  BY NextTypes, NextPragmas, NextSuits, NextFollows DEF MigrationInv
<1> QED BY <1>1, <1>2, PTL DEF Spec

\* The databases, the files and the state of the command are what they are taken for:
\* each row has a value in every column of its table, whatever statements ran, and a
\* migration is recorded at most once a command.
THEOREM MigrationTypes == Spec => []TypeOK
<1>1. MigrationInv => TypeOK
  BY DEF MigrationInv, TypeInv, TypeOK, Formed, FormedTable
<1> QED BY <1>1, MigrationIsInvariant, PTL

\* As long as every command was a migrate that ran to its end, the files replay without
\* an error to the tables, columns, foreign keys, indexes and triggers of the live
\* database: the script computed on the empty shadow does the same to a database with
\* rows, rebuilds included (replay_migrations and run_migrate).
THEOREM LiveFollowsFiles ==
  ASSUME Steady
  PROVE  Spec => [](Idle /\ ~ trouble =>
                      Replay(files).ok /\ Shape(live) = Shape(Replay(files).db))
<1>1. MigrationInv /\ Idle /\ ~ trouble => Replay(files).ok /\ Shape(live) = Shape(Replay(files).db)
  <2> SUFFICES ASSUME TypeInv, FollowInv, Idle, ~ trouble
               PROVE  Replay(files).ok /\ Shape(live) = Shape(Replay(files).db)
    BY DEF MigrationInv
  <2> DEFINE shadow == Replay(files)
  <2>1. Makes(History, live, enforced) /\ Frame(shadow.db) = Frame(live)
    BY FollowedReplay
  <2>2. shadow.ok
    BY <2>1 DEF Makes, Replay, History
  <2> HIDE DEF shadow
  <2>3. Shape(live) = Shape(shadow.db)
    BY <2>1, SameShape
  <2> QED BY <2>2, <2>3 DEF shadow
<1> QED BY <1>1, MigrationIsInvariant, PTL

\* A statement that runs, with what is known of its connection.
LEMMA Running ==
  ASSUME MigrationInv, RunStatement
  PROVE  /\ Sound(Desired) /\ Formed(live) /\ enforced \in BOOLEAN
         /\ todo # <<>> /\ 1 \in DOMAIN todo /\ Writes(Desired, todo[1])
         /\ Ready(todo, enforced) /\ Guarded(todo, enforced)
         /\ Execute(live, todo[1], enforced).ok /\ live' = Execute(live, todo[1], enforced).db
<1>1. /\ schema \in Schema /\ Formed(live) /\ enforced \in BOOLEAN /\ IsScript(todo)
      /\ \A i \in DOMAIN todo : Writes(Desired, todo[i])
  BY DEF MigrationInv, TypeInv
<1>2. todo # <<>> /\ stage = "running" /\ todo \in Seq(ToSet(todo))
  BY <1>1 DEF RunStatement, IsScript
<1>3. /\ Paired(todo) /\ DropsLast(todo) /\ Sheltered(todo, enforced) /\ Guarded(todo, enforced)
  BY <1>2 DEF MigrationInv, PragmaInv, Guarded, Pending
<1>4. Ready(todo, enforced)
  BY <1>1, <1>2, <1>3, RestPragmas
<1>5. 1 \in DOMAIN todo /\ Head(todo) = todo[1]
  BY <1>2, TailFacts
<1>6. Execute(live, todo[1], enforced).ok /\ live' = Execute(live, todo[1], enforced).db
  BY <1>5 DEF RunStatement
<1> QED BY <1>1, <1>2, <1>3, <1>4, <1>5, <1>6, DesiredFacts

\* No statement of a push, and none of a migrate on a database that follows its history,
\* removes a row of a model that stays or changes a value of a column that stays: rebuilds
\* run with foreign keys off, tables are dropped after the changes, and by then no table
\* of the schema refers to a table that goes (generate_sql, compute_diff).
THEOREM RowsAreKept ==
  ASSUME Steady
  PROVE  Spec => RowsKept
<1>1. ASSUME MigrationInv, [Next]_vars, stage = "running", command = "push" \/ ~ trouble
      PROVE  KeepsRows
  <2>1. CASE RunStatement
    <3>1. Suits(todo, live, Desired)
      BY <1>1 DEF MigrationInv, SuitInv
    <3> DEFINE d == Desired
    <3> HIDE DEF d
    <3>2. RowsStay(live, d, Execute(live, todo[1], enforced).db)
      BY <1>1, <2>1, <3>1, Running, StatementKeepsRows DEF d
    <3>3. live' = Execute(live, todo[1], enforced).db
      BY <1>1, <2>1, Running
    <3> QED BY <3>2, <3>3 DEF RowsStay, KeepsRows, d
  <2>2. CASE live' = live
    BY <2>2 DEF KeepsRows
  <2>3. ~ Idle /\ stage # "writing"
    BY <1>1 DEF MigrationInv, TypeInv
  <2> QED BY <1>1, <2>1, <2>2, <2>3
         DEF Next, Command, Edit, Tick, Store, StartPush, MigrateStops, MigrateStarts,
             StartMigrate, WriteFile, StatementFails, Finish, Die, vars
<1>2. MigrationInv /\ [Next]_vars =>
        [stage = "running" /\ (command = "push" \/ ~ trouble) => KeepsRows]_vars
  BY <1>1
<1> QED BY <1>2, MigrationIsInvariant, PTL DEF Spec, RowsKept

\* A row the API stores refers to stored rows or nowhere, and leaves the references of
\* the others alone.
LEMMA StoreKeepsReferences ==
  ASSUME Formed(live), NEW t, NEW r, Store(t, r)
  PROVE  ReferencesStay(live, live')
<1>1. PICK parent \in Parents(live, t), value \in {r, Shared} :
        Inserted(live, t, r, NewRow(live, t, r, parent, value), live')
  BY StoreFacts
<1> DEFINE row == NewRow(live, t, r, parent, value)
<1>2. ASSUME NEW fk \in live.table[t].foreignKeys, t \in DOMAIN live.table
      PROVE  /\ row[fk.from] # Null => /\ fk.to \in DOMAIN live.table
                                       /\ row[fk.from] \in DOMAIN live.table[fk.to].rows
  <2>1. fk.from \in DOMAIN live.table[t].columns /\ fk.from # <<"__id">>
    BY <1>2 DEF Formed, FormedTable
  <2>2. fk.from \in References(live, t)
    BY <1>2 DEF References
  <2>3. row[fk.from] = parent[fk.from]
    BY <2>1, <2>2 DEF NewRow
  <2> QED BY <1>2, <2>3 DEF Parents
<1> HIDE DEF row
<1>3. /\ DOMAIN live'.table = DOMAIN live.table /\ t \in DOMAIN live.table
      /\ \A u \in DOMAIN live.table :
           /\ live'.table[u].foreignKeys = live.table[u].foreignKeys
           /\ DOMAIN live.table[u].rows \subseteq DOMAIN live'.table[u].rows
           /\ \A x \in DOMAIN live'.table[u].rows :
                \/ u = t /\ x = r /\ live'.table[u].rows[x] = row
                \/ x \in DOMAIN live.table[u].rows
                   /\ live'.table[u].rows[x] = live.table[u].rows[x]
  <2>1. t \in DOMAIN live.table /\ r \notin DOMAIN live.table[t].rows
    BY StoreFacts
  <2> QED BY <1>1, <2>1 DEF Inserted, row
<1>4. SUFFICES ASSUME NEW u \in DOMAIN live'.table, NEW fk \in live'.table[u].foreignKeys,
                      NEW x \in DOMAIN live'.table[u].rows, Dangling(live', u, fk, x)
               PROVE  /\ u \in DOMAIN live.table /\ x \in DOMAIN live.table[u].rows
                      /\ Dangling(live, u, fk, x)
  BY DEF ReferencesStay
<1>5. u \in DOMAIN live.table /\ fk \in live.table[u].foreignKeys
  BY <1>3, <1>4
<1>6. fk.to \in DOMAIN live.table =>
        /\ fk.to \in DOMAIN live'.table
        /\ DOMAIN live.table[fk.to].rows \subseteq DOMAIN live'.table[fk.to].rows
  BY <1>3
<1>7. CASE u = t /\ x = r /\ live'.table[u].rows[x] = row
  <2>1. row[fk.from] # Null => fk.to \in DOMAIN live.table /\ row[fk.from] \in DOMAIN live.table[fk.to].rows
    BY <1>2, <1>5, <1>7
  <2>2. FALSE
    BY <1>4, <1>6, <1>7, <2>1 DEF Dangling
  <2> QED BY <2>2
<1>8. CASE x \in DOMAIN live.table[u].rows /\ live'.table[u].rows[x] = live.table[u].rows[x]
  BY <1>4, <1>5, <1>6, <1>8, ReferenceStays
<1> QED BY <1>3, <1>5, <1>7, <1>8

\* No step leaves a reference without its row: a table is rebuilt with foreign keys off
\* and dropped with foreign keys on, whichever statement an earlier command died or
\* failed at, as long as connections open with foreign keys on.
THEOREM ReferencesAreKept ==
  ASSUME FkAtOpen
  PROVE  Spec => ReferencesSurvive
<1>1. ReferencesStay(live, live') => KeepsReferences
  BY DEF ReferencesStay, KeepsReferences, Dangling
<1>2. ASSUME MigrationInv, [Next]_vars PROVE KeepsReferences
  <2>1. CASE RunStatement
    <3> DEFINE s == todo[1]
    <3>1. /\ Sound(Desired) /\ Formed(live) /\ enforced \in BOOLEAN /\ Writes(Desired, s)
          /\ Execute(live, s, enforced).ok /\ live' = Execute(live, s, enforced).db
      BY <1>2, <2>1, Running
    <3>2. (s.kind = "RebuildTable" => ~ enforced) /\ (s.kind = "DropTable" => enforced)
      <4>1. Ready(todo, enforced) /\ Guarded(todo, enforced) /\ todo # <<>>
        BY <1>2, <2>1, Running
      <4> QED BY <4>1 DEF Ready, Guarded, Pending
    <3> DEFINE d == Desired
    <3> HIDE DEF d, s
    <3>3. ReferencesStay(live, Execute(live, s, enforced).db)
      BY <3>1, <3>2, StatementKeepsReferences DEF d
    <3> QED BY <1>1, <3>1, <3>3
  <2>2. ASSUME NEW t, NEW r, Store(t, r) PROVE KeepsReferences
    BY <1>1, <1>2, <2>2, StoreKeepsReferences DEF MigrationInv, TypeInv
  <2>3. CASE live' = live
    BY <2>3 DEF KeepsReferences, Dangling
  <2> QED BY <1>2, <2>1, <2>2, <2>3
         DEF Next, Command, Edit, Tick, StartPush, MigrateStops, MigrateStarts,
             StartMigrate, WriteFile, StatementFails, Finish, Die, vars
<1>3. MigrationInv /\ [Next]_vars => [KeepsReferences]_vars
  BY <1>2
<1> QED BY <1>3, MigrationIsInvariant, PTL DEF Spec, ReferencesSurvive

(***************************************************************************)
(* The files replay.                                                       *)
(***************************************************************************)
\* A script written for the schema of the moment against the database the files make.
LEMMA ShadowScript ==
  ASSUME TypeInv, Replay(files).ok,
         NEW ops \in ComputeDiff(Desired, LiveSchema(Replay(files).db))
  PROVE  /\ Formed(Replay(files).db) /\ Known(Frame(Replay(files).db))
         /\ Scripted(Script(ops), Desired, Replay(files).db)
<1> DEFINE shadow == Replay(files)
           db == shadow.db
           z == schema
<1>1. z \in Schema /\ Desired = Lowered[z]
  BY DEF TypeInv, Desired
<1>2. Formed(db) /\ Known(Frame(db))
  BY ShadowIsFormed DEF TypeInv
<1>3. ops \in ComputeDiff(Lowered[z], LiveSchema(db))
  BY <1>1
<1> HIDE DEF db, z
<1>4. Scripted(Script(ops), Lowered[z], db)
  BY <1>1, <1>2, <1>3, DiffIsScripted
<1> QED BY <1>1, <1>2, <1>4 DEF db

\* HistoryInv in these words.
Recalled ==
  LET run == Batch(Empty, History, FkAtOpen)
  IN  /\ Uncut(History) => Replays(History)
      /\ stage = "writing" => now \notin DOMAIN files /\ WillRun(todo, Frame(run.db), Desired)

\* The two say the same, before a step and after it.
LEMMA RecallSays == (HistoryInv <=> Recalled) /\ (HistoryInv' <=> Recalled')
BY DEF HistoryInv, Recalled, Replays, Replay, History

\* The file of this second comes at the end of the history.
LEMMA FileAppended ==
  ASSUME TypeInv, now \notin DOMAIN files, NEW p, IsScript(p),
         files' = Over(Only(now, p), files), now' = now
  PROVE  /\ History' = History \o p
         /\ Uncut(History') => Uncut(History) /\ Uncut(p)
<1> DEFINE q == History
<1>1. /\ now \in Nat /\ DOMAIN files \subseteq 0 .. now
      /\ \A i \in DOMAIN files : IsScript(files[i])
  BY DEF TypeInv
<1>2. IsScript(q) /\ q = FlattenSeq(Files(now, files))
  BY HistoryIsScript
<1>3. History' = FlattenSeq(Files(now, Over(Only(now, p), files)))
  <2>1. InOrder(files)' = Files(now, files')
    BY DEF InOrder, Files
  <2>2. History' = FlattenSeq(InOrder(files)')
    BY DEF History
  <2> QED BY <2>1, <2>2
<1>4. History' = q \o p
  <2> HIDE DEF q
  <2> QED BY <1>1, <1>2, <1>3, LastFile
<1> DEFINE all == History'
<1> HIDE DEF q, all
<1>5. Joined(all, q, p)
  BY <1>2, <1>4, ListedConcat DEF IsScript, Listed, all
<1>6. Uncut(all) => Uncut(q) /\ Uncut(p)
  BY <1>5 DEF Joined, Uncut
<1> QED BY <1>4, <1>6 DEF q, all

\* Whatever is written of the file of this second, the files replay.
LEMMA FileReplays ==
  ASSUME TypeInv, Recalled, stage = "writing", NEW n \in 0 .. Len(todo),
         files' = Over(Only(now, SubSeq(todo, 1, n)), files), now' = now
  PROVE  Uncut(History') => Replays(History')
<1> SUFFICES ASSUME Uncut(History') PROVE Replays(History')
  OBVIOUS
<1> DEFINE p == SubSeq(todo, 1, n)
           q == History
           z == schema
<1>1. now \notin DOMAIN files /\ IsScript(todo) /\ IsScript(p) /\ IsScript(q)
  BY PartsOfScripts, HistoryIsScript DEF TypeInv, Recalled
<1>2. History' = q \o p /\ Uncut(q)
  BY <1>1, FileAppended
<1>3. /\ z \in Schema /\ \A i \in DOMAIN todo : Writes(Lowered[z], todo[i])
      /\ Replays(q)
      /\ WillRun(todo, Frame(Batch(Empty, q, FkAtOpen).db), Lowered[z])
  BY <1>2 DEF TypeInv, Recalled, Desired
<1> HIDE DEF q, z
<1>4. Replays(q \o SubSeq(todo, 1, n))
  BY <1>1, <1>3, ScriptExtends
<1> QED BY <1>2, <1>4

\* Each step keeps the files replaying.
LEMMA NextReplays ==
  ASSUME Indexable, OneFilePerSecond, TypeInv, HistoryInv, [Next]_vars
  PROVE  HistoryInv'
<1> SUFFICES Recalled'
  BY RecallSays
<1>0. /\ Recalled /\ now \in Nat /\ DOMAIN files \subseteq 0 .. now
      /\ \A n \in DOMAIN files : IsScript(files[n])
      /\ IsScript(todo) /\ ((stage = "idle") <=> Idle)
  BY RecallSays DEF TypeInv
<1>1. History = FlattenSeq(Files(now, files))
  BY HistoryIsScript
<1>2. ASSUME UNCHANGED <<files, now>> PROVE History' = History
  BY <1>2 DEF History, InOrder
<1>4. ASSUME Uncut(History') => Replays(History'), stage' # "writing" PROVE Recalled'
  <2>1. (Uncut(History) => Replays(History))'
    BY <1>4 DEF Uncut, Replays, Provides, Supplied
  <2> QED BY <1>4, <2>1 DEF Recalled
<1>17. ASSUME History' = History PROVE (Uncut(History) => Replays(History))'
  <2>1. Uncut(History') => Replays(History')
    BY <1>0, <1>17 DEF Recalled
  <2> QED BY <2>1 DEF Uncut, Replays, Provides, Supplied
<1>3. ASSUME History' = History, stage' # "writing" PROVE Recalled'
  BY <1>3, <1>17 DEF Recalled
<1>5. ASSUME NEW s \in Schema, Edit(s) PROVE Recalled'
  BY <1>0, <1>2, <1>3, <1>5 DEF Edit
<1>6. CASE Tick
  <2>1. History' = FlattenSeq(Files(now + 1, files))
    <3>1. History' = FlattenSeq(InOrder(files)')
      BY DEF History
    <3>2. InOrder(files)' = Files(now + 1, files)
      BY <1>6 DEF Tick, InOrder, Files
    <3> QED BY <3>1, <3>2
  <2>2. History' = History
    BY <1>0, <1>1, <2>1, LastFile
  <2> QED BY <1>0, <1>3, <1>6, <2>2 DEF Tick
<1>7. ASSUME NEW t, NEW r, Store(t, r) PROVE Recalled'
  BY <1>0, <1>2, <1>3, <1>7 DEF Store
<1>8. CASE StartPush
  BY <1>2, <1>3, <1>8 DEF StartPush
<1>9. CASE MigrateStops
  BY <1>0, <1>2, <1>3, <1>9 DEF MigrateStops, MigrateStarts
<1>10. CASE StartMigrate
  <2> DEFINE shadow == Replay(files)
             fr == Frame(shadow.db)
  <2>1. PICK ops \in ComputeDiff(Desired, LiveSchema(shadow.db)) : todo' = Script(ops)
    BY <1>10 DEF StartMigrate
  <2>2. /\ shadow.ok /\ stage' = "writing" /\ now \notin DOMAIN files
        /\ now' = now /\ files' = files /\ schema' = schema
    BY <1>10 DEF StartMigrate, MigrateStarts
  <2>3. Known(fr) /\ Scripted(todo', Desired, shadow.db)
    BY <2>1, <2>2, ShadowScript
  <2>4. WillRun(todo', fr, Desired)
    <3> DEFINE z == schema
               q == todo'
               db == shadow.db
    <3>1. z \in Schema /\ Desired = Lowered[z]
      BY DEF TypeInv, Desired
    <3>2. Known(Frame(db)) /\ Scripted(q, Lowered[z], db)
      BY <2>3, <3>1
    <3> HIDE DEF z, q, db
    <3>3. WillRun(q, Frame(db), Lowered[z])
      BY <3>1, <3>2, ScriptWillRun
    <3> QED BY <3>1, <3>3 DEF q, db
  <2>5. History' = History /\ Desired' = Desired
    BY <1>2, <2>2 DEF Desired
  <2>6. shadow = Batch(Empty, History, FkAtOpen)
    BY DEF Replay, History
  <2>7. (Uncut(History) => Replays(History))'
    BY <1>17, <2>5
  <2>8. (stage = "writing" =>
           now \notin DOMAIN files
           /\ WillRun(todo, Frame(Batch(Empty, History, FkAtOpen).db), Desired))'
    <3> HIDE DEF shadow
    <3> QED BY <2>2, <2>4, <2>5, <2>6 DEF fr
  <2> QED BY <2>7, <2>8 DEF Recalled
<1>11. CASE WriteFile
  <2>1. SubSeq(todo, 1, Len(todo)) = todo /\ Len(todo) \in 0 .. Len(todo)
    <3> DEFINE S == ToSet(todo)
    <3>1. todo \in Seq(S)
      BY <1>0 DEF IsScript
    <3> HIDE DEF S
    <3> QED BY <3>1
  <2>2. Uncut(History') => Replays(History')
    BY <1>0, <1>11, <2>1, FileReplays DEF WriteFile
  <2> QED BY <1>4, <1>11, <2>2 DEF WriteFile
<1>12. CASE RunStatement
  BY <1>2, <1>3, <1>12 DEF RunStatement
<1>13. CASE StatementFails
  BY <1>2, <1>3, <1>13 DEF StatementFails, End
<1>14. CASE Finish
  BY <1>2, <1>3, <1>14 DEF Finish, End
<1>15. CASE Die
  <2>1. stage' = "idle" /\ now' = now
    BY <1>15 DEF Die, End
  <2>2. CASE files' = files
    BY <1>2, <1>3, <2>1, <2>2
  <2>3. CASE files' # files
    <3>1. /\ stage = "writing" /\ now \notin DOMAIN files
          /\ \E n \in 0 .. Len(todo) :
               \/ files' = Over(Only(now, SubSeq(todo, 1, n)), files)
               \/ files' = Over(Only(now, Append(SubSeq(todo, 1, n), Cut)), files)
      BY <1>0, <1>15, <2>3 DEF Die, Recalled
    <3>2. PICK n \in 0 .. Len(todo) :
               \/ files' = Over(Only(now, SubSeq(todo, 1, n)), files)
               \/ files' = Over(Only(now, Append(SubSeq(todo, 1, n), Cut)), files)
      BY <3>1
    <3>3. CASE files' = Over(Only(now, SubSeq(todo, 1, n)), files)
      <4>1. Uncut(History') => Replays(History')
        BY <1>0, <2>1, <3>1, <3>3, FileReplays
      <4> QED BY <1>4, <2>1, <4>1
    <3>4. CASE files' = Over(Only(now, Append(SubSeq(todo, 1, n), Cut)), files)
      <4> DEFINE a == SubSeq(todo, 1, n)
                 p == Append(a, Cut)
      <4>1. IsScript(a)
        BY <1>0, PartsOfScripts
      <4> HIDE DEF a
      <4>2. IsScript(p) /\ ~ Uncut(p)
        BY <4>1, CutIsScript
      <4>3. files' = Over(Only(now, p), files)
        BY <3>4 DEF a
      <4> HIDE DEF p
      <4>4. ~ Uncut(History')
        BY <2>1, <3>1, <4>2, <4>3, FileAppended
      <4> QED BY <1>4, <2>1, <4>4
    <3> QED BY <3>2, <3>3, <3>4
  <2> QED BY <2>2, <2>3
<1>16. CASE UNCHANGED vars
  <2>1. History' = History /\ Desired' = Desired
    BY <1>2, <1>16 DEF vars, Desired
  <2> QED BY <1>0, <1>16, <2>1 DEF vars, Recalled
<1> QED BY <1>5, <1>6, <1>7, <1>8, <1>9, <1>10, <1>11, <1>12, <1>13, <1>14, <1>15, <1>16
       DEF Next, Command

(***************************************************************************)
(* The schema is reached.                                                  *)
(***************************************************************************)
\* What the differ writes against a database reaches the schema of the moment there.
LEMMA DiffReaches ==
  ASSUME NamesTellApart, schema \in Schema, NEW db, Formed(db), Known(Frame(db)),
         NEW ops \in ComputeDiff(Desired, LiveSchema(db))
  PROVE  Reaches(Script(ops), Frame(db), Desired)
<1> DEFINE z == schema
           q == Script(ops)
<1>1. z \in Schema /\ Desired = Lowered[z]
  BY DEF Desired
<1>2. ops \in ComputeDiff(Lowered[z], LiveSchema(db))
  BY <1>1
<1> HIDE DEF z
<1>3. Scripted(q, Lowered[z], db)
  BY <1>1, <1>2, DiffIsScripted
<1> HIDE DEF q
<1>4. Reaches(q, Frame(db), Lowered[z])
  BY <1>1, <1>3, ScriptReaches
<1> QED BY <1>1, <1>4 DEF q

\* No operation, no statement.
LEMMA NothingToScript == Script(<<>>) = <<>>
<1> DEFINE ss == Pieces(<<>>)
           S == {}
<1>1. ss = <<>>
  BY DEF Pieces
<1>2. ss \in Seq(Seq(S)) /\ Len(ss) = 0
  <2> HIDE DEF ss
  <2> QED BY <1>1
<1> HIDE DEF ss
<1>3. FlattenSeq(ss) = <<>>
  BY <1>2, FlatTrace
<1> QED BY <1>3 DEF ss, Pieces, Script

\* A database without differences serves the schema of the moment.
LEMMA NoDifference ==
  ASSUME NamesTellApart, schema \in Schema, NEW db, Formed(db), Known(Frame(db)),
         <<>> \in ComputeDiff(Desired, LiveSchema(db))
  PROVE  Served(Frame(db), Desired)
<1> DEFINE d == Desired
           fr == Frame(db)
<1>1. Reaches(<<>>, fr, d)
  BY DiffReaches, NothingToScript
<1> HIDE DEF d, fr
<1>2. Served(fr, d)
  BY <1>1, ReachedIsServed
<1> QED BY <1>2 DEF d, fr

\* A statement brings the schema closer.
LEMMA StatementReaches ==
  ASSUME MigrationInv, Known(Frame(live)), RunStatement
  PROVE  /\ Known(Frame(live'))
         /\ Reaches(todo, Frame(live), Desired) => Reaches(todo', Frame(live'), Desired)
<1> DEFINE z == schema
           fr == Frame(live)
           q == todo
           s == todo[1]
           p == todo'
<1>1. /\ Formed(live) /\ enforced \in BOOLEAN /\ q # <<>>
      /\ Execute(live, s, enforced).ok /\ live' = Execute(live, s, enforced).db
      /\ Writes(Desired, s)
  BY Running
<1>2. z \in Schema /\ Desired = Lowered[z] /\ Listed(q)
  BY DEF MigrationInv, TypeInv, Desired, IsScript, Listed
<1>3. Rest(q, p)
  BY <1>1, <1>2, TailIsRest DEF RunStatement
<1>4. Written(s)
  BY <1>1, <1>2 DEF Written
<1> HIDE DEF s
<1>5. Worked(live, s, enforced)
  BY <1>1, <1>4, WrittenWorks
<1>6. Finds(fr, s) /\ Frame(live') = After(fr, s)
  BY <1>1, <1>5 DEF Worked, Runs
<1> HIDE DEF fr, z, p
<1>7. Known(fr)
  BY DEF fr
<1>8. Writes(Lowered[z], s)
  BY <1>1, <1>2
<1>9. Known(After(fr, s))
  BY <1>2, <1>6, <1>7, <1>8, KnownNext
<1> HIDE DEF q
<1>10. s = q[1]
  BY DEF s, q
<1>11. Reaches(q, fr, Lowered[z]) => Reaches(p, After(fr, s), Lowered[z])
  BY <1>2, <1>3, <1>6, <1>7, <1>8, <1>10, ReachesNext
<1> QED BY <1>2, <1>6, <1>9, <1>11 DEF fr, q, p

\* The first state.
LEMMA InitReaches == Init => ReachInv
<1> SUFFICES ASSUME Init PROVE ReachInv
  OBVIOUS
<1>1. Known(Frame(live))
  BY EmptyIsFormed DEF Init
<1> QED BY <1>1 DEF Init, ReachInv

\* Each step keeps the schema within reach of what is still to run.
LEMMA NextReaches ==
  ASSUME NamesTellApart, MigrationInv, ReachInv, [Next]_vars
  PROVE  ReachInv'
<1>0. /\ schema \in Schema /\ Formed(live) /\ ((stage = "idle") <=> Idle)
      /\ TypeInv /\ FollowInv /\ Known(Frame(live)) /\ command \in {"none", "push", "migrate"}
      /\ stage # "idle" => outcome = "none"
  BY DEF MigrationInv, TypeInv, ReachInv
<1>1. ASSUME UNCHANGED <<schema, todo, stage, command, outcome, trouble>>,
             Frame(live') = Frame(live)
      PROVE  ReachInv'
  <2>1. Desired' = Desired
    BY <1>1 DEF Desired
  <2> QED BY <1>1, <2>1 DEF ReachInv
<1>2. ASSUME live' = live, stage' = "idle", outcome' \in {"none", "failed", "died"}
      PROVE  ReachInv'
  BY <1>0, <1>2 DEF ReachInv
<1>3. ASSUME live' = live, schema' = schema, stage' # "idle", outcome' = "none",
             command' = "push" \/ (Steady /\ ~ trouble') =>
               Reaches(todo', Frame(live), Desired)
      PROVE  ReachInv'
  <2>1. Desired' = Desired
    BY <1>3 DEF Desired
  <2> QED BY <1>0, <1>3, <2>1 DEF ReachInv
<1>4. ASSUME NEW s \in Schema, Edit(s) PROVE ReachInv'
  BY <1>0, <1>2, <1>4 DEF Edit
<1>5. CASE Tick
  BY <1>1, <1>5 DEF Tick
<1>6. ASSUME NEW t, NEW r, Store(t, r) PROVE ReachInv'
  <2>1. Frame(live') = Frame(live)
    BY <1>0, <1>6, StoreFacts
  <2> QED BY <1>1, <1>6, <2>1 DEF Store
<1>7. CASE StartPush
  <2>1. PICK ops \in ComputeDiff(Desired, LiveSchema(live)) : todo' = Script(ops)
    BY <1>7 DEF StartPush
  <2>2. Reaches(todo', Frame(live), Desired)
    BY <1>0, <2>1, DiffReaches
  <2> QED BY <1>3, <1>7, <2>2 DEF StartPush
<1>8. ASSUME Idle, Steady, ~ trouble, Replay(files).ok
      PROVE  /\ Formed(Replay(files).db) /\ Known(Frame(Replay(files).db))
             /\ Frame(Replay(files).db) = Frame(live)
  BY <1>0, <1>8, ShadowIsFormed, FollowedReplay DEF TypeInv
<1>9. CASE MigrateStops
  <2>1. /\ Idle /\ UNCHANGED <<schema, live, todo, stage, command, trouble>>
        /\ outcome' = IF Replay(files).ok THEN "nothing" ELSE "failed"
        /\ Replay(files).ok => <<>> \in ComputeDiff(Desired, LiveSchema(Replay(files).db))
    BY <1>9 DEF MigrateStops, MigrateStarts
  <2>2. Desired' = Desired
    BY <2>1 DEF Desired
  <2>3. ASSUME Steady, ~ trouble, Replay(files).ok
        PROVE  Served(Frame(live), Desired)
    <3> DEFINE db == Replay(files).db
    <3>1. Formed(db) /\ Known(Frame(db)) /\ Frame(db) = Frame(live)
      BY <1>8, <2>1, <2>3
    <3>2. <<>> \in ComputeDiff(Desired, LiveSchema(db))
      BY <2>1, <2>3
    <3> HIDE DEF db
    <3>3. Served(Frame(db), Desired)
      BY <1>0, <3>1, <3>2, NoDifference
    <3> QED BY <3>1, <3>3
  <2>4. stage' = "idle"
    BY <1>0, <2>1
  <2> QED BY <1>0, <2>1, <2>2, <2>3, <2>4 DEF ReachInv
<1>10. CASE StartMigrate
  <2>1. PICK ops \in ComputeDiff(Desired, LiveSchema(Replay(files).db)) : todo' = Script(ops)
    BY <1>10 DEF StartMigrate
  <2>2. /\ Idle /\ Replay(files).ok /\ UNCHANGED <<schema, live, trouble>>
        /\ stage' = "writing" /\ command' = "migrate" /\ outcome' = "none"
    BY <1>10 DEF StartMigrate, MigrateStarts
  <2>3. ASSUME Steady, ~ trouble
        PROVE  Reaches(todo', Frame(live), Desired)
    <3> DEFINE db == Replay(files).db
    <3>1. Formed(db) /\ Known(Frame(db)) /\ Frame(db) = Frame(live)
      BY <1>8, <2>2, <2>3
    <3>2. ops \in ComputeDiff(Desired, LiveSchema(db))
      BY <2>1
    <3> HIDE DEF db
    <3>3. Reaches(Script(ops), Frame(db), Desired)
      BY <1>0, <3>1, <3>2, DiffReaches
    <3> QED BY <2>1, <3>1, <3>3
  <2> QED BY <1>3, <2>2, <2>3
<1>11. CASE WriteFile
  <2>1. /\ UNCHANGED <<schema, live, todo, command, outcome, trouble>>
        /\ stage = "writing" /\ stage' = "running"
    BY <1>11 DEF WriteFile
  <2>2. command' = "push" \/ (Steady /\ ~ trouble') => Reaches(todo', Frame(live), Desired)
    BY <2>1 DEF ReachInv
  <2> QED BY <1>0, <1>3, <2>1, <2>2
<1>12. CASE RunStatement
  <2>1. /\ UNCHANGED <<schema, stage, command, outcome, trouble>> /\ stage = "running"
    BY <1>12 DEF RunStatement
  <2>2. /\ Known(Frame(live'))
        /\ Reaches(todo, Frame(live), Desired) => Reaches(todo', Frame(live'), Desired)
    BY <1>0, <1>12, StatementReaches
  <2>3. Desired' = Desired
    BY <2>1 DEF Desired
  <2> QED BY <1>0, <2>1, <2>2, <2>3 DEF ReachInv
<1>13. CASE StatementFails
  BY <1>2, <1>13 DEF StatementFails, End
<1>14. CASE Finish
  <2>1. /\ live' = live /\ schema' = schema /\ trouble' = trouble /\ stage' = "idle"
        /\ stage = "running" /\ todo = <<>>
        /\ \/ command = "push" /\ outcome' = "pushed"
           \/ command = "migrate" /\ outcome' = "migrated"
    BY <1>14 DEF Finish, End
  <2>2. Desired' = Desired
    BY <2>1 DEF Desired
  <2>3. command = "push" \/ (Steady /\ ~ trouble) => Served(Frame(live), Desired)
    <3> DEFINE d == Desired
               fr == Frame(live)
    <3>1. command = "push" \/ (Steady /\ ~ trouble) => Reaches(<<>>, fr, d)
      BY <2>1 DEF ReachInv
    <3> HIDE DEF d, fr
    <3>2. Reaches(<<>>, fr, d) => Served(fr, d)
      BY ReachedIsServed
    <3> QED BY <3>1, <3>2 DEF d, fr
  <2> QED BY <1>0, <2>1, <2>2, <2>3 DEF ReachInv
<1>15. CASE Die
  BY <1>2, <1>15 DEF Die, End
<1>16. CASE UNCHANGED vars
  BY <1>1, <1>16 DEF vars
<1> QED BY <1>4, <1>5, <1>6, <1>7, <1>9, <1>10, <1>11, <1>12, <1>13, <1>14, <1>15, <1>16
       DEF Next, Command

\* A push that ends well leaves the tables, columns, foreign keys, indexes and triggers
\* of schema.cq, whatever an earlier push or migrate that died or failed at any statement
\* left behind, as long as the names of the indexes tell them apart (compute_diff,
\* generate_sql, run_push).
THEOREM PushReachesTheSchema ==
  ASSUME NamesTellApart
  PROVE  Spec => []PushReachesSchema
<1>1. Init => MigrationInv /\ ReachInv
  BY InitTypes, InitFollows, InitReaches DEF MigrationInv
<1>2. MigrationInv /\ ReachInv /\ [Next]_vars => MigrationInv' /\ ReachInv'
  BY NextTypes, NextPragmas, NextSuits, NextFollows, NextReaches DEF MigrationInv
<1>3. ReachInv => PushReachesSchema
  BY ServedHasShape DEF ReachInv, PushReachesSchema
<1> QED BY <1>1, <1>2, <1>3, PTL DEF Spec

\* The files in migrations/ replay without an error on an empty database, also when a
\* command died while it wrote the last one or its statements failed on the live database,
\* and they leave no full-text trigger without its table: a file is written against what
\* the files before it make, and each of its statements finds what it needs there or made
\* before it (run_migrate, compute_diff, replay_migrations).  Two things are excluded: a
\* file that ends within a statement, and @@fulltext added to a table without a rebuild,
\* for which compute_diff writes the triggers alone.
THEOREM FilesReplay ==
  ASSUME Indexable, OneFilePerSecond
  PROVE  Spec => [](HistoryReplays /\ (Uncut(History) /\ Provides(History) =>
                                        Broken(Replay(files).db) = {}))
<1>1. Init => MigrationInv /\ HistoryInv
  <2> SUFFICES ASSUME Init PROVE MigrationInv /\ HistoryInv
    OBVIOUS
  <2>1. MigrationInv /\ stage = "idle"
    BY InitTypes, InitFollows DEF MigrationInv, Init
  <2>2. History = <<>> /\ Makes(<<>>, Empty, FkAtOpen)
    BY InitHistory, EmptyMakes
  <2>3. Replay(files).ok /\ Frame(Replay(files).db) = Frame(Empty)
    BY <2>2 DEF Makes, Replay, History
  <2>4. Broken(Replay(files).db) = {}
    <3>1. Broken(Empty) = {}
      BY DEF Broken, Empty
    <3> QED BY <2>3, <3>1, FrameJams
  <2> QED BY <2>1, <2>3, <2>4 DEF HistoryInv
<1>2. MigrationInv /\ HistoryInv /\ [Next]_vars => MigrationInv' /\ HistoryInv'
  BY NextTypes, NextPragmas, NextSuits, NextFollows, NextReplays DEF MigrationInv
<1>3. HistoryInv => HistoryReplays /\ (Uncut(History) /\ Provides(History) =>
                                         Broken(Replay(files).db) = {})
  BY DEF HistoryInv, HistoryReplays
<1> QED BY <1>1, <1>2, <1>3, PTL DEF Spec

\* As long as every command was a migrate that ran to its end, the live database has the
\* shape the files replay to, and after each migrate, one with nothing to do included,
\* that shape is the schema's: the script computed on the empty shadow does the same to a
\* database with rows (replay_migrations, run_migrate).
THEOREM LiveIsInSync ==
  ASSUME NamesTellApart, Steady
  PROVE  Spec => []InSync
<1>1. Init => MigrationInv /\ ReachInv
  BY InitTypes, InitFollows, InitReaches DEF MigrationInv
<1>2. MigrationInv /\ ReachInv /\ [Next]_vars => MigrationInv' /\ ReachInv'
  BY NextTypes, NextPragmas, NextSuits, NextFollows, NextReaches DEF MigrationInv
<1>3. MigrationInv /\ ReachInv => InSync
  <2> SUFFICES ASSUME MigrationInv, ReachInv, Idle, ~ trouble
               PROVE  /\ Shape(live) = Shape(Replay(files).db)
                      /\ outcome \in {"migrated", "nothing"} => Shape(live) = DesiredShape
    BY DEF InSync
  <2>1. Frame(Replay(files).db) = Frame(live)
    BY FollowedReplay DEF MigrationInv
  <2>2. Shape(live) = Shape(Replay(files).db)
    <3> DEFINE db == Replay(files).db
    <3> HIDE DEF db
    <3> QED BY <2>1, SameShape DEF db
  <2>3. outcome \in {"migrated", "nothing"} => Shape(live) = DesiredShape
    BY ServedHasShape DEF ReachInv
  <2> QED BY <2>2, <2>3
<1> QED BY <1>1, <1>2, <1>3, PTL DEF Spec
===============================================================================
