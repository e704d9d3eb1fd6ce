----------------------- MODULE CrystallizationProofs ------------------------
(***************************************************************************)
(* Proofs about the loading of a schema, for every set of texts: whatever  *)
(* bases extend each other, whatever models point at each other, and in    *)
(* whatever order the hash maps are visited.                               *)
(***************************************************************************)
EXTENDS LoadInvariant, DataInduction, SequenceTheorems

(***************************************************************************)
(* Sequences and records.                                                  *)
(***************************************************************************)
\* A sequence has a length and its members.
LEMMA SequenceFacts ==
  ASSUME NEW s, IsSequence(s)
  PROVE  Len(s) \in Nat /\ DOMAIN s = 1 .. Len(s) /\ \A i \in DOMAIN s : s[i] \in Range(s)
BY DEF IsSequence

\* A function on 1 .. n is a sequence.
LEMMA SequenceMade ==
  ASSUME NEW n \in Nat, NEW s, s = [i \in 1 .. n |-> s[i]]
  PROVE  IsSequence(s)
<1>1. DOMAIN s = 1 .. n /\ \A i \in 1 .. n : s[i] \in Range(s)
  BY DEF Range
<1>2. s \in [1 .. n -> Range(s)]
  BY <1>1
<1> QED BY <1>2 DEF IsSequence

\* Two maps, and one more entry.
LEMMA OverFacts ==
  ASSUME NEW f, NEW g
  PROVE  /\ DOMAIN Over(f, g) = DOMAIN f \cup DOMAIN g
         /\ \A x \in DOMAIN f : Over(f, g)[x] = f[x]
         /\ \A x \in DOMAIN g : x \notin DOMAIN f => Over(f, g)[x] = g[x]
BY DEF Over

\* A map of one entry.
LEMMA OnlyFacts ==
  ASSUME NEW x, NEW y
  PROVE  DOMAIN Only(x, y) = {x} /\ Only(x, y)[x] = y
BY DEF Only

(***************************************************************************)
(* The parser.                                                             *)
(***************************************************************************)
\* parse_field_def and its callers make a node of every model or base.
LEMMA NodeOfItem ==
  ASSUME NEW item, WellFormed(item), item.form \in {"model", "base"}
  PROVE  IsNode(Node(item))
<1>1. /\ IsSequence(item.extends) /\ IsSequence(item.fields)
      /\ \A i \in DOMAIN item.fields : IsName(item.fields[i].name)
  BY DEF WellFormed
<1>2. /\ Node(item).extends = item.extends
      /\ Node(item).fields = [i \in DOMAIN item.fields |-> ParseField(item.fields[i])]
  BY DEF Node
<1>3. IsSequence(Node(item).fields)
  BY <1>1, <1>2, SequenceFacts, SequenceMade
<1>4. ASSUME NEW i \in DOMAIN Node(item).fields
      PROVE  /\ IsName(Node(item).fields[i].name) /\ IsField(Node(item).fields[i].body)
             /\ Node(item).fields[i].body.kind \in {"Scalar", "Relation"}
  <2>1. Node(item).fields[i] = ParseField(item.fields[i]) /\ i \in DOMAIN item.fields
    BY <1>2, <1>4
  <2>2. ParseField(item.fields[i]).name = item.fields[i].name
    BY DEF ParseField
  <2>3. /\ IsField(ParseField(item.fields[i]).body)
        /\ ParseField(item.fields[i]).body.kind \in {"Scalar", "Relation"}
    BY DEF ParseField, FieldBody, IsField
  <2> QED BY <1>1, <2>1, <2>2, <2>3
<1> QED BY <1>1, <1>2, <1>3, <1>4 DEF IsNode

\* HashMap::insert keeps an AST one, whatever item comes next.
LEMMA ItemInserted ==
  ASSUME NEW a, IsAst(a), NEW item, WellFormed(item), item.form # "garbage"
  PROVE  IsAst(InsertItem(a, item))
<1>1. CASE item.form = "model"
  <2> DEFINE node == Node(item)
             models == Over(Only(item.name, node), a.models)
  <2>1. InsertItem(a, item) = [a EXCEPT !.models = models]
    BY <1>1 DEF InsertItem
  <2>2. IsNode(node) /\ item.name \in Range(Alphabet)
    BY <1>1, NodeOfItem DEF WellFormed
  <2>3. \A m \in DOMAIN models : m \in Range(Alphabet) /\ IsNode(models[m])
    BY <2>2 DEF Over, Only, IsAst
  <2> HIDE DEF models
  <2>4. InsertItem(a, item)
          = [models |-> models, bases |-> a.bases, unions |-> a.unions, enums |-> a.enums]
    BY <2>1 DEF IsAst
  <2> QED BY <2>3, <2>4 DEF IsAst
<1>2. CASE item.form = "base"
  <2> DEFINE node == Node(item)
             bases == Over(Only(item.name, node), a.bases)
  <2>1. InsertItem(a, item) = [a EXCEPT !.bases = bases]
    BY <1>2 DEF InsertItem
  <2>2. IsNode(node)
    BY <1>2, NodeOfItem
  <2>4. \A b \in DOMAIN bases : IsNode(bases[b])
    <3> HIDE DEF node
    <3> QED BY <2>2 DEF Over, Only, IsAst
  <2>5. IsFiniteSet(DOMAIN bases)
    <3>1. DOMAIN bases = DOMAIN a.bases \cup {item.name}
      BY DEF Over, Only
    <3> QED BY <3>1, FS_AddElement DEF IsAst
  <2> HIDE DEF bases
  <2>6. InsertItem(a, item)
          = [models |-> a.models, bases |-> bases, unions |-> a.unions, enums |-> a.enums]
    BY <2>1 DEF IsAst
  <2> QED BY <2>4, <2>5, <2>6 DEF IsAst
<1>3. CASE item.form = "union"
  <2> DEFINE unions == Over(Only(item.name, item.members), a.unions)
  <2>1. InsertItem(a, item) = [a EXCEPT !.unions = unions]
    BY <1>3 DEF InsertItem
  <2>3. \A u \in DOMAIN unions : IsSequence(unions[u])
    <3>1. IsSequence(item.members)
      BY <1>3 DEF WellFormed
    <3> QED BY <3>1 DEF Over, Only, IsAst
  <2> HIDE DEF unions
  <2>2. InsertItem(a, item)
          = [models |-> a.models, bases |-> a.bases, unions |-> unions, enums |-> a.enums]
    BY <2>1 DEF IsAst
  <2> QED BY <2>2, <2>3 DEF IsAst
<1>4. CASE item.form = "enum"
  <2> DEFINE enums == Over(Only(item.name, item.members), a.enums)
  <2>1. InsertItem(a, item) = [a EXCEPT !.enums = enums]
    BY <1>4 DEF InsertItem
  <2> HIDE DEF enums
  <2>2. InsertItem(a, item)
          = [models |-> a.models, bases |-> a.bases, unions |-> a.unions, enums |-> enums]
    BY <2>1 DEF IsAst
  <2> QED BY <2>2 DEF IsAst
<1> QED BY <1>1, <1>2, <1>3, <1>4 DEF WellFormed

\* The parser begins with an AST.
LEMMA EmptyAst == IsAst(NoAst) /\ DOMAIN NoAst.models = {} /\ DOMAIN NoAst.bases = {}
<1>1. /\ NoAst.models = <<>> /\ NoAst.bases = <<>>
      /\ NoAst = [models |-> NoAst.models, bases |-> NoAst.bases,
                  unions |-> NoAst.unions, enums |-> NoAst.enums]
  BY DEF NoAst
<1>2. \A x : x \notin DOMAIN << >>
  OBVIOUS
<1>3. DOMAIN NoAst.models = {} /\ DOMAIN NoAst.bases = {} /\ DOMAIN NoAst.unions = {}
  <2>1. NoAst.unions = <<>>
    BY DEF NoAst
  <2> QED BY <1>1, <1>2, <2>1
<1>4. IsFiniteSet(DOMAIN NoAst.bases)
  BY <1>3, FS_EmptySet
<1> QED BY <1>1, <1>3, <1>4 DEF IsAst

\* An unbroken text is parsed into an AST: the fold over its items.
LEMMA Parsed ==
  ASSUME NEW t, IsSequence(t), \A i \in DOMAIN t : WellFormed(t[i]), ~ Malformed(t)
  PROVE  IsAst(ParseSchema(t))
<1>1. IsSequence(t) /\ \A i \in DOMAIN t : WellFormed(t[i]) /\ t[i].form # "garbage"
  BY DEF Malformed
<1>2. t \in Seq(Range(t)) /\ DOMAIN t = 1 .. Len(t) /\ Len(t) \in Nat
  BY <1>1, SequenceFacts DEF IsSequence
<1>3. FoldUnrolls(InsertItem, NoAst, t)
  BY <1>2, FoldTrace
<1>4. PICK r : /\ r[0] = NoAst
               /\ \A k \in 1 .. Len(t) : r[k] = InsertItem(r[k - 1], t[k])
               /\ FoldLeft(InsertItem, NoAst, t) = r[Len(t)]
  BY <1>3 DEF FoldUnrolls
<1> DEFINE S == {k \in 0 .. Len(t) : IsAst(r[k])}
<1>5. 0 \in S
  BY <1>2, <1>4, EmptyAst
<1>6. ASSUME NEW k \in S, k < Len(t) PROVE k + 1 \in S
  <2>1. k + 1 \in 1 .. Len(t) /\ k + 1 \in 0 .. Len(t) /\ (k + 1) - 1 = k
    BY <1>2, <1>6
  <2>2. r[k + 1] = InsertItem(r[k], t[k + 1])
    BY <1>4, <2>1
  <2>3. IsAst(r[k + 1])
    BY <1>1, <1>2, <2>1, <2>2, ItemInserted
  <2> QED BY <2>1, <2>3
<1>7. S = 0 .. Len(t)
  <2>1. S \in SUBSET (0 .. Len(t))
    OBVIOUS
  <2> HIDE DEF S
  <2> QED BY <1>2, <1>5, <1>6, <2>1, InductUpTo
<1>8. IsAst(r[Len(t)])
  <2>1. Len(t) \in 0 .. Len(t)
    BY <1>2
  <2> QED BY <1>7, <2>1
<1> QED BY <1>4, <1>8 DEF ParseSchema

(***************************************************************************)
(* What the sort does to its sequences.                                    *)
(***************************************************************************)
\* An ordering of a finite set lists each member once.
LEMMA OrderFacts ==
  ASSUME NEW S, IsFiniteSet(S), NEW s \in Orders(S)
  PROVE  s \in Seq(S) /\ Range(s) = S /\ IsInjective(s)
<1> DEFINE n == Cardinality(S)
<1>1. s \in [1 .. n -> S] /\ Range(s) = S
  BY DEF Orders
<1>2. n \in Nat /\ IsFiniteSet(1 .. n) /\ Cardinality(1 .. n) = n
  <2>1. n \in Nat
    BY FS_CardinalityType
  <2>2. IsFiniteSet(1 .. n) /\ Cardinality(1 .. n) = IF 1 > n THEN 0 ELSE n - 1 + 1
    BY <2>1, FS_Interval
  <2> QED BY <2>1, <2>2
<1> HIDE DEF n
<1>3. s \in Seq(S)
  BY <1>1, <1>2
<1>4. s \in Surjection(1 .. n, S)
  BY <1>1 DEF Surjection, Range
<1>5. s \in Injection(1 .. n, S)
  BY <1>2, <1>4, FS_SurjSameCardinalityImpliesInj DEF n
<1> QED BY <1>1, <1>3, <1>5 DEF Injection

\* Vec::pop.
LEMMA Popped ==
  ASSUME NEW S, NEW s \in Seq(S), IsInjective(s), s # <<>>
  PROVE  LET front == SubSeq(s, 1, Len(s) - 1)
         IN /\ front \in Seq(S) /\ IsInjective(front) /\ s[Len(s)] \in Range(s)
            /\ Range(front) = Range(s) \ {s[Len(s)]}
<1> DEFINE n == Len(s)
           front == SubSeq(s, 1, n - 1)
<1>1. n \in Nat /\ n # 0 /\ DOMAIN s = 1 .. n /\ \A i \in 1 .. n : s[i] \in S
  BY EmptySeq, LenProperties
<1>2. /\ front \in Seq(S) /\ Len(front) = n - 1
      /\ \A i \in 1 .. n - 1 : front[i] = s[i]
  <2>1. \A i \in 1 .. n - 1 : s[i] \in S
    BY <1>1
  <2>2. /\ front \in Seq(S) /\ Len(front) = IF 1 <= n - 1 THEN (n - 1) - 1 + 1 ELSE 0
        /\ \A i \in 1 .. (n - 1) - 1 + 1 : front[i] = s[1 + i - 1]
    <3> HIDE DEF n
    <3> QED BY <1>1, <2>1, SubSeqProperties
  <2> HIDE DEF n, front
  <2> QED BY <1>1, <2>2
<1>3. DOMAIN front = 1 .. n - 1
  <2> HIDE DEF front
  <2> QED BY <1>2
<1> HIDE DEF front, n
<1>4. IsInjective(front)
  BY <1>1, <1>2, <1>3 DEF IsInjective
<1>5. ASSUME NEW x PROVE x \in Range(front) <=> x \in Range(s) /\ x # s[n]
  <2>1. ASSUME x \in Range(front) PROVE x \in Range(s) /\ x # s[n]
    <3>1. PICK i \in 1 .. n - 1 : front[i] = x
      BY <1>3, <2>1 DEF Range
    <3>2. i \in DOMAIN s /\ n \in DOMAIN s /\ i # n /\ s[i] = x
      BY <1>1, <1>2, <3>1
    <3> QED BY <3>2 DEF IsInjective, Range
  <2>2. ASSUME x \in Range(s), x # s[n] PROVE x \in Range(front)
    <3>1. PICK i \in 1 .. n : s[i] = x
      BY <1>1, <2>2 DEF Range
    <3>2. i \in 1 .. n - 1
      BY <1>1, <2>2, <3>1
    <3> QED BY <1>2, <1>3, <3>1, <3>2 DEF Range
  <2> QED BY <2>1, <2>2
<1>6. s[n] \in Range(s)
  BY <1>1 DEF Range
<1> QED BY <1>2, <1>4, <1>5, <1>6 DEF front, n

\* Vec::extend by other members.
LEMMA Pushed ==
  ASSUME NEW S, NEW s \in Seq(S), NEW t \in Seq(S), IsInjective(s), IsInjective(t),
         Range(s) \cap Range(t) = {}
  PROVE  IsInjective(s \o t)
<1>1. /\ Len(s) \in Nat /\ Len(t) \in Nat /\ DOMAIN s = 1 .. Len(s) /\ DOMAIN t = 1 .. Len(t)
      /\ DOMAIN (s \o t) = 1 .. Len(s) + Len(t)
      /\ \A i \in 1 .. Len(s) + Len(t) :
           (s \o t)[i] = IF i <= Len(s) THEN s[i] ELSE t[i - Len(s)]
  BY ConcatProperties, LenProperties
<1> DEFINE u == s \o t
<1> HIDE DEF u
<1>2. ASSUME NEW i \in DOMAIN u, NEW j \in DOMAIN u, u[i] = u[j] PROVE i = j
  <2>0. i \in 1 .. Len(s) + Len(t) /\ j \in 1 .. Len(s) + Len(t)
    BY <1>1, <1>2 DEF u
  <2>1. CASE i <= Len(s) /\ j <= Len(s)
    BY <1>1, <1>2, <2>0, <2>1 DEF IsInjective, u
  <2>2. CASE ~ (i <= Len(s)) /\ ~ (j <= Len(s))
    <3>1. i - Len(s) \in DOMAIN t /\ j - Len(s) \in DOMAIN t
      BY <1>1, <2>0, <2>2
    <3>2. t[i - Len(s)] = t[j - Len(s)]
      BY <1>1, <1>2, <2>0, <2>2 DEF u
    <3>3. i - Len(s) = j - Len(s)
      BY <3>1, <3>2 DEF IsInjective
    <3> QED BY <1>1, <2>0, <3>3
  <2>3. CASE i <= Len(s) /\ ~ (j <= Len(s))
    <3>1. u[i] = s[i] /\ i \in DOMAIN s
      BY <1>1, <2>0, <2>3 DEF u
    <3>2. u[j] = t[j - Len(s)] /\ j - Len(s) \in DOMAIN t
      BY <1>1, <2>0, <2>3 DEF u
    <3> QED BY <1>2, <3>1, <3>2 DEF Range
  <2>4. CASE ~ (i <= Len(s)) /\ j <= Len(s)
    <3>1. u[j] = s[j] /\ j \in DOMAIN s
      BY <1>1, <2>0, <2>4 DEF u
    <3>2. u[i] = t[i - Len(s)] /\ i - Len(s) \in DOMAIN t
      BY <1>1, <2>0, <2>4 DEF u
    <3> QED BY <1>2, <3>1, <3>2 DEF Range
  <2> QED BY <2>1, <2>2, <2>3, <2>4
<1> QED BY <1>2 DEF IsInjective, u

\* Vec::push.
LEMMA PutOut ==
  ASSUME NEW S, NEW s \in Seq(S), NEW x \in S
  PROVE  /\ Append(s, x) \in Seq(S)
         /\ DOMAIN Append(s, x) = 1 .. Len(s) + 1 /\ DOMAIN s = 1 .. Len(s) /\ Len(s) \in Nat
         /\ \A i \in 1 .. Len(s) : Append(s, x)[i] = s[i]
         /\ Append(s, x)[Len(s) + 1] = x
         /\ Range(Append(s, x)) = Range(s) \cup {x}
<1>1. /\ Append(s, x) \in Seq(S) /\ Len(Append(s, x)) = Len(s) + 1
      /\ \A i \in 1 .. Len(s) : Append(s, x)[i] = s[i]
      /\ Append(s, x)[Len(s) + 1] = x
  BY AppendProperties
<1> DEFINE t == Append(s, x)
<1> HIDE DEF t
<1>2. DOMAIN t = 1 .. Len(s) + 1 /\ DOMAIN s = 1 .. Len(s) /\ Len(s) \in Nat
  BY <1>1, LenProperties DEF t
<1>3. ASSUME NEW y PROVE y \in Range(t) <=> y \in Range(s) \/ y = x
  <2>1. ASSUME y \in Range(t) PROVE y \in Range(s) \/ y = x
    <3>1. PICK i \in 1 .. Len(s) + 1 : t[i] = y
      BY <1>2, <2>1 DEF Range
    <3>2. CASE i = Len(s) + 1
      BY <1>1, <3>1, <3>2 DEF t
    <3>3. CASE i # Len(s) + 1
      <4>1. i \in 1 .. Len(s)
        BY <1>2, <3>3
      <4> QED BY <1>1, <1>2, <3>1, <4>1 DEF t, Range
    <3> QED BY <3>2, <3>3
  <2>2. ASSUME y \in Range(s) PROVE y \in Range(t)
    <3>1. PICK i \in 1 .. Len(s) : s[i] = y
      BY <1>2, <2>2 DEF Range
    <3>2. i \in 1 .. Len(s) + 1 /\ t[i] = y
      BY <1>1, <1>2, <3>1 DEF t
    <3> QED BY <1>2, <3>2 DEF Range
  <2>3. x \in Range(t)
    <3>1. Len(s) + 1 \in 1 .. Len(s) + 1
      BY <1>2
    <3> QED BY <1>1, <1>2, <3>1 DEF t, Range
  <2> QED BY <2>1, <2>2, <2>3
<1> QED BY <1>1, <1>2, <1>3 DEF t

(***************************************************************************)
(* The lineage of a sequence of parents is the least set of bases that     *)
(* holds the parents and, with a base, what that base extends.             *)
(***************************************************************************)
Parents(a, b) == Range(a.bases[b].extends) \cap DOMAIN a.bases

\* The set grows step by step.
Grows(a, parents, g) ==
  /\ g[0] = Range(parents) \cap DOMAIN a.bases
  /\ \A k \in Nat : g[k + 1] = g[k] \cup UNION {Parents(a, b) : b \in g[k]}

\* What the recursion of Lineage defines.
LEMMA LineageGrows ==
  ASSUME NEW a, NEW parents
  PROVE  \E g : Grows(a, parents, g) /\ Lineage(a, parents) = g[Cardinality(DOMAIN a.bases)]
<1> DEFINE first == Range(parents) \cap DOMAIN a.bases
           Next(v, k) ==
             LET reached == UNION {Range(a.bases[b].extends) : b \in v}
             IN v \cup (reached \cap DOMAIN a.bases)
           grow == CHOOSE g : g = [k \in Nat |-> IF k = 0 THEN first ELSE Next(g[k - 1], k)]
<1>1. Lineage(a, parents) = grow[Cardinality(DOMAIN a.bases)]
  BY DEF Lineage
<1>2. NatInductiveDefHypothesis(grow, first, Next)
  BY DEF NatInductiveDefHypothesis
<1>3. grow = [k \in Nat |-> IF k = 0 THEN first ELSE Next(grow[k - 1], k)]
  <2> HIDE DEF grow, first, Next
  <2>1. NatInductiveDefConclusion(grow, first, Next)
    BY <1>2, NatInductiveDef
  <2> QED BY <2>1 DEF NatInductiveDefConclusion
<1> HIDE DEF grow
<1>4. grow[0] = first
  BY <1>3
<1>5. ASSUME NEW k \in Nat
      PROVE  grow[k + 1] = grow[k] \cup UNION {Parents(a, b) : b \in grow[k]}
  <2>1. grow[k + 1] = Next(grow[k], k + 1)
    <3> HIDE DEF Next
    <3>1. k + 1 \in Nat /\ k + 1 # 0 /\ (k + 1) - 1 = k
      OBVIOUS
    <3> QED BY <1>3, <3>1
  <2>2. (UNION {Range(a.bases[b].extends) : b \in grow[k]}) \cap DOMAIN a.bases
          = UNION {Parents(a, b) : b \in grow[k]}
    BY DEF Parents
  <2> QED BY <2>1, <2>2
<1> QED BY <1>1, <1>4, <1>5 DEF Grows

Closed(a, T) == \A b \in T : Parents(a, b) \subseteq T

\* The lineage is that set: it stops growing within as many steps as there are bases.
LEMMA LineageIsLeast ==
  ASSUME NEW a, IsFiniteSet(DOMAIN a.bases), NEW parents
  PROVE  /\ Lineage(a, parents) \subseteq DOMAIN a.bases
         /\ Range(parents) \cap DOMAIN a.bases \subseteq Lineage(a, parents)
         /\ Closed(a, Lineage(a, parents))
         /\ \A T : Range(parents) \cap DOMAIN a.bases \subseteq T /\ Closed(a, T)
                     => Lineage(a, parents) \subseteq T
<1> DEFINE D == DOMAIN a.bases
           n == Cardinality(D)
<1>1. PICK g : Grows(a, parents, g) /\ Lineage(a, parents) = g[n]
  BY LineageGrows
<1>2. n \in Nat
  BY FS_CardinalityType
<1> HIDE DEF n
<1>3. /\ g[0] = Range(parents) \cap D
      /\ \A k \in Nat : g[k + 1] = g[k] \cup UNION {Parents(a, b) : b \in g[k]}
  BY <1>1 DEF Grows
<1>4. ASSUME NEW k \in Nat PROVE g[k] \subseteq D /\ g[0] \subseteq g[k]
  <2> DEFINE S == {j \in Nat : g[j] \subseteq D /\ g[0] \subseteq g[j]}
  <2>1. 0 \in S
    BY <1>3
  <2>2. ASSUME NEW j \in S PROVE j + 1 \in S
    <3>1. g[j + 1] = g[j] \cup UNION {Parents(a, b) : b \in g[j]}
      BY <1>3
    <3> QED BY <3>1 DEF Parents
  <2>3. S = Nat
    <3>1. S \in SUBSET Nat
      OBVIOUS
    <3> HIDE DEF S
    <3> QED BY <2>1, <2>2, <3>1, Induct
  <2> QED BY <2>3
<1>5. ASSUME NEW T, g[0] \subseteq T, Closed(a, T), NEW k \in Nat PROVE g[k] \subseteq T
  <2> DEFINE S == {j \in Nat : g[j] \subseteq T}
  <2>1. 0 \in S
    BY <1>5
  <2>2. ASSUME NEW j \in S PROVE j + 1 \in S
    <3>1. g[j + 1] = g[j] \cup UNION {Parents(a, b) : b \in g[j]}
      BY <1>3
    <3> QED BY <1>5, <3>1 DEF Closed
  <2>3. S = Nat
    <3>1. S \in SUBSET Nat
      OBVIOUS
    <3> HIDE DEF S
    <3> QED BY <2>1, <2>2, <3>1, Induct
  <2> QED BY <2>3
\* A set that does not grow in one step is closed.
<1>6. ASSUME NEW k \in Nat, g[k + 1] = g[k] PROVE Closed(a, g[k])
  <2>1. g[k] = g[k] \cup UNION {Parents(a, b) : b \in g[k]}
    BY <1>3, <1>6
  <2> QED BY <2>1 DEF Closed
\* It cannot grow more often than there are bases.
<1>7. Closed(a, g[n])
  <2> SUFFICES ASSUME ~ Closed(a, g[n]) PROVE FALSE
    OBVIOUS
  <2>1. ASSUME NEW k \in 0 .. n PROVE g[k + 1] # g[k]
    <3> SUFFICES ASSUME g[k + 1] = g[k] PROVE FALSE
      OBVIOUS
    <3>1. k \in Nat
      BY <1>2
    <3>2. Closed(a, g[k]) /\ g[0] \subseteq g[k]
      BY <1>4, <1>6, <3>1
    <3>3. g[n] \subseteq g[k]
      BY <1>2, <1>5, <3>2
    <3>4. g[k] \subseteq g[n]
      <4> DEFINE S == {j \in 0 .. n - k : g[k] \subseteq g[k + j]}
      <4>1. n - k \in Nat
        BY <1>2
      <4>2. 0 \in S
        BY <3>1, <4>1
      <4>3. ASSUME NEW j \in S, j < n - k PROVE j + 1 \in S
        <5>1. k + j \in Nat /\ j + 1 \in 0 .. n - k /\ k + (j + 1) = (k + j) + 1
          BY <3>1, <4>1, <4>3
        <5>2. g[(k + j) + 1] = g[k + j] \cup UNION {Parents(a, b) : b \in g[k + j]}
          BY <1>3, <5>1
        <5> QED BY <5>1, <5>2
      <4>4. S = 0 .. n - k
        <5>1. S \in SUBSET (0 .. n - k)
          OBVIOUS
        <5> HIDE DEF S
        <5> QED BY <4>1, <4>2, <4>3, <5>1, InductUpTo
      <4>5. n - k \in S /\ k + (n - k) = n
        <5>1. n - k \in 0 .. n - k /\ k + (n - k) = n
          BY <1>2, <3>1, <4>1
        <5> HIDE DEF S
        <5> QED BY <4>4, <5>1
      <4> QED BY <4>5
    <3>5. g[n] = g[k]
      BY <3>3, <3>4
    <3> QED BY <3>2, <3>5
  <2> DEFINE S == {k \in 0 .. n + 1 : Cardinality(g[k]) >= k}
  <2>2. ASSUME NEW k \in 0 .. n + 1 PROVE IsFiniteSet(g[k]) /\ Cardinality(g[k]) \in Nat
    <3>1. k \in Nat
      BY <1>2
    <3>2. g[k] \in SUBSET D
      BY <1>4, <3>1
    <3> QED BY <3>2, FS_Subset, FS_CardinalityType
  <2>3. 0 \in S
    BY <1>2, <2>2
  <2>4. ASSUME NEW k \in S, k < n + 1 PROVE k + 1 \in S
    <3>1. k \in Nat /\ k \in 0 .. n /\ k \in 0 .. n + 1 /\ k + 1 \in 0 .. n + 1
      BY <1>2, <2>4
    <3>2. g[k + 1] = g[k] \cup UNION {Parents(a, b) : b \in g[k]} /\ g[k + 1] # g[k]
      BY <1>3, <2>1, <3>1
    <3>3. g[k] \in SUBSET g[k + 1]
      BY <3>2
    <3>4. Cardinality(g[k]) <= Cardinality(g[k + 1]) /\ Cardinality(g[k]) # Cardinality(g[k + 1])
      BY <2>2, <3>1, <3>2, <3>3, FS_Subset
    <3>5. Cardinality(g[k]) >= k
      BY <2>4
    <3>6. Cardinality(g[k]) \in Nat /\ Cardinality(g[k + 1]) \in Nat
      BY <2>2, <3>1
    <3>7. Cardinality(g[k + 1]) >= k + 1
      BY <3>1, <3>4, <3>5, <3>6
    <3> QED BY <3>1, <3>7
  <2>5. S = 0 .. n + 1
    <3>1. S \in SUBSET (0 .. n + 1) /\ n + 1 \in Nat
      BY <1>2
    <3> HIDE DEF S
    <3> QED BY <2>3, <2>4, <3>1, InductUpTo
  <2>6. n + 1 \in S /\ n + 1 \in Nat /\ n + 1 \in 0 .. n + 1
    BY <1>2, <2>5
  <2>7. g[n + 1] \in SUBSET D
    BY <1>4, <2>6
  <2>8. Cardinality(g[n + 1]) <= n
    BY <2>7, FS_Subset DEF n
  <2> QED BY <1>2, <2>2, <2>6, <2>8
<1> QED BY <1>1, <1>2, <1>3, <1>4, <1>5, <1>7

\* A lineage holds the lineage of each of its bases.
LEMMA LineageNests ==
  ASSUME NEW a, IsFiniteSet(DOMAIN a.bases), NEW parents, NEW b \in Lineage(a, parents)
  PROVE  Lineage(a, a.bases[b].extends) \subseteq Lineage(a, parents)
<1>1. Closed(a, Lineage(a, parents))
  BY LineageIsLeast
<1>2. Parents(a, b) \subseteq Lineage(a, parents)
  BY <1>1 DEF Closed
<1> QED BY <1>1, <1>2, LineageIsLeast DEF Parents

\* The parents and their lineages make up the lineage.
LEMMA LineageOfParents ==
  ASSUME NEW a, IsFiniteSet(DOMAIN a.bases), NEW parents, Range(parents) \subseteq DOMAIN a.bases
  PROVE  Lineage(a, parents)
           = UNION {Lineage(a, a.bases[p].extends) \cup {p} : p \in Range(parents)}
<1> DEFINE L == Lineage(a, parents)
           U == UNION {Lineage(a, a.bases[p].extends) \cup {p} : p \in Range(parents)}
<1>1. U \subseteq L
  <2>1. ASSUME NEW p \in Range(parents) PROVE Lineage(a, a.bases[p].extends) \cup {p} \subseteq L
    <3>1. p \in L
      BY LineageIsLeast
    <3> QED BY <3>1, LineageNests
  <2> QED BY <2>1
<1>2. Closed(a, U)
  <2>1. ASSUME NEW b \in U PROVE Parents(a, b) \subseteq U
    <3>1. PICK p \in Range(parents) : b \in Lineage(a, a.bases[p].extends) \cup {p}
      OBVIOUS
    <3>2. Lineage(a, a.bases[p].extends) \subseteq U
      OBVIOUS
    <3>3. CASE b = p
      <4>1. Parents(a, b) \subseteq Lineage(a, a.bases[p].extends)
        BY <3>3, LineageIsLeast DEF Parents
      <4> QED BY <3>2, <4>1
    <3>4. CASE b \in Lineage(a, a.bases[p].extends)
      <4>1. Closed(a, Lineage(a, a.bases[p].extends))
        BY LineageIsLeast
      <4> QED BY <3>2, <3>4, <4>1 DEF Closed
    <3> QED BY <3>1, <3>3, <3>4
  <2> QED BY <2>1 DEF Closed
<1>3. Range(parents) \cap DOMAIN a.bases \subseteq U
  OBVIOUS
<1>4. L \subseteq U
  <2> HIDE DEF U
  <2> QED BY <1>2, <1>3, LineageIsLeast
<1> QED BY <1>1, <1>4

(***************************************************************************)
(* Flattening: what a chain of merges makes.                               *)
(***************************************************************************)
\* What the first k merges have made of the shape they began with.
Gathered(r, B, F, k) ==
  /\ r[k].bases = r[0].bases \cup UNION {B[j] : j \in 1 .. k}
  /\ DOMAIN r[k].fields = DOMAIN r[0].fields \cup UNION {DOMAIN F[j] : j \in 1 .. k}
  /\ \A x \in DOMAIN r[0].fields : r[k].fields[x] = r[0].fields[x]
  /\ r[k].agreed =>
       /\ r[0].agreed
       /\ \A j \in 1 .. k : \A x \in DOMAIN F[j] : SameSignature(r[k].fields[x], F[j][x])
  /\ \A x \in DOMAIN r[k].fields : IsName(x) /\ IsField(r[k].fields[x])

\* One merge: what was there stays, and what is met again agrees.
LEMMA MergeFacts ==
  ASSUME NEW shape, NEW bases, NEW fields
  PROVE  LET merged == Merge(shape, bases, fields)
         IN /\ merged.bases = shape.bases \cup bases
            /\ DOMAIN merged.fields = DOMAIN shape.fields \cup DOMAIN fields
            /\ \A x \in DOMAIN shape.fields : merged.fields[x] = shape.fields[x]
            /\ \A x \in DOMAIN fields :
                 x \notin DOMAIN shape.fields => merged.fields[x] = fields[x]
            /\ merged.agreed =>
                 /\ shape.agreed
                 /\ \A x \in DOMAIN fields : SameSignature(merged.fields[x], fields[x])
<1> DEFINE merged == Merge(shape, bases, fields)
<1>1. merged.bases = shape.bases \cup bases /\ merged.fields = Over(shape.fields, fields)
  BY DEF Merge
<1>2. /\ DOMAIN merged.fields = DOMAIN shape.fields \cup DOMAIN fields
      /\ \A x \in DOMAIN shape.fields : merged.fields[x] = shape.fields[x]
      /\ \A x \in DOMAIN fields : x \notin DOMAIN shape.fields => merged.fields[x] = fields[x]
  <2> HIDE DEF merged
  <2> QED BY <1>1 DEF Over
<1>3. merged.agreed =>
        /\ shape.agreed
        /\ \A x \in DOMAIN shape.fields \cap DOMAIN fields :
             SameSignature(shape.fields[x], fields[x])
  BY DEF Merge
<1>4. ASSUME merged.agreed, NEW x \in DOMAIN fields
      PROVE  SameSignature(merged.fields[x], fields[x])
  <2> HIDE DEF merged
  <2>1. CASE x \in DOMAIN shape.fields
    BY <1>2, <1>3, <1>4, <2>1
  <2>2. CASE x \notin DOMAIN shape.fields
    BY <1>2, <2>2 DEF SameSignature
  <2> QED BY <2>1, <2>2
<1> HIDE DEF merged
<1>5. /\ merged.bases = shape.bases \cup bases
      /\ merged.agreed => shape.agreed
      /\ merged.agreed => \A x \in DOMAIN fields : SameSignature(merged.fields[x], fields[x])
  BY <1>1, <1>3, <1>4
<1> QED BY <1>2, <1>5 DEF merged

\* Induction over the merges.
LEMMA MergesGather ==
  ASSUME NEW n \in Nat, NEW r, NEW B, NEW F,
         \A k \in 1 .. n : r[k] = Merge(r[k - 1], B[k], F[k]),
         \A x \in DOMAIN r[0].fields : IsName(x) /\ IsField(r[0].fields[x]),
         \A k \in 1 .. n : \A x \in DOMAIN F[k] : IsName(x) /\ IsField(F[k][x])
  PROVE  Gathered(r, B, F, n)
<1> DEFINE S == {k \in 0 .. n : Gathered(r, B, F, k)}
<1>1. 0 \in S
  <2>1. \A j : j \notin 1 .. 0
    OBVIOUS
  <2> QED BY <2>1 DEF Gathered
<1>2. ASSUME NEW k \in S, k < n PROVE k + 1 \in S
  <2> DEFINE i == k + 1
             now == r[k]
             new == r[i]
  <2>1. /\ k \in Nat /\ i \in 1 .. n /\ i \in 0 .. n /\ i - 1 = k
        /\ \A j : j \in 1 .. i <=> j \in 1 .. k \/ j = i
    BY <1>2
  <2> HIDE DEF i
  <2>2. new = Merge(now, B[i], F[i])
    BY <2>1
  <2>3. /\ new.bases = now.bases \cup B[i]
        /\ DOMAIN new.fields = DOMAIN now.fields \cup DOMAIN F[i]
        /\ \A x \in DOMAIN now.fields : new.fields[x] = now.fields[x]
        /\ \A x \in DOMAIN F[i] : x \notin DOMAIN now.fields => new.fields[x] = F[i][x]
        /\ new.agreed => now.agreed
        /\ new.agreed => \A x \in DOMAIN F[i] : SameSignature(new.fields[x], F[i][x])
    <3> HIDE DEF new, now
    <3> QED BY <2>2, MergeFacts
  <2>4. Gathered(r, B, F, k)
    BY <1>2
  <2>5. new.bases = r[0].bases \cup UNION {B[j] : j \in 1 .. i}
    <3>1. now.bases = r[0].bases \cup UNION {B[j] : j \in 1 .. k}
      BY <2>4 DEF Gathered
    <3> HIDE DEF new, now
    <3> QED BY <2>1, <2>3, <3>1
  <2>6. DOMAIN new.fields = DOMAIN r[0].fields \cup UNION {DOMAIN F[j] : j \in 1 .. i}
    <3>1. DOMAIN now.fields = DOMAIN r[0].fields \cup UNION {DOMAIN F[j] : j \in 1 .. k}
      BY <2>4 DEF Gathered
    <3> HIDE DEF new, now
    <3> QED BY <2>1, <2>3, <3>1
  <2>7. \A x \in DOMAIN r[0].fields : new.fields[x] = r[0].fields[x]
    <3>1. \A x \in DOMAIN r[0].fields : x \in DOMAIN now.fields /\ now.fields[x] = r[0].fields[x]
      BY <2>4 DEF Gathered
    <3> HIDE DEF new, now
    <3> QED BY <2>3, <3>1
  <2>8. ASSUME new.agreed
        PROVE  /\ r[0].agreed
               /\ \A j \in 1 .. i : \A x \in DOMAIN F[j] : SameSignature(new.fields[x], F[j][x])
    <3>1. now.agreed
      <4> HIDE DEF new, now
      <4> QED BY <2>3, <2>8
    <3>2. /\ r[0].agreed
          /\ \A j \in 1 .. k : \A x \in DOMAIN F[j] : SameSignature(now.fields[x], F[j][x])
      BY <2>4, <3>1 DEF Gathered
    <3>3. ASSUME NEW j \in 1 .. i, NEW x \in DOMAIN F[j]
          PROVE  SameSignature(new.fields[x], F[j][x])
      <4>1. CASE j = i
        <5> HIDE DEF new, now
        <5> QED BY <2>3, <2>8, <4>1
      <4>2. CASE j # i
        <5>1. j \in 1 .. k
          BY <2>1, <4>2
        <5>2. x \in DOMAIN now.fields
          BY <2>4, <5>1 DEF Gathered
        <5> HIDE DEF new, now
        <5> QED BY <2>3, <3>2, <5>1, <5>2
      <4> QED BY <4>1, <4>2
    <3> QED BY <3>2, <3>3
  <2>9. ASSUME NEW x \in DOMAIN new.fields PROVE IsName(x) /\ IsField(new.fields[x])
    <3>1. \A y \in DOMAIN now.fields : IsName(y) /\ IsField(now.fields[y])
      BY <2>4 DEF Gathered
    <3> HIDE DEF new, now
    <3> QED BY <2>1, <2>3, <3>1
  <2>10. Gathered(r, B, F, i)
    BY <2>5, <2>6, <2>7, <2>8, <2>9 DEF Gathered
  <2> QED BY <2>1, <2>10 DEF i
<1>3. S = 0 .. n
  <2>1. S \in SUBSET (0 .. n)
    OBVIOUS
  <2> HIDE DEF S
  <2> QED BY <1>1, <1>2, <2>1, InductUpTo
<1> QED BY <1>3

\* What a node has is what it writes and what its parents have.
LEMMA WrittenOfParents ==
  ASSUME IsAst(ast), NEW node, Range(node.extends) \subseteq Bases
  PROVE  Written(node)
           = Range(node.fields) \cup UNION {Written(ast.bases[p]) : p \in Range(node.extends)}
<1> DEFINE L(b) == Lineage(ast, ast.bases[b].extends)
           parents == Range(node.extends)
<1>1. Lineage(ast, node.extends) = UNION {L(p) \cup {p} : p \in parents}
  BY LineageOfParents DEF IsAst, Bases
<1>2. \A p : Written(ast.bases[p])
               = Range(ast.bases[p].fields) \cup UNION {Range(ast.bases[b].fields) : b \in L(p)}
  BY DEF Written
<1>3. Written(node)
        = Range(node.fields) \cup UNION {Range(ast.bases[b].fields) : b \in Lineage(ast, node.extends)}
  BY DEF Written
<1> HIDE DEF L, parents
<1>4. UNION {Range(ast.bases[b].fields) : b \in Lineage(ast, node.extends)}
        = UNION {Written(ast.bases[p]) : p \in parents}
  <2>1. ASSUME NEW b \in Lineage(ast, node.extends)
        PROVE  \E p \in parents : Range(ast.bases[b].fields) \subseteq Written(ast.bases[p])
    <3>1. PICK p \in parents : b \in L(p) \cup {p}
      BY <1>1
    <3>2. Range(ast.bases[b].fields) \subseteq Written(ast.bases[p])
      <4> DEFINE of(c) == Range(ast.bases[c].fields)
      <4>1. Written(ast.bases[p]) = of(p) \cup UNION {of(c) : c \in L(p)}
        BY <1>2
      <4> HIDE DEF of
      <4>2. of(b) \subseteq of(p) \cup UNION {of(c) : c \in L(p)}
        BY <3>1
      <4> QED BY <4>1, <4>2 DEF of
    <3> QED BY <3>2
  <2>2. ASSUME NEW p \in parents
        PROVE  Written(ast.bases[p])
                 \subseteq UNION {Range(ast.bases[b].fields) : b \in Lineage(ast, node.extends)}
    <3>1. p \in Lineage(ast, node.extends) /\ L(p) \subseteq Lineage(ast, node.extends)
      BY <1>1
    <3> QED BY <1>2, <3>1
  <2> QED BY <2>1, <2>2
<1> QED BY <1>3, <1>4 DEF parents

\* A node flattened from faithful parents without a disagreement is faithful.
LEMMA FlattenedIsFaithful ==
  ASSUME IsAst(ast), NEW node, IsNode(node), Range(node.extends) \subseteq Bases,
         \A p \in Range(node.extends) : Faithful(registry[p], ast.bases[p]),
         Flattened(node).agreed
  PROVE  Faithful(Flattened(node), node)
<1> DEFINE ext == node.extends
           own == node.fields
           empty == [bases |-> {}, fields |-> <<>>, agreed |-> TRUE]
           heir == FoldLeft(MergeParent, empty, ext)
           shape == Flattened(node)
<1>1. /\ ext \in Seq(Range(ext)) /\ own \in Seq(Range(own))
      /\ Len(ext) \in Nat /\ DOMAIN ext = 1 .. Len(ext) /\ \A k \in 1 .. Len(ext) : ext[k] \in Range(ext)
      /\ Len(own) \in Nat /\ DOMAIN own = 1 .. Len(own) /\ \A k \in 1 .. Len(own) : own[k] \in Range(own)
  BY SequenceFacts DEF IsNode, IsSequence
<1>2. FoldUnrolls(MergeParent, empty, ext)
  <2> HIDE DEF ext, empty
  <2> QED BY <1>1, FoldTrace
<1>3. PICK r : /\ r[0] = empty
               /\ \A k \in 1 .. Len(ext) : r[k] = MergeParent(r[k - 1], ext[k])
               /\ heir = r[Len(ext)]
  BY <1>2 DEF FoldUnrolls
<1> HIDE DEF heir
<1>4. FoldUnrolls(MergeField, heir, own)
  <2> HIDE DEF own
  <2> QED BY <1>1, FoldTrace
<1>5. shape = FoldLeft(MergeField, heir, own)
  BY DEF Flattened, heir
<1>6. PICK s : /\ s[0] = heir
               /\ \A k \in 1 .. Len(own) : s[k] = MergeField(s[k - 1], own[k])
               /\ shape = s[Len(own)]
  BY <1>4, <1>5 DEF FoldUnrolls
<1>7. shape.agreed
  OBVIOUS
<1> HIDE DEF shape
<1> DEFINE B1 == [k \in 1 .. Len(ext) |-> registry[ext[k]].bases \cup {ext[k]}]
           F1 == [k \in 1 .. Len(ext) |-> registry[ext[k]].fields]
           B2 == [k \in 1 .. Len(own) |-> {}]
           F2 == [k \in 1 .. Len(own) |-> Only(own[k].name, own[k].body)]
<1>8. ASSUME NEW p \in Range(ext)
      PROVE  /\ registry[p].bases = Lineage(ast, ast.bases[p].extends)
             /\ DOMAIN registry[p].fields = {f.name : f \in Written(ast.bases[p])}
             /\ \A f \in Written(ast.bases[p]) :
                  SameSignature(registry[p].fields[f.name], f.body)
             /\ \A x \in DOMAIN registry[p].fields : IsName(x) /\ IsField(registry[p].fields[x])
  BY <1>8 DEF Faithful
<1>9. Gathered(r, B1, F1, Len(ext))
  <2>1. \A k \in 1 .. Len(ext) : r[k] = Merge(r[k - 1], B1[k], F1[k])
    BY <1>3 DEF MergeParent
  <2>2. DOMAIN r[0].fields = {}
    <3>1. r[0].fields = <<>>
      BY <1>3
    <3> QED BY <3>1
  <2>3. \A k \in 1 .. Len(ext) : \A x \in DOMAIN F1[k] : IsName(x) /\ IsField(F1[k][x])
    BY <1>1, <1>8
  <2> HIDE DEF B1, F1, ext
  <2> QED BY <1>1, <2>1, <2>2, <2>3, MergesGather
<1>10. Gathered(s, B2, F2, Len(own))
  <2>1. \A k \in 1 .. Len(own) : s[k] = Merge(s[k - 1], B2[k], F2[k])
    BY <1>6 DEF MergeField
  <2>2. \A x \in DOMAIN s[0].fields : IsName(x) /\ IsField(s[0].fields[x])
    BY <1>3, <1>6, <1>9 DEF Gathered
  <2>3. ASSUME NEW k \in 1 .. Len(own), NEW x \in DOMAIN F2[k]
        PROVE  IsName(x) /\ IsField(F2[k][x])
    <3>1. IsName(own[k].name) /\ IsField(own[k].body)
      BY <1>1 DEF IsNode
    <3>2. F2[k] = Only(own[k].name, own[k].body)
      OBVIOUS
    <3>3. x = own[k].name /\ F2[k][x] = own[k].body
      <4> HIDE DEF F2, own
      <4> QED BY <3>2 DEF Only
    <3> QED BY <3>1, <3>3
  <2> HIDE DEF B2, F2, own
  <2> QED BY <1>1, <2>1, <2>2, <2>3, MergesGather
<1>11. heir.bases = UNION {registry[p].bases \cup {p} : p \in Range(ext)}
  <2>1. heir.bases = {} \cup UNION {B1[k] : k \in 1 .. Len(ext)}
    BY <1>3, <1>9 DEF Gathered
  <2>2. Range(ext) = {ext[k] : k \in 1 .. Len(ext)}
    BY <1>1 DEF Range
  <2> QED BY <2>1, <2>2, ZenonT(60)
<1>12. DOMAIN heir.fields = UNION {DOMAIN registry[p].fields : p \in Range(ext)}
  <2>1. r[0].fields = <<>>
    BY <1>3
  <2>2. DOMAIN heir.fields = DOMAIN r[0].fields \cup UNION {DOMAIN F1[k] : k \in 1 .. Len(ext)}
    BY <1>3, <1>9 DEF Gathered
  <2>3. DOMAIN heir.fields = UNION {DOMAIN F1[k] : k \in 1 .. Len(ext)}
    BY <2>1, <2>2
  <2>4. Range(ext) = {ext[k] : k \in 1 .. Len(ext)}
    BY <1>1 DEF Range
  <2> QED BY <2>3, <2>4
<1>13. shape.bases = heir.bases
  <2>1. shape.bases = heir.bases \cup UNION {B2[k] : k \in 1 .. Len(own)}
    BY <1>6, <1>10 DEF Gathered
  <2>2. UNION {B2[k] : k \in 1 .. Len(own)} = {}
    OBVIOUS
  <2> QED BY <2>1, <2>2
<1>14. DOMAIN shape.fields = DOMAIN heir.fields \cup {f.name : f \in Range(own)}
  <2>1. DOMAIN shape.fields = DOMAIN heir.fields \cup UNION {DOMAIN F2[k] : k \in 1 .. Len(own)}
    BY <1>6, <1>10 DEF Gathered
  <2>2. \A k \in 1 .. Len(own) : DOMAIN F2[k] = {own[k].name}
    BY OnlyFacts
  <2>3. Range(own) = {own[k] : k \in 1 .. Len(own)}
    BY <1>1 DEF Range
  <2> HIDE DEF F2, own
  <2> QED BY <2>1, <2>2, <2>3
<1>15. Written(node) = Range(own) \cup UNION {Written(ast.bases[p]) : p \in Range(ext)}
  BY WrittenOfParents
<1>16. shape.bases = Lineage(ast, ext)
  <2>1. Lineage(ast, ext) = UNION {Lineage(ast, ast.bases[p].extends) \cup {p} : p \in Range(ext)}
    BY LineageOfParents DEF IsAst, Bases
  <2> HIDE DEF ext
  <2> QED BY <1>8, <1>11, <1>13, <2>1
<1>17. DOMAIN shape.fields = {f.name : f \in Written(node)}
  <2> HIDE DEF ext, own
  <2> QED BY <1>8, <1>12, <1>14, <1>15
<1>18. ASSUME NEW f \in Written(node) PROVE SameSignature(shape.fields[f.name], f.body)
  <2>1. CASE f \in Range(own)
    <3>1. PICK k \in 1 .. Len(own) : own[k] = f
      BY <1>1, <2>1 DEF Range
    <3>2. DOMAIN F2[k] = {f.name} /\ F2[k][f.name] = f.body
      BY <3>1, OnlyFacts
    <3>3. \A j \in 1 .. Len(own) : \A x \in DOMAIN F2[j] : SameSignature(shape.fields[x], F2[j][x])
      BY <1>6, <1>7, <1>10 DEF Gathered
    <3> HIDE DEF F2
    <3> QED BY <3>2, <3>3
  <2>2. CASE \E p \in Range(ext) : f \in Written(ast.bases[p])
    <3>1. PICK p \in Range(ext) : f \in Written(ast.bases[p])
      BY <2>2
    <3>2. PICK k \in 1 .. Len(ext) : ext[k] = p
      BY <1>1, <3>1 DEF Range
    <3>3. F1[k] = registry[p].fields /\ f.name \in DOMAIN F1[k]
      BY <1>8, <3>1, <3>2
    <3>4. SameSignature(F1[k][f.name], f.body)
      BY <1>8, <3>1, <3>3
    <3>5. heir.agreed
      BY <1>6, <1>7, <1>10 DEF Gathered
    <3>6. SameSignature(heir.fields[f.name], F1[k][f.name]) /\ f.name \in DOMAIN heir.fields
      BY <1>3, <1>9, <3>3, <3>5 DEF Gathered
    <3>7. shape.fields[f.name] = heir.fields[f.name]
      BY <1>6, <1>10, <3>6 DEF Gathered
    <3> QED BY <3>4, <3>6, <3>7 DEF SameSignature
  <2> QED BY <1>15, <2>1, <2>2
<1>19. \A x \in DOMAIN shape.fields : IsName(x) /\ IsField(shape.fields[x])
  BY <1>6, <1>10 DEF Gathered
<1> QED BY <1>16, <1>17, <1>18, <1>19 DEF Faithful, shape

(***************************************************************************)
(* Names.                                                                  *)
(***************************************************************************)
\* A name has a first word.
LEMMA NameFacts ==
  ASSUME NEW n, IsName(n)
  PROVE  /\ n \in Seq(Range(n)) /\ Len(n) \in Nat \ {0} /\ DOMAIN n = 1 .. Len(n)
         /\ n[1] \in Range(Alphabet)
<1>1. n \in Seq(Range(n)) /\ n # <<>> /\ n[1] \in Range(Alphabet)
  BY DEF IsName, IsSequence
<1> QED BY <1>1, EmptySeq, LenProperties

\* The words of a key: those of the name and one more.
LEMMA KeyNameFacts ==
  ASSUME NEW n, IsName(n)
  PROVE  /\ DOMAIN KeyName(n) = 1 .. Len(n) + 1 /\ Len(KeyName(n)) = Len(n) + 1
         /\ \A i \in 1 .. Len(n) : KeyName(n)[i] = n[i]
         /\ KeyName(n)[Len(n) + 1] = "Id"
<1> DEFINE S == Range(n) \cup {"Id"}
           k == KeyName(n)
<1>1. n \in Seq(S) /\ Len(n) \in Nat \ {0} /\ <<"Id">> \in Seq(S)
  BY NameFacts, SeqMonotonic
<1> HIDE DEF S
<1>2. /\ k \in Seq(S) /\ Len(k) = Len(n) + Len(<<"Id">>)
      /\ \A i \in 1 .. Len(n) + Len(<<"Id">>) :
           k[i] = IF i <= Len(n) THEN n[i] ELSE <<"Id">>[i - Len(n)]
  BY <1>1, ConcatProperties DEF KeyName
<1> HIDE DEF k
<1>3. Len(<<"Id">>) = 1 /\ <<"Id">>[1] = "Id"
  OBVIOUS
<1>4. Len(k) = Len(n) + 1 /\ DOMAIN k = 1 .. Len(n) + 1
  BY <1>2, <1>3, LenProperties
<1>5. \A i \in 1 .. Len(n) : k[i] = n[i]
  BY <1>1, <1>2, <1>3
<1>6. k[Len(n) + 1] = "Id"
  <2>1. Len(n) + 1 \in 1 .. Len(n) + Len(<<"Id">>) /\ ~ (Len(n) + 1 <= Len(n))
        /\ (Len(n) + 1) - Len(n) = 1
    BY <1>1, <1>3
  <2> QED BY <1>2, <1>3, <2>1
<1> QED BY <1>4, <1>5, <1>6 DEF k

\* Two relation fields do not share a key.
LEMMA KeyNameIsInjective ==
  ASSUME NEW n, NEW o, IsName(n), IsName(o), KeyName(n) = KeyName(o)
  PROVE  n = o
<1>1. /\ n \in Seq(Range(n)) /\ o \in Seq(Range(o)) /\ Len(n) \in Nat /\ Len(o) \in Nat
      /\ Len(n) + 1 = Len(o) + 1
      /\ \A i \in 1 .. Len(n) : KeyName(n)[i] = n[i]
      /\ \A i \in 1 .. Len(o) : KeyName(o)[i] = o[i]
  BY NameFacts, KeyNameFacts
<1>2. Len(n) = Len(o) /\ \A i \in 1 .. Len(n) : n[i] = o[i]
  BY <1>1
<1> DEFINE S == Range(n) \cup Range(o)
<1>3. n \in Seq(S) /\ o \in Seq(S)
  BY <1>1, SeqMonotonic
<1> HIDE DEF S
<1> QED BY <1>2, <1>3, SeqEqual

\* No key is named like a synthetic field, but for the marker of a shape Id.
LEMMA KeyIsNotSynthetic ==
  ASSUME NEW n, IsName(n)
  PROVE  /\ \A w : KeyName(n) = Marker(w) => w = "Id"
         /\ \A t : IsName(t) => KeyName(n) # Tracker(t)
<1>1. /\ DOMAIN KeyName(n) = 1 .. Len(n) + 1 /\ Len(KeyName(n)) = Len(n) + 1 /\ Len(n) \in Nat
      /\ KeyName(n)[Len(n) + 1] = "Id"
  BY NameFacts, KeyNameFacts
<1>2. ASSUME NEW w, KeyName(n) = Marker(w) PROVE w = "Id"
  <2>1. Len(Marker(w)) = 2 /\ Marker(w)[2] = w
    BY DEF Marker
  <2> QED BY <1>1, <1>2, <2>1
<1>3. ASSUME NEW t, IsName(t) PROVE KeyName(n) # Tracker(t)
  <2> DEFINE S == Range(t) \cup {"__", "_updatedAt"}
             front == <<"__">> \o t
  <2>1. t \in Seq(S) /\ Len(t) \in Nat /\ <<"__">> \in Seq(S) /\ <<"_updatedAt">> \in Seq(S)
    BY <1>3, NameFacts, SeqMonotonic
  <2> HIDE DEF S
  <2>2. front \in Seq(S) /\ Len(front) = Len(<<"__">>) + Len(t)
    BY <2>1, ConcatProperties
  <2> DEFINE all == front \o <<"_updatedAt">>
  <2> HIDE DEF front
  <2>3. Len(<<"__">>) = 1 /\ Len(<<"_updatedAt">>) = 1 /\ <<"_updatedAt">>[1] = "_updatedAt"
    OBVIOUS
  <2>4. /\ Len(all) = Len(front) + Len(<<"_updatedAt">>)
        /\ \A i \in 1 .. Len(front) + Len(<<"_updatedAt">>) :
             all[i] = IF i <= Len(front) THEN front[i] ELSE <<"_updatedAt">>[i - Len(front)]
    BY <2>1, <2>2, ConcatProperties
  <2> HIDE DEF all
  <2>5. Len(front) \in Nat /\ Len(all) = Len(front) + 1
    BY <2>1, <2>2, <2>3, <2>4
  <2>6. all[Len(front) + 1] = "_updatedAt"
    <3>1. Len(front) + 1 \in 1 .. Len(front) + Len(<<"_updatedAt">>)
          /\ ~ (Len(front) + 1 <= Len(front)) /\ (Len(front) + 1) - Len(front) = 1
      BY <2>3, <2>5
    <3> QED BY <2>3, <2>4, <3>1
  <2>7. Tracker(t) = all
    BY DEF Tracker, all, front
  <2>8. ASSUME KeyName(n) = all PROVE FALSE
    <3>1. Len(n) + 1 = Len(front) + 1
      BY <1>1, <2>5, <2>8
    <3> QED BY <1>1, <2>6, <2>8, <3>1
  <2> QED BY <2>7, <2>8
<1> QED BY <1>2, <1>3

\* Every word has its place in the order of names.
LEMMA PositionFacts ==
  ASSUME NEW word \in Range(Alphabet)
  PROVE  Position(word) \in Nat /\ Alphabet[Position(word)] = word
<1>1. DOMAIN Alphabet = 1 .. Len(Alphabet) /\ Len(Alphabet) \in Nat
  BY TextsAssumption, SequenceFacts
<1>2. \E i \in DOMAIN Alphabet : Alphabet[i] = word
  BY DEF Range
<1> QED BY <1>1, <1>2 DEF Position

\* Of two different words one comes first.
LEMMA PrecedesIsTotal ==
  ASSUME NEW a \in Range(Alphabet), NEW b \in Range(Alphabet)
  PROVE  Precedes(a, a) /\ (a # b => (Precedes(a, b) <=> ~ Precedes(b, a)))
BY PositionFacts DEF Precedes

\* The first of one.
LEMMA FirstOfOne ==
  ASSUME NEW n, IsName(n)
  PROVE  FirstOf({n}) = n
<1>1. Precedes(n[1], n[1])
  BY NameFacts, PrecedesIsTotal
<1> QED BY <1>1 DEF FirstOf

\* Of the two fields of a pair exactly one holds the key.
LEMMA OneHolds ==
  ASSUME NEW m \in Range(Alphabet), NEW t \in Range(Alphabet), m # t, NEW n, NEW o
  PROVE  HoldsKey(t, o, m, n) <=> ~ HoldsKey(m, n, t, o)
<1>1. Precedes(m, t) <=> ~ Precedes(t, m)
  BY PrecedesIsTotal
<1> QED BY <1>1 DEF HoldsKey

(***************************************************************************)
(* The sort.                                                               *)
(***************************************************************************)
\* What waits for a clause to be served.
LEMMA ClausesAreFinite ==
  ASSUME IsAst(ast), NEW b \in Bases, NEW done
  PROVE  /\ IsSequence(Extends(b)) /\ DOMAIN Extends(b) = 1 .. Len(Extends(b))
         /\ Len(Extends(b)) \in Nat
         /\ IsFiniteSet(Unserved(b, done)) /\ Cardinality(Unserved(b, done)) \in Nat
         /\ Cardinality(Unserved(b, done)) = 0 <=> Range(Extends(b)) \subseteq done
<1>1. IsSequence(Extends(b))
  BY DEF IsAst, IsNode, Bases, Extends
<1>2. DOMAIN Extends(b) = 1 .. Len(Extends(b)) /\ Len(Extends(b)) \in Nat
  BY <1>1, SequenceFacts
<1>3. IsFiniteSet(Unserved(b, done))
  <2>1. IsFiniteSet(1 .. Len(Extends(b)))
    BY <1>2, FS_Interval
  <2>2. Unserved(b, done) \in SUBSET (1 .. Len(Extends(b)))
    BY <1>2 DEF Unserved
  <2> QED BY <2>1, <2>2, FS_Subset
<1>4. Cardinality(Unserved(b, done)) = 0 <=> Unserved(b, done) = {}
  BY <1>3, FS_EmptySet
<1>5. Unserved(b, done) = {} <=> Range(Extends(b)) \subseteq done
  BY DEF Unserved, Range
<1> QED BY <1>1, <1>2, <1>3, <1>4, <1>5, FS_CardinalityType

\* A base is ready when it waits for no clause, and at first when it has none.
LEMMA ReadyAre ==
  ASSUME IsAst(ast), NEW done
  PROVE  /\ Ready(done) = {b \in Bases : Cardinality(Unserved(b, done)) = 0 /\ b \notin done}
         /\ Ready({}) = {b \in Bases : Extends(b) = <<>>}
<1>1. Ready(done) = {b \in Bases : Cardinality(Unserved(b, done)) = 0 /\ b \notin done}
  BY ClausesAreFinite DEF Ready
<1>2. ASSUME NEW b \in Bases
      PROVE  Range(Extends(b)) \subseteq {} <=> Extends(b) = <<>>
  <2>1. Extends(b) \in Seq(Range(Extends(b))) /\ Len(Extends(b)) \in Nat
        /\ DOMAIN Extends(b) = 1 .. Len(Extends(b))
    BY ClausesAreFinite DEF IsSequence
  <2>2. ASSUME Extends(b) # <<>> PROVE Range(Extends(b)) # {}
    <3>1. Len(Extends(b)) # 0
      BY <2>1, <2>2, EmptySeq
    <3>2. 1 \in DOMAIN Extends(b)
      BY <2>1, <3>1
    <3> QED BY <3>2 DEF Range
  <2>3. Range(<<>>) = {}
    BY DEF Range
  <2> QED BY <2>2, <2>3
<1> QED BY <1>1, <1>2 DEF Ready

\* A step that leaves the sort alone.
LEMMA SortStays ==
  ASSUME SortInv, UNCHANGED <<ast, degree, stack, sorted>>,
         \/ stage' = stage
         \/ stage' = "rejected"
         \/ stage \in Flat /\ stage' \in Flat
  PROVE  SortInv'
<1>1. stage' \in Unsorted => stage \in Unsorted
  BY DEF Unsorted, Flat
<1>2. stage' = "sort" => stage = "sort"
  BY DEF Flat
<1>3. stage' = "circular" => stage = "circular"
  BY DEF Flat
<1>4. stage' \in Flat => stage \in Flat
  BY DEF Flat
<1>5. /\ Bases' = Bases /\ ParentsEarlier' = ParentsEarlier
      /\ Ready(Range(sorted))' = Ready(Range(sorted))
      /\ [b \in Bases |-> Cardinality(Unserved(b, Range(sorted)))]'
           = [b \in Bases |-> Cardinality(Unserved(b, Range(sorted)))]
  BY DEF Bases, ParentsEarlier, Ready, Unserved, Extends
<1> QED BY <1>1, <1>2, <1>3, <1>4, <1>5 DEF SortInv

\* The in_degrees count the clauses, and the roots are what is ready.
LEMMA Resolved ==
  ASSUME LoadInv, ResolveSymbols PROVE SortInv'
<1>0. IsAst(ast) /\ SortInv /\ stage = "resolve"
  BY DEF LoadInv, ReadInv, ResolveSymbols
<1>1. CASE Duplicated \/ BadTarget
  BY <1>0, <1>1, SortStays DEF ResolveSymbols
<1>2. CASE ~ (Duplicated \/ BadTarget)
  <2> DEFINE roots == {b \in Bases : Extends(b) = <<>>}
  <2>1. /\ stage' = "sort" /\ degree' = [b \in Bases |-> Len(Extends(b))]
        /\ stack' \in Orders(roots) /\ UNCHANGED <<ast, sorted>>
    BY <1>2 DEF ResolveSymbols
  <2>2. sorted = <<>> /\ sorted \in Seq(Bases) /\ IsInjective(sorted) /\ ParentsEarlier
    BY <1>0 DEF SortInv, Unsorted
  <2>3. Range(sorted) = {}
    BY <2>2 DEF Range
  <2>4. IsFiniteSet(roots)
    <3>1. IsFiniteSet(Bases)
      BY <1>0 DEF IsAst, Bases
    <3> QED BY <3>1, FS_Subset
  <2>5. roots = Ready(Range(sorted))
    BY <1>0, <2>3, ReadyAre
  <2>6. stack' \in Seq(roots) /\ Range(stack') = roots /\ IsInjective(stack')
    <3> HIDE DEF roots
    <3> QED BY <2>1, <2>4, OrderFacts
  <2>7. stack' \in Seq(Bases)
    BY <2>6, SeqMonotonic
  <2>8. ASSUME NEW b \in Bases
        PROVE  Len(Extends(b)) = Cardinality(Unserved(b, Range(sorted))) /\ Len(Extends(b)) \in Nat
    <3>1. DOMAIN Extends(b) = 1 .. Len(Extends(b)) /\ Len(Extends(b)) \in Nat
      BY <1>0, ClausesAreFinite
    <3>2. Unserved(b, Range(sorted)) = 1 .. Len(Extends(b))
      BY <2>3, <3>1 DEF Unserved
    <3>3. Cardinality(1 .. Len(Extends(b)))
            = IF 1 > Len(Extends(b)) THEN 0 ELSE Len(Extends(b)) - 1 + 1
      BY <3>1, FS_Interval
    <3>4. Cardinality(1 .. Len(Extends(b))) = Len(Extends(b))
      BY <3>1, <3>3
    <3> QED BY <3>1, <3>2, <3>4
  <2>9. degree' = [b \in Bases |-> Cardinality(Unserved(b, Range(sorted)))]
    BY <2>1, <2>8
  <2>10. degree' \in [DOMAIN degree' -> Nat] /\ DOMAIN degree' \subseteq Bases
    BY <2>1, <2>8
  <2>11. /\ Bases' = Bases /\ ParentsEarlier' = ParentsEarlier
         /\ Ready(Range(sorted))' = Ready(Range(sorted))
         /\ [b \in Bases |-> Cardinality(Unserved(b, Range(sorted)))]'
              = [b \in Bases |-> Cardinality(Unserved(b, Range(sorted)))]
    BY <2>1 DEF Bases, ParentsEarlier, Ready, Unserved, Extends
  <2>12. stage' \notin Unsorted /\ stage' # "circular" /\ stage' \notin Flat
    BY <2>1 DEF Unsorted, Flat
  <2> HIDE DEF roots
  <2> QED BY <2>1, <2>2, <2>5, <2>6, <2>7, <2>9, <2>10, <2>11, <2>12 DEF SortInv
<1> QED BY <1>1, <1>2

\* One turn of the loop: the popped base is put out, its children served, and what is then ready pushed.
LEMMA Sorted ==
  ASSUME LoadInv, SortBase PROVE SortInv'
<1> DEFINE node == stack[Len(stack)]
           done == Range(sorted)
           after == Range(sorted) \cup {node}
           left == [b \in Bases |-> degree[b] - Served(b, node)]
           served(b) == {i \in DOMAIN Extends(b) : Extends(b)[i] = node}
           freed == {b \in Bases : left[b] = 0 /\ degree[b] # 0}
           front == SubSeq(stack, 1, Len(stack) - 1)
<1>1. /\ stage = "sort" /\ stack # <<>> /\ degree' = left /\ sorted' = Append(sorted, node)
      /\ UNCHANGED <<ast, stage>>
  BY DEF SortBase
<1>2. PICK ready \in Orders(freed) : stack' = front \o ready
  BY DEF SortBase
<1>3. /\ IsAst(ast) /\ sorted \in Seq(Bases) /\ IsInjective(sorted) /\ ParentsEarlier
      /\ stack \in Seq(Bases) /\ IsInjective(stack) /\ Range(stack) = Ready(done)
      /\ degree = [b \in Bases |-> Cardinality(Unserved(b, done))]
  BY <1>1 DEF LoadInv, ReadInv, SortInv
<1>4. /\ front \in Seq(Bases) /\ IsInjective(front) /\ node \in Ready(done)
      /\ Range(front) = Ready(done) \ {node}
  BY <1>1, <1>3, Popped
<1>5. node \in Bases /\ Range(Extends(node)) \subseteq done /\ node \notin done
  BY <1>4 DEF Ready
<1>6. ASSUME NEW b \in Bases
      PROVE  /\ left[b] = Cardinality(Unserved(b, after)) /\ left[b] \in Nat
             /\ degree[b] = Cardinality(Unserved(b, done))
  <2>1. degree[b] = Cardinality(Unserved(b, done)) /\ IsFiniteSet(Unserved(b, done))
    BY <1>3, ClausesAreFinite
  <2>2. Unserved(b, after) = Unserved(b, done) \ served(b)
    BY DEF Unserved
  <2>3. Unserved(b, done) \cap served(b) = served(b)
    BY <1>5 DEF Unserved
  <2>4. Cardinality(Unserved(b, after)) = Cardinality(Unserved(b, done)) - Cardinality(served(b))
    <3> HIDE DEF served, done, after
    <3> QED BY <2>1, <2>2, <2>3, FS_Difference, ZenonT(60)
  <2>5. Served(b, node) = Cardinality(served(b))
    BY DEF Served
  <2>6. Cardinality(Unserved(b, after)) \in Nat
    BY <1>3, ClausesAreFinite
  <2> QED BY <2>1, <2>4, <2>5, <2>6
<1>7. ASSUME NEW b \in done PROVE b \in Bases /\ Cardinality(Unserved(b, done)) = 0
  <2>1. PICK i \in DOMAIN sorted : sorted[i] = b
    BY <1>7 DEF Range
  <2>2. b \in Bases /\ DOMAIN sorted = 1 .. Len(sorted) /\ Len(sorted) \in Nat
    BY <1>3, <2>1
  <2>3. ASSUME NEW p \in Range(Extends(b)) PROVE p \in done
    <3>1. PICK j \in 1 .. i - 1 : sorted[j] = p
      BY <1>3, <2>1 DEF ParentsEarlier
    <3>2. j \in DOMAIN sorted
      BY <2>2
    <3> QED BY <3>1, <3>2 DEF Range
  <2> QED BY <1>3, <2>2, <2>3, ClausesAreFinite
<1>8. ASSUME NEW b PROVE b \in Ready(after) <=> b \in (Ready(done) \ {node}) \cup freed
  <2>1. Ready(after) = {c \in Bases : Cardinality(Unserved(c, after)) = 0 /\ c \notin after}
    BY <1>3, ReadyAre
  <2>2. Ready(done) = {c \in Bases : Cardinality(Unserved(c, done)) = 0 /\ c \notin done}
    BY <1>3, ReadyAre
  <2>3. ASSUME b \in Bases, Cardinality(Unserved(b, done)) = 0
        PROVE  Cardinality(Unserved(b, after)) = 0
    <3>1. Range(Extends(b)) \subseteq after
      BY <1>3, <2>3, ClausesAreFinite
    <3> QED BY <1>3, <2>3, <3>1, ClausesAreFinite
  <2>4. Cardinality(Unserved(node, done)) = 0
    BY <1>3, <1>5, ClausesAreFinite
  <2>5. b \in freed <=> /\ b \in Bases /\ Cardinality(Unserved(b, after)) = 0
                        /\ Cardinality(Unserved(b, done)) # 0
    BY <1>6
  <2> HIDE DEF freed
  <2> QED BY <1>7, <2>1, <2>2, <2>3, <2>4, <2>5
<1>9. ready \in Seq(freed) /\ Range(ready) = freed /\ IsInjective(ready)
  <2>1. IsFiniteSet(Bases)
    BY <1>3 DEF IsAst, Bases
  <2>2. IsFiniteSet(freed)
    BY <2>1, FS_Subset
  <2> HIDE DEF freed
  <2> QED BY <2>2, OrderFacts
<1>10. ready \in Seq(Bases)
  BY <1>9, SeqMonotonic
<1>11. ASSUME NEW b \in freed PROVE b \notin Ready(done)
  <2>1. Cardinality(Unserved(b, done)) # 0 /\ b \in Bases
    BY <1>6
  <2> QED BY <1>3, <2>1, ReadyAre
<1>12. /\ sorted' \in Seq(Bases) /\ DOMAIN sorted' = 1 .. Len(sorted) + 1
       /\ DOMAIN sorted = 1 .. Len(sorted) /\ Len(sorted) \in Nat
       /\ \A i \in 1 .. Len(sorted) : sorted'[i] = sorted[i]
       /\ sorted'[Len(sorted) + 1] = node
       /\ Range(sorted') = after
  <2> HIDE DEF node
  <2> QED BY <1>1, <1>3, <1>5, PutOut
<1>13. /\ stack' \in Seq(Bases) /\ IsInjective(stack') /\ Range(stack') = Ready(after)
  <2>1. Range(front) \cap Range(ready) = {}
    BY <1>4, <1>9, <1>11
  <2> HIDE DEF front, freed, after, node, done
  <2>2. IsInjective(front \o ready) /\ front \o ready \in Seq(Bases)
    BY <1>4, <1>9, <1>10, <2>1, Pushed, ConcatProperties
  <2>3. Range(front \o ready) = Range(front) \cup Range(ready)
    BY <1>4, <1>10, RangeConcatenation
  <2>4. Range(front) \cup Range(ready) = Ready(after)
    BY <1>4, <1>8, <1>9
  <2> QED BY <1>2, <2>2, <2>3, <2>4
<1>14. IsInjective(sorted')
  <2>1. ASSUME NEW i \in DOMAIN sorted', NEW j \in DOMAIN sorted', sorted'[i] = sorted'[j]
        PROVE  i = j
    <3>1. /\ i \in DOMAIN sorted \/ i = Len(sorted) + 1
          /\ j \in DOMAIN sorted \/ j = Len(sorted) + 1
      BY <1>12
    <3>2. \A k \in DOMAIN sorted : sorted'[k] = sorted[k] /\ sorted[k] # node
      BY <1>5, <1>12 DEF Range
    <3> HIDE DEF node
    <3> QED BY <1>3, <1>12, <2>1, <3>1, <3>2 DEF IsInjective
  <2> QED BY <2>1 DEF IsInjective
<1>15. ASSUME NEW i \in DOMAIN sorted', NEW p \in Range(Extends(sorted'[i]))
       PROVE  \E j \in 1 .. i - 1 : sorted'[j] = p
  <2>1. CASE i \in DOMAIN sorted
    <3>1. PICK j \in 1 .. i - 1 : sorted[j] = p
      BY <1>3, <1>12, <2>1 DEF ParentsEarlier
    <3>2. j \in 1 .. Len(sorted)
      BY <1>12, <2>1
    <3> QED BY <1>12, <3>1, <3>2
  <2>2. CASE i = Len(sorted) + 1
    <3>1. p \in done
      BY <1>5, <1>12, <2>2
    <3>2. PICK j \in 1 .. Len(sorted) : sorted[j] = p
      BY <1>12, <3>1 DEF Range
    <3>3. j \in 1 .. i - 1
      BY <1>12, <2>2, <3>2
    <3> QED BY <1>12, <3>2, <3>3
  <2> QED BY <1>12, <2>1, <2>2
<1>16. degree' = [b \in Bases |-> Cardinality(Unserved(b, after))]
  <2> HIDE DEF after
  <2> QED BY <1>1, <1>6
<1>17. degree' \in [DOMAIN degree' -> Nat] /\ DOMAIN degree' \subseteq Bases
  BY <1>1, <1>6
<1>18. /\ Bases' = Bases
       /\ Ready(Range(sorted))' = Ready(after)
       /\ [b \in Bases |-> Cardinality(Unserved(b, Range(sorted)))]'
            = [b \in Bases |-> Cardinality(Unserved(b, after))]
  <2> HIDE DEF after
  <2> QED BY <1>1, <1>12 DEF Bases, Ready, Unserved, Extends
<1>19. ParentsEarlier'
  BY <1>1, <1>15 DEF ParentsEarlier, Extends
<1>20. stage' \notin Unsorted /\ stage' # "circular" /\ stage' \notin Flat
  BY <1>1 DEF Unsorted, Flat
<1> HIDE DEF after, left
<1> QED BY <1>12, <1>13, <1>14, <1>16, <1>17, <1>18, <1>19, <1>20 DEF SortInv

\* With nothing on the stack, either all bases are out or none of the rest is ready.
LEMMA SortOver ==
  ASSUME LoadInv, SortEnds PROVE SortInv'
<1> DEFINE done == Range(sorted)
<1>1. /\ stage = "sort" /\ stack = <<>> /\ UNCHANGED <<ast, degree, stack, sorted>>
      /\ stage' = IF Len(sorted) # Cardinality(Bases) THEN "circular" ELSE "flatten"
  BY DEF SortEnds
<1>2. /\ IsAst(ast) /\ sorted \in Seq(Bases) /\ IsInjective(sorted) /\ ParentsEarlier
      /\ stack \in Seq(Bases) /\ Range(stack) = Ready(done)
      /\ degree \in [DOMAIN degree -> Nat] /\ DOMAIN degree \subseteq Bases
  BY <1>1 DEF LoadInv, ReadInv, SortInv
<1>3. Ready(done) = {}
  BY <1>1, <1>2 DEF Range
<1>4. done \in SUBSET Bases /\ IsFiniteSet(Bases) /\ Cardinality(done) = Len(sorted)
  <2>1. DOMAIN sorted = 1 .. Len(sorted) /\ Len(sorted) \in Nat
    BY <1>2, LenProperties
  <2>2. sorted \in Bijection(1 .. Len(sorted), done)
    BY <1>2, <2>1 DEF Bijection, Injection, Surjection, Range
  <2>3. Cardinality(done) = Len(sorted)
    <3> HIDE DEF done
    <3> QED BY <2>1, <2>2, FS_CountingElements DEF ExistsBijection
  <2> QED BY <1>2, <2>3, RangeOfSeq DEF IsAst, Bases
<1>5. Len(sorted) = Cardinality(Bases) <=> done = Bases
  <2> HIDE DEF done
  <2> QED BY <1>4, FS_Subset
<1>6. /\ Bases' = Bases /\ ParentsEarlier' = ParentsEarlier
      /\ Ready(Range(sorted))' = Ready(done)
  BY <1>1 DEF Bases, ParentsEarlier, Ready, Unserved, Extends
<1>7. /\ stage' \notin Unsorted /\ stage' # "sort"
      /\ stage' = "circular" => done # Bases
      /\ stage' \in Flat => done = Bases
  BY <1>1, <1>5 DEF Unsorted, Flat
<1> QED BY <1>1, <1>2, <1>3, <1>6, <1>7 DEF SortInv

\* The sort begins with nothing.
LEMMA SchemaRead ==
  ASSUME LoadInv, ReadSchema PROVE SortInv' /\ IsAst(ast)'
<1>1. /\ stage = "read" /\ SortInv /\ text \in Texts /\ IsAst(ast)
      /\ UNCHANGED <<degree, stack, sorted>>
  BY DEF LoadInv, ReadInv, ReadSchema
<1>2. CASE Malformed(text)
  BY <1>1, <1>2, SortStays DEF ReadSchema, IsAst
<1>3. CASE ~ Malformed(text)
  <2>1. stage' = "resolve" /\ ast' = ParseSchema(text)
    BY <1>3 DEF ReadSchema
  <2>2. sorted = <<>> /\ stack = <<>> /\ degree = <<>>
    BY <1>1 DEF SortInv, Unsorted
  <2>3. DOMAIN <<>> = {}
    OBVIOUS
  <2>4. /\ <<>> \in Seq(Bases') /\ IsInjective(<<>>)
        /\ degree \in [DOMAIN degree -> Nat] /\ DOMAIN degree \subseteq Bases'
    BY <2>2, <2>3 DEF IsInjective
  <2>5. ParentsEarlier'
    BY <1>1, <2>2, <2>3 DEF ParentsEarlier
  <2>6. stage' # "sort" /\ stage' # "circular" /\ stage' \notin Flat
    BY <2>1 DEF Flat
  <2>7. SortInv'
    BY <1>1, <2>2, <2>4, <2>5, <2>6 DEF SortInv
  <2>8. IsAst(ast')
    BY <1>1, <1>3, <2>1, TextsAssumption, Parsed
  <2> QED BY <2>7, <2>8 DEF IsAst
<1> QED BY <1>2, <1>3

\* Every step of loading keeps the sort as it should be.
LEMMA SortKept ==
  ASSUME LoadInv, [Load]_loading PROVE SortInv'
<1>0. SortInv
  BY DEF LoadInv
<1>1. CASE ReadSchema
  BY <1>1, SchemaRead
<1>2. CASE ResolveSymbols
  BY <1>2, Resolved
<1>3. CASE SortBase
  BY <1>3, Sorted
<1>4. CASE SortEnds
  BY <1>4, SortOver
<1>5. CASE FlattenBase
  BY <1>0, <1>5, SortStays DEF FlattenBase
<1>6. CASE Crystallize
  BY <1>0, <1>6, SortStays DEF Crystallize, Flat
<1>7. CASE CheckGraph
  <2>1. UNCHANGED <<ast, degree, stack, sorted>> /\ stage = "check" /\ stage' \in {"rejected", "inject"}
    BY <1>7 DEF CheckGraph
  <2> QED BY <1>0, <2>1, SortStays DEF Flat
<1>8. CASE ValidateRelations
  <2>1. /\ UNCHANGED <<ast, degree, stack, sorted>> /\ stage = "inject"
        /\ stage' \in {"rejected", "accepted"}
    BY <1>8 DEF ValidateRelations
  <2> QED BY <1>0, <2>1, SortStays DEF Flat
<1>9. CASE \E m \in Models : InjectKeys(m)
  BY <1>0, <1>9, SortStays DEF InjectKeys
<1>10. CASE UNCHANGED loading
  BY <1>0, <1>10, SortStays DEF loading
<1> QED BY <1>1, <1>2, <1>3, <1>4, <1>5, <1>6, <1>7, <1>8, <1>9, <1>10 DEF Load

(***************************************************************************)
(* A base is left behind only by a cycle.                                  *)
(***************************************************************************)
\* A base out of the sort has its lineage out before it, so it is not among it; one that is never
\* ready has a parent that is never ready, and so on into a cycle.
LEMMA CyclesOnly ==
  ASSUME LoadInv
  PROVE  OnlyCyclesRefused
<1> DEFINE done == Range(sorted)
           L(b) == Lineage(ast, Extends(b))
           rest == Bases \ done
<1>1. IsAst(ast) /\ IsFiniteSet(Bases) /\ ParentsEarlier /\ IsInjective(sorted) /\ sorted \in Seq(Bases)
  BY DEF LoadInv, ReadInv, SortInv, IsAst, Bases
<1>2. ASSUME stage \in {"circular"} \cup Flat, NEW b \in Bases
      PROVE  /\ Range(Extends(b)) \subseteq Bases /\ Range(Extends(b)) \subseteq L(b)
             /\ L(b) \subseteq Bases /\ IsFiniteSet(L(b)) /\ Cardinality(L(b)) \in Nat
             /\ \A p \in L(b) : L(p) \subseteq L(b)
  <2>1. Range(Extends(b)) \subseteq Bases
    BY <1>2 DEF LoadInv, ReadInv, BadTarget
  <2>2. L(b) \subseteq Bases /\ Range(Extends(b)) \subseteq L(b)
    BY <1>1, <2>1, LineageIsLeast DEF Bases
  <2>3. IsFiniteSet(L(b)) /\ Cardinality(L(b)) \in Nat
    <3> HIDE DEF L
    <3> QED BY <1>1, <2>2, FS_Subset, FS_CardinalityType
  <2>4. \A p \in L(b) : L(p) \subseteq L(b)
    BY <1>1, LineageNests DEF Bases, Extends
  <2> QED BY <2>1, <2>2, <2>3, <2>4
<1>3. ASSUME stage = "circular" PROVE \E b \in Bases : b \in L(b)
  <2>1. done # Bases /\ Ready(done) = {} /\ done \in SUBSET Bases
    BY <1>1, <1>3, RangeOfSeq DEF LoadInv, SortInv
  <2>2. ASSUME NEW b \in rest PROVE \E p \in rest : p \in L(b)
    <3>1. ~ (Range(Extends(b)) \subseteq done)
      BY <2>1, <2>2 DEF Ready
    <3> HIDE DEF L
    <3> QED BY <1>2, <1>3, <3>1
  <2> DEFINE sizes == {Cardinality(L(b)) : b \in rest}
  <2>3. sizes \in SUBSET Nat /\ sizes # {}
    <3> HIDE DEF L, done
    <3>1. sizes \in SUBSET Nat
      BY <1>2, <1>3
    <3> QED BY <2>1, <3>1
  <2>4. PICK n \in sizes : \A k \in sizes : n <= k
    <3> HIDE DEF sizes
    <3> QED BY <2>3, Least
  <2>5. PICK b \in rest : n = Cardinality(L(b))
    BY <2>4
  <2>6. PICK p \in rest : p \in L(b)
    BY <2>2, <2>5
  <2>7. L(p) \in SUBSET L(b) /\ n <= Cardinality(L(p))
    <3> HIDE DEF L
    <3> QED BY <1>2, <1>3, <2>4, <2>5, <2>6
  <2>8. IsFiniteSet(L(b)) /\ Cardinality(L(b)) \in Nat /\ Cardinality(L(p)) \in Nat
    <3> HIDE DEF L
    <3> QED BY <1>2, <1>3, <2>5, <2>6
  <2>9. L(p) = L(b)
    <3> HIDE DEF L
    <3>1. Cardinality(L(p)) <= Cardinality(L(b)) /\ (Cardinality(L(b)) = Cardinality(L(p)) => L(b) = L(p))
      BY <2>7, <2>8, FS_Subset
    <3> QED BY <2>5, <2>7, <2>8, <3>1
  <2> HIDE DEF L
  <2> QED BY <2>6, <2>9
<1>4. ASSUME stage \in Flat, NEW b \in Bases PROVE b \notin L(b)
  <2>1. PICK i \in DOMAIN sorted : sorted[i] = b
    BY <1>4 DEF LoadInv, SortInv, Range
  <2>2. DOMAIN sorted = 1 .. Len(sorted) /\ Len(sorted) \in Nat
    BY <1>1, LenProperties
  <2> DEFINE T == {sorted[j] : j \in 1 .. i - 1}
  <2>3. Range(Extends(b)) \subseteq T
    BY <1>1, <2>1 DEF ParentsEarlier
  <2>4. ASSUME NEW c \in T PROVE Range(Extends(c)) \subseteq T
    <3>1. PICK j \in 1 .. i - 1 : sorted[j] = c
      OBVIOUS
    <3>2. ASSUME NEW p \in Range(Extends(c)) PROVE p \in T
      <4>1. j \in DOMAIN sorted
        BY <2>1, <2>2
      <4>2. PICK k \in 1 .. j - 1 : sorted[k] = p
        BY <1>1, <3>1, <3>2, <4>1 DEF ParentsEarlier
      <4>3. k \in 1 .. i - 1
        BY <2>1, <2>2, <4>1
      <4> QED BY <4>2, <4>3
    <3> QED BY <3>2
  <2>5. Closed(ast, T)
    <3> HIDE DEF T
    <3> QED BY <2>4 DEF Closed, Parents, Extends
  <2>6. L(b) \subseteq T
    <3> HIDE DEF T
    <3> QED BY <1>1, <2>3, <2>5, LineageIsLeast DEF Bases
  <2>7. b \notin T
    <3> SUFFICES ASSUME b \in T PROVE FALSE
      OBVIOUS
    <3>1. PICK j \in 1 .. i - 1 : sorted[j] = b
      OBVIOUS
    <3>2. j \in DOMAIN sorted /\ j # i
      BY <2>1, <2>2
    <3> QED BY <1>1, <2>1, <3>1, <3>2 DEF IsInjective
  <2> QED BY <2>6, <2>7
<1> QED BY <1>3, <1>4 DEF OnlyCyclesRefused, Flat

\* A step that leaves the text and its AST alone.
LEMMA ReadStays ==
  ASSUME ReadInv, UNCHANGED <<text, ast>>,
         \/ stage' = stage
         \/ stage' = "rejected"
         \/ stage \in {"sort", "circular"} \cup Flat /\ stage' \in {"circular"} \cup Flat
  PROVE  ReadInv'
<1>1. /\ stage' \in Unsorted \cup {"sort", "circular", "rejected"} \cup Flat
      /\ stage' = "read" => stage = "read"
      /\ stage' \in {"sort", "circular"} \cup Flat => stage \in {"sort", "circular"} \cup Flat
  BY DEF ReadInv, Flat
<1>2. Duplicated' = Duplicated /\ BadTarget' = BadTarget /\ IsAst(ast)' = IsAst(ast)
  BY DEF Duplicated, BadTarget, Models, Bases, Extends, IsAst
<1> QED BY <1>1, <1>2 DEF ReadInv

\* Every step of loading keeps the AST one.
LEMMA ReadKept ==
  ASSUME LoadInv, [Load]_loading PROVE ReadInv'
<1>0. ReadInv
  BY DEF LoadInv
<1>1. CASE ReadSchema
  <2>1. IsAst(ast)'
    BY <1>1, SchemaRead
  <2>2. text' = text /\ stage' \in {"rejected", "resolve"}
    BY <1>1 DEF ReadSchema
  <2> QED BY <1>0, <2>1, <2>2 DEF ReadInv, Unsorted, Flat
<1>2. CASE ResolveSymbols
  <2>1. CASE Duplicated \/ BadTarget
    BY <1>0, <1>2, <2>1, ReadStays DEF ResolveSymbols
  <2>2. CASE ~ (Duplicated \/ BadTarget)
    <3>1. stage' = "sort" /\ UNCHANGED <<text, ast>>
      BY <1>2, <2>2 DEF ResolveSymbols
    <3>2. Duplicated' = Duplicated /\ BadTarget' = BadTarget /\ IsAst(ast)' = IsAst(ast)
      BY <3>1 DEF Duplicated, BadTarget, Models, Bases, Extends, IsAst
    <3> QED BY <1>0, <2>2, <3>1, <3>2 DEF ReadInv, Unsorted, Flat
  <2> QED BY <2>1, <2>2
<1>3. CASE SortBase
  BY <1>0, <1>3, ReadStays DEF SortBase
<1>4. CASE SortEnds
  <2>1. UNCHANGED <<text, ast>> /\ stage = "sort" /\ stage' \in {"circular", "flatten"}
    BY <1>4 DEF SortEnds
  <2> QED BY <1>0, <2>1, ReadStays DEF Flat
<1>5. CASE FlattenBase
  BY <1>0, <1>5, ReadStays DEF FlattenBase
<1>6. CASE Crystallize
  <2>1. UNCHANGED <<text, ast>> /\ stage = "flatten" /\ stage' \in {"rejected", "check"}
    BY <1>6 DEF Crystallize
  <2> QED BY <1>0, <2>1, ReadStays DEF Flat
<1>7. CASE CheckGraph
  <2>1. UNCHANGED <<text, ast>> /\ stage = "check" /\ stage' \in {"rejected", "inject"}
    BY <1>7 DEF CheckGraph
  <2> QED BY <1>0, <2>1, ReadStays DEF Flat
<1>8. CASE ValidateRelations
  <2>1. UNCHANGED <<text, ast>> /\ stage = "inject" /\ stage' \in {"rejected", "accepted"}
    BY <1>8 DEF ValidateRelations
  <2> QED BY <1>0, <2>1, ReadStays DEF Flat
<1>9. CASE \E m \in Models : InjectKeys(m)
  BY <1>0, <1>9, ReadStays DEF InjectKeys
<1>10. CASE UNCHANGED loading
  BY <1>0, <1>10, ReadStays DEF loading
<1> QED BY <1>1, <1>2, <1>3, <1>4, <1>5, <1>6, <1>7, <1>8, <1>9, <1>10 DEF Load

\* A step that leaves the registry alone.
LEMMA FlattenStays ==
  ASSUME FlattenInv, UNCHANGED <<ast, sorted, registry>>,
         \/ stage' = stage
         \/ stage' = "rejected"
         \/ stage \in Flat /\ stage' \in Flat /\ DOMAIN registry = Bases
         \/ stage \notin Flat \cup {"rejected"} /\ stage' \notin Flat
  PROVE  FlattenInv'
<1>1. /\ stage' \notin Flat \cup {"rejected"} => stage \notin Flat \cup {"rejected"}
      /\ stage' \in Flat => stage \in Flat
      /\ stage' \in Flat \ {"flatten"} => stage \in Flat \ {"flatten"} \/ DOMAIN registry = Bases
  BY DEF Flat
<1>2. Bases' = Bases
  BY DEF Bases
<1>3. \A b \in DOMAIN registry :
        Faithful(registry[b], ast.bases[b])' <=> Faithful(registry[b], ast.bases[b])
  BY DEF Faithful, Written
<1>4. /\ DOMAIN registry' \subseteq Bases'
      /\ stage' \notin Flat \cup {"rejected"} => registry' = <<>>
      /\ stage' \in Flat \ {"flatten"} => DOMAIN registry' = Bases'
  BY <1>1, <1>2 DEF FlattenInv
<1>5. ASSUME stage' \in Flat
      PROVE  /\ (\E k \in 0 .. Len(sorted) : DOMAIN registry = {sorted[j] : j \in 1 .. k})'
             /\ (\A b \in DOMAIN registry : Faithful(registry[b], ast.bases[b]))'
  <2>1. /\ \E k \in 0 .. Len(sorted) : DOMAIN registry = {sorted[j] : j \in 1 .. k}
        /\ \A b \in DOMAIN registry : Faithful(registry[b], ast.bases[b])
    BY <1>1, <1>5 DEF FlattenInv
  <2> QED BY <1>3, <2>1
<1> QED BY <1>4, <1>5 DEF FlattenInv

\* One base is flattened, after its parents.
LEMMA Flattening ==
  ASSUME LoadInv, FlattenBase PROVE FlattenInv'
<1> DEFINE next == Cardinality(DOMAIN registry) + 1
           base == sorted[next]
           shape == Flattened(ast.bases[base])
<1>1. /\ stage = "flatten" /\ DOMAIN registry # Bases /\ UNCHANGED <<ast, sorted>>
      /\ \/ shape.agreed /\ registry' = Over(registry, Only(base, shape)) /\ stage' = stage
         \/ stage' = "rejected" /\ registry' = registry
  BY DEF FlattenBase
<1>2. FlattenInv /\ stage \in Flat
  BY <1>1 DEF LoadInv, Flat
<1>3. CASE stage' = "rejected" /\ registry' = registry
  BY <1>1, <1>2, <1>3, FlattenStays
<1>4. CASE shape.agreed /\ registry' = Over(registry, Only(base, shape)) /\ stage' = stage
  <2>1. /\ IsAst(ast) /\ ~ BadTarget /\ IsInjective(sorted) /\ sorted \in Seq(Bases)
        /\ ParentsEarlier /\ Range(sorted) = Bases
    BY <1>2 DEF LoadInv, ReadInv, SortInv
  <2>2. PICK k \in 0 .. Len(sorted) : DOMAIN registry = {sorted[j] : j \in 1 .. k}
    BY <1>2 DEF FlattenInv
  <2>3. DOMAIN sorted = 1 .. Len(sorted) /\ Len(sorted) \in Nat /\ k \in Nat
    BY <2>1, LenProperties, SMTT(30)
  <2>4. k # Len(sorted)
    BY <1>1, <2>1, <2>2, <2>3 DEF Range
  <2>5. Cardinality(DOMAIN registry) = k
    <3> DEFINE front == [j \in 1 .. k |-> sorted[j]]
    <3>1. \A j \in 1 .. k : j \in DOMAIN sorted
      BY <2>2, <2>3
    <3>2. front \in Bijection(1 .. k, DOMAIN registry)
      BY <2>1, <2>2, <3>1 DEF Bijection, Injection, Surjection, IsInjective
    <3> HIDE DEF front
    <3> QED BY <2>3, <3>2, FS_CountingElements DEF ExistsBijection
  <2>6. next = k + 1 /\ k + 1 \in 1 .. Len(sorted) /\ base = sorted[k + 1] /\ base \in Bases
    <3>1. next = k + 1 /\ k + 1 \in 1 .. Len(sorted)
      BY <2>2, <2>3, <2>4, <2>5
    <3> HIDE DEF next
    <3> QED BY <2>1, <2>3, <3>1
  <2>7. Range(Extends(base)) \subseteq DOMAIN registry
    <3>1. ASSUME NEW p \in Range(Extends(base)) PROVE p \in DOMAIN registry
      <4>1. PICK j \in 1 .. (k + 1) - 1 : sorted[j] = p
        BY <2>1, <2>3, <2>6, <3>1 DEF ParentsEarlier
      <4> QED BY <2>2, <2>3, <4>1
    <3> QED BY <3>1
  <2>8. \A b \in DOMAIN registry : Faithful(registry[b], ast.bases[b])
    BY <1>2 DEF FlattenInv
  <2> HIDE DEF base, next
  <2>9. Faithful(shape, ast.bases[base])
    <3>1. IsNode(ast.bases[base]) /\ Range(ast.bases[base].extends) \subseteq Bases
      BY <2>1, <2>6 DEF IsAst, Bases, BadTarget, Extends
    <3>2. \A p \in Range(ast.bases[base].extends) : Faithful(registry[p], ast.bases[p])
      BY <2>7, <2>8 DEF Extends
    <3> QED BY <1>4, <2>1, <3>1, <3>2, FlattenedIsFaithful
  <2> HIDE DEF shape
  <2>10. /\ DOMAIN registry' = DOMAIN registry \cup {base}
         /\ \A b \in DOMAIN registry : registry'[b] = registry[b]
         /\ base \notin DOMAIN registry => registry'[base] = shape
    BY <1>4 DEF Over, Only
  <2>11. \A b \in DOMAIN registry' : Faithful(registry'[b], ast.bases[b])
    BY <2>8, <2>9, <2>10
  <2>12. \A b \in DOMAIN registry' :
           Faithful(registry[b], ast.bases[b])' <=> Faithful(registry'[b], ast.bases[b])
    BY <1>1 DEF Faithful, Written
  <2>13. DOMAIN registry' = {sorted[j] : j \in 1 .. k + 1} /\ k + 1 \in 0 .. Len(sorted)
    <3>1. \A j : j \in 1 .. k + 1 <=> j \in 1 .. k \/ j = k + 1
      BY <2>3
    <3> QED BY <2>2, <2>3, <2>6, <2>10, <3>1
  <2>14. Bases' = Bases /\ DOMAIN registry' \subseteq Bases
    BY <1>1, <1>2, <2>6, <2>10 DEF Bases, FlattenInv
  <2>15. stage' = "flatten" /\ stage' \in Flat
    BY <1>1, <1>4 DEF Flat
  <2> QED BY <1>1, <2>11, <2>12, <2>13, <2>14, <2>15, SMTT(30) DEF FlattenInv
<1> QED BY <1>1, <1>3, <1>4

\* Every step of loading keeps the registry faithful.
LEMMA FlattenKept ==
  ASSUME LoadInv, [Load]_loading PROVE FlattenInv'
<1>0. FlattenInv
  BY DEF LoadInv
<1>1. CASE ReadSchema
  <2>1. /\ stage = "read" /\ registry' = registry /\ stage' \in {"rejected", "resolve"}
    BY <1>1 DEF ReadSchema
  <2>2. registry = <<>>
    BY <1>0, <2>1 DEF FlattenInv, Flat
  <2>3. DOMAIN registry' \subseteq Bases'
    <3>1. DOMAIN <<>> = {}
      OBVIOUS
    <3> QED BY <2>1, <2>2, <3>1
  <2> QED BY <2>1, <2>2, <2>3 DEF FlattenInv, Flat
<1>2. CASE ResolveSymbols
  <2>1. /\ stage = "resolve" /\ stage' \in {"rejected", "sort"}
        /\ UNCHANGED <<ast, sorted, registry>>
    BY <1>2 DEF ResolveSymbols
  <2> QED BY <1>0, <2>1, FlattenStays DEF Flat
<1>3. CASE SortBase
  <2>1. stage = "sort" /\ stage' = "sort" /\ UNCHANGED <<ast, registry>>
    BY <1>3 DEF SortBase
  <2>2. Bases' = Bases
    BY <2>1 DEF Bases
  <2> QED BY <1>0, <2>1, <2>2 DEF FlattenInv, Flat
<1>4. CASE SortEnds
  <2>1. /\ stage = "sort" /\ stage' \in {"circular", "flatten"}
        /\ UNCHANGED <<ast, sorted, registry>>
    BY <1>4 DEF SortEnds
  <2>2. Bases' = Bases /\ registry' = <<>> /\ stage' \notin Flat \ {"flatten"}
    BY <1>0, <2>1 DEF Bases, FlattenInv, Flat
  <2>3. DOMAIN registry' = {}
    <3>1. DOMAIN <<>> = {}
      OBVIOUS
    <3> QED BY <2>2, <3>1
  <2>4. \E k \in 0 .. Len(sorted') : DOMAIN registry' = {sorted'[j] : j \in 1 .. k}
    <3>1. 0 \in 0 .. Len(sorted')
      <4>1. sorted \in Seq(Bases)
        BY DEF LoadInv, SortInv
      <4> QED BY <2>1, <4>1, LenProperties
    <3>2. {sorted'[j] : j \in 1 .. 0} = {}
      OBVIOUS
    <3> QED BY <2>3, <3>1, <3>2
  <2> QED BY <2>2, <2>3, <2>4 DEF FlattenInv
<1>5. CASE FlattenBase
  BY <1>5, Flattening
<1>6. CASE Crystallize
  <2>1. /\ stage = "flatten" /\ DOMAIN registry = Bases /\ stage' \in {"rejected", "check"}
        /\ UNCHANGED <<ast, sorted, registry>>
    BY <1>6 DEF Crystallize
  <2> QED BY <1>0, <2>1, FlattenStays DEF Flat
<1>7. CASE CheckGraph
  <2>1. /\ stage = "check" /\ stage' \in {"rejected", "inject"}
        /\ UNCHANGED <<ast, sorted, registry>>
    BY <1>7 DEF CheckGraph
  <2>2. DOMAIN registry = Bases
    BY <1>0, <2>1 DEF FlattenInv, Flat
  <2> QED BY <1>0, <2>1, <2>2, FlattenStays DEF Flat
<1>8. CASE ValidateRelations
  <2>1. /\ stage = "inject" /\ stage' \in {"rejected", "accepted"}
        /\ UNCHANGED <<ast, sorted, registry>>
    BY <1>8 DEF ValidateRelations
  <2>2. DOMAIN registry = Bases
    BY <1>0, <2>1 DEF FlattenInv, Flat
  <2> QED BY <1>0, <2>1, <2>2, FlattenStays DEF Flat
<1>9. CASE \E m \in Models : InjectKeys(m)
  BY <1>0, <1>9, FlattenStays DEF InjectKeys
<1>10. CASE UNCHANGED loading
  BY <1>0, <1>10, FlattenStays DEF loading
<1> QED BY <1>1, <1>2, <1>3, <1>4, <1>5, <1>6, <1>7, <1>8, <1>9, <1>10 DEF Load

(***************************************************************************)
(* The models.                                                             *)
(***************************************************************************)
\* A step that leaves the models alone.
LEMMA ModelStays ==
  ASSUME ModelInv, UNCHANGED <<ast, resolved, visited>>,
         \/ stage' = stage
         \/ stage' = "rejected"
         \/ stage' \in {"sort", "circular", "flatten"} /\ stage \in {"resolve", "sort"}
         \/ stage' = "accepted" /\ stage = "inject" /\ visited = Models
  PROVE  ModelInv'
<1>1. /\ stage' \in Unsorted \cup {"sort", "circular", "flatten"}
           => stage \in Unsorted \cup {"sort", "circular", "flatten"}
      /\ stage' \notin {"inject", "accepted", "rejected"}
           => stage \notin {"inject", "accepted", "rejected"}
      /\ stage' \in {"check", "inject", "accepted"} => stage \in {"check", "inject", "accepted"}
      /\ stage' \in {"inject", "accepted"} => stage \in {"inject", "accepted"}
      /\ stage' = "accepted" => stage = "accepted" \/ visited = Models
  BY DEF Unsorted
<1>2. Models' = Models
  BY DEF Models
<1>3. ASSUME NEW m
      PROVE  /\ Inherits(m)' <=> Inherits(m)
             /\ Undisturbed(m)' <=> Undisturbed(m)
             /\ Related(m)' <=> Related(m)
             /\ \A n, o : /\ Paired(m, n, o)' <=> Paired(m, n, o)
                          /\ Settled(m, n, o)' <=> Settled(m, n, o)
  <2>1. Inherits(m)' <=> Inherits(m)
    BY DEF Inherits, WrittenIn
  <2>2. Undisturbed(m)' <=> Undisturbed(m)
    BY DEF Undisturbed, Declares, WrittenIn
  <2>3. Related(m)' <=> Related(m)
    BY <1>2 DEF Related, RelationName
  <2>4. ASSUME NEW n, NEW o PROVE Paired(m, n, o)' <=> Paired(m, n, o)
    BY DEF Paired, RelationsNamed, RelationName
  <2>5. ASSUME NEW n, NEW o PROVE Settled(m, n, o)' <=> Settled(m, n, o)
    BY DEF Settled, HoldsKey, Declares, WrittenIn
  <2> QED BY <2>1, <2>2, <2>3, <2>4, <2>5
<1>4. /\ visited' \subseteq Models'
      /\ resolved' # <<>> => DOMAIN resolved' = Models'
      /\ stage' \in Unsorted \cup {"sort", "circular", "flatten"} => resolved' = <<>>
      /\ stage' \notin {"inject", "accepted", "rejected"} => visited' = {}
      /\ stage' = "accepted" => visited' = Models'
  BY <1>1, <1>2 DEF ModelInv
<1>5. ASSUME stage' \in {"check", "inject", "accepted"}
      PROVE  /\ DOMAIN resolved' = Models'
             /\ \A m \in Models' : Inherits(m)' /\ (m \notin visited' => Undisturbed(m)')
  BY <1>1, <1>2, <1>3, <1>5 DEF ModelInv
<1>6. ASSUME stage' \in {"inject", "accepted"}, NEW m \in Models'
      PROVE  /\ Related(m)'
             /\ m \in visited' =>
                  \A n \in DOMAIN resolved'[m].fields :
                    \A o : Paired(m, n, o)' => Settled(m, n, o)'
  <2>1. /\ Related(m)
        /\ m \in visited =>
             \A n \in DOMAIN resolved[m].fields : \A o : Paired(m, n, o) => Settled(m, n, o)
    BY <1>1, <1>2, <1>6 DEF ModelInv
  <2> QED BY <1>3, <2>1
<1> QED BY <1>4, <1>5, <1>6 DEF ModelInv

\* The columns a model of a shape receives, all of them scalar.
Trackers(shape) ==
  [n \in {Tracker(t) : t \in Tracked(shape.fields)} |-> Column("DateTime", FALSE, {})]

Added(m, shape) == Over(Synthetic(m, shape), Trackers(shape))

\* Which columns those are.
LEMMA AddedFacts ==
  ASSUME NEW m, NEW shape
  PROVE  /\ \A n \in DOMAIN Added(m, shape) :
              /\ IsField(Added(m, shape)[n]) /\ Added(m, shape)[n].kind = "Scalar"
              /\ \/ n \in {Marker(w) : w \in shape.bases \cup {m}}
                 \/ n \in {Marker("id"), Marker("kind"), Marker("updatedAt")}
                 \/ \E t \in DOMAIN shape.fields : n = Tracker(t)
         /\ \A w \in shape.bases \cup {m} : Marker(w) \in DOMAIN Added(m, shape)
<1> DEFINE key == Only(Marker("id"), Column(IdType(m), FALSE, {"__id"}))
           markers == [n \in {Marker(w) : w \in shape.bases \cup {m}} |-> Column("Boolean", FALSE, {})]
           kind == Only(Marker("kind"), Column("String", FALSE, {}))
           isTracked == \E i \in DOMAIN ast.models[m].blocks : ast.models[m].blocks[i][1] = "track"
           stamp == [n \in IF isTracked THEN {Marker("updatedAt")} ELSE {} |->
                       Column("DateTime", FALSE, {})]
           Plain(f) == \A n \in DOMAIN f : IsField(f[n]) /\ f[n].kind = "Scalar"
<1>1. ASSUME NEW of, NEW optional, NEW tags
      PROVE  IsField(Column(of, optional, tags)) /\ Column(of, optional, tags).kind = "Scalar"
  BY DEF Column, FieldBody, IsField
<1>2. Plain(key) /\ DOMAIN key = {Marker("id")}
  BY <1>1 DEF Only
<1>3. Plain(kind) /\ DOMAIN kind = {Marker("kind")}
  BY <1>1 DEF Only
<1>4. Plain(markers) /\ DOMAIN markers = {Marker(w) : w \in shape.bases \cup {m}}
  BY <1>1
<1>5. Plain(stamp) /\ DOMAIN stamp \subseteq {Marker("updatedAt")}
  BY <1>1
<1>6. /\ Plain(Trackers(shape))
      /\ \A n \in DOMAIN Trackers(shape) : \E t \in DOMAIN shape.fields : n = Tracker(t)
  <2>1. Plain(Trackers(shape))
    BY <1>1 DEF Trackers
  <2>2. \A n \in DOMAIN Trackers(shape) : \E t \in DOMAIN shape.fields : n = Tracker(t)
    BY DEF Trackers, Tracked
  <2> QED BY <2>1, <2>2
<1>7. Added(m, shape) = Over(Over(key, Over(markers, Over(kind, stamp))), Trackers(shape))
  BY DEF Added, Synthetic
<1>8. ASSUME NEW f, NEW g, Plain(f), Plain(g) PROVE Plain(Over(f, g))
  BY <1>8 DEF Over
<1> HIDE DEF Plain, key, kind, markers, stamp
<1>9. Plain(Added(m, shape))
  BY <1>2, <1>3, <1>4, <1>5, <1>6, <1>7, <1>8
<1>10. DOMAIN Added(m, shape) = DOMAIN key \cup DOMAIN markers \cup DOMAIN kind \cup DOMAIN stamp
                                  \cup DOMAIN Trackers(shape)
  BY <1>7 DEF Over
<1>11. ASSUME NEW n \in DOMAIN Added(m, shape)
       PROVE  \/ n \in {Marker(w) : w \in shape.bases \cup {m}}
              \/ n \in {Marker("id"), Marker("kind"), Marker("updatedAt")}
              \/ \E t \in DOMAIN shape.fields : n = Tracker(t)
  BY <1>2, <1>3, <1>4, <1>5, <1>6, <1>10
<1>12. \A w \in shape.bases \cup {m} : Marker(w) \in DOMAIN Added(m, shape)
  BY <1>4, <1>10
<1> QED BY <1>9, <1>11, <1>12 DEF Plain

\* The models get their lineage, their fields and their synthetic fields, and no key column but
\* those they declare.
LEMMA Crystallized ==
  ASSUME LoadInv, Crystallize PROVE ModelInv'
<1> DEFINE shape == [m \in Models |-> Flattened(ast.models[m])]
           fields(m) == Over(Over(shape[m].fields, Synthetic(m, shape[m])), Trackers(shape[m]))
           added(m) == Added(m, shape[m])
<1>0. ModelInv /\ stage = "flatten" /\ DOMAIN registry = Bases /\ UNCHANGED <<ast, registry, visited>>
  BY DEF LoadInv, Crystallize
<1>1. CASE stage' = "rejected" /\ UNCHANGED resolved
  BY <1>0, <1>1, ModelStays
<1>2. CASE /\ stage' = "check" /\ \A m \in Models : ~ Clashes(m, shape[m])
           /\ resolved' = [m \in Models |-> [bases |-> shape[m].bases, fields |-> fields(m)]]
  <2>1. /\ IsAst(ast) /\ ~ BadTarget
        /\ \A b \in Bases : Faithful(registry[b], ast.bases[b])
    BY <1>0 DEF LoadInv, ReadInv, FlattenInv, Flat
  <2>2. ASSUME NEW m \in Models
        PROVE  Faithful(shape[m], ast.models[m]) /\ IsNode(ast.models[m])
    <3>1. IsNode(ast.models[m]) /\ Range(ast.models[m].extends) \subseteq Bases
      BY <2>1 DEF IsAst, BadTarget, Models
    <3>2. Flattened(ast.models[m]).agreed
      BY <1>2 DEF Clashes
    <3> QED BY <2>1, <3>1, <3>2, FlattenedIsFaithful
  <2>3. ASSUME NEW m \in Models
        PROVE  /\ resolved'[m] = [bases |-> resolved'[m].bases, fields |-> resolved'[m].fields]
               /\ resolved'[m].bases = shape[m].bases /\ resolved'[m].fields = fields(m)
    BY <1>2
  <2> HIDE DEF shape
  <2>4. ASSUME NEW m \in Models
        PROVE  /\ DOMAIN fields(m) = DOMAIN shape[m].fields \cup DOMAIN added(m)
               /\ \A n \in DOMAIN shape[m].fields : fields(m)[n] = shape[m].fields[n]
               /\ \A n \in DOMAIN fields(m) : n \notin DOMAIN shape[m].fields
                    => IsField(fields(m)[n]) /\ fields(m)[n].kind = "Scalar"
               /\ \A w \in shape[m].bases \cup {m} : Marker(w) \in DOMAIN added(m)
               /\ \A n \in DOMAIN added(m) :
                    \/ n \in {Marker(w) : w \in shape[m].bases \cup {m}}
                    \/ n \in {Marker("id"), Marker("kind"), Marker("updatedAt")}
                    \/ \E t \in DOMAIN shape[m].fields : n = Tracker(t)
    <3>1. fields(m) = Over(shape[m].fields, added(m))
      BY DEF Over, Added
    <3>2. /\ \A n \in DOMAIN added(m) : IsField(added(m)[n]) /\ added(m)[n].kind = "Scalar"
          /\ \A w \in shape[m].bases \cup {m} : Marker(w) \in DOMAIN added(m)
          /\ \A n \in DOMAIN added(m) :
               \/ n \in {Marker(w) : w \in shape[m].bases \cup {m}}
               \/ n \in {Marker("id"), Marker("kind"), Marker("updatedAt")}
               \/ \E t \in DOMAIN shape[m].fields : n = Tracker(t)
      BY AddedFacts
    <3> HIDE DEF fields, added
    <3>3. /\ DOMAIN fields(m) = DOMAIN shape[m].fields \cup DOMAIN added(m)
          /\ \A n \in DOMAIN shape[m].fields : fields(m)[n] = shape[m].fields[n]
          /\ \A n \in DOMAIN added(m) : n \notin DOMAIN shape[m].fields => fields(m)[n] = added(m)[n]
      BY <3>1 DEF Over
    <3> QED BY <3>2, <3>3
  <2> HIDE DEF fields, added
  <2>5. ASSUME NEW m \in Models
        PROVE  /\ shape[m].bases = Lineage(ast, ast.models[m].extends)
               /\ DOMAIN shape[m].fields = {f.name : f \in WrittenIn(ast, m)}
               /\ \A f \in WrittenIn(ast, m) : SameSignature(shape[m].fields[f.name], f.body)
               /\ \A n \in DOMAIN shape[m].fields : IsName(n) /\ IsField(shape[m].fields[n])
    BY <2>2 DEF Faithful, Written, WrittenIn
  <2>6. ASSUME NEW m \in Models PROVE Inherits(m)'
    <3>1. \A n \in DOMAIN fields(m) :
            IsField(fields(m)[n]) /\ (fields(m)[n].kind # "Scalar" => IsName(n))
      BY <2>4, <2>5
    <3>2. \A f \in WrittenIn(ast, m) :
            /\ f.name \in DOMAIN fields(m)
            /\ LET r == fields(m)[f.name]
               IN r.of = f.body.of /\ r.array = f.body.array /\ r.optional = f.body.optional
      BY <2>4, <2>5 DEF SameSignature
    <3>3. WrittenIn(ast', m) = WrittenIn(ast, m)
      BY <1>0
    <3> QED BY <1>0, <2>3, <2>5, <3>1, <3>2, <3>3 DEF Inherits
  <2>7. ASSUME NEW m \in Models PROVE Undisturbed(m)'
    <3>1. ASSUME NEW n, IsName(n)
          PROVE  KeyName(n) \in DOMAIN fields(m)
                   <=> \/ \E f \in WrittenIn(ast, m) : f.name = KeyName(n)
                       \/ KeyName(n) \in {Marker(w) : w \in shape[m].bases \cup {m}}
      <4>1. KeyName(n) \notin {Marker("id"), Marker("kind"), Marker("updatedAt")}
        BY <3>1, KeyIsNotSynthetic
      <4>2. \A t \in DOMAIN shape[m].fields : KeyName(n) # Tracker(t)
        BY <2>5, <3>1, KeyIsNotSynthetic
      <4>3. KeyName(n) \in DOMAIN shape[m].fields <=> \E f \in WrittenIn(ast, m) : f.name = KeyName(n)
        BY <2>5
      <4> QED BY <2>4, <4>1, <4>2, <4>3
    <3>2. ASSUME NEW n
          PROVE  Declares(m, KeyName(n))'
                   <=> \/ \E f \in WrittenIn(ast, m) : f.name = KeyName(n)
                       \/ KeyName(n) \in {Marker(w) : w \in shape[m].bases \cup {m}}
      BY <1>0, <2>3 DEF Declares
    <3> QED BY <2>3, <3>1, <3>2 DEF Undisturbed
  <2>8. Models' = Models /\ DOMAIN resolved' = Models /\ visited' = {}
    BY <1>0, <1>2 DEF Models, ModelInv
  <2> QED BY <1>2, <2>6, <2>7, <2>8 DEF ModelInv, Unsorted
<1> QED BY <1>1, <1>2 DEF Crystallize, Trackers

\* What passes the check has its relations lead to models.
LEMMA GraphChecked ==
  ASSUME LoadInv, CheckGraph PROVE ModelInv'
<1> DEFINE new(m, n) == WithAttribute(FixedUp(resolved[m].fields[n]))
<1>0. ModelInv /\ stage = "check" /\ UNCHANGED <<ast, visited>>
  BY DEF LoadInv, CheckGraph
<1>1. CASE stage' = "rejected" /\ UNCHANGED resolved
  BY <1>0, <1>1, ModelStays
<1>2. CASE /\ stage' = "inject"
           /\ resolved' = [m \in Models |->
                             [bases  |-> resolved[m].bases,
                              fields |-> [n \in DOMAIN resolved[m].fields |-> new(m, n)]]]
  <2>1. /\ visited = {} /\ DOMAIN resolved = Models
        /\ \A m \in Models : Inherits(m) /\ Undisturbed(m)
    BY <1>0 DEF ModelInv
  <2>2. Models' = Models
    BY <1>0 DEF Models
  <2>3. ASSUME NEW m \in Models
        PROVE  /\ resolved'[m] = [bases |-> resolved'[m].bases, fields |-> resolved'[m].fields]
               /\ resolved'[m].bases = resolved[m].bases
               /\ DOMAIN resolved'[m].fields = DOMAIN resolved[m].fields
               /\ \A n \in DOMAIN resolved[m].fields : resolved'[m].fields[n] = new(m, n)
    <3> HIDE DEF new
    <3> QED BY <1>2
  <2>4. ASSUME NEW m \in Models, NEW n \in DOMAIN resolved[m].fields
        PROVE  LET f == resolved[m].fields[n]
                   g == new(m, n)
               IN /\ IsField(g) /\ g.of = f.of /\ g.array = f.array /\ g.optional = f.optional
                  /\ g.kind # "Scalar" => f.kind # "Scalar"
                  /\ g.kind = "Relation" => g.of \in Models /\ g.relation.name = RelationName(g)
    <3> DEFINE f == resolved[m].fields[n]
               x == FixedUp(f)
               g == WithAttribute(x)
    <3>1. IsField(f)
      BY <2>1 DEF Inherits
    <3> HIDE DEF f
    <3>2. /\ IsField(x) /\ x.of = f.of /\ x.array = f.array /\ x.optional = f.optional
          /\ x.kind # "Scalar" => f.kind # "Scalar"
      BY <3>1 DEF FixedUp, IsField
    <3>3. ASSUME x.kind = "Relation" PROVE x.of \in Models
      <4>1. f.kind = "Relation"
        BY <3>3 DEF FixedUp
      <4>2. x.kind = KindOf(f.of)
        BY <3>1, <4>1 DEF FixedUp, IsField
      <4>3. KindOf(f.of) = "Relation" => f.of \in Models
        BY DEF KindOf
      <4> QED BY <3>2, <3>3, <4>2, <4>3
    <3> HIDE DEF x
    <3>4. /\ IsField(g) /\ g.of = x.of /\ g.array = x.array /\ g.optional = x.optional
          /\ g.kind = x.kind
      BY <3>2 DEF WithAttribute, IsField
    <3>5. ASSUME g.kind = "Relation" PROVE g.relation.name = RelationName(g)
      <4>1. CASE x.relation = Absent
        <5>1. g.relation = [name |-> Absent, onDelete |-> Absent, onDisconnect |-> Absent]
          BY <3>2, <3>4, <3>5, <4>1 DEF WithAttribute, IsField
        <5> QED BY <5>1 DEF RelationName
      <4>2. CASE x.relation # Absent
        <5>1. g = x
          BY <4>2 DEF WithAttribute
        <5> QED BY <4>2, <5>1 DEF RelationName
      <4> QED BY <4>1, <4>2
    <3> HIDE DEF g
    <3>6. /\ IsField(g) /\ g.of = f.of /\ g.array = f.array /\ g.optional = f.optional
          /\ g.kind # "Scalar" => f.kind # "Scalar"
          /\ g.kind = "Relation" => g.of \in Models /\ g.relation.name = RelationName(g)
      BY <3>2, <3>3, <3>4, <3>5
    <3> QED BY <3>6 DEF g, x, f
  <2> HIDE DEF new
  <2>5. ASSUME NEW m \in Models, NEW n \in DOMAIN resolved[m].fields
        PROVE  LET f == resolved[m].fields[n]
                   g == resolved'[m].fields[n]
               IN /\ IsField(g) /\ g.of = f.of /\ g.array = f.array /\ g.optional = f.optional
                  /\ g.kind # "Scalar" => IsName(n)
                  /\ g.kind = "Relation" => g.of \in Models /\ g.relation.name = RelationName(g)
    <3>1. resolved'[m].fields[n] = new(m, n)
      BY <2>3
    <3>2. resolved[m].fields[n].kind # "Scalar" => IsName(n)
      BY <2>1 DEF Inherits
    <3> QED BY <2>4, <3>1, <3>2
  <2>6. ASSUME NEW m \in Models PROVE Inherits(m)'
    <3>1. \A n \in DOMAIN resolved'[m].fields :
            /\ IsField(resolved'[m].fields[n])
            /\ resolved'[m].fields[n].kind # "Scalar" => IsName(n)
      <4>1. DOMAIN resolved'[m].fields = DOMAIN resolved[m].fields
        BY <2>3
      <4> QED BY <2>5, <4>1
    <3>2. ASSUME NEW f \in WrittenIn(ast, m)
          PROVE  /\ f.name \in DOMAIN resolved'[m].fields
                 /\ LET r == resolved'[m].fields[f.name]
                    IN r.of = f.body.of /\ r.array = f.body.array /\ r.optional = f.body.optional
      <4>1. /\ f.name \in DOMAIN resolved[m].fields
            /\ LET r == resolved[m].fields[f.name]
               IN r.of = f.body.of /\ r.array = f.body.array /\ r.optional = f.body.optional
        BY <2>1 DEF Inherits
      <4>2. f.name \in DOMAIN resolved'[m].fields
        BY <2>3, <4>1
      <4> QED BY <2>5, <4>1, <4>2
    <3>3. /\ WrittenIn(ast', m) = WrittenIn(ast, m)
          /\ resolved'[m].bases = Lineage(ast', ast'.models[m].extends)
      <4>1. resolved[m].bases = Lineage(ast, ast.models[m].extends)
        BY <2>1 DEF Inherits
      <4> QED BY <1>0, <2>3, <4>1
    <3>4. resolved'[m] = [bases |-> resolved'[m].bases, fields |-> resolved'[m].fields]
      BY <2>3
    <3> QED BY <3>1, <3>2, <3>3, <3>4 DEF Inherits
  <2>7. ASSUME NEW m \in Models PROVE Related(m)'
    <3>1. DOMAIN resolved'[m].fields = DOMAIN resolved[m].fields
      BY <2>3
    <3>2. \A n \in DOMAIN resolved'[m].fields :
            LET g == resolved'[m].fields[n]
            IN g.kind = "Relation" => g.of \in Models /\ g.relation.name = RelationName(g)
      BY <2>5, <3>1
    <3> QED BY <2>2, <3>2 DEF Related, RelationName
  <2>8. ASSUME NEW m \in Models PROVE Undisturbed(m)'
    <3>1. /\ Undisturbed(m) /\ resolved'[m].bases = resolved[m].bases
          /\ DOMAIN resolved'[m].fields = DOMAIN resolved[m].fields
      BY <2>1, <2>3
    <3> QED BY <1>0, <3>1 DEF Undisturbed, Declares, WrittenIn
  <2>9. DOMAIN resolved' = Models /\ visited' = {} /\ Models' = Models
    BY <1>0, <1>2, <2>1, <2>2
  <2> QED BY <1>2, <2>6, <2>7, <2>8, <2>9 DEF ModelInv, Unsorted
<1> QED BY <1>1, <1>2 DEF CheckGraph

(***************************************************************************)
(* The keys.                                                               *)
(***************************************************************************)
\* What the injection finds and keeps: every model as it inherits, and its
\* relations leading to models.
Checked == DOMAIN resolved = Models /\ \A m \in Models : Inherits(m) /\ Related(m)

\* The fields of a pair find each other, and nothing else.
LEMMA PairFacts ==
  ASSUME Checked, NEW m \in Models, NEW n \in DOMAIN resolved[m].fields, NEW o, Paired(m, n, o)
  PROVE  LET f == resolved[m].fields[n]
             g == resolved[f.of].fields[o]
         IN /\ f.kind = "Relation" /\ f.of \in Models /\ IsName(n)
            /\ o \in DOMAIN resolved[f.of].fields
            /\ g.kind = "Relation" /\ g.of = m /\ IsName(o)
            /\ Reverses(m, n) = {o} /\ FirstOf(Reverses(m, n)) = o
            /\ Paired(f.of, o, n)
<1> DEFINE f == resolved[m].fields[n]
           t == f.of
           g == resolved[t].fields[o]
<1>1. /\ f.kind = "Relation" /\ t \in Models
      /\ RelationsNamed(m, t, RelationName(f)) = {n}
      /\ RelationsNamed(t, m, RelationName(f)) = {o}
  BY DEF Paired, Checked, Related
<1>2. f.relation.name = RelationName(f) /\ IsName(n)
  BY <1>1 DEF Checked, Related, Inherits
<1>3. o \in DOMAIN resolved[t].fields /\ g.kind = "Relation" /\ g.of = m /\ RelationName(g) = RelationName(f)
  <2>1. o \in RelationsNamed(t, m, RelationName(f))
    BY <1>1
  <2> QED BY <2>1 DEF RelationsNamed
<1>4. IsName(o)
  BY <1>1, <1>3 DEF Checked, Inherits
<1>5. Reverses(m, n) = {o}
  <2>1. \A x \in DOMAIN resolved[t].fields :
          resolved[t].fields[x].kind = "Relation"
            => resolved[t].fields[x].relation.name = RelationName(resolved[t].fields[x])
    BY <1>1, SMTT(30) DEF Checked, Related
  <2>2. Reverses(m, n) = RelationsNamed(t, m, RelationName(f))
    BY <1>2, <2>1 DEF Reverses, RelationsNamed
  <2> QED BY <1>1, <2>2
<1>6. FirstOf(Reverses(m, n)) = o
  BY <1>4, <1>5, FirstOfOne
<1>7. Paired(t, o, n)
  BY <1>1, <1>3 DEF Paired
<1> QED BY <1>1, <1>2, <1>3, <1>4, <1>5, <1>6, <1>7

\* A key that is undecided when a model is visited is decided as it would have
\* been the other way round: the columns the other side has received by then
\* are exactly those of which it is the holder.
LEMMA OwnerHolds ==
  ASSUME Checked, IsAst(ast), NEW m \in Models, NEW n \in DOMAIN resolved[m].fields, NEW o,
         Paired(m, n, o), Undisturbed(m),
         LET t == resolved[m].fields[n].of
         IN /\ t \notin visited => Undisturbed(t)
            /\ t \in visited => Settled(t, o, n)
            /\ ~ resolved[m].fields[n].array /\ ~ resolved[t].fields[o].array /\ m # t
  PROVE  OwnsKey(m, n) <=> HoldsKey(m, n, resolved[m].fields[n].of, o)
<1> DEFINE t == resolved[m].fields[n].of
           here == Declares(m, KeyName(n))
           there == Declares(t, KeyName(o))
           hasHere == KeyName(n) \in DOMAIN resolved[m].fields
           hasThere == KeyName(o) \in DOMAIN resolved[t].fields
<1>1. /\ t \in Models /\ IsName(n) /\ IsName(o) /\ o \in DOMAIN resolved[t].fields
      /\ Reverses(m, n) = {o} /\ FirstOf(Reverses(m, n)) = o /\ resolved[t].fields[o].of = m
  BY PairFacts
<1>2. m \in Range(Alphabet) /\ t \in Range(Alphabet) /\ m # t
  BY <1>1 DEF IsAst, Models
<1>3. Precedes(m, t) <=> ~ Precedes(t, m)
  BY <1>2, PrecedesIsTotal
<1>4. OwnsKey(m, n) <=> (hasHere /\ ~ hasThere) \/ ((hasHere <=> hasThere) /\ Precedes(m, t))
  BY <1>1 DEF OwnsKey
<1>5. HoldsKey(m, n, t, o) <=> (here /\ ~ there) \/ ((here <=> there) /\ Precedes(m, t))
  BY DEF HoldsKey
<1>6. HoldsKey(t, o, m, n) <=> (there /\ ~ here) \/ ((there <=> here) /\ Precedes(t, m))
  BY DEF HoldsKey
<1>7. hasHere <=> here
  BY <1>1 DEF Undisturbed
<1>8. CASE t \notin visited
  <2>1. hasThere <=> there
    BY <1>1, <1>8 DEF Undisturbed
  <2> HIDE DEF t, here, there, hasHere, hasThere
  <2> QED BY <1>4, <1>5, <1>7, <2>1 DEF t
<1>9. CASE t \in visited
  <2>1. Settled(t, o, n)
    BY <1>9, SMTT(30)
  <2>2. hasThere <=> HoldsKey(t, o, m, n) \/ there
    BY <1>1, <1>2, <2>1 DEF Settled
  <2> HIDE DEF t, here, there, hasHere, hasThere
  <2> QED BY <1>3, <1>4, <1>5, <1>6, <1>7, <2>2, SMTT(30) DEF t
<1> QED BY <1>8, <1>9

\* What the visit of a model changes.
LEMMA Visited ==
  ASSUME Checked, NEW m \in Models, InjectKeys(m)
  PROVE  LET owners == {n \in DOMAIN resolved[m].fields :
                          /\ resolved[m].fields[n].kind = "Relation"
                          /\ ~ resolved[m].fields[n].array /\ OwnsKey(m, n)}
         IN /\ DOMAIN resolved' = Models /\ UNCHANGED <<ast, stage>> /\ visited' = visited \cup {m}
            /\ \A k \in Models \ {m} : resolved'[k] = resolved[k]
            /\ resolved'[m] = [bases |-> resolved[m].bases, fields |-> resolved'[m].fields]
            /\ DOMAIN resolved'[m].fields
                 = DOMAIN resolved[m].fields \cup {KeyName(n) : n \in owners}
            /\ \A n \in DOMAIN resolved[m].fields : resolved'[m].fields[n] = Keyed(m, n)
            /\ \A n \in DOMAIN resolved'[m].fields : n \notin DOMAIN resolved[m].fields
                 => IsField(resolved'[m].fields[n]) /\ resolved'[m].fields[n].kind = "Scalar"
<1> DEFINE fields == resolved[m].fields
           owners == {n \in DOMAIN fields : fields[n].kind = "Relation" /\ ~ fields[n].array /\ OwnsKey(m, n)}
           old == [n \in DOMAIN fields |-> Keyed(m, n)]
           new == Over(old, Injected(m))
<1>1. /\ UNCHANGED <<ast, stage>> /\ visited' = visited \cup {m}
      /\ resolved' = [resolved EXCEPT ![m].fields = new]
  BY DEF InjectKeys
<1>2. DOMAIN resolved = Models /\ resolved[m] = [bases |-> resolved[m].bases, fields |-> fields]
  BY DEF Checked, Inherits
<1>3. /\ DOMAIN Injected(m) = {KeyName(n) : n \in owners} \ DOMAIN fields
      /\ \A c \in DOMAIN Injected(m) :
           IsField(Injected(m)[c]) /\ Injected(m)[c].kind = "Scalar"
  <2>1. \A of, optional, tags :
          IsField(Column(of, optional, tags)) /\ Column(of, optional, tags).kind = "Scalar"
    BY DEF Column, FieldBody, IsField
  <2> DEFINE relationOf(c) == CHOOSE n \in owners : KeyName(n) = c
             column(c) == Column(IdType(fields[relationOf(c)].of), fields[relationOf(c)].optional, {})
             added == {KeyName(n) : n \in owners} \ DOMAIN fields
  <2>2. Injected(m) = [c \in added |-> column(c)]
    BY DEF Injected
  <2>3. \A c : IsField(column(c)) /\ column(c).kind = "Scalar"
    BY <2>1
  <2> HIDE DEF column, added
  <2>4. /\ DOMAIN Injected(m) = added
        /\ \A c \in DOMAIN Injected(m) : IsField(Injected(m)[c]) /\ Injected(m)[c].kind = "Scalar"
    BY <2>2, <2>3
  <2> QED BY <2>4 DEF added
<1>4. /\ DOMAIN new = DOMAIN fields \cup {KeyName(n) : n \in owners}
      /\ \A n \in DOMAIN fields : new[n] = Keyed(m, n)
      /\ \A n \in DOMAIN new : n \notin DOMAIN fields => IsField(new[n]) /\ new[n].kind = "Scalar"
  <2> HIDE DEF owners
  <2> QED BY <1>3 DEF Over
<1> HIDE DEF new, owners
<1>5. /\ DOMAIN resolved' = Models
      /\ \A k \in Models \ {m} : resolved'[k] = resolved[k]
      /\ resolved'[m] = [bases |-> resolved[m].bases, fields |-> new]
  BY <1>1, <1>2
<1> QED BY <1>1, <1>4, <1>5 DEF owners

\* Keyed changes nothing of a field but its key.
LEMMA KeyedForms ==
  ASSUME NEW m, NEW n
  PROVE  LET f == resolved[m].fields[n]
             h == Keyed(m, n)
         IN h = f \/ h = [f EXCEPT !.key = ArrayKey(m, n)] \/ h = [f EXCEPT !.key = SingularKey(m, n)]
<1> DEFINE f == resolved[m].fields[n]
<1>1. CASE f.kind # "Relation"
  BY <1>1 DEF Keyed
<1>2. CASE f.kind = "Relation" /\ f.array
  BY <1>2 DEF Keyed
<1>3. CASE f.kind = "Relation" /\ ~ f.array
  BY <1>3 DEF Keyed
<1> QED BY <1>1, <1>2, <1>3

\* The key that the visit of m gives a paired field.
LEMMA KeyOfVisited ==
  ASSUME Checked, NEW m \in Models, NEW n \in DOMAIN resolved[m].fields, NEW o, Paired(m, n, o)
  PROVE  LET f == resolved[m].fields[n]
             g == resolved[f.of].fields[o]
             key == Keyed(m, n).key
         IN /\ f.array /\ ~ g.array => key = KeyName(o)
            /\ ~ f.array /\ g.array => key = KeyName(n) /\ OwnsKey(m, n)
            /\ ~ f.array /\ ~ g.array => key = IF OwnsKey(m, n) THEN KeyName(n) ELSE KeyName(o)
<1> DEFINE f == resolved[m].fields[n]
           g == resolved[f.of].fields[o]
<1>1. /\ f.kind = "Relation" /\ Reverses(m, n) = {o} /\ FirstOf({o}) = o
  <2>1. /\ f.kind = "Relation" /\ Reverses(m, n) = {o} /\ FirstOf(Reverses(m, n)) = o
    BY PairFacts, SMTT(30)
  <2> QED BY <2>1
<1>2. IsField(f)
  BY SMTT(30) DEF Checked, Inherits
<1>3. ASSUME f.array, ~ g.array PROVE Keyed(m, n).key = KeyName(o)
  <2>1. ArrayKey(m, n) = KeyName(o)
    <3>1. {x \in Reverses(m, n) : ~ resolved[f.of].fields[x].array} = {o}
      BY <1>1, <1>3
    <3> QED BY <1>1, <3>1 DEF ArrayKey
  <2>2. Keyed(m, n) = [f EXCEPT !.key = ArrayKey(m, n)]
    BY <1>1, <1>3 DEF Keyed
  <2> HIDE DEF f
  <2> QED BY <1>2, <2>1, <2>2, SMTT(30) DEF IsField
<1>4. ASSUME ~ f.array PROVE Keyed(m, n).key = IF OwnsKey(m, n) THEN KeyName(n) ELSE KeyName(o)
  <2>1. SingularKey(m, n) = IF OwnsKey(m, n) THEN KeyName(n) ELSE KeyName(o)
    BY <1>1 DEF SingularKey
  <2>2. Keyed(m, n) = [f EXCEPT !.key = SingularKey(m, n)]
    BY <1>1, <1>4 DEF Keyed
  <2> HIDE DEF f
  <2> QED BY <1>2, <2>1, <2>2 DEF IsField
<1>5. ASSUME g.array PROVE OwnsKey(m, n)
  BY <1>1, <1>5 DEF OwnsKey
<1> QED BY <1>3, <1>4, <1>5

\* The visit of a model settles its pairs and disturbs those of no other.
LEMMA KeysInjected ==
  ASSUME LoadInv, NEW m \in Models, InjectKeys(m) PROVE ModelInv'
<1>1. /\ stage = "inject" /\ m \notin visited /\ visited \subseteq Models /\ IsAst(ast) /\ Checked
      /\ \A k \in Models \ visited : Undisturbed(k)
      /\ \A k \in visited : \A n \in DOMAIN resolved[k].fields :
           \A o : Paired(k, n, o) => Settled(k, n, o)
  BY DEF LoadInv, ReadInv, ModelInv, Checked, InjectKeys
<1> DEFINE owners == {n \in DOMAIN resolved[m].fields :
                        /\ resolved[m].fields[n].kind = "Relation"
                        /\ ~ resolved[m].fields[n].array /\ OwnsKey(m, n)}
<1>2. /\ DOMAIN resolved' = Models /\ UNCHANGED <<ast, stage>> /\ visited' = visited \cup {m}
      /\ \A k \in Models \ {m} : resolved'[k] = resolved[k]
      /\ resolved'[m] = [bases |-> resolved[m].bases, fields |-> resolved'[m].fields]
      /\ DOMAIN resolved'[m].fields = DOMAIN resolved[m].fields \cup {KeyName(n) : n \in owners}
      /\ \A n \in DOMAIN resolved[m].fields : resolved'[m].fields[n] = Keyed(m, n)
      /\ \A n \in DOMAIN resolved'[m].fields : n \notin DOMAIN resolved[m].fields
           => IsField(resolved'[m].fields[n]) /\ resolved'[m].fields[n].kind = "Scalar"
  BY <1>1, Visited
<1>3. Models' = Models
  BY <1>2 DEF Models
<1> HIDE DEF owners
\* A field keeps everything but its key.
<1>4. ASSUME NEW k \in Models, NEW n \in DOMAIN resolved[k].fields
      PROVE  LET f == resolved[k].fields[n]
                 h == resolved'[k].fields[n]
             IN /\ n \in DOMAIN resolved'[k].fields /\ IsField(h)
                /\ h.kind = f.kind /\ h.of = f.of /\ h.array = f.array /\ h.optional = f.optional
                /\ h.relation = f.relation
  <2>1. IsField(resolved[k].fields[n])
    BY <1>1 DEF Checked, Inherits
  <2>2. CASE k # m
    BY <1>2, <2>1, <2>2
  <2>3. CASE k = m
    <3> DEFINE f == resolved[m].fields[n]
               h == resolved'[m].fields[n]
    <3>1. n \in DOMAIN resolved'[m].fields /\ h = Keyed(m, n) /\ IsField(f)
      BY <1>2, <2>1, <2>3
    <3>2. h = f \/ h = [f EXCEPT !.key = ArrayKey(m, n)] \/ h = [f EXCEPT !.key = SingularKey(m, n)]
      BY <3>1, KeyedForms
    <3> HIDE DEF f, h
    <3>3. ASSUME NEW key, h = [f EXCEPT !.key = key]
          PROVE  /\ IsField(h) /\ h.kind = f.kind /\ h.of = f.of /\ h.array = f.array
                 /\ h.optional = f.optional /\ h.relation = f.relation
      BY <3>1, <3>3 DEF IsField
    <3>4. /\ IsField(h) /\ h.kind = f.kind /\ h.of = f.of /\ h.array = f.array
          /\ h.optional = f.optional /\ h.relation = f.relation
      BY <3>1, <3>2, <3>3
    <3> QED BY <2>3, <3>1, <3>4 DEF f, h
  <2> QED BY <2>2, <2>3
<1>5. ASSUME NEW k \in Models
      PROVE  /\ resolved'[k].bases = resolved[k].bases
             /\ resolved'[k] = [bases |-> resolved'[k].bases, fields |-> resolved'[k].fields]
             /\ \A n \in DOMAIN resolved'[k].fields : n \notin DOMAIN resolved[k].fields
                  => IsField(resolved'[k].fields[n]) /\ resolved'[k].fields[n].kind = "Scalar"
  <2>1. resolved[k] = [bases |-> resolved[k].bases, fields |-> resolved[k].fields]
    BY <1>1 DEF Checked, Inherits
  <2>2. CASE k # m
    BY <1>2, <2>1, <2>2
  <2>3. CASE k = m
    BY <1>2, <2>3
  <2> QED BY <2>2, <2>3
<1>6. ASSUME NEW k \in Models, NEW name PROVE Declares(k, name)' <=> Declares(k, name)
  BY <1>2, <1>5 DEF Declares, WrittenIn
<1>7. ASSUME NEW k \in Models, NEW t, NEW word
      PROVE  RelationsNamed(k, t, word)' = RelationsNamed(k, t, word)
  <2>1. ASSUME NEW n
        PROVE  n \in RelationsNamed(k, t, word)' <=> n \in RelationsNamed(k, t, word)
    <3>1. CASE n \in DOMAIN resolved[k].fields
      BY <1>4, <3>1 DEF RelationsNamed, RelationName
    <3>2. CASE n \notin DOMAIN resolved[k].fields
      BY <1>5, <3>2 DEF RelationsNamed
    <3> QED BY <3>1, <3>2
  <2> QED BY <2>1
\* The pairs are those there were.
<1>8. ASSUME NEW k \in Models, NEW n \in DOMAIN resolved'[k].fields, NEW o, Paired(k, n, o)'
      PROVE  n \in DOMAIN resolved[k].fields /\ Paired(k, n, o)
  <2> DEFINE f == resolved[k].fields[n]
             h == resolved'[k].fields[n]
  <2>1. h.kind = "Relation"
    BY <1>8 DEF Paired
  <2>2. n \in DOMAIN resolved[k].fields
    BY <1>5, <2>1
  <2>3. h.kind = f.kind /\ h.of = f.of /\ RelationName(h) = RelationName(f)
    BY <1>4, <2>2 DEF RelationName
  <2>4. f.of \in Models
    BY <1>1, <2>1, <2>2, <2>3 DEF Checked, Related
  <2>5. ASSUME NEW t, NEW word, t = f.of, word = RelationName(f)
        PROVE  RelationsNamed(k, t, word) = {n} /\ RelationsNamed(t, k, word) = {o}
    <3>1. t = h.of /\ word = RelationName(h)
      BY <2>3, <2>5, SMTT(30)
    <3>2. RelationsNamed(k, t, word)' = {n} /\ RelationsNamed(t, k, word)' = {o}
      BY <1>8, <3>1 DEF Paired, RelationsNamed, RelationName
    <3> QED BY <1>7, <2>4, <2>5, <3>2
  <2>6. /\ f.kind = "Relation"
        /\ RelationsNamed(k, f.of, RelationName(f)) = {n}
        /\ RelationsNamed(f.of, k, RelationName(f)) = {o}
    BY <2>1, <2>3, <2>5
  <2> QED BY <2>2, <2>6 DEF Paired
\* So is what is kept of the other passes.
<1>9. ASSUME NEW k \in Models PROVE Inherits(k)'
  <2>1. Inherits(k)
    BY <1>1 DEF Checked
  <2>2. /\ resolved'[k] = [bases |-> resolved'[k].bases, fields |-> resolved'[k].fields]
        /\ resolved'[k].bases = Lineage(ast', ast'.models[k].extends)
    BY <1>2, <1>5, <2>1 DEF Inherits
  <2>3. ASSUME NEW n \in DOMAIN resolved'[k].fields
        PROVE  /\ IsField(resolved'[k].fields[n])
               /\ resolved'[k].fields[n].kind # "Scalar" => IsName(n)
    BY <1>4, <1>5, <2>1 DEF Inherits
  <2>4. WrittenIn(ast', k) = WrittenIn(ast, k)
    BY <1>2
  <2>5. ASSUME NEW f \in WrittenIn(ast, k)
        PROVE  /\ f.name \in DOMAIN resolved'[k].fields
               /\ LET r == resolved'[k].fields[f.name]
                  IN r.of = f.body.of /\ r.array = f.body.array /\ r.optional = f.body.optional
    BY <1>4, <2>1 DEF Inherits
  <2> QED BY <2>2, <2>3, <2>4, <2>5 DEF Inherits
<1>10. ASSUME NEW k \in Models PROVE Related(k)'
  <2>1. ASSUME NEW n \in DOMAIN resolved'[k].fields, resolved'[k].fields[n].kind = "Relation"
        PROVE  /\ resolved'[k].fields[n].of \in Models
               /\ resolved'[k].fields[n].relation.name = RelationName(resolved'[k].fields[n])
    <3>1. n \in DOMAIN resolved[k].fields
      BY <1>5, <2>1
    <3>2. /\ resolved[k].fields[n].kind = "Relation"
          /\ resolved'[k].fields[n].of = resolved[k].fields[n].of
          /\ resolved'[k].fields[n].relation = resolved[k].fields[n].relation
      BY <1>4, <2>1, <3>1
    <3>3. /\ resolved[k].fields[n].of \in Models
          /\ resolved[k].fields[n].relation.name = RelationName(resolved[k].fields[n])
      BY <1>1, <3>1, <3>2 DEF Checked, Related
    <3> QED BY <3>2, <3>3 DEF RelationName
  <2> QED BY <1>3, <2>1 DEF Related
<1>11. ASSUME NEW k \in Models, k \notin visited' PROVE Undisturbed(k)'
  <2>1. k \in Models \ visited /\ resolved'[k] = resolved[k]
    BY <1>2, <1>11
  <2>2. \A n : IsName(n) => (KeyName(n) \in DOMAIN resolved'[k].fields <=> Declares(k, KeyName(n)))
    BY <1>1, <2>1 DEF Undisturbed
  <2>3. ASSUME NEW n, IsName(n)
        PROVE  KeyName(n) \in DOMAIN resolved'[k].fields <=> Declares(k, KeyName(n))'
    BY <1>6, <2>2, <2>3
  <2> QED BY <2>3 DEF Undisturbed
\* Who holds a key is written in the schema.
<1>12. ASSUME NEW k \in Models, NEW t \in Models, NEW n, NEW o
       PROVE  HoldsKey(k, n, t, o)' <=> HoldsKey(k, n, t, o)
  BY <1>6 DEF HoldsKey
<1>13. ASSUME NEW k \in visited', NEW n \in DOMAIN resolved'[k].fields, NEW o, Paired(k, n, o)',
              NEW t, t = resolved[k].fields[n].of
       PROVE  LET h == resolved'[k].fields[n]
                  g == resolved'[t].fields[o]
                  has == KeyName(n) \in DOMAIN resolved'[k].fields
              IN /\ t \in Models /\ k \in Models /\ h.of = t
                 /\ h.array /\ ~ g.array => h.key = KeyName(o)
                 /\ ~ h.array /\ g.array => h.key = KeyName(n) /\ has
                 /\ ~ h.array /\ ~ g.array /\ k # t =>
                      /\ h.key = IF HoldsKey(k, n, t, o) THEN KeyName(n) ELSE KeyName(o)
                      /\ has <=> HoldsKey(k, n, t, o) \/ Declares(k, KeyName(n))
  <2> DEFINE f == resolved[k].fields[n]
             h == resolved'[k].fields[n]
  <2>1. k \in Models /\ n \in DOMAIN resolved[k].fields /\ Paired(k, n, o)
    BY <1>1, <1>2, <1>8, <1>13
  <2>2. /\ t \in Models /\ o \in DOMAIN resolved[t].fields /\ IsName(n) /\ IsName(o)
        /\ f.kind = "Relation" /\ Paired(t, o, n) /\ resolved[t].fields[o].of = k
    BY <1>1, <1>13, <2>1, PairFacts
  <2>3. h.of = t /\ h.array = f.array /\ resolved'[t].fields[o].array = resolved[t].fields[o].array
    BY <1>4, <1>13, <2>1, <2>2, SMTT(30)
  <2>4. CASE k # m
    <3>1. k \in visited /\ resolved'[k] = resolved[k]
      BY <1>2, <1>13, <2>1, <2>4
    <3>2. Settled(k, n, o)
      BY <1>1, <2>1, <3>1
    <3> QED BY <1>13, <2>1, <2>2, <2>3, <3>1, <3>2 DEF Settled
  <2>5. CASE k = m
    <3> DEFINE g == resolved[t].fields[o]
               has == KeyName(n) \in DOMAIN resolved'[k].fields
    <3>1. h.key = Keyed(m, n).key
      BY <1>2, <2>1, <2>5, SMTT(30)
    <3>2. /\ f.array /\ ~ g.array => h.key = KeyName(o)
          /\ ~ f.array /\ g.array => h.key = KeyName(n) /\ OwnsKey(m, n)
          /\ ~ f.array /\ ~ g.array => h.key = IF OwnsKey(m, n) THEN KeyName(n) ELSE KeyName(o)
      BY <1>1, <1>13, <2>1, <2>5, <3>1, KeyOfVisited
    <3>3. ~ f.array => (has <=> KeyName(n) \in DOMAIN resolved[m].fields \/ OwnsKey(m, n))
      <4>1. \A x \in owners : KeyName(x) = KeyName(n) => x = n
        BY <1>1, <2>2, KeyNameIsInjective DEF owners, Checked, Inherits
      <4>2. ~ f.array => (n \in owners <=> OwnsKey(m, n))
        BY <2>1, <2>2, <2>5 DEF owners
      <4> QED BY <1>2, <2>5, <4>1, <4>2
    <3>4. Undisturbed(m) /\ (t \notin visited => Undisturbed(t)) /\ (t \in visited => Settled(t, o, n))
      BY <1>1, <2>2
    <3>5. KeyName(n) \in DOMAIN resolved[m].fields <=> Declares(m, KeyName(n))
      BY <2>2, <3>4 DEF Undisturbed
    <3>6. ~ f.array /\ ~ g.array /\ m # t => (OwnsKey(m, n) <=> HoldsKey(m, n, t, o))
      BY <1>1, <1>13, <2>1, <2>5, <3>4, OwnerHolds
    <3> HIDE DEF f, h, g, has
    <3>7. /\ f.array /\ ~ g.array => h.key = KeyName(o)
          /\ ~ f.array /\ g.array => h.key = KeyName(n) /\ has
          /\ ~ f.array /\ ~ g.array /\ k # t =>
               /\ h.key = IF HoldsKey(k, n, t, o) THEN KeyName(n) ELSE KeyName(o)
               /\ has <=> HoldsKey(k, n, t, o) \/ Declares(k, KeyName(n))
      BY <2>5, <3>2, <3>3, <3>5, <3>6
    <3> QED BY <2>1, <2>2, <2>3, <3>7, SMTT(30) DEF f, h, g, has
  <2> QED BY <2>4, <2>5
<1>14. ASSUME NEW k \in visited', NEW n \in DOMAIN resolved'[k].fields, NEW o, Paired(k, n, o)'
       PROVE  Settled(k, n, o)'
  <2> DEFINE h == resolved'[k].fields[n]
             has == KeyName(n) \in DOMAIN resolved'[k].fields
  <2>1. ASSUME NEW t, t = resolved[k].fields[n].of PROVE Settled(k, n, o)'
    <3>1. /\ t \in Models /\ k \in Models /\ h.of = t
          /\ h.array /\ ~ resolved'[t].fields[o].array => h.key = KeyName(o)
          /\ ~ h.array /\ resolved'[t].fields[o].array => h.key = KeyName(n) /\ has
          /\ ~ h.array /\ ~ resolved'[t].fields[o].array /\ k # t =>
               /\ h.key = IF HoldsKey(k, n, t, o)' THEN KeyName(n) ELSE KeyName(o)
               /\ has <=> HoldsKey(k, n, t, o)' \/ Declares(k, KeyName(n))'
      BY <1>6, <1>12, <1>13, <1>14, <2>1
    <3> QED BY <3>1 DEF Settled, HoldsKey, Declares
  <2> QED BY <2>1
<1>15. /\ DOMAIN resolved' = Models' /\ stage' = "inject" /\ visited' \subseteq Models'
       /\ (resolved # <<>> => DOMAIN resolved = Models)'
  BY <1>1, <1>2, <1>3
<1>16. \A k \in Models' : Inherits(k)' /\ (k \notin visited' => Undisturbed(k)')
  BY <1>3, <1>9, <1>11
<1>17. \A k \in Models' :
         /\ Related(k)'
         /\ k \in visited' =>
              \A n \in DOMAIN resolved'[k].fields : \A o : Paired(k, n, o)' => Settled(k, n, o)'
  BY <1>3, <1>10, <1>14
<1> QED BY <1>15, <1>16, <1>17 DEF ModelInv, Unsorted

\* Every step of loading keeps the models as they should be.
LEMMA ModelKept ==
  ASSUME LoadInv, [Load]_loading PROVE ModelInv'
<1>0. ModelInv
  BY DEF LoadInv
<1>1. CASE ReadSchema
  <2>1. /\ stage = "read" /\ UNCHANGED <<resolved, visited>> /\ stage' \in {"rejected", "resolve"}
    BY <1>1 DEF ReadSchema
  <2>2. resolved' = <<>> /\ visited' = {}
    BY <1>0, <2>1 DEF ModelInv, Unsorted
  <2> QED BY <2>1, <2>2 DEF ModelInv
<1>2. CASE ResolveSymbols
  <2>1. /\ stage = "resolve" /\ stage' \in {"rejected", "sort"} /\ UNCHANGED <<ast, resolved, visited>>
    BY <1>2 DEF ResolveSymbols
  <2> QED BY <1>0, <2>1, ModelStays
<1>3. CASE SortBase
  BY <1>0, <1>3, ModelStays DEF SortBase
<1>4. CASE SortEnds
  <2>1. /\ stage = "sort" /\ stage' \in {"circular", "flatten"} /\ UNCHANGED <<ast, resolved, visited>>
    BY <1>4 DEF SortEnds
  <2> QED BY <1>0, <2>1, ModelStays
<1>5. CASE FlattenBase
  BY <1>0, <1>5, ModelStays DEF FlattenBase
<1>6. CASE Crystallize
  BY <1>6, Crystallized
<1>7. CASE CheckGraph
  BY <1>7, GraphChecked
<1>8. CASE ValidateRelations
  <2>1. /\ stage = "inject" /\ visited = Models /\ stage' \in {"rejected", "accepted"}
        /\ UNCHANGED <<ast, resolved, visited>>
    BY <1>8 DEF ValidateRelations
  <2> QED BY <1>0, <2>1, ModelStays
<1>9. CASE \E m \in Models : InjectKeys(m)
  BY <1>9, KeysInjected
<1>10. CASE UNCHANGED loading
  BY <1>0, <1>10, ModelStays DEF loading
<1> QED BY <1>1, <1>2, <1>3, <1>4, <1>5, <1>6, <1>7, <1>8, <1>9, <1>10 DEF Load

(***************************************************************************)
(* The fields of the models, once the graph is checked.                    *)
(***************************************************************************)
\* A sequence has finitely many members.
LEMMA MembersAreFinite ==
  ASSUME NEW s, IsSequence(s)
  PROVE  IsFiniteSet(Range(s))
<1>1. DOMAIN s = 1 .. Len(s) /\ Len(s) \in Nat
  BY SequenceFacts
<1>2. IsFiniteSet(DOMAIN s)
  BY <1>1, FS_Interval
<1> QED BY <1>2, FiniteRange DEF Range

\* A node writes or inherits finitely many fields, of the parser's two kinds.
LEMMA WrittenFacts ==
  ASSUME IsAst(ast), NEW node, IsNode(node)
  PROVE  /\ IsFiniteSet(Written(node)) /\ IsFiniteSet(Lineage(ast, node.extends))
         /\ \A f \in Written(node) : f.body.kind \in {"Scalar", "Relation"}
<1> DEFINE L == Lineage(ast, node.extends)
           fieldsOf == [b \in L |-> Range(ast.bases[b].fields)]
<1>1. L \subseteq Bases /\ IsFiniteSet(Bases) /\ \A b \in Bases : IsNode(ast.bases[b])
  BY LineageIsLeast DEF IsAst, Bases
<1>2. IsFiniteSet(L)
  BY <1>1, FS_Subset
<1> HIDE DEF L
<1>3. IsFiniteSet({fieldsOf[b] : b \in DOMAIN fieldsOf})
  BY <1>2, FiniteRange
<1>4. \A b \in L : IsFiniteSet(Range(ast.bases[b].fields))
  BY <1>1, MembersAreFinite DEF IsNode
<1>5. IsFiniteSet(UNION {fieldsOf[b] : b \in DOMAIN fieldsOf})
  BY <1>3, <1>4, FS_UNION
<1>6. Written(node) = Range(node.fields) \cup UNION {fieldsOf[b] : b \in DOMAIN fieldsOf}
  BY DEF Written, L
<1>7. IsFiniteSet(Range(node.fields))
  BY MembersAreFinite DEF IsNode
<1>8. IsFiniteSet(Written(node))
  <2> HIDE DEF fieldsOf
  <2> QED BY <1>5, <1>6, <1>7, FS_Union
<1>9. ASSUME NEW f \in Written(node) PROVE f.body.kind \in {"Scalar", "Relation"}
  <2>1. CASE f \in Range(node.fields)
    BY <2>1 DEF IsNode, Range
  <2>2. CASE \E b \in L : f \in Range(ast.bases[b].fields)
    BY <1>1, <2>2 DEF IsNode, Range
  <2> QED BY <1>6, <2>1, <2>2
<1> QED BY <1>2, <1>8, <1>9 DEF L

\* Nothing changes in the models, or the text is refused.
LEMMA GraphStays ==
  ASSUME GraphInv, UNCHANGED <<ast, resolved>>,
         \/ stage' = stage
         \/ stage' \notin {"check", "inject", "accepted"}
         \/ stage = "inject" /\ stage' = "accepted"
  PROVE  GraphInv'
<1>1. Models' = Models
  BY DEF Models
<1>2. CASE stage' \notin {"check", "inject", "accepted"}
  BY <1>2 DEF GraphInv
<1>3. CASE stage' = stage
  BY <1>1, <1>3 DEF GraphInv
<1>4. CASE stage = "inject" /\ stage' = "accepted"
  BY <1>1, <1>4 DEF GraphInv
<1> QED BY <1>2, <1>3, <1>4

\* The shapes' fields are the written ones, and finitely many synthetic ones come to them.
LEMMA FieldsOfShapes ==
  ASSUME LoadInv, Crystallize PROVE GraphInv'
<1> DEFINE shape == [m \in Models |-> Flattened(ast.models[m])]
           fields(m) == Over(shape[m].fields, Added(m, shape[m]))
<1>0. stage = "flatten" /\ DOMAIN registry = Bases /\ UNCHANGED ast /\ Models' = Models
  BY DEF Crystallize, Models
<1>1. CASE stage' = "rejected"
  BY <1>1 DEF GraphInv
<1>2. CASE /\ stage' = "check" /\ \A m \in Models : ~ Clashes(m, shape[m])
           /\ resolved' = [m \in Models |->
                             [bases |-> shape[m].bases,
                              fields |-> Over(Over(shape[m].fields, Synthetic(m, shape[m])),
                                              Trackers(shape[m]))]]
  <2>1. /\ IsAst(ast) /\ ~ BadTarget
        /\ \A b \in Bases : Faithful(registry[b], ast.bases[b])
    BY <1>0 DEF LoadInv, ReadInv, FlattenInv, Flat
  <2> SUFFICES ASSUME NEW m \in Models
               PROVE  /\ IsFiniteSet(DOMAIN resolved'[m].fields)
                      /\ \A n \in DOMAIN resolved'[m].fields :
                           resolved'[m].fields[n].kind \in {"Scalar", "Relation"}
    BY <1>0, <1>2 DEF GraphInv
  <2> DEFINE node == ast.models[m]
  <2>2. IsNode(node) /\ Range(node.extends) \subseteq Bases
    BY <2>1 DEF IsAst, BadTarget, Models
  <2>3. Faithful(shape[m], node)
    <3>1. Flattened(node).agreed
      BY <1>2 DEF Clashes
    <3> QED BY <2>1, <2>2, <3>1, FlattenedIsFaithful
  <2>4. resolved'[m].fields = fields(m)
    BY <1>2 DEF Over, Added
  <2> HIDE DEF shape
  <2>5. /\ \A n \in DOMAIN Added(m, shape[m]) :
             /\ Added(m, shape[m])[n].kind = "Scalar"
             /\ \/ n \in {Marker(w) : w \in shape[m].bases \cup {m}}
                \/ n \in {Marker("id"), Marker("kind"), Marker("updatedAt")}
                \/ \E t \in DOMAIN shape[m].fields : n = Tracker(t)
    BY AddedFacts
  <2>6. /\ DOMAIN fields(m) = DOMAIN shape[m].fields \cup DOMAIN Added(m, shape[m])
        /\ \A n \in DOMAIN shape[m].fields : fields(m)[n] = shape[m].fields[n]
        /\ \A n \in DOMAIN Added(m, shape[m]) : n \notin DOMAIN shape[m].fields
             => fields(m)[n] = Added(m, shape[m])[n]
    BY DEF Over
  <2> HIDE DEF fields, node
  <2>7. /\ shape[m].bases = Lineage(ast, node.extends)
        /\ DOMAIN shape[m].fields = {f.name : f \in Written(node)}
        /\ \A f \in Written(node) : shape[m].fields[f.name].kind = f.body.kind
    BY <2>3 DEF Faithful, SameSignature
  <2>8. /\ IsFiniteSet(Written(node)) /\ IsFiniteSet(shape[m].bases)
        /\ \A f \in Written(node) : f.body.kind \in {"Scalar", "Relation"}
    BY <2>1, <2>2, <2>7, WrittenFacts
  <2>9. IsFiniteSet(DOMAIN shape[m].fields)
    <3> DEFINE names == [f \in Written(node) |-> f.name]
    <3>1. IsFiniteSet({names[f] : f \in DOMAIN names})
      BY <2>8, FiniteRange
    <3>2. DOMAIN shape[m].fields = {names[f] : f \in DOMAIN names}
      BY <2>7
    <3> QED BY <3>1, <3>2
  <2>10. IsFiniteSet(DOMAIN Added(m, shape[m]))
    <3> DEFINE W == shape[m].bases \cup {m}
               D == DOMAIN shape[m].fields
               markers == [w \in W |-> Marker(w)]
               trackers == [t \in D |-> Tracker(t)]
               M == {markers[w] : w \in DOMAIN markers}
               T == {trackers[t] : t \in DOMAIN trackers}
               R == {Marker("id"), Marker("kind"), Marker("updatedAt")}
    <3>1. IsFiniteSet(M)
      <4>1. IsFiniteSet(W)
        BY <2>8, FS_AddElement
      <4> QED BY <4>1, FiniteRange
    <3>2. IsFiniteSet(T)
      BY <2>9, FiniteRange
    <3>3. IsFiniteSet(R)
      <4>1. IsFiniteSet({Marker("id")}) /\ R = ({Marker("id")} \cup {Marker("kind")}) \cup {Marker("updatedAt")}
        BY FS_Singleton
      <4> HIDE DEF R
      <4> QED BY <4>1, FS_AddElement
    <3>4. DOMAIN Added(m, shape[m]) \subseteq (M \cup R) \cup T
      BY <2>5
    <3> HIDE DEF M, R, T
    <3>5. IsFiniteSet((M \cup R) \cup T)
      BY <3>1, <3>2, <3>3, FS_Union
    <3> QED BY <3>4, <3>5, FS_Subset
  <2>11. IsFiniteSet(DOMAIN resolved'[m].fields)
    BY <2>4, <2>6, <2>9, <2>10, FS_Union, ZenonT(60)
  <2>12. ASSUME NEW n \in DOMAIN fields(m) PROVE fields(m)[n].kind \in {"Scalar", "Relation"}
    <3>1. CASE n \in DOMAIN shape[m].fields
      <4>1. PICK f \in Written(node) : n = f.name
        BY <2>7, <3>1
      <4> QED BY <2>6, <2>7, <2>8, <3>1, <4>1
    <3>2. CASE n \notin DOMAIN shape[m].fields
      BY <2>5, <2>6, <3>2
    <3> QED BY <3>1, <3>2
  <2> QED BY <2>4, <2>11, <2>12
<1> QED BY <1>1, <1>2 DEF Crystallize, Trackers

\* The check gives every field the kind of its target, and a union's members are models.
LEMMA KindsOfTargets ==
  ASSUME LoadInv, GraphInv, CheckGraph PROVE GraphInv'
<1> DEFINE new(m, n) == WithAttribute(FixedUp(resolved[m].fields[n]))
<1>0. stage = "check" /\ UNCHANGED ast /\ Models' = Models
  BY DEF CheckGraph, Models
<1>1. CASE stage' = "rejected"
  BY <1>1 DEF GraphInv
<1>2. CASE /\ stage' = "inject"
           /\ \A u \in DOMAIN ast.unions : Range(ast.unions[u]) \subseteq Models \cup Bases
           /\ resolved' = [m \in Models |->
                             [bases  |-> resolved[m].bases,
                              fields |-> [n \in DOMAIN resolved[m].fields |-> new(m, n)]]]
  <2>1. /\ ~ BadTarget /\ ~ Duplicated /\ \A m \in Models : Inherits(m)
    BY <1>0 DEF LoadInv, ReadInv, ModelInv, Flat
  <2>2. \A u \in DOMAIN ast.unions : Range(ast.unions[u]) \subseteq Models
    BY <1>2, <2>1 DEF BadTarget
  <2>3. ASSUME NEW m \in Models
        PROVE  /\ IsFiniteSet(DOMAIN resolved'[m].fields)
               /\ \A n \in DOMAIN resolved'[m].fields :
                    LET f == resolved'[m].fields[n] IN f.kind = "Base" => f.of \notin DOMAIN ast.unions
    <3>1. /\ DOMAIN resolved'[m].fields = DOMAIN resolved[m].fields
          /\ \A n \in DOMAIN resolved[m].fields : resolved'[m].fields[n] = new(m, n)
      <4> HIDE DEF new
      <4> QED BY <1>2
    <3>2. /\ IsFiniteSet(DOMAIN resolved[m].fields)
          /\ \A n \in DOMAIN resolved[m].fields :
               resolved[m].fields[n].kind \in {"Scalar", "Relation"}
      BY <1>0 DEF GraphInv
    <3>3. ASSUME NEW n \in DOMAIN resolved[m].fields, new(m, n).kind = "Base"
          PROVE  new(m, n).of \notin DOMAIN ast.unions
      <4> DEFINE f == resolved[m].fields[n]
                 x == FixedUp(f)
                 g == WithAttribute(x)
      <4>1. IsField(f) /\ f.kind \in {"Scalar", "Relation"}
        BY <2>1, <3>2 DEF Inherits
      <4> HIDE DEF f
      <4>2. x.of = f.of /\ x.kind = (IF f.kind = "Relation" THEN KindOf(f.of) ELSE f.kind) /\ IsField(x)
        BY <4>1 DEF FixedUp, IsField
      <4> HIDE DEF x
      <4>3. g.of = x.of /\ g.kind = x.kind
        BY <4>2 DEF WithAttribute, IsField
      <4>4. g.kind = "Base"
        BY <3>3 DEF x, f
      <4>5. KindOf(f.of) = "Base" => f.of \notin DOMAIN ast.unions
        <5>1. f.of \in DOMAIN ast.unions => f.of \notin Bases /\ f.of \notin Models
          BY <2>1 DEF Duplicated
        <5> QED BY <5>1 DEF KindOf
      <4>6. g.of \notin DOMAIN ast.unions
        BY <4>1, <4>2, <4>3, <4>4, <4>5
      <4> QED BY <4>6 DEF x, f
    <3> HIDE DEF new
    <3> QED BY <3>1, <3>2, <3>3
  <2> HIDE DEF new
  <2> QED BY <1>0, <1>2, <2>2, <2>3 DEF GraphInv
<1> QED BY <1>1, <1>2 DEF CheckGraph

\* A key is one more scalar for each field of the model.
LEMMA KeysAreScalar ==
  ASSUME LoadInv, GraphInv, NEW m \in Models, InjectKeys(m) PROVE GraphInv'
<1>1. /\ stage = "inject" /\ m \notin visited /\ Checked /\ IsAst(ast)
  BY DEF LoadInv, ReadInv, ModelInv, Checked, InjectKeys
<1> DEFINE owners == {n \in DOMAIN resolved[m].fields :
                        /\ resolved[m].fields[n].kind = "Relation"
                        /\ ~ resolved[m].fields[n].array /\ OwnsKey(m, n)}
<1>2. /\ UNCHANGED <<ast, stage>>
      /\ \A k \in Models \ {m} : resolved'[k] = resolved[k]
      /\ DOMAIN resolved'[m].fields = DOMAIN resolved[m].fields \cup {KeyName(n) : n \in owners}
      /\ \A n \in DOMAIN resolved[m].fields : resolved'[m].fields[n] = Keyed(m, n)
      /\ \A n \in DOMAIN resolved'[m].fields : n \notin DOMAIN resolved[m].fields
           => resolved'[m].fields[n].kind = "Scalar"
  BY <1>1, Visited
<1>3. Models' = Models
  BY <1>2 DEF Models
<1>4. IsFiniteSet(DOMAIN resolved'[m].fields)
  <2> DEFINE keys == [n \in owners |-> KeyName(n)]
  <2>1. IsFiniteSet(DOMAIN resolved[m].fields) /\ owners \subseteq DOMAIN resolved[m].fields
    BY <1>1 DEF GraphInv
  <2>2. IsFiniteSet(owners)
    BY <2>1, FS_Subset
  <2> HIDE DEF owners
  <2>3. IsFiniteSet({keys[n] : n \in DOMAIN keys})
    BY <2>2, FiniteRange
  <2>4. DOMAIN resolved'[m].fields = DOMAIN resolved[m].fields \cup {keys[n] : n \in DOMAIN keys}
    BY <1>2
  <2> HIDE DEF keys
  <2> QED BY <2>1, <2>3, <2>4, FS_Union
<1> HIDE DEF owners
<1>5. ASSUME NEW n \in DOMAIN resolved'[m].fields, resolved'[m].fields[n].kind = "Base"
      PROVE  resolved'[m].fields[n].of \notin DOMAIN ast.unions
  <2> DEFINE f == resolved[m].fields[n]
             h == resolved'[m].fields[n]
  <2>1. n \in DOMAIN resolved[m].fields
    BY <1>2, <1>5
  <2>2. h = Keyed(m, n) /\ IsField(f)
    BY <1>1, <1>2, <2>1 DEF Checked, Inherits
  <2>3. h = f \/ h = [f EXCEPT !.key = ArrayKey(m, n)] \/ h = [f EXCEPT !.key = SingularKey(m, n)]
    BY <2>2, KeyedForms
  <2>4. h.kind = "Base"
    BY <1>5
  <2>5. f.kind = "Base" => f.of \notin DOMAIN ast.unions
    BY <1>1, <2>1 DEF GraphInv
  <2> HIDE DEF f, h
  <2>6. h.kind = f.kind /\ h.of = f.of
    BY <2>2, <2>3 DEF IsField
  <2> QED BY <2>4, <2>5, <2>6 DEF h
<1>6. ASSUME NEW k \in Models
      PROVE  /\ IsFiniteSet(DOMAIN resolved'[k].fields)
             /\ \A n \in DOMAIN resolved'[k].fields :
                  LET f == resolved'[k].fields[n] IN f.kind = "Base" => f.of \notin DOMAIN ast.unions
  <2>1. CASE k = m
    BY <1>4, <1>5, <2>1
  <2>2. CASE k # m
    BY <1>1, <1>2, <2>2 DEF GraphInv
  <2> QED BY <2>1, <2>2
<1>7. \A u \in DOMAIN ast.unions : Range(ast.unions[u]) \subseteq Models
  BY <1>1 DEF GraphInv
<1> QED BY <1>1, <1>2, <1>3, <1>6, <1>7 DEF GraphInv

\* Every step keeps what is known of the fields.
LEMMA GraphKept ==
  ASSUME LoadInv, GraphInv, [Load]_loading PROVE GraphInv'
<1>1. CASE ReadSchema
  BY <1>1 DEF ReadSchema, GraphInv
<1>2. CASE ResolveSymbols
  BY <1>2 DEF ResolveSymbols, GraphInv
<1>3. CASE SortBase
  BY <1>3, GraphStays DEF SortBase
<1>4. CASE SortEnds
  BY <1>4 DEF SortEnds, GraphInv
<1>5. CASE FlattenBase
  BY <1>5, GraphStays DEF FlattenBase
<1>6. CASE Crystallize
  BY <1>6, FieldsOfShapes
<1>7. CASE CheckGraph
  BY <1>7, KindsOfTargets
<1>8. CASE \E m \in Models : InjectKeys(m)
  BY <1>8, KeysAreScalar
<1>9. CASE ValidateRelations
  BY <1>9, GraphStays DEF ValidateRelations
<1>10. CASE UNCHANGED loading
  BY <1>10, GraphStays DEF loading
<1> QED BY <1>1, <1>2, <1>3, <1>4, <1>5, <1>6, <1>7, <1>8, <1>9, <1>10 DEF Load

(***************************************************************************)
(* The invariant holds, and with it the properties.                        *)
(***************************************************************************)
\* The invariant holds at first.
LEMMA LoadingStarts == Init => LoadInv
<1> SUFFICES ASSUME Init PROVE LoadInv
  OBVIOUS
<1>1. /\ text \in Texts /\ ast = NoAst /\ stage = "read" /\ degree = <<>> /\ stack = <<>>
      /\ sorted = <<>> /\ registry = <<>> /\ resolved = <<>> /\ visited = {}
  BY DEF Init
<1>2. DOMAIN <<>> = {} /\ <<>> \in Seq(Bases) /\ Range(<<>>) = {}
  BY DEF Range
<1>3. ReadInv
  BY <1>1, EmptyAst DEF ReadInv, Unsorted, Flat
<1>4. SortInv
  <2>1. IsInjective(sorted) /\ ParentsEarlier
    BY <1>1, <1>2 DEF IsInjective, ParentsEarlier
  <2>2. degree \in [DOMAIN degree -> Nat] /\ DOMAIN degree \subseteq Bases
    BY <1>1, <1>2
  <2> QED BY <1>1, <1>2, <2>1, <2>2 DEF SortInv, Flat
<1>5. FlattenInv
  BY <1>1, <1>2 DEF FlattenInv, Flat
<1>6. ModelInv
  BY <1>1 DEF ModelInv
<1> QED BY <1>3, <1>4, <1>5, <1>6 DEF LoadInv

\* Every step keeps it.
LEMMA LoadingKeeps == LoadInv /\ [Load]_loading => LoadInv'
BY ReadKept, SortKept, FlattenKept, ModelKept DEF LoadInv

\* The invariant of the load: the AST is one, the sort, the registry and the models are what
\* the pass that has been reached makes of them.
THEOREM LoadingIsInvariant == LoadSpec => []LoadInv
<1> QED BY LoadingStarts, LoadingKeeps, PTL DEF LoadSpec

\* The working state of the sort and what the passes hand over keep their types.
THEOREM LoadingTypes == LoadSpec => []TypeOK
<1>1. LoadInv => TypeOK
  <2> SUFFICES ASSUME LoadInv PROVE TypeOK
    OBVIOUS
  <2>1. /\ text \in Texts
        /\ stage \in {"read", "resolve", "sort", "circular", "flatten", "check", "inject",
                      "accepted", "rejected"}
    BY DEF LoadInv, ReadInv, Unsorted, Flat
  <2>2. /\ degree \in [DOMAIN degree -> Nat] /\ DOMAIN degree \subseteq Bases
        /\ stack \in Seq(Bases) /\ sorted \in Seq(Bases)
    BY DEF LoadInv, SortInv
  <2>3. Range(stack) \subseteq Bases /\ Range(sorted) \subseteq Bases
    BY <2>2 DEF Range
  <2>4. /\ DOMAIN registry \subseteq Bases /\ visited \subseteq Models
        /\ resolved # <<>> => DOMAIN resolved = Models
    BY DEF LoadInv, FlattenInv, ModelInv
  <2> QED BY <2>1, <2>2, <2>3, <2>4 DEF TypeOK
<1> QED BY <1>1, LoadingIsInvariant, PTL

\* Whatever order the sort's hash maps are visited in, a base is put out once
\* and after every base it extends, and the stack holds exactly what is ready.
THEOREM SortIsTopological == LoadSpec => []ParentsFirst
<1>1. LoadInv => ParentsFirst
  <2> SUFFICES ASSUME LoadInv PROVE ParentsFirst
    OBVIOUS
  <2>1. IsInjective(sorted) /\ ParentsEarlier
    BY DEF LoadInv, SortInv
  <2>2. stage = "sort" => Range(stack) = Ready(Range(sorted))
    BY DEF LoadInv, SortInv
  <2> QED BY <2>1, <2>2 DEF ParentsFirst, IsInjective, ParentsEarlier, Ready
<1> QED BY <1>1, LoadingIsInvariant, PTL

\* A schema is refused for circular inheritance if and only if some base
\* extends itself through others, and no other schema loses a base in the sort.
THEOREM RefusalsAreCycles == LoadSpec => []OnlyCyclesRefused
<1>1. LoadInv => OnlyCyclesRefused
  BY CyclesOnly
<1> QED BY <1>1, LoadingIsInvariant, PTL

\* An accepted model has the whole lineage of its bases and every field written
\* in it or in one of them, with the type and optionality written.
THEOREM InheritanceIsKept == LoadSpec => []FieldsAreInherited
<1>1. LoadInv => FieldsAreInherited
  BY DEF LoadInv, ModelInv, Inherits, FieldsAreInherited
<1> QED BY <1>1, LoadingIsInvariant, PTL

\* What an accepted schema keeps of its relations.
LEMMA AcceptedIsSettled ==
  ASSUME LoadInv, stage = "accepted", NEW m \in Models, NEW n \in DOMAIN resolved[m].fields,
         NEW o, Paired(m, n, o)
  PROVE  LET t == resolved[m].fields[n].of
         IN /\ Checked /\ t \in Models /\ o \in DOMAIN resolved[t].fields
            /\ resolved[t].fields[o].of = m
            /\ Settled(m, n, o) /\ Settled(t, o, n)
<1>1. /\ Checked /\ visited = Models
      /\ \A k \in Models : \A x \in DOMAIN resolved[k].fields :
           \A y : Paired(k, x, y) => Settled(k, x, y)
  BY SMTT(30) DEF LoadInv, ModelInv, Checked
<1> QED BY <1>1, PairFacts, SMTT(30)

\* The two fields of a 1:1 relation name one key, on the side the schema says
\* holds it, whatever order the models are visited in.
THEOREM KeysAreAgreed == LoadSpec => []OneToOneHasOneKey
<1>1. LoadInv => OneToOneHasOneKey
  <2> SUFFICES ASSUME LoadInv, stage = "accepted", NEW m \in Models,
                      NEW n \in DOMAIN resolved[m].fields, NEW t, t = resolved[m].fields[n].of,
                      resolved[m].fields[n].kind = "Relation",
                      NEW o \in DOMAIN resolved[t].fields,
                      Paired(m, n, o), ~ resolved[m].fields[n].array,
                      ~ resolved[t].fields[o].array, m # t
               PROVE  LET f == resolved[m].fields[n]
                          holder == HoldsKey(m, n, t, o)
                      IN /\ f.key = resolved[t].fields[o].key
                         /\ f.key = IF holder THEN KeyName(n) ELSE KeyName(o)
                         /\ KeyName(n) \in DOMAIN resolved[m].fields
                              <=> holder \/ Declares(m, KeyName(n))
    BY DEF OneToOneHasOneKey
  <2>1. t \in Models /\ resolved[t].fields[o].of = m /\ Settled(m, n, o) /\ Settled(t, o, n)
    BY AcceptedIsSettled
  <2>2. m \in Range(Alphabet) /\ t \in Range(Alphabet)
    BY <2>1, SMTT(30) DEF LoadInv, ReadInv, IsAst, Models
  <2>3. HoldsKey(t, o, m, n) <=> ~ HoldsKey(m, n, t, o)
    BY <2>2, OneHolds, SMTT(30)
  <2> QED BY <2>1, <2>3 DEF Settled
<1> QED BY <1>1, LoadingIsInvariant, PTL

\* An array field and the singular field it is paired with name one column, and
\* the many side has it.
THEOREM ArraysAgreeWithKeys == LoadSpec => []ArraysFollowTheirKey
<1>1. LoadInv => ArraysFollowTheirKey
  <2> SUFFICES ASSUME LoadInv, stage = "accepted", NEW m \in Models,
                      NEW n \in DOMAIN resolved[m].fields, NEW t, t = resolved[m].fields[n].of,
                      resolved[m].fields[n].array,
                      NEW o \in DOMAIN resolved[t].fields,
                      Paired(m, n, o), ~ resolved[t].fields[o].array
               PROVE  LET f == resolved[m].fields[n]
                      IN /\ f.key = KeyName(o) /\ resolved[t].fields[o].key = f.key
                         /\ f.key \in DOMAIN resolved[t].fields
    BY DEF ArraysFollowTheirKey, IsArray
  <2>1. t \in Models /\ resolved[t].fields[o].of = m /\ Settled(m, n, o) /\ Settled(t, o, n)
    BY AcceptedIsSettled
  <2> QED BY <2>1 DEF Settled
<1> QED BY <1>1, LoadingIsInvariant, PTL

\* No step of the loader leads on from an accepted schema.
LEMMA AcceptedIsFinal == stage = "accepted" => ~ Load
BY DEF Load, ReadSchema, ResolveSymbols, SortBase, SortEnds, FlattenBase, Crystallize,
       CheckGraph, ValidateRelations, InjectKeys
=============================================================================
