---------------------------- MODULE DataInduction -----------------------------
(***************************************************************************)
(* Induction over data, in the form the provers can use: over sets of      *)
(* numbers instead of predicates, and the trace of a fold from the left    *)
(* instead of its recursion over sets of positions; and the sequences made *)
(* of sequences and of finite sets.                                        *)
(***************************************************************************)
EXTENDS SequencesExt, SequenceTheorems, FiniteSetTheorems, WellFoundedInduction, TLAPS

\* Less-than on the naturals, as a set of pairs.
Below == {p \in Nat \X Nat : p[1] < p[2]}

\* A set of naturals has a least member.
LEMMA Least ==
  ASSUME NEW T \in SUBSET Nat, T # {}
  PROVE  \E n \in T : \A m \in T : n <= m
<1>1. IsWellFoundedOn(Below, Nat)
  BY NatLessThanWellFounded DEF OpToRel, Below
<1>2. PICK x \in T : \A y \in T : ~ (<<y, x>> \in Below)
  BY <1>1, WFMin
<1>3. ASSUME NEW y \in T PROVE x <= y
  <2>1. x \in Nat /\ y \in Nat
    OBVIOUS
  <2>2. ~ (y < x)
    BY <1>2, <2>1 DEF Below
  <2> QED BY <2>1, <2>2
<1> QED BY <1>3

\* Induction.
LEMMA Induct ==
  ASSUME NEW S \in SUBSET Nat, 0 \in S, \A n \in S : n + 1 \in S
  PROVE  S = Nat
<1> SUFFICES ASSUME Nat \ S # {} PROVE FALSE
  OBVIOUS
<1>1. PICK n \in Nat \ S : \A m \in Nat \ S : n <= m
  BY Least
<1>2. n # 0 /\ n - 1 \in Nat
  BY <1>1
<1>3. n - 1 \in S
  BY <1>1, <1>2
<1> QED BY <1>1, <1>2, <1>3

\* Induction up to a bound.
LEMMA InductUpTo ==
  ASSUME NEW n \in Nat, NEW S \in SUBSET (0 .. n), 0 \in S,
         \A k \in S : k < n => k + 1 \in S
  PROVE  S = 0 .. n
<1> DEFINE T == S \cup {k \in Nat : k > n}
<1>1. T \in SUBSET Nat /\ 0 \in T
  <2>1. S \subseteq Nat
    OBVIOUS
  <2> QED BY <2>1
<1>2. ASSUME NEW k \in T PROVE k + 1 \in T
  <2>1. k \in Nat
    OBVIOUS
  <2>2. CASE k < n
    <3>1. k \in S
      BY <2>1, <2>2
    <3> QED BY <3>1, <2>2
  <2>3. CASE ~ (k < n)
    BY <2>1, <2>3
  <2> QED BY <2>2, <2>3
<1>3. T = Nat
  <2> HIDE DEF T
  <2> QED BY <1>1, <1>2, Induct
<1>4. ASSUME NEW k \in 0 .. n PROVE k \in S
  <2>1. k \in T /\ ~ (k > n)
    BY <1>3
  <2> QED BY <2>1
<1> QED BY <1>4

(***************************************************************************)
(* The greatest of a set of positions.                                     *)
(***************************************************************************)
LEMMA MaxOf ==
  ASSUME NEW n \in Nat, NEW T \in SUBSET (1 .. n), T # {}
  PROVE  Max(T) \in T /\ \A m \in T : m <= Max(T)
<1> DEFINE D == {k \in Nat : \E m \in T : k = n - m}
<1>1. D \in SUBSET Nat /\ D # {}
  <2>1. PICK m \in T : TRUE
    OBVIOUS
  <2>2. n - m \in D
    BY <2>1
  <2> QED BY <2>2
<1>2. PICK k \in D : \A j \in D : k <= j
  BY <1>1, Least
<1>3. PICK x \in T : k = n - x
  BY <1>2
<1>4. ASSUME NEW y \in T PROVE x >= y
  <2>1. n - y \in D
    OBVIOUS
  <2> QED BY <2>1, <1>2, <1>3
<1>5. Max(T) \in T /\ \A m \in T : Max(T) >= m
  BY <1>3, <1>4 DEF Max
<1> QED BY <1>5

\* The greatest of 1 .. n.
LEMMA MaxUpTo ==
  ASSUME NEW n \in Nat, n # 0
  PROVE  Max(1 .. n) = n
<1>1. n \in 1 .. n
  OBVIOUS
<1>2. Max(1 .. n) \in 1 .. n /\ n <= Max(1 .. n)
  BY <1>1, MaxOf
<1> QED BY <1>2

(***************************************************************************)
(* A fold from the left has a trace: what it has come to after each member *)
(* of the sequence.                                                        *)
(***************************************************************************)
FoldUnrolls(op(_, _), base, seq) ==
  \E r : /\ r[0] = base
         /\ \A k \in 1 .. Len(seq) : r[k] = op(r[k - 1], seq[k])
         /\ FoldLeft(op, base, seq) = r[Len(seq)]

\* Every fold from the left unrolls.
LEMMA FoldTrace ==
  ASSUME NEW op(_, _), NEW base, NEW S, NEW seq \in Seq(S)
  PROVE  FoldUnrolls(op, base, seq)
<1> DEFINE D == DOMAIN seq
           Def(g, s) == IF s = {} THEN base ELSE op(g[s \ {Max(s)}], seq[Max(s)])
           iter == CHOOSE g : g = [s \in SUBSET D |-> Def(g, s)]
           R == StrictSubsetOrdering(D)
<1>1. FoldLeft(op, base, seq) = iter[D]
  BY DEF FoldLeft, MapThenFoldSet
<1>2. D = 1 .. Len(seq) /\ Len(seq) \in Nat
  OBVIOUS
<1>3. IsWellFoundedOn(R, SUBSET D)
  <2>1. IsFiniteSet(D)
    BY <1>2, FS_Interval
  <2>2. FiniteSubsetsOf(D) = SUBSET D
    BY <2>1, FS_FiniteSubsetsOfFinite
  <2> QED BY <2>2, FS_StrictSubsetOrderingWellFounded
<1>4. WFDefOn(R, SUBSET D, Def)
  <2>1. ASSUME NEW g, NEW h, NEW s \in SUBSET D,
               \A y \in SetLessThan(s, R, SUBSET D) : g[y] = h[y]
        PROVE  Def(g, s) = Def(h, s)
    <3>1. CASE s = {}
      BY <3>1
    <3>2. CASE s # {}
      <4>1. Max(s) \in s
        BY <1>2, <3>2, MaxOf
      <4>2. s \ {Max(s)} \in SetLessThan(s, R, SUBSET D)
        BY <4>1 DEF SetLessThan, StrictSubsetOrdering
      <4> QED BY <2>1, <4>2
    <3> QED BY <3>1, <3>2
  <2> QED BY <2>1 DEF WFDefOn
<1>5. OpDefinesFcn(iter, SUBSET D, Def)
  BY DEF OpDefinesFcn
<1>6. WFInductiveDefines(iter, SUBSET D, Def)
  BY <1>3, <1>4, <1>5, WFInductiveDef
<1>7. iter = [s \in SUBSET D |-> Def(iter, s)]
  BY <1>6 DEF WFInductiveDefines
<1> HIDE DEF iter
<1> DEFINE r == [k \in 0 .. Len(seq) |-> iter[1 .. k]]
<1>8. r[0] = base
  <2>1. 1 .. 0 = {}
    OBVIOUS
  <2>2. iter[{}] = base
    BY <1>7
  <2> QED BY <2>1, <2>2, <1>2
<1>9. ASSUME NEW k \in 1 .. Len(seq) PROVE r[k] = op(r[k - 1], seq[k])
  <2>1. k \in Nat /\ k # 0 /\ k - 1 \in 0 .. Len(seq) /\ k \in 0 .. Len(seq)
    BY <1>2
  <2>2. Max(1 .. k) = k
    BY <2>1, MaxUpTo
  <2>3. (1 .. k) \in SUBSET D /\ 1 .. k # {}
    <3>1. k \in 1 .. k /\ k <= Len(seq)
      BY <1>2, <2>1
    <3>2. \A i \in 1 .. k : i \in 1 .. Len(seq)
      BY <3>1, <1>2, <2>1
    <3> QED BY <3>1, <3>2, <1>2
  <2>4. (1 .. k) \ {k} = 1 .. (k - 1)
    BY <2>1
  <2>5. iter[1 .. k] = op(iter[1 .. (k - 1)], seq[k])
    BY <1>7, <2>2, <2>3, <2>4
  <2> QED BY <2>1, <2>5
<1>10. FoldLeft(op, base, seq) = r[Len(seq)]
  BY <1>1, <1>2
<1> HIDE DEF r
<1> QED BY <1>8, <1>9, <1>10 DEF FoldUnrolls

FoldsOn(op(_, _), base, seq, x) ==
  FoldLeft(op, base, Append(seq, x)) = op(FoldLeft(op, base, seq), x)

\* One more member, one more step.
LEMMA FoldGrows ==
  ASSUME NEW op(_, _), NEW base, NEW S, NEW seq \in Seq(S), NEW x \in S
  PROVE  FoldsOn(op, base, seq, x)
<1> DEFINE n == Len(seq)
           t == Append(seq, x)
<1>1. /\ n \in Nat /\ t \in Seq(S) /\ Len(t) = n + 1 /\ t[n + 1] = x
      /\ \A k \in 1 .. n : t[k] = seq[k]
  OBVIOUS
<1>2. PICK r : /\ r[0] = base /\ \A k \in 1 .. n : r[k] = op(r[k - 1], seq[k])
               /\ FoldLeft(op, base, seq) = r[n]
  <2>1. FoldUnrolls(op, base, seq)
    BY FoldTrace
  <2> QED BY <2>1 DEF FoldUnrolls
<1> HIDE DEF t
<1>3. PICK q : /\ q[0] = base /\ \A k \in 1 .. Len(t) : q[k] = op(q[k - 1], t[k])
               /\ FoldLeft(op, base, t) = q[Len(t)]
  <2>1. FoldUnrolls(op, base, t)
    BY <1>1, FoldTrace
  <2> QED BY <2>1 DEF FoldUnrolls
<1>4. r[n] = q[n]
  <2> DEFINE A == {k \in 0 .. n : r[k] = q[k]}
  <2>1. A \in SUBSET (0 .. n) /\ 0 \in A
    BY <1>1, <1>2, <1>3
  <2>2. ASSUME NEW k \in A, k < n PROVE k + 1 \in A
    <3>1. k + 1 \in 1 .. n /\ k + 1 \in 1 .. Len(t) /\ (k + 1) - 1 = k /\ k + 1 \in 0 .. n
      BY <1>1, <2>2
    <3>2. r[k + 1] = op(r[k], seq[k + 1]) /\ q[k + 1] = op(q[k], t[k + 1])
      BY <1>2, <1>3, <3>1
    <3> QED BY <1>1, <3>1, <3>2
  <2>3. A = 0 .. n
    <3> HIDE DEF A
    <3> QED BY <1>1, <2>1, <2>2, InductUpTo
  <2>4. n \in 0 .. n
    BY <1>1
  <2> QED BY <2>3, <2>4
<1>5. q[n + 1] = op(q[n], x)
  <2>1. n + 1 \in 1 .. Len(t) /\ (n + 1) - 1 = n
    BY <1>1
  <2> QED BY <1>1, <1>3, <2>1
<1> QED BY <1>1, <1>2, <1>3, <1>4, <1>5 DEF t, FoldsOn

\* One sequence after another.
LEMMA ConcatFacts ==
  ASSUME NEW S, NEW a \in Seq(S), NEW b \in Seq(S)
  PROVE  /\ a \o b \in Seq(S) /\ Len(a) \in Nat /\ Len(b) \in Nat
         /\ Len(a \o b) = Len(a) + Len(b)
         /\ DOMAIN a = 1 .. Len(a) /\ DOMAIN b = 1 .. Len(b)
         /\ DOMAIN (a \o b) = 1 .. Len(a) + Len(b)
         /\ \A i \in 1 .. Len(a) : i \in 1 .. Len(a) + Len(b) /\ (a \o b)[i] = a[i]
         /\ \A i \in 1 .. Len(b) :
              Len(a) + i \in 1 .. Len(a) + Len(b) /\ (a \o b)[Len(a) + i] = b[i]
OBVIOUS

(***************************************************************************)
(* FlattenSeq, unrolled.                                                   *)
(***************************************************************************)
LEMMA FlatTrace ==
  ASSUME NEW S, NEW ss \in Seq(Seq(S))
  PROVE  \E g : /\ g[0] = <<>>
                /\ \A k \in 1 .. Len(ss) : g[k] = g[k - 1] \o ss[k]
                /\ FlattenSeq(ss) = g[Len(ss)]
<1> DEFINE n == Len(ss)
<1>1. n \in Nat /\ DOMAIN ss = 1 .. n /\ \A k \in 1 .. n : ss[k] \in Seq(S)
  OBVIOUS
<1>2. CASE n = 0
  <2>1. ss = <<>>
    BY <1>2
  <2>2. FlattenSeq(ss) = <<>>
    BY <1>2, <2>1 DEF FlattenSeq
  <2> DEFINE g == [k \in {0} |-> <<>>]
  <2>3. g[0] = <<>> /\ \A k \in 1 .. n : g[k] = g[k - 1] \o ss[k]
    BY <1>2
  <2> QED BY <1>2, <2>2, <2>3
<1>3. CASE n # 0
  <2> DEFINE Next(v, k) == IF k = 1 THEN ss[1] ELSE v \o ss[k]
             h == CHOOSE f : f = [k \in Nat |-> IF k = 0 THEN <<>> ELSE Next(f[k - 1], k)]
  <2>1. NatInductiveDefHypothesis(h, <<>>, Next)
    BY DEF NatInductiveDefHypothesis
  <2>2. h = [k \in Nat |-> IF k = 0 THEN <<>> ELSE Next(h[k - 1], k)]
    <3> HIDE DEF h, Next
    <3>1. NatInductiveDefConclusion(h, <<>>, Next)
      BY <2>1, NatInductiveDef
    <3> QED BY <3>1 DEF NatInductiveDefConclusion
  <2> HIDE DEF h
  <2> DEFINE f0 == [i \in 1 .. n |-> h[i]]
             Eq(f) == f = [i \in 1 .. n |-> IF i = 1 THEN ss[i] ELSE f[i - 1] \o ss[i]]
             flat == CHOOSE f : Eq(f)
  <2>3. Eq(f0)
    <3>1. ASSUME NEW i \in 1 .. n
          PROVE  h[i] = IF i = 1 THEN ss[i] ELSE f0[i - 1] \o ss[i]
      <4>1. i \in Nat /\ i # 0
        BY <1>1
      <4>5. h[i] = Next(h[i - 1], i)
        <5> HIDE DEF Next
        <5> QED BY <2>2, <4>1
      <4>2. CASE i = 1
        BY <4>5, <4>2
      <4>3. CASE i # 1
        <5>1. i - 1 \in 1 .. n
          BY <1>1, <4>1, <4>3
        <5> QED BY <4>5, <4>3, <5>1
      <4> QED BY <4>2, <4>3
    <3> QED BY <3>1, SMTT(30)
  <2>4. Eq(flat)
    <3> HIDE DEF Eq, f0
    <3> QED BY <2>3
  <2>5. FlattenSeq(ss) = flat[n]
    BY <1>3, SMTT(30) DEF FlattenSeq
  <2>6. flat = [i \in 1 .. n |-> IF i = 1 THEN ss[i] ELSE flat[i - 1] \o ss[i]]
    BY <2>4
  <2> HIDE DEF flat
  <2> DEFINE g == [k \in 0 .. n |-> IF k = 0 THEN <<>> ELSE flat[k]]
  <2>7. ASSUME NEW k \in 1 .. n PROVE g[k] = g[k - 1] \o ss[k]
    <3>1. k \in 0 .. n /\ k # 0 /\ k - 1 \in 0 .. n
      BY <1>1
    <3>2. g[k] = flat[k] /\ flat[k] = IF k = 1 THEN ss[k] ELSE flat[k - 1] \o ss[k]
      BY <2>6, <3>1
    <3>3. CASE k = 1
      <4>1. g[k - 1] = <<>>
        BY <3>1, <3>3
      <4>2. ss[k] \in Seq(S)
        BY <1>1
      <4>3. <<>> \o ss[k] = ss[k]
        BY <4>2
      <4> QED BY <3>2, <3>3, <4>1, <4>3
    <3>4. CASE k # 1
      <4>1. k - 1 # 0
        BY <1>1, <3>4
      <4> QED BY <3>1, <3>2, <3>4, <4>1
    <3> QED BY <3>3, <3>4
  <2>8. g[0] = <<>> /\ g[n] = flat[n]
    BY <1>1, <1>3
  <2> HIDE DEF g
  <2> QED BY <2>5, <2>7, <2>8
<1> QED BY <1>2, <1>3

\* A set of sequences that is closed under concatenation is under flattening.
LEMMA FlatIn ==
  ASSUME NEW S, NEW G, G \subseteq Seq(S), <<>> \in G, \A a \in G : \A b \in G : a \o b \in G,
         NEW ss \in Seq(G)
  PROVE  FlattenSeq(ss) \in G
<1> DEFINE n == Len(ss)
<1>1. n \in Nat /\ ss \in Seq(Seq(S)) /\ \A k \in 1 .. n : ss[k] \in G
  <2>1. n \in Nat /\ DOMAIN ss = 1 .. n /\ \A k \in 1 .. n : ss[k] \in G
    OBVIOUS
  <2>2. ss \in [1 .. n -> Seq(S)]
    BY <2>1
  <2> QED BY <2>1, <2>2
<1>2. PICK g : /\ g[0] = <<>> /\ \A k \in 1 .. n : g[k] = g[k - 1] \o ss[k]
               /\ FlattenSeq(ss) = g[n]
  BY <1>1, FlatTrace
<1> DEFINE A == {k \in 0 .. n : g[k] \in G}
<1>3. A \in SUBSET (0 .. n) /\ 0 \in A
  BY <1>1, <1>2
<1>4. ASSUME NEW k \in A, k < n PROVE k + 1 \in A
  <2>1. k + 1 \in 1 .. n /\ (k + 1) - 1 = k /\ k + 1 \in 0 .. n
    BY <1>1, <1>4
  <2>2. g[k + 1] = g[k] \o ss[k + 1]
    BY <1>2, <2>1
  <2> QED BY <1>1, <2>1, <2>2
<1>5. A = 0 .. n
  <2> HIDE DEF A
  <2> QED BY <1>1, <1>3, <1>4, InductUpTo
<1>6. n \in 0 .. n
  BY <1>1
<1> QED BY <1>2, <1>5, <1>6

\* Flattening is a sequence again and grows at its end.
LEMMA FlatGrows ==
  ASSUME NEW S, NEW ss \in Seq(Seq(S)), NEW s \in Seq(S)
  PROVE  /\ FlattenSeq(ss) \in Seq(S)
         /\ FlattenSeq(Append(ss, s)) = FlattenSeq(ss) \o s
<1> DEFINE n == Len(ss)
           tt == Append(ss, s)
<1>1. /\ n \in Nat /\ tt \in Seq(Seq(S)) /\ Len(tt) = n + 1 /\ tt[n + 1] = s
      /\ \A k \in 1 .. n : tt[k] = ss[k]
  OBVIOUS
<1>2. PICK g : /\ g[0] = <<>> /\ \A k \in 1 .. n : g[k] = g[k - 1] \o ss[k]
               /\ FlattenSeq(ss) = g[n]
  BY FlatTrace
<1> HIDE DEF tt
<1>3. PICK h : /\ h[0] = <<>> /\ \A k \in 1 .. Len(tt) : h[k] = h[k - 1] \o tt[k]
               /\ FlattenSeq(tt) = h[Len(tt)]
  BY <1>1, FlatTrace
<1>4. g[n] = h[n]
  <2> DEFINE A == {k \in 0 .. n : g[k] = h[k]}
  <2>1. A \in SUBSET (0 .. n) /\ 0 \in A
    BY <1>1, <1>2, <1>3
  <2>2. ASSUME NEW k \in A, k < n PROVE k + 1 \in A
    <3>1. k + 1 \in 1 .. n /\ k + 1 \in 1 .. Len(tt) /\ (k + 1) - 1 = k /\ k + 1 \in 0 .. n
      BY <1>1, <2>2
    <3>2. g[k + 1] = g[k] \o ss[k + 1] /\ h[k + 1] = h[k] \o tt[k + 1]
      BY <1>2, <1>3, <3>1
    <3> QED BY <1>1, <3>1, <3>2
  <2>3. A = 0 .. n
    <3> HIDE DEF A
    <3> QED BY <1>1, <2>1, <2>2, InductUpTo
  <2>4. n \in 0 .. n
    BY <1>1
  <2> QED BY <2>3, <2>4
<1>5. h[n + 1] = h[n] \o s
  <2>1. n + 1 \in 1 .. Len(tt) /\ (n + 1) - 1 = n
    BY <1>1
  <2> QED BY <1>1, <1>3, <2>1
<1>6. FlattenSeq(ss) \in Seq(S)
  <2>1. \A a \in Seq(S) : \A b \in Seq(S) : a \o b \in Seq(S)
    OBVIOUS
  <2>2. <<>> \in Seq(S)
    OBVIOUS
  <2> QED BY <2>1, <2>2, FlatIn
<1> QED BY <1>1, <1>2, <1>3, <1>4, <1>5, <1>6 DEF tt

\* Flattening keeps every member of every member.
LEMMA FlatHolds ==
  ASSUME NEW S, NEW ss \in Seq(Seq(S)), NEW i \in DOMAIN ss, NEW j \in DOMAIN ss[i]
  PROVE  \E k \in DOMAIN FlattenSeq(ss) : FlattenSeq(ss)[k] = ss[i][j]
<1> DEFINE n == Len(ss)
<1>1. n \in Nat /\ DOMAIN ss = 1 .. n /\ \A k \in 1 .. n : ss[k] \in Seq(S)
  OBVIOUS
<1>2. PICK g : /\ g[0] = <<>> /\ \A k \in 1 .. n : g[k] = g[k - 1] \o ss[k]
               /\ FlattenSeq(ss) = g[n]
  BY FlatTrace
<1> DEFINE x == ss[i][j]
           Holds(q) == \E k \in DOMAIN q : q[k] = x
           A == {k \in 0 .. n : g[k] \in Seq(S) /\ (k >= i => Holds(g[k]))}
<1>3. A \in SUBSET (0 .. n) /\ 0 \in A
  <2>1. ~ (0 >= i) /\ <<>> \in Seq(S) /\ 0 \in 0 .. n
    BY <1>1
  <2>2. 0 \in A
    <3> HIDE DEF Holds
    <3> QED BY <1>2, <2>1
  <2> QED BY <2>2
<1>4. ASSUME NEW k \in A, k < n PROVE k + 1 \in A
  <2>1. k + 1 \in 1 .. n /\ (k + 1) - 1 = k /\ k + 1 \in 0 .. n /\ k \in Nat
    BY <1>1, <1>4
  <2>2. g[k + 1] = g[k] \o ss[k + 1] /\ g[k] \in Seq(S) /\ ss[k + 1] \in Seq(S)
    BY <1>1, <1>2, <2>1
  <2>3. g[k + 1] \in Seq(S)
    BY <2>2
  <2>4. ASSUME k + 1 >= i PROVE Holds(g[k + 1])
    <3>1. CASE k + 1 = i
      <4>1. j \in 1 .. Len(ss[k + 1]) /\ Len(ss[k + 1]) \in Nat /\ Len(g[k]) \in Nat
        BY <1>1, <2>2, <3>1
      <4>2. /\ Len(g[k]) + j \in DOMAIN (g[k] \o ss[k + 1])
            /\ (g[k] \o ss[k + 1])[Len(g[k]) + j] = ss[k + 1][j]
        <5> DEFINE a == g[k]
                   b == ss[k + 1]
        <5>1. a \in Seq(S) /\ b \in Seq(S) /\ j \in 1 .. Len(b)
          BY <2>2, <4>1
        <5> HIDE DEF a, b
        <5>2. /\ DOMAIN (a \o b) = 1 .. Len(a) + Len(b)
              /\ \A l \in 1 .. Len(b) :
                   Len(a) + l \in 1 .. Len(a) + Len(b) /\ (a \o b)[Len(a) + l] = b[l]
          BY <5>1, ConcatFacts
        <5>3. Len(a) + j \in DOMAIN (a \o b) /\ (a \o b)[Len(a) + j] = b[j]
          BY <5>1, <5>2
        <5> QED BY <5>3 DEF a, b
      <4> QED BY <2>2, <3>1, <4>2
    <3>2. CASE k + 1 # i
      <4>1. k >= i
        BY <1>1, <2>1, <2>4, <3>2
      <4>2. PICK m \in DOMAIN g[k] : g[k][m] = x
        BY <4>1
      <4>3. m \in DOMAIN (g[k] \o ss[k + 1]) /\ (g[k] \o ss[k + 1])[m] = g[k][m]
        <5> DEFINE a == g[k]
                   b == ss[k + 1]
        <5>1. a \in Seq(S) /\ b \in Seq(S) /\ m \in DOMAIN a
          BY <2>2
        <5> HIDE DEF a, b
        <5>2. m \in DOMAIN (a \o b) /\ (a \o b)[m] = a[m]
          BY <5>1, ConcatFacts, SMTT(30)
        <5> QED BY <5>2 DEF a, b
      <4> QED BY <2>2, <4>2, <4>3
    <3> QED BY <3>1, <3>2
  <2> QED BY <2>1, <2>3, <2>4
<1>5. A = 0 .. n
  <2> HIDE DEF A
  <2> QED BY <1>1, <1>3, <1>4, InductUpTo
<1>6. n \in 0 .. n /\ n >= i
  BY <1>1
<1>7. Holds(g[n])
  BY <1>5, <1>6
<1> QED BY <1>2, <1>7

\* Flattening two sequences end to end.
LEMMA FlatConcat ==
  ASSUME NEW S, NEW ss \in Seq(Seq(S)), NEW tt \in Seq(Seq(S))
  PROVE  FlattenSeq(ss \o tt) = FlattenSeq(ss) \o FlattenSeq(tt)
<1> DEFINE n == Len(tt)
           A == {k \in 0 .. n : FlattenSeq(ss \o SubSeq(tt, 1, k))
                                  = FlattenSeq(ss) \o FlattenSeq(SubSeq(tt, 1, k))}
<1>1. n \in Nat /\ \A k \in 1 .. n : tt[k] \in Seq(S)
  OBVIOUS
<1>2. 0 \in A
  <2>1. SubSeq(tt, 1, 0) = <<>> /\ ss \o <<>> = ss
    OBVIOUS
  <2>2. FlattenSeq(<<>>) = <<>>
    BY DEF FlattenSeq
  <2>3. FlattenSeq(ss) \in Seq(S)
    <3>1. <<>> \in Seq(S)
      OBVIOUS
    <3> QED BY <3>1, FlatGrows
  <2>4. FlattenSeq(ss) \o <<>> = FlattenSeq(ss)
    BY <2>3
  <2>5. FlattenSeq(ss \o SubSeq(tt, 1, 0)) = FlattenSeq(ss) \o FlattenSeq(SubSeq(tt, 1, 0))
    BY <2>1, <2>2, <2>4
  <2>6. 0 \in 0 .. n
    BY <1>1
  <2> QED BY <2>5, <2>6
<1>3. ASSUME NEW k \in A, k < n PROVE k + 1 \in A
  <2> DEFINE s == SubSeq(tt, 1, k)
             x == tt[k + 1]
  <2>1. k \in Nat /\ k + 1 \in 1 .. n /\ k + 1 \in 0 .. n /\ x \in Seq(S)
    BY <1>1, <1>3
  <2>2. s \in Seq(Seq(S)) /\ SubSeq(tt, 1, k + 1) = Append(s, x)
    BY <1>1, <2>1
  <2> HIDE DEF s, x
  <2>3. ss \o Append(s, x) = Append(ss \o s, x) /\ ss \o s \in Seq(Seq(S))
    <3> DEFINE T == Seq(S)
    <3>1. ss \in Seq(T) /\ s \in Seq(T) /\ x \in T
      BY <2>1, <2>2
    <3> HIDE DEF T
    <3>2. ss \o s \in Seq(T) /\ <<x>> \in Seq(T)
      BY <3>1
    <3>3. Append(s, x) = s \o <<x>> /\ Append(ss \o s, x) = (ss \o s) \o <<x>>
      BY <3>1, <3>2, AppendIsConcat
    <3>4. (ss \o s) \o <<x>> = ss \o (s \o <<x>>)
      BY <3>1, <3>2, ConcatAssociative
    <3>5. ss \o s \in Seq(Seq(S))
      BY <3>2 DEF T
    <3> QED BY <3>3, <3>4, <3>5
  <2>4. /\ FlattenSeq(Append(ss \o s, x)) = FlattenSeq(ss \o s) \o x
        /\ FlattenSeq(Append(s, x)) = FlattenSeq(s) \o x
        /\ FlattenSeq(s) \in Seq(S) /\ FlattenSeq(ss) \in Seq(S)
    BY <2>1, <2>2, <2>3, FlatGrows
  <2>5. FlattenSeq(ss \o s) = FlattenSeq(ss) \o FlattenSeq(s)
    BY <1>3 DEF s
  <2>6. (FlattenSeq(ss) \o FlattenSeq(s)) \o x = FlattenSeq(ss) \o (FlattenSeq(s) \o x)
    <3> DEFINE a == FlattenSeq(ss)
               b == FlattenSeq(s)
    <3>1. a \in Seq(S) /\ b \in Seq(S)
      BY <2>4
    <3> HIDE DEF a, b
    <3>2. ASSUME NEW c \in Seq(S) PROVE (a \o b) \o c = a \o (b \o c)
      BY <3>1, ConcatAssociative, SMTT(30)
    <3>3. (a \o b) \o x = a \o (b \o x)
      BY <2>1, <3>2
    <3> QED BY <3>3 DEF a, b
  <2> QED BY <2>1, <2>2, <2>3, <2>4, <2>5, <2>6
<1>4. A = 0 .. n
  <2>1. A \in SUBSET (0 .. n)
    OBVIOUS
  <2> HIDE DEF A
  <2> QED BY <1>1, <1>2, <1>3, <2>1, InductUpTo
<1>5. n \in 0 .. n /\ SubSeq(tt, 1, n) = tt
  BY <1>1
<1> QED BY <1>4, <1>5

(***************************************************************************)
(* Finite sets and the sequences made of them.                             *)
(***************************************************************************)
\* The values of a function with finite domain are finitely many.
LEMMA FiniteRange ==
  ASSUME NEW f, IsFiniteSet(DOMAIN f)
  PROVE  IsFiniteSet({f[x] : x \in DOMAIN f})
<1> DEFINE T == {f[x] : x \in DOMAIN f}
           g == [x \in DOMAIN f |-> f[x]]
<1>1. g \in Surjection(DOMAIN f, T)
  <2>1. g \in [DOMAIN f -> T] /\ \A y \in T : \E x \in DOMAIN f : g[x] = y
    OBVIOUS
  <2> QED BY <2>1 DEF Surjection
<1> QED BY <1>1, FS_Surjection

\* SetToSeq puts the members of a finite set in some order.
LEMMA SetInSequence ==
  ASSUME NEW S, IsFiniteSet(S)
  PROVE  /\ Cardinality(S) \in Nat
         /\ SetToSeq(S) \in [1 .. Cardinality(S) -> S]
         /\ \A x \in S : \E i \in 1 .. Cardinality(S) : SetToSeq(S)[i] = x
         /\ \A i \in 1 .. Cardinality(S) : \A j \in 1 .. Cardinality(S) :
              SetToSeq(S)[i] = SetToSeq(S)[j] => i = j
<1> DEFINE n == Cardinality(S)
<1>1. n \in Nat
  BY FS_CardinalityType
<1>2. \E f \in [1 .. n -> S] : IsInjective(f)
  <2>1. IsFiniteSet(1 .. n) /\ Cardinality(1 .. n) = n
    BY <1>1, FS_Interval
  <2>2. ExistsBijection(1 .. n, S)
    <3> HIDE DEF n
    <3>1. Cardinality(1 .. n) = Cardinality(S)
      BY <2>1 DEF n
    <3> QED BY <2>1, <3>1, FS_SameCardinalityBij
  <2>3. PICK f : f \in Bijection(1 .. n, S)
    BY <2>2 DEF ExistsBijection
  <2>4. f \in [1 .. n -> S] /\ \A a \in 1 .. n : \A b \in 1 .. n : f[a] = f[b] => a = b
    BY <2>3 DEF Bijection, Injection, IsInjective
  <2> QED BY <2>4 DEF IsInjective
<1>3. SetToSeq(S) \in [1 .. n -> S] /\ IsInjective(SetToSeq(S))
  BY <1>2 DEF SetToSeq
<1>4. SetToSeq(S) \in Surjection(1 .. n, S)
  <2> DEFINE f == SetToSeq(S)
  <2>1. f \in Injection(1 .. n, S)
    BY <1>3 DEF Injection, IsInjective
  <2>2. IsFiniteSet(1 .. n) /\ Cardinality(1 .. n) = n
    BY <1>1, FS_Interval
  <2> HIDE DEF f
  <2>3. Cardinality(1 .. n) = Cardinality(S) <=> f \in Surjection(1 .. n, S)
    BY <2>1, FS_Injection
  <2> QED BY <2>2, <2>3 DEF f
<1> QED BY <1>1, <1>3, <1>4 DEF Surjection, IsInjective
===============================================================================
