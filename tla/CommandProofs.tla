----------------------------- MODULE CommandProofs -----------------------------
(***************************************************************************)
(* Proofs about what the binary does with a schema it has loaded: `caqui   *)
(* git`, for every set of command lines, every schema and every history,   *)
(* what becomes of a merge and what a report without differences says; and *)
(* mutations of links that may lead to several models, for every schema,   *)
(* every database and every mutation, that deletes are complete and that   *)
(* the operations through a link follow its pair.                          *)
(***************************************************************************)
EXTENDS GitProxy, PolymorphicLinks, CrystallizationProofs

(***************************************************************************)
(* The command line.                                                       *)
(***************************************************************************)
\* What the loop has found out when it has visited k words: the subcommand, or
\* that they all are options, the value of the last one to come if skip is set.
Scanned(words, scan, k) ==
  IF scan.found
  THEN scan.at \in 1 .. k /\ OptionsEnd(words, scan.at) /\ words[scan.at] \notin Flags
  ELSE scan.at = k /\ OptionsEnd(words, IF scan.skip /\ k < Len(words) THEN k + 2 ELSE k + 1)

\* One visit of the loop.
LEMMA WordVisited ==
  ASSUME NEW scan, NEW word, ~ scan.found
  PROVE  LET next == Visit(scan, word)
         IN /\ next.found <=> ~ scan.skip /\ word \notin Flags
            /\ next.skip <=> ~ scan.skip /\ word \in ValueFlags
            /\ next.at = scan.at + 1
<1>1. ASSUME NEW F \in BOOLEAN, NEW G \in BOOLEAN, NEW A, NEW next,
             next = [found |-> F, skip |-> G, at |-> A]
      PROVE  (next.found <=> F) /\ (next.skip <=> G) /\ next.at = A
  BY <1>1
<1> DEFINE F == ~ scan.skip /\ word \notin Flags
           G == ~ scan.skip /\ word \in ValueFlags
<1>2. Visit(scan, word) = [found |-> F, skip |-> G, at |-> scan.at + 1]
  BY DEF Visit
<1>3. F \in BOOLEAN /\ G \in BOOLEAN
  OBVIOUS
<1> HIDE DEF F, G
<1>4. LET next == Visit(scan, word)
      IN (next.found <=> F) /\ (next.skip <=> G) /\ next.at = scan.at + 1
  BY <1>1, <1>2, <1>3
<1> QED BY <1>4 DEF F, G

\* One more option.
LEMMA OptionsGrow ==
  ASSUME NEW words, NEW k \in Nat, OptionsEnd(words, k), k >= 1, words[k] \in Flags,
         Len(words) \in Nat
  PROVE  OptionsEnd(words, AfterOption(words, k))
<1> DEFINE e == AfterOption(words, k)
<1>1. PICK starts \in SUBSET (1 .. k - 1) :
        /\ 1 \in starts \cup {k}
        /\ \A j \in starts : words[j] \in Flags /\ AfterOption(words, j) \in starts \cup {k}
  BY DEF OptionsEnd
<1>2. e \in {k + 1, k + 2}
  BY DEF AfterOption
<1> HIDE DEF e
<1>3. starts \cup {k} \in SUBSET (1 .. e - 1)
  BY <1>2
<1>4. /\ 1 \in (starts \cup {k}) \cup {e}
      /\ \A j \in starts \cup {k} :
           words[j] \in Flags /\ AfterOption(words, j) \in (starts \cup {k}) \cup {e}
  BY <1>1 DEF e
<1>5. OptionsEnd(words, e)
  BY <1>3, <1>4 DEF OptionsEnd
<1> QED BY <1>5 DEF e

\* The loop finds the first word that is no option of git's own.
LEMMA SubcommandIsFirst ==
  ASSUME NEW words, IsSequence(words)
  PROVE  LET i == IF Subcommand(words) = 0 THEN Len(words) + 1 ELSE Subcommand(words)
         IN /\ i \in 1 .. Len(words) + 1 /\ OptionsEnd(words, i)
            /\ Subcommand(words) # 0 => Subcommand(words) \in 1 .. Len(words)
            /\ i =< Len(words) => i = Subcommand(words) /\ words[i] \notin Flags
<1> DEFINE n == Len(words)
           start == [found |-> FALSE, skip |-> FALSE, at |-> 0]
<1>1. words \in Seq(Range(words)) /\ n \in Nat
  BY SequenceFacts DEF IsSequence
<1>2. PICK r : /\ r[0] = start
               /\ \A k \in 1 .. n : r[k] = Visit(r[k - 1], words[k])
               /\ FoldLeft(Visit, start, words) = r[n]
  <2>1. FoldUnrolls(Visit, start, words)
    BY <1>1, FoldTrace
  <2> QED BY <2>1 DEF FoldUnrolls
<1> DEFINE S == {k \in 0 .. n : Scanned(words, r[k], k)}
<1>3. 0 \in S
  <2>1. ~ r[0].found /\ ~ r[0].skip /\ r[0].at = 0
    BY <1>2
  <2>2. OptionsEnd(words, 1)
    <3>1. {} \in SUBSET (1 .. 1 - 1) /\ 1 \in {} \cup {1}
      OBVIOUS
    <3> QED BY <3>1 DEF OptionsEnd
  <2>3. 0 \in 0 .. n /\ 0 + 1 = 1
    BY <1>1
  <2> QED BY <2>1, <2>2, <2>3 DEF Scanned
<1>4. ASSUME NEW k \in S, k < n PROVE k + 1 \in S
  <2> DEFINE scan == r[k]
             next == r[k + 1]
             word == words[k + 1]
  <2>1. k \in Nat /\ k + 1 \in 1 .. n /\ k + 1 \in 0 .. n /\ (k + 1) - 1 = k
    BY <1>1, <1>4
  <2>2. next = Visit(scan, word) /\ Scanned(words, scan, k)
    BY <1>2, <2>1
  <2> HIDE DEF scan, next
  <2>3. CASE scan.found
    <3>1. next = scan
      BY <2>2, <2>3 DEF Visit
    <3>2. Scanned(words, next, k + 1)
      BY <2>1, <2>2, <2>3, <3>1 DEF Scanned
    <3> QED BY <2>1, <3>2 DEF next
  <2>4. CASE ~ scan.found
    <3>1. /\ next.found <=> ~ scan.skip /\ word \notin Flags
          /\ next.skip <=> ~ scan.skip /\ word \in ValueFlags
          /\ next.at = k + 1
      BY <2>2, <2>4, WordVisited DEF Scanned
    <3>2. CASE scan.skip
      <4>1. OptionsEnd(words, k + 2)
        BY <1>4, <2>2, <2>4, <3>2 DEF Scanned
      <4>2. k + 2 = (k + 1) + 1
        BY <2>1
      <4>3. Scanned(words, next, k + 1)
        BY <3>1, <3>2, <4>1, <4>2 DEF Scanned
      <4> QED BY <2>1, <4>3 DEF next
    <3>3. CASE ~ scan.skip
      <4>1. OptionsEnd(words, k + 1)
        BY <2>2, <2>4, <3>3 DEF Scanned
      <4>2. CASE word \notin Flags
        <5>1. k + 1 \in 1 .. k + 1
          BY <2>1
        <5>2. Scanned(words, next, k + 1)
          BY <3>1, <3>3, <4>1, <4>2, <5>1 DEF Scanned
        <5> QED BY <2>1, <5>2 DEF next
      <4>3. CASE word \in Flags
        <5>1. OptionsEnd(words, AfterOption(words, k + 1))
          BY <1>1, <2>1, <4>1, <4>3, OptionsGrow
        <5>2. AfterOption(words, k + 1)
                = IF next.skip /\ k + 1 < Len(words) THEN (k + 1) + 2 ELSE (k + 1) + 1
          BY <3>1, <3>3 DEF AfterOption
        <5>3. Scanned(words, next, k + 1)
          BY <3>1, <3>3, <4>3, <5>1, <5>2 DEF Scanned
        <5> QED BY <2>1, <5>3 DEF next
      <4> QED BY <4>2, <4>3
    <3> QED BY <3>2, <3>3
  <2> QED BY <2>3, <2>4
<1>5. S = 0 .. n
  <2>1. S \in SUBSET (0 .. n)
    OBVIOUS
  <2> HIDE DEF S
  <2> QED BY <1>1, <1>3, <1>4, <2>1, InductUpTo
<1>6. Scanned(words, r[n], n)
  <2>1. n \in 0 .. n
    BY <1>1
  <2> QED BY <1>5, <2>1
<1>7. Subcommand(words) = IF r[n].found THEN r[n].at ELSE 0
  BY <1>2 DEF Subcommand
<1> HIDE DEF n, start, S
<1>8. CASE r[n].found
  <2>1. Subcommand(words) = r[n].at /\ r[n].at \in 1 .. n
    BY <1>6, <1>7, <1>8 DEF Scanned
  <2>2. OptionsEnd(words, r[n].at) /\ words[r[n].at] \notin Flags
    BY <1>6, <1>8 DEF Scanned
  <2> QED BY <1>1, <2>1, <2>2 DEF n
<1>9. CASE ~ r[n].found
  <2>1. Subcommand(words) = 0
    BY <1>7, <1>9
  <2>2. OptionsEnd(words, n + 1)
    BY <1>1, <1>6, <1>9 DEF Scanned, n
  <2> QED BY <1>1, <2>1, <2>2 DEF n
<1> QED BY <1>8, <1>9

\* c is b after a.
Joins(S, a, b, c) ==
  /\ c \in Seq(S) /\ Len(c) = Len(a) + Len(b)
  /\ \A j \in 1 .. Len(a) : c[j] = a[j]
  /\ \A j \in 1 .. Len(b) : c[Len(a) + j] = b[j]

\* One sequence after another, without the operator.
LEMMA JoinFacts ==
  ASSUME NEW S, NEW a \in Seq(S), NEW b \in Seq(S)
  PROVE  Joins(S, a, b, a \o b)
BY ConcatFacts DEF Joins

\* pass is words with x and y put in after the i-th of them.
Widens(words, i, x, y, pass) ==
  /\ Len(pass) = Len(words) + 2
  /\ SubSeq(pass, i, i + 2) = <<words[i], x, y>>
  /\ SubSeq(pass, 1, i) \o SubSeq(pass, i + 3, Len(pass)) = words
  /\ \A j \in i + 3 .. Len(pass) : j - 2 \in i + 1 .. Len(words) /\ pass[j] = words[j - 2]

\* How the arguments are widened.
LEMMA OrdersInserted ==
  ASSUME NEW S, NEW words \in Seq(S), NEW i \in 1 .. Len(words), NEW x \in S, NEW y \in S
  PROVE  Widens(words, i, x, y,
                SubSeq(words, 1, i) \o <<x, y>> \o SubSeq(words, i + 1, Len(words)))
<1> DEFINE n == Len(words)
           front == SubSeq(words, 1, i)
           back == SubSeq(words, i + 1, n)
           pass == front \o <<x, y>> \o back
<1>1. n \in Nat /\ i \in Nat /\ i >= 1 /\ i <= n /\ \A j \in 1 .. n : words[j] \in S
  OBVIOUS
<1>2. front \in Seq(S) /\ Len(front) = i /\ \A j \in 1 .. i : front[j] = words[j]
  BY <1>1
<1>3. back \in Seq(S) /\ Len(back) = n - i /\ \A j \in 1 .. n - i : back[j] = words[i + j]
  BY <1>1
<1> DEFINE two == <<x, y>>
<1>4. two \in Seq(S) /\ Len(two) = 2 /\ two[1] = x /\ two[2] = y
  OBVIOUS
<1> HIDE DEF front, back, two
<1> DEFINE head == front \o two
<1>5. /\ head \in Seq(S) /\ Len(head) = i + 2
      /\ \A j \in 1 .. i : head[j] = words[j]
      /\ head[i + 1] = x /\ head[i + 2] = y
  <2>0. Joins(S, front, two, head)
    BY <1>2, <1>4, JoinFacts
  <2> HIDE DEF head
  <2>1. /\ head \in Seq(S) /\ Len(head) = Len(front) + Len(two)
        /\ \A j \in 1 .. Len(front) : head[j] = front[j]
        /\ \A j \in 1 .. Len(two) : head[Len(front) + j] = two[j]
    BY <2>0 DEF Joins
  <2>2. head[i + 1] = x /\ head[i + 2] = y
    BY <1>1, <1>2, <1>4, <2>1
  <2> QED BY <1>1, <1>2, <1>4, <2>1, <2>2
<1> HIDE DEF head
<1> DEFINE all == head \o back
<1>6. /\ all \in Seq(S) /\ Len(all) = n + 2
      /\ \A j \in 1 .. i + 2 : all[j] = head[j]
      /\ \A j \in i + 3 .. n + 2 : j - 2 \in i + 1 .. n /\ all[j] = words[j - 2]
  <2>0. Joins(S, head, back, all)
    BY <1>3, <1>5, JoinFacts
  <2> HIDE DEF all
  <2>1. /\ all \in Seq(S) /\ Len(all) = Len(head) + Len(back)
        /\ \A j \in 1 .. Len(head) : all[j] = head[j]
        /\ \A j \in 1 .. Len(back) : all[Len(head) + j] = back[j]
    BY <2>0 DEF Joins
  <2>2. ASSUME NEW j \in i + 3 .. n + 2
        PROVE  j - 2 \in i + 1 .. n /\ all[j] = words[j - 2]
    <3> DEFINE k == j - (i + 2)
    <3>1. k \in 1 .. n - i /\ j = (i + 2) + k /\ j - 2 = i + k /\ j - 2 \in i + 1 .. n
      BY <1>1
    <3> HIDE DEF k
    <3>2. all[(i + 2) + k] = back[k]
      BY <1>3, <1>5, <2>1, <3>1
    <3>3. back[k] = words[i + k]
      BY <1>3, <3>1
    <3> QED BY <3>1, <3>2, <3>3
  <2> QED BY <1>1, <1>3, <1>5, <2>1, <2>2
<1> HIDE DEF all
<1>7. \A j \in 1 .. n + 2 : all[j] \in S
  BY <1>1, <1>6
<1>8. SubSeq(all, i, i + 2) = <<words[i], x, y>>
  <2> DEFINE s == SubSeq(all, i, i + 2)
             t == <<words[i], x, y>>
  <2>1. /\ s \in Seq(S) /\ Len(s) = 3 /\ s[1] = all[i] /\ s[2] = all[i + 1] /\ s[3] = all[i + 2]
    BY <1>1, <1>6, <1>7
  <2>2. t \in Seq(S) /\ Len(t) = 3 /\ t[1] = words[i] /\ t[2] = x /\ t[3] = y
    BY <1>1
  <2>3. all[i] = words[i] /\ all[i + 1] = x /\ all[i + 2] = y
    BY <1>1, <1>5, <1>6
  <2> HIDE DEF s, t
  <2>4. \A j \in 1 .. 3 : s[j] = t[j]
    <3>1. \A j \in 1 .. 3 : j = 1 \/ j = 2 \/ j = 3
      OBVIOUS
    <3> QED BY <2>1, <2>2, <2>3, <3>1
  <2>5. s = t
    BY <2>1, <2>2, <2>4, SeqEqual
  <2> QED BY <2>5 DEF s, t
<1>9. SubSeq(all, 1, i) \o SubSeq(all, i + 3, n + 2) = words
  <2> DEFINE a == SubSeq(all, 1, i)
             b == SubSeq(all, i + 3, n + 2)
  <2>1. a \in Seq(S) /\ Len(a) = i /\ \A j \in 1 .. i : a[j] = words[j]
    <3>1. a \in Seq(S) /\ Len(a) = i /\ \A j \in 1 .. i : a[j] = all[j]
      BY <1>1, <1>6, <1>7
    <3> QED BY <1>1, <1>5, <1>6, <3>1
  <2>2. b \in Seq(S) /\ Len(b) = n - i /\ \A j \in 1 .. n - i : b[j] = words[i + j]
    <3>1. /\ b \in Seq(S) /\ Len(b) = IF i + 3 <= n + 2 THEN (n + 2) - (i + 3) + 1 ELSE 0
          /\ \A j \in 1 .. (n + 2) - (i + 3) + 1 : b[j] = all[(i + 3) + j - 1]
      <4>1. \A j \in i + 3 .. n + 2 : all[j] \in S
        BY <1>1, <1>7
      <4>2. i + 3 \in Int /\ n + 2 \in Int
        BY <1>1
      <4> QED BY <4>1, <4>2, SubSeqProperties
    <3>2. Len(b) = n - i
      BY <1>1, <3>1
    <3>3. ASSUME NEW j \in 1 .. n - i PROVE b[j] = words[i + j]
      <4>1. /\ j \in 1 .. (n + 2) - (i + 3) + 1 /\ (i + 3) + j - 1 \in i + 3 .. n + 2
            /\ ((i + 3) + j - 1) - 2 = i + j
        BY <1>1
      <4> QED BY <1>6, <3>1, <4>1
    <3> QED BY <3>1, <3>2, <3>3
  <2> HIDE DEF a, b
  <2> DEFINE c == a \o b
  <2>0. Joins(S, a, b, c)
    BY <2>1, <2>2, JoinFacts
  <2> HIDE DEF c
  <2>3. /\ c \in Seq(S) /\ Len(c) = Len(a) + Len(b)
        /\ \A j \in 1 .. Len(a) : c[j] = a[j]
        /\ \A j \in 1 .. Len(b) : c[Len(a) + j] = b[j]
    BY <2>0 DEF Joins
  <2>4. ASSUME NEW j \in 1 .. n PROVE c[j] = words[j]
    <3>1. CASE j <= i
      BY <1>1, <2>1, <2>3, <3>1
    <3>2. CASE j > i
      <4> DEFINE k == j - i
      <4>1. k \in 1 .. n - i /\ j = i + k
        BY <1>1, <3>2
      <4> HIDE DEF k
      <4>2. c[i + k] = b[k]
        BY <2>1, <2>2, <2>3, <4>1
      <4>3. b[k] = words[i + k]
        BY <2>2, <4>1
      <4> QED BY <4>1, <4>2, <4>3
    <3> QED BY <1>1, <3>1, <3>2
  <2>5. Len(c) = n /\ n = Len(words) /\ words \in Seq(S)
    BY <1>1, <2>1, <2>2, <2>3
  <2>6. c = words
    BY <2>3, <2>4, <2>5, SeqEqual
  <2> QED BY <2>6 DEF a, b, c
<1>10. all = SubSeq(words, 1, i) \o <<x, y>> \o SubSeq(words, i + 1, n)
  BY DEF all, head, front, back, two
<1>11. Widens(words, i, x, y, all)
  BY <1>6, <1>8, <1>9 DEF Widens
<1> QED BY <1>10, <1>11

\* What git is started with, as MergesAreDriven states it.
DrivenAt(words, pass, i) ==
  /\ OptionsEnd(words, i)
  /\ i =< Len(words) => words[i] \notin Flags
  /\ IF i =< Len(words) /\ words[i] = "merge"
     THEN /\ SubSeq(pass, i, i + 2) = <<"merge", "-s", "sqlitevfs">>
          /\ SubSeq(pass, 1, i) \o SubSeq(pass, i + 3, Len(pass)) = words
          /\ \A j \in i + 3 .. Len(pass) : pass[j] \notin StrategyFlags
     ELSE pass = words

Driven(words, pass) == \E i \in 1 .. Len(words) + 1 : DrivenAt(words, pass, i)

\* A command line that is not refused is passed on with the driver's strategy.
LEMMA PassedOn ==
  ASSUME NEW words, IsSequence(words), ~ OverridesStrategy(words)
  PROVE  Driven(words, PassArgs(words))
<1> DEFINE n == Len(words)
           i == IF Subcommand(words) = 0 THEN n + 1 ELSE Subcommand(words)
           pass == PassArgs(words)
<1>1. /\ i \in 1 .. n + 1 /\ OptionsEnd(words, i) /\ n \in Nat
      /\ Subcommand(words) # 0 => Subcommand(words) \in 1 .. n
      /\ i =< n => i = Subcommand(words) /\ words[i] \notin Flags
  BY SubcommandIsFirst, SequenceFacts
<1>2. IsMerge(words) <=> i =< n /\ words[i] = "merge"
  <2>1. CASE Subcommand(words) = 0
    <3>1. ~ i =< n
      BY <1>1, <2>1
    <3> QED BY <2>1, <3>1 DEF IsMerge
  <2>2. CASE Subcommand(words) # 0
    <3>1. i = Subcommand(words)
      BY <2>2
    <3> HIDE DEF i
    <3>2. i =< n
      BY <1>1, <2>2, <3>1
    <3> QED BY <2>2, <3>1, <3>2 DEF IsMerge
  <2> QED BY <2>1, <2>2
<1> HIDE DEF i
<1>3. CASE ~ IsMerge(words)
  <2>1. pass = words
    BY <1>3 DEF PassArgs
  <2> QED BY <1>1, <1>2, <1>3, <2>1 DEF Driven, DrivenAt
<1>4. CASE IsMerge(words)
  <2> DEFINE S == Range(words) \cup {"-s", "sqlitevfs"}
  <2>1. words \in Seq(Range(words)) /\ i \in 1 .. n /\ i = Subcommand(words) /\ words[i] = "merge"
    BY <1>1, <1>2, <1>4 DEF IsSequence
  <2>2. words \in Seq(S) /\ "-s" \in S /\ "sqlitevfs" \in S
    BY <2>1, SeqMonotonic
  <2> HIDE DEF S
  <2>3. pass = SubSeq(words, 1, i) \o <<"-s", "sqlitevfs">> \o SubSeq(words, i + 1, n)
    BY <1>4, <2>1 DEF PassArgs
  <2>4. Widens(words, i, "-s", "sqlitevfs", pass)
    <3>1. Widens(words, i, "-s", "sqlitevfs",
                 SubSeq(words, 1, i) \o <<"-s", "sqlitevfs">> \o SubSeq(words, i + 1, n))
      BY <2>1, <2>2, OrdersInserted
    <3> QED BY <2>3, <3>1
  <2> HIDE DEF pass
  <2>5. /\ SubSeq(pass, i, i + 2) = <<words[i], "-s", "sqlitevfs">>
        /\ SubSeq(pass, 1, i) \o SubSeq(pass, i + 3, Len(pass)) = words
        /\ \A j \in i + 3 .. Len(pass) : j - 2 \in i + 1 .. n /\ pass[j] = words[j - 2]
    BY <2>4 DEF Widens
  <2>6. \A j \in i + 1 .. n : words[j] \notin StrategyFlags
    BY <1>4, <2>1 DEF OverridesStrategy
  <2>7. \A j \in i + 3 .. Len(pass) : pass[j] \notin StrategyFlags
    BY <2>5, <2>6
  <2>8. SubSeq(pass, i, i + 2) = <<"merge", "-s", "sqlitevfs">>
    BY <2>1, <2>5
  <2>9. DrivenAt(words, pass, i)
    <3>1. i =< n /\ OptionsEnd(words, i) /\ words[i] \notin Flags /\ words[i] = "merge"
      BY <1>1, <2>1
    <3>2. SubSeq(pass, 1, i) \o SubSeq(pass, i + 3, Len(pass)) = words
      BY <2>5
    <3> QED BY <2>7, <2>8, <3>1, <3>2, Zenon DEF DrivenAt
  <2>10. Driven(words, pass)
    BY <1>1, <2>9 DEF Driven
  <2> QED BY <2>10 DEF pass
<1> QED BY <1>3, <1>4

(***************************************************************************)
(* The report.                                                             *)
(***************************************************************************)
\* What the report shows of the fields of a shape.
FieldsShown(fields) == {<<f.name, TypeShown(f.body), f.body.tags>> : f \in Range(fields)}

NoNameTwice(fields) ==
  \A i, j \in DOMAIN fields : fields[i].name = fields[j].name => i = j

\* Of fields with names of their own the map by name has them all.
LEMMA NamesLead ==
  ASSUME NEW fields, IsSequence(fields), NoNameTwice(fields)
  PROVE  /\ DOMAIN ByName(fields) = {f.name : f \in Range(fields)}
         /\ \A i \in DOMAIN fields : ByName(fields)[fields[i].name] = fields[i].body
<1> DEFINE LastOf(n) == CHOOSE i \in DOMAIN fields :
                        /\ fields[i].name = n
                        /\ \A j \in i + 1 .. Len(fields) : fields[j].name # n
           names == {f.name : f \in Range(fields)}
<1>1. ByName(fields) = [n \in names |-> fields[LastOf(n)].body]
  BY DEF ByName
<1>2. DOMAIN fields = 1 .. Len(fields) /\ Len(fields) \in Nat
  BY SequenceFacts
<1>3. ASSUME NEW i \in DOMAIN fields
      PROVE  fields[i].name \in names /\ LastOf(fields[i].name) = i
  <2> DEFINE n == fields[i].name
  <2>1. n \in names
    BY DEF Range
  <2>2. \A j \in i + 1 .. Len(fields) : fields[j].name # n
    <3> SUFFICES ASSUME NEW j \in i + 1 .. Len(fields), fields[j].name = n PROVE FALSE
      OBVIOUS
    <3>1. j \in DOMAIN fields /\ j # i
      BY <1>2
    <3> QED BY <3>1 DEF NoNameTwice
  <2>3. LastOf(n) \in DOMAIN fields /\ fields[LastOf(n)].name = n
    BY <2>2
  <2>4. LastOf(n) = i
    BY <2>3 DEF NoNameTwice
  <2> QED BY <2>1, <2>4
<1> HIDE DEF LastOf, names
<1>4. ASSUME NEW i \in DOMAIN fields
      PROVE  ByName(fields)[fields[i].name] = fields[i].body
  BY <1>1, <1>3
<1> QED BY <1>1, <1>4 DEF names

\* Without a change of fields, the two shapes show the same.
LEMMA SilentFields ==
  ASSUME NEW old, IsSequence(old), NoNameTwice(old), NEW new, FieldChanges(old, new) = {}
  PROVE  FieldsShown(old) = FieldsShown(new)
<1> DEFINE before == ByName(old)
           after == ByName(new)
           known == {f \in Range(new) : f.name \in DOMAIN before}
<1>1. /\ Range(new) \ known = {} /\ DOMAIN before \ DOMAIN after = {}
      /\ {f \in known : TypeShown(f.body) # TypeShown(before[f.name])} = {}
      /\ {f \in known : AttributesShown(f.body) # AttributesShown(before[f.name])} = {}
  <2> DEFINE A == {<<"added field", f.name>> : f \in Range(new) \ known}
             B == {<<"dropped field", n>> : n \in DOMAIN before \ DOMAIN after}
             C == {<<"changed type", f.name>> :
                     f \in {k \in known : TypeShown(k.body) # TypeShown(before[k.name])}}
             D == {<<"changed attributes", f.name>> :
                     f \in {k \in known : AttributesShown(k.body) # AttributesShown(before[k.name])}}
  <2>1. FieldChanges(old, new) = A \cup B \cup C \cup D
    BY DEF FieldChanges
  <2>2. A = {} /\ B = {} /\ C = {} /\ D = {}
    <3> HIDE DEF A, B, C, D
    <3> QED BY <2>1
  <2> HIDE DEF before, after, known
  <2> QED BY <2>2
<1>2. /\ DOMAIN before = {f.name : f \in Range(old)} /\ DOMAIN after = {f.name : f \in Range(new)}
      /\ \A i \in DOMAIN old : before[old[i].name] = old[i].body
  <2>1. DOMAIN after = {f.name : f \in Range(new)}
    BY DEF ByName
  <2> QED BY <2>1, NamesLead
<1> HIDE DEF before, after
<1>3. ASSUME NEW f \in Range(new)
      PROVE  /\ f.name \in DOMAIN before /\ TypeShown(f.body) = TypeShown(before[f.name])
             /\ f.body.tags = before[f.name].tags
  <2>1. f \in known
    BY <1>1
  <2>2. AttributesShown(f.body) = AttributesShown(before[f.name])
    BY <1>1, <2>1
  <2>3. f.body.tags = before[f.name].tags
    BY <2>2 DEF AttributesShown
  <2>4. TypeShown(f.body) = TypeShown(before[f.name])
    BY <1>1, <2>1
  <2> QED BY <2>1, <2>3, <2>4
<1> DEFINE Shown(f) == <<f.name, TypeShown(f.body), f.body.tags>>
<1>4. ASSUME NEW f \in Range(new) PROVE \E g \in Range(old) : Shown(g) = Shown(f)
  <2>1. PICK g \in Range(old) : g.name = f.name
    BY <1>2, <1>3
  <2>2. PICK i \in DOMAIN old : g = old[i]
    BY <2>1 DEF Range
  <2>3. before[f.name] = g.body
    BY <1>2, <2>1, <2>2
  <2> QED BY <1>3, <2>1, <2>3
<1>5. ASSUME NEW g \in Range(old) PROVE \E f \in Range(new) : Shown(f) = Shown(g)
  <2>1. PICK i \in DOMAIN old : g = old[i]
    BY DEF Range
  <2>2. g.name \in DOMAIN after
    BY <1>1, <1>2
  <2>3. PICK f \in Range(new) : f.name = g.name
    BY <1>2, <2>2
  <2>4. before[f.name] = g.body
    BY <1>2, <2>1, <2>3
  <2> QED BY <1>3, <2>3, <2>4
<1> HIDE DEF Shown
<1>6. {Shown(f) : f \in Range(old)} = {Shown(f) : f \in Range(new)}
  BY <1>4, <1>5
<1> QED BY <1>6 DEF FieldsShown, Shown

\* A section without changes has the same items on both sides.
LEMMA SilentSection ==
  ASSUME NEW form, NEW old, NEW new,
         \A name \in DOMAIN Section(form, old, new) : Section(form, old, new)[name] = {}
  PROVE  /\ DOMAIN old = DOMAIN new
         /\ \A name \in DOMAIN new : ItemChanges(form, old[name], new[name]) = {}
<1>1. ASSUME NEW name \in DOMAIN old \cup DOMAIN new
      PROVE  /\ name \in DOMAIN old /\ name \in DOMAIN new
             /\ ItemChanges(form, old[name], new[name]) = {}
  <2>1. Section(form, old, new)[name] = {} /\
        Section(form, old, new)[name] =
          IF name \notin DOMAIN old THEN {<<"added">>}
          ELSE IF name \notin DOMAIN new THEN {<<"dropped">>}
          ELSE ItemChanges(form, old[name], new[name])
    BY DEF Section
  <2> QED BY <2>1
<1> QED BY <1>1

\* Two schemas whose bases extend each other the same way have the same lineages.
LEMMA LineagesShared ==
  ASSUME NEW a, NEW b, IsFiniteSet(DOMAIN a.bases), DOMAIN a.bases = DOMAIN b.bases,
         \A n \in DOMAIN b.bases : a.bases[n].extends = b.bases[n].extends, NEW parents
  PROVE  Lineage(a, parents) = Lineage(b, parents)
<1>1. \A n \in DOMAIN b.bases : Parents(a, n) = Parents(b, n)
  BY DEF Parents
<1>2. ASSUME NEW T, T \subseteq DOMAIN b.bases PROVE Closed(a, T) <=> Closed(b, T)
  BY <1>1, <1>2 DEF Closed
<1>3. /\ Lineage(a, parents) \subseteq DOMAIN b.bases /\ Closed(a, Lineage(a, parents))
      /\ Range(parents) \cap DOMAIN b.bases \subseteq Lineage(a, parents)
      /\ \A T : Range(parents) \cap DOMAIN b.bases \subseteq T /\ Closed(a, T)
                  => Lineage(a, parents) \subseteq T
  BY LineageIsLeast
<1>4. /\ Lineage(b, parents) \subseteq DOMAIN b.bases /\ Closed(b, Lineage(b, parents))
      /\ Range(parents) \cap DOMAIN b.bases \subseteq Lineage(b, parents)
      /\ \A T : Range(parents) \cap DOMAIN b.bases \subseteq T /\ Closed(b, T)
                  => Lineage(b, parents) \subseteq T
  BY LineageIsLeast
<1>5. Closed(b, Lineage(a, parents)) /\ Closed(a, Lineage(b, parents))
  BY <1>2, <1>3, <1>4
<1> QED BY <1>3, <1>4, <1>5

\* A part of the report is empty only if there is nothing to list.
LEMMA LimitedToNone ==
  ASSUME NEW S, IsFiniteSet(S), {} \in Limited(S)
  PROVE  S = {}
<1>1. Cardinality({}) = 0 /\ Cardinality(S) \in Nat
  BY FS_EmptySet, FS_CardinalityType
<1>2. Cardinality({}) = IF Cardinality(S) < RowLimit THEN Cardinality(S) ELSE RowLimit
  BY DEF Limited
<1>3. Cardinality(S) = 0
  BY <1>1, <1>2, LimitAssumption
<1> QED BY <1>3, FS_EmptySet

\* The rows a table has, where the report on it lists none.
LEMMA SilentRows ==
  ASSUME NEW m, NEW oldAst, m \in DOMAIN oldAst.models, NEW oldDb, NEW newDb,
         m \in DOMAIN oldDb, m \in DOMAIN newDb,
         IsFiniteSet(DOMAIN oldDb[m].rows), IsFiniteSet(DOMAIN newDb[m].rows),
         NoRows \in RowReport(m, oldAst, oldDb, newDb)
  PROVE  /\ DOMAIN oldDb[m].rows = DOMAIN newDb[m].rows
         /\ \A r \in DOMAIN newDb[m].rows :
              \A c \in {k \in oldDb[m].columns \cap newDb[m].columns : k[1] # "__"} :
                oldDb[m].rows[r][c] = newDb[m].rows[r][c]
<1> DEFINE before == DOMAIN oldDb[m].rows
           after == DOMAIN newDb[m].rows
           A == AddedRows(m, oldDb, newDb)
           D == DeletedRows(m, oldDb, newDb)
           C == ModifiedRows(m, oldDb, newDb, oldAst)
<1>1. RowsIn(oldDb, m) = before /\ RowsIn(newDb, m) = after
  BY DEF RowsIn
<1>2. /\ A = after \ before /\ D = before \ after
      /\ C = {r \in before \cap after : \E c \in Compared(m, oldDb, newDb) :
                oldDb[m].rows[r][c] # newDb[m].rows[r][c]}
  BY <1>1 DEF AddedRows, DeletedRows, ModifiedRows
<1>3. {} \in Limited(A) /\ {} \in Limited(D) /\ {} \in Limited(C)
  <2>1. NoRows = [added |-> {}, deleted |-> {}, modified |-> {}]
    BY DEF NoRows
  <2>2. NoRows.added \in Limited(A) /\ NoRows.deleted \in Limited(D)
        /\ NoRows.modified \in Limited(C)
    BY DEF RowReport
  <2> QED BY <2>1, <2>2
<1>4. IsFiniteSet(A) /\ IsFiniteSet(D) /\ IsFiniteSet(C)
  <2>1. A \subseteq after /\ D \subseteq before /\ C \subseteq after
    BY <1>2
  <2>2. IsFiniteSet(before) /\ IsFiniteSet(after)
    OBVIOUS
  <2> HIDE DEF A, D, C, before, after
  <2> QED BY <2>1, <2>2, FS_Subset
<1> HIDE DEF A, D, C
<1>5. A = {} /\ D = {} /\ C = {}
  BY <1>3, <1>4, LimitedToNone
<1>6. before = after
  BY <1>2, <1>5
<1>7. ASSUME NEW r \in after, NEW c \in Compared(m, oldDb, newDb)
      PROVE  oldDb[m].rows[r][c] = newDb[m].rows[r][c]
  BY <1>2, <1>5, <1>6
<1> QED BY <1>6, <1>7 DEF Compared

\* A model's columns come from what is written in it and in its lineage.
LEMMA ShapeOf ==
  ASSUME NEW a, NEW m
  PROVE  Shape(a, m) = FieldsShown(a.models[m].fields)
           \cup UNION {FieldsShown(a.bases[b].fields) : b \in Lineage(a, a.models[m].extends)}
BY DEF Shape, WrittenIn, FieldsShown

\* Two schemas between which the report finds nothing shape every model alike.
LEMMA SilentSchemas ==
  ASSUME NEW a, IsAst(a), WrittenOnce(a), NEW b, SameLineages(a, b),
         \A form \in {"models", "bases"} :
           \A name \in DOMAIN Section(form, a[form], b[form]) :
             Section(form, a[form], b[form])[name] = {}
  PROVE  /\ DOMAIN a.models = DOMAIN b.models
         /\ \A m \in DOMAIN b.models : Shape(a, m) = Shape(b, m)
<1>1. /\ DOMAIN a.models = DOMAIN b.models
      /\ \A m \in DOMAIN b.models : ItemChanges("models", a.models[m], b.models[m]) = {}
  BY SilentSection
<1>2. /\ DOMAIN a.bases = DOMAIN b.bases
      /\ \A n \in DOMAIN b.bases : ItemChanges("bases", a.bases[n], b.bases[n]) = {}
  BY SilentSection
<1>3. ASSUME NEW m \in DOMAIN b.models
      PROVE  FieldsShown(a.models[m].fields) = FieldsShown(b.models[m].fields)
  <2>1. FieldChanges(a.models[m].fields, b.models[m].fields) = {}
    BY <1>1 DEF ItemChanges, ModelChanges
  <2>2. IsSequence(a.models[m].fields) /\ NoNameTwice(a.models[m].fields)
    BY <1>1 DEF IsAst, IsNode, WrittenOnce, NoNameTwice
  <2> QED BY <2>1, <2>2, SilentFields
<1>4. ASSUME NEW n \in DOMAIN b.bases
      PROVE  FieldsShown(a.bases[n].fields) = FieldsShown(b.bases[n].fields)
  <2>1. FieldChanges(a.bases[n].fields, b.bases[n].fields) = {}
    BY <1>2 DEF ItemChanges
  <2>2. IsSequence(a.bases[n].fields) /\ NoNameTwice(a.bases[n].fields)
    BY <1>2 DEF IsAst, IsNode, WrittenOnce, NoNameTwice
  <2> QED BY <2>1, <2>2, SilentFields
<1>5. ASSUME NEW m \in DOMAIN b.models PROVE Shape(a, m) = Shape(b, m)
  <2> DEFINE L == Lineage(b, b.models[m].extends)
  <2>1. a.models[m].extends = b.models[m].extends
    BY <1>1 DEF SameLineages
  <2>2. IsFiniteSet(DOMAIN a.bases)
    BY DEF IsAst
  <2>3. \A n \in DOMAIN b.bases : a.bases[n].extends = b.bases[n].extends
    BY <1>2 DEF SameLineages
  <2>4. Lineage(a, a.models[m].extends) = L
    BY <1>2, <2>1, <2>2, <2>3, LineagesShared
  <2>5. L \subseteq DOMAIN b.bases
    BY <1>2, <2>2, LineageIsLeast
  <2> HIDE DEF L
  <2>6. {FieldsShown(a.bases[n].fields) : n \in L} = {FieldsShown(b.bases[n].fields) : n \in L}
    BY <1>4, <2>5
  <2>7. Shape(a, m) = FieldsShown(b.models[m].fields)
                        \cup UNION {FieldsShown(b.bases[n].fields) : n \in L}
    BY <1>3, <2>4, <2>6, ShapeOf
  <2> QED BY <2>7, ShapeOf DEF L
<1> QED BY <1>1, <1>5

\* Whatever is asked for, what a revision holds is parsed into an AST.
LEMMA RevisionsParse ==
  ASSUME NEW ref
  PROVE  IsAst(OldAst(ref))
<1> DEFINE t == Extracted(ref).text
<1>1. IsSequence(t) /\ \A i \in DOMAIN t : WellFormed(t[i])
  <2>1. CASE ref \in DOMAIN History
    BY <2>1, ProxyAssumption DEF Extracted
  <2>2. CASE ref \notin DOMAIN History
    <3>1. t = <<>> /\ DOMAIN <<>> = {}
      BY <2>2 DEF Extracted
    <3>2. IsSequence(<<>>)
      BY DEF IsSequence
    <3> QED BY <3>1, <3>2
  <2> QED BY <2>1, <2>2
<1>2. CASE Malformed(t)
  BY <1>2, EmptyAst DEF OldAst
<1>3. CASE ~ Malformed(t)
  BY <1>1, <1>3, Parsed DEF OldAst
<1> QED BY <1>2, <1>3

(***************************************************************************)
(* The proxy.                                                              *)
(***************************************************************************)
\* The rows a report may give.
ReportedRows(new, ref, attached) ==
  IF attached THEN RowReports(OldAst(ref), new, Extracted(ref).db, WorkTree)
  ELSE {[m \in DOMAIN new.models |-> NoRows]}

\* What the outcome owes to the command line and to the schema, which no
\* longer changes when there is one.
ProxyInv ==
  /\ outcome # Nothing => stage = "accepted"
  /\ outcome.kind = "git" =>
       args \in ArgLists /\ ~ OverridesStrategy(args) /\ outcome.words = PassArgs(args)
  /\ outcome.kind = "report" =>
       /\ outcome.schema = SchemaDiff(OldAst(outcome.ref), ast)
       /\ outcome.rows \in ReportedRows(ast, outcome.ref, outcome.attached)

GitInv == LoadInv /\ ProxyInv

\* Before the first step there is no outcome.
LEMMA ProxyStarts == ProxyInit => GitInv
<1> SUFFICES ASSUME ProxyInit PROVE GitInv
  OBVIOUS
<1>1. LoadInv
  BY LoadingStarts DEF ProxyInit
<1>2. outcome = Nothing /\ outcome.kind = "nothing"
  BY DEF ProxyInit, Nothing
<1> QED BY <1>1, <1>2 DEF GitInv, ProxyInv

\* Every step of the load and every command keeps the invariant.
LEMMA ProxyKeeps == GitInv /\ [GitNext]_<<loading, proxy>> => GitInv'
<1> SUFFICES ASSUME GitInv, [GitNext]_<<loading, proxy>> PROVE GitInv'
  OBVIOUS
<1>1. LoadInv'
  <2>1. [Load]_loading
    BY DEF GitNext, GitCommand, RefuseMerge, InterceptDiff, SpawnGit
  <2> QED BY <2>1, LoadingKeeps DEF GitInv
<1>2. CASE UNCHANGED <<loading, proxy>>
  <2>1. UNCHANGED <<ast, stage, args, outcome>>
    BY <1>2 DEF loading, proxy
  <2>2. ProxyInv'
    BY <2>1 DEF GitInv, ProxyInv, ReportedRows, Models
  <2> QED BY <1>1, <2>2 DEF GitInv
<1>3. CASE Load /\ UNCHANGED proxy
  <2>1. outcome = Nothing
    BY <1>3, AcceptedIsFinal DEF GitInv, ProxyInv
  <2>2. outcome' = Nothing /\ Nothing.kind = "nothing"
    BY <1>3, <2>1 DEF proxy, Nothing
  <2>3. ProxyInv'
    BY <2>2 DEF ProxyInv
  <2> QED BY <1>1, <2>3 DEF GitInv
<1>4. CASE RefuseMerge
  <2>1. stage' = "accepted" /\ outcome'.kind = "refused"
    BY <1>4 DEF RefuseMerge, loading
  <2>2. ProxyInv'
    BY <2>1 DEF ProxyInv
  <2> QED BY <1>1, <2>2 DEF GitInv
<1>5. CASE InterceptDiff
  <2>1. PICK words \in ArgLists, attached \in BOOLEAN :
          LET ref == OldRef(PassArgs(words))
              old == OldAst(ref)
          IN \E rows \in ReportedRows(ast, ref, attached) :
               outcome' = [kind |-> "report", ref |-> ref, attached |-> attached,
                           schema |-> SchemaDiff(old, ast), rows |-> rows]
    BY <1>5 DEF InterceptDiff, ReportedRows, Models
  <2> DEFINE ref == OldRef(PassArgs(words))
  <2>2. PICK rows \in ReportedRows(ast, ref, attached) :
          outcome' = [kind |-> "report", ref |-> ref, attached |-> attached,
                      schema |-> SchemaDiff(OldAst(ref), ast), rows |-> rows]
    BY <2>1
  <2>3. stage' = "accepted" /\ ast' = ast
    BY <1>5 DEF InterceptDiff, loading
  <2> HIDE DEF ref
  <2>4. /\ outcome'.kind = "report" /\ outcome'.ref = ref /\ outcome'.attached = attached
        /\ outcome'.schema = SchemaDiff(OldAst(ref), ast) /\ outcome'.rows = rows
    BY <2>2
  <2>5. outcome'.schema = SchemaDiff(OldAst(outcome'.ref), ast')
    BY <2>3, <2>4
  <2>6. outcome'.rows \in ReportedRows(ast', outcome'.ref, outcome'.attached)
    BY <2>2, <2>3, <2>4
  <2>7. ProxyInv'
    BY <2>3, <2>4, <2>5, <2>6 DEF ProxyInv
  <2> QED BY <1>1, <2>7 DEF GitInv
<1>6. CASE SpawnGit
  <2>1. PICK words \in ArgLists :
          /\ ~ OverridesStrategy(words) /\ args' = words
          /\ outcome' = [kind |-> "git", words |-> PassArgs(words)]
    BY <1>6 DEF SpawnGit
  <2>2. stage' = "accepted" /\ outcome'.kind = "git" /\ outcome'.words = PassArgs(words)
    BY <1>6, <2>1 DEF SpawnGit, loading
  <2>3. ProxyInv'
    BY <2>1, <2>2 DEF ProxyInv
  <2> QED BY <1>1, <2>3 DEF GitInv
<1> QED BY <1>2, <1>3, <1>4, <1>5, <1>6 DEF GitNext, GitCommand

\* The invariant of a `caqui git` command: the schema is loaded first, and the
\* outcome is what the command line and the loaded schema ask for.
THEOREM ProxyIsInvariant == GitSpec => []GitInv
<1> QED BY ProxyStarts, ProxyKeeps, PTL DEF GitSpec

\* Whatever the command lines are, a merge reaches git with the driver's strategy
\* as its first option and no other, and any other command as it was typed.
THEOREM MergesReachTheDriver == GitSpec => []MergesAreDriven
<1>1. GitInv => MergesAreDriven
  <2> SUFFICES ASSUME GitInv, outcome.kind = "git" PROVE MergesAreDriven
    BY DEF MergesAreDriven
  <2>1. args \in ArgLists /\ ~ OverridesStrategy(args) /\ outcome.words = PassArgs(args)
    BY DEF GitInv, ProxyInv
  <2>2. Driven(args, outcome.words)
    BY <2>1, ProxyAssumption, PassedOn
  <2> QED BY <2>2 DEF Driven, DrivenAt, MergesAreDriven
<1> QED BY <1>1, ProxyIsInvariant, PTL

\* Whatever the schemas and the databases are, a report without differences
\* means that every model has the fields and its table the rows it had, if the
\* extends clauses are as they were and no field was written twice.
THEOREM SilenceIsSameness == GitSpec => []SilentMeansSame
<1>1. GitInv => SilentMeansSame
  <2> SUFFICES ASSUME GitInv, outcome.kind = "report", Silent(outcome),
                      SameLineages(OldAst(outcome.ref), ast), WrittenOnce(OldAst(outcome.ref))
               PROVE  SilentMeansSame
    BY DEF SilentMeansSame
  <2> DEFINE ref == outcome.ref
             old == OldAst(ref)
             oldDb == Extracted(ref).db
  <2>1. /\ outcome.schema = SchemaDiff(old, ast)
        /\ outcome.rows \in ReportedRows(ast, ref, outcome.attached)
    BY DEF GitInv, ProxyInv
  <2>2. IsAst(old)
    BY RevisionsParse
  <2> HIDE DEF old
  <2>3. ASSUME NEW form \in {"models", "bases"},
               NEW name \in DOMAIN Section(form, old[form], ast[form])
        PROVE  Section(form, old[form], ast[form])[name] = {}
    <3>1. /\ form \in DOMAIN outcome.schema
          /\ outcome.schema[form] = Section(form, old[form], ast[form])
      BY <2>1 DEF SchemaDiff
    <3> QED BY <3>1 DEF Silent
  <2>4. SameLineages(old, ast) /\ WrittenOnce(old)
    BY DEF old
  <2>5. Models = DOMAIN old.models /\ \A m \in Models : Shape(old, m) = Shape(ast, m)
    BY <2>2, <2>3, <2>4, SilentSchemas DEF Models
  <2>6. ASSUME outcome.attached, NEW m \in Models \cap DOMAIN WorkTree \cap DOMAIN oldDb
        PROVE  /\ DOMAIN oldDb[m].rows = DOMAIN WorkTree[m].rows
               /\ \A r \in DOMAIN WorkTree[m].rows :
                    \A c \in {k \in oldDb[m].columns \cap WorkTree[m].columns : k[1] # "__"} :
                      oldDb[m].rows[r][c] = WorkTree[m].rows[r][c]
    <3>1. outcome.rows \in RowReports(old, ast, oldDb, WorkTree)
      BY <2>1, <2>6 DEF ReportedRows, old
    <3>2. m \in DOMAIN outcome.rows /\ outcome.rows[m] \in RowReport(m, old, oldDb, WorkTree)
      BY <2>6, <3>1 DEF RowReports, Models
    <3>3. NoRows \in RowReport(m, old, oldDb, WorkTree)
      BY <3>2 DEF Silent
    <3>4. IsFiniteSet(DOMAIN oldDb[m].rows) /\ IsFiniteSet(DOMAIN WorkTree[m].rows)
      <4>1. ref \in DOMAIN History /\ oldDb = History[ref].db
        <5>1. \A x : x \notin DOMAIN <<>>
          OBVIOUS
        <5>2. CASE ref \notin DOMAIN History
          <6>1. oldDb = <<>>
            BY <5>2 DEF Extracted
          <6> QED BY <2>6, <5>1, <6>1
        <5> QED BY <5>2 DEF Extracted
      <4> HIDE DEF oldDb
      <4> QED BY <2>6, <4>1, ProxyAssumption
    <3> HIDE DEF oldDb
    <3> QED BY <2>5, <2>6, <3>3, <3>4, SilentRows
  <2> QED BY <2>5, <2>6 DEF SilentMeansSame, old
<1> QED BY <1>1, ProxyIsInvariant, PTL

(***************************************************************************)
(* The databases that mutations work on.                                   *)
(***************************************************************************)
\* A stored record of a model: its plain column and a pair for each of its links.
IsRow(row, m) ==
  row = [plain |-> row.plain, link |-> [n \in LinkFields(m) |-> row.link[n]]]

\* A database of the models' records.
Shaped(d) ==
  DOMAIN d = Models /\ \A m \in Models : \A r \in DOMAIN d[m] : IsRow(d[m][r], m)

\* The pair of m.n is empty or of a stored record that the field may lead to.
Target(m, n, link) ==
  \/ link = NoLink
  \/ link \in Models \X Records /\ link[1] \in TargetsOf(resolved[m].fields[n].of)

\* The database a mutation finds.
Fits(d) ==
  /\ Shaped(d)
  /\ \A m \in Models :
       /\ DOMAIN d[m] = Records
       /\ \A r \in Records : \A n \in LinkFields(m) : Target(m, n, d[m][r].link[n])

\* What is left of d: some of its records, unchanged.
Thins(e, d) ==
  /\ Shaped(e)
  /\ \A m \in Models : \A r \in DOMAIN e[m] : r \in DOMAIN d[m] /\ e[m][r] = d[m][r]

\* The rows of d and those of e have the same links, and differ in the plain
\* column of these records at most.
Replaned(e, d, m, chosen) ==
  /\ Shaped(e)
  /\ \A t \in Models :
       /\ DOMAIN e[t] = DOMAIN d[t]
       /\ \A x \in DOMAIN d[t] :
            /\ e[t][x].link = d[t][x].link
            /\ t # m \/ x \notin chosen => e[t][x] = d[t][x]

\* The pairs m.n of these records, and nothing else, have become this link.
Pointed(e, d, m, parents, n, link) ==
  /\ Shaped(e)
  /\ \A t \in Models :
       /\ DOMAIN e[t] = DOMAIN d[t]
       /\ \A x \in DOMAIN d[t] :
            /\ e[t][x].plain = d[t][x].plain
            /\ t = m /\ x \in parents => e[t][x].link[n] = link
            /\ t # m \/ x \notin parents => e[t][x] = d[t][x]

\* One record has come to m, its links empty.
Joined(e, d, m, new) ==
  /\ Shaped(e) /\ new \in Spare /\ new \notin DOMAIN d[m]
  /\ \A t \in Models :
       /\ DOMAIN e[t] = DOMAIN d[t] \cup (IF t = m THEN {new} ELSE {})
       /\ \A x \in DOMAIN d[t] : e[t][x] = d[t][x]
  /\ \A n \in LinkFields(m) : e[m][new].link[n] = NoLink

\* A record of the two components.
LEMMA RowFacts ==
  ASSUME NEW m, NEW p, NEW l
  PROVE  LET row == [plain |-> p, link |-> [n \in LinkFields(m) |-> l[n]]]
         IN IsRow(row, m) /\ row.plain = p /\ \A n \in LinkFields(m) : row.link[n] = l[n]
<1> DEFINE k == [n \in LinkFields(m) |-> l[n]]
           row == [plain |-> p, link |-> k]
<1>1. row.plain = p /\ row.link = k
  OBVIOUS
<1>2. [n \in LinkFields(m) |-> row.link[n]] = k
  BY <1>1
<1>3. row = [plain |-> row.plain, link |-> [n \in LinkFields(m) |-> row.link[n]]]
  BY <1>1, <1>2
<1> QED BY <1>1, <1>3 DEF IsRow

\* A DELETE leaves the others as they were.
LEMMA WithoutFacts ==
  ASSUME NEW d, Shaped(d), NEW m \in Models, NEW gone
  PROVE  /\ Thins(Without(d, m, gone), d)
         /\ DOMAIN Without(d, m, gone)[m] = DOMAIN d[m] \ gone
         /\ \A t \in Models : t # m => Without(d, m, gone)[t] = d[t]
<1> DEFINE e == Without(d, m, gone)
<1>1. /\ DOMAIN e = Models /\ e[m] = [r \in DOMAIN d[m] \ gone |-> d[m][r]]
      /\ \A t \in Models : t # m => e[t] = d[t]
  BY DEF Without, Shaped
<1> HIDE DEF e
<1>2. Thins(e, d)
  BY <1>1 DEF Thins, Shaped
<1> QED BY <1>1, <1>2 DEF e

\* An UPDATE of a pair.
LEMMA PointFacts ==
  ASSUME NEW d, Shaped(d), NEW m \in Models, NEW parents, NEW n \in LinkFields(m), NEW link
  PROVE  Pointed(Point(d, m, parents, n, link), d, m, parents, n, link)
<1> DEFINE e == Point(d, m, parents, n, link)
           new(r) == [d[m][r] EXCEPT !.link[n] = link]
<1>1. /\ DOMAIN e = Models
      /\ e[m] = [r \in DOMAIN d[m] |-> IF r \in parents THEN new(r) ELSE d[m][r]]
      /\ \A t \in Models : t # m => e[t] = d[t]
  BY DEF Point, Shaped
<1>2. ASSUME NEW r \in DOMAIN d[m]
      PROVE  IsRow(new(r), m) /\ new(r).plain = d[m][r].plain /\ new(r).link[n] = link
  <2> DEFINE row == d[m][r]
             l == [k \in LinkFields(m) |-> IF k = n THEN link ELSE row.link[k]]
  <2>1. row = [plain |-> row.plain, link |-> [k \in LinkFields(m) |-> row.link[k]]]
    BY DEF Shaped, IsRow
  <2> HIDE DEF row
  <2>2. [row EXCEPT !.link[n] = link] = [plain |-> row.plain, link |-> l]
    BY <2>1
  <2>3. IsRow([row EXCEPT !.link[n] = link], m)
    BY <2>2, RowFacts
  <2>4. [row EXCEPT !.link[n] = link].plain = row.plain /\ [row EXCEPT !.link[n] = link].link[n] = link
    BY <2>2
  <2> QED BY <2>3, <2>4 DEF row
<1> HIDE DEF e, new
<1>3. Shaped(e)
  BY <1>1, <1>2 DEF Shaped
<1>4. Pointed(e, d, m, parents, n, link)
  BY <1>1, <1>2, <1>3 DEF Pointed
<1> QED BY <1>4 DEF e

\* An UPDATE of the plain column.
LEMMA AssignFacts ==
  ASSUME NEW d, Shaped(d), NEW m \in Models, NEW chosen, NEW data, NEW n, NEW op,
         op.do \notin {"set", "unset"}
  PROVE  Replaned(Assign(d, m, chosen, data, n, op), d, m, chosen)
<1> DEFINE e == [d EXCEPT ![m] = [r \in DOMAIN @ |->
                   IF r \in chosen THEN [@[r] EXCEPT !.plain = data] ELSE @[r]]]
<1>1. Assign(d, m, chosen, data, n, op) = IF data = Absent THEN d ELSE e
  BY DEF Assign
<1>2. Replaned(d, d, m, chosen)
  BY DEF Replaned
<1>3. Replaned(e, d, m, chosen)
  <2> DEFINE new(r) == [d[m][r] EXCEPT !.plain = data]
  <2>1. /\ DOMAIN e = Models
        /\ e[m] = [r \in DOMAIN d[m] |-> IF r \in chosen THEN new(r) ELSE d[m][r]]
        /\ \A t \in Models : t # m => e[t] = d[t]
    BY DEF Shaped
  <2>2. ASSUME NEW r \in DOMAIN d[m] PROVE IsRow(new(r), m) /\ new(r).link = d[m][r].link
    <3> DEFINE row == d[m][r]
               l == [k \in LinkFields(m) |-> row.link[k]]
    <3>1. row = [plain |-> row.plain, link |-> l]
      BY DEF Shaped, IsRow
    <3> HIDE DEF row
    <3>2. [row EXCEPT !.plain = data] = [plain |-> data, link |-> l]
      BY <3>1
    <3>3. IsRow([row EXCEPT !.plain = data], m)
      BY <3>2, RowFacts
    <3>4. [row EXCEPT !.plain = data].link = row.link
      BY <3>1, <3>2
    <3> QED BY <3>3, <3>4 DEF row
  <2> HIDE DEF e, new
  <2>3. Shaped(e)
    BY <2>1, <2>2 DEF Shaped
  <2> QED BY <2>1, <2>2, <2>3 DEF Replaned
<1> HIDE DEF e
<1> QED BY <1>1, <1>2, <1>3

\* An INSERT: the id it finds is nobody's if one is left.
LEMMA InsertFacts ==
  ASSUME NEW d, Shaped(d), NEW m \in Models, NEW data, \E x \in Spare : x \notin DOMAIN d[m]
  PROVE  Joined(Inserted(d, m, data).db, d, m, Inserted(d, m, data).id)
<1> DEFINE new == CHOOSE x \in Spare : x \notin DOMAIN d[m]
           row == [plain |-> IF data = Absent THEN Null ELSE data,
                   link |-> [n \in LinkFields(m) |-> NoLink]]
           e == [d EXCEPT ![m] = Over(Only(new, row), @)]
<1>1. new \in Spare /\ new \notin DOMAIN d[m]
  OBVIOUS
<1>2. Inserted(d, m, data) = [id |-> new, db |-> e]
  BY DEF Inserted
<1>3. Inserted(d, m, data).id = new /\ Inserted(d, m, data).db = e
  BY <1>2
<1>4. IsRow(row, m) /\ \A n \in LinkFields(m) : row.link[n] = NoLink
  <2> DEFINE none == [n \in LinkFields(m) |-> NoLink]
  <2>1. row = [plain |-> row.plain, link |-> [n \in LinkFields(m) |-> none[n]]]
    OBVIOUS
  <2> QED BY <2>1, RowFacts DEF IsRow
<1> HIDE DEF new, row
<1>5. /\ DOMAIN e = Models /\ e[m] = Over(Only(new, row), d[m])
      /\ \A t \in Models : t # m => e[t] = d[t]
  BY DEF Shaped
<1>6. /\ DOMAIN e[m] = DOMAIN d[m] \cup {new} /\ e[m][new] = row
      /\ \A x \in DOMAIN d[m] : e[m][x] = d[m][x]
  BY <1>1, <1>5 DEF Over, Only
<1> HIDE DEF e
<1>7. Shaped(e)
  BY <1>4, <1>5, <1>6 DEF Shaped
<1>8. Joined(e, d, m, new)
  BY <1>1, <1>4, <1>5, <1>6, <1>7 DEF Joined
<1> QED BY <1>3, <1>8

(***************************************************************************)
(* The invariant: the database is one of an accepted schema, and fits it   *)
(* until a mutation has come.                                              *)
(***************************************************************************)
LinkInv ==
  /\ LoadInv /\ GraphInv
  /\ tables # <<>> \/ verdict # "none" => stage = "accepted"
  /\ verdict = "none" /\ tables # <<>> => Fits(tables)

\* What fits the schema does as long as the schema stays.
LEMMA FitsStays == UNCHANGED loading => (Fits(tables)' <=> Fits(tables'))
<1> SUFFICES ASSUME UNCHANGED loading PROVE Fits(tables)' <=> Fits(tables')
  OBVIOUS
<1>1. ast' = ast /\ resolved' = resolved
  BY DEF loading
<1> QED BY <1>1 DEF Fits, Shaped, IsRow, Target, LinkFields, TargetsOf, Implementors, Models

\* The databases a server is started with fit the schema.
LEMMA ServedFits == ServeMutations => Fits(tables')
<1> SUFFICES ASSUME ServeMutations PROVE Fits(tables')
  OBVIOUS
<1>1. PICK links \in [UNION {{m} \X LinkFields(m) : m \in Models} ->
                        [Records -> {NoLink} \cup (Models \X Records)]] :
        /\ \A f \in DOMAIN links : \A r \in Records :
             links[f][r] # NoLink => links[f][r][1] \in TargetsOf(resolved[f[1]].fields[f[2]].of)
        /\ tables' = [m \in Models |-> [r \in Records |->
                        [plain |-> Plain[r],
                         link |-> [n \in LinkFields(m) |-> links[<<m, n>>][r]]]]]
  BY DEF ServeMutations
<1>2. ASSUME NEW m \in Models, NEW n \in LinkFields(m), NEW r \in Records
      PROVE  Target(m, n, links[<<m, n>>][r])
  <2>1. <<m, n>> \in DOMAIN links
    OBVIOUS
  <2>2. links[<<m, n>>][r] \in {NoLink} \cup (Models \X Records)
    BY <2>1
  <2>3. links[<<m, n>>][r] # NoLink =>
          links[<<m, n>>][r][1] \in TargetsOf(resolved[m].fields[n].of)
    BY <1>1, <2>1
  <2> QED BY <2>2, <2>3 DEF Target
<1>3. ASSUME NEW m \in Models, NEW r \in Records
      PROVE  /\ IsRow(tables'[m][r], m)
             /\ \A n \in LinkFields(m) : tables'[m][r].link[n] = links[<<m, n>>][r]
  <2> DEFINE l == [n \in LinkFields(m) |-> links[<<m, n>>][r]]
  <2>1. tables'[m][r] = [plain |-> Plain[r], link |-> [n \in LinkFields(m) |-> l[n]]]
    BY <1>1
  <2>2. \A n \in LinkFields(m) : l[n] = links[<<m, n>>][r]
    OBVIOUS
  <2> HIDE DEF l
  <2> QED BY <2>1, <2>2, RowFacts
<1>4. DOMAIN tables' = Models /\ \A m \in Models : DOMAIN tables'[m] = Records
  BY <1>1
<1> QED BY <1>2, <1>3, <1>4 DEF Fits, Shaped

\* A mutation leaves the schema, keeps the database it found, and has an answer.
LEMMA ChangeFacts ==
  ASSUME NEW c, Change(c)
  PROVE  /\ UNCHANGED loading /\ tables # <<>> /\ verdict = "none"
         /\ verdict' \in {"ok", "notFound", "refused"} /\ change' = c /\ prior' = tables
BY DEF Change, Request, RefuseChange, Create, Update, UpdateMany, Delete, DeleteMany, Ends

\* The invariant holds at first.
LEMMA LinksStart == Init /\ LinkInit => LinkInv
<1> SUFFICES ASSUME Init, LinkInit PROVE LinkInv
  OBVIOUS
<1>1. LoadInv
  BY LoadingStarts
<1>2. GraphInv
  BY DEF Init, GraphInv
<1> QED BY <1>1, <1>2 DEF LinkInv, LinkInit

\* Every step keeps it.
LEMMA LinksKeep == LinkInv /\ [LinkNext]_<<loading, linking>> => LinkInv'
<1> SUFFICES ASSUME LinkInv, [LinkNext]_<<loading, linking>> PROVE LinkInv'
  OBVIOUS
<1>1. LoadInv /\ GraphInv
  BY DEF LinkInv
<1>2. CASE Load /\ UNCHANGED linking
  <2>1. stage # "accepted"
    BY <1>2, AcceptedIsFinal
  <2>2. tables' = <<>> /\ verdict' = "none"
    BY <1>2, <2>1 DEF LinkInv, linking
  <2>3. LoadInv' /\ GraphInv'
    BY <1>1, <1>2, LoadingKeeps, GraphKept
  <2> QED BY <2>2, <2>3 DEF LinkInv
<1>3. ASSUME UNCHANGED loading
      PROVE  LoadInv' /\ GraphInv' /\ stage' = stage /\ (Fits(tables)' <=> Fits(tables'))
  BY <1>1, <1>3, LoadingKeeps, GraphKept, FitsStays DEF loading
<1>4. CASE ServeMutations
  <2>1. UNCHANGED loading /\ stage = "accepted" /\ UNCHANGED verdict
    BY <1>4 DEF ServeMutations
  <2> QED BY <1>3, <1>4, <2>1, ServedFits DEF LinkInv
<1>5. CASE \E c \in Changes(text) : Change(c)
  <2>1. UNCHANGED loading /\ tables # <<>> /\ verdict' # "none"
    BY <1>5, ChangeFacts
  <2> QED BY <1>3, <2>1 DEF LinkInv
<1>6. CASE UNCHANGED <<loading, linking>>
  <2>1. UNCHANGED loading /\ tables' = tables /\ verdict' = verdict
    BY <1>6 DEF linking
  <2> QED BY <1>3, <2>1 DEF LinkInv
<1> QED BY <1>2, <1>4, <1>5, <1>6 DEF LinkNext

\* The database a mutation finds fits the accepted schema, whatever the links in it.
THEOREM LinksAreInvariant == LinkSpec => []LinkInv
BY LinksStart, LinksKeep, PTL DEF LinkSpec

(***************************************************************************)
(* Cascades: one statement, the statements after one record, those before  *)
(* the deletion of many.                                                   *)
(***************************************************************************)
Links == UNION {{o} \X LinkFields(o) : o \in Models}

\* No pair of o.n leads to one of these records of m.
Cleared(e, o, n, m, ids) ==
  \A r \in DOMAIN e[o] : ~ (e[o][r].link[n][1] = m /\ e[o][r].link[n][2] \in ids)

\* These records are all there still.
Keeps(e, D) == \A x \in D : x[2] \in DOMAIN e[x[1]]

\* Whether the cascade of m's records visits o.n.
Traced(o, n, m) ==
  /\ o \in Models /\ n \in LinkFields(o)
  /\ resolved[o].fields[n].kind = "Base" /\ resolved[o].fields[n].of \in resolved[m].bases

\* What is left of what is left.
LEMMA ThinsOn ==
  ASSUME NEW d, NEW e, NEW f, Thins(e, d), Thins(f, e)
  PROVE  Thins(f, d)
BY DEF Thins

\* What is gone does not come back.
LEMMA ClearedStays ==
  ASSUME NEW e, NEW f, Thins(f, e), NEW o \in Models, NEW n, NEW m, NEW ids,
         Cleared(e, o, n, m, ids)
  PROVE  Cleared(f, o, n, m, ids)
BY DEF Thins, Cleared

\* One statement of a cascade.
LEMMA DropFacts ==
  ASSUME NEW d, Shaped(d), NEW follower \in Links, NEW m, NEW ids
  PROVE  LET e == DropLinked(d, follower, m, ids)
             o == follower[1]
             n == follower[2]
         IN /\ Thins(e, d) /\ Cleared(e, o, n, m, ids)
            /\ \A t \in Models : \A r \in DOMAIN d[t] :
                 \/ t = o /\ d[o][r].link[n][1] = m /\ d[o][r].link[n][2] \in ids
                 \/ r \in DOMAIN e[t]
<1> DEFINE o == follower[1]
           n == follower[2]
           gone == {r \in DOMAIN d[o] : d[o][r].link[n][1] = m /\ d[o][r].link[n][2] \in ids}
           e == Without(d, o, gone)
<1>1. o \in Models
  BY DEF Links
<1>2. DropLinked(d, follower, m, ids) = e
  BY DEF DropLinked
<1>3. /\ Thins(e, d) /\ DOMAIN e[o] = DOMAIN d[o] \ gone
      /\ \A t \in Models : t # o => e[t] = d[t]
  <2> HIDE DEF o, gone
  <2> QED BY <1>1, WithoutFacts
<1> HIDE DEF e
<1>4. Cleared(e, o, n, m, ids)
  <2>1. \A r \in DOMAIN e[o] : r \in DOMAIN d[o] /\ e[o][r] = d[o][r]
    BY <1>1, <1>3 DEF Thins
  <2> HIDE DEF o, n
  <2> QED BY <1>3, <2>1 DEF Cleared
<1>5. \A t \in Models : \A r \in DOMAIN d[t] :
        \/ t = o /\ d[o][r].link[n][1] = m /\ d[o][r].link[n][2] \in ids
        \/ r \in DOMAIN e[t]
  <2> HIDE DEF o, n
  <2> QED BY <1>1, <1>3
<1> QED BY <1>2, <1>3, <1>4, <1>5

\* The records of D are stored and do not refer to these records of m.
Apart(d, D, m, ids) ==
  \A x \in D : /\ x[1] \in Models /\ x[2] \in DOMAIN d[x[1]]
               /\ \A n \in LinkFields(x[1]) :
                    ~ (d[x[1]][x[2]].link[n][1] = m /\ d[x[1]][x[2]].link[n][2] \in ids)

\* The statements of a cascade are about the same records of m as long as
\* nothing comes to d and the records of D are there.
Drops(r, d, D, seq, m, ids) ==
  /\ r[0] = d
  /\ \A k \in 1 .. Len(seq) : Thins(r[k - 1], d) /\ Keeps(r[k - 1], D)
                                => r[k] = DropLinked(r[k - 1], seq[k], m, ids)

\* The statements of a cascade, one after the other, take none of the records
\* of D if these do not refer to what it is about.
LEMMA CascadeTrace ==
  ASSUME NEW d, Shaped(d), NEW m, NEW ids, NEW D, Apart(d, D, m, ids),
         NEW seq \in Seq(Links), NEW r, Drops(r, d, D, seq, m, ids)
  PROVE  /\ Thins(r[Len(seq)], d) /\ Keeps(r[Len(seq)], D)
         /\ \A j \in 1 .. Len(seq) : Cleared(r[Len(seq)], seq[j][1], seq[j][2], m, ids)
<1> DEFINE len == Len(seq)
           Good(k) == /\ Thins(r[k], d) /\ Keeps(r[k], D)
                      /\ \A j \in 1 .. len : j =< k => Cleared(r[k], seq[j][1], seq[j][2], m, ids)
           A == {k \in 0 .. len : Good(k)}
<1>1. len \in Nat /\ \A k \in 1 .. len : seq[k] \in Links
  OBVIOUS
<1>2. A \in SUBSET (0 .. len) /\ 0 \in A
  <2>1. Thins(r[0], d) /\ Keeps(r[0], D)
    BY DEF Thins, Keeps, Drops, Apart
  <2>2. 0 \in 0 .. len /\ \A j \in 1 .. len : ~ (j =< 0)
    BY <1>1
  <2> QED BY <2>1, <2>2
<1>3. ASSUME NEW k \in A, k < len PROVE k + 1 \in A
  <2>1. k + 1 \in 1 .. len /\ (k + 1) - 1 = k /\ k + 1 \in 0 .. len /\ Good(k)
        /\ \A j \in 1 .. len : j =< k + 1 => j =< k \/ j = k + 1
    BY <1>1, <1>3
  <2> DEFINE e == r[k]
             f == r[k + 1]
             follower == seq[k + 1]
             o == follower[1]
             n == follower[2]
  <2>2. Thins(e, d) /\ Keeps(e, D) /\ Shaped(e) /\ follower \in Links
    BY <1>1, <2>1 DEF Thins
  <2>3. f = DropLinked(e, follower, m, ids)
    BY <2>1, <2>2 DEF Drops
  <2> HIDE DEF e, f, follower
  <2>4. /\ Thins(f, e) /\ Cleared(f, o, n, m, ids)
        /\ \A t \in Models : \A x \in DOMAIN e[t] :
             \/ t = o /\ e[o][x].link[n][1] = m /\ e[o][x].link[n][2] \in ids
             \/ x \in DOMAIN f[t]
    BY <2>2, <2>3, DropFacts
  <2>5. Thins(f, d)
    BY <2>2, <2>4, ThinsOn
  <2>6. o \in Models /\ n \in LinkFields(o)
    BY <2>2 DEF Links
  <2> HIDE DEF o, n
  <2>7. Keeps(f, D)
    <3> SUFFICES ASSUME NEW x \in D PROVE x[2] \in DOMAIN f[x[1]]
      BY DEF Keeps
    <3>1. x[1] \in Models /\ x[2] \in DOMAIN e[x[1]] /\ e[x[1]][x[2]] = d[x[1]][x[2]]
      BY <2>2 DEF Keeps, Thins, Apart
    <3>2. x[1] = o => ~ (e[o][x[2]].link[n][1] = m /\ e[o][x[2]].link[n][2] \in ids)
      BY <2>6, <3>1 DEF Apart
    <3> QED BY <2>4, <3>1, <3>2
  <2>8. \A j \in 1 .. len : j =< k => Cleared(f, seq[j][1], seq[j][2], m, ids)
    <3> SUFFICES ASSUME NEW j \in 1 .. len, j =< k PROVE Cleared(f, seq[j][1], seq[j][2], m, ids)
      OBVIOUS
    <3>1. Cleared(e, seq[j][1], seq[j][2], m, ids)
      BY <2>1 DEF e
    <3>2. seq[j][1] \in Models
      BY <1>1 DEF Links
    <3> QED BY <2>4, <3>1, <3>2, ClearedStays
  <2>9. Good(k + 1)
    <3>1. Cleared(f, seq[k + 1][1], seq[k + 1][2], m, ids)
      BY <2>4 DEF o, n, follower
    <3>2. ASSUME NEW j \in 1 .. len, j =< k + 1 PROVE Cleared(f, seq[j][1], seq[j][2], m, ids)
      <4>1. CASE j =< k
        BY <2>8, <4>1
      <4>2. CASE j = k + 1
        BY <3>1, <4>2
      <4> QED BY <2>1, <3>2, <4>1, <4>2
    <3> QED BY <2>5, <2>7, <3>2 DEF f
  <2> QED BY <2>1, <2>9
<1>4. A = 0 .. len
  <2> HIDE DEF A
  <2> QED BY <1>1, <1>2, <1>3, InductUpTo
<1>5. Good(len)
  <2>1. len \in 0 .. len
    BY <1>1
  <2> QED BY <1>4, <2>1
<1>6. \A j \in 1 .. len : j =< len
  BY <1>1
<1> HIDE DEF len
<1>7. Thins(r[len], d) /\ Keeps(r[len], D)
      /\ \A j \in 1 .. len : Cleared(r[len], seq[j][1], seq[j][2], m, ids)
  BY <1>5, <1>6
<1> QED BY <1>7 DEF len

\* An accepted schema, as the server holds it.
Accepted == LoadInv /\ GraphInv /\ stage = "accepted"

\* What the cascades need of an accepted schema.
LEMMA AcceptedFacts ==
  ASSUME Accepted
  PROVE  /\ IsFiniteSet(Models) /\ ~ Duplicated
         /\ \A m \in Models : IsFiniteSet(LinkFields(m)) /\ resolved[m].bases \subseteq Bases
         /\ \A m \in Models : \A n \in LinkFields(m) :
              resolved[m].fields[n].kind = "Base" => resolved[m].fields[n].of \notin DOMAIN ast.unions
         /\ \A u \in DOMAIN ast.unions : IsSequence(ast.unions[u]) /\ Range(ast.unions[u]) \subseteq Models
<1>1. IsAst(ast) /\ ~ Duplicated /\ \A m \in Models : Inherits(m)
  BY DEF Accepted, LoadInv, ReadInv, ModelInv, Flat
<1>2. IsFiniteSet(Models)
  <2>1. IsFiniteSet(Range(Alphabet))
    BY TextsAssumption, MembersAreFinite
  <2> QED BY <1>1, <2>1, FS_Subset DEF IsAst, Models
<1>3. ASSUME NEW m \in Models PROVE IsFiniteSet(LinkFields(m)) /\ resolved[m].bases \subseteq Bases
  <2>1. IsFiniteSet(DOMAIN resolved[m].fields) /\ LinkFields(m) \subseteq DOMAIN resolved[m].fields
    BY DEF Accepted, GraphInv, LinkFields
  <2>2. resolved[m].bases \subseteq Bases
    <3> DEFINE parents == ast.models[m].extends
    <3>1. resolved[m].bases = Lineage(ast, parents) /\ IsFiniteSet(DOMAIN ast.bases)
      BY <1>1 DEF IsAst, Inherits
    <3> HIDE DEF parents
    <3>2. Lineage(ast, parents) \subseteq DOMAIN ast.bases
      BY <3>1, LineageIsLeast
    <3> QED BY <3>1, <3>2 DEF Bases
  <2> QED BY <2>1, <2>2, FS_Subset
<1>4. \A m \in Models : \A n \in LinkFields(m) :
        resolved[m].fields[n].kind = "Base" => resolved[m].fields[n].of \notin DOMAIN ast.unions
  BY DEF Accepted, GraphInv, LinkFields
<1>5. \A u \in DOMAIN ast.unions : IsSequence(ast.unions[u]) /\ Range(ast.unions[u]) \subseteq Models
  BY <1>1 DEF Accepted, GraphInv, IsAst
<1> QED BY <1>1, <1>2, <1>3, <1>4, <1>5

\* An order of the visits is of models, all with bases among them.
LEMMA VisitFacts ==
  ASSUME Accepted, NEW order \in Visits
  PROVE  /\ order \in Seq(Models)
         /\ \A m \in Models : LinkFields(m) # {} \/ resolved[m].bases # {} => m \in Range(order)
<1> DEFINE S == {m \in Models : LinkFields(m) # {} \/ resolved[m].bases # {}}
<1>1. IsFiniteSet(S) /\ order \in Orders(S)
  BY AcceptedFacts, FS_Subset DEF Visits
<1>2. order \in Seq(S) /\ Range(order) = S
  <2> HIDE DEF S
  <2> QED BY <1>1, OrderFacts
<1>3. order \in Seq(Models)
  BY <1>2
<1> QED BY <1>2, <1>3

\* The cascade of m's records visits every link through one of m's bases.
LEMMA FollowerFacts ==
  ASSUME Accepted, NEW m, NEW order \in Visits
  PROVE  /\ Followers(m, order) \in Seq(Links)
         /\ \A o, n : Traced(o, n, m) =>
              \E k \in 1 .. Len(Followers(m, order)) : Followers(m, order)[k] = <<o, n>>
<1> DEFINE of(o) == {n \in LinkFields(o) : /\ resolved[o].fields[n].kind = "Base"
                                           /\ resolved[o].fields[n].of \in resolved[m].bases}
           pairs(o) == {<<o, n>> : n \in of(o)}
           ss == [i \in DOMAIN order |-> SetToSeq(pairs(order[i]))]
<1>1. Followers(m, order) = FlattenSeq(ss)
  BY DEF Followers
<1>2. order \in Seq(Models) /\ \A o \in Models : LinkFields(o) # {} => o \in Range(order)
  BY VisitFacts
<1>3. ASSUME NEW o \in Models
      PROVE  /\ SetToSeq(pairs(o)) \in Seq(Links)
             /\ \A n \in of(o) : \E j \in DOMAIN SetToSeq(pairs(o)) : SetToSeq(pairs(o))[j] = <<o, n>>
  <2>1. IsFiniteSet(of(o)) /\ of(o) \subseteq LinkFields(o)
    <3>1. IsFiniteSet(LinkFields(o))
      BY AcceptedFacts
    <3> QED BY <3>1, FS_Subset
  <2>2. pairs(o) \subseteq Links
    BY <2>1 DEF Links
  <2> DEFINE pair == [n \in of(o) |-> <<o, n>>]
  <2>3. IsFiniteSet(pairs(o))
    <3> HIDE DEF of
    <3>1. IsFiniteSet({pair[n] : n \in DOMAIN pair})
      BY <2>1, FiniteRange
    <3> QED BY <3>1
  <2>4. \A n \in of(o) : <<o, n>> \in pairs(o)
    OBVIOUS
  <2> DEFINE P == pairs(o)
             s == SetToSeq(P)
  <2> HIDE DEF pairs, of, P
  <2>5. /\ Cardinality(P) \in Nat /\ s \in [1 .. Cardinality(P) -> P]
        /\ \A x \in P : \E i \in 1 .. Cardinality(P) : s[i] = x
    BY <2>3, SetInSequence DEF P
  <2>6. P \subseteq Links
    BY <2>2 DEF P
  <2> HIDE DEF s
  <2>7. s \in Seq(Links) /\ DOMAIN s = 1 .. Cardinality(P)
    <3> DEFINE c == Cardinality(P)
    <3> HIDE DEF c
    <3>1. c \in Nat /\ s \in [1 .. c -> Links]
      BY <2>5, <2>6 DEF c
    <3>2. s \in Seq(Links) /\ DOMAIN s = 1 .. c
      BY <3>1
    <3> QED BY <3>2 DEF c
  <2> QED BY <2>4, <2>5, <2>7 DEF s, P
<1>4. ss \in Seq(Seq(Links)) /\ DOMAIN ss = DOMAIN order
  <2> DEFINE L == Seq(Links)
  <2>1. \A i \in DOMAIN order : order[i] \in Models
    BY <1>2
  <2>2. \A i \in DOMAIN order : ss[i] \in L
    BY <1>3, <2>1
  <2>3. DOMAIN order = 1 .. Len(order) /\ Len(order) \in Nat
    BY <1>2
  <2> HIDE DEF L, pairs
  <2>4. ss \in Seq(L)
    BY <2>2, <2>3
  <2> QED BY <2>4 DEF L
<1>5. FlattenSeq(ss) \in Seq(Links)
  <2> HIDE DEF ss
  <2>1. <<>> \in Seq(Links)
    OBVIOUS
  <2> QED BY <1>4, <2>1, FlatGrows
<1>6. ASSUME NEW o, NEW n, Traced(o, n, m)
      PROVE  \E k \in 1 .. Len(FlattenSeq(ss)) : FlattenSeq(ss)[k] = <<o, n>>
  <2>1. o \in Models /\ n \in of(o) /\ LinkFields(o) # {}
    BY <1>6 DEF Traced
  <2>2. PICK i \in DOMAIN order : order[i] = o
    BY <1>2, <2>1 DEF Range
  <2>3. ss[i] = SetToSeq(pairs(o))
    BY <2>2
  <2> HIDE DEF pairs, of, ss
  <2>4. PICK j \in DOMAIN ss[i] : ss[i][j] = <<o, n>>
    BY <1>3, <2>1, <2>3
  <2>5. \E k \in DOMAIN FlattenSeq(ss) : FlattenSeq(ss)[k] = ss[i][j]
    BY <1>4, <2>2, FlatHolds
  <2>6. DOMAIN FlattenSeq(ss) = 1 .. Len(FlattenSeq(ss))
    BY <1>5
  <2> QED BY <2>4, <2>5, <2>6
<1> HIDE DEF ss
<1> QED BY <1>1, <1>5, <1>6

\* The cascade after a delete.
LEMMA CascadeFromFacts ==
  ASSUME Accepted, NEW d, Shaped(d), NEW m, NEW id, NEW order \in Visits
  PROVE  /\ Thins(CascadeFrom(d, m, id, order), d)
         /\ \A o, n : Traced(o, n, m) => Cleared(CascadeFrom(d, m, id, order), o, n, m, {id})
<1> DEFINE seq == Followers(m, order)
           e == CascadeFrom(d, m, id, order)
<1>1. /\ seq \in Seq(Links)
      /\ \A o, n : Traced(o, n, m) => \E k \in 1 .. Len(seq) : seq[k] = <<o, n>>
  BY FollowerFacts
<1> HIDE DEF seq
<1>2. PICK r : /\ r[0] = d
               /\ \A k \in 1 .. Len(seq) : r[k] = DropLinked(r[k - 1], seq[k], m, {id})
               /\ e = r[Len(seq)]
  <2>1. FoldUnrolls(LAMBDA x, f : DropLinked(x, f, m, {id}), d, seq)
    BY <1>1, FoldTrace
  <2> QED BY <2>1 DEF FoldUnrolls, CascadeFrom, seq
<1> HIDE DEF e
<1>3. Thins(e, d) /\ \A j \in 1 .. Len(seq) : Cleared(e, seq[j][1], seq[j][2], m, {id})
  <2>1. Apart(d, {}, m, {id}) /\ Drops(r, d, {}, seq, m, {id})
    BY <1>2 DEF Apart, Drops
  <2> QED BY <1>1, <1>2, <2>1, CascadeTrace
<1>4. ASSUME NEW o, NEW n, Traced(o, n, m) PROVE Cleared(e, o, n, m, {id})
  <2>1. PICK k \in 1 .. Len(seq) : seq[k] = <<o, n>>
    BY <1>1, <1>4
  <2>2. seq[k][1] = o /\ seq[k][2] = n
    BY <2>1
  <2> QED BY <1>3, <2>2
<1> QED BY <1>3, <1>4 DEF e

(***************************************************************************)
(* A deleteMany of records that do not refer to each other.                *)
(***************************************************************************)
\* The records D of a database d are those that the filter selects of these
\* models, and none of them refers to another.
Untied(d, D, concrete, where) ==
  /\ Fits(d) /\ concrete \subseteq Models
  /\ D = UNION {{m} \X Selected(d, m, where) : m \in concrete}
  /\ \A x \in D : \A n \in LinkFields(x[1]) : d[x[1]][x[2]].link[n] \notin D

\* The filter selects what it did at first, as long as that is all there.
LEMMA SelectedStays ==
  ASSUME NEW d, NEW e, Thins(e, d), NEW m \in Models, NEW where
  PROVE  /\ Selected(e, m, where) \subseteq Selected(d, m, where)
         /\ Selected(d, m, where) \cap DOMAIN e[m] \subseteq Selected(e, m, where)
BY DEF Thins, Selected

\* The cascades of one model take none of the records of D.
LEMMA CascadeAheadFacts ==
  ASSUME Accepted, NEW d, NEW D, NEW concrete, NEW where, Untied(d, D, concrete, where),
         NEW m \in concrete, NEW order \in Visits, NEW e, Thins(e, d), Keeps(e, D)
  PROVE  LET f == CascadeAhead(e, m, where, order)
         IN /\ Thins(f, e) /\ Keeps(f, D)
            /\ \A o, n : Traced(o, n, m) => Cleared(f, o, n, m, Selected(d, m, where))
<1> DEFINE seq == Followers(m, order)
           f == CascadeAhead(e, m, where, order)
           ids == Selected(d, m, where)
<1>1. /\ seq \in Seq(Links)
      /\ \A o, n : Traced(o, n, m) => \E k \in 1 .. Len(seq) : seq[k] = <<o, n>>
  BY FollowerFacts
<1>2. m \in Models /\ Shaped(e)
  BY DEF Untied, Thins
<1> HIDE DEF seq
<1>3. PICK r : /\ r[0] = e
               /\ \A k \in 1 .. Len(seq) :
                    r[k] = DropLinked(r[k - 1], seq[k], m, Selected(r[k - 1], m, where))
               /\ f = r[Len(seq)]
  <2>1. FoldUnrolls(LAMBDA x, g : DropLinked(x, g, m, Selected(x, m, where)), e, seq)
    BY <1>1, FoldTrace
  <2> QED BY <2>1 DEF FoldUnrolls, CascadeAhead, seq
<1> HIDE DEF f
<1>4. ASSUME NEW g, Thins(g, e), Keeps(g, D) PROVE Selected(g, m, where) = ids
  <2>1. Thins(g, d)
    BY <1>4, ThinsOn
  <2>2. \A i \in ids : <<m, i>> \in D
    BY DEF Untied
  <2>3. ids \subseteq DOMAIN g[m]
    BY <1>4, <2>2 DEF Keeps
  <2> QED BY <1>2, <2>1, <2>3, SelectedStays
<1>5. Apart(e, D, m, ids)
  <2> SUFFICES ASSUME NEW x \in D
               PROVE  /\ x[1] \in Models /\ x[2] \in DOMAIN e[x[1]]
                      /\ \A n \in LinkFields(x[1]) :
                           ~ (e[x[1]][x[2]].link[n][1] = m /\ e[x[1]][x[2]].link[n][2] \in ids)
    BY DEF Apart
  <2>1. x[1] \in concrete /\ x[1] \in Models
    BY DEF Untied
  <2>2. x[2] \in DOMAIN e[x[1]] /\ e[x[1]][x[2]] = d[x[1]][x[2]] /\ x[2] \in DOMAIN d[x[1]]
    BY <2>1 DEF Keeps, Thins
  <2>3. ASSUME NEW n \in LinkFields(x[1]), NEW link, link = d[x[1]][x[2]].link[n],
               link[1] = m, link[2] \in ids
        PROVE  FALSE
    <3>1. Target(x[1], n, link)
      BY <2>1, <2>2, <2>3 DEF Untied, Fits
    <3>2. link = <<link[1], link[2]>>
      BY <3>1 DEF Target, NoLink
    <3>3. <<m, link[2]>> \in D
      BY <2>3 DEF Untied
    <3>4. link \in D
      BY <2>3, <3>2, <3>3
    <3> QED BY <2>3, <3>4 DEF Untied
  <2> HIDE DEF ids
  <2> QED BY <2>1, <2>2, <2>3
<1> HIDE DEF ids
<1>6. /\ Thins(f, e) /\ Keeps(f, D)
      /\ \A j \in 1 .. Len(seq) : Cleared(f, seq[j][1], seq[j][2], m, ids)
  <2>1. Drops(r, e, D, seq, m, ids)
    BY <1>3, <1>4 DEF Drops
  <2> QED BY <1>1, <1>2, <1>3, <1>5, <2>1, CascadeTrace
<1>7. ASSUME NEW o, NEW n, Traced(o, n, m) PROVE Cleared(f, o, n, m, ids)
  <2>1. PICK k \in 1 .. Len(seq) : seq[k] = <<o, n>>
    BY <1>1, <1>7
  <2>2. seq[k][1] = o /\ seq[k][2] = n
    BY <2>1
  <2> QED BY <1>6, <2>2
<1> QED BY <1>6, <1>7 DEF f, ids

\* The cascades of all models take none of the records of D.
LEMMA CascadedFacts ==
  ASSUME Accepted, NEW d, NEW D, NEW concrete, NEW where, Untied(d, D, concrete, where),
         NEW order \in Visits, NEW models, IsSequence(models)
  PROVE  LET f == Cascaded(d, concrete, models, where, order)
         IN /\ Thins(f, d)
            /\ \A m \in concrete \cap Range(models) : \A o, n :
                 Traced(o, n, m) => Cleared(f, o, n, m, Selected(d, m, where))
<1> DEFINE f == Cascaded(d, concrete, models, where, order)
           len == Len(models)
           Clear(e, m) == \A o, n : Traced(o, n, m) => Cleared(e, o, n, m, Selected(d, m, where))
<1>1. /\ len \in Nat /\ models \in Seq(Range(models))
      /\ Range(models) = {models[k] : k \in 1 .. len}
  BY SequenceFacts DEF IsSequence, Range
<1>2. PICK r : /\ r[0] = d
               /\ \A k \in 1 .. len :
                    r[k] = IF models[k] \in concrete
                           THEN CascadeAhead(r[k - 1], models[k], where, order) ELSE r[k - 1]
               /\ f = r[len]
  <2>1. FoldUnrolls(LAMBDA x, m : IF m \in concrete THEN CascadeAhead(x, m, where, order) ELSE x,
                    d, models)
    BY <1>1, FoldTrace
  <2> QED BY <2>1 DEF FoldUnrolls, Cascaded
<1> HIDE DEF f, len, Clear
<1> DEFINE Good(k) == /\ Thins(r[k], d) /\ Keeps(r[k], D)
                      /\ \A j \in 1 .. len : j =< k /\ models[j] \in concrete => Clear(r[k], models[j])
           A == {k \in 0 .. len : Good(k)}
<1>3. A \in SUBSET (0 .. len) /\ 0 \in A
  <2>1. Thins(d, d) /\ Keeps(d, D)
    BY DEF Untied, Fits, Thins, Keeps, Selected
  <2>2. 0 \in 0 .. len /\ \A j \in 1 .. len : ~ (j =< 0)
    BY <1>1
  <2> QED BY <1>2, <2>1, <2>2
<1>4. ASSUME NEW e, NEW g, NEW m \in concrete, Thins(g, e), Clear(e, m) PROVE Clear(g, m)
  <2> SUFFICES ASSUME NEW o, NEW n, Traced(o, n, m)
               PROVE  Cleared(g, o, n, m, Selected(d, m, where))
    BY DEF Clear
  <2>1. Cleared(e, o, n, m, Selected(d, m, where)) /\ o \in Models
    BY <1>4 DEF Clear, Traced
  <2> QED BY <1>4, <2>1, ClearedStays
<1>5. ASSUME NEW k \in A, k < len PROVE k + 1 \in A
  <2>1. /\ k + 1 \in 1 .. len /\ (k + 1) - 1 = k /\ k + 1 \in 0 .. len /\ Good(k)
        /\ \A j \in 1 .. len : j =< k + 1 => j =< k \/ j = k + 1
    BY <1>1, <1>5
  <2> DEFINE m == models[k + 1]
  <2>2. r[k + 1] = IF m \in concrete THEN CascadeAhead(r[k], m, where, order) ELSE r[k]
    BY <1>2, <2>1
  <2>3. CASE m \in concrete
    <3> DEFINE e == r[k]
               g == r[k + 1]
    <3>1. Thins(e, d) /\ Keeps(e, D)
      BY <2>1
    <3>2. g = CascadeAhead(e, m, where, order)
      BY <2>2, <2>3
    <3> HIDE DEF e, g, m
    <3>3. /\ Thins(g, e) /\ Keeps(g, D)
          /\ \A o, n : Traced(o, n, m) => Cleared(g, o, n, m, Selected(d, m, where))
      BY <2>3, <3>1, <3>2, CascadeAheadFacts
    <3>4. Thins(g, d) /\ Clear(g, m)
      BY <3>1, <3>3, ThinsOn DEF Clear
    <3>5. \A j \in 1 .. len : j =< k /\ models[j] \in concrete => Clear(g, models[j])
      BY <1>4, <2>1, <3>3 DEF e
    <3>6. \A j \in 1 .. len : j =< k + 1 /\ models[j] \in concrete => Clear(g, models[j])
      BY <2>1, <3>4, <3>5 DEF m
    <3> QED BY <2>1, <3>3, <3>4, <3>6 DEF g
  <2>4. CASE m \notin concrete
    <3>1. r[k + 1] = r[k]
      BY <2>2, <2>4
    <3>2. \A j \in 1 .. len : j =< k + 1 /\ models[j] \in concrete => Clear(r[k + 1], models[j])
      BY <2>1, <2>4, <3>1
    <3> QED BY <2>1, <3>1, <3>2
  <2> QED BY <2>3, <2>4
<1>6. A = 0 .. len
  <2> HIDE DEF A
  <2> QED BY <1>1, <1>3, <1>5, InductUpTo
<1>7. Good(len) /\ \A j \in 1 .. len : j =< len
  <2>1. len \in 0 .. len /\ \A j \in 1 .. len : j =< len
    BY <1>1
  <2> QED BY <1>6, <2>1
<1>8. \A m \in concrete \cap Range(models) : Clear(f, m)
  BY <1>1, <1>2, <1>7
<1> QED BY <1>2, <1>7, <1>8 DEF Clear, f

\* Of every model that is listed, the selected records go.
LEMMA RemovedFacts ==
  ASSUME NEW d, Shaped(d), NEW e, Thins(e, d), NEW concrete, concrete \subseteq Models, NEW where,
         NEW models, IsSequence(models)
  PROVE  LET f == Removed(e, concrete, models, where)
         IN /\ Thins(f, e)
            /\ \A m \in concrete \cap Range(models) : DOMAIN f[m] \cap Selected(d, m, where) = {}
<1> DEFINE f == Removed(e, concrete, models, where)
           len == Len(models)
           Gone(g, m) == DOMAIN g[m] \cap Selected(d, m, where) = {}
<1>1. /\ len \in Nat /\ models \in Seq(Range(models))
      /\ Range(models) = {models[k] : k \in 1 .. len}
  BY SequenceFacts DEF IsSequence, Range
<1>2. PICK r : /\ r[0] = e
               /\ \A k \in 1 .. len :
                    r[k] = IF models[k] \in concrete
                           THEN Without(r[k - 1], models[k], Selected(r[k - 1], models[k], where))
                           ELSE r[k - 1]
               /\ f = r[len]
  <2>1. FoldUnrolls(LAMBDA x, m : IF m \in concrete THEN Without(x, m, Selected(x, m, where)) ELSE x,
                    e, models)
    BY <1>1, FoldTrace
  <2> QED BY <2>1 DEF FoldUnrolls, Removed
<1> HIDE DEF f, len, Gone
<1> DEFINE Good(k) == /\ Thins(r[k], e)
                      /\ \A j \in 1 .. len : j =< k /\ models[j] \in concrete => Gone(r[k], models[j])
           A == {k \in 0 .. len : Good(k)}
<1>3. A \in SUBSET (0 .. len) /\ 0 \in A
  <2>1. Thins(e, e)
    BY DEF Thins
  <2>2. 0 \in 0 .. len /\ \A j \in 1 .. len : ~ (j =< 0)
    BY <1>1
  <2> QED BY <1>2, <2>1, <2>2
<1>4. ASSUME NEW x, NEW g, NEW m \in Models, Thins(g, x), Gone(x, m) PROVE Gone(g, m)
  BY <1>4 DEF Thins, Gone
<1>5. ASSUME NEW k \in A, k < len PROVE k + 1 \in A
  <2>1. /\ k + 1 \in 1 .. len /\ (k + 1) - 1 = k /\ k + 1 \in 0 .. len /\ Good(k)
        /\ \A j \in 1 .. len : j =< k + 1 => j =< k \/ j = k + 1
    BY <1>1, <1>5
  <2> DEFINE m == models[k + 1]
  <2>2. r[k + 1] = IF m \in concrete THEN Without(r[k], m, Selected(r[k], m, where)) ELSE r[k]
    BY <1>2, <2>1
  <2>3. CASE m \in concrete
    <3> DEFINE x == r[k]
               g == r[k + 1]
    <3>1. Thins(x, e) /\ Shaped(x) /\ Thins(x, d) /\ m \in Models
      BY <2>1, <2>3, ThinsOn DEF Thins
    <3>2. g = Without(x, m, Selected(x, m, where))
      BY <2>2, <2>3
    <3> HIDE DEF x, g, m
    <3>3. Thins(g, x) /\ DOMAIN g[m] = DOMAIN x[m] \ Selected(x, m, where)
      BY <3>1, <3>2, WithoutFacts
    <3>4. Thins(g, e) /\ Gone(g, m)
      BY <3>1, <3>3, ThinsOn, SelectedStays DEF Gone
    <3>5. \A j \in 1 .. len : j =< k /\ models[j] \in concrete => Gone(g, models[j])
      BY <1>4, <2>1, <3>3 DEF x
    <3>6. \A j \in 1 .. len : j =< k + 1 /\ models[j] \in concrete => Gone(g, models[j])
      BY <2>1, <3>4, <3>5 DEF m
    <3> QED BY <2>1, <3>4, <3>6 DEF g
  <2>4. CASE m \notin concrete
    <3>1. r[k + 1] = r[k]
      BY <2>2, <2>4
    <3>2. \A j \in 1 .. len : j =< k + 1 /\ models[j] \in concrete => Gone(r[k + 1], models[j])
      BY <2>1, <2>4, <3>1
    <3> QED BY <2>1, <3>1, <3>2
  <2> QED BY <2>3, <2>4
<1>6. A = 0 .. len
  <2> HIDE DEF A
  <2> QED BY <1>1, <1>3, <1>5, InductUpTo
<1>7. Good(len) /\ \A j \in 1 .. len : j =< len
  <2>1. len \in 0 .. len /\ \A j \in 1 .. len : j =< len
    BY <1>1
  <2> QED BY <1>6, <2>1
<1>8. \A m \in concrete \cap Range(models) : Gone(f, m)
  BY <1>1, <1>2, <1>7
<1> QED BY <1>2, <1>7, <1>8 DEF Gone, f

\* The models that a delete is about are among those it goes through.
LEMMA ListingFacts ==
  ASSUME Accepted, NEW order \in Visits, NEW model \in Models \cup Bases \cup DOMAIN ast.unions, NEW bases
  PROVE  /\ IsSequence(Listing(model, order))
         /\ Concrete(model, bases) \subseteq Models \cap Range(Listing(model, order))
<1>1. /\ order \in Seq(Models) /\ \A m \in Models : resolved[m].bases # {} => m \in Range(order)
      /\ ~ Duplicated
      /\ \A u \in DOMAIN ast.unions : IsSequence(ast.unions[u]) /\ Range(ast.unions[u]) \subseteq Models
  BY AcceptedFacts, VisitFacts
<1>2. CASE model \in Models
  <2>1. model \notin DOMAIN ast.unions /\ Concrete(model, bases) \subseteq {model}
    BY <1>1, <1>2 DEF Duplicated, Concrete
  <2>2. Listing(model, order) = <<model>>
    BY <1>2, <2>1 DEF Listing
  <2>3. IsSequence(<<model>>) /\ Range(<<model>>) = {model}
    BY DEF IsSequence, Range
  <2> QED BY <1>2, <2>1, <2>2, <2>3
<1>3. CASE model \in DOMAIN ast.unions
  <2>1. model \notin Models
    BY <1>1, <1>3 DEF Duplicated
  <2>2. Listing(model, order) = ast.unions[model]
    BY <1>3, <2>1 DEF Listing
  <2>3. Concrete(model, bases) \subseteq Range(ast.unions[model])
    BY <1>3, <2>1 DEF Concrete, TargetsOf
  <2> QED BY <1>1, <1>3, <2>2, <2>3
<1>4. CASE model \notin Models /\ model \notin DOMAIN ast.unions
  <2>1. Listing(model, order) = order
    BY <1>4 DEF Listing
  <2>2. Concrete(model, bases) \subseteq {m \in Models : model \in resolved[m].bases}
    BY <1>4 DEF Concrete, TargetsOf, Implementors
  <2>3. IsSequence(order)
    <3>1. Len(order) \in Nat /\ DOMAIN order = 1 .. Len(order) /\ order \in [1 .. Len(order) -> Range(order)]
      BY <1>1 DEF Range
    <3> QED BY <3>1 DEF IsSequence
  <2> QED BY <1>1, <2>1, <2>2, <2>3
<1> QED BY <1>2, <1>3, <1>4

\* When the records of D are gone, and the links to them that the cascades
\* visit, no link through a base leads to one of them.
LEMMA NothingLeft ==
  ASSUME Accepted, NEW d, Fits(d), NEW e, Thins(e, d), NEW D,
         \A x \in D : /\ x = <<x[1], x[2]>> /\ x[1] \in Models /\ x[2] \in Records
                      /\ x[2] \notin DOMAIN e[x[1]],
         \A x \in D : \A o, n : Traced(o, n, x[1]) => Cleared(e, o, n, x[1], {x[2]})
  PROVE  Severed(D, e)
<1>1. ASSUME NEW o \in Models, NEW n \in LinkFields(o), resolved[o].fields[n].kind = "Base",
             NEW r \in DOMAIN e[o], NEW link, link = e[o][r].link[n], link \in D
      PROVE  FALSE
  <2>1. r \in Records /\ link = d[o][r].link[n]
    BY <1>1 DEF Thins, Fits
  <2>2. Target(o, n, link)
    BY <2>1 DEF Fits
  <2>3. link # NoLink
    BY <1>1, LinksAssumption DEF NoLink
  <2>4. link[1] \in TargetsOf(resolved[o].fields[n].of)
    BY <2>2, <2>3 DEF Target
  <2>5. resolved[o].fields[n].of \notin DOMAIN ast.unions
    BY <1>1, AcceptedFacts
  <2>6. Traced(o, n, link[1])
    BY <1>1, <2>4, <2>5 DEF TargetsOf, Implementors, Traced
  <2> QED BY <1>1, <2>6 DEF Cleared
<1> QED BY <1>1 DEF Severed

\* Of records that do not refer to each other, a deleteMany leaves nothing.
LEMMA DeletedManyFacts ==
  ASSUME Accepted, NEW model \in Models \cup Bases \cup DOMAIN ast.unions, NEW bases,
         NEW order \in Visits, NEW d, NEW D, NEW where,
         Untied(d, D, Concrete(model, bases), where)
  PROVE  Severed(D, DeletedMany(d, Concrete(model, bases), Listing(model, order), where, order))
<1> DEFINE concrete == Concrete(model, bases)
           models == Listing(model, order)
           f == Cascaded(d, concrete, models, where, order)
           e == Removed(f, concrete, models, where)
<1>1. IsSequence(models) /\ concrete \subseteq Models \cap Range(models)
  BY ListingFacts
<1>2. DeletedMany(d, concrete, models, where, order) = e
  BY DEF DeletedMany
<1>3. Untied(d, D, concrete, where) /\ Fits(d) /\ Shaped(d)
  BY DEF Untied, Fits
<1>4. D = UNION {{m} \X Selected(d, m, where) : m \in concrete}
  BY DEF Untied
<1> HIDE DEF concrete, models
<1>5. /\ Thins(f, d)
      /\ \A m \in concrete \cap Range(models) : \A o, n :
           Traced(o, n, m) => Cleared(f, o, n, m, Selected(d, m, where))
  BY <1>1, <1>3, CascadedFacts
<1> HIDE DEF f
<1>6. /\ Thins(e, f)
      /\ \A m \in concrete \cap Range(models) : DOMAIN e[m] \cap Selected(d, m, where) = {}
  BY <1>1, <1>3, <1>5, RemovedFacts
<1> HIDE DEF e
<1>7. Thins(e, d)
  BY <1>5, <1>6, ThinsOn
<1>8. ASSUME NEW x \in D
      PROVE  /\ x = <<x[1], x[2]>> /\ x[1] \in Models /\ x[2] \in Records
             /\ x[2] \notin DOMAIN e[x[1]]
             /\ \A o, n : Traced(o, n, x[1]) => Cleared(e, o, n, x[1], {x[2]})
  <2>1. x = <<x[1], x[2]>> /\ x[1] \in concrete /\ x[2] \in Selected(d, x[1], where)
    BY <1>4
  <2>2. x[1] \in Models /\ x[1] \in concrete \cap Range(models) /\ x[2] \in Records
    BY <1>1, <1>3, <2>1 DEF Selected, Fits
  <2>3. ASSUME NEW o, NEW n, Traced(o, n, x[1]) PROVE Cleared(e, o, n, x[1], {x[2]})
    <3>1. Cleared(f, o, n, x[1], Selected(d, x[1], where)) /\ o \in Models
      BY <1>5, <2>2, <2>3 DEF Traced
    <3>2. Cleared(e, o, n, x[1], Selected(d, x[1], where))
      BY <1>6, <3>1, ClearedStays
    <3> QED BY <2>1, <3>2 DEF Cleared
  <2> QED BY <1>6, <2>1, <2>2, <2>3
<1>9. Severed(D, e)
  BY <1>3, <1>7, <1>8, NothingLeft
<1> QED BY <1>2, <1>9 DEF concrete, models

\* Of one record, a delete leaves nothing.
LEMMA DeletedOneFacts ==
  ASSUME Accepted, NEW m \in Models, NEW id, NEW order \in Visits, NEW d, Fits(d),
         NEW gone, id \in gone, gone \subseteq DOMAIN d[m], NEW D, D = {<<m, id>>}
  PROVE  Severed(D, CascadeFrom(Without(d, m, gone), m, id, order))
<1> DEFINE f == Without(d, m, gone)
           e == CascadeFrom(f, m, id, order)
<1>1. Thins(f, d) /\ DOMAIN f[m] = DOMAIN d[m] \ gone
  BY WithoutFacts DEF Fits
<1>2. Shaped(f)
  BY <1>1 DEF Thins
<1> HIDE DEF f
<1>3. Thins(e, f) /\ \A o, n : Traced(o, n, m) => Cleared(e, o, n, m, {id})
  BY <1>2, CascadeFromFacts
<1> HIDE DEF e
<1>4. Thins(e, d) /\ id \notin DOMAIN e[m] /\ id \in Records
  BY <1>1, <1>3, ThinsOn DEF Thins, Fits
<1>5. ASSUME NEW x \in D
      PROVE  /\ x = <<x[1], x[2]>> /\ x[1] \in Models /\ x[2] \in Records
             /\ x[2] \notin DOMAIN e[x[1]]
             /\ \A o, n : Traced(o, n, x[1]) => Cleared(e, o, n, x[1], {x[2]})
  <2>1. x = <<m, id>> /\ x[1] = m /\ x[2] = id
    OBVIOUS
  <2> QED BY <1>3, <1>4, <2>1
<1>6. Severed(D, e)
  BY <1>4, <1>5, NothingLeft
<1> QED BY <1>6 DEF e, f

(***************************************************************************)
(* Every delete is complete.                                               *)
(***************************************************************************)
\* What CascadesComplete says of one delete.
Complete(d, c, e) ==
  (/\ c.action = "delete" => Cardinality(Doomed(d, c)) = 1
   /\ \A x \in Doomed(d, c) : \A n \in LinkFields(x[1]) :
        d[x[1]][x[2]].link[n] \notin Doomed(d, c)) =>
    Severed(Doomed(d, c), e)

\* It reads the schema, which stays.
LEMMA CompleteStays ==
  UNCHANGED loading =>
    (CascadesComplete' <=>
       (verdict' = "ok" /\ change'.action \in {"delete", "deleteMany"}
          => Complete(prior', change', tables')))
<1> SUFFICES ASSUME UNCHANGED loading
             PROVE  CascadesComplete' <=>
                      (verdict' = "ok" /\ change'.action \in {"delete", "deleteMany"}
                         => Complete(prior', change', tables'))
  OBVIOUS
<1>1. ast' = ast /\ resolved' = resolved
  BY DEF loading
<1>2. Doomed(prior, change)' = Doomed(prior', change')
  BY <1>1 DEF Doomed, Concrete, TargetsOf, Implementors, Models
<1>3. Severed(Doomed(prior, change), tables)' <=> Severed(Doomed(prior', change'), tables')
  BY <1>1, <1>2 DEF Severed, LinkFields, Models
<1>4. ASSUME NEW x PROVE LinkFields(x[1])' = LinkFields(x[1])
  BY <1>1 DEF LinkFields
<1> QED BY <1>2, <1>3, <1>4 DEF CascadesComplete, Complete

\* A delete.
LEMMA DeleteIsComplete ==
  ASSUME LinkInv, NEW c, Delete(c), verdict' = "ok"
  PROVE  Complete(tables, c, tables')
<1> DEFINE m == c.model
           doomed == Selected(tables, m, c.where)
           D == Doomed(tables, c)
<1>1. tables # <<>> /\ verdict = "none" /\ ~ Refused(c) /\ c.action = "delete"
  BY DEF Delete, Request
<1>2. Accepted /\ Fits(tables)
  BY <1>1 DEF LinkInv, Accepted
<1>3. m \in Models
  BY <1>1 DEF Refused, Unknown
<1>4. PICK order \in Visits, first \in doomed :
        tables' = CascadeFrom(Without(tables, m, doomed), m, first, order)
  <2>1. PICK order \in Visits :
          Ends({CascadeFrom(Without(tables, m, doomed), m, first, order) : first \in doomed})
    BY DEF Delete
  <2>2. tables' \in {CascadeFrom(Without(tables, m, doomed), m, first, order) : first \in doomed}
    BY <2>1 DEF Ends
  <2> QED BY <2>2
<1>5. D = IF c.bases \subseteq resolved[m].bases \cup {m} THEN {m} \X doomed ELSE {}
  BY <1>3 DEF Doomed, Concrete
<1>6. doomed \subseteq Records /\ doomed \subseteq DOMAIN tables[m]
  BY <1>2, <1>3 DEF Selected, Fits
<1> HIDE DEF D, doomed, m
<1>7. SUFFICES ASSUME Cardinality(D) = 1 PROVE Severed(D, tables')
  BY <1>1 DEF Complete, D
<1>8. D = {<<m, first>>}
  <2>1. IsFiniteSet(D)
    <3>1. IsFiniteSet({m} \X doomed)
      BY <1>6, LinksAssumption, FS_Subset, FS_Singleton, FS_Product
    <3> QED BY <1>5, <3>1, FS_EmptySet
  <2>2. PICK x : D = {x}
    BY <1>7, <2>1, FS_Singleton
  <2> QED BY <1>4, <1>5, <2>2
<1> QED BY <1>2, <1>3, <1>4, <1>6, <1>8, DeletedOneFacts

\* A deleteMany.
LEMMA DeleteManyIsComplete ==
  ASSUME LinkInv, NEW c, DeleteMany(c), verdict' = "ok"
  PROVE  Complete(tables, c, tables')
<1> DEFINE D == Doomed(tables, c)
           concrete == Concrete(c.model, c.bases)
<1>1. tables # <<>> /\ verdict = "none" /\ ~ Refused(c) /\ c.action = "deleteMany"
  BY DEF DeleteMany, Request
<1>2. Accepted /\ Fits(tables)
  BY <1>1 DEF LinkInv, Accepted
<1>3. c.model \in Models \cup Bases \cup DOMAIN ast.unions
  BY <1>1 DEF Refused, Unknown
<1>4. PICK order \in Visits :
        tables' = DeletedMany(tables, concrete, Listing(c.model, order), c.where, order)
  <2>1. PICK order \in Visits :
          Ends({DeletedMany(tables, concrete, Listing(c.model, order), c.where, order)})
    BY DEF DeleteMany
  <2> QED BY <2>1 DEF Ends
<1>5. concrete \subseteq Models
  BY <1>2, <1>3, <1>4, ListingFacts
<1>6. D = UNION {{m} \X Selected(tables, m, c.where) : m \in concrete}
  BY DEF Doomed
<1> HIDE DEF D
<1>7. SUFFICES ASSUME \A x \in D : \A n \in LinkFields(x[1]) : tables[x[1]][x[2]].link[n] \notin D
               PROVE  Severed(D, tables')
  BY DEF Complete, D
<1>8. Untied(tables, D, concrete, c.where)
  BY <1>2, <1>5, <1>6, <1>7 DEF Untied
<1> QED BY <1>2, <1>3, <1>4, <1>8, DeletedManyFacts

\* Whoever refers to a deleted record through a base goes with it, whatever the
\* order of the visits.
THEOREM CascadesAreComplete == LinkSpec => []CascadesComplete
<1>1. Init /\ LinkInit => CascadesComplete
  BY DEF LinkInit, CascadesComplete
<1>2. LinkInv /\ CascadesComplete /\ [LinkNext]_<<loading, linking>> => CascadesComplete'
  <2> SUFFICES ASSUME LinkInv, CascadesComplete, [LinkNext]_<<loading, linking>>
               PROVE  CascadesComplete'
    OBVIOUS
  <2>1. CASE Load /\ UNCHANGED linking
    <3>1. verdict' # "ok"
      BY <2>1, AcceptedIsFinal DEF LinkInv, linking
    <3> QED BY <3>1 DEF CascadesComplete
  <2>2. CASE ServeMutations
    <3>1. verdict' # "ok"
      BY <2>2 DEF ServeMutations
    <3> QED BY <3>1 DEF CascadesComplete
  <2>3. CASE \E c \in Changes(text) : Change(c)
    <3>1. PICK c \in Changes(text) : Change(c)
      BY <2>3
    <3>2. UNCHANGED loading /\ change' = c /\ prior' = tables
      BY <3>1, ChangeFacts
    <3> SUFFICES ASSUME verdict' = "ok", c.action \in {"delete", "deleteMany"}
                 PROVE  Complete(tables, c, tables')
      BY <3>2, CompleteStays
    <3>3. Delete(c) \/ DeleteMany(c)
      BY <3>1, SMTT(30) DEF Change, RefuseChange, Create, Update, UpdateMany
    <3> QED BY <3>3, DeleteIsComplete, DeleteManyIsComplete
  <2>4. CASE UNCHANGED <<loading, linking>>
    <3>1. UNCHANGED <<ast, resolved, tables, prior, change, verdict>>
      BY <2>4 DEF loading, linking
    <3> QED BY <3>1 DEF CascadesComplete, Severed, Doomed, Concrete, LinkFields,
                        TargetsOf, Implementors, Models
  <2> QED BY <2>1, <2>2, <2>3, <2>4 DEF LinkNext
<1> QED BY <1>1, <1>2, LinksAreInvariant, PTL DEF LinkSpec

(***************************************************************************)
(* The operations through a link.                                          *)
(***************************************************************************)
\* Every pair of m.n is one, and empty or of a record of a model.
Linked(d, m, n) ==
  \A r \in DOMAIN d[m] :
    LET link == d[m][r].link[n]
    IN link = <<link[1], link[2]>> /\ (link = NoLink \/ link[1] \in Models)

\* The parents that a scope has in two databases whose common rows of m have the
\* same plain column.
LEMMA ParentsStay ==
  ASSUME NEW d, NEW e, NEW m, NEW scope,
         \A x \in DOMAIN d[m] \cap DOMAIN e[m] : e[m][x].plain = d[m][x].plain
  PROVE  /\ ParentsIn(d, m, scope) \subseteq DOMAIN d[m]
         /\ ParentsIn(e, m, scope) \cap DOMAIN d[m] = ParentsIn(d, m, scope) \cap DOMAIN e[m]
<1>1. CASE scope.bulk
  BY <1>1 DEF ParentsIn, Selected
<1>2. CASE ~ scope.bulk
  BY <1>2 DEF ParentsIn
<1> QED BY <1>1, <1>2

\* The records an operation through a link reaches.
Reached(d, m, scope, n, op) ==
  Held(d, m, ParentsIn(d, m, scope), n, op.kind) \cap Selected(d, op.kind, op.where)

\* What a create, an update and a delete through a link make of a database.
CreatedIn(d, m, scope, n, op) ==
  LET child == Inserted(d, op.kind, op.value)
  IN Point(child.db, m, ParentsIn(child.db, m, scope), n, <<op.kind, child.id>>)

UpdatedIn(d, m, scope, n, op) ==
  Assign(d, op.kind, Reached(d, m, scope, n, op), op.value, n, [do |-> "none"])

DeletedIn(d, m, scope, n, op) ==
  LET left == Without(d, op.kind, Reached(d, m, scope, n, op))
  IN Cleaned(left, m, ParentsIn(left, m, scope), n, op.kind)

\* What an operation of each kind may come to.
LEMMA ThroughForms ==
  ASSUME NEW d, NEW m, NEW scope, NEW n, NEW op, op.do \in {"create", "update", "delete"},
         NEW e \in Through(d, m, scope, n, op)
  PROVE  /\ op.do = "create" => e = CreatedIn(d, m, scope, n, op)
         /\ op.do = "update" => e = UpdatedIn(d, m, scope, n, op)
         /\ op.do = "delete" => e = DeletedIn(d, m, scope, n, op)
         /\ op.do = "create" \/ Reached(d, m, scope, n, op) # {} \/ (op.do = "delete" /\ scope.bulk)
<1> DEFINE created == CreatedIn(d, m, scope, n, op)
           updated == UpdatedIn(d, m, scope, n, op)
           deleted == DeletedIn(d, m, scope, n, op)
           hit == Reached(d, m, scope, n, op)
<1>1. Through(d, m, scope, n, op) =
        CASE op.do = "create" -> {created}
          [] op.do = "update" /\ hit # {} -> {updated}
          [] op.do = "delete" /\ (hit # {} \/ scope.bulk) -> {deleted}
          [] op.do \in {"update", "delete"} /\ hit = {} /\ ~(op.do = "delete" /\ scope.bulk) -> {}
          [] OTHER -> {d}
  BY DEF Through, CreatedIn, UpdatedIn, DeletedIn, Reached
<1> HIDE DEF created, updated, deleted, hit
<1>2. CASE op.do = "create"
  <2>1. e \in {created}
    BY <1>1, <1>2
  <2> QED BY <1>2, <2>1 DEF created
<1>3. CASE op.do = "update"
  <2>1. hit # {} /\ e \in {updated}
    BY <1>1, <1>3
  <2> QED BY <1>3, <2>1 DEF updated, hit
<1>4. CASE op.do = "delete"
  <2>1. (hit # {} \/ scope.bulk) /\ e \in {deleted}
    BY <1>1, <1>4
  <2> QED BY <1>4, <2>1 DEF deleted, hit
<1> QED BY <1>2, <1>3, <1>4

\* A create gives the pairs of all parents the new record.
LEMMA CreateFollows ==
  ASSUME NEW d, Shaped(d), NEW m \in Models, NEW n \in LinkFields(m), Linked(d, m, n), NEW scope,
         NEW op, op.do = "create", op.kind \in Models, \E x \in Spare : x \notin DOMAIN d[op.kind],
         NEW e \in Through(d, m, scope, n, op)
  PROVE  /\ Shaped(e) /\ Linked(e, m, n) /\ Follows(d, m, n, op, ParentsIn(d, m, scope), e)
         /\ \A t \in Models : DOMAIN d[t] \subseteq DOMAIN e[t]
<1> DEFINE kind == op.kind
           A == ParentsIn(d, m, scope)
           id == Inserted(d, kind, op.value).id
           f == Inserted(d, kind, op.value).db
           Q == ParentsIn(f, m, scope)
<1>1. e = Point(f, m, Q, n, <<kind, id>>)
  <2>1. e = CreatedIn(d, m, scope, n, op)
    BY ThroughForms
  <2> QED BY <2>1 DEF CreatedIn
<1>2. Joined(f, d, kind, id)
  BY InsertFacts
<1> HIDE DEF f, id, kind
<1>3. Shaped(f) /\ \A x \in DOMAIN d[m] \cap DOMAIN f[m] : f[m][x].plain = d[m][x].plain
  BY <1>2 DEF Joined
<1>4. A \subseteq DOMAIN d[m] /\ Q \cap DOMAIN d[m] = A \cap DOMAIN f[m]
  BY <1>3, ParentsStay
<1> HIDE DEF A, Q
<1>5. Pointed(e, f, m, Q, n, <<kind, id>>)
  BY <1>1, <1>3, PointFacts
<1>6. /\ Shaped(e) /\ id \notin DOMAIN d[kind] /\ kind \in Models
      /\ \A t \in Models : DOMAIN e[t] = DOMAIN d[t] \cup (IF t = kind THEN {id} ELSE {})
  BY <1>2, <1>5 DEF Pointed, Joined, kind
<1>7. \A t \in Models : \A x \in DOMAIN d[t] :
        \/ t = m /\ x \in A
        \/ x \in DOMAIN e[t] /\ e[t][x] = d[t][x]
  BY <1>2, <1>4, <1>5 DEF Pointed, Joined
<1>8. ASSUME NEW p \in A
      PROVE  e[m][p].link[n] = <<kind, id>> /\ Leads(e, m, p, n) /\ e[m][p].link[n] \in Fresh(d, e, kind)
  <2>1. p \in DOMAIN f[m] /\ p \in Q
    BY <1>2, <1>4 DEF Joined
  <2>2. e[m][p].link[n] = <<kind, id>>
    BY <1>5, <2>1 DEF Pointed
  <2>3. id \in DOMAIN e[kind]
    BY <1>6
  <2> QED BY <1>6, <2>2, <2>3 DEF Leads, Fresh
<1>9. Follows(d, m, n, op, A, e)
  BY <1>7, <1>8 DEF Follows, kind
<1>10. Linked(e, m, n)
  <2> SUFFICES ASSUME NEW r \in DOMAIN e[m], NEW link, link = e[m][r].link[n]
               PROVE  link = <<link[1], link[2]>> /\ (link = NoLink \/ link[1] \in Models)
    BY DEF Linked
  <2>1. r \in DOMAIN f[m]
    BY <1>5 DEF Pointed
  <2>2. CASE r \in Q
    BY <1>5, <1>6, <2>1, <2>2 DEF Pointed
  <2>3. CASE r \notin Q
    <3>1. link = f[m][r].link[n]
      BY <1>5, <2>1, <2>3 DEF Pointed
    <3>2. CASE r \in DOMAIN d[m]
      BY <1>2, <3>1, <3>2 DEF Linked, Joined
    <3>3. CASE r \notin DOMAIN d[m]
      <4>1. r = id /\ m = kind
        BY <1>2, <2>1, <3>3 DEF Joined
      <4>2. link = NoLink
        BY <1>2, <3>1, <4>1 DEF Joined
      <4> QED BY <4>2 DEF NoLink
    <3> QED BY <3>2, <3>3
  <2> QED BY <2>2, <2>3
<1> QED BY <1>6, <1>9, <1>10 DEF A

\* A parent's pair leads to x.
IsHeld(d, m, scope, n, kind, x) ==
  \E p \in ParentsIn(d, m, scope) : d[m][p].link[n] = <<kind, x>>

\* What is reached is held by the parents' pairs.
LEMMA ReachedFacts ==
  ASSUME NEW d, NEW m, NEW n, Linked(d, m, n), NEW scope, NEW op,
         NEW x \in Reached(d, m, scope, n, op)
  PROVE  x \in DOMAIN d[op.kind] /\ IsHeld(d, m, scope, n, op.kind, x)
<1>1. ParentsIn(d, m, scope) \subseteq DOMAIN d[m]
  BY ParentsStay
<1> QED BY <1>1 DEF Reached, Held, Linked, Selected, IsHeld

\* An update reaches what the parents' pairs hold, and no pair.
LEMMA UpdateFollows ==
  ASSUME NEW d, Shaped(d), NEW m \in Models, NEW n \in LinkFields(m), Linked(d, m, n), NEW scope,
         NEW op, op.do = "update", op.kind \in Models, NEW e \in Through(d, m, scope, n, op)
  PROVE  Shaped(e) /\ Linked(e, m, n) /\ Follows(d, m, n, op, ParentsIn(d, m, scope), e)
<1> DEFINE kind == op.kind
           A == ParentsIn(d, m, scope)
           hit == Reached(d, m, scope, n, op)
           none == [do |-> "none"]
<1>1. e = Assign(d, kind, hit, op.value, n, none)
  <2>1. e = UpdatedIn(d, m, scope, n, op)
    BY ThroughForms
  <2> QED BY <2>1 DEF UpdatedIn
<1>2. A \subseteq DOMAIN d[m]
  BY ParentsStay
<1>3. ASSUME NEW x \in hit PROVE \E p \in A : d[m][p].link[n] = <<kind, x>>
  <2>1. IsHeld(d, m, scope, n, kind, x)
    BY ReachedFacts
  <2> QED BY <2>1 DEF IsHeld
<1> HIDE DEF hit, A, kind
<1>4. none.do \notin {"set", "unset"}
  OBVIOUS
<1> HIDE DEF none
<1>5. kind \in Models
  BY DEF kind
<1>6. Replaned(e, d, kind, hit)
  BY <1>1, <1>4, <1>5, AssignFacts
<1>7. \A t \in Models : \A x \in DOMAIN d[t] :
        \/ x \in DOMAIN e[t] /\ e[t][x] = d[t][x]
        \/ t = kind /\ x \in hit
  BY <1>6 DEF Replaned
<1>8. ASSUME NEW p \in A PROVE Leads(d, m, p, n) => Leads(e, m, p, n)
  <2> DEFINE link == d[m][p].link[n]
  <2>1. e[m][p].link[n] = link
    BY <1>2, <1>6 DEF Replaned
  <2>2. link # NoLink => link[1] \in Models
    BY <1>2 DEF Linked
  <2>3. \A t \in Models : DOMAIN e[t] = DOMAIN d[t]
    BY <1>6 DEF Replaned
  <2> HIDE DEF link
  <2>4. (link = NoLink \/ link[2] \in DOMAIN d[link[1]]) => (link = NoLink \/ link[2] \in DOMAIN e[link[1]])
    BY <2>2, <2>3
  <2> QED BY <2>1, <2>4 DEF Leads, link
<1>9. Follows(d, m, n, op, A, e)
  BY <1>3, <1>7, <1>8 DEF Follows, kind
<1>10. Linked(e, m, n)
  BY <1>6 DEF Linked, Replaned
<1> QED BY <1>6, <1>9, <1>10 DEF Replaned, A

\* A delete takes what the parents' pairs hold, and empties the pairs that then
\* lead nowhere; when the kind is the parents' own, which ones, is left open.
LEMMA DeleteFollows ==
  ASSUME NEW d, Shaped(d), NEW m \in Models, NEW n \in LinkFields(m), Linked(d, m, n), NEW scope,
         NEW op, op.do = "delete", op.kind \in Models, NEW e \in Through(d, m, scope, n, op)
  PROVE  Shaped(e) /\ Linked(e, m, n) /\ Follows(d, m, n, op, ParentsIn(d, m, scope), e)
<1> DEFINE kind == op.kind
           A == ParentsIn(d, m, scope)
           hit == Reached(d, m, scope, n, op)
           left == Without(d, kind, hit)
           Q == ParentsIn(left, m, scope)
           lost == {p \in Q : left[m][p].link[n][1] = kind /\ ~ Exists(left, m, p, n, kind)}
<1>1. e = Point(left, m, lost, n, NoLink)
  <2>1. e = DeletedIn(d, m, scope, n, op)
    BY ThroughForms
  <2> QED BY <2>1 DEF DeletedIn, Cleaned
<1>2. ASSUME NEW x \in hit PROVE \E p \in A : d[m][p].link[n] = <<kind, x>>
  <2>1. IsHeld(d, m, scope, n, kind, x)
    BY ReachedFacts
  <2> QED BY <2>1 DEF IsHeld
<1>3. kind \in Models
  OBVIOUS
<1> HIDE DEF hit, kind
<1>4. /\ Thins(left, d) /\ DOMAIN left[kind] = DOMAIN d[kind] \ hit
      /\ \A t \in Models : t # kind => left[t] = d[t]
  BY <1>3, WithoutFacts
<1> HIDE DEF left
<1>5. Shaped(left) /\ \A x \in DOMAIN d[m] \cap DOMAIN left[m] : left[m][x].plain = d[m][x].plain
  BY <1>4 DEF Thins
<1>6. A \subseteq DOMAIN d[m] /\ Q \cap DOMAIN d[m] = A \cap DOMAIN left[m] /\ Q \subseteq DOMAIN left[m]
  BY <1>5, ParentsStay
<1>7. Q \subseteq A
  BY <1>4, <1>6 DEF Thins
<1>8. lost \subseteq A
  BY <1>7
<1>9. \A p \in Q \ lost : left[m][p].link[n][1] = kind => Exists(left, m, p, n, kind)
  OBVIOUS
<1> HIDE DEF lost, Q, A
<1>10. Pointed(e, left, m, lost, n, NoLink)
  BY <1>1, <1>5, PointFacts
<1>11. \A t \in Models : DOMAIN e[t] = DOMAIN left[t]
  BY <1>10 DEF Pointed
<1>12. ASSUME NEW t \in Models, NEW x \in DOMAIN d[t]
       PROVE  \/ t = m /\ x \in A
              \/ x \in DOMAIN e[t] /\ e[t][x] = d[t][x]
              \/ t = kind /\ x \in hit
  <2>1. CASE x \in DOMAIN left[t]
    <3>1. left[t][x] = d[t][x] /\ x \in DOMAIN e[t]
      BY <1>4, <1>11, <2>1 DEF Thins
    <3>2. (t = m /\ x \in lost) \/ e[t][x] = left[t][x]
      BY <1>10, <2>1 DEF Pointed
    <3> QED BY <1>8, <3>1, <3>2
  <2>2. CASE x \notin DOMAIN left[t]
    BY <1>4, <2>2
  <2> QED BY <2>1, <2>2
<1>13. ASSUME NEW p \in A \cap DOMAIN e[m], Leads(d, m, p, n), kind # m PROVE Leads(e, m, p, n)
  <2> DEFINE link == d[m][p].link[n]
  <2>1. p \in Q /\ p \in DOMAIN left[m] /\ left[m][p] = d[m][p] /\ p \in DOMAIN d[m]
    BY <1>4, <1>6, <1>11, <1>13 DEF Thins
  <2>2. CASE p \in lost
    <3>1. e[m][p].link[n] = NoLink
      BY <1>10, <2>1, <2>2 DEF Pointed
    <3> QED BY <3>1 DEF Leads
  <2>3. CASE p \notin lost
    <3>1. e[m][p] = d[m][p]
      BY <1>10, <2>1, <2>3 DEF Pointed
    <3>2. link[1] = kind => Exists(left, m, p, n, kind)
      BY <1>9, <2>1, <2>3
    <3>3. Exists(left, m, p, n, kind) => link[2] \in DOMAIN left[kind]
      BY <1>13, <2>1 DEF Exists
    <3>4. link # NoLink => link[1] \in Models /\ link[2] \in DOMAIN d[link[1]]
      BY <1>13, <2>1 DEF Linked, Leads
    <3> HIDE DEF link
    <3>5. link # NoLink => link[2] \in DOMAIN e[link[1]]
      <4>1. CASE link[1] = kind
        BY <1>3, <1>11, <3>2, <3>3, <4>1
      <4>2. CASE link[1] # kind
        BY <1>4, <1>11, <3>4, <4>2
      <4> QED BY <4>1, <4>2
    <3> QED BY <3>1, <3>5 DEF Leads, link
  <2> QED BY <2>2, <2>3
<1>14. Follows(d, m, n, op, A, e)
  BY <1>2, <1>12, <1>13 DEF Follows, kind
<1>15. Linked(e, m, n)
  <2> SUFFICES ASSUME NEW r \in DOMAIN e[m], NEW link, link = e[m][r].link[n]
               PROVE  link = <<link[1], link[2]>> /\ (link = NoLink \/ link[1] \in Models)
    BY DEF Linked
  <2>1. r \in DOMAIN left[m] /\ r \in DOMAIN d[m] /\ left[m][r] = d[m][r]
    BY <1>4, <1>11 DEF Thins
  <2>2. link = NoLink \/ link = d[m][r].link[n]
    BY <1>10, <2>1 DEF Pointed
  <2> QED BY <2>1, <2>2 DEF Linked, NoLink
<1> QED BY <1>10, <1>14, <1>15 DEF Pointed, A

\* An operation through a link of a database whose records of its kind leave an id free.
LEMMA ThroughFollows ==
  ASSUME NEW d, Shaped(d), NEW m \in Models, NEW n \in LinkFields(m), Linked(d, m, n), NEW scope,
         NEW op, op.do \in {"create", "update", "delete"}, op.kind \in Models,
         \E x \in Spare : x \notin DOMAIN d[op.kind], NEW e \in Through(d, m, scope, n, op)
  PROVE  Shaped(e) /\ Linked(e, m, n) /\ Follows(d, m, n, op, ParentsIn(d, m, scope), e)
BY CreateFollows, UpdateFollows, DeleteFollows

\* An operation that follows the pairs still does so if the addressed records
\* got another plain column before it.
LEMMA FollowsAssigned ==
  ASSUME NEW d, NEW e, NEW f, NEW m \in Models, NEW n \in LinkFields(m), Linked(d, m, n),
         NEW op, op.kind \in Models, NEW A, A \subseteq DOMAIN d[m], Replaned(e, d, m, A),
         Follows(e, m, n, op, A, f)
  PROVE  Follows(d, m, n, op, A, f)
<1>1. \A t \in Models : DOMAIN e[t] = DOMAIN d[t] /\ \A x \in DOMAIN d[t] : e[t][x].link = d[t][x].link
  BY DEF Replaned
<1>2. ASSUME NEW t \in Models, NEW x \in DOMAIN d[t]
      PROVE  \/ t = m /\ x \in A
             \/ x \in DOMAIN f[t] /\ f[t][x] = d[t][x]
             \/ op.do # "create" /\ t = op.kind /\ \E p \in A : d[m][p].link[n] = <<t, x>>
  <2>1. \/ t = m /\ x \in A
        \/ x \in DOMAIN f[t] /\ f[t][x] = e[t][x]
        \/ op.do # "create" /\ t = op.kind /\ \E p \in A : e[m][p].link[n] = <<t, x>>
    BY <1>1 DEF Follows
  <2>2. (t = m /\ x \in A) \/ e[t][x] = d[t][x]
    BY DEF Replaned
  <2>3. \A p \in A : e[m][p].link[n] = d[m][p].link[n]
    BY <1>1
  <2> QED BY <2>1, <2>2, <2>3
<1>3. ASSUME NEW p \in A, Leads(d, m, p, n) PROVE Leads(e, m, p, n)
  <2> DEFINE link == d[m][p].link[n]
  <2>1. e[m][p].link[n] = link /\ (link = NoLink \/ link[1] \in Models)
    BY <1>1 DEF Linked
  <2>2. link = NoLink \/ link[2] \in DOMAIN d[link[1]]
    BY <1>3 DEF Leads
  <2> HIDE DEF link
  <2>3. link = NoLink \/ link[2] \in DOMAIN e[link[1]]
    BY <1>1, <2>1, <2>2
  <2> QED BY <2>1, <2>3 DEF Leads
<1>4. Fresh(e, f, op.kind) = Fresh(d, f, op.kind)
  BY <1>1 DEF Fresh
<1> QED BY <1>2, <1>3, <1>4 DEF Follows

\* It also does so if they get another plain column after it.
LEMMA AssignedFollows ==
  ASSUME NEW d, NEW e, NEW f, NEW m \in Models, NEW n \in LinkFields(m), NEW op, op.kind \in Models,
         NEW where, Follows(d, m, n, op, Selected(d, m, where), f), Linked(f, m, n),
         Replaned(e, f, m, Selected(f, m, where))
  PROVE  Follows(d, m, n, op, Selected(d, m, where), e)
<1> DEFINE A == Selected(d, m, where)
           B == Selected(f, m, where)
<1>1. \A t \in Models : DOMAIN e[t] = DOMAIN f[t] /\ \A x \in DOMAIN f[t] : e[t][x].link = f[t][x].link
  BY DEF Replaned
<1>2. \A x \in DOMAIN d[m] : x \in DOMAIN f[m] /\ f[m][x] = d[m][x] /\ x \in B => x \in A
  BY DEF Selected
<1>3. A \subseteq DOMAIN d[m]
  BY DEF Selected
<1> HIDE DEF A, B
<1>4. ASSUME NEW t \in Models, NEW x \in DOMAIN d[t]
      PROVE  \/ t = m /\ x \in A
             \/ x \in DOMAIN e[t] /\ e[t][x] = d[t][x]
             \/ op.do # "create" /\ t = op.kind /\ \E p \in A : d[m][p].link[n] = <<t, x>>
  <2>1. \/ t = m /\ x \in A
        \/ x \in DOMAIN f[t] /\ f[t][x] = d[t][x]
        \/ op.do # "create" /\ t = op.kind /\ \E p \in A : d[m][p].link[n] = <<t, x>>
    BY DEF Follows, A
  <2>2. CASE x \in DOMAIN f[t] /\ f[t][x] = d[t][x]
    <3>1. (t = m /\ x \in B) \/ e[t][x] = f[t][x]
      BY <2>2 DEF Replaned, B
    <3> QED BY <1>1, <1>2, <2>2, <3>1
  <2> QED BY <2>1, <2>2
<1>5. ASSUME NEW p \in DOMAIN f[m], Leads(f, m, p, n) PROVE Leads(e, m, p, n)
  <2> DEFINE link == f[m][p].link[n]
  <2>1. e[m][p].link[n] = link /\ (link = NoLink \/ link[1] \in Models)
    BY <1>1 DEF Linked
  <2>2. link = NoLink \/ link[2] \in DOMAIN f[link[1]]
    BY <1>5 DEF Leads
  <2> HIDE DEF link
  <2>3. link = NoLink \/ link[2] \in DOMAIN e[link[1]]
    BY <1>1, <2>1, <2>2
  <2> QED BY <2>1, <2>3 DEF Leads
<1>6. ASSUME NEW p \in A \cap DOMAIN e[m]
      PROVE  /\ Leads(d, m, p, n) /\ op.kind # m => Leads(e, m, p, n)
             /\ op.do = "create" => e[m][p].link[n] \in Fresh(d, e, op.kind)
  <2>1. p \in DOMAIN f[m] /\ e[m][p].link = f[m][p].link
    BY <1>1
  <2>2. /\ Leads(d, m, p, n) /\ op.kind # m => Leads(f, m, p, n)
        /\ op.do = "create" => f[m][p].link[n] \in Fresh(d, f, op.kind)
    BY <2>1 DEF Follows, A
  <2>3. Fresh(d, e, op.kind) = Fresh(d, f, op.kind)
    BY <1>1 DEF Fresh
  <2> QED BY <1>5, <2>1, <2>2, <2>3
<1>7. Follows(d, m, n, op, A, e)
  BY <1>4, <1>6 DEF Follows
<1> QED BY <1>7 DEF A

(***************************************************************************)
(* Every operation through a link follows the pairs.                       *)
(***************************************************************************)
\* What FieldsFollowTheirPair says of one mutation.
Obeyed(d, c, e) ==
  LET m == c.model
      n == c.field
      addressed == Addressed(d, c)
  IN (c.action = "update" => Cardinality(addressed) = 1) =>
       /\ Follows(d, m, n, c.op, addressed, e)
       /\ c.action = "create" =>
            \E x \in Fresh(d, e, m) : e[m][x[2]].link[n] \in Fresh(d, e, c.op.kind)

\* The schema it reads stays.
LEMMA ObeyedStays ==
  UNCHANGED loading =>
    (FieldsFollowTheirPair' <=>
       (verdict' = "ok" /\ change'.op.do \in {"create", "update", "delete"}
          /\ change'.action \in {"create", "update", "updateMany"}
        => Obeyed(prior', change', tables')))
<1> SUFFICES ASSUME UNCHANGED loading
             PROVE  FieldsFollowTheirPair' <=>
                      (verdict' = "ok" /\ change'.op.do \in {"create", "update", "delete"}
                         /\ change'.action \in {"create", "update", "updateMany"}
                       => Obeyed(prior', change', tables'))
  OBVIOUS
<1>1. Models' = Models
  BY DEF loading, Models
<1>2. Follows(prior, change.model, change.field, change.op, Addressed(prior, change), tables)'
        <=> Follows(prior', change'.model, change'.field, change'.op,
                    Addressed(prior', change'), tables')
  BY <1>1 DEF Follows
<1> QED BY <1>2 DEF FieldsFollowTheirPair, Obeyed

\* The requests considered: an operation on one of the links of a model.
Operates(c) ==
  /\ c.op.do \in {"create", "update", "delete"} /\ c.op.kind \in Models
  /\ c.model \in Models /\ c.field \in LinkFields(c.model)

\* The pairs of a database that fits the schema.
LEMMA FitsFacts ==
  ASSUME NEW d, Fits(d), NEW m \in Models, NEW n \in LinkFields(m)
  PROVE  /\ Shaped(d) /\ Linked(d, m, n)
         /\ \A kind \in Models : DOMAIN d[kind] = Records /\ \E x \in Spare : x \notin DOMAIN d[kind]
<1>1. Linked(d, m, n)
  <2> SUFFICES ASSUME NEW r \in Records, NEW link, link = d[m][r].link[n]
               PROVE  link = <<link[1], link[2]>> /\ (link = NoLink \/ link[1] \in Models)
    BY DEF Linked, Fits
  <2>1. Target(m, n, link)
    BY DEF Fits
  <2> QED BY <2>1 DEF Target, NoLink
<1> QED BY <1>1, LinksAssumption DEF Fits

\* An updateMany: through the links first, then its own assignments.
LEMMA UpdateManyObeys ==
  ASSUME NEW d, Fits(d), NEW c, c.action = "updateMany", Operates(c),
         NEW f \in Through(d, c.model, Filtered(c.where), c.field, c.op),
         NEW e, e = Assign(f, c.model, Selected(f, c.model, c.where), c.data, c.field, c.op)
  PROVE  Obeyed(d, c, e)
<1> DEFINE m == c.model
           n == c.field
           op == c.op
           where == c.where
           scope == Filtered(where)
<1>1. /\ op.do \in {"create", "update", "delete"} /\ op.kind \in Models
      /\ m \in Models /\ n \in LinkFields(m) /\ op.do \notin {"set", "unset"}
  BY DEF Operates
<1>2. ParentsIn(d, m, scope) = Selected(d, m, where)
  BY DEF ParentsIn, Filtered
<1>3. f \in Through(d, m, scope, n, op) /\ e = Assign(f, m, Selected(f, m, where), c.data, n, op)
  OBVIOUS
<1> HIDE DEF m, n, op, where, scope
<1>4. Shaped(d) /\ Linked(d, m, n) /\ \E x \in Spare : x \notin DOMAIN d[op.kind]
  BY <1>1, FitsFacts
<1>5. Shaped(f) /\ Linked(f, m, n) /\ Follows(d, m, n, op, Selected(d, m, where), f)
  BY <1>1, <1>2, <1>3, <1>4, ThroughFollows
<1>6. Replaned(e, f, m, Selected(f, m, where))
  BY <1>1, <1>3, <1>5, AssignFacts
<1>7. Follows(d, m, n, op, Selected(d, m, where), e)
  BY <1>1, <1>5, <1>6, AssignedFollows
<1> QED BY <1>7 DEF Obeyed, Addressed, m, n, op, where

\* An update: its own assignments first, then through the link of the one record.
LEMMA UpdateObeys ==
  ASSUME NEW d, Fits(d), NEW c, c.action = "update", Operates(c),
         NEW chosen, chosen = Selected(d, c.model, c.where), NEW first \in chosen,
         NEW f, f = Assign(d, c.model, chosen, c.data, c.field, c.op),
         NEW e \in Through(f, c.model, One(first), c.field, c.op)
  PROVE  Obeyed(d, c, e)
<1> DEFINE m == c.model
           n == c.field
           op == c.op
           where == c.where
           scope == One(first)
<1>1. /\ op.do \in {"create", "update", "delete"} /\ op.kind \in Models
      /\ m \in Models /\ n \in LinkFields(m) /\ op.do \notin {"set", "unset"}
  BY DEF Operates
<1>2. /\ chosen = Selected(d, m, where) /\ f = Assign(d, m, chosen, c.data, n, op)
      /\ e \in Through(f, m, scope, n, op)
  OBVIOUS
<1>3. ParentsIn(f, m, scope) = {first} \cap DOMAIN f[m]
  BY DEF ParentsIn, One
<1>4. SUFFICES ASSUME Cardinality(chosen) = 1 PROVE Follows(d, m, n, op, chosen, e)
  BY DEF Obeyed, Addressed
<1> HIDE DEF m, n, op, where, scope
<1>5. Shaped(d) /\ Linked(d, m, n) /\ DOMAIN d[op.kind] = Records /\ DOMAIN d[m] = Records
      /\ \E x \in Spare : x \notin DOMAIN d[op.kind]
  BY <1>1, FitsFacts
<1>6. chosen \subseteq DOMAIN d[m]
  BY <1>2 DEF Selected
<1>7. chosen = {first}
  <2>1. IsFiniteSet(chosen)
    BY <1>5, <1>6, LinksAssumption, FS_Subset
  <2>2. \E x : chosen = {x}
    BY <1>4, <2>1, FS_Singleton
  <2> QED BY <2>2
<1>8. Replaned(f, d, m, chosen)
  BY <1>1, <1>2, <1>5, AssignFacts
<1>9. /\ Shaped(f) /\ DOMAIN f[m] = DOMAIN d[m] /\ DOMAIN f[op.kind] = DOMAIN d[op.kind]
      /\ Linked(f, m, n) /\ ParentsIn(f, m, scope) = chosen
  <2>1. Shaped(f) /\ DOMAIN f[m] = DOMAIN d[m] /\ DOMAIN f[op.kind] = DOMAIN d[op.kind]
    BY <1>1, <1>8 DEF Replaned
  <2>2. Linked(f, m, n)
    BY <1>1, <1>5, <1>8 DEF Replaned, Linked
  <2> QED BY <1>3, <1>6, <1>7, <2>1, <2>2
<1>10. Follows(f, m, n, op, chosen, e)
  BY <1>1, <1>2, <1>5, <1>9, ThroughFollows
<1> QED BY <1>1, <1>5, <1>6, <1>8, <1>10, FollowsAssigned

\* A create: the record first, then through its links, of which it has none yet.
LEMMA CreateObeys ==
  ASSUME NEW d, Fits(d), NEW c, c.action = "create", Operates(c),
         NEW new, new = Inserted(d, c.model, c.data),
         NEW g, g = Assign(new.db, c.model, {new.id}, Absent, c.field, c.op),
         NEW e \in Through(g, c.model, One(new.id), c.field, c.op)
  PROVE  Obeyed(d, c, e)
<1> DEFINE m == c.model
           n == c.field
           op == c.op
           q == new.id
           scope == One(q)
           kind == op.kind
<1>1. /\ op.do \in {"create", "update", "delete"} /\ kind \in Models
      /\ m \in Models /\ n \in LinkFields(m) /\ op.do \notin {"set", "unset"}
  BY DEF Operates
<1>2. g = new.db /\ e \in Through(g, m, scope, n, op)
  BY <1>1 DEF Assign
<1>3. ParentsIn(g, m, scope) = {q} \cap DOMAIN g[m] /\ ~ scope.bulk
  BY DEF ParentsIn, One
<1>4. SUFFICES /\ Follows(d, m, n, op, {}, e)
               /\ \E x \in Fresh(d, e, m) : e[m][x[2]].link[n] \in Fresh(d, e, kind)
  BY DEF Obeyed, Addressed
<1>5. new = Inserted(d, m, c.data)
  OBVIOUS
<1> HIDE DEF m, n, op, q, scope, kind
<1>6. /\ Shaped(d) /\ Linked(d, m, n) /\ \E x \in Spare : x \notin DOMAIN d[m]
      /\ \A t \in Models : DOMAIN d[t] = Records
  BY <1>1, FitsFacts
<1>7. Joined(g, d, m, q)
  BY <1>1, <1>2, <1>5, <1>6, InsertFacts DEF q
<1>8. Shaped(g) /\ q \in DOMAIN g[m] /\ q \notin DOMAIN d[m] /\ g[m][q].link[n] = NoLink
  BY <1>1, <1>7, SMTT(30) DEF Joined
<1>9. Linked(g, m, n)
  <2> SUFFICES ASSUME NEW r \in DOMAIN g[m], NEW link, link = g[m][r].link[n]
               PROVE  link = <<link[1], link[2]>> /\ (link = NoLink \/ link[1] \in Models)
    BY DEF Linked
  <2>1. CASE r \in DOMAIN d[m]
    BY <1>1, <1>6, <1>7, <2>1 DEF Joined, Linked
  <2>2. CASE r \notin DOMAIN d[m]
    <3>1. link = NoLink
      BY <1>1, <1>7, <1>8, <2>2 DEF Joined
    <3> QED BY <3>1, SMTT(30) DEF NoLink
  <2> QED BY <2>1, <2>2
<1>10. /\ \E x \in Spare : x \notin DOMAIN g[kind]
       /\ Null \notin DOMAIN g[kind] /\ \A x \in DOMAIN d[kind] : x # Null
  <2>1. DOMAIN g[kind] \subseteq Records \cup {q} /\ q \in Spare
    <3>1. DOMAIN d[kind] = Records
      BY <1>1, <1>6
    <3>2. DOMAIN g[kind] = DOMAIN d[kind] \cup (IF kind = m THEN {q} ELSE {}) /\ q \in Spare
      BY <1>1, <1>7 DEF Joined
    <3> QED BY <3>1, <3>2
  <2>2. PICK x, y \in Spare : x # y
    BY LinksAssumption
  <2>3. x \notin Records /\ y \notin Records /\ Null \notin Records /\ Null # q
    BY <2>1, <2>2, LinksAssumption
  <2>4. x \notin DOMAIN g[kind] \/ y \notin DOMAIN g[kind]
    BY <2>1, <2>2, <2>3
  <2>5. DOMAIN d[kind] = Records
    BY <1>1, <1>6
  <2> QED BY <2>1, <2>2, <2>3, <2>4, <2>5
<1>11. op.do = "create"
  <2> SUFFICES ASSUME op.do # "create" PROVE FALSE
    OBVIOUS
  <2>1. PICK x : x \in Reached(g, m, scope, n, op)
    BY <1>1, <1>2, <1>3, ThroughForms, SMTT(30)
  <2>2. x \in DOMAIN g[kind] /\ IsHeld(g, m, scope, n, kind, x)
    BY <1>9, <2>1, ReachedFacts, SMTT(30) DEF kind
  <2>3. NoLink = <<kind, x>>
    BY <1>3, <1>8, <2>2 DEF IsHeld
  <2> QED BY <1>10, <2>2, <2>3 DEF NoLink
<1>12. /\ Follows(g, m, n, op, {q}, e) /\ q \in DOMAIN e[m]
       /\ \A t \in Models : DOMAIN g[t] \subseteq DOMAIN e[t]
  <2>1. ParentsIn(g, m, scope) = {q}
    BY <1>3, <1>8
  <2>2. op.kind \in Models /\ \E x \in Spare : x \notin DOMAIN g[op.kind]
    BY <1>1, <1>10 DEF kind
  <2>3. m \in Models /\ n \in LinkFields(m) /\ Shaped(g) /\ e \in Through(g, m, scope, n, op)
    BY <1>1, <1>2, <1>8
  <2>4. /\ Follows(g, m, n, op, ParentsIn(g, m, scope), e)
        /\ \A t \in Models : DOMAIN g[t] \subseteq DOMAIN e[t]
    BY <1>9, <1>11, <2>2, <2>3, CreateFollows, ZenonT(60)
  <2>5. q \in DOMAIN e[m]
    BY <1>8, <2>3, <2>4
  <2>6. Follows(g, m, n, op, {q}, e)
    BY <2>1, <2>4
  <2> QED BY <2>4, <2>5, <2>6
<1>13. ASSUME NEW t \in Models, NEW x \in DOMAIN d[t] PROVE x \in DOMAIN e[t] /\ e[t][x] = d[t][x]
  <2>1. x \in DOMAIN g[t] /\ g[t][x] = d[t][x] /\ ~ (t = m /\ x = q)
    BY <1>7, <1>8, <1>13 DEF Joined
  <2> QED BY <1>11, <1>12, <2>1 DEF Follows
<1>14. Follows(d, m, n, op, {}, e)
  BY <1>13 DEF Follows
<1>15. <<m, q>> \in Fresh(d, e, m)
  BY <1>8, <1>12 DEF Fresh
<1>16. e[m][q].link[n] \in Fresh(d, e, kind)
  <2>1. e[m][q].link[n] \in Fresh(g, e, kind)
    BY <1>11, <1>12 DEF Follows, kind
  <2>2. DOMAIN d[kind] \subseteq DOMAIN g[kind]
    BY <1>1, <1>7 DEF Joined
  <2> QED BY <2>1, <2>2 DEF Fresh
<1> QED BY <1>14, <1>15, <1>16

\* The operations through a link, one mutation at a time.
LEMMA ChangeObeys ==
  ASSUME LinkInv, NEW c, Change(c), verdict' = "ok", c.op.do \in {"create", "update", "delete"},
         c.action \in {"create", "update", "updateMany"}
  PROVE  Obeyed(tables, c, tables')
<1>1. tables # <<>> /\ verdict = "none"
  BY ChangeFacts
<1>2. Fits(tables)
  BY <1>1 DEF LinkInv
<1>3. Create(c) \/ Update(c) \/ UpdateMany(c)
  BY DEF Change, RefuseChange, Delete, DeleteMany
<1>4. Operates(c)
  BY <1>3 DEF Create, Update, UpdateMany, Refused, Unknown, OnLink, Operates
<1>5. CASE Create(c)
  <2> DEFINE new == Inserted(tables, c.model, c.data)
             g == Assign(new.db, c.model, {new.id}, Absent, c.field, c.op)
  <2>1. c.action = "create" /\ tables' \in Through(g, c.model, One(new.id), c.field, c.op)
    BY <1>5 DEF Create, Ends
  <2> HIDE DEF g
  <2>2. g = Assign(new.db, c.model, {new.id}, Absent, c.field, c.op)
    BY DEF g
  <2> HIDE DEF new
  <2>3. new = Inserted(tables, c.model, c.data)
    BY DEF new
  <2> QED BY <1>2, <1>4, <2>1, <2>2, <2>3, CreateObeys
<1>6. CASE Update(c)
  <2> DEFINE chosen == Selected(tables, c.model, c.where)
             f == Assign(tables, c.model, chosen, c.data, c.field, c.op)
  <2>1. PICK first \in chosen : tables' \in Through(f, c.model, One(first), c.field, c.op)
    BY <1>6 DEF Update, Ends
  <2>2. c.action = "update"
    BY <1>6 DEF Update
  <2> QED BY <1>2, <1>4, <2>1, <2>2, UpdateObeys
<1>7. CASE UpdateMany(c)
  <2>1. PICK f \in Through(tables, c.model, Filtered(c.where), c.field, c.op) :
          tables' = Assign(f, c.model, Selected(f, c.model, c.where), c.data, c.field, c.op)
    BY <1>7 DEF UpdateMany, Ends
  <2>2. c.action = "updateMany"
    BY <1>7 DEF UpdateMany
  <2> QED BY <1>2, <1>4, <2>1, <2>2, UpdateManyObeys
<1> QED BY <1>3, <1>5, <1>6, <1>7

\* A create, update or delete through a link reaches, of the other records, what
\* the addressed records' pairs hold, and leaves no pair of theirs dangling that
\* was not, unless its kind is their own.
THEOREM FieldsAreFollowed == LinkSpec => []FieldsFollowTheirPair
<1>1. Init /\ LinkInit => FieldsFollowTheirPair
  BY DEF LinkInit, FieldsFollowTheirPair
<1>2. LinkInv /\ FieldsFollowTheirPair /\ [LinkNext]_<<loading, linking>> => FieldsFollowTheirPair'
  <2> SUFFICES ASSUME LinkInv, FieldsFollowTheirPair, [LinkNext]_<<loading, linking>>
               PROVE  FieldsFollowTheirPair'
    OBVIOUS
  <2>1. CASE Load /\ UNCHANGED linking
    <3>1. verdict' # "ok"
      BY <2>1, AcceptedIsFinal DEF LinkInv, linking
    <3> QED BY <3>1 DEF FieldsFollowTheirPair
  <2>2. CASE ServeMutations
    <3>1. verdict' # "ok"
      BY <2>2 DEF ServeMutations
    <3> QED BY <3>1 DEF FieldsFollowTheirPair
  <2>3. CASE \E c \in Changes(text) : Change(c)
    <3>1. PICK c \in Changes(text) : Change(c)
      BY <2>3
    <3>2. UNCHANGED loading /\ change' = c /\ prior' = tables
      BY <3>1, ChangeFacts
    <3> QED BY <3>1, <3>2, ObeyedStays, ChangeObeys
  <2>4. CASE UNCHANGED <<loading, linking>>
    <3>1. UNCHANGED loading /\ UNCHANGED <<tables, prior, change, verdict>>
      BY <2>4 DEF linking
    <3>2. FieldsFollowTheirPair <=>
            (verdict = "ok" /\ change.op.do \in {"create", "update", "delete"}
               /\ change.action \in {"create", "update", "updateMany"}
             => Obeyed(prior, change, tables))
      BY DEF FieldsFollowTheirPair, Obeyed
    <3> QED BY <3>1, <3>2, ObeyedStays
  <2> QED BY <2>1, <2>2, <2>3, <2>4 DEF LinkNext
<1> QED BY <1>1, <1>2, LinksAreInvariant, PTL DEF LinkSpec
===============================================================================
