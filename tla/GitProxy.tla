------------------------------ MODULE GitProxy ------------------------------
(***************************************************************************)
(* `caqui git ...`: the schema is loaded and validated first, whatever git *)
(* is to do (main.rs), then parse_git_args looks for a merge, and then one *)
(* of three things happens: a merge with a strategy of the user's is       *)
(* refused, a command line with the word diff is answered by the report,   *)
(* and everything else is handed to git with the arguments as rewritten.   *)
(***************************************************************************)
EXTENDS Crystallization, SchemaReport

CONSTANTS
  ArgLists,      \* the command lines considered, each a sequence of words
  WorkTree,      \* the database of the working tree
  History        \* what a revision holds: a text and a database; a word that
                 \* is not in its domain names no revision

\* Command lines are sequences of words, revisions hold what the grammar can
\* deliver, and a table has finitely many rows.
ASSUME ProxyAssumption ==
  /\ \A words \in ArgLists : IsSequence(words)
  /\ \A ref \in DOMAIN History :
       LET t == History[ref].text IN IsSequence(t) /\ \A i \in DOMAIN t : WellFormed(t[i])
  /\ \A db \in {WorkTree} \cup {History[ref].db : ref \in DOMAIN History} :
       \A table \in DOMAIN db : IsFiniteSet(DOMAIN db[table].rows)

VARIABLES
  args,          \* the words after `caqui git`
  outcome        \* what became of the command

proxy == <<args, outcome>>

ValueFlags == {"-C", "-c", "--exec-path", "--git-dir", "--work-tree", "--namespace",
               "--super-prefix"}
Flags == ValueFlags \cup {"--no-pager", "-s", "--strategy", "--strategy=ours", "--abort", "-m",
                          "--stat"}
StrategyFlags == {"-s", "--strategy", "--strategy=ours"}

\* The loop over the words: at is the word it has come to, skip its skip_next.
\* (Mutant: the value of a flag is taken for the subcommand.)
SubcommandUnskipped(words) ==
  LET visit(scan, word) ==
        IF scan.found THEN scan
        ELSE [found |-> word \notin Flags, skip |-> FALSE, at |-> scan.at + 1]
      scan == FoldLeft(visit, [found |-> FALSE, skip |-> FALSE, at |-> 0], words)
  IN IF scan.found THEN scan.at ELSE 0

Visit(scan, word) ==
  IF scan.found THEN scan
  ELSE [found |-> ~scan.skip /\ word \notin Flags,
        skip |-> ~scan.skip /\ word \in ValueFlags,
        at |-> scan.at + 1]

\* The index of the first word that is no flag and no value of a flag, or 0.
Subcommand(words) ==
  LET scan == FoldLeft(Visit, [found |-> FALSE, skip |-> FALSE, at |-> 0], words)
  IN IF scan.found THEN scan.at ELSE 0

IsMerge(words) == Subcommand(words) # 0 /\ words[Subcommand(words)] = "merge"

OverridesStrategy(words) ==
  IsMerge(words) /\ \E i \in Subcommand(words) + 1 .. Len(words) : words[i] \in StrategyFlags

PassArgs(words) ==
  IF IsMerge(words)
  THEN LET i == Subcommand(words)
       IN SubSeq(words, 1, i) \o <<"-s", "sqlitevfs">> \o SubSeq(words, i + 1, Len(words))
  ELSE words

Nothing == [kind |-> "nothing"]

ProxyInit == Init /\ args = <<>> /\ outcome = Nothing

RefuseMerge ==
  /\ stage = "accepted" /\ outcome = Nothing
  /\ args' \in {words \in ArgLists : OverridesStrategy(words)}
  /\ outcome' = [kind |-> "refused"]
  /\ UNCHANGED loading

(***************************************************************************)
(* proxy_git_command and run_diff: the word diff anywhere in the arguments *)
(* asks for the report against the word after it.  A revision that cannot  *)
(* be extracted counts as an empty one.  When the databases cannot be      *)
(* attached the rows are left out; the report does not say so.             *)
(***************************************************************************)
AsksForDiff(words) == \E i \in DOMAIN words : words[i] = "diff"

OldRef(words) ==
  LET i == CHOOSE k \in DOMAIN words :
             words[k] = "diff" /\ \A j \in 1 .. k - 1 : words[j] # "diff"
  IN IF i = Len(words) THEN "HEAD" ELSE words[i + 1]

Extracted(ref) ==
  IF ref \in DOMAIN History THEN History[ref] ELSE [text |-> <<>>, db |-> <<>>]

OldAst(ref) ==
  IF Malformed(Extracted(ref).text) THEN NoAst ELSE ParseSchema(Extracted(ref).text)

InterceptDiff ==
  /\ stage = "accepted" /\ outcome = Nothing
  /\ \E words \in ArgLists, attached \in BOOLEAN :
       LET ref == OldRef(PassArgs(words))
           old == OldAst(ref)
       IN /\ ~OverridesStrategy(words) /\ AsksForDiff(PassArgs(words))
          /\ args' = words
          /\ \E rows \in IF attached
                         THEN RowReports(old, ast, Extracted(ref).db, WorkTree)
                         ELSE {[m \in Models |-> NoRows]} :
               outcome' = [kind |-> "report", ref |-> ref, attached |-> attached,
                           schema |-> SchemaDiff(old, ast), rows |-> rows]
  /\ UNCHANGED loading

SpawnGit ==
  /\ stage = "accepted" /\ outcome = Nothing
  /\ \E words \in ArgLists :
       /\ ~OverridesStrategy(words) /\ ~AsksForDiff(PassArgs(words))
       /\ args' = words
       /\ outcome' = [kind |-> "git", words |-> PassArgs(words)]
  /\ UNCHANGED loading

GitCommand == RefuseMerge \/ InterceptDiff \/ SpawnGit

-----------------------------------------------------------------------------
\* The proxy on its own: the schema is loaded, then one command is handled.
GitNext == (Load /\ UNCHANGED proxy) \/ GitCommand

GitSpec == ProxyInit /\ [][GitNext]_<<loading, proxy>>

\* Where the word after git's option at j stands; the value of the last flag
\* may be missing.
AfterOption(words, j) ==
  IF words[j] \in ValueFlags /\ j < Len(words) THEN j + 2 ELSE j + 1

\* The words before the i-th are git's own options and their values: each
\* option starts where the one before it ended, and i where the last one did.
OptionsEnd(words, i) ==
  \E starts \in SUBSET (1 .. i - 1) :
    /\ 1 \in starts \cup {i}
    /\ \A j \in starts : words[j] \in Flags /\ AfterOption(words, j) \in starts \cup {i}

\* Whatever flags stand before it, a merge reaches git with the sqlitevfs
\* strategy as its first option and with no strategy word of the user's after
\* it, and no other command is altered (git.rs 29-78).
MergesAreDriven ==
  outcome.kind = "git" =>
    \E i \in 1 .. Len(args) + 1 :
      /\ OptionsEnd(args, i)
      /\ i =< Len(args) => args[i] \notin Flags
      /\ IF i =< Len(args) /\ args[i] = "merge"
         THEN /\ SubSeq(outcome.words, i, i + 2) = <<"merge", "-s", "sqlitevfs">>
              /\ SubSeq(outcome.words, 1, i) \o SubSeq(outcome.words, i + 3, Len(outcome.words))
                   = args
              /\ \A j \in i + 3 .. Len(outcome.words) : outcome.words[j] \notin StrategyFlags
         ELSE outcome.words = args

Silent(report) ==
  /\ \A form \in DOMAIN report.schema : \A name \in DOMAIN report.schema[form] :
       report.schema[form][name] = {}
  /\ \A m \in DOMAIN report.rows : report.rows[m] = NoRows

SameLineages(a, b) ==
  /\ \A m \in DOMAIN a.models \cap DOMAIN b.models : a.models[m].extends = b.models[m].extends
  /\ \A m \in DOMAIN a.bases \cap DOMAIN b.bases : a.bases[m].extends = b.bases[m].extends

\* No shape of a schema writes a field twice: the report would compare the
\* last of them, the table is made of the first.
WrittenOnce(a) ==
  \A form \in {"models", "bases"} : \A name \in DOMAIN a[form] :
    LET fields == a[form][name].fields
    IN \A i, j \in DOMAIN fields : fields[i].name = fields[j].name => i = j

\* What a table's columns come from: the fields written for it and the marks
\* that make them unique, keys or tracked.
Shape(a, m) == {<<f.name, TypeShown(f.body), f.body.tags>> : f \in WrittenIn(a, m)}

\* "No differences found." can be relied on (diff.rs 75-276, 332-495): with
\* the extends clauses as they were and no field written twice before, every
\* model has the fields it had, those it inherits included; and, when the databases could be attached, its table
\* has the rows it had, with the values it had in every column both have.
SilentMeansSame ==
  (/\ outcome.kind = "report" /\ Silent(outcome)
   /\ SameLineages(OldAst(outcome.ref), ast) /\ WrittenOnce(OldAst(outcome.ref))) =>
    /\ Models = DOMAIN OldAst(outcome.ref).models
    /\ \A m \in Models : Shape(OldAst(outcome.ref), m) = Shape(ast, m)
    /\ outcome.attached =>
         \A m \in Models \cap DOMAIN WorkTree \cap DOMAIN Extracted(outcome.ref).db :
           LET before == Extracted(outcome.ref).db[m]
               after == WorkTree[m]
           IN /\ DOMAIN before.rows = DOMAIN after.rows
              /\ \A r \in DOMAIN after.rows :
                   \A c \in {k \in before.columns \cap after.columns : k[1] # "__"} :
                     before.rows[r][c] = after.rows[r][c]
=============================================================================
