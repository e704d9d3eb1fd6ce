--------------------------- MODULE LoadInvariant ----------------------------
(***************************************************************************)
(* The inductive invariant of the loading of a schema, pass by pass.       *)
(***************************************************************************)
EXTENDS Crystallization

IsField(f) ==
  f = [kind |-> f.kind, of |-> f.of, array |-> f.array, optional |-> f.optional,
       tags |-> f.tags, relation |-> f.relation, key |-> f.key]

IsNode(node) ==
  /\ IsSequence(node.extends) /\ IsSequence(node.fields)
  /\ \A i \in DOMAIN node.fields :
       /\ IsName(node.fields[i].name) /\ IsField(node.fields[i].body)
       /\ node.fields[i].body.kind \in {"Scalar", "Relation"}

IsAst(a) ==
  /\ a = [models |-> a.models, bases |-> a.bases, unions |-> a.unions, enums |-> a.enums]
  /\ IsFiniteSet(DOMAIN a.bases)
  /\ \A b \in DOMAIN a.bases : IsNode(a.bases[b])
  /\ \A m \in DOMAIN a.models : m \in Range(Alphabet) /\ IsNode(a.models[m])
  /\ \A u \in DOMAIN a.unions : IsSequence(a.unions[u])

\* The bases that wait for nothing more when those of done have been put out.
Ready(done) == {b \in Bases : Range(Extends(b)) \subseteq done /\ b \notin done}

\* What of b's clauses the sort has not served yet.
Unserved(b, done) == {i \in DOMAIN Extends(b) : Extends(b)[i] \notin done}

ParentsEarlier ==
  \A i \in DOMAIN sorted : \A p \in Range(Extends(sorted[i])) :
    \E j \in 1 .. i - 1 : sorted[j] = p

Unsorted == {"read", "resolve"}
Flat == {"flatten", "check", "inject", "accepted"}

ReadInv ==
  /\ stage \in Unsorted \cup {"sort", "circular", "rejected"} \cup Flat
  /\ text \in Texts /\ IsAst(ast)
  /\ stage = "read" => ast = NoAst
  /\ stage \in {"sort", "circular"} \cup Flat => ~ Duplicated /\ ~ BadTarget

SortInv ==
  /\ sorted \in Seq(Bases) /\ IsInjective(sorted) /\ ParentsEarlier
  /\ stack \in Seq(Bases) /\ degree \in [DOMAIN degree -> Nat] /\ DOMAIN degree \subseteq Bases
  /\ stage \in Unsorted => sorted = <<>> /\ stack = <<>> /\ degree = <<>>
  /\ stage = "sort" =>
       /\ IsInjective(stack) /\ Range(stack) = Ready(Range(sorted))
       /\ degree = [b \in Bases |-> Cardinality(Unserved(b, Range(sorted)))]
  /\ stage = "circular" => Range(sorted) # Bases /\ Ready(Range(sorted)) = {}
  /\ stage \in Flat => Range(sorted) = Bases

\* What a node writes itself or inherits.
Written(node) ==
  Range(node.fields)
    \cup UNION {Range(ast.bases[b].fields) : b \in Lineage(ast, node.extends)}

\* The flattened shape of a node: its whole lineage and its written fields,
\* each with the type and optionality it is written with.
Faithful(shape, node) ==
  /\ shape.bases = Lineage(ast, node.extends)
  /\ DOMAIN shape.fields = {f.name : f \in Written(node)}
  /\ \A f \in Written(node) : SameSignature(shape.fields[f.name], f.body)
  /\ \A n \in DOMAIN shape.fields : IsName(n) /\ IsField(shape.fields[n])

FlattenInv ==
  /\ DOMAIN registry \subseteq Bases
  /\ stage \notin Flat \cup {"rejected"} => registry = <<>>
  /\ stage \in Flat =>
       /\ \E k \in 0 .. Len(sorted) : DOMAIN registry = {sorted[j] : j \in 1 .. k}
       /\ \A b \in DOMAIN registry : Faithful(registry[b], ast.bases[b])
  /\ stage \in Flat \ {"flatten"} => DOMAIN registry = Bases

\* What every pass after Crystallize keeps of a model.
Inherits(m) ==
  /\ resolved[m] = [bases |-> resolved[m].bases, fields |-> resolved[m].fields]
  /\ resolved[m].bases = Lineage(ast, ast.models[m].extends)
  /\ \A n \in DOMAIN resolved[m].fields :
       /\ IsField(resolved[m].fields[n])
       /\ resolved[m].fields[n].kind # "Scalar" => IsName(n)
  /\ \A f \in WrittenIn(ast, m) :
       /\ f.name \in DOMAIN resolved[m].fields
       /\ LET r == resolved[m].fields[f.name]
          IN r.of = f.body.of /\ r.array = f.body.array /\ r.optional = f.body.optional

\* Before keys are injected, the only key columns are the declared ones.
Undisturbed(m) ==
  \A n : IsName(n) => (KeyName(n) \in DOMAIN resolved[m].fields <=> Declares(m, KeyName(n)))

\* After the graph is checked, a relation leads to a model and has a name.
Related(m) ==
  \A n \in DOMAIN resolved[m].fields :
    LET f == resolved[m].fields[n]
    IN f.kind = "Relation" => f.of \in Models /\ f.relation.name = RelationName(f)

\* What a model has of the relation that pairs m.n with o once it is visited.
Settled(m, n, o) ==
  LET f == resolved[m].fields[n]
      g == resolved[f.of].fields[o]
      has == KeyName(n) \in DOMAIN resolved[m].fields
  IN /\ f.array /\ ~ g.array => f.key = KeyName(o)
     /\ ~ f.array /\ g.array => f.key = KeyName(n) /\ has
     /\ ~ f.array /\ ~ g.array /\ m # f.of =>
          LET holder == HoldsKey(m, n, f.of, o)
          IN /\ f.key = IF holder THEN KeyName(n) ELSE KeyName(o)
             /\ has <=> holder \/ Declares(m, KeyName(n))

ModelInv ==
  /\ visited \subseteq Models
  /\ resolved # <<>> => DOMAIN resolved = Models
  /\ stage \in Unsorted \cup {"sort", "circular", "flatten"} => resolved = <<>>
  /\ stage \notin {"inject", "accepted", "rejected"} => visited = {}
  /\ stage \in {"check", "inject", "accepted"} =>
       /\ DOMAIN resolved = Models
       /\ \A m \in Models : Inherits(m) /\ (m \notin visited => Undisturbed(m))
  /\ stage \in {"inject", "accepted"} =>
       \A m \in Models :
         /\ Related(m)
         /\ m \in visited =>
              \A n \in DOMAIN resolved[m].fields : \A o : Paired(m, n, o) => Settled(m, n, o)
  /\ stage = "accepted" => visited = Models

\* The models' fields: finitely many, of the parser's two kinds at first, and
\* once the graph is checked, of the kind Base only if they are of no union; a
\* union then has models as members.
GraphInv ==
  stage \in {"check", "inject", "accepted"} =>
    /\ \A m \in Models :
         /\ IsFiniteSet(DOMAIN resolved[m].fields)
         /\ \A n \in DOMAIN resolved[m].fields :
              LET f == resolved[m].fields[n]
              IN IF stage = "check" THEN f.kind \in {"Scalar", "Relation"}
                 ELSE f.kind = "Base" => f.of \notin DOMAIN ast.unions
    /\ stage # "check" => \A u \in DOMAIN ast.unions : Range(ast.unions[u]) \subseteq Models

LoadInv == ReadInv /\ SortInv /\ FlattenInv /\ ModelInv
=============================================================================
