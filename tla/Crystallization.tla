--------------------------- MODULE Crystallization ---------------------------
(***************************************************************************)
(* The way a schema is loaded (main.rs, then validate_schema): parsed,     *)
(* its names resolved, its bases sorted (Kahn) and flattened, its models   *)
(* given their synthetic fields, its relations checked, and the foreign    *)
(* keys injected.  The schema sits in HashMaps, so every loop whose        *)
(* outcome may depend on the order visits it in any order: the roots and   *)
(* the children of the sort, and the models whose keys are injected, where *)
(* a model is read after others have already received columns.  A loop     *)
(* that reads only what earlier passes made is one step.                   *)
(***************************************************************************)
EXTENDS SchemaAst

CONSTANTS
  Texts,         \* the schema.cq texts considered
  Alphabet       \* every model, base and field word, in name order

IsSequence(s) == s \in Seq(Range(s))

\* A name begins with a word of the alphabet, whatever is derived from it.
IsName(n) == IsSequence(n) /\ n # <<>> /\ n[1] \in Range(Alphabet)

\* What the grammar delivers: an item has one of its forms, and a shape has a
\* name, parents and fields in the order they are written in.
WellFormed(item) ==
  /\ item.form \in {"model", "base", "union", "enum", "garbage"}
  /\ item.form \in {"model", "base"} =>
       /\ item.name \in Range(Alphabet)
       /\ IsSequence(item.extends) /\ IsSequence(item.fields)
       /\ \A i \in DOMAIN item.fields : IsName(item.fields[i].name)
  /\ item.form = "union" => IsSequence(item.members)

ASSUME TextsAssumption ==
  /\ IsSequence(Alphabet)
  /\ \A t \in Texts : IsSequence(t) /\ \A i \in DOMAIN t : WellFormed(t[i])

VARIABLES
  text,          \* schema.cq
  ast,           \* its parsed form
  stage,         \* how far loading has come
  degree,        \* in_degree of the sort: extends clauses not yet served
  stack,         \* queue of the sort (a Vec popped from its end)
  sorted,        \* sorted_bases
  registry,      \* resolution_registry of the bases
  resolved,      \* resolved_bases and resolved_fields of the models
  visited        \* models whose keys have been injected

loading == <<text, ast, stage, degree, stack, sorted, registry, resolved, visited>>

Models == DOMAIN ast.models
Bases == DOMAIN ast.bases
Extends(b) == ast.bases[b].extends

Position(word) == CHOOSE i \in DOMAIN Alphabet : Alphabet[i] = word
Precedes(a, b) == Position(a) =< Position(b)

\* resolved_fields is sorted by name: the first of a set of (plain) names.
FirstOf(names) ==
  CHOOSE n \in names : \A o \in names : Precedes(n[1], o[1])

Orders(S) == {s \in [1 .. Cardinality(S) -> S] : Range(s) = S}

Init ==
  /\ text \in Texts
  /\ ast = NoAst
  /\ stage = "read"
  /\ degree = <<>> /\ stack = <<>> /\ sorted = <<>>
  /\ registry = <<>> /\ resolved = <<>> /\ visited = {}

ReadSchema ==
  /\ stage = "read"
  /\ IF Malformed(text)
     THEN stage' = "rejected" /\ UNCHANGED ast
     ELSE stage' = "resolve" /\ ast' = ParseSchema(text)
  /\ UNCHANGED <<text, degree, stack, sorted, registry, resolved, visited>>

(***************************************************************************)
(* Step 2.1: names are unique across the forms, shapes extend bases only,  *)
(* and a union lists no base.                                              *)
(***************************************************************************)
Duplicated ==
  \/ Models \cap Bases # {}
  \/ DOMAIN ast.unions \cap (Models \cup Bases) # {}
  \/ DOMAIN ast.enums \cap (Models \cup Bases \cup DOMAIN ast.unions) # {}

BadTarget ==
  \/ \E b \in Bases : ~(Range(Extends(b)) \subseteq Bases)
  \/ \E m \in Models : ~(Range(ast.models[m].extends) \subseteq Bases)
  \/ \E u \in DOMAIN ast.unions : Range(ast.unions[u]) \cap Bases # {}

\* (Mutant: a parent named twice is counted once.)
ResolveSymbolsOnce ==
  /\ stage = "resolve"
  /\ IF Duplicated \/ BadTarget
     THEN stage' = "rejected" /\ UNCHANGED <<degree, stack>>
     ELSE /\ stage' = "sort"
          /\ degree' = [b \in Bases |-> Cardinality(Range(Extends(b)))]
          /\ stack' \in Orders({b \in Bases : Extends(b) = <<>>})
  /\ UNCHANGED <<text, ast, sorted, registry, resolved, visited>>

ResolveSymbols ==
  /\ stage = "resolve"
  /\ IF Duplicated \/ BadTarget
     THEN stage' = "rejected" /\ UNCHANGED <<degree, stack>>
     ELSE /\ stage' = "sort"
          /\ degree' = [b \in Bases |-> Len(Extends(b))]
          /\ stack' \in Orders({b \in Bases : Extends(b) = <<>>})
  /\ UNCHANGED <<text, ast, sorted, registry, resolved, visited>>

(***************************************************************************)
(* Step 2.2: one base is popped and its children served, once for every    *)
(* time they name it; children that wait for nothing more are pushed.      *)
(***************************************************************************)
Served(child, parent) ==
  Cardinality({i \in DOMAIN Extends(child) : Extends(child)[i] = parent})

\* (Mutant: a child is ready when its first parent is.)
SortBaseEagerly ==
  /\ stage = "sort" /\ stack # <<>>
  /\ LET node == stack[Len(stack)]
         left == [b \in Bases |-> degree[b] - Served(b, node)]
     IN /\ degree' = left
        /\ sorted' = Append(sorted, node)
        /\ \E ready \in Orders({b \in Bases : left[b] # degree[b]}) :
             stack' = SubSeq(stack, 1, Len(stack) - 1) \o ready
  /\ UNCHANGED <<text, ast, stage, registry, resolved, visited>>

SortBase ==
  /\ stage = "sort" /\ stack # <<>>
  /\ LET node == stack[Len(stack)]
         left == [b \in Bases |-> degree[b] - Served(b, node)]
     IN /\ degree' = left
        /\ sorted' = Append(sorted, node)
        /\ \E ready \in Orders({b \in Bases : left[b] = 0 /\ degree[b] # 0}) :
             stack' = SubSeq(stack, 1, Len(stack) - 1) \o ready
  /\ UNCHANGED <<text, ast, stage, registry, resolved, visited>>

\* (Mutant: what the sort left behind is not noticed.)
SortEndsUnchecked ==
  /\ stage = "sort" /\ stack = <<>>
  /\ stage' = "flatten"
  /\ UNCHANGED <<text, ast, degree, stack, sorted, registry, resolved, visited>>

SortEnds ==
  /\ stage = "sort" /\ stack = <<>>
  /\ stage' = IF Len(sorted) # Cardinality(Bases) THEN "circular" ELSE "flatten"
  /\ UNCHANGED <<text, ast, degree, stack, sorted, registry, resolved, visited>>

(***************************************************************************)
(* Step 2.3: merge_field keeps the field met first and asks of a later one *)
(* only that its type and its optionality agree.                           *)
(***************************************************************************)
SameSignature(f, g) ==
  f.kind = g.kind /\ f.of = g.of /\ f.array = g.array /\ f.optional = g.optional

Merge(shape, bases, fields) ==
  [bases  |-> shape.bases \cup bases,
   fields |-> Over(shape.fields, fields),
   agreed |-> /\ shape.agreed
              /\ \A n \in DOMAIN shape.fields \cap DOMAIN fields :
                   SameSignature(shape.fields[n], fields[n])]

\* (Mutant: the parent's own bases are forgotten.)
MergeParentAlone(shape, parent) == Merge(shape, {parent}, registry[parent].fields)

MergeParent(shape, parent) ==
  Merge(shape, registry[parent].bases \cup {parent}, registry[parent].fields)

MergeField(shape, field) == Merge(shape, {}, Only(field.name, field.body))

Flattened(node) ==
  FoldLeft(MergeField,
           FoldLeft(MergeParent, [bases |-> {}, fields |-> <<>>, agreed |-> TRUE],
                    node.extends),
           node.fields)

FlattenBase ==
  /\ stage = "flatten" /\ DOMAIN registry # Bases
  /\ LET base == sorted[Cardinality(DOMAIN registry) + 1]
         shape == Flattened(ast.bases[base])
     IN IF shape.agreed
        THEN registry' = Over(registry, Only(base, shape)) /\ UNCHANGED stage
        ELSE stage' = "rejected" /\ UNCHANGED registry
  /\ UNCHANGED <<text, ast, degree, stack, sorted, resolved, visited>>

(***************************************************************************)
(* Steps 2.4 and 2.5: the synthetic fields of a model.                     *)
(***************************************************************************)
Marker(word) == <<"__", word>>
Tracker(name) == <<"__">> \o name \o <<"_updatedAt">>
KeyName(name) == name \o <<"Id">>
ReservedWords == {"id", "kind", "updatedAt"}

Column(of, optional, tags) == FieldBody("Scalar", of, FALSE, optional, tags, Absent)

IsIdBlock(b) == b[1] = "id"

IdType(m) ==
  LET ids == SelectSeq(ast.models[m].blocks, IsIdBlock)
  IN IF ids # <<>> /\ ids[Len(ids)][2] \in {"uuid", "cuid"} THEN "String" ELSE "Int"

Tracked(fields) == {n \in DOMAIN fields : "track" \in fields[n].tags}

Synthetic(m, shape) ==
  LET key == Only(Marker("id"), Column(IdType(m), FALSE, {"__id"}))
      markers == [n \in {Marker(w) : w \in shape.bases \cup {m}} |-> Column("Boolean", FALSE, {})]
      kind == Only(Marker("kind"), Column("String", FALSE, {}))
      isTracked == \E i \in DOMAIN ast.models[m].blocks : ast.models[m].blocks[i][1] = "track"
      stamp == [n \in IF isTracked THEN {Marker("updatedAt")} ELSE {} |->
                  Column("DateTime", FALSE, {})]
  IN Over(key, Over(markers, Over(kind, stamp)))

Clashes(m, shape) ==
  LET node == ast.models[m]
      taken == {Marker(w) : w \in shape.bases \cup {m} \cup ReservedWords}
  IN \/ ~shape.agreed
     \/ \E i \in DOMAIN node.fields : "__id" \in node.fields[i].body.tags
     \/ taken \cap DOMAIN shape.fields # {}
     \/ (shape.bases \cup {m}) \cap ReservedWords # {}
     \/ {Tracker(n) : n \in Tracked(shape.fields)}
          \cap (taken \cup DOMAIN shape.fields) # {}

Crystallize ==
  /\ stage = "flatten" /\ DOMAIN registry = Bases
  /\ LET shape == [m \in Models |-> Flattened(ast.models[m])]
     IN IF \E m \in Models : Clashes(m, shape[m])
        THEN stage' = "rejected" /\ UNCHANGED resolved
        ELSE /\ stage' = "check"
             /\ resolved' =
                  [m \in Models |->
                     [bases  |-> shape[m].bases,
                      fields |-> Over(Over(shape[m].fields, Synthetic(m, shape[m])),
                                     [n \in {Tracker(t) : t \in Tracked(shape[m].fields)} |->
                                        Column("DateTime", FALSE, {})])]]
  /\ UNCHANGED <<text, ast, degree, stack, sorted, registry, visited>>

(***************************************************************************)
(* Pass 2: union members, full text fields, optional arrays; a custom type *)
(* is an enum, a union, a base or a model, in this order.                  *)
(***************************************************************************)
Implementors(b) == {m \in Models : b \in resolved[m].bases}

KindOf(word) ==
  CASE word \in DOMAIN ast.enums -> "Enum"
    [] word \in DOMAIN ast.unions -> "Union"
    [] word \in Bases -> "Base"
    [] word \in Models -> "Relation"
    [] OTHER -> "Unknown"

FixedUp(f) == IF f.kind = "Relation" THEN [f EXCEPT !.kind = KindOf(f.of)] ELSE f

BadField(f) ==
  \/ f.optional /\ (f.array \/ "__id" \in f.tags)
  \/ f.kind = "Relation" /\ KindOf(f.of) = "Unknown"
  \/ f.kind = "Relation" /\ KindOf(f.of) = "Base" /\ Implementors(f.of) = {}

BadFullText(m) ==
  \E i \in DOMAIN ast.models[m].blocks :
    LET block == ast.models[m].blocks[i] IN
    /\ block[1] = "fulltext"
    /\ \/ block[2] = {}
       \/ \E n \in block[2] :
            \/ n \notin DOMAIN resolved[m].fields
            \/ LET f == resolved[m].fields[n] IN f.kind # "Scalar" \/ f.of # "String" \/ f.array

(***************************************************************************)
(* Pass 3, on the fixed-up fields: an array needs a singular field back,   *)
(* and several fields to one target need names; a name may come twice, on  *)
(* an array and on a singular field.                                       *)
(***************************************************************************)
PointsBack(f, m) ==
  /\ ~f.array
  /\ \/ f.kind = "Relation" /\ f.of = m
     \/ f.kind = "Base" /\ f.of \in resolved[m].bases

IsArray(f) == f.kind = "Relation" /\ f.array

RelationName(f) == IF f.relation = Absent THEN Absent ELSE f.relation.name

Dangling(fields, m) ==
  \E n \in DOMAIN fields[m] :
    /\ IsArray(fields[m][n])
    /\ LET target == fields[fields[m][n].of]
       IN \A o \in DOMAIN target : ~PointsBack(target[o], m)

Ambiguous(fields) ==
  \E t \in Models \cup Bases :
    LET group == {n \in DOMAIN fields : fields[n].kind \in {"Relation", "Base"} /\ fields[n].of = t}
        namesakes(n) == {o \in group : RelationName(fields[o]) = RelationName(fields[n])}
    IN /\ Cardinality(group) > 1
       /\ \E n \in group :
            \/ RelationName(fields[n]) = Absent
            \/ LET seen == FirstOf(namesakes(n))
               IN n # seen /\ IsArray(fields[n]) = IsArray(fields[seen])

\* The start of pass 4: a relation without the attribute gets an empty one.
WithAttribute(f) ==
  IF f.kind = "Relation" /\ f.relation = Absent
  THEN [f EXCEPT !.relation = [name |-> Absent, onDelete |-> Absent, onDisconnect |-> Absent]]
  ELSE f

CheckGraph ==
  /\ stage = "check"
  /\ LET fixed == [m \in Models |-> [n \in DOMAIN resolved[m].fields |->
                                       FixedUp(resolved[m].fields[n])]]
     IN IF \/ \E u \in DOMAIN ast.unions : ~(Range(ast.unions[u]) \subseteq Models \cup Bases)
           \/ \E m \in Models :
                \/ BadFullText(m)
                \/ \E n \in DOMAIN resolved[m].fields : BadField(resolved[m].fields[n])
           \/ \E m \in Models : Dangling(fixed, m) \/ Ambiguous(fixed[m])
        THEN stage' = "rejected" /\ UNCHANGED resolved
        ELSE /\ stage' = "inject"
             /\ resolved' = [m \in Models |->
                               [bases  |-> resolved[m].bases,
                                fields |-> [n \in DOMAIN fixed[m] |-> WithAttribute(fixed[m][n])]]]
  /\ UNCHANGED <<text, ast, degree, stack, sorted, registry, visited>>

(***************************************************************************)
(* Pass 4, one model: every singular relation gets the name of the column  *)
(* that holds its key, on whichever side that column is, and the model the *)
(* columns it owns and does not declare.  The model itself is read as it   *)
(* was, the other models with the columns already given to them.           *)
(***************************************************************************)
Reverses(m, name) ==
  LET f == resolved[m].fields[name]
      target == resolved[f.of].fields
  IN {n \in DOMAIN target : /\ target[n].kind = "Relation" /\ target[n].of = m
                            /\ target[n].relation.name = f.relation.name}

\* (Mutant: undecided, both sides own the key.)
OwnsKeyTwice(m, name) ==
  LET t == resolved[m].fields[name].of
      reverse == FirstOf(Reverses(m, name))
      here == KeyName(name) \in DOMAIN resolved[m].fields
      there == KeyName(reverse) \in DOMAIN resolved[t].fields
  IN \/ Reverses(m, name) = {}
     \/ resolved[t].fields[reverse].array
     \/ (here <=> there)
     \/ here

OwnsKey(m, name) ==
  LET t == resolved[m].fields[name].of
      reverse == FirstOf(Reverses(m, name))
      here == KeyName(name) \in DOMAIN resolved[m].fields
      there == KeyName(reverse) \in DOMAIN resolved[t].fields
  IN \/ Reverses(m, name) = {}
     \/ resolved[t].fields[reverse].array
     \/ (here /\ ~there)
     \/ ((here <=> there) /\ Precedes(m, t))

SingularKey(m, name) ==
  IF OwnsKey(m, name) THEN KeyName(name) ELSE KeyName(FirstOf(Reverses(m, name)))

\* (Mutant: the key is named after the array.)
ArrayKeyOwn(m, name) == KeyName(name)

ArrayKey(m, name) ==
  LET t == resolved[m].fields[name].of
      singular == {n \in Reverses(m, name) : ~resolved[t].fields[n].array}
  IN IF singular = {} THEN Absent ELSE KeyName(FirstOf(singular))

Keyed(m, name) ==
  LET f == resolved[m].fields[name]
  IN CASE f.kind # "Relation" -> f
       [] f.array -> [f EXCEPT !.key = ArrayKey(m, name)]
       [] OTHER -> [f EXCEPT !.key = SingularKey(m, name)]

Injected(m) ==
  LET fields == resolved[m].fields
      owners == {n \in DOMAIN fields : /\ fields[n].kind = "Relation" /\ ~fields[n].array
                                       /\ OwnsKey(m, n)}
      relationOf(c) == CHOOSE n \in owners : KeyName(n) = c
  IN [c \in {KeyName(n) : n \in owners} \ DOMAIN fields |->
        Column(IdType(fields[relationOf(c)].of), fields[relationOf(c)].optional, {})]

InjectKeys(m) ==
  /\ stage = "inject" /\ m \in Models \ visited
  /\ resolved' = [resolved EXCEPT ![m].fields =
                    Over([n \in DOMAIN @ |-> Keyed(m, n)], Injected(m))]
  /\ visited' = visited \cup {m}
  /\ UNCHANGED <<text, ast, stage, degree, stack, sorted, registry>>

\* Pass 5.
BadDisconnect(f) ==
  /\ f.relation # Absent /\ f.relation.onDisconnect # Absent
  /\ \/ f.relation.onDisconnect \notin {"Delete", "SetNull", "Restrict"}
     \/ /\ f.relation.onDisconnect = "Delete"
        /\ f.kind = "Relation" /\ ~f.array /\ ~f.optional

ValidateRelations ==
  /\ stage = "inject" /\ visited = Models
  /\ stage' = IF \E m \in Models : \E n \in DOMAIN resolved[m].fields :
                   BadDisconnect(resolved[m].fields[n])
              THEN "rejected" ELSE "accepted"
  /\ UNCHANGED <<text, ast, degree, stack, sorted, registry, resolved, visited>>

Load ==
  \/ ReadSchema \/ ResolveSymbols \/ SortBase \/ SortEnds \/ FlattenBase
  \/ Crystallize \/ CheckGraph \/ ValidateRelations
  \/ \E m \in Models : InjectKeys(m)

LoadSpec == Init /\ [][Load]_loading

-----------------------------------------------------------------------------
(***************************************************************************)
(* Properties.                                                             *)
(***************************************************************************)
\* The types of the sort's working state and of what the passes hand over.
TypeOK ==
  /\ text \in Texts
  /\ stage \in {"read", "resolve", "sort", "circular", "flatten", "check", "inject",
                "accepted", "rejected"}
  /\ degree \in [DOMAIN degree -> Nat] /\ DOMAIN degree \subseteq Bases
  /\ Range(stack) \subseteq Bases /\ Range(sorted) \subseteq Bases
  /\ DOMAIN registry \subseteq Bases
  /\ resolved # <<>> => DOMAIN resolved = Models
  /\ visited \subseteq Models

\* Kahn's loop (validation.rs 96-107): a base is put out after every base it
\* extends, once, and what waits on the stack is exactly what is ready.
ParentsFirst ==
  stage # "read" =>
    /\ \A i, j \in DOMAIN sorted : sorted[i] = sorted[j] => i = j
    /\ \A i \in DOMAIN sorted : \A p \in Range(Extends(sorted[i])) :
         \E j \in 1 .. i - 1 : sorted[j] = p
    /\ stage = "sort" =>
         Range(stack) = {b \in Bases : /\ Range(Extends(b)) \subseteq Range(sorted)
                                       /\ b \notin Range(sorted)}

\* The bases reached from a sequence of parents, by repeated extension.
Lineage(a, parents) ==
  LET grow[k \in Nat] ==
        IF k = 0 THEN Range(parents) \cap DOMAIN a.bases
        ELSE LET reached == UNION {Range(a.bases[b].extends) : b \in grow[k - 1]}
             IN grow[k - 1] \cup (reached \cap DOMAIN a.bases)
  IN grow[Cardinality(DOMAIN a.bases)]

\* A schema is refused for circular inheritance exactly when a base extends
\* itself through others (validation.rs 109-111): a base that is merely left
\* behind by a miscounted in_degree would be refused too.
OnlyCyclesRefused ==
  /\ stage = "circular" => \E b \in Bases : b \in Lineage(ast, Extends(b))
  /\ stage \in {"flatten", "check", "inject", "accepted"} =>
       \A b \in Bases : b \notin Lineage(ast, Extends(b))

WrittenIn(a, m) ==
  LET node == a.models[m]
  IN Range(node.fields)
       \cup UNION {Range(a.bases[b].fields) : b \in Lineage(a, node.extends)}

\* Every model ends with the bases of its whole lineage and with every field
\* written in it or in one of them, type and optionality unchanged, whatever
\* order the bases were flattened in (validation.rs 134-189).
FieldsAreInherited ==
  stage = "accepted" =>
    \A m \in Models :
      /\ resolved[m].bases = Lineage(ast, ast.models[m].extends)
      /\ \A f \in WrittenIn(ast, m) :
           /\ f.name \in DOMAIN resolved[m].fields
           /\ LET r == resolved[m].fields[f.name]
              IN r.of = f.body.of /\ r.array = f.body.array /\ r.optional = f.body.optional

\* The singular relations m.n and t.o that one name pairs, and nothing else.
RelationsNamed(m, t, word) ==
  {n \in DOMAIN resolved[m].fields :
     LET f == resolved[m].fields[n]
     IN f.kind = "Relation" /\ f.of = t /\ RelationName(f) = word}

Paired(m, n, o) ==
  LET f == resolved[m].fields[n]
  IN /\ f.kind = "Relation"
     /\ RelationsNamed(m, f.of, RelationName(f)) = {n}
     /\ RelationsNamed(f.of, m, RelationName(f)) = {o}

\* m has the column before any key is injected: it is written in m or in a base,
\* or it is a marker (the key of a field called __ is that of a base called Id).
Declares(m, name) ==
  \/ \E f \in WrittenIn(ast, m) : f.name = name
  \/ name \in {Marker(w) : w \in resolved[m].bases \cup {m}}

\* m holds the key of the 1:1 relation that pairs m.n with t.o: the schema
\* declares the column on this side only, or m's name comes first.
HoldsKey(m, n, t, o) ==
  LET here == Declares(m, KeyName(n))
      there == Declares(t, KeyName(o))
  IN (here /\ ~there) \/ ((here <=> there) /\ Precedes(m, t))

\* A 1:1 relation has one key, the same whatever order the models were visited
\* in (validation.rs 553-580): the column the schema declares on one side
\* only, and otherwise one on the model whose name comes first; both fields
\* name it, its owner has it, and the other side gets no column.
OneToOneHasOneKey ==
  stage = "accepted" =>
    \A m \in Models : \A n \in DOMAIN resolved[m].fields :
      LET f == resolved[m].fields[n] IN
      \A o \in IF f.kind = "Relation" THEN DOMAIN resolved[f.of].fields ELSE {} :
        LET g == resolved[f.of].fields[o]
            holder == HoldsKey(m, n, f.of, o)
        IN (Paired(m, n, o) /\ ~f.array /\ ~g.array /\ m # f.of) =>
             /\ f.key = g.key
             /\ f.key = IF holder THEN KeyName(n) ELSE KeyName(o)
             /\ KeyName(n) \in DOMAIN resolved[m].fields
                  <=> holder \/ Declares(m, KeyName(n))

\* A 1:N relation is held by its singular side: both fields name the same
\* column and it is a column of the many side, visited before or after
\* (validation.rs 549-552 and 600-640).
ArraysFollowTheirKey ==
  stage = "accepted" =>
    \A m \in Models : \A n \in DOMAIN resolved[m].fields :
      LET f == resolved[m].fields[n] IN
      IsArray(f) =>
        \A o \in DOMAIN resolved[f.of].fields :
          (Paired(m, n, o) /\ ~resolved[f.of].fields[o].array) =>
            /\ f.key = KeyName(o) /\ resolved[f.of].fields[o].key = f.key
            /\ f.key \in DOMAIN resolved[f.of].fields
=============================================================================
