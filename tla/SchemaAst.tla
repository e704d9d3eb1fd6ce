------------------------------ MODULE SchemaAst ------------------------------
(***************************************************************************)
(* From the items of a schema.cq text to the AST (parser.rs).  The         *)
(* character level is the parser generator's; an item is what the grammar  *)
(* delivers: a form, a name, and the words under it.  An AST keeps one     *)
(* node per name and form, so a repeated item replaces the earlier one.    *)
(*                                                                         *)
(* A name is a tuple of words (<<"author">>, <<"author", "Id">>,           *)
(* <<"__", "kind">>), so that derived names can be formed and compared.    *)
(***************************************************************************)
EXTENDS Integers, FiniteSets, TLC, SequencesExt, Maps

CONSTANTS
  Absent         \* None: no relation attribute, no name in it, no key

Scalars == {"String", "Int", "Float", "Boolean", "DateTime"}

\* Attributes the parser keeps; @default, @id and any other word is skipped.
KnownTags == {"__id", "unique", "track"}

IdFuncs == {"autoincrement", "uuid", "cuid"}

FieldBody(kind, of, array, optional, tags, relation) ==
  [kind |-> kind, of |-> of, array |-> array, optional |-> optional,
   tags |-> tags, relation |-> relation, key |-> Absent]

(***************************************************************************)
(* parse_field_def.  The arguments of @relation other than name, onDelete, *)
(* onDisconnect and owner are refused (Unsupported); owner is read and     *)
(* used nowhere.                                                           *)
(***************************************************************************)
Unsupported(w) ==
  w.relation # Absent /\ w.relation.others # {}

ParseField(w) ==
  [name |-> w.name,
   body |-> FieldBody(IF w.word \in Scalars THEN "Scalar" ELSE "Relation",
                      w.word, w.array, w.optional, w.tags \cap KnownTags,
                      IF w.relation = Absent THEN Absent
                      ELSE [name |-> w.relation.name,
                            onDelete |-> w.relation.onDelete,
                            onDisconnect |-> w.relation.onDisconnect])]

\* A block attribute: a pair of its word and its argument; an @@id whose
\* argument is not a known function counts as autoincrement.
ParseBlock(b) ==
  IF b[1] = "id" /\ b[2] \notin IdFuncs THEN <<"id", "autoincrement">> ELSE b

IsKeptBlock(b) == b[1] \in {"id", "track", "fulltext"}

Node(item) ==
  [fields  |-> [i \in DOMAIN item.fields |-> ParseField(item.fields[i])],
   extends |-> item.extends,
   blocks  |-> IF item.form = "base" THEN <<>>
               ELSE LET kept == SelectSeq(item.blocks, IsKeptBlock)
                    IN [i \in DOMAIN kept |-> ParseBlock(kept[i])]]

NoAst == [models |-> <<>>, bases |-> <<>>, unions |-> <<>>, enums |-> <<>>]

\* HashMap::insert: the last item of a name and form is the one that stays.
InsertItem(ast, item) ==
  CASE item.form = "model" -> [ast EXCEPT !.models = Over(Only(item.name, Node(item)), @)]
    [] item.form = "base"  -> [ast EXCEPT !.bases = Over(Only(item.name, Node(item)), @)]
    [] item.form = "union" -> [ast EXCEPT !.unions = Over(Only(item.name, item.members), @)]
    [] item.form = "enum"  -> [ast EXCEPT !.enums = Over(Only(item.name, item.members), @)]

Malformed(text) ==
  \E i \in DOMAIN text :
    \/ text[i].form = "garbage"
    \/ \E j \in DOMAIN text[i].fields : Unsupported(text[i].fields[j])

ParseSchema(text) == FoldLeft(InsertItem, NoAst, text)
=============================================================================
