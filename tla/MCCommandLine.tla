---------------------------- MODULE MCCommandLine ----------------------------
(***************************************************************************)
(* The instance the loader, the git proxy and the reads are checked on:    *)
(* every way three bases can extend each other, every way two models can   *)
(* point at each other under up to two relation names with the key columns *)
(* declared or not, and single schemas for the passes in between; reads of *)
(* every relation there is between two models, of a self relation, and of  *)
(* bases and unions; and mutations of links that lead to one of several    *)
(* models.                                                                 *)
(***************************************************************************)
EXTENDS CommandLine

Item(form, name, extends, fields, blocks, members) ==
  [form |-> form, name |-> name, extends |-> extends, fields |-> fields,
   blocks |-> blocks, members |-> members]
Base(name, extends, fields) == Item("base", name, extends, fields, <<>>, <<>>)
Model(name, extends, fields) == Item("model", name, extends, fields, <<>>, <<>>)
ModelWith(name, fields, blocks) == Item("model", name, <<>>, fields, blocks, <<>>)
Union(name, members) == Item("union", name, <<>>, <<>>, <<>>, members)
Enum(name, members) == Item("enum", name, <<>>, <<>>, <<>>, members)

Field(name, word) ==
  [name |-> <<name>>, word |-> word, array |-> FALSE, optional |-> FALSE, tags |-> {},
   relation |-> Absent]
Optional(f) == [f EXCEPT !.optional = TRUE]
Array(f) == [f EXCEPT !.array = TRUE]
Tagged(f, tags) == [f EXCEPT !.tags = tags]
Args(name, onDisconnect, others) ==
  [name |-> name, onDelete |-> Absent, onDisconnect |-> onDisconnect, others |-> others]
Named(f, name) == [f EXCEPT !.relation = Args(name, Absent, {})]
Disconnects(f, value) == [f EXCEPT !.relation = Args(Absent, value, {})]
Key(f) == [f EXCEPT !.name = @ \o <<"Id">>]

Title == Field("title", "String")

\* Three bases, each extending none, either or both of the others, two of them
\* also the first one twice, and a model that extends one or two of them; a
\* field written twice agrees or not.
BaseNames == {"Node", "Owned", "Stamped"}
Parents(b) ==
  {<<>>} \cup {<<o>> : o \in BaseNames \ {b}} \cup
  {CHOOSE s \in [1 .. 2 -> BaseNames \ {b}] : s[1] # s[2]} \cup
  {<<"Node", "Node">> : o \in {b} \ {"Node"}}
Inheritance ==
  {<<Base("Node", n, <<Title>>), Base("Owned", o, <<f, Field("owner", "Int")>>),
     Base("Stamped", s, <<Tagged(Field("at", "DateTime"), {"track"})>>),
     Model("Post", m, <<Field("text", "String")>>)>> :
     n \in Parents("Node"), o \in Parents("Owned"), s \in Parents("Stamped"),
     f \in {Title, Optional(Title)},
     m \in {<<"Stamped">>, <<"Owned", "Stamped">>, <<"Owned", "Owned">>}}

\* Two models and the relations between them.
Names == {Absent, "x", "y"}
Maybe(f, names) == {<<>>} \cup {<<IF n = Absent THEN f ELSE Named(f, n)>> : n \in names}
MaybeKey(f) == {<<>>, <<Key(f)>>}
Pinned == Field("pinned", "Post")
Writer == Field("writer", "Author")
Relations ==
  {<<Model("Author", <<>>, posts \o pinned \o pinnedKey),
     Model("Post", <<>>, writer \o editor \o writerKey)>> :
     posts \in Maybe(Array(Field("posts", "Post")), Names),
     pinned \in Maybe(Optional(Pinned), Names),
     writer \in Maybe(Writer, Names),
     editor \in Maybe(Optional(Field("editor", "Author")), {"x", "y"}),
     pinnedKey \in MaybeKey(Optional(Field("pinned", "Int"))),
     writerKey \in MaybeKey(Field("writer", "Int"))}

\* Self relations, polymorphic targets, and what each pass refuses.
Blog == <<Enum("Role", <<"admin", "guest">>),
          Base("Node", <<>>, <<Tagged(Title, {"unique", "default"})>>)>>
Single ==
  {Blog \o rest : rest \in {
     <<ModelWith("Author", <<Title, Field("role", "Role")>>,
                 <<<<"id", "uuid">>, <<"track", "">>, <<"fulltext", {<<"title">>}>>>>),
       Model("Post", <<"Node">>, <<Writer>>), Union("Feed", <<"Author", "Post">>),
       Model("Tag", <<>>, <<Field("on", "Feed"), Array(Optional(Title))>>)>>,
     <<ModelWith("Author", <<Field("role", "Role"), Field("feed", "Feed")>>,
                 <<<<"id", "cuid">>, <<"id", "snowflake">>, <<"map", "">>>>),
       Model("Post", <<"Node">>, <<Disconnects(Optional(Writer), "Delete")>>),
       Union("Feed", <<"Author", "Post">>)>>,
     <<ModelWith("Author", <<Field("any", "Node"), Tagged(Title, {"track"})>>,
                 <<<<"id", "uuid">>, <<"track", "">>, <<"fulltext", {<<"title">>}>>>>),
       Model("Post", <<"Node">>, <<Writer>>)>>,
     <<ModelWith("Author", <<Title>>, <<<<"fulltext", {}>>>>)>>,
     <<ModelWith("Author", <<Title>>, <<<<"fulltext", {<<"owner">>}>>>>)>>,
     <<Model("Author", <<>>, <<Named(Array(Field("posts", "Author")), "x"),
                               Named(Optional(Field("writer", "Author")), "x")>>)>>,
     <<Model("Author", <<>>, <<Field("any", "Node")>>)>>,
     <<Model("Author", <<>>, <<Pinned>>), Model("Post", <<>>, <<Field("pinned", "Author")>>)>>,
     <<Model("Author", <<>>, <<Pinned, Key(Field("pinned", "Int"))>>),
       Model("Post", <<>>, <<Field("pinned", "Author")>>)>>,
     <<Model("Id", <<>>, <<Field("__", "Post")>>), Model("Post", <<>>, <<Field("writer", "Id")>>)>>,
     <<Model("Author", <<>>, <<Field("any", "Nowhere")>>)>>,
     <<Model("Author", <<"Author">>, <<>>)>>,
     <<Model("Author", <<>>, <<Title>>), Model("Author", <<>>, <<Field("text", "String")>>)>>,
     <<Model("Role", <<>>, <<Title>>)>>,
     <<Model("Author", <<>>, <<Tagged(Title, {"__id"})>>)>>,
     <<Model("Author", <<>>, <<[Title EXCEPT !.name = <<"__", "kind">>]>>)>>,
     <<Model("Author", <<>>, <<Title>>), Union("Feed", <<"Author", "Nowhere">>)>>,
     <<Model("Author", <<>>, <<>>), Model("Post", <<>>, <<Disconnects(Writer, "Delete")>>)>>,
     <<Model("Author", <<>>, <<>>), Model("Post", <<>>, <<Disconnects(Writer, "Forget")>>)>>,
     <<Model("Author", <<>>, <<>>),
       Model("Post", <<>>, <<[Writer EXCEPT !.relation = Args(Absent, Absent, {"fields"})]>>)>>,
     <<Item("garbage", "", <<>>, <<>>, <<>>, <<>>)>>}}

\* What reads are put to: one relation between two models (or two, with the
\* names apart), a relation of a model to itself, a base and a union of two
\* models and the fields that may hold either.
SelfRelated ==
  <<Model("Author", <<>>, <<Title, Named(Array(Field("posts", "Author")), "x"),
                            Named(Optional(Field("writer", "Author")), "x")>>)>>
Feeds ==
  <<Base("Node", <<>>, <<Title>>), Union("Feed", <<"Author", "Post">>),
    Model("Author", <<"Node">>, <<>>), Model("Post", <<"Node">>, <<Field("text", "String")>>),
    Model("Tag", <<>>, <<Field("on", "Feed"), Field("any", "Node"), Array(Field("feed", "Feed"))>>)>>
Pair(posts, pinned, writer, editor, pinnedKey, writerKey) ==
  <<Model("Author", <<>>, <<Title>> \o posts \o pinned \o pinnedKey),
    Model("Post", <<>>, <<Title>> \o writer \o editor \o writerKey)>>
Posts == <<Array(Field("posts", "Post"))>>
OneToMany == Pair(Posts, <<>>, <<Writer>>, <<>>, <<>>, <<>>)
OneToOne ==
  {Pair(<<>>, <<Optional(Pinned)>>, <<Writer>>, <<>>, p, w) :
     p \in MaybeKey(Optional(Field("pinned", "Int"))), w \in MaybeKey(Field("writer", "Int"))}
TwoWays ==
  Pair(<<Named(Posts[1], "x")>>, <<Named(Optional(Pinned), "y")>>,
       <<Named(Writer, "x")>>, <<Named(Optional(Field("editor", "Author")), "y")>>, <<>>, <<>>)
Readable == {SelfRelated, OneToMany, Feeds, TwoWays} \cup OneToOne

\* What mutations of links are put to: two models that point to a base, a model
\* that points to a union, and one that extends the base it points to.
Author == Model("Author", <<"Node">>, <<>>)
Targets ==
  <<Base("Node", <<>>, <<Title>>), Union("Feed", <<"Author", "Post">>), Author,
    Model("Post", <<>>, <<Title>>)>>
ToNode == Field("any", "Node")
Followed == Targets \o <<Model("Mark", <<>>, <<Title, ToNode>>), Model("Tag", <<>>, <<Title, Optional(ToNode)>>)>>
Unfollowed == Targets \o <<Model("Tag", <<>>, <<Title, Field("on", "Feed")>>)>>
Chained == <<Base("Node", <<>>, <<Title>>), Author, Model("Tag", <<"Node">>, <<ToNode>>)>>

MCTexts ==
  Inheritance \cup Relations \cup Single \cup Readable \cup {Followed, Unfollowed, Chained}

MCIds == 1 .. 3
MCPlain == <<2, 1, Null>>
MCLinks == {<<1, 1, 2>>, <<1, 1, 1>>, <<3, Null, 2>>}

Id == Marker("id")
Kind == Marker("kind")
Ask(select, where, order, limit, skip) ==
  [select |-> select, where |-> where, order |-> order, limit |-> limit, skip |-> skip]
All(select) == Ask(select, Everything, Absent, Absent, Absent)
Whole == All(<<>>)
TitleOf(columns) == [n \in {Id, <<"title">>} \cup columns |-> Whole]
Of(model, q) == ("model" :> model) @@ q

Orderings == {Absent, [by |-> <<"title">>, desc |-> FALSE], [by |-> <<"title">>, desc |-> TRUE]}
Pages == {Ask(TitleOf({}), Everything, o, p[1], p[2]) :
            o \in Orderings, p \in {<<1, Absent>>, <<Absent, 1>>, <<2, 1>>}}
Is(op, field, value) == [op |-> op, field |-> field, value |-> value]
Scalar == {Is("eq", <<"title">>, 1), Is("notEq", <<"title">>, 1), Is("isNull", <<"title">>, 1)}
Both(op, c, d) == [op |-> op, parts |-> <<c, d>>]

Related == {[op |-> op, field |-> n, inner |-> c] :
              op \in Quantifiers, n \in {<<"posts">>, <<"writer">>, <<"pinned">>, <<"editor">>},
              c \in Scalar}
Nested == {(Id :> Whole) @@ (n :> q) :
             n \in {<<"posts">>, <<"writer">>, <<"pinned">>, <<"editor">>},
             q \in {All(TitleOf({})), Ask(TitleOf({}), Is("eq", <<"title">>, 1), Absent, Absent, Absent),
                    Ask(TitleOf({}), Is("eq", <<"title">>, 1), Absent, 1, Absent),
                    Ask((Id :> Whole) @@ (<<"writer">> :> All(TitleOf({}))),
                        Everything, Absent, Absent, Absent)}
                   \cup Pages}

ToModels ==
  {Of(m, q) : m \in {"Author", "Post"},
     q \in {All(s) : s \in Nested}
           \cup {Ask(TitleOf({}), c, Absent, Absent, Absent) : c \in Related}
           \cup {Ask(TitleOf({}), [op |-> op, parts |-> s], Absent, Absent, Absent) :
                   op \in {"and", "or"},
                   s \in {<<>>, <<Is("eq", <<"title">>, 1), Is("notEq", <<"title">>, 2)>>}}
           \cup {Ask(TitleOf({}), Everything, o, 1, 1) : o \in Orderings}}
ToFeeds ==
<<{Of("Node", Ask([n \in s |-> Whole], c, Absent, p[1], p[2])) :
     s \in {{Id, Kind, <<"title">>}, {<<"title">>}, {<<"title">>, Marker("Author")}, {<<"text">>}},
     c \in {Everything, Is("eq", <<"title">>, 1), Is("eq", Marker("Author"), 1),
            Is("eq", <<"text">>, 1)},
     p \in {<<Absent, Absent>>, <<2, 2>>, <<Absent, 1>>}},
  {Of("Feed", All(("Post" :> Ask([n \in {<<"text">>, <<"title">>} |-> Whole], c, Absent, Absent, Absent))
                       @@ t)) :
          c \in {Everything, Is("eq", <<"text">>, 1)},
          t \in {<<>>, "Author" :> All(TitleOf({}))}},
  {Of("Tag", Ask((Id :> Whole) @@ (n :> ("Author" :> All(TitleOf({})) @@ t)), c,
                      Absent, Absent, Absent)) :
          n \in {<<"on">>, <<"any">>, <<"feed">>}, t \in {<<>>, "Post" :> All(TitleOf({}))},
          c \in {Everything, Is("isNull", <<"on">>, 1),
                 [op |-> "target", field |-> <<"on">>, target |-> "Post", inner |-> Is("eq", <<"title">>, 1)]}}>>
Deep == {Of("Author", All(<<"writer">> :> All(<<"writer">> :> All(<<"writer">> :> Whole))))}

MCQuestions(t) ==
  CASE t = Feeds -> ToFeeds
    [] t = SelfRelated -> <<{q \in ToModels : q.model = "Author"} \cup Deep>>
    [] t \in Readable -> <<ToModels>>
    [] OTHER -> <<>>

\* Mutations: root deletes by every filter, and every operation through a field.
MCRecords == 1 .. 3
MCSpare == 5 .. 6
Wheres == {[op |-> "all"], [op |-> "eq", value |-> 2]}
NoOp == [do |-> "none"]
Sent(action, model, where, bases, data, field, op) ==
  [action |-> action, model |-> model, where |-> where, bases |-> bases, data |-> data,
   field |-> field, op |-> op]
Deletes(models, groups) ==
  {Sent("delete", m, w, {}, Absent, <<>>, NoOp) : m \in models \cup {"Nobody"}, w \in Wheres}
  \cup {Sent("deleteMany", m, w, b, Absent, <<>>, NoOp) :
           m \in models \cup groups, w \in Wheres, b \in {{}, {"Node"}}}
Ops(kinds) ==
  {NoOp, [do |-> "unset"], [do |-> "connect"]}
  \cup [do : {"set"}, kind : kinds, id : {4}]
  \cup [do : {"create"}, kind : kinds \cup {"Nobody"}, value : {2}]
  \cup [do : {"update", "delete"}, kind : kinds, where : Wheres, value : {3}]
ThroughField(field, kinds) ==
  {Sent("create", "Tag", [op |-> "all"], {}, 2, field, op) : op \in Ops(kinds)}
  \cup {Sent("update", "Tag", [op |-> "all"], {}, Absent, <<"nothing">>, [do |-> "unset"])}
  \cup {Sent(a, "Tag", w, {}, v, field, op) :
           a \in {"update", "updateMany"}, op \in Ops(kinds),
           <<w, v>> \in (Wheres \X {Absent}) \cup {<<[op |-> "eq", value |-> 2], 3>>}}

MCChanges(t) ==
  CASE t = Followed -> Deletes({"Author"}, {"Node", "Feed"})
    [] t = Unfollowed -> Deletes({"Author"}, {}) \cup ThroughField(<<"on">>, {"Author", "Post"})
    [] t = Chained -> Deletes({"Author", "Tag"}, {"Node"}) \cup ThroughField(<<"any">>, {"Author", "Tag"})
    [] OTHER -> {}

MCAlphabet ==
  <<"Author", "Feed", "Id", "Mark", "Node", "Owned", "Post", "Role", "Stamped", "Tag", "__", "any", "at",
    "editor", "feed", "on", "owner", "pinned", "posts", "role", "text", "title", "writer">>

MCArgLists ==
  {<<"status">>, <<"-C", "merge", "commit">>, <<"commit", "-m", "diff">>, <<"merge", "topic">>,
   <<"-c", "merge", "merge", "--abort">>, <<"merge", "-s", "ours">>,
   <<"--no-pager", "merge", "--strategy=ours", "topic">>, <<"diff">>, <<"diff", "first">>,
   <<"diff", "second">>, <<"diff", "twice">>, <<"diff", "--stat">>, <<"merge", "diff">>,
   <<"-C", "merge">>, <<"-C">>}

\* Revisions: a schema of the relations, one of the inheritance, one that writes
\* a field twice, no schema.
Rows(f) == [columns |-> {<<"__", "id">>, <<"title">>, <<"writer", "Id">>}, rows |-> f]
Row(t, w) == (<<"title">> :> t) @@ (<<"writer", "Id">> :> w) @@ (<<"__", "id">> :> 0)
MCWorkTree ==
  ("Author" :> Rows((1 :> Row("a", "a")) @@ (2 :> Row("b", "a"))))
  @@ ("Post" :> Rows((1 :> Row("a", "b")) @@ (2 :> Row("b", "b")) @@ (3 :> Row("b", "b"))))
MCHistory ==
  ("HEAD" :> [text |-> <<Model("Author", <<>>, <<Array(Field("posts", "Post"))>>),
                         Model("Post", <<>>, <<Writer>>)>>,
              db |-> MCWorkTree])
  @@ ("first" :> [text |-> <<Model("Author", <<>>, <<Array(Field("posts", "Post"))>>),
                             Model("Post", <<>>, <<Writer>>)>>,
                  db |-> ("Author" :> Rows(1 :> Row("a", "a")))
                         @@ ("Post" :> Rows((1 :> Row("b", "b")) @@ (2 :> Row("b", "b"))
                                            @@ (4 :> Row("b", "b"))))])
  @@ ("second" :> [text |-> <<Base("Node", <<>>, <<Title>>),
                              Base("Owned", <<"Node">>, <<Optional(Field("owner", "Int"))>>),
                              Base("Stamped", <<"Owned">>,
                                   <<Tagged(Field("at", "DateTime"), {"track"})>>),
                              Model("Post", <<"Stamped">>, <<Field("text", "String")>>)>>,
                   db |-> MCWorkTree])
  @@ ("twice" :> [text |-> <<[SelfRelated[1] EXCEPT !.fields = <<Tagged(Title, {"unique"})>> \o @]>>,
                  db |-> MCWorkTree])
=============================================================================
