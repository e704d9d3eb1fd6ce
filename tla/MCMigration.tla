------------------------------ MODULE MCMigration ------------------------------
(***************************************************************************)
(* Instances of MigrationWorkflow for TLC: the versions of a schema.cq     *)
(* with a User and a Post.                                                 *)
(***************************************************************************)
EXTENDS MigrationInvariant

Field(kind, type) ==
  [kind |-> kind, type |-> type, unique |-> FALSE, of |-> <<"-">>, key |-> <<"-">>,
   to |-> "-", onDelete |-> "-"]
Unique(field) == [field EXCEPT !.unique = TRUE]
Text == Field("scalar", "String")
Id == <<"__id">> :> Field("id", "String")
Marker == <<"__Node">> :> Field("marker", "Boolean")
Name == <<"name">> :> Text
Email == <<"email">> :> Text
Title == <<"title">> :> Text
Author(onDelete) ==
  (<<"authorId">> :> Text) @@
  (<<"author">> :> [Field("relation", "User") EXCEPT
                      !.key = <<"authorId">>, !.to = "User", !.onDelete = onDelete])

Model(fields) == [fields |-> Id @@ fields, fts |-> {}]

\* Only posts, with a column for the author's id that is no reference yet; then
\* authors; then e-mail addresses, a unique name and another foreign key action;
\* then a base of User and full-text search on posts.
JustPosts == "Post" :> Model(Title @@ (<<"authorId">> :> Text))
Authors == ("User" :> Model(Name)) @@ ("Post" :> Model(Title @@ Author("set null")))
Accounts ==
  ("User" :> Model((<<"name">> :> Unique(Text)) @@ Email))
  @@ ("Post" :> Model(Title @@ Author("cascade")))
Searchable ==
  ("User" :> Model(Name @@ Email @@ Marker))
  @@ ("Post" :> [Model(Title @@ Author("set null")) EXCEPT !.fts = {<<"title">>}])

MCSchema == {JustPosts, Authors, Accounts, Searchable}

\* Full-text search added to the posts of a User who gets an e-mail address too.
MCAdded == {Authors, Searchable}
MCMaxRows == ("Post" :> 1) @@ ("User" :> 2)
MCRows == Permutations(Row)
MCTableOrder == <<"Post", "User">>

\* A picture that is one of several models: the polymorphic pair and its index.
Pictures ==
  "Post" :> Model(Title @@ (<<"picture">> :> Field("poly", "Media")))
MCPictures == {Pictures}

\* The hypotheses of the theorems about these instances; a polymorphic index is
\* called one thing by the differ and another by SQLite.
ASSUME MCHypotheses == NamesTellApart /\ (Indexable \/ Schema = MCPictures)
===============================================================================
