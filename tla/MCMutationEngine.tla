--------------------------- MODULE MCMutationEngine ---------------------------
(***************************************************************************)
(* Instances of MutationEngine for TLC.  One schema holds the relation     *)
(* shapes the code tells apart:                                            *)
(*   Author 1-N Post 1-N Comment   a chain; posts SET NULL, comments       *)
(*                                 CASCADE and onDisconnect: Delete        *)
(*   Staff 1-N Staff               a self relation, CASCADE                *)
(*   User 1-1 Profile              Profile holds the key, NO ACTION        *)
(*   Drive 1-N Folder 1-N File     both keys are called parentId; RESTRICT *)
(***************************************************************************)
EXTENDS MutationEngine

MCTable == {"Author", "Post", "Comment", "Staff", "User", "Profile",
            "Drive", "Folder", "File"}

Ids ==
  [Author  |-> {"a1", "a2", "a3"},       Post    |-> {"p1", "p2", "p3", "p4"},
   Comment |-> {"c1", "c2", "c3", "c4"}, Staff   |-> {"s1", "s2", "s3", "s4", "s5"},
   User    |-> {"u1", "u2", "u3"},       Profile |-> {"f1", "f2", "f3", "f4"},
   Drive   |-> {"d1", "d2"},             Folder  |-> {"o1", "o2", "o3", "o4"},
   File    |-> {"i1", "i2", "i3", "i4"}]

MCRow == UNION {Ids[t] : t \in MCTable}
MCVal == {"x", "y"}
MCTableOf == [r \in MCRow |-> CHOOSE t \in MCTable : r \in Ids[t]]

MCSpare == {"a3", "p3", "p4", "c3", "c4", "s4", "s5", "u3", "f3", "f4",
            "d2", "o3", "o4", "i3", "i4"}
MCTarget ==
  [Author |-> NoTable, Post |-> "Author", Comment |-> "Post", Staff |-> "Staff",
   User |-> NoTable, Profile |-> "User", Drive |-> NoTable, Folder |-> "Drive",
   File |-> "Folder"]
MCFkName ==
  [Author |-> "-", Post |-> "authorId", Comment |-> "postId", Staff |-> "managerId",
   User |-> "-", Profile |-> "userId", Drive |-> "-", Folder |-> "parentId",
   File |-> "parentId"]
MCToMany == [t \in MCTable |-> t # "Profile"]
MCRequired == [t \in MCTable |-> t = "Comment"]
MCOnDelete ==
  [t \in MCTable |-> CASE t \in {"Comment", "Staff"} -> "CASCADE"
                       [] t = "Post" -> "SET NULL"
                       [] t = "File" -> "RESTRICT"
                       [] OTHER -> "NO ACTION"]
MCOnDisconnect ==
  [f \in MCTable \X Direction |->
     IF f = <<"Comment", "down">> THEN "Delete"
     ELSE IF f = <<"Profile", "down">> THEN "Restrict" ELSE "SetNull"]
MCQuietName == [t \in MCTable |-> FALSE]

(***************************************************************************)
(* Databases: which rows are live, how they may be linked, what they hold. *)
(***************************************************************************)
Stored(links, vals) ==
  [r \in MCRow |->
     IF r \in DOMAIN links
     THEN [live |-> TRUE, fk |-> links[r],
           val |-> IF r \in DOMAIN vals THEN vals[r] ELSE "x"]
     ELSE Gone]

\* p1 is linked to a1, so that the scope of a1 is never empty.
Chains ==
  {Stored([r \in {"a1", "a2", "p1", "p2", "c1", "c2"} |->
             CASE r = "p1" -> "a1" [] r = "p2" -> l[1] [] r = "c1" -> l[2]
               [] r = "c2" -> l[3] [] OTHER -> Null], [p2 |-> v])
     : l \in {Null, "a1", "a2"} \X {"p1", "p2"} \X {"p1", "p2"}, v \in MCVal}

Hierarchies ==
  {Stored([r \in {"s1", "s2", "s3"} |->
             CASE r = "s1" -> l[1] [] r = "s2" -> l[2] [] r = "s3" -> l[3]], [s3 |-> "y"])
     : l \in {<<Null, "s1", "s1">>, <<Null, "s1", "s2">>, <<"s3", "s1", "s2">>,
              <<"s2", Null, "s2">>, <<Null, "s2", Null>>}}

Pairs ==
  {Stored([r \in {"u1", "u2", "f1", "f2"} |->
             CASE r = "f1" -> l[1] [] r = "f2" -> l[2] [] OTHER -> Null], [u2 |-> "y"])
     : l \in {<<"u1", "u2">>, <<"u2", "u1">>, <<"u1", Null>>, <<Null, "u1">>, <<Null, Null>>}}

Drives ==
  {Stored([r \in {"d1", "o1", "o2", "i1", "i2"} |->
             CASE r = "o1" -> l[1] [] r = "i1" -> l[2] [] r = "i2" -> l[3]
               [] OTHER -> Null], [o2 |-> "y"])
     : l \in {<<"d1", "o1", "o1">>, <<"d1", "o1", Null>>, <<"d1", "o2", "o1">>,
              <<Null, "o1", "o1">>, <<Null, Null, Null>>}}

MCSeeds == Chains \cup Hierarchies \cup Pairs \cup Drives

(***************************************************************************)
(* Requests.                                                               *)
(***************************************************************************)
ById(r) == [by |-> "id", key |-> r]
ByVal(v) == [by |-> "val", key |-> v]

\* Two records every seed of the family holds, and an id no record of the
\* table has.
First(t) ==
  [Author |-> "a1", Post |-> "p1", Comment |-> "c1", Staff |-> "s1", User |-> "u1",
   Profile |-> "f1", Drive |-> "d1", Folder |-> "o1", File |-> "i1"][t]
Second(t) ==
  [Author |-> "a2", Post |-> "p2", Comment |-> "c2", Staff |-> "s2", User |-> "u2",
   Profile |-> "f2", Drive |-> "d1", Folder |-> "o2", File |-> "i2"][t]
Absent(t) == IF t = "User" THEN "a1" ELSE "u1"

Op(op, f, where, targets, drop, val, kids) ==
  [op |-> op, dir |-> f.dir, table |-> f.table, where |-> where,
   targets |-> targets, drop |-> drop, val |-> val, kids |-> kids]

\* The relation fields of a table.
Fields(P) ==
  {[dir |-> "down", table |-> t] : t \in {x \in MCTable : MCTarget[x] = P}}
    \cup (IF MCTarget[P] = NoTable THEN {}
          ELSE {[dir |-> "up", table |-> MCTarget[P]]})

OneOf(t) == {ById(First(t)), ById(Second(t)), ById(Absent(t))}
ManyOf(t) == {NoFilter, ByVal("y"), ById(First(t))}

Creates(f, kids) == {Op("create", f, NoFilter, <<>>, "default", "y", k) : k \in kids}
Updates(f, kids) ==
  {Op("update", f, w, <<>>, "default", "y", k) : w \in OneOf(f.table), k \in kids}
UpdateManys(f, kids) ==
  {Op("updateMany", f, w, <<>>, "default", "x", k) : w \in ManyOf(f.table), k \in kids}
Removals(f) ==
  {Op("delete", f, w, <<>>, "default", Keep, <<>>) : w \in OneOf(f.table)}
    \cup {Op("deleteMany", f, w, <<>>, "default", Keep, <<>>) : w \in ManyOf(f.table)}
Connects(f) ==
  {Op("connect", f, w, <<>>, "default", Keep, <<>>) : w \in OneOf(f.table)}
Disconnects(f) ==
  {Op("disconnect", f, w, <<>>, "default", Keep, <<>>)
     : w \in {NoFilter, ById(First(f.table))}}
Sets(f) ==
  {Op("set", f, NoFilter, ts, drop, Keep, <<>>)
     : ts \in {<<>>, <<ById(Second(f.table))>>}
             \cup (IF f.dir = "up" THEN {}
                   ELSE {<<ById(First(f.table)), ById(Second(f.table))>>}),
       drop \in {"default", "yes"}}

Links(f) == Connects(f) \cup Disconnects(f) \cup Sets(f)

Leaves(f) ==
  Creates(f, {<<>>}) \cup Updates(f, {<<>>}) \cup UpdateManys(f, {<<>>})
    \cup Removals(f) \cup Links(f)

Mutation(action, t, where, val, kids) ==
  [action |-> action, table |-> t, where |-> where, val |-> val, kids |-> kids]

\* Root mutations without nested operations.
Plain ==
  UNION {{Mutation("create", t, NoFilter, "x", <<>>)}
           \cup {Mutation(a, t, w, "y", <<>>)
                  : a \in {"update", "delete"}, w \in OneOf(t)}
           \cup {Mutation(a, t, w, v, <<>>)
                  : a \in {"updateMany", "deleteMany"}, w \in ManyOf(t), v \in {"x", Keep}}
         : t \in MCTable}

\* One nested operation, under a new, an existing and several parents.
Under(P, ops) ==
  {Mutation("create", P, NoFilter, "x", <<o>>) : o \in ops}
    \cup {Mutation("update", P, w, Keep, <<o>>) : w \in {ById(First(P)), ById(Absent(P))}, o \in ops}
    \cup {Mutation("updateMany", P, w, "y", <<o>>) : w \in {NoFilter, ByVal("x")}, o \in ops}

OneNested == UNION {Under(P, UNION {Leaves(f) : f \in Fields(P)}) : P \in MCTable}

\* Two levels: Author - Post - Comment from the top, and from the bottom.
Posts == [dir |-> "down", table |-> "Post"]
Comments == [dir |-> "down", table |-> "Comment"]
PostOf == [dir |-> "up", table |-> "Post"]
AuthorOf == [dir |-> "up", table |-> "Author"]

Deep ==
  LET inner == {<<o>> : o \in Leaves(Comments)}
      above == {<<o>> : o \in Creates(AuthorOf, {<<>>}) \cup Updates(AuthorOf, {<<>>})
                                 \cup Sets(AuthorOf)}
  IN Under("Author", Creates(Posts, inner) \cup Updates(Posts, inner)
                       \cup UpdateManys(Posts, inner))
       \cup Under("Comment", Creates(PostOf, above) \cup Updates(PostOf, above))

\* Three levels, down the staff.
Reports == [dir |-> "down", table |-> "Staff"]

Deeper ==
  LET leaves == {<<o>> : o \in Creates(Reports, {<<>>}) \cup Updates(Reports, {<<>>})
                                 \cup Removals(Reports)}
      Under1(id, inner) ==
        {<<Op("update", Reports, ById(id), <<>>, "default", "y", k)>> : k \in inner}
          \cup {<<Op("updateMany", Reports, NoFilter, <<>>, "default", "x", k)>> : k \in inner}
      kids == Under1("s2", Under1("s3", leaves))
  IN {Mutation("update", "Staff", ById("s1"), Keep, k) : k \in kids}
       \cup {Mutation("updateMany", "Staff", ById("s1"), "y", k) : k \in kids}

\* Two operations of one field, in either order of the request: the engine
\* has an order of its own, so they should not compete for a record.
Names(o) ==
  {w \in {o.where} \cup {o.targets[i] : i \in DOMAIN o.targets} : w.by = "id"}

Apart(o1, o2) ==
  /\ Names(o1) \cap Names(o2) = {}
  /\ "deleteMany" \in {o1.op, o2.op} =>
       {o1.op, o2.op} \cap {"update", "delete", "connect"} = {}

Double ==
  LET some == {o \in Leaves(Posts) : o.where.key # Absent("Post") /\ o.drop = "default"}
  IN {Mutation("update", "Author", ById("a1"), "y", p)
        : p \in {x \in some \X some : Apart(x[1], x[2])}}

Candidates == Plain \cup OneNested \cup Deep \cup Deeper \cup Double

(***************************************************************************)
(* The fragment of the mutation language on which the engine does what its *)
(* documentation says.  README.md lists what lies outside of it and why.   *)
(***************************************************************************)
Faithful(P, o) ==
  /\ o.op \in {"connect", "disconnect"} => IsArray(o)
  /\ o.op \in {"disconnect", "set"} =>
       /\ ParentOwnsFk(P, o) <=> o.dir = "up"
       /\ MCRequired[IF o.dir = "up" THEN P ELSE o.table] => FieldPolicy(P, o) = "Delete"
  /\ o.dir = "up" =>
       /\ o.table # P /\ MCToMany[P] /\ ~HasColumn(o.table, MCFkName[P])
       /\ o.op \notin {"updateMany", "deleteMany"}

UnderNew(P, o) == Faithful(P, o) /\ (o.dir = "up" => o.op \in {"create", "set"})

UnderMany(P, where, o) ==
  /\ Faithful(P, o)
  /\ o.dir = "up" => o.op \notin {"create", "update"}
  /\ o.op = "disconnect" => where = NoFilter
  /\ o.op = "updateMany" /\ o.table = P => where.by # "val"

\* many: all above o are updateManys.
UnderNested(many, o, k) ==
  CASE o.op = "create"     -> ~many /\ UnderNew(o.table, k)
    [] o.op = "update"     -> Faithful(o.table, k)
    [] o.op = "updateMany" -> many /\ k.op \in {"create", "updateMany", "delete", "deleteMany"}

RECURSIVE FaithfulBelow(_, _)

FaithfulBelow(many, o) ==
  \A j \in DOMAIN o.kids :
    /\ UnderNested(many, o, o.kids[j])
    /\ FaithfulBelow(many /\ o.op = "updateMany", o.kids[j])

Within(q) ==
  /\ q.action = "updateMany" => q.val # Keep
  /\ \A i \in DOMAIN q.kids :
       /\ CASE q.action = "create" -> UnderNew(q.table, q.kids[i])
            [] q.action = "update" -> Faithful(q.table, q.kids[i])
            [] OTHER -> UnderMany(q.table, q.where, q.kids[i])
       /\ FaithfulBelow(q.action = "updateMany", q.kids[i])

Fragment == {q \in Candidates : Within(q)}

(***************************************************************************)
(* All candidates but those that do leave the scope of their parent.       *)
(***************************************************************************)
\* The grandchildren of an updateMany under one parent.
RECURSIVE LeaksBelow(_, _)

LeaksBelow(many, o) ==
  \/ ~many /\ o.op = "updateMany" /\ o.kids # <<>>
  \/ \E j \in DOMAIN o.kids : LeaksBelow(many /\ o.op = "updateMany", o.kids[j])

Leaks(q) == \E i \in DOMAIN q.kids : LeaksBelow(q.action = "updateMany", q.kids[i])

\* The parent side of a self relation, scoped like the children's.
Slips(q) ==
  \E i \in DOMAIN q.kids :
    /\ q.kids[i].dir = "up" /\ q.kids[i].table = q.table
    /\ q.kids[i].op \in {"update", "updateMany", "deleteMany"}

Contained == {q \in Candidates : ~Leaks(q) /\ ~Slips(q)}

Leaking == {q \in Deep : Leaks(q)}

\* (TLC keeps a mapped set enumerated; it would evaluate the others again.)
MCDocumented == {q : q \in Fragment}
MCContained == {q : q \in Contained}
MCLeaking == {q : q \in Leaking}

(***************************************************************************)
(* Requests for the runs that show where code and documentation part.      *)
(***************************************************************************)
\* Replacing or cutting the reports of a member of staff.
MCReports ==
  {Mutation("update", "Staff", ById("s1"), Keep, <<o>>)
     : o \in Disconnects(Reports) \cup {x \in Sets(Reports) : Len(x.targets) = 1}}

\* A root update whose where matches several records.
MCLoose == {Mutation("update", t, ByVal("x"), "y", <<>>) : t \in MCTable}

\* A root update or delete by id, on a model called, say, Settings.
MCStrict == {q \in Plain : q.action \in {"update", "delete"}}
MCSettings == [t \in MCTable |-> t = "Author"]

MCRefused(q) == Translate(q).err
MCPlanOf(q) == Translate(q).steps
=============================================================================
