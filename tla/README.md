# Caqui: a TLA+ model of the database engine

Caqui is a database engine written in Rust. A schema language (`.cq` files) is
parsed and validated, lowered to SQLite tables, and served as a JSON API; the
SQLite file lives behind a VFS that stores pages in git, and `caqui git` wraps
git itself. This directory holds TLA+ modules that model the engine's own
logic, TLC configurations that check them on small instances, and proofs that
TLAPS checks.

## 1. Inventory

Paths are below `src/crates/`.

| Component | Code | State | Operations | Model |
|---|---|---|---|---|
| Schema parser | `schema-parser/src/parser.rs` | none | from grammar items to the AST | `SchemaAst` |
| Validation | `schema-parser/src/validation.rs` | the AST under way | resolve names, sort and flatten bases, add fields, inject keys, check relations | `Crystallization` |
| Lowering | `schema-mapper/src/lib.rs` | none | tables, constraints, indexes, triggers | `PhysicalSchema` |
| Differ, introspection | `schema-mapper/src/differ.rs`, `introspection.rs`, `migration.rs` | none | compare desired and live schemas, write SQL | `SchemaDiffer`, `SchemaStore` |
| Migration workflow | `schema-mapper/src/workflows.rs` | migration files, live database | push, migrate | `MigrationWorkflow` |
| Mutation translator | `api-layer/src/mutation_translator.rs` | a plan under construction | create, update, delete, updateMany, deleteMany; eight nested operations; operations on polymorphic fields, cascades | `NestedMutations`, `PolymorphicLinks` (partly) |
| Plan executor | `api-layer/src/executor.rs`, `query-compiler/src/mutation_ir.rs` | transaction, ids returned by earlier steps | run a step, commit, roll back | `PlanExecutor`, `SqlStatements` |
| API handler | `api-layer/src/handler.rs`, `router.rs`, `state.rs` | a request in progress | receive, refuse, read, execute, read back, answer | `Gateway`, `SerialStore` (many clients), `PlanExecutor` (statement by statement) |
| Connection pool | `api-layer/src/db.rs` | pooled connections, their locks | connect, take, return | `Gateway` |
| Read translator, SQL compiler | `api-layer/src/translator.rs`, `query-compiler/src/read.rs` | none | compile a SELECT with nested relations | `Reads` (partly) |
| Where parser | `api-layer/src/where_parser.rs` | none | parse a filter | `Reads`, `SqlStatements` (partly) |
| Git proxy | `engine-core/src/git.rs` | git's command line | rewrite arguments, refuse, hand over | `GitProxy` |
| Diff report | `engine-core/src/diff.rs` | none | compare two schemas and their rows | `SchemaReport` |
| Command line | `engine-core/src/main.rs` | a running command | load the schema, then one command | `CommandLine` (partly) |
| Git-backed VFS | `engine-core/src/vfs.rs` | SQLite pages in git | register | external |
| Legacy mutation compiler | `query-compiler/src/mutation.rs` | none | | unused by the engine |

How they interact: every command parses and validates the schema first. `git`
then runs the proxy, `schema push` and `schema migrate` compare the lowered
schema with a database, and `api start` creates the pool and starts the router.
Every request is handled by `api_execution_handler` as a task of its own. A
mutation is translated against the validated schema (a shared, immutable value),
the plan moves to a blocking thread with a pooled connection, and the handler
formats the answer. A delete reads the record on a connection of its own before
its transaction starts, create and update read it back after theirs. The only
shared mutable state of a running server is the pool and the SQLite file.

What is hard about it, component by component:

* **Schema.** The AST sits in hash maps, so every loop may run in any order; a
  model whose keys are injected late sees columns others have received. *Correct
  when* the result does not depend on the order, both sides of a relation agree
  on one column, and nothing inherited is lost.
* **Migration.** A file and a database change in sequence, statement by
  statement, mostly outside of a transaction. *Correct when* a push reaches the
  schema whatever was left half done before, a replay of the files yields the live
  schema, also after a crash, and no row or reference is lost.
* **Translator.** Each nested operation has to be scoped to its parent, which
  may be one record (the id a former step returns), or many (a subquery that is
  re-evaluated while the plan changes the rows it reads). Which table holds the
  key is recomputed in several places, each in a slightly different way.
  *Correct when* the plan as a whole has an effect the documentation allows, and
  touches nothing outside of the parents' records.
* **Polymorphic links.** Id/type pairs without a constraint, kept up to date by
  the engine alone. *Correct when* a mutation leaves no pair dangling and reaches
  only what a pair holds.
* **Executor.** A step may find no row, fail to prepare, be stopped by RESTRICT;
  constraints are deferred to COMMIT; the process may die anywhere. *Correct
  when* a mutation is atomic, the answer tells what happened, and no committed
  reference dangles.
* **Handler and pool.** Interleaving of clients between the pre-read, the
  transaction and the post-read; a bounded pool; SQLite's single writer and its
  busy timeout; clients that go away. *Correct when* clients see a serial store,
  answers describe the mutation they belong to, and every request is answered.
* **Reads.** One statement reads the records and everything nested in them; keys
  are looked up by three rules. *Correct when* nested records are those the
  stored links lead to, each page is cut per parent, and filters select what they
  say.
* **Git.** *Correct when* a merge always carries the driver's strategy and a
  silent report means that nothing changed.

`PROJECT.json` lists the hazards one by one, each at its line, with the
properties that cover it.

## 2. The modules

```
mutations, statement by statement         clients

RelationSchema                            SerialStore       what clients are
   |                                         |              promised
SqlStatements                             Gateway           handler, pool, locks
   |      |       |                          |       |
   |      |    DocumentedStore            MCGateway  GatewayProofs
   |      PlanExecutor -- PlanExecutorProofs
   NestedMutations                        migrations
          |
MutationEngine                            PhysicalSchema    lowering
   |                                      SchemaDiffer      compute_diff, SQL
MCMutationEngine                          SchemaStore       SQLite's DDL
                                          MigrationWorkflow push, migrate, death
                                             |        |
                                          MCMigration MigrationInvariant
                                                      |
                                                   MigrationLemmas   statements, names
                                                   MigrationScripts  what the differ writes
                                                   MigrationProofs   runs, commands

commands and the loaded schema

SchemaAst                                        parser
   |         \
Crystallization -- LoadInvariant                 validate_schema
   |     \     \            \
   |      \   SchemaReport   CrystallizationProofs
   |       \    |                 \              git diff
LoadedSchema \  |                  \             lookups
   |    \     GitProxy -------- CommandProofs    parse_git_args
   |     \           |           /
   |  PolymorphicLinks ---------                  mutations of id/type pairs
Reads     |          |                           findMany
    \     |         /
     CommandLine -- MCCommandLine                main.rs
```

`Maps` (functions as maps) is used by the schema and migration modules,
`DataInduction` (induction and folds) by their proofs.

### Mutations

**RelationSchema** has the schema as constants: which table's key column
references which (`Target`), the column's name (`FkName`: two relations may use
one name), whether the opposite field is an array (`ToMany`), whether the field is
required, the constraint's `ON DELETE` action and both fields' `onDisconnect`.
A table holds at most one key column, and scalars are abstracted to one column
`val`. `FkConsistent` is what SQLite checks at COMMIT.

**SqlStatements** describes a statement by its shape instead of its text: kind
(the variants of `ExecutionStep`; `UpdateBranch` and `DeleteBranch` are
"branch", `UpdateMany` and `DeleteMany` "many"), verb, filter, parent scope, and
what goes into the key column. `Affected`, `Assign`, `Insert`, `Doomed`,
`DeleteRows` are SQLite: DML with RETURNING changes every matching row before
the first id is returned; CASCADE takes the least closed set of rows along;
RESTRICT fails the statement at once even though constraints are deferred.

**NestedMutations** is `hydrate_mutation_to_plan`, recursive like the code. A nested request is a tree of
operations; `dir = "down"` is a field whose key the child's table holds (1:N, or
1:1 from the other side), `dir = "up"` a field whose key the table at hand
holds. One operator per `DeferredAction` (`CreateUnder`, `ConnectUnder`,
`UpdateUnder`, ...), three orders of parsing (`Order`: the parsers of create,
of update, and the one inlined in nested updateMany differ in order and in what
they check), and `ParentConstraint` as a record. What the code gets wrong is
modelled as it is: a statement that names a column its table lacks is `broken`,
a subquery whose parameters are not passed has another operation's value bound
to its placeholder (`Rebound`).

**PlanExecutor** is the state machine. `db` is the committed database, `work`
the transaction's view, `ret` the executor's `returned_values`. `Receive`,
`Refuse`, `Begin`, then one action per outcome of a statement (`RunInsert`,
`RunInsertSelect`, `RunUpdate`, `RunDelete`, `StepMisses`, `StepFails`),
`Commit`, `CommitFails`, `Answer`, and `Crash` anywhere in a request. The
translator is a parameter (`Refused`, `PlanOf`), so what is proved about the
executor holds for every plan, not only for those this translator makes.

**DocumentedStore** is the abstract specification: no statements and no
transactions. A request is asked, applied (`db' \in Outcomes(db, req)`) and
confirmed, or denied. `Outcomes` is the set of databases the documentation
allows for the nested mutation as a whole; a denial is allowed only if that set
is empty. If the server dies, the client hears nothing and the database is
either the one before or one of the outcomes.

**MutationEngine** composes the translator with the executor and states the
refinement (`Documented == INSTANCE DocumentedStore WITH state <- ..., reply <-
...`) and two action properties.

### Clients

**Gateway** is `api_execution_handler` with any number of clients. A request goes
through `stage` "waiting" (for a connection, in the pool's queue), "ready" (it has
one), "reading", "writing", "committing"; `goal` says what the connection is for:
the read of a find, the read before a delete, the transaction, the read after a
create or an update. `lock` is what the connection holds on the file under
SQLite's rollback journal (`create_pool` sets no journal mode;
`vfs::configure_connection`, which would, is never called), `view` the database
its open transaction works on. `Blocked` collects what the locks forbid. Failures
are actions: a connection that cannot be set up, a read that fails, a statement
or COMMIT that fails (a blocked one always does in the end, by the busy timeout),
a client that goes away and whose handler is dropped, while a closure that
already runs goes on and commits. A plan runs in one step here, because all its
statements run under one RESERVED lock; `PlanExecutor` takes them one by one.

**SerialStore** is the promise: each mutation takes effect at one moment between
arrival and answer, once, only if it applies, and no answer misreports it.
`Gateway` implements it (`Serializable`); `open` is mapped to `stage # "idle"`.

### Migrations

**PhysicalSchema** is `lower_ast_to_physical`: columns, foreign keys, indexes,
triggers, full-text tables. **SchemaDiffer** is `compute_diff` and `generate_sql`:
the operations in their order (which hash maps leave partly open), and the
statements each becomes, a rebuild with its pragmas and its transaction included.
**SchemaStore** is SQLite's documented behaviour for those statements: CREATE, DROP
with its implicit delete when foreign keys are enforced (what goes is the least set
that holds the table's rows and is closed under cascading references), the
copy of a rebuild, unique indexes over rows, transactions, pragmas ignored inside one.
A full-text trigger whose full-text table is missing (`Broken`) fails what makes SQLite
look at it: an insert into its table, the RENAME that ends the rebuild of another table,
and with foreign keys enforced the DROP of a table whose CASCADE and SET actions can
fire it, rows or none (`Jams`).
**MigrationWorkflow** is the developer's side: `Edit`, `StartPush`, `StartMigrate`
(against the shadow database, `Replay`), `MigrateStops`, `WriteFile`,
`RunStatement`, `StatementFails`, `Finish`, and `Die` between any two of them,
with a part of the file written if it strikes there, up to a statement or into one
(`Cut`); `Store` is the API adding rows in between. **MigrationInvariant** states what holds between any two of these
steps.

### The loaded schema and the commands

**SchemaAst** turns grammar items into the AST the way `parser.rs` does (of two
models of a name the last stays, attributes are parsed or refused).
**Crystallization** is `validate_schema`: Kahn's sort one base at a time with its
stack and in-degrees, flattening one parent at a time, synthetic fields, checks,
key injection one model at a time in any order. **LoadInvariant** states what
holds between any two of these steps.

**SchemaReport** and **GitProxy** are `caqui git`: the search for the subcommand,
the strategies, the intercepted `diff`, what the report compares and leaves out.

**LoadedSchema** is what the router looks up in the schema it was started with: the
models a field may lead to, SQL's comparison of a value.

**Reads** is findMany from the payload to the rows: the translator's lookup of
keys (`ReadKey`), the parser's (`FilterKey`), nested lists numbered per key,
fragments of bases and unions, filters with SQL's three-valued logic, and what is
refused, by the translator (400) or by SQLite (500).

**PolymorphicLinks** is the part of the mutation translator that deals with
id/type pairs: the cascade of `delete` (after it, from the id returned) and of
`deleteMany` (before it, by filter; on bases and unions too), the parsing of
set/create/update/delete on a singular field, and the statements deferred to
after the parent's own, or to before it under an updateMany (`Through`). A plan
runs in one step.

**CommandProofs** has the theorems about the last two kinds of command: git and the
report over `GitSpec`, the loader and one git command, and the links over `LinkSpec`,
the loader and one mutation.

**CommandLine** composes them: the schema is loaded, then the command line goes to
git, or the router starts and serves reads or mutations over the schema as loaded.

## 3. The properties and the runs

| Run | Module | Expected | Property | What it says |
|---|---|---|---|---|
| `documented` | MCMutationEngine | pass | `ImplementsDocumented` | refinement: atomic, with a documented effect or none, answered truthfully, denied only if no documented effect exists |
| | | | `StrictTarget` | a root update or delete that commits found its record |
| `contained` | MCMutationEngine | pass | `TypeOK` | types |
| | | | `ReferentialIntegrity` | no committed reference dangles |
| | | | `ParentScope` | a mutation writes and deletes only what its filter, relation fields and targets lead to |
| | | | `CommitFailsForCause` | COMMIT refuses a transaction only if it set a link or deleted from under a NO ACTION constraint |
| `gateway` | MCGateway | pass | `TypeOK` | types |
| | | | `PoolPartition` | no connection is lost or lent twice; nobody holds one while waiting for one |
| | | | `QueueHoldsWaiting` | exactly the waiting clients stand in the queue, each once |
| | | | `LockDiscipline` | one writer; a pooled connection has no open transaction |
| | | | `ViewIsCurrent` | no transaction works on a database that has moved on beneath it |
| | | | `ReturnedWasStored` | what is returned, the database held in a stated interval |
| | | | `Serializable` | refinement of `SerialStore` |
| | | | `Served` | liveness: every request is answered or its client has gone |
| `migrations` | MCMigration | pass | `TypeOK` | types |
| | | | `PushReachesSchema` | a push that ends well leaves the schema's tables, keys, indexes and triggers, whatever earlier commands left half done |
| | | | `HistoryReplays` | the migration files run on an empty database, if none is cut short and no full-text trigger comes without its table |
| | | | `InSync` | after migrates that ran to their end, the live database has the shape of the history and of the schema |
| | | | `ReferencesSurvive` | no step leaves a stored reference without its row: neither a rebuild nor the drop of a table |
| | | | `RowsKept` | no statement removes a row, or a value in a column, that the schema keeps |
| `loading` | MCCommandLine | pass | `TypeOK` | types |
| | | | `ParentsFirst`, `OnlyCyclesRefused` | bases come after their parents; the sort refuses cycles and nothing else |
| | | | `FieldsAreInherited` | no field is lost in flattening |
| | | | `OneToOneHasOneKey`, `ArraysFollowTheirKey` | key ownership does not depend on the hash map's order and both sides agree |
| | | | `MergesAreDriven` | a merge reaches git only with the driver's strategy |
| | | | `SilentMeansSame` | an empty report means equal fields, inherited ones included, and rows, with the omissions listed in 4 |
| | | | `LinksAreRead` | nested records are those the links lead to, paged per parent |
| | | | `FiltersMatchLinks` | relation filters quantify over the stored links |
| | | | `BranchesAreComplete` | reads of bases, unions and fragments return every row of every target asked for |
| | | | `CascadesComplete` | a root delete leaves no link through a base to a record it asked for |
| | | | `FieldsFollowTheirPair` | an operation through a polymorphic field reaches what the pair holds, and leaves the pair leading somewhere |
| `leak` | MCMutationEngine | violation | `ParentScope` | see 4 |
| `reports`, `loose` | MCMutationEngine | violation | `ImplementsDocumented` | see 4 |
| `settings` | MCMutationEngine | violation | `StrictTarget` | see 4 |
| `stale_delete` | MCGateway | violation | `DeleteReturnsTheRemoved` | see 4 |
| `second_push` | MCMigration | violation | `NothingLeftToDo` | see 4 |
| `history_breaks` | MCMigration | violation | `HistoryAlwaysReplays` | see 4 |

Distinct states: `documented` 225,000, `contained` 335,000, `gateway` 474,000,
`migrations` 1,274,000, `loading` 236,000.

### Bounds

Mutations:

* One request (`MaxRequests = 1`) on each of 39 databases (`MCSeeds`). A request
  leaves nothing behind but the database, and the databases are chosen to be what
  earlier requests leave: linked to one parent, another, none, self loops, both
  values of the scalar. So a second request would start where another seed does.
* One schema with a chain of two 1:N relations (Author, Post, Comment), a self
  relation (Staff), a 1:1 relation (User, Profile) and two relations whose fields
  have one name (Drive, Folder, File): the relation shapes the code tells apart,
  with all four `ON DELETE` actions and all three `onDisconnect` values.
* Nested operations of every kind, alone and two levels deep (Author, Post,
  Comment, from the top and from the bottom); three levels of update, updateMany
  and their leaves on the self relation. The translator's recursion has no limit,
  in the model as in the code; the scope of a level depends on the levels above
  it only through a `ParentConstraint`, and these depths are the first at which
  singular under singular, bulk under bulk, and bulk under singular meet.
* A data block touches one relation field, with at most two operations on it.
* Two or three records a table, plus `Spare` identities that only inserts use,
  enough for one new record per parent.
* Self relations with ON DELETE RESTRICT, and 1:1 self relations, are excluded
  by an assumption (`SchemaAssumption`).

`Rest` is a stutter of the idle server when the bound is reached, so that
deadlock checking stays on in these runs: a request that neither runs nor fails
would be reported.

Clients: two clients, a pool of one or of two connections, one record, two
values, `MaxSent = 3` requests, so that one client sends a second request while
the other's is anywhere. Two clients are enough for every conflict of locks (all
are between two connections) and for a queue behind a pool of one; the proofs
cover the rest.

Migrations: four versions of a schema with two models (columns, a column that
becomes a foreign key, a unique index, a changed foreign key action, a base, full
text), edited at will; three commands
(`MaxCommands`), so that a push or migrate follows one that followed a broken
one; one death (`MaxDeaths`); one Post and two Users (`MaxRows`), enough for a
reference and for a duplicate. Rows are interchangeable, hence the symmetry.
`FkAtOpen = TRUE` is the bundled SQLite's setting. `OneFilePerSecond = TRUE`
assumes that no two migrations run within a second: without it the second file
overwrites the first and `HistoryReplays` fails, as the code's naming suggests.
`HistoryReplays` excludes two kinds of history. One has a file that a kill cut within a
statement (`Uncut`): SQLite refuses what is incomplete, and the model takes every such
cut to be refused. A cut that leaves a shorter statement that is complete, or the
BEGIN of a rebuild without its COMMIT, is not modelled. The other creates a full-text
trigger with no statement before it that makes the table (`Provides`): run
`history_breaks` shows that such a history need not replay, with two migrates and no
kill. The versions of `migrations` have both kinds of full-text search, added without
a rebuild (`Authors`, then `Searchable`) and made with the table.

Loading: every way three bases can extend each other, one of them twice, cycles
included; every way two models can point at each other with an array, two
singular fields, two relation names, none, and declared key columns; single
schemas for every pass and refusal; 15 git command lines; `RowLimit = 1` instead
of 50 rows shown. Reads: three rows a table, three ways to link them, every scan
order, `MaxDepth = 2` instead of 10. Polymorphic links: three records a model and
every way to link them, three schemas (two followers of a base, a field that holds
a union, a model that implements the base it points to), one mutation.

Where bounded commands end the program waits for input that does not come:
`gateway`, `migrations` and `loading` say CHECK_DEADLOCK FALSE. That no request
hangs is what `Served` says.

### Fairness

`Gateway` assumes weak fairness of `Progress(c)` for each client: a job that can
go on does. Each job runs on a blocking thread of its own until it ends, the
pool serves its queue in order, a statement or COMMIT that SQLite's locks block
fails after the busy timeout (rusqlite sets 5 s), and an upgrade from a read to a
write that would deadlock fails at once. Nothing is assumed of clients: they
need not send, or go away. The other modules assume no fairness and state only
safety.

### The fragment of run `documented`

The code and the documentation part in more places than are worth a run each.
The run covers the requests on which they agree (`Fragment`); outside of it are:

1. root `update` and `delete` whose filter matches several records (run `loose`);
2. operations under an updateMany that is itself under one parent (run `leak`);
3. `disconnect` under an updateMany whose root filter has a parameter: the
   subquery's parameters are not passed;
4. `set`, `disconnect`, and the parent side's `update`, on self relations and
   where both tables have a column of that name (run `reports`);
5. `disconnect` and `set` on a required relation: documented as a validation
   error, the code writes NULL;
6. on the field that holds the key: `updateMany` and `deleteMany` name a column
   the target lacks; `update` on 1:1 and self relations is scoped by the wrong
   column; `connect` and `disconnect` are refused;
7. on the field that holds the key, under a `create`: every operation but
   `create` and `set` is silently ignored;
8. under an `updateMany`, on the field that holds the key: `create` makes one
   record for all parents, `update` is not refused as it is elsewhere;
9. models whose step ids look like quiet ones (run `settings`);
10. the checks (`onDisconnect`, cardinality) the parser of a nested updateMany
    leaves out;
11. children of a `create` under an updateMany: made for the first new record
    only;
12. an `updateMany` without data is refused;
13. a self relation's updateMany filtered by the scalar that a nested updateMany
    changes: the root filter is evaluated again after the children changed;
14. two operations of one field competing for a record: the engine has an order
    of its own, the documentation says "sequentially";
15. `set` on the field that holds the key, with a target that does not exist:
    the code writes NULL.

On the list side, `set` with targets that do not exist links those that do; the
abstract specification allows this, as the documentation does not say otherwise.

Run `contained` covers all of these except two families, `Leaks` (2, violated in
run `leak`) and `Slips` (4, for `update`, `updateMany` and `deleteMany` on the
parent side of a self relation).

### What the polymorphic properties leave out

`CascadesComplete` is stated for deletes whose filter matches one record, and for
deleteMany of records that do not refer to each other; `FieldsFollowTheirPair`
for updates whose filter matches one record, and its second half for kinds other
than the parent's own model. See 4 for what happens otherwise.

## 4. Where the code and its documentation disagree

Shown by a run:

* **leak.** `updateMany` nested under one parent, with operations nested in it:
  the subquery that scopes the grandchildren selects by the child's own filter
  only (`mutation_translator.rs:2215`); the parent's key is missing, although
  the bulk case two lines below has it. Grandchildren of other parents are
  changed. `docs/mutations.md:117` promises that this cannot happen.
* **reports.** `set` and `disconnect` on the list side of a self relation:
  `parent_owns_fk` finds a column of that name in the parent's table, which is
  the same table, and changes the parent's own link
  (`mutation_translator.rs:2310`, `2387`).
* **loose.** A root `update` or `delete` changes every matching record;
  `docs/mutations.md:9` says only the first.
* **settings.** A missing record is forgiven if the step's id contains `_set`;
  the id contains the model's name (`executor.rs:82`). For a model called
  `Settings` strict target verification is off.
* **stale_delete.** The record a delete returns is read on a connection of its
  own before the transaction begins (`handler.rs:63`); an update may commit in
  between. `docs/mutations.md:53` says "within the same transaction".
* **second_push.** The index of a polymorphic field has one name in the lowered
  schema (`schema-mapper/src/lib.rs:140`) and another in the SQL
  (`migration.rs:50`): every later push tries to create it again, and fails.
  `docs/migrations.md:70` says the differ avoids applying a change twice.
* **history_breaks.** `@@fulltext` added to a model whose table stays as it is: the
  differ writes the triggers (`differ.rs:130`), but only the creation or the rebuild of a
  table makes the full-text table they feed. From then on the rebuild of any other
  table fails at its RENAME (`migration.rs:30`), since SQLite resolves all triggers
  again there ("no such table: main.Post_fts"). The file is written before it is run
  (`workflows.rs:75`), and no later migrate can replay it. `docs/migrations.md:35` says
  the files are "always the absolute source of truth", and `docs/migrations.md:64` that
  `@@fulltext` provisions its table automatically.

Seen while modelling, and modelled as the code has it where the model reaches it:

* *Mutations.* `docs/mutations.md:140` gives `connect` on `Post.author`, the field that
  holds the key, as its example; the parser refuses it and recommends `set`
  (`mutation_translator.rs:2830`).
* *Schema.* `docs/schema.md:99` documents `@relation(fields, references)`, which
  the parser refuses; `docs/schema.md:245` says shadowed attributes must match,
  `merge_field` compares type and optionality and drops the later attributes;
  two models of a name overwrite each other silently; custom types whose names
  begin with a scalar's do not parse; an array and a singular field that share a
  relation name make ownership depend on the order of the map.
* *Migrations.* `docs/migrations.md:42` ("additive-only") against the rebuild;
  a `@@track` column's default makes every push rebuild its table; a trigger of
  `@@fulltext` without its table (see **history_breaks**) also refuses every row stored in
  the table; changed full-text fields, id
  defaults and trigger bodies are not noticed; `docs/migrations.md:56` says
  `foreign_key_check` "Verifies no orphan records were created", but its rows are
  stepped over and COMMIT follows (`migration.rs:41`), so that a plain column that
  becomes a foreign key keeps values that lead nowhere (the first two schemas of run
  `migrations` do this; `ReferencesSurvive` says that no reference is lost); indexes
  and triggers come after the rebuild's COMMIT; a clock set back
  reorders the files.
* *Server.* A `select` that does not translate is reported after the commit (400
  for create and update), a failed read after it as 500; `main.rs:101` announces
  WAL, which is never set; a plan that begins with a SELECT upgrades its lock and
  fails at once when another writes; `api start` does not check that `app.db` has
  the schema's shape.
* *Reads.* A nested filter is applied after the page is cut; a nested order
  without a page has no effect; `skip` without `limit` and empty AND/OR lists are
  SQL errors; the filter's key is that of the first field back, whatever the
  relation's name; `every` takes an unknown comparison for a match; `where
  {"__Article": true}` on a base (`docs/queries.md:164`) fails if an implementor
  lacks a column; reads of a base ignore their order; reads of a union return
  booleans as numbers and rows of targets nobody selected; fragments ignore page
  and order; an array relation without a namesake is joined by a column that does
  not exist.
* *Git.* The word `diff` anywhere, in a commit message too, turns the command
  into a report; `-srecursive` and `--strat=` pass the check of strategies; a
  schema that does not load stops every git command, the resolution of its own
  conflicts included; the report is silent on rows when the databases cannot be
  attached, and on changed extends clauses and onDisconnect; of a field written
  twice it compares the last, while the table is made of the first, so that it says
  nothing when the mark of the first was dropped.
* *Bases.* `docs/mutations.md:81` and `:95` say that updateMany and deleteMany cannot
  target a base; the code refuses only create, update and delete there
  (`mutation_translator.rs:66`) and spreads the other two over the models of the base,
  as the model does with deleteMany.
* *Polymorphic links.* `docs/mutations.md:213` and `docs/errors.md:42` say that
  connect, create and disconnect are supported on a singular polymorphic field
  and update and delete are not; the code refuses connect and disconnect and
  supports set, create, update and delete, with another payload. `set` checks
  neither that the record exists nor that the field may hold its kind. Fields that
  hold a union are never cascaded. A delete that matches several records cascades
  from the first only. In a deleteMany on a base, a record that the cascade of
  another model removes is no longer found when what refers to it is looked for:
  its links dangle. After a delete through a field whose target is of the
  parent's own model, the cleanup compares two columns of the same inner row, and
  the parent's pair may keep pointing to the deleted record. Nested deletes and
  SQLite's own cascades leave dangling pairs.

## 5. Proofs

`PlanExecutorProofs` proves, for every schema, set of rows, translator and number
of requests allowed by the assumptions of `RelationSchema` and `PlanExecutor`:

* `TypeCorrect`: `Spec => []TypeOK`. The inductive invariant `TypeInv` adds that
  the plan being run is well formed (a link refers to an *earlier* step): without
  it the id bound to a key column need not exist.
* `IntegrityKept`: `Spec => []ReferentialIntegrity`.
* `CommitFailureHasCause`: `Spec => CommitFailsForCause`. The invariant `IInv` adds
  that as long as the statements that have run are harmless (scalar updates,
  disconnects, clean deletes), the transaction's own view is consistent. It
  rests on `DeleteKeepsIntegrity` (what CASCADE, SET NULL and RESTRICT together
  guarantee: the deleted set is closed, rows that pointed into it point nowhere),
  `UnlinkingUpdateKeepsIntegrity` and `UnlinkedInsertKeepsIntegrity`.

`GatewayProofs` proves, for every set of clients, pools, ids, values and requests
that `GatewayAssumption` allows, an inductive invariant `GatewayInv` (`Invariance`):
the type invariant, the partition of the pool, the queue, the locks, the views,
and `StageFits`, which ties each request's stage to its goal and to whether its
mutation is done. The last is needed because a request's past is told by its goal
only: that a client in "post" has committed, and one in "pre" has not, is what
makes its answers truthful. From it follow

* `TypeCorrect`, `PoolIsPartitioned`, `QueueIsExact`, `LocksAreKept`,
  `ViewsAreCurrent`: the safety invariants of run `gateway`, one by one;
* `ReturnsAreStored`: `Spec => []ReturnedWasStored`. What an answer returns was
  read some time before it, so the invariant (`DataIsKept`) follows the record from
  the read on: it is one that the database has held since the request arrived,
  and a mutation that has not committed carries none but the record its delete
  read before. The views' being current makes a read return what is stored at
  that moment;
* `GatewaySerializes`: `Spec => Serializable`, the refinement. Initial states map
  to initial states; each action maps to one client's step of the serial store or
  to a stutter: `Commit` takes effect, because `ViewIsCurrent` makes what is
  committed the effect of the request on the database of that moment.

`CrystallizationProofs` proves, for every set of schema texts that
`TextsAssumption` allows (finite sequences of grammar items, with names that the
program does not make up itself), the invariant `LoadInv` of the loading
(`LoadingIsInvariant`), which has a part for each pass:

* `ReadInv`: the AST has the parser's shape, and the sort is reached only by a
  schema whose names are unique and whose extends clauses lead to bases.
* `SortInv`, Kahn's algorithm: the stack holds exactly the bases whose parents have
  all been put out, each once, and a base's in-degree counts those of its clauses
  that have not been served. A clause written twice counts twice and is served
  twice; this is what the code depends on, and the count is by clause here, not by
  parent. `SortIsTopological` (`ParentsFirst`) follows. `RefusalsAreCycles`
  (`OnlyCyclesRefused`) needs the other direction: when the stack runs empty early,
  every base left has a parent that is left, so each has a predecessor, and in a
  finite set that leads back into itself.
* `FlattenInv`: a registered base has its whole lineage and, of every field written
  in it or above it, type and optionality. This rests on `Lineage` being the least
  set closed under parents, and on parents being registered before their children
  (`ParentsEarlier`); merging one parent keeps it for those merged before.
* `ModelInv`, key injection: a model not visited yet has only the key columns that
  its text declares (`Undisturbed`), and of one that has been visited every relation
  with one field on either side is as it will stay (`Settled`). A visit writes into
  the model visited only, so what it sees of the opposite model may be from before
  or after that one's visit; that the outcome is the same is the point of
  `OneToOneHasOneKey`. A column that was *injected* there looks like one that was
  *declared* there, and the owner is chosen by what is declared: the proof shows
  that the opposite has an injected column exactly if it is the holder anyway.

From it follow `LoadingTypes` (`TypeOK`), `SortIsTopological`, `RefusalsAreCycles`,
`InheritanceIsKept` (`FieldsAreInherited`), `KeysAreAgreed` (`OneToOneHasOneKey`) and
`ArraysAgreeWithKeys` (`ArraysFollowTheirKey`): all invariants of the loader that run
`loading` checks. `LoadInv` was model-checked over the whole of that run's
instance before it was proved. The theorems are about `LoadSpec`, the loader by
itself; `CommandLine` adds what happens once the schema has been loaded, actions
that leave the loader's variables unchanged.

The attempt at these proofs changed a statement that the small instances had not
refuted. `OneToOneHasOneKey` read off the key's name which side holds it, which
says nothing when both fields have one name; it now says which side holds the key
(`HoldsKey`), names it, and says which of the two has the column. And `Declares`
counts the marker columns: a model or base called `Id` gives its models the column
`__Id`, which is what a field called `__` would have for its key, and the injector
takes it for declared. The instance of run `loading` now has both cases.

`MigrationProofs` proves, for every set of valid schemas, rows and bounds that
`MigrationAssumption` allows, the invariant `MigrationInv` of the schema commands
(`MigrationIsInvariant`):

* `TypeInv`: the live database is well formed, and what is still to run, like every
  file, is a sequence of statements of the kinds and contents that `generate_sql`
  writes for some version of the schema (`IsScript`), those still to run for the
  present one. A statement is only known to keep a database well formed if it
  is one of those.
* `PragmaInv`: each rebuild stands between its pragmas, and tables are dropped after
  everything else. While a command runs, foreign keys are off only if a rebuild or
  the pragma that ends it comes next, so that a drop always runs with foreign
  keys enforced and a rebuild never does, wherever the command stops.
* `SuitInv`: what is still to run suits the live database. A rebuild copies every
  column the two tables share, save those that it would fill in alike, and a
  table of the schema that refers to one outside of it is still to be rebuilt. The
  last is why dropping a table takes no row of the schema's tables along.
* `FollowInv`: as long as there was no push, no death and no error, the live database
  differs from what the files make of an empty one in its rows only, less what is
  still to run, and foreign keys are enforced on both or on neither. This is what makes a script computed on the shadow suit the live
  database. It rests on `Works`: whether a statement runs on a database *without
  rows*, and what it makes of the tables, keys, indexes and triggers of *any*
  database, depends on these and on the foreign_keys setting alone (`Frame`, `Runs`,
  `After`); and on what a fold
  and the flattening of sequences do at their end (`BatchGrows`, `LastFile`).

From it follow

* `MigrationTypes`: `Spec => []TypeOK`.
* `RowsAreKept`: `Spec => RowsKept`, if no two migrations run within a second and
  connections open with foreign keys on (`Steady`). The second hypothesis is there because a
  broken trigger stands in the way of a DROP TABLE only then, so that a script might
  fail on the shadow and run on the live database, or the other way round; the build
  fulfils it (the `bundled` feature of rusqlite in `Cargo.toml` compiles SQLite that way).
  `StatementKeepsRows` goes through the kinds of statements; with foreign keys
  enforced, what a drop takes along is the least set closed under cascading
  references, and by then no table of the schema refers to it.
* `ReferencesAreKept`: `Spec => ReferencesSurvive`, if connections open with foreign
  keys on; whatever was left behind by earlier commands. `StatementKeepsReferences`
  and, for the drop, `DropKeepsReferences`: what refers to a row that goes goes as
  well (CASCADE), is cleared (SET NULL), or the drop is refused.
* `LiveFollowsFiles`: the first half of `InSync`, and with it that the files replay
  without an error, while there is no trouble; under the same hypothesis.

Two more invariants are about the script as a whole, and about the end it comes to.

* `ReachInv`: what is still to run will make of the live frame the frame of the schema,
  *if* it runs to its end (`Reaches`): each table, column, foreign key, index and
  trigger the schema asks for is there, or will be made, and no statement after that
  takes it away; what it does not ask for will go. Or an index of the same name
  stands in the way of a CREATE INDEX, and the script will fail (`Blocked`). An index in the
  database is one that some version of the schema asked for, and a trigger's name
  tells its table (`Known`): otherwise what an earlier version left behind could
  pass for what the present one wants. `ReachesNext` takes one statement; the
  beginning is what the differ writes. For that, `DiffIsScripted` says what the
  script of `ComputeDiff` holds, and in which order, whatever order the hash maps
  are walked in: the operations as a set (`AllAsked`), each once, those of one table by
  their rank (`Lists`), and then the statements (`Scripted`).
* `HistoryInv`: if the history is `Uncut` and `Provides` the full-text tables, the files
  replay and leave no broken trigger; and while a file is being written every statement of
  it will run on what the files before it make, a database without rows
  (`WillRun`): its table and columns are there or made before, what it makes is
  not, the index's name is free by then, and a full-text table is dropped after the
  triggers that feed it. `ScriptWillRun` says so of what the differ
  writes, `WillRunNext` keeps it through each statement, and `ScriptExtends` puts the
  part that a dying command wrote at the end of the history. That no trigger is broken
  is what lets a rebuild end (`FirstRuns`): a trigger that is made finds its table there,
  because a history that provides it has run up to there (`BatchIsSane`, `StockNext`).

From them follow

* `PushReachesTheSchema`: `Spec => []PushReachesSchema`, if index names tell the indexes
  apart (`NamesTellApart`): no unique field, in any version of a model, is called like
  the index of a polymorphic field. The pushes, migrates, deaths and failures before
  it are arbitrary, and so are the edits.
* `LiveIsInSync`: `Spec => []InSync`, under the same hypothesis and `Steady`.
* `FilesReplay`: `Spec => []HistoryReplays`, and that what the files make has no broken
  trigger, if no two migrations run within a second and
  `Indexable`: there are no polymorphic fields, and unique fields have a column. Both
  are needed. The differ looks for the index of a polymorphic pair under another
  name than it has (run `second_push`), so a second migrate writes a file that creates
  it again, and from then on the files do not replay, which TLC finds on the
  schema of that run; and an index on a relation field that is marked unique is on a
  column the table lacks.

TLC evaluates the hypotheses on the schemas of the runs (`MCHypotheses`). Their proofs begin
in `MigrationLemmas` with the names (`SameIndex`: two versions of a schema that
call an index alike mean the same columns) and end in `MigrationProofs`.

All of these invariants were model-checked over the whole instance of run `migrations`
before they were proved. The first proofs changed the properties: `RowsKept` had been stated of every
migrate, and is false of one whose live database has left the history, which a
larger instance confirms; it now says so. That no stored reference dangles at all
is false, as a plain column that becomes a foreign key keeps its values (see 4);
`ReferencesSurvive` says what holds of every step.

`CommandProofs` proves, for every set of command lines, every history and every working
tree that `ProxyAssumption` allows (revisions hold what the grammar can deliver,
tables finitely many rows), the invariant `GitInv`: `LoadInv`, and that the outcome is
what the words and the loaded schema call for, the schema not changing once it is
accepted. From it follow

* `MergesReachTheDriver` (`MergesAreDriven`). `Subcommand` is the fold of the code's
  loop with its `skip_next`; the invariant of the fold is that the words visited so
  far are options of git's, each starting where the one before it ended
  (`OptionsEnd`), the value of the last one perhaps to come. The rest is the
  arithmetic of inserting two words (`Widens`).
* `SilenceIsSameness` (`SilentMeansSame`). Empty sections mean the same items on both
  sides; an empty item means that both sides show the same fields (`SilentFields`);
  and where the bases extend each other the same way, the lineages agree, being the
  least sets closed under parents (`LineagesShared`), so inherited fields do too.
  That the queries over rows are cut off at `RowLimit` costs nothing as long as the
  limit is positive and the tables finite.

The second proof changed the property: a field written twice in the old schema
refutes it, which the revision `twice` of the instance confirms (see 4), so it is
stated for schemas that write no field twice. It also keeps the marks of a field
apart from its relation attribute, where the model had put both in one set. The
part of `GitInv` beyond `LoadInv` was model-checked on the instance of run `loading`
first.

About the links it proves, for every set of schemas, plain values and mutations, and
every way to link finitely many records, the invariant `LinkInv` (`LinksAreInvariant`):
`LoadInv`; `GraphInv`, what the checks of the graph leave of the fields' kinds (a field
of the kind Base leads to no union, a union has models as members); and that the
database a mutation finds fits the accepted schema (`Fits`). From it follow

* `CascadesAreComplete` (`CascadesComplete`). A cascade is a fold of DELETEs over the
  followers of a model, and a deleteMany a fold of cascades, then one of DELETEs. On the
  traces of these folds (`Drops`) three things are kept: the database only thins out, a
  link that has been cleared stays so, and none of the doomed records goes before its
  own DELETE, as they do not refer to each other. The last is where the hypothesis of the
  property is needed: each statement selects the records anew, and a record that an
  earlier cascade had taken would not be found (see 4). So every filter selects what
  it selected at first, in whatever order the models are visited. `ListingFacts` and
  `FollowerFacts` say that the sequences the code goes through hold all models and all
  fields that they are about.
* `FieldsAreFollowed` (`FieldsFollowTheirPair`). `CreateFollows`, `UpdateFollows` and
  `DeleteFollows` take one statement or two through a link; `FollowsAssigned` and
  `AssignedFollows` add the assignments to the plain column, which come before them
  under an update and after them under an updateMany, where the filter may
  by then select other records. Under a create the new record's pair is empty, so
  an update or delete through it finds nothing, and there is no plan that succeeds.

`LinkInv` was model-checked on the instance of run `loading` before it was proved, with
the bound variables of names restricted to those of the schema. The proofs
changed the model: an unknown model or field is refused as in the code (`Unknown`),
where the guards had left such requests out.

`CrystallizationProofs` begins with the lemmas about the operators these proofs
use: the parser's folds, sequences and their ranges, `Lineage`, the merges of
field maps, the names the program makes up. `DataInduction` has the means:
induction over the naturals and the existence of least and greatest numbers, as
statements about *sets* of numbers (the library's take a predicate as a
parameter, which these provers cannot instantiate), and `FoldTrace`: the result
of a fold over a sequence is the end of a run of intermediate results, one for
each element. With those, what a fold computes is proved by an invariant of the
positions of its trace. The field maps are put together with `Over` and `Only`
rather than with the operators of module TLC, which the provers do not know.

Assumptions on the constants: those named in the modules (`RowAssumption`,
`SchemaAssumption`, `PlanAssumption`, `SeedAssumption`, `GatewayAssumption`,
`TextsAssumption`, `LimitAssumption`, `ProxyAssumption`, `LinksAssumption`,
`MigrationAssumption`), which TLC evaluates in every run of their modules.
`LinksAssumption` says that records are finitely many and that an insert finds an id
nobody has had, as `uuid::now_v7` does. `MigrationAssumption` says of each schema what the parser and
`validate_schema` let through (`Validated`): finitely many fields, whose names are
sequences of words, relations to models of the schema, by a key that is neither the
id nor a column with a default; and that the order of the tables names each once. In particular `PlanAssumption` (plans
are sequences of well-formed steps) is established for the translator's plans by
TLC, on the requests of the runs; it is not proved of `Translate`.

Model-checked only, with the reason:

* `Served` is liveness, `ParentScope`, `StrictTarget` and `ImplementsDocumented`
  are about the translator, and `LinksAreRead`, `FiltersMatchLinks` and
  `BranchesAreComplete` about reads, whose operators are recursive over the request.
  The provers treat neither fairness nor RECURSIVE operators.
* `NothingLeftToDo` fails (run `second_push`); that it holds where `Indexable` does is
  not stated.

## 6. Not modelled

* **External, assumed**: SQLite (atomic commit, deferred constraints, RESTRICT
  at once, the locks of the rollback journal, DDL), deadpool's FIFO queue, the
  git-backed VFS (durability of what was committed), `uuid::now_v7` (never yields
  an id twice), the grammar's parser generator.
* **Abstracted**: SQL text and parameter numbering (but for the places where
  they change what a statement does), scalar operators of filters beyond eq,
  notEq and isNull, full-text search, scalar types and their validation,
  formatting of answers, trigger bodies, type words.
* **Left out**: polymorphic arrays (they go through a column `{field}Id` that
  usually does not exist), updateMany on a base or a union, the push and pull of
  scalar lists, several relation fields in one data block, the contents of enum and
  array columns in reads; `init`, and writing the merge driver to disk.
* The legacy compiler `query-compiler/src/mutation.rs` is used by nothing.

## 7. Plan

Done: mutations, documented store, executor with its proofs; the gateway with its
proofs; migrations with theirs; loading with its
proofs, git and the report with theirs; reads; polymorphic links with their proofs.

Next, in this order:

1. **Proofs of the executor**: `PlanExecutor` as a refinement of an atomic store,
   for every plan; that a plan whose statements are all scoped changes nothing out
   of scope.
2. **Models**: two relations between the same two models in `NestedMutations`,
   polymorphic arrays, updateMany on bases.
