# go-adv-pg, specified and checked

`go-adv-pg` generates Go code for PostgreSQL tables. A developer declares a
table as a Go struct and an `advpg.Table` variable; the generator
(`internal/gen`) turns the declaration into a record type that tracks its own
changes and a DAO that inserts, updates, selects and deletes rows; `conn` opens
the connections the DAO runs on, routes reads to a master or to replicas, and
bounds every query by a timeout that can be edited while the program runs.

This directory holds TLA+ models of these parts, TLC runs that check them on
small instances and TLAPS proofs of the properties that matter most for every
value of the constants. `PROJECT.json` lists the components, the runs, which
lines of the source each definition stands for, the hazards and the theorems.

## 1. Inventory

| Component | Source | State | Operations | Modelled in |
|---|---|---|---|---|
| Column groups | `internal/gen/parse.go`, flags of `adv-pg.go` | the groups of each table, `columnConflict`, the amended flags | `fillModels`, `fillColumns` | `Columns`, `Generator` |
| Setter bits | `internal/gen/gen.go` `IterateSetterColumns` | two list positions | one setter per step | `Generator` |
| Record | `advpg.go.tmpl` | data, `updateMask`, `mut` | `Record`, `Set<Column>`, `Inc/Dec/Add<Column>`, `reset` | `Records` |
| DAO methods | `advpg.go.tmpl` | the statement in flight, its answer | `Insert`, `Update`, `FullUpdate`, `Delete`, `SelectBy<Key>` | `ActiveRecord`, promised in `Tally`, read from a replica in `Replicas` |
| Batch DAO methods | `advpg.go.tmpl`, `gen.go` | a slice of records, the rows a RETURNING clause yields | `InsertMulti`, `UpdateMulti`, `DeleteMulti` | `Batch` |
| Select options, replica routing | `adv-pg.go`, `conn.go` | the options of a call, the handles of a program | `SelectOptions`, `ReplicaByOpt`, `Replica`, `ReplicaPerTable` | `Connect` |
| Connection configuration | `config.go`, `conn.go` | the settings, the open connections | `loadConnStrings`, `NewConn`, `NewPool` | `Connect` |
| Timeout tracer | `conn.go`, `config.go` | `prevTimeout`, shared by all connections | `TraceQueryStart`, `loadTableTimeout`, `AfterConnect` | `Timeouts` |
| Query builder | `adv-pg.go`, `advpg.go.tmpl`, `gen.go` | the SQL, arguments and results so far | `QueryBuilder`, `SimpleQuery`, the `query<Method>` functions | `Statements` |
| Package and DAO lookup | `parse_package.go`, `parse.go` | the files of a package, the models found in one, those that need a DAO type | `ParsePackage`, `Package.DAO`, `indexMethodName` | `Package` |
| Command line tool | `cmd/adv-pg/main.go` | the generated file, while it is overwritten | `main`, `WriteFile`, once per source in `go generate` | `Package` |
| Index linking | `parse.go` | maps of names | `linkIndicesToColumns`, `dupMethods` | in part: names in `Package`, indices' columns in `Statements` |
| Source parser | `parse_var.go`, `parse_struct.go`, `parse.go` | none | `Parse` | in part: when it runs and what it leaves in `Package` |

How they interact. `go generate` runs the generator once for each source file of a
package; the runs meet in the package's files, where each looks for the DAO types
that exist already, in what the others have generated too. What a run decides
(which columns a statement writes, which it reads back, which column has which
bit) is the constant data of everything that runs later. At run time a program connects
to a master and perhaps to replicas. A goroutine owns a record, or a slice of
them, and hands it to a DAO method, which captures a statement, sends it on a
connection, scans the rows of the answer into the record and resets the change
flags. The database is shared with other goroutines and programs. A SELECT
chooses between master and replica by its options, its table's configuration and
whether it runs in a transaction; everything else goes to the master. Each query
passes through the connection's tracer, which reads a timeout from the
configuration and puts a deadline on the query.

What is hard here:

- a record is a cache: it is read at one moment and written back at a later one,
  while others write the row;
- a call may fail after the server has executed its statement, or the server may
  execute it after the caller has given up;
- flags and counters must be reset exactly when the server has what they stand
  for, and the conditions depend on the declaration: `ON CONFLICT DO NOTHING`,
  the presence of RETURNING columns, `DisableInsert`;
- the rows of a batch's answer are matched to records by position only, and there
  may be fewer rows than records, or two records with one key;
- the generator amends the flags it reads and numbers bits by walking two lists
  in step;
- placeholders, arguments and results are numbered by separate loops, over lists
  of columns some of which are left out;
- a run of the generator reads files that other runs have yet to bring up to date,
  or that a killed run has left in pieces;
- hosts go away and come back while a program connects, one of two connections
  may fail to open, and replicas lag behind what a client has just written;
- the configuration is edited, and may be unreadable, between two reads; the last
  good timeout is overwritten by all connections.

What makes each component correct:

- *Column groups*: code is generated exactly for the accepted declarations, and
  each group is the set the declaration says, whatever the order of the columns.
- *Setter bits*: each setter sets the bit that the smart UPDATE tests for its
  column; each bit fits the mask.
- *Record and DAO*: increments are neither lost nor sent twice; a column whose
  flag is clear has nothing to send; a smart UPDATE overwrites nothing its
  application did not change; success means the record has the row's counters.
- *Batch methods*: row `i` of the answer belongs to record `i` whenever the batch
  succeeds; one that falls short gives up no change.
- *Routing*: a write goes to the master, and a read that may not be stale sees
  what its goroutine has written.
- *Connection configuration*: no connection is lost when a set-up fails; the
  master is the last host tried in place of the replicas, and is tried.
- *Timeout tracer*: the timeout used was configured; every query ends.
- *Query builder*: placeholder `$n` stands for the `n`-th argument, commas separate,
  the results follow RETURNING, and what is sent is what has changed.
- *Package, command line tool*: when the sources stay as they are, generation comes
  to a package that builds, and leaves it as it is.

## 2. Modules

    Columns <- Generator <- Statements <- MCGenerator
    Columns <- Records <- ActiveRecord <- Counting <- Replicas <- MCReplicas
               Tally (implemented by) Counting      <- MCActiveRecord
               Records <- Batch <- MCBatch
    Timeouts <- MCTimeouts
    Connect  <- MCConnect
    Package  <- MCPackage

    ActiveRecord <- ActiveRecord_proofs
    ActiveRecord_proofs, Counting, Replicas <- Counters_proofs
    Generator <- Generator_proofs;  Generator_proofs, Statements <- Statements_proofs
    Batch <- Batch_proofs;  Timeouts <- Timeouts_proofs
    Connect <- Connect_proofs;  Package <- Package_proofs

`Columns` gives, for a declaration `t` (a record of `advpg.Table`'s flags and,
for each flag of `advpg.Field`, the set of columns that have it), the set of
columns in each group, and the predicate `Accepted(t)`. It has no state.
`Generator` is shown to compute it; the modules about records assume it.

`Generator` is the pass over the columns. A behaviour generates code for one
declaration: `FillColumn` is an iteration of the loop in `fillColumns`, with its
error returns and the amended flag `UpdateByStorage`; `Finish` is the rest of
`fillModels`: the limit on setters, the conflict clauses, the switch from upsert to
DO NOTHING; `YieldSetter` is an iteration of `IterateSetterColumns`.

`Statements` extends it by what the generator then writes: for each statement of the
template, its SQL as a sequence of pieces (a column, its role, the number of its
placeholder, whether a comma precedes it), the arguments in their order, and the
places the answer is scanned into. The statements that are text in the generated
code are numbered there as the template's loops number them (`Numbered`, `Listed`);
those put together at run time go through `AppendSQL`, `Bind` and `AppendResults`, as
through a `QueryBuilder`. The template's loops over the columns of a record are
`AppendItems` (an `Item` is what the loop's body appends for one column), its loops over
a slice of records are `AppendRows`, and queryUpdate's loops over the columns that may
have changed are `AppendChanged`. `QueryUpdate` tests the bits that `YieldSetter` gave
to the setters.

`Records` is one table: any accepted declaration with change tracking and a primary key
that the INSERT writes, or that the storage hands out as a whole (`TableAssumption`
leaves out key columns with `DisableInsert`, and composite keys of which only a part is
`InitByStorage`). It has no state: the record in memory with its setters, `Scan` and
`reset`, and what the different statements make of a row, triggers and DEFAULTs
included.

`ActiveRecord` is the generated code against that table. Clients are goroutines
with a record each.

| Code | Model |
|---|---|
| the row in PostgreSQL | `db[k]`, `NoRow` if none; the primary key, composite or not, is one value |
| a sequence that hands out keys | `used` |
| data, `updateMask`, `mut` of the record | `rec[c].data`, `.mask` (the set of columns whose bit is set), `.mut` |
| a DAO method in progress | `call[c]`: `idle`, `sent` (with the statement captured), `answered` (with the answer) |
| a statement abandoned by its caller | `late` |
| `Insert`, `Update`, `FullUpdate`, `Delete`, `SelectBy<Key>` | actions of the same names: what is captured from the record |
| the server | `Execute`, `ExecuteLate`: one atomic effect per statement (`Answers`) |
| the end of the method | `Return` (scan and reset, by `Absorb`; the returned error, by `Outcome`), `Fail` (deadline, lost connection: at any moment; results that were `Scanned` before `Scan` returns the error stay in the record) |
| setters and mutators | `Set`, `SetKey`, `Add`; `New` for a new model |

A client is in one call at a time and does not touch its record during it: a
record is a plain Go value without a lock, and the documentation gives it one
owner. Different clients interleave between every two steps.

`known`, `touched` and `owed` are history variables: the value of each column
when it was last exchanged with the table, the columns changed since, and the
increments asked for but not acknowledged. No action's guard reads them.

`Tally` is what the mutators promise, without records, statements or columns: a
client asks for increments, which are added to the counters of a row together and
once, on top of what others have added; only if the call that added them is never
acknowledged may they be added again. (This the code cannot rule out: nothing tells the
server that an UPDATE is the retry of another. How often it may happen is not bounded
here.) `Counting` maps `ActiveRecord` to it:

| `Tally` | `ActiveRecord` |
|---|---|
| `count[k]` | the counters of `db[k]` |
| `asked[c]` | `owed[c]` |
| `taken[c]` | the effect in the answer, from the statement's execution until its call ends |
| `pending[c]` | `rec[c].mut` less `taken[c]` |
| `adrift` | the statements of `late` that write counters |
| `Take`, `Confirm`, `Doubt`, `Abandon`, `Late` | `Execute`, `Return`, `Fail` after and before the answer, `ExecuteLate` |

`Replicas` puts a replica beside that table. It lags: `Replicate` copies one row when
it likes. A SELECT may be answered by it (`ReadReplica`); the choice that
`ReplicaByOpt` makes is in `Connect`. So a client may hold, change and write back a
record that was stale when it was read. `during`, a history variable, holds what the
master's counters have been since each client's call was made.

`Batch` is one goroutine with a slice of records.

| Code | Model |
|---|---|
| the slice passed to a Multi method | `slice`, a function on `1 .. Size`; two records may have one key |
| `InsertMulti`, `UpdateMulti`, `DeleteMulti` | actions of the same names; `HasInsertMulti`, whether it is generated |
| the server's answer | `Answers(op)`: the rows stored, each with the record it really belongs to (`of`), which the program cannot see |
| the loop that scans rows into records by position | `Scanned`; the count compared afterwards is `Short` |
| reset of all records | `Resets` |
| an error in the middle of reading rows | `Fail` after `n` rows |
| other programs, and abandoned statements of this one | `Foreign`: a row appears or goes |

`Connect` is a program that connects, then reads and writes through what it has
opened, among hosts that go away and come back.

| Code | Model |
|---|---|
| `loadConnStrings`, `LoadPoolConfigs` | `LoadConnStrings`, `LoadPoolConnStrings`: the hosts of each handle, or an error |
| `NewConn`, `NewPool` | `New`; `NewConn` dials within the call (`Connected`, `Skip`, `Refused`, `Opened`), a pool when a query wants a connection |
| the `*Conn` or `*Pool` returned, beside an error too | `held` |
| the connections open on each handle | `conns` |
| `NewSelectOptions(WithReplica...)`, `ReplicaByOpt`, `Replica`, `ReplicaPerTable` | operators of the same names |
| a SELECT, a write | `Select`, `Write`, then `ServeRead` or `ServeWrite` and `Acknowledge` |
| replication | `version[host]`, how many writes the host has; `Replicate` copies one |

`Package` is `go generate` over a package whose developer moves models between files,
writes DAO types by hand and deletes generated files.

| Code | Model |
|---|---|
| a source file and the models declared in it | `home[m]` |
| the generated file | `gen[f]`, its declarations; `torn`, if it does not parse |
| a type written by hand under a DAO's name | `hand[d]`: nothing, a struct, an alias, or something else |
| `go generate` | `GoGenerate`, `Visit`: the sources in their order, those without models skipped |
| a run of the generator | `Parse`, `ParsePackage`, `Truncate`, `WriteFile`: what each has read is used by the next, whatever was edited in between |
| `NewExcludeFS` and the search for a DAO | `Readable`, `Noted`: the file to be generated is neither read nor counted, an alias is passed over, and of two declarations of a name the one read last counts |
| an error, a killed process, a full disk | `Fail`, `Crash`: the rest of the package is skipped; a file may be empty, cut off or without some models |

`clean` and `disturbed` are history variables: how many passes have been completed
over unchanged sources.

`acked` and `down` are history variables of `Connect`: the last write a goroutine was told of,
and the hosts that were unreachable at some time since it began to dial.

`Timeouts` is the tracer. Each connection is a process: `Connect` (AfterConnect),
`StartQuery`, then the look-up one read at a time (`LoadTableTimeout`,
`LoadTimeout`, `StoreTimeout`, `Fallback`), then `Respond` or `Expire`. `Edit`
changes the configuration between any two steps. `prevTimeout` is shared, as in
the code, where it is an atomic: load and store are steps of their own.

Outside the repository, and modelled from how the code uses them:

- PostgreSQL: a statement is one atomic step; the rows of RETURNING come in the
  order of VALUES, which `doc.go` relies on; a row matched by several records of
  an UPDATE is updated with one of them; a master has all the writes it made, a
  replica any prefix of them;
- pgx: it tries the hosts of a connection string in order and returns the first
  connection made; it closes a connection whose query failed or was cancelled;
- OnlineConf: `Edit`, between any two reads.

## 3. Runs

TLC checks these to the end of their state spaces.

| Run | Instance | Shows |
|---|---|---|
| `ar_users` | 2 clients, `users` of the sample model: key from a sequence, counter, trigger column, insert-only column | all the properties of a record when smart updates and refreshes race and fail |
| `ar_upserts` | 2 clients, `ext_links` with the counter of `user_views`: upsert, composite key | the same where a record may be counted on before its first INSERT, and where an INSERT merges into another client's row |
| `ar_seen` | 2 clients, a replica, `seen` with a counter: a conflicting INSERT is ignored | the tracking of a record that was not stored; what a record that was stale when it was read writes, what it counts on, and what it is told. The row is stored beforehand |
| `gen_columns` | every declaration over two columns, with database names that clash or not; three columns with every mix of the flags that decide a column's groups; 66 columns, around the limit of 64 bits; slices of 1 and 2 | the column groups, the setter bits, and every statement generated for the table |
| `gen_package` | 3 sources, 3 models, 2 edits, 1 killed run | that generation comes to rest on a package that builds |
| `batch_posts` | 2 records, a table with a column of each sort | positional scanning, with keys twice in a slice, rows missing, answers read in part |
| `connect_hosts` | 2 goroutines, 2 replicas, `Conn` and `Pool` | connecting, failing over and routing |
| `to_deadlines` | 2 connections, 2 edits | the timeouts in use, and that every query ends though the server may not answer |

The tables of the `ar_` runs are those of `internal/test/model.go`, with the
DEFAULTs and triggers of `internal/test/testdata/test-schema.sql`. That of
`batch_posts` has one column of each sort: one that INSERT and UPDATE write, one that the
storage fills and an UPDATE writes, a counter that the INSERT writes, and one that a
trigger maintains, so that the lists of columns in the template differ.

Properties of `ActiveRecord`:

- `CounterExactlyOnce`: the increments pending in a record are exactly those asked
  for and not yet added to a row by an acknowledged statement.
- `DirtyTracking`: a column whose bit is clear holds the value last exchanged
  with the table.
- `UpdateWritesOnlyChanges`: a smart UPDATE, a late one too, changes in the row
  only columns the application had changed, and those a trigger stamps.
- `SuccessReturnsActual`: success leaves in the record the row's counters, its
  key, and nothing marked as changed.

- `CountsAreTallied`: the counters behave as `Tally` says (a property that is a
  specification: TLC checks the refinement step by step).
- `CountersWereCurrent`, of `Replicas`: the counters that a successful call leaves in
  the record were those of the master's row at one moment of the call.

Of `Generator`:

- `GroupsAsDeclared`: the pass computes `Columns`, and rejects only what `Accepted`
  rejects.
- `SettersFindTheirBit`: walking two lists in step gives each setter its own bit.
- `BitsFit`: no bit beyond the 64th is used.

Of `Statements`, for every query of an accepted declaration and every set of changes:

- `PlaceholdersMatch`: the argument of each placeholder is what its place means, and
  no argument is left over.
- `ListsSeparated`: a comma precedes every piece of a list of columns, SET, VALUES or
  RETURNING but the first. The commas between the columns and rows of a key
  (`advpg.go.tmpl:282`, `910`) are not modelled.
- `ResultsFollowReturning`: RETURNING ends the statement, and the results are its
  columns in order, one stretch for each record. Of the smart UPDATE, which is put
  together at run time, `UpdateSendsChanges` says which columns are returned.
- `UpdateSendsChanges`: a smart UPDATE sets and adds exactly what setters and mutators
  were called for, of what it may write.
- `UpdateMultiRowsFit`: each record has one unbroken row in UpdateMulti's VALUES, which
  casts to the table's type, and holds what SET and WHERE read and nothing else.

Of `Package`:

- `TwoPassesBuild`: two complete passes over unchanged sources leave a package in
  which every identifier is declared once and no DAO is missing, unless a file of
  a source that has no models any more is left behind, or a DAO is an alias written by
  hand (`Aliased`). One pass may not be enough:
  the DAO of a model that has moved to an earlier file is found in the generated
  file that it is about to vanish from.
- `ThirdPassChangesNothing`: from then on each file is rewritten as it is.
- `ComesToBuild`: when edits and killed runs have ended, the package comes to build,
  unless it waits for the developer (`Unrepaired`).

Of `Batch`:

- `BatchCounters`, `BatchTracking`: what `CounterExactlyOnce` and `DirtyTracking` say,
  for each record of a slice with respect to its own row, whatever was scanned
  into its neighbours. `InsertMulti` resets every record of the slice, so the first holds
  of tables whose counters it writes and of whose records it skips none.
- `BatchReturnsActual`: after a successful batch with RETURNING columns each record
  has the values of its own row, and no two records have the same row.

Of `Connect`:

- `ReadsOwnWrites`: a read in a transaction, one that asks for the master, one that
  neither option nor configuration sends to a replica, and any read of a program
  without replicas, sees the writes its goroutine was told of.
- `DialsInOrder`: a connection is made to a host only if those before it were
  unreachable at some time since the dialling began, and dialling fails only if
  the master was.
- `CallerHoldsConnections`: what is open when `NewConn` or `NewPool` returns is in the
  value it returns, even beside an error.

Of `Timeouts`:

- `TimeoutWasOffered`: a query's timeout is one its settings held since it began, or
  the fallback.
- `FallbackWasConfigured`: the fallback is a timeout `/timeout` has stood for.
- `EveryQueryEnds`: whatever the server does.

### Bounds

- *Clients* of a table: two. Every property relates one client's record to the
  table, or one client's statement to what anybody else stored; a third client
  could only repeat what the second does to the table.
- *Keys*: one: rows do not influence one another except through the sequence, and
  with one key all clients collide on it, the interesting case. `Batch` has two,
  and the theorems hold for any number.
- *Values*: `Blank` 0, one value to set, DEFAULTs that no setter stores, two stamps so
  that a trigger can always change its column. Distinct origins have distinct
  values, so a column that holds a value from the wrong origin shows.
- *MaxCalls* of `ActiveRecord`: three calls, by all clients together: a read, a
  foreign write and a write back; a failed call, its late execution and a retry.
- *Earlier*, the keys whose row is stored beforehand. `ar_seen` has one: a foreign write, a
  SELECT that the replica answers with the row as it was, and a write back of that
  record are three calls, which from an empty table would be four. `ar_users` and
  `ar_upserts` start from an empty table, so that INSERTs and conflicts come first.
- *Issued*, the calls that are made: all of them, but for `FullUpdate` in `ar_seen`. It
  writes every column of a stale record by its purpose, and `ar_users` and `ar_upserts`
  have it. The theorems leave both constants open.
- *MaxMut*: pending increments stay within 1; the sums in the row do not.
- `Batch`: two records, two keys, two calls and one change by others. A row
  shifts into another record's place with two records already. The second call
  starts from what the first left; the foreign change makes a row that was stored
  go missing, or one that was free be taken.
- `Connect`: two replicas, so that dialling has a first, a middle and a last host;
  any of the hosts may be down at the start, and one goes away later; one write
  tells a replica that lags from one that does not; one edit of
  `force_replica_usage`.
- `Package`: three sources, so that a file has others before and after it; two edits
  move a model and its DAO separately, or one there and back; one killed run. Three
  models with DAOs of their own, one under a name that was asked for.
- *Slices* of `Statements`: lengths 1 and 2, as the second record's placeholders
  follow the first's.
- *Columns*: two for all flags together, three for the flags that decide the
  groups, 66 for the limit of the mask.
- `Timeouts`: two edits, so that the configuration changes after a first and after a
  second read of the same query; the setting is 0, missing (which means 2) or
  unreadable.

The `ar_`, `batch_` and `connect_` configurations and `gen_columns` switch the
deadlock check off: the bounds, the end of the generator's work, or a program that
failed to connect, stop the system. `to_deadlines` and `gen_package` keep it on.

### Fairness

`EveryQueryEnds` and `ComesToBuild` need some. In `Timeouts`, weak fairness of `Look`
says that a goroutine in `TraceQueryStart` goes on running: its steps never block.
Weak fairness of `Expire` says that the timer of a context with a deadline fires.
`Respond` is not fair: the server may never answer, and `Edit` is not: nobody has to
repair a malformed setting.

In `Package`, weak fairness of `Work` says that a `go generate` that has begun runs to
its end, as it waits for nobody; that of `GoGenerate`, that the developer runs it
again. Nothing says that an edit is made or a run killed. The fairness is not what
makes a package build: `ComesToBuild` is violated if a run may not read a package
whose own generated file is broken.

### Disagreements with the documentation

Four runs expect a violation. Each checks one statement of a comment or the
documentation that the code does not keep for some declaration, setting or slice;
`PROJECT.json` quotes the line beside the code's.

| Run | What the code does |
|---|---|
| `doc_insert_counts` | increments made before the first INSERT of a counter the storage initialises are dropped |
| `doc_update_multi` | a key twice in the slice: the row may keep the values of the first of the two records, and both are reset |
| `doc_fallback` | without replicas the tracer starts from a last good timeout of zero |
| `doc_shared_dao` | a DAO shared by two models is declared once for each: the type, its constructor, `Insert` and the other methods |

Read in the source while modelling, and part of the models, without a run of
their own:

- an upsert sets a `DisableInsert` column to its DEFAULT (`doc.go:267` says that
  inserts ignore it);
- an upsert neither inserts nor returns a counter with `DisableInsert`, but adds to
  it: the record keeps the value it had, though `doc.go:280` says that the actual
  value is returned (`CountersReturned` below excludes it);
- a table's timeout above `/timeout` is cut short by the connection's
  `statement_timeout` (`conn/doc.go:61`);
- smart updates and the counters of `UpdateMulti` leave `SQLValue` out, where
  `FullUpdate` and upserts have it;
- UpdateMulti's VALUES repeats a database column that several `SQLValue` columns
  share, so that the row no longer fits the table (in `Statements` a column is its
  Go field, whatever its name in the database);
- a table none of whose columns an INSERT writes gets `INSERT INTO t () VALUES ()`,
  which PostgreSQL rejects;
- `InsertMulti` resets every record of a slice that succeeded, also the counters that are
  not in VALUES (`InitByStorage`) and the records that DO NOTHING skipped: what they
  had counted is lost (`advpg.go.tmpl:588`; `CountsStored` below excludes it);
- a DAO type written by hand as an alias is passed over (`parse_package.go:102`) and
  declared again: the package does not build until the developer replaces it;
- a failed `Row.Scan` may leave the results in the record (`Fail`), with flags and
  counters as they were;
- an empty slice makes `InsertMulti` and the selectors by key structs send a
  statement without values;
- a generated file is looked up relative to the working directory, and the `_test.go`
  files of a package count when a DAO is looked for;
- a source whose last model has moved away but whose `go:generate` line stays fails
  with "no Table is declared", which stops the rest of the package (`Fail`);
- an ignored INSERT of a table with RETURNING columns succeeds and keeps the
  flags; without RETURNING columns it cannot be told from a stored one, and they
  are reset;
- a counter of a table that is not upserted is inserted as its increments only;
- an upsert does not read back the columns a trigger maintains;
- `DisableInsert` and `DisableUpdate` switch off `InitByStorage` and `UpdateByStorage`;
- a `DisableUpdate` column has a setter when the INSERT writes it;
- no `FullUpdate` is generated for a table of counters only;
- the limit of 64 counts setters of columns that take no bit;
- the error for an empty replica list (`config.go:85`) is never returned, as a split
  string has at least one part.

And outside the models:

- `Order` fields are not checked by `linkIndicesToColumns`: one that names no column
  makes `IterateIndexOrder` panic (`gen.go:186`);
- of two `Table` variables for one model, and of two `Field` entries for one column,
  the last one wins;
- `dupMethods` looks for clashes within one model only;
- `Close` of a `Conn` or a `Pool` is the master's, promoted: the replica's
  connections stay open;
- a `connect_timeout` below a second becomes 0.

## 4. Proofs

TLAPS checks these for every declaration, whatever the number and the flags of its
columns (`Generator` and `Statements` have all of them, the modules about records those
within `TableAssumption`), any number of clients, keys, values and calls, keys of any number of
columns, slices of any length, any number of connections, replicas, failures and edits,
and packages of any number of sources and models.

| Theorem | Says | Assumes |
|---|---|---|
| `ActiveRecord_proofs!TypeCorrect` | `Spec => []TypeOK` | the constants' assumptions |
| `ActiveRecord_proofs!TrackingCorrect` | `Spec => []DirtyTracking` | `InsertTracked` |
| `ActiveRecord_proofs!UpdatesWriteChanges` | `Spec => UpdateWritesOnlyChanges` | the constants' assumptions |
| `Counters_proofs!CountersCorrect` | `Spec => []CounterExactlyOnce` | `CountsStored` |
| `Counters_proofs!CountingCorrect` | `Spec => CountsAreTallied` | `CountsStored` |
| `Counters_proofs!CountingWithReplicas` | `ReplicaSpec => CountsAreTallied` | `CountsStored` |
| `Counters_proofs!StaleRecordsWriteChanges` | `ReplicaSpec => UpdateWritesOnlyChanges` | the constants' assumptions |
| `Counters_proofs!SuccessMeansActual` | `ReplicaSpec => SuccessReturnsActual` | `CountersReturned` |
| `Counters_proofs!CountersStayCurrent` | `ReplicaSpec => CountersWereCurrent` | `CountersReturned` |
| `Generator_proofs!TypeCorrect` | `Spec => []TypeOK` | the constants' assumptions |
| `Generator_proofs!GroupsCorrect` | `Spec => []GroupsAsDeclared` | the constants' assumptions |
| `Generator_proofs!SettersCorrect` | `Spec => []SettersFindTheirBit` | the constants' assumptions |
| `Generator_proofs!BitsCorrect` | `Spec => []BitsFit` | the constants' assumptions |
| `Statements_proofs!PlaceholdersCorrect` | `Spec => []PlaceholdersMatch` | the constants' assumptions |
| `Statements_proofs!ListsCorrect` | `Spec => []ListsSeparated` | the constants' assumptions |
| `Statements_proofs!ResultsCorrect` | `Spec => []ResultsFollowReturning` | the constants' assumptions |
| `Statements_proofs!UpdateSendsCorrect` | `Spec => []UpdateSendsChanges` | the constants' assumptions |
| `Statements_proofs!RowsFitCorrect` | `Spec => []UpdateMultiRowsFit` | the constants' assumptions |
| `Batch_proofs!TypeCorrect` | `Spec => []TypeOK` | the constants' assumptions |
| `Batch_proofs!CountersCorrect` | `Spec => []BatchCounters` | `CountsStored` of `Batch_proofs` |
| `Batch_proofs!TrackingCorrect` | `Spec => []BatchTracking` | `Trackable` |
| `Batch_proofs!ReturnsActual` | `Spec => BatchReturnsActual` | the constants' assumptions |
| `Package_proofs!TypeCorrect` | `Spec => []TypeOK` | the constants' assumptions |
| `Package_proofs!TwoPassesCorrect` | `Spec => []TwoPassesBuild` | `Compatible` |
| `Package_proofs!GenerationIdempotent` | `Spec => []ThirdPassChangesNothing` | `Compatible` |
| `Timeouts_proofs!TypeCorrect` | `Spec => []TypeOK` | the constants' assumptions |
| `Timeouts_proofs!FallbackCorrect` | `Spec => []FallbackWasConfigured` | `HasReplica` |
| `Timeouts_proofs!OfferedCorrect` | `Spec => []TimeoutWasOffered` | the constants' assumptions |
| `Connect_proofs!TypeCorrect` | `Spec => []TypeOK` | the constants' assumptions |
| `Connect_proofs!ConnectionsHeld` | `Spec => []CallerHoldsConnections` | the constants' assumptions |
| `Connect_proofs!ReadsSeeWrites` | `Spec => ReadsOwnWrites` | the constants' assumptions |
| `Connect_proofs!DialsCorrect` | `Spec => DialsInOrder` | the constants' assumptions |

The hypotheses are about declarations and settings, and the code needs them.
`CountsStored`: if a record may be counted on before its first INSERT, then the
INSERT writes all counters, and one that is ignored can be told from one that is
stored. `doc_insert_counts` is a declaration outside it. `CountsStored` of a slice says the
same of `InsertMulti`, where it is generated for a table with counters: it writes all
counters, and skips no record. `InsertTracked`: the INSERT
reaches every column a smart UPDATE may write, and again an ignored one can be
told. `CountersReturned`: an upserting INSERT returns every counter, which it does
not for one with `DisableInsert`. `Trackable`, of a slice: the INSERT reaches every
column an UPDATE may write; an UPDATE returns a column, so that a batch which missed a
row is told from one that did not (`reset` and the scan of missing rows are hazards of
`PROJECT.json`); and a DO NOTHING skips no record, as the storage hands out the keys.
`Compatible`: no two models share a DAO or the
name of a key struct, and the property itself excepts hand-written aliases;
`doc_shared_dao` is a package outside it. `HasReplica`:
`doc_fallback` is the program without replicas.

None of the invariants is inductive.

- `CountInv` adds what connects the moments of a call. While a statement is in
  flight it carries exactly the record's pending increments (`Carries`): the
  record is left alone until the answer. An answered statement that stored
  something added to the row just what it carried (`Answered`). `Return` can then
  subtract the effect from `owed` and reset `mut` together. The lemma about
  `Answers` that this rests on has one case per branch of the server's behaviour.
- `TrackInv` adds that the statement in flight writes the columns the record marks,
  with the record's values (`Sends`), and that the row in the answer holds them
  (`Kept`): no trigger stamps a column the statement writes, since the column
  groups are disjoint.
- `ChangedInv` says that whatever a record marks has been changed since its last
  exchange (`Marked`), and so that the UPDATE in flight, or given up, writes only
  what its client had changed when it was sent (`Honest`). That a row loses nothing
  else follows from what PostgreSQL makes of it (`HonestEffect`).
- `TallyInv` is `CountInv`, and that statements given up are well formed and answers
  without a row have had no effect. The refinement has a lemma for each action; the
  ledger of a client in each phase of its call (`Ledgers`) says what the mapping
  comes to there. An answer from the replica is a stutter.
- `CurrentInv` adds to the types that a statement is about the row of its client's
  record (`Keyed`), and that the row in an answer, but a SELECT's, has been in the
  master since the call was made (`Current`).
- `PackageInv` follows a pass through the files (`PassInv`, `FreshInv`, `SettledInv`):
  after one complete pass no file declares a model that has left its source, and
  during the second each file visited becomes what it will stay, as the DAO types
  it finds elsewhere are those that stay.
- `FallbackInv` adds that the present setting, `prevTimeout` and every value on
  its way to being stored there have all been configured.
- `MasterInv` adds that the master's handle knows no other host, so that a query on
  it reaches the master, and that no acknowledged write is newer than the
  master's version. A read that must not be stale is routed to that handle
  (`RouteCorrect`, which looks at every combination of options, transaction and
  configuration), and so sees them all.
- `HeldInv` says how far `NewConn` has come: nothing is open before it starts, the
  replica is dialled only after the master, and an error leaves open at most the
  connection that is returned beside it.
- `DialInv` adds that the last host of each list is the master, and that the hosts
  skipped, and those that are down now, are in `down`.

- `OfferedInv` adds that while a query is under way its set of offered timeouts has
  the present settings, and has the one that was read for it from then on.
- `FillInv` says how far the pass over the columns is: each group holds its columns
  among those seen, in the table's order (`Sound`), which makes each list free of
  repetitions and bounds its length; no column seen was one to reject; and in the
  state `error` there is a reason for it.
- `WalkInv` says how far the walk over the setters is: the setters passed and the
  updatable columns left behind are matched one to one, and the setters of the other
  updatable columns are still to come (`Matched`). That the index into the shorter list
  never skips a column needs the order of both lists, from `FillInv`.
- `TypeInv` of `Batch` adds what an answer says of the slice (`AnswerInv`): as many rows
  as records are the records' rows, each in the place of its record, and no two rows have
  one key. `BatchCounters` is inductive beside it: under `CountsStored` a batch takes all the
  increments of a record it has a row for (`AllTaken`). `CountersNext` and `TrackingNext` then have one case per call, and follow the
  scan of the answer record by record.
- The statements need no invariant beyond `FillInv` and `WalkInv`: they are functions of
  the groups. Each theorem follows a set of queries through the loops that build them:
  `Built` (each placeholder so far has its argument), `Scanned` (the results of the
  first `j` records), `Rowed` (the rows of the first `j` records), `Valued` (their
  commas), `Changing` (a list of changed columns), `WithMentions` (the columns named so
  far).

The loops are folds of the community modules, that is, recursive functions. The library's
theorem that such a function exists takes an operator, which the provers cannot
instantiate; `Statements_proofs` proves induction over numbers by counting instead
(`Induction`: adding 1 would map a finite set one to one into a smaller one), from it that
a fold of a given function exists, and from that one lemma per loop which names the query
after each round (`AppendItemsLoop`, `AppendChangedLoop`, `AppendRowsLoop`).

Every invariant and every action property of the passing runs is a theorem. Only
model-checked are the liveness properties `EveryQueryEnds` and `ComesToBuild`: liveness
under fairness is out of the prover's reach.

## 5. Not modelled

- The parser (`parse_var.go`, `parse_struct.go`) turns a Go syntax tree into `advpg`
  values by reflection: a pure conversion without a protocol. `Package` has what
  depends on when it runs.
- Formatting and imports of the output, the flags of the command line tool: text
  and I/O. Of names, `Package` keeps what they are formed from.
- The errors of `linkIndicesToColumns` and `dupMethods`, which reject a declaration
  once and for all.
- `SQLValue` and `SQLScan`, which wrap a placeholder or a column; `LIMIT`, `OFFSET`,
  `ORDER BY` and `Condition`, which bind nothing.
- The order in which a replica replays writes to different rows: `Replicas` copies
  each row when it likes, which allows more than a replica does.
- `DisableActiveRecord`: such a record keeps no state between calls.
- PostgreSQL's transactions: the DAO issues single statements; a caller that
  brackets several in a transaction narrows the interleavings. `Connect` has them
  as far as routing goes.
- The numbers handed to pgx (sizes and durations of the pool, `connect_timeout`), its
  idle connections and health checks, tracers for metrics.
- The error returns of `NewPool` (`conn.go:182`), which opens no connection within the
  call, and the connections that a pool opens on its own account in the background.
- The commas and the AND between the columns and rows of a key in a WHERE.
- Settings edited while `NewConn` reads them one by one: `Connect` reads them in one
  step.
- `SelectBy<Index>` and `DeleteBy<Index>` for indices other than the primary key: their
  records are placed as those of a SELECT by key.
- Wrap-around of 64-bit counters in the row: PostgreSQL reports an error, which
  is `Fail`.

## 6. Plan

Done: `Columns`, `Generator`, `Statements`, `Records`, `ActiveRecord`, `Tally` and its
refinement, `Replicas`, `Batch`, `Timeouts`, `Connect`, `Package`, and the theorems about
them. Next, in this order:

1. A bound on how often an unacknowledged increment may reach the row: once more
   for each failed call. `Tally` has the state it takes.
2. `NewConn` reading its settings one by one while they are edited, in `Connect`
   (`config.go:43`).
3. The safety half of `EveryQueryEnds`: no query outlives the deadline it was given.
4. `SelectBy<Index>` and `DeleteBy<Index>` over several rows.
