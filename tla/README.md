# Database Flow in TLA+

A verification project for [Database Flow](../src/README.md): TLA+ modules of the
parts of the server and of its web client whose correctness depends on
interleavings, failures and ordering, TLC configurations that check them on
small instances, and proofs checked by TLAPS that hold for every instance.

Paths below are relative to the repository; `app/` is the server,
`client/src/main/scala/` (here `client/`) the Scala.js client, `shared/` the
code both are built from.

## 1. The system

A user's page opens a WebSocket for one database connection. On the server each
WebSocket is an Akka actor (`SocketService`), which handles one request at a time
and hands slow work to a pool of threads (`DatabaseWorkerPool`). The threads talk
to the user's database through a JDBC pool (`DatabaseConnection`), to the master
database (settings, users, catalog of cached results) and to the result cache
database (one table for each cached result). A supervisor actor owns the actor
that cleans the result cache up. Everything else is process-wide singletons with
mutable maps, reached from any thread.

| Component | State | Operations | Talks to | What is hard | What makes it correct |
|---|---|---|---|---|---|
| Result cache (`services/result`, `models/result`, `models/queries/result`) | rows of `query_results` in the master database, tables `result_<id>` in the cache database | register, create, fill, complete; remove (rerun, close, administrator); clean-up; drop orphans | query execution, shared results | two databases and no common transaction or lock; four parties delete; restart between any two statements | a listed result keeps its table; nothing is removed but what was asked for or is old and unshared; orphans are reclaimed |
| Query execution (`QueryExecutionService`, `CachedResultQuery`, `JdbcUtils.sqlCatch`) | running statements, position in a script | run, next statement, cancel, answer | worker pool, result cache, audit | exceptions anywhere; answers from several threads; page and row limits | the client is told the truth about the result set |
| Shared results (`SharedResultService`) | rows of `shared_results` | save, delete, look-ups by table name | result cache | look-up before removal | a shared result is not removed |
| Socket transactions (`TransactionHelper`, `SocketService`) | `activeTransaction` of the actor, a leased JDBC connection | begin, commit, rollback, postStop | worker pool, JDBC pool, client | statements run later, on other threads, on a captured handle | statements are atomic with their transaction; connections come back |
| Client transaction panel (`TransactionService`, `NetworkHelper`, `NetworkSocket`) | `inTransaction`, `numStatements`, the socket | begin, commit, rollback, react to statuses, reconnect | socket actor | messages in flight; lost connection | what the user is told is so |
| Worker pool, JDBC pool (`DatabaseWorkerPool`, `DatabaseConnection`) | threads, leased connections | submit, getConnection, close | everyone | bounded resources | every lease has a holder |
| Query runs: audit records, cancellation, progress (`AuditRecordService`, `ProgressManager`) | audit rows, `activeQueries` on both sides | start, complete, error, cancel | query execution | detached start, fresh ids, ids forgotten | a record does not stay started; a query can be cancelled |
| Schema cache (`SchemaService`, `SchemaRefreshService`, `StartHelper`) | `schemaMap`, `activeRefreshes` | get, force, refresh, await | worker pool, registry | unsynchronised maps, callbacks before registration | refreshes terminate and never bring an older schema back |
| Connection registry (`DatabaseRegistry`, `ConnectionSettingsService`) | map of open pools with their settings | open, reset, flush, update, delete | settings rows | check then act; flush before update | one pool for a connection, with its current settings |
| Users (`UserService`, `UserSearchService`, `UserCache`, registration) | user rows, password rows, cache | register, save, update, remove, look up | master database | cache filled after the row was read | a removed user is gone; one first administrator |
| Settings (`SettingsService`) | settings rows, map in memory | load, set | master database | two copies | they agree |
| SQL text (`SqlParser.split`, `ParameterService.merge`) | none | split a script, substitute parameters | query execution | quotes, delimiters | no text is lost or moved to another statement |
| Permissions (`Role.matchPermissions`), row data, saved queries, plans, metadata, GraphQL, explorer, charts, migrations, pages | little or none | requests and conversions | master and user databases | data conversion rather than control | |

`PROJECT.json` lists the components with their status, and 40 hazards at the
lines where they bite, with the properties that cover each or the reason why none does.

## 2. The modules

| Module | Over it | What it composes |
|---|---|---|
| `ResultCache` | `MCResultCache`, `ResultCacheProofs` | workers, two databases, clean-up actor and its supervisor, administrators |
| `TransactionSession` | `MCTransactionSession`, `TransactionSessionProofs`; implements `TransactionalStore` | page, socket, socket actors, worker threads, JDBC pool |
| `SchemaRefresh` | `MCSchemaRefresh`, `SchemaRefreshProofs` | requests, refreshes and their callbacks, two maps, a database that changes, page |
| `QueryRuns` | `MCQueryRuns`, `QueryRunsProofs` | tab of a page, socket, socket actors, workers, table of running statements, audit records |
| `ConnectionRegistry` | `MCConnectionRegistry`, `ConnectionRegistryProofs` | requests for a pool, saves and deletes of settings, stop of the server |
| `UserAccounts` | `MCUserAccounts`, `UserAccountsProofs` | registration, profile, administrators, two tables, cache |
| `RowPages` | `MCRowPages`, `RowPagesProofs` | tabs and panels of a page, the socket, requests, worker threads |
| `SqlScript` | `MCSqlScript`, `SqlScriptProofs` | one function, a step at a time, against a reference definition |

The modules share no state. Where two of them meet the same code, each has the part its
properties are about: `ResultCache` has what a run does to the two databases, `QueryRuns`
what it tells the page and the audit table, `TransactionSession` on which connection it
runs. No module has a recursive operator; `SqlScript` has a recursive function.

What a further extension would take up: the substitution of parameters, and the theorems that a
liveness property rests on (what never goes back, and what bounds the steps that remain).

## 3. ResultCache

One module for `QueryExecutionService.handleRunStatements`, `CachedResultQuery`,
`CachedResultInsert`, `CachedResultService`, `CachedResultActor`,
`SharedResultService` and the two administrator pages. One step is one statement
on one of the databases, one message, or one handler without either.

| Code | Model |
|---|---|
| `CachedResultQuery.reduce` and its caller, one worker thread | `pc[r]`: find, execute, register, create, fill, complete, done; `count[r]` is `rowCount` |
| rows of `query_results`, `Status` | `status[r]` |
| `result_<id>` tables | `tables` |
| `shared_results.source_name` | `shared`: pairs of an id and whether the name has the prefix |
| `out ! ...` | `sent` |
| calls of `CachedResultService.remove` | `tasks`, with a position: test, delete row, drop table |
| loops over results to remove | `todo`, one id after another; the Futures of a rerun go straight to `tasks` |
| local variables of `cleanup` and of the administrator's page | `cleaner`, `admin` |
| two days | `Age`, which may come at any time after the row is inserted |

`sqlCatch` turns an exception of any statement into an error message
(`Fail`) and the worker's later statements still run (`NextStatement`). A result
dropped under its worker makes the next insert fail. `CleanupFails` is the
uncaught exception of `cleanup`, followed by the supervisor's `Stop`. `Restart`
keeps both databases and loses everything else.

Names of tables are records and not strings: `TableName` is what is stored,
`HexName` what `containsResultId` looks for.

Bounds and why they suffice. Page size 2 and row limit 4 leave sizes on both
sides of each limit: 0 (not cached), 2 (exactly a page), 3 (more), 4 (exactly
the limit), 5 (over it). One result is enough for everything between one
worker and the parties that delete (`ResultCacheOne.cfg`, with one
socket-or-administrator, the clean-up and one restart). Two results of one query, or two statements of
one run, are enough for a rerun that removes what is still being filled
(`ResultCacheRerun.cfg`, symmetric in the results; ids run out, hence no deadlock
check). Removals never relate more than one result to its remover, so a third result
adds no new interleaving.

Fairness (`FairSpec`): pool threads and futures run (weak fairness of each
worker and of each removal), and the clean-up is scheduled every ten
minutes. Nothing is assumed of users, administrators, sharing, ageing and
restarts. `OrphansReclaimed` therefore says "or the actor was stopped", which a
table dropped between the list and the drop brings about.

Not modelled: exceptions of the two internal databases inside a removal, other
than a table that is missing; the text of statements; sort and filter of rows.

## 4. TransactionSession

`TransactionSession` composes four parties; the first word of each group of
variables tells whose it is.

| Code | Model |
|---|---|
| `TransactionService.inTransaction`, `begin-tx-link`, `numStatements`, the notices | `inTx`, `link`, `counted`, `notice` |
| `NetworkSocket` and the WebSocket | `socket`, `inbox`, `outbox`; order is kept, a lost connection drops a suffix of the requests and all answers |
| the socket actor, `activeTransaction` | `life`, `active`, `closing` (between `commit()` or `rollback()` and `close()`) |
| an exception in a handler, `PoisonPill` | `PostStop`: rolls back and does not close |
| `activeTransaction.getOrElse(db)` | `Captured`, stored in `runOf` when the request is handled |
| a worker thread | `runPc` |
| HikariCP | `leased`; a connection returned is rolled back, a statement on a closed one fails |

`counted` is the set whose size the client shows. `trust` and
`believed` are history variables: what the client's flag rests on (`sure`: this
connection's server confirmed it; `asked`: the user asked to end it; `stale`: it was
confirmed on an earlier connection), and which of them held when a statement
was submitted.

`TransactionalStore` is what a user relies on: a statement of its own takes
effect at once, those of a transaction together at its commit or never, and
nothing is taken back. The refinement maps the transaction's fate to `phase`,
the captured handle to `owner`, uncommitted work of an open transaction to
`work` and committed statements to `store`. A statement that runs after the commit on the
connection is a stutter of the store: it has no effect, though the client
counts it.

Bounds: two socket actors (before and after a lost connection), two
transactions, two statements, a pool of two connections (so that begin and a
statement may find it empty) and one request in flight
(`TransactionSession.cfg`); one transaction and one statement with two requests in flight
for the liveness property and the violation. Transactions and
statements are used up, hence no deadlock check. Every property relates at
most two actors, two transactions, or one statement and its transaction.

Fairness: actors handle their messages and threads run. The user and the network
promise nothing.

Left out: messages other than those of transactions and statements, the
size of the thread pool (any number of statements may be running), a
database that ends a transaction by itself or loses a connection other than by failing
the statement or the commit, statements that commit implicitly.

## 5. SchemaRefresh

`SchemaService` and `SchemaRefreshService`, the callers that ask for a schema
(the page when its socket starts, its "Refresh Schema", a web page or GraphQL
query that needs details, the save of an edited connection) and the page they
answer. One step is one read or write of either map, one read of the database,
or one message.

| Code | Model |
|---|---|
| the thread that serves a request | `pc[r]`, from `getSchema` (get, calculate, setRead, setWrite, reply) on to `refreshSchema` (lookup, check, join, submit, register) |
| the two calls of `refreshSchema`, inside `getSchema` and after the reply | `call[r]`: inner, without callbacks, and outer; the refresh each may submit is the job `<<r, call[r]>>` |
| `schemaMap`, an immutable map in a variable | `schemaMap`, and `copy[x]`, what a thread has read of it before it writes the whole back |
| `activeRefreshes` | `activeRefreshes[c]`: a job or none |
| the Future of a refresh and its `onComplete` | `jobPc[j]`: working, completed, write, remove, notify, done |
| `activeRefreshes(id).map { ... }` | `joined[r]`, called back by `NotifyJoiner` once the job has completed |
| `MetadataManager.schema`, `pendingRefresh` | `shown`, `pending` |
| the tables of a database | `version[c]`; a schema is a version and whether it has details |

`since`, `asked` and `late` are history variables: the version of the tables when a
request was made, at the last click, and the refreshes that were registered after their
removal. `Refuse` is the exception in `refreshSchema`: it ends in a `Try` that no caller
looks at, so the request is never answered. `CallbackRemove` removes whatever is
registered for the connection, as the code does.

Bounds. `SchemaRefresh.cfg` has one connection, two requests (hence up to four
refreshes) and one change of the tables: enough for a refresh to be awaited,
overwritten, removed by another, or registered late, and for a schema to be older
than a request. With one connection no write of the map can lose an entry;
with two it can (see the findings). The theorems of section 12 hold for any
number of connections. Requests are used up, hence no deadlock check.

Fairness: the threads that serve requests, the refreshes and the callbacks run.
Nothing is assumed of users or of the database. `AnsweredOrRefused` therefore says
"or the exception nobody sees".

Left out: the threads of the pool are unbounded; one operation of the mutable map is atomic;
a page has one socket, and handles an answer when it is sent; the tables
captured by a refresh and their details are of one version; the actor's own copy of the schema.

## 6. QueryRuns

One tab of the page and the runs its user starts from it. A run is whatever marks the tab and comes with a
fresh result id: a script (`"run"`), a request with one answer (`"single"`: a plan, the first page of a table or view), or
the call of a procedure, which the server never answers (`"call"`). A result that is sorted or filtered again marks its tab
too; that is in `RowPages`. The first word of each group of
variables tells whose it is: `client`, `wire`, `worker`, and the audit table.

| Code | Model |
|---|---|
| `ProgressManager.activeQueries(queryId)` | `mark`: a run or none |
| the panels of the tab, loading or with an answer | `page`, a sequence; `busy` is the loading panel with its cancel link |
| `startProgress`, then the statement under the cursor, then `sendMessage` | `Click`: the mark is set whether or not the request goes out |
| `completeProgress` | `CompleteProgress`, `Place` |
| result ids: the page's, and `UUID.randomUUID` of a further statement | `<<r, 0>>`, `<<r, 1>>`, ... |
| `QueryExecutionService.activeQueries` | `active` |
| `handleRunStatements`: work, `onSuccess`, `onFailure` | `pc[r]` and `at[r]`; `Execute`, `SendPage`, `Finish`, `Throw`; `Conclude`, `ConcludeBreaks`, `Respond` |
| `PlanExecutionService`, `RowDataService` | `Explain`, answered by the same `Respond`; a refusal is a `ServerError`, which lifts no mark |
| `ProcedureService.callProcedure` | no answer (`broken`), or an unknown procedure, which stops the actor |
| `AuditRecordService.start` (a Future of its own), `complete`, `error` | `record[s]`: pending until `AuditInsert`; an update before it finds no row, and the record is late |

`away` is a history variable: the runs that were marked when their tab was closed.
`Excused` is the list of what may keep a tab busy for good: the request was not sent or its connection or actor is gone, the
answer was a `ServerError`, the callback threw, it is a procedure's call, or the tab was closed. The properties say
that nothing else keeps a run's mark; they do not speak of the mark of a result that is sorted or filtered again.

Bounds (`QueryRuns.cfg`): a first run that is a script of two statements, a request with
one answer or a call, a second with one statement or none, two answers under way, one cancel, and one lost connection or closed tab.
A second run is what an answer of the first can be taken for. The script of two is what the order of
answers and the fresh id need; the empty script is what stops the actor. The audit
record watched is the second run's: records of different statements have nothing to do with
one another, and the theorem holds for all of them.

Fairness (`FairSpec`): actors handle their messages, threads run, statements end, and an open socket
delivers. Each worker and callback is one weakly fair disjunct, as a thread of the pool is. The user,
the network and the audit insert promise nothing.

Left out: rows and the content of answers; more than one tab, since the maps are keyed by the tab.

## 7. ConnectionRegistry

`DatabaseRegistry`, `ConnectionSettingsService`, the page that saves a connection, and
`Role.matchPermissions`. The map is an unsynchronised `mutable.HashMap`, so each look-up and each
write of it is a step of its own. While one thread changes it (`Writing`), the registration or the removal of another may be lost,
a look-up may miss what is there, and two changes together may drop the entry of a third connection (`Vanish`).

| Code | Model |
|---|---|
| `databases`, a pool and its settings for each connection | `entry[c]`, `cached[c]` |
| the pools that `connect` opens | `pool[t]`, named after the thread that opened it |
| `databaseForUser`, `databaseFor` | `Hit` or `Miss`, `Read`, `Connect`, `Put`; `Decide` is `resultFor` |
| rows of `connections` | `row[c]`: the number of a version of the settings |
| `ConnectionSettingsController.save` | `Load`, `Check`, then `Insert`, or `Flush`, `Close`, `Update`, `Unregister` and a look-up |
| `databases.remove` | `Unlink`, or `UnlinkLost` while somebody else changes the map |
| `DatabaseRegistry.flush`: removal, then close | `Flush`, `Close`, with the pool in `taken[e]` in between; a lost removal may or may not have found the pool |
| `DatabaseRegistry.reset` | `Unregister`, then the thread goes on as a request |
| `ConnectionSettingsService.delete`, `DatabaseRegistry.close` | `Delete`; `CloseAll`, `ClearAll`, which may miss pools while the map changes |

The history variables name the accidents that the code allows, and each property says that there
are no others: `lost` (pools forgotten without a close), `during` (rivals of a
request that is opening a pool, and the pool its look-up has missed), `stuck` (pools that a lost removal has left
registered, closed or of old settings), `raced` (pools of settings that had changed before they were
registered), `outlived` (pools whose connection was deleted).

Bounds (`ConnectionRegistry.cfg`): two connections, one request, two saves, three versions. After its reset
a save asks for the pool as a request does, so there are three openers. The first settings
admit the user and the second do not, which is where a cached permission and the row differ.

Left out: growth of the map's table (from 13 connections on; a smaller table is an array of linked lists, whose
accidents are the ones above); the test page, whose pools live for one request; the fields of the
settings; the sockets that keep a pool they got earlier.

## 8. UserAccounts

| Code | Model |
|---|---|
| rows of `dbf_users`, of `password_info` | `users[i]`, `passwords` (addresses) |
| `UserCache`: `user.<id>` and `user.<address>` | `byId`, `byKey`; `Expire` is the time to live |
| one request of a controller | `req[t]`: what it serves, where it is, the user in its hands |
| `UserSearchService.retrieve` | `LookByKey`, `QueryKey` (or by id), then `CacheById`, `CacheByKey` |
| `UserService.save` | `Insert` or `Write`, then the cache, then `AddPassword` for a new user |
| `UserService.update`, `UpdateEmail` | `UpdateFields`, `UpdateKey`, then `UncacheByKey`, `UncacheById` |
| `UserService.remove`, one transaction | `Delete`, the clean-up of the cache, `Commit`; the rows are locked in between (`Locked`, `LockedAddress`) |
| unique indexes | `Taken`: the statement fails |

A statement outside of a transaction is one step. The histories are again the accidents: `raced`
(a request worked with a user that was no longer the row), `orphaned` (the clean-up of the cache
knew another address), `halved` (a request failed between two of its statements), `since` (users stored
after a registration had counted them). `CacheIsCurrent` says that a cached user is the row but for these and
for the edits that are under way (a profile save is no excuse: what it writes and then caches is what it read); `PasswordFollowsEmail` that a user's address has a password;
`OnlyRacesMakeAdministrators` that a second first user needs two registrations at once.

Bounds (`UserAccounts.cfg`): three requests of any kind, two addresses, an
installation without users or with its administrator. An edit, the look-up it overtakes and
the save that carries the old user on are three requests; requests and addresses are interchangeable.

Left out: sessions and the check of a password (a library); a change of the password alone; names and
themes; the roles that may ask for what.

## 9. SqlScript

`SqlParser.split`, one turn of its loop for each step, and `SqlManager.getActiveSql` after it.
`sql`, `start`, `current` and `ret` are the code's variables. The reference is a definition of its
own: a text is a sequence of lexemes (`Lexeme`: an escaped character, a closed literal, a bracketed name, a comment,
or a character), `Places(s)` is where a lexeme of `s` begins, and `Cuts(s)` the delimiters that are lexemes.
It looks at the text as a whole and knows nothing of the loop. `Text(k)` is statement `k` trimmed, and
`Kept` the numbers of those that are not empty.

Bounds (`SqlScript.cfg`): all texts of up to three of the fourteen characters that split tells apart, and
of up to six over two alphabets of five: quotes, escapes and brackets; comments of both kinds and line
ends. Six characters hold two constructs with a delimiter between or inside them.

Left out: the selection of the editor; `ParameterService.merge`.

## 10. RowPages

A panel shows one result, and panels stand in tabs. `content[p]` is what the document has under the result id: nothing, the
loading panel, a table, or a message (an error, or the outcome of a statement without rows). `shown[p]` is the table, `link[p]`
its "Load more rows" with the data attributes offset and limit, `flying` the requests and answers, in no order, since
each request is a job of the pool.

| Code | Model |
|---|---|
| `RowDataManager.showRowData`, a new order or filter of a table | `ShowRowData`; a view is an order or filter |
| `ProgressManager.startProgress`, `completeProgress` | `marked` (the tab), `OneTimer`, `Place` |
| the handler of the link | `LoadMore`: the offset is advanced and the link hidden, then the request is sent |
| `NetworkHelper.sendMessage`, which throws without a connection | `Send` |
| `RowDataHelper.showDataResponse`: one row more than the limit | `Fetched`, `More`, `Data` |
| `QueryResultService.handleNewQueryResults` | `NewResult`: `FirstPage`, or `Further` for a later statement of a script |
| `QueryAppendService.handleAppendQueryResult` | `NextPage` |
| `QueryErrorResponse`, in the place of the panel | `Error` |
| `ServerError`, a notification that leaves panel, link and mark | `ServerError` |
| the connection lost and made again | `Drop`, `Connect` |
| selectors such as `$(".append-rows-link")`, of the whole document | `Links`, `Doubled` |

`astray` is a history variable: panels that, since their first page last came, sent a request while another of theirs was
under way, or a request that was not sent, was lost or was answered by a `ServerError`. The two properties say that
these are the only ways in which a table gets rows twice or out of order, skips some, or is left with the wrong link.

Bounds (`RowPages.cfg`): two panels in one tab and one in another, results of 0, 3 and 5 rows with pages of 2 (so that none, one and
two appended pages are needed), three views asked for in all, two requests under way. `VIEW Seen` forgets the rows and the link of a
panel that has no table, which no action and no property looks at.

Left out: what filters and orders keep; results whose rows change; closing a tab, which takes its panels and keeps its mark
(`QueryRuns` has it); that a click on a hidden link or in a tab out of sight cannot happen.

## 11. The runs

| Run | Checks | Shows |
|---|---|---|
| `result_cache_one` | `ClientToldTheTruth`, `CompleteIsStored`, `OrphansReclaimed`, `TargetedIsRemoved` | one result through its whole life; liveness under `FairSpec`; 348,864 states |
| `result_cache_rerun` | `TypeOK`, `TargetedIsPending`, `SharedSurvivesCleanup`, `ListedTableDroppedAsOrphanOnly`, `RemovedStaysRemoved` | rerun and multi-statement scripts against clean-up and sharing; 3,835,200 states |
| `transaction_session` | `TypeOK`, `SureStatementsAreIsolated`, `SureClientHasTransaction`, `ConnectionsAccounted`, `ImplementsStore` | isolation, connections and refinement; about 3.6 million states |
| `transaction_abandoned` | `AbandonedTransactionEnds` | the transaction of a client that goes away ends |
| `persisted_notice` | `PersistedNoticeIsTrue` | violated: a statement run between commit and close is counted as persisted and is gone |
| `schema_refresh` | `TypeOK`, `ForcedReplyIsFresh`, `NoForgottenWaiter`, `OnlyLateRefreshStaysRegistered`, `AnsweredOrRefused` | requests and refreshes of one connection; liveness under `FairSpec`; 341,845 states |
| `query_runs` | `BusyIsHonest`, `AnswersInOrder`, `TableIsRight`, `AuditIsTrue`, `MarkIsLifted` | two runs of a tab, with cancel and disturbances; liveness under `FairSpec`; 1,491,792 states |
| `connection_registry` | `TypeOK`, `RegisteredIsOpen`, `PoolsAccounted`, `OnlyRacesOverwrite`, `PermissionIsOfPool`, `CurrentUnlessRaced` | a request, two saves, deletes and the stop; 4,463,770 states |
| `user_accounts` | `TypeOK`, `CacheIsCurrent`, `PasswordFollowsEmail`, `OnlyRacesMakeAdministrators` | any three requests; 2,337,096 states |
| `sql_script` | `CutsAreDelimiters`, `StatementsStandAlone`, `PickedIsAtCursor` | short texts, exhaustively; 556,547 states |
| `row_pages` | `RowsInOrder`, `LinkIsHonest` | three panels in two tabs, answers in any order, errors and lost requests; 3,861,097 states |
| `refresh_notice` | `RefreshNoticeIsTrue` | violated: an answer that was on its way is announced as the refresh |

The two violated properties state what the page itself says. Every property of a
passing run also has a mutant: an operator of the module (marked `Mutant`) that changes a
definition the way a plausible bug would and that the run refutes.

Findings, each quoted in `PROJECT.json` with the line it is about. Two have a run
(`persisted_notice`, `refresh_notice`). The others show in the models as the accidents that a property
excepts by name:

- a shared result is removed by a rerun or a close like any other (`SharedSurvivesCleanup` is about the
  clean-up only);
- a table dropped between the clean-up's list and its drop stops the actor (`OrphansReclaimed`);
- the page's transaction flag survives a reconnect (`stale` in `trust`);
- of two schemas loaded at once one is lost, and its request never answered (`SchemaRefresh`, two connections);
- a tab stays busy after an answer was lost, when there was no statement to run, when the answer is a `ServerError`, and
  after the call of a procedure (`Excused`);
- "Active query has been cancelled." is said of a query that was not (`HandleCancel`);
- "No more rows available" is said under every result of the page (`Links`), and the limit of one result becomes that of all
  (`Doubled`);
- rows of an old order are appended to those of a new one (`astray`);
- a next page that is lost or answered by a `ServerError` leaves the link hidden with rows missing, or, when another panel's
  answer shows the link again, skips them (`astray`);
- a removal lost in the unsynchronised map leaves a closed pool, or one of old settings, registered (`stuck`);
- a user removed by an administrator is cached again before the commit (`raced`);
- there is no statement to run when the cursor is before the first (`Failed`).

## 12. Proofs

TLAPS proves the following for all values of the constants that satisfy the
named assumptions of the modules (`ResultCacheAssumption`: page size below the
row limit, agents distinct; `TransactionSessionAssumption`: the special values
are not transactions, transactions and statements are finite sets;
`SchemaRefreshAssumption`: the special values are not schemas or refreshes;
`QueryRunsAssumption`: the bounds are natural numbers and a script has no more statements than its bound;
`RegistryAssumption`: requests and saves are different threads, the special values no threads or users;
`RowPagesAssumption`: the page size is not 0, panels are numbered, and those of a tab stand together;
`SqlScriptAssumption`: texts are finite sequences;
`AccountAssumption`: the founder is not a request, the special value no user).

`ResultCacheProofs`. The properties alone are not inductive; the inductive
invariant `IInv` adds to `TypeOK`:

- `CatalogInv`: what removals, loops and the clean-up name is a registered id, a removal
  that is about to drop the table has no row left, and what the clean-up
  holds as an orphan was not in the listing; gives
  `ListedTableDroppedAsOrphanOnly` and `RemovedStaysRemoved`;
- `RemovalInv`: the clean-up has a list of results to remove only while it is
  at work on it, with `TargetedIsPending`;
- `ExpiryInv`: what may be removed was asked for, or was old and unshared; gives
  `SharedSurvivesCleanup`;
- `MessageInv`: what a worker has stored and sent at each of its positions;
  gives `CompleteIsStored` and `ClientToldTheTruth`.

Each action preserves each part in a lemma step of its own; steps that change
none of a part's variables are covered by one lemma per part.
`RemovedStaysRemoved` is an action property from the same invariant.

`TransactionSessionProofs`. `TypeOK`, `SubmitOnce` (a request for a statement is
in at most one inbox, and only before it is accepted) and `TxInv` (an active
transaction has been begun, is open unless it is being closed, and no two
actors share it) are inductive together. They give `TypeCorrect`,
`TransactionsAreOwned` and `SessionImplementsStore`: initial states map to
initial states, and each step to a step of the store or a stutter. What that is worth to a user is proved of the
store and carried over by the refinement: what has taken effect was run alone or in a transaction that has
committed (`SessionEffectsAreWhole`), and a transaction takes effect in one step, as a whole, for good
(`SessionStepsAreWhole`).

`LeaseInv` adds that the leased connections are a
finite set, and counts them through each step that takes one or gives one back; it gives
`ConnectionsAccounted`. What the page may conclude from its flag needs the whole dialog with its socket actor:
`SocketInv` (the page is connected to an actor that runs or has stopped by itself, and one not yet opened has done
nothing) and `DialogInv`, which says of the page and its live actor that

- `BeginComes`: a request to begin is the last on its way about transactions, and nothing is open yet;
- `StatusIsTrue`: at most one status is on its way, and it is true of the actor until it arrives;
- `HeldIsKnown`: the link to begin is hidden while the actor has a transaction, and one that is being ended was asked for;
- `SureIsOpen`: while the page is sure there is a transaction, and nothing on its way ends it.

`SureClientHasTransaction` follows. `SureInv` carries it from the submit to the worker: a statement of a sure page waits
at an actor that holds a transaction and has not been asked to end it before (`WaitsInTx`); it gives
`SureStatementsAreIsolated`.

`UserAccountsProofs`. `TypeInv` is `TypeOK` with `Suits`, which says for each kind of request where it can be and
what it has in hand there; `Known` that a user who is stored, cached or in hand is past the insert that
made it, and so is never inserted again. `OnlyRacesMakeAdministrators` is inductive with the types. On top of the two:

- `CacheInv`: a cached user is the row, or excused; after an edit has cleaned the addresses, what the cache still has of the user is
  the row (`EditCleans`); after a remove has, it has nothing of it (`RemoveCleans`), until the commit. Gives `CacheIsCurrent`;
- `PasswordInv`: while an edit has a password to move, it is under the old or the new address and
  nobody else edits the user (`MovesAlone`); a password taken away from another user makes that one
  a victim, which is history (`PasswordTaken`). Gives `PasswordFollowsEmail`.

`QueryRunsProofs`. A run is submitted once and is idle until then (`Fresh`). `TableIsRight` and `AuditIsTrue`
follow the place of the run's worker, `BusyIsHonest` the first answer of the run. `AnswersInOrder` speaks of
the answers on their way and of the panels, and is not inductive, since nothing in it says that the next answer is a
later one. `OrderInv` adds how far the worker has come: an answer is of a statement the worker has reached,
and is its last word only if the worker has left it (`Told`); a panel shows a statement that was reached
(`PageTold`). An answer the worker adds then comes after all of these, and one that arrives takes its panel to
a place before all that are still on their way (`PageLeads`).

`ConnectionRegistryProofs`. `Places` says that a pool about to be registered is open, and that one registered, or taken to be
closed, was put there by a thread that has gone on since, and that one which is both was left there by a lost removal; it gives
`RegisteredIsOpen` and `PoolsAccounted`.
`SameSettings`, that a pool is handed out with the settings its opener has read, gives
`PermissionIsOfPool`; `AbsentIsRaced`, that a pool registered for a connection without a row was raced or outlived it,
gives `CurrentUnlessRaced`.

`SchemaRefreshProofs`. `FreshInv` dates requests and what they are given; `CallInv` says which refreshes a request
can have submitted where its thread is, that what is awaited was submitted, and that a refresh that called back
has told its request; `RegisterInv`, that a refresh is registered for its own connection only.

`RowPagesProofs`. A panel that has not gone astray has one request at most, and the offset of its link is the length of its
table, unless there are no rows beyond; while the next page is under way the offset is already past that page (`Steady`). This
gives `RowsInOrder`. `LinkIsHonest` speaks of the panel answered last with none of its requests under way; the answer that
came is of the table as it was, and `More` compares its end with the same number of rows as the property does (`Honest`).

`SqlScriptProofs` is about texts of any length. The library's theorems of induction cannot be used, but one of
their consequences can: a nonempty set of natural numbers has a least element (`Least`). A recursive function over numbers exists because a
least number up to which it does not leads to a contradiction (`UptoExists`), and the same argument says what it is: `0` is a place, and
every other place is where a lexeme that begins at an earlier place ends (`PlacesMeans`). The proofs then
go in three parts:

- at each position there is one lexeme and no other, and it is what the code takes (`OneQuote`, `OneBracket`,
  `OneBlockComment` and so on: `indexOf` is the least occurrence), so from a place that no lexeme reaches across the loop
  goes to the next (`NextPlace`). `LoopInv` says that `current` is such a place (or beyond the end, after an
  escape), that the statements so far and `start` are the beginning and the cuts before `current`, and
  that the statements are the texts between them. It gives `CutsAreDelimiters`, and that every turn moves on (`EveryTurnMovesOn`);
- a statement, trimmed, is a stretch of the script that begins at a place, since blanks are lexemes, and ends where
  no lexeme reaches across. Then each lexeme of it that ends before it does is a lexeme of the script at the same
  place (`ShiftLexeme`; the case that needs the end is a quote that is not closed in the statement: were it closed
  in the script, that literal would reach across). A delimiter in it would be one of the script: `StatementsStandAlone`;
- the statements are in the order of the script, so those that begin at or before the cursor are the ones before the
  first that begins beyond it (`BeforeTheFirstBeyond`): `PickedIsAtCursor`.

Only model-checked: the liveness properties `OrphansReclaimed`, `TargetedIsRemoved`, `AbandonedTransactionEnds`,
`AnsweredOrRefused` and `MarkIsLifted` (liveness and ENABLED are beyond the prover). Every invariant and every
action property that a passing run checks is also a theorem, and so is the refinement.

## 13. Not modelled

- `ParameterService.merge`: a loop of textual replacements, wrong for one name inside
  another or a value that contains a name, as its text shows; no order of events changes that.
- `SettingsService`: one row and one map entry for each key; two administrators who set one key at once may
  leave the two different until the next start.
- Plans, metadata, GraphQL, explorer, charts, saved queries: conversions of data, or single statements
  behind a permission test.
- Migrations and the master database's start: they run once, before any request.
- The registry of sockets in the supervisor: one actor writes it.
- Pages, styles, and the bundles of third-party libraries under `public/lib` (React, GraphiQL, Voyager):
  not this program's logic.
- Memory visibility of the unsynchronised maps beyond lost updates and look-ups that miss, and the growth of their tables.

## 14. Running

    tlc -workers 2 -config ResultCacheOne.cfg MCResultCache.tla
    tlapm ResultCacheProofs.tla

`PROJECT.json` names the module and configuration of every run, and maps every
definition to the lines it models.
