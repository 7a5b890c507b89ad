---------------------------- MODULE ResultCache ----------------------------
(***************************************************************************)
(* The life of a cached query result.                                      *)
(*                                                                         *)
(* A query run (QueryExecutionService, CachedResultQuery) registers a row  *)
(* for its result in the master database and copies the result set, row by *)
(* row, to a table of its own in the result cache database.  Four parties  *)
(* delete what it writes: the next run of the same query, the socket that  *)
(* closes the query, an administrator, and the clean-up actor.  None of    *)
(* them takes a lock and the two databases share no transaction, so one    *)
(* database statement is one step here.                                    *)
(*                                                                         *)
(* A result id is a fresh UUID: an element of Result is used by one run.   *)
(* All runs belong to one owner, so that a query id stands for the pair    *)
(* (query id, owner) of the code.  A table is named by its result id.      *)
(***************************************************************************)
EXTENDS Naturals, FiniteSets

CONSTANTS
  Result,         \* result ids, one per statement run
  Query,          \* query ids
  Remover,        \* sockets and administrators that ask for removals
  Cleaner,        \* the clean-up actor
  NoQuery,        \* the query of an unused result id
  Sizes,          \* the sizes of result set a statement may produce
  PageSize,       \* rows sent to the client with the result: 100
  MaxRows,        \* rows stored in a result table: 50000
  MaxStatements,  \* bound: statements of one submitted query
  MaxRestarts     \* bound: restarts of the server

ASSUME ResultCacheAssumption ==
  /\ PageSize \in Nat \ {0} /\ MaxRows \in Nat /\ PageSize < MaxRows
  /\ Sizes \subseteq Nat
  /\ MaxStatements \in Nat \ {0} /\ MaxRestarts \in Nat
  /\ NoQuery \notin Query
  /\ Cleaner \notin Result \cup Remover /\ Result \cap Remover = {}

VARIABLES
  run,       \* run[r]: its query, statement index, statements left after it
  pc,        \* pc[r]: the worker's position in the run
  size,      \* size[r]: rows of the result set
  count,     \* count[r]: rowCount, the rows the worker has inserted
  status,    \* status[r]: the row of query_results, "none" when there is none
  tables,    \* result tables that exist
  shared,    \* source names of the rows of shared_results
  sent,      \* messages sent to the client
  tasks,     \* calls of CachedResultService.remove in progress
  todo,      \* ids a Remover or the Cleaner still has to remove, one by one
  aged,      \* results created more than two days ago
  cleaner,   \* the clean-up actor: position and what it has read
  admin,     \* the orphans page of the administrator: what it has read
  restarts,
  targeted,  \* history: results whose removal was asked for by a user or a run
  exposed    \* history: results that were old while they were not shared

runVars == <<run, pc, size, count>>
dbVars == <<status, tables, shared>>
removeVars == <<tasks, todo, targeted>>
cleanVars == <<cleaner, admin, aged, exposed>>
vars == <<runVars, dbVars, removeVars, cleanVars, sent, restarts>>

Agent == Result \cup Remover \cup {Cleaner}
Working == {"find", "execute", "register", "create", "fill", "complete"}
Page(r, n, more) == [type |-> "page", id |-> r, rows |-> n, more |-> more]
RowCount(r, n, over) == [type |-> "count", id |-> r, rows |-> n, overflow |-> over]
Error(r) == [type |-> "error", id |-> r]
Message ==
  [type : {"page"}, id : Result, rows : Nat, more : BOOLEAN]
    \cup [type : {"count"}, id : Result, rows : Nat, overflow : BOOLEAN]
    \cup [type : {"error"}, id : Result]

TypeOK ==
  /\ run \in [Result -> [query : Query \cup {NoQuery}, index : Nat, left : Nat]]
  /\ pc \in [Result -> {"unused", "done", "killed"} \cup Working]
  /\ size \in [Result -> Nat] /\ count \in [Result -> Nat]
  /\ status \in [Result -> {"none", "starting", "complete"}]
  /\ tables \subseteq Result
  /\ shared \subseteq [id : Result, prefix : BOOLEAN]
  /\ sent \subseteq Message
  /\ tasks \subseteq [by : Agent, id : Result, at : {"check", "row", "drop"}]
  /\ todo \in [Remover \cup {Cleaner} -> SUBSET Result]
  /\ aged \subseteq Result /\ targeted \subseteq Result /\ exposed \subseteq Result
  /\ cleaner \in [at : {"idle", "rows", "tables", "orphans", "expire", "stopped"},
                  cutoff : SUBSET Result, spared : SUBSET Result,
                  rows : SUBSET Result, orphans : SUBSET Result]
  /\ admin \in [listing : BOOLEAN, rows : SUBSET Result, orphans : SUBSET Result]
  /\ restarts \in Nat

NoPage == [listing |-> FALSE, rows |-> {}, orphans |-> {}]
Idle == [at |-> "idle", cutoff |-> {}, spared |-> {}, rows |-> {}, orphans |-> {}]

Init ==
  /\ run = [r \in Result |-> [query |-> NoQuery, index |-> 0, left |-> 0]]
  /\ pc = [r \in Result |-> "unused"]
  /\ size = [r \in Result |-> 0] /\ count = [r \in Result |-> 0]
  /\ status = [r \in Result |-> "none"]
  /\ tables = {} /\ shared = {} /\ sent = {}
  /\ tasks = {} /\ todo = [a \in Remover \cup {Cleaner} |-> {}]
  /\ aged = {} /\ targeted = {} /\ exposed = {}
  /\ cleaner = Idle /\ admin = NoPage
  /\ restarts = 0

----------------------------------------------------------------------------
(* The catalog and the names of tables                                     *)

Rows == {r \in Result : status[r] # "none"}
RowsOf(q) == {r \in Rows : run[r].query = q}

\* A shared result names its table with the prefix "result_"; the look-up
\* behind containsResultId is by the bare hexadecimal id.
TableName(r) == [id |-> r, prefix |-> TRUE]
HexName(r) == [id |-> r, prefix |-> FALSE]
ContainsResultId(r) == HexName(r) \in shared
SharedIds == {r \in Result : TableName(r) \in shared}

\* The run of r has inserted its row: nobody knows the id before that.
Known(r) == pc[r] \notin {"unused", "find", "execute", "register"}

----------------------------------------------------------------------------
(* The run of one statement                                                *)

Submit(q, r, n) ==
  /\ pc[r] = "unused"
  /\ run' = [run EXCEPT ![r] = [query |-> q, index |-> 0, left |-> n]]
  /\ pc' = [pc EXCEPT ![r] = "find"]
  /\ UNCHANGED <<size, count, dbVars, removeVars, cleanVars, sent, restarts>>

\* The first statement of a run asks for the removal of every result of the
\* query, each in a Future of its own.
FindExisting(r) ==
  LET found == IF run[r].index = 0 THEN RowsOf(run[r].query) ELSE {}
  IN /\ pc[r] = "find"
     /\ pc' = [pc EXCEPT ![r] = "execute"]
     /\ tasks' = tasks \cup {[by |-> r, id |-> x, at |-> "check"] : x \in found}
     /\ targeted' = targeted \cup found
     /\ UNCHANGED <<run, size, count, dbVars, todo, cleanVars, sent, restarts>>

\* A result set with fewer than two rows is not cached.
Execute(r) ==
  /\ pc[r] = "execute"
  /\ \E n \in Sizes :
       /\ size' = [size EXCEPT ![r] = n]
       /\ IF n < 2
            THEN /\ pc' = [pc EXCEPT ![r] = "done"]
                 /\ sent' = sent \cup {Page(r, n, FALSE)}
            ELSE /\ pc' = [pc EXCEPT ![r] = "register"]
                 /\ UNCHANGED sent
  /\ UNCHANGED <<run, count, dbVars, removeVars, cleanVars, restarts>>

Register(r) ==
  /\ pc[r] = "register"
  /\ pc' = [pc EXCEPT ![r] = "create"]
  /\ status' = [status EXCEPT ![r] = "starting"]
  /\ UNCHANGED <<run, size, count, tables, shared, removeVars, cleanVars, sent, restarts>>

\* Creates the table and inserts the first row.
CreateTable(r) ==
  /\ pc[r] = "create"
  /\ pc' = [pc EXCEPT ![r] = "fill"]
  /\ tables' = tables \cup {r}
  /\ count' = [count EXCEPT ![r] = 1]
  /\ UNCHANGED <<run, size, status, shared, removeVars, cleanVars, sent, restarts>>

MoreToStore(r) == count[r] < MaxRows /\ count[r] < size[r]

\* Mutant: the message goes out with row PageSize instead of the row after it.
StoreRowEarlyPage(r) ==
  /\ pc[r] = "fill" /\ MoreToStore(r) /\ r \in tables
  /\ count' = [count EXCEPT ![r] = @ + 1]
  /\ sent' = IF count[r] + 1 = PageSize THEN sent \cup {Page(r, PageSize, TRUE)} ELSE sent
  /\ UNCHANGED <<run, pc, size, dbVars, removeVars, cleanVars, restarts>>

\* Inserts one more row; row PageSize + 1 triggers the message with the first page.
StoreRow(r) ==
  /\ pc[r] = "fill" /\ MoreToStore(r) /\ r \in tables
  /\ count' = [count EXCEPT ![r] = @ + 1]
  /\ sent' = IF count[r] = PageSize THEN sent \cup {Page(r, PageSize, TRUE)} ELSE sent
  /\ UNCHANGED <<run, pc, size, dbVars, removeVars, cleanVars, restarts>>

\* Any statement on any of the three databases may throw: the query is wrong,
\* was cancelled, or its result table was dropped under the worker.  sqlCatch
\* turns the exception into an error message and whatever was written stays.
Fail(r) ==
  /\ pc[r] \in Working
  /\ pc' = [pc EXCEPT ![r] = "done"]
  /\ sent' = sent \cup {Error(r)}
  /\ UNCHANGED <<run, size, count, dbVars, removeVars, cleanVars, restarts>>

\* Mutant: the run is completed with the first page.
SendPageAndStop(r) ==
  /\ pc[r] = "fill" /\ (count[r] >= PageSize \/ ~MoreToStore(r))
  /\ pc' = [pc EXCEPT ![r] = "complete"]
  /\ sent' = IF count[r] <= PageSize THEN sent \cup {Page(r, count[r], FALSE)} ELSE sent
  /\ UNCHANGED <<run, size, count, dbVars, removeVars, cleanVars, restarts>>

SendPage(r) ==
  /\ pc[r] = "fill" /\ ~MoreToStore(r)
  /\ pc' = [pc EXCEPT ![r] = "complete"]
  /\ sent' = IF count[r] <= PageSize THEN sent \cup {Page(r, count[r], FALSE)} ELSE sent
  /\ UNCHANGED <<run, size, count, dbVars, removeVars, cleanVars, restarts>>

\* Mutants: an upsert in place of the update; a status nobody knows.
UpsertedStatus(r) == "complete"
UnknownStatus(r) == "done"

\* An UPDATE by id: it changes nothing when the row has been removed.
CompletedStatus(r) == IF status[r] = "none" THEN "none" ELSE "complete"

Complete(r) ==
  /\ pc[r] = "complete"
  /\ pc' = [pc EXCEPT ![r] = "done"]
  /\ status' = [status EXCEPT ![r] = CompletedStatus(r)]
  /\ sent' = sent \cup {RowCount(r, count[r], count[r] = MaxRows)}
  /\ UNCHANGED <<run, size, count, tables, shared, removeVars, cleanVars, restarts>>

\* onSuccess starts the next statement of the query, under a fresh result
\* id, whether this one succeeded or failed.
NextStatement(r, s) ==
  /\ pc[r] = "done" /\ run[r].left > 0 /\ pc[s] = "unused"
  /\ run' = [run EXCEPT ![r].left = 0,
                        ![s] = [query |-> run[r].query, index |-> run[r].index + 1,
                                left |-> run[r].left - 1]]
  /\ pc' = [pc EXCEPT ![s] = "find"]
  /\ UNCHANGED <<size, count, dbVars, removeVars, cleanVars, sent, restarts>>

Worker(r) ==
  \/ FindExisting(r) \/ Execute(r) \/ Register(r) \/ CreateTable(r)
  \/ StoreRow(r) \/ SendPage(r) \/ Complete(r) \/ Fail(r)
  \/ \E s \in Result : NextStatement(r, s)

----------------------------------------------------------------------------
(* CachedResultService.remove, called by an agent on one id                *)

MoveTask(t, at) == tasks' = (tasks \ {t}) \cup {[t EXCEPT !.at = at]}

\* Mutants: the table is dropped and the row stays; a running result is left alone.
RemoveCheckNoRow(t) ==
  /\ t.at = "check"
  /\ IF ContainsResultId(t.id) THEN tasks' = tasks \ {t} ELSE MoveTask(t, "drop")
  /\ UNCHANGED <<runVars, dbVars, todo, targeted, cleanVars, sent, restarts>>
RemoveCheckSkipsRunning(t) ==
  /\ t.at = "check"
  /\ IF ContainsResultId(t.id) \/ status[t.id] = "starting"
       THEN tasks' = tasks \ {t} ELSE MoveTask(t, "row")
  /\ UNCHANGED <<runVars, dbVars, todo, targeted, cleanVars, sent, restarts>>

RemoveCheck(t) ==
  /\ t.at = "check"
  /\ IF ContainsResultId(t.id) THEN tasks' = tasks \ {t} ELSE MoveTask(t, "row")
  /\ UNCHANGED <<runVars, dbVars, todo, targeted, cleanVars, sent, restarts>>

RemoveRow(t) ==
  /\ t.at = "row"
  /\ MoveTask(t, "drop")
  /\ status' = [status EXCEPT ![t.id] = "none"]
  /\ UNCHANGED <<runVars, tables, shared, todo, targeted, cleanVars, sent, restarts>>

\* A failure to drop the table (it is not there) is caught and logged.
RemoveTable(t) ==
  /\ t.at = "drop"
  /\ tasks' = tasks \ {t}
  /\ tables' = tables \ {t.id}
  /\ UNCHANGED <<runVars, status, shared, todo, targeted, cleanVars, sent, restarts>>

Remove(t) == RemoveCheck(t) \/ RemoveRow(t) \/ RemoveTable(t)

\* An agent with several ids to remove works on one at a time.
Busy(a) == \E t \in tasks : t.by = a
StartRemove(a) ==
  /\ ~Busy(a)
  /\ \E r \in todo[a] :
       /\ todo' = [todo EXCEPT ![a] = @ \ {r}]
       /\ tasks' = tasks \cup {[by |-> a, id |-> r, at |-> "check"]}
  /\ UNCHANGED <<runVars, dbVars, targeted, cleanVars, sent, restarts>>

AskRemoval(m, ids) ==
  /\ todo[m] = {} /\ ~Busy(m)
  /\ todo' = [todo EXCEPT ![m] = ids]
  /\ targeted' = targeted \cup ids
  /\ UNCHANGED <<runVars, dbVars, tasks, cleanVars, sent, restarts>>

CloseQuery(m, q) == AskRemoval(m, RowsOf(q))

\* The id comes from a page that listed it, perhaps long ago.
AdminRemove(m, r) == Known(r) /\ AskRemoval(m, {r})

----------------------------------------------------------------------------
(* Shared results                                                          *)

\* The client shares a result that it was shown from the cache.
Share(r) ==
  /\ \E m \in sent : m.type = "page" /\ m.id = r /\ size[r] >= 2
  /\ shared' = shared \cup {TableName(r)}
  /\ UNCHANGED <<runVars, status, tables, removeVars, cleanVars, sent, restarts>>

Unshare(r) ==
  /\ TableName(r) \in shared
  /\ shared' = shared \ {TableName(r)}
  /\ exposed' = IF r \in aged THEN exposed \cup {r} ELSE exposed
  /\ UNCHANGED <<runVars, status, tables, removeVars, cleaner, admin, aged, sent, restarts>>

----------------------------------------------------------------------------
(* Clean-up                                                                *)

\* Two days pass.
Age(r) ==
  /\ r \in Rows \ aged
  /\ aged' = aged \cup {r}
  /\ exposed' = IF r \in SharedIds THEN exposed ELSE exposed \cup {r}
  /\ UNCHANGED <<runVars, dbVars, removeVars, cleaner, admin, sent, restarts>>

CleanerUnchanged == UNCHANGED <<runVars, shared, targeted, admin, aged, exposed, sent, restarts>>

CleanupTick ==
  /\ cleaner.at = "idle"
  /\ cleaner' = [cleaner EXCEPT !.at = "rows", !.cutoff = aged, !.spared = SharedIds]
  /\ CleanerUnchanged /\ UNCHANGED <<status, tables, tasks, todo>>

CleanupReadRows ==
  /\ cleaner.at = "rows"
  /\ cleaner' = [cleaner EXCEPT !.at = "tables", !.rows = Rows]
  /\ CleanerUnchanged /\ UNCHANGED <<status, tables, tasks, todo>>

\* Mutant: only the tables of old results are orphans.
CleanupReadOldTables ==
  /\ cleaner.at = "tables"
  /\ cleaner' = [cleaner EXCEPT !.at = "orphans",
                               !.orphans = (tables \ cleaner.rows) \cap cleaner.cutoff]
  /\ CleanerUnchanged /\ UNCHANGED <<status, tables, tasks, todo>>

CleanupReadTables ==
  /\ cleaner.at = "tables"
  /\ cleaner' = [cleaner EXCEPT !.at = "orphans", !.orphans = tables \ cleaner.rows]
  /\ CleanerUnchanged /\ UNCHANGED <<status, tables, tasks, todo>>

CleanupDropOrphan(r) ==
  /\ cleaner.at = "orphans" /\ r \in cleaner.orphans /\ r \in tables
  /\ tables' = tables \ {r}
  /\ cleaner' = [cleaner EXCEPT !.orphans = @ \ {r}]
  /\ CleanerUnchanged /\ UNCHANGED <<status, tasks, todo>>

\* The table is gone: DROP TABLE throws, nothing catches it, and the
\* supervisor's strategy stops the actor for good.
CleanupFails ==
  /\ cleaner.at = "orphans" /\ cleaner.orphans \ tables # {}
  /\ cleaner' = [Idle EXCEPT !.at = "stopped"]
  /\ CleanerUnchanged /\ UNCHANGED <<status, tables, tasks, todo>>

\* Mutant: shared results expire like the others.
ExpiredShared == cleaner.rows \cap cleaner.cutoff

\* The rows of the snapshot that are too old and were not shared.
Expired == (cleaner.rows \cap cleaner.cutoff) \ cleaner.spared

CleanupExpire ==
  /\ cleaner.at = "orphans" /\ cleaner.orphans = {}
  /\ todo' = [todo EXCEPT ![Cleaner] = Expired]
  /\ cleaner' = [Idle EXCEPT !.at = "expire"]
  /\ CleanerUnchanged /\ UNCHANGED <<status, tables, tasks>>

CleanupEnd ==
  /\ cleaner.at = "expire" /\ todo[Cleaner] = {} /\ ~Busy(Cleaner)
  /\ cleaner' = Idle
  /\ CleanerUnchanged /\ UNCHANGED <<status, tables, tasks, todo>>

Cleanup ==
  \/ CleanupTick \/ CleanupReadRows \/ CleanupReadTables
  \/ (\E r \in Result : CleanupDropOrphan(r)) \/ CleanupFails
  \/ CleanupExpire \/ CleanupEnd

\* The administrator's page lists the rows, then the tables; its links drop
\* a listed orphan whenever the administrator follows one.
AdminListRows ==
  /\ Remover # {} /\ ~admin.listing
  /\ admin' = [listing |-> TRUE, rows |-> Rows, orphans |-> {}]
  /\ UNCHANGED <<runVars, dbVars, removeVars, cleaner, aged, exposed, sent, restarts>>

AdminListTables ==
  /\ admin.listing
  /\ admin' = [listing |-> FALSE, rows |-> {}, orphans |-> tables \ admin.rows]
  /\ UNCHANGED <<runVars, dbVars, removeVars, cleaner, aged, exposed, sent, restarts>>

AdminRemoveOrphan(r) ==
  /\ r \in admin.orphans
  /\ tables' = tables \ {r}
  /\ UNCHANGED <<runVars, status, shared, removeVars, cleanVars, sent, restarts>>

----------------------------------------------------------------------------
(* The server stops and starts again: both databases are files, everything *)
(* else is lost.                                                           *)

Restart ==
  /\ restarts < MaxRestarts
  /\ restarts' = restarts + 1
  /\ pc' = [r \in Result |-> IF pc[r] \in Working THEN "killed" ELSE pc[r]]
  /\ run' = [r \in Result |-> [run[r] EXCEPT !.left = 0]]
  /\ tasks' = {} /\ todo' = [a \in Remover \cup {Cleaner} |-> {}]
  /\ targeted' = targeted \ Rows
  /\ cleaner' = Idle
  /\ admin' = IF admin.listing THEN NoPage ELSE admin
  /\ UNCHANGED <<size, count, dbVars, sent, aged, exposed>>

Next ==
  \/ \E q \in Query, r \in Result, n \in 0 .. MaxStatements - 1 : Submit(q, r, n)
  \/ \E r \in Result : Worker(r) \/ Share(r) \/ Unshare(r) \/ Age(r) \/ AdminRemoveOrphan(r)
  \/ \E t \in tasks : Remove(t)
  \/ \E a \in Remover \cup {Cleaner} : StartRemove(a)
  \/ \E m \in Remover, q \in Query : CloseQuery(m, q)
  \/ \E m \in Remover, r \in Result : AdminRemove(m, r)
  \/ Cleanup \/ AdminListRows \/ AdminListTables \/ Restart

Spec == Init /\ [][Next]_vars

\* Pool threads, futures and the ten-minute schedule make progress; users,
\* administrators, time and restarts do what they like.
Fairness ==
  /\ \A r \in Result : WF_vars(Worker(r))
  /\ \A a \in Agent, r \in Result, at \in {"check", "row", "drop"} :
       LET t == [by |-> a, id |-> r, at |-> at] IN WF_vars(t \in tasks /\ Remove(t))
  /\ \A a \in Remover \cup {Cleaner} : WF_vars(StartRemove(a))
  /\ WF_vars(Cleanup)

FairSpec == Spec /\ Fairness

----------------------------------------------------------------------------
(* Properties                                                              *)

\* A table disappears under a row of the catalog only when it is dropped as
\* an orphan by a reader of the catalog that looked before the run of that
\* result registered itself: remove takes the row away first, and never
\* reaches the table of a result that is still listed.
OrphanDrop(r) ==
  \/ r \in cleaner.orphans \ cleaner.rows
  \/ r \in admin.orphans
ListedTableDroppedAsOrphanOnly ==
  [][\A r \in Result : (r \in tables /\ r \notin tables' /\ status'[r] # "none")
        => OrphanDrop(r)]_vars

\* A result that was taken out of the catalog never comes back, whatever its
\* worker still had to do for it (it may be half-way through the result set).
RemovedStaysRemoved ==
  [][\A r \in Result : (Known(r) /\ status[r] = "none") => status'[r] = "none"]_vars

\* The catalog calls a result complete only when the table, if it is still
\* there, holds every row up to MaxRows, and the client has its first page.
CompleteIsStored ==
  \A r \in Result : status[r] = "complete" =>
    /\ count[r] = MaxRows \/ count[r] = size[r]
    /\ \E m \in sent : m.type = "page" /\ m.id = r

\* What the client is told of a result set is true of it: "no more rows"
\* means that the page holds all of them, a total that is not flagged as
\* overflow is the exact total, and at most one page is sent.
ClientToldTheTruth ==
  /\ \A m \in sent : m.type = "page" =>
       IF m.more THEN m.rows < size[m.id] ELSE m.rows = size[m.id]
  /\ \A m \in sent : m.type = "count" =>
       IF m.overflow THEN m.rows <= size[m.id] ELSE m.rows = size[m.id]
  /\ \A m, n \in sent : (m.type = "page" /\ n.type = "page" /\ m.id = n.id) => m = n

\* While a result whose removal was asked for is still listed, somebody is
\* on the way to remove it: no removal is forgotten (short of a restart).
RemovalPending(r) ==
  \/ \E t \in tasks : t.id = r /\ t.at \in {"check", "row"}
  \/ \E a \in Remover \cup {Cleaner} : r \in todo[a]
TargetedIsPending ==
  \A r \in targeted : status[r] # "none" => RemovalPending(r)

\* A result that was shared before it was two days old, and has been shared
\* ever since, is not removed by the clean-up: if it is gone from the
\* catalog, a later run, a closed query or an administrator removed it.
SharedSurvivesCleanup ==
  \A r \in Result : (Known(r) /\ count[r] > 0 /\ status[r] = "none") => r \in targeted \cup exposed

\* Every table without a catalog row is dropped in the end, unless the
\* clean-up actor has been stopped.
OrphansReclaimed ==
  \A r \in Result : (r \in tables /\ status[r] = "none")
                      ~> (r \notin tables \/ cleaner.at = "stopped")

\* Every removal that a run, a closed query or an administrator asks for
\* takes place, short of a restart (and of a share, which remove respects).
TargetedIsRemoved ==
  \A r \in Result : (r \in targeted)
                      ~> (status[r] = "none" \/ r \notin targeted \/ r \in SharedIds)
============================================================================
