--------------------------- MODULE SchemaRefresh ---------------------------
(***************************************************************************)
(* The cache of database schemas and its refreshes.                        *)
(*                                                                         *)
(* A request first gets a schema without details (SchemaService.getSchema) *)
(* and then its details (SchemaRefreshService.refreshSchema): it starts a  *)
(* refresh, or awaits the one it finds registered.  Requests run on any    *)
(* thread; the two maps they share have no lock.  schemaMap is an          *)
(* immutable map in a variable, so a write replaces the whole map;         *)
(* activeRefreshes is a mutable map.  A step here is one read or write of  *)
(* either, or one message.                                                 *)
(*                                                                         *)
(* A page of the client is open for each connection.  What the server      *)
(* sends arrives in order, and is handled here when it is sent.            *)
(***************************************************************************)
EXTENDS Naturals

CONSTANTS
  Conn,        \* database connections
  Request,     \* requests for a schema
  NotLoaded, NoJob,
  MaxVersion   \* bound: changes of a database's tables

\* A request may start two refreshes: one inside getSchema, one for itself.
Job == Request \X {"inner", "outer"}
Base(v) == [version |-> v, details |-> FALSE]
Schema == [version : 0 .. MaxVersion, details : BOOLEAN]

ASSUME SchemaRefreshAssumption ==
  /\ MaxVersion \in Nat
  /\ NotLoaded \notin Schema /\ NoJob \notin Job
  /\ Request \cap Job = {}

VARIABLES
  version,          \* version[c]: of the tables of the database
  schemaMap,        \* the cached schemas
  activeRefreshes,  \* activeRefreshes[c]: the registered refresh
  conn,             \* conn[r]: the connection that request r is about
  kind,             \* kind[r]: who asks
  since,            \* history, since[r]: version of the tables when r was made
                    \*   (0 once getSchema has answered it)
  pc,               \* pc[r]: position of the thread that serves r
  call,             \* call[r]: the call of refreshSchema that r is in
  given,            \* given[r]: the schema getSchema gives r
  found,            \* found[r]: the schema refreshSchema found for r
  copy,             \* copy[x]: schemaMap as read by a request or a refresh x
  joined,           \* joined[r]: the refresh of another that r awaits
  outcome,          \* outcome[r]: what r was told in the end
  jobPc,            \* jobPc[j]: position of refresh j and its callback
  fetched,          \* fetched[j]: the schema that j captured, then its result
  failed,           \* failed[j]: the refresh has failed
  late,             \* history: refreshes registered after their removal
  shown, pending,   \* the page: its schema, pendingRefresh
  asked             \* history, asked[c]: version of the tables at the last click

cacheVars == <<schemaMap, activeRefreshes>>
askVars == <<conn, kind, since>>
waitVars == <<joined, outcome>>
jobVars == <<jobPc, fetched, failed>>
pageVars == <<shown, pending, asked>>
vars == <<version, cacheVars, askVars, pc, call, given, found, copy, waitVars,
          jobVars, late, pageVars>>

Maps == [Conn -> Schema \cup {NotLoaded}]
EmptyMap == [c \in Conn |-> NotLoaded]

\* Who asks: the page when its socket starts; its "Refresh Schema"; a web
\* page or a GraphQL query that needs details; an edit of the connection.
Kind == {"start", "refresh", "page", "save"}

TypeOK ==
  /\ version \in [Conn -> 0 .. MaxVersion]
  /\ schemaMap \in Maps
  /\ activeRefreshes \in [Conn -> Job \cup {NoJob}]
  /\ conn \in [Request -> Conn] /\ kind \in [Request -> Kind]
  /\ since \in [Request -> 0 .. MaxVersion]
  /\ pc \in [Request ->
       {"idle", "get", "calculate", "setRead", "setWrite", "reply", "lookup",
        "check", "join", "submit", "register", "ended", "refused"}]
  /\ call \in [Request -> {"none", "inner", "outer"}]
  /\ given \in [Request -> Schema \cup {NotLoaded}]
  /\ found \in [Request -> Schema \cup {NotLoaded}]
  /\ copy \in [Request \cup Job -> Maps]
  /\ joined \in [Request -> Job \cup {NoJob}]
  /\ outcome \in [Request -> {"none", "schema", "error"}]
  /\ jobPc \in [Job -> {"none", "working", "completed", "write", "remove", "notify", "done"}]
  /\ fetched \in [Job -> Schema \cup {NotLoaded}]
  /\ failed \in [Job -> BOOLEAN] /\ late \subseteq Job
  /\ shown \in [Conn -> Schema \cup {NotLoaded}]
  /\ pending \in [Conn -> BOOLEAN] /\ asked \in [Conn -> 0 .. MaxVersion]

Init ==
  /\ version = [c \in Conn |-> 0]
  /\ schemaMap = EmptyMap
  /\ activeRefreshes = [c \in Conn |-> NoJob]
  /\ conn \in [Request -> Conn] /\ kind = [r \in Request |-> "page"]
  /\ since = [r \in Request |-> 0]
  /\ pc = [r \in Request |-> "idle"] /\ call = [r \in Request |-> "none"]
  /\ given = [r \in Request |-> NotLoaded] /\ found = [r \in Request |-> NotLoaded]
  /\ copy = [x \in Request \cup Job |-> EmptyMap]
  /\ joined = [r \in Request |-> NoJob] /\ outcome = [r \in Request |-> "none"]
  /\ jobPc = [j \in Job |-> "none"] /\ fetched = [j \in Job |-> NotLoaded]
  /\ failed = [j \in Job |-> FALSE] /\ late = {}
  /\ shown = [c \in Conn |-> NotLoaded] /\ pending = [c \in Conn |-> FALSE]
  /\ asked = [c \in Conn |-> 0]

Goto(r, at) == pc' = [pc EXCEPT ![r] = at]
JobGoto(j, at) == jobPc' = [jobPc EXCEPT ![j] = at]

\* Tables are created and dropped in the database.
Change(c) ==
  /\ version[c] < MaxVersion
  /\ version' = [version EXCEPT ![c] = @ + 1]
  /\ UNCHANGED <<cacheVars, askVars, pc, call, given, found, copy, waitVars,
                 jobVars, late, pageVars>>

----------------------------------------------------------------------------
(* The client                                                              *)

\* A SchemaResponse replaces the schema shown; the first one after a click on
\* "Refresh Schema" announces that the refresh is complete.
Show(c, s) ==
  /\ shown' = [shown EXCEPT ![c] = s]
  /\ pending' = [pending EXCEPT ![c] = FALSE]
  /\ asked' = [asked EXCEPT ![c] = 0]

OnPage(r) == kind[r] \in {"start", "refresh"}
Answer(r, s) == IF OnPage(r) THEN Show(conn[r], s) ELSE UNCHANGED pageVars

\* The page has one socket, and cannot be clicked before it shows a schema.
Ask(r, k) ==
  /\ pc[r] = "idle"
  /\ k = "start" => \A q \in Request : ~(kind[q] = "start" /\ conn[q] = conn[r])
  /\ k = "refresh" => shown[conn[r]] # NotLoaded
  /\ Goto(r, "get")
  /\ kind' = [kind EXCEPT ![r] = k]
  /\ since' = [since EXCEPT ![r] = version[conn[r]]]
  /\ IF k = "refresh"
       THEN /\ pending' = [pending EXCEPT ![conn[r]] = TRUE]
            /\ asked' = [asked EXCEPT ![conn[r]] = version[conn[r]]]
       ELSE UNCHANGED <<pending, asked>>
  /\ UNCHANGED <<version, cacheVars, conn, call, given, found, copy, waitVars,
                 jobVars, late, shown>>

----------------------------------------------------------------------------
(* SchemaService.getSchema                                                 *)

Forced(r) == kind[r] \in {"refresh", "save"}
Cached(r) == schemaMap[conn[r]]

\* Mutant: a cached schema is good enough for a forced refresh.
GetCached(r) ==
  /\ pc[r] = "get"
  /\ IF Cached(r) # NotLoaded
       THEN Goto(r, "reply") /\ given' = [given EXCEPT ![r] = Cached(r)]
       ELSE Goto(r, "calculate") /\ UNCHANGED given
  /\ UNCHANGED <<version, cacheVars, askVars, call, found, copy, waitVars, jobVars, late, pageVars>>

Get(r) ==
  /\ pc[r] = "get"
  /\ IF Cached(r) # NotLoaded /\ ~Forced(r)
       THEN /\ Goto(r, "reply")
            /\ given' = [given EXCEPT ![r] = Cached(r)]
            /\ UNCHANGED call
       ELSE /\ Goto(r, "calculate")
            /\ call' = [call EXCEPT ![r] = IF Cached(r) = NotLoaded THEN "none" ELSE "inner"]
            /\ UNCHANGED given
  /\ UNCHANGED <<version, cacheVars, askVars, found, copy, waitVars, jobVars, late, pageVars>>

\* Reads the database's tables; a failure is sent to whoever asked.
Calculate(r) ==
  /\ pc[r] = "calculate"
  /\ \/ /\ Goto(r, "setRead")
        /\ given' = [given EXCEPT ![r] = Base(version[conn[r]])]
        /\ UNCHANGED <<outcome, since>>
     \/ /\ Goto(r, "ended")
        /\ outcome' = [outcome EXCEPT ![r] = "error"] /\ since' = [since EXCEPT ![r] = 0]
        /\ UNCHANGED given
  /\ UNCHANGED <<version, cacheVars, conn, kind, call, found, copy, joined, jobVars, late,
                 pageVars>>

SetRead(r) ==
  /\ pc[r] = "setRead"
  /\ Goto(r, "setWrite")
  /\ copy' = [copy EXCEPT ![r] = schemaMap]
  /\ UNCHANGED <<version, cacheVars, askVars, call, given, found, waitVars, jobVars, late, pageVars>>

\* A forced refresh of a loaded schema also starts a refresh of its details.
SetWrite(r) ==
  /\ pc[r] = "setWrite"
  /\ Goto(r, IF call[r] = "inner" THEN "lookup" ELSE "reply")
  /\ schemaMap' = [copy[r] EXCEPT ![conn[r]] = given[r]]
  /\ copy' = [copy EXCEPT ![r] = EmptyMap]
  /\ UNCHANGED <<version, activeRefreshes, askVars, call, given, found, waitVars,
                 jobVars, late, pageVars>>

\* The page gets the schema it asked for; unless that has details already,
\* it and the web pages go on to a refresh that will answer them.
Reply(r) ==
  /\ pc[r] = "reply"
  /\ Answer(r, given[r])
  /\ IF given[r].details \/ kind[r] = "save"
       THEN /\ Goto(r, "ended")
            /\ outcome' = [outcome EXCEPT ![r] = "schema"]
            /\ UNCHANGED call
       ELSE /\ Goto(r, "lookup")
            /\ call' = [call EXCEPT ![r] = "outer"]
            /\ UNCHANGED outcome
  /\ given' = [given EXCEPT ![r] = NotLoaded] /\ since' = [since EXCEPT ![r] = 0]
  /\ UNCHANGED <<version, cacheVars, conn, kind, found, copy, joined, jobVars, late>>

----------------------------------------------------------------------------
(* SchemaRefreshService.refreshSchema                                      *)

Return(r) == /\ Goto(r, IF call[r] = "inner" THEN "reply" ELSE "ended")
             /\ found' = [found EXCEPT ![r] = NotLoaded]

\* An exception in refreshSchema ends up in a Try that no caller looks at:
\* neither callback is ever called.
Refuse(r) == /\ Goto(r, IF call[r] = "inner" THEN "reply" ELSE "refused")
             /\ found' = [found EXCEPT ![r] = NotLoaded]

Lookup(r) ==
  /\ pc[r] = "lookup"
  /\ IF Cached(r) = NotLoaded
       THEN Refuse(r)
       ELSE Goto(r, "check") /\ found' = [found EXCEPT ![r] = Cached(r)]
  /\ UNCHANGED <<version, cacheVars, askVars, call, given, copy, waitVars, jobVars, late, pageVars>>

Active(r) == activeRefreshes[conn[r]]

Check(r) ==
  /\ pc[r] = "check"
  /\ Goto(r, IF Active(r) = NoJob THEN "submit" ELSE "join")
  /\ UNCHANGED <<version, cacheVars, askVars, call, given, found, copy, waitVars,
                 jobVars, late, pageVars>>

\* The refresh found registered may be gone by now.
Join(r) ==
  /\ pc[r] = "join"
  /\ IF Active(r) = NoJob
       THEN Refuse(r) /\ UNCHANGED joined
       ELSE /\ Return(r)
            /\ joined' = IF call[r] = "outer" THEN [joined EXCEPT ![r] = Active(r)] ELSE joined
  /\ UNCHANGED <<version, cacheVars, askVars, call, given, copy, outcome, jobVars, late, pageVars>>

Submit(r) ==
  /\ pc[r] = "submit"
  /\ Goto(r, "register")
  /\ JobGoto(<<r, call[r]>>, "working")
  /\ fetched' = [fetched EXCEPT ![<<r, call[r]>>] = found[r]]
  /\ UNCHANGED <<version, cacheVars, askVars, call, given, found, copy, waitVars,
                 failed, late, pageVars>>

Removed(j) == jobPc[j] \in {"notify", "done"}

Register(r) ==
  /\ pc[r] = "register"
  /\ Return(r)
  /\ activeRefreshes' = [activeRefreshes EXCEPT ![conn[r]] = <<r, call[r]>>]
  /\ late' = IF Removed(<<r, call[r]>>) THEN late \cup {<<r, call[r]>>} ELSE late
  /\ UNCHANGED <<version, schemaMap, askVars, call, given, copy, waitVars, jobVars, pageVars>>

Serve(r) ==
  \/ Get(r) \/ Calculate(r) \/ SetRead(r) \/ SetWrite(r) \/ Reply(r)
  \/ Lookup(r) \/ Check(r) \/ Join(r) \/ Submit(r) \/ Register(r)

----------------------------------------------------------------------------
(* A refresh, and the callback of the thread that submitted it             *)

ThreadVars == <<version, askVars, pc, call, given, found>>

\* The details of the tables that were captured, read now.
Work(j) ==
  /\ jobPc[j] = "working"
  /\ JobGoto(j, "completed")
  /\ \/ /\ failed' = [failed EXCEPT ![j] = TRUE]
        /\ UNCHANGED fetched
     \/ /\ fetched' = [fetched EXCEPT ![j] = [version |-> fetched[j].version, details |-> TRUE]]
        /\ UNCHANGED failed
  /\ UNCHANGED <<ThreadVars, cacheVars, copy, waitVars, late, pageVars>>

CallbackRead(j) ==
  /\ jobPc[j] = "completed" /\ ~failed[j]
  /\ JobGoto(j, "write")
  /\ copy' = [copy EXCEPT ![j] = schemaMap]
  /\ UNCHANGED <<ThreadVars, cacheVars, waitVars, fetched, failed, late, pageVars>>

CallbackWrite(j) ==
  /\ jobPc[j] = "write"
  /\ JobGoto(j, "remove")
  /\ schemaMap' = [copy[j] EXCEPT ![conn[j[1]]] = fetched[j]]
  /\ copy' = [copy EXCEPT ![j] = EmptyMap]
  /\ UNCHANGED <<ThreadVars, activeRefreshes, waitVars, fetched, failed, late, pageVars>>

ReadyToRemove(j) == jobPc[j] = "remove" \/ (jobPc[j] = "completed" /\ failed[j])

\* Mutant: a failed refresh stays registered.
CallbackRemoveSuccess(j) ==
  /\ ReadyToRemove(j)
  /\ JobGoto(j, "notify")
  /\ activeRefreshes' = IF failed[j] THEN activeRefreshes
                        ELSE [activeRefreshes EXCEPT ![conn[j[1]]] = NoJob]
  /\ UNCHANGED <<ThreadVars, schemaMap, copy, waitVars, fetched, failed, late, pageVars>>

\* Removes whatever is registered for the connection, its own or not.
CallbackRemove(j) ==
  /\ ReadyToRemove(j)
  /\ JobGoto(j, "notify")
  /\ activeRefreshes' = [activeRefreshes EXCEPT ![conn[j[1]]] = NoJob]
  /\ UNCHANGED <<ThreadVars, schemaMap, copy, waitVars, fetched, failed, late, pageVars>>

\* Mutant: an outcome nobody knows.
UnknownOutcome(j) == IF failed[j] THEN "failure" ELSE "schema"

Outcome(j) == IF failed[j] THEN "error" ELSE "schema"
Tell(r, j) == /\ outcome' = [outcome EXCEPT ![r] = Outcome(j)]
              /\ IF failed[j] THEN UNCHANGED pageVars ELSE Answer(r, fetched[j])

\* The caller inside getSchema passes no callbacks.
CallbackNotify(j) ==
  /\ jobPc[j] = "notify"
  /\ JobGoto(j, "done")
  /\ IF j[2] = "outer" THEN Tell(j[1], j) ELSE UNCHANGED <<outcome, pageVars>>
  /\ UNCHANGED <<ThreadVars, cacheVars, copy, joined, fetched, failed, late>>

Refresh(j) ==
  Work(j) \/ CallbackRead(j) \/ CallbackWrite(j) \/ CallbackRemove(j) \/ CallbackNotify(j)

Completed(j) == jobPc[j] \in {"completed", "write", "remove", "notify", "done"}

\* Mutant: a request that awaits another's refresh hears of its success only.
NotifyJoinerOfSuccess(r) ==
  LET j == joined[r]
  IN /\ j # NoJob /\ Completed(j)
     /\ joined' = [joined EXCEPT ![r] = NoJob]
     /\ IF failed[j] THEN UNCHANGED <<outcome, pageVars>> ELSE Tell(r, j)
     /\ UNCHANGED <<ThreadVars, cacheVars, copy, jobVars, late>>

\* The Future that a request awaits has completed; its callbacks run on a
\* thread of their own, before or after those of the refresh's owner.
NotifyJoiner(r) ==
  LET j == joined[r]
  IN /\ j # NoJob /\ Completed(j)
     /\ joined' = [joined EXCEPT ![r] = NoJob]
     /\ Tell(r, j)
     /\ UNCHANGED <<ThreadVars, cacheVars, copy, jobVars, late>>

Next ==
  \/ \E c \in Conn : Change(c)
  \/ \E r \in Request, k \in Kind : Ask(r, k)
  \/ \E r \in Request : Serve(r) \/ NotifyJoiner(r)
  \/ \E j \in Job : Refresh(j)

Spec == Init /\ [][Next]_vars

\* Threads run; users and databases do what they like.
Fairness ==
  /\ \A r \in Request : WF_vars(Serve(r)) /\ WF_vars(NotifyJoiner(r))
  /\ \A j \in Job : WF_vars(Refresh(j))
FairSpec == Spec /\ Fairness

----------------------------------------------------------------------------
(* Properties                                                              *)

\* A forced refresh reads the database anew: the schema it replies with is
\* not older than the request.
ForcedReplyIsFresh ==
  \A r \in Request : (Forced(r) /\ given[r] # NotLoaded) => given[r].version >= since[r]

\* Nobody waits for nothing: a request whose thread has ended without an
\* answer (and without an exception) awaits a refresh that was submitted and
\* will still call it back.
NoForgottenWaiter ==
  \A r \in Request : (pc[r] = "ended" /\ outcome[r] = "none") =>
    IF joined[r] # NoJob THEN jobPc[joined[r]] # "none"
    ELSE jobPc[<<r, "outer">>] \notin {"none", "done"}

\* A refresh that is over is not registered any more, unless it was over
\* before the thread that submitted it came to register it: then it stays,
\* and later requests await a refresh that ended long ago.
OnlyLateRefreshStaysRegistered ==
  \A c \in Conn : (activeRefreshes[c] # NoJob /\ Removed(activeRefreshes[c]))
                    => activeRefreshes[c] \in late

\* Every request is answered, with a schema or an error, unless refreshSchema
\* threw an exception, which nobody sees.
AnsweredOrRefused ==
  \A r \in Request : pc[r] = "get" ~> (outcome[r] # "none" \/ pc[r] = "refused")

\* What the notice "Schema Refresh: Completed successfully." says: the schema
\* now shown is not older than the click.
RefreshNoticeIsTrue ==
  [][\A c \in Conn : (pending[c] /\ ~pending'[c]) => shown'[c].version >= asked[c]]_vars
============================================================================
