------------------------------ MODULE QueryRuns -----------------------------
(***************************************************************************)
(* One tab of a page and the runs its user starts from it, scripts and     *)
(* other requests that mark the tab as busy (ProgressManager): the mark,   *)
(* the socket, the socket actor, the worker that runs a script statement   *)
(* by statement with the table of running statements, the audit record of  *)
(* each statement, cancellation, and the answers as the page shows them.   *)
(* The mark of a result that is sorted or filtered again is in RowPages.   *)
(*                                                                         *)
(* The first statement of a run has the result id the page chose; it is    *)
(* <<r, 0>> here, and the page knows no other. Further statements get      *)
(* fresh ids, <<r, 1>> and so on.                                          *)
(***************************************************************************)
EXTENDS Naturals, Sequences

CONSTANTS
  MaxRuns,          \* bound: clicks on a link that marks the tab
  Choices,          \* Choices[r]: what run r may be, and its statements
  Watched,          \* the statements whose audit records are looked at
  MaxStatements,    \* bound: statements of one script
  MaxConns,         \* bound: connections of the page, one after another
  MaxTransit,       \* bound: answers on their way to the page
  MaxAsks,          \* bound: clicks on a cancel link
  MaxDisturbances,  \* bound: connections lost and tabs closed, together
  NoRun             \* the tab is not marked

ASSUME QueryRunsAssumption ==
  /\ MaxRuns \in Nat /\ MaxStatements \in Nat \ {0}
  /\ Choices \in [1..MaxRuns -> SUBSET ({"run"} \X (0..MaxStatements)
                                           \cup {<<"single", 1>>, <<"call", 1>>})]
  /\ MaxConns \in Nat \ {0} /\ MaxDisturbances \in Nat
  /\ MaxTransit \in Nat \ {0} /\ MaxAsks \in Nat
  /\ Watched \subseteq (1..MaxRuns) \X (0..MaxStatements-1)
  /\ NoRun \notin 1..MaxRuns

Run  == 1..MaxRuns
Conn == 1..MaxConns
Stmt == Run \X (0..MaxStatements-1)

VARIABLES
  tab,          \* the tab is open
  mark,         \* ProgressManager.activeQueries(queryId): a run or NoRun
  page,         \* the panels of the tab, from top to bottom
  clicks,       \* runs started so far
  asks,         \* clicks on a cancel link so far
  disturbances, \* connections lost and tabs closed so far
  away,         \* history: runs that were marked when the tab was closed
  up, conn,     \* the socket is connected; number of the connection
  via,          \* via[r]: the connection r was sent on, 0 if it was not
  inbox,        \* inbox[c]: requests on their way to, or queued at, actor c
  outbox,       \* answers on their way to the page
  alive,        \* alive[c]: no exception has stopped actor c
  kind, size,   \* of a run: a script ("run"), a request with one answer ("single": a plan,
                \* the rows of a table or view) or of a procedure ("call"); its statements
  pc, at,       \* where its worker is, and at which statement
  ans,          \* what came of the statement it is at
  active,       \* QueryExecutionService.activeQueries
  record        \* record[s]: the audit record, its insert pending at first

client == <<tab, mark, page, clicks, asks, disturbances, away>>
wire   == <<up, conn, via, inbox, outbox, alive>>
worker == <<kind, size, pc, at, ans, active>>
vars   == <<client, wire, worker, record>>

Panel   == [run : Run, at : 0..MaxStatements-1, busy : BOOLEAN]
Request == [kind : {"submit", "cancel"}, run : Run]
Answers == {"page", "result", "count", "error", "failed"}
Answer  == [kind : Answers \cup {"cancelled"}, run : Run,
            at : 0..MaxStatements-1, index : 0..MaxStatements]
Outcome == {"none", "result", "count", "error", "failure"}

TypeOK ==
  /\ tab \in BOOLEAN /\ mark \in Run \cup {NoRun} /\ page \in Seq(Panel)
  /\ clicks \in 0..MaxRuns /\ disturbances \in 0..MaxDisturbances
  /\ asks \in 0..MaxAsks /\ away \subseteq Run
  /\ up \in BOOLEAN /\ conn \in Conn /\ via \in [Run -> 0..MaxConns]
  /\ inbox \in [Conn -> Seq(Request)] /\ outbox \in Seq(Answer)
  /\ alive \in [Conn -> BOOLEAN]
  /\ kind \in [Run -> {"run", "single", "call"}] /\ size \in [Run -> 0..MaxStatements]
  /\ pc \in [Run -> {"idle", "queued", "executing", "paged", "answered",
                     "concluded", "done", "failed", "broken"}]
  /\ at \in [Run -> 0..MaxStatements-1] /\ ans \in [Run -> Outcome]
  /\ active \subseteq Stmt
  /\ record \in [Watched -> {"none", "pending", "started", "late", "completed", "error"}]

Init ==
  /\ tab = TRUE /\ mark = NoRun /\ page = <<>>
  /\ clicks = 0 /\ asks = 0 /\ disturbances = 0 /\ away = {}
  /\ up = TRUE /\ conn = 1 /\ via = [r \in Run |-> 0]
  /\ inbox = [c \in Conn |-> <<>>] /\ outbox = <<>> /\ alive = [c \in Conn |-> TRUE]
  /\ kind = [r \in Run |-> "run"] /\ size = [r \in Run |-> 0]
  /\ pc = [r \in Run |-> "idle"] /\ at = [r \in Run |-> 0]
  /\ ans = [r \in Run |-> "none"] /\ active = {}
  /\ record = [s \in Watched |-> "none"]

Current(r) == <<r, at[r]>>

-----------------------------------------------------------------------------
(* The page                                                                *)

Ask(r, k) == inbox' = [inbox EXCEPT ![conn] = Append(@, [kind |-> k, run |-> r])]

\* startProgress, which throws while the tab is marked and puts the loading panel up;
\* for a script the statement under the cursor, which may not exist (SqlScript); and
\* sendMessage, which throws when there is no connection: the mark stays, nothing is sent.
Click(r, k, n) ==
  /\ r = clicks + 1 /\ tab /\ mark = NoRun
  /\ <<k, n>> \in Choices[r]
  /\ clicks' = r /\ mark' = r
  /\ page' = <<[run |-> r, at |-> 0, busy |-> TRUE]>>
  /\ kind' = [kind EXCEPT ![r] = k] /\ size' = [size EXCEPT ![r] = n]
  /\ \/ up /\ Ask(r, "submit") /\ via' = [via EXCEPT ![r] = conn]
     \/ UNCHANGED <<inbox, via>>
  /\ UNCHANGED <<tab, asks, disturbances, away, up, conn, outbox, alive,
                 pc, at, ans, active, record>>

\* The cancel link of the loading panel.
ClickCancel(r) ==
  /\ up /\ asks < MaxAsks
  /\ \E k \in 1..Len(page) : page[k].run = r /\ page[k].busy
  /\ asks' = asks + 1
  /\ Ask(r, "cancel")
  /\ UNCHANGED <<tab, mark, page, clicks, disturbances, away,
                 up, conn, via, outbox, alive, worker, record>>

\* The panels go, the mark stays.
CloseTab ==
  /\ tab /\ disturbances < MaxDisturbances
  /\ tab' = FALSE /\ page' = <<>> /\ disturbances' = disturbances + 1
  /\ away' = away \cup ({mark} \ {NoRun})
  /\ UNCHANGED <<mark, clicks, asks, wire, worker, record>>

\* A saved query is opened again under the same id.
OpenTab ==
  /\ ~tab
  /\ tab' = TRUE
  /\ UNCHANGED <<mark, page, clicks, asks, disturbances, away, wire, worker, record>>

\* The answers that end progress; the others leave panels and mark alone.
Lifts(m) == m.kind \in {"page", "result", "error"}

\* Mutant of Place: the newest panel on top.
PlaceOnTop(panel, index) ==
  LET Same(k) == page[k].run = panel.run /\ page[k].at = panel.at
  IN  IF \E k \in 1..Len(page) : Same(k)
        THEN [k \in 1..Len(page) |-> IF Same(k) THEN panel ELSE page[k]]
        ELSE IF index = 0 THEN <<panel>> ELSE <<panel>> \o page

\* A panel takes the place of the one with its id; without one, the first result of a
\* script clears the tab and a further one goes to the bottom.
Place(panel, index) ==
  LET Same(k) == page[k].run = panel.run /\ page[k].at = panel.at
  IN  IF \E k \in 1..Len(page) : Same(k)
        THEN [k \in 1..Len(page) |-> IF Same(k) THEN panel ELSE page[k]]
        ELSE IF index = 0 THEN <<panel>> ELSE Append(page, panel)

\* Mutant of CompleteProgress: an error is shown as a notification only.
CompleteProgressOfResults(m) ==
  /\ mark' = IF m.kind = "error" THEN mark ELSE NoRun
  /\ page' = Place([run |-> m.run, at |-> m.at, busy |-> FALSE], m.index)

\* The mark goes whichever run the answer is of.
CompleteProgress(m) ==
  /\ mark' = NoRun
  /\ page' = Place([run |-> m.run, at |-> m.at, busy |-> FALSE], m.index)

\* An answer for a tab that is closed throws and is dropped.
Receive ==
  /\ up /\ outbox # <<>>
  /\ outbox' = Tail(outbox)
  /\ IF tab /\ Lifts(Head(outbox)) THEN CompleteProgress(Head(outbox))
                                   ELSE UNCHANGED <<mark, page>>
  /\ UNCHANGED <<tab, clicks, asks, disturbances, away,
                 up, conn, via, inbox, alive, worker, record>>

\* The connection is lost, and with it answers and the last requests. The actor handles
\* what has reached it.
Drop ==
  /\ up /\ disturbances < MaxDisturbances
  /\ up' = FALSE /\ outbox' = <<>> /\ disturbances' = disturbances + 1
  /\ \E k \in 0..Len(inbox[conn]) :
       inbox' = [inbox EXCEPT ![conn] = SubSeq(@, 1, k)]
  /\ UNCHANGED <<tab, mark, page, clicks, asks, away, conn, via, alive, worker, record>>

Connect ==
  /\ ~up /\ conn < MaxConns
  /\ up' = TRUE /\ conn' = conn + 1
  /\ UNCHANGED <<client, via, inbox, outbox, alive, worker, record>>

-----------------------------------------------------------------------------
(* The socket actor                                                        *)

\* An answer sent to the page of a connection that is gone is lost.
Send(c, m) == /\ Len(outbox) < MaxTransit
              /\ outbox' = IF up /\ c = conn THEN Append(outbox, m) ELSE outbox

Take(c, k) ==
  /\ alive[c] /\ inbox[c] # <<>> /\ Head(inbox[c]).kind = k
  /\ inbox' = [inbox EXCEPT ![c] = Tail(@)]

\* A script without a statement is an exception, which stops the actor, and so is an
\* unknown procedure; a known one is not answered. A plan may not be available for the
\* engine, a table or view not be there.
HandleSubmit(c) ==
  /\ Take(c, "submit")
  /\ LET r == Head(inbox[c]).run
     IN  \/ /\ size[r] = 0 \/ kind[r] = "call"
            /\ alive' = [alive EXCEPT ![c] = FALSE]
            /\ UNCHANGED <<pc, outbox>>
         \/ /\ size[r] > 0 /\ kind[r] # "call"
            /\ pc' = [pc EXCEPT ![r] = "queued"]
            /\ UNCHANGED <<alive, outbox>>
         \/ /\ kind[r] = "call"
            /\ pc' = [pc EXCEPT ![r] = "broken"]
            /\ UNCHANGED <<alive, outbox>>
         \/ /\ kind[r] = "single"
            /\ pc' = [pc EXCEPT ![r] = "failed"]
            /\ Send(c, [kind |-> "failed", run |-> r, at |-> 0, index |-> 0])
            /\ UNCHANGED alive
  /\ UNCHANGED <<client, up, conn, via, kind, size, at, ans, active, record>>

Executing(s) == pc[s[1]] \in {"executing", "paged"} /\ at[s[1]] = s[2]

\* The page knows the id of the first statement only. A statement that is still in the
\* table may have been closed, and the driver may refuse to cancel it.
HandleCancel(c) ==
  /\ Take(c, "cancel")
  /\ LET r == Head(inbox[c]).run
         s == <<r, 0>>
     IN  \/ /\ Send(c, [kind |-> "cancelled", run |-> r, at |-> 0, index |-> 0])
            /\ UNCHANGED alive
         \/ /\ s \in active /\ ~Executing(s)
            /\ alive' = [alive EXCEPT ![c] = FALSE]
            /\ UNCHANGED outbox
  /\ UNCHANGED <<client, up, conn, via, kind, size, pc, at, ans, active, record>>

-----------------------------------------------------------------------------
(* The worker thread of a run                                              *)

Step(r, p) == pc' = [pc EXCEPT ![r] = p]

\* Records of different statements have nothing to do with one another.
Audit(s, status) == record' = IF s \in Watched THEN [record EXCEPT ![s] = status] ELSE record

\* The insert of the audit record is given to a future of its own; the statement is
\* prepared, registered as running and executed.
Execute(r) ==
  /\ pc[r] = "queued" /\ kind[r] = "run"
  /\ Step(r, "executing")
  /\ Audit(Current(r), "pending")
  /\ active' = active \cup {Current(r)}
  /\ UNCHANGED <<client, wire, kind, size, at, ans>>

\* The first page of a result set of several rows leaves before the work has ended.
SendPage(r) ==
  /\ pc[r] = "executing"
  /\ Step(r, "paged")
  /\ Send(via[r], [kind |-> "page", run |-> r, at |-> at[r], index |-> at[r]])
  /\ UNCHANGED <<client, up, conn, via, inbox, alive,
                 kind, size, at, ans, active, record>>

\* A result set of at most a row or an update count; the row count after a page.
Finish(r) ==
  /\ \/ pc[r] = "executing" /\ ans' = [ans EXCEPT ![r] = "result"]
     \/ pc[r] = "paged" /\ ans' = [ans EXCEPT ![r] = "count"]
  /\ Step(r, "answered")
  /\ UNCHANGED <<client, wire, kind, size, at, active, record>>

\* An exception, which sqlCatch turns into an answer unless it fails itself. Before the
\* statement is registered it may come before or after the insert was given away.
Throw(r) ==
  /\ \/ pc[r] \in {"executing", "paged"} /\ UNCHANGED record
     \/ /\ pc[r] = "queued" /\ kind[r] = "run"
        /\ UNCHANGED record \/ Audit(Current(r), "pending")
  /\ \E a \in {"error", "failure"} : ans' = [ans EXCEPT ![r] = a]
  /\ Step(r, "answered")
  /\ UNCHANGED <<client, wire, kind, size, at, active>>

\* Explain and analyze, or the rows of a table or view: one statement, not registered.
Explain(r) ==
  /\ pc[r] = "queued" /\ kind[r] = "single"
  /\ \E a \in {"result", "error", "failure"} : ans' = [ans EXCEPT ![r] = a]
  /\ Step(r, "answered")
  /\ UNCHANGED <<client, wire, kind, size, at, active, record>>

-----------------------------------------------------------------------------
(* The callback of the work: onSuccess, or onFailure for a failure         *)

\* Mutant of Unregister: the entry goes with a result only.
UnregisterResult(r) ==
  active' = IF ans[r] \in {"error", "failure"} THEN active ELSE active \ {Current(r)}

\* onFailure leaves the entry where it is.
Unregister(r) ==
  active' = IF ans[r] = "failure" THEN active ELSE active \ {Current(r)}

\* Mutant of AuditStatus: whatever the callback is given is a completion.
AuditCompleted(a) == "completed"

AuditStatus(a) == IF a \in {"error", "failure"} THEN "error" ELSE "completed"

\* The entry goes, then the record is updated, which changes nothing while it has not
\* been inserted.
Conclude(r) ==
  /\ pc[r] = "answered" /\ kind[r] = "run"
  /\ Step(r, "concluded")
  /\ Unregister(r)
  /\ IF Current(r) \in Watched /\ record[Current(r)] = "started"
       THEN Audit(Current(r), AuditStatus(ans[r])) ELSE UNCHANGED record
  /\ UNCHANGED <<client, wire, kind, size, at, ans>>

\* The update throws in the callback: no answer, no next statement.
ConcludeBreaks(r) ==
  /\ pc[r] = "answered" /\ kind[r] = "run"
  /\ Step(r, "broken")
  /\ Unregister(r)
  /\ UNCHANGED <<client, wire, kind, size, at, ans, record>>

\* The UPDATE for this statement has been made.
Updated(s) == at[s[1]] > s[2] \/ (at[s[1]] = s[2] /\ pc[s[1]] \in {"concluded", "done", "failed"})

AuditInsert(s) ==
  /\ record[s] = "pending"
  /\ Audit(s, IF Updated(s) THEN "late" ELSE "started")
  /\ UNCHANGED <<client, wire, worker>>

\* The index of an error is that of the statement, or what PostgreSQL says of the
\* position in the text, which may be nothing; any index above 0 appends.
Index(r) == IF ans[r] = "error" THEN {0, 1} ELSE {at[r]}

Reply(r) == \E i \in Index(r) :
  Send(via[r], [kind |-> ans[r], run |-> r, at |-> at[r], index |-> i])

More(r) == at[r] + 1 < size[r]

\* Mutant of Respond: the script stops at an error and says nothing of it.
RespondToResults(r) ==
  /\ pc[r] = "concluded" \/ (pc[r] = "answered" /\ kind[r] = "single")
  /\ IF ans[r] \in {"error", "failure"}
       THEN Step(r, "done") /\ UNCHANGED <<outbox, at>>
       ELSE /\ Reply(r)
            /\ IF More(r) THEN Step(r, "queued") /\ at' = [at EXCEPT ![r] = @ + 1]
                          ELSE Step(r, "done") /\ UNCHANGED at
  /\ UNCHANGED <<client, up, conn, via, inbox, alive,
                 kind, size, ans, active, record>>

\* After a failure the script stops, after an error it goes on.
Respond(r) ==
  /\ pc[r] = "concluded" \/ (pc[r] = "answered" /\ kind[r] = "single")
  /\ IF ans[r] = "failure"
       THEN /\ Send(via[r], [kind |-> "failed", run |-> r, at |-> at[r], index |-> 0])
            /\ Step(r, "failed") /\ UNCHANGED at
       ELSE /\ Reply(r)
            /\ IF More(r) THEN Step(r, "queued") /\ at' = [at EXCEPT ![r] = @ + 1]
                          ELSE Step(r, "done") /\ UNCHANGED at
  /\ UNCHANGED <<client, up, conn, via, inbox, alive,
                 kind, size, ans, active, record>>

-----------------------------------------------------------------------------
Actor(c)    == HandleSubmit(c) \/ HandleCancel(c)
Work(r)     == Execute(r) \/ SendPage(r) \/ Finish(r) \/ Throw(r) \/ Explain(r)
Callback(r) == Conclude(r) \/ ConcludeBreaks(r) \/ Respond(r)

Next ==
  \/ \E r \in Run, k \in {"run", "single", "call"}, n \in 0..MaxStatements : Click(r, k, n)
  \/ \E r \in Run : ClickCancel(r)
  \/ CloseTab \/ OpenTab \/ Receive \/ Drop \/ Connect
  \/ \E c \in Conn : Actor(c)
  \/ \E r \in Run : Work(r) \/ Callback(r)
  \/ \E s \in Watched : AuditInsert(s)

Spec == Init /\ [][Next]_vars

\* Actors and threads run, statements end, and an open socket delivers.
Fairness == /\ WF_vars(Receive)
            /\ \A c \in Conn : WF_vars(Actor(c))
            /\ \A r \in Run : WF_vars(Work(r) \/ Callback(r))

FairSpec == Spec /\ Fairness

-----------------------------------------------------------------------------
(* Properties                                                              *)

\* What may keep the tab busy for good: the run was never sent, its connection or actor
\* is gone, its answer was a ServerError, which lifts no mark (a failure outside sqlCatch,
\* or a table, view or plan that is not to be had), its callback threw, it is the call of a
\* procedure, which has no answer, or the tab was closed.
Excused(r) ==
  \/ via[r] = 0 \/ via[r] # conn \/ ~up \/ ~alive[via[r]] \/ r \in away
  \/ pc[r] \in {"failed", "broken"}

Submitted(r) == [kind |-> "submit", run |-> r]

\* An answer that will lift the mark of the run is on its way or being worked at.
Coming(r) ==
  \/ \E k \in 1..Len(inbox[conn]) : inbox[conn][k] = Submitted(r)
  \/ at[r] = 0 /\ pc[r] \in {"queued", "executing", "answered", "concluded"}
  \/ \E k \in 1..Len(outbox) : outbox[k].run = r /\ Lifts(outbox[k])

\* While a run, of whatever kind, keeps its mark on the tab, its first answer is still to
\* come, unless that was lost for one of these reasons (ProgressManager.scala:18-59, 61-80).
BusyIsHonest == \A r \in Run : mark = r => Excused(r) \/ Coming(r)

\* The tab does not stay busy with a run, but for the same reasons
\* (ProgressManager.scala:19-23 refuses every further one).
MarkIsLifted == \A r \in Run : mark = r ~> mark # r \/ Excused(r)

\* The answers to a script come in the order of its statements, for each the page
\* before the rest, and the panels follow it (QueryExecutionService.scala:75-78).
AnswersInOrder ==
  LET Talk == {k \in 1..Len(outbox) : outbox[k].kind # "cancelled"}
      Last(m) == m.kind \in {"count", "error", "failed"}
  IN  /\ \A j, k \in Talk : j < k /\ outbox[j].run = outbox[k].run =>
           \/ outbox[j].at < outbox[k].at
           \/ outbox[j].at = outbox[k].at /\ outbox[j].kind = "page" /\ Last(outbox[k])
      /\ \A j, k \in 1..Len(page) : j < k /\ page[j].run = page[k].run => page[j].at < page[k].at
      /\ \A j \in 1..Len(page), k \in Talk :
           ~page[j].busy /\ page[j].run = outbox[k].run =>
             page[j].at < outbox[k].at \/ (page[j].at = outbox[k].at /\ Last(outbox[k]))

\* A statement of a script is in the table of running statements, for a cancel to find,
\* from before it executes until it has ended, and no longer, but for one that ended in a
\* failure (QueryExecutionService.scala:24, 66, 82-91, Queryable.scala:62).
TableIsRight ==
  /\ \A r \in Run : pc[r] \in {"executing", "paged"} => Current(r) \in active
  /\ \A s \in active : LET r == s[1] IN
       /\ s = Current(r)
       /\ pc[r] \in {"executing", "paged", "answered"} \/ ans[r] = "failure"

\* A record that stays "started" is one that was inserted after its update, or whose
\* update threw; a completed record is of a statement that had a result, an error of one
\* that had none (AuditRecordService.scala:43-67, QueryExecutionService.scala:51, 66-74).
AuditIsTrue ==
  \A s \in Watched :
    /\ record[s] = "started" => ~Updated(s)
    /\ s = Current(s[1]) =>
         /\ record[s] = "completed" => ans[s[1]] \in {"result", "count"}
         /\ record[s] = "error" => ans[s[1]] \in {"error", "failure"}
=============================================================================
