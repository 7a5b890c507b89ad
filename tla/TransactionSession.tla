------------------------ MODULE TransactionSession -------------------------
(***************************************************************************)
(* A transaction as the user of the web client sees it.                    *)
(*                                                                         *)
(* Four parties take part: the client (TransactionService), which keeps a  *)
(* flag of its own; the socket actor of the current connection             *)
(* (TransactionHelper), which holds the transaction; the worker pool,      *)
(* which runs each submitted statement on the database handle captured     *)
(* when the actor received it; and the JDBC connection pool.  The client   *)
(* may lose its connection and come back to a new socket actor; it is the  *)
(* same page, so it keeps its flag.                                        *)
(***************************************************************************)
EXTENDS Naturals, Sequences, FiniteSets

CONSTANTS
  Session,      \* socket actors, one per connection of the client
  Tx,           \* transactions
  Run,          \* submitted statements
  NoSession, NoTx, Pool,
  PoolSize,     \* connections of the pool: 8
  MaxInbox      \* bound: requests on the way to one socket actor

ASSUME TransactionSessionAssumption ==
  /\ NoSession \notin Session /\ NoTx \notin Tx /\ Pool \notin Tx /\ Pool # NoTx
  /\ Tx \cap Run = {}
  /\ PoolSize \in Nat \ {0} /\ MaxInbox \in Nat \ {0}
  /\ IsFiniteSet(Tx) /\ IsFiniteSet(Run)

VARIABLES
  socket,     \* the client's session, NoSession while it is not connected
  inTx,       \* the client's inTransaction
  link,       \* the link that begins a transaction is visible
  counted,    \* the statements counted in numStatements
  notice,     \* the last closing notice shown to the user
  inbox,      \* inbox[s]: requests on the way to socket actor s
  outbox,     \* outbox[s]: responses on the way to the client
  life,       \* life[s]: of the socket actor
  active,     \* active[s]: its activeTransaction
  closing,    \* closing[s]: it has ended its transaction but not closed it yet
  ended,      \* ended[t]: how the JDBC transaction ended
  leased,     \* connections taken from the pool, named by who took them
  pending,    \* pending[t]: uncommitted statements on the connection of t
  durable,    \* statements whose effects are committed
  runOf,      \* runOf[r]: session that received it, database handle captured
  runPc,      \* runPc[r]: position of the statement
  trust,      \* history: what the client's flag rests on
  believed    \* history: the trust each statement was submitted under

clientVars == <<socket, inTx, link, counted, notice, trust, believed>>
netVars == <<inbox, outbox>>
actorVars == <<life, active, closing>>
dbVars == <<ended, leased, pending, durable>>
runVars == <<runOf, runPc>>
vars == <<clientVars, netVars, actorVars, dbVars, runVars>>

Begin == [type |-> "begin"]
Commit == [type |-> "commit"]
Rollback == [type |-> "rollback"]
SubmitQuery(r) == [type |-> "submit", run |-> r]
Request == [type : {"begin", "commit", "rollback"}] \cup [type : {"submit"}, run : Run]

Status(st) == [type |-> "status", state |-> st]
Result(r) == [type |-> "result", run |-> r]
Failed(r) == [type |-> "error", run |-> r]
Response == [type : {"status"}, state : {"started", "committed", "rolledback"}]
              \cup [type : {"result", "error"}, run : Run]

\* The flag says "not in a transaction" (none); the server of this very
\* connection confirmed the transaction (sure); the user has asked to end it
\* (asked); or it was confirmed by a server of an earlier connection (stale).
Trust == {"none", "sure", "asked", "stale"}

TypeOK ==
  /\ socket \in Session \cup {NoSession} /\ inTx \in BOOLEAN /\ link \in BOOLEAN
  /\ counted \subseteq Run
  /\ trust \in Trust /\ believed \in [Run -> Trust]
  /\ notice \in [kind : {"none", "committed", "rolledback"}, runs : SUBSET Run]
  /\ inbox \in [Session -> Seq(Request)] /\ outbox \in [Session -> Seq(Response)]
  /\ life \in [Session -> {"unused", "alive", "ending", "dead"}]
  /\ closing \in [Session -> {"no", "committed", "rolledback"}]
  /\ active \in [Session -> Tx \cup {NoTx}]
  /\ ended \in [Tx -> {"unused", "open", "committed", "rolledback"}]
  /\ leased \subseteq Tx \cup Run
  /\ pending \in [Tx -> SUBSET Run] /\ durable \subseteq Run
  /\ runOf \in [Run -> [session : Session \cup {NoSession}, db : Tx \cup {Pool}]]
  /\ runPc \in [Run -> {"unused", "sent", "queued", "running", "ok", "failed", "done"}]

Init ==
  /\ socket = NoSession /\ inTx = FALSE /\ link = TRUE
  /\ counted = {} /\ trust = "none" /\ believed = [r \in Run |-> "none"]
  /\ notice = [kind |-> "none", runs |-> {}]
  /\ inbox = [s \in Session |-> <<>>] /\ outbox = [s \in Session |-> <<>>]
  /\ life = [s \in Session |-> "unused"] /\ active = [s \in Session |-> NoTx]
  /\ closing = [s \in Session |-> "no"]
  /\ ended = [t \in Tx |-> "unused"] /\ leased = {}
  /\ pending = [t \in Tx |-> {}] /\ durable = {}
  /\ runOf = [r \in Run |-> [session |-> NoSession, db |-> Pool]]
  /\ runPc = [r \in Run |-> "unused"]

----------------------------------------------------------------------------
(* The client                                                              *)

Connected == socket # NoSession
Send(m) ==
  /\ Connected /\ Len(inbox[socket]) < MaxInbox
  /\ inbox' = [inbox EXCEPT ![socket] = Append(@, m)]

\* Opens a socket; after a lost connection the reconnect dialog does it.
Connect(s) ==
  /\ ~Connected /\ life[s] = "unused"
  /\ socket' = s
  /\ trust' = IF inTx THEN "stale" ELSE "none"
  /\ life' = [life EXCEPT ![s] = "alive"]
  /\ UNCHANGED <<inTx, link, counted, notice, believed, netVars, active, closing, dbVars, runVars>>

BeginTransaction ==
  /\ ~inTx /\ link /\ \E t \in Tx : ended[t] = "unused"
  /\ Send(Begin)
  /\ link' = FALSE
  /\ UNCHANGED <<socket, inTx, counted, notice, trust, believed, outbox, actorVars, dbVars, runVars>>

\* Nothing on the page changes until the status comes back.
EndTransaction(m) ==
  /\ inTx
  /\ Send(m)
  /\ trust' = IF trust = "sure" THEN "asked" ELSE trust
  /\ UNCHANGED <<socket, inTx, link, counted, notice, believed, outbox, actorVars, dbVars, runVars>>

Submit(r) ==
  /\ runPc[r] = "unused"
  /\ Send(SubmitQuery(r))
  /\ runPc' = [runPc EXCEPT ![r] = "sent"]
  /\ believed' = [believed EXCEPT ![r] = trust]
  /\ UNCHANGED <<socket, inTx, link, counted, notice, trust, outbox, actorVars, dbVars, runOf>>

OnStatus(state) ==
  IF state = "started"
    THEN inTx' = TRUE /\ trust' = "sure" /\ UNCHANGED <<link, counted, notice>>
    ELSE /\ inTx' = FALSE /\ trust' = "none" /\ link' = TRUE /\ counted' = {}
         /\ notice' = [kind |-> state, runs |-> counted]

OnResult(m) ==
  /\ counted' = IF inTx /\ m.type = "result" THEN counted \cup {m.run} ELSE counted
  /\ UNCHANGED <<inTx, link, notice, trust>>

Receive ==
  /\ Connected /\ outbox[socket] # <<>>
  /\ LET m == Head(outbox[socket])
     IN IF m.type = "status" THEN OnStatus(m.state) ELSE OnResult(m)
  /\ outbox' = [outbox EXCEPT ![socket] = Tail(@)]
  /\ UNCHANGED <<socket, believed, inbox, actorVars, dbVars, runVars>>

\* The connection breaks: what the server has not received yet may be lost,
\* and the actor is told to stop after the rest.
Disconnect ==
  /\ Connected
  /\ socket' = NoSession
  /\ \E n \in 0 .. Len(inbox[socket]) :
       inbox' = [inbox EXCEPT ![socket] = SubSeq(@, 1, n)]
  /\ outbox' = [outbox EXCEPT ![socket] = <<>>]
  /\ life' = IF life[socket] = "alive" THEN [life EXCEPT ![socket] = "ending"] ELSE life
  /\ UNCHANGED <<inTx, link, counted, notice, trust, believed, active, closing, dbVars, runVars>>

----------------------------------------------------------------------------
(* The socket actor                                                        *)

Running(s) == life[s] \in {"alive", "ending"} /\ closing[s] = "no"
Next1(s, type) == Running(s) /\ inbox[s] # <<>> /\ Head(inbox[s]).type = type
Take(s) == inbox' = [inbox EXCEPT ![s] = Tail(@)]
\* Mutant: the answer goes to whichever socket the client has open now.
ReplyToCurrent(s, m) ==
  outbox' = IF Connected THEN [outbox EXCEPT ![socket] = Append(@, m)] ELSE outbox

\* A message to a client that has gone is dropped.
Reply(s, m) == outbox' = IF s = socket THEN [outbox EXCEPT ![s] = Append(@, m)] ELSE outbox

\* Mutant: postStop leaves the transaction alone.
PostStopOnly(s) ==
  /\ life' = [life EXCEPT ![s] = "dead"]
  /\ inbox' = [inbox EXCEPT ![s] = <<>>]
  /\ active' = [active EXCEPT ![s] = NoTx]
  /\ closing' = [closing EXCEPT ![s] = "no"]
  /\ UNCHANGED <<clientVars, outbox, dbVars, runVars>>

\* The actor stops, after a PoisonPill or an exception in a handler.
\* postStop rolls an active transaction back and does not close it: its
\* connection never returns to the pool.
PostStop(s) ==
  /\ life' = [life EXCEPT ![s] = "dead"]
  /\ inbox' = [inbox EXCEPT ![s] = <<>>]
  /\ active' = [active EXCEPT ![s] = NoTx]
  /\ closing' = [closing EXCEPT ![s] = "no"]
  /\ IF active[s] \in Tx
       THEN /\ ended' = [ended EXCEPT ![active[s]] = "rolledback"]
            /\ pending' = [pending EXCEPT ![active[s]] = {}]
       ELSE UNCHANGED <<ended, pending>>
  /\ UNCHANGED <<clientVars, outbox, leased, durable, runVars>>

\* getConnection throws when no connection becomes free in time.
PoolIsFull == Cardinality(leased) >= PoolSize

HandleBegin(s) ==
  /\ Next1(s, "begin")
  /\ IF active[s] # NoTx \/ PoolIsFull
       THEN PostStop(s)
       ELSE \E t \in Tx :
              /\ ended[t] = "unused"
              /\ ended' = [ended EXCEPT ![t] = "open"]
              /\ leased' = leased \cup {t}
              /\ active' = [active EXCEPT ![s] = t]
              /\ Take(s) /\ Reply(s, Status("started"))
              /\ UNCHANGED <<clientVars, life, closing, pending, durable, runVars>>

\* tx.commit(): the database may refuse, and the exception stops the actor.
HandleCommit(s) ==
  /\ Next1(s, "commit")
  /\ \/ PostStop(s)
     \/ /\ active[s] # NoTx
        /\ durable' = durable \cup pending[active[s]]
        /\ pending' = [pending EXCEPT ![active[s]] = {}]
        /\ ended' = [ended EXCEPT ![active[s]] = "committed"]
        /\ closing' = [closing EXCEPT ![s] = "committed"]
        /\ Take(s)
        /\ UNCHANGED <<clientVars, outbox, life, active, leased, runVars>>

HandleRollback(s) ==
  /\ Next1(s, "rollback")
  /\ \/ PostStop(s)
     \/ /\ active[s] # NoTx
        /\ pending' = [pending EXCEPT ![active[s]] = {}]
        /\ ended' = [ended EXCEPT ![active[s]] = "rolledback"]
        /\ closing' = [closing EXCEPT ![s] = "rolledback"]
        /\ Take(s)
        /\ UNCHANGED <<clientVars, outbox, life, active, leased, durable, runVars>>

\* Mutants: the transaction is forgotten but its connection is not closed;
\* the connection goes back with auto-commit on, which commits what it holds.
ForgetTransaction(s) ==
  /\ life[s] \in {"alive", "ending"} /\ closing[s] # "no"
  /\ active' = [active EXCEPT ![s] = NoTx]
  /\ closing' = [closing EXCEPT ![s] = "no"]
  /\ Reply(s, Status(closing[s]))
  /\ UNCHANGED <<clientVars, inbox, life, dbVars, runVars>>
CloseByAutoCommit(s) ==
  /\ life[s] \in {"alive", "ending"} /\ closing[s] # "no"
  /\ leased' = leased \ {active[s]}
  /\ durable' = durable \cup pending[active[s]]
  /\ pending' = [pending EXCEPT ![active[s]] = {}]
  /\ active' = [active EXCEPT ![s] = NoTx]
  /\ closing' = [closing EXCEPT ![s] = "no"]
  /\ Reply(s, Status(closing[s]))
  /\ UNCHANGED <<clientVars, inbox, life, ended, runVars>>

\* tx.close(): the pool rolls back what ran since the end of the
\* transaction, the transaction is forgotten and the client is told.
CloseTransaction(s) ==
  /\ life[s] \in {"alive", "ending"} /\ closing[s] # "no"
  /\ leased' = leased \ {active[s]}
  /\ pending' = [pending EXCEPT ![active[s]] = {}]
  /\ active' = [active EXCEPT ![s] = NoTx]
  /\ closing' = [closing EXCEPT ![s] = "no"]
  /\ Reply(s, Status(closing[s]))
  /\ UNCHANGED <<clientVars, inbox, life, ended, durable, runVars>>

\* Mutants: the handle of the socket is not resolved; it is always the pool.
Unresolved(s) == active[s]
AlwaysPool(s) == Pool

\* The handle is captured when the request is received, not when it runs.
Captured(s) == IF active[s] = NoTx THEN Pool ELSE active[s]

HandleSubmit(s) ==
  /\ Next1(s, "submit")
  /\ LET r == Head(inbox[s]).run
     IN /\ runOf' = [runOf EXCEPT ![r] = [session |-> s, db |-> Captured(s)]]
        /\ runPc' = [runPc EXCEPT ![r] = "queued"]
  /\ Take(s)
  /\ UNCHANGED <<clientVars, outbox, actorVars, dbVars>>

Stop(s) == life[s] = "ending" /\ Running(s) /\ inbox[s] = <<>> /\ PostStop(s)

Actor(s) ==
  \/ HandleBegin(s) \/ HandleCommit(s) \/ HandleRollback(s)
  \/ CloseTransaction(s) \/ HandleSubmit(s) \/ Stop(s)

----------------------------------------------------------------------------
(* The worker pool                                                         *)

Goto(r, at) == runPc' = [runPc EXCEPT ![r] = at]

\* A statement outside a transaction takes a connection of its own.
Acquire(r) ==
  /\ runPc[r] = "queued"
  /\ IF runOf[r].db # Pool THEN Goto(r, "running") /\ UNCHANGED leased
     ELSE IF PoolIsFull THEN Goto(r, "failed") /\ UNCHANGED leased
     ELSE Goto(r, "running") /\ leased' = leased \cup {r}
  /\ UNCHANGED <<clientVars, netVars, actorVars, ended, pending, durable, runOf>>

\* Outside a transaction the statement is committed at once.  In one, it
\* stays pending on the connection; after close the connection refuses it.
ExecuteOk(r) ==
  /\ runPc[r] = "running"
  /\ Goto(r, "ok")
  /\ IF runOf[r].db = Pool
       THEN /\ durable' = durable \cup {r}
            /\ leased' = leased \ {r}
            /\ UNCHANGED pending
       ELSE /\ runOf[r].db \in leased
            /\ pending' = [pending EXCEPT ![runOf[r].db] = @ \cup {r}]
            /\ UNCHANGED <<durable, leased>>
  /\ UNCHANGED <<clientVars, netVars, actorVars, ended, runOf>>

ExecuteFails(r) ==
  /\ runPc[r] = "running"
  /\ Goto(r, "failed")
  /\ leased' = leased \ {r}
  /\ UNCHANGED <<clientVars, netVars, actorVars, ended, pending, durable, runOf>>

Respond(r) ==
  /\ runPc[r] \in {"ok", "failed"}
  /\ Goto(r, "done")
  /\ Reply(runOf[r].session, IF runPc[r] = "ok" THEN Result(r) ELSE Failed(r))
  /\ UNCHANGED <<clientVars, inbox, actorVars, dbVars, runOf>>

Worker(r) == Acquire(r) \/ ExecuteOk(r) \/ ExecuteFails(r) \/ Respond(r)

Next ==
  \/ \E s \in Session : Connect(s) \/ Actor(s)
  \/ BeginTransaction \/ EndTransaction(Commit) \/ EndTransaction(Rollback)
  \/ \E r \in Run : Submit(r) \/ Worker(r)
  \/ Receive \/ Disconnect

Spec == Init /\ [][Next]_vars

\* Actors and pool threads make progress; the user and the network need not.
Fairness == /\ \A s \in Session : WF_vars(Actor(s))
            /\ \A r \in Run : WF_vars(Worker(r))
FairSpec == Spec /\ Fairness

----------------------------------------------------------------------------
(* Properties                                                              *)

\* Whatever the interleaving of the client, the socket actors, the worker
\* threads and the connection pool, the database sees atomic transactions:
\* a statement that reaches a connection after the end of its transaction
\* has no effect at all.
Owner(r) == IF runPc[r] \in {"unused", "sent"} THEN NoTx ELSE runOf[r].db
Store == INSTANCE TransactionalStore WITH
  NoOwner <- NoTx,
  Alone <- Pool,
  phase <- ended,
  owner <- [r \in Run |-> Owner(r)],
  work <- [t \in Tx |-> IF ended[t] = "open" THEN pending[t] ELSE {}],
  store <- durable
ImplementsStore == Store!StoreSpec

Committed(r) == runOf[r].db \in Tx /\ ended[runOf[r].db] = "committed"

\* A statement submitted while the server of this connection had confirmed a
\* transaction, and the user had not asked to end it, takes effect only with
\* the commit of a transaction.
SureStatementsAreIsolated ==
  \A r \in Run : (believed[r] = "sure" /\ r \in durable) => Committed(r)

\* While the client is sure of its transaction, the socket actor it talks to
\* has one open, or has stopped.
SureClientHasTransaction ==
  (Connected /\ trust = "sure" /\ life[socket] = "alive") =>
    active[socket] # NoTx /\ ended[active[socket]] = "open"

\* A connection that is out of the pool belongs to a transaction of a live
\* socket actor, to a running statement, or to a transaction that postStop
\* rolled back: nothing else leaks, and no connection in use is in the pool.
ConnectionsAccounted ==
  /\ \A t \in Tx : (\E s \in Session : active[s] = t) => t \in leased
  /\ \A t \in Tx \cap leased :
       (\E s \in Session : active[s] = t) \/ ended[t] = "rolledback"
  /\ Run \cap leased = {r \in Run : runPc[r] = "running" /\ runOf[r].db = Pool}
  /\ Cardinality(leased) <= PoolSize

\* Two socket actors never hold the same transaction.
OwnTransaction ==
  \A s, u \in Session : (active[s] # NoTx /\ active[s] = active[u]) => s = u

\* When the client goes away, its socket actor stops, and the transaction it
\* held is no longer open.
AbandonedTransactionEnds ==
  \A s \in Session, t \in Tx :
    (life[s] = "ending" /\ active[s] = t) ~> (life[s] = "dead" /\ ended[t] # "open")

\* What "Persisted results of N statements." says when a commit is confirmed:
\* the statements counted have taken effect.
PersistedNoticeIsTrue == notice.kind = "committed" => notice.runs \subseteq durable
============================================================================
