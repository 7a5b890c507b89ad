---------------------- MODULE TransactionSessionProofs ----------------------
(***************************************************************************)
(* Proofs about TransactionSession, for any number of connections,         *)
(* transactions, statements, pooled connections and queued requests. The   *)
(* database sees the atomic transactions of TransactionalStore; the leases *)
(* of the connection pool are accounted for; and while the client's flag   *)
(* is sure, nothing under way can end the transaction: the client and its  *)
(* live socket actor are in a dialog of one request and one status at a    *)
(* time (Dialog).                                                          *)
(***************************************************************************)
EXTENDS TransactionSession, TLAPS, SequenceTheorems, FiniteSetTheorems

\* The facts about the constants that the proofs need.
LEMMA Constants ==
  /\ NoSession \notin Session /\ NoTx \notin Tx /\ Pool \notin Tx /\ Pool # NoTx
  /\ Tx \cap Run = {}
  /\ MaxInbox \in Nat
BY TransactionSessionAssumption DEF TransactionSessionAssumption

----------------------------------------------------------------------------
(* Types                                                                   *)

LEMMA TypeInit == Init => TypeOK
<1> SUFFICES ASSUME Init PROVE TypeOK
  OBVIOUS
<1>1. <<>> \in Seq(Request) /\ <<>> \in Seq(Response)
  OBVIOUS
<1> QED BY <1>1 DEF Init, TypeOK, Trust

\* What the actions that touch the two queues do to them.
LEMMA SendType ==
  ASSUME TypeOK, NEW m \in Request, Send(m)
  PROVE  inbox' \in [Session -> Seq(Request)] /\ socket \in Session
<1>1. socket \in Session
  BY DEF TypeOK, Send, Connected
<1>2. Append(inbox[socket], m) \in Seq(Request)
  BY <1>1 DEF TypeOK
<1> QED BY <1>1, <1>2 DEF TypeOK, Send

LEMMA TakeType ==
  ASSUME TypeOK, NEW s \in Session, Take(s), inbox[s] # <<>>
  PROVE  inbox' \in [Session -> Seq(Request)]
<1>1. Tail(inbox[s]) \in Seq(Request)
  BY DEF TypeOK
<1> QED BY <1>1 DEF TypeOK, Take

LEMMA ReplyType ==
  ASSUME TypeOK, NEW s \in Session, NEW m \in Response, Reply(s, m)
  PROVE  outbox' \in [Session -> Seq(Response)]
<1>1. Append(outbox[s], m) \in Seq(Response)
  BY DEF TypeOK
<1> QED BY <1>1 DEF TypeOK, Reply

LEMMA MessageTypes ==
  /\ \A m \in {Begin, Commit, Rollback} : m \in Request
  /\ \A st \in {"started", "committed", "rolledback"} : Status(st) \in Response
  /\ \A r \in Run : SubmitQuery(r) \in Request /\ Result(r) \in Response /\ Failed(r) \in Response
BY DEF Begin, Commit, Rollback, Status, SubmitQuery, Result, Failed, Request, Response

LEMMA PostStopType ==
  ASSUME TypeOK, NEW s \in Session, PostStop(s)
  PROVE  TypeOK'
<1>1. <<>> \in Seq(Request)
  OBVIOUS
<1> QED BY <1>1 DEF TypeOK, PostStop, clientVars, runVars

LEMMA TypeStep == TypeOK /\ [Next]_vars => TypeOK'
<1> SUFFICES ASSUME TypeOK, [Next]_vars PROVE TypeOK'
  OBVIOUS
<1> USE Constants
<1>1. ASSUME NEW s \in Session, Connect(s)  PROVE TypeOK'
  BY <1>1 DEF TypeOK, Connect, Trust, netVars, dbVars, runVars
<1>2. CASE BeginTransaction
  BY <1>2, SendType, MessageTypes DEF TypeOK, BeginTransaction, actorVars, dbVars, runVars
<1>3. ASSUME NEW m \in {Commit, Rollback}, EndTransaction(m)  PROVE TypeOK'
  BY <1>3, SendType, MessageTypes DEF TypeOK, EndTransaction, Trust, actorVars, dbVars, runVars
<1>4. ASSUME NEW r \in Run, Submit(r)  PROVE TypeOK'
  BY <1>4, SendType, MessageTypes DEF TypeOK, Submit, Trust, actorVars, dbVars
<1>5. CASE Receive
  <2>1. socket \in Session /\ outbox[socket] # <<>>
    BY <1>5 DEF Receive, Connected, TypeOK
  <2>2. Head(outbox[socket]) \in Response /\ Tail(outbox[socket]) \in Seq(Response)
    BY <2>1 DEF TypeOK
  <2>3. outbox' \in [Session -> Seq(Response)]
    BY <1>5, <2>1, <2>2 DEF Receive, TypeOK
  <2> DEFINE m == Head(outbox[socket])
  <2>4. m.type = "status" => m.state \in {"started", "committed", "rolledback"}
    BY <2>2 DEF Response
  <2>5. m.type # "status" => m.run \in Run
    BY <2>2 DEF Response
  <2> HIDE DEF m
  <2>6. /\ inTx' \in BOOLEAN /\ link' \in BOOLEAN /\ counted' \subseteq Run /\ trust' \in Trust
        /\ notice' \in [kind : {"none", "committed", "rolledback"}, runs : SUBSET Run]
    <3>1. IF m.type = "status" THEN OnStatus(m.state) ELSE OnResult(m)
      BY <1>5 DEF Receive, m
    <3>2. CASE m.type = "status" /\ m.state = "started"
      BY <3>1, <3>2 DEF OnStatus, TypeOK, Trust
    <3>3. CASE m.type = "status" /\ m.state # "started"
      <4>1. /\ inTx' = FALSE /\ trust' = "none" /\ link' = TRUE /\ counted' = {}
            /\ notice' = [kind |-> m.state, runs |-> counted]
        BY <3>1, <3>3 DEF OnStatus
      <4>2. m.state \in {"committed", "rolledback"} /\ counted \subseteq Run
        BY <3>3, <2>4 DEF TypeOK
      <4> QED BY <4>1, <4>2 DEF Trust
    <3>4. CASE m.type # "status"
      BY <3>1, <3>4, <2>5 DEF OnResult, TypeOK
    <3> QED BY <3>2, <3>3, <3>4
  <2> QED BY <1>5, <2>3, <2>6 DEF Receive, TypeOK, actorVars, dbVars, runVars
<1>6. CASE Disconnect
  <2>1. socket \in Session
    BY <1>6 DEF Disconnect, Connected, TypeOK
  <2>2. ASSUME NEW n \in 0 .. Len(inbox[socket])  PROVE SubSeq(inbox[socket], 1, n) \in Seq(Request)
    BY <2>1, SubSeqProperties DEF TypeOK
  <2>3. inbox' \in [Session -> Seq(Request)]
    BY <1>6, <2>1, <2>2 DEF Disconnect, TypeOK
  <2>4. outbox' \in [Session -> Seq(Response)]
    BY <1>6, <2>1 DEF Disconnect, TypeOK
  <2> QED BY <1>6, <2>1, <2>3, <2>4 DEF Disconnect, TypeOK, dbVars, runVars
<1>7. ASSUME NEW s \in Session, Actor(s)  PROVE TypeOK'
  <2> USE DEF TypeOK, clientVars, runVars
  <2>1. CASE PostStop(s)
    BY <2>1, PostStopType
  <2>2. CASE HandleBegin(s) /\ ~PostStop(s)
    <3>1. PICK t \in Tx : /\ ended' = [ended EXCEPT ![t] = "open"]
                          /\ leased' = leased \cup {t}
                          /\ active' = [active EXCEPT ![s] = t]
                          /\ Take(s) /\ Reply(s, Status("started"))
                          /\ UNCHANGED <<clientVars, life, closing, pending, durable, runVars>>
      BY <2>2, Zenon DEF HandleBegin
    <3>2. inbox' \in [Session -> Seq(Request)] /\ outbox' \in [Session -> Seq(Response)]
      BY <2>2, <3>1, TakeType, ReplyType, MessageTypes DEF HandleBegin, Next1
    <3> QED BY <3>1, <3>2
  <2>3. CASE HandleCommit(s) /\ ~PostStop(s)
    <3>1. inbox' \in [Session -> Seq(Request)]
      BY <2>3, TakeType DEF HandleCommit, Next1
    <3>2. active[s] \in Tx
      BY <2>3 DEF HandleCommit
    <3>3. /\ durable' = durable \cup pending[active[s]]
          /\ pending' = [pending EXCEPT ![active[s]] = {}]
          /\ ended' = [ended EXCEPT ![active[s]] = "committed"]
          /\ closing' = [closing EXCEPT ![s] = "committed"]
          /\ UNCHANGED <<clientVars, outbox, life, active, leased, runVars>>
      BY <2>3, Zenon DEF HandleCommit
    <3> QED BY <3>1, <3>2, <3>3
  <2>4. CASE HandleRollback(s) /\ ~PostStop(s)
    <3>1. inbox' \in [Session -> Seq(Request)]
      BY <2>4, TakeType DEF HandleRollback, Next1
    <3>2. active[s] \in Tx
      BY <2>4 DEF HandleRollback
    <3> QED BY <2>4, <3>1, <3>2 DEF HandleRollback
  <2>5. CASE CloseTransaction(s)
    BY <2>5, ReplyType, MessageTypes DEF CloseTransaction
  <2>6. CASE HandleSubmit(s)
    <3>1. Head(inbox[s]) \in Request
      BY <2>6 DEF HandleSubmit, Next1
    <3>2. Head(inbox[s]).run \in Run
      BY <2>6, <3>1 DEF HandleSubmit, Next1, Request
    <3> QED BY <2>6, <3>2, TakeType DEF HandleSubmit, Next1, Captured, actorVars, dbVars
  <2> QED BY <1>7, <2>1, <2>2, <2>3, <2>4, <2>5, <2>6 DEF Actor, Stop
<1>8. ASSUME NEW r \in Run, Worker(r)  PROVE TypeOK'
  <2> USE DEF TypeOK, Goto, clientVars, netVars, actorVars, dbVars
  <2>1. CASE Acquire(r)
    <3>1. runPc' \in [Run -> {"unused", "sent", "queued", "running", "ok", "failed", "done"}]
      BY <2>1 DEF Acquire
    <3>2. leased' \subseteq Tx \cup Run
      BY <2>1 DEF Acquire
    <3> QED BY <2>1, <3>1, <3>2 DEF Acquire
  <2>2. CASE ExecuteOk(r)
    BY <2>2 DEF ExecuteOk
  <2>3. CASE ExecuteFails(r)
    BY <2>3 DEF ExecuteFails
  <2>4. CASE Respond(r)
    <3>1. outbox' \in [Session -> Seq(Response)]
      <4> DEFINE m == IF runPc[r] = "ok" THEN Result(r) ELSE Failed(r)
      <4>1. m \in Response
        BY MessageTypes
      <4>2. Reply(runOf[r].session, m)
        BY <2>4 DEF Respond
      <4> HIDE DEF m
      <4>3. CASE runOf[r].session \in Session
        BY <4>1, <4>2, <4>3, ReplyType
      <4>4. CASE runOf[r].session = NoSession
        BY <4>2, <4>4 DEF Reply
      <4> QED BY <4>3, <4>4
    <3> QED BY <2>4, <3>1 DEF Respond
  <2> QED BY <1>8, <2>1, <2>2, <2>3, <2>4 DEF Worker
<1>9. CASE UNCHANGED vars
  BY <1>9 DEF TypeOK, vars, clientVars, netVars, actorVars, dbVars, runVars
<1> QED BY <1>1, <1>2, <1>3, <1>4, <1>5, <1>6, <1>7, <1>8, <1>9 DEF Next

----------------------------------------------------------------------------
(* A submitted statement waits in one place, and only while it is "sent"   *)

IsSubmit(m) == m.type = "submit"
SubmitOnce ==
  /\ \A s \in Session : \A i \in 1 .. Len(inbox[s]) :
       IsSubmit(inbox[s][i]) => runPc[inbox[s][i].run] = "sent"
  /\ \A s, u \in Session : \A i \in 1 .. Len(inbox[s]), j \in 1 .. Len(inbox[u]) :
       (IsSubmit(inbox[s][i]) /\ IsSubmit(inbox[u][j]) /\ inbox[s][i].run = inbox[u][j].run)
         => s = u /\ i = j

\* Requests only leave the inboxes, from their front (k[s] of them) or their end.
LEMMA InboxShrinks ==
  ASSUME SubmitOnce, NEW k \in [Session -> Nat],
         \A s \in Session : Len(inbox'[s]) \in Nat,
         \A s \in Session : \A i \in 1 .. Len(inbox'[s]) :
           /\ i + k[s] \in 1 .. Len(inbox[s])
           /\ inbox'[s][i] = inbox[s][i + k[s]]
           /\ IsSubmit(inbox'[s][i]) => runPc'[inbox'[s][i].run] = "sent"
  PROVE  SubmitOnce'
<1>1. ASSUME NEW s \in Session, NEW u \in Session,
             NEW i \in 1 .. Len(inbox'[s]), NEW j \in 1 .. Len(inbox'[u]),
             IsSubmit(inbox'[s][i]), IsSubmit(inbox'[u][j]), inbox'[s][i].run = inbox'[u][j].run
      PROVE  s = u /\ i = j
  <2>1. s = u /\ i + k[s] = j + k[u]
    <3>1. PICK a \in 1 .. Len(inbox[s]) : a = i + k[s] /\ inbox'[s][i] = inbox[s][a]
      OBVIOUS
    <3>2. PICK b \in 1 .. Len(inbox[u]) : b = j + k[u] /\ inbox'[u][j] = inbox[u][b]
      OBVIOUS
    <3>3. IsSubmit(inbox[s][a]) /\ IsSubmit(inbox[u][b]) /\ inbox[s][a].run = inbox[u][b].run
      BY <1>1, <3>1, <3>2, Zenon
    <3>4. s = u /\ a = b
      BY <3>3, Zenon DEF SubmitOnce
    <3> QED BY <3>1, <3>2, <3>4
  <2>2. i \in Nat /\ j \in Nat /\ k[s] \in Nat
    OBVIOUS
  <2> QED BY <2>1, <2>2
<1> QED BY <1>1 DEF SubmitOnce, IsSubmit

\* One request other than a submit, or a statement that was not waiting, joins.
LEMMA InboxGrows ==
  ASSUME TypeOK, SubmitOnce, NEW m \in Request, Send(m),
         IsSubmit(m) => runPc[m.run] = "unused" /\ runPc'[m.run] = "sent",
         \A r \in Run : runPc'[r] = runPc[r] \/ (IsSubmit(m) /\ r = m.run)
  PROVE  SubmitOnce'
<1>1. socket \in Session /\ inbox \in [Session -> Seq(Request)]
  BY SendType DEF TypeOK
<1>2. inbox' = [inbox EXCEPT ![socket] = Append(inbox[socket], m)]
  BY DEF Send
<1>3. ASSUME NEW s \in Session, NEW i \in 1 .. Len(inbox'[s])
      PROVE  \/ i \in 1 .. Len(inbox[s]) /\ inbox'[s][i] = inbox[s][i]
             \/ s = socket /\ i = Len(inbox[socket]) + 1 /\ inbox'[s][i] = m
  <2>1. CASE s = socket
    <3>1. /\ Len(inbox'[s]) = Len(inbox[s]) + 1
          /\ i <= Len(inbox[s]) => inbox'[s][i] = inbox[s][i]
          /\ i = Len(inbox[s]) + 1 => inbox'[s][i] = m
      BY <1>1, <1>2, <2>1, AppendProperties
    <3> QED BY <1>1, <1>3, <2>1, <3>1
  <2>2. CASE s # socket
    BY <1>1, <1>2, <2>2
  <2> QED BY <2>1, <2>2
<1>4. ASSUME NEW s \in Session, NEW i \in 1 .. Len(inbox[s]), IsSubmit(inbox[s][i])
      PROVE  runPc[inbox[s][i].run] = "sent" /\ inbox[s][i].run \in Run
  <2>1. inbox[s][i] \in Request
    BY <1>1
  <2> QED BY <1>4, <2>1 DEF SubmitOnce, IsSubmit, Request
<1>5. ASSUME NEW s \in Session, NEW i \in 1 .. Len(inbox'[s]), IsSubmit(inbox'[s][i])
      PROVE  runPc'[inbox'[s][i].run] = "sent"
  BY <1>3, <1>4, <1>5
<1>6. ASSUME NEW s \in Session, NEW u \in Session,
             NEW i \in 1 .. Len(inbox'[s]), NEW j \in 1 .. Len(inbox'[u]),
             IsSubmit(inbox'[s][i]), IsSubmit(inbox'[u][j]), inbox'[s][i].run = inbox'[u][j].run
      PROVE  s = u /\ i = j
  <2> DEFINE New(x, n) == x = socket /\ n = Len(inbox[socket]) + 1 /\ inbox'[x][n] = m
             Old(x, n) == n \in 1 .. Len(inbox[x]) /\ inbox'[x][n] = inbox[x][n]
  <2>1. (New(s, i) \/ Old(s, i)) /\ (New(u, j) \/ Old(u, j))
    BY <1>3
  <2>2. CASE New(s, i) /\ New(u, j)
    BY <2>2
  <2>3. CASE Old(s, i) /\ Old(u, j)
    BY <1>6, <2>3 DEF SubmitOnce
  <2>4. CASE New(s, i) /\ Old(u, j)
    BY <1>4, <1>6, <2>4
  <2>5. CASE Old(s, i) /\ New(u, j)
    BY <1>4, <1>6, <2>5
  <2> QED BY <2>1, <2>2, <2>3, <2>4, <2>5
<1> QED BY <1>5, <1>6 DEF SubmitOnce, IsSubmit

\* The front request is taken; a statement taken is the only one that moves on.
LEMMA InboxTake ==
  ASSUME TypeOK, SubmitOnce, NEW s \in Session, Take(s), inbox[s] # <<>>,
         \A r \in Run : runPc'[r] = runPc[r] \/ (IsSubmit(Head(inbox[s])) /\ r = Head(inbox[s]).run)
  PROVE  SubmitOnce'
<1> DEFINE k == [x \in Session |-> IF x = s THEN 1 ELSE 0]
<1>1. inbox \in [Session -> Seq(Request)] /\ inbox' = [inbox EXCEPT ![s] = Tail(inbox[s])]
  BY DEF TypeOK, Take
<1>2. ASSUME NEW x \in Session, NEW i \in 1 .. Len(inbox'[x])
      PROVE  i + k[x] \in 1 .. Len(inbox[x]) /\ inbox'[x][i] = inbox[x][i + k[x]]
  <2>1. CASE x = s
    <3>1. /\ Len(Tail(inbox[s])) = Len(inbox[s]) - 1
          /\ \A j \in 1 .. Len(Tail(inbox[s])) : Tail(inbox[s])[j] = inbox[s][j + 1]
      BY <1>1, HeadTailProperties
    <3> QED BY <1>1, <1>2, <2>1, <3>1
  <2>2. CASE x # s
    BY <1>1, <1>2, <2>2
  <2> QED BY <2>1, <2>2
<1>3. Head(inbox[s]) = inbox[s][1] /\ 1 \in 1 .. Len(inbox[s])
  BY <1>1
<1>4. ASSUME NEW x \in Session, NEW i \in 1 .. Len(inbox'[x]), IsSubmit(inbox'[x][i])
      PROVE  runPc'[inbox'[x][i].run] = "sent"
  <2> DEFINE j == i + k[x]
  <2>1. j \in 1 .. Len(inbox[x]) /\ inbox'[x][i] = inbox[x][j] /\ (x = s => j # 1)
    BY <1>2
  <2> HIDE DEF j
  <2>2. inbox[x][j] \in Request
    BY <1>1, <2>1
  <2>3. inbox[x][j].run \in Run
    BY <1>4, <2>1, <2>2 DEF Request, IsSubmit
  <2>4. ~(IsSubmit(Head(inbox[s])) /\ inbox[x][j].run = Head(inbox[s]).run)
    BY <1>3, <1>4, <2>1 DEF SubmitOnce
  <2>5. runPc[inbox[x][j].run] = "sent"
    BY <1>4, <2>1 DEF SubmitOnce
  <2> QED BY <2>1, <2>3, <2>4, <2>5
<1>5. \A x \in Session : Len(inbox'[x]) \in Nat
  BY TakeType
<1> HIDE DEF k
<1>6. k \in [Session -> Nat]
  BY DEF k
<1> QED BY <1>2, <1>4, <1>5, <1>6, InboxShrinks

LEMMA InboxEmptied ==
  ASSUME TypeOK, SubmitOnce, NEW s \in Session, inbox' = [inbox EXCEPT ![s] = <<>>], UNCHANGED runPc
  PROVE  SubmitOnce'
BY DEF TypeOK, SubmitOnce, IsSubmit

LEMMA SubmitOnceStep == TypeOK /\ SubmitOnce /\ [Next]_vars => SubmitOnce'
<1> SUFFICES ASSUME TypeOK, SubmitOnce, [Next]_vars PROVE SubmitOnce'
  OBVIOUS
<1>1. ASSUME UNCHANGED <<inbox, runPc>>  PROVE SubmitOnce'
  BY <1>1 DEF SubmitOnce, IsSubmit
<1>2. ASSUME NEW s \in Session, Connect(s)  PROVE SubmitOnce'
  BY <1>1, <1>2 DEF Connect, netVars, runVars
<1>3. ASSUME NEW m \in {Begin, Commit, Rollback}, Send(m), UNCHANGED runPc  PROVE SubmitOnce'
  <2>1. m \in Request /\ ~IsSubmit(m)
    BY MessageTypes DEF IsSubmit, Begin, Commit, Rollback
  <2> QED BY <1>3, <2>1, InboxGrows
<1>4. CASE BeginTransaction \/ EndTransaction(Commit) \/ EndTransaction(Rollback)
  BY <1>3, <1>4 DEF BeginTransaction, EndTransaction, runVars
<1>5. ASSUME NEW r \in Run, Submit(r)  PROVE SubmitOnce'
  <2>1. SubmitQuery(r) \in Request /\ SubmitQuery(r).run = r /\ IsSubmit(SubmitQuery(r))
    BY MessageTypes DEF SubmitQuery, IsSubmit
  <2>2. Send(SubmitQuery(r)) /\ runPc[r] = "unused" /\ runPc' = [runPc EXCEPT ![r] = "sent"]
    BY <1>5 DEF Submit
  <2>3. \A x \in Run : runPc'[x] = runPc[x] \/ x = r
    BY <2>2 DEF TypeOK
  <2>4. runPc'[r] = "sent"
    BY <2>2 DEF TypeOK
  <2> QED BY <2>1, <2>2, <2>3, <2>4, InboxGrows
<1>6. CASE Receive
  BY <1>1, <1>6 DEF Receive, runVars
<1>7. CASE Disconnect
  <2> DEFINE k == [x \in Session |-> 0]
  <2>1. PICK n \in 0 .. Len(inbox[socket]) :
          inbox' = [inbox EXCEPT ![socket] = SubSeq(inbox[socket], 1, n)]
    BY <1>7 DEF Disconnect
  <2>2. socket \in Session /\ UNCHANGED runPc /\ inbox \in [Session -> Seq(Request)]
    BY <1>7 DEF Disconnect, Connected, runVars, TypeOK
  <2>3. /\ Len(SubSeq(inbox[socket], 1, n)) = n
        /\ \A i \in 1 .. n : SubSeq(inbox[socket], 1, n)[i] = inbox[socket][i]
    BY <2>2, SubSeqProperties
  <2>4. ASSUME NEW x \in Session, NEW i \in 1 .. Len(inbox'[x])
        PROVE  i + k[x] \in 1 .. Len(inbox[x]) /\ inbox'[x][i] = inbox[x][i + k[x]]
    <3>1. CASE x = socket
      BY <2>1, <2>2, <2>3, <2>4, <3>1
    <3>2. CASE x # socket
      BY <2>1, <2>2, <2>4, <3>2
    <3> QED BY <3>1, <3>2
  <2>5. \A x \in Session : Len(inbox'[x]) \in Nat
    BY <2>1, <2>2, <2>3
  <2>6. ASSUME NEW x \in Session, NEW i \in 1 .. Len(inbox'[x]), IsSubmit(inbox'[x][i])
        PROVE  runPc'[inbox'[x][i].run] = "sent"
    BY <2>2, <2>4, <2>6 DEF SubmitOnce
  <2> HIDE DEF k
  <2>7. k \in [Session -> Nat]
    BY DEF k
  <2> QED BY <2>4, <2>5, <2>6, <2>7, InboxShrinks
<1>8. ASSUME NEW s \in Session, Actor(s)  PROVE SubmitOnce'
  <2>1. CASE PostStop(s)
    BY <2>1, InboxEmptied DEF PostStop, runVars
  <2>2. CASE HandleBegin(s) /\ ~PostStop(s)
    BY <2>2, InboxTake DEF HandleBegin, Next1, runVars
  <2>3. CASE HandleCommit(s) /\ ~PostStop(s)
    BY <2>3, InboxTake DEF HandleCommit, Next1, runVars
  <2>4. CASE HandleRollback(s) /\ ~PostStop(s)
    BY <2>4, InboxTake DEF HandleRollback, Next1, runVars
  <2>5. CASE CloseTransaction(s)
    BY <1>1, <2>5 DEF CloseTransaction, runVars
  <2>6. CASE HandleSubmit(s)
    BY <2>6, InboxTake DEF HandleSubmit, Next1, IsSubmit, TypeOK
  <2> QED BY <1>8, <2>1, <2>2, <2>3, <2>4, <2>5, <2>6 DEF Actor, Stop
<1>9. ASSUME NEW r \in Run, Worker(r)  PROVE SubmitOnce'
  <2>1. /\ runPc[r] \in {"queued", "running", "ok", "failed"}
        /\ \E at \in {"queued", "running", "ok", "failed", "done"} : runPc' = [runPc EXCEPT ![r] = at]
        /\ UNCHANGED inbox
    BY <1>9 DEF Worker, Acquire, ExecuteOk, ExecuteFails, Respond, Goto, netVars
  <2>2. ASSUME NEW s \in Session, NEW i \in 1 .. Len(inbox[s]), IsSubmit(inbox[s][i])
        PROVE  runPc'[inbox[s][i].run] = "sent"
    <3>1. runPc[inbox[s][i].run] = "sent" /\ inbox[s][i] \in Request
      BY <2>2 DEF SubmitOnce, TypeOK
    <3>2. inbox[s][i].run \in Run
      BY <2>2, <3>1 DEF Request, IsSubmit
    <3> QED BY <2>1, <3>1, <3>2 DEF TypeOK
  <2> QED BY <2>1, <2>2 DEF SubmitOnce
<1>10. CASE UNCHANGED vars
  BY <1>1, <1>10 DEF vars, netVars, runVars
<1> QED BY <1>2, <1>4, <1>5, <1>6, <1>7, <1>8, <1>9, <1>10 DEF Next

----------------------------------------------------------------------------
(* Transactions, their connections and their statements                    *)

Accepted(r) == runPc[r] \notin {"unused", "sent"}

\* A transaction that is held is open until its holder ends it, one that was
\* never begun has left no trace, and the effects of an accepted statement
\* are where its handle put them.
TxInv ==
  /\ OwnTransaction
  /\ \A s \in Session :
       /\ closing[s] # "no" => active[s] # NoTx /\ ended[active[s]] = closing[s]
       /\ (active[s] # NoTx /\ closing[s] = "no") => ended[active[s]] = "open"
  /\ \A t \in Tx : ended[t] = "unused" => pending[t] = {} /\ \A r \in Run : runOf[r].db # t
  /\ \A t \in Tx : \A r \in pending[t] : Accepted(r) /\ runOf[r].db = t
  /\ \A r \in durable : Accepted(r) /\ (runOf[r].db \in Tx => Committed(r))

LEMMA InitTxInv == Init => TxInv
BY Constants DEF Init, TxInv, OwnTransaction

\* Only the holder of a transaction ends it.
LEMMA PostStopTx ==
  ASSUME TypeOK, TxInv, NEW s \in Session, Running(s), PostStop(s)
  PROVE  TxInv'
<1>1. /\ active' = [active EXCEPT ![s] = NoTx] /\ closing' = [closing EXCEPT ![s] = "no"]
      /\ UNCHANGED <<durable, runOf, runPc>>
  BY DEF PostStop, runVars
<1>2. CASE active[s] \in Tx
  <2>1. /\ ended' = [ended EXCEPT ![active[s]] = "rolledback"]
        /\ pending' = [pending EXCEPT ![active[s]] = {}]
    BY <1>2 DEF PostStop
  <2>2. ended[active[s]] = "open"
    BY <1>2, Constants DEF TxInv, Running
  <2>3. \A u \in Session : u # s => active[u] # active[s]
    BY <1>2, Constants DEF TxInv, OwnTransaction
  <2>4. OwnTransaction'
    BY <1>1 DEF TypeOK, TxInv, OwnTransaction
  <2>5. \A u \in Session :
          /\ closing'[u] # "no" => active'[u] # NoTx /\ ended'[active'[u]] = closing'[u]
          /\ (active'[u] # NoTx /\ closing'[u] = "no") => ended'[active'[u]] = "open"
    BY <1>1, <1>2, <2>1, <2>3 DEF TypeOK, TxInv
  <2>6. \A r \in durable' : Accepted(r)' /\ (runOf[r].db \in Tx => Committed(r))'
    BY <1>1, <1>2, <2>1, <2>2 DEF TypeOK, TxInv, Accepted, Committed
  <2>7. /\ \A t \in Tx : ended'[t] = "unused" => pending'[t] = {} /\ \A r \in Run : runOf'[r].db # t
        /\ \A t \in Tx : \A r \in pending'[t] : Accepted(r)' /\ runOf'[r].db = t
    BY <1>1, <1>2, <2>1 DEF TypeOK, TxInv, Accepted
  <2> QED BY <2>4, <2>5, <2>6, <2>7 DEF TxInv
<1>3. CASE active[s] = NoTx
  <2>1. UNCHANGED <<ended, pending>>
    BY <1>3, Constants DEF PostStop
  <2> QED BY <1>1, <1>3, <2>1, Constants DEF TypeOK, TxInv, OwnTransaction, Accepted, Committed
<1> QED BY <1>2, <1>3 DEF TypeOK

LEMMA TxStep == TypeOK /\ SubmitOnce /\ TxInv /\ [Next]_vars => TxInv'
<1> SUFFICES ASSUME TypeOK, SubmitOnce, TxInv, [Next]_vars PROVE TxInv'
  OBVIOUS
<1> USE Constants
<1>1. ASSUME UNCHANGED <<active, closing, ended, pending, durable, runOf>>,
             \A r \in Run : Accepted(r) => Accepted(r)'
      PROVE  TxInv'
  BY <1>1 DEF TypeOK, TxInv, OwnTransaction, Committed
<1>2. CASE \/ \E s \in Session : Connect(s)
           \/ BeginTransaction \/ EndTransaction(Commit) \/ EndTransaction(Rollback)
           \/ Receive \/ Disconnect \/ UNCHANGED vars
  <2>1. UNCHANGED <<active, closing, dbVars, runVars>>
    BY <1>2 DEF Connect, BeginTransaction, EndTransaction, Receive, Disconnect, vars, actorVars
  <2> QED BY <1>1, <2>1 DEF Accepted, dbVars, runVars
<1>3. ASSUME NEW r \in Run, Submit(r)  PROVE TxInv'
  BY <1>1, <1>3 DEF Submit, Accepted, actorVars, dbVars, TypeOK
<1>4. ASSUME NEW s \in Session, Actor(s)  PROVE TxInv'
  <2> USE DEF TypeOK, TxInv, OwnTransaction, Accepted, Committed
  <2>r. HandleBegin(s) \/ HandleCommit(s) \/ HandleRollback(s) \/ Stop(s) => Running(s)
    BY DEF HandleBegin, HandleCommit, HandleRollback, Stop, Next1
  <2>1. CASE Running(s) /\ PostStop(s)
    BY <2>1, PostStopTx
  <2>2. CASE HandleBegin(s) /\ ~PostStop(s)
    <3>1. PICK t \in Tx : /\ ended[t] = "unused" /\ ended' = [ended EXCEPT ![t] = "open"]
                          /\ active' = [active EXCEPT ![s] = t]
                          /\ UNCHANGED <<closing, pending, durable, runOf, runPc>>
      BY <2>2 DEF HandleBegin, runVars
    <3>2. active[s] = NoTx /\ closing[s] = "no"
      BY <2>2 DEF HandleBegin, Next1, Running
    <3>3. ASSUME NEW u \in Session, active[u] = t  PROVE FALSE
      <4>1. CASE closing[u] = "no"
        BY <3>1, <3>3, <4>1
      <4>2. CASE closing[u] # "no"
        <5>1. closing[u] \in {"committed", "rolledback"}
          BY <4>2
        <5>2. ended[t] = closing[u]
          BY <3>3, <4>2
        <5> QED BY <3>1, <5>1, <5>2
      <4> QED BY <4>1, <4>2
    <3>4. \A x \in Tx : x # t => ended'[x] = ended[x]
      BY <3>1
    <3>5. OwnTransaction'
      BY <3>1, <3>3
    <3> QED BY <3>1, <3>2, <3>3, <3>4, <3>5
  <2>3. CASE HandleCommit(s) /\ ~PostStop(s)
    <3>1. /\ active[s] \in Tx /\ closing[s] = "no"
          /\ durable' = durable \cup pending[active[s]]
          /\ pending' = [pending EXCEPT ![active[s]] = {}]
          /\ ended' = [ended EXCEPT ![active[s]] = "committed"]
          /\ closing' = [closing EXCEPT ![s] = "committed"]
          /\ UNCHANGED <<active, runOf, runPc>>
      BY <2>3 DEF HandleCommit, Next1, Running, runVars
    <3> QED BY <3>1
  <2>4. CASE HandleRollback(s) /\ ~PostStop(s)
    <3>1. /\ active[s] \in Tx /\ closing[s] = "no"
          /\ pending' = [pending EXCEPT ![active[s]] = {}]
          /\ ended' = [ended EXCEPT ![active[s]] = "rolledback"]
          /\ closing' = [closing EXCEPT ![s] = "rolledback"]
          /\ UNCHANGED <<active, durable, runOf, runPc>>
      BY <2>4 DEF HandleRollback, Next1, Running, runVars
    <3> QED BY <3>1
  <2>5. CASE CloseTransaction(s)
    <3>1. /\ pending' = [pending EXCEPT ![active[s]] = {}]
          /\ active' = [active EXCEPT ![s] = NoTx] /\ closing' = [closing EXCEPT ![s] = "no"]
          /\ UNCHANGED <<ended, durable, runOf, runPc>>
      BY <2>5 DEF CloseTransaction, runVars
    <3> QED BY <3>1
  <2>6. CASE HandleSubmit(s)
    <3> DEFINE r == Head(inbox[s]).run
    <3>1. r \in Run /\ runPc[r] = "sent"
      <4>1. Head(inbox[s]) = inbox[s][1] /\ 1 \in 1 .. Len(inbox[s]) /\ Head(inbox[s]) \in Request
        BY <2>6 DEF HandleSubmit, Next1
      <4> QED BY <2>6, <4>1 DEF HandleSubmit, Next1, SubmitOnce, IsSubmit, Request
    <3>2. /\ runOf' = [runOf EXCEPT ![r] = [session |-> s, db |-> Captured(s)]]
          /\ runPc' = [runPc EXCEPT ![r] = "queued"]
          /\ UNCHANGED <<active, closing, ended, pending, durable>>
      BY <2>6 DEF HandleSubmit, actorVars, dbVars
    <3>3. Captured(s) = Pool \/ (Captured(s) \in Tx /\ ended[Captured(s)] = "open")
      BY <2>6 DEF HandleSubmit, Next1, Running, Captured
    <3> HIDE DEF r
    <3> QED BY <3>1, <3>2, <3>3
  <2> QED BY <1>4, <2>r, <2>1, <2>2, <2>3, <2>4, <2>5, <2>6 DEF Actor, Stop
<1>5. ASSUME NEW r \in Run, Worker(r)  PROVE TxInv'
  <2>1. CASE Acquire(r) \/ ExecuteFails(r) \/ Respond(r)
    BY <1>1, <2>1 DEF Acquire, ExecuteFails, Respond, Goto, Accepted, actorVars, dbVars, TypeOK
  <2>2. CASE ExecuteOk(r)
    <3> USE DEF TypeOK, TxInv, OwnTransaction, Accepted, Committed
    <3>1. /\ runPc[r] = "running" /\ runPc' = [runPc EXCEPT ![r] = "ok"]
          /\ UNCHANGED <<active, closing, ended, runOf>>
      BY <2>2 DEF ExecuteOk, Goto, actorVars
    <3>2. CASE runOf[r].db = Pool
      BY <2>2, <3>1, <3>2 DEF ExecuteOk
    <3>3. CASE runOf[r].db # Pool
      <4>1. runOf[r].db \in Tx /\ UNCHANGED durable
            /\ pending' = [pending EXCEPT ![runOf[r].db] = pending[runOf[r].db] \cup {r}]
        BY <2>2, <3>3 DEF ExecuteOk
      <4> QED BY <3>1, <3>3, <4>1
    <3> QED BY <3>2, <3>3
  <2> QED BY <1>5, <2>1, <2>2 DEF Worker
<1> QED BY <1>2, <1>3, <1>4, <1>5 DEF Next

----------------------------------------------------------------------------
(* TransactionSession implements TransactionalStore                        *)

Owners == [r \in Run |-> Owner(r)]
Work == [t \in Tx |-> IF ended[t] = "open" THEN pending[t] ELSE {}]
Steps == [Store!StoreNext]_(Store!storeVars)

LEMMA InitRefines == Init => Store!StoreInit
BY DEF Init, Store!StoreInit, Owner

\* A step that leaves the owners, the transactions and the data alone.
LEMMA Stutter ==
  ASSUME UNCHANGED <<ended, Owners, Work, durable>>
  PROVE  Steps
BY DEF Steps, Store!storeVars, Owners, Work

\* The abstract step that ends a transaction is a step of the store.
LEMMA EndIsAStep ==
  ASSUME NEW t \in Tx, Store!CommitAll(t) \/ Store!Abandon(t)
  PROVE  Steps
BY DEF Steps, Store!StoreNext

LEMMA PostStopRefines ==
  ASSUME TypeOK, TxInv, NEW s \in Session, Running(s), PostStop(s)
  PROVE  Steps
<1>1. UNCHANGED <<durable, Owners>>
  BY DEF PostStop, runVars, Owners, Owner
<1>2. CASE active[s] \in Tx
  <2>0. PICK t \in Tx : t = active[s]
    BY <1>2
  <2>1. ended' = [ended EXCEPT ![t] = "rolledback"] /\ pending' = [pending EXCEPT ![t] = {}]
    BY <1>2, <2>0 DEF PostStop
  <2>2. ended[t] = "open"
    BY <1>2, <2>0, Constants DEF TxInv, Running
  <2>3. Work' = [Work EXCEPT ![t] = {}]
    BY <2>1, <2>2 DEF Work, TypeOK
  <2>4. Store!Abandon(t)
    BY <1>1, <2>1, <2>2, <2>3 DEF Store!Abandon, Owners, Work
  <2> QED BY <2>4, EndIsAStep
<1>3. CASE active[s] = NoTx
  <2>1. UNCHANGED <<ended, pending>>
    BY <1>3, Constants DEF PostStop
  <2> QED BY <1>1, <2>1, Stutter DEF Work
<1> QED BY <1>2, <1>3 DEF TypeOK

LEMMA ActorRefines ==
  ASSUME TypeOK, SubmitOnce, TxInv, NEW s \in Session, Actor(s)
  PROVE  Steps
<1> USE Constants
<1>r. HandleBegin(s) \/ HandleCommit(s) \/ HandleRollback(s) \/ HandleSubmit(s) \/ Stop(s) => Running(s)
  BY DEF HandleBegin, HandleCommit, HandleRollback, HandleSubmit, Stop, Next1
<1>a. active[s] \in Tx \cup {NoTx}
  BY DEF TypeOK
<1>1. CASE Running(s) /\ PostStop(s)
  BY <1>1, PostStopRefines
<1>2. CASE HandleBegin(s) /\ ~PostStop(s)
  <2>1. PICK t \in Tx : /\ ended[t] = "unused" /\ ended' = [ended EXCEPT ![t] = "open"]
                        /\ UNCHANGED <<pending, durable, runOf, runPc>>
    BY <1>2 DEF HandleBegin, runVars
  <2>2. pending[t] = {}
    BY <2>1 DEF TxInv
  <2>3. UNCHANGED <<Owners, Work>>
    BY <2>1, <2>2 DEF Owners, Owner, Work, TypeOK
  <2>4. Store!Open(t)
    BY <2>1, <2>3 DEF Store!Open, Owners, Work
  <2> QED BY <2>4 DEF Steps, Store!StoreNext
<1>3. CASE HandleCommit(s) /\ ~PostStop(s)
  <2>0. PICK t \in Tx : t = active[s]
    BY <1>3, <1>r, <1>a DEF HandleCommit, Running
  <2>1. /\ ended[t] = "open"
        /\ durable' = durable \cup pending[t]
        /\ pending' = [pending EXCEPT ![t] = {}]
        /\ ended' = [ended EXCEPT ![t] = "committed"]
        /\ UNCHANGED <<runOf, runPc>>
    BY <1>3, <1>r, <2>0 DEF HandleCommit, Running, TxInv, runVars
  <2>2. Work' = [Work EXCEPT ![t] = {}] /\ Work[t] = pending[t] /\ UNCHANGED Owners
    BY <2>1 DEF Work, Owners, Owner, TypeOK
  <2>3. Store!CommitAll(t)
    BY <2>1, <2>2 DEF Store!CommitAll, Owners, Work
  <2> QED BY <2>3, EndIsAStep
<1>4. CASE HandleRollback(s) /\ ~PostStop(s)
  <2>0. PICK t \in Tx : t = active[s]
    BY <1>4, <1>r, <1>a DEF HandleRollback, Running
  <2>1. /\ ended[t] = "open"
        /\ pending' = [pending EXCEPT ![t] = {}]
        /\ ended' = [ended EXCEPT ![t] = "rolledback"]
        /\ UNCHANGED <<durable, runOf, runPc>>
    BY <1>4, <1>r, <2>0 DEF HandleRollback, Running, TxInv, runVars
  <2>2. Work' = [Work EXCEPT ![t] = {}] /\ UNCHANGED Owners
    BY <2>1 DEF Work, Owners, Owner, TypeOK
  <2>3. Store!Abandon(t)
    BY <2>1, <2>2 DEF Store!Abandon, Owners, Work
  <2> QED BY <2>3, EndIsAStep
<1>5. CASE CloseTransaction(s)
  <2>1. /\ pending' = [pending EXCEPT ![active[s]] = {}]
        /\ UNCHANGED <<ended, durable, runOf, runPc>>
    BY <1>5 DEF CloseTransaction, runVars
  <2>2. ended[active[s]] # "open"
    BY <1>5 DEF CloseTransaction, TxInv, TypeOK
  <2>3. UNCHANGED <<Owners, Work>>
    BY <2>1, <2>2 DEF Owners, Owner, Work, TypeOK
  <2> QED BY <2>1, <2>3, Stutter
<1>6. CASE HandleSubmit(s)
  <2> DEFINE r == Head(inbox[s]).run
  <2>1. r \in Run /\ runPc[r] = "sent"
    <3>1. Head(inbox[s]) = inbox[s][1] /\ 1 \in 1 .. Len(inbox[s]) /\ Head(inbox[s]) \in Request
      BY <1>6 DEF HandleSubmit, Next1, TypeOK
    <3> QED BY <1>6, <3>1 DEF HandleSubmit, Next1, SubmitOnce, IsSubmit, Request
  <2>2. /\ runOf' = [runOf EXCEPT ![r] = [session |-> s, db |-> Captured(s)]]
        /\ runPc' = [runPc EXCEPT ![r] = "queued"]
        /\ UNCHANGED <<ended, pending, durable>>
    BY <1>6 DEF HandleSubmit, dbVars
  <2>3. Captured(s) = Pool \/ (Captured(s) \in Tx /\ ended[Captured(s)] = "open")
    BY <1>6, <1>r, <1>a DEF Running, Captured, TxInv
  <2> HIDE DEF r
  <2>4. Owners[r] = NoTx /\ Owners' = [Owners EXCEPT ![r] = Captured(s)]
    BY <2>1, <2>2 DEF Owners, Owner, TypeOK
  <2>5. Store!Accept(r, Captured(s))
    BY <2>2, <2>3, <2>4 DEF Store!Accept, Owners, Work
  <2>6. Captured(s) \in Tx \cup {Pool}
    BY <2>3
  <2> QED BY <2>1, <2>5, <2>6 DEF Steps, Store!StoreNext
<1> QED BY <1>r, <1>1, <1>2, <1>3, <1>4, <1>5, <1>6 DEF Actor, Stop

LEMMA WorkerRefines ==
  ASSUME TypeOK, TxInv, NEW r \in Run, Worker(r)
  PROVE  Steps
<1> USE Constants
<1>1. CASE Acquire(r) \/ ExecuteFails(r) \/ Respond(r)
  <2>1. UNCHANGED <<ended, pending, durable, runOf>>
    BY <1>1 DEF Acquire, ExecuteFails, Respond, dbVars
  <2>2. /\ runPc[r] \in {"queued", "running", "ok", "failed"}
        /\ \E at \in {"running", "failed", "done"} : runPc' = [runPc EXCEPT ![r] = at]
    BY <1>1 DEF Acquire, ExecuteFails, Respond, Goto
  <2>3. UNCHANGED <<Owners, Work>>
    BY <2>1, <2>2 DEF Owners, Owner, Work, TypeOK
  <2> QED BY <2>1, <2>3, Stutter
<1>2. CASE ExecuteOk(r)
  <2>1. /\ runPc[r] = "running" /\ runPc' = [runPc EXCEPT ![r] = "ok"]
        /\ UNCHANGED <<ended, runOf>>
    BY <1>2 DEF ExecuteOk, Goto
  <2>2. UNCHANGED Owners /\ Owners[r] = runOf[r].db
    BY <2>1 DEF Owners, Owner, TypeOK
  <2>3. CASE runOf[r].db = Pool
    <3>1. durable' = durable \cup {r} /\ UNCHANGED pending
      BY <1>2, <2>3 DEF ExecuteOk
    <3>2. Store!DoAlone(r)
      BY <2>1, <2>2, <2>3, <3>1 DEF Store!DoAlone, Owners
    <3> QED BY <3>2 DEF Steps, Store!StoreNext
  <2>4. CASE runOf[r].db # Pool
    <3> DEFINE t == runOf[r].db
    <3>1. /\ t \in Tx /\ UNCHANGED durable
          /\ pending' = [pending EXCEPT ![t] = pending[t] \cup {r}]
      BY <1>2, <2>4 DEF ExecuteOk, TypeOK
    <3> HIDE DEF t
    <3>2. CASE ended[t] = "open"
      <4>1. Work' = [Work EXCEPT ![t] = Work[t] \cup {r}]
        BY <2>1, <3>1, <3>2 DEF Work, TypeOK
      <4>2. Owners[r] = t
        BY <2>2 DEF t
      <4>3. Store!Do(t, r)
        BY <2>1, <2>2, <3>1, <3>2, <4>1, <4>2 DEF Store!Do, Owners, Work
      <4> QED BY <3>1, <4>3 DEF Steps, Store!StoreNext
    <3>3. CASE ended[t] # "open"
      <4>1. UNCHANGED Work
        BY <2>1, <3>1, <3>3 DEF Work, TypeOK
      <4> QED BY <2>1, <2>2, <3>1, <4>1, Stutter
    <3> QED BY <3>2, <3>3
  <2> QED BY <2>3, <2>4
<1> QED BY <1>1, <1>2 DEF Worker

LEMMA StepRefines == TypeOK /\ SubmitOnce /\ TxInv /\ [Next]_vars => Steps
<1> SUFFICES ASSUME TypeOK, SubmitOnce, TxInv, [Next]_vars PROVE Steps
  OBVIOUS
<1>1. CASE \/ \E s \in Session : Connect(s)
           \/ BeginTransaction \/ EndTransaction(Commit) \/ EndTransaction(Rollback)
           \/ Receive \/ Disconnect \/ UNCHANGED vars
  <2>1. UNCHANGED <<dbVars, runVars>>
    BY <1>1 DEF Connect, BeginTransaction, EndTransaction, Receive, Disconnect, vars
  <2> QED BY <2>1, Stutter DEF dbVars, runVars, Owners, Owner, Work
<1>2. ASSUME NEW r \in Run, Submit(r)  PROVE Steps
  <2>1. UNCHANGED <<dbVars, runOf>> /\ runPc[r] = "unused" /\ runPc' = [runPc EXCEPT ![r] = "sent"]
    BY <1>2 DEF Submit
  <2>2. UNCHANGED <<Owners, Work>>
    BY <2>1 DEF dbVars, Owners, Owner, Work, TypeOK
  <2> QED BY <2>1, <2>2, Stutter DEF dbVars
<1> QED BY <1>1, <1>2, ActorRefines, WorkerRefines DEF Next

----------------------------------------------------------------------------
(* The theorems: types and the store                                       *)

LEMMA Invariants == Spec => [](TypeOK /\ SubmitOnce /\ TxInv)
<1>1. Init => SubmitOnce
  BY DEF Init, SubmitOnce
<1> QED BY TypeInit, TypeStep, <1>1, SubmitOnceStep, InitTxInv, TxStep, PTL DEF Spec

\* Every reachable state is well formed.
THEOREM TypeCorrect == Spec => []TypeOK
BY Invariants, PTL

\* Two socket actors never hold the same transaction.
THEOREM TransactionsAreOwned == Spec => []OwnTransaction
BY Invariants, PTL DEF TxInv

\* Statements take effect as TransactionalStore says: alone, at once; or with
\* the commit of the transaction they were accepted in; or never.
THEOREM SessionImplementsStore == Spec => ImplementsStore
BY Invariants, InitRefines, StepRefines, PTL DEF Spec, ImplementsStore, Store!StoreSpec, Steps

----------------------------------------------------------------------------
(* What the session owes to the store                                      *)

LEMMA WholeInit == Init => Store!EffectsAreWhole
BY DEF Init, Store!EffectsAreWhole

\* EffectsAreWhole and StepIsWhole, in the variables of the session.
Whole ==
  /\ \A r \in durable : Owners[r] = Pool \/ (Owners[r] \in Tx /\ ended[Owners[r]] = "committed")
  /\ \A t \in Tx : \A r \in Work[t] : ended[t] = "open" /\ Owners[r] = t

Keeps ==
  /\ durable \subseteq durable'
  /\ \A r \in Run : Owners[r] # NoTx => Owners'[r] = Owners[r]
  /\ \A t \in Tx : ended[t] \in {"committed", "rolledback"} => ended'[t] = ended[t]

Commits ==
  /\ \A t \in Tx : ended[t] = "open" /\ ended'[t] = "committed" => Work[t] \subseteq durable'
  /\ \A r \in durable' \ durable :
       \/ Owners[r] = Pool
       \/ Owners[r] \in Tx /\ ended[Owners[r]] = "open" /\ ended'[Owners[r]] = "committed"

Shaped == /\ durable \subseteq Run /\ DOMAIN ended = Tx /\ DOMAIN Owners = Run /\ DOMAIN Work = Tx
          /\ \A t \in Tx : Work[t] \subseteq Run

LEMMA WholeStep ==
  ASSUME TypeOK, Store!EffectsAreWhole, Steps
  PROVE  Store!EffectsAreWhole' /\ Store!StepIsWhole
<1> USE Constants
<1>1. Shaped
  BY DEF Shaped, TypeOK, Owners, Work
<1>2. Whole
  BY DEF Store!EffectsAreWhole, Whole, Owners, Work
<1>3. ASSUME NEW t \in Tx, Store!Open(t)  PROVE Whole' /\ Keeps /\ Commits
  <2>1. /\ ended[t] = "unused" /\ ended' = [ended EXCEPT ![t] = "open"]
        /\ UNCHANGED <<Owners, Work, durable>>
    BY <1>3 DEF Store!Open, Owners, Work
  <2> QED BY <1>1, <1>2, <2>1 DEF Shaped, Whole, Keeps, Commits
<1>4. ASSUME NEW r \in Run, NEW o \in Tx \cup {Pool}, Store!Accept(r, o)  PROVE Whole' /\ Keeps /\ Commits
  <2>1. /\ Owners[r] = NoTx /\ Owners' = [Owners EXCEPT ![r] = o]
        /\ UNCHANGED <<ended, Work, durable>>
    BY <1>4 DEF Store!Accept, Owners, Work
  <2>2. r \notin durable /\ \A t \in Tx : r \notin Work[t]
    BY <1>2, <2>1 DEF Whole
  <2> QED BY <1>1, <1>2, <2>1, <2>2 DEF Shaped, Whole, Keeps, Commits
<1>5. ASSUME NEW t \in Tx, NEW r \in Run, Store!Do(t, r)  PROVE Whole' /\ Keeps /\ Commits
  <2>1. /\ ended[t] = "open" /\ Owners[r] = t /\ Work' = [Work EXCEPT ![t] = Work[t] \cup {r}]
        /\ UNCHANGED <<ended, Owners, durable>>
    BY <1>5 DEF Store!Do, Owners, Work
  <2> QED BY <1>1, <1>2, <2>1 DEF Shaped, Whole, Keeps, Commits
<1>6. ASSUME NEW r \in Run, Store!DoAlone(r)  PROVE Whole' /\ Keeps /\ Commits
  <2>1. /\ Owners[r] = Pool /\ durable' = durable \cup {r}
        /\ UNCHANGED <<ended, Owners, Work>>
    BY <1>6 DEF Store!DoAlone, Owners, Work
  <2> QED BY <1>1, <1>2, <2>1 DEF Shaped, Whole, Keeps, Commits
<1>7. ASSUME NEW t \in Tx, Store!CommitAll(t)  PROVE Whole' /\ Keeps /\ Commits
  <2>1. /\ ended[t] = "open" /\ ended' = [ended EXCEPT ![t] = "committed"]
        /\ durable' = durable \cup Work[t] /\ Work' = [Work EXCEPT ![t] = {}]
        /\ UNCHANGED Owners
    BY <1>7 DEF Store!CommitAll, Owners, Work
  <2> QED BY <1>1, <1>2, <2>1 DEF Shaped, Whole, Keeps, Commits
<1>8. ASSUME NEW t \in Tx, Store!Abandon(t)  PROVE Whole' /\ Keeps /\ Commits
  <2>1. /\ ended[t] = "open" /\ ended' = [ended EXCEPT ![t] = "rolledback"]
        /\ Work' = [Work EXCEPT ![t] = {}] /\ UNCHANGED <<Owners, durable>>
    BY <1>8 DEF Store!Abandon, Owners, Work
  <2> QED BY <1>1, <1>2, <2>1 DEF Shaped, Whole, Keeps, Commits
<1>9. ASSUME UNCHANGED Store!storeVars  PROVE Whole' /\ Keeps /\ Commits
  <2>1. UNCHANGED <<ended, Owners, Work, durable>>
    BY <1>9 DEF Store!storeVars, Owners, Work
  <2>2. Whole'
    BY <1>2, <2>1 DEF Whole
  <2>3. Keeps /\ Commits
    BY <2>1 DEF Keeps, Commits
  <2> QED BY <2>2, <2>3
<1>10. Whole' /\ Keeps /\ Commits
  <2>1. Store!StoreNext \/ UNCHANGED Store!storeVars
    BY DEF Steps
  <2>2. ASSUME Store!StoreNext  PROVE Whole' /\ Keeps /\ Commits
    BY <1>3, <1>4, <1>5, <1>6, <1>7, <1>8, <2>2, Zenon DEF Store!StoreNext
  <2> QED BY <1>9, <2>1, <2>2
<1> QED BY <1>10 DEF Store!EffectsAreWhole, Store!StepIsWhole, Whole, Keeps, Commits, Owners, Work

\* A statement has taken effect only if it was handled outside of a transaction, or in one
\* that has committed: whatever the page believes, and however the worker threads come
\* before or after the end of the transaction.
THEOREM SessionEffectsAreWhole == Spec => []Store!EffectsAreWhole
<1>1. TypeOK /\ SubmitOnce /\ TxInv /\ [Next]_vars /\ Store!EffectsAreWhole => Store!EffectsAreWhole'
  BY StepRefines, WholeStep
<1> QED BY Invariants, WholeInit, <1>1, PTL DEF Spec

\* No step takes an effect back, and a transaction takes effect as a whole: all it has done,
\* in the step that commits it.
THEOREM SessionStepsAreWhole == Spec => [][Store!StepIsWhole]_vars
<1>1. TypeOK /\ SubmitOnce /\ TxInv /\ [Next]_vars /\ Store!EffectsAreWhole => [Store!StepIsWhole]_vars
  BY StepRefines, WholeStep
<1> QED BY Invariants, SessionEffectsAreWhole, <1>1, PTL DEF Spec

----------------------------------------------------------------------------
(* The connections of the pool                                             *)

LeaseInv == IsFiniteSet(leased) /\ ConnectionsAccounted

LEMMA LeaseInit == Init => LeaseInv
<1> SUFFICES ASSUME Init PROVE LeaseInv
  OBVIOUS
<1>1. IsFiniteSet({}) /\ Cardinality({}) = 0 /\ PoolSize \in Nat
  BY FS_EmptySet, TransactionSessionAssumption DEF TransactionSessionAssumption
<1> QED BY <1>1, Constants DEF Init, LeaseInv, ConnectionsAccounted

\* One more connection is taken while there is one to take.
LEMMA LeaseTaken ==
  ASSUME IsFiniteSet(leased), ~PoolIsFull, NEW x
  PROVE  IsFiniteSet(leased \cup {x}) /\ Cardinality(leased \cup {x}) <= PoolSize
<1>1. PoolSize \in Nat /\ Cardinality(leased) \in Nat
  BY FS_CardinalityType, TransactionSessionAssumption DEF TransactionSessionAssumption
<1>2. /\ IsFiniteSet(leased \cup {x})
      /\ Cardinality(leased \cup {x}) = IF x \in leased THEN Cardinality(leased) ELSE Cardinality(leased) + 1
  BY FS_AddElement
<1> QED BY <1>1, <1>2 DEF PoolIsFull

LEMMA LeaseReturned ==
  ASSUME IsFiniteSet(leased), Cardinality(leased) <= PoolSize, NEW x
  PROVE  IsFiniteSet(leased \ {x}) /\ Cardinality(leased \ {x}) <= PoolSize
<1>1. PoolSize \in Nat /\ Cardinality(leased) \in Nat
  BY FS_CardinalityType, TransactionSessionAssumption DEF TransactionSessionAssumption
<1>2. /\ IsFiniteSet(leased \ {x})
      /\ Cardinality(leased \ {x}) = IF x \in leased THEN Cardinality(leased) - 1 ELSE Cardinality(leased)
  BY FS_RemoveElement
<1> QED BY <1>1, <1>2

\* What the steps that take no part in it must leave alone.
LEMMA LeaseFrame ==
  ASSUME LeaseInv, UNCHANGED <<active, ended, leased>>,
         \A r \in Run : (runPc'[r] = "running" /\ runOf'[r].db = Pool)
                          <=> (runPc[r] = "running" /\ runOf[r].db = Pool)
  PROVE  LeaseInv'
BY DEF LeaseInv, ConnectionsAccounted

LEMMA LeaseStep == TypeOK /\ SubmitOnce /\ TxInv /\ LeaseInv /\ [Next]_vars => LeaseInv'
<1> SUFFICES ASSUME TypeOK, SubmitOnce, TxInv, LeaseInv, [Next]_vars PROVE LeaseInv'
  OBVIOUS
<1> USE Constants
<1>1. CASE \/ \E s \in Session : Connect(s)
           \/ BeginTransaction \/ EndTransaction(Commit) \/ EndTransaction(Rollback)
           \/ Receive \/ Disconnect \/ UNCHANGED vars
  <2>1. UNCHANGED <<active, dbVars, runVars>>
    BY <1>1 DEF Connect, BeginTransaction, EndTransaction, Receive, Disconnect, vars, actorVars
  <2> QED BY <2>1, LeaseFrame DEF dbVars, runVars
<1>2. ASSUME NEW r \in Run, Submit(r)  PROVE LeaseInv'
  <2>1. UNCHANGED <<active, ended, leased, runOf>> /\ runPc[r] = "unused" /\ runPc' = [runPc EXCEPT ![r] = "sent"]
    BY <1>2 DEF Submit, actorVars, dbVars
  <2> QED BY <2>1, LeaseFrame DEF TypeOK
<1>3. ASSUME NEW s \in Session, Actor(s)  PROVE LeaseInv'
  <2>r. HandleBegin(s) \/ HandleCommit(s) \/ HandleRollback(s) \/ Stop(s) => Running(s)
    BY DEF HandleBegin, HandleCommit, HandleRollback, Stop, Next1
  <2>1. CASE Running(s) /\ PostStop(s)
    <3>1. /\ active' = [active EXCEPT ![s] = NoTx] /\ UNCHANGED <<leased, runOf, runPc>>
          /\ \/ active[s] \in Tx /\ ended' = [ended EXCEPT ![active[s]] = "rolledback"]
             \/ active[s] = NoTx /\ UNCHANGED ended
      BY <2>1 DEF PostStop, runVars, TypeOK
    <3>2. \A u \in Session, t \in Tx : active'[u] = t => active[u] = t
      BY <3>1 DEF TypeOK
    <3>3. \A t \in Tx : (\E u \in Session : active[u] = t) =>
                          (\E u \in Session : active'[u] = t) \/ ended'[t] = "rolledback"
      BY <3>1 DEF TypeOK
    <3>4. \A t \in Tx : ended[t] = "rolledback" => ended'[t] = "rolledback"
      BY <3>1 DEF TypeOK
    <3> QED BY <3>1, <3>2, <3>3, <3>4 DEF LeaseInv, ConnectionsAccounted
  <2>2. CASE HandleBegin(s) /\ ~PostStop(s)
    <3>1. PICK t \in Tx : /\ ended[t] = "unused" /\ ended' = [ended EXCEPT ![t] = "open"]
                          /\ leased' = leased \cup {t}
                          /\ active' = [active EXCEPT ![s] = t]
                          /\ UNCHANGED <<runOf, runPc>>
      BY <2>2 DEF HandleBegin, runVars
    <3>2. active[s] = NoTx /\ ~PoolIsFull
      BY <2>2 DEF HandleBegin
    <3>3. IsFiniteSet(leased') /\ Cardinality(leased') <= PoolSize
      BY <3>1, <3>2, LeaseTaken DEF LeaseInv
    <3>4. \A u \in Session, x \in Tx : active'[u] = x <=> (active[u] = x \/ (u = s /\ x = t))
      BY <3>1, <3>2 DEF TypeOK
    <3>5. \A x \in Tx : ended[x] = "rolledback" => ended'[x] = "rolledback"
      BY <3>1 DEF TypeOK
    <3> QED BY <3>1, <3>3, <3>4, <3>5 DEF LeaseInv, ConnectionsAccounted
  <2>3. CASE (HandleCommit(s) \/ HandleRollback(s)) /\ ~PostStop(s)
    <3>1. /\ active[s] \in Tx /\ UNCHANGED <<active, leased, runOf, runPc>>
          /\ \E e \in {"committed", "rolledback"} : ended' = [ended EXCEPT ![active[s]] = e]
      BY <2>3 DEF HandleCommit, HandleRollback, runVars, TypeOK
    <3>2. \A t \in Tx : ended[t] = "rolledback" =>
            ended'[t] = "rolledback" \/ \E u \in Session : active[u] = t
      BY <3>1 DEF TypeOK
    <3> QED BY <3>1, <3>2 DEF LeaseInv, ConnectionsAccounted
  <2>4. CASE CloseTransaction(s)
    <3>1. /\ leased' = leased \ {active[s]} /\ active' = [active EXCEPT ![s] = NoTx]
          /\ UNCHANGED <<ended, runOf, runPc>> /\ active[s] \in Tx
      BY <2>4 DEF CloseTransaction, runVars, TxInv, TypeOK
    <3>2. IsFiniteSet(leased') /\ Cardinality(leased') <= PoolSize
      BY <3>1, LeaseReturned DEF LeaseInv, ConnectionsAccounted
    <3>3. \A u \in Session, x \in Tx : active'[u] = x <=> (active[u] = x /\ x # active[s])
      BY <3>1 DEF TypeOK, TxInv, OwnTransaction
    <3>4. Run \cap leased' = Run \cap leased
      BY <3>1
    <3> QED BY <3>1, <3>2, <3>3, <3>4 DEF LeaseInv, ConnectionsAccounted
  <2>5. CASE HandleSubmit(s)
    <3> DEFINE r == Head(inbox[s]).run
    <3>1. r \in Run /\ runPc[r] = "sent"
      <4>1. Head(inbox[s]) = inbox[s][1] /\ 1 \in 1 .. Len(inbox[s]) /\ Head(inbox[s]) \in Request
        BY <2>5 DEF HandleSubmit, Next1, TypeOK
      <4> QED BY <2>5, <4>1 DEF HandleSubmit, Next1, SubmitOnce, IsSubmit, Request
    <3>2. /\ runOf' = [runOf EXCEPT ![r] = [session |-> s, db |-> Captured(s)]]
          /\ runPc' = [runPc EXCEPT ![r] = "queued"]
          /\ UNCHANGED <<active, ended, leased>>
      BY <2>5 DEF HandleSubmit, actorVars, dbVars
    <3> HIDE DEF r
    <3> QED BY <3>1, <3>2, LeaseFrame DEF TypeOK
  <2> QED BY <1>3, <2>r, <2>1, <2>2, <2>3, <2>4, <2>5 DEF Actor, Stop
<1>4. ASSUME NEW r \in Run, Worker(r)  PROVE LeaseInv'
  <2> USE DEF TypeOK, Goto
  <2>1. CASE Respond(r)
    BY <2>1, LeaseFrame DEF Respond, actorVars, dbVars
  <2>2. CASE Acquire(r)
    <3>1. UNCHANGED <<active, ended, runOf>> /\ runPc[r] = "queued"
      BY <2>2 DEF Acquire, actorVars
    <3>2. CASE runOf[r].db # Pool \/ PoolIsFull
      <4>1. UNCHANGED leased /\ \E p \in {"running", "failed"} : runPc' = [runPc EXCEPT ![r] = p]
                             /\ (runOf[r].db = Pool => p = "failed")
        BY <2>2, <3>2 DEF Acquire
      <4> QED BY <3>1, <4>1, LeaseFrame
    <3>3. CASE runOf[r].db = Pool /\ ~PoolIsFull
      <4>1. runPc' = [runPc EXCEPT ![r] = "running"] /\ leased' = leased \cup {r}
        BY <2>2, <3>3 DEF Acquire
      <4>2. IsFiniteSet(leased') /\ Cardinality(leased') <= PoolSize
        BY <3>3, <4>1, LeaseTaken DEF LeaseInv
      <4> QED BY <3>1, <3>3, <4>1, <4>2 DEF LeaseInv, ConnectionsAccounted
    <3> QED BY <3>2, <3>3
  <2>3. CASE ExecuteOk(r) \/ ExecuteFails(r)
    <3>1. /\ UNCHANGED <<active, ended, runOf>> /\ runPc[r] = "running"
          /\ \E p \in {"ok", "failed"} : runPc' = [runPc EXCEPT ![r] = p]
          /\ leased' = leased \ {r} \/ (UNCHANGED leased /\ runOf[r].db # Pool)
      BY <2>3 DEF ExecuteOk, ExecuteFails, actorVars
    <3>0. IsFiniteSet(leased) /\ Cardinality(leased) <= PoolSize
      BY DEF LeaseInv, ConnectionsAccounted
    <3>2. IsFiniteSet(leased') /\ Cardinality(leased') <= PoolSize
      <4>1. CASE leased' = leased \ {r}
        BY <3>0, <4>1, LeaseReturned, Zenon
      <4> QED BY <3>0, <3>1, <4>1
    <3>3. Tx \cap leased' = Tx \cap leased
      BY <3>1
    <3>4. Run \cap leased' = {q \in Run : runPc'[q] = "running" /\ runOf'[q].db = Pool}
      BY <3>1 DEF LeaseInv, ConnectionsAccounted
    <3> QED BY <3>1, <3>2, <3>3, <3>4 DEF LeaseInv, ConnectionsAccounted
  <2> QED BY <1>4, <2>1, <2>2, <2>3 DEF Worker
<1> QED BY <1>1, <1>2, <1>3, <1>4 DEF Next

----------------------------------------------------------------------------
(* The sockets                                                             *)

\* The client is connected to an actor that runs or has stopped by itself; an actor
\* whose connection has not been opened has done nothing.
SocketInv ==
  /\ socket \in Session => life[socket] \in {"alive", "dead"}
  /\ \A s \in Session : life[s] = "unused" =>
       inbox[s] = <<>> /\ outbox[s] = <<>> /\ active[s] = NoTx /\ closing[s] = "no"

LEMMA SocketInit == Init => SocketInv
BY Constants DEF Init, SocketInv

\* What a request or an answer adds, and what is taken.
LEMMA Sent ==
  ASSUME TypeOK, NEW m \in Request, Send(m)
  PROVE  /\ socket \in Session
         /\ \A s \in Session : s # socket => inbox'[s] = inbox[s]
         /\ Len(inbox'[socket]) = Len(inbox[socket]) + 1 /\ Len(inbox[socket]) \in Nat
         /\ inbox'[socket][Len(inbox[socket]) + 1] = m
         /\ \A i \in 1 .. Len(inbox[socket]) : inbox'[socket][i] = inbox[socket][i]
<1>1. socket \in Session /\ inbox[socket] \in Seq(Request) /\ inbox \in [Session -> Seq(Request)]
  BY SendType DEF TypeOK
<1>2. inbox' = [inbox EXCEPT ![socket] = Append(inbox[socket], m)]
  BY DEF Send
<1> QED BY <1>1, <1>2, AppendProperties

LEMMA Taken ==
  ASSUME TypeOK, NEW s \in Session, Take(s), inbox[s] # <<>>
  PROVE  /\ \A u \in Session : u # s => inbox'[u] = inbox[u]
         /\ Len(inbox[s]) \in Nat \ {0} /\ Head(inbox[s]) = inbox[s][1] /\ Head(inbox[s]) \in Request
         /\ Len(inbox'[s]) = Len(inbox[s]) - 1
         /\ \A i \in 1 .. Len(inbox'[s]) : inbox'[s][i] = inbox[s][i + 1]
<1>1. inbox[s] \in Seq(Request) /\ inbox \in [Session -> Seq(Request)]
  BY DEF TypeOK
<1>2. inbox' = [inbox EXCEPT ![s] = Tail(inbox[s])]
  BY DEF Take
<1> QED BY <1>1, <1>2, HeadTailProperties

LEMMA Replied ==
  ASSUME TypeOK, NEW s, NEW m \in Response, Reply(s, m)
  PROVE  /\ \A u \in Session : u # s \/ u # socket => outbox'[u] = outbox[u]
         /\ s = socket /\ s \in Session =>
              /\ Len(outbox'[s]) = Len(outbox[s]) + 1 /\ Len(outbox[s]) \in Nat
              /\ outbox'[s][Len(outbox[s]) + 1] = m
              /\ \A k \in 1 .. Len(outbox[s]) : outbox'[s][k] = outbox[s][k]
<1>1. outbox \in [Session -> Seq(Response)]
  BY DEF TypeOK
<1>2. CASE s = socket /\ s \in Session
  <2>1. outbox[s] \in Seq(Response) /\ outbox' = [outbox EXCEPT ![s] = Append(outbox[s], m)]
    BY <1>1, <1>2 DEF Reply
  <2> QED BY <1>1, <1>2, <2>1, AppendProperties
<1>3. CASE s # socket
  BY <1>3 DEF Reply
<1>4. CASE s = socket /\ s \notin Session
  <2>1. outbox' = [outbox EXCEPT ![s] = Append(outbox[s], m)]
    BY <1>4 DEF Reply
  <2> QED BY <1>1, <1>4, <2>1
<1> QED BY <1>2, <1>3, <1>4

LEMMA SocketStep == TypeOK /\ SocketInv /\ [Next]_vars => SocketInv'
<1> SUFFICES ASSUME TypeOK, SocketInv, [Next]_vars PROVE SocketInv'
  OBVIOUS
<1> USE Constants DEF SocketInv
<1>1. ASSUME NEW s \in Session, Connect(s)  PROVE SocketInv'
  BY <1>1 DEF Connect, netVars, TypeOK
<1>2. ASSUME NEW m \in Request, Send(m), UNCHANGED <<socket, outbox, actorVars>>  PROVE SocketInv'
  BY <1>2, Sent DEF actorVars
<1>3. CASE BeginTransaction \/ EndTransaction(Commit) \/ EndTransaction(Rollback)
  BY <1>2, <1>3, MessageTypes DEF BeginTransaction, EndTransaction
<1>4. ASSUME NEW r \in Run, Submit(r)  PROVE SocketInv'
  BY <1>2, <1>4, MessageTypes DEF Submit
<1>5. CASE Receive
  BY <1>5 DEF Receive, Connected, actorVars, TypeOK
<1>6. CASE Disconnect
  BY <1>6 DEF Disconnect, Connected, TypeOK
<1>7. ASSUME NEW s \in Session, life[s] \in {"alive", "ending"}, UNCHANGED <<socket>>,
             \A u \in Session : u # s => /\ inbox'[u] = inbox[u] /\ outbox'[u] = outbox[u]
                                        /\ active'[u] = active[u] /\ closing'[u] = closing[u]
                                        /\ life'[u] = life[u],
             life'[s] \in {life[s], "dead"}
      PROVE  SocketInv'
  BY <1>7
<1>8. ASSUME NEW s \in Session, Actor(s)  PROVE SocketInv'
  <2>1. life[s] \in {"alive", "ending"} /\ life'[s] \in {life[s], "dead"} /\ UNCHANGED socket
    BY <1>8, Zenon DEF Actor, HandleBegin, HandleCommit, HandleRollback, CloseTransaction, HandleSubmit, Stop,
       PostStop, Next1, Running, clientVars, actorVars, TypeOK
  <2>2. \A u \in Session : u # s => /\ inbox'[u] = inbox[u] /\ outbox'[u] = outbox[u]
                                   /\ active'[u] = active[u] /\ closing'[u] = closing[u]
                                   /\ life'[u] = life[u]
    BY <1>8 DEF Actor, HandleBegin, HandleCommit, HandleRollback, CloseTransaction, HandleSubmit, Stop,
       PostStop, Take, Reply, clientVars, actorVars, TypeOK
  <2> QED BY <1>7, <2>1, <2>2
<1>9. ASSUME NEW r \in Run, Worker(r)  PROVE SocketInv'
  <2>1. CASE Respond(r)
    <3>1. \A u \in Session : u # socket => outbox'[u] = outbox[u]
      BY <2>1 DEF Respond, Reply, TypeOK
    <3> QED BY <2>1, <3>1 DEF Respond, clientVars, actorVars
  <2> QED BY <1>9, <2>1 DEF Worker, Acquire, ExecuteOk, ExecuteFails, clientVars, netVars, actorVars
<1>10. CASE UNCHANGED vars
  BY <1>10 DEF vars, clientVars, netVars, actorVars
<1> QED BY <1>1, <1>3, <1>4, <1>5, <1>6, <1>8, <1>9, <1>10 DEF Next

----------------------------------------------------------------------------
(* The dialog of the client and the actor it is connected to               *)

IsBegin(m)  == m.type = "begin"
IsEnd(m)    == m.type \in {"commit", "rollback"}
IsStatus(m) == m.type = "status"
Starts(m)   == IsStatus(m) /\ m.state = "started"

NoEnd(s)    == \A i \in 1 .. Len(inbox[s]) : ~IsEnd(inbox[s][i])
NoStatus(s) == \A k \in 1 .. Len(outbox[s]) : ~IsStatus(outbox[s][k])

\* A request to begin is the last about transactions, and nothing is open yet.
BeginComes(s) ==
  \A i \in 1 .. Len(inbox[s]) : IsBegin(inbox[s][i]) =>
    /\ \A j \in 1 .. Len(inbox[s]) : i < j => ~IsBegin(inbox[s][j]) /\ ~IsEnd(inbox[s][j])
    /\ active[s] = NoTx /\ ~inTx /\ ~link /\ NoStatus(s)

\* At most one status is on its way, and it is true of the actor until it arrives.
StatusIsTrue(s) ==
  /\ \A k, l \in 1 .. Len(outbox[s]) : IsStatus(outbox[s][k]) /\ IsStatus(outbox[s][l]) => k = l
  /\ \A k \in 1 .. Len(outbox[s]) : IsStatus(outbox[s][k]) =>
       IF Starts(outbox[s][k]) THEN active[s] # NoTx /\ closing[s] = "no" /\ ~inTx /\ NoEnd(s)
                               ELSE active[s] = NoTx /\ ~link

\* The link is hidden while the actor has a transaction; one that is being ended was
\* asked for, and the answer is yet to come.
HeldIsKnown(s) ==
  /\ active[s] # NoTx => ~link
  /\ closing[s] # "no" => NoStatus(s) /\ active[s] # NoTx

\* A sure client has a transaction, and nothing is under way that ends it.
SureIsOpen(s) ==
  trust = "sure" => inTx /\ active[s] # NoTx /\ closing[s] = "no" /\ NoEnd(s) /\ NoStatus(s)

Dialog(s) == BeginComes(s) /\ StatusIsTrue(s) /\ HeldIsKnown(s) /\ SureIsOpen(s)

DialogInv == \A s \in Session : s = socket /\ life[s] = "alive" => Dialog(s)

LEMMA DialogInit == Init => DialogInv
BY Constants DEF Init, DialogInv

LEMMA DialogFrame ==
  ASSUME NEW s \in Session, Dialog(s), inbox'[s] = inbox[s], outbox'[s] = outbox[s],
         active'[s] = active[s], closing'[s] = closing[s], UNCHANGED <<inTx, link, trust>>
  PROVE  Dialog(s)'
BY DEF Dialog, BeginComes, StatusIsTrue, HeldIsKnown, SureIsOpen, NoEnd, NoStatus, IsBegin, IsEnd, IsStatus, Starts

\* A request joins; a request to begin only when the link is visible.
LEMMA DialogAsked ==
  ASSUME TypeOK, NEW m \in Request, Send(m), NEW s \in Session, s = socket, Dialog(s),
         UNCHANGED <<inTx, outbox, active, closing>>,
         IsBegin(m) => ~inTx /\ link /\ ~link',
         ~IsBegin(m) => UNCHANGED link,
         IsEnd(m) => inTx /\ trust' # "sure",
         ~IsEnd(m) => UNCHANGED trust
  PROVE  Dialog(s)'
<1> DEFINE n == Len(inbox[s]) + 1
<1>1. /\ Len(inbox'[s]) = n /\ n \in Nat \ {0} /\ inbox'[s][n] = m
      /\ \A i \in 1 .. n - 1 : inbox'[s][i] = inbox[s][i]
      /\ Len(inbox[s]) = n - 1
  BY Sent
<1>2. m.type \in {"begin", "commit", "rollback", "submit"}
  BY DEF Request
<1>3. NoStatus(s)' = NoStatus(s)
  BY DEF NoStatus
<1> HIDE DEF n
<1>4. \A i \in 1 .. n : i = n \/ i \in 1 .. n - 1
  BY <1>1
<1>5. NoEnd(s) /\ ~IsEnd(m) => NoEnd(s)'
  BY <1>1, <1>4 DEF NoEnd, IsEnd
<1>6. SureIsOpen(s)'
  BY <1>2, <1>3, <1>5 DEF Dialog, SureIsOpen, IsEnd, IsBegin
<1>7. HeldIsKnown(s)'
  BY <1>2, <1>3 DEF Dialog, HeldIsKnown, IsEnd, IsBegin
<1>8. StatusIsTrue(s)'
  BY <1>2, <1>3, <1>5 DEF Dialog, StatusIsTrue, IsEnd, IsBegin, IsStatus, Starts
<1>9. BeginComes(s)'
  <2>1. CASE IsBegin(m)
    <3>1. /\ active[s] = NoTx /\ NoStatus(s)
          /\ \A i \in 1 .. n - 1 : ~IsBegin(inbox[s][i])
      BY <1>1, <1>3, <2>1 DEF Dialog, StatusIsTrue, HeldIsKnown, BeginComes, NoStatus
    <3> QED BY <1>1, <1>3, <1>4, <2>1, <3>1 DEF BeginComes, IsBegin, IsEnd
  <2>2. CASE IsEnd(m)
    <3>1. \A i \in 1 .. n - 1 : ~IsBegin(inbox[s][i])
      BY <1>1, <1>3, <2>2 DEF Dialog, BeginComes
    <3> QED BY <1>1, <1>4, <2>2, <3>1 DEF BeginComes, IsBegin, IsEnd
  <2>3. CASE ~IsBegin(m) /\ ~IsEnd(m)
    BY <1>1, <1>3, <1>4, <2>3 DEF Dialog, BeginComes, IsBegin, IsEnd
  <2> QED BY <2>1, <2>2, <2>3
<1> QED BY <1>6, <1>7, <1>8, <1>9 DEF Dialog

\* A status arrives.
LEMMA DialogTold ==
  ASSUME TypeOK, Receive, NEW s \in Session, s = socket, Dialog(s)
  PROVE  Dialog(s)'
<1> DEFINE m == Head(outbox[s])
<1>1. outbox[s] # <<>> /\ outbox[s] \in Seq(Response)
  BY DEF Receive, Connected, TypeOK
<1>2. outbox' = [outbox EXCEPT ![s] = Tail(outbox[s])]
  BY DEF Receive
<1>3. /\ m = outbox[s][1] /\ m \in Response /\ 1 \in 1 .. Len(outbox[s])
      /\ Len(outbox'[s]) = Len(outbox[s]) - 1
      /\ \A k \in 1 .. Len(outbox'[s]) : outbox'[s][k] = outbox[s][k + 1] /\ k + 1 \in 1 .. Len(outbox[s])
  BY <1>1, <1>2, HeadTailProperties DEF TypeOK
<1>4. UNCHANGED <<socket, inbox, active, closing>> /\ NoEnd(s)' = NoEnd(s)
  BY DEF Receive, actorVars, NoEnd
<1>5. IF IsStatus(m) THEN OnStatus(m.state) ELSE OnResult(m)
  BY DEF Receive, IsStatus
<1> HIDE DEF m
<1>6. NoStatus(s) => NoStatus(s)'
  BY <1>3 DEF NoStatus, IsStatus
<1>7. IsStatus(m) => NoStatus(s)'
  BY <1>3 DEF Dialog, StatusIsTrue, NoStatus, IsStatus
<1>8. CASE ~IsStatus(m)
  <2>1. UNCHANGED <<inTx, link, trust>>
    BY <1>5, <1>8 DEF OnResult
  <2>2. BeginComes(s)' /\ HeldIsKnown(s)' /\ SureIsOpen(s)'
    BY <1>4, <1>6, <2>1 DEF Dialog, BeginComes, HeldIsKnown, SureIsOpen, IsBegin, IsEnd
  <2>3. StatusIsTrue(s)'
    <3>1. ASSUME NEW k \in 1 .. Len(outbox'[s]), NEW l \in 1 .. Len(outbox'[s]),
                 IsStatus(outbox'[s][k]), IsStatus(outbox'[s][l])
          PROVE  k = l
      <4>1. k + 1 = l + 1
        BY <1>3, <3>1 DEF Dialog, StatusIsTrue
      <4> QED BY <4>1
    <3>2. ASSUME NEW k \in 1 .. Len(outbox'[s]), IsStatus(outbox'[s][k])
          PROVE  IF Starts(outbox'[s][k]) THEN active[s] # NoTx /\ closing[s] = "no" /\ ~inTx /\ NoEnd(s)
                                          ELSE active[s] = NoTx /\ ~link
      BY <1>3, <3>2 DEF Dialog, StatusIsTrue
    <3> QED BY <1>4, <2>1, <3>1, <3>2 DEF StatusIsTrue, IsStatus, Starts
  <2> QED BY <1>4, <2>2, <2>3 DEF Dialog
<1>9. CASE Starts(m)
  <2>1. inTx' = TRUE /\ trust' = "sure" /\ UNCHANGED link
    BY <1>5, <1>9 DEF OnStatus, Starts
  <2>2. active[s] # NoTx /\ closing[s] = "no" /\ NoEnd(s) /\ ~link
    BY <1>3, <1>9 DEF Dialog, StatusIsTrue, HeldIsKnown, Starts
  <2>3. NoStatus(s)'
    BY <1>7, <1>9 DEF Starts
  <2>4. BeginComes(s)'
    BY <1>4, <2>2 DEF Dialog, BeginComes, IsBegin, IsEnd
  <2>5. StatusIsTrue(s)' /\ HeldIsKnown(s)' /\ SureIsOpen(s)'
    BY <1>4, <2>1, <2>2, <2>3 DEF StatusIsTrue, HeldIsKnown, SureIsOpen, NoStatus, IsStatus, Starts
  <2> QED BY <1>4, <2>4, <2>5 DEF Dialog
<1>10. CASE IsStatus(m) /\ ~Starts(m)
  <2>1. inTx' = FALSE /\ trust' = "none" /\ link' = TRUE
    BY <1>5, <1>10 DEF OnStatus, Starts
  <2>2. active[s] = NoTx /\ \A i \in 1 .. Len(inbox[s]) : ~IsBegin(inbox[s][i])
    BY <1>3, <1>10 DEF Dialog, StatusIsTrue, BeginComes, NoStatus
  <2>3. closing[s] = "no"
    BY <2>2 DEF Dialog, HeldIsKnown
  <2>4. BeginComes(s)' /\ StatusIsTrue(s)' /\ HeldIsKnown(s)' /\ SureIsOpen(s)'
    BY <1>4, <1>7, <1>10, <2>1, <2>2, <2>3
    DEF BeginComes, StatusIsTrue, HeldIsKnown, SureIsOpen, NoStatus, IsStatus, IsBegin
  <2> QED BY <1>4, <2>4 DEF Dialog
<1> QED BY <1>8, <1>9, <1>10 DEF Starts

\* An answer joins. A status is the only one under way, and true.
LEMMA DialogAnswered ==
  ASSUME TypeOK, NEW s \in Session, NEW m \in Response, Reply(s, m), s = socket, Dialog(s),
         IsStatus(m) => NoStatus(s),
         IsStatus(m) => IF Starts(m) THEN active'[s] # NoTx /\ closing'[s] = "no" /\ ~inTx' /\ NoEnd(s)'
                                     ELSE active'[s] = NoTx /\ ~link',
         ~IsStatus(m) => UNCHANGED <<inbox, active, closing, inTx, link>>
  PROVE  StatusIsTrue(s)' /\ (NoStatus(s) /\ ~IsStatus(m) => NoStatus(s)')
<1> DEFINE n == Len(outbox[s]) + 1
<1>1. /\ n \in Nat \ {0} /\ Len(outbox'[s]) = n /\ Len(outbox[s]) = n - 1 /\ outbox'[s][n] = m
      /\ \A k \in 1 .. n - 1 : outbox'[s][k] = outbox[s][k]
  BY Replied
<1> HIDE DEF n
<1>2. \A k \in 1 .. n : k = n \/ k \in 1 .. n - 1
  BY <1>1
<1>3. NoStatus(s) /\ ~IsStatus(m) => NoStatus(s)'
  BY <1>1, <1>2 DEF NoStatus, IsStatus
<1>4. CASE IsStatus(m)
  BY <1>1, <1>2, <1>4 DEF NoStatus, StatusIsTrue, IsStatus, Starts
<1>5. CASE ~IsStatus(m)
  <2>1. NoEnd(s)' = NoEnd(s)
    BY <1>5 DEF NoEnd
  <2> QED BY <1>1, <1>2, <1>3, <1>5, <2>1 DEF Dialog, StatusIsTrue, IsStatus, Starts
<1> QED BY <1>3, <1>4, <1>5

\* The actor takes a request.
LEMMA DialogTaken ==
  ASSUME TypeOK, NEW s \in Session, Take(s), inbox[s] # <<>>
  PROVE  /\ NoEnd(s) => NoEnd(s)'
         /\ BeginComes(s) /\ UNCHANGED <<active, inTx, link, outbox>> => BeginComes(s)'
         /\ BeginComes(s) /\ IsBegin(Head(inbox[s])) => NoEnd(s)' /\ \A i \in 1 .. Len(inbox'[s]) : ~IsBegin(inbox'[s][i])
         /\ NoEnd(s) => ~IsEnd(Head(inbox[s]))
<1>1. /\ Len(inbox[s]) \in Nat \ {0} /\ Head(inbox[s]) = inbox[s][1] /\ Head(inbox[s]) \in Request
      /\ Len(inbox'[s]) = Len(inbox[s]) - 1
      /\ \A i \in 1 .. Len(inbox'[s]) : inbox'[s][i] = inbox[s][i + 1]
  BY Taken
<1>2. /\ 1 \in 1 .. Len(inbox[s])
      /\ \A i \in 1 .. Len(inbox'[s]) : i + 1 \in 1 .. Len(inbox[s]) /\ 1 < i + 1
  BY <1>1
<1>3. NoEnd(s) => NoEnd(s)' /\ ~IsEnd(Head(inbox[s]))
  BY <1>1, <1>2 DEF NoEnd, IsEnd
<1>4. ASSUME BeginComes(s), IsBegin(Head(inbox[s]))
      PROVE  NoEnd(s)' /\ \A i \in 1 .. Len(inbox'[s]) : ~IsBegin(inbox'[s][i])
  <2>1. \A j \in 1 .. Len(inbox[s]) : 1 < j => ~IsBegin(inbox[s][j]) /\ ~IsEnd(inbox[s][j])
    BY <1>1, <1>2, <1>4 DEF BeginComes
  <2> QED BY <1>1, <1>2, <2>1 DEF NoEnd, IsEnd, IsBegin
<1>5. ASSUME BeginComes(s), UNCHANGED <<active, inTx, link, outbox>>  PROVE BeginComes(s)'
  <2>1. NoStatus(s)' = NoStatus(s)
    BY <1>5 DEF NoStatus
  <2>2. ASSUME NEW i \in 1 .. Len(inbox'[s]), IsBegin(inbox'[s][i])
        PROVE  /\ \A j \in 1 .. Len(inbox'[s]) : i < j => ~IsBegin(inbox'[s][j]) /\ ~IsEnd(inbox'[s][j])
               /\ active[s] = NoTx /\ ~inTx /\ ~link /\ NoStatus(s)
    <3>1. /\ \A j \in 1 .. Len(inbox[s]) : i + 1 < j => ~IsBegin(inbox[s][j]) /\ ~IsEnd(inbox[s][j])
          /\ active[s] = NoTx /\ ~inTx /\ ~link /\ NoStatus(s)
      BY <1>1, <1>2, <1>5, <2>2 DEF BeginComes
    <3>2. ASSUME NEW j \in 1 .. Len(inbox'[s]), i < j  PROVE ~IsBegin(inbox'[s][j]) /\ ~IsEnd(inbox'[s][j])
      <4>1. j + 1 \in 1 .. Len(inbox[s]) /\ i + 1 < j + 1 /\ inbox'[s][j] = inbox[s][j + 1]
        BY <1>1, <1>2, <3>2
      <4> QED BY <3>1, <4>1
    <3> QED BY <3>1, <3>2
  <2> QED BY <1>5, <2>1, <2>2 DEF BeginComes, IsBegin, IsEnd
<1> QED BY <1>3, <1>4, <1>5

LEMMA DialogActor ==
  ASSUME TypeOK, SocketInv, NEW s \in Session, s = socket, life[s] = "alive", Dialog(s), Actor(s), life'[s] = "alive"
  PROVE  Dialog(s)'
<1> USE Constants
<1>0. ~PostStop(s)
  BY DEF PostStop, TypeOK
<1>u. UNCHANGED <<inTx, link, trust>>
  BY <1>0 DEF Actor, HandleBegin, HandleCommit, HandleRollback, CloseTransaction, HandleSubmit, Stop, clientVars
<1>1. CASE HandleBegin(s)
  <2>1. /\ IsBegin(Head(inbox[s])) /\ inbox[s] # <<>> /\ closing[s] = "no" /\ Take(s)
        /\ active'[s] \in Tx /\ UNCHANGED closing /\ Reply(s, Status("started"))
    BY <1>0, <1>1 DEF HandleBegin, Next1, Running, IsBegin, TypeOK
  <2>2. NoEnd(s)' /\ \A i \in 1 .. Len(inbox'[s]) : ~IsBegin(inbox'[s][i])
    BY <2>1, DialogTaken DEF Dialog
  <2>3. ~inTx /\ ~link /\ NoStatus(s)
    BY <2>1, Taken DEF Dialog, BeginComes
  <2>4. trust # "sure"
    BY <2>3 DEF Dialog, SureIsOpen
  <2>5. Status("started") \in Response /\ IsStatus(Status("started")) /\ Starts(Status("started"))
    BY MessageTypes DEF Status, IsStatus, Starts
  <2>6. StatusIsTrue(s)'
    BY <1>u, <2>1, <2>2, <2>3, <2>5, DialogAnswered
  <2> QED BY <1>u, <2>1, <2>2, <2>3, <2>4, <2>6 DEF Dialog, BeginComes, HeldIsKnown, SureIsOpen, IsBegin, IsEnd
<1>2. CASE HandleCommit(s) \/ HandleRollback(s)
  <2>1. /\ IsEnd(Head(inbox[s])) /\ inbox[s] # <<>> /\ Take(s)
        /\ active[s] # NoTx /\ UNCHANGED <<active, outbox>>
    BY <1>0, <1>2 DEF HandleCommit, HandleRollback, Next1, IsEnd
  <2>2. ~NoEnd(s) /\ BeginComes(s)'
    BY <1>u, <2>1, DialogTaken DEF Dialog
  <2>3. NoStatus(s) /\ NoStatus(s)' /\ trust # "sure" /\ ~link
    BY <2>1, <2>2 DEF Dialog, StatusIsTrue, HeldIsKnown, SureIsOpen, NoStatus
  <2> QED BY <1>u, <2>1, <2>2, <2>3 DEF Dialog, StatusIsTrue, HeldIsKnown, SureIsOpen, NoStatus, IsStatus
<1>3. CASE CloseTransaction(s)
  <2> DEFINE m == Status(closing[s])
  <2>1. /\ closing[s] \in {"committed", "rolledback"} /\ UNCHANGED inbox /\ Reply(s, m)
        /\ active'[s] = NoTx /\ closing'[s] = "no"
    BY <1>3 DEF CloseTransaction, TypeOK
  <2>2. NoStatus(s) /\ active[s] # NoTx /\ ~link /\ trust # "sure"
    BY <2>1 DEF Dialog, HeldIsKnown, SureIsOpen
  <2>3. m \in Response /\ IsStatus(m) /\ ~Starts(m)
    BY <2>1, MessageTypes DEF Status, IsStatus, Starts
  <2> HIDE DEF m
  <2>4. StatusIsTrue(s)'
    BY <1>u, <2>1, <2>2, <2>3, DialogAnswered
  <2>5. \A i \in 1 .. Len(inbox[s]) : ~IsBegin(inbox[s][i])
    BY <2>2 DEF Dialog, BeginComes
  <2> QED BY <1>u, <2>1, <2>2, <2>4, <2>5 DEF Dialog, BeginComes, HeldIsKnown, SureIsOpen, IsBegin
<1>4. CASE HandleSubmit(s)
  <2>1. inbox[s] # <<>> /\ Take(s) /\ UNCHANGED <<active, closing, outbox>>
    BY <1>4 DEF HandleSubmit, Next1, actorVars
  <2>2. BeginComes(s)' /\ (NoEnd(s) => NoEnd(s)') /\ NoStatus(s)' = NoStatus(s)
    BY <1>u, <2>1, DialogTaken DEF Dialog, NoStatus
  <2> QED BY <1>u, <2>1, <2>2 DEF Dialog, StatusIsTrue, HeldIsKnown, SureIsOpen, IsStatus, Starts
<1>5. ~Stop(s)
  BY DEF Stop
<1> QED BY <1>1, <1>2, <1>3, <1>4, <1>5 DEF Actor

LEMMA DialogStep == TypeOK /\ SocketInv /\ DialogInv /\ [Next]_vars => DialogInv'
<1> SUFFICES ASSUME TypeOK, SocketInv, DialogInv, [Next]_vars,
                    NEW s \in Session, s = socket', life'[s] = "alive"
             PROVE  Dialog(s)'
  BY DEF DialogInv, Dialog, BeginComes, StatusIsTrue, HeldIsKnown, SureIsOpen, NoEnd, NoStatus, IsBegin, IsEnd, IsStatus, Starts
<1> USE Constants
<1>k. ASSUME UNCHANGED socket, life[s] = "alive"  PROVE s = socket /\ Dialog(s)
  BY <1>k DEF DialogInv
<1>1. ASSUME NEW u \in Session, Connect(u)  PROVE Dialog(s)'
  <2>1. s = u /\ life[s] = "unused" /\ UNCHANGED <<inbox, outbox, active, closing>> /\ trust' # "sure"
    BY <1>1 DEF Connect, netVars
  <2>2. inbox'[s] = <<>> /\ outbox'[s] = <<>> /\ active'[s] = NoTx /\ closing'[s] = "no"
    BY <2>1 DEF SocketInv
  <2> QED BY <2>1, <2>2 DEF Dialog, BeginComes, StatusIsTrue, HeldIsKnown, SureIsOpen
<1>2. CASE BeginTransaction
  <2>1. Begin \in Request /\ IsBegin(Begin) /\ ~IsEnd(Begin)
    BY MessageTypes DEF Begin, IsBegin, IsEnd
  <2> QED BY <1>k, <1>2, <2>1, DialogAsked DEF BeginTransaction, actorVars
<1>3. ASSUME NEW m \in {Commit, Rollback}, EndTransaction(m)  PROVE Dialog(s)'
  <2>1. m \in Request /\ ~IsBegin(m) /\ IsEnd(m)
    BY MessageTypes DEF Commit, Rollback, IsBegin, IsEnd
  <2> QED BY <1>k, <1>3, <2>1, DialogAsked DEF EndTransaction, actorVars
<1>4. ASSUME NEW r \in Run, Submit(r)  PROVE Dialog(s)'
  <2>1. SubmitQuery(r) \in Request /\ ~IsBegin(SubmitQuery(r)) /\ ~IsEnd(SubmitQuery(r))
    BY MessageTypes DEF SubmitQuery, IsBegin, IsEnd
  <2> QED BY <1>k, <1>4, <2>1, DialogAsked DEF Submit, actorVars
<1>5. CASE Receive
  BY <1>k, <1>5, DialogTold DEF Receive, actorVars
<1>6. ~Disconnect
  BY DEF Disconnect
<1>7. ASSUME NEW u \in Session, Actor(u)  PROVE Dialog(s)'
  <2>1. UNCHANGED <<socket, inTx, link, trust>>
    BY <1>7 DEF Actor, HandleBegin, HandleCommit, HandleRollback, CloseTransaction, HandleSubmit, Stop,
       PostStop, clientVars
  <2>2. CASE u = s
    <3>1. life[s] = "alive"
      BY <1>7, <2>1, <2>2 DEF SocketInv, Actor, HandleBegin, HandleCommit, HandleRollback, CloseTransaction,
         HandleSubmit, Stop, Next1, Running
    <3> QED BY <1>7, <1>k, <2>1, <2>2, <3>1, DialogActor
  <2>3. CASE u # s
    <3>1. /\ inbox'[s] = inbox[s] /\ outbox'[s] = outbox[s]
          /\ active'[s] = active[s] /\ closing'[s] = closing[s] /\ life'[s] = life[s]
      BY <1>7, <2>3 DEF Actor, HandleBegin, HandleCommit, HandleRollback, CloseTransaction, HandleSubmit, Stop,
         PostStop, Take, Reply, clientVars, actorVars, TypeOK
    <3> QED BY <1>k, <2>1, <3>1, DialogFrame
  <2> QED BY <2>2, <2>3
<1>8. ASSUME NEW r \in Run, Worker(r)  PROVE Dialog(s)'
  <2>1. UNCHANGED <<socket, inTx, link, trust, inbox, life, active, closing>>
    BY <1>8 DEF Worker, Acquire, ExecuteOk, ExecuteFails, Respond, clientVars, netVars, actorVars
  <2>2. CASE Respond(r)
    <3> DEFINE m == IF runPc[r] = "ok" THEN Result(r) ELSE Failed(r)
    <3>1. m \in Response /\ ~IsStatus(m) /\ Reply(runOf[r].session, m)
      BY <2>2, MessageTypes DEF Respond, Result, Failed, IsStatus
    <3> HIDE DEF m
    <3>2. CASE runOf[r].session # s
      <4>1. outbox'[s] = outbox[s]
        BY <3>1, <3>2, Replied
      <4> QED BY <1>k, <2>1, <4>1, DialogFrame
    <3>3. CASE runOf[r].session = s
      <4>1. Dialog(s) /\ s = socket
        BY <1>k, <2>1
      <4>2. StatusIsTrue(s)' /\ (NoStatus(s) => NoStatus(s)') /\ NoEnd(s)' = NoEnd(s)
        BY <2>1, <3>1, <3>3, <4>1, DialogAnswered DEF NoEnd
      <4> QED BY <2>1, <4>1, <4>2 DEF Dialog, BeginComes, HeldIsKnown, SureIsOpen, IsBegin, IsEnd
    <3> QED BY <3>2, <3>3
  <2>3. CASE ~Respond(r)
    <3>1. UNCHANGED outbox
      BY <1>8, <2>3 DEF Worker, Acquire, ExecuteOk, ExecuteFails, netVars
    <3> QED BY <1>k, <2>1, <3>1, DialogFrame
  <2> QED BY <2>2, <2>3
<1>9. CASE UNCHANGED vars
  BY <1>k, <1>9, DialogFrame DEF vars, clientVars, netVars, actorVars
<1> QED BY <1>1, <1>2, <1>3, <1>4, <1>5, <1>6, <1>7, <1>8, <1>9 DEF Next

----------------------------------------------------------------------------
(* Statements submitted by a sure client                                   *)

Sure(s, i) == IsSubmit(inbox[s][i]) /\ believed[inbox[s][i].run] = "sure"

\* The statement waits at an actor that holds a transaction and has not been asked to
\* end it before.
WaitsInTx(s, i) ==
  /\ active[s] # NoTx /\ closing[s] = "no"
  /\ \A j \in 1 .. Len(inbox[s]) : j < i => ~IsEnd(inbox[s][j])

SureInv ==
  /\ \A r \in Run : believed[r] = "sure" /\ Accepted(r) => runOf[r].db \in Tx
  /\ \A s \in Session : life[s] \in {"alive", "ending"} =>
       \A i \in 1 .. Len(inbox[s]) : Sure(s, i) => WaitsInTx(s, i)

LEMMA SureInit == Init => SureInv
BY Constants DEF Init, SureInv, Accepted

\* What an actor need not be asked about: nothing happens to it, or it loses the last
\* requests, or it has stopped.
LEMMA SureKept ==
  ASSUME SureInv, NEW s \in Session, UNCHANGED <<believed, active, closing>>,
         life'[s] \in {"alive", "ending"} => life[s] \in {"alive", "ending"},
         Len(inbox[s]) \in Nat, Len(inbox'[s]) \in 0 .. Len(inbox[s]),
         \A i \in 1 .. Len(inbox'[s]) : inbox'[s][i] = inbox[s][i],
         life'[s] \in {"alive", "ending"}, NEW i \in 1 .. Len(inbox'[s]), Sure(s, i)'
  PROVE  WaitsInTx(s, i)'
BY DEF SureInv, WaitsInTx, Sure, IsSubmit, IsEnd

LEMMA SureStep == TypeOK /\ SubmitOnce /\ TxInv /\ SocketInv /\ DialogInv /\ SureInv /\ [Next]_vars => SureInv'
<1> SUFFICES ASSUME TypeOK, SubmitOnce, TxInv, SocketInv, DialogInv, SureInv, [Next]_vars PROVE SureInv'
  OBVIOUS
<1> USE Constants
<1>l. \A s \in Session : Len(inbox[s]) \in Nat
  BY DEF TypeOK
<1>1. ASSUME UNCHANGED <<inbox, active, closing, believed, runOf>>,
             \A s \in Session : life'[s] \in {"alive", "ending"} =>
               life[s] \in {"alive", "ending"} \/ inbox[s] = <<>>,
             \A r \in Run : Accepted(r)' => Accepted(r)
      PROVE  SureInv'
  BY <1>1 DEF SureInv, WaitsInTx, Sure, IsSubmit, IsEnd
<1>2. ASSUME NEW s \in Session, Connect(s)  PROVE SureInv'
  BY <1>1, <1>2 DEF Connect, netVars, runVars, SocketInv, TypeOK, Accepted
<1>3. CASE Receive \/ UNCHANGED vars
  BY <1>1, <1>3 DEF Receive, vars, clientVars, netVars, actorVars, runVars, Accepted
<1>4. ASSUME NEW r \in Run, Worker(r)  PROVE SureInv'
  BY <1>1, <1>4 DEF Worker, Acquire, ExecuteOk, ExecuteFails, Respond, Goto, Accepted,
     clientVars, netVars, actorVars, TypeOK
<1>5. ASSUME NEW m \in Request, Send(m), UNCHANGED <<runOf, active, closing, life>>,
             \A r \in Run : Accepted(r)' => Accepted(r),
             IsSubmit(m) => runPc[m.run] = "unused" /\ believed'[m.run] = trust,
             \A r \in Run : believed'[r] = believed[r] \/ (IsSubmit(m) /\ r = m.run)
      PROVE  SureInv'
  <2>1. /\ socket \in Session /\ \A s \in Session : s # socket => inbox'[s] = inbox[s]
        /\ Len(inbox'[socket]) = Len(inbox[socket]) + 1 /\ Len(inbox[socket]) \in Nat
        /\ inbox'[socket][Len(inbox[socket]) + 1] = m
        /\ \A i \in 1 .. Len(inbox[socket]) : inbox'[socket][i] = inbox[socket][i]
    BY <1>5, Sent
  <2>2. ASSUME NEW s \in Session, life[s] \in {"alive", "ending"},
               NEW i \in 1 .. Len(inbox[s]), inbox'[s][i] = inbox[s][i], Sure(s, i)'
        PROVE  WaitsInTx(s, i)
    <3>1. inbox[s][i] \in Request /\ IsSubmit(inbox[s][i])
      BY <2>2 DEF Sure, IsSubmit, TypeOK
    <3>2. inbox[s][i].run \in Run /\ runPc[inbox[s][i].run] = "sent"
      BY <3>1 DEF Request, IsSubmit, SubmitOnce
    <3>3. Sure(s, i)
      BY <1>5, <2>2, <3>1, <3>2 DEF Sure
    <3> QED BY <2>2, <3>3 DEF SureInv
  <2>3. ASSUME NEW s \in Session, life'[s] \in {"alive", "ending"},
               NEW i \in 1 .. Len(inbox'[s]), Sure(s, i)'
        PROVE  WaitsInTx(s, i)'
    <3>1. CASE i \in 1 .. Len(inbox[s])
      <4>1. inbox'[s][i] = inbox[s][i]
        BY <2>1, <3>1
      <4>2. WaitsInTx(s, i)
        BY <1>5, <2>2, <2>3, <3>1, <4>1
      <4>3. \A j \in 1 .. Len(inbox'[s]) : j < i => j \in 1 .. Len(inbox[s]) /\ inbox'[s][j] = inbox[s][j]
        BY <1>l, <2>1, <3>1
      <4> QED BY <1>5, <4>2, <4>3 DEF WaitsInTx, IsEnd
    <3>2. CASE i \notin 1 .. Len(inbox[s])
      <4>1. s = socket /\ i = Len(inbox[s]) + 1 /\ inbox'[s][i] = m
        BY <2>1, <3>2
      <4>2. IsSubmit(m) /\ m.run \in Run /\ believed'[m.run] = "sure"
        BY <2>3, <4>1 DEF Sure, IsSubmit, Request
      <4>3. life[s] = "alive" /\ trust = "sure"
        BY <1>5, <2>3, <4>1, <4>2 DEF SocketInv
      <4>4. active[s] # NoTx /\ closing[s] = "no" /\ NoEnd(s)
        BY <4>1, <4>3 DEF DialogInv, Dialog, SureIsOpen
      <4>5. \A j \in 1 .. Len(inbox'[s]) : j < i => j \in 1 .. Len(inbox[s]) /\ inbox'[s][j] = inbox[s][j]
        BY <1>l, <2>1, <4>1
      <4> QED BY <1>5, <4>4, <4>5 DEF WaitsInTx, NoEnd, IsEnd
    <3> QED BY <3>1, <3>2
  <2>4. ASSUME NEW r \in Run, believed'[r] = "sure", Accepted(r)'  PROVE runOf'[r].db \in Tx
    BY <1>5, <2>4 DEF SureInv, Accepted
  <2> QED BY <2>3, <2>4 DEF SureInv
<1>6. CASE BeginTransaction \/ EndTransaction(Commit) \/ EndTransaction(Rollback)
  <2>1. \A m \in {Begin, Commit, Rollback} : m \in Request /\ ~IsSubmit(m)
    BY MessageTypes DEF Begin, Commit, Rollback, IsSubmit
  <2> QED BY <1>5, <1>6, <2>1 DEF BeginTransaction, EndTransaction, actorVars, runVars, Accepted
<1>7. ASSUME NEW r \in Run, Submit(r)  PROVE SureInv'
  <2>1. SubmitQuery(r) \in Request /\ IsSubmit(SubmitQuery(r)) /\ SubmitQuery(r).run = r
    BY MessageTypes DEF SubmitQuery, IsSubmit
  <2>2. /\ \A q \in Run : Accepted(q)' => Accepted(q)
        /\ runPc[r] = "unused" /\ believed'[r] = trust
        /\ \A q \in Run : believed'[q] = believed[q] \/ q = r
    BY <1>7 DEF Submit, Accepted, TypeOK
  <2> QED BY <1>5, <1>7, <2>1, <2>2 DEF Submit, actorVars
<1>8. CASE Disconnect
  <2>1. socket \in Session /\ UNCHANGED <<believed, active, closing, runOf, runPc>>
    BY <1>8 DEF Disconnect, Connected, TypeOK, runVars
  <2>2. PICK n \in 0 .. Len(inbox[socket]) : inbox' = [inbox EXCEPT ![socket] = SubSeq(inbox[socket], 1, n)]
    BY <1>8 DEF Disconnect
  <2>3. /\ Len(inbox'[socket]) = n
        /\ \A i \in 1 .. n : inbox'[socket][i] = inbox[socket][i]
    BY <2>1, <2>2, SubSeqProperties DEF TypeOK
  <2>4. \A s \in Session : s # socket => inbox'[s] = inbox[s]
    BY <2>2 DEF TypeOK
  <2>5. \A s \in Session : life'[s] \in {"alive", "ending"} => life[s] \in {"alive", "ending"}
    BY <1>8, <2>1 DEF Disconnect, TypeOK
  <2>6. \A s \in Session : /\ Len(inbox'[s]) \in 0 .. Len(inbox[s])
                          /\ \A i \in 1 .. Len(inbox'[s]) : inbox'[s][i] = inbox[s][i]
    BY <1>l, <2>1, <2>3, <2>4
  <2>7. ASSUME NEW s \in Session, life'[s] \in {"alive", "ending"},
               NEW i \in 1 .. Len(inbox'[s]), Sure(s, i)'
        PROVE  WaitsInTx(s, i)'
    BY <1>l, <2>1, <2>5, <2>6, <2>7, SureKept
  <2> QED BY <2>1, <2>7 DEF SureInv, Accepted
<1>9. ASSUME NEW s \in Session, Actor(s)  PROVE SureInv'
  <2>1. life[s] \in {"alive", "ending"} /\ UNCHANGED believed
    BY <1>9 DEF Actor, HandleBegin, HandleCommit, HandleRollback, CloseTransaction, HandleSubmit, Stop, PostStop,
       Next1, Running, clientVars
  <2>2. \A u \in Session : u # s => /\ inbox'[u] = inbox[u] /\ active'[u] = active[u]
                                   /\ closing'[u] = closing[u] /\ life'[u] = life[u]
    BY <1>9 DEF Actor, HandleBegin, HandleCommit, HandleRollback, CloseTransaction, HandleSubmit, Stop,
       PostStop, Take, actorVars, TypeOK
  <2>3. ASSUME NEW u \in Session, u # s, life'[u] \in {"alive", "ending"},
               NEW i \in 1 .. Len(inbox'[u]), Sure(u, i)'
        PROVE  WaitsInTx(u, i)'
    BY <2>1, <2>2, <2>3 DEF SureInv, WaitsInTx, Sure, IsSubmit, IsEnd
  <2>4. ASSUME \A r \in Run : Accepted(r)' /\ believed[r] = "sure" =>
                   (Accepted(r) /\ runOf'[r] = runOf[r]) \/ runOf'[r].db \in Tx,
               life'[s] \in {"alive", "ending"} =>
                 \A i \in 1 .. Len(inbox'[s]) : Sure(s, i)' => WaitsInTx(s, i)'
        PROVE  SureInv'
    BY <2>1, <2>3, <2>4 DEF SureInv
  <2>5. CASE PostStop(s)
    <3>1. life'[s] = "dead" /\ UNCHANGED <<runOf, runPc>>
      BY <2>5 DEF PostStop, runVars, TypeOK
    <3> QED BY <2>4, <3>1 DEF Accepted
  \* The front request is taken; what waits behind it waits on.
  <2>6. ASSUME Take(s), inbox[s] # <<>>, NEW i \in 1 .. Len(inbox'[s]), Sure(s, i)'
        PROVE  WaitsInTx(s, i + 1) /\ i + 1 \in 1 .. Len(inbox[s]) /\ ~IsEnd(Head(inbox[s]))
               /\ \A j \in 1 .. Len(inbox'[s]) : j < i => ~IsEnd(inbox'[s][j])
    <3>1. /\ Len(inbox[s]) \in Nat \ {0} /\ Head(inbox[s]) = inbox[s][1]
          /\ Len(inbox'[s]) = Len(inbox[s]) - 1
          /\ \A j \in 1 .. Len(inbox'[s]) : inbox'[s][j] = inbox[s][j + 1]
      BY <2>6, Taken
    <3>2. i + 1 \in 1 .. Len(inbox[s]) /\ 1 \in 1 .. Len(inbox[s]) /\ 1 < i + 1
      BY <3>1
    <3>3. Sure(s, i + 1)
      BY <2>1, <2>6, <3>1 DEF Sure, IsSubmit
    <3>4. WaitsInTx(s, i + 1)
      BY <2>1, <3>2, <3>3 DEF SureInv
    <3>5. ASSUME NEW j \in 1 .. Len(inbox'[s]), j < i  PROVE ~IsEnd(inbox'[s][j])
      <4>1. j + 1 \in 1 .. Len(inbox[s]) /\ j + 1 < i + 1 /\ inbox'[s][j] = inbox[s][j + 1]
        BY <3>1, <3>5
      <4> QED BY <3>4, <4>1 DEF WaitsInTx
    <3> QED BY <3>1, <3>2, <3>4, <3>5 DEF WaitsInTx
  <2>7. CASE HandleBegin(s) /\ ~PostStop(s)
    <3>1. Take(s) /\ inbox[s] # <<>> /\ active[s] = NoTx /\ UNCHANGED <<runOf, runPc>>
      BY <2>7 DEF HandleBegin, Next1, runVars
    <3>2. \A i \in 1 .. Len(inbox'[s]) : ~Sure(s, i)'
      BY <2>6, <3>1 DEF WaitsInTx
    <3> QED BY <2>4, <3>1, <3>2 DEF Accepted
  <2>8. CASE (HandleCommit(s) \/ HandleRollback(s)) /\ ~PostStop(s)
    <3>1. Take(s) /\ inbox[s] # <<>> /\ IsEnd(Head(inbox[s])) /\ UNCHANGED <<runOf, runPc>>
      BY <2>8 DEF HandleCommit, HandleRollback, Next1, IsEnd, runVars
    <3>2. \A i \in 1 .. Len(inbox'[s]) : ~Sure(s, i)'
      BY <2>6, <3>1
    <3> QED BY <2>4, <3>1, <3>2 DEF Accepted
  <2>9. CASE CloseTransaction(s)
    <3>1. closing[s] # "no" /\ UNCHANGED <<inbox, runOf, runPc>>
      BY <2>9 DEF CloseTransaction, runVars
    <3>2. \A i \in 1 .. Len(inbox'[s]) : ~Sure(s, i)'
      BY <2>1, <3>1 DEF SureInv, WaitsInTx, Sure, IsSubmit
    <3> QED BY <2>4, <3>1, <3>2 DEF Accepted
  <2>10. CASE HandleSubmit(s)
    <3> DEFINE r == Head(inbox[s]).run
    <3>1. Head(inbox[s]) = inbox[s][1] /\ 1 \in 1 .. Len(inbox[s]) /\ Head(inbox[s]) \in Request
      BY <2>10 DEF HandleSubmit, Next1, TypeOK
    <3>2. r \in Run /\ IsSubmit(Head(inbox[s]))
      BY <2>10, <3>1 DEF HandleSubmit, Next1, IsSubmit, Request
    <3>3. /\ runOf' = [runOf EXCEPT ![r] = [session |-> s, db |-> Captured(s)]]
          /\ runPc' = [runPc EXCEPT ![r] = "queued"]
          /\ UNCHANGED <<active, closing>> /\ Take(s) /\ inbox[s] # <<>>
      BY <2>10 DEF HandleSubmit, Next1, actorVars
    <3>4. believed[r] = "sure" => active[s] \in Tx
      <4>1. believed[r] = "sure" => Sure(s, 1)
        BY <3>1, <3>2 DEF Sure
      <4> QED BY <2>1, <3>1, <4>1 DEF SureInv, WaitsInTx, TypeOK
    <3> HIDE DEF r
    <3>5. \A q \in Run : Accepted(q)' /\ believed[q] = "sure" =>
                   (Accepted(q) /\ runOf'[q] = runOf[q]) \/ runOf'[q].db \in Tx
      BY <3>2, <3>3, <3>4 DEF Accepted, Captured, TypeOK
    <3>6. \A i \in 1 .. Len(inbox'[s]) : Sure(s, i)' => WaitsInTx(s, i)'
      BY <2>6, <3>3 DEF WaitsInTx, IsEnd
    <3> QED BY <2>4, <3>5, <3>6
  <2> QED BY <1>9, <2>5, <2>7, <2>8, <2>9, <2>10 DEF Actor, Stop
<1> QED BY <1>2, <1>3, <1>4, <1>6, <1>7, <1>8, <1>9 DEF Next

----------------------------------------------------------------------------
(* The theorems                                                            *)

\* A connection that is out of the pool belongs to a transaction of a live actor, to a
\* running statement, or to a transaction that postStop rolled back.
THEOREM ConnectionsAreAccounted == Spec => []ConnectionsAccounted
<1>1. LeaseInv => ConnectionsAccounted
  BY DEF LeaseInv
<1> QED BY Invariants, LeaseInit, LeaseStep, <1>1, PTL DEF Spec

LEMMA Dialogs == Spec => [](SocketInv /\ DialogInv)
BY Invariants, SocketInit, SocketStep, DialogInit, DialogStep, PTL DEF Spec

\* While the client is sure of its transaction, the actor it talks to has one open, or
\* has stopped.
THEOREM SureClientsHaveATransaction == Spec => []SureClientHasTransaction
<1>1. TypeOK /\ TxInv /\ DialogInv => SureClientHasTransaction
  BY DEF TypeOK, TxInv, DialogInv, Dialog, SureIsOpen, SureClientHasTransaction, Connected
<1> QED BY Invariants, Dialogs, <1>1, PTL

\* A statement submitted by a sure client takes effect with the commit of a transaction only.
THEOREM SureStatementsTakeEffectTogether == Spec => []SureStatementsAreIsolated
<1>1. TxInv /\ SureInv => SureStatementsAreIsolated
  BY DEF TxInv, SureInv, SureStatementsAreIsolated, Committed
<1> QED BY Invariants, Dialogs, SureInit, SureStep, <1>1, PTL DEF Spec
=============================================================================
