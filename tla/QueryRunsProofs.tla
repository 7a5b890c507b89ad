---------------------------- MODULE QueryRunsProofs ----------------------------
(***************************************************************************)
(* Proofs about QueryRuns, for any number of runs, statements, connections *)
(* and answers under way. A run is submitted once and is idle until then   *)
(* (Fresh); the table of running statements and the audit records then     *)
(* follow the place of the run's worker, and the mark of the tab follows   *)
(* the first answer of its run. The answers, on their way and on the page, *)
(* are in the order in which the worker has come to them.                  *)
(***************************************************************************)
EXTENDS QueryRuns, TLAPS, SequenceTheorems

\* The facts about the constants that the proofs need.
LEMMA Constants ==
  /\ MaxRuns \in Nat /\ MaxStatements \in Nat /\ MaxStatements > 0
  /\ MaxConns \in Nat /\ MaxConns > 0 /\ MaxDisturbances \in Nat /\ MaxAsks \in Nat
  /\ NoRun \notin Run /\ Watched \subseteq Stmt
BY QueryRunsAssumption DEF QueryRunsAssumption, Run, Stmt

LEMMA Chosen ==
  ASSUME NEW r \in Run, NEW k, NEW n, <<k, n>> \in Choices[r]
  PROVE  k \in {"run", "single", "call"} /\ n \in 0..MaxStatements
<1>1. <<k, n>> \in {"run"} \X (0..MaxStatements) \cup {<<"single", 1>>, <<"call", 1>>}
  BY QueryRunsAssumption DEF QueryRunsAssumption, Run
<1> QED BY <1>1, Constants

----------------------------------------------------------------------------
(* Types                                                                   *)

\* A statement that has ended has had an outcome.
HasOutcome == \A r \in Run : pc[r] \in {"answered", "concluded"} => ans[r] # "none"

TypeInv == TypeOK /\ HasOutcome

LEMMA TypeInit == Init => TypeInv
<1> SUFFICES ASSUME Init  PROVE TypeInv
  OBVIOUS
<1>1. <<>> \in Seq(Panel) /\ <<>> \in Seq(Request) /\ <<>> \in Seq(Answer)
  OBVIOUS
<1>2. 0 \in 0..MaxStatements-1 /\ 0 \in 0..MaxConns /\ 1 \in Conn
  BY Constants DEF Conn
<1> QED BY <1>1, <1>2, Constants DEF Init, TypeInv, TypeOK, HasOutcome, Outcome

LEMMA AskType ==
  ASSUME TypeOK, NEW r \in Run, NEW k \in {"submit", "cancel"}, Ask(r, k)
  PROVE  inbox' \in [Conn -> Seq(Request)]
<1>1. [kind |-> k, run |-> r] \in Request
  BY DEF Request
<1>2. Append(inbox[conn], [kind |-> k, run |-> r]) \in Seq(Request)
  BY <1>1 DEF TypeOK
<1> QED BY <1>2 DEF TypeOK, Ask

LEMMA TakeType ==
  ASSUME TypeOK, NEW c \in Conn, NEW k, Take(c, k)
  PROVE  /\ inbox' \in [Conn -> Seq(Request)]
         /\ Head(inbox[c]) \in Request /\ Head(inbox[c]).run \in Run
<1>1. Head(inbox[c]) \in Request /\ Tail(inbox[c]) \in Seq(Request)
  BY DEF TypeOK, Take
<1> QED BY <1>1 DEF TypeOK, Take, Request

LEMMA SendType ==
  ASSUME TypeOK, NEW c, NEW m \in Answer, Send(c, m)
  PROVE  outbox' \in Seq(Answer)
<1>1. Append(outbox, m) \in Seq(Answer)
  BY DEF TypeOK
<1> QED BY <1>1 DEF TypeOK, Send

LEMMA PlaceType ==
  ASSUME page \in Seq(Panel), NEW p \in Panel, NEW i
  PROVE  Place(p, i) \in Seq(Panel)
<1> DEFINE Same(k) == page[k].run = p.run /\ page[k].at = p.at
           new == [k \in 1..Len(page) |-> IF Same(k) THEN p ELSE page[k]]
<1>1. \A k \in 1..Len(page) : page[k] \in Panel
  OBVIOUS
<1>2. new \in [1..Len(page) -> Panel]
  BY <1>1
<1>3. new \in Seq(Panel)
  <2> HIDE DEF new
  <2> QED BY <1>2
<1>4. <<p>> \in Seq(Panel) /\ Append(page, p) \in Seq(Panel)
  OBVIOUS
<1> QED BY <1>3, <1>4 DEF Place

LEMMA StatusType == \A a : AuditStatus(a) \in {"completed", "error"}
BY DEF AuditStatus

LEMMA RecordType ==
  ASSUME TypeOK, NEW s, NEW x \in {"none", "pending", "started", "late", "completed", "error"},
         Audit(s, x)
  PROVE  record' \in [Watched -> {"none", "pending", "started", "late", "completed", "error"}]
BY DEF TypeOK, Audit

LEMMA TypeStep ==
  ASSUME TypeInv, [Next]_vars
  PROVE  TypeOK'
<1> USE Constants DEF TypeInv, client, wire, worker
<1>1. ASSUME NEW r \in Run, NEW k \in {"run", "single", "call"}, NEW n \in 0..MaxStatements, Click(r, k, n)
      PROVE  TypeOK'
  <2>1. inbox' \in [Conn -> Seq(Request)] /\ via' \in [Run -> 0..MaxConns]
    <3>1. CASE Ask(r, "submit") /\ via' = [via EXCEPT ![r] = conn]
      <4>1. conn \in 0..MaxConns
        BY DEF TypeOK, Conn
      <4> QED BY <3>1, <4>1, AskType DEF TypeOK
    <3>2. CASE UNCHANGED <<inbox, via>>
      BY <3>2 DEF TypeOK
    <3> QED BY <1>1, <3>1, <3>2 DEF Click
  <2>2. page' \in Seq(Panel) /\ clicks' \in 0..MaxRuns /\ mark' \in Run
    <3>1. [run |-> r, at |-> 0, busy |-> TRUE] \in Panel
      BY DEF Panel
    <3> QED BY <1>1, <3>1 DEF Click, Run
  <2> QED BY <1>1, <2>1, <2>2 DEF Click, TypeOK
<1>2. ASSUME NEW r \in Run, ClickCancel(r)  PROVE TypeOK'
  <2>1. asks' \in 0..MaxAsks
    BY <1>2 DEF ClickCancel, TypeOK
  <2> QED BY <1>2, <2>1, AskType DEF ClickCancel, TypeOK
<1>3. CASE CloseTab
  <2>1. <<>> \in Seq(Panel) /\ disturbances' \in 0..MaxDisturbances
    BY <1>3 DEF CloseTab, TypeOK
  <2> QED BY <1>3, <2>1 DEF CloseTab, TypeOK
<1>4. CASE OpenTab
  BY <1>4 DEF OpenTab, TypeOK
<1>5. CASE Receive
  <2>1. Head(outbox) \in Answer /\ outbox' \in Seq(Answer)
    BY <1>5 DEF Receive, TypeOK
  <2> DEFINE m == Head(outbox)
  <2>2. [run |-> m.run, at |-> m.at, busy |-> FALSE] \in Panel
    BY <2>1 DEF Answer, Panel
  <2>3. mark' \in Run \cup {NoRun} /\ page' \in Seq(Panel)
    <3> HIDE DEF m
    <3>1. CASE CompleteProgress(m)
      BY <2>2, <3>1, PlaceType DEF CompleteProgress, TypeOK
    <3>2. CASE UNCHANGED <<mark, page>>
      BY <3>2 DEF TypeOK
    <3> QED BY <1>5, <3>1, <3>2 DEF Receive, m
  <2> QED BY <1>5, <2>1, <2>3 DEF Receive, TypeOK
<1>6. CASE Drop
  <2>1. disturbances' \in 0..MaxDisturbances /\ <<>> \in Seq(Answer)
    BY <1>6 DEF Drop, TypeOK
  <2>2. ASSUME NEW k \in 0..Len(inbox[conn])  PROVE SubSeq(inbox[conn], 1, k) \in Seq(Request)
    BY SubSeqProperties DEF TypeOK
  <2>3. inbox' \in [Conn -> Seq(Request)]
    BY <1>6, <2>2 DEF Drop, TypeOK
  <2> QED BY <1>6, <2>1, <2>3 DEF Drop, TypeOK
<1>7. CASE Connect
  BY <1>7 DEF Connect, TypeOK, Conn
<1>8. ASSUME NEW c \in Conn, HandleSubmit(c)  PROVE TypeOK'
  <2>1. inbox' \in [Conn -> Seq(Request)] /\ Head(inbox[c]).run \in Run
    BY <1>8, TakeType DEF HandleSubmit
  <2> DEFINE r == Head(inbox[c]).run
  <2>2. [kind |-> "failed", run |-> r, at |-> 0, index |-> 0] \in Answer
    BY <2>1 DEF Answer, Answers
  <2> HIDE DEF r
  <2>3. CASE UNCHANGED <<pc, outbox>>
    BY <1>8, <2>1, <2>3 DEF HandleSubmit, TypeOK
  <2>4. CASE \E p \in {"queued", "broken"} : pc' = [pc EXCEPT ![r] = p] /\ UNCHANGED <<alive, outbox>>
    BY <1>8, <2>1, <2>4 DEF HandleSubmit, TypeOK
  <2>5. CASE /\ pc' = [pc EXCEPT ![r] = "failed"] /\ UNCHANGED alive
             /\ Send(c, [kind |-> "failed", run |-> r, at |-> 0, index |-> 0])
    BY <1>8, <2>1, <2>2, <2>5, SendType DEF HandleSubmit, TypeOK
  <2> QED BY <1>8, <2>3, <2>4, <2>5 DEF HandleSubmit, r
<1>9. ASSUME NEW c \in Conn, HandleCancel(c)  PROVE TypeOK'
  <2>1. inbox' \in [Conn -> Seq(Request)] /\ Head(inbox[c]).run \in Run
    BY <1>9, TakeType DEF HandleCancel
  <2> DEFINE r == Head(inbox[c]).run
  <2>2. [kind |-> "cancelled", run |-> r, at |-> 0, index |-> 0] \in Answer
    BY <2>1 DEF Answer, Answers
  <2> HIDE DEF r
  <2>3. outbox' \in Seq(Answer) /\ alive' \in [Conn -> BOOLEAN]
    <3>1. CASE Send(c, [kind |-> "cancelled", run |-> r, at |-> 0, index |-> 0]) /\ UNCHANGED alive
      BY <2>2, <3>1, SendType DEF TypeOK
    <3>2. CASE alive' = [alive EXCEPT ![c] = FALSE] /\ UNCHANGED outbox
      BY <3>2 DEF TypeOK
    <3> QED BY <1>9, <3>1, <3>2 DEF HandleCancel, r
  <2> QED BY <1>9, <2>1, <2>3 DEF HandleCancel, TypeOK
<1>10. ASSUME NEW r \in Run, Execute(r)  PROVE TypeOK'
  <2>1. Current(r) \in Stmt
    BY DEF Current, Stmt, TypeOK
  <2> QED BY <1>10, <2>1, RecordType DEF Execute, TypeOK, Step
<1>11. ASSUME NEW r \in Run, SendPage(r)  PROVE TypeOK'
  <2>1. [kind |-> "page", run |-> r, at |-> at[r], index |-> at[r]] \in Answer
    BY DEF Answer, Answers, TypeOK
  <2> QED BY <1>11, <2>1, SendType DEF SendPage, TypeOK, Step
<1>12. ASSUME NEW r \in Run, Finish(r)  PROVE TypeOK'
  <2>1. ans' \in [Run -> Outcome]
    BY <1>12 DEF Finish, TypeOK, Outcome
  <2> QED BY <1>12, <2>1 DEF Finish, TypeOK, Step
<1>13. ASSUME NEW r \in Run, Throw(r)  PROVE TypeOK'
  <2>1. ans' \in [Run -> Outcome]
    BY <1>13 DEF Throw, TypeOK, Outcome
  <2>2. record' \in [Watched -> {"none", "pending", "started", "late", "completed", "error"}]
    BY <1>13, RecordType DEF Throw, TypeOK
  <2> QED BY <1>13, <2>1, <2>2 DEF Throw, TypeOK, Step
<1>14. ASSUME NEW r \in Run, Explain(r)  PROVE TypeOK'
  <2>1. ans' \in [Run -> Outcome]
    BY <1>14 DEF Explain, TypeOK, Outcome
  <2> QED BY <1>14, <2>1 DEF Explain, TypeOK, Step
<1>15. ASSUME NEW r \in Run, Conclude(r)  PROVE TypeOK'
  <2>1. record' \in [Watched -> {"none", "pending", "started", "late", "completed", "error"}]
    <3>1. CASE UNCHANGED record
      BY <3>1 DEF TypeOK
    <3>2. CASE Audit(Current(r), AuditStatus(ans[r]))
      BY <3>2, RecordType, StatusType
    <3> QED BY <1>15, <3>1, <3>2 DEF Conclude
  <2> QED BY <1>15, <2>1 DEF Conclude, TypeOK, Step, Unregister
<1>16. ASSUME NEW r \in Run, ConcludeBreaks(r)  PROVE TypeOK'
  BY <1>16 DEF ConcludeBreaks, TypeOK, Step, Unregister
<1>17. ASSUME NEW r \in Run, Respond(r)  PROVE TypeOK'
  <2>1. outbox' \in Seq(Answer)
    <3>1. CASE ans[r] = "failure"
      <4>1. [kind |-> "failed", run |-> r, at |-> at[r], index |-> 0] \in Answer
        BY DEF Answer, Answers, TypeOK
      <4> QED BY <1>17, <3>1, <4>1, SendType DEF Respond
    <3>2. CASE ans[r] # "failure"
      <4>1. ans[r] \in Answers
        BY <1>17, <3>2 DEF Respond, TypeOK, HasOutcome, Outcome, Answers
      <4>2. PICK i \in Index(r) : Send(via[r], [kind |-> ans[r], run |-> r, at |-> at[r], index |-> i])
        BY <1>17, <3>2 DEF Respond, Reply
      <4>3. i \in 0..MaxStatements
        BY <4>2 DEF Index, TypeOK
      <4>4. [kind |-> ans[r], run |-> r, at |-> at[r], index |-> i] \in Answer
        BY <4>1, <4>3 DEF Answer, TypeOK
      <4> QED BY <4>2, <4>4, SendType
    <3> QED BY <3>1, <3>2
  <2>2. at' \in [Run -> 0..MaxStatements-1]
    <3>1. More(r) => at[r] + 1 \in 0..MaxStatements-1
      BY DEF More, TypeOK
    <3> QED BY <1>17, <3>1 DEF Respond, TypeOK
  <2> QED BY <1>17, <2>1, <2>2 DEF Respond, TypeOK, Step
<1>18. ASSUME NEW s \in Watched, AuditInsert(s)  PROVE TypeOK'
  BY <1>18, RecordType DEF AuditInsert, TypeOK
<1>19. CASE UNCHANGED vars
  BY <1>19 DEF vars, TypeOK
<1> QED BY <1>1, <1>2, <1>3, <1>4, <1>5, <1>6, <1>7, <1>8, <1>9, <1>10, <1>11, <1>12, <1>13, <1>14,
           <1>15, <1>16, <1>17, <1>18, <1>19 DEF Next, Actor, Work, Callback

LEMMA OutcomeStep ==
  ASSUME TypeInv, [Next]_vars
  PROVE  HasOutcome'
<1> USE DEF TypeInv, HasOutcome, client, wire, worker, Step
<1>1. ASSUME NEW c \in Conn, HandleSubmit(c)  PROVE HasOutcome'
  <2>1. Head(inbox[c]).run \in Run
    BY <1>1, TakeType DEF HandleSubmit
  <2> DEFINE r == Head(inbox[c]).run
  <2> HIDE DEF r
  <2>2. ans' = ans /\ \/ pc' = pc \/ \E p \in {"queued", "failed", "broken"} : pc' = [pc EXCEPT ![r] = p]
    BY <1>1 DEF HandleSubmit, r
  <2> QED BY <2>1, <2>2 DEF TypeOK, r
<1>2. ASSUME NEW r \in Run, Work(r) \/ Callback(r)  PROVE HasOutcome'
  <2>1. \A x \in Run \ {r} : pc'[x] = pc[x] /\ ans'[x] = ans[x]
    BY <1>2 DEF Work, Callback, Execute, SendPage, Finish, Throw, Explain, Conclude, ConcludeBreaks,
                Respond, TypeOK
  <2>2. pc'[r] \in {"answered", "concluded"} => ans'[r] # "none"
    BY <1>2 DEF Work, Callback, Execute, SendPage, Finish, Throw, Explain, Conclude, ConcludeBreaks,
                Respond, TypeOK
  <2> QED BY <2>1, <2>2
<1>3. ASSUME UNCHANGED <<pc, ans>>  PROVE HasOutcome'
  BY <1>3
<1> QED BY <1>1, <1>2, <1>3 DEF Next, Actor, Click, ClickCancel, CloseTab, OpenTab, Receive, Drop, Connect,
                                HandleCancel, AuditInsert, vars

----------------------------------------------------------------------------
(* A run is submitted once                                                 *)

\* A request to run r waits at the one connection it was sent on, once, and r is idle.
Waits(c, k, r) ==
  /\ r <= clicks /\ via[r] = c /\ pc[r] = "idle"
  /\ \A j \in 1..Len(inbox[c]) : inbox[c][j] = Submitted(r) => j = k

Fresh ==
  /\ \A r \in Run : r > clicks => pc[r] = "idle" /\ via[r] = 0
  /\ \A r \in Run : pc[r] = "idle" => at[r] = 0
  /\ \A c \in Conn, r \in Run : \A k \in 1..Len(inbox[c]) :
       inbox[c][k] = Submitted(r) => Waits(c, k, r)

LEMMA FreshInit == Init => Fresh
<1>1. Len(<<>>) = 0
  OBVIOUS
<1> QED BY <1>1, Constants DEF Init, Fresh

\* What happens to a queue of requests.
Grown(c, m) ==
  /\ \A d \in Conn \ {c} : inbox'[d] = inbox[d]
  /\ c \in Conn /\ Len(inbox[c]) \in Nat
  /\ Len(inbox'[c]) = Len(inbox[c]) + 1
  /\ \A k \in 1..Len(inbox[c]) : inbox'[c][k] = inbox[c][k]
  /\ inbox'[c][Len(inbox[c]) + 1] = m

Shrunk(c, m) ==
  /\ \A d \in Conn \ {c} : inbox'[d] = inbox[d]
  /\ Len(inbox[c]) \in Nat /\ Len(inbox[c]) > 0 /\ Len(inbox'[c]) = Len(inbox[c]) - 1
  /\ \A k \in 1..Len(inbox'[c]) : inbox'[c][k] = inbox[c][k + 1]
  /\ inbox[c][1] = m

LEMMA AskEffect ==
  ASSUME TypeOK, NEW r \in Run, NEW x, Ask(r, x)
  PROVE  Grown(conn, [kind |-> x, run |-> r])
<1>1. conn \in Conn /\ inbox[conn] \in Seq(Request)
  BY DEF TypeOK
<1>2. inbox'[conn] = Append(inbox[conn], [kind |-> x, run |-> r])
  BY <1>1 DEF Ask, TypeOK
<1>3. \A c \in Conn \ {conn} : inbox'[c] = inbox[c]
  BY DEF Ask, TypeOK
<1> QED BY <1>1, <1>2, <1>3 DEF Grown

LEMMA TakeEffect ==
  ASSUME TypeOK, NEW c \in Conn, NEW x, Take(c, x)
  PROVE  Shrunk(c, [kind |-> x, run |-> Head(inbox[c]).run])
<1>1. inbox[c] \in Seq(Request) /\ inbox[c] # <<>> /\ inbox'[c] = Tail(inbox[c])
  BY DEF TypeOK, Take
<1>2. inbox[c][1] \in Request /\ inbox[c][1] = Head(inbox[c]) /\ inbox[c][1].kind = x
  BY <1>1 DEF Take
<1>3. inbox[c][1] = [kind |-> x, run |-> Head(inbox[c]).run]
  BY <1>2 DEF Request
<1>4. \A d \in Conn \ {c} : inbox'[d] = inbox[d]
  BY DEF Take, TypeOK
<1> QED BY <1>1, <1>3, <1>4 DEF Shrunk

\* A request that is still there after one was added, or taken, was there before.
LEMMA GrownFrom ==
  ASSUME NEW c, NEW m, Grown(c, m), NEW d \in Conn, NEW j \in 1..Len(inbox'[d]), inbox'[d][j] # m
  PROVE  j \in 1..Len(inbox[d]) /\ inbox'[d][j] = inbox[d][j]
<1>1. CASE d # c
  BY <1>1 DEF Grown
<1>2. CASE d = c
  <2>1. j # Len(inbox[c]) + 1 /\ Len(inbox[c]) \in Nat /\ j \in 1..(Len(inbox[c]) + 1)
    BY <1>2 DEF Grown
  <2>2. j \in 1..Len(inbox[c])
    BY <2>1
  <2> QED BY <1>2, <2>2 DEF Grown
<1> QED BY <1>1, <1>2

LEMMA ShrunkFrom ==
  ASSUME NEW c, NEW m, Shrunk(c, m), NEW j \in 1..Len(inbox'[c])
  PROVE  j + 1 \in 1..Len(inbox[c]) /\ inbox'[c][j] = inbox[c][j + 1] /\ 1 \in 1..Len(inbox[c])
<1>1. Len(inbox[c]) \in Nat /\ Len(inbox[c]) > 0 /\ j \in 1..(Len(inbox[c]) - 1)
  BY DEF Shrunk
<1>2. j + 1 \in 1..Len(inbox[c]) /\ 1 \in 1..Len(inbox[c])
  BY <1>1
<1> QED BY <1>2 DEF Shrunk

LEMMA FreshStep ==
  ASSUME TypeInv, Fresh, [Next]_vars
  PROVE  Fresh'
<1> USE Constants DEF TypeInv, client, wire, worker, Step
<1>1. ASSUME NEW r \in Run, NEW k \in {"run", "single", "call"}, NEW n \in 0..MaxStatements, Click(r, k, n)
      PROVE  Fresh'
  <2>1. r = clicks + 1 /\ clicks' = r /\ UNCHANGED <<pc, at>> /\ clicks \in Nat /\ Run \subseteq Nat
    BY <1>1 DEF Click, TypeOK, Run
  <2>2. \A x \in Run \ {r} : via'[x] = via[x]
    BY <1>1 DEF Click, TypeOK
  <2>3. \A x \in Run : x > clicks' => pc'[x] = "idle" /\ via'[x] = 0
    BY <2>1, <2>2 DEF Fresh
  <2>4. ASSUME NEW c \in Conn, NEW x \in Run, NEW j \in 1..Len(inbox'[c]), inbox'[c][j] = Submitted(x)
        PROVE  Waits(c, j, x)'
    <3>1. CASE Ask(r, "submit") /\ via' = [via EXCEPT ![r] = conn]
      <4>1. Ask(r, "submit") /\ via' = [via EXCEPT ![r] = conn]
        BY <3>1
      <4>2. Grown(conn, Submitted(r))
        BY <4>1, AskEffect DEF Submitted
      <4>3. ASSUME NEW d \in Conn, NEW i \in 1..Len(inbox[d])  PROVE inbox[d][i] # Submitted(r)
        BY <2>1, <4>3 DEF Fresh, Waits
      <4>4. \A i \in 1..Len(inbox'[c]) : inbox'[c][i] = Submitted(r) => c = conn /\ i = Len(inbox[c]) + 1
        <5>1. CASE c = conn
          <6>1. Len(inbox'[c]) = Len(inbox[c]) + 1 /\ Len(inbox[c]) \in Nat
            BY <4>2, <5>1 DEF Grown
          <6>2. \A i \in 1..Len(inbox[c]) : inbox'[c][i] # Submitted(r)
            BY <4>2, <4>3, <5>1 DEF Grown
          <6> QED BY <5>1, <6>1, <6>2
        <5>2. CASE c # conn
          BY <4>2, <4>3, <5>2 DEF Grown
        <5> QED BY <5>1, <5>2
      <4>5. CASE x = r
        <5>1. c = conn /\ via'[r] = c
          BY <2>4, <4>1, <4>4, <4>5 DEF TypeOK
        <5>2. pc'[r] = "idle"
          BY <2>1 DEF Fresh
        <5> QED BY <2>1, <2>4, <4>4, <4>5, <5>1, <5>2 DEF Waits, Submitted
      <4>6. CASE x # r
        <5>1. Submitted(x) # Submitted(r)
          BY <4>6 DEF Submitted
        <5>2. \A i \in 1..Len(inbox'[c]) : inbox'[c][i] = Submitted(x) =>
                i \in 1..Len(inbox[c]) /\ inbox[c][i] = Submitted(x)
          BY <4>2, <5>1, GrownFrom
        <5>3. Waits(c, j, x)
          BY <2>4, <5>2 DEF Fresh
        <5>4. \A i \in 1..Len(inbox'[c]) : inbox'[c][i] = Submitted(x) => i = j
          BY <5>2, <5>3 DEF Waits
        <5>5. x <= clicks' /\ via'[x] = c /\ pc'[x] = "idle"
          BY <2>1, <2>2, <4>6, <5>3 DEF Waits
        <5> QED BY <5>4, <5>5 DEF Waits, Submitted
      <4> QED BY <4>5, <4>6
    <3>2. CASE UNCHANGED <<inbox, via>>
      BY <2>1, <2>4, <3>2 DEF Waits, Fresh, Submitted
    <3> QED BY <1>1, <3>1, <3>2 DEF Click
  <2> QED BY <2>1, <2>3, <2>4 DEF Fresh, Submitted
<1>2. ASSUME NEW r \in Run, ClickCancel(r)  PROVE Fresh'
  <2>1. Ask(r, "cancel") /\ UNCHANGED <<clicks, via, pc, at>>
    BY <1>2 DEF ClickCancel
  <2>2. ASSUME NEW c \in Conn, NEW x \in Run, NEW j \in 1..Len(inbox'[c]), inbox'[c][j] = Submitted(x)
        PROVE  Waits(c, j, x)'
    <3>1. \A i \in 1..Len(inbox'[c]) : inbox'[c][i] = Submitted(x) =>
            i \in 1..Len(inbox[c]) /\ inbox[c][i] = Submitted(x)
      <4>1. Grown(conn, [kind |-> "cancel", run |-> r])
        BY <2>1, AskEffect
      <4>2. Submitted(x) # [kind |-> "cancel", run |-> r]
        BY DEF Submitted
      <4> QED BY <4>1, <4>2, GrownFrom
    <3>2. Waits(c, j, x)
      BY <2>2, <3>1 DEF Fresh
    <3> QED BY <2>1, <3>1, <3>2 DEF Waits, Submitted
  <2> QED BY <2>1, <2>2 DEF Fresh, Submitted
<1>3. CASE Drop
  <2>1. PICK n \in 0..Len(inbox[conn]) : inbox' = [inbox EXCEPT ![conn] = SubSeq(@, 1, n)]
    BY <1>3 DEF Drop
  <2>2. UNCHANGED <<clicks, via, pc, at>>
    BY <1>3 DEF Drop
  <2>3. conn \in Conn /\ inbox[conn] \in Seq(Request) /\ Len(inbox[conn]) \in Nat
    BY DEF TypeOK
  <2>4. \A c \in Conn : \A i \in 1..Len(inbox'[c]) :
          i \in 1..Len(inbox[c]) /\ inbox'[c][i] = inbox[c][i]
    <3>1. /\ Len(SubSeq(inbox[conn], 1, n)) = n
          /\ \A i \in 1..n : SubSeq(inbox[conn], 1, n)[i] = inbox[conn][i]
      BY <2>3, SubSeqProperties
    <3> QED BY <2>1, <2>3, <3>1 DEF TypeOK
  <2> QED BY <2>2, <2>4 DEF Fresh, Waits, Submitted
<1>4. ASSUME NEW c \in Conn, HandleSubmit(c)  PROVE Fresh'
  <2> DEFINE r == Head(inbox[c]).run
  <2>1. Take(c, "submit") /\ r \in Run /\ Shrunk(c, Submitted(r)) /\ 1 \in 1..Len(inbox[c])
    <3>1. Shrunk(c, Submitted(r))
      BY <1>4, TakeEffect DEF HandleSubmit, Submitted
    <3>2. 1 \in 1..Len(inbox[c])
      BY <3>1 DEF Shrunk
    <3> QED BY <1>4, <3>1, <3>2, TakeType DEF HandleSubmit
  <2> HIDE DEF r
  <2>2. /\ UNCHANGED <<clicks, via, at>>
        /\ pc' = pc \/ \E p \in {"queued", "failed", "broken"} : pc' = [pc EXCEPT ![r] = p]
    BY <1>4 DEF HandleSubmit, r
  <2>3. Waits(c, 1, r)
    BY <2>1 DEF Fresh, Shrunk
  <2>4. \A x \in Run \ {r} : pc'[x] = pc[x]
    BY <2>2 DEF TypeOK
  <2>5. pc'[r] = "idle" => pc[r] = "idle"
    BY <2>1, <2>2 DEF TypeOK
  <2>6. ASSUME NEW d \in Conn, NEW x \in Run, NEW j \in 1..Len(inbox'[d]), inbox'[d][j] = Submitted(x)
        PROVE  Waits(d, j, x)'
    <3>1. CASE d = c
      <4>1. \A i \in 1..Len(inbox'[c]) : i + 1 \in 1..Len(inbox[c]) /\ inbox'[c][i] = inbox[c][i + 1]
        BY <2>1, ShrunkFrom
      <4>2. Waits(c, j + 1, x)
        BY <2>6, <3>1, <4>1 DEF Fresh
      <4>3. x # r
        <5>1. inbox[c][1] = Submitted(r) /\ j + 1 # 1
          BY <2>1, <3>1 DEF Shrunk
        <5> QED BY <2>1, <3>1, <4>2, <5>1 DEF Waits
      <4> QED BY <2>2, <2>4, <3>1, <4>1, <4>2, <4>3 DEF Waits, Submitted
    <3>2. CASE d # c
      <4>1. inbox'[d] = inbox[d]
        BY <2>1, <3>2 DEF Shrunk
      <4>2. Waits(d, j, x)
        BY <2>6, <4>1 DEF Fresh
      <4>3. x # r
        BY <2>3, <3>2, <4>2 DEF Waits
      <4> QED BY <2>2, <2>4, <4>1, <4>2, <4>3 DEF Waits, Submitted
    <3> QED BY <3>1, <3>2
  <2>7. \A x \in Run : x > clicks' => pc'[x] = "idle" /\ via'[x] = 0
    <3>1. Run \subseteq Nat /\ clicks \in Nat
      BY DEF Run, TypeOK
    <3>2. r <= clicks
      BY <2>3 DEF Waits
    <3>3. \A x \in Run : x > clicks => x # r
      BY <2>1, <3>1, <3>2
    <3>4. clicks' = clicks /\ via' = via
      BY <2>2
    <3>5. \A x \in Run : x > clicks => pc[x] = "idle" /\ via[x] = 0
      BY DEF Fresh
    <3> QED BY <2>4, <3>3, <3>4, <3>5
  <2> QED BY <2>2, <2>4, <2>5, <2>6, <2>7 DEF Fresh, Submitted
<1>5. ASSUME NEW c \in Conn, HandleCancel(c)  PROVE Fresh'
  <2>1. Shrunk(c, [kind |-> "cancel", run |-> Head(inbox[c]).run]) /\ UNCHANGED <<clicks, via, pc, at>>
    BY <1>5, TakeEffect DEF HandleCancel
  <2>2. ASSUME NEW d \in Conn, NEW x \in Run, NEW j \in 1..Len(inbox'[d]), inbox'[d][j] = Submitted(x)
        PROVE  Waits(d, j, x)'
    <3>1. CASE d = c
      <4>1. \A i \in 1..Len(inbox'[c]) : i + 1 \in 1..Len(inbox[c]) /\ inbox'[c][i] = inbox[c][i + 1]
        BY <2>1, ShrunkFrom
      <4>2. Waits(c, j + 1, x)
        BY <2>2, <3>1, <4>1 DEF Fresh
      <4>3. ASSUME NEW i \in 1..Len(inbox'[c]), inbox'[c][i] = Submitted(x)  PROVE i = j
        <5>1. i + 1 = j + 1
          BY <4>1, <4>2, <4>3 DEF Waits
        <5> QED BY <5>1
      <4> QED BY <2>1, <3>1, <4>2, <4>3 DEF Waits, Submitted
    <3>2. CASE d # c
      <4>1. inbox'[d] = inbox[d]
        BY <2>1, <3>2 DEF Shrunk
      <4> QED BY <2>1, <2>2, <4>1 DEF Fresh, Waits, Submitted
    <3> QED BY <3>1, <3>2
  <2> QED BY <2>1, <2>2 DEF Fresh, Submitted
<1>6. ASSUME NEW r \in Run, Work(r) \/ Callback(r)  PROVE Fresh'
  <2>1. /\ pc[r] # "idle" /\ pc'[r] # "idle"
        /\ \A x \in Run \ {r} : pc'[x] = pc[x] /\ at'[x] = at[x]
    BY <1>6 DEF Work, Callback, Execute, SendPage, Finish, Throw, Explain, Conclude, ConcludeBreaks,
                Respond, TypeOK
  <2>2. UNCHANGED <<clicks, via, inbox>>
    BY <1>6 DEF Work, Callback, Execute, SendPage, Finish, Throw, Explain, Conclude, ConcludeBreaks, Respond
  <2> QED BY <2>1, <2>2 DEF Fresh, Waits, Submitted
<1>7. ASSUME UNCHANGED <<clicks, via, inbox, pc, at>>  PROVE Fresh'
  BY <1>7 DEF Fresh, Waits, Submitted
<1> QED BY <1>1, <1>2, <1>3, <1>4, <1>5, <1>6, <1>7
        DEF Next, Actor, CloseTab, OpenTab, Receive, Connect, AuditInsert, vars

----------------------------------------------------------------------------
(* The table of running statements                                         *)

\* Of a run at a time its table entry: TableIsRight, and what it rests on.
TableAt(r) ==
  /\ pc[r] \in {"executing", "paged"} => Current(r) \in active
  /\ \A s \in active : s[1] = r =>
       /\ s = Current(r) /\ kind[r] = "run"
       /\ pc[r] \in {"executing", "paged", "answered"} \/ ans[r] = "failure"
  /\ ans[r] = "failure" => pc[r] \in {"answered", "concluded", "failed", "broken"}

TableInv == \A r \in Run : TableAt(r)

LEMMA TableInit == Init => TableInv
BY DEF Init, TableInv, TableAt

\* What the step of one run leaves alone of another.
LEMMA TableFrame ==
  ASSUME NEW q, TableAt(q), pc'[q] = pc[q], at'[q] = at[q], ans'[q] = ans[q], kind'[q] = kind[q],
         \A s : s[1] = q => (s \in active' <=> s \in active)
  PROVE  TableAt(q)'
<1>1. Current(q)' = Current(q) /\ Current(q)[1] = q
  BY DEF Current
<1> QED BY <1>1 DEF TableAt

LEMMA TableStep ==
  ASSUME TypeInv, Fresh, TableInv, [Next]_vars
  PROVE  TableInv'
<1> SUFFICES ASSUME NEW q \in Run  PROVE TableAt(q)'
  BY DEF TableInv
<1> USE DEF TypeInv, client, wire, worker, Step
<1>0. TableAt(q)
  BY DEF TableInv
<1>1. ASSUME NEW r \in Run, NEW k \in {"run", "single", "call"}, NEW n \in 0..MaxStatements, Click(r, k, n)
      PROVE  TableAt(q)'
  <2>1. UNCHANGED <<pc, at, ans, active>> /\ r > clicks /\ (q # r => kind'[q] = kind[q])
    BY <1>1 DEF Click, TypeOK
  <2>2. CASE q # r
    BY <1>0, <2>1, <2>2, TableFrame
  <2>3. CASE q = r
    <3>1. pc[q] = "idle"
      BY <2>1, <2>3 DEF Fresh
    <3> QED BY <1>0, <2>1, <3>1 DEF TableAt, Current
  <2> QED BY <2>2, <2>3
<1>2. ASSUME NEW c \in Conn, HandleSubmit(c)  PROVE TableAt(q)'
  <2> DEFINE r == Head(inbox[c]).run
  <2>1. r \in Run /\ inbox[c][1] = Submitted(r) /\ 1 \in 1..Len(inbox[c])
    <3>1. Shrunk(c, Submitted(r))
      BY <1>2, TakeEffect DEF HandleSubmit, Submitted
    <3>2. 1 \in 1..Len(inbox[c])
      BY <3>1 DEF Shrunk
    <3> QED BY <1>2, <3>1, <3>2, TakeType DEF HandleSubmit, Shrunk
  <2> HIDE DEF r
  <2>2. pc[r] = "idle"
    BY <2>1 DEF Fresh, Waits
  <2>3. UNCHANGED <<at, ans, kind, active>>
    BY <1>2 DEF HandleSubmit
  <2>4. pc' = pc \/ \E p \in {"queued", "failed", "broken"} : pc' = [pc EXCEPT ![r] = p]
    BY <1>2 DEF HandleSubmit, r
  <2>5. CASE q # r
    BY <1>0, <2>3, <2>4, <2>5, TableFrame DEF TypeOK
  <2>6. CASE q = r
    <3>1. pc'[q] \in {"idle", "queued", "failed", "broken"}
      BY <2>1, <2>2, <2>4, <2>6 DEF TypeOK
    <3> QED BY <1>0, <2>2, <2>3, <2>6, <3>1 DEF TableAt, Current
  <2> QED BY <2>5, <2>6
<1>3. ASSUME NEW r \in Run, Work(r) \/ Callback(r)  PROVE TableAt(q)'
  <2>1. CASE q # r
    <3>1. pc'[q] = pc[q] /\ at'[q] = at[q] /\ ans'[q] = ans[q] /\ kind'[q] = kind[q]
      BY <1>3, <2>1 DEF Work, Callback, Execute, SendPage, Finish, Throw, Explain, Conclude,
                        ConcludeBreaks, Respond, TypeOK
    <3>2. active' \in {active, active \cup {Current(r)}, active \ {Current(r)}}
      BY <1>3 DEF Work, Callback, Execute, SendPage, Finish, Throw, Explain, Conclude,
                  ConcludeBreaks, Respond, Unregister
    <3>3. \A s : s[1] = q => s # Current(r)
      BY <2>1 DEF Current
    <3> QED BY <1>0, <3>1, <3>2, <3>3, TableFrame
  <2>2. CASE q = r
    <3> USE DEF TableAt, Current, TypeOK
    <3>1. CASE Execute(q)
      BY <1>0, <3>1 DEF Execute
    <3>2. CASE SendPage(q)
      BY <1>0, <3>2 DEF SendPage
    <3>3. CASE Finish(q)
      BY <1>0, <3>3 DEF Finish
    <3>4. CASE Throw(q)
      BY <1>0, <3>4 DEF Throw
    <3>5. CASE Explain(q)
      BY <1>0, <3>5 DEF Explain
    <3>6. CASE Conclude(q)
      BY <1>0, <3>6 DEF Conclude, Unregister
    <3>7. CASE ConcludeBreaks(q)
      BY <1>0, <3>7 DEF ConcludeBreaks, Unregister
    <3>8. CASE Respond(q)
      BY <1>0, <3>8 DEF Respond
    <3> QED BY <1>3, <2>2, <3>1, <3>2, <3>3, <3>4, <3>5, <3>6, <3>7, <3>8 DEF Work, Callback
  <2> QED BY <2>1, <2>2
<1>4. ASSUME UNCHANGED <<pc, at, ans, kind, active>>  PROVE TableAt(q)'
  BY <1>0, <1>4, TableFrame
<1> QED BY <1>1, <1>2, <1>3, <1>4 DEF Next, Actor, ClickCancel, CloseTab, OpenTab, Receive, Drop, Connect,
                                      HandleCancel, AuditInsert, vars

----------------------------------------------------------------------------
(* The audit records                                                       *)

\* A record is there once its statement was begun, and settled once it was concluded.
RecordAt(s) ==
  /\ record[s] # "none" =>
       /\ kind[s[1]] = "run"
       /\ at[s[1]] > s[2] \/ (at[s[1]] = s[2] /\ pc[s[1]] \notin {"idle", "queued"})
  /\ record[s] \in {"completed", "error", "late"} => Updated(s)
  /\ record[s] = "started" => ~Updated(s)
  /\ s[2] = at[s[1]] =>
       /\ record[s] = "completed" => ans[s[1]] \in {"result", "count"}
       /\ record[s] = "error" => ans[s[1]] \in {"error", "failure"}

RecordInv == \A s \in Watched : RecordAt(s)

LEMMA RecordInit == Init => RecordInv
BY DEF Init, RecordInv, RecordAt

LEMMA Watch ==
  ASSUME NEW s \in Watched
  PROVE  /\ s[1] \in Run /\ s[2] \in 0..MaxStatements-1 /\ s[2] \in Nat
         /\ \A r : s = Current(r) <=> s[1] = r /\ s[2] = at[r]
<1>1. s \in Run \X (0..MaxStatements-1)
  BY Constants DEF Stmt
<1> QED BY <1>1, Constants DEF Current

LEMMA RecordFrame ==
  ASSUME NEW s, RecordAt(s), record'[s] = record[s], pc'[s[1]] = pc[s[1]], at'[s[1]] = at[s[1]],
         ans'[s[1]] = ans[s[1]], kind'[s[1]] = kind[s[1]]
  PROVE  RecordAt(s)'
BY DEF RecordAt, Updated

LEMMA RecordStep ==
  ASSUME TypeInv, Fresh, RecordInv, [Next]_vars
  PROVE  RecordInv'
<1> SUFFICES ASSUME NEW s \in Watched  PROVE RecordAt(s)'
  BY DEF RecordInv
<1> DEFINE q == s[1]
<1> USE DEF TypeInv, client, wire, worker, Step
<1>0. RecordAt(s) /\ q \in Run /\ s[2] \in Nat /\ at[q] \in Nat
  BY Watch, Constants DEF RecordInv, TypeOK
<1>1. ASSUME NEW r \in Run, NEW k \in {"run", "single", "call"}, NEW n \in 0..MaxStatements, Click(r, k, n)
      PROVE  RecordAt(s)'
  <2>1. UNCHANGED <<pc, at, ans, record>> /\ r > clicks /\ (q # r => kind'[q] = kind[q])
    BY <1>0, <1>1 DEF Click, TypeOK
  <2>2. CASE q # r
    BY <1>0, <2>1, <2>2, RecordFrame
  <2>3. CASE q = r
    <3>1. pc[q] = "idle" /\ at[q] = 0
      BY <1>0, <2>1, <2>3 DEF Fresh
    <3>2. record[s] = "none"
      BY <1>0, <3>1 DEF RecordAt
    <3> QED BY <1>0, <2>1, <3>1, <3>2 DEF RecordAt
  <2> QED BY <2>2, <2>3
<1>2. ASSUME NEW c \in Conn, HandleSubmit(c)  PROVE RecordAt(s)'
  <2> DEFINE r == Head(inbox[c]).run
  <2>1. r \in Run /\ inbox[c][1] = Submitted(r) /\ 1 \in 1..Len(inbox[c])
    <3>1. Shrunk(c, Submitted(r))
      BY <1>2, TakeEffect DEF HandleSubmit, Submitted
    <3>2. 1 \in 1..Len(inbox[c])
      BY <3>1 DEF Shrunk
    <3> QED BY <1>2, <3>1, <3>2, TakeType DEF HandleSubmit, Shrunk
  <2> HIDE DEF r
  <2>2. pc[r] = "idle" /\ at[r] = 0
    BY <2>1 DEF Fresh, Waits
  <2>3. UNCHANGED <<at, ans, kind, record>>
    BY <1>2 DEF HandleSubmit
  <2>4. pc' = pc \/ \E p \in {"queued", "failed", "broken"} : pc' = [pc EXCEPT ![r] = p]
    BY <1>2 DEF HandleSubmit, r
  <2>5. CASE q # r
    <3>1. pc'[q] = pc[q]
      BY <1>0, <2>4, <2>5 DEF TypeOK
    <3> QED BY <1>0, <2>3, <3>1, RecordFrame
  <2>6. CASE q = r
    <3>1. record[s] = "none"
      BY <1>0, <2>2, <2>6 DEF RecordAt
    <3> QED BY <2>3, <3>1 DEF RecordAt
  <2> QED BY <2>5, <2>6
<1>3. ASSUME NEW r \in Run, Work(r) \/ Callback(r)  PROVE RecordAt(s)'
  <2>1. CASE q # r
    <3>1. pc'[q] = pc[q] /\ at'[q] = at[q] /\ ans'[q] = ans[q] /\ kind'[q] = kind[q]
      BY <1>0, <1>3, <2>1 DEF Work, Callback, Execute, SendPage, Finish, Throw, Explain, Conclude,
                              ConcludeBreaks, Respond, TypeOK
    <3>2. UNCHANGED record \/ \E x : Audit(Current(r), x)
      BY <1>3 DEF Work, Callback, Execute, SendPage, Finish, Throw, Explain, Conclude,
                  ConcludeBreaks, Respond
    <3>3. s # Current(r)
      BY <2>1 DEF Current
    <3>4. record'[s] = record[s]
      BY <3>2, <3>3 DEF Audit, TypeOK
    <3> QED BY <1>0, <3>1, <3>4, RecordFrame
  <2>2. CASE q = r
    <3>0. s[2] = at[q] <=> s = Current(q)
      BY Watch
    <3> USE DEF TypeOK
    <3> HIDE DEF q
    <3>1. CASE Execute(q)
      BY <1>0, <3>0, <3>1 DEF Execute, RecordAt, Updated, Audit, q
    <3>2. CASE SendPage(q)
      BY <1>0, <3>2 DEF SendPage, RecordAt, Updated, q
    <3>3. CASE Finish(q)
      BY <1>0, <3>3 DEF Finish, RecordAt, Updated, q
    <3>4. CASE Throw(q)
      BY <1>0, <3>0, <3>4 DEF Throw, RecordAt, Updated, Audit, q
    <3>5. CASE Explain(q)
      BY <1>0, <3>5 DEF Explain, RecordAt, Updated, q
    <3>6. CASE Conclude(q)
      BY <1>0, <3>0, <3>6 DEF Conclude, RecordAt, Updated, Audit, AuditStatus, HasOutcome, Outcome, q
    <3>7. CASE ConcludeBreaks(q)
      BY <1>0, <3>7 DEF ConcludeBreaks, RecordAt, Updated, q
    <3>8. CASE Respond(q)
      <4>1. /\ UNCHANGED <<record, kind, ans>> /\ q \in Run
            /\ pc[q] = "concluded" \/ (pc[q] = "answered" /\ kind[q] = "single")
            /\ \/ pc'[q] \in {"done", "failed"} /\ at'[q] = at[q]
               \/ pc'[q] = "queued" /\ at'[q] = at[q] + 1
        BY <1>0, <3>8 DEF Respond, q
      <4>2. CASE record[s] = "none"
        BY <1>0, <4>1, <4>2 DEF RecordAt, q
      <4>3. CASE record[s] # "none"
        <5>1. Updated(s) /\ pc[q] = "concluded"
          BY <1>0, <4>1, <4>3 DEF RecordAt, Updated, q
        <5>2. Updated(s)' /\ (at'[q] = s[2] => at'[q] = at[q])
              /\ (at'[q] > s[2] \/ (at'[q] = s[2] /\ pc'[q] \notin {"idle", "queued"}))
          BY <1>0, <4>1, <4>3, <5>1 DEF RecordAt, Updated, q
        <5> QED BY <1>0, <4>1, <5>1, <5>2 DEF RecordAt, q
      <4> QED BY <4>2, <4>3
    <3> QED BY <1>3, <2>2, <3>1, <3>2, <3>3, <3>4, <3>5, <3>6, <3>7, <3>8 DEF Work, Callback
  <2> QED BY <2>1, <2>2
<1>4. ASSUME NEW t \in Watched, AuditInsert(t)  PROVE RecordAt(s)'
  BY <1>0, <1>4, RecordFrame DEF AuditInsert, Audit, RecordAt, Updated, TypeOK
<1>5. ASSUME UNCHANGED <<pc, at, ans, kind, record>>  PROVE RecordAt(s)'
  BY <1>0, <1>5, RecordFrame
<1> QED BY <1>1, <1>2, <1>3, <1>4, <1>5 DEF Next, Actor, ClickCancel, CloseTab, OpenTab, Receive, Drop,
                                            Connect, HandleCancel, vars

----------------------------------------------------------------------------
(* The mark of the tab                                                     *)

Asked(r)    == \E k \in 1..Len(inbox[conn]) : inbox[conn][k] = Submitted(r)
Answering(r) == \E k \in 1..Len(outbox) : outbox[k].run = r /\ Lifts(outbox[k])

\* The first answer of r is still to be sent: a row count follows its page.
Begun(r) ==
  /\ at[r] = 0
  /\ pc[r] \in {"queued", "executing"} \/ (pc[r] \in {"answered", "concluded"} /\ ans[r] # "count")

MarkAt(r) == Excused(r) \/ Asked(r) \/ Begun(r) \/ Answering(r)

MarkInv == \A r \in Run : mark = r => MarkAt(r)

\* A run was sent on a connection there was; a tab that is closed left its mark.
Around ==
  /\ \A r \in Run : via[r] <= conn
  /\ ~tab => mark \in away \cup {NoRun}

LEMMA MarkInit == Init => MarkInv /\ Around
BY Constants DEF Init, MarkInv, Around

LEMMA AskedKept ==
  ASSUME NEW c, NEW m, Shrunk(c, m), conn' = conn, conn \in Conn, NEW r, m # Submitted(r), Asked(r)
  PROVE  Asked(r)'
<1>1. PICK k \in 1..Len(inbox[conn]) : inbox[conn][k] = Submitted(r)
  BY DEF Asked
<1>2. CASE conn # c
  BY <1>1, <1>2 DEF Shrunk, Asked, Submitted
<1>3. CASE conn = c
  <2>1. k # 1
    BY <1>1, <1>3 DEF Shrunk
  <2>2. k - 1 \in 1..Len(inbox'[c])
    BY <1>3, <2>1 DEF Shrunk
  <2>3. inbox'[c][k - 1] = inbox[c][(k - 1) + 1]
    BY <2>2 DEF Shrunk
  <2>4. (k - 1) + 1 = k
    OBVIOUS
  <2> QED BY <1>1, <1>3, <2>2, <2>3, <2>4 DEF Asked, Submitted
<1> QED BY <1>2, <1>3

LEMMA AskedGrown ==
  ASSUME NEW m, Grown(conn, m), conn' = conn, NEW r, Asked(r) \/ m = Submitted(r)
  PROVE  Asked(r)'
<1>1. /\ Len(inbox[conn]) \in Nat /\ Len(inbox'[conn]) = Len(inbox[conn]) + 1
      /\ inbox'[conn][Len(inbox[conn]) + 1] = m
  BY DEF Grown
<1>2. CASE m = Submitted(r)
  <2>1. Len(inbox[conn]) + 1 \in 1..Len(inbox'[conn])
    BY <1>1
  <2> QED BY <1>1, <1>2, <2>1 DEF Asked, Submitted
<1>3. CASE Asked(r)
  <2>1. PICK k \in 1..Len(inbox[conn]) : inbox[conn][k] = Submitted(r)
    BY <1>3 DEF Asked
  <2>2. k \in 1..Len(inbox'[conn]) /\ inbox'[conn][k] = Submitted(r)
    BY <1>1, <2>1 DEF Grown
  <2> QED BY <2>2 DEF Asked, Submitted
<1> QED BY <1>2, <1>3

LEMMA AnsweringKept ==
  ASSUME TypeOK, NEW c, NEW m \in Answer, Send(c, m), NEW r,
         Answering(r) \/ (up /\ c = conn /\ m.run = r /\ Lifts(m))
  PROVE  Answering(r)'
<1>1. outbox \in Seq(Answer) /\ Len(outbox) \in Nat
  BY DEF TypeOK
<1>2. /\ \A k \in 1..Len(outbox) : k \in 1..Len(outbox') /\ outbox'[k] = outbox[k]
      /\ up /\ c = conn => /\ Len(outbox) + 1 \in 1..Len(outbox')
                           /\ outbox'[Len(outbox) + 1] = m
  BY <1>1 DEF Send
<1> QED BY <1>1, <1>2 DEF Answering, Lifts

LEMMA AroundStep ==
  ASSUME TypeInv, Around, [Next]_vars
  PROVE  Around'
<1> USE DEF TypeInv, client, wire, worker, Around
<1>1. conn \in Nat /\ \A r \in Run : via[r] \in Nat
  BY Constants DEF TypeOK, Conn
<1>2. CASE Connect
  BY <1>1, <1>2 DEF Connect
<1>3. ASSUME NEW r \in Run, NEW k \in {"run", "single", "call"}, NEW n \in 0..MaxStatements, Click(r, k, n)
      PROVE  Around'
  <2>1. /\ tab /\ tab' = tab /\ conn' = conn
        /\ via' = via \/ via' = [via EXCEPT ![r] = conn]
    BY <1>3 DEF Click
  <2>2. \A q \in Run : via'[q] = via[q] \/ via'[q] = conn
    BY <2>1 DEF TypeOK
  <2>3. \A q \in Run : via'[q] <= conn'
    BY <1>1, <2>1, <2>2
  <2> QED BY <2>1, <2>3
<1>4. CASE CloseTab
  BY <1>4 DEF CloseTab, TypeOK
<1>5. CASE OpenTab
  BY <1>5 DEF OpenTab
<1>6. CASE Receive
  BY <1>6 DEF Receive, CompleteProgress
<1>7. ASSUME UNCHANGED <<via, conn, tab, mark, away>>  PROVE Around'
  BY <1>7
<1> QED BY <1>2, <1>3, <1>4, <1>5, <1>6, <1>7
        DEF Next, Actor, Work, Callback, ClickCancel, Drop, HandleSubmit, HandleCancel, Execute, SendPage,
            Finish, Throw, Explain, Conclude, ConcludeBreaks, Respond, AuditInsert, vars

LEMMA MarkStep ==
  ASSUME TypeInv, Fresh, MarkInv, Around, [Next]_vars
  PROVE  MarkInv'
<1> SUFFICES ASSUME NEW q \in Run, mark' = q  PROVE MarkAt(q)'
  BY DEF MarkInv
<1> USE Constants DEF TypeInv, client, wire, worker, Step
<1>0. conn \in Conn /\ conn \in Nat /\ (mark = q => MarkAt(q))
  BY DEF TypeOK, Conn, MarkInv
<1>1. ASSUME NEW r \in Run, NEW k \in {"run", "single", "call"}, NEW n \in 0..MaxStatements, Click(r, k, n)
      PROVE  MarkAt(q)'
  <2>1. q = r /\ conn' = conn /\ up' = up
    BY <1>1 DEF Click
  <2>2. CASE Ask(r, "submit")
    <3>1. Ask(r, "submit")
      BY <2>2
    <3>2. Grown(conn, Submitted(r))
      BY <3>1, AskEffect DEF Submitted
    <3>3. Asked(r)'
      BY <2>1, <3>2, AskedGrown
    <3> QED BY <2>1, <3>3 DEF MarkAt
  <2>3. CASE UNCHANGED via
    <3>1. r > clicks
      BY <1>1 DEF Click, TypeOK
    <3>2. via[r] = 0
      BY <3>1 DEF Fresh
    <3> QED BY <2>1, <2>3, <3>2 DEF MarkAt, Excused
  <2> QED BY <1>1, <2>2, <2>3 DEF Click
<1>2. ASSUME NEW r \in Run, ClickCancel(r)  PROVE MarkAt(q)'
  <2>1. /\ Ask(r, "cancel") /\ UNCHANGED <<mark, away, up, conn, via, outbox, alive, pc, at, ans>>
    BY <1>2 DEF ClickCancel
  <2>2. Asked(q) => Asked(q)'
    <3>1. Grown(conn, [kind |-> "cancel", run |-> r])
      BY <2>1, AskEffect
    <3> QED BY <2>1, <3>1, AskedGrown
  <2> QED BY <1>0, <2>1, <2>2 DEF MarkAt, Excused, Begun, Answering, Lifts
<1>3. CASE CloseTab
  BY <1>0, <1>3 DEF CloseTab, MarkAt, Excused
<1>4. CASE OpenTab
  BY <1>0, <1>4 DEF OpenTab, MarkAt, Excused, Asked, Begun, Answering, Lifts, Submitted
<1>5. CASE Receive
  <2>1. /\ UNCHANGED <<tab, away, up, conn, via, inbox, alive, pc, at, ans>>
        /\ outbox # <<>> /\ outbox' = Tail(outbox)
        /\ mark' = mark /\ ~(tab /\ Lifts(Head(outbox)))
    BY <1>5 DEF Receive, CompleteProgress
  <2>2. CASE ~tab
    BY <2>1, <2>2 DEF Around, MarkAt, Excused
  <2>3. CASE tab
    <3>1. Answering(q) => Answering(q)'
      <4>1. SUFFICES ASSUME NEW k \in 1..Len(outbox), outbox[k].run = q, Lifts(outbox[k])
                     PROVE  Answering(q)'
        BY DEF Answering
      <4>2. outbox \in Seq(Answer) /\ Len(outbox) \in Nat /\ Head(outbox) = outbox[1]
        BY <2>1 DEF TypeOK
      <4>3. k # 1
        BY <2>1, <2>3, <4>1, <4>2
      <4>4. k - 1 \in 1..Len(outbox') /\ outbox'[k - 1] = outbox[k]
        BY <2>1, <4>2, <4>3
      <4> QED BY <4>1, <4>4 DEF Answering, Lifts
    <3> QED BY <1>0, <2>1, <3>1 DEF MarkAt, Excused, Asked, Begun, Submitted
  <2> QED BY <2>2, <2>3
<1>6. CASE Drop
  BY <1>6 DEF Drop, MarkAt, Excused
<1>7. CASE Connect
  <2>1. conn' = conn + 1 /\ via'[q] = via[q]
    BY <1>7 DEF Connect
  <2>2. via[q] \in Nat /\ via[q] <= conn
    BY DEF Around, TypeOK
  <2>3. via'[q] # conn'
    BY <1>0, <2>1, <2>2
  <2> QED BY <2>3 DEF MarkAt, Excused
<1>8. ASSUME NEW c \in Conn, HandleSubmit(c)  PROVE MarkAt(q)'
  <2> DEFINE r == Head(inbox[c]).run
             f == [kind |-> "failed", run |-> r, at |-> 0, index |-> 0]
  <2>1. r \in Run /\ Shrunk(c, Submitted(r)) /\ 1 \in 1..Len(inbox[c]) /\ inbox[c][1] = Submitted(r)
    <3>1. Shrunk(c, Submitted(r))
      BY <1>8, TakeEffect DEF HandleSubmit, Submitted
    <3>2. 1 \in 1..Len(inbox[c])
      BY <3>1 DEF Shrunk
    <3> QED BY <1>8, <3>1, <3>2, TakeType DEF HandleSubmit, Shrunk
  <2>2. pc[r] = "idle" /\ at[r] = 0 /\ via[r] = c
    BY <2>1 DEF Fresh, Waits
  <2>3. /\ UNCHANGED <<mark, away, up, conn, via, at, ans>>
        /\ \/ alive' = [alive EXCEPT ![c] = FALSE] /\ UNCHANGED <<pc, outbox>>
           \/ \E p \in {"queued", "broken"} : pc' = [pc EXCEPT ![r] = p] /\ UNCHANGED <<alive, outbox>>
           \/ pc' = [pc EXCEPT ![r] = "failed"] /\ UNCHANGED alive /\ Send(c, f)
    BY <1>8 DEF HandleSubmit
  <2>4. f \in Answer
    BY <2>1 DEF Answer, Answers
  <2> HIDE DEF r, f
  <2>5. CASE q = r
    <3>1. pc'[r] \in {"queued", "failed", "broken"} \/ ~alive'[c]
      BY <2>1, <2>3 DEF TypeOK
    <3> QED BY <2>2, <2>3, <2>5, <3>1 DEF MarkAt, Excused, Begun
  <2>6. CASE q # r
    <3>1. pc'[q] = pc[q] /\ \A d \in Conn : ~alive[d] => ~alive'[d]
      BY <2>3, <2>6 DEF TypeOK
    <3>2. Asked(q) => Asked(q)'
      <4>1. Submitted(r) # Submitted(q)
        BY <2>6 DEF Submitted
      <4> QED BY <1>0, <2>1, <2>3, <4>1, AskedKept
    <3>3. Answering(q) => Answering(q)'
      <4>1. CASE UNCHANGED outbox
        BY <4>1 DEF Answering, Lifts
      <4>2. CASE Send(c, f)
        BY <2>4, <4>2, AnsweringKept
      <4> QED BY <2>3, <4>1, <4>2
    <3>4. Excused(q) => Excused(q)'
      BY <2>3, <3>1 DEF Excused, TypeOK, Conn
    <3>5. Begun(q) => Begun(q)'
      BY <2>3, <3>1 DEF Begun
    <3> QED BY <1>0, <2>3, <3>2, <3>3, <3>4, <3>5 DEF MarkAt
  <2> QED BY <2>5, <2>6
<1>9. ASSUME NEW c \in Conn, HandleCancel(c)  PROVE MarkAt(q)'
  <2> DEFINE r == Head(inbox[c]).run
             f == [kind |-> "cancelled", run |-> r, at |-> 0, index |-> 0]
  <2>1. r \in Run /\ Shrunk(c, [kind |-> "cancel", run |-> r])
    BY <1>9, TakeEffect, TakeType DEF HandleCancel
  <2>2. /\ UNCHANGED <<mark, away, up, conn, via, pc, at, ans>>
        /\ \/ Send(c, f) /\ UNCHANGED alive
           \/ alive' = [alive EXCEPT ![c] = FALSE] /\ UNCHANGED outbox
    BY <1>9 DEF HandleCancel
  <2>3. f \in Answer
    BY <2>1 DEF Answer, Answers
  <2> HIDE DEF r, f
  <2>4. Asked(q) => Asked(q)'
    <3>1. [kind |-> "cancel", run |-> r] # Submitted(q)
      BY DEF Submitted
    <3> QED BY <1>0, <2>1, <2>2, <3>1, AskedKept
  <2>5. Answering(q) => Answering(q)'
    <3>1. CASE UNCHANGED outbox
      BY <3>1 DEF Answering, Lifts
    <3>2. CASE Send(c, f)
      BY <2>3, <3>2, AnsweringKept
    <3> QED BY <2>2, <3>1, <3>2
  <2>6. Excused(q) => Excused(q)'
    <3>1. \A d \in Conn : ~alive[d] => ~alive'[d]
      BY <2>2 DEF TypeOK
    <3> QED BY <2>2, <3>1 DEF Excused, TypeOK, Conn
  <2> QED BY <1>0, <2>2, <2>4, <2>5, <2>6 DEF MarkAt, Begun
<1>10. ASSUME NEW r \in Run, Work(r) \/ Callback(r)  PROVE MarkAt(q)'
  <2> USE DEF Work, Callback, Execute, SendPage, Finish, Throw, Explain, Conclude, ConcludeBreaks
  <2>1. UNCHANGED <<mark, away, up, conn, via, inbox, alive>>
    BY <1>10 DEF Respond
  <2>2. Asked(q) => Asked(q)'
    BY <2>1 DEF Asked, Submitted
  <2>3. CASE SendPage(r)
    <3> DEFINE m == [kind |-> "page", run |-> r, at |-> at[r], index |-> at[r]]
    <3>1. m \in Answer /\ Send(via[r], m)
      BY <2>3 DEF Answer, Answers, TypeOK
    <3>2. m.run = r /\ Lifts(m)
      BY DEF Lifts
    <3> HIDE DEF m
    <3>3. Answering(q) \/ (q = r /\ up /\ via[r] = conn) => Answering(q)'
      BY <3>1, <3>2, AnsweringKept
    <3>4. q # r => pc'[q] = pc[q]
      BY <2>3 DEF TypeOK
    <3>5. q = r => Excused(q)' \/ (up /\ via[r] = conn)
      BY <2>1 DEF Excused
    <3>6. q # r => (Excused(q) => Excused(q)') /\ (Begun(q) => Begun(q)')
      BY <2>1, <2>3, <3>4 DEF Excused, Begun
    <3> QED BY <1>0, <2>1, <2>2, <3>3, <3>5, <3>6 DEF MarkAt
  <2>4. CASE Respond(r)
    <3>1. PICK m \in Answer : Send(via[r], m) /\ m.run = r
                              /\ (m.kind = ans[r] \/ (ans[r] = "failure" /\ pc' = [pc EXCEPT ![r] = "failed"]))
      <4>1. CASE ans[r] = "failure"
        <5>1. [kind |-> "failed", run |-> r, at |-> at[r], index |-> 0] \in Answer
          BY DEF Answer, Answers, TypeOK
        <5> QED BY <2>4, <4>1, <5>1 DEF Respond
      <4>2. CASE ans[r] # "failure"
        <5>1. ans[r] \in Answers
          BY <2>4, <4>2 DEF Respond, TypeOK, HasOutcome, Outcome, Answers
        <5>2. PICK i \in Index(r) : Send(via[r], [kind |-> ans[r], run |-> r, at |-> at[r], index |-> i])
          BY <2>4, <4>2 DEF Respond, Reply
        <5>3. i \in 0..MaxStatements
          BY <5>2 DEF Index, TypeOK
        <5>4. [kind |-> ans[r], run |-> r, at |-> at[r], index |-> i] \in Answer
          BY <5>1, <5>3 DEF Answer, TypeOK
        <5> QED BY <5>2, <5>4
      <4> QED BY <4>1, <4>2
    <3>2. Answering(q) => Answering(q)'
      BY <3>1, AnsweringKept
    <3>3. CASE q # r
      <4>1. pc'[q] = pc[q] /\ at'[q] = at[q] /\ ans'[q] = ans[q]
        BY <2>4, <3>3 DEF Respond, TypeOK
      <4> QED BY <1>0, <2>1, <2>2, <3>2, <4>1 DEF MarkAt, Excused, Begun
    <3>4. CASE q = r
      <4>1. pc[q] \in {"answered", "concluded"} /\ ans[q] \in Outcome \ {"none"} /\ pc'[q] \notin {"idle"}
        BY <2>4, <3>4 DEF Respond, TypeOK, HasOutcome
      <4>2. ans[q] = "failure" => Excused(q)'
        BY <2>4, <3>4 DEF Respond, Excused, TypeOK
      <4>3. Begun(q) /\ ans[q] # "failure" => Excused(q)' \/ Answering(q)'
        <5>1. SUFFICES ASSUME Begun(q), ans[q] # "failure", up, via[q] = conn  PROVE Answering(q)'
          BY <2>1 DEF Excused
        <5>2. Lifts(m)
          BY <3>1, <3>4, <4>1, <5>1 DEF Lifts, Begun, Outcome
        <5> QED BY <3>1, <3>4, <5>1, <5>2, AnsweringKept
      <4>4. Excused(q) => Excused(q)'
        BY <2>1, <4>1 DEF Excused
      <4> QED BY <1>0, <2>1, <2>2, <3>2, <4>2, <4>3, <4>4 DEF MarkAt
    <3> QED BY <3>3, <3>4
  <2>5. CASE ~SendPage(r) /\ ~Respond(r)
    <3>1. UNCHANGED <<outbox, at>>
      BY <1>10, <2>5
    <3>2. Answering(q) => Answering(q)'
      BY <3>1 DEF Answering, Lifts
    <3>3. CASE q # r
      <4>1. pc'[q] = pc[q] /\ ans'[q] = ans[q]
        BY <1>10, <2>5, <3>3 DEF TypeOK
      <4> QED BY <1>0, <2>1, <2>2, <3>1, <3>2, <4>1 DEF MarkAt, Excused, Begun
    <3>4. CASE q = r
      <4>1. Excused(q) => Excused(q)'
        BY <1>10, <2>1, <2>5, <3>4 DEF Excused, TypeOK
      <4>2. Begun(q) => Begun(q)' \/ Excused(q)'
        BY <1>10, <2>5, <3>1, <3>4 DEF Begun, Excused, TypeOK
      <4> QED BY <1>0, <2>1, <2>2, <3>2, <4>1, <4>2 DEF MarkAt
    <3> QED BY <3>3, <3>4
  <2> QED BY <1>10, <2>3, <2>4, <2>5
<1>11. ASSUME NEW s \in Watched, AuditInsert(s)  PROVE MarkAt(q)'
  BY <1>0, <1>11 DEF AuditInsert, MarkAt, Excused, Asked, Begun, Answering, Lifts, Submitted
<1>12. CASE UNCHANGED vars
  BY <1>0, <1>12 DEF vars, MarkAt, Excused, Asked, Begun, Answering, Lifts, Submitted
<1> QED BY <1>1, <1>2, <1>3, <1>4, <1>5, <1>6, <1>7, <1>8, <1>9, <1>10, <1>11, <1>12 DEF Next, Actor

----------------------------------------------------------------------------
(* The order of the answers                                                *)

Talks(m)   == m.kind # "cancelled"
Closing(m) == m.kind \in {"count", "error", "failed"}

\* Of one run: m answers an earlier statement than n, or is the page that n closes.
Precedes(m, n) == m.at < n.at \/ (m.at = n.at /\ m.kind = "page" /\ Closing(n))

\* The worker of r has said something about its statement a. A statement that had a
\* result, and no page before it, says all it has to say when it has been concluded.
Reached(r, a) ==
  \/ a < at[r]
  \/ /\ a = at[r]
     /\ \/ pc[r] \in {"paged", "broken", "done", "failed"}
        \/ pc[r] \in {"answered", "concluded"} /\ ans[r] # "result"

\* m may have been sent: of the statement the worker is at, that is its page only.
Told(m) ==
  /\ Reached(m.run, m.at)
  /\ m.at = at[m.run] => m.kind = "page" \/ pc[m.run] \in {"done", "failed"}

\* A panel with a result of statement a stands before what n adds to it.
Leads(a, n) == a < n.at \/ (a = n.at /\ Closing(n))

OutboxTold  == \A k \in 1..Len(outbox) : Talks(outbox[k]) => Told(outbox[k])
OutboxOrder == \A j, k \in 1..Len(outbox) :
  j < k /\ Talks(outbox[j]) /\ Talks(outbox[k]) /\ outbox[j].run = outbox[k].run
    => Precedes(outbox[j], outbox[k])
PageTold  == \A j \in 1..Len(page) :
  IF page[j].busy THEN page[j].at = 0 ELSE Reached(page[j].run, page[j].at)
PageOrder == \A j, k \in 1..Len(page) : j < k /\ page[j].run = page[k].run => page[j].at < page[k].at
PageLeads == \A j \in 1..Len(page), k \in 1..Len(outbox) :
  ~page[j].busy /\ Talks(outbox[k]) /\ page[j].run = outbox[k].run => Leads(page[j].at, outbox[k])

OrderInv == OutboxTold /\ OutboxOrder /\ PageTold /\ PageOrder /\ PageLeads

LEMMA OrderInit == Init => OrderInv
<1>1. Len(<<>>) = 0
  OBVIOUS
<1> QED BY <1>1 DEF Init, OrderInv, OutboxTold, OutboxOrder, PageTold, PageOrder, PageLeads

LEMMA AnswerType ==
  ASSUME TypeOK
  PROVE  /\ outbox \in Seq(Answer) /\ Len(outbox) \in Nat /\ page \in Seq(Panel) /\ Len(page) \in Nat
         /\ \A k \in 1..Len(outbox) : /\ outbox[k] \in Answer /\ outbox[k].run \in Run
                                      /\ outbox[k].at \in Nat
         /\ \A j \in 1..Len(page) : /\ page[j] \in Panel /\ page[j].run \in Run /\ page[j].at \in Nat
                                    /\ page[j].busy \in BOOLEAN
<1>1. outbox \in Seq(Answer) /\ page \in Seq(Panel)
  BY DEF TypeOK
<1>2. \A m \in Answer : m.run \in Run /\ m.at \in Nat
  BY Constants DEF Answer
<1>3. \A p \in Panel : p.run \in Run /\ p.at \in Nat /\ p.busy \in BOOLEAN
  BY Constants DEF Panel
<1> QED BY <1>1, <1>2, <1>3

\* Of the run whose worker it is, a step says no more than it may.
LEMMA ReachedKept ==
  ASSUME TypeInv, Fresh, [Next]_vars, NEW r \in Run, NEW a \in Nat, Reached(r, a)
  PROVE  /\ Reached(r, a)'
         /\ a = at[r] /\ at'[r] = at[r] /\ pc[r] \in {"done", "failed"} => pc'[r] \in {"done", "failed"}
<1> USE DEF TypeInv, client, wire, worker, Step
<1>0. at[r] \in Nat /\ (pc[r] = "idle" => at[r] = 0) /\ pc[r] # "idle"
  BY Constants DEF TypeOK, Fresh, Reached
<1>1. ASSUME NEW c \in Conn, HandleSubmit(c)  PROVE pc'[r] = pc[r] /\ at'[r] = at[r] /\ ans'[r] = ans[r]
  <2> DEFINE q == Head(inbox[c]).run
  <2>1. q \in Run /\ inbox[c][1] = Submitted(q) /\ 1 \in 1..Len(inbox[c])
    <3>1. Shrunk(c, Submitted(q))
      BY <1>1, TakeEffect DEF HandleSubmit, Submitted
    <3>2. 1 \in 1..Len(inbox[c])
      BY <3>1 DEF Shrunk
    <3> QED BY <1>1, <3>1, <3>2, TakeType DEF HandleSubmit, Shrunk
  <2> HIDE DEF q
  <2>2. pc[q] = "idle"
    BY <2>1 DEF Fresh, Waits
  <2>3. UNCHANGED <<at, ans>> /\ (pc' = pc \/ \E p \in {"queued", "failed", "broken"} : pc' = [pc EXCEPT ![q] = p])
    BY <1>1 DEF HandleSubmit, q
  <2> QED BY <1>0, <2>2, <2>3 DEF TypeOK
<1>2. ASSUME NEW q \in Run, Work(q) \/ Callback(q), q # r
      PROVE  pc'[r] = pc[r] /\ at'[r] = at[r] /\ ans'[r] = ans[r]
  BY <1>2 DEF Work, Callback, Execute, SendPage, Finish, Throw, Explain, Conclude, ConcludeBreaks,
              Respond, TypeOK
<1>3. CASE pc'[r] = pc[r] /\ at'[r] = at[r] /\ ans'[r] = ans[r]
  BY <1>3 DEF Reached
<1>4. ASSUME Work(r) \/ Callback(r)
      PROVE  Reached(r, a)' /\ pc[r] \notin {"done", "failed"}
  <2> USE <1>0 DEF TypeOK, Reached
  <2>1. CASE Execute(r)
    BY <2>1 DEF Execute
  <2>2. CASE SendPage(r)
    BY <2>2 DEF SendPage
  <2>3. CASE Finish(r)
    BY <2>3 DEF Finish
  <2>4. CASE Throw(r)
    BY <2>4 DEF Throw
  <2>5. CASE Explain(r)
    BY <2>5 DEF Explain
  <2>6. CASE Conclude(r)
    BY <2>6 DEF Conclude
  <2>7. CASE ConcludeBreaks(r)
    BY <2>7 DEF ConcludeBreaks
  <2>8. CASE Respond(r)
    BY <2>8 DEF Respond
  <2> QED BY <1>4, <2>1, <2>2, <2>3, <2>4, <2>5, <2>6, <2>7, <2>8 DEF Work, Callback
<1>5. CASE UNCHANGED <<pc, at, ans>>
  BY <1>3, <1>5
<1> QED BY <1>1, <1>2, <1>3, <1>4, <1>5
        DEF Next, Actor, Click, ClickCancel, CloseTab, OpenTab, Receive, Drop, Connect, HandleCancel,
            AuditInsert, vars

LEMMA ToldKept ==
  ASSUME TypeInv, Fresh, [Next]_vars, NEW m \in Answer, Told(m)
  PROVE  Told(m)'
<1>1. m.run \in Run /\ m.at \in Nat /\ at[m.run] \in Nat /\ at'[m.run] \in Nat
  BY TypeStep, Constants DEF Answer, TypeInv, TypeOK
<1>2. Reached(m.run, m.at)'
  BY <1>1, ReachedKept DEF Told
<1>3. at'[m.run] = at[m.run] \/ at'[m.run] = at[m.run] + 1
  <2> DEFINE r == m.run
  <2>1. CASE UNCHANGED at
    BY <2>1
  <2>2. ASSUME NEW q \in Run, Respond(q)  PROVE at'[r] = at[r] \/ at'[r] = at[r] + 1
    BY <1>1, <2>2 DEF Respond, TypeInv, TypeOK
  <2> QED BY <2>1, <2>2 DEF Next, Actor, Work, Callback, Click, ClickCancel, CloseTab, OpenTab, Receive,
            Drop, Connect, HandleSubmit, HandleCancel, Execute, SendPage, Finish, Throw, Explain, Conclude,
            ConcludeBreaks, AuditInsert, vars, client, wire, worker
<1>4. m.at <= at[m.run]
  BY <1>1 DEF Told, Reached
<1>5. CASE at'[m.run] = at[m.run]
  BY <1>1, <1>2, <1>5, ReachedKept DEF Told
<1>6. CASE at'[m.run] = at[m.run] + 1
  BY <1>1, <1>2, <1>4, <1>6 DEF Told
<1> QED BY <1>3, <1>5, <1>6

\* m comes after everything that its run may have said.
Fits(m) ==
  /\ \A a \in Nat : Reached(m.run, a) => Leads(a, m)
  /\ \A n \in Answer : Talks(n) /\ n.run = m.run /\ Told(n) => Precedes(n, m)

\* A step adds one answer, and one that fits, or none.
Says(m) == Talks(m) => Fits(m) /\ Told(m)'

LEMMA PageFits ==
  ASSUME TypeInv, NEW r \in Run, SendPage(r)
  PROVE  \E m \in Answer : Send(via[r], m) /\ Says(m)
<1> DEFINE m == [kind |-> "page", run |-> r, at |-> at[r], index |-> at[r]]
<1>1. at[r] \in Nat /\ m \in Answer
  BY Constants DEF TypeInv, TypeOK, Answer, Answers
<1>2. /\ Send(via[r], m) /\ pc[r] = "executing" /\ pc' = [pc EXCEPT ![r] = "paged"] /\ at' = at
      /\ pc'[r] = "paged"
  BY DEF SendPage, Step, TypeInv, TypeOK
<1>3. PICK n \in Answer : n = m
  BY <1>1
<1>4. n.kind = "page" /\ n.run = r /\ n.at = at[r]
  BY <1>3
<1>5. Fits(n)
  BY <1>1, <1>2, <1>4 DEF Fits, Reached, Told, Leads, Precedes
<1>6. Told(n)'
  BY <1>1, <1>2, <1>4 DEF Told, Reached
<1> QED BY <1>2, <1>3, <1>5, <1>6 DEF Says

LEMMA ReplyFits ==
  ASSUME TypeInv, NEW r \in Run, Respond(r)
  PROVE  \E m \in Answer : Send(via[r], m) /\ Says(m)
<1> USE DEF TypeInv, Step
<1>1. /\ at[r] \in Nat /\ pc[r] \in {"answered", "concluded"} /\ ans[r] \in Outcome \ {"none"}
  BY Constants DEF TypeOK, HasOutcome, Respond
<1>2. PICK m \in Answer : /\ Send(via[r], m) /\ m.run = r /\ m.at = at[r]
                          /\ m.kind = IF ans[r] = "failure" THEN "failed" ELSE ans[r]
  <2>1. CASE ans[r] = "failure"
    <3>1. [kind |-> "failed", run |-> r, at |-> at[r], index |-> 0] \in Answer
      BY Constants DEF Answer, Answers, TypeOK
    <3> QED BY <2>1, <3>1 DEF Respond
  <2>2. CASE ans[r] # "failure"
    <3>1. ans[r] \in Answers
      BY <1>1, <2>2 DEF Outcome, Answers
    <3>2. PICK i \in Index(r) : Send(via[r], [kind |-> ans[r], run |-> r, at |-> at[r], index |-> i])
      BY <2>2 DEF Respond, Reply
    <3>3. i \in 0..MaxStatements
      BY <3>2, Constants DEF Index, TypeOK
    <3>4. [kind |-> ans[r], run |-> r, at |-> at[r], index |-> i] \in Answer
      BY <3>1, <3>3 DEF Answer, TypeOK
    <3> QED BY <2>2, <3>2, <3>4
  <2> QED BY <2>1, <2>2
<1>3. ans[r] = "result" \/ Closing(m)
  BY <1>1, <1>2 DEF Closing, Outcome
<1>4. Fits(m)
  BY <1>1, <1>2, <1>3 DEF Fits, Reached, Told, Leads, Precedes
<1>5. \/ at'[r] = at[r] + 1
      \/ at'[r] = at[r] /\ pc'[r] \in {"done", "failed"}
  BY <1>1 DEF Respond, TypeOK
<1>6. Told(m)'
  BY <1>1, <1>2, <1>5 DEF Told, Reached
<1> QED BY <1>2, <1>4, <1>6 DEF Says

LEMMA RefusalFits ==
  ASSUME TypeInv, Fresh, NEW c \in Conn, HandleSubmit(c), ~UNCHANGED outbox
  PROVE  \E m \in Answer : Send(c, m) /\ Says(m)
<1> USE DEF TypeInv
<1> DEFINE r == Head(inbox[c]).run
           m == [kind |-> "failed", run |-> r, at |-> 0, index |-> 0]
<1>1. r \in Run /\ inbox[c][1] = Submitted(r) /\ 1 \in 1..Len(inbox[c])
  <2>1. Shrunk(c, Submitted(r))
    BY TakeEffect DEF HandleSubmit, Submitted
  <2>2. 1 \in 1..Len(inbox[c])
    BY <2>1 DEF Shrunk
  <2> QED BY <2>1, <2>2, TakeType DEF HandleSubmit, Shrunk
<1>2. Send(c, m) /\ pc' = [pc EXCEPT ![r] = "failed"] /\ at' = at
  BY DEF HandleSubmit
<1>3. m \in Answer
  BY <1>1, Constants DEF Answer, Answers
<1> HIDE DEF r
<1>4. pc[r] = "idle" /\ at[r] = 0 /\ pc'[r] = "failed" /\ at'[r] = 0
  BY <1>1, <1>2 DEF Fresh, Waits, TypeOK
<1>5. PICK n \in Answer : n = m
  BY <1>3
<1>6. n.kind = "failed" /\ n.run = r /\ n.at = 0
  BY <1>5
<1>7. Fits(n)
  <2>1. \A a \in Nat : ~Reached(r, a)
    BY <1>4 DEF Reached
  <2>2. \A x \in Answer : x.at \in Nat
    BY Constants DEF Answer
  <2> QED BY <1>6, <2>1, <2>2 DEF Fits, Told
<1>8. Told(n)'
  BY <1>4, <1>6 DEF Told, Reached
<1> QED BY <1>2, <1>5, <1>7, <1>8 DEF Says

\* What a step may do to the answers on their way.
LEMMA OutboxStep ==
  ASSUME TypeInv, Fresh, [Next]_vars
  PROVE  \/ outbox' = outbox \/ outbox' = <<>> \/ Receive
         \/ page' = page /\ \E m \in Answer : Says(m) /\ outbox' = Append(outbox, m)
<1> USE DEF client, wire, worker
<1>1. ASSUME page' = page, NEW c, \E m \in Answer : Send(c, m) /\ Says(m)
      PROVE  outbox' = outbox \/ (page' = page /\ \E m \in Answer : Says(m) /\ outbox' = Append(outbox, m))
  BY <1>1 DEF Send
<1>2. ASSUME NEW c \in Conn, HandleSubmit(c), ~UNCHANGED outbox
      PROVE  page' = page /\ \E m \in Answer : Says(m) /\ outbox' = Append(outbox, m)
  BY <1>1, <1>2, RefusalFits DEF HandleSubmit
<1>3. ASSUME NEW c \in Conn, HandleCancel(c), ~UNCHANGED outbox
      PROVE  page' = page /\ \E m \in Answer : Says(m) /\ outbox' = Append(outbox, m)
  <2> DEFINE m == [kind |-> "cancelled", run |-> Head(inbox[c]).run, at |-> 0, index |-> 0]
  <2>1. Head(inbox[c]).run \in Run
    BY <1>3, TakeType DEF HandleCancel, TypeInv
  <2>2. m \in Answer
    BY <2>1, Constants DEF Answer, Answers
  <2>3. Send(c, m) /\ page' = page
    BY <1>3 DEF HandleCancel
  <2>4. PICK n \in Answer : n = m
    BY <2>2
  <2>5. ~Talks(n)
    BY <2>4 DEF Talks
  <2> QED BY <1>3, <2>3, <2>4, <2>5 DEF Says, Send
<1>4. ASSUME NEW r \in Run, SendPage(r) \/ Respond(r), ~UNCHANGED outbox
      PROVE  page' = page /\ \E m \in Answer : Says(m) /\ outbox' = Append(outbox, m)
  BY <1>1, <1>4, PageFits, ReplyFits DEF SendPage, Respond
<1> QED BY <1>2, <1>3, <1>4
        DEF Next, Actor, Work, Callback, Click, ClickCancel, CloseTab, OpenTab, Drop, Connect,
            Execute, Finish, Throw, Explain, Conclude, ConcludeBreaks, AuditInsert, vars

\* A panel of a later statement than those of its run, or of the last of them, keeps order.
LEMMA PlaceOrder ==
  ASSUME page \in Seq(Panel), PageOrder, NEW p \in Panel, NEW i,
         \A j \in 1..Len(page) : page[j].run = p.run => page[j].at <= p.at
  PROVE  /\ \A k \in 1..Len(Place(p, i)) :
              Place(p, i)[k] = p \/ \E j \in 1..Len(page) : Place(p, i)[k] = page[j]
         /\ \A j, k \in 1..Len(Place(p, i)) :
              j < k /\ Place(p, i)[j].run = Place(p, i)[k].run => Place(p, i)[j].at < Place(p, i)[k].at
<1> DEFINE Same(k) == page[k].run = p.run /\ page[k].at = p.at
           new == [k \in 1..Len(page) |-> IF Same(k) THEN p ELSE page[k]]
<1>0. Len(page) \in Nat /\ p.at \in Nat /\ \A k \in 1..Len(page) : page[k] \in Panel /\ page[k].at \in Nat
  <2>1. \A x \in Panel : x.at \in Nat
    BY Constants DEF Panel
  <2> QED BY <2>1
<1>1. CASE \E k \in 1..Len(page) : Same(k)
  <2>1. Place(p, i) = new
    BY <1>1 DEF Place
  <2>2. new \in [1..Len(page) -> Panel]
    BY <1>0
  <2>3. \A k \in 1..Len(page) : /\ new[k].run = page[k].run /\ new[k].at = page[k].at
                                /\ new[k] = p \/ new[k] = page[k]
    OBVIOUS
  <2> HIDE DEF new
  <2>4. Len(new) = Len(page)
    BY <1>0, <2>2
  <2> QED BY <2>1, <2>3, <2>4 DEF PageOrder
<1>2. CASE ~(\E k \in 1..Len(page) : Same(k)) /\ i = 0
  <2>1. Place(p, i) = <<p>>
    BY <1>2 DEF Place
  <2> QED BY <2>1
<1>3. CASE ~(\E k \in 1..Len(page) : Same(k)) /\ i # 0
  <2>1. Place(p, i) = Append(page, p)
    BY <1>3 DEF Place
  <2> DEFINE n == Len(page)
             app == Append(page, p)
  <2>2. /\ Len(app) = n + 1 /\ app[n + 1] = p
        /\ \A k \in 1..n : app[k] = page[k]
    OBVIOUS
  <2>3. \A k \in 1..n : page[k].run = p.run => page[k].at < p.at
    BY <1>0, <1>3
  <2> HIDE DEF app
  <2>4. ASSUME NEW j \in 1..(n + 1), NEW k \in 1..(n + 1), j < k, app[j].run = app[k].run
        PROVE  app[j].at < app[k].at
    <3>1. j \in 1..n
      BY <1>0, <2>4
    <3>2. CASE k = n + 1
      BY <2>2, <2>3, <2>4, <3>1, <3>2
    <3>3. CASE k # n + 1
      <4>1. k \in 1..n
        BY <1>0, <3>3
      <4> QED BY <2>2, <2>4, <3>1, <4>1 DEF PageOrder
    <3> QED BY <3>2, <3>3
  <2>5. ASSUME NEW k \in 1..(n + 1)  PROVE app[k] = p \/ \E j \in 1..n : app[k] = page[j]
    <3>1. k = n + 1 \/ k \in 1..n
      BY <1>0
    <3> QED BY <2>2, <3>1
  <2> QED BY <2>1, <2>2, <2>4, <2>5 DEF app
<1> QED BY <1>1, <1>2, <1>3

\* The answers that stay keep their order when the first of them is taken.
LEMMA TailFrom ==
  ASSUME TypeOK, outbox # <<>>, outbox' = Tail(outbox)
  PROVE  \A k \in 1..Len(outbox') : /\ k + 1 \in 1..Len(outbox) /\ outbox'[k] = outbox[k + 1]
                                    /\ 1 \in 1..Len(outbox) /\ Head(outbox) = outbox[1]
<1>1. outbox \in Seq(Answer) /\ Len(outbox) \in Nat /\ Len(outbox) > 0
  BY AnswerType
<1> QED BY <1>1

LEMMA ReceiveOrder ==
  ASSUME TypeInv, Fresh, OrderInv, Receive
  PROVE  OrderInv'
<1> USE DEF TypeInv, OrderInv
<1>1. /\ outbox # <<>> /\ outbox' = Tail(outbox) /\ UNCHANGED <<pc, at, ans>>
      /\ (tab /\ Lifts(Head(outbox)) /\ CompleteProgress(Head(outbox))) \/ page' = page
  BY DEF Receive, worker
<1>2. \A k \in 1..Len(outbox') : /\ k + 1 \in 1..Len(outbox) /\ outbox'[k] = outbox[k + 1]
                                 /\ 1 \in 1..Len(outbox) /\ Head(outbox) = outbox[1]
  BY <1>1, TailFrom
<1>3. /\ \A k \in 1..Len(outbox) : outbox[k] \in Answer /\ outbox[k].run \in Run /\ outbox[k].at \in Nat
      /\ \A j \in 1..Len(page) : /\ page[j] \in Panel /\ page[j].run \in Run /\ page[j].at \in Nat
                                 /\ page[j].busy \in BOOLEAN
      /\ page \in Seq(Panel) /\ outbox \in Seq(Answer) /\ Len(outbox') \in Nat
  <2>1. Tail(outbox) \in Seq(Answer)
    BY <1>1, AnswerType
  <2> QED BY <1>1, <2>1, AnswerType
<1>4. OutboxTold'
  BY <1>1, <1>2 DEF OutboxTold, Told, Reached, Talks
<1>5. OutboxOrder'
  <2> SUFFICES ASSUME NEW j \in 1..Len(outbox'), NEW k \in 1..Len(outbox'), j < k,
                      Talks(outbox'[j]), Talks(outbox'[k]), outbox'[j].run = outbox'[k].run
               PROVE  Precedes(outbox'[j], outbox'[k])
    BY DEF OutboxOrder, Talks, Precedes, Closing
  <2>1. j + 1 < k + 1
    BY <1>3
  <2> QED BY <1>2, <2>1 DEF OutboxOrder
<1>6. CASE page' = page
  <2>1. PageTold' /\ PageOrder'
    BY <1>1, <1>6 DEF PageTold, PageOrder, Reached
  <2>2. PageLeads'
    BY <1>2, <1>6 DEF PageLeads, Talks, Leads, Closing
  <2> QED BY <1>4, <1>5, <2>1, <2>2
<1>7. CASE tab /\ Lifts(Head(outbox)) /\ CompleteProgress(Head(outbox))
  <2> DEFINE m == Head(outbox)
             p == [run |-> m.run, at |-> m.at, busy |-> FALSE]
  <2>1. 1 \in 1..Len(outbox) /\ m = outbox[1] /\ m \in Answer /\ Lifts(m) /\ page' = Place(p, m.index)
    <3>1. Len(outbox) > 0
      BY <1>1, <1>3
    <3> QED BY <1>3, <1>7, <3>1 DEF CompleteProgress
  <2>2. p \in Panel /\ p.run = m.run /\ p.at = m.at /\ ~p.busy /\ Talks(m) /\ m.run \in Run /\ m.at \in Nat
    BY <2>1, Constants DEF Panel, Answer, Lifts, Talks
  <2> HIDE DEF p, m
  <2>3. \A j \in 1..Len(page) : page[j].run = p.run => page[j].at <= p.at
    <3> SUFFICES ASSUME NEW j \in 1..Len(page), page[j].run = m.run  PROVE page[j].at <= m.at
      BY <2>2
    <3>1. CASE page[j].busy
      BY <2>2, <3>1 DEF PageTold
    <3>2. CASE ~page[j].busy
      BY <1>3, <2>1, <2>2, <3>2 DEF PageLeads, Leads
    <3> QED BY <3>1, <3>2
  <2>4. /\ \A k \in 1..Len(page') : page'[k] = p \/ \E j \in 1..Len(page) : page'[k] = page[j]
        /\ \A j, k \in 1..Len(page') : j < k /\ page'[j].run = page'[k].run => page'[j].at < page'[k].at
    <3>1. page \in Seq(Panel) /\ PageOrder /\ p \in Panel
      BY <1>3, <2>2
    <3>2. /\ \A k \in 1..Len(Place(p, m.index)) :
               Place(p, m.index)[k] = p \/ \E j \in 1..Len(page) : Place(p, m.index)[k] = page[j]
          /\ \A j, k \in 1..Len(Place(p, m.index)) :
               j < k /\ Place(p, m.index)[j].run = Place(p, m.index)[k].run
                 => Place(p, m.index)[j].at < Place(p, m.index)[k].at
      BY <2>3, <3>1, PlaceOrder
    <3> QED BY <2>1, <3>2
  <2>5. PageOrder'
    BY <2>4 DEF PageOrder
  <2>6. PageTold'
    <3>1. Reached(p.run, p.at)
      BY <2>1, <2>2 DEF OutboxTold, Told
    <3> QED BY <1>1, <2>2, <2>4, <3>1 DEF PageTold, Reached
  <2>7. PageLeads'
    <3> SUFFICES ASSUME NEW j \in 1..Len(page'), NEW k \in 1..Len(outbox'), ~page'[j].busy,
                        Talks(outbox'[k]), page'[j].run = outbox'[k].run
                 PROVE  Leads(page'[j].at, outbox'[k])
      BY DEF PageLeads, Talks, Leads, Closing
    <3>1. CASE page'[j] = p
      <4>1. 1 < k + 1
        BY <1>3
      <4>2. Precedes(m, outbox[k + 1])
        BY <1>2, <2>1, <2>2, <3>1, <4>1 DEF OutboxOrder
      <4> QED BY <1>2, <2>2, <3>1, <4>2 DEF Precedes, Leads
    <3>2. CASE \E i \in 1..Len(page) : page'[j] = page[i]
      BY <1>2, <3>2 DEF PageLeads
    <3> QED BY <2>4, <3>1, <3>2
  <2> QED BY <1>4, <1>5, <2>5, <2>6, <2>7
<1> QED BY <1>1, <1>6, <1>7

\* The panels of a tab that was cleared, or of one whose run was just started.
LEMMA PageStep ==
  ASSUME TypeInv, [Next]_vars, ~Receive
  PROVE  \/ page' = page
         \/ /\ outbox' = outbox /\ Len(page') <= 1 /\ Len(page') \in Nat
            /\ \A j \in 1..Len(page') : page'[j].busy /\ page'[j].at = 0
<1> USE DEF client, wire
<1>1. ASSUME NEW r \in Run, NEW k \in {"run", "single", "call"}, NEW n \in 0..MaxStatements, Click(r, k, n)
      PROVE  /\ outbox' = outbox /\ Len(page') <= 1 /\ Len(page') \in Nat
             /\ \A j \in 1..Len(page') : page'[j].busy /\ page'[j].at = 0
  <2>1. page' = <<[run |-> r, at |-> 0, busy |-> TRUE]>> /\ outbox' = outbox
    BY <1>1 DEF Click
  <2>2. Len(page') = 1 /\ \A j \in 1..1 : page'[j] = [run |-> r, at |-> 0, busy |-> TRUE]
    BY <2>1
  <2> QED BY <2>1, <2>2
<1>2. CASE CloseTab
  <2>1. page' = <<>> /\ outbox' = outbox /\ Len(<<>>) = 0
    BY <1>2 DEF CloseTab
  <2> QED BY <2>1
<1> QED BY <1>1, <1>2
        DEF Next, Actor, Work, Callback, ClickCancel, OpenTab, Drop, Connect, HandleSubmit, HandleCancel,
            Execute, SendPage, Finish, Throw, Explain, Conclude, ConcludeBreaks, Respond, AuditInsert, vars

LEMMA OrderStep ==
  ASSUME TypeInv, Fresh, OrderInv, [Next]_vars
  PROVE  OrderInv'
<1>1. CASE Receive
  BY <1>1, ReceiveOrder
<1>2. CASE ~Receive
  <2> USE DEF TypeInv, OrderInv
  <2>1. /\ \A k \in 1..Len(outbox) : outbox[k] \in Answer /\ outbox[k].run \in Run /\ outbox[k].at \in Nat
        /\ \A j \in 1..Len(page) : page[j].run \in Run /\ page[j].at \in Nat
        /\ outbox \in Seq(Answer) /\ Len(outbox) \in Nat
    BY AnswerType
  <2>2. \A m \in Answer : Told(m) => Told(m)'
    BY ToldKept
  <2>3. \A r \in Run, a \in Nat : Reached(r, a) => Reached(r, a)'
    BY ReachedKept
  <2>4. CASE page' = page
    <3>1. PageTold' /\ PageOrder'
      BY <2>1, <2>3, <2>4 DEF PageTold, PageOrder
    <3>2. CASE outbox' = outbox
      <4>1. OutboxTold' /\ OutboxOrder' /\ PageLeads'
        BY <2>1, <2>2, <2>4, <3>2 DEF OutboxTold, OutboxOrder, PageLeads, Precedes, Leads, Talks, Closing
      <4> QED BY <3>1, <4>1
    <3>3. CASE outbox' = <<>>
      <4>1. Len(outbox') = 0
        BY <3>3
      <4>2. OutboxTold' /\ OutboxOrder' /\ PageLeads'
        BY <4>1 DEF OutboxTold, OutboxOrder, PageLeads
      <4> QED BY <3>1, <4>2
    <3>4. ASSUME NEW m \in Answer, Says(m), outbox' = Append(outbox, m)  PROVE OrderInv'
      <4> DEFINE n == Len(outbox)
      <4>1. /\ Len(outbox') = n + 1 /\ outbox'[n + 1] = m
            /\ \A k \in 1..n : outbox'[k] = outbox[k]
        BY <2>1, <3>4
      <4>2. \A k \in 1..Len(outbox') : k \in 1..n \/ k = n + 1
        BY <2>1, <4>1
      <4>3. OutboxTold'
        BY <2>1, <2>2, <3>4, <4>1, <4>2 DEF OutboxTold, Says, Talks
      <4>4. OutboxOrder'
        <5> SUFFICES ASSUME NEW j \in 1..Len(outbox'), NEW k \in 1..Len(outbox'), j < k,
                            Talks(outbox'[j]), Talks(outbox'[k]), outbox'[j].run = outbox'[k].run
                     PROVE  Precedes(outbox'[j], outbox'[k])
          BY DEF OutboxOrder, Talks, Precedes, Closing
        <5>1. j \in 1..n
          BY <2>1, <4>1
        <5>2. CASE k = n + 1
          <6>1. Told(outbox[j]) /\ Fits(m)
            BY <3>4, <4>1, <5>1, <5>2 DEF OutboxTold, Says
          <6> QED BY <2>1, <4>1, <5>1, <5>2, <6>1 DEF Fits
        <5>3. CASE k \in 1..n
          BY <4>1, <5>1, <5>3 DEF OutboxOrder
        <5> QED BY <4>2, <5>2, <5>3
      <4>5. PageLeads'
        <5> SUFFICES ASSUME NEW j \in 1..Len(page), NEW k \in 1..Len(outbox'), ~page[j].busy,
                            Talks(outbox'[k]), page[j].run = outbox'[k].run
                     PROVE  Leads(page[j].at, outbox'[k])
          BY <2>4 DEF PageLeads, Talks, Leads, Closing
        <5>1. CASE k = n + 1
          <6>1. Reached(page[j].run, page[j].at) /\ Fits(m)
            BY <3>4, <4>1, <5>1 DEF PageTold, Says
          <6> QED BY <2>1, <4>1, <5>1, <6>1 DEF Fits
        <5>2. CASE k \in 1..n
          BY <4>1, <5>2 DEF PageLeads
        <5> QED BY <4>2, <5>1, <5>2
      <4> QED BY <3>1, <4>3, <4>4, <4>5
    <3> QED BY <1>2, <3>2, <3>3, <3>4, OutboxStep
  <2>5. CASE /\ outbox' = outbox /\ Len(page') <= 1 /\ Len(page') \in Nat
             /\ \A j \in 1..Len(page') : page'[j].busy /\ page'[j].at = 0
    <3>1. OutboxTold' /\ OutboxOrder'
      BY <2>1, <2>2, <2>5 DEF OutboxTold, OutboxOrder, Precedes, Talks, Closing
    <3>2. PageTold' /\ PageLeads' /\ PageOrder'
      BY <2>5 DEF PageTold, PageLeads, PageOrder
    <3> QED BY <3>1, <3>2
  <2> QED BY <1>2, <2>4, <2>5, PageStep
<1> QED BY <1>1, <1>2

----------------------------------------------------------------------------
(* The theorems                                                            *)

LEMMA TypeAlways == Spec => []TypeInv
<1>1. TypeInv /\ [Next]_vars => TypeInv'
  BY TypeStep, OutcomeStep DEF TypeInv
<1> QED BY TypeInit, <1>1, PTL DEF Spec

LEMMA FreshAlways == Spec => []Fresh
<1>1. TypeInv /\ Fresh /\ [Next]_vars => Fresh'
  BY FreshStep
<1> QED BY TypeAlways, FreshInit, <1>1, PTL DEF Spec

\* The variables stay in their types: every answer of a worker is one the page knows.
THEOREM TypeCorrect == Spec => []TypeOK
<1>1. TypeInv => TypeOK
  BY DEF TypeInv
<1> QED BY TypeAlways, <1>1, PTL

\* A statement can be cancelled for as long as it runs, and what stays in the table of
\* running statements ended in a failure.
THEOREM RunningStatementsAreListed == Spec => []TableIsRight
<1>1. TypeInv /\ Fresh /\ TableInv /\ [Next]_vars => TableInv'
  BY TableStep
<1>2. TypeInv /\ TableInv => TableIsRight
  BY DEF TypeInv, TypeOK, TableInv, TableAt, TableIsRight, Stmt
<1> QED BY TypeAlways, FreshAlways, TableInit, <1>1, <1>2, PTL DEF Spec

\* An audit record says completed of a statement that had a result and error of one that
\* had none; one that stays started has been missed by its update.
THEOREM AuditRecordsAreTrue == Spec => []AuditIsTrue
<1>1. TypeInv /\ Fresh /\ RecordInv /\ [Next]_vars => RecordInv'
  BY RecordStep
<1>2. RecordInv => AuditIsTrue
  BY Watch DEF RecordInv, RecordAt, AuditIsTrue
<1> QED BY TypeAlways, FreshAlways, RecordInit, <1>1, <1>2, PTL DEF Spec

\* While the tab is marked busy the answer that lifts the mark is to come, unless it was
\* lost in one of the ways listed.
THEOREM BusyTabsAwaitAnAnswer == Spec => []BusyIsHonest
<1>1. TypeInv /\ Around /\ [Next]_vars => Around'
  BY AroundStep
<1>2. TypeInv /\ Fresh /\ Around /\ MarkInv /\ [Next]_vars => MarkInv'
  BY MarkStep
<1>3. MarkInv => BusyIsHonest
  BY DEF MarkInv, MarkAt, Begun, Asked, Answering, BusyIsHonest, Coming
<1> QED BY TypeAlways, FreshAlways, MarkInit, <1>1, <1>2, <1>3, PTL DEF Spec

\* The answers of a run reach the page in the order of its statements, the page of a
\* result before the row count or the error that closes it, and the panels stand in that
\* order too, whatever else the user, the connection and the other runs do.
THEOREM AnswersKeepTheirOrder == Spec => []AnswersInOrder
<1>1. TypeInv /\ Fresh /\ OrderInv /\ [Next]_vars => OrderInv'
  BY OrderStep
<1>2. OrderInv => AnswersInOrder
  BY DEF OrderInv, OutboxOrder, PageOrder, PageLeads, AnswersInOrder, Talks, Precedes, Leads, Closing
<1> QED BY TypeAlways, FreshAlways, OrderInit, <1>1, <1>2, PTL DEF Spec
=============================================================================
