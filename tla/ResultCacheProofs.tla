------------------------- MODULE ResultCacheProofs --------------------------
(***************************************************************************)
(* Proofs of the safety properties of ResultCache, for any sets of result  *)
(* ids, queries and removers, any page size and any number of rows.        *)
(***************************************************************************)
EXTENDS ResultCache, TLAPS

\* The three kinds of message.
LEMMA MessageTypes ==
  ASSUME NEW r \in Result, NEW n \in Nat, NEW b \in BOOLEAN
  PROVE  Page(r, n, b) \in Message /\ RowCount(r, n, b) \in Message /\ Error(r) \in Message
BY DEF Message, Page, RowCount, Error

LEMMA TypeInit == Init => TypeOK
BY ResultCacheAssumption DEF ResultCacheAssumption, Init, TypeOK, Idle, NoPage

LEMMA TypeStep == TypeOK /\ [Next]_vars => TypeOK'
<1> SUFFICES ASSUME TypeOK, [Next]_vars PROVE TypeOK'
  OBVIOUS
<1> USE ResultCacheAssumption DEF ResultCacheAssumption
<1>1. ASSUME NEW q \in Query, NEW r \in Result, NEW n \in 0 .. MaxStatements - 1, Submit(q, r, n)
      PROVE TypeOK'
  BY <1>1 DEF TypeOK, Submit, dbVars, removeVars, cleanVars, Working
<1>2. ASSUME NEW r \in Result, Worker(r)  PROVE TypeOK'
  <2>1. CASE FindExisting(r)
    BY <2>1 DEF TypeOK, FindExisting, dbVars, cleanVars, Working, RowsOf, Rows, Agent
  <2>2. CASE Execute(r)
    <3>1. sent' \subseteq Message
      <4>1. ASSUME NEW n \in Sizes  PROVE Page(r, n, FALSE) \in Message
        BY <4>1, MessageTypes
      <4>2. sent \subseteq Message
        BY DEF TypeOK
      <4>3. ASSUME NEW n \in Sizes, sent' = sent \cup {Page(r, n, FALSE)}  PROVE sent' \subseteq Message
        BY <4>1, <4>2, <4>3
      <4>4. \/ sent' = sent
            \/ \E n \in Sizes : sent' = sent \cup {Page(r, n, FALSE)}
        BY <2>2 DEF Execute
      <4> QED BY <4>2, <4>3, <4>4
    <3>2. pc' \in [Result -> {"unused", "done", "killed"} \cup Working]
      BY <2>2 DEF TypeOK, Execute, Working
    <3>3. size' \in [Result -> Nat]
      BY <2>2 DEF TypeOK, Execute
    <3> QED BY <2>2, <3>1, <3>2, <3>3 DEF TypeOK, Execute, dbVars, removeVars, cleanVars
  <2>3. CASE Register(r)
    BY <2>3 DEF TypeOK, Register, removeVars, cleanVars, Working
  <2>4. CASE CreateTable(r)
    BY <2>4 DEF TypeOK, CreateTable, removeVars, cleanVars, Working
  <2>5. CASE StoreRow(r)
    <3>1. sent' \subseteq Message
      <4>1. Page(r, PageSize, TRUE) \in Message
        BY MessageTypes
      <4> QED BY <2>5, <4>1 DEF TypeOK, StoreRow
    <3>2. count' \in [Result -> Nat]
      BY <2>5 DEF TypeOK, StoreRow
    <3> QED BY <2>5, <3>1, <3>2 DEF TypeOK, StoreRow, dbVars, removeVars, cleanVars
  <2>6. CASE Fail(r)
    BY <2>6, MessageTypes DEF TypeOK, Fail, dbVars, removeVars, cleanVars
  <2>7. CASE SendPage(r)
    BY <2>7, MessageTypes DEF TypeOK, SendPage, dbVars, removeVars, cleanVars, Working
  <2>8. CASE Complete(r)
    <3>1. sent' \subseteq Message
      <4>1. RowCount(r, count[r], count[r] = MaxRows) \in Message
        BY MessageTypes DEF TypeOK
      <4> QED BY <2>8, <4>1 DEF TypeOK, Complete
    <3>2. status' \in [Result -> {"none", "starting", "complete"}]
      BY <2>8 DEF TypeOK, Complete, CompletedStatus
    <3> QED BY <2>8, <3>1, <3>2 DEF TypeOK, Complete, removeVars, cleanVars
  <2>9. ASSUME NEW s \in Result, NextStatement(r, s)  PROVE TypeOK'
    <3>1. run' \in [Result -> [query : Query \cup {NoQuery}, index : Nat, left : Nat]]
      <4> DEFINE Row == [query : Query \cup {NoQuery}, index : Nat, left : Nat]
      <4>1. [run[r] EXCEPT !.left = 0] \in Row
        BY DEF TypeOK
      <4>2. [query |-> run[r].query, index |-> run[r].index + 1, left |-> run[r].left - 1] \in Row
        BY <2>9 DEF TypeOK, NextStatement
      <4> HIDE DEF Row
      <4>3. run \in [Result -> Row]
        BY DEF TypeOK, Row
      <4>4. run' \in [Result -> Row]
        BY <2>9, <4>1, <4>2, <4>3 DEF NextStatement
      <4> QED BY <4>4 DEF Row
    <3> QED BY <2>9, <3>1 DEF TypeOK, NextStatement, dbVars, removeVars, cleanVars, Working
  <2> QED BY <1>2, <2>1, <2>2, <2>3, <2>4, <2>5, <2>6, <2>7, <2>8, <2>9 DEF Worker
<1>3. ASSUME NEW t \in tasks, Remove(t)  PROVE TypeOK'
  <2> DEFINE Task == [by : Agent, id : Result, at : {"check", "row", "drop"}]
  <2>1. ASSUME NEW at \in {"row", "drop"}, MoveTask(t, at)  PROVE tasks' \subseteq Task
    <3>1. [t EXCEPT !.at = at] \in Task
      BY DEF TypeOK
    <3> QED BY <2>1, <3>1 DEF TypeOK, MoveTask
  <2>2. tasks' \subseteq Task
    BY <1>3, <2>1 DEF TypeOK, Remove, RemoveCheck, RemoveRow, RemoveTable
  <2>3. t.id \in Result
    BY DEF TypeOK
  <2> QED BY <1>3, <2>2, <2>3 DEF TypeOK, Remove, RemoveCheck, RemoveRow, RemoveTable,
                                  runVars, dbVars, cleanVars
<1>4. ASSUME NEW a \in Remover \cup {Cleaner}, StartRemove(a)  PROVE TypeOK'
  BY <1>4 DEF TypeOK, StartRemove, runVars, dbVars, cleanVars, Agent
<1>5. ASSUME NEW m \in Remover, NEW ids \in SUBSET Result, AskRemoval(m, ids)  PROVE TypeOK'
  BY <1>5 DEF TypeOK, AskRemoval, runVars, dbVars, cleanVars
<1>6. ASSUME NEW r \in Result, Share(r) \/ Unshare(r) \/ Age(r)  PROVE TypeOK'
  <2>1. CASE Share(r)
    <3>1. TableName(r) \in [id : Result, prefix : BOOLEAN]
      BY DEF TableName
    <3> QED BY <2>1, <3>1 DEF TypeOK, Share, runVars, removeVars, cleanVars
  <2>2. CASE Unshare(r)
    BY <2>2 DEF TypeOK, Unshare, runVars, removeVars
  <2>3. CASE Age(r)
    BY <2>3 DEF TypeOK, Age, Rows, runVars, dbVars, removeVars
  <2> QED BY <1>6, <2>1, <2>2, <2>3
<1>7. CASE Cleanup
  <2> USE DEF TypeOK, CleanerUnchanged, runVars, Idle
  <2>1. CASE CleanupTick
    BY <2>1 DEF CleanupTick, SharedIds
  <2>2. CASE CleanupReadRows
    BY <2>2 DEF CleanupReadRows, Rows
  <2>3. CASE CleanupReadTables
    BY <2>3 DEF CleanupReadTables
  <2>4. ASSUME NEW r \in Result, CleanupDropOrphan(r)  PROVE TypeOK'
    BY <2>4 DEF CleanupDropOrphan
  <2>5. CASE CleanupFails
    BY <2>5 DEF CleanupFails
  <2>6. CASE CleanupExpire
    BY <2>6 DEF CleanupExpire, Expired
  <2>7. CASE CleanupEnd
    BY <2>7 DEF CleanupEnd
  <2> QED BY <1>7, <2>1, <2>2, <2>3, <2>4, <2>5, <2>6, <2>7 DEF Cleanup
<1>8. ASSUME AdminListRows \/ AdminListTables \/ \E r \in Result : AdminRemoveOrphan(r)
      PROVE TypeOK'
  <2> USE DEF TypeOK, runVars, dbVars, removeVars, cleanVars
  <2>1. CASE AdminListRows
    BY <2>1 DEF AdminListRows, Rows
  <2>2. CASE AdminListTables
    BY <2>2 DEF AdminListTables
  <2>3. ASSUME NEW r \in Result, AdminRemoveOrphan(r)  PROVE TypeOK'
    BY <2>3 DEF AdminRemoveOrphan
  <2> QED BY <1>8, <2>1, <2>2, <2>3
<1>9. CASE Restart
  <2>1. run' \in [Result -> [query : Query \cup {NoQuery}, index : Nat, left : Nat]]
    <3>1. ASSUME NEW r \in Result
          PROVE  [run[r] EXCEPT !.left = 0] \in [query : Query \cup {NoQuery}, index : Nat, left : Nat]
      BY DEF TypeOK
    <3> QED BY <1>9, <3>1 DEF Restart
  <2>2. /\ pc' \in [Result -> {"unused", "done", "killed"} \cup Working]
        /\ tasks' = {} /\ todo' \in [Remover \cup {Cleaner} -> SUBSET Result]
        /\ targeted' \subseteq Result
    BY <1>9 DEF TypeOK, Restart, Working
  <2>3. cleaner' \in [at : {"idle", "rows", "tables", "orphans", "expire", "stopped"},
                      cutoff : SUBSET Result, spared : SUBSET Result,
                      rows : SUBSET Result, orphans : SUBSET Result]
    BY <1>9 DEF Restart, Idle
  <2>4. admin' \in [listing : BOOLEAN, rows : SUBSET Result, orphans : SUBSET Result]
    BY <1>9 DEF TypeOK, Restart, NoPage
  <2> QED BY <1>9, <2>1, <2>2, <2>3, <2>4 DEF TypeOK, Restart, dbVars
<1>10. CASE UNCHANGED vars
  BY <1>10 DEF TypeOK, vars, runVars, dbVars, removeVars, cleanVars
<1>11. ASSUME NEW m \in Remover, (\E q \in Query : CloseQuery(m, q)) \/ (\E r \in Result : AdminRemove(m, r))
       PROVE TypeOK'
  BY <1>5, <1>11 DEF CloseQuery, AdminRemove, RowsOf, Rows
<1> QED
  BY <1>1, <1>2, <1>3, <1>4, <1>6, <1>7, <1>8, <1>9, <1>10, <1>11 DEF Next


----------------------------------------------------------------------------
(* The inductive invariant                                                 *)

\* The worker has inserted the catalog row of r, and may still be at work.
Registered(r) == pc[r] \in {"create", "fill", "complete"} \/ count[r] > 0
HasPage(r) == \E m \in sent : m.type = "page" /\ m.id = r

\* Only the id of a registered result is ever named by anybody, a table is
\* dropped by remove after its row, and an orphan was not in the listing.
CatalogInv ==
  /\ \A r \in Result : status[r] # "none" => Known(r)
  /\ \A t \in tasks : Known(t.id) /\ (t.at = "drop" => status[t.id] = "none")
  /\ \A a \in Remover \cup {Cleaner} : \A r \in todo[a] : Known(r)
  /\ \A r \in targeted \cup cleaner.rows : Known(r)
  /\ shared \subseteq {TableName(r) : r \in Result}
  /\ cleaner.orphans \cap cleaner.rows = {}
  /\ cleaner.at # "orphans" => cleaner.orphans = {}

\* The clean-up takes no new list while it works one off.
RemovalInv ==
  /\ cleaner.at # "expire" => todo[Cleaner] = {}
  /\ TargetedIsPending

\* Whoever may be removed was asked for, or was old and not shared.
ExpiryInv ==
  /\ aged \ SharedIds \subseteq exposed
  /\ cleaner.cutoff \ cleaner.spared \subseteq exposed
  /\ \A t \in tasks : t.id \in targeted \cup exposed
  /\ \A a \in Remover \cup {Cleaner} : todo[a] \subseteq targeted \cup exposed
  /\ \A r \in Result : (Registered(r) /\ status[r] = "none") => r \in targeted \cup exposed

\* What the worker has stored and sent at each point of its run.
MessageInv ==
  /\ \A m \in sent : pc[m.id] \notin {"unused", "find", "execute", "register", "create"}
  /\ \A r \in Result :
       /\ pc[r] \in {"register", "create"} => size[r] >= 2
       /\ pc[r] = "fill" => /\ 1 <= count[r] /\ count[r] <= size[r] /\ count[r] <= MaxRows
                            /\ HasPage(r) <=> count[r] > PageSize
       /\ pc[r] = "complete" => /\ count[r] <= size[r] /\ HasPage(r)
                                /\ count[r] = MaxRows \/ count[r] = size[r]
       /\ status[r] = "complete" => pc[r] = "done"
  /\ CompleteIsStored
  /\ ClientToldTheTruth

IInv == TypeOK /\ CatalogInv /\ RemovalInv /\ ExpiryInv /\ MessageInv

LEMMA InitIInv == Init => IInv
<1> SUFFICES ASSUME Init PROVE IInv
  OBVIOUS
<1>1. TypeOK
  BY TypeInit
<1>2. CatalogInv /\ RemovalInv
  BY DEF Init, CatalogInv, RemovalInv, TargetedIsPending, Idle
<1>3. ExpiryInv
  BY DEF Init, ExpiryInv, Registered, Idle
<1>4. MessageInv
  BY DEF Init, MessageInv, CompleteIsStored, ClientToldTheTruth
<1> QED BY <1>1, <1>2, <1>3, <1>4 DEF IInv

----------------------------------------------------------------------------
(* What the parties other than the workers can change                      *)

Others ==
  \/ \E r \in Result : Share(r) \/ Unshare(r) \/ Age(r) \/ AdminRemoveOrphan(r)
  \/ \E t \in tasks : Remove(t)
  \/ \E a \in Remover \cup {Cleaner} : StartRemove(a)
  \/ \E m \in Remover, q \in Query : CloseQuery(m, q)
  \/ \E m \in Remover, r \in Result : AdminRemove(m, r)
  \/ Cleanup \/ AdminListRows \/ AdminListTables
  \/ UNCHANGED vars

LEMMA OthersLeaveRuns ==
  ASSUME TypeOK, Others
  PROVE  /\ UNCHANGED <<run, pc, size, count, sent>>
         /\ \A r \in Result : status'[r] \in {status[r], "none"}
<1> USE DEF runVars, dbVars
<1>1. ASSUME NEW t \in tasks, Remove(t)
      PROVE  /\ UNCHANGED <<run, pc, size, count, sent>>
             /\ \A r \in Result : status'[r] \in {status[r], "none"}
  <2>1. CASE RemoveRow(t)
    BY <2>1 DEF RemoveRow, TypeOK
  <2>2. CASE RemoveCheck(t) \/ RemoveTable(t)
    BY <2>2 DEF RemoveCheck, RemoveTable
  <2> QED BY <1>1, <2>1, <2>2 DEF Remove
<1>2. CASE Cleanup
  BY <1>2 DEF Cleanup, CleanerUnchanged, CleanupTick, CleanupReadRows, CleanupReadTables,
              CleanupDropOrphan, CleanupFails, CleanupExpire, CleanupEnd
<1>3. CASE AdminListRows \/ AdminListTables \/ \E r \in Result : AdminRemoveOrphan(r)
  BY <1>3 DEF AdminListRows, AdminListTables, AdminRemoveOrphan
<1>4. CASE \/ \E a \in Remover \cup {Cleaner} : StartRemove(a)
           \/ \E m \in Remover, q \in Query : CloseQuery(m, q)
           \/ \E m \in Remover, r \in Result : AdminRemove(m, r)
  BY <1>4 DEF StartRemove, CloseQuery, AdminRemove, AskRemoval
<1>5. CASE \E r \in Result : Share(r) \/ Unshare(r) \/ Age(r)
  BY <1>5 DEF Share, Unshare, Age
<1>6. CASE UNCHANGED vars
  BY <1>6 DEF vars
<1> QED BY <1>1, <1>2, <1>3, <1>4, <1>5, <1>6 DEF Others

LEMMA NextCases ==
  [Next]_vars =>
    \/ \E q \in Query, r \in Result, n \in 0 .. MaxStatements - 1 : Submit(q, r, n)
    \/ \E r \in Result : Worker(r)
    \/ Others
    \/ Restart
BY Zenon DEF Next, Others

\* A result that has been registered stays known.
LEMMA KnownStable ==
  ASSUME TypeOK, [Next]_vars, NEW x \in Result, Known(x)
  PROVE  Known(x)'
<1> USE DEF Known
<1>1. CASE \E q \in Query, r \in Result, n \in 0 .. MaxStatements - 1 : Submit(q, r, n)
  BY <1>1 DEF Submit, TypeOK
<1>2. ASSUME NEW r \in Result, Worker(r)  PROVE Known(x)'
  <2>1. CASE \E s \in Result : NextStatement(r, s)
    BY <2>1 DEF NextStatement, TypeOK
  <2>2. CASE FindExisting(r) \/ Execute(r) \/ Register(r)
    BY <2>2 DEF FindExisting, Execute, Register, TypeOK
  <2>3. CASE CreateTable(r) \/ StoreRow(r) \/ Fail(r) \/ SendPage(r) \/ Complete(r)
    BY <2>3 DEF CreateTable, StoreRow, Fail, SendPage, Complete, TypeOK
  <2> QED BY <1>2, <2>1, <2>2, <2>3 DEF Worker
<1>3. CASE Others
  BY <1>3, OthersLeaveRuns
<1>4. CASE Restart
  BY <1>4 DEF Restart, TypeOK, Working
<1> QED BY <1>1, <1>2, <1>3, <1>4, NextCases

----------------------------------------------------------------------------
(* The catalog                                                             *)

LEMMA CatalogStep == TypeOK /\ CatalogInv /\ [Next]_vars => CatalogInv'
<1> SUFFICES ASSUME TypeOK, CatalogInv, [Next]_vars PROVE CatalogInv'
  OBVIOUS
<1>k. \A x \in Result : Known(x) => Known(x)'
  BY KnownStable
<1>t. tasks \subseteq [by : Agent, id : Result, at : {"check", "row", "drop"}]
  BY DEF TypeOK
<1>1. CASE \E q \in Query, r \in Result, n \in 0 .. MaxStatements - 1 : Submit(q, r, n)
  BY <1>1, <1>k, <1>t DEF Submit, CatalogInv, TypeOK, dbVars, removeVars, cleanVars
<1>2. ASSUME NEW r \in Result, Worker(r)  PROVE CatalogInv'
  <2>1. CASE FindExisting(r)
    BY <2>1, <1>k, <1>t DEF FindExisting, RowsOf, Rows, CatalogInv, TypeOK, dbVars, cleanVars
  <2>2. CASE Register(r)
    <3>1. ~Known(r) /\ Known(r)'
      BY <2>2 DEF Register, Known, TypeOK
    <3> QED BY <2>2, <1>k, <1>t, <3>1 DEF Register, CatalogInv, TypeOK, removeVars, cleanVars
  <2>3. CASE Complete(r)
    BY <2>3, <1>k, <1>t DEF Complete, CompletedStatus, CatalogInv, TypeOK, removeVars, cleanVars
  <2>4. CASE Execute(r) \/ CreateTable(r) \/ StoreRow(r) \/ Fail(r) \/ SendPage(r)
             \/ \E s \in Result : NextStatement(r, s)
    BY <2>4, <1>k, <1>t DEF Execute, CreateTable, StoreRow, Fail, SendPage, NextStatement,
                            CatalogInv, TypeOK, dbVars, removeVars, cleanVars
  <2> QED BY <1>2, <2>1, <2>2, <2>3, <2>4 DEF Worker
<1>3. ASSUME NEW t \in tasks, Remove(t)  PROVE CatalogInv'
  <2>1. CASE RemoveCheck(t)
    BY <2>1, <1>k, <1>t DEF RemoveCheck, MoveTask, CatalogInv, TypeOK, runVars, dbVars, cleanVars
  <2>2. CASE RemoveRow(t)
    BY <2>2, <1>k, <1>t DEF RemoveRow, MoveTask, CatalogInv, TypeOK, runVars, cleanVars
  <2>3. CASE RemoveTable(t)
    BY <2>3, <1>k, <1>t DEF RemoveTable, CatalogInv, TypeOK, runVars, cleanVars
  <2> QED BY <1>3, <2>1, <2>2, <2>3 DEF Remove
<1>4. ASSUME NEW a \in Remover \cup {Cleaner}, StartRemove(a)  PROVE CatalogInv'
  BY <1>4, <1>k, <1>t DEF StartRemove, CatalogInv, TypeOK, runVars, dbVars, cleanVars
<1>5. ASSUME NEW m \in Remover, NEW ids \in SUBSET Result, \A x \in ids : Known(x), AskRemoval(m, ids)
      PROVE CatalogInv'
  BY <1>5, <1>k, <1>t DEF AskRemoval, CatalogInv, TypeOK, runVars, dbVars, cleanVars
<1>6. ASSUME NEW m \in Remover, (\E q \in Query : CloseQuery(m, q)) \/ (\E r \in Result : AdminRemove(m, r))
      PROVE CatalogInv'
  BY <1>5, <1>6 DEF CloseQuery, AdminRemove, RowsOf, Rows, CatalogInv
<1>7. ASSUME NEW r \in Result, Share(r) \/ Unshare(r) \/ Age(r)  PROVE CatalogInv'
  BY <1>7, <1>k, <1>t DEF Share, Unshare, Age, CatalogInv, TypeOK, runVars, dbVars, removeVars, cleanVars
<1>8. CASE Cleanup
  <2> USE <1>k, <1>t DEF CatalogInv, TypeOK, CleanerUnchanged, runVars
  <2>1. CASE CleanupTick
    BY <2>1 DEF CleanupTick
  <2>2. CASE CleanupReadRows
    BY <2>2 DEF CleanupReadRows, Rows
  <2>3. CASE CleanupReadTables
    BY <2>3 DEF CleanupReadTables
  <2>4. ASSUME NEW r \in Result, CleanupDropOrphan(r)  PROVE CatalogInv'
    BY <2>4 DEF CleanupDropOrphan
  <2>5. CASE CleanupFails
    BY <2>5 DEF CleanupFails, Idle
  <2>6. CASE CleanupExpire
    BY <2>6 DEF CleanupExpire, Expired, Idle
  <2>7. CASE CleanupEnd
    BY <2>7 DEF CleanupEnd, Idle
  <2> QED BY <1>8, <2>1, <2>2, <2>3, <2>4, <2>5, <2>6, <2>7 DEF Cleanup
<1>9. CASE AdminListRows \/ AdminListTables \/ \E r \in Result : AdminRemoveOrphan(r)
  BY <1>9, <1>k, <1>t DEF AdminListRows, AdminListTables, AdminRemoveOrphan, CatalogInv, TypeOK,
                          runVars, dbVars, removeVars, cleanVars
<1>10. CASE Restart
  BY <1>10, <1>k, <1>t DEF Restart, Idle, CatalogInv, TypeOK, dbVars
<1>11. CASE UNCHANGED vars
  BY <1>11, <1>k, <1>t DEF vars, CatalogInv, TypeOK, runVars, dbVars, removeVars, cleanVars
<1> QED
  BY <1>1, <1>2, <1>3, <1>4, <1>6, <1>7, <1>8, <1>9, <1>10, <1>11 DEF Next

----------------------------------------------------------------------------
(* No removal is forgotten                                                 *)

\* Shares are kept under the name of the table, so the look-up by the bare
\* id never finds one.
LEMMA NeverContained ==
  ASSUME CatalogInv, NEW r \in Result
  PROVE  ~ContainsResultId(r)
BY DEF CatalogInv, ContainsResultId, HexName, TableName

LEMMA RemovalStep == TypeOK /\ CatalogInv /\ RemovalInv /\ [Next]_vars => RemovalInv'
<1> SUFFICES ASSUME TypeOK, CatalogInv, RemovalInv, [Next]_vars PROVE RemovalInv'
  OBVIOUS
<1>t. tasks \subseteq [by : Agent, id : Result, at : {"check", "row", "drop"}]
  BY DEF TypeOK
<1> USE DEF RemovalInv, TargetedIsPending, RemovalPending
<1>1. CASE \E q \in Query, r \in Result, n \in 0 .. MaxStatements - 1 : Submit(q, r, n)
  BY <1>1 DEF Submit, dbVars, removeVars, cleanVars
<1>2. ASSUME NEW r \in Result, Worker(r)  PROVE RemovalInv'
  <2>1. CASE FindExisting(r)
    <3> DEFINE found == IF run[r].index = 0 THEN RowsOf(run[r].query) ELSE {}
    <3>1. /\ tasks' = tasks \cup {[by |-> r, id |-> x, at |-> "check"] : x \in found}
          /\ targeted' = targeted \cup found
          /\ UNCHANGED <<status, todo, cleaner>>
      BY <2>1 DEF FindExisting, dbVars, cleanVars
    <3> HIDE DEF found
    <3>2. ASSUME NEW x \in found  PROVE \E t \in tasks' : t.id = x /\ t.at \in {"check", "row"}
      <4>1. [by |-> r, id |-> x, at |-> "check"] \in tasks'
        BY <3>1
      <4> QED BY <4>1
    <3>3. ASSUME NEW x \in targeted, status[x] # "none"  PROVE RemovalPending(x)'
      BY <3>1, <3>3
    <3> QED BY <3>1, <3>2, <3>3
  <2>2. CASE Register(r)
    <3>1. r \notin targeted
      BY <2>2 DEF Register, Known, CatalogInv
    <3> QED BY <2>2, <3>1 DEF Register, TypeOK, removeVars, cleanVars
  <2>3. CASE Complete(r)
    BY <2>3 DEF Complete, CompletedStatus, TypeOK, removeVars, cleanVars
  <2>4. CASE Execute(r) \/ CreateTable(r) \/ StoreRow(r) \/ Fail(r) \/ SendPage(r)
             \/ \E s \in Result : NextStatement(r, s)
    BY <2>4 DEF Execute, CreateTable, StoreRow, Fail, SendPage, NextStatement,
                dbVars, removeVars, cleanVars
  <2> QED BY <1>2, <2>1, <2>2, <2>3, <2>4 DEF Worker
<1>3. ASSUME NEW t \in tasks, Remove(t)  PROVE RemovalInv'
  <2>1. CASE RemoveCheck(t)
    <3>1. /\ [t EXCEPT !.at = "row"] \in tasks' /\ tasks \ {t} \subseteq tasks'
          /\ UNCHANGED <<status, todo, targeted, cleaner>>
      BY <2>1, <1>t, NeverContained DEF RemoveCheck, MoveTask, dbVars, cleanVars
    <3>2. [t EXCEPT !.at = "row"].id = t.id /\ [t EXCEPT !.at = "row"].at = "row"
      BY <1>t
    <3> QED BY <3>1, <3>2
  <2>2. CASE RemoveRow(t)
    <3>1. /\ tasks \ {t} \subseteq tasks' /\ status' = [status EXCEPT ![t.id] = "none"]
          /\ UNCHANGED <<todo, targeted, cleaner>>
      BY <2>2 DEF RemoveRow, MoveTask, cleanVars
    <3> QED BY <3>1, <1>t DEF TypeOK
  <2>3. CASE RemoveTable(t)
    <3>1. /\ t.at = "drop" /\ tasks' = tasks \ {t}
          /\ UNCHANGED <<status, todo, targeted, cleaner>>
      BY <2>3 DEF RemoveTable, cleanVars
    <3> QED BY <3>1
  <2> QED BY <1>3, <2>1, <2>2, <2>3 DEF Remove
<1>4. ASSUME NEW a \in Remover \cup {Cleaner}, StartRemove(a)  PROVE RemovalInv'
  <2>1. PICK r \in todo[a] : /\ todo' = [todo EXCEPT ![a] = @ \ {r}]
                             /\ tasks' = tasks \cup {[by |-> a, id |-> r, at |-> "check"]}
    BY <1>4 DEF StartRemove
  <2>2. UNCHANGED <<status, targeted, cleaner>>
    BY <1>4 DEF StartRemove, dbVars, cleanVars
  <2>3. [by |-> a, id |-> r, at |-> "check"] \in tasks'
    BY <2>1
  <2>4. ASSUME NEW x \in targeted, status[x] # "none"  PROVE RemovalPending(x)'
    <3>1. CASE x = r
      BY <2>3, <3>1
    <3>2. CASE x # r
      BY <2>1, <2>4, <3>2 DEF TypeOK
    <3> QED BY <3>1, <3>2
  <2> QED BY <2>1, <2>2, <2>4 DEF TypeOK
<1>5. ASSUME NEW m \in Remover, NEW ids \in SUBSET Result, AskRemoval(m, ids)  PROVE RemovalInv'
  BY <1>5, ResultCacheAssumption DEF AskRemoval, TypeOK, dbVars, cleanVars, ResultCacheAssumption
<1>6. ASSUME NEW m \in Remover, (\E q \in Query : CloseQuery(m, q)) \/ (\E r \in Result : AdminRemove(m, r))
      PROVE RemovalInv'
  BY <1>5, <1>6 DEF CloseQuery, AdminRemove, RowsOf, Rows
<1>7. ASSUME NEW r \in Result, Share(r) \/ Unshare(r) \/ Age(r)  PROVE RemovalInv'
  BY <1>7 DEF Share, Unshare, Age, runVars, dbVars, removeVars, cleanVars
<1>8. CASE Cleanup
  <2> USE DEF CleanerUnchanged, TypeOK
  <2>1. CASE CleanupExpire
    BY <2>1 DEF CleanupExpire, Idle
  <2>2. CASE CleanupEnd
    BY <2>2 DEF CleanupEnd, Idle
  <2>3. CASE CleanupFails
    BY <2>3 DEF CleanupFails, Idle
  <2>4. CASE CleanupTick \/ CleanupReadRows \/ CleanupReadTables
             \/ \E r \in Result : CleanupDropOrphan(r)
    BY <2>4 DEF CleanupTick, CleanupReadRows, CleanupReadTables, CleanupDropOrphan
  <2> QED BY <1>8, <2>1, <2>2, <2>3, <2>4 DEF Cleanup
<1>9. CASE AdminListRows \/ AdminListTables \/ \E r \in Result : AdminRemoveOrphan(r)
  BY <1>9 DEF AdminListRows, AdminListTables, AdminRemoveOrphan, runVars, dbVars, removeVars, cleanVars
<1>10. CASE Restart
  BY <1>10 DEF Restart, Rows, Idle, TypeOK, dbVars
<1>11. CASE UNCHANGED vars
  BY <1>11 DEF vars, dbVars, removeVars, cleanVars
<1> QED
  BY <1>1, <1>2, <1>3, <1>4, <1>6, <1>7, <1>8, <1>9, <1>10, <1>11 DEF Next

----------------------------------------------------------------------------
(* What may be removed                                                     *)

LEMMA ExpiryStep == TypeOK /\ CatalogInv /\ ExpiryInv /\ [Next]_vars => ExpiryInv'
<1> SUFFICES ASSUME TypeOK, CatalogInv, ExpiryInv, [Next]_vars PROVE ExpiryInv'
  OBVIOUS
<1>t. tasks \subseteq [by : Agent, id : Result, at : {"check", "row", "drop"}]
  BY DEF TypeOK
<1> USE DEF ExpiryInv, Registered
<1>1. CASE \E q \in Query, r \in Result, n \in 0 .. MaxStatements - 1 : Submit(q, r, n)
  BY <1>1 DEF Submit, SharedIds, TypeOK, dbVars, removeVars, cleanVars
<1>2. ASSUME NEW r \in Result, Worker(r)  PROVE ExpiryInv'
  <2> USE DEF SharedIds, TypeOK
  <2>1. CASE FindExisting(r)
    BY <2>1, <1>t DEF FindExisting, RowsOf, Rows, dbVars, cleanVars
  <2>2. CASE Register(r) \/ CreateTable(r)
    BY <2>2 DEF Register, CreateTable, removeVars, cleanVars
  <2>3. CASE StoreRow(r)
    BY <2>3 DEF StoreRow, dbVars, removeVars, cleanVars
  <2>4. CASE Complete(r)
    BY <2>4 DEF Complete, CompletedStatus, removeVars, cleanVars
  <2>5. CASE Execute(r)
    <3>1. /\ pc' \in {[pc EXCEPT ![r] = "done"], [pc EXCEPT ![r] = "register"]}
          /\ UNCHANGED <<count, status, shared, tasks, todo, targeted, cleaner, aged, exposed>>
      BY <2>5 DEF Execute, dbVars, removeVars, cleanVars
    <3> QED BY <3>1
  <2>6. CASE Fail(r) \/ SendPage(r)
    BY <2>6 DEF Fail, SendPage, dbVars, removeVars, cleanVars
  <2>7. CASE \E s \in Result : NextStatement(r, s)
    BY <2>7 DEF NextStatement, dbVars, removeVars, cleanVars
  <2> QED BY <1>2, <2>1, <2>2, <2>3, <2>4, <2>5, <2>6, <2>7 DEF Worker
<1>3. ASSUME NEW t \in tasks, Remove(t)  PROVE ExpiryInv'
  <2> USE DEF SharedIds
  <2>1. CASE RemoveCheck(t)
    BY <2>1, <1>t DEF RemoveCheck, MoveTask, runVars, dbVars, cleanVars
  <2>2. CASE RemoveRow(t)
    BY <2>2, <1>t DEF RemoveRow, MoveTask, TypeOK, runVars, cleanVars
  <2>3. CASE RemoveTable(t)
    BY <2>3 DEF RemoveTable, runVars, cleanVars
  <2> QED BY <1>3, <2>1, <2>2, <2>3 DEF Remove
<1>4. ASSUME NEW a \in Remover \cup {Cleaner}, StartRemove(a)  PROVE ExpiryInv'
  BY <1>4 DEF StartRemove, SharedIds, TypeOK, runVars, dbVars, cleanVars
<1>5. ASSUME NEW m \in Remover, NEW ids \in SUBSET Result, AskRemoval(m, ids)  PROVE ExpiryInv'
  BY <1>5 DEF AskRemoval, SharedIds, TypeOK, runVars, dbVars, cleanVars
<1>6. ASSUME NEW m \in Remover, (\E q \in Query : CloseQuery(m, q)) \/ (\E r \in Result : AdminRemove(m, r))
      PROVE ExpiryInv'
  BY <1>5, <1>6 DEF CloseQuery, AdminRemove, RowsOf, Rows
<1>7. ASSUME NEW r \in Result, Share(r) \/ Unshare(r) \/ Age(r)  PROVE ExpiryInv'
  <2>1. CASE Share(r)
    BY <2>1 DEF Share, SharedIds, runVars, removeVars, cleanVars
  <2>2. CASE Unshare(r)
    <3>1. SharedIds \ {r} \subseteq SharedIds'
      BY <2>2 DEF Unshare, SharedIds, TableName
    <3> QED BY <2>2, <3>1 DEF Unshare, runVars, removeVars
  <2>3. CASE Age(r)
    BY <2>3 DEF Age, SharedIds, runVars, dbVars, removeVars
  <2> QED BY <1>7, <2>1, <2>2, <2>3
<1>8. CASE Cleanup
  <2> USE DEF CleanerUnchanged, SharedIds, TypeOK, runVars
  <2>1. CASE CleanupTick
    BY <2>1 DEF CleanupTick
  <2>2. CASE CleanupExpire
    BY <2>2 DEF CleanupExpire, Expired, Idle
  <2>3. CASE CleanupEnd \/ CleanupFails
    BY <2>3 DEF CleanupEnd, CleanupFails, Idle
  <2>4. CASE CleanupReadRows \/ CleanupReadTables \/ \E r \in Result : CleanupDropOrphan(r)
    BY <2>4 DEF CleanupReadRows, CleanupReadTables, CleanupDropOrphan
  <2> QED BY <1>8, <2>1, <2>2, <2>3, <2>4 DEF Cleanup
<1>9. CASE AdminListRows \/ AdminListTables \/ \E r \in Result : AdminRemoveOrphan(r)
  BY <1>9 DEF AdminListRows, AdminListTables, AdminRemoveOrphan, SharedIds,
              runVars, dbVars, removeVars, cleanVars
<1>10. CASE Restart
  BY <1>10 DEF Restart, Rows, Idle, SharedIds, Working, TypeOK, dbVars
<1>11. CASE UNCHANGED vars
  BY <1>11 DEF vars, SharedIds, runVars, dbVars, removeVars, cleanVars
<1> QED
  BY <1>1, <1>2, <1>3, <1>4, <1>6, <1>7, <1>8, <1>9, <1>10, <1>11 DEF Next

----------------------------------------------------------------------------
(* What the worker stores and says                                         *)

LEMMA MessageStep == TypeOK /\ MessageInv /\ [Next]_vars => MessageInv'
<1> SUFFICES ASSUME TypeOK, MessageInv, [Next]_vars PROVE MessageInv'
  OBVIOUS
<1>a. PageSize \in Nat \ {0} /\ MaxRows \in Nat /\ PageSize < MaxRows
  BY ResultCacheAssumption DEF ResultCacheAssumption
<1>m. \A m \in sent : m.id \in Result
  BY DEF TypeOK, Message
<1>s. Sizes \subseteq Nat
  BY ResultCacheAssumption DEF ResultCacheAssumption
<1> USE <1>a, <1>m DEF TypeOK, MessageInv, CompleteIsStored, ClientToldTheTruth, HasPage
<1>1. CASE \E q \in Query, r \in Result, n \in 0 .. MaxStatements - 1 : Submit(q, r, n)
  BY <1>1 DEF Submit, dbVars, removeVars, cleanVars
<1>2. ASSUME NEW r \in Result, Worker(r)  PROVE MessageInv'
  <2>t. count[r] \in Nat /\ size[r] \in Nat
    OBVIOUS
  <2>f. pc[r] = "fill" => /\ 1 <= count[r] /\ count[r] <= size[r] /\ count[r] <= MaxRows
                          /\ HasPage(r) <=> count[r] > PageSize
    OBVIOUS
  <2>1. CASE FindExisting(r)
    BY <2>1 DEF FindExisting, dbVars, cleanVars
  <2>2. CASE Execute(r)
    <3>1. pc[r] = "execute" /\ UNCHANGED <<count, status>> /\ \A m \in sent : m.id # r
      BY <2>2 DEF Execute, dbVars
    <3>2. ASSUME NEW n \in Sizes, n < 2, pc' = [pc EXCEPT ![r] = "done"],
                 size' = [size EXCEPT ![r] = n], sent' = sent \cup {Page(r, n, FALSE)}
          PROVE MessageInv'
      <4>1. PICK p : p = Page(r, n, FALSE)
        OBVIOUS
      <4>2. p.type = "page" /\ p.id = r /\ p.rows = n /\ ~p.more
        BY <4>1 DEF Page
      <4>3. sent' = sent \cup {p}
        BY <3>2, <4>1
      <4>4. \A x \in Result : x # r => pc'[x] = pc[x] /\ size'[x] = size[x]
        BY <3>2
      <4>5. pc'[r] = "done" /\ size'[r] = n /\ status[r] # "complete"
        BY <3>1, <3>2
      <4> HIDE DEF TypeOK
      <4>6. ClientToldTheTruth'
        BY <3>1, <4>2, <4>3, <4>4, <4>5
      <4>7. CompleteIsStored'
        BY <3>1, <4>3, <4>4, <4>5
      <4> QED BY <3>1, <4>2, <4>3, <4>4, <4>5, <4>6, <4>7
    <3>3. ASSUME NEW n \in Sizes, ~(n < 2), pc' = [pc EXCEPT ![r] = "register"],
                 size' = [size EXCEPT ![r] = n], sent' = sent
          PROVE MessageInv'
      BY <3>1, <3>3, <1>s
    <3> QED BY <2>2, <3>2, <3>3 DEF Execute
  <2>3. CASE Register(r)
    BY <2>3 DEF Register, removeVars, cleanVars
  <2>4. CASE CreateTable(r)
    BY <2>4 DEF CreateTable, removeVars, cleanVars
  <2>5. CASE StoreRow(r)
    <3>1. /\ pc[r] = "fill" /\ count[r] < MaxRows /\ count[r] < size[r]
          /\ count' = [count EXCEPT ![r] = count[r] + 1] /\ UNCHANGED <<pc, size, status>>
      BY <2>5 DEF StoreRow, MoreToStore, dbVars
    <3>2. CASE count[r] # PageSize
      <4>1. sent' = sent
        BY <2>5, <3>2 DEF StoreRow
      <4>2. count[r] > PageSize <=> count[r] + 1 > PageSize
        <5> HIDE DEF TypeOK, MessageInv, HasPage
        <5> QED BY <2>t, <3>2
      <4>3. CompleteIsStored' /\ ClientToldTheTruth'
        BY <3>1, <4>1
      <4> QED BY <2>f, <3>1, <4>1, <4>2, <4>3
    <3>3. CASE count[r] = PageSize
      <4>1. PICK p : p = Page(r, PageSize, TRUE)
        OBVIOUS
      <4>2. p.type = "page" /\ p.id = r /\ p.rows = PageSize /\ p.more
        BY <4>1 DEF Page
      <4>3. sent' = sent \cup {p}
        BY <2>5, <3>3, <4>1 DEF StoreRow
      <4>4. ~HasPage(r)
        BY <3>1, <3>3
      <4>5. ClientToldTheTruth'
        BY <3>1, <3>3, <4>2, <4>3, <4>4
      <4>6. CompleteIsStored'
        BY <3>1, <4>3
      <4> QED BY <3>1, <3>3, <4>2, <4>3, <4>5, <4>6
    <3> QED BY <3>2, <3>3
  <2>6. CASE Fail(r)
    BY <2>6 DEF Fail, Error, dbVars, removeVars, cleanVars
  <2>7. CASE SendPage(r)
    <3>1. /\ pc[r] = "fill" /\ ~(count[r] < MaxRows /\ count[r] < size[r])
          /\ pc' = [pc EXCEPT ![r] = "complete"] /\ UNCHANGED <<count, size, status>>
      BY <2>7 DEF SendPage, MoreToStore, dbVars
    <3>2. CASE count[r] > PageSize
      <4>1. sent' = sent
        <5> HIDE DEF TypeOK, MessageInv
        <5>1. ~(count[r] <= PageSize)
          BY <3>2, <2>t
        <5> QED BY <2>7, <5>1, Zenon DEF SendPage
      <4>2. HasPage(r) /\ (count[r] = MaxRows \/ count[r] = size[r])
        <5> HIDE DEF TypeOK, MessageInv, HasPage
        <5> QED BY <2>f, <2>t, <3>1, <3>2
      <4> QED BY <2>f, <3>1, <4>1, <4>2
    <3>3. CASE count[r] <= PageSize
      <4>1. PICK p : p = Page(r, count[r], FALSE)
        OBVIOUS
      <4>2. p.type = "page" /\ p.id = r /\ p.rows = count[r] /\ ~p.more
        BY <4>1 DEF Page
      <4>3. sent' = sent \cup {p}
        BY <2>7, <3>3, <4>1 DEF SendPage
      <4>4. ~HasPage(r) /\ count[r] = size[r]
        <5> HIDE DEF TypeOK, MessageInv, HasPage
        <5> QED BY <2>f, <2>t, <3>1, <3>3
      <4>5. ClientToldTheTruth'
        BY <3>1, <4>2, <4>3, <4>4
      <4>6. CompleteIsStored'
        BY <3>1, <4>3
      <4> QED BY <3>1, <4>2, <4>3, <4>4, <4>5, <4>6
    <3> QED BY <3>2, <3>3
  <2>8. CASE Complete(r)
    <3>1. /\ pc[r] = "complete" /\ pc' = [pc EXCEPT ![r] = "done"] /\ UNCHANGED <<count, size>>
          /\ status' = [status EXCEPT ![r] = CompletedStatus(r)]
      BY <2>8 DEF Complete
    <3>2. PICK c : c = RowCount(r, count[r], count[r] = MaxRows)
      OBVIOUS
    <3>3. c.type = "count" /\ c.id = r /\ c.rows = count[r] /\ (c.overflow <=> count[r] = MaxRows)
      BY <3>2 DEF RowCount
    <3>4. sent' = sent \cup {c}
      BY <2>8, <3>2 DEF Complete
    <3>5. ClientToldTheTruth'
      BY <3>1, <3>3, <3>4
    <3>6. CompleteIsStored'
      BY <3>1, <3>4
    <3> QED BY <3>1, <3>3, <3>4, <3>5, <3>6
  <2>9. CASE \E s \in Result : NextStatement(r, s)
    BY <2>9 DEF NextStatement, dbVars, removeVars, cleanVars
  <2> QED BY <1>2, <2>1, <2>2, <2>3, <2>4, <2>5, <2>6, <2>7, <2>8, <2>9 DEF Worker
<1>3. CASE Others
  BY <1>3, OthersLeaveRuns
<1>4. CASE Restart
  BY <1>4 DEF Restart, Working, dbVars
<1> QED BY <1>1, <1>2, <1>3, <1>4, NextCases

----------------------------------------------------------------------------
(* The theorems                                                            *)

LEMMA IInvAlways == Spec => []IInv
<1>1. IInv /\ [Next]_vars => IInv'
  BY TypeStep, CatalogStep, RemovalStep, ExpiryStep, MessageStep DEF IInv
<1> QED BY InitIInv, <1>1, PTL DEF Spec

\* Every reachable state is well formed.
THEOREM TypeCorrect == Spec => []TypeOK
BY IInvAlways, PTL DEF IInv

\* What the client is told of a result set is true, whatever the page size,
\* the row limit and the sizes of the result sets.
THEOREM ClientIsToldTheTruth == Spec => []ClientToldTheTruth
BY IInvAlways, PTL DEF IInv, MessageInv

\* A result is called complete only when all its rows have been stored.
THEOREM CompleteResultsAreStored == Spec => []CompleteIsStored
BY IInvAlways, PTL DEF IInv, MessageInv

\* Short of a restart, no removal that was asked for is forgotten.
THEOREM NoRemovalIsForgotten == Spec => []TargetedIsPending
BY IInvAlways, PTL DEF IInv, RemovalInv

\* The clean-up spares what is shared.
THEOREM CleanupSparesShared == Spec => []SharedSurvivesCleanup
<1>1. IInv => SharedSurvivesCleanup
  BY DEF IInv, ExpiryInv, Registered, SharedSurvivesCleanup
<1> QED BY IInvAlways, <1>1, PTL

\* A worker that is still filling a removed result does not bring it back.
THEOREM RemovalIsFinal == Spec => RemovedStaysRemoved
<1> DEFINE A == \A r \in Result : (Known(r) /\ status[r] = "none") => status'[r] = "none"
<1>1. IInv /\ [Next]_vars => [A]_vars
  <2> SUFFICES ASSUME IInv, Next PROVE A
    OBVIOUS
  <2> USE DEF IInv, TypeOK
  <2>1. CASE Others
    BY <2>1, OthersLeaveRuns
  <2>2. ASSUME NEW r \in Result, Worker(r)  PROVE A
    <3>1. CASE Register(r)
      BY <3>1 DEF Register, Known
    <3>2. CASE Complete(r)
      BY <3>2 DEF Complete, CompletedStatus
    <3>3. CASE FindExisting(r) \/ Execute(r) \/ CreateTable(r) \/ StoreRow(r) \/ Fail(r)
               \/ SendPage(r) \/ \E s \in Result : NextStatement(r, s)
      BY <3>3 DEF FindExisting, Execute, CreateTable, StoreRow, Fail, SendPage,
                  NextStatement, dbVars
    <3> QED BY <2>2, <3>1, <3>2, <3>3 DEF Worker
  <2>3. CASE \/ \E q \in Query, r \in Result, n \in 0 .. MaxStatements - 1 : Submit(q, r, n)
             \/ Restart
    BY <2>3 DEF Submit, Restart, dbVars
  <2> QED BY <2>1, <2>2, <2>3, NextCases
<1> QED BY IInvAlways, <1>1, PTL DEF Spec, RemovedStaysRemoved

\* Only a table that was mistaken for an orphan goes from under its row.
THEOREM ListedTablesAreKept == Spec => ListedTableDroppedAsOrphanOnly
<1> DEFINE A == \A r \in Result : (r \in tables /\ r \notin tables' /\ status'[r] # "none") => OrphanDrop(r)
<1>1. IInv /\ [Next]_vars => [A]_vars
  <2> SUFFICES ASSUME IInv, Next PROVE A
    OBVIOUS
  <2> USE DEF IInv, OrphanDrop
  <2>1. CASE \E q \in Query, r \in Result, n \in 0 .. MaxStatements - 1 : Submit(q, r, n)
    BY <2>1 DEF Submit, dbVars
  <2>2. CASE \E r \in Result : Worker(r)
    BY <2>2 DEF Worker, FindExisting, Execute, Register, CreateTable, StoreRow, Fail,
                SendPage, Complete, NextStatement, dbVars
  <2>3. ASSUME NEW t \in tasks, Remove(t)  PROVE A
    <3>1. CASE RemoveTable(t)
      BY <3>1 DEF RemoveTable, CatalogInv
    <3>2. CASE RemoveCheck(t) \/ RemoveRow(t)
      BY <3>2 DEF RemoveCheck, RemoveRow, dbVars
    <3> QED BY <2>3, <3>1, <3>2 DEF Remove
  <2>4. CASE Cleanup
    <3>1. ASSUME NEW r \in Result, CleanupDropOrphan(r)  PROVE A
      BY <3>1 DEF CleanupDropOrphan, CatalogInv
    <3> QED BY <2>4, <3>1 DEF Cleanup, CleanupTick, CleanupReadRows, CleanupReadTables,
                              CleanupFails, CleanupExpire, CleanupEnd
  <2>5. CASE AdminListRows \/ AdminListTables \/ Restart
    BY <2>5 DEF AdminListRows, AdminListTables, Restart, dbVars
  <2>6. CASE \/ \E a \in Remover \cup {Cleaner} : StartRemove(a)
             \/ \E m \in Remover, q \in Query : CloseQuery(m, q)
             \/ \E m \in Remover, r \in Result : AdminRemove(m, r)
    BY <2>6 DEF StartRemove, CloseQuery, AdminRemove, AskRemoval, dbVars
  <2>7. CASE \E r \in Result : Share(r) \/ Unshare(r) \/ Age(r) \/ AdminRemoveOrphan(r)
    BY <2>7 DEF Share, Unshare, Age, AdminRemoveOrphan, dbVars
  <2> QED BY <2>1, <2>2, <2>3, <2>4, <2>5, <2>6, <2>7 DEF Next
<1> QED BY IInvAlways, <1>1, PTL DEF Spec, ListedTableDroppedAsOrphanOnly
=============================================================================
