------------------------ MODULE SchemaRefreshProofs ------------------------
(***************************************************************************)
(* Proofs about SchemaRefresh, for any number of connections, requests and *)
(* changes of the databases.                                               *)
(***************************************************************************)
EXTENDS SchemaRefresh, TLAPS

\* A schema is there where the code reads its fields, and the thread knows
\* for which of its two callers it refreshes.
LoadedInv ==
  /\ \A r \in Request :
       /\ pc[r] \in {"setRead", "setWrite", "reply"} => given[r] # NotLoaded
       /\ pc[r] \in {"lookup", "check", "join", "submit", "register"} =>
            /\ call[r] # "none"
            /\ call[r] = "inner" => given[r] # NotLoaded
       /\ pc[r] \in {"check", "join", "submit"} => found[r] # NotLoaded
  /\ \A j \in Job : jobPc[j] # "none" => fetched[j] # NotLoaded

TInv == TypeOK /\ LoadedInv

----------------------------------------------------------------------------
(* Types                                                                   *)

\* What the assumption says of the constants.
LEMMA Constants ==
  MaxVersion \in Nat /\ 0 \in 0 .. MaxVersion /\ NotLoaded \notin Schema /\ NoJob \notin Job
<1>1. MaxVersion \in Nat /\ NotLoaded \notin Schema /\ NoJob \notin Job
  BY SchemaRefreshAssumption
<1>2. 0 \in 0 .. MaxVersion
  BY <1>1
<1> QED BY <1>1, <1>2

LEMMA BaseType ==
  ASSUME NEW v \in 0 .. MaxVersion
  PROVE  Base(v) \in Schema /\ Base(v).version = v /\ Base(v) # NotLoaded
<1>1. Base(v) \in Schema /\ Base(v).version = v
  BY DEF Base, Schema
<1> QED BY <1>1, Constants

LEMMA DetailedType ==
  ASSUME NEW s \in Schema
  PROVE  LET d == [version |-> s.version, details |-> TRUE]
         IN d \in Schema /\ d # NotLoaded
<1> DEFINE d == [version |-> s.version, details |-> TRUE]
<1>1. d \in Schema
  BY DEF Schema
<1>2. d # NotLoaded
  BY <1>1, Constants
<1> QED BY <1>1, <1>2

LEMMA AnswerType ==
  ASSUME TypeOK, NEW r \in Request, NEW s \in Schema \cup {NotLoaded},
         Answer(r, s) \/ UNCHANGED pageVars
  PROVE  /\ shown' \in [Conn -> Schema \cup {NotLoaded}]
         /\ pending' \in [Conn -> BOOLEAN]
         /\ asked' \in [Conn -> 0 .. MaxVersion]
<1>1. CASE Answer(r, s) /\ OnPage(r)
  <2>1. Show(conn[r], s)
    BY <1>1 DEF Answer
  <2>2. shown' \in [Conn -> Schema \cup {NotLoaded}]
    BY <2>1 DEF TypeOK, Show
  <2>3. pending' \in [Conn -> BOOLEAN]
    BY <2>1 DEF TypeOK, Show
  <2>4. asked' \in [Conn -> 0 .. MaxVersion]
    BY <2>1, Constants DEF TypeOK, Show
  <2> QED BY <2>2, <2>3, <2>4
<1>2. CASE UNCHANGED pageVars
  BY <1>2 DEF TypeOK, pageVars
<1> QED BY <1>1, <1>2 DEF Answer

LEMMA ConnOf ==
  ASSUME TypeOK, NEW j \in Job
  PROVE  j[1] \in Request /\ j[2] \in {"inner", "outer"} /\ conn[j[1]] \in Conn /\ j = <<j[1], j[2]>>
BY DEF TypeOK, Job

LEMMA GetType ==
  ASSUME TInv, NEW r \in Request, Get(r) PROVE TInv'
<1>1. Cached(r) \in Schema \cup {NotLoaded}
  BY DEF TInv, TypeOK, Maps, Cached
<1>2. TypeOK'
  BY <1>1 DEF TInv, TypeOK, Get, Goto, Forced, askVars, cacheVars, waitVars, jobVars, pageVars
<1>3. LoadedInv'
  BY DEF TInv, TypeOK, LoadedInv, Get, Goto, Forced, jobVars
<1> QED BY <1>2, <1>3 DEF TInv

LEMMA CalculateType ==
  ASSUME TInv, NEW r \in Request, Calculate(r) PROVE TInv'
<1>1. version[conn[r]] \in 0 .. MaxVersion
  BY DEF TInv, TypeOK
<1> DEFINE b == Base(version[conn[r]])
<1>2. b \in Schema /\ b # NotLoaded
  BY <1>1, BaseType
<1> HIDE DEF b
<1>3. TypeOK'
  BY <1>2, SchemaRefreshAssumption DEF TInv, TypeOK, Calculate, Goto, b, cacheVars, jobVars, pageVars
<1>4. LoadedInv'
  BY <1>2 DEF TInv, TypeOK, LoadedInv, Calculate, Goto, b, cacheVars, jobVars, pageVars
<1> QED BY <1>3, <1>4 DEF TInv

LEMMA SetReadType ==
  ASSUME TInv, NEW r \in Request, SetRead(r) PROVE TInv'
<1>1. TypeOK'
  BY SchemaRefreshAssumption DEF TInv, TypeOK, LoadedInv, SetRead, Goto, askVars, cacheVars, waitVars, jobVars, pageVars
<1>2. LoadedInv'
  BY SchemaRefreshAssumption DEF TInv, TypeOK, LoadedInv, SetRead, Goto, askVars, cacheVars, waitVars, jobVars, pageVars
<1> QED BY <1>1, <1>2 DEF TInv

LEMMA SetWriteType ==
  ASSUME TInv, NEW r \in Request, SetWrite(r) PROVE TInv'
<1>1. TypeOK'
  BY SchemaRefreshAssumption DEF TInv, TypeOK, LoadedInv, SetWrite, Goto, Maps, EmptyMap, askVars, cacheVars, waitVars, jobVars, pageVars
<1>2. LoadedInv'
  BY SchemaRefreshAssumption DEF TInv, TypeOK, LoadedInv, SetWrite, Goto, Maps, EmptyMap, askVars, cacheVars, waitVars, jobVars, pageVars
<1> QED BY <1>1, <1>2 DEF TInv

LEMMA ReplyType ==
  ASSUME TInv, NEW r \in Request, Reply(r) PROVE TInv'
<1>1. given[r] \in Schema \cup {NotLoaded}
  BY DEF TInv, TypeOK
<1>2. /\ shown' \in [Conn -> Schema \cup {NotLoaded}]
      /\ pending' \in [Conn -> BOOLEAN]
      /\ asked' \in [Conn -> 0 .. MaxVersion]
  BY <1>1, AnswerType DEF TInv, Reply
<1>3. TypeOK'
  <2>1. /\ pc' \in [Request ->
            {"idle", "get", "calculate", "setRead", "setWrite", "reply", "lookup",
             "check", "join", "submit", "register", "ended", "refused"}]
        /\ call' \in [Request -> {"none", "inner", "outer"}]
        /\ outcome' \in [Request -> {"none", "schema", "error"}]
    BY DEF TInv, TypeOK, Reply, Goto
  <2>2. /\ given' \in [Request -> Schema \cup {NotLoaded}]
        /\ since' \in [Request -> 0 .. MaxVersion]
    BY Constants DEF TInv, TypeOK, Reply
  <2> QED BY <1>2, <2>1, <2>2 DEF TInv, TypeOK, Reply, cacheVars, jobVars
<1>4. LoadedInv'
  BY DEF TInv, TypeOK, LoadedInv, Reply, Goto, jobVars
<1> QED BY <1>3, <1>4 DEF TInv

LEMMA LookupType ==
  ASSUME TInv, NEW r \in Request, Lookup(r) PROVE TInv'
<1>1. Cached(r) \in Schema \cup {NotLoaded}
  BY DEF TInv, TypeOK, Maps, Cached
<1>2. TypeOK'
  BY <1>1 DEF TInv, TypeOK, Lookup, Goto, Refuse, askVars, cacheVars, waitVars, jobVars, pageVars
<1>3. LoadedInv'
  BY <1>1 DEF TInv, TypeOK, LoadedInv, Lookup, Goto, Refuse, jobVars
<1> QED BY <1>2, <1>3 DEF TInv

LEMMA CheckType ==
  ASSUME TInv, NEW r \in Request, Check(r) PROVE TInv'
<1>1. TypeOK'
  BY SchemaRefreshAssumption DEF TInv, TypeOK, LoadedInv, Check, Goto, Active, askVars, cacheVars, waitVars, jobVars, pageVars
<1>2. LoadedInv'
  BY SchemaRefreshAssumption DEF TInv, TypeOK, LoadedInv, Check, Goto, Active, askVars, cacheVars, waitVars, jobVars, pageVars
<1> QED BY <1>1, <1>2 DEF TInv

LEMMA JoinType ==
  ASSUME TInv, NEW r \in Request, Join(r) PROVE TInv'
<1>1. TypeOK'
  BY SchemaRefreshAssumption DEF TInv, TypeOK, LoadedInv, Join, Goto, Active, Refuse, Return, askVars, cacheVars, waitVars, jobVars, pageVars
<1>2. LoadedInv'
  BY SchemaRefreshAssumption DEF TInv, TypeOK, LoadedInv, Join, Goto, Active, Refuse, Return, askVars, cacheVars, waitVars, jobVars, pageVars
<1> QED BY <1>1, <1>2 DEF TInv

LEMMA SubmitType ==
  ASSUME TInv, NEW r \in Request, Submit(r) PROVE TInv'
<1>1. TypeOK'
  BY SchemaRefreshAssumption DEF TInv, TypeOK, LoadedInv, Submit, Goto, Job, JobGoto, askVars, cacheVars, waitVars, jobVars, pageVars
<1>2. LoadedInv'
  BY SchemaRefreshAssumption DEF TInv, TypeOK, LoadedInv, Submit, Goto, Job, JobGoto, askVars, cacheVars, waitVars, jobVars, pageVars
<1> QED BY <1>1, <1>2 DEF TInv

LEMMA RegisterType ==
  ASSUME TInv, NEW r \in Request, Register(r) PROVE TInv'
<1>1. TypeOK'
  BY SchemaRefreshAssumption DEF TInv, TypeOK, LoadedInv, Register, Goto, Return, Job, Removed, askVars, cacheVars, waitVars, jobVars, pageVars
<1>2. LoadedInv'
  BY SchemaRefreshAssumption DEF TInv, TypeOK, LoadedInv, Register, Goto, Return, Job, Removed, askVars, cacheVars, waitVars, jobVars, pageVars
<1> QED BY <1>1, <1>2 DEF TInv

LEMMA WorkType ==
  ASSUME TInv, NEW j \in Job, Work(j) PROVE TInv'
<1>1. fetched[j] \in Schema
  BY DEF TInv, TypeOK, LoadedInv, Work
<1> DEFINE d == [version |-> fetched[j].version, details |-> TRUE]
<1>2. d \in Schema /\ d # NotLoaded
  BY <1>1, DetailedType
<1> HIDE DEF d
<1>3. TypeOK'
  BY <1>2 DEF TInv, TypeOK, Work, JobGoto, d, ThreadVars, cacheVars, askVars, waitVars, pageVars
<1>4. LoadedInv'
  BY <1>2 DEF TInv, TypeOK, LoadedInv, Work, JobGoto, d, ThreadVars
<1> QED BY <1>3, <1>4 DEF TInv

LEMMA CallbackReadType ==
  ASSUME TInv, NEW j \in Job, CallbackRead(j) PROVE TInv'
<1>1. TypeOK'
  BY SchemaRefreshAssumption DEF TInv, TypeOK, LoadedInv, CallbackRead, JobGoto, ReadyToRemove, ThreadVars, askVars, cacheVars, waitVars, jobVars, pageVars
<1>2. LoadedInv'
  BY SchemaRefreshAssumption DEF TInv, TypeOK, LoadedInv, CallbackRead, JobGoto, ReadyToRemove, ThreadVars, askVars, cacheVars, waitVars, jobVars, pageVars
<1> QED BY <1>1, <1>2 DEF TInv

LEMMA CallbackWriteType ==
  ASSUME TInv, NEW j \in Job, CallbackWrite(j) PROVE TInv'
<1>1. TypeOK'
  BY SchemaRefreshAssumption DEF TInv, TypeOK, LoadedInv, CallbackWrite, JobGoto, ReadyToRemove, ThreadVars, Maps, EmptyMap, Job, askVars, cacheVars, waitVars, jobVars, pageVars
<1>2. LoadedInv'
  BY SchemaRefreshAssumption DEF TInv, TypeOK, LoadedInv, CallbackWrite, JobGoto, ReadyToRemove, ThreadVars, Maps, EmptyMap, Job, askVars, cacheVars, waitVars, jobVars, pageVars
<1> QED BY <1>1, <1>2 DEF TInv

LEMMA CallbackRemoveType ==
  ASSUME TInv, NEW j \in Job, CallbackRemove(j) PROVE TInv'
<1>1. TypeOK'
  BY SchemaRefreshAssumption DEF TInv, TypeOK, LoadedInv, CallbackRemove, JobGoto, ReadyToRemove, ThreadVars, Job, askVars, cacheVars, waitVars, jobVars, pageVars
<1>2. LoadedInv'
  BY SchemaRefreshAssumption DEF TInv, TypeOK, LoadedInv, CallbackRemove, JobGoto, ReadyToRemove, ThreadVars, Job, askVars, cacheVars, waitVars, jobVars, pageVars
<1> QED BY <1>1, <1>2 DEF TInv

LEMMA CallbackNotifyType ==
  ASSUME TInv, NEW j \in Job, CallbackNotify(j) PROVE TInv'
<1>1. fetched[j] \in Schema \cup {NotLoaded} /\ Outcome(j) \in {"schema", "error"}
  BY DEF TInv, TypeOK, Outcome
<1>2. /\ shown' \in [Conn -> Schema \cup {NotLoaded}]
      /\ pending' \in [Conn -> BOOLEAN]
      /\ asked' \in [Conn -> 0 .. MaxVersion]
  BY <1>1, AnswerType, ConnOf DEF TInv, CallbackNotify, Tell
<1>3. outcome' \in [Request -> {"none", "schema", "error"}]
  BY <1>1, ConnOf DEF TInv, TypeOK, CallbackNotify, Tell, pageVars
<1>4. TypeOK'
  BY <1>2, <1>3 DEF TInv, TypeOK, CallbackNotify, JobGoto, ThreadVars, cacheVars, askVars
<1>5. LoadedInv'
  BY DEF TInv, TypeOK, LoadedInv, CallbackNotify, JobGoto, ThreadVars
<1> QED BY <1>4, <1>5 DEF TInv

LEMMA NotifyJoinerType ==
  ASSUME TInv, NEW r \in Request, NotifyJoiner(r) PROVE TInv'
<1> DEFINE j == joined[r]
<1>1. j \in Job
  BY DEF TInv, TypeOK, NotifyJoiner
<1>2. fetched[j] \in Schema \cup {NotLoaded} /\ Outcome(j) \in {"schema", "error"}
  BY <1>1 DEF TInv, TypeOK, Outcome
<1>3. Tell(r, j)
  BY DEF NotifyJoiner
<1> HIDE DEF j
<1>4. /\ shown' \in [Conn -> Schema \cup {NotLoaded}]
      /\ pending' \in [Conn -> BOOLEAN]
      /\ asked' \in [Conn -> 0 .. MaxVersion]
  BY <1>2, <1>3, AnswerType DEF TInv, Tell
<1>5. outcome' \in [Request -> {"none", "schema", "error"}]
  BY <1>2, <1>3 DEF TInv, TypeOK, Tell
<1>6. TypeOK'
  BY <1>4, <1>5 DEF TInv, TypeOK, NotifyJoiner, ThreadVars, cacheVars, askVars, jobVars
<1>7. LoadedInv'
  BY DEF TInv, TypeOK, LoadedInv, NotifyJoiner, ThreadVars, jobVars
<1> QED BY <1>6, <1>7 DEF TInv

LEMMA AskType ==
  ASSUME TInv, NEW r \in Request, NEW k \in Kind, Ask(r, k) PROVE TInv'
<1>1. TypeOK'
  BY DEF TInv, TypeOK, Ask, Goto, cacheVars, waitVars, jobVars
<1>2. LoadedInv'
  BY DEF TInv, TypeOK, LoadedInv, Ask, Goto, jobVars
<1> QED BY <1>1, <1>2 DEF TInv

LEMMA ChangeType ==
  ASSUME TInv, NEW c \in Conn, Change(c) PROVE TInv'
<1>1. TypeOK'
  BY SchemaRefreshAssumption DEF TInv, TypeOK, Change, cacheVars, askVars, waitVars, jobVars, pageVars
<1>2. LoadedInv'
  BY DEF TInv, LoadedInv, Change, jobVars
<1> QED BY <1>1, <1>2 DEF TInv

LEMMA InitType == Init => TInv
BY SchemaRefreshAssumption DEF Init, TInv, TypeOK, LoadedInv, Maps, EmptyMap, Kind

LEMMA NextType == TInv /\ [Next]_vars => TInv'
<1> SUFFICES ASSUME TInv, [Next]_vars PROVE TInv'
  OBVIOUS
<1>1. ASSUME NEW c \in Conn, Change(c) PROVE TInv'
  BY <1>1, ChangeType
<1>2. ASSUME NEW r \in Request, NEW k \in Kind, Ask(r, k) PROVE TInv'
  BY <1>2, AskType
<1>3. ASSUME NEW r \in Request, Serve(r) PROVE TInv'
  BY <1>3, GetType, CalculateType, SetReadType, SetWriteType, ReplyType, LookupType,
     CheckType, JoinType, SubmitType, RegisterType DEF Serve
<1>4. ASSUME NEW r \in Request, NotifyJoiner(r) PROVE TInv'
  BY <1>4, NotifyJoinerType
<1>5. ASSUME NEW j \in Job, Refresh(j) PROVE TInv'
  BY <1>5, WorkType, CallbackReadType, CallbackWriteType, CallbackRemoveType,
     CallbackNotifyType DEF Refresh
<1>6. CASE UNCHANGED vars
  BY <1>6 DEF TInv, TypeOK, LoadedInv, vars, cacheVars, askVars, waitVars, jobVars, pageVars
<1> QED BY <1>1, <1>2, <1>3, <1>4, <1>5, <1>6 DEF Next

\* Every reachable state of the schema cache is well formed.
THEOREM TypeCorrect == Spec => []TypeOK
<1>1. TInv => TypeOK
  BY DEF TInv
<1> QED BY <1>1, InitType, NextType, PTL DEF Spec

----------------------------------------------------------------------------
(* Forced replies                                                          *)

\* A request is never dated after now, and its schema was read after it was
\* made: what is given before that is nothing.
FreshInv ==
  /\ \A r \in Request :
       /\ since[r] <= version[conn[r]]
       /\ pc[r] \in {"idle", "get", "calculate"} => given[r] = NotLoaded
  /\ ForcedReplyIsFresh

\* The steps of a thread that neither read the tables nor reply.
LEMMA FreshFrame ==
  ASSUME FreshInv, UNCHANGED <<version, askVars, given>>,
         \A r \in Request : pc'[r] \in {"idle", "get", "calculate"} =>
                             pc[r] \in {"idle", "get", "calculate"}
  PROVE  FreshInv'
BY DEF FreshInv, ForcedReplyIsFresh, Forced, askVars

LEMMA FreshInit == Init => FreshInv
BY Constants DEF Init, FreshInv, ForcedReplyIsFresh, Forced

LEMMA FreshStep == TInv /\ FreshInv /\ [Next]_vars => FreshInv'
<1> SUFFICES ASSUME TInv, FreshInv, [Next]_vars PROVE FreshInv'
  OBVIOUS
<1>1. ASSUME NEW c \in Conn, Change(c) PROVE FreshInv'
  <2>1. version'[c] = version[c] + 1 /\ version[c] \in Nat
    BY <1>1 DEF Change, TInv, TypeOK
  <2>2. \A d \in Conn : version[d] \in Nat /\ version'[d] \in Nat /\ version[d] <= version'[d]
    BY <1>1 DEF Change, TInv, TypeOK
  <2>3. \A r \in Request : since[r] \in Nat /\ conn[r] \in Conn
    BY DEF TInv, TypeOK
  <2> QED BY <1>1, <2>2, <2>3 DEF FreshInv, ForcedReplyIsFresh, Forced, Change, askVars
<1>2. ASSUME NEW r \in Request, NEW k \in Kind, Ask(r, k) PROVE FreshInv'
  <2>1. /\ pc' = [pc EXCEPT ![r] = "get"] /\ pc[r] = "idle"
        /\ kind' = [kind EXCEPT ![r] = k]
        /\ since' = [since EXCEPT ![r] = version[conn[r]]]
        /\ UNCHANGED <<version, conn, given>>
    BY <1>2 DEF Ask, Goto
  <2>2. given[r] = NotLoaded
    BY <2>1 DEF FreshInv
  <2>3. version[conn[r]] \in Nat
    BY DEF TInv, TypeOK
  <2> QED BY <2>1, <2>2, <2>3 DEF FreshInv, ForcedReplyIsFresh, Forced, TInv, TypeOK
<1>3. ASSUME NEW r \in Request, Serve(r) PROVE FreshInv'
  <2>1. CASE Get(r)
    <3>1. CASE Cached(r) # NotLoaded /\ ~Forced(r)
      BY <2>1, <3>1 DEF Get, Goto, FreshInv, ForcedReplyIsFresh, Forced, TInv, TypeOK, askVars
    <3>2. CASE ~(Cached(r) # NotLoaded /\ ~Forced(r))
      <4>1. UNCHANGED <<version, askVars, given>> /\ pc' = [pc EXCEPT ![r] = "calculate"]
        BY <2>1, <3>2 DEF Get, Goto
      <4> QED BY <2>1, <4>1, FreshFrame DEF Get, TInv, TypeOK
    <3> QED BY <3>1, <3>2
  <2>2. CASE Calculate(r)
    <3>1. version[conn[r]] \in 0 .. MaxVersion /\ version[conn[r]] >= since[r]
      BY DEF TInv, TypeOK, FreshInv
    <3> DEFINE b == Base(version[conn[r]])
    <3>2. b.version >= since[r]
      BY <3>1, BaseType
    <3> HIDE DEF b
    <3>3. CASE given' = [given EXCEPT ![r] = b] /\ since' = since /\ pc' = [pc EXCEPT ![r] = "setRead"]
      BY <2>2, <3>2, <3>3 DEF Calculate, FreshInv, ForcedReplyIsFresh, Forced, TInv, TypeOK
    <3>4. CASE given' = given /\ since' = [since EXCEPT ![r] = 0] /\ pc' = [pc EXCEPT ![r] = "ended"]
      <4>1. given[r] = NotLoaded /\ version[conn[r]] >= 0
        BY <2>2, <3>1 DEF Calculate, FreshInv
      <4> QED BY <2>2, <3>4, <4>1 DEF Calculate, FreshInv, ForcedReplyIsFresh, Forced, TInv, TypeOK
    <3> QED BY <2>2, <3>3, <3>4 DEF Calculate, Goto, b
  <2>3. CASE Reply(r)
    <3>1. /\ given' = [given EXCEPT ![r] = NotLoaded] /\ since' = [since EXCEPT ![r] = 0]
          /\ pc' = [pc EXCEPT ![r] = "ended"] \/ pc' = [pc EXCEPT ![r] = "lookup"]
          /\ UNCHANGED <<version, conn, kind>>
      BY <2>3 DEF Reply, Goto
    <3>2. version[conn[r]] >= 0
      BY DEF TInv, TypeOK
    <3> QED BY <3>1, <3>2 DEF FreshInv, ForcedReplyIsFresh, Forced, TInv, TypeOK
  <2>4. CASE SetRead(r)
    BY <2>4, FreshFrame DEF SetRead, Goto, TInv, TypeOK
  <2>5. CASE SetWrite(r)
    BY <2>5, FreshFrame DEF SetWrite, Goto, TInv, TypeOK
  <2>6. CASE Lookup(r)
    BY <2>6, FreshFrame DEF Lookup, Goto, Refuse, Return, TInv, TypeOK
  <2>7. CASE Check(r)
    BY <2>7, FreshFrame DEF Check, Goto, TInv, TypeOK
  <2>8. CASE Join(r)
    BY <2>8, FreshFrame DEF Join, Goto, Refuse, Return, TInv, TypeOK
  <2>9. CASE Submit(r)
    BY <2>9, FreshFrame DEF Submit, Goto, TInv, TypeOK
  <2>10. CASE Register(r)
    BY <2>10, FreshFrame DEF Register, Goto, Refuse, Return, TInv, TypeOK
  <2> QED BY <1>3, <2>1, <2>2, <2>3, <2>4, <2>5, <2>6, <2>7, <2>8, <2>9, <2>10 DEF Serve
<1>4. ASSUME NEW r \in Request, NotifyJoiner(r) PROVE FreshInv'
  BY <1>4, FreshFrame DEF NotifyJoiner, ThreadVars
<1>5. ASSUME NEW j \in Job, Refresh(j) PROVE FreshInv'
  <2>1. UNCHANGED ThreadVars
    BY <1>5 DEF Refresh, Work, CallbackRead, CallbackWrite, CallbackRemove, CallbackNotify
  <2> QED BY <2>1, FreshFrame DEF ThreadVars
<1>6. CASE UNCHANGED vars
  BY <1>6, FreshFrame DEF vars
<1> QED BY <1>1, <1>2, <1>3, <1>4, <1>5, <1>6 DEF Next

\* A forced refresh replies with a schema that was read after the request.
THEOREM ForcedRepliesAreFresh == Spec => []ForcedReplyIsFresh
<1>1. FreshInv => ForcedReplyIsFresh
  BY DEF FreshInv
<1> QED BY <1>1, InitType, NextType, FreshInit, FreshStep, PTL DEF Spec

----------------------------------------------------------------------------
(* Nobody is forgotten                                                     *)

Submitted(j) == jobPc[j] # "none"

\* Which refreshes a request can have started, by where its thread is.
StartedAt(r) ==
  /\ Submitted(<<r, "outer">>) => call[r] = "outer" /\ pc[r] \in {"register", "ended"}
  /\ Submitted(<<r, "inner">>) =>
       /\ pc[r] \notin {"idle", "get", "calculate", "setRead", "setWrite"}
       /\ ~(call[r] = "inner" /\ pc[r] \in {"lookup", "check", "join", "submit"})
  /\ pc[r] = "register" => Submitted(<<r, call[r]>>)
  /\ call[r] = "outer" =>
       pc[r] \in {"lookup", "check", "join", "submit", "register", "ended", "refused"}
StartedInv == \A r \in Request : StartedAt(r)

\* What is registered or awaited was submitted, a refresh that has called
\* back has told its request, and nobody is forgotten.
WaitInv ==
  /\ \A c \in Conn : activeRefreshes[c] # NoJob => Submitted(activeRefreshes[c])
  /\ \A r \in Request :
       /\ joined[r] # NoJob => pc[r] = "ended" /\ Submitted(joined[r])
       /\ jobPc[<<r, "outer">>] = "done" => outcome[r] # "none"
  /\ NoForgottenWaiter

CallInv == StartedInv /\ WaitInv

\* The two refreshes of a request, and how any other differs from them.
LEMMA JobsOf ==
  ASSUME NEW r \in Request
  PROVE  /\ <<r, "inner">> \in Job /\ <<r, "outer">> \in Job
         /\ <<r, "inner">> # <<r, "outer">>
         /\ \A q \in Request, w, x \in {"inner", "outer"} : <<q, w>> = <<r, x>> => q = r /\ w = x
BY DEF Job

LEMMA CallInit == Init => CallInv
<1> SUFFICES ASSUME Init PROVE CallInv
  OBVIOUS
<1>1. \A r \in Request : jobPc[<<r, "inner">>] = "none" /\ jobPc[<<r, "outer">>] = "none"
  BY JobsOf DEF Init
<1>2. StartedInv
  BY <1>1 DEF Init, StartedInv, StartedAt, Submitted
<1>3. WaitInv
  BY <1>1 DEF Init, WaitInv, NoForgottenWaiter, Submitted
<1> QED BY <1>2, <1>3 DEF CallInv

\* The steps of a thread that change its position only, other than to end it.
LEMMA MoveKeeps ==
  ASSUME TInv, CallInv, NEW r \in Request, NEW at,
         UNCHANGED <<call, activeRefreshes, waitVars, jobPc>>,
         pc' = [pc EXCEPT ![r] = at],
         \/ /\ pc[r] \in {"idle", "get", "calculate", "setRead"}
            /\ at \in {"get", "calculate", "setRead", "setWrite", "reply"}
         \/ pc[r] = "setWrite" /\ at = "lookup" /\ call[r] = "inner"
         \/ pc[r] = "setWrite" /\ at = "reply"
         \/ pc[r] \in {"lookup", "check"} /\ at \in {"check", "join", "submit"}
         \/ pc[r] \in {"lookup", "join"} /\ at = "reply" /\ call[r] = "inner"
         \/ pc[r] \in {"lookup", "join"} /\ at = "refused"
  PROVE  CallInv'
<1>1. StartedInv'
  <2> SUFFICES ASSUME NEW q \in Request PROVE StartedAt(q)'
    BY DEF StartedInv
  <2>1. CASE q = r
    BY <2>1 DEF TInv, TypeOK, CallInv, StartedInv, StartedAt, Submitted
  <2>2. CASE q # r
    BY <2>2 DEF TInv, TypeOK, CallInv, StartedInv, StartedAt, Submitted
  <2> QED BY <2>1, <2>2
<1>2. WaitInv'
  BY JobsOf DEF TInv, TypeOK, CallInv, WaitInv, NoForgottenWaiter, Submitted, waitVars
<1> QED BY <1>1, <1>2 DEF CallInv


LEMMA GetKeeps ==
  ASSUME TInv, CallInv, NEW r \in Request, Get(r) PROVE CallInv'
<1>1. CASE Cached(r) # NotLoaded /\ ~Forced(r)
  BY <1>1, MoveKeeps DEF Get, Goto, cacheVars, jobVars
<1>2. CASE ~(Cached(r) # NotLoaded /\ ~Forced(r))
  <2>1. /\ pc[r] = "get" /\ pc' = [pc EXCEPT ![r] = "calculate"]
        /\ \E w \in {"none", "inner"} : call' = [call EXCEPT ![r] = w]
        /\ UNCHANGED <<activeRefreshes, waitVars, jobPc>>
    BY <1>2 DEF Get, Goto, cacheVars, jobVars
  <2>2. StartedInv'
    BY <2>1 DEF TInv, TypeOK, CallInv, StartedInv, StartedAt, Submitted
  <2>3. WaitInv'
    BY <2>1 DEF TInv, TypeOK, CallInv, WaitInv, NoForgottenWaiter, Submitted, waitVars
  <2> QED BY <2>2, <2>3 DEF CallInv
<1> QED BY <1>1, <1>2

LEMMA CalculateKeeps ==
  ASSUME TInv, CallInv, NEW r \in Request, Calculate(r) PROVE CallInv'
<1>1. CASE pc' = [pc EXCEPT ![r] = "setRead"] /\ UNCHANGED outcome
  BY <1>1, MoveKeeps DEF Calculate, cacheVars, jobVars, waitVars
<1>2. CASE pc' = [pc EXCEPT ![r] = "ended"] /\ outcome' = [outcome EXCEPT ![r] = "error"]
  <2>1. pc[r] = "calculate" /\ UNCHANGED <<activeRefreshes, call, joined, jobPc>>
    BY DEF Calculate, cacheVars, jobVars
  <2>2. StartedInv'
    BY <1>2, <2>1 DEF TInv, TypeOK, CallInv, StartedInv, StartedAt, Submitted
  <2>3. WaitInv'
    BY <1>2, <2>1 DEF TInv, TypeOK, CallInv, WaitInv, NoForgottenWaiter, Submitted
  <2> QED BY <2>2, <2>3 DEF CallInv
<1> QED BY <1>1, <1>2 DEF Calculate, Goto

LEMMA ReplyKeeps ==
  ASSUME TInv, CallInv, NEW r \in Request, Reply(r) PROVE CallInv'
<1>1. /\ pc[r] = "reply" /\ UNCHANGED <<activeRefreshes, joined, jobPc>>
      /\ \/ /\ pc' = [pc EXCEPT ![r] = "ended"] /\ UNCHANGED call
            /\ outcome' = [outcome EXCEPT ![r] = "schema"]
         \/ /\ pc' = [pc EXCEPT ![r] = "lookup"] /\ call' = [call EXCEPT ![r] = "outer"]
            /\ UNCHANGED outcome
  BY DEF Reply, Goto, cacheVars, jobVars
<1>2. StartedInv'
  <2> SUFFICES ASSUME NEW q \in Request PROVE StartedAt(q)'
    BY DEF StartedInv
  <2>1. CASE q = r /\ pc'[r] = "ended" /\ UNCHANGED call
    BY <1>1, <2>1 DEF TInv, TypeOK, CallInv, StartedInv, StartedAt, Submitted
  <2>2. CASE q = r /\ pc'[r] = "lookup" /\ call'[r] = "outer"
    BY <1>1, <2>2 DEF CallInv, StartedInv, StartedAt, Submitted
  <2>3. CASE q # r
    BY <1>1, <2>3 DEF TInv, TypeOK, CallInv, StartedInv, StartedAt, Submitted
  <2> QED BY <1>1, <2>1, <2>2, <2>3 DEF TInv, TypeOK
<1>3. WaitInv'
  BY <1>1 DEF TInv, TypeOK, CallInv, WaitInv, NoForgottenWaiter, Submitted
<1> QED BY <1>2, <1>3 DEF CallInv

\* A request that finds a refresh registered awaits it.
LEMMA JoinKeeps ==
  ASSUME TInv, CallInv, NEW r \in Request, Join(r) PROVE CallInv'
<1>1. pc[r] = "join" /\ UNCHANGED <<activeRefreshes, call, outcome, jobPc>>
  BY DEF Join, cacheVars, jobVars
<1>2. call[r] \in {"inner", "outer"}
  BY <1>1 DEF TInv, TypeOK, LoadedInv
<1>3. CASE Active(r) = NoJob
  BY <1>1, <1>2, <1>3, MoveKeeps DEF Join, Refuse, Goto, waitVars
<1>4. CASE Active(r) # NoJob /\ call[r] = "inner"
  BY <1>1, <1>4, MoveKeeps DEF Join, Return, Goto, waitVars
<1>5. CASE Active(r) # NoJob /\ call[r] = "outer"
  <2>1. pc' = [pc EXCEPT ![r] = "ended"] /\ joined' = [joined EXCEPT ![r] = Active(r)]
    BY <1>5 DEF Join, Return, Goto
  <2>2. Submitted(Active(r))
    BY <1>5 DEF TInv, TypeOK, CallInv, WaitInv, Active
  <2>3. StartedInv'
    BY <1>1, <1>5, <2>1 DEF TInv, TypeOK, CallInv, StartedInv, StartedAt, Submitted
  <2>4. WaitInv'
    BY <1>1, <1>5, <2>1, <2>2 DEF TInv, TypeOK, CallInv, WaitInv, NoForgottenWaiter, Submitted
  <2> QED BY <2>3, <2>4 DEF CallInv
<1> QED BY <1>2, <1>3, <1>4, <1>5

LEMMA SubmitKeeps ==
  ASSUME TInv, CallInv, NEW r \in Request, Submit(r) PROVE CallInv'
<1>1. /\ pc[r] = "submit" /\ pc' = [pc EXCEPT ![r] = "register"]
      /\ jobPc' = [jobPc EXCEPT ![<<r, call[r]>>] = "working"]
      /\ UNCHANGED <<activeRefreshes, call, joined, outcome>>
  BY DEF Submit, Goto, JobGoto, cacheVars, waitVars
<1>2. call[r] \in {"inner", "outer"} /\ <<r, call[r]>> \in Job
  BY <1>1, JobsOf DEF TInv, TypeOK, LoadedInv
<1>3. \A j \in Job : Submitted(j) => Submitted(j)'
  BY <1>1, <1>2 DEF TInv, TypeOK, Submitted
<1>4. \A j \in Job : j # <<r, call[r]>> => jobPc'[j] = jobPc[j]
  BY <1>1
<1>5. jobPc'[<<r, call[r]>>] = "working"
  BY <1>1, <1>2 DEF TInv, TypeOK
<1>6. StartedInv'
  <2> SUFFICES ASSUME NEW q \in Request PROVE StartedAt(q)'
    BY DEF StartedInv
  <2>1. CASE q = r
    BY <1>1, <1>2, <1>4, <1>5, <2>1, JobsOf DEF TInv, TypeOK, CallInv, StartedInv, StartedAt, Submitted
  <2>2. CASE q # r
    <3>1. UNCHANGED <<jobPc[<<q, "inner">>], jobPc[<<q, "outer">>]>> /\ pc'[q] = pc[q] /\ call'[q] = call[q]
      BY <1>1, <1>2, <1>4, <2>2, JobsOf DEF TInv, TypeOK
    <3>2. pc[q] = "register" => call[q] \in {"inner", "outer"}
      BY DEF TInv, TypeOK, LoadedInv
    <3> QED BY <3>1, <3>2 DEF CallInv, StartedInv, StartedAt, Submitted
  <2> QED BY <2>1, <2>2
<1>7. WaitInv'
  <2>1. \A c \in Conn : activeRefreshes'[c] # NoJob => Submitted(activeRefreshes[c])'
    BY <1>1, <1>3 DEF TInv, TypeOK, CallInv, WaitInv
  <2>2. \A q \in Request : joined'[q] # NoJob => pc'[q] = "ended" /\ Submitted(joined[q])'
    BY <1>1, <1>3 DEF TInv, TypeOK, CallInv, WaitInv
  <2>3. \A q \in Request : jobPc'[<<q, "outer">>] = "done" => outcome'[q] # "none"
    BY <1>1, <1>4, <1>5, JobsOf DEF CallInv, WaitInv
  <2>4. NoForgottenWaiter'
    <3> SUFFICES ASSUME NEW q \in Request, pc'[q] = "ended", outcome'[q] = "none"
                 PROVE  IF joined[q] # NoJob THEN Submitted(joined[q])'
                        ELSE jobPc'[<<q, "outer">>] \notin {"none", "done"}
      BY <1>1 DEF NoForgottenWaiter, Submitted
    <3>1. pc[q] = "ended" /\ q # r
      BY <1>1 DEF TInv, TypeOK
    <3>2. jobPc'[<<q, "outer">>] = jobPc[<<q, "outer">>]
      BY <1>4, <3>1, JobsOf, <1>2
    <3> QED BY <1>1, <1>3, <3>1, <3>2 DEF CallInv, WaitInv, NoForgottenWaiter, Submitted, TInv, TypeOK
  <2> QED BY <2>1, <2>2, <2>3, <2>4, <1>1 DEF WaitInv, Submitted
<1> QED BY <1>6, <1>7 DEF CallInv

LEMMA RegisterKeeps ==
  ASSUME TInv, CallInv, NEW r \in Request, Register(r) PROVE CallInv'
<1>1. /\ pc[r] = "register" /\ pc' = [pc EXCEPT ![r] = IF call[r] = "inner" THEN "reply" ELSE "ended"]
      /\ activeRefreshes' = [activeRefreshes EXCEPT ![conn[r]] = <<r, call[r]>>]
      /\ UNCHANGED <<call, joined, outcome, jobPc>>
  BY DEF Register, Return, Goto, waitVars, jobVars
<1>2. call[r] \in {"inner", "outer"} /\ Submitted(<<r, call[r]>>) /\ conn[r] \in Conn
  BY <1>1 DEF TInv, TypeOK, LoadedInv, CallInv, StartedInv, StartedAt
<1>3. StartedInv'
  <2> SUFFICES ASSUME NEW q \in Request PROVE StartedAt(q)'
    BY DEF StartedInv
  <2>1. CASE q = r
    BY <1>1, <1>2, <2>1 DEF TInv, TypeOK, CallInv, StartedInv, StartedAt, Submitted
  <2>2. CASE q # r
    BY <1>1, <2>2 DEF TInv, TypeOK, CallInv, StartedInv, StartedAt, Submitted
  <2> QED BY <2>1, <2>2
<1>4. WaitInv'
  BY <1>1, <1>2 DEF TInv, TypeOK, CallInv, WaitInv, NoForgottenWaiter, Submitted
<1> QED BY <1>3, <1>4 DEF CallInv

\* A refresh moves on, other than to its end.
LEMMA RefreshKeeps ==
  ASSUME TInv, CallInv, NEW j \in Job, NEW at \in {"completed", "write", "remove", "notify"},
         Submitted(j), jobPc' = [jobPc EXCEPT ![j] = at],
         UNCHANGED <<pc, call, joined, outcome>>,
         activeRefreshes' = activeRefreshes \/
           activeRefreshes' = [activeRefreshes EXCEPT ![conn[j[1]]] = NoJob]
  PROVE  CallInv'
<1>1. \A i \in Job : Submitted(i)' <=> Submitted(i)
  BY DEF Submitted, TInv, TypeOK
<1>2. \A i \in Job : jobPc'[i] = "done" => jobPc[i] = "done"
  BY DEF TInv, TypeOK
<1>3. StartedInv'
  <2>1. \A q \in Request : pc[q] = "register" => <<q, call[q]>> \in Job
    BY JobsOf DEF TInv, TypeOK, LoadedInv
  <2> QED BY <1>1, <2>1, JobsOf DEF CallInv, StartedInv, StartedAt
<1>4. WaitInv'
  <2>1. \A c \in Conn : activeRefreshes'[c] # NoJob => Submitted(activeRefreshes[c])'
    <3>1. \A c \in Conn : activeRefreshes'[c] # NoJob => activeRefreshes'[c] = activeRefreshes[c]
      BY DEF TInv, TypeOK
    <3> QED BY <1>1, <3>1 DEF TInv, TypeOK, CallInv, WaitInv, Submitted
  <2>2. \A q \in Request : joined'[q] # NoJob => pc'[q] = "ended" /\ Submitted(joined[q])'
    BY <1>1 DEF TInv, TypeOK, CallInv, WaitInv, Submitted
  <2>3. \A q \in Request : jobPc'[<<q, "outer">>] = "done" => outcome'[q] # "none"
    BY <1>2, JobsOf DEF CallInv, WaitInv
  <2>4. NoForgottenWaiter'
    BY <1>1, <1>2, JobsOf DEF CallInv, WaitInv, NoForgottenWaiter, Submitted, TInv, TypeOK
  <2> QED BY <2>1, <2>2, <2>3, <2>4 DEF WaitInv, Submitted
<1> QED BY <1>3, <1>4 DEF CallInv

\* The refresh calls its request back.
LEMMA CallbackNotifyKeeps ==
  ASSUME TInv, CallInv, NEW j \in Job, CallbackNotify(j) PROVE CallInv'
<1>1. /\ jobPc[j] = "notify" /\ jobPc' = [jobPc EXCEPT ![j] = "done"]
      /\ UNCHANGED <<pc, call, joined, activeRefreshes>>
      /\ IF j[2] = "outer" THEN outcome' = [outcome EXCEPT ![j[1]] = Outcome(j)] ELSE UNCHANGED outcome
  BY DEF CallbackNotify, JobGoto, Tell, ThreadVars, cacheVars
<1>2. j[1] \in Request /\ j = <<j[1], j[2]>> /\ Outcome(j) # "none"
  BY DEF Job, Outcome
<1>3. \A i \in Job : Submitted(i)' <=> Submitted(i)
  BY <1>1 DEF Submitted, TInv, TypeOK
<1>4. \A i \in Job : i # j => jobPc'[i] = jobPc[i]
  BY <1>1 DEF TInv, TypeOK
<1>5. \A q \in Request : outcome[q] # "none" => outcome'[q] # "none"
  BY <1>1, <1>2 DEF TInv, TypeOK
<1>6. \A q \in Request : <<q, "outer">> = j => outcome'[q] # "none"
  <2> SUFFICES ASSUME NEW q \in Request, <<q, "outer">> = j PROVE outcome'[q] # "none"
    OBVIOUS
  <2>1. j[1] = q /\ j[2] = "outer"
    OBVIOUS
  <2> QED BY <1>1, <1>2, <2>1 DEF TInv, TypeOK
<1>7. StartedInv'
  <2>1. \A q \in Request : pc[q] = "register" => <<q, call[q]>> \in Job
    BY JobsOf DEF TInv, TypeOK, LoadedInv
  <2> QED BY <1>1, <1>3, <2>1, JobsOf DEF CallInv, StartedInv, StartedAt
<1>8. WaitInv'
  <2>1. \A c \in Conn : activeRefreshes'[c] # NoJob => Submitted(activeRefreshes[c])'
    BY <1>1, <1>3 DEF TInv, TypeOK, CallInv, WaitInv
  <2>2. \A q \in Request : joined'[q] # NoJob => pc'[q] = "ended" /\ Submitted(joined[q])'
    BY <1>1, <1>3 DEF TInv, TypeOK, CallInv, WaitInv
  <2>3. \A q \in Request : jobPc'[<<q, "outer">>] = "done" => outcome'[q] # "none"
    BY <1>4, <1>5, <1>6, JobsOf DEF CallInv, WaitInv
  <2>4. NoForgottenWaiter'
    <3> SUFFICES ASSUME NEW q \in Request, pc'[q] = "ended", outcome'[q] = "none"
                 PROVE  IF joined[q] # NoJob THEN Submitted(joined[q])'
                        ELSE jobPc'[<<q, "outer">>] \notin {"none", "done"}
      BY <1>1 DEF NoForgottenWaiter, Submitted
    <3>1. pc[q] = "ended" /\ outcome[q] = "none" /\ <<q, "outer">> # j
      BY <1>1, <1>5, <1>6
    <3>2. jobPc'[<<q, "outer">>] = jobPc[<<q, "outer">>]
      BY <1>4, <3>1, JobsOf
    <3>3. CASE joined[q] # NoJob
      BY <1>1, <2>2, <3>3
    <3>4. CASE joined[q] = NoJob
      BY <3>1, <3>2, <3>4 DEF CallInv, WaitInv, NoForgottenWaiter
    <3> QED BY <3>3, <3>4
  <2> QED BY <2>1, <2>2, <2>3, <2>4, <1>1 DEF WaitInv, Submitted
<1> QED BY <1>7, <1>8 DEF CallInv

LEMMA NotifyJoinerKeeps ==
  ASSUME TInv, CallInv, NEW r \in Request, NotifyJoiner(r) PROVE CallInv'
<1>1. /\ joined' = [joined EXCEPT ![r] = NoJob]
      /\ outcome' = [outcome EXCEPT ![r] = Outcome(joined[r])]
      /\ UNCHANGED <<pc, call, activeRefreshes, jobPc>>
  BY DEF NotifyJoiner, Tell, ThreadVars, cacheVars, jobVars
<1>2. Outcome(joined[r]) # "none"
  BY DEF Outcome
<1>3. StartedInv'
  BY <1>1 DEF CallInv, StartedInv, StartedAt, Submitted
<1>4. WaitInv'
  BY <1>1, <1>2 DEF TInv, TypeOK, CallInv, WaitInv, NoForgottenWaiter, Submitted
<1> QED BY <1>3, <1>4 DEF CallInv

LEMMA CallStep == TInv /\ CallInv /\ [Next]_vars => CallInv'
<1> SUFFICES ASSUME TInv, CallInv, [Next]_vars PROVE CallInv'
  OBVIOUS
<1>1. ASSUME NEW c \in Conn, Change(c) PROVE CallInv'
  BY <1>1 DEF Change, CallInv, StartedInv, StartedAt, WaitInv, NoForgottenWaiter, Submitted,
     cacheVars, waitVars, jobVars
<1>2. ASSUME NEW r \in Request, NEW k \in Kind, Ask(r, k) PROVE CallInv'
  BY <1>2, MoveKeeps DEF Ask, Goto, cacheVars, jobVars
<1>3. ASSUME NEW r \in Request, Serve(r) PROVE CallInv'
  <2>1. CASE SetRead(r)
    BY <2>1, MoveKeeps DEF SetRead, Goto, cacheVars, jobVars
  <2>2. CASE SetWrite(r)
    BY <2>2, MoveKeeps DEF SetWrite, Goto, jobVars
  <2>3. CASE Lookup(r)
    <3>1. call[r] \in {"inner", "outer"}
      BY <2>3 DEF Lookup, TInv, TypeOK, LoadedInv
    <3> QED BY <2>3, <3>1, MoveKeeps DEF Lookup, Refuse, Goto, cacheVars, jobVars
  <2>4. CASE Check(r)
    BY <2>4, MoveKeeps DEF Check, Goto, cacheVars, jobVars
  <2> QED BY <1>3, <2>1, <2>2, <2>3, <2>4, GetKeeps, CalculateKeeps, ReplyKeeps, JoinKeeps,
         SubmitKeeps, RegisterKeeps DEF Serve
<1>4. ASSUME NEW r \in Request, NotifyJoiner(r) PROVE CallInv'
  BY <1>4, NotifyJoinerKeeps
<1>5. ASSUME NEW j \in Job, Refresh(j) PROVE CallInv'
  <2>1. CASE Work(j)
    BY <2>1, RefreshKeeps DEF Work, JobGoto, Submitted, ThreadVars, cacheVars, waitVars
  <2>2. CASE CallbackRead(j)
    BY <2>2, RefreshKeeps DEF CallbackRead, JobGoto, Submitted, ThreadVars, cacheVars, waitVars
  <2>3. CASE CallbackWrite(j)
    BY <2>3, RefreshKeeps DEF CallbackWrite, JobGoto, Submitted, ThreadVars, waitVars
  <2>4. CASE CallbackRemove(j)
    BY <2>4, RefreshKeeps DEF CallbackRemove, ReadyToRemove, JobGoto, Submitted, ThreadVars, waitVars
  <2> QED BY <1>5, <2>1, <2>2, <2>3, <2>4, CallbackNotifyKeeps DEF Refresh
<1>6. CASE UNCHANGED vars
  BY <1>6 DEF vars, CallInv, StartedInv, StartedAt, WaitInv, NoForgottenWaiter, Submitted,
     cacheVars, waitVars, jobVars
<1> QED BY <1>1, <1>2, <1>3, <1>4, <1>5, <1>6 DEF Next

\* A request whose thread has ended has its answer, or a refresh that was
\* submitted and has yet to call it back.
THEOREM NobodyIsForgotten == Spec => []NoForgottenWaiter
<1>1. CallInv => NoForgottenWaiter
  BY DEF CallInv, WaitInv
<1> QED BY <1>1, InitType, NextType, CallInit, CallStep, PTL DEF Spec

----------------------------------------------------------------------------
(* What stays registered                                                   *)

\* A refresh is registered for its own connection only.
RegisterInv ==
  /\ \A c \in Conn : activeRefreshes[c] # NoJob => conn[activeRefreshes[c][1]] = c
  /\ OnlyLateRefreshStaysRegistered

LEMMA RegisterInit == Init => RegisterInv
BY DEF Init, RegisterInv, OnlyLateRefreshStaysRegistered

\* The steps that register nothing and by which no refresh becomes over.
LEMMA RegisterFrame ==
  ASSUME RegisterInv, UNCHANGED <<conn, activeRefreshes, late>>,
         \A j \in Job : Removed(j)' => Removed(j), TypeOK
  PROVE  RegisterInv'
BY DEF RegisterInv, OnlyLateRefreshStaysRegistered, TypeOK

LEMMA RegisterStep == TInv /\ RegisterInv /\ [Next]_vars => RegisterInv'
<1> SUFFICES ASSUME TInv, RegisterInv, [Next]_vars PROVE RegisterInv'
  OBVIOUS
<1>1. ASSUME NEW c \in Conn, Change(c) PROVE RegisterInv'
  BY <1>1, RegisterFrame DEF Change, TInv, Removed, askVars, cacheVars, jobVars
<1>2. ASSUME NEW r \in Request, NEW k \in Kind, Ask(r, k) PROVE RegisterInv'
  BY <1>2, RegisterFrame DEF Ask, TInv, Removed, cacheVars, jobVars
<1>3. ASSUME NEW r \in Request, Serve(r) PROVE RegisterInv'
  <2>1. CASE Register(r)
    <3> DEFINE j == <<r, call[r]>>
    <3>1. /\ activeRefreshes' = [activeRefreshes EXCEPT ![conn[r]] = j]
          /\ late' = IF Removed(j) THEN late \cup {j} ELSE late
          /\ UNCHANGED <<conn, jobPc>>
      BY <2>1 DEF Register, askVars, jobVars
    <3>2. j[1] = r
      OBVIOUS
    <3> HIDE DEF j
    <3> QED BY <3>1, <3>2 DEF TInv, TypeOK, RegisterInv, OnlyLateRefreshStaysRegistered, Removed
  <2>2. CASE Submit(r)
    <3>1. jobPc' = [jobPc EXCEPT ![<<r, call[r]>>] = "working"] /\ UNCHANGED <<conn, activeRefreshes, late>>
      BY <2>2 DEF Submit, JobGoto, askVars, cacheVars
    <3>2. \A j \in Job : Removed(j)' => Removed(j)
      BY <3>1 DEF Removed, TInv, TypeOK
    <3> QED BY <3>1, <3>2, RegisterFrame DEF TInv
  <2>3. CASE ~Register(r) /\ ~Submit(r)
    <3>1. UNCHANGED <<conn, activeRefreshes, late, jobPc>>
      BY <1>3, <2>3 DEF Serve, Get, Calculate, SetRead, SetWrite, Reply, Lookup, Check, Join,
         askVars, cacheVars, jobVars
    <3> QED BY <3>1, RegisterFrame DEF TInv, Removed
  <2> QED BY <2>1, <2>2, <2>3
<1>4. ASSUME NEW r \in Request, NotifyJoiner(r) PROVE RegisterInv'
  BY <1>4, RegisterFrame DEF NotifyJoiner, TInv, Removed, ThreadVars, askVars, cacheVars, jobVars
<1>5. ASSUME NEW j \in Job, Refresh(j) PROVE RegisterInv'
  <2>1. CASE CallbackRemove(j)
    <3>1. /\ activeRefreshes' = [activeRefreshes EXCEPT ![conn[j[1]]] = NoJob]
          /\ jobPc' = [jobPc EXCEPT ![j] = "notify"] /\ UNCHANGED <<conn, late>>
      BY <2>1 DEF CallbackRemove, JobGoto, ThreadVars, askVars
    <3>2. \A c \in Conn : activeRefreshes'[c] # NoJob =>
            activeRefreshes'[c] = activeRefreshes[c] /\ activeRefreshes[c] # j
      BY <3>1 DEF TInv, TypeOK, RegisterInv
    <3>3. \A i \in Job : i # j => (Removed(i)' <=> Removed(i))
      BY <3>1 DEF Removed
    <3> QED BY <3>1, <3>2, <3>3 DEF TInv, TypeOK, RegisterInv, OnlyLateRefreshStaysRegistered
  <2>2. CASE Work(j) \/ CallbackRead(j) \/ CallbackWrite(j) \/ CallbackNotify(j)
    <3>1. UNCHANGED <<conn, activeRefreshes, late>>
      BY <2>2 DEF Work, CallbackRead, CallbackWrite, CallbackNotify, ThreadVars, askVars, cacheVars
    <3>2. \/ Removed(j)
          \/ \E at \in {"completed", "write", "remove"} : jobPc' = [jobPc EXCEPT ![j] = at]
      BY <2>2 DEF Work, CallbackRead, CallbackWrite, CallbackNotify, JobGoto, Removed
    <3>3. \A i \in Job : i # j => jobPc'[i] = jobPc[i]
      BY <2>2 DEF Work, CallbackRead, CallbackWrite, CallbackNotify, JobGoto, TInv, TypeOK
    <3>4. \A i \in Job : Removed(i)' => Removed(i)
      BY <3>2, <3>3 DEF Removed, TInv, TypeOK
    <3> QED BY <3>1, <3>4, RegisterFrame DEF TInv
  <2> QED BY <1>5, <2>1, <2>2 DEF Refresh
<1>6. CASE UNCHANGED vars
  BY <1>6, RegisterFrame DEF vars, TInv, Removed, askVars, cacheVars, jobVars
<1> QED BY <1>1, <1>2, <1>3, <1>4, <1>5, <1>6 DEF Next

\* A refresh that is over stays registered only if it was over before the
\* thread that submitted it came to register it.
THEOREM OnlyLateRefreshesStay == Spec => []OnlyLateRefreshStaysRegistered
<1>1. RegisterInv => OnlyLateRefreshStaysRegistered
  BY DEF RegisterInv
<1> QED BY <1>1, InitType, NextType, RegisterInit, RegisterStep, PTL DEF Spec

============================================================================
