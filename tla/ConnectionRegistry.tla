------------------------- MODULE ConnectionRegistry -------------------------
(***************************************************************************)
(* The registry of open connection pools (DatabaseRegistry) and the rows   *)
(* of the connections' settings (ConnectionSettingsService), between       *)
(* threads that ask for a pool, with a user or without, threads that save  *)
(* the settings of a connection, deletions, and the stop of the server.    *)
(*                                                                         *)
(* A thread opens at most one pool and a pool is named after the thread    *)
(* that opened it. Each save of a connection is a new version of its       *)
(* settings: address, credentials and permissions.                         *)
(*                                                                         *)
(* The map of the pools is a mutable.HashMap that nobody locks. While one  *)
(* thread changes it, what another does to it may be lost, a look-up may   *)
(* miss what is there, and two changes at once may drop the entry of a     *)
(* third connection (the entries of a bucket are a linked list).           *)
(***************************************************************************)
EXTENDS Naturals

CONSTANTS
  Connection,
  Asker,        \* threads that serve a request for a pool
  Editor,       \* threads that serve a save of a connection
  User,
  System,       \* the user of a request that needs no permission
  None,         \* no pool
  MaxVersion,   \* bound: saves, and the settings there are at the start
  Allowed       \* Allowed[v]: the users who may read a connection with settings v

Thread  == Asker \cup Editor
Version == 1..MaxVersion
Absent  == 0   \* the row of a connection that is not there

ASSUME RegistryAssumption ==
  /\ Asker \cap Editor = {} /\ None \notin Thread /\ System \notin User
  /\ MaxVersion \in Nat \ {0}
  /\ Allowed \in [Version -> SUBSET User]

VARIABLES
  row,       \* row[c]: the settings in the master database
  versions,  \* versions given out so far
  pool,      \* pool[t]: none, open or closed
  entry,     \* entry[c]: the pool registered for c, or None
  cached,    \* cached[c]: the settings registered with it
  pc, conn, user, seen, got,  \* of a thread; seen: the settings it has read, got: its pool
  taken,     \* taken[e]: the pool a flush has removed and not yet closed
  stopping,  \* of the server: no, closing, stopped
  lost,      \* history: pools that left the registry without being closed
  during,    \* history: during[t]: pools that t overlooked, or registered since it looked
  stuck,     \* history: pools that a removal has left registered
  raced,     \* history: pools registered when their settings were no longer the row's
  outlived   \* history: pools that were registered when their row was deleted

rows     == <<row, versions>>
registry == <<entry, cached>>
threads  == <<conn, user>>
history  == <<lost, during, stuck, raced, outlived>>
vars     == <<rows, pool, registry, pc, threads, seen, got, taken, stopping, history>>

TypeOK ==
  /\ row \in [Connection -> Version \cup {Absent}] /\ versions \in Version
  /\ pool \in [Thread -> {"none", "open", "closed"}]
  /\ entry \in [Connection -> Thread \cup {None}]
  /\ cached \in [Connection -> Version \cup {Absent}]
  /\ pc \in [Thread -> {"idle", "load", "check", "insert", "flush", "close", "update", "unregister",
                        "lookup", "read", "connect", "put", "decide", "done"}]
  /\ conn \in [Thread -> Connection] /\ user \in [Thread -> User \cup {System}]
  /\ seen \in [Thread -> Version \cup {Absent}] /\ got \in [Thread -> Thread \cup {None}]
  /\ taken \in [Editor -> Thread \cup {None}]
  /\ \A c \in Connection : cached[c] = Absent <=> entry[c] = None
  /\ stopping \in {"no", "closing", "stopped"}
  /\ lost \subseteq Thread /\ during \in [Thread -> SUBSET Thread]
  /\ stuck \subseteq Thread /\ raced \subseteq Thread /\ outlived \subseteq Thread

Init ==
  /\ row = [c \in Connection |-> 1] /\ versions = 1
  /\ pool = [t \in Thread |-> "none"]
  /\ entry = [c \in Connection |-> None] /\ cached = [c \in Connection |-> Absent]
  /\ pc = [t \in Thread |-> "idle"]
  /\ conn \in [Thread -> Connection] /\ user = [t \in Thread |-> System]
  /\ seen = [t \in Thread |-> Absent] /\ got = [t \in Thread |-> None]
  /\ taken = [e \in Editor |-> None] /\ stopping = "no"
  /\ lost = {} /\ during = [t \in Thread |-> {}]
  /\ stuck = {} /\ raced = {} /\ outlived = {}

Goto(t, p, q) == pc[t] = p /\ pc' = [pc EXCEPT ![t] = q]
Here(t) == entry[conn[t]]

\* Threads that are changing the map, and those a thread has to reckon with.
Writing   == {t \in Thread : pc[t] \in {"put", "flush", "unregister"}}
Racing(t) == Writing \ {t} # {}

-----------------------------------------------------------------------------
(* databaseFor and databaseForUser                                         *)

Ask(t, u) ==
  /\ t \in Asker /\ Goto(t, "idle", "lookup")
  /\ user' = [user EXCEPT ![t] = u]
  /\ UNCHANGED <<rows, pool, registry, conn, seen, got, taken, stopping, history>>

Hit(t) ==
  /\ Goto(t, "lookup", "decide") /\ Here(t) # None
  /\ got' = [got EXCEPT ![t] = Here(t)]
  /\ seen' = [seen EXCEPT ![t] = cached[conn[t]]]
  /\ UNCHANGED <<rows, pool, registry, threads, taken, stopping, history>>

\* Mutant: every request opens a pool.
MissAlways(t) ==
  /\ Goto(t, "lookup", "read")
  /\ during' = [during EXCEPT ![t] = {}]
  /\ UNCHANGED <<rows, pool, registry, threads, seen, got, taken, stopping,
                 lost, stuck, raced, outlived>>

Miss(t) ==
  /\ Goto(t, "lookup", "read") /\ (Here(t) = None \/ Racing(t))
  /\ during' = [during EXCEPT ![t] = {Here(t)} \ {None}]
  /\ UNCHANGED <<rows, pool, registry, threads, seen, got, taken, stopping,
                 lost, stuck, raced, outlived>>

\* Mutant: no look at whether the connection is there.
ReadUnchecked(t) ==
  /\ Goto(t, "read", "connect")
  /\ seen' = [seen EXCEPT ![t] = row[conn[t]]]
  /\ UNCHANGED <<rows, pool, registry, threads, got, taken, stopping, history>>

\* getById; a connection that is not there is an exception.
Read(t) ==
  /\ \/ Goto(t, "read", "connect") /\ row[conn[t]] # Absent
     \/ Goto(t, "read", "done") /\ row[conn[t]] = Absent
  /\ seen' = [seen EXCEPT ![t] = row[conn[t]]]
  /\ UNCHANGED <<rows, pool, registry, threads, got, taken, stopping, history>>

Connect(t) ==
  /\ \/ Goto(t, "connect", "put") /\ pool' = [pool EXCEPT ![t] = "open"]
     \/ Goto(t, "connect", "done") /\ UNCHANGED pool
  /\ UNCHANGED <<rows, registry, threads, seen, got, taken, stopping, history>>

InFlight(t) == pc[t] \in {"read", "connect", "put"}

\* History: everybody who is opening a pool for this connection now has a rival.
Rivals(t) == [x \in Thread |-> IF x = t THEN {}
                               ELSE IF InFlight(x) /\ conn[x] = conn[t] THEN during[x] \cup {t}
                               ELSE during[x]]

\* Mutant: the settings kept with the pool are read again.
PutWithRow(t) ==
  /\ Goto(t, "put", "decide")
  /\ LET c == conn[t] IN
       /\ entry' = [entry EXCEPT ![c] = t] /\ cached' = [cached EXCEPT ![c] = IF row[c] = Absent THEN seen[t] ELSE row[c]]
       /\ lost' = lost \cup ({entry[c]} \ {None})
       /\ raced' = IF seen[t] # row[c] THEN raced \cup {t} ELSE raced
  /\ got' = [got EXCEPT ![t] = t]
  /\ during' = Rivals(t)
  /\ UNCHANGED <<rows, pool, threads, seen, taken, stopping, stuck, outlived>>

\* databases(connectionId) = ret -> c: what is there already is forgotten, not
\* closed; another change of the map at the same moment may lose this one.
Put(t) ==
  /\ Goto(t, "put", "decide")
  /\ got' = [got EXCEPT ![t] = t]
  /\ LET c == conn[t] IN
       \/ /\ entry' = [entry EXCEPT ![c] = t] /\ cached' = [cached EXCEPT ![c] = seen[t]]
          /\ lost' = lost \cup ({entry[c]} \ {None})
          /\ during' = Rivals(t)
          /\ raced' = IF seen[t] # row[c] THEN raced \cup {t} ELSE raced
       \/ Racing(t) /\ lost' = lost \cup {t} /\ UNCHANGED <<registry, during, raced>>
  /\ UNCHANGED <<rows, pool, threads, seen, taken, stopping, stuck, outlived>>

\* resultFor(canRead(user, c), db)
MayRead(t) == user[t] = System \/ user[t] \in Allowed[seen[t]]

Decide(t) ==
  /\ Goto(t, "decide", "done")
  /\ got' = [got EXCEPT ![t] = IF MayRead(t) THEN got[t] ELSE None]
  /\ UNCHANGED <<rows, pool, registry, threads, seen, taken, stopping, history>>

-----------------------------------------------------------------------------
(* ConnectionSettingsController.save                                       *)

Load(e) ==
  /\ e \in Editor /\ Goto(e, "idle", "check")
  /\ seen' = [seen EXCEPT ![e] = row[conn[e]]]
  /\ UNCHANGED <<rows, pool, registry, threads, got, taken, stopping, history>>

\* GetExisting: another connection may have the name.
Check(e) ==
  /\ \/ Goto(e, "check", "done")
     \/ Goto(e, "check", "insert") /\ seen[e] = Absent
     \/ Goto(e, "check", "flush") /\ seen[e] # Absent
  /\ UNCHANGED <<rows, pool, registry, threads, seen, got, taken, stopping, history>>

NewRow(c) ==
  /\ versions < MaxVersion /\ versions' = versions + 1
  /\ row' = [row EXCEPT ![c] = versions']

Insert(e) ==
  /\ Goto(e, "insert", "done")
  /\ \/ row[conn[e]] = Absent /\ NewRow(conn[e])
     \/ row[conn[e]] # Absent /\ UNCHANGED rows
  /\ UNCHANGED <<pool, registry, threads, seen, got, taken, stopping, history>>

\* databases.remove takes effect, or is lost to another change of the map.
Unlink(e) ==
  /\ entry' = [entry EXCEPT ![conn[e]] = None] /\ cached' = [cached EXCEPT ![conn[e]] = Absent]
  /\ UNCHANGED stuck

UnlinkLost(e) ==
  /\ Racing(e) /\ UNCHANGED registry
  /\ stuck' = stuck \cup ({Here(e)} \ {None})

\* Mutant: the pool is closed and stays registered.
FlushKept(e) ==
  /\ Goto(e, "flush", "close")
  /\ taken' = [taken EXCEPT ![e] = Here(e)]
  /\ UNCHANGED <<rows, pool, registry, threads, seen, got, stopping, history>>

\* Mutant: the pool is taken out and not closed.
FlushUnclosed(e) ==
  /\ Goto(e, "flush", "close") /\ Unlink(e)
  /\ UNCHANGED <<rows, pool, threads, seen, got, taken, stopping, lost, during, raced, outlived>>

\* DatabaseRegistry.flush, the removal. One that is lost has found the pool or has
\* overlooked it.
Flush(e) ==
  /\ Goto(e, "flush", "close")
  /\ \/ Unlink(e) /\ taken' = [taken EXCEPT ![e] = Here(e)]
     \/ UnlinkLost(e) /\ \E p \in {Here(e), None} : taken' = [taken EXCEPT ![e] = p]
  /\ UNCHANGED <<rows, pool, threads, seen, got, stopping, lost, during, raced, outlived>>

\* ... and the close of what was removed.
Close(e) ==
  /\ Goto(e, "close", "update")
  /\ pool' = [t \in Thread |-> IF t = taken[e] THEN "closed" ELSE pool[t]]
  /\ taken' = [taken EXCEPT ![e] = None]
  /\ UNCHANGED <<rows, registry, threads, seen, got, stopping, history>>

\* An UPDATE of a row that is not there changes nothing.
Update(e) ==
  /\ Goto(e, "update", "unregister")
  /\ \/ row[conn[e]] # Absent /\ NewRow(conn[e])
     \/ row[conn[e]] = Absent /\ UNCHANGED rows
  /\ UNCHANGED <<pool, registry, threads, seen, got, taken, stopping, history>>

\* Mutant: the save relies on its flush.
NoUnregister(e) ==
  /\ Goto(e, "unregister", "lookup")
  /\ UNCHANGED <<rows, pool, registry, threads, seen, got, taken, stopping, history>>

\* DatabaseRegistry.reset: remove, without close; then databaseFor.
Unregister(e) ==
  /\ Goto(e, "unregister", "lookup")
  /\ \/ Unlink(e) /\ lost' = lost \cup ({Here(e)} \ {None})
     \/ UnlinkLost(e) /\ UNCHANGED lost
  /\ UNCHANGED <<rows, pool, threads, seen, got, taken, stopping, during, raced, outlived>>

-----------------------------------------------------------------------------
(* The delete of a connection and the stop of the server                   *)

Delete(c) ==
  /\ row[c] # Absent /\ row' = [row EXCEPT ![c] = Absent]
  /\ outlived' = outlived \cup ({entry[c]} \ {None})
  /\ UNCHANGED <<versions, pool, registry, pc, threads, seen, got, taken, stopping,
                 lost, during, stuck, raced>>

Registered == {entry[c] : c \in Connection} \ {None}

\* DatabaseRegistry.close: a pool may be missed, or its removal lost, while somebody
\* changes the map.
Reached(pools) == pools = Registered \/ (pools \subseteq Registered /\ Writing # {})

CloseAll ==
  /\ stopping = "no" /\ stopping' = "closing"
  /\ \E pools \in SUBSET Registered :
       /\ Reached(pools)
       /\ pool' = [t \in Thread |-> IF t \in pools THEN "closed" ELSE pool[t]]
  /\ UNCHANGED <<rows, registry, pc, threads, seen, got, taken, history>>

ClearAll ==
  /\ stopping = "closing" /\ stopping' = "stopped"
  /\ \E pools \in SUBSET Registered :
       /\ Reached(pools)
       /\ entry' = [c \in Connection |-> IF entry[c] \in pools THEN None ELSE entry[c]]
       /\ cached' = [c \in Connection |-> IF entry[c] \in pools THEN Absent ELSE cached[c]]
       /\ lost' = lost \cup {p \in pools : pool[p] = "open"}
       /\ stuck' = stuck \cup (Registered \ pools)
  /\ UNCHANGED <<rows, pool, pc, threads, seen, got, taken, during, raced, outlived>>

\* Two changes of the map at once drop the entry of another connection.
Vanish(c) ==
  /\ entry[c] # None
  /\ \E t, u \in Writing : t # u /\ c \notin {conn[t], conn[u]}
  /\ entry' = [entry EXCEPT ![c] = None] /\ cached' = [cached EXCEPT ![c] = Absent]
  /\ lost' = lost \cup {entry[c]}
  /\ UNCHANGED <<rows, pool, pc, threads, seen, got, taken, stopping, during, stuck, raced, outlived>>

Opening(t) == Hit(t) \/ Miss(t) \/ Read(t) \/ Connect(t) \/ Put(t) \/ Decide(t)
Saving(e)  == Load(e) \/ Check(e) \/ Insert(e) \/ Flush(e) \/ Close(e) \/ Update(e) \/ Unregister(e)

Next ==
  \/ \E t \in Asker, u \in User \cup {System} : Ask(t, u)
  \/ \E t \in Thread : Opening(t)
  \/ \E e \in Editor : Saving(e)
  \/ \E c \in Connection : Delete(c) \/ Vanish(c)
  \/ CloseAll \/ ClearAll

Spec == Init /\ [][Next]_vars

-----------------------------------------------------------------------------
(* Properties                                                              *)

\* The pool that databaseFor hands out belongs to the connection asked for and is
\* open, unless a removal has left it registered: flush removes before it closes, and
\* nobody puts back what it has removed (DatabaseRegistry.flush, close).
RegisteredIsOpen ==
  \A c \in Connection : entry[c] # None =>
    /\ conn[entry[c]] = c
    /\ pool[entry[c]] = "open" \/ stopping = "closing" \/ entry[c] \in stuck

\* An open pool is in the registry, in the hands of the thread that has just
\* opened it or of one that is about to close it, or it left the registry in one
\* of the ways that forget it: overwritten, lost in the map, or reset.
PoolsAccounted ==
  \A p \in Thread : pool[p] = "open" =>
    \/ p \in Registered \cup lost \/ pc[p] = "put"
    \/ \E e \in Editor : taken[e] = p /\ pc[e] = "close"

\* While a thread opens a pool the registry has, for its connection, nothing, a
\* pool registered since the thread looked, or one it overlooked while the map was
\* changed: only races make databaseFor forget a pool.
OnlyRacesOverwrite ==
  \A t \in Thread : InFlight(t) =>
    Here(t) = None \/ Here(t) \in during[t]

\* A user gets a pool only if the settings it was opened with let the user read
\* it, be it found or opened (databaseForUser judges the settings kept with the
\* pool, which need not be the row's).
PermissionIsOfPool ==
  \A t \in Asker : pc[t] = "done" /\ got[t] # None /\ user[t] # System =>
    user[t] \in Allowed[seen[got[t]]]

\* A registered pool that is not of the settings in the master database is about
\* to be reset by a save, was left there by a removal, was registered by a thread that
\* had read the settings before they changed, or outlived the delete of its connection.
CurrentUnlessRaced ==
  \A c \in Connection : entry[c] # None /\ row[c] # Absent /\ cached[c] # row[c] =>
    \/ \E e \in Editor : conn[e] = c /\ pc[e] = "unregister"
    \/ entry[c] \in stuck \cup raced \cup outlived
=============================================================================
