----------------------- MODULE ConnectionRegistryProofs -----------------------
(***************************************************************************)
(* Proofs about ConnectionRegistry, for any connections, users, requests   *)
(* and saves, any number of versions of the settings and any permissions.  *)
(* The pools that are registered, taken by a flush, or about to be         *)
(* registered are told apart by the place of the thread that opened them   *)
(* (Places); the rest follows from what each of them may still do.         *)
(***************************************************************************)
EXTENDS ConnectionRegistry, TLAPS

\* The facts about the constants that the proofs need.
LEMMA Constants ==
  /\ Asker \cap Editor = {} /\ None \notin Thread /\ System \notin User
  /\ MaxVersion \in Nat \ {0}
  /\ Version = 1..MaxVersion /\ Absent = 0 /\ Absent \notin Version
BY RegistryAssumption DEF RegistryAssumption, Version, Absent

\* A thread that opens a pool has found settings to open it with.
HasSettings == \A t \in Thread : pc[t] \in {"connect", "put"} => seen[t] # Absent

\* A pool about to be registered is open and nobody else's; one that is
\* registered or taken was put there by a thread that has gone on since; one that is
\* both was left there by a removal that was lost.
Places ==
  /\ \A t \in Thread : pc[t] = "put" => pool[t] = "open"
  /\ \A c \in Connection : entry[c] # None =>
       conn[entry[c]] = c /\ pc[entry[c]] \in {"decide", "done"}
  /\ \A e \in Editor : taken[e] # None =>
       /\ pc[taken[e]] \in {"decide", "done"}
       /\ \A c \in Connection : entry[c] = taken[e] => entry[c] \in stuck

\* A pool is handed out with the settings its opener has read.
SameSettings ==
  /\ \A c \in Connection : entry[c] # None => cached[c] = seen[entry[c]]
  /\ \A t \in Thread : got[t] # None =>
       /\ pc[t] \in {"decide", "done"} /\ pc[got[t]] \in {"decide", "done"}
       /\ seen[got[t]] = seen[t]

\* A pool registered for a connection without a row was raced or outlived it.
AbsentIsRaced ==
  \A c \in Connection : row[c] = Absent /\ entry[c] # None => entry[c] \in raced \cup outlived

----------------------------------------------------------------------------
(* Types                                                                   *)

TypeInv == TypeOK /\ HasSettings

LEMMA TypeInit == Init => TypeInv
BY Constants DEF Init, TypeInv, TypeOK, HasSettings, Thread

LEMMA NextVersion ==
  ASSUME TypeOK, NEW c \in Connection, NewRow(c)
  PROVE  versions' \in Version /\ row' \in [Connection -> Version \cup {Absent}]
<1>1. versions \in Nat /\ versions' = versions + 1 /\ versions < MaxVersion
  BY Constants DEF TypeOK, NewRow
<1>2. versions' \in Version
  BY <1>1, Constants
<1> QED BY <1>2 DEF TypeOK, NewRow

LEMMA TypeInvStep ==
  ASSUME TypeInv, [Next]_vars
  PROVE  TypeInv'
<1> USE Constants DEF TypeInv, Thread, Goto, Here, rows, registry, threads, history, TypeOK, HasSettings
<1>1. ASSUME NEW t \in Asker, NEW u \in User \cup {System}, Ask(t, u)  PROVE TypeInv'
  BY <1>1 DEF Ask
<1>2. ASSUME NEW t \in Thread, Hit(t)  PROVE TypeInv'
  BY <1>2 DEF Hit
<1>3. ASSUME NEW t \in Thread, Miss(t)  PROVE TypeInv'
  BY <1>3 DEF Miss
<1>4. ASSUME NEW t \in Thread, Read(t)  PROVE TypeInv'
  <2>1. CASE row[conn[t]] # Absent
    BY <1>4, <2>1 DEF Read
  <2>2. CASE row[conn[t]] = Absent
    BY <1>4, <2>2 DEF Read
  <2> QED BY <2>1, <2>2
<1>5. ASSUME NEW t \in Thread, Connect(t)  PROVE TypeInv'
  <2>1. CASE Goto(t, "connect", "put") /\ pool' = [pool EXCEPT ![t] = "open"]
    BY <1>5, <2>1 DEF Connect
  <2>2. CASE Goto(t, "connect", "done") /\ UNCHANGED pool
    BY <1>5, <2>2 DEF Connect
  <2> QED BY <1>5, <2>1, <2>2 DEF Connect
<1>6. ASSUME NEW t \in Thread, Put(t)  PROVE TypeInv'
  <2>1. ASSUME Goto(t, "put", "decide"), entry' = [entry EXCEPT ![conn[t]] = t],
               cached' = [cached EXCEPT ![conn[t]] = seen[t]]
        PROVE  /\ entry' \in [Connection -> Thread \cup {None}]
               /\ cached' \in [Connection -> Version \cup {Absent}]
               /\ \A c \in Connection : cached'[c] = Absent <=> entry'[c] = None
    BY <2>1
  <2>2. /\ entry' \in [Connection -> Thread \cup {None}]
        /\ cached' \in [Connection -> Version \cup {Absent}]
        /\ \A c \in Connection : cached'[c] = Absent <=> entry'[c] = None
    BY <1>6, <2>1 DEF Put
  <2>3. lost' \subseteq Thread /\ during' \in [Thread -> SUBSET Thread] /\ raced' \subseteq Thread
    BY <1>6 DEF Put, Rivals, InFlight
  <2> QED BY <1>6, <2>2, <2>3 DEF Put
<1>7. ASSUME NEW t \in Thread, Decide(t)  PROVE TypeInv'
  BY <1>7 DEF Decide, MayRead
<1>8. ASSUME NEW e \in Editor, Load(e)  PROVE TypeInv'
  BY <1>8 DEF Load
<1>9. ASSUME NEW e \in Editor, Check(e)  PROVE TypeInv'
  BY <1>9 DEF Check
<1>10. ASSUME NEW e \in Editor, Insert(e)  PROVE TypeInv'
  <2>1. CASE UNCHANGED rows
    BY <1>10, <2>1 DEF Insert
  <2>2. CASE NewRow(conn[e])
    <3>1. versions' \in Version /\ row' \in [Connection -> Version \cup {Absent}]
      BY <2>2, NextVersion
    <3> QED BY <1>10, <3>1 DEF Insert
  <2> QED BY <1>10, <2>1, <2>2 DEF Insert
<1>11. ASSUME NEW e \in Editor, Flush(e)  PROVE TypeInv'
  <2>1. CASE Unlink(e) /\ taken' = [taken EXCEPT ![e] = Here(e)]
    <3>1. /\ entry' \in [Connection -> Thread \cup {None}]
          /\ cached' \in [Connection -> Version \cup {Absent}]
          /\ \A c \in Connection : cached'[c] = Absent <=> entry'[c] = None
      BY <2>1 DEF Unlink
    <3> QED BY <1>11, <2>1, <3>1 DEF Flush, Unlink
  <2>2. CASE UnlinkLost(e)
    BY <1>11, <2>2 DEF Flush, UnlinkLost
  <2> QED BY <1>11, <2>1, <2>2 DEF Flush
<1>12. ASSUME NEW e \in Editor, Close(e)  PROVE TypeInv'
  BY <1>12 DEF Close
<1>13. ASSUME NEW e \in Editor, Update(e)  PROVE TypeInv'
  <2>1. CASE UNCHANGED rows
    BY <1>13, <2>1 DEF Update
  <2>2. CASE NewRow(conn[e])
    <3>1. versions' \in Version /\ row' \in [Connection -> Version \cup {Absent}]
      BY <2>2, NextVersion
    <3> QED BY <1>13, <3>1 DEF Update
  <2> QED BY <1>13, <2>1, <2>2 DEF Update
<1>14. ASSUME NEW e \in Editor, Unregister(e)  PROVE TypeInv'
  <2>1. CASE Unlink(e)
    BY <1>14, <2>1 DEF Unregister, Unlink
  <2>2. CASE UnlinkLost(e)
    BY <1>14, <2>2 DEF Unregister, UnlinkLost
  <2> QED BY <1>14, <2>1, <2>2 DEF Unregister
<1>15. ASSUME NEW c \in Connection, Delete(c)  PROVE TypeInv'
  BY <1>15 DEF Delete
<1>16. CASE CloseAll
  BY <1>16 DEF CloseAll, Registered, Reached
<1>17. CASE ClearAll
  BY <1>17 DEF ClearAll, Registered, Reached
<1>18. ASSUME NEW c \in Connection, Vanish(c)  PROVE TypeInv'
  BY <1>18 DEF Vanish
<1>19. CASE UNCHANGED vars
  BY <1>19 DEF vars
<1> QED BY <1>1, <1>2, <1>3, <1>4, <1>5, <1>6, <1>7, <1>8, <1>9, <1>10, <1>11, <1>12, <1>13, <1>14, <1>15, <1>16, <1>17, <1>18, <1>19 DEF Next, Opening, Saving

----------------------------------------------------------------------------
(* Which pools may be where                                                *)

LEMMA PlacesInit == Init => Places
BY Constants DEF Init, Places, Thread

LEMMA PlacesStep ==
  ASSUME TypeInv, Places, [Next]_vars
  PROVE  Places'
<1> USE Constants DEF TypeInv, Places, Thread, Goto, Here, rows, registry, threads, history, TypeOK
<1>1. ASSUME NEW t \in Asker, NEW u \in User \cup {System}, Ask(t, u)  PROVE Places'
  BY <1>1 DEF Ask
<1>2. ASSUME NEW t \in Thread, Hit(t)  PROVE Places'
  BY <1>2 DEF Hit
<1>3. ASSUME NEW t \in Thread, Miss(t)  PROVE Places'
  BY <1>3 DEF Miss
<1>4. ASSUME NEW t \in Thread, Read(t)  PROVE Places'
  <2>1. CASE row[conn[t]] # Absent
    BY <1>4, <2>1 DEF Read
  <2>2. CASE row[conn[t]] = Absent
    BY <1>4, <2>2 DEF Read
  <2> QED BY <2>1, <2>2
<1>5. ASSUME NEW t \in Thread, Connect(t)  PROVE Places'
  <2>1. CASE Goto(t, "connect", "put") /\ pool' = [pool EXCEPT ![t] = "open"]
    BY <1>5, <2>1 DEF Connect
  <2>2. CASE Goto(t, "connect", "done") /\ UNCHANGED pool
    BY <1>5, <2>2 DEF Connect
  <2> QED BY <1>5, <2>1, <2>2 DEF Connect
<1>6. ASSUME NEW t \in Thread, Put(t)  PROVE Places'
  <2>1. CASE entry' = [entry EXCEPT ![conn[t]] = t]
    BY <1>6, <2>1 DEF Put
  <2>2. CASE UNCHANGED registry
    BY <1>6, <2>2 DEF Put
  <2> QED BY <1>6, <2>1, <2>2 DEF Put
<1>7. ASSUME NEW t \in Thread, Decide(t)  PROVE Places'
  BY <1>7 DEF Decide, MayRead
<1>8. ASSUME NEW e \in Editor, Load(e)  PROVE Places'
  BY <1>8 DEF Load
<1>9. ASSUME NEW e \in Editor, Check(e)  PROVE Places'
  <2>1. CASE Goto(e, "check", "done")
    BY <1>9, <2>1 DEF Check
  <2>2. CASE Goto(e, "check", "insert")
    BY <1>9, <2>2 DEF Check
  <2>3. CASE Goto(e, "check", "flush")
    BY <1>9, <2>3 DEF Check
  <2> QED BY <1>9, <2>1, <2>2, <2>3 DEF Check
<1>10. ASSUME NEW e \in Editor, Insert(e)  PROVE Places'
  BY <1>10 DEF Insert, NewRow
<1>11. ASSUME NEW e \in Editor, Flush(e)  PROVE Places'
  <2>1. ASSUME NEW c \in Connection, entry[c] = Here(e), entry[c] # None  PROVE c = conn[e]
    BY <1>11, <2>1
  <2>2. CASE Unlink(e) /\ taken' = [taken EXCEPT ![e] = Here(e)]
    <3>1. \A c \in Connection : entry'[c] # None => entry'[c] = entry[c] /\ entry[c] # Here(e)
      BY <2>1, <2>2 DEF Unlink
    <3>2. UNCHANGED <<pool, conn, stuck>> /\ \A t \in Thread : pc'[t] = IF t = e THEN "close" ELSE pc[t]
      BY <1>11, <2>2 DEF Flush, Unlink
    <3>3. \A t \in Thread : pc'[t] = "put" => pool'[t] = "open"
      BY <3>2
    <3>4. pc[e] = "flush" /\ e \in Thread
      BY <1>11 DEF Flush
    <3>5. \A c \in Connection : entry'[c] # None =>
            conn'[entry'[c]] = c /\ pc'[entry'[c]] \in {"decide", "done"}
      BY <3>1, <3>2, <3>4
    <3>6. ASSUME NEW x \in Editor, taken'[x] # None
          PROVE  /\ pc'[taken'[x]] \in {"decide", "done"}
                 /\ \A c \in Connection : entry'[c] = taken'[x] => entry'[c] \in stuck'
      <4>1. CASE x = e
        <5>1. taken'[x] = Here(e) /\ conn[e] \in Connection /\ Here(e) # None
          BY <2>2, <3>6, <4>1
        <5>2. pc[Here(e)] \in {"decide", "done"} /\ Here(e) \in Thread
          BY <5>1
        <5>3. pc'[Here(e)] \in {"decide", "done"}
          BY <3>2, <3>4, <5>2
        <5> QED BY <3>1, <5>1, <5>3
      <4>2. CASE x # e
        <5>1. taken'[x] = taken[x] /\ taken[x] \in Thread /\ pc[taken[x]] \in {"decide", "done"}
          BY <2>2, <3>6, <4>2
        <5>2. \A c \in Connection : entry'[c] = taken[x] => entry'[c] \in stuck'
          BY <3>1, <3>2, <3>6, <5>1
        <5> QED BY <3>2, <3>4, <5>1, <5>2
      <4> QED BY <4>1, <4>2
    <3> QED BY <3>3, <3>5, <3>6
  <2>3. CASE UnlinkLost(e)
    BY <1>11, <2>1, <2>3 DEF Flush, UnlinkLost
  <2> QED BY <1>11, <2>2, <2>3 DEF Flush
<1>12. ASSUME NEW e \in Editor, Close(e)  PROVE Places'
  BY <1>12 DEF Close
<1>13. ASSUME NEW e \in Editor, Update(e)  PROVE Places'
  BY <1>13 DEF Update, NewRow
<1>14. ASSUME NEW e \in Editor, Unregister(e)  PROVE Places'
  <2>1. CASE Unlink(e)
    BY <1>14, <2>1 DEF Unregister, Unlink
  <2>2. CASE UnlinkLost(e)
    BY <1>14, <2>2 DEF Unregister, UnlinkLost
  <2> QED BY <1>14, <2>1, <2>2 DEF Unregister
<1>15. ASSUME NEW c \in Connection, Delete(c)  PROVE Places'
  BY <1>15 DEF Delete
<1>16. CASE CloseAll
  <2>1. \A p \in Registered : pc[p] \in {"decide", "done"}
    BY DEF Registered
  <2> QED BY <1>16, <2>1 DEF CloseAll, Reached
<1>17. CASE ClearAll
  BY <1>17 DEF ClearAll, Registered, Reached
<1>18. ASSUME NEW c \in Connection, Vanish(c)  PROVE Places'
  BY <1>18 DEF Vanish
<1>19. CASE UNCHANGED vars
  BY <1>19 DEF vars
<1> QED BY <1>1, <1>2, <1>3, <1>4, <1>5, <1>6, <1>7, <1>8, <1>9, <1>10, <1>11, <1>12, <1>13, <1>14, <1>15, <1>16, <1>17, <1>18, <1>19 DEF Next, Opening, Saving

LEMMA OpenInit == Init => RegisteredIsOpen
BY DEF Init, RegisteredIsOpen

LEMMA RegisteredIsOpenStep ==
  ASSUME TypeInv, Places, RegisteredIsOpen, [Next]_vars
  PROVE  RegisteredIsOpen'
<1> USE Constants DEF TypeInv, Places, RegisteredIsOpen, Thread, Goto, Here, rows, registry, threads, history, TypeOK
<1>1. ASSUME NEW t \in Asker, NEW u \in User \cup {System}, Ask(t, u)  PROVE RegisteredIsOpen'
  BY <1>1 DEF Ask
<1>2. ASSUME NEW t \in Thread, Hit(t)  PROVE RegisteredIsOpen'
  BY <1>2 DEF Hit
<1>3. ASSUME NEW t \in Thread, Miss(t)  PROVE RegisteredIsOpen'
  BY <1>3 DEF Miss
<1>4. ASSUME NEW t \in Thread, Read(t)  PROVE RegisteredIsOpen'
  BY <1>4 DEF Read
<1>5. ASSUME NEW t \in Thread, Connect(t)  PROVE RegisteredIsOpen'
  BY <1>5 DEF Connect
<1>6. ASSUME NEW t \in Thread, Put(t)  PROVE RegisteredIsOpen'
  BY <1>6 DEF Put, MayRead, Rivals, InFlight
<1>7. ASSUME NEW t \in Thread, Decide(t)  PROVE RegisteredIsOpen'
  BY <1>7 DEF Decide, MayRead
<1>8. ASSUME NEW e \in Editor, Load(e)  PROVE RegisteredIsOpen'
  BY <1>8 DEF Load
<1>9. ASSUME NEW e \in Editor, Check(e)  PROVE RegisteredIsOpen'
  BY <1>9 DEF Check
<1>10. ASSUME NEW e \in Editor, Insert(e)  PROVE RegisteredIsOpen'
  BY <1>10 DEF Insert, NewRow
<1>11. ASSUME NEW e \in Editor, Flush(e)  PROVE RegisteredIsOpen'
  BY <1>11 DEF Flush, Unlink, UnlinkLost
<1>12. ASSUME NEW e \in Editor, Close(e)  PROVE RegisteredIsOpen'
  BY <1>12 DEF Close
<1>13. ASSUME NEW e \in Editor, Update(e)  PROVE RegisteredIsOpen'
  BY <1>13 DEF Update, NewRow
<1>14. ASSUME NEW e \in Editor, Unregister(e)  PROVE RegisteredIsOpen'
  BY <1>14 DEF Unregister, Unlink, UnlinkLost
<1>15. ASSUME NEW c \in Connection, Delete(c)  PROVE RegisteredIsOpen'
  BY <1>15 DEF Delete
<1>16. CASE CloseAll
  BY <1>16 DEF CloseAll, Registered, Reached
<1>17. CASE ClearAll
  BY <1>17 DEF ClearAll, Registered, Reached
<1>18. ASSUME NEW c \in Connection, Vanish(c)  PROVE RegisteredIsOpen'
  BY <1>18 DEF Vanish
<1>19. CASE UNCHANGED vars
  BY <1>19 DEF vars
<1> QED BY <1>1, <1>2, <1>3, <1>4, <1>5, <1>6, <1>7, <1>8, <1>9, <1>10, <1>11, <1>12, <1>13, <1>14, <1>15, <1>16, <1>17, <1>18, <1>19 DEF Next, Opening, Saving

LEMMA AccountInit == Init => PoolsAccounted
BY DEF Init, PoolsAccounted

LEMMA PoolsAccountedStep ==
  ASSUME TypeInv, Places, PoolsAccounted, [Next]_vars
  PROVE  PoolsAccounted'
<1> USE Constants DEF TypeInv, Places, PoolsAccounted, Thread, Goto, Here, rows, registry, threads, history, TypeOK, Registered
<1>1. ASSUME NEW t \in Asker, NEW u \in User \cup {System}, Ask(t, u)  PROVE PoolsAccounted'
  BY <1>1 DEF Ask
<1>2. ASSUME NEW t \in Thread, Hit(t)  PROVE PoolsAccounted'
  BY <1>2 DEF Hit
<1>3. ASSUME NEW t \in Thread, Miss(t)  PROVE PoolsAccounted'
  BY <1>3 DEF Miss
<1>4. ASSUME NEW t \in Thread, Read(t)  PROVE PoolsAccounted'
  BY <1>4 DEF Read
<1>5. ASSUME NEW t \in Thread, Connect(t)  PROVE PoolsAccounted'
  BY <1>5 DEF Connect
<1>6. ASSUME NEW t \in Thread, Put(t)  PROVE PoolsAccounted'
  BY <1>6 DEF Put, MayRead, Rivals, InFlight
<1>7. ASSUME NEW t \in Thread, Decide(t)  PROVE PoolsAccounted'
  BY <1>7 DEF Decide, MayRead
<1>8. ASSUME NEW e \in Editor, Load(e)  PROVE PoolsAccounted'
  BY <1>8 DEF Load
<1>9. ASSUME NEW e \in Editor, Check(e)  PROVE PoolsAccounted'
  BY <1>9 DEF Check
<1>10. ASSUME NEW e \in Editor, Insert(e)  PROVE PoolsAccounted'
  BY <1>10 DEF Insert, NewRow
<1>11. ASSUME NEW e \in Editor, Flush(e)  PROVE PoolsAccounted'
  BY <1>11 DEF Flush, Unlink, UnlinkLost
<1>12. ASSUME NEW e \in Editor, Close(e)  PROVE PoolsAccounted'
  <2> SUFFICES ASSUME NEW p \in Thread, pool'[p] = "open"
               PROVE  \/ p \in Registered' \cup lost' \/ pc'[p] = "put"
                      \/ \E x \in Editor : taken'[x] = p /\ pc'[x] = "close"
    OBVIOUS
  <2>1. pool[p] = "open" /\ p # taken[e]
    BY <1>12 DEF Close
  <2>2. ASSUME NEW x \in Editor, taken[x] = p, pc[x] = "close"
        PROVE  taken'[x] = p /\ pc'[x] = "close"
    BY <1>12, <2>1, <2>2 DEF Close
  <2>3. pc[p] = "put" => pc'[p] = "put"
    BY <1>12 DEF Close
  <2> QED BY <1>12, <2>1, <2>2, <2>3 DEF Close
<1>13. ASSUME NEW e \in Editor, Update(e)  PROVE PoolsAccounted'
  BY <1>13 DEF Update, NewRow
<1>14. ASSUME NEW e \in Editor, Unregister(e)  PROVE PoolsAccounted'
  BY <1>14 DEF Unregister, Unlink, UnlinkLost
<1>15. ASSUME NEW c \in Connection, Delete(c)  PROVE PoolsAccounted'
  BY <1>15 DEF Delete
<1>16. CASE CloseAll
  BY <1>16 DEF CloseAll, Registered, Reached
<1>17. CASE ClearAll
  BY <1>17 DEF ClearAll, Registered, Reached
<1>18. ASSUME NEW c \in Connection, Vanish(c)  PROVE PoolsAccounted'
  BY <1>18 DEF Vanish
<1>19. CASE UNCHANGED vars
  BY <1>19 DEF vars
<1> QED BY <1>1, <1>2, <1>3, <1>4, <1>5, <1>6, <1>7, <1>8, <1>9, <1>10, <1>11, <1>12, <1>13, <1>14, <1>15, <1>16, <1>17, <1>18, <1>19 DEF Next, Opening, Saving

LEMMA RivalsInit == Init => OnlyRacesOverwrite
BY DEF Init, OnlyRacesOverwrite, InFlight

LEMMA OnlyRacesOverwriteStep ==
  ASSUME TypeInv, OnlyRacesOverwrite, [Next]_vars
  PROVE  OnlyRacesOverwrite'
<1> USE Constants DEF TypeInv, OnlyRacesOverwrite, Thread, Goto, Here, rows, registry, threads, history, TypeOK, InFlight
<1>1. ASSUME NEW t \in Asker, NEW u \in User \cup {System}, Ask(t, u)  PROVE OnlyRacesOverwrite'
  BY <1>1 DEF Ask
<1>2. ASSUME NEW t \in Thread, Hit(t)  PROVE OnlyRacesOverwrite'
  BY <1>2 DEF Hit
<1>3. ASSUME NEW t \in Thread, Miss(t)  PROVE OnlyRacesOverwrite'
  BY <1>3 DEF Miss
<1>4. ASSUME NEW t \in Thread, Read(t)  PROVE OnlyRacesOverwrite'
  BY <1>4 DEF Read
<1>5. ASSUME NEW t \in Thread, Connect(t)  PROVE OnlyRacesOverwrite'
  BY <1>5 DEF Connect
<1>6. ASSUME NEW t \in Thread, Put(t)  PROVE OnlyRacesOverwrite'
  BY <1>6 DEF Put, MayRead, Rivals, InFlight
<1>7. ASSUME NEW t \in Thread, Decide(t)  PROVE OnlyRacesOverwrite'
  BY <1>7 DEF Decide, MayRead
<1>8. ASSUME NEW e \in Editor, Load(e)  PROVE OnlyRacesOverwrite'
  BY <1>8 DEF Load
<1>9. ASSUME NEW e \in Editor, Check(e)  PROVE OnlyRacesOverwrite'
  BY <1>9 DEF Check
<1>10. ASSUME NEW e \in Editor, Insert(e)  PROVE OnlyRacesOverwrite'
  BY <1>10 DEF Insert, NewRow
<1>11. ASSUME NEW e \in Editor, Flush(e)  PROVE OnlyRacesOverwrite'
  BY <1>11 DEF Flush, Unlink, UnlinkLost
<1>12. ASSUME NEW e \in Editor, Close(e)  PROVE OnlyRacesOverwrite'
  BY <1>12 DEF Close
<1>13. ASSUME NEW e \in Editor, Update(e)  PROVE OnlyRacesOverwrite'
  BY <1>13 DEF Update, NewRow
<1>14. ASSUME NEW e \in Editor, Unregister(e)  PROVE OnlyRacesOverwrite'
  BY <1>14 DEF Unregister, Unlink, UnlinkLost
<1>15. ASSUME NEW c \in Connection, Delete(c)  PROVE OnlyRacesOverwrite'
  BY <1>15 DEF Delete
<1>16. CASE CloseAll
  BY <1>16 DEF CloseAll, Registered, Reached
<1>17. CASE ClearAll
  BY <1>17 DEF ClearAll, Registered, Reached
<1>18. ASSUME NEW c \in Connection, Vanish(c)  PROVE OnlyRacesOverwrite'
  BY <1>18 DEF Vanish
<1>19. CASE UNCHANGED vars
  BY <1>19 DEF vars
<1> QED BY <1>1, <1>2, <1>3, <1>4, <1>5, <1>6, <1>7, <1>8, <1>9, <1>10, <1>11, <1>12, <1>13, <1>14, <1>15, <1>16, <1>17, <1>18, <1>19 DEF Next, Opening, Saving

----------------------------------------------------------------------------
(* Settings and permissions                                                *)

LEMMA SettingsInit == Init => SameSettings
BY DEF Init, SameSettings

LEMMA SameSettingsStep ==
  ASSUME TypeInv, Places, SameSettings, [Next]_vars
  PROVE  SameSettings'
<1> USE Constants DEF TypeInv, Places, SameSettings, Thread, Goto, Here, rows, registry, threads, history, TypeOK, HasSettings
<1>1. ASSUME NEW t \in Asker, NEW u \in User \cup {System}, Ask(t, u)  PROVE SameSettings'
  BY <1>1 DEF Ask
<1>2. ASSUME NEW t \in Thread, Hit(t)  PROVE SameSettings'
  BY <1>2 DEF Hit
<1>3. ASSUME NEW t \in Thread, Miss(t)  PROVE SameSettings'
  BY <1>3 DEF Miss
<1>4. ASSUME NEW t \in Thread, Read(t)  PROVE SameSettings'
  BY <1>4 DEF Read
<1>5. ASSUME NEW t \in Thread, Connect(t)  PROVE SameSettings'
  BY <1>5 DEF Connect
<1>6. ASSUME NEW t \in Thread, Put(t)  PROVE SameSettings'
  BY <1>6 DEF Put, MayRead, Rivals, InFlight
<1>7. ASSUME NEW t \in Thread, Decide(t)  PROVE SameSettings'
  BY <1>7 DEF Decide, MayRead
<1>8. ASSUME NEW e \in Editor, Load(e)  PROVE SameSettings'
  BY <1>8 DEF Load
<1>9. ASSUME NEW e \in Editor, Check(e)  PROVE SameSettings'
  BY <1>9 DEF Check
<1>10. ASSUME NEW e \in Editor, Insert(e)  PROVE SameSettings'
  BY <1>10 DEF Insert, NewRow
<1>11. ASSUME NEW e \in Editor, Flush(e)  PROVE SameSettings'
  BY <1>11 DEF Flush, Unlink, UnlinkLost
<1>12. ASSUME NEW e \in Editor, Close(e)  PROVE SameSettings'
  BY <1>12 DEF Close
<1>13. ASSUME NEW e \in Editor, Update(e)  PROVE SameSettings'
  BY <1>13 DEF Update, NewRow
<1>14. ASSUME NEW e \in Editor, Unregister(e)  PROVE SameSettings'
  BY <1>14 DEF Unregister, Unlink, UnlinkLost
<1>15. ASSUME NEW c \in Connection, Delete(c)  PROVE SameSettings'
  BY <1>15 DEF Delete
<1>16. CASE CloseAll
  BY <1>16 DEF CloseAll, Registered, Reached
<1>17. CASE ClearAll
  BY <1>17 DEF ClearAll, Registered, Reached
<1>18. ASSUME NEW c \in Connection, Vanish(c)  PROVE SameSettings'
  BY <1>18 DEF Vanish
<1>19. CASE UNCHANGED vars
  BY <1>19 DEF vars
<1> QED BY <1>1, <1>2, <1>3, <1>4, <1>5, <1>6, <1>7, <1>8, <1>9, <1>10, <1>11, <1>12, <1>13, <1>14, <1>15, <1>16, <1>17, <1>18, <1>19 DEF Next, Opening, Saving

LEMMA PermissionInit == Init => PermissionIsOfPool
BY Constants DEF Init, PermissionIsOfPool, Thread

LEMMA PermissionIsOfPoolStep ==
  ASSUME TypeInv, SameSettings, PermissionIsOfPool, [Next]_vars
  PROVE  PermissionIsOfPool'
<1> USE Constants DEF TypeInv, SameSettings, PermissionIsOfPool, Thread, Goto, Here, rows, registry, threads, history, TypeOK, HasSettings
<1>1. ASSUME NEW t \in Asker, NEW u \in User \cup {System}, Ask(t, u)  PROVE PermissionIsOfPool'
  BY <1>1 DEF Ask
<1>2. ASSUME NEW t \in Thread, Hit(t)  PROVE PermissionIsOfPool'
  <2> SUFFICES ASSUME NEW x \in Asker, pc'[x] = "done", got'[x] # None, user'[x] # System
               PROVE  user'[x] \in Allowed[seen'[got'[x]]]
    OBVIOUS
  <2>1. x # t /\ pc[x] = "done" /\ got'[x] = got[x] /\ user'[x] = user[x] /\ pc[t] = "lookup"
    BY <1>2 DEF Hit
  <2>2. got[x] # t /\ got[x] \in Thread
    BY <2>1
  <2>3. seen'[got[x]] = seen[got[x]]
    BY <1>2, <2>2 DEF Hit
  <2> QED BY <2>1, <2>3
<1>3. ASSUME NEW t \in Thread, Miss(t)  PROVE PermissionIsOfPool'
  BY <1>3 DEF Miss
<1>4. ASSUME NEW t \in Thread, Read(t)  PROVE PermissionIsOfPool'
  BY <1>4 DEF Read
<1>5. ASSUME NEW t \in Thread, Connect(t)  PROVE PermissionIsOfPool'
  BY <1>5 DEF Connect
<1>6. ASSUME NEW t \in Thread, Put(t)  PROVE PermissionIsOfPool'
  BY <1>6 DEF Put, MayRead, Rivals, InFlight
<1>7. ASSUME NEW t \in Thread, Decide(t)  PROVE PermissionIsOfPool'
  BY <1>7 DEF Decide, MayRead
<1>8. ASSUME NEW e \in Editor, Load(e)  PROVE PermissionIsOfPool'
  BY <1>8 DEF Load
<1>9. ASSUME NEW e \in Editor, Check(e)  PROVE PermissionIsOfPool'
  BY <1>9 DEF Check
<1>10. ASSUME NEW e \in Editor, Insert(e)  PROVE PermissionIsOfPool'
  BY <1>10 DEF Insert, NewRow
<1>11. ASSUME NEW e \in Editor, Flush(e)  PROVE PermissionIsOfPool'
  BY <1>11 DEF Flush, Unlink, UnlinkLost
<1>12. ASSUME NEW e \in Editor, Close(e)  PROVE PermissionIsOfPool'
  BY <1>12 DEF Close
<1>13. ASSUME NEW e \in Editor, Update(e)  PROVE PermissionIsOfPool'
  BY <1>13 DEF Update, NewRow
<1>14. ASSUME NEW e \in Editor, Unregister(e)  PROVE PermissionIsOfPool'
  BY <1>14 DEF Unregister, Unlink, UnlinkLost
<1>15. ASSUME NEW c \in Connection, Delete(c)  PROVE PermissionIsOfPool'
  BY <1>15 DEF Delete
<1>16. CASE CloseAll
  BY <1>16 DEF CloseAll, Registered, Reached
<1>17. CASE ClearAll
  BY <1>17 DEF ClearAll, Registered, Reached
<1>18. ASSUME NEW c \in Connection, Vanish(c)  PROVE PermissionIsOfPool'
  BY <1>18 DEF Vanish
<1>19. CASE UNCHANGED vars
  BY <1>19 DEF vars
<1> QED BY <1>1, <1>2, <1>3, <1>4, <1>5, <1>6, <1>7, <1>8, <1>9, <1>10, <1>11, <1>12, <1>13, <1>14, <1>15, <1>16, <1>17, <1>18, <1>19 DEF Next, Opening, Saving

LEMMA AbsentInit == Init => AbsentIsRaced
BY DEF Init, AbsentIsRaced

LEMMA AbsentIsRacedStep ==
  ASSUME TypeInv, AbsentIsRaced, [Next]_vars
  PROVE  AbsentIsRaced'
<1> USE Constants DEF TypeInv, AbsentIsRaced, Thread, Goto, Here, rows, registry, threads, history, TypeOK, HasSettings
<1>1. ASSUME NEW t \in Asker, NEW u \in User \cup {System}, Ask(t, u)  PROVE AbsentIsRaced'
  BY <1>1 DEF Ask
<1>2. ASSUME NEW t \in Thread, Hit(t)  PROVE AbsentIsRaced'
  BY <1>2 DEF Hit
<1>3. ASSUME NEW t \in Thread, Miss(t)  PROVE AbsentIsRaced'
  BY <1>3 DEF Miss
<1>4. ASSUME NEW t \in Thread, Read(t)  PROVE AbsentIsRaced'
  BY <1>4 DEF Read
<1>5. ASSUME NEW t \in Thread, Connect(t)  PROVE AbsentIsRaced'
  BY <1>5 DEF Connect
<1>6. ASSUME NEW t \in Thread, Put(t)  PROVE AbsentIsRaced'
  BY <1>6 DEF Put, MayRead, Rivals, InFlight
<1>7. ASSUME NEW t \in Thread, Decide(t)  PROVE AbsentIsRaced'
  BY <1>7 DEF Decide, MayRead
<1>8. ASSUME NEW e \in Editor, Load(e)  PROVE AbsentIsRaced'
  BY <1>8 DEF Load
<1>9. ASSUME NEW e \in Editor, Check(e)  PROVE AbsentIsRaced'
  BY <1>9 DEF Check
<1>10. ASSUME NEW e \in Editor, Insert(e)  PROVE AbsentIsRaced'
  BY <1>10 DEF Insert, NewRow
<1>11. ASSUME NEW e \in Editor, Flush(e)  PROVE AbsentIsRaced'
  BY <1>11 DEF Flush, Unlink, UnlinkLost
<1>12. ASSUME NEW e \in Editor, Close(e)  PROVE AbsentIsRaced'
  BY <1>12 DEF Close
<1>13. ASSUME NEW e \in Editor, Update(e)  PROVE AbsentIsRaced'
  BY <1>13 DEF Update, NewRow
<1>14. ASSUME NEW e \in Editor, Unregister(e)  PROVE AbsentIsRaced'
  BY <1>14 DEF Unregister, Unlink, UnlinkLost
<1>15. ASSUME NEW c \in Connection, Delete(c)  PROVE AbsentIsRaced'
  BY <1>15 DEF Delete
<1>16. CASE CloseAll
  BY <1>16 DEF CloseAll, Registered, Reached
<1>17. CASE ClearAll
  BY <1>17 DEF ClearAll, Registered, Reached
<1>18. ASSUME NEW c \in Connection, Vanish(c)  PROVE AbsentIsRaced'
  BY <1>18 DEF Vanish
<1>19. CASE UNCHANGED vars
  BY <1>19 DEF vars
<1> QED BY <1>1, <1>2, <1>3, <1>4, <1>5, <1>6, <1>7, <1>8, <1>9, <1>10, <1>11, <1>12, <1>13, <1>14, <1>15, <1>16, <1>17, <1>18, <1>19 DEF Next, Opening, Saving

LEMMA CurrentInit == Init => CurrentUnlessRaced
BY DEF Init, CurrentUnlessRaced

LEMMA CurrentUnlessRacedStep ==
  ASSUME TypeInv, AbsentIsRaced, CurrentUnlessRaced, [Next]_vars
  PROVE  CurrentUnlessRaced'
<1> USE Constants DEF TypeInv, AbsentIsRaced, CurrentUnlessRaced, Thread, Goto, Here, rows, registry, threads, history, TypeOK, HasSettings
<1>1. ASSUME NEW t \in Asker, NEW u \in User \cup {System}, Ask(t, u)  PROVE CurrentUnlessRaced'
  BY <1>1 DEF Ask
<1>2. ASSUME NEW t \in Thread, Hit(t)  PROVE CurrentUnlessRaced'
  BY <1>2 DEF Hit
<1>3. ASSUME NEW t \in Thread, Miss(t)  PROVE CurrentUnlessRaced'
  BY <1>3 DEF Miss
<1>4. ASSUME NEW t \in Thread, Read(t)  PROVE CurrentUnlessRaced'
  BY <1>4 DEF Read
<1>5. ASSUME NEW t \in Thread, Connect(t)  PROVE CurrentUnlessRaced'
  BY <1>5 DEF Connect
<1>6. ASSUME NEW t \in Thread, Put(t)  PROVE CurrentUnlessRaced'
  BY <1>6 DEF Put, MayRead, Rivals, InFlight
<1>7. ASSUME NEW t \in Thread, Decide(t)  PROVE CurrentUnlessRaced'
  BY <1>7 DEF Decide, MayRead
<1>8. ASSUME NEW e \in Editor, Load(e)  PROVE CurrentUnlessRaced'
  BY <1>8 DEF Load
<1>9. ASSUME NEW e \in Editor, Check(e)  PROVE CurrentUnlessRaced'
  BY <1>9 DEF Check
<1>10. ASSUME NEW e \in Editor, Insert(e)  PROVE CurrentUnlessRaced'
  BY <1>10 DEF Insert, NewRow
<1>11. ASSUME NEW e \in Editor, Flush(e)  PROVE CurrentUnlessRaced'
  BY <1>11 DEF Flush, Unlink, UnlinkLost
<1>12. ASSUME NEW e \in Editor, Close(e)  PROVE CurrentUnlessRaced'
  BY <1>12 DEF Close
<1>13. ASSUME NEW e \in Editor, Update(e)  PROVE CurrentUnlessRaced'
  BY <1>13 DEF Update, NewRow
<1>14. ASSUME NEW e \in Editor, Unregister(e)  PROVE CurrentUnlessRaced'
  BY <1>14 DEF Unregister, Unlink, UnlinkLost
<1>15. ASSUME NEW c \in Connection, Delete(c)  PROVE CurrentUnlessRaced'
  BY <1>15 DEF Delete
<1>16. CASE CloseAll
  BY <1>16 DEF CloseAll, Registered, Reached
<1>17. CASE ClearAll
  BY <1>17 DEF ClearAll, Registered, Reached
<1>18. ASSUME NEW c \in Connection, Vanish(c)  PROVE CurrentUnlessRaced'
  BY <1>18 DEF Vanish
<1>19. CASE UNCHANGED vars
  BY <1>19 DEF vars
<1> QED BY <1>1, <1>2, <1>3, <1>4, <1>5, <1>6, <1>7, <1>8, <1>9, <1>10, <1>11, <1>12, <1>13, <1>14, <1>15, <1>16, <1>17, <1>18, <1>19 DEF Next, Opening, Saving

----------------------------------------------------------------------------
(* The theorems                                                            *)

\* The variables stay in their types; a pool is opened with settings that were there.
THEOREM TypeCorrect == Spec => []TypeOK
<1>1. TypeInv /\ [Next]_vars => TypeInv'
  BY TypeInvStep
<1>2. TypeInv => TypeOK
  BY DEF TypeInv
<1> QED BY TypeInit, <1>1, <1>2, PTL DEF Spec

LEMMA TypeAlways == Spec => []TypeInv
<1>1. TypeInv /\ [Next]_vars => TypeInv'
  BY TypeInvStep
<1> QED BY TypeInit, <1>1, PTL DEF Spec

LEMMA PlacesAlways == Spec => []Places
<1>1. TypeInv /\ Places /\ [Next]_vars => Places'
  BY PlacesStep
<1> QED BY TypeAlways, PlacesInit, <1>1, PTL DEF Spec

LEMMA SettingsAlways == Spec => []SameSettings
<1>1. TypeInv /\ Places /\ SameSettings /\ [Next]_vars => SameSettings'
  BY SameSettingsStep
<1> QED BY TypeAlways, PlacesAlways, SettingsInit, <1>1, PTL DEF Spec

LEMMA AbsentAlways == Spec => []AbsentIsRaced
<1>1. TypeInv /\ AbsentIsRaced /\ [Next]_vars => AbsentIsRaced'
  BY AbsentIsRacedStep
<1> QED BY TypeAlways, AbsentInit, <1>1, PTL DEF Spec

\* databaseFor finds an open pool of the connection asked for, whatever saves, other
\* requests and the stop of the server do to the registry, as long as no removal of this
\* pool was lost to another change of the map.
THEOREM RegisteredPoolsAreOpen == Spec => []RegisteredIsOpen
<1>1. TypeInv /\ Places /\ RegisteredIsOpen /\ [Next]_vars => RegisteredIsOpen'
  BY RegisteredIsOpenStep
<1> QED BY TypeAlways, PlacesAlways, OpenInit, <1>1, PTL DEF Spec

\* A pool is leaked only by the three ways of the code to forget one: an overwrite, an
\* entry of the map that is lost, and reset.
THEOREM NoPoolIsUnaccounted == Spec => []PoolsAccounted
<1>1. TypeInv /\ Places /\ PoolsAccounted /\ [Next]_vars => PoolsAccounted'
  BY PoolsAccountedStep
<1> QED BY TypeAlways, PlacesAlways, AccountInit, <1>1, PTL DEF Spec

\* databaseFor overwrites a pool only in a race: with another opener, or with a change of
\* the map that made it overlook the pool.
THEOREM OverwritesAreRaces == Spec => []OnlyRacesOverwrite
<1>1. TypeInv /\ OnlyRacesOverwrite /\ [Next]_vars => OnlyRacesOverwrite'
  BY OnlyRacesOverwriteStep
<1> QED BY TypeAlways, RivalsInit, <1>1, PTL DEF Spec

\* Nobody gets a pool whose settings do not let him read it.
THEOREM PermissionsAreThoseOfThePool == Spec => []PermissionIsOfPool
<1>1. TypeInv /\ SameSettings /\ PermissionIsOfPool /\ [Next]_vars => PermissionIsOfPool'
  BY PermissionIsOfPoolStep
<1> QED BY TypeAlways, SettingsAlways, PermissionInit, <1>1, PTL DEF Spec

\* A pool of settings that are no longer the row's is due to a race of its opener with a
\* save, to a removal that was lost in the map or to a delete, or is about to be reset.
THEOREM StalePoolsAreRaced == Spec => []CurrentUnlessRaced
<1>1. TypeInv /\ AbsentIsRaced /\ CurrentUnlessRaced /\ [Next]_vars => CurrentUnlessRaced'
  BY CurrentUnlessRacedStep
<1> QED BY TypeAlways, AbsentAlways, CurrentInit, <1>1, PTL DEF Spec
=============================================================================
