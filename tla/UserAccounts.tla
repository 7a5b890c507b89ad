---------------------------- MODULE UserAccounts ----------------------------
(***************************************************************************)
(* User accounts: the rows of the users and of their passwords in the      *)
(* master database (UserService, PasswordInfoService), the cache the rows  *)
(* are read through (UserCache, UserSearchService), and the requests that  *)
(* use them: registration, a profile save, and an administrator's create,  *)
(* edit and remove.                                                        *)
(*                                                                         *)
(* A request is a thread that serves it once; a user is named after the    *)
(* request that created it. Of a user the model keeps the e-mail address,  *)
(* which is the login, and the role. A statement outside of a transaction  *)
(* is one step; a transaction holds its rows until it commits.             *)
(***************************************************************************)
EXTENDS Naturals

CONSTANTS Request, Founder, Email, NoUser

Id   == Request \cup {Founder}
Role == {"user", "admin"}
User == [id : Id, email : Email, role : Role]
Maybe == User \cup {NoUser}

ASSUME AccountAssumption == Founder \notin Request /\ NoUser \notin User

VARIABLES
  users,       \* users[i]: the row of i, or NoUser
  passwords,   \* the addresses that have a password
  byId, byKey, \* the cache: user.<id> and user.<address>
  req,         \* req[t]: what a request serves and how far it is, see Serving
  since,       \* history: users stored since the request counted them
  raced,       \* history: users hit by a request whose reading had been overtaken
  orphaned,    \* history: users of whom a clean-up of the cache left an address
  halved       \* history: users of whom a request failed between two statements

tables  == <<users, passwords>>
cache   == <<byId, byKey>>
history == <<since, raced, orphaned, halved>>
vars    == <<tables, cache, req, history>>

\* actor: the administrator who asks; target: whom it is about; want: the user it
\* asks for; who: the user it has read or built; next: where it goes on after that
\* user has been cached.
Serving ==
  [kind : {"register", "profile", "create", "edit", "remove"},
   pc : {"byKey", "queryKey", "byId", "queryId", "guard", "count", "insert", "write",
         "put1", "put2", "password", "fields", "key", "find", "delete", "uncache1",
         "uncache2", "commit"},
   actor : Id, target : Id, want : Maybe, who : Maybe,
   next : {"done", "write", "guard", "password"}]
Idle == [pc |-> "idle"]
Done == [pc |-> "done"]

Present == {i \in Id : users[i] # NoUser}

TypeOK ==
  /\ users \in [Id -> Maybe] /\ passwords \subseteq Email
  /\ \A i, j \in Present : users[i].id = i /\ (users[i].email = users[j].email => i = j)
  /\ byId \in [Id -> Maybe] /\ \A i \in Id : byId[i] # NoUser => byId[i].id = i
  /\ byKey \in [Email -> Maybe] /\ \A e \in Email : byKey[e] # NoUser => byKey[e].email = e
  /\ req \in [Request -> Serving \cup {Idle, Done}]
  /\ since \in [Request -> SUBSET Id]
  /\ raced \subseteq Id /\ orphaned \subseteq Id /\ halved \subseteq Id

\* The tables are empty, or the first user has registered long ago.
Init ==
  /\ \E e \in Email, first \in BOOLEAN :
       /\ users = [i \in Id |-> IF i = Founder /\ ~first
                                THEN [id |-> i, email |-> e, role |-> "admin"] ELSE NoUser]
       /\ passwords = IF first THEN {} ELSE {e}
  /\ byId = [i \in Id |-> NoUser] /\ byKey = [e \in Email |-> NoUser]
  /\ req = [t \in Request |-> Idle]
  /\ since = [t \in Request |-> {}] /\ raced = {} /\ orphaned = {} /\ halved = {}

At(t, p) == req[t].pc = p

Goto(t, p, q) ==
  /\ At(t, p)
  /\ req' = [req EXCEPT ![t] = IF q = "done" THEN Done ELSE [@ EXCEPT !.pc = q]]

\* It goes on with u in hand.
Carry(t, p, q, u, n) ==
  /\ At(t, p)
  /\ req' = [req EXCEPT ![t] = [@ EXCEPT !.pc = q, !.who = u, !.next = n]]

Begin(t, k, p, a, i, u) ==
  /\ At(t, "idle")
  /\ req' = [req EXCEPT ![t] = [kind |-> k, pc |-> p, actor |-> a, target |-> i, want |-> u,
                                who |-> NoUser, next |-> "done"]]
  /\ UNCHANGED <<tables, cache, history>>

Administrators == {i \in Present : users[i].role = "admin"}

\* A remove has deleted rows and not committed: who would write them waits.
Removing(x) == At(x, "uncache1") \/ At(x, "uncache2") \/ At(x, "commit")
Locked(i) == \E x \in Request : Removing(x) /\ req[x].kind = "remove" /\ req[x].target = i
LockedAddress(e) ==
  \E x \in Request :
    /\ Removing(x) /\ req[x].kind = "remove"
    /\ \E u \in {users[req[x].target], req[x].who} \ {NoUser} : u.email = e

Taken(e, i) == \E j \in Present \ {i} : users[j].email = e

\* An edit of i has written the row and not finished.
Editing(x, i) == /\ At(x, "key") \/ At(x, "uncache1") \/ At(x, "uncache2")
                 /\ req[x].kind = "edit" /\ req[x].target = i

\* History: the request works with a user that is not, or will not be, the row.
Outdated(t, i) ==
  IF req[t].who # users[i] \/ \E x \in Request \ {t} : Editing(x, i) THEN {i} ELSE {}

-----------------------------------------------------------------------------
(* What requests ask for                                                   *)

Asked(t, e) == [id |-> t, email |-> e, role |-> "user"]

Register(t, e) == Begin(t, "register", "byKey", t, t, Asked(t, e))

\* A session is the address it was opened with.
SaveProfile(t, e) == Begin(t, "profile", "byKey", t, t, Asked(t, e))

Create(t, a, e, r) ==
  Begin(t, "create", "insert", a, t, [Asked(t, e) EXCEPT !.role = r])

Edit(t, a, u) == Begin(t, "edit", "byId", a, u.id, u)

Remove(t, a, i) == Begin(t, "remove", "find", a, i, NoUser)

-----------------------------------------------------------------------------
(* UserSearchService: the cache, then the row, which is cached             *)

AfterLookup(t) == CASE req[t].kind = "profile"  -> "write"
                    [] req[t].kind = "register" -> "done"
                    [] req[t].kind = "edit"     -> "guard"

\* What it found settles a registration: the address is in use.
Found(t, p, u) ==
  IF AfterLookup(t) = "done" THEN Goto(t, p, "done") ELSE Carry(t, p, AfterLookup(t), u, "done")

LookByKey(t) ==
  /\ At(t, "byKey")
  /\ LET u == byKey[req[t].want.email] IN
     IF u # NoUser THEN Found(t, "byKey", u) ELSE Goto(t, "byKey", "queryKey")
  /\ UNCHANGED <<tables, cache, history>>

LookById(t) ==
  /\ At(t, "byId")
  /\ LET u == byId[req[t].target] IN
     IF u # NoUser THEN Found(t, "byId", u) ELSE Goto(t, "byId", "queryId")
  /\ UNCHANGED <<tables, cache, history>>

\* Nobody has the address: a registration goes on, a session is worth nothing.
QueryKey(t) ==
  /\ At(t, "queryKey")
  /\ LET holders == {i \in Present : users[i].email = req[t].want.email} IN
     \/ \E i \in holders : Carry(t, "queryKey", "put1", users[i], AfterLookup(t))
     \/ /\ holders = {}
        /\ Goto(t, "queryKey", IF req[t].kind = "register" THEN "count" ELSE "done")
  /\ UNCHANGED <<tables, cache, history>>

QueryId(t) ==
  /\ At(t, "queryId")
  /\ LET i == req[t].target IN
     \/ i \in Present /\ Carry(t, "queryId", "put1", users[i], AfterLookup(t))
     \/ i \notin Present /\ Goto(t, "queryId", "done")
  /\ UNCHANGED <<tables, cache, history>>

\* History: a user is cached who is not the row, or who is being removed.
Late(u) == IF u # users[u.id] \/ Locked(u.id) THEN {u.id} ELSE {}

\* cacheUser
CacheById(t) ==
  /\ Goto(t, "put1", "put2")
  /\ LET u == req[t].who IN byId' = [byId EXCEPT ![u.id] = u] /\ raced' = raced \cup Late(u)
  /\ UNCHANGED <<tables, byKey, since, orphaned, halved>>

\* Mutant: it is cached under the address that was asked for.
CacheByAsked(t) ==
  /\ At(t, "put2") /\ Goto(t, "put2", req[t].next)
  /\ LET u == req[t].who IN
       byKey' = [byKey EXCEPT ![req[t].want.email] = u] /\ raced' = raced \cup Late(u)
  /\ UNCHANGED <<tables, byId, since, orphaned, halved>>

CacheByKey(t) ==
  /\ At(t, "put2") /\ Goto(t, "put2", req[t].next)
  /\ LET u == req[t].who IN byKey' = [byKey EXCEPT ![u.email] = u] /\ raced' = raced \cup Late(u)
  /\ UNCHANGED <<tables, byId, since, orphaned, halved>>

\* Time to live, or room in the cache.
Expire ==
  /\ \/ \E i \in Id : byId[i] # NoUser /\ byId' = [byId EXCEPT ![i] = NoUser] /\ UNCHANGED byKey
     \/ \E e \in Email : byKey[e] # NoUser /\ byKey' = [byKey EXCEPT ![e] = NoUser] /\ UNCHANGED byId
  /\ UNCHANGED <<tables, req, history>>

-----------------------------------------------------------------------------
(* Registration, create and profile save                                   *)

NewUser(t, role) ==
  /\ At(t, "count")
  /\ req' = [req EXCEPT ![t] = [@ EXCEPT !.pc = "insert", !.want.role = role]]
  /\ since' = [since EXCEPT ![t] = {}]
  /\ UNCHANGED <<tables, cache, raced, orphaned, halved>>

\* Mutant: the administrators are counted, as CountAdmins would.
CountAdministrators(t) == NewUser(t, IF Administrators = {} THEN "admin" ELSE "user")

\* The first user is the administrator.
Count(t) == NewUser(t, IF Present = {} THEN "admin" ELSE "user")

\* The unique index on the address refuses a second row: an exception.
Insert(t) ==
  /\ At(t, "insert") /\ ~LockedAddress(req[t].want.email)
  /\ LET u == req[t].want IN
     \/ /\ ~Taken(u.email, t) /\ Carry(t, "insert", "put1", u, "password")
        /\ users' = [users EXCEPT ![t] = u]
        /\ since' = [x \in Request |-> IF At(x, "insert") THEN since[x] \cup {t} ELSE {}]
     \/ Taken(u.email, t) /\ Goto(t, "insert", "done") /\ UNCHANGED <<users, since>>
  /\ UNCHANGED <<passwords, cache, raced, orphaned, halved>>

\* authInfoRepository.add, after the user is stored and cached; the primary key
\* refuses an address that has a password already.
AddPassword(t) ==
  /\ At(t, "password") /\ ~LockedAddress(req[t].who.email) /\ Goto(t, "password", "done")
  /\ LET u == req[t].who IN
       /\ passwords' = passwords \cup {u.email}
       /\ halved' = IF u.email \in passwords THEN halved \cup {t} ELSE halved
       /\ raced' = IF u # users[t] THEN raced \cup {t} ELSE raced
  /\ UNCHANGED <<users, cache, since, orphaned>>

\* save(newUser, update = true): every column of the row is set from the user the
\* request was authenticated as, the address and the role too. No row, no change.
Write(t) ==
  /\ At(t, "write") /\ ~Locked(req[t].who.id) /\ ~LockedAddress(req[t].who.email)
  /\ LET u == req[t].who IN
     \/ /\ u.id \in Present /\ ~Taken(u.email, u.id) /\ Carry(t, "write", "put1", u, "done")
        /\ users' = [users EXCEPT ![u.id] = u]
        /\ raced' = raced \cup Outdated(t, u.id)
     \/ u.id \notin Present /\ Carry(t, "write", "put1", u, "done") /\ UNCHANGED <<users, raced>>
     \/ /\ u.id \in Present /\ Taken(u.email, u.id) /\ Goto(t, "write", "done")
        /\ UNCHANGED <<users, raced>>
  /\ UNCHANGED <<passwords, cache, since, orphaned, halved>>

-----------------------------------------------------------------------------
(* An administrator's edit                                                 *)

\* An administrator does not take the role from himself.
Guard(t) ==
  /\ At(t, "guard")
  /\ LET own == req[t].actor = req[t].target
         loses == req[t].who.role = "admin" /\ req[t].want.role # "admin" IN
     Goto(t, "guard", IF own /\ loses THEN "done" ELSE "fields")
  /\ UNCHANGED <<tables, cache, history>>

\* UpdateFields; it fails on an address somebody else has, and is no change when
\* the row is gone. UpdateEmail follows if the address is another.
UpdateFields(t) ==
  /\ At(t, "fields") /\ ~Locked(req[t].target) /\ ~LockedAddress(req[t].want.email)
  /\ LET u == req[t].want
         then == IF u.email # req[t].who.email THEN "key" ELSE "uncache1" IN
     \/ /\ u.id \in Present /\ ~Taken(u.email, u.id) /\ Goto(t, "fields", then)
        /\ users' = [users EXCEPT ![u.id] = u]
        /\ raced' = raced \cup Outdated(t, u.id)
     \/ u.id \notin Present /\ Goto(t, "fields", then) /\ UNCHANGED <<users, raced>>
     \/ /\ u.id \in Present /\ Taken(u.email, u.id) /\ Goto(t, "fields", "done")
        /\ UNCHANGED <<users, raced>>
  /\ UNCHANGED <<passwords, cache, since, orphaned, halved>>

\* History: others who have, or had until an edit that has yet to move it, the
\* address whose password this request moves or deletes.
Victims(t) ==
  LET e == req[t].who.email IN
    {j \in Present \ {req[t].target} :
       \/ users[j].email = e
       \/ \E x \in Request \ {t} : Editing(x, j) /\ At(x, "key") /\ req[x].who.email = e}

\* Mutant: the password stays with the address it was set for.
KeepKey(t) == Goto(t, "key", "uncache1") /\ UNCHANGED <<tables, cache, history>>

\* UpdateEmail moves the password to the new address; the primary key refuses an
\* address that has one, and the request fails, with the row changed and the
\* cache not cleaned.
UpdateKey(t) ==
  /\ At(t, "key")
  /\ LET old == req[t].who.email new == req[t].want.email IN
     /\ ~LockedAddress(old) /\ ~LockedAddress(new)
     /\ \/ /\ old \in passwords /\ new \in passwords /\ Goto(t, "key", "done")
           /\ halved' = halved \cup {req[t].target} /\ UNCHANGED <<passwords, raced>>
        \/ /\ ~(old \in passwords /\ new \in passwords) /\ Goto(t, "key", "uncache1")
           /\ passwords' = IF old \in passwords THEN (passwords \ {old}) \cup {new} ELSE passwords
           /\ raced' = raced \cup Victims(t) /\ UNCHANGED halved
  /\ UNCHANGED <<users, cache, since, orphaned>>

\* Mutant: the clean-up forgets the address.
UncacheNoKey(t) == Goto(t, "uncache1", "uncache2") /\ UNCHANGED <<tables, cache, history>>

\* removeUser: the address is taken from the entry of the id, if there is one.
UncacheByKey(t) ==
  /\ Goto(t, "uncache1", "uncache2")
  /\ LET i == req[t].target IN
       /\ byKey' = IF byId[i] # NoUser THEN [byKey EXCEPT ![byId[i].email] = NoUser] ELSE byKey
       /\ orphaned' = IF \E e \in Email : byKey'[e] # NoUser /\ byKey'[e].id = i
                      THEN orphaned \cup {i} ELSE orphaned
  /\ UNCHANGED <<tables, byId, since, raced, halved>>

UncacheById(t) ==
  /\ At(t, "uncache2")
  /\ Goto(t, "uncache2", IF req[t].kind = "remove" THEN "commit" ELSE "done")
  /\ byId' = [byId EXCEPT ![req[t].target] = NoUser]
  /\ UNCHANGED <<tables, byKey, history>>

-----------------------------------------------------------------------------
(* An administrator's remove: one transaction, the cache cleaned inside it *)

Find(t) ==
  /\ At(t, "find") /\ Carry(t, "find", "delete", users[req[t].target], "done")
  /\ UNCHANGED <<tables, cache, history>>

Delete(t) ==
  /\ At(t, "delete") /\ ~Locked(req[t].target) /\ Goto(t, "delete", "uncache1")
  /\ UNCHANGED <<tables, cache, history>>

Commit(t) ==
  /\ Goto(t, "commit", "done")
  /\ users' = [users EXCEPT ![req[t].target] = NoUser]
  /\ \/ req[t].who = NoUser /\ UNCHANGED <<passwords, raced>>
     \/ /\ req[t].who # NoUser
        /\ passwords' = passwords \ {req[t].who.email} /\ raced' = raced \cup Victims(t)
  /\ UNCHANGED <<cache, since, orphaned, halved>>

-----------------------------------------------------------------------------
Asking(t) ==
  \/ \E e \in Email : Register(t, e) \/ SaveProfile(t, e)
  \/ \E a \in Administrators, e \in Email, r \in Role :
       Create(t, a, e, r) \/ \E i \in Id : Edit(t, a, [id |-> i, email |-> e, role |-> r])
  \/ \E a \in Administrators, i \in Id : Remove(t, a, i)

Reading(t)  == LookByKey(t) \/ LookById(t) \/ QueryKey(t) \/ QueryId(t) \/ Count(t) \/ Find(t)
Caching(t)  == CacheById(t) \/ CacheByKey(t) \/ UncacheByKey(t) \/ UncacheById(t)
Changing(t) == \/ Insert(t) \/ AddPassword(t) \/ Write(t) \/ Guard(t) \/ UpdateFields(t)
               \/ UpdateKey(t) \/ Delete(t) \/ Commit(t)

Next ==
  \/ \E t \in Request : Asking(t) \/ Reading(t) \/ Caching(t) \/ Changing(t)
  \/ Expire

Spec == Init /\ [][Next]_vars

-----------------------------------------------------------------------------
(* Properties                                                              *)

Cached == ({byId[i] : i \in Id} \cup {byKey[e] : e \in Email}) \ {NoUser}

\* A user in the cache, which is whom requests are authenticated as for hours, is
\* the row, or an edit of it is under way, or one of three accidents has happened: a
\* request cached or wrote what it had read before a change (or while a remove was
\* not committed), a clean-up left an address behind, or an edit failed half way.
CacheIsCurrent ==
  \A u \in Cached : users[u.id] # u =>
    \/ u.id \in raced \cup orphaned \cup halved
    \/ \E x \in Request : Editing(x, u.id)

\* A user can sign in: the address in the row has a password, unless the account is
\* being created or its address being changed, or an overtaken or failed request
\* separated the two (no transaction holds the statements of a request together).
PasswordFollowsEmail ==
  \A i \in Present :
    \/ users[i].email \in passwords
    \/ i \in raced \cup halved
    \/ \E x \in Request : Editing(x, i) /\ At(x, "key")
    \/ i \in Request /\ (At(i, "put1") \/ At(i, "put2") \/ At(i, "password"))

\* A registration makes an administrator only of the first user: those who are
\* there when it is stored have all come since it counted none.
OnlyRacesMakeAdministrators ==
  \A t \in Request : At(t, "insert") /\ req[t].kind = "register" /\ req[t].want.role = "admin" =>
    Present \subseteq since[t]
=============================================================================
