------------------------- MODULE UserAccountsProofs -------------------------
(***************************************************************************)
(* Proofs about UserAccounts, for any numbers of requests and addresses.   *)
(* A request has in hand what its kind and its place say (Suits); a user   *)
(* who is stored, cached or in hand is past the insert that made it and    *)
(* is never inserted again (Known); the rest says what each place of an    *)
(* edit and of a remove has left in the cache and in the table of          *)
(* passwords.                                                              *)
(***************************************************************************)
EXTENDS UserAccounts, TLAPS

Busy(t)    == ~At(t, "idle") /\ ~At(t, "done")
Caches(t)  == At(t, "put1") \/ At(t, "put2")
Creates(t) == (Caches(t) /\ req[t].next = "password") \/ At(t, "password")
Moving(x, i) == Editing(x, i) /\ At(x, "key")
Removes(x, i) == Removing(x) /\ req[x].kind = "remove" /\ req[x].target = i

\* What a request has in hand where it is.
Suits(t) ==
  Busy(t) =>
    /\ req[t].kind = "register" =>
         /\ req[t].pc \in {"byKey", "queryKey", "put1", "put2", "count", "insert", "password"}
         /\ Caches(t) => req[t].next \in {"done", "password"}
    /\ req[t].kind = "profile" =>
         /\ req[t].pc \in {"byKey", "queryKey", "put1", "put2", "write"}
         /\ Caches(t) => req[t].next \in {"write", "done"}
    /\ req[t].kind = "create" =>
         /\ req[t].pc \in {"insert", "put1", "put2", "password"}
         /\ Caches(t) => req[t].next = "password"
    /\ req[t].kind = "edit" =>
         /\ req[t].pc \in {"byId", "queryId", "put1", "put2", "guard", "fields", "key",
                           "uncache1", "uncache2"}
         /\ Caches(t) => req[t].next = "guard"
         /\ req[t].want.id = req[t].target
    /\ req[t].kind = "remove" =>
         req[t].pc \in {"find", "delete", "uncache1", "uncache2", "commit"}
    /\ req[t].pc \in {"put1", "put2", "password", "write", "guard", "fields", "key"} =>
         req[t].who # NoUser
    /\ req[t].kind # "remove" => req[t].want # NoUser
    /\ req[t].kind \in {"register", "create"} => req[t].want.id = t
    /\ Creates(t) => req[t].who.id = t
    /\ req[t].kind \in {"edit", "remove"} /\ req[t].who # NoUser => req[t].who.id = req[t].target

TypeInv == TypeOK /\ \A t \in Request : Suits(t)

\* A user is made by one insert, which is behind it for good.
Past(i) == i \in Request => At(i, "done") \/ Creates(i)
Known ==
  /\ \A i \in Present : Past(i)
  /\ \A i \in Id : byId[i] # NoUser => Past(i)
  /\ \A e \in Email : byKey[e] # NoUser => Past(byKey[e].id)
  /\ \A t \in Request : Busy(t) /\ req[t].who # NoUser => Past(req[t].who.id)

\* The entries of the cache under an address, and under the id, while an edit or a
\* remove cleans it: Excused are those who had one of the three accidents.
Excused == raced \cup orphaned \cup halved
Right(u) == users[u.id] = u \/ u.id \in Excused \/ \E x \in Request : Editing(x, u.id)
CachedRight ==
  /\ \A i \in Id : byId[i] # NoUser => Right(byId[i])
  /\ \A e \in Email : byKey[e] # NoUser => Right(byKey[e])
EditCleans ==
  \A x \in Request, i \in Id \ Excused : Editing(x, i) /\ At(x, "uncache2") =>
    \A e \in Email : byKey[e] # NoUser /\ byKey[e].id = i => byKey[e] = users[i]
RemoveCleans ==
  \A x \in Request, i \in Id \ Excused : Removes(x, i) =>
    /\ ~At(x, "uncache1") => \A e \in Email : byKey[e] # NoUser => byKey[e].id # i
    /\ At(x, "commit") => byId[i] = NoUser
CacheInv == CachedRight /\ EditCleans /\ RemoveCleans

\* While an edit has a password to move, it is under the old or the new address, and
\* nobody else edits the user.
Hit == raced \cup halved
HasPassword(i) ==
  \/ users[i].email \in passwords
  \/ i \in Request /\ Creates(i)
  \/ \E x \in Request : Moving(x, i)
MovesAlone(x, i) ==
  /\ users[i] = req[x].want
  /\ \/ req[x].who.email \in passwords
     \/ users[i].email \in passwords
     \/ i \in Request /\ Creates(i)
  /\ \A y \in Request : Editing(y, i) => y = x
PasswordInv ==
  \A i \in Present \ Hit :
    HasPassword(i) /\ \A x \in Request : Moving(x, i) => MovesAlone(x, i)

----------------------------------------------------------------------------
(* Steps of a request                                                      *)

Place == {"byKey", "queryKey", "byId", "queryId", "guard", "count", "insert", "write",
          "put1", "put2", "password", "fields", "key", "find", "delete", "uncache1",
          "uncache2", "commit"}
Requests == [Request -> Serving \cup {Idle, Done}]

LEMMA Fields ==
  ASSUME NEW r \in Serving
  PROVE  /\ r.kind \in {"register", "profile", "create", "edit", "remove"}
         /\ r.pc \in Place /\ r.actor \in Id /\ r.target \in Id
         /\ r.want \in Maybe /\ r.who \in Maybe
         /\ r.next \in {"done", "write", "guard", "password"}
BY DEF Serving, Place

LEMMA Serves ==
  ASSUME req \in Requests, NEW t \in Request, Busy(t)
  PROVE  req[t] \in Serving
BY DEF Requests, Busy, At, Idle, Done

\* A step that goes to q changes where the request is and nothing it has in hand.
LEMMA GotoStep ==
  ASSUME req \in Requests, NEW t \in Request, NEW p \in Place, NEW q \in Place \cup {"done"},
         Goto(t, p, q)
  PROVE  /\ req' \in Requests /\ req[t] \in Serving /\ req[t].pc = p
         /\ \A x \in Request \ {t} : req'[x] = req[x]
         /\ q = "done" => req'[t] = Done /\ req'[t].pc = "done"
         /\ q # "done" =>
              /\ req'[t] \in Serving
              /\ req'[t].pc = q /\ req'[t].kind = req[t].kind /\ req'[t].target = req[t].target
              /\ req'[t].actor = req[t].actor /\ req'[t].want = req[t].want
              /\ req'[t].who = req[t].who /\ req'[t].next = req[t].next
<1>1. req[t] \in Serving /\ req[t].pc = p
  BY Serves DEF Goto, At, Busy, Place
<1>2. req' = [req EXCEPT ![t] = IF q = "done" THEN Done ELSE [req[t] EXCEPT !.pc = q]]
  BY DEF Goto
<1>3. /\ [req[t] EXCEPT !.pc = q].pc = q
      /\ [req[t] EXCEPT !.pc = q].kind = req[t].kind
      /\ [req[t] EXCEPT !.pc = q].target = req[t].target
      /\ [req[t] EXCEPT !.pc = q].actor = req[t].actor
      /\ [req[t] EXCEPT !.pc = q].want = req[t].want
      /\ [req[t] EXCEPT !.pc = q].who = req[t].who
      /\ [req[t] EXCEPT !.pc = q].next = req[t].next
      /\ q # "done" => [req[t] EXCEPT !.pc = q] \in Serving
  BY <1>1 DEF Serving, Place
<1>4. Done.pc = "done"
  BY DEF Done
<1>5. /\ \A x \in Request \ {t} : req'[x] = req[x]
      /\ req'[t] = IF q = "done" THEN Done ELSE [req[t] EXCEPT !.pc = q]
      /\ DOMAIN req' = Request
  BY <1>2 DEF Requests
<1>6. req' \in Requests
  BY <1>2, <1>3 DEF Requests
<1> QED BY <1>1, <1>3, <1>4, <1>5, <1>6

\* A step that carries a user on to q keeps the rest of what it has in hand.
LEMMA CarryStep ==
  ASSUME req \in Requests, NEW t \in Request, NEW p \in Place, NEW q \in Place, NEW u \in Maybe,
         NEW n \in {"done", "write", "guard", "password"}, Carry(t, p, q, u, n)
  PROVE  /\ req' \in Requests /\ req[t] \in Serving /\ req[t].pc = p
         /\ \A x \in Request \ {t} : req'[x] = req[x]
         /\ req'[t] \in Serving
         /\ req'[t].pc = q /\ req'[t].kind = req[t].kind /\ req'[t].target = req[t].target
         /\ req'[t].actor = req[t].actor /\ req'[t].want = req[t].want
         /\ req'[t].who = u /\ req'[t].next = n
<1> DEFINE r == [req[t] EXCEPT !.pc = q, !.who = u, !.next = n]
<1>1. req[t] \in Serving /\ req[t].pc = p
  BY Serves DEF Carry, At, Busy, Place
<1>2. req' = [req EXCEPT ![t] = r]
  BY DEF Carry
<1>3. /\ r.pc = q /\ r.kind = req[t].kind /\ r.target = req[t].target /\ r.actor = req[t].actor
      /\ r.want = req[t].want /\ r.who = u /\ r.next = n /\ r \in Serving
  BY <1>1 DEF Serving, Place
<1> HIDE DEF r
<1>4. /\ \A x \in Request \ {t} : req'[x] = req[x]
      /\ req'[t] = r
      /\ req' \in Requests
  BY <1>2, <1>3 DEF Requests
<1> QED BY <1>1, <1>3, <1>4

\* The role of the user a registration asks for is settled when the users are counted.
LEMMA CountStep ==
  ASSUME req \in Requests, NEW t \in Request, Count(t), req[t].want \in User
  PROVE  /\ req' \in Requests /\ req[t] \in Serving /\ req[t].pc = "count"
         /\ \A x \in Request \ {t} : req'[x] = req[x]
         /\ req'[t].pc = "insert" /\ req'[t].kind = req[t].kind /\ req'[t].target = req[t].target
         /\ req'[t].want \in User /\ req'[t].want.id = req[t].want.id
         /\ req'[t].who = req[t].who /\ req'[t].next = req[t].next
         /\ req'[t].want.role = "admin" => Present = {}
<1>1. PICK role \in Role :
        /\ req' = [req EXCEPT ![t] = [req[t] EXCEPT !.pc = "insert", !.want.role = role]]
        /\ role = "admin" => Present = {}
  <2> DEFINE role == IF Present = {} THEN "admin" ELSE "user"
  <2>1. role \in Role /\ (role = "admin" => Present = {}) /\ NewUser(t, role)
    BY DEF Count, Role
  <2> HIDE DEF role
  <2>2. req' = [req EXCEPT ![t] = [req[t] EXCEPT !.pc = "insert", !.want.role = role]]
    BY <2>1 DEF NewUser
  <2> QED BY <2>1, <2>2
<1> DEFINE u == [req[t].want EXCEPT !.role = role]
<1>2. u \in User /\ u.id = req[t].want.id /\ u.role = role
  BY DEF User
<1>3. req' = [req EXCEPT ![t] = [req[t] EXCEPT !.pc = "insert", !.want = u]]
  BY <1>1
<1> HIDE DEF u
<1>4. req[t] \in Serving /\ req[t].pc = "count"
  BY Serves DEF Count, NewUser, At, Busy
<1> DEFINE r == [req[t] EXCEPT !.pc = "insert", !.want = u]
<1>5. /\ r.pc = "insert" /\ r.kind = req[t].kind /\ r.target = req[t].target
      /\ r.want = u /\ r.who = req[t].who /\ r.next = req[t].next /\ r \in Serving
  BY <1>2, <1>4 DEF Serving, Place, Maybe
<1>6. req' = [req EXCEPT ![t] = r]
  BY <1>3
<1> HIDE DEF r
<1>7. req'[t] = r /\ (\A x \in Request \ {t} : req'[x] = req[x]) /\ req' \in Requests
  BY <1>5, <1>6 DEF Requests
<1> QED BY <1>1, <1>2, <1>4, <1>5, <1>7

LEMMA BeginStep ==
  ASSUME req \in Requests, NEW t \in Request,
         NEW k \in {"register", "profile", "create", "edit", "remove"}, NEW p \in Place,
         NEW a \in Id, NEW i \in Id, NEW u \in Maybe, Begin(t, k, p, a, i, u)
  PROVE  /\ req' \in Requests /\ At(t, "idle")
         /\ \A x \in Request \ {t} : req'[x] = req[x]
         /\ req'[t] \in Serving
         /\ req'[t].pc = p /\ req'[t].kind = k /\ req'[t].target = i /\ req'[t].actor = a
         /\ req'[t].want = u /\ req'[t].who = NoUser /\ req'[t].next = "done"
<1> DEFINE r == [kind |-> k, pc |-> p, actor |-> a, target |-> i, want |-> u,
                 who |-> NoUser, next |-> "done"]
<1>1. r \in Serving /\ r.pc = p /\ r.kind = k /\ r.target = i /\ r.actor = a /\ r.want = u
      /\ r.who = NoUser /\ r.next = "done"
  BY DEF Serving, Place, Maybe
<1>2. req' = [req EXCEPT ![t] = r] /\ At(t, "idle")
  BY DEF Begin
<1> HIDE DEF r
<1> QED BY <1>1, <1>2 DEF Requests

----------------------------------------------------------------------------
(* Types                                                                   *)

LEMMA UserFields ==
  ASSUME NEW u \in User
  PROVE  u.id \in Id /\ u.email \in Email /\ u.role \in Role /\ u # NoUser
BY AccountAssumption DEF AccountAssumption, User

LEMMA AskedFields ==
  ASSUME NEW t \in Request, NEW e \in Email, NEW r \in Role
  PROVE  /\ Asked(t, e) \in User /\ Asked(t, e).id = t
         /\ [Asked(t, e) EXCEPT !.role = r] \in User /\ [Asked(t, e) EXCEPT !.role = r].id = t
BY DEF Asked, User, Id, Role

\* What a request has in hand depends on that request alone.
LEMMA SuitsOthers ==
  ASSUME TypeInv, NEW t \in Request, \A x \in Request \ {t} : req'[x] = req[x], Suits(t)'
  PROVE  \A x \in Request : Suits(x)'
<1>1. \A x \in Request \ {t} : Suits(x)'
  BY DEF TypeInv, Suits, Busy, At, Caches, Creates
<1> QED BY <1>1

LEMMA TypeFrame ==
  ASSUME TypeInv, NEW t \in Request, \A x \in Request \ {t} : req'[x] = req[x],
         req' \in Requests, Suits(t)', UNCHANGED <<tables, cache>>, since' \in [Request -> SUBSET Id],
         raced' \subseteq Id, orphaned' \subseteq Id, halved' \subseteq Id
  PROVE  TypeInv'
<1>1. TypeOK'
  BY DEF TypeInv, TypeOK, tables, cache, Requests, Present
<1> QED BY <1>1, SuitsOthers DEF TypeInv

LEMMA TypeInit == Init => TypeInv
<1> SUFFICES ASSUME Init PROVE TypeInv
  OBVIOUS
<1>1. PICK e \in Email, first \in BOOLEAN :
        /\ users = [i \in Id |-> IF i = Founder /\ ~first
                                 THEN [id |-> i, email |-> e, role |-> "admin"] ELSE NoUser]
        /\ passwords = IF first THEN {} ELSE {e}
  BY DEF Init
<1>2. [id |-> Founder, email |-> e, role |-> "admin"] \in User /\ Founder \in Id
  BY DEF User, Id, Role
<1>3. [id |-> Founder, email |-> e, role |-> "admin"].id = Founder
  OBVIOUS
<1>4. users \in [Id -> Maybe] /\ passwords \subseteq Email
  BY <1>1, <1>2 DEF Maybe
<1>5. \A i \in Present : i = Founder /\ users[i].id = i
  BY <1>1, <1>3 DEF Present
<1>6. \A t \in Request : req[t] = Idle /\ Idle.pc = "idle"
  BY DEF Init, Idle
<1>7. TypeOK
  BY <1>4, <1>5, <1>6 DEF Init, TypeOK, Maybe
<1>8. \A t \in Request : Suits(t)
  BY <1>6 DEF Suits, Busy, At
<1> QED BY <1>7, <1>8 DEF TypeInv

\* Going on, with what it has in hand; the place it goes to must suit it.
LEMMA GotoSuits ==
  ASSUME TypeInv, NEW t \in Request, NEW p \in Place, NEW q \in Place \cup {"done"}, Goto(t, p, q),
         q # "done" => Suits(t)', UNCHANGED <<tables, cache, history>>
  PROVE  TypeInv'
<1>1. req \in Requests
  BY DEF TypeInv, TypeOK, Requests
<1>2. Suits(t)'
  BY <1>1, GotoStep DEF Suits, Busy, At
<1> QED BY <1>1, <1>2, GotoStep, TypeFrame DEF TypeInv, TypeOK, history

LEMMA AskingTypes ==
  ASSUME TypeInv, NEW t \in Request, Asking(t)
  PROVE  TypeInv'
<1> USE DEF Suits, Busy, At, Caches, Creates, Place
<1>0. req \in Requests /\ t \in Id /\ Administrators \subseteq Id /\ User \subseteq Maybe /\ NoUser \in Maybe
  BY DEF TypeInv, TypeOK, Requests, Id, Administrators, Present, Maybe
<1>h. UNCHANGED <<tables, cache, history>> => since' \in [Request -> SUBSET Id] /\ raced' \subseteq Id
                                              /\ orphaned' \subseteq Id /\ halved' \subseteq Id
  BY DEF TypeInv, TypeOK, history
<1>1. ASSUME NEW e \in Email, Register(t, e)  PROVE TypeInv'
  <2>1. Asked(t, e) \in User /\ Asked(t, e) # NoUser /\ Asked(t, e).id = t
    BY AskedFields, UserFields DEF Role
  <2>2. Suits(t)' /\ req' \in Requests /\ \A x \in Request \ {t} : req'[x] = req[x]
    BY <1>1, <1>0, <2>1, BeginStep DEF Register
  <2> QED BY <1>1, <1>h, <2>2, TypeFrame DEF Register, Begin
<1>2. ASSUME NEW e \in Email, SaveProfile(t, e)  PROVE TypeInv'
  <2>1. Asked(t, e) \in User /\ Asked(t, e) # NoUser /\ Asked(t, e).id = t
    BY AskedFields, UserFields DEF Role
  <2>2. Suits(t)' /\ req' \in Requests /\ \A x \in Request \ {t} : req'[x] = req[x]
    BY <1>2, <1>0, <2>1, BeginStep DEF SaveProfile
  <2> QED BY <1>2, <1>h, <2>2, TypeFrame DEF SaveProfile, Begin
<1>3. ASSUME NEW a \in Administrators, NEW e \in Email, NEW r \in Role, Create(t, a, e, r)  PROVE TypeInv'
  <2> DEFINE u == [Asked(t, e) EXCEPT !.role = r]
  <2>1. u \in User /\ u # NoUser /\ u.id = t
    BY AskedFields, UserFields
  <2>2. Begin(t, "create", "insert", a, t, u)
    BY <1>3 DEF Create
  <2> HIDE DEF u
  <2>3. Suits(t)' /\ req' \in Requests /\ \A x \in Request \ {t} : req'[x] = req[x]
    BY <1>0, <2>1, <2>2, BeginStep
  <2> QED BY <1>h, <2>2, <2>3, TypeFrame DEF Begin
<1>4. ASSUME NEW a \in Administrators, NEW i \in Id, NEW e \in Email, NEW r \in Role,
             Edit(t, a, [id |-> i, email |-> e, role |-> r])
      PROVE  TypeInv'
  <2> DEFINE u == [id |-> i, email |-> e, role |-> r]
  <2>1. u \in User /\ u.id = i
    BY DEF User
  <2>2. Begin(t, "edit", "byId", a, i, u) /\ u # NoUser
    BY <1>4, <2>1, UserFields DEF Edit
  <2> HIDE DEF u
  <2>3. Suits(t)' /\ req' \in Requests /\ \A x \in Request \ {t} : req'[x] = req[x]
    BY <1>0, <2>1, <2>2, BeginStep
  <2> QED BY <1>h, <2>2, <2>3, TypeFrame DEF Begin
<1>5. ASSUME NEW a \in Administrators, NEW i \in Id, Remove(t, a, i)  PROVE TypeInv'
  <2>1. Suits(t)' /\ req' \in Requests /\ \A x \in Request \ {t} : req'[x] = req[x]
    BY <1>5, <1>0, BeginStep DEF Remove
  <2> QED BY <1>5, <1>h, <2>1, TypeFrame DEF Remove, Begin
<1> QED BY <1>1, <1>2, <1>3, <1>4, <1>5 DEF Asking

\* What a look-up has found is a user, and settles a registration.
LEMMA FoundTypes ==
  ASSUME TypeInv, NEW t \in Request, NEW p \in {"byKey", "byId"}, NEW u \in User, Found(t, p, u),
         req[t].kind = "edit" => u.id = req[t].target, UNCHANGED <<tables, cache, history>>
  PROVE  TypeInv'
<1> USE DEF Suits, Busy, At, Caches, Creates, Place
<1>1. req \in Requests /\ u # NoUser /\ u \in Maybe
  BY UserFields DEF TypeInv, TypeOK, Requests, Maybe
<1>2. req[t] \in Serving /\ req[t].pc = p /\ Suits(t)
  BY <1>1, Serves DEF Found, Goto, Carry, TypeInv
<1>3. CASE AfterLookup(t) = "done"
  BY <1>3, GotoSuits DEF Found
<1>4. CASE AfterLookup(t) # "done"
  <2>1. \/ req[t].kind = "profile" /\ AfterLookup(t) = "write"
        \/ req[t].kind = "edit" /\ AfterLookup(t) = "guard"
    BY <1>2, <1>4, Fields DEF AfterLookup
  <2>2. Carry(t, p, AfterLookup(t), u, "done")
    BY <1>4 DEF Found
  <2>3. PICK q \in {"write", "guard"} :
          /\ Carry(t, p, q, u, "done")
          /\ q = "write" => req[t].kind = "profile"
          /\ q = "guard" => req[t].kind = "edit"
    BY <2>1, <2>2
  <2>4. /\ req' \in Requests /\ \A x \in Request \ {t} : req'[x] = req[x]
        /\ req'[t].pc = q /\ req'[t].kind = req[t].kind /\ req'[t].target = req[t].target
        /\ req'[t].want = req[t].want /\ req'[t].who = u
    <3>1. p \in Place /\ q \in Place /\ "done" \in {"done", "write", "guard", "password"}
      OBVIOUS
    <3> HIDE DEF Place
    <3> QED BY <1>1, <2>3, <3>1, CarryStep
  <2>5. Suits(t)'
    BY <1>1, <1>2, <2>3, <2>4
  <2> QED BY <2>4, <2>5, TypeFrame DEF TypeInv, TypeOK, history
<1> QED BY <1>3, <1>4

LEMMA ReadingTypes ==
  ASSUME TypeInv, NEW t \in Request, Reading(t)
  PROVE  TypeInv'
<1> USE DEF Suits, Busy, At, Caches, Creates
<1>0. req \in Requests /\ Suits(t)
  BY DEF TypeInv, TypeOK, Requests
<1>p. {"byKey", "queryKey", "byId", "queryId", "count", "find", "put1", "insert", "delete"} \subseteq Place
  BY DEF Place
<1>w. Busy(t) => req[t] \in Serving /\ (req[t].kind # "remove" => req[t].want \in User)
  BY <1>0, Serves, Fields DEF Maybe
<1>1. CASE LookByKey(t)
  <2> DEFINE u == byKey[req[t].want.email]
  <2>1. req[t].pc = "byKey" /\ UNCHANGED <<tables, cache, history>>
    BY <1>1 DEF LookByKey
  <2>2. req[t].kind \in {"register", "profile"} /\ req[t].want \in User
    BY <1>0, <1>w, <2>1, Fields
  <2>3. u \in Maybe
    BY <2>2, UserFields DEF TypeInv, TypeOK
  <2>4. CASE u # NoUser
    <3>1. u \in User /\ Found(t, "byKey", u)
      BY <1>1, <2>3, <2>4 DEF LookByKey, Maybe
    <3> HIDE DEF u
    <3> QED BY <2>1, <2>2, <3>1, FoundTypes
  <2>5. CASE u = NoUser
    <3>1. Goto(t, "byKey", "queryKey")
      BY <1>1, <2>5 DEF LookByKey
    <3>2. Suits(t)'
      BY <1>0, <1>p, <2>2, <3>1, GotoStep, UserFields
    <3> QED BY <1>p, <2>1, <3>1, <3>2, GotoSuits
  <2> QED BY <2>4, <2>5
<1>2. CASE LookById(t)
  <2> DEFINE u == byId[req[t].target]
  <2>1. req[t].pc = "byId" /\ UNCHANGED <<tables, cache, history>>
    BY <1>2 DEF LookById
  <2>2. req[t].kind = "edit" /\ req[t].target \in Id /\ req[t].want \in User
    BY <1>0, <1>w, <2>1, Fields
  <2>3. u \in Maybe /\ (u # NoUser => u.id = req[t].target)
    BY <2>2 DEF TypeInv, TypeOK
  <2>4. CASE u # NoUser
    <3>1. u \in User /\ Found(t, "byId", u)
      BY <1>2, <2>3, <2>4 DEF LookById, Maybe
    <3> HIDE DEF u
    <3> QED BY <2>1, <2>3, <2>4, <3>1, FoundTypes
  <2>5. CASE u = NoUser
    <3>1. Goto(t, "byId", "queryId")
      BY <1>2, <2>5 DEF LookById
    <3>2. Suits(t)'
      BY <1>0, <1>p, <2>2, <3>1, GotoStep, UserFields
    <3> QED BY <1>p, <2>1, <3>1, <3>2, GotoSuits
  <2> QED BY <2>4, <2>5
<1>3. CASE QueryKey(t)
  <2>1. req[t].pc = "queryKey" /\ UNCHANGED <<tables, cache, history>>
    BY <1>3 DEF QueryKey, Carry, Goto
  <2>2. req[t].kind \in {"register", "profile"} /\ req[t].want \in User
    BY <1>0, <1>w, <2>1, Fields
  <2>3. CASE \E i \in Present : Carry(t, "queryKey", "put1", users[i], AfterLookup(t))
    <3>1. PICK i \in Present : Carry(t, "queryKey", "put1", users[i], AfterLookup(t))
      BY <2>3
    <3>2. PICK n \in {"write", "done"} :
            /\ Carry(t, "queryKey", "put1", users[i], n)
            /\ n = "write" => req[t].kind = "profile"
            /\ n = "done" => req[t].kind = "register"
      BY <2>2, <3>1 DEF AfterLookup
    <3>3. users[i] \in Maybe /\ users[i] # NoUser
      BY DEF Present, TypeInv, TypeOK
    <3>4. /\ req' \in Requests /\ \A x \in Request \ {t} : req'[x] = req[x]
          /\ req'[t].pc = "put1" /\ req'[t].kind = req[t].kind /\ req'[t].target = req[t].target
          /\ req'[t].want = req[t].want /\ req'[t].who = users[i] /\ req'[t].next = n
      BY <1>0, <1>p, <3>2, <3>3, CarryStep
    <3>5. Suits(t)'
      BY <1>0, <2>1, <2>2, <3>2, <3>3, <3>4, UserFields
    <3> QED BY <2>1, <3>4, <3>5, TypeFrame DEF TypeInv, TypeOK, history
  <2>4. CASE \E q \in {"count", "done"} : Goto(t, "queryKey", q) /\ (q = "count" => req[t].kind = "register")
    <3>1. PICK q \in {"count", "done"} : Goto(t, "queryKey", q) /\ (q = "count" => req[t].kind = "register")
      BY <2>4
    <3>2. q # "done" => Suits(t)'
      BY <1>0, <1>p, <2>1, <2>2, <3>1, GotoStep, UserFields
    <3> QED BY <1>p, <2>1, <3>1, <3>2, GotoSuits
  <2> QED BY <1>3, <2>3, <2>4 DEF QueryKey
<1>4. CASE QueryId(t)
  <2>1. req[t].pc = "queryId" /\ UNCHANGED <<tables, cache, history>>
    BY <1>4 DEF QueryId, Carry, Goto
  <2>2. req[t].kind = "edit" /\ req[t].target \in Id /\ req[t].want \in User
    BY <1>0, <1>w, <2>1, Fields
  <2>3. CASE req[t].target \in Present /\ Carry(t, "queryId", "put1", users[req[t].target], AfterLookup(t))
    <3> DEFINE u == users[req[t].target]
    <3>1. Carry(t, "queryId", "put1", u, "guard")
      BY <2>2, <2>3 DEF AfterLookup
    <3>2. u \in Maybe /\ u # NoUser /\ u.id = req[t].target
      BY <2>3 DEF Present, TypeInv, TypeOK
    <3> HIDE DEF u
    <3>3. /\ req' \in Requests /\ \A x \in Request \ {t} : req'[x] = req[x]
          /\ req'[t].pc = "put1" /\ req'[t].kind = req[t].kind /\ req'[t].target = req[t].target
          /\ req'[t].want = req[t].want /\ req'[t].who = u /\ req'[t].next = "guard"
      BY <1>0, <1>p, <3>1, <3>2, CarryStep
    <3>4. Suits(t)'
      BY <1>0, <2>1, <2>2, <3>2, <3>3, UserFields
    <3> QED BY <2>1, <3>3, <3>4, TypeFrame DEF TypeInv, TypeOK, history
  <2>4. CASE Goto(t, "queryId", "done")
    BY <1>p, <2>1, <2>4, GotoSuits
  <2> QED BY <1>4, <2>3, <2>4 DEF QueryId

<1>5. CASE Count(t)
  <2>1. req[t].pc = "count" /\ UNCHANGED <<tables, cache, raced, orphaned, halved>>
        /\ since' = [since EXCEPT ![t] = {}]
    BY <1>5 DEF Count, NewUser
  <2>2. req[t].kind = "register" /\ req[t].want \in User
    BY <1>0, <1>w, <2>1, Fields
  <2>3. Suits(t)' /\ req' \in Requests /\ \A x \in Request \ {t} : req'[x] = req[x]
    BY <1>0, <1>5, <2>1, <2>2, CountStep, UserFields
  <2> QED BY <2>1, <2>3, TypeFrame DEF TypeInv, TypeOK
<1>6. CASE Find(t)
  <2> DEFINE u == users[req[t].target]
  <2>1. req[t].pc = "find" /\ UNCHANGED <<tables, cache, history>> /\ Carry(t, "find", "delete", u, "done")
    BY <1>6 DEF Find
  <2>2. req[t].kind = "remove" /\ req[t].target \in Id
    BY <1>0, <1>w, <2>1, Fields
  <2>3. u \in Maybe /\ (u # NoUser => u.id = req[t].target)
    BY <2>2 DEF TypeInv, TypeOK, Present
  <2> HIDE DEF u
  <2>4. /\ req' \in Requests /\ \A x \in Request \ {t} : req'[x] = req[x]
        /\ req'[t].pc = "delete" /\ req'[t].kind = req[t].kind /\ req'[t].target = req[t].target
        /\ req'[t].who = u
    BY <1>0, <1>p, <2>1, <2>3, CarryStep
  <2>5. Suits(t)'
    BY <1>0, <2>2, <2>3, <2>4
  <2> QED BY <2>1, <2>4, <2>5, TypeFrame DEF TypeInv, TypeOK, history
<1> QED BY <1>1, <1>2, <1>3, <1>4, <1>5, <1>6 DEF Reading

\* What the steps that follow need of the request that makes them.
LEMMA InHand ==
  ASSUME TypeInv, NEW t \in Request, Busy(t)
  PROVE  /\ req \in Requests /\ Suits(t) /\ req[t] \in Serving /\ req[t].target \in Id
         /\ req[t].kind \in {"register", "profile", "create", "edit", "remove"}
         /\ req[t].kind # "remove" => req[t].want \in User
         /\ req[t].who # NoUser => req[t].who \in User
         /\ req[t].pc \in {"put1", "put2", "password", "write", "guard", "fields", "key"} =>
              req[t].who \in User
         /\ req[t].next \in {"done", "write", "guard", "password"}
<1>1. req \in Requests /\ Suits(t)
  BY DEF TypeInv, TypeOK, Requests
<1>2. req[t] \in Serving
  BY <1>1, Serves
<1> QED BY <1>1, <1>2, Fields DEF Suits, Maybe

LEMMA CachingTypes ==
  ASSUME TypeInv, NEW t \in Request, Caching(t)
  PROVE  TypeInv'
<1> USE DEF Suits, Busy, At, Caches, Creates
<1>p. {"put1", "put2", "uncache1", "uncache2", "write", "guard", "password", "commit"} \subseteq Place
  BY DEF Place
<1>b. Busy(t)
  BY DEF Caching, CacheById, CacheByKey, UncacheByKey, UncacheById, Goto
<1>t. TypeOK /\ since \in [Request -> SUBSET Id] /\ raced \subseteq Id /\ halved \subseteq Id /\ req \in Requests
  BY DEF TypeInv, TypeOK, Requests
<1>o. ASSUME UNCHANGED tables, req' \in Requests, since' \in [Request -> SUBSET Id], raced' \subseteq Id,
             orphaned' \subseteq Id, halved' \subseteq Id,
             byId' \in [Id -> Maybe], \A i \in Id : byId'[i] # NoUser => byId'[i].id = i,
             byKey' \in [Email -> Maybe], \A e \in Email : byKey'[e] # NoUser => byKey'[e].email = e
      PROVE  TypeOK'
  BY <1>o, <1>t DEF TypeOK, tables, Present, Requests
<1>1. CASE CacheById(t)
  <2> DEFINE u == req[t].who
  <2>1. Goto(t, "put1", "put2") /\ req[t].pc = "put1"
    BY <1>1 DEF CacheById, Goto
  <2>2. u \in User /\ u.id \in Id /\ u.email \in Email /\ u \in Maybe
    BY <1>b, <2>1, InHand, UserFields DEF Maybe
  <2>3. /\ byId' = [byId EXCEPT ![u.id] = u] /\ raced' = raced \cup Late(u)
        /\ UNCHANGED <<tables, byKey, since, orphaned, halved>>
    BY <1>1 DEF CacheById
  <2>4. Late(u) \subseteq Id
    BY <2>2 DEF Late
  <2> HIDE DEF u
  <2>5. Suits(t)' /\ req' \in Requests /\ \A x \in Request \ {t} : req'[x] = req[x]
    <3>1. Suits(t) /\ req[t].kind \in {"register", "profile", "create", "edit", "remove"}
      BY <1>b, InHand
    <3>2. /\ req'[t].pc = "put2" /\ req'[t].kind = req[t].kind /\ req'[t].target = req[t].target
          /\ req'[t].want = req[t].want /\ req'[t].who = req[t].who /\ req'[t].next = req[t].next
          /\ req' \in Requests /\ \A x \in Request \ {t} : req'[x] = req[x]
      BY <1>p, <1>t, <2>1, GotoStep
    <3> QED BY <2>1, <3>1, <3>2
  <2>6. TypeOK'
    BY <1>o, <1>t, <2>2, <2>3, <2>4, <2>5 DEF TypeOK
  <2> QED BY <2>5, <2>6, SuitsOthers DEF TypeInv
<1>2. CASE CacheByKey(t)
  <2> DEFINE u == req[t].who
  <2>1. Goto(t, "put2", req[t].next) /\ req[t].pc = "put2"
    BY <1>2 DEF CacheByKey, Goto
  <2>2. u \in User /\ u.id \in Id /\ u.email \in Email /\ u \in Maybe
    BY <1>b, <2>1, InHand, UserFields DEF Maybe
  <2>3. /\ byKey' = [byKey EXCEPT ![u.email] = u] /\ raced' = raced \cup Late(u)
        /\ UNCHANGED <<tables, byId, since, orphaned, halved>>
    BY <1>2 DEF CacheByKey
  <2>4. Late(u) \subseteq Id
    BY <2>2 DEF Late
  <2> HIDE DEF u
  <2>5. Suits(t)' /\ req' \in Requests /\ \A x \in Request \ {t} : req'[x] = req[x]
    <3>1. Suits(t) /\ req[t].kind \in {"register", "profile", "create", "edit", "remove"}
          /\ req[t].next \in {"done", "write", "guard", "password"}
      BY <1>b, InHand
    <3>q. req[t].next \in Place \cup {"done"}
      BY <1>p, <3>1
    <3>2. /\ req' \in Requests /\ \A x \in Request \ {t} : req'[x] = req[x]
          /\ req[t].next = "done" => req'[t].pc = "done"
          /\ req[t].next # "done" =>
               /\ req'[t].pc = req[t].next /\ req'[t].kind = req[t].kind /\ req'[t].target = req[t].target
               /\ req'[t].want = req[t].want /\ req'[t].who = req[t].who /\ req'[t].next = req[t].next
      BY <1>p, <1>t, <2>1, <3>q, GotoStep
    <3>3. CASE req[t].next = "done"
      BY <3>2, <3>3
    <3>4. CASE req[t].next # "done"
      BY <2>1, <3>1, <3>2, <3>4
    <3> QED BY <3>2, <3>3, <3>4
  <2>6. TypeOK'
    BY <1>o, <1>t, <2>2, <2>3, <2>4, <2>5 DEF TypeOK
  <2> QED BY <2>5, <2>6, SuitsOthers DEF TypeInv
<1>3. CASE UncacheByKey(t)
  <2>1. Goto(t, "uncache1", "uncache2") /\ req[t].pc = "uncache1" /\ UNCHANGED <<tables, byId, since, raced, halved>>
    BY <1>3 DEF UncacheByKey, Goto
  <2>2. req[t].target \in Id
    BY <1>b, InHand
  <2>3. orphaned' \subseteq Id /\ byKey' \in [Email -> Maybe] /\ \A e \in Email : byKey'[e] # NoUser => byKey'[e].email = e
    BY <1>3, <1>t, <2>2 DEF UncacheByKey, TypeOK, Maybe
  <2>4. Suits(t)' /\ req' \in Requests /\ \A x \in Request \ {t} : req'[x] = req[x]
    <3>1. Suits(t) /\ req[t].kind \in {"register", "profile", "create", "edit", "remove"}
      BY <1>b, InHand
    <3>2. /\ req'[t].pc = "uncache2" /\ req'[t].kind = req[t].kind /\ req'[t].target = req[t].target
          /\ req'[t].want = req[t].want /\ req'[t].who = req[t].who /\ req'[t].next = req[t].next
          /\ req' \in Requests /\ \A x \in Request \ {t} : req'[x] = req[x]
      BY <1>p, <1>t, <2>1, GotoStep
    <3> QED BY <2>1, <3>1, <3>2
  <2>5. TypeOK'
    BY <1>o, <1>t, <2>1, <2>3, <2>4 DEF TypeOK
  <2> QED BY <2>4, <2>5, SuitsOthers DEF TypeInv
<1>4. CASE UncacheById(t)
  <2>1. /\ req[t].pc = "uncache2" /\ UNCHANGED <<tables, byKey, since, raced, orphaned, halved>>
        /\ byId' = [byId EXCEPT ![req[t].target] = NoUser]
    BY <1>4 DEF UncacheById, history
  <2>2. PICK q \in {"commit", "done"} : Goto(t, "uncache2", q) /\ (q = "commit" => req[t].kind = "remove")
    BY <1>4 DEF UncacheById
  <2>3. req[t].target \in Id
    BY <1>b, InHand
  <2>4. byId' \in [Id -> Maybe] /\ \A i \in Id : byId'[i] # NoUser => byId'[i].id = i
    BY <1>t, <2>1, <2>3 DEF TypeOK, Maybe
  <2>5. Suits(t)' /\ req' \in Requests /\ \A x \in Request \ {t} : req'[x] = req[x]
    <3>1. Suits(t) /\ req[t].kind \in {"register", "profile", "create", "edit", "remove"}
      BY <1>b, InHand
    <3>2. /\ req' \in Requests /\ \A x \in Request \ {t} : req'[x] = req[x]
          /\ q = "done" => req'[t].pc = "done"
          /\ q # "done" =>
               /\ req'[t].pc = "commit" /\ req'[t].kind = req[t].kind /\ req'[t].target = req[t].target
               /\ req'[t].want = req[t].want /\ req'[t].who = req[t].who /\ req'[t].next = req[t].next
      BY <1>p, <1>t, <2>2, GotoStep
    <3> QED BY <2>1, <2>2, <3>1, <3>2
  <2>6. TypeOK'
    BY <1>o, <1>t, <2>1, <2>4, <2>5 DEF TypeOK
  <2> QED BY <2>5, <2>6, SuitsOthers DEF TypeInv
<1> QED BY <1>1, <1>2, <1>3, <1>4 DEF Caching

\* A row that is written keeps the addresses apart if nobody else has its address.
RowsInv(us) ==
  /\ us \in [Id -> Maybe]
  /\ \A i, j \in {k \in Id : us[k] # NoUser} : us[i].id = i /\ (us[i].email = us[j].email => i = j)

LEMMA RowSet ==
  ASSUME RowsInv(users), NEW u \in User, ~Taken(u.email, u.id)
  PROVE  RowsInv([users EXCEPT ![u.id] = u])
<1>1. u.id \in Id /\ u # NoUser /\ u \in Maybe
  BY UserFields DEF Maybe
<1>2. \A j \in Id : users[j] # NoUser /\ j # u.id => users[j].email # u.email
  BY DEF Taken, Present
<1> QED BY <1>1, <1>2 DEF RowsInv

LEMMA RowGone ==
  ASSUME RowsInv(users), NEW i \in Id
  PROVE  RowsInv([users EXCEPT ![i] = NoUser])
BY DEF RowsInv, Maybe

\* A step that may change the tables, and goes on with what it has in hand.
LEMMA ChangeTypes ==
  ASSUME TypeInv, NEW t \in Request, NEW p \in Place, NEW q \in Place \cup {"done"}, Goto(t, p, q),
         q # "done" => Suits(t)', RowsInv(users'), passwords' \subseteq Email, UNCHANGED cache,
         since' \in [Request -> SUBSET Id], raced' \subseteq Id, orphaned' \subseteq Id, halved' \subseteq Id
  PROVE  TypeInv'
<1>1. req \in Requests
  BY DEF TypeInv, TypeOK, Requests
<1>2. Suits(t)' /\ req' \in Requests /\ \A x \in Request \ {t} : req'[x] = req[x]
  BY <1>1, GotoStep DEF Suits, Busy, At
<1>3. TypeOK'
  BY <1>2 DEF TypeInv, TypeOK, cache, Requests, RowsInv, Present
<1> QED BY <1>2, <1>3, SuitsOthers DEF TypeInv

LEMMA ChangeCarries ==
  ASSUME TypeInv, NEW t \in Request, req' \in Requests, \A x \in Request \ {t} : req'[x] = req[x],
         Suits(t)', RowsInv(users'), UNCHANGED <<passwords, cache>>,
         since' \in [Request -> SUBSET Id], raced' \subseteq Id, orphaned' \subseteq Id, halved' \subseteq Id
  PROVE  TypeInv'
<1>1. TypeOK'
  BY DEF TypeInv, TypeOK, cache, Requests, RowsInv, Present
<1> QED BY <1>1, SuitsOthers DEF TypeInv

LEMMA ChangingTypes ==
  ASSUME TypeInv, NEW t \in Request, Changing(t)
  PROVE  TypeInv'
<1> USE DEF Suits, Busy, At, Caches, Creates
<1>p. {"put1", "insert", "write", "guard", "password", "fields", "key", "delete", "uncache1", "commit"} \subseteq Place
  BY DEF Place
<1>b. Busy(t)
  BY DEF Changing, Insert, AddPassword, Write, Guard, UpdateFields, UpdateKey, Delete, Commit, Goto
<1>t. /\ RowsInv(users) /\ since \in [Request -> SUBSET Id] /\ raced \subseteq Id /\ halved \subseteq Id
      /\ orphaned \subseteq Id /\ passwords \subseteq Email /\ req \in Requests
  BY DEF TypeInv, TypeOK, Requests, RowsInv, Present
<1>1. CASE Insert(t)
  <2> DEFINE u == req[t].want
  <2>1. req[t].pc = "insert" /\ UNCHANGED <<passwords, cache, raced, orphaned, halved>>
    BY <1>1 DEF Insert
  <2>2. /\ u \in User /\ u.id = t /\ req[t].kind \in {"register", "create"} /\ u \in Maybe
        /\ u # NoUser
    BY <1>b, <2>1, InHand, UserFields DEF Maybe
  <2>3. since' \in [Request -> SUBSET Id]
    BY <1>1, <1>t DEF Insert, Id
  <2>4. CASE ~Taken(u.email, t) /\ Carry(t, "insert", "put1", u, "password") /\ users' = [users EXCEPT ![t] = u]
    <3>1. RowsInv(users')
      BY <1>t, <2>2, <2>4, RowSet
    <3> HIDE DEF u
    <3>2. /\ req' \in Requests /\ \A x \in Request \ {t} : req'[x] = req[x]
          /\ req'[t].pc = "put1" /\ req'[t].kind = req[t].kind /\ req'[t].target = req[t].target
          /\ req'[t].want = req[t].want /\ req'[t].who = u /\ req'[t].next = "password"
      BY <1>t, <1>p, <2>2, <2>4, CarryStep
    <3>3. Suits(t)'
      BY <2>2, <3>2 DEF u
    <3> QED BY <1>t, <2>1, <2>3, <3>1, <3>2, <3>3, ChangeCarries
  <2>5. CASE Goto(t, "insert", "done") /\ UNCHANGED users
    BY <1>p, <1>t, <2>1, <2>3, <2>5, ChangeTypes
  <2> QED BY <1>1, <2>4, <2>5 DEF Insert
<1>2. CASE AddPassword(t)
  <2>1. Goto(t, "password", "done") /\ req[t].pc = "password" /\ UNCHANGED <<users, cache, since, orphaned>>
    BY <1>2 DEF AddPassword
  <2>2. req[t].who \in User /\ req[t].who.email \in Email
    BY <1>b, <2>1, InHand, UserFields
  <2>3. passwords' \subseteq Email /\ halved' \subseteq Id /\ raced' \subseteq Id
    BY <1>2, <1>t, <2>2 DEF AddPassword, Id
  <2> QED BY <1>p, <1>t, <2>1, <2>3, ChangeTypes
<1>3. CASE Write(t)
  <2> DEFINE u == req[t].who
  <2>1. req[t].pc = "write" /\ UNCHANGED <<passwords, cache, since, orphaned, halved>>
    BY <1>3 DEF Write
  <2>2. u \in User /\ u \in Maybe /\ u # NoUser /\ u.id \in Id /\ req[t].kind = "profile" /\ req[t].want \in User
    BY <1>b, <2>1, InHand, UserFields DEF Maybe
  <2>3. Outdated(t, u.id) \subseteq Id
    BY <2>2 DEF Outdated
  <2>4. CASE Carry(t, "write", "put1", u, "done")
    <3>1. RowsInv(users') /\ raced' \subseteq Id
      BY <1>3, <1>t, <2>2, <2>3, <2>4, RowSet DEF Write
    <3> HIDE DEF u
    <3>2. /\ req' \in Requests /\ \A x \in Request \ {t} : req'[x] = req[x]
          /\ req'[t].pc = "put1" /\ req'[t].kind = req[t].kind /\ req'[t].target = req[t].target
          /\ req'[t].want = req[t].want /\ req'[t].who = u /\ req'[t].next = "done"
      BY <1>t, <1>p, <2>2, <2>4, CarryStep
    <3>3. Suits(t)'
      BY <2>2, <3>2, UserFields
    <3> QED BY <1>t, <2>1, <3>1, <3>2, <3>3, ChangeCarries
  <2>5. CASE Goto(t, "write", "done") /\ UNCHANGED <<users, raced>>
    BY <1>p, <1>t, <2>1, <2>5, ChangeTypes
  <2> QED BY <1>3, <2>4, <2>5 DEF Write
<1>4. CASE Guard(t)
  <2>1. req[t].pc = "guard" /\ UNCHANGED <<tables, cache, history>>
    BY <1>4 DEF Guard
  <2>2. PICK q \in {"done", "fields"} : Goto(t, "guard", q)
    BY <1>4 DEF Guard
  <2>3. Suits(t) /\ req[t].kind = "edit" /\ req[t].who # NoUser /\ req[t].want # NoUser
    BY <1>b, <2>1, InHand
  <2>4. q # "done" => Suits(t)'
    BY <1>p, <1>t, <2>1, <2>2, <2>3, GotoStep
  <2> QED BY <1>p, <2>1, <2>2, <2>4, GotoSuits
<1>5. CASE UpdateFields(t)
  <2> DEFINE u == req[t].want
  <2>1. req[t].pc = "fields" /\ UNCHANGED <<passwords, cache, since, orphaned, halved>>
    BY <1>5 DEF UpdateFields
  <2>2. u \in User /\ u.id \in Id /\ req[t].kind = "edit" /\ u # NoUser /\ u.id = req[t].target /\ Suits(t)
    BY <1>b, <2>1, InHand, UserFields
  <2>3. Outdated(t, u.id) \subseteq Id
    BY <2>2 DEF Outdated
  <2>4. RowsInv(users') /\ raced' \subseteq Id
    BY <1>5, <1>t, <2>2, <2>3, RowSet DEF UpdateFields
  <2>5. PICK q \in {"key", "uncache1", "done"} : Goto(t, "fields", q)
    BY <1>5 DEF UpdateFields
  <2> HIDE DEF u
  <2>6. q # "done" => Suits(t)'
    BY <1>p, <1>t, <2>1, <2>2, <2>5, GotoStep DEF u
  <2> QED BY <1>p, <1>t, <2>1, <2>4, <2>5, <2>6, ChangeTypes
<1>6. CASE UpdateKey(t)
  <2>1. req[t].pc = "key" /\ UNCHANGED <<users, cache, since, orphaned>>
    BY <1>6 DEF UpdateKey
  <2>2. req[t].want \in User /\ req[t].kind = "edit" /\ req[t].target \in Id /\ Suits(t) /\ req[t].want.email \in Email
    BY <1>b, <2>1, InHand, UserFields
  <2>3. Victims(t) \subseteq Id
    BY DEF Victims, Present
  <2>4. passwords' \subseteq Email /\ raced' \subseteq Id /\ halved' \subseteq Id
    BY <1>6, <1>t, <2>2, <2>3 DEF UpdateKey
  <2>5. PICK q \in {"uncache1", "done"} : Goto(t, "key", q)
    BY <1>6 DEF UpdateKey
  <2>6. q # "done" => Suits(t)'
    BY <1>p, <1>t, <2>1, <2>2, <2>5, GotoStep, UserFields
  <2> QED BY <1>p, <1>t, <2>1, <2>4, <2>5, <2>6, ChangeTypes
<1>7. CASE Delete(t)
  <2>1. req[t].pc = "delete" /\ UNCHANGED <<tables, cache, history>> /\ Goto(t, "delete", "uncache1")
    BY <1>7 DEF Delete
  <2>2. Suits(t) /\ req[t].kind = "remove"
    BY <1>b, <2>1, InHand
  <2>3. Suits(t)'
    BY <1>p, <1>t, <2>1, <2>2, GotoStep
  <2> QED BY <1>p, <2>1, <2>3, GotoSuits
<1>8. CASE Commit(t)
  <2>1. Goto(t, "commit", "done") /\ UNCHANGED <<cache, since, orphaned, halved>>
        /\ users' = [users EXCEPT ![req[t].target] = NoUser]
    BY <1>8 DEF Commit
  <2>2. Victims(t) \subseteq Id /\ req[t].target \in Id
    BY <1>b, InHand DEF Victims, Present
  <2>3. passwords' \subseteq Email /\ raced' \subseteq Id /\ RowsInv(users')
    BY <1>8, <1>t, <2>1, <2>2, RowGone DEF Commit
  <2> QED BY <1>p, <1>t, <2>1, <2>3, ChangeTypes
<1> QED BY <1>1, <1>2, <1>3, <1>4, <1>5, <1>6, <1>7, <1>8 DEF Changing

LEMMA ExpireTypes ==
  ASSUME TypeInv, Expire
  PROVE  TypeInv'
<1>1. UNCHANGED <<users, passwords, req, since, raced, orphaned, halved>>
  BY DEF Expire, tables, history
<1>2. /\ byId' \in [Id -> Maybe] /\ \A i \in Id : byId'[i] # NoUser => byId'[i].id = i
      /\ byKey' \in [Email -> Maybe] /\ \A e \in Email : byKey'[e] # NoUser => byKey'[e].email = e
  BY DEF Expire, TypeInv, TypeOK, Maybe
<1>3. TypeOK'
  BY <1>1, <1>2 DEF TypeInv, TypeOK, Present
<1> QED BY <1>1, <1>3 DEF TypeInv, Suits, Busy, At, Caches, Creates

LEMMA TypeStep ==
  ASSUME TypeInv, [Next]_vars
  PROVE  TypeInv'
<1>1. CASE UNCHANGED vars
  BY <1>1 DEF vars, tables, cache, history, TypeInv, TypeOK, Present, Suits, Busy, At, Caches, Creates
<1> QED BY <1>1, AskingTypes, ReadingTypes, CachingTypes, ChangingTypes, ExpireTypes DEF Next

\* The tables and the cache hold users, under their own id and their own address.
THEOREM TypeCorrect == Spec => []TypeOK
<1>1. Spec => []TypeInv
  BY TypeInit, TypeStep, PTL DEF Spec
<1> QED BY <1>1, PTL DEF TypeInv

----------------------------------------------------------------------------
(* Whom a request has in hand                                              *)

\* Steps that change neither tables nor cache, and leave a request before its first change.
Quiet(t) ==
  /\ UNCHANGED <<users, passwords, byId, byKey, raced, orphaned, halved>>
  /\ \A x \in Request \ {t} : req'[x] = req[x] /\ since'[x] = since[x]
  /\ req'[t].pc = "insert" => req'[t].kind = "create" \/ Count(t)
  /\ req[t].pc \notin {"done", "put1", "put2", "password", "key", "uncache1", "uncache2", "commit"}
  /\ \/ req'[t].pc = "done"
     \/ /\ req'[t].pc \notin {"idle", "done", "password", "key", "uncache2", "commit"}
        /\ req'[t].pc = "uncache1" => req'[t].kind = "remove"
        /\ req'[t].pc \in {"put1", "put2"} => req'[t].next # "password"
        /\ \/ req'[t].who = NoUser
           \/ req[t].pc # "idle" /\ req'[t].who = req[t].who
           \/ \E i \in Present : req'[t].who = users[i]
           \/ \E i \in Id : byId[i] # NoUser /\ req'[t].who = byId[i]
           \/ \E e \in Email : byKey[e] # NoUser /\ req'[t].who = byKey[e]

LEMMA QuietGoto ==
  ASSUME req \in Requests, NEW t \in Request,
         NEW p \in {"byKey", "byId", "queryKey", "queryId", "guard", "delete"},
         NEW q \in {"queryKey", "queryId", "count", "done", "fields", "uncache1"}, Goto(t, p, q),
         q = "uncache1" => req[t].kind = "remove", UNCHANGED <<tables, cache, history>>
  PROVE  Quiet(t)
<1>1. p \in Place /\ q \in Place \cup {"done"}
  BY DEF Place
<1> QED BY <1>1, GotoStep DEF Quiet, tables, cache, history

LEMMA QuietCarry ==
  ASSUME req \in Requests, NEW t \in Request,
         NEW p \in {"byKey", "byId", "queryKey", "queryId", "find"},
         NEW q \in {"put1", "write", "guard", "delete"}, NEW u \in Maybe,
         NEW n \in {"done", "write", "guard"}, Carry(t, p, q, u, n),
         \/ u = NoUser
         \/ \E i \in Present : u = users[i]
         \/ \E i \in Id : byId[i] # NoUser /\ u = byId[i]
         \/ \E e \in Email : byKey[e] # NoUser /\ u = byKey[e],
         UNCHANGED <<tables, cache, history>>
  PROVE  Quiet(t)
<1>1. p \in Place /\ q \in Place /\ n \in {"done", "write", "guard", "password"}
  BY DEF Place
<1>2. /\ req[t].pc = p /\ \A x \in Request \ {t} : req'[x] = req[x]
      /\ req'[t].pc = q /\ req'[t].who = u /\ req'[t].next = n
  BY <1>1, CarryStep
<1> QED BY <1>2 DEF Quiet, tables, cache, history

LEMMA QuietStep ==
  ASSUME TypeInv, NEW t \in Request, Asking(t) \/ Reading(t) \/ Guard(t) \/ Delete(t)
  PROVE  Quiet(t)
<1>0. req \in Requests
  BY DEF TypeInv, TypeOK, Requests
<1>1. CASE Asking(t)
  <2>1. Administrators \subseteq Id /\ t \in Id /\ NoUser \in Maybe
    BY DEF Administrators, Present, Id, Maybe
  <2>2. PICK k \in {"register", "profile", "create", "edit", "remove"},
             p \in {"byKey", "insert", "byId", "find"}, a \in Id, i \in Id, u \in Maybe :
          Begin(t, k, p, a, i, u) /\ (p = "insert" => k = "create")
    <3>1. ASSUME NEW e \in Email, NEW r \in Role
          PROVE  Asked(t, e) \in Maybe /\ [Asked(t, e) EXCEPT !.role = r] \in Maybe
      BY AskedFields DEF Maybe
    <3>2. ASSUME NEW e \in Email, NEW r \in Role, NEW i \in Id
          PROVE  [id |-> i, email |-> e, role |-> r] \in Maybe /\ [id |-> i, email |-> e, role |-> r].id = i
      BY DEF Maybe, User
    <3>3. CASE \E e \in Email : Register(t, e) \/ SaveProfile(t, e)
      BY <2>1, <3>1, <3>3 DEF Register, SaveProfile, Role
    <3>4. CASE \E a \in Administrators, e \in Email, r \in Role : Create(t, a, e, r)
      BY <2>1, <3>1, <3>4 DEF Create
    <3>5. CASE \E a \in Administrators, e \in Email, r \in Role, i \in Id :
                 Edit(t, a, [id |-> i, email |-> e, role |-> r])
      <4>1. PICK a \in Administrators, e \in Email, r \in Role, i \in Id :
                   Edit(t, a, [id |-> i, email |-> e, role |-> r])
        BY <3>5
      <4>2. Begin(t, "edit", "byId", a, i, [id |-> i, email |-> e, role |-> r])
        BY <3>2, <4>1 DEF Edit
      <4> QED BY <2>1, <3>2, <4>2
    <3>6. CASE \E a \in Administrators, i \in Id : Remove(t, a, i)
      BY <2>1, <3>6 DEF Remove
    <3> QED BY <1>1, <3>3, <3>4, <3>5, <3>6 DEF Asking
  <2>3. p \in Place
    BY DEF Place
  <2>4. /\ At(t, "idle") /\ \A x \in Request \ {t} : req'[x] = req[x]
        /\ req'[t].pc = p /\ req'[t].who = NoUser /\ req'[t].next = "done" /\ req'[t].kind = k
    BY <1>0, <2>2, <2>3, BeginStep
  <2> QED BY <2>2, <2>4 DEF Quiet, At, Begin, tables, cache, history
<1>2. ASSUME NEW p \in {"byKey", "byId"}, NEW u \in Maybe, Found(t, p, u), req[t].pc = p,
             \/ \E i \in Id : byId[i] # NoUser /\ u = byId[i]
             \/ \E e \in Email : byKey[e] # NoUser /\ u = byKey[e],
             UNCHANGED <<tables, cache, history>>
      PROVE  Quiet(t)
  <2>1. Busy(t)
    BY <1>2 DEF Busy, At
  <2>2. req[t].kind \in {"register", "profile", "edit"}
    BY <1>2, <2>1, InHand DEF Suits
  <2>3. AfterLookup(t) \in {"done", "write", "guard"}
    BY <2>2 DEF AfterLookup
  <2>4. CASE AfterLookup(t) = "done"
    BY <1>0, <1>2, <2>4, QuietGoto DEF Found
  <2>5. CASE AfterLookup(t) # "done"
    <3>1. PICK q \in {"write", "guard"} : Carry(t, p, q, u, "done")
      BY <1>2, <2>3, <2>5 DEF Found
    <3> QED BY <1>0, <1>2, <3>1, QuietCarry
  <2> QED BY <2>4, <2>5
<1>3. CASE LookByKey(t)
  <2>1. Busy(t) /\ req[t].pc = "byKey" /\ UNCHANGED <<tables, cache, history>>
    BY <1>3 DEF LookByKey, Busy, At
  <2>2. req[t].want \in User /\ req[t].want.email \in Email
    BY <2>1, InHand, UserFields DEF Suits
  <2>3. byKey[req[t].want.email] \in Maybe
    BY <2>2 DEF TypeInv, TypeOK
  <2> QED BY <1>0, <1>2, <1>3, <2>1, <2>2, <2>3, QuietGoto DEF LookByKey
<1>4. CASE LookById(t)
  <2>1. Busy(t) /\ req[t].pc = "byId" /\ UNCHANGED <<tables, cache, history>>
    BY <1>4 DEF LookById, Busy, At
  <2>2. req[t].target \in Id /\ byId[req[t].target] \in Maybe
    BY <2>1, InHand DEF TypeInv, TypeOK
  <2> QED BY <1>0, <1>2, <1>4, <2>1, <2>2, QuietGoto DEF LookById
<1>5. CASE QueryKey(t) \/ QueryId(t)
  <2>1. Busy(t) /\ req[t].pc \in {"queryKey", "queryId"} /\ UNCHANGED <<tables, cache, history>>
    BY <1>5 DEF QueryKey, QueryId, Busy, At, Goto, Carry
  <2>2. req[t].kind \in {"register", "profile", "edit"} /\ req[t].target \in Id
    BY <2>1, InHand DEF Suits
  <2>3. AfterLookup(t) \in {"done", "write", "guard"}
    BY <2>2 DEF AfterLookup
  <2>4. CASE \E q \in {"count", "done"}, p \in {"queryKey", "queryId"} : Goto(t, p, q)
    BY <1>0, <2>1, <2>4, QuietGoto
  <2>5. CASE \E i \in Present, p \in {"queryKey", "queryId"} : Carry(t, p, "put1", users[i], AfterLookup(t))
    <3>1. PICK i \in Present, p \in {"queryKey", "queryId"} : Carry(t, p, "put1", users[i], AfterLookup(t))
      BY <2>5
    <3>2. users[i] \in Maybe
      BY DEF Present, TypeInv, TypeOK
    <3> QED BY <1>0, <2>1, <2>3, <3>1, <3>2, QuietCarry
  <2> QED BY <1>5, <2>2, <2>4, <2>5 DEF QueryKey, QueryId
<1>6. CASE Count(t)
  <2>1. req[t].pc = "count" /\ UNCHANGED <<tables, cache, raced, orphaned, halved>>
    BY <1>6 DEF Count, NewUser, At
  <2>2. req[t].want \in User /\ \A x \in Request \ {t} : since'[x] = since[x]
    BY <1>6, <2>1, InHand DEF Suits, Busy, At, Count, NewUser, TypeInv, TypeOK
  <2> QED BY <1>0, <1>6, <2>1, <2>2, CountStep DEF Quiet, tables, cache
<1>7. CASE Find(t)
  <2>1. Busy(t) /\ UNCHANGED <<tables, cache, history>> /\ Carry(t, "find", "delete", users[req[t].target], "done")
    BY <1>7 DEF Find, Busy, At
  <2>2. users[req[t].target] \in Maybe /\ req[t].target \in Id
    BY <2>1, InHand DEF TypeInv, TypeOK
  <2>3. users[req[t].target] = NoUser \/ \E i \in Present : users[req[t].target] = users[i]
    BY <2>2 DEF Present
  <2> QED BY <1>0, <2>1, <2>2, <2>3, QuietCarry
<1>8. CASE Guard(t)
  BY <1>0, <1>8, QuietGoto DEF Guard
<1>9. CASE Delete(t)
  <2>1. Busy(t) /\ req[t].pc = "delete" /\ UNCHANGED <<tables, cache, history>> /\ Goto(t, "delete", "uncache1")
    BY <1>9 DEF Delete, Busy, At
  <2>2. req[t].kind = "remove"
    BY <2>1, InHand DEF Suits, Busy, At
  <2> QED BY <1>0, <2>1, <2>2, QuietGoto
<1> QED BY <1>1, <1>3, <1>4, <1>5, <1>6, <1>7, <1>8, <1>9 DEF Reading

----------------------------------------------------------------------------
(* A user is made once                                                     *)

LEMMA PastStays ==
  ASSUME NEW t \in Request, \A x \in Request \ {t} : req'[x] = req[x], ~At(t, "done"),
         Creates(t) => Creates(t)' \/ At(t, "done")'
  PROVE  \A i : Past(i) => Past(i)'
BY DEF Past, Creates, Caches, At

LEMMA KnownFrom ==
  ASSUME Known, NEW t \in Request, \A x \in Request \ {t} : req'[x] = req[x], ~At(t, "done"),
         Creates(t) => Creates(t)' \/ At(t, "done")',
         \A i \in Id : users'[i] # NoUser => i \in Present \/ Past(i)',
         \A i \in Id : byId'[i] # NoUser => byId'[i] = byId[i] \/ Past(i)',
         \A e \in Email : byKey'[e] # NoUser => byKey'[e] = byKey[e] \/ Past(byKey[e].id)',
         (Busy(t) /\ req[t].who # NoUser => Past(req[t].who.id))'
  PROVE  Known'
<1>1. \A i : Past(i) => Past(i)'
  BY PastStays
<1>2. \A x \in Request : (Busy(x) /\ req[x].who # NoUser => Past(req[x].who.id))'
  BY <1>1 DEF Known, Busy, At
<1> QED BY <1>1, <1>2 DEF Known, Present

LEMMA KnownStep ==
  ASSUME TypeInv, Known, [Next]_vars
  PROVE  Known'
<1> USE DEF At, Caches, Creates
<1>0. req \in Requests
  BY DEF TypeInv, TypeOK, Requests
<1>p. {"put1", "put2", "insert", "write", "password", "fields", "key", "uncache1", "uncache2", "commit",
       "guard"} \subseteq Place
  BY DEF Place
<1>1. ASSUME NEW t \in Request, Quiet(t)  PROVE Known'
  <2>1. /\ \A x \in Request \ {t} : req'[x] = req[x]
        /\ ~At(t, "done") /\ ~Creates(t)
    BY <1>1 DEF Quiet
  <2>2. \A i : Past(i) => Past(i)'
    BY <2>1, PastStays
  <2>3. \A i \in Present : users[i].id = i
    BY DEF TypeInv, TypeOK, Present
  <2>4. \A i \in Id : byId[i] # NoUser => byId[i].id = i
    BY DEF TypeInv, TypeOK
  <2>5. req'[t].pc # "done" /\ req'[t].who # NoUser => Past(req'[t].who.id)
    BY <1>1, <2>3, <2>4 DEF Quiet, Known, Busy
  <2> QED BY <1>1, <2>1, <2>2, <2>5, KnownFrom DEF Quiet, Present, Busy
<1>2. ASSUME NEW t \in Request, CacheById(t)  PROVE Known'
  <2>1. /\ Goto(t, "put1", "put2") /\ req[t].pc = "put1" /\ UNCHANGED <<users, byKey>>
        /\ byId' = [byId EXCEPT ![req[t].who.id] = req[t].who]
    BY <1>2 DEF CacheById, tables, Goto
  <2>2. req[t].who \in User /\ req[t].who # NoUser /\ req[t].who.id \in Id /\ Past(req[t].who.id)
    BY <2>1, InHand, UserFields DEF Busy, Known
  <2>3. /\ \A x \in Request \ {t} : req'[x] = req[x]
        /\ req'[t].pc = "put2" /\ req'[t].who = req[t].who /\ req'[t].next = req[t].next
    BY <1>0, <1>p, <2>1, GotoStep
  <2>4. Past(req[t].who.id)' /\ req'[t].who = req[t].who
    BY <2>1, <2>2, <2>3 DEF Past
  <2>5. \A i \in Id : byId'[i] # NoUser => byId'[i] = byId[i] \/ i = req[t].who.id
    BY <2>1, <2>2 DEF TypeInv, TypeOK
  <2> QED BY <2>1, <2>3, <2>4, <2>5, KnownFrom DEF Present
<1>3. ASSUME NEW t \in Request, CacheByKey(t)  PROVE Known'
  <2>1. /\ Goto(t, "put2", req[t].next) /\ req[t].pc = "put2" /\ UNCHANGED <<users, byId>>
        /\ byKey' = [byKey EXCEPT ![req[t].who.email] = req[t].who]
    BY <1>3 DEF CacheByKey, tables, Goto
  <2>2. req[t].who \in User /\ req[t].who # NoUser /\ req[t].who.email \in Email /\ Past(req[t].who.id)
        /\ req[t].next \in {"done", "write", "guard", "password"}
    BY <2>1, InHand, UserFields DEF Busy, Known
  <2>3. /\ \A x \in Request \ {t} : req'[x] = req[x]
        /\ req'[t].pc = req[t].next /\ (req[t].next # "done" => req'[t].who = req[t].who)
    BY <1>0, <1>p, <2>1, <2>2, GotoStep
  <2>4. \A i : Past(i) => Past(i)'
    BY <2>1, <2>3, PastStays
  <2>5. \A e \in Email : byKey'[e] # NoUser => byKey'[e] = byKey[e] \/ Past(byKey[e].id)'
    BY <2>1, <2>2, <2>4 DEF TypeInv, TypeOK
  <2>6. (Busy(t) /\ req[t].who # NoUser => Past(req[t].who.id))'
    BY <2>2, <2>3, <2>4 DEF Busy
  <2> QED BY <2>1, <2>3, <2>5, <2>6, KnownFrom DEF Present
<1>4. ASSUME NEW t \in Request, UncacheByKey(t) \/ UncacheById(t)  PROVE Known'
  <2>1. PICK p \in {"uncache1", "uncache2"}, q \in {"uncache2", "commit", "done"} : Goto(t, p, q)
    BY <1>4 DEF UncacheByKey, UncacheById
  <2>2. /\ \A x \in Request \ {t} : req'[x] = req[x]
        /\ req[t].pc = p /\ req'[t].pc = q /\ (q # "done" => req'[t].who = req[t].who)
    BY <1>0, <1>p, <2>1, GotoStep
  <2>3. \A i : Past(i) => Past(i)'
    BY <2>2, PastStays
  <2>4. /\ UNCHANGED users
        /\ \A i \in Id : byId'[i] # NoUser => byId'[i] = byId[i]
        /\ \A e \in Email : byKey'[e] # NoUser => byKey'[e] = byKey[e]
    BY <1>4 DEF UncacheByKey, UncacheById, tables, TypeInv, TypeOK
  <2>5. (Busy(t) /\ req[t].who # NoUser => Past(req[t].who.id))'
    BY <2>2, <2>3 DEF Known, Busy
  <2> QED BY <2>2, <2>4, <2>5, KnownFrom DEF Present
<1>5. ASSUME NEW t \in Request, Insert(t)  PROVE Known'
  <2> DEFINE u == req[t].want
  <2>1. req[t].pc = "insert" /\ UNCHANGED cache
    BY <1>5 DEF Insert
  <2>2. u \in User /\ u.id = t /\ u \in Maybe
    BY <2>1, InHand DEF Suits, Busy, Maybe
  <2>3. CASE Carry(t, "insert", "put1", u, "password") /\ users' = [users EXCEPT ![t] = u]
    <3> HIDE DEF u
    <3>1. /\ \A x \in Request \ {t} : req'[x] = req[x]
          /\ req'[t].pc = "put1" /\ req'[t].who = u /\ req'[t].next = "password"
      BY <1>0, <1>p, <2>2, <2>3, CarryStep
    <3>2. Past(t)'
      BY <3>1 DEF Past
    <3>3. \A i \in Id : users'[i] # NoUser => i \in Present \/ i = t
      BY <2>3 DEF TypeInv, TypeOK, Present
    <3> QED BY <2>1, <2>2, <3>1, <3>2, <3>3, KnownFrom DEF cache
  <2>4. CASE Goto(t, "insert", "done") /\ UNCHANGED users
    <3>1. (\A x \in Request \ {t} : req'[x] = req[x]) /\ req'[t].pc = "done"
      BY <1>0, <1>p, <2>4, GotoStep
    <3> QED BY <2>1, <2>4, <3>1, KnownFrom DEF cache, Present, Busy
  <2> QED BY <1>5, <2>3, <2>4 DEF Insert
<1>6. ASSUME NEW t \in Request, AddPassword(t) \/ UpdateKey(t)  PROVE Known'
  <2>1. PICK p \in {"password", "key"}, q \in {"done", "uncache1"} :
          Goto(t, p, q) /\ (p = "password" => q = "done") /\ UNCHANGED <<users, cache>>
    BY <1>6 DEF AddPassword, UpdateKey
  <2>2. /\ \A x \in Request \ {t} : req'[x] = req[x]
        /\ req[t].pc = p /\ req'[t].pc = q /\ (q # "done" => req'[t].who = req[t].who)
    BY <1>0, <1>p, <2>1, GotoStep
  <2>3. \A i : Past(i) => Past(i)'
    BY <2>1, <2>2, PastStays
  <2>4. (Busy(t) /\ req[t].who # NoUser => Past(req[t].who.id))'
    BY <2>2, <2>3 DEF Known, Busy
  <2> QED BY <2>1, <2>2, <2>4, KnownFrom DEF Present, cache
<1>7. ASSUME NEW t \in Request, Write(t)  PROVE Known'
  <2>1. req[t].pc = "write" /\ UNCHANGED cache
    BY <1>7 DEF Write
  <2>2. req[t].who \in User /\ req[t].who # NoUser /\ Past(req[t].who.id) /\ req[t].who \in Maybe
    BY <2>1, InHand, UserFields DEF Busy, Known, Maybe
  <2>3. \A i \in Id : users'[i] # NoUser => i \in Present
    BY <1>7 DEF Write, TypeInv, TypeOK, Present
  <2>4. \/ Goto(t, "write", "done") \/ Carry(t, "write", "put1", req[t].who, "done")
    BY <1>7 DEF Write
  <2>5. /\ \A x \in Request \ {t} : req'[x] = req[x]
        /\ req'[t].pc = "done" \/ (req'[t].pc = "put1" /\ req'[t].who = req[t].who)
    BY <1>0, <1>p, <2>2, <2>4, GotoStep, CarryStep
  <2>6. \A i : Past(i) => Past(i)'
    BY <2>1, <2>5, PastStays
  <2> QED BY <2>1, <2>2, <2>3, <2>5, <2>6, KnownFrom DEF cache, Busy
<1>8. ASSUME NEW t \in Request, UpdateFields(t) \/ Commit(t)  PROVE Known'
  <2>1. PICK p \in {"fields", "commit"}, q \in {"key", "uncache1", "done"} : Goto(t, p, q)
    BY <1>8 DEF UpdateFields, Commit
  <2>2. /\ \A x \in Request \ {t} : req'[x] = req[x]
        /\ req[t].pc = p /\ req'[t].pc = q /\ (q # "done" => req'[t].who = req[t].who)
    BY <1>0, <1>p, <2>1, GotoStep
  <2>3. \A i : Past(i) => Past(i)'
    BY <2>2, PastStays
  <2>4. UNCHANGED cache /\ \A i \in Id : users'[i] # NoUser => i \in Present
    BY <1>8 DEF UpdateFields, Commit, TypeInv, TypeOK, Present
  <2>5. (Busy(t) /\ req[t].who # NoUser => Past(req[t].who.id))'
    BY <2>2, <2>3 DEF Known, Busy
  <2> QED BY <2>2, <2>4, <2>5, KnownFrom DEF cache
<1>9. CASE Expire
  <2>1. /\ UNCHANGED <<users, req>>
        /\ \A i \in Id : byId'[i] # NoUser => byId'[i] = byId[i]
        /\ \A e \in Email : byKey'[e] # NoUser => byKey'[e] = byKey[e]
    BY <1>9 DEF Expire, tables, TypeInv, TypeOK
  <2> QED BY <2>1 DEF Known, Past, Present, Busy
<1>10. CASE UNCHANGED vars
  BY <1>10 DEF vars, tables, cache, Known, Past, Present, Busy
<1> QED BY <1>1, <1>2, <1>3, <1>4, <1>5, <1>6, <1>7, <1>8, <1>9, <1>10, QuietStep
        DEF Next, Caching, Changing

LEMMA KnownInit == Init => Known
<1> SUFFICES ASSUME Init PROVE Known
  OBVIOUS
<1>1. \A t \in Request : At(t, "idle")
  BY DEF Init, Idle, At
<1>2. \A i \in Present : i \notin Request
  BY AccountAssumption DEF AccountAssumption, Init, Present
<1> QED BY <1>1, <1>2 DEF Init, Known, Past, Busy

----------------------------------------------------------------------------
(* The first user                                                          *)

LEMMA FirstInit == Init => OnlyRacesMakeAdministrators
BY DEF Init, OnlyRacesMakeAdministrators, At, Idle

LEMMA FirstFrame ==
  ASSUME OnlyRacesMakeAdministrators, NEW t \in Request, \A x \in Request \ {t} : req'[x] = req[x] /\ since'[x] = since[x],
         req'[t].pc # "insert", \A i \in Id : users'[i] # NoUser => i \in Present
  PROVE  OnlyRacesMakeAdministrators'
BY DEF OnlyRacesMakeAdministrators, At, Present

LEMMA FirstStep ==
  ASSUME TypeInv, OnlyRacesMakeAdministrators, [Next]_vars
  PROVE  OnlyRacesMakeAdministrators'
<1> USE DEF At
<1>0. req \in Requests
  BY DEF TypeInv, TypeOK, Requests
<1>p. {"put1", "put2", "insert", "write", "password", "fields", "key", "uncache1", "uncache2", "commit",
       "guard"} \subseteq Place
  BY DEF Place
<1>1. ASSUME NEW t \in Request, Quiet(t), ~Count(t)  PROVE OnlyRacesMakeAdministrators'
  <2>1. req'[t].pc = "insert" => req'[t].kind = "create"
    BY <1>1 DEF Quiet
  <2>2. Present' = Present /\ \A x \in Request \ {t} : req'[x] = req[x] /\ since'[x] = since[x]
    BY <1>1 DEF Quiet, Present
  <2> QED BY <2>1, <2>2 DEF OnlyRacesMakeAdministrators
<1>2. ASSUME NEW t \in Request, Count(t)  PROVE OnlyRacesMakeAdministrators'
  <2>1. req[t].want \in User
    BY <1>2, InHand DEF Count, NewUser, Suits, Busy
  <2>2. /\ \A x \in Request \ {t} : req'[x] = req[x]
        /\ req'[t].want.role = "admin" => Present = {}
    BY <1>0, <1>2, <2>1, CountStep
  <2>3. Present' = Present /\ \A x \in Request \ {t} : since'[x] = since[x]
    BY <1>2 DEF Count, NewUser, tables, Present, TypeInv, TypeOK
  <2> QED BY <2>2, <2>3 DEF OnlyRacesMakeAdministrators
<1>3. ASSUME NEW t \in Request, Insert(t)  PROVE OnlyRacesMakeAdministrators'
  <2> DEFINE u == req[t].want
  <2>1. u \in Maybe
    BY <1>3, InHand DEF Insert, Suits, Busy, Maybe
  <2>2. CASE Carry(t, "insert", "put1", u, "password") /\ users' = [users EXCEPT ![t] = u]
             /\ since' = [x \in Request |-> IF At(x, "insert") THEN since[x] \cup {t} ELSE {}]
    <3> HIDE DEF u
    <3>1. (\A x \in Request \ {t} : req'[x] = req[x]) /\ req'[t].pc = "put1"
      BY <1>0, <1>p, <2>1, <2>2, CarryStep
    <3>2. Present' \subseteq Present \cup {t}
      BY <2>2 DEF Present, TypeInv, TypeOK
    <3> QED BY <2>2, <3>1, <3>2 DEF OnlyRacesMakeAdministrators
  <2>3. CASE Goto(t, "insert", "done") /\ UNCHANGED <<users, since>>
    BY <1>0, <1>p, <2>3, GotoStep, FirstFrame DEF Present
  <2> QED BY <1>3, <2>2, <2>3 DEF Insert
<1>4. ASSUME NEW t \in Request, Write(t)  PROVE OnlyRacesMakeAdministrators'
  <2>1. req[t].who \in Maybe
    BY <1>4, InHand DEF Write, Suits, Busy, Maybe
  <2>2. Goto(t, "write", "done") \/ Carry(t, "write", "put1", req[t].who, "done")
    BY <1>4 DEF Write
  <2>3. (\A x \in Request \ {t} : req'[x] = req[x]) /\ req'[t].pc # "insert"
    BY <1>0, <1>p, <2>1, <2>2, GotoStep, CarryStep
  <2>4. UNCHANGED since /\ \A i \in Id : users'[i] # NoUser => i \in Present
    BY <1>4 DEF Write, Present, TypeInv, TypeOK
  <2> QED BY <2>3, <2>4, FirstFrame
<1>5. ASSUME NEW t \in Request, Caching(t) \/ AddPassword(t) \/ UpdateFields(t) \/ UpdateKey(t) \/ Commit(t)
      PROVE  OnlyRacesMakeAdministrators'
  <2>1. CASE CacheByKey(t)
    <3>1. Goto(t, "put2", req[t].next) /\ Busy(t) /\ UNCHANGED <<users, since>>
      BY <2>1 DEF CacheByKey, Goto, Busy, tables
    <3>2. req[t].next \in {"done", "write", "guard", "password"}
      BY <3>1, InHand
    <3> QED BY <1>0, <1>p, <3>1, <3>2, GotoStep, FirstFrame DEF Present
  <2>2. CASE ~CacheByKey(t)
    <3>1. PICK p \in {"put1", "password", "fields", "key", "uncache1", "uncache2", "commit"},
               q \in {"put2", "key", "uncache1", "uncache2", "commit", "done"} : Goto(t, p, q)
      BY <1>5, <2>2 DEF Caching, CacheById, UncacheByKey, UncacheById, AddPassword, UpdateFields, UpdateKey, Commit
    <3>2. UNCHANGED since /\ \A i \in Id : users'[i] # NoUser => i \in Present
      BY <1>5, <2>2 DEF Caching, CacheById, UncacheByKey, UncacheById, AddPassword, UpdateFields, UpdateKey,
                        Commit, tables, history, Present, TypeInv, TypeOK
    <3> QED BY <1>0, <1>p, <3>1, <3>2, GotoStep, FirstFrame
  <2> QED BY <2>1, <2>2
<1>6. CASE Expire \/ UNCHANGED vars
  BY <1>6 DEF Expire, vars, tables, history, OnlyRacesMakeAdministrators, Present
<1> QED BY <1>1, <1>2, <1>3, <1>4, <1>5, <1>6, QuietStep DEF Next, Changing, Reading

LEMMA Types == Spec => [](TypeInv /\ Known)
BY TypeInit, TypeStep, KnownInit, KnownStep, PTL DEF Spec

\* Only users who came after it had counted none are there when a registration that
\* makes an administrator is stored.
THEOREM SecondAdministratorsAreRaces == Spec => []OnlyRacesMakeAdministrators
BY Types, FirstInit, FirstStep, PTL DEF Spec

----------------------------------------------------------------------------
(* The cache                                                               *)

Uncached(i) == byId[i] = NoUser /\ \A e \in Email : byKey[e] # NoUser => byKey[e].id # i

\* A step that leaves the cache alone may change a row if that is excused, or nobody
\* has it cached, or the step is that of the only edit of it.
LEMMA CacheFrame ==
  ASSUME TypeInv, CacheInv, NEW t \in Request, \A x \in Request \ {t} : req'[x] = req[x],
         req'[t].pc \notin {"uncache2", "commit"}, UNCHANGED cache, Excused \subseteq Excused',
         \A i \in Id : Editing(t, i) => Editing(t, i)' \/ i \in Excused',
         \A i \in Id : \/ users'[i] = users[i] \/ i \in Excused' \/ Uncached(i)
                       \/ Editing(t, i)' /\ \A x \in Request \ {t} : ~Editing(x, i)
  PROVE  CacheInv'
<1> USE DEF At
<1>1. \A x \in Request \ {t}, i \in Id : Editing(x, i)' <=> Editing(x, i)
  BY DEF Editing
<1>2. /\ byId' = byId /\ byKey' = byKey
      /\ \A i \in Id : byId[i] # NoUser => byId[i].id = i
      /\ \A e \in Email : byKey[e] # NoUser => byKey[e].id \in Id
  BY UserFields DEF cache, TypeInv, TypeOK, Maybe
<1>3. ASSUME NEW u, Right(u), u.id \in Id, ~Uncached(u.id)
      PROVE  users'[u.id] = u \/ u.id \in Excused' \/ \E x \in Request : Editing(x, u.id)'
  BY <1>1, <1>3 DEF Right
<1>4. ASSUME NEW i \in Id, byId[i] # NoUser  PROVE Right(byId[i])'
  BY <1>2, <1>3, <1>4 DEF Right, CacheInv, CachedRight, Uncached
<1>5. ASSUME NEW e \in Email, byKey[e] # NoUser  PROVE Right(byKey[e])'
  BY <1>2, <1>3, <1>5 DEF Right, CacheInv, CachedRight, Uncached
<1>6. ASSUME NEW x \in Request, NEW i \in Id \ Excused', Editing(x, i)', req'[x].pc = "uncache2",
             NEW e \in Email, byKey[e] # NoUser, byKey[e].id = i
      PROVE  byKey[e] = users'[i]
  <2>1. x # t /\ Editing(x, i) /\ req[x].pc = "uncache2" /\ i \notin Excused
    BY <1>1, <1>6
  <2>2. byKey[e] = users[i]
    BY <1>6, <2>1 DEF CacheInv, EditCleans
  <2> QED BY <1>6, <2>1, <2>2 DEF Uncached
<1>7. ASSUME NEW x \in Request, NEW i \in Id \ Excused', Removes(x, i)', req'[x].pc # "uncache1"
      PROVE  /\ \A e \in Email : byKey[e] # NoUser => byKey[e].id # i
             /\ req'[x].pc = "commit" => byId[i] = NoUser
  <2>1. x # t /\ Removes(x, i) /\ req[x].pc = req'[x].pc /\ i \notin Excused
    BY <1>7 DEF Removes, Removing
  <2> QED BY <1>7, <2>1 DEF CacheInv, RemoveCleans
<1> QED BY <1>2, <1>4, <1>5, <1>6, <1>7 DEF CacheInv, CachedRight, EditCleans, RemoveCleans

LEMMA CacheInit == Init => CacheInv
BY DEF Init, CacheInv, CachedRight, EditCleans, RemoveCleans, Idle, At, Editing, Removes, Removing

LEMMA CacheStep ==
  ASSUME TypeInv, Known, CacheInv, [Next]_vars
  PROVE  CacheInv'
<1> USE DEF At
<1>0. req \in Requests
  BY DEF TypeInv, TypeOK, Requests
<1>p. {"put1", "put2", "insert", "write", "password", "fields", "key", "uncache1", "uncache2", "commit",
       "guard"} \subseteq Place
  BY DEF Place
<1>1. ASSUME NEW t \in Request, Quiet(t)  PROVE CacheInv'
  <2>1. \A i \in Id : ~Editing(t, i)
    BY <1>1 DEF Quiet, Editing
  <2> QED BY <1>1, <2>1, CacheFrame DEF Quiet, Excused, cache
<1>2. ASSUME NEW t \in Request, Insert(t)  PROVE CacheInv'
  <2>1. req[t].pc = "insert" /\ UNCHANGED <<cache, raced, orphaned, halved>>
    BY <1>2 DEF Insert
  <2>2. req[t].want \in Maybe /\ t \in Id
    BY <2>1, InHand DEF Suits, Busy, Maybe, Id
  <2>3. Goto(t, "insert", "done") \/ Carry(t, "insert", "put1", req[t].want, "password")
    BY <1>2 DEF Insert
  <2>4. (\A x \in Request \ {t} : req'[x] = req[x]) /\ req'[t].pc \in {"done", "put1"}
    BY <1>0, <1>p, <2>2, <2>3, GotoStep, CarryStep
  <2>5. Uncached(t)
    BY <2>1, <2>2 DEF Known, Past, Creates, Caches, Uncached
  <2>6. \A i \in Id : users'[i] = users[i] \/ i = t
    BY <1>2 DEF Insert, TypeInv, TypeOK
  <2> QED BY <2>1, <2>4, <2>5, <2>6, CacheFrame DEF Excused, Editing
<1>3. ASSUME NEW t \in Request, AddPassword(t)  PROVE CacheInv'
  <2>1. Goto(t, "password", "done") /\ UNCHANGED <<users, cache>> /\ Excused \subseteq Excused'
    BY <1>3 DEF AddPassword, Excused
  <2>2. (\A x \in Request \ {t} : req'[x] = req[x]) /\ req[t].pc = "password" /\ req'[t].pc = "done"
    BY <1>0, <1>p, <2>1, GotoStep
  <2> QED BY <2>1, <2>2, CacheFrame DEF Editing
<1>4. ASSUME NEW t \in Request, Write(t)  PROVE CacheInv'
  <2>1. req[t].pc = "write" /\ UNCHANGED cache
    BY <1>4 DEF Write
  <2>2. req[t].who \in Maybe /\ req[t].who.id \in Id
    BY <2>1, InHand, UserFields DEF Suits, Busy, Maybe
  <2>3. Goto(t, "write", "done") \/ Carry(t, "write", "put1", req[t].who, "done")
    BY <1>4 DEF Write
  <2>4. (\A x \in Request \ {t} : req'[x] = req[x]) /\ req'[t].pc \in {"done", "put1"}
    BY <1>0, <1>p, <2>2, <2>3, GotoStep, CarryStep
  <2>5. Excused \subseteq Excused' /\ \A i \in Id : users'[i] = users[i] \/ i \in Excused'
    BY <1>4, <2>2 DEF Write, Excused, Outdated, TypeInv, TypeOK
  <2> QED BY <2>1, <2>4, <2>5, CacheFrame DEF Editing
<1>5. ASSUME NEW t \in Request, UpdateFields(t)  PROVE CacheInv'
  <2>1. req[t].pc = "fields" /\ UNCHANGED cache
    BY <1>5 DEF UpdateFields
  <2>2. req[t].kind = "edit" /\ req[t].want.id = req[t].target /\ req[t].target \in Id
    BY <2>1, InHand DEF Suits, Busy
  <2>3. PICK q \in {"key", "uncache1", "done"} : Goto(t, "fields", q) /\ (q = "done" => UNCHANGED users)
    BY <1>5 DEF UpdateFields
  <2>4. /\ \A x \in Request \ {t} : req'[x] = req[x]
        /\ req'[t].pc = q
        /\ q # "done" => req'[t].kind = "edit" /\ req'[t].target = req[t].target
    BY <1>0, <1>p, <2>2, <2>3, GotoStep
  <2>5. q # "done" => Editing(t, req[t].target)'
    BY <2>3, <2>4 DEF Editing
  <2>6. Excused \subseteq Excused' /\ \A i \in Id : \/ users'[i] = users[i] \/ i \in Excused'
                                                    \/ i = req[t].target /\ \A x \in Request \ {t} : ~Editing(x, i)
    BY <1>5, <2>2 DEF UpdateFields, Excused, Outdated, TypeInv, TypeOK
  <2>7. \A i \in Id : ~Editing(t, i)
    BY <2>1 DEF Editing
  <2> QED BY <2>1, <2>3, <2>4, <2>5, <2>6, <2>7, CacheFrame
<1>6. ASSUME NEW t \in Request, UpdateKey(t)  PROVE CacheInv'
  <2>1. req[t].pc = "key" /\ UNCHANGED <<users, cache>>
    BY <1>6 DEF UpdateKey
  <2>2. PICK q \in {"uncache1", "done"} : Goto(t, "key", q) /\ (q = "done" => req[t].target \in Excused')
    BY <1>6 DEF UpdateKey, Excused
  <2>3. /\ \A x \in Request \ {t} : req'[x] = req[x]
        /\ req'[t].pc = q
        /\ q # "done" => req'[t].kind = req[t].kind /\ req'[t].target = req[t].target
    BY <1>0, <1>p, <2>2, GotoStep
  <2>4. \A i \in Id : Editing(t, i) => Editing(t, i)' \/ i \in Excused'
    BY <2>2, <2>3 DEF Editing
  <2>5. Excused \subseteq Excused'
    BY <1>6 DEF UpdateKey, Excused
  <2> QED BY <2>1, <2>2, <2>3, <2>4, <2>5, CacheFrame
<1>7. ASSUME NEW t \in Request, Commit(t)  PROVE CacheInv'
  <2>1. Goto(t, "commit", "done") /\ UNCHANGED cache /\ Excused \subseteq Excused' /\ req[t].pc = "commit"
    BY <1>7 DEF Commit, Excused, Goto
  <2>2. Removes(t, req[t].target) /\ req[t].target \in Id
    BY <2>1, InHand DEF Suits, Busy, Removes, Removing
  <2>3. (\A x \in Request \ {t} : req'[x] = req[x]) /\ req'[t].pc = "done"
    BY <1>0, <1>p, <2>1, GotoStep
  <2>4. req[t].target \in Excused \/ Uncached(req[t].target)
    BY <2>1, <2>2 DEF CacheInv, RemoveCleans, Uncached
  <2>5. \A i \in Id : users'[i] = users[i] \/ i = req[t].target
    BY <1>7, <2>2 DEF Commit, TypeInv, TypeOK
  <2> QED BY <2>1, <2>3, <2>4, <2>5, CacheFrame DEF Editing
<1>8. ASSUME NEW t \in Request, CacheById(t) \/ CacheByKey(t)  PROVE CacheInv'
  <2> DEFINE u == req[t].who
  <2>1. /\ req[t].pc \in {"put1", "put2"} /\ raced' = raced \cup Late(u)
        /\ UNCHANGED <<tables, orphaned, halved>>
        /\ \/ byId' = [byId EXCEPT ![u.id] = u] /\ UNCHANGED byKey
           \/ byKey' = [byKey EXCEPT ![u.email] = u] /\ UNCHANGED byId
    BY <1>8 DEF CacheById, CacheByKey, Goto
  <2>2. /\ u \in User /\ u.id \in Id /\ u.email \in Email /\ req[t].next \in {"done", "write", "guard", "password"}
    BY <2>1, InHand, UserFields DEF Busy
  <2>3. PICK q \in {"put2", "done", "write", "guard", "password"} : Goto(t, req[t].pc, q)
    BY <1>8, <2>2 DEF CacheById, CacheByKey, Goto
  <2>4. (\A x \in Request \ {t} : req'[x] = req[x]) /\ req'[t].pc = q
    BY <1>0, <1>p, <2>1, <2>3, GotoStep
  <2> HIDE DEF u
  <2>a. ASSUME NEW x \in Request, NEW i \in Id, Editing(x, i)' \/ Removes(x, i)'
        PROVE  req'[x] = req[x]
    <3>1. x # t
      BY <2>4, <2>a DEF Editing, Removes, Removing
    <3> QED BY <2>4, <3>1
  <2>b. \A x \in Request, i \in Id : Editing(x, i)' => Editing(x, i)
    BY <2>a DEF Editing
  <2>c. \A x \in Request, i \in Id : Removes(x, i)' => Removes(x, i)
    BY <2>a DEF Removes, Removing
  <2>d. ASSUME NEW x \in Request, NEW i, Editing(x, i)
        PROVE  Editing(x, i)'
    <3>1. x # t
      BY <2>1, <2>d DEF Editing
    <3> QED BY <2>4, <2>d, <3>1 DEF Editing
  <2>6. Excused \subseteq Excused' /\ ((u = users[u.id] /\ ~Locked(u.id)) \/ u.id \in Excused')
    BY <2>1 DEF Late, Excused
  <2>7. /\ \A i \in Id : byId'[i] # NoUser => byId'[i] = byId[i] \/ (byId'[i] = u /\ i = u.id)
        /\ \A e \in Email : byKey'[e] # NoUser => byKey'[e] = byKey[e] \/ byKey'[e] = u
    <3>1. byId \in [Id -> Maybe] /\ byKey \in [Email -> Maybe]
      BY DEF TypeInv, TypeOK
    <3>2. CASE byId' = [byId EXCEPT ![u.id] = u] /\ UNCHANGED byKey
      BY <2>2, <3>1, <3>2
    <3>3. CASE byKey' = [byKey EXCEPT ![u.email] = u] /\ UNCHANGED byId
      BY <2>2, <3>1, <3>3
    <3> QED BY <2>1, <3>2, <3>3
  <2>8. \A x \in Request : Removes(x, u.id) => Locked(u.id)
    BY DEF Removes, Locked
  <2>9. users' = users
    BY <2>1 DEF tables
  <2>10. ASSUME NEW v, Right(v), v.id \in Id  PROVE users[v.id] = v \/ v.id \in Excused'
                                                  \/ \E x \in Request : Editing(x, v.id)'
    BY <2>d, <2>6, <2>10 DEF Right
  <2>11. /\ \A i \in Id : byId[i] # NoUser => byId[i].id = i
         /\ \A e \in Email : byKey[e] # NoUser => byKey[e].id \in Id
    BY UserFields DEF TypeInv, TypeOK, Maybe
  <2>12. /\ \A i \in Id : byId'[i] # NoUser => Right(byId[i])'
         /\ \A e \in Email : byKey'[e] # NoUser => Right(byKey[e])'
    BY <2>2, <2>6, <2>7, <2>9, <2>10, <2>11 DEF Right, CacheInv, CachedRight
  <2>13. ASSUME NEW x \in Request, NEW i \in Id \ Excused', Editing(x, i)', req'[x].pc = "uncache2",
                NEW e \in Email, byKey'[e] # NoUser, byKey'[e].id = i
         PROVE  byKey'[e] = users[i]
    <3>1. Editing(x, i) /\ req[x].pc = "uncache2" /\ i \notin Excused
      BY <2>a, <2>b, <2>6, <2>13
    <3> QED BY <2>6, <2>7, <2>13, <3>1 DEF CacheInv, EditCleans
  <2>14. ASSUME NEW x \in Request, NEW i \in Id \ Excused', Removes(x, i)', req'[x].pc # "uncache1"
         PROVE  /\ \A e \in Email : byKey'[e] # NoUser => byKey'[e].id # i
                /\ req'[x].pc = "commit" => byId'[i] = NoUser
    <3>1. Removes(x, i) /\ req[x].pc = req'[x].pc /\ i \notin Excused /\ i # u.id
      BY <2>a, <2>c, <2>6, <2>8, <2>14
    <3> QED BY <2>7, <2>14, <3>1 DEF CacheInv, RemoveCleans
  <2> QED BY <2>9, <2>12, <2>13, <2>14 DEF CacheInv, CachedRight, EditCleans, RemoveCleans
<1>9. ASSUME NEW t \in Request, UncacheByKey(t)  PROVE CacheInv'
  <2> DEFINE i == req[t].target
  <2>1. /\ Goto(t, "uncache1", "uncache2") /\ UNCHANGED <<tables, byId, raced, halved>>
        /\ Excused \subseteq Excused'
        /\ i \in Excused' \/ \A e \in Email : byKey'[e] # NoUser => byKey'[e].id # i
    BY <1>9 DEF UncacheByKey, Excused
  <2>2. \A e \in Email : byKey'[e] = byKey[e] \/ byKey'[e] = NoUser
    BY <1>9 DEF UncacheByKey, TypeInv, TypeOK
  <2>3. /\ \A x \in Request \ {t} : req'[x] = req[x]
        /\ req[t].pc = "uncache1" /\ req'[t].pc = "uncache2"
        /\ req'[t].kind = req[t].kind /\ req'[t].target = i
    BY <1>0, <1>p, <2>1, GotoStep
  <2> HIDE DEF i
  <2>4. ASSUME NEW x \in Request, NEW j, Editing(x, j) \/ Editing(x, j)'
        PROVE  Editing(x, j) /\ Editing(x, j)' /\ (x = t => j = i)
    BY <2>3, <2>4 DEF Editing, i
  <2>5. ASSUME NEW x \in Request, NEW j, Removes(x, j)'
        PROVE  Removes(x, j) /\ (x = t => j = i)
    BY <2>3, <2>5 DEF Removes, Removing, i
  <2>6. users' = users /\ byId' = byId
    BY <2>1 DEF tables
  <2>7. ASSUME NEW v, Right(v)  PROVE users'[v.id] = v \/ v.id \in Excused' \/ \E x \in Request : Editing(x, v.id)'
    BY <2>1, <2>4, <2>6, <2>7 DEF Right
  <2>8. CachedRight'
    BY <2>2, <2>6, <2>7 DEF CacheInv, CachedRight, Right
  <2>9. ASSUME NEW x \in Request, NEW j \in Id \ Excused', Editing(x, j)', req'[x].pc = "uncache2",
               NEW e \in Email, byKey'[e] # NoUser, byKey'[e].id = j
        PROVE  byKey'[e] = users'[j]
    <3>1. x # t
      BY <2>1, <2>4, <2>9
    <3>2. Editing(x, j) /\ req[x].pc = "uncache2" /\ j \notin Excused
      BY <2>1, <2>3, <2>4, <2>9, <3>1
    <3> QED BY <2>2, <2>6, <2>9, <3>2 DEF CacheInv, EditCleans
  <2>10. ASSUME NEW x \in Request, NEW j \in Id \ Excused', Removes(x, j)', req'[x].pc # "uncache1"
         PROVE  /\ \A e \in Email : byKey'[e] # NoUser => byKey'[e].id # j
                /\ req'[x].pc = "commit" => byId'[j] = NoUser
    <3>1. CASE x = t
      BY <2>1, <2>3, <2>5, <2>10, <3>1
    <3>2. CASE x # t
      <4>1. Removes(x, j) /\ req[x].pc = req'[x].pc /\ j \notin Excused
        BY <2>1, <2>3, <2>5, <2>10, <3>2
      <4> QED BY <2>2, <2>6, <2>10, <4>1 DEF CacheInv, RemoveCleans
    <3> QED BY <3>1, <3>2
  <2> QED BY <2>8, <2>9, <2>10 DEF CacheInv, EditCleans, RemoveCleans
<1>10. ASSUME NEW t \in Request, UncacheById(t)  PROVE CacheInv'
  <2> DEFINE i == req[t].target
  <2>1. /\ req[t].pc = "uncache2" /\ UNCHANGED <<tables, byKey, history>> /\ byId' = [byId EXCEPT ![i] = NoUser]
    BY <1>10 DEF UncacheById
  <2>2. i \in Id /\ req[t].kind \in {"edit", "remove"}
    BY <2>1, InHand DEF Suits, Busy
  <2>3. PICK q \in {"commit", "done"} : Goto(t, "uncache2", q) /\ (q = "commit" <=> req[t].kind = "remove")
    BY <1>10 DEF UncacheById
  <2>4. /\ \A x \in Request \ {t} : req'[x] = req[x]
        /\ req'[t].pc = q
        /\ q = "commit" => req'[t].kind = "remove" /\ req'[t].target = i
    BY <1>0, <1>p, <2>3, GotoStep
  <2> HIDE DEF i
  <2>5. /\ \A j \in Id : byId'[j] # NoUser => byId'[j] = byId[j] /\ j # i
        /\ byId'[i] = NoUser
    BY <2>1, <2>2 DEF TypeInv, TypeOK
  <2>6. users' = users /\ byKey' = byKey /\ Excused' = Excused
    BY <2>1 DEF tables, history, Excused
  <2>7. \A x \in Request \ {t}, j \in Id : Editing(x, j)' <=> Editing(x, j)
    BY <2>4 DEF Editing
  <2>8. \A j \in Id : Editing(t, j) <=> (j = i /\ req[t].kind = "edit")
    BY <2>1, <2>2 DEF Editing, i
  <2>9. \A e \in Email : byKey[e] # NoUser => byKey[e].id \in Id
    BY UserFields DEF TypeInv, TypeOK, Maybe
  <2>10. \A j \in Id : byId[j] # NoUser => byId[j].id = j
    BY DEF TypeInv, TypeOK
  <2>11. ASSUME NEW e \in Email, byKey[e] # NoUser  PROVE Right(byKey[e])'
    <3>1. CASE byKey[e].id = i /\ req[t].kind = "edit"
      BY <2>1, <2>2, <2>6, <2>8, <2>11, <3>1 DEF CacheInv, EditCleans, Right
    <3>2. CASE ~(byKey[e].id = i /\ req[t].kind = "edit")
      BY <2>6, <2>7, <2>8, <2>9, <2>11, <3>2 DEF CacheInv, CachedRight, Right
    <3> QED BY <3>1, <3>2
  <2>12. ASSUME NEW j \in Id, byId'[j] # NoUser  PROVE Right(byId[j])'
    <3>1. byId'[j] = byId[j] /\ j # i /\ byId[j].id = j /\ Right(byId[j])
      BY <2>5, <2>10, <2>12 DEF CacheInv, CachedRight
    <3>2. \A x \in Request : Editing(x, j) => Editing(x, j)'
      BY <2>7, <2>8, <3>1
    <3> QED BY <2>6, <3>1, <3>2 DEF Right
  <2>13. ASSUME NEW x \in Request, NEW j \in Id \ Excused, Editing(x, j)', req'[x].pc = "uncache2",
                NEW e \in Email, byKey[e] # NoUser, byKey[e].id = j
         PROVE  byKey[e] = users[j]
    BY <2>4, <2>7, <2>13 DEF CacheInv, EditCleans
  <2>14. ASSUME NEW x \in Request, NEW j \in Id \ Excused, Removes(x, j)', req'[x].pc # "uncache1"
         PROVE  /\ \A e \in Email : byKey[e] # NoUser => byKey[e].id # j
                /\ req'[x].pc = "commit" => byId'[j] = NoUser
    <3>1. CASE x = t
      <4>1. Removes(t, i) /\ j = i
        BY <2>1, <2>3, <2>4, <2>14, <3>1 DEF Removes, Removing, i
      <4> QED BY <2>1, <2>5, <2>14, <4>1 DEF CacheInv, RemoveCleans
    <3>2. CASE x # t
      <4>1. Removes(x, j) /\ req[x].pc = req'[x].pc
        BY <2>4, <2>14, <3>2 DEF Removes, Removing
      <4> QED BY <2>5, <2>14, <4>1 DEF CacheInv, RemoveCleans
    <3> QED BY <3>1, <3>2
  <2> QED BY <2>6, <2>11, <2>12, <2>13, <2>14 DEF CacheInv, CachedRight, EditCleans, RemoveCleans
<1>11. CASE Expire
  <2>1. /\ UNCHANGED <<users, req, raced, orphaned, halved>>
        /\ \A i \in Id : byId'[i] = byId[i] \/ byId'[i] = NoUser
        /\ \A e \in Email : byKey'[e] = byKey[e] \/ byKey'[e] = NoUser
    BY <1>11 DEF Expire, tables, history, TypeInv, TypeOK
  <2> QED BY <2>1 DEF CacheInv, CachedRight, EditCleans, RemoveCleans, Right, Excused, Editing, Removes, Removing
<1>12. CASE UNCHANGED vars
  BY <1>12 DEF vars, tables, cache, history, CacheInv, CachedRight, EditCleans, RemoveCleans, Right, Excused, Editing, Removes, Removing
<1> QED BY <1>1, <1>2, <1>3, <1>4, <1>5, <1>6, <1>7, <1>8, <1>9, <1>10, <1>11, <1>12, QuietStep
        DEF Next, Caching, Changing

\* Unless one of three accidents has happened to it or an edit of it is under way, a
\* cached user is the row, through every interleaving of requests.
THEOREM CachedUsersAreRows == Spec => []CacheIsCurrent
<1>1. TypeInv /\ CacheInv => CacheIsCurrent
  BY DEF TypeInv, TypeOK, CacheInv, CachedRight, CacheIsCurrent, Cached, Right, Excused
<1>2. Spec => []CacheInv
  BY Types, CacheInit, CacheStep, PTL DEF Spec
<1> QED BY Types, <1>1, <1>2, PTL

----------------------------------------------------------------------------
(* The passwords                                                           *)

LEMMA PasswordInit == Init => PasswordInv
<1> SUFFICES ASSUME Init PROVE PasswordInv
  OBVIOUS
<1>1. PICK e \in Email, first \in BOOLEAN :
        /\ users = [i \in Id |-> IF i = Founder /\ ~first
                                 THEN [id |-> i, email |-> e, role |-> "admin"] ELSE NoUser]
        /\ passwords = IF first THEN {} ELSE {e}
  BY DEF Init
<1>2. \A i \in Present : users[i].email = e /\ e \in passwords
  BY <1>1 DEF Present
<1>3. \A x \in Request, i \in Id : ~Moving(x, i)
  BY DEF Init, Moving, At, Idle
<1> QED BY <1>2, <1>3 DEF PasswordInv, HasPassword, Present

\* What a step of t must see to when no password is taken away and it neither begins
\* nor ends a move.
LEMMA PasswordFrame ==
  ASSUME PasswordInv, NEW t \in Request, \A x \in Request \ {t} : req'[x] = req[x],
         req[t].pc # "key", req'[t].pc # "key", Hit \subseteq Hit', passwords \subseteq passwords',
         \A i \in Id : Editing(t, i)' => Editing(t, i),
         Creates(t) => Creates(t)' \/ t \in Hit' \/ users'[t].email \in passwords',
         \A i \in Id : users'[i] # NoUser =>
           \/ users'[i] = users[i]
           \/ i \in Hit'
           \/ i = t /\ Creates(t)' /\ \A x \in Request : ~Moving(x, i)
  PROVE  PasswordInv'
<1> USE DEF At
<1>1. ASSUME NEW x \in Request, NEW i \in Id, Moving(x, i)'  PROVE Moving(x, i) /\ req'[x] = req[x] /\ x # t
  BY <1>1 DEF Moving, Editing
<1>2. ASSUME NEW x \in Request, NEW i \in Id, Moving(x, i)  PROVE Moving(x, i)'
  BY <1>2 DEF Moving, Editing
<1>3. ASSUME NEW y \in Request, NEW i \in Id, Editing(y, i)'  PROVE Editing(y, i)
  BY <1>3 DEF Editing
<1>4. ASSUME NEW i \in Request, Creates(i)  PROVE Creates(i)' \/ i \in Hit' \/ users'[i].email \in passwords'
  BY <1>4 DEF Creates, Caches
<1>5. ASSUME NEW i \in Id, users'[i] # NoUser, i \notin Hit'
      PROVE  HasPassword(i)' /\ \A x \in Request : Moving(x, i)' => MovesAlone(x, i)'
  <2>1. CASE users'[i] = users[i]
    <3>1. i \in Present \ Hit
      BY <1>5, <2>1 DEF Present
    <3>2. HasPassword(i)'
      BY <1>2, <1>4, <1>5, <2>1, <3>1 DEF PasswordInv, HasPassword
    <3>3. ASSUME NEW x \in Request, Moving(x, i)'  PROVE MovesAlone(x, i)'
      <4>1. MovesAlone(x, i) /\ req'[x] = req[x]
        BY <1>1, <3>1, <3>3 DEF PasswordInv
      <4> QED BY <1>3, <1>4, <1>5, <2>1, <4>1 DEF MovesAlone
    <3> QED BY <3>2, <3>3
  <2>2. CASE i = t /\ Creates(t)' /\ \A x \in Request : ~Moving(x, i)
    BY <1>1, <1>5, <2>2 DEF HasPassword
  <2> QED BY <1>5, <2>1, <2>2
<1> QED BY <1>5 DEF PasswordInv, Present

\* A password is taken away from other users than the one it is moved or deleted for
\* only if they are victims.
LEMMA PasswordTaken ==
  ASSUME TypeInv, PasswordInv, NEW t \in Request, \A x \in Request \ {t} : req'[x] = req[x],
         NEW i \in Id, \A j \in Id : j # i => users'[j] = users[j],
         req[t].target = i, req'[t].pc \in {"uncache1", "done"}, req[t].pc \in {"key", "commit"},
         req'[t].pc # "done" => req'[t].target = i,
         Hit \subseteq Hit', passwords \subseteq passwords' \/ 
           (passwords \ {req[t].who.email} \subseteq passwords' /\ Victims(t) \subseteq Hit'),
         NEW j \in Id, j # i, users[j] # NoUser, j \notin Hit'
  PROVE  HasPassword(j)' /\ \A x \in Request : Moving(x, j)' => MovesAlone(x, j)'
<1> USE DEF At
<1>1. j \in Present \ Hit /\ users'[j] = users[j]
  BY DEF Present
<1>2. ASSUME NEW x \in Request, Moving(x, j) \/ Moving(x, j)'
      PROVE  Moving(x, j) /\ Moving(x, j)' /\ req'[x] = req[x] /\ x # t
  BY <1>2 DEF Moving, Editing
<1>3. ASSUME NEW y \in Request, Editing(y, j)'  PROVE Editing(y, j)
  BY <1>3 DEF Editing
<1>4. ASSUME NEW k \in Request, Creates(k)  PROVE Creates(k)'
  BY <1>4 DEF Creates, Caches
<1>5. users[j].email \in passwords => users'[j].email \in passwords'
  BY <1>1 DEF Victims
<1>6. ASSUME NEW x \in Request, Moving(x, j), req[x].who.email \in passwords
      PROVE  req[x].who.email \in passwords'
  BY <1>1, <1>2, <1>6 DEF Victims, Moving
<1>7. HasPassword(j)'
  BY <1>1, <1>2, <1>4, <1>5 DEF PasswordInv, HasPassword
<1>8. ASSUME NEW x \in Request, Moving(x, j)'  PROVE MovesAlone(x, j)'
  <2>1. Moving(x, j) /\ MovesAlone(x, j) /\ req'[x] = req[x]
    BY <1>1, <1>2, <1>8 DEF PasswordInv
  <2> QED BY <1>1, <1>3, <1>4, <1>5, <1>6, <2>1 DEF MovesAlone
<1> QED BY <1>7, <1>8

LEMMA PasswordStep ==
  ASSUME TypeInv, Known, PasswordInv, [Next]_vars
  PROVE  PasswordInv'
<1> USE DEF At
<1>0. req \in Requests
  BY DEF TypeInv, TypeOK, Requests
<1>p. {"put1", "put2", "insert", "write", "password", "fields", "key", "uncache1", "uncache2", "commit",
       "guard"} \subseteq Place
  BY DEF Place
<1>1. ASSUME NEW t \in Request, Quiet(t)  PROVE PasswordInv'
  <2>1. req[t].pc # "key" /\ req'[t].pc # "key" /\ ~Creates(t)
    BY <1>1 DEF Quiet, Creates, Caches
  <2>2. \A i \in Id : ~(Editing(t, i)')
    BY <1>1 DEF Quiet, Editing
  <2> QED BY <1>1, <2>1, <2>2, PasswordFrame DEF Quiet, Hit
<1>2. ASSUME NEW t \in Request, CacheById(t) \/ CacheByKey(t)  PROVE PasswordInv'
  <2>1. UNCHANGED tables /\ Hit \subseteq Hit' /\ req[t].pc \in {"put1", "put2"}
    BY <1>2 DEF CacheById, CacheByKey, Goto, Hit
  <2>2. req[t].next \in {"done", "write", "guard", "password"}
    BY <2>1, InHand DEF Busy
  <2>3. PICK q \in {"put2", "done", "write", "guard", "password"} :
          Goto(t, req[t].pc, q) /\ (q = "put2" \/ q = req[t].next)
    BY <1>2, <2>2 DEF CacheById, CacheByKey, Goto
  <2>4. /\ \A x \in Request \ {t} : req'[x] = req[x]
        /\ req'[t].pc = q /\ (q # "done" => req'[t].next = req[t].next)
    BY <1>0, <1>p, <2>1, <2>3, GotoStep
  <2>5. \A i \in Id : ~(Editing(t, i)')
    BY <2>4 DEF Editing
  <2>6. Creates(t) => Creates(t)'
    BY <2>1, <2>3, <2>4 DEF Creates, Caches
  <2> QED BY <2>1, <2>4, <2>5, <2>6, PasswordFrame DEF tables
<1>3. ASSUME NEW t \in Request, UncacheByKey(t) \/ UncacheById(t)  PROVE PasswordInv'
  <2>1. PICK p \in {"uncache1", "uncache2"}, q \in {"uncache2", "commit", "done"} : Goto(t, p, q)
    BY <1>3 DEF UncacheByKey, UncacheById
  <2>2. UNCHANGED <<tables, raced, halved>>
    BY <1>3 DEF UncacheByKey, UncacheById, history
  <2>3. /\ \A x \in Request \ {t} : req'[x] = req[x]
        /\ req[t].pc = p /\ req'[t].pc = q
        /\ q # "done" => req'[t].kind = req[t].kind /\ req'[t].target = req[t].target
    BY <1>0, <1>p, <2>1, GotoStep
  <2>4. \A i \in Id : Editing(t, i)' => Editing(t, i)
    BY <2>3 DEF Editing
  <2>5. ~Creates(t)
    BY <2>3 DEF Creates, Caches
  <2> QED BY <2>2, <2>3, <2>4, <2>5, PasswordFrame DEF tables, Hit
<1>4. ASSUME NEW t \in Request, Insert(t)  PROVE PasswordInv'
  <2>1. req[t].pc = "insert" /\ UNCHANGED <<passwords, cache, raced, orphaned, halved>>
    BY <1>4 DEF Insert
  <2>2. req[t].want \in Maybe /\ t \in Id
    BY <2>1, InHand DEF Suits, Busy, Maybe, Id
  <2>3. \/ Goto(t, "insert", "done") /\ UNCHANGED users
        \/ Carry(t, "insert", "put1", req[t].want, "password") /\ users' = [users EXCEPT ![t] = req[t].want]
    BY <1>4 DEF Insert
  <2>4. /\ \A x \in Request \ {t} : req'[x] = req[x]
        /\ (req'[t].pc = "done" /\ UNCHANGED users) \/ Creates(t)'
        /\ req'[t].pc \in {"done", "put1"}
    BY <1>0, <1>p, <2>2, <2>3, GotoStep, CarryStep DEF Creates, Caches
  <2>5. ~Past(t)
    BY <2>1 DEF Past, Creates, Caches
  <2>6. ASSUME NEW x \in Request, Moving(x, t)  PROVE FALSE
    <3>1. req[x].pc = "key" /\ req[x].kind = "edit" /\ req[x].target = t
      BY <2>6 DEF Moving, Editing
    <3>2. req[x].who # NoUser /\ req[x].who.id = t
      BY <3>1, InHand DEF Suits, Busy
    <3> QED BY <2>5, <3>1, <3>2 DEF Known, Busy
  <2>7. \A i \in Id : users'[i] = users[i] \/ i = t
    BY <2>3 DEF TypeInv, TypeOK
  <2>8. \A i \in Id : ~(Editing(t, i)')
    BY <2>4 DEF Editing
  <2>9. ~Creates(t)
    BY <2>1 DEF Creates, Caches
  <2>10. Hit' = Hit
    BY <2>1 DEF Hit
  <2> QED BY <2>1, <2>4, <2>6, <2>7, <2>8, <2>9, <2>10, PasswordFrame
<1>5. ASSUME NEW t \in Request, AddPassword(t)  PROVE PasswordInv'
  <2>1. Goto(t, "password", "done") /\ UNCHANGED users /\ Hit \subseteq Hit' /\ passwords \subseteq passwords'
        /\ (users[t].email \in passwords' \/ t \in Hit')
    BY <1>5 DEF AddPassword, Hit
  <2>2. (\A x \in Request \ {t} : req'[x] = req[x]) /\ req[t].pc = "password" /\ req'[t].pc = "done"
    BY <1>0, <1>p, <2>1, GotoStep
  <2>3. \A i \in Id : ~(Editing(t, i)')
    BY <2>2 DEF Editing
  <2> QED BY <2>1, <2>2, <2>3, PasswordFrame
<1>6. ASSUME NEW t \in Request, Write(t)  PROVE PasswordInv'
  <2>1. req[t].pc = "write" /\ UNCHANGED passwords
    BY <1>6 DEF Write
  <2>2. req[t].who \in Maybe /\ req[t].who.id \in Id
    BY <2>1, InHand, UserFields DEF Suits, Busy, Maybe
  <2>3. Goto(t, "write", "done") \/ Carry(t, "write", "put1", req[t].who, "done")
    BY <1>6 DEF Write
  <2>4. (\A x \in Request \ {t} : req'[x] = req[x]) /\ req'[t].pc \in {"done", "put1"}
    BY <1>0, <1>p, <2>2, <2>3, GotoStep, CarryStep
  <2>5. Hit \subseteq Hit' /\ \A i \in Id : users'[i] = users[i] \/ i \in Hit'
    BY <1>6, <2>2 DEF Write, Hit, Outdated, TypeInv, TypeOK
  <2>6. ~Creates(t) /\ \A i \in Id : ~(Editing(t, i)')
    BY <2>1, <2>4 DEF Creates, Caches, Editing
  <2> QED BY <2>1, <2>4, <2>5, <2>6, PasswordFrame
<1>7. ASSUME NEW t \in Request, UpdateFields(t)  PROVE PasswordInv'
  <2>1. req[t].pc = "fields" /\ UNCHANGED <<passwords, halved>>
    BY <1>7 DEF UpdateFields
  <2>2. PICK i \in Id : /\ i = req[t].target
                       /\ req[t].kind = "edit" /\ req[t].want.id = i /\ req[t].who # NoUser
                       /\ req[t].want \in User
    BY <2>1, InHand DEF Suits, Busy
  <2>3. CASE Goto(t, "fields", "done") /\ UNCHANGED <<users, raced>>
    <3>1. (\A x \in Request \ {t} : req'[x] = req[x]) /\ req'[t].pc = "done"
      BY <1>0, <1>p, <2>3, GotoStep
    <3>2. ~Creates(t) /\ \A j \in Id : ~(Editing(t, j)')
      BY <2>1, <3>1 DEF Creates, Caches, Editing
    <3> QED BY <2>1, <2>3, <3>1, <3>2, PasswordFrame DEF Hit
  <2>4. ASSUME NEW q \in {"key", "uncache1"}, Goto(t, "fields", q),
               q = "key" <=> req[t].want.email # req[t].who.email,
               \/ users[i] # NoUser /\ users' = [users EXCEPT ![i] = req[t].want] /\ raced' = raced \cup Outdated(t, i)
               \/ users[i] = NoUser /\ UNCHANGED <<users, raced>>
        PROVE  PasswordInv'
    <3>1. /\ \A x \in Request \ {t} : req'[x] = req[x]
          /\ req'[t].pc = q /\ req'[t].kind = "edit" /\ req'[t].target = i
          /\ req'[t].want = req[t].want /\ req'[t].who = req[t].who
      BY <1>0, <1>p, <2>2, <2>4, GotoStep
    <3>2. Hit \subseteq Hit' /\ \A j \in Id : j # i => users'[j] = users[j]
      BY <2>1, <2>4 DEF Hit, TypeInv, TypeOK
    <3>3. ASSUME NEW k \in Request, Creates(k)  PROVE Creates(k)'
      BY <2>1, <3>1, <3>3 DEF Creates, Caches
    <3>4. ASSUME NEW j \in Id, j # i, users[j] # NoUser, j \notin Hit'
          PROVE  HasPassword(j)' /\ \A x \in Request : Moving(x, j)' => MovesAlone(x, j)'
      <4>1. j \in Present \ Hit /\ users'[j] = users[j]
        BY <3>2, <3>4 DEF Present
      <4>2. ASSUME NEW x \in Request, Moving(x, j) \/ Moving(x, j)'
            PROVE  Moving(x, j) /\ Moving(x, j)' /\ req'[x] = req[x]
        BY <2>1, <3>1, <3>4, <4>2 DEF Moving, Editing
      <4>3. ASSUME NEW y \in Request, Editing(y, j)'  PROVE Editing(y, j)
        BY <3>1, <3>4, <4>3 DEF Editing
      <4>4. HasPassword(j)'
        BY <2>1, <3>3, <4>1, <4>2 DEF PasswordInv, HasPassword
      <4>5. ASSUME NEW x \in Request, Moving(x, j)'  PROVE MovesAlone(x, j)'
        <5>1. MovesAlone(x, j) /\ req'[x] = req[x]
          BY <4>1, <4>2, <4>5 DEF PasswordInv
        <5> QED BY <2>1, <3>3, <4>1, <4>3, <5>1 DEF MovesAlone
      <4> QED BY <4>4, <4>5
    <3>5. ASSUME users'[i] # NoUser, i \notin Hit'
          PROVE  HasPassword(i)' /\ \A x \in Request : Moving(x, i)' => MovesAlone(x, i)'
      <4>1. users[i] # NoUser /\ users'[i] = req[t].want /\ i \in Present \ Hit
        BY <2>2, <2>4, <3>2, <3>5 DEF Present, TypeInv, TypeOK
      <4>2. users[i] = req[t].who /\ \A x \in Request \ {t} : ~Editing(x, i)
        BY <2>4, <3>5, <4>1 DEF Outdated, Hit
      <4>3. \A x \in Request : ~Moving(x, i)
        BY <2>1, <4>2 DEF Moving
      <4>4. req[t].who.email \in passwords \/ (i \in Request /\ Creates(i)')
        BY <3>3, <4>1, <4>2, <4>3 DEF PasswordInv, HasPassword
      <4>5. ASSUME NEW y \in Request, Editing(y, i)'  PROVE y = t
        BY <3>1, <4>2, <4>5 DEF Editing
      <4>6. q = "key" => Moving(t, i)'
        BY <3>1 DEF Moving, Editing
      <4>7. HasPassword(i)'
        BY <2>1, <2>4, <4>1, <4>4, <4>6 DEF HasPassword
      <4>8. ASSUME NEW x \in Request, Moving(x, i)'  PROVE MovesAlone(x, i)'
        <5>1. x = t
          BY <4>5, <4>8 DEF Moving
        <5> QED BY <2>1, <3>1, <4>1, <4>4, <4>5, <5>1 DEF MovesAlone
      <4> QED BY <4>7, <4>8
    <3> QED BY <3>2, <3>4, <3>5 DEF PasswordInv, Present
  <2> QED BY <1>7, <2>2, <2>3, <2>4 DEF UpdateFields, Present
<1>8. ASSUME NEW t \in Request, UpdateKey(t)  PROVE PasswordInv'
  <2>1. req[t].pc = "key" /\ UNCHANGED users
    BY <1>8 DEF UpdateKey
  <2>2. PICK i \in Id : i = req[t].target /\ req[t].kind = "edit"
    BY <2>1, InHand DEF Suits, Busy
  <2>3. PICK q \in {"uncache1", "done"} :
          /\ Goto(t, "key", q)
          /\ q = "done" => i \in Hit' /\ UNCHANGED <<passwords, raced>> /\ halved \subseteq halved'
          /\ q = "uncache1" =>
               /\ passwords' = IF req[t].who.email \in passwords
                               THEN (passwords \ {req[t].who.email}) \cup {req[t].want.email} ELSE passwords
               /\ raced' = raced \cup Victims(t) /\ UNCHANGED halved
    BY <1>8, <2>2 DEF UpdateKey, Hit
  <2>4. /\ \A x \in Request \ {t} : req'[x] = req[x]
        /\ req'[t].pc = q
        /\ q # "done" => req'[t].kind = "edit" /\ req'[t].target = i
    BY <1>0, <1>p, <2>2, <2>3, GotoStep
  <2>5. /\ Hit \subseteq Hit'
        /\ passwords \subseteq passwords' \/
             (passwords \ {req[t].who.email} \subseteq passwords' /\ Victims(t) \subseteq Hit')
    BY <2>3 DEF Hit
  <2>6. ASSUME NEW j \in Id, j # i, users[j] # NoUser, j \notin Hit'
        PROVE  HasPassword(j)' /\ \A x \in Request : Moving(x, j)' => MovesAlone(x, j)'
    <3>1. \A k \in Id : k # i => users'[k] = users[k]
      BY <2>1
    <3> QED BY <2>1, <2>2, <2>4, <2>5, <2>6, <3>1, PasswordTaken
  <2>7. ASSUME users[i] # NoUser, i \notin Hit'
        PROVE  HasPassword(i)' /\ \A x \in Request : ~(Moving(x, i)')
    <3>1. q = "uncache1" /\ i \in Present \ Hit
      BY <2>3, <2>5, <2>7 DEF Present
    <3>2. Moving(t, i)
      BY <2>1, <2>2 DEF Moving, Editing
    <3>3. MovesAlone(t, i)
      BY <3>1, <3>2 DEF PasswordInv
    <3>4. i \in Request /\ Creates(i) => Creates(i)'
      BY <2>1, <2>4 DEF Creates, Caches
    <3>5. ASSUME NEW x \in Request, Moving(x, i)'  PROVE FALSE
      <4>1. x # t
        BY <2>4, <3>1, <3>5 DEF Moving
      <4>2. Editing(x, i)
        BY <2>4, <3>5, <4>1 DEF Moving, Editing
      <4> QED BY <3>3, <4>1, <4>2 DEF MovesAlone
    <3>6. users'[i].email \in passwords' \/ (i \in Request /\ Creates(i)')
      BY <2>1, <2>3, <3>1, <3>3, <3>4 DEF MovesAlone
    <3> QED BY <3>5, <3>6 DEF HasPassword
  <2> QED BY <2>1, <2>6, <2>7 DEF PasswordInv, Present
<1>9. ASSUME NEW t \in Request, Commit(t)  PROVE PasswordInv'
  <2>1. /\ Goto(t, "commit", "done") /\ req[t].pc = "commit" /\ UNCHANGED halved
        /\ users' = [users EXCEPT ![req[t].target] = NoUser]
    BY <1>9 DEF Commit, Goto
  <2>2. PICK i \in Id : i = req[t].target
    BY <2>1, InHand DEF Busy
  <2>3. (\A x \in Request \ {t} : req'[x] = req[x]) /\ req'[t].pc = "done"
    BY <1>0, <1>p, <2>1, GotoStep
  <2>4. /\ Hit \subseteq Hit'
        /\ passwords \subseteq passwords' \/
             (passwords \ {req[t].who.email} \subseteq passwords' /\ Victims(t) \subseteq Hit')
    BY <1>9 DEF Commit, Hit
  <2>5. users'[i] = NoUser /\ \A j \in Id : j # i => users'[j] = users[j]
    BY <2>1, <2>2 DEF TypeInv, TypeOK
  <2>6. ASSUME NEW j \in Id, j # i, users[j] # NoUser, j \notin Hit'
        PROVE  HasPassword(j)' /\ \A x \in Request : Moving(x, j)' => MovesAlone(x, j)'
    BY <2>1, <2>2, <2>3, <2>4, <2>5, <2>6, PasswordTaken
  <2> QED BY <2>5, <2>6 DEF PasswordInv, Present
<1>10. CASE Expire \/ UNCHANGED vars
  <2>1. UNCHANGED <<users, passwords, req, raced, halved>>
    BY <1>10 DEF Expire, vars, tables, history
  <2> QED BY <2>1 DEF PasswordInv, Present, Hit, HasPassword, MovesAlone, Moving, Editing, Creates, Caches
<1> QED BY <1>1, <1>2, <1>3, <1>4, <1>5, <1>6, <1>7, <1>8, <1>9, <1>10, QuietStep
        DEF Next, Caching, Changing

\* A user who was neither hit by an overtaken request nor by one that failed half way,
\* and is not being created or edited, has a password under the address in the row.
THEOREM UsersKeepTheirPasswords == Spec => []PasswordFollowsEmail
<1>1. TypeInv /\ PasswordInv => PasswordFollowsEmail
  BY DEF PasswordInv, PasswordFollowsEmail, HasPassword, Hit, Moving, Creates, Caches
<1>2. Spec => []PasswordInv
  BY Types, PasswordInit, PasswordStep, PTL DEF Spec
<1> QED BY Types, <1>1, <1>2, PTL
=============================================================================
