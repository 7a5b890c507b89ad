------------------------ MODULE TransactionalStore -------------------------
(***************************************************************************)
(* What a user may rely on when statements run in transactions, with no    *)
(* client, actor, thread or connection in sight: a statement run on its    *)
(* own takes effect at once; the statements of a transaction take effect   *)
(* together when it commits, or never; what has taken effect stays; and a  *)
(* transaction that has ended does nothing more.                           *)
(***************************************************************************)
CONSTANTS
  Tx, Run,
  NoOwner,   \* the owner of a statement that has not been accepted yet
  Alone      \* the owner of a statement that runs outside a transaction

VARIABLES
  phase,   \* phase[t]
  owner,   \* owner[r]: the transaction r was accepted in, or Alone
  work,    \* work[t]: statements done in an open transaction
  store    \* statements that have taken effect

storeVars == <<phase, owner, work, store>>

StoreInit == /\ phase = [t \in Tx |-> "unused"]
             /\ owner = [r \in Run |-> NoOwner]
             /\ work = [t \in Tx |-> {}]
             /\ store = {}

Open(t) == /\ phase[t] = "unused"
           /\ phase' = [phase EXCEPT ![t] = "open"]
           /\ UNCHANGED <<owner, work, store>>

Accept(r, o) == /\ owner[r] = NoOwner
                /\ o = Alone \/ (o \in Tx /\ phase[o] = "open")
                /\ owner' = [owner EXCEPT ![r] = o]
                /\ UNCHANGED <<phase, work, store>>

Do(t, r) == /\ phase[t] = "open" /\ owner[r] = t
            /\ work' = [work EXCEPT ![t] = @ \cup {r}]
            /\ UNCHANGED <<phase, owner, store>>

DoAlone(r) == /\ owner[r] = Alone
              /\ store' = store \cup {r}
              /\ UNCHANGED <<phase, owner, work>>

CommitAll(t) == /\ phase[t] = "open"
                /\ phase' = [phase EXCEPT ![t] = "committed"]
                /\ store' = store \cup work[t]
                /\ work' = [work EXCEPT ![t] = {}]
                /\ UNCHANGED owner

Abandon(t) == /\ phase[t] = "open"
              /\ phase' = [phase EXCEPT ![t] = "rolledback"]
              /\ work' = [work EXCEPT ![t] = {}]
              /\ UNCHANGED <<owner, store>>

StoreNext == \/ \E t \in Tx : Open(t) \/ CommitAll(t) \/ Abandon(t)
             \/ \E r \in Run : DoAlone(r) \/ \E o \in Tx \cup {Alone} : Accept(r, o)
             \/ \E t \in Tx, r \in Run : Do(t, r)

StoreSpec == StoreInit /\ [][StoreNext]_storeVars

-----------------------------------------------------------------------------
(* What it comes to                                                        *)

\* What has taken effect was accepted outside of a transaction, or in one that has
\* committed; the work in hand is of open transactions, and was accepted in them.
EffectsAreWhole ==
  /\ \A r \in store : owner[r] = Alone \/ (owner[r] \in Tx /\ phase[owner[r]] = "committed")
  /\ \A t \in Tx : \A r \in work[t] : phase[t] = "open" /\ owner[r] = t

\* A step never takes an effect back nor reopens a transaction or moves a statement to
\* another; what takes effect of a transaction does so in the step that commits it, and
\* then all of its work does.
StepIsWhole ==
  /\ store \subseteq store'
  /\ \A r \in Run : owner[r] # NoOwner => owner'[r] = owner[r]
  /\ \A t \in Tx : phase[t] \in {"committed", "rolledback"} => phase'[t] = phase[t]
  /\ \A t \in Tx : phase[t] = "open" /\ phase'[t] = "committed" => work[t] \subseteq store'
  /\ \A r \in store' \ store :
       \/ owner[r] = Alone
       \/ owner[r] \in Tx /\ phase[owner[r]] = "open" /\ phase'[owner[r]] = "committed"
============================================================================
