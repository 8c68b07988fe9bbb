--------------------------- MODULE TenancyProofs ---------------------------
(***************************************************************************)
(* Theorems about Tenancy, for any users, keys, requests and workers:       *)
(* TypeOK, OwnerRemains, WritesWhileActive and RotatedOnce are invariant.   *)
(*                                                                         *)
(* What carries them is that row locks exclude one another (Exclusive), and *)
(* what each transaction has locked by the time it is where it is (the      *)
(* ...Held parts).                                                         *)
(***************************************************************************)
EXTENDS Tenancy, FiniteSetTheorems, TLAPS

RequestPlaces ==
  {"idle", "look", "use", "guard", "push", "create", "revoke", "hit",
   "rotate", "owners", "count", "leave", "find", "keys", "done"}
WorkerPlaces == {"idle", "load", "lock", "row", "find", "keys", "drop", "done"}

\* Where a transaction can be, and for which requests.
Placed ==
  /\ \A w \in Workers : pc[w] \in WorkerPlaces
  /\ \A r \in Requests :
       /\ pc[r] \in RequestPlaces
       /\ pc[r] # "idle" => req[r] \in Asks
       /\ pc[r] = "guard" => req[r].kind # "delete"
       /\ pc[r] \in {"push", "create", "revoke", "rotate"} =>
            req[r].kind = pc[r]
       /\ pc[r] = "hit" => req[r].kind = "revoke"
       /\ pc[r] \in {"owners", "count", "leave", "find", "keys"} =>
            req[r].kind = "delete"

\* Row locks that two transactions hold do not conflict.
Exclusive ==
  \A p, q \in Transactions : p # q =>
    \A h \in held[p], g \in held[q] : ~(h[1] = g[1] /\ h[2] + g[2] > 4)

\* The key of a request is one that was made, and is locked once it is used.
Past(r) == pc[r] \notin {"idle", "look", "use"}
KeyHeld ==
  \A r \in Requests :
    /\ pc[r] \notin {"idle", "look"} => keys[req[r].key] # "unused"
    /\ Past(r) => status # "gone" /\ <<req[r].key, Writing>> \in held[r]

\* A write holds the tenant it has found active.
GuardHeld ==
  \A r \in Requests :
    PastGuard(r) => status = "active" /\ <<"tenant", Share>> \in held[r]

\* A purge holds the tenant, and in the end all its keys.
PurgeHeld ==
  \A w \in Workers :
    /\ pc[w] \in {"find", "keys", "drop", "done"} =>
         <<"tenant", ForUpdate>> \in held[w]
    /\ pc[w] = "done" => Keys \X {ForUpdate} \subseteq held[w]

\* What each key is agrees with whose it is and what it was rotated into.
KeysAgree ==
  \A k \in Keys :
    /\ keys[k] # "unused" => userOf[k] \in Users
    /\ heirs[k] # {} => keys[k] = "revoked"
    /\ heirs[k] = {} \/ \E j \in Keys : heirs[k] = {j}

\* Keys being made are new, and each transaction's own.
NewKeys ==
  /\ \A t \in Transactions : \A k \in new[t] : keys[k] = "unused"
  /\ \A t, q \in Transactions : t # q => new[t] \cap new[q] = {}

\* Keys being revoked are ones that were made, and locked.
CutHeld ==
  /\ \A r \in Requests : pc[r] = "hit" => keys[req[r].target] # "unused"
  /\ \A t \in Transactions : \A k \in cut[t] :
       /\ keys[k] # "unused"
       /\ <<k, Writing>> \in held[t] \/ <<k, ForUpdate>> \in held[t]

\* A key being rotated is locked, and still active.
RotateHeld ==
  \A r \in Requests :
    pc[r] = "done" /\ req[r].kind = "rotate" =>
      /\ keys[req[r].target] = "active"
      /\ <<req[r].target, ForUpdate>> \in held[r]
      /\ cut[r] = {req[r].target}
      /\ \E k \in Keys : new[r] = {k}

\* An owner who is leaving holds the tenant, and another owner stays.
Leaves(r) == req[r].kind = "delete" /\ User(r) \in Owners
OwnerHeld ==
  \A r \in Requests : Leaves(r) =>
    /\ pc[r] \in {"count", "leave", "find", "keys", "done"} =>
         <<"tenant", ForUpdate>> \in held[r]
    /\ pc[r] \in {"leave", "find", "keys", "done"} =>
         \E o \in Owners \ removed : o # User(r)

IInv ==
  /\ TypeOK /\ Placed /\ Exclusive /\ KeyHeld /\ GuardHeld /\ PurgeHeld
  /\ KeysAgree /\ NewKeys /\ CutHeld /\ RotateHeld /\ OwnerHeld
  /\ OwnerRemains

-----------------------------------------------------------------------------
(* What a step changes *)

Same(t) ==
  /\ pc'[t] = pc[t] /\ held'[t] = held[t] /\ todo'[t] = todo[t]
  /\ cut'[t] = cut[t] /\ new'[t] = new[t]
  /\ t \in Requests => req'[t] = req[t]

\* A step leaves alone every request that does not take it.
LEMMA OtherRequest ==
  ASSUME TypeOK, Next, NEW r \in Requests
  PROVE  RequestStep(r) \/ Same(r)
<1> USE TenancyAssumption DEF TypeOK, Transactions, Same
<1>1. ASSUME NEW q \in Requests, RequestStep(q), q # r
      PROVE  Same(r)
  BY <1>1 DEF RequestStep, Send, LookUp, Use, GuardLock, Guard, Push, Create,
     FindKey, Revoke, Rotate, LockTenant, CountOwners, Leave, FindKeys,
     RevokeAll, Commit, Abort, Discard, Release, Goto, Lock, data
<1>2. ASSUME NEW w \in Workers, WorkerStep(w)
      PROVE  Same(r)
  BY <1>2 DEF WorkerStep, List, Load, TryTenant, LockRow, FindKeys, RevokeAll,
     Drop, CommitPurge, ExpireTombstone, Abort, Discard, Release, Goto, Lock,
     data, work
<1>3. ASSUME Schedule \/ Cancel \/ FallDue
      PROVE  Same(r)
  BY <1>3 DEF Schedule, Cancel, FallDue, work
<1> QED BY <1>1, <1>2, <1>3 DEF Next

\* Nor any worker.
LEMMA OtherWorker ==
  ASSUME TypeOK, Next, NEW w \in Workers
  PROVE  WorkerStep(w) \/ Same(w)
<1> USE TenancyAssumption DEF TypeOK, Transactions, Same
<1>1. ASSUME NEW q \in Requests, RequestStep(q)
      PROVE  Same(w)
  BY <1>1 DEF RequestStep, Send, LookUp, Use, GuardLock, Guard, Push, Create,
     FindKey, Revoke, Rotate, LockTenant, CountOwners, Leave, FindKeys,
     RevokeAll, Commit, Abort, Discard, Release, Goto, Lock, data
<1>2. ASSUME NEW v \in Workers, WorkerStep(v), v # w
      PROVE  Same(w)
  BY <1>2 DEF WorkerStep, List, Load, TryTenant, LockRow, FindKeys, RevokeAll,
     Drop, CommitPurge, ExpireTombstone, Abort, Discard, Release, Goto, Lock,
     data, work
<1>3. ASSUME Schedule \/ Cancel \/ FallDue
      PROVE  Same(w)
  BY <1>3 DEF Schedule, Cancel, FallDue, work
<1> QED BY <1>1, <1>2, <1>3 DEF Next

\* Locks are taken by a statement that need not wait, or end together.
LEMMA HeldStep ==
  ASSUME TypeOK, Next
  PROVE  \/ UNCHANGED held
         \/ \E t \in Transactions :
              CanLock(t) /\ held' = [held EXCEPT ![t] = @ \cup Wants(t)]
         \/ \E t \in Transactions : held' = [held EXCEPT ![t] = {}]
<1> USE DEF Transactions, Lock
<1>1. ASSUME NEW r \in Requests, RequestStep(r)
      PROVE  \/ UNCHANGED held
             \/ CanLock(r) /\ held' = [held EXCEPT ![r] = @ \cup Wants(r)]
             \/ held' = [held EXCEPT ![r] = {}]
  BY <1>1 DEF RequestStep, Send, LookUp, Use, GuardLock, Guard, Push, Create,
     FindKey, Revoke, Rotate, LockTenant, CountOwners, Leave, FindKeys,
     RevokeAll, Commit, Abort, Discard, Release
<1>2. ASSUME NEW w \in Workers, WorkerStep(w)
      PROVE  \/ UNCHANGED held
             \/ CanLock(w) /\ held' = [held EXCEPT ![w] = @ \cup Wants(w)]
             \/ held' = [held EXCEPT ![w] = {}]
  BY <1>2 DEF WorkerStep, List, Load, TryTenant, LockRow, FindKeys, RevokeAll,
     Drop, CommitPurge, ExpireTombstone, Abort, Discard, Release, work
<1>3. Schedule \/ Cancel \/ FallDue => UNCHANGED held
  BY DEF Schedule, Cancel, FallDue, work
<1> QED BY <1>1, <1>2, <1>3 DEF Next

\* Only the commit of a request changes users and keys.
LEMMA DataStep ==
  ASSUME Next
  PROVE  \/ UNCHANGED <<removed, keys, userOf, heirs>>
         \/ \E r \in Requests : Commit(r)
<1>1. ASSUME NEW r \in Requests, RequestStep(r)
      PROVE  UNCHANGED <<removed, keys, userOf, heirs>> \/ Commit(r)
  BY <1>1 DEF RequestStep, Send, LookUp, Use, Guard, Push, Create,
     FindKey, Revoke, Rotate, LockTenant, CountOwners, Leave, FindKeys,
     RevokeAll, Abort, Discard, data
<1>2. ASSUME NEW w \in Workers, WorkerStep(w)
      PROVE  UNCHANGED <<removed, keys, userOf, heirs>>
  BY <1>2 DEF WorkerStep, List, Load, TryTenant, LockRow, FindKeys, RevokeAll,
     Drop, CommitPurge, ExpireTombstone, Abort, Discard, data
<1>3. Schedule \/ Cancel \/ FallDue
        => UNCHANGED <<removed, keys, userOf, heirs>>
  BY DEF Schedule, Cancel, FallDue
<1> QED BY <1>1, <1>2, <1>3 DEF Next

\* The tenant's status changes by the hosted service, when no transaction holds
\* the tenant, or by a purge.
LEMMA StatusStep ==
  ASSUME Next
  PROVE  \/ UNCHANGED status
         \/ TenantFree /\ status # "gone" /\ status' # "gone"
         \/ \E w \in Workers : CommitPurge(w)
<1>1. ASSUME NEW r \in Requests, RequestStep(r)
      PROVE  UNCHANGED status
  BY <1>1 DEF RequestStep, Send, LookUp, Use, Guard, Push, Create,
     FindKey, Revoke, Rotate, LockTenant, CountOwners, Leave, FindKeys,
     RevokeAll, Commit, Abort, Discard, data
<1>2. ASSUME NEW w \in Workers, WorkerStep(w)
      PROVE  UNCHANGED status \/ CommitPurge(w)
  BY <1>2 DEF WorkerStep, List, Load, TryTenant, LockRow, FindKeys, RevokeAll,
     Drop, ExpireTombstone, Abort, Discard, data
<1>3. Schedule \/ Cancel \/ FallDue
        => UNCHANGED status \/ (TenantFree /\ status # "gone" /\ status' # "gone")
  BY DEF Schedule, Cancel, FallDue
<1> QED BY <1>1, <1>2, <1>3 DEF Next

\* Keys are made one by one, and nobody else's.
LEMMA NewStep ==
  ASSUME TypeOK, Next
  PROVE  \/ \A t \in Transactions : new'[t] \subseteq new[t]
         \/ \E t \in Transactions, k \in Keys :
              Fresh(k) /\ new' = [new EXCEPT ![t] = {k}]
<1> USE TenancyAssumption DEF TypeOK, Transactions
<1>1. ASSUME NEW r \in Requests, RequestStep(r)
      PROVE  \/ \A t \in Transactions : new'[t] \subseteq new[t]
             \/ \E k \in Keys : Fresh(k) /\ new' = [new EXCEPT ![r] = {k}]
  BY <1>1 DEF RequestStep, Send, LookUp, Use, Guard, Push, Create,
     FindKey, Revoke, Rotate, LockTenant, CountOwners, Leave, FindKeys,
     RevokeAll, Commit, Abort, Discard, Release
<1>2. ASSUME NEW w \in Workers, WorkerStep(w)
      PROVE  \A t \in Transactions : new'[t] \subseteq new[t]
  BY <1>2 DEF WorkerStep, List, Load, TryTenant, LockRow, FindKeys, RevokeAll,
     Drop, CommitPurge, ExpireTombstone, Abort, Discard, Release, work
<1>3. Schedule \/ Cancel \/ FallDue
        => \A t \in Transactions : new'[t] \subseteq new[t]
  BY DEF Schedule, Cancel, FallDue, work
<1> QED BY <1>1, <1>2, <1>3 DEF Next

-----------------------------------------------------------------------------
(* Each part of the invariant is preserved *)

\* What a request names is there.
LEMMA Named ==
  ASSUME IInv, NEW r \in Requests, pc[r] # "idle"
  PROVE  /\ req[r] \in Asks /\ req[r].key \in Keys /\ req[r].target \in Keys
         /\ pc[r] # "look" => User(r) \in Users
<1>1. req[r] \in Asks
  BY DEF IInv, Placed
<1>2. req[r].key \in Keys /\ req[r].target \in Keys
  BY <1>1, TenancyAssumption
<1> QED BY <1>1, <1>2 DEF IInv, KeyHeld, KeysAgree, User

LEMMA WantsTyped ==
  ASSUME IInv, NEW t \in Transactions
  PROVE  Wants(t) \subseteq Rows \X {Share, Writing, ForUpdate}
<1> USE DEF Rows
<1>1. ASSUME pc[t] \in {"use", "hit", "rotate", "leave"}
      PROVE  /\ req[t].key \in Keys /\ req[t].target \in Keys
             /\ User(t) \in Users
  BY <1>1, Named DEF Transactions, IInv, Placed, WorkerPlaces
<1>2. CASE pc[t] \in {"use", "hit", "rotate", "leave"}
  BY <1>1, <1>2 DEF Wants
<1>3. CASE pc[t] \in {"count", "keys"}
  BY <1>3, TenancyAssumption DEF Wants, IInv, TypeOK
<1>4. CASE pc[t] \notin {"use", "hit", "rotate", "leave", "count", "keys"}
  BY <1>4 DEF Wants
<1> QED BY <1>2, <1>3, <1>4

LEMMA EndTyped ==
  ASSUME TypeOK, NEW t \in Transactions
  PROVE  /\ Release(t) =>
              /\ pc' \in [Transactions -> RequestPlaces \cup WorkerPlaces]
              /\ req' \in [Requests -> Asks \cup {NoReq}]
              /\ held' \in [Transactions ->
                              SUBSET (Rows \X {Share, Writing, ForUpdate})]
              /\ todo' \in [Transactions -> SUBSET Keys]
              /\ cut' \in [Transactions -> SUBSET Keys]
              /\ new' \in [Transactions -> SUBSET Keys]
              /\ seen' \in [Workers ->
                              {"none", "active", "deletion_scheduled"}]
         /\ Discard(t) => TypeOK'
<1> USE DEF TypeOK, Release, Goto
<1>1. Release(t) =>
        /\ pc' \in [Transactions -> RequestPlaces \cup WorkerPlaces]
        /\ req' \in [Requests -> Asks \cup {NoReq}]
        /\ seen' \in [Workers -> {"none", "active", "deletion_scheduled"}]
  BY DEF RequestPlaces, WorkerPlaces
<1>2. Release(t) =>
        /\ held' \in [Transactions ->
                        SUBSET (Rows \X {Share, Writing, ForUpdate})]
        /\ todo' \in [Transactions -> SUBSET Keys]
        /\ cut' \in [Transactions -> SUBSET Keys]
        /\ new' \in [Transactions -> SUBSET Keys]
  OBVIOUS
<1>3. Discard(t) => TypeOK'
  BY <1>1, <1>2 DEF Discard, data, RequestPlaces, WorkerPlaces
<1> QED BY <1>1, <1>2, <1>3

LEMMA LockTyped ==
  ASSUME IInv, NEW t \in Transactions, Lock(t)
  PROVE  held' \in [Transactions ->
                      SUBSET (Rows \X {Share, Writing, ForUpdate})]
BY WantsTyped DEF Lock, IInv, TypeOK

LEMMA TypeStep == IInv /\ Next => TypeOK'
<1> SUFFICES ASSUME IInv, Next PROVE TypeOK'
  OBVIOUS
<1> USE TenancyAssumption DEF Transactions
<1>0. TypeOK
  BY DEF IInv
<1>1. ASSUME NEW r \in Requests, RequestStep(r)
      PROVE  TypeOK'
  <2>1. /\ Discard(r) => TypeOK'
        /\ Lock(r) => held' \in [Transactions ->
                                   SUBSET (Rows \X {Share, Writing, ForUpdate})]
    BY <1>0, EndTyped, LockTyped
  <2>2. /\ pc[r] # "idle" => /\ req[r] \in Asks
                             /\ req[r].key \in Keys /\ req[r].target \in Keys
                             /\ pc[r] # "look" => User(r) \in Users
        /\ pc[r] = "guard" => req[r].kind \in Kinds \ {"delete"}
    BY Named DEF IInv, Placed
  <2>3. CASE Commit(r)
    <3>1. /\ pc' \in [Transactions -> RequestPlaces \cup WorkerPlaces]
          /\ req' \in [Requests -> Asks \cup {NoReq}]
          /\ held' \in [Transactions ->
                          SUBSET (Rows \X {Share, Writing, ForUpdate})]
          /\ todo' \in [Transactions -> SUBSET Keys]
          /\ cut' \in [Transactions -> SUBSET Keys]
          /\ new' \in [Transactions -> SUBSET Keys]
          /\ seen' \in [Workers -> {"none", "active", "deletion_scheduled"}]
      BY <1>0, <2>3, EndTyped DEF Commit
    <3>2. /\ keys' \in [Keys -> {"unused", "active", "revoked"}]
          /\ userOf' \in [Keys -> Users \cup {NoUser}]
          /\ heirs' \in [Keys -> SUBSET Keys]
          /\ removed' \subseteq Users
      BY <1>0, <2>2, <2>3 DEF Commit, TypeOK
    <3> QED BY <1>0, <2>3, <3>1, <3>2
            DEF Commit, TypeOK, RequestPlaces, WorkerPlaces
  <2> USE <1>0, <2>1, <2>2 DEF TypeOK, Goto, data
  <2>4. CASE Send(r) BY <2>4 DEF Send
  <2>5. CASE LookUp(r) BY <2>5 DEF LookUp
  <2>6. CASE Use(r) BY <2>6 DEF Use
  <2>7. CASE Guard(r) BY <2>7 DEF Guard, GuardLock, Kinds
  <2>8. CASE Push(r) BY <2>8 DEF Push
  <2>9. CASE Create(r) BY <2>9 DEF Create
  <2>10. CASE FindKey(r) BY <2>10 DEF FindKey
  <2>11. CASE Revoke(r) BY <2>11 DEF Revoke
  <2>12. CASE Rotate(r) BY <2>12 DEF Rotate
  <2>13. CASE LockTenant(r) BY <2>13 DEF LockTenant
  <2>14. CASE CountOwners(r) BY <2>14 DEF CountOwners
  <2>15. CASE Leave(r) BY <2>15 DEF Leave
  <2>16. CASE FindKeys(r) BY <2>16 DEF FindKeys
  <2>17. CASE RevokeAll(r) BY <2>17 DEF RevokeAll
  <2>18. CASE Abort(r) BY <2>18 DEF Abort
  <2> QED BY <1>1, <2>3, <2>4, <2>5, <2>6, <2>7, <2>8, <2>9, <2>10, <2>11,
             <2>12, <2>13, <2>14, <2>15, <2>16, <2>17, <2>18 DEF RequestStep
<1>2. ASSUME NEW w \in Workers, WorkerStep(w)
      PROVE  TypeOK'
  <2>1. /\ Discard(w) => TypeOK'
        /\ Lock(w) => held' \in [Transactions ->
                                   SUBSET (Rows \X {Share, Writing, ForUpdate})]
    BY <1>0, EndTyped, LockTyped
  <2> USE <1>0, <2>1 DEF TypeOK, Goto, data
  <2>2. CASE List(w) BY <2>2 DEF List
  <2>3. CASE Load(w) BY <2>3 DEF Load
  <2>4. CASE TryTenant(w) BY <2>4 DEF TryTenant
  <2>5. CASE LockRow(w) BY <2>5 DEF LockRow
  <2>6. CASE FindKeys(w) BY <2>6 DEF FindKeys
  <2>7. CASE RevokeAll(w) BY <2>7 DEF RevokeAll
  <2>8. CASE Drop(w) BY <2>8 DEF Drop
  <2>9. CASE CommitPurge(w)
    BY <2>9, EndTyped DEF CommitPurge, RequestPlaces, WorkerPlaces
  <2>10. CASE ExpireTombstone(w) BY <2>10 DEF ExpireTombstone, work
  <2>11. CASE Abort(w) BY <2>11 DEF Abort
  <2> QED BY <1>2, <2>2, <2>3, <2>4, <2>5, <2>6, <2>7, <2>8, <2>9, <2>10,
             <2>11 DEF WorkerStep
<1>3. CASE Schedule \/ Cancel \/ FallDue
  BY <1>0, <1>3 DEF TypeOK, Schedule, Cancel, FallDue, work
<1> QED BY <1>1, <1>2, <1>3 DEF Next

LEMMA PlacedStep == IInv /\ Next => Placed'
<1> SUFFICES ASSUME IInv, Next PROVE Placed'
  OBVIOUS
<1> USE TenancyAssumption DEF Transactions
<1>0. TypeOK /\ Placed
  BY DEF IInv
<1>1. ASSUME NEW w \in Workers
      PROVE  pc'[w] \in WorkerPlaces
  <2>1. CASE WorkerStep(w)
    BY <1>0, <2>1 DEF TypeOK, Placed, WorkerPlaces, WorkerStep, List, Load,
       TryTenant, LockRow, FindKeys, RevokeAll, Drop, CommitPurge,
       ExpireTombstone, Abort, Discard, Release, Goto, work
  <2>2. CASE Same(w)
    BY <1>0, <2>2 DEF Placed, Same
  <2> QED BY <1>0, <2>1, <2>2, OtherWorker
<1> DEFINE At(r) ==
      /\ pc[r] \in RequestPlaces
      /\ pc[r] # "idle" => req[r] \in Asks
      /\ pc[r] = "guard" => req[r].kind # "delete"
      /\ pc[r] \in {"push", "create", "revoke", "rotate"} =>
           req[r].kind = pc[r]
      /\ pc[r] = "hit" => req[r].kind = "revoke"
      /\ pc[r] \in {"owners", "count", "leave", "find", "keys"} =>
           req[r].kind = "delete"
<1>2. ASSUME NEW r \in Requests
      PROVE  At(r)'
  <2>0. At(r)
    BY <1>0 DEF Placed
  <2>1. CASE Same(r)
    BY <2>0, <2>1 DEF Same
  <2>2. CASE Send(r) \/ LookUp(r) \/ Use(r) \/ Push(r) \/ Create(r)
             \/ FindKey(r) \/ Revoke(r) \/ Rotate(r)
    BY <1>0, <2>0, <2>2 DEF TypeOK, RequestPlaces, Send, LookUp, Use, Push,
       Create, FindKey, Revoke, Rotate, Discard, Release, Goto
  <2>3. CASE Guard(r)
    <3>1. req[r].kind \in Kinds
      BY <2>0, <2>3, TenancyAssumption DEF Guard
    <3> QED BY <1>0, <2>0, <2>3, <3>1 DEF TypeOK, RequestPlaces, Kinds, Guard,
               Discard, Release, Goto
  <2>4. CASE LockTenant(r) \/ CountOwners(r) \/ Leave(r) \/ FindKeys(r)
             \/ RevokeAll(r) \/ Commit(r) \/ Abort(r)
    BY <1>0, <2>0, <2>4 DEF TypeOK, RequestPlaces, LockTenant, CountOwners,
       Leave, FindKeys, RevokeAll, Commit, Abort, Discard, Release, Goto
  <2> QED BY <1>0, <2>1, <2>2, <2>3, <2>4, OtherRequest DEF RequestStep
<1> QED BY <1>1, <1>2 DEF Placed

LEMMA ExclusiveStep == IInv /\ Next => Exclusive'
<1> SUFFICES ASSUME IInv, Next PROVE Exclusive'
  OBVIOUS
<1>0. TypeOK /\ Exclusive
  BY DEF IInv
<1>1. CASE UNCHANGED held
  BY <1>0, <1>1 DEF Exclusive
<1>2. ASSUME NEW t \in Transactions, held' = [held EXCEPT ![t] = {}]
      PROVE  Exclusive'
  BY <1>0, <1>2 DEF TypeOK, Exclusive
<1>3. ASSUME NEW t \in Transactions, CanLock(t),
             held' = [held EXCEPT ![t] = @ \cup Wants(t)]
      PROVE  Exclusive'
  <2>1. Wants(t) \subseteq Rows \X {Share, Writing, ForUpdate}
    BY WantsTyped
  <2>2. ASSUME NEW q \in Transactions \ {t}, NEW h \in held[q],
               NEW w \in Wants(t)
        PROVE  /\ ~(h[1] = w[1] /\ h[2] + w[2] > 4)
               /\ ~(w[1] = h[1] /\ w[2] + h[2] > 4)
    BY <1>0, <1>3, <2>1 DEF CanLock, Blocks, TypeOK, Share, Writing, ForUpdate
  <2>3. /\ held'[t] = held[t] \cup Wants(t)
        /\ \A q \in Transactions \ {t} : held'[q] = held[q]
    BY <1>0, <1>3 DEF TypeOK
  <2> QED BY <1>0, <2>2, <2>3 DEF Exclusive
<1> QED BY <1>0, <1>1, <1>2, <1>3, HeldStep

\* The locks of a request that is not over grow; its key, user and target stay.
LEMMA Grows ==
  ASSUME IInv, Next, NEW r \in Requests, pc'[r] # "idle", pc[r] # "idle"
  PROVE  held[r] \subseteq held'[r] /\ req'[r] = req[r]
<1> USE TenancyAssumption DEF Transactions
<1>0. TypeOK
  BY DEF IInv
<1>1. CASE Same(r)
  BY <1>1 DEF Same
<1>2. CASE RequestStep(r)
  BY <1>0, <1>2 DEF TypeOK, RequestStep, Send, LookUp, Use, GuardLock, Guard,
     Push, Create, FindKey, Revoke, Rotate, LockTenant, CountOwners, Leave,
     FindKeys, RevokeAll, Commit, Abort, Discard, Release, Goto, Lock
<1> QED BY <1>0, <1>1, <1>2, OtherRequest

\* Keys in use stay in use, and keep their users.
LEMMA KeysStay ==
  ASSUME IInv, Next, NEW k \in Keys, keys[k] # "unused"
  PROVE  keys'[k] # "unused" /\ userOf'[k] = userOf[k]
<1>1. CASE UNCHANGED <<removed, keys, userOf, heirs>>
  BY <1>1
<1>2. ASSUME NEW r \in Requests, Commit(r)
      PROVE  keys'[k] # "unused" /\ userOf'[k] = userOf[k]
  <2>1. k \notin new[r]
    BY DEF IInv, NewKeys, Transactions
  <2> QED BY <1>2, <2>1 DEF Commit
<1> QED BY <1>1, <1>2, DataStep

LEMMA KeyHeldStep == IInv /\ Next => KeyHeld'
<1> SUFFICES ASSUME IInv, Next, NEW r \in Requests
             PROVE  /\ pc'[r] \notin {"idle", "look"}
                         => keys'[req'[r].key] # "unused"
                    /\ Past(r)' => /\ status' # "gone"
                                   /\ <<req'[r].key, Writing>> \in held'[r]
  BY DEF KeyHeld, Past
<1> USE TenancyAssumption DEF Transactions
<1>0. TypeOK /\ KeyHeld /\ Exclusive /\ PurgeHeld
  BY DEF IInv
<1>1. ASSUME pc'[r] \notin {"idle", "look"}
      PROVE  /\ pc[r] # "idle" /\ req'[r] = req[r]
             /\ keys[req[r].key] # "unused"
  <2>1. CASE Same(r)
    BY <1>0, <1>1, <2>1 DEF Same, KeyHeld
  <2>2. CASE RequestStep(r) /\ pc[r] # "look"
    <3>1. pc[r] # "idle"
      BY <1>0, <1>1, <2>2 DEF TypeOK, RequestStep, Send, LookUp, Use, Guard,
         Push, Create, FindKey, Revoke, Rotate, LockTenant, CountOwners, Leave,
         FindKeys, RevokeAll, Commit, Abort, Goto
    <3> QED BY <1>0, <1>1, <2>2, <3>1, Grows DEF KeyHeld
  <2>3. CASE RequestStep(r) /\ pc[r] = "look"
    <3>1. LookUp(r) \/ Abort(r)
      BY <2>3 DEF RequestStep, Send, Use, Guard, Push, Create, FindKey, Revoke,
         Rotate, LockTenant, CountOwners, Leave, FindKeys, RevokeAll, Commit
    <3> QED BY <1>0, <1>1, <2>3, <3>1
            DEF TypeOK, LookUp, Abort, Discard, Release, Goto
  <2> QED BY <1>0, <2>1, <2>2, <2>3, OtherRequest
<1>2. pc'[r] \notin {"idle", "look"} => keys'[req'[r].key] # "unused"
  <2> SUFFICES ASSUME pc'[r] \notin {"idle", "look"}
               PROVE  keys'[req'[r].key] # "unused"
    OBVIOUS
  <2> QED BY <1>1, KeysStay, Named
<1>3. ASSUME Past(r)'
      PROVE  status # "gone" /\ <<req[r].key, Writing>> \in held'[r]
  <2>1. CASE Past(r)
    BY <1>0, <1>3, <2>1, Grows DEF KeyHeld, Past
  <2>2. CASE ~Past(r)
    <3>1. pc[r] = "use" /\ Use(r)
      BY <1>0, <1>3, <2>2, OtherRequest DEF TypeOK, Same, Past, RequestStep,
         Send, LookUp, Use, Guard, Push, Create, FindKey, Revoke, Rotate,
         LockTenant, CountOwners, Leave, FindKeys, RevokeAll, Commit, Abort,
         Discard, Release, Goto
    <3> QED BY <1>0, <1>3, <3>1
            DEF TypeOK, Past, Use, Lock, Wants, Discard, Release, Goto
  <2> QED BY <2>1, <2>2
<1>4. ASSUME Past(r)'
      PROVE  status' # "gone"
  <2>1. ASSUME NEW w \in Workers, CommitPurge(w)
        PROVE  FALSE
    <3>1. <<req[r].key, ForUpdate>> \in held[w]
      BY <1>0, <1>1, <1>4, <2>1, Named DEF CommitPurge, PurgeHeld, Past
    <3>2. Same(r)
      BY <1>0, <2>1 DEF TypeOK, Same, CommitPurge, Release, Goto
    <3> QED BY <1>0, <1>3, <1>4, <2>1, <3>1, <3>2
            DEF Same, Exclusive, Writing, ForUpdate
  <2> QED BY <1>3, <1>4, <2>1, StatusStep
<1>5. Past(r)' => req'[r] = req[r]
  BY <1>1 DEF Past
<1> QED BY <1>2, <1>3, <1>4, <1>5

LEMMA GuardHeldStep == IInv /\ Next => GuardHeld'
<1> SUFFICES ASSUME IInv, Next, NEW r \in Requests, PastGuard(r)'
             PROVE  status' = "active" /\ <<"tenant", Share>> \in held'[r]
  BY DEF GuardHeld
<1> USE TenancyAssumption DEF Transactions
<1>0. TypeOK /\ Exclusive /\ KeyHeld /\ GuardHeld /\ PurgeHeld /\ Placed
  BY DEF IInv
<1>1. CASE PastGuard(r)
  <2>1. status = "active" /\ <<"tenant", Share>> \in held[r]
    BY <1>0, <1>1 DEF GuardHeld
  <2>2. <<"tenant", Share>> \in held'[r]
    BY <1>1, <2>1, Grows DEF PastGuard
  <2>3. ~TenantFree
    BY <2>1 DEF TenantFree
  <2>4. ASSUME NEW w \in Workers, CommitPurge(w)
        PROVE  FALSE
    BY <1>0, <2>1, <2>4
       DEF CommitPurge, PurgeHeld, Exclusive, Share, ForUpdate
  <2> QED BY <2>1, <2>2, <2>3, <2>4, StatusStep
<1>2. CASE ~PastGuard(r)
  <2>1. Guard(r) /\ pc'[r] # "idle"
    <3>1. RequestStep(r)
      BY <1>0, <1>2, OtherRequest DEF PastGuard, Same
    <3>2. CASE Send(r) \/ LookUp(r) \/ Use(r) \/ LockTenant(r)
               \/ CountOwners(r) \/ Leave(r) \/ FindKeys(r) \/ Commit(r)
               \/ Abort(r)
      BY <1>0, <3>2 DEF TypeOK, PastGuard, Send, LookUp, Use, LockTenant,
         CountOwners, Leave, FindKeys, Commit, Abort, Discard, Release, Goto
    <3>3. CASE Push(r) \/ Create(r) \/ FindKey(r) \/ Revoke(r) \/ Rotate(r)
      BY <1>0, <1>2, <3>3 DEF TypeOK, Placed, PastGuard, Push, Create, FindKey,
         Revoke, Rotate, Discard, Release, Goto
    <3>4. CASE RevokeAll(r)
      BY <1>0, <3>4 DEF TypeOK, Placed, PastGuard, RevokeAll, Goto
    <3>5. CASE Guard(r)
      BY <3>5 DEF PastGuard
    <3> QED BY <3>1, <3>2, <3>3, <3>4, <3>5 DEF RequestStep
  <2>2. status # "gone"
    BY <1>0, <2>1 DEF KeyHeld, Past, Guard
  <2> QED BY <1>0, <2>1, <2>2 DEF TypeOK, Guard, GuardLock, Lock, Wants,
             Discard, Release, Goto, data
<1> QED BY <1>1, <1>2

LEMMA PurgeHeldStep == IInv /\ Next => PurgeHeld'
<1> SUFFICES ASSUME IInv, Next, NEW w \in Workers
             PROVE  /\ pc'[w] \in {"find", "keys", "drop", "done"} =>
                         <<"tenant", ForUpdate>> \in held'[w]
                    /\ pc'[w] = "done" => Keys \X {ForUpdate} \subseteq held'[w]
  BY DEF PurgeHeld
<1> USE TenancyAssumption DEF Transactions
<1>0. TypeOK /\ PurgeHeld
  BY DEF IInv
<1>1. CASE Same(w)
  BY <1>0, <1>1 DEF Same, PurgeHeld
<1>2. CASE List(w) \/ Load(w) \/ TryTenant(w) \/ CommitPurge(w) \/ Abort(w)
  BY <1>0, <1>2 DEF TypeOK, List, Load, TryTenant, CommitPurge, Abort, Discard,
     Release, Goto
<1>3. CASE ExpireTombstone(w)
  BY <1>0, <1>3 DEF PurgeHeld, ExpireTombstone, work
<1>4. CASE LockRow(w)
  BY <1>0, <1>4 DEF TypeOK, LockRow, Lock, Wants, Discard, Release, Goto
<1>5. CASE FindKeys(w) \/ RevokeAll(w)
  BY <1>0, <1>5 DEF TypeOK, PurgeHeld, FindKeys, RevokeAll, Lock, Goto
<1>6. CASE Drop(w)
  BY <1>0, <1>6 DEF TypeOK, PurgeHeld, Drop, Lock, Wants, Goto
<1> QED BY <1>0, <1>1, <1>2, <1>3, <1>4, <1>5, <1>6, OtherWorker DEF WorkerStep

LEMMA NewKeysStep == IInv /\ Next => NewKeys'
<1> SUFFICES ASSUME IInv, Next PROVE NewKeys'
  OBVIOUS
<1> USE TenancyAssumption DEF Transactions
<1>0. TypeOK /\ NewKeys
  BY DEF IInv
<1>1. \A t, q \in Transactions : t # q => new'[t] \cap new'[q] = {}
  <2>1. CASE \A t \in Transactions : new'[t] \subseteq new[t]
    BY <1>0, <2>1 DEF NewKeys
  <2>2. ASSUME NEW t \in Transactions, NEW k \in Keys, Fresh(k),
               new' = [new EXCEPT ![t] = {k}]
        PROVE  \A p, q \in Transactions : p # q => new'[p] \cap new'[q] = {}
    BY <1>0, <2>2 DEF TypeOK, NewKeys, Fresh
  <2> QED BY <1>0, <2>1, <2>2, NewStep
<1>2. ASSUME NEW t \in Transactions, NEW k \in new'[t]
      PROVE  keys'[k] = "unused"
  <2>1. CASE UNCHANGED <<removed, keys, userOf, heirs>>
    BY <1>0, <1>2, <2>1, NewStep DEF TypeOK, NewKeys, Fresh
  <2>2. ASSUME NEW r \in Requests, Commit(r)
        PROVE  keys'[k] = "unused"
    <3>1. t # r /\ k \in new[t]
      BY <1>0, <1>2, <2>2 DEF TypeOK, Commit, Release
    <3>2. keys[k] = "unused" /\ k \notin new[r] /\ k \in Keys
      BY <1>0, <3>1 DEF TypeOK, NewKeys
    <3>3. k \notin cut[r]
      BY <3>2 DEF IInv, CutHeld
    <3> QED BY <2>2, <3>2, <3>3 DEF Commit
  <2> QED BY <2>1, <2>2, DataStep
<1> QED BY <1>1, <1>2 DEF NewKeys

\* What a statement revokes, it has locked.
LEMMA CutStep ==
  ASSUME IInv, Next, NEW t \in Transactions, NEW k \in cut'[t]
  PROVE  /\ keys[k] # "unused"
         /\ <<k, Writing>> \in held'[t] \/ <<k, ForUpdate>> \in held'[t]
<1> USE TenancyAssumption DEF Transactions
<1>0. TypeOK /\ CutHeld /\ Placed
  BY DEF IInv
<1>1. CASE Same(t)
  BY <1>0, <1>1 DEF Same, CutHeld
<1>2. CASE t \in Requests /\ RequestStep(t)
  <2>1. CASE Revoke(t)
    <3>1. cut'[t] = {req[t].target} /\ pc[t] = "hit" /\ Lock(t)
      BY <1>0, <2>1 DEF TypeOK, Revoke
    <3>2. Wants(t) = {<<req[t].target, Writing>>}
      BY <3>1 DEF Wants
    <3>3. <<req[t].target, Writing>> \in held'[t]
      BY <1>0, <3>1, <3>2 DEF TypeOK, Lock
    <3> QED BY <1>0, <1>2, <3>1, <3>3 DEF CutHeld
  <2>2. CASE Rotate(t)
    BY <1>0, <2>2 DEF TypeOK, CutHeld, Rotate, Rotatable, Findable, Lock,
       Wants, Discard, Release
  <2>3. CASE RevokeAll(t)
    BY <1>0, <2>3 DEF TypeOK, CutHeld, RevokeAll, Lock, Wants
  <2>4. CASE LockTenant(t) \/ CountOwners(t) \/ Leave(t) \/ Use(t) \/ Guard(t)
    BY <1>0, <2>4 DEF TypeOK, CutHeld, LockTenant, CountOwners, Leave, Use,
       GuardLock, Guard, Lock, Discard, Release
  <2>5. CASE Send(t) \/ LookUp(t) \/ Push(t) \/ Create(t) \/ FindKey(t)
             \/ FindKeys(t) \/ Commit(t) \/ Abort(t)
    BY <1>0, <2>5 DEF TypeOK, CutHeld, Send, LookUp, Push, Create, FindKey,
       FindKeys, Commit, Abort, Discard, Release
  <2> QED BY <1>2, <2>1, <2>2, <2>3, <2>4, <2>5 DEF RequestStep
<1>3. CASE t \in Workers /\ WorkerStep(t)
  <2>1. CASE RevokeAll(t)
    BY <1>0, <2>1 DEF TypeOK, CutHeld, RevokeAll, Lock, Wants
  <2>2. CASE LockRow(t) \/ Drop(t)
    BY <1>0, <2>2 DEF TypeOK, CutHeld, LockRow, Drop, Lock, Discard, Release
  <2>3. CASE List(t) \/ Load(t) \/ TryTenant(t) \/ FindKeys(t)
             \/ CommitPurge(t) \/ ExpireTombstone(t) \/ Abort(t)
    BY <1>0, <2>3 DEF TypeOK, CutHeld, List, Load, TryTenant, FindKeys,
       CommitPurge, ExpireTombstone, Abort, Discard, Release, work
  <2> QED BY <1>3, <2>1, <2>2, <2>3 DEF WorkerStep
<1> QED BY <1>0, <1>1, <1>2, <1>3, OtherRequest, OtherWorker

LEMMA CutHeldStep == IInv /\ Next => CutHeld'
<1> SUFFICES ASSUME IInv, Next PROVE CutHeld'
  OBVIOUS
<1> USE TenancyAssumption DEF Transactions
<1>0. TypeOK /\ CutHeld /\ Placed
  BY DEF IInv
<1>1. ASSUME NEW r \in Requests, pc'[r] = "hit"
      PROVE  keys'[req'[r].target] # "unused"
  <2>1. pc[r] # "idle" /\ req'[r] = req[r] /\ keys[req[r].target] # "unused"
    <3>1. CASE Same(r)
      BY <1>0, <1>1, <3>1 DEF Same, CutHeld
    <3>2. CASE RequestStep(r)
      <4>1. FindKey(r) /\ Findable(r)
        BY <1>0, <1>1, <3>2 DEF TypeOK, Placed, RequestStep, Send, LookUp, Use,
           Guard, Push, Create, FindKey, Revoke, Rotate, LockTenant,
           CountOwners, Leave, FindKeys, RevokeAll, Commit, Abort, Discard,
           Release, Goto, Kinds
      <4> QED BY <4>1 DEF FindKey, Findable, Discard
    <3> QED BY <1>0, <3>1, <3>2, OtherRequest
  <2> QED BY <2>1, Named, KeysStay
<1>2. ASSUME NEW t \in Transactions, NEW k \in cut'[t]
      PROVE  keys'[k] # "unused"
  <2>1. k \in Keys
    BY <1>2, TypeStep DEF TypeOK
  <2> QED BY <1>2, <2>1, CutStep, KeysStay
<1> QED BY <1>1, <1>2, CutStep DEF CutHeld

LEMMA RotateHeldStep == IInv /\ Next => RotateHeld'
<1> SUFFICES ASSUME IInv, Next, NEW r \in Requests,
                    pc'[r] = "done", req'[r].kind = "rotate"
             PROVE  /\ keys'[req'[r].target] = "active"
                    /\ <<req'[r].target, ForUpdate>> \in held'[r]
                    /\ cut'[r] = {req'[r].target}
                    /\ \E k \in Keys : new'[r] = {k}
  BY DEF RotateHeld
<1> USE TenancyAssumption DEF Transactions
<1>0. TypeOK /\ Exclusive /\ Placed /\ NewKeys /\ CutHeld /\ RotateHeld
  BY DEF IInv
<1>1. CASE Same(r)
  <2>1. /\ keys[req[r].target] = "active"
        /\ <<req[r].target, ForUpdate>> \in held[r]
        /\ cut[r] = {req[r].target}
        /\ \E k \in Keys : new[r] = {k}
    BY <1>0, <1>1 DEF Same, RotateHeld
  <2>2. ASSUME NEW q \in Requests, Commit(q)
        PROVE  keys'[req[r].target] = "active"
    <3>1. q # r
      BY <1>0, <1>1, <2>2 DEF TypeOK, Same, Commit, Release, Goto
    <3>2. req[r].target \notin cut[q]
      <4>1. \A g \in held[q] :
              g # <<req[r].target, Writing>> /\ g # <<req[r].target, ForUpdate>>
        BY <1>0, <2>1, <3>1 DEF Exclusive, Writing, ForUpdate
      <4> QED BY <1>0, <4>1 DEF CutHeld
    <3>3. req[r].target \in Keys
      BY <1>1, Named DEF Same
    <3> QED BY <2>1, <2>2, <3>2, <3>3 DEF Commit
  <2> QED BY <1>1, <2>1, <2>2, DataStep DEF Same
<1>2. CASE Rotate(r)
  <2>1. req'[r] = req[r] /\ UNCHANGED keys
    BY <1>0, <1>2 DEF TypeOK, Rotate, Discard, Release, Goto, data
  <2> QED BY <1>0, <1>2, <2>1 DEF TypeOK, Rotate, Rotatable, Findable, Lock,
             Wants, Discard, Release, Goto
<1>3. CASE RequestStep(r) /\ ~Rotate(r)
  BY <1>0, <1>3 DEF TypeOK, Placed, RequestStep, Send, LookUp, Use, Guard,
     Push, Create, FindKey, Revoke, LockTenant, CountOwners, Leave, FindKeys,
     RevokeAll, Commit, Abort, Discard, Release, Goto
<1> QED BY <1>0, <1>1, <1>2, <1>3, OtherRequest

LEMMA KeysAgreeStep == IInv /\ Next => KeysAgree'
<1> SUFFICES ASSUME IInv, Next PROVE KeysAgree'
  OBVIOUS
<1> USE TenancyAssumption DEF Transactions
<1>0. TypeOK /\ KeysAgree /\ NewKeys /\ RotateHeld
  BY DEF IInv
<1>1. CASE UNCHANGED <<removed, keys, userOf, heirs>>
  BY <1>0, <1>1 DEF KeysAgree
<1>2. ASSUME NEW r \in Requests, Commit(r), NEW k \in Keys
      PROVE  /\ keys'[k] # "unused" => userOf'[k] \in Users
             /\ heirs'[k] # {} => keys'[k] = "revoked"
             /\ heirs'[k] = {} \/ \E j \in Keys : heirs'[k] = {j}
  <2>1. User(r) \in Users
    BY <1>2, Named DEF Commit
  <2>2. keys'[k] # "unused" => userOf'[k] \in Users
    BY <1>0, <1>2, <2>1 DEF Commit, KeysAgree, IInv, CutHeld
  <2>3. heirs[k] # {} => keys'[k] = "revoked"
    <3>1. heirs[k] # {} => keys[k] = "revoked" /\ k \notin new[r]
      BY <1>0 DEF KeysAgree, NewKeys
    <3> QED BY <1>2, <3>1 DEF Commit
  <2>4. CASE req[r].kind = "rotate" /\ k = req[r].target
    <3>1. /\ keys[k] = "active" /\ cut[r] = {k}
          /\ \E j \in Keys : new[r] = {j}
      BY <1>0, <1>2, <2>4 DEF Commit, RotateHeld
    <3>2. heirs[k] = {} /\ k \notin new[r]
      BY <1>0, <3>1 DEF KeysAgree, NewKeys
    <3>3. keys'[k] = "revoked" /\ heirs'[k] = new[r]
      BY <1>0, <1>2, <2>4, <3>1, <3>2 DEF TypeOK, Commit
    <3> QED BY <2>2, <3>1, <3>3
  <2>5. CASE ~(req[r].kind = "rotate" /\ k = req[r].target)
    <3>1. heirs'[k] = heirs[k]
      BY <1>0, <1>2, <2>5 DEF TypeOK, Commit
    <3> QED BY <1>0, <2>2, <2>3, <3>1 DEF KeysAgree
  <2> QED BY <2>4, <2>5
<1> QED BY <1>1, <1>2, DataStep DEF KeysAgree

LEMMA AnotherOwner ==
  ASSUME NEW S, IsFiniteSet(S), OthersOwn(Cardinality(S)), NEW u
  PROVE  \E o \in S : o # u
<1> SUFFICES ASSUME S \subseteq {u} PROVE FALSE
  OBVIOUS
<1>1. IsFiniteSet({u}) /\ Cardinality({u}) = 1
  BY FS_Singleton
<1>2. Cardinality(S) \in Nat /\ Cardinality(S) <= 1
  BY <1>1, FS_Subset, FS_CardinalityType
<1> QED BY <1>2 DEF OthersOwn

\* Those whose commit removes an owner are alone at it.
LEMMA OthersStay ==
  ASSUME IInv, NEW r \in Requests, Commit(r), NEW o \in Owners \ removed,
         Leaves(r) => o # User(r)
  PROVE  o \notin removed'
BY DEF Commit, Leaves

LEMMA OwnerHeldStep == IInv /\ Next => OwnerHeld'
<1> SUFFICES ASSUME IInv, Next, NEW r \in Requests, Leaves(r)',
                    pc'[r] \in {"count", "leave", "find", "keys", "done"}
             PROVE  /\ <<"tenant", ForUpdate>> \in held'[r]
                    /\ pc'[r] # "count" =>
                         \E o \in Owners \ removed' : o # User(r)'
  BY DEF OwnerHeld
<1> USE TenancyAssumption DEF Transactions
<1>0. TypeOK /\ Placed /\ Exclusive /\ KeyHeld /\ OwnerHeld
  BY DEF IInv
<1>1. pc[r] \notin {"idle", "look"} /\ req'[r] = req[r]
  <2>1. pc[r] \notin {"idle", "look"}
    BY <1>0, OtherRequest DEF TypeOK, Same, RequestStep, Send, LookUp, Use,
       Guard, Push, Create, FindKey, Revoke, Rotate, LockTenant, CountOwners,
       Leave, FindKeys, RevokeAll, Commit, Abort, Discard, Release, Goto
  <2> QED BY <2>1, Grows
<1>2. User(r)' = User(r) /\ Leaves(r) /\ held[r] \subseteq held'[r]
  <2>1. req[r].key \in Keys /\ keys[req[r].key] # "unused"
    BY <1>0, <1>1, Named DEF KeyHeld
  <2>2. userOf'[req[r].key] = userOf[req[r].key]
    BY <2>1, KeysStay
  <2> QED BY <1>1, <2>2, Grows DEF User, Leaves
<1>3. CASE Same(r)
  <2>1. /\ <<"tenant", ForUpdate>> \in held[r]
        /\ pc'[r] # "count" => \E o \in Owners \ removed : o # User(r)
    BY <1>0, <1>2, <1>3 DEF Same, OwnerHeld
  <2>2. ASSUME NEW q \in Requests, Commit(q), NEW o \in Owners \ removed
        PROVE  o \notin removed'
    <3>1. q # r
      BY <1>0, <1>3, <2>2 DEF TypeOK, Same, Commit, Release, Goto
    <3>2. ~Leaves(q)
      BY <1>0, <2>1, <2>2, <3>1 DEF Commit, OwnerHeld, Exclusive, ForUpdate
    <3> QED BY <2>2, <3>2, OthersStay
  <2> QED BY <1>2, <2>1, <2>2, DataStep
<1>4. CASE RequestStep(r)
  <2>1. UNCHANGED removed
    BY <1>0, <1>4 DEF TypeOK, RequestStep, Send, LookUp, Use, Guard, Push,
       Create, FindKey, Revoke, Rotate, LockTenant, CountOwners, Leave,
       FindKeys, RevokeAll, Commit, Abort, Discard, Release, Goto, data
  <2>2. CASE LockTenant(r)
    BY <1>0, <2>2 DEF TypeOK, LockTenant, Lock, Wants, Discard, Release, Goto
  <2>3. CASE CountOwners(r)
    <3>1. \E o \in Owners \ removed : o # User(r)
      <4>1. OthersOwn(Cardinality(Owners \ removed))
        BY <1>0, <2>3 DEF TypeOK, CountOwners, Discard, Release, Goto
      <4>2. IsFiniteSet(Owners \ removed)
        BY FS_Subset
      <4> QED BY <4>1, <4>2, AnotherOwner
    <3>2. <<"tenant", ForUpdate>> \in held[r]
      BY <1>0, <1>2, <2>3 DEF OwnerHeld, CountOwners
    <3> QED BY <1>2, <2>1, <3>1, <3>2
  <2>4. CASE Leave(r) \/ FindKeys(r) \/ RevokeAll(r)
    <3>1. pc[r] \in {"leave", "find", "keys"} /\ pc'[r] # "count"
      BY <1>0, <2>4 DEF TypeOK, Leave, FindKeys, RevokeAll, Goto
    <3> QED BY <1>0, <1>2, <2>1, <3>1 DEF OwnerHeld
  <2>5. CASE Use(r)
    BY <1>0, <1>2, <2>5 DEF TypeOK, Leaves, Use, Discard, Release, Goto
  <2>6. CASE Push(r) \/ Create(r) \/ Revoke(r) \/ Rotate(r)
    BY <1>0, <1>2, <2>6 DEF TypeOK, Placed, Leaves, Push, Create, Revoke,
       Rotate, Discard, Release, Goto
  <2>7. CASE Guard(r)
    BY <1>0, <1>2, <2>7 DEF TypeOK, Placed, Leaves, Guard, Discard, Release,
       Goto, Kinds
  <2>8. CASE Send(r) \/ LookUp(r) \/ FindKey(r) \/ Commit(r) \/ Abort(r)
    BY <1>0, <2>8 DEF TypeOK, Send, LookUp, FindKey, Commit, Abort, Discard,
       Release, Goto
  <2> QED BY <1>4, <2>2, <2>3, <2>4, <2>5, <2>6, <2>7, <2>8 DEF RequestStep
<1> QED BY <1>0, <1>3, <1>4, OtherRequest

LEMMA OwnerRemainsStep == IInv /\ Next => OwnerRemains'
<1> SUFFICES ASSUME IInv, Next, status' # "gone"
             PROVE  Owners \ removed' # {}
  BY DEF OwnerRemains
<1>1. status # "gone"
  <2>1. \A w \in Workers : ~CommitPurge(w)
    BY DEF CommitPurge
  <2> QED BY <2>1, StatusStep
<1>2. Owners \ removed # {}
  BY <1>1 DEF IInv, OwnerRemains
<1>3. ASSUME NEW r \in Requests, Commit(r)
      PROVE  Owners \ removed' # {}
  <2>1. PICK o \in Owners \ removed : Leaves(r) => o # User(r)
    BY <1>2, <1>3 DEF IInv, OwnerHeld, Commit
  <2> QED BY <1>3, <2>1, OthersStay
<1> QED BY <1>2, <1>3, DataStep

-----------------------------------------------------------------------------
(* The theorems *)

LEMMA InitIInv == Init => IInv
<1> SUFFICES ASSUME Init PROVE IInv
  OBVIOUS
<1> USE TenancyAssumption DEF Init, Transactions
<1>1. TypeOK
  BY DEF TypeOK, NoReq
<1>2. Placed /\ Exclusive
  BY DEF Placed, Exclusive, WorkerPlaces, RequestPlaces
<1>3. KeyHeld /\ GuardHeld /\ PurgeHeld
  BY DEF KeyHeld, Past, GuardHeld, PastGuard, PurgeHeld
<1>4. KeysAgree /\ NewKeys /\ CutHeld
  BY DEF KeysAgree, NewKeys, CutHeld
<1>5. RotateHeld /\ OwnerHeld /\ OwnerRemains
  BY DEF RotateHeld, OwnerHeld, OwnerRemains
<1> QED BY <1>1, <1>2, <1>3, <1>4, <1>5 DEF IInv

LEMMA NextIInv == IInv /\ [Next]_vars => IInv'
<1>1. IInv /\ Next => IInv'
  BY TypeStep, PlacedStep, ExclusiveStep, KeyHeldStep, GuardHeldStep,
     PurgeHeldStep, KeysAgreeStep, NewKeysStep, CutHeldStep, RotateHeldStep,
     OwnerHeldStep, OwnerRemainsStep DEF IInv
<1>2. ASSUME IInv, UNCHANGED vars
      PROVE  IInv'
  <2> USE <1>2 DEF IInv, vars, data, work
  <2>1. TypeOK' BY DEF TypeOK
  <2>2. Placed' BY DEF Placed
  <2>3. Exclusive' BY DEF Exclusive
  <2>4. KeyHeld' BY DEF KeyHeld, Past
  <2>5. GuardHeld' BY DEF GuardHeld, PastGuard
  <2>6. PurgeHeld' BY DEF PurgeHeld
  <2>7. KeysAgree' BY DEF KeysAgree
  <2>8. NewKeys' BY DEF NewKeys
  <2>9. CutHeld' BY DEF CutHeld
  <2>10. RotateHeld' BY DEF RotateHeld
  <2>11. OwnerHeld' BY DEF OwnerHeld, Leaves, User
  <2>12. OwnerRemains' BY DEF OwnerRemains
  <2> QED BY <2>1, <2>2, <2>3, <2>4, <2>5, <2>6, <2>7, <2>8, <2>9, <2>10,
             <2>11, <2>12
<1> QED BY <1>1, <1>2

LEMMA Inductive == Spec => []IInv
BY InitIInv, NextIInv, PTL DEF Spec

\* Tenant, users, keys and transactions keep their types.
THEOREM TypeCorrect == Spec => []TypeOK
<1>1. IInv => TypeOK
  BY DEF IInv
<1> QED BY <1>1, Inductive, PTL

\* However many owners delete their accounts at once, a tenant that is not
\* purged keeps one: delete_account's lock on the tenant lets them count one
\* after the other.
THEOREM OwnerAlwaysRemains == Spec => []OwnerRemains
<1>1. IInv => OwnerRemains
  BY DEF IInv
<1> QED BY <1>1, Inductive, PTL

\* Past check_tenant_active, a write finds its tenant active until it commits:
\* its FOR SHARE keeps the deletion from being scheduled, and its key's lock
\* keeps a purge from ending.
THEOREM WritesAreGuarded == Spec => []WritesWhileActive
<1>1. IInv => WritesWhileActive
  BY DEF IInv, GuardHeld, WritesWhileActive
<1> QED BY <1>1, Inductive, PTL

\* A key is rotated into one key at most, however many rotations of it race.
THEOREM KeyRotatedOnce == Spec => []RotatedOnce
<1>1. IInv => RotatedOnce
  <2>1. \A j \in Keys : Cardinality({j}) <= 1
    <3>1. \A j \in Keys : Cardinality({j}) = 1
      BY FS_Singleton
    <3> QED BY <3>1
  <2>2. Cardinality({}) <= 1
    BY FS_EmptySet
  <2> QED BY <2>1, <2>2 DEF IInv, KeysAgree, RotatedOnce
<1> QED BY <1>1, Inductive, PTL
=============================================================================
