------------------------------ MODULE Tenancy ------------------------------
(***************************************************************************)
(* One tenant with its users and API keys, from its first requests to its   *)
(* purge: requests that a key authenticates (a push, the creation, rotation *)
(* and revocation of keys, the deletion of an account) and the purge worker *)
(* that destroys a tenant whose deletion is due.                            *)
(*                                                                         *)
(* A step is one statement.  Each transaction keeps what it writes to       *)
(* itself until it commits, and the row locks it has taken until it ends;   *)
(* a statement first waits until it can lock its rows, and takes all of      *)
(* them at once.  The KEY SHARE locks that foreign keys take are left out:   *)
(* what they would block, the DELETE of a tenant with its users, waits for   *)
(* the guard's lock on the tenant before.                                   *)
(***************************************************************************)
EXTENDS Naturals, FiniteSets

CONSTANTS
  Users, Owners,    \* the tenant's users, and those whose role is owner
  Keys, FirstKeys,  \* API keys, and the users of those there are at first
  Requests,         \* requests in flight at once
  Workers,          \* processes that run purge sweeps
  NoUser,
  Asks,             \* the requests clients send
  MaxSends          \* bound: requests in a behaviour

Kinds == {"push", "create", "revoke", "rotate", "delete"}

ASSUME TenancyAssumption ==
  /\ IsFiniteSet(Users) /\ Owners \subseteq Users /\ Owners # {}
  /\ NoUser \notin Users
  /\ DOMAIN FirstKeys \subseteq Keys
  /\ \A k \in DOMAIN FirstKeys : FirstKeys[k] \in Users
  /\ Asks \subseteq [kind : Kinds, key : Keys, target : Keys]
  /\ MaxSends \in Nat
  /\ Requests \cap Workers = {}
  /\ "tenant" \notin Users \cup Keys /\ Users \cap Keys = {}

Transactions == Requests \cup Workers
Rows         == {"tenant"} \cup Users \cup Keys

\* PostgreSQL's row locks, numbered so that two of them conflict when the sum
\* of their numbers is above 4: FOR SHARE, what an UPDATE of plain columns
\* takes, and FOR UPDATE, which a DELETE takes too.
Share     == 2
Writing   == 3
ForUpdate == 4

VARIABLES
  status,  \* tenants.status, or "gone"
  due,     \* purge_due_at has passed
  tomb,    \* the tenant's tombstone
  removed, \* users with removed_at
  keys,    \* what each key is
  userOf,  \* the user of each key
  heirs,   \* history: the keys each key has been rotated into
  sent,    \* requests sent
  pc, req, \* where each transaction is, and what each request asks
  held,    \* the row locks each transaction holds
  todo,    \* the keys its UPDATE of keys has found
  cut, new, \* the keys it has revoked, and made
  seen     \* the status on the tenant object a purge has loaded

data == <<status, due, tomb, removed, keys, userOf, heirs>>
work == <<pc, req, held, todo, cut, new, seen>>
vars == <<data, sent, work>>

NoReq == [kind |-> "none"]

TypeOK ==
  /\ status \in {"active", "deletion_scheduled", "gone"}
  /\ due \in BOOLEAN
  /\ tomb \in {"none", "kept", "expired"}
  /\ removed \subseteq Users
  /\ keys \in [Keys -> {"unused", "active", "revoked"}]
  /\ userOf \in [Keys -> Users \cup {NoUser}]
  /\ heirs \in [Keys -> SUBSET Keys]
  /\ sent \in Nat
  /\ pc \in [Transactions ->
       {"idle", "look", "use", "guard", "push", "create", "revoke", "hit",
        "rotate", "owners", "count", "leave", "find", "keys", "load", "lock",
        "row", "drop", "done"}]
  /\ req \in [Requests -> Asks \cup {NoReq}]
  /\ held \in [Transactions -> SUBSET (Rows \X {Share, Writing, ForUpdate})]
  /\ todo \in [Transactions -> SUBSET Keys]
  /\ cut \in [Transactions -> SUBSET Keys]
  /\ new \in [Transactions -> SUBSET Keys]
  /\ seen \in [Workers -> {"none", "active", "deletion_scheduled"}]

Init ==
  /\ status = "active" /\ due = FALSE /\ tomb = "none"
  /\ removed = {}
  /\ keys = [k \in Keys |-> IF k \in DOMAIN FirstKeys THEN "active"
                            ELSE "unused"]
  /\ userOf = [k \in Keys |-> IF k \in DOMAIN FirstKeys THEN FirstKeys[k]
                              ELSE NoUser]
  /\ heirs = [k \in Keys |-> {}]
  /\ sent = 0
  /\ pc = [t \in Transactions |-> "idle"]
  /\ req = [r \in Requests |-> NoReq]
  /\ held = [t \in Transactions |-> {}]
  /\ todo = [t \in Transactions |-> {}]
  /\ cut = [t \in Transactions |-> {}]
  /\ new = [t \in Transactions |-> {}]
  /\ seen = [w \in Workers |-> "none"]

User(r) == userOf[req[r].key]

-----------------------------------------------------------------------------
(* Row locks *)

\* The rows a transaction's next statement locks.
Wants(t) ==
  CASE pc[t] = "use"    -> {<<req[t].key, Writing>>}
    [] pc[t] = "guard"  -> {<<"tenant", Share>>}
    [] pc[t] = "hit"    -> {<<req[t].target, Writing>>}
    [] pc[t] = "rotate" -> {<<req[t].target, ForUpdate>>}
    [] pc[t] = "owners" -> {<<"tenant", ForUpdate>>}
    [] pc[t] = "count"  -> (Owners \ removed) \X {ForUpdate}
    [] pc[t] = "leave"  -> {<<User(t), Writing>>}
    [] pc[t] = "keys"   -> todo[t] \X {Writing}
    [] pc[t] = "row"    -> {<<"tenant", ForUpdate>>}
    [] pc[t] = "drop"   -> (Users \cup Keys) \X {ForUpdate}
    [] OTHER            -> {}

\* Some lock q holds conflicts with one that t wants.
Blocks(q, t) ==
  \E h \in held[q], w \in Wants(t) : h[1] = w[1] /\ h[2] + w[2] > 4
CanLock(t) == \A q \in Transactions \ {t} : ~Blocks(q, t)
Lock(t)    == held' = [held EXCEPT ![t] = @ \cup Wants(t)]

Goto(t, place) == pc' = [pc EXCEPT ![t] = place]

\* The transaction is over: its locks are released and its writes no longer
\* its own.
Release(t) ==
  /\ Goto(t, "idle")
  /\ req' = [r \in Requests |-> IF r = t THEN NoReq ELSE req[r]]
  /\ held' = [held EXCEPT ![t] = {}]
  /\ todo' = [todo EXCEPT ![t] = {}]
  /\ cut' = [cut EXCEPT ![t] = {}]
  /\ new' = [new EXCEPT ![t] = {}]
  /\ seen' = [w \in Workers |-> IF w = t THEN "none" ELSE seen[w]]

\* It ends without a trace.
Discard(t) == Release(t) /\ UNCHANGED <<data, sent>>

-----------------------------------------------------------------------------
(* Requests *)

Send(r) ==
  /\ pc[r] = "idle"
  /\ sent < MaxSends
  /\ sent' = sent + 1
  /\ \E q \in Asks : req' = [req EXCEPT ![r] = q]
  /\ Goto(r, "look")
  /\ UNCHANGED <<data, held, todo, cut, new, seen>>

\* resolve_api_key reads the key, then checks its secret in a thread, then
\* looks at revoked_at as it was read.
LookUp(r) ==
  /\ pc[r] = "look"
  /\ \/ /\ keys[req[r].key] = "active" /\ status # "gone"
        /\ Goto(r, "use")
        /\ UNCHANGED <<data, sent, req, held, todo, cut, new, seen>>
     \/ /\ keys[req[r].key] # "active" \/ status = "gone"
        /\ Discard(r)

\* last_used_at is updated by the key's id, and the user's role is read.
Use(r) ==
  /\ pc[r] = "use" /\ CanLock(r)
  /\ \/ /\ status # "gone"
        /\ Lock(r)
        /\ Goto(r, IF req[r].kind # "delete" THEN "guard"
                   ELSE IF User(r) \in Owners THEN "owners" ELSE "leave")
        /\ UNCHANGED <<data, sent, req, todo, cut, new, seen>>
     \/ status = "gone" /\ Discard(r)

\* Mutant of GuardLock: the status is read without FOR SHARE.
GuardUnlocked(r) == UNCHANGED held
GuardLock(r) == Lock(r)

\* Mutant of Guard: a tenant that is not active is waited for, not refused.
GuardWaits(r) ==
  /\ pc[r] = "guard" /\ CanLock(r)
  /\ status # "deletion_scheduled"
  /\ GuardLock(r)
  /\ Goto(r, req[r].kind)
  /\ UNCHANGED <<data, sent, req, todo, cut, new, seen>>

\* check_tenant_active, which lets a tenant pass that it does not find.
Guard(r) ==
  /\ pc[r] = "guard" /\ CanLock(r)
  /\ \/ /\ status # "deletion_scheduled"
        /\ GuardLock(r)
        /\ Goto(r, req[r].kind)
        /\ UNCHANGED <<data, sent, req, todo, cut, new, seen>>
     \/ status = "deletion_scheduled" /\ Discard(r)

\* sync_push; what it does to the tenant's tables is EntryLog's.
Push(r) ==
  /\ pc[r] = "push"
  /\ Goto(r, "done")
  /\ UNCHANGED <<data, sent, req, held, todo, cut, new, seen>>

Fresh(k) == keys[k] = "unused" /\ \A t \in Transactions : k \notin new[t]

\* create_api_key
Create(r) ==
  /\ pc[r] = "create"
  /\ \E k \in Keys : Fresh(k) /\ new' = [new EXCEPT ![r] = {k}]
  /\ Goto(r, "done")
  /\ UNCHANGED <<data, sent, req, held, todo, cut, seen>>

\* The key a request names: one of its user's own that is not revoked.
Findable(r) == keys[req[r].target] = "active" /\ userOf[req[r].target] = User(r)

\* revoke_api_key reads the key, without a lock, and then updates it.
FindKey(r) ==
  /\ pc[r] = "revoke"
  /\ \/ /\ Findable(r)
        /\ Goto(r, "hit")
        /\ UNCHANGED <<data, sent, req, held, todo, cut, new, seen>>
     \/ ~Findable(r) /\ Discard(r)

Revoke(r) ==
  /\ pc[r] = "hit" /\ CanLock(r)
  /\ Lock(r)
  /\ cut' = [cut EXCEPT ![r] = {req[r].target}]
  /\ Goto(r, "done")
  /\ UNCHANGED <<data, sent, req, todo, new, seen>>

\* Mutant of Rotatable: revoked_at is not looked at again after the wait.
RotatableStale(r) == userOf[req[r].target] = User(r)
Rotatable(r) == Findable(r)

\* rotate_api_key locks the key, and sees it as it is then.
Rotate(r) ==
  /\ pc[r] = "rotate" /\ CanLock(r)
  /\ \/ /\ Rotatable(r)
        /\ Lock(r)
        /\ cut' = [cut EXCEPT ![r] = {req[r].target}]
        /\ \E k \in Keys : Fresh(k) /\ new' = [new EXCEPT ![r] = {k}]
        /\ Goto(r, "done")
        /\ UNCHANGED <<data, sent, req, todo, seen>>
     \/ ~Rotatable(r) /\ Discard(r)

\* delete_account of an owner locks the tenant and then the owners.
LockTenant(r) ==
  /\ pc[r] = "owners" /\ CanLock(r)
  /\ \/ /\ status # "gone"
        /\ Lock(r)
        /\ Goto(r, "count")
        /\ UNCHANGED <<data, sent, req, todo, cut, new, seen>>
     \/ status = "gone" /\ Discard(r)

\* Mutant of OthersOwn: any owner is enough, the one who leaves included.
OthersOwnAny(n) == n > 0
\* The owner who leaves is not the last.
OthersOwn(n) == n > 1

CountOwners(r) ==
  /\ pc[r] = "count" /\ CanLock(r)
  /\ \/ /\ OthersOwn(Cardinality(Owners \ removed))
        /\ Lock(r)
        /\ Goto(r, "leave")
        /\ UNCHANGED <<data, sent, req, todo, cut, new, seen>>
     \/ ~OthersOwn(Cardinality(Owners \ removed)) /\ Discard(r)

\* removed_at is set.
Leave(r) ==
  /\ pc[r] = "leave" /\ CanLock(r)
  /\ Lock(r)
  /\ Goto(r, "find")
  /\ UNCHANGED <<data, sent, req, todo, cut, new, seen>>

\* The UPDATE of the user's keys, or of all the tenant's, starts: it will
\* revoke keys it can see now, and that are not revoked once it has them.
FindKeys(t) ==
  /\ pc[t] = "find"
  /\ todo' = [todo EXCEPT ![t] =
       {k \in Keys : /\ keys[k] = "active"
                     /\ t \in Requests => userOf[k] = User(t)}]
  /\ Goto(t, "keys")
  /\ UNCHANGED <<data, sent, req, held, cut, new, seen>>

RevokeAll(t) ==
  /\ pc[t] = "keys" /\ CanLock(t)
  /\ Lock(t)
  /\ cut' = [cut EXCEPT ![t] = {k \in todo[t] : keys[k] = "active"}]
  /\ Goto(t, IF t \in Workers THEN "drop" ELSE "done")
  /\ UNCHANGED <<data, sent, req, todo, new, seen>>

\* The reply has been sent; the transaction commits.
Commit(r) ==
  /\ pc[r] = "done"
  /\ keys' = [k \in Keys |-> IF k \in new[r] THEN "active"
                             ELSE IF k \in cut[r] THEN "revoked" ELSE keys[k]]
  /\ userOf' = [k \in Keys |-> IF k \in new[r] THEN User(r) ELSE userOf[k]]
  /\ heirs' = IF req[r].kind = "rotate"
              THEN [heirs EXCEPT ![req[r].target] = @ \cup new[r]] ELSE heirs
  /\ removed' = IF req[r].kind = "delete" THEN removed \cup {User(r)}
                ELSE removed
  /\ Release(r)
  /\ UNCHANGED <<status, due, tomb, sent>>

\* Any error, a deadlock PostgreSQL breaks, or a crash.
Abort(t) ==
  /\ pc[t] # "idle"
  /\ Discard(t)

-----------------------------------------------------------------------------
(* The purge worker: run_purge_once *)

\* Mutant of Candidate: purge_due_at is compared the wrong way round.
CandidateEarly == status = "deletion_scheduled" /\ ~due
Candidate == status = "deletion_scheduled" /\ due

\* Candidates are listed in a transaction of their own.
List(w) ==
  /\ pc[w] = "idle"
  /\ Candidate
  /\ Goto(w, "load")
  /\ UNCHANGED <<data, sent, req, held, todo, cut, new, seen>>

\* The tenant object is loaded.
Load(w) ==
  /\ pc[w] = "load"
  /\ \/ /\ status # "gone"
        /\ seen' = [seen EXCEPT ![w] = status]
        /\ Goto(w, "lock")
        /\ UNCHANGED <<data, sent, req, held, todo, cut, new>>
     \/ status = "gone" /\ Discard(w)

\* pg_try_advisory_xact_lock: a tenant another worker is at is skipped.
Purging(w) == pc[w] \in {"row", "find", "keys", "drop", "done"}
TryTenant(w) ==
  /\ pc[w] = "lock"
  /\ \/ /\ ~\E v \in Workers \ {w} : Purging(v)
        /\ Goto(w, "row")
        /\ UNCHANGED <<data, sent, req, held, todo, cut, new, seen>>
     \/ /\ \E v \in Workers \ {w} : Purging(v)
        /\ Discard(w)

\* The tenant's row is locked, and the purge goes by the status of the object
\* loaded before: a SELECT does not refresh an object the session has.
LockRow(w) ==
  /\ pc[w] = "row" /\ CanLock(w)
  /\ \/ /\ status # "gone" /\ seen[w] = "deletion_scheduled"
        /\ Lock(w)
        /\ Goto(w, "find")
        /\ UNCHANGED <<data, sent, req, todo, cut, new, seen>>
     \/ /\ status = "gone" \/ seen[w] # "deletion_scheduled"
        /\ Discard(w)

\* DROP SCHEMA, and the DELETE of the tenant with all that hangs on it.
Drop(w) ==
  /\ pc[w] = "drop" /\ CanLock(w)
  /\ Lock(w)
  /\ Goto(w, "done")
  /\ UNCHANGED <<data, sent, req, todo, cut, new, seen>>

\* The tombstone, inserted first and completed last, commits with the rest.
CommitPurge(w) ==
  /\ pc[w] = "done"
  /\ status' = "gone"
  /\ tomb' = "kept"
  /\ Release(w)
  /\ UNCHANGED <<due, removed, keys, userOf, heirs, sent>>

\* A sweep ends by deleting the tombstones that have expired.
ExpireTombstone(w) ==
  /\ pc[w] = "idle"
  /\ tomb = "kept"
  /\ tomb' = "expired"
  /\ UNCHANGED <<status, due, removed, keys, userOf, heirs, sent, work>>

-----------------------------------------------------------------------------
\* The hosted service schedules a deletion, or cancels it, in one UPDATE of the
\* tenant's row, when no other transaction holds the row against it.
TenantFree == \A t \in Transactions : \A h \in held[t] : h[1] # "tenant"

Schedule ==
  /\ status = "active" /\ TenantFree
  /\ status' = "deletion_scheduled" /\ due' = FALSE
  /\ UNCHANGED <<tomb, removed, keys, userOf, heirs, sent, work>>

Cancel ==
  /\ status = "deletion_scheduled" /\ TenantFree
  /\ status' = "active" /\ due' = FALSE
  /\ UNCHANGED <<tomb, removed, keys, userOf, heirs, sent, work>>

\* The grace period ends.
FallDue ==
  /\ status = "deletion_scheduled" /\ ~due
  /\ due' = TRUE
  /\ UNCHANGED <<status, tomb, removed, keys, userOf, heirs, sent, work>>

RequestStep(r) ==
  \/ Send(r) \/ LookUp(r) \/ Use(r) \/ Guard(r) \/ Push(r) \/ Create(r)
  \/ FindKey(r) \/ Revoke(r) \/ Rotate(r) \/ LockTenant(r) \/ CountOwners(r)
  \/ Leave(r) \/ FindKeys(r) \/ RevokeAll(r) \/ Commit(r) \/ Abort(r)

WorkerStep(w) ==
  \/ List(w) \/ Load(w) \/ TryTenant(w) \/ LockRow(w) \/ FindKeys(w)
  \/ RevokeAll(w) \/ Drop(w) \/ CommitPurge(w) \/ ExpireTombstone(w)
  \/ Abort(w)

Next ==
  \/ \E r \in Requests : RequestStep(r)
  \/ \E w \in Workers : WorkerStep(w)
  \/ Schedule \/ Cancel \/ FallDue

Spec == Init /\ [][Next]_vars

-----------------------------------------------------------------------------
\* A tenant keeps an owner, whichever owners leave at once.
OwnerRemains == status # "gone" => Owners \ removed # {}

PastGuard(r) ==
  /\ pc[r] \in {"push", "create", "revoke", "hit", "rotate", "done"}
  /\ req[r].kind # "delete"

\* From its guard to its commit, a write finds the tenant active: a deletion
\* cannot be scheduled, nor a purge end, between the two.
WritesWhileActive == \A r \in Requests : PastGuard(r) => status = "active"

\* A key is rotated once, into one key, however many rotations of it race.
RotatedOnce == \A k \in Keys : Cardinality(heirs[k]) <= 1

\* A user who has left has no key that works.
KeysDieWithUser ==
  \A k \in Keys : keys[k] = "active" => userOf[k] \notin removed

\* A tenant is destroyed only while its deletion is scheduled.
PurgeIsWanted ==
  [][status' = "gone" /\ status # "gone" => status = "deletion_scheduled"]_vars

-----------------------------------------------------------------------------
\* Transactions that wait for one another; PostgreSQL fails one of them.
Deadlocked(t) ==
  \E S \in SUBSET Transactions :
    /\ t \in S
    /\ \A q \in S : \E p \in S \ {q} : Blocks(p, q)
BreakDeadlock(t) == Deadlocked(t) /\ Abort(t)

RequestRuns(r) ==
  \/ LookUp(r) \/ Use(r) \/ Guard(r) \/ Push(r) \/ Create(r) \/ FindKey(r)
  \/ Revoke(r) \/ Rotate(r) \/ LockTenant(r) \/ CountOwners(r) \/ Leave(r)
  \/ FindKeys(r) \/ RevokeAll(r) \/ Commit(r)
WorkerRuns(w) ==
  \/ List(w) \/ Load(w) \/ TryTenant(w) \/ LockRow(w) \/ FindKeys(w)
  \/ RevokeAll(w) \/ Drop(w) \/ CommitPurge(w)

\* A sweep fails, rather than find that there is nothing to purge.
Fails(w) ==
  /\ \/ held[w] # {}
     \/ status = "deletion_scheduled" /\ seen[w] # "active"
  /\ Abort(w)

\* Statements run, deadlocks are broken, sweeps are repeated and do not fail
\* for ever.
FairSpec ==
  /\ Spec
  /\ \A r \in Requests : WF_vars(RequestRuns(r) \/ BreakDeadlock(r))
  /\ \A w \in Workers : WF_vars(WorkerRuns(w))
  /\ <>[][~\E w \in Workers : Fails(w)]_vars

\* Every request ends, although purge and requests lock the tenant's row and the
\* keys' rows in opposite orders.
RequestsEnd == \A r \in Requests : pc[r] # "idle" ~> pc[r] = "idle"

\* A tenant whose deletion is due is purged, unless the deletion is cancelled:
\* a sweep that crashes or loses a deadlock is made up for by a later one.
DueIsPurged ==
  status = "deletion_scheduled" /\ due ~> status \in {"active", "gone"}
=============================================================================
