----------------------------- MODULE TenantSync -----------------------------
(***************************************************************************)
(* What a push does around its entries, in the transaction of EntryLog: it *)
(* brings the tenant's schema up to date once per process, registers the   *)
(* device under the plan's limit, and tells the operator of a tenant's      *)
(* first entries and of its second device.                                  *)
(***************************************************************************)
EXTENDS Naturals, FiniteSets

CONSTANTS
  Pushes,      \* requests in flight
  Processes,   \* of the server: each has its cache and its asyncio lock
  Asks,        \* pushes clients send: user, machine, process, entries
  Limited,     \* whether the plan limits devices
  DeviceLimit, \* max_devices_per_user
  MaxAsked     \* bound: pushes in a behaviour

ASSUME LimitAssumption == DeviceLimit \in Nat

Device(q) == <<q.user, q.machine>>
NoAsk == [user |-> "none", machine |-> "none", proc |-> "none",
          entries |-> FALSE]

VARIABLES
  devices,   \* committed rows of devices, all of which have synced
  migrated,  \* the compatibility DDL is committed
  filled,    \* the tenant has entries
  marker,    \* tenants.second_device_synced_at is set
  young,     \* the tenant registered at most 14 days ago
  cached,    \* processes with the schema in _ENSURED_COMPAT_SCHEMAS
  mutex,     \* pushes that hold or wait under _ENSURE_COMPAT_LOCK
  step,      \* where each push is
  ask,       \* what it was asked
  done,      \* what its transaction has done: its writes and its locks
  told,      \* history: events sent
  missed,    \* history: a claim failed for a reason of its own
  asked

syncVars == <<devices, migrated, filled, marker, young, cached, mutex, step,
              ask, done, told, missed, asked>>
store == <<devices, migrated, filled, marker>>

Deeds ==
  {"share",    \* FOR SHARE on the tenant's row: check_tenant_active
   "ddl",      \* the DDL, and ACCESS EXCLUSIVE on the tenant's tables
   "user",     \* FOR UPDATE on the user's row
   "device",   \* the device is inserted, its user's row held FOR KEY SHARE
   "touch",    \* the device is updated
   "use",      \* ROW EXCLUSIVE on the tenant's tables
   "empty",    \* the watermark was read, and was 0
   "undone",   \* a savepoint was rolled back
   "advisory", \* the tenant's advisory lock
   "marker"}   \* the marker is set, and the tenant's row held

SyncTypeOK ==
  /\ devices \subseteq {Device(q) : q \in Asks}
  /\ {migrated, filled, marker, young, missed} \subseteq BOOLEAN
  /\ cached \subseteq Processes
  /\ mutex \subseteq Pushes
  /\ step \in [Pushes -> {"idle", "guard", "ensure", "ddl", "device", "user",
                          "insert", "update", "work", "lock", "claim",
                          "commit"}]
  /\ ask \in [Pushes -> Asks \cup {NoAsk}]
  /\ done \in [Pushes -> SUBSET Deeds]
  /\ told \in [{"first_sync", "second_device_sync"} -> Nat]
  /\ asked \in Nat

SyncInit ==
  /\ devices = {} /\ migrated \in BOOLEAN /\ filled = FALSE
  /\ marker = FALSE /\ young = TRUE
  /\ cached = {} /\ mutex = {}
  /\ step = [r \in Pushes |-> "idle"]
  /\ ask = [r \in Pushes |-> NoAsk]
  /\ done = [r \in Pushes |-> {}]
  /\ told = [e \in {"first_sync", "second_device_sync"} |-> 0]
  /\ missed = FALSE /\ asked = 0

-----------------------------------------------------------------------------
(* Locks *)

SameUser(q, r)   == ask[q].user = ask[r].user
SameDevice(q, r) == Device(ask[q]) = Device(ask[r])

\* Mutant of Holds: the user's row is read without FOR UPDATE.
HoldsLess(q, r) ==
  CASE step[r] = "guard"  -> "marker" \in done[q]
    [] step[r] = "ddl"    -> done[q] \cap {"ddl", "use"} # {}
    [] step[r] = "insert" -> "device" \in done[q] /\ SameDevice(q, r)
    [] step[r] = "update" -> "touch" \in done[q] /\ SameDevice(q, r)
    [] step[r] = "work"   -> "ddl" \in done[q]
    [] step[r] = "lock"   -> "advisory" \in done[q]
    [] step[r] = "claim"  -> done[q] \cap {"share", "marker"} # {}
    [] OTHER              -> FALSE

\* The locks of q that r's next statement waits for.
Holds(q, r) ==
  CASE step[r] = "user"   -> done[q] \cap {"user", "device"} # {}
                               /\ SameUser(q, r)
    [] step[r] = "insert" -> \/ "user" \in done[q] /\ SameUser(q, r)
                             \/ "device" \in done[q] /\ SameDevice(q, r)
    [] OTHER              -> HoldsLess(q, r)

WaitsFor(r)   == {q \in Pushes \ {r} : Holds(q, r)}
Unhindered(r) == WaitsFor(r) = {}

Goes(r, place, deeds) ==
  /\ step' = [step EXCEPT ![r] = place]
  /\ done' = [done EXCEPT ![r] = @ \cup deeds]

\* The transaction is over, and with it the locks and the asyncio lock.
Over(r) ==
  /\ step' = [step EXCEPT ![r] = "idle"]
  /\ ask' = [ask EXCEPT ![r] = NoAsk]
  /\ done' = [done EXCEPT ![r] = {}]
  /\ mutex' = mutex \ {r}

-----------------------------------------------------------------------------
(* A push *)

Arrive(r) ==
  /\ step[r] = "idle" /\ asked < MaxAsked
  /\ \E q \in Asks : ask' = [ask EXCEPT ![r] = q]
  /\ asked' = asked + 1
  /\ Goes(r, "guard", {})
  /\ UNCHANGED <<store, young, cached, mutex, told, missed>>

CheckActive(r) ==
  /\ step[r] = "guard" /\ Unhindered(r)
  /\ Goes(r, "ensure", {"share"})
  /\ UNCHANGED <<store, young, cached, mutex, ask, told, missed, asked>>

\* ensure_tenant_schema_compat: the cache is looked at before the process's
\* lock is waited for, and again under it.
SkipCompat(r) ==
  /\ step[r] = "ensure" /\ ask[r].proc \in cached
  /\ Goes(r, "device", {})
  /\ UNCHANGED <<store, young, cached, mutex, ask, told, missed, asked>>

EnterCompat(r) ==
  /\ step[r] = "ensure" /\ ask[r].proc \notin cached
  /\ \A q \in mutex : ask[q].proc # ask[r].proc
  /\ mutex' = mutex \cup {r}
  /\ Goes(r, "ddl", {})
  /\ UNCHANGED <<store, young, cached, ask, told, missed, asked>>

RunCompat(r) ==
  /\ step[r] = "ddl" /\ Unhindered(r)
  /\ mutex' = mutex \ {r}
  /\ Goes(r, "device", {"ddl"})
  /\ UNCHANGED <<store, young, cached, ask, told, missed, asked>>

\* The device is looked up: known, new, or new under a limit.
FindDevice(r) ==
  /\ step[r] = "device"
  /\ Goes(r, IF Device(ask[r]) \in devices THEN "update"
             ELSE IF Limited THEN "user" ELSE "insert", {})
  /\ UNCHANGED <<store, young, cached, mutex, ask, told, missed, asked>>

\* Mutant of TooMany: the new device is not counted.
TooManyOff(r) == Cardinality({d \in devices : d[1] = ask[r].user}) > DeviceLimit
TooMany(r) == Cardinality({d \in devices : d[1] = ask[r].user}) >= DeviceLimit

\* With the user's row locked it is looked up again, and devices are counted.
CountDevices(r) ==
  /\ step[r] = "user" /\ Unhindered(r)
  /\ LET known == Device(ask[r]) \in devices
     IN \/ /\ known \/ ~TooMany(r)
           /\ Goes(r, IF known THEN "update" ELSE "insert", {"user"})
           /\ UNCHANGED <<mutex, ask>>
        \/ ~known /\ TooMany(r) /\ Over(r)
  /\ UNCHANGED <<store, young, cached, told, missed, asked>>

\* A row that another push has inserted meanwhile fails the INSERT.
InsertDevice(r) ==
  /\ step[r] = "insert" /\ Unhindered(r)
  /\ Device(ask[r]) \notin devices
  /\ Goes(r, "work", {"device"})
  /\ UNCHANGED <<store, young, cached, mutex, ask, told, missed, asked>>

UpdateDevice(r) ==
  /\ step[r] = "update" /\ Unhindered(r)
  /\ Goes(r, "work", {"touch"})
  /\ UNCHANGED <<store, young, cached, mutex, ask, told, missed, asked>>

\* The watermark is read and the entries are stored; a new device goes on to
\* the claim.
Work(r) ==
  /\ step[r] = "work" /\ Unhindered(r)
  /\ LET empty == ~filled /\ ask[r].entries
     IN /\ told' = IF empty THEN [told EXCEPT !["first_sync"] = @ + 1] ELSE told
        /\ Goes(r, IF "device" \in done[r] THEN "lock" ELSE "commit",
                {"use"} \cup IF empty THEN {"empty"} ELSE {})
  /\ UNCHANGED <<store, young, cached, mutex, ask, missed, asked>>

LockTenantSync(r) ==
  /\ step[r] = "lock" /\ Unhindered(r)
  /\ Goes(r, "claim", {"advisory"})
  /\ UNCHANGED <<store, young, cached, mutex, ask, told, missed, asked>>

\* Mutant of Enough: devices of its own transaction are not counted.
EnoughCommitted(r) == Cardinality(devices) >= 2
\* The devices a statement of r sees are two.
Enough(r) == Cardinality(devices \cup {Device(ask[r])}) >= 2

\* The marker is claimed and the event sent, when the second device is there
\* in time and nobody has claimed it.
Claim(r) ==
  /\ step[r] = "claim"
  /\ \/ /\ Enough(r) /\ young /\ Unhindered(r) /\ ~marker
        /\ told' = [told EXCEPT !["second_device_sync"] = @ + 1]
        /\ Goes(r, "commit", {"marker"})
     \/ /\ ~Enough(r) \/ ~young \/ marker
        /\ Goes(r, "commit", {})
        /\ UNCHANGED told
  /\ UNCHANGED <<store, young, cached, mutex, ask, missed, asked>>

\* The claim's savepoint is rolled back, with its locks; the push goes on.
LoseClaim(r) ==
  /\ step[r] \in {"lock", "claim"}
  /\ step' = [step EXCEPT ![r] = "commit"]
  /\ done' = [done EXCEPT ![r] = (@ \ {"advisory"}) \cup {"undone"}]
  /\ missed' = TRUE
  /\ UNCHANGED <<store, young, cached, mutex, ask, told, asked>>

\* Mutant of Publishes: the listener does not look at how the transaction ends.
PublishesAlways(r, committed) == "ddl" \in done[r]
\* after_commit of a transaction whose DDL no rollback may have undone.
Publishes(r, committed) ==
  committed /\ "ddl" \in done[r] /\ "undone" \notin done[r]

Publish(r, committed) ==
  cached' = IF Publishes(r, committed) THEN cached \cup {ask[r].proc}
            ELSE cached

CommitPush(r) ==
  /\ step[r] = "commit"
  /\ devices' = IF "device" \in done[r] THEN devices \cup {Device(ask[r])}
                ELSE devices
  /\ migrated' = (migrated \/ "ddl" \in done[r])
  /\ filled' = (filled \/ ask[r].entries)
  /\ marker' = (marker \/ "marker" \in done[r])
  /\ Publish(r, TRUE)
  /\ Over(r)
  /\ UNCHANGED <<young, told, missed, asked>>

\* An error, a lost deadlock outside the claim, a failing COMMIT.
AbortPush(r) ==
  /\ step[r] # "idle"
  /\ Publish(r, FALSE)
  /\ Over(r)
  /\ UNCHANGED <<store, young, told, missed, asked>>

\* A process restarts: its cache is empty, and its pushes are lost.
Restart(p) ==
  /\ LET lost == {r \in Pushes : ask[r].proc = p}
     IN /\ lost # {} \/ p \in cached
        /\ step' = [r \in Pushes |-> IF r \in lost THEN "idle" ELSE step[r]]
        /\ ask' = [r \in Pushes |-> IF r \in lost THEN NoAsk ELSE ask[r]]
        /\ done' = [r \in Pushes |-> IF r \in lost THEN {} ELSE done[r]]
        /\ mutex' = mutex \ lost
  /\ cached' = cached \ {p}
  /\ UNCHANGED <<store, young, told, missed, asked>>

Age ==
  /\ young /\ young' = FALSE
  /\ UNCHANGED <<store, cached, mutex, step, ask, done, told, missed, asked>>

\* Pushes that wait for one another; PostgreSQL fails a statement of one.
Stuck(r) ==
  \E S \in SUBSET Pushes : r \in S /\ \A q \in S : WaitsFor(q) \cap S # {}

PushSteps(r) ==
  \/ CheckActive(r) \/ SkipCompat(r) \/ EnterCompat(r) \/ RunCompat(r)
  \/ FindDevice(r) \/ CountDevices(r) \/ InsertDevice(r) \/ UpdateDevice(r)
  \/ Work(r) \/ LockTenantSync(r) \/ Claim(r) \/ CommitPush(r)

SyncNext ==
  \/ \E r \in Pushes :
       \/ Arrive(r) \/ PushSteps(r)
       \/ LoseClaim(r) \/ AbortPush(r)
  \/ \E p \in Processes : Restart(p)
  \/ Age

SyncSpec == SyncInit /\ [][SyncNext]_syncVars

-----------------------------------------------------------------------------
(* What holds around the entries *)

\* A push works on the tenant's tables only when they have the columns it
\* needs: the cache tells of a committed DDL, never of one that another
\* transaction may still take back.
SchemaBeforeUse ==
  \A r \in Pushes : "use" \in done[r] => migrated \/ "ddl" \in done[r]

\* However many new devices of a user push at once, the plan's limit holds.
DeviceLimitHolds ==
  Limited =>
    \A d \in devices :
      Cardinality({e \in devices : e[1] = d[1]}) <= DeviceLimit

\* A tenant's second device is not missed: two first pushes at once do not
\* both count one device, and a broken deadlock does not lose the claim.
SecondDeviceSeen ==
  Cardinality(devices) >= 2 /\ young /\ ~missed => marker

\* What the comment at sync.py:1815 says of the claim's lock: "one consistent
\* acquire order across all requests -> no deadlock".
NoDeadlock == \A r \in Pushes : ~Stuck(r)
=============================================================================
