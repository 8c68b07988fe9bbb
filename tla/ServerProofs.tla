---------------------------- MODULE ServerProofs ----------------------------
(* Proofs about the parts of the server that MCServer puts together: each part *)
(* has a specification of its own, and its theorems hold for every value of    *)
(* its constants.                                                              *)
EXTENDS AuthMail, TenantSync, Projects, RateLimits, FiniteSetTheorems, TLAPS

-----------------------------------------------------------------------------
(* TenantSync: the schema, the devices and the activation                     *)

-----------------------------------------------------------------------------
(* What a step of a push leaves alone *)

Shape ==
  /\ step = [r \in Pushes |-> step[r]]
  /\ ask = [r \in Pushes |-> ask[r]]
  /\ done = [r \in Pushes |-> done[r]]

PushStep(r) == Arrive(r) \/ PushSteps(r) \/ LoseClaim(r) \/ AbortPush(r)

OthersStay(r) ==
  \A q \in Pushes \ {r} :
    step'[q] = step[q] /\ ask'[q] = ask[q] /\ done'[q] = done[q]

\* A push that goes on adds to its deeds and keeps its question.
LEMMA GoesOn ==
  ASSUME Shape, NEW r \in Pushes, NEW place, NEW deeds, Goes(r, place, deeds)
  PROVE  /\ step'[r] = place /\ done'[r] = done[r] \cup deeds
         /\ \A q \in Pushes \ {r} : step'[q] = step[q] /\ done'[q] = done[q]
         /\ step' = [q \in Pushes |-> step'[q]]
         /\ done' = [q \in Pushes |-> done'[q]]
BY DEF Goes, Shape

LEMMA IsOver ==
  ASSUME Shape, NEW r \in Pushes, Over(r)
  PROVE  /\ step'[r] = "idle" /\ done'[r] = {} /\ ask'[r] = NoAsk
         /\ OthersStay(r) /\ Shape'
BY DEF Over, Shape, OthersStay

LEMMA AskStays ==
  ASSUME Shape, NEW r \in Pushes, ask' = ask, NEW place, NEW deeds, Goes(r, place, deeds)
  PROVE  OthersStay(r) /\ Shape' /\ ask'[r] = ask[r]
BY GoesOn DEF OthersStay, Shape

LEMMA StepLocal ==
  ASSUME Shape, NEW r \in Pushes, PushStep(r)
  PROVE  OthersStay(r) /\ Shape'
<1>1. ASSUME NEW place, NEW deeds, Goes(r, place, deeds), ask' = ask
      PROVE  OthersStay(r) /\ Shape'
  BY <1>1, AskStays
<1>2. CASE Over(r)
  BY <1>2, IsOver
<1>3. CASE Arrive(r)
  <2>1. PICK q \in Asks : ask' = [ask EXCEPT ![r] = q]
    BY <1>3 DEF Arrive
  <2>2. Goes(r, "guard", {})
    BY <1>3 DEF Arrive
  <2> QED
    BY <2>1, <2>2, GoesOn DEF OthersStay, Shape
<1>4. CASE LoseClaim(r)
  BY <1>4 DEF LoseClaim, OthersStay, Shape
<1>5. CASE CheckActive(r) \/ SkipCompat(r) \/ EnterCompat(r) \/ RunCompat(r) \/ FindDevice(r)
  BY <1>1, <1>5 DEF CheckActive, SkipCompat, EnterCompat, RunCompat, FindDevice
<1>6. CASE CountDevices(r)
  BY <1>1, <1>2, <1>6 DEF CountDevices
<1>7. CASE InsertDevice(r) \/ UpdateDevice(r) \/ Work(r) \/ LockTenantSync(r) \/ Claim(r)
  BY <1>1, <1>7 DEF InsertDevice, UpdateDevice, Work, LockTenantSync, Claim
<1>8. CASE CommitPush(r) \/ AbortPush(r)
  BY <1>2, <1>8 DEF CommitPush, AbortPush
<1> QED
  BY <1>3, <1>4, <1>5, <1>6, <1>7, <1>8 DEF PushStep, PushSteps

LEMMA RestartLocal ==
  ASSUME NEW p \in Processes, Restart(p)
  PROVE  /\ Shape'
         /\ \A q \in Pushes :
              \/ step'[q] = "idle" /\ done'[q] = {}
              \/ step'[q] = step[q] /\ ask'[q] = ask[q] /\ done'[q] = done[q]
BY DEF Restart, Shape

-----------------------------------------------------------------------------
(* The schema *)

Past == {"device", "user", "insert", "update", "work", "lock", "claim", "commit"}

SchemaInv ==
  /\ \A p \in cached : migrated
  /\ \A r \in Pushes :
       /\ step[r] \in Past => migrated \/ "ddl" \in done[r]
       /\ "use" \in done[r] => step[r] \in {"lock", "claim", "commit"}

\* A push that goes on where it has the columns, if the cache stays.
LEMMA SchemaStep ==
  ASSUME Shape, SchemaInv, NEW r \in Pushes, OthersStay(r), migrated' = migrated,
         cached' = cached,
         step'[r] \in Past => migrated \/ "ddl" \in done'[r],
         "use" \in done'[r] => step'[r] \in {"lock", "claim", "commit"}
  PROVE  SchemaInv'
BY DEF SchemaInv, OthersStay

LEMMA SchemaNext == Shape /\ SchemaInv /\ [SyncNext]_syncVars => (Shape /\ SchemaInv)'
<1> SUFFICES ASSUME Shape, SchemaInv, [SyncNext]_syncVars
             PROVE  (Shape /\ SchemaInv)'
  OBVIOUS
<1>1. ASSUME NEW r \in Pushes, PushStep(r)
      PROVE  (Shape /\ SchemaInv)'
  <2>1. OthersStay(r) /\ Shape'
    BY <1>1, StepLocal
  <2>2. CASE Arrive(r) \/ CheckActive(r) \/ EnterCompat(r)
    BY <2>1, <2>2, GoesOn, SchemaStep
       DEF Arrive, CheckActive, EnterCompat, store, Past, SchemaInv
  <2>3. CASE SkipCompat(r)
    BY <2>1, <2>3, GoesOn, SchemaStep DEF SkipCompat, store, SchemaInv
  <2>4. CASE RunCompat(r)
    BY <2>1, <2>4, GoesOn, SchemaStep DEF RunCompat, store, SchemaInv
  <2>5. CASE FindDevice(r) \/ InsertDevice(r) \/ UpdateDevice(r)
    BY <2>1, <2>5, GoesOn, SchemaStep
       DEF FindDevice, InsertDevice, UpdateDevice, store, Past, SchemaInv
  <2>6. CASE CountDevices(r)
    BY <2>1, <2>6, GoesOn, IsOver, SchemaStep DEF CountDevices, store, Past, SchemaInv
  <2>7. CASE Work(r)
    BY <2>1, <2>7, GoesOn, SchemaStep DEF Work, store, Past, SchemaInv
  <2>8. CASE LockTenantSync(r) \/ Claim(r)
    BY <2>1, <2>8, GoesOn, SchemaStep DEF LockTenantSync, Claim, store, Past, SchemaInv
  <2>9. CASE LoseClaim(r)
    <3>1. step'[r] = "commit" /\ ("ddl" \in done[r] => "ddl" \in done'[r])
      BY <2>9 DEF LoseClaim, Shape
    <3> QED
      BY <2>1, <2>9, <3>1, SchemaStep DEF LoseClaim, store, Past, SchemaInv
  <2>10. CASE CommitPush(r)
    <3>1. /\ migrated => migrated'
          /\ \A p \in cached' : p \in cached \/ migrated'
      BY <2>10 DEF CommitPush, Publish, Publishes
    <3>2. step'[r] = "idle" /\ done'[r] = {}
      BY <2>10, IsOver DEF CommitPush
    <3> QED
      BY <2>1, <3>1, <3>2 DEF SchemaInv, OthersStay, Past
  <2>11. CASE AbortPush(r)
    BY <2>1, <2>11, IsOver, SchemaStep DEF AbortPush, Publish, Publishes, store, Past
  <2> QED
    BY <1>1, <2>2, <2>3, <2>4, <2>5, <2>6, <2>7, <2>8, <2>9, <2>10, <2>11
       DEF PushStep, PushSteps
<1>2. ASSUME NEW p \in Processes, Restart(p)
      PROVE  (Shape /\ SchemaInv)'
  <2>1. migrated' = migrated /\ cached' \subseteq cached
    BY <1>2 DEF Restart, store
  <2> QED
    BY <1>2, <2>1, RestartLocal DEF SchemaInv, Past
<1>3. CASE Age
  BY <1>3 DEF Age, store, Shape, SchemaInv
<1>4. CASE UNCHANGED syncVars
  BY <1>4 DEF syncVars, Shape, SchemaInv
<1> QED
  BY <1>1, <1>2, <1>3, <1>4 DEF SyncNext, PushStep

\* A push that works on the tenant's tables finds the columns it needs there,
\* whatever transactions roll back and processes restart.
THEOREM SchemaReady == SyncSpec => []SchemaBeforeUse
<1>1. SyncInit => Shape /\ SchemaInv
  BY DEF SyncInit, Shape, SchemaInv, Past
<1>2. SchemaInv => SchemaBeforeUse
  BY DEF SchemaInv, SchemaBeforeUse, Past
<1> QED
  BY <1>1, <1>2, SchemaNext, PTL DEF SyncSpec

-----------------------------------------------------------------------------
(* The device limit *)

Mine(u) == {d \in devices : d[1] = u}

LimitInv ==
  /\ IsFiniteSet(devices)
  /\ \A q, r \in Pushes :
       q # r /\ "user" \in done[q] /\ "user" \in done[r] => ~SameUser(q, r)
  /\ \A r \in Pushes : step[r] = "idle" => done[r] = {}
  /\ \A r \in Pushes :
       "device" \in done[r] => step[r] \in {"work", "lock", "claim", "commit"}
  /\ Limited => \A r \in Pushes : step[r] = "insert" \/ "device" \in done[r] =>
       "user" \in done[r] /\ Cardinality(Mine(ask[r].user)) < DeviceLimit
  /\ Limited => \A u : Cardinality(Mine(u)) <= DeviceLimit

LEMMA LimitStep ==
  ASSUME Shape, LimitInv, NEW r \in Pushes, OthersStay(r), devices' = devices,
         step'[r] = "idle" => done'[r] = {},
         "user" \in done'[r] =>
           /\ ask'[r] = ask[r]
           /\ \A q \in Pushes \ {r} : "user" \in done[q] => ~SameUser(q, r),
         "device" \in done'[r] => step'[r] \in {"work", "lock", "claim", "commit"},
         Limited /\ (step'[r] = "insert" \/ "device" \in done'[r]) =>
           "user" \in done'[r] /\ Cardinality(Mine(ask'[r].user)) < DeviceLimit
  PROVE  LimitInv'
<1>1. \A u : Mine(u)' = Mine(u)
  BY DEF Mine
<1>2. IsFiniteSet(devices')
  BY DEF LimitInv
<1>3. ASSUME NEW q \in Pushes, NEW o \in Pushes, q # o,
             "user" \in done'[q], "user" \in done'[o]
      PROVE  ask'[q].user # ask'[o].user
  BY <1>3 DEF LimitInv, OthersStay, SameUser
<1>4. ASSUME NEW q \in Pushes
      PROVE  /\ step'[q] = "idle" => done'[q] = {}
             /\ "device" \in done'[q] => step'[q] \in {"work", "lock", "claim", "commit"}
  BY DEF LimitInv, OthersStay
<1>5. ASSUME Limited, NEW q \in Pushes, step'[q] = "insert" \/ "device" \in done'[q]
      PROVE  "user" \in done'[q] /\ Cardinality(Mine(ask'[q].user)) < DeviceLimit
  BY <1>5 DEF LimitInv, OthersStay
<1> HIDE DEF Mine
<1>6. Limited => \A u : Cardinality(Mine(u)) <= DeviceLimit
  BY DEF LimitInv
<1> QED
  BY <1>1, <1>2, <1>3, <1>4, <1>5, <1>6 DEF LimitInv, SameUser

LEMMA LimitCommit ==
  ASSUME Shape, LimitInv, NEW r \in Pushes, CommitPush(r)
  PROVE  LimitInv'
<1>0. PICK mine : mine = ask[r].user
  OBVIOUS
<1>1. OthersStay(r) /\ step'[r] = "idle" /\ done'[r] = {}
  BY IsOver DEF CommitPush
<1>2. CASE "device" \notin done[r]
  BY <1>1, <1>2, LimitStep DEF CommitPush
<1>3. CASE "device" \in done[r]
  <2>1. devices' = devices \cup {Device(ask[r])} /\ Device(ask[r])[1] = mine
    BY <1>0, <1>3 DEF CommitPush, Device
  <2>2. \A u : u # mine => Mine(u)' = Mine(u)
    BY <2>1 DEF Mine
  <2>3. Mine(mine)' = Mine(mine) \cup {Device(ask[r])}
    BY <2>1 DEF Mine
  <2>4. IsFiniteSet(devices') /\ \A u : IsFiniteSet(Mine(u))
    BY <2>1, FS_AddElement, FS_Subset DEF LimitInv, Mine
  <2>5. Limited => Cardinality(Mine(mine)') <= DeviceLimit
    <3>1. /\ Cardinality(Mine(mine)') <= Cardinality(Mine(mine)) + 1
          /\ Cardinality(Mine(mine)) \in Nat /\ Cardinality(Mine(mine)') \in Nat
      <4>1. ASSUME NEW m, IsFiniteSet(m), NEW d
            PROVE  /\ Cardinality(m) \in Nat /\ Cardinality(m \cup {d}) \in Nat
                   /\ Cardinality(m \cup {d}) <= Cardinality(m) + 1
        <5>1. Cardinality(m) \in Nat
          BY <4>1, FS_CardinalityType
        <5>2. Cardinality(m \cup {d}) =
                IF d \in m THEN Cardinality(m) ELSE Cardinality(m) + 1
          BY <4>1, FS_AddElement
        <5> QED
          BY <5>1, <5>2
      <4> QED
        BY <2>3, <2>4, <4>1
    <3>2. Limited => Cardinality(Mine(mine)) < DeviceLimit
      BY <1>0, <1>3 DEF LimitInv
    <3> QED
      BY <3>1, <3>2, LimitAssumption
  <2>6. \A u : Limited => Cardinality(Mine(u)') <= DeviceLimit
    BY <2>2, <2>5 DEF LimitInv
  <2>7. ASSUME Limited, NEW q \in Pushes, step'[q] = "insert" \/ "device" \in done'[q]
        PROVE  "user" \in done'[q] /\ Cardinality(Mine(ask[q].user)') < DeviceLimit
    <3>1. q # r /\ step'[q] = step[q] /\ ask'[q] = ask[q] /\ done'[q] = done[q]
      BY <1>1, <2>7 DEF OthersStay
    <3>2. "user" \in done[q] /\ "user" \in done[r]
      BY <1>3, <2>7, <3>1 DEF LimitInv
    <3>3. ask[q].user # mine
      BY <1>0, <3>1, <3>2 DEF LimitInv, SameUser
    <3>4. PICK u : u = ask[q].user
      OBVIOUS
    <3>5. Cardinality(Mine(u)) < DeviceLimit
      BY <2>7, <3>1, <3>4 DEF LimitInv
    <3>6. Cardinality(Mine(u)') < DeviceLimit
      BY <2>2, <3>3, <3>4, <3>5
    <3>7. u = ask'[q].user
      BY <3>1, <3>4
    <3> QED
      BY <3>2, <3>1, <3>6, <3>7
  <2>8. ASSUME NEW q \in Pushes, NEW o \in Pushes, q # o,
               "user" \in done'[q], "user" \in done'[o]
        PROVE  ask'[q].user # ask'[o].user
    BY <1>1, <2>8 DEF LimitInv, OthersStay, SameUser
  <2>9. ASSUME NEW q \in Pushes
        PROVE  /\ step'[q] = "idle" => done'[q] = {}
               /\ "device" \in done'[q] => step'[q] \in {"work", "lock", "claim", "commit"}
    BY <1>1 DEF LimitInv, OthersStay
  <2> QED
    BY <2>4, <2>6, <2>7, <2>8, <2>9 DEF LimitInv, SameUser
<1> QED
  BY <1>2, <1>3

LEMMA LimitNext == Shape /\ LimitInv /\ [SyncNext]_syncVars => LimitInv'
<1> SUFFICES ASSUME Shape, LimitInv, [SyncNext]_syncVars
             PROVE  LimitInv'
  OBVIOUS
<1>1. ASSUME NEW r \in Pushes, PushStep(r)
      PROVE  LimitInv'
  <2>1. OthersStay(r)
    BY <1>1, StepLocal
  <2>2. "user" \in done[r] => \A q \in Pushes \ {r} : "user" \in done[q] => ~SameUser(q, r)
    BY DEF LimitInv, SameUser
  <2>3. CASE Arrive(r)
    BY <2>1, <2>3, GoesOn, LimitStep DEF Arrive, store, LimitInv
  <2>4. CASE CheckActive(r) \/ SkipCompat(r) \/ EnterCompat(r) \/ RunCompat(r)
    BY <2>1, <2>2, <2>4, GoesOn, LimitStep
       DEF CheckActive, SkipCompat, EnterCompat, RunCompat, store, LimitInv
  <2>5. CASE FindDevice(r)
    BY <2>1, <2>2, <2>5, GoesOn, LimitStep DEF FindDevice, store, LimitInv
  <2>6. CASE CountDevices(r)
    <3>1. CASE Over(r)
      BY <2>1, <2>6, <3>1, IsOver, LimitStep DEF CountDevices, store
    <3>2. CASE ~Over(r)
      <4>1. \A q \in Pushes \ {r} : "user" \in done[q] => ~SameUser(q, r)
        BY <2>6 DEF CountDevices, Unhindered, WaitsFor, Holds
      <4>2. Cardinality(Mine(ask[r].user)) \in Nat
        BY FS_Subset, FS_CardinalityType DEF LimitInv, Mine
      <4>3. PICK place \in {"update", "insert"} :
              /\ Goes(r, place, {"user"})
              /\ place = "insert" => ~TooMany(r)
        BY <2>6, <3>2 DEF CountDevices
      <4>4. place = "insert" => Cardinality(Mine(ask[r].user)) < DeviceLimit
        BY <4>2, <4>3, LimitAssumption DEF TooMany, Mine
      <4>5. devices' = devices /\ ask' = ask /\ "device" \notin done[r]
        BY <2>6, <3>2 DEF CountDevices, store, LimitInv
      <4> QED
        BY <2>1, <4>1, <4>3, <4>4, <4>5, GoesOn, LimitStep
    <3> QED
      BY <3>1, <3>2
  <2>7. CASE InsertDevice(r) \/ UpdateDevice(r)
    BY <2>1, <2>2, <2>7, GoesOn, LimitStep DEF InsertDevice, UpdateDevice, store, LimitInv
  <2>8. CASE Work(r)
    BY <2>1, <2>2, <2>8, GoesOn, LimitStep DEF Work, store, LimitInv
  <2>9. CASE LockTenantSync(r) \/ Claim(r)
    BY <2>1, <2>2, <2>9, GoesOn, LimitStep DEF LockTenantSync, Claim, store, LimitInv
  <2>10. CASE LoseClaim(r)
    <3>1. /\ step'[r] = "commit" /\ ask' = ask /\ devices' = devices
          /\ "user" \in done'[r] => "user" \in done[r]
          /\ "device" \in done'[r] => "device" \in done[r]
          /\ "user" \in done[r] => "user" \in done'[r]
      BY <2>10 DEF LoseClaim, Shape, store
    <3> QED
      BY <2>1, <2>2, <3>1, LimitStep DEF LimitInv
  <2>11. CASE CommitPush(r)
    BY <2>11, LimitCommit
  <2>12. CASE AbortPush(r)
    BY <2>1, <2>12, IsOver, LimitStep DEF AbortPush, store
  <2> QED
    BY <1>1, <2>3, <2>4, <2>5, <2>6, <2>7, <2>8, <2>9, <2>10, <2>11, <2>12
       DEF PushStep, PushSteps
<1>2. ASSUME NEW p \in Processes, Restart(p)
      PROVE  LimitInv'
  <2>1. devices' = devices /\ \A u : Mine(u)' = Mine(u)
    BY <1>2 DEF Restart, store, Mine
  <2>2. \A q \in Pushes :
          \/ step'[q] = "idle" /\ done'[q] = {}
          \/ step'[q] = step[q] /\ ask'[q] = ask[q] /\ done'[q] = done[q]
    BY <1>2, RestartLocal
  <2>3. ASSUME NEW q \in Pushes, NEW o \in Pushes, q # o,
               "user" \in done'[q], "user" \in done'[o]
        PROVE  ask'[q].user # ask'[o].user
    BY <2>2, <2>3 DEF LimitInv, SameUser
  <2> QED
    BY <2>1, <2>2, <2>3 DEF LimitInv, SameUser
<1>3. CASE Age
  BY <1>3 DEF Age, store, LimitInv, Mine, SameUser
<1>4. CASE UNCHANGED syncVars
  BY <1>4 DEF syncVars, LimitInv, Mine, SameUser
<1> QED
  BY <1>1, <1>2, <1>3, <1>4 DEF SyncNext, PushStep

\* However many new devices of a user push at once, no user has more than the plan
\* allows.
THEOREM DevicesLimited == SyncSpec => []DeviceLimitHolds
<1>1. SyncInit => Shape /\ SchemaInv /\ LimitInv
  <2>1. SyncInit => Shape /\ SchemaInv
    BY DEF SyncInit, Shape, SchemaInv, Past
  <2>2. ASSUME SyncInit PROVE LimitInv
    <3>1. \A u : Mine(u) = {}
      BY <2>2 DEF SyncInit, Mine
    <3> QED
      BY <2>2, <3>1, FS_EmptySet, LimitAssumption DEF SyncInit, LimitInv
  <2> QED
    BY <2>1, <2>2
<1>2. LimitInv => DeviceLimitHolds
  BY DEF LimitInv, DeviceLimitHolds, Mine
<1> QED
  BY <1>1, <1>2, SchemaNext, LimitNext, PTL DEF SyncSpec

-----------------------------------------------------------------------------
(* The second device *)

ClaimInv ==
  /\ IsFiniteSet(devices)
  /\ \A q, r \in Pushes : q # r => ~("advisory" \in done[q] /\ "advisory" \in done[r])
  /\ \A r \in Pushes :
       /\ step[r] = "idle" => done[r] = {}
       /\ "device" \in done[r] => step[r] \in {"work", "lock", "claim", "commit"}
       /\ "marker" \in done[r] => step[r] = "commit"
       /\ step[r] = "claim" => "advisory" \in done[r]
       /\ step[r] = "commit" /\ "device" \in done[r] /\ ~missed =>
            /\ "advisory" \in done[r]
            /\ young =>
                 marker \/ "marker" \in done[r] \/ devices \subseteq {Device(ask[r])}
  /\ SecondDeviceSeen

LEMMA ClaimStep ==
  ASSUME Shape, ClaimInv, NEW r \in Pushes, OthersStay(r),
         devices' = devices, marker' = marker, young' = young, missed' = missed,
         "advisory" \in done'[r] => \A q \in Pushes \ {r} : "advisory" \notin done[q],
         step'[r] = "idle" => done'[r] = {},
         "device" \in done'[r] => step'[r] \in {"work", "lock", "claim", "commit"},
         "marker" \in done'[r] => step'[r] = "commit",
         step'[r] = "claim" => "advisory" \in done'[r],
         step'[r] = "commit" /\ "device" \in done'[r] /\ ~missed =>
           /\ "advisory" \in done'[r]
           /\ young =>
                marker \/ "marker" \in done'[r] \/ devices \subseteq {Device(ask'[r])}
  PROVE  ClaimInv'
<1>1. ASSUME NEW q \in Pushes, NEW o \in Pushes, q # o
      PROVE  ~("advisory" \in done'[q] /\ "advisory" \in done'[o])
  BY <1>1 DEF ClaimInv, OthersStay
<1>2. ASSUME NEW q \in Pushes
      PROVE  /\ step'[q] = "idle" => done'[q] = {}
             /\ "device" \in done'[q] => step'[q] \in {"work", "lock", "claim", "commit"}
             /\ "marker" \in done'[q] => step'[q] = "commit"
             /\ step'[q] = "claim" => "advisory" \in done'[q]
             /\ step'[q] = "commit" /\ "device" \in done'[q] /\ ~missed =>
                  /\ "advisory" \in done'[q]
                  /\ young =>
                       marker \/ "marker" \in done'[q] \/ devices \subseteq {Device(ask'[q])}
  BY DEF ClaimInv, OthersStay
<1> QED
  BY <1>1, <1>2 DEF ClaimInv, SecondDeviceSeen

\* Two devices are not both the only one.
LEMMA OnlyOne ==
  ASSUME IsFiniteSet(devices), NEW d
  PROVE  /\ Cardinality(devices \cup {d}) < 2 => devices \subseteq {d}
         /\ devices \subseteq {d} => Cardinality(devices \cup {d}) < 2
<1>1. ASSUME NEW e \in devices, e # d PROVE Cardinality(devices \cup {d}) >= 2
  <2>1. IsFiniteSet(devices \cup {d}) /\ {e, d} \subseteq devices \cup {d}
    BY FS_AddElement
  <2>2. Cardinality({d}) = 1 /\ IsFiniteSet({d})
    BY FS_Singleton
  <2>3. Cardinality({d} \cup {e}) = 2
    BY <1>1, <2>2, FS_AddElement
  <2>4. {d} \cup {e} \subseteq devices \cup {d}
    BY <2>1
  <2>5. /\ Cardinality({d} \cup {e}) <= Cardinality(devices \cup {d})
        /\ Cardinality(devices \cup {d}) \in Nat
    BY <2>1, <2>4, FS_Subset, FS_CardinalityType
  <2> QED
    BY <2>3, <2>5
<1>2. Cardinality(devices \cup {d}) \in Nat
  BY FS_AddElement, FS_CardinalityType
<1>3. ASSUME devices \subseteq {d} PROVE Cardinality(devices \cup {d}) = 1
  <2>1. devices \cup {d} = {d}
    BY <1>3
  <2> QED
    BY <2>1, FS_Singleton
<1> QED
  BY <1>1, <1>2, <1>3

LEMMA ClaimCommit ==
  ASSUME Shape, ClaimInv, NEW r \in Pushes, CommitPush(r)
  PROVE  ClaimInv'
<1>1. /\ OthersStay(r) /\ step'[r] = "idle" /\ done'[r] = {}
      /\ young' = young /\ missed' = missed /\ step[r] = "commit"
      /\ marker' = (marker \/ "marker" \in done[r])
  BY IsOver DEF CommitPush
<1>2. IsFiniteSet(devices')
  BY FS_AddElement DEF CommitPush, ClaimInv
<1>3. ASSUME NEW q \in Pushes, NEW o \in Pushes, q # o
      PROVE  ~("advisory" \in done'[q] /\ "advisory" \in done'[o])
  BY <1>1, <1>3 DEF ClaimInv, OthersStay
<1>4. SecondDeviceSeen'
  <2>1. CASE "device" \notin done[r]
    <3>1. devices' = devices
      BY <2>1 DEF CommitPush
    <3>2. SecondDeviceSeen
      BY DEF ClaimInv
    <3> QED
      BY <1>1, <3>1, <3>2 DEF SecondDeviceSeen
  <2>2. CASE "device" \in done[r] /\ ~missed /\ young /\ ~marker'
    <3>1. devices \subseteq {Device(ask[r])} /\ devices' = devices \cup {Device(ask[r])}
      BY <1>1, <2>2 DEF ClaimInv, CommitPush
    <3>2. PICK d : d = Device(ask[r])
      OBVIOUS
    <3>3. Cardinality(devices \cup {d}) < 2 /\ Cardinality(devices \cup {d}) \in Nat
      BY <3>1, <3>2, OnlyOne, FS_AddElement, FS_CardinalityType DEF ClaimInv
    <3> QED
      BY <3>1, <3>2, <3>3 DEF SecondDeviceSeen
  <2> QED
    BY <1>1, <2>1, <2>2 DEF SecondDeviceSeen
<1>5. ASSUME NEW q \in Pushes
      PROVE  /\ step'[q] = "idle" => done'[q] = {}
             /\ "device" \in done'[q] => step'[q] \in {"work", "lock", "claim", "commit"}
             /\ "marker" \in done'[q] => step'[q] = "commit"
             /\ step'[q] = "claim" => "advisory" \in done'[q]
  BY <1>1 DEF ClaimInv, OthersStay
<1>6. ASSUME NEW q \in Pushes, step'[q] = "commit", "device" \in done'[q], ~missed'
      PROVE  /\ "advisory" \in done'[q]
             /\ young' => \/ marker' \/ "marker" \in done'[q]
                          \/ devices' \subseteq {Device(ask'[q])}
  <2>1. q # r /\ step'[q] = step[q] /\ ask'[q] = ask[q] /\ done'[q] = done[q]
    BY <1>1, <1>6 DEF OthersStay
  <2>2. "advisory" \in done[q] /\ (young =>
          marker \/ "marker" \in done[q] \/ devices \subseteq {Device(ask[q])})
    BY <1>1, <1>6, <2>1 DEF ClaimInv
  <2>3. "device" \notin done[r]
    BY <1>1, <1>6, <2>1, <2>2 DEF ClaimInv
  <2>4. devices' = devices
    BY <2>3 DEF CommitPush
  <2> QED
    BY <1>1, <2>1, <2>2, <2>4 DEF Device
<1> QED
  BY <1>2, <1>3, <1>4, <1>5, <1>6 DEF ClaimInv

LEMMA ClaimNext == Shape /\ ClaimInv /\ [SyncNext]_syncVars => ClaimInv'
<1> SUFFICES ASSUME Shape, ClaimInv, [SyncNext]_syncVars
             PROVE  ClaimInv'
  OBVIOUS
<1>1. ASSUME NEW r \in Pushes, PushStep(r)
      PROVE  ClaimInv'
  <2>1. OthersStay(r)
    BY <1>1, StepLocal
  <2>2. "advisory" \in done[r] => \A q \in Pushes \ {r} : "advisory" \notin done[q]
    BY DEF ClaimInv
  <2>3. CASE Arrive(r)
    BY <2>1, <2>3, GoesOn, ClaimStep DEF Arrive, store, ClaimInv
  <2>4. CASE CheckActive(r) \/ SkipCompat(r) \/ EnterCompat(r) \/ RunCompat(r)
    BY <2>1, <2>2, <2>4, GoesOn, ClaimStep
       DEF CheckActive, SkipCompat, EnterCompat, RunCompat, store, ClaimInv
  <2>5. CASE FindDevice(r)
    BY <2>1, <2>2, <2>5, GoesOn, ClaimStep DEF FindDevice, store, ClaimInv
  <2>6. CASE CountDevices(r)
    <3>1. CASE Over(r)
      BY <2>1, <2>6, <3>1, IsOver, ClaimStep DEF CountDevices, store
    <3>2. CASE ~Over(r)
      <4>1. PICK place \in {"update", "insert"} : Goes(r, place, {"user"})
        BY <2>6, <3>2 DEF CountDevices
      <4>2. /\ UNCHANGED <<store, young, missed, ask>>
            /\ "device" \notin done[r] /\ "marker" \notin done[r]
        BY <2>6, <3>2 DEF CountDevices, ClaimInv
      <4> QED
        BY <2>1, <2>2, <4>1, <4>2, GoesOn, ClaimStep DEF store
    <3> QED
      BY <3>1, <3>2
  <2>7. CASE InsertDevice(r) \/ UpdateDevice(r)
    BY <2>1, <2>2, <2>7, GoesOn, ClaimStep DEF InsertDevice, UpdateDevice, store, ClaimInv
  <2>8. CASE Work(r)
    <3>1. PICK place, deeds :
            /\ Goes(r, place, deeds)
            /\ place = IF "device" \in done[r] THEN "lock" ELSE "commit"
            /\ deeds \subseteq {"use", "empty"}
      BY <2>8 DEF Work
    <3>2. /\ UNCHANGED <<store, young, missed, ask>>
          /\ "marker" \notin done[r]
      BY <2>8 DEF Work, ClaimInv
    <3> QED
      BY <2>1, <2>2, <3>1, <3>2, GoesOn, ClaimStep DEF store
  <2>9. CASE LockTenantSync(r)
    <3>1. \A q \in Pushes \ {r} : "advisory" \notin done[q]
      BY <2>9 DEF LockTenantSync, Unhindered, WaitsFor, Holds, HoldsLess
    <3> QED
      BY <2>1, <2>9, <3>1, GoesOn, ClaimStep DEF LockTenantSync, store, ClaimInv
  <2>10. CASE Claim(r)
    <3>1. ~Enough(r) => devices \subseteq {Device(ask[r])}
      <4>1. PICK d : d = Device(ask[r])
        OBVIOUS
      <4>2. Cardinality(devices \cup {d}) \in Nat
        BY FS_AddElement, FS_CardinalityType DEF ClaimInv
      <4>3. Cardinality(devices \cup {d}) < 2 => devices \subseteq {d}
        BY OnlyOne DEF ClaimInv
      <4>4. ~Enough(r) => Cardinality(devices \cup {d}) < 2
        BY <4>1, <4>2 DEF Enough
      <4> QED
        BY <4>1, <4>3, <4>4
    <3>2. PICK deeds \in {{}, {"marker"}} :
            /\ Goes(r, "commit", deeds)
            /\ young => marker \/ "marker" \in deeds \/ devices \subseteq {Device(ask[r])}
      BY <2>10, <3>1 DEF Claim
    <3>3. /\ UNCHANGED <<store, young, missed, ask>>
          /\ "advisory" \in done[r]
      BY <2>10 DEF Claim, ClaimInv
    <3> QED
      BY <2>1, <2>2, <3>2, <3>3, GoesOn, ClaimStep DEF store
  <2>11. CASE LoseClaim(r)
    <3>1. /\ step'[r] = "commit" /\ missed' = TRUE /\ UNCHANGED <<store, young, ask>>
          /\ "advisory" \notin done'[r]
          /\ "device" \in done'[r] => "device" \in done[r]
      BY <2>11 DEF LoseClaim, Shape
    <3> QED
      BY <2>1, <3>1 DEF ClaimInv, OthersStay, SecondDeviceSeen, store
  <2>12. CASE CommitPush(r)
    BY <2>12, ClaimCommit
  <2>13. CASE AbortPush(r)
    BY <2>1, <2>13, IsOver, ClaimStep DEF AbortPush, store
  <2> QED
    BY <1>1, <2>3, <2>4, <2>5, <2>6, <2>7, <2>8, <2>9, <2>10, <2>11, <2>12, <2>13
       DEF PushStep, PushSteps
<1>2. ASSUME NEW p \in Processes, Restart(p)
      PROVE  ClaimInv'
  BY <1>2, RestartLocal DEF Restart, store, ClaimInv, SecondDeviceSeen
<1>3. CASE Age
  BY <1>3 DEF Age, store, ClaimInv, SecondDeviceSeen
<1>4. CASE UNCHANGED syncVars
  BY <1>4 DEF syncVars, ClaimInv, SecondDeviceSeen
<1> QED
  BY <1>1, <1>2, <1>3, <1>4 DEF SyncNext, PushStep

\* A tenant's second device is not missed, whichever pushes claim it at once.
THEOREM SecondDeviceNoticed == SyncSpec => []SecondDeviceSeen
<1>1. SyncInit => Shape /\ SchemaInv /\ ClaimInv
  <2>1. SyncInit => Shape /\ SchemaInv
    BY DEF SyncInit, Shape, SchemaInv, Past
  <2>2. SyncInit => ClaimInv
    BY FS_EmptySet DEF SyncInit, ClaimInv, SecondDeviceSeen
  <2> QED
    BY <2>1, <2>2
<1>2. ClaimInv => SecondDeviceSeen
  BY DEF ClaimInv
<1> QED
  BY <1>1, <1>2, SchemaNext, ClaimNext, PTL DEF SyncSpec

-----------------------------------------------------------------------------
(* Projects: transcripts and the allow-list                                  *)

-----------------------------------------------------------------------------
(* Types *)

LEMMA FirstType ==
  ASSUME NEW a \in Values, NEW b \in Values
  PROVE  First(a, b) \in Values
BY DEF First

LEMMA KeyType == \A b \in Batches : GroupKey(b) \in Values
BY BatchesAssumption, FirstType DEF GroupKey, Batch

LEMMA RowTypes ==
  ASSUME ProjectsTypeOK, NEW r \in Uploads
  PROVE  /\ Rows(r) \subseteq Project
         /\ Files(r) \subseteq Transcript
         /\ up[r] \in Upload
BY DEF ProjectsTypeOK, Rows, Files, Upload

LEMMA MergedType ==
  ASSUME ProjectsTypeOK, NEW r \in Uploads, NEW p \in projects, up[r].at # "idle"
  PROVE  Merged(r, p) \in Project /\ Merged(r, p).id = p.id
<1> DEFINE b == up[r].batch
<1>1. b \in Batches /\ b \in Batch /\ p \in Project
  BY BatchesAssumption DEF ProjectsTypeOK
<1>2. /\ b.ident \in Values /\ b.name \in Values
      /\ p.ident \in Values /\ p.key \in Values /\ p.name \in Values
  BY <1>1 DEF Batch, Project
<1>3. /\ First(b.ident, p.ident) \in Values /\ First(GroupKey(b), p.key) \in Values
      /\ First(b.name, p.name) \in Values
  BY <1>1, <1>2, FirstType, KeyType
<1> QED
  BY <1>1, <1>2, <1>3 DEF Merged, Project

LEMMA TypeMoves ==
  ASSUME ProjectsTypeOK, NEW r \in Uploads, NEW x \in Upload, Moves(r, x), Rest,
         x.at # "idle" => x.batch \in Batches
  PROVE  ProjectsTypeOK'
BY DEF ProjectsTypeOK, Moves, Rest, tables

LEMMA NoUploadType == NoUpload \in Upload /\ NoUpload.at = "idle"
BY BatchesAssumption DEF NoUpload, Upload, Steps

\* A push of which a statement fails goes on with what it has.
LEMMA Failing ==
  ASSUME ProjectsTypeOK, NEW r \in Uploads, FailStatement(r)
  PROVE  \E x \in Upload :
           /\ Moves(r, x) /\ x.at \in {"file", "entry", "commit"}
           /\ x.at = "file" => up[r].at \in {"find", "update", "insert"}
           /\ up[r].at \in {"find", "update", "insert"} => x.at = "file"
           /\ up[r].at \in {"find", "update", "insert", "file", "new", "entry"}
           /\ up[r].at \in {"find", "update"} => x.unsaved # {}
           /\ up[r].at \notin {"find", "update"} => x.unsaved = up[r].unsaved
           /\ x.batch = up[r].batch /\ x.list = up[r].list /\ x.beside = up[r].beside
           /\ x.pid = up[r].pid /\ x.tid = up[r].tid
           /\ x.row = up[r].row /\ x.file = up[r].file /\ x.line = up[r].line
<1>1. PICK t \in {"file", "entry", "commit"}, s \in {{up[r].pid}, up[r].unsaved} :
        /\ Moves(r, [up[r] EXCEPT !.at = t, !.unsaved = s])
        /\ t = "file" <=> up[r].at \in {"find", "update", "insert"}
        /\ up[r].at \in {"find", "update"} => s = {up[r].pid}
        /\ up[r].at \notin {"find", "update"} => s = up[r].unsaved
  BY DEF FailStatement
<1>2. up[r] \in Upload /\ s \in SUBSET Values
  BY DEF ProjectsTypeOK, Upload
<1>3. up[r].at \in {"find", "update", "insert", "file", "new", "entry"}
  BY FallibleAssumption DEF FailStatement
<1>4. PICK x : x = [up[r] EXCEPT !.at = t, !.unsaved = s]
  OBVIOUS
<1>5. /\ x \in Upload /\ x.at = t /\ x.unsaved = s
      /\ x.batch = up[r].batch /\ x.list = up[r].list /\ x.beside = up[r].beside
      /\ x.pid = up[r].pid /\ x.tid = up[r].tid
      /\ x.row = up[r].row /\ x.file = up[r].file /\ x.line = up[r].line
  BY <1>2, <1>4 DEF Upload, Steps
<1>6. Moves(r, x)
  BY <1>1, <1>4
<1> QED
  BY <1>1, <1>3, <1>5, <1>6

\* The push that begins, and the others: they change in `beside' only.
LEMMA BeginMine ==
  ASSUME ProjectsTypeOK, NEW r \in Uploads, NEW b \in Batches, BeginUpload(r, b)
  PROVE  /\ up'[r] \in Upload
         /\ up'[r].at = "judge" /\ up'[r].batch = b /\ up'[r].list = allowlist
         /\ up'[r].beside = {up[o].list : o \in Active}
         /\ up'[r].pid = b.pid /\ up'[r].tid = b.tid
         /\ up'[r].row = {} /\ up'[r].file = {} /\ up'[r].line = {}
         /\ up'[r].unsaved = {}
<1> DEFINE mine == [at |-> "judge", batch |-> b, list |-> allowlist,
                    beside |-> {up[o].list : o \in Active},
                    pid |-> b.pid, tid |-> b.tid, row |-> {}, file |-> {}, line |-> {},
                    unsaved |-> {}]
<1>1. up'[r] = mine
  BY DEF BeginUpload, NoUpload
<1>2. b.pid \in Values /\ b.tid \in Values /\ allowlist \in AllowLists
  BY BatchesAssumption DEF Batch, ProjectsTypeOK
<1>3. {up[o].list : o \in Active} \subseteq AllowLists \cup {{Nil}}
  BY DEF ProjectsTypeOK, Upload, Active
<1>4. mine \in Upload
  BY <1>2, <1>3 DEF Upload, Steps
<1> QED
  BY <1>1, <1>4

LEMMA BeginOther ==
  ASSUME ProjectsTypeOK, NEW r \in Uploads, NEW b \in Batches, BeginUpload(r, b),
         NEW q \in Uploads, q # r
  PROVE  /\ up'[q] \in Upload
         /\ up'[q].at = up[q].at /\ up'[q].batch = up[q].batch /\ up'[q].list = up[q].list
         /\ up[q].beside \subseteq up'[q].beside
         /\ q \in Active => allowlist \in up'[q].beside
         /\ up'[q].pid = up[q].pid /\ up'[q].tid = up[q].tid
         /\ up'[q].row = up[q].row /\ up'[q].file = up[q].file /\ up'[q].line = up[q].line
         /\ up'[q].unsaved = up[q].unsaved
<1> DEFINE more == up[q].beside \cup {allowlist}
<1>1. up'[q] = IF q \in Active THEN [up[q] EXCEPT !.beside = more] ELSE up[q]
  BY DEF BeginUpload
<1>2. up[q] \in Upload /\ more \in SUBSET (AllowLists \cup {{Nil}})
  BY DEF ProjectsTypeOK, Upload
<1>3. up[q].beside \subseteq more /\ allowlist \in more
  OBVIOUS
<1> HIDE DEF more
<1> QED
  BY <1>1, <1>2, <1>3 DEF Upload

LEMMA TypeBegin ==
  ASSUME ProjectsTypeOK, NEW r \in Uploads, NEW b \in Batches, BeginUpload(r, b)
  PROVE  ProjectsTypeOK'
<1>1. /\ UNCHANGED <<projects, transcripts, entries, allowlist>>
      /\ uploads' = uploads + 1
  BY DEF BeginUpload, tables
<1>2. ASSUME NEW q \in Uploads
      PROVE  up'[q] \in Upload /\ (up'[q].at # "idle" => up'[q].batch \in Batches)
  <2>1. CASE q = r
    BY <2>1, BeginMine
  <2>2. CASE q # r
    BY <2>2, BeginOther DEF ProjectsTypeOK
  <2> QED
    BY <2>1, <2>2
<1>3. up' \in [Uploads -> Upload]
  <2>1. up' = [q \in Uploads |-> up'[q]]
    BY DEF BeginUpload
  <2> QED
    BY <2>1, <1>2
<1> QED
  BY <1>1, <1>2, <1>3 DEF ProjectsTypeOK

\* Every other step of r sets up[r] to one value.
LEMMA TypeNext == ProjectsTypeOK /\ [ProjectsNext]_projectVars => ProjectsTypeOK'
<1> SUFFICES ASSUME ProjectsTypeOK, [ProjectsNext]_projectVars
             PROVE  ProjectsTypeOK'
  OBVIOUS
<1>1. ASSUME NEW r \in Uploads, NEW b \in Batches, BeginUpload(r, b)
      PROVE  ProjectsTypeOK'
  BY <1>1, TypeBegin
<1>2. ASSUME NEW r \in Uploads, Judge(r)
      PROVE  ProjectsTypeOK'
  <2>1. up[r] \in Upload /\ up[r].batch \in Batches /\ Rest
    BY <1>2 DEF Judge, ProjectsTypeOK
  <2>2. \E s \in Steps : Moves(r, [up[r] EXCEPT !.at = s])
    BY <1>2 DEF Judge, Steps
  <2>3. PICK s \in Steps : Moves(r, [up[r] EXCEPT !.at = s])
    BY <2>2
  <2>4. [up[r] EXCEPT !.at = s] \in Upload /\ [up[r] EXCEPT !.at = s].batch \in Batches
    BY <2>1 DEF Upload
  <2> QED
    BY <2>1, <2>3, <2>4, TypeMoves
<1>3. ASSUME NEW r \in Uploads, FindProject(r)
      PROVE  ProjectsTypeOK'
  <2>1. up[r] \in Upload /\ up[r].batch \in Batches /\ Rest
    BY <1>3 DEF FindProject, ProjectsTypeOK
  <2>2. \/ \E s \in Steps : Moves(r, [up[r] EXCEPT !.at = s])
        \/ \E x \in projects : Moves(r, [up[r] EXCEPT !.at = "update", !.pid = x.id])
    BY <1>3 DEF FindProject, Steps
  <2>3. ASSUME NEW s \in Steps, Moves(r, [up[r] EXCEPT !.at = s])
        PROVE  ProjectsTypeOK'
    <3>1. [up[r] EXCEPT !.at = s] \in Upload /\ [up[r] EXCEPT !.at = s].batch \in Batches
      BY <2>1 DEF Upload
    <3> QED
      BY <2>1, <2>3, <3>1, TypeMoves
  <2>4. ASSUME NEW x \in projects, Moves(r, [up[r] EXCEPT !.at = "update", !.pid = x.id])
        PROVE  ProjectsTypeOK'
    <3>1. x.id \in Values
      BY DEF ProjectsTypeOK, Project
    <3>2. LET u == [up[r] EXCEPT !.at = "update", !.pid = x.id]
          IN u \in Upload /\ u.batch \in Batches
      BY <2>1, <3>1 DEF Upload, Steps
    <3> QED
      BY <2>1, <2>4, <3>2, TypeMoves
  <2> QED
    BY <2>2, <2>3, <2>4
<1>4. ASSUME NEW r \in Uploads, UpdateProject(r)
      PROVE  ProjectsTypeOK'
  <2>1. up[r] \in Upload /\ up[r].batch \in Batches /\ Rest
    BY <1>4 DEF UpdateProject, ProjectsTypeOK
  <2>2. PICK p \in projects : Moves(r, [up[r] EXCEPT !.at = "file", !.row = {Merged(r, p)}])
    BY <1>4 DEF UpdateProject
  <2>3. Merged(r, p) \in Project
    BY <1>4, MergedType DEF UpdateProject
  <2>4. LET x == [up[r] EXCEPT !.at = "file", !.row = {Merged(r, p)}]
        IN x \in Upload /\ x.batch \in Batches
    BY <2>1, <2>3 DEF Upload, Steps
  <2> QED
    BY <2>1, <2>2, <2>4, TypeMoves
<1>5. ASSUME NEW r \in Uploads, InsertProject(r)
      PROVE  ProjectsTypeOK'
  <2>1. up[r] \in Upload /\ up[r].batch \in Batches /\ Rest
    BY <1>5 DEF InsertProject, ProjectsTypeOK
  <2> DEFINE b == up[r].batch
  <2> DEFINE new == [id |-> b.pid, name |-> b.name, key |-> GroupKey(b), ident |-> b.ident]
  <2>2. new \in Project
    BY <2>1, KeyType, BatchesAssumption DEF Batch, Project
  <2>3. PICK w \in SUBSET Project : Moves(r, [up[r] EXCEPT !.at = "file", !.row = w])
    BY <1>5, <2>2 DEF InsertProject
  <2>4. LET x == [up[r] EXCEPT !.at = "file", !.row = w]
        IN x \in Upload /\ x.batch \in Batches
    BY <2>1 DEF Upload, Steps
  <2> QED
    BY <2>1, <2>3, <2>4, TypeMoves
<1>6. ASSUME NEW r \in Uploads, FindTranscript(r)
      PROVE  ProjectsTypeOK'
  <2>1. up[r] \in Upload /\ up[r].batch \in Batches /\ Rest
    BY <1>6 DEF FindTranscript, ProjectsTypeOK
  <2>2. \/ \E s \in Steps : Moves(r, [up[r] EXCEPT !.at = s])
        \/ \E x \in transcripts : Moves(r, [up[r] EXCEPT !.at = "entry", !.tid = x.id])
    BY <1>6 DEF FindTranscript, Steps
  <2>3. ASSUME NEW s \in Steps, Moves(r, [up[r] EXCEPT !.at = s])
        PROVE  ProjectsTypeOK'
    <3>1. [up[r] EXCEPT !.at = s] \in Upload /\ [up[r] EXCEPT !.at = s].batch \in Batches
      BY <2>1 DEF Upload
    <3> QED
      BY <2>1, <2>3, <3>1, TypeMoves
  <2>4. ASSUME NEW x \in transcripts, Moves(r, [up[r] EXCEPT !.at = "entry", !.tid = x.id])
        PROVE  ProjectsTypeOK'
    <3>1. x.id \in Values
      BY DEF ProjectsTypeOK, Transcript
    <3>2. LET u == [up[r] EXCEPT !.at = "entry", !.tid = x.id]
          IN u \in Upload /\ u.batch \in Batches
      BY <2>1, <3>1 DEF Upload, Steps
    <3> QED
      BY <2>1, <2>4, <3>2, TypeMoves
  <2> QED
    BY <2>2, <2>3, <2>4
<1>7. ASSUME NEW r \in Uploads, InsertTranscript(r)
      PROVE  ProjectsTypeOK'
  <2>1. up[r] \in Upload /\ up[r].batch \in Batches /\ Rest
    BY <1>7 DEF InsertTranscript, ProjectsTypeOK
  <2> DEFINE b == up[r].batch
  <2> DEFINE new == [id |-> b.tid, project |-> up[r].pid, file |-> b.file, user |-> b.user]
  <2>2. new \in Transcript
    BY <2>1, BatchesAssumption DEF Batch, Upload, Transcript
  <2>3. PICK w \in SUBSET Transcript : Moves(r, [up[r] EXCEPT !.at = "entry", !.file = w])
    BY <1>7, <2>2 DEF InsertTranscript
  <2>4. LET x == [up[r] EXCEPT !.at = "entry", !.file = w]
        IN x \in Upload /\ x.batch \in Batches
    BY <2>1 DEF Upload, Steps
  <2> QED
    BY <2>1, <2>3, <2>4, TypeMoves
<1>8. ASSUME NEW r \in Uploads, InsertEntry(r)
      PROVE  ProjectsTypeOK'
  <2>1. up[r] \in Upload /\ up[r].batch \in Batches /\ Rest
    BY <1>8 DEF InsertEntry, ProjectsTypeOK
  <2> DEFINE b == up[r].batch
  <2> DEFINE line == [project |-> up[r].pid, transcript |-> up[r].tid,
                      file |-> b.file, user |-> b.user]
  <2>2. line \in Line
    BY <2>1, BatchesAssumption DEF Batch, Upload, Line
  <2>3. PICK w \in SUBSET Line : Moves(r, [up[r] EXCEPT !.at = "commit", !.line = w])
    BY <1>8, <2>2 DEF InsertEntry
  <2>4. LET x == [up[r] EXCEPT !.at = "commit", !.line = w]
        IN x \in Upload /\ x.batch \in Batches
    BY <2>1 DEF Upload, Steps
  <2> QED
    BY <2>1, <2>3, <2>4, TypeMoves
<1>9. ASSUME NEW r \in Uploads, CommitUpload(r)
      PROVE  ProjectsTypeOK'
  <2>1. Rows(r) \subseteq Project /\ Files(r) \subseteq Transcript /\ up[r].line \subseteq Line
    BY RowTypes DEF Upload
  <2> QED
    BY <1>9, <2>1, NoUploadType DEF CommitUpload, ProjectsTypeOK, Moves
<1>10. ASSUME NEW r \in Uploads, AbortUpload(r)
       PROVE  ProjectsTypeOK'
  BY <1>10, NoUploadType, TypeMoves DEF AbortUpload
<1>11. CASE ChangeList
  BY <1>11 DEF ChangeList, ProjectsTypeOK, tables
<1>12. CASE UNCHANGED projectVars
  BY <1>12 DEF projectVars, ProjectsTypeOK
<1>13. ASSUME NEW r \in Uploads, FailStatement(r)
       PROVE  ProjectsTypeOK'
  <2>1. Rest /\ up[r].at # "idle" /\ up[r].batch \in Batches
    BY <1>13, FallibleAssumption DEF FailStatement, ProjectsTypeOK
  <2>2. PICK x \in Upload : Moves(r, x) /\ x.batch = up[r].batch
    BY <1>13, Failing
  <2> QED
    BY <2>1, <2>2, TypeMoves
<1> QED
  BY <1>1, <1>2, <1>3, <1>4, <1>5, <1>6, <1>7, <1>8, <1>9, <1>10, <1>11, <1>12, <1>13
     DEF ProjectsNext

\* Each row and each push keeps its type.
THEOREM ProjectsType == ProjectsSpec => []ProjectsTypeOK
<1>1. ProjectsInit => ProjectsTypeOK
  BY NoUploadType DEF ProjectsInit, ProjectsTypeOK
<1> QED
  BY <1>1, TypeNext, PTL DEF ProjectsSpec

-----------------------------------------------------------------------------
(* Entries and their files *)

\* The row has its id from the client that has the file.
Genuine(f) == \E b \in Batches : f.id = b.tid /\ f.file = b.file /\ f.user = b.user

\* The row fs has the file of that id.
Finds(fs, id, file, user) == \E f \in fs : f.id = id /\ f.file = file /\ f.user = user

\* What holds of a push u beside the committed rows fs.
FilesRight(u, fs) ==
  /\ \A f \in u.file : Genuine(f)
  /\ u.at # "idle" =>
       u.tid = u.batch.tid \/ Finds(fs, u.tid, u.batch.file, u.batch.user)
  /\ \A e \in u.line : Finds(fs \cup u.file, e.transcript, e.file, e.user)
  /\ u.line # {} => u.at = "commit"

FilesInv ==
  /\ \A f \in transcripts : Genuine(f)
  /\ \A r \in Uploads : FilesRight(up[r], transcripts)
  /\ \A e \in entries : Finds(transcripts, e.transcript, e.file, e.user)

LEMMA FilesGrow ==
  ASSUME NEW u, NEW fs, NEW gs, fs \subseteq gs, FilesRight(u, fs)
  PROVE  FilesRight(u, gs)
BY DEF FilesRight, Finds

LEMMA FilesMoves ==
  ASSUME ProjectsTypeOK, FilesInv, NEW r \in Uploads, NEW x, Moves(r, x), Rest,
         FilesRight(x, transcripts)
  PROVE  FilesInv'
<1>1. \A q \in Uploads : up'[q] = IF q = r THEN x ELSE up[q]
  BY DEF ProjectsTypeOK, Moves
<1>2. \A q \in Uploads : FilesRight(up'[q], transcripts)
  BY <1>1 DEF FilesInv
<1>3. transcripts' = transcripts /\ entries' = entries
  BY DEF Rest, tables
<1> QED
  BY <1>2, <1>3 DEF FilesInv, FilesRight, Genuine, Finds

\* The steps that settle the project leave the transcript and the entry alone.
Quiet(u, x) ==
  /\ x.at # "idle" /\ x.batch = u.batch
  /\ x.file = u.file /\ x.line = u.line /\ x.tid = u.tid

LEMMA QuietFields ==
  ASSUME NEW u \in Upload
  PROVE  /\ \A t : t # "idle" => Quiet(u, [u EXCEPT !.at = t])
         /\ \A i : Quiet(u, [u EXCEPT !.at = "update", !.pid = i])
         /\ \A w : Quiet(u, [u EXCEPT !.at = "file", !.row = w])
BY DEF Quiet, Upload

LEMMA FilesNext ==
  ProjectsTypeOK /\ FilesInv /\ [ProjectsNext]_projectVars => FilesInv'
<1> SUFFICES ASSUME ProjectsTypeOK, FilesInv, [ProjectsNext]_projectVars
             PROVE  FilesInv'
  OBVIOUS
<1>0. \A r \in Uploads : up[r] \in Upload /\ FilesRight(up[r], transcripts)
  BY DEF ProjectsTypeOK, FilesInv
<1>1. ASSUME NEW r \in Uploads, NEW b \in Batches, BeginUpload(r, b)
      PROVE  FilesInv'
  <2>1. transcripts' = transcripts /\ entries' = entries
    BY <1>1 DEF BeginUpload, tables
  <2>2. FilesRight(up'[r], transcripts)
    BY <1>1, BeginMine DEF FilesRight
  <2>3. ASSUME NEW q \in Uploads, q # r PROVE FilesRight(up'[q], transcripts)
    BY <1>0, <1>1, <2>3, BeginOther DEF FilesRight
  <2> QED
    BY <2>1, <2>2, <2>3 DEF FilesInv, FilesRight, Genuine, Finds
<1>2. ASSUME NEW r \in Uploads, Judge(r) \/ FindProject(r) \/ UpdateProject(r) \/ InsertProject(r)
      PROVE  FilesInv'
  <2>1. Rest /\ up[r].at \notin {"idle", "commit"}
    BY <1>2 DEF Judge, FindProject, UpdateProject, InsertProject
  <2> DEFINE Goal == \E x : Moves(r, x) /\ Quiet(up[r], x)
  <2>2. Goal
    <3>1. CASE Judge(r)
      <4>1. PICK t \in {"commit", "find", "file"} : Moves(r, [up[r] EXCEPT !.at = t])
        BY <3>1 DEF Judge
      <4>2. Quiet(up[r], [up[r] EXCEPT !.at = t])
        BY <1>0, <4>1, QuietFields
      <4> QED
        BY <4>1, <4>2
    <3>2. CASE FindProject(r)
      <4>1. \/ \E t \in {"update", "insert"} : Moves(r, [up[r] EXCEPT !.at = t])
            \/ \E p \in projects : Moves(r, [up[r] EXCEPT !.at = "update", !.pid = p.id])
        BY <3>2 DEF FindProject
      <4>2. ASSUME NEW t \in {"update", "insert"}, Moves(r, [up[r] EXCEPT !.at = t])
            PROVE  Goal
        <5>1. Quiet(up[r], [up[r] EXCEPT !.at = t])
          BY <1>0, <4>2, QuietFields
        <5> QED
          BY <4>2, <5>1
      <4>3. ASSUME NEW p \in projects, Moves(r, [up[r] EXCEPT !.at = "update", !.pid = p.id])
            PROVE  Goal
        BY <1>0, <4>3, QuietFields DEF Quiet
      <4> QED
        BY <4>1, <4>2, <4>3
    <3>3. CASE UpdateProject(r)
      <4>1. PICK p \in projects :
               Moves(r, [up[r] EXCEPT !.at = "file", !.row = {Merged(r, p)}])
        BY <3>3 DEF UpdateProject
      <4> QED
        BY <1>0, <4>1, QuietFields DEF Quiet
    <3>4. CASE InsertProject(r)
      <4>1. \E w : Moves(r, [up[r] EXCEPT !.at = "file", !.row = w])
        BY <3>4 DEF InsertProject
      <4>2. PICK w : Moves(r, [up[r] EXCEPT !.at = "file", !.row = w])
        BY <4>1
      <4> QED
        BY <1>0, <4>2, QuietFields DEF Quiet
    <3> QED
      BY <1>2, <3>1, <3>2, <3>3, <3>4
  <2>3. PICK x : Moves(r, x) /\ Quiet(up[r], x)
    BY <2>2
  <2>4. FilesRight(x, transcripts)
    BY <1>0, <2>1, <2>3 DEF FilesRight, Quiet
  <2> QED
    BY <2>1, <2>3, <2>4, FilesMoves
<1>3. ASSUME NEW r \in Uploads, FindTranscript(r)
      PROVE  FilesInv'
  <2>1. Rest /\ up[r].at = "file" /\ up[r].at # "idle"
    BY <1>3 DEF FindTranscript
  <2>2. \/ \E s \in {"entry", "new"} : Moves(r, [up[r] EXCEPT !.at = s])
        \/ \E f \in transcripts :
             SameFile(r, f) /\ Moves(r, [up[r] EXCEPT !.at = "entry", !.tid = f.id])
    BY <1>3 DEF FindTranscript
  <2>3. ASSUME NEW s \in {"entry", "new"}, Moves(r, [up[r] EXCEPT !.at = s])
        PROVE  FilesInv'
    <3>1. FilesRight([up[r] EXCEPT !.at = s], transcripts)
      BY <1>0, <2>1 DEF FilesRight, Upload
    <3> QED
      BY <2>1, <2>3, <3>1, FilesMoves
  <2>4. ASSUME NEW f \in transcripts, SameFile(r, f),
               Moves(r, [up[r] EXCEPT !.at = "entry", !.tid = f.id])
        PROVE  FilesInv'
    <3>1. f.file = up[r].batch.file /\ f.user = up[r].batch.user
      BY <2>4 DEF SameFile, SameFileAnyUser
    <3> DEFINE x == [up[r] EXCEPT !.at = "entry", !.tid = f.id]
    <3>2. /\ x.at = "entry" /\ x.tid = f.id /\ x.batch = up[r].batch
          /\ x.file = up[r].file /\ x.line = up[r].line
      BY <1>0 DEF Upload
    <3>3. Moves(r, x)
      BY <2>4
    <3> HIDE DEF x
    <3>4. FilesRight(x, transcripts)
      BY <1>0, <2>1, <3>1, <3>2 DEF FilesRight, Finds
    <3> QED
      BY <2>1, <3>3, <3>4, FilesMoves
  <2> QED
    BY <2>2, <2>3, <2>4
<1>4. ASSUME NEW r \in Uploads, InsertTranscript(r)
      PROVE  FilesInv'
  <2> DEFINE b == up[r].batch
  <2> DEFINE new == [id |-> b.tid, project |-> up[r].pid, file |-> b.file, user |-> b.user]
  <2>1. Rest /\ up[r].at # "idle" /\ b \in Batches
    BY <1>4 DEF InsertTranscript, ProjectsTypeOK
  <2>2. PICK w \in {{}, {new}} : Moves(r, [up[r] EXCEPT !.at = "entry", !.file = w])
    BY <1>4 DEF InsertTranscript
  <2>3. \A f \in w : Genuine(f)
    BY <2>1 DEF Genuine
  <2>4. up[r].line = {}
    BY <1>0, <1>4 DEF InsertTranscript, FilesRight
  <2>5. FilesRight([up[r] EXCEPT !.at = "entry", !.file = w], transcripts)
    BY <1>0, <2>1, <2>3, <2>4 DEF FilesRight, Upload
  <2> QED
    BY <2>1, <2>2, <2>5, FilesMoves
<1>5. ASSUME NEW r \in Uploads, InsertEntry(r)
      PROVE  FilesInv'
  <2> DEFINE b == up[r].batch
  <2> DEFINE line == [project |-> up[r].pid, transcript |-> up[r].tid,
                      file |-> b.file, user |-> b.user]
  <2>1. Rest /\ up[r].at # "idle" /\ b \in Batches /\ up[r].line = {}
    BY <1>0, <1>5 DEF InsertEntry, ProjectsTypeOK, FilesRight
  <2>2. PICK w \in {{}, {line}} :
          /\ Moves(r, [up[r] EXCEPT !.at = "commit", !.line = w])
          /\ w # {} => \E f \in Files(r) : f.id = up[r].tid
    BY <1>5 DEF InsertEntry
  <2>3. ASSUME w # {} PROVE Finds(Files(r), up[r].tid, b.file, b.user)
    <3>1. PICK f \in Files(r) : f.id = up[r].tid
      BY <2>2, <2>3
    <3>2. Genuine(f)
      BY <1>0 DEF Files, FilesInv, FilesRight
    <3>5. PICK c \in Batches : f.id = c.tid /\ f.file = c.file /\ f.user = c.user
      BY <3>2 DEF Genuine
    <3>3. CASE up[r].tid = b.tid
      <4>1. b.tid = c.tid
        BY <3>1, <3>3, <3>5
      <4>2. f.file = b.file /\ f.user = b.user
        BY <2>1, <3>5, <4>1, BatchesAssumption
      <4> QED
        BY <3>1, <4>2 DEF Finds
    <3>4. CASE Finds(transcripts, up[r].tid, b.file, b.user)
      BY <3>4 DEF Finds, Files
    <3> QED
      BY <1>0, <2>1, <3>3, <3>4 DEF FilesRight
  <2>4. \A e \in w : Finds(transcripts \cup up[r].file, e.transcript, e.file, e.user)
    BY <2>3 DEF Files
  <2>5. FilesRight([up[r] EXCEPT !.at = "commit", !.line = w], transcripts)
    BY <1>0, <2>1, <2>4 DEF FilesRight, Upload
  <2> QED
    BY <2>1, <2>2, <2>5, FilesMoves
<1>6. ASSUME NEW r \in Uploads, CommitUpload(r)
      PROVE  FilesInv'
  <2>1. /\ transcripts' = transcripts \cup up[r].file
        /\ entries' = entries \cup up[r].line
        /\ up' = [up EXCEPT ![r] = NoUpload]
    BY <1>6 DEF CommitUpload, Files, Moves
  <2>2. FilesRight(NoUpload, transcripts')
    BY DEF FilesRight, NoUpload
  <2>3. ASSUME NEW q \in Uploads PROVE FilesRight(up'[q], transcripts')
    <3>1. up'[q] = IF q = r THEN NoUpload ELSE up[q]
      BY <2>1 DEF ProjectsTypeOK
    <3>2. transcripts \subseteq transcripts'
      BY <2>1
    <3> QED
      BY <1>0, <2>2, <3>1, <3>2, FilesGrow
  <2>4. \A f \in transcripts' : Genuine(f)
    BY <1>0, <2>1 DEF FilesInv, FilesRight
  <2>5. \A e \in entries' : Finds(transcripts', e.transcript, e.file, e.user)
    BY <1>0, <2>1 DEF FilesInv, FilesRight, Finds
  <2> QED
    BY <2>3, <2>4, <2>5 DEF FilesInv, FilesRight, Genuine, Finds
<1>7. ASSUME NEW r \in Uploads, AbortUpload(r)
      PROVE  FilesInv'
  <2>1. FilesRight(NoUpload, transcripts)
    BY DEF FilesRight, NoUpload
  <2> QED
    BY <1>7, <2>1, FilesMoves DEF AbortUpload
<1>8. CASE ChangeList
  BY <1>8 DEF ChangeList, tables, FilesInv, FilesRight, Genuine, Finds
<1>9. CASE UNCHANGED projectVars
  BY <1>9 DEF projectVars, FilesInv, FilesRight, Genuine, Finds
<1>10. ASSUME NEW r \in Uploads, FailStatement(r)
       PROVE  FilesInv'
  <2>1. Rest
    BY <1>10 DEF FailStatement
  <2>2. PICK x \in Upload :
          /\ Moves(r, x) /\ up[r].at \in {"find", "update", "insert", "file", "new", "entry"}
          /\ x.batch = up[r].batch /\ x.tid = up[r].tid
          /\ x.file = up[r].file /\ x.line = up[r].line
    BY <1>10, Failing
  <2>3. FilesRight(x, transcripts)
    BY <1>0, <2>2 DEF FilesRight
  <2> QED
    BY <2>1, <2>2, <2>3, FilesMoves
<1> QED
  BY <1>1, <1>2, <1>3, <1>4, <1>5, <1>6, <1>7, <1>8, <1>9, <1>10 DEF ProjectsNext

\* Whatever ids devices give to one file, each entry is stored with the
\* transcript of its own file and its own user, for all interleavings of pushes.
THEOREM FilesKept == ProjectsSpec => []EntriesKeepTheirFile
<1>1. ProjectsInit => ProjectsTypeOK /\ FilesInv
  BY NoUploadType DEF ProjectsInit, ProjectsTypeOK, FilesInv, FilesRight, NoUpload
<1>2. ProjectsTypeOK /\ FilesInv /\ [ProjectsNext]_projectVars => (ProjectsTypeOK /\ FilesInv)'
  BY TypeNext, FilesNext
<1>3. FilesInv => EntriesKeepTheirFile
  BY DEF FilesInv, Finds, EntriesKeepTheirFile
<1> QED
  BY <1>1, <1>2, <1>3, PTL DEF ProjectsSpec

-----------------------------------------------------------------------------
(* The allow-list *)

\* The push has a list, it is that of all the pushes it ran beside, and the
\* project was written.
Clean(u) == u.beside \subseteq {u.list} /\ u.list # {Nil} /\ u.unsaved = {}

\* What u sees beside the committed rows ps.
Seen(u, ps) == {p \in ps : \A o \in u.row : o.id # p.id} \cup u.row

\* It sees the project of that id with a listed name, or with no other.
Listed(u, ps, id)   == \E p \in Seen(u, ps) : p.id = id /\ p.name \in u.list
Listable(u, ps, id) == \A p \in Seen(u, ps) : p.id = id => p.name \in u.list

\* What holds of a push u beside the committed rows ps.
ListRight(u, ps) ==
  /\ u.at \in {"find", "update", "insert"} =>
       u.batch.given /\ (u.list = {Nil} \/ u.batch.name \in u.list)
  /\ u.list # {Nil} => \A o \in u.row : o.name \in u.list
  /\ u.at # "commit" => u.line = {}
  /\ u.at \in {"judge", "find", "insert"} => u.pid = u.batch.pid
  /\ u.at \in {"idle", "judge", "find", "update", "insert"} => u.row = {}
  /\ Clean(u) =>
       /\ u.at \in {"insert", "file", "new", "entry"} =>
            Listed(u, ps, u.pid) \/ Listable(u, ps, u.pid)
       /\ \A e \in u.line : Listed(u, ps, e.project)

\* A push knows the lists of the pushes that it overlaps.
Beside == \A r, q \in Active : r # q => up[q].list \in up[r].beside

ListInv == Beside /\ \A r \in Uploads : ListRight(up[r], projects)

\* A step of r that keeps its list and the committed rows.
LEMMA ListMoves ==
  ASSUME ProjectsTypeOK, ListInv, NEW r \in Active, NEW x, Moves(r, x), Rest,
         x.at = "idle" \/ (x.list = up[r].list /\ x.beside = up[r].beside),
         ListRight(x, projects)
  PROVE  ListInv'
<1>1. r \in Uploads /\ \A q \in Uploads : up'[q] = IF q = r THEN x ELSE up[q]
  BY DEF ProjectsTypeOK, Moves, Active
<1>2. \A q \in Uploads : ListRight(up'[q], projects)
  BY <1>1 DEF ListInv
<1>3. projects' = projects
  BY DEF Rest, tables
<1>4. Beside'
  BY <1>1 DEF ListInv, Beside, Active
<1> QED
  BY <1>2, <1>3, <1>4 DEF ListInv, ListRight, Clean, Listed, Listable, Seen

\* A row that replaces another's in the table has a listed name, too.
LEMMA ListedStays ==
  ASSUME NEW u, NEW ps, NEW w, NEW id, Listed(u, ps, id), \A o \in w : o.name \in u.list
  PROVE  Listed(u, {p \in ps : \A o \in w : o.id # p.id} \cup w, id)
<1> DEFINE qs == {p \in ps : \A o \in w : o.id # p.id} \cup w
<1>1. PICK p \in Seen(u, ps) : p.id = id /\ p.name \in u.list
  BY DEF Listed
<1>2. CASE p \in u.row
  BY <1>1, <1>2 DEF Listed, Seen
<1>3. CASE p \notin u.row /\ \A o \in w : o.id # p.id
  BY <1>1, <1>3 DEF Listed, Seen
<1>4. ASSUME p \notin u.row, NEW o \in w, o.id = p.id PROVE Listed(u, qs, id)
  BY <1>1, <1>4 DEF Listed, Seen
<1> QED
  BY <1>2, <1>3, <1>4

LEMMA ListNext ==
  ProjectsTypeOK /\ ListInv /\ [ProjectsNext]_projectVars => ListInv'
<1> SUFFICES ASSUME ProjectsTypeOK, ListInv, [ProjectsNext]_projectVars
             PROVE  ListInv'
  OBVIOUS
<1>0. \A r \in Uploads : up[r] \in Upload /\ ListRight(up[r], projects)
  BY DEF ProjectsTypeOK, ListInv
<1>1. ASSUME NEW r \in Uploads, NEW b \in Batches, BeginUpload(r, b)
      PROVE  ListInv'
  <2>1. projects' = projects /\ up[r].at = "idle"
    BY <1>1 DEF BeginUpload, tables
  <2>2. ListRight(up'[r], projects)
    BY <1>1, BeginMine DEF ListRight
  <2>3. ASSUME NEW q \in Uploads, q # r PROVE ListRight(up'[q], projects)
    BY <1>0, <1>1, <2>3, BeginOther DEF ListRight, Clean, Listed, Listable, Seen
  <2>4. ASSUME NEW q \in Active', NEW o \in Active', o # q
        PROVE  up'[o].list \in up'[q].beside
    <3>1. CASE q = r
      BY <1>1, <2>4, <3>1, BeginMine, BeginOther DEF Active
    <3>2. CASE o = r
      BY <1>1, <2>4, <3>2, BeginMine, BeginOther DEF Active
    <3>3. CASE q # r /\ o # r
      BY <1>1, <2>4, <3>3, BeginOther DEF Active, ListInv, Beside
    <3> QED
      BY <3>1, <3>2, <3>3
  <2> QED
    BY <2>1, <2>2, <2>3, <2>4 DEF ListInv, Beside, ListRight, Clean, Listed, Listable, Seen
<1>2. ASSUME NEW r \in Uploads, Judge(r)
      PROVE  ListInv'
  <2>1. Rest /\ r \in Active /\ up[r].at = "judge"
    BY <1>2 DEF Judge, Active
  <2>2. PICK t \in {"commit", "find", "file"} :
          /\ Moves(r, [up[r] EXCEPT !.at = t])
          /\ t = "find" => Allowed(r) /\ up[r].batch.given
          /\ t = "file" => Allowed(r) /\ ~up[r].batch.given
    BY <1>2 DEF Judge
  <2> DEFINE x == [up[r] EXCEPT !.at = t]
  <2>3. /\ x.at = t /\ x.list = up[r].list /\ x.beside = up[r].beside
        /\ x.batch = up[r].batch /\ x.row = up[r].row /\ x.line = up[r].line
        /\ x.pid = up[r].pid /\ x.unsaved = up[r].unsaved
    BY <1>0 DEF Upload
  <2>4. Moves(r, x)
    BY <2>2
  <2> HIDE DEF x
  <2>5. t = "find" => up[r].list = {Nil} \/ up[r].batch.name \in up[r].list
    BY <2>2 DEF Allowed
  <2>6. t = "file" /\ up[r].list # {Nil} =>
          \E p \in projects : p.id = up[r].batch.pid /\ p.name \in up[r].list
    BY <2>2 DEF Allowed
  <2>7. ListRight(x, projects)
    BY <1>0, <2>1, <2>2, <2>3, <2>5, <2>6 DEF ListRight, Clean, Listed, Listable, Seen
  <2> QED
    BY <2>1, <2>3, <2>4, <2>7, ListMoves
<1>3. ASSUME NEW r \in Uploads, FindProject(r)
      PROVE  ListInv'
  <2>1. Rest /\ r \in Active /\ up[r].at = "find"
    BY <1>3 DEF FindProject, Active
  <2>2. PICK t \in {"update", "insert"}, i \in Values :
          /\ Moves(r, [up[r] EXCEPT !.at = t, !.pid = i])
          /\ t = "insert" => i = up[r].pid /\ \A p \in projects : p.id # up[r].batch.pid
    <3>1. [up[r] EXCEPT !.at = "update"] = [up[r] EXCEPT !.at = "update", !.pid = up[r].pid]
      BY <1>0 DEF Upload
    <3>2. [up[r] EXCEPT !.at = "insert"] = [up[r] EXCEPT !.at = "insert", !.pid = up[r].pid]
      BY <1>0 DEF Upload
    <3>3. /\ up[r].pid \in Values
          /\ \A p \in projects : p.id \in Values
      BY <1>0 DEF Upload, ProjectsTypeOK, Project
    <3>4. \/ \E i \in Values : Moves(r, [up[r] EXCEPT !.at = "update", !.pid = i])
          \/ /\ Moves(r, [up[r] EXCEPT !.at = "insert", !.pid = up[r].pid])
             /\ \A p \in projects : p.id # up[r].batch.pid
      BY <1>3, <3>1, <3>2, <3>3 DEF FindProject
    <3> QED
      BY <3>3, <3>4
  <2> DEFINE x == [up[r] EXCEPT !.at = t, !.pid = i]
  <2>3. /\ x.at = t /\ x.list = up[r].list /\ x.beside = up[r].beside
        /\ x.batch = up[r].batch /\ x.row = up[r].row /\ x.line = up[r].line
        /\ x.pid = i /\ x.unsaved = up[r].unsaved
    BY <1>0 DEF Upload
  <2>4. Moves(r, x)
    BY <2>2
  <2> HIDE DEF x
  <2>5. ListRight(x, projects)
    BY <1>0, <2>1, <2>2, <2>3 DEF ListRight, Clean, Listed, Listable, Seen
  <2> QED
    BY <2>1, <2>3, <2>4, <2>5, ListMoves
<1>4. ASSUME NEW r \in Uploads, UpdateProject(r)
      PROVE  ListInv'
  <2>1. Rest /\ r \in Active /\ up[r].at = "update"
    BY <1>4 DEF UpdateProject, Active
  <2>2. PICK p \in projects :
          /\ p.id = up[r].pid
          /\ Moves(r, [up[r] EXCEPT !.at = "file", !.row = {Merged(r, p)}])
    BY <1>4 DEF UpdateProject
  <2> DEFINE x == [up[r] EXCEPT !.at = "file", !.row = {Merged(r, p)}]
  <2>3. /\ x.at = "file" /\ x.list = up[r].list /\ x.beside = up[r].beside
        /\ x.batch = up[r].batch /\ x.row = {Merged(r, p)} /\ x.line = up[r].line
        /\ x.pid = up[r].pid /\ x.unsaved = up[r].unsaved
    BY <1>0 DEF Upload
  <2>4. Moves(r, x)
    BY <2>2
  <2> HIDE DEF x
  <2>5. Merged(r, p).id = p.id
    BY <2>1, MergedType
  <2>6. ASSUME up[r].list # {Nil} PROVE Merged(r, p).name \in up[r].list
    <3>1. up[r].batch.name \in up[r].list /\ up[r].batch.name # Nil
      BY <1>0, <2>1, <2>6, ListsAssumption DEF ListRight, Upload
    <3>2. p \in Project
      BY DEF ProjectsTypeOK
    <3> QED
      BY <3>1, <3>2 DEF Merged, First, Project
  <2>7. ListRight(x, projects)
    BY <1>0, <2>1, <2>2, <2>3, <2>5, <2>6 DEF ListRight, Clean, Listed, Listable, Seen
  <2> QED
    BY <2>1, <2>3, <2>4, <2>7, ListMoves
<1>5. ASSUME NEW r \in Uploads, InsertProject(r)
      PROVE  ListInv'
  <2> DEFINE b == up[r].batch
  <2> DEFINE new == [id |-> b.pid, name |-> b.name, key |-> GroupKey(b), ident |-> b.ident]
  <2>1. Rest /\ r \in Active /\ up[r].at = "insert" /\ b.pid = up[r].pid
    BY <1>0, <1>5 DEF InsertProject, Active, ListRight
  <2>2. PICK w \in {{}, {new}} :
          /\ Moves(r, [up[r] EXCEPT !.at = "file", !.row = w])
          /\ w = {} => \E p \in projects : p.id = b.pid
    BY <1>5 DEF InsertProject
  <2> DEFINE x == [up[r] EXCEPT !.at = "file", !.row = w]
  <2>3. /\ x.at = "file" /\ x.list = up[r].list /\ x.beside = up[r].beside
        /\ x.batch = up[r].batch /\ x.row = w /\ x.line = up[r].line
        /\ x.pid = up[r].pid /\ x.unsaved = up[r].unsaved
    BY <1>0 DEF Upload
  <2>4. Moves(r, x)
    BY <2>2
  <2> HIDE DEF x
  <2>5. \A o \in w : o.id = b.pid /\ o.name = b.name
    BY <2>2
  <2>6. ListRight(x, projects)
    BY <1>0, <2>1, <2>2, <2>3, <2>5 DEF ListRight, Clean, Listed, Listable, Seen
  <2> QED
    BY <2>1, <2>3, <2>4, <2>6, ListMoves
<1>6. ASSUME NEW r \in Uploads, FindTranscript(r) \/ InsertTranscript(r) \/ InsertEntry(r)
      PROVE  ListInv'
  <2>1. Rest /\ r \in Active /\ up[r].at \in {"file", "new", "entry"}
    BY <1>6 DEF FindTranscript, InsertTranscript, InsertEntry, Active
  <2> DEFINE Homed(e) == /\ e.project = up[r].pid
                         /\ \E p \in Seen(up[r], projects) : p.id = up[r].pid
  <2> DEFINE Goal == \E x : /\ Moves(r, x) /\ x.at \in {"new", "entry", "commit"}
                            /\ x.list = up[r].list /\ x.beside = up[r].beside
                            /\ x.row = up[r].row /\ x.pid = up[r].pid /\ x.unsaved = up[r].unsaved
                            /\ \A e \in x.line : Homed(e)
                            /\ x.at # "commit" => x.line = {}
  <2>2. Goal
    <3>1. CASE FindTranscript(r)
      <4>1. \/ \E t \in {"new", "entry"} : Moves(r, [up[r] EXCEPT !.at = t])
            \/ \E f \in transcripts : Moves(r, [up[r] EXCEPT !.at = "entry", !.tid = f.id])
        BY <3>1 DEF FindTranscript
      <4>2. up[r].line = {}
        BY <1>0, <2>1 DEF ListRight
      <4>3. ASSUME NEW t \in {"new", "entry"}, Moves(r, [up[r] EXCEPT !.at = t]) PROVE Goal
        BY <1>0, <4>2, <4>3 DEF Upload
      <4>4. ASSUME NEW i, Moves(r, [up[r] EXCEPT !.at = "entry", !.tid = i]) PROVE Goal
        <5> DEFINE x == [up[r] EXCEPT !.at = "entry", !.tid = i]
        <5>1. /\ x.at = "entry" /\ x.list = up[r].list /\ x.beside = up[r].beside
              /\ x.row = up[r].row /\ x.pid = up[r].pid /\ x.unsaved = up[r].unsaved
              /\ x.line = up[r].line
          BY <1>0 DEF Upload
        <5>2. Moves(r, x)
          BY <4>4
        <5> HIDE DEF x
        <5> QED
          BY <4>2, <5>1, <5>2
      <4> QED
        BY <4>1, <4>3, <4>4
    <3>2. CASE InsertTranscript(r)
      <4>1. up[r].line = {}
        BY <1>0, <2>1 DEF ListRight
      <4>2. PICK w \in SUBSET {[id |-> up[r].batch.tid, project |-> up[r].pid,
                                file |-> up[r].batch.file, user |-> up[r].batch.user]} :
              Moves(r, [up[r] EXCEPT !.at = "entry", !.file = w])
        BY <3>2 DEF InsertTranscript
      <4> DEFINE x == [up[r] EXCEPT !.at = "entry", !.file = w]
      <4>3. /\ x.at = "entry" /\ x.list = up[r].list /\ x.beside = up[r].beside
            /\ x.row = up[r].row /\ x.pid = up[r].pid /\ x.unsaved = up[r].unsaved
              /\ x.line = up[r].line
        BY <1>0 DEF Upload
      <4>4. Moves(r, x)
        BY <4>2
      <4> HIDE DEF x
      <4> QED
        BY <4>1, <4>3, <4>4
    <3>3. CASE InsertEntry(r)
      <4> DEFINE line == [project |-> up[r].pid, transcript |-> up[r].tid,
                          file |-> up[r].batch.file, user |-> up[r].batch.user]
      <4>1. PICK w \in {{}, {line}} :
              /\ Moves(r, [up[r] EXCEPT !.at = "commit", !.line = w])
              /\ w # {} => \E p \in Rows(r) : p.id = up[r].pid
        BY <3>3 DEF InsertEntry
      <4>2. \A e \in w : Homed(e)
        BY <4>1 DEF Rows, Seen
      <4> DEFINE x == [up[r] EXCEPT !.at = "commit", !.line = w]
      <4>3. /\ x.at = "commit" /\ x.list = up[r].list /\ x.beside = up[r].beside
            /\ x.row = up[r].row /\ x.pid = up[r].pid /\ x.unsaved = up[r].unsaved
              /\ x.line = w
        BY <1>0 DEF Upload
      <4>4. Moves(r, x)
        BY <4>1
      <4> HIDE DEF x
      <4> QED
        BY <4>2, <4>3, <4>4
    <3> QED
      BY <1>6, <3>1, <3>2, <3>3
  <2>3. PICK x : /\ Moves(r, x) /\ x.at \in {"new", "entry", "commit"}
                 /\ x.list = up[r].list /\ x.beside = up[r].beside
                 /\ x.row = up[r].row /\ x.pid = up[r].pid /\ x.unsaved = up[r].unsaved
                 /\ \A e \in x.line : Homed(e)
                 /\ x.at # "commit" => x.line = {}
    BY <2>2
  <2>4. ListRight(x, projects)
    BY <1>0, <2>1, <2>3 DEF ListRight, Clean, Listed, Listable, Seen
  <2> QED
    BY <2>1, <2>3, <2>4, ListMoves
<1>7. ASSUME NEW r \in Uploads, CommitUpload(r)
      PROVE  ListInv'
  <2>1. /\ r \in Active /\ projects' = Rows(r)
        /\ \A q \in Uploads : up'[q] = IF q = r THEN NoUpload ELSE up[q]
    BY <1>7 DEF CommitUpload, Moves, Active, ProjectsTypeOK
  <2>2. ListRight(NoUpload, projects')
    BY DEF ListRight, NoUpload, Clean
  <2>3. ASSUME NEW q \in Uploads, q # r PROVE ListRight(up[q], projects')
    <3>1. CASE ~Clean(up[q]) \/ q \notin Active
      BY <1>0, <2>3, <3>1 DEF ListRight, Active
    <3>2. CASE Clean(up[q]) /\ q \in Active
      <4>1. up[r].list = up[q].list
        BY <2>1, <2>3, <3>2 DEF ListInv, Beside, Clean
      <4>2. \A o \in up[r].row : o.name \in up[q].list
        BY <1>0, <3>2, <4>1 DEF ListRight, Clean
      <4>3. ASSUME NEW i, Listed(up[q], projects, i) PROVE Listed(up[q], projects', i)
        BY <2>1, <4>2, <4>3, ListedStays DEF Rows
      <4>4. ASSUME NEW i, Listable(up[q], projects, i) PROVE Listable(up[q], projects', i)
        BY <2>1, <4>2, <4>4 DEF Listable, Seen, Rows
      <4> QED
        BY <1>0, <4>3, <4>4 DEF ListRight
    <3> QED
      BY <3>1, <3>2
  <2>4. Beside'
    BY <2>1 DEF ListInv, Beside, Active, NoUpload
  <2>5. ASSUME NEW q \in Uploads PROVE ListRight(up'[q], projects')
    BY <2>1, <2>2, <2>3
  <2> QED
    BY <2>4, <2>5 DEF ListInv, ListRight, Clean, Listed, Listable, Seen
<1>8. ASSUME NEW r \in Uploads, AbortUpload(r)
      PROVE  ListInv'
  <2>1. ListRight(NoUpload, projects) /\ NoUpload.at = "idle"
    BY DEF ListRight, NoUpload, Clean
  <2> QED
    BY <1>8, <2>1, ListMoves DEF AbortUpload, Active
<1>9. CASE ChangeList
  BY <1>9 DEF ChangeList, tables, ListInv, Beside, Active, ListRight, Clean, Listed, Listable, Seen
<1>10. CASE UNCHANGED projectVars
  BY <1>10 DEF projectVars, ListInv, Beside, Active, ListRight, Clean, Listed, Listable, Seen
<1>11. ASSUME NEW r \in Uploads, FailStatement(r)
       PROVE  ListInv'
  <2>1. Rest
    BY <1>11 DEF FailStatement
  <2>2. PICK x \in Upload :
          /\ Moves(r, x) /\ x.at \in {"file", "entry", "commit"}
          /\ up[r].at \in {"find", "update", "insert", "file", "new", "entry"}
          /\ up[r].at \in {"find", "update"} => x.unsaved # {}
          /\ up[r].at \notin {"find", "update"} => x.unsaved = up[r].unsaved
          /\ x.batch = up[r].batch /\ x.list = up[r].list /\ x.beside = up[r].beside
          /\ x.pid = up[r].pid /\ x.row = up[r].row /\ x.line = up[r].line
    BY <1>11, Failing
  <2>3. r \in Active /\ x.line = {}
    BY <1>0, <2>2 DEF Active, ListRight
  <2>4. CASE up[r].at \in {"find", "update"}
    BY <1>0, <2>1, <2>2, <2>3, <2>4, ListMoves DEF ListRight, Clean
  <2>5. CASE up[r].at \notin {"find", "update"}
    <3>1. Clean(x) => Clean(up[r])
      BY <2>2, <2>5 DEF Clean
    <3>2. \A i : /\ Listed(up[r], projects, i) => Listed(x, projects, i)
                 /\ Listable(up[r], projects, i) => Listable(x, projects, i)
      BY <2>2 DEF Listed, Listable, Seen
    <3>3. ListRight(x, projects)
      BY <1>0, <2>2, <2>3, <2>5, <3>1, <3>2 DEF ListRight
    <3> QED
      BY <2>1, <2>2, <2>3, <3>3, ListMoves
  <2> QED
    BY <2>4, <2>5
<1> QED
  BY <1>1, <1>2, <1>3, <1>4, <1>5, <1>6, <1>7, <1>8, <1>9, <1>10, <1>11 DEF ProjectsNext

\* Under one allow-list, no push that could write its project brings an entry
\* into one whose name the list leaves out, for all interleavings with pushes
\* that rename and insert projects, and wherever other statements fail.
THEOREM AllowListKept == ProjectsSpec => []AllowListHolds
<1>1. ProjectsInit => ProjectsTypeOK /\ ListInv
  BY NoUploadType
     DEF ProjectsInit, ProjectsTypeOK, ListInv, Beside, Active, ListRight, Clean, NoUpload
<1>2. ProjectsTypeOK /\ ListInv /\ [ProjectsNext]_projectVars => (ProjectsTypeOK /\ ListInv)'
  BY TypeNext, ListNext
<1>3. ListInv => AllowListHolds
  BY DEF ListInv, ListRight, Clean, Listed, Seen, Rows, AllowListHolds
<1> QED
  BY <1>1, <1>2, <1>3, PTL DEF ProjectsSpec

-----------------------------------------------------------------------------
(* Cards                                                                     *)

Idents == {b.ident : b \in Batches} \ {Nil}

\* What clients name repositories by -- an identity, the origin, ids of their
\* own -- are names of different kinds: origins are hashed under a prefix.
NamesApart ==
  \A b \in Batches : b.pid \notin Idents /\ b.key \notin Idents /\ b.origin \notin Idents

\* A clone d that goes by its identity at times, and at other times (b) by the key
\* of c, has the identity of c: a repository whose origin comes or goes is not
\* merged with another clone.
ClonesApart ==
  \A b, c, d \in Batches :
    /\ b.pid = d.pid /\ b.pid # c.pid
    /\ GroupKey(b) = GroupKey(c) /\ GroupKey(d) = d.ident /\ d.ident # Nil
    => c.ident \in {Nil, d.ident}

\* A row whose key is an identity has that identity.
KeyRight(p) == p.key \in Idents => p.ident = p.key

\* The names of a row are a client's; its key is one that its own client gave it.
Named(p) ==
  /\ p.ident \in Idents \cup {Nil}
  /\ \E b \in Batches : b.pid = p.id
  /\ p.key = Nil \/ \E b \in Batches : b.pid = p.id /\ p.key = GroupKey(b)

RowRight(p) == KeyRight(p) /\ Named(p)

\* What holds of a push u: the row that it is to merge with is its own, or one
\* that its client once gave the same key.
CardRight(u) ==
  /\ \A p \in u.row : RowRight(p)
  /\ u.at \in {"judge", "find", "insert"} => u.pid = u.batch.pid
  /\ u.at = "update" =>
       \/ u.pid = u.batch.pid
       \/ \E b \in Batches :
            b.pid = u.pid /\ GroupKey(b) = GroupKey(u.batch) /\ GroupKey(b) # Nil

CardInv ==
  /\ \A p \in projects : RowRight(p)
  /\ \A r \in Uploads : CardRight(up[r])

-----------------------------------------------------------------------------
(* The rows of one repository *)

KeysWith(i, rows) == {q.key : q \in {q \in rows : q.ident = i /\ q.key # Nil}}

\* The key that rows of one repository are grouped by is one of theirs, or the
\* repository's identity, or missing from all of them.
LEMMA GroupedBy ==
  ASSUME NEW rows, NEW p \in rows, p.ident # Nil
  PROVE  \/ /\ KeysWith(p.ident, rows) = {}
            /\ \A q \in rows : q.ident = p.ident => EffectiveKey(q, rows) = Nil
         \/ \E k \in KeysWith(p.ident, rows) \cup {p.ident} :
              /\ k # Nil
              /\ \A q \in rows : q.ident = p.ident => EffectiveKey(q, rows) = k
<1> DEFINE keys == KeysWith(p.ident, rows)
<1>1. ASSUME NEW q \in rows, q.ident = p.ident
      PROVE  EffectiveKey(q, rows) =
               IF keys = {} THEN q.key
               ELSE IF Cardinality(keys) = 1 THEN CHOOSE k \in keys : TRUE
               ELSE p.ident
  BY <1>1 DEF EffectiveKey, KeysWith
<1>2. CASE keys = {}
  <2>1. ASSUME NEW q \in rows, q.ident = p.ident
        PROVE  EffectiveKey(q, rows) = Nil
    BY <1>1, <1>2, <2>1 DEF KeysWith
  <2> QED
    BY <1>2, <2>1
<1>3. CASE keys # {}
  <2> DEFINE k == IF Cardinality(keys) = 1 THEN CHOOSE k \in keys : TRUE ELSE p.ident
  <2>1. k \in keys \cup {p.ident}
    <3>1. (CHOOSE x \in keys : TRUE) \in keys
      BY <1>3, Zenon
    <3> QED
      BY <3>1
  <2>2. Nil \notin keys
    BY DEF KeysWith
  <2>3. \A q \in rows : q.ident = p.ident => EffectiveKey(q, rows) = k
    BY <1>1, <1>3
  <2> HIDE DEF k
  <2> QED
    BY <2>1, <2>2, <2>3
<1> QED
  BY <1>2, <1>3

\* The card of a row that has no identity, or another one, is not that identity.
LEMMA OtherCards ==
  ASSUME NamesApart, NEW rows, \A p \in rows : RowRight(p),
         NEW i \in Idents, NEW q \in rows, Card(q, rows) = i
  PROVE  q.ident = i
<1> SUFFICES ASSUME q.ident # i PROVE FALSE
  OBVIOUS
<1>0. i # Nil /\ RowRight(q)
  BY DEF Idents
<1>1. \A p \in rows : p.key = i => p.ident = i
  BY DEF RowRight, KeyRight
<1>2. CASE q.ident = Nil
  <2>1. Card(q, rows) = First(q.key, q.id)
    BY <1>2 DEF Card, EffectiveKey, First
  <2>2. q.id \notin Idents
    BY <1>0 DEF RowRight, Named, NamesApart
  <2> QED
    BY <1>1, <2>1, <2>2 DEF First
<1>3. CASE q.ident # Nil
  <2>1. CASE EffectiveKey(q, rows) = Nil
    BY <1>3, <2>1 DEF Card, First
  <2>2. CASE EffectiveKey(q, rows) # Nil
    <3>1. Card(q, rows) = EffectiveKey(q, rows)
      BY <2>2 DEF Card, First
    <3>2. EffectiveKey(q, rows) \in KeysWith(q.ident, rows) \cup {q.ident}
      BY <1>3, <2>2, GroupedBy
    <3>3. i \in KeysWith(q.ident, rows)
      BY <3>1, <3>2
    <3> QED
      BY <1>1, <3>3 DEF KeysWith
  <2> QED
    BY <2>1, <2>2
<1> QED
  BY <1>2, <1>3

\* One repository is one card, and its identity leads there.
LEMMA OneCard ==
  ASSUME NamesApart, NEW rows, \A p \in rows : RowRight(p), NEW p \in rows, p.ident # Nil
  PROVE  /\ \A q \in rows : q.ident = p.ident => Card(q, rows) = Card(p, rows)
         /\ Leads(p.ident, rows) = {Card(p, rows)}
<1> DEFINE i == p.ident
<1> DEFINE c == Card(p, rows)
<1>1. i \in Idents /\ i # Nil
  BY DEF RowRight, Named
<1>2. \A q \in rows : q.ident = i => Card(q, rows) = c
  BY <1>1, GroupedBy DEF Card, First
<1>3. \A q \in rows : Card(q, rows) = i => q.ident = i
  BY <1>1, OtherCards
<1>4. c \in KeysWith(i, rows) \cup {i}
  BY <1>1, GroupedBy DEF Card, First
<1>5. Leads(i, rows) = {c}
  <2> DEFINE cards == {Card(q, rows) : q \in rows}
  <2>1. c \in cards
    OBVIOUS
  <2>2. CASE c = i
    BY <2>1, <2>2 DEF Leads
  <2>3. CASE c # i
    <3>1. i \notin cards
      BY <1>2, <1>3, <2>3
    <3>2. Leads(i, rows) = {d \in cards : i \in CardAliases(d, rows)}
      BY <3>1 DEF Leads
    <3>3. i \in CardAliases(c, rows)
      <4>1. p \in {q \in rows : Card(q, rows) = c} /\ i \in {p.ident, p.key}
        OBVIOUS
      <4> QED
        BY <1>1, <2>3, <4>1 DEF CardAliases
    <3>4. ASSUME NEW d, i \in CardAliases(d, rows)
          PROVE  d = c
      <4>1. PICK q \in rows : Card(q, rows) = d /\ i \in {q.ident, q.key}
        BY <3>4 DEF CardAliases
      <4>2. q.ident = i
        BY <1>1, <4>1 DEF RowRight, KeyRight
      <4> QED
        BY <1>2, <4>1, <4>2
    <3> QED
      BY <2>1, <3>2, <3>3, <3>4
  <2> QED
    BY <2>2, <2>3
<1> QED
  BY <1>2, <1>5

-----------------------------------------------------------------------------
(* Keys and identities through pushes                                        *)

LEMMA CardMoves ==
  ASSUME ProjectsTypeOK, CardInv, NEW r \in Uploads, NEW x, Moves(r, x), Rest,
         CardRight(x)
  PROVE  CardInv'
<1>1. \A q \in Uploads : up'[q] = IF q = r THEN x ELSE up[q]
  BY DEF ProjectsTypeOK, Moves
<1>2. \A q \in Uploads : CardRight(up'[q])
  BY <1>1 DEF CardInv
<1>3. projects' = projects
  BY DEF Rest, tables
<1> QED
  BY <1>2, <1>3 DEF CardInv, CardRight, RowRight, KeyRight, Named, Idents

\* A client's own name for its project is its origin, its identity or its key.
LEMMA OwnKey ==
  ASSUME NamesApart, NEW b \in Batches, GroupKey(b) \in Idents
  PROVE  GroupKey(b) = b.ident /\ b.ident # Nil
BY DEF NamesApart, GroupKey, First, Idents

LEMMA MergedRight ==
  ASSUME NamesApart, ClonesApart, ProjectsTypeOK, CardInv,
         NEW r \in Uploads, up[r].at = "update",
         NEW p \in projects, p.id = up[r].pid
  PROVE  RowRight(Merged(r, p))
<1> DEFINE b == up[r].batch
<1>1. b \in Batches /\ p \in Project /\ RowRight(p) /\ CardRight(up[r])
  BY DEF ProjectsTypeOK, CardInv
<1>2. PICK x : x = Merged(r, p)
  OBVIOUS
<1>3. /\ x.id = p.id /\ x.ident = First(b.ident, p.ident)
      /\ x.key = IF p.id = b.pid THEN First(GroupKey(b), p.key) ELSE p.key
  BY <1>1, <1>2 DEF Merged, Project
<1>4. b.ident \in Idents \cup {Nil}
  BY <1>1 DEF Idents
<1>5. Named(x)
  BY <1>1, <1>3, <1>4 DEF RowRight, Named, First
<1>6. KeyRight(x)
  <2> SUFFICES ASSUME x.key \in Idents PROVE x.ident = x.key
    BY DEF KeyRight
  <2>0. Nil \notin Idents
    BY DEF Idents
  <2>1. CASE p.id = b.pid
    <3>1. CASE GroupKey(b) # Nil
      BY <1>1, <1>3, <2>1, <3>1, OwnKey DEF First
    <3>2. CASE GroupKey(b) = Nil
      BY <1>1, <1>3, <2>1, <3>2 DEF First, GroupKey, RowRight, KeyRight
    <3> QED
      BY <3>1, <3>2
  <2>2. CASE p.id # b.pid
    <3>1. x.key = p.key /\ p.ident = p.key
      BY <1>1, <1>3, <2>2 DEF RowRight, KeyRight
    <3>2. PICK d \in Batches : d.pid = p.id /\ p.key = GroupKey(d)
      BY <1>1, <2>0, <3>1 DEF RowRight, Named
    <3>3. GroupKey(d) = d.ident /\ d.ident # Nil
      BY <3>1, <3>2, OwnKey
    <3>4. PICK e \in Batches : e.pid = p.id /\ GroupKey(e) = GroupKey(b)
      BY <1>1, <2>2 DEF CardRight
    <3>5. b.ident \in {Nil, d.ident}
      BY <1>1, <2>2, <3>2, <3>3, <3>4 DEF ClonesApart
    <3> QED
      BY <1>3, <3>1, <3>2, <3>3, <3>5 DEF First
  <2> QED
    BY <2>1, <2>2
<1> QED
  BY <1>2, <1>5, <1>6 DEF RowRight

LEMMA CardNext ==
  ASSUME NamesApart, ClonesApart, ProjectsTypeOK, CardInv, [ProjectsNext]_projectVars
  PROVE  CardInv'
<1>0. \A r \in Uploads : up[r] \in Upload /\ CardRight(up[r])
  BY DEF ProjectsTypeOK, CardInv
<1>1. ASSUME NEW r \in Uploads, NEW b \in Batches, BeginUpload(r, b)
      PROVE  CardInv'
  <2>1. projects' = projects
    BY <1>1 DEF BeginUpload, tables
  <2>2. CardRight(up'[r])
    BY <1>1, BeginMine DEF CardRight
  <2>3. ASSUME NEW q \in Uploads, q # r PROVE CardRight(up'[q])
    BY <1>0, <1>1, <2>3, BeginOther DEF CardRight
  <2> QED
    BY <2>1, <2>2, <2>3 DEF CardInv, CardRight, RowRight, KeyRight, Named, Idents
<1>2. ASSUME NEW r \in Uploads, Judge(r)
      PROVE  CardInv'
  <2>1. PICK t \in {"commit", "find", "file"} : Moves(r, [up[r] EXCEPT !.at = t])
    BY <1>2 DEF Judge
  <2>2. CardRight([up[r] EXCEPT !.at = t])
    BY <1>0, <1>2 DEF Judge, CardRight, Upload
  <2> QED
    BY <1>2, <2>1, <2>2, CardMoves DEF Judge
<1>3. ASSUME NEW r \in Uploads, FindProject(r)
      PROVE  CardInv'
  <2>1. Rest /\ up[r].at = "find"
    BY <1>3 DEF FindProject
  <2>2. \/ \E t \in {"update", "insert"} : Moves(r, [up[r] EXCEPT !.at = t])
        \/ \E p \in projects :
             /\ GroupKey(up[r].batch) # Nil /\ p.key = GroupKey(up[r].batch)
             /\ Moves(r, [up[r] EXCEPT !.at = "update", !.pid = p.id])
    BY <1>3 DEF FindProject
  <2>3. ASSUME NEW t \in {"update", "insert"}, Moves(r, [up[r] EXCEPT !.at = t])
        PROVE  CardInv'
    <3>1. CardRight([up[r] EXCEPT !.at = t])
      BY <1>0, <2>1 DEF CardRight, Upload
    <3> QED
      BY <2>1, <2>3, <3>1, CardMoves
  <2>4. ASSUME NEW p \in projects, GroupKey(up[r].batch) # Nil, p.key = GroupKey(up[r].batch),
               Moves(r, [up[r] EXCEPT !.at = "update", !.pid = p.id])
        PROVE  CardInv'
    <3>1. PICK b \in Batches : b.pid = p.id /\ p.key = GroupKey(b)
      BY <2>4 DEF CardInv, RowRight, Named
    <3>2. PICK x : x = [up[r] EXCEPT !.at = "update", !.pid = p.id]
      OBVIOUS
    <3>3. x.at = "update" /\ x.pid = p.id /\ x.batch = up[r].batch /\ x.row = up[r].row
      BY <1>0, <3>2 DEF Upload
    <3>4. CardRight(x)
      BY <1>0, <2>4, <3>1, <3>3 DEF CardRight
    <3> QED
      BY <2>1, <2>4, <3>2, <3>4, CardMoves
  <2> QED
    BY <2>2, <2>3, <2>4
<1>4. ASSUME NEW r \in Uploads, UpdateProject(r)
      PROVE  CardInv'
  <2>1. PICK p \in projects :
          p.id = up[r].pid /\ Moves(r, [up[r] EXCEPT !.at = "file", !.row = {Merged(r, p)}])
    BY <1>4 DEF UpdateProject
  <2>2. RowRight(Merged(r, p))
    BY <1>4, <2>1, MergedRight DEF UpdateProject
  <2>3. CardRight([up[r] EXCEPT !.at = "file", !.row = {Merged(r, p)}])
    BY <1>0, <2>2 DEF CardRight, Upload
  <2> QED
    BY <1>4, <2>1, <2>3, CardMoves DEF UpdateProject
<1>5. ASSUME NEW r \in Uploads, InsertProject(r)
      PROVE  CardInv'
  <2> DEFINE b == up[r].batch
  <2>1. PICK new : new = [id |-> b.pid, name |-> b.name, key |-> GroupKey(b), ident |-> b.ident]
    OBVIOUS
  <2>2. PICK w \in {{}, {new}} : Moves(r, [up[r] EXCEPT !.at = "file", !.row = w])
    BY <1>5, <2>1 DEF InsertProject
  <2>3. b \in Batches
    BY <1>5 DEF InsertProject, ProjectsTypeOK
  <2>4. new.id = b.pid /\ new.key = GroupKey(b) /\ new.ident = b.ident
    BY <2>1
  <2>5. RowRight(new)
    BY <2>3, <2>4, OwnKey DEF RowRight, KeyRight, Named, Idents
  <2>6. CardRight([up[r] EXCEPT !.at = "file", !.row = w])
    BY <1>0, <2>2, <2>5 DEF CardRight, Upload
  <2> QED
    BY <1>5, <2>2, <2>6, CardMoves DEF InsertProject
<1>6. ASSUME NEW r \in Uploads, FindTranscript(r) \/ InsertTranscript(r) \/ InsertEntry(r)
      PROVE  CardInv'
  <2>1. Rest
    BY <1>6 DEF FindTranscript, InsertTranscript, InsertEntry
  <2>2. \E x : /\ Moves(r, x) /\ x.row = up[r].row
               /\ x.at \notin {"judge", "find", "insert", "update"}
    <3>1. CASE FindTranscript(r)
      <4>1. \/ \E t \in {"entry", "new"} : Moves(r, [up[r] EXCEPT !.at = t])
            \/ \E f \in transcripts : Moves(r, [up[r] EXCEPT !.at = "entry", !.tid = f.id])
        BY <3>1 DEF FindTranscript
      <4>2. CASE \E t \in {"entry", "new"} : Moves(r, [up[r] EXCEPT !.at = t])
        <5>1. PICK t \in {"entry", "new"} : Moves(r, [up[r] EXCEPT !.at = t])
          BY <4>2
        <5>2. [up[r] EXCEPT !.at = t].row = up[r].row /\ [up[r] EXCEPT !.at = t].at = t
          BY <1>0 DEF Upload
        <5> QED
          BY <5>1, <5>2
      <4>3. CASE \E f \in transcripts : Moves(r, [up[r] EXCEPT !.at = "entry", !.tid = f.id])
        <5>1. PICK i : Moves(r, [up[r] EXCEPT !.at = "entry", !.tid = i])
          BY <4>3
        <5>2. /\ [up[r] EXCEPT !.at = "entry", !.tid = i].row = up[r].row
              /\ [up[r] EXCEPT !.at = "entry", !.tid = i].at = "entry"
          BY <1>0 DEF Upload
        <5> QED
          BY <5>1, <5>2
      <4> QED
        BY <4>1, <4>2, <4>3
    <3>2. CASE InsertTranscript(r)
      <4>1. \E w : Moves(r, [up[r] EXCEPT !.at = "entry", !.file = w])
        BY <3>2 DEF InsertTranscript
      <4>2. \A w : /\ [up[r] EXCEPT !.at = "entry", !.file = w].row = up[r].row
                   /\ [up[r] EXCEPT !.at = "entry", !.file = w].at = "entry"
        BY <1>0 DEF Upload
      <4> QED
        BY <4>1, <4>2
    <3>3. CASE InsertEntry(r)
      <4>1. \E w : Moves(r, [up[r] EXCEPT !.at = "commit", !.line = w])
        BY <3>3 DEF InsertEntry
      <4>2. \A w : /\ [up[r] EXCEPT !.at = "commit", !.line = w].row = up[r].row
                   /\ [up[r] EXCEPT !.at = "commit", !.line = w].at = "commit"
        BY <1>0 DEF Upload
      <4> QED
        BY <4>1, <4>2
    <3> QED
      BY <1>6, <3>1, <3>2, <3>3
  <2>3. PICK x : /\ Moves(r, x) /\ x.row = up[r].row
                 /\ x.at \notin {"judge", "find", "insert", "update"}
    BY <2>2
  <2>4. CardRight(x)
    BY <1>0, <2>3 DEF CardRight
  <2> QED
    BY <2>1, <2>3, <2>4, CardMoves
<1>7. ASSUME NEW r \in Uploads, CommitUpload(r)
      PROVE  CardInv'
  <2>1. projects' = Rows(r) /\ \A q \in Uploads : up'[q] = IF q = r THEN NoUpload ELSE up[q]
    BY <1>7 DEF CommitUpload, Moves, ProjectsTypeOK
  <2>2. \A p \in Rows(r) : RowRight(p)
    BY <1>0 DEF Rows, CardInv, CardRight
  <2>3. \A q \in Uploads : CardRight(up'[q])
    BY <1>0, <2>1 DEF CardRight, NoUpload
  <2> QED
    BY <2>1, <2>2, <2>3 DEF CardInv, CardRight, RowRight, KeyRight, Named, Idents
<1>8. ASSUME NEW r \in Uploads, AbortUpload(r)
      PROVE  CardInv'
  <2>1. CardRight(NoUpload)
    BY DEF CardRight, NoUpload
  <2> QED
    BY <1>8, <2>1, CardMoves DEF AbortUpload
<1>9. CASE ChangeList
  BY <1>9 DEF ChangeList, tables, CardInv, CardRight, RowRight, KeyRight, Named, Idents
<1>10. CASE UNCHANGED projectVars
  BY <1>10 DEF projectVars, CardInv, CardRight, RowRight, KeyRight, Named, Idents
<1>11. ASSUME NEW r \in Uploads, FailStatement(r)
       PROVE  CardInv'
  <2>1. PICK x \in Upload :
          Moves(r, x) /\ x.at \in {"file", "entry", "commit"} /\ x.row = up[r].row
    BY <1>11, Failing
  <2>2. CardRight(x)
    BY <1>0, <2>1 DEF CardRight
  <2> QED
    BY <1>11, <2>1, <2>2, CardMoves DEF FailStatement
<1> QED
  BY <1>1, <1>2, <1>3, <1>4, <1>5, <1>6, <1>7, <1>8, <1>9, <1>10, <1>11 DEF ProjectsNext

\* However pushes of one repository's clones interleave, the rows of an identity
\* that a user sees are on one card of the dashboard, and the identity leads there.
THEOREM CardsKept ==
  NamesApart /\ ClonesApart => (ProjectsSpec => []CardsKeepRepos)
<1> SUFFICES ASSUME NamesApart, ClonesApart
             PROVE  ProjectsSpec => []CardsKeepRepos
  OBVIOUS
<1>1. ProjectsInit => ProjectsTypeOK /\ CardInv
  BY NoUploadType DEF ProjectsInit, ProjectsTypeOK, CardInv, CardRight, NoUpload
<1>2. ProjectsTypeOK /\ CardInv /\ [ProjectsNext]_projectVars => (ProjectsTypeOK /\ CardInv)'
  BY TypeNext, CardNext
<1>3. CardInv => CardsKeepRepos
  <2> SUFFICES ASSUME CardInv, NEW u, NEW p \in VisibleRows(u), p.ident # Nil
               PROVE  /\ \A q \in VisibleRows(u) : q.ident = p.ident =>
                           Card(q, VisibleRows(u)) = Card(p, VisibleRows(u))
                      /\ Leads(p.ident, VisibleRows(u)) = {Card(p, VisibleRows(u))}
    BY DEF CardsKeepRepos
  <2>1. \A q \in VisibleRows(u) : RowRight(q)
    BY DEF VisibleRows, CardInv
  <2> QED
    BY <2>1, OneCard
<1> QED
  BY <1>1, <1>2, <1>3, PTL DEF ProjectsSpec

-----------------------------------------------------------------------------
(* AuthMail: what a sweeper has in hand                                       *)

Row  == [status : {"none", "pending", "sent", "failed", "exhausted"}, attempts : Nat,
         due : BOOLEAN, use : {"open", "consumed", "expired"}, nobody : BOOLEAN]
Hand == [at : {"idle", "load", "send", "record"}, token : SUBSET Tokens, attempts : Nat,
         ok : BOOLEAN]

MailShape ==
  /\ mail \in [Tokens -> Row]
  /\ hand \in [Senders -> Hand]
  /\ mails \in [Tokens -> Nat]

\* A link that a sweeper has is one that is still to be mailed.
Wanted(t) == mail[t].status \in {"pending", "failed"} /\ mail[t].use # "consumed"

InHand ==
  /\ \A s, q \in Sweepers : s # q => hand[s].token \cap hand[q].token = {}
  /\ \A s \in Sweepers : \A t \in hand[s].token \cap Links : Wanted(t)

MailInv == MailShape /\ InHand

\* No sweeper takes a row more, and the links that sweepers have stay wanted.
LEMMA NothingTaken ==
  ASSUME MailInv, MailShape', \A s \in Sweepers : hand'[s].token \in {{}, hand[s].token},
         \A s \in Sweepers : \A t \in hand'[s].token \cap Links : Wanted(t) => Wanted(t)'
  PROVE  MailInv'
BY DEF MailInv, InHand

\* The row of one token is written, which no sweeper has.
LEMMA WriteUnlocked ==
  ASSUME MailInv, NEW t \in Tokens, NEW x \in Row, mail' = [mail EXCEPT ![t] = x], ~Locked(t),
         mails' = mails, hand' \in [Senders -> Hand],
         \A s \in Sweepers : hand'[s].token \in {{}, hand[s].token}
  PROVE  MailInv'
<1>1. MailShape'
  BY DEF MailInv, MailShape
<1>2. \A u \in Tokens \ {t} : mail'[u] = mail[u]
  BY DEF MailInv, MailShape
<1>3. \A s \in Sweepers : \A u \in hand'[s].token \cap Links : Wanted(u) => Wanted(u)'
  BY <1>2 DEF Locked, Wanted, Tokens
<1> QED
  BY <1>1, <1>3, NothingTaken

LEMMA IssueMailKeeps ==
  ASSUME MailInv, NEW t \in Tokens, IssueMail(t)
  PROVE  MailInv'
<1>1. PICK nobody \in BOOLEAN :
        mail' = [mail EXCEPT ![t] =
          [NoMail EXCEPT !.status = IF nobody THEN "exhausted" ELSE "pending",
                         !.due = ~nobody, !.nobody = nobody]]
  BY DEF IssueMail
<1> DEFINE st == IF nobody THEN "exhausted" ELSE "pending"
           due == ~nobody
           x == [NoMail EXCEPT !.status = st, !.due = due, !.nobody = nobody]
<1>2. mail' = [mail EXCEPT ![t] = x]
  BY <1>1
<1>3. st \in {"none", "pending", "sent", "failed", "exhausted"} /\ due \in BOOLEAN
  OBVIOUS
<1> HIDE DEF st, due
<1>4. NoMail \in Row
  BY DEF NoMail, Row
<1>5. x \in Row
  BY <1>3, <1>4 DEF Row
<1> HIDE DEF x
<1>6. mail' \in [Tokens -> Row] /\ \A u \in Tokens \ {t} : mail'[u] = mail[u]
  BY <1>2, <1>5 DEF MailInv, MailShape
<1>7. mail[t].status = "none" /\ mails' = mails
      /\ (hand' = hand \/ (t \in Codes /\ hand' = [hand EXCEPT ![t].at = "load"]))
  BY DEF IssueMail
<1>8. hand' \in [Senders -> Hand] /\ \A s \in Sweepers : hand'[s] = hand[s]
  BY <1>7, MailAssumption DEF MailInv, MailShape, Hand, Senders
<1>9. MailShape'
  BY <1>6, <1>7, <1>8 DEF MailInv, MailShape
<1>10. \A s \in Sweepers : \A u \in hand'[s].token \cap Links : Wanted(u) => Wanted(u)'
  BY <1>6, <1>7 DEF Wanted, Tokens
<1> QED
  BY <1>8, <1>9, <1>10, NothingTaken

LEMMA TokenStepKeeps ==
  ASSUME MailInv, NEW t \in Tokens, ConsumeMail(t) \/ ExpireMail(t) \/ BecomeDue(t)
  PROVE  MailInv'
<1>1. mail[t] \in Row /\ mail \in [Tokens -> Row] /\ hand \in [Senders -> Hand]
  BY DEF MailInv, MailShape
<1>2. CASE ConsumeMail(t)
  <2> DEFINE x == [mail[t] EXCEPT !.use = "consumed"]
  <2>1. mail' = [mail EXCEPT ![t] = x] /\ ~Locked(t) /\ mails' = mails /\ hand' = hand
    BY <1>2 DEF ConsumeMail
  <2>2. x \in Row
    BY <1>1 DEF Row
  <2> HIDE DEF x
  <2> QED
    BY <1>1, <2>1, <2>2, WriteUnlocked
<1>3. CASE ExpireMail(t) \/ BecomeDue(t)
  <2>1. PICK x \in Row : mail' = [mail EXCEPT ![t] = x] /\ x.status = mail[t].status
                         /\ x.use \in {mail[t].use, "expired"}
    <3>1. CASE ExpireMail(t)
      <4> DEFINE x == [mail[t] EXCEPT !.use = "expired"]
      <4>1. x \in Row /\ x.status = mail[t].status /\ x.use = "expired"
        BY <1>1 DEF Row
      <4>2. mail' = [mail EXCEPT ![t] = x]
        BY <3>1 DEF ExpireMail
      <4> QED
        BY <4>1, <4>2
    <3>2. CASE BecomeDue(t)
      <4> DEFINE due == TRUE
                 x == [mail[t] EXCEPT !.due = due]
      <4>1. mail' = [mail EXCEPT ![t] = x]
        BY <3>2 DEF BecomeDue
      <4>2. due \in BOOLEAN
        OBVIOUS
      <4> HIDE DEF due
      <4>3. x \in Row /\ x.status = mail[t].status /\ x.use = mail[t].use
        BY <1>1, <4>2 DEF Row
      <4> QED
        BY <4>1, <4>3
    <3> QED
      BY <1>3, <3>1, <3>2
  <2>2. mails' = mails /\ hand' = hand
    BY <1>3 DEF ExpireMail, BecomeDue
  <2>3. MailShape'
    BY <1>1, <2>1, <2>2 DEF MailInv, MailShape
  <2>4. \A u \in Tokens : Wanted(u) => Wanted(u)'
    BY <1>1, <2>1 DEF Wanted
  <2> QED
    BY <2>2, <2>3, <2>4, NothingTaken DEF Tokens
<1> QED
  BY <1>2, <1>3

LEMMA IdleHand == Idle \in Hand /\ Idle.token = {}
BY DEF Idle, Hand

LEMMA HandStepKeeps ==
  ASSUME MailInv, NEW s \in Senders, hand' = [hand EXCEPT ![s] = Idle],
         mail' = mail, mails' = mails
  PROVE  MailInv'
<1>1. MailShape' /\ \A q \in Sweepers : hand'[q].token \in {{}, hand[q].token}
  BY IdleHand DEF MailInv, MailShape, Senders
<1> QED
  BY <1>1, NothingTaken DEF Wanted

LEMMA SendKeeps ==
  ASSUME MailInv, NEW s \in Senders, NEW t \in Tokens, Send(s, t)
  PROVE  MailInv' /\ \A u \in Tokens : mails'[u] > mails[u] => u = t
<1>1. PICK answer \in BOOLEAN \X BOOLEAN :
        /\ mails' = [mails EXCEPT ![t] = @ + IF answer[1] THEN 1 ELSE 0]
        /\ hand' = [hand EXCEPT ![s].at = "record", ![s].ok = answer[2]]
  BY DEF Send, Answers
<1>2. mail' = mail
  BY DEF Send
<1> DEFINE n == IF answer[1] THEN 1 ELSE 0
<1>3. n \in Nat /\ mails' = [mails EXCEPT ![t] = @ + n]
  BY <1>1
<1> HIDE DEF n
<1>4. mails' \in [Tokens -> Nat] /\ \A u \in Tokens : u # t => mails'[u] = mails[u]
  BY <1>3 DEF MailInv, MailShape
<1>5. hand' \in [Senders -> Hand] /\ \A q \in Sweepers : hand'[q].token = hand[q].token
  <2> DEFINE x == [hand[s] EXCEPT !.at = "record", !.ok = answer[2]]
  <2>1. hand[s] \in Hand /\ answer[2] \in BOOLEAN
    BY DEF MailInv, MailShape
  <2>2. x \in Hand /\ x.token = hand[s].token
    BY <2>1 DEF Hand
  <2>3. hand' = [hand EXCEPT ![s] = x]
    BY <1>1
  <2> HIDE DEF x
  <2> QED
    BY <2>2, <2>3 DEF MailInv, MailShape, Senders
<1>6. MailShape'
  BY <1>2, <1>4, <1>5 DEF MailInv, MailShape
<1>7. MailInv'
  BY <1>2, <1>5, <1>6, NothingTaken DEF Wanted
<1>8. \A u \in Tokens : mails[u] \in Nat
  BY DEF MailInv, MailShape
<1> QED
  BY <1>4, <1>7, <1>8

LEMMA RecordKeeps ==
  ASSUME MailInv, NEW s \in Senders, NEW t \in Tokens, Record(s, t), s \in Sweepers \/ s = t
  PROVE  MailInv'
<1> DEFINE n == hand[s].attempts + 1
           st == IF hand[s].ok THEN "sent" ELSE Failed(n)
           due == FALSE
           x == [mail[t] EXCEPT !.attempts = n, !.due = due, !.status = st]
<1>1. mail' = [mail EXCEPT ![t] = x]
  BY DEF Record, Recorded
<1>2. n \in Nat /\ st \in {"none", "pending", "sent", "failed", "exhausted"} /\ due \in BOOLEAN
  BY DEF MailInv, MailShape, Hand, Failed
<1> HIDE DEF n, st, due
<1>3. x \in Row
  BY <1>2 DEF MailInv, MailShape, Row
<1> HIDE DEF x
<1>4. hand' = [hand EXCEPT ![s] = Idle] /\ mails' = mails /\ hand[s].token = {t}
      /\ (s = t => ~Locked(t))
  BY DEF Record
<1>5. hand' \in [Senders -> Hand] /\ hand'[s].token = {}
      /\ \A q \in Senders \ {s} : hand'[q] = hand[q]
  BY <1>4, IdleHand DEF MailInv, MailShape
<1>6. \A q \in Sweepers \ {s} : t \notin hand[q].token
  <2>1. CASE s \in Sweepers
    BY <1>4, <2>1 DEF MailInv, InHand
  <2>2. CASE s = t
    BY <1>4, <2>2 DEF Locked
  <2> QED
    BY <2>1, <2>2
<1>7. MailShape' /\ \A u \in Tokens \ {t} : mail'[u] = mail[u]
  BY <1>1, <1>3, <1>4, <1>5 DEF MailInv, MailShape
<1>8. \A q \in Sweepers : hand'[q].token \in {{}, hand[q].token} /\ t \notin hand'[q].token
  BY <1>5, <1>6 DEF Senders
<1>9. \A q \in Sweepers : \A u \in hand'[q].token \cap Links : Wanted(u) => Wanted(u)'
  BY <1>7, <1>8 DEF Wanted, Tokens
<1> QED
  BY <1>7, <1>8, <1>9, NothingTaken

LEMMA SweepKeeps ==
  ASSUME MailInv, NEW s \in Sweepers, NEW t \in Tokens, Sweep(s, t)
  PROVE  MailInv'
<1>1. DueMail(t) /\ ~Locked(t)
  BY DEF Sweep, Oldest, Takes
<1>2. mail[t] \in Row /\ mail \in [Tokens -> Row] /\ hand \in [Senders -> Hand]
  BY DEF MailInv, MailShape
<1>3. CASE t \in stale
  <2> DEFINE n == mail[t].attempts + 1
             due == FALSE
             x == [mail[t] EXCEPT !.status = "exhausted", !.attempts = n, !.due = due]
  <2>1. mail' = [mail EXCEPT ![t] = x] /\ mails' = mails /\ hand' = hand
    BY <1>3 DEF Sweep
  <2>2. n \in Nat /\ due \in BOOLEAN
    BY <1>2 DEF Row
  <2> HIDE DEF n, due
  <2>3. x \in Row
    BY <1>2, <2>2 DEF Row
  <2> HIDE DEF x
  <2> QED
    BY <1>1, <1>2, <2>1, <2>3, WriteUnlocked
<1>4. CASE t \notin stale
  <2> DEFINE x == [at |-> "send", token |-> {t}, attempts |-> mail[t].attempts, ok |-> FALSE]
  <2>1. hand' = [hand EXCEPT ![s] = x] /\ mail' = mail /\ mails' = mails
    BY <1>4 DEF Sweep
  <2>2. x \in Hand /\ x.token = {t}
    BY <1>2 DEF Row, Hand
  <2> HIDE DEF x
  <2>3. MailShape' /\ hand'[s].token = {t} /\ \A q \in Sweepers \ {s} : hand'[q] = hand[q]
    BY <2>1, <2>2 DEF MailInv, MailShape, Senders
  <2>4. \A q \in Sweepers : t \notin hand[q].token
    BY <1>1 DEF Locked
  <2>5. Wanted(t)
    BY <1>1 DEF DueMail, Wanted
  <2>6. \A u : Wanted(u)' <=> Wanted(u)
    BY <2>1 DEF Wanted
  <2>7. InHand'
    BY <2>3, <2>4, <2>5, <2>6 DEF MailInv, InHand
  <2> QED
    BY <2>3, <2>7 DEF MailInv
<1> QED
  BY <1>3, <1>4

LEMMA LoadMailKeeps ==
  ASSUME MailInv, NEW t \in Codes, LoadMail(t)
  PROVE  MailInv'
<1> DEFINE x == IF mail[t].nobody THEN Idle
                ELSE [at |-> "send", token |-> {t}, attempts |-> mail[t].attempts, ok |-> FALSE]
<1>1. hand' = [hand EXCEPT ![t] = x] /\ mail' = mail /\ mails' = mails
  BY DEF LoadMail
<1>2. mail[t] \in Row /\ t \in Tokens
  BY DEF MailInv, MailShape, Tokens
<1>3. x \in Hand
  <2>1. [at |-> "send", token |-> {t}, attempts |-> mail[t].attempts, ok |-> FALSE] \in Hand
    BY <1>2 DEF Row, Hand
  <2> QED
    BY <2>1, IdleHand
<1> HIDE DEF x
<1>4. MailShape' /\ \A q \in Sweepers : hand'[q] = hand[q]
  BY <1>1, <1>3, MailAssumption DEF MailInv, MailShape, Senders
<1> QED
  BY <1>1, <1>4, NothingTaken DEF Wanted

LEMMA MailInvNext ==
  ASSUME MailInv, [MailNext]_mailVars
  PROVE  MailInv'
<1>1. CASE UNCHANGED mailVars
  BY <1>1 DEF mailVars, MailInv, MailShape, InHand, Wanted
<1>2. ASSUME NEW s \in Sweepers, Sweeping(s)
      PROVE  MailInv'
  BY <1>2, SweepKeeps, SendKeeps, RecordKeeps DEF Sweeping, Senders
<1>3. ASSUME NEW t \in Codes, LoadMail(t) \/ Send(t, t) \/ Record(t, t)
      PROVE  MailInv'
  BY <1>3, LoadMailKeeps, SendKeeps, RecordKeeps DEF Senders, Tokens
<1>4. ASSUME NEW s \in Senders, Fail(s)
      PROVE  MailInv'
  BY <1>4, HandStepKeeps DEF Fail
<1>5. ASSUME ChangeSecret
      PROVE  MailInv'
  BY <1>5 DEF ChangeSecret, MailInv, MailShape, InHand, Wanted
<1> QED
  BY <1>1, <1>2, <1>3, <1>4, <1>5, IssueMailKeeps, TokenStepKeeps DEF MailNext

MailsWanted ==
  \A t \in Links : mails'[t] > mails[t] =>
    /\ mail[t].status \in {"pending", "failed"}
    /\ mail[t].use # "consumed"

LEMMA MailsNext ==
  ASSUME MailInv, [MailNext]_mailVars
  PROVE  MailsWanted
<1>1. ASSUME mails' = mails
      PROVE  MailsWanted
  <2>1. \A t \in Links : mails[t] \in Nat
    BY DEF MailInv, MailShape, Tokens
  <2> QED
    BY <1>1, <2>1 DEF MailsWanted
<1>2. ASSUME NEW s \in Sweepers, NEW t \in Tokens, Send(s, t)
      PROVE  MailsWanted
  <2>1. \A u \in Links : mails'[u] > mails[u] => u = t
    BY <1>2, SendKeeps DEF Senders, Tokens
  <2>2. t \in Links => Wanted(t)
    BY <1>2 DEF Send, MailInv, InHand
  <2> QED
    BY <2>1, <2>2 DEF MailsWanted, Wanted
<1>3. ASSUME NEW t \in Codes, Send(t, t)
      PROVE  MailsWanted
  <2>1. \A u \in Links : mails'[u] > mails[u] => u = t
    BY <1>3, SendKeeps DEF Senders, Tokens
  <2> QED
    BY <2>1, MailAssumption DEF MailsWanted
<1>4. ASSUME NEW t \in Tokens,
             IssueMail(t) \/ ConsumeMail(t) \/ ExpireMail(t) \/ BecomeDue(t)
      PROVE  mails' = mails
  BY <1>4 DEF IssueMail, ConsumeMail, ExpireMail, BecomeDue
<1>5. ASSUME NEW s, NEW t, Sweep(s, t) \/ Record(s, t) \/ LoadMail(t) \/ Fail(s)
                           \/ ChangeSecret \/ UNCHANGED mailVars
      PROVE  mails' = mails
  BY <1>5 DEF Sweep, Record, LoadMail, Fail, ChangeSecret, mailVars
<1> QED
  BY <1>1, <1>2, <1>3, <1>4, <1>5 DEF MailNext, Sweeping

LEMMA MailInvHolds == MailSpec => []MailInv
<1>1. MailInit => MailInv
  <2>1. NoMail \in Row
    BY DEF NoMail, Row
  <2> QED
    BY <2>1, IdleHand DEF MailInit, MailInv, MailShape, InHand, Senders
<1>2. MailInv /\ [MailNext]_mailVars => MailInv'
  BY MailInvNext
<1> QED
  BY <1>1, <1>2, PTL DEF MailSpec

\* The outbox mails no link that is used up, has arrived or is given up, for every
\* number of sweepers and links (run_auth_email_outbox_once, FOR UPDATE SKIP LOCKED).
THEOREM MailsAreWanted == MailSpec => MailIsWanted
<1>1. MailInv /\ [MailNext]_mailVars => MailsWanted
  BY MailsNext
<1>2. [][MailsWanted]_mailVars => MailIsWanted
  BY PTL DEF MailIsWanted, MailsWanted
<1> QED
  BY MailInvHolds, <1>1, <1>2, PTL DEF MailSpec

-----------------------------------------------------------------------------
(* RateLimits: the log of a limiter is what it has let by                     *)

\* Requests of a moment are numbered from one.
Numbered(S) == \A e \in S : e[2] <= Cardinality({d \in S : d[1] = e[1]})

Entries(S) == S \in SUBSET (Nat \X Nat) /\ IsFiniteSet(S) /\ Numbered(S)

\* With a limit, a key's log is what was let by within the window.
LimitOK(k) ==
  Limit[k[1]] > 0 =>
    passed[k] = Recent(log[k]) /\ Cardinality(passed[k]) <= Limit[k[1]]

RateInv ==
  /\ clock \in Nat
  /\ log = [k \in Keys |-> log[k]] /\ passed = [k \in Keys |-> passed[k]]
  /\ todo \in [Callers -> Seq(Keys)]
  /\ \A k \in Keys : Entries(log[k]) /\ Entries(passed[k]) /\ LimitOK(k)

LEMMA KeysAre ==
  /\ \A l \in Limiters, c \in Calls : KeyOf(l, c) \in Keys /\ KeyOf(l, c)[1] = l
  /\ \A k \in Keys : k[1] \in Limiters /\ Limit[k[1]] \in Nat
<1>1. ASSUME NEW l \in Limiters, NEW c \in Calls
      PROVE  KeyOf(l, c) \in Keys /\ KeyOf(l, c)[1] = l
  BY DEF KeyOf, Keys, Limiters
<1>2. ASSUME NEW k \in Keys
      PROVE  k[1] \in Limiters
  <2>1. PICK l \in Limiters : k \in {KeyOf(l, c) : c \in Calls}
    BY DEF Keys
  <2>2. PICK c \in Calls : k = KeyOf(l, c)
    BY <2>1
  <2> QED
    BY <1>1, <2>2
<1> QED
  BY <1>1, <1>2, RateAssumption

\* A request more is one more than there were, and is not there yet.
LEMMA LoggedOne ==
  ASSUME NEW S, Entries(S), clock \in Nat
  PROVE  Entries(Logged(S)) /\ Cardinality(Logged(S)) = Cardinality(S) + 1
<1> USE DEF Entries
<1> DEFINE now == {e \in S : e[1] = clock}
           n == Cardinality(now)
           new == <<clock, n + 1>>
<1>1. IsFiniteSet(now)
  BY FS_Subset
<1>2. n \in Nat
  BY <1>1, FS_CardinalityType
<1>3. new \in Nat \X Nat
  BY <1>2
<1>4. new \notin S
  <2>1. SUFFICES ASSUME new \in S PROVE FALSE
    OBVIOUS
  <2>2. new[1] = clock /\ new[2] = n + 1
    OBVIOUS
  <2>3. n + 1 <= n
    BY <2>1, <2>2 DEF Numbered
  <2> QED
    BY <1>2, <2>3
<1>5. Logged(S) = S \cup {new}
  BY DEF Logged
<1>6. IsFiniteSet(Logged(S)) /\ Cardinality(Logged(S)) = Cardinality(S) + 1
  <2>1. PICK x : x = new
    OBVIOUS
  <2>2. IsFiniteSet(S \cup {x}) /\ Cardinality(S \cup {x}) = Cardinality(S) + 1
    BY <1>4, <2>1, FS_AddElement
  <2> QED
    BY <1>5, <2>1, <2>2
<1>7. Numbered(Logged(S))
  <2> SUFFICES ASSUME NEW e \in S \cup {new}
               PROVE  e[2] <= Cardinality({d \in S \cup {new} : d[1] = e[1]})
    BY <1>5 DEF Numbered
  <2>1. CASE e[1] = clock
    <3>1. {d \in S \cup {new} : d[1] = e[1]} = now \cup {new}
      BY <2>1
    <3>2. new \notin now
      BY <1>4
    <3>3. Cardinality(now \cup {new}) = n + 1
      BY <1>1, <3>2, FS_AddElement
    <3>4. e[2] <= n + 1
      <4>1. CASE e = new
        BY <1>2, <4>1
      <4>2. CASE e \in S
        <5>1. {d \in S : d[1] = e[1]} = now
          BY <2>1
        <5>2. e[2] <= n /\ e[2] \in Nat
          BY <4>2, <5>1 DEF Numbered
        <5> QED
          BY <1>2, <5>2
      <4> QED
        BY <4>1, <4>2
    <3> QED
      BY <3>1, <3>3, <3>4
  <2>2. CASE e[1] # clock
    <3>1. e \in S
      BY <2>2
    <3>2. {d \in S \cup {new} : d[1] = e[1]} = {d \in S : d[1] = e[1]}
      BY <2>2
    <3> QED
      BY <3>1, <3>2 DEF Numbered
  <2> QED
    BY <2>1, <2>2
<1> QED
  BY <1>3, <1>5, <1>6, <1>7

LEMMA RecentIs ==
  ASSUME NEW S, clock \in Nat
  PROVE  /\ Recent(Recent(S)) = Recent(S)
         /\ Recent(Logged(Recent(S))) = Logged(Recent(S))
<1>1. \A n : <<clock, n>>[1] + Window > clock
  BY RateAssumption
<1> QED
  BY <1>1 DEF Recent, Logged

\* What is left when the oldest are dropped.
LEMMA Dropped ==
  ASSUME NEW S, Entries(S), NEW n, NEW T, T = {e \in S : e[1] + Window > n}
  PROVE  Entries(T) /\ Cardinality(T) <= Cardinality(S)
<1>1. S \subseteq Nat \X Nat /\ IsFiniteSet(S) /\ Numbered(S)
  BY DEF Entries
<1>2. T \subseteq S /\ IsFiniteSet(T) /\ Cardinality(T) <= Cardinality(S)
  BY <1>1, FS_Subset
<1>3. Numbered(T)
  <2> SUFFICES ASSUME NEW e \in T
               PROVE  e[2] <= Cardinality({d \in T : d[1] = e[1]})
    BY DEF Numbered
  <2>1. {d \in T : d[1] = e[1]} = {d \in S : d[1] = e[1]}
    OBVIOUS
  <2> QED
    BY <1>1, <1>2, <2>1 DEF Numbered
<1> QED
  BY <1>1, <1>2, <1>3 DEF Entries

LEMMA RecentEntries ==
  ASSUME NEW S, Entries(S)
  PROVE  Entries(Recent(S))
BY Dropped DEF Recent

\* The pruning of a store takes from a log only what is too old to count.
LEMMA PrunedIs ==
  ASSUME RateInv, NEW l
  PROVE  /\ Pruned(l) = [k \in Keys |-> Pruned(l)[k]]
         /\ \A k \in Keys : Pruned(l)[k] \in {log[k], Recent(log[k])}
<1>1. log = [k \in Keys |-> log[k]]
  BY DEF RateInv
<1>2. CASE clock < pruned[Store(l)] + PruneEvery
  BY <1>1, <1>2 DEF Pruned
<1>3. CASE ~(clock < pruned[Store(l)] + PruneEvery)
  BY <1>3 DEF Pruned
<1> QED
  BY <1>2, <1>3

\* What stands to be passed is a key, and the rest still is.
LEMMA Faced ==
  ASSUME RateInv, NEW r \in Callers, NEW ls, Facing(r, ls)
  PROVE  /\ Head(todo[r]) \in Keys /\ Head(todo[r])[1] \in ls
         /\ Tail(todo[r]) \in Seq(Keys)
BY DEF RateInv, Facing

LEMMA CountKeeps ==
  ASSUME RateInv, NEW r \in Callers, NEW k \in Keys, Count(r, k[1], k), SameTime,
         Tail(todo[r]) \in Seq(Keys)
  PROVE  RateInv'
<1> DEFINE l == k[1]
<1>1. clock \in Nat /\ clock' = clock /\ todo \in [Callers -> Seq(Keys)]
      /\ log = [h \in Keys |-> log[h]] /\ passed = [h \in Keys |-> passed[h]]
  BY DEF RateInv, SameTime
<1>2. /\ Pruned(l) = [h \in Keys |-> Pruned(l)[h]]
      /\ \A h \in Keys : Pruned(l)[h] \in {log[h], Recent(log[h])}
  BY PrunedIs
<1>4. \A h \in Keys \ {k} : passed'[h] = passed[h] /\ log'[h] \in {log[h], Recent(log[h])}
  <2>1. CASE log' = [Pruned(l) EXCEPT ![k] = Recent(@)] /\ Refuse(r)
    BY <1>2, <2>1 DEF Refuse
  <2>2. CASE Admit(r, k) /\ log' = [Pruned(l) EXCEPT ![k] = Logged(Recent(@))]
    BY <1>1, <1>2, <2>2 DEF Admit
  <2> QED
    BY <2>1, <2>2 DEF Count
<1>5. ASSUME NEW h \in Keys \ {k}
      PROVE  (Entries(log[h]) /\ Entries(passed[h]) /\ LimitOK(h))'
  <2>1. Entries(log[h]) /\ Entries(passed[h]) /\ LimitOK(h)
    BY DEF RateInv
  <2>2. passed'[h] = passed[h] /\ log'[h] \in {log[h], Recent(log[h])}
    BY <1>4
  <2>3. Recent(log[h])' = Recent(log[h])
    <3>1. Recent(log[h])' = {e \in log'[h] : e[1] + Window > clock}
      BY <1>1 DEF Recent
    <3>2. Recent(log'[h]) = Recent(log[h])
      BY <1>1, <2>2, RecentIs
    <3> QED
      BY <3>1, <3>2 DEF Recent
  <2>4. Entries(log'[h])
    BY <2>1, <2>2, RecentEntries
  <2>5. Entries(log[h])' /\ Entries(passed[h])'
    BY <2>1, <2>2, <2>4 DEF Entries, Numbered
  <2> QED
    BY <2>1, <2>2, <2>3, <2>5 DEF LimitOK
<1>6. Recent(Pruned(l)[k]) = Recent(log[k])
  BY <1>1, <1>2, RecentIs
<1>7. CASE Full(l, k) /\ log' = [Pruned(l) EXCEPT ![k] = Recent(@)] /\ Refuse(r)
  <2>1. log' = [h \in Keys |-> log'[h]] /\ log'[k] = Recent(log[k]) /\ passed' = passed
    BY <1>2, <1>6, <1>7 DEF Refuse
  <2>2. todo' \in [Callers -> Seq(Keys)]
    BY <1>1, <1>7 DEF Refuse
  <2>3. Recent(log[k])' = Recent(log[k])
    <3>1. Recent(log[k])' = {e \in log'[k] : e[1] + Window > clock}
      BY <1>1 DEF Recent
    <3>2. Recent(log'[k]) = Recent(log[k])
      BY <1>1, <2>1, RecentIs
    <3> QED
      BY <3>1, <3>2 DEF Recent
  <2>4. (Entries(log[k]) /\ Entries(passed[k]) /\ LimitOK(k))'
    <3>1. Entries(log'[k]) /\ Entries(passed'[k])
      BY <2>1, RecentEntries DEF RateInv
    <3>2. Entries(log[k])' /\ Entries(passed[k])'
      BY <3>1 DEF Entries, Numbered
    <3> QED
      BY <2>1, <2>3, <3>2 DEF RateInv, LimitOK
  <2>5. passed' = [h \in Keys |-> passed'[h]]
    BY <1>1, <2>1
  <2> QED
    BY <1>1, <1>5, <2>1, <2>2, <2>4, <2>5 DEF RateInv
<1>8. CASE ~Full(l, k) /\ Admit(r, k) /\ log' = [Pruned(l) EXCEPT ![k] = Logged(Recent(@))]
  <2>1. log' = [h \in Keys |-> log'[h]] /\ log'[k] = Logged(Recent(log[k]))
    BY <1>2, <1>6, <1>8
  <2>2. passed' = [h \in Keys |-> passed'[h]] /\ passed'[k] = Logged(passed[k])
    BY <1>1, <1>8 DEF Admit
  <2>3. todo' \in [Callers -> Seq(Keys)]
    BY <1>1, <1>8 DEF Admit
  <2>4. Entries(log[k]) /\ Entries(passed[k]) /\ LimitOK(k)
    BY DEF RateInv
  <2>5. Entries(Logged(passed[k])) /\ Cardinality(Logged(passed[k])) = Cardinality(passed[k]) + 1
    BY <1>1, <2>4, LoggedOne
  <2>6. Entries(log[k])' /\ Entries(passed[k])'
    <3>1. Entries(Logged(Recent(log[k])))
      BY <1>1, <2>4, RecentEntries, LoggedOne
    <3>2. Entries(log'[k]) /\ Entries(passed'[k])
      BY <2>1, <2>2, <2>5, <3>1
    <3> QED
      BY <3>2 DEF Entries, Numbered
  <2>7. LimitOK(k)'
    <3> SUFFICES ASSUME Limit[l] > 0
                 PROVE  passed'[k] = Recent(log[k])' /\ Cardinality(passed'[k]) <= Limit[l]
      BY DEF LimitOK
    <3>1. passed[k] = Recent(log[k])
      BY <2>4 DEF LimitOK
    <3>2. Recent(log[k])' = Recent(log'[k])
      BY <1>1 DEF Recent
    <3>3. Recent(log'[k]) = log'[k]
      BY <1>1, <2>1, RecentIs
    <3>4. Cardinality(passed[k]) < Limit[l]
      <4>1. Cardinality(passed[k]) \in Nat /\ Limit[l] \in Nat
        BY <2>4, FS_CardinalityType, KeysAre DEF Entries
      <4> QED
        BY <1>8, <3>1, <4>1 DEF Full
    <3>5. Cardinality(passed[k]) \in Nat /\ Limit[l] \in Nat
      BY <2>4, FS_CardinalityType, KeysAre DEF Entries
    <3> QED
      BY <2>1, <2>2, <2>5, <3>1, <3>2, <3>3, <3>4, <3>5
  <2> QED
    BY <1>1, <1>5, <2>1, <2>2, <2>3, <2>6, <2>7 DEF RateInv
<1> QED
  BY <1>7, <1>8 DEF Count

\* Without a limit, a limiter but for the auth one keeps no log.
LEMMA SkipKeeps ==
  ASSUME RateInv, NEW r \in Callers, NEW k \in Keys, Skip(r, k), SameTime, Limit[k[1]] = 0,
         Tail(todo[r]) \in Seq(Keys)
  PROVE  RateInv'
<1>1. clock \in Nat /\ clock' = clock /\ todo \in [Callers -> Seq(Keys)] /\ log' = log
      /\ log = [h \in Keys |-> log[h]] /\ passed = [h \in Keys |-> passed[h]]
      /\ passed' = [passed EXCEPT ![k] = Logged(@)] /\ todo' = [todo EXCEPT ![r] = Tail(@)]
  BY DEF RateInv, SameTime, Skip, Admit
<1>2. passed' = [h \in Keys |-> passed'[h]] /\ passed'[k] = Logged(passed[k])
      /\ \A h \in Keys \ {k} : passed'[h] = passed[h]
  BY <1>1
<1>3. todo' \in [Callers -> Seq(Keys)]
  BY <1>1
<1>4. \A h \in Keys : Entries(log'[h]) /\ Entries(passed'[h])
  BY <1>1, <1>2, LoggedOne DEF RateInv
<1>5. LimitOK(k)'
  BY DEF LimitOK
<1>6. \A h \in Keys \ {k} : LimitOK(h)'
  BY <1>1, <1>2 DEF RateInv, LimitOK, Recent
<1>7. \A h \in Keys : Entries(log[h])' /\ Entries(passed[h])'
  BY <1>4 DEF Entries, Numbered
<1> QED
  BY <1>1, <1>2, <1>3, <1>5, <1>6, <1>7 DEF RateInv

LEMMA PassKeeps ==
  ASSUME RateInv, NEW r \in Callers, PassAuth(r) \/ PassUnauth(r) \/ PassEndpoint(r)
  PROVE  RateInv'
<1> DEFINE k == Head(todo[r])
<1>1. k \in Keys /\ Tail(todo[r]) \in Seq(Keys)
  BY Faced DEF PassAuth, PassUnauth, PassEndpoint
<1>2. SameTime /\ (Count(r, k[1], k) \/ (Limit[k[1]] = 0 /\ Skip(r, k)))
  <2>1. CASE PassAuth(r)
    <3>1. k[1] = "auth"
      BY <2>1, Faced DEF PassAuth
    <3> QED
      BY <2>1, <3>1 DEF PassAuth
  <2>2. CASE PassUnauth(r)
    <3>1. k[1] = "unauth"
      BY <2>2, Faced DEF PassUnauth
    <3> QED
      BY <2>2, <3>1 DEF PassUnauth
  <2>3. CASE PassEndpoint(r)
    BY <2>3 DEF PassEndpoint
  <2> QED
    BY <2>1, <2>2, <2>3
<1> QED
  BY <1>1, <1>2, CountKeeps, SkipKeeps

LEMMA CallKeeps ==
  ASSUME RateInv, NEW r \in Callers, NEW c \in Calls, Call(r, c)
  PROVE  RateInv'
<1> DEFINE R == Route(c)
           ks == [i \in DOMAIN R |-> KeyOf(R[i], c)]
<1>1. R \in Seq(Limiters)
  <2> DEFINE x == IF AuthLimited(c) THEN <<"auth">> ELSE <<>>
             y == IF UnauthLimited(c) THEN <<"unauth">> ELSE <<>>
             z == IF c.path \in {"sync", "search"} THEN <<c.path>> ELSE <<>>
  <2>1. x \in Seq(Limiters) /\ y \in Seq(Limiters) /\ z \in Seq(Limiters)
    <3>1. "auth" \in Limiters /\ "unauth" \in Limiters
      BY DEF Limiters
    <3>2. c.path \in {"sync", "search"} => c.path \in Limiters
      BY DEF Limiters
    <3>3. <<>> \in Seq(Limiters) /\ \A l \in Limiters : <<l>> \in Seq(Limiters)
      OBVIOUS
    <3> QED
      BY <3>1, <3>2, <3>3
  <2>2. R = x \o y \o z
    BY DEF Route
  <2> HIDE DEF x, y, z, R
  <2> QED
    BY <2>1, <2>2
<1>2. DOMAIN R = 1..Len(R) /\ Len(R) \in Nat /\ \A i \in DOMAIN R : R[i] \in Limiters
  BY <1>1
<1> HIDE DEF R
<1>3. ks \in Seq(Keys)
  <2>1. \A i \in DOMAIN R : KeyOf(R[i], c) \in Keys
    BY <1>2, KeysAre
  <2> QED
    BY <1>2, <2>1
<1>4. todo' = [todo EXCEPT ![r] = ks] /\ UNCHANGED <<clock, log, pruned, passed>>
  BY DEF Call, R
<1> HIDE DEF ks
<1>5. todo' \in [Callers -> Seq(Keys)]
  BY <1>3, <1>4 DEF RateInv
<1> QED
  BY <1>4, <1>5 DEF RateInv, Entries, Numbered, LimitOK, Recent

\* Time passes: what falls out of the window falls out of both.
LEMMA TickKeeps ==
  ASSUME RateInv, Tick
  PROVE  RateInv'
<1>1. clock \in Nat /\ clock' = clock + 1 /\ log' = log /\ todo' = todo
      /\ passed' = [k \in Keys |-> {e \in passed[k] : e[1] + Window > clock + 1}]
  BY DEF RateInv, Tick
<1>2. ASSUME NEW k \in Keys
      PROVE  (Entries(log[k]) /\ Entries(passed[k]) /\ LimitOK(k))'
  <2> DEFINE S == passed[k]
             T == passed'[k]
  <2>1. T = {e \in S : e[1] + Window > clock + 1}
    BY <1>1
  <2>2. Entries(S) /\ Entries(log[k])
    BY DEF RateInv
  <2>3. Entries(T) /\ Cardinality(T) <= Cardinality(S)
    BY <2>1, <2>2, Dropped
  <2>4. Cardinality(T) \in Nat /\ Cardinality(S) \in Nat
    BY <2>2, <2>3, FS_CardinalityType DEF Entries
  <2>5. Entries(log[k])' /\ Entries(passed[k])'
    BY <1>1, <2>2, <2>3 DEF Entries, Numbered
  <2>6. LimitOK(k)'
    <3> SUFFICES ASSUME Limit[k[1]] > 0
                 PROVE  T = Recent(log[k])' /\ Cardinality(T) <= Limit[k[1]]
      BY DEF LimitOK
    <3>1. S = Recent(log[k]) /\ Cardinality(S) <= Limit[k[1]]
      BY DEF RateInv, LimitOK
    <3>2. Recent(log[k])' = {e \in log[k] : e[1] + Window > clock + 1}
      BY <1>1 DEF Recent
    <3>3. S = {e \in log[k] : e[1] + Window > clock}
      BY <3>1 DEF Recent
    <3>4. T = {e \in log[k] : e[1] + Window > clock /\ e[1] + Window > clock + 1}
      BY <2>1, <3>3
    <3>5. \A e \in log[k] : e \in Recent(log[k])' => e \in S
      <4> SUFFICES ASSUME NEW e \in log[k], e[1] + Window > clock + 1
                   PROVE  e[1] + Window > clock
        BY <3>2, <3>3
      <4>1. e[1] \in Nat
        BY <2>2 DEF Entries
      <4> QED
        BY <1>1, <4>1, RateAssumption
    <3>6. Limit[k[1]] \in Nat
      BY KeysAre
    <3> QED
      BY <2>1, <2>3, <2>4, <3>1, <3>2, <3>3, <3>4, <3>5, <3>6
  <2> QED
    BY <2>5, <2>6
<1>3. /\ log' = [k \in Keys |-> log'[k]] /\ passed' = [k \in Keys |-> passed'[k]]
      /\ clock' \in Nat /\ todo' \in [Callers -> Seq(Keys)]
  BY <1>1 DEF RateInv
<1>4. \A k \in Keys : (Entries(log[k]) /\ Entries(passed[k]) /\ LimitOK(k))'
  BY <1>2
<1> QED
  BY <1>3, <1>4 DEF RateInv

LEMMA RateInvInit == RateInit => RateInv
<1> SUFFICES ASSUME RateInit PROVE RateInv
  OBVIOUS
<1>1. clock \in Nat /\ todo \in [Callers -> Seq(Keys)]
  BY RateAssumption DEF RateInit
<1>2. ASSUME NEW k \in Keys
      PROVE  Entries(log[k]) /\ Entries(passed[k]) /\ LimitOK(k)
  <2>1. passed[k] = {} /\ log[k] = {}
    BY DEF RateInit
  <2>2. IsFiniteSet(passed[k]) /\ Cardinality(passed[k]) = 0
    BY <2>1, FS_EmptySet
  <2>3. Limit[k[1]] \in Nat
    BY KeysAre
  <2> QED
    BY <2>1, <2>2, <2>3 DEF Entries, LimitOK, Recent, Numbered
<1> QED
  BY <1>1, <1>2 DEF RateInv, RateInit

\* No span of a window's length sees more requests of a key pass than its limit,
\* for every number of callers, every limit and however often the stores are
\* pruned (the three limiters' dispatch and _prune_expired).
THEOREM WindowsHold == RateSpec => []WindowHolds
<1>1. RateInv /\ [RateNext]_limitVars => RateInv'
  <2> SUFFICES ASSUME RateInv, [RateNext]_limitVars PROVE RateInv'
    OBVIOUS
  <2>1. CASE UNCHANGED limitVars
    BY <2>1 DEF limitVars, RateInv, Entries, Numbered, LimitOK, Recent
  <2> QED
    BY <2>1, PassKeeps, CallKeeps, TickKeeps DEF RateNext
<1>2. RateInv => WindowHolds
  BY DEF RateInv, LimitOK, WindowHolds
<1> QED
  BY RateInvInit, <1>1, <1>2, PTL DEF RateSpec
=============================================================================
