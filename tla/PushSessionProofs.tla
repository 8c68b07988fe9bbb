------------------------- MODULE PushSessionProofs -------------------------
(***************************************************************************)
(* Theorems about PushSession, for any keys, devices, sessions, requests    *)
(* and batches: its types, that a batch is processed once per guard row,    *)
(* that a device has one session in progress, and that sessions count what   *)
(* they store.                                                              *)
(***************************************************************************)
EXTENDS PushSession, FiniteSetTheorems, TLAPS

Working(r) ==
  pc[r] \in {"session", "track", "insert", "store", "clean", "done"}

\* Each request's state is a value of its own.
Arrays ==
  /\ req = [r \in Requests |-> req[r]]
  /\ snap = [r \in Requests |-> snap[r]]
  /\ out = [r \in Requests |-> out[r]]
  /\ writes = [r \in Requests |-> writes[r]]
  /\ purge = [r \in Requests |-> purge[r]]

\* What requests ask is what clients send, but for a session id chosen here.
Asked(q) ==
  /\ DOMAIN q = {"key", "ik", "sid", "first", "content", "total"}
  /\ q.key \in Keys /\ q.ik \in Iks \cup {NoIk} /\ q.sid \in Sids \cup {NoSid}
  /\ q.first \in BOOLEAN /\ q.content \in Contents /\ q.total \in Nat
Requested ==
  \A r \in Requests :
    /\ pc[r] # "idle" => Asked(req[r])
    /\ pc[r] = "track" /\ snap[r] # Absent =>
         req[r].sid \in Sids /\ sessions[req[r].sid] # Absent
    /\ pc[r] = "insert" => snap[r] = Absent /\ req[r].sid \in Sids

\* Guard rows that two requests delete are different ones, and only a request
\* that cleans up deletes any.
PurgeApart ==
  /\ \A r \in Requests : purge[r] # {} => pc[r] \in {"clean", "done"}
  /\ \A r, q \in Requests : r # q => purge[r] \cap purge[q] = {}

\* Requests of one key go one at a time, requests of one device from the
\* device's row on.
OneAtATime ==
  \A r, q \in Requests : r # q =>
    /\ Processing(r) /\ Processing(q) => req[r].key # req[q].key
    /\ Working(r) /\ Working(q) => Owner(r) # Owner(q)

\* Committed guard rows are complete; a request past its guard found none.
Guarded ==
  /\ \A g \in guard : g.complete
  /\ \A r \in Requests :
       (pc[r] = "device" \/ Working(r)) /\ req[r].ik # NoIk => Guards(r) = {}

\* A safe push left a guard row, which is still there.
RunsGuarded ==
  \A g \in Keys \X Iks : g[2] # NoIk =>
    \/ runs[g] = 0
    \/ runs[g] = 1 /\ \E row \in guard : row.key = g[1] /\ row.ik = g[2]

\* Session rows are written by one request at a time.
WritesApart ==
  \A r, q \in Requests : r # q => DOMAIN writes[r] \cap DOMAIN writes[q] = {}

\* Of the sessions of r's device that are in progress, all but r's own are being
\* abandoned by r.
Alone(r) ==
  \A t \in Sids \ {req[r].sid} :
    sessions[t].status = "in_progress" /\ sessions[t].owner = Owner(r) =>
      t \in DOMAIN writes[r] /\ writes[r][t].status = "abandoned"

\* A session is written by a request that has its turn; none is set in progress
\* that was not, but a new one, which is its device's only one.
WritesTrue ==
  \A r \in Requests :
    /\ pc[r] = "insert" => Alone(r) /\ req[r].sid \notin DOMAIN writes[r]
    /\ \A s \in DOMAIN writes[r] :
         /\ pc[r] \in {"insert", "store", "clean", "done"}
         /\ sessions[s] # Absent =>
              /\ writes[r][s].owner = sessions[s].owner
              /\ writes[r][s].status = "in_progress" =>
                   sessions[s].status = "in_progress"
         /\ sessions[s] = Absent =>
              s = req[r].sid /\ writes[r][s].owner = Owner(r) /\ Alone(r)

IInv ==
  /\ TypeOK /\ Arrays /\ Requested /\ PurgeApart /\ OneAtATime /\ Guarded
  /\ RunsGuarded /\ WritesApart /\ WritesTrue /\ OneActivePerDevice

-----------------------------------------------------------------------------
(* What a step changes *)

Same(r) ==
  /\ pc'[r] = pc[r] /\ req'[r] = req[r] /\ snap'[r] = snap[r]
  /\ out'[r] = out[r] /\ writes'[r] = writes[r] /\ purge'[r] = purge[r]

\* A step leaves alone every request that does not take it.
LEMMA OtherRequest ==
  ASSUME TypeOK, Arrays, NEW r \in Requests, NEW q \in Requests, q # r,
         RequestStep(q)
  PROVE  Same(r)
<1> USE DEF TypeOK, Arrays, Same, Goto, Discard, Reset, Write
<1>1. CASE Send(q) \/ Authenticate(q) \/ CheckGuard(q) \/ TouchDevice(q)
  BY <1>1 DEF Send, Authenticate, CheckGuard, TouchDevice
<1>6. CASE ReadGuard(q)
  BY <1>6 DEF ReadGuard
<1>2. CASE FindSession(q) \/ LoseTracking(q) \/ UpdateSession(q)
  BY <1>2 DEF FindSession, LoseTracking, UpdateSession
<1>3. CASE AbandonPrior(q) \/ InsertSession(q) \/ SessionFails(q)
  BY <1>3 DEF AbandonPrior, InsertSession, SessionFails
<1>4. CASE PurgeGuards(q) \/ CleanStale(q) \/ SkipCleanup(q)
  BY <1>4 DEF PurgeGuards, CleanStale, SkipCleanup
<1>5. CASE Commit(q) \/ EndReplay(q) \/ Abort(q)
  BY <1>5 DEF Commit, EndReplay, Abort
<1> QED BY <1>1, <1>2, <1>3, <1>4, <1>5, <1>6 DEF RequestStep

\* Time and the status endpoint change sessions only, and neither a session
\* that a request is writing nor a session's owner.
Settles ==
  /\ UNCHANGED <<guard, sent, pc, req, snap, out, writes, purge, stored, runs>>
  /\ \A s \in Sids :
       /\ sessions'[s] # sessions[s] =>
            /\ sessions[s] # Absent /\ sessions'[s] # Absent
            /\ \A r \in Requests : s \notin DOMAIN writes[r]
            /\ sessions'[s].owner = sessions[s].owner
            /\ sessions'[s].status = "in_progress" =>
                 sessions[s].status = "in_progress"
  /\ sessions' \in [Sids -> Session \cup {Absent}]

LEMMA SessionFields ==
  ASSUME TypeOK, NEW s \in Sids, sessions[s].status # "absent"
  PROVE  sessions[s] \in Session /\ sessions[s] # Absent
BY DEF TypeOK, Absent

LEMMA NotAbsent ==
  ASSUME NEW x \in Session
  PROVE  x # Absent
BY DEF Session, Absent

LEMMA SettleStep ==
  ASSUME TypeOK, \/ \E s \in Sids : GoIdle(s)
                 \/ \E k \in Keys : Finalize(OwnerOf[k].user)
  PROVE  Settles
<1>1. ASSUME NEW s \in Sids, GoIdle(s)
      PROVE  Settles
  <2>1. sessions[s] \in Session
    BY <1>1, SessionFields DEF GoIdle
  <2> DEFINE x == [sessions[s] EXCEPT !.idle = TRUE]
  <2>2. x \in Session /\ x.owner = sessions[s].owner
    BY <2>1 DEF Session
  <2>3. /\ sessions'[s] = x
        /\ \A t \in Sids \ {s} : sessions'[t] = sessions[t]
        /\ sessions' \in [Sids -> Session \cup {Absent}]
    BY <1>1, <2>2 DEF TypeOK, GoIdle
  <2> QED BY <1>1, <2>1, <2>2, <2>3, NotAbsent DEF GoIdle, Settles
<1>2. ASSUME NEW k \in Keys, Finalize(OwnerOf[k].user)
      PROVE  Settles
  <2>1. ASSUME NEW s \in Sids, sessions[s].status = "in_progress"
        PROVE  /\ sessions[s] \in Session /\ End(s, "completed") \in Session
               /\ End(s, "completed").owner = sessions[s].owner
               /\ End(s, "completed").status = "completed"
    <3>1. sessions[s] \in Session
      BY <2>1, SessionFields
    <3> QED BY <3>1 DEF End, Session
  <2>2. ASSUME NEW s \in Sids
        PROVE  \/ sessions'[s] = sessions[s]
               \/ /\ sessions[s].status = "in_progress"
                  /\ sessions'[s] = End(s, "completed")
                  /\ \A r \in Requests : s \notin DOMAIN writes[r]
    BY <1>2 DEF Finalize
  <2>3. sessions' \in [Sids -> Session \cup {Absent}]
    <3>1. \A s \in Sids : sessions'[s] \in Session \cup {Absent}
      BY <2>1, <2>2 DEF TypeOK
    <3>2. sessions' = [s \in Sids |-> sessions'[s]]
      BY <1>2 DEF Finalize
    <3> QED BY <3>1, <3>2
  <2> QED BY <1>2, <2>1, <2>2, <2>3, NotAbsent DEF Finalize, Settles
<1> QED BY <1>1, <1>2

\* Only a commit, time and the status endpoint change sessions.
LEMMA SessionStep ==
  ASSUME TypeOK, Next
  PROVE  Settles \/ UNCHANGED sessions \/ \E r \in Requests : Commit(r)
<1>1. ASSUME NEW r \in Requests, RequestStep(r)
      PROVE  UNCHANGED sessions \/ Commit(r)
  BY <1>1 DEF RequestStep, Send, Authenticate, CheckGuard, ReadGuard, TouchDevice,
     FindSession, LoseTracking, UpdateSession, AbandonPrior, InsertSession,
     SessionFails, PurgeGuards, CleanStale, SkipCleanup, EndReplay, Abort,
     Discard
<1> QED BY <1>1, SettleStep DEF Next

LEMMA Stepped ==
  ASSUME TypeOK, Arrays, Next, NEW r \in Requests
  PROVE  RequestStep(r) \/ Same(r)
BY OtherRequest, SettleStep DEF Next, Same, Settles

-----------------------------------------------------------------------------
(* Types *)

LEMMA Outcomes ==
  /\ Pending \in Outcome
  /\ \A o \in Outcome : o.safe => o.state \in {"success", "completed_with_issues"}
BY DEF Pending, Outcome

LEMMA WriteType ==
  ASSUME TypeOK, Arrays, NEW r \in Requests, NEW S \in SUBSET Sids,
         NEW new \in [S -> Session], Write(r, new)
  PROVE  /\ writes' = [q \in Requests |-> writes'[q]]
         /\ \A q \in Requests : \E T \in SUBSET Sids : writes'[q] \in [T -> Session]
         /\ DOMAIN writes'[r] = DOMAIN writes[r] \cup S
         /\ \A s \in S : writes'[r][s] = new[s]
         /\ \A s \in DOMAIN writes[r] \ S : writes'[r][s] = writes[r][s]
<1>1. PICK T \in SUBSET Sids : writes[r] \in [T -> Session]
  BY DEF TypeOK
<1> DEFINE w == [s \in T \cup S |-> IF s \in S THEN new[s] ELSE writes[r][s]]
<1>2. writes' = [writes EXCEPT ![r] = w]
  BY <1>1 DEF Write
<1>3. w \in [T \cup S -> Session] /\ T \cup S \in SUBSET Sids
  BY <1>1
<1>4. /\ writes'[r] = w
      /\ \A q \in Requests : q # r => writes'[q] = writes[q]
      /\ writes' = [q \in Requests |-> writes'[q]]
  <2> HIDE DEF w
  <2> QED BY <1>2 DEF Arrays
<1>5. ASSUME NEW q \in Requests
      PROVE  \E U \in SUBSET Sids : writes'[q] \in [U -> Session]
  <2>1. CASE q = r
    BY <2>1, <1>3, <1>4
  <2>2. CASE q # r
    BY <2>2, <1>4 DEF TypeOK
  <2> QED BY <2>1, <2>2
<1> QED BY <1>1, <1>4, <1>5

\* A request that ends leaves nothing.
LEMMA Cleared ==
  ASSUME TypeOK, Arrays, NEW r \in Requests, Discard(r) \/ Reset(r)
  PROVE  /\ pc'[r] = "idle" /\ req'[r] = NoReq /\ snap'[r] = Absent
         /\ out'[r] = Pending /\ DOMAIN writes'[r] = {} /\ purge'[r] = {}
         /\ \A q \in Requests : q # r => Same(q)
         /\ Arrays'
         /\ pc' \in [Requests -> {"idle", "auth", "guard", "look", "device", "session",
                          "track", "insert", "store", "clean", "done",
                          "replay"}]
         /\ \A q \in Requests :
              /\ pc'[q] # "idle" => req'[q].key \in Keys
              /\ snap'[q] \in Session \cup {Absent} /\ out'[q] \in Outcome
              /\ \E S \in SUBSET Sids : writes'[q] \in [S -> Session]
<1>1. DOMAIN NoWrites = {} /\ \E S \in SUBSET Sids : NoWrites \in [S -> Session]
  <2>1. NoWrites \in [{} -> Session] /\ {} \in SUBSET Sids
    BY DEF NoWrites
  <2> QED BY <2>1 DEF NoWrites
<1>2. /\ pc' = [pc EXCEPT ![r] = "idle"]
      /\ req' = [req EXCEPT ![r] = NoReq]
      /\ snap' = [snap EXCEPT ![r] = Absent]
      /\ out' = [out EXCEPT ![r] = Pending]
      /\ writes' = [writes EXCEPT ![r] = NoWrites]
      /\ purge' = [purge EXCEPT ![r] = {}]
  BY DEF Discard, Reset, Goto
<1>3. Arrays'
  BY <1>2 DEF Arrays
<1>4. /\ pc'[r] = "idle" /\ req'[r] = NoReq /\ snap'[r] = Absent
      /\ out'[r] = Pending /\ writes'[r] = NoWrites /\ purge'[r] = {}
      /\ \A q \in Requests : q # r => Same(q)
  BY <1>2 DEF TypeOK, Arrays, Same
<1>5. pc' \in [Requests -> {"idle", "auth", "guard", "look", "device", "session",
                          "track", "insert", "store", "clean", "done",
                          "replay"}]
  BY <1>2 DEF TypeOK
<1>6. ASSUME NEW q \in Requests
      PROVE  /\ pc'[q] # "idle" => req'[q].key \in Keys
             /\ snap'[q] \in Session \cup {Absent} /\ out'[q] \in Outcome
             /\ \E S \in SUBSET Sids : writes'[q] \in [S -> Session]
  <2>1. CASE q = r
    BY <2>1, <1>1, <1>4, Outcomes
  <2>2. CASE q # r
    BY <2>2, <1>4 DEF TypeOK, Same
  <2> QED BY <2>1, <2>2
<1> QED BY <1>1, <1>3, <1>4, <1>5, <1>6

\* A request whose guard row has been deleted goes on without one.
Unguarded(r) ==
  /\ req' = [req EXCEPT ![r].ik = NoIk] /\ Goto(r, "device")
  /\ UNCHANGED <<sessions, guard, sent, snap, out, writes, purge, stored, runs>>

LEMMA Unguards ==
  ASSUME IInv, NEW r \in Requests, pc[r] = "look", Unguarded(r)
  PROVE  /\ Asked(req'[r]) /\ req'[r].ik = NoIk /\ req'[r].key = req[r].key
         /\ pc'[r] = "device" /\ \A q \in Requests \ {r} : Same(q)
<1>1. Asked(req[r])
  BY DEF IInv, Requested
<1>2. PICK x : x = [req[r] EXCEPT !.ik = NoIk]
  OBVIOUS
<1>3. Asked(x) /\ x.ik = NoIk /\ x.key = req[r].key
  BY <1>1, <1>2 DEF Asked
<1>4. req'[r] = x /\ pc'[r] = "device" /\ \A q \in Requests \ {r} : Same(q)
  BY <1>2 DEF IInv, TypeOK, Arrays, Unguarded, Goto, Same
<1> QED BY <1>3, <1>4

\* Committed rows are complete, so a request that adds its guard row deletes none.
LEMMA GuardKept ==
  ASSUME IInv, NEW r \in Requests, CheckGuard(r)
  PROVE  guard' = guard /\ (pc'[r] = "device" => Guards(r) = {})
<1>1. CASE guard' = guard \ Guards(r) /\ (\A g \in Guards(r) : ~g.complete)
  BY <1>1 DEF IInv, Guarded, Guards
<1>2. CASE Discard(r)
  BY <1>2, Cleared DEF IInv, Discard
<1>3. CASE pc' = [pc EXCEPT ![r] = "look"] /\ UNCHANGED guard
  BY <1>3 DEF IInv, TypeOK
<1> QED BY <1>1, <1>2, <1>3 DEF CheckGuard, Goto

\* What a request's steps before its commit leave to prove.
LocalType ==
  /\ Arrays'
  /\ pc' \in [Requests -> {"idle", "auth", "guard", "look", "device", "session",
                           "track", "insert", "store", "clean", "done",
                           "replay"}]
  /\ \A q \in Requests :
       /\ pc'[q] # "idle" => req'[q].key \in Keys
       /\ snap'[q] \in Session \cup {Absent} /\ out'[q] \in Outcome
       /\ \E S \in SUBSET Sids : writes'[q] \in [S -> Session]

LEMMA LocalTyped ==
  ASSUME IInv, LocalType, UNCHANGED <<sessions, guard, stored, runs>>,
         sent' \in Nat, \A q \in Requests : purge'[q] \subseteq guard
  PROVE  TypeOK' /\ Arrays'
BY DEF IInv, TypeOK, LocalType

LEMMA WrittenTypes ==
  ASSUME IInv, NEW r \in Requests, Working(r)
  PROVE  /\ pc[r] = "track" /\ snap[r] # Absent =>
              \A o \in Outcome :
                [sessions[req[r].sid] EXCEPT
                  !.done = NextDone(r, o), !.idle = FALSE,
                  !.total = IF snap[r].total = 0 THEN req[r].total ELSE @,
                  !.status = IF Finishes(r, o) THEN "completed" ELSE @] \in Session
         /\ pc[r] = "insert" =>
              [status |-> IF Finishes(r, out[r]) THEN "completed"
                          ELSE "in_progress",
               owner |-> Owner(r), total |-> req[r].total,
               done |-> NextDone(r, out[r]), idle |-> FALSE] \in Session
<1>1. \A o \in Outcome : NextDone(r, o) \in Nat
  BY DEF IInv, TypeOK, NextDone, Session
<1>2. Asked(req[r]) /\ req[r].total \in Nat /\ req[r].key \in Keys
  BY DEF IInv, Requested, Asked, Working
<1>3. ASSUME pc[r] = "track", snap[r] # Absent
      PROVE  sessions[req[r].sid] \in Session
  BY <1>3 DEF IInv, TypeOK, Requested
<1>4. Owner(r) \in {OwnerOf[k] : k \in Keys} /\ out[r] \in Outcome
  BY <1>2 DEF Owner, IInv, TypeOK
<1>5. ASSUME pc[r] = "track", snap[r] # Absent, NEW o \in Outcome
      PROVE  [sessions[req[r].sid] EXCEPT
                  !.done = NextDone(r, o), !.idle = FALSE,
                  !.total = IF snap[r].total = 0 THEN req[r].total ELSE @,
                  !.status = IF Finishes(r, o) THEN "completed" ELSE @] \in Session
  <2> DEFINE n == NextDone(r, o)
             f == Finishes(r, o)
  <2>1. n \in Nat
    BY <1>1
  <2> HIDE DEF n, f
  <2>2. [sessions[req[r].sid] EXCEPT
            !.done = n, !.idle = FALSE,
            !.total = IF snap[r].total = 0 THEN req[r].total ELSE @,
            !.status = IF f THEN "completed" ELSE @] \in Session
    BY <1>2, <1>3, <1>5, <2>1 DEF Session
  <2> QED BY <2>2 DEF n, f
<1> QED BY <1>1, <1>2, <1>4, <1>5 DEF Session

LEMMA EndType ==
  ASSUME IInv, NEW S, S \subseteq {s \in Sids : sessions[s].status = "in_progress"}
  PROVE  /\ [s \in S |-> End(s, "abandoned")] \in [S -> Session]
         /\ \A s \in S : End(s, "abandoned").owner = sessions[s].owner
                         /\ End(s, "abandoned").status = "abandoned"
<1>1. ASSUME NEW s \in S
      PROVE  /\ End(s, "abandoned") \in Session
             /\ End(s, "abandoned").owner = sessions[s].owner
             /\ End(s, "abandoned").status = "abandoned"
  <2>1. sessions[s] \in Session
    BY SessionFields DEF IInv
  <2> QED BY <2>1 DEF End, Session
<1> QED BY <1>1

LEMMA ChangeType ==
  ASSUME IInv, NEW r \in Requests, RequestStep(r), ~Commit(r)
  PROVE  LocalType
<1> USE DEF LocalType, Goto
<1>1. CASE Send(r) \/ Authenticate(r) \/ TouchDevice(r) \/ FindSession(r)
           \/ LoseTracking(r)
  <2>1. ASSUME Send(r)
        PROVE  LocalType
    <3>1. PICK q \in Sends : req' = [req EXCEPT ![r] = q]
      BY <2>1 DEF Send
    <3>2. q.key \in Keys
      BY PushSessionAssumption
    <3> QED BY <2>1, <3>1, <3>2 DEF Send, IInv, TypeOK, Arrays
  <2>2. CASE Authenticate(r) \/ TouchDevice(r) \/ LoseTracking(r)
    BY <2>2 DEF Authenticate, TouchDevice, LoseTracking, IInv, TypeOK, Arrays
  <2>3. CASE FindSession(r)
    <3>1. CASE Discard(r)
      BY <3>1, Cleared DEF IInv
    <3>2. CASE ~Discard(r)
      <4> DEFINE s == IF req[r].sid = NoSid THEN Absent ELSE sessions[req[r].sid]
      <4>1. snap' = [snap EXCEPT ![r] = s] /\ pc' = [pc EXCEPT ![r] = "track"]
            /\ UNCHANGED <<sessions, guard, sent, req, out, writes, purge, stored, runs>>
        BY <2>3, <3>2 DEF FindSession
      <4>2. s \in Session \cup {Absent}
        BY <2>3 DEF IInv, TypeOK, FindSession, Requested, Asked
      <4> HIDE DEF s
      <4>3. Arrays' /\ \A q \in Requests : snap'[q] \in Session \cup {Absent}
        BY <4>1, <4>2 DEF IInv, TypeOK, Arrays
      <4> QED BY <2>3, <4>1, <4>3 DEF IInv, TypeOK, FindSession
    <3> QED BY <3>1, <3>2
  <2> QED BY <1>1, <2>1, <2>2, <2>3
<1>2. CASE CheckGuard(r)
  <2>1. CASE Discard(r)
    BY <2>1, Cleared DEF IInv
  <2>2. CASE ~Discard(r)
    BY <1>2, <2>2 DEF CheckGuard, IInv, TypeOK, Arrays
  <2> QED BY <2>1, <2>2
<1>10. CASE ReadGuard(r)
  <2>0. pc[r] = "look"
    BY <1>10 DEF ReadGuard
  <2>1. CASE Discard(r)
    BY <2>1, Cleared DEF IInv
  <2>2. CASE ~Discard(r)
    <3>1. ASSUME NEW g \in Guards(r), pc' = [pc EXCEPT ![r] = "replay"],
                 out' = [out EXCEPT ![r] = g.out],
                 UNCHANGED <<req, snap, writes, purge>>
          PROVE  LocalType
      <4>1. g.out \in Outcome
        BY DEF Guards, IInv, TypeOK
      <4>2. Arrays' /\ \A q \in Requests : out'[q] \in Outcome
        BY <3>1, <4>1 DEF IInv, TypeOK, Arrays
      <4> QED BY <2>0, <3>1, <4>2 DEF IInv, TypeOK
    <3>2. ASSUME Guards(r) = {}, Unguarded(r)
          PROVE  LocalType
      <4>1. \A q \in Requests : pc'[q] # "idle" => req'[q].key \in Keys
        BY <2>0, <3>2, Unguards DEF IInv, TypeOK, Same
      <4>2. Arrays'
        BY <3>2 DEF IInv, Arrays, Unguarded
      <4> QED BY <2>0, <3>2, <4>1, <4>2 DEF IInv, TypeOK, Unguarded
    <3> HIDE DEF LocalType
    <3> QED BY <1>10, <2>2, <3>1, <3>2 DEF ReadGuard, Unguarded
  <2> QED BY <2>1, <2>2
<1>3. CASE UpdateSession(r)
  <2>1. PICK o \in Outcome :
          /\ out' = [out EXCEPT ![r] = o]
          /\ Write(r, [x \in {req[r].sid} |->
               [sessions[req[r].sid] EXCEPT
                  !.done = NextDone(r, o), !.idle = FALSE,
                  !.total = IF snap[r].total = 0 THEN req[r].total ELSE @,
                  !.status = IF Finishes(r, o) THEN "completed" ELSE @]])
    BY <1>3 DEF UpdateSession
  <2> DEFINE x == [sessions[req[r].sid] EXCEPT
                  !.done = NextDone(r, o), !.idle = FALSE,
                  !.total = IF snap[r].total = 0 THEN req[r].total ELSE @,
                  !.status = IF Finishes(r, o) THEN "completed" ELSE @]
  <2>2. x \in Session /\ req[r].sid \in Sids
    BY <1>3, WrittenTypes DEF UpdateSession, Working, IInv, Requested
  <2> HIDE DEF x
  <2>3. Write(r, [s \in {req[r].sid} |-> x])
    BY <2>1 DEF x
  <2>4. [s \in {req[r].sid} |-> x] \in [{req[r].sid} -> Session]
    BY <2>2
  <2>5. /\ writes' = [q \in Requests |-> writes'[q]]
        /\ \A q \in Requests : \E T \in SUBSET Sids : writes'[q] \in [T -> Session]
    BY <2>2, <2>3, <2>4, WriteType DEF IInv
  <2> QED BY <1>3, <2>1, <2>5 DEF UpdateSession, IInv, TypeOK, Arrays
<1>4. CASE AbandonPrior(r)
  <2>1. PICK new \in Sids :
          /\ req' = [req EXCEPT ![r].sid = new]
          /\ Write(r, [s \in Prior(r, new) |-> End(s, "abandoned")])
    BY <1>4 DEF AbandonPrior
  <2>2. /\ [s \in Prior(r, new) |-> End(s, "abandoned")] \in [Prior(r, new) -> Session]
        /\ Prior(r, new) \in SUBSET Sids
    BY EndType DEF Prior
  <2>3. /\ writes' = [q \in Requests |-> writes'[q]]
        /\ \A q \in Requests : \E T \in SUBSET Sids : writes'[q] \in [T -> Session]
    BY <2>1, <2>2, WriteType DEF IInv
  <2>4. /\ req' = [q \in Requests |-> req'[q]]
        /\ \A q \in Requests : pc'[q] # "idle" => req'[q].key \in Keys
    BY <1>4, <2>1 DEF AbandonPrior, IInv, TypeOK, Arrays, Requested, Asked
  <2> QED BY <1>4, <2>3, <2>4 DEF AbandonPrior, IInv, TypeOK, Arrays
<1>5. CASE InsertSession(r)
  <2> DEFINE x == [status |-> IF Finishes(r, out[r]) THEN "completed"
                              ELSE "in_progress",
                   owner |-> Owner(r), total |-> req[r].total,
                   done |-> NextDone(r, out[r]), idle |-> FALSE]
  <2>1. x \in Session /\ req[r].sid \in Sids /\ Write(r, [s \in {req[r].sid} |-> x])
    BY <1>5, WrittenTypes DEF InsertSession, Working, IInv, Requested
  <2> HIDE DEF x
  <2>2. [s \in {req[r].sid} |-> x] \in [{req[r].sid} -> Session]
    BY <2>1
  <2>3. /\ writes' = [q \in Requests |-> writes'[q]]
        /\ \A q \in Requests : \E T \in SUBSET Sids : writes'[q] \in [T -> Session]
    BY <2>1, <2>2, WriteType DEF IInv
  <2> QED BY <1>5, <2>3 DEF InsertSession, IInv, TypeOK, Arrays
<1>6. CASE CleanStale(r)
  <2>1. /\ [s \in Stale(r) |-> End(s, "abandoned")] \in [Stale(r) -> Session]
        /\ Stale(r) \in SUBSET Sids
    BY EndType DEF Stale
  <2>2. /\ writes' = [q \in Requests |-> writes'[q]]
        /\ \A q \in Requests : \E T \in SUBSET Sids : writes'[q] \in [T -> Session]
    BY <1>6, <2>1, WriteType DEF IInv, CleanStale
  <2> QED BY <1>6, <2>2 DEF CleanStale, IInv, TypeOK, Arrays
<1>7. CASE SessionFails(r)
  <2>1. \E S \in SUBSET Sids : NoWrites \in [S -> Session]
    <3>1. NoWrites \in [{} -> Session] /\ {} \in SUBSET Sids
      BY DEF NoWrites
    <3> QED BY <3>1
  <2>2. /\ out' = [q \in Requests |-> out'[q]]
        /\ \A q \in Requests : out'[q] \in Outcome
    BY <1>7 DEF SessionFails, IInv, TypeOK, Arrays
  <2> QED BY <1>7, <2>1, <2>2 DEF SessionFails, IInv, TypeOK, Arrays
<1>8. CASE PurgeGuards(r) \/ SkipCleanup(r)
  BY <1>8 DEF PurgeGuards, SkipCleanup, IInv, TypeOK, Arrays
<1>9. CASE EndReplay(r) \/ Abort(r)
  BY <1>9, Cleared DEF EndReplay, Abort, IInv
<1> QED BY <1>1, <1>2, <1>3, <1>4, <1>5, <1>6, <1>7, <1>8, <1>9, <1>10
        DEF RequestStep

LEMMA BeforeCommit ==
  ASSUME IInv, NEW r \in Requests, RequestStep(r), ~Commit(r)
  PROVE  /\ UNCHANGED <<sessions, guard, stored, runs>> /\ sent' \in Nat
         /\ purge'[r] \subseteq guard
         /\ purge'[r] # {} => pc'[r] \in {"clean", "done"}
         /\ \A q \in Requests \ {r} : purge'[r] \cap purge[q] = {}
<1> USE DEF IInv, TypeOK, Arrays, PurgeApart, Goto
<1>1. CASE Send(r) \/ Authenticate(r) \/ TouchDevice(r) \/ LoseTracking(r)
  BY <1>1 DEF Send, Authenticate, TouchDevice, LoseTracking
<1>2. CASE FindSession(r) \/ EndReplay(r) \/ Abort(r)
  BY <1>2, Cleared DEF FindSession, EndReplay, Abort, Discard
<1>3. CASE CheckGuard(r)
  <2>1. guard' = guard
    BY <1>3, GuardKept
  <2>2. CASE Discard(r)
    BY <2>1, <2>2, Cleared DEF Discard
  <2> QED BY <1>3, <2>1, <2>2 DEF CheckGuard
<1>7. CASE ReadGuard(r)
  <2>1. CASE Discard(r)
    BY <2>1, Cleared DEF Discard
  <2> QED BY <1>7, <2>1 DEF ReadGuard
<1>4. CASE UpdateSession(r) \/ AbandonPrior(r) \/ InsertSession(r)
           \/ SessionFails(r)
  BY <1>4 DEF UpdateSession, AbandonPrior, InsertSession, SessionFails
<1>5. CASE PurgeGuards(r)
  <2>1. PICK G \in IF GuardsExpire THEN SUBSET guard ELSE {{}} :
          /\ \A q \in Requests \ {r} : G \cap purge[q] = {}
          /\ purge' = [purge EXCEPT ![r] = G]
    BY <1>5 DEF PurgeGuards
  <2>2. G \subseteq guard
    BY <2>1
  <2> QED BY <1>5, <2>1, <2>2 DEF PurgeGuards
<1>6. CASE CleanStale(r) \/ SkipCleanup(r)
  BY <1>6 DEF CleanStale, SkipCleanup
<1> QED BY <1>1, <1>2, <1>3, <1>4, <1>5, <1>6, <1>7 DEF RequestStep

LEMMA CommitType ==
  ASSUME IInv, NEW r \in Requests, Commit(r)
  PROVE  TypeOK' /\ Arrays'
<1> USE DEF IInv, TypeOK
<1>1. /\ Arrays' /\ LocalType
      /\ purge'[r] = {} /\ \A q \in Requests : q # r => Same(q)
  BY Cleared DEF Commit, LocalType
<1>2. sessions' \in [Sids -> Session \cup {Absent}]
  <2>1. PICK S \in SUBSET Sids : writes[r] \in [S -> Session]
    OBVIOUS
  <2> QED BY <2>1 DEF Commit
<1>3. guard' \subseteq [key : Keys, ik : Iks, content : Contents,
                        complete : BOOLEAN, out : Outcome]
  <2>1. Kept(r) \subseteq [key : Keys, ik : Iks, content : Contents,
                        complete : BOOLEAN, out : Outcome]
    <3>1. /\ req[r].key \in Keys /\ req[r].ik \in Iks \cup {NoIk}
          /\ req[r].content \in Contents /\ out[r] \in Outcome
      BY DEF Commit, Requested, Asked
    <3> DEFINE row == [key |-> req[r].key, ik |-> req[r].ik,
                       content |-> req[r].content, complete |-> TRUE,
                       out |-> out[r]]
    <3>2. req[r].ik # NoIk => row \in [key : Keys, ik : Iks, content : Contents,
                                       complete : BOOLEAN, out : Outcome]
      BY <3>1
    <3>3. Kept(r) \subseteq {row} /\ (req[r].ik = NoIk => Kept(r) = {})
      BY DEF Kept
    <3> QED BY <3>2, <3>3
  <2> QED BY <2>1 DEF Commit
<1>4. \A q \in Requests : purge'[q] \subseteq guard'
  BY <1>1 DEF Commit, PurgeApart, Same
<1>5. stored' \in [Sids -> SUBSET Contents]
  <2>1. req[r].content \in Contents
    BY DEF Commit, Requested, Asked
  <2> QED BY <2>1 DEF Commit
<1>6. runs' \in [Keys \X Iks -> Nat] /\ sent' \in Nat
  <2>1. \A g \in Keys \X Iks : runs[g] \in Nat
    OBVIOUS
  <2> QED BY <2>1 DEF Commit
<1> QED BY <1>1, <1>2, <1>3, <1>4, <1>5, <1>6 DEF LocalType

LEMMA TypeStep ==
  ASSUME IInv, Next
  PROVE  TypeOK' /\ Arrays'
<1>1. ASSUME NEW r \in Requests, RequestStep(r), ~Commit(r)
      PROVE  TypeOK' /\ Arrays'
  <2>1. \A q \in Requests : purge'[q] \subseteq guard
    <3>1. ASSUME NEW q \in Requests, q # r
          PROVE  purge'[q] = purge[q]
      BY <1>1, <3>1, OtherRequest DEF IInv, Same
    <3> QED BY <1>1, <3>1, BeforeCommit DEF IInv, TypeOK
  <2> QED BY <1>1, <2>1, BeforeCommit, ChangeType, LocalTyped
<1>2. CASE Settles
  BY <1>2 DEF Settles, IInv, TypeOK, Arrays
<1>3. \/ Settles
      \/ \E r \in Requests : Commit(r)
      \/ \E r \in Requests : RequestStep(r) /\ ~Commit(r)
  BY SettleStep DEF IInv, Next, RequestStep
<1> QED BY <1>1, <1>2, <1>3, CommitType

-----------------------------------------------------------------------------
(* Where requests are, and their locks *)

LEMMA Moves ==
  ASSUME IInv, NEW r \in Requests, RequestStep(r)
  PROVE  /\ Processing(r)' =>
              /\ req'[r].key = req[r].key /\ req'[r].ik \in {req[r].ik, NoIk}
              /\ Processing(r) \/ KeyFree(r)
         /\ Working(r)' => Working(r) \/ DeviceFree(r)
         /\ pc'[r] = "device" \/ Working(r)' =>
              \/ pc[r] = "device" \/ Working(r)
              \/ req'[r].ik = NoIk
              \/ CheckGuard(r)
<1> USE DEF IInv, TypeOK, Arrays, Goto, Processing, Working
<1>1. CASE Send(r) \/ Authenticate(r) \/ TouchDevice(r) \/ LoseTracking(r)
  BY <1>1 DEF Send, Authenticate, TouchDevice, LoseTracking
<1>2. CASE Discard(r) \/ Reset(r)
  BY <1>2, Cleared
<1>3. CASE FindSession(r)
  BY <1>2, <1>3 DEF FindSession
<1>4. CASE CheckGuard(r)
  <2>1. CASE ~Discard(r)
    BY <1>4, <2>1 DEF CheckGuard
  <2> QED BY <1>2, <2>1
<1>9. CASE ReadGuard(r)
  <2>1. CASE Unguarded(r)
    BY <1>9, <2>1, Unguards DEF ReadGuard
  <2>2. CASE ~Discard(r) /\ ~Unguarded(r)
    BY <1>9, <2>2 DEF ReadGuard, Unguarded
  <2> QED BY <1>2, <2>1, <2>2
<1>5. CASE UpdateSession(r) \/ InsertSession(r) \/ SessionFails(r)
  BY <1>5 DEF UpdateSession, InsertSession, SessionFails
<1>6. CASE AbandonPrior(r)
  <2>1. PICK new \in Sids : req' = [req EXCEPT ![r].sid = new]
    BY <1>6 DEF AbandonPrior
  <2>2. Asked(req[r])
    BY <1>6 DEF AbandonPrior, Requested
  <2> QED BY <1>6, <2>1, <2>2 DEF AbandonPrior, Asked
<1>7. CASE PurgeGuards(r) \/ CleanStale(r) \/ SkipCleanup(r)
  BY <1>7 DEF PurgeGuards, CleanStale, SkipCleanup
<1>8. CASE EndReplay(r) \/ Abort(r) \/ Commit(r)
  BY <1>2, <1>8 DEF EndReplay, Abort, Commit
<1> QED BY <1>1, <1>2, <1>3, <1>4, <1>5, <1>6, <1>7, <1>8, <1>9 DEF RequestStep

LEMMA OneAtATimeStep ==
  ASSUME IInv, Next
  PROVE  OneAtATime'
<1>1. ASSUME NEW r \in Requests, NEW q \in Requests, r # q,
             RequestStep(r)
      PROVE  /\ Processing(r)' /\ Processing(q)' => req'[r].key # req'[q].key
             /\ Working(r)' /\ Working(q)' => Owner(r)' # Owner(q)'
  <2>1. Same(q)
    BY <1>1, OtherRequest DEF IInv
  <2>0. OneAtATime
    BY DEF IInv
  <2>2. ASSUME Processing(r)', Processing(q)'
        PROVE  req'[r].key # req'[q].key
    <3>1. req'[r].key = req[r].key /\ (Processing(r) \/ KeyFree(r))
      BY <1>1, <2>2, Moves
    <3>2. Processing(q) /\ req'[q].key = req[q].key
      BY <2>1, <2>2 DEF Same, Processing
    <3>3. req[r].key # req[q].key
      BY <1>1, <2>0, <3>1, <3>2 DEF OneAtATime, KeyFree
    <3> QED BY <3>1, <3>2, <3>3
  <2>3. ASSUME Working(r)', Working(q)'
        PROVE  Owner(r)' # Owner(q)'
    <3>1. Processing(r)' /\ Processing(q)' /\ Working(q)
      BY <2>1, <2>3 DEF Working, Processing, Same
    <3>2. Owner(r)' = Owner(r) /\ Owner(q)' = Owner(q)
      BY <1>1, <2>1, <3>1, Moves DEF Owner, Same
    <3>3. Working(r) \/ DeviceFree(r)
      BY <1>1, <2>3, Moves
    <3>4. Owner(r) # Owner(q)
      BY <1>1, <2>0, <3>1, <3>3 DEF OneAtATime, DeviceFree, Working
    <3> QED BY <3>2, <3>4
  <2> QED BY <2>2, <2>3
<1>2. ASSUME NEW r \in Requests, RequestStep(r)
      PROVE  OneAtATime'
  <2>1. ASSUME NEW p \in Requests, NEW q \in Requests, p # q, p # r, q # r
        PROVE  /\ Processing(p)' /\ Processing(q)' => req'[p].key # req'[q].key
               /\ Working(p)' /\ Working(q)' => Owner(p)' # Owner(q)'
    <3>1. Same(p) /\ Same(q)
      BY <1>2, <2>1, OtherRequest DEF IInv
    <3> QED BY <2>1, <3>1 DEF IInv, OneAtATime, Same, Processing, Working, Owner
  <2> QED BY <1>1, <1>2, <2>1 DEF OneAtATime
<1>3. CASE Settles
  BY <1>3 DEF Settles, IInv, OneAtATime, Processing, Working, Owner
<1> QED BY <1>2, <1>3, SettleStep DEF IInv, Next

LEMMA RequestedStep ==
  ASSUME IInv, Next
  PROVE  Requested'
<1>1. \A s \in Sids : sessions[s] # Absent => sessions'[s] # Absent
  <2>1. ASSUME NEW q \in Requests, Commit(q), NEW s \in Sids, sessions[s] # Absent
        PROVE  sessions'[s] # Absent
    <3>1. PICK S \in SUBSET Sids : writes[q] \in [S -> Session]
      BY DEF IInv, TypeOK
    <3> QED BY <2>1, <3>1, NotAbsent DEF Commit
  <2> QED BY <2>1, SessionStep DEF IInv, Settles
<1>2. ASSUME NEW r \in Requests, Same(r)
      PROVE  /\ pc'[r] # "idle" => Asked(req'[r])
             /\ pc'[r] = "track" /\ snap'[r] # Absent =>
                  req'[r].sid \in Sids /\ sessions'[req'[r].sid] # Absent
             /\ pc'[r] = "insert" => snap'[r] = Absent /\ req'[r].sid \in Sids
  BY <1>1, <1>2 DEF Same, IInv, Requested
<1>3. ASSUME NEW r \in Requests, RequestStep(r)
      PROVE  /\ pc'[r] # "idle" => Asked(req'[r])
             /\ pc'[r] = "track" /\ snap'[r] # Absent =>
                  req'[r].sid \in Sids /\ sessions'[req'[r].sid] # Absent
             /\ pc'[r] = "insert" => snap'[r] = Absent /\ req'[r].sid \in Sids
  <2> USE DEF IInv, TypeOK, Arrays, Requested, Goto
  <2>1. CASE Discard(r) \/ Reset(r)
    BY <2>1, Cleared
  <2>2. CASE Send(r)
    <3>1. PICK q \in Sends : req' = [req EXCEPT ![r] = q]
      BY <2>2 DEF Send
    <3>2. Asked(q)
      BY PushSessionAssumption DEF Asked, Iks, Contents
    <3> QED BY <2>2, <3>1, <3>2 DEF Send
  <2>3. CASE Authenticate(r) \/ TouchDevice(r) \/ LoseTracking(r)
    BY <2>3 DEF Authenticate, TouchDevice, LoseTracking
  <2>4. CASE CheckGuard(r) /\ ~Discard(r)
    BY <2>4 DEF CheckGuard
  <2>9. CASE ReadGuard(r) /\ ~Discard(r)
    <3>1. CASE Unguarded(r)
      BY <2>9, <3>1, Unguards DEF ReadGuard
    <3> QED BY <2>9, <3>1 DEF ReadGuard, Unguarded
  <2>5. CASE FindSession(r) /\ ~Discard(r)
    BY <2>5 DEF FindSession, Asked
  <2>6. CASE UpdateSession(r) \/ InsertSession(r) \/ SessionFails(r)
    BY <2>6 DEF UpdateSession, InsertSession, SessionFails
  <2>7. CASE AbandonPrior(r)
    <3>1. PICK new \in Sids : req' = [req EXCEPT ![r].sid = new]
      BY <2>7 DEF AbandonPrior
    <3>2. Asked(req'[r]) /\ req'[r].sid = new
      BY <2>7, <3>1 DEF AbandonPrior, Asked
    <3> QED BY <2>7, <3>2 DEF AbandonPrior
  <2>8. CASE PurgeGuards(r) \/ CleanStale(r) \/ SkipCleanup(r)
    BY <2>8 DEF PurgeGuards, CleanStale, SkipCleanup
  <2> QED BY <1>3, <2>1, <2>2, <2>3, <2>4, <2>5, <2>6, <2>7, <2>8, <2>9
          DEF RequestStep, EndReplay, Abort, Commit, CheckGuard, ReadGuard, FindSession
<1> QED BY <1>2, <1>3, Stepped DEF Requested, IInv

LEMMA PurgeApartStep ==
  ASSUME IInv, Next
  PROVE  PurgeApart'
<1>1. ASSUME NEW r \in Requests, RequestStep(r)
      PROVE  /\ purge'[r] # {} => pc'[r] \in {"clean", "done"}
             /\ \A q \in Requests \ {r} : purge'[r] \cap purge[q] = {}
  BY <1>1, BeforeCommit, Cleared DEF IInv, Commit
<1>2. ASSUME NEW r \in Requests, Same(r)
      PROVE  purge'[r] # {} => pc'[r] \in {"clean", "done"}
  BY <1>2 DEF IInv, PurgeApart, Same
<1>3. ASSUME NEW r \in Requests, NEW q \in Requests, r # q
      PROVE  purge'[r] \cap purge'[q] = {}
  <2>1. CASE RequestStep(r)
    BY <1>1, <1>3, <2>1, OtherRequest DEF IInv, Same
  <2>2. CASE RequestStep(q)
    BY <1>1, <1>3, <2>2, OtherRequest DEF IInv, Same
  <2>3. CASE Same(r) /\ Same(q)
    BY <1>3, <2>3 DEF IInv, PurgeApart, Same
  <2> QED BY <2>1, <2>2, <2>3, Stepped DEF IInv
<1> QED BY <1>1, <1>2, <1>3, Stepped DEF PurgeApart, IInv

-----------------------------------------------------------------------------
(* Guard rows *)

LEMMA GuardStep ==
  ASSUME IInv, Next
  PROVE  \/ UNCHANGED <<guard, runs>>
         \/ \E q \in Requests : Commit(q)
BY BeforeCommit, SettleStep DEF IInv, Next, Settles

LEMMA KeptRow ==
  ASSUME NEW r \in Requests, NEW g \in Kept(r)
  PROVE  g.complete /\ g.key = req[r].key /\ g.ik = req[r].ik /\ req[r].ik # NoIk
BY DEF Kept

LEMMA GuardedStep ==
  ASSUME IInv, Next
  PROVE  Guarded'
<1>1. \A g \in guard' : g.complete
  BY GuardStep, KeptRow DEF IInv, Guarded, Commit
<1>2. ASSUME NEW r \in Requests, pc'[r] = "device" \/ Working(r)',
             req'[r].ik # NoIk
      PROVE  Guards(r)' = {}
  <2>1. /\ req'[r].ik = req[r].ik /\ req'[r].key = req[r].key
        /\ Processing(r)
        /\ Guards(r) = {}
    <3>1. CASE Same(r)
      BY <1>2, <3>1 DEF Same, Working, Processing, IInv, Guarded
    <3>2. CASE RequestStep(r)
      <4>1. req'[r].ik = req[r].ik /\ req'[r].key = req[r].key
        BY <1>2, <3>2, Moves DEF Processing, Working
      <4>2. \/ pc[r] = "device" \/ Working(r) \/ CheckGuard(r)
        BY <1>2, <3>2, <4>1, Moves
      <4>3. CASE CheckGuard(r)
        <5>1. pc'[r] = "device"
          <6>1. pc[r] = "guard"
            BY <4>3 DEF CheckGuard
          <6>2. CASE Discard(r)
            BY <1>2, <6>2, Cleared DEF IInv, Working
          <6>3. CASE ~Discard(r)
            BY <1>2, <4>3, <6>3 DEF CheckGuard, IInv, TypeOK, Goto, Working
          <6> QED BY <6>2, <6>3
        <5> QED BY <4>1, <4>3, <5>1, GuardKept DEF CheckGuard, Processing
      <4> QED BY <1>2, <4>1, <4>2, <4>3 DEF IInv, Guarded, Working, Processing
    <3> QED BY <3>1, <3>2, Stepped DEF IInv
  <2>2. CASE UNCHANGED guard
    BY <2>1, <2>2 DEF Guards
  <2>3. ASSUME NEW q \in Requests, Commit(q)
        PROVE  Guards(r)' = {}
    <3>1. q # r
      BY <1>2, <2>3, Cleared DEF Commit, IInv, Working
    <3>2. req[q].key # req[r].key
      BY <2>1, <2>3, <3>1 DEF IInv, OneAtATime, Commit, Processing
    <3> QED BY <2>1, <2>3, <3>2, KeptRow DEF Commit, Guards
  <2> QED BY <2>2, <2>3, GuardStep
<1> QED BY <1>1, <1>2 DEF Guarded

LEMMA RunsGuardedStep ==
  ASSUME IInv, Next
  PROVE  RunsGuarded'
<1>1. CASE UNCHANGED <<guard, runs>>
  BY <1>1 DEF IInv, RunsGuarded
<1>2. ASSUME NEW r \in Requests, Commit(r), NEW g \in Keys \X Iks, g[2] # NoIk
      PROVE  \/ runs'[g] = 0
             \/ runs'[g] = 1 /\ \E row \in guard' : row.key = g[1] /\ row.ik = g[2]
  <2> DEFINE Row == \E row \in guard : row.key = g[1] /\ row.ik = g[2]
  <2>1. runs'[g] = IF \E row \in purge[r] : <<row.key, row.ik>> = g THEN 0
                   ELSE IF g = <<req[r].key, req[r].ik>> /\ out[r].safe
                        THEN runs[g] + 1 ELSE runs[g]
    BY <1>2 DEF Commit
  <2>2. runs[g] = 0 \/ (runs[g] = 1 /\ Row)
    BY <1>2 DEF IInv, RunsGuarded
  <2>3. guard' = (guard \ purge[r]) \cup Kept(r)
    BY <1>2 DEF Commit
  <2>4. g = <<g[1], g[2]>>
    BY <1>2
  <2>5. CASE \E row \in purge[r] : <<row.key, row.ik>> = g
    BY <2>1, <2>5
  <2>6. CASE /\ ~\E row \in purge[r] : <<row.key, row.ik>> = g
             /\ ~(g = <<req[r].key, req[r].ik>> /\ out[r].safe)
    BY <2>1, <2>2, <2>3, <2>4, <2>6
  <2>7. CASE /\ ~\E row \in purge[r] : <<row.key, row.ik>> = g
             /\ g = <<req[r].key, req[r].ik>> /\ out[r].safe
    <3>1. g[1] = req[r].key /\ g[2] = req[r].ik
      BY <2>7
    <3>2. Guards(r) = {}
      BY <1>2, <3>1 DEF IInv, Guarded, Commit, Working
    <3>3. runs[g] = 0
      BY <2>2, <3>1, <3>2 DEF Guards
    <3>4. out[r].state \in {"success", "completed_with_issues"}
      BY <2>7, Outcomes DEF IInv, TypeOK
    <3>5. \E row \in Kept(r) : row.key = g[1] /\ row.ik = g[2]
      BY <1>2, <3>1, <3>4 DEF Kept
    <3> QED BY <2>1, <2>3, <2>7, <3>3, <3>5
  <2> QED BY <2>5, <2>6, <2>7
<1> QED BY <1>1, <1>2, GuardStep DEF RunsGuarded

-----------------------------------------------------------------------------
(* Session rows *)

\* What a step of r does to the rows r has written: it lets go of them, keeps
\* them, or adds rows nobody else has written.
Keeps(r)  == writes'[r] = writes[r]
Clears(r) == DOMAIN writes'[r] = {}
Adds(r, S) ==
  /\ S \subseteq Sids /\ DOMAIN writes'[r] = DOMAIN writes[r] \cup S
  /\ DOMAIN writes[r] \cap S = {}
  /\ \A s \in DOMAIN writes[r] : writes'[r][s] = writes[r][s]
  /\ \A s \in S : ~Locked(r, s)

\* A row that exists is added as an update of it; a new one is r's session.
Updates(s, row) ==
  /\ sessions[s] # Absent /\ row.owner = sessions[s].owner
  /\ row.status = "in_progress" => sessions[s].status = "in_progress"

LEMMA Unwritten ==
  ASSUME IInv, NEW r \in Requests,
         pc[r] \notin {"insert", "store", "clean", "done"}
  PROVE  DOMAIN writes[r] = {}
<1>1. PICK S \in SUBSET Sids : writes[r] \in [S -> Session]
  BY DEF IInv, TypeOK
<1> QED BY <1>1 DEF IInv, WritesTrue

LEMMA InProgress ==
  ASSUME IInv, NEW s \in Sids, sessions[s].status = "in_progress"
  PROVE  sessions[s] # Absent
BY SessionFields DEF IInv

One(s, row) == [t \in {s} |-> row]

LEMMA WriteOne ==
  ASSUME IInv, NEW r \in Requests, NEW s \in Sids, NEW x \in Session,
         Write(r, One(s, x))
  PROVE  /\ DOMAIN writes'[r] = DOMAIN writes[r] \cup {s}
         /\ writes'[r][s] = x
         /\ \A t \in DOMAIN writes[r] \ {s} : writes'[r][t] = writes[r][t]
<1> DEFINE S == {s}
           new == One(s, x)
<1>1. S \in SUBSET Sids /\ new \in [S -> Session] /\ Write(r, new)
  BY DEF One
<1>2. s \in S /\ new[s] = x
  BY DEF One
<1> HIDE DEF new
<1>3. /\ DOMAIN writes'[r] = DOMAIN writes[r] \cup S
      /\ \A t \in S : writes'[r][t] = new[t]
      /\ \A t \in DOMAIN writes[r] \ S : writes'[r][t] = writes[r][t]
  <2> HIDE DEF S
  <2> QED BY <1>1, WriteType DEF IInv
<1> QED BY <1>2, <1>3

LEMMA UpdateWrites ==
  ASSUME IInv, NEW r \in Requests, UpdateSession(r)
  PROVE  /\ Adds(r, {req[r].sid}) /\ pc'[r] = "store"
         /\ Updates(req[r].sid, writes'[r][req[r].sid])
<1>1. PICK o \in Outcome :
        Write(r, [x \in {req[r].sid} |->
             [sessions[req[r].sid] EXCEPT
                !.done = NextDone(r, o), !.idle = FALSE,
                !.total = IF snap[r].total = 0 THEN req[r].total ELSE @,
                !.status = IF Finishes(r, o) THEN "completed" ELSE @]])
  BY DEF UpdateSession
<1> DEFINE x == [sessions[req[r].sid] EXCEPT
                !.done = NextDone(r, o), !.idle = FALSE,
                !.total = IF snap[r].total = 0 THEN req[r].total ELSE @,
                !.status = IF Finishes(r, o) THEN "completed" ELSE @]
<1>2. /\ x \in Session /\ req[r].sid \in Sids
      /\ sessions[req[r].sid] # Absent
  BY WrittenTypes DEF UpdateSession, Working, IInv, Requested
<1>3. sessions[req[r].sid] \in Session
  BY <1>2 DEF IInv, TypeOK
<1>4. /\ x.owner = sessions[req[r].sid].owner
      /\ x.status = "in_progress" => sessions[req[r].sid].status = "in_progress"
  BY <1>3 DEF Session
<1> HIDE DEF x
<1>5. Write(r, One(req[r].sid, x))
  BY <1>1 DEF x, One
<1>7. DOMAIN writes[r] = {}
  BY Unwritten DEF UpdateSession
<1>8. /\ DOMAIN writes'[r] = DOMAIN writes[r] \cup {req[r].sid}
      /\ writes'[r][req[r].sid] = x
  BY <1>2, <1>5, WriteOne
<1>9. pc'[r] = "store" /\ ~Locked(r, req[r].sid)
  BY DEF UpdateSession, Goto, IInv, TypeOK
<1> QED BY <1>2, <1>4, <1>7, <1>8, <1>9 DEF Adds, Updates

LEMMA AbandonWrites ==
  ASSUME IInv, NEW r \in Requests, AbandonPrior(r)
  PROVE  \E S : /\ Adds(r, S) /\ pc'[r] = "insert"
                /\ \A s \in S : Updates(s, writes'[r][s])
                /\ Owner(r)' = Owner(r)
                /\ \A t \in Sids \ {req'[r].sid} :
                     sessions[t].status = "in_progress"
                       /\ sessions[t].owner = Owner(r) =>
                     t \in S /\ writes'[r][t].status = "abandoned"
                /\ req'[r].sid \notin S
<1>1. PICK new \in Sids :
        /\ \A s \in Prior(r, new) : ~Locked(r, s)
        /\ req' = [req EXCEPT ![r].sid = new]
        /\ Write(r, [s \in Prior(r, new) |-> End(s, "abandoned")])
  BY DEF AbandonPrior
<1> DEFINE S == Prior(r, new)
<1>2. /\ [s \in S |-> End(s, "abandoned")] \in [S -> Session] /\ S \in SUBSET Sids
      /\ \A s \in S : /\ End(s, "abandoned").owner = sessions[s].owner
                      /\ End(s, "abandoned").status = "abandoned"
  BY EndType DEF Prior
<1>3. DOMAIN writes[r] = {}
  BY Unwritten DEF AbandonPrior
<1>4. /\ DOMAIN writes'[r] = DOMAIN writes[r] \cup S
      /\ \A s \in S : writes'[r][s] = [t \in S |-> End(t, "abandoned")][s]
  BY <1>1, <1>2, WriteType DEF IInv
<1>5. \A s \in S : sessions[s] # Absent
  BY InProgress DEF Prior
<1>6. pc'[r] = "insert"
  BY DEF AbandonPrior, Goto, IInv, TypeOK
<1>7. Asked(req[r])
  BY DEF AbandonPrior, IInv, Requested
<1>8. req'[r].sid = new /\ Owner(r)' = Owner(r)
  BY <1>1, <1>7 DEF Owner, IInv, Arrays, Asked
<1>9. \A t \in Sids \ {new} :
        sessions[t].status = "in_progress" /\ sessions[t].owner = Owner(r) => t \in S
  BY DEF Prior
<1>15. new \notin S
  BY DEF Prior
<1>10. \A s \in S : ~Locked(r, s)
  BY <1>1
<1> HIDE DEF S
<1>11. \A s \in S : writes'[r][s] = End(s, "abandoned")
  BY <1>4
<1>12. Adds(r, S)
  BY <1>2, <1>3, <1>4, <1>10 DEF Adds
<1>13. \A s \in S : Updates(s, writes'[r][s])
  BY <1>2, <1>5, <1>11 DEF Updates
<1>14. \A t \in Sids \ {req'[r].sid} :
         sessions[t].status = "in_progress" /\ sessions[t].owner = Owner(r) =>
           t \in S /\ writes'[r][t].status = "abandoned"
  BY <1>2, <1>8, <1>9, <1>11
<1> QED BY <1>6, <1>8, <1>12, <1>13, <1>14, <1>15

LEMMA InsertWrites ==
  ASSUME IInv, NEW r \in Requests, InsertSession(r)
  PROVE  /\ Adds(r, {req[r].sid}) /\ pc'[r] = "store"
         /\ req'[r] = req[r] /\ sessions[req[r].sid] = Absent
         /\ writes'[r][req[r].sid].owner = Owner(r)
<1> DEFINE x == [status |-> IF Finishes(r, out[r]) THEN "completed"
                            ELSE "in_progress",
                 owner |-> Owner(r), total |-> req[r].total,
                 done |-> NextDone(r, out[r]), idle |-> FALSE]
<1>1. /\ x \in Session /\ req[r].sid \in Sids /\ x.owner = Owner(r)
      /\ Write(r, One(req[r].sid, x))
  BY WrittenTypes DEF InsertSession, Working, IInv, Requested, One
<1> HIDE DEF x
<1>3. /\ DOMAIN writes'[r] = DOMAIN writes[r] \cup {req[r].sid}
      /\ writes'[r][req[r].sid] = x
      /\ \A s \in DOMAIN writes[r] \ {req[r].sid} : writes'[r][s] = writes[r][s]
  BY <1>1, WriteOne
<1>4. req[r].sid \notin DOMAIN writes[r]
  BY DEF InsertSession, IInv, WritesTrue
<1>5. /\ pc'[r] = "store" /\ ~Locked(r, req[r].sid)
      /\ req'[r] = req[r] /\ sessions[req[r].sid] = Absent
  BY DEF InsertSession, Goto, IInv, TypeOK
<1> QED BY <1>1, <1>3, <1>4, <1>5 DEF Adds

LEMMA CleanWrites ==
  ASSUME IInv, NEW r \in Requests, CleanStale(r)
  PROVE  /\ Adds(r, Stale(r)) /\ pc'[r] = "done" /\ req'[r] = req[r]
         /\ \A s \in Stale(r) : Updates(s, writes'[r][s])
<1>1. /\ [s \in Stale(r) |-> End(s, "abandoned")] \in [Stale(r) -> Session]
      /\ Stale(r) \in SUBSET Sids
      /\ \A s \in Stale(r) : /\ End(s, "abandoned").owner = sessions[s].owner
                             /\ End(s, "abandoned").status = "abandoned"
  BY EndType DEF Stale
<1>2. /\ DOMAIN writes'[r] = DOMAIN writes[r] \cup Stale(r)
      /\ \A s \in Stale(r) :
           writes'[r][s] = [t \in Stale(r) |-> End(t, "abandoned")][s]
      /\ \A s \in DOMAIN writes[r] \ Stale(r) : writes'[r][s] = writes[r][s]
  BY <1>1, WriteType DEF IInv, CleanStale
<1>3. /\ \A s \in Stale(r) : sessions[s] # Absent /\ s \notin DOMAIN writes[r]
      /\ \A s \in Stale(r) : ~Locked(r, s)
      /\ pc'[r] = "done" /\ req'[r] = req[r]
  BY InProgress DEF Stale, CleanStale, Goto, IInv, TypeOK
<1>4. \A s \in Stale(r) : writes'[r][s] = End(s, "abandoned")
  BY <1>2
<1> QED BY <1>1, <1>2, <1>3, <1>4 DEF Adds, Updates

LEMMA OtherWrites ==
  ASSUME IInv, NEW r \in Requests, RequestStep(r)
  PROVE  \/ Clears(r) /\ pc'[r] # "insert"
         \/ /\ Keeps(r) /\ req'[r] = req[r] /\ DOMAIN writes[r] # {}
            /\ pc'[r] \in {"store", "clean", "done"}
         \/ UpdateSession(r) \/ AbandonPrior(r) \/ InsertSession(r)
         \/ CleanStale(r)
<1> USE DEF IInv, TypeOK, Arrays, Goto, Clears, Keeps
<1>1. CASE Send(r) \/ Authenticate(r) \/ TouchDevice(r) \/ LoseTracking(r)
  <2>1. /\ Keeps(r) /\ pc'[r] # "insert"
        /\ pc[r] \notin {"insert", "store", "clean", "done"}
    BY <1>1 DEF Send, Authenticate, TouchDevice, LoseTracking
  <2> QED BY <2>1, Unwritten
<1>2. CASE Discard(r) \/ Reset(r)
  BY <1>2, Cleared
<1>3. CASE ~Discard(r) /\ (CheckGuard(r) \/ ReadGuard(r) \/ FindSession(r))
  <2>1. /\ Keeps(r) /\ pc'[r] # "insert"
        /\ pc[r] \notin {"insert", "store", "clean", "done"}
    BY <1>3 DEF CheckGuard, ReadGuard, FindSession
  <2> QED BY <2>1, Unwritten
<1>4. CASE SessionFails(r)
  BY <1>4 DEF SessionFails, NoWrites
<1>5. CASE PurgeGuards(r) \/ SkipCleanup(r)
  BY <1>5 DEF PurgeGuards, SkipCleanup
<1> QED BY <1>1, <1>2, <1>3, <1>4, <1>5
        DEF RequestStep, EndReplay, Abort, Commit

LEMMA Shape ==
  ASSUME IInv, NEW r \in Requests, RequestStep(r)
  PROVE  Clears(r) \/ Keeps(r) \/ \E S : Adds(r, S)
BY OtherWrites, UpdateWrites, AbandonWrites, InsertWrites, CleanWrites

LEMMA WritesApartStep ==
  ASSUME IInv, Next
  PROVE  WritesApart'
<1>1. ASSUME NEW r \in Requests, NEW q \in Requests, r # q, RequestStep(r)
      PROVE  DOMAIN writes'[r] \cap DOMAIN writes'[q] = {}
  <2>1. DOMAIN writes[r] \cap DOMAIN writes[q] = {}
    BY <1>1 DEF IInv, WritesApart
  <2>2. writes'[q] = writes[q]
    BY <1>1, OtherRequest DEF IInv, Same
  <2>3. DOMAIN writes'[r] \cap DOMAIN writes[q] = {}
    BY <1>1, <2>1, Shape DEF Clears, Keeps, Adds, Locked
  <2> QED BY <2>2, <2>3
<1>2. ASSUME NEW r \in Requests, NEW q \in Requests, r # q
      PROVE  DOMAIN writes'[r] \cap DOMAIN writes'[q] = {}
  <2>1. CASE RequestStep(r) \/ RequestStep(q)
    BY <1>1, <1>2, <2>1
  <2>2. CASE Same(r) /\ Same(q)
    BY <1>2, <2>2 DEF IInv, WritesApart, Same
  <2> QED BY <2>1, <2>2, Stepped DEF IInv
<1> QED BY <1>2 DEF WritesApart

-----------------------------------------------------------------------------
(* One session in progress per device *)

WrittenTrue(r, s) ==
  /\ sessions[s] # Absent =>
       /\ writes[r][s].owner = sessions[s].owner
       /\ writes[r][s].status = "in_progress" =>
            sessions[s].status = "in_progress"
  /\ sessions[s] = Absent =>
       s = req[r].sid /\ writes[r][s].owner = Owner(r) /\ Alone(r)

\* r's writes and what it has yet to write are true.
Truly(r) ==
  /\ pc[r] = "insert" => Alone(r) /\ req[r].sid \notin DOMAIN writes[r]
  /\ \A s \in DOMAIN writes[r] :
       /\ pc[r] \in {"insert", "store", "clean", "done"}
       /\ WrittenTrue(r, s)

LEMMA WritesTruly == WritesTrue <=> \A r \in Requests : Truly(r)
BY DEF WritesTrue, Truly, WrittenTrue

\* r stays alone when it adds to its writes.
LEMMA StaysAlone ==
  ASSUME IInv, NEW r \in Requests, Alone(r), UNCHANGED sessions,
         req'[r] = req[r], NEW S, Keeps(r) \/ Adds(r, S)
  PROVE  Alone(r)'
BY DEF Alone, Keeps, Adds, Owner

LEMMA OwnWritesTrue ==
  ASSUME IInv, NEW r \in Requests, RequestStep(r), ~Commit(r)
  PROVE  Truly(r)'
<1> USE DEF Truly, WrittenTrue
<1>0. Truly(r) /\ UNCHANGED sessions
  BY WritesTruly, BeforeCommit DEF IInv
<1>1. CASE Clears(r) /\ pc'[r] # "insert"
  BY <1>1 DEF Clears
<1>2. CASE /\ Keeps(r) /\ req'[r] = req[r] /\ DOMAIN writes[r] # {}
           /\ pc'[r] \in {"store", "clean", "done"}
  <2>1. Alone(r) => Alone(r)'
    BY <1>0, <1>2, StaysAlone
  <2>2. Owner(r)' = Owner(r)
    BY <1>2 DEF Owner
  <2> QED BY <1>0, <1>2, <2>1, <2>2 DEF Keeps
<1>3. CASE UpdateSession(r)
  <2>1. DOMAIN writes[r] = {}
    BY <1>3, Unwritten DEF UpdateSession
  <2> QED BY <1>0, <1>3, <2>1, UpdateWrites DEF Adds, Updates
<1>4. CASE AbandonPrior(r)
  <2>1. DOMAIN writes[r] = {}
    BY <1>4, Unwritten DEF AbandonPrior
  <2>2. PICK S : /\ Adds(r, S) /\ pc'[r] = "insert"
                 /\ \A s \in S : Updates(s, writes'[r][s])
                 /\ Owner(r)' = Owner(r)
                 /\ \A t \in Sids \ {req'[r].sid} :
                      sessions[t].status = "in_progress"
                        /\ sessions[t].owner = Owner(r) =>
                      t \in S /\ writes'[r][t].status = "abandoned"
                 /\ req'[r].sid \notin S
    BY <1>4, AbandonWrites
  <2>3. Alone(r)'
    BY <1>0, <2>2 DEF Alone, Adds
  <2> QED BY <1>0, <2>1, <2>2, <2>3 DEF Adds, Updates
<1>5. CASE InsertSession(r)
  <2>1. Alone(r)
    BY <1>0, <1>5 DEF InsertSession
  <2>2. Alone(r)' /\ Owner(r)' = Owner(r)
    BY <1>0, <1>5, <2>1, StaysAlone, InsertWrites DEF Owner
  <2> QED BY <1>0, <1>5, <2>2, InsertWrites DEF Adds
<1>6. CASE CleanStale(r)
  <2>1. Alone(r) => Alone(r)'
    BY <1>0, <1>6, StaysAlone, CleanWrites
  <2>2. Owner(r)' = Owner(r)
    BY <1>6, CleanWrites DEF Owner
  <2> QED BY <1>0, <1>6, <2>1, <2>2, CleanWrites DEF Adds, Updates
<1> QED BY <1>1, <1>2, <1>3, <1>4, <1>5, <1>6, OtherWrites

\* A commit of another request leaves r alone, and the rows r has written.
LEMMA CommitElsewhere ==
  ASSUME IInv, NEW r \in Requests, NEW q \in Requests, q # r, Commit(q)
  PROVE  Truly(r)'
<1>1. Same(r)
  BY OtherRequest DEF IInv, RequestStep
<1>2. Truly(r)
  BY WritesTruly DEF IInv
<1>3. PICK S \in SUBSET Sids : writes[r] \in [S -> Session]
  BY DEF IInv, TypeOK
<1>4. \A s \in DOMAIN writes[r] : sessions'[s] = sessions[s]
  BY <1>3 DEF IInv, WritesApart, Commit
<1>5. ASSUME Working(r), Alone(r)
      PROVE  Alone(r)'
  <2>1. Owner(q) # Owner(r)
    BY <1>5 DEF IInv, OneAtATime, Commit, Working
  <2>2. ASSUME NEW t \in Sids \ {req[r].sid}, sessions'[t].status = "in_progress",
               sessions'[t].owner = Owner(r)
        PROVE  sessions[t].status = "in_progress" /\ sessions[t].owner = Owner(r)
    <3>1. CASE t \in DOMAIN writes[q]
      <4>1. sessions'[t] = writes[q][t]
        BY <3>1 DEF Commit
      <4> QED BY <2>1, <2>2, <3>1, <4>1, WritesTruly DEF IInv, Truly, WrittenTrue
    <3>2. CASE t \notin DOMAIN writes[q]
      BY <2>2, <3>2 DEF Commit
    <3> QED BY <3>1, <3>2
  <2> QED BY <1>1, <1>5, <2>2 DEF Same, Owner, Alone
<1>6. Owner(r)' = Owner(r)
  BY <1>1 DEF Same, Owner
<1> QED BY <1>1, <1>2, <1>4, <1>5, <1>6 DEF Same, Truly, WrittenTrue, Working

LEMMA WritesTrueStep ==
  ASSUME IInv, Next
  PROVE  WritesTrue'
<1>1. ASSUME NEW r \in Requests, Commit(r)
      PROVE  Truly(r)'
  BY <1>1, Cleared DEF Truly, IInv, Commit
<1>2. ASSUME NEW r \in Requests, Settles
      PROVE  Truly(r)'
  <2>1. PICK S \in SUBSET Sids : writes[r] \in [S -> Session]
    BY DEF IInv, TypeOK
  <2>2. \A s \in DOMAIN writes[r] : sessions'[s] = sessions[s]
    BY <1>2, <2>1 DEF Settles
  <2>3. Alone(r) => Alone(r)'
    BY <1>2 DEF Settles, Alone, Owner
  <2>4. Owner(r)' = Owner(r) /\ Truly(r)
    BY <1>2, WritesTruly DEF Settles, Owner, IInv
  <2> QED BY <1>2, <2>2, <2>3, <2>4 DEF Settles, Truly, WrittenTrue
<1>3. ASSUME NEW r \in Requests, NEW q \in Requests, q # r, RequestStep(q), ~Commit(q)
      PROVE  Truly(r)'
  <2>1. Same(r) /\ UNCHANGED sessions /\ Truly(r)
    BY <1>3, OtherRequest, BeforeCommit, WritesTruly DEF IInv
  <2>2. (Alone(r) <=> Alone(r)') /\ Owner(r)' = Owner(r)
    BY <2>1 DEF Same, Alone, Owner
  <2> QED BY <2>1, <2>2 DEF Same, Truly, WrittenTrue
<1>4. ASSUME NEW r \in Requests
      PROVE  Truly(r)'
  BY <1>1, <1>2, <1>3, OwnWritesTrue, CommitElsewhere, SettleStep DEF IInv, Next
<1> QED BY <1>4 DEF WritesTrue, Truly, WrittenTrue

LEMMA OneActiveStep ==
  ASSUME IInv, Next
  PROVE  OneActivePerDevice'
<1>1. CASE UNCHANGED sessions
  BY <1>1 DEF IInv, OneActivePerDevice
<1>2. CASE Settles
  BY <1>2 DEF IInv, OneActivePerDevice, Settles
<1>3. ASSUME NEW r \in Requests, Commit(r)
      PROVE  OneActivePerDevice'
  <2> DEFINE Old(s) == /\ sessions[s].status = "in_progress"
                       /\ sessions'[s].owner = sessions[s].owner
             New(s) == /\ s = req[r].sid /\ Alone(r)
                       /\ sessions'[s].owner = Owner(r)
  <2>1. ASSUME NEW s \in Sids, sessions'[s].status = "in_progress"
        PROVE  Old(s) \/ New(s)
    <3>1. CASE s \in DOMAIN writes[r]
      <4>1. sessions'[s] = writes[r][s]
        BY <1>3, <3>1 DEF Commit
      <4> QED BY <2>1, <3>1, <4>1, WritesTruly DEF IInv, Truly, WrittenTrue
    <3>2. CASE s \notin DOMAIN writes[r]
      BY <1>3, <2>1, <3>2 DEF Commit
    <3> QED BY <3>1, <3>2
  <2>2. ASSUME NEW s \in Sids, NEW t \in Sids, s # t, New(s), Old(t),
               sessions'[t].status = "in_progress"
        PROVE  sessions'[s].owner # sessions'[t].owner
    <3>1. sessions[t].owner = Owner(r) =>
            t \in DOMAIN writes[r] /\ writes[r][t].status = "abandoned"
      BY <2>2 DEF Alone
    <3> QED BY <1>3, <2>2, <3>1 DEF Commit
  <2>3. ASSUME NEW s \in Sids, NEW t \in Sids, s # t, Old(s), Old(t)
        PROVE  sessions'[s].owner # sessions'[t].owner
    BY <2>3 DEF IInv, OneActivePerDevice
  <2> HIDE DEF Old
  <2> QED BY <2>1, <2>2, <2>3 DEF OneActivePerDevice
<1> QED BY <1>1, <1>2, <1>3, SessionStep DEF IInv

-----------------------------------------------------------------------------
LEMMA InitIInv ==
  ASSUME Init
  PROVE  IInv
<1> USE DEF Init
<1>1. DOMAIN NoWrites = {} /\ \E S \in SUBSET Sids : NoWrites \in [S -> Session]
  <2>1. NoWrites \in [{} -> Session] /\ {} \in SUBSET Sids
    BY DEF NoWrites
  <2> QED BY <2>1 DEF NoWrites
<1>2. TypeOK
  BY <1>1, Outcomes DEF TypeOK
<1>3. Arrays /\ Requested /\ PurgeApart
  BY DEF Arrays, Requested, PurgeApart
<1>4. OneAtATime /\ Guarded /\ RunsGuarded
  BY DEF OneAtATime, Processing, Working, Guarded, RunsGuarded
<1>5. WritesApart /\ WritesTrue
  BY <1>1 DEF WritesApart, WritesTrue
<1>6. OneActivePerDevice
  BY DEF OneActivePerDevice, Absent
<1> QED BY <1>2, <1>3, <1>4, <1>5, <1>6 DEF IInv

LEMMA NextIInv ==
  ASSUME IInv, [Next]_vars
  PROVE  IInv'
<1>1. CASE Next
  BY <1>1, TypeStep, RequestedStep, PurgeApartStep, OneAtATimeStep,
     GuardedStep, RunsGuardedStep, WritesApartStep, WritesTrueStep,
     OneActiveStep DEF IInv
<1>2. CASE UNCHANGED vars
  BY <1>2 DEF vars, IInv, TypeOK, Arrays, Requested, PurgeApart, OneAtATime,
     Processing, Working, Owner, Guarded, Guards, RunsGuarded, WritesApart,
     WritesTrue, Alone, OneActivePerDevice
<1> QED BY <1>1, <1>2

LEMMA Inductive == Spec => []IInv
BY InitIInv, NextIInv, PTL DEF Spec

\* Every variable has its type.
THEOREM TypeCorrect == Spec => []TypeOK
<1>1. IInv => TypeOK
  BY DEF IInv
<1> QED BY <1>1, Inductive, PTL

\* However often a client repeats a push under an idempotency key, and whatever
\* crashes, rollbacks and clean-ups of other requests come between, the batch is
\* processed safely once at most for each life of its guard row (the guard of
\* sync_push).
THEOREM OnceProcessed == Spec => []ProcessedOnce
<1>1. IInv => ProcessedOnce
  BY DEF IInv, RunsGuarded, ProcessedOnce, TypeOK
<1> QED BY <1>1, Inductive, PTL

\* Two sessions of one device are never in progress at the same time, whichever
\* requests, under whichever keys of it, are in flight (the session part of
\* sync_push, under the lock of the device's row).
THEOREM OneActive == Spec => []OneActivePerDevice
<1>1. IInv => OneActivePerDevice
  BY DEF IInv
<1> QED BY <1>1, Inductive, PTL

-----------------------------------------------------------------------------
(* Counts of a session *)

\* What a client does: it pushes a batch under one key and idempotency key, again and
\* again, keeps a session to one device, and does not outlast idempotency_ttl_hours.
NamedByContent ==
  \A p, q \in Sends :
    p.content = q.content /\ OwnerOf[p.key].user = OwnerOf[q.key].user =>
      p.key = q.key /\ p.ik = q.ik /\ q.ik # NoIk
SessionsApart ==
  \A p, q \in Sends :
    /\ OwnerOf[p.key].user = OwnerOf[q.key].user
    /\ q.sid # NoSid /\ p.sid \in {q.sid, NoSid}
    => OwnerOf[p.key] = OwnerOf[q.key]
CleanUploads == ~GuardsExpire /\ NamedByContent /\ SessionsApart

\* A request is one that a client sends; its session is the client's until one is
\* chosen here.
SentAs(r, q) ==
  /\ q.key = req[r].key /\ q.ik = req[r].ik /\ q.content = req[r].content
  /\ q.sid \in {req[r].sid, NoSid}
  /\ pc[r] \in {"auth", "guard", "look", "device", "session"} => q.sid = req[r].sid
IsSent == \A r \in Requests : pc[r] # "idle" => \E q \in Sends : SentAs(r, q)

\* A session's count is right, and it is complete when it is completed.
RowCounted(row, n) ==
  /\ row.done = n
  /\ row.status = "completed" => row.total > 0 /\ row.done >= row.total
Counted(s) ==
  /\ IsFiniteSet(stored[s])
  /\ sessions[s] = Absent => stored[s] = {}
  /\ sessions[s] # Absent =>
       /\ RowCounted(sessions[s], Cardinality(stored[s]))
       /\ \E q \in Sends : OwnerOf[q.key] = sessions[s].owner /\ q.sid \in {s, NoSid}
  /\ \A c \in stored[s] : \E q \in Sends :
       /\ q.content = c /\ OwnerOf[q.key].user = sessions[s].owner.user
       /\ runs[<<q.key, q.ik>>] >= 1

\* A request counts on from what the session still has.
Loaded(r) ==
  pc[r] = "track" /\ snap[r] # Absent =>
    LET s == req[r].sid
    IN /\ snap[r].done = sessions[s].done /\ snap[r].total = sessions[s].total
       /\ sessions[s].owner = Owner(r)

Safe(r) == IF out[r].safe THEN 1 ELSE 0
\* The row of its own session counts its batch; other rows it only ends.
Row(r, s) ==
  IF s = req[r].sid /\ ~writes[r][s].idle
  THEN /\ RowCounted(writes[r][s], Cardinality(stored[s]) + Safe(r))
       /\ writes[r][s].owner = Owner(r)
  ELSE /\ sessions[s] # Absent
       /\ RowCounted(writes[r][s], Cardinality(stored[s]))
       /\ writes[r][s].total = sessions[s].total
Rows(r) == \A s \in DOMAIN writes[r] : Row(r, s)

\* No guard row is deleted between a request's INSERT and its SELECT of it.
Found == \A r \in Requests : pc[r] = "look" => Guards(r) # {}

CountInv ==
  /\ IsSent /\ Found /\ \A r \in Requests : purge[r] = {} /\ Loaded(r) /\ Rows(r)
  /\ \A s \in Sids : Counted(s)
-----------------------------------------------------------------------------
\* Time and the status endpoint do not change a session's count; the latter
\* completes what is complete.
LEMMA SettleCounts ==
  ASSUME TypeOK, \/ \E s \in Sids : GoIdle(s)
                 \/ \E k \in Keys : Finalize(OwnerOf[k].user),
         NEW s \in Sids
  PROVE  \/ sessions'[s] = sessions[s]
         \/ /\ sessions[s] # Absent /\ sessions'[s] # Absent
            /\ \A r \in Requests : s \notin DOMAIN writes[r]
            /\ sessions'[s].done = sessions[s].done
            /\ sessions'[s].total = sessions[s].total
            /\ sessions'[s].owner = sessions[s].owner
            /\ sessions'[s].status = "completed" =>
                 sessions[s].status = "completed"
                   \/ Complete(sessions[s].total, sessions[s].done)
<1>1. ASSUME NEW t \in Sids, GoIdle(t), s = t
      PROVE  /\ sessions'[s].done = sessions[s].done
             /\ sessions'[s].total = sessions[s].total
             /\ sessions'[s].status = sessions[s].status
  <2>1. sessions[s] \in Session
    BY <1>1, SessionFields DEF GoIdle
  <2>2. PICK x : x = [sessions[s] EXCEPT !.idle = TRUE]
    OBVIOUS
  <2>3. x.done = sessions[s].done /\ x.total = sessions[s].total /\ x.status = sessions[s].status
    BY <2>1, <2>2 DEF Session
  <2>4. sessions'[s] = x
    BY <1>1, <2>2 DEF GoIdle, TypeOK
  <2> QED BY <2>3, <2>4
<1>2. ASSUME NEW t \in Sids, GoIdle(t), s # t
      PROVE  sessions'[s] = sessions[s]
  BY <1>2 DEF GoIdle, TypeOK
<1>3. ASSUME NEW k \in Keys, Finalize(OwnerOf[k].user), sessions'[s] # sessions[s]
      PROVE  /\ sessions'[s].done = sessions[s].done
             /\ sessions'[s].total = sessions[s].total
             /\ Complete(sessions[s].total, sessions[s].done)
  <2>1. /\ sessions[s].status = "in_progress"
        /\ Complete(sessions[s].total, sessions[s].done)
        /\ sessions'[s] = End(s, "completed")
    BY <1>3 DEF Finalize
  <2>2. sessions[s] \in Session
    BY <2>1, SessionFields
  <2> QED BY <2>1, <2>2 DEF End, Session
<1>4. Settles
  BY SettleStep
<1> QED BY <1>1, <1>2, <1>3, <1>4 DEF Settles

\* What a request asks changes only in the session that it chooses, and in the
\* guard row that was deleted before it was read.
LEMMA StaysAsked ==
  ASSUME IInv, NEW r \in Requests, RequestStep(r), pc'[r] # "idle"
  PROVE  \/ Send(r)
         \/ /\ req'[r] = req[r] /\ pc[r] # "idle"
            /\ pc'[r] \in {"auth", "guard", "look", "device", "session"} =>
                 pc[r] \in {"auth", "guard", "look", "device", "session"}
         \/ AbandonPrior(r)
         \/ pc[r] = "look" /\ Guards(r) = {}
<1> USE DEF IInv, TypeOK, Arrays, Goto
<1>1. ~Discard(r) /\ ~Reset(r)
  BY Cleared
<1>2. CASE Send(r) \/ Authenticate(r) \/ TouchDevice(r) \/ LoseTracking(r)
  BY <1>2 DEF Authenticate, TouchDevice, LoseTracking
<1>3. CASE CheckGuard(r) \/ ReadGuard(r) \/ FindSession(r)
  BY <1>1, <1>3 DEF CheckGuard, ReadGuard, FindSession
<1>4. CASE UpdateSession(r) \/ InsertSession(r) \/ SessionFails(r) \/ AbandonPrior(r)
  BY <1>4 DEF UpdateSession, InsertSession, SessionFails
<1>5. CASE PurgeGuards(r) \/ CleanStale(r) \/ SkipCleanup(r)
  BY <1>5 DEF PurgeGuards, CleanStale, SkipCleanup
<1>6. CASE EndReplay(r) \/ Abort(r) \/ Commit(r)
  BY <1>1, <1>6 DEF EndReplay, Abort, Commit
<1> QED BY <1>2, <1>3, <1>4, <1>5, <1>6 DEF RequestStep

\* The session that a push without one gets.
LEMMA ChoosesSession ==
  ASSUME IInv, NEW r \in Requests, AbandonPrior(r)
  PROVE  /\ req'[r].key = req[r].key /\ req'[r].ik = req[r].ik
         /\ req'[r].content = req[r].content /\ req'[r].total = req[r].total
         /\ req'[r].sid = req[r].sid \/ req[r].sid = NoSid
         /\ pc'[r] = "insert" /\ pc[r] = "track"
<1>1. PICK new \in Sids :
        /\ req[r].sid # NoSid => new = req[r].sid
        /\ req' = [req EXCEPT ![r].sid = new]
  BY DEF AbandonPrior
<1>2. Asked(req[r]) /\ pc'[r] = "insert" /\ pc[r] = "track"
  BY DEF AbandonPrior, IInv, Requested, TypeOK, Goto
<1>3. PICK x : x = [req[r] EXCEPT !.sid = new]
  OBVIOUS
<1>4. req'[r] = x
  BY <1>1, <1>3 DEF IInv, Arrays
<1>5. /\ x.key = req[r].key /\ x.ik = req[r].ik /\ x.content = req[r].content
      /\ x.total = req[r].total /\ x.sid = new
  BY <1>2, <1>3 DEF Asked
<1> QED BY <1>1, <1>2, <1>4, <1>5

LEMMA Looks ==
  ASSUME IInv, NEW r \in Requests, RequestStep(r), pc'[r] = "look"
  PROVE  Guards(r) # {} /\ req'[r] = req[r]
<1> USE DEF IInv, TypeOK, Goto
<1>1. ~Discard(r) /\ ~Reset(r)
  BY Cleared
<1>2. CASE CheckGuard(r)
  BY <1>1, <1>2 DEF CheckGuard
<1>3. CASE ReadGuard(r)
  BY <1>1, <1>3 DEF ReadGuard
<1>4. CASE ~CheckGuard(r) /\ ~ReadGuard(r)
  BY <1>1, <1>4
     DEF RequestStep, Send, Authenticate, TouchDevice, FindSession, LoseTracking,
         UpdateSession, AbandonPrior, InsertSession, SessionFails, PurgeGuards, CleanStale,
         SkipCleanup, Commit, EndReplay, Abort
<1> QED BY <1>2, <1>3, <1>4

LEMMA SentStep ==
  ASSUME IInv, IsSent, Found, Next
  PROVE  IsSent'
<1> SUFFICES ASSUME NEW r \in Requests, pc'[r] # "idle"
             PROVE  \E q \in Sends : SentAs(r, q)'
  BY DEF IsSent
<1>1. CASE Same(r)
  BY <1>1 DEF IsSent, SentAs, Same
<1>2. CASE Send(r)
  BY <1>2 DEF IInv, Arrays, Send, SentAs
<1>3. CASE /\ req'[r] = req[r] /\ pc[r] # "idle"
           /\ pc'[r] \in {"auth", "guard", "look", "device", "session"} =>
                pc[r] \in {"auth", "guard", "look", "device", "session"}
  BY <1>3 DEF IsSent, SentAs
<1>4. CASE AbandonPrior(r)
  <2>1. PICK q \in Sends : SentAs(r, q)
    BY <1>4, ChoosesSession DEF IsSent
  <2> QED BY <1>4, <2>1, ChoosesSession DEF SentAs
<1> QED BY <1>1, <1>2, <1>3, <1>4, Stepped, StaysAsked DEF IInv, Found

LEMMA FoundStep ==
  ASSUME IInv, Found, \A r \in Requests : purge[r] = {}, Next
  PROVE  Found'
<1> SUFFICES ASSUME NEW r \in Requests, pc'[r] = "look"
             PROVE  Guards(r)' # {}
  BY DEF Found
<1>1. Guards(r) # {} /\ req'[r] = req[r]
  <2>1. CASE Same(r)
    BY <2>1 DEF Found, Same
  <2>2. CASE RequestStep(r)
    BY <2>2, Looks
  <2> QED BY <2>1, <2>2, Stepped DEF IInv
<1>2. guard \subseteq guard'
  <2>1. ASSUME NEW q \in Requests, Commit(q)
        PROVE  guard \subseteq guard'
    BY <2>1 DEF Commit
  <2> QED BY <2>1, GuardStep
<1> QED BY <1>1, <1>2 DEF Guards

LEMMA PurgesNone ==
  ASSUME IInv, ~GuardsExpire, Next, NEW r \in Requests, purge[r] = {}
  PROVE  purge'[r] = {}
<1>1. CASE Same(r)
  BY <1>1 DEF Same
<1>2. CASE Discard(r) \/ Reset(r)
  BY <1>2, Cleared DEF IInv
<1>3. CASE RequestStep(r) /\ ~Discard(r) /\ ~Reset(r)
  <2>1. CASE PurgeGuards(r)
    BY <2>1 DEF PurgeGuards, IInv, Arrays
  <2>2. CASE ~PurgeGuards(r)
    <3>1. UNCHANGED purge
      BY <1>3, <2>2
         DEF RequestStep, Send, Authenticate, CheckGuard, ReadGuard, TouchDevice, FindSession,
             LoseTracking, UpdateSession, AbandonPrior, InsertSession, SessionFails,
             CleanStale, SkipCleanup, Commit, EndReplay, Abort
    <3> QED BY <3>1
  <2> QED BY <2>1, <2>2
<1> QED BY <1>1, <1>2, <1>3, Stepped DEF IInv

\* A session found is of the request's device.
LEMMA FindsOwn ==
  ASSUME IInv, CleanUploads, CountInv, NEW r \in Requests, FindSession(r),
         pc'[r] = "track", snap'[r] # Absent
  PROVE  /\ snap'[r] = sessions[req[r].sid] /\ sessions[req[r].sid].owner = Owner(r)
         /\ UNCHANGED <<sessions, req>>
<1>1. ~Discard(r)
  BY Cleared DEF IInv
<1> DEFINE s == req[r].sid
<1>2. /\ s # NoSid /\ snap'[r] = sessions[s] /\ UNCHANGED <<sessions, req>>
      /\ sessions[s].owner.user = Owner(r).user
  BY <1>1 DEF FindSession, Resumable, IInv, Arrays
<1>3. pc[r] = "session" /\ Asked(req[r])
  BY DEF FindSession, IInv, Requested
<1>4. s \in Sids /\ sessions[s] # Absent
  BY <1>2, <1>3 DEF Asked
<1>5. PICK q \in Sends : SentAs(r, q)
  BY <1>3 DEF CountInv, IsSent
<1>6. PICK p \in Sends : OwnerOf[p.key] = sessions[s].owner /\ p.sid \in {s, NoSid}
  BY <1>4 DEF CountInv, Counted
<1>7. q.sid = s /\ OwnerOf[q.key] = Owner(r)
  BY <1>3, <1>5 DEF SentAs, Owner
<1>8. OwnerOf[p.key] = OwnerOf[q.key]
  BY <1>2, <1>6, <1>7 DEF CleanUploads, SessionsApart
<1> QED BY <1>2, <1>6, <1>7, <1>8

LEMMA Tracks ==
  ASSUME IInv, NEW r \in Requests, RequestStep(r), pc'[r] = "track"
  PROVE  FindSession(r)
<1> USE DEF IInv, TypeOK, Goto
<1>1. ~Discard(r) /\ ~Reset(r)
  BY Cleared
<1>2. CASE CheckGuard(r) \/ ReadGuard(r)
  BY <1>1, <1>2 DEF CheckGuard, ReadGuard
<1>3. CASE ~CheckGuard(r) /\ ~ReadGuard(r)
  BY <1>1, <1>3
     DEF RequestStep, Send, Authenticate, TouchDevice, LoseTracking, UpdateSession,
         AbandonPrior, InsertSession, SessionFails, PurgeGuards, CleanStale, SkipCleanup,
         Commit, EndReplay, Abort
<1> QED BY <1>2, <1>3

\* A commit of another request does not count on a session that r has loaded.
LEMMA CommitsElsewhere ==
  ASSUME IInv, CountInv, NEW r \in Requests, NEW q \in Requests, q # r, Commit(q),
         pc[r] = "track", snap[r] # Absent
  PROVE  /\ sessions'[req[r].sid].done = sessions[req[r].sid].done
         /\ sessions'[req[r].sid].total = sessions[req[r].sid].total
         /\ sessions'[req[r].sid].owner = sessions[req[r].sid].owner
<1> DEFINE s == req[r].sid
<1>1. s \in Sids /\ sessions[s] # Absent
  BY DEF IInv, Requested
<1>2. CASE s \notin DOMAIN writes[q]
  BY <1>1, <1>2 DEF Commit
<1>3. CASE s \in DOMAIN writes[q]
  <2>1. sessions'[s] = writes[q][s]
    BY <1>1, <1>3 DEF Commit
  <2>2. writes[q][s].owner = sessions[s].owner /\ Row(q, s)
    BY <1>1, <1>3 DEF IInv, WritesTrue, CountInv, Rows
  <2>3. Owner(q) # Owner(r)
    BY DEF IInv, OneAtATime, Working, Commit
  <2>4. sessions[s].owner = Owner(r)
    BY DEF CountInv, Loaded
  <2>5. ~(s = req[q].sid /\ ~writes[q][s].idle)
    BY <2>2, <2>3, <2>4 DEF Row
  <2>6. sessions[s].done = Cardinality(stored[s])
    BY <1>1 DEF CountInv, Counted, RowCounted
  <2> QED BY <2>1, <2>2, <2>5, <2>6 DEF Row, RowCounted
<1> QED BY <1>2, <1>3

LEMMA LoadedStep ==
  ASSUME IInv, CleanUploads, CountInv, Next, NEW r \in Requests
  PROVE  Loaded(r)'
<1> SUFFICES ASSUME pc'[r] = "track", snap'[r] # Absent
             PROVE  /\ snap'[r].done = sessions'[req'[r].sid].done
                    /\ snap'[r].total = sessions'[req'[r].sid].total
                    /\ sessions'[req'[r].sid].owner = Owner(r)'
  BY DEF Loaded
<1>1. CASE RequestStep(r)
  BY <1>1, Tracks, FindsOwn DEF Owner
<1>2. CASE Same(r)
  <2> DEFINE s == req[r].sid
  <2>1. /\ pc[r] = "track" /\ snap[r] # Absent /\ req'[r] = req[r] /\ snap'[r] = snap[r]
        /\ Owner(r)' = Owner(r) /\ s \in Sids
    BY <1>2 DEF Same, Owner, IInv, Requested
  <2>2. Loaded(r)
    BY DEF CountInv
  <2>3. /\ sessions'[s].done = sessions[s].done
        /\ sessions'[s].total = sessions[s].total
        /\ sessions'[s].owner = sessions[s].owner
    <3>1. CASE UNCHANGED sessions
      BY <3>1
    <3>2. CASE \/ \E t \in Sids : GoIdle(t)
               \/ \E k \in Keys : Finalize(OwnerOf[k].user)
      BY <2>1, <3>2, SettleCounts DEF IInv
    <3>3. ASSUME NEW q \in Requests, Commit(q)
          PROVE  /\ sessions'[s].done = sessions[s].done
                 /\ sessions'[s].total = sessions[s].total
                 /\ sessions'[s].owner = sessions[s].owner
      <4>1. q # r
        BY <2>1, <3>3 DEF Commit
      <4> QED BY <2>1, <3>3, <4>1, CommitsElsewhere
    <3>4. ASSUME NEW q \in Requests, RequestStep(q), ~Commit(q)
          PROVE  UNCHANGED sessions
      BY <3>4, BeforeCommit
    <3> QED BY <3>1, <3>2, <3>3, <3>4 DEF Next
  <2> QED BY <2>1, <2>2, <2>3 DEF Loaded
<1> QED BY <1>1, <1>2, Stepped DEF IInv

\* A row stays right while its request and its session stay.
LEMMA RowStays ==
  ASSUME NEW r \in Requests, NEW s \in Sids, Row(r, s), s \in DOMAIN writes[r],
         writes'[r][s] = writes[r][s], req'[r] = req[r], out'[r] = out[r],
         sessions'[s] = sessions[s], stored'[s] = stored[s]
  PROVE  Row(r, s)'
BY DEF Row, RowCounted, Safe, Owner

\* A session that is ended keeps its count.
LEMMA RowEnds ==
  ASSUME IInv, CountInv, NEW r \in Requests, NEW s \in Sids,
         sessions[s].status = "in_progress", UNCHANGED <<sessions, stored>>,
         writes'[r][s] = End(s, "abandoned"), s # req'[r].sid \/ sessions[s].idle
  PROVE  Row(r, s)'
<1>1. sessions[s] \in Session /\ sessions[s] # Absent
  BY SessionFields DEF IInv
<1>2. PICK x : x = End(s, "abandoned")
  OBVIOUS
<1>3. /\ x.done = sessions[s].done /\ x.total = sessions[s].total
      /\ x.status = "abandoned" /\ x.idle = sessions[s].idle
  BY <1>1, <1>2 DEF End, Session
<1>4. sessions[s].done = Cardinality(stored[s])
  BY <1>1 DEF CountInv, Counted, RowCounted
<1> QED BY <1>1, <1>2, <1>3, <1>4 DEF Row, RowCounted

LEMMA CountIs ==
  ASSUME CountInv, NEW s \in Sids
  PROVE  /\ Cardinality(stored[s]) \in Nat
         /\ stored[s] = {} => Cardinality(stored[s]) = 0
BY FS_CardinalityType, FS_EmptySet DEF CountInv, Counted

LEMMA RowUpdated ==
  ASSUME IInv, CountInv, NEW r \in Requests, UpdateSession(r)
  PROVE  \A s \in DOMAIN writes'[r] : Row(r, s)'
<1>0. PICK s : s = req[r].sid
  OBVIOUS
<1>1. PICK o \in Outcome :
        /\ out' = [out EXCEPT ![r] = o]
        /\ Write(r, [x \in {req[r].sid} |->
             [sessions[req[r].sid] EXCEPT
                !.done = NextDone(r, o), !.idle = FALSE,
                !.total = IF snap[r].total = 0 THEN req[r].total ELSE @,
                !.status = IF Finishes(r, o) THEN "completed" ELSE @]])
  BY DEF UpdateSession
<1>2. PICK row : row = [sessions[req[r].sid] EXCEPT
                !.done = NextDone(r, o), !.idle = FALSE,
                !.total = IF snap[r].total = 0 THEN req[r].total ELSE @,
                !.status = IF Finishes(r, o) THEN "completed" ELSE @]
  OBVIOUS
<1>3. /\ row \in Session /\ s \in Sids /\ sessions[s] # Absent
      /\ pc[r] = "track" /\ snap[r] # Absent
  BY <1>0, <1>2, WrittenTypes DEF UpdateSession, Working, IInv, Requested
<1>4. sessions[s] \in Session /\ snap[r] \in Session
  BY <1>3 DEF IInv, TypeOK
<1>5. /\ row.done = NextDone(r, o) /\ ~row.idle /\ row.owner = sessions[s].owner
      /\ row.total = IF snap[r].total = 0 THEN req[r].total ELSE sessions[s].total
      /\ row.status = IF Finishes(r, o) THEN "completed" ELSE sessions[s].status
  BY <1>0, <1>2, <1>4 DEF Session
<1>6. Write(r, One(s, row))
  BY <1>0, <1>1, <1>2 DEF One
<1>7. DOMAIN writes'[r] = {s} /\ writes'[r][s] = row
  <2>1. DOMAIN writes[r] = {}
    BY <1>3, Unwritten
  <2> QED BY <1>3, <1>6, <2>1, WriteOne
<1>8. /\ out'[r] = o /\ req'[r] = req[r] /\ stored' = stored /\ sessions' = sessions
      /\ Owner(r)' = Owner(r)
  BY <1>1 DEF IInv, Arrays, UpdateSession, Owner
<1>9. /\ snap[r].done = sessions[s].done /\ snap[r].total = sessions[s].total
      /\ sessions[s].owner = Owner(r)
      /\ RowCounted(sessions[s], Cardinality(stored[s]))
  BY <1>0, <1>3 DEF CountInv, Loaded, Counted
<1>10. row.done = Cardinality(stored[s]) + IF o.safe THEN 1 ELSE 0
  BY <1>3, <1>5, <1>9 DEF NextDone, RowCounted
<1>11. row.status = "completed" => row.total > 0 /\ row.done >= row.total
  <2>1. CASE Finishes(r, o)
    <3>1. EffectiveTotal(r) = row.total
      BY <1>3, <1>5, <1>9 DEF EffectiveTotal
    <3> QED BY <1>5, <2>1, <3>1 DEF Finishes, Complete
  <2>2. CASE ~Finishes(r, o)
    <3>1. ASSUME row.status = "completed"
          PROVE  row.total > 0 /\ row.done >= row.total
      <4>1. sessions[s].total > 0 /\ sessions[s].done >= sessions[s].total
        BY <1>5, <2>2, <3>1, <1>9 DEF RowCounted
      <4>2. sessions[s].done = Cardinality(stored[s])
        BY <1>9 DEF RowCounted
      <4>3. row.total = sessions[s].total /\ row.done >= sessions[s].done
        <5>1. snap[r].total # 0 /\ sessions[s].total \in Nat /\ sessions[s].done \in Nat
          BY <1>4, <1>9, <4>1 DEF Session
        <5> QED BY <1>5, <1>10, <4>2, <5>1
      <4>4. sessions[s].total \in Nat /\ sessions[s].done \in Nat /\ row.done \in Nat
        BY <1>3, <1>4 DEF Session
      <4> QED BY <4>1, <4>3, <4>4
    <3> QED BY <3>1
  <2> QED BY <2>1, <2>2
<1>12. Row(r, s)'
  <2>1. s = req'[r].sid /\ ~writes'[r][s].idle
    BY <1>0, <1>5, <1>7, <1>8
  <2>2. RowCounted(row, Cardinality(stored[s]) + Safe(r)')
    BY <1>8, <1>10, <1>11 DEF RowCounted, Safe
  <2> QED BY <1>5, <1>7, <1>8, <1>9, <2>1, <2>2 DEF Row, RowCounted
<1> QED BY <1>7, <1>12

LEMMA RowInserted ==
  ASSUME IInv, CountInv, NEW r \in Requests, InsertSession(r)
  PROVE  \A s \in DOMAIN writes'[r] : Row(r, s)'
<1>0. PICK s : s = req[r].sid
  OBVIOUS
<1>1. PICK row : row = [status |-> IF Finishes(r, out[r]) THEN "completed"
                                   ELSE "in_progress",
                        owner |-> Owner(r), total |-> req[r].total,
                        done |-> NextDone(r, out[r]), idle |-> FALSE]
  OBVIOUS
<1>2. /\ row \in Session /\ s \in Sids /\ Write(r, One(s, row))
      /\ snap[r] = Absent /\ sessions[s] = Absent /\ s \notin DOMAIN writes[r]
  BY <1>0, <1>1, WrittenTypes
     DEF InsertSession, Working, IInv, Requested, One, WritesTrue
<1>3. /\ DOMAIN writes'[r] = DOMAIN writes[r] \cup {s}
      /\ writes'[r][s] = row
      /\ \A t \in DOMAIN writes[r] \ {s} : writes'[r][t] = writes[r][t]
  BY <1>2, WriteOne
<1>4. /\ out'[r] = out[r] /\ req'[r] = req[r] /\ stored' = stored /\ sessions' = sessions
      /\ Owner(r)' = Owner(r)
  BY DEF InsertSession, Owner
<1>5. stored[s] = {} /\ Cardinality(stored[s]) = 0
  BY <1>2, CountIs DEF CountInv, Counted
<1>6. row.done = Safe(r)
  BY <1>1, <1>2 DEF NextDone, Safe
<1>7. row.status = "completed" => row.total > 0 /\ row.done >= row.total
  <2>1. row.status = "completed" => Finishes(r, out[r])
    BY <1>1
  <2>2. EffectiveTotal(r) = row.total /\ NextDone(r, out[r]) = row.done
    BY <1>1, <1>2 DEF EffectiveTotal
  <2> QED BY <2>1, <2>2 DEF Finishes, Complete
<1>8. Row(r, s)'
  <2>1. s = req'[r].sid /\ ~writes'[r][s].idle /\ row.owner = Owner(r)
    BY <1>0, <1>1, <1>3, <1>4
  <2>2. RowCounted(row, Cardinality(stored[s]) + Safe(r)')
    BY <1>4, <1>5, <1>6, <1>7 DEF RowCounted, Safe
  <2> QED BY <1>3, <1>4, <2>1, <2>2 DEF Row, RowCounted
<1>9. ASSUME NEW t \in DOMAIN writes[r]
      PROVE  Row(r, t)'
  <2>1. t # s /\ Row(r, t)
    BY <1>2 DEF CountInv, Rows
  <2>2. t \in Sids
    BY DEF IInv, TypeOK
  <2> QED BY <1>3, <1>4, <2>1, <2>2, RowStays
<1> QED BY <1>3, <1>8, <1>9

LEMMA RowsAbandoned ==
  ASSUME IInv, CountInv, NEW r \in Requests, AbandonPrior(r)
  PROVE  \A s \in DOMAIN writes'[r] : Row(r, s)'
<1>1. PICK new \in Sids :
        /\ req' = [req EXCEPT ![r].sid = new]
        /\ Write(r, [s \in Prior(r, new) |-> End(s, "abandoned")])
  BY DEF AbandonPrior
<1>2. PICK S : S = Prior(r, new)
  OBVIOUS
<1>3. /\ [s \in S |-> End(s, "abandoned")] \in [S -> Session] /\ S \in SUBSET Sids
      /\ \A s \in S : sessions[s].status = "in_progress" /\ s # new
  BY <1>2, EndType DEF Prior
<1>4. DOMAIN writes[r] = {}
  BY Unwritten DEF AbandonPrior
<1>5. /\ DOMAIN writes'[r] = DOMAIN writes[r] \cup S
      /\ \A s \in S : writes'[r][s] = [t \in S |-> End(t, "abandoned")][s]
  BY <1>1, <1>2, <1>3, WriteType DEF IInv
<1>6. \A s \in S : writes'[r][s] = End(s, "abandoned")
  BY <1>5
<1>7. req'[r].sid = new /\ UNCHANGED <<sessions, stored>>
  <2>1. Asked(req[r])
    BY DEF AbandonPrior, IInv, Requested
  <2> QED BY <1>1, <2>1 DEF IInv, Arrays, Asked, AbandonPrior
<1> QED BY <1>3, <1>4, <1>5, <1>6, <1>7, RowEnds

LEMMA RowsCleaned ==
  ASSUME IInv, CountInv, NEW r \in Requests, CleanStale(r)
  PROVE  \A s \in DOMAIN writes'[r] : Row(r, s)'
<1>1. PICK S : S = Stale(r)
  OBVIOUS
<1>2. /\ [s \in S |-> End(s, "abandoned")] \in [S -> Session] /\ S \in SUBSET Sids
      /\ \A s \in S : /\ sessions[s].status = "in_progress" /\ sessions[s].idle
                      /\ s \notin DOMAIN writes[r]
  BY <1>1, EndType DEF Stale
<1>3. Write(r, [s \in S |-> End(s, "abandoned")])
  BY <1>1 DEF CleanStale
<1>4. /\ DOMAIN writes'[r] = DOMAIN writes[r] \cup S
      /\ \A s \in S : writes'[r][s] = [t \in S |-> End(t, "abandoned")][s]
      /\ \A s \in DOMAIN writes[r] \ S : writes'[r][s] = writes[r][s]
  BY <1>2, <1>3, WriteType DEF IInv
<1>5. \A s \in S : writes'[r][s] = End(s, "abandoned")
  BY <1>4
<1>6. req'[r] = req[r] /\ out'[r] = out[r] /\ UNCHANGED <<sessions, stored>>
  BY DEF CleanStale
<1>7. ASSUME NEW s \in S
      PROVE  Row(r, s)'
  BY <1>2, <1>5, <1>6, <1>7, RowEnds
<1>8. ASSUME NEW s \in DOMAIN writes[r]
      PROVE  Row(r, s)'
  <2>1. s \notin S /\ s \in Sids
    BY <1>2 DEF IInv, TypeOK
  <2>2. Row(r, s)
    BY DEF CountInv, Rows
  <2> QED BY <1>4, <1>6, <2>1, <2>2, RowStays
<1> QED BY <1>4, <1>7, <1>8

\* A request that keeps rows has its outcome already.
LEMMA OutKept ==
  ASSUME IInv, NEW r \in Requests, RequestStep(r), Keeps(r), DOMAIN writes[r] # {},
         ~UpdateSession(r), ~AbandonPrior(r)
  PROVE  out'[r] = out[r]
<1> USE DEF IInv, TypeOK, Goto
<1>1. pc[r] \in {"insert", "store", "clean", "done"}
  BY Unwritten
<1>2. ~Discard(r) /\ ~Reset(r)
  BY Cleared DEF Keeps
<1>3. CASE SessionFails(r)
  BY <1>1, <1>3 DEF SessionFails
<1> QED BY <1>1, <1>2, <1>3
        DEF RequestStep, Send, Authenticate, CheckGuard, ReadGuard, TouchDevice, FindSession,
            LoseTracking, InsertSession, PurgeGuards, CleanStale, SkipCleanup, Commit,
            EndReplay, Abort

LEMMA RowsStep ==
  ASSUME IInv, CountInv, Next, NEW r \in Requests
  PROVE  Rows(r)'
<1> SUFFICES \A s \in DOMAIN writes'[r] : Row(r, s)'
  BY DEF Rows
<1>0. \A s \in DOMAIN writes[r] : Row(r, s) /\ s \in Sids
  BY DEF CountInv, Rows, IInv, TypeOK
<1>1. CASE RequestStep(r)
  <2>1. CASE Clears(r)
    BY <2>1 DEF Clears
  <2>2. CASE UpdateSession(r) \/ InsertSession(r) \/ AbandonPrior(r) \/ CleanStale(r)
    BY <2>2, RowUpdated, RowInserted, RowsAbandoned, RowsCleaned
  <2>3. CASE /\ Keeps(r) /\ req'[r] = req[r] /\ DOMAIN writes[r] # {}
             /\ ~UpdateSession(r) /\ ~AbandonPrior(r)
    <3>1. CASE Commit(r)
      BY <3>1, Cleared DEF IInv, Commit
    <3>2. CASE ~Commit(r)
      <4>1. out'[r] = out[r] /\ UNCHANGED <<sessions, stored>>
        BY <1>1, <2>3, <3>2, OutKept, BeforeCommit
      <4>2. ASSUME NEW s \in DOMAIN writes[r]
            PROVE  Row(r, s)'
        BY <1>0, <2>3, <4>1, RowStays DEF Keeps
      <4> QED BY <2>3, <4>2 DEF Keeps
    <3> QED BY <3>1, <3>2
  <2> QED BY <1>1, <2>1, <2>2, <2>3, OtherWrites
<1>2. CASE Same(r)
  <2>1. ASSUME NEW s \in DOMAIN writes[r]
        PROVE  sessions'[s] = sessions[s] /\ stored'[s] = stored[s]
    <3>0. s \in Sids
      BY <1>0
    <3>1. CASE \/ \E t \in Sids : GoIdle(t)
               \/ \E k \in Keys : Finalize(OwnerOf[k].user)
      BY <3>0, <3>1, SettleCounts DEF IInv, GoIdle, Finalize
    <3>2. ASSUME NEW q \in Requests, Commit(q)
          PROVE  sessions'[s] = sessions[s] /\ stored'[s] = stored[s]
      <4>1. CASE q = r
        BY <1>2, <3>2, <4>1, Cleared DEF Same, IInv, Commit
      <4>2. CASE q # r
        <5>1. s \notin DOMAIN writes[q]
          BY <2>1, <4>2 DEF IInv, WritesApart
        <5>2. Tracked(q) => s # req[q].sid
          BY <5>1 DEF Tracked
        <5> QED BY <3>0, <3>2, <5>1, <5>2 DEF Commit, IInv, TypeOK
      <4> QED BY <4>1, <4>2
    <3>3. ASSUME NEW q \in Requests, RequestStep(q), ~Commit(q)
          PROVE  sessions'[s] = sessions[s] /\ stored'[s] = stored[s]
      BY <3>3, BeforeCommit
    <3> QED BY <3>1, <3>2, <3>3 DEF Next
  <2>2. ASSUME NEW s \in DOMAIN writes[r]
        PROVE  Row(r, s)'
    BY <1>0, <1>2, <2>1, <2>2, RowStays DEF Same
  <2> QED BY <1>2, <2>2 DEF Same
<1> QED BY <1>1, <1>2, Stepped DEF IInv

\* A safe push of a session's is of a batch that it has not stored before: it would
\* have run under the same guard.
LEMMA NotStoredYet ==
  ASSUME IInv, IInv', CleanUploads, CountInv, NEW r \in Requests, Commit(r),
         Tracked(r), out[r].safe
  PROVE  req[r].content \notin stored[req[r].sid]
<1> SUFFICES ASSUME req[r].content \in stored[req[r].sid]
             PROVE  FALSE
  OBVIOUS
<1>0. PICK s : s = req[r].sid
  OBVIOUS
<1>1. s \in DOMAIN writes[r] /\ ~writes[r][s].idle /\ s \in Sids
  BY <1>0 DEF Tracked, IInv, TypeOK
<1>2. writes[r][s].owner = Owner(r)
  BY <1>0, <1>1 DEF CountInv, Rows, Row
<1>3. sessions[s] # Absent
  BY <1>0, <1>1 DEF CountInv, Counted
<1>4. sessions[s].owner = Owner(r)
  BY <1>1, <1>2, <1>3 DEF IInv, WritesTrue
<1>5. PICK p \in Sends : /\ p.content = req[r].content
                         /\ OwnerOf[p.key].user = Owner(r).user
                         /\ runs[<<p.key, p.ik>>] >= 1
  <2>1. Counted(s)
    BY <1>1 DEF CountInv
  <2>2. \A c \in stored[s] : \E q \in Sends :
          /\ q.content = c /\ OwnerOf[q.key].user = sessions[s].owner.user
          /\ runs[<<q.key, q.ik>>] >= 1
    BY <2>1, Zenon DEF Counted
  <2> QED BY <1>0, <1>4, <2>2, Zenon
<1>6. PICK q \in Sends : SentAs(r, q)
  BY DEF CountInv, IsSent, Commit
<1>7. p.key = req[r].key /\ p.ik = req[r].ik /\ req[r].ik # NoIk
  BY <1>5, <1>6 DEF SentAs, Owner, CleanUploads, NamedByContent
<1>8. PICK g \in Keys \X Iks : g = <<req[r].key, req[r].ik>>
  BY <1>7 DEF IInv, Requested, Asked, Commit
<1>9. runs'[g] = runs[g] + 1
  <2>1. purge[r] = {}
    BY DEF CountInv
  <2> QED BY <1>8, <2>1 DEF Commit
<1>10. runs[g] >= 1 /\ runs[g] \in Nat /\ g[2] # NoIk
  BY <1>5, <1>7, <1>8 DEF IInv, TypeOK
<1>11. runs'[g] \in {0, 1}
  BY <1>8, <1>10 DEF IInv, RunsGuarded
<1> QED BY <1>9, <1>10, <1>11

\* What stays stored has run.
LEMMA RunsGrow ==
  ASSUME IInv, CountInv, Next, NEW g \in Keys \X Iks
  PROVE  runs'[g] \in Nat /\ runs'[g] >= runs[g]
<1>1. runs[g] \in Nat
  BY DEF IInv, TypeOK
<1>2. ASSUME NEW r \in Requests, Commit(r)
      PROVE  runs'[g] \in Nat /\ runs'[g] >= runs[g]
  <2>1. purge[r] = {}
    BY DEF CountInv
  <2>2. runs'[g] \in {runs[g], runs[g] + 1}
    BY <1>2, <2>1 DEF Commit
  <2> QED BY <1>1, <2>2
<1>3. ASSUME NEW r \in Requests, RequestStep(r), ~Commit(r)
      PROVE  runs' = runs
  BY <1>3, BeforeCommit
<1>4. ASSUME Settles
      PROVE  runs' = runs
  BY <1>4 DEF Settles
<1> QED BY <1>1, <1>2, <1>3, <1>4, SettleStep DEF IInv, Next

\* Right counts stay right as sessions settle and guards run on.
LEMMA CountedStays ==
  ASSUME IInv, CountInv, Next, NEW s \in Sids, stored'[s] = stored[s],
         sessions[s] = Absent => sessions'[s] = Absent,
         sessions[s] # Absent =>
           /\ sessions'[s] # Absent /\ sessions'[s].owner = sessions[s].owner
           /\ RowCounted(sessions'[s], Cardinality(stored[s]))
  PROVE  Counted(s)'
<1>1. Counted(s)
  BY DEF CountInv
<1>2. ASSUME NEW c \in stored[s]
      PROVE  \E q \in Sends :
               /\ q.content = c /\ OwnerOf[q.key].user = sessions'[s].owner.user
               /\ runs'[<<q.key, q.ik>>] >= 1
  <2>1. PICK q \in Sends :
          /\ q.content = c /\ OwnerOf[q.key].user = sessions[s].owner.user
          /\ runs[<<q.key, q.ik>>] >= 1
    BY <1>1, Zenon DEF Counted
  <2>2. PICK g \in Keys \X Iks : g = <<q.key, q.ik>>
    BY PushSessionAssumption DEF Iks
  <2>3. sessions[s] # Absent
    BY <1>1 DEF Counted
  <2>4. runs'[g] >= 1
    <3>1. runs[g] >= 1 /\ runs[g] \in Nat
      BY <2>1, <2>2 DEF IInv, TypeOK
    <3> QED BY <3>1, RunsGrow
  <2> QED BY <2>1, <2>2, <2>3, <2>4
<1>3. /\ IsFiniteSet(stored[s])
      /\ sessions[s] = Absent => stored[s] = {}
      /\ sessions[s] # Absent =>
           \E q \in Sends : OwnerOf[q.key] = sessions[s].owner /\ q.sid \in {s, NoSid}
  BY <1>1 DEF Counted
<1>4. CASE sessions[s] = Absent
  BY <1>2, <1>3, <1>4 DEF Counted
<1>5. CASE sessions[s] # Absent
  <2>1. /\ RowCounted(sessions'[s], Cardinality(stored'[s]))
        /\ sessions'[s] # Absent /\ IsFiniteSet(stored'[s])
        /\ \E q \in Sends : OwnerOf[q.key] = sessions'[s].owner /\ q.sid \in {s, NoSid}
    BY <1>3, <1>5
  <2>2. \A c \in stored'[s] : \E q \in Sends :
          /\ q.content = c /\ OwnerOf[q.key].user = sessions'[s].owner.user
          /\ runs'[<<q.key, q.ik>>] >= 1
    BY <1>2
  <2>3. RowCounted(sessions[s], Cardinality(stored[s]))'
    BY <2>1 DEF RowCounted
  <2> QED BY <2>1, <2>2, <2>3 DEF Counted
<1> QED BY <1>4, <1>5

LEMMA CountedOwn ==
  ASSUME IInv, IInv', CleanUploads, CountInv, Next, NEW r \in Requests, Commit(r),
         NEW s \in DOMAIN writes[r], s = req[r].sid, ~writes[r][s].idle
  PROVE  Counted(s)'
<1>1. s \in Sids /\ writes[r][s] \in Session /\ Asked(req[r])
  BY DEF IInv, TypeOK, Commit, Requested
<1>2. Counted(s) /\ Row(r, s) /\ Tracked(r)
  BY <1>1 DEF CountInv, Rows, Tracked
<1>3. sessions'[s] = writes[r][s] /\ sessions'[s] # Absent
  BY <1>1, NotAbsent DEF Commit
<1>4. stored'[s] = stored[s] \cup (IF out[r].safe THEN {req[r].content} ELSE {})
  BY <1>1, <1>2 DEF Commit, IInv, TypeOK
<1>5. IsFiniteSet(stored'[s]) /\ Cardinality(stored'[s]) = Cardinality(stored[s]) + Safe(r)
  <2>1. PICK S : S = stored[s]
    OBVIOUS
  <2>2. IsFiniteSet(S) /\ Cardinality(S) \in Nat
    BY <1>2, <2>1, FS_CardinalityType DEF Counted
  <2>3. CASE out[r].safe
    <3>1. req[r].content \notin S
      BY <1>2, <2>1, <2>3, NotStoredYet
    <3>2. stored'[s] = S \cup {req[r].content}
      BY <1>4, <2>1, <2>3
    <3>3. PICK x : x = req[r].content
      OBVIOUS
    <3>4. IsFiniteSet(S \cup {x}) /\ Cardinality(S \cup {x}) = Cardinality(S) + 1
      BY <2>2, <3>1, <3>3, FS_AddElement
    <3>5. Safe(r) = 1
      BY <2>3 DEF Safe
    <3> QED BY <2>1, <3>2, <3>3, <3>4, <3>5
  <2>4. CASE ~out[r].safe
    BY <1>4, <2>1, <2>2, <2>4 DEF Safe
  <2> QED BY <2>3, <2>4
<1>6. RowCounted(sessions[s], Cardinality(stored[s]))'
  BY <1>2, <1>3, <1>5 DEF Row, RowCounted
<1>7. PICK q \in Sends : SentAs(r, q)
  BY DEF CountInv, IsSent, Commit
<1>8. sessions'[s].owner = Owner(r) /\ OwnerOf[q.key] = Owner(r) /\ q.sid \in {s, NoSid}
  BY <1>2, <1>3, <1>7 DEF Row, SentAs, Owner
<1>9. ASSUME NEW c \in stored'[s]
      PROVE  \E p \in Sends :
               /\ p.content = c /\ OwnerOf[p.key].user = sessions'[s].owner.user
               /\ runs'[<<p.key, p.ik>>] >= 1
  <2>1. CASE c \in stored[s]
    <3>1. PICK p \in Sends :
            /\ p.content = c /\ OwnerOf[p.key].user = sessions[s].owner.user
            /\ runs[<<p.key, p.ik>>] >= 1
      BY <1>2, <2>1, Zenon DEF Counted
    <3>2. sessions[s].owner = sessions'[s].owner
      BY <1>2, <1>3, <2>1 DEF Counted, IInv, WritesTrue
    <3>3. PICK g \in Keys \X Iks : g = <<p.key, p.ik>>
      BY PushSessionAssumption DEF Iks
    <3>4. runs'[g] >= 1
      <4>1. runs[g] >= 1 /\ runs[g] \in Nat
        BY <3>1, <3>3 DEF IInv, TypeOK
      <4> QED BY <4>1, RunsGrow
    <3> QED BY <3>1, <3>2, <3>3, <3>4
  <2>2. CASE c \notin stored[s]
    <3>1. out[r].safe /\ c = req[r].content
      BY <1>4, <1>9, <2>2
    <3>2. PICK g \in Keys \X Iks : g = <<req[r].key, req[r].ik>>
      BY <1>1, <1>7 DEF Asked, SentAs, Iks
    <3>3. runs'[g] = runs[g] + 1 /\ runs[g] \in Nat
      <4>1. purge[r] = {}
        BY DEF CountInv
      <4> QED BY <3>1, <3>2, <4>1 DEF Commit, IInv, TypeOK
    <3>4. q.content = c /\ <<q.key, q.ik>> = g
      BY <1>7, <3>1, <3>2 DEF SentAs
    <3>5. runs'[<<q.key, q.ik>>] >= 1
      BY <3>3, <3>4
    <3> QED BY <1>8, <3>4, <3>5
  <2> QED BY <2>1, <2>2
<1> QED BY <1>3, <1>5, <1>6, <1>7, <1>8, <1>9 DEF Counted

LEMMA CountedCommit ==
  ASSUME IInv, IInv', CleanUploads, CountInv, Next, NEW r \in Requests, Commit(r),
         NEW s \in Sids
  PROVE  Counted(s)'
<1>1. Counted(s)
  BY DEF CountInv
<1>2. CASE s \notin DOMAIN writes[r]
  <2>1. sessions'[s] = sessions[s]
    BY <1>2 DEF Commit
  <2>2. stored'[s] = stored[s]
    BY <1>2 DEF Commit, Tracked, IInv, TypeOK
  <2> QED BY <1>1, <2>1, <2>2, CountedStays DEF Counted
<1>3. CASE s \in DOMAIN writes[r] /\ s = req[r].sid /\ ~writes[r][s].idle
  BY <1>3, CountedOwn
<1>4. CASE s \in DOMAIN writes[r] /\ ~(s = req[r].sid /\ ~writes[r][s].idle)
  <2>1. sessions'[s] = writes[r][s] /\ writes[r][s] \in Session
    BY <1>4 DEF Commit, IInv, TypeOK
  <2>2. stored'[s] = stored[s]
    BY <1>4 DEF Commit, Tracked, IInv, TypeOK
  <2>3. sessions[s] # Absent /\ RowCounted(writes[r][s], Cardinality(stored[s]))
    BY <1>4 DEF CountInv, Rows, Row
  <2>4. sessions'[s] # Absent /\ sessions'[s].owner = sessions[s].owner
    BY <1>4, <2>1, <2>3, NotAbsent DEF IInv, WritesTrue
  <2> QED BY <2>1, <2>2, <2>3, <2>4, CountedStays
<1> QED BY <1>2, <1>3, <1>4

LEMMA CountedStep ==
  ASSUME IInv, IInv', CleanUploads, CountInv, Next, NEW s \in Sids
  PROVE  Counted(s)'
<1>1. Counted(s)
  BY DEF CountInv
<1>2. ASSUME NEW r \in Requests, Commit(r)
      PROVE  Counted(s)'
  BY <1>2, CountedCommit
<1>3. ASSUME NEW r \in Requests, RequestStep(r), ~Commit(r)
      PROVE  Counted(s)'
  BY <1>1, <1>3, BeforeCommit, CountedStays DEF Counted
<1>4. CASE \/ \E t \in Sids : GoIdle(t)
           \/ \E k \in Keys : Finalize(OwnerOf[k].user)
  <2>1. stored' = stored
    BY <1>4 DEF GoIdle, Finalize
  <2>2. CASE sessions'[s] = sessions[s]
    BY <1>1, <2>1, <2>2, CountedStays DEF Counted
  <2>3. CASE sessions'[s] # sessions[s]
    <3>1. /\ sessions[s] # Absent /\ sessions'[s] # Absent
          /\ sessions'[s].done = sessions[s].done
          /\ sessions'[s].total = sessions[s].total
          /\ sessions'[s].owner = sessions[s].owner
          /\ sessions'[s].status = "completed" =>
               sessions[s].status = "completed"
                 \/ Complete(sessions[s].total, sessions[s].done)
      BY <1>4, <2>3, SettleCounts DEF IInv
    <3>2. RowCounted(sessions[s], Cardinality(stored[s]))
      BY <1>1, <3>1 DEF Counted
    <3>3. RowCounted(sessions'[s], Cardinality(stored[s]))
      BY <3>1, <3>2 DEF RowCounted, Complete
    <3> QED BY <2>1, <3>1, <3>3, CountedStays
  <2> QED BY <2>2, <2>3
<1> QED BY <1>2, <1>3, <1>4 DEF Next

LEMMA CountNext ==
  ASSUME IInv, IInv', CleanUploads, CountInv, [Next]_vars
  PROVE  CountInv'
<1>1. CASE Next
  <2>1. ~GuardsExpire /\ IsSent /\ Found /\ \A r \in Requests : purge[r] = {}
    BY DEF CleanUploads, CountInv
  <2>2. IsSent' /\ Found'
    BY <1>1, <2>1, SentStep, FoundStep
  <2>3. \A r \in Requests : purge'[r] = {}
    BY <1>1, <2>1, PurgesNone
  <2>4. \A r \in Requests : Loaded(r)' /\ Rows(r)'
    BY <1>1, LoadedStep, RowsStep
  <2>5. \A s \in Sids : Counted(s)'
    BY <1>1, CountedStep
  <2> QED BY <2>2, <2>3, <2>4, <2>5 DEF CountInv
<1>2. CASE UNCHANGED vars
  BY <1>2 DEF vars, CountInv, IsSent, SentAs, Found, Guards, Loaded, Rows, Row, RowCounted, Counted,
     Safe, Owner
<1> QED BY <1>1, <1>2

LEMMA CountInit ==
  ASSUME Init
  PROVE  CountInv
<1> USE DEF Init
<1>1. \A r \in Requests : purge[r] = {} /\ Loaded(r) /\ Rows(r)
  <2>1. DOMAIN NoWrites = {}
    BY DEF NoWrites
  <2> QED BY <2>1 DEF Loaded, Rows
<1>2. \A s \in Sids : Counted(s)
  BY FS_EmptySet DEF Counted
<1> QED BY <1>1, <1>2 DEF CountInv, IsSent, Found

LEMMA CountsHold == CleanUploads => (Spec => []CountInv)
<1> SUFFICES ASSUME CleanUploads
             PROVE  Spec => []CountInv
  OBVIOUS
<1>1. Init => CountInv
  BY CountInit
<1>2. IInv /\ IInv' /\ CountInv /\ [Next]_vars => CountInv'
  BY CountNext
<1> QED BY <1>1, <1>2, Inductive, PTL DEF Spec

\* While a client repeats each batch under the idempotency key it chose for it and
\* keeps a session to one of its devices, completed_batches counts what the session
\* stored: no retry, rollback, lost reply, clean-up or concurrent push of others
\* counts a batch twice or loses its count (next_completed_batches).
THEOREM CountsOnce == CleanUploads => (Spec => []CountAccurate)
<1>1. CountInv => CountAccurate
  BY DEF CountInv, Counted, RowCounted, CountAccurate
<1> QED BY <1>1, CountsHold, PTL

\* And a session that is completed has stored all the batches that its client
\* announced (session_is_effectively_complete, sync_status).
THEOREM AllStored == CleanUploads => (Spec => []CompletedMeansAll)
<1>1. CountInv => CompletedMeansAll
  BY DEF CountInv, Counted, RowCounted, CompletedMeansAll, Absent
<1> QED BY <1>1, CountsHold, PTL
=============================================================================
