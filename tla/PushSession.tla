---------------------------- MODULE PushSession ----------------------------
(***************************************************************************)
(* Retried pushes: the idempotency guard and the sync session of sync_push. *)
(* A client repeats a batch whose reply it has not seen, under the same or  *)
(* no idempotency key, while the first attempt may still be running; the    *)
(* server must process a batch once and count it once towards the session.  *)
(*                                                                         *)
(* A step is one statement of the handler.  Every request works in one      *)
(* transaction, committed after its reply: what it writes is private until  *)
(* then, and a row it wrote is locked.  What a batch does to the entries is *)
(* its outcome here; EntryLog has the rest.                                 *)
(***************************************************************************)
EXTENDS Naturals, FiniteSets

CONSTANTS
  Keys, OwnerOf,   \* API keys, and the user and device each is used from
  Requests,        \* requests in flight at once
  Sids, NoSid,     \* session ids
  NoIk,            \* the idempotency key of a push that has none
  Sends,           \* the requests clients send
  GuardsExpire,    \* whether behaviours outlast idempotency_ttl_hours
  MaxSends         \* bound: requests in a behaviour

ASSUME PushSessionAssumption ==
  /\ OwnerOf \in [Keys -> [user : STRING, device : STRING]]
  /\ NoSid \notin Sids
  /\ GuardsExpire \in BOOLEAN /\ MaxSends \in Nat
  /\ \A q \in Sends : /\ DOMAIN q = {"key", "ik", "sid", "first", "content",
                                     "total"}
                      /\ q.key \in Keys /\ q.sid \in Sids \cup {NoSid}
                      /\ q.first \in BOOLEAN /\ q.total \in Nat

Contents == {q.content : q \in Sends}  \* what request_sha256 covers
Iks      == {q.ik : q \in Sends}

\* total is 0 when total_batches is not known.
Absent  == [status |-> "absent"]
Session == [status : {"in_progress", "completed", "abandoned"},
            owner : {OwnerOf[k] : k \in Keys}, total : Nat, done : Nat,
            idle : BOOLEAN]

Outcome == {o \in [state : {"success", "completed_with_issues", "blocked",
                            "in_progress"}, safe : BOOLEAN] :
              /\ o.state = "success" => o.safe
              /\ o.state \in {"blocked", "in_progress"} => ~o.safe}
Pending == [state |-> "in_progress", safe |-> FALSE]

VARIABLES
  sessions,  \* committed sync_sessions rows
  guard,     \* committed sync_idempotency rows
  sent,      \* requests sent
  pc, req,   \* where each request is, and what it asks
  snap,      \* the session it loaded
  out,       \* the outcome it computed
  writes,    \* the sessions it wrote, locked until it ends
  purge,     \* the guard rows it deleted, locked until it ends
  stored,    \* history: the batches each session's pushes stored safely
  runs       \* history: the safe pushes committed under a guard since it was
             \* last deleted

vars == <<sessions, guard, sent, pc, req, snap, out, writes, purge, stored,
          runs>>

TypeOK ==
  /\ sessions \in [Sids -> Session \cup {Absent}]
  /\ guard \subseteq [key : Keys, ik : Iks, content : Contents,
                      complete : BOOLEAN, out : Outcome]
  /\ sent \in Nat
  /\ pc \in [Requests -> {"idle", "auth", "guard", "look", "device",
                          "session", "track", "insert", "store", "clean",
                          "done", "replay"}]
  /\ \A r \in Requests :
       /\ pc[r] # "idle" => req[r].key \in Keys
       /\ snap[r] \in Session \cup {Absent}
       /\ out[r] \in Outcome
       /\ \E S \in SUBSET Sids : writes[r] \in [S -> Session]
       /\ purge[r] \subseteq guard
  /\ stored \in [Sids -> SUBSET Contents]
  /\ runs \in [Keys \X Iks -> Nat]

NoWrites == [s \in {} |-> Absent]
NoReq    == [key |-> "none"]

Init ==
  /\ sessions = [s \in Sids |-> Absent]
  /\ guard = {}
  /\ sent = 0
  /\ pc = [r \in Requests |-> "idle"]
  /\ req = [r \in Requests |-> NoReq]
  /\ snap = [r \in Requests |-> Absent]
  /\ out = [r \in Requests |-> Pending]
  /\ writes = [r \in Requests |-> NoWrites]
  /\ purge = [r \in Requests |-> {}]
  /\ stored = [s \in Sids |-> {}]
  /\ runs = [g \in Keys \X Iks |-> 0]

Goto(r, place) == pc' = [pc EXCEPT ![r] = place]

\* The row is locked by a transaction other than r's.
Locked(r, s) == \E q \in Requests \ {r} : s \in DOMAIN writes[q]
Write(r, new) ==
  writes' = [writes EXCEPT ![r] =
    [s \in DOMAIN @ \cup DOMAIN new |->
       IF s \in DOMAIN new THEN new[s] ELSE @[s]]]

-----------------------------------------------------------------------------
\* A client sends a push, or sends it again.
Send(r) ==
  /\ pc[r] = "idle"
  /\ sent < MaxSends
  /\ sent' = sent + 1
  /\ \E q \in Sends : req' = [req EXCEPT ![r] = q]
  /\ Goto(r, "auth")
  /\ UNCHANGED <<sessions, guard, snap, out, writes, purge, stored, runs>>

Processing(r) == pc[r] \notin {"idle", "auth"}
KeyFree(r) ==
  ~\E q \in Requests \ {r} : Processing(q) /\ req[q].key = req[r].key

\* resolve_api_key updates last_used_at, which locks the key's row until the
\* request's transaction ends: requests of one key go one at a time.
Authenticate(r) ==
  /\ pc[r] = "auth"
  /\ KeyFree(r)
  /\ Goto(r, IF req[r].ik = NoIk THEN "device" ELSE "guard")
  /\ UNCHANGED <<sessions, guard, sent, req, snap, out, writes, purge, stored,
                 runs>>

\* The request ends without a trace: an HTTPException or any other error rolls
\* its transaction back.
Discard(r) ==
  /\ Goto(r, "idle")
  /\ req' = [req EXCEPT ![r] = NoReq]
  /\ snap' = [snap EXCEPT ![r] = Absent]
  /\ out' = [out EXCEPT ![r] = Pending]
  /\ writes' = [writes EXCEPT ![r] = NoWrites]
  /\ purge' = [purge EXCEPT ![r] = {}]
  /\ UNCHANGED <<sessions, guard, sent, stored, runs>>

Guards(r) == {g \in guard : g.key = req[r].key /\ g.ik = req[r].ik}

\* pg_try_advisory_xact_lock fails while a twin of the request runs.
Twin(r) == \E q \in Requests \ {r} :
  Processing(q) /\ req[q].key = req[r].key /\ req[q].ik = req[r].ik

\* The guard row is inserted unless there is one, which is looked at next.
\* Incomplete rows older than a minute are deleted first.  A row that another
\* request is deleting is waited for.
CheckGuard(r) ==
  /\ pc[r] = "guard"
  /\ \A q \in Requests \ {r} : Guards(r) \cap purge[q] = {}
  /\ \/ Twin(r) /\ Discard(r)
     \/ /\ ~Twin(r) /\ Guards(r) # {}
        /\ Goto(r, "look")
        /\ UNCHANGED <<sessions, guard, sent, req, snap, out, writes, purge,
                       stored, runs>>
     \/ /\ ~Twin(r) /\ \A g \in Guards(r) : ~g.complete
        /\ guard' = guard \ Guards(r)
        /\ Goto(r, "device")
        /\ UNCHANGED <<sessions, sent, req, snap, out, writes, purge, stored,
                       runs>>

\* The row that was there is read: the answer is 409 for another payload or one
\* not yet processed, else the reply kept in it.  A row that another request's
\* clean-up has deleted since leaves a push without a guard.
ReadGuard(r) ==
  /\ pc[r] = "look"
  /\ \/ \E g \in Guards(r) :
          \/ /\ (g.content # req[r].content \/ ~g.complete)
             /\ Discard(r)
          \/ /\ g.content = req[r].content /\ g.complete
             /\ Goto(r, "replay")
             /\ out' = [out EXCEPT ![r] = g.out]
             /\ UNCHANGED <<sessions, guard, sent, req, snap, writes, purge,
                            stored, runs>>
     \/ /\ Guards(r) = {}
        /\ req' = [req EXCEPT ![r].ik = NoIk]
        /\ Goto(r, "device")
        /\ UNCHANGED <<sessions, guard, sent, snap, out, writes, purge, stored,
                       runs>>

Owner(r) == OwnerOf[req[r].key]

\* Mutant of DeviceFree: the device's row is not written.
DeviceFreeAlways(r) == TRUE

\* No other request has written the row of the request's device.
DeviceFree(r) ==
  ~\E q \in Requests \ {r} :
    /\ pc[q] \in {"session", "track", "insert", "store", "clean", "done"}
    /\ Owner(q) = Owner(r)

\* The device is updated, or inserted, which locks its row: requests of one
\* device, under whichever keys, go one at a time from here.
TouchDevice(r) ==
  /\ pc[r] = "device"
  /\ DeviceFree(r)
  /\ Goto(r, "session")
  /\ UNCHANGED <<sessions, guard, sent, req, snap, out, writes, purge, stored,
                 runs>>

\* The session may be resumed by this request.
Resumable(r, s) ==
  /\ s.status = "in_progress"
  /\ s.owner.user = Owner(r).user
  /\ req[r].total = 0 \/ s.total = 0 \/ s.total = req[r].total

\* The session is loaded, without a lock.  An unknown id starts a session when
\* the batch is the first; a session of another user, with another number of
\* batches, or ended is refused.
FindSession(r) ==
  LET s == IF req[r].sid = NoSid THEN Absent ELSE sessions[req[r].sid]
  IN /\ pc[r] = "session"
     /\ \/ /\ \/ req[r].sid = NoSid
              \/ s = Absent /\ req[r].first
              \/ s # Absent /\ Resumable(r, s)
           /\ snap' = [snap EXCEPT ![r] = s]
           /\ Goto(r, "track")
           /\ UNCHANGED <<sessions, guard, sent, req, out, writes, purge,
                          stored, runs>>
        \/ /\ req[r].sid # NoSid
           /\ IF s = Absent THEN ~req[r].first ELSE ~Resumable(r, s)
           /\ Discard(r)

\* The SELECT fails in its savepoint: the push goes on without a session.
LoseTracking(r) ==
  /\ pc[r] = "session" /\ req[r].sid # NoSid
  /\ \E o \in Outcome : out' = [out EXCEPT ![r] = o]
  /\ Goto(r, "store")
  /\ UNCHANGED <<sessions, guard, sent, req, snap, writes, purge, stored, runs>>

\* Mutant of NextDone: a batch that is not safe is counted too.
NextDoneAlways(r, o) == (IF snap[r] = Absent THEN 0 ELSE snap[r].done) + 1

\* next_completed_batches, from the session as it was loaded.
NextDone(r, o) ==
  (IF snap[r] = Absent THEN 0 ELSE snap[r].done) + IF o.safe THEN 1 ELSE 0
EffectiveTotal(r) ==
  IF snap[r] # Absent /\ snap[r].total # 0 THEN snap[r].total ELSE req[r].total

\* Mutant of Complete: the last batch is not waited for.
CompleteEarly(total, done) == total > 0 /\ done + 1 >= total

\* session_is_effectively_complete
Complete(total, done) == total > 0 /\ done >= total
Finishes(r, o) == o.safe /\ Complete(EffectiveTotal(r), NextDone(r, o))

\* The batch has been processed, with some outcome; the loaded session's row
\* is updated, whatever has become of it.
UpdateSession(r) ==
  LET s == req[r].sid
  IN /\ pc[r] = "track" /\ snap[r] # Absent
     /\ ~Locked(r, s)
     /\ \E o \in Outcome :
          /\ out' = [out EXCEPT ![r] = o]
          /\ Write(r, [x \in {s} |->
               [sessions[s] EXCEPT
                  !.done = NextDone(r, o), !.idle = FALSE,
                  !.total = IF snap[r].total = 0 THEN req[r].total ELSE @,
                  !.status = IF Finishes(r, o) THEN "completed" ELSE @]])
     /\ Goto(r, "store")
     /\ UNCHANGED <<sessions, guard, sent, req, snap, purge, stored, runs>>

\* The other sessions in progress of the request's device.
Prior(r, new) ==
  {s \in Sids \ {new} : /\ sessions[s].status = "in_progress"
                        /\ sessions[s].owner = Owner(r)}
End(s, status) == [sessions[s] EXCEPT !.status = status]

Unused(s) ==
  /\ sessions[s] = Absent
  /\ \A r \in Requests : /\ s \notin DOMAIN writes[r]
                          /\ pc[r] # "idle" => req[r].sid # s

\* A new session, under the client's id or a fresh one, first abandons those of
\* the device that are in progress.
AbandonPrior(r) ==
  /\ pc[r] = "track" /\ snap[r] = Absent
  /\ \E new \in Sids :
       /\ IF req[r].sid = NoSid THEN Unused(new) ELSE new = req[r].sid
       /\ \A s \in Prior(r, new) : ~Locked(r, s)
       /\ req' = [req EXCEPT ![r].sid = new]
       /\ Write(r, [s \in Prior(r, new) |-> End(s, "abandoned")])
  /\ \E o \in Outcome : out' = [out EXCEPT ![r] = o]
  /\ Goto(r, "insert")
  /\ UNCHANGED <<sessions, guard, sent, snap, purge, stored, runs>>

InsertSession(r) ==
  LET s == req[r].sid
  IN /\ pc[r] = "insert"
     /\ ~Locked(r, s) /\ sessions[s] = Absent
     /\ Write(r, [x \in {s} |->
          [status |-> IF Finishes(r, out[r]) THEN "completed"
                      ELSE "in_progress",
           owner |-> Owner(r), total |-> req[r].total,
           done |-> NextDone(r, out[r]), idle |-> FALSE]])
     /\ Goto(r, "store")
     /\ UNCHANGED <<sessions, guard, sent, req, snap, out, purge, stored, runs>>

\* The session's statements fail, as an INSERT of an id that exists by now
\* does: the savepoint takes them back and the push goes on.
SessionFails(r) ==
  /\ pc[r] \in {"track", "insert"}
  /\ pc[r] = "track" => \E o \in Outcome : out' = [out EXCEPT ![r] = o]
  /\ pc[r] = "insert" => UNCHANGED out
  /\ writes' = [writes EXCEPT ![r] = NoWrites]
  /\ Goto(r, "store")
  /\ UNCHANGED <<sessions, guard, sent, req, snap, purge, stored, runs>>

\* One push in twenty cleans up.  It deletes guard rows past
\* idempotency_ttl_hours, of any key.
PurgeGuards(r) ==
  /\ pc[r] = "store"
  /\ \E G \in IF GuardsExpire THEN SUBSET guard ELSE {{}} :
       /\ \A q \in Requests \ {r} : G \cap purge[q] = {}
       /\ purge' = [purge EXCEPT ![r] = G]
  /\ Goto(r, "clean")
  /\ UNCHANGED <<sessions, guard, sent, req, snap, out, writes, stored, runs>>

\* Then it abandons the sessions, of any user, that have been idle for
\* session_ttl_hours.  Either statement may fail in its savepoint.
Stale(r) ==
  {s \in Sids : /\ sessions[s].status = "in_progress" /\ sessions[s].idle
                /\ s \notin DOMAIN writes[r]}
CleanStale(r) ==
  /\ pc[r] \in {"store", "clean"}
  /\ Stale(r) # {} /\ \A s \in Stale(r) : ~Locked(r, s)
  /\ Write(r, [s \in Stale(r) |-> End(s, "abandoned")])
  /\ Goto(r, "done")
  /\ UNCHANGED <<sessions, guard, sent, req, snap, out, purge, stored, runs>>

SkipCleanup(r) ==
  /\ pc[r] \in {"store", "clean"}
  /\ Goto(r, "done")
  /\ UNCHANGED <<sessions, guard, sent, req, snap, out, writes, purge, stored,
                 runs>>

\* Mutant of Kept: a reply with issues is not kept.
KeptSuccess(r) ==
  IF req[r].ik # NoIk /\ out[r].state = "success"
  THEN {[key |-> req[r].key, ik |-> req[r].ik, content |-> req[r].content,
         complete |-> TRUE, out |-> out[r]]}
  ELSE {}

\* What becomes of the guard row: completed for an outcome that is kept for
\* replay, deleted for one the client should try again.
Kept(r) ==
  IF req[r].ik # NoIk /\ out[r].state \in {"success", "completed_with_issues"}
  THEN {[key |-> req[r].key, ik |-> req[r].ik, content |-> req[r].content,
         complete |-> TRUE, out |-> out[r]]}
  ELSE {}

\* The request's own session was written.
Tracked(r) ==
  /\ req[r].sid \in DOMAIN writes[r]
  /\ ~writes[r][req[r].sid].idle

\* Mutant of Reset: the transaction's locks outlive it.
ResetLocked(r) ==
  /\ Goto(r, "idle")
  /\ req' = [req EXCEPT ![r] = NoReq]
  /\ snap' = [snap EXCEPT ![r] = Absent]
  /\ out' = [out EXCEPT ![r] = Pending]
  /\ purge' = [purge EXCEPT ![r] = {}]
  /\ UNCHANGED writes

\* The request's transaction is over.
Reset(r) ==
  /\ Goto(r, "idle")
  /\ req' = [req EXCEPT ![r] = NoReq]
  /\ snap' = [snap EXCEPT ![r] = Absent]
  /\ out' = [out EXCEPT ![r] = Pending]
  /\ writes' = [writes EXCEPT ![r] = NoWrites]
  /\ purge' = [purge EXCEPT ![r] = {}]

\* The reply has been sent; the transaction commits.
Commit(r) ==
  /\ pc[r] = "done"
  /\ sessions' = [s \in Sids |-> IF s \in DOMAIN writes[r] THEN writes[r][s]
                                 ELSE sessions[s]]
  /\ guard' = (guard \ purge[r]) \cup Kept(r)
  /\ stored' = IF Tracked(r) /\ out[r].safe
               THEN [stored EXCEPT ![req[r].sid] = @ \cup {req[r].content}]
               ELSE stored
  /\ runs' = [g \in Keys \X Iks |->
       IF \E row \in purge[r] : <<row.key, row.ik>> = g THEN 0
       ELSE IF g = <<req[r].key, req[r].ik>> /\ out[r].safe THEN runs[g] + 1
       ELSE runs[g]]
  /\ Reset(r)
  /\ UNCHANGED sent

\* A replayed reply is sent; nothing was written.
EndReplay(r) ==
  /\ pc[r] = "replay"
  /\ Discard(r)

\* Any other refusal or error of the handler, a crash, or a COMMIT that fails.
Abort(r) ==
  /\ Processing(r)
  /\ Discard(r)

-----------------------------------------------------------------------------
\* A session has seen no batch for session_ttl_hours.
GoIdle(s) ==
  /\ sessions[s].status = "in_progress" /\ ~sessions[s].idle
  /\ \A r \in Requests : s \notin DOMAIN writes[r]
  /\ sessions' = [sessions EXCEPT ![s].idle = TRUE]
  /\ UNCHANGED <<guard, sent, pc, req, snap, out, writes, purge, stored, runs>>

\* sync_status completes the sessions whose batches are all done.
Finalize(user) ==
  LET S == {s \in Sids : /\ sessions[s].status = "in_progress"
                         /\ sessions[s].owner.user = user
                         /\ Complete(sessions[s].total, sessions[s].done)}
  IN /\ S # {}
     /\ \A s \in S, r \in Requests : s \notin DOMAIN writes[r]
     /\ sessions' = [s \in Sids |-> IF s \in S THEN End(s, "completed")
                                    ELSE sessions[s]]
     /\ UNCHANGED <<guard, sent, pc, req, snap, out, writes, purge, stored,
                    runs>>

RequestStep(r) ==
  \/ Send(r) \/ Authenticate(r) \/ CheckGuard(r) \/ ReadGuard(r)
  \/ TouchDevice(r) \/ FindSession(r) \/ LoseTracking(r) \/ UpdateSession(r)
  \/ AbandonPrior(r) \/ InsertSession(r) \/ SessionFails(r) \/ PurgeGuards(r)
  \/ CleanStale(r) \/ SkipCleanup(r) \/ Commit(r) \/ EndReplay(r) \/ Abort(r)

Next ==
  \/ \E r \in Requests : RequestStep(r)
  \/ \E s \in Sids : GoIdle(s)
  \/ \E k \in Keys : Finalize(OwnerOf[k].user)

Spec == Init /\ [][Next]_vars
-----------------------------------------------------------------------------
\* completed_batches counts the batches the session's pushes stored, each once:
\* across retries, failed sessions and concurrent requests.
CountAccurate ==
  \A s \in Sids : sessions[s] # Absent =>
    sessions[s].done = Cardinality(stored[s])

\* A completed session has stored as many batches as the client announced.
CompletedMeansAll ==
  \A s \in Sids : sessions[s].status = "completed" =>
    Cardinality(stored[s]) >= sessions[s].total /\ sessions[s].total > 0

\* A batch sent again under its idempotency key is not processed again while
\* the guard row of the first time is there.
ProcessedOnce ==
  \A g \in DOMAIN runs : g[2] # NoIk => runs[g] <= 1

\* A device has one session in progress at most, whichever keys it uses: a new
\* one abandons the rest, and no other can start at the same time.
OneActivePerDevice ==
  \A s, t \in Sids :
    /\ s # t /\ sessions[s].status = "in_progress"
    /\ sessions[t].status = "in_progress"
    => sessions[s].owner # sessions[t].owner

-----------------------------------------------------------------------------
\* An INSERT of an id that is taken by now fails.
IdTaken(r) ==
  pc[r] = "insert" /\ sessions[req[r].sid] # Absent /\ SessionFails(r)

Runs(r) ==
  \/ Authenticate(r) \/ CheckGuard(r) \/ ReadGuard(r) \/ TouchDevice(r)
  \/ FindSession(r) \/ UpdateSession(r) \/ AbandonPrior(r) \/ InsertSession(r) \/ IdTaken(r)
  \/ SkipCleanup(r) \/ Commit(r) \/ EndReplay(r)

\* Statements run to an end: a lock is waited for until its holder is done, and
\* PostgreSQL fails a statement of transactions that wait for one another.
Fairness(r) == SF_vars(Runs(r))

FairSpec == Spec /\ \A r \in Requests : Fairness(r)

\* Every request ends: waiting for the key's row, for another's session row or
\* for an id another request is inserting leaves nobody stuck.
RequestsEnd == \A r \in Requests : pc[r] # "idle" ~> pc[r] = "idle"
=============================================================================
