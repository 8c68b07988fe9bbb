------------------------------ MODULE EntryLog ------------------------------
(***************************************************************************)
(* One tenant's transcript_entries table and the two handlers that work on *)
(* it: sync_push, which classifies a batch, inserts what is new and applies *)
(* the retention policy inside one READ COMMITTED transaction, and          *)
(* sync_pull, which reads a page above a cursor under a SHARE table lock.   *)
(*                                                                         *)
(* A step is one SQL statement (or one row of a multi-row INSERT), so that  *)
(* the handlers interleave where PostgreSQL lets them.  The reply to a push *)
(* leaves before its transaction commits: get_db commits in the teardown    *)
(* of a request-scoped dependency, which runs once the reply is sent.       *)
(***************************************************************************)
EXTENDS Naturals, Sequences, FiniteSets

CONSTANTS
  Pushers,        \* the API keys that push: requests of one key serialize on
                  \* its api_keys row, so each key has one push in flight
  Readers,        \* the clients that pull
  Users,
  UserOf,         \* the user a pusher's key belongs to
  Scope,          \* the users whose entries a reader may see
  Ids, Shas,      \* entry ids and content hashes
  Batches,        \* the batches of entries clients send
  MaxBatch,       \* the longest of them
  MaxRejected,    \* the most entries of a push rejected before its batch
  FailureCap,     \* row failures in a row that stop the fallback (5)
  PageLimit,      \* the limit of a pull
  Retention,      \* whether the tenant's plan has a retention window
  RetentionBatch, \* RETENTION_BATCH_SIZE
  MaxPushes       \* bound: pushes in a behaviour

ASSUME EntryLogAssumption ==
  /\ UserOf \in [Pushers -> Users]
  /\ Scope \in [Readers -> SUBSET Users]
  /\ {MaxBatch, MaxRejected, MaxPushes} \subseteq Nat
  /\ \A batch \in Batches :
       batch \in Seq([id : Ids, sha : Shas]) /\ Len(batch) <= MaxBatch
  /\ {FailureCap, PageLimit, RetentionBatch} \subseteq Nat \ {0}
  /\ Retention \in BOOLEAN

Item == [id : Ids, sha : Shas]
Row  == [seq : Nat \ {0}, item : Item, by : Users]

\* What a push keeps of its batch: how many of the entries sent never reached
\* it, and what became of the positions of those that did.  The counters of
\* the reply are the sizes of these sets.
JobFields ==
  [batch : Seq(Item), rejected : Nat,
   duplicates : SUBSET Nat,   \* stored with the same hash
   conflicted : SUBSET Nat,   \* stored with another hash
   todo : SUBSET Nat,         \* to be inserted
   accepted : SUBSET Nat,     \* inserted
   retriable : SUBSET Nat,    \* failed in the fallback
   streak : Nat,              \* consecutive_row_failures
   safe : BOOLEAN,
   state : {"in_progress", "success", "completed_with_issues", "blocked"}]

Positions(j) ==
  j.todo \cup j.accepted \cup j.retriable \cup j.duplicates \cup j.conflicted
Job == {j \in JobFields : Positions(j) \subseteq DOMAIN j.batch}

NoJob == [batch |-> <<>>, rejected |-> 0, duplicates |-> {}, conflicted |-> {},
          todo |-> {}, accepted |-> {}, retriable |-> {}, streak |-> 0,
          safe |-> FALSE, state |-> "in_progress"]

VARIABLES
  table,     \* the committed rows
  nextSeq,   \* the next value of the server_sequence sequence
  writers,   \* pushes that hold ROW EXCLUSIVE on the table
  expired,   \* ids whose client timestamp is before the retention cutoff
  pushes,    \* pushes begun
  pc,        \* where each push is
  job,       \* what each push has counted
  wm,        \* pre_push_max_seq of each push
  ticket,    \* the sequence value a row being inserted has drawn, or 0
  ins, del,  \* the uncommitted rows each push inserted, and deleted
  rpc,       \* where each reader's pull is
  cur,       \* each reader's cursor
  got,       \* history: the rows each reader has received
  page,      \* the entries of the page a pull returns
  nxt, high  \* its next_cursor and server_sequence

pushVars == <<pushes, pc, job, wm, ticket, ins, del>>
pullVars == <<rpc, cur, got, page, nxt, high>>
vars == <<table, nextSeq, writers, expired, pushVars, pullVars>>

RowIds(S) == {row.item.id : row \in S}
Sharing   == {r \in Readers : rpc[r] = "locked"}

\* What push p's statements see: the committed rows and its own work.
Seen(p) == (table \cup ins[p]) \ del[p]

\* COALESCE(MAX(server_sequence), 0) over the rows S.
IsHighWater(n, S) ==
  \/ S = {} /\ n = 0
  \/ \E last \in S : n = last.seq /\ \A row \in S : row.seq <= n

TypeOK ==
  /\ table \subseteq Row
  /\ nextSeq \in Nat \ {0}
  /\ writers \subseteq Pushers
  /\ expired \subseteq Ids
  /\ pushes \in Nat
  /\ pc \in [Pushers -> {"idle", "classify", "bulk", "rows", "retain",
                         "commit"}]
  /\ job \in [Pushers -> Job]
  /\ wm \in [Pushers -> Nat]
  /\ ticket \in [Pushers -> Nat]
  /\ ins \in [Pushers -> SUBSET Row]
  /\ del \in [Pushers -> SUBSET Row]
  /\ rpc \in [Readers -> {"idle", "locked", "sent"}]
  /\ cur \in [Readers -> Nat]
  /\ got \in [Readers -> SUBSET Row]
  /\ page \in [Readers -> SUBSET Row]
  /\ nxt \in [Readers -> Nat]
  /\ high \in [Readers -> Nat]

Init ==
  /\ table = {}
  /\ nextSeq = 1
  /\ writers = {}
  /\ expired \in IF Retention THEN SUBSET Ids ELSE {{}}
  /\ pushes = 0
  /\ pc = [p \in Pushers |-> "idle"]
  /\ job = [p \in Pushers |-> NoJob]
  /\ wm = [p \in Pushers |-> 0]
  /\ ticket = [p \in Pushers |-> 0]
  /\ ins = [p \in Pushers |-> {}]
  /\ del = [p \in Pushers |-> {}]
  /\ rpc = [r \in Readers |-> "idle"]
  /\ cur = [r \in Readers |-> 0]
  /\ got = [r \in Readers |-> {}]
  /\ page = [r \in Readers |-> {}]
  /\ nxt = [r \in Readers |-> 0]
  /\ high = [r \in Readers |-> 0]

-----------------------------------------------------------------------------
(* sync_push *)

\* A push arrives; of the entries sent, some never reach the batch that is
\* inserted: they fail validation, a size or hash check, or the allow list.
\* Its first look at the table is the high-water mark of the committed rows,
\* 0 when that SELECT fails in its savepoint.
Begin(p) ==
  /\ pc[p] = "idle"
  /\ pushes < MaxPushes
  /\ \E batch \in Batches, rejected \in 0..MaxRejected :
       job' = [job EXCEPT ![p] = [NoJob EXCEPT !.batch = batch,
                                               !.rejected = rejected]]
  /\ \E n \in 0..nextSeq :
       /\ n = 0 \/ IsHighWater(n, table)
       /\ wm' = [wm EXCEPT ![p] = n]
  /\ pushes' = pushes + 1
  /\ pc' = [pc EXCEPT ![p] = "classify"]
  /\ UNCHANGED <<table, nextSeq, writers, expired, ticket, ins, del, pullVars>>

\* The batched lookup of the ids: the same hash is a duplicate, another hash
\* a conflict, an unknown id is to be inserted.
Classify(p) ==
  LET batch == job[p].batch
      known == {i \in DOMAIN batch : batch[i].id \in RowIds(table)}
      same  == {i \in known : \E row \in table : row.item = batch[i]}
      fresh == DOMAIN batch \ known
  IN /\ pc[p] = "classify"
     /\ job' = [job EXCEPT ![p].todo = fresh,
                           ![p].duplicates = same,
                           ![p].conflicted = known \ same]
     /\ pc' = [pc EXCEPT ![p] = IF fresh = {} THEN "retain" ELSE "bulk"]
     /\ UNCHANGED <<table, nextSeq, writers, expired, pushes, wm, ticket,
                    ins, del, pullVars>>

\* The positions of new_entries.
Fresh(j) == DOMAIN j.batch \ (j.duplicates \cup j.conflicted)

\* The INSERT takes its table lock, then draws a sequence value for the row.
StartRow(p) ==
  /\ pc[p] \in {"bulk", "rows"} /\ ticket[p] = 0
  /\ p \in writers \/ Sharing = {}
  /\ writers' = writers \cup {p}
  /\ ticket' = [ticket EXCEPT ![p] = nextSeq]
  /\ nextSeq' = nextSeq + 1
  /\ UNCHANGED <<table, expired, pushes, pc, job, wm, ins, del, pullVars>>

\* Rows are inserted in the order of the batch.
First(i, S) == i \in S /\ \A k \in S : i <= k

\* The transactions whose uncommitted row with this id an INSERT waits for.
Blockers(p, id) == {q \in Pushers \ {p} : id \in RowIds(ins[q] \cup del[q])}

\* Mutant of NextStage: the loop over the rows never ends.
NextStageNever(p, j) == pc[p]
NextStage(p, j) == IF j.todo = {} THEN "retain" ELSE pc[p]

\* Mutant of Count: the rows sent are counted, not those inserted.
CountSkipped(S, i, skipped) == S \cup {i}
\* The rowcount of an INSERT: a skipped row is not counted.
Count(S, i, skipped) == IF skipped THEN S ELSE S \cup {i}

\* ON CONFLICT (id) DO NOTHING: the row is skipped when the id is stored, and
\* an uncommitted row with the same id is waited for.
InsertRow(p) ==
  /\ ticket[p] # 0
  /\ \E i \in job[p].todo :
       LET e       == job[p].batch[i]
           skipped == e.id \in RowIds(table \cup ins[p])
           j       == [job[p] EXCEPT
                         !.todo = @ \ {i},
                         !.accepted = Count(@, i, skipped),
                         !.streak = 0]
       IN /\ First(i, job[p].todo)
          /\ Blockers(p, e.id) = {}
          /\ ins' = [ins EXCEPT ![p] =
                       IF skipped THEN @
                       ELSE @ \cup {[seq |-> ticket[p], item |-> e,
                                     by |-> UserOf[p]]}]
          /\ job' = [job EXCEPT ![p] = j]
          /\ pc' = [pc EXCEPT ![p] = NextStage(p, j)]
  /\ ticket' = [ticket EXCEPT ![p] = 0]
  /\ UNCHANGED <<table, nextSeq, writers, expired, pushes, wm, del, pullVars>>

\* The bulk INSERT fails: its savepoint takes back the rows, the lock and the
\* count, and every entry is tried again with a savepoint of its own.
BulkFails(p) ==
  /\ pc[p] = "bulk" /\ ticket[p] # 0
  /\ ins' = [ins EXCEPT ![p] = {}]
  /\ writers' = writers \ {p}
  /\ ticket' = [ticket EXCEPT ![p] = 0]
  /\ job' = [job EXCEPT ![p].todo = Fresh(job[p]), ![p].accepted = {}]
  /\ pc' = [pc EXCEPT ![p] = "rows"]
  /\ UNCHANGED <<table, nextSeq, expired, pushes, wm, del, pullVars>>

\* The fallback INSERT of one row fails; after FailureCap failures in a row
\* the remaining entries are given up as retriable.  The table lock stays
\* only if an earlier row of the fallback went through.
RowFails(p) ==
  /\ pc[p] = "rows" /\ ticket[p] # 0
  /\ \E i \in job[p].todo :
       LET failed  == IF job[p].streak + 1 = FailureCap
                      THEN job[p].todo ELSE {i}
           j       == [job[p] EXCEPT !.todo = @ \ failed,
                                     !.retriable = @ \cup failed,
                                     !.streak = @ + 1]
           through == Fresh(job[p]) \ (job[p].todo \cup job[p].retriable)
       IN /\ First(i, job[p].todo)
          /\ job' = [job EXCEPT ![p] = j]
          /\ pc' = [pc EXCEPT ![p] = NextStage(p, j)]
          /\ writers' = IF through # {} THEN writers ELSE writers \ {p}
  /\ ticket' = [ticket EXCEPT ![p] = 0]
  /\ UNCHANGED <<table, nextSeq, expired, pushes, wm, ins, del, pullVars>>

Resolved(j) ==
  Cardinality(j.accepted) + Cardinality(j.duplicates)
    + Cardinality(j.conflicted) + j.rejected
Attention(j) == Cardinality(j.conflicted) + j.rejected
\* Mutant of CheckpointSafe: entries_resolved is not compared.
CheckpointSafeUncounted(j) == j.retriable = {}
CheckpointSafe(j) ==
  /\ j.retriable = {}
  /\ Resolved(j) = Len(j.batch) + j.rejected

CompletionState(j) ==
  IF j.retriable # {} THEN "blocked"
  ELSE IF Attention(j) > 0 THEN "completed_with_issues"
  ELSE IF CheckpointSafe(j) THEN "success"
  ELSE "in_progress"

\* The last statements of the handler compute the reply, which is then sent.
Reply(p) ==
  /\ job' = [job EXCEPT ![p].safe = CheckpointSafe(job[p]),
                        ![p].state = CompletionState(job[p])]
  /\ pc' = [pc EXCEPT ![p] = "commit"]

\* Mutant of RetentionRows: no watermark.
RetentionRowsAll(p) == {row \in Seen(p) : row.item.id \in expired}

\* The rows the retention DELETE may take: past the window, and no later than
\* the watermark.
RetentionRows(p) ==
  {row \in Seen(p) : row.item.id \in expired /\ row.seq <= wm[p]}

\* The on-push cleanup deletes at most RetentionBatch of them; it waits for
\* a row another push is deleting.
Retain(p) ==
  /\ pc[p] = "retain" /\ Retention
  /\ p \in writers \/ Sharing = {}
  /\ \E D \in SUBSET RetentionRows(p) :
       /\ \/ D = RetentionRows(p) /\ Cardinality(D) <= RetentionBatch
          \/ Cardinality(D) = RetentionBatch
       /\ \A q \in Pushers : D \cap del[q] = {}
       /\ del' = [del EXCEPT ![p] = D]
  /\ writers' = writers \cup {p}
  /\ Reply(p)
  /\ UNCHANGED <<table, nextSeq, expired, pushes, wm, ticket, ins, pullVars>>

\* No retention policy, or the DELETE failed in its savepoint.
SkipRetention(p) ==
  /\ pc[p] = "retain"
  /\ Reply(p)
  /\ UNCHANGED <<table, nextSeq, writers, expired, pushes, wm, ticket, ins,
                 del, pullVars>>

EndTransaction(p) ==
  /\ pc' = [pc EXCEPT ![p] = "idle"]
  /\ job' = [job EXCEPT ![p] = NoJob]
  /\ wm' = [wm EXCEPT ![p] = 0]
  /\ ticket' = [ticket EXCEPT ![p] = 0]
  /\ ins' = [ins EXCEPT ![p] = {}]
  /\ del' = [del EXCEPT ![p] = {}]
  /\ writers' = writers \ {p}

Commit(p) ==
  /\ pc[p] = "commit"
  /\ table' = Seen(p)
  /\ EndTransaction(p)
  /\ UNCHANGED <<nextSeq, expired, pushes, pullVars>>

\* An error outside every savepoint, a lost connection, a crash of the server
\* or a failed COMMIT: the transaction is rolled back.
Abort(p) ==
  /\ pc[p] # "idle"
  /\ EndTransaction(p)
  /\ UNCHANGED <<table, nextSeq, expired, pushes, pullVars>>

-----------------------------------------------------------------------------
(* sync_pull *)

\* Mutant of CanShare: the page is read without the table lock.
CanShareUnlocked == TRUE

\* SHARE conflicts with the ROW EXCLUSIVE of every push that writes.
CanShare == writers = {}

\* LOCK TABLE ... IN SHARE MODE NOWAIT.  While a push holds ROW EXCLUSIVE the
\* pull fails with 503 and changes nothing.
LockPage(r) ==
  /\ rpc[r] = "idle"
  /\ CanShare
  /\ rpc' = [rpc EXCEPT ![r] = "locked"]
  /\ UNCHANGED <<table, nextSeq, writers, expired, pushVars, cur, got, page,
                 nxt, high>>

\* The rows above the cursor that the caller's role lets it see.
Above(r) == {row \in table : row.seq > cur[r] /\ row.by \in Scope[r]}

\* ORDER BY server_sequence LIMIT: a row is in the page when fewer than
\* PageLimit others precede it.
PageRows(r) ==
  {row \in Above(r) :
     Cardinality({x \in Above(r) : x.seq < row.seq}) < PageLimit}

\* Mutants of NextCursor: server_sequence as the cursor, and one that stays.
CursorOfTable(r, n) == IsHighWater(n, table)
CursorStays(r, n) == n = cur[r]

\* next_cursor: the last row of the page, or the cursor when there is none.
NextCursor(r, n) ==
  IF PageRows(r) = {} THEN n = cur[r] ELSE IsHighWater(n, PageRows(r))

\* The page is read, its transaction commits, which drops the lock, and the
\* reply is sent.
ReadPage(r) ==
  /\ rpc[r] = "locked"
  /\ page' = [page EXCEPT ![r] = PageRows(r)]
  /\ \E n \in 0..nextSeq :
       /\ NextCursor(r, n)
       /\ nxt' = [nxt EXCEPT ![r] = n]
  /\ \E n \in 0..nextSeq :
       /\ IsHighWater(n, table)
       /\ high' = [high EXCEPT ![r] = n]
  /\ rpc' = [rpc EXCEPT ![r] = "sent"]
  /\ UNCHANGED <<table, nextSeq, writers, expired, pushVars, cur, got>>

\* The client stores the page and its next_cursor.
ReceivePage(r) ==
  /\ rpc[r] = "sent"
  /\ got' = [got EXCEPT ![r] = @ \cup page[r]]
  /\ cur' = [cur EXCEPT ![r] = nxt[r]]
  /\ rpc' = [rpc EXCEPT ![r] = "idle"]
  /\ page' = [page EXCEPT ![r] = {}]
  /\ nxt' = [nxt EXCEPT ![r] = 0]
  /\ high' = [high EXCEPT ![r] = 0]
  /\ UNCHANGED <<table, nextSeq, writers, expired, pushVars>>

\* The pull fails or its reply is lost; the client will ask again with the
\* cursor it has.
LosePage(r) ==
  /\ rpc[r] # "idle"
  /\ rpc' = [rpc EXCEPT ![r] = "idle"]
  /\ page' = [page EXCEPT ![r] = {}]
  /\ nxt' = [nxt EXCEPT ![r] = 0]
  /\ high' = [high EXCEPT ![r] = 0]
  /\ UNCHANGED <<table, nextSeq, writers, expired, pushVars, cur, got>>

\* Time passes: an entry's timestamp falls out of the retention window.
Expire(id) ==
  /\ Retention /\ id \notin expired
  /\ expired' = expired \cup {id}
  /\ UNCHANGED <<table, nextSeq, writers, pushVars, pullVars>>

-----------------------------------------------------------------------------
PushStep(p) ==
  \/ Begin(p) \/ Classify(p)
  \/ StartRow(p) \/ InsertRow(p) \/ BulkFails(p) \/ RowFails(p)
  \/ Retain(p) \/ SkipRetention(p) \/ Commit(p) \/ Abort(p)

PullStep(r) == LockPage(r) \/ ReadPage(r) \/ ReceivePage(r) \/ LosePage(r)

Next ==
  \/ \E p \in Pushers : PushStep(p)
  \/ \E r \in Readers : PullStep(r)
  \/ \E id \in Ids : Expire(id)

Spec == Init /\ [][Next]_vars

-----------------------------------------------------------------------------
(* What the log promises *)

\* Cursor safety: a committed entry at or below a reader's cursor, and in its
\* scope, has been received.  Sequence values are drawn before they commit
\* and commit in any order, so this is what sync_pull's table lock is for.
NoMissedEntry ==
  \A r \in Readers : \A row \in table :
    row.seq <= cur[r] /\ row.by \in Scope[r] => row \in got[r]

\* The retention cleanup of a push never deletes a row the same push
\* inserted, however old the timestamps it accepted.
RetentionSparesOwnRows == \A p \in Pushers : del[p] \cap ins[p] = {}

\* What a reply lets the client forget: behind a checkpoint_safe reply every
\* entry of the batch is stored under its id, behind "success" with the hash
\* the client sent, unless retention was free to delete it meanwhile.  Holds
\* across concurrent pushes of the same ids, skipped rows and fallbacks.
TruthfulReply ==
  \A p \in Pushers : pc[p] = "commit" =>
    \A i \in DOMAIN job[p].batch :
      LET e    == job[p].batch[i]
          here == table \cup ins[p]
      IN /\ job[p].safe =>
              e.id \in RowIds(here) \cup expired
         /\ job[p].state = "success" =>
              e.id \in expired \/ \E row \in here : row.item = e

\* An entry is counted once: the accepted counts of pushes in flight, which
\* become usage and session totals when they commit, overlap neither with one
\* another nor with what is stored.
AcceptedOnce ==
  \A p \in Pushers : \A i \in job[p].accepted :
    LET id == job[p].batch[i].id
    IN /\ id \notin RowIds(table)
       /\ \A q \in Pushers : \A k \in job[q].accepted :
            job[q].batch[k].id = id => q = p /\ k = i

\* Whatever order transactions draw, commit and delete in, readers see an
\* OrderedFeed: rows appear only ahead of every cursor a reader has or is
\* being sent, and a page holds all of its stretch of the feed.
Feed == INSTANCE OrderedFeed WITH
  Items <- Item,
  feed  <- table,
  offer <- [r \in Readers |-> [sent |-> rpc[r] = "sent", rows |-> page[r],
                               upto |-> nxt[r]]]
ImplementsFeed == Feed!Spec

-----------------------------------------------------------------------------
(* Liveness *)

\* The pushes whose INSERT p's INSERT waits for, and the sets of pushes that
\* wait for one another: PostgreSQL fails a statement of such a set.
Waits(p) ==
  {q \in Pushers : /\ ticket[p] # 0
                   /\ \E i \in job[p].todo :
                        /\ First(i, job[p].todo)
                        /\ q \in Blockers(p, job[p].batch[i].id)}
Deadlocked(p) ==
  \E S \in SUBSET Pushers : p \in S /\ \A q \in S : Waits(q) \cap S # {}
BreakDeadlock(p) == Deadlocked(p) /\ (BulkFails(p) \/ RowFails(p))

\* The statements of a push run to an end, and deadlocks are broken; one that
\* waits for the table lock is queued ahead of later pulls.
PushRuns(p) ==
  \/ Classify(p) \/ InsertRow(p) \/ BreakDeadlock(p) \/ Commit(p)
  \/ ~Retention /\ SkipRetention(p)
PushFairness(p) == WF_vars(PushRuns(p)) /\ SF_vars(StartRow(p) \/ Retain(p))

\* A client repeats a refused pull, so one of its attempts falls between
\* pushes; a reply it asks for again and again arrives at last.
PullFairness(r) ==
  /\ SF_vars(LockPage(r))
  /\ SF_vars(ReadPage(r))
  /\ SF_vars(ReceivePage(r))

FairSpec ==
  /\ Spec
  /\ \A p \in Pushers : PushFairness(p)
  /\ \A r \in Readers : PullFairness(r)

\* Every push ends: waiting for each other's rows or for a pull's table lock
\* never leaves two transactions stuck.
PushEnds == \A p \in Pushers : pc[p] # "idle" ~> pc[p] = "idle"

\* Once the pushes stop, readers converge: again and again a reader has
\* received every entry it may see that retention has left.
Converges ==
  \A r \in Readers :
    []<>(\A row \in table : row.by \in Scope[r] => row \in got[r])
=============================================================================
