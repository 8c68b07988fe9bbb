---------------------------- MODULE EntryLogProofs ----------------------------
(***************************************************************************)
(* Proofs about EntryLog: its types, that retention spares what a push      *)
(* inserted, that readers see an OrderedFeed and so miss nothing, and that  *)
(* replies are truthful, whatever the pushers, readers, batches and limits. *)
(***************************************************************************)
EXTENDS EntryLog, FiniteSetTheorems, TLAPS

-----------------------------------------------------------------------------
(* The inductive invariant *)

\* Sequence values in use have been drawn.
Drawn ==
  /\ \A row \in table : row.seq < nextSeq
  /\ \A p \in Pushers :
       /\ wm[p] < nextSeq /\ ticket[p] < nextSeq
       /\ \A row \in ins[p] : row.seq < nextSeq
  /\ \A r \in Readers : cur[r] < nextSeq /\ nxt[r] < nextSeq

\* Whoever has drawn a value or inserted a row holds ROW EXCLUSIVE, which no
\* pull's SHARE lock coexists with.
Locked ==
  /\ \A p \in Pushers : ticket[p] # 0 \/ ins[p] # {} => p \in writers
  /\ Sharing # {} => writers = {}

\* What is in flight is ahead of every cursor, and of its own watermark.
Ahead(n) ==
  \A r \in Readers : n > cur[r] /\ n > nxt[r]
InFlightAhead ==
  \A p \in Pushers :
    /\ ticket[p] # 0 => Ahead(ticket[p]) /\ ticket[p] > wm[p]
    /\ \A row \in ins[p] : Ahead(row.seq) /\ row.seq > wm[p]

\* Nothing is left over from a push or a pull that has ended, and only a push
\* about to commit has deleted rows.
Rested ==
  /\ \A p \in Pushers :
       /\ pc[p] \in {"idle", "classify"} => ins[p] = {} /\ ticket[p] = 0
       /\ ticket[p] # 0 => pc[p] \in {"bulk", "rows"}
       /\ pc[p] # "commit" => del[p] = {}
  /\ \A r \in Readers : rpc[r] # "sent" => page[r] = {} /\ nxt[r] = 0

\* Retention deletes visible rows past the window, up to the watermark.
Deleted ==
  \A p \in Pushers : \A row \in del[p] :
    row.seq <= wm[p] /\ row.item.id \in expired

Finite == IsFiniteSet(table) /\ \A p \in Pushers : IsFiniteSet(ins[p])

\* A position of a batch is in one place, none is anywhere before the batch is
\* classified or retriable before the fallback, and a push that inserted a row
\* has counted one as accepted.
Counted ==
  \A p \in Pushers :
    LET j == job[p]
    IN /\ j.todo \cap (j.accepted \cup j.retriable \cup j.duplicates
                          \cup j.conflicted) = {}
       /\ j.accepted \cap (j.retriable \cup j.duplicates \cup j.conflicted) = {}
       /\ j.duplicates \cap j.conflicted = {}
       /\ pc[p] \in {"idle", "classify"} => Positions(j) = {}
       /\ pc[p] = "bulk" => j.retriable = {}
       /\ ins[p] # {} => j.accepted # {}

IInv ==
  /\ TypeOK /\ Drawn /\ Locked /\ InFlightAhead /\ Rested /\ Deleted /\ Finite
  /\ Counted

\* What p's reply rests on: an accepted entry is a row p inserted, a duplicate
\* one was stored before and the id of a conflicted one was taken, and these go
\* only past the retention window; the reply says what was counted.
Account(p) ==
  LET j == job[p]
  IN /\ \A i \in j.accepted : \E row \in ins[p] : row.item = j.batch[i]
     /\ \A i \in j.duplicates :
          j.batch[i].id \in expired \/ \E row \in table : row.item = j.batch[i]
     /\ \A i \in j.conflicted : j.batch[i].id \in RowIds(table) \cup expired
     /\ pc[p] # "commit" => ~j.safe /\ j.state = "in_progress"
     /\ j.safe => CheckpointSafe(j)
     /\ j.state = "success" => CheckpointSafe(j) /\ ~(Attention(j) > 0)
Accounted == \A p \in Pushers : Account(p)

\* Every row a push inserted is one it counted as accepted.
Owned ==
  \A p \in Pushers : \A row \in ins[p] :
    \E i \in job[p].accepted : job[p].batch[i] = row.item

-----------------------------------------------------------------------------
(* Types *)

LEMMA BatchesSeq == Batches \subseteq Seq(Item)
  BY EntryLogAssumption DEF Item

LEMMA NoJobType == NoJob \in Job
  BY DEF NoJob, Job, JobFields, Positions

\* A job stays a job when only its positions, streak and reply change.
LEMMA JobPositions ==
  ASSUME NEW j \in Job, NEW k \in JobFields, k.batch = j.batch,
         Positions(k) \subseteq Positions(j)
  PROVE  k \in Job
  BY DEF Job

LEMMA InitTypeOK == Init => TypeOK
  BY NoJobType DEF Init, TypeOK

\* The steps that end a transaction, and those that leave the jobs alone.
LEMMA PlainTypeOK ==
  ASSUME TypeOK, NEW p \in Pushers,
         StartRow(p) \/ Commit(p) \/ Abort(p)
  PROVE  TypeOK'
<1>2. CASE StartRow(p)
  BY <1>2 DEF TypeOK, StartRow, pullVars
<1>3. CASE Commit(p)
  BY NoJobType, <1>3 DEF TypeOK, Commit, EndTransaction, Seen, pullVars
<1>4. CASE Abort(p)
  BY NoJobType, <1>4 DEF TypeOK, Abort, EndTransaction, pullVars
<1> QED
  BY <1>2, <1>3, <1>4

LEMMA BeginTypeOK ==
  ASSUME TypeOK, NEW p \in Pushers, Begin(p)
  PROVE  TypeOK'
<1>1. PICK batch \in Batches, rejected \in 0..MaxRejected :
        job' = [job EXCEPT ![p] = [NoJob EXCEPT !.batch = batch,
                                                !.rejected = rejected]]
  BY DEF Begin
<1>2. [NoJob EXCEPT !.batch = batch, !.rejected = rejected] \in Job
  <2>1. batch \in Seq(Item)
    BY BatchesSeq
  <2>2. MaxRejected \in Nat
    BY EntryLogAssumption
  <2>3. rejected \in Nat
    BY <2>2
  <2> QED
    BY <2>1, <2>3 DEF NoJob, Job, JobFields, Positions
<1>3. job' \in [Pushers -> Job]
  BY <1>1, <1>2 DEF TypeOK
<1> QED
  BY <1>3 DEF TypeOK, Begin, pullVars

LEMMA ClassifyTypeOK ==
  ASSUME TypeOK, NEW p \in Pushers, Classify(p)
  PROVE  TypeOK'
<1> DEFINE batch == job[p].batch
           known == {i \in DOMAIN batch : batch[i].id \in RowIds(table)}
           same  == {i \in known : \E row \in table : row.item = batch[i]}
           j     == [job[p] EXCEPT !.todo = DOMAIN batch \ known,
                                   !.duplicates = same,
                                   !.conflicted = known \ same]
<1>1. job[p] \in Job /\ batch \in Seq(Item)
  BY DEF TypeOK, Job, JobFields
<1>2. DOMAIN batch \subseteq Nat
  BY <1>1
<1>3. known \subseteq DOMAIN batch /\ same \subseteq DOMAIN batch
  OBVIOUS
<1>4. j \in Job
  <2> HIDE DEF known, same
  <2> QED
    BY <1>1, <1>2, <1>3 DEF Job, JobFields, Positions
<1>5. job' = [job EXCEPT ![p] = j]
  BY DEF Classify, TypeOK
<1>6. job' \in [Pushers -> Job]
  <2> HIDE DEF j
  <2> QED
    BY <1>4, <1>5 DEF TypeOK
<1> QED
  BY <1>6 DEF TypeOK, Classify, pullVars

LEMMA InsertRowTypeOK ==
  ASSUME TypeOK, NEW p \in Pushers, InsertRow(p)
  PROVE  TypeOK'
<1>1. PICK i \in job[p].todo :
        LET e       == job[p].batch[i]
            skipped == e.id \in RowIds(table \cup ins[p])
            j       == [job[p] EXCEPT
                          !.todo = @ \ {i},
                          !.accepted = IF skipped THEN @ ELSE @ \cup {i},
                          !.streak = 0]
        IN /\ ins' = [ins EXCEPT ![p] =
                        IF skipped THEN @
                        ELSE @ \cup {[seq |-> ticket[p], item |-> e,
                                      by |-> UserOf[p]]}]
           /\ job' = [job EXCEPT ![p] = j]
           /\ pc' = [pc EXCEPT ![p] = NextStage(p, j)]
  BY DEF InsertRow, Count
<1> DEFINE e       == job[p].batch[i]
           skipped == e.id \in RowIds(table \cup ins[p])
           j       == [job[p] EXCEPT
                         !.todo = @ \ {i},
                         !.accepted = IF skipped THEN @ ELSE @ \cup {i},
                         !.streak = 0]
<1>2. job[p] \in Job /\ job[p] \in JobFields
  BY DEF TypeOK, Job
<1>3. i \in Nat /\ i \in DOMAIN job[p].batch /\ e \in Item
  BY <1>2 DEF Job, JobFields, Positions
<1>4. j \in Job
  <2> HIDE DEF skipped
  <2>1. j \in JobFields /\ j.batch = job[p].batch
    BY <1>2, <1>3 DEF JobFields
  <2>2. Positions(j) \subseteq Positions(job[p])
    BY <1>2 DEF JobFields, Positions
  <2> QED
    BY <1>2, <2>1, <2>2, JobPositions
<1>5. [seq |-> ticket[p], item |-> e, by |-> UserOf[p]] \in Row
  BY <1>3, EntryLogAssumption DEF TypeOK, Row, InsertRow
<1>6. job' \in [Pushers -> Job]
  <2>1. job' = [job EXCEPT ![p] = j]
    BY <1>1
  <2> HIDE DEF j
  <2> QED
    BY <2>1, <1>4 DEF TypeOK
<1>7. ins' \in [Pushers -> SUBSET Row]
  <2> DEFINE row == [seq |-> ticket[p], item |-> e, by |-> UserOf[p]]
  <2>1. ins' = [ins EXCEPT ![p] = IF skipped THEN @ ELSE @ \cup {row}]
    BY <1>1
  <2> HIDE DEF skipped, row
  <2>2. row \in Row
    BY <1>5 DEF row
  <2> QED
    BY <2>1, <2>2 DEF TypeOK
<1>8. NextStage(p, j) \in {"retain", pc[p]}
  BY DEF NextStage
<1>9. pc' = [pc EXCEPT ![p] = NextStage(p, j)]
  BY <1>1
<1> QED
  <2> HIDE DEF j
  <2> QED
    BY <1>6, <1>7, <1>8, <1>9 DEF TypeOK, InsertRow, pullVars

LEMMA FailuresTypeOK ==
  ASSUME TypeOK, NEW p \in Pushers, BulkFails(p) \/ RowFails(p)
  PROVE  TypeOK'
<1>1. job[p] \in Job /\ job[p] \in JobFields /\ DOMAIN job[p].batch \subseteq Nat
  BY DEF TypeOK, Job, JobFields
<1>2. CASE BulkFails(p)
  <2> DEFINE j == [job[p] EXCEPT !.todo = Fresh(job[p]), !.accepted = {}]
  <2>1. j \in Job
    BY <1>1 DEF Job, JobFields, Positions, Fresh
  <2>2. job' = [job EXCEPT ![p] = j]
    BY <1>2 DEF BulkFails, TypeOK
  <2>3. job' \in [Pushers -> Job]
    <3> HIDE DEF j
    <3> QED
      BY <2>1, <2>2 DEF TypeOK
  <2> QED
    BY <1>2, <2>3 DEF TypeOK, BulkFails, pullVars
<1>3. CASE RowFails(p)
  <2>1. PICK failed \in SUBSET job[p].todo :
          LET j == [job[p] EXCEPT !.todo = @ \ failed,
                                  !.retriable = @ \cup failed,
                                  !.streak = @ + 1]
          IN /\ job' = [job EXCEPT ![p] = j]
             /\ pc' = [pc EXCEPT ![p] = NextStage(p, j)]
    <3>1. PICK i \in job[p].todo :
            LET failed == IF job[p].streak + 1 = FailureCap
                          THEN job[p].todo ELSE {i}
                j      == [job[p] EXCEPT !.todo = @ \ failed,
                                         !.retriable = @ \cup failed,
                                         !.streak = @ + 1]
            IN /\ job' = [job EXCEPT ![p] = j]
               /\ pc' = [pc EXCEPT ![p] = NextStage(p, j)]
      BY <1>3 DEF RowFails
    <3> DEFINE f == IF job[p].streak + 1 = FailureCap
                    THEN job[p].todo ELSE {i}
    <3>2. f \in SUBSET job[p].todo
      OBVIOUS
    <3> QED
      BY <3>1, <3>2
  <2> DEFINE j == [job[p] EXCEPT !.todo = @ \ failed,
                                 !.retriable = @ \cup failed,
                                 !.streak = @ + 1]
  <2>2. j \in JobFields /\ j.batch = job[p].batch
    <3>1. job[p].streak + 1 \in Nat /\ job[p].todo \ failed \in SUBSET Nat
          /\ job[p].retriable \cup failed \in SUBSET Nat
      BY <1>1 DEF JobFields
    <3> QED
      BY <1>1, <3>1 DEF JobFields
  <2>3. Positions(j) \subseteq Positions(job[p])
    BY <1>1 DEF JobFields, Positions
  <2>4. j \in Job
    <3> HIDE DEF j
    <3> QED
      BY <1>1, <2>2, <2>3, JobPositions
  <2>5. NextStage(p, j) \in {"retain", pc[p]}
    BY DEF NextStage
  <2> QED
    <3>1. job' = [job EXCEPT ![p] = j] /\ pc' = [pc EXCEPT ![p] = NextStage(p, j)]
      BY <2>1
    <3> HIDE DEF j
    <3> QED
      BY <1>3, <2>4, <2>5, <3>1 DEF TypeOK, RowFails, pullVars
<1> QED
  BY <1>2, <1>3

LEMMA RetentionTypeOK ==
  ASSUME TypeOK, NEW p \in Pushers, Retain(p) \/ SkipRetention(p)
  PROVE  TypeOK'
<1> DEFINE j == [job[p] EXCEPT !.safe = CheckpointSafe(job[p]),
                               !.state = CompletionState(job[p])]
<1>1. job[p] \in Job /\ job[p] \in JobFields
  BY DEF TypeOK, Job
<1>2. CheckpointSafe(job[p]) \in BOOLEAN
  BY DEF CheckpointSafe
<1>3. CompletionState(job[p])
        \in {"in_progress", "success", "completed_with_issues", "blocked"}
  BY DEF CompletionState
<1>4. j \in Job
  BY <1>1, <1>2, <1>3 DEF Job, JobFields, Positions
<1>5. job' = [job EXCEPT ![p] = j]
  BY DEF Retain, SkipRetention, Reply, TypeOK
<1>6. job' \in [Pushers -> Job]
  <2> HIDE DEF j
  <2> QED
    BY <1>4, <1>5 DEF TypeOK
<1>7. CASE Retain(p)
  <2>1. RetentionRows(p) \subseteq Row
    BY DEF RetentionRows, Seen, TypeOK
  <2>2. del' \in [Pushers -> SUBSET Row]
    BY <1>7, <2>1 DEF Retain, TypeOK
  <2> QED
    BY <1>6, <1>7, <2>2 DEF TypeOK, Retain, Reply, pullVars
<1>8. CASE SkipRetention(p)
  BY <1>6, <1>8 DEF TypeOK, SkipRetention, Reply, pullVars
<1> QED
  BY <1>7, <1>8

LEMMA PullTypeOK ==
  ASSUME TypeOK, NEW r \in Readers, PullStep(r)
  PROVE  TypeOK'
<1>1. CASE LockPage(r)
  BY <1>1 DEF TypeOK, LockPage, pushVars
<1>2. CASE ReadPage(r)
  <2>1. PageRows(r) \subseteq Row
    BY DEF PageRows, Above, TypeOK
  <2> QED
    BY <1>2, <2>1 DEF TypeOK, ReadPage, pushVars
<1>3. CASE ReceivePage(r)
  BY <1>3 DEF TypeOK, ReceivePage, pushVars
<1>4. CASE LosePage(r)
  BY <1>4 DEF TypeOK, LosePage, pushVars
<1> QED
  BY <1>1, <1>2, <1>3, <1>4 DEF PullStep

LEMMA NextTypeOK == TypeOK /\ [Next]_vars => TypeOK'
<1> SUFFICES ASSUME TypeOK, [Next]_vars
             PROVE  TypeOK'
  OBVIOUS
<1>1. ASSUME NEW p \in Pushers, PushStep(p)
      PROVE  TypeOK'
  BY <1>1, PlainTypeOK, BeginTypeOK, ClassifyTypeOK, InsertRowTypeOK,
     FailuresTypeOK, RetentionTypeOK DEF PushStep
<1>2. ASSUME NEW id \in Ids, Expire(id)
      PROVE  TypeOK'
  BY <1>2 DEF TypeOK, Expire, pushVars, pullVars
<1>3. CASE UNCHANGED vars
  BY <1>3 DEF TypeOK, vars, pushVars, pullVars
<1> QED
  BY <1>1, <1>2, <1>3, PullTypeOK DEF Next

\* Every variable of the log keeps its type: for any batches, the positions a
\* push counts are positions of its batch, and rows carry drawn numbers.
THEOREM TypeCorrect == Spec => []TypeOK
  BY InitTypeOK, NextTypeOK, PTL DEF Spec

-----------------------------------------------------------------------------
(* What the steps that count positions do *)

\* An INSERT moves one position out of todo; with at most one row, numbered by
\* the ticket and with an id nobody has stored or inserted, it is accepted.
InsertsRow(p, i, row) ==
  /\ i \in job[p].todo
  /\ row.seq = ticket[p] /\ row.item = job[p].batch[i]
  /\ \/ ins' = ins /\ job'[p].accepted = job[p].accepted
     \/ /\ ins' = [ins EXCEPT ![p] = @ \cup {row}]
        /\ job'[p].accepted = job[p].accepted \cup {i}
        /\ job[p].batch[i].id \notin RowIds(table)
        /\ \A q \in Pushers : job[p].batch[i].id \notin RowIds(ins[q])
  /\ job'[p] = [job[p] EXCEPT !.todo = @ \ {i}, !.streak = 0,
                              !.accepted = job'[p].accepted]
  /\ \A q \in Pushers \ {p} : job'[q] = job[q]

LEMMA InsertRowSummary ==
  ASSUME TypeOK, NEW p \in Pushers, InsertRow(p)
  PROVE  \E i, row : InsertsRow(p, i, row)
<1>1. PICK i \in job[p].todo :
        LET e       == job[p].batch[i]
            skipped == e.id \in RowIds(table \cup ins[p])
            j       == [job[p] EXCEPT
                          !.todo = @ \ {i},
                          !.accepted = IF skipped THEN @ ELSE @ \cup {i},
                          !.streak = 0]
        IN /\ Blockers(p, e.id) = {}
           /\ ins' = [ins EXCEPT ![p] =
                        IF skipped THEN @
                        ELSE @ \cup {[seq |-> ticket[p], item |-> e,
                                      by |-> UserOf[p]]}]
           /\ job' = [job EXCEPT ![p] = j]
  BY DEF InsertRow, Count
<1> DEFINE e       == job[p].batch[i]
           skipped == e.id \in RowIds(table \cup ins[p])
           row     == [seq |-> ticket[p], item |-> e, by |-> UserOf[p]]
           j       == [job[p] EXCEPT
                         !.todo = @ \ {i},
                         !.accepted = IF skipped THEN @ ELSE @ \cup {i},
                         !.streak = 0]
<1>2. job[p] \in JobFields
  BY DEF TypeOK, Job
<1>3. job'[p] = j /\ \A q \in Pushers \ {p} : job'[q] = job[q]
  BY <1>1 DEF TypeOK
<1>4. ins' = [ins EXCEPT ![p] = IF skipped THEN @ ELSE @ \cup {row}]
  BY <1>1
<1>5. j.accepted = IF skipped THEN job[p].accepted ELSE job[p].accepted \cup {i}
  BY <1>2 DEF JobFields
<1>6. CASE skipped
  <2>1. ins' = ins
    BY <1>4, <1>6 DEF TypeOK
  <2>2. job'[p] = [job[p] EXCEPT !.todo = @ \ {i}, !.streak = 0,
                                 !.accepted = job'[p].accepted]
    BY <1>2, <1>3, <1>6 DEF JobFields
  <2>3. job'[p].accepted = job[p].accepted
    BY <1>3, <1>5, <1>6
  <2>4. row.seq = ticket[p] /\ row.item = job[p].batch[i]
    OBVIOUS
  <2> QED
    BY <1>3, <2>1, <2>2, <2>3, <2>4 DEF InsertsRow
<1>7. CASE ~skipped
  <2>1. ins' = [ins EXCEPT ![p] = @ \cup {row}]
    BY <1>4, <1>7
  <2>2. job'[p] = [job[p] EXCEPT !.todo = @ \ {i}, !.streak = 0,
                                 !.accepted = job'[p].accepted]
    BY <1>2, <1>3, <1>7 DEF JobFields
  <2>3. job'[p].accepted = job[p].accepted \cup {i}
    BY <1>3, <1>5, <1>7
  <2>4. row.seq = ticket[p] /\ row.item = job[p].batch[i]
    OBVIOUS
  <2>5. /\ e.id \notin RowIds(table)
        /\ \A q \in Pushers : e.id \notin RowIds(ins[q])
    <3>1. Blockers(p, e.id) = {}
      BY <1>1
    <3> QED
      BY <1>7, <3>1 DEF Blockers, RowIds
  <2> QED
    BY <1>3, <2>1, <2>2, <2>3, <2>4, <2>5 DEF InsertsRow
<1> QED
  BY <1>6, <1>7

\* A failed row, or all that remain, move from todo to retriable; the lock may
\* go only when no position has gone through.
LosesRows(p, failed) ==
  /\ failed \subseteq job[p].todo
  /\ job'[p] = [job[p] EXCEPT !.todo = @ \ failed, !.streak = @ + 1,
                              !.retriable = @ \cup failed]
  /\ \A q \in Pushers \ {p} : job'[q] = job[q]
  /\ \/ writers' = writers
     \/ /\ writers' = writers \ {p}
        /\ Fresh(job[p]) \subseteq job[p].todo \cup job[p].retriable

LEMMA RowFailsSummary ==
  ASSUME TypeOK, NEW p \in Pushers, RowFails(p)
  PROVE  \E failed : LosesRows(p, failed)
<1>1. PICK i \in job[p].todo :
        LET failed  == IF job[p].streak + 1 = FailureCap
                       THEN job[p].todo ELSE {i}
            j       == [job[p] EXCEPT !.todo = @ \ failed,
                                      !.retriable = @ \cup failed,
                                      !.streak = @ + 1]
            through == Fresh(job[p]) \ (job[p].todo \cup job[p].retriable)
        IN /\ job' = [job EXCEPT ![p] = j]
           /\ writers' = IF through # {} THEN writers ELSE writers \ {p}
  BY DEF RowFails
<1> DEFINE failed  == IF job[p].streak + 1 = FailureCap
                      THEN job[p].todo ELSE {i}
           j       == [job[p] EXCEPT !.todo = @ \ failed,
                                     !.retriable = @ \cup failed,
                                     !.streak = @ + 1]
<1>2. job[p] \in JobFields
  BY DEF TypeOK, Job
<1>3. job'[p] = j /\ \A q \in Pushers \ {p} : job'[q] = job[q]
  BY <1>1 DEF TypeOK
<1>4. failed \subseteq job[p].todo
  OBVIOUS
<1>5. \/ writers' = writers
      \/ /\ writers' = writers \ {p}
         /\ Fresh(job[p]) \subseteq job[p].todo \cup job[p].retriable
  BY <1>1
<1>6. j = [job[p] EXCEPT !.todo = @ \ failed, !.streak = @ + 1,
                         !.retriable = @ \cup failed]
  <2> HIDE DEF failed
  <2> QED
    BY <1>2 DEF JobFields
<1> HIDE DEF failed, j
<1> QED
  BY <1>3, <1>4, <1>5, <1>6 DEF LosesRows

-----------------------------------------------------------------------------
(* The inductive invariant holds *)

LEMMA InitIInv == Init => IInv
<1> SUFFICES ASSUME Init
             PROVE  IInv
  OBVIOUS
<1>1. Counted
  BY DEF Init, Counted, Positions, NoJob
<1> QED
  BY <1>1, InitTypeOK, FS_EmptySet
     DEF Init, IInv, Drawn, Locked, Sharing, InFlightAhead, Rested, Deleted,
         Finite

LEMMA BeginIInv ==
  ASSUME IInv, TypeOK', NEW p \in Pushers, Begin(p)
  PROVE  IInv'
<1> USE DEF Begin, pullVars
<1>0. TypeOK
  BY DEF IInv
<1>1. job[p] \in JobFields
  BY DEF IInv, TypeOK, Job
<1>2. \A q \in Pushers : Positions(job'[q]) = {} \/ job'[q] = job[q]
  <2>1. PICK batch, rejected :
          job' = [job EXCEPT ![p] = [NoJob EXCEPT !.batch = batch,
                                                  !.rejected = rejected]]
    BY DEF Begin
  <2> DEFINE j == [NoJob EXCEPT !.batch = batch, !.rejected = rejected]
  <2>2. Positions(j) = {}
    BY DEF NoJob, Positions
  <2> HIDE DEF j
  <2>3. job' = [job EXCEPT ![p] = j]
    BY <2>1 DEF j
  <2> QED
    BY <2>2, <2>3 DEF IInv, TypeOK
<1>20. Drawn'
  BY DEF IInv, TypeOK, Drawn, Row, IsHighWater
<1>21. Locked'
  BY DEF IInv, TypeOK, Locked, Sharing
<1>22. InFlightAhead'
  BY DEF IInv, TypeOK, Drawn, InFlightAhead, Ahead, Rested
<1>23. Rested'
  BY DEF IInv, TypeOK, Rested
<1>24. Deleted'
  BY DEF IInv, TypeOK, Deleted, Rested
<1>25. Finite'
  BY DEF IInv, TypeOK, Finite
<1>26. Counted'
  <2>1. \A q \in Pushers : ins'[q] = ins[q]
    OBVIOUS
  <2>2. ins[p] = {} /\ pc[p] = "idle" /\ Positions(job[p]) = {}
    BY DEF IInv, Rested, Counted
  <2>3. \A q \in Pushers \ {p} : pc'[q] = pc[q] /\ job'[q] = job[q]
    BY DEF IInv, TypeOK
  <2>4. Positions(job'[p]) = {}
    BY <1>2, <2>2
  <2> QED
    BY <2>1, <2>2, <2>3, <2>4 DEF IInv, Counted, Positions
<1> QED
  BY <1>20, <1>21, <1>22, <1>23, <1>24, <1>25, <1>26 DEF IInv

LEMMA ClassifyIInv ==
  ASSUME IInv, TypeOK', NEW p \in Pushers, Classify(p)
  PROVE  IInv'
<1>1. /\ UNCHANGED <<table, nextSeq, writers, expired, pushes, wm, ticket,
                     ins, del, pullVars>>
      /\ pc[p] = "classify"
      /\ \E s \in {"retain", "bulk"} : pc' = [pc EXCEPT ![p] = s]
  BY DEF Classify
<1>2. Drawn' /\ Locked' /\ InFlightAhead' /\ Deleted' /\ Finite'
  BY <1>1 DEF IInv, Drawn, Locked, Sharing, InFlightAhead, Ahead, Deleted,
              Finite, pullVars
<1>3. Rested'
  BY <1>1 DEF IInv, TypeOK, Rested, pullVars
<1>4. Counted'
  <2> DEFINE batch == job[p].batch
             known == {i \in DOMAIN batch : batch[i].id \in RowIds(table)}
             same  == {i \in known : \E row \in table : row.item = batch[i]}
             todo  == DOMAIN batch \ known
             other == known \ same
  <2>1. job' = [job EXCEPT ![p].todo = todo, ![p].duplicates = same,
                           ![p].conflicted = other]
    BY DEF Classify
  <2>2. /\ todo \cap (same \cup other) = {} /\ same \cap other = {}
    OBVIOUS
  <2> HIDE DEF todo, same, other
  <2>3. job[p] \in JobFields /\ job \in [Pushers -> Job]
    BY DEF IInv, TypeOK, Job
  <2>4. job[p].accepted = {} /\ job[p].retriable = {}
    BY <1>1 DEF IInv, Counted, Positions
  <2>5. /\ job'[p].todo = todo /\ job'[p].duplicates = same
        /\ job'[p].conflicted = other
        /\ job'[p].accepted = {} /\ job'[p].retriable = {}
        /\ \A q \in Pushers \ {p} : job'[q] = job[q]
    BY <2>1, <2>3, <2>4 DEF JobFields
  <2>6. ins'[p] = {} /\ pc'[p] \notin {"idle", "classify"}
    BY <1>1 DEF IInv, TypeOK, Rested
  <2>7. \A q \in Pushers \ {p} : pc'[q] = pc[q] /\ ins'[q] = ins[q]
    BY <1>1 DEF IInv, TypeOK
  <2> QED
    BY <2>2, <2>5, <2>6, <2>7 DEF IInv, Counted, Positions
<1> QED
  BY <1>2, <1>3, <1>4 DEF IInv

LEMMA StartRowIInv ==
  ASSUME IInv, TypeOK', NEW p \in Pushers, StartRow(p)
  PROVE  IInv'
<1> USE DEF StartRow, pullVars
<1>1. Drawn'
  BY DEF IInv, TypeOK, Drawn, Row
<1>2. Locked'
  BY DEF IInv, TypeOK, Locked, Sharing
<1>3. InFlightAhead'
  BY DEF IInv, TypeOK, Drawn, InFlightAhead, Ahead, Rested
<1>4. Rested'
  BY DEF IInv, TypeOK, Rested
<1>5. Deleted' /\ Finite' /\ Counted'
  BY DEF IInv, Deleted, Finite, Counted
<1> QED
  BY <1>1, <1>2, <1>3, <1>4, <1>5 DEF IInv

LEMMA InsertRowIInv ==
  ASSUME IInv, TypeOK', NEW p \in Pushers, InsertRow(p)
  PROVE  IInv'
<1>1. PICK i, row : InsertsRow(p, i, row)
  BY InsertRowSummary DEF IInv
<1>2. /\ UNCHANGED <<table, nextSeq, writers, expired, pushes, wm, del,
                     pullVars>>
      /\ ticket[p] # 0 /\ ticket' = [ticket EXCEPT ![p] = 0]
      /\ \E s \in {"retain", pc[p]} : pc' = [pc EXCEPT ![p] = s]
  BY DEF InsertRow, NextStage
<1>3. /\ \A q \in Pushers \ {p} : ins'[q] = ins[q]
      /\ \A x \in ins'[p] : x \in ins[p] \/ x = row
      /\ ins'[p] \subseteq ins[p] \cup {row}
      /\ row.seq = ticket[p]
      /\ \A q \in Pushers : ins'[q] = ins[q] \/ ins'[q] = ins[q] \cup {row}
  BY <1>1 DEF InsertsRow, IInv, TypeOK
<1>4. /\ pc[p] \in {"bulk", "rows"} /\ pc'[p] \in {"retain", pc[p]}
      /\ \A q \in Pushers \ {p} : pc'[q] = pc[q] /\ ticket'[q] = ticket[q]
      /\ ticket'[p] = 0
  BY <1>2 DEF IInv, TypeOK, Rested
<1>5. Drawn'
  BY <1>2, <1>3, <1>4 DEF IInv, TypeOK, Drawn, pullVars
<1>6. Locked'
  BY <1>2, <1>3, <1>4 DEF IInv, TypeOK, Locked, Sharing, pullVars
<1>7. InFlightAhead'
  BY <1>2, <1>3, <1>4 DEF IInv, TypeOK, InFlightAhead, Ahead, pullVars
<1>8. Rested'
  BY <1>2, <1>3, <1>4 DEF IInv, TypeOK, Rested, pullVars
<1>9. Deleted'
  BY <1>2 DEF IInv, Deleted
<1>10. Finite'
  BY <1>2, <1>3, FS_AddElement DEF IInv, Finite
<1>11. Counted'
  <2>1. job[p] \in JobFields
    BY DEF IInv, TypeOK, Job
  <2>2. /\ job'[p].todo = job[p].todo \ {i}
        /\ job'[p].retriable = job[p].retriable
        /\ job'[p].duplicates = job[p].duplicates
        /\ job'[p].conflicted = job[p].conflicted
    BY <1>1, <2>1 DEF InsertsRow, JobFields
  <2>3. /\ job'[p].accepted \in {job[p].accepted, job[p].accepted \cup {i}}
        /\ ins'[p] # {} => job'[p].accepted # {}
    BY <1>1 DEF InsertsRow, IInv, TypeOK, Counted
  <2>4. i \in job[p].todo /\ \A q \in Pushers \ {p} : job'[q] = job[q]
    BY <1>1 DEF InsertsRow
  <2> QED
    BY <1>3, <1>4, <2>2, <2>3, <2>4 DEF IInv, Counted, Positions
<1> QED
  BY <1>5, <1>6, <1>7, <1>8, <1>9, <1>10, <1>11 DEF IInv

LEMMA BulkFailsIInv ==
  ASSUME IInv, TypeOK', NEW p \in Pushers, BulkFails(p)
  PROVE  IInv'
<1>1. /\ UNCHANGED <<table, nextSeq, expired, pushes, wm, del, pullVars>>
      /\ ins' = [ins EXCEPT ![p] = {}] /\ ticket' = [ticket EXCEPT ![p] = 0]
      /\ writers' = writers \ {p}
      /\ pc[p] = "bulk" /\ pc' = [pc EXCEPT ![p] = "rows"]
  BY DEF BulkFails
<1>2. Drawn'
  BY <1>1 DEF IInv, TypeOK, Drawn, pullVars
<1>3. Locked'
  BY <1>1 DEF IInv, TypeOK, Locked, Sharing, pullVars
<1>4. InFlightAhead'
  BY <1>1 DEF IInv, TypeOK, InFlightAhead, Ahead, pullVars
<1>5. Rested'
  BY <1>1 DEF IInv, TypeOK, Rested, pullVars
<1>6. Deleted'
  BY <1>1 DEF IInv, Deleted
<1>7. Finite'
  BY <1>1, FS_EmptySet DEF IInv, TypeOK, Finite
<1>8. Counted'
  <2>1. job[p] \in JobFields
    BY DEF IInv, TypeOK, Job
  <2>2. /\ job'[p].todo = Fresh(job[p]) /\ job'[p].accepted = {}
        /\ job'[p].retriable = job[p].retriable
        /\ job'[p].duplicates = job[p].duplicates
        /\ job'[p].conflicted = job[p].conflicted
        /\ \A q \in Pushers \ {p} : job'[q] = job[q]
    BY <2>1 DEF BulkFails, IInv, TypeOK, JobFields
  <2>3. job[p].retriable = {}
    BY <1>1 DEF IInv, Counted
  <2> QED
    BY <1>1, <2>2, <2>3 DEF IInv, TypeOK, Counted, Positions, Fresh
<1> QED
  BY <1>2, <1>3, <1>4, <1>5, <1>6, <1>7, <1>8 DEF IInv

LEMMA RowFailsIInv ==
  ASSUME IInv, TypeOK', NEW p \in Pushers, RowFails(p)
  PROVE  IInv'
<1>1. PICK failed : LosesRows(p, failed)
  BY RowFailsSummary DEF IInv
<1>2. /\ UNCHANGED <<table, nextSeq, expired, pushes, wm, ins, del, pullVars>>
      /\ ticket[p] # 0 /\ ticket' = [ticket EXCEPT ![p] = 0]
      /\ pc[p] = "rows"
      /\ \E s \in {"retain", "rows"} : pc' = [pc EXCEPT ![p] = s]
  BY DEF RowFails, NextStage
<1>3. job[p] \in JobFields /\ job[p].accepted \subseteq DOMAIN job[p].batch
  BY DEF IInv, TypeOK, Job, Positions
<1>4. /\ job'[p].todo = job[p].todo \ failed
      /\ job'[p].retriable = job[p].retriable \cup failed
      /\ job'[p].accepted = job[p].accepted
      /\ job'[p].duplicates = job[p].duplicates
      /\ job'[p].conflicted = job[p].conflicted
      /\ failed \subseteq job[p].todo
      /\ \A q \in Pushers \ {p} : job'[q] = job[q]
  BY <1>1, <1>3 DEF LosesRows, JobFields
<1>5. Drawn'
  BY <1>2 DEF IInv, TypeOK, Drawn, pullVars
<1>6. Locked'
  <2>1. \/ writers' = writers
        \/ writers' = writers \ {p} /\ ins[p] = {}
    <3>1. ASSUME Fresh(job[p]) \subseteq job[p].todo \cup job[p].retriable
          PROVE  job[p].accepted = {}
      BY <1>3, <3>1 DEF Fresh, IInv, Counted
    <3>2. job[p].accepted = {} => ins[p] = {}
      BY DEF IInv, Counted
    <3> QED
      BY <1>1, <3>1, <3>2 DEF LosesRows
  <2> QED
    BY <1>2, <2>1 DEF IInv, TypeOK, Locked, Sharing, pullVars
<1>7. InFlightAhead'
  BY <1>2 DEF IInv, TypeOK, InFlightAhead, Ahead, pullVars
<1>8. Rested'
  BY <1>2 DEF IInv, TypeOK, Rested, pullVars
<1>9. Deleted' /\ Finite'
  BY <1>2 DEF IInv, Deleted, Finite
<1>10. Counted'
  BY <1>2, <1>4 DEF IInv, TypeOK, Counted, Positions
<1> QED
  BY <1>5, <1>6, <1>7, <1>8, <1>9, <1>10 DEF IInv

\* The reply keeps the counts.
LEMMA ReplyCounted ==
  ASSUME IInv, TypeOK', NEW p \in Pushers, Reply(p), UNCHANGED ins
  PROVE  Counted'
<1>1. job[p] \in JobFields /\ job \in [Pushers -> Job]
  BY DEF IInv, TypeOK, Job
<1>2. /\ job'[p].todo = job[p].todo
      /\ job'[p].retriable = job[p].retriable
      /\ job'[p].accepted = job[p].accepted
      /\ job'[p].duplicates = job[p].duplicates
      /\ job'[p].conflicted = job[p].conflicted
      /\ \A q \in Pushers \ {p} : job'[q] = job[q]
  BY <1>1 DEF Reply, JobFields
<1>3. pc' = [pc EXCEPT ![p] = "commit"]
  BY DEF Reply
<1> QED
  BY <1>2, <1>3 DEF IInv, TypeOK, Counted, Positions

LEMMA RetainIInv ==
  ASSUME IInv, TypeOK', NEW p \in Pushers, Retain(p)
  PROVE  IInv'
<1>1. /\ UNCHANGED <<table, nextSeq, expired, pushes, wm, ticket, ins,
                     pullVars>>
      /\ p \in writers \/ Sharing = {}
      /\ writers' = writers \cup {p}
      /\ pc[p] = "retain" /\ pc' = [pc EXCEPT ![p] = "commit"]
      /\ Reply(p)
  BY DEF Retain, Reply
<1>2. PICK D \in SUBSET RetentionRows(p) : del' = [del EXCEPT ![p] = D]
  BY DEF Retain
<1>3. Drawn'
  BY <1>1 DEF IInv, Drawn, pullVars
<1>4. Locked'
  BY <1>1 DEF IInv, Locked, Sharing, pullVars
<1>5. InFlightAhead'
  BY <1>1 DEF IInv, InFlightAhead, Ahead, pullVars
<1>6. Rested'
  BY <1>1, <1>2 DEF IInv, TypeOK, Rested, pullVars
<1>7. Deleted'
  BY <1>1, <1>2 DEF IInv, TypeOK, Deleted, RetentionRows
<1>8. Finite' /\ Counted'
  BY <1>1, ReplyCounted DEF IInv, Finite
<1> QED
  BY <1>3, <1>4, <1>5, <1>6, <1>7, <1>8 DEF IInv

LEMMA SkipRetentionIInv ==
  ASSUME IInv, TypeOK', NEW p \in Pushers, SkipRetention(p)
  PROVE  IInv'
<1>1. /\ UNCHANGED <<table, nextSeq, writers, expired, pushes, wm, ticket,
                     ins, del, pullVars>>
      /\ pc[p] = "retain" /\ pc' = [pc EXCEPT ![p] = "commit"]
      /\ Reply(p)
  BY DEF SkipRetention, Reply
<1>2. Drawn' /\ Locked' /\ InFlightAhead' /\ Deleted' /\ Finite' /\ Counted'
  BY <1>1, ReplyCounted
     DEF IInv, Drawn, Locked, Sharing, InFlightAhead, Ahead, Deleted, Finite,
         pullVars
<1>3. Rested'
  BY <1>1 DEF IInv, TypeOK, Rested, pullVars
<1> QED
  BY <1>2, <1>3 DEF IInv

LEMMA EndIInv ==
  ASSUME IInv, TypeOK', NEW p \in Pushers, Commit(p) \/ Abort(p)
  PROVE  IInv'
<1>1. /\ EndTransaction(p)
      /\ UNCHANGED <<nextSeq, expired, pushes, pullVars>>
      /\ table' = table \/ table' = Seen(p)
  BY DEF Commit, Abort
<1>2. Seen(p) \subseteq table \cup ins[p]
  BY DEF Seen
<1>3. /\ \A q \in Pushers \ {p} : /\ pc'[q] = pc[q] /\ job'[q] = job[q]
                                  /\ wm'[q] = wm[q] /\ ticket'[q] = ticket[q]
                                  /\ ins'[q] = ins[q] /\ del'[q] = del[q]
      /\ pc'[p] = "idle" /\ job'[p] = NoJob /\ wm'[p] = 0 /\ ticket'[p] = 0
      /\ ins'[p] = {} /\ del'[p] = {}
      /\ writers' = writers \ {p}
  BY <1>1 DEF EndTransaction, IInv, TypeOK
<1>4. Drawn'
  BY <1>1, <1>2, <1>3 DEF IInv, TypeOK, Drawn, pullVars
<1>5. Locked'
  BY <1>1, <1>3 DEF IInv, TypeOK, Locked, Sharing, pullVars
<1>6. InFlightAhead'
  BY <1>1, <1>3 DEF IInv, TypeOK, InFlightAhead, Ahead, pullVars
<1>7. Rested'
  BY <1>1, <1>3 DEF IInv, TypeOK, Rested, pullVars
<1>8. Deleted'
  BY <1>1, <1>3 DEF IInv, TypeOK, Deleted
<1>9. Finite'
  <2>1. IsFiniteSet(table \cup ins[p])
    BY FS_Union DEF IInv, Finite
  <2>2. IsFiniteSet(table')
    BY <1>1, <1>2, <2>1, FS_Subset DEF IInv, Finite
  <2> QED
    BY <1>3, <2>2, FS_EmptySet DEF IInv, Finite
<1>10. Counted'
  BY <1>3 DEF IInv, Counted, Positions, NoJob
<1> QED
  BY <1>4, <1>5, <1>6, <1>7, <1>8, <1>9, <1>10 DEF IInv

LEMMA PullIInv ==
  ASSUME IInv, TypeOK', NEW r \in Readers, PullStep(r)
  PROVE  IInv'
<1>1. UNCHANGED <<table, nextSeq, writers, expired, pushVars>>
  BY DEF PullStep, LockPage, ReadPage, ReceivePage, LosePage
<1>2. Deleted' /\ Finite' /\ Counted'
  BY <1>1 DEF IInv, Deleted, Finite, Counted, pushVars
<1>3. CASE LockPage(r)
  <2> USE <1>3 DEF LockPage, CanShare, pushVars
  <2>1. Drawn' /\ InFlightAhead'
    BY DEF IInv, Drawn, InFlightAhead, Ahead
  <2>2. Locked' /\ Rested'
    BY DEF IInv, TypeOK, Locked, Sharing, Rested
  <2> QED
    BY <1>2, <2>1, <2>2 DEF IInv
<1>4. CASE ReadPage(r)
  <2> USE <1>4 DEF ReadPage, NextCursor, pushVars
  <2>1. writers = {}
    BY DEF IInv, Locked, Sharing
  <2>2. nxt'[r] < nextSeq
    <3>1. PageRows(r) \subseteq table
      BY DEF PageRows, Above
    <3> QED
      BY <3>1 DEF IInv, TypeOK, Drawn, Row, IsHighWater
  <2>3. Drawn'
    BY <2>2 DEF IInv, TypeOK, Drawn
  <2>4. \A p \in Pushers : ticket[p] = 0 /\ ins[p] = {}
    BY <2>1 DEF IInv, Locked
  <2>5. Locked' /\ InFlightAhead' /\ Rested'
    BY <2>1, <2>4 DEF IInv, TypeOK, Locked, Sharing, InFlightAhead, Rested
  <2> QED
    BY <1>2, <2>3, <2>5 DEF IInv
<1>5. CASE ReceivePage(r)
  <2> USE <1>5 DEF ReceivePage, pushVars
  <2>1. Drawn'
    BY DEF IInv, TypeOK, Drawn
  <2>2. InFlightAhead'
    BY DEF IInv, TypeOK, InFlightAhead, Ahead, Row
  <2>3. Locked' /\ Rested'
    BY DEF IInv, TypeOK, Locked, Sharing, Rested
  <2> QED
    BY <1>2, <2>1, <2>2, <2>3 DEF IInv
<1>6. CASE LosePage(r)
  <2> USE <1>6 DEF LosePage, pushVars
  <2>1. Drawn'
    BY DEF IInv, TypeOK, Drawn
  <2>2. InFlightAhead'
    BY DEF IInv, TypeOK, InFlightAhead, Ahead, Row
  <2>3. Locked' /\ Rested'
    BY DEF IInv, TypeOK, Locked, Sharing, Rested
  <2> QED
    BY <1>2, <2>1, <2>2, <2>3 DEF IInv
<1> QED
  BY <1>3, <1>4, <1>5, <1>6 DEF PullStep

LEMMA NextIInv == IInv /\ [Next]_vars => IInv'
<1> SUFFICES ASSUME IInv, [Next]_vars
             PROVE  IInv'
  OBVIOUS
<1>1. TypeOK'
  BY NextTypeOK DEF IInv
<1>2. ASSUME NEW p \in Pushers, PushStep(p)
      PROVE  IInv'
  BY <1>1, <1>2, BeginIInv, ClassifyIInv, StartRowIInv, InsertRowIInv,
     BulkFailsIInv, RowFailsIInv, RetainIInv, SkipRetentionIInv, EndIInv
     DEF PushStep
<1>3. ASSUME NEW r \in Readers, PullStep(r)
      PROVE  IInv'
  BY <1>1, <1>3, PullIInv
<1>4. ASSUME NEW id \in Ids, Expire(id)
      PROVE  IInv'
  BY <1>1, <1>4
     DEF Expire, pushVars, pullVars, IInv, Drawn, Locked, Sharing,
         InFlightAhead, Ahead, Rested, Deleted, Finite, Counted
<1>5. CASE UNCHANGED vars
  BY <1>1, <1>5
     DEF vars, pushVars, pullVars, IInv, Drawn, Locked, Sharing,
         InFlightAhead, Ahead, Rested, Deleted, Finite, Counted
<1> QED
  BY <1>2, <1>3, <1>4, <1>5 DEF Next

LEMMA Inductive == Spec => []IInv
  BY InitIInv, NextIInv, PTL DEF Spec

-----------------------------------------------------------------------------
(* What follows *)

\* The retention DELETE at the end of a push never takes a row of that push:
\* for any watermark the push read and whatever was deleted meanwhile.
THEOREM RetentionSafe == Spec => []RetentionSparesOwnRows
<1>1. IInv => RetentionSparesOwnRows
  <2> SUFFICES ASSUME IInv, NEW p \in Pushers, NEW row \in del[p] \cap ins[p]
               PROVE  FALSE
    BY DEF RetentionSparesOwnRows
  <2>1. row.seq <= wm[p] /\ row.seq > wm[p]
    BY DEF IInv, Deleted, InFlightAhead
  <2> QED
    BY <2>1 DEF IInv, TypeOK, Row
<1> QED
  BY <1>1, Inductive, PTL

-----------------------------------------------------------------------------
(* Readers see an OrderedFeed *)

Sent == [r \in Readers |-> [sent |-> rpc[r] = "sent", rows |-> page[r],
                            upto |-> nxt[r]]]

\* A page is a whole stretch of the feed: it ends at its last row, and LIMIT
\* cuts no row before that.
LEMMA PageIsStretch ==
  ASSUME IInv, NEW r \in Readers, NEW n \in Nat,
         NextCursor(r, n)
  PROVE  n >= cur[r] /\ PageRows(r) = Feed!Between(r, n)
<1> USE DEF Feed!Between, NextCursor
<1>1. cur[r] \in Nat /\ \A row \in table : row.seq \in Nat
  BY DEF IInv, TypeOK, Row
<1>2. \A row \in PageRows(r) : /\ row \in table /\ row.by \in Scope[r]
                               /\ cur[r] < row.seq
  BY DEF PageRows, Above
<1>3. CASE PageRows(r) = {}
  BY <1>1, <1>3
<1>4. CASE PageRows(r) # {}
  <2>1. PICK last \in PageRows(r) :
          n = last.seq /\ \A row \in PageRows(r) : row.seq <= n
    BY <1>4 DEF IsHighWater
  <2>2. PageRows(r) \subseteq Feed!Between(r, n)
    BY <1>2, <2>1
  <2>3. ASSUME NEW x \in Feed!Between(r, n)
        PROVE  x \in PageRows(r)
    <3> DEFINE before(y) == {z \in Above(r) : z.seq < y.seq}
    <3>1. x \in Above(r) /\ x.seq <= last.seq
      BY <2>1 DEF Above
    <3>2. before(x) \subseteq before(last)
      BY <1>1, <1>2, <2>1, <3>1 DEF Above
    <3>3. IsFiniteSet(before(last)) /\ IsFiniteSet(before(x))
      BY FS_Subset DEF Above, IInv, Finite
    <3>4. Cardinality(before(x)) <= Cardinality(before(last))
      BY <3>2, <3>3, FS_Subset
    <3>5. Cardinality(before(last)) < PageLimit
      BY <2>1 DEF PageRows
    <3>6. Cardinality(before(x)) \in Nat /\ Cardinality(before(last)) \in Nat
      BY <3>3, FS_CardinalityType
    <3>7. Cardinality(before(x)) < PageLimit
      BY <3>4, <3>5, <3>6, EntryLogAssumption
    <3> QED
      BY <3>1, <3>7 DEF PageRows
  <2> QED
    BY <1>1, <1>2, <2>1, <2>2, <2>3
<1> QED
  BY <1>3, <1>4

LEMMA InitFeed == Init => Feed!Init
  BY DEF Init, Feed!Init, Feed!Nothing

\* A commit publishes: what it inserted is ahead of every cursor.
LEMMA CommitPublishes ==
  ASSUME IInv, TypeOK', NEW p \in Pushers, Commit(p)
  PROVE  Feed!Publish
<1>1. UNCHANGED pullVars /\ table' \subseteq table \cup ins[p]
  BY DEF Commit, Seen
<1>2. ASSUME NEW row \in table' \ table
      PROVE  row \in Feed!Row /\ Ahead(row.seq)
  BY <1>1, <1>2 DEF IInv, TypeOK, InFlightAhead, Row, Feed!Row
<1> QED
  BY <1>1, <1>2 DEF Feed!Publish, Ahead, pullVars

LEMMA PullFeed ==
  ASSUME IInv, TypeOK', NEW r \in Readers, PullStep(r)
  PROVE  [Feed!Next]_Feed!vars
<1>1. CASE LockPage(r)
  <2>1. UNCHANGED <<table, cur, got, page, nxt>>
    BY <1>1 DEF LockPage
  <2>2. \A s \in Readers : (rpc'[s] = "sent") = (rpc[s] = "sent")
    BY <1>1 DEF LockPage, IInv, TypeOK
  <2>3. Sent' = Sent
    BY <2>1, <2>2 DEF Sent
  <2> QED
    BY <2>1, <2>3 DEF Feed!vars, Sent
<1>2. CASE ReadPage(r)
  <2> DEFINE n == nxt'[r]
  <2>1. /\ UNCHANGED <<table, cur, got>> /\ rpc[r] = "locked"
        /\ rpc' = [rpc EXCEPT ![r] = "sent"]
        /\ page' = [page EXCEPT ![r] = PageRows(r)]
    BY <1>2 DEF ReadPage
  <2>2. PICK m \in 0..nextSeq :
          /\ NextCursor(r, m)
          /\ nxt' = [nxt EXCEPT ![r] = m]
    BY <1>2 DEF ReadPage
  <2>3. m \in Nat /\ n = m
    BY <2>2 DEF IInv, TypeOK
  <2>4. n >= cur[r] /\ PageRows(r) = Feed!Between(r, n)
    BY <2>2, <2>3, PageIsStretch
  <2>5. Sent' = [Sent EXCEPT ![r] = [sent |-> TRUE,
                                     rows |-> Feed!Between(r, n), upto |-> n]]
    <3>1. ASSUME NEW s \in Readers
          PROVE  Sent'[s] = IF s = r
                            THEN [sent |-> TRUE, rows |-> Feed!Between(r, n),
                                  upto |-> n]
                            ELSE Sent[s]
      <4>1. CASE s = r
        BY <2>1, <2>2, <2>3, <2>4, <4>1 DEF Sent, IInv, TypeOK
      <4>2. CASE s # r
        BY <2>1, <2>2, <4>2 DEF Sent, IInv, TypeOK
      <4> QED
        BY <4>1, <4>2
    <3> QED
      BY <3>1 DEF Sent
  <2>6. Sent'[r].upto = n /\ ~Sent[r].sent
    BY <2>1 DEF Sent
  <2>7. Feed!Offer(r)
    BY <2>1, <2>3, <2>4, <2>5, <2>6 DEF Feed!Offer, Sent
  <2> QED
    BY <2>7 DEF Feed!Next
<1>3. CASE ReceivePage(r)
  <2>1. UNCHANGED table /\ Sent[r].sent
    BY <1>3 DEF ReceivePage, Sent
  <2>2. cur' = [cur EXCEPT ![r] = Sent[r].upto]
        /\ got' = [got EXCEPT ![r] = @ \cup Sent[r].rows]
    BY <1>3 DEF ReceivePage, Sent
  <2>3. Sent' = [Sent EXCEPT ![r] = Feed!Nothing]
    BY <1>3 DEF ReceivePage, Sent, Feed!Nothing, IInv, TypeOK
  <2>4. Feed!Take(r)
    BY <2>1, <2>2, <2>3 DEF Feed!Take, Sent
  <2> QED
    BY <2>4 DEF Feed!Next
<1>4. CASE LosePage(r)
  <2>1. UNCHANGED <<table, cur, got>>
    BY <1>4 DEF LosePage
  <2>2. Sent' = [Sent EXCEPT ![r] = Feed!Nothing]
    BY <1>4 DEF LosePage, Sent, Feed!Nothing, IInv, TypeOK
  <2>3. CASE rpc[r] = "sent"
    BY <2>1, <2>2, <2>3 DEF Feed!Miss, Feed!Next, Sent
  <2>4. CASE rpc[r] # "sent"
    <3>1. Sent[r] = Feed!Nothing
      BY <2>4 DEF Sent, Feed!Nothing, IInv, Rested
    <3>2. Sent' = Sent
      BY <2>2, <3>1 DEF Sent
    <3> QED
      BY <2>1, <3>2 DEF Feed!vars, Sent
  <2> QED
    BY <2>3, <2>4
<1> QED
  BY <1>1, <1>2, <1>3, <1>4 DEF PullStep

LEMMA NextFeed == IInv /\ [Next]_vars => [Feed!Next]_Feed!vars
<1> SUFFICES ASSUME IInv, [Next]_vars
             PROVE  [Feed!Next]_Feed!vars
  OBVIOUS
<1>1. TypeOK'
  BY NextTypeOK DEF IInv
<1>2. ASSUME UNCHANGED <<table, pullVars>>
      PROVE  UNCHANGED Feed!vars
  BY <1>2 DEF pullVars, Feed!vars
<1>3. ASSUME NEW p \in Pushers, PushStep(p)
      PROVE  [Feed!Next]_Feed!vars
  <2>1. CASE Commit(p)
    BY <1>1, <2>1, CommitPublishes DEF Feed!Next
  <2>2. CASE ~Commit(p)
    BY <1>2, <1>3, <2>2
       DEF PushStep, Begin, Classify, StartRow, InsertRow, BulkFails, RowFails,
           Retain, SkipRetention, Abort
  <2> QED
    BY <2>1, <2>2
<1>4. ASSUME NEW r \in Readers, PullStep(r)
      PROVE  [Feed!Next]_Feed!vars
  BY <1>1, <1>4, PullFeed
<1>5. ASSUME NEW id \in Ids, Expire(id)
      PROVE  UNCHANGED Feed!vars
  BY <1>2, <1>5 DEF Expire
<1>6. CASE UNCHANGED vars
  BY <1>2, <1>6 DEF vars
<1> QED
  BY <1>3, <1>4, <1>5, <1>6 DEF Next

\* sync_push and sync_pull implement an ordered feed: whatever order pushes
\* draw their sequence values and commit in, a pull is offered a whole stretch
\* of the log and later commits land ahead of it.
THEOREM Refinement == Spec => ImplementsFeed
  BY InitFeed, NextFeed, Inductive, PTL DEF Spec, Feed!Spec, ImplementsFeed

FeedProofs == INSTANCE OrderedFeedProofs WITH
  Items <- Item,
  feed  <- table,
  offer <- [r \in Readers |-> [sent |-> rpc[r] = "sent", rows |-> page[r],
                               upto |-> nxt[r]]]

\* So a reader that follows its cursor misses no committed entry in its scope.
THEOREM NoEntryMissed == Spec => []NoMissedEntry
<1> USE DEF Feed!Publish, Feed!Offer, Feed!Take, Feed!Miss, Feed!Between,
            Feed!Row, Feed!Nothing, FeedProofs!Publish, FeedProofs!Offer,
            FeedProofs!Take, FeedProofs!Miss, FeedProofs!Between,
            FeedProofs!Row, FeedProofs!Nothing
<1>1. Init => FeedProofs!Init
  BY InitFeed DEF Feed!Init, FeedProofs!Init
<1>2. IInv /\ [Next]_vars => [FeedProofs!Next]_FeedProofs!vars
  BY NextFeed DEF Feed!Next, FeedProofs!Next, Feed!vars, FeedProofs!vars
<1>3. FeedProofs!NothingMissed => NoMissedEntry
  BY DEF FeedProofs!NothingMissed, NoMissedEntry
<1> QED
  BY <1>1, <1>2, <1>3, Inductive, FeedProofs!FeedComplete, PTL
     DEF Spec, FeedProofs!Spec

-----------------------------------------------------------------------------
(* Replies are truthful *)

LEMMA InitAccounted == Init => Accounted
  BY DEF Init, Accounted, Account, NoJob

\* Rows only leave the table when they are past the window.
LEMMA RowsStay ==
  ASSUME IInv, [Next]_vars
  PROVE  /\ expired \subseteq expired'
         /\ \A row \in table : row \in table' \/ row.item.id \in expired'
<1>1. ASSUME NEW p \in Pushers, Commit(p)
      PROVE  /\ expired \subseteq expired'
             /\ \A row \in table : row \in table' \/ row.item.id \in expired'
  BY <1>1 DEF Commit, Seen, IInv, Deleted
<1>2. CASE ~\E p \in Pushers : Commit(p)
  <2>1. table' = table /\ expired \subseteq expired'
    BY <1>2 DEF Next, vars, PushStep, PullStep, Begin, Classify, StartRow,
                InsertRow, BulkFails, RowFails, Retain, SkipRetention, Abort,
                LockPage, ReadPage, ReceivePage, LosePage, Expire
  <2> QED
    BY <2>1
<1> QED
  BY <1>1, <1>2

\* A push that counts nothing in a step keeps its account.
LEMMA AccountKept ==
  ASSUME IInv, [Next]_vars, NEW q \in Pushers, Account(q),
         job'[q] = job[q], ins'[q] = ins[q], pc'[q] = pc[q]
  PROVE  Account(q)'
<1>1. /\ expired \subseteq expired'
      /\ \A row \in table : row \in table' \/ row.item.id \in expired'
  BY RowsStay
<1>2. \A i \in job[q].accepted :
        \E row \in ins'[q] : row.item = job[q].batch[i]
  BY DEF Account
<1>3. \A i \in job[q].duplicates :
        \/ job[q].batch[i].id \in expired'
        \/ \E row \in table' : row.item = job[q].batch[i]
  BY <1>1 DEF Account
<1>4. \A i \in job[q].conflicted :
        job[q].batch[i].id \in RowIds(table') \cup expired'
  BY <1>1 DEF Account, RowIds
<1> HIDE DEF CheckpointSafe, Attention
<1>5. /\ pc'[q] # "commit" => ~job'[q].safe /\ job'[q].state = "in_progress"
      /\ job'[q].safe => CheckpointSafe(job'[q])
      /\ job'[q].state = "success"
           => CheckpointSafe(job'[q]) /\ ~(Attention(job'[q]) > 0)
  BY DEF Account
<1> QED
  BY <1>2, <1>3, <1>4, <1>5 DEF Account

LEMMA OthersAccount ==
  ASSUME IInv, Accounted, [Next]_vars, NEW p \in Pushers, PushStep(p),
         Account(p)'
  PROVE  Accounted'
<1>1. ASSUME NEW q \in Pushers \ {p}
      PROVE  job'[q] = job[q] /\ ins'[q] = ins[q] /\ pc'[q] = pc[q]
  BY DEF IInv, TypeOK, PushStep, Begin, Classify, StartRow, InsertRow,
         BulkFails, RowFails, Retain, SkipRetention, Reply, Commit, Abort,
         EndTransaction
<1> QED
  BY <1>1, AccountKept DEF Accounted

LEMMA ClassifyAccount ==
  ASSUME IInv, NEW p \in Pushers, Account(p), Classify(p)
  PROVE  Account(p)'
<1> DEFINE batch == job[p].batch
           known == {i \in DOMAIN batch : batch[i].id \in RowIds(table)}
           same  == {i \in known : \E row \in table : row.item = batch[i]}
           todo  == DOMAIN batch \ known
           other == known \ same
<1>1. job' = [job EXCEPT ![p].todo = todo, ![p].duplicates = same,
                         ![p].conflicted = other]
  BY DEF Classify
<1>2. /\ \A i \in same : \E row \in table : row.item = batch[i]
      /\ \A i \in other : batch[i].id \in RowIds(table)
  OBVIOUS
<1> HIDE DEF todo, same, other
<1>3. job[p] \in JobFields /\ job \in [Pushers -> Job]
  BY DEF IInv, TypeOK, Job
<1>4. job[p].accepted = {} /\ ~job[p].safe /\ job[p].state = "in_progress"
  BY DEF Classify, IInv, Counted, Positions, Account
<1>5. /\ job'[p].duplicates = same /\ job'[p].conflicted = other
      /\ job'[p].batch = batch /\ job'[p].accepted = {}
      /\ ~job'[p].safe /\ job'[p].state = "in_progress"
  BY <1>1, <1>3, <1>4 DEF JobFields
<1>6. UNCHANGED <<table, expired>>
  BY DEF Classify
<1> QED
  BY <1>2, <1>5, <1>6 DEF Account

LEMMA InsertRowAccount ==
  ASSUME IInv, NEW p \in Pushers, Account(p), InsertRow(p)
  PROVE  Account(p)'
<1>1. PICK i, row : InsertsRow(p, i, row)
  BY InsertRowSummary DEF IInv
<1>2. job[p] \in JobFields
  BY DEF IInv, TypeOK, Job
<1>3. UNCHANGED <<table, expired>> /\ pc[p] # "commit"
  BY DEF InsertRow, IInv, Rested
<1>4. /\ job'[p].duplicates = job[p].duplicates
      /\ job'[p].conflicted = job[p].conflicted
      /\ job'[p].batch = job[p].batch
      /\ job'[p].safe = job[p].safe /\ job'[p].state = job[p].state
  BY <1>1, <1>2 DEF InsertsRow, JobFields
<1>5. \A k \in job'[p].accepted :
        \E x \in ins'[p] : x.item = job[p].batch[k]
  BY <1>1 DEF InsertsRow, Account, IInv, TypeOK
<1> QED
  BY <1>3, <1>4, <1>5 DEF Account

\* A failed INSERT takes back what its savepoint covers, counts included.
LEMMA FailuresAccount ==
  ASSUME IInv, NEW p \in Pushers, Account(p), BulkFails(p) \/ RowFails(p)
  PROVE  Account(p)'
<1>1. job[p] \in JobFields /\ job \in [Pushers -> Job]
  BY DEF IInv, TypeOK, Job
<1>2. UNCHANGED <<table, expired>> /\ pc[p] # "commit"
  BY DEF BulkFails, RowFails
<1>3. /\ job'[p].duplicates = job[p].duplicates
      /\ job'[p].conflicted = job[p].conflicted
      /\ job'[p].batch = job[p].batch
      /\ job'[p].safe = job[p].safe /\ job'[p].state = job[p].state
      /\ \/ job'[p].accepted = {}
         \/ job'[p].accepted = job[p].accepted /\ ins' = ins
  <2>1. CASE BulkFails(p)
    <3>1. job'[p] = [job[p] EXCEPT !.todo = Fresh(job[p]), !.accepted = {}]
      BY <1>1, <2>1 DEF BulkFails
    <3> QED
      BY <1>1, <3>1 DEF JobFields
  <2>2. CASE RowFails(p)
    <3>1. PICK failed : LosesRows(p, failed)
      BY <2>2, RowFailsSummary DEF IInv
    <3>2. job'[p] = [job[p] EXCEPT !.todo = @ \ failed, !.streak = @ + 1,
                                   !.retriable = @ \cup failed]
      BY <3>1 DEF LosesRows
    <3> QED
      BY <1>1, <2>2, <3>2 DEF RowFails, JobFields
  <2> QED
    BY <2>1, <2>2
<1> QED
  BY <1>2, <1>3 DEF Account

LEMMA ReplyAccount ==
  ASSUME IInv, NEW p \in Pushers, Account(p), Reply(p),
         UNCHANGED <<table, expired, ins>>
  PROVE  Account(p)'
<1>1. job[p] \in JobFields /\ job \in [Pushers -> Job]
  BY DEF IInv, TypeOK, Job
<1>2. /\ job'[p].duplicates = job[p].duplicates
      /\ job'[p].conflicted = job[p].conflicted
      /\ job'[p].batch = job[p].batch
      /\ job'[p].rejected = job[p].rejected
      /\ job'[p].retriable = job[p].retriable
      /\ job'[p].accepted = job[p].accepted
      /\ job'[p].safe = CheckpointSafe(job[p])
      /\ job'[p].state = CompletionState(job[p])
      /\ pc'[p] = "commit"
  BY <1>1 DEF Reply, JobFields, IInv, TypeOK
<1>3. /\ CheckpointSafe(job'[p]) = CheckpointSafe(job[p])
      /\ Attention(job'[p]) = Attention(job[p])
  BY <1>2 DEF CheckpointSafe, Resolved, Attention
<1>4. CompletionState(job[p]) = "success"
        => CheckpointSafe(job[p]) /\ ~(Attention(job[p]) > 0)
  BY DEF CompletionState
<1> QED
  BY <1>2, <1>3, <1>4 DEF Account

LEMMA NextAccounted == IInv /\ Accounted /\ [Next]_vars => Accounted'
<1> SUFFICES ASSUME IInv, Accounted, [Next]_vars
             PROVE  Accounted'
  OBVIOUS
<1>1. ASSUME NEW p \in Pushers, PushStep(p)
      PROVE  Accounted'
  <2>1. Account(p)
    BY DEF Accounted
  <2>2. CASE Begin(p)
    <3>1. PICK batch, rejected :
            job' = [job EXCEPT ![p] = [NoJob EXCEPT !.batch = batch,
                                                    !.rejected = rejected]]
      BY <2>2 DEF Begin
    <3>2. /\ job'[p].accepted = {} /\ job'[p].duplicates = {}
          /\ job'[p].conflicted = {}
          /\ job'[p].safe = FALSE /\ job'[p].state = "in_progress"
      BY <3>1 DEF NoJob, IInv, TypeOK
    <3>3. Account(p)'
      BY <3>2 DEF Account
    <3> QED
      BY <1>1, <3>3, OthersAccount
  <2>3. CASE Classify(p)
    BY <1>1, <2>1, <2>3, ClassifyAccount, OthersAccount
  <2>4. CASE StartRow(p)
    BY <1>1, <2>1, <2>4, AccountKept, OthersAccount DEF StartRow
  <2>5. CASE InsertRow(p)
    BY <1>1, <2>1, <2>5, InsertRowAccount, OthersAccount
  <2>6. CASE BulkFails(p) \/ RowFails(p)
    BY <1>1, <2>1, <2>6, FailuresAccount, OthersAccount
  <2>7. CASE Retain(p) \/ SkipRetention(p)
    <3>1. Reply(p) /\ UNCHANGED <<table, expired, ins>>
      BY <2>7 DEF Retain, SkipRetention
    <3> QED
      BY <1>1, <2>1, <3>1, ReplyAccount, OthersAccount
  <2>8. CASE Commit(p) \/ Abort(p)
    <3>1. job'[p] = NoJob
      BY <2>8 DEF Commit, Abort, EndTransaction, IInv, TypeOK
    <3>2. Account(p)'
      BY <3>1 DEF Account, NoJob
    <3> QED
      BY <1>1, <3>2, OthersAccount
  <2> QED
    BY <1>1, <2>2, <2>3, <2>4, <2>5, <2>6, <2>7, <2>8 DEF PushStep
<1>2. ASSUME UNCHANGED <<job, ins, pc>>
      PROVE  Accounted'
  BY <1>2, AccountKept DEF Accounted
<1> QED
  BY <1>1, <1>2 DEF Next, vars, pushVars, PullStep, LockPage, ReadPage,
                    ReceivePage, LosePage, Expire

\* When the counts of a safe reply add up, every position is accounted for.
LEMMA AllAccounted ==
  ASSUME IInv, NEW p \in Pushers, CheckpointSafe(job[p])
  PROVE  DOMAIN job[p].batch
           = job[p].accepted \cup job[p].duplicates \cup job[p].conflicted
<1> DEFINE D == DOMAIN job[p].batch
           A == job[p].accepted
           B == job[p].duplicates
           C == job[p].conflicted
<1>1. job[p] \in JobFields /\ A \cup B \cup C \subseteq D
  BY DEF IInv, TypeOK, Job, Positions
<1>2. Len(job[p].batch) \in Nat /\ D = 1..Len(job[p].batch)
      /\ job[p].rejected \in Nat
  BY <1>1 DEF JobFields
<1>3. IsFiniteSet(D) /\ Cardinality(D) = Len(job[p].batch)
  BY <1>2, FS_Interval
<1>4. A \cap B = {} /\ (A \cup B) \cap C = {}
  BY DEF IInv, Counted
<1>5. Cardinality(A) + Cardinality(B) + Cardinality(C) + job[p].rejected
        = Len(job[p].batch) + job[p].rejected
  BY DEF CheckpointSafe, Resolved
<1> HIDE DEF A, B, C, D
<1>6. /\ IsFiniteSet(A) /\ IsFiniteSet(B) /\ IsFiniteSet(C)
      /\ IsFiniteSet(A \cup B)
  BY <1>1, <1>3, FS_Subset
<1>7. /\ Cardinality(A) \in Nat /\ Cardinality(B) \in Nat
      /\ Cardinality(C) \in Nat
  BY <1>6, FS_CardinalityType
<1>8. /\ Cardinality(A \cap B) = 0 /\ Cardinality((A \cup B) \cap C) = 0
  BY <1>4, FS_EmptySet
<1>9. /\ Cardinality(A \cup B)
           = Cardinality(A) + Cardinality(B) - Cardinality(A \cap B)
      /\ Cardinality((A \cup B) \cup C)
           = Cardinality(A \cup B) + Cardinality(C)
               - Cardinality((A \cup B) \cap C)
  BY <1>6, FS_Union
<1>10. Cardinality(A \cup B \cup C) = Cardinality(D)
  BY <1>2, <1>3, <1>5, <1>7, <1>8, <1>9
<1>11. D = A \cup B \cup C
  BY <1>1, <1>3, <1>10, FS_Subset
<1> QED
  BY <1>11 DEF A, B, C, D

\* The reply to a push is true when it is sent: what it reports as safe is
\* stored, for batches of any length, any concurrent pushes of the same ids and
\* any INSERT failing.
THEOREM RepliesTrue == Spec => []TruthfulReply
<1>1. IInv /\ Accounted => TruthfulReply
  <2> SUFFICES ASSUME IInv, Accounted, NEW p \in Pushers,
                      NEW i \in DOMAIN job[p].batch
               PROVE  LET e    == job[p].batch[i]
                          here == table \cup ins[p]
                      IN /\ job[p].safe => e.id \in RowIds(here) \cup expired
                         /\ job[p].state = "success" =>
                              \/ e.id \in expired
                              \/ \E row \in here : row.item = e
    BY DEF TruthfulReply
  <2>1. Account(p) /\ job[p] \in JobFields
    BY DEF Accounted, IInv, TypeOK, Job
  <2>2. ASSUME CheckpointSafe(job[p])
        PROVE  i \in job[p].accepted \cup job[p].duplicates \cup job[p].conflicted
    BY <2>2, AllAccounted
  <2>3. ASSUME CheckpointSafe(job[p]), ~(Attention(job[p]) > 0)
        PROVE  job[p].conflicted = {}
    <3>1. DOMAIN job[p].batch = 1..Len(job[p].batch) /\ Len(job[p].batch) \in Nat
      <4>1. job[p].batch \in Seq(Item)
        BY <2>1 DEF JobFields
      <4> QED
        BY <4>1
    <3>2. IsFiniteSet(job[p].conflicted)
      <4>1. job[p].conflicted \subseteq 1..Len(job[p].batch)
        BY <3>1 DEF IInv, TypeOK, Job, Positions
      <4>2. IsFiniteSet(1..Len(job[p].batch))
        BY <3>1, FS_Interval
      <4> QED
        BY <4>1, <4>2, FS_Subset
    <3>3. Cardinality(job[p].conflicted) \in Nat /\ job[p].rejected \in Nat
      BY <2>1, <3>2, FS_CardinalityType DEF JobFields
    <3>4. Cardinality(job[p].conflicted) = 0
      BY <2>3, <3>3 DEF Attention
    <3> QED
      BY <3>2, <3>4, FS_EmptySet
  <2> QED
    BY <2>1, <2>2, <2>3 DEF Account, RowIds
<1> QED
  BY <1>1, InitAccounted, NextAccounted, Inductive, PTL DEF Spec

-----------------------------------------------------------------------------
(* Entries are counted once *)

Once == AcceptedOnce /\ Owned

\* Pushes that count nothing new, or give up what they inserted.
LEMMA OnceKept ==
  ASSUME Once,
         \A q \in Pushers :
           \/ job'[q].accepted = {} /\ ins'[q] = {}
           \/ /\ job'[q].accepted = job[q].accepted
              /\ job'[q].batch = job[q].batch /\ ins'[q] = ins[q],
         \A q \in Pushers : \A i \in job'[q].accepted :
           job[q].batch[i].id \notin RowIds(table')
  PROVE  Once'
<1>1. AcceptedOnce'
  BY DEF Once, AcceptedOnce
<1>2. Owned'
  BY DEF Once, Owned
<1> QED
  BY <1>1, <1>2 DEF Once

\* An INSERT that is not skipped has waited for every other row of its id.
LEMMA InsertRowOnce ==
  ASSUME IInv, Accounted, Once, NEW p \in Pushers, InsertRow(p)
  PROVE  Once'
<1>1. PICK i, row : InsertsRow(p, i, row)
  BY InsertRowSummary DEF IInv
<1>2. job[p] \in JobFields /\ i \in job[p].todo
  BY <1>1 DEF InsertsRow, IInv, TypeOK, Job
<1>3. job'[p].batch = job[p].batch
  BY <1>1, <1>2 DEF InsertsRow, JobFields
<1>4. \A q \in Pushers \ {p} : job'[q] = job[q] /\ ins'[q] = ins[q]
  BY <1>1 DEF InsertsRow, IInv, TypeOK
<1>5. UNCHANGED table
  BY DEF InsertRow, Count
<1>6. CASE ins' = ins /\ job'[p].accepted = job[p].accepted
  BY <1>3, <1>4, <1>5, <1>6, OnceKept DEF Once, AcceptedOnce
<1>7. CASE ~(ins' = ins /\ job'[p].accepted = job[p].accepted)
  <2> DEFINE id == job[p].batch[i].id
  <2>1. /\ ins'[p] = ins[p] \cup {row} /\ row.item = job[p].batch[i]
        /\ job'[p].accepted = job[p].accepted \cup {i}
        /\ id \notin RowIds(table)
        /\ \A q \in Pushers : id \notin RowIds(ins[q])
    BY <1>1, <1>7 DEF InsertsRow, IInv, TypeOK
  <2>2. \A q \in Pushers : \A k \in job[q].accepted : job[q].batch[k].id # id
    BY <2>1 DEF Accounted, Account, RowIds
  <2>3. Owned'
    BY <1>3, <1>4, <2>1 DEF Once, Owned
  <2>4. AcceptedOnce'
    <3> DEFINE idOf(q, k) == job[q].batch[k].id
    <3>1. \A q \in Pushers : job'[q].batch = job[q].batch
      BY <1>3, <1>4
    <3>2. \A q \in Pushers : \A k \in job'[q].accepted :
            \/ q = p /\ k = i
            \/ k \in job[q].accepted /\ idOf(q, k) # id
      BY <1>4, <2>1, <2>2
    <3>3. \A q \in Pushers : \A k \in job'[q].accepted :
            idOf(q, k) \notin RowIds(table)
      BY <2>1, <3>2 DEF Once, AcceptedOnce
    <3>4. ASSUME NEW a \in Pushers, NEW k \in job'[a].accepted,
                 NEW b \in Pushers, NEW l \in job'[b].accepted,
                 idOf(b, l) = idOf(a, k)
          PROVE  a = b /\ k = l
      <4>1. CASE idOf(a, k) = id
        BY <3>2, <3>4, <4>1
      <4>2. CASE idOf(a, k) # id
        BY <3>2, <3>4, <4>2 DEF Once, AcceptedOnce
      <4> QED
        BY <4>1, <4>2
    <3> QED
      BY <1>5, <3>1, <3>3, <3>4 DEF AcceptedOnce
  <2> QED
    BY <2>3, <2>4 DEF Once
<1> QED
  BY <1>6, <1>7

LEMMA CommitOnce ==
  ASSUME IInv, Accounted, Once, NEW p \in Pushers, Commit(p)
  PROVE  Once'
<1>1. /\ ins'[p] = {} /\ job'[p].accepted = {}
      /\ \A q \in Pushers \ {p} : job'[q] = job[q] /\ ins'[q] = ins[q]
      /\ table' \subseteq table \cup ins[p]
  BY DEF Commit, Seen, EndTransaction, NoJob, IInv, TypeOK
<1>2. ASSUME NEW q \in Pushers, NEW i \in job'[q].accepted
      PROVE  job[q].batch[i].id \notin RowIds(table')
  <2>1. q # p /\ i \in job[q].accepted
    BY <1>1
  <2>2. job[q].batch[i].id \notin RowIds(table)
    BY <2>1 DEF Once, AcceptedOnce
  <2>3. job[q].batch[i].id \notin RowIds(ins[p])
    BY <2>1 DEF Once, AcceptedOnce, Owned, RowIds
  <2> QED
    BY <1>1, <2>2, <2>3 DEF RowIds
<1> QED
  BY <1>1, <1>2, OnceKept

LEMMA NextOnce == IInv /\ Accounted /\ Once /\ [Next]_vars => Once'
<1> SUFFICES ASSUME IInv, Accounted, Once, [Next]_vars
             PROVE  Once'
  OBVIOUS
<1>1. ASSUME NEW p \in Pushers, UNCHANGED table,
             \A q \in Pushers \ {p} : job'[q] = job[q] /\ ins'[q] = ins[q],
             \/ job'[p].accepted = {} /\ ins'[p] = {}
             \/ /\ job'[p].accepted = job[p].accepted
                /\ job'[p].batch = job[p].batch /\ ins'[p] = ins[p]
      PROVE  Once'
  BY <1>1, OnceKept DEF Once, AcceptedOnce
<1>2. ASSUME NEW p \in Pushers, PushStep(p)
      PROVE  Once'
  <2>1. job[p] \in JobFields /\ job \in [Pushers -> Job]
    BY DEF IInv, TypeOK, Job
  <2>2. CASE Begin(p)
    <3>1. PICK batch, rejected :
            job' = [job EXCEPT ![p] = [NoJob EXCEPT !.batch = batch,
                                                    !.rejected = rejected]]
      BY <2>2 DEF Begin
    <3>2. job'[p].accepted = {}
      BY <3>1 DEF NoJob, IInv, TypeOK
    <3> QED
      BY <1>1, <2>2, <3>2 DEF Begin, IInv, TypeOK, Rested
  <2>3. CASE Classify(p)
    <3>1. ins[p] = {} /\ job[p].accepted = {}
      BY <2>3 DEF Classify, IInv, Rested, Counted, Positions
    <3>2. job'[p].accepted = {}
      BY <2>1, <2>3, <3>1 DEF Classify, JobFields
    <3> QED
      BY <1>1, <2>1, <2>3, <3>1, <3>2 DEF Classify
  <2>4. CASE StartRow(p)
    BY <1>1, <2>4 DEF StartRow
  <2>5. CASE InsertRow(p)
    BY <2>5, InsertRowOnce
  <2>6. CASE BulkFails(p)
    <3>1. job'[p] = [job[p] EXCEPT !.todo = Fresh(job[p]), !.accepted = {}]
      BY <2>1, <2>6 DEF BulkFails
    <3>2. job'[p].accepted = {}
      BY <2>1, <3>1 DEF JobFields
    <3> QED
      BY <1>1, <2>1, <2>6, <3>2 DEF BulkFails, IInv, TypeOK
  <2>7. CASE RowFails(p)
    <3>1. PICK failed : LosesRows(p, failed)
      BY <2>7, RowFailsSummary DEF IInv
    <3>2. job'[p].accepted = job[p].accepted /\ job'[p].batch = job[p].batch
      BY <2>1, <3>1 DEF LosesRows, JobFields
    <3> QED
      BY <1>1, <2>7, <3>1, <3>2 DEF RowFails, LosesRows
  <2>8. CASE Retain(p) \/ SkipRetention(p)
    <3>1. Reply(p) /\ UNCHANGED <<table, ins>>
      BY <2>8 DEF Retain, SkipRetention
    <3>2. job'[p].accepted = job[p].accepted /\ job'[p].batch = job[p].batch
      BY <2>1, <3>1 DEF Reply, JobFields
    <3> QED
      BY <1>1, <2>1, <3>1, <3>2 DEF Reply
  <2>9. CASE Commit(p)
    BY <2>9, CommitOnce
  <2>10. CASE Abort(p)
    BY <1>1, <2>1, <2>10 DEF Abort, EndTransaction, NoJob, IInv, TypeOK
  <2> QED
    BY <1>2, <2>2, <2>3, <2>4, <2>5, <2>6, <2>7, <2>8, <2>9, <2>10 DEF PushStep
<1>3. ASSUME UNCHANGED <<job, ins, table>>
      PROVE  Once'
  BY <1>3, OnceKept DEF Once, AcceptedOnce
<1> QED
  BY <1>2, <1>3 DEF Next, vars, pushVars, PullStep, LockPage, ReadPage,
                    ReceivePage, LosePage, Expire

\* No entry is counted as accepted twice, or when it was stored already: for
\* any number of pushes that race on the same ids.
THEOREM CountedOnce == Spec => []AcceptedOnce
<1>1. Init => Once
  BY DEF Init, Once, AcceptedOnce, Owned, NoJob
<1>2. Once => AcceptedOnce
  BY DEF Once
<1> QED
  BY <1>1, <1>2, InitAccounted, NextAccounted, NextOnce, Inductive, PTL
     DEF Spec
=============================================================================
