------------------------------ MODULE Projects ------------------------------
(***************************************************************************)
(* The projects and transcripts that a push brings its entries under, in    *)
(* the transaction of EntryLog: the tenant's allow-list, the merging of one *)
(* repository's projects from several devices, the merging of one file's    *)
(* transcripts, and the cards under which the dashboard shows projects.     *)
(* A batch has one project, one transcript and one entry.                   *)
(***************************************************************************)
EXTENDS Naturals, FiniteSets

CONSTANTS
  Uploads,    \* pushes in flight at once
  Batches,    \* what clients may send
  Nil,        \* a value that is missing: NULL
  AllowLists, \* values of tenants.project_allowlist; {Nil} is no list
  Values,     \* what the columns hold
  Owners,     \* users who see the whole tenant; the others are members
  MaxUploads, \* bound: pushes in a behaviour
  Fallible    \* bound: where a push is when a statement of it fails

Batch ==
  [user: Values, given: BOOLEAN, pid: Values, name: Values, origin: Values,
   ident: Values, key: Values, valid: BOOLEAN, tid: Values, file: Values]

\* A transcript's id is a UUID made by one device for one file.
ASSUME BatchesAssumption ==
  /\ Nil \in Values /\ Batches \subseteq Batch
  /\ \A b, c \in Batches : b.tid = c.tid => b.file = c.file /\ b.user = c.user

ASSUME FallibleAssumption ==
  Fallible \subseteq {"find", "update", "insert", "file", "new", "entry"}

\* A list has names, or there is none.
ASSUME ListsAssumption == \A l \in AllowLists : Nil \in l => l = {Nil}

NoUpload == [at |-> "idle", batch |-> Nil, list |-> {Nil}, beside |-> {},
             pid |-> Nil, tid |-> Nil, row |-> {}, file |-> {}, line |-> {},
             unsaved |-> {}]

VARIABLES
  projects,    \* committed rows
  transcripts, \* committed rows
  entries,     \* committed rows
  allowlist,
  up,          \* what each push is doing, with its uncommitted rows
  uploads

projectVars == <<projects, transcripts, entries, allowlist, up, uploads>>
tables      == <<projects, transcripts, entries>>

ProjectsInit ==
  /\ projects = {} /\ transcripts = {} /\ entries = {}
  /\ allowlist \in AllowLists
  /\ up = [r \in Uploads |-> NoUpload]
  /\ uploads = 0

Project    == [id: Values, name: Values, key: Values, ident: Values]
Transcript == [id: Values, project: Values, file: Values, user: Values]
Line       == [project: Values, transcript: Values, file: Values, user: Values]
Steps == {"idle", "judge", "find", "update", "insert", "file", "new", "entry", "commit"}
Upload ==
  [at: Steps, batch: Batches \cup {Nil}, list: AllowLists \cup {{Nil}},
   beside: SUBSET (AllowLists \cup {{Nil}}), pid: Values, tid: Values,
   row: SUBSET Project, file: SUBSET Transcript, line: SUBSET Line,
   unsaved: SUBSET Values]

ProjectsTypeOK ==
  /\ projects \subseteq Project
  /\ transcripts \subseteq Transcript
  /\ entries \subseteq Line
  /\ allowlist \in AllowLists
  /\ up \in [Uploads -> Upload]
  /\ \A r \in Uploads : up[r].at # "idle" => up[r].batch \in Batches
  /\ uploads \in Nat

First(a, b) == IF a # Nil THEN a ELSE b   \* COALESCE

\* The grouping key: from the origin, the identity, or as the client says.
GroupKey(b) == First(b.origin, First(b.ident, b.key))

\* What the statements of r see, and what others have not yet committed.
Rows(r)   == {p \in projects : \A o \in up[r].row : o.id # p.id} \cup up[r].row
Files(r)  == transcripts \cup up[r].file
Others(r) == Uploads \ {r}
Active    == {r \in Uploads : up[r].at # "idle"}

Moves(r, x) == up' = [up EXCEPT ![r] = x]
Rest        == UNCHANGED <<tables, allowlist, uploads>>

-----------------------------------------------------------------------------
(* A push *)

\* The tenant is loaded, with its list, before the row is locked.
BeginUpload(r, b) ==
  /\ up[r].at = "idle" /\ uploads < MaxUploads
  /\ uploads' = uploads + 1
  /\ up' = [q \in Uploads |->
       IF q = r THEN [NoUpload EXCEPT !.at = "judge", !.batch = b, !.list = allowlist,
                        !.beside = {up[o].list : o \in Active},
                        !.pid = b.pid, !.tid = b.tid]
       ELSE IF q \in Active THEN [up[q] EXCEPT !.beside = @ \cup {allowlist}]
       ELSE up[q]]
  /\ UNCHANGED <<tables, allowlist>>

\* Mutant of Allowed: a project that is not in the batch passes.
AllowedUnseen(r) ==
  LET b == up[r].batch IN
  \/ up[r].list = {Nil}
  \/ b.given => b.name \in up[r].list

\* By the name in the batch, or else by the name on record.
Allowed(r) ==
  LET b == up[r].batch IN
  \/ up[r].list = {Nil}
  \/ IF b.given THEN b.name \in up[r].list
     ELSE \E p \in projects : p.id = b.pid /\ p.name \in up[r].list

Judge(r) ==
  /\ up[r].at = "judge"
  /\ Moves(r, IF ~Allowed(r) THEN [up[r] EXCEPT !.at = "commit"]
              ELSE IF up[r].batch.given THEN [up[r] EXCEPT !.at = "find"]
              ELSE [up[r] EXCEPT !.at = "file"])
  /\ Rest

\* The project is known by its id, or is another's alias: the earliest row with
\* its key, by a created_at in seconds, so any of them.  Else it is new.
FindProject(r) ==
  /\ up[r].at = "find"
  /\ LET b    == up[r].batch
         same == {p \in projects : GroupKey(b) # Nil /\ p.key = GroupKey(b)}
     IN IF \E p \in projects : p.id = b.pid
          THEN Moves(r, [up[r] EXCEPT !.at = "update"])
        ELSE IF same # {}
          THEN \E p \in same : Moves(r, [up[r] EXCEPT !.at = "update", !.pid = p.id])
        ELSE Moves(r, [up[r] EXCEPT !.at = "insert"])
  /\ Rest

RowFreeFor(r) == \A q \in Others(r) : \A o \in up[q].row : o.id # up[r].pid

\* The row that r updates, as it was last committed: by its own id, or as the row
\* that r's project is an alias of, which keeps its key.
Merged(r, p) ==
  LET b == up[r].batch
      m == [p EXCEPT !.ident = First(b.ident, @)]
  IN IF p.id = b.pid
       THEN [m EXCEPT !.name = b.name, !.key = First(GroupKey(b), @)]
     ELSE [m EXCEPT !.name = First(b.name, @)]

UpdateProject(r) ==
  /\ up[r].at = "update" /\ RowFreeFor(r)
  /\ \E p \in projects :
       /\ p.id = up[r].pid
       /\ Moves(r, [up[r] EXCEPT !.at = "file", !.row = {Merged(r, p)}])
  /\ Rest

\* An id that another push has inserted meanwhile fails, in a savepoint.
InsertProject(r) ==
  /\ up[r].at = "insert" /\ RowFreeFor(r)
  /\ LET b   == up[r].batch
         new == [id |-> b.pid, name |-> b.name, key |-> GroupKey(b), ident |-> b.ident]
     IN Moves(r, [up[r] EXCEPT !.at = "file",
                    !.row = IF \E p \in projects : p.id = b.pid THEN {} ELSE {new}])
  /\ Rest

\* Mutant of SameFile: another user's transcript of the file will do.
SameFileAnyUser(r, f) == f.project = up[r].pid /\ f.file = up[r].batch.file
SameFile(r, f) ==
  SameFileAnyUser(r, f) /\ f.user = up[r].batch.user

\* The transcript is known by its id, or by its file; its row is updated in
\* columns that the model leaves out.  Else it is new.
FindTranscript(r) ==
  /\ up[r].at = "file"
  /\ LET byId == {f \in transcripts : f.id = up[r].batch.tid}
         byFile == {f \in transcripts : SameFile(r, f)}
     IN IF byId # {} THEN Moves(r, [up[r] EXCEPT !.at = "entry"])
        ELSE IF byFile # {}
          THEN \E f \in byFile : Moves(r, [up[r] EXCEPT !.at = "entry", !.tid = f.id])
        ELSE Moves(r, [up[r] EXCEPT !.at = "new"])
  /\ Rest

Clash(r, f) == f.id = up[r].tid \/ SameFile(r, f)

\* It waits for a row that may clash with it, and fails on one that does or
\* without a project, in a savepoint.
InsertTranscript(r) ==
  /\ up[r].at = "new"
  /\ \A q \in Others(r) : \A f \in up[q].file : ~Clash(r, f)
  /\ LET b     == up[r].batch
         new   == [id |-> b.tid, project |-> up[r].pid, file |-> b.file, user |-> b.user]
         fails == \/ \E f \in transcripts : Clash(r, f)
                  \/ \A p \in Rows(r) : p.id # up[r].pid
     IN Moves(r, [up[r] EXCEPT !.at = "entry", !.file = IF fails THEN {} ELSE {new}])
  /\ Rest

\* An entry that does not validate was set aside at the start.
Accepted(b) == b.valid

\* An entry without its project or its transcript fails on a foreign key, and is
\* reported as retryable.
InsertEntry(r) ==
  /\ up[r].at = "entry"
  /\ LET b    == up[r].batch
         line == [project |-> up[r].pid, transcript |-> up[r].tid,
                  file |-> b.file, user |-> b.user]
         home == /\ Accepted(b)
                 /\ \E p \in Rows(r) : p.id = up[r].pid
                 /\ \E f \in Files(r) : f.id = up[r].tid
     IN Moves(r, [up[r] EXCEPT !.at = "commit", !.line = IF home THEN {line} ELSE {}])
  /\ Rest

\* Any error of a project, a transcript or an entry undoes its savepoint and is
\* noted in the reply.  What was remapped by then stays, so that the rest of the
\* batch may go to a project that was not written (unsaved).
FailStatement(r) ==
  /\ up[r].at \in Fallible
  /\ Moves(r, [up[r] EXCEPT
       !.at = IF @ \in {"find", "update", "insert"} THEN "file"
              ELSE IF @ \in {"file", "new"} THEN "entry" ELSE "commit",
       !.unsaved = IF up[r].at \in {"find", "update"} THEN {up[r].pid} ELSE @])
  /\ Rest

CommitUpload(r) ==
  /\ up[r].at = "commit"
  /\ projects' = Rows(r)
  /\ transcripts' = Files(r)
  /\ entries' = entries \cup up[r].line
  /\ Moves(r, NoUpload)
  /\ UNCHANGED <<allowlist, uploads>>

AbortUpload(r) == up[r].at # "idle" /\ Moves(r, NoUpload) /\ Rest

ChangeList ==
  /\ allowlist' \in AllowLists \ {allowlist}
  /\ UNCHANGED <<tables, up, uploads>>

ProjectsNext ==
  \/ \E r \in Uploads :
       \/ \E b \in Batches : BeginUpload(r, b)
       \/ Judge(r) \/ FindProject(r) \/ UpdateProject(r) \/ InsertProject(r)
       \/ FindTranscript(r) \/ InsertTranscript(r) \/ InsertEntry(r)
       \/ FailStatement(r) \/ CommitUpload(r) \/ AbortUpload(r)
  \/ ChangeList

ProjectsSpec == ProjectsInit /\ [][ProjectsNext]_projectVars

-----------------------------------------------------------------------------
(* The cards of the dashboard *)

\* A member sees the projects that he has entries in.
VisibleRows(u) ==
  {p \in projects :
     u \in Owners \/ \E e \in entries : e.project = p.id /\ e.user = u}

\* Mutant of EffectiveKey: keys are not bridged.
EffectiveKeyPlain(p, rows) == p.key

\* The rows of a repository may have its key, other keys, or none yet.
EffectiveKey(p, rows) ==
  LET keys == {q.key : q \in {q \in rows : q.ident = p.ident /\ q.key # Nil}}
  IN IF p.ident = Nil \/ keys = {} THEN p.key
     ELSE IF Cardinality(keys) = 1 THEN CHOOSE k \in keys : TRUE
     ELSE p.ident

Card(p, rows) == First(EffectiveKey(p, rows), First(p.ident, p.id))

\* The other names that lead to a card.
CardAliases(c, rows) ==
  {n \in UNION {{p.ident, p.key} : p \in {p \in rows : Card(p, rows) = c}} :
     n # Nil /\ n # c}

\* The cards a link may lead to: one of that name, else one it is an alias of.
Leads(link, rows) ==
  LET cards == {Card(p, rows) : p \in rows}
  IN IF link \in cards THEN {link}
     ELSE {c \in cards : link \in CardAliases(c, rows)}

-----------------------------------------------------------------------------
(* What holds of projects *)

\* An entry hangs on the transcript of its own file and its own user, whatever
\* ids two devices gave to the file and however their pushes interleave.
EntriesKeepTheirFile ==
  \A e \in entries :
    \E f \in transcripts :
      f.id = e.transcript /\ f.file = e.file /\ f.user = e.user

\* No push brings an entry into a project whose name its allow-list leaves out,
\* be it under an alias, without the project, or while the project is renamed;
\* pushes that ran beside one with another list are left out, and those that
\* could not write their project.
AllowListHolds ==
  \A r \in Uploads :
    /\ up[r].at = "commit" /\ up[r].unsaved = {}
    /\ up[r].beside \subseteq {up[r].list} /\ up[r].list # {Nil}
    => \A e \in up[r].line :
         \E p \in Rows(r) : p.id = e.project /\ p.name \in up[r].list

\* "[...] = only listed names" (models.py:82): a push that meets no other list
\* stores nothing off its own, whatever fails.
AllowListAlways ==
  \A r \in Uploads :
    /\ up[r].at = "commit" /\ up[r].beside \subseteq {up[r].list} /\ up[r].list # {Nil}
    => \A e \in up[r].line :
         \E p \in Rows(r) : p.id = e.project /\ p.name \in up[r].list

\* The projects of one repository are on one card, for an owner and for a member
\* who sees some of them, while older clients' rows have no key or another key;
\* and the repository's identity leads to that card.
CardsKeepRepos ==
  \A u \in {b.user : b \in Batches} :
    LET rows == VisibleRows(u) IN
    \A p \in {p \in rows : p.ident # Nil} :
      /\ \A q \in rows : q.ident = p.ident => Card(q, rows) = Card(p, rows)
      /\ Leads(p.ident, rows) = {Card(p, rows)}

\* "We remap the alias to the canonical (first-seen) project ID and rewrite
\* transcript/entry references" (routers/sync.py:855): an entry and its
\* transcript are in one project.
EntriesKeepTheirProject ==
  \A e \in entries :
    \A f \in transcripts : f.id = e.transcript => f.project = e.project
=============================================================================
