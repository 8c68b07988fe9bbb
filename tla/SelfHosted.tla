----------------------------- MODULE SelfHosted -----------------------------
(***************************************************************************)
(* A self-hosted server as its operators' commands handle it: backup and   *)
(* update (timers start them too), restore, the rollback that a failed     *)
(* update prints, and create-admin.  The commands drive git and docker     *)
(* compose; nothing but the file system and the database keeps two of them *)
(* apart.                                                                  *)
(***************************************************************************)
EXTENDS Integers, Sequences, FiniteSets

CONSTANTS
  Shells,        \* of an admin, who runs any command
  Timers,        \* of launchd or cron: they back up and update
  Setups,        \* create-admin commands
  MaxRev,        \* the newest release; it migrates the database to MaxRev
  Linking,       \* migrations that add a foreign key to an older table
  Old,           \* archives older than the retention time
  MinKeep,       \* --min-keep
  MaxBackups,    \* bound: archives ever written
  MaxCommands,   \* bound: commands, a timer's backups apart
  MaxMishaps      \* bound: failed and killed commands

ASSUME OpsAssumption ==
  /\ Shells \cap Timers = {}
  /\ {MaxRev, Old, MinKeep, MaxBackups} \subseteq Nat
  /\ Old <= MaxBackups

Operators == Shells \cup Timers
Revs      == 0..MaxRev
Names     == 1..MaxBackups

VARIABLES
  db,       \* the committed database
  code,     \* the release checked out
  image,    \* the release of the built image
  api,      \* the container, the release it was created from, and who was
            \* loading or migrating the database when it was started
  archives, \* backup files in the order of their times
  partials, \* the commands that have opened each .partial file
  job,      \* what each operator is doing
  setup,    \* where each create-admin is
  commands, mishaps

opsVars == <<db, code, image, api, archives, partials, job, setup, commands,
             mishaps>>

\* A database: its migration, and the tenants that create-admin made.
Database == [rev : Revs, tenants : SUBSET Setups]
Api      == [state : {"up", "stopped", "looping"}, of : Revs, amid : SUBSET Operators]
Archive  == [name : Names, dump : Database, whole : BOOLEAN, old : BOOLEAN,
             there : BOOLEAN]
Commands == {"none", "backup", "update", "restore", "rollback"}
Places   == {"idle", "dump", "archive", "partial", "open", "write", "list",
             "rotate", "pull", "build", "stop", "load", "migrate", "up",
             "health", "printed", "served"}
Job == [cmd : Commands, at : Places, dump : Database, name : 0..MaxBackups,
        list : SUBSET Nat, spare : Int, prev : Revs]
NoJob == [cmd |-> "none", at |-> "idle", dump |-> [rev |-> 0, tenants |-> {}],
          name |-> 0, list |-> {}, spare |-> 0, prev |-> 0]

OpsTypeOK ==
  /\ db \in Database
  /\ code \in Revs /\ image \in Revs
  /\ api \in Api
  /\ archives \in Seq(Archive)
  /\ partials \in [Names -> SUBSET Operators]
  /\ job \in [Operators -> Job]
  /\ \A o \in Operators :
       job[o].at \in {"partial", "open", "write"} => job[o].name \in Names
  /\ setup \in [Setups -> {"idle", "locked", "hashing", "done"}]
  /\ commands \in Nat /\ mishaps \in Nat

OpsInit ==
  /\ db = [rev |-> 0, tenants |-> {}]
  /\ code = 0 /\ image = 0 /\ api = [state |-> "up", of |-> 0, amid |-> {}]
  /\ archives = [i \in 1..Old |->
       [name |-> i, dump |-> [rev |-> 0, tenants |-> {}], whole |-> TRUE,
        old |-> TRUE, there |-> TRUE]]
  /\ partials = [n \in Names |-> {}]
  /\ job = [o \in Operators |-> NoJob]
  /\ setup = [s \in Setups |-> "idle"]
  /\ commands = 0 /\ mishaps = 0

There(n) == \E i \in DOMAIN archives : archives[i].name = n /\ archives[i].there
Present  == {i \in DOMAIN archives : archives[i].there}
Used     == {archives[i].name : i \in DOMAIN archives}

Resting(o) == job[o].at \in {"idle", "printed", "served"}
GoWith(o, next) == job' = [job EXCEPT ![o] = next]
Go(o, place) ==
  GoWith(o, IF place = "idle" THEN NoJob ELSE [job[o] EXCEPT !.at = place])

\* Whose command has stopped the api, to load or migrate the database next.
Changing == {o \in Operators : job[o].at \in {"load", "migrate"}}

-----------------------------------------------------------------------------
(* The api's container *)

\* entrypoint.sh migrates the database, and serves if alembic knows the
\* revision it finds there; else the container is restarted for ever.
Start(r) ==
  IF db.rev <= r
  THEN /\ db' = [db EXCEPT !.rev = r]
       /\ api' = [state |-> "up", of |-> r, amid |-> Changing]
  ELSE /\ api' = [state |-> "looping", of |-> r, amid |-> Changing]
       /\ UNCHANGED db

\* Stopping the container ends the create-admin commands run in it.
Kills == setup' = [s \in Setups |->
                     IF setup[s] = "done" THEN "done" ELSE "idle"]

\* A crash or a reboot: restart is "unless-stopped".
RestartApi ==
  /\ api.state # "stopped"
  /\ api.state = "looping" \/ mishaps < MaxMishaps
  /\ Start(api.of) /\ Kills
  /\ mishaps' = IF api.state = "up" THEN mishaps + 1 ELSE mishaps
  /\ UNCHANGED <<code, image, archives, partials, job, commands>>

\* docker compose up -d --wait: a container of another image is replaced.
Up(o, after) ==
  /\ IF api.state = "up" /\ api.of = image
     THEN UNCHANGED <<db, api, setup>>
     ELSE Start(image) /\ Kills
  /\ Go(o, IF api'.state = "up" THEN after ELSE "printed")
  /\ UNCHANGED <<code, image, archives, partials, commands, mishaps>>

Stop(o, after) ==
  /\ api' = [api EXCEPT !.state = "stopped"]
  /\ Kills
  /\ Go(o, after)
  /\ UNCHANGED <<db, code, image, archives, partials, commands, mishaps>>

-----------------------------------------------------------------------------
(* backup *)

Dump(o) ==
  /\ job[o].at = "dump"
  /\ GoWith(o, [job[o] EXCEPT !.at = "archive", !.dump = db])
  /\ UNCHANGED <<db, code, image, api, archives, partials, setup, commands,
                 mishaps>>

\* _allocate_archive_paths looks for the archive first, then for the partial.
FindName(o) ==
  /\ job[o].at = "archive"
  /\ \E n \in Names \ Used :
       /\ \A k \in Names \ Used : n <= k
       /\ GoWith(o, [job[o] EXCEPT !.at = "partial", !.name = n])
  /\ UNCHANGED <<db, code, image, api, archives, partials, setup, commands,
                 mishaps>>

\* The name is free, or the next one is looked at, or there is none.
CheckPartial(o) ==
  /\ job[o].at = "partial"
  /\ LET taken == {n \in Names : partials[n] # {}} \cup Used
         n == job[o].name
     IN IF partials[n] = {} THEN Go(o, "open")
        ELSE \/ \E k \in Names \ taken :
                  GoWith(o, [job[o] EXCEPT !.name = k])
             \/ Names \subseteq taken /\ GoWith(o, NoJob)
  /\ UNCHANGED <<db, code, image, api, archives, partials, setup, commands,
                 mishaps>>

\* Mutant of Excluded: the partial is opened without O_EXCL.
NotExcluded(n) == FALSE
Excluded(n) == partials[n] # {}

OpenPartial(o) ==
  /\ job[o].at = "open"
  /\ IF Excluded(job[o].name) THEN Go(o, "archive") /\ UNCHANGED partials
     ELSE /\ partials' = [partials EXCEPT ![job[o].name] = @ \cup {o}]
          /\ Go(o, "write")
  /\ UNCHANGED <<db, code, image, api, archives, setup, commands, mishaps>>

\* Written, linked to its name unless that exists by now, and unlinked.
WriteArchive(o) ==
  /\ job[o].at = "write"
  /\ LET n == job[o].name
     IN /\ partials' = [partials EXCEPT ![n] = {}]
        /\ IF n \in Used THEN Go(o, "archive") /\ UNCHANGED archives
           ELSE /\ archives' = Append(archives,
                     [name |-> n, dump |-> job[o].dump,
                      whole |-> partials[n] = {o}, old |-> FALSE,
                      there |-> TRUE])
                /\ Go(o, "list")
  /\ UNCHANGED <<db, code, image, api, setup, commands, mishaps>>

Spare == Cardinality(Present) - MinKeep

AfterBackup(o) ==
  GoWith(o, IF job[o].cmd = "update"
            THEN [job[o] EXCEPT !.at = "pull", !.list = {}, !.spare = 0]
            ELSE NoJob)

\* _rotate_archives: the archives as they are listed, and how many may go.
ListArchives(o) ==
  /\ job[o].at = "list"
  /\ GoWith(o, [job[o] EXCEPT !.list = Present, !.spare = Spare,
                              !.at = "rotate"])
  /\ UNCHANGED <<db, code, image, api, archives, partials, setup, commands,
                 mishaps>>

\* The next that is old enough; one that another command deleted meanwhile
\* ends this one with an error that nothing catches.
Rotate(o) ==
  /\ job[o].at = "rotate"
  /\ LET expired == {i \in job[o].list : archives[i].old}
     IN \/ /\ job[o].spare <= 0 \/ expired = {}
           /\ AfterBackup(o)
           /\ UNCHANGED archives
        \/ /\ job[o].spare > 0
           /\ \E i \in expired :
                /\ \A k \in expired : i <= k
                /\ IF archives[i].there
                   THEN /\ archives' = [archives EXCEPT ![i].there = FALSE]
                        /\ GoWith(o, [job[o] EXCEPT !.list = @ \ {i},
                                                    !.spare = @ - 1])
                   ELSE GoWith(o, NoJob) /\ UNCHANGED archives
  /\ UNCHANGED <<db, code, image, api, partials, setup, commands, mishaps>>

Backup(o) ==
  \/ Dump(o) \/ FindName(o) \/ CheckPartial(o) \/ OpenPartial(o)
  \/ WriteArchive(o) \/ ListArchives(o) \/ Rotate(o)

BeginBackup(o) ==
  /\ Resting(o) /\ Len(archives) < MaxBackups
  /\ o \in Shells => commands < MaxCommands
  /\ commands' = IF o \in Shells THEN commands + 1 ELSE commands
  /\ GoWith(o, [NoJob EXCEPT !.cmd = "backup", !.at = "dump"])
  /\ UNCHANGED <<db, code, image, api, archives, partials, setup, mishaps>>

-----------------------------------------------------------------------------
(* update, and the rollback it prints *)

\* A scheduled update has no --skip-backup.
BeginUpdate(o) ==
  /\ Resting(o) /\ commands < MaxCommands /\ Len(archives) < MaxBackups
  /\ commands' = commands + 1
  /\ \E first \in {"dump", "pull"} :
       /\ o \in Timers => first = "dump"
       /\ GoWith(o, [NoJob EXCEPT !.cmd = "update", !.at = first, !.prev = code])
  /\ UNCHANGED <<db, code, image, api, archives, partials, setup, mishaps>>

\* git pull --ff-only, to a release that is out by now; or --skip-pull.
Pull(o) ==
  /\ job[o].cmd = "update" /\ job[o].at = "pull"
  /\ code' \in code..MaxRev
  /\ Go(o, "build")
  /\ UNCHANGED <<db, image, api, archives, partials, setup, commands, mishaps>>

Build(o) ==
  /\ job[o].at = "build"
  /\ image' = code
  /\ Go(o, IF job[o].cmd = "update" THEN "stop" ELSE "up")
  /\ UNCHANGED <<db, code, api, archives, partials, setup, commands, mishaps>>

\* Mutant of StopApi: the api keeps serving while the database migrates.
KeepApi(o) ==
  /\ job[o].cmd = "update" /\ job[o].at = "stop"
  /\ Go(o, "migrate")
  /\ UNCHANGED <<db, code, image, api, archives, partials, setup, commands,
                 mishaps>>
StopApi(o) ==
  /\ job[o].cmd = "update" /\ job[o].at = "stop"
  /\ Stop(o, "migrate")

\* alembic upgrade head in a container of the new image, one transaction.
Migrate(o) ==
  /\ job[o].at = "migrate"
  /\ IF db.rev <= image
     THEN db' = [db EXCEPT !.rev = image] /\ Go(o, "up")
     ELSE UNCHANGED db /\ Go(o, "printed")
  /\ UNCHANGED <<code, image, api, archives, partials, setup, commands, mishaps>>

\* The services start, and an update looks at their health.
Restarting(o) ==
  /\ job[o].at = "up"
  /\ Up(o, CASE job[o].cmd = "rollback" -> "served"
             [] job[o].cmd = "update"   -> "health"
             [] OTHER                   -> "idle")

CheckHealth(o) ==
  /\ job[o].at = "health"
  /\ Go(o, IF api.state = "up" THEN "idle" ELSE "printed")
  /\ UNCHANGED <<db, code, image, api, archives, partials, setup, commands,
                 mishaps>>

\* git checkout of the revision before, docker compose build api, up -d: the admin
\* carries out what was printed, for a scheduled update in its log.
BeginRollback(o) ==
  /\ job[o].cmd = "update" /\ job[o].at = "printed"
  /\ code' = job[o].prev
  /\ GoWith(o, [job[o] EXCEPT !.cmd = "rollback", !.at = "build"])
  /\ UNCHANGED <<db, image, api, archives, partials, setup, commands, mishaps>>

Update(o) ==
  \/ Pull(o) \/ Build(o) \/ StopApi(o) \/ Migrate(o) \/ Restarting(o)
  \/ CheckHealth(o) \/ BeginRollback(o)

-----------------------------------------------------------------------------
(* restore *)

\* The archive's dump is extracted and agrees with its checksum.
BeginRestore(o) ==
  /\ o \in Shells /\ Resting(o) /\ commands < MaxCommands
  /\ \E i \in Present :
       /\ archives[i].whole
       /\ GoWith(o, [NoJob EXCEPT !.cmd = "restore", !.at = "stop",
                                  !.dump = archives[i].dump])
  /\ commands' = commands + 1
  /\ UNCHANGED <<db, code, image, api, archives, partials, setup, mishaps>>

\* Mutant of StopFirst: the dump is loaded under a serving api.
LoadFirst(o) ==
  /\ job[o].cmd = "restore" /\ job[o].at = "stop"
  /\ Go(o, "load")
  /\ UNCHANGED <<db, code, image, api, archives, partials, setup, commands,
                 mishaps>>
StopFirst(o) ==
  /\ job[o].cmd = "restore" /\ job[o].at = "stop"
  /\ Stop(o, "load")

\* What the dump does not have stays, and keeps the tables it refers to from
\* being dropped: a tenant's schema, a table of a later migration.
Leftover(dump) ==
  \/ db.tenants \ dump.tenants # {}
  \/ \E r \in Linking : dump.rev < r /\ r <= db.rev

\* pg_restore --clean --single-transaction --exit-on-error: all or nothing.  To drop
\* a table it waits for the transactions that have read it, create-admin's too.
Load(o) ==
  /\ job[o].at = "load"
  /\ \A s \in Setups : setup[s] # "hashing"
  /\ IF Leftover(job[o].dump) THEN UNCHANGED db /\ Go(o, "printed")
     ELSE db' = job[o].dump /\ Go(o, "up")
  /\ UNCHANGED <<code, image, api, archives, partials, setup, commands, mishaps>>

Restore(o) == BeginRestore(o) \/ StopFirst(o) \/ Load(o)

-----------------------------------------------------------------------------
(* create-admin *)

\* Mutant of Admitted: no advisory lock.
AdmittedAny(s) == TRUE
Admitted(s) == \A t \in Setups : setup[t] \notin {"locked", "hashing"}

\* The advisory lock, held to the end of the transaction.
LockSetup(s) ==
  /\ setup[s] = "idle" /\ api.state = "up" /\ Admitted(s)
  /\ setup' = [setup EXCEPT ![s] = "locked"]
  /\ UNCHANGED <<db, code, image, api, archives, partials, job, commands, mishaps>>

\* An admin is looked for; the password is hashed in a thread.
CheckSetup(s) ==
  /\ setup[s] = "locked"
  /\ setup' = [setup EXCEPT ![s] = IF db.tenants = {} THEN "hashing" ELSE "done"]
  /\ UNCHANGED <<db, code, image, api, archives, partials, job, commands, mishaps>>

\* Account, tenant, schema, owner and session commit.
CommitSetup(s) ==
  /\ setup[s] = "hashing"
  /\ setup' = [setup EXCEPT ![s] = "done"]
  /\ db' = [db EXCEPT !.tenants = @ \cup {s}]
  /\ UNCHANGED <<code, image, api, archives, partials, job, commands, mishaps>>

-----------------------------------------------------------------------------
\* A command's subprocess fails; an update prints how to roll back, whatever
\* else fails leaves things as they are, but for the partial archive.
FailCommand(o) ==
  /\ mishaps < MaxMishaps
  /\ ~Resting(o)
  /\ mishaps' = mishaps + 1
  /\ partials' = [n \in Names |-> IF job[o].at = "write" /\ n = job[o].name
                                  THEN {} ELSE partials[n]]
  /\ IF job[o].cmd = "update" THEN Go(o, "printed") ELSE GoWith(o, NoJob)
  /\ UNCHANGED <<db, code, image, api, archives, setup, commands>>

\* It is killed.
KillCommand(o) ==
  /\ mishaps < MaxMishaps
  /\ ~Resting(o)
  /\ mishaps' = mishaps + 1
  /\ GoWith(o, NoJob)
  /\ UNCHANGED <<db, code, image, api, archives, partials, setup, commands>>

OpsNext ==
  \/ RestartApi
  \/ \E o \in Operators :
       \/ BeginBackup(o) \/ Backup(o) \/ BeginUpdate(o) \/ Update(o)
       \/ Restore(o) \/ FailCommand(o) \/ KillCommand(o)
  \/ \E s \in Setups : LockSetup(s) \/ CheckSetup(s) \/ CommitSetup(s)

OpsSpec == OpsInit /\ [][OpsNext]_opsVars

-----------------------------------------------------------------------------
(* What an operator relies on *)

\* The api never serves on a database of another release than its own, while
\* updates, rollbacks and restores fail half-way, die and are run again: unless a
\* command started it between another's stop and that one's change of the database.
ServesItsSchema == api.state = "up" /\ api.amid = {} => db.rev = api.of

\* What _run_restore and _run_update say they do, "Stopping api before restore..." and
\* "Stopping api before migrations...", is for this, and the up -d of another command
\* undoes it: a scheduled update in the midst of a restore.
ServesAlways == api.state = "up" => db.rev = api.of

\* The archive that a backup has written is there, whole and its own, while
\* the command goes on to rotate or, in an update, to pull and migrate: other
\* backups neither write into it, take its name nor rotate it away.
BackupStands ==
  \A o \in Operators :
    job[o].cmd \in {"backup", "update"} /\ job[o].at \in
        {"list", "rotate", "pull", "build", "stop", "migrate", "up", "health"}
      /\ job[o].name # 0 =>
      \E i \in Present : /\ archives[i].name = job[o].name
                         /\ archives[i].dump = job[o].dump
                         /\ archives[i].whole

\* A backup that its command relies on stands, and two commands that rotate at the
\* same time, each by a list of its own, do not together leave fewer archives than
\* are to be kept.
BackupsKept ==
  [][/\ BackupStands'
     /\ Cardinality(Present) >= MinKeep => Cardinality(Present') >= MinKeep]_opsVars

\* However many create-admin commands run, one makes the first admin.
OneFirstAdmin == Cardinality(db.tenants) <= 1

\* What scripts/README.md:135 says of update: it "prints the exact
\* rollback/restore commands if a step fails".  Carried out without a fault,
\* the rollback ends with the api serving.
RollbackServes ==
  \A o \in Operators :
    ~(job[o].cmd = "rollback" /\ job[o].at = "printed")
=============================================================================
