--------------------------- MODULE SelfHostedProofs ---------------------------
(* Proofs about SelfHosted, for every value of its constants.                 *)
EXTENDS SelfHosted, FiniteSetTheorems, SequenceTheorems, TLAPS

-----------------------------------------------------------------------------
(* Types *)

LEMMA NoJobType == NoJob \in Job /\ NoJob.at = "idle" /\ NoJob.cmd = "none"
BY OpsAssumption DEF NoJob, Job, Commands, Places, Database, Revs

LEMMA TypeMoves ==
  ASSUME OpsTypeOK, NEW o \in Operators, NEW x \in Job, GoWith(o, x),
         x.at \in {"partial", "open", "write"} => x.name \in Names
  PROVE  /\ job' \in [Operators -> Job]
         /\ \A u \in Operators :
              job'[u].at \in {"partial", "open", "write"} => job'[u].name \in Names
BY DEF OpsTypeOK, GoWith

\* A step to another place, or to the end of the command.
LEMMA TypeGoes ==
  ASSUME OpsTypeOK, NEW o \in Operators, NEW place \in Places, Go(o, place),
         place \in {"partial", "open", "write"} => job[o].name \in Names
  PROVE  /\ job' \in [Operators -> Job]
         /\ \A u \in Operators :
              job'[u].at \in {"partial", "open", "write"} => job'[u].name \in Names
<1>1. CASE place = "idle"
  BY <1>1, NoJobType, TypeMoves DEF Go
<1>2. CASE place # "idle"
  <2> DEFINE x == [job[o] EXCEPT !.at = place]
  <2>1. x \in Job /\ x.at = place /\ x.name = job[o].name
    BY DEF OpsTypeOK, Job
  <2>2. GoWith(o, x)
    BY <1>2 DEF Go
  <2> HIDE DEF x
  <2> QED
    BY <2>1, <2>2, TypeMoves
<1> QED
  BY <1>1, <1>2

LEMMA KillsType ==
  ASSUME Kills
  PROVE  setup' \in [Setups -> {"idle", "locked", "hashing", "done"}]
BY DEF Kills

LEMMA StartType ==
  ASSUME OpsTypeOK, NEW r \in Revs, Start(r)
  PROVE  /\ db' \in Database
         /\ api' \in Api
BY DEF OpsTypeOK, Start, Database, Api, Changing

LEMMA UpType ==
  ASSUME OpsTypeOK, NEW o \in Operators, NEW place \in {"served", "health", "idle"}, Up(o, place)
  PROVE  OpsTypeOK'
<1>1. /\ db' \in Database
      /\ api' \in Api
      /\ setup' \in [Setups -> {"idle", "locked", "hashing", "done"}]
  BY StartType, KillsType DEF Up, OpsTypeOK
<1>2. PICK after \in Places : Go(o, after) /\ after \notin {"partial", "open", "write"}
  BY DEF Up, Places
<1> QED
  BY <1>1, <1>2, TypeGoes DEF Up, OpsTypeOK

LEMMA StopType ==
  ASSUME OpsTypeOK, NEW o \in Operators, NEW place \in {"migrate", "load"}, Stop(o, place)
  PROVE  OpsTypeOK'
<1>1. place \in Places
  BY DEF Places
<1>2. api' \in Api
  BY DEF Stop, OpsTypeOK, Api
<1> QED
  BY <1>1, <1>2, TypeGoes, KillsType DEF Stop, OpsTypeOK

LEMMA BackupType ==
  ASSUME OpsTypeOK, NEW o \in Operators, Backup(o) \/ BeginBackup(o)
  PROVE  OpsTypeOK'
<1>0. job[o] \in Job
  BY DEF OpsTypeOK
<1>1. CASE Dump(o)
  <2> DEFINE x == [job[o] EXCEPT !.at = "archive", !.dump = db]
  <2>1. x \in Job /\ x.at = "archive"
    BY <1>0 DEF OpsTypeOK, Job, Places
  <2>2. GoWith(o, x)
    BY <1>1 DEF Dump
  <2> HIDE DEF x
  <2> QED
    BY <1>1, <2>1, <2>2, TypeMoves DEF Dump, OpsTypeOK
<1>2. CASE FindName(o)
  <2>1. PICK n \in Names : GoWith(o, [job[o] EXCEPT !.at = "partial", !.name = n])
    BY <1>2 DEF FindName
  <2> DEFINE x == [job[o] EXCEPT !.at = "partial", !.name = n]
  <2>4. "partial" \in Places /\ n \in 0..MaxBackups
    BY DEF Places, Names
  <2>2. x \in Job /\ x.name = n
    BY <1>0, <2>4 DEF Job
  <2>3. GoWith(o, x)
    BY <2>1
  <2> HIDE DEF x
  <2> QED
    BY <1>2, <2>2, <2>3, TypeMoves DEF FindName, OpsTypeOK
<1>3. CASE CheckPartial(o)
  <2>1. job[o].name \in Names /\ job[o].at = "partial"
    BY <1>3 DEF CheckPartial, OpsTypeOK
  <2>2. \/ Go(o, "open") \/ GoWith(o, NoJob)
        \/ \E k \in Names : GoWith(o, [job[o] EXCEPT !.name = k])
    BY <1>3 DEF CheckPartial
  <2>3. ASSUME NEW k \in Names, GoWith(o, [job[o] EXCEPT !.name = k])
        PROVE  /\ job' \in [Operators -> Job]
               /\ \A u \in Operators :
                    job'[u].at \in {"partial", "open", "write"} => job'[u].name \in Names
    <3> DEFINE x == [job[o] EXCEPT !.name = k]
    <3>1. x \in Job /\ x.name = k
      BY <1>0 DEF Job, Names
    <3>2. GoWith(o, x)
      BY <2>3
    <3> HIDE DEF x
    <3> QED
      BY <3>1, <3>2, TypeMoves
  <2>4. "open" \in Places
    BY DEF Places
  <2>5. /\ job' \in [Operators -> Job]
        /\ \A u \in Operators :
             job'[u].at \in {"partial", "open", "write"} => job'[u].name \in Names
    BY <2>1, <2>2, <2>3, <2>4, TypeGoes, TypeMoves, NoJobType
  <2> QED
    BY <1>3, <2>5 DEF CheckPartial, OpsTypeOK
<1>4. CASE OpenPartial(o)
  <2>1. job[o].name \in Names
    BY <1>4 DEF OpenPartial, OpsTypeOK
  <2>2. PICK place \in {"archive", "write"} : Go(o, place)
    BY <1>4 DEF OpenPartial
  <2>3. partials' \in [Names -> SUBSET Operators]
    BY <1>4 DEF OpenPartial, OpsTypeOK
  <2> QED
    BY <1>4, <2>1, <2>2, <2>3, TypeGoes DEF OpenPartial, OpsTypeOK, Places
<1>5. CASE WriteArchive(o)
  <2> DEFINE n == job[o].name
  <2>1. n \in Names
    BY <1>5 DEF WriteArchive, OpsTypeOK
  <2>2. PICK place \in {"archive", "list"} : Go(o, place)
    BY <1>5 DEF WriteArchive
  <2>3. partials' \in [Names -> SUBSET Operators]
    BY <1>5 DEF WriteArchive, OpsTypeOK
  <2> DEFINE new == [name |-> n, dump |-> job[o].dump, whole |-> partials[n] = {o},
                     old |-> FALSE, there |-> TRUE]
  <2>4. new \in Archive
    BY <1>0, <2>1 DEF Archive, Job
  <2>5. archives' = archives \/ archives' = Append(archives, new)
    BY <1>5 DEF WriteArchive
  <2> HIDE DEF new
  <2>6. archives' \in Seq(Archive)
    BY <2>4, <2>5 DEF OpsTypeOK
  <2> QED
    BY <1>5, <2>1, <2>2, <2>3, <2>6, TypeGoes DEF WriteArchive, OpsTypeOK, Places
<1>6. CASE ListArchives(o)
  <2>1. Present \subseteq Nat /\ IsFiniteSet(Present)
    <3>1. DOMAIN archives = 1..Len(archives) /\ Len(archives) \in Nat
      BY DEF OpsTypeOK
    <3>2. IsFiniteSet(1..Len(archives))
      BY <3>1, FS_Interval
    <3> QED
      BY <3>1, <3>2, FS_Subset DEF Present
  <2>2. Spare \in Int
    BY <2>1, OpsAssumption, FS_CardinalityType DEF Spare
  <2> DEFINE x == [job[o] EXCEPT !.list = Present, !.spare = Spare, !.at = "rotate"]
  <2>3. x \in Job /\ x.at = "rotate"
    BY <1>0, <2>1, <2>2 DEF Job, Places
  <2>4. GoWith(o, x)
    BY <1>6 DEF ListArchives
  <2> HIDE DEF x
  <2> QED
    BY <1>6, <2>3, <2>4, TypeMoves DEF ListArchives, OpsTypeOK
<1>7. CASE Rotate(o)
  <2>1. CASE AfterBackup(o) /\ UNCHANGED archives
    <3> DEFINE x == [job[o] EXCEPT !.at = "pull", !.list = {}, !.spare = 0]
    <3>3. "pull" \in Places /\ {} \in SUBSET Nat /\ 0 \in Int
      BY DEF Places
    <3>1. x \in Job /\ x.at = "pull"
      BY <1>0, <3>3 DEF Job
    <3>2. GoWith(o, x) \/ GoWith(o, NoJob)
      BY <2>1 DEF AfterBackup
    <3> HIDE DEF x
    <3> QED
      BY <1>7, <2>1, <3>1, <3>2, TypeMoves, NoJobType DEF Rotate, OpsTypeOK
  <2>2. ASSUME NEW i \in job[o].list, archives' = [archives EXCEPT ![i].there = FALSE],
               GoWith(o, [job[o] EXCEPT !.list = @ \ {i}, !.spare = @ - 1])
        PROVE  OpsTypeOK'
    <3> DEFINE x == [job[o] EXCEPT !.list = @ \ {i}, !.spare = @ - 1]
    <3>5. job[o].list \ {i} \in SUBSET Nat /\ job[o].spare - 1 \in Int
      BY <1>0 DEF Job
    <3>1. x \in Job /\ x.at = job[o].at
      BY <1>0, <3>5 DEF Job
    <3>2. GoWith(o, x)
      BY <2>2
    <3> HIDE DEF x
    <3>3. job[o].at = "rotate"
      BY <1>7 DEF Rotate
    <3> DEFINE gone == [archives[i] EXCEPT !.there = FALSE]
    <3>6. i \in DOMAIN archives => gone \in Archive
      <4>1. i \in DOMAIN archives => archives[i] \in Archive
        BY DEF OpsTypeOK
      <4> QED
        BY <4>1, Zenon DEF Archive
    <3>7. archives' = [archives EXCEPT ![i] = gone]
      BY <2>2, Zenon
    <3> HIDE DEF gone
    <3>4. archives' \in Seq(Archive)
      <4>1. archives \in Seq(Archive)
        BY DEF OpsTypeOK
      <4>2. CASE i \in 1..Len(archives)
        BY <3>6, <3>7, <4>1, <4>2, ExceptSeq
      <4>3. CASE i \notin 1..Len(archives)
        <5>1. DOMAIN archives = 1..Len(archives) /\ archives = [j \in DOMAIN archives |-> archives[j]]
          BY <4>1
        <5>2. archives' = [j \in DOMAIN archives |-> IF j = i THEN gone ELSE archives[j]]
          BY <3>7, Zenon
        <5>3. archives' = archives
          BY <4>3, <5>1, <5>2
        <5> QED
          BY <4>1, <5>3
      <4> QED
        BY <4>2, <4>3
    <3> QED
      BY <1>7, <3>1, <3>2, <3>3, <3>4, TypeMoves DEF Rotate, OpsTypeOK
  <2>3. CASE GoWith(o, NoJob) /\ UNCHANGED archives
    BY <1>7, <2>3, TypeMoves, NoJobType DEF Rotate, OpsTypeOK
  <2> QED
    BY <1>7, <2>1, <2>2, <2>3 DEF Rotate
<1>8. CASE BeginBackup(o)
  <2> DEFINE x == [NoJob EXCEPT !.cmd = "backup", !.at = "dump"]
  <2>1. x \in Job /\ x.at = "dump"
    BY NoJobType DEF Job, Commands, Places
  <2>2. GoWith(o, x)
    BY <1>8 DEF BeginBackup
  <2> HIDE DEF x
  <2> QED
    BY <1>8, <2>1, <2>2, TypeMoves DEF BeginBackup, OpsTypeOK
<1> QED
  BY <1>1, <1>2, <1>3, <1>4, <1>5, <1>6, <1>7, <1>8 DEF Backup

LEMMA UpdateType ==
  ASSUME OpsTypeOK, NEW o \in Operators, Update(o) \/ BeginUpdate(o)
  PROVE  OpsTypeOK'
<1>0. job[o] \in Job /\ "dump" \in Places
  BY DEF OpsTypeOK, Places
<1>1. CASE Pull(o)
  <2>1. code' \in Revs
    BY <1>1, OpsAssumption DEF Pull, OpsTypeOK, Revs
  <2>2. Go(o, "build") /\ "build" \in Places
    BY <1>1 DEF Pull, Places
  <2> QED
    BY <1>1, <2>1, <2>2, TypeGoes DEF Pull, OpsTypeOK
<1>2. CASE Build(o)
  <2>1. PICK place \in {"stop", "up"} : Go(o, place)
    BY <1>2 DEF Build
  <2> QED
    BY <1>2, <2>1, TypeGoes DEF Build, OpsTypeOK, Places
<1>3. CASE StopApi(o)
  BY <1>3, StopType DEF StopApi
<1>4. CASE Migrate(o)
  <2>1. PICK place \in {"up", "printed"} : Go(o, place)
    BY <1>4 DEF Migrate
  <2>2. db' \in Database
    BY <1>4 DEF Migrate, OpsTypeOK, Database
  <2> QED
    BY <1>4, <2>1, <2>2, TypeGoes DEF Migrate, OpsTypeOK, Places
<1>5. CASE Restarting(o)
  <2>1. PICK place \in {"served", "health", "idle"} : Up(o, place)
    BY <1>5 DEF Restarting
  <2> QED
    BY <2>1, UpType
<1>6. CASE CheckHealth(o)
  <2>1. PICK place \in {"idle", "printed"} : Go(o, place)
    BY <1>6 DEF CheckHealth
  <2> QED
    BY <1>6, <2>1, TypeGoes DEF CheckHealth, OpsTypeOK, Places
<1>7. CASE BeginRollback(o)
  <2>1. job[o].prev \in Revs /\ "rollback" \in Commands /\ "build" \in Places
    BY <1>0 DEF Job, Commands, Places
  <2> DEFINE x == [job[o] EXCEPT !.cmd = "rollback", !.at = "build"]
  <2>2. x \in Job /\ x.at = "build"
    BY <1>0, <2>1 DEF Job
  <2>3. GoWith(o, x)
    BY <1>7 DEF BeginRollback
  <2> HIDE DEF x
  <2> QED
    BY <1>7, <2>1, <2>2, <2>3, TypeMoves DEF BeginRollback, OpsTypeOK
<1>8. CASE BeginUpdate(o)
  <2>1. PICK first \in {"dump", "pull"} :
          GoWith(o, [NoJob EXCEPT !.cmd = "update", !.at = first, !.prev = code])
    BY <1>8 DEF BeginUpdate
  <2> DEFINE x == [NoJob EXCEPT !.cmd = "update", !.at = first, !.prev = code]
  <2>2. code \in Revs /\ "update" \in Commands /\ first \in Places
    BY DEF OpsTypeOK, Commands, Places
  <2>3. x \in Job /\ x.at = first
    BY <2>2, NoJobType DEF Job
  <2>4. GoWith(o, x)
    BY <2>1
  <2> HIDE DEF x
  <2> QED
    BY <1>8, <2>3, <2>4, TypeMoves DEF BeginUpdate, OpsTypeOK
<1> QED
  BY <1>1, <1>2, <1>3, <1>4, <1>5, <1>6, <1>7, <1>8 DEF Update

LEMMA RestoreType ==
  ASSUME OpsTypeOK, NEW o \in Operators, Restore(o)
  PROVE  OpsTypeOK'
<1>1. CASE BeginRestore(o)
  <2>1. PICK i \in Present :
          GoWith(o, [NoJob EXCEPT !.cmd = "restore", !.at = "stop",
                                  !.dump = archives[i].dump])
    BY <1>1 DEF BeginRestore
  <2> DEFINE x == [NoJob EXCEPT !.cmd = "restore", !.at = "stop",
                                !.dump = archives[i].dump]
  <2>2. archives[i].dump \in Database
    <3>1. archives[i] \in Archive
      BY DEF OpsTypeOK, Present
    <3> QED
      BY <3>1 DEF Archive
  <2>3. x \in Job /\ x.at = "stop"
    BY <2>2, NoJobType DEF Job, Commands, Places
  <2>4. GoWith(o, x)
    BY <2>1
  <2> HIDE DEF x
  <2> QED
    BY <1>1, <2>3, <2>4, TypeMoves DEF BeginRestore, OpsTypeOK
<1>2. CASE StopFirst(o)
  BY <1>2, StopType DEF StopFirst
<1>3. CASE Load(o)
  <2>1. PICK place \in {"up", "printed"} : Go(o, place)
    BY <1>3 DEF Load
  <2>2. db' \in Database
    BY <1>3 DEF Load, OpsTypeOK, Job
  <2> QED
    BY <1>3, <2>1, <2>2, TypeGoes DEF Load, OpsTypeOK, Places
<1> QED
  BY <1>1, <1>2, <1>3 DEF Restore

LEMMA MishapType ==
  ASSUME OpsTypeOK, NEW o \in Operators, FailCommand(o) \/ KillCommand(o)
  PROVE  OpsTypeOK'
<1>1. mishaps' \in Nat /\ UNCHANGED <<db, code, image, api, archives, setup, commands>>
  BY DEF FailCommand, KillCommand, OpsTypeOK
<1>2. partials' \in [Names -> SUBSET Operators]
  BY DEF FailCommand, KillCommand, OpsTypeOK
<1>3. Go(o, "printed") \/ GoWith(o, NoJob)
  BY DEF FailCommand, KillCommand
<1>4. "printed" \in Places
  BY DEF Places
<1> QED
  BY <1>1, <1>2, <1>3, <1>4, TypeGoes, TypeMoves, NoJobType DEF OpsTypeOK

LEMMA SetupType ==
  ASSUME OpsTypeOK, NEW s \in Setups, LockSetup(s) \/ CheckSetup(s) \/ CommitSetup(s)
  PROVE  OpsTypeOK'
<1>1. setup' \in [Setups -> {"idle", "locked", "hashing", "done"}]
  BY DEF LockSetup, CheckSetup, CommitSetup, OpsTypeOK
<1>2. db' \in Database
  BY DEF LockSetup, CheckSetup, CommitSetup, OpsTypeOK, Database
<1> QED
  BY <1>1, <1>2 DEF LockSetup, CheckSetup, CommitSetup, OpsTypeOK

LEMMA TypeNext == OpsTypeOK /\ [OpsNext]_opsVars => OpsTypeOK'
<1> SUFFICES ASSUME OpsTypeOK, [OpsNext]_opsVars
             PROVE  OpsTypeOK'
  OBVIOUS
<1>1. CASE RestartApi
  BY <1>1, StartType, KillsType DEF RestartApi, OpsTypeOK, Api
<1>2. CASE UNCHANGED opsVars
  BY <1>2 DEF opsVars, OpsTypeOK
<1> QED
  BY <1>1, <1>2, BackupType, UpdateType, RestoreType, MishapType, SetupType DEF OpsNext

LEMMA TypeInit == OpsInit => OpsTypeOK
<1> SUFFICES ASSUME OpsInit PROVE OpsTypeOK
  OBVIOUS
<1>1. [rev |-> 0, tenants |-> {}] \in Database /\ 0 \in Revs
  BY OpsAssumption DEF Database, Revs
<1> DEFINE first(i) == [name |-> i, dump |-> [rev |-> 0, tenants |-> {}],
                        whole |-> TRUE, old |-> TRUE, there |-> TRUE]
<1>2. \A i \in 1..Old : first(i) \in Archive
  BY <1>1, OpsAssumption DEF Archive, Names
<1>3. archives = [i \in 1..Old |-> first(i)]
  BY DEF OpsInit
<1> HIDE DEF first
<1>4. archives \in Seq(Archive)
  BY <1>2, <1>3, OpsAssumption
<1>5. /\ db \in Database /\ code \in Revs /\ image \in Revs
      /\ api \in Api
  BY <1>1 DEF OpsInit, Api
<1> QED
  BY <1>4, <1>5, NoJobType DEF OpsInit, OpsTypeOK

\* Every variable of the operators' commands and of the server keeps its type.
THEOREM OpsType == OpsSpec => []OpsTypeOK
BY TypeInit, TypeNext, PTL DEF OpsSpec

-----------------------------------------------------------------------------
(* What the steps of a backup can change *)

BackupPlaces == {"idle", "dump", "archive", "partial", "open", "write", "list", "rotate"}

OthersStay(o) == \A u \in Operators \ {o} : job'[u] = job[u]

LEMMA GoWithJob ==
  ASSUME OpsTypeOK, NEW o \in Operators, NEW x, GoWith(o, x)
  PROVE  OthersStay(o) /\ job'[o] = x
BY DEF OpsTypeOK, GoWith, OthersStay

LEMMA GoJob ==
  ASSUME OpsTypeOK, NEW o \in Operators, NEW place, Go(o, place)
  PROVE  /\ OthersStay(o)
         /\ \/ job'[o] = NoJob
            \/ /\ job'[o].at = place /\ job'[o].cmd = job[o].cmd
               /\ job'[o].dump = job[o].dump
<1>1. CASE place = "idle"
  BY <1>1, GoWithJob DEF Go
<1>2. CASE place # "idle"
  <2> DEFINE x == [job[o] EXCEPT !.at = place]
  <2>1. x.at = place /\ x.cmd = job[o].cmd /\ x.dump = job[o].dump
    BY DEF OpsTypeOK, Job
  <2>2. GoWith(o, x)
    BY <1>2 DEF Go
  <2> HIDE DEF x
  <2> QED
    BY <2>1, <2>2, GoWithJob
<1> QED
  BY <1>1, <1>2

\* It stays in a backup, or goes on in the update that it is part of; the database
\* that it carries is the one it had or the one it dumps.
LEMMA BackupJob ==
  ASSUME OpsTypeOK, NEW o \in Operators, Backup(o) \/ BeginBackup(o)
  PROVE  /\ UNCHANGED <<db, api, setup>> /\ OthersStay(o)
         /\ job'[o].at \in BackupPlaces \/ (job'[o].at = "pull" /\ job[o].cmd = "update")
         /\ job'[o].cmd \in {job[o].cmd, "none", "backup"}
         /\ job'[o].dump \in {job[o].dump, NoJob.dump, db}
         /\ \A i \in DOMAIN archives' :
              \/ i \in DOMAIN archives /\ archives'[i].dump = archives[i].dump
              \/ archives'[i].dump = job[o].dump
<1>0. job[o] \in Job /\ archives \in Seq(Archive)
  BY DEF OpsTypeOK
<1>1. UNCHANGED <<db, api, setup>>
  BY DEF Backup, BeginBackup, Dump, FindName, CheckPartial, OpenPartial, WriteArchive,
         ListArchives, Rotate
<1>2. CASE Dump(o)
  <2> DEFINE x == [job[o] EXCEPT !.at = "archive", !.dump = db]
  <2>1. x.at = "archive" /\ x.cmd = job[o].cmd /\ x.dump = db
    BY <1>0 DEF Job
  <2>2. GoWith(o, x) /\ archives' = archives
    BY <1>2 DEF Dump
  <2> HIDE DEF x
  <2> QED
    BY <1>1, <2>1, <2>2, GoWithJob DEF BackupPlaces
<1>3. CASE FindName(o)
  <2>1. PICK n : GoWith(o, [job[o] EXCEPT !.at = "partial", !.name = n])
    BY <1>3 DEF FindName
  <2> DEFINE x == [job[o] EXCEPT !.at = "partial", !.name = n]
  <2>2. x.at = "partial" /\ x.cmd = job[o].cmd /\ x.dump = job[o].dump
    BY <1>0 DEF Job
  <2>3. GoWith(o, x) /\ archives' = archives
    BY <1>3, <2>1 DEF FindName
  <2> HIDE DEF x
  <2> QED
    BY <1>1, <2>2, <2>3, GoWithJob DEF BackupPlaces
<1>4. CASE CheckPartial(o)
  <2>1. archives' = archives /\ job[o].at = "partial"
    BY <1>4 DEF CheckPartial
  <2>2. \/ Go(o, "open") \/ GoWith(o, NoJob)
        \/ \E k \in Names : GoWith(o, [job[o] EXCEPT !.name = k])
    BY <1>4 DEF CheckPartial
  <2>3. CASE Go(o, "open") \/ GoWith(o, NoJob)
    BY <1>1, <2>1, <2>3, GoJob, GoWithJob, NoJobType DEF BackupPlaces
  <2>4. ASSUME NEW k \in Names, GoWith(o, [job[o] EXCEPT !.name = k])
        PROVE  /\ OthersStay(o) /\ job'[o].at = job[o].at /\ job'[o].cmd = job[o].cmd
               /\ job'[o].dump = job[o].dump
    <3> DEFINE x == [job[o] EXCEPT !.name = k]
    <3>1. x.at = job[o].at /\ x.cmd = job[o].cmd /\ x.dump = job[o].dump
      BY <1>0 DEF Job
    <3>2. GoWith(o, x)
      BY <2>4
    <3> HIDE DEF x
    <3> QED
      BY <3>1, <3>2, GoWithJob
  <2> QED
    BY <1>1, <2>1, <2>2, <2>3, <2>4 DEF BackupPlaces
<1>5. CASE OpenPartial(o)
  <2>1. PICK place \in {"archive", "write"} : Go(o, place)
    BY <1>5 DEF OpenPartial
  <2> QED
    BY <1>1, <1>5, <2>1, GoJob, NoJobType DEF OpenPartial, BackupPlaces
<1>6. CASE WriteArchive(o)
  <2>1. PICK place \in {"archive", "list"} : Go(o, place)
    BY <1>6 DEF WriteArchive
  <2> DEFINE new == [name |-> job[o].name, dump |-> job[o].dump,
                     whole |-> partials[job[o].name] = {o}, old |-> FALSE, there |-> TRUE]
  <2>2. new.dump = job[o].dump
    OBVIOUS
  <2>3. archives' = archives \/ archives' = Append(archives, new)
    BY <1>6 DEF WriteArchive
  <2> HIDE DEF new
  <2>4. \A i \in DOMAIN archives' :
          (i \in DOMAIN archives /\ archives'[i] = archives[i]) \/ archives'[i] = new
    BY <1>0, <2>3
  <2> QED
    BY <1>1, <2>1, <2>2, <2>4, GoJob, NoJobType DEF BackupPlaces
<1>7. CASE ListArchives(o)
  <2> DEFINE x == [job[o] EXCEPT !.list = Present, !.spare = Spare, !.at = "rotate"]
  <2>1. x.at = "rotate" /\ x.cmd = job[o].cmd /\ x.dump = job[o].dump
    BY <1>0 DEF Job
  <2>2. GoWith(o, x) /\ archives' = archives
    BY <1>7 DEF ListArchives
  <2> HIDE DEF x
  <2> QED
    BY <1>1, <2>1, <2>2, GoWithJob DEF BackupPlaces
<1>8. CASE Rotate(o)
  <2>0. job[o].at = "rotate"
    BY <1>8 DEF Rotate
  <2>1. CASE AfterBackup(o) /\ UNCHANGED archives
    <3> DEFINE x == [job[o] EXCEPT !.at = "pull", !.list = {}, !.spare = 0]
    <3>1. x.at = "pull" /\ x.cmd = job[o].cmd /\ x.dump = job[o].dump
      BY <1>0 DEF Job
    <3>2. (GoWith(o, x) /\ job[o].cmd = "update") \/ GoWith(o, NoJob)
      BY <2>1 DEF AfterBackup
    <3> HIDE DEF x
    <3> QED
      BY <1>1, <2>1, <3>1, <3>2, GoWithJob, NoJobType DEF BackupPlaces
  <2>2. ASSUME NEW i \in job[o].list, archives' = [archives EXCEPT ![i].there = FALSE],
               GoWith(o, [job[o] EXCEPT !.list = @ \ {i}, !.spare = @ - 1])
        PROVE  /\ OthersStay(o) /\ job'[o].at = "rotate" /\ job'[o].cmd = job[o].cmd
               /\ job'[o].dump = job[o].dump
               /\ \A k \in DOMAIN archives' :
                    k \in DOMAIN archives /\ archives'[k].dump = archives[k].dump
    <3> DEFINE x == [job[o] EXCEPT !.list = @ \ {i}, !.spare = @ - 1]
    <3>1. x.at = "rotate" /\ x.cmd = job[o].cmd /\ x.dump = job[o].dump
      BY <1>0, <2>0 DEF Job
    <3>2. GoWith(o, x)
      BY <2>2
    <3> HIDE DEF x
    <3> DEFINE gone == [archives[i] EXCEPT !.there = FALSE]
    <3>3. archives' = [k \in DOMAIN archives |-> IF k = i THEN gone ELSE archives[k]]
      BY <2>2, Zenon
    <3>4. i \in DOMAIN archives => gone.dump = archives[i].dump
      <4>1. i \in DOMAIN archives => archives[i] \in Archive
        BY <1>0
      <4> QED
        BY <4>1, Zenon DEF Archive
    <3> HIDE DEF gone
    <3> QED
      BY <3>1, <3>2, <3>3, <3>4, GoWithJob
  <2>3. CASE GoWith(o, NoJob) /\ UNCHANGED archives
    BY <1>1, <2>3, GoWithJob, NoJobType DEF BackupPlaces
  <2> QED
    BY <1>1, <1>8, <2>1, <2>2, <2>3 DEF Rotate, BackupPlaces
<1>9. CASE BeginBackup(o)
  <2> DEFINE x == [NoJob EXCEPT !.cmd = "backup", !.at = "dump"]
  <2>1. x.at = "dump" /\ x.cmd = "backup" /\ x.dump = NoJob.dump
    BY DEF NoJob
  <2>2. GoWith(o, x) /\ archives' = archives
    BY <1>9 DEF BeginBackup
  <2> HIDE DEF x
  <2> QED
    BY <1>1, <2>1, <2>2, GoWithJob DEF BackupPlaces
<1> QED
  BY <1>2, <1>3, <1>4, <1>5, <1>6, <1>7, <1>8, <1>9 DEF Backup

-----------------------------------------------------------------------------
(* The api serves on its own schema *)

\* While a container serves that was started when nobody was at it, nobody loads or
\* migrates the database, which is of its release.
ServeInv ==
  api.state = "up" /\ api.amid = {} => db.rev = api.of /\ Changing = {}

\* A step that leaves the api and the migration alone, and does not come to a load
\* or a migration.
LEMMA ServeStep ==
  ASSUME OpsTypeOK, ServeInv, NEW o \in Operators, OthersStay(o), api' = api,
         db'.rev = db.rev, job'[o].at \notin {"load", "migrate"}
  PROVE  ServeInv'
<1>1. Changing' \subseteq Changing
  BY DEF Changing, OthersStay
<1> QED
  BY <1>1 DEF ServeInv

LEMMA ServeStop ==
  ASSUME OpsTypeOK, NEW o \in Operators, NEW place, Stop(o, place)
  PROVE  ServeInv'
BY DEF OpsTypeOK, Api, Stop, ServeInv

\* A load or a migration: the container, if it is up, was started amid it.
LEMMA ServeChange ==
  ASSUME OpsTypeOK, ServeInv, NEW o \in Operators, job[o].at \in {"load", "migrate"},
         api' = api
  PROVE  ServeInv'
BY DEF ServeInv, Changing

LEMMA StartServes ==
  ASSUME OpsTypeOK, NEW r \in Revs, Start(r)
  PROVE  /\ api'.state = "up" => db'.rev = api'.of
         /\ api'.amid = Changing /\ api'.state \in {"up", "looping"}
         /\ db'.tenants = db.tenants
BY DEF OpsTypeOK, Start, Database

LEMMA ServeUpdate ==
  ASSUME OpsTypeOK, ServeInv, NEW o \in Operators, Update(o) \/ BeginUpdate(o)
  PROVE  ServeInv'
<1>0. job[o] \in Job
  BY DEF OpsTypeOK
<1>1. CASE Pull(o)
  BY <1>1, GoJob, ServeStep, NoJobType DEF Pull
<1>2. CASE Build(o)
  <2>1. PICK place \in {"stop", "up"} : Go(o, place)
    BY <1>2 DEF Build
  <2> QED
    BY <1>2, <2>1, GoJob, ServeStep, NoJobType DEF Build
<1>3. CASE StopApi(o)
  BY <1>3, ServeStop DEF StopApi
<1>4. CASE Migrate(o)
  BY <1>4, ServeChange DEF Migrate
<1>5. CASE Restarting(o)
  <2>1. PICK place \in {"served", "health", "idle"} : Up(o, place)
    BY <1>5 DEF Restarting
  <2>2. PICK after \in {"served", "health", "idle", "printed"} : Go(o, after)
    BY <2>1 DEF Up
  <2>3. OthersStay(o) /\ job'[o].at \notin {"load", "migrate"}
    BY <2>2, GoJob, NoJobType
  <2>4. CASE UNCHANGED <<db, api>>
    BY <2>3, <2>4, ServeStep
  <2>5. CASE Start(image)
    <3>1. Changing' \subseteq Changing
      BY <2>3 DEF Changing, OthersStay
    <3> QED
      BY <2>5, <3>1, StartServes DEF ServeInv, OpsTypeOK
  <2> QED
    BY <2>1, <2>4, <2>5 DEF Up
<1>6. CASE CheckHealth(o)
  <2>1. PICK place \in {"idle", "printed"} : Go(o, place)
    BY <1>6 DEF CheckHealth
  <2> QED
    BY <1>6, <2>1, GoJob, ServeStep, NoJobType DEF CheckHealth
<1>7. CASE BeginRollback(o)
  <2> DEFINE x == [job[o] EXCEPT !.cmd = "rollback", !.at = "build"]
  <2>1. x.at = "build"
    BY <1>0 DEF Job
  <2>2. GoWith(o, x)
    BY <1>7 DEF BeginRollback
  <2> HIDE DEF x
  <2> QED
    BY <1>7, <2>1, <2>2, GoWithJob, ServeStep DEF BeginRollback
<1>8. CASE BeginUpdate(o)
  <2>1. PICK first \in {"dump", "pull"} :
          GoWith(o, [NoJob EXCEPT !.cmd = "update", !.at = first, !.prev = code])
    BY <1>8 DEF BeginUpdate
  <2> DEFINE x == [NoJob EXCEPT !.cmd = "update", !.at = first, !.prev = code]
  <2>2. x.at = first
    BY DEF NoJob
  <2>3. GoWith(o, x)
    BY <2>1
  <2> HIDE DEF x
  <2> QED
    BY <1>8, <2>2, <2>3, GoWithJob, ServeStep DEF BeginUpdate
<1> QED
  BY <1>1, <1>2, <1>3, <1>4, <1>5, <1>6, <1>7, <1>8 DEF Update

LEMMA ServeRestore ==
  ASSUME OpsTypeOK, ServeInv, NEW o \in Operators, Restore(o)
  PROVE  ServeInv'
<1>1. CASE BeginRestore(o)
  <2>1. PICK i \in Present :
          GoWith(o, [NoJob EXCEPT !.cmd = "restore", !.at = "stop",
                                  !.dump = archives[i].dump])
    BY <1>1 DEF BeginRestore
  <2> DEFINE x == [NoJob EXCEPT !.cmd = "restore", !.at = "stop",
                                !.dump = archives[i].dump]
  <2>2. x.at = "stop"
    BY DEF NoJob
  <2>3. GoWith(o, x)
    BY <2>1
  <2> HIDE DEF x
  <2> QED
    BY <1>1, <2>2, <2>3, GoWithJob, ServeStep DEF BeginRestore
<1>2. CASE StopFirst(o)
  BY <1>2, ServeStop DEF StopFirst
<1>3. CASE Load(o)
  BY <1>3, ServeChange DEF Load
<1> QED
  BY <1>1, <1>2, <1>3 DEF Restore

LEMMA ServeNext == OpsTypeOK /\ ServeInv /\ [OpsNext]_opsVars => ServeInv'
<1> SUFFICES ASSUME OpsTypeOK, ServeInv, [OpsNext]_opsVars
             PROVE  ServeInv'
  OBVIOUS
<1>1. CASE RestartApi
  <2>1. Changing' = Changing
    BY <1>1 DEF RestartApi, Changing
  <2> QED
    BY <1>1, <2>1, StartServes DEF RestartApi, ServeInv, OpsTypeOK, Api
<1>2. ASSUME NEW o \in Operators, Backup(o) \/ BeginBackup(o) PROVE ServeInv'
  BY <1>2, BackupJob, ServeStep DEF BackupPlaces
<1>3. ASSUME NEW o \in Operators, FailCommand(o) \/ KillCommand(o) PROVE ServeInv'
  <2>1. Go(o, "printed") \/ GoWith(o, NoJob)
    BY <1>3 DEF FailCommand, KillCommand
  <2>2. api' = api /\ db' = db
    BY <1>3 DEF FailCommand, KillCommand
  <2> QED
    BY <2>1, <2>2, GoJob, GoWithJob, NoJobType, ServeStep
<1>4. ASSUME NEW s \in Setups, LockSetup(s) \/ CheckSetup(s) \/ CommitSetup(s) PROVE ServeInv'
  <2>1. db'.rev = db.rev /\ api' = api /\ job' = job
    BY <1>4 DEF LockSetup, CheckSetup, CommitSetup, OpsTypeOK, Database
  <2> QED
    BY <2>1 DEF ServeInv, Changing
<1>5. CASE UNCHANGED opsVars
  BY <1>5 DEF opsVars, ServeInv, Changing
<1> QED
  BY <1>1, <1>2, <1>3, <1>4, <1>5, ServeUpdate, ServeRestore DEF OpsNext

\* The api never serves on a database of another release than its own, whatever
\* commands run at once, scheduled updates among them, unless a command started it
\* between another's stop and that one's change of the database.
THEOREM ServesOwnSchema == OpsSpec => []ServesItsSchema
<1>1. OpsInit => ServeInv
  BY NoJobType DEF OpsInit, ServeInv, Changing
<1>2. ServeInv => ServesItsSchema
  BY DEF ServeInv, ServesItsSchema
<1> QED
  BY <1>1, <1>2, TypeInit, TypeNext, ServeNext, PTL DEF OpsSpec

-----------------------------------------------------------------------------
(* One first admin *)

Few(d) == \A s, t \in d.tenants : s = t

Working(s) == setup[s] \in {"locked", "hashing"}

\* One create-admin at a time; the one that is to make the admin has found none.
\* Not two were made, and what a dump has was made: a tenant is never undone.
AdminInv ==
  /\ \A s, t \in Setups : Working(s) /\ Working(t) => s = t
  /\ \A s \in Setups : setup[s] = "hashing" => db.tenants = {}
  /\ Few(db)
  /\ \A i \in DOMAIN archives : archives[i].dump.tenants \subseteq db.tenants
  /\ \A o \in Operators : job[o].dump.tenants \subseteq db.tenants

LEMMA NoJobMade == NoJob.dump.tenants = {}
BY DEF NoJob

\* A step that ends the create-admin commands or leaves them alone.
LEMMA AdminStep ==
  ASSUME OpsTypeOK, AdminInv, NEW o \in Operators, OthersStay(o), archives' = archives,
         db'.tenants = db.tenants, job'[o].dump.tenants \subseteq db.tenants,
         Kills \/ setup' = setup
  PROVE  AdminInv'
<1>1. Few(db')
  BY DEF AdminInv, Few
<1>2. \A u \in Operators : job'[u].dump.tenants \subseteq db'.tenants
  BY DEF AdminInv, OthersStay
<1>3. CASE Kills
  BY <1>1, <1>2, <1>3 DEF Kills, AdminInv, Working
<1>4. CASE setup' = setup
  BY <1>1, <1>2, <1>4 DEF AdminInv, Working
<1> QED
  BY <1>3, <1>4

LEMMA AdminUpdate ==
  ASSUME OpsTypeOK, AdminInv, NEW o \in Operators, Update(o) \/ BeginUpdate(o)
  PROVE  AdminInv'
<1>0. job[o] \in Job /\ job[o].dump.tenants \subseteq db.tenants
  BY DEF OpsTypeOK, AdminInv
<1>1. ASSUME NEW place, Go(o, place)
      PROVE  OthersStay(o) /\ job'[o].dump.tenants \subseteq db.tenants
  BY <1>0, <1>1, GoJob, NoJobMade
<1>2. CASE Pull(o)
  BY <1>1, <1>2, AdminStep DEF Pull
<1>3. CASE Build(o)
  BY <1>1, <1>3, AdminStep DEF Build
<1>4. CASE StopApi(o)
  BY <1>1, <1>4, AdminStep DEF StopApi, Stop
<1>5. CASE Migrate(o)
  <2>1. db'.tenants = db.tenants
    BY <1>5 DEF Migrate, OpsTypeOK, Database
  <2> QED
    BY <1>1, <1>5, <2>1, AdminStep DEF Migrate
<1>6. CASE Restarting(o)
  <2>1. PICK place : Up(o, place)
    BY <1>6 DEF Restarting
  <2>2. PICK after : Go(o, after)
    BY <2>1 DEF Up
  <2>3. /\ db'.tenants = db.tenants /\ archives' = archives
        /\ Kills \/ setup' = setup
    BY <2>1, StartServes DEF Up, OpsTypeOK
  <2>4. OthersStay(o) /\ job'[o].dump.tenants \subseteq db.tenants
    BY <1>1, <2>2
  <2> QED
    BY <2>3, <2>4, AdminStep
<1>7. CASE CheckHealth(o)
  BY <1>1, <1>7, AdminStep DEF CheckHealth
<1>8. CASE BeginRollback(o)
  <2> DEFINE x == [job[o] EXCEPT !.cmd = "rollback", !.at = "build"]
  <2>1. x.dump = job[o].dump
    BY <1>0 DEF Job
  <2>2. GoWith(o, x)
    BY <1>8 DEF BeginRollback
  <2> HIDE DEF x
  <2> QED
    BY <1>0, <1>8, <2>1, <2>2, GoWithJob, AdminStep DEF BeginRollback
<1>9. CASE BeginUpdate(o)
  <2>1. PICK first \in {"dump", "pull"} :
          GoWith(o, [NoJob EXCEPT !.cmd = "update", !.at = first, !.prev = code])
    BY <1>9 DEF BeginUpdate
  <2> DEFINE x == [NoJob EXCEPT !.cmd = "update", !.at = first, !.prev = code]
  <2>2. x.dump = NoJob.dump
    BY DEF NoJob
  <2>3. GoWith(o, x)
    BY <2>1
  <2> HIDE DEF x
  <2> QED
    BY <1>9, <2>2, <2>3, GoWithJob, NoJobMade, AdminStep DEF BeginUpdate
<1> QED
  BY <1>2, <1>3, <1>4, <1>5, <1>6, <1>7, <1>8, <1>9 DEF Update

\* A dump is loaded only when it has every tenant that was made, and it has no other.
LEMMA AdminRestore ==
  ASSUME OpsTypeOK, AdminInv, NEW o \in Operators, Restore(o)
  PROVE  AdminInv'
<1>0. job[o] \in Job /\ job[o].dump.tenants \subseteq db.tenants
  BY DEF OpsTypeOK, AdminInv
<1>1. CASE BeginRestore(o)
  <2>1. PICK i \in Present :
          GoWith(o, [NoJob EXCEPT !.cmd = "restore", !.at = "stop",
                                  !.dump = archives[i].dump])
    BY <1>1 DEF BeginRestore
  <2> DEFINE x == [NoJob EXCEPT !.cmd = "restore", !.at = "stop",
                                !.dump = archives[i].dump]
  <2>2. x.dump = archives[i].dump
    BY DEF NoJob
  <2>3. GoWith(o, x)
    BY <2>1
  <2>4. archives[i].dump.tenants \subseteq db.tenants
    BY DEF AdminInv, Present
  <2> HIDE DEF x
  <2> QED
    BY <1>1, <2>2, <2>3, <2>4, GoWithJob, AdminStep DEF BeginRestore
<1>2. CASE StopFirst(o)
  BY <1>0, <1>2, GoJob, NoJobMade, AdminStep DEF StopFirst, Stop
<1>3. CASE Load(o)
  <2>1. PICK place : Go(o, place)
    BY <1>3 DEF Load
  <2>2. OthersStay(o) /\ job'[o].dump.tenants \subseteq db.tenants
    BY <1>0, <2>1, GoJob, NoJobMade
  <2>3. archives' = archives /\ setup' = setup
    BY <1>3 DEF Load
  <2>4. db'.tenants = db.tenants
    BY <1>0, <1>3 DEF Load, Leftover
  <2> QED
    BY <2>2, <2>3, <2>4, AdminStep
<1> QED
  BY <1>1, <1>2, <1>3 DEF Restore

LEMMA AdminSetup ==
  ASSUME OpsTypeOK, AdminInv, NEW s \in Setups,
         LockSetup(s) \/ CheckSetup(s) \/ CommitSetup(s)
  PROVE  AdminInv'
<1>0. UNCHANGED <<archives, job>>
  BY DEF LockSetup, CheckSetup, CommitSetup
<1>1. CASE LockSetup(s)
  BY <1>0, <1>1 DEF LockSetup, Admitted, AdminInv, Working, OpsTypeOK
<1>2. CASE CheckSetup(s)
  BY <1>0, <1>2 DEF CheckSetup, AdminInv, Working, OpsTypeOK
<1>3. CASE CommitSetup(s)
  <2>1. db'.tenants = {s} /\ db.tenants = {}
    BY <1>3 DEF CommitSetup, AdminInv, OpsTypeOK, Database
  <2>2. Few(db')
    BY <2>1 DEF Few
  <2>3. \A t \in Setups : t # s => setup'[t] = setup[t] /\ ~Working(t)
    BY <1>3 DEF CommitSetup, AdminInv, Working, OpsTypeOK
  <2>4. setup'[s] = "done"
    BY <1>3 DEF CommitSetup, OpsTypeOK
  <2> QED
    BY <1>0, <2>1, <2>2, <2>3, <2>4 DEF AdminInv, Working
<1> QED
  BY <1>1, <1>2, <1>3

LEMMA AdminNext ==
  OpsTypeOK /\ AdminInv /\ [OpsNext]_opsVars => AdminInv'
<1> SUFFICES ASSUME OpsTypeOK, AdminInv, [OpsNext]_opsVars
             PROVE  AdminInv'
  OBVIOUS
<1>1. CASE RestartApi
  <2>1. Kills /\ db'.tenants = db.tenants /\ archives' = archives /\ job' = job
    BY <1>1, StartServes DEF RestartApi, OpsTypeOK, Api
  <2>2. Few(db')
    BY <2>1 DEF AdminInv, Few
  <2> QED
    BY <2>1, <2>2 DEF Kills, AdminInv, Working
<1>2. ASSUME NEW o \in Operators, Backup(o) \/ BeginBackup(o) PROVE AdminInv'
  <2>1. job'[o].dump.tenants \subseteq db.tenants
    BY <1>2, BackupJob, NoJobMade DEF AdminInv
  <2>2. \A i \in DOMAIN archives' : archives'[i].dump.tenants \subseteq db.tenants
    BY <1>2, BackupJob DEF AdminInv
  <2>3. UNCHANGED <<db, api, setup>> /\ OthersStay(o)
    BY <1>2, BackupJob
  <2> QED
    BY <2>1, <2>2, <2>3 DEF AdminInv, Working, OthersStay
<1>3. ASSUME NEW o \in Operators, FailCommand(o) \/ KillCommand(o) PROVE AdminInv'
  <2>1. Go(o, "printed") \/ GoWith(o, NoJob)
    BY <1>3 DEF FailCommand, KillCommand
  <2>2. OthersStay(o) /\ job'[o].dump.tenants \subseteq db.tenants
    BY <2>1, GoJob, GoWithJob, NoJobMade DEF AdminInv
  <2> QED
    BY <1>3, <2>2, AdminStep DEF FailCommand, KillCommand
<1>4. CASE UNCHANGED opsVars
  BY <1>4 DEF opsVars, AdminInv, Working
<1> QED
  BY <1>1, <1>2, <1>3, <1>4, AdminUpdate, AdminRestore, AdminSetup DEF OpsNext

\* However many create-admin commands race, and whatever is restored meanwhile, the
\* server has one first admin.
THEOREM FirstAdminIsOne == OpsSpec => []OneFirstAdmin
<1>1. OpsInit => AdminInv
  BY NoJobMade, OpsAssumption DEF OpsInit, AdminInv, Working, Few
<1>2. AdminInv => OneFirstAdmin
  <2> SUFFICES ASSUME Few(db) PROVE Cardinality(db.tenants) <= 1
    BY DEF AdminInv, OneFirstAdmin
  <2>1. CASE db.tenants = {}
    BY <2>1, FS_EmptySet
  <2>2. ASSUME NEW s \in db.tenants PROVE Cardinality(db.tenants) <= 1
    <3>1. db.tenants = {s}
      BY DEF Few
    <3> QED
      BY <3>1, FS_Singleton
  <2> QED
    BY <2>1, <2>2
<1> QED
  BY <1>1, <1>2, TypeInit, TypeNext, AdminNext, PTL DEF OpsSpec

-----------------------------------------------------------------------------
(* Backups stand *)

Later == {"list", "rotate", "pull", "build", "stop", "migrate", "up", "health"}
OldOnes == {i \in DOMAIN archives : archives[i].old}

\* What operator o relies on, whose command is at x: its partial is its own; the
\* archive that it has written stands and is not old; its list has every old
\* archive that is there, and counts them right unless one of it is gone.
Kept(o, x) ==
  /\ x.at = "write" => partials[x.name] = {o}
  /\ x.at = "load" => x.cmd = "restore"
  /\ x.cmd \in {"backup", "update"} /\ x.at \in Later /\ x.name # 0 =>
       \E i \in Present : /\ archives[i].name = x.name /\ archives[i].dump = x.dump
                          /\ archives[i].whole /\ ~archives[i].old
  /\ x.at = "rotate" =>
       /\ x.list \subseteq DOMAIN archives
       /\ OldOnes \cap Present \subseteq x.list
       /\ x.list \cap OldOnes \subseteq Present => x.spare <= Spare

\* The oldest go first.
OldestGone == \A i \in OldOnes \cap Present : \A j \in OldOnes \ Present : j < i

KeptInv == OldestGone /\ \A o \in Operators : Kept(o, job[o])

\* Archives are added that are not old, and only old ones go.
ArchivesGrow ==
  /\ \A i \in DOMAIN archives :
       /\ i \in DOMAIN archives'
       /\ archives'[i].name = archives[i].name /\ archives'[i].dump = archives[i].dump
       /\ archives'[i].whole = archives[i].whole /\ archives'[i].old = archives[i].old
       /\ archives'[i].there => archives[i].there
       /\ archives[i].there /\ ~archives[i].old => archives'[i].there
  /\ \A i \in DOMAIN archives' \ DOMAIN archives : archives'[i].there /\ ~archives'[i].old

LEMMA SetOfThose ==
  ASSUME NEW A \in Seq(Archive), NEW S, S \subseteq DOMAIN A
  PROVE  IsFiniteSet(S) /\ Cardinality(S) \in Nat /\ DOMAIN A \subseteq Nat
<1>1. Len(A) \in Nat /\ DOMAIN A = 1..Len(A)
  OBVIOUS
<1>2. IsFiniteSet(1..Len(A))
  BY <1>1, FS_Interval
<1> QED
  BY <1>1, <1>2, FS_Subset, FS_CardinalityType

LEMMA PresentIs ==
  ASSUME archives \in Seq(Archive)
  PROVE  /\ IsFiniteSet(Present) /\ Cardinality(Present) \in Nat /\ Spare \in Int
         /\ Spare = Cardinality(Present) - MinKeep /\ MinKeep \in Nat
         /\ DOMAIN archives \subseteq Nat
<1>1. IsFiniteSet(Present) /\ Cardinality(Present) \in Nat /\ DOMAIN archives \subseteq Nat
  BY SetOfThose DEF Present
<1> QED
  BY <1>1, OpsAssumption DEF Spare

LEMMA PresentThen ==
  ASSUME archives' \in Seq(Archive)
  PROVE  /\ IsFiniteSet(Present') /\ Cardinality(Present') \in Nat
         /\ Spare' = Cardinality(Present') - MinKeep
<1>1. PICK A \in Seq(Archive) : A = archives'
  OBVIOUS
<1>2. PICK S : S = Present'
  OBVIOUS
<1>3. S \subseteq DOMAIN A
  BY <1>1, <1>2 DEF Present
<1>4. Spare' = Cardinality(Present') - MinKeep
  BY DEF Spare
<1> QED
  BY <1>1, <1>2, <1>3, <1>4, SetOfThose

\* A step of the archives spares what an operator relies on.
LEMMA KeptStill ==
  ASSUME OpsTypeOK, OpsTypeOK', NEW q, NEW x, Kept(q, x), ArchivesGrow,
         x.at = "rotate" => x.spare \in Int,
         x.at = "write" => partials'[x.name] = partials[x.name]
  PROVE  Kept(q, x)'
<1>1. OldOnes' = OldOnes /\ DOMAIN archives \subseteq DOMAIN archives'
  BY DEF ArchivesGrow, OldOnes
<1>2. \A i \in OldOnes : i \in Present' => i \in Present
  BY DEF ArchivesGrow, OldOnes, Present
<1>3. \A i \in Present \ OldOnes : i \in Present'
  BY DEF ArchivesGrow, OldOnes, Present
<1>4. ASSUME x.cmd \in {"backup", "update"}, x.at \in Later, x.name # 0
      PROVE  \E i \in Present' :
               /\ archives'[i].name = x.name /\ archives'[i].dump = x.dump
               /\ archives'[i].whole /\ ~archives'[i].old
  <2>1. PICK i \in Present : /\ archives[i].name = x.name /\ archives[i].dump = x.dump
                             /\ archives[i].whole /\ ~archives[i].old
    BY <1>4 DEF Kept
  <2>2. i \in Present' /\ i \in DOMAIN archives
    BY <1>3, <2>1 DEF OldOnes, Present
  <2> QED
    BY <2>1, <2>2 DEF ArchivesGrow
<1>5. ASSUME x.at = "rotate"
      PROVE  /\ x.list \subseteq DOMAIN archives'
             /\ OldOnes' \cap Present' \subseteq x.list
             /\ x.list \cap OldOnes' \subseteq Present' => x.spare <= Spare'
  <2>1. /\ x.list \subseteq DOMAIN archives
        /\ OldOnes \cap Present \subseteq x.list
        /\ x.list \cap OldOnes \subseteq Present => x.spare <= Spare
    BY <1>5 DEF Kept
  <2>2. ASSUME x.list \cap OldOnes \subseteq Present'
        PROVE  x.spare <= Spare'
    <3>1. x.spare <= Spare
      BY <1>2, <2>1, <2>2
    <3>2. Present \subseteq Present'
      BY <1>3, <2>1, <2>2
    <3>3. IsFiniteSet(Present') /\ Cardinality(Present') \in Nat
          /\ Spare' = Cardinality(Present') - MinKeep
      BY PresentThen DEF OpsTypeOK
    <3>4. Cardinality(Present) <= Cardinality(Present')
      BY <3>2, <3>3, FS_Subset
    <3>5. Cardinality(Present) \in Nat /\ Spare = Cardinality(Present) - MinKeep /\ MinKeep \in Nat
      BY PresentIs DEF OpsTypeOK
    <3>6. x.spare \in Int
      BY <1>5
    <3> QED
      BY <3>1, <3>3, <3>4, <3>5, <3>6
  <2> QED
    BY <1>1, <1>2, <2>1, <2>2
<1>6. /\ x.at = "write" => partials'[x.name] = {q}
      /\ x.at = "load" => x.cmd = "restore"
  BY DEF Kept
<1> QED
  BY <1>4, <1>5, <1>6 DEF Kept

\* An operator's command goes to y, and the others' go on relying on what they do.
LEMMA KeptMoves ==
  ASSUME OpsTypeOK, OpsTypeOK', KeptInv, NEW o \in Operators, NEW y, GoWith(o, y),
         ArchivesGrow, OldestGone', Kept(o, y)',
         \A u \in Operators \ {o} :
           job[u].at = "write" => partials'[job[u].name] = partials[job[u].name]
  PROVE  KeptInv'
<1>1. job'[o] = y /\ \A u \in Operators \ {o} : job'[u] = job[u]
  BY GoWithJob DEF OthersStay
<1>2. ASSUME NEW u \in Operators PROVE Kept(u, job[u])'
  <2>1. PICK x : x = job'[u]
    OBVIOUS
  <2>2. Kept(u, x)'
    <3>1. CASE u = o
      BY <1>1, <2>1, <3>1
    <3>2. CASE u # o
      <4>1. x = job[u] /\ Kept(u, x)
        BY <1>1, <2>1, <3>2 DEF KeptInv
      <4>2. x.spare \in Int
        BY <4>1 DEF OpsTypeOK, Job
      <4> QED
        BY <3>2, <4>1, <4>2, KeptStill
    <3> QED
      BY <3>1, <3>2
  <2> QED
    BY <2>1, <2>2 DEF Kept, OldOnes, Present, Spare
<1> QED
  BY <1>2 DEF KeptInv

LEMMA KeptGoes ==
  ASSUME OpsTypeOK, OpsTypeOK', KeptInv, NEW o \in Operators, NEW y, GoWith(o, y), Kept(o, y),
         UNCHANGED <<archives, partials>>
  PROVE  KeptInv'
<1>1. ArchivesGrow
  BY DEF ArchivesGrow
<1>2. OldestGone'
  BY DEF KeptInv, OldestGone, OldOnes, Present
<1>3. Kept(o, y)'
  BY DEF Kept, OldOnes, Present, Spare
<1> QED
  BY <1>1, <1>2, <1>3, KeptMoves

LEMMA KeptNoJob == \A o : Kept(o, NoJob)
BY DEF Kept, NoJob, Later

\* A command goes on to another place, where it relies on no more.
LEMMA KeptGo ==
  ASSUME OpsTypeOK, OpsTypeOK', KeptInv, NEW o \in Operators, NEW place, Go(o, place),
         UNCHANGED <<archives, partials>>, place \notin {"write", "rotate"},
         place = "load" => job[o].cmd = "restore",
         place \in Later /\ job[o].cmd \in {"backup", "update"} => job[o].at \in Later
  PROVE  KeptInv'
<1>1. CASE place = "idle"
  BY <1>1, KeptNoJob, KeptGoes DEF Go
<1>2. CASE place # "idle"
  <2>1. PICK y : y = [job[o] EXCEPT !.at = place]
    OBVIOUS
  <2>2. y.at = place /\ y.cmd = job[o].cmd /\ y.dump = job[o].dump /\ y.name = job[o].name
    BY <2>1 DEF OpsTypeOK, Job
  <2>3. Kept(o, job[o])
    BY DEF KeptInv
  <2>4. Kept(o, y)
    BY <2>2, <2>3 DEF Kept
  <2> QED
    BY <1>2, <2>1, <2>4, KeptGoes DEF Go
<1> QED
  BY <1>1, <1>2

\* As many archives as are to be kept stay.
Enough == Cardinality(Present) >= MinKeep => Cardinality(Present') >= MinKeep

LEMMA EnoughGrows ==
  ASSUME OpsTypeOK, OpsTypeOK', Present \subseteq Present'
  PROVE  Enough
<1>1. Cardinality(Present) <= Cardinality(Present')
  BY PresentThen, FS_Subset DEF OpsTypeOK
<1> QED
  BY <1>1, PresentIs, PresentThen DEF OpsTypeOK, Enough

LEMMA EnoughStays ==
  ASSUME OpsTypeOK, OpsTypeOK', UNCHANGED archives
  PROVE  Enough
BY EnoughGrows DEF Present

LEMMA KeptDump ==
  ASSUME OpsTypeOK, OpsTypeOK', KeptInv, NEW o \in Operators, Dump(o)
  PROVE  KeptInv'
<1>1. PICK y : y = [job[o] EXCEPT !.at = "archive", !.dump = db]
  OBVIOUS
<1>2. y.at = "archive"
  BY <1>1 DEF OpsTypeOK, Job
<1> QED
  BY <1>1, <1>2, KeptGoes DEF Dump, Kept, Later

LEMMA KeptFindName ==
  ASSUME OpsTypeOK, OpsTypeOK', KeptInv, NEW o \in Operators, FindName(o)
  PROVE  KeptInv'
<1>1. PICK n : GoWith(o, [job[o] EXCEPT !.at = "partial", !.name = n])
  BY DEF FindName
<1>2. PICK y : y = [job[o] EXCEPT !.at = "partial", !.name = n]
  OBVIOUS
<1>3. y.at = "partial"
  BY <1>2 DEF OpsTypeOK, Job
<1> QED
  BY <1>1, <1>2, <1>3, KeptGoes DEF FindName, Kept, Later

LEMMA KeptCheckPartial ==
  ASSUME OpsTypeOK, OpsTypeOK', KeptInv, NEW o \in Operators, CheckPartial(o)
  PROVE  KeptInv'
<1>1. \/ Go(o, "open") \/ GoWith(o, NoJob)
      \/ \E k \in Names : GoWith(o, [job[o] EXCEPT !.name = k])
  BY DEF CheckPartial
<1>2. UNCHANGED <<archives, partials>> /\ job[o].at = "partial"
  BY DEF CheckPartial
<1>3. ASSUME NEW k \in Names, GoWith(o, [job[o] EXCEPT !.name = k])
      PROVE  KeptInv'
  <2>1. PICK y : y = [job[o] EXCEPT !.name = k]
    OBVIOUS
  <2>2. y.at = "partial"
    BY <1>2, <2>1 DEF OpsTypeOK, Job
  <2> QED
    BY <1>2, <1>3, <2>1, <2>2, KeptGoes DEF Kept, Later
<1>4. CASE Go(o, "open")
  BY <1>2, <1>4, KeptGo DEF Later
<1> QED
  BY <1>1, <1>2, <1>3, <1>4, KeptGoes, KeptNoJob

\* A partial that is opened is nobody's else.
LEMMA KeptOpenPartial ==
  ASSUME OpsTypeOK, OpsTypeOK', KeptInv, NEW o \in Operators, OpenPartial(o)
  PROVE  KeptInv'
<1>1. archives' = archives /\ job[o].at = "open" /\ job[o].name \in Names
  BY DEF OpenPartial, OpsTypeOK
<1>2. CASE Excluded(job[o].name)
  BY <1>2, KeptGo DEF OpenPartial, Later
<1>3. CASE ~Excluded(job[o].name)
  <2>1. partials[job[o].name] = {}
    BY <1>3 DEF Excluded
  <2>2. /\ partials' = [partials EXCEPT ![job[o].name] = @ \cup {o}]
        /\ Go(o, "write")
    BY <1>3 DEF OpenPartial
  <2>3. partials'[job[o].name] = {o}
    BY <1>1, <2>1, <2>2 DEF OpsTypeOK
  <2>4. PICK y : y = [job[o] EXCEPT !.at = "write"]
    OBVIOUS
  <2>5. y.at = "write" /\ y.name = job[o].name
    BY <2>4 DEF OpsTypeOK, Job
  <2>6. GoWith(o, y)
    BY <2>2, <2>4 DEF Go
  <2>7. Kept(o, y)'
    BY <2>3, <2>5 DEF Kept, Later
  <2>8. ArchivesGrow /\ OldestGone'
    BY <1>1 DEF ArchivesGrow, KeptInv, OldestGone, OldOnes, Present
  <2>9. \A u \in Operators \ {o} :
          job[u].at = "write" => partials'[job[u].name] = partials[job[u].name]
    <3> SUFFICES ASSUME NEW u \in Operators \ {o}, job[u].at = "write"
                 PROVE  partials'[job[u].name] = partials[job[u].name]
      OBVIOUS
    <3>1. partials[job[u].name] = {u} /\ job[u].name \in Names
      BY DEF KeptInv, Kept, OpsTypeOK
    <3>2. job[u].name # job[o].name
      BY <2>1, <3>1
    <3> QED
      BY <2>2, <3>1, <3>2 DEF OpsTypeOK
  <2> QED
    BY <2>6, <2>7, <2>8, <2>9, KeptMoves
<1> QED
  BY <1>2, <1>3

\* What is linked to its name has been written by one command.
LEMMA KeptWriteArchive ==
  ASSUME OpsTypeOK, OpsTypeOK', KeptInv, NEW o \in Operators, WriteArchive(o)
  PROVE  KeptInv' /\ Enough
<1> DEFINE n == job[o].name
<1>1. /\ job[o].at = "write" /\ n \in Names /\ partials[n] = {o}
      /\ partials' = [partials EXCEPT ![n] = {}]
  BY DEF WriteArchive, OpsTypeOK, KeptInv, Kept
<1>2. \A u \in Operators \ {o} :
        job[u].at = "write" => partials'[job[u].name] = partials[job[u].name]
  <2> SUFFICES ASSUME NEW u \in Operators \ {o}, job[u].at = "write"
               PROVE  partials'[job[u].name] = partials[job[u].name]
    OBVIOUS
  <2>1. partials[job[u].name] = {u} /\ job[u].name \in Names
    BY DEF KeptInv, Kept, OpsTypeOK
  <2>2. job[u].name # n
    BY <1>1, <2>1
  <2> QED
    BY <1>1, <2>1, <2>2 DEF OpsTypeOK
<1>3. PICK place \in {"archive", "list"} : Go(o, place)
  BY DEF WriteArchive
<1>4. PICK y : y = [job[o] EXCEPT !.at = place]
  OBVIOUS
<1>5. y.at = place /\ y.cmd = job[o].cmd /\ y.dump = job[o].dump /\ y.name = n
  BY <1>4 DEF OpsTypeOK, Job
<1>6. GoWith(o, y)
  BY <1>3, <1>4 DEF Go
<1>7. CASE n \in Used
  <2>1. archives' = archives /\ Go(o, "archive")
    BY <1>7 DEF WriteArchive
  <2>2. PICK z : z = [job[o] EXCEPT !.at = "archive"]
    OBVIOUS
  <2>3. z.at = "archive"
    BY <2>2 DEF OpsTypeOK, Job
  <2>4. Kept(o, z)' /\ GoWith(o, z)
    BY <2>1, <2>2, <2>3 DEF Kept, Later, Go
  <2>5. ArchivesGrow /\ OldestGone'
    BY <2>1 DEF ArchivesGrow, KeptInv, OldestGone, OldOnes, Present
  <2> QED
    BY <1>2, <2>1, <2>4, <2>5, KeptMoves, EnoughStays
<1>8. CASE n \notin Used
  <2>1. PICK new : new = [name |-> n, dump |-> job[o].dump, whole |-> partials[n] = {o},
                          old |-> FALSE, there |-> TRUE]
    OBVIOUS
  <2>2. new.name = n /\ new.dump = job[o].dump /\ new.whole /\ ~new.old /\ new.there
    BY <1>1, <2>1
  <2>3. archives' = Append(archives, new) /\ Go(o, "list")
    BY <1>8, <2>1 DEF WriteArchive
  <2>4. archives \in Seq(Archive)
    BY DEF OpsTypeOK
  <2>5. PICK l : l = Len(archives) + 1
    OBVIOUS
  <2>6. /\ l \in DOMAIN archives' \ DOMAIN archives /\ archives'[l] = new
        /\ DOMAIN archives' = DOMAIN archives \cup {l}
        /\ \A i \in DOMAIN archives : archives'[i] = archives[i]
    BY <2>3, <2>4, <2>5
  <2>7. ArchivesGrow
    BY <2>2, <2>6 DEF ArchivesGrow
  <2>8. OldOnes' = OldOnes /\ Present' = Present \cup {l} /\ l \notin OldOnes
    BY <2>2, <2>6 DEF OldOnes, Present
  <2>9. OldestGone'
    BY <2>8 DEF KeptInv, OldestGone
  <2>10. PICK z : z = [job[o] EXCEPT !.at = "list"]
    OBVIOUS
  <2>11. z.at = "list" /\ z.dump = job[o].dump /\ z.name = n /\ GoWith(o, z)
    BY <2>3, <2>10 DEF OpsTypeOK, Job, Go
  <2>12. Kept(o, z)'
    BY <2>2, <2>6, <2>8, <2>11 DEF Kept
  <2> QED
    BY <1>2, <2>7, <2>8, <2>9, <2>11, <2>12, KeptMoves, EnoughGrows
<1> QED
  BY <1>7, <1>8

LEMMA KeptListArchives ==
  ASSUME OpsTypeOK, OpsTypeOK', KeptInv, NEW o \in Operators, ListArchives(o)
  PROVE  KeptInv'
<1>1. PICK y : y = [job[o] EXCEPT !.list = Present, !.spare = Spare, !.at = "rotate"]
  OBVIOUS
<1>2. /\ y.at = "rotate" /\ y.cmd = job[o].cmd /\ y.dump = job[o].dump
      /\ y.name = job[o].name /\ y.list = Present /\ y.spare = Spare
  BY <1>1 DEF OpsTypeOK, Job
<1>3. job[o].at = "list" /\ Kept(o, job[o])
  BY DEF KeptInv, ListArchives
<1>4. Present \subseteq DOMAIN archives /\ Spare \in Int
  BY PresentIs DEF Present, OpsTypeOK
<1>5. Kept(o, y)
  BY <1>2, <1>3, <1>4 DEF Kept, Later
<1> QED
  BY <1>1, <1>5, KeptGoes DEF ListArchives

LEMMA KeptAfterBackup ==
  ASSUME OpsTypeOK, OpsTypeOK', KeptInv, NEW o \in Operators, AfterBackup(o),
         job[o].at = "rotate", UNCHANGED <<archives, partials>>
  PROVE  KeptInv'
<1>1. PICK y : y = [job[o] EXCEPT !.at = "pull", !.list = {}, !.spare = 0]
  OBVIOUS
<1>2. /\ y.at = "pull" /\ y.cmd = job[o].cmd /\ y.dump = job[o].dump
      /\ y.name = job[o].name
  BY <1>1 DEF OpsTypeOK, Job
<1>3. Kept(o, job[o])
  BY DEF KeptInv
<1>4. Kept(o, y)
  BY <1>2, <1>3 DEF Kept, Later
<1>5. GoWith(o, y) \/ GoWith(o, NoJob)
  BY <1>1 DEF AfterBackup
<1> QED
  BY <1>4, <1>5, KeptNoJob, KeptGoes

\* The oldest that is listed goes: what was listed and is old is all there, so that
\* the command's count is not more than there are to spare.
LEMMA KeptDelete ==
  ASSUME OpsTypeOK, OpsTypeOK', KeptInv, NEW o \in Operators, UNCHANGED partials,
         job[o].at = "rotate", job[o].spare > 0,
         NEW i \in job[o].list, archives[i].old, archives[i].there,
         \A k \in job[o].list : archives[k].old => i <= k,
         archives' = [archives EXCEPT ![i].there = FALSE],
         GoWith(o, [job[o] EXCEPT !.list = @ \ {i}, !.spare = @ - 1])
  PROVE  KeptInv' /\ Enough
<1> DEFINE list == job[o].list  spare == job[o].spare
<1>1. PICK y : y = [job[o] EXCEPT !.list = @ \ {i}, !.spare = @ - 1]
  OBVIOUS
<1>2. /\ y.at = "rotate" /\ y.cmd = job[o].cmd /\ y.dump = job[o].dump
      /\ y.name = job[o].name /\ y.list = list \ {i} /\ y.spare = spare - 1
      /\ spare \in Int
  BY <1>1 DEF OpsTypeOK, Job
<1>3. /\ list \subseteq DOMAIN archives
      /\ OldOnes \cap Present \subseteq list
      /\ list \cap OldOnes \subseteq Present => spare <= Spare
  BY DEF KeptInv, Kept
<1>4. /\ DOMAIN archives' = DOMAIN archives /\ ~archives'[i].there
      /\ archives'[i].name = archives[i].name /\ archives'[i].dump = archives[i].dump
      /\ archives'[i].whole = archives[i].whole /\ archives'[i].old = archives[i].old
      /\ \A j \in DOMAIN archives \ {i} : archives'[j] = archives[j]
  <2>1. archives \in Seq(Archive) /\ archives[i] \in Archive /\ i \in DOMAIN archives
    BY <1>3 DEF OpsTypeOK
  <2>2. PICK gone : gone = [archives[i] EXCEPT !.there = FALSE]
    OBVIOUS
  <2>3. /\ gone.name = archives[i].name /\ gone.dump = archives[i].dump
        /\ gone.whole = archives[i].whole /\ gone.old = archives[i].old /\ ~gone.there
    BY <2>1, <2>2, Zenon DEF Archive
  <2>4. archives' = [j \in DOMAIN archives |-> IF j = i THEN gone ELSE archives[j]]
    BY <2>2, Zenon
  <2> QED
    BY <2>1, <2>3, <2>4
<1>5. i \in Present /\ i \in OldOnes /\ Present' = Present \ {i} /\ OldOnes' = OldOnes
  BY <1>3, <1>4 DEF Present, OldOnes
<1>6. DOMAIN archives \subseteq Nat /\ OldOnes \subseteq DOMAIN archives
  BY PresentIs DEF OpsTypeOK, OldOnes
<1>7. \A j \in list \cap OldOnes : i <= j
  BY DEF OldOnes
<1>8. OldestGone'
  <2> SUFFICES ASSUME NEW k \in OldOnes \cap (Present \ {i}), NEW j \in OldOnes \ (Present \ {i})
               PROVE  j < k
    BY <1>5 DEF OldestGone
  <2>1. i <= k /\ i # k
    BY <1>3, <1>7
  <2>2. j = i \/ j < k
    BY DEF KeptInv, OldestGone
  <2> QED
    BY <1>5, <1>6, <2>1, <2>2
<1>9. ArchivesGrow
  BY <1>4, <1>5 DEF ArchivesGrow, OldOnes
<1>10. list \cap OldOnes \subseteq Present
  <2> SUFFICES ASSUME NEW j \in list \cap OldOnes, j \notin Present
               PROVE  FALSE
    OBVIOUS
  <2>1. j < i /\ i <= j
    BY <1>5, <1>7 DEF KeptInv, OldestGone
  <2> QED
    BY <1>5, <1>6, <2>1
<1>11. spare <= Spare
  BY <1>3, <1>10
<1>12. Cardinality(Present') = Cardinality(Present) - 1
  BY <1>5, PresentIs, FS_RemoveElement DEF OpsTypeOK
<1>13. Spare' = Spare - 1 /\ Spare \in Int
  BY <1>12, PresentIs, PresentThen DEF OpsTypeOK
<1>14. Enough
  BY <1>2, <1>11, <1>12, PresentIs DEF OpsTypeOK, Enough
<1>15. Kept(o, y)'
  <2>1. /\ y.list \subseteq DOMAIN archives'
        /\ OldOnes' \cap Present' \subseteq y.list
        /\ y.spare <= Spare'
    BY <1>2, <1>3, <1>4, <1>5, <1>11, <1>13
  <2>2. Kept(o, job[o])
    BY DEF KeptInv
  <2>3. ASSUME y.cmd \in {"backup", "update"}, y.name # 0
        PROVE  \E j \in Present' :
                 /\ archives'[j].name = y.name /\ archives'[j].dump = y.dump
                 /\ archives'[j].whole /\ ~archives'[j].old
    <3>1. PICK j \in Present : /\ archives[j].name = y.name /\ archives[j].dump = y.dump
                               /\ archives[j].whole /\ ~archives[j].old
      BY <1>2, <2>2, <2>3 DEF Kept, Later
    <3>2. j # i /\ j \in DOMAIN archives
      BY <3>1 DEF Present
    <3> QED
      BY <1>4, <1>5, <3>1, <3>2
  <2> QED
    BY <1>2, <2>1, <2>3 DEF Kept
<1> QED
  BY <1>1, <1>8, <1>9, <1>14, <1>15, KeptMoves

LEMMA KeptRotate ==
  ASSUME OpsTypeOK, OpsTypeOK', KeptInv, NEW o \in Operators, Rotate(o)
  PROVE  KeptInv' /\ Enough
<1>1. job[o].at = "rotate" /\ UNCHANGED partials
  BY DEF Rotate
<1>2. CASE AfterBackup(o) /\ UNCHANGED archives
  BY <1>1, <1>2, KeptAfterBackup, EnoughStays
<1>3. CASE GoWith(o, NoJob) /\ UNCHANGED archives
  BY <1>1, <1>3, KeptGoes, KeptNoJob, EnoughStays
<1>4. ASSUME NEW i \in job[o].list, archives[i].old, archives[i].there, job[o].spare > 0,
             \A k \in job[o].list : archives[k].old => i <= k,
             archives' = [archives EXCEPT ![i].there = FALSE],
             GoWith(o, [job[o] EXCEPT !.list = @ \ {i}, !.spare = @ - 1])
      PROVE  KeptInv' /\ Enough
  BY <1>1, <1>4, KeptDelete
<1> QED
  BY <1>2, <1>3, <1>4 DEF Rotate

LEMMA KeptBegins ==
  ASSUME OpsTypeOK, OpsTypeOK', KeptInv, NEW o \in Operators,
         BeginBackup(o) \/ BeginUpdate(o) \/ BeginRestore(o)
  PROVE  KeptInv'
<1>1. UNCHANGED <<archives, partials>>
  BY DEF BeginBackup, BeginUpdate, BeginRestore
<1>2. CASE BeginBackup(o)
  <2>1. PICK y : y = [NoJob EXCEPT !.cmd = "backup", !.at = "dump"]
    OBVIOUS
  <2>2. y.at = "dump"
    BY <2>1 DEF NoJob
  <2>3. Kept(o, y)
    BY <2>2 DEF Kept, Later
  <2> QED
    BY <1>1, <1>2, <2>1, <2>3, KeptGoes DEF BeginBackup
<1>3. CASE BeginUpdate(o)
  <2>1. PICK first \in {"dump", "pull"} :
          GoWith(o, [NoJob EXCEPT !.cmd = "update", !.at = first, !.prev = code])
    BY <1>3 DEF BeginUpdate
  <2>2. PICK y : y = [NoJob EXCEPT !.cmd = "update", !.at = first, !.prev = code]
    OBVIOUS
  <2>3. y.at = first /\ y.name = 0
    BY <2>2 DEF NoJob
  <2>4. Kept(o, y)
    BY <2>3 DEF Kept, Later
  <2> QED
    BY <1>1, <2>1, <2>2, <2>4, KeptGoes
<1>4. CASE BeginRestore(o)
  <2>1. PICK i \in Present :
          GoWith(o, [NoJob EXCEPT !.cmd = "restore", !.at = "stop",
                                  !.dump = archives[i].dump])
    BY <1>4 DEF BeginRestore
  <2>2. PICK y : y = [NoJob EXCEPT !.cmd = "restore", !.at = "stop",
                                   !.dump = archives[i].dump]
    OBVIOUS
  <2>3. y.at = "stop" /\ y.cmd = "restore"
    BY <2>2 DEF NoJob
  <2>4. Kept(o, y)
    BY <2>3 DEF Kept, Later
  <2> QED
    BY <1>1, <2>1, <2>2, <2>4, KeptGoes
<1> QED
  BY <1>2, <1>3, <1>4

LEMMA KeptUpdate ==
  ASSUME OpsTypeOK, OpsTypeOK', KeptInv, NEW o \in Operators, Update(o)
  PROVE  KeptInv'
<1>1. UNCHANGED <<archives, partials>>
  BY DEF Update, Pull, Build, StopApi, Stop, Migrate, Restarting, Up, CheckHealth,
         BeginRollback
<1>2. CASE Pull(o)
  BY <1>1, <1>2, KeptGo DEF Pull, Later
<1>3. CASE Build(o)
  <2>1. PICK place \in {"stop", "up"} : Go(o, place)
    BY <1>3 DEF Build
  <2> QED
    BY <1>1, <1>3, <2>1, KeptGo DEF Build, Later
<1>4. CASE StopApi(o)
  BY <1>1, <1>4, KeptGo DEF StopApi, Stop, Later
<1>5. CASE Migrate(o)
  <2>1. PICK place \in {"up", "printed"} : Go(o, place)
    BY <1>5 DEF Migrate
  <2> QED
    BY <1>1, <1>5, <2>1, KeptGo DEF Migrate, Later
<1>6. CASE Restarting(o)
  <2>1. PICK place \in {"served", "health", "idle"} : Up(o, place)
    BY <1>6 DEF Restarting
  <2>2. PICK after \in {"served", "health", "idle", "printed"} : Go(o, after)
    BY <2>1 DEF Up
  <2> QED
    BY <1>1, <1>6, <2>2, KeptGo DEF Restarting, Later
<1>7. CASE CheckHealth(o)
  <2>1. PICK place \in {"idle", "printed"} : Go(o, place)
    BY <1>7 DEF CheckHealth
  <2> QED
    BY <1>1, <2>1, KeptGo DEF Later
<1>8. CASE BeginRollback(o)
  <2>1. PICK y : y = [job[o] EXCEPT !.cmd = "rollback", !.at = "build"]
    OBVIOUS
  <2>2. y.cmd = "rollback" /\ y.at = "build"
    BY <2>1 DEF OpsTypeOK, Job
  <2>3. Kept(o, y)
    BY <2>2 DEF Kept, Later
  <2> QED
    BY <1>1, <1>8, <2>1, <2>3, KeptGoes DEF BeginRollback
<1> QED
  BY <1>2, <1>3, <1>4, <1>5, <1>6, <1>7, <1>8 DEF Update

LEMMA KeptRestore ==
  ASSUME OpsTypeOK, OpsTypeOK', KeptInv, NEW o \in Operators, StopFirst(o) \/ Load(o)
  PROVE  KeptInv'
<1>1. UNCHANGED <<archives, partials>>
  BY DEF StopFirst, Stop, Load
<1>2. CASE StopFirst(o)
  BY <1>1, <1>2, KeptGo DEF StopFirst, Stop, Later
<1>3. CASE Load(o)
  <2>1. PICK place \in {"up", "printed"} : Go(o, place)
    BY <1>3 DEF Load
  <2>2. job[o].cmd = "restore"
    BY <1>3 DEF Load, KeptInv, Kept
  <2> QED
    BY <1>1, <2>1, <2>2, KeptGo DEF Later
<1> QED
  BY <1>2, <1>3

\* A command that fails takes away the partial that is its own, no other's.
LEMMA KeptMishap ==
  ASSUME OpsTypeOK, OpsTypeOK', KeptInv, NEW o \in Operators,
         FailCommand(o) \/ KillCommand(o)
  PROVE  KeptInv'
<1>1. archives' = archives
  BY DEF FailCommand, KillCommand
<1>2. CASE KillCommand(o)
  BY <1>2, KeptGoes, KeptNoJob DEF KillCommand
<1>3. CASE FailCommand(o)
  <2>1. partials' = [n \in Names |-> IF job[o].at = "write" /\ n = job[o].name
                                     THEN {} ELSE partials[n]]
    BY <1>3 DEF FailCommand
  <2>2. ASSUME NEW u \in Operators \ {o}, job[u].at = "write"
        PROVE  partials'[job[u].name] = partials[job[u].name]
    <3>1. partials[job[u].name] = {u} /\ job[u].name \in Names
      BY <2>2 DEF KeptInv, Kept, OpsTypeOK
    <3>2. job[o].at = "write" => partials[job[o].name] = {o}
      BY DEF KeptInv, Kept
    <3> QED
      BY <2>1, <2>2, <3>1, <3>2
  <2>3. PICK y : GoWith(o, y) /\ (y = NoJob \/ y = [job[o] EXCEPT !.at = "printed"])
    BY <1>3 DEF FailCommand, Go
  <2>4. y.at \in {"idle", "printed"}
    BY <2>3, NoJobType DEF OpsTypeOK, Job
  <2>5. Kept(o, y)'
    BY <2>4 DEF Kept, Later
  <2>6. ArchivesGrow /\ OldestGone'
    BY <1>1 DEF ArchivesGrow, KeptInv, OldestGone, OldOnes, Present
  <2> QED
    BY <2>2, <2>3, <2>5, <2>6, KeptMoves
<1> QED
  BY <1>2, <1>3

LEMMA KeptSame ==
  ASSUME KeptInv, UNCHANGED <<archives, partials, job>>
  PROVE  KeptInv'
BY DEF KeptInv, Kept, OldestGone, OldOnes, Present, Spare

LEMMA KeptNext ==
  OpsTypeOK /\ OpsTypeOK' /\ KeptInv /\ [OpsNext]_opsVars => KeptInv' /\ Enough
<1> SUFFICES ASSUME OpsTypeOK, OpsTypeOK', KeptInv, [OpsNext]_opsVars
             PROVE  KeptInv' /\ Enough
  OBVIOUS
<1>1. CASE UNCHANGED opsVars
  BY <1>1, KeptSame, EnoughStays DEF opsVars
<1>2. CASE RestartApi
  BY <1>2, KeptSame, EnoughStays DEF RestartApi
<1>3. ASSUME NEW o \in Operators,
             \/ BeginBackup(o) \/ Backup(o) \/ BeginUpdate(o) \/ Update(o)
             \/ Restore(o) \/ FailCommand(o) \/ KillCommand(o)
      PROVE  KeptInv' /\ Enough
  <2>1. CASE WriteArchive(o) \/ Rotate(o)
    BY <2>1, KeptWriteArchive, KeptRotate
  <2>2. CASE ~(WriteArchive(o) \/ Rotate(o))
    <3>1. archives' = archives
      BY <1>3, <2>2
         DEF BeginBackup, Backup, Dump, FindName, CheckPartial, OpenPartial, ListArchives,
             BeginUpdate, Update, Pull, Build, StopApi, Stop, Migrate, Restarting, Up,
             CheckHealth, BeginRollback, Restore, BeginRestore, StopFirst, Load,
             FailCommand, KillCommand
    <3>2. CASE Dump(o)
      BY <3>1, <3>2, EnoughStays, KeptDump
    <3>3. CASE FindName(o)
      BY <3>1, <3>3, EnoughStays, KeptFindName
    <3>4. CASE CheckPartial(o)
      BY <3>1, <3>4, EnoughStays, KeptCheckPartial
    <3>5. CASE OpenPartial(o)
      BY <3>1, <3>5, EnoughStays, KeptOpenPartial
    <3>6. CASE ListArchives(o)
      BY <3>1, <3>6, EnoughStays, KeptListArchives
    <3>7. CASE BeginBackup(o) \/ BeginUpdate(o) \/ BeginRestore(o)
      BY <3>1, <3>7, EnoughStays, KeptBegins
    <3>8. CASE Update(o)
      BY <3>1, <3>8, EnoughStays, KeptUpdate
    <3>9. CASE StopFirst(o) \/ Load(o)
      BY <3>1, <3>9, EnoughStays, KeptRestore
    <3>10. CASE FailCommand(o) \/ KillCommand(o)
      BY <3>1, <3>10, EnoughStays, KeptMishap
    <3> QED
      BY <1>3, <2>2, <3>2, <3>3, <3>4, <3>5, <3>6, <3>7, <3>8, <3>9, <3>10
         DEF Backup, Restore
  <2> QED
    BY <2>1, <2>2
<1>4. ASSUME NEW s \in Setups, LockSetup(s) \/ CheckSetup(s) \/ CommitSetup(s)
      PROVE  KeptInv' /\ Enough
  BY <1>4, KeptSame, EnoughStays DEF LockSetup, CheckSetup, CommitSetup
<1> QED
  BY <1>1, <1>2, <1>3, <1>4 DEF OpsNext

LEMMA KeptInit == OpsInit => KeptInv
<1> SUFFICES ASSUME OpsInit PROVE KeptInv
  OBVIOUS
<1>1. \A o \in Operators : job[o] = NoJob
  BY DEF OpsInit
<1>2. \A o \in Operators : Kept(o, job[o])
  BY <1>1, KeptNoJob
<1>3. OldOnes \ Present = {}
  BY DEF OpsInit, OldOnes, Present
<1> QED
  BY <1>2, <1>3 DEF KeptInv, OldestGone

\* What BackupsKept says of a step.
KeepsBackups ==
  /\ BackupStands'
  /\ Cardinality(Present) >= MinKeep => Cardinality(Present') >= MinKeep

LEMMA KeepsNext ==
  OpsTypeOK /\ OpsTypeOK' /\ KeptInv /\ [OpsNext]_opsVars => KeepsBackups
<1> SUFFICES ASSUME OpsTypeOK, OpsTypeOK', KeptInv, [OpsNext]_opsVars
             PROVE  KeepsBackups
  OBVIOUS
<1>1. KeptInv' /\ Enough
  BY KeptNext
<1>2. BackupStands'
  BY <1>1 DEF KeptInv, Kept, BackupStands, Later
<1> QED
  BY <1>1, <1>2 DEF KeepsBackups, Enough

\* A backup that its command relies on stands, and commands that rotate at the same
\* time, each by a list of its own (_rotate_archives), do not together leave fewer
\* archives than --min-keep: the names are found free and opened exclusively, only
\* archives past the retention time go, and the oldest of them first.
THEOREM BackupsStay == OpsSpec => BackupsKept
<1>1. [](OpsTypeOK) /\ [][OpsNext]_opsVars /\ OpsInit => []KeptInv
  BY KeptInit, KeptNext, PTL
<1>2. OpsTypeOK /\ OpsTypeOK' /\ KeptInv /\ [OpsNext]_opsVars => [KeepsBackups]_opsVars
  BY KeepsNext
<1>3. OpsSpec => [][KeepsBackups]_opsVars
  BY <1>1, <1>2, OpsType, PTL DEF OpsSpec
<1> QED
  BY <1>3 DEF BackupsKept, KeepsBackups
================================================================================
