# Contextify Cloud in TLA+

This directory holds TLA+ specifications of the server in this repository, the TLC configurations that check them, and
machine-checked proofs. Paths below are relative to the repository root; `sync.py` is
`contextify_cloud/routers/sync.py`.

## 1. The system

Contextify Cloud is a FastAPI service over PostgreSQL. A *tenant* is an account with its own PostgreSQL schema
(projects, transcripts, transcript entries); a public schema keeps tenants, users, devices, API keys, sync sessions,
idempotency records and everything that signing in needs. Machines push batches of transcript entries and pull what
other machines pushed, under an API key; people use a browser under a JWT cookie. One request is one READ COMMITTED
transaction, opened and committed by `get_db` (`database.py`). FastAPI ends that dependency **after** the reply has
been sent, so the reply is computed, and leaves, before the COMMIT. Several processes may serve one database; nothing
is kept in memory but caches, rate limit windows and per-tenant asyncio locks.

| Component | Code | State | Operations | Hard behaviour | What makes it correct |
|---|---|---|---|---|---|
| Sync push: entries | `sync.py` 757-1512, 1573-1594 | `transcript_entries`, its sequence `entry_server_seq` | classify, bulk INSERT, per-row fallback, reply, retention | concurrent pushes of one id, failing statements, savepoints, table and row locks | a reply is true; an entry is accepted once; retention spares the push's rows; every push ends |
| Sync pull | `sync.py` 1892-2119 | the client's cursor | page above a cursor under `LOCK TABLE ... SHARE NOWAIT` | values drawn before they commit, lost replies | the cursor never passes an entry that is still to come |
| Push idempotency, sync sessions | `sync.py` 359-450, 683-753, 1596-1769, `sync_status.py` | `sync_idempotency`, `sync_sessions` | guard, session lookup, update, abandon, complete, cleanup | retries, lost replies, unlocked reads, purges of rows in use | a batch is processed and counted once; a completed session has all its batches; one session of a device is in progress |
| Devices and activation events | `sync.py` 600-681, 1771-1889 | `devices`, `tenants.first_activation`, `second_device` claims | upsert, limit, claims, check-in | check-then-act, savepoints, events before commit | the device limit holds; the second device is not missed |
| Projects, transcripts, allow-list | `sync.py` 757-1119, `sync_partial_accept.py` | tenant tables | find or create, repo identity, partial accept | concurrent creation | an entry stays with its file; nothing enters a project that is not on the list |
| Tenant schema | `services/tenant.py` | DDL of a schema, a per-process cache | provision, ensure compatible | asyncio lock against database locks, rollback after success | the cache never claims what did not commit |
| Tenant deletion | `services/purge.py`, `services/tenant_guard.py` | `tenants.status`, tombstones | purge pass, guard | advisory locks, stale ORM rows, crash between steps | nothing is written to a tenant being purged; a purge finishes |
| Account | `routers/account.py` | users, keys, tenants | profile, export, delete | two owners leave at once | a tenant keeps an owner or is deleted |
| API keys | `routers/auth.py`, `middleware/auth.py` | `api_keys`, login nonces | register, login, list, revoke, rotate | awaits between read and use | a revoked key does nothing |
| Device authorization | `routers/device_auth.py`, `services/device_email_flow.py` | `device_auth_codes`, one-time codes | start, poll, mail code, verify, approve, finalize | polling against approving, lockouts, lost replies | one key per approved code; its owner stays; bounded guesses and mails |
| Browser accounts, tokens, outbox | `services/browser_auth.py`, `email.py` | users, `auth_tokens`, `auth_email_outbox`, throttles | sign up, log in, reset, change address, send mail | workers and crashes, token races | one use per token; a new password ends the old sessions; a queued link is mailed or given up |
| Browser handoff | `services/browser_handoff.py` | handoff tokens | create, redeem | redeemed twice, key revoked | one session per link, none without its key |
| Browser sessions | `middleware/jwt_auth.py` | session version | issue, check, revoke | stale sessions | a revoked session is refused |
| Rate limits | `middleware/*rate_limit.py` | windows in memory | hit, prune | windows at their limit | never more than the limit in a window |
| Projects | `routers/projects.py`, `services/projects.py` | projects, shares | list, rename, share, delete | rows of several client versions | one repository is one card |
| Self-hosted operations | `cli/self_hosted_ops.py` | files, containers, database | backup, restore, update, rollback, create-admin | failure between two steps, a timer's backup, two commands at once | the api serves its own schema; written backups stand; one first admin |
| Search, activity, dashboard; settings; monitoring; schemas; start-up | the rest | none of its own, or single rows | queries, single-row updates | - | - |

Interactions: push and pull meet in the tenant's table (rows, sequence, table lock). A push meets other pushes there, in
its key's row (`middleware/auth.py` 194-199, held until commit), in the guard row, the session rows and the devices'
rows. Purge, account deletion and key revocation meet pushes in the tenant's row (`FOR UPDATE` against `FOR SHARE`) and
the keys' rows. Events are queued in a transaction and sent from a hook on its commit.

## 2. Modules

    OrderedFeed          what a reader of the log may rely on (abstract)
      OrderedFeedProofs  its consequence for readers
    EntryLog             sync_push and sync_pull on one tenant's entries; implements OrderedFeed
      EntryLogProofs     MCEntryLog
    PushSession          idempotency guard and sync session of a push
      PushSessionProofs  MCPushSession
    Tenancy              a tenant, its users and keys: authentication, guard, account deletion, purge
      TenancyProofs      MCTenancy
    SignIn               signing in by mail: device codes, links, one-time passwords, polling
      SignInProofs       MCSignIn
    Credentials          one account's password, sessions, links and handoffs
      CredentialsProofs  MCCredentials
    SelfHosted           an operator's commands, and create-admin
      SelfHostedProofs   MCSelfHosted
    TenantSync           schema, device limit and activation events of a push
    Projects             projects, transcripts and allow-list of a push; cards of the dashboard
    AuthMail             the outbox and its sweepers
    RateLimits           the limiters
      ServerProofs       about these four
    MCServer             composes them

`MC*` modules hold small instances for TLC, `*Proofs` theorems. In every module a step is one statement, or a few that
nothing can come between; a request is a transaction, what it writes is its own until `Commit` (or the last step), and
its row locks are kept until it ends. Waiting for a lock is a guard. A deadlock is broken as PostgreSQL breaks it, by
failing a member of the cycle; a crash or an error ends a transaction with nothing written.

### EntryLog and OrderedFeed

`table` holds committed rows; `ins[p]` and `del[p]` are what push `p` wrote. `nextSeq` is the sequence
`entry_server_seq`, which does not roll back. `writers` hold ROW EXCLUSIVE on the table. `pc[p]` names the next
statement: `Begin` (the high-water mark, 1121-1155), `Classify` (1159-1207), `StartRow`/`InsertRow` (table lock,
`nextval`, ON CONFLICT DO NOTHING; 1216-1281), `BulkFails` and `RowFails` (1248-1306, savepoints and the failure cap),
`Retain`/`SkipRetention` (1454-1495), then the reply (1573-1594) and `Commit` or `Abort` (`database.py`). A pull is
`LockPage` (1919-1933; 503 when the lock is not free), `ReadPage` (page, `next_cursor`, `server_sequence`),
`ReceivePage` or `LosePage`. An INSERT of an id that another transaction has inserted or deleted and not committed waits
for it (`Blockers`), and SHARE conflicts with ROW EXCLUSIVE (`CanShare`, `Sharing`).

A feed (OrderedFeed) is a set of numbered rows; rows are added only ahead of every cursor a reader has or is being
offered, and may be removed; a page offers all rows of the reader's scope in a stretch that begins at its cursor.

### PushSession

What a batch does to the entries is its *outcome* (`Outcome`: a completion state and whether it is safe to checkpoint).
A request is locked out by others in the key's row (`Authenticate`), the guard row (`CheckGuard`) and the device's row
(`TouchDevice`). A guard row met by the INSERT is read by a statement of its own (`ReadGuard`); another request's
clean-up may have deleted it in between, and the push goes on without one. `sessions` and `guard` are committed rows,
`writes[r]` and `purge[r]` what request `r` has written and deleted. `FindSession`/`LoseTracking` is the unlocked
lookup; `UpdateSession`, `AbandonPrior`/`InsertSession`, `IdTaken` and `SessionFails` the session block after the
entries; `PurgeGuards`, `CleanStale`, `SkipCleanup` the cleanups one push in twenty makes. `GoIdle` is time passing,
`Finalize` the completion the status endpoint makes. `stored` and `runs` are history variables.

### Tenancy

`Wants` says which rows the next statement locks and how strongly, `CanLock` that no other transaction holds them
against it; `cut` and `new` are a transaction's writes. A request is `Send`, `LookUp` and `Use` (`middleware/auth.py`
121-233: the key is checked on a row read before its secret is), `Guard` (`services/tenant_guard.py`), then the
statements of its handler: `Push`, `Create`, `FindKey`/`Revoke`, `Rotate` (`routers/auth.py`), or `LockTenant`,
`CountOwners`, `Leave`, `FindKeys`, `RevokeAll` (`routers/account.py`). A sweep is `List`, `Load` (the ORM object, whose
status stays in `seen`), `TryTenant` (advisory lock), `LockRow`, `FindKeys`, `RevokeAll`, `Drop`, `CommitPurge`, and
`ExpireTombstone`. `Schedule`, `Cancel` and `FallDue` are the hosted service, which is not in this repository, and the
clock.

### SignIn

`dev` are device codes, `tok` auth tokens in the order of their insertion, `acct` accounts; `tx[r]` is where request `r`
is, `Need` the locks its next statement waits for. A mail is `LockDeviceForSend`, `BranchDevice`/`BranchWeb` (cap or
cooldown, account or none, sentinels of disabled accounts), `LockMail` (the advisory lock on an address), `Replace`,
`InsertToken` with its unique indexes. A token's use is `LockToken`, then `CountWrongOtp`, or `ResolveAccount`,
`CreateAccount` and `AuthorizeDevice`, `FinishLogin` or `FinishSignup`. A poll is `LockRow`, `AnswerPoll` or `SlowDown`,
and `IssueKey`. Names of workspaces are one name for all, so that new accounts collide as often as they can.

### Credentials

One account: its password and session version, sessions with the version their cookie carries, links. Requests read
without a lock, take their time over a password (`Stamp`, `NewSession`), and write what they read plus one
(`WriteAccount`); `Consume` and `FollowHandoff`/`EnterByHandoff` are the conditional updates and row locks of links and
keys. `Accepted` is the rule of `resolve_jwt_session`.

### TenantSync, Projects

Both are parts of the push's transaction that EntryLog leaves out. TenantSync: `EnterCompat`/`RunCompat`/`Publish` with
the asyncio lock and per-process cache of `services/tenant.py`; `FindDevice`, `CountDevices`, `InsertDevice` with the
user's row lock; `LockTenantSync`, `Claim`, `LoseClaim` with the advisory lock and savepoint of the second-device claim;
`Restart` empties a process's cache. Projects: `Judge` (partial accept by the allow-list), `FindProject`,
`UpdateProject`, `InsertProject` (repository identity, aliases), `FindTranscript`, `InsertTranscript` with its
savepoint, `InsertEntry`. A statement that fails (`FailStatement`) is undone by its savepoint and the push goes on, with
whatever ids it had remapped; `unsaved` is the project it could not write. A history field, `beside`, collects the lists
of the pushes that one ran beside: the list is read before the tenant's row is locked, so pushes judged by different
lists can overlap, and `AllowListHolds` leaves those out, as it does pushes whose project was not written (section 6).
`Card` and `Leads` are the grouping of `services/projects.py`.

### AuthMail, RateLimits

AuthMail: an outbox row's delivery state, sweepers that keep the row from SELECT FOR UPDATE SKIP LOCKED to COMMIT, tasks
that mail codes; the provider sends before the row is recorded (`Send`, `Record`), so a mail may go out twice.
RateLimits: sliding windows, for each key a set of times that are numbered as they come, the order of the limiters on a
route, pruning.

### SelfHosted

`db` is the database (its migration, the tenants made), `code` the checkout, `image` the built image, `api` the
container, the release it was made from, and who had stopped it to load or migrate the database when it was started
(`amid`). Operators are an admin's shells, which run any command, and timers, which back up and update as the launchd
job does; each carries out one command at a time, `job`, and nothing keeps two operators apart. A command is a sequence
of docker and git calls, each of which may fail (`FailCommand`), and the command may be killed between any two
(`KillCommand`). `archives` are in the order of their times, `partials` the files opened by O_EXCL.

## 3. Runs

Deadlock checks are off: every instance bounds the work of a behaviour, so that it stops. Except in the violations TLC
explores each instance completely.

| Run | Properties | Bounds, and why they are enough |
|---|---|---|
| `EntryLog_delivery` | `NoMissedEntry`, `RetentionSparesOwnRows`, `ImplementsFeed` | three one-entry pushes of two keys, one reader: two sequence values out of order and a third push to retain |
| `EntryLog_live` | `TruthfulReply`, `AcceptedOnce`, `PushEnds`, `Converges` | two two-entry pushes that insert the same ids in opposite orders, one with another hash: conflicts, both fallbacks, the cycle of locks; pages of one row |
| `PushSession_retry` | `CountAccurate`, `CompletedMeansAll` | four sends by two users of six requests: a batch, its repetition, another batch under a reused key, another session; sessions of one device only (section 6) |
| `PushSession_live` | `ProcessedOnce`, `OneActivePerDevice`, `RequestsEnd` | three sends of three requests (`MCContended`): a device under two keys, and a second device that uses the same session id; guard rows age |
| `Tenancy_live` | `OwnerRemains`, `WritesWhileActive`, `RotatedOnce`, `RequestsEnd`, `DueIsPurged` | two of nine requests against a worker: two owners leave, two keys rotate one, a push meets a purge, each pair can deadlock |
| `SignIn_races` | `OneKeyPerCode`, `OwnerIsKept`, `TokenSpentOnce`, `GuessesBounded`, `SignupsNeverCollide`, `OneMailPerCooldown` | two requests at once, two or three mails, two addresses, caps of two; five scenarios so that all kinds of requests meet |
| `SignIn_ends` | `RequestsEnd`, `DeviceServed` | two mails for a code and the use of the first: the two lock orders |
| `Credentials_races` | `LinkServesOnce`, `PasswordEndsSessions`, `HandoffNeedsKey` | four requests, two at once, two sessions to begin with; six scenarios of what is asked |
| `SelfHosted_ops` | `ServesItsSchema`, `OneFirstAdmin`, `BackupsKept` | three releases; two commands of an admin and of a timer that updates, beside that timer's backups, so that an update meets a restore, a rollback or another update; two expired archives and two to keep, one mishap, two create-admin commands |
| `Server` | `SchemaBeforeUse`, `DeviceLimitHolds`, `SecondDeviceSeen`; `EntriesKeepTheirFile`, `AllowListHolds`, `CardsKeepRepos`; `WindowHolds`; `MailIsWanted`, `LinkMailsEnd` | parts that share no state, one of them in each behaviour. Two pushes at once, four in all, of two users on three devices and two processes, limit two; three uploads of six batches under two lists, where the UPDATE of a project may fail (`Fallible`; with all six places of failure, 1.6 million states, the properties hold too, checked apart from the run for its length); one link and one code with two sweepers, two attempts and a fault; four calls of two callers, windows of two ticks |
| `SignIn_finalize`, `Tenancy_cancelled` | `FinalizeIsAtomic`, `PurgeIsWanted` | violations (section 6) |

`MaxRejected` is 0 in the EntryLog runs: entries rejected before the batch only shift a reply's counters, and
`RepliesTrue` covers them for any number. In `Server`, sharing one run costs nothing in strength, because the parts'
variables are disjoint; it keeps the parts' specifications as they are. The two requests of a
part are interchangeable (`Symmetry`); the temporal properties of that run are about the mails' part alone, which has no
requests, so that symmetry identifies no two states of a behaviour they tell anything about.

For each property of a passing run, `PROJECT.json` names a *mutant*: a small change of the model, such as the code could
have had, under which TLC finds the property violated. The mutants stand above the definitions they replace; no
specification uses them.

## 4. Fairness

Safety properties need none. What the liveness properties assume:

- EntryLog: a statement that can run does (WF); a push that waits for the table lock gets it (SF: PostgreSQL queues lock
  requests, so later pulls stand behind it); a deadlock is broken; a pull's NOWAIT lock, asked for again and again, is
  free at last (SF on `LockPage`), which holds because pushes are bounded. A busy tenant could refuse every pull:
  `Converges` is about a tenant whose pushes pause.
- PushSession, SignIn: SF on a request's statements. Waiters of a row are served in turn, so a request that can go on
  again and again does. Clients need not send. For `DeviceServed` a client polls until it is told to stop
  (SF on `Polls`), and its polls do not die for ever or come too soon for ever: it waits longer after a `slow_down`, as
  RFC 8628 and the answer's `interval` ask.
- Tenancy: WF on statements; sweeps are repeated (`_purge_scheduler_loop` in `app_factory.py`) and do not fail for ever;
  requests may fail at any time.
- AuthMail: sweeps repeat for ever and a retry falls due in time (WF); faults are bounded by `MaxFaults`.

## 5. Proofs

Proved for every value of the constants that meets the modules' assumptions; liveness is left to TLC.

| Module | Theorems | Argument |
|---|---|---|
| `EntryLogProofs` | `TypeCorrect`, `RetentionSafe`, `NoEntryMissed`, `RepliesTrue`, `CountedOnce`, `Refinement` | see below |
| `OrderedFeedProofs` | `FeedComplete` | a reader has every row of its scope at or below its cursor |
| `PushSessionProofs` | `TypeCorrect`, `OnceProcessed`, `OneActive`, `CountsOnce`, `AllStored` | see below; the last two under `CleanUploads` |
| `TenancyProofs` | `TypeCorrect`, `OwnerAlwaysRemains`, `WritesAreGuarded`, `KeyRotatedOnce` | see below |
| `SignInProofs` | `SignInType`, `OneKey`, `OwnerKept`, `SpentOnce`, `GuessesAreFew`, `SignupsReplace`, `CooldownsKept` | locks are apart; what a request relies on; what is counted under which lock |
| `CredentialsProofs` | `TypeCorrect`, `LinkServes`, `PasswordEnds`, `HandoffKey` | what a request has read, beside what is committed |
| `SelfHostedProofs` | `OpsType`, `ServesOwnSchema`, `BackupsStay`, `FirstAdminIsOne` | the api is down while its database changes; whose a backup is |
| `ServerProofs` | `SchemaReady`, `DevicesLimited`, `SecondDeviceNoticed` (TenantSync); `ProjectsType`, `FilesKept`, `AllowListKept`, `CardsKept` (Projects); `MailsAreWanted` (AuthMail); `WindowsHold` (RateLimits) | an invariant for each |

These state every invariant and every action property that the passing runs check, and the refinement of `OrderedFeed`.
Three of them have hypotheses about clients, which the server does not enforce: `CountsOnce`, `AllStored` and
`CardsKept`. The instances of the runs satisfy them, and section 6 says what happens without.

None of the properties is inductive as it stands.

**EntryLog.** The strengthening relates sequence values to where rows are: `Drawn` (values in use are below `nextSeq`
and distinct), `Locked` (a push with uncommitted rows holds ROW EXCLUSIVE, and no reader then holds SHARE),
`InFlightAhead` (an uncommitted row is ahead of every cursor, which is what makes a late commit harmless), `Rested`,
`Deleted`, `Finite`, `Counted`, `Accounted` (a position of the batch is in one class, and what its class says of the
table is true) and `Owned` (accepted positions have a row of the push's own).

**PushSession.** `OneAtATime` (two requests being processed have different keys, two past `TouchDevice` different
devices), `Guarded`, `RunsGuarded`, `PurgeApart` (a request past its guard finds no committed guard row of its key and
id, and none appears before it commits), `WritesApart`, and `WritesTrue`: a request that inserts a session abandons
every other in progress of its device, and that stays so until it commits. `OneActivePerDevice` speaks of committed rows
that no statement checks; without that part it is not inductive. `CountInv` is for the counts: under `CleanUploads` no
guard row is deleted before it is read (`Found`), the count that a request has loaded is still the row's when it is
written (`Loaded`: writers of one session are of one device, whose row is locked), the row it has written for its own
session counts its batch (`Row`), and content that is stored has run under its guard, so that it does not run again.
`CleanUploads` says of the clients that a batch has one key and idempotency key whenever it is pushed, and that a
session is of one device; and that no retry comes later than `idempotency_ttl_hours` (`~GuardsExpire`).

**Tenancy.** `Exclusive` (locks held do not conflict), `KeyHeld`, `GuardHeld`, `PurgeHeld` (which rows a transaction
holds by its place), `OwnerHeld` (an owner past the count holds the tenant FOR UPDATE), `NewKeys`, `CutHeld`,
`RotateHeld`, `KeysAgree`.

**SignIn.** `Apart`: no lock has two holders, since a step takes what it needs only when nobody has it. `Relies`: by its
place, a request holds the lock of its code or token; the token that it judges is unused and has let nobody in; the code
whose key it is about to issue is authorized. `CodeOK`: a code that is authorized has an owner and no key. Each action
is either of the kind "goes on with its locks" (`TakeKeeps`), "ends, having written only what it holds" (`EndKeeps`) or
"outside of requests" (`OutsideKeeps`), and the proof has a lemma for each action that says which. `MailInv` adds what
mails are counted by: a request about to send holds its code's lock from the moment it found the cap unmet, or its
address's from the moment it found the cooldown over (`MailRelies`); one about to insert a token of a signup has replaced
every other of the address; one that judges a password has the token's count as it is, under the token's lock. Other
requests' steps spare what that speaks of (`SparesMail`), the age of tokens moves one way (`TokensAge`).

**Credentials.** `Relies`: a request that acts for a link holds the link's row, which is unused and has done nothing; one
that enters by a handoff holds the key's row, and the key is live; one that settles a new password holds the account's
row, and each session is one it ends, the one it keeps, or dead. `Spares` is what a step must leave to a request, and
each action's lemma shows that it does so for all the others.

**TenantSync.** `SchemaInv`: a cached schema is committed, and a push past the schema check sees it committed or made
the DDL itself. `LimitInv`: a push that is to insert a device holds its user's row, so the count it made stands.
`ClaimInv`: a push about to commit a device, unless its claim failed, holds the tenant's advisory lock and has either
found or set the marker, or there is no other device.

**Projects.** `FilesInv`: what a push holds refers to a committed transcript of the same file and user, or to its own;
it rests on `BatchesAssumption`, that a transcript's id is made by one device for one file, which the server takes from
the client and does not check (section 6). `ListInv`: a push that ran beside none with another list, and could write its
project, sees it under a listed name, or, when an insert failed, sees none under another name; nobody renames it in
between. `CardInv`: a row whose key is an identity has that identity, and its key is one its own client gave it. From
that alone a lemma about any set of rows (`OneCard`) shows that rows of one identity are on one card, to which it leads,
whether they have no key, one, or several. It rests on `NamesApart` (origins, keys and ids that clients make are not
identities) and on `ClonesApart`: the alias of a project is found by its key, and the row is updated by its id in a
later statement. If the project's own client takes the origin away in between, the row is keyed by its identity and gets
another's, and the identity may lead to two cards.

**AuthMail.** `MailInv`: no two sweepers have a row, and a link that a sweeper has is still to be mailed; the row is
kept from SELECT to COMMIT. The theorem is about steps: it follows from the invariant and one lemma per action.

**RateLimits.** `RateInv`: when there is a limit, the requests let by within the window are those of the log, and no more
than the limit; the requests of a moment are numbered from one, so that a new entry is never one that is there.

**SelfHosted.** `ServeInv`: an api that was started while nobody was about to load or migrate the database serves its own
schema, and nobody has come to that since, because who does stops the api first. `AdminInv`: one create-admin command at
a time is past the lock, it has found no admin, and it ends with the container; and the admins in a dump are in the
database, so that a restore takes none away and brings none back: one that would is refused by the rows that refer to
them (`Leftover`), and one that would load while an admin is made waits for it.
`KeptInv`: a partial file is its opener's alone; the archive that a command has written stands and is not old; oldest
archives go first (`OldestGone`), and a rotation's list, when all the old archives on it are there, counts no more to
spare than there are, which is why two rotations at once leave `--min-keep`.

Only model-checked: liveness (`PushEnds`, `Converges`, the three `RequestsEnd`, `DueIsPurged`, `DeviceServed`,
`LinkMailsEnd`), which rests on ENABLED and is out of the proof system's reach.

## 6. Where comments and code differ

Two are kept as runs that end in a violation (`findings` in `PROJECT.json`):

- `Tenancy_cancelled`: a purge worker goes by the status the tenant had when it was loaded, not when its row was locked:
  the ORM does not refresh an object it has. A deletion cancelled in between is carried out;
- `SignIn_finalize`: the error of a finalization whose device code has gone is answered and committed: an account
  without the device it was made for.

Others met while modelling. Where a property is named it stands in its module, and TLC violates it when it is put in
place of the properties of the run that is named, or under the instance described:

- `sync.py:1611`: a session's `completed_batches` loses a count when two devices push batches of it at once
  (`CountAccurate` with `MCOneOfTwo`); a batch that is repeated without its idempotency key, or when its guard row has
  been purged, is counted again;
- `account.py:191`: a key created or rotated while its user's account is deleted outlives it (`KeysDieWithUser`,
  `Tenancy_live`);
- `device_auth.py:513-525` promises one answer to every request for a mail; a collision of two logins' tokens is an
  error (`MailRequestsAnswered`, with the two device codes of `SignIn_finalize`);
- `browser_auth.py:1360`: a login under an old password that is finished while two requests set passwords may be let in,
  as both compute the same session version (`OldPasswordsAreOut`, three requests of the scenario login, version);
- `browser_auth.py:411`: a code whose task dies is picked up by the sweepers (`CodesStayOut`, `Server`);
- `scripts/README.md:135`, `self_hosted_ops.py:871-899`: the printed rollback does not take the database back, so that
  an older release meets a newer schema and loops (`RollbackServes`, `SelfHosted_ops`);
- `sync.py:1801-1816`: the claim's lock is said to rule deadlocks out; two pushes can wait for each other's rows
  (`NoDeadlock`, `Server`), and the one that loses misses its claim until a later push makes it;
- `sync.py:1773`, 1802: an activation event is sent before the commit, so that a push which then fails has announced
  what it takes back; the first one, said to fire once, is sent by each of two first pushes that overlap;
- `sync.py:855-860`: an entry whose project was an alias may end in another project than its transcript, when two pushes
  make the transcript at once (`EntriesKeepTheirProject`, `Server`);
- `sync.py:803-807`: ids that were aliased in one batch and come without their project in a later one fail their foreign
  key; two first pushes of a repository at once make two projects of it; a transcript is matched by its id alone, so
  `EntriesKeepTheirFile` rests on clients not sharing ids;
- `sync.py:925-985`: the project an alias was found by its key for may get another key before it is updated
  (`CardsKeepRepos`; four pushes of three projects: one, its clone, the first again without its origin, and a worktree
  under another origin);
- `sync.py:454` reads the allow-list before 470 locks the tenant's row: a push may go by a list replaced meanwhile;
- `sync.py:1022-1024`: a project whose UPDATE fails is an error in the reply, but the id it was remapped to (939) stays:
  the push's entries are stored in a row whose name is still off the list, while `models.py:82` says "only listed names"
  (`AllowListAlways`, `Server`);
- `browser_auth.py:1360-1364`, 1387-1391 say that the session which sets a first password survives. The version it bumps
  (1392) is in that session's cookie, and `jwt_auth.py:314` refuses it (`KeptSessionStays`, `Credentials_races`). Nothing
  in the repository calls `set_account_password`;
- `self_hosted_ops.py:529`, 958 say "Stopping api before restore..." and "before migrations...". The up -d of a scheduled
  update (965, 995-1004; `scripts/README.md:154-163`) may start it again before a restore loads an older database, whose
  own up -d (552) leaves that container running (`ServesAlways`, `SelfHosted_ops`; two commands are enough).

Rate limit windows are lost when a process restarts, and each process has its own (`middleware/rate_limit.py:1-5` says
the limiters are for a single instance).

## 7. Not modelled

- Push: validation of fields, `source` overlay, summaries, usage, tool invocations, the check-in endpoint. Pull: project
  and session filters, rows of a page that no longer validate, a failing MAX query. `PushEnds` is checked with
  retention off: a purge that waits for an insert is in the model, and the run with retention checks safety only.
- Tenancy: scopes and expiry of keys, login nonces, the batch limit of a sweep, KEY SHARE locks of foreign keys, the
  profile and the export. Provisioning of a new tenant's schema is one step of a signup.
- SignIn and Credentials: approval of a device from a signed-in browser, invitations, CSRF and signatures, throttles by
  IP (RateLimits has those in memory). Sessions beside SignIn's are Credentials'.
- SelfHosted: installing the timer; doctor and health commands, which read. Git and docker are external: a call works or
  fails.
- Search, activity and dashboard queries read with one statement each. Settings and shares are updates of one row.
  Monitoring, logging, templates and schemas keep no state the properties are about. Migrations are linear and counted
  by SelfHosted.

What could come next, most useful first: the join of Projects and EntryLog in one transaction, for the ids a batch
rewrites; an abstract specification of a sync session that PushSession implements under `CleanUploads`; the check-in
endpoint beside TenantSync; scopes and expiry of keys.
