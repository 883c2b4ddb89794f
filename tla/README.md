# Formal models of login-backend

TLA+ models of the Go server in `src/`: a chi router over PostgreSQL (lib/pq,
READ COMMITTED) and Redis, with tasks that several devices and users edit, an
access control list with a cache, and a WebSocket hub that tells clients what
changed. The repository has no tests of its own, so the code is the only
reference.

Contents: [1 the system](#1-the-system) · [2 the modules](#2-the-modules) ·
[3 the runs](#3-the-runs) · [4 the proofs](#4-the-proofs) ·
[5 what the models found](#5-what-the-models-found) ·
[6 limits](#6-what-is-not-modelled) · [7 plan](#7-plan).

To check a module, for instance `MCHub`: `tlc -config Hub.cfg MCHub.tla`; to check
the proofs about one, for instance `TaskStore`: `tlapm TaskStoreProofs.tla`.

## 1 The system

Every HTTP request and every WebSocket pump is a goroutine of one process; they
share the database, Redis, and the hub's maps and channels. There is no
`Recoverer` and no timeout middleware in the router.

| component | state | operations | what makes it hard | what must hold |
|---|---|---|---|---|
| Task service and repository (`features/tasks/service.go`, `repository.go`, `model.go`) | `tasks`, `task_events`; row locks | create, update, soft delete, sync (a list of those, then a pull) | an update reads outside the transaction that writes; READ COMMITTED; each sync change is its own transaction and its error is dropped; the process or the connection may fail around COMMIT | no lost update; the log agrees with the row; what was reported done is durable and was done once; row locks never block a request for ever |
| Hub (`internal/websocket/hub.go`) and the pumps of `websocket_handler.go` | maps `clients` and `rooms`, `client.Rooms`, channels Register, Unregister, Broadcast, Send, mutex `mu` | register, unregister, join, leave, broadcast, read and write pumps | three kinds of goroutines, bounded channels, a lock not always taken, panics that kill the process | order and completeness of delivery; dead connections are forgotten and end; handlers are not blocked for ever |
| Task handlers (`websocket_handler.go`, `routes.go`) | none | HTTP in front of the service; recipients of notifications | recipients are read before or after the change in separate statements; errors are ignored; deletes race | nobody is told of a deletion twice, or of one that did not happen |
| Synchronisation (`service.go` `ProcessSync`, `repository.go` `ListChanges`) and the devices it serves | per device: copies, `last_pulled_version`, unsent changes | push a list of changes, pull what changed | each change has its own transaction and its error is dropped, as are those of its payload and of the rows of the pull; a request given up goes on running; one number stands for the versions of all tasks; nothing checks rights | copies never go back; what a full count tells, what a pull misses and a retry repeats are known exactly |
| ACL service and repository (`features/acl`, `pkg/acl`, `migrations/004`) | `acls`, `resource_permissions_cache` | check, list, grant, share, revoke, cleanup; a trigger empties the cache | a check is up to seven statements; a fill races with the trigger; entries outlive rows; NULLs in the unique key | the cache is right; nobody is let through on a right long lost |
| ACL middleware (`internal/http/middleware/acl.go`) | none | one check in front of an HTTP handler | it checks once, the handler runs later | as above |
| ACL handlers (`features/acl/handler.go`) | none | routes of the ACL service, `task_shared` messages | message after a committed change; a list of targets may fail half way | whoever got a row is told of it |
| Authentication (`features/auth`, `pkg/utils/jwt.go`, `middleware/auth.go`) | `users.refresh_token`, Redis `blacklist:*` | login, refresh, logout, the check of every request | rotation is a read and a write; logout is two stores and names the row to clear in a header; the blacklist forgets and fails open; tokens outlive what they say | a replaced refresh token never comes back; a logged-out token is refused; a lost role ends |
| Users (`features/users`) | `users` | create, update, deactivate, change password, avatar | read-modify-write of the whole profile; email tested before the insert | concurrent edits do not undo one another; a deactivated user stays so |
| Avatar uploads (`pkg/uploader`) | files, `users.avatar_url` | save a file, then the column | two stores, either may fail | the column names an existing file |
| Rate limiter (`internal/http/ratelimit/redis.go`) | Redis counters per window | Increment, IncrementBy, Get for httprate | Get returns the window length where httprate expects the previous window's count | the limit is enforced and only the limit |
| Migrations and start-up (`internal/database/migrations.go`, `cmd/api/main.go`) | `schema_migrations` | apply each file in a transaction, seed the admin | crash between files; several instances; accounts that take the admin's email | each file is applied once, in order; one admin, or one account mistaken for him |
| Snowflake ids, configuration, router, security headers, responses, API docs | none after start-up | | | |

Who calls whom: handlers call services, services their repositories; the ACL
middleware and `tasks.Service` call `acl.Service`; `tasks.Service` calls
`users.Service` to resolve emails; the task and ACL handlers send on
`hub.Broadcast` and block when it is full; `readPump` calls `JoinRoom` and
`LeaveRoom` directly and hands itself over by Register and Unregister; triggers of
the database empty the permissions cache.

## 2 The modules

| module | what it is | theorems in |
|---|---|---|
| `VersionedTasks` | abstract specification: a store that applies each accepted change atomically to the current row | |
| `TaskStore` | the task service and repository, statement by statement; implements `VersionedTasks` | `TaskStoreProofs` |
| `TaskSync` | devices that push and pull with `POST /tasks/sync`, over `VersionedTasks` | `TaskSyncProofs` |
| `Feed` | abstract specification: numbered messages, delivered one after the other to everyone they are due to | |
| `Hub` | the hub goroutine, the pumps, the handlers' sends; implements `Feed` | `HubProofs` |
| `Rights` | abstract specification: users hold permissions, who is let through by a check holds what he needs or held it lately, and a sync is let through unchecked | |
| `AclService` | checks, cache, grants, time; implements `Rights` | `AclServiceProofs` |
| `TaskFlow` | extends `AclService`: the handlers behind the checks and the messages they send; implements `Rights` too | `TaskFlowProofs` |
| `Sessions` | logins, refreshes, logouts, the check of every access, changes of the account | `SessionsProofs` |
| `Accounts` | several accounts: emails, profiles, avatar files | `AccountsProofs` |
| `Schema` | abstract specification: a schema that climbs one level at a time while servers start | |
| `Startup` | several instances that migrate the database and seed the admin; implements `Schema` | `StartupProofs` |
| `MC*` | values of constants and symmetry sets for TLC | |

How they compose: `TaskSync` instantiates `VersionedTasks` as its store and takes each
change as one step, which is sound because `TaskStore` is shown to implement it
(`Atomicity`). `TaskFlow` extends `AclService` with the handlers; every behaviour of
it is one of `AclService` (`FlowRefinesAcl`), so that what is proved there holds of
it, the promise of `Rights` included (`HandlersEnforceRights`). `TaskFlow` ends with a message on `hub.Broadcast`; `Hub` begins there.

An operator whose comment begins with "Faulty variant of" is a plausible bug in
the code. No specification uses it; substituted for the operator it names, it
makes TLC find the corresponding property violated. That is how each checked
property is known to be able to fail.

### TaskStore

One request is one goroutine with a program counter `pc`. `tasks`, `events` and
`life` (absent, live, `deleted_at` set) are the committed database; `lock` is the
row lock of an open transaction; `job` is what the goroutine holds in memory,
the row that `UPDATE` will write included.

| action | code |
|---|---|
| `InsertTask`, `InsertEvent`, `Commit` | `Repository.Create`: two statements and a commit |
| `FindByID`, `UpdateRow`, `InsertEvent`, `Commit` | `Service.UpdateTask`: the read and the computation of the new row, then the transaction of `Repository.Update` |
| `VersionConflict` | the event violates `UNIQUE(task_id, version)`: this constraint, and nothing else, makes concurrent updates safe |
| `CommitReplyLost`, `StatementFails`, `Crash` | the environment |
| `Delete` | one statement with `deleted_at IS NULL` |
| `UnknownChange`, `Refuse`, `Respond` | the other exits of the service and of the loop of `ProcessSync` |

The value that a change writes in a column is the identity of the change, so that
the properties can say which write a column holds. Statements are atomic, as they
are in PostgreSQL; a row inserted by an open transaction is invisible, hence its
id is only `lock`ed.

`Abs == INSTANCE VersionedTasks` maps the committed state to the abstract one by
name. `Apply`, at the commit, is the step that does the whole abstract change.

### TaskSync

A device works offline: `MakeChange` appends to its `queue`, `Send` sends all of it
with `last_pulled_version`, `GiveUp` stops waiting while the request runs on, `Receive`
takes an answer. The client is not in the repository; `Receive` is what the request
and the answer are made for: rows replace copies, the highest version is remembered,
what was sent is done with.

`Create`, `Update`, `Delete`, `Unknown` and `Fails` are one iteration of the loop of
`ProcessSync`. Whether the change took effect and whether it was counted are
separate choices, because `COMMIT` may take effect and lose its reply; a change of
unknown type is counted (there is no `default`). `ListChanges` is the query with its
WHERE clause, which looks neither at `deleted_at` nor at shares. `Elsewhere` is any
other route. Two errors that the code drops are choices of the model. The result of
`json.Unmarshal` is not looked at (`service.go:173,182` test an `err` that is still nil),
so a payload that does not fit (`decodes` is false) runs with what was decoded of it, and
`TookEffect` counts it under `partial` instead of `effects`; if nothing of a new task's
priority was decoded, the CHECK of its column refuses it, one of the cases of `Fails`.
`rows.Err` is not asked (`repository.go:291-307`), so `ListChanges` may answer with any
first part, in the order of the query, of the rows it selects; `cut` records that. (The
errors of `rows.Scan` are dropped too, but every stored column fits its variable.)

A copy of a task is represented by its version, and the vector clock of the store, which
no device reads, is left out: `VersionedTasks` is instantiated with no users to count
for, of which TLC warns when it reads an EXCEPT of that empty function. `base` (all
the user's versions when the answer was computed), `cut`, `made`, `sends`, `carried`
(requests that carried a change), `effects` and `partial` are history.

### Hub

Unbuffered channels are hand-overs (`TakeRegister`, `TakeUnregister` move the hub
and the pump together); Broadcast and Send are sequences of bounded length. A
section under or without `mu` that touches the room maps lasts from one action to
a later one (`JoinRoomLock` .. `JoinRoom` or `JoinPanics`, `ReadLeave` .. `LeaveNoRoom`
or `LeaveRoom`, `CountRoom`, `DropRoom`, `UnregisterLock` .. `ForgetClient`,
`TakeMessage` .. `RoomDone`), so that two goroutines can be in such sections together.
When they are, `MapRace` is the abort of the Go runtime; otherwise their steps take
effect in any order. Two sections are split where the other side can come in between:

- `JoinRoom` tests or makes the room under the lock (`JoinRoomLock`, into `present`, the
  keys of `h.rooms`) and then writes into it. If a `LeaveRoom` deleted the room in
  between, that is an assignment to an entry of a nil map (`JoinPanics`). The deferred
  unlock and the deferred hand-over to Unregister still run, and only when the hub has
  taken it does the panic end the process (`doomed`, `Die`);
- `LeaveRoom` takes the client out of the room, looks at the number of those left, and
  deletes the room, without the lock: whoever joins between the count and the delete
  is deleted with the room.

`Offer` is one iteration of a broadcast loop, with both panics
(send on a closed channel; `close` of a closed one in `ForgetClient`). After a
panic nothing happens: `Next` requires `~panicked`.

`Delivery == INSTANCE Feed` hides channels, maps, lock and goroutines: the current message
is the last one taken off the Broadcast channel, `open` are the ones in the channel and
the one in the loops, a connection's `stream` is what was written to it followed by what
its Send channel holds, it is `leaving` from Unregister on and `dropped` once its channel
is closed. `TakeMessage` begins a delivery, `UserDone` completes it, and a turn in a loop
is a send, a drop, or nothing.

A message always names a task and a user, as all those the handlers send do.
Payloads are message numbers. `due`, `handled`, `got`, `cause` and `crossed` (rooms of
which a leave overlapped a join) are history.

### AclService

Every query names one resource, so one is modelled. A permission check runs
through `owner`, `cache`, `user`, `team`, `public`, `save`, `decide`: the middle
three are the queries of the PL/pgSQL function
`calculate_effective_permissions`, which is VOLATILE, so that each takes a new
snapshot. A permission mask is the set of its bits. A change of `acls` and its
trigger take effect at once: other transactions cannot see one without the other,
and a check that runs between trigger and commit leaves behind what one that
computes before and saves after does. Time is in ticks, which are long compared
with a request: `Tick` waits until no request is in flight. A row and a cache
entry carry the number of ticks they have left, which needs no clock.

`Access == INSTANCE Rights` hides rows, cache, trigger and statements. What a user holds is
`Effective(rows, u)`, whatever the cache says; a request is in `serving` or `writing` from
the statement that lets it through to its end, with what it needs and whether that was
checked. `SyncTasks` is the route that does not check: a user who is logged in gets to the
update or the delete of any task. `Rights` has an action of its own for it
(`AdmitUnchecked`, for WRITE and DELETE only), so that the refinement says which requests
are let through on a right and which are not, and `Delete` needs one that came to delete. `Change` is any statement that writes
`acls`, by a request that was let through for it; `Tick` lets rows run out.

`age` (ticks since a user last effectively held a permission, up to the lifetime
of a cache entry) and `clean` (nothing the entry depends on changed since its
first statement) are history. `team_members` is a constant: no code writes it.

### TaskFlow

`req`, `rows`, `cache` and the rest are those of `AclService`. `at` is the statement
of the handler a request has come to, `news` the messages it has prepared and not
sent.

| action | code |
|---|---|
| `Admit`, `FlowCheck` | the routes, their middleware and the checks inside the ACL service |
| `UpdateTask`, `ResolveUpdated` | `UpdateTask` of `websocket_handler.go`: the change, then the recipients |
| `GetTaskOwner`, `ResolveDeleted`, `DeleteFound`, `DeleteFails` | `DeleteTask`: owner and recipients, then the soft delete, which succeeds for one of those that race |
| `ShareCreated`, `Created` | the shares of a new task, one row after the other, then its messages |
| `Grant`, `Share`, `Shared`, `Revoke`, `WriteFails` | the ACL handlers; a public target ends a share with its row committed |
| `Send`, `Finish` | one message at a time on `hub.Broadcast`, then the answer |
| `SyncDelete`, `SyncEnds` | an update or a delete carried by a sync request, which passed no check and notifies nobody |

The messages of one request are sent in any order, which allows every order the
handlers have. `GetACL` selects eleven columns and scans nine, so that
`ListRecipients` fails as soon as the task has a row: `task_updated` and
`task_deleted` reach someone other than the author only when no row is left, that is
when a collaborator acts on a cached right after a revocation. `TaskFlow.cfg` has
revocations for that reason. `told`, `silent` and `deletions` are history.

### Sessions

The row of one user (`active`, `role`, `password`, `refresh`), the pairs of tokens
granted to him, the Redis blacklist, and the requests in flight. A request is one
or two statements; its program counter names the one to come, and `seen` is the row
it read.

| action | code |
|---|---|
| `FindUserByEmail`, `FindUserByRefreshToken` | the read of `Service.Login` and of `Service.RefreshToken` |
| `SaveRefreshToken`, `Answer` | the tokens are made from the row that was read, and the new refresh token replaces what the row holds *now*; the client gets them with the answer |
| `ClearRefreshToken`, `AddToBlacklist` | `Service.Logout`: PostgreSQL, then Redis with the token's own end as TTL. The row is the one that the request names in `X-User-ID` (`auth/handler.go:100`): this user's, or another's or none, which is answered alike because the number of rows is not asked (`auth/repository.go:106`) |
| `ClearedByAnother` | the same from the other side: a logout of somebody else's pair that names this user |
| `Authenticate`, `Serve` | `AuthMiddleware`: EXISTS in Redis, whose errors count as "absent", then the signature and `exp`; then the handler |
| `FindByID`, `UpdateUser`, `UpdatePassword` | `users.Service.Update` and `ChangePassword` |
| `Deactivate` | `users.Service.Delete`, one statement |
| `Fail`, `RedisRestarts` | the environment: a later statement fails or the process dies; Redis has no volume in `docker-compose.yml` and may come back empty |
| `Tick` | all lives get one tick shorter; a request is short compared with a tick |

A pair has one identity, which is that of its refresh token, 32 random bytes. Its access
token `tok` may be that of another pair: a JWT has nothing in it but the user, the role and
times in whole seconds (`pkg/utils/jwt.go:20`), so that two logins or refreshes within one
second make the same string (`GeneratedFor`). The blacklist has access tokens: a logout of
one pair logs out the other one's too, and a login in the second of a logout gets a
token that is on the list already. Users do not choose an earlier password again. A refresh token has
no end on the server: `refreshExpiry` (`cmd/api/main.go`) is configured and
never read. `held` (ticks since the user was active with a role), `gone` (secrets
that left the row), `out` (a logout of the pair answered with success), `own` (one that
named this user did, or is to) and `wasOut` are history. After a restart of Redis `out` is forgotten: only logouts since then
bind.

### Accounts

Rows of `users` with the columns for which requests compete (email, active, whether
`avatar_url` is set), one file per id, and overlapping requests.

| action | code |
|---|---|
| `EmailExists`, `InsertUser`, `FindCreated`, `AnswerCreated` | `Service.Create`: the test, the insert under `UNIQUE (email)`, and the query *by email* for the row to answer with |
| `FindUser`, `UpdateUser` | `Service.Update`: the read, then all the profile columns as they were read |
| `DeleteUser` | `Service.Delete` |
| `OpenFile`, `Encode`, `EncodeFails` | `uploader.go`: `os.Create` truncates `<id>.jpg`, `jpeg.Encode` writes it in place, and a failure leaves what there is |
| `CheckUser`, `UpdateAvatar` | `Service.UpdateAvatar`: `FindByID`, then the column |
| `Fail` | a statement fails or is refused, or the process dies |

Two writers of one file may leave bytes of both: `Encode` chooses. `last`, `moved` and
`alone` are history. A deactivated account is still a row, and its email stays taken.

### Startup

Each instance runs `main` up to its first request: `pc` names what is next, `file` the
migration it has come to. `created` and `applied` are `schema_migrations`, `admins` and
`named` what `seedSuperAdmin` sees of `users`.

| action | code |
|---|---|
| `Start` | the process starts; without `./migrations` `RunMigrations` returns at once |
| `CreateTable`, `TestFile`, `AllTested` | `CREATE TABLE IF NOT EXISTS` and the `SELECT COUNT(*)` of each file |
| `ExecFile`, `RecordFile`, `CommitFile` | the transaction of one file; the insert waits for another instance that inserts the same version and is refused once that one has committed |
| `CommitReplyLost`, `MigrationFails`, `Crash` | the environment; all end the process |
| `EmailExists`, `Create`, `SeedFails` | `seedSuperAdmin`, whose errors are only logged |
| `RenameAdmin` | a profile update that gives the account with the admin's email another one |
| `TakeEmail` | `POST /users`, which is public, or a profile update puts the admin's email in another account, on an instance that serves while the table is there: one without migrations, or one that came up before the email was free again |

`Climb == INSTANCE Schema` shows of this the number of files applied, the admins, and which
instances are on their way up or serve. A commit, known or not, is an `Upgrade`; reaching
`serve` is an `Open`, with the admin or without; whatever ends the process is a `Stop`.

An admin email is assumed to be configured. `renames`, `taken`, `faults` and `overtaken` (instances
hit by a fault or by another's commit since they started) are history.

## 3 The runs

| run | instance | what it shows |
|---|---|---|
| `task_store` | 3 requests of one change, 1 task, 2 users, 2 columns | `EventLogComplete`, `ClockCountsEdits`, `RowReplaysLog` and the refinement `Atomicity` |
| `task_store_sync` | 2 requests of up to 2 changes, 2 tasks | `HoldersNeverWait`, `SeqFollowsVersion`, `AckedIsDurable`, `DeleteAckedOnce`; `EveryRequestEnds` under fairness |
| `task_sync` | 1 device, 2 users, 2 tasks, 2 requests at a time, 2 offline changes, 2 sends, versions up to 2 | `MissedOnlyBelow`, `RetriesAccounted`, `FullCountIsTrue`; `CopiesAdvance` of every step |
| `sync_pull` | as `task_sync`, 1 request at a time, no offline changes | `NewTasksIncluded` violated |
| `hub` | 2 connections of one user that join and leave 1 room, 1 message, Send of 1 | `RecipientsNotified`, `PanicHasCause`, `MembershipAgrees`, `GoneIsForgotten` |
| `hub_live` | 1 connection that joins and leaves for ever, 3 messages, Broadcast of 2, Send of 1 | `DeliveredInOrder` and the refinement `DeliversFeed`; `HandlersProceed` and `ConnectionsEnd` under fairness |
| `acl` | a collaborator with the role OWNER by rows of his own and through the team, 2 requests at a time of the kinds access, list, grant, share, revoke and sync, TTL of 1 tick, rows that live 1 tick | `CacheIsCurrent`, `DecisionsJustified` |
| `sync_access` | 1 request at a time of the kinds access, grant and sync | `PermissionValidated` violated |
| `task_flow` | owner and collaborator, 2 requests at a time of the kinds access, grant, share, revoke and sync, TTL of 1 tick, rows that do not expire | `SharesAnnounced`, `DeletionToldOnce` and the refinement `EnforcesRights` |
| `sessions` | 2 requests at a time, 2 pairs of tokens that live 1 tick, 2 roles, 2 passwords | `LogoutEndsPair`, `LoggedOutIsRefused`, `ClaimsHeldLately`, `SecretsNeverReturn` |
| `startup` | 3 instances of which 2 have migrations, 3 files, 2 starts each, 2 faults, 1 change of the admin's email, accounts that take it | `AppliedOnceInOrder`, `ServesMigrated`, `ExitsOvertaken`, `AdminSeededOnce` and the refinement `ClimbsSchema`; `StartEnds` under fairness |
| `accounts` | 2 ids, 2 emails, 2 images, 3 requests at a time | `AnswersOwnRow`, `UrlHasFile`, `AvatarStays` |

**Bounds.** `TaskStore`: two requests are what a lost update needs and the third
lets a conflict loser retry against a third writer; two columns are what partial
updates that undo one another need; the sync run has enough changes for a task to
be created, edited and deleted by requests that overlap. `TaskSync`: two requests of
one device are a request given up and its repetition; two tasks are what one number
for all versions confuses; a version of 2 is one edit more than a creation. A second
device of the user acts on the first as `Elsewhere` does. `Hub`: two connections of
one user meet each other in the room, when one leaves it, and in the user's map; a Send
channel of one frame overflows with the second frame, which a capacity of 256 only delays,
and the one message is two frames for a connection in the room. Two connections that
leave rooms and two messages together are beyond TLC's reach: order and the feed, which
need several messages, are checked with one connection and three of them, a Broadcast
channel of two in which they queue while the third handler blocks, and proved for any
number of both.
`AclService`: two requests at a time are what an overtaken check needs; time is
relative, so one tick of a row's life and one of an entry's give every order
in which they can end; requests come for ever. Rows go by expiry and by
revocation. `TaskFlow` adds two deletes that race,
a share against a revocation, an update by a collaborator whose row has just gone; a
public grantee is left to the proofs. `Sessions`: two requests overlap in every way a
rotation, a logout and an update can; a second pair is what replaces a first, and
after both are used the account still changes and tokens still end; a life of one
tick tells a token that lives from one that ended, which is all the code asks. `Startup`: two instances race for each of several
files and a third serves without any; a second start is a restart. `Accounts`: two
requests race for an email or a file and the third deletes or renames between them.
Where a property is proved (section 4) the proof removes these bounds.

**Deadlock.** It is checked in `AclService`, `TaskFlow`, `Sessions` and `Accounts`. In
`TaskStore` the requests are finitely many and all end, in `TaskSync` and `Startup` so
are the sends and the starts, and in `Hub` messages are finite, a connection is used
once and the process may die: those models stop and their configurations say so.

**Fairness.** `TaskStore`: weak fairness of each request's own steps: a goroutine
that can run does, and PostgreSQL queues lock waiters. Arrivals, failures and
crashes are not assumed. `Hub`: the hub and each `readPump` are strongly fair,
because they compete for `sync.RWMutex`, which starves no waiter, and because
`select` chooses at random among ready channels; a blocked sender and `writePump`
are weakly fair; peers are not assumed to do anything. `WriterStep` is the part of
the writer that needs no luck: with a closed connection the write or the next ping
fails, with a closed channel the close frame ends it. `HandlersProceed` and
`ConnectionsEnd` allow for the death of the process, which section 5 explains.
`Startup`: weak fairness of each instance's own statements, for a process runs its
`main` and PostgreSQL wakes the waiter when the other insert commits or is rolled
back; starts, faults and requests are not assumed. The other specifications state
safety only and no fairness.

## 4 The proofs

`TaskStoreProofs` proves, for all sets of users, tasks, requests and columns and
any bound on the changes of a sync request:

| theorem | property |
|---|---|
| `TypeCorrect` | `Spec => []TypeOK` |
| `NoLostUpdate` | `Spec => []EventLogComplete` |
| `ClockCorrect` | `Spec => []ClockCountsEdits` |
| `RowCorrect` | `Spec => []RowReplaysLog` |
| `SequenceCorrect` | `Spec => []SeqFollowsVersion` |
| `Durability` | `Spec => []AckedIsDurable` |
| `DeletedOnce` | `Spec => []DeleteAckedOnce` |
| `NoDeadlock` | `Spec => []HoldersNeverWait` |
| `Refinement` | `Spec => Atomicity`: `TaskStore` implements `VersionedTasks` |

The assumptions are those of the module: `MaxChanges` is a positive number and
`None` is none of the other values.

None of the properties is inductive. The invariant `IInv` adds

- `LocksInv`: a transaction that wrote a row holds its lock, and only such
  transactions hold locks. So at most one open transaction has written a row, and
  whoever waits for a row lock waits for somebody past his last wait (`NoDeadlock`);
- `JobInv`: the row a request computed has a version at most one above the
  current one, and if it is one above, it *is* the edit of the current row. A stale
  row therefore has a version that is in the log already (`EventLogComplete`), and
  the unique constraint refuses it. A logged event keeps its version free, and its
  sequence number above those of the task, until it commits, because the lock
  keeps others from committing events of the task;
- `ChangesInv`: no event or acknowledgement names a change that was not dealt
  with yet, so that a change is logged and acknowledged once;
- the types, that the log is finite, and that an absent task has no row or event.

`Initially` and one lemma per group of actions show that `IInv` is inductive;
the commit, where all parts meet, has its own lemmas. The refinement maps a
commit (`Commit`, `CommitReplyLost`) to `Create` or `Edit` of the abstract store,
`Delete` to `Delete` and every other step to a stutter; that a commit is an edit
of the *current* row is `JobInv`.

`SessionsProofs` proves, for all sets of token pairs, roles, passwords and requests and
any lifetime of access tokens, that `TypeOK` (`TypeCorrect`), `LogoutEndsPair`
(`LogoutIsComplete`), `LoggedOutIsRefused` (`LogoutHolds`), `ClaimsHeldLately` (`ClaimsBounded`) and `SecretsNeverReturn`
(`SecretsStayGone`) are invariants. Assumed are those of the module: a lifetime is at
least one tick, and refresh tokens, password hashes and NULL are different things.
The invariant adds

- `TokenInv`: pairs that share an access token were made for the same claims in the same
  tick, so that what one has left the other has;
- `BlackInv`: the blacklist has the token of a logged-out pair for at least as long as it
  lives, which ticks, that shorten both, and restarts, that forget both, preserve;
- `AgeInv`: what a token has left and the time since its role was in force add up to
  at most one lifetime. For it a login or refresh in flight must have read a role
  that is still fresh (`SaveInv`), and the row's own role is in force while the user
  is active (`HeldInv`);
- `ServeInv`, `ReqInv`: what a request between two steps knows;
- `UsedInv`: a refresh token that is or was in the row was made before, so that a new
  one is not among those that are gone. That an update writes neither secret does
  the rest (`SecretsNeverReturn` is inductive with it);
- `PairInv`: a refresh token that was made is in the row or gone for good, a logout that
  names its own user and is between its two stores has made that of its pair go, and so
  has every such logout that succeeded. One that names another row promises nothing of
  the refresh token, and the theorem claims nothing. With `SecretsNeverReturn`, which keeps it gone, and `BlackInv` for the
  other token this is `LogoutEndsPair`: the two stores need no common transaction.

The lemmas sort the actions by what they change: only the request (`RequestStep`), a
row without a new token (`RowStep`), and one lemma for each of the others.

`HubProofs` proves, for all sets of connections, users and rooms, any number of messages
and any capacity of the channels, every safety property of the runs of `Hub`, and that
it implements `Feed`: `TypeOK` (`TypeCorrect`), `MembershipAgrees` (`MembershipKept`), `GoneIsForgotten`
(`GoneStaysForgotten`), `PanicHasCause` (`DeathHasCause`), `DeliveredInOrder`
(`OrderKept`), `RecipientsNotified` (`NobodyMissed`) and `DeliversFeed` (`HubDelivers`). It
assumes what `Hub` names: capacities are positive, `None` is no connection and no room,
and the words for a free lock and for the hub name no connection. The invariant adds

- `Places`: which connection the hub works on where, and that its `readPump` has ended
  once the hub took its Unregister, so that nothing can register it again;
- `Killers`: as long as no channel overflowed and no `LeaveRoom` overlapped another
  section on the room maps, only connections the hub has forgotten are closed, and a loop
  has none of them to go. With `GoneIsForgotten`, which empties the maps the loops start
  from, neither a send on a closed channel nor a second close is left: there is no third
  cause;
- `Crossings`: the room that `JoinRoom` tested or made is still there when it writes,
  and a room that `LeaveRoom` is about to delete is empty, unless a leave and a join of
  that room overlapped (`crossed`), which is a race. So a write into a nil map, and
  the loss of a joiner, have that cause: `PanicHasCause` and the second half of
  `MembershipAgrees`;
- `HolderInSection`, a theorem of its own (`LockNeverStuck`): `h.mu` is held by exactly the
  goroutine inside `JoinRoom`, the Unregister case or the loops. These sections wait for
  nothing, so nobody waits for the lock for good. Two goroutines in the room maps are
  therefore the holder and a `LeaveRoom`, or two of those, and one of the two entered
  while the other was inside (`Overlaps`): without a `leave_room` frame the only way to
  die is an overflow;
- `Numbered`, `Ordered`: the queue holds the messages in the order of their numbers, and
  the frames a connection was sent are sorted, with at most as many of the current
  message as it has had turns (`Stage`: 0, 1 or 2). `writePump` moves a frame from the
  channel to the socket and leaves the whole (`Stream`) as it is (`WrittenStream`);
- `Known`, `Notified`: a connection that reads is in its user's map, was dropped, or is
  just being registered, which cannot overlap with a loop; so the second loop starts
  with every connection that is owed the message, and each turn reaches its own.

For the refinement, `Apart` says that messages in the channel and in the loops differ in
their numbers, so that the abstract `open` loses exactly the message that is complete. A
turn sends because `Ordered` leaves room for one more frame of the message; the second
loop may end because `Notified` says that everyone who is owed the message was sent it,
dropped or is leaving. Each abstract action is first stated in terms of the mapped
variables; then each action of `Hub` is shown to be one of them or to leave them alone.

`AclServiceProofs` proves, for all sets of users, team members, grantees and requests,
all roles and lifetimes, `TypeOK` (`TypeCorrect`), `CacheIsCurrent` (`CacheCorrect`)
and `DecisionsJustified` (`StalenessBounded`). The invariant is

- `Computed`: what a check that nothing has overtaken has in memory is what the
  queries so far give *now*;
- `AgesCount`: for each bit of a cache entry, `age + left <= CacheTTL`. This is the
  argument for the staleness bound: a tick adds one to the first and takes one off the
  second, a save starts with age 0 (`Recent`: the bits in memory were in force when
  the check began, and no tick passes while it runs), and a trigger only empties;
- `Justified`, `Asks`: what a request was let through on, and for what.

`RightsEnforced` is the refinement of `Rights`. The steps fall into those that leave the
mapped variables alone (all statements of a check but the last), those that let a request
through or end it, those that write rows, the delete, and `Tick`. The decision is permitted
by `Justified`, or by `Asks` and a task that is not deleted for its owner; a sync is let
through as what it is, unchecked, and `DecisionsJustified` does not speak of it; a write by a
request in `writing` may change what anyone holds, and holding resets the age; a row
whose last tick goes by is no longer effective, so time only takes permissions away.
`Cleanup` removes rows that give nothing any more.

`TaskFlowProofs` first shows that each step of `TaskFlow` is one of `AclService` or
none (`FlowRefinesAcl`), which carries `DecisionsJustified` over to the handlers
(`HandlersJustified`), and `EnforcesRights` with it (`HandlersEnforceRights`). With `Tidy`, which says what messages a request at each
statement can hold, `SharesAnnounced` (`NoShareForgotten`) and `DeletionToldOnce`
(`NoFalseDeletion`) are inductive: a row is written with its announcement in the hands of
the same request or recorded as owed, and the soft delete lets one of any number of
deletes go on to `notify`. The theorems cover public grantees, which the run leaves out.

`TaskSyncProofs` proves, for all sets of users, devices, tasks and requests at a time and
any bounds, `TypeOK`, `MissedOnlyBelow` (`PullComplete`), `RetriesAccounted`
(`RetriesBounded`), `FullCountIsTrue` (`CountsTrue`) and the action property
`CopiesAdvance` (`CopiesNeverGoBack`). The invariant adds

- `Budget`: for each change, how often it took effect, in full or in part, and how many
  requests still have to execute it are together at most the number of requests that
  carried it. A send that carries it adds one on both sides, an execution moves one from
  the second to the first. The requests that wait to
  execute a change are a finite set, whatever `Requests` is;
- `Consistent`, `Numbered`: what a request has left to do is the end of what was sent,
  and a queue is the last changes made, so no request has a change twice;
- `Credited`: if the count is as high as it can be, every change so far took effect, in
  full or, if its payload does not fit, in part, or is of unknown type;
- `Answered`, `Awaited`, `Stored`: an answer is a part of what the store had, all that
  was selected unless it was cut, and the
  request a device waits for asked with what the device has seen. An answer given up
  is not awaited, which is why `CopiesAdvance` holds.

`StartupProofs` proves, for any number of instances, files, starts, faults and renames,
`TypeOK`, `AppliedOnceInOrder` (`MigrationsInOrder`), `ServesMigrated` (`SchemaComplete`),
`ExitsOvertaken` (`ExitsJustified`) and `AdminSeededOnce` (`OneAdmin`). `Progress` says
that no instance is more than one file ahead of the table and that at most one holds
an inserted version; `OvertakenInv` that whatever will make an instance exit happened
after its start; `SeedInv` that each account that ever had the admin's email,
seeded or not, but the one that has it now was renamed. `SchemaClimbs` is the refinement of `Schema`;
`ClimbInv` adds that an instance about to insert the admin has seen the table of the
users, and that only one with migrations goes through them. A commit raises the level by
one because `Progress` lets nobody be ahead of the table by more than its file.

`AccountsProofs` proves, for any number of accounts, emails, images and requests,
`TypeOK`, `AnswersOwnRow` (`CreateAnswersOwn`),
`UrlHasFile` (`NoDanglingUrl`) and `AvatarStays` (`AvatarHolds`). `Grounded` says what a
request has found or written so far and is still there (with `EmailsUnique`, which the
constraint of the column keeps, the query by email finds at most one row), `Undisturbed` that nobody writes
the file of an upload that runs alone.

All these theorems rest only on the named assumptions of the modules, which TLC
evaluates for the values of each run: bounds are numbers, and the special values are not
among the ordinary ones.

Only model-checked: all liveness (`EveryRequestEnds`,
`HandlersProceed`, `ConnectionsEnd`, `StartEnds`), which is out of this prover's reach,
as is ENABLED. `TypeOK` is proved of every module and not among the
properties of the runs, which go to what could be wrong.

## 5 What the models found

Two statements of the repository are refuted by runs:

- `sync_pull`: `ListChanges` is to return "tarefas novas ou atualizadas por outros
  dispositivos" (`tasks/repository.go:270`). It compares the version of each task with
  the one number the device sent, so a task created after the last pull, with version 1,
  is not in the answer once the device has seen any task as high as that.
  `MissedOnlyBelow` says exactly what is lost.
- `sync_access`: "A permissão já foi validada pelo middleware RequireOwnerOrShared"
  (`tasks/service.go:112-114`, and alike `repository.go:165-167,192-194`) holds of
  `PUT` and `DELETE /tasks/{id}`. `POST /tasks/sync` (`tasks/routes.go:35`) has no such
  middleware, and `ProcessSync` calls the same `UpdateTask` and `DeleteTask`
  (`service.go:183,187`) with the task ids of the request. What `DecisionsJustified` and
  `EnforcesRights` promise, they promise of the routes that check.

Eight more can be reproduced with the configurations that no run uses, each of one
property that TLC finds violated:

- `HubOverflow.cfg` (`NotificationNeverKills`, module `MCHub`): a client that does not
  drain its frames has its Send channel closed and is removed from one of the two maps
  only. The next message, or its own Unregister, panics the hub goroutine and ends the
  process (`hub.go:97,109-111,132-134`). `PanicHasCause` shows that there is no other
  cause but the next one;
- `HubLeaveRace.cfg` (`RoomsGuarded`, `MCHub`): `readPump` runs `LeaveRoom` without the
  lock (`websocket_handler.go:172`); everywhere else the lock guards the maps
  (`LockNeverStuck`). Besides an abort by the runtime, it can delete the room between
  `JoinRoom`'s test and its write, which is then a write into a nil map
  (`hub.go:154-157`), or together with whoever joined after the count, who stays
  recorded in `client.Rooms` only (`MembershipAgrees`);
- `AclStaleFill.cfg` (`ChangeInvalidates`, `MCAclService`): a check that computes before
  a change and saves after it leaves in the cache permissions that no row gives.
  `DecisionsJustified` bounds the damage: no decision rests on a permission lost more
  than one entry lifetime ago; and `CacheIsCurrent` shows that this race and expiry are
  the only ways;
- `AclPublicRows.cfg` (`OneRowPerGrantee`, `MCAclService`): `grantee_id` is NULL in
  public rows, `ON CONFLICT` never matches, rows pile up and a smaller second grant
  takes nothing away;
- `SessionsDeactivate.cfg` (`DeactivationSticks`, `MCSessions`): `users.Service.Update`
  writes every profile column back as it read it, `is_active` included, so that a
  deactivation that commits between its two statements is undone
  (`users/service.go:106`, `users/repository.go:111`);
- `SessionsLogout.cfg` (`LogoutClearsToken`, `MCSessions`): the first thing a logout does
  is "Limpar Refresh Token no Banco" (`auth/service.go:142`), in the row that the header
  `X-User-ID` names. The route has no `AuthMiddleware` (`auth/routes.go:31`), and the
  number of rows is not asked: with an id that is not that of the token's user, or that no
  row has, the answer is 200 and the refresh token of the pair stays. Without
  the header, or with one that is no number, PostgreSQL refuses the statement and
  the logout fails;
- `StartupEmail.cfg` (`AdminExists`, `MCStartup`): an account that took the admin's email
  before the seed is taken for him, "Super Admin já existe" (`main.go:182`), and the
  server starts without an admin. `AdminSeededOnce` counts the two together;
- `TaskNotify.cfg` (`CollaboratorsTold`, `MCTaskFlow`): `GetACL` selects eleven columns
  and scans nine (`acl/repository.go:81`), so `ListRecipients` fails once a task is
  shared and its collaborators are told of no change.

Seen while reading, in the models but without a run of their own: a cache entry
lives an hour whatever `expires_at` says (`acl/repository.go:213`); a sync change
of unknown type is counted as processed (`service.go:190`), and so is one whose payload
does not fit and runs with what was decoded (`service.go:173,182`); a pull whose rows end
in an error answers with those before it (`repository.go:291`), which the next whole
answer makes good unless their versions are hidden by then; an update that read a
task before its deletion still writes the deleted row, but does not revive it
(`repository.go:237`); `Share` with a public target dies on a nil pointer after
committing that target (`acl/service.go:97`). A refresh token ends with the cookie
after seven days, not on the server (`auth/handler.go:50` wants the two to match). Two
refreshes with one token that overlap both succeed, and the successor that was stored
first is dead when its client uses it. A refresh in flight during a logout stores its
token after the logout cleared the column. Two logins in one
second have one access token, and a login in the second of a logout gets one that is
blacklisted. What logout does promise, `LogoutEndsPair` and `LoggedOutIsRefused` state: the
refresh token goes if the request names the row of the token's own user, and the access
token is refused unless Redis errs or restarts. A create answers
with the row it finds by email, which is another one if the email changed hands in
between (`users/service.go:59`). An instance that loses the race for a migration
exits instead of going on (`main.go:55`), which a restart mends (`ExitsOvertaken`).

## 6 What is not modelled

- The rate limiter. Its three methods are one Redis command each; the sliding window,
  which is the logic, is `httprate`'s, and `Get` returns the window length where that
  expects a count (`ratelimit/redis.go:79`): a property of a library's arithmetic on
  a value that is known from reading.
- Snowflake ids are distinct values; the generator is a library and its node number
  a constant, so that two processes would need distinct nodes.
- Configuration, router, security headers, static files, generated API documentation:
  no state after start-up. `Startup` assumes that an admin email is configured.
- Contents, JSON (but for payloads that do not fit, in `TaskSync`), validation messages, formatting, HTTP status codes.
- Lists and reads (`GET` routes), which change nothing.
- The Redis subscription of the hub is one more sender on Broadcast; nothing in
  this server publishes to it.
- In `Sessions`: who may call which route, the claims other than the role, and
  `last_login_at`, which nothing reads.
- In `TaskSync`: contents of the tasks, so that what a device shows after a conflict is
  known by its version only.

## 7 Plan

In the order in which they were worth having:

1. done: `VersionedTasks`, `TaskStore`, `TaskStoreProofs`;
2. done: `Feed`, `Hub`, `HubProofs`;
3. done: `Rights`, `AclService`, `AclServiceProofs`;
4. done: `TaskFlow`, `TaskFlowProofs`;
5. done: `TaskSync`, `TaskSyncProofs`;
6. done: `Sessions`, `SessionsProofs`;
7. done: `Accounts`, `AccountsProofs`;
8. done: `Schema`, `Startup`, `StartupProofs`.

Left: the composition of `TaskFlow` with `Hub`, in which the messages one sends
are those the other delivers, whose product is beyond TLC's reach with more than one
connection and would have to be proved.
