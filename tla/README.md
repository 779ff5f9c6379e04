# A TLA+ model of the Multicast & Broadcast Control Panel

The panel streams television channels: each channel is one FFmpeg process that a
worker supervises, an API configures and commands the channels, a scheduler
starts and stops them, and a PostgreSQL database and Redis pub/sub lie between
them. These modules model the part of `src/backend/src` that carries that logic,
check it with TLC on small instances, and prove its central safety properties
with TLAPS for instances of any size.

Paths below are relative to `src/backend/src` unless they say otherwise.

## 1. The system

### Processes and what lies between them

    clients --HTTP--> API --------- mcp:cmd (Redis pub/sub) --------> worker --> FFmpeg children
                       |  scheduler ------^                             |
                       +----------------- PostgreSQL <------------------+
                                          web sockets <-- mcp:status, mcp:log, mcp:metrics

| process | entry | state it keeps | what it does to the others |
|---|---|---|---|
| API | `main.ts` | none in memory but requests in flight | writes channels, outputs, playlists, users, licence; publishes commands; marks a channel `starting` |
| worker | `worker.main.ts` | the `streams` map, timers, coroutines in flight | spawns and kills FFmpeg; writes `stream_processes.state` and `channels.status` |
| scheduler | `scheduler.main.ts` | none | every minute reads the channels and publishes `start`/`stop`; backs up and prunes |
| FFmpeg children | spawned | alive, ended, never started | `exit` and `error` events to the worker |
| PostgreSQL | external | all tables | foreign keys with cascade, unique `stream_processes.channel_id`, no unique UDP target |
| Redis | external | nothing | delivers in order, to those who are subscribed at that moment |

No handler of the repository runs in a database transaction of its own. What
makes the system hard is therefore the same everywhere: a handler reads, awaits,
and acts on what it has read.

### Components

| component | state | operations | hard part | what makes it correct | module |
|---|---|---|---|---|---|
| Stream supervisor (`worker/stream-supervisor.service.ts`) | `streams`, per child `manualStop`, `restartCount`, kill timer; both rows of a channel | `start`, `stop`, `startWithCount`, `onExit`, `updateState`, watchdog, bootstrap, shutdown | every `await` is a point where exits, commands and timers run; crash and recovery | one child per channel that the map can find; rows agree with the map; stops complete; the restart limit; recovery | `StreamSupervisor`, `StreamLifecycle` |
| Stream endpoints, scheduler tick, playlist restart, Redis | requests in flight, messages on the way | `start`, `stop`, `kill`, `restart`, `checkSchedules`, `restartChannelsUsing`, `sendCommand` | commands lost while the worker is away; status marked before the command | a marked start is answered | `StreamControl` |
| Channel registry, sample seed, import against other requests | `channels`, `channel_outputs` | `create`, `update`, `remove`, `import`, `seedSampleChannels` | check-then-insert without a unique index; whole-row write-back; outputs rewritten row by row; API crash in the middle | UDP targets distinct; outputs as asked; status untouched by an edit; the limit | `ChannelRegistry` |
| Authentication: credentials (`modules/auth/auth.service.ts`) | the user's row, keys in Redis, requests in flight | `login`, `verifyMfa`, MFA enrolment, password reset and change, `UsersService.update` | the failure counter and whole-row saves of old copies | password, codes, counter and lock survive what runs beside them | `Login` |
| Authentication: sessions (`auth.service.ts`, `frontend/src/api/client.js`, `stores/auth.js`) | `refresh:<jti>` keys, the cookie and `localStorage` of a browser, tabs and their calls | `refresh`, `completeLogin`, `logout`, the 401 interceptor, `fetchMe` | tabs share one cookie and rotate it; answers get lost; tokens expire | no stray refresh token; a tab never takes the session from itself; after a logout the browser has nothing left to get an access token with | `Sessions` |
| Access rules (`modules/auth/guards.ts`, `permissions`, `streams.controller.ts`, `main.ts`, `router/index.js`) | none | allowlist, permission guard, page and menu rules, link tokens | 32-bit shifts; rules kept in two places | the prefix blocks and admits exactly its network; pages load what they show; a link opens its channel for its time | `AccessRules`, `StreamTokens` |
| Users, roles, installer, seeder | users, roles, `installed` | `create`, `update`, `remove`, role edits, `install`, every start's seed | "last one" and "is installed" are read before they are written; a crash at any query | edits kept, one super admin, one installation | `Accounts` |
| Video library and playlists | files on disk, `video_files`, `playlist_items`, concat files | upload, import, rename, edit, remove, playlist save, start of a channel | disk and row change in two steps; items are deleted and inserted one at a time while channels start | a row leads to its file; items as saved; a running channel plays them | `MediaLibrary` |
| FFmpeg arguments (`modules/ffmpeg/ffmpeg-builder.ts`), channel editor | none | `buildFfmpegArgs`, `buildVlcArgs`, the edit form and its merge | one command is built in several places, forms send a part of the fields | other outputs change nothing for UDP; saving unchanged changes nothing | `StreamArgs` |
| M3U (`modules/m3u`) | none | `parseM3u`, `nextTarget`, export | carries of the address walk, attributes that linger between lines | entries follow the lines; the walk takes the free addresses in order; export and import agree | `M3uFormat` |
| Licence (`modules/license`) | one row | `activate`, `current`, `maxChannels` | every reader may save the status it has re-evaluated | the limit is that of the key activated last | `Licensing` |
| Live status (`worker`, `events.gateway.ts`, `socket.js`, `ChannelsPage.vue`) | a room per page, events on the way, the page's list | write, publish, relay, subscribe, list, merge | events and lists overtake each other; connections break | a page at rest shows the row's status, or it is known why not | `LivePanel` |
| Backups (`modules/backups`) | rows, files, rows inside the dumps | `create`, `prune`, `remove`, `restore`, retention | overlapping dumps, failures and crashes; a restore rewrites the very table | what is offered is complete; the last good dump stays | `Backups` |
| Alerts (`worker/metrics.service.ts`, `modules/alerts`) | `lastAlertAt`, alerts on the way, notifications | sample, thresholds, publish, dispatch | samples overlap; both processes restart | one alert per kind and cooldown | `Alerts` |
| EPG (`modules/epg`) | `epg_channels`, `epg_programs` | `importXmltv`, `upsertChannel`, `removeChannel` | saved row by row beside other imports and deletions | an answered import is in the guide | `Epg` |
| Settings, audit, stream logs, monitoring, nodes; API tokens; HTTP shell, mail; most pages; deployment | single rows, or none | queries, single-row writes, forwarding, formatting | - | - | not modelled |

## 2. Modules

| module | what it is |
|---|---|
| `StreamSupervisor` | the worker with its children and the two rows of each channel |
| `StreamLifecycle` | what the worker promises about a channel, in five phases and a counter; `StreamSupervisor` implements it under the mapping `PhaseOf`/`autoRuns` |
| `StreamControl` | EXTENDS `StreamSupervisor`: the commands come from handlers through an inbox |
| `ChannelRegistry` | the channels table and its outputs under the API's handlers, and the worker's status writes |
| `Login` | the credentials of one account under overlapping requests |
| `Sessions` | the tabs of one browser and the refresh tokens of its user |
| `Accounts` | users and roles, the installer and the seeder |
| `MediaLibrary` | the disk, the library, one playlist and the channels that play it |
| `AccessRules`, `StreamTokens`, `M3uFormat`, `StreamArgs` | pure functions with the inputs they are checked on; all EXTEND `RuleInput`, which declares the input |
| `Licensing`, `LivePanel`, `Backups`, `Alerts`, `Epg` | small machines of one component each |
| `MC*` | constants and symmetry for TLC; `MCRules` puts the pure functions and the small machines, which share nothing, in one run |
| `*Proofs` | the theorems: one module per component, that of `StreamControl` included in the supervisor's; `OperationsProofs` has those of the small machines, `RulesProofs` those of the pure functions |

Operators that end in a longer name next to the operator they vary
(`BeginStartUnchecked`, `EditedAll`, `RevokedNot`, ...) are faults: putting one in
the place of the original must break the property `PROJECT.json` lists with it.
They occur in no specification.

### StreamSupervisor and the code

Node runs one callback at a time, so *the code between two awaits is one
action*. A suspended coroutine is a member of `job`; its `pc` names the await:

| `pc` | await in `stream-supervisor.service.ts` | next action |
|---|---|---|
| `load` | `channels.findOne` of `start` (132) | `Load` |
| `build` | YouTube address, settings, concat file, directory (135-161) | `Spawn`, `SpawnFails`, `BuildFails` |
| `prev` | `processes.findOne` of a kept restart (174) | `RegisterKept` |
| `findRow`, `saveRow`, `saveStatus` | the three queries of `updateState` (333-338) | `FindRow`, `SaveRow`/`SaveRowFails`, `SaveStatus` |
| `setCount` | the end of `startWithCount`'s `start` (272) | `SetCount` |
| `exitFind` | `channels.findOne` of `onExit` (221) | `ExitFind` |
| `backoff` | not an await: the armed backoff timer (263) | `BackoffFires` |
| `watchKill` | the awaits of `watchdogTick` before the kill (320-325) | `WatchdogKill` |

`kind` says on whose behalf the coroutine runs and so what follows
`updateState` (`AfterUpdate`) or an exception (`Throw`). `streams`, `manual`,
`count`, `killTimer` are the map and the fields of `ManagedStream`; `osState`
is what the operating system knows of a child ("exited" until the `exit` event
is handled, "failed" for a binary that could not be executed). When the worker
process ends its container ends too, so `WorkerGone` forgets everything but the
database; rejections that nobody awaits (`SaveRowFails` of an exit) end it as
well, as Node does.

Merged into the step before: awaits of log lines, alerts and progress figures.
They change nothing that is modelled and every other callback can run before or
after them. Only one-line facts about time are used: a kill timer and a backoff
timer fire some time later. `restartDelay`, the two minutes of the watchdog and
the cron minutes have no numbers here.

History variables of the two rows and of recovery: `split` has the channels whose
last `updateState` met another one between its two writes, was cut off there by
the end of the worker, or was followed by the API's `starting` mark; only then,
and while an `updateState` is between its writes (`HalfWritten`), may
`stream_processes.state` and `channels.status` differ. `servedAtDown` has the
channels the worker owed a child when it was lost (`Serves`): one the bootstrap
had still to start, a child nobody asked to stop, an exit not decided yet, a
restart announced or begun. That is said of the map and the coroutines, not of
the status, so `RecoversRunning` relates what the worker was doing to what it had
written: at each await of an exit, a backoff and a restart, the rows must already,
or still, tell the next bootstrap. A start a client asked for that has not written
`running` rests on the API's mark and is the business of `StartAnswered`.

### StreamControl and the code

`requests` are handlers between their reads and their publish (step `mark`:
before `channels.update({status: 'starting'})`; step `send`: before
`redis.publish`). `inbox` is `mcp:cmd`: in order, empty for a worker that is
down. `Deliver` hands the next command to the very actions of the supervisor;
`WorkerStep` is every other step of it.

### ChannelRegistry and the code

One action per query. A request in flight (`req`) keeps what it has read: the
limit, the status of the row, the targets in use. `SaveChannel` writes back the
row as `update()` read it, and inserts it again if it has been deleted, as
TypeORM's `save` does with an entity that has an id. `ImportEntry` takes any
target that is not in its snapshot: which one `nextTarget()` finds is the
business of `M3uFormat`. The seed runs before the API listens (`api = "seeding"`). Rejected
requests (`validateSource`, DTO validation) change nothing and do not occur.
The licence is a limit that may change between any two steps (how it comes about
is in `Licensing`). The columns that
no property tells apart, and the row of `m3u_imports`, are left out.

History variables record when a property may not hold, and why: `contested`
(targets two requests could take at once), `tangled` (channels whose requests
overlapped, or were cut off by a crash), `stale` (status written between the
read and the save of an edit), and `alone` of a create (no insert since its
count). Each property thus says *exactly under which overlap* the unguarded
check-then-act of the code fails, and that it fails under no other.

### The other modules and the code

They follow the same rule: one action per await, a request keeps what it has
read, and what it then writes is what the code writes from it.

* `Login`: `req[r].row` is the user a handler has read. `save()` writes all
  columns it has read (`SpendCode`, and `EditSave`, which has not selected
  password, secret and codes: `Edited`); `update()` writes those it names
  (`CountFailure`, `PasswordWrite`). `blurred` names the columns of which an
  older copy was still to be written when somebody else changed them. A hash
  stands for its password, a TOTP code for its secret, time for `LockEnds` and
  `Expires`.
* `Sessions`: pairs of tokens are numbered as issued. `live` are the keys in
  Redis, `cookie` and `stored` what the tabs of a browser share, `tab[t]` what
  each has for itself, `call[c]` one HTTP call of a tab with the refresh it may
  cause. `Refreshing` is the promise `refreshing` of `client.js`; `IssuePair`,
  `VerifyKey` and `DeleteKey` are the three Redis accesses of a rotation. Calls
  that the guard lets through change nothing and do not occur. `left` are good
  tokens the browser has lost or replaced, `taken` who used up the token in the
  cookie (tabs, or `None` where a logout or time did), `ended` that a logout was
  answered.
* `Accounts`: a form is open from its GET to its PUT (`OpenForm`, `PutUser`),
  because it sends back all fields. `SaveUser` writes the row as `update()` has
  merged it. The seeder runs at each start of the API and by hand, and may die
  at any query. `stale` are users with two forms or requests at work; `alone`
  says that nobody else changed the users since a request has counted them.
* `MediaLibrary`: a file is known by its content, which a rename moves along, so
  that "the row leads to its file" can be said. `Sortings` is the stable sort by
  position, said as the reorderings that are sorted; `Remains` are the lists that
  deleting videos may leave of a list, with the deleted ones marked in their
  places. A PUT without items, which the panel never sends, saves the row and goes
  straight to the answer (`PutFields`, `SaveFields`, `FieldsEnd`); it counts as a
  save for what a channel plays (`Saving`) but not for the items (`Listing`).
  `Orders` gives what `writeConcatFile` may make of the items it has read
  in each mode. `Form` is
  what the playlist editor sends, items with their positions. The
  supervisor is reduced to what playing needs (`StreamSupervisor` has the rest).
* `AccessRules`, `StreamTokens`, `M3uFormat`, `StreamArgs`: functions, and reference definitions
  that do not look like them: a prefix as equal leading bits, the walk as "the
  first free addresses after the base", an import as what lists mean line by
  line, the command as fields that the two builders must agree on. The walk has
  two octets that wrap and one that does not, as the code. An address of the
  allowlist is its bits: `Shl` is `<<` with the count modulo the width, and `Plus`
  adds an octet to a number that has just been shifted by one. The loops
  (`Parsing`, `Walk`, `Exporting`) are recursive functions whose value at `n` is
  what the loop has after `n` turns; `FirstFree` is the endless loop of
  `nextTarget()`, a function of the address it is at. `Loaded`, `addOutput`
  and `SavedFrom` are the channel editor: its form, what it adds, what it sends.
* `Licensing`: `save()` of TypeORM is two queries, a read of the row and an
  update of the columns that differ; both are actions here because a stale
  status meets an activation just there. Of a key `verifyKey` keeps the first
  check it fails.
* `LivePanel`: the row, the event, the relay, the socket and the page of one
  channel. The worker may write any state at any time, and may be lost at any
  time, so that the event of a write is never published (`WorkerLost`); Redis may
  refuse or lose one (`PublishLost`); and the row is written without an event by
  `POST /start` (`ApiStarts`), by `PUT /channels`, which saves the status it has
  read, and by a restored backup (`WriteBack`). `why` collects what may have put
  the page out of date, five kinds in all (`silent`, `lost`, `crossed`, `missed`,
  `overtaken`), and is cleared when the page agrees again at rest.
* `Backups`: backups are numbered by `createdAt`. `dumped[b]` is what the table
  of backups said when dump `b` began, because a restore brings exactly that
  back. `keepCount` is not validated: a negative one makes `slice()` take that
  many of the oldest rows (`Surplus`). The `save()` of a good dump may fail,
  which makes it `failed`, and so may that of the failure (`SaveFails`).
  `excused` says that the last good dump may have been lost on request or by an
  overlap.
* `Alerts`: a sample is `idle`, at its checks or publishing; `lastAlertAt` is
  noted in the step that publishes, before the await. `relay` is `mcp:alert`,
  unordered, and lost when the API is away.
* `Epg`: `channels` and `shows` of an import are what is left of its file.

## 3. Runs

| run | instance | what it shows |
|---|---|---|
| `supervisor_free` | 1 channel, 2 children, 2 coroutines, commands at any time, early exits, crashes and shutdowns of the worker, failing sources | `SingleStream`, `RowsAgree` |
| `supervisor_serial` | 2 channels that differ in autoStart/autoRestart, limit 1, crashes of children and worker, spawn errors | `RestartLimit`, `StatusAgrees`, `RecoversRunning`, `RestartingEnds`, refinement of `StreamLifecycle` (`KeepsLifecycle`) |
| `supervisor_stop` | 1 channel, limit 2, exits, stalls, failing sources, deletion | `StopCompletes` |
| `stream_control` | 1 channel, 1 request, 1 message, crashes and shutdowns of the worker | `StartAnswered` |
| `one_process` | the smallest instance | the finding of section 6 |
| `registry_targets` | 2 channels, 2 targets, 2 requests, 1 sample, limit 0 or 1, imports of 1-2 entries | `TargetsDistinct`, `LimitKept` |
| `registry_rows` | 1 channel, 2 targets, 2 requests, status writes, empty and non-empty output lists | `OutputsAsAsked`, `StatusKept` |
| `login` | 2 requests, 2 passwords, a code, a reset token, limit 2 | `PasswordKept`, `CodesSpent`, `FailuresCounted`, `LockStays` |
| `accounts` | 2 users, 2 emails, 1 role beside the system's, 2 requests, crashes | `EditsKept`, `SuperRemains`, `InstalledOnce` |
| `sessions` | 2 tabs, 3 calls, 3 pairs of tokens, 1 lost answer or disabling, any expiries | `NoStrayTokens`, `LogoutLasts` (with `LogoutEnds`), `SessionKept` |
| `media` | 2 videos, 2 paths, 1 channel, 2 requests at a time and 4 in all, 2 lists, 2 modes, 1 crash | `FilesBacked`, `ItemsAsSaved`, `PlaysSaved` |
| `rules` | every listed input of the pure functions; the five small machines | `AllowlistBlocks`, `PagesServed`, `LinksOpen`, `EntriesFollowLines`, `TargetsWalk`, `RoundTrip`, `SameMulticast`, `EditKeepsCommand`, `LimitFollowsKey`, `PanelAgrees`, `DoneIsComplete`, `LastGoodKept`, `AlertsSpaced`, `GuideHolds` |

The type invariants and inductive invariants are theorems (section 4) and are not
checked a second time.

### Bounds and why they are enough

* `Procs`: handles are reused once forgotten, so two allow an old and a new
  child of a channel to exist together, which is all that the properties relate.
* `Jobs`: callbacks in flight. Two give every pair of overlapping coroutines. A
  command or an exit waits for a slot; that is the reason for strong fairness of
  `OnExit` and `Deliver` and for nothing else.
* `CountCap`: a restart counter saturates there; it is at least `RestartMax`.
* `Events`: which faults of the environment occur in a run. No run has all of
  them; each property is checked with those that bear on it.
* `Serial`: clients, stalls and shutdowns meet channels with nothing in flight.
  It separates what fails only under impatient clients (explored freely in
  `supervisor_free` and `one_process`) from what must hold in ordinary use.
  It does not restrict exits of children and crashes of the worker. A child that
  is not asked to end does so once its start has settled (`exit`) or at any
  moment (`quickExit`).
* `RequestMax`, `InboxMax`, `Playlists`: requests, messages and playlists.
* `EntryMax`, `OutputChoices`, `Statuses`, `Limits`: inputs of the registry. A
  client sends each output type at most once.
* `Requests` (registry, login, accounts, media): two give every overlap of two
  handlers. More at once are covered by the proofs for the targets, the account
  and the users.
* `Login`: `MaxFailed = 2` has a failure that counts and one that locks; two
  passwords tell an old from a new one. `Accounts`: one role beside the system's
  super admin, two emails, of which one is the seeder's.
* `Sessions`: three calls in two tabs have one call wait for the refresh of
  another beside a second tab; three pairs are a login and two rotations. A call
  that needs a fourth pair counts as lost. `MaxFaults` bounds lost answers and
  disablings together.
* `MediaLibrary`: two paths let a rename run onto an existing name; the two
  lists have two entries each, one of them an entry that is no file, and the
  editor may send either in any order with the positions it shows.
* Pure functions: addresses of two octets of two bits, which have every prefix
  length from 0 to the width and the sign bit; walks over octets that end at 2,
  across every carry, with every set of used addresses; M3U files of up to four
  lines; lists of up to two channels; up to two outputs of a channel, and its
  options one by one and all at once.
* The small machines: `DayMax` reaches past the latest expiry and its grace;
  `WireMax` two events on their way; `BackupMax` three backups, two at once
  (`ActiveMax`), a `keepCount` of 1, 0 or -1, one fault and one request;
  `ClockMax` as long as the cooldown, one restart (`LifeMax`), one alert on
  its way (`AlertMax`); `EpgRowMax` and `RemovalMax` rows and deletions, with
  files that declare channels, name undeclared ones and hold unreadable dates.
  All five machines are proved for any bounds.

Deadlock is checked in every run but `rules`, whose machines stop at their
bounds: a worker that waits can always be sent a command, an API a request.

### Fairness

Weak fairness of each job step, timer and kill: Node runs every callback that is
due, every query returns, and the operating system ends a child after SIGKILL.
Weak fairness of `Boot` and `WorkerExits`: the container has
`restart: unless-stopped` (`src/docker-compose.yml:70`). `OnExit` and `Deliver`
have strong fairness because they wait for a job slot, a bound of the model that
Node does not have. A child owes no exit, neither by itself nor on SIGTERM;
clients owe no command. The two properties that begin with
`<>[](worker = "up")` speak of a worker that eventually stays up. All other
modules have safety properties only.

## 4. What is proved

All theorems are checked by TLAPS for any values of the constants that satisfy
the assumption each module names (sets, bounds, and that `None` is no channel,
child, state, target, password ...). The proof of a module needs an inductive
invariant, since the properties see only the state they are about, not what the
requests in flight still hold.

**`StreamSupervisorProofs`, for every client.** `TypeCorrect`,
`ChildrenAccounted`, `SingleStreamHolds`. *Unless two starts of a channel
overlap, it has at most one child, and the worker can find it.* Job records carry
an obligation of their own (`JobOK`): a job in `updateState` knows the state it
writes, a job about a child knows the child. `SingleStream` does not see that the
start in flight is the only one, nor that the map is empty meanwhile;
`Accounted(c)` adds both and that a held child is the entry or the one just
spawned. `overlapped` records the starts that overlap, and only these may break
it. The proof has a frame lemma (`Quiet`) for the steps that touch neither map,
children nor starts, and one lemma for each step that does.
`RowsHoldOneState`. *The two rows of a channel are equal, except while an
`updateState` is between its two writes or where `split` has the channel*, for
crashes, failed saves, deletions and overlapping updates at any moment; `RowsInv`
adds what the update between its writes is about to make equal.

**`StreamSupervisorProofs`, for clients that wait.** The other properties fail
when clients act while a channel is in flight (section 5), so the theorems have
the hypothesis of the runs that check them:
`Settling == Serial /\ "quickExit" \notin Events`. `SerialInvHolds`: each channel
has one job at most (`JobsAlone`), each child is the entry of its channel or about
to be, or on its way out (`ChildrenKnown`), and a job is where its kind may be and
knows the entry it is about (`Placed`, `Knows`, `Fits`). On it rest

* `RestartsStayLimited`. *No more automatic restarts than `restart_max`.* The
  number of restarts is handed from the entry to `onExit`, to the backoff, to the
  start and back to the entry; `LimitInv` says that nowhere on its way it is less
  than the restarts made.
* `StatusFollowsMap`. *At rest the status agrees with the map, and of a channel with
  an entry the process row does too*, across crashes between the two writes and
  shutdowns. It needs `"badBuild" \notin Events` besides: a bootstrap start whose
  command cannot be built leaves the status it found.
* `KeepsThePromise`. *Every step of the supervisor is a step of `StreamLifecycle`
  or none, under `PhaseOf` and `autoRuns`*: it implements the abstract
  specification, for any number of channels, with crashes and deletions. Stalls
  are out, because the watchdog clears `manualStop` of a child that is being
  stopped, and orderly shutdowns, because one step stops every channel at once.
* `RecoversAll`. *Whatever the worker was doing for a channel when it was lost, the
  next bootstrap takes the channel up, if it is not deleted.* It needs no orderly
  shutdown besides. `OwedInv` says that the rows of a channel the worker serves
  are ones the bootstrap looks for, at each await: an exit has not touched them
  before it is decided, a backoff has written `restarting` before its timer is
  armed, and a restart keeps it until `running` is written. `AwayInv` carries this
  over to the bootstrap.

**`StreamSupervisorProofs`, with the API and the scheduler as clients.**
`ControlTypeCorrect`, `ControlSingleStream`: the first part for the composition
`StreamControl`. Its steps are either steps of the supervisor or change
the database, requests and inbox only; a delivered command is one the supervisor
expects at any time.

**`ChannelRegistryProofs`.** `RegistryTypeCorrect`, `TargetsInvHolds`,
`TargetsStayDistinct`. *Two channels share a UDP target only if two requests that
overlapped were each about to take it.* The invariant adds that each target
outside `contested` is held by one request (`DoublyHeld \subseteq contested`) and
is then no other channel's, and where a request may be (`WellPlaced`). The proof
sorts the steps in three: a request that comes to hold a target (`GoHolding`),
one that saves it (`Taken`), and all others (`NothingTaken`).
`RowsInvHolds`, `EditKeepsStatus`, `OutputsAreSaved`, `CreateKeepsLimit`: *an edit
leaves the status, a channel has the outputs last asked for, each once, and a
create does not exceed the limit it has read*, where nobody was in between.
`RowsInv` is three invariants: an edit of a channel that is not `stale` has read
the status that was last written (`StatusInv`); two requests for one channel make
it `tangled`, and one alone has inserted just the outputs it has not to insert any
more (`OutputsInv`); for a create that is alone there is room below the limit
(`LimitInv`).

**`LoginProofs`.** `LoginInvHolds`, `LoginTypeCorrect`, `PasswordStaysKept`,
`CodesStaySpent`, `FailuresStayCounted`, `LocksStay`. *What one request writes to
an account survives the others, outside the columns in `blurred`.* The invariant
says of each request that its copy agrees with the row in the columns it will
write back (`Carries`), unless these are blurred (`Faithful`). A step either
reads (`ReadOnly`) or writes columns of which every other request's copy becomes
blurred (`Fresh`).

**`SessionsProofs`.** `SessionsInvHolds`, `TokensAccountedFor`, `LogoutIsFinal`,
`LogoutIsKept`, `CallsKeepTheSession`. *A good refresh token is the cookie's, on its
way in one call, or known to be left behind; after a logout no other is good, the
cookie and the stored token are gone, and no tab comes to an access token or a page of
the panel again before the next login; the calls of a tab do not take the session from
each other.* The invariant follows a pair of tokens: it
is good and known to the one call that waits for it (`OneCall`, `OwnPair`), a tab
has one refresh at a time (`OneRefresh`, the promise `refreshing` of `client.js`),
so a cookie whose token is revoked was used up by a refresh that is still at work
or by somebody on record (`CookieUsed`). `EndedInv` keeps the state a logout leaves
until a login.

**`AccountsProofs`.** `AccountsInvHolds`, `AccountsTypeCorrect`,
`SuperAdminRemains`, `InstallsOnce`. *The last super admin is not deleted by a
request that ran alone, and no second administrator is installed by one.* The
invariant says that who is `alone` still sees what it has counted (`Counted`,
`Untouched`). `EditsInvHolds`, `EditsAreKept`: *the field a form has saved stays
until the next form that changes it*: an edit of a user that is not `stale` has,
in the field it does not mean to change, what the row has (`EditFresh`).

**`MediaLibraryProofs`.** `FilesInvHolds`, `RowsLeadToFiles`. *A row leads to the
file it was registered with, whenever no request works on that file.* The
invariant follows a content, not a row: files have different contents, rows
different paths (`Apart`), and for each content that is not spoiled, rows and
requests agree with the disk on its place, which the one request at work knows
while it has moved the file and not yet the row (`Settled`, `Underway`).
`ItemsInvHolds`, `ItemsStayAsSaved`. *The items are those of the last save, in its
order, videos deleted since apart*, for lists of any length. `SaveFits` says of a
save that its items so far are the beginning of its list (`Begins`), `AllThere`
that without a save they are what is left of a whole list. Both hold of the rows
as they were inserted; that they hold of the rows *sorted by position* is
`SortedAlike`: what sorts the list that was sent sorts what is left of it, and
every list the editor can send has such an order (`FormsSort`).
`ChannelsInvHolds`, `ChannelsPlaySaved`. *Once a save has ended and the worker has
taken the restarts it asked for, a channel that runs plays the saved list, videos
deleted since apart.* `ChannelsInv` speaks of every channel that *goes on* with
what it has read: one that is starting, or runs and is not told to restart. While
a save is at work each channel that starts is on record as `early`; the end of the
save asks every running channel to restart; so what goes on after it without being
`early` has read its items between saves, when they were the saved list less what
was deleted (`ReadRemains`). A later deletion only adds to what may remain
(`RemainsGrows`), and the other steps leave channel and list alone (`Aside`) or
concern one channel (`OneChannel`).

**`OperationsProofs`.**

* Licence: `LicenceInvHolds`, `LimitStaysTheKeys`. *The limit is that of the key
  activated last*, unless an activation was `crossed`. The row and every copy a
  request answers from have that key (`Fits`), and may lag behind the day in the
  status only, which is refreshed before the answer (`Answers`).
* Live status: `PanelInvHolds`, `PanelKeepsUp`. *A page at rest shows the status of
  the row, or `why` says what it has missed.* While no cause is on record
  and no update waits to be published, the last event on the wire is what the row
  says, and with an empty wire the page shows it (`Follows`).
* Backups: `BackupsInvHolds`, `DoneStaysComplete`, `LastGoodStays`. *A row that
  says `done` never leads to a part of a dump, and pruning does not take the last
  good one.* A restore brings back old rows; hence the invariant also says that no
  dump holds a row `done` for a backup that has not ended (`NeverDone`). For the
  action property, while nothing is `excused`, the backup that prunes is good,
  the newest row, and not among the doomed (`InOrder`).
* Alerts: `AlertsInvHolds`, `AlertsStaySpaced`. *However samples overlap, two
  alerts of one kind and one run of the worker are a cooldown apart*, because what
  a worker raised is never younger than the time it has noted (`Remembered`).
* EPG: `EpgInvHolds`, `AnsweredImportsHold`. *An answered import is in the guide.*
  What is left of a file is its end (`Rest`), what was before is stored under a
  row that exists or was deleted since (`Rowed`, `Listed`), and no two rows share
  an id or an `epg_id`.

**`RulesProofs`**, the pure functions, at every input a request can bring. The
hypothesis of each theorem is the range of that input and nothing else; the run
`rules` goes through the inputs of a bounded size.

* Loops. An induction theorem with an operator as its parameter cannot be used
  here, but one about a *set* of numbers can (`Induction`: a set that holds 0 and
  with each number the next, up to L, holds 0..L). It comes from the well-founded
  order of finite sets in the library, applied to the intervals 0..n
  (`LeastNumber`). `Recursion` gives from it that a loop written as a recursive
  function has a value at each turn, `Followed` that what each turn keeps holds of
  all of them. The theorems on lists, prefixes and walks rest on these lemmas.
* `AllowlistBlocksHold`. *A prefix of any length lets in exactly the addresses that
  share that many leading bits with the network*, for octets of any width and any
  number of them, 4 octets of 8 bits included. `ipToLong` puts the bits of the
  octets one after the other, and the mask keeps the first `bits` of them. The
  case of no bits at all is where the shift would be by the whole width.
* `PagesServedHold`. *Pages that open get what they load, and the menu shows no page
  that does not open*, case by case over the tables.
* `EntriesFollowLinesHold`. *The entries are the addresses in order, each with the
  description nearest before it*, for any number of lines. The invariant of the
  loop: after n lines there is an entry per address so far, as it should be, and
  `pending` holds the description that no address has followed yet, if there is
  one (`ParsedTo`).
* `RoundTripHolds`. *An exported list that is imported gives the channels back*, for
  lists of any length and names of any number of commas. The argument is on two
  levels: what one channel adds to the file is read as its copies and leaves
  nothing pending, so what comes before and after it does not matter. A name is any
  number of texts with commas between them (`NamedIn`), none of them blank.
* `TargetsWalkHolds`. *An import gives out the first free addresses from its base on,
  in order, each once*, for any finite set of used addresses and any number of
  entries. That the loop ends is part of it: each step goes to the next usable
  address (`FollowingIsNext`), so a walk that met only used ones would stay in a
  finite set and yet always go up in it (`WalkLeaves`). The base is one the walk
  itself could reach (`Walked`); what the code does at a third octet of 255 is in section 5.
* `LinksOpenTheirs`. *A link opens its channel for its time and no other that asks
  for a token*, for any ttl and at any time, where the run has eight of each. The
  hypothesis is the range of what a link is asked for (`LinkAsked`).
* `OutputsLeaveMulticast`, `EditorKeepsCommand`. *An output added in the editor does
  not change what the televisions get, and a channel saved as it is keeps its
  command*, for every channel with any number of outputs (`StreamChannel`), where
  the runs have up to two. The lists that have to be filtered by a loop are those
  of one output and of two, whose loops are run through (`OneEnabled`,
  `TwoEnabled`).

Every invariant and action property that a run checks is thus a theorem, under
the hypotheses stated above, except `OneProcessPerChannel` of `one_process`, which
the code violates. Only model-checked is liveness (`StartAnswered`,
`StopCompletes`, `RestartingEnds`), which is beyond TLAPS here, and with it
ENABLED.

## 5. What the properties leave open

Things the code does that no property forbids. Where a property has an exception
for one of them, a history variable names it.

Streams

* `restart` of a running channel asks its child to stop and returns; the
  `start` that follows finds the entry and does nothing, so the channel ends
  stopped (`ReceiveRestart`). A playlist save does this to every running
  channel of the playlist.
* `stop` during a backoff or a start in flight finds no entry, writes
  `stopped`, and the start goes on.
* The watchdog clears `manualStop` after two awaits, so a stop in between ends
  in an automatic restart. The user guide says that a stalled stream is
  restarted after 45 s, the code has two minutes.
* A start that throws in the bootstrap leaves the status it found.
* A child that ends before `startWithCount` has set its count (line 273) is
  counted from 0, so a channel that fails at once restarts without limit
  (`RestartLimit` is checked without such exits).
* The exits caused by an orderly shutdown may write `stopped`, and the next
  bootstrap does not start those channels (`RecoversRunning` is checked with
  crashes).
* A worker lost between the two writes of `updateState` leaves the two rows
  different until the next one (`split`); the same holds for two that overlap.
* A binary that cannot be executed leaves an entry that no exit removes; starts
  are ignored and a stop never completes (`StopCompletes` is checked without).
* Starting a running channel leaves its status `starting` until the child ends.
* A channel that is `restarting`, or whose start is on its way, can be deleted,
  and its child runs on.

Channels

* An import does not look at the licence limit.
* Two overlapping creates of one target, or beyond the limit, both succeed; two
  overlapping edits mix their outputs; an edit can undo a status write and bring
  back a deleted channel (`contested`, `tangled`, `stale`, `alone`).

Accounts and sessions

* A login by recovery code saves the whole user it has read: a password reset, a
  lock or another spent code in between is undone (`blurred`).
* Failed logins in parallel are counted once.
* An edit of a user that takes the role from the last super admin succeeds:
  only removal counts them. Two removals at once take the last two.
* A user removed while two requests edit it, one with a password, is inserted
  again by that one's save, and the other writes back what it read of the old row
  (`stale`).
* Logout with an expired access token is refused with 401; key and cookie stay.
* A logout in one tab does not reach another: that one keeps its page, and the access
  token it has in memory until the token expires (`LogoutEnds` speaks of what can get a
  new one, and `LogoutLasts` of tabs that had none).
* A login over an existing cookie leaves the old refresh token good until it
  expires.
* Two tabs that refresh with one cookie at the same time leave a stray token, or
  the slower one is thrown to the login page.

Files and playlists

* A rename onto an existing name overwrites the other video's file; a save that
  then breaks the unique index leaves a row without its file (`spoiled`).
* `updateMeta` writes the path back that it has read.
* Playlist saves that overlap mix their items (`torn`); a channel that starts
  during a save reads a part of them (`early`).

Rules

* The command with one UDP output drops `muxrate` from `mpegtsOpts`, the tee
  command lets it override; VLC feeds the UDP output only.
* The walk from a base whose third octet is 255 skips addresses, and the second
  octet is not bounded by 255.
* A channel name with commas comes back from an M3U round trip without what
  stands before the last comma, and one that ends in a comma as `Unnamed`.
* The editor cannot clear `playlistId`.

Operations

* Restoring a backup brings its own row back as `running`, and `done` rows whose
  files have been pruned since.
* `keepCount` 0, or text that is no number, prunes everything, the new dump
  included; a negative one prunes the oldest rows. A good dump whose `save()` fails
  is marked `failed`. Two dumps at once with a small `keepCount` delete the finished one.
  A prune that fails marks a good dump `failed`.
* An activation beside another request may be overwritten by the other's save of
  the status it has re-evaluated (`crossed`).
* The subscription of a page is not renewed after a reconnect; events between
  list and subscription are missed; the API's `starting`, the status an edit
  writes back and that of a restored backup are written silently; a worker lost
  between `channels.update` and `publishStatus` leaves the pages as they were; a
  line of progress that follows an exit shows `running` again (`why`).
* A rejection in `dispatch()` is caught by nobody and ends the API; an alert
  published while the API is down is lost, and suppressed for its cooldown.
* Importing a guide twice doubles its programmes. A channel deleted between
  the read and the save of an import comes back with its old id. Of two imports
  of a new channel at once, one fails on the unique id with half its work done.

## 6. Findings

`one_process`: two start commands that arrive before the first registers its
child spawn two children; the first is out of reach of every command. ("One
managed child process per channel", class comment of
`worker/stream-supervisor.service.ts`, line 48.)

The other disagreements between code and documents are in section 5.

## 7. Not modelled

FFmpeg itself, probing and thumbnails; formatting of responses, logs, mails and
links; HTTP validation as data; the syntax of XMLTV, of licence keys and of
addresses; API tokens, settings, audit, stream logs, monitoring figures and
nodes, which are single-row writes with no interaction; the pages of the
frontend that only load and show; deployment. Hashing and signing are perfect.
Queries inside one TypeORM `save` are one step where TypeORM wraps them in a
transaction and no property tells its read from its write; in `Licensing` and
`Epg`, where one does, they are two.

## 8. Plan

Done: all modules above with their runs, and the proofs of section 4, which state
every safety property of the runs. Left:

1. The composition with the library: the concat file under automatic restarts,
   which `MediaLibrary` has only as new starts.
2. The theorems on settled channels for the composition `StreamControl`, whose
   scheduler and endpoints are the clients that wait or do not.
3. API tokens and settings, if they come to interact with anything.

## 9. Running

    tlc -workers 2 -config supervisor_serial.cfg MCStreamSupervisor.tla
    tlc -workers 2 -config sessions.cfg MCSessions.tla
    tlc -workers 2 -config rules.cfg MCRules.tla
    tlapm LoginProofs.tla

Each run takes between seconds and three minutes on two cores, each proof module
a few minutes.
