# Verification of AutoFilm

TLA+ models of AutoFilm (Go), the TLC configurations that check them on small
instances, and TLAPS proofs of the properties that matter most for instances of
any size. AutoFilm runs five kinds of media jobs (on a cron schedule, at start-up
or from a web console) against an OpenList/Alist file server and the local disk.

## 1. Inventory

| Part | Source | State | Operations | What is hard |
|---|---|---|---|---|
| Scheduler and reload loop | `cmd/autofilm/main.go`, `internal/core/reload.go` | the cron scheduler, the reload channel (capacity 1), the daemon table | start-up, `run_on_start`, rebuild on a signal, shutdown | a rebuild while runs execute; signals that coalesce; panics |
| Module registry | `internal/web/registry.go`, `handler_modules.go` | entries, execution locks | register, clear, enable, acquire and release | the lock must survive a rebuild and be released on every path |
| Run records | `internal/web/metrics.go`, `storage/store.go` | gauge, `task_runs` | start and finish a run, repair at start-up | panics, failing writes, restarts |
| Configurations | `handler_configs.go`, `storage/store.go` | `module_configs` | save, delete, list, update one field | read-modify-write without a transaction |
| AlistSync | `internal/modules/alistsync/` | workers, daemons and their memory, `sync_tasks`, source and destination trees | copy, wait, remove the source, queue, retry, dead letter | workers and daemons of several runs on one file; ambiguous answers; crashes |
| Sync queue in the console | `internal/web/handler_sync.go` | `sync_tasks` | list, retry, delete | the daemons keep copies of the rows |
| Alist2Strm | `internal/modules/alist2strm/` | snapshot, local tree, deletion protection | scan, diff, write, download, clean up | what is not seen must not be deleted; a crash between snapshot and cleanup |
| FileMove | `internal/modules/filemove/` | source and target trees | rename, move, verify, remove the parent | an ambiguous move; a directory removed with what is left in it |
| Ani2Alist | `internal/modules/ani2alist/` | the address tree of a storage | read, parse, merge a season's or a feed's links, write back | the whole tree is rewritten by each run; configurations share a storage; a storage made by the run has no id |
| LibraryPoster | `internal/modules/libraryposter/` | none | draw and upload posters | I/O only |
| Alist client | `pkg/alist/client.go` | client cache, token and expiry, login mutex, rate limiter | create, request, login, refresh on 401, back-off, set the limit | the login is a request too; goroutines that share one token; a compare-and-swap |
| Users and sessions | `storage/admin.go`, `web/handler_admin.go`, `auth.go` | `users`, `sessions`, the login limiter | bootstrap, login, update, delete, restore a backup | the last administrator; check-then-act; a restore that fails half-way |
| Log broadcast | `web/handler_logs.go` | client channels | fire, subscribe | bounded channels |
| Storage set-up | `storage/db.go`, `migrator.go`, `legacy_yaml.go`, `crypto.go` | schema, schema version, configurations | open, migrate, rename a type, import the YAML file, encrypt | one-off steps that a crash may interrupt |

How they interact: `main` reads the configurations, registers an entry with its
closure and a cron job for each, and starts the scheduler. A run of a module takes
the execution lock, passes `safeRun` and `TrackRun` and executes the module function.
Handlers of the web console write the configuration table and then signal the reload
goroutine. AlistSync's runs create a retry daemon each, which outlives the run and
shares `sync_tasks`, the server and the trees with all later runs. The modules share
one client, and so one token and one rate limiter, per server and credentials.

What makes each part correct is stated by the properties below, and by the hazards in
`PROJECT.json`, each with the line at which it bites.

## 2. Modules

| Module | Models |
|---|---|
| `AlistSync` | one pair of one AlistSync configuration: runs, workers, daemons, the queue table, the server |
| `AlistSyncProofs`, `AlistSyncSafety` | type correctness; the safety theorems |
| `MCAlistSync` | the instances of TLC |
| `SingleFlight` | abstract: of one module at most one run executes |
| `ModuleRun` | configuration table, registry, locks, scheduler, reload goroutine, runs, handlers |
| `ModuleRunProofs` | type correctness, lock invariant, refinement of `SingleFlight`, cron invariant |
| `ModuleRunSafety` | rows and gauge; the table that is put in force |
| `MCModuleRun` | the instances of TLC |
| `Alist2Strm` | the runs of one Alist2Strm configuration, the snapshot, the local and the remote tree |
| `Alist2StrmProofs` | type correctness; what the cleanup deletes; the snapshot's invariants |
| `MCAlist2Strm` | the instances of TLC |
| `FileMove` | the runs of one FileMove configuration on a server, the source and the target tree |
| `FileMoveProofs` | type correctness; what overwrites and removals destroy; what counts as moved |
| `MCFileMove` | the instances of TLC |
| `AlistClient` | the client the modules share: cache, token, logins, requests, rate limit |
| `AlistClientProofs` | type correctness; the limiter, the token, the refresh after a 401, the locks |
| `MCAlistClient` | the instances of TLC |
| `Store` | the database of one process after another: start-up, users, logins, restores |
| `StoreProofs` | type correctness; migrations, bootstrap, restore, the last administrator, the login limiter |
| `MCStore` | the instances of TLC |
| `Ani2Alist`, `MCAni2Alist` | the runs of the configurations that write to one storage |

### AlistSync

State: `src` and `dst` (each file at its source and destination), `tasks` (the
server's copy tasks), `row` (table `sync_tasks`), `run` (the last run started), and
for each actor, a file's worker or a run's daemon, `pc` and the locals of
`waitCopyDoneWith` (`wait`). A daemon has `mem` (`activeTasks`), `poll` (the pointers
`pollTasks` holds), `same` (which of them are still the objects in `activeTasks`: the
map holds pointers, and a worker may have replaced one) and `cur`.

One action is one API call, table access or critical section. `Probe`, `Clear`, `FSCopy`
are `copyOne`; `CheckFirst` to `Purge` are `waitCopyDoneWith`, shared by workers and
daemons as in the code; `AfterCopied`, `RemovePartial`, `SaveFailed`, `AddTask` follow a
wait; `Load`, `Fill`, `Tick`, `Retry`, `NotDue`, `AskSize`, `SaveSettled`, `RemoveTask`,
`RetryFailed` are the daemon. `CopyStarts`, `CopyEnds`, `TaskForgotten` and `Submit` are
the server, external to the repository: it accepts a copy when the source exists and
nothing is at the destination, works in the background, and never touches a complete
destination. `Env` lists the faults an instance allows.

The timing assumption `Orderly` says what no code enforces: a new run starts when
nothing of earlier runs is left to retry, and a daemon has read the table before a
worker of its run gives a file up. The overlap run shows what happens without it. It
is a real restriction: it also keeps a run from starting after a crash while a failed
row remains.

Also abstracted: one worker per file instead of a pool (the pool only delays workers);
one pair; files are not empty (`wantSize` 0 accepts any destination); a back-off may
elapse at any poll; failing writes of the table are excluded.

### ModuleRun

State: `cfg` (table `module_configs`), `rows` (running rows of `task_runs`), `reg` and
`running` (the registry's entries and locks), `jobs` (what the started scheduler runs),
`signal` (the reload channel), `loader` (`main` at start-up, then the reload goroutine),
`runs` (goroutines that run a module), `gauge`, `req` (web handlers), `faults`.

`Fire`, `RunModule` and the start-up branch of `AddJob` trigger a run; `Acquire`, `Check`,
`Track`, `Return` or `Panic`, `Finish`, `Release` are its life. `Reload`, `Clear`,
`ReadConfig`, `AddJob`, `Start` are the loader; `SaveConfig` (also deletion, backup
restore), `Toggle`, `SetEnabled`, `ReadField`, `WriteField`, `TriggerReload` are the
handlers; `Restart` is a stop and a start of the process, at any point. A version
stands for all of a configuration but its enable flag.

Merged where the parts commute with every other action: taking the signal and stopping
the scheduler; the end of the wait and `Clear`; the gauge and the row of `TrackRun`. A
configuration is read on its own, not the list of its type at once, which allows
every outcome of the joint read and more.

### Alist2Strm

State: `present` and `version` (the remote files; a version stands for size and time),
`local` (the version each output was made from), `snap` (table `module_snapshots`), and the
run: `pc` its stage, `full`, `incomplete`, `newSnap`, `todo` (the changed files), `jobs` (with
the workers), `collected` (`BDMVManager`), `processed` (`processedPaths`), `doomed`
(`filesToDelete`). `gone` is a history variable, the files absent at some point of the run; `budget` bounds the
changes and faults. The tree is a root and one subdirectory: enough for a directory that fails
alone, which is skipped, and a root that fails, which ends the run.

`StartRun`, `ListRoot`, `ListSub` are the listing; `Abandon` and `Diff` the comparison with the
snapshot; `Collect`, `Dispatch`, `DropDetail` (a full scan: `FullNoDetail`) and `Write` the
processing, the last one by workers that run beside the others; `ProcessLargest` the disc;
`SaveAndClean`, `Remove`, `EndClean` the end. `Disappear`, `Upload`, `Restore`, `DeleteLocal` and
`Crash` may come between any two of them. Both scan modes are in the model; an
incremental run whose snapshot cannot be loaded is a full scan.

Abstracted, as the module's head says: a directory is listed in one step; the outputs of two
files are distinct; a new version of a download is later or larger than the
local file; smart protection. Smart protection counts the scans in which a file is missing and returns
the set that may be deleted; `cleanupLocalFiles` merges that set into `strmToDelete` but then
deletes `filesToDelete` (`alist2strm.go:910`), so the counts decide nothing.

### FileMove

State: `at` (each file in the source tree, under its old or new name, or away) and `slot` (what each
name of the target tree holds), `late` (what the server still moves after its answer), `overwrite`
(the setting), and the run: `pc` its stage, `listing` (what is still to be handled, under the names
as listed), `cur`, `matched` and `moved` (the files counted in `matchedDirs` and `movedDirs`),
`doomed` (the directories to remove). A file is its data: a name has one holder, and files may claim the same
name after a rename (`Path`) or in flatten mode (`Slot`).

`StartRun`, `List`, `Take` are the loop of `moveOpenList`; `ProbeName`, `RemoveName`, `Rename` its first
half, `Probe`, `Remove`, `Mkdir`, `Move`, `CheckGone`, `Verify` its second; `EndScan`, `RemoveDir`, `EndDirs` are
`removeMatchedOpenListDirs`. One action is one request; each may fail, and those that change a tree may
be executed and answered with an error. `LateMove`, `Upload`, `Outside`, `Configure`, `Crash` come between any two; what
`CanMove`, `CanRename`, `Carry` say is the server's and external: it refuses a name in use.

The listing is the server's cached one (`FSListLight` asks with `Refresh: false`, `client.go:576`): besides the tree as it is, `List`
may give any other tree (`"stale"`), with files that are gone, not there yet, or under their former name. `Outside` is
somebody else who takes a file away, perhaps to the place the run would have moved it to. `outdated` is a history variable of the
properties: the files of which the run's entry is wrong, because the listing was, because others or a late
move changed the tree, or because the run itself renamed another file over it.

The local backend is not modelled, nor are the report's counts; apart from a stale listing the source tree is listed in
one step.

### AlistClient

State: `cached` and `clientsMu` (the cache of `GetClient` and who creates a client), `token` and `exp` (a
token is good or bad to the server; `exp` is `tokenExpiry`), `loginMu` and `refreshing`, the login in
progress (`stage`, `loginTry`, `fresh`), `limit`, and per goroutine `pc`, its request (`req`: attempt, `refreshed401`,
whether it retries), `header` (the token it sends), and the locals of `SetRateLimit` (`want`, `old`). `asked` and `excuse` are history
variables of `LimitIsStrictest` and `Authorized`.

`GetClient`, `Create`, `Return` are the cache; `Wait`, `ReadToken`, `Send`, `Backoff` one attempt of
`doRequestInternal`; `LockLogin`, `LockForced`, `LoginToken`, `LoginSend`, `LoginBackoff`, `Store` the login, a request made
while its goroutine holds `loginMu`: only its own `getToken` sees `refreshing` and goes on without a
token. `LoadLimit` and `SwapLimit` are the loop of `SetRateLimit`. `Expire` is the clock, `Revoke` the server. One action is
one access to the shared fields or one request. `ListTasks` (`client.go:882-915`) is not a caller of
`doRequest`: it waits for the limiter, takes its token as `ReadToken` does, and sends once, without a repetition and without a
refresh after a 401. It is left out, and `Authorized` says nothing of it; for AlistSync a failed
list of tasks is one of the server's answers.

`LoginUnauthorized` says whether a login may be answered with status 401: the run says no, and the remark
below says what happens then. Every error that ends a request is one answer. Not modelled: what the
single API calls make of their answers (the modules' own models have that), two accounts.

### Store

State: `db` (what is committed: how often each migration ran and which are recorded, a configuration
per type, the settings, users with role and state, who has a session), `work` and `conn` (the open transaction and the handler that holds
the only connection), `main` (the start of the process), and per handler `pc` and its locals. `loginLimiter` is `failures` and `locked`.

`Start` to `ImportSave` are the start: a migration and its record in one transaction, `MigrateModuleType` in another,
the YAML import one statement per configuration. `Bootstrap` and `InsertAdmin` are one transaction; so are `Restore` and `InsertConfigs`;
`DeleteUser`, `ReadRole`, `RemoveUser` are three statements. `Login`, `Authenticate`, `Failure`, `Success`, `CreateSession` are
`handleLogin`. `Crash` comes between any two and loses what is not committed. `Init` is a new file or what any earlier
version left: the first n migrations, any configurations.

Abstracted: passwords, the lengths of locks and sessions, several client addresses, several configurations
of one type (the merge of `MigrateModuleType` is per type here), encryption.

### Ani2Alist

State: `created` and `text` (the storage and its address tree, a sequence of lines with indentation and
parts between colons), `source` (what the site or the feed has for each configuration), and per run `pc`, `dict` (the
parsed tree), `known` (the run has the storage's id). `read` is a history variable of `KeepsWhatItRead`.

`Find`, `Create`, `Merge`, `Save` are a run, each a request or the work between two; `Fail` lets any request fail, and a creation
succeed with its answer lost; `Edit` is a user. The parser (`ParseLines`), the printer (`Prints`: every order in which Go may
walk a map) and the merge (`Put`, `PutFeed`) are translated with their assertions, which panic. What a
text says (`PathOf`, `FilesOf`) is defined without the parser, as the reference the two are checked against. A text is
`Regular` when what lies in one directory has one indentation, of any width, and different names; only of
such texts does `KeepsWhatItRead` claim that every file is kept (see the remark in section 3).

Abstracted: dates and sizes, and so an update of a file already there; the title of a feed entry, which
gives the file its name, is the last part of its link; the calendar behind a season's key.

## 3. Runs

No configuration switches the check for deadlocks off: the systems can always go on.

| Run | Kind | Shows |
|---|---|---|
| `sync_owner` | pass | `TypeOK NoLoss OneOwner FailedIsTracked DeadLetterExact CountsUp` with every fault but an unknown size |
| `sync_fair` | pass | under fairness `WorkerEnds TaskSettles` |
| `sync_overlap` | violation | `NoLoss` without `Orderly` |
| `run_safe` | pass | `TypeOK LocksExact Applied NoOldCron RowsExact`, and `OneAtATime`: `ModuleRun` implements `SingleFlight` |
| `run_fair` | pass | under fairness `ConfigApplied LocksReleased` |
| `strm_safe` | pass | `TypeOK DeletesOnlyGone EntriesKept` with every change and fault but a failing `FSGet` |
| `strm_fair` | pass | `SnapshotHonest`, and under fairness `Converges`, with every change and fault but a failing write and a restored file |
| `move_fair` | pass | `TypeOK ReplacesWhatIsListed MovedIsThere RemovesOnlyMoved`, and under fairness `Drained`, with every change and fault |
| `move_stale` | violation | `Replaces` with a listing that is out of date |
| `client_fair` | pass | `TypeOK Authorized LimitIsStrictest KeepsToken StaleOnlyMeanwhile`, and under fairness `CallsReturn`, with expiring and revoked tokens and any answer but 401 to a login |
| `store_safe` | pass | `TypeOK MigratedOnce TriesBounded OneBootstrap LastAdminStays AllOrNothing`, with crashes at any point and any earlier file |
| `ani_fair` | pass | `KeepsWhatItRead`, and under fairness `Published`, with two configurations, failing requests and edits by hand, regular and irregular |

### Bounds

* `sync_owner`: one file, two runs with their two daemons, four server tasks, dead
  letter at three attempts, two misses. Workers and daemons interact per file only
  (names that contain each other are the exception), so one file shows their races;
  two runs give the overlap of two daemons and of a daemon with a later worker; four
  tasks let two submissions of each run fail. 216 057 states.
* `sync_fair`: two files whose task names contain each other, one run, so that a
  worker binds the other's task. 49 409 states.
* `run_safe`: one module, two run goroutines (two are enough to break a lock), two
  requests, one version (a configuration is absent, disabled or enabled), one fault,
  restarts at any point; requests and goroutines are interchangeable, so symmetry is
  used (no liveness property is checked in this run). 1.04 million states. Modules do not share
  state but the channel and the loader.
* `run_fair`: the same with one request and without restarts or symmetry.
* `strm_safe`: a video (`.strm`) in the root, a subtitle (download) in the subdirectory, and a
  disc of two members, one in each, so that a failing subdirectory hides the smaller
  one; any set of them present at first; three changes or faults. Two suffice to hide a directory
  while a file changes; the third may be a crash or a user. 1 014 920 states.
* `strm_fair`: the same with details asked for the video too and, by a full scan, for none.
  771 594 states. A budget of changes and faults is what "they end" means in `Converges`.
* `move_fair`: a file whose new name is another one's, that other one, and a file in a nested directory
  with the same target as a namesake above it: a rename over a file, a target in use and a nested removal
  all occur. Any files present at first, under any name; all four wanted, so that the renamed one and the one it
  replaces both have their turn; three changes or faults: a move that is late or done in spite of its error, a
  crash or a stale listing, and one more. 1 756 797 states.
* `move_stale`: the same with one listing that is out of date and no other fault, `plain` not wanted.
* `client_fair`: two goroutines, one behind the other's login or swap; rates 1 and 2; one retry after a busy
  answer and none after an API error, so that both kinds of end occur. Expiry and revocation at any
  point, without a bound. 300 222 states.
* `store_safe`: two handlers (interchangeable: symmetry is used, no liveness is checked), six requests
  in all, four migrations of which the second and third create tables, two types, three users (a
  bootstrap, a deletion and one more), a lock-out after two failures, two backups. Crashes are not bounded. 1 039 078 states.
* `ani_fair`: a season with a file in a directory, a feed whose link lies in the season's directory, and four texts: the
  empty one, a regular one (a user's own indentation, a nested directory with a file after it, a directory with the name of the feed's file) and two irregular ones
  (a dedent to an intermediate indentation, a directory listed twice); two changes or faults, so that a run may fail
  while another's source changes. 58 524 states.

### Fairness

`AlistSync`: a goroutine that can go on does (`WF` of each worker and daemon), the
server finishes a copy it runs, and a back-off of at most thirty minutes cannot hold
a task back at every poll for ever (`SF` of `Retry`). Nothing makes a run start.
`ModuleRun`: goroutines and handlers go on and a module function ends; nothing makes a
job fire or a user act. That a module function ends is an assumption on the module;
a refused copy (below) shows that AlistSync's may not.
`Alist2Strm`: a run follows a run and goes on (`WF` of `Run`): the schedule fires for ever, and every
request and download has a timeout, after which it has failed, which the faults model. The
environment has no fairness.
`FileMove`: the same, and the server finishes the moves it has begun (`WF` of `LateMove`).
`AlistClient`: a goroutine that can go on does, every request has a timeout, and Go's mutex does not
starve one that waits (`SF` of each goroutine's `Step`). Nothing makes a goroutine call.
`Ani2Alist`: the runs of each configuration follow one another and go on, as for `Alist2Strm`. `Run(c)` is
always enabled, so its weak fairness is written `[]<><<Run(c)>>_vars`, which TLC evaluates sooner.

### Disagreements found

1. **A retry may delete the only copy** (`sync_overlap`, 26 steps). Every run creates a
   daemon of its own that nothing stops. While a task of the first run waits for its
   back-off, a second run copies the same file; its worker sees the copy complete and
   removes the source while the first daemon's retry of the same copy, answered 403
   because the destination exists, goes to `retryFailed` and removes the destination
   as its own leftover. `sync.go:344-345` names as the safety condition that an existing
   destination can only be this attempt's leftover.
2. **A stale entry destroys the only copy** (`move_stale`, 6 steps). The listing still has a file that was moved to where it
   belongs. With `overwrite`, the run finds a file at the destination and removes it (`filemove.go:444`) before
   anything looks at the source; then the move finds no source and the file is skipped. The comment at `:454` describes such
   listings, and `docs/故障复盘与工程经验.md:16` calls them normal; both say that a source that is gone is skipped. The look at the
   source comes after the removal.

Met while modelling, without a run of their own (a change of an instance named here shows them):

* **A refused copy is waited for without end.** `copyOne` waits after an error as after a success; a
  refused submission creates no task, so no task is ever bound and no miss is ever counted. `sync.go:84-85` and
  `:145` say that a failed file goes to the retry queue. The run keeps its execution lock and a
  reload waits for it. With `"reject"` in `Env` the instance of `sync_fair` violates `WorkerEnds`.
* **A rename over a listed file loses both**, without any fault. With `overwrite`, a file renamed to the name of
  another listed file replaces it and is moved. The listing still has the other one: its turn finds the moved file at its
  destination and removes it (`filemove.go:444`), and only then does the move find no source. `:443` gives as the purpose of the
  removal that nothing be deleted by mistake. The README's own example of `rename_regex`, a prefix that is stripped, makes such
  pairs. With `Env = {}` and all four files wanted the instance of `move_stale` violates `Replaces` in 13 steps.
* **A nested file that was skipped goes with its parent directory**, without any fault. Matches are counted for the
  directory a file lies in (`filemove.go:427`), but a directory is removed with all below it (`:526`). `README.md:114`
  says that a directory is removed only when all matching files in it were moved. With `Env = {}` the instance of
  `move_stale` violates `KeepsUnmoved` in 11 steps; `RemovesOnlyMoved` speaks of a directory's own files.
* **A failed `FSGet` deletes the output.** A changed file without details is struck from the new snapshot, to be seen as new by
  the next run; but the new snapshot also says what the cleanup may not delete, and the run is not `incomplete`.
  `alist2strm.go:510` says that what was not seen is not deleted. With `Env = {"get", "change"}` the instance of `strm_fair`
  violates `DeletesOnlyGone` in 20 steps; `strm_safe` leaves such failures out.
* **A failed download is never retried** as long as an older copy of the file is there: `processFile`
  has no result (`alist2strm.go:675`), the snapshot records the new version, and only a missing output is looked for.
  `docs/故障复盘与工程经验.md:36` says that a failing path never pollutes the snapshot, lest the failure become permanent.
  With `Env = {"write", "change"}` the instance of `strm_fair` violates `SnapshotHonest` in 20 steps.
* **The limit of the task started later is not in force** when it is the laxer one. `README.md:138`, the comments at `alistsync.go:62` and
  `filemove.go:249` and `docs/代码审查问题清单.md:216` say that it is; `SetRateLimit` keeps the strictest, as its own comment
  and test and `docs/故障复盘与工程经验.md:37` say. `LimitIsStrictest` is what the code does, `LatestInForce` what
  the README promises: the instance of `client_fair` violates it in 16 steps.
* **A login answered with 401 blocks the client for ever.** `forceRefresh` takes `loginMu`, which the goroutine
  of that login holds (`client.go:321`); all requests that then need a login wait behind it, although `:231-235` say that
  no lock is held while `authLogin` runs. With `LoginUnauthorized` the instance of `client_fair` violates `CallsReturn`.
* A configuration without a limit clears the limit of all that share its account: every run calls
  `SetRateLimit` (`alistsync.go:63`), and 0 clears it (`client.go:299`). `LimitIsStrictest` is about the time since then.
* Two administrators who delete each other at the same time both pass the count, and `UpdateUser` demotes or disables
  the last one (`admin.go:193`, `:209`). `LastAdminStays` is about a deletion that no other one overtakes.
* An import of the YAML file that is interrupted is never completed, and deleting all configurations makes the next
  start import the file again, while `legacy_yaml.go:10-11` and `README.md:59` say that it is imported once.
* A backup is read type by type, without a transaction (`admin.go:310`), and may mix two states.
* Ani2Alist: a name with a colon is cut when the tree is read again, so that two such names may become one; a
  feed's file goes to the root and not to the directory made for it (`ani2alist.go:416`); a storage
  made by a run has no id there, so that its update is refused and only the next run writes; two
  configurations on one storage lose each other's update until the next run; a file with the
  name of a needed directory ends a season's run in a panic (`:215`, `:283`), and a file with the name of a
  directory replaces it with all below.
* `iterPathRecursive` asks for details only if the listing has neither a raw url nor a sign
  (`client.go:1172`), and a listing never has a raw url. A full scan of a server that signs its
  listings therefore has no url for a download, and every one fails. With `ScanMode = "full"`
  and `Direct = {}` the instance of `strm_fair` violates `Converges`; with the downloads in
  `Direct` it holds.
* A panic leaks the running gauge and the run's row: `safeRun` recovers above `TrackRun`
  (`metrics.go:49`). `RowsExact` is claimed without faults.
* A toggle may undo a save: `UpdateModuleConfigField` writes back the payload it read
  (`storage/store.go:137`). `WriteField` does so in the model.
* A move that comes late is destroyed like a stale entry: a move is under way when the process restarts, the new run lists the
  file, the move completes, and the run removes the destination. With `Env = {"late", "crash"}` and two events the instance of
  `move_stale` violates `Replaces` in 14 steps.
* Ani2Alist loses files of a text that is not regular: `parseLines` assigns the tree of an inner call to its directory
  (`ani2alist.go:527-531`), so that after a dedent to an intermediate indentation the second call replaces the first one's files, and a
  directory listed twice keeps those of its last listing. Without `Regular` (`Kept(lines) == FilesOf(lines)`) TLC
  violates `KeepsWhatItRead` in 5 steps. No comment or test says what a hand-written text must look like.

## 4. Proofs

TLAPS proves, for every value of the constants allowed by the named assumptions of the
modules:

* `AlistSync`: `[]TypeOK` (`TypeCorrect`) and `[]DeadLetterExact` (`DeadLetters`) for every
  instance. For every execution whose steps are `Timely` (each run after the first finds the queue drained, and a
  worker gives a file up only when the table has been read): `[]OneOwner` (`SingleOwner`), `[]FailedIsTracked`
  (`FailedTracked`) and the action property `CountsUp` (`AttemptsCountUp`); under
  `SizesKnown` (an old destination differs in size, and the daemon's size query does not
  fail unless the source is gone) also `[]NoLoss` (`NothingLost`). Every execution of an `Orderly` instance is timely
  (`OrderlyIsTimely`). Until a second run starts, the second condition (`Reads`) is enough for ownership and
  no loss, with crashes and whatever is left in the queue (`FirstRunIsSafe`). Both conditions are needed: finding 1
  is an execution whose second run starts on a queue that is not drained; and without `Reads`, TLC loses a file in 28 steps of a single
  run: the daemon reads the row between `Save` and `AddTask`, completes the copy, and is then handed the
  task once more. That takes a daemon which reads the table only after a copy has failed.
* `ModuleRun`: `[]TypeOK` (`TypeCorrect`), `[]LocksExact` (`LocksAreExact`), `[]NoOldCron`
  (`CronIsCurrent`), `[]RowsExact` (`RowsAreExact`), `[]Applied` (`TableInForce`), and
  `Spec => OneAtATime` (`AtMostOneRun`), the refinement of `SingleFlight`, without further
  assumptions. (`RowsExact` and `Applied` are themselves about executions without a fault so far.)
* `Alist2Strm`: `[]TypeOK` (`TypeCorrect`). If `FSGet` does not fail on files that exist
  (`"get" \notin Env`): `DeletesOnlyGone` (`DeletesOnlyTheGone`) and `EntriesKept` (`EntriesAreKept`). If
  writes do not fail and a removed file does not come back as it was (`"write"`, `"restore"`
  not in `Env`): `[]SnapshotHonest` (`SnapshotIsHonest`). The remarks on a failed `FSGet` and on a failed
  download show that the assumptions on `FSGet` and on writes are needed. The one on restored files is of the same
  kind: the download of a file that vanished after it was listed fails, the snapshot has its new
  version all the same, and if the file comes back as it was, the older copy stays.

* `FileMove`: `[]TypeOK` (`TypeCorrect`) and `ReplacesWhatIsListed` (`OverwriteReplaces`), without further assumptions: stale
  listings, changes by others, late moves and renames over a listed file are all included. If files with one target have known sizes that differ
  (`SizesTell`): `MovedIsThere` (`MovedAreThere`) and `RemovesOnlyMoved` (`RemovesOnlyTheMoved`). A file of the same name and
  size at the destination passes `verifyMoveSucceeded`, which is what `SizesTell` excludes. Finding 2 and
  the remarks on a rename and on late moves show that the exception for `outdated` entries is needed.
* `AlistClient`: `[]TypeOK` (`TypeCorrect`), `[]LimitIsStrictest` (`StrictestWins`), `StaleOnlyMeanwhile`
  (`StaleMeanwhile`), `KeepsToken` (`TokenIsKept`) and `[]Authorized` (`RefusedForCause`) without further
  assumptions: they hold even where a login may be answered with 401. If it may not (`~LoginUnauthorized`):
  `[]NoWaitCycle` (`WaitsEnd`), the safety behind `CallsReturn`: nobody waits in a cycle. The remark
  on such a login shows that the assumption is needed; TLC refutes `NoWaitCycle` without it in 8 steps.
* `Store`: `[]TypeOK` (`TypeCorrect`), `[]MigratedOnce` (`ScriptsRunOnce`), `[]TriesBounded` (`FewTries`),
  `OneBootstrap` (`FirstUserIsFirst`), `AllOrNothing` (`RestoreIsAtomic`) and `LastAdminStays`
  (`LastAdminIsKept`), without further assumptions, with a crash at any step.

The arguments:

* **Ownership** (`OwnInv`). `OneOwner` is not inductive: it must also be known where tasks may
  come from. The invariant ties each place of a daemon (its memory, the poll, the
  file it retries) to the workers' places and says that only the daemon of the last run, or
  the one daemon that still holds the task, can hold a failed task. `Drained` gives it
  when a run starts, and before the first run there is nothing (`Unstarted`).
* **No loss** (`DataInv`). With one owner, the actor that removes a source has just seen the destination
  complete (`copied`), and no other actor can remove that destination. The invariant
  says that at `copied` the destination is full, and that an actor past the wait whose
  removal is still to come has the source in place; the rest is `OneOwner`.
* **Attempts** (`AtLimit`). Every copy of a task (row, memory, poll) satisfies `AtLimit`; a retry in
  progress holds a `failed` task, so its next count is at most the limit.
* **Locks** (`LockInv`). `LocksExact` is inductive over `TypeOK` and `Docs` (what a handler holds is a
  configuration); a run executes only while it holds, so `Begin` finds nobody else.
* **Cron** (`CronInv`). A cron run carries the version of the job that fired it. That it is still in
  force needs: no cron run exists while the loader adds jobs (`Drained`), the scheduler is
  empty then (`Idle`), and a triggered run has a version (`Versioned`).
* **Deletion** (`SeenInv`). What the cleanup may delete must have been missing, which is a fact about a
  listing made many steps earlier. The invariant says where a file is recorded at each stage: a
  file never absent is in the new snapshot once its directory is listed (`RootListed`,
  `TreeListed`: a failed directory has the entries of the old one, a file in hand stays in hand). Of a
  disc only the largest member is marked, so the others are excepted (`DiscDone`, `Lesser`); a doomed
  output is one of a file that was absent, or of such a member (`DoomedGone`).
* **Honest snapshot** (`HonestInv`). An entry that agrees with the remote version has a current output, or the
  file is still to be dispatched or with a worker (`Pending`, `NewHonest`); no version in a snapshot exceeds
  the remote one (`Bounded`, `Listed`), so that a later upload makes the entry differ.

* **Moves** (`MoveInv`). That the file at hand is there to replace what is removed is a fact about a listing made many steps
  earlier. The invariant says that an entry of a file that is not `outdated` is right (`Right`), and so that the file at hand is
  under its old name while it is renamed (`CurOld`) and under its new one while it is moved (`CurHere`). A name has one
  holder (`Unique`), also in the listing (`OneEntry`); and once the file at hand has been given a name, no entry that is still right has it too
  (`NoRival`), so a later turn cannot meet it. `MovedIsThere` follows from it and `SlotOk`; `RemovesOnlyMoved` from what was moved being
  away (`AwayMoved`) and the directories' counts (`DoomedDone`), as an entry that is wrong stays so until the run ends
  (`StaysOutdated`). `TreeChanges` reduces every action to one of six changes of the trees.

* **Rows** (`RowInv`). `RowsExact` is inductive over the types; the proof follows the two finite sets it counts
  (`TrackRows`, `FinishRows`: one run more, one run less).
* **Table in force** (`ForceInv`). `Applied` speaks of quiet states only. The invariant `Known` accounts for a
  difference between the table and what is in force at every other moment: a signal is pending, a handler is about to send one, or the
  loader is draining (`Pending`); or a toggle is between its two writes (`Toggling`); or the loader has
  still to read the module (`todo`). In a quiet state none of these is left. That what the loader has just read is
  still the table's (`got`) rests on the signal every writer sends after its write.
* **Limiter** (`LimitInv`). A compare-and-swap succeeds only on the limiter that was loaded, and who got that far
  found it absent or less strict (`Stricter`); nothing has been asked for before a client is cached (`NothingAsked`).
* **Token** (`MarkInv`, `TokenInv`). The mark `refreshing` is set only under `loginMu` (`Marked`). Until a client is
  cached only its creator uses it (`OneCreator`), so no creation replaces a token in use; and what a
  login was given is as good as the token it replaces (`FreshIsGood`), as a revocation takes both.
* **One chance** (`ChanceInv`). A request that has refreshed was given a good token then; every login that
  ends meanwhile stores a good one or leaves the one there is, so it reads and sends a good one (`ChanceKept`),
  unless it is excused.
* **Locks of the client** (`OrderInv`). Whoever holds `loginMu` is in a login (`LoginHeld`), whose own requests
  see the mark and go on (`NoRelock`); whoever creates the client is in a request (`ClientHeld`). A chain of
  waits is therefore at most client, then login, then nobody.
* **Transactions** (`TypeInv` of `StoreProofs`). The working copy of a transaction differs from what is committed only in what its
  kind of transaction has written (`Copied`), one handler at a time has one (`Alone`), and none
  while the process starts (`Quiet`). `AllOrNothing` follows with the file a restore works on (`Filed`).
* **Migrations** (`SchemaInv`). A script and its record are committed together (`Ran`); that all are
  recorded once the start has passed them (`Passed`, `Reached`) needs that the lowest missing version is unique.
* **Users**. While a bootstrap is between its look and its insertion it holds the connection, and the table stays
  empty (`NoneYet`). What a deletion has counted is the number of administrators until it is overtaken, which
  every change of the users by another handler marks (`CountHolds`).
* **Login limiter** (`TriesHold`). Before a lock-out the wrong passwords looked at are those counted and those still to
  be counted; when one is counted the rest are at most the other handlers, as a handler is at one place of
  its login at a time (`AtDisjoint`).

Two proofs corrected the module they are about. `Store`'s types need at least one user identifier, since `Init`
includes databases that have had a user: `VersionAssumption` says so. `TriesBounded` counts the
handlers, so they are finitely many: `ProcAssumption`.

Only model-checked: everything under fairness (`WorkerEnds`, `TaskSettles`, `ConfigApplied`,
`LocksReleased`, `Converges`, `Drained`, `CallsReturn`, `Published`), which is beyond TLAPS, and `KeepsWhatItRead`:
`Ani2Alist` parses and prints with `RECURSIVE` operators, which TLAPS does not handle, and what
they compute would need an induction over the text. All other properties that a passing run checks are proved.

## 5. Not modelled, and plan

Not modelled: the shutdown on SIGTERM (the process exits right after), parsing and
validation of configurations, the parts of the inventory without a module. LibraryPoster,
the loggers, encryption, the router and the user interface keep no state a property
could be about.

Plan, in this order:

1. `SyncQueue`: rows against the daemons' memory under the console's retry and deletion,
   failing saves, crashes with failed rows left. (The branches for offline downloads only serve rows that older versions
   left: no code creates such a task.)
2. `FileMove`: the local backend (copy across file systems, then removal).
