# A TLA+ development of forage

Forage turns *recipes* (a small declarative language) into runs of an engine
that fetches pages over HTTP or through a browser and emits typed records. A
daemon keeps recipes deployed, fires them on a schedule and watches the counts
they produce for drift; a hub shares recipes and types; a desktop Studio and a
CLI drive both.

This directory models the parts of it that keep state or decide something: the
daemon with its scheduler, the hub and its clients, sign-in, the language from
token to record, the HTTP engine, compositions, and the slots of Studio. Paths
are relative to the repository root.

## 1. The system

| component | where | state it keeps | operations | how it meets the others |
|---|---|---|---|---|
| daemon: runs, history, deployments | `crates/forage-daemon/src/{lib,run,deployments,db,model}.rs` | `daemon.sqlite` (`runs`, `scheduled_runs`, `deployed_versions`), `deployments/<name>/v<n>/`, `deploy_lock`, one connection mutex | `open`, `configure_run`, `ensure_run`, `remove_run`, `deploy`, `trigger_run`, `run_once`, `load_deployed`, `run_composition` | called by Studio, the CLI and the scheduler; calls the engine; writes the output store; wakes the scheduler through `schedule_changed` |
| daemon: scheduler | `.../scheduler.rs` | what it is about to fire and when; the `Notify` permit | `run_loop`, `next_fire`, `record_synthetic_failure`, `start_scheduler`, `close` | reads `runs`, calls `run_once`, is woken by every write of the schedule |
| daemon: drift detection | `.../health.rs` | none (`Run.health` is its result) | `derive_health`, `median_u32` | called by `run_once` inside its transaction |
| daemon: output store | `.../output.rs` | one SQLite file per output path, a table per record type with the columns of the deployment that made it | `open`, `ensure_table`, `write_records`, `load_records`, `load_run_snapshot` | written by `run_once` before the history row, read for a finished run |
| HTTP engine | `crates/forage-http` | the run's records, the request budget, pagination cursors, the debugger's pause | step loop, pagination, login, retry and throttling | called by `run_once`, the CLI and Studio |
| runtime, linker | `crates/forage-core/src/{link,runtime}.rs` | a linked module: the closure of stages, records threaded between them | `link`, `run_recipe` | the daemon deploys what it links and runs what it deployed |
| parser, validator, evaluator, snapshot | `crates/forage-core/src/{parse,validate,eval,snapshot}` | none; scope and records during a run | functions of syntax trees and values | used everywhere |
| workspace | `crates/forage-core/src/workspace` | the manifest, lockfile and catalog read from disk | `discover`, `load`, `catalog`, `recipe_signatures` | Studio caches it per session |
| browser engine | `crates/forage-browser` | a webview; captured exchanges | navigation, capture, `run_browser_replay` | an engine run to the daemon |
| replay | `crates/forage-replay` | none | read and write captures | engine input |
| hub client | `crates/forage-hub` | lockfile, sidecar `base_version`, tokens | publish, sync, fork, device login | HTTP to hub-api |
| keychain | `crates/forage-keychain` | the system's key store | get, set, delete | used by recipes' secrets |
| LSP | `crates/forage-lsp` | open documents, handlers at an await | open, change, close, watched files, diagnostics | the editor's buffers and the files below them |
| wasm, test helpers | `crates/forage-wasm`, `crates/forage-test` | none | bindings | hub-site, tests |
| hub-api | `hub-api/src` | a Cloudflare KV store | publish a package or a type, stars, downloads, forks, indexes, OAuth, refresh and revoke, rate limits | a Worker: requests interleave over KV, which has neither transactions nor compare-and-set |
| Studio backend | `apps/studio/src-tauri` | the workspace session, the cancel and debug slots, breakpoints | open/close/reload workspace, run, cancel, debug resume | owns a `Daemon`; forwards events to the UI |
| Studio UI | `packages/studio-ui` | flags of the run in view | commands and events | Studio backend |
| CLI | `apps/cli` | the token store | one command per process | every crate above |
| sites | `hub-site`, `site`, `docs` | none | static pages, a read-only browser IDE | hub-api |

What makes each part correct:

- **runs and deployments**: versions of a recipe are a log, numbered upwards
  and never rewritten; a Run points at a version that exists; an interrupted
  deploy leaves at most a stray directory; history belongs to a live Run and to
  a version of its recipe; records are stored before the row that reports them;
  `health` agrees with the latest run and with `enabled`.
- **output store**: what a run reports as ok can be read back, whole, whatever was
  deployed since.
- **scheduler**: it never sleeps past a due run, never fires one tick twice,
  gets to every due run, and shows a corrupt schedule as a failure.
- **drift**: a fall of 30% is reported and nothing less is, whatever the order
  of the history.
- **engine**: whatever the pagination, a run emits what its body means, each
  item once and in order; the budget bounds requests; every run ends.
- **compositions**: what was linked resolves; every stage gets the records of
  the stage before it; runs end although recipes are edited into cycles.
- **language**: lexer and parser agree on every token; a file without errors
  fails only with what a validator cannot know; a record has the shape that its
  type and the ancestors of its type declare.
- **hub**: metadata never names what is not stored; an acknowledged version
  stays; indexes and counters agree with the documents; a copy in a workspace is
  the version its sidecar names.
- **sign-in**: what was exchanged or revoked is over; a burst is bounded; a
  login of the CLI ends.
- **Studio**: the session's daemon is that of its directory and no other runs;
  a cancel reaches the run it was meant for.
- **LSP**: what the editor shows of a file is what is wrong with it beside the others
  as they are now, and what a save will say.

What is hard to test in them (`hazards` in `PROJECT.json` names every line):
calls that read a row, await the engine, and write the row back; two locked
sections of one call with others between; a deploy interrupted between its
directory and its row; stored permits, biased `select!` and re-planned sleeps;
ticks that fall while another run is being fired; a schedule edited or corrupted
under the task; rounding at the drift threshold; chains of KV puts that
interleave or stop half-way; clients that die between two files; a slot cleared
by someone else's end; a validator and an evaluator that walk the same tree with
different ideas of scope; reports of many documents published one await at a time,
from buffers and files that change meanwhile.

## 2. The modules

| module | models | |
|---|---|---|
| `Schedule` | `scheduler.rs`: `initial_next_run`, `interval_from`, `advance_next_run`, `interval_step_ms`, `next_fire_for` | operators over integers |
| `RunHealth` | `health.rs`, and the `prior_ok_runs` query of `db.rs` | operators over rows of history |
| `Daemon` | `lib.rs`, `run.rs`, `deployments.rs`, the statements of `db.rs`; EXTENDS the two above | state machine |
| `DaemonHealth` | EXTENDS `Daemon`: history variables for the calls that overlap, and what the health of a Run says | observer |
| `VersionLog` | what `deploy` and a publish promise | abstract state machine |
| `OutputStore` | `output.rs`, what `run_once` writes through it, `load_run_snapshot` | state machine |
| `Scheduler` | `run_loop`; EXTENDS `Daemon` and runs beside its callers | composed state machine |
| `Hub` | `hub-api/src/{storage,routes/*}.ts` | state machine |
| `HubClient` | `crates/forage-hub/src/operations.rs`; EXTENDS `Hub` and runs over it | composed state machine |
| `Accounts` | `hub-api/src/{oauth,auth,http}.ts`, `crates/forage-hub/src/device.rs`, `auth login` of the CLI | state machine |
| `Grammar` | `parse/{lexer,parser}.rs` | state machine over tokens |
| `Builtins` | `eval/transforms.rs`, `transforms_async.rs`, the operators of `eval/mod.rs` | operators |
| `Language` | `validate/mod.rs`, `eval/mod.rs`, the statements of the engine, the browser replay | operators, and a state machine over a file |
| `Documents` | `crates/forage-lsp/src/{docstore,server}.rs`, `workspace::{load, catalog}`, `save_file` of Studio | state machine |
| `Body` | the statements of `crates/forage-http/src/engine.rs` and `eval/scope.rs`, but for the steps | definitions and actions |
| `Engine` | `crates/forage-http/src/{engine,paginate,client,auth}.rs`; EXTENDS `Body` | state machine |
| `AtomicSteps` | what a run promises: each step at once; EXTENDS `Body` | abstract state machine |
| `Meaning` | the records a body stands for; EXTENDS `Body` | recursive definition |
| `Composition` | `workspace`, the composition checks of the validator, `link.rs`, `runtime.rs`, the daemon's notebook | state machine |
| `Studio` | `apps/studio/src-tauri/src/{commands,state,workspace,execution}`, the UI's store | state machine |
| `MC*` | small instances for TLC; `MCAlgorithms` and `MCLanguage` also compose | |
| `*Proofs` | theorems and proofs | |

### Daemon

One action per locked section of the code. The connection mutex makes such a
section atomic; wherever the code drops the lock or awaits, another action may
come between.

| code | actions |
|---|---|
| `configure_run` | `ConfigureRun`: validation, then create or update in one lock, then `notify_one` |
| `ensure_run` | `EnsureMissing` (the look-up under one lock), `EnsureConfigure` (the `configure_run` it then calls) |
| `remove_run` | `RemoveRun`, with the cascade into `scheduled_runs` |
| `deploy` | `DeployBegin` (lock, next version above table and disk), `DeployWrite` (stage and rename), `DeployCommit` (row and Run pointer in one transaction), `DeployFails` |
| `run_once` | `RunOnceStart` (reads the row, draws the id), `EngineOk` (the records are committed to the store), `EngineFail`, `Persist` (the row, the health and the whole Run row in one transaction), `PersistFails` (the foreign key, or the commit) |
| `Notify` | `wake`, set by each writer, taken by `TakeWake` |
| a crash or a close and `open` | `Reopen`: tables, directories and stores stay, calls do not |

A call in flight keeps what it read: `calls[c].run` is the row `run_once` had
before the engine, and it is that row, with a new health and next tick, that
`Persist` writes back, every column of it. `deploys` and `ensures` hold the
other calls that span locks.

Data is abstract. A module is a model value; a ScheduledRun carries its outcome,
its counts per record type and the version it ran; identifiers are drawn from
the counter `ulid`, in the order the real ULIDs are drawn; a directory appears
whole, since `write_atomic` renames it into place. A `Cadence` is `manual`, an
`interval`, a `cron`, or a `badcron`: an expression that does not parse, refused
by `configure_run` and found by the scheduler if a stored one turns bad. The
`cron` crate is external and is modelled by how it is used: the first tick
strictly after a given time, of a periodic schedule.

`RunHealth` works on the exact result of `latest <= 0.7 * median` in doubles:
0.7 is below 7/10, and the product is rounded, so at some medians the threshold
lies just below 70%. `MCAlgorithms` holds the real window of seven and minimum of
three; the state machines take smaller ones as constants.

### OutputStore

`Daemon` only says of a run that its records are stored; this module says what becomes of
them. Its variables are the files (`columns`: the tables with their columns; `rows`) and
as much of the Runs as reaches them: the module and the path that a Run has now, the
`run_once` of each task, the ok runs with what their engine emitted.

| code | actions |
|---|---|
| `configure_run`, `deploy` | `Redeploy`: another module or another path, at any time |
| `run_once`, its row read | `StartRun` |
| `OutputStore::open`, `ephemeral` | `OpenStore`: each table missing is made in a transaction of its own, so an error may leave some of them |
| `write_records` | `WriteRecords`: all records in one transaction, or none and the run fails |
| the history row | `RecordRun` |
| an engine or I/O error, a crash | `CallEnds`, between any two of these |

A deployment is the fields that each of its types declares and inherits, and the types it
emits. A JSON value or a cell is a pair of a kind and a number of halves: enough to tell an
integer from a double with and without a fraction, and a string of digits from other
strings, which is what `bind_value`, the affinity of an SQLite column (`Kept`) and
`sqlite_value_to_json` look at. `LoadRunSnapshot` reads what is there, in the path the Run has now.
Runs are not removed here: of a Run that is gone the code reads nothing.

### Scheduler

`task` is where the loop is and `plan` what it means to fire. `PlanFire` is
`next_fire`; `StallFound`, `StallRead` and `StallRecord` are the three locks of
a stall and its synthetic failure; `WakeUp` and `Elapse` are the arms of the
biased `select!`; `Fire`, `EngineDone` and `Record` are one `run_once` of the
task, through the actions of `Daemon`; `RecordFails` is its commit failing, which
leaves the tick due, so that the loop fires it again at once. Beside the task,
`Edit` lets callers configure, remove, ensure and trigger, or turn a stored cron
expression bad, `DeployStep` deploys, `ManualStep` finishes what they triggered
and `Restart` reopens the daemon.

**Fairness** is `WF(TaskStep) /\ WF(TimePasses)`. tokio polls a task that can
make progress; the engine ends a run (its HTTP client has timeouts and its
request budget is bounded); the clock advances. Callers owe nothing: `Edit`,
`DeployStep`, `ManualStep` and `Restart` have no fairness. A commit that fails
counts as one of the `MaxEdits`: if it failed forever, no run would move on.

### VersionLog

A log that only grows, one body per version, numbered upwards with gaps
allowed. `Daemon` implements it with `Published == {d \in dirs : d.version \in
VersionsOf(d.name)}`: a version is published by the commit of its row, and a
directory without a row is invisible. `HubClient` implements it with the
versions that the metadata of a package names.

### Hub and HubClient

KV gives single gets and puts. A handler is a chain of them, so a request is a
record with a program counter, one action per put with the gets just before it:

| code | actions |
|---|---|
| `POST packages/.../versions` | `Publish` (checks, `base_version`), `PublishPrior` (the artifact that was the latest), `PutVersion`, `PutMeta`, then the index work |
| the category, producer, consumer, `extends` and alignment lists | `IndexRead`, `IndexWrite`, `IndexDone`: a list is read, changed and put back |
| types | `PublishType`, `TypeHash` (dedup by the hash of the source), `TypePrior`, `TypePut`, `TypePutHash`, `TypeMeta`, `TypeExtends` |
| stars, downloads | `Star`, `StarAgain`, `StarKey`, `StarPut`, `StarMeta`; `Download`, `DownloadPut` |
| forks | `Fork`, `ForkRead`, `ForkCheck`, then as a publish, `ForkBump` |
| a KV error, an evicted worker | `Die`: before any put |
| the answer | `Deliver` |

`HubClient` adds workspaces: `PublishStart`/`PublishEnd` send the file and write
the sidecar; `Fetch`, `SyncStart`, `SyncType`, `SyncRecipe`, `SyncSidecar`,
`SyncCount` write the files of a sync one by one; `ForkStart`, `ForkFetch`, `ForkEnd`
fork; `Edit` is the user and `ClientDies` ends a client between any two files. Requests
of others go on beside it.

The client writes with a plain `fs::write`, which truncates the file first (`write_atomic`
is the daemon's alone). `CutShort` ends a client within a write, or has the write fail:
`TypeCut` leaves a type file that may no longer begin with `share type`, and then refuses the
next sync; `RecipeCut` leaves a recipe that cannot be read (`Torn`), or that reads as a
shorter one; `SidecarCut` leaves JSON without its end, which ends every later sync and publish
of that recipe with an error until somebody removes it. `from` is a history variable: the
version a file was synced or published as, kept across edits.

### Accounts

The web flow (`OauthStart`, `OauthCallback`), the device flow (`OauthDevice`,
`OauthDevicePoll`, with GitHub's side in `grant` and `Decide`), refresh and revoke,
each of them behind the rate limiter (`Limit`: read the counter, write it back),
then the user record is read and put (`Put`) and the caller answered (`Answer`).
Calls to GitHub and KV puts are steps of their own, and `Lose` ends a request or
loses its answer. `CliLogin`, `CliStarted`, `CliPoll`, `CliPolled`, `CliLogout` are
`forage auth`, with the deadline of `run_device_flow`. `names` is how the hub spells
its JSON: the code's clients and hub disagree (section 5), and both are modelled.

**Fairness**: the clock advances, a worker goes on with its request (the platform
ends it otherwise, which is `Lose`), and the CLI polls.

### Grammar and Language

`Grammar` is the parser as a stack of items still to be read: a token of a set, an
optional part, a loop, a choice. Each parser method is the sequence of items it
reads, and every choice is made on one token of look-ahead, as `peek` does it. Beside
it runs the lexer's only look behind: whether a slash starts a regex.

`Language` has, as operators, what the validator reports of a file (`Issues`:
duplicate and unknown names, type extension, references, call arity, what each
engine kind may contain, `emits`), and, as actions, the run of a file: `Validate`
first, then `Step`, `Emit`, `EnterLoop`, `Iterate`, `LeaveFrame` for HTTP and
`Capture` for the browser replay, over the scope of nested frames that the evaluator
looks names up in. `Outcomes` is the evaluator: the kinds of value an expression may
have, and its errors. `Builtins` says of each operator and transform which kinds it
takes and what it makes of them: `lower` of a list fails, `first` of one may be
anything, `coalesce` hands a Ref on. A transform called by name has `$` for its head, the
item of the innermost loop or the last step's answer, which the frames keep under
`Current`. The validator's list of names and the registry are two definitions, as in the
code: that they agree is part of `RunsAreClosed`.

### Documents

A file of the workspace is what it means to the others: whether it parses, the recipe
it heads, the types it shares, keeps to itself and uses, the stages it composes. `saved` is
what is on disk, `docs` the editor's buffers, `shown` the diagnostics the editor has.

| code | actions |
|---|---|
| `did_open` | `DidOpen`: `Upsert` and the publication of its diagnostics |
| `did_change` | `DidChange` up to the first await, `FanOut` (`refresh_workspace`), one `Publish` per other document |
| `did_close` | `DidClose` |
| `did_change_watched_files` | `DidChangeWatchedFiles` (one notification for all that changed since the last), then `Publish` |
| saves, Studio, other programs | `SaveFile`, `EditManifest` |

tower-lsp polls all handlers in one task, so a handler is only interrupted at an await. A
publication is a send: it has happened when the await returns, which is why `Upsert` and
the first `Publish` are one action. `Handlers` are the slots that tower-lsp has. `Report` is
`build_diagnostics`, over files (`saved`) and live buffers (`ReadLive`); `SaveOutcome` is
what `save_file` answers, which is computed elsewhere in the code, from files alone. The
history variable `doubt` has the documents whose diagnostics may be of another time: all of
them once a change, news of files or a close was taken up during another handler, one
opened during another handler, and the siblings of a document opened or closed with text other
than its file's, of which they are not told. A change, or news of files, handled alone clears
it. A document opened while `forage.toml` does not parse is no member and stays out.

### Engine

`Start`, `LoggedIn`, `RunStep` (the first request of a step), `Answer` (one page:
collect, advance the cursor or stop), `NoAnswer` and `Retry` (503s and timeouts, up to
`max_retries`), `Walk` (`RunEmit`, `EnterLoop`, `Iterate`, `Finish`: the statements that
send nothing, in `Body`), `Abort` (cancellation). Servers are honest, repeat their pages and
their cursor, have longer pages by default, name no total, or answer with a bare object
for a page of one item, which is collected as an item and counted as none.

There are two references. `AtomicSteps` has the same statements over the same scope, but
its `Step` is one action that binds all that the server lists: `Engine` implements it
with a step under way mapped to one that has happened (`SeenPhase`, `SeenStack`,
`SeenCurrent`). `Means` is the records that a body means, by recursion on its
statements, without a stack.

**Fairness** is `WF(Next)`: an engine run is one future, polled until it is done.

### Composition

`Save` edits the workspace; `Deploy` validates, links (the closure of the stages) and
keeps the linked module; `RunDeployed` and `RunNotebook` start the runtime, the
latter after folding the deployed modules of its stages into one. The runtime is
a stack of composition frames: `EnterComposition`, `NextStage`, `RunScraping`,
`FinishComposition`, `EndRun`. `Closure` and `Acyclic` are least fixed points, where the
code has a work list and a search. **Fairness** is `WF(RunStep)`, as for the engine.

### Studio

Commands run on several threads; slots are atomic pointers. A command is `Ask`,
`Lock` (the `workspace_switch` mutex), `CloseCancel`, `CloseDebug`, `CloseSession`,
`CloseDaemon`, then for an open `OpenDaemon` and `OpenStore`; a reload takes no mutex:
`ReloadLoad`, `ReloadScan`, `ReloadStore`. A run is `Press`, `Begin`, `LoadWorkspace` and
`LoadDaemon` (two loads of the session, each of which keeps a half of it), `Link`, `InstallCancel`, `InstallDebugger`, the engine (`Site` pauses in the debugger, `Wake`,
`Cancelled`, `EngineEnds`), `ClearCancel`, `ClearDebugger`, `Return`. `CancelRun` and
`Click`, `StoreStep`, `TakeAndSend` (a resume click) and `SwitchFile` come from the UI.
**Fairness**: a run of Studio goes on while nobody has to act; a paused run needs a
user, and the commands owe nothing.

## 3. The runs

| run | module, config | what it asks | distinct states |
|---|---|---|---|
| `daemon` | `MCDaemon.cfg` | the tables, deployments and stores under every interleaving of configure, ensure, remove, two deployers, two callers of `run_once`, I/O errors and crashes | 673,192 |
| `scheduler` | `MCScheduler.cfg` | no lost wake-up, no tick fired twice, due runs move on, corrupt cron surfaces | 60,534 |
| `algorithms` | `MCAlgorithms.cfg` | cadence arithmetic and the drift comparison against reference definitions, with the code's constants; what runs file against what is read back | 583,727 |
| `hub` | `MCHub.cfg` | what metadata, artifacts, indexes and counters promise each other, put by put | 421,766 |
| `hub_client` | `MCHubClient.cfg` | workspaces that publish, sync, fork, die and leave files cut short; the hub is a version log | 563,428 |
| `accounts` | `MCAccounts.cfg` | sessions end, bursts are bounded, logins end | 153,461 |
| `language` | `MCLanguage.cfg` | files through validator and run; lexer against parser; open documents against saves | 203,271 |
| `engine` | `MCEngine.cfg` | a run against atomic steps and against the meaning of its body | 32,356 |
| `composition` | `MCComposition.cfg` | linked stages resolve, records reach the next stage, runs end | 91,811 |
| `studio` | `MCStudio.cfg` | the session, its readers, the daemons, the cancel and debug slots | 876,596 |
| `stale_row` | `MCDaemonStaleRow.cfg` | violated: `PointerNeverRegresses` | |
| `pipeline` | `MCPipeline.cfg` | violated: `StreamReachesNextStage` with nested compositions | |

What the properties say (the comment at each definition says it in full):

- `PointerResolves`: a Run's `deployed_version` is loadable (row and directory),
  whatever stale row is written back and wherever a deploy was cut.
  `RenameTargetFree`: a deploy's version is not on disk when it renames.
  `HistoryAttributable`: every row of history is of a live Run, and an ok row names
  a deployed version of its recipe and, unless it is ephemeral, has its records stored.
  `NoResurrection`: a Run that was removed
  never returns with its old id. `DeploymentsAreALog`: the refinement.
  `HealthIsOfLatestRun`: a Run shows Paused exactly while disabled, though
  `configure_run` and an earlier reader both write the two fields; else `Run.health` is
  what its latest ScheduledRun and its prior ok runs say, unless the call recorded last
  overlapped another of the same Run.
- `SleepsNoLongerThanDue`: while the task sleeps and no wake-up is stored, it sleeps
  no longer than the next fire of any enabled interval run. `NoDoubleFire`: no two
  scheduled runs of one Run start at one time, among those that got to a deployed
  module (a synthetic failure is not a fire). `DueRunsMoveOn`: liveness.
  `CorruptCronSurfaces`: once the stored expression of a Run turns bad and the task wakes, a
  failed ScheduledRun is in the history that was not there before (the synthetic one, unless
  a run failed first), and no second synthetic one follows but after a run that was ok. A Run
  that shows Fail by then is excepted: the code records nothing for it (section 5).
- `NextTickIsFirstAhead`: a tick is after now, on the grid of its anchor, and no
  earlier grid point is. `DriftIsAFall`: drift is reported only on a true fall to 70%
  or less, and always on a fall below it.
- `RecordsReadBack`: of an ok run, every record that was counted is read back, with every
  field its type declares; a null is null and nothing else is; and a value of the field's
  own type comes back as it was if the table still has the field with that type.
- `VersionsAreStored`: metadata names only stored versions. `AcknowledgedStands`: an
  acknowledged version stays what was sent, unless two requests for its very name
  overlapped. `DedupIsSameSource`: "unchanged" pins a version with that source.
  `IndexesAreCanonical`: at rest, each list has exactly what the latest versions
  say, when requests did not overlap. `CountersAgree`: star and fork counts are what
  is there to count.
- `CleanCopyIsTheHubs`: whatever was killed or cut short, an unedited file is the version it
  came from, unless requests for that name raced or died; a sidecar that can be read names a
  version the hub has, and none later than the one the file beside it came from, so that a
  publish never passes over a version its file has not seen; and at rest it names that very
  version, if no call of this client was killed. `HubIsALog`: the refinement of `VersionLog`.
- `SessionsEnd`: an exchanged refresh token is refused from then on, and after a
  revoke nobody acts for the login once its access tokens have run out.
  `BurstIsBounded`: of the requests of one bucket that arrive within a window's length
  fewer than `2 * max` pass.
  `SignInEnds`: liveness of `forage auth login`.
- `LexerAgrees`: where the grammar may go on with a division, the lexer does not
  start a regex, and where a regex may stand, it does. `NoGuess`: one token of
  look-ahead decides every optional part rightly.
- `RefsResolve`: a run of a file without errors finds every name it looks up bound
  somewhere, and records refer to records that were emitted. `RecordsConform`: every record has
  the fields its type requires, imported types included, and a type the file declares keeps the
  shape of those it extends, unless a redeclaration on the way is one that the validator does
  not compare (`RedeclaresUnchecked`: of an inherited field, or in another file).
  `RunsAreClosed`: such a run fails only for reasons outside the file.
- `ShownIsCurrent`: told of every change and at rest, the editor shows of each document
  of the workspace that is not in `doubt` what is wrong with it beside the others as they are
  now; and, if all is saved, just what Studio reports of it.
- `SnapshotIsMeaning`: over an honest server the snapshot is a prefix of the meaning
  and, when the run is done, all of it. `StepsAreAtomic`: pagination, retries, login and
  budget are not seen; each step binds at once what its server lists, or the run fails.
  `RunEnds`: over any server.
- `StagesResolve`, `StreamReachesNextStage`, `RunsEnd`: the linker's verdict at run time.
- `PairMatches`: the daemon of the session is that of its directory, and so are the daemon and
  the workspace that a run has loaded, unless the session of another directory was stored
  between its two loads (`switched`; section 5). `NoDaemonLeaks`: no daemon runs but
  the session's, those of the command that holds the mutex, and those that a reload displaced.
  `SlotsOfLiveRuns`, `CancelIsNotLost`: the
  comments at the slots of `state.rs` and `commands.rs`, in one formula each.

**Bounds.** Every unbounded quantity is cut by a guard whose constant is named.

- `daemon` has one name: recipes do not share rows, so a second name adds states
  and no behaviour. A behaviour is concurrent (two interchangeable callers, two
  deployers, a client of `ensure_run`, two versions, three identifiers: enough for
  a configure / remove / re-create cycle under a call in flight and for a stray
  directory followed by a deploy) or has one call at a time and a longer clock
  (three finished runs at three times, with counts 1 and 2, which are a drift
  apart).
- `scheduler` has two Runs, an interval and a cron cadence of one tick, and three
  edits, the last of which removes a Run. The recipes are deployed before anything is
  scheduled, so that fires reach the engine. `MaxUlid` is not reached.
- `algorithms` takes all anchors to 7, clocks to 20, steps to 3 and all histories of up to
  8 runs with counts 0, 63 and 90, the window of 7 and minimum of 3 of the code. The stores have
  one Run, two paths, two tasks, two runs and two records, and four versions of a recipe:
  one with two types, one with a field more, one with another type of the same field, one
  that moves a field into a parent; with null, 1 and the string "2" as values, every field is
  missing, right or wrong. A Run is redeployed until both runs have begun: after that no run
  would see it. The tasks are interchangeable, and no other part of the run names them.
- `hub` has two packages under two authors, one type, three requests. A behaviour is
  serial, with payloads that make indexes and lineages differ and one name whose
  requests die, or concurrent, with two workers. Three requests are a base, and two
  that read it.
- `hub_client` has one client over one worker, three calls, two versions; faults hit
  requests or clients. Of its two recipes one is pinned to a type, so that all three kinds of files
  are written, and cut short. Three calls are a fork, a sync after a torn one, and a publish;
  a publish that fails because of torn types is in the model and the proof, and beyond
  these bounds. Concurrent requests are the business of `hub`.
- `accounts` is about sessions (four requests on two workers), devices (two, the CLI
  among them) or one rate limit (six polls, `MaxInWindow` 2: one more than the bound
  speaks of). Lifetimes of 1 to 3 make every order of expiries happen by clock 4.
- `language` takes files with up to three statements, one or two expressions of one
  operator, every transform piped and called over a record, a text and an answer, chains of three types, any of them the file's own or imported; collections have up to two items. Grammar
  remembers one form of a file, with nine items open: deep enough for every method
  to be entered from every place that calls it. Documents are two, with two handlers and
  three events: a change, another one that overlaps it, and a third that clears the doubt.
  The files are any two of a malformed one, one that shares a type, one that uses it, one
  that does both under a recipe's name, one that composes that recipe. Handlers are
  interchangeable, and no other part of the run names them.
- `engine` has lists of 0, 1, 2 and 5 items on pages of two (an empty, a short, a full
  and an odd last page), every pagination strategy, two loops deep, nine requests and
  two retries.
- `composition` has four names, so that a composition of compositions and a cycle through
  one can be saved in two saves; `MaxDepth` 4 is beyond the depth of any acyclic one. While
  a run is under way at most one file is saved, and only `d` becomes a recipe that takes records
  or a browser's (`MCNext`): the names are otherwise interchangeable as downstream stages.
- `studio` switches workspaces (two commands, a reload among them, two directories,
  two daemons) beside one run, which starts before them and ends with its two loads; or it runs
  recipes (two runs, one workspace opened and closed, two clicks).

Deadlock checking is off wherever a bounded clock, a bounded number of requests or the
end of a run lets the model stop; `Daemon` can always reopen.

## 4. The proofs

`tlapm` checks every leaf; nothing is assumed beyond the named assumptions on
constants, which TLC evaluates in the runs: `NoneAssumption`, `TicksAssumption`,
`HealthAssumption`, `DaemonAssumption`, `SchedulerAssumption`, `OutputStoreAssumption` (values
and fields are of the language's kinds; a module emits types of its catalog, which the validator
sees to), `HubAssumption` (every
key has an owner who is a user; a recipe names finitely many types and a type is aligned
with finitely many), `ClientAssumption` (clients are users, and recipes pin types of the
hub), `BodyAssumption` (statements of known kinds, pages of one item or more, cursors not counted
from zero), `EngineAssumption`, `StudioAssumption`, `CompositionAssumption` (a recipe
is a composition just when it has two stages or more), `AccountsAssumption`, and
`DocumentsAssumption` (what stands for no file is not one), `NoneIsNoRun`, `NoneIsNothingElse`, `NoneIsNoRecord`, `NoneIsNoToken`: None is none of the
values it stands beside.

**`DaemonProofs`** - first the arithmetic of ticks, for every anchor, clock and cadence:
`IntervalAfterIsAhead`
(the next interval tick is after now), `IntervalAfterIsFirst` (it is the first
such tick on the anchor's grid), `AdvanceIsAhead` (after a run the stored
`next_run` is none or ahead, which is what stops a fired tick from being due
again at once).

Then `Invariance`: `Spec => []Inv`. `PointerResolves` is not
inductive: a call in flight holds an old row and will write it back, so the
invariant has to speak of every row held anywhere. `Inv` is

- `TypeOK`;
- `LogInv`: the versions of a name have a highest one; a deployed row has its
  directory; at most one deploy is running; and a running deploy's version is
  above the table's, is free on disk before the rename, and has its directory
  after it;
- `RowInv`: each row of `runs` is sound (its key is its name, its version is
  loadable, Paused iff disabled), and so is each row held by a `run_once` call.

That versions and directories only grow is why a held row stays sound while its
owner waits for the engine. From `Inv` follow `TypesHold`, `PointersResolve`,
`RenamesSucceed`, and `DaemonImplementsLog`: initial states
map to initial states, `DeployCommit` maps to `Publish`, and every other step
stutters on `Published`.

Of the history: `HistoryIsAttributable` from `HistInv`,
which adds what a finished call is about to record (an ok result has a loadable
version, and its records are already stored); and `RemovedStaysRemoved`, the
action property `NoResurrection`: only `Configured` creates a row, with an
identifier above every earlier one.

Of the scheduler: `NeverSleepsPastDue` and `TicksFireOnce`, for any set of Runs
and callers. Neither is inductive. `SchedInv` orders what was fired against what
may be fired: every start of a Run in the history lies before the `next_run` its
row names (`RowsAhead`), before the time the task sleeps to, before now while the task
is about to fire, and before the start of the run under way (`TaskAhead`). `AdvanceIsAhead`
re-establishes the order after each run, the wake-up permit after each edit: a
caller that writes a nearer tick leaves a permit, and only then may the plan be
late. That the plan is the minimum over all Runs needs no finite set of names: a
nonempty set of naturals has a least element.

Of health: `HealthIsJudged`. Each of two overlapping calls of a Run judges its result
against the history it finds, and the last to commit wins, so `DaemonHealth` keeps two
history variables: which calls in flight overlapped another, and which Runs were recorded
last by such a call. `SoloInv` holds the reason why all others fit: a call alone
started no earlier than anything its Run has recorded (`StartsAreLatest`), and an
identifier is never given out twice (`IdsSane`), so what it stores is the latest run, and
the health beside it was derived from exactly the ok runs before it. An edit that
leaves the health paused or unknown takes the Run out of the property; one that does not
keeps the health it had. The next call alone puts a doubted health right.

Of the output stores: `FiledRecordsReadBack`, for any deployments, paths, tasks and values.
`FileInv` (which TLC checked on the run's instance first) says of each call what it has put into
its file: nothing before its transaction (`Unfiled`), and after it one row for each of its
records and no other row under its id (`Filed`), ids being apart; that the tables it opened
are there; and that each of its records fits the columns of its table. No step of another
task disturbs any of this (`CallStays`), because files only grow and a table keeps the columns
it was made with (`FilesGrow`). Then the limit of `load_records`, the
count of the history row, is just the number of rows found (`AllAreLoaded`), and
`NullStaysNull` and `FittingComesBack` follow a value through binding, affinity and reading.

Of drift: what `DeriveHealth` says of windows of any length. `MedianIsMiddle` - at most
half of the runs lie below the median and at least half at or below it - gives
`DriftIsBelowHalf` (of some type, a run with drift emitted less than at least half of its
window) and
`FallOfMostIsDrift` (a fall under 70% of most of the window is drift): neither side
depends on how large the outliers are. The IEEE boundary case of `0.7 * median` is
between the two.

**`StudioProofs`** - `PairAlwaysMatches` and `NoDaemonEverLeaks` from an invariant that
says, for each step of the command holding the mutex, which daemon may still
run and who will stop it; reloads, which hold nothing, are covered by the history
variable `displaced`. Of a run between its loads the invariant says that the session is none
or of the directory it has loaded, unless it is one of `switched`. `SlotsNameLiveRuns`: for each phase of a run, which slots may
name it. `StudioTypesHold` is the type invariant.

`EditorsShowTheTruth`: `DocSpec => []ShownIsCurrent`, for any files and any number of
handlers, whoever saves the files; its exceptions are those of `doubt` (section 2, Documents) and the
documents that are no members. `EditorInv` says which of three things is true
of an open document that is not in doubt and of which no change is unseen: what is shown is
its report of now; or the one handler at work will
compute it, at its fan-out; or that handler holds its report of now and has yet to publish it
(`DueStays`, `LiveStays`: closing or opening a document with its file's own text changes no
live view). That a save answers the same needs one more fact, that a file of the
workspace that is open and saved reads the same through both.

**`HubProofs`** - `VersionsAreAlwaysStored`, for any number of requests however they
interleave and die: a request writes metadata from what it read some puts ago, so
the invariant says of each request in flight that the versions it saw are stored and
that the version it announces is its own earlier put; and artifacts only grow.

`RequestsAreTyped`: indexes only ever list entries, and a request that is not at a put
of a list holds none.

`AcknowledgementsStand`, `DedupsHaveTheSource` and `CountersAlwaysAgree` hold only for names on which no two
requests were at work at once (`contended` and `died` are the history variables),
so their invariants say what a request *alone on its name* knows.

- `AckInv`: what a request will write as metadata is what the metadata says now,
  extended; hence no put of its own can cut off a version that was acknowledged before.
- `DedupInv`: the hash index of a type names the source of a version of the metadata,
  or of the very next one, and the latter only while the request that put it
  is between its put of the hash and its put of the metadata.
- `CountInv`: a counter is put after the star key or the fork's document that it counts,
  so on a name a request has for itself it is off exactly by what that request is about to
  write. It adds that the stars and the packages published are finitely many, without which
  one more of them would not be a count of one more.
- `NoOrphans`: above the latest version of a name there is no artifact but that of a
  request about to announce it. So a put never lands on an artifact, and
  `ArtifactsAreImmutable` follows: what is stored stays stored, and stays what it is.

**`HubIndexProofs`** - `IndexesAreAlwaysCanonical`, as long as no two requests overlapped
(`shared`; two of them may write a list each from what the other has changed since). A list is put
one entry at a time, long after the metadata that asks for it, so `IndexInv` speaks of
the difference: `Pending` is the work on lists the request in flight has left (what is still to do
of its plan, and of the extends index that a type's plan continues with); a list and the latest versions
disagree on a name only where `Pending` has it (`Listed`, `Categorized`); and what is
pending is apt: an entry to add belongs where it goes, one to remove does not, by the latest
version of its name (`Apt`). The diff of the artifact read before the put against the one put is
shown to be just that difference (`PackagePlan`, `TypePlan`), which needs that the prior
artifact is still the latest when the metadata is put (`KnowsPrior`); and a category is looked at
for packages only after its own list is done (`PrunesLast`), so that it is dropped if and only if it
is empty.

**`HubClientProofs`** - `ClientsUseTheHub`: `ClientSpec => Spec`. Every step of a client
asks of the hub what anybody may ask, so all that is proved of the hub holds beside any
number of clients. `CleanCopiesAreTheHubs`: `ClientInv` says, for each step of a call, what
the client knows: that the request it waits for is the one it sent, hence that "created, version
N" speaks of the recipe it sent (`PublishOf`, carried through each step of the handler);
that what a sync fetched is still the artifact when it writes the file and
when it writes the sidecar (`Held`, by `ArtifactsStand`); that the sidecar it found is
older than what it fetched (`TypesTie`), and that between the two writes the file, edited or
not, is of the version about to be named (`FileTie`). So wherever a crash cuts, a readable
sidecar names what is there and is never ahead of its file (`Named`). A write that is cut short
leaves a file that is none (`Torn`) or counts as edited, of which `Genuine` says nothing, or a
sidecar that is none. `UncontendedHubIsALog` is the
refinement of `VersionLog`: initial states map to initial states, the put of a package's metadata
maps to `Publish`, every other step stutters on the versions; `OneWorkerHubIsALog` is what
the run checks.

**`CompositionProofs`** - `StagesAlwaysResolve`: `Spec => []StagesResolve`. The module of
a run is *closed*: every stage of a composition it holds is held too. `Links` makes a
deployed module closed, through the two facts about the least fixed point `Reach` that
it contains what it starts from and is closed under stages; folding the deployed
modules of a notebook keeps them closed, because a name taken from the first module that
holds it finds its own stages in some module, maybe another one. And every frame of the stack, and
the node about to run, is of that module (`Fed`). `StreamAlwaysReaches`: for every workspace whose compositions
take no records (the hypothesis `CompositionsTakeNothing`, which the recipes of run `composition`
satisfy and those of run `pipeline`, where the property is violated, do not),
`Spec => []StreamReachesNextStage`. The checks on a boundary between stages then let a composition come
first only, so every module that links is *flat*; the invariant `Streams` says that a composition
is only entered before anything has run, that from then on every frame has scraping stages ahead, and
that the top frame holds what ran last.

**`EngineProofs`** - `StepsHappenAtOnce`: `Spec => StepsAreAtomic`, for any recipes, lists, page
sizes, budgets and retries. The invariant (`EngineInvHolds`) is about the call under way:
what it has collected is exactly the pages before the one its request names
(`PageCollected`), though the page is counted in the driver, offset by one for a server that
counts from zero, and sent in the query from the second request on or in the body from the
first. One more page of an honest server is the next slice of its list (`NextItems`,
`OneMorePage`), so where each of the four strategies stops - an empty page, a total
reached, no cursor, no pagination - what was collected is the whole list, which is what the
abstract `Step` bound when the step began. Each page also binds its step's name on the way;
that is not seen, because the binding of the end replaces it (`BindTwice`). The first
request of a step maps to `Step`, a walk step to itself, `Abort`, a lost request or a spent
budget to `Fail`, and everything else stutters. The hypothesis `server.mode = "honest"` is
needed: a server that repeats its pages or shortens its total is read short or twice, and
the recipe cannot know.

**`AccountsProofs`** - `EndedSessionsStayEnded`: `Spec => []SessionsEnd`. A JWT is its
claims, so two tokens of one second are one token: what is proved is that every
retired token was issued in an earlier second than the one the user record holds, that a refresh
in flight found its token in that record, and that, unless two requests were about to put
one record (`raced`), at most one writer per login is between its read and its put.
`BurstsStayBounded`: `Spec => []BurstIsBounded`, for every `MaxInWindow` and `WindowSec`. The
property slides a window over the arrivals, the limiter only counts in its own; `RateInv`
ties the two together: the last `count` arrivals that were let through make up the stored window, the
first of them opened it, and what lies `MaxInWindow` arrivals or more before that opening is a
window's length earlier. A request at its limit arrived after all of them and holds the
counter as it is, because nobody else reads it meanwhile.

**Model-checked only.** Liveness, which needs ENABLED and fairness and is out of the
prover's reach: `DueRunsMoveOn`, `CorruptCronSurfaces`, `SignInEnds`, `RunEnds`, `RunsEnd`,
`CancelIsNotLost`. What a recursive definition computes for every input:
`SnapshotIsMeaning` (of which `StepsHappenAtOnce` is the part about the network; what is left is
that a stack walks the recursion) and the properties of `Language` and `Grammar`, whose walks over syntax are
RECURSIVE. `DriftIsAFall` computes the median from a sorted window of
history, a recursion over data; its general sides are `DriftIsBelowHalf` and
`FallOfMostIsDrift`. `NextTickIsFirstAhead` is stated
over a finite grid; its general form is `IntervalAfterIsAhead` and `IntervalAfterIsFirst`, and
the ticks of a cron expression are an assumption about the external crate.


## 5. Where the code and its words part

Each is in `PROJECT.json` with the quoted line. Two are shown by a run of their own.

- **A finishing run undoes a deploy** (`run.rs:115`, run `stale_row`). `run_once` writes
  back every column of the row it read before the engine. A deploy that committed
  meanwhile loses its pointer, so scheduled runs go on with the old version; a
  pause or a new cadence set meanwhile is undone too.
- **A nested composition loses its input** (`runtime.rs:152`, run `pipeline`).
  `run_recipe_node` does not hand the records of the stage before to a composition
  that is itself a later stage.

Daemon and scheduler:

- Two overlapping runs each derive health from their own row; the last to commit
  decides, even if it started first (`run.rs:106`).
- The time of a cron run is computed from now at each round, not from its stored
  `next_run`: a tick that passes while another run fires is lost, and of two cron runs on
  one tick only the first by name ever fires (`scheduler.rs:269`).
- `0.7 * 90.0` is 62.99..., so 63 against a median of 90 is ok (`health.rs:65`).
- `configure_run` of an enabled Run keeps a Fail health (`lib.rs:464`);
  `record_synthetic_failure` shows Fail on a Run that was disabled meanwhile
  (`scheduler.rs:177`); a Run that shows Fail already when its stored expression turns bad is
  skipped and nothing is recorded (`scheduler.rs:227`); an interval steps from the tick that was due, after any run
  (`scheduler.rs:276`).

- `derive_schema` sees the fields a type declares, not those it inherits: their values are
  dropped without an error (`output.rs:97`). A column keeps the type of the first deployment,
  and SQLite turns digits into numbers there (`output.rs:266`). A Bool is read back as an Int,
  a compound value as a string (`output.rs:433`).

Hub, its clients, sign-in:

- A renamed fork keeps the header name, so no client can sync or publish it
  (`forks.ts:115`). The client's type request lacks `extends`, so a workspace with shared
  types cannot publish (`types.rs:186`). The device flow's client and hub spell their JSON
  differently (`device.rs:18`), and the hub answers an expired code with 400 where the
  client looks for `expired` (`device.rs:112`).
- A publish takes the base version of a sidecar without looking whose package it is about
  (`operations.rs:413`), and a sync overwrites an edited recipe if there is an older sidecar, or
  another author's (`operations.rs:147`).
- Two publishes with one base that race are both acknowledged, and the second overwrites the
  version (`packages.ts:310`).
- Stars, forks and downloads write the whole metadata back: a lost update undoes a
  publish, not just an increment (`storage.ts:55`). The dedup of types looks at the source
  only (`types.ts:287`).
- `/device/poll` never reads the entry of the flow (`oauth.ts:236`). The rate limit's
  window does not slide (`http.ts:145`). Refresh and revoke that race undo each other, and
  two tokens of one second are equal (`oauth.ts:345`). `logout` ignores `--revoke`
  (`main.rs:1316`).

Language, engine, composition:

- A regex may start after a keyword used as a field name (`lexer.rs:206`); `$captures[2]`
  is never the strict index its comment describes (`parser.rs:1020`).
- The validator seeds its scope with every binding of the file (`validate/mod.rs:422`),
  compares a child only with its direct parent (`:672`) and only if the file declares the child
  itself (`:601`), and never compares the emits
  of a composition with its last stage (`:1507`).
- A built-in called by name takes the loop's item as its head: `coalesce($a, $b)` in a loop
  is the item, not $a (`eval/mod.rs:591`). `parseInt` of other text fails, where the docs
  have null (`transforms.rs:242`), as does `toString` of a list (`:183`).
- `Int % Int` stays Int, and overflows at the smallest Int (`eval/mod.rs:697`);
  `wikidataEntity` is accepted where it always fails (`:345`); `share fn` shares nothing
  (`workspace/mod.rs:460`); of a duplicated recipe name the signatures know the last and
  the run takes the first (`:758`).
- The request budget fails the run, where the docs say pagination stops
  (`engine.rs:474`). An item that is not in an array is collected but counted as none, which
  ends the pagination (`paginate.rs:54`).

Editor:

- The catalog of a focal file also reads the file on disk: a type deleted in the buffer
  stays known until the save (`workspace/mod.rs:700`). A sibling whose live buffer does not
  parse makes every other report a workspace error (`:704`).
- A document opened under a malformed `forage.toml` is not validated again when that is
  repaired (`server.rs:142`).

Studio:

- A reload stores its session without `workspace_switch` (`commands.rs:131`). A run, a deploy
  and the statuses load workspace and daemon one after the other, and a switch between the loads
  gives them one of each directory (`commands.rs:651`). The end of a run clears both slots,
  whoever's they are (`commands.rs:791`).

The models have these behaviours; the properties that such a race breaks say so, and
exclude it by a history variable (`displaced`, `switched`, `contended`, `died`, `shared`,
`raced`, `crashed`, `doubt`) rather than by leaving the step out. So where a hazard is such
a race, what is checked is that its harm goes no further: the notes of `hazards` say what of each is
excepted.

Smaller things that the models have and no document denies: `ensure_run` may reset a Run
that another call configured between its two locks; the records of a Run whose output
path was changed can no longer be read; records stored by a run whose row
cannot be written stay in the store with no row to name them; an I/O error of the
commit of a scheduled run leaves its tick due, and the loop fires it again at once.

## 6. Not modelled

- `forage-replay` (a file format), `forage-keychain` (a wrapper over the system's key
  store), `forage-wasm`, `forage-test`, and the sites: they keep no state of their own that a property could
  be about.
- **daemon**: reads without effect (`list_runs`, `get_run`), host hooks and
  logs, the scheduler's lifecycle (`start_scheduler`, `close`, `LiveGuard`), errors of
  `list_runs`; the order in which records are read back, and names that SQLite takes for one.
- **engine**: throttling, templates, cookies, encodings.
- **language**: what texts and numbers come to, objects that hold Refs, regexes bound to a
  field (a panic), enums, alignments, the conversion of snapshots to
  JSON-LD, warnings of the validator.
- **LSP**: completion, hover, symbols, go to definition, workspaces inside workspaces.
- **workspace**: the contents of the manifest and the lockfile; **browser**: the webview's driver.
- **hub**: `whoami` and the reads that change nothing; KV's eventual consistency: a get
  returns the latest put. **hub client**: the resolution of imports, HTTP encodings.
- **Studio**: file commands beyond saving, the notebook, the hub commands, the browser
  driver, and all rendering. **CLI**: the commands that only call a crate above.
