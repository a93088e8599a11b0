# A verification project for Yu'lon

Yu'lon (`src/pylauncher`) is a desktop launcher, written in Python with Qt, that installs,
runs, updates and repairs private game servers. Most servers run in Docker; the launcher builds
them from source, applies modules to them, backs their databases up, and updates itself. What
makes it hard is not any single screen but what happens between screens. Two users of a computer
may each have a Yu'lon on the same Docker daemon. A job is closed half-way and its `mysql` client
keeps writing. The program replaces its own files while a second copy is being opened. This
directory holds TLA+ models of the parts in which such things meet, the TLC configurations that
explore small instances of them, and proofs, by the TLA+ proof system, of the results that matter
for every instance.

All paths below are relative to `src/pylauncher/yulon` unless they start with `src/`. The table
`map` in `PROJECT.json` names, for each definition, the lines it was translated from.

## 1. The system

### Parts and state

| Part | Code | State it keeps | What must be true of it |
|---|---|---|---|
| Self-update, the swap | `selfupdate/stage.py`, `swap.py`, `cleanup.py` | the install folder, `.yulon-new`, `.yulon-old` and their markers | an install that can start is one build; the old build survives until the new one has opened |
| Self-update, who swaps | `selfupdate/layout.py`, `swap.py`, `src/pylauncher/main.py` | lock folder with owner and pid, stamp, stand-down file | one helper moves, only after Yu'lon has closed, never after the player was told nothing changed |
| Self-update, fetching | `selfupdate/detect.py`, `fetch.py`, `update.py` | a downloaded archive | nothing is unpacked that was not verified |
| Module folder swap | `folder_swap.py`, `module_source.py`, `apply.py` | `modules/<id>`, its partial and its old copy | the copy the player has is never lost |
| Module engine | `apply.py`, `module_deploys.py`, `manifest_store.py` | deployed files, applied SQL, answers | a removal undoes what an install did |
| Module moves | `module_moves.py` | `.yulon-module-moves.json` | a build that stopped is known to be unbuilt |
| Server reservation | `docker.py` | tables of presses, leases, holds in memory; a container `yulon-busy-<id>` | one Yu'lon works on a server |
| Backup and restore | `controller_wow_wotlk/maintenance.py`, `ui/controller_view.py` | dump files, the restore marker | no server runs over databases that are being written |
| Rebuild | `catalog/native.py` | four names of every image; records of a kept build, a stopped build, an owed start | a Start never runs a mixed or an untested build; a kept build is used only for the files it was made from |
| Install | `catalog/native.py`, `catalog/installer.py` | `.yulon-install.json`, sources that are turned off | a stopped install resumes |
| Ordered start, realm flag | `catalog/ordered_start.py`, `realm_flag.py`, `dashboard.py` | the realm's offline bit; holds, epochs and marks in memory | a realm shown online has a world behind it, and one with a world is shown |
| Stop and afterwards | `after_stop.py`, `stop_choice.py` | work queued for the next Stop | queued work runs once |
| Known servers | `state.py`, `update_state.py`, `ui_settings.py` | `state.json`, `update.json` | a rewrite loses no other entry |
| Process servers | `process_controller.py`, `winjob.py` | `.yulon-process.json` | a Stop ends the process it started and no other |
| Bot pool reset | `controller_wow_tortoise/poolreset.py` | a token in `aiplayerbot.conf`, its copies, the database's record of it | a reset runs once, and what the player is told of it is true |
| Start over, moving | `start_over.py`, `move.py`, `move_server.py`, `move_flows.py` | the record of a bring-in and of a start over in the server folder; packed archives, a copy of the databases, a staging folder | nothing of a bring-in that stopped is removed before it is copied, and its folder ends in a server or as it was |
| Backup shelf | `backup_shelf.py`, `kept_backups.py` | the list of backups | what is deleted is what was planned |
| Command channel | `channel.py`, `channel_setup.py`, `soap.py` | an account in a server | an account is never made twice |
| Jobs of the interface | `ui/widgets/job.py`, `runner.py` | threads in flight | a result reaches its widget once, or not at all |
| Uninstall, networking, git, platform, game clients, tuning, dashboards, support | `purge.py`, `networking.py`, `git.py`, `platform.py`, `client_packs.py`, `tuning.py`, `dashboard.py`, `support/` | mostly none of their own | plan and do on one thread |

### How the parts meet

A press in `ui/controller_view.py` runs on a thread of `ui/widgets/job.py` and calls a controller
(`controller.py` and its subclasses). Anything that touches a server enters a context manager of
`docker.py` first: `lifecycle` for Start, Stop and recreate, `maintenance_lease` for Backup and
Restore, `server_hold` for SQL and account writes, `hold_the_server` inside the last two. Those
context managers are where one process's threads meet (tables under one lock) and where processes
meet (the container). The restore leaves a marker file, and every start path asks it
(`catalog/native.py`, `folder_start_refusal`). The installer and the module engine share the
server folder and its sidecar files. The self-update meets everything else only through the
question whether a job is running, which decides if Yu'lon may close.

### Which behaviours are hard

- **Death anywhere.** Every protocol on disk must survive a kill between any two file calls: the
  two renames of a module swap, the moves of an update, the marker of a restore.
- **Work that outlives its owner.** A helper outlives the Yu'lon that started it, a `mysql`
  client outlives "Quit anyway", a `docker run` outlives the command that asked for it.
- **Time limits that race an answer.** Yu'lon gives up on a helper after ten seconds and the
  helper reports in the eleventh; a Stop waits five seconds for its container, and Docker makes
  it in the sixth.
- **Partial failure.** A rename that is refused, the undo of that rename being refused too, a
  delete that stops half-way.
- **A name that has a new owner.** The lock folder, the working folders and the reservation
  container are all found by name and may belong to somebody else by then.

`PROJECT.json` lists these hazards at their lines, with the properties that would notice.

## 2. The plan

Modules come in the order in which a mistake would cost a player most.

1. `FolderSwap` with its abstract specification `ModuleFolder` (done, proved).
2. `UpdateSwap` with `AtomicInstall` (done, proved under the stated assumptions).
3. `HelperLock` (done; its safety proved under the stated assumptions).
4. `ServerHold` (done, with liveness; its safety proved). Ahead: more than one take per job, and a
   composition with the rebuild, which keeps a reservation while it compiles.
5. `RealmFlag`, the ordered start and the flag (done; the hold proved).
6. `Rebuild`, the press with its rollback and its kept and stopped builds (done, its safety proved).
   Ahead: an abstract specification, that a server has an old build or a new one.
7. `PoolReset` (done; its safety proved).
8. `InstallSpine`: the resumable stages and the state file between them, sources turned off and
   written back.
9. `ModuleMoves`: what was moved since the last good build, over stops and rebuilds.
10. `JobDelivery`: results queued for widgets that are destroyed, and the sweep.
11. `StartOver`, a start over that is stopped anywhere, beside a bring-in (done; its safety proved).
    Ahead: the export, and a bring-in's own steps.
12. `ChannelSetup`, in which an answer is lost and the step must not be made twice.
13. `StateFile`: two read-modify-write cycles on one file.

Every module that is proved about is written without recursive operators, its parameters are
CONSTANTS with a named assumption, and its invariants are conjunctions of named parts.

## 3. The modules

### FolderSwap

A path holds nothing or a copy, and a copy has a version and is whole or damaged. The variables
`dest`, `aside` and `partial` are `modules/<id>` and its two names in the staging folder; `step`
is where a press is. `SettlePartial` and `SettleAside` are `folder_swap.settle`, run at the start
of every press and again by the copy; `StartCopy` and `FinishCopy` are `copy_folder`; `MoveAside`,
`MoveIn` and `PutBack` are the renames of `_swap` with its undo; `DropAside` and `DropPartial` are
`remove_quietly`; `Delete` is the removal, one file at a time. `Refuse` counts calls that the file
system turns down, and `Crash` may come at any step. `owned` is not a variable of the code: it
records what the last press left the player with, so that properties can speak of losing it.
`ModuleFolder` says what all this amounts to: an install replaces one version by another in one
step, and only a removal loses files.

### UpdateSwap

`target`, `backup` and `staged` give the content of every shipped entry in the install folder,
`.yulon-old` and `.yulon-new`; `oldDir` and `newDir` say if those folders are there and carry the
marker that proves them Yu'lon's. The app's actions follow one press: `PressUpdate`, the two
`Prepare` actions and `MarkNew` (`stage.prepare`), `Stage`, `Plan` and `MarkOld` (`swap.plan_swap`),
`Restart`, `Close`. The helper is the shell program in `swap.py` (`POSIX_FOLDER_HELPER`):
`HelperChecks`, `MoveOut`, `MoveIn`, and, after a move that failed, `TakeOut` and `PutBack`, then
`Relaunch`. The order of moves is in `First` and `Last`: the executable leaves first and arrives
last, and that alone tells a broken install from a whole one. `Tidy` steps are
`finish_previous_update` at the next start. A delete of a folder may stop anywhere
(`layout.discard_ours`), and then leaves some of it, with the marker or without. The player's
actions are the recovery of the package's README: delete what the update brought, move the backup
in, start.

The update of an AppImage (one file) and the PowerShell helper keep to the same protocol and are
not modelled again. A behaviour contains one update that completes; after it the next press finds
the same state the first one did.

### HelperLock

The same story from the side of agreement. Attempts are named by their nonces, and each has a
helper whose steps are single file calls: make the lock folder, write owner and pid, write the
stamp, wait for the app, look again, move, and give the lock back in the order of the shell's exit
trap. The app's steps include all it does before and after: clearing a stale lock in two calls,
standing a helper down, awaiting its report, terminating and killing it, and discarding the
folder. `told` is history: the attempts that the Yu'lon they wait for has asked to make way.
`AtomicMkdir` is false in every run, because the `mkdir` of uutils looks first and makes
afterwards, and can answer two callers that they made the folder. `Outlives` says whether a helper
may survive being killed.

**Time.** The code relies on time limits that differ by orders of magnitude: a claim is a few
system calls, a lock that names nobody is rubbish after thirty seconds, a helper gives up after
six minutes. The model has no clock. `Long` says that a long step of the app does not fit into a
short step of a helper, and `Frozen` lists the helper's steps that are exempt, in which the
helper may be held up for any time. Results are therefore of the form "with helpers held up at
these places". What happens outside that assumption is known: a helper held up in the middle of
claiming can lose its lock to the app's thirty seconds; one held up between the check and the
remove of its exit trap can remove a lock that has a new owner; one held up at `stamp` may find
itself stood down after its report was accepted. These are windows of microseconds in the code.

### ServerHold

One server and the Yu'lons of one Docker daemon, one for each user. A job is one press. The
variable `marks` holds what it has entered in the five tables of its own process
(`docker.py`, `_PRESSES`, `_IN_FLIGHT`, the lease, `_HELD`, `_ALONE`); `lock`, `claim`, `users`
and `lost` are the bookkeeping of the reservation (`_RESERVE_LOCKS`, `_RESERVATIONS`, its count,
its event); `box` is the container itself, and `late` are requests that Docker may still carry
out after the command that made them was ended.

- *Entering.* `_press_on`, `_in_flight` and `maintenance_lease`, in the order of the code. `Look` and
  `OrphanRefuses` ask for a load that was left behind, before the job is in any table and outside
  the lock; an orphaned load refuses everything but a Stop. `Count` then enters what is in motion or
  the lease, which a hold or another lease refuses, and `Press`, after a second look, the press
  itself, which a lone writer of another kind refuses. Between these anything may happen.
- *Reserving.* `Join`, `TakeTheLock`, `Made`, `Taken`, `Silent`, `TakeTimesOut` are `_server_claim`
  and `_new_reservation`. A Stop is special at every turn: it goes on when the lock or Docker
  takes too long, and asks its player once when another Yu'lon holds the server. `StopAnyway`
  removes that holder by container id, `StopRegardless` goes on without. `GoesOnMoot` is the answer
  that there is no reservation to be had (no Docker program, a daemon that is off, a folder that
  takes no id): every kind of job then goes on without one, and is remembered in `moot`. What such
  a job begins asks again by itself, a start with its compose command and a backup or restore with
  its hold, and may have a reservation from there on (`again`, `HoldsAtTake` of the proofs,
  `giveBack`).
- *Working.* A start asks the folder's record, then whether its reservation was lost, then
  brings the database and the world up. A Stop takes the world down and then the database. A
  restore holds, starts the database if it was down, plans again, makes a safety copy, writes its
  marker, starts `mysql`, writes down its pid, and puts everything back.
- *Leaving.* `LetGo` counts down; the last job out takes the lock, has Docker remove the container
  by id, and keeps the lock until the container is gone (`WaitGone`), so that a press that comes
  after it neither meets its own leftover nor makes a second one under the same name.
- *Around it.* `Crash` ends a Yu'lon in the middle of its jobs, `DockerRestarts` ends everything
  Docker ran, `OrphanEnds` is a load whose Yu'lon is gone, `ForgetRecord` is the player putting
  the record down.

What is folded together: SQL writes, account writes, the repair of a table and a move take the
same hold and are one kind, `write`; nested takes of one press are its own single take; compose
down stops world and database in two steps of one command; a world whose database goes away ends.
Two users of one computer and a Windows and a WSL Yu'lon look alike, for in both cases the recorded
pid means nothing to the other.

### RealmFlag

The offline bit of a realm's row. The game clears it when its world listens and never sets it;
Yu'lon sets it. One press runs at a time: `Press`, then the looks and statements of
`mark_offline` (`LookToMark`, `Mark`), the work itself (`WorldDown`, `RestDown`, `ServersUp`), the
waits of the ordered start (`WorldHeard`, `StartAuth`, `AuthHeard`) with `open_realm`
(`LookToOpen`, `Open`), and after a press that was given up `clear_offline_if_world_up`
(`LookToPutBack`, `PutBack`). Beside it runs the dashboard's tick, which feeds the `Keeper`:
`BeginTick`, `ReadContainer`, and from there a mark of a world that does not listen (`KeeperMarks`,
`Heard`), or a look for a bit that stayed behind (`ReadFlags`, `Confirm`, `Gate`, `KeeperClears`,
`LookAgain`, `KeeperRemarks`). Each action is one call of Docker, and everything may happen between
two. `hold` and `moved` are the counts and epochs of `deliberately_offline`.

One Yu'lon is modelled, as the hold is "in-process only" in the code too. The waits between two
tries of a tick (thirty seconds to ten minutes) only delay it and are left out. A world
that loads for ten minutes or more is `overdue` (`GrowsOld`) and counts as ready whatever its log
shows, whether its run was ever marked or not (`ReadReady`); one whose database failed to update is
`broken` (`UpdateFails`) and does not; and a tick that finds no log decides by the time alone
(`ReadNoLog`). `faults` bounds failing calls and ends of Yu'lon; `early` and `meant` are
history.

### Rebuild

Every image has a live name and may have three more, `-rollback`, `-failed` and `-parked`; a build
is a number, and `made` says from which content of the folder it was made. The actions follow one
press: settle a build that landed since (`Settle`, `PutBack`), give the old images their second
name (`Keep`), use the kept build or compile (`Prepare`, `Use`, `Compiled`), replace the servers
(`Replace`, `StartNew`, `Ready`); or `Failed`, which asks Docker whether a live name moved, and the
restore: `StopNew` or `WaitForDocker`, `NameNew`, `MoveBack`, `KeepNew` with its three steps,
`Drop`, `Restart`. Tagging goes image by image, and a refusal may come at each. Docker's side is
`ReadContext`, `Export` and `Dies`; a compile that was stopped takes these steps long after its
press has ended. `Start` asks what `folder_start_refusal` asks. What the folder's fingerprint
distinguishes is a content; a content may also come back (`editBack`).

`Upsets` names what may go wrong, each at most once, and a run bounds how many do. Seven of them
leave no record in the code: a refusal while the rollback is kept, a walkout in the wait for
Docker, a kill, an image that arrives while a later press handles the names, a stopped build of
which only some images arrive, an id Docker does not give when a press asks whether a stopped build
has landed (`SettleUnread`), and a second stopped compile. The safety properties say what holds
without those seven. That a kept build is exact holds without two more: a content that comes back
(`editBack`), and a stopped build that arrives whole under a later compile that fails (`landed`).
With any of these it does not hold, and section 5 says which are disagreements with the code's own
words.

A compile that fails tags nothing itself. Two compiles export their images one after the other. A Start
or Stop cannot be pressed during a press, for the press holds the reservation (`ServerHold`). Left
out: servers whose images were gone before the press and keep no rollback, presses that start
nothing because an import has not ended, the update's work while the servers are down, scripts that
are laid in part, names Docker will not remove, records that cannot be read or written, and the
rewrite of the recipe.

### PoolReset

`conf` is the request in `aiplayerbot.conf`, `copies` are the Tuning tab's backups of the file,
`pool` is the characters database with the token it records, `dump` a backup of it, and `log` and
`named` what the worlds have logged. The world is the environment: it reads the request once, late
in its start (`PlanNothing`, `PlanReset`, `PlanRefused`), and then deletes and makes the bots
(`Delete`, `Applied`, `Fails`). A press enrols, writes (`WriteKey`), is cancelled or restarts the
server, and watches; the branches after a failed stop (`StopFailed`, `StopRead`) decide from the
container's start time and the run's log whether the request may be taken back. `Final` is
`read_log`, `FinalInAll` what it makes of a log of more than one run. `Restore`, `Load` and
`RestoreFails` are the restore with `before_restore` and `after_a_failed_restore`; `Revert` is the
Tuning tab putting a copy of the file back, which goes through `put_back_file`.

`StillBooting` is the one assumption about time: a world needs more than a minute to come to its
plan, a decision that is already made is carried out in less. `SetOff` is the player, who sets the
key to off only when the messages allow it. Left out: the value `always`, the sections of the file,
the enrolment (it changes nothing here), the restart that an enrolment owes, "Reset to default",
and the window between the one read and the one rename of `put_back_file`.

### StartOver

One server folder in which a bring-in was pressed, and the Yu'lons of one computer. `moveIn` and
`reset` are the two records in the folder (`MOVE_IN_FILE`, `RESET_FILE`), `owner` is the install
record, `tree` everything else, `db` what Docker has, `up` whether the server's
containers run, `dump`, `archive` and `staging` what lies
beside the folder. `pc` is where each Yu'lon's Catalog job is; there is one job to a Yu'lon, so the
gates within a process have nothing to refuse.

- *The start over.* `Ask` is the question of the tile, `Begin`, `WriteReset` and `LookAgain` are
  `_begin` with its look before and after the record is written, `Revalidate` is what a resumed
  press proves of the copy, and `FindProject` to `SetAside` are the six steps, each as many actions
  as it has points at which a death is told apart: the removal is the volumes, the files and last
  the install record; the set-aside is the name, the archive in two halves, the source, the step.
  `StepFails` keeps or takes away the record by whether the removal has begun. The copy starts the
  database (`Copy`) and puts it down when it is made (`CopyEnds`); a failure or a death between the
  two leaves it up, and the removal refuses a folder whose containers run. They are stopped once:
  a press that resumes past that step does not stop them again.
- *The plain install.* `Guard` and the clone, in the folder or, while the reset's record is there,
  in a staging folder that is marked, and moved in with `.git` first. The reset's record goes with
  the first stage that is recorded (`RecordStage`, `Unmark`). What comes after is `Build`.
- *The bring-in.* `PressBringIn` is the first look, `NameIt` writes the press into the record,
  `LookForReset` looks again. `BringClone` empties the folder, records and all, and `BringInstall`
  puts the record back; `BringLoad` is the last step, whose load outlives a Yu'lon that ends.

`Sees` says whose processes each Yu'lon can tell to run: a process of another user counts as gone
(`maintenance._load_process_alive`), so that a bring-in of another user's is not seen by a start
over (`BeingPressed`). `faults` bounds presses that fail, Yu'lons that end and dumps that are
damaged. `MayDwell` says
whether a press may be held up, or end, between its two looks: a bring-in between `folder_refusal`
and the write of its record, a reset between its record and its second look. These are a few file
calls in the code. The runs and the proofs exclude it, and section 5 says what it costs.

Left out: that a reservation is seen to be lost, other than as a failure between two steps; the
server's backups, which move beside the folder; a second package; a
fresh install over a folder without either record; and staging folders that no record names.

## 4. The runs

| Run | Module, configuration | Question |
|---|---|---|
| `folder_swap` | `MCFolderSwap`, `MCFolderSwap.cfg` | Is the player's copy safe over refusals and crashes, and does the swap implement `ModuleFolder`? Yes. |
| `update_swap` | `MCUpdateSwap`, `MCUpdateSwap.cfg` | One failing move, a kill anywhere, deletes that stop anywhere: one build, nothing lost, recoverable, relaunched, and nothing still wanted in a folder that lost its marker? Yes. |
| `update_swap_rough` | `MCUpdateSwapRough.cfg` | With everything allowed, does the helper itself ever destroy the last copy? No. |
| `helper_lock` | `MCHelperLock`, `MCHelperLock.cfg` | Three helpers, three sessions, helpers that cannot be killed: one mover, an honest handshake, and no move by a helper that was told to make way? Yes. |
| `helper_lock_session` | `MCHelperLockSession.cfg` | In one session: no move after giving up, and does everything end? Yes. |
| `server_hold` | `MCServerHold`, `MCServerHold.cfg` | A restore, another job beside it and one in a second Yu'lon: does the reservation, with the tables and the record, keep them apart? Yes, but for a job that has none because it was ended from elsewhere or was not to be had; a load is alone in its own Yu'lon even then. |
| `server_hold_live` | `MCServerHold`, `MCServerHoldEnds.cfg` | Does every press end, also when Docker does not answer or a Yu'lon is quit, and does a load nobody wrote down keep the world from starting? Yes, with the same exception for the world. |
| `realm_flag` | `RealmFlag`, `MCRealmFlag.cfg` | Does the tick respect a hold, and does the bit follow the world in the end? Yes, except over a world whose bit a press took off early and over a load that is ten minutes old. |
| `rebuild` | `MCRebuild`, `MCRebuild.cfg` | Do the records keep every Start from a mixed or an untested build, whatever two upsets happen? Yes, but for the seven upsets that leave no record. Is a kept build exact? Yes, but for those and two more. |
| `rebuild_stopped_twice` | `MCRebuildStoppedTwice.cfg` | Is a kept build always made from the files as they are? Not after two stopped compiles. |
| `pool_reset` | `MCPoolReset`, `MCPoolReset.cfg` | Is what a press says of its request true, and does no request run twice or against a restore? Yes. |
| `start_over` | `MCStartOver`, `MCStartOver.cfg` | A bring-in that stopped is started over, beside a Yu'lon that may press Bring-in, over failures and deaths at any step: is anything lost, and does it end? Nothing is, and it does, unless a database is left up after the removal has begun. |

`TypeOK` of every module is proved for every instance (section 6), as is `AReservationIsAPress` of
`ServerHold`, and no run repeats them.

Twenty-one more configurations are kept beside the runs. Each checks one sentence of the sources, or
a property without the assumption that the runs make for it, on the module of the run it belongs
to, and ends in a counterexample; section 5 says what it shows: `MCFolderSwapLeftover.cfg`,
`MCUpdateSwapHandStart.cfg`, `MCUpdateSwapTwoFaults.cfg`, `MCUpdateSwapHalfRecovery.cfg`,
`MCUpdateSwapStoppedDelete.cfg`, `MCHelperLockOutlives.cfg`, `MCHelperLockEarlierSession.cfg`,
`MCServerHoldTwoUsers.cfg`, `MCServerHoldMoot.cfg`, `MCRealmFlagEarly.cfg`,
`MCRealmFlagOverdue.cfg`, `MCRebuildTouched.cfg`, `MCRebuildPartial.cfg`, `MCRebuildLanded.cfg`,
`MCRebuildUnread.cfg`, `MCPoolResetAgain.cfg`, `MCStartOverTwoBringIns.cfg`,
`MCStartOverDwell.cfg`, `MCStartOverEnded.cfg`, `MCStartOverTwoUsers.cfg`,
`MCStartOverLeftUp.cfg`.

### Bounds, and why they are enough

`MCFolderSwap` has three versions and three refusals: a swap can fail in its second rename, its undo
and the delete afterwards, which are the three calls that depend on one another. Presses and crashes
are unbounded. `MCUpdateSwap` has four entries: the executable, a folder, a file, and a folder that
only the new build ships; a fifth would repeat one of these. One failing move is the claim made by
the code's documents, two are tried where the claim is refuted or where only `HelperOnlyMoves` is
asked. `update_swap_rough` uses two entries because deletes may there leave any subset of a folder.
`MCHelperLock` has three attempts: two that compete and one that lingers from before. Attempts are
interchangeable, which the symmetry uses in the runs without liveness. `MCServerHold` has a restore,
a second job in the same Yu'lon and a job in another, and each of the last two is a Start, a Stop, a
backup or a write: every pair of kinds meets within a process and across, and a third job can come
upon what two have left behind. Each job runs once (the proofs allow any number of jobs), and a
restart of Docker takes reservations away once. The job beside the restore is the one that Docker
may leave without an answer (`Unanswered`) and that may find no reservation to be had (`Mootable`):
it shares the tables with the restore and the server with the other Yu'lon. The Yu'lon of these two
is the one that may be quit (`Quits`), since it has more to leave behind. `MCServerHoldEnds.cfg`
leaves the second job a smaller choice of kinds, because liveness needs the whole graph: one job
Docker does not answer and one Yu'lon that ends are what a wait can hang on. `MCRealmFlag` has two
starts of the world, so that a tick can act on a run that is gone, and one fault, the put-back that
fails or the Yu'lon that ends; presses are unbounded. `MCRebuild` has two images, the least number
that can be mixed; two contents of the folder; three builds, so that a stopped one, a later one and
the first meet; and any two of its upsets. `MCPoolReset` has two tokens, three starts and one upset;
with two upsets (7.4 million states) it finds nothing either. `MCStartOver` has two Yu'lons of one
user, of which one brings in, three bring-ins (one that makes the state, one that carries on, one
beside a reset) and four faults: enough for a death in the removal, one in the set-aside and one in
the clone's move, with a damaged copy between. Installs are pressed any number of times. A third
Yu'lon, with a second Install beside the bring-in (312,000 states), breaks none of the safety
properties either.

`CHECK_DEADLOCK FALSE` stands in the configurations of `HelperLock` and `ServerHold`, where
sessions, attempts and jobs run out, in those of `Rebuild` and `PoolReset`, where builds, tokens and
starts do, in `MCStartOver.cfg`, where a finished server leaves nothing to press, and in
`MCUpdateSwapRough.cfg`, where an install that lost its executable and its backup really is at an
end.

### Fairness

`UpdateSwap`'s `FairSpec` asks for weak fairness of the helper's next step: it is a process of its
own which nothing suspends, and every one of its loops is over a finite list. Nothing is asked of
the player or the app. `HelperLock`'s `FairSpec` adds weak fairness of the app's own steps, each
of which is a call that returns or a wait with a time limit, and of a helper's giving up, which
is its count of ticks. Presses, closes, deaths and kills are never fair.
`ServerHold`'s `FairSpec` asks for weak fairness of each job's own steps, all of which are calls
with a time limit, and of Docker removing a container it was told to remove. `RealmFlag`'s asks it
of the tick alone: it comes every five seconds and each of its calls returns; nothing is asked of
presses and worlds. `Rebuild`'s asks it of the press's own steps and of Docker reading and
exporting a build, since a compile ends by itself. `StartOver`'s asks it of every job's own steps, of
a load that Docker still runs, and, alone of all, of the player: a press that was refused or failed
says to press Install again, or to move a folder away, and `StartOverEnds` is about a player who
does.

## 5. What was found

One of these, the second, is a run that ends in a counterexample, with an entry of `PROJECT.json`
that quotes the line it contradicts; for the others the configuration that shows them is named.

1. `MCUpdateSwapHandStart.cfg`: `finish_previous_update` does not look for a helper before it deletes
   the working folders. A start by hand in the second between the app's end and the first move
   loses the update, and with bad timing the backup.
2. `rebuild_stopped_twice`: the record of a stopped compile is one file. A second stopped compile
   overwrites it, and when the first one's images then land they are kept under the fingerprint of
   the second, and later used as "made from exactly the files in this" folder
   (`catalog/native.py:13167`).
3. `MCFolderSwapLeftover.cfg`: `folder_swap.settle` cannot tell a copy that a stopped swap left
   aside from one that could not be deleted; after the module is removed, the next press brings the
   old copy back. `remove_quietly` says such a copy "costs disk space and nothing else"
   (`folder_swap.py:145`).
4. `MCUpdateSwapTwoFaults.cfg`: when a move of the helper's undo fails, it still puts the executable
   back, which the documents say means a whole build (`selfupdate/cleanup.py:25`).
5. `MCUpdateSwapHalfRecovery.cfg`: `stage.prepare` discards a marked backup even when it holds the
   only copy of an entry.
6. `MCHelperLockOutlives.cfg`: a helper that survived being killed before it took the lock loses its
   stand-down note with the folder, and moves an update that was staged later.
7. `MCServerHoldTwoUsers.cfg`: the record of a running load is believed only if the pid belongs to
   the same user. A second user's Yu'lon therefore takes an orphaned load for dead and restores next
   to it.
8. `MCRealmFlagEarly.cfg`: a Stop that is given up over a world which still loads takes the bit off,
   because `clear_offline_if_world_up` asks only whether the container runs, and the Keeper, which
   has marked this run already, does not mark it again: the realm is listed online for the rest of
   the load, against "its realm is listed Offline until the world server says it is up"
   (`realm_flag.py:460`). `open_realm` after a world died and was revived does the same.
9. `MCRebuildTouched.cfg`: a press that had the old servers stopped, whose new build never started
   and whose names Docker then refuses to move back, owes no refusal (`_NotPutBack` with
   `untested` false), and the next Start runs the untested build, against "a new build / that never
   started is never what the next Start runs" (`catalog/native.py:10822`).
10. `MCRebuildPartial.cfg`: a stopped compile that has moved some names and moves the rest after
    the restore leaves a mix that no record covers, against the docstring of `rebuild`.
11. `MCPoolResetAgain.cfg`: Rebuild pressed over the request of a half-deleted pool and then
    cancelled writes `off` over it instead of the earlier value, and the half pool is stranded,
    against the module's docstring (`controller_wow_tortoise/poolreset.py:60`).
12. `MCStartOverTwoBringIns.cfg`: nothing keeps a second Yu'lon's Bring-in from writing its name over
    that of one which works, and from dropping it when the server's reservation refuses it, against
    "A record names its press while it runs" (`move_server.py:737`). A start over in between no
    longer sees that the first one works.
13. `MCStartOverDwell.cfg`: a bring-in that is held up between its first look and the write of its
    record while a whole reset passes writes the record again, into the folder the plain install
    now works in. "Whichever of the two looks second sees the other" (`move_server.py:1521`), and so
    its second look refuses it, or, once the install has taken the reset's record away, does not;
    either way the record stays in a new server, which then reads as a bring-in that did not finish.
14. `MCStartOverEnded.cfg`: a reset that ends between its record and its second look, just as a
    bring-in past its own goes on with a load that was cut off, leaves its record in a server that
    is then finished. Install refuses that folder for good ("The bring-in's record left this
    folder", `start_over.py:161`), and so does Bring-in, though nothing is wrong with the server.
15. `MCRebuildLanded.cfg`: a compile that was stopped at one content of the folder lands whole
    while a press compiles a later content, and that compile fails. `rebuild` sees that the live
    names moved and reads the folder a second time as if its own compile had finished
    (`catalog/native.py:10576`), so the restore keeps the earlier build under the later content's
    fingerprint, and the next press uses it as "made from exactly the files in this" folder
    (`catalog/native.py:13167`). This came up in the proof of `AKeptBuildIsExact`, whose
    strengthening failed at a compile that fails.
16. `MCUpdateSwapStoppedDelete.cfg`: a discard that stops part-way (`selfupdate/layout.py:641`) may have
    deleted the marker first. What is left is a folder that no later start takes for Yu'lon's own
    (`selfupdate/layout.py:636`), and it stays, while of the working folders the package's README
    says that "All three are removed the / next time the new version starts"
    (`src/pylauncher/README.md:222`).
17. `MCHelperLockEarlierSession.cfg`: a helper that is slow to report outlives the Yu'lon that began
    it, finds that one gone, and moves the install's files under the next Yu'lon, which is open
    meanwhile and which it does not wait for. Nobody told it to make way.
18. `MCServerHoldMoot.cfg`: a job that finds Docker off, or the server's folder not writable, goes on
    without a reservation, because "nothing can race on a daemon that is not answering"
    (`docker.py:9690`). The daemon may answer the next command, and the folder may be another user's
    to write: two Yu'lons then restore one server together.
19. `MCRealmFlagOverdue.cfg`: when the mark of a Start fails and the world has loaded for ten minutes
    before a tick reads it, the dashboard reads it as ready and the Keeper, which is told of worlds
    that are not, never marks it: the realm is listed online for the rest of the load. The
    sources know of the rule that it "is no proof that a world listens" (`realm_flag.py:400`) and
    use it only to clear nothing.
20. `MCRebuildUnread.cfg`: a press that looks whether a stopped build has landed counts an id Docker
    does not give as a name that has not moved (`catalog/native.py:13260`). Of a build that landed
    in part it then keeps the mix as the rollback, and the record, which would have refused the next
    Start, is read again as if the press had proved the names. Elsewhere "a rebuild's Stop counts an
    unanswered id as a tag that moved" (`docker.py:8174`), and "destructive work on an unanswered
    question fails closed" (`catalog/native.py:12610`).
21. `MCStartOverTwoUsers.cfg`: a start over asks whether the process named in a bring-in's record
    runs, and a process of another user counts as gone. It goes on beside that user's bring-in,
    though the record is there "so a 'Start over with a plain install' of this folder (this
    Yu'lon's or another's) is refused instead of resetting under it" (`move_server.py:1490`).
22. `MCStartOverLeftUp.cfg`: the removal fails, the dump is damaged, the next press copies again, and
    that copy fails or its Yu'lon ends with the database up. "stopped" is done and is not done
    again, and the removal refuses a folder whose containers run (`purge.py:871`): every later press
    ends there, against "press Install on this tile again to finish starting over"
    (`start_over.py:178`). Install and Bring-in refuse the folder too, until somebody stops the
    container.

Three more ways in which `PoolReset` goes wrong are named upsets of that module, and its properties
except them: a world that was booting at the press and reads its request before it is stopped, so
that "nothing will happen at the next restart" is said of a request that is being carried out
(`boot`); a world that refuses, under a press, to go on with a half-deleted pool, whose request is
then taken back (`balk`); and a copy of the file without a request that is put back over a pending
one of a half-deleted pool (`revert`).

## 6. What is proved

The proofs are in `FolderSwapProofs`, `UpdateSwapProofs`, `HelperLockProofs`, `ServerHoldProofs`,
`RealmFlagProofs`, `RebuildProofs`, `PoolResetProofs` and `StartOverProofs`. They assume only the
named assumptions on the constants, and what is said here. Every safety property that a run checks
is the subject of a theorem, and so are both refinements; each strengthening was checked by TLC on
small instances before it was proved. Where a theorem assumes something of the constants, a
configuration of section 5 or a remark below says what happens without it.

**FolderSwap.** `OwnedCopySafe` holds for any versions and any number of refusals. The invariant
adds to the property what each step of a press relies on (`StepInv`): between the two renames the
old copy is aside and whole; nothing is aside while a copy is made; the partial copy is whole when
it is moved in. Without those clauses the property says nothing about the state in which
`modules/<id>` is empty. `RemovedStaysRemoved` and `SwapsAreAtomic`, the refinement of
`ModuleFolder`, assume `RemovalsGoThrough`: a leftover that settling deletes does not resist while a
removal is pressed. `MCFolderSwapLeftover.cfg` shows the need, which is finding 3. The invariant adds
that a module which was removed has no whole copy in either place (`RemovedIsRuined`): what a stopped
delete leaves is damaged, so what settling may still put back is ruins.

**UpdateSwap.** `UpdateSwapTyped` needs no assumption. `HelpersLoseNothing` is below; the other five
theorems assume `Orderly`: at most one failing move, no start under a working helper, no start
within a recovery. The configurations `MCUpdateSwapHandStart.cfg`, `MCUpdateSwapTwoFaults.cfg` and
`MCUpdateSwapHalfRecovery.cfg` show that each is needed. The invariant follows the helper's loops:
in each, where the old and the new content of an entry is depends only on whether the loop has dealt
with it (`LoopOut`, `LoopIn`, `LoopTakeOut`, `LoopPutBack`), and outside the loops the executable
tells (`ExeTells`). `OrderlySwapIsAtomic` proves the refinement of `AtomicInstall`, that is, that
the player sees one build go and one come. `HelpersLoseNothing` needs no assumption: with any number
of failing moves, and whoever starts what, a move always goes to a place that holds nothing old
(`RoomForMoves`). For that a helper must begin with an empty backup and a full staging folder
(`BeginsClean`), and only one may be at work (`OneAtWork`). `OrderlyLeavesOnlyWaste` is about
deletes that stop anywhere. A folder may then lose its marker while something is in it, which is
finding 16; but what is left in it is nothing a player still wants, neither the old build before the
new one has opened nor an update that a helper is about to move in. A folder is filled only once it
is marked (`FilledIsMarked`), a staging folder whose delete stopped half-way has no helper that
moves out of it (`SpentAtRest`), and the backup is marked as long as the old build may be needed
(`BackupMarked`).

**HelperLock.** `PromptHelpersMoveAlone` and `PromptHelpersKeepToTheirLock` assume `Prompt`: no
helper is held up within the steps of taking, using or giving back the lock. The invariant says that
a helper past its claim is the one the owner file names, as long as the folder is there, and that a
new folder is only made when nobody is left who believed in the old one. `PunctualHandshakeIsKept`
assumes `Punctual`, that a helper is not held up at `stamp` either. The invariant follows one
attempt from the wait for its report (`AwaitedIsFree`) through the close (`ReportedIsFree`): the
folder is there, the owner file names it and nobody has told it to stop. It needs to know that notes
never run ahead of their helper (`NotesComeLater`). `ToldHelpersNeverMove` needs no more than
`Punctual`, over any number of sessions: an attempt that its own Yu'lon told to make way still has
its note when it looks, or has lost its lock by the time it checks (`NotedOrRobbed`). The note can
be cleared only for a new attempt, and a Yu'lon whose helper still runs begins none (`OwnHelpers`).
For a helper of an earlier session this says nothing, and there it may move under the next Yu'lon
(finding 17). `GivenUpAttemptsNeverMove` has two cases with two invariants, in both of which whoever
runs was begun in this session (`OfThisSession`). In one session in which a killed helper ends, one
that was given up has ended or is told to stop at its next look (`GoneOrTold`). Where a killed
helper may survive but is never held up, it still has its lock, which keeps its note from being
cleared (`KeptAndTold`). `MCHelperLockOutlives.cfg` is what lies outside both cases.

**ServerHold.** `OneYulonAtATime` is the purpose of the reservation for any set of Yu'lons and jobs,
every choice of who is quit, and Docker answering late to anybody. `ReservationInv` says that every
job past the take is one of its own Yu'lon's users or had no reservation to take, and that a
reservation remembered by a Yu'lon either still has its running container or has all its users
marked as lost. Docker has one container of a name, and so two Yu'lons with an unlost user each
would have made the same one. Jobs without a reservation, lost or not to be had, are the exception
of the property (`Exposed`): that they do meet is finding 18. The invariant must mention the lock as
well: a job that makes a reservation found none, and found the lock free, so nobody joins in
between. Type correctness needs a part of it (`Claimed`), because a release by somebody with no
claim would mark a container that does not exist.

`CleanupNeverTakesAWorld` holds with no further assumption. Who brought the database up holds the
server until it is put down again (`WhoStartedHolds`), a hold lets no Start in (`NoStartInAHold`),
and so a world that runs by the time of the cleanup was started by somebody who, or against
somebody who, had no reservation (`StartedIsSpared`).

The restores build on that. `LoadsAreAlone` and `WorldStaysDown` assume `OneUserRestores(a)` for
some Yu'lon `a`: the restores are that user's, only that user puts the record of a load down, and
the process of a load was written down (`~NoteMissed`). `MCServerHoldTwoUsers.cfg` shows that the
first part is needed. The chain of invariants goes from the tables to the databases. A job has the
marks that its kind and step say (`KindsFit`, `MarksFit`), also one that takes a reservation only
inside its hold (`HoldsAtTake`); a process gives out one lease (`OneLease`), and who is alone in its
process is so (`AloneIsAlone`); what writes is a restore past its marker, with its record on disk as
soon as it is noted (`LoadsAreRestores`); what a dead restore left writing keeps every other job of
its Yu'lon but a Stop from getting past its two looks (`OrphanIsAlone`), although those are made
outside the lock; and no world runs while anything writes, unless the writer or the starter has no
reservation (`WorldIsDown`). `LoadsAreAlone` makes no such exception: within one Yu'lon the tables
keep a load alone, whatever became of its reservation. The Yu'lons of other users are kept away by
the reservation and by the record.

**RealmFlag.** `RealmStaysHeld`: for any number of starts of the world and any bound on faults, a
realm that a press has marked stays offline while it is held, as long as nothing failed. A tick may
have decided to clear the bit before the hold began, so the property allows it to have done so
while it still has its second look before it. The strengthening (`MarkInv`) says that nothing
counts as marked before the press has marked it, and that the database stays up while it is.

**PoolReset.** `RestoredBotsStaySafe`, `NoTokenTwice` and `DoneIsDone` hold for any number of
presses, starts and upsets. The argument is that a token in the file is newest (`Newest`): newer
than the newest restore and no older than any reset that was completed, and equal to one only if
the database has it recorded, so that the world refuses it. A restore is the one step that takes a
record back, and so the one that must first take the token out of the file (`TokenInv`). `TruthInv`
says that whatever can later make Yu'lon say "done" (the database's record, a line of the log, the
press's own memory) is about a token whose reset was completed. `CalledOffStaysOff` and
`HalfPoolIsAskedFor` hold as far as their properties' own exceptions allow. A token that was called
off is nowhere to be found, neither in the file nor with the world nor in the hand of a restore
(`AllGone`); a press may only say so because a reset of its own token that has begun shows, in the
pool or in the log of the run that began it (`BegunShows`). A half pool stands under its request
(`HalfHasRequest`), because the one token in the file is the newest and the world works on no other
(`NewestAlone`), and no press has in hand a run that refused it.

**Rebuild.** `StartsRunOneBuild`, `StartsRunATestedBuild` and `KeptBuildsAreExact` hold for any number
of images, builds, contents and upsets, with no assumption; what they except is what the properties
except. `TypesHold` and the shape of a press (`Shape`: which names are whole at which step) hold
whatever happens. The safety invariant `Inv` holds in every past that is `Orderly`, that is, in
which every press left its records and heard of every build that had landed; since upsets are only
added to `happened`, a past that is orderly now always was, and each step is proved under that. Its
parts, in the order in which they lean on each other:

- `Remembers`: what a press knows at each step is what it has done so far.
- `AtWork`: at most one stopped build is still at work in Docker, and only under its record.
- `Guests`, `Compiling`: a live name that does not name its rollback names one and the same build,
  the guest; a build which is still at work is the guest, and has moved the first few names only.
- `Moving`, `Copies`: the loops over the images. How far each has come tells which names are which.
- `Kept`: a kept build is one build, and a compile begins without one.
- `Safe`: while no refusal is owed to the next Start, the names it would run, or those a stopped
  build's record sends it back to, name one build that has run.

None of these is inductive without the others. The property speaks of two presses at rest, but a
stopped build lands in the middle of a third, so that the loops have to keep their shape while
Docker moves the names under them. `Exact` adds, for pasts in which no content came back
(`NoReturn`), the dates: contents are numbered as they come, no record is newer than the folder
(`Dated`), and a build is never older than the record it is kept or recognised by (`KeptDate`,
`StoppedDate`, `CompileDate`, `DoneDate`). At the use of a kept build its content is thus at least
the record's and at most the folder's, which the press found equal. The clause of `DoneDate` that
failed at first is finding 15.

**StartOver.** `StartOverTyped` needs no assumption. The other five, which are all the safety the
run checks, assume `Apart`: Bring-in is pressed in one Yu'lon, whose process the others can see, and
neither side is held up or ends between its looks (`~MayDwell`). `MCStartOverTwoBringIns.cfg`,
`MCStartOverTwoUsers.cfg` and `MCStartOverDwell.cfg` show that each is needed. Any number of Yu'lons
of that user may start over, and presses, faults and deaths are unbounded. `Reserved` says that a
job which works has the reservation and a reset which works has its record. `TwoRecords` is the
argument of the two looks: a bring-in past its second look has its name in the folder (`Named`), so
that a reset's record beside it can only be one whose second look is still to come (`TwoLooks`), and
that look finds the name. `SafeCopy` follows the record's steps over any number of presses:
"stopped" means that nothing loads, "copy" that a dump is recorded if anything is there, and past
`_revalidate` that it is whole. `Truthful` says that a record a bring-in may carry on from describes
a server that is all there unless the removal has begun, in which case the reset's record stays and
refuses it.

## 7. What is only model-checked

Liveness under fairness is beyond the proof system, which has no rule for `ENABLED`. Eight
properties therefore stay with TLC: `AppComesBack` of `UpdateSwap`, `EveryHelperEnds` and
`EveryPressEnds` of `HelperLock`, `EveryPressEnds` of `ServerHold`, `ADeadWorldIsListedOffline` and
`AListeningWorldIsListedOnline` of `RealmFlag`, `PressEnds` of `Rebuild` and `StartOverEnds` of
`StartOver`. They are checked on the instances of section 4 only.

`GivenUpNeverMoves` is proved for two extremes, no delay over any number of sessions and any delay
in one. Between them it is false, and so is `NeverUnderTheApp`: with helpers slow to report and two
sessions, TLC finds both violated (finding 17).

## 8. What is not modelled

- *What becomes of a load whose pid was never written.* Between the start of `mysql` and the write
  of its pid the marker names nobody. `server_hold_live` lets a Yu'lon end there (`NoteMissed`) and
  shows that the bare marker still keeps the world down. A write of SQL by the next run is not kept
  away from such a load; no property says that it were, and the other runs leave the case out.
- *What jobs without a reservation do to each other.* A start asks once whether its reservation was
  ended from elsewhere, a restore not at all, and a job that found none to be had goes on. All of
  them are modelled, and the properties that hold across Yu'lons exempt them, since letting them go
  on is what the code does; `LoadAlone` does not.
- *A player who forgets another user's record.* Only the user with the load may put it down in
  the runs; for the other user the same blindness as in finding 7 holds.
- *Reuse of process ids*, clocks that jump, and the twelve hours after which a record is no longer
  believed.
- *The content of databases, images and archives.* A restore covers the same databases as the one
  it follows; a dump either is trusted or is not.
- *The parts listed as not modelled in `PROJECT.json`*: those in section 2 are ahead; the others
  are sequences of system calls on one thread, conversions of text, or layout.

## 9. Running it

    tlc -config MCServerHold.cfg MCServerHold.tla
    tlapm ServerHoldProofs.tla

A run needs from seconds to about three minutes on two cores. The largest are `MCHelperLock` with 2.4
million states, `MCRebuild` with 1.7, `MCServerHold` with 1.3, `MCPoolReset` with 1.2 and
`MCRealmFlag` with 0.8. `tlapm` needs about five minutes for `RebuildProofs`, with 6,200
obligations, and about one for each of the others.
