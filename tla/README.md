# singbox-sub-manager in TLA+

`singbox-sub-manager` installs and looks after a small proxy server: two
systemd units (`sing-box` and `caddy`), their configurations, a list of nodes.
The Go command `proxyctl` checks their health, restarts a failing unit from a
timer (`monitor`), and backs the installation up and restores it
(`backup`, `restore`). A shell script installs and updates the whole.

This directory models the parts whose correctness depends on the *order* of
steps: what is on disk when a command dies, who holds the lock, which of
several steps failed. TLC checks the models on small instances and TLAPS
proves the main safety properties for every instance.

## 1. Inventory

| part | code | state | operations |
|---|---|---|---|
| monitor policy | `internal/monitor/policy.go` | `ServiceState` per unit: failure count, cooldown, crash marker (`RecoveryInProgress`), last result | `Decide` |
| orchestrator | `orchestrator.go`, `eligibility.go`, `service.go` | a copy of the state, deadline, outcome per unit | `RunOnce`: checks, preflight, pre-commit, restart, recheck, final save, remote batch |
| state, marker, lock | `state.go`, `lock.go` | `monitor-state.json`, `monitor-paused`, a flock | `Load`, `Save`, `Pause`, `Resume`, `TryLock`, `Unlock` |
| monitor commands | `cmd/proxyctl/monitor.go` | none | `monitor`, `pause`, `resume`, `status` |
| health checks | `internal/health` | none | `RunAll` and about twenty checks |
| remote probes | `internal/health/remote` | a port counter | one probe per node, several at a time |
| restore transaction | `internal/backup/restore.go`, `lock.go`, `cmd/proxyctl/backup.go` | staging files, created directories, the lease | stage, publish, restart and recheck, undo, clear the pause marker |
| pre-restore images | `internal/backup/snapshot.go` | one directory per transaction with `snapshot.json` | capture, rollback, cleanup, prune |
| descriptor chains | `internal/backup/dirfd.go` | open directory descriptors | resolve, re-verify before each mutation |
| backup and retention | `internal/backup/archive.go`, `cmd/proxyctl/backup.go` | archives, reservations, staging files | collect, reserve, write, publish, release, prune; `list` |
| node registry | `internal/nodes`, `cmd/proxyctl/node.go` | `nodes.conf` and `nodes.conf.bak` | add, edit, remove, enable, disable, migrate; `list`, `test` |
| rendering | `internal/render` | none | pure text generation |
| installer | `install-proxy.sh` | update sessions, a lock, two binaries | install, update, rollback |
| merge script | `merge-nodes.sh` | none | a text transformation |

How they interact:

- `monitor`, `monitor pause`, `monitor resume` and `restore` are separate
  processes that share one flock. The three monitor commands give up at once
  when it is taken, `restore` retries for a bounded time.
- `restore` may overwrite the monitor's state file and marker, which are in the
  backup, and restarts the units the monitor watches.
- `monitor` and `restore` both change units only through `systemctl` and judge
  them by the same trigger checks.
- `backup` and the node commands take no lock: any number of them may run at the
  same time, beside a restore that replaces the files they read.
- the installer calls `proxyctl health` and decides by its exit code.

What is hard, and why tests hardly reach it:

- *crashes and power loss.* Each file operation is a rename or an unlink that
  only an fsync of the directory makes durable, and a directory that was just
  made is itself an entry that nothing syncs. A monitor that restarts a unit
  and dies must not restart it again; a restore that dies must leave the means
  to undo it.
- *partial failure.* Save can fail with the new content in view; publication
  goes on after an error; the rollback can itself fail.
- *time.* A 60 s deadline is shared by two units; the clock may be set back;
  cooldowns survive restarts of the program; the age of an image and which one
  is the newest are read off the wall clock.
- *concurrency.* pause and resume arrive during a round; the lock vanishes with
  its holder; backups prune what other backups have just reserved or published;
  node commands write lists that are out of date.

What makes each part correct:

- *monitor*: a restart is committed to disk before it happens; restarts of one
  unit are a cooldown apart; none while paused; the result is durable before
  the remote batch; the exit code never flatters; a hung unit is attempted in
  the end.
- *restore*: the image is complete and synced before the first write; services
  never start over a mixture of old and new files; the exit code tells what
  became of the files; an unfinished restore keeps its image. A power loss may
  take what lies in a directory that had to be made, and nothing else.
- *backup*: an archive is whole and survives a power loss; a run owns its name;
  pruning, however many do it, spares the newest names; a failed run leaves
  nothing and removes nothing of others.
- *node registry*: no sequence of commands leaves a file that the next command
  cannot parse, as long as the values survive being written and read; a command with a current list changes only the node it names;
  the backup copy is what was replaced. Without a lock updates can be lost, and
  nothing in the repository promises otherwise.
- *installer*: after an interrupted update, `rollback` brings back the pair of
  binaries that belonged together.

All but the last are modelled. `PROJECT.json` lists every hazard at its line.

## 2. Modules

| module | what it is |
|---|---|
| `Policy` | `Decide` as pure operators over `ServiceState` |
| `Monitor` | the three commands as processes over state file, marker, lock and units |
| `CooldownGuard` | what the monitor promises about restarts, independent of how |
| `MonitorProps` | the properties of the monitor, its inductive invariant, the refinement mapping |
| `MonitorProofs` | the proofs about it |
| `MCMonitor` | constants for TLC |
| `Restore` | one `proxyctl restore` after another, with the monitor as environment |
| `AtomicRestore` | what a restore promises as a whole: one step, for good, or none |
| `RestoreProps`, `RestoreProofs`, `MCRestore` | likewise for the restore |
| `Archive` | any number of `proxyctl backup` at the same time, with retention |
| `ArchiveShelf` | what the automatic names promise to runs that share them |
| `ArchiveProps`, `ArchiveProofs`, `MCArchive` | likewise for the backup |
| `Nodes` | any number of node commands over the registry and its backup copy |
| `RegistryEdits` | what a registry without a lock promises to its editors |
| `NodesProps`, `NodesProofs`, `MCNodes` | likewise for the registry |

Operators named `...Unbounded`, `...Unsynced` and so on, with the comment
"Mutant", are plausible bugs. Nothing uses them; replacing the operator that
follows by one of them makes the property named in `PROJECT.json` fail, which
shows that the property says something about the code.

### The monitor

`Monitor` has one action per step of a command. `pc[p]` is where process `p` is
and `round[p]` holds its local variables:

| step (`pc`) | action | code |
|---|---|---|
| idle | `TryLock` | `FileLock.TryLock`, first act of each command |
| load | `LoadState`, `LoadStateFails` | `Load`, pause marker, remote due, `RunOnce` 67-83 |
| check | `RunChecks` | `RunAll` and `Decide`, 85-121 |
| recover | `Cancel`, `PreflightFails`, `PreflightPasses` | the loop over the actions, 126-153 |
| precommit | `Precommit`, `PrecommitFails` | the save before the restart, 155-159 |
| restart | `RestartSucceeds`, `RestartFails`, `RestartNotStarted` | 161-188 |
| recheck | `RecheckPasses`, `RecheckFails` | 195-243 |
| recover | `FinalSave`, `FinalSaveFails` | 263-273 |
| remote | `RemoteSkipped`, `RemoteFails`, `RemoteDone` | 277-346, exit code 348-396 |
| pause | `Pause`, `PauseFails` (no marker, or one that cannot be accepted), `AlreadyPaused` | `fileStateRepo.Pause` |
| resume, unmark | `ResumeSave`, `RemoveMarker` and their failures | `fileStateRepo.Resume` |

Files exist twice, as seen (`state`, `marker`) and as after a power loss
(`stateOnDisk`, `markerOnDisk`). `Saved` is a save that synced; `SaveFails`
leaves the old or the new content in view and nothing new on disk. Two clocks
run: `wall`, which the program reads and `ClockSetBack` moves back, and `real`,
which only properties read. So is `failedRounds[s]`: how many rounds have found
the unit failing since one that found it well was saved, or a resume was, up to
the threshold.

Abstractions: a unit's trigger checks become one verdict (that is all `Decide`
looks at); checks registered by the command only pass or fail, so "other" never
arises; the 60 s deadline is counted in units of 30 s, the length of each
timeout inside it; every check that is not a trigger is one Boolean
(`otherWarning`); `LastCheckResult` and `LastRecoveryAt` are report data and are
left out; an unreadable state file is one failure, `LoadStateFails`. Left out:
the early returns for dependencies that production wiring always supplies, and
`monitor status`, which only reads.

### The restore

`Restore` runs one transaction at a time, each with its own image directory
`images[i]`. `tx` holds its local variables, among them the files as it found
them (`tx.before`), what the disk then held of them (`tx.found`) and the
directories there were (`tx.there`), which only properties read:

| step (`pc`) | actions | code |
|---|---|---|
| idle | `Start`, `LockBusy` | `AcquireWithRetry`, `runRestoreTransaction` 373-388 |
| read | `ArchiveRejected`, `ArchiveAccepted` | `readArchive`, `PruneSnapshots` |
| capture | `Capture(t)`, `Describe`, `Captured`, `CaptureFails` | `CaptureSnapshot`, `captureOneTarget` |
| stage | `Stage(t)`, `StageFails(t)`, `Staged` | `Restore` 464-544 |
| publish | `Publish(t)`, `PublishFails(t)`, `Published` | `Restore` 546-577 |
| failed | `ReportRejected`, `ReportFailed` | `runRestoreTransaction` 400-414 |
| restart | `RestartPasses`, `RestartFails` | `restartAndRecheck` |
| rollback | `RollBack(t)`, `RollBackFails(t)`, `RolledBack`, `RollbackFailed` | `Rollback`, `rollbackTransaction` |
| again | `RestartedAgain` | the second restart, 443-447 |
| reconcile | `Finish`, `FinishStillPaused` | `reconcilePauseMarker`, `cleanupPreimage` |

The content of a file is "absent", "a" or "b" (what others wrote) or "archive"
(what this archive holds). The order in which targets are treated is left open;
the code has one order per phase and promises none. `Synced(t)` brings the disk
up to date for every file in the directory of `t`, as one fsync does.
`MonitorLocks`, `MonitorWrites` and `MonitorUnlocks` stand for any monitor
command: it may write the state file or the marker while it holds the lock.

Directories exist twice, like files. `Stage` makes those that are missing above
a target, `ArchiveAccepted` the directory of the images; neither syncs the
directory above (`dirfd.go` 71 and 267), so that they are in `dirs` and not in
`dirsOnDisk`. `PowerLoss` keeps any of them or none, as long as each is where
those above it are (`Path`), and what is in a directory goes with it, synced or
not: files, and with `SnapshotRoot` every image. A power loss settles which
directories there are. The wall clock is not a variable: wherever the code
reads it, in `Describe` for `CreatedAt` and in `ArchiveAccepted` for the age of
the images, it may show any time, since it may have been set forward or back.

Abstractions: images are "none", "partial" (no `snapshot.json`) or "complete",
each with its `createdAt`; those of the same time are ordered by the sort in
some way, of which one stays. The sync of `SnapshotRoot` settles which images
there are, the sync of an image's own directory what is in it. Directories that
the staging made and took away again do not come back with a power loss, since
nothing reads an empty directory; and no sync of some other file makes a new
directory durable, although a file system may do so: the model allows more
losses than there are. The monitor's files are absent at first. Each target has
one parent directory, which may be missing; an `ErrUnsafePath` of any cause is
one outcome, "unsafe". The commands pass
`context.Background()`, so the cancellation paths of the library cannot be
taken from them and are left out, as are the dry run, which changes nothing,
and a second restore at the same time, which only gets `LockBusy`. The removal
of staging files and of directories is taken to succeed; the code only warns
when it does not. A staging file left by a crash is never removed by anyone:
`temps` counts only those of the current transaction.

### Backups

`Archive` has one action per step of a backup. `dir` maps every name to what
stands there (nothing, a reservation, an archive, and whose it is); `took[r]` is
what run `r` has read, `todo[r]` what it is about to prune.

| step (`pc`) | actions | code |
|---|---|---|
| idle | `Begin` | `Create` 94-111: the time stamp is taken first |
| collect | `Collect(f)`, `CollectFails` | `collect`, `walkSourceTree`, `readSourceFile` |
| reserve | `Reserve`, `NextSuffix`, `ReserveFails`, with `--out` `StatOut` | `reserveDestination` |
| stage, write, publish | `Stage`, `Write`, `Publish`, `WriteFails` | `createArchiveStagingFile`, `writeArchive` |
| release, unlink | `ReleaseOut`, `Release`, `Unlink` | the release functions, `identityCheck`, `removeStagedFileFd` |
| sync | `SyncDir`, `SyncDirFails` | `writeArchive` 530-536 |
| list, prune | `List`, `ListFails`, `Prune`, `PruneFails`, `Finish` | `pruneArchives` |

The comparison of a reservation and its removal are two steps, as in the code.
`Edit` is anybody who changes, removes or replaces a configuration file.

Abstractions: a file's content is a number that every edit changes; a file of
the tree and an explicit file are treated as the code treats them (whatever is
missing is skipped, an odd explicit file is an error, an odd file of the tree
is skipped); a name is its time stamp and suffix. The clock is not a variable:
`Begin` takes any time stamp, since the clock may be set back. The removal of a
staging file or of a reservation is taken to succeed; the code only warns when
it does not. A run that is killed takes no further step: its reservation and
staging file stay, as they do in the code. `backup list` only reads.

### The node registry

`Nodes` has the registry `conf`, its copy `bak`, and for each command its
request, the list it has computed and what it has read for the copy.

| step (`pc`) | actions | code |
|---|---|---|
| idle | `Start`, with the flag checks of `add` | `cmdNode`, `cmdNodeAdd` 222-290 |
| load | `NodeAdd`, `NodeEdit`, `NodeEditRefused`, `NodeRemove`, `NodeSetEnabled`, `NodeMigrate`, `NodeMigrated`, `LoadFails` | the commands, `loadForMutation`, `nodes.Load`, `store.go` 71-126 |
| backup, open, fill | `NoCopy`, `ReadCopy`, `OpenCopy`, `FillCopy` | `WriteFile` 39-50 |
| replace | `Rename` | `WriteFile` 51-68 |
| any of these | `WriteFails` | the error returns of `WriteFile` |

`os.WriteFile` truncates and then writes, so two commands can tear the copy:
`OpenCopy` and `FillCopy` are two steps. `Replaced` is a restore, the installer
or an editor that puts another file in place.

Abstractions: a node has a name, a protocol, the protocols whose credential
fields are set, one text that stands for all its values, and the enabled flag.
A list that is written is not always the list that is read back: `Validate`
compares a value with the empty string only (`nodes.go` 90 and 126), while the
parser splits at line breaks and trims each line and value (`format.go` 107 and
133). So a text is "old" or "new", which survive; "refused", which `Validate`
rejects; "unreadable": only blanks, of which nothing is left, or a line break
and then a line the parser refuses; "altered": blanks around it, or a line break
and lines that mean nothing, read back as "new"; or "injecting": a line break
after which the rest is a section of its own, `Injected`. `Sections(n)` is what
a node is read back as, and `Parses` what the parser accepts of it: nodes that
validate, with names that occur once. One injected section stands for several.
A list is a set, since no operation depends on the order. The
prompt of `add` is a request like any other. `node list` and `node test` only
read.

## 3. Runs

| run | instance | shows |
|---|---|---|
| `monitor_safety` | two processes, one unit, threshold 2, cooldown 2, three clock values, two faults | types, the inductive invariant, restarts committed / spaced / settled / never while paused, resume starts from zero, no attempt before a threshold of failing rounds, refinement of `CooldownGuard` |
| `monitor_pair` | two processes, two units sharing a deadline, one fault | local results are durable before the remote batch; exit codes are honest |
| `monitor_liveness` | one process, two faults, fairness | a hung unit is attempted |
| `monitor_preflight` | violation | a stopped unit with free ports is refused by the port preflight |
| `monitor_report` | violation | after a crash behind the pre-commit the next round does not report the unfinished attempt |
| `monitor_pause` | violation | a retried pause succeeds over a marker that is not durable |
| `restore_safety` | two targets in two directories (a configuration, the pause marker), the directory of the images beside the marker, each of which may be missing; three restores, two faults, a clock with two values | types, the inductive invariant, images come before writes and survive pruning, the image with the latest `CreatedAt` is never pruned, no restart over a mixture, exit codes tell the outcome, refinement of `AtomicRestore` |
| `restore_rejected` | violation | exit code 3 over changed files |
| `restore_uncertain` | violation | exit code 5 although nothing changed |
| `archive_safety` | three backups of which one may have `--out`, `--keep 1`, one time stamp with three suffixes, a file of the tree and an explicit one, one edit | types, the inductive invariant, the newest names survive, a run holds its name, archives are complete, failed runs leave nothing, the `--out` file is never removed, refinement of `ArchiveShelf` |
| `archive_out` | violation: two runs with the same `--out` | a failing run removes the file another one published |
| `nodes_safety` | three commands with ten requests over two nodes, among them values that cannot be read back, are altered, or inject a node; one replacement by others | types, the inductive invariant, the registry stays readable unless a value does not survive, other nodes are kept, the backup copy is what was replaced, refinement of `RegistryEdits` |

### The abstract specifications

Each part has a short specification of what it promises, and its properties
module an `INSTANCE` that maps the state of the program to it.

- `CooldownGuard` (`GuardSpec`): a unit is armed, fires, and stays quiet for a
  cooldown. The mapping reads attempts off `attemptAt` and the steps of the
  processes.
- `AtomicRestore` (`RestoreIsAtomic`): files and disk of a restore as one step.
  While a restore runs, the mapping shows the files it found; they change when
  the command ends. A power loss takes nothing back of a commit but files that
  are `fragile`: their directory had to be made and was never synced. An abort
  leaves no trace that a power loss could bring back, and only a crash, a power
  loss, an unsafe path or a failed rollback leaves something in between, made of
  old and archived files.
- `ArchiveShelf` (`KeepsShelf`): the automatic names as slots, each with one
  owner at a time. A slot is taken when it is free, filled or given up by its
  owner, and expired only when enough newer ones were taken. The mapping shows
  a pruned name as expired, whatever stands there later: its name may be taken
  again, and a run that lost its reservation to pruning may still publish over
  it.
- `RegistryEdits` (`KeepsEdits`): a command plans one edit of the registry it
  found, then puts the whole plan in place or nothing. The plan is the list of a
  running command as a later load would find it. Only `careless` requests, whose
  value cannot be read back or is read as two nodes, may plan an unreadable
  registry or one more node than one edit. That the registry has not
  changed in between is not promised, and not true.

### The bounds, and why they are enough

- `MaxFaults`: every crash, power loss, clock step and failed system call takes
  one. Two allow the combinations that matter: a failed sync and then a power
  loss; a crash, and a second one during what follows it; a file that cannot be
  published and a rollback that fails. What the first fault leads to without a
  choice costs nothing: a rejected archive, a service that does not come back,
  a rollback that meets a missing directory.
- two monitor processes are one that holds the lock and one that wants it, or a
  round and a pause or resume. More only add waiting.
- `Threshold = 2` has counts below, at and beyond the limit; `Cooldown = 2` has
  instants strictly inside it, and `MaxReal = 3` lets it run out.
- the pair run uses threshold and cooldown 1 so that both units can be due in
  the first round, which is where they compete for the deadline.
- three restores: one is left half done, the second makes its image prunable,
  the third could prune it. `MaxAge = 0` and the times 0 and 1 have images that
  are stale and images that are not, ties, and a clock that shows a later image
  as the older one.
- two targets: a failure strikes between them, and each is in a directory that
  may not exist, one of them shared with the directory of the images; one restarts a service and one is written by the monitor.
- three backups: one prunes, one is pruned, and one takes the name that became
  free. With `--keep 1` every archive but one is due. One time stamp and three
  suffixes are enough for names out of order: a name that was pruned and is
  taken again gives the later run the older name, which is what a clock that is
  set back does.
- three node commands: one whose list is stale, the one that made it so, and one
  that shares the backup copy with both. The requests hold every operation,
  refused ones included, and both names.

Deadlock is checked in every run. The monitor and the restore can always start
again; backups and node commands run once each, and `Ended` is the state in
which all of them are over.

### Fairness

Only `monitor_liveness` needs any: `WF_vars(RoundProgress)`, that is, as long as
a round can start or a started command can take its next step, one
eventually does. The systemd timer starts a round every five minutes, each step
of a round runs under a timeout, and pause and resume are a few system calls.
Time, crashes and units are not fair. `HungServiceIsAttempted` excludes only an
administrator who runs `resume` for ever, since each resume zeroes the counts.

## 4. What is proved

The four proof modules follow the same argument: an inductive invariant `IInv`,
a lemma per action that it is kept, one theorem `Spec => []IInv`, and the
properties as corollaries. Constants are arbitrary up to the named assumptions:
`ThresholdAssumption`, `CooldownAssumption`, `NoneAssumption`,
`BoundAssumption`, `SituationAssumption` for the monitor; `TargetAssumption`
(the directories form a tree or less), `TxAssumption`, `TimeAssumption` for the
restore; `ConstantAssumption` for the backup;
`InputAssumption` for the registry, which says that what others put in place is
a file the parser can meet, and that the injected section validates.

**`MonitorProofs`** — for any number of processes, units, faults and ticks:

- `Inductive`, `TypeCorrect`
- `RestartIsCommitted`: `RestartCommitted`
- `PausedMeansNoRestart`: `NoRestartWhilePaused`
- `MarkerIsSettledFirst`: `SettledBeforeRetry`
- `LocalResultFirst`: `LocalResultIsSafe`
- `CooldownIsKept`: the action property `AttemptsSpaced`
- `ResumeForgets`: the action property `ResumeStartsFromZero`
- `ExitCodeIsHonest`: the action property `ExitCodesHonest`
- `AttemptsAreDue`: `AttemptsAreWarranted`
- `MonitorImplementsGuard`: `Spec => GuardSpec`, the refinement

None of the properties is inductive alone. Spacing is the hard one: the program
compares wall-clock times that may have been set back. `CooldownHeld` says that
the cooldown recorded in a file, seen from the wall clock, outlasts what is left
of it in real time; setting the clock back only makes that longer. It must hold
of the state in view *and* on disk, because a failed pre-commit leaves one
without the other; and `Loaded` and `Decided` carry it through the round, from
the file that was read to the attempt that is about to be made. `LockHeld` is
what allows a round to go on believing what it read.

Three of the theorems need an invariant of their own beside `IInv`: `Unmarking`
says what a resume that has saved its zeroed counts relies on until the marker
is gone, and `RoundsSettled` that a round which sees a unit pass, with no
attempt or a successful one, has cleared its crash marker. `Counts`, for
`AttemptsAreDue`, compares the failure counts with the rounds that failed: no
count in view, on disk or in the memory of a round exceeds them. A save that is
lost makes a count lag behind, never run ahead, since a round that found the
unit well resets the history only once its result has been saved. The proof
goes through the units one by one as `Observe` does (`TreatsOne`,
`TreatingTreats`).

**`RestoreProofs`** — for any targets, directories, numbers of transactions and
faults:

- `RestoreInductive`, `RestoreTypeCorrect`
- `ImageComesFirst`: `ImageBeforeWrites`
- `RestartsAreWhole`: `NoMixedRestart`
- `ExitCodeIsHonest`: the action property `ExitCodeTellsOutcome`
- `HalfDoneCanBeUndone`: `UnfinishedHasImage`, until the image is `forfeited`:
  a clock shows it older than `SnapshotMaxAge`, or a power loss takes a
  `SnapshotRoot` that was just made
- `PruningSparesTheNewest`: the action property `AnImageIsLeft`. Newest is by
  `CreatedAt`: after the clock was set back, what stays may be the image of an
  earlier restore
- `RestoreRefinesAtomic`: `Spec => RestoreIsAtomic`, the refinement

The invariant follows the phases. `ImageSoFar` says of every target already
captured that its entry is what the restore found, and that `snapshot.json`
comes last, which `FilesKept` provides
because nothing has been written yet and, by `LockHeld`, no monitor command can
write; so the complete image equals `tx.before`. `FilesWritten` then says that
while no error has occurred the targets treated so far are the archive's, and in
the rollback those of the image. `Temporaries` tells which staging files exist
in each phase.

The refinement is about the disk as well, and needed two more parts of the
invariant. `DiskWritten` says that the targets published so far are on disk: a
rename is followed by a sync of its directory before the next one. `DiskFollows`
says what else the disk may hold, and the point where the first attempt failed:
the disk need not have what the restore found in view, since an earlier change
may not have been synced (the removal of the marker, the last rename of a
restore that was killed). Hence `tx.found`, and `Settled` in the abstract
specification: a sync for one file may settle an older change of another in the
same directory. Directories add `FilesHaveDirs`, `DirsStaged` and `DirsMade`: a
file is where its directory is, a directory that the restore makes held nothing
before, and `SnapshotRoot` is not one that staging takes away again. So what a
power loss takes with a new directory is a file of the archive and never an old
one, which is what `fragile` says in the abstract specification.

**`ArchiveProofs`** — for any number of runs, names, files and edits, and any
`--keep`:

- `ArchiveInductive`, `ArchiveTypeCorrect`
- `RetentionKeepsNewest`: `NewestKept`
- `NamesAreExclusive`: `HoldsItsName`
- `ArchivesAreComplete`: `ArchivesComplete`
- `FailureIsClean`: `FailedLeavesNothing`
- `SingleOutIsKept`: `OutKept`, for at most one run with `--out`. With two of
  them it is false, which `archive_out` shows.
- `DirectoryIsAShelf`: `Spec => KeepsShelf`, the refinement

Retention is the hard one: a run prunes from a list that others have made stale.
What saves it is that names only become *used*: a name with `Keep` newer names
when it was listed has at least as many later, whatever is reserved or pruned
in between. `TodoOld` states that of everything about to be pruned. It is about
names ever used, not about files, and so holds without a lock. The rest follows
the reservation: `ReservationHeld` says that it stands under the name its run
holds, `StagedSoFar` what a run has written by each step.

The refinement takes `IInv` and `ShelfInOrder`, an invariant of its own: what
bears the mark of a run is its reservation or its archive, the latter only once
it has published, so that a run which reserves has nothing on the shelf yet.
The steps that matter have a lemma each (`ReserveTakes`, `PublishFills`,
`UnlinkGivesUp`, `PruneExpires`); all others leave the shelf alone
(`OffTheShelf`). `HoldsItsName` is what makes a publication a `Fill` of the
run's own slot, `TodoOld` what makes a removal by an old list an `Expire`.

**`NodesProofs`** — for any commands, nodes, requests and files of others:

- `NodesInductive`, `NodesTypeCorrect`
- `RegistryStaysReadable`: `StaysReadable`
- `OthersAreKept`: the action property `OtherNodesKept`
- `BackupIsWhatWasReplaced`: the action property `BackupIsPrevious`
- `CommandsAreEdits`: `Spec => KeepsEdits`, the refinement

`ListsParse` is what makes stale lists harmless to the parser: each list was
computed from a registry that was parsed (`Sound`) and keeps to the rules by
itself, unless a value was given that does not survive (`Reckless`).
`ListsFresh` and `CopiesFresh` say what a command that was not overtaken still
knows about the registry and the copy, step by step.

For the refinement, `ListsAreOneEdit` says of the list operations that the new
list lacks one node of the old one at most, and has one more at most;
`FoundFacts` says what a later load finds of a list that was written, and
`ReadBackIsOneEdit` that this is one edit again, or two when the value injects a
node. A plan is
a function of the list alone, which nobody else touches, so that no step of
another command changes it.

## 5. Only model-checked

The liveness property `HungServiceIsAttempted`: fairness and `ENABLED` are out
of the prover's reach. Every invariant and action property
that a passing run checks is also proved, and so are the four refinements; for
`OutKept` the theorem has the hypothesis named above.

## 6. Where documents and code differ

Six places, each shown by a run and quoted in `PROJECT.json`: the port
preflight of a stopped unit, the report after a crash, the retried pause, exit
code 3 of a restore, exit code 5 of a restore, and the release of `--out`, which
removes a file that is not its own. Three more are known and not runs:

- the v0.6 design says that a resume which fails keeps the marker, but when the
  removal succeeds and the sync fails, the marker is gone (`RemoveMarkerFails`).
- the comment at `backup.go:212` says that archives of the same second keep
  their creation order. A name that was pruned is free for the next run of that
  second, which then has the older name (`Reserve` after `Prune`).
- the comment at `snapshot.go:696` says that pruning never removes the most
  recent image. It spares the one with the latest `CreatedAt`, which is another
  one when the clock was set back in between.

That every path goes through `Validate`, as its comment says (`nodes.go:83`), is
true, and still does not make every accepted value readable: see the texts of
the node registry above.

Five hazards have no property; `PROJECT.json` says why at each. In short: the
outcome is documented or nothing is promised about it (the restored counters of
the monitor, a set of files that changed while it was packed, a registry that
is not synced), or it lies outside
the modules (the port of a probe, an interrupted update).

## 7. Not modelled, and why

- *the installer* (`install-proxy.sh`): its update sessions are the one part
  with state and crash behaviour that is left. It is a shell script: its traps,
  `set -e` paths and the tools it calls would have to be translated command by
  command, and what follows an interruption depends on what the operator runs.
  The modules stop at the Go program.
- *`internal/health/remote`*: a probe keeps a port counter and writes nothing
  another step reads. `Monitor` leaves its result open (`RemoteDone`).
- *the composition of monitor and restore*: `Restore` has the monitor as an
  environment that may write its files whenever it holds the lock, which is
  what a restore relies on. What a restored state file means to the monitor is
  documented: counters and cooldown are those of the archive. The guarantees of
  `Monitor` hold between two restores of that file.
- *`internal/backup/dirfd.go`*: the walk along descriptors; what it can find
  (missing, made, unsafe) enters `Restore` and `Archive` as outcomes. The substitution
  of directories it guards against is not part of any model.
- *the individual health checks*: their results enter the monitor as pass or
  fail.
- *`internal/render`, `merge-nodes.sh`*: text transformations without state or
  order.
- *printing and parsing* of archives, manifests, images, state files and
  reports, and the exact grammar of `nodes.conf`: of a value that is written only
  what becomes of it when it is read.
- *commands that only read*: `status`, `backup list`, `restore --dry-run`,
  `node list`, `node test`, `health`.
