# A verification model of mybtrfs

mybtrfs is a stateless backup tool for btrfs: it takes read-only snapshots,
sends them (incrementally when it can) to a target directory on another btrfs
filesystem or to raw stream files, applies retention on both sides, and
restores.  It keeps no database: every command derives what to do from the two
listings it takes, and a lock file keeps commands apart.  This directory models
what those commands do to the filesystems when calls fail, processes are
killed, receives are cut off, and other commands run at the same time.

Source paths below are relative to `src/crates` unless they start with
`documentation/` or `contrib/`, which are relative to `src/`.

## 1. Inventory

| component | state it keeps | operations | who it talks to |
|---|---|---|---|
| domain: subvolume model, relationship graph (`domain/src/model.rs`) | none; indexes built from one listing | `is_garbled`, `reference_generation`, `RelationshipGraph::build` | used by every decision |
| domain: parent selection (`domain/src/parent.rs`) | none | `is_correlated`, `related`, `best_parent`, `target_correlates` | called by run, resume and restore |
| domain: delete safety (`domain/src/safety.rs`) | none | `enforce`, `latest_common_pair` | between a schedule and its deletes |
| domain: naming (`domain/src/naming.rs`) | none | `make_name`, `next_free_name`, `parse_name` | snapshot, retention, resume |
| domain: retention (`domain/src/retention.rs`) | none | `parse`, `compute_deltas`, `schedule`: the hourly to yearly cascade | `RetentionService` |
| application: `BackupService` | the locals of one command | `snapshot`, `run`, `resume`, `prune` | repository, snapshot, transfer and delete ports |
| application: `PruneService`, `RetentionService` | the locals of one command | prune with dry run; schedule, enforce, delete loop | repository and delete ports |
| application: `RestoreService` | the locals of one command | transfer back, stage, move aside, make writable, clean up | transfer, snapshot, delete and file-system ports |
| application: status, inventory, diff, previews | none | reports | repository ports |
| adapter: `BtrfsCliAdapter` | none | `list` (two calls), `show`, `create_readonly`, `send_receive`, `delete`, `make_writable` | `btrfs` processes |
| adapter: command runner (`adapters/src/command.rs`) | processes, pipes, threads | `run`, `pipe`, `pipe3` | the kernel |
| adapter: raw streams (`adapters/src/raw_stream.rs`) | a stream file and a sidecar file per backup | transfer, list, delete, restore | gpg, compressors, files |
| adapter: ssh (`adapters/src/ssh.rs`) | none | the same calls on another host | ssh |
| adapter: run lock (`adapters/src/lock.rs`) | an `flock` | acquire; released when the process is gone | dispatch |
| adapters: mounts, discovery, prompter | none | which mount a path is on, which drive to offer, yes or no | the btrfs adapter, dispatch |
| adapters: journal, local file system, backup sets, clock, progress | an append-only log | I/O | dispatch |
| command line (`cli/src/cli.rs`) | one command | dispatch, hooks, backup-set loop, exit codes | everything |

The state that outlives a command is only what is on the filesystems: the
subvolumes in the snapshot directory and in the target directory, with their
uuids, received uuids, read-only flags and names, or the stream and sidecar
files of a raw target.  Components interact by calls inside one process, and
through that shared state between commands.

What is hard in this system:

- **Decisions from listings.**  A command lists both sides once, then creates,
  transfers and deletes for minutes or hours on the strength of it.  Deletes go
  by path, not by id, and a path means something else on another host, under
  another mount, or from the root of the filesystem.
- **Death between any two calls.**  There is no rollback; the next command has
  to make sense of what is left.  A raw backup is two files and their order is
  all that makes it one.
- **`btrfs receive` is another process.**  It can be cut off before it stamps the
  received uuid, between stamping and sealing read-only, and, when only mybtrfs
  is killed, it can go on after the lock is free again.
- **A pipeline is several processes and threads** over pipes that fill up, whose
  statuses have to be turned into one verdict.
- **One pair must survive.**  Retention may want to drop anything; the chain is
  only usable while a snapshot has a copy on both sides.
- **Retention is repeated.**  What one prune drops is missing from the next one's
  input, yet the policy is stated as if all snapshots were there.
- **Names repeat** within the resolution of their timestamp, and the result of a
  transfer is found again by its name.
- **A restored subvolume is a copy with a history.**  Were it taken for the
  backup it came from, an increment against it would silently be wrong.

What makes the components correct:

| component | properties |
|---|---|
| naming | a new name is never in use |
| parent selection | the parent and clone sources exist on both sides when the stream starts |
| resume | nothing that has a complete copy is sent again; repeating it backs everything up |
| transfer | only verified results are reported; the clean-up removes only what an interrupted receive left; a rejected result does not stay |
| delete safety | no step unlinks source and target; a missing target costs no snapshot; what a command just made survives its own prune |
| raw target | a listed backup is whole or has lost its stream to a prune that chose it; what is reported is there |
| restore | nothing moved aside is touched again; nothing but its own staging copy goes; what correlates holds the same data |
| retention | it keeps what the calendar says; pruning often loses nothing that pruning once would keep; what remains is bounded |
| pipelines | the call returns, `Ok` means the whole stream, nothing writes behind the caller's back |
| mounts, delete routing | a listed path leads back to the subvolume listed; a delete takes the one that was scheduled |
| run lock | it is held exactly while a command runs and always given back; what a prune doomed is still there |
| dispatch | the post-snapshot hook runs exactly once for each pre-snapshot hook that passed; dry runs change nothing |

`PROJECT.json` lists every hazard at its line with the properties that cover
it, or the reason that none does.

## 2. Modules

| module | models | uses |
|---|---|---|
| `Subvolumes` | the domain crate's decisions | |
| `BackupCycle` | snapshot, run, resume, prune over btrfs targets | `Subvolumes`, `Archive` |
| `Archive` | what the tool promises | |
| `RawTarget` | snapshot, run, resume over raw stream targets | `Subvolumes`, `Archive` |
| `Restore` | restore, from the three kinds of backup | `Subvolumes` |
| `Pipeline` | `pipe` and `pipe3` | |
| `Retention` | the schedule and the prunes that apply it | |
| `Places` | hosts, mounts, the re-basing of listed paths, delete routing | |
| `CommandLine` | processes from arguments to exit code, the lock between them | `Places` |
| `MC...` | the values of the constants for TLC | the module of that name |
| `SubvolumesProofs`, `BackupCycleProofs`, `CycleSafetyProofs`, `RawTargetProofs`, `RestoreProofs`, `PipelineProofs`, `RetentionProofs`, `CommandLineProofs` | the theorems | the modules they are about; `BackupCycleProofs`, `RawTargetProofs` and `RestoreProofs` use the lemmas of `SubvolumesProofs`, and `CycleSafetyProofs` continues `BackupCycleProofs` |

### 2.1 Subvolumes, BackupCycle, Archive

- `Subvolumes.tla`: the pure logic of the domain crate.  A subvolume is a record
  `[id, parent, recv, ro, leaf]`.  `id` stands for the btrfs id, the uuid and the
  creation generation of a read-only subvolume, which rise together; `parent`
  and `recv` are `parent_uuid` and `received_uuid` (0 is none); `leaf` is the
  parsed name `[base, time, nn]`, with base `Foreign` for a name `parse_name`
  rejects.  `Correlated`, `Related`, `Candidates`, `BestParent`, `Due`,
  `LatestCommonPair`, `Enforce`, `NextFreeLeaf`, `Garbled` and `VerifyReceived` are
  the functions of those names.  Recursion (the climb and the walk of `related`)
  is written as recursive functions, so that the module can be proved about.
- `BackupCycle.tla`: the commands `snapshot`, `run`, `resume` and `prune`, from
  taking the lock to giving it back, one action per call to btrfs.  `src` and
  `tgt` are the two directories, `rx` the live receives, `pc` the next call of the
  active command, and the remaining variables its locals: `snaps` and `baks` the
  two listings, `mine` the snapshot it sends, `sel` the parent selection, `pipe`
  the transfer, `own` the ids it force-preserves, `delB` and `delS` what it has
  still to delete.
- `Archive.tla`: what the tool promises, with none of that: snapshots, copies,
  and no purge that unlinks the two.  `BackupCycle` implements it under
  `kept <- Ids(src)`, `copies <- Copied`, and so does `RawTarget`.

| code | actions |
|---|---|
| `dispatch`, `acquire_lock` | `StartNamed`, `StartPrune`; every `Finish` releases |
| `BackupService::snapshot`: list, `next_free_name` | `NameSnapshot` |
| `create_readonly`: snapshot, then `show` | `CreateSnapshot`, `CreateFails`, `CreateUnseen` |
| `collect_in`, `existing_in` | `ListSource`, `ListTarget`, `ListFails` |
| `resume`'s `due`, `choose_parent`, the strict refusal | in `ListTarget`: no call lies between |
| `send_receive`: the pipe | `BeginReceive`, `PipeFails`, `PipeEnds` |
| `send_receive`: `show`, clean-up, exit status, `verify_received` | `InspectFails`, `InspectGarbled` then `Cleanup`, `InspectRejects`, `InspectAccepts` |
| `prune_both`, `PruneService::prune`: anchors, schedules, `enforce` | `Plan` |
| the delete loops, backups first, fail-fast | `DeleteBackup`, `BackupsPruned`, `DeleteSnapshot`, `SnapshotsPruned`, `DeleteFails` |
| `btrfs receive` (not in this repository) | `ReceiveStamps`, `ReceiveSeals`, `ReceiveDies` |
| SIGKILL, power loss | `Killed` |

Three modelling decisions:

- *Retention is any choice.*  `Plan` drops any subset of the subvolumes whose
  names parse (`Schedules`), or nothing under the default keep-all policy
  (`KeepAll`).  What holds for every choice holds for the cascade in
  `retention.rs`, whatever its counts and dates.
- *The exit status of the pipe is arbitrary* (`PipeEnds` chooses it): the code
  says it does not trust it, so no property may rest on it.
- *A receive that is cut off* dies in any of its states; with `Orphans` it may
  also survive the death of its command, and with `FinishInSteps` it stamps and
  seals in two steps.

### 2.2 RawTarget

The target is a directory of files: `streams` (a stream records the snapshot it
is of, the snapshots it builds on, and whether all of it was written), `infos`
(the sidecars, which are what `list` shows), `tmp` (sidecars not yet renamed) and
the uuid file.  The snapshot side and the decisions are those of `Subvolumes`.

| code (`adapters/src/raw_stream.rs`) | actions |
|---|---|
| `list`, and the parent it leads to | `List`, `ListFails` (`Unlistable`: the uuid file is missing or malformed) |
| `load_or_create_fs_uuid` | `Bootstrap`, `WriteUuid`, `BootstrapFails` |
| `send_receive`: pipeline, size check, sidecar text, rename | `PipeBegins`, `PipeEnds`, `RenameSidecar` |
| any error after the pipeline began: `cleanup_raw` | `TransferFails` with `Cleanup` |
| `delete`: the stream, then the sidecar | `RemoveStream`, `RemoveSidecar`, `DeleteFails` |
| `prune_both` | `Plan`, `BackupsPruned`, `DeleteSnapshot`, `SnapshotsPruned` |

Encryption matters to the control in one way, which the model keeps: `dd`
overwrites a stream that is there, `gpg` refuses to (`Refused`).  Files are told
apart by name alone, and `next_free_name` looks at the snapshots and not at the
backups; so the clock matters too, and `ClockAt` says what is assumed of it.

### 2.3 Restore

`dir` is the directory that holds dest, a function from paths to what they hold:
a path is a name with the number of its `.broken` suffix.  An object has, besides
its ids, the version of the user's data in it; `Garbage` is the data of a stream
that was cut short or applied to the wrong base.

| code (`application/src/restore.rs`) | actions |
|---|---|
| the checks of `restore_local`, `restore_transfer_back`, `restore_raw` | `Refuse`, `DryRun`, `Begin` |
| `move_aside_target` | `FreeAside` in `Begin`, `MoveAside` |
| `choose_transfer_back_parent` | `ChooseParent` |
| `send_receive` and its clean-up (`adapters/src/btrfs_cli.rs`) | `ReceiveStarts`, `ReceiveEnds`, `ReceiveFails`, `ReceiveBlocked` |
| `restore_raw_pipeline` | `ReceiveStarts`, `RawReceiveEnds`, `RawReceiveFails` |
| `make_writable`, `show`, the clean-writable check | `MakeWritable`, `MakeNested`, `WritableFails` |
| deletion of the staging copy | `DeleteStaging` |
| a call that fails, a kill | `CallFails`, `Killed` |
| the user, editing and snapshotting what is live | `Work`, `TakeSnapshot` |

### 2.4 Pipeline

A pipeline is a sequence of parts: two programs (`pipe`), three (`pipe3`), each
with and without the bridge thread that counts bytes for the progress report.
`buf[j]` is what is in the pipe behind part `j`, `held[j]` the unit it has read and
not written, `stderr` the diagnostics of one chatty stage (which one is chosen at
the start).

| code (`adapters/src/command.rs`) | actions |
|---|---|
| the spawns, left to right; `?` on the second or third | `Spawn`, `SpawnFails` |
| `drain_stderr`, `wait_with_output` | `Drain` |
| the waits, last stage first | `Wait` |
| joining the drains, `stage_result` left to right | `Join` with `Blamed` |
| the bridge: `read`, `write_all`, return on error | `Read`, `Write`, `Breaks`, `Completes` of the part `bridge` |
| the programs and the kernel (not in this repository) | `Read`, `Write`, `Breaks`, `Completes`, `FailsAlone`, `Say`, `SayBreaks` |

### 2.5 Retention

Time is a number of minutes; the lengths of hour, day, week, month and year are
constants, so that TLC sees a year pass.  `Parse`, `Deltas` and `Preserved`
are `parse`, `compute_deltas` and `schedule` of `domain/src/retention.rs`, and
`Tick`, `Take`, `Prune`, `DeleteOldest`, `PruneEnds` and `PruneCut` are what happens
over days: time passes, snapshots are taken, and prunes with or without anchors
are finished or cut.  `Reference` is written from the calendar and not from the
code: the oldest snapshot of a calendar period stands for it.

### 2.6 Places and CommandLine

`Places` has hosts with mount tables (`MountsOf`), filesystems with subvolumes at
paths from their own roots, and what the adapter makes of them:
`containing_btrfs_mount`, `to_mountpoint_relative`, the merge of the two calls of
`list` (`Listed`), and the routing of a delete (`Route`).  `PlaceOf` is what the
kernel makes of a path, for which the adapter's answer has to be right.  A mount
is named by its line in the table (`BtrfsMounts`); of two lines on one directory the
later hides the earlier, and `LongestMount` is the one that decides a path.

`CommandLine` runs processes.  A command is a sequence of named steps (`Steps`),
taken from the order of the calls in `cli/src/cli.rs`; the constant `Commands` has
those that pass clap (`Parsed`).  `at` and `entry` say where a process is, `error` what it failed with, `guard` whether a post-snapshot hook is due.

| code (`cli/src/cli.rs`) | actions |
|---|---|
| `run`, `dispatch`: flags, lock, backup-set file | `Start` |
| `validate_path`, policies, target | `Check`, `RefuseRawRemote` |
| `pick_drive` | `PickDrive` |
| `ensure_dir` | `EnsureDir`, `Declined` |
| `run_hook`, `PostHookGuard` | `PreHook`, `PostHook`, `DropGuard` |
| the snapshot and the two calls of each listing | `TakeSnapshot`, `ListCall`, `ReadonlyCall` |
| the transfer | `BeginReceive`, `SealReceive`, `ReceiveFails` |
| retention and the delete ports (`LoggingDeletePort`, `RoutingDeletePort`, `DryRunDeletePort`) | `Schedule`, `Delete`, `PruneDone` |
| restore, as far as two processes are concerned | `RestoreTo` |
| an error anywhere; `classify`, `exit_code_for` | `Fail`, `Exit` |
| SIGKILL | `Kill` |
| `InventoryService::list`, `stats` (`application/src/inventory.rs`) | `Managed`, `BackupsOf`, `Incomplete`, `Orphans`, `StatsBackups` |

What the use cases decide is abstracted here: a prune dooms any of the named
subvolumes it has listed except what it has just made.

Three of its properties depend on where the directories and mounts are, which the code
takes as it finds them, without a check.  `SoundLayout` says what they depend on: no mount hides a
directory of a command or is in it (`Unhidden`); nothing that lies outside a mounted
subvolume is listed as if it were in such a directory (`Distinct`); snapshots and backups
do not share one directory; and a remote target's path is neither that of the local
snapshots nor above it nor directly in it.  `OneLock` says that all processes use one lock file.
`MCCommandLine` has TLC evaluate both: they hold in `command_line`, and the layouts of
`command_line_mirror` and `command_line_outsider` are not sound: these two runs show what
becomes of `DeletesWhatItMeant` and `ListedPathsLeadBack` then, though comments and documents
of the repository state both without such a condition.

## 3. Runs

| run | instance | properties |
|---|---|---|
| `cycle_safety` (pass, 1.1 million states) | two sources sharing both directories, all four commands, modes yes and strict, a foreign snapshot, any retention, one failure or kill, receives in two steps | `TypeOK`, `ParentOnBothSides`, `NeverSentTwice`, `NameIsFree`, `CommonPairKept`, `ReportIsTrue`, `SnapshotsOutliveMissingTarget`, `CleanupTakesOnlyGarbled`, `RefinesArchive` |
| `cycle_liveness` (pass, 6.5 thousand states) | one source, default policy, two failures or kills, orphaned receives | `ResumeCatchesUp` |
| `raw_target` (pass, 209 thousand states) | one series, two timestamps, plain and encrypted streams (one of them throughout a behaviour), any retention, three snapshots, one failure or kill between any two steps | `TypeOK`, `ListedNeverPartial`, `AnchorIsWhole`, `OnlyPruneTakesData`, `RawReportIsTrue`, `RawRefinesArchive`, `LatestIsBackedUp` |
| `restore` (pass, 754 thousand states) | a live subvolume, a plain directory or nothing at home; two generations with a local snapshot, an incremental backup and an incremental raw stream; three new subvolumes, two moved-aside paths, one failure or kill | `RestoreTypeOK`, `CorrelatedHoldTheSame`, `AsideStays`, `OnlyStagingGoes`, `NewDestIsRestored`, `FailsOnlyWhenBlocked` |
| `pipeline` (pass, 49 thousand states) | `pipe` and `pipe3`, with and without the bridge; three units through pipes that hold one, a stage with three units to say, two failures | `TypeOK`, `OkMeansWhole`, `NothingStillWriting`, `NeverBlamedDownstream`, `Returns`, `ChildrenEnd` |
| `retention` (pass, 284 thousand states) | years of two months and four days, weeks of two days, days of two hours; three snapshots within ten hours (a year is eight), long and short names, every combination of four floors and seven schedules that parses, one cut prune | `TypeOK`, `ScheduleIsReference`, `NothingKeepableIsLost`, `StaysBounded` |
| `command_line` (pass, 699 thousand states) | two processes under one lock, each with any of thirteen commands: prune, resume, restore, dry runs, list, diff, list-drives, snapshot, run from a set of two entries, and runs that are refused; a pool mounted from a subvolume with a directory over it, a drive, a remote host | `TypeOK`, `HooksPaired`, `DoomedIsThere`, `ListedPathsLeadBack`, `DryRunsChangeNothing`, `InventoryIsTrue`, `DeletesWhatItMeant` |
| `cycle_cut_receive` (violation) | as `cycle_liveness`, receives in two steps | `ResumeCatchesUp` |
| `cycle_orphan` (violation) | one source, run and prune, orphaned receives | `CommonPairKept` |
| `command_line_mirror` (violation) | one process, a run to a remote directory with the path of the local snapshot directory | `DeletesWhatItMeant` |
| `command_line_outsider` (violation) | one process, list, with a snapshot `snaps/t2` beside the mounted `@pool` whose `snaps` is listed | `ListedPathsLeadBack` |
| `restore_onto_dest` (violation) | as `restore`, no failures | `ReportedIsRestored` |

### Bounds

- `BackupCycle`: `MaxId` (ids that are issued: five beyond the first three in
  `cycle_safety`, enough for two complete runs, or a run, a snapshot and two
  resumes), `MaxFaults`, `Reserve` (ids that only resumes may use, so that a
  behaviour is not out of ids when it should catch up), and `Times`, a single
  timestamp, so that every name collides with the one before.  With those the
  interesting cases occur: a resume after a failed run, a prune of either half of
  a pair, a transfer under a name that is taken, a listing that has gone stale, an
  incremental send whose parent is another base name's snapshot.
- `RawTarget`: `MaxId` (three snapshots: a pair, a successor, and one more to be
  owed while the first is pruned), two `Times`, so that snapshots share a timestamp
  or not, and `MaxFaults`; a killed transfer, its retry over
  the stray stream and the prune after it fit in.
- `Restore`: `MaxTick` (three new subvolumes: a staging copy, its writable copy and
  one more), `MaxAside`, `MaxFails`.  Two restores onto the same dest fit in, and a
  snapshot of what the first made.
- `Pipeline`: `Total` exceeds what the pipes and the parts can hold between two
  programs, so a stage has to wait for the next; `Chatter` exceeds what a stderr
  pipe holds, so an undrained stage blocks.
- `Retention`: `MaxNow` is past the end of the first year, so that a boundary of every period
  lies between snapshots and one of each lies inside the others;
  `MaxTaken` is three, one more than any tier's count.
- `CommandLine`: the commands do not repeat within a process; two processes
  give every pair of commands in every interleaving.

The theorems of section 5 remove the bounds for every safety property of
`cycle_safety` and for the properties of the other modules that are named there.

Deadlock detection is on for `BackupCycle` and `RawTarget`, which always have a
command to start: in `cycle_safety` a `prune` needs no id, in `cycle_liveness` the
ids reserved for resumes are never used up, in `raw_target` a `resume` can be
issued whenever none runs; the runs of `BackupCycle` that end in a violation find it
before the ids run out.  It is off where the system comes to an end: a pipeline
whose call has returned and whose children have ended, processes that have exited,
a clock at `MaxNow`, a directory in which all ids of `MaxTick` are used.  That a
pipeline cannot stop short of its end is `Returns` and `ChildrenEnd`.

### Fairness

- `BackupCycle` and `RawTarget` assume weak fairness of the active command as a
  whole: it is one sequential program, it is scheduled.  `BackupCycle` also assumes
  it of the receive processes (they finish or die).  Both assume strong fairness of
  issuing `resume`.  That is an assumption about the user of the tool, not about
  its code: `ResumeCatchesUp` and `LatestIsBackedUp` say that repeating the
  documented retry works, not that anything repeats it (the shipped timer issues
  `run`).  Strong fairness is needed because other commands may take the lock in
  between.
- `Pipeline` assumes weak fairness of every program's reads and writes, of what a
  stage has to say, of the draining threads and of mybtrfs.  A program that hangs
  for ever is outside of it: nothing in the code bounds its time.
- Failures have no fairness and are finitely many (`MaxFaults`, `MaxFails`), which is
  what "eventually" has to assume.

## 4. What the violation runs found

1. **A receive cut off between its two last steps blocks its snapshot for
   good** (`cycle_cut_receive`; `adapters/src/btrfs_cli.rs:302`).  The clean-up removes
   a result that is writable *and* unstamped.  A stamped but still writable
   subvolume is rejected, stays under the snapshot's name, is correlated with
   nothing, and makes every later receive of that snapshot fail.
   The same trace is against `application/src/ports.rs:119`, which promises that error
   "after cleanup": nothing is deleted (`btrfs_cli.rs:314`).
2. **An orphaned receive completes behind the next command's listing**
   (`cycle_orphan`; `adapters/src/lock.rs:26`).  The lock is free once mybtrfs is
   dead, the `btrfs receive` it started may be alive, and the next prune deletes
   by path what has meanwhile become half of the only common pair.
3. **A delete is routed by its path alone** (`command_line_mirror`;
   `cli/src/cli.rs:1892`).  When the remote target directory has the path of the
   local snapshot directory, the deletion of a local snapshot runs on the remote
   host and deletes what is there, against `documentation/08-phase5-design.md:81`.
4. **A raw stream is restored onto a dest that exists** (`restore_onto_dest`;
   `cli/src/cli.rs:1131`).  The branch for raw streams does not look at dest: btrfs makes
   the copy inside the subvolume that is there, the look afterwards finds that one, and
   success is reported while dest holds its old data.  The manual page
   (`man/mybtrfs-restore.1:29` and `:157`), `documentation/02-architecture-v2.md:301` and
   `restore.rs:132` say that an existing dest is refused without `--force`.
   `NewDestIsRestored`, which passes and is proved, is what remains.
5. **A subvolume outside the mounted one is listed as a snapshot**
   (`command_line_outsider`; `adapters/src/btrfs_cli/parse.rs:194`).  Its path from the
   top is joined to the mountpoint as if it began there; the comment says that such a
   path "simply won't match any directory under this mountpoint", which is so only while
   no directory has that path (`Distinct`).

Two more disagreements were seen and have no run of their own.  `latest_common_pair`
(`domain/src/safety.rs:71`) returns one pair for two directories, whatever base names are
in them: with two sources in one directory the older one's last common pair is not
anchored, and its next incremental finds no parent of its own, against
`documentation/02-architecture-v2.md:328`.  TLC shows it, with the constants of
`cycle_safety`, on `[][\A b \in Bases : L(b) => L(b)']_vars`, where `L(b)` is
`\E s \in src, t \in tgt : s.leaf.base = b /\ Correlated(s, t)`; `CommonPairKept` is about
the directory's pair, and holds.  The other is the clock that goes back, below.

What the passing runs had to leave room for, and therefore say about the code:

- *Raw targets.*  A kill while the uuid file is written leaves it empty, and no later
  command repairs it (`LatestIsBackedUp` excepts it).  A delete cut between the
  stream and the sidecar leaves a listed backup without data, and every later prune
  that chooses it fails (`ListedNeverPartial` allows the former).  A stray stream
  under another codec is never removed.  When the local time goes back (at the end of
  summer time, as `long` names carry no offset, or with the clock set back), a new
  snapshot can take the name of one that is gone while its backup is still listed.
  `dd` then overwrites that backup's stream, and a transfer that `gpg` refuses cleans
  that backup's stream and sidecar away (`raw_stream.rs:779`).  TLC shows it at once when
  `ClockAt` is dropped; `documentation/01-phases-design-v2.md:131` has the collision
  counter so that "repeated runs never clobber each other".
- *Restore.*  A transfer back whose backup's name is taken by a writable subvolume
  that was never received deletes that subvolume as if it were its own
  failed result (`OnlyStagingGoes` names the case).  A raw restore onto a dest that
  exists is excepted from `NewDestIsRestored` (4 above).  A staging copy left by a failure, or a dest that
  has the backup's own name, makes the restore fail (`FailsOnlyWhenBlocked`).
- *Pipelines.*  A sender that dies of a broken pipe is blamed for the receiver's
  failure; `NeverBlamedDownstream` is the direction that does hold.
- *Inventory.*  A backup sealed between the two calls of a listing is shown as an orphan
  rather than as a copy; `InventoryIsTrue` says what is still true then.


## 5. What is proved

For every value of the constants that satisfies their assumptions (any number of
base names, snapshots, timestamps and failures, any retention; any writers of raw
streams; pipes of any capacity, streams of any length; any directory to restore into;
any calendar, policy and history of prunes; any processes, commands and mount tables):

| theorem | module | says | assumes |
|---|---|---|---|
| `TypeCorrect` | `BackupCycleProofs` | `[]TypeOK` | |
| `NewNameIsFree` | `CycleSafetyProofs` | `[]NameIsFree` | |
| `MissingTargetCostsNothing` | `CycleSafetyProofs` | `SnapshotsOutliveMissingTarget` | |
| `CommonPairIsKept` | `BackupCycleProofs` | `CommonPairKept` | `~Orphans` |
| `CleanupSparesReceived` | `CycleSafetyProofs` | `CleanupTakesOnlyGarbled` | `~Orphans` |
| `ReportsAreTrue` | `CycleSafetyProofs` | `ReportIsTrue` | `~Orphans` |
| `ParentIsThere` | `CycleSafetyProofs` | `[]ParentOnBothSides` | `~Orphans` |
| `NothingIsSentTwice` | `CycleSafetyProofs` | `[]NeverSentTwice` | `~Orphans` |
| `CycleImplementsArchive` | `CycleSafetyProofs` | `RefinesArchive` | `~Orphans` |
| `PipelineTypeCorrect` | `PipelineProofs` | `[]TypeOK` | |
| `OkIsWhole` | `PipelineProofs` | `[]OkMeansWhole` | |
| `NothingWritesBehind` | `PipelineProofs` | `[]NothingStillWriting` | |
| `BlameIsNotDownstream` | `PipelineProofs` | `[]NeverBlamedDownstream` | |
| `RestoreTypeCorrect` | `RestoreProofs` | `[]RestoreTypeOK` | |
| `MovedAsideStays` | `RestoreProofs` | `AsideStays` | |
| `RestoreDestroysNothing` | `RestoreProofs` | `OnlyStagingGoes` | |
| `RestoreFailsOnlyWhenBlocked` | `RestoreProofs` | `FailsOnlyWhenBlocked` | |
| `RestoresKeepTheChain` | `RestoreProofs` | `[]CorrelatedHoldTheSame` | |
| `SuccessIsARestore` | `RestoreProofs` | `NewDestIsRestored`: raw restores onto an existing dest excepted | |
| `RawTypeCorrect` | `RawTargetProofs` | `[]TypeOK` | |
| `ListedIsWholeOrGone` | `RawTargetProofs` | `[]ListedNeverPartial` | |
| `TheAnchorIsWhole` | `RawTargetProofs` | `[]AnchorIsWhole` | |
| `TransfersSpareListed` | `RawTargetProofs` | `OnlyPruneTakesData` | |
| `RawReportsAreTrue` | `RawTargetProofs` | `RawReportIsTrue` | |
| `RawImplementsArchive` | `RawTargetProofs` | `RawRefinesArchive` | |
| `RetentionTypeCorrect` | `RetentionProofs` | `[]TypeOK` | |
| `CascadeIsReference` | `RetentionProofs` | `[]ScheduleIsReference` | `HourOfDay = 0` |
| `PruningOftenLosesNothing` | `RetentionProofs` | `[]NothingKeepableIsLost` | `HourOfDay = 0` |
| `RemainsAreBounded` | `RetentionProofs` | `StaysBounded` | `HourOfDay = 0` |
| `CommandLineTypeCorrect` | `CommandLineProofs` | `[]TypeOK` | |
| `HooksPairUp` | `CommandLineProofs` | `[]HooksPaired` | |
| `DryRunsAreHarmless` | `CommandLineProofs` | `DryRunsChangeNothing` | |
| `InventoriesAreTrue` | `CommandLineProofs` | `InventoryIsTrue` | |
| `PathsLeadBack` | `CommandLineProofs` | `[]ListedPathsLeadBack` | `SoundLayout` |
| `DoomedStaysThere` | `CommandLineProofs` | `[]DoomedIsThere` | `SoundLayout`, `OneLock` |
| `DeletesAreMeant` | `CommandLineProofs` | `DeletesWhatItMeant` | `SoundLayout`, `OneLock` |

`~Orphans` says that a receive ends with its command.  It is needed: run
`cycle_orphan` refutes `CommonPairKept` without it.  `HourOfDay = 0` is the day that
begins at midnight, as in every policy the program can make (no option sets another).
It is needed too: with `HourOfDay` 1, a policy that keeps months only, years of three
and four days and a longer clock, TLC refutes `ScheduleIsReference`, since
`compute_deltas` sets the calendar day of the month against weeks that are counted
from shifted days.  No command reaches that today.  `SoundLayout` and `OneLock`
(section 2.6) are needed as well.  `command_line_outsider` refutes `ListedPathsLeadBack`
where a subvolume lies beside the mounted one (`Distinct` fails), and so does a drive mounted
on a listed snapshot (`Unhidden` fails); `command_line_mirror` refutes `DeletesWhatItMeant`.
The code checks none of this: the three theorems are about the machines that are laid out so.  With two
lock files two processes refute `DoomedIsThere`; three refute `DeletesWhatItMeant`, when
one sends a backup again that another has deleted and the third still means to delete:
the path is the same, the subvolume is a new one.  The assumptions on the
constants are `CycleAssumption` (the snapshots that were there before are
read-only, were not received, and have ids and names of their own),
`PipelineAssumption` (pipes hold at least one unit), `RestoreAssumption` (snapshots
and backups are read-only subvolumes with ids already issued, and dest is a name
in the directory), `DataAssumption` (what is announced and what is correlated at the
start does hold the same data), `RetentionAssumption` (no month is shorter than a week
less a day), `CommandLineAssumption` (commands that pass clap, mounts of filesystems that
are there, finitely many subvolumes with ids and paths of their own, and a `None` that is
no target), `RawAssumption` (the series is a base name, and no writer is both
`dd` and `gpg`), `ForeignIsNoBase` and `NoSubIsNone`.

The argument for `BackupCycle`:

- *Types* (`TypeInv`).  `TypeOK` alone is not inductive: what `resume` sends and what
  `best_parent` returns are "the newest of a set", which is a member of the set
  only if ids are bounded, and a new name's counter is a number only if the
  counters in use are bounded.  `Bounds` adds both, with the last id issued as
  the bound.
- *The chain* (`ChainInv`).  A delete goes by path, from a plan made from listings.
  The invariant says that names are unique on each side (`LeavesUnique`), that
  no receive runs but the active command's own, into a subvolume the listings do
  not show (`OwnReceive`), that up to the plan the listings say what is there
  (`ListingsHold`), that what the clean-up is about to delete is garbled, and that the
  plan spares both halves of one correlated pair (`PlanSparesPair`).  The last
  rests on lemma `LatestCommonPairIsCommon`.
- *Reports* (`ReportInv`).  The only subvolume under the transferred name is the one
  the command's own receive wrote, and the anchors keep it out of the prune.
- *Refinement* (`ArchiveInv`).  A receive that seals must copy something that is on the
  source and has no copy.  The invariant says so of the snapshot about to be sent
  and being received; for `run` because its uuid is newer than every stamp on
  the target, for `resume` because `Due` skips what is correlated.

For `Pipeline` (`PipeInv`):

- *Conservation* (`Conserved`).  What the first program has still to send, what lies
  in pipes and stages, and what the last one took in is always the whole stream.
- *Order* (`Born`).  Parts are born left to right, and the caller is past a stage's wait
  only when that stage has ended.
- *Endings* (`Passed`, `Broken`).  A part that ended well has passed on all that it read,
  and nothing more can come to it; one that stopped early, the bridge included,
  did so because the part after it failed or stopped early.
- *Blame* (`Blame`).  The culprit is a stage that did fail, the bridge never is, and a
  verdict of `Ok` has seen every stage end well.

Together they give `OkMeansWhole`: by `Blame` and `Broken` every part ended well, by
`Passed` nothing is left before the last stage, and by `Conserved` it then has all.

For `Restore` (`RestoreInv`, `Cleared`): while a command is under way nobody else
touches the two names it works under; the path it will move dest to is free and
never dest itself; a receive's subvolume holds nothing complete until the receive
ends; and the staging copy is deleted only after dest exists under another
name.  `OneName` then says that every other step changes one plain name, so moved
aside paths stay.  For `FailsOnlyWhenBlocked`, dest stays free from the rename to
the copy.  For the data, `Alike` says that two complete subvolumes that correlate
hold the same version, wherever they are: a receive that ended well wrote what it
announced because its base, by `Alike`, was the one the stream was made against; and
making a copy writable takes away its received uuid before the user can change it.
`Promised` follows one command from the backup it chose to the report: what is staged,
what is copied from it and what lies under dest in the end hold that version.

For `RawTarget` (`RawInv`): a file belongs to a backup by its name only, so everything
rests on no two backups sharing one.

- *Names rise with ids* (`InOrder`), over the snapshots and the listed backups
  together.  A new name is greater than every snapshot's, by the clock and the
  collision counter; it is greater than every backup's too, because the newest
  listed backup still has its snapshot.
- *The anchor* (`Anchored`): the newest listed backup is whole, its snapshot is on the
  source, and no plan takes either.  Lemma `AnchorIsThePair` says that it is what
  `latest_common_pair` returns.
- *What is sent has no backup* (`Sending`): then its name is nobody else's
  (`MineHasNoInfo`), and neither a write nor a clean-up under that name touches a
  listed backup (`OtherFilesStay`).  A delete takes the files of one backup only
  (`StreamRemoved`).
- *The plan* (`Pruning`) spares what the command itself made, until it reports.

For `Retention`, in three parts:

- *The calendar.*  `DaysBefore` is a recursive function over years and months, of
  which the least counterexample gives what is needed: it rises, and every day has
  one year, month, week and place in them.  `DeltasSplit` then says of each of the
  five deltas that it is the number of the period the moment lies in less that of the
  period the snapshot lies in, so the buckets of `compute_deltas` are the periods of
  the calendar, whatever the moment of the prune.
- *The cascade.*  `RollUpIs` gives what one tier hands to the next: the oldest of each
  bucket.  With `PreservedIs` and `ReferenceIs` both the code's cascade and the
  reference come to one form (`Keep`, from the tiers' `Wanted`), in which they are equal.
- *The prunes.*  What a prune keeps must be what a single prune of everything ever
  taken would keep, though the dropped snapshots are no longer there to be counted.
  The inductive invariant is `WantedSpared` (what a single prune would keep is there
  and not doomed) with `RestIsWanted` (of what the prune under way leaves, nothing is
  there without reason).  `OthersGone` says that taking unwanted snapshots away changes
  nothing for the wanted ones, `TimePasses` that a snapshot that is not wanted never
  is later, which holds because the oldest of a bucket stays its oldest.  The bound
  comes from an injection of a tier's snapshots into the numbers of their buckets
  (`TierAtMost`, `WantedAtMost`).

For `CommandLine`:

- *Types* (`Typed`).  Where a process is in its steps decides what it remembers
  (`ControlTyped`, `MemoryTyped`), ids are issued once and below the next id
  (`DiskTyped`), and every subvolume has a place of its own (`Placed`).
- *Hooks* (`HookInv`).  The log of hooks alternates, up to the one a guard still owes
  (`HooksSoFar`); the guard is set only between the two hooks of one entry
  (`OpenSoFar`), and every way out of those steps closes it (`EndsAsItOpened`).
- *Inventories* (`ReadInv`).  Between the two calls of a listing other processes go on
  creating and sealing.  What a row says stays true of its id because ids are not
  used again and a received uuid is set once (`RowsHold`, `ReceiveHolds`), and what the
  second listing was read after the first is not known before it (`Reading`).
- *Paths* (`LeadInv`).  Everything a process has listed on a side is in that side's
  directory under one id, and the subvolume with that id, if it is still there, is at the
  place the path leads to (`Leads`).  An id never moves (`Fixed`), and a new
  subvolume appears only in a directory of the commands (`PlacesKept`), so that nothing
  ever comes to lie where it would be listed in the wrong place (`Honest`).  Rows that
  were read but not merged yet, and a receive that is not sealed yet, carry the same
  facts from one call to the next (`RowsLead`, `SealLeads`).  `PlaceBelow` and `RowLeads`
  are the lemmas about mounts: the longest mount that contains a directory decides the
  paths in it, and re-basing a listed path and resolving it again cancel out.
- *The lock* (`LockInv`).  Whoever runs a command that mutates holds the lock (`Locked`),
  and only such commands change a filesystem (`ChangersMutate`).  What the holder has
  listed is therefore there until its own deletes begin, and what is still doomed after
  that (`StillThere`).  A delete resolves the path to the subvolume with the doomed id and
  to no other (`DeleteTakes`); it leaves what else is doomed because ids on one side are
  distinct and the two sides are different directories (`DeleteLeaves`).  The invariant
  needs that a step's action is known from its name (`WhichStep`).

Only model-checked:

- liveness (`ResumeCatchesUp`, `LatestIsBackedUp`, `Returns`, `ChildrenEnd`), which the
  prover does not handle;
- the violations.

## 6. What is not modelled

- *Domain.*  The duplicate-uuid rejection of `RelationshipGraph::build`: ids are
  issued once in the models.  The text of names: a name is what `parse_name` tells
  apart.  Counters are unbounded naturals (`naming.rs:89` adds to a `u32`), and so are
  the counts of a policy (`backup_set.rs:33` casts a negative one to a huge one).
- *Clock.*  `BackupCycle` takes any timestamp of `Times`; in `Retention` time only goes
  forward, and in `RawTarget` it does not go back behind a snapshot that is there
  (`ClockAt`): a local clock set back or a change from summer time is left out
  (section 4 says what it does to a raw target).  `HourOfDay` is 0 there, the only value the code passes.  Two snapshots
  of one minute and different name formats do not occur.
- *Listings in `BackupCycle`* are one step; `CommandLine` has both calls of each,
  interleaved with another process.
- *Durability.*  A delete is permanent at once, though btrfs may bring a deferred
  one back after a power loss (`btrfs_cli.rs:330`), and a renamed sidecar is there for
  good, though nothing syncs it.
- *Raw streams.*  A backup counts as whole when its own stream is.  A prune may take
  a stream that later increments need, which `domain/src/safety.rs:11` says and
  defers.  Two series in one directory with the same leaf names, and the orphaned
  writers of a killed pipeline, are left out.
- *Restore.*  What is outside dest's directory does not change meanwhile.  An
  incremental raw stream needs its parent on the destination; nothing in the
  code brings it there, as the staging copy of an earlier restore is deleted.
- *Pipelines.*  No child has a timeout, in the code or here.  An interrupted read
  ends the bridge as an end of input would; that is left out.  A child's own
  children that hold its stderr open are outside.
- *Command line.*  Wording, the journal, progress, logging and completion.  A kill
  between the hooks never runs the second one; `HooksPaired` says so.  Processes that
  do not agree on a lock file interleave in the code and are not checked here: the
  passing run gives both the same one.  Quoting on the remote host and a receive
  that outlives its ssh connection are left out; the latter is what `Orphans` is for
  local ones.
- *Text.*  The output of `btrfs`, `findmnt` and `lsblk` is modelled by what it parses to.

## 7. Plan

1. Processes under different lock files: which of `CommandLine`'s properties survive
   two writers, and the same for `BackupCycle`.
2. Raw streams whose parents are needed: an abstract specification of what can be
   restored, and which prunes respect it.
3. Deletes undone and sidecars lost by a power failure.
4. A local clock that goes back, over both kinds of target.
