------------------------------ MODULE CommandLine ------------------------------
(***************************************************************************)
(* The command line: processes that each run one command from the parsed   *)
(* arguments to the exit code, through the run lock, the checks, the       *)
(* directories made on request, the snapshot hooks and the steps in which  *)
(* the use cases read the filesystems and change them.                     *)
(*                                                                         *)
(* Two processes may interleave at every btrfs call: the lock is what      *)
(* keeps writers apart, and commands that only read take none.  What the   *)
(* use cases decide is modelled in BackupCycle, Restore and Retention;     *)
(* here a prune dooms any of the named subvolumes it has listed.           *)
(***************************************************************************)
EXTENDS Places, FiniteSets

CONSTANTS
  Procs, Locks,
  LockOf,        \* lock_path: the lock file of every process
  Commands,      \* the command lines given
  Initially,     \* what is on every filesystem at first
  Directories,   \* the directories there are at first
  Names,         \* the leaf names of snapshots, in the order they are given
  HostName,      \* of this host
  Restored,      \* the leaf name a restore is given
  None

Kinds == {"snapshot", "run", "resume", "prune", "restore", "list", "diff", "drives"}

Entry == [snapshots : Seq(STRING), target : Target \cup {None},
          pre : {None, "hook"}, post : {None, "hook"}]

Command == [kind : Kinds, set : BOOLEAN, raw : BOOLEAN, passphrase : BOOLEAN, dry : BOOLEAN,
            yes : BOOLEAN, pre : {None, "hook"}, post : {None, "hook"}, entries : Seq(Entry)]

(* What the parser lets through; a raw target is modelled in RawTarget:    *)
(* here, only what is refused.                                             *)
Parsed(c) ==
  /\ c \in Command /\ c.entries # <<>> /\ (Len(c.entries) > 1 => c.set)
  /\ \A i \in DOMAIN c.entries : c.entries[i].target = None => c.kind = "run" /\ ~c.set /\ ~c.raw
  /\ c.kind # "run" => ~c.set /\ c.entries[1].target.host = "here"
  /\ c.dry => c.kind \in {"prune", "restore"}
  /\ c.raw => c.set \/ c.entries[1].target.host # "here"

Subvol == [id : Nat, path : Seq(STRING) \ {<<>>}, readonly : BOOLEAN, received : STRING \cup {None}]

(* A filesystem gives every id once, and a place to one subvolume.         *)
WellNumbered(subvols, bound) ==
  \A s, t \in subvols :
    s \in Subvol /\ s.id < bound /\ (s.id = t.id \/ s.path = t.path => s = t)

Codes == 0 .. 4

ASSUME CommandLineAssumption ==
  /\ LockOf \in [Procs -> Locks]
  /\ None \notin Procs /\ None \notin Codes /\ None \notin STRING /\ None \notin Target
  /\ \A c \in Commands : Parsed(c)
  /\ Names \in Seq(STRING) /\ HostName \in STRING /\ Restored \in STRING
  /\ \A h \in Hosts : \A i \in DOMAIN MountsOf[h] : MountsOf[h][i].fs \in DOMAIN Initially
  /\ \A f \in DOMAIN Initially :
       IsFiniteSet(Initially[f]) /\ WellNumbered(Initially[f], 1 + Cardinality(Initially[f]))

-----------------------------------------------------------------------------
(* What a command does, for one entry of a backup set or for its only one. *)

Listing == <<"list_source", "readonly_source", "list_target", "readonly_target">>
Transfer == <<"receive", "seal">>
Pruning == <<"schedule", "delete">>
BackupRun == <<"target", "target_dir", "snapshot">> \o Listing \o Transfer \o Pruning \o <<"post_hook">>

SnapshotSteps == <<"path", "snapshot_dir", "pre_hook", "snapshot", "post_hook">>
EntrySteps == <<"path", "snapshot_dir", "pre_hook", "policies">> \o BackupRun
SingleRunSteps == <<"path", "snapshot_dir", "pre_hook">> \o BackupRun
ResumeSteps == <<"path", "policies">> \o Listing \o Transfer \o Pruning
PruneSteps == <<"path", "policies">> \o Listing \o Pruning
RestoreSteps == <<"path", "target", "restore">>
ListSteps == <<"path">> \o Listing      \* list, stats and status
DiffSteps == <<"path">>
DrivesSteps == <<"discover">>           \* list-drives and list-subvolumes only print

Steps(c) ==
  CASE c.kind = "snapshot" -> SnapshotSteps
    [] c.kind = "run" -> IF c.set THEN EntrySteps ELSE SingleRunSteps
    [] c.kind = "resume" -> ResumeSteps
    [] c.kind = "prune" -> PruneSteps
    [] c.kind = "restore" -> RestoreSteps
    [] c.kind = "list" -> ListSteps
    [] c.kind = "diff" -> DiffSteps
    [] c.kind = "drives" -> DrivesSteps

(* command_mutates                                                         *)
MutatesForgettingResume(c) ==      \* faulty variant: a command was added and forgotten here
  c.kind \in {"run", "snapshot"} \/ (c.kind \in {"prune", "restore"} /\ ~c.dry)

Mutates(c) ==
  c.kind \in {"run", "snapshot", "resume"} \/ (c.kind \in {"prune", "restore"} /\ ~c.dry)

(* The flags that exclude one another; resume looks at its passphrase      *)
(* after its paths and its policies.                                       *)
PassphraseAlone(c) == c.passphrase /\ ~c.raw /\ ~c.set

BadUsage(c) == c.kind = "run" /\ (PassphraseAlone(c) \/ (c.set /\ c.raw))

(* An error: the type it carries, if any, and whether its chain says       *)
(* "Permission denied".                                                    *)
Usage == [type |-> "usage", denied |-> FALSE]
Busy == [type |-> "lock", denied |-> FALSE]
LockUnopenable == [type |-> "lock", denied |-> TRUE]
Plain == [type |-> "none", denied |-> FALSE]
NeedsRoot == [type |-> "none", denied |-> TRUE]
NoError == [type |-> "no_error", denied |-> FALSE]

(* A malformed retention policy; a set also has its incremental mode.      *)
PolicyErrors(c) == {Usage} \cup (IF c.set THEN {Plain} ELSE {})

(* A malformed target, or none that can be picked.                         *)
TargetErrors(e) == {Plain} \cup (IF e.target = None THEN {} ELSE {Usage})

(* A call to the file system, or to a port: only the text tells the kind.  *)
CallErrors == {Plain, NeedsRoot}

(* What can go wrong in a step besides what the model decides.             *)
Errors(c, step) ==
  CASE step = "policies" -> PolicyErrors(c)
    [] step = "target" -> TargetErrors(c.entries[1])
    [] step = "pre_hook" -> {Plain}
    [] OTHER -> CallErrors

(* classify and exit_code_for                                              *)
ExitCode(e) ==
  CASE e = NoError -> 0
    [] e.type = "usage" -> 2
    [] e.type = "lock" -> 3
    [] e.type = "none" /\ e.denied -> 4
    [] OTHER -> 1

HookOf(own, general) == IF own # None THEN own ELSE general

-----------------------------------------------------------------------------
VARIABLES
  phase,     \* of every process: idle, running, failing, over or killed
  command,   \* what it runs
  entry,     \* the entry it is at
  at,        \* the step of that entry
  opened,    \* entries whose pre-snapshot hook has passed
  closed,    \* the post-snapshot hooks it has run, by entry, in order
  guard,     \* whether a post-snapshot hook is still due
  error,     \* what it failed with
  code,      \* its exit code
  holder,    \* who holds every lock
  fs,        \* the subvolumes of every filesystem
  next,      \* the next id of every filesystem
  named,     \* snapshots named so far
  dirs,      \* the directories there are
  rows,      \* what a process has listed last
  listed,    \* the subvolumes it knows on either side
  inflight,  \* what its receive has created
  doomed     \* what it still has to delete

control == <<phase, command, entry, at, opened, closed, guard, error, code, holder>>
disk == <<fs, next, named, dirs>>
memory == <<rows, listed, inflight, doomed>>
vars == <<control, disk, memory>>

Step(p) == Steps(command[p])[at[p]]
EntryOf(p) == command[p].entries[entry[p]]
SideOf(p, side) ==
  IF side = "source" THEN [host |-> "here", dir |-> EntryOf(p).snapshots] ELSE EntryOf(p).target

NothingListed == [source |-> {}, target |-> {}]

Init ==
  /\ phase = [p \in Procs |-> "idle"] /\ command = [p \in Procs |-> None]
  /\ entry = [p \in Procs |-> 1] /\ at = [p \in Procs |-> 1]
  /\ opened = [p \in Procs |-> {}] /\ closed = [p \in Procs |-> <<>>]
  /\ guard = [p \in Procs |-> FALSE] /\ error = [p \in Procs |-> NoError]
  /\ code = [p \in Procs |-> None] /\ holder = [l \in Locks |-> None]
  /\ fs = Initially /\ next = [f \in DOMAIN Initially |-> 1 + Cardinality(Initially[f])]
  /\ named = Cardinality({i \in DOMAIN Names : \E f \in DOMAIN Initially :
                              \E s \in Initially[f] : Leaf(s.path) = Names[i]})
  /\ dirs = Directories
  /\ rows = [p \in Procs |-> {}] /\ listed = [p \in Procs |-> NothingListed]
  /\ inflight = [p \in Procs |-> None] /\ doomed = [p \in Procs |-> NothingListed]

-----------------------------------------------------------------------------
(* Control                                                                 *)

(* What an entry's use cases have read goes with the entry.                *)
Forget(p) ==
  /\ rows' = [rows EXCEPT ![p] = {}] /\ listed' = [listed EXCEPT ![p] = NothingListed]
  /\ inflight' = [inflight EXCEPT ![p] = None] /\ doomed' = [doomed EXCEPT ![p] = NothingListed]

(* ... and all that a process holds, with the process.                     *)
Gone(p) ==
  /\ at' = [at EXCEPT ![p] = 1] /\ entry' = [entry EXCEPT ![p] = 1]
  /\ guard' = [guard EXCEPT ![p] = FALSE] /\ error' = [error EXCEPT ![p] = NoError]
  /\ holder' = [l \in Locks |-> IF holder[l] = p THEN None ELSE holder[l]]
  /\ Forget(p)

FailWith(p, e) ==
  /\ phase' = [phase EXCEPT ![p] = "failing"] /\ error' = [error EXCEPT ![p] = e]
  /\ at' = [at EXCEPT ![p] = 1]
  /\ Forget(p)
  /\ UNCHANGED <<entry, opened, closed, guard, code>>

AdvancePastEnd(p) ==             \* faulty variant: counts the steps from zero
  LET last == at[p] > Len(Steps(command[p]))
      final == last /\ entry[p] = Len(command[p].entries)
  IN  /\ phase' = [phase EXCEPT ![p] = IF final THEN "failing" ELSE @]
      /\ at' = [at EXCEPT ![p] = IF last THEN 1 ELSE @ + 1]
      /\ entry' = [entry EXCEPT ![p] = IF last /\ ~final THEN @ + 1 ELSE @]

(* The next step, the next entry, or the end of the last one.              *)
Advance(p) ==
  LET last == at[p] = Len(Steps(command[p]))
      final == last /\ entry[p] = Len(command[p].entries)
  IN  /\ phase' = [phase EXCEPT ![p] = IF final THEN "failing" ELSE @]
      /\ at' = [at EXCEPT ![p] = IF last THEN 1 ELSE @ + 1]
      /\ entry' = [entry EXCEPT ![p] = IF last /\ ~final THEN @ + 1 ELSE @]

StepDone(p) ==
  /\ Advance(p)
  /\ UNCHANGED <<command, opened, closed, guard, error, code, holder>>

(* parse_backup_set: a file is taken whole or, before any of its entries   *)
(* is begun, not at all.                                                   *)
SetRejected(p, c) == c.set /\ \E e \in {Plain, NeedsRoot} : FailWith(p, e)

(* run, dispatch: the lock is taken before anything else is looked at;     *)
(* run parses its policies and looks at its flags before its first path.   *)
Start(p, c) ==
  /\ phase[p] = "idle"
  /\ command' = [command EXCEPT ![p] = c]
  /\ \/ /\ Mutates(c) => holder[LockOf[p]] = None
        /\ holder' = IF Mutates(c) THEN [holder EXCEPT ![LockOf[p]] = p] ELSE holder
        /\ \/ c.kind = "run" /\ FailWith(p, Usage)
           \/ ~BadUsage(c) /\ SetRejected(p, c)
           \/ /\ ~BadUsage(c)
              /\ phase' = [phase EXCEPT ![p] = "running"]
              /\ UNCHANGED <<entry, at, opened, closed, guard, error, code, memory>>
     \/ /\ Mutates(c) /\ holder[LockOf[p]] # None
        /\ FailWith(p, Busy) /\ UNCHANGED holder
     \/ /\ Mutates(c) /\ FailWith(p, LockUnopenable) /\ UNCHANGED holder
  /\ UNCHANGED disk

Running(p, step) == phase[p] = "running" /\ Step(p) = step

(* validate_path, the policies, the target: nothing changes.               *)
Check(p) ==
  /\ phase[p] = "running" /\ Step(p) \in {"path", "policies", "target", "discover"}
  /\ ~(Running(p, "policies") /\ command[p].kind = "resume" /\ PassphraseAlone(command[p]))
  /\ ~(Running(p, "target") /\ EntryOf(p).target = None)
  /\ StepDone(p)
  /\ UNCHANGED <<disk, memory>>

(* detect: the btrfs filesystems mounted here, each by whichever of its    *)
(* mountpoints lsblk prints.                                               *)
Drives == {MountsOf["here"][i] : i \in BtrfsMounts("here")}

(* Prompter::choose: anything the user likes, or the only one.             *)
DriveChoices(yes) ==
  {m \in Drives : yes => \A n \in Drives : n.fs = m.fs}

(* resolve_target_drive: for want of a target.                             *)
PickDrive(p) ==
  /\ Running(p, "target") /\ EntryOf(p).target = None
  /\ \E m \in DriveChoices(command[p].yes) :
       command' = [command EXCEPT ![p].entries[entry[p]].target =
                     [host |-> "here", dir |-> m.at \o <<HostName>>]]
  /\ Advance(p)
  /\ UNCHANGED <<opened, closed, guard, error, code, holder, disk, memory>>

(* --raw takes no remote target, which shows only after the hook.          *)
RefuseRawRemote(p) ==
  /\ Running(p, "target_dir") /\ command[p].raw /\ EntryOf(p).target.host # "here"
  /\ FailWith(p, Usage)
  /\ UNCHANGED <<command, holder, disk>>

(* ensure_dir: made after a yes; there is none for a remote target.        *)
EnsureDir(p, side) ==
  LET d == SideOf(p, side)
  IN  /\ Running(p, IF side = "source" THEN "snapshot_dir" ELSE "target_dir")
      /\ ~(side = "target" /\ command[p].raw /\ d.host # "here")
      /\ dirs' = IF d.host = "here" THEN dirs \cup {d.dir} ELSE dirs
      /\ StepDone(p)
      /\ UNCHANGED <<fs, next, named, memory>>

(* A directory that is not there is never made without a yes.              *)
Declined(p, side) ==
  LET d == SideOf(p, side)
  IN  /\ Running(p, IF side = "source" THEN "snapshot_dir" ELSE "target_dir")
      /\ d.host = "here" /\ d.dir \notin dirs /\ ~command[p].yes
      /\ FailWith(p, Plain)
      /\ UNCHANGED <<command, holder, disk>>

(* run_hook, and the guard made after it.                                  *)
PreHook(p) ==
  /\ Running(p, "pre_hook")
  /\ opened' = [opened EXCEPT ![p] = @ \cup {entry[p]}]
  /\ guard' = [guard EXCEPT ![p] = HookOf(EntryOf(p).post, command[p].post) # None]
  /\ Advance(p)
  /\ UNCHANGED <<command, closed, error, code, holder, disk, memory>>

PostHookBeforeRan(p) ==          \* faulty variant: marked as run only when it passes
  /\ Running(p, "post_hook")
  /\ closed' = IF guard[p] THEN [closed EXCEPT ![p] = Append(@, entry[p])] ELSE closed
  /\ \/ /\ guard' = [guard EXCEPT ![p] = FALSE] /\ Advance(p) /\ UNCHANGED error
     \/ /\ guard[p] /\ phase' = [phase EXCEPT ![p] = "failing"]
        /\ error' = [error EXCEPT ![p] = Plain] /\ UNCHANGED <<at, entry, guard>>
  /\ Forget(p)
  /\ UNCHANGED <<command, opened, code, holder, disk>>

(* PostHookGuard::finish: it counts as run before it is run.               *)
PostHook(p) ==
  /\ Running(p, "post_hook")
  /\ closed' = IF guard[p] THEN [closed EXCEPT ![p] = Append(@, entry[p])] ELSE closed
  /\ guard' = [guard EXCEPT ![p] = FALSE]
  /\ \/ Advance(p) /\ UNCHANGED error
     \/ /\ guard[p] /\ phase' = [phase EXCEPT ![p] = "failing"]
        /\ error' = [error EXCEPT ![p] = Plain] /\ UNCHANGED <<at, entry>>
  /\ Forget(p)
  /\ UNCHANGED <<command, opened, code, holder, disk>>

(* A step that fails: nothing after it is done.                            *)
Fail(p) ==
  /\ phase[p] = "running" /\ Step(p) # "post_hook"
  /\ \E e \in Errors(command[p], Step(p)) : FailWith(p, e)
  /\ UNCHANGED <<command, holder, disk>>

(* PostHookGuard::drop: its failure is only logged.                        *)
DropGuard(p) ==
  /\ phase[p] = "failing" /\ guard[p]
  /\ closed' = [closed EXCEPT ![p] = Append(@, entry[p])]
  /\ guard' = [guard EXCEPT ![p] = FALSE]
  /\ UNCHANGED <<phase, command, entry, at, opened, error, code, holder, disk, memory>>

Exit(p) ==
  /\ phase[p] = "failing" /\ ~guard[p]
  /\ phase' = [phase EXCEPT ![p] = "over"]
  /\ code' = [code EXCEPT ![p] = ExitCode(error[p])]
  /\ Gone(p)
  /\ UNCHANGED <<command, opened, closed, disk>>

(* The system frees the lock; nothing is dropped.                          *)
Kill(p) ==
  /\ phase[p] \in {"running", "failing"}
  /\ phase' = [phase EXCEPT ![p] = "killed"]
  /\ Gone(p)
  /\ UNCHANGED <<command, opened, closed, code, disk>>

-----------------------------------------------------------------------------
(* The filesystems                                                         *)

FsOf(d) == ContainingMount(d.host, d.dir).fs

SubvolAt(host, path) ==
  LET place == PlaceOf(host, path) IN {s \in fs[place.fs] : s.path = place.path}

(* btrfs creates a subvolume at a free path of a mounted filesystem, whose *)
(* top is never free.                                                      *)
Create(host, path, readonly) ==
  LET place == PlaceOf(host, path)
  IN  /\ place.fs \in DOMAIN fs /\ place.path # <<>> /\ SubvolAt(host, path) = {}
      /\ fs' = [fs EXCEPT ![place.fs] = @ \cup
                  {[id |-> next[place.fs], path |-> place.path,
                    readonly |-> readonly, received |-> None]}]
      /\ next' = [next EXCEPT ![place.fs] = @ + 1]

Seen(s, path) == [id |-> s.id, path |-> path, readonly |-> s.readonly, received |-> s.received]

(* create_readonly under the next name; what it made is known from `show'. *)
TakeSnapshot(p) ==
  /\ Running(p, "snapshot") /\ named < Len(Names)
  /\ LET path == EntryOf(p).snapshots \o <<Names[named + 1]>>
         place == PlaceOf("here", path)
     IN  /\ Create("here", path, TRUE)
         /\ listed' = [listed EXCEPT ![p] = [NothingListed EXCEPT !.source =
              {[id |-> next[place.fs], path |-> path, readonly |-> TRUE, received |-> None]}]]
  /\ named' = named + 1
  /\ StepDone(p)
  /\ UNCHANGED <<dirs, rows, inflight, doomed>>

(* list: its first call, in a directory under a btrfs mount, and the       *)
(* second with the merge of both.                                          *)
ListCall(p, side) ==
  /\ Running(p, IF side = "source" THEN "list_source" ELSE "list_target")
  /\ FsOf(SideOf(p, side)) \in DOMAIN fs
  /\ rows' = [rows EXCEPT ![p] = Rows(fs[FsOf(SideOf(p, side))])]
  /\ StepDone(p)
  /\ UNCHANGED <<disk, listed, inflight, doomed>>

ReadonlyCall(p, side) ==
  LET d == SideOf(p, side)
      found == Listed(d.host, d.dir, rows[p], ReadonlyIds(fs[FsOf(d)]))
  IN  /\ Running(p, IF side = "source" THEN "readonly_source" ELSE "readonly_target")
      /\ listed' = [listed EXCEPT ![p][side] =
                      found \cup {r \in @ : \A f \in found : f.id # r.id}]
      /\ rows' = [rows EXCEPT ![p] = {}]
      /\ StepDone(p)
      /\ UNCHANGED <<disk, inflight, doomed>>

IsNamed(r) == \E i \in DOMAIN Names : Leaf(r.path) = Names[i]

(* The snapshots still owed to the target; run sends the one it has taken. *)
Due(p) ==
  LET owed == {r \in listed[p].source :
                 IsNamed(r) /\ \A b \in listed[p].target : b.received # Leaf(r.path)}
  IN  IF command[p].kind = "run" THEN {r \in owed : \A o \in owed : o.id <= r.id} ELSE owed

(* SshCommandRunner: of a pipe, only the consumer runs on the other host.  *)
Receiver(p) == EntryOf(p).target.host

(* btrfs receive makes a writable subvolume first.                         *)
BeginReceive(p) ==
  /\ Running(p, "receive")
  /\ \/ \E r \in Due(p) :
          LET path == EntryOf(p).target.dir \o <<Leaf(r.path)>>
              place == PlaceOf(Receiver(p), path)
          IN  /\ Create(Receiver(p), path, FALSE)
              /\ inflight' = [inflight EXCEPT ![p] =
                   [fs |-> place.fs, id |-> next[place.fs], path |-> path]]
     \/ Due(p) = {} /\ inflight' = [inflight EXCEPT ![p] = None] /\ UNCHANGED <<fs, next>>
  /\ StepDone(p)
  /\ UNCHANGED <<named, dirs, rows, listed, doomed>>

Received(p) == {s \in fs[inflight[p].fs] : s.id = inflight[p].id}

(* ... and stamps and seals it when the stream is in; it is then verified. *)
SealReceive(p) ==
  /\ Running(p, "seal")
  /\ \/ inflight[p] = None /\ UNCHANGED <<fs, listed>>
     \/ /\ inflight[p] # None /\ Received(p) # {}
        /\ LET seal(s) == [s EXCEPT !.readonly = TRUE, !.received = Leaf(s.path)]
           IN  /\ fs' = [fs EXCEPT ![inflight[p].fs] =
                           (@ \ Received(p)) \cup {seal(s) : s \in Received(p)}]
               /\ listed' = [listed EXCEPT ![p].target =
                    @ \cup {Seen(seal(s), inflight[p].path) : s \in Received(p)}]
  /\ StepDone(p)
  /\ UNCHANGED <<next, named, dirs, rows, inflight, doomed>>

(* A transfer that fails; what it left is deleted, unless that fails too.  *)
ReceiveFails(p) ==
  /\ Running(p, "seal") /\ inflight[p] # None
  /\ fs' \in {fs, [fs EXCEPT ![inflight[p].fs] = @ \ Received(p)]}
  /\ FailWith(p, Plain)
  /\ UNCHANGED <<command, holder, next, named, dirs>>

(* What the policies and the anchors do not keep; what this command has    *)
(* made is always kept.                                                    *)
Schedule(p) ==
  /\ Running(p, "schedule")
  /\ LET made == inflight[p] # None
         kept(r) == made /\ Leaf(r.path) = Leaf(inflight[p].path)
         mayGo(side) == {r \in listed[p][side] : IsNamed(r) /\ ~kept(r)}
     IN  \E S \in SUBSET mayGo("source"), T \in SUBSET mayGo("target") :
           doomed' = [doomed EXCEPT ![p] = [source |-> S, target |-> T]]
  /\ StepDone(p)
  /\ UNCHANGED <<disk, rows, listed, inflight>>

(* Backups go before snapshots, oldest first.                              *)
NextDoomed(p) ==
  LET side == IF doomed[p].target # {} THEN "target" ELSE "source"
  IN  [side |-> side, row |-> CHOOSE r \in doomed[p][side] : \A o \in doomed[p][side] : r.id <= o.id]

Undone(p) == doomed[p].source \cup doomed[p].target # {}

Struck(p) == [doomed EXCEPT ![p][NextDoomed(p).side] = @ \ {NextDoomed(p).row}]

DeleteAlways(p) ==               \* faulty variant: the dry run's port is not swapped in
  /\ Running(p, "delete") /\ Undone(p)
  /\ LET path == NextDoomed(p).row.path
         host == Route(EntryOf(p).target, path)
     IN  /\ SubvolAt(host, path) # {}
         /\ fs' = [fs EXCEPT ![PlaceOf(host, path).fs] = @ \ SubvolAt(host, path)]
  /\ doomed' = Struck(p)
  /\ UNCHANGED <<control, next, named, dirs, rows, listed, inflight>>

(* LoggingDeletePort over RoutingDeletePort over btrfs subvolume delete, or *)
(* DryRunDeletePort.                                                       *)
Delete(p) ==
  /\ Running(p, "delete") /\ Undone(p)
  /\ LET path == NextDoomed(p).row.path
         host == Route(EntryOf(p).target, path)
     IN  \/ command[p].dry /\ UNCHANGED fs
         \/ /\ ~command[p].dry /\ SubvolAt(host, path) # {}
            /\ fs' = [fs EXCEPT ![PlaceOf(host, path).fs] = @ \ SubvolAt(host, path)]
  /\ doomed' = Struck(p)
  /\ UNCHANGED <<control, next, named, dirs, rows, listed, inflight>>

PruneDone(p) ==
  /\ Running(p, "delete") /\ ~Undone(p)
  /\ StepDone(p)
  /\ UNCHANGED <<disk, memory>>

(* make_writable into a free place, or a dry run.                          *)
RestoreTo(p) ==
  /\ Running(p, "restore")
  /\ IF command[p].dry THEN UNCHANGED <<fs, next>>
     ELSE Create("here", EntryOf(p).snapshots \o <<Restored>>, FALSE)
  /\ StepDone(p)
  /\ UNCHANGED <<named, dirs, memory>>

Sides == {"source", "target"}

ProcStep(p) ==
  \/ \E c \in Commands : Start(p, c)
  \/ Check(p) \/ PickDrive(p) \/ RefuseRawRemote(p)
  \/ \E d \in Sides : EnsureDir(p, d) \/ Declined(p, d)
  \/ PreHook(p) \/ PostHook(p) \/ Fail(p) \/ DropGuard(p) \/ Exit(p) \/ Kill(p)
  \/ TakeSnapshot(p) \/ \E d \in Sides : ListCall(p, d) \/ ReadonlyCall(p, d)
  \/ BeginReceive(p) \/ SealReceive(p) \/ ReceiveFails(p)
  \/ Schedule(p) \/ Delete(p) \/ PruneDone(p) \/ RestoreTo(p)

Next == \E p \in Procs : ProcStep(p)

Spec == Init /\ [][Next]_vars

-----------------------------------------------------------------------------
(* Layouts of directories and mounts.  What the code makes of a path rests *)
(* on them, and it checks none of it: where a layout is not sound, a path  *)
(* may be taken for another.                                               *)

(* The directories commands work in.                                       *)
Entries == UNION {{c.entries[i] : i \in DOMAIN c.entries} : c \in Commands}
Picked == {[host |-> "here", dir |-> m.at \o <<HostName>>] : m \in Drives}
SourceOf(e) == [host |-> "here", dir |-> e.snapshots]
TargetsOf(e) == IF e.target = None THEN Picked ELSE {e.target}
Homes == UNION {{SourceOf(e)} \cup TargetsOf(e) : e \in Entries}

(* Where a directory is on its filesystem.                                 *)
BaseOf(d) ==
  LET m == ContainingMount(d.host, d.dir) IN m.subvol \o Rest(m.at, d.dir)

(* No other mount hides a directory or is in it.                           *)
Unhidden(d) ==
  LET mounts == MountsOf[d.host]
  IN  /\ LongestMount(mounts, DOMAIN mounts, d.dir) = ContainingMount(d.host, d.dir)
      /\ \A i \in DOMAIN mounts : mounts[i].at = <<>> \/ Parent(mounts[i].at) # d.dir

(* What is not below the mounted subvolume, and therefore listed by its    *)
(* path from the top, does not look as if it were in the directory.  The   *)
(* comment of to_mountpoint_relative says it never does; it may.           *)
Distinct(d, base) ==
  LET m == ContainingMount(d.host, d.dir) IN IsPrefix(m.subvol, base) \/ m.at \o base # d.dir

SoundLayout ==
  /\ \A d \in Homes :
       /\ Unhidden(d)
       /\ \A o \in Homes : FsOf(o) = FsOf(d) => Distinct(d, BaseOf(o))
       /\ FsOf(d) \in DOMAIN Initially => \A s \in Initially[FsOf(d)] : Distinct(d, Parent(s.path))
  /\ \A e \in Entries : \A t \in TargetsOf(e) :
       /\ FsOf(t) = FsOf(SourceOf(e)) => BaseOf(t) # BaseOf(SourceOf(e))
       /\ t.host # "here" => ~IsPrefix(t.dir, e.snapshots) /\ Parent(t.dir) # e.snapshots

(* Everybody uses one lock file.                                           *)
OneLock == \A p, q \in Procs : LockOf[p] = LockOf[q]

-----------------------------------------------------------------------------
(* What list and stats make of what they have read                         *)

Managed(p, side) == {r \in listed[p][side] : IsNamed(r)}

CorrelatesByName(s, b) == Leaf(b.path) = Leaf(s.path)    \* faulty variant: by the name alone

(* target_correlates: both are sealed, and one was received from the other.*)
Correlates(s, b) == s.readonly /\ b.readonly /\ b.received = Leaf(s.path)

(* is_garbled                                                              *)
Incomplete(p) == {b \in Managed(p, "target") : ~b.readonly /\ b.received = None}

BackupsOf(p, s) == {b \in Managed(p, "target") : Correlates(s, b)}

Correlated(p) == UNION {BackupsOf(p, s) : s \in Managed(p, "source")}

Orphans(p) == Managed(p, "target") \ (Correlated(p) \cup Incomplete(p))

StatsBackups(p) ==
  Cardinality(Correlated(p)) + Cardinality(Orphans(p)) + Cardinality(Incomplete(p))

-----------------------------------------------------------------------------
(* Properties                                                              *)

TypeOK ==
  /\ phase \in [Procs -> {"idle", "running", "failing", "over", "killed"}]
  /\ \A p \in Procs :
       /\ phase[p] = "idle" \/ command[p] \in Command
       /\ phase[p] = "running" => entry[p] \in DOMAIN command[p].entries
                                    /\ at[p] \in DOMAIN Steps(command[p])
       /\ code[p] \in Codes \cup {None} /\ (code[p] # None <=> phase[p] = "over")
  /\ holder \in [Locks -> Procs \cup {None}]
  /\ \A f \in DOMAIN fs : WellNumbered(fs[f], next[f])

(* However a command ends short of being killed, the post-snapshot hook    *)
(* has run exactly once for every entry whose pre-snapshot hook passed,    *)
(* and for no other; exit code 0 is given only when all entries were done, *)
(* 3 only to a process that has not begun (PostHookGuard, the loop over a  *)
(* backup set, exit_code_for).                                             *)
HooksPaired ==
  \A p \in Procs :
    /\ \A i, j \in DOMAIN closed[p] : closed[p][i] = closed[p][j] => i = j
    /\ \A i \in DOMAIN closed[p] : closed[p][i] \in opened[p]
    /\ phase[p] = "over" =>
         /\ \A e \in opened[p] :
              (\E i \in DOMAIN closed[p] : closed[p][i] = e)
                <=> HookOf(command[p].entries[e].post, command[p].post) # None
         /\ code[p] = 0 /\ command[p].kind = "run" => opened[p] = DOMAIN command[p].entries
         /\ code[p] = 3 => opened[p] = {}

(* Nobody takes away what a prune is about to delete: between listing and  *)
(* deleting, every doomed subvolume stays where it was listed, with the    *)
(* other process anywhere in its own command (the run lock).               *)
DoomedIsThere ==
  \A p \in Procs : phase[p] = "running" /\ Step(p) = "delete" /\ ~command[p].dry =>
    \A side \in Sides : \A r \in doomed[p][side] :
      \E s \in fs[FsOf(SideOf(p, side))] : s.id = r.id

(* The path a subvolume is listed under leads back to that subvolume       *)
(* (to_mountpoint_relative, containing_btrfs_mount).  The comments there   *)
(* say so of any mount layout; it is so in a sound one, and                *)
(* command_line_outsider shows one that is not.                            *)
ListedPathsLeadBack ==
  \A p \in Procs, side \in Sides : \A r \in listed[p][side] :
    LET d == SideOf(p, side)
        place == PlaceOf(d.host, r.path)
    IN  /\ place.fs = FsOf(d)
        /\ \A s \in fs[place.fs] : s.id = r.id => s.path = place.path

Moves(p) == phase'[p] # phase[p] \/ at'[p] # at[p] \/ doomed'[p] # doomed[p]

(* A dry run and a command that only reads change nothing, directories     *)
(* included (command_mutates, DryRunDeletePort).                           *)
DryRunsChangeNothing ==
  [][disk' # disk => \A p \in Procs : Moves(p) => ~command[p].dry /\ command[p].kind \notin {"list", "diff", "drives"}]_vars

(* What list shows is true when its last call returns, whatever another    *)
(* process did between the two calls: a snapshot shown as backed up has a  *)
(* complete copy on the target, nothing shown as incomplete is one, and    *)
(* stats counts every backup once (InventoryService::list, stats).         *)
InventoryIsTrue ==
  [][\A p \in Procs : Running(p, "readonly_target") /\ listed'[p] # listed[p] =>
       LET onTarget == fs[FsOf(SideOf(p, "target"))]
       IN  /\ \A s \in Managed(p, "source")' : BackupsOf(p, s)' # {} =>
                \E t \in onTarget : t.readonly /\ t.received = Leaf(s.path)
           /\ \A b \in Incomplete(p)' : \A t \in onTarget :
                t.id = b.id => ~t.readonly
           /\ StatsBackups(p)' = Cardinality(Managed(p, "target")')]_vars

(* A delete takes the subvolume that was scheduled, on the filesystem it   *)
(* was listed on, and no other (RoutingDeletePort, mountpoint.join(path)); *)
(* in a sound layout, which command_line_mirror's is not.                  *)
DeletesWhatItMeant ==
  [][\A p \in Procs : Running(p, "delete") /\ doomed'[p] # doomed[p] /\ fs' # fs =>
       LET meant == NextDoomed(p)
           home == FsOf(SideOf(p, meant.side))
       IN  \A f \in DOMAIN fs : \A s \in fs[f] :
             s \notin fs'[f] => f = home /\ s.id = meant.row.id]_vars
=============================================================================
