---------------------------- MODULE MCCommandLine ----------------------------
(* An instance of CommandLine for TLC: two processes under one lock; this  *)
(* host with a pool mounted from a subvolume and a drive; a remote host    *)
(* whose pool has snapshots of its own at the same path.                   *)
EXTENDS CommandLine

At(place, onDisk, subvol) == [at |-> place, btrfs |-> TRUE, fs |-> onDisk, subvol |-> subvol]

TwoHosts ==
  [here |-> <<At(<<>>, "root", <<"@">>), At(<<"pool">>, "pool", <<"@pool">>),
              At(<<"drive">>, "drive", <<>>),
              [at |-> <<"pool", "plain">>, btrfs |-> FALSE, fs |-> "plain", subvol |-> <<>>]>>,
   nas |-> <<At(<<"pool">>, "nas", <<>>)>>]

Sub(id, path, from) == [id |-> id, path |-> path, readonly |-> TRUE, received |-> from]

OneBackup ==
  [root |-> {}, plain |-> {},
   pool |-> {Sub(1, <<"@pool", "snaps", "t1">>, None), Sub(2, <<"@old", "snaps", "t1">>, None)},
   drive |-> {Sub(1, <<"backups", "t1">>, "t1")},
   nas |-> {Sub(1, <<"backups", "t1">>, "t1"), Sub(2, <<"snaps", "t1">>, "t1")}]

ThreeNames == <<"t1", "t2", "t3">>

SnapDir == <<"pool", "snaps">>
ToDrive == [host |-> "here", dir |-> <<"drive", "backups">>]
ToNas == [host |-> "nas", dir |-> <<"pool", "backups">>]

One(target, pre, post) == [snapshots |-> SnapDir, target |-> target, pre |-> pre, post |-> post]

Plainly(kind, target, dry) ==
  [kind |-> kind, set |-> FALSE, raw |-> FALSE, passphrase |-> FALSE, dry |-> dry, yes |-> TRUE,
   pre |-> None, post |-> None, entries |-> <<One(target, None, None)>>]

Used ==
  {Plainly("prune", ToDrive, FALSE), Plainly("prune", ToDrive, TRUE),
   Plainly("resume", ToDrive, FALSE), Plainly("list", ToDrive, FALSE),
   Plainly("diff", ToDrive, FALSE), Plainly("drives", ToDrive, FALSE),
   Plainly("restore", ToDrive, FALSE),
   Plainly("restore", ToDrive, TRUE),
   [Plainly("snapshot", ToDrive, FALSE) EXCEPT !.post = "hook"],
   [Plainly("run", ToNas, FALSE) EXCEPT !.raw = TRUE, !.post = "hook"],
   [Plainly("run", ToNas, FALSE) EXCEPT !.passphrase = TRUE],
   [Plainly("run", None, FALSE) EXCEPT !.yes = FALSE],
   [Plainly("run", ToDrive, FALSE) EXCEPT !.set = TRUE, !.pre = "hook", !.post = "hook",
      !.entries = <<One(ToDrive, None, None), One(ToNas, "hook", None)>>]}

(* A remote target at the same path as the snapshots are at here.          *)
Mirrored ==
  {Plainly("run", [host |-> "nas", dir |-> SnapDir], FALSE)}

(* Beside the subvolume the pool is mounted from, a directory that has the *)
(* same path from the top as the snapshots have from there.                *)
OutsideSnaps == [OneBackup EXCEPT !.pool = @ \cup {Sub(3, <<"snaps", "t2">>, None)}]

ListOnly == {Plainly("list", ToDrive, FALSE)}

SnapDirOnly == {SnapDir}
SameLock == [p \in Procs |-> "lock"]

(* The layout is sound in the run that passes, and in no other.            *)
ASSUME LayoutAssumption ==
  OneLock /\ (SoundLayout <=> Commands = Used /\ Initially = OneBackup)
=============================================================================
