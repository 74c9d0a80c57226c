-------------------------------- MODULE Places --------------------------------
(***************************************************************************)
(* Where a subvolume is: hosts, their mount tables, and what the btrfs     *)
(* adapter makes of a path.                                                *)
(*                                                                         *)
(* A path is a sequence of names from the root of its host.  A filesystem  *)
(* holds subvolumes, each at a path from the filesystem's own root.  A     *)
(* mount shows the part of a filesystem below `subvol' at a path of its    *)
(* host.  The adapter stamps every subvolume it reads with a mountpoint    *)
(* and a path relative to it, and deletes by joining the two.              *)
(***************************************************************************)
EXTENDS Integers, Sequences, SequencesExt

CONSTANTS
  Hosts,
  MountsOf       \* the mount table of every host, in mount order

Mount == [at : Seq(STRING), btrfs : BOOLEAN, fs : STRING, subvol : Seq(STRING)]

(* Endpoint: this host, or one reached over ssh.                           *)
Target == [host : Hosts, dir : Seq(STRING)]

ASSUME PlacesAssumption ==
  /\ "here" \in Hosts
  /\ DOMAIN MountsOf = Hosts
  /\ \A h \in Hosts : MountsOf[h] \in Seq(Mount)

Parent(path) == SubSeq(path, 1, Len(path) - 1)
Leaf(path) == path[Len(path)]

(* Path::strip_prefix, for a path that has the prefix.                     *)
Rest(prefix, path) == SubSeq(path, Len(prefix) + 1, Len(path))

NoMount == [at |-> <<>>, btrfs |-> FALSE, fs |-> "none", subvol |-> <<>>]

(* The last of the longest: a mount over another one hides it.             *)
LongestMount(mounts, lines, path) ==
  LET over == {i \in lines : IsPrefix(mounts[i].at, path)}
      best == {i \in over : \A j \in over :
                 \/ Len(mounts[j].at) < Len(mounts[i].at)
                 \/ Len(mounts[j].at) = Len(mounts[i].at) /\ j <= i}
  IN  IF best = {} THEN NoMount ELSE mounts[CHOOSE i \in best : TRUE]

(* The btrfs lines of /proc/self/mounts, read over ssh for another host.   *)
BtrfsMounts(host) == {i \in DOMAIN MountsOf[host] : MountsOf[host][i].btrfs}

(* containing_btrfs_mount: mounts of another type are looked through.      *)
ContainingMount(host, path) == LongestMount(MountsOf[host], BtrfsMounts(host), path)

(* What the kernel finds at a path of a host: a place on a filesystem.     *)
PlaceOf(host, path) ==
  LET m == LongestMount(MountsOf[host], DOMAIN MountsOf[host], path)
  IN  [fs |-> m.fs, path |-> m.subvol \o Rest(m.at, path)]

MountpointRelativeAnyTop(path, subvol) ==  \* faulty variant: counts the names off
  IF Len(subvol) < Len(path) THEN Rest(subvol, path) ELSE path

(* to_mountpoint_relative: a path not below the mounted subvolume is kept  *)
(* as it is.                                                               *)
MountpointRelative(path, subvol) ==
  IF IsPrefix(subvol, path) THEN Rest(subvol, path) ELSE path

-----------------------------------------------------------------------------
(* The two calls of `list', and their merge.                               *)

(* subvolume list -a -c -u -q -R, of the filesystem a directory is on.     *)
Rows(subvols) == {[id |-> s.id, path |-> s.path, received |-> s.received] : s \in subvols}

(* subvolume list -a -r.                                                   *)
ReadonlyIds(subvols) == {s.id : s \in {t \in subvols : t.readonly}}

(* parse_list, the re-basing of the paths, and the callers' filter on the  *)
(* parent directory.                                                       *)
Listed(host, dir, rows, readonly) ==
  LET m == ContainingMount(host, dir)
      merged == {[id |-> r.id, received |-> r.received, readonly |-> r.id \in readonly,
                  path |-> m.at \o MountpointRelative(r.path, m.subvol)] : r \in rows}
  IN  {s \in merged : s.path # <<>> /\ Parent(s.path) = dir}

RouteAll(target, path) == target.host      \* faulty variant: one port for both sides

(* RoutingDeletePort: by the path alone.                                   *)
Route(target, path) ==
  IF IsPrefix(target.dir, path) THEN target.host ELSE "here"
=============================================================================
