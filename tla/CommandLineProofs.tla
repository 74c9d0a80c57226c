-------------------------- MODULE CommandLineProofs --------------------------
EXTENDS CommandLine, SequenceTheorems, FiniteSetTheorems, WellFoundedInduction, TLAPS

-----------------------------------------------------------------------------
(* The steps of a command                                                  *)

StepNames ==
  {"path", "snapshot_dir", "pre_hook", "snapshot", "post_hook", "policies", "target", "target_dir",
   "list_source", "readonly_source", "list_target", "readonly_target", "receive", "seal",
   "schedule", "delete", "restore", "discover"}

LEMMA ListingSteps ==
  /\ Listing \in Seq(StepNames) /\ Len(Listing) = 4
  /\ Listing[1] = "list_source" /\ Listing[2] = "readonly_source"
  /\ Listing[3] = "list_target" /\ Listing[4] = "readonly_target"
BY DEF Listing, StepNames

LEMMA TransferSteps ==
  /\ Transfer \in Seq(StepNames) /\ Len(Transfer) = 2
  /\ Transfer[1] = "receive" /\ Transfer[2] = "seal"
BY DEF Transfer, StepNames

LEMMA PruningSteps ==
  /\ Pruning \in Seq(StepNames) /\ Len(Pruning) = 2
  /\ Pruning[1] = "schedule" /\ Pruning[2] = "delete"
BY DEF Pruning, StepNames

LEMMA Joined ==
  ASSUME NEW s \in Seq(StepNames), NEW t \in Seq(StepNames)
  PROVE  /\ s \o t \in Seq(StepNames) /\ Len(s \o t) = Len(s) + Len(t)
         /\ \A i \in 1 .. Len(s) : (s \o t)[i] = s[i]
         /\ \A i \in Len(s) + 1 .. Len(s) + Len(t) : (s \o t)[i] = t[i - Len(s)]
<1>1. Len(s) \in Nat /\ Len(t) \in Nat
  BY LenProperties
<1> QED
  BY <1>1, ConcatProperties

TakingSteps == <<"target", "target_dir", "snapshot">>

LEMMA BackupRunSteps ==
  /\ BackupRun \in Seq(StepNames) /\ Len(BackupRun) = 12
  /\ BackupRun[1] = "target" /\ BackupRun[2] = "target_dir" /\ BackupRun[3] = "snapshot"
  /\ BackupRun[4] = "list_source" /\ BackupRun[5] = "readonly_source"
  /\ BackupRun[6] = "list_target" /\ BackupRun[7] = "readonly_target"
  /\ BackupRun[8] = "receive" /\ BackupRun[9] = "seal"
  /\ BackupRun[10] = "schedule" /\ BackupRun[11] = "delete" /\ BackupRun[12] = "post_hook"
<1> DEFINE upto7 == TakingSteps \o Listing
           upto9 == upto7 \o Transfer
           upto11 == upto9 \o Pruning
           last == <<"post_hook">>
<1>1. /\ TakingSteps \in Seq(StepNames) /\ Len(TakingSteps) = 3
      /\ TakingSteps[1] = "target" /\ TakingSteps[2] = "target_dir" /\ TakingSteps[3] = "snapshot"
  BY DEF TakingSteps, StepNames
<1>2. last \in Seq(StepNames) /\ Len(last) = 1 /\ last[1] = "post_hook"
  BY DEF StepNames
<1>3. BackupRun = upto11 \o last
  BY DEF BackupRun, TakingSteps
<1> HIDE DEF last
<1>4. /\ upto7 \in Seq(StepNames) /\ Len(upto7) = 7
      /\ upto7[1] = "target" /\ upto7[2] = "target_dir" /\ upto7[3] = "snapshot"
      /\ upto7[4] = "list_source" /\ upto7[5] = "readonly_source"
      /\ upto7[6] = "list_target" /\ upto7[7] = "readonly_target"
  <2>1. /\ upto7 \in Seq(StepNames) /\ Len(upto7) = Len(TakingSteps) + Len(Listing)
        /\ \A i \in 1 .. Len(TakingSteps) : upto7[i] = TakingSteps[i]
        /\ \A i \in Len(TakingSteps) + 1 .. Len(TakingSteps) + Len(Listing) : upto7[i] = Listing[i - Len(TakingSteps)]
    BY <1>1, ListingSteps, Joined
  <2> HIDE DEF upto7
  <2> QED
    BY <1>1, ListingSteps, <2>1
<1> HIDE DEF upto7
<1>5. /\ upto9 \in Seq(StepNames) /\ Len(upto9) = 9
      /\ \A i \in 1 .. 7 : upto9[i] = upto7[i]
      /\ upto9[8] = "receive" /\ upto9[9] = "seal"
  <2>1. /\ upto9 \in Seq(StepNames) /\ Len(upto9) = Len(upto7) + Len(Transfer)
        /\ \A i \in 1 .. Len(upto7) : upto9[i] = upto7[i]
        /\ \A i \in Len(upto7) + 1 .. Len(upto7) + Len(Transfer) : upto9[i] = Transfer[i - Len(upto7)]
    BY <1>4, TransferSteps, Joined
  <2> HIDE DEF upto9
  <2> QED
    BY <1>4, TransferSteps, <2>1
<1> HIDE DEF upto9
<1>6. /\ upto11 \in Seq(StepNames) /\ Len(upto11) = 11
      /\ \A i \in 1 .. 9 : upto11[i] = upto9[i]
      /\ upto11[10] = "schedule" /\ upto11[11] = "delete"
  <2>1. /\ upto11 \in Seq(StepNames) /\ Len(upto11) = Len(upto9) + Len(Pruning)
        /\ \A i \in 1 .. Len(upto9) : upto11[i] = upto9[i]
        /\ \A i \in Len(upto9) + 1 .. Len(upto9) + Len(Pruning) : upto11[i] = Pruning[i - Len(upto9)]
    BY <1>5, PruningSteps, Joined
  <2> HIDE DEF upto11
  <2> QED
    BY <1>5, PruningSteps, <2>1
<1> HIDE DEF upto11
<1>7. /\ BackupRun \in Seq(StepNames) /\ Len(BackupRun) = 12
      /\ \A i \in 1 .. 11 : BackupRun[i] = upto11[i]
      /\ BackupRun[12] = "post_hook"
  <2>1. /\ BackupRun \in Seq(StepNames) /\ Len(BackupRun) = Len(upto11) + Len(last)
        /\ \A i \in 1 .. Len(upto11) : BackupRun[i] = upto11[i]
        /\ \A i \in Len(upto11) + 1 .. Len(upto11) + Len(last) : BackupRun[i] = last[i - Len(upto11)]
    BY <1>2, <1>3, <1>6, Joined
  <2> QED
    BY <1>2, <1>6, <2>1
<1>8. \A i \in 1 .. 7 : BackupRun[i] = upto7[i]
  BY <1>5, <1>6, <1>7
<1>9. BackupRun[8] = "receive" /\ BackupRun[9] = "seal"
  BY <1>5, <1>6, <1>7
<1>10. BackupRun[10] = "schedule" /\ BackupRun[11] = "delete"
  BY <1>6, <1>7
<1> QED
  BY <1>4, <1>7, <1>8, <1>9, <1>10

LEMMA SingleRunStepsAre ==
  /\ SingleRunSteps \in Seq(StepNames) /\ Len(SingleRunSteps) = 15
  /\ SingleRunSteps[1] = "path" /\ SingleRunSteps[2] = "snapshot_dir" /\ SingleRunSteps[3] = "pre_hook"
  /\ \A i \in 4 .. 15 : SingleRunSteps[i] = BackupRun[i - 3]
<1> DEFINE lead == <<"path", "snapshot_dir", "pre_hook">>
<1>1. /\ lead \in Seq(StepNames) /\ Len(lead) = 3
      /\ lead[1] = "path" /\ lead[2] = "snapshot_dir" /\ lead[3] = "pre_hook"
  BY DEF StepNames
<1>2. SingleRunSteps = lead \o BackupRun
  BY DEF SingleRunSteps
<1> HIDE DEF lead
<1> QED
  <2>1. /\ SingleRunSteps \in Seq(StepNames) /\ Len(SingleRunSteps) = Len(lead) + Len(BackupRun)
        /\ \A i \in 1 .. Len(lead) : SingleRunSteps[i] = lead[i]
        /\ \A i \in Len(lead) + 1 .. Len(lead) + Len(BackupRun) : SingleRunSteps[i] = BackupRun[i - Len(lead)]
    BY <1>1, <1>2, BackupRunSteps, Joined
  <2> QED
    BY <1>1, BackupRunSteps, <2>1

LEMMA EntryStepsAre ==
  /\ EntrySteps \in Seq(StepNames) /\ Len(EntrySteps) = 16
  /\ EntrySteps[1] = "path" /\ EntrySteps[2] = "snapshot_dir"
  /\ EntrySteps[3] = "pre_hook" /\ EntrySteps[4] = "policies"
  /\ \A i \in 5 .. 16 : EntrySteps[i] = BackupRun[i - 4]
<1> DEFINE lead == <<"path", "snapshot_dir", "pre_hook", "policies">>
<1>1. /\ lead \in Seq(StepNames) /\ Len(lead) = 4
      /\ lead[1] = "path" /\ lead[2] = "snapshot_dir" /\ lead[3] = "pre_hook" /\ lead[4] = "policies"
  BY DEF StepNames
<1>2. EntrySteps = lead \o BackupRun
  BY DEF EntrySteps
<1> HIDE DEF lead
<1> QED
  <2>1. /\ EntrySteps \in Seq(StepNames) /\ Len(EntrySteps) = Len(lead) + Len(BackupRun)
        /\ \A i \in 1 .. Len(lead) : EntrySteps[i] = lead[i]
        /\ \A i \in Len(lead) + 1 .. Len(lead) + Len(BackupRun) : EntrySteps[i] = BackupRun[i - Len(lead)]
    BY <1>1, <1>2, BackupRunSteps, Joined
  <2> QED
    BY <1>1, BackupRunSteps, <2>1

LEMMA SetRunSteps ==
  /\ EntrySteps[5] = "target" /\ EntrySteps[6] = "target_dir" /\ EntrySteps[7] = "snapshot"
  /\ EntrySteps[8] = "list_source" /\ EntrySteps[9] = "readonly_source" /\ EntrySteps[10] = "list_target"
  /\ EntrySteps[11] = "readonly_target" /\ EntrySteps[12] = "receive" /\ EntrySteps[13] = "seal"
  /\ EntrySteps[14] = "schedule" /\ EntrySteps[15] = "delete" /\ EntrySteps[16] = "post_hook"
<1>1. /\ EntrySteps[5] = BackupRun[1] /\ EntrySteps[6] = BackupRun[2] /\ EntrySteps[7] = BackupRun[3]
      /\ EntrySteps[8] = BackupRun[4] /\ EntrySteps[9] = BackupRun[5] /\ EntrySteps[10] = BackupRun[6]
  BY EntryStepsAre
<1>2. /\ EntrySteps[11] = BackupRun[7] /\ EntrySteps[12] = BackupRun[8] /\ EntrySteps[13] = BackupRun[9]
      /\ EntrySteps[14] = BackupRun[10] /\ EntrySteps[15] = BackupRun[11] /\ EntrySteps[16] = BackupRun[12]
  BY EntryStepsAre
<1> QED
  BY <1>1, <1>2, BackupRunSteps

LEMMA AloneRunSteps ==
  /\ SingleRunSteps[4] = "target" /\ SingleRunSteps[5] = "target_dir" /\ SingleRunSteps[6] = "snapshot"
  /\ SingleRunSteps[7] = "list_source" /\ SingleRunSteps[8] = "readonly_source" /\ SingleRunSteps[9] = "list_target"
  /\ SingleRunSteps[10] = "readonly_target" /\ SingleRunSteps[11] = "receive" /\ SingleRunSteps[12] = "seal"
  /\ SingleRunSteps[13] = "schedule" /\ SingleRunSteps[14] = "delete" /\ SingleRunSteps[15] = "post_hook"
<1>1. /\ SingleRunSteps[4] = BackupRun[1] /\ SingleRunSteps[5] = BackupRun[2] /\ SingleRunSteps[6] = BackupRun[3]
      /\ SingleRunSteps[7] = BackupRun[4] /\ SingleRunSteps[8] = BackupRun[5] /\ SingleRunSteps[9] = BackupRun[6]
  BY SingleRunStepsAre
<1>2. /\ SingleRunSteps[10] = BackupRun[7] /\ SingleRunSteps[11] = BackupRun[8] /\ SingleRunSteps[12] = BackupRun[9]
      /\ SingleRunSteps[13] = BackupRun[10] /\ SingleRunSteps[14] = BackupRun[11] /\ SingleRunSteps[15] = BackupRun[12]
  BY SingleRunStepsAre
<1> QED
  BY <1>1, <1>2, BackupRunSteps

LEMMA ResumeStepsAre ==
  /\ ResumeSteps \in Seq(StepNames) /\ Len(ResumeSteps) = 10
  /\ ResumeSteps[1] = "path" /\ ResumeSteps[2] = "policies"
  /\ ResumeSteps[3] = "list_source" /\ ResumeSteps[4] = "readonly_source"
  /\ ResumeSteps[5] = "list_target" /\ ResumeSteps[6] = "readonly_target"
  /\ ResumeSteps[7] = "receive" /\ ResumeSteps[8] = "seal"
  /\ ResumeSteps[9] = "schedule" /\ ResumeSteps[10] = "delete"
<1> DEFINE lead == <<"path", "policies">>
           upto6 == lead \o Listing
           upto8 == upto6 \o Transfer
<1>1. /\ lead \in Seq(StepNames) /\ Len(lead) = 2
      /\ lead[1] = "path" /\ lead[2] = "policies"
  BY DEF StepNames
<1>2. ResumeSteps = upto8 \o Pruning
  BY DEF ResumeSteps
<1> HIDE DEF lead
<1>3. /\ upto6 \in Seq(StepNames) /\ Len(upto6) = 6
      /\ upto6[1] = "path" /\ upto6[2] = "policies"
      /\ upto6[3] = "list_source" /\ upto6[4] = "readonly_source"
      /\ upto6[5] = "list_target" /\ upto6[6] = "readonly_target"
  <2>1. /\ upto6 \in Seq(StepNames) /\ Len(upto6) = Len(lead) + Len(Listing)
        /\ \A i \in 1 .. Len(lead) : upto6[i] = lead[i]
        /\ \A i \in Len(lead) + 1 .. Len(lead) + Len(Listing) : upto6[i] = Listing[i - Len(lead)]
    BY <1>1, ListingSteps, Joined
  <2> HIDE DEF upto6
  <2> QED
    BY <1>1, ListingSteps, <2>1
<1> HIDE DEF upto6
<1>4. /\ upto8 \in Seq(StepNames) /\ Len(upto8) = 8
      /\ \A i \in 1 .. 6 : upto8[i] = upto6[i]
      /\ upto8[7] = "receive" /\ upto8[8] = "seal"
  <2>1. /\ upto8 \in Seq(StepNames) /\ Len(upto8) = Len(upto6) + Len(Transfer)
        /\ \A i \in 1 .. Len(upto6) : upto8[i] = upto6[i]
        /\ \A i \in Len(upto6) + 1 .. Len(upto6) + Len(Transfer) : upto8[i] = Transfer[i - Len(upto6)]
    BY <1>3, TransferSteps, Joined
  <2> HIDE DEF upto8
  <2> QED
    BY <1>3, TransferSteps, <2>1
<1> HIDE DEF upto8
<1>5. /\ ResumeSteps \in Seq(StepNames) /\ Len(ResumeSteps) = 10
      /\ \A i \in 1 .. 8 : ResumeSteps[i] = upto8[i]
      /\ ResumeSteps[9] = "schedule" /\ ResumeSteps[10] = "delete"
  <2>1. /\ ResumeSteps \in Seq(StepNames) /\ Len(ResumeSteps) = Len(upto8) + Len(Pruning)
        /\ \A i \in 1 .. Len(upto8) : ResumeSteps[i] = upto8[i]
        /\ \A i \in Len(upto8) + 1 .. Len(upto8) + Len(Pruning) : ResumeSteps[i] = Pruning[i - Len(upto8)]
    BY <1>2, <1>4, PruningSteps, Joined
  <2> QED
    BY <1>4, PruningSteps, <2>1
<1> QED
  BY <1>3, <1>4, <1>5

LEMMA PruneStepsAre ==
  /\ PruneSteps \in Seq(StepNames) /\ Len(PruneSteps) = 8
  /\ PruneSteps[1] = "path" /\ PruneSteps[2] = "policies"
  /\ PruneSteps[3] = "list_source" /\ PruneSteps[4] = "readonly_source"
  /\ PruneSteps[5] = "list_target" /\ PruneSteps[6] = "readonly_target"
  /\ PruneSteps[7] = "schedule" /\ PruneSteps[8] = "delete"
<1> DEFINE lead == <<"path", "policies">>
           upto6 == lead \o Listing
<1>1. /\ lead \in Seq(StepNames) /\ Len(lead) = 2
      /\ lead[1] = "path" /\ lead[2] = "policies"
  BY DEF StepNames
<1>2. PruneSteps = upto6 \o Pruning
  BY DEF PruneSteps
<1> HIDE DEF lead
<1>3. /\ upto6 \in Seq(StepNames) /\ Len(upto6) = 6
      /\ upto6[1] = "path" /\ upto6[2] = "policies"
      /\ upto6[3] = "list_source" /\ upto6[4] = "readonly_source"
      /\ upto6[5] = "list_target" /\ upto6[6] = "readonly_target"
  <2>1. /\ upto6 \in Seq(StepNames) /\ Len(upto6) = Len(lead) + Len(Listing)
        /\ \A i \in 1 .. Len(lead) : upto6[i] = lead[i]
        /\ \A i \in Len(lead) + 1 .. Len(lead) + Len(Listing) : upto6[i] = Listing[i - Len(lead)]
    BY <1>1, ListingSteps, Joined
  <2> HIDE DEF upto6
  <2> QED
    BY <1>1, ListingSteps, <2>1
<1> HIDE DEF upto6
<1> QED
  <2>1. /\ PruneSteps \in Seq(StepNames) /\ Len(PruneSteps) = Len(upto6) + Len(Pruning)
        /\ \A i \in 1 .. Len(upto6) : PruneSteps[i] = upto6[i]
        /\ \A i \in Len(upto6) + 1 .. Len(upto6) + Len(Pruning) : PruneSteps[i] = Pruning[i - Len(upto6)]
    BY <1>2, <1>3, PruningSteps, Joined
  <2>2. /\ Len(PruneSteps) = 8 /\ \A i \in 1 .. 6 : PruneSteps[i] = upto6[i]
        /\ \A i \in 7 .. 8 : PruneSteps[i] = Pruning[i - 6]
    BY <1>3, PruningSteps, <2>1
  <2> QED
    BY <1>3, PruningSteps, <2>1, <2>2

LEMMA ListStepsAre ==
  /\ ListSteps \in Seq(StepNames) /\ Len(ListSteps) = 5
  /\ ListSteps[1] = "path"
  /\ ListSteps[2] = "list_source" /\ ListSteps[3] = "readonly_source"
  /\ ListSteps[4] = "list_target" /\ ListSteps[5] = "readonly_target"
<1> DEFINE lead == <<"path">>
<1>1. lead \in Seq(StepNames) /\ Len(lead) = 1 /\ lead[1] = "path"
  BY DEF StepNames
<1>2. ListSteps = lead \o Listing
  BY DEF ListSteps
<1> HIDE DEF lead
<1> QED
  <2>1. /\ ListSteps \in Seq(StepNames) /\ Len(ListSteps) = Len(lead) + Len(Listing)
        /\ \A i \in 1 .. Len(lead) : ListSteps[i] = lead[i]
        /\ \A i \in Len(lead) + 1 .. Len(lead) + Len(Listing) : ListSteps[i] = Listing[i - Len(lead)]
    BY <1>1, <1>2, ListingSteps, Joined
  <2> QED
    BY <1>1, <1>2, ListingSteps, <2>1

LEMMA ShortStepsAre ==
  /\ SnapshotSteps \in Seq(StepNames) /\ Len(SnapshotSteps) = 5
  /\ SnapshotSteps[1] = "path" /\ SnapshotSteps[2] = "snapshot_dir" /\ SnapshotSteps[3] = "pre_hook"
  /\ SnapshotSteps[4] = "snapshot" /\ SnapshotSteps[5] = "post_hook"
  /\ RestoreSteps \in Seq(StepNames) /\ Len(RestoreSteps) = 3
  /\ RestoreSteps[1] = "path" /\ RestoreSteps[2] = "target" /\ RestoreSteps[3] = "restore"
  /\ DiffSteps \in Seq(StepNames) /\ Len(DiffSteps) = 1 /\ DiffSteps[1] = "path"
  /\ DrivesSteps \in Seq(StepNames) /\ Len(DrivesSteps) = 1 /\ DrivesSteps[1] = "discover"
BY DEF SnapshotSteps, RestoreSteps, DiffSteps, DrivesSteps, StepNames

Hooked == {"run", "snapshot"}

(* Where a command's last listing call is, 0 for one that lists nothing.   *)
ListedAt(c) ==
  CASE c.kind = "run" -> IF c.set THEN 11 ELSE 10
    [] c.kind \in {"resume", "prune"} -> 6
    [] c.kind = "list" -> 5
    [] OTHER -> 0

(* Where its deletes are, 0 for one that does not prune.                   *)
DeletedAt(c) ==
  CASE c.kind \in {"run", "resume"} -> ListedAt(c) + 4
    [] c.kind = "prune" -> ListedAt(c) + 2
    [] OTHER -> 0

StepFacts(c, i) ==
  LET step == Steps(c)[i]
  IN  /\ step = "pre_hook" <=> c.kind \in Hooked /\ i = 3
      /\ step = "post_hook" <=> c.kind \in Hooked /\ i = Len(Steps(c))
      /\ step \in {"snapshot_dir", "snapshot"} => c.kind \in Hooked
      /\ step = "snapshot" => i < ListedAt(c) - 3 \/ c.kind = "snapshot"
      /\ step = "target" => c.kind \in {"run", "restore"}
      /\ step = "target" /\ c.kind = "run" /\ ~c.set => i = 4
      /\ step = "target_dir" => c.kind = "run"
      /\ c.kind = "run" /\ i <= 3 => step \in {"path", "snapshot_dir", "pre_hook"}
      /\ c.kind = "run" /\ i = 4 /\ ~c.set => step = "target"
      /\ step = "restore" => c.kind = "restore"
      /\ step = "list_source" <=> i = ListedAt(c) - 3
      /\ step = "readonly_source" <=> i = ListedAt(c) - 2
      /\ step = "list_target" <=> i = ListedAt(c) - 1
      /\ step = "readonly_target" <=> i = ListedAt(c)
      /\ step = "receive" <=> c.kind \in {"run", "resume"} /\ i = ListedAt(c) + 1
      /\ step = "seal" <=> c.kind \in {"run", "resume"} /\ i = ListedAt(c) + 2
      /\ step = "schedule" <=> c.kind \in {"run", "resume", "prune"} /\ i = DeletedAt(c) - 1
      /\ step = "delete" <=> c.kind \in {"run", "resume", "prune"} /\ i = DeletedAt(c)

LEMMA StepsTyped ==
  ASSUME NEW c, c.kind \in Kinds, c.set \in BOOLEAN
  PROVE  /\ Steps(c) \in Seq(StepNames) /\ Len(Steps(c)) \in 1 .. 16
         /\ DOMAIN Steps(c) = 1 .. Len(Steps(c))
         /\ c.kind \in Hooked => Len(Steps(c)) > 4
<1>1. Steps(c) \in Seq(StepNames) /\ Len(Steps(c)) \in 1 .. 16
  BY EntryStepsAre, SingleRunStepsAre, ResumeStepsAre, PruneStepsAre, ListStepsAre, ShortStepsAre
     DEF Kinds, Steps
<1>2. c.kind \in Hooked => Len(Steps(c)) > 4
  <2>1. CASE c.kind = "run"
    <3>1. CASE c.set
      <4>1. Steps(c) = EntrySteps
        BY <2>1, <3>1 DEF Steps
      <4>2. Len(Steps(c)) = 16
        BY <4>1, EntryStepsAre
      <4> QED
        BY <4>2
    <3>2. CASE ~c.set
      <4>1. Steps(c) = SingleRunSteps
        BY <2>1, <3>2 DEF Steps
      <4>2. Len(Steps(c)) = 15
        BY <4>1, SingleRunStepsAre
      <4> QED
        BY <4>2
    <3> QED
      BY <3>1, <3>2
  <2>2. CASE c.kind = "snapshot"
    <3>1. Steps(c) = SnapshotSteps
      BY <2>2 DEF Steps
    <3>2. Len(SnapshotSteps) = 5
      BY ShortStepsAre
    <3> QED
      BY <3>1, <3>2
  <2> QED
    BY <2>1, <2>2 DEF Hooked
<1> QED
  BY <1>1, <1>2, LenProperties

LEMMA StepFactsHold ==
  ASSUME NEW c, c.kind \in Kinds, c.set \in BOOLEAN, NEW i \in 1 .. Len(Steps(c))
  PROVE  StepFacts(c, i)
<1>1. CASE c.kind = "run" /\ c.set
  <2>1. Steps(c) = EntrySteps
    BY <1>1 DEF Steps
  <2>2. ListedAt(c) = 11 /\ DeletedAt(c) = 15
    BY <1>1 DEF ListedAt, DeletedAt
  <2>3. CASE i <= 8
    BY <1>1, <2>1, <2>2, <2>3, EntryStepsAre, SetRunSteps DEF StepFacts, Hooked
  <2>4. CASE i > 8
    BY <1>1, <2>1, <2>2, <2>4, EntryStepsAre, SetRunSteps DEF StepFacts, Hooked
  <2> QED
    BY <2>1, <2>3, <2>4, EntryStepsAre
<1>2. CASE c.kind = "run" /\ ~c.set
  <2>1. Steps(c) = SingleRunSteps
    BY <1>2 DEF Steps
  <2>2. ListedAt(c) = 10 /\ DeletedAt(c) = 14
    BY <1>2 DEF ListedAt, DeletedAt
  <2>3. CASE i <= 7
    BY <1>2, <2>1, <2>2, <2>3, SingleRunStepsAre, AloneRunSteps DEF StepFacts, Hooked
  <2>4. CASE i > 7
    BY <1>2, <2>1, <2>2, <2>4, SingleRunStepsAre, AloneRunSteps DEF StepFacts, Hooked
  <2> QED
    BY <2>1, <2>3, <2>4, SingleRunStepsAre
<1>3. CASE c.kind = "resume"
  <2>1. Steps(c) = ResumeSteps /\ ListedAt(c) = 6 /\ DeletedAt(c) = 10
    BY <1>3 DEF Steps, ListedAt, DeletedAt
  <2> QED
    BY <1>3, <2>1, ResumeStepsAre DEF StepFacts, Hooked
<1>4. CASE c.kind = "prune"
  <2>1. Steps(c) = PruneSteps /\ ListedAt(c) = 6 /\ DeletedAt(c) = 8
    BY <1>4 DEF Steps, ListedAt, DeletedAt
  <2> QED
    BY <1>4, <2>1, PruneStepsAre DEF StepFacts, Hooked
<1>5. CASE c.kind = "list"
  <2>1. Steps(c) = ListSteps /\ ListedAt(c) = 5 /\ DeletedAt(c) = 0
    BY <1>5 DEF Steps, ListedAt, DeletedAt
  <2> QED
    BY <1>5, <2>1, ListStepsAre DEF StepFacts, Hooked
<1>6. CASE c.kind \in {"snapshot", "restore", "diff", "drives"}
  <2>1. ListedAt(c) = 0
    BY <1>6 DEF ListedAt
  <2>2. CASE c.kind = "snapshot"
    <3>1. Steps(c) = SnapshotSteps
      BY <2>2 DEF Steps
    <3> QED
      BY <2>1, <2>2, <3>1, ShortStepsAre DEF StepFacts, Hooked
  <2>3. CASE c.kind = "restore"
    <3>1. Steps(c) = RestoreSteps
      BY <2>3 DEF Steps
    <3>2. Len(RestoreSteps) = 3 /\ \A j \in 1 .. 3 : RestoreSteps[j] \in {"path", "target", "restore"}
      BY ShortStepsAre
    <3>3. Steps(c)[i] \in {"path", "target", "restore"}
      BY <3>1, <3>2
    <3>4. i \in Nat \ {0}
      BY <3>1, <3>2
    <3>5. /\ ~ c.kind \in Hooked /\ c.kind # "run" /\ ~ c.kind \in {"run", "resume"}
          /\ i # ListedAt(c) - 3 /\ i # ListedAt(c) - 2 /\ i # ListedAt(c) - 1 /\ i # ListedAt(c)
      BY <2>1, <2>3, <3>4 DEF Hooked
    <3>6. CASE Steps(c)[i] = "path"
      BY <2>3, <3>5, <3>6 DEF StepFacts
    <3>7. CASE Steps(c)[i] = "target"
      BY <2>3, <3>5, <3>7 DEF StepFacts
    <3>8. CASE Steps(c)[i] = "restore"
      BY <2>3, <3>5, <3>8 DEF StepFacts
    <3> QED
      BY <3>3, <3>6, <3>7, <3>8
  <2>4. CASE c.kind \in {"diff", "drives"}
    <3>1. Steps(c) = DiffSteps \/ Steps(c) = DrivesSteps
      BY <2>4 DEF Steps
    <3> QED
      BY <2>1, <2>4, <3>1, ShortStepsAre DEF StepFacts, Hooked
  <2> QED
    BY <1>6, <2>2, <2>3, <2>4
<1> QED
  BY <1>1, <1>2, <1>3, <1>4, <1>5, <1>6 DEF Kinds

-----------------------------------------------------------------------------
(* The inductive invariants                                                *)

Phases == {"idle", "running", "failing", "over", "killed"}
Failures == {Usage, Busy, LockUnopenable, Plain, NeedsRoot}

Place == Seq(STRING) \ {<<>>}
Row == [id : Nat, path : Place, received : STRING \cup {None}]
Known == [source : SUBSET Subvol, target : SUBSET Subvol]
Receiving == [fs : DOMAIN Initially, id : Nat, path : Place]

ControlTyped ==
  /\ phase \in [Procs -> Phases] /\ DOMAIN command = Procs
  /\ entry \in [Procs -> Nat \ {0}] /\ at \in [Procs -> Nat \ {0}]
  /\ opened \in [Procs -> SUBSET Nat] /\ closed \in [Procs -> Seq(Nat)]
  /\ guard \in [Procs -> BOOLEAN] /\ error \in [Procs -> Failures \cup {NoError}]
  /\ code \in [Procs -> Codes \cup {None}] /\ holder \in [Locks -> Procs \cup {None}]

DiskTyped ==
  /\ DOMAIN fs = DOMAIN Initially /\ DOMAIN next = DOMAIN Initially /\ named \in Nat
  /\ \A f \in DOMAIN Initially :
       next[f] \in Nat /\ IsFiniteSet(fs[f]) /\ WellNumbered(fs[f], next[f])

MemoryTyped ==
  /\ rows \in [Procs -> SUBSET Row] /\ listed \in [Procs -> Known]
  /\ inflight \in [Procs -> Receiving \cup {None}] /\ doomed \in [Procs -> Known]

(* Where a process is in its command.                                      *)
Placed(p) ==
  /\ phase[p] = "idle" => entry[p] = 1 /\ at[p] = 1
  /\ phase[p] # "idle" => Parsed(command[p]) /\ entry[p] \in DOMAIN command[p].entries
  /\ phase[p] = "running" => at[p] \in 1 .. Len(Steps(command[p]))
  /\ phase[p] = "running" /\ at[p] > 4 => EntryOf(p).target \in Target
  /\ code[p] # None <=> phase[p] = "over"

Typed ==
  /\ ControlTyped /\ DiskTyped /\ MemoryTyped
  /\ \A p \in Procs : Placed(p)

HookDue(p, e) == HookOf(command[p].entries[e].post, command[p].post) # None
HookRan(p, e) == \E i \in DOMAIN closed[p] : closed[p][i] = e

(* Which entries are open, from where the process is.                      *)
OpenSoFar(p) ==
  /\ phase[p] = "idle" => opened[p] = {} /\ closed[p] = <<>> /\ ~guard[p]
  /\ phase[p] # "idle" /\ command[p].kind \notin Hooked => opened[p] = {}
  /\ phase[p] = "running" /\ command[p].kind \in Hooked =>
       \A e \in Nat : e \in opened[p] <=> (e \in 1 .. entry[p] /\ (e = entry[p] => at[p] > 3))

(* One hook after every opened entry; the guard stands for the last.       *)
HooksSoFar(p) ==
  /\ \A i, j \in DOMAIN closed[p] : closed[p][i] = closed[p][j] => i = j
  /\ \A i \in DOMAIN closed[p] : closed[p][i] \in opened[p]
  /\ guard[p] => /\ phase[p] \in {"running", "failing"}
                 /\ entry[p] \in opened[p] /\ HookDue(p, entry[p]) /\ ~HookRan(p, entry[p])
  /\ phase[p] \in {"running", "failing", "over"} =>
       \A e \in opened[p] : (guard[p] /\ e = entry[p]) \/ (HookRan(p, e) <=> HookDue(p, e))

(* How a process ends is what it has opened.                               *)
EndsAsItOpened(p) ==
  /\ phase[p] \in {"idle", "running"} => error[p] = NoError
  /\ error[p].type = "lock" => opened[p] = {}
  /\ phase[p] = "failing" /\ error[p] = NoError /\ command[p].kind = "run" =>
       opened[p] = DOMAIN command[p].entries
  /\ phase[p] = "over" /\ code[p] = 0 /\ command[p].kind = "run" =>
       opened[p] = DOMAIN command[p].entries
  /\ phase[p] = "over" /\ code[p] = 3 => opened[p] = {}

HookInv == \A p \in Procs : OpenSoFar(p) /\ HooksSoFar(p) /\ EndsAsItOpened(p)

-----------------------------------------------------------------------------
(* Paths and the filesystems                                               *)

LEMMA MountTyped ==
  ASSUME NEW h \in Hosts, NEW lines \in SUBSET DOMAIN MountsOf[h], NEW path
  PROVE  /\ LongestMount(MountsOf[h], lines, path).at \in Seq(STRING)
         /\ LongestMount(MountsOf[h], lines, path).subvol \in Seq(STRING)
<1> DEFINE mounts == MountsOf[h]
           over == {i \in lines : IsPrefix(mounts[i].at, path)}
           best == {i \in over : \A j \in over :
                      \/ Len(mounts[j].at) < Len(mounts[i].at)
                      \/ Len(mounts[j].at) = Len(mounts[i].at) /\ j <= i}
<1>1. LongestMount(mounts, lines, path) = IF best = {} THEN NoMount ELSE mounts[CHOOSE i \in best : TRUE]
  BY DEF LongestMount
<1>2. best \subseteq DOMAIN mounts
  OBVIOUS
<1> HIDE DEF best
<1>3. CASE best = {}
  <2>1. <<>> \in Seq(STRING)
    OBVIOUS
  <2> QED
    BY <1>1, <1>3, <2>1 DEF NoMount
<1>4. CASE best # {}
  <2>1. PICK i \in best : i = CHOOSE j \in best : TRUE
    BY <1>4
  <2>2. mounts \in Seq(Mount) /\ i \in DOMAIN mounts
    BY <1>2, <2>1, PlacesAssumption
  <2>3. mounts[i] \in Mount
    BY <2>2, LenProperties, ElementOfSeq
  <2> QED
    BY <1>1, <1>4, <2>1, <2>3 DEF Mount
<1> QED
  BY <1>3, <1>4

LEMMA RestTyped ==
  ASSUME NEW prefix \in Seq(STRING), NEW path \in Seq(STRING)
  PROVE  Rest(prefix, path) \in Seq(STRING)
<1>1. Len(prefix) \in Nat /\ Len(path) \in Nat
  BY LenProperties
<1> QED
  BY <1>1, SubSeqProperties DEF Rest

LEMMA JoinTyped ==
  ASSUME NEW s \in Seq(STRING), NEW t \in Seq(STRING)
  PROVE  s \o t \in Seq(STRING)
BY ConcatProperties

LEMMA PlaceTyped ==
  ASSUME NEW h \in Hosts, NEW path \in Seq(STRING)
  PROVE  PlaceOf(h, path).path \in Seq(STRING)
BY MountTyped, RestTyped, JoinTyped DEF PlaceOf

LEMMA LeafTyped ==
  ASSUME NEW path \in Place
  PROVE  Leaf(path) \in STRING
<1>1. path \in Seq(STRING) /\ Len(path) \in Nat \ {0}
  BY EmptySeq DEF Place
<1> QED
  BY <1>1, ElementOfSeq DEF Leaf

LEMMA OneAlone ==
  ASSUME NEW S, NEW x \in S
  PROVE  <<x>> \in Seq(S) /\ Len(<<x>>) = 1
OBVIOUS

LEMMA BelowTyped ==
  ASSUME NEW path \in Seq(STRING), NEW name \in STRING
  PROVE  path \o <<name>> \in Place
<1>1. <<name>> \in Seq(STRING) /\ Len(<<name>>) = 1
  BY OneAlone
<1>2. path \o <<name>> \in Seq(STRING) /\ Len(path \o <<name>>) = Len(path) + 1
  BY <1>1, ConcatProperties
<1>3. Len(path) \in Nat
  BY LenProperties
<1>4. path \o <<name>> # <<>>
  <2>1. Len(path \o <<name>>) # 0 /\ Len(<<>>) = 0
    BY <1>1, <1>2, <1>3
  <2> QED
    BY <2>1
<1> QED
  BY <1>2, <1>4 DEF Place

LEMMA ListedTyped ==
  ASSUME NEW h \in Hosts, NEW dir \in Seq(STRING), NEW found \in SUBSET Row, NEW readonly
  PROVE  Listed(h, dir, found, readonly) \subseteq Subvol
<1> DEFINE m == ContainingMount(h, dir)
           path(r) == m.at \o MountpointRelative(r.path, m.subvol)
<1>1. m.at \in Seq(STRING) /\ m.subvol \in Seq(STRING)
  BY MountTyped DEF ContainingMount, BtrfsMounts
<1>2. ASSUME NEW r \in found PROVE path(r) \in Seq(STRING)
  <2>1. r.path \in Seq(STRING)
    BY DEF Row, Place
  <2>2. MountpointRelative(r.path, m.subvol) \in Seq(STRING)
    BY <1>1, <2>1, RestTyped DEF MountpointRelative
  <2> QED
    BY <1>1, <2>2, JoinTyped
<1>3. SUFFICES ASSUME NEW s \in Listed(h, dir, found, readonly)
               PROVE  s \in Subvol
  OBVIOUS
<1>4. PICK r \in found :
        /\ s = [id |-> r.id, received |-> r.received, readonly |-> r.id \in readonly, path |-> path(r)]
        /\ path(r) # <<>>
  <2>1. Listed(h, dir, found, readonly) =
          {t \in {[id |-> r.id, received |-> r.received, readonly |-> r.id \in readonly, path |-> path(r)]
                   : r \in found} : t.path # <<>> /\ Parent(t.path) = dir}
    BY DEF Listed
  <2>2. PICK r \in found :
          s = [id |-> r.id, received |-> r.received, readonly |-> r.id \in readonly, path |-> path(r)]
    BY <1>3, <2>1
  <2>3. s.path # <<>>
    BY <1>3, <2>1
  <2> HIDE DEF path
  <2> QED
    BY <2>2, <2>3
<1>5. r.id \in Nat /\ r.received \in STRING \cup {None} /\ path(r) \in Seq(STRING) \ {<<>>}
  BY <1>2, <1>4 DEF Row
<1> HIDE DEF path
<1>6. (r.id \in readonly) \in BOOLEAN
  OBVIOUS
<1> QED
  BY <1>4, <1>5, <1>6 DEF Subvol

-----------------------------------------------------------------------------
(* The kinds of step                                                       *)

(* A step that fails, one that passes.                                     *)
Fails(p) ==
  /\ phase[p] = "running" /\ Step(p) # "post_hook"
  /\ \E e \in {Usage, Plain, NeedsRoot} : FailWith(p, e)
  /\ UNCHANGED <<command, holder>>

Passes(p) ==
  /\ phase[p] = "running" /\ Step(p) \notin {"pre_hook", "post_hook"}
  /\ Step(p) = "target" => EntryOf(p).target # None
  /\ StepDone(p)

LEMMA StepErrors ==
  ASSUME NEW c, NEW step
  PROVE  Errors(c, step) \subseteq {Usage, Plain, NeedsRoot}
BY DEF Errors, PolicyErrors, TargetErrors, CallErrors

LEMMA KindsOfStep ==
  ASSUME NEW p \in Procs, ProcStep(p)
  PROVE  \/ \E c \in Commands : Start(p, c)
         \/ Fails(p) \/ Passes(p) \/ PickDrive(p)
         \/ PreHook(p) \/ PostHook(p) \/ DropGuard(p) \/ Exit(p) \/ Kill(p) \/ Delete(p)
<1>1. CASE Check(p) \/ Schedule(p) \/ PruneDone(p) \/ TakeSnapshot(p) \/ BeginReceive(p)
             \/ SealReceive(p) \/ RestoreTo(p)
  <2>1. CASE Check(p)
    BY <2>1 DEF Check, Passes, Running
  <2>2. CASE Schedule(p) \/ PruneDone(p)
    BY <2>2 DEF Schedule, PruneDone, Passes, Running
  <2>3. CASE TakeSnapshot(p)
    BY <2>3 DEF TakeSnapshot, Passes, Running
  <2>4. CASE BeginReceive(p) \/ SealReceive(p)
    BY <2>4 DEF BeginReceive, SealReceive, Passes, Running
  <2>5. CASE RestoreTo(p)
    BY <2>5 DEF RestoreTo, Passes, Running
  <2> QED
    BY <1>1, <2>1, <2>2, <2>3, <2>4, <2>5
<1>2. CASE \E d \in Sides : EnsureDir(p, d) \/ ListCall(p, d) \/ ReadonlyCall(p, d)
  BY <1>2 DEF EnsureDir, ListCall, ReadonlyCall, Passes, Running
<1>3. CASE Fail(p)
  BY <1>3, StepErrors DEF Fail, Fails
<1>4. CASE RefuseRawRemote(p) \/ ReceiveFails(p) \/ \E d \in Sides : Declined(p, d)
  BY <1>4 DEF RefuseRawRemote, ReceiveFails, Declined, Fails, Running
<1> QED
  BY <1>1, <1>2, <1>3, <1>4 DEF ProcStep

LEMMA ParsedFacts ==
  ASSUME NEW c, Parsed(c)
  PROVE  /\ c.kind \in Kinds /\ c.set \in BOOLEAN /\ c.dry \in BOOLEAN
         /\ c.entries \in Seq(Entry) /\ Len(c.entries) \in Nat \ {0}
         /\ DOMAIN c.entries = 1 .. Len(c.entries)
         /\ c.kind # "run" => ~c.set
         /\ Len(c.entries) > 1 => c.set
         /\ \A i \in DOMAIN c.entries :
              /\ c.entries[i] \in Entry
              /\ c.kind # "run" \/ c.set => c.entries[i].target \in Target
<1>1. /\ c.kind \in Kinds /\ c.set \in BOOLEAN /\ c.dry \in BOOLEAN
      /\ c.entries \in Seq(Entry) /\ c.entries # <<>>
      /\ c.kind # "run" => ~c.set
      /\ Len(c.entries) > 1 => c.set
      /\ \A i \in DOMAIN c.entries : c.entries[i].target = None => c.kind = "run" /\ ~c.set
  BY DEF Parsed, Command
<1>2. Len(c.entries) \in Nat \ {0} /\ DOMAIN c.entries = 1 .. Len(c.entries)
  BY <1>1, EmptySeq, LenProperties
<1>3. ASSUME NEW i \in DOMAIN c.entries PROVE c.entries[i] \in Entry
  BY <1>1, <1>2, ElementOfSeq
<1>4. ASSUME NEW i \in DOMAIN c.entries, c.kind # "run" \/ c.set
      PROVE  c.entries[i].target \in Target
  <2>1. c.entries[i].target # None
    BY <1>1, <1>4
  <2> QED
    BY <1>3, <2>1 DEF Entry
<1> QED
  BY <1>1, <1>2, <1>3, <1>4

LEMMA Advances ==
  ASSUME ControlTyped, NEW p \in Procs, phase[p] = "running", Advance(p),
         Parsed(command[p]), entry[p] \in DOMAIN command[p].entries,
         at[p] \in 1 .. Len(Steps(command[p]))
  PROVE  /\ phase' \in [Procs -> Phases] /\ entry' \in [Procs -> Nat \ {0}] /\ at' \in [Procs -> Nat \ {0}]
         /\ \A q \in Procs \ {p} : phase'[q] = phase[q] /\ entry'[q] = entry[q] /\ at'[q] = at[q]
         /\ \/ /\ at[p] < Len(Steps(command[p])) /\ phase'[p] = "running"
               /\ entry'[p] = entry[p] /\ at'[p] = at[p] + 1
            \/ /\ at[p] = Len(Steps(command[p])) /\ entry[p] < Len(command[p].entries)
               /\ phase'[p] = "running" /\ entry'[p] = entry[p] + 1 /\ at'[p] = 1
            \/ /\ at[p] = Len(Steps(command[p])) /\ entry[p] = Len(command[p].entries)
               /\ phase'[p] = "failing" /\ entry'[p] = entry[p] /\ at'[p] = 1
<1> DEFINE n == Len(Steps(command[p]))
           k == Len(command[p].entries)
<1>1. n \in 1 .. 16 /\ k \in Nat /\ entry[p] \in 1 .. k
  BY ParsedFacts, StepsTyped
<1>2. /\ phase \in [Procs -> Phases] /\ entry \in [Procs -> Nat \ {0}] /\ at \in [Procs -> Nat \ {0}]
  BY DEF ControlTyped
<1>3. /\ phase' = [phase EXCEPT ![p] = IF at[p] = n /\ entry[p] = k THEN "failing" ELSE phase[p]]
      /\ at' = [at EXCEPT ![p] = IF at[p] = n THEN 1 ELSE at[p] + 1]
      /\ entry' = [entry EXCEPT ![p] = IF at[p] = n /\ ~(at[p] = n /\ entry[p] = k) THEN entry[p] + 1 ELSE entry[p]]
  BY DEF Advance
<1> HIDE DEF n, k
<1>4. at[p] <= n /\ entry[p] <= k
  BY <1>1 DEF n, k
<1>5. phase' \in [Procs -> Phases]
  BY <1>2, <1>3 DEF Phases
<1>6. entry' \in [Procs -> Nat \ {0}] /\ at' \in [Procs -> Nat \ {0}]
  BY <1>2, <1>3
<1>7. \A q \in Procs \ {p} : phase'[q] = phase[q] /\ entry'[q] = entry[q] /\ at'[q] = at[q]
  BY <1>2, <1>3
<1>8. \/ at[p] < n /\ phase'[p] = "running" /\ entry'[p] = entry[p] /\ at'[p] = at[p] + 1
      \/ at[p] = n /\ entry[p] < k /\ phase'[p] = "running" /\ entry'[p] = entry[p] + 1 /\ at'[p] = 1
      \/ at[p] = n /\ entry[p] = k /\ phase'[p] = "failing" /\ entry'[p] = entry[p] /\ at'[p] = 1
  BY <1>1, <1>2, <1>3, <1>4
<1> QED
  BY <1>5, <1>6, <1>7, <1>8 DEF n, k

SameControl(q) ==
  /\ phase'[q] = phase[q] /\ command'[q] = command[q] /\ entry'[q] = entry[q] /\ at'[q] = at[q]
  /\ opened'[q] = opened[q] /\ closed'[q] = closed[q] /\ guard'[q] = guard[q]
  /\ error'[q] = error[q] /\ code'[q] = code[q]

(* The drive picked is the target: the rest of the command stays.          *)
LEMMA PickedCommand ==
  ASSUME ControlTyped, NEW p \in Procs, Placed(p), PickDrive(p)
  PROVE  /\ DOMAIN command' = Procs /\ \A q \in Procs \ {p} : command'[q] = command[q]
         /\ Parsed(command[p]) /\ Parsed(command'[p]) /\ command[p].kind = "run" /\ ~command[p].set
         /\ command'[p].kind = command[p].kind /\ Steps(command'[p]) = Steps(command[p])
         /\ command'[p].dry = command[p].dry /\ command'[p].set = command[p].set
         /\ DOMAIN command'[p].entries = DOMAIN command[p].entries
         /\ Len(command'[p].entries) = Len(command[p].entries)
         /\ \A e : HookDue(p, e)' = HookDue(p, e)
         /\ command'[p].entries[entry[p]].target \in Target
         /\ command[p].entries[entry[p]].target = None /\ command'[p].entries[entry[p]].target \in Picked
         /\ \A j \in DOMAIN command[p].entries :
              /\ command'[p].entries[j].snapshots = command[p].entries[j].snapshots
              /\ j # entry[p] => command'[p].entries[j] = command[p].entries[j]
<1> DEFINE c == command[p]
           d == command'[p]
           i == entry[p]
<1>1. Parsed(c) /\ i \in DOMAIN c.entries /\ phase[p] = "running" /\ c.entries[i].target = None
  BY DEF Placed, PickDrive, Running, EntryOf
<1>2. PICK m \in DriveChoices(c.yes) :
        command' = [command EXCEPT ![p].entries[i].target = [host |-> "here", dir |-> m.at \o <<HostName>>]]
  BY DEF PickDrive
<1> DEFINE t == [host |-> "here", dir |-> m.at \o <<HostName>>]
<1>3. t \in Target
  <2>1. m \in Drives
    BY DEF DriveChoices
  <2>2. PICK j \in DOMAIN MountsOf["here"] : m = MountsOf["here"][j]
    BY <2>1 DEF Drives, BtrfsMounts
  <2>3. MountsOf["here"] \in Seq(Mount) /\ "here" \in Hosts
    BY PlacesAssumption
  <2>4. m.at \in Seq(STRING)
    <3>1. j \in 1 .. Len(MountsOf["here"])
      BY <2>3, LenProperties
    <3>2. m \in Mount
      BY <2>2, <2>3, <3>1, ElementOfSeq
    <3> QED
      BY <3>2 DEF Mount
  <2>5. m.at \o <<HostName>> \in Seq(STRING)
    BY <2>4, BelowTyped, CommandLineAssumption DEF Place
  <2> QED
    BY <2>3, <2>5 DEF Target
<1>16. t \in Picked
  BY DEF DriveChoices, Picked
<1> HIDE DEF t
<1>4. DOMAIN command = Procs
  BY DEF ControlTyped
<1>5. /\ DOMAIN command' = Procs /\ \A q \in Procs \ {p} : command'[q] = command[q]
      /\ d = [c EXCEPT !.entries = [c.entries EXCEPT ![i] = [c.entries[i] EXCEPT !.target = t]]]
  BY <1>2, <1>4 DEF t
<1> DEFINE e == [c.entries[i] EXCEPT !.target = t]
           es == [c.entries EXCEPT ![i] = e]
<1>6. c \in Command /\ c.entries[i] \in Entry /\ c.entries \in Seq(Entry) /\ i \in 1 .. Len(c.entries)
  BY <1>1, ParsedFacts DEF Parsed
<1>7. /\ e \in Entry /\ e.target = t /\ e.post = c.entries[i].post /\ e.snapshots = c.entries[i].snapshots
  BY <1>3, <1>6 DEF Entry
<1> HIDE DEF e
<1>8. /\ es \in Seq(Entry) /\ Len(es) = Len(c.entries) /\ es[i] = e
      /\ \A j \in 1 .. Len(c.entries) : es[j] = IF j = i THEN e ELSE c.entries[j]
  BY <1>6, <1>7, ExceptSeq
<1>9. DOMAIN es = DOMAIN c.entries
  OBVIOUS
<1>10. d = [c EXCEPT !.entries = es]
  BY <1>5 DEF e
<1> HIDE DEF es, d, c, i
<1>11. /\ d \in Command /\ d.entries = es /\ d.kind = c.kind /\ d.set = c.set /\ d.dry = c.dry
       /\ d.raw = c.raw /\ d.post = c.post
  BY <1>6, <1>8, <1>10 DEF Command
<1>12. c.kind = "run" /\ ~c.set /\ ~c.raw
  BY <1>1 DEF Parsed
<1>13. Parsed(d)
  <2>1. Len(es) > 1 => d.set
    BY <1>1, <1>8, <1>11 DEF Parsed
  <2>2. es # <<>>
    BY <1>6, <1>8, EmptySeq
  <2>3. ~d.dry
    BY <1>1, <1>11, <1>12 DEF Parsed
  <2> QED
    BY <1>11, <1>12, <2>1, <2>2, <2>3 DEF Parsed
<1>14. Steps(d) = Steps(c)
  BY <1>11 DEF Steps
<1>15. ASSUME NEW x PROVE HookDue(p, x)' = HookDue(p, x)
  <2>1. d.entries[x].post = c.entries[x].post
    <3>1. CASE x \in DOMAIN c.entries
      BY <1>1, <1>6, <1>7, <1>8, <1>11, <3>1, LenProperties
    <3>2. CASE x \notin DOMAIN c.entries
      BY <1>9, <1>11, <3>2 DEF es
    <3> QED
      BY <3>1, <3>2
  <2> QED
    BY <2>1, <1>11 DEF HookDue, d, c
<1>17. ASSUME NEW j \in DOMAIN c.entries
       PROVE  d.entries[j].snapshots = c.entries[j].snapshots /\ (j # i => d.entries[j] = c.entries[j])
  BY <1>1, <1>6, <1>7, <1>8, <1>11, LenProperties
<1> QED
  BY <1>1, <1>3, <1>5, <1>7, <1>8, <1>9, <1>11, <1>12, <1>13, <1>14, <1>15, <1>16, <1>17 DEF c, d, i

(* A process changes nothing of another's control.                         *)
LEMMA OthersKeepControl ==
  ASSUME ControlTyped, NEW p \in Procs, Placed(p), ProcStep(p), NEW q \in Procs, q # p
  PROVE  SameControl(q)
<1> USE DEF ControlTyped, SameControl
<1>1. ASSUME NEW c \in Commands, Start(p, c) PROVE SameControl(q)
  BY <1>1 DEF Start, SetRejected, FailWith
<1>2. ASSUME Fails(p) PROVE SameControl(q)
  BY <1>2 DEF Fails, FailWith
<1>3. ASSUME Advance(p) PROVE phase'[q] = phase[q] /\ entry'[q] = entry[q] /\ at'[q] = at[q]
  BY <1>3 DEF Advance
<1>4. ASSUME Passes(p) PROVE SameControl(q)
  BY <1>3, <1>4 DEF Passes, StepDone
<1>5. ASSUME PickDrive(p) PROVE SameControl(q)
  <2>1. Advance(p) /\ UNCHANGED <<opened, closed, guard, error, code>>
    BY <1>5 DEF PickDrive
  <2>2. command'[q] = command[q]
    BY <1>5, PickedCommand
  <2> QED
    BY <1>3, <2>1, <2>2
<1>6. ASSUME PreHook(p) PROVE SameControl(q)
  BY <1>3, <1>6 DEF PreHook
<1>7. ASSUME PostHook(p) PROVE SameControl(q)
  BY <1>3, <1>7 DEF PostHook
<1>8. ASSUME DropGuard(p) PROVE SameControl(q)
  BY <1>8 DEF DropGuard
<1>9. ASSUME Exit(p) PROVE SameControl(q)
  BY <1>9 DEF Exit, Gone
<1>10. ASSUME Kill(p) PROVE SameControl(q)
  BY <1>10 DEF Kill, Gone
<1>11. ASSUME Delete(p) PROVE SameControl(q)
  BY <1>11 DEF Delete, control
<1> QED
  BY KindsOfStep, <1>1, <1>2, <1>4, <1>5, <1>6, <1>7, <1>8, <1>9, <1>10, <1>11

LEMMA OthersStayPlaced ==
  ASSUME NEW q, SameControl(q), Placed(q)
  PROVE  Placed(q)'
BY DEF SameControl, Placed, EntryOf

LEMMA FailsTyped ==
  ASSUME ControlTyped, NEW p \in Procs, NEW e \in Failures, FailWith(p, e)
  PROVE  /\ phase' \in [Procs -> Phases] /\ at' \in [Procs -> Nat \ {0}]
         /\ error' \in [Procs -> Failures \cup {NoError}]
         /\ phase'[p] = "failing" /\ at'[p] = 1 /\ error'[p] = e
         /\ UNCHANGED <<entry, opened, closed, guard, code>>
BY DEF ControlTyped, FailWith, Phases

LEMMA StartTyped ==
  ASSUME ControlTyped, NEW p \in Procs, Placed(p), NEW c \in Commands, Start(p, c)
  PROVE  /\ ControlTyped' /\ Placed(p)'
         /\ phase[p] = "idle" /\ command'[p] = c /\ UNCHANGED <<entry, opened, closed, guard, code>>
         /\ \/ phase'[p] = "running" /\ error' = error
            \/ phase'[p] = "failing" /\ error'[p] \in Failures
<1>1. /\ phase[p] = "idle" /\ entry[p] = 1 /\ at[p] = 1 /\ code[p] = None
  BY DEF Start, Placed
<1>2. Parsed(c) /\ 1 \in DOMAIN c.entries /\ 1 \in 1 .. Len(Steps(c))
  <2>1. Parsed(c)
    BY CommandLineAssumption
  <2>2. 1 \in DOMAIN c.entries /\ c.kind \in Kinds /\ c.set \in BOOLEAN
    BY <2>1, ParsedFacts
  <2> DEFINE n == Len(Steps(c))
  <2>3. n \in 1 .. 16
    BY <2>2, StepsTyped
  <2> HIDE DEF n
  <2>4. 1 \in 1 .. n
    BY <2>3
  <2> QED
    BY <2>1, <2>2, <2>4 DEF n
<1>3. command'[p] = c /\ DOMAIN command' = Procs
  BY DEF Start, ControlTyped
<1>4. holder' \in [Locks -> Procs \cup {None}]
  <2>1. LockOf[p] \in Locks
    BY CommandLineAssumption
  <2>2. holder' = holder \/ holder' = [holder EXCEPT ![LockOf[p]] = p]
    BY DEF Start, SetRejected
  <2> QED
    BY <2>1, <2>2 DEF ControlTyped
<1>5. \/ \E e \in Failures : FailWith(p, e)
      \/ phase' = [phase EXCEPT ![p] = "running"] /\ UNCHANGED <<entry, at, opened, closed, guard, error, code>>
  BY DEF Start, SetRejected, Failures
<1>6. CASE \E e \in Failures : FailWith(p, e)
  <2>1. PICK e \in Failures : FailWith(p, e)
    BY <1>6
  <2>2. /\ phase' \in [Procs -> Phases] /\ at' \in [Procs -> Nat \ {0}]
        /\ error' \in [Procs -> Failures \cup {NoError}]
        /\ phase'[p] = "failing" /\ at'[p] = 1 /\ error'[p] = e
        /\ UNCHANGED <<entry, opened, closed, guard, code>>
    BY <2>1, FailsTyped
  <2>3. ControlTyped'
    BY <1>3, <1>4, <2>2 DEF ControlTyped
  <2>4. Placed(p)'
    BY <1>1, <1>2, <1>3, <2>2 DEF Placed
  <2> QED
    BY <1>1, <1>3, <2>2, <2>3, <2>4
<1>7. CASE phase' = [phase EXCEPT ![p] = "running"] /\ UNCHANGED <<entry, at, opened, closed, guard, error, code>>
  <2>1. phase' \in [Procs -> Phases] /\ phase'[p] = "running"
    BY <1>7 DEF ControlTyped, Phases
  <2>2. ControlTyped'
    BY <1>3, <1>4, <1>7, <2>1 DEF ControlTyped
  <2>3. Placed(p)'
    BY <1>1, <1>2, <1>3, <1>7, <2>1 DEF Placed
  <2> QED
    BY <1>1, <1>3, <1>7, <2>1, <2>2, <2>3
<1> QED
  BY <1>5, <1>6, <1>7

LEMMA RunningFacts ==
  ASSUME NEW p, Placed(p), phase[p] = "running"
  PROVE  /\ Parsed(command[p]) /\ command[p].kind \in Kinds /\ command[p].set \in BOOLEAN
         /\ entry[p] \in DOMAIN command[p].entries /\ entry[p] \in 1 .. Len(command[p].entries)
         /\ Len(command[p].entries) \in Nat \ {0}
         /\ command[p].entries[entry[p]] \in Entry
         /\ Len(Steps(command[p])) \in 1 .. 16 /\ at[p] \in 1 .. Len(Steps(command[p]))
         /\ StepFacts(command[p], at[p])
         /\ command[p].kind \in Hooked => Len(Steps(command[p])) > 4
<1>1. Parsed(command[p]) /\ entry[p] \in DOMAIN command[p].entries
  BY DEF Placed
<1>2. at[p] \in 1 .. Len(Steps(command[p]))
  BY DEF Placed
<1> QED
  BY <1>1, <1>2, ParsedFacts, StepsTyped, StepFactsHold

LEMMA AdvancePlaced ==
  ASSUME ControlTyped, NEW p \in Procs, Placed(p), phase[p] = "running", Advance(p),
         command'[p] = command[p], code'[p] = code[p],
         Step(p) = "target" => EntryOf(p).target # None
  PROVE  Placed(p)'
<1> DEFINE c == command[p]
           i == entry[p]
<1>1. /\ Parsed(c) /\ c.kind \in Kinds /\ c.set \in BOOLEAN
      /\ i \in DOMAIN c.entries /\ i \in 1 .. Len(c.entries) /\ Len(c.entries) \in Nat \ {0}
      /\ c.entries[i] \in Entry /\ Len(Steps(c)) \in 1 .. 16 /\ at[p] \in 1 .. Len(Steps(c))
      /\ StepFacts(c, at[p])
  BY RunningFacts
<1>2. \/ at[p] < Len(Steps(c)) /\ phase'[p] = "running" /\ entry'[p] = i /\ at'[p] = at[p] + 1
      \/ at[p] = Len(Steps(c)) /\ i < Len(c.entries) /\ phase'[p] = "running" /\ entry'[p] = i + 1 /\ at'[p] = 1
      \/ at[p] = Len(Steps(c)) /\ i = Len(c.entries) /\ phase'[p] = "failing" /\ entry'[p] = i /\ at'[p] = 1
  BY <1>1, Advances
<1>3. at[p] >= 4 => c.entries[i].target \in Target
  <2>1. CASE at[p] > 4
    BY <2>1 DEF Placed, EntryOf
  <2>2. CASE c.kind # "run" \/ c.set
    BY <1>1, <2>2, ParsedFacts
  <2>3. CASE at[p] = 4 /\ c.kind = "run" /\ ~c.set
    <3>1. Steps(c)[4] = "target"
      BY <1>1, <2>3 DEF StepFacts
    <3>2. c.entries[i].target # None
      BY <2>3, <3>1 DEF Step, EntryOf
    <3> QED
      BY <1>1, <3>2 DEF Entry
  <2> QED
    BY <1>1, <2>1, <2>2, <2>3
<1>4. code[p] = None
  BY DEF Placed
<1>5. entry'[p] \in DOMAIN c.entries
  BY <1>1, <1>2, ParsedFacts
<1>6. phase'[p] = "running" => at'[p] \in 1 .. Len(Steps(c))
  BY <1>1, <1>2
<1>7. phase'[p] = "running" /\ at'[p] > 4 => c.entries[entry'[p]].target \in Target
  BY <1>1, <1>2, <1>3
<1>8. phase'[p] \in {"running", "failing"}
  BY <1>2
<1> QED
  BY <1>1, <1>4, <1>5, <1>6, <1>7, <1>8 DEF Placed, EntryOf

LEMMA FailsControl ==
  ASSUME ControlTyped, NEW p \in Procs, Placed(p), Fails(p)
  PROVE  ControlTyped' /\ Placed(p)'
<1>1. PICK e \in Failures : FailWith(p, e)
  BY DEF Fails, Failures
<1>2. /\ phase' \in [Procs -> Phases] /\ at' \in [Procs -> Nat \ {0}]
      /\ error' \in [Procs -> Failures \cup {NoError}]
      /\ phase'[p] = "failing" /\ UNCHANGED <<entry, opened, closed, guard, code>>
  BY <1>1, FailsTyped
<1>3. UNCHANGED <<command, holder>> /\ phase[p] = "running"
  BY DEF Fails
<1>4. ControlTyped'
  BY <1>2, <1>3 DEF ControlTyped
<1>5. Placed(p)'
  BY <1>2, <1>3 DEF Placed
<1> QED
  BY <1>4, <1>5

LEMMA PassesControl ==
  ASSUME ControlTyped, NEW p \in Procs, Placed(p), Passes(p)
  PROVE  ControlTyped' /\ Placed(p)'
<1>1. /\ phase[p] = "running" /\ Advance(p) /\ UNCHANGED <<command, opened, closed, guard, error, code, holder>>
      /\ Step(p) = "target" => EntryOf(p).target # None
  BY DEF Passes, StepDone
<1>2. phase' \in [Procs -> Phases] /\ entry' \in [Procs -> Nat \ {0}] /\ at' \in [Procs -> Nat \ {0}]
  BY <1>1, RunningFacts, Advances
<1>3. ControlTyped'
  BY <1>1, <1>2 DEF ControlTyped
<1> QED
  BY <1>1, <1>3, AdvancePlaced

LEMMA PickDriveControl ==
  ASSUME ControlTyped, NEW p \in Procs, Placed(p), PickDrive(p)
  PROVE  ControlTyped' /\ Placed(p)'
<1> DEFINE c == command[p]
           i == entry[p]
<1>1. /\ phase[p] = "running" /\ Step(p) = "target" /\ Advance(p)
      /\ UNCHANGED <<opened, closed, guard, error, code, holder>>
  BY DEF PickDrive, Running
<1>2. /\ Parsed(c) /\ i \in DOMAIN c.entries /\ i \in 1 .. Len(c.entries)
      /\ Len(Steps(c)) \in 1 .. 16 /\ at[p] \in 1 .. Len(Steps(c))
      /\ StepFacts(c, at[p])
      /\ c.kind \in Hooked => Len(Steps(c)) > 4
  BY <1>1, RunningFacts
<1>3. /\ DOMAIN command' = Procs /\ Parsed(command'[p]) /\ c.kind = "run" /\ ~c.set
      /\ Steps(command'[p]) = Steps(c)
      /\ DOMAIN command'[p].entries = DOMAIN c.entries
      /\ command'[p].entries[i].target \in Target
  BY PickedCommand
<1>4. at[p] = 4 /\ at[p] < Len(Steps(c))
  <2>1. Steps(c)[at[p]] = "target"
    BY <1>1 DEF Step
  <2>2. c.kind = "run" /\ ~c.set /\ StepFacts(c, at[p])
    BY <1>2, <1>3
  <2> HIDE DEF c
  <2>3. at[p] = 4
    BY <2>1, <2>2 DEF StepFacts
  <2>4. Len(Steps(c)) > 4
    BY <1>2, <2>2 DEF Hooked
  <2> QED
    BY <2>3, <2>4
<1>5. /\ phase' \in [Procs -> Phases] /\ entry' \in [Procs -> Nat \ {0}] /\ at' \in [Procs -> Nat \ {0}]
      /\ phase'[p] = "running" /\ entry'[p] = i /\ at'[p] = 5
  BY <1>1, <1>2, <1>4, Advances
<1>6. ControlTyped'
  BY <1>1, <1>3, <1>5 DEF ControlTyped
<1>7. 5 \in 1 .. Len(Steps(c))
  BY <1>2, <1>4
<1>8. code[p] = None
  BY <1>1 DEF Placed
<1>9. Placed(p)'
  BY <1>1, <1>2, <1>3, <1>5, <1>7, <1>8 DEF Placed, EntryOf
<1> QED
  BY <1>6, <1>9

LEMMA HooksControl ==
  ASSUME ControlTyped, NEW p \in Procs, Placed(p), PreHook(p) \/ PostHook(p) \/ DropGuard(p)
  PROVE  ControlTyped' /\ Placed(p)'
<1>1. entry[p] \in Nat /\ (phase[p] = "idle" \/ entry[p] \in DOMAIN command[p].entries)
  BY DEF ControlTyped, Placed
<1>2. ASSUME PreHook(p) PROVE ControlTyped' /\ Placed(p)'
  <2>1. /\ phase[p] = "running" /\ Step(p) = "pre_hook" /\ Advance(p)
        /\ UNCHANGED <<command, closed, error, code, holder>>
    BY <1>2 DEF PreHook, Running
  <2>2. phase' \in [Procs -> Phases] /\ entry' \in [Procs -> Nat \ {0}] /\ at' \in [Procs -> Nat \ {0}]
    BY <2>1, RunningFacts, Advances
  <2>3. opened' \in [Procs -> SUBSET Nat]
    BY <1>1, <1>2 DEF PreHook, ControlTyped
  <2>4. guard' \in [Procs -> BOOLEAN]
    BY <1>2 DEF PreHook, ControlTyped
  <2>5. ControlTyped'
    BY <2>1, <2>2, <2>3, <2>4 DEF ControlTyped
  <2> QED
    BY <2>1, <2>5, AdvancePlaced
<1>3. ASSUME closed' = closed \/ closed' = [closed EXCEPT ![p] = Append(@, entry[p])]
      PROVE  closed' \in [Procs -> Seq(Nat)]
  <2>1. closed[p] \in Seq(Nat) /\ Append(closed[p], entry[p]) \in Seq(Nat)
    BY <1>1, AppendProperties DEF ControlTyped
  <2> QED
    BY <1>3, <2>1 DEF ControlTyped
<1>4. ASSUME PostHook(p) PROVE ControlTyped' /\ Placed(p)'
  <2>1. /\ phase[p] = "running" /\ Step(p) = "post_hook"
        /\ UNCHANGED <<command, opened, code, holder>>
        /\ guard' = [guard EXCEPT ![p] = FALSE]
    BY <1>4 DEF PostHook, Running
  <2>2. closed' \in [Procs -> Seq(Nat)]
    BY <1>3, <1>4 DEF PostHook
  <2>3. guard' \in [Procs -> BOOLEAN]
    BY <2>1 DEF ControlTyped
  <2>4. CASE Advance(p) /\ UNCHANGED error
    <3>1. phase' \in [Procs -> Phases] /\ entry' \in [Procs -> Nat \ {0}] /\ at' \in [Procs -> Nat \ {0}]
      BY <2>1, <2>4, RunningFacts, Advances
    <3>2. ControlTyped'
      BY <2>1, <2>2, <2>3, <2>4, <3>1 DEF ControlTyped
    <3> QED
      BY <2>1, <2>4, <3>2, AdvancePlaced
  <2>5. CASE /\ phase' = [phase EXCEPT ![p] = "failing"]
             /\ error' = [error EXCEPT ![p] = Plain] /\ UNCHANGED <<at, entry>>
    <3>1. phase' \in [Procs -> Phases] /\ phase'[p] = "failing"
      BY <2>5 DEF ControlTyped, Phases
    <3>2. error' \in [Procs -> Failures \cup {NoError}]
      BY <2>5 DEF ControlTyped, Failures
    <3>3. ControlTyped'
      BY <2>1, <2>2, <2>3, <2>5, <3>1, <3>2 DEF ControlTyped
    <3>4. Placed(p)'
      BY <2>1, <2>5, <3>1 DEF Placed
    <3> QED
      BY <3>3, <3>4
  <2> QED
    BY <1>4, <2>4, <2>5 DEF PostHook
<1>5. ASSUME DropGuard(p) PROVE ControlTyped' /\ Placed(p)'
  <2>1. /\ phase[p] = "failing" /\ UNCHANGED <<phase, command, entry, at, opened, error, code, holder>>
        /\ guard' = [guard EXCEPT ![p] = FALSE]
    BY <1>5 DEF DropGuard
  <2>2. closed' \in [Procs -> Seq(Nat)]
    BY <1>3, <1>5 DEF DropGuard
  <2>3. guard' \in [Procs -> BOOLEAN]
    BY <2>1 DEF ControlTyped
  <2>4. ControlTyped'
    BY <2>1, <2>2, <2>3 DEF ControlTyped
  <2>5. Placed(p)'
    BY <2>1 DEF Placed, EntryOf
  <2> QED
    BY <2>4, <2>5
<1> QED
  BY <1>2, <1>4, <1>5

LEMMA ExitCodes ==
  ASSUME NEW e \in Failures \cup {NoError}
  PROVE  /\ ExitCode(e) \in Codes
         /\ ExitCode(e) = 0 => e = NoError
         /\ ExitCode(e) = 3 => e.type = "lock"
BY DEF ExitCode, Codes, Failures, NoError, Usage, Busy, LockUnopenable, Plain, NeedsRoot

LEMMA EndsControl ==
  ASSUME ControlTyped, NEW p \in Procs, Placed(p), Exit(p) \/ Kill(p) \/ Delete(p)
  PROVE  ControlTyped' /\ Placed(p)'
<1>1. ASSUME Gone(p)
      PROVE  /\ at' \in [Procs -> Nat \ {0}] /\ entry' \in [Procs -> Nat \ {0}]
             /\ guard' \in [Procs -> BOOLEAN] /\ error' \in [Procs -> Failures \cup {NoError}]
             /\ holder' \in [Locks -> Procs \cup {None}] /\ entry'[p] = 1
  BY <1>1 DEF Gone, ControlTyped
<1>2. ASSUME NEW c, Parsed(c) PROVE 1 \in DOMAIN c.entries
  BY <1>2, ParsedFacts
<1>3. ASSUME Exit(p) PROVE ControlTyped' /\ Placed(p)'
  <2>1. /\ phase[p] = "failing" /\ phase' = [phase EXCEPT ![p] = "over"]
        /\ code' = [code EXCEPT ![p] = ExitCode(error[p])] /\ Gone(p)
        /\ UNCHANGED <<command, opened, closed>>
    BY <1>3 DEF Exit
  <2>2. ExitCode(error[p]) \in Codes /\ ExitCode(error[p]) # None
    <3>1. error[p] \in Failures \cup {NoError}
      BY DEF ControlTyped
    <3> QED
      BY <3>1, ExitCodes, CommandLineAssumption
  <2>3. phase' \in [Procs -> Phases] /\ phase'[p] = "over"
    BY <2>1 DEF ControlTyped, Phases
  <2>4. code' \in [Procs -> Codes \cup {None}] /\ code'[p] # None
    BY <2>1, <2>2 DEF ControlTyped
  <2>5. ControlTyped'
    BY <1>1, <2>1, <2>3, <2>4 DEF ControlTyped
  <2>6. Placed(p)'
    BY <1>1, <1>2, <2>1, <2>3, <2>4 DEF Placed
  <2> QED
    BY <2>5, <2>6
<1>4. ASSUME Kill(p) PROVE ControlTyped' /\ Placed(p)'
  <2>1. /\ phase[p] \in {"running", "failing"} /\ phase' = [phase EXCEPT ![p] = "killed"]
        /\ Gone(p) /\ UNCHANGED <<command, opened, closed, code>>
    BY <1>4 DEF Kill
  <2>2. phase' \in [Procs -> Phases] /\ phase'[p] = "killed"
    BY <2>1 DEF ControlTyped, Phases
  <2>3. ControlTyped'
    BY <1>1, <2>1, <2>2 DEF ControlTyped
  <2>4. Placed(p)'
    BY <1>1, <1>2, <2>1, <2>2 DEF Placed
  <2> QED
    BY <2>3, <2>4
<1>5. ASSUME Delete(p) PROVE ControlTyped' /\ Placed(p)'
  BY <1>5 DEF Delete, control, ControlTyped, Placed, EntryOf
<1> QED
  BY <1>3, <1>4, <1>5

LEMMA ControlNext ==
  ASSUME ControlTyped, \A q \in Procs : Placed(q), NEW p \in Procs, ProcStep(p)
  PROVE  ControlTyped' /\ \A q \in Procs : Placed(q)'
<1>1. ControlTyped' /\ Placed(p)'
  BY KindsOfStep, StartTyped, FailsControl, PassesControl, PickDriveControl, HooksControl, EndsControl
<1>2. ASSUME NEW q \in Procs, q # p PROVE Placed(q)'
  BY <1>2, OthersKeepControl, OthersStayPlaced
<1> QED
  BY <1>1, <1>2

-----------------------------------------------------------------------------
(* What the steps do to the filesystems                                    *)

(* A new subvolume has an id and a place of its own.                       *)
LEMMA CreateTyped ==
  ASSUME DiskTyped, NEW h \in Hosts, NEW path \in Seq(STRING), NEW ro \in BOOLEAN,
         Create(h, path, ro), named' \in Nat
  PROVE  /\ DiskTyped'
         /\ PlaceOf(h, path).fs \in DOMAIN Initially /\ next[PlaceOf(h, path).fs] \in Nat
<1> DEFINE place == PlaceOf(h, path)
           x == place.fs
           s == [id |-> next[x], path |-> place.path, readonly |-> ro, received |-> None]
<1>1. /\ x \in DOMAIN fs /\ place.path # <<>> /\ SubvolAt(h, path) = {}
      /\ fs' = [fs EXCEPT ![x] = @ \cup {s}] /\ next' = [next EXCEPT ![x] = @ + 1]
  BY DEF Create
<1>2. place.path \in Seq(STRING)
  BY PlaceTyped
<1>3. /\ x \in DOMAIN Initially /\ next[x] \in Nat /\ IsFiniteSet(fs[x]) /\ WellNumbered(fs[x], next[x])
  BY <1>1 DEF DiskTyped
<1>4. \A t \in fs[x] : t.path # place.path
  BY <1>1 DEF SubvolAt
<1> HIDE DEF place
<1>5. s \in Subvol
  BY <1>1, <1>2, <1>3 DEF Subvol
<1>6. s.id = next[x] /\ s.path = place.path
  OBVIOUS
<1> HIDE DEF s, x
<1>7. WellNumbered(fs[x] \cup {s}, next[x] + 1)
  <2>1. \A t \in fs[x] : t \in Subvol /\ t.id < next[x] /\ t.id \in Nat
    BY <1>3 DEF WellNumbered, Subvol
  <2>2. \A t \in fs[x] : t.id # s.id /\ t.path # s.path
    BY <1>3, <1>4, <1>6, <2>1
  <2>3. \A t \in fs[x] \cup {s} : t \in Subvol /\ t.id < next[x] + 1
    BY <1>3, <1>5, <1>6, <2>1
  <2>4. \A t, u \in fs[x] \cup {s} : t.id = u.id \/ t.path = u.path => t = u
    BY <1>3, <2>2 DEF WellNumbered
  <2> QED
    BY <2>3, <2>4 DEF WellNumbered
<1>8. IsFiniteSet(fs[x] \cup {s})
  BY <1>3, FS_AddElement
<1>9. /\ DOMAIN fs' = DOMAIN Initially /\ DOMAIN next' = DOMAIN Initially
      /\ fs'[x] = fs[x] \cup {s} /\ next'[x] = next[x] + 1
      /\ \A f \in DOMAIN Initially \ {x} : fs'[f] = fs[f] /\ next'[f] = next[f]
  BY <1>1, <1>3 DEF DiskTyped
<1>10. ASSUME NEW f \in DOMAIN Initially
       PROVE  next'[f] \in Nat /\ IsFiniteSet(fs'[f]) /\ WellNumbered(fs'[f], next'[f])
  <2>1. CASE f = x
    <3>1. next'[x] \in Nat
      BY <1>3, <1>9
    <3>2. IsFiniteSet(fs'[x])
      BY <1>8, <1>9
    <3>3. WellNumbered(fs'[x], next'[x])
      BY <1>7, <1>9
    <3> QED
      BY <2>1, <3>1, <3>2, <3>3
  <2>2. CASE f # x
    BY <1>9, <2>2 DEF DiskTyped
  <2> QED
    BY <2>1, <2>2
<1> QED
  BY <1>3, <1>9, <1>10 DEF DiskTyped, x, place

(* A deletion leaves the rest as it was.                                   *)
LEMMA RemovalTyped ==
  ASSUME DiskTyped, NEW x, NEW S, fs' = [fs EXCEPT ![x] = @ \ S], UNCHANGED next, named' \in Nat
  PROVE  DiskTyped'
<1>1. DOMAIN fs' = DOMAIN Initially /\ \A f \in DOMAIN Initially : fs'[f] \in SUBSET fs[f]
  BY DEF DiskTyped
<1>2. ASSUME NEW f \in DOMAIN Initially
      PROVE  IsFiniteSet(fs'[f]) /\ WellNumbered(fs'[f], next[f])
  <2>1. IsFiniteSet(fs[f]) /\ WellNumbered(fs[f], next[f]) /\ fs'[f] \in SUBSET fs[f]
    BY <1>1 DEF DiskTyped
  <2>2. IsFiniteSet(fs'[f])
    BY <2>1, FS_Subset
  <2> QED
    BY <2>1, <2>2 DEF WellNumbered
<1> QED
  BY <1>1, <1>2 DEF DiskTyped

(* Of what a receive has made, there is at most one, and only its seal and *)
(* its origin change.                                                      *)
LEMMA ReceivedOnce ==
  ASSUME DiskTyped, NEW f \in DOMAIN Initially, NEW i
  PROVE  \/ {s \in fs[f] : s.id = i} = {}
         \/ \E s \in fs[f] : s.id = i /\ {t \in fs[f] : t.id = i} = {s}
BY DEF DiskTyped, WellNumbered

Sealed(s) == [s EXCEPT !.readonly = TRUE, !.received = Leaf(s.path)]

LEMMA SealedTyped ==
  ASSUME NEW s \in Subvol
  PROVE  /\ Sealed(s) \in Subvol /\ Sealed(s).id = s.id /\ Sealed(s).path = s.path
         /\ Sealed(s).received = Leaf(s.path) /\ Leaf(s.path) \in STRING /\ Sealed(s).readonly
<1>1. s.path \in Place
  BY DEF Subvol, Place
<1>2. Leaf(s.path) \in STRING
  BY <1>1, LeafTyped
<1> QED
  BY <1>2 DEF Sealed, Subvol

LEMMA SealTyped ==
  ASSUME DiskTyped, NEW f \in DOMAIN Initially, NEW i,
         fs' = [fs EXCEPT ![f] = (@ \ {s \in fs[f] : s.id = i}) \cup {Sealed(s) : s \in {t \in fs[f] : t.id = i}}],
         UNCHANGED <<next, named>>
  PROVE  DiskTyped'
<1> DEFINE R == {s \in fs[f] : s.id = i}
<1>1. /\ DOMAIN fs' = DOMAIN Initially /\ fs'[f] = (fs[f] \ R) \cup {Sealed(s) : s \in R}
      /\ \A g \in DOMAIN Initially \ {f} : fs'[g] = fs[g]
  BY DEF DiskTyped
<1>2. next[f] \in Nat /\ IsFiniteSet(fs[f]) /\ WellNumbered(fs[f], next[f])
  BY DEF DiskTyped
<1>3. IsFiniteSet(fs'[f]) /\ WellNumbered(fs'[f], next[f])
  <2>1. CASE R = {}
    <3>1. fs'[f] = fs[f]
      BY <1>1, <2>1
    <3> QED
      BY <1>2, <3>1
  <2>2. CASE \E s \in fs[f] : s.id = i /\ R = {s}
    <3>1. PICK s \in fs[f] : s.id = i /\ R = {s}
      BY <2>2
    <3>2. fs'[f] = (fs[f] \ {s}) \cup {Sealed(s)}
      BY <1>1, <3>1
    <3>3. IsFiniteSet(fs[f] \ {s})
      BY <1>2, FS_RemoveElement
    <3>4. IsFiniteSet(fs'[f])
      <4> DEFINE rest == fs[f] \ {s}
      <4>1. IsFiniteSet(rest \cup {Sealed(s)})
        <5> HIDE DEF rest
        <5> QED
          BY <3>3, FS_AddElement DEF rest
      <4> QED
        BY <3>2, <4>1
    <3>5. s \in Subvol /\ s.id < next[f]
      BY <1>2 DEF WellNumbered
    <3>6. Sealed(s) \in Subvol /\ Sealed(s).id = s.id /\ Sealed(s).path = s.path
      BY <3>5, SealedTyped
    <3>7. \A t \in fs'[f] : t \in Subvol /\ t.id < next[f]
      BY <1>2, <3>2, <3>5, <3>6 DEF WellNumbered
    <3>8. \A t \in fs[f] \ {s} : t.id # s.id /\ t.path # s.path
      BY <1>2 DEF WellNumbered
    <3>9. \A t, u \in fs'[f] : t.id = u.id \/ t.path = u.path => t = u
      BY <1>2, <3>2, <3>6, <3>8 DEF WellNumbered
    <3> QED
      BY <3>4, <3>7, <3>9 DEF WellNumbered
  <2> QED
    BY <2>1, <2>2, ReceivedOnce
<1> HIDE DEF R
<1>4. ASSUME NEW g \in DOMAIN Initially
      PROVE  next[g] \in Nat /\ IsFiniteSet(fs'[g]) /\ WellNumbered(fs'[g], next[g])
  <2>1. CASE g = f
    BY <1>2, <1>3, <2>1
  <2>2. CASE g # f
    BY <1>1, <2>2 DEF DiskTyped
  <2> QED
    BY <2>1, <2>2
<1> QED
  BY <1>1, <1>4 DEF DiskTyped

(* Where a process is, its sides are directories of known hosts.           *)
LEMMA SidesTyped ==
  ASSUME NEW p \in Procs, Placed(p), phase[p] = "running"
  PROVE  /\ EntryOf(p).snapshots \in Seq(STRING) /\ "here" \in Hosts
         /\ SideOf(p, "source") = [host |-> "here", dir |-> EntryOf(p).snapshots]
         /\ SideOf(p, "source").host \in Hosts /\ SideOf(p, "source").dir \in Seq(STRING)
         /\ SideOf(p, "target") = EntryOf(p).target
         /\ command[p].kind # "run" \/ at[p] > 4 =>
              EntryOf(p).target.host \in Hosts /\ EntryOf(p).target.dir \in Seq(STRING)
<1>1. EntryOf(p) \in Entry
  BY RunningFacts DEF EntryOf
<1>2. ASSUME command[p].kind # "run" \/ at[p] > 4 PROVE EntryOf(p).target \in Target
  <2>1. CASE at[p] > 4
    BY <2>1 DEF Placed
  <2>2. CASE command[p].kind # "run"
    BY <2>2, RunningFacts, ParsedFacts DEF EntryOf
  <2> QED
    BY <1>2, <2>1, <2>2
<1>3. "here" \in Hosts
  BY PlacesAssumption
<1> QED
  BY <1>1, <1>2, <1>3 DEF Entry, SideOf, Target

(* A receive of a run comes after its target is known.                     *)
LEMMA ReceiveHasTarget ==
  ASSUME NEW p \in Procs, Placed(p), phase[p] = "running", Step(p) \in {"receive", "seal", "readonly_target"}
  PROVE  command[p].kind # "run" \/ at[p] > 4
<1>1. StepFacts(command[p], at[p]) /\ command[p].set \in BOOLEAN /\ at[p] \in Nat
  BY RunningFacts
<1>2. ListedAt(command[p]) \in Nat /\ (command[p].kind = "run" => ListedAt(command[p]) > 4)
  BY <1>1 DEF ListedAt
<1> QED
  BY <1>1, <1>2 DEF StepFacts, Step

LEMMA ReceiveCreates ==
  ASSUME Typed, NEW p \in Procs, NEW r \in Due(p), phase[p] = "running", Step(p) = "receive", UNCHANGED named,
         Create(Receiver(p), EntryOf(p).target.dir \o <<Leaf(r.path)>>, FALSE)
  PROVE  /\ DiskTyped'
         /\ EntryOf(p).target.dir \o <<Leaf(r.path)>> \in Place
         /\ PlaceOf(Receiver(p), EntryOf(p).target.dir \o <<Leaf(r.path)>>).fs \in DOMAIN Initially
         /\ next[PlaceOf(Receiver(p), EntryOf(p).target.dir \o <<Leaf(r.path)>>).fs] \in Nat
<1>1. r \in listed[p].source
  BY DEF Due
<1>2. r.path \in Place
  BY <1>1 DEF Typed, MemoryTyped, Known, Subvol, Place
<1>3. Leaf(r.path) \in STRING
  BY <1>2, LeafTyped
<1>4. Receiver(p) \in Hosts /\ EntryOf(p).target.dir \in Seq(STRING)
  BY SidesTyped, ReceiveHasTarget DEF Receiver, Typed
<1>5. EntryOf(p).target.dir \o <<Leaf(r.path)>> \in Place
  BY <1>3, <1>4, BelowTyped
<1>6. named' \in Nat
  BY DEF Typed, DiskTyped
<1> QED
  BY <1>4, <1>5, <1>6, CreateTyped DEF Place, Typed

LEMMA DiskNext ==
  ASSUME Typed, NEW p \in Procs, ProcStep(p)
  PROVE  DiskTyped'
<1> USE DEF Typed
<1>1. ASSUME UNCHANGED <<fs, next, named>> PROVE DiskTyped'
  BY <1>1 DEF DiskTyped
<1>2. ASSUME TakeSnapshot(p) PROVE DiskTyped'
  <2>1. /\ Create("here", EntryOf(p).snapshots \o <<Names[named + 1]>>, TRUE)
        /\ named < Len(Names) /\ named' = named + 1 /\ phase[p] = "running"
    BY <1>2 DEF TakeSnapshot, Running
  <2>2. named \in Nat
    BY DEF DiskTyped
  <2>3. Names \in Seq(STRING)
    BY CommandLineAssumption
  <2>4. named + 1 \in 1 .. Len(Names)
    BY <2>1, <2>2, <2>3, LenProperties
  <2>5. Names[named + 1] \in STRING
    BY <2>3, <2>4, ElementOfSeq
  <2>6. EntryOf(p).snapshots \in Seq(STRING) /\ "here" \in Hosts
    BY <2>1, SidesTyped
  <2>7. EntryOf(p).snapshots \o <<Names[named + 1]>> \in Seq(STRING)
    BY <2>5, <2>6, BelowTyped DEF Place
  <2>8. named' \in Nat
    BY <2>1, <2>2
  <2> QED
    BY <2>1, <2>6, <2>7, <2>8, CreateTyped
<1>4. ASSUME BeginReceive(p) PROVE DiskTyped'
  <2>1. phase[p] = "running" /\ Step(p) = "receive" /\ UNCHANGED named
    BY <1>4 DEF BeginReceive, Running
  <2>2. CASE \E r \in Due(p) : Create(Receiver(p), EntryOf(p).target.dir \o <<Leaf(r.path)>>, FALSE)
    BY <2>1, <2>2, ReceiveCreates
  <2>3. CASE UNCHANGED <<fs, next>>
    BY <1>1, <2>1, <2>3
  <2> QED
    BY <1>4, <2>2, <2>3 DEF BeginReceive
<1>5. ASSUME SealReceive(p) PROVE DiskTyped'
  <2>1. UNCHANGED <<next, named>>
    BY <1>5 DEF SealReceive
  <2>2. CASE inflight[p] = None
    BY <1>1, <1>5, <2>1, <2>2 DEF SealReceive
  <2>3. CASE inflight[p] # None
    <3>1. inflight[p].fs \in DOMAIN Initially
      BY <2>3 DEF MemoryTyped, Receiving
    <3>2. fs' = [fs EXCEPT ![inflight[p].fs] = (@ \ Received(p)) \cup {Sealed(s) : s \in Received(p)}]
      BY <1>5, <2>3 DEF SealReceive, Sealed
    <3> QED
      BY <2>1, <3>1, <3>2, SealTyped DEF Received
  <2> QED
    BY <2>2, <2>3
<1>6. ASSUME ReceiveFails(p) PROVE DiskTyped'
  <2>1. /\ UNCHANGED <<next, named>>
        /\ fs' = fs \/ fs' = [fs EXCEPT ![inflight[p].fs] = @ \ Received(p)]
    BY <1>6 DEF ReceiveFails
  <2>2. named' \in Nat
    BY <2>1 DEF DiskTyped
  <2> QED
    BY <1>1, <2>1, <2>2, RemovalTyped
<1>7. ASSUME Delete(p) PROVE DiskTyped'
  <2>1. UNCHANGED <<next, named>> /\ (fs' = fs \/ \E x, S : fs' = [fs EXCEPT ![x] = @ \ S])
    BY <1>7 DEF Delete
  <2>2. named' \in Nat
    BY <2>1 DEF DiskTyped
  <2> QED
    BY <1>1, <2>1, <2>2, RemovalTyped
<1>8. ASSUME RestoreTo(p) PROVE DiskTyped'
  <2>1. /\ phase[p] = "running" /\ UNCHANGED named
        /\ UNCHANGED <<fs, next>> \/ Create("here", EntryOf(p).snapshots \o <<Restored>>, FALSE)
    BY <1>8 DEF RestoreTo, Running
  <2>2. EntryOf(p).snapshots \in Seq(STRING) /\ "here" \in Hosts /\ Restored \in STRING
    BY <2>1, SidesTyped, CommandLineAssumption
  <2>3. EntryOf(p).snapshots \o <<Restored>> \in Seq(STRING)
    BY <2>2, BelowTyped DEF Place
  <2>4. named' \in Nat
    BY <2>1 DEF DiskTyped
  <2> QED
    BY <1>1, <2>1, <2>2, <2>3, <2>4, CreateTyped
<1>9. ASSUME \/ \E c \in Commands : Start(p, c)
             \/ Check(p) \/ PickDrive(p) \/ RefuseRawRemote(p)
             \/ \E d \in Sides : EnsureDir(p, d) \/ Declined(p, d)
             \/ PreHook(p) \/ PostHook(p) \/ Fail(p) \/ DropGuard(p) \/ Exit(p) \/ Kill(p)
             \/ \E d \in Sides : ListCall(p, d) \/ ReadonlyCall(p, d)
             \/ Schedule(p) \/ PruneDone(p)
      PROVE  UNCHANGED <<fs, next, named>>
  BY <1>9 DEF Start, Check, PickDrive, RefuseRawRemote, EnsureDir, Declined, PreHook, PostHook, Fail,
              DropGuard, Exit, Kill, ListCall, ReadonlyCall, Schedule, PruneDone, disk
<1> QED
  BY <1>1, <1>2, <1>4, <1>5, <1>6, <1>7, <1>8, <1>9 DEF ProcStep

LEMMA ForgetTyped ==
  ASSUME MemoryTyped, NEW p \in Procs, Forget(p)
  PROVE  /\ MemoryTyped'
         /\ rows'[p] = {} /\ listed'[p] = NothingListed /\ inflight'[p] = None /\ doomed'[p] = NothingListed
BY DEF MemoryTyped, Forget, NothingListed, Known

LEMMA SnapshotRemembered ==
  ASSUME Typed, NEW p \in Procs, TakeSnapshot(p)
  PROVE  /\ MemoryTyped'
         /\ rows' = rows /\ inflight' = inflight /\ doomed' = doomed /\ listed'[p].target = {}
<1>1. /\ Create("here", EntryOf(p).snapshots \o <<Names[named + 1]>>, TRUE)
      /\ named < Len(Names) /\ named' = named + 1 /\ phase[p] = "running"
  BY DEF TakeSnapshot, Running
<1>2. named \in Nat
  BY DEF Typed, DiskTyped
<1>3. Names \in Seq(STRING)
  BY CommandLineAssumption
<1>4. named + 1 \in 1 .. Len(Names)
  BY <1>1, <1>2, <1>3, LenProperties
<1>5. Names[named + 1] \in STRING
  BY <1>3, <1>4, ElementOfSeq
<1>6. EntryOf(p).snapshots \in Seq(STRING) /\ "here" \in Hosts
  BY <1>1, SidesTyped DEF Typed
<1> DEFINE path == EntryOf(p).snapshots \o <<Names[named + 1]>>
           row == [id |-> next[PlaceOf("here", path).fs], path |-> path, readonly |-> TRUE, received |-> None]
<1>7. path \in Place
  BY <1>5, <1>6, BelowTyped
<1>8. next[PlaceOf("here", path).fs] \in Nat
  <2>1. path \in Seq(STRING) /\ named' \in Nat
    BY <1>1, <1>2, <1>7 DEF Place
  <2> QED
    BY <1>1, <1>6, <2>1, CreateTyped DEF Typed
<1>9. row \in Subvol
  BY <1>7, <1>8 DEF Subvol, Place
<1>10. /\ listed' = [listed EXCEPT ![p] = [NothingListed EXCEPT !.source = {row}]]
       /\ UNCHANGED <<rows, inflight, doomed>>
  BY DEF TakeSnapshot
<1> HIDE DEF row
<1>11. [NothingListed EXCEPT !.source = {row}] \in Known /\ [NothingListed EXCEPT !.source = {row}].target = {}
  BY <1>9 DEF NothingListed, Known
<1> QED
  BY <1>10, <1>11 DEF Typed, MemoryTyped

LEMMA RowsTyped ==
  ASSUME DiskTyped, NEW f \in DOMAIN fs
  PROVE  Rows(fs[f]) \subseteq Row
<1>1. fs[f] \subseteq Subvol
  BY DEF DiskTyped, WellNumbered
<1> QED
  BY <1>1 DEF Rows, Row, Subvol, Place

LEMMA ListCallRemembered ==
  ASSUME Typed, NEW p \in Procs, NEW side \in Sides, ListCall(p, side)
  PROVE  /\ MemoryTyped'
         /\ rows' = [rows EXCEPT ![p] = Rows(fs[FsOf(SideOf(p, side))])]
         /\ FsOf(SideOf(p, side)) \in DOMAIN fs
         /\ UNCHANGED <<listed, inflight, doomed>>
<1>1. /\ rows' = [rows EXCEPT ![p] = Rows(fs[FsOf(SideOf(p, side))])]
      /\ FsOf(SideOf(p, side)) \in DOMAIN fs /\ UNCHANGED <<listed, inflight, doomed>>
  BY DEF ListCall
<1>2. Rows(fs[FsOf(SideOf(p, side))]) \in SUBSET Row
  BY <1>1, RowsTyped DEF Typed
<1> QED
  BY <1>1, <1>2 DEF Typed, MemoryTyped

LEMMA ReadonlyCallRemembered ==
  ASSUME Typed, NEW p \in Procs, NEW side \in Sides, ReadonlyCall(p, side)
  PROVE  /\ MemoryTyped'
         /\ rows' = [rows EXCEPT ![p] = {}] /\ UNCHANGED <<inflight, doomed>>
         /\ \A other \in Sides \ {side} : listed'[p][other] = listed[p][other]
         /\ LET d == SideOf(p, side)
                found == Listed(d.host, d.dir, rows[p], ReadonlyIds(fs[FsOf(d)]))
            IN  /\ found \subseteq Subvol
                /\ listed'[p][side] = found \cup {r \in listed[p][side] : \A f \in found : f.id # r.id}
<1> DEFINE d == SideOf(p, side)
           found == Listed(d.host, d.dir, rows[p], ReadonlyIds(fs[FsOf(d)]))
           kept == {r \in listed[p][side] : \A f \in found : f.id # r.id}
<1>1. /\ listed' = [listed EXCEPT ![p][side] = found \cup {r \in @ : \A f \in found : f.id # r.id}]
      /\ rows' = [rows EXCEPT ![p] = {}] /\ UNCHANGED <<inflight, doomed>>
      /\ phase[p] = "running" /\ Step(p) = IF side = "source" THEN "readonly_source" ELSE "readonly_target"
  BY DEF ReadonlyCall, Running
<1>2. d.host \in Hosts /\ d.dir \in Seq(STRING)
  <2>1. CASE side = "source"
    BY <1>1, <2>1, SidesTyped DEF Typed
  <2>2. CASE side = "target"
    <3>1. command[p].kind # "run" \/ at[p] > 4
      BY <1>1, <2>2, ReceiveHasTarget DEF Typed
    <3> QED
      BY <1>1, <2>2, <3>1, SidesTyped DEF Typed
  <2> QED
    BY <2>1, <2>2 DEF Sides
<1>3. rows[p] \in SUBSET Row /\ listed[p] \in Known
  BY DEF Typed, MemoryTyped
<1>4. found \subseteq Subvol
  BY <1>2, <1>3, ListedTyped
<1> HIDE DEF found, d
<1>5. listed[p][side] \subseteq Subvol
  BY <1>3 DEF Known, Sides
<1>6. found \cup kept \subseteq Subvol
  BY <1>4, <1>5
<1>7. listed' = [listed EXCEPT ![p] = [listed[p] EXCEPT ![side] = found \cup kept]]
  BY <1>1
<1> HIDE DEF kept
<1>8. /\ [listed[p] EXCEPT ![side] = found \cup kept] \in Known
      /\ [listed[p] EXCEPT ![side] = found \cup kept][side] = found \cup kept
      /\ \A other \in Sides \ {side} : [listed[p] EXCEPT ![side] = found \cup kept][other] = listed[p][other]
  BY <1>3, <1>6 DEF Known, Sides
<1>9. rows' \in [Procs -> SUBSET Row]
  BY <1>1 DEF Typed, MemoryTyped
<1>10. listed' \in [Procs -> Known] /\ listed'[p] = [listed[p] EXCEPT ![side] = found \cup kept]
  BY <1>7, <1>8 DEF Typed, MemoryTyped
<1>11. MemoryTyped'
  BY <1>1, <1>9, <1>10 DEF Typed, MemoryTyped
<1> QED
  BY <1>1, <1>4, <1>8, <1>10, <1>11 DEF found, d, kept

LEMMA BeginRemembered ==
  ASSUME Typed, NEW p \in Procs, BeginReceive(p)
  PROVE  /\ MemoryTyped' /\ UNCHANGED <<rows, listed, doomed>>
         /\ \A q \in Procs \ {p} : inflight'[q] = inflight[q]
         /\ \/ inflight'[p] = None /\ UNCHANGED <<fs, next>>
            \/ /\ inflight'[p].fs \in DOMAIN Initially /\ inflight'[p].id = next[inflight'[p].fs]
               /\ \E path : /\ fs' = [fs EXCEPT ![inflight'[p].fs] = @ \cup
                                   {[id |-> next[inflight'[p].fs], path |-> path,
                                     readonly |-> FALSE, received |-> None]}]
               /\ next' = [next EXCEPT ![inflight'[p].fs] = @ + 1]
<1>1. phase[p] = "running" /\ Step(p) = "receive" /\ UNCHANGED <<named, rows, listed, doomed>>
  BY DEF BeginReceive, Running
<1>2. inflight \in [Procs -> Receiving \cup {None}]
  BY DEF Typed, MemoryTyped
<1>3. CASE inflight' = [inflight EXCEPT ![p] = None] /\ UNCHANGED <<fs, next>>
  <2>1. inflight' \in [Procs -> Receiving \cup {None}]
    BY <1>2, <1>3
  <2>2. MemoryTyped'
    BY <1>1, <2>1 DEF Typed, MemoryTyped
  <2> QED
    BY <1>1, <1>2, <1>3, <2>2
<1>4. CASE \E r \in Due(p) :
             LET path == EntryOf(p).target.dir \o <<Leaf(r.path)>>
                 place == PlaceOf(Receiver(p), path)
             IN  /\ Create(Receiver(p), path, FALSE)
                 /\ inflight' = [inflight EXCEPT ![p] =
                      [fs |-> place.fs, id |-> next[place.fs], path |-> path]]
  <2>1. PICK r \in Due(p) :
          LET path == EntryOf(p).target.dir \o <<Leaf(r.path)>>
              place == PlaceOf(Receiver(p), path)
          IN  /\ Create(Receiver(p), path, FALSE)
              /\ inflight' = [inflight EXCEPT ![p] =
                   [fs |-> place.fs, id |-> next[place.fs], path |-> path]]
    BY <1>4
  <2> DEFINE path == EntryOf(p).target.dir \o <<Leaf(r.path)>>
             place == PlaceOf(Receiver(p), path)
             made == [fs |-> place.fs, id |-> next[place.fs], path |-> path]
  <2>2. Create(Receiver(p), path, FALSE) /\ inflight' = [inflight EXCEPT ![p] = made]
    BY <2>1
  <2>3. path \in Place /\ place.fs \in DOMAIN Initially /\ next[place.fs] \in Nat
    BY <1>1, <2>2, ReceiveCreates
  <2>4. /\ fs' = [fs EXCEPT ![place.fs] = @ \cup {[id |-> next[place.fs], path |-> place.path,
                                                   readonly |-> FALSE, received |-> None]}]
        /\ next' = [next EXCEPT ![place.fs] = @ + 1]
    BY <2>2 DEF Create
  <2> HIDE DEF path, place
  <2>5. made \in Receiving /\ made.fs = place.fs /\ made.id = next[place.fs]
    BY <2>3 DEF Receiving
  <2> HIDE DEF made
  <2>6. /\ inflight' \in [Procs -> Receiving \cup {None}] /\ inflight'[p] = made
        /\ \A q \in Procs \ {p} : inflight'[q] = inflight[q]
    BY <1>2, <2>2, <2>5
  <2>7. MemoryTyped'
    BY <1>1, <2>6 DEF Typed, MemoryTyped
  <2> QED
    BY <1>1, <2>3, <2>4, <2>5, <2>6, <2>7
<1> QED
  BY <1>3, <1>4 DEF BeginReceive

LEMMA SealRemembered ==
  ASSUME Typed, NEW p \in Procs, SealReceive(p)
  PROVE  MemoryTyped' /\ UNCHANGED <<rows, inflight, doomed, next, named>>
<1>1. UNCHANGED <<rows, inflight, doomed, next, named>>
  BY DEF SealReceive
<1>2. CASE inflight[p] = None
  BY <1>1, <1>2 DEF SealReceive, Typed, MemoryTyped
<1>3. CASE inflight[p] # None
  <2> DEFINE new == {Seen(Sealed(s), inflight[p].path) : s \in Received(p)}
  <2>1. listed' = [listed EXCEPT ![p].target = @ \cup new]
    BY <1>3 DEF SealReceive, Sealed
  <2>2. inflight[p] \in Receiving /\ listed[p] \in Known
    BY <1>3 DEF Typed, MemoryTyped
  <2>3. ASSUME NEW s \in Received(p) PROVE Seen(Sealed(s), inflight[p].path) \in Subvol
    <3>1. s \in Subvol
      BY <2>2 DEF Received, Receiving, Typed, DiskTyped, WellNumbered
    <3>2. Sealed(s) \in Subvol
      BY <3>1, SealedTyped
    <3> QED
      BY <2>2, <3>2 DEF Seen, Subvol, Receiving, Place
  <2>4. new \subseteq Subvol
    BY <2>3
  <2> HIDE DEF new
  <2>5. listed' \in [Procs -> Known]
    BY <2>1, <2>2, <2>4 DEF Typed, MemoryTyped, Known
  <2> QED
    BY <1>1, <2>5 DEF Typed, MemoryTyped
<1> QED
  BY <1>2, <1>3

LEMMA ScheduleRemembered ==
  ASSUME Typed, NEW p \in Procs, Schedule(p)
  PROVE  /\ MemoryTyped' /\ UNCHANGED <<rows, listed, inflight>>
         /\ \A q \in Procs \ {p} : doomed'[q] = doomed[q]
         /\ \A side \in Sides : doomed'[p][side] \subseteq listed[p][side]
<1>1. PICK S \in SUBSET listed[p].source, T \in SUBSET listed[p].target :
        doomed' = [doomed EXCEPT ![p] = [source |-> S, target |-> T]]
  BY DEF Schedule
<1>2. UNCHANGED <<rows, listed, inflight>>
  BY DEF Schedule
<1>3. [source |-> S, target |-> T] \in Known
  BY DEF Typed, MemoryTyped, Known
<1>4. doomed' \in [Procs -> Known] /\ doomed'[p] = [source |-> S, target |-> T]
  BY <1>1, <1>3 DEF Typed, MemoryTyped
<1>5. \A q \in Procs \ {p} : doomed'[q] = doomed[q]
  BY <1>1 DEF Typed, MemoryTyped
<1> QED
  BY <1>2, <1>4, <1>5 DEF Typed, MemoryTyped, Sides

LEMMA DeleteRemembered ==
  ASSUME Typed, NEW p \in Procs, Delete(p)
  PROVE  /\ MemoryTyped' /\ UNCHANGED <<rows, listed, inflight>>
         /\ \A q \in Procs \ {p} : doomed'[q] = doomed[q]
         /\ \A side \in Sides : doomed'[p][side] \subseteq doomed[p][side]
<1>1. doomed' = [doomed EXCEPT ![p][NextDoomed(p).side] = @ \ {NextDoomed(p).row}]
  BY DEF Delete, Struck
<1>2. NextDoomed(p).side \in Sides
  BY DEF NextDoomed, Sides
<1>3. UNCHANGED <<rows, listed, inflight>>
  BY DEF Delete
<1>4. doomed \in [Procs -> Known]
  BY DEF Typed, MemoryTyped
<1>5. doomed' \in [Procs -> Known]
  BY <1>1, <1>2, <1>4 DEF Known, Sides
<1>6. \A side \in Sides : doomed'[p][side] \subseteq doomed[p][side]
  BY <1>1, <1>2, <1>4 DEF Known, Sides
<1>7. \A q \in Procs \ {p} : doomed'[q] = doomed[q]
  BY <1>1, <1>4
<1> QED
  BY <1>3, <1>5, <1>6, <1>7 DEF Typed, MemoryTyped

LEMMA MemoryNext ==
  ASSUME Typed, NEW p \in Procs, ProcStep(p)
  PROVE  MemoryTyped'
<1>1. ASSUME Forget(p) \/ UNCHANGED memory PROVE MemoryTyped'
  BY <1>1, ForgetTyped DEF Typed, MemoryTyped, memory
<1>2. ASSUME NEW c \in Commands, Start(p, c) PROVE MemoryTyped'
  BY <1>1, <1>2 DEF Start, SetRejected, FailWith, memory
<1>3. ASSUME \/ Check(p) \/ PickDrive(p) \/ \E d \in Sides : EnsureDir(p, d)
             \/ PreHook(p) \/ DropGuard(p) \/ PruneDone(p) \/ RestoreTo(p)
      PROVE  MemoryTyped'
  <2>1. UNCHANGED memory
    BY <1>3 DEF Check, PickDrive, EnsureDir, PreHook, DropGuard, PruneDone, RestoreTo, memory
  <2> QED
    BY <1>1, <2>1
<1>4. ASSUME \/ RefuseRawRemote(p) \/ Fail(p) \/ ReceiveFails(p) \/ \E d \in Sides : Declined(p, d)
             \/ PostHook(p) \/ Exit(p) \/ Kill(p)
      PROVE  MemoryTyped'
  <2>1. Forget(p)
    BY <1>4 DEF RefuseRawRemote, Fail, ReceiveFails, Declined, PostHook, Exit, Kill, FailWith, Gone
  <2> QED
    BY <1>1, <2>1
<1>5. ASSUME NEW d \in Sides, ListCall(p, d) \/ ReadonlyCall(p, d) PROVE MemoryTyped'
  BY <1>5, ListCallRemembered, ReadonlyCallRemembered
<1> QED
  BY <1>2, <1>3, <1>4, <1>5, SnapshotRemembered, BeginRemembered, SealRemembered, ScheduleRemembered,
     DeleteRemembered DEF ProcStep

LEMMA TypedInit ==
  ASSUME Init
  PROVE  Typed
<1>1. ControlTyped
  <2>1. /\ phase = [p \in Procs |-> "idle"] /\ command = [p \in Procs |-> None]
        /\ entry = [p \in Procs |-> 1] /\ at = [p \in Procs |-> 1]
        /\ opened = [p \in Procs |-> {}] /\ closed = [p \in Procs |-> <<>>]
        /\ guard = [p \in Procs |-> FALSE] /\ error = [p \in Procs |-> NoError]
        /\ code = [p \in Procs |-> None] /\ holder = [l \in Locks |-> None]
    BY DEF Init
  <2>2. <<>> \in Seq(Nat)
    OBVIOUS
  <2> QED
    BY <2>1, <2>2 DEF ControlTyped, Phases
<1>2. DiskTyped
  <2>1. /\ fs = Initially /\ next = [f \in DOMAIN Initially |-> 1 + Cardinality(Initially[f])]
        /\ named = Cardinality({i \in DOMAIN Names : \E f \in DOMAIN Initially :
                                  \E s \in Initially[f] : Leaf(s.path) = Names[i]})
    BY DEF Init
  <2>2. named \in Nat
    <3>1. DOMAIN Names = 1 .. Len(Names) /\ Len(Names) \in Nat
      BY CommandLineAssumption, LenProperties
    <3>2. IsFiniteSet(DOMAIN Names)
      BY <3>1, FS_Interval
    <3>3. {i \in DOMAIN Names : \E f \in DOMAIN Initially :
             \E s \in Initially[f] : Leaf(s.path) = Names[i]} \in SUBSET DOMAIN Names
      OBVIOUS
    <3> QED
      BY <2>1, <3>2, <3>3, FS_Subset, FS_CardinalityType
  <2>3. ASSUME NEW f \in DOMAIN Initially
        PROVE  next[f] \in Nat /\ IsFiniteSet(fs[f]) /\ WellNumbered(fs[f], next[f])
    <3>1. IsFiniteSet(Initially[f]) /\ WellNumbered(Initially[f], 1 + Cardinality(Initially[f]))
      BY CommandLineAssumption
    <3>2. Cardinality(Initially[f]) \in Nat
      BY <3>1, FS_CardinalityType
    <3>3. fs[f] = Initially[f] /\ next[f] = 1 + Cardinality(Initially[f])
      BY <2>1
    <3> QED
      BY <3>1, <3>2, <3>3
  <2> QED
    BY <2>1, <2>2, <2>3 DEF DiskTyped
<1>3. MemoryTyped
  BY DEF Init, MemoryTyped, NothingListed, Known
<1>4. ASSUME NEW p \in Procs PROVE Placed(p)
  BY DEF Init, Placed
<1> QED
  BY <1>1, <1>2, <1>3, <1>4 DEF Typed

LEMMA TypedNext ==
  ASSUME Typed, [Next]_vars
  PROVE  Typed'
<1>1. CASE UNCHANGED vars
  BY <1>1 DEF vars, control, disk, memory, Typed, ControlTyped, DiskTyped, MemoryTyped, Placed, EntryOf
<1>2. ASSUME NEW p \in Procs, ProcStep(p) PROVE Typed'
  BY <1>2, ControlNext, DiskNext, MemoryNext DEF Typed
<1> QED
  BY <1>1, <1>2 DEF Next

LEMMA TypedAlways == Spec => []Typed
BY TypedInit, TypedNext, PTL DEF Spec

(* Every variable keeps its type, and no filesystem gives an id or a place *)
(* to two subvolumes.                                                      *)
THEOREM CommandLineTypeCorrect == Spec => []TypeOK
<1>1. Typed => TypeOK
  <2> SUFFICES ASSUME Typed PROVE TypeOK
    OBVIOUS
  <2>1. phase \in [Procs -> {"idle", "running", "failing", "over", "killed"}]
        /\ holder \in [Locks -> Procs \cup {None}]
    BY DEF Typed, ControlTyped, Phases
  <2>2. ASSUME NEW p \in Procs
        PROVE  /\ phase[p] = "idle" \/ command[p] \in Command
               /\ phase[p] = "running" => entry[p] \in DOMAIN command[p].entries
                                            /\ at[p] \in DOMAIN Steps(command[p])
               /\ code[p] \in Codes \cup {None} /\ (code[p] # None <=> phase[p] = "over")
    <3>1. Placed(p)
      BY DEF Typed
    <3>2. phase[p] = "running" => at[p] \in DOMAIN Steps(command[p])
      BY <3>1, RunningFacts, StepsTyped
    <3> QED
      BY <3>1, <3>2 DEF Typed, ControlTyped, Placed, Parsed
  <2>3. \A f \in DOMAIN fs : WellNumbered(fs[f], next[f])
    BY DEF Typed, DiskTyped
  <2> QED
    BY <2>1, <2>2, <2>3 DEF TypeOK
<1> QED
  BY <1>1, TypedAlways, PTL

-----------------------------------------------------------------------------
(* The hooks                                                               *)

HooksOf(p) == OpenSoFar(p) /\ HooksSoFar(p) /\ EndsAsItOpened(p)

LEMMA ErrorKinds ==
  /\ \A e \in Failures : e # NoError
  /\ \A e \in {Usage, Plain, NeedsRoot} : e \in Failures /\ e.type # "lock"
  /\ NoError.type # "lock"
BY DEF Failures, NoError, Usage, Busy, LockUnopenable, Plain, NeedsRoot

LEMMA OthersKeepHooks ==
  ASSUME NEW q, SameControl(q), HooksOf(q)
  PROVE  HooksOf(q)'
<1>1. OpenSoFar(q)'
  BY DEF SameControl, HooksOf, OpenSoFar
<1>2. \A e : (HookDue(q, e)' <=> HookDue(q, e)) /\ (HookRan(q, e)' <=> HookRan(q, e))
  BY DEF SameControl, HookDue, HookRan
<1>3. HooksSoFar(q)'
  BY <1>2 DEF SameControl, HooksOf, HooksSoFar
<1>4. EndsAsItOpened(q)'
  BY DEF SameControl, HooksOf, EndsAsItOpened
<1> QED
  BY <1>1, <1>3, <1>4 DEF HooksOf

LEMMA StartHooks ==
  ASSUME ControlTyped, NEW p \in Procs, Placed(p), HooksOf(p), NEW c \in Commands, Start(p, c)
  PROVE  HooksOf(p)'
<1>1. /\ phase[p] = "idle" /\ command'[p] = c /\ UNCHANGED <<entry, opened, closed, guard, code>>
      /\ \/ phase'[p] = "running" /\ error' = error
         \/ phase'[p] = "failing" /\ error'[p] \in Failures
      /\ Placed(p)'
  BY StartTyped
<1>2. /\ opened[p] = {} /\ closed[p] = <<>> /\ ~guard[p] /\ error[p] = NoError /\ entry[p] = 1
  BY <1>1 DEF HooksOf, OpenSoFar, EndsAsItOpened, Placed
<1>3. phase'[p] = "running" => at'[p] = 1
  BY <1>1, <1>2 DEF Start, SetRejected, FailWith, ControlTyped, Placed
<1>4. OpenSoFar(p)'
  BY <1>1, <1>2, <1>3 DEF OpenSoFar
<1>5. DOMAIN closed'[p] = {}
  BY <1>1, <1>2
<1>6. HooksSoFar(p)'
  BY <1>1, <1>2, <1>5 DEF HooksSoFar
<1>7. EndsAsItOpened(p)'
  BY <1>1, <1>2, ErrorKinds DEF EndsAsItOpened
<1> QED
  BY <1>4, <1>6, <1>7 DEF HooksOf

LEMMA FailsHooks ==
  ASSUME ControlTyped, NEW p \in Procs, Placed(p), HooksOf(p), Fails(p)
  PROVE  HooksOf(p)'
<1>1. PICK e \in {Usage, Plain, NeedsRoot} : FailWith(p, e)
  BY DEF Fails
<1>2. e \in Failures /\ e # NoError /\ e.type # "lock"
  BY ErrorKinds
<1>3. /\ phase'[p] = "failing" /\ error'[p] = e /\ phase[p] = "running"
      /\ UNCHANGED <<command, entry, opened, closed, guard, code>>
  BY <1>1, <1>2, FailsTyped DEF Fails
<1>4. OpenSoFar(p)'
  BY <1>3 DEF HooksOf, OpenSoFar
<1>5. \A x : (HookDue(p, x)' <=> HookDue(p, x)) /\ (HookRan(p, x)' <=> HookRan(p, x))
  BY <1>3 DEF HookDue, HookRan
<1>6. HooksSoFar(p)'
  BY <1>3, <1>5 DEF HooksOf, HooksSoFar
<1>7. EndsAsItOpened(p)'
  BY <1>2, <1>3 DEF EndsAsItOpened
<1> QED
  BY <1>4, <1>6, <1>7 DEF HooksOf

(* A step between the hooks: what is open stays, and the last step of a    *)
(* hooked command is its post-snapshot hook.                               *)
LEMMA PassesHooks ==
  ASSUME ControlTyped, NEW p \in Procs, Placed(p), HooksOf(p), Passes(p)
  PROVE  HooksOf(p)'
<1> DEFINE c == command[p]
           n == Len(Steps(c))
<1>1. /\ phase[p] = "running" /\ Advance(p) /\ UNCHANGED <<command, opened, closed, guard, error, code>>
      /\ Steps(c)[at[p]] \notin {"pre_hook", "post_hook"}
  BY DEF Passes, StepDone, Step
<1>2. /\ Parsed(c) /\ entry[p] \in DOMAIN c.entries /\ at[p] \in 1 .. n /\ n \in 1 .. 16
      /\ StepFacts(c, at[p])
      /\ c.kind \in Hooked => n > 4
  BY <1>1, RunningFacts
<1>3. \/ at[p] < n /\ phase'[p] = "running" /\ entry'[p] = entry[p] /\ at'[p] = at[p] + 1
      \/ at[p] = n /\ phase'[p] = "running" /\ entry'[p] = entry[p] + 1 /\ at'[p] = 1
      \/ at[p] = n /\ phase'[p] = "failing" /\ entry'[p] = entry[p] /\ at'[p] = 1
  BY <1>1, <1>2, Advances
<1>4. c.kind \in Hooked => at[p] # n /\ at[p] # 3
  BY <1>1, <1>2 DEF StepFacts
<1>5. /\ error[p] = NoError /\ ~(phase[p] = "idle")
      /\ c.kind \notin Hooked => opened[p] = {}
      /\ c.kind \in Hooked =>
           \A e \in Nat : e \in opened[p] <=> (e \in 1 .. entry[p] /\ (e = entry[p] => at[p] > 3))
  BY <1>1 DEF HooksOf, OpenSoFar, EndsAsItOpened
<1> HIDE DEF n
<1>6. OpenSoFar(p)'
  <2>1. CASE c.kind \in Hooked
    <3>1. phase'[p] = "running" /\ entry'[p] = entry[p] /\ at'[p] = at[p] + 1
      BY <1>3, <1>4, <2>1
    <3>2. at[p] + 1 > 3 <=> at[p] > 3
      BY <1>2, <1>4, <2>1
    <3> QED
      BY <1>1, <1>5, <2>1, <3>1, <3>2 DEF OpenSoFar
  <2>2. CASE c.kind \notin Hooked
    <3>1. phase'[p] \in {"running", "failing"}
      BY <1>3
    <3> QED
      BY <1>1, <1>5, <2>2, <3>1 DEF OpenSoFar
  <2> QED
    BY <2>1, <2>2
<1>7. \A x : (HookDue(p, x)' <=> HookDue(p, x)) /\ (HookRan(p, x)' <=> HookRan(p, x))
  BY <1>1 DEF HookDue, HookRan
<1>8. HooksSoFar(p)'
  <2>1. guard[p] => c.kind \in Hooked
    BY <1>5 DEF HooksOf, HooksSoFar
  <2>2. guard[p] => phase'[p] = "running" /\ entry'[p] = entry[p]
    BY <1>3, <1>4, <2>1
  <2>3. c.kind \notin Hooked \/ entry'[p] = entry[p]
    BY <1>3, <1>4
  <2> QED
    BY <1>1, <1>5, <1>7, <2>2, <2>3 DEF HooksOf, HooksSoFar
<1>9. EndsAsItOpened(p)'
  <2>1. phase'[p] = "failing" => c.kind # "run"
    BY <1>3, <1>4 DEF Hooked
  <2>2. phase'[p] \in {"running", "failing"}
    BY <1>3
  <2> QED
    BY <1>1, <1>5, <2>1, <2>2, ErrorKinds DEF EndsAsItOpened
<1> QED
  BY <1>6, <1>8, <1>9 DEF HooksOf

LEMMA PickDriveHooks ==
  ASSUME ControlTyped, NEW p \in Procs, Placed(p), HooksOf(p), PickDrive(p)
  PROVE  HooksOf(p)'
<1> DEFINE c == command[p]
           n == Len(Steps(c))
<1>1. /\ phase[p] = "running" /\ Advance(p) /\ UNCHANGED <<opened, closed, guard, error, code>>
      /\ Steps(c)[at[p]] = "target"
  BY DEF PickDrive, Running, Step
<1>2. /\ Parsed(c) /\ entry[p] \in DOMAIN c.entries /\ at[p] \in 1 .. n
      /\ StepFacts(c, at[p])
      /\ c.kind \in Hooked => n > 4
  BY <1>1, RunningFacts
<1>3. /\ c.kind = "run" /\ ~c.set /\ command'[p].kind = c.kind
      /\ DOMAIN command'[p].entries = DOMAIN c.entries
      /\ \A x : HookDue(p, x)' = HookDue(p, x)
  BY PickedCommand
<1>4. at[p] = 4 /\ n > 4
  <2>1. c.kind = "run" /\ ~c.set
    BY <1>3
  <2>2. at[p] = 4
    BY <1>1, <1>2, <2>1 DEF StepFacts
  <2> QED
    BY <1>2, <2>1, <2>2 DEF Hooked
<1>5. phase'[p] = "running" /\ entry'[p] = entry[p] /\ at'[p] = 5
  BY <1>1, <1>2, <1>4, Advances
<1>6. OpenSoFar(p)'
  BY <1>1, <1>3, <1>4, <1>5 DEF HooksOf, OpenSoFar, Hooked
<1>7. \A x : HookRan(p, x)' <=> HookRan(p, x)
  BY <1>1 DEF HookRan
<1>8. HooksSoFar(p)'
  BY <1>1, <1>3, <1>5, <1>7 DEF HooksOf, HooksSoFar
<1>9. EndsAsItOpened(p)'
  BY <1>1, <1>5 DEF HooksOf, EndsAsItOpened
<1> QED
  BY <1>6, <1>8, <1>9 DEF HooksOf

(* The hook opens the entry, and the guard is made exactly if a hook is    *)
(* due after it.                                                           *)
LEMMA PreHookHooks ==
  ASSUME ControlTyped, NEW p \in Procs, Placed(p), HooksOf(p), PreHook(p)
  PROVE  HooksOf(p)'
<1> DEFINE c == command[p]
           n == Len(Steps(c))
           i == entry[p]
<1>1. /\ phase[p] = "running" /\ Advance(p) /\ UNCHANGED <<command, closed, error, code>>
      /\ Steps(c)[at[p]] = "pre_hook"
      /\ opened' = [opened EXCEPT ![p] = @ \cup {i}]
      /\ guard' = [guard EXCEPT ![p] = HookOf(EntryOf(p).post, c.post) # None]
  BY DEF PreHook, Running, Step
<1>2. /\ Parsed(c) /\ i \in DOMAIN c.entries /\ at[p] \in 1 .. n
      /\ StepFacts(c, at[p])
      /\ c.kind \in Hooked => n > 4
  BY <1>1, RunningFacts
<1>3. c.kind \in Hooked /\ at[p] = 3 /\ n > 4
  <2>1. c.kind \in Hooked /\ at[p] = 3
    BY <1>1, <1>2 DEF StepFacts
  <2> QED
    BY <1>2, <2>1
<1>4. phase'[p] = "running" /\ entry'[p] = i /\ at'[p] = 4
  BY <1>1, <1>2, <1>3, Advances
<1>5. /\ error[p] = NoError /\ i \in Nat \ {0}
      /\ \A e \in Nat : e \in opened[p] <=> (e \in 1 .. i /\ (e = i => at[p] > 3))
  BY <1>1, <1>3 DEF HooksOf, OpenSoFar, EndsAsItOpened, ControlTyped
<1>6. i \notin opened[p] /\ opened'[p] = opened[p] \cup {i}
  BY <1>1, <1>3, <1>5 DEF ControlTyped
<1>7. guard'[p] <=> HookDue(p, i)
  BY <1>1 DEF ControlTyped, HookDue, EntryOf
<1>8. OpenSoFar(p)'
  <2>1. \A e \in Nat : e \in opened'[p] <=> (e \in 1 .. i /\ (e = i => 4 > 3))
    BY <1>3, <1>5, <1>6
  <2> QED
    BY <1>1, <1>3, <1>4, <2>1 DEF OpenSoFar
<1>9. \A x : (HookDue(p, x)' <=> HookDue(p, x)) /\ (HookRan(p, x)' <=> HookRan(p, x))
  BY <1>1 DEF HookDue, HookRan
<1>10. ~HookRan(p, i)
  BY <1>6 DEF HooksOf, HooksSoFar, HookRan
<1>11. HooksSoFar(p)'
  <2>1. /\ \A k, j \in DOMAIN closed'[p] : closed'[p][k] = closed'[p][j] => k = j
        /\ \A k \in DOMAIN closed'[p] : closed'[p][k] \in opened'[p]
    BY <1>1, <1>6 DEF HooksOf, HooksSoFar
  <2>2. ASSUME NEW e \in opened'[p]
        PROVE  (guard'[p] /\ e = i) \/ (HookRan(p, e) <=> HookDue(p, e))
    <3>1. CASE e = i
      BY <1>7, <1>10, <3>1
    <3>2. CASE e # i
      BY <1>1, <1>6, <3>2 DEF HooksOf, HooksSoFar
    <3> QED
      BY <3>1, <3>2
  <2> QED
    BY <1>4, <1>6, <1>7, <1>9, <1>10, <2>1, <2>2 DEF HooksSoFar
<1>12. EndsAsItOpened(p)'
  BY <1>1, <1>4, <1>5, ErrorKinds DEF EndsAsItOpened
<1> QED
  BY <1>8, <1>11, <1>12 DEF HooksOf

(* Running the guard's hook closes the entry it stands for, once.          *)
LEMMA GuardCloses ==
  ASSUME ControlTyped, NEW p \in Procs, HooksSoFar(p), phase[p] \in {"running", "failing"},
         closed' = IF guard[p] THEN [closed EXCEPT ![p] = Append(@, entry[p])] ELSE closed,
         guard' = [guard EXCEPT ![p] = FALSE], UNCHANGED <<command, opened>>
  PROVE  /\ ~guard'[p]
         /\ \A i, j \in DOMAIN closed'[p] : closed'[p][i] = closed'[p][j] => i = j
         /\ \A i \in DOMAIN closed'[p] : closed'[p][i] \in opened'[p]
         /\ \A e \in opened'[p] : HookRan(p, e)' <=> HookDue(p, e)'
<1>1. ~guard'[p] /\ opened'[p] = opened[p] /\ \A e : HookDue(p, e)' = HookDue(p, e)
  BY DEF ControlTyped, HookDue
<1>2. CASE ~guard[p]
  <2>1. closed'[p] = closed[p] /\ \A e : HookRan(p, e)' <=> HookRan(p, e)
    BY <1>2 DEF HookRan
  <2> QED
    BY <1>1, <1>2, <2>1 DEF HooksSoFar
<1>3. CASE guard[p]
  <2> DEFINE s == closed[p]
             i == entry[p]
             t == Append(s, i)
  <2>1. s \in Seq(Nat) /\ i \in Nat
    BY DEF ControlTyped
  <2>2. closed'[p] = t
    BY <1>3 DEF ControlTyped
  <2>3. /\ i \in opened[p] /\ HookDue(p, i) /\ ~HookRan(p, i)
        /\ \A j, k \in DOMAIN s : s[j] = s[k] => j = k
        /\ \A j \in DOMAIN s : s[j] \in opened[p]
        /\ \A e \in opened[p] : e = i \/ (HookRan(p, e) <=> HookDue(p, e))
    BY <1>3 DEF HooksSoFar
  <2>4. /\ Len(s) \in Nat /\ DOMAIN s = 1 .. Len(s)
        /\ DOMAIN t = 1 .. Len(s) + 1 /\ t[Len(s) + 1] = i
        /\ \A j \in 1 .. Len(s) : t[j] = s[j]
    BY <2>1, AppendProperties, LenProperties
  <2>5. \A j \in DOMAIN s : s[j] # i
    BY <2>3 DEF HookRan
  <2> HIDE DEF s, t, i
  <2>6. \A j, k \in DOMAIN t : t[j] = t[k] => j = k
    BY <2>3, <2>4, <2>5
  <2>7. \A j \in DOMAIN t : t[j] \in opened[p]
    BY <2>3, <2>4
  <2>8. \A e : (\E j \in DOMAIN t : t[j] = e) <=> (e = i \/ \E j \in DOMAIN s : s[j] = e)
    BY <2>4
  <2>9. \A e : HookRan(p, e)' <=> (e = i \/ HookRan(p, e))
    BY <2>2, <2>8 DEF HookRan, s
  <2> QED
    BY <1>1, <2>2, <2>3, <2>6, <2>7, <2>9
<1> QED
  BY <1>2, <1>3

LEMMA PostHookHooks ==
  ASSUME ControlTyped, NEW p \in Procs, Placed(p), HooksOf(p), PostHook(p)
  PROVE  HooksOf(p)'
<1> DEFINE c == command[p]
           n == Len(Steps(c))
           i == entry[p]
<1>1. /\ phase[p] = "running" /\ UNCHANGED <<command, opened, code>>
      /\ Steps(c)[at[p]] = "post_hook"
      /\ closed' = IF guard[p] THEN [closed EXCEPT ![p] = Append(@, entry[p])] ELSE closed
      /\ guard' = [guard EXCEPT ![p] = FALSE]
  BY DEF PostHook, Running, Step
<1>2. /\ Parsed(c) /\ i \in DOMAIN c.entries /\ at[p] \in 1 .. n
      /\ StepFacts(c, at[p])
      /\ c.kind \in Hooked => n > 4
      /\ DOMAIN c.entries = 1 .. Len(c.entries) /\ Len(c.entries) \in Nat
  BY <1>1, RunningFacts, ParsedFacts
<1>3. c.kind \in Hooked /\ at[p] = n /\ n > 4
  <2>1. c.kind \in Hooked /\ at[p] = n
    BY <1>1, <1>2 DEF StepFacts
  <2> QED
    BY <1>2, <2>1
<1>4. /\ ~guard'[p]
      /\ \A k, j \in DOMAIN closed'[p] : closed'[p][k] = closed'[p][j] => k = j
      /\ \A k \in DOMAIN closed'[p] : closed'[p][k] \in opened'[p]
      /\ \A e \in opened'[p] : HookRan(p, e)' <=> HookDue(p, e)'
  BY <1>1, GuardCloses DEF HooksOf
<1>5. /\ error[p] = NoError /\ i \in Nat \ {0} /\ opened[p] \subseteq Nat
      /\ \A e \in Nat : e \in opened[p] <=> e \in 1 .. i
  <2>1. at[p] > 3
    BY <1>2, <1>3
  <2> QED
    BY <1>1, <1>3, <2>1 DEF HooksOf, OpenSoFar, EndsAsItOpened, ControlTyped
<1>6. HooksSoFar(p)'
  BY <1>4 DEF HooksSoFar
<1>7. \/ /\ phase'[p] = "running" /\ entry'[p] = i + 1 /\ at'[p] = 1 /\ error'[p] = NoError
      \/ /\ phase'[p] = "failing" /\ error'[p] = NoError /\ i = Len(c.entries)
      \/ /\ phase'[p] = "failing" /\ error'[p] = Plain
  <2>1. CASE Advance(p) /\ UNCHANGED error
    BY <1>1, <1>2, <1>3, <1>5, <2>1, Advances
  <2>2. CASE phase' = [phase EXCEPT ![p] = "failing"] /\ error' = [error EXCEPT ![p] = Plain]
    BY <2>2 DEF ControlTyped
  <2> QED
    BY <2>1, <2>2 DEF PostHook
<1>8. phase'[p] \in {"running", "failing"} /\ error'[p].type # "lock"
  BY <1>7, ErrorKinds
<1>9. OpenSoFar(p)'
  <2>1. ASSUME phase'[p] = "running"
        PROVE  \A e \in Nat : e \in opened[p] <=> (e \in 1 .. i + 1 /\ (e = i + 1 => 1 > 3))
    BY <1>5
  <2> QED
    BY <1>1, <1>3, <1>7, <1>8, <2>1 DEF OpenSoFar
<1>10. EndsAsItOpened(p)'
  <2>1. ASSUME phase'[p] = "failing", error'[p] = NoError PROVE opened[p] = DOMAIN c.entries
    <3>1. i = Len(c.entries)
      BY <1>7, <2>1, ErrorKinds
    <3>2. DOMAIN c.entries = 1 .. i
      BY <1>2, <3>1
    <3>3. opened[p] = 1 .. i
      <4>1. 1 .. i \subseteq Nat
        OBVIOUS
      <4> HIDE DEF c, i
      <4>2. opened[p] \subseteq Nat /\ \A e \in Nat : e \in opened[p] <=> e \in 1 .. i
        BY <1>5
      <4> DEFINE upto == 1 .. i
                 o == opened[p]
      <4>3. o \subseteq Nat /\ upto \subseteq Nat /\ \A e \in Nat : e \in o <=> e \in upto
        BY <4>1, <4>2
      <4> HIDE DEF upto, o
      <4>4. o = upto
        BY <4>3
      <4> QED
        BY <4>4 DEF upto, o
    <3> QED
      BY <3>2, <3>3
  <2> QED
    BY <1>1, <1>7, <1>8, <2>1 DEF EndsAsItOpened
<1> QED
  BY <1>6, <1>9, <1>10 DEF HooksOf

LEMMA DropGuardHooks ==
  ASSUME ControlTyped, NEW p \in Procs, Placed(p), HooksOf(p), DropGuard(p)
  PROVE  HooksOf(p)'
<1>1. /\ phase[p] = "failing" /\ guard[p] /\ UNCHANGED <<phase, command, entry, at, opened, error, code>>
      /\ closed' = IF guard[p] THEN [closed EXCEPT ![p] = Append(@, entry[p])] ELSE closed
      /\ guard' = [guard EXCEPT ![p] = FALSE]
  BY DEF DropGuard
<1>2. /\ ~guard'[p]
      /\ \A k, j \in DOMAIN closed'[p] : closed'[p][k] = closed'[p][j] => k = j
      /\ \A k \in DOMAIN closed'[p] : closed'[p][k] \in opened'[p]
      /\ \A e \in opened'[p] : HookRan(p, e)' <=> HookDue(p, e)'
  BY <1>1, GuardCloses DEF HooksOf
<1>3. HooksSoFar(p)'
  BY <1>2 DEF HooksSoFar
<1>4. OpenSoFar(p)' /\ EndsAsItOpened(p)'
  BY <1>1 DEF HooksOf, OpenSoFar, EndsAsItOpened
<1> QED
  BY <1>3, <1>4 DEF HooksOf

LEMMA EndsHooks ==
  ASSUME ControlTyped, NEW p \in Procs, Placed(p), HooksOf(p), Exit(p) \/ Kill(p) \/ Delete(p)
  PROVE  HooksOf(p)'
<1>1. ASSUME Exit(p) PROVE HooksOf(p)'
  <2>1. /\ phase[p] = "failing" /\ ~guard[p] /\ UNCHANGED <<command, opened, closed>>
        /\ phase'[p] = "over" /\ code'[p] = ExitCode(error[p]) /\ ~guard'[p] /\ error'[p] = NoError
    BY <1>1 DEF Exit, Gone, ControlTyped
  <2>2. error[p] \in Failures \cup {NoError}
    BY DEF ControlTyped
  <2>3. \A x : (HookDue(p, x)' <=> HookDue(p, x)) /\ (HookRan(p, x)' <=> HookRan(p, x))
    BY <2>1 DEF HookDue, HookRan
  <2>4. OpenSoFar(p)'
    BY <2>1 DEF HooksOf, OpenSoFar
  <2>5. HooksSoFar(p)'
    BY <2>1, <2>3 DEF HooksOf, HooksSoFar
  <2>6. EndsAsItOpened(p)'
    <3>1. code'[p] = 0 => error[p] = NoError
      BY <2>1, <2>2, ExitCodes
    <3>2. code'[p] = 3 => error[p].type = "lock"
      BY <2>1, <2>2, ExitCodes
    <3> QED
      BY <2>1, <3>1, <3>2, ErrorKinds DEF HooksOf, EndsAsItOpened
  <2> QED
    BY <2>4, <2>5, <2>6 DEF HooksOf
<1>2. ASSUME Kill(p) PROVE HooksOf(p)'
  <2>1. /\ phase[p] \in {"running", "failing"} /\ UNCHANGED <<command, opened, closed>>
        /\ phase'[p] = "killed" /\ ~guard'[p] /\ error'[p] = NoError
    BY <1>2 DEF Kill, Gone, ControlTyped
  <2>2. OpenSoFar(p)'
    BY <2>1 DEF HooksOf, OpenSoFar
  <2>3. HooksSoFar(p)'
    BY <2>1 DEF HooksOf, HooksSoFar
  <2>4. EndsAsItOpened(p)'
    BY <2>1, ErrorKinds DEF EndsAsItOpened
  <2> QED
    BY <2>2, <2>3, <2>4 DEF HooksOf
<1>3. ASSUME Delete(p) PROVE HooksOf(p)'
  <2>1. UNCHANGED control
    BY <1>3 DEF Delete
  <2> QED
    BY <2>1, OthersKeepHooks DEF control, SameControl
<1> QED
  BY <1>1, <1>2, <1>3

LEMMA HooksNext ==
  ASSUME Typed, HookInv, [Next]_vars
  PROVE  HookInv'
<1>1. \A q \in Procs : HooksOf(q)
  BY DEF HookInv, HooksOf
<1>2. CASE UNCHANGED vars
  <2>1. \A q \in Procs : SameControl(q)
    BY <1>2 DEF vars, control, SameControl
  <2> QED
    BY <1>1, <2>1, OthersKeepHooks DEF HookInv, HooksOf
<1>3. ASSUME NEW p \in Procs, ProcStep(p) PROVE HookInv'
  <2>1. ControlTyped /\ Placed(p) /\ HooksOf(p)
    BY <1>1 DEF Typed
  <2>2. HooksOf(p)'
    BY <1>3, <2>1, KindsOfStep, StartHooks, FailsHooks, PassesHooks, PickDriveHooks, PreHookHooks,
       PostHookHooks, DropGuardHooks, EndsHooks
  <2>3. ASSUME NEW q \in Procs, q # p PROVE HooksOf(q)'
    BY <1>1, <1>3, <2>1, <2>3, OthersKeepControl, OthersKeepHooks
  <2> QED
    BY <2>2, <2>3 DEF HookInv, HooksOf
<1> QED
  BY <1>2, <1>3 DEF Next

LEMMA HooksInit ==
  ASSUME Init
  PROVE  HookInv
BY DEF Init, HookInv, OpenSoFar, HooksSoFar, EndsAsItOpened, NoError

(* The post-snapshot hook runs once for every entry whose pre-snapshot     *)
(* hook has passed, however the command ends, and the exit code tells a    *)
(* run that did everything and a process that never began.                 *)
THEOREM HooksPairUp == Spec => []HooksPaired
<1>1. Spec => []HookInv
  BY TypedAlways, HooksInit, HooksNext, PTL DEF Spec
<1>2. HookInv => HooksPaired
  <2> SUFFICES ASSUME HookInv, NEW p \in Procs
               PROVE  /\ \A i, j \in DOMAIN closed[p] : closed[p][i] = closed[p][j] => i = j
                      /\ \A i \in DOMAIN closed[p] : closed[p][i] \in opened[p]
                      /\ phase[p] = "over" =>
                           /\ \A e \in opened[p] : HookRan(p, e) <=> HookDue(p, e)
                           /\ code[p] = 0 /\ command[p].kind = "run" => opened[p] = DOMAIN command[p].entries
                           /\ code[p] = 3 => opened[p] = {}
    BY DEF HooksPaired, HookRan, HookDue
  <2>1. HooksSoFar(p) /\ EndsAsItOpened(p)
    BY DEF HookInv
  <2> QED
    BY <2>1 DEF HooksSoFar, EndsAsItOpened
<1> QED
  BY <1>1, <1>2, PTL

-----------------------------------------------------------------------------
(* Dry runs                                                                *)

SameMemory(q) ==
  rows'[q] = rows[q] /\ listed'[q] = listed[q] /\ inflight'[q] = inflight[q] /\ doomed'[q] = doomed[q]

(* A process changes nothing of what another has read.                     *)
LEMMA OthersKeepMemory ==
  ASSUME Typed, NEW p \in Procs, ProcStep(p), NEW q \in Procs, q # p
  PROVE  SameMemory(q)
<1>1. MemoryTyped
  BY DEF Typed
<1>2. ASSUME Forget(p) \/ UNCHANGED memory PROVE SameMemory(q)
  BY <1>1, <1>2 DEF MemoryTyped, Forget, memory, SameMemory
<1>3. ASSUME NEW c \in Commands, Start(p, c) PROVE SameMemory(q)
  BY <1>2, <1>3 DEF Start, SetRejected, FailWith, memory
<1>4. ASSUME \/ Check(p) \/ PickDrive(p) \/ \E d \in Sides : EnsureDir(p, d)
             \/ PreHook(p) \/ DropGuard(p) \/ PruneDone(p) \/ RestoreTo(p)
      PROVE  SameMemory(q)
  <2>1. UNCHANGED memory
    BY <1>4 DEF Check, PickDrive, EnsureDir, PreHook, DropGuard, PruneDone, RestoreTo, memory
  <2> QED
    BY <1>2, <2>1
<1>5. ASSUME \/ RefuseRawRemote(p) \/ Fail(p) \/ ReceiveFails(p) \/ \E d \in Sides : Declined(p, d)
             \/ PostHook(p) \/ Exit(p) \/ Kill(p)
      PROVE  SameMemory(q)
  <2>1. Forget(p)
    BY <1>5 DEF RefuseRawRemote, Fail, ReceiveFails, Declined, PostHook, Exit, Kill, FailWith, Gone
  <2> QED
    BY <1>2, <2>1
<1>6. ASSUME NEW d \in Sides, ListCall(p, d) \/ ReadonlyCall(p, d) PROVE SameMemory(q)
  BY <1>1, <1>6 DEF ListCall, ReadonlyCall, MemoryTyped, SameMemory
<1>7. ASSUME TakeSnapshot(p) PROVE SameMemory(q)
  BY <1>1, <1>7 DEF TakeSnapshot, MemoryTyped, SameMemory
<1>8. ASSUME BeginReceive(p) PROVE SameMemory(q)
  BY <1>8, BeginRemembered DEF SameMemory
<1>9. ASSUME SealReceive(p) PROVE SameMemory(q)
  <2>1. UNCHANGED <<rows, inflight, doomed>>
    BY <1>9 DEF SealReceive
  <2>2. listed'[q] = listed[q]
    BY <1>1, <1>9 DEF SealReceive, MemoryTyped
  <2> QED
    BY <2>1, <2>2 DEF SameMemory
<1>10. ASSUME Schedule(p) \/ Delete(p) PROVE SameMemory(q)
  BY <1>10, ScheduleRemembered, DeleteRemembered DEF SameMemory
<1> QED
  BY <1>3, <1>4, <1>5, <1>6, <1>7, <1>8, <1>9, <1>10 DEF ProcStep

(* The steps that change anything on disk.                                 *)
LEMMA DiskSteps ==
  ASSUME NEW p \in Procs, ProcStep(p), disk' # disk
  PROVE  /\ phase[p] = "running"
         /\ \/ Step(p) \in {"snapshot_dir", "target_dir", "snapshot", "receive", "seal"}
            \/ Step(p) \in {"delete", "restore"} /\ ~command[p].dry
<1>1. \/ TakeSnapshot(p) \/ BeginReceive(p) \/ SealReceive(p) \/ ReceiveFails(p)
      \/ Delete(p) \/ RestoreTo(p) \/ \E d \in Sides : EnsureDir(p, d)
  <2>1. ASSUME \/ \E c \in Commands : Start(p, c)
               \/ Check(p) \/ PickDrive(p) \/ RefuseRawRemote(p) \/ \E d \in Sides : Declined(p, d)
               \/ PreHook(p) \/ PostHook(p) \/ Fail(p) \/ DropGuard(p) \/ Exit(p) \/ Kill(p)
               \/ \E d \in Sides : ListCall(p, d) \/ ReadonlyCall(p, d)
               \/ Schedule(p) \/ PruneDone(p)
        PROVE  disk' = disk
    BY <2>1 DEF Start, Check, PickDrive, RefuseRawRemote, Declined, PreHook, PostHook, Fail,
                DropGuard, Exit, Kill, ListCall, ReadonlyCall, Schedule, PruneDone
  <2> QED
    BY <2>1 DEF ProcStep
<1>2. CASE TakeSnapshot(p) \/ BeginReceive(p) \/ SealReceive(p) \/ ReceiveFails(p)
  BY <1>2 DEF TakeSnapshot, BeginReceive, SealReceive, ReceiveFails, Running
<1>3. CASE Delete(p)
  BY <1>3 DEF Delete, Running, disk
<1>4. CASE RestoreTo(p)
  BY <1>4 DEF RestoreTo, Running, disk
<1>5. CASE \E d \in Sides : EnsureDir(p, d)
  BY <1>5 DEF EnsureDir, Running
<1> QED
  BY <1>1, <1>2, <1>3, <1>4, <1>5

(* Whoever changes anything on disk runs a command that is meant to, and   *)
(* not in a dry run.                                                       *)
THEOREM DryRunsAreHarmless == Spec => DryRunsChangeNothing
<1> DEFINE Idle == disk' # disk => \A p \in Procs :
                     Moves(p) => ~command[p].dry /\ command[p].kind \notin {"list", "diff", "drives"}
<1>1. ASSUME Typed, [Next]_vars PROVE Idle
  <2>1. CASE UNCHANGED vars
    BY <2>1 DEF vars
  <2>2. ASSUME NEW p \in Procs, ProcStep(p), disk' # disk, NEW q \in Procs, Moves(q)
        PROVE  ~command[q].dry /\ command[q].kind \notin {"list", "diff", "drives"}
    <3>1. q = p
      <4>1. ControlTyped /\ Placed(p)
        BY <1>1 DEF Typed
      <4> QED
        BY <1>1, <2>2, <4>1, OthersKeepControl, OthersKeepMemory DEF Moves, SameControl, SameMemory
    <3>2. /\ phase[p] = "running"
          /\ \/ Step(p) \in {"snapshot_dir", "target_dir", "snapshot", "receive", "seal"}
             \/ Step(p) \in {"delete", "restore"} /\ ~command[p].dry
      BY <2>2, DiskSteps
    <3>3. StepFacts(command[p], at[p]) /\ Parsed(command[p]) /\ command[p].dry \in BOOLEAN
      BY <1>1, <3>2, RunningFacts, ParsedFacts DEF Typed
    <3>4. CASE Step(p) \in {"snapshot_dir", "target_dir", "snapshot", "receive", "seal"}
      <4>1. command[p].kind \in {"run", "snapshot", "resume"}
        BY <3>3, <3>4 DEF StepFacts, Step, Hooked
      <4> QED
        BY <3>1, <3>3, <4>1 DEF Parsed
    <3>5. CASE Step(p) \in {"delete", "restore"} /\ ~command[p].dry
      <4>1. command[p].kind \in {"run", "resume", "prune", "restore"}
        BY <3>3, <3>5 DEF StepFacts, Step
      <4> QED
        BY <3>1, <3>5, <4>1
    <3> QED
      BY <3>2, <3>4, <3>5
  <2> QED
    BY <1>1, <2>1, <2>2 DEF Next
<1> QED
  BY <1>1, TypedAlways, PTL DEF Spec, DryRunsChangeNothing

-----------------------------------------------------------------------------
(* Inventories                                                             *)

(* The rows still say what is there: an id is never given again, and where *)
(* a subvolume came from is set once.                                      *)
RowsHold(p) ==
  LET f == FsOf(SideOf(p, "target"))
  IN  /\ f \in DOMAIN Initially /\ IsFiniteSet(rows[p])
      /\ \A r \in rows[p] :
           r.id < next[f] /\ \A t \in fs[f] : t.id = r.id => r.received \in {None, t.received}

(* What a receive has made comes from nowhere, or from what it is named    *)
(* after.                                                                  *)
ReceiveHolds(p) ==
  LET i == inflight[p]
  IN  /\ i.id < next[i.fs]
      /\ \A t \in fs[i.fs] : t.id = i.id => t.received \in {None, Leaf(t.path)}

(* Until its last listing call a process knows nothing of the target.      *)
Reading(p) ==
  /\ phase[p] = "idle" => listed[p].target = {}
  /\ phase[p] = "running" /\ at[p] <= ListedAt(command[p]) => listed[p].target = {}
  /\ phase[p] = "running" /\ at[p] = ListedAt(command[p]) => RowsHold(p)

ReadInv == \A p \in Procs : Reading(p) /\ (inflight[p] # None => ReceiveHolds(p))

(* What a step makes of a filesystem: it takes away, adds with a new id,   *)
(* or seals what its own receive has made.                                 *)
Grows(p, f) ==
  /\ next'[f] \in Nat /\ next[f] <= next'[f]
  /\ \A t \in fs'[f] :
       \/ t \in fs[f]
       \/ t.id = next[f] /\ t.received = None
       \/ /\ inflight[p] # None /\ inflight[p].fs = f
          /\ \E s \in fs[f] : s.id = inflight[p].id /\ t = Sealed(s)

LEMMA CreateGrows ==
  ASSUME DiskTyped, NEW p, NEW h, NEW path, NEW ro, Create(h, path, ro), NEW f \in DOMAIN Initially
  PROVE  Grows(p, f)
<1> DEFINE place == PlaceOf(h, path)
           new == [id |-> next[place.fs], path |-> place.path, readonly |-> ro, received |-> None]
<1>1. /\ fs' = [fs EXCEPT ![place.fs] = @ \cup {new}] /\ next' = [next EXCEPT ![place.fs] = @ + 1]
  BY DEF Create
<1>2. new.id = next[place.fs] /\ new.received = None
  OBVIOUS
<1>3. DOMAIN fs = DOMAIN Initially /\ DOMAIN next = DOMAIN Initially /\ next[f] \in Nat
  BY DEF DiskTyped
<1> HIDE DEF new, place
<1>4. next'[f] \in Nat /\ next[f] <= next'[f]
  BY <1>1, <1>3
<1>5. ASSUME NEW t \in fs'[f] PROVE t \in fs[f] \/ (t.id = next[f] /\ t.received = None)
  BY <1>1, <1>2, <1>3
<1> QED
  BY <1>4, <1>5 DEF Grows

LEMMA DiskGrows ==
  ASSUME Typed, NEW p \in Procs, ProcStep(p), NEW f \in DOMAIN Initially
  PROVE  Grows(p, f)
<1>1. DiskTyped /\ DOMAIN fs = DOMAIN Initially /\ next[f] \in Nat
  BY DEF Typed, DiskTyped
<1>2. ASSUME fs'[f] \subseteq fs[f], UNCHANGED next PROVE Grows(p, f)
  BY <1>1, <1>2 DEF Grows
<1>3. ASSUME UNCHANGED <<fs, next>> PROVE Grows(p, f)
  BY <1>2, <1>3
<1>4. ASSUME TakeSnapshot(p) PROVE Grows(p, f)
  BY <1>1, <1>4, CreateGrows DEF TakeSnapshot
<1>5. ASSUME BeginReceive(p) PROVE Grows(p, f)
  BY <1>1, <1>3, <1>5, CreateGrows DEF BeginReceive
<1>6. ASSUME RestoreTo(p) PROVE Grows(p, f)
  BY <1>1, <1>3, <1>6, CreateGrows DEF RestoreTo
<1>7. ASSUME SealReceive(p) PROVE Grows(p, f)
  <2>1. CASE inflight[p] = None
    BY <1>3, <1>7, <2>1 DEF SealReceive
  <2>2. CASE inflight[p] # None
    <3>1. UNCHANGED next
      BY <1>7 DEF SealReceive
    <3>2. fs' = [fs EXCEPT ![inflight[p].fs] = (@ \ Received(p)) \cup {Sealed(s) : s \in Received(p)}]
      BY <1>7, <2>2 DEF SealReceive, Sealed
    <3>3. CASE f # inflight[p].fs
      <4>1. fs'[f] = fs[f]
        BY <3>2, <3>3
      <4> QED
        BY <1>2, <3>1, <4>1
    <3>4. CASE f = inflight[p].fs
      <4>1. fs'[f] = (fs[f] \ Received(p)) \cup {Sealed(s) : s \in Received(p)}
        BY <1>1, <3>2, <3>4
      <4>2. ASSUME NEW t \in fs'[f]
            PROVE  t \in fs[f] \/ \E s \in fs[f] : s.id = inflight[p].id /\ t = Sealed(s)
        BY <3>4, <4>1 DEF Received
      <4> QED
        BY <1>1, <2>2, <3>1, <3>4, <4>2 DEF Grows
    <3> QED
      BY <3>3, <3>4
  <2> QED
    BY <2>1, <2>2
<1>8. ASSUME ReceiveFails(p) \/ Delete(p) PROVE Grows(p, f)
  <2>1. UNCHANGED next /\ (fs' = fs \/ \E x, S : fs' = [fs EXCEPT ![x] = @ \ S])
    BY <1>8 DEF ReceiveFails, Delete
  <2>2. fs'[f] \subseteq fs[f]
    BY <1>1, <2>1
  <2> QED
    BY <1>2, <2>1, <2>2
<1>9. ASSUME \/ \E c \in Commands : Start(p, c)
             \/ Check(p) \/ PickDrive(p) \/ RefuseRawRemote(p)
             \/ \E d \in Sides : EnsureDir(p, d) \/ Declined(p, d)
             \/ PreHook(p) \/ PostHook(p) \/ Fail(p) \/ DropGuard(p) \/ Exit(p) \/ Kill(p)
             \/ \E d \in Sides : ListCall(p, d) \/ ReadonlyCall(p, d)
             \/ Schedule(p) \/ PruneDone(p)
      PROVE  UNCHANGED <<fs, next>>
  BY <1>9 DEF Start, Check, PickDrive, RefuseRawRemote, EnsureDir, Declined, PreHook, PostHook, Fail,
              DropGuard, Exit, Kill, ListCall, ReadonlyCall, Schedule, PruneDone, disk
<1> QED
  BY <1>3, <1>4, <1>5, <1>6, <1>7, <1>8, <1>9 DEF ProcStep

(* Rows that hold keep holding, whoever steps.                             *)
LEMMA RowsKeepHolding ==
  ASSUME Typed, NEW p \in Procs, ProcStep(p), inflight[p] # None => ReceiveHolds(p),
         NEW q \in Procs, RowsHold(q), rows'[q] = rows[q],
         FsOf(SideOf(q, "target"))' = FsOf(SideOf(q, "target"))
  PROVE  RowsHold(q)'
<1> DEFINE f == FsOf(SideOf(q, "target"))
<1>1. f \in DOMAIN Initially /\ IsFiniteSet(rows[q])
  BY DEF RowsHold
<1>2. Grows(p, f)
  BY <1>1, DiskGrows
<1>3. next[f] \in Nat /\ fs[f] \subseteq Subvol
  BY <1>1 DEF Typed, DiskTyped, WellNumbered
<1>4. ASSUME NEW r \in rows[q]
      PROVE  r.id < next'[f] /\ \A t \in fs'[f] : t.id = r.id => r.received \in {None, t.received}
  <2>1. r.id < next[f] /\ \A t \in fs[f] : t.id = r.id => r.received \in {None, t.received}
    BY <1>4 DEF RowsHold
  <2>2. r.id \in Nat
    BY <1>4 DEF Typed, MemoryTyped, Row
  <2>3. ASSUME NEW t \in fs'[f], t.id = r.id PROVE r.received \in {None, t.received}
    <3>1. CASE t \in fs[f]
      BY <2>1, <2>3, <3>1
    <3>2. CASE t.id = next[f]
      BY <1>3, <2>1, <2>2, <2>3, <3>2
    <3>3. CASE /\ inflight[p] # None /\ inflight[p].fs = f
               /\ \E s \in fs[f] : s.id = inflight[p].id /\ t = Sealed(s)
      <4>1. PICK s \in fs[f] : s.id = inflight[p].id /\ t = Sealed(s)
        BY <3>3
      <4>2. t.id = s.id /\ t.received = Leaf(s.path)
        BY <1>3, <4>1, SealedTyped
      <4>3. s.received \in {None, Leaf(s.path)}
        BY <3>3, <4>1 DEF ReceiveHolds
      <4>4. r.received \in {None, s.received}
        BY <2>1, <2>3, <4>2
      <4> QED
        BY <4>2, <4>3, <4>4
    <3> QED
      BY <1>2, <2>3, <3>1, <3>2, <3>3 DEF Grows
  <2> QED
    BY <1>2, <1>3, <2>1, <2>2, <2>3 DEF Grows
<1> QED
  BY <1>1, <1>4 DEF RowsHold

(* So does what is known of a receive.                                     *)
LEMMA ReceiveKeepsHolding ==
  ASSUME Typed, NEW p \in Procs, ProcStep(p), inflight[p] # None => ReceiveHolds(p),
         NEW q \in Procs, inflight[q] # None, ReceiveHolds(q), inflight'[q] = inflight[q]
  PROVE  ReceiveHolds(q)'
<1> DEFINE f == inflight[q].fs
           i == inflight[q].id
<1>1. f \in DOMAIN Initially /\ i \in Nat
  BY DEF Typed, MemoryTyped, Receiving
<1>2. Grows(p, f)
  BY <1>1, DiskGrows
<1>3. next[f] \in Nat /\ fs[f] \subseteq Subvol
  BY <1>1 DEF Typed, DiskTyped, WellNumbered
<1>4. i < next[f] /\ \A t \in fs[f] : t.id = i => t.received \in {None, Leaf(t.path)}
  BY DEF ReceiveHolds
<1>5. ASSUME NEW t \in fs'[f], t.id = i PROVE t.received \in {None, Leaf(t.path)}
  <2>1. CASE t \in fs[f]
    BY <1>4, <1>5, <2>1
  <2>2. CASE t.id = next[f]
    BY <1>1, <1>3, <1>4, <1>5, <2>2
  <2>3. CASE \E s \in fs[f] : t = Sealed(s)
    BY <1>3, <2>3, SealedTyped
  <2> QED
    BY <1>2, <2>1, <2>2, <2>3 DEF Grows
<1>6. i < next'[f]
  BY <1>1, <1>2, <1>3, <1>4 DEF Grows
<1> QED
  BY <1>5, <1>6 DEF ReceiveHolds

(* A process forgets what its receive has made, or has just made it.       *)
LEMMA ReceiveStep ==
  ASSUME Typed, NEW p \in Procs, ProcStep(p), inflight[p] # None => ReceiveHolds(p), inflight'[p] # None
  PROVE  ReceiveHolds(p)'
<1>1. CASE inflight'[p] = inflight[p]
  BY <1>1, ReceiveKeepsHolding
<1>2. CASE BeginReceive(p)
  <2> DEFINE f == inflight'[p].fs
  <2>1. PICK path :
          /\ f \in DOMAIN Initially /\ inflight'[p].id = next[f]
          /\ fs' = [fs EXCEPT ![f] = @ \cup {[id |-> next[f], path |-> path, readonly |-> FALSE, received |-> None]}]
          /\ next' = [next EXCEPT ![f] = @ + 1]
    BY <1>2, BeginRemembered
  <2> DEFINE new == [id |-> next[f], path |-> path, readonly |-> FALSE, received |-> None]
  <2>2. fs' = [fs EXCEPT ![f] = @ \cup {new}] /\ new.received = None
    BY <2>1
  <2> HIDE DEF new
  <2>3. next[f] \in Nat /\ f \in DOMAIN fs /\ f \in DOMAIN next /\ \A t \in fs[f] : t.id < next[f] /\ t.id \in Nat
    BY <2>1 DEF Typed, DiskTyped, WellNumbered, Subvol
  <2>4. next'[f] = next[f] + 1 /\ fs'[f] = fs[f] \cup {new}
    BY <2>1, <2>2, <2>3
  <2>5. \A t \in fs[f] : t.id # next[f]
    BY <2>3
  <2>6. \A t \in fs'[f] : t.id = next[f] => t.received = None
    BY <2>2, <2>4, <2>5
  <2>7. inflight'[p].id < next'[f]
    BY <2>1, <2>3, <2>4
  <2> QED
    BY <2>1, <2>6, <2>7 DEF ReceiveHolds
<1>3. inflight' = inflight \/ Forget(p) \/ BeginReceive(p)
  <2>1. ASSUME \/ RefuseRawRemote(p) \/ Fail(p) \/ ReceiveFails(p) \/ \E d \in Sides : Declined(p, d)
               \/ PostHook(p) \/ Exit(p) \/ Kill(p)
        PROVE  Forget(p)
    BY <2>1 DEF RefuseRawRemote, Fail, ReceiveFails, Declined, PostHook, Exit, Kill, FailWith, Gone
  <2>2. ASSUME NEW c \in Commands, Start(p, c) PROVE Forget(p) \/ inflight' = inflight
    BY <2>2 DEF Start, SetRejected, FailWith, memory
  <2>3. ASSUME \/ Check(p) \/ PickDrive(p) \/ \E d \in Sides : EnsureDir(p, d) \/ ListCall(p, d) \/ ReadonlyCall(p, d)
               \/ PreHook(p) \/ DropGuard(p) \/ PruneDone(p) \/ RestoreTo(p)
               \/ TakeSnapshot(p) \/ SealReceive(p) \/ Schedule(p) \/ Delete(p)
        PROVE  inflight' = inflight
    BY <2>3 DEF Check, PickDrive, EnsureDir, ListCall, ReadonlyCall, PreHook, DropGuard, PruneDone,
                RestoreTo, TakeSnapshot, SealReceive, Schedule, Delete, memory
  <2> QED
    BY <2>1, <2>2, <2>3 DEF ProcStep
<1>4. CASE Forget(p)
  <2>1. inflight'[p] = None
    BY <1>4, ForgetTyped DEF Typed
  <2> QED
    BY <2>1
<1> QED
  BY <1>1, <1>2, <1>3, <1>4

LEMMA ListedAtIs ==
  ASSUME NEW c, c.kind \in Kinds, c.set \in BOOLEAN
  PROVE  ListedAt(c) \in {0, 5, 6, 10, 11} /\ (c.kind = "run" => ListedAt(c) \in {10, 11})
BY DEF ListedAt

(* Before the last listing call nothing is learnt of the target.           *)
LEMMA TargetUnread ==
  ASSUME Typed, NEW p \in Procs, ProcStep(p), phase[p] = "running", at[p] < ListedAt(command[p])
  PROVE  listed'[p].target \in {listed[p].target, {}}
<1>1. StepFacts(command[p], at[p]) /\ ListedAt(command[p]) \in Nat /\ at[p] \in Nat
  BY RunningFacts, ListedAtIs DEF Typed
<1>2. Step(p) \notin {"readonly_target", "seal"}
  BY <1>1 DEF StepFacts, Step
<1>3. ASSUME \/ RefuseRawRemote(p) \/ Fail(p) \/ ReceiveFails(p) \/ \E d \in Sides : Declined(p, d)
             \/ PostHook(p) \/ Exit(p) \/ Kill(p)
      PROVE  listed'[p].target = {}
  <2>1. Forget(p)
    BY <1>3 DEF RefuseRawRemote, Fail, ReceiveFails, Declined, PostHook, Exit, Kill, FailWith, Gone
  <2> QED
    BY <2>1, ForgetTyped DEF Typed, NothingListed
<1>4. ASSUME \/ Check(p) \/ PickDrive(p) \/ \E d \in Sides : EnsureDir(p, d) \/ ListCall(p, d)
             \/ PreHook(p) \/ DropGuard(p) \/ PruneDone(p) \/ RestoreTo(p)
             \/ BeginReceive(p) \/ Schedule(p) \/ Delete(p)
      PROVE  listed' = listed
  BY <1>4 DEF Check, PickDrive, EnsureDir, ListCall, PreHook, DropGuard, PruneDone,
              RestoreTo, BeginReceive, Schedule, Delete, memory
<1>5. ASSUME NEW d \in Sides, ReadonlyCall(p, d) PROVE listed'[p].target = listed[p].target
  <2>1. d = "source"
    BY <1>2, <1>5 DEF ReadonlyCall, Running, Sides
  <2>2. \A other \in Sides \ {d} : listed'[p][other] = listed[p][other]
    BY <1>5, ReadonlyCallRemembered
  <2> QED
    BY <2>1, <2>2 DEF Sides
<1>6. ASSUME TakeSnapshot(p) PROVE listed'[p].target = {}
  BY <1>6, SnapshotRemembered
<1>7. ~SealReceive(p) /\ \A c \in Commands : ~Start(p, c)
  BY <1>2 DEF SealReceive, Running, Start
<1> QED
  BY <1>3, <1>4, <1>5, <1>6, <1>7 DEF ProcStep

(* The last listing call comes right after the call that read the rows.    *)
LEMMA RowsRead ==
  ASSUME Typed, NEW p \in Procs, ListCall(p, "target"), command'[p] = command[p], entry'[p] = entry[p]
  PROVE  RowsHold(p)'
<1> DEFINE f == FsOf(SideOf(p, "target"))
<1>1. /\ rows' = [rows EXCEPT ![p] = Rows(fs[f])] /\ f \in DOMAIN fs
  BY ListCallRemembered DEF Sides
<1>2. UNCHANGED <<fs, next>> /\ f' = f
  BY DEF ListCall, disk, SideOf, EntryOf, FsOf
<1>3. f \in DOMAIN Initially /\ IsFiniteSet(fs[f]) /\ WellNumbered(fs[f], next[f])
  BY <1>1 DEF Typed, DiskTyped
<1>4. rows'[p] = Rows(fs[f])
  BY <1>1 DEF Typed, MemoryTyped
<1> DEFINE row(s) == [id |-> s.id, path |-> s.path, received |-> s.received]
           S == fs[f]
<1>5. IsFiniteSet({row(s) : s \in S})
  <2> DEFINE m == [s \in S |-> row(s)]
             T == {row(s) : s \in S}
  <2>1. m \in [S -> T] /\ \A t \in T : \E s \in S : m[s] = t
    OBVIOUS
  <2> HIDE DEF m, T
  <2>2. m \in Surjection(S, T)
    BY <2>1 DEF Surjection
  <2>3. IsFiniteSet(T)
    BY <1>3, <2>2, FS_Surjection
  <2> QED
    BY <2>3 DEF T
<1>6. ASSUME NEW r \in rows'[p]
      PROVE  r.id < next[f] /\ \A t \in fs[f] : t.id = r.id => r.received \in {None, t.received}
  <2>1. PICK s \in fs[f] : r.id = s.id /\ r.received = s.received
    BY <1>4, <1>6 DEF Rows
  <2> QED
    BY <1>3, <2>1 DEF WellNumbered
<1>7. IsFiniteSet(rows'[p])
  BY <1>4, <1>5 DEF Rows
<1> HIDE DEF f
<1> QED
  <2>1. FsOf(SideOf(p, "target"))' = f
    BY <1>2 DEF f
  <2> QED
    BY <1>2, <1>3, <1>6, <1>7, <2>1 DEF RowsHold

(* Where a step that goes on leaves a process.                             *)
LEMMA GoesOn ==
  ASSUME Typed, NEW p \in Procs, ProcStep(p), phase'[p] = "running"
  PROVE  \/ phase[p] = "idle" /\ at'[p] = 1 /\ UNCHANGED memory /\ \E c \in Commands : command'[p] = c
         \/ /\ phase[p] = "running" /\ ListedAt(command'[p]) = ListedAt(command[p])
            /\ \/ at'[p] = 1 /\ Forget(p)
               \/ at'[p] = at[p] + 1 /\ entry'[p] = entry[p] /\ (command'[p] = command[p] \/ PickDrive(p))
               \/ Delete(p) /\ at'[p] = at[p] /\ at[p] > ListedAt(command[p])
<1> DEFINE c == command[p]
           n == Len(Steps(c))
<1> USE DEF Typed
<1>1. CASE \E d \in Commands : Start(p, d)
  <2>1. PICK d \in Commands : Start(p, d)
    BY <1>1
  <2>2. phase[p] = "idle" /\ command'[p] = d /\ Placed(p)
    BY <2>1, StartTyped
  <2>3. UNCHANGED <<at, memory>>
    <3>1. \/ \E e \in Failures : FailWith(p, e)
          \/ UNCHANGED <<at, memory>>
      BY <2>1 DEF Start, SetRejected, Failures
    <3>2. ASSUME NEW e \in Failures, FailWith(p, e) PROVE FALSE
      BY <3>2, FailsTyped
    <3> QED
      BY <3>1, <3>2
  <2> QED
    BY <2>2, <2>3 DEF Placed
<1>2. ~Fails(p) /\ ~DropGuard(p) /\ ~Exit(p) /\ ~Kill(p)
  <2>1. ~Fails(p)
    <3>1. ASSUME NEW e, FailWith(p, e) PROVE phase'[p] = "failing"
      BY <3>1 DEF FailWith, ControlTyped
    <3> QED
      BY <3>1 DEF Fails
  <2> QED
    BY <2>1 DEF DropGuard, Exit, Kill, ControlTyped
<1>3. ASSUME phase[p] = "running"
      PROVE  /\ Parsed(c) /\ c.kind \in Kinds /\ c.set \in BOOLEAN /\ entry[p] \in DOMAIN c.entries
             /\ entry[p] \in 1 .. Len(c.entries)
             /\ n \in 1 .. 16 /\ at[p] \in 1 .. n /\ StepFacts(c, at[p])
             /\ Len(c.entries) > 1 => c.kind = "run"
             /\ c.kind \in Hooked => n > 4
  BY <1>3, RunningFacts, ParsedFacts
<1>4. ASSUME phase[p] = "running", Advance(p)
      PROVE  \/ at'[p] = at[p] + 1 /\ entry'[p] = entry[p] /\ at[p] < n
             \/ at'[p] = 1 /\ at[p] = n /\ c.kind = "run"
  <2>1. \/ at[p] < n /\ phase'[p] = "running" /\ entry'[p] = entry[p] /\ at'[p] = at[p] + 1
        \/ at[p] = n /\ entry[p] < Len(c.entries) /\ at'[p] = 1
        \/ phase'[p] = "failing"
    BY <1>3, <1>4, Advances
  <2>2. entry[p] < Len(c.entries) => Len(c.entries) > 1
    BY <1>3, <1>4, ParsedFacts
  <2> QED
    BY <1>3, <1>4, <2>1, <2>2
<1>5. CASE Passes(p)
  <2>1. phase[p] = "running" /\ Advance(p) /\ command' = command /\ Step(p) # "post_hook"
    BY <1>5 DEF Passes, StepDone
  <2>2. ~(at[p] = n /\ c.kind = "run")
    BY <1>3, <2>1 DEF StepFacts, Step, Hooked
  <2> QED
    BY <1>4, <2>1, <2>2
<1>6. CASE PickDrive(p)
  <2>1. phase[p] = "running" /\ Advance(p) /\ Step(p) = "target"
    BY <1>6 DEF PickDrive, Running
  <2>2. ~(at[p] = n /\ c.kind = "run")
    BY <1>3, <2>1 DEF StepFacts, Step, Hooked
  <2>3. command'[p].kind = c.kind /\ command'[p].set = c.set
    BY <1>6, PickedCommand
  <2>4. ListedAt(command'[p]) = ListedAt(c)
    BY <2>3 DEF ListedAt
  <2> QED
    BY <1>4, <1>6, <2>1, <2>2, <2>4
<1>7. CASE PreHook(p)
  <2>1. phase[p] = "running" /\ Advance(p) /\ command' = command /\ Step(p) = "pre_hook"
    BY <1>7 DEF PreHook, Running
  <2>2. ~(at[p] = n /\ c.kind = "run")
    BY <1>3, <2>1 DEF StepFacts, Step, Hooked
  <2> QED
    BY <1>4, <2>1, <2>2
<1>8. CASE PostHook(p)
  <2>1. /\ phase[p] = "running" /\ command' = command /\ Step(p) = "post_hook" /\ Forget(p)
        /\ Advance(p) \/ phase' = [phase EXCEPT ![p] = "failing"]
    BY <1>8 DEF PostHook, Running
  <2>2. Advance(p)
    BY <2>1 DEF ControlTyped
  <2>3. at[p] = n
    BY <1>3, <2>1 DEF StepFacts, Step
  <2>4. at'[p] = 1
    BY <1>3, <1>4, <2>1, <2>2, <2>3
  <2> QED
    BY <2>1, <2>4
<1>9. CASE Delete(p)
  <2>1. phase[p] = "running" /\ Step(p) = "delete" /\ UNCHANGED control
    BY <1>9 DEF Delete, Running
  <2>2. at[p] > ListedAt(c)
    BY <1>3, <2>1, ListedAtIs DEF StepFacts, Step, DeletedAt
  <2> QED
    BY <1>9, <2>1, <2>2 DEF control
<1> QED
  BY KindsOfStep, <1>1, <1>2, <1>5, <1>6, <1>7, <1>8, <1>9

LEMMA ReadingStep ==
  ASSUME Typed, NEW p \in Procs, Reading(p), ProcStep(p)
  PROVE  Reading(p)'
<1> DEFINE c == command[p]
<1>1. Placed(p) /\ ControlTyped /\ Placed(p)' /\ Typed'
  BY TypedNext DEF Typed, Next
<1>2. phase'[p] # "idle"
  <2>1. ASSUME NEW e, FailWith(p, e) PROVE phase'[p] = "failing"
    BY <1>1, <2>1 DEF FailWith, ControlTyped
  <2>2. ASSUME Advance(p), phase[p] = "running" PROVE phase'[p] \in {"running", "failing"}
    BY <1>1, <2>2 DEF Advance, ControlTyped
  <2>3. ASSUME NEW d \in Commands, Start(p, d) PROVE phase'[p] # "idle"
    BY <1>1, <2>3, StartTyped
  <2>4. ASSUME Fails(p) \/ Passes(p) \/ PickDrive(p) \/ PreHook(p) PROVE phase'[p] # "idle"
    BY <2>1, <2>2, <2>4 DEF Fails, Passes, StepDone, PickDrive, PreHook, Running
  <2>5. ASSUME PostHook(p) PROVE phase'[p] # "idle"
    BY <1>1, <2>2, <2>5 DEF PostHook, Running, ControlTyped
  <2>6. ASSUME DropGuard(p) \/ Exit(p) \/ Kill(p) \/ Delete(p) PROVE phase'[p] # "idle"
    BY <1>1, <2>6 DEF DropGuard, Exit, Kill, Delete, control, Running, ControlTyped
  <2> QED
    BY KindsOfStep, <2>3, <2>4, <2>5, <2>6
<1>3. CASE phase'[p] # "running"
  BY <1>2, <1>3 DEF Reading
<1>4. CASE phase'[p] = "running"
  <2>1. CASE phase[p] = "idle" /\ at'[p] = 1 /\ UNCHANGED memory /\ \E d \in Commands : command'[p] = d
    <3>1. ListedAt(command'[p]) # 1
      <4>1. Parsed(command'[p])
        BY <2>1, CommandLineAssumption
      <4> QED
        BY <4>1, ParsedFacts, ListedAtIs
    <3>2. listed'[p].target = {}
      BY <2>1 DEF Reading, memory
    <3> QED
      BY <1>2, <2>1, <3>1, <3>2 DEF Reading
  <2>2. ASSUME phase[p] = "running", ListedAt(command'[p]) = ListedAt(c)
        PROVE  /\ ListedAt(c) \in {0, 5, 6, 10, 11} /\ at[p] \in Nat \ {0} /\ StepFacts(c, at[p])
    BY <1>1, <2>2, RunningFacts, ListedAtIs
  <2>3. CASE /\ phase[p] = "running" /\ ListedAt(command'[p]) = ListedAt(c)
             /\ at'[p] = 1 /\ Forget(p)
    <3>1. listed'[p].target = {}
      BY <2>3, ForgetTyped DEF Typed, NothingListed
    <3>2. at'[p] # ListedAt(command'[p])
      BY <2>2, <2>3
    <3> QED
      BY <1>2, <3>1, <3>2 DEF Reading
  <2>4. CASE /\ phase[p] = "running" /\ ListedAt(command'[p]) = ListedAt(c)
             /\ Delete(p) /\ at'[p] = at[p] /\ at[p] > ListedAt(c)
    <3>1. ~(at'[p] <= ListedAt(command'[p])) /\ at'[p] # ListedAt(command'[p])
      BY <2>2, <2>4
    <3> QED
      BY <1>2, <3>1 DEF Reading
  <2>5. CASE /\ phase[p] = "running" /\ ListedAt(command'[p]) = ListedAt(c)
             /\ at'[p] = at[p] + 1 /\ entry'[p] = entry[p] /\ (command'[p] = c \/ PickDrive(p))
    <3>1. at'[p] <= ListedAt(command'[p]) => listed'[p].target = {}
      <4> SUFFICES ASSUME at'[p] <= ListedAt(command'[p]) PROVE listed'[p].target = {}
        OBVIOUS
      <4>1. at[p] < ListedAt(c)
        BY <2>2, <2>5
      <4>2. listed[p].target = {}
        BY <2>2, <2>5, <4>1 DEF Reading
      <4> QED
        BY <2>5, <4>1, <4>2, TargetUnread
    <3>2. ASSUME at'[p] = ListedAt(command'[p]) PROVE RowsHold(p)'
      <4>1. at[p] = ListedAt(c) - 1
        BY <2>2, <2>5, <3>2
      <4>2. Step(p) = "list_target"
        BY <2>2, <2>5, <4>1 DEF StepFacts, Step
      <4>3. ListCall(p, "target")
        <5>1. ~FailWith(p, Plain) /\ \A e \in Failures : ~FailWith(p, e)
          BY <1>1, <1>4, FailsTyped DEF Failures
        <5>2. ~Fail(p)
          BY <5>1, StepErrors DEF Fail, Failures
        <5>3. ~Kill(p)
          BY <1>1, <1>4 DEF Kill, ControlTyped
        <5>4. /\ ~Check(p) /\ ~PickDrive(p) /\ ~RefuseRawRemote(p) /\ ~PreHook(p) /\ ~PostHook(p)
              /\ \A d \in Sides : ~EnsureDir(p, d) /\ ~Declined(p, d) /\ ~ReadonlyCall(p, d)
          BY <4>2 DEF Check, PickDrive, RefuseRawRemote, PreHook, PostHook, EnsureDir, Declined,
                      ReadonlyCall, Running, Sides
        <5>5. /\ ~DropGuard(p) /\ ~Exit(p) /\ \A d \in Commands : ~Start(p, d)
          BY <2>5 DEF DropGuard, Exit, Start
        <5>6. /\ ~TakeSnapshot(p) /\ ~BeginReceive(p) /\ ~SealReceive(p) /\ ~ReceiveFails(p)
              /\ ~Schedule(p) /\ ~Delete(p) /\ ~PruneDone(p) /\ ~RestoreTo(p) /\ ~ListCall(p, "source")
          BY <4>2 DEF TakeSnapshot, BeginReceive, SealReceive, ReceiveFails, Schedule, Delete,
                      PruneDone, RestoreTo, ListCall, Running
        <5> QED
          BY <5>2, <5>3, <5>4, <5>5, <5>6 DEF ProcStep, Sides
      <4>4. ~PickDrive(p)
        BY <4>2 DEF PickDrive, Running
      <4> QED
        BY <2>5, <4>3, <4>4, RowsRead
    <3> QED
      BY <1>2, <3>1, <3>2 DEF Reading
  <2> QED
    BY <1>4, <2>1, <2>3, <2>4, <2>5, GoesOn
<1> QED
  BY <1>3, <1>4

LEMMA ReadNext ==
  ASSUME Typed, ReadInv, [Next]_vars
  PROVE  ReadInv'
<1>1. CASE UNCHANGED vars
  <2>1. UNCHANGED <<phase, command, entry, at, fs, next, rows, listed, inflight>>
    BY <1>1 DEF vars, control, disk, memory
  <2>2. \A p \in Procs : FsOf(SideOf(p, "target"))' = FsOf(SideOf(p, "target"))
    BY <2>1 DEF SideOf, EntryOf, FsOf
  <2>3. \A p \in Procs : RowsHold(p)' = RowsHold(p)
    BY <2>1, <2>2 DEF RowsHold
  <2>4. \A p \in Procs : ReceiveHolds(p)' = ReceiveHolds(p)
    BY <2>1 DEF ReceiveHolds
  <2> QED
    BY <2>1, <2>3, <2>4 DEF ReadInv, Reading
<1>2. ASSUME NEW p \in Procs, ProcStep(p) PROVE ReadInv'
  <2>1. Reading(p)' /\ (inflight'[p] # None => ReceiveHolds(p)')
    BY <1>2, ReadingStep, ReceiveStep DEF ReadInv
  <2>2. ASSUME NEW q \in Procs, q # p
        PROVE  Reading(q)' /\ (inflight'[q] # None => ReceiveHolds(q)')
    <3>1. SameControl(q) /\ SameMemory(q)
      BY <1>2, <2>2, OthersKeepControl, OthersKeepMemory DEF Typed
    <3>2. FsOf(SideOf(q, "target"))' = FsOf(SideOf(q, "target"))
      BY <3>1 DEF SameControl, FsOf, SideOf, EntryOf
    <3>3. RowsHold(q) => RowsHold(q)'
      BY <1>2, <3>1, <3>2, RowsKeepHolding DEF ReadInv, SameMemory
    <3>4. inflight'[q] # None => ReceiveHolds(q)'
      BY <1>2, <3>1, ReceiveKeepsHolding DEF ReadInv, SameMemory
    <3>5. Reading(q)'
      BY <3>1, <3>3 DEF ReadInv, Reading, SameControl, SameMemory
    <3> QED
      BY <3>4, <3>5
  <2> QED
    BY <2>1, <2>2 DEF ReadInv
<1> QED
  BY <1>1, <1>2 DEF Next

LEMMA ReadAlways == Spec => [](Typed /\ ReadInv)
<1>1. Init => ReadInv
  BY DEF Init, ReadInv, Reading, NothingListed
<1> QED
  BY <1>1, TypedInit, TypedNext, ReadNext, PTL DEF Spec

(* Counting by sorts: two that share nothing, and the rest.                *)
LEMMA EachCountedOnce ==
  ASSUME NEW M, NEW C, NEW I, IsFiniteSet(M), C \subseteq M, I \subseteq M, C \cap I = {}
  PROVE  Cardinality(C) + Cardinality(M \ (C \cup I)) + Cardinality(I) = Cardinality(M)
<1> DEFINE O == M \ (C \cup I)
           U == C \cup I
<1>1. IsFiniteSet(C) /\ IsFiniteSet(I) /\ IsFiniteSet(O)
  BY FS_Subset
<1>2. /\ Cardinality(C) \in Nat /\ Cardinality(I) \in Nat /\ Cardinality(O) \in Nat
  BY <1>1, FS_CardinalityType
<1>3. ASSUME NEW S, S = {} PROVE Cardinality(S) = 0
  BY <1>3, FS_EmptySet
<1>4. Cardinality(U) = Cardinality(C) + Cardinality(I) - Cardinality(C \cap I) /\ IsFiniteSet(U)
  BY <1>1, FS_Union
<1>5. O \cap U = {} /\ O \cup U = M
  OBVIOUS
<1> HIDE DEF O, U
<1>6. Cardinality(O \cup U) = Cardinality(O) + Cardinality(U) - Cardinality(O \cap U)
  BY <1>1, <1>4, FS_Union
<1>7. Cardinality(C \cap I) = 0 /\ Cardinality(O \cap U) = 0
  BY <1>3, <1>5
<1>8. Cardinality(U) = Cardinality(C) + Cardinality(I)
  BY <1>2, <1>4, <1>7
<1>9. Cardinality(M) = Cardinality(O) + Cardinality(U)
  <2>1. Cardinality(O \cup U) = Cardinality(M)
    BY <1>5
  <2>2. Cardinality(U) \in Nat
    BY <1>4, FS_CardinalityType
  <2> QED
    BY <1>2, <1>6, <1>7, <2>1, <2>2
<1> QED
  BY <1>2, <1>8, <1>9 DEF O, U

(* What a listing shows comes from a row.                                  *)
LEMMA ListedFromRows ==
  ASSUME NEW h, NEW dir, NEW found, NEW readonly
  PROVE  /\ \A b \in Listed(h, dir, found, readonly) :
              \E r \in found : b.id = r.id /\ b.received = r.received /\ b.readonly = (b.id \in readonly)
         /\ IsFiniteSet(found) => IsFiniteSet(Listed(h, dir, found, readonly))
<1> DEFINE m == ContainingMount(h, dir)
           shown(r) == [id |-> r.id, received |-> r.received, readonly |-> r.id \in readonly,
                        path |-> m.at \o MountpointRelative(r.path, m.subvol)]
           merged == {shown(r) : r \in found}
<1>1. Listed(h, dir, found, readonly) = {s \in merged : s.path # <<>> /\ Parent(s.path) = dir}
  BY DEF Listed
<1>2. \A r : /\ shown(r).id = r.id /\ shown(r).received = r.received
             /\ shown(r).readonly = (r.id \in readonly)
  OBVIOUS
<1>3. IsFiniteSet(found) => IsFiniteSet(merged)
  <2> DEFINE f == [r \in found |-> shown(r)]
  <2>1. f \in [found -> merged] /\ \A t \in merged : \E s \in found : f[s] = t
    OBVIOUS
  <2> HIDE DEF f, merged
  <2>2. f \in Surjection(found, merged)
    BY <2>1 DEF Surjection
  <2> QED
    BY <2>2, FS_Surjection
<1> HIDE DEF shown
<1>4. IsFiniteSet(merged) => IsFiniteSet(Listed(h, dir, found, readonly))
  BY <1>1, FS_Subset
<1>5. ASSUME NEW b \in Listed(h, dir, found, readonly)
      PROVE  \E r \in found : b.id = r.id /\ b.received = r.received /\ b.readonly = (b.id \in readonly)
  <2>1. PICK r \in found : b = shown(r)
    BY <1>1
  <2> QED
    BY <1>2, <2>1
<1> QED
  BY <1>3, <1>4, <1>5

TrueOf(p) ==
  LET onTarget == fs[FsOf(SideOf(p, "target"))]
  IN  /\ \A s \in Managed(p, "source")' : BackupsOf(p, s)' # {} =>
           \E t \in onTarget : t.readonly /\ t.received = Leaf(s.path)
      /\ \A b \in Incomplete(p)' : \A t \in onTarget : t.id = b.id => ~t.readonly
      /\ StatsBackups(p)' = Cardinality(Managed(p, "target")')

LEMMA LastCallShowsTheTruth ==
  ASSUME Typed, ReadInv, Typed', NEW p \in Procs, ReadonlyCall(p, "target")
  PROVE  TrueOf(p)
<1> DEFINE d == SideOf(p, "target")
           f == FsOf(d)
           readonly == ReadonlyIds(fs[f])
           found == Listed(d.host, d.dir, rows[p], readonly)
<1>1. phase[p] = "running" /\ Step(p) = "readonly_target" /\ UNCHANGED fs
  BY DEF ReadonlyCall, Running, disk
<1>2. at[p] = ListedAt(command[p])
  BY <1>1, RunningFacts DEF StepFacts, Step, Typed
<1>3. RowsHold(p) /\ listed[p].target = {}
  <2>1. at[p] <= ListedAt(command[p])
    <3>1. at[p] \in Nat
      BY DEF Typed, ControlTyped
    <3> QED
      BY <1>2, <3>1
  <2> QED
    BY <1>1, <1>2, <2>1 DEF ReadInv, Reading
<1>4. listed'[p].target = found
  <2>1. listed'[p]["target"] = found \cup {r \in listed[p]["target"] : \A x \in found : x.id # r.id}
    BY ReadonlyCallRemembered DEF Sides
  <2> QED
    BY <1>3, <2>1
<1> HIDE DEF d
<1>5. /\ \A b \in found : \E r \in rows[p] : b.id = r.id /\ b.received = r.received /\ b.readonly = (b.id \in readonly)
      /\ IsFiniteSet(found)
  BY <1>3, ListedFromRows DEF RowsHold, d
<1>6. fs[f] \subseteq Subvol
  BY <1>3 DEF RowsHold, Typed, DiskTyped, WellNumbered, d
<1>7. \A i : i \in readonly <=> \E t \in fs[f] : t.readonly /\ t.id = i
  BY DEF ReadonlyIds
<1> HIDE DEF found, readonly
<1>8. Managed(p, "target")' = {r \in found : IsNamed(r)}
  BY <1>4 DEF Managed, IsNamed
<1>9. ASSUME NEW s \in Managed(p, "source")', BackupsOf(p, s)' # {}
      PROVE  \E t \in fs[f] : t.readonly /\ t.received = Leaf(s.path)
  <2>1. PICK b \in found : b.readonly /\ b.received = Leaf(s.path)
    BY <1>8, <1>9 DEF BackupsOf, Correlates
  <2>2. PICK t \in fs[f] : t.readonly /\ t.id = b.id
    BY <1>5, <1>7, <2>1
  <2>3. PICK r \in rows[p] : b.id = r.id /\ b.received = r.received
    BY <1>5
  <2>4. r.received \in {None, t.received}
    BY <1>3, <2>2, <2>3 DEF RowsHold, d
  <2>5. Leaf(s.path) # None
    <3>1. s \in listed'[p].source
      BY <1>9 DEF Managed
    <3>2. s.path \in Place
      BY <3>1 DEF Typed, MemoryTyped, Known, Subvol, Place
    <3> QED
      BY <3>2, LeafTyped, CommandLineAssumption
  <2> QED
    BY <2>1, <2>2, <2>3, <2>4, <2>5
<1>10. ASSUME NEW b \in Incomplete(p)', NEW t \in fs[f], t.id = b.id PROVE ~t.readonly
  <2>1. b \in found /\ ~b.readonly
    BY <1>8, <1>10 DEF Incomplete
  <2>2. b.id \notin readonly
    BY <1>5, <2>1
  <2> QED
    BY <1>7, <1>10, <2>2
<1>11. StatsBackups(p)' = Cardinality(Managed(p, "target")')
  <2> DEFINE M == Managed(p, "target")'
             C == Correlated(p)'
             I == Incomplete(p)'
  <2>1. IsFiniteSet(M)
    BY <1>5, <1>8, FS_Subset
  <2>2. C \subseteq M /\ I \subseteq M
    BY DEF Correlated, BackupsOf, Incomplete
  <2>3. C \cap I = {}
    BY DEF Correlated, BackupsOf, Correlates, Incomplete
  <2>4. StatsBackups(p)' = Cardinality(C) + Cardinality(M \ (C \cup I)) + Cardinality(I)
    BY DEF StatsBackups, Orphans
  <2> HIDE DEF M, C, I
  <2>5. Cardinality(C) + Cardinality(M \ (C \cup I)) + Cardinality(I) = Cardinality(M)
    BY <2>1, <2>2, <2>3, EachCountedOnce
  <2> QED
    BY <2>4, <2>5 DEF M
<1> QED
  BY <1>9, <1>10, <1>11 DEF TrueOf, d

(* What list and stats show once the last call has returned is true at     *)
(* that moment, whatever other processes did between the two calls.        *)
THEOREM InventoriesAreTrue == Spec => InventoryIsTrue
<1>1. ASSUME Typed, ReadInv, [Next]_vars,
             NEW p \in Procs, Running(p, "readonly_target"), listed'[p] # listed[p]
      PROVE  TrueOf(p)
  <2>1. PICK q \in Procs : ProcStep(q)
    BY <1>1 DEF Next, vars, memory
  <2>2. q = p
    BY <1>1, <2>1, OthersKeepMemory DEF SameMemory
  <2>3. Typed'
    BY <1>1, TypedNext
  <2>4. CASE ReadonlyCall(p, "target")
    BY <1>1, <2>3, <2>4, LastCallShowsTheTruth
  <2>5. CASE ~ReadonlyCall(p, "target")
    <3>1. Step(p) = "readonly_target" /\ phase[p] = "running"
      BY <1>1 DEF Running
    <3>2. Fail(p) \/ Kill(p)
      <4>1. /\ ~RefuseRawRemote(p) /\ ~PostHook(p) /\ ~TakeSnapshot(p) /\ ~SealReceive(p) /\ ~ReceiveFails(p)
            /\ ~Exit(p) /\ \A c \in Commands : ~Start(p, c)
            /\ \A e \in Sides : ~Declined(p, e)
        BY <3>1 DEF RefuseRawRemote, PostHook, TakeSnapshot, SealReceive, ReceiveFails, Exit, Start, Declined,
                    Running, Sides
      <4>2. ~ReadonlyCall(p, "source")
        BY <3>1 DEF ReadonlyCall, Running
      <4>3. ASSUME \/ Check(p) \/ PickDrive(p) \/ \E e \in Sides : EnsureDir(p, e) \/ ListCall(p, e)
                   \/ PreHook(p) \/ DropGuard(p) \/ PruneDone(p) \/ RestoreTo(p)
                   \/ BeginReceive(p) \/ Schedule(p) \/ Delete(p)
            PROVE  FALSE
        <5>1. listed' = listed
          BY <4>3 DEF Check, PickDrive, EnsureDir, ListCall, PreHook, DropGuard, PruneDone,
                      RestoreTo, BeginReceive, Schedule, Delete, memory
        <5> QED
          BY <1>1, <5>1
      <4> QED
        BY <2>1, <2>2, <2>5, <4>1, <4>2, <4>3 DEF ProcStep, Sides
    <3>3. Forget(p)
      BY <3>2 DEF Fail, Kill, FailWith, Gone
    <3>4. listed'[p].target = {}
      BY <1>1, <3>3, ForgetTyped DEF Typed, NothingListed
    <3>5. Incomplete(p)' = {} /\ (\A s : BackupsOf(p, s)' = {}) /\ Managed(p, "target")' = {}
      BY <3>4 DEF Managed, Incomplete, BackupsOf
    <3>6. Correlated(p)' = {} /\ Orphans(p)' = {}
      BY <3>5 DEF Correlated, Orphans
    <3>7. StatsBackups(p)' = Cardinality(Managed(p, "target")')
      BY <3>5, <3>6, FS_EmptySet DEF StatsBackups
    <3> QED
      BY <3>5, <3>7 DEF TrueOf
  <2> QED
    BY <2>4, <2>5
<1>2. ASSUME Typed, ReadInv, [Next]_vars
      PROVE  \A p \in Procs : Running(p, "readonly_target") /\ listed'[p] # listed[p] => TrueOf(p)
  BY <1>1, <1>2
<1> QED
  BY <1>2, ReadAlways, PTL DEF Spec, InventoryIsTrue, TrueOf

-----------------------------------------------------------------------------
(* Layouts                                                                 *)

(* The directories of a command under way are those of a command given.    *)
AtHome(p) ==
  phase[p] # "idle" => \A i \in DOMAIN command[p].entries : \E e \in Entries :
    /\ command[p].entries[i].snapshots = e.snapshots
    /\ command[p].entries[i].target \in TargetsOf(e) \cup {e.target}

(* No subvolume is listed where it is not.                                 *)
Honest ==
  \A d \in Homes : FsOf(d) \in DOMAIN Initially =>
    \A s \in fs[FsOf(d)] : Distinct(d, Parent(s.path))

There(f, i) == \E s \in fs[f] : s.id = i
Fixed(f, i, path) == i < next[f] /\ \A s \in fs[f] : s.id = i => s.path = path

(* Where the rows of a side's first call are merged.                       *)
ReadAt(c, side) == IF side = "source" THEN ListedAt(c) - 2 ELSE ListedAt(c)

RowsLead(p, side) ==
  LET d == SideOf(p, side)
  IN  /\ FsOf(d) \in DOMAIN Initially
      /\ \A r \in rows[p] : Fixed(FsOf(d), r.id, r.path) /\ Distinct(d, Parent(r.path))
      /\ \A r, t \in rows[p] : r.id = t.id => r = t

Leads(d, r) ==
  /\ d \in Homes /\ FsOf(d) \in DOMAIN Initially
  /\ r.path = d.dir \o <<Leaf(r.path)>>
  /\ Fixed(FsOf(d), r.id, BaseOf(d) \o <<Leaf(r.path)>>)

OneEach(p, side) == \A r, t \in listed[p][side] : r.id = t.id => r = t

SealLeads(p) ==
  inflight[p] # None =>
    /\ Leads(SideOf(p, "target"), inflight[p]) /\ inflight[p].fs = FsOf(SideOf(p, "target"))
    /\ \A r \in listed[p].target : r.id # inflight[p].id

ListedLead(p, side) ==
  OneEach(p, side) /\ \A r \in listed[p][side] : Leads(SideOf(p, side), r)

LeadsBack(p) ==
  /\ AtHome(p)
  /\ phase[p] = "idle" => listed[p] = NothingListed
  /\ \A side \in Sides : ListedLead(p, side)
  /\ phase[p] = "running" =>
       /\ \A side \in Sides : at[p] = ReadAt(command[p], side) => RowsLead(p, side)
       /\ Step(p) = "seal" => SealLeads(p)

LeadInv == Honest /\ \A p \in Procs : LeadsBack(p)

Locked(p) == phase[p] = "running" /\ Mutates(command[p]) => holder[LockOf[p]] = p

StillThere(p) ==
  phase[p] = "running" /\ Mutates(command[p]) =>
    \A side \in Sides :
      LET f == FsOf(SideOf(p, side))
      IN  /\ at[p] = ReadAt(command[p], side) => \A r \in rows[p] : There(f, r.id)
          /\ at[p] < DeletedAt(command[p]) => \A r \in listed[p][side] : There(f, r.id)
          /\ at[p] = DeletedAt(command[p]) =>
               \A r \in doomed[p][side] : r \in listed[p][side] /\ There(f, r.id)

LockInv == \A p \in Procs : Locked(p) /\ StillThere(p)

-----------------------------------------------------------------------------
(* Paths and prefixes                                                      *)

LEMMA PrefixIs ==
  ASSUME NEW s \in Seq(STRING), NEW t \in Seq(STRING)
  PROVE  IsPrefix(s, t) <=> Len(s) <= Len(t) /\ \A i \in 1 .. Len(s) : s[i] = t[i]
<1>1. Len(s) \in Nat /\ Len(t) \in Nat
  BY LenProperties
<1>2. SubSeq(s, 1, Len(s)) = s
  BY SubSeqFull
<1>3. ASSUME Len(s) <= Len(t)
      PROVE  /\ SubSeq(t, 1, Len(s)) \in Seq(STRING) /\ Len(SubSeq(t, 1, Len(s))) = Len(s)
             /\ \A i \in 1 .. Len(s) : SubSeq(t, 1, Len(s))[i] = t[i]
  <2>1. \A i \in 1 .. Len(s) : t[i] \in STRING
    BY <1>1, <1>3, ElementOfSeq
  <2> QED
    BY <1>1, <2>1, SubSeqProperties
<1>4. ASSUME Len(s) <= Len(t), \A i \in 1 .. Len(s) : s[i] = t[i] PROVE SubSeq(t, 1, Len(s)) = s
  BY <1>3, <1>4, SeqEqual
<1>5. ASSUME Len(s) <= Len(t), SubSeq(t, 1, Len(s)) = s PROVE \A i \in 1 .. Len(s) : s[i] = t[i]
  BY <1>3, <1>5
<1> QED
  BY <1>2, <1>4, <1>5 DEF IsPrefix

LEMMA RestOfJoin ==
  ASSUME NEW s \in Seq(STRING), NEW t \in Seq(STRING)
  PROVE  IsPrefix(s, s \o t) /\ Rest(s, s \o t) = t
<1>1. /\ s \o t \in Seq(STRING) /\ Len(s \o t) = Len(s) + Len(t)
      /\ \A i \in 1 .. Len(s) + Len(t) : (s \o t)[i] = IF i <= Len(s) THEN s[i] ELSE t[i - Len(s)]
  BY ConcatProperties
<1>2. Len(s) \in Nat /\ Len(t) \in Nat
  BY LenProperties
<1> DEFINE u == s \o t
           r == SubSeq(u, Len(s) + 1, Len(u))
<1>3. \A i \in Len(s) + 1 .. Len(u) : u[i] \in STRING
  BY <1>1, <1>2, ElementOfSeq
<1> HIDE DEF u
<1>4. Len(u) = Len(s) + Len(t) /\ u \in Seq(STRING)
  BY <1>1 DEF u
<1>5. /\ r \in Seq(STRING) /\ Len(r) = Len(t)
      /\ \A i \in 1 .. Len(t) : r[i] = u[Len(s) + i]
  <2>1. /\ r \in Seq(STRING)
        /\ Len(r) = IF Len(s) + 1 <= Len(u) THEN Len(u) - (Len(s) + 1) + 1 ELSE 0
        /\ \A i \in 1 .. Len(u) - (Len(s) + 1) + 1 : r[i] = u[(Len(s) + 1) + i - 1]
    BY <1>2, <1>3, <1>4, SubSeqProperties
  <2> HIDE DEF r
  <2>2. Len(u) - (Len(s) + 1) + 1 = Len(t)
    BY <1>2, <1>4
  <2>3. Len(r) = Len(t)
    BY <1>2, <1>4, <2>1, <2>2
  <2>4. \A i \in 1 .. Len(t) : (Len(s) + 1) + i - 1 = Len(s) + i
    BY <1>2
  <2>5. \A i \in 1 .. Len(t) : r[i] = u[(Len(s) + 1) + i - 1]
    BY <2>1, <2>2
  <2>6. \A i \in 1 .. Len(t) : r[i] = u[Len(s) + i]
    BY <2>4, <2>5
  <2> QED
    BY <2>1, <2>3, <2>6
<1>6. \A i \in 1 .. Len(t) : u[Len(s) + i] = t[i]
  BY <1>1, <1>2 DEF u
<1>7. r = t
  <2> HIDE DEF r
  <2> QED
    BY <1>5, <1>6, SeqEqual
<1>8. IsPrefix(s, u)
  <2>1. Len(s) <= Len(u) /\ \A i \in 1 .. Len(s) : s[i] = u[i]
    BY <1>1, <1>2, <1>4 DEF u
  <2> QED
    BY <1>4, <2>1, PrefixIs
<1> QED
  BY <1>7, <1>8 DEF Rest, u

LEMMA PrefixJoins ==
  ASSUME NEW s \in Seq(STRING), NEW t \in Seq(STRING), IsPrefix(s, t)
  PROVE  t = s \o Rest(s, t) /\ Rest(s, t) \in Seq(STRING)
<1>1. Len(s) \in Nat /\ Len(t) \in Nat
  BY LenProperties
<1>2. Len(s) <= Len(t) /\ SubSeq(t, 1, Len(s)) = s
  BY SubSeqFull DEF IsPrefix
<1>3. CASE t = <<>>
  <2>1. Len(t) = 0
    BY <1>3
  <2>2. Len(s) = 0
    BY <1>1, <1>2, <2>1
  <2>3. s = <<>>
    BY <2>2, EmptySeq
  <2>4. Rest(s, t) = <<>>
    <3>1. Len(s) + 1 \in Int /\ Len(t) \in Int /\ Len(t) < Len(s) + 1
      BY <1>1, <2>1, <2>2
    <3> QED
      BY <3>1, SubSeqEmpty DEF Rest
  <2>5. <<>> \in Seq(STRING) /\ s \o <<>> = s
    BY <2>3, ConcatEmptySeq
  <2> QED
    BY <1>3, <2>3, <2>4, <2>5, Zenon
<1>4. CASE t # <<>>
  <2>1. SubSeq(t, 1, Len(s)) \o SubSeq(t, Len(s) + 1, Len(t)) = SubSeq(t, 1, Len(t))
    <3>1. 1 \in 1 .. Len(t) + 1 /\ Len(s) \in 1 - 1 .. Len(t) /\ Len(t) \in Len(s) .. Len(t)
      BY <1>1, <1>2
    <3> QED
      BY <3>1, ConcatAdjacentSubSeq, Zenon
  <2> QED
    BY <1>2, <2>1, SubSeqFull, RestTyped DEF Rest
<1> QED
  BY <1>3, <1>4

LEMMA ParentOfJoin ==
  ASSUME NEW dir \in Seq(STRING), NEW x \in STRING
  PROVE  Parent(dir \o <<x>>) = dir /\ Leaf(dir \o <<x>>) = x
<1>1. <<x>> \in Seq(STRING) /\ Len(<<x>>) = 1 /\ <<x>>[1] = x
  BY OneAlone, Zenon
<1>2. /\ dir \o <<x>> \in Seq(STRING) /\ Len(dir \o <<x>>) = Len(dir) + 1
      /\ \A i \in 1 .. Len(dir) + 1 : (dir \o <<x>>)[i] = IF i <= Len(dir) THEN dir[i] ELSE <<x>>[i - Len(dir)]
  BY <1>1, ConcatProperties, Zenon
<1>3. Len(dir) \in Nat
  BY LenProperties
<1> DEFINE u == dir \o <<x>>
<1>4. u[Len(dir) + 1] = x
  <2>1. Len(dir) + 1 \in 1 .. Len(dir) + 1 /\ ~(Len(dir) + 1 <= Len(dir)) /\ (Len(dir) + 1) - Len(dir) = 1
    BY <1>3
  <2>2. u[Len(dir) + 1] = <<x>>[(Len(dir) + 1) - Len(dir)]
    BY <1>2, <2>1
  <2> QED
    BY <1>1, <2>1, <2>2
<1>5. IsPrefix(dir, u)
  BY <1>1, RestOfJoin, Zenon
<1>6. SubSeq(u, 1, Len(dir)) = dir
  BY <1>5, SubSeqFull DEF IsPrefix
<1>7. Len(u) - 1 = Len(dir) /\ Len(u) = Len(dir) + 1
  BY <1>2, <1>3
<1> HIDE DEF u
<1> QED
  BY <1>4, <1>6, <1>7, Zenon DEF Parent, Leaf, u

LEMMA ParentAndLeaf ==
  ASSUME NEW path \in Place
  PROVE  /\ Parent(path) \in Seq(STRING) /\ Leaf(path) \in STRING
         /\ path = Parent(path) \o <<Leaf(path)>>
<1>1. path \in Seq(STRING) /\ Len(path) \in Nat \ {0}
  BY EmptySeq DEF Place
<1> DEFINE n == Len(path)
<1>2. SubSeq(path, 1, n) = SubSeq(path, 1, n - 1) \o <<path[n]>>
  <2>1. 1 \in 1 .. n /\ n \in 1 .. n
    BY <1>1
  <2> QED
    BY <1>1, <2>1, SubSeqRecursiveSecond
<1>3. SubSeq(path, 1, n) = path
  BY <1>1, SubSeqFull
<1>4. SubSeq(path, 1, n - 1) \in Seq(STRING)
  <2>1. \A i \in 1 .. n - 1 : path[i] \in STRING
    BY <1>1, ElementOfSeq
  <2>2. n - 1 \in Int
    BY <1>1
  <2> HIDE DEF n
  <2> QED
    BY <2>1, <2>2, SubSeqProperties
<1> QED
  BY <1>2, <1>3, <1>4, LeafTyped, Zenon DEF Parent, Leaf

LEMMA ParentOfLonger ==
  ASSUME NEW dir \in Seq(STRING), NEW path \in Place
  PROVE  Parent(dir \o path) = dir \o Parent(path) /\ Leaf(dir \o path) = Leaf(path)
<1>1. /\ Parent(path) \in Seq(STRING) /\ Leaf(path) \in STRING
      /\ path = Parent(path) \o <<Leaf(path)>>
  BY ParentAndLeaf
<1> DEFINE a == Parent(path)
           x == Leaf(path)
<1>2. <<x>> \in Seq(STRING)
  BY <1>1, OneAlone
<1>3. dir \o (a \o <<x>>) = (dir \o a) \o <<x>>
  BY <1>1, <1>2, ConcatAssociative
<1>4. dir \o a \in Seq(STRING)
  BY <1>1, JoinTyped
<1> QED
  BY <1>1, <1>3, <1>4, ParentOfJoin, Zenon

LEMMA PrefixBelow ==
  ASSUME NEW s \in Seq(STRING), NEW dir \in Seq(STRING), NEW x \in STRING
  PROVE  IsPrefix(s, dir \o <<x>>) <=> IsPrefix(s, dir) \/ s = dir \o <<x>>
<1> DEFINE u == dir \o <<x>>
           n == Len(dir)
<1>1. <<x>> \in Seq(STRING) /\ Len(<<x>>) = 1
  BY OneAlone, Zenon
<1>2. /\ u \in Seq(STRING) /\ Len(u) = n + 1
      /\ \A i \in 1 .. n + 1 : u[i] = IF i <= n THEN dir[i] ELSE <<x>>[i - n]
  BY <1>1, ConcatProperties, Zenon
<1>3. n \in Nat /\ Len(s) \in Nat
  BY LenProperties
<1> HIDE DEF u, n
<1>4. IsPrefix(s, u) <=> Len(s) <= Len(u) /\ \A i \in 1 .. Len(s) : s[i] = u[i]
  BY <1>2, PrefixIs
<1>5. IsPrefix(s, dir) <=> Len(s) <= n /\ \A i \in 1 .. Len(s) : s[i] = dir[i]
  BY PrefixIs DEF n
<1>6. CASE Len(s) <= n
  <2>1. s # u
    BY <1>2, <1>3, <1>6
  <2>2. \A i \in 1 .. Len(s) : u[i] = dir[i]
    BY <1>2, <1>3, <1>6
  <2>3. Len(s) <= Len(u)
    BY <1>2, <1>3, <1>6
  <2> QED
    BY <1>4, <1>5, <1>6, <2>1, <2>2, <2>3, Zenon DEF u
<1>7. CASE ~(Len(s) <= n)
  <2>1. ~IsPrefix(s, dir)
    BY <1>5, <1>7
  <2>2. ASSUME IsPrefix(s, u) PROVE s = u
    <3>1. Len(s) = Len(u)
      BY <1>2, <1>3, <1>4, <1>7, <2>2
    <3> QED
      BY <1>2, <1>4, <2>2, <3>1, SeqEqual
  <2>3. ASSUME s = u PROVE IsPrefix(s, u)
    BY <1>2, <1>3, <1>4, <2>3
  <2> QED
    BY <2>1, <2>2, <2>3, Zenon DEF u
<1> QED
  BY <1>6, <1>7, Zenon

-----------------------------------------------------------------------------
(* Directories and mounts                                                  *)

LEMMA JoinOne ==
  ASSUME NEW s \in Seq(STRING), NEW t \in Seq(STRING), NEW x \in STRING
  PROVE  s \o (t \o <<x>>) = (s \o t) \o <<x>>
<1>1. <<x>> \in Seq(STRING)
  BY OneAlone, Zenon
<1> QED
  BY <1>1, ConcatAssociative

LEMMA MountOver ==
  ASSUME NEW h \in Hosts, NEW lines \in SUBSET DOMAIN MountsOf[h], NEW path \in Seq(STRING)
  PROVE  IsPrefix(LongestMount(MountsOf[h], lines, path).at, path)
<1> DEFINE mounts == MountsOf[h]
           over == {i \in lines : IsPrefix(mounts[i].at, path)}
           best == {i \in over : \A j \in over :
                      \/ Len(mounts[j].at) < Len(mounts[i].at)
                      \/ Len(mounts[j].at) = Len(mounts[i].at) /\ j <= i}
<1>1. LongestMount(mounts, lines, path) = IF best = {} THEN NoMount ELSE mounts[CHOOSE i \in best : TRUE]
  BY DEF LongestMount
<1>2. \A i \in best : IsPrefix(mounts[i].at, path)
  OBVIOUS
<1> HIDE DEF best
<1>3. CASE best = {}
  <2>1. <<>> \in Seq(STRING) /\ Len(<<>>) = 0 /\ Len(path) \in Nat
    BY EmptySeq, LenProperties
  <2>2. IsPrefix(<<>>, path)
    <3> DEFINE none == <<>>
    <3>1. none \in Seq(STRING) /\ Len(none) = 0
      BY <2>1
    <3> HIDE DEF none
    <3>2. Len(none) <= Len(path) /\ \A i \in 1 .. Len(none) : none[i] = path[i]
      BY <2>1, <3>1
    <3> QED
      BY <3>1, <3>2, PrefixIs, Zenon DEF none
  <2> QED
    BY <1>1, <1>3, <2>2 DEF NoMount
<1>4. CASE best # {}
  BY <1>1, <1>2, <1>4
<1> QED
  BY <1>3, <1>4

LEMMA EntriesTyped ==
  ASSUME NEW e \in Entries
  PROVE  e \in Entry
<1>1. PICK c \in Commands : \E i \in DOMAIN c.entries : e = c.entries[i]
  BY DEF Entries
<1>2. Parsed(c)
  BY CommandLineAssumption
<1> QED
  BY <1>1, <1>2, ParsedFacts

LEMMA TargetsTyped ==
  ASSUME NEW e \in Entries, NEW t \in TargetsOf(e)
  PROVE  t.host \in Hosts /\ t.dir \in Seq(STRING)
<1>1. e \in Entry /\ "here" \in Hosts
  BY EntriesTyped, PlacesAssumption
<1>2. CASE e.target = None
  <2>1. PICK m \in Drives : t = [host |-> "here", dir |-> m.at \o <<HostName>>]
    BY <1>2 DEF TargetsOf, Picked
  <2>2. PICK i \in DOMAIN MountsOf["here"] : m = MountsOf["here"][i]
    BY <2>1 DEF Drives, BtrfsMounts
  <2>3. MountsOf["here"] \in Seq(Mount)
    BY <1>1, PlacesAssumption
  <2>4. m \in Mount
    BY <2>2, <2>3, LenProperties, ElementOfSeq
  <2>5. m.at \in Seq(STRING) /\ HostName \in STRING
    BY <2>4, CommandLineAssumption DEF Mount
  <2>6. m.at \o <<HostName>> \in Seq(STRING)
    BY <2>5, BelowTyped DEF Place
  <2> QED
    BY <1>1, <2>1, <2>6
<1>3. CASE e.target # None
  <2>1. t = e.target /\ e.target \in Target
    BY <1>1, <1>3 DEF TargetsOf, Entry
  <2> QED
    BY <2>1 DEF Target
<1> QED
  BY <1>2, <1>3

LEMMA HomesTyped ==
  ASSUME NEW d \in Homes
  PROVE  d.host \in Hosts /\ d.dir \in Seq(STRING)
<1>1. PICK e \in Entries : d = SourceOf(e) \/ d \in TargetsOf(e)
  BY DEF Homes
<1>2. CASE d = SourceOf(e)
  BY <1>2, EntriesTyped, PlacesAssumption DEF SourceOf, Entry
<1> QED
  BY <1>1, <1>2, TargetsTyped

LEMMA BaseTyped ==
  ASSUME NEW d \in Homes
  PROVE  /\ ContainingMount(d.host, d.dir).at \in Seq(STRING)
         /\ ContainingMount(d.host, d.dir).subvol \in Seq(STRING)
         /\ IsPrefix(ContainingMount(d.host, d.dir).at, d.dir)
         /\ d.dir = ContainingMount(d.host, d.dir).at \o Rest(ContainingMount(d.host, d.dir).at, d.dir)
         /\ Rest(ContainingMount(d.host, d.dir).at, d.dir) \in Seq(STRING)
         /\ BaseOf(d) \in Seq(STRING)
<1> DEFINE m == ContainingMount(d.host, d.dir)
<1>1. d.host \in Hosts /\ d.dir \in Seq(STRING)
  BY HomesTyped
<1>2. m.at \in Seq(STRING) /\ m.subvol \in Seq(STRING) /\ IsPrefix(m.at, d.dir)
  BY <1>1, MountTyped, MountOver, Zenon DEF ContainingMount, BtrfsMounts
<1>3. d.dir = m.at \o Rest(m.at, d.dir) /\ Rest(m.at, d.dir) \in Seq(STRING)
  BY <1>1, <1>2, PrefixJoins, Zenon
<1>4. BaseOf(d) \in Seq(STRING)
  BY <1>2, <1>3, JoinTyped DEF BaseOf
<1> QED
  BY <1>2, <1>3, <1>4, Zenon

(* What is in a directory that no mount hides is on its filesystem.        *)
LEMMA PlaceBelow ==
  ASSUME NEW d \in Homes, Unhidden(d), NEW x \in STRING
  PROVE  /\ PlaceOf(d.host, d.dir \o <<x>>).fs = FsOf(d)
         /\ PlaceOf(d.host, d.dir \o <<x>>).path = BaseOf(d) \o <<x>>
<1> DEFINE mounts == MountsOf[d.host]
           path == d.dir \o <<x>>
           m == ContainingMount(d.host, d.dir)
           r == Rest(m.at, d.dir)
<1>1. d.host \in Hosts /\ d.dir \in Seq(STRING) /\ <<x>> \in Seq(STRING)
  BY HomesTyped, OneAlone
<1>2. path \in Place /\ path \in Seq(STRING) /\ Parent(path) = d.dir
  BY <1>1, BelowTyped, ParentOfJoin DEF Place
<1>3. \A i \in DOMAIN mounts : IsPrefix(mounts[i].at, path) <=> IsPrefix(mounts[i].at, d.dir)
  <2> SUFFICES ASSUME NEW i \in DOMAIN mounts
               PROVE  IsPrefix(mounts[i].at, path) <=> IsPrefix(mounts[i].at, d.dir)
    OBVIOUS
  <2>1. mounts \in Seq(Mount)
    BY <1>1, PlacesAssumption
  <2>2. mounts[i] \in Mount
    BY <2>1, LenProperties, ElementOfSeq
  <2>3. mounts[i].at \in Seq(STRING)
    BY <2>2 DEF Mount
  <2>4. mounts[i].at # path
    BY <1>2, Zenon DEF Unhidden, Place
  <2> QED
    BY <1>1, <2>3, <2>4, PrefixBelow
<1>4. LongestMount(mounts, DOMAIN mounts, path) = LongestMount(mounts, DOMAIN mounts, d.dir)
  <2> DEFINE over(y) == {i \in DOMAIN mounts : IsPrefix(mounts[i].at, y)}
             best(y) == {i \in over(y) : \A j \in over(y) :
                          \/ Len(mounts[j].at) < Len(mounts[i].at)
                          \/ Len(mounts[j].at) = Len(mounts[i].at) /\ j <= i}
             found(b) == IF b = {} THEN NoMount ELSE mounts[CHOOSE i \in b : TRUE]
  <2>1. over(path) = over(d.dir)
    BY <1>3
  <2>2. best(path) = best(d.dir)
    BY <2>1
  <2>3. /\ LongestMount(mounts, DOMAIN mounts, path) = found(best(path))
        /\ LongestMount(mounts, DOMAIN mounts, d.dir) = found(best(d.dir))
    BY DEF LongestMount
  <2> HIDE DEF best, found
  <2> QED
    BY <2>2, <2>3
<1>5. LongestMount(mounts, DOMAIN mounts, path) = m
  BY <1>4 DEF Unhidden
<1>6. PlaceOf(d.host, path).fs = m.fs /\ PlaceOf(d.host, path).path = m.subvol \o Rest(m.at, path)
  BY <1>5, Zenon DEF PlaceOf
<1>7. /\ m.at \in Seq(STRING) /\ m.subvol \in Seq(STRING) /\ r \in Seq(STRING) /\ d.dir = m.at \o r
  BY BaseTyped, Zenon
<1> HIDE DEF r, m
<1>8. path = m.at \o (r \o <<x>>)
  <2>1. m.at \o (r \o <<x>>) = (m.at \o r) \o <<x>>
    BY <1>7, JoinOne, Zenon
  <2>2. path = (m.at \o r) \o <<x>>
    BY <1>7
  <2> QED
    BY <2>1, <2>2, Zenon
<1>9. Rest(m.at, path) = r \o <<x>>
  <2>1. r \o <<x>> \in Seq(STRING)
    BY <1>1, <1>7, JoinTyped
  <2> HIDE DEF path
  <2> QED
    BY <1>7, <1>8, <2>1, RestOfJoin, Zenon
<1>10. m.subvol \o (r \o <<x>>) = (m.subvol \o r) \o <<x>>
  BY <1>1, <1>7, JoinOne, Zenon
<1> QED
  BY <1>6, <1>9, <1>10, Zenon DEF FsOf, BaseOf, m, r

(* What is listed in a directory is there.                                 *)
LEMMA RowLeads ==
  ASSUME NEW d \in Homes, NEW path \in Place, Distinct(d, Parent(path)), NEW shown,
         shown = ContainingMount(d.host, d.dir).at
                   \o MountpointRelative(path, ContainingMount(d.host, d.dir).subvol),
         shown # <<>>, Parent(shown) = d.dir
  PROVE  /\ shown = d.dir \o <<Leaf(shown)>> /\ Leaf(shown) \in STRING
         /\ path = BaseOf(d) \o <<Leaf(shown)>>
<1> DEFINE m == ContainingMount(d.host, d.dir)
           r == Rest(m.at, d.dir)
           rel == MountpointRelative(path, m.subvol)
           x == Leaf(shown)
<1>1. /\ m.at \in Seq(STRING) /\ m.subvol \in Seq(STRING) /\ r \in Seq(STRING) /\ d.dir = m.at \o r
  BY BaseTyped, Zenon
<1>2. path \in Seq(STRING) /\ rel \in Seq(STRING)
  BY <1>1, RestTyped DEF Place, MountpointRelative
<1>3. shown \in Place
  BY <1>1, <1>2, JoinTyped DEF Place
<1>4. shown = d.dir \o <<x>> /\ x \in STRING
  BY <1>3, ParentAndLeaf, Zenon
<1>5. <<x>> \in Seq(STRING)
  BY <1>4, OneAlone
<1>6. IsPrefix(m.subvol, path)
  <2> SUFFICES ASSUME ~IsPrefix(m.subvol, path) PROVE FALSE
    OBVIOUS
  <2>1. /\ Parent(path) \in Seq(STRING) /\ Leaf(path) \in STRING
        /\ path = Parent(path) \o <<Leaf(path)>>
    BY ParentAndLeaf
  <2>2. ~IsPrefix(m.subvol, Parent(path))
    BY <1>1, <2>1, PrefixBelow, Zenon
  <2>3. m.at \o Parent(path) # d.dir
    BY <2>2 DEF Distinct
  <2>4. shown = m.at \o path
    BY DEF MountpointRelative
  <2>5. Parent(shown) = m.at \o Parent(path)
    BY <1>1, <2>4, ParentOfLonger, Zenon
  <2> QED
    BY <2>3, <2>5, Zenon
<1>7. rel = Rest(m.subvol, path) /\ path = m.subvol \o rel
  BY <1>1, <1>2, <1>6, PrefixJoins, Zenon DEF MountpointRelative
<1>8. shown = m.at \o rel
  OBVIOUS
<1> HIDE DEF r, m, rel, x
<1>9. shown = m.at \o (r \o <<x>>)
  BY <1>1, <1>4, JoinOne, Zenon
<1>10. r \o <<x>> \in Seq(STRING)
  BY <1>1, <1>5, JoinTyped
<1>11. rel = r \o <<x>>
  <2>1. Rest(m.at, shown) = rel
    BY <1>1, <1>2, <1>8, RestOfJoin, Zenon
  <2>2. Rest(m.at, shown) = r \o <<x>>
    BY <1>1, <1>9, <1>10, RestOfJoin, Zenon
  <2> QED
    BY <2>1, <2>2
<1>12. m.subvol \o (r \o <<x>>) = (m.subvol \o r) \o <<x>>
  BY <1>1, <1>4, JoinOne, Zenon
<1> QED
  BY <1>4, <1>7, <1>11, <1>12, Zenon DEF BaseOf, m, r, x

(* A delete goes to the host the subvolume was listed on.                  *)
LEMMA RoutesHome ==
  ASSUME SoundLayout, NEW e \in Entries, NEW t \in TargetsOf(e), NEW x \in STRING
  PROVE  Route(t, t.dir \o <<x>>) = t.host /\ Route(t, e.snapshots \o <<x>>) = "here"
<1>1. t.dir \in Seq(STRING) /\ e.snapshots \in Seq(STRING) /\ <<x>> \in Seq(STRING)
  BY TargetsTyped, EntriesTyped, OneAlone DEF Entry
<1>2. IsPrefix(t.dir, t.dir \o <<x>>)
  BY <1>1, RestOfJoin, Zenon
<1>3. CASE t.host = "here"
  BY <1>2, <1>3 DEF Route
<1>4. CASE t.host # "here"
  <2>1. ~IsPrefix(t.dir, e.snapshots) /\ Parent(t.dir) # e.snapshots
    BY <1>4 DEF SoundLayout
  <2>2. t.dir # e.snapshots \o <<x>>
    BY <1>1, <2>1, ParentOfJoin, Zenon
  <2>3. ~IsPrefix(t.dir, e.snapshots \o <<x>>)
    BY <1>1, <2>1, <2>2, PrefixBelow
  <2> QED
    BY <1>2, <2>3 DEF Route
<1> QED
  BY <1>3, <1>4

-----------------------------------------------------------------------------
(* What a step makes of a layout                                           *)

(* Only its start and the drive picked change what a process runs.         *)
LEMMA CommandStep ==
  ASSUME NEW p \in Procs, ProcStep(p)
  PROVE  (\E c \in Commands : Start(p, c)) \/ (phase[p] # "idle" /\ (PickDrive(p) \/ command' = command))
<1>1. ASSUME Fails(p) \/ Passes(p) PROVE phase[p] # "idle" /\ command' = command
  BY <1>1 DEF Fails, Passes, StepDone
<1>2. ASSUME PickDrive(p) PROVE phase[p] # "idle"
  BY <1>2 DEF PickDrive, Running
<1>3. ASSUME PreHook(p) \/ PostHook(p) PROVE phase[p] # "idle" /\ command' = command
  BY <1>3 DEF PreHook, PostHook, Running
<1>4. ASSUME DropGuard(p) \/ Exit(p) \/ Kill(p) \/ Delete(p) PROVE phase[p] # "idle" /\ command' = command
  BY <1>4 DEF DropGuard, Exit, Kill, Delete, Running, control
<1> QED
  BY KindsOfStep, <1>1, <1>2, <1>3, <1>4

LEMMA AtHomeStep ==
  ASSUME Typed, NEW p \in Procs, AtHome(p), ProcStep(p)
  PROVE  AtHome(p)'
<1>1. ControlTyped /\ Placed(p)
  BY DEF Typed
<1>2. ASSUME NEW c \in Commands, Start(p, c) PROVE AtHome(p)'
  <2>1. command'[p] = c
    BY <1>1, <1>2, StartTyped
  <2>2. \A i \in DOMAIN c.entries : c.entries[i] \in Entries
    BY DEF Entries
  <2> QED
    BY <2>1, <2>2 DEF AtHome
<1>3. ASSUME phase[p] # "idle", command' = command PROVE AtHome(p)'
  BY <1>3 DEF AtHome
<1>4. ASSUME phase[p] # "idle", PickDrive(p) PROVE AtHome(p)'
  <2> DEFINE c == command[p]
             d == command'[p]
  <2>1. /\ DOMAIN d.entries = DOMAIN c.entries
        /\ c.entries[entry[p]].target = None /\ d.entries[entry[p]].target \in Picked
        /\ \A j \in DOMAIN c.entries :
             /\ d.entries[j].snapshots = c.entries[j].snapshots
             /\ j # entry[p] => d.entries[j] = c.entries[j]
    BY <1>1, <1>4, PickedCommand
  <2>2. ASSUME NEW j \in DOMAIN d.entries
        PROVE  \E e \in Entries : /\ d.entries[j].snapshots = e.snapshots
                                  /\ d.entries[j].target \in TargetsOf(e) \cup {e.target}
    <3>1. PICK e \in Entries : /\ c.entries[j].snapshots = e.snapshots
                               /\ c.entries[j].target \in TargetsOf(e) \cup {e.target}
      BY <1>4, <2>1 DEF AtHome
    <3>2. CASE j # entry[p]
      BY <2>1, <3>1, <3>2
    <3>3. CASE j = entry[p]
      <4>1. None \in TargetsOf(e) \cup {e.target}
        BY <2>1, <3>1, <3>3
      <4>2. e.target = None
        <5>1. ASSUME e.target # None PROVE FALSE
          BY <4>1, <5>1 DEF TargetsOf
        <5> QED
          BY <5>1
      <4>3. TargetsOf(e) = Picked
        BY <4>2 DEF TargetsOf
      <4> QED
        BY <2>1, <3>1, <3>3, <4>3
    <3> QED
      BY <3>2, <3>3
  <2> QED
    BY <2>2 DEF AtHome
<1> QED
  BY CommandStep, <1>2, <1>3, <1>4

(* The sides of the entry at hand.                                         *)
LEMMA SidesAtHome ==
  ASSUME NEW p \in Procs, Placed(p), AtHome(p), phase[p] # "idle"
  PROVE  \E e \in Entries :
           /\ SideOf(p, "source") = SourceOf(e) /\ EntryOf(p).snapshots = e.snapshots
           /\ SideOf(p, "source") \in Homes
           /\ SideOf(p, "target") = EntryOf(p).target
           /\ EntryOf(p).target # None => EntryOf(p).target \in TargetsOf(e) /\ EntryOf(p).target \in Homes
<1>1. entry[p] \in DOMAIN command[p].entries
  BY DEF Placed
<1>2. PICK e \in Entries : /\ EntryOf(p).snapshots = e.snapshots
                           /\ EntryOf(p).target \in TargetsOf(e) \cup {e.target}
  BY <1>1 DEF AtHome, EntryOf
<1>3. SideOf(p, "source") = SourceOf(e) /\ SideOf(p, "target") = EntryOf(p).target
  BY <1>2 DEF SideOf, SourceOf
<1>4. SourceOf(e) \in Homes /\ TargetsOf(e) \subseteq Homes
  BY DEF Homes
<1>5. EntryOf(p).target # None => EntryOf(p).target \in TargetsOf(e)
  BY <1>2 DEF TargetsOf
<1> QED
  BY <1>2, <1>3, <1>4, <1>5

LEMMA SourceAtHome ==
  ASSUME NEW p \in Procs, Placed(p), AtHome(p), phase[p] # "idle"
  PROVE  /\ SideOf(p, "source") \in Homes
         /\ SideOf(p, "source").host = "here" /\ SideOf(p, "source").dir = EntryOf(p).snapshots
BY SidesAtHome DEF SideOf

LEMMA TargetAtHome ==
  ASSUME NEW p \in Procs, Placed(p), AtHome(p), phase[p] = "running",
         command[p].kind # "run" \/ at[p] > 4
  PROVE  /\ SideOf(p, "target") \in Homes /\ SideOf(p, "target") = EntryOf(p).target
         /\ EntryOf(p).target # None
<1>1. EntryOf(p).target \in Target
  <2>1. CASE at[p] > 4
    BY <2>1 DEF Placed
  <2>2. CASE command[p].kind # "run"
    BY <2>2, RunningFacts, ParsedFacts DEF EntryOf
  <2> QED
    BY <2>1, <2>2
<1>2. EntryOf(p).target # None
  BY <1>1, CommandLineAssumption DEF Target
<1> QED
  BY <1>2, SidesAtHome

-----------------------------------------------------------------------------
(* Where new subvolumes are                                                *)

(* A new subvolume in a directory.                                         *)
Makes(d, x) ==
  /\ FsOf(d) \in DOMAIN Initially
  /\ next' = [next EXCEPT ![FsOf(d)] = @ + 1]
  /\ \E s : /\ s.id = next[FsOf(d)] /\ s.path = BaseOf(d) \o <<x>>
            /\ fs' = [fs EXCEPT ![FsOf(d)] = @ \cup {s}]

LEMMA CreateMakes ==
  ASSUME DiskTyped, SoundLayout, NEW d \in Homes, NEW x \in STRING, NEW ro,
         Create(d.host, d.dir \o <<x>>, ro)
  PROVE  Makes(d, x) /\ PlaceOf(d.host, d.dir \o <<x>>).fs = FsOf(d)
<1> DEFINE place == PlaceOf(d.host, d.dir \o <<x>>)
           s == [id |-> next[place.fs], path |-> place.path, readonly |-> ro, received |-> None]
<1>1. place.fs = FsOf(d) /\ place.path = BaseOf(d) \o <<x>>
  BY PlaceBelow, Zenon DEF SoundLayout
<1>2. /\ place.fs \in DOMAIN fs
      /\ fs' = [fs EXCEPT ![place.fs] = @ \cup {s}] /\ next' = [next EXCEPT ![place.fs] = @ + 1]
  BY DEF Create
<1>3. s.id = next[place.fs] /\ s.path = place.path
  OBVIOUS
<1> HIDE DEF s, place
<1> QED
  BY <1>1, <1>2, <1>3, Zenon DEF Makes, DiskTyped, place

LEMMA SnapshotMakes ==
  ASSUME Typed, SoundLayout, NEW p \in Procs, AtHome(p), TakeSnapshot(p)
  PROVE  LET d == SideOf(p, "source")
             x == Names[named + 1]
         IN  /\ d \in Homes /\ x \in STRING /\ Makes(d, x)
             /\ listed'[p] = [source |-> {[id |-> next[FsOf(d)], path |-> d.dir \o <<x>>,
                                           readonly |-> TRUE, received |-> None]}, target |-> {}]
<1> DEFINE d == SideOf(p, "source")
           x == Names[named + 1]
           path == EntryOf(p).snapshots \o <<x>>
<1>1. /\ Create("here", path, TRUE) /\ named < Len(Names) /\ phase[p] = "running"
      /\ listed' = [listed EXCEPT ![p] = [NothingListed EXCEPT !.source =
            {[id |-> next[PlaceOf("here", path).fs], path |-> path, readonly |-> TRUE, received |-> None]}]]
  BY Zenon DEF TakeSnapshot, Running
<1>2. named \in Nat /\ Placed(p)
  BY DEF Typed, DiskTyped
<1>3. Names \in Seq(STRING)
  BY CommandLineAssumption
<1>4. x \in STRING
  <2>1. named + 1 \in 1 .. Len(Names)
    BY <1>1, <1>2, <1>3, LenProperties
  <2> QED
    BY <1>3, <2>1, ElementOfSeq
<1>5. d \in Homes /\ d.host = "here" /\ d.dir = EntryOf(p).snapshots
  BY <1>1, <1>2, SourceAtHome
<1> HIDE DEF d, x
<1>6. Makes(d, x) /\ PlaceOf("here", path).fs = FsOf(d)
  BY <1>1, <1>4, <1>5, CreateMakes, Zenon DEF Typed
<1> DEFINE row == [id |-> next[FsOf(d)], path |-> path, readonly |-> TRUE, received |-> None]
<1>7. listed' = [listed EXCEPT ![p] = [NothingListed EXCEPT !.source = {row}]]
  BY <1>1, <1>6, Zenon
<1>8. row = [id |-> next[FsOf(d)], path |-> d.dir \o <<x>>, readonly |-> TRUE, received |-> None]
  BY <1>5
<1> HIDE DEF row
<1>9. listed'[p] = [source |-> {row}, target |-> {}]
  BY <1>7, Zenon DEF NothingListed, Typed, MemoryTyped
<1> QED
  BY <1>4, <1>5, <1>6, <1>8, <1>9 DEF d, x

LEMMA ReceiveMakes ==
  ASSUME Typed, SoundLayout, NEW p \in Procs, AtHome(p), BeginReceive(p)
  PROVE  \/ inflight'[p] = None /\ UNCHANGED <<fs, next>>
         \/ LET d == SideOf(p, "target")
            IN  \E x \in STRING :
                  /\ d \in Homes /\ Makes(d, x)
                  /\ inflight'[p] = [fs |-> FsOf(d), id |-> next[FsOf(d)], path |-> d.dir \o <<x>>]
<1> DEFINE d == SideOf(p, "target")
<1>1. phase[p] = "running" /\ Step(p) = "receive"
  BY DEF BeginReceive, Running
<1>2. /\ d \in Homes /\ d = EntryOf(p).target
  BY <1>1, TargetAtHome, ReceiveHasTarget DEF Typed
<1>3. inflight \in [Procs -> Receiving \cup {None}]
  BY DEF Typed, MemoryTyped
<1>4. CASE inflight' = [inflight EXCEPT ![p] = None] /\ UNCHANGED <<fs, next>>
  BY <1>3, <1>4
<1>5. CASE \E r \in Due(p) :
             LET path == EntryOf(p).target.dir \o <<Leaf(r.path)>>
                 place == PlaceOf(Receiver(p), path)
             IN  /\ Create(Receiver(p), path, FALSE)
                 /\ inflight' = [inflight EXCEPT ![p] =
                      [fs |-> place.fs, id |-> next[place.fs], path |-> path]]
  <2>1. PICK r \in Due(p) :
          /\ Create(d.host, d.dir \o <<Leaf(r.path)>>, FALSE)
          /\ inflight' = [inflight EXCEPT ![p] =
               [fs |-> PlaceOf(d.host, d.dir \o <<Leaf(r.path)>>).fs,
                id |-> next[PlaceOf(d.host, d.dir \o <<Leaf(r.path)>>).fs],
                path |-> d.dir \o <<Leaf(r.path)>>]]
    BY <1>2, <1>5, Zenon DEF Receiver
  <2>2. r.path \in Place
    BY DEF Due, Typed, MemoryTyped, Known, Subvol, Place
  <2> DEFINE x == Leaf(r.path)
  <2>3. x \in STRING
    BY <2>2, LeafTyped
  <2> HIDE DEF x, d
  <2>4. Makes(d, x) /\ PlaceOf(d.host, d.dir \o <<x>>).fs = FsOf(d)
    BY <1>2, <2>1, <2>3, CreateMakes, Zenon DEF Typed, x
  <2>5. inflight'[p] = [fs |-> FsOf(d), id |-> next[FsOf(d)], path |-> d.dir \o <<x>>]
    BY <1>3, <2>1, <2>4, Zenon DEF x
  <2> QED
    BY <1>2, <2>3, <2>4, <2>5, Zenon DEF d
<1> QED
  BY <1>4, <1>5, Zenon DEF BeginReceive

LEMMA RestoreMakes ==
  ASSUME Typed, SoundLayout, NEW p \in Procs, AtHome(p), RestoreTo(p)
  PROVE  \/ UNCHANGED <<fs, next>>
         \/ SideOf(p, "source") \in Homes /\ Restored \in STRING /\ Makes(SideOf(p, "source"), Restored)
<1>1. /\ phase[p] = "running"
      /\ UNCHANGED <<fs, next>> \/ Create("here", EntryOf(p).snapshots \o <<Restored>>, FALSE)
  BY Zenon DEF RestoreTo, Running
<1>2. /\ SideOf(p, "source") \in Homes
      /\ SideOf(p, "source").host = "here" /\ SideOf(p, "source").dir = EntryOf(p).snapshots
  BY <1>1, SourceAtHome DEF Typed
<1>3. Restored \in STRING
  BY CommandLineAssumption
<1> QED
  BY <1>1, <1>2, <1>3, CreateMakes, Zenon DEF Typed

(* Every subvolume is where it was, or new in a directory of the commands. *)
LEMMA PlacesKept ==
  ASSUME Typed, SoundLayout, NEW p \in Procs, AtHome(p), ProcStep(p),
         NEW f \in DOMAIN Initially, NEW t \in fs'[f]
  PROVE  \/ \E s \in fs[f] : s.path = t.path
         \/ \E d \in Homes, x \in STRING : FsOf(d) = f /\ t.path = BaseOf(d) \o <<x>>
<1> DEFINE Goal == \/ \E s \in fs[f] : s.path = t.path
                   \/ \E d \in Homes, x \in STRING : FsOf(d) = f /\ t.path = BaseOf(d) \o <<x>>
<1>1. DOMAIN fs = DOMAIN Initially
  BY DEF Typed, DiskTyped
<1>2. ASSUME NEW d \in Homes, NEW x \in STRING, Makes(d, x) PROVE Goal
  <2>1. PICK s : /\ s.path = BaseOf(d) \o <<x>>
                 /\ fs' = [fs EXCEPT ![FsOf(d)] = @ \cup {s}]
    BY <1>2, Zenon DEF Makes
  <2>2. t \in fs[f] \/ (t = s /\ FsOf(d) = f)
    BY <1>1, <2>1
  <2> QED
    BY <2>1, <2>2
<1>3. ASSUME fs' = fs PROVE Goal
  BY <1>3
<1> SUFFICES Goal
  OBVIOUS
<1> HIDE DEF Goal
<1>4. CASE TakeSnapshot(p)
  <2>1. \E d \in Homes, x \in STRING : Makes(d, x)
    BY <1>4, SnapshotMakes, Zenon
  <2> QED
    BY <1>2, <2>1, Zenon
<1>5. CASE BeginReceive(p)
  <2>1. fs' = fs \/ \E d \in Homes, x \in STRING : Makes(d, x)
    BY <1>5, ReceiveMakes, Zenon
  <2> QED
    BY <1>2, <1>3, <2>1, Zenon
<1>6. CASE RestoreTo(p)
  <2>1. fs' = fs \/ \E d \in Homes, x \in STRING : Makes(d, x)
    BY <1>6, RestoreMakes, Zenon
  <2> QED
    BY <1>2, <1>3, <2>1, Zenon
<1>7. CASE ~TakeSnapshot(p) /\ ~BeginReceive(p) /\ ~RestoreTo(p)
  <2>1. fs[f] \subseteq Subvol
    BY DEF Typed, DiskTyped, WellNumbered
  <2>2. ASSUME SealReceive(p), inflight[p] # None PROVE Goal
    <3>1. fs' = [fs EXCEPT ![inflight[p].fs] = (@ \ Received(p)) \cup {Sealed(s) : s \in Received(p)}]
      BY <2>2, Zenon DEF SealReceive, Sealed
    <3>2. t \in fs[f] \/ (f = inflight[p].fs /\ \E s \in Received(p) : t = Sealed(s))
      BY <1>1, <3>1
    <3>3. t \in fs[f] \/ \E s \in fs[f] : t = Sealed(s)
      BY <3>2 DEF Received
    <3> QED
      BY <2>1, <3>3, SealedTyped DEF Goal
  <2>3. ASSUME SealReceive(p), inflight[p] = None PROVE Goal
    BY <1>3, <2>3 DEF SealReceive
  <2>4. ASSUME ReceiveFails(p) \/ Delete(p) PROVE Goal
    <3>1. fs' = fs \/ \E x, S : fs' = [fs EXCEPT ![x] = @ \ S]
      BY <2>4 DEF ReceiveFails, Delete
    <3>2. t \in fs[f]
      BY <1>1, <3>1
    <3> QED
      BY <3>2 DEF Goal
  <2>5. ASSUME \/ \E c \in Commands : Start(p, c)
               \/ Check(p) \/ PickDrive(p) \/ RefuseRawRemote(p)
               \/ \E d \in Sides : EnsureDir(p, d) \/ Declined(p, d)
               \/ PreHook(p) \/ PostHook(p) \/ Fail(p) \/ DropGuard(p) \/ Exit(p) \/ Kill(p)
               \/ \E d \in Sides : ListCall(p, d) \/ ReadonlyCall(p, d)
               \/ Schedule(p) \/ PruneDone(p)
        PROVE  fs' = fs
    BY <2>5 DEF Start, Check, PickDrive, RefuseRawRemote, EnsureDir, Declined, PreHook, PostHook, Fail,
                DropGuard, Exit, Kill, ListCall, ReadonlyCall, Schedule, PruneDone, disk
  <2> QED
    BY <1>3, <1>7, <2>2, <2>3, <2>4, <2>5 DEF ProcStep
<1> QED
  BY <1>4, <1>5, <1>6, <1>7

LEMMA HonestNext ==
  ASSUME Typed, SoundLayout, Honest, NEW p \in Procs, AtHome(p), ProcStep(p)
  PROVE  Honest'
<1> SUFFICES ASSUME NEW d \in Homes, FsOf(d) \in DOMAIN Initially, NEW t \in fs'[FsOf(d)]
             PROVE  Distinct(d, Parent(t.path))
  BY DEF Honest
<1>1. CASE \E s \in fs[FsOf(d)] : s.path = t.path
  BY <1>1 DEF Honest
<1>2. CASE \E o \in Homes, x \in STRING : FsOf(o) = FsOf(d) /\ t.path = BaseOf(o) \o <<x>>
  <2>1. PICK o \in Homes, x \in STRING : FsOf(o) = FsOf(d) /\ t.path = BaseOf(o) \o <<x>>
    BY <1>2
  <2>2. Parent(t.path) = BaseOf(o)
    BY <2>1, BaseTyped, ParentOfJoin, Zenon
  <2>3. Distinct(d, BaseOf(o))
    BY <2>1 DEF SoundLayout
  <2> QED
    BY <2>2, <2>3
<1> QED
  BY <1>1, <1>2, PlacesKept

LEMMA HonestInit ==
  ASSUME Init, SoundLayout
  PROVE  Honest
BY DEF Init, Honest, SoundLayout

(* What is known of an id stays true.                                      *)
LEMMA FixedStays ==
  ASSUME Typed, NEW p \in Procs, ProcStep(p),
         NEW f \in DOMAIN Initially, NEW i \in Nat, NEW path, Fixed(f, i, path)
  PROVE  Fixed(f, i, path)'
<1>1. Grows(p, f)
  BY DiskGrows
<1>2. next[f] \in Nat /\ fs[f] \subseteq Subvol
  BY DEF Typed, DiskTyped, WellNumbered
<1>3. i < next[f] /\ \A s \in fs[f] : s.id = i => s.path = path
  BY DEF Fixed
<1>4. i < next'[f]
  BY <1>1, <1>2, <1>3 DEF Grows
<1>5. ASSUME NEW t \in fs'[f], t.id = i PROVE t.path = path
  <2>1. CASE t \in fs[f]
    BY <1>3, <1>5, <2>1
  <2>2. CASE t.id = next[f]
    BY <1>2, <1>3, <1>5, <2>2
  <2>3. CASE \E s \in fs[f] : t = Sealed(s)
    <3>1. PICK s \in fs[f] : t = Sealed(s)
      BY <2>3
    <3>2. t.id = s.id /\ t.path = s.path
      BY <1>2, <3>1, SealedTyped
    <3> QED
      BY <1>3, <1>5, <3>2
  <2> QED
    BY <1>1, <2>1, <2>2, <2>3 DEF Grows
<1> QED
  BY <1>4, <1>5 DEF Fixed

(* What a step makes has an id that no other subvolume has.                *)
LEMMA MadeIsFixed ==
  ASSUME DiskTyped, NEW d \in Homes, NEW x \in STRING, Makes(d, x), NEW i, i = next[FsOf(d)]
  PROVE  /\ i < next'[FsOf(d)]
         /\ \A t \in fs'[FsOf(d)] : t.id = i => t.path = BaseOf(d) \o <<x>>
         /\ \E t \in fs'[FsOf(d)] : t.id = i
         /\ FsOf(d) \in DOMAIN Initially /\ i \in Nat
<1> DEFINE f == FsOf(d)
           path == BaseOf(d) \o <<x>>
<1>1. PICK s : /\ s.id = i /\ s.path = path
               /\ fs' = [fs EXCEPT ![f] = @ \cup {s}]
  BY Zenon DEF Makes
<1>2. f \in DOMAIN Initially /\ next' = [next EXCEPT ![f] = @ + 1]
  BY DEF Makes
<1>3. DOMAIN fs = DOMAIN Initially /\ DOMAIN next = DOMAIN Initially /\ i \in Nat
  BY <1>2 DEF DiskTyped
<1>4. \A t \in fs[f] : t.id < i /\ t.id \in Nat
  BY <1>2 DEF DiskTyped, WellNumbered, Subvol
<1>5. fs'[f] = fs[f] \cup {s} /\ next'[f] = i + 1
  BY <1>1, <1>2, <1>3
<1> HIDE DEF path
<1>6. \A t \in fs[f] : t.id # i
  BY <1>3, <1>4
<1>7. i < next'[f] /\ \A t \in fs'[f] : t.id = i => t.path = path
  BY <1>1, <1>3, <1>5, <1>6
<1>8. \E t \in fs'[f] : t.id = i
  BY <1>1, <1>5
<1> QED
  BY <1>2, <1>3, <1>7, <1>8 DEF path

-----------------------------------------------------------------------------
(* What a process knows leads back                                         *)

(* A running process that keeps running does what its step is named after. *)
LEMMA WhichStep ==
  ASSUME Typed, NEW p \in Procs, ProcStep(p), phase[p] = "running", phase'[p] = "running"
  PROVE  /\ Step(p) = "snapshot" => TakeSnapshot(p)
         /\ Step(p) = "list_source" => ListCall(p, "source")
         /\ Step(p) = "list_target" => ListCall(p, "target")
         /\ Step(p) = "readonly_source" => ReadonlyCall(p, "source")
         /\ Step(p) = "readonly_target" => ReadonlyCall(p, "target")
         /\ Step(p) = "receive" => BeginReceive(p)
         /\ Step(p) = "seal" => SealReceive(p)
         /\ Step(p) = "schedule" => Schedule(p)
         /\ Step(p) = "delete" => Delete(p) \/ PruneDone(p)
<1>1. ControlTyped
  BY DEF Typed
<1>2. \A e \in Failures : ~FailWith(p, e)
  BY <1>1, FailsTyped
<1>3. ~Fail(p) /\ ~RefuseRawRemote(p) /\ ~ReceiveFails(p) /\ \A d \in Sides : ~Declined(p, d)
  BY <1>2, StepErrors DEF Fail, RefuseRawRemote, ReceiveFails, Declined, Failures
<1>4. ~DropGuard(p) /\ ~Exit(p) /\ ~Kill(p) /\ \A c \in Commands : ~Start(p, c)
  BY <1>1 DEF DropGuard, Exit, Kill, Start, ControlTyped
<1>5. \/ Check(p) /\ Step(p) \in {"path", "policies", "target", "discover"}
      \/ PickDrive(p) /\ Step(p) = "target"
      \/ \E d \in Sides : EnsureDir(p, d) /\ Step(p) \in {"snapshot_dir", "target_dir"}
      \/ PreHook(p) /\ Step(p) = "pre_hook"
      \/ PostHook(p) /\ Step(p) = "post_hook"
      \/ RestoreTo(p) /\ Step(p) = "restore"
      \/ TakeSnapshot(p) /\ Step(p) = "snapshot"
      \/ ListCall(p, "source") /\ Step(p) = "list_source"
      \/ ListCall(p, "target") /\ Step(p) = "list_target"
      \/ ReadonlyCall(p, "source") /\ Step(p) = "readonly_source"
      \/ ReadonlyCall(p, "target") /\ Step(p) = "readonly_target"
      \/ BeginReceive(p) /\ Step(p) = "receive"
      \/ SealReceive(p) /\ Step(p) = "seal"
      \/ Schedule(p) /\ Step(p) = "schedule"
      \/ (Delete(p) \/ PruneDone(p)) /\ Step(p) = "delete"
  <2>1. Check(p) => Step(p) \in {"path", "policies", "target", "discover"}
    BY DEF Check
  <2>2. /\ PickDrive(p) => Step(p) = "target"
        /\ PreHook(p) => Step(p) = "pre_hook"
        /\ PostHook(p) => Step(p) = "post_hook"
        /\ RestoreTo(p) => Step(p) = "restore"
        /\ TakeSnapshot(p) => Step(p) = "snapshot"
    BY Zenon DEF PickDrive, PreHook, PostHook, RestoreTo, TakeSnapshot, Running
  <2>3. \A d \in Sides : EnsureDir(p, d) => Step(p) \in {"snapshot_dir", "target_dir"}
    BY DEF EnsureDir, Running
  <2>4. /\ ListCall(p, "source") => Step(p) = "list_source"
        /\ ListCall(p, "target") => Step(p) = "list_target"
        /\ ReadonlyCall(p, "source") => Step(p) = "readonly_source"
        /\ ReadonlyCall(p, "target") => Step(p) = "readonly_target"
    BY DEF ListCall, ReadonlyCall, Running
  <2>5. /\ BeginReceive(p) => Step(p) = "receive"
        /\ SealReceive(p) => Step(p) = "seal"
        /\ Schedule(p) => Step(p) = "schedule"
        /\ Delete(p) \/ PruneDone(p) => Step(p) = "delete"
    BY Zenon DEF BeginReceive, SealReceive, Schedule, Delete, PruneDone, Running
  <2>6. \/ Check(p) \/ PickDrive(p) \/ (\E d \in Sides : EnsureDir(p, d)) \/ PreHook(p) \/ PostHook(p)
        \/ TakeSnapshot(p) \/ (\E d \in Sides : ListCall(p, d) \/ ReadonlyCall(p, d))
        \/ BeginReceive(p) \/ SealReceive(p) \/ Schedule(p) \/ Delete(p) \/ PruneDone(p) \/ RestoreTo(p)
    BY <1>3, <1>4 DEF ProcStep
  <2>7. CASE \E d \in Sides : ListCall(p, d) \/ ReadonlyCall(p, d)
    BY <2>4, <2>7 DEF Sides
  <2> QED
    BY <2>1, <2>2, <2>3, <2>5, <2>6, <2>7
<1> QED
  BY <1>5

(* What a process has listed goes with the entry.                          *)
LEMMA SidesKept ==
  ASSUME Typed, NEW p \in Procs, ProcStep(p)
  PROVE  \/ Forget(p) \/ phase[p] = "idle"
         \/ /\ SideOf(p, "source")' = SideOf(p, "source")
            /\ SideOf(p, "target")' = SideOf(p, "target") \/ PickDrive(p)
<1> DEFINE c == command[p]
           n == Len(Steps(c))
           Goal == \/ Forget(p) \/ phase[p] = "idle"
                   \/ /\ SideOf(p, "source")' = SideOf(p, "source")
                      /\ SideOf(p, "target")' = SideOf(p, "target") \/ PickDrive(p)
<1>1. ControlTyped /\ Placed(p)
  BY DEF Typed
<1>2. ASSUME command'[p] = c, entry'[p] = entry[p] PROVE Goal
  BY <1>2 DEF SideOf, EntryOf
<1>3. ASSUME phase[p] = "running", Advance(p), Step(p) # "post_hook" PROVE entry'[p] = entry[p]
  <2>1. /\ Parsed(c) /\ entry[p] \in DOMAIN c.entries /\ at[p] \in 1 .. n /\ StepFacts(c, at[p])
        /\ entry[p] \in 1 .. Len(c.entries)
    BY <1>1, <1>3, RunningFacts
  <2>2. entry'[p] = entry[p] \/ (at[p] = n /\ entry[p] < Len(c.entries))
    BY <1>1, <1>3, <2>1, Advances
  <2>3. entry[p] < Len(c.entries) => c.kind = "run"
    BY <2>1, ParsedFacts
  <2>4. ~(at[p] = n /\ c.kind = "run")
    BY <1>3, <2>1 DEF StepFacts, Step, Hooked
  <2> QED
    BY <2>2, <2>3, <2>4
<1>4. ASSUME Passes(p) PROVE Goal
  BY <1>2, <1>3, <1>4 DEF Passes, StepDone
<1>5. ASSUME PickDrive(p) PROVE Goal
  <2>1. phase[p] = "running" /\ Advance(p) /\ Step(p) = "target"
    BY <1>5 DEF PickDrive, Running
  <2>2. entry'[p] = entry[p]
    BY <1>3, <2>1
  <2>3. entry[p] \in DOMAIN c.entries
    BY <1>1, <2>1 DEF Placed
  <2>4. command'[p].entries[entry[p]].snapshots = c.entries[entry[p]].snapshots
    BY <1>1, <1>5, <2>3, PickedCommand
  <2>5. SideOf(p, "source")' = SideOf(p, "source")
    BY <2>2, <2>4 DEF SideOf, EntryOf
  <2> QED
    BY <1>5, <2>5
<1>6. ASSUME PreHook(p) PROVE Goal
  BY <1>2, <1>3, <1>6 DEF PreHook, Running
<1>7. ASSUME Fails(p) \/ PostHook(p) \/ Exit(p) \/ Kill(p) PROVE Goal
  BY <1>7 DEF Fails, FailWith, PostHook, Exit, Kill, Gone
<1>8. ASSUME DropGuard(p) \/ Delete(p) PROVE Goal
  BY <1>2, <1>8 DEF DropGuard, Delete, control
<1>9. ASSUME NEW d \in Commands, Start(p, d) PROVE Goal
  BY <1>9 DEF Start
<1> HIDE DEF Goal
<1>10. Goal
  BY KindsOfStep, <1>4, <1>5, <1>6, <1>7, <1>8, <1>9
<1> QED
  BY <1>10 DEF Goal

-----------------------------------------------------------------------------
(* Listed paths lead back                                                  *)

LEMMA LeadsStays ==
  ASSUME Typed, NEW q \in Procs, ProcStep(q), NEW d, NEW r, r.id \in Nat, Leads(d, r)
  PROVE  Leads(d, r)'
<1>1. FsOf(d) \in DOMAIN Initially /\ Fixed(FsOf(d), r.id, BaseOf(d) \o <<Leaf(r.path)>>)
  BY DEF Leads
<1> DEFINE f == FsOf(d)
           i == r.id
           path == BaseOf(d) \o <<Leaf(r.path)>>
<1>2. f \in DOMAIN Initially /\ i \in Nat /\ Fixed(f, i, path)
  BY <1>1
<1> HIDE DEF f, i, path
<1>3. Fixed(f, i, path)'
  BY <1>2, FixedStays
<1> QED
  BY <1>3 DEF Leads, f, i, path

(* What a process has listed keeps leading back, whoever steps.            *)
LEMMA ListedKept ==
  ASSUME Typed, NEW q \in Procs, ProcStep(q), NEW p \in Procs, NEW side \in Sides, ListedLead(p, side),
         listed'[p][side] = listed[p][side], SideOf(p, side)' = SideOf(p, side)
  PROVE  ListedLead(p, side)'
<1>1. PICK d : d = SideOf(p, side)
  OBVIOUS
<1>2. OneEach(p, side)'
  BY DEF ListedLead, OneEach
<1>3. ASSUME NEW r \in listed[p][side] PROVE Leads(d, r)'
  <2>1. Leads(d, r)
    BY <1>1 DEF ListedLead
  <2>2. r.id \in Nat
    BY DEF Typed, MemoryTyped, Known, Sides, Subvol
  <2> QED
    BY <2>1, <2>2, LeadsStays
<1>4. SideOf(p, side)' = d
  BY <1>1
<1>5. \A r \in listed'[p][side] : Leads(SideOf(p, side), r)'
  BY <1>3, <1>4 DEF Leads
<1> QED
  BY <1>2, <1>5 DEF ListedLead

LEMMA NothingLeads ==
  ASSUME NEW p, NEW side, listed'[p][side] = {}
  PROVE  ListedLead(p, side)'
BY DEF ListedLead, OneEach

(* A snapshot is where its path says.                                      *)
LEMMA SnapshotLeads ==
  ASSUME Typed, SoundLayout, NEW p \in Procs, AtHome(p), TakeSnapshot(p),
         SideOf(p, "source")' = SideOf(p, "source"), NEW side \in Sides
  PROVE  ListedLead(p, side)'
<1>1. PICK d, x, i : /\ d = SideOf(p, "source") /\ x = Names[named + 1] /\ i = next[FsOf(d)]
  OBVIOUS
<1> DEFINE row == [id |-> i, path |-> d.dir \o <<x>>, readonly |-> TRUE, received |-> None]
<1>2. /\ d \in Homes /\ x \in STRING /\ Makes(d, x)
      /\ listed'[p] = [source |-> {row}, target |-> {}]
  BY <1>1, SnapshotMakes
<1>3. CASE side = "target"
  BY <1>2, <1>3, NothingLeads
<1>4. CASE side = "source"
  <2>1. /\ i < next'[FsOf(d)]
        /\ \A t \in fs'[FsOf(d)] : t.id = i => t.path = BaseOf(d) \o <<x>>
        /\ FsOf(d) \in DOMAIN Initially /\ i \in Nat
    BY <1>1, <1>2, MadeIsFixed DEF Typed
  <2>2. Leaf(d.dir \o <<x>>) = x
    BY <1>2, HomesTyped, ParentOfJoin
  <2>3. row.id = i /\ row.path = d.dir \o <<x>>
    OBVIOUS
  <2> HIDE DEF row
  <2>4. Leads(d, row)'
    BY <1>2, <2>1, <2>2, <2>3 DEF Leads, Fixed
  <2>5. listed'[p][side] = {row}
    BY <1>2, <1>4
  <2>6. SideOf(p, side)' = d
    BY <1>1, <1>4
  <2>7. \A r \in listed'[p][side] : Leads(SideOf(p, side), r)'
    BY <2>4, <2>5, <2>6 DEF Leads
  <2> QED
    BY <2>5, <2>7 DEF ListedLead, OneEach
<1> QED
  BY <1>3, <1>4 DEF Sides

(* Where the sides of a process that lists or receives are.                *)
LEMMA SideAtHome ==
  ASSUME Typed, NEW p \in Procs, AtHome(p), phase[p] = "running", NEW side \in Sides,
         Step(p) \in IF side = "source" THEN {"list_source", "readonly_source"}
                                        ELSE {"list_target", "readonly_target", "receive", "seal"}
  PROVE  SideOf(p, side) \in Homes
<1>1. Placed(p)
  BY DEF Typed
<1>2. CASE side = "source"
  BY <1>1, <1>2, SourceAtHome
<1>3. CASE side = "target"
  <2>1. StepFacts(command[p], at[p]) /\ command[p].set \in BOOLEAN /\ at[p] \in Nat /\ command[p].kind \in Kinds
    BY <1>1, RunningFacts
  <2>2. ListedAt(command[p]) \in Nat /\ (command[p].kind = "run" => ListedAt(command[p]) \in {10, 11})
    BY <2>1, ListedAtIs
  <2>3. command[p].kind # "run" \/ at[p] > 4
    BY <1>3, <2>1, <2>2 DEF StepFacts, Step
  <2> QED
    BY <1>1, <1>3, <2>3, TargetAtHome
<1> QED
  BY <1>2, <1>3 DEF Sides

(* What a listing shows of a row that leads back leads back.               *)
LEMMA RowsToLeads ==
  ASSUME NEW d \in Homes, FsOf(d) \in DOMAIN Initially, NEW R \in SUBSET Row, NEW readonly,
         \A r \in R : Fixed(FsOf(d), r.id, r.path) /\ Distinct(d, Parent(r.path)),
         \A r, t \in R : r.id = t.id => r = t
  PROVE  /\ \A b \in Listed(d.host, d.dir, R, readonly) : Leads(d, b)
         /\ \A b, c \in Listed(d.host, d.dir, R, readonly) : b.id = c.id => b = c
<1> DEFINE m == ContainingMount(d.host, d.dir)
           shown(r) == [id |-> r.id, received |-> r.received, readonly |-> r.id \in readonly,
                        path |-> m.at \o MountpointRelative(r.path, m.subvol)]
           merged == {shown(r) : r \in R}
           found == Listed(d.host, d.dir, R, readonly)
<1>1. found = {s \in merged : s.path # <<>> /\ Parent(s.path) = d.dir}
  BY DEF Listed
<1>2. \A r : shown(r).id = r.id /\ shown(r).path = m.at \o MountpointRelative(r.path, m.subvol)
  BY Zenon
<1>3. \A b \in found : \E r \in R : b = shown(r) /\ b.path # <<>> /\ Parent(b.path) = d.dir
  BY <1>1, Zenon
<1> HIDE DEF shown, found
<1>4. ASSUME NEW b \in found PROVE Leads(d, b)
  <2>1. PICK r \in R : b = shown(r) /\ b.path # <<>> /\ Parent(b.path) = d.dir
    BY <1>3
  <2>2. b.id = r.id /\ b.path = m.at \o MountpointRelative(r.path, m.subvol)
    BY <1>2, <2>1, Zenon
  <2>3. r.path \in Place /\ Distinct(d, Parent(r.path)) /\ Fixed(FsOf(d), r.id, r.path)
    BY DEF Row
  <2> DEFINE shownAt == b.path
  <2>4. /\ shownAt = ContainingMount(d.host, d.dir).at
                       \o MountpointRelative(r.path, ContainingMount(d.host, d.dir).subvol)
        /\ shownAt # <<>> /\ Parent(shownAt) = d.dir
    BY <2>1, <2>2
  <2> HIDE DEF shownAt
  <2>5. /\ shownAt = d.dir \o <<Leaf(shownAt)>> /\ Leaf(shownAt) \in STRING
        /\ r.path = BaseOf(d) \o <<Leaf(shownAt)>>
    BY <2>3, <2>4, RowLeads, Zenon
  <2>6. b.path = d.dir \o <<Leaf(b.path)>> /\ r.path = BaseOf(d) \o <<Leaf(b.path)>>
    BY <2>5 DEF shownAt
  <2> QED
    BY <2>2, <2>3, <2>6, Zenon DEF Leads
<1>5. ASSUME NEW b \in found, NEW c \in found, b.id = c.id PROVE b = c
  <2>1. PICK r \in R, t \in R : b = shown(r) /\ c = shown(t)
    BY <1>3
  <2>2. r.id = t.id
    BY <1>2, <1>5, <2>1
  <2>3. r = t
    BY <2>2
  <2> QED
    BY <2>1, <2>3
<1> QED
  BY <1>4, <1>5 DEF found

LEMMA ReadonlyLeads ==
  ASSUME Typed, NEW p \in Procs, AtHome(p), NEW side \in Sides, ReadonlyCall(p, side),
         RowsLead(p, side), ListedLead(p, side), ProcStep(p), SideOf(p, side)' = SideOf(p, side)
  PROVE  ListedLead(p, side)'
<1>1. PICK d : d = SideOf(p, side)
  OBVIOUS
<1> DEFINE readonly == ReadonlyIds(fs[FsOf(SideOf(p, side))])
           found == Listed(d.host, d.dir, rows[p], readonly)
           kept == {r \in listed[p][side] : \A x \in found : x.id # r.id}
<1>2. listed'[p][side] = found \cup kept /\ found \subseteq Subvol
  BY <1>1, ReadonlyCallRemembered
<1>3. d \in Homes
  <2>1. phase[p] = "running" /\ Step(p) = IF side = "source" THEN "readonly_source" ELSE "readonly_target"
    BY DEF ReadonlyCall, Running
  <2>2. Step(p) \in IF side = "source" THEN {"list_source", "readonly_source"}
                                       ELSE {"list_target", "readonly_target", "receive", "seal"}
    BY <2>1
  <2> QED
    BY <1>1, <2>1, <2>2, SideAtHome
<1>4. rows[p] \in SUBSET Row
  BY DEF Typed, MemoryTyped
<1>5. /\ FsOf(d) \in DOMAIN Initially
      /\ \A r \in rows[p] : Fixed(FsOf(d), r.id, r.path) /\ Distinct(d, Parent(r.path))
      /\ \A r, t \in rows[p] : r.id = t.id => r = t
  BY <1>1 DEF RowsLead
<1> HIDE DEF readonly
<1>6. /\ \A b \in found : Leads(d, b)
      /\ \A b, c \in found : b.id = c.id => b = c
  BY <1>3, <1>4, <1>5, RowsToLeads, Zenon
<1> HIDE DEF found
<1>7. \A b \in kept : Leads(d, b) /\ b.id \in Nat
  BY <1>1 DEF ListedLead, Typed, MemoryTyped, Known, Sides, Subvol
<1>8. \A b, c \in kept : b.id = c.id => b = c
  BY DEF ListedLead, OneEach
<1>9. \A b \in found, c \in kept : b.id # c.id
  OBVIOUS
<1> HIDE DEF kept
<1>10. OneEach(p, side)'
  BY <1>2, <1>6, <1>8, <1>9 DEF OneEach
<1>11. ASSUME NEW b \in found \cup kept PROVE Leads(d, b)'
  <2>1. Leads(d, b) /\ b.id \in Nat
    BY <1>2, <1>6, <1>7 DEF Subvol
  <2> QED
    BY <2>1, LeadsStays
<1>12. SideOf(p, side)' = d
  BY <1>1
<1>13. \A b \in listed'[p][side] : Leads(SideOf(p, side), b)'
  BY <1>2, <1>11, <1>12 DEF Leads
<1> QED
  BY <1>10, <1>13 DEF ListedLead

(* A backup that is sealed is where its path says.                         *)
LEMMA SealedLeads ==
  ASSUME Typed, NEW p \in Procs, SealReceive(p), SealLeads(p), ListedLead(p, "target"), ProcStep(p),
         SideOf(p, "target")' = SideOf(p, "target")
  PROVE  ListedLead(p, "target")'
<1>1. PICK d, i : d = SideOf(p, "target") /\ i = inflight[p]
  OBVIOUS
<1>2. CASE i = None
  <2>1. listed' = listed
    BY <1>1, <1>2 DEF SealReceive
  <2> QED
    BY <2>1, ListedKept DEF Sides
<1>3. CASE i # None
  <2>1. /\ Leads(d, i) /\ i.fs = FsOf(d) /\ i.id \in Nat /\ i.fs \in DOMAIN Initially
        /\ \A r \in listed[p].target : r.id # i.id
    BY <1>1, <1>3 DEF SealLeads, Typed, MemoryTyped, Receiving
  <2> DEFINE R == Received(p)
             new == {Seen(Sealed(s), inflight[p].path) : s \in R}
  <2>2. listed' = [listed EXCEPT ![p].target = @ \cup new]
    BY <1>1, <1>3, Zenon DEF SealReceive, Sealed
  <2>3. R = {} \/ \E s \in Subvol : s.id = i.id /\ R = {s}
    <3>1. R = {s \in fs[i.fs] : s.id = i.id} /\ fs[i.fs] \subseteq Subvol
      BY <1>1, <2>1 DEF Received, Typed, DiskTyped, WellNumbered
    <3> QED
      BY <2>1, <3>1, ReceivedOnce DEF Typed
  <2>4. \A s \in R : Sealed(s).id = i.id
    BY <2>3, SealedTyped
  <2>5. \A b \in new : b.id = i.id /\ b.path = i.path
    BY <1>1, <2>4 DEF Seen
  <2>6. \A b, c \in new : b = c
    BY <2>3
  <2> HIDE DEF new
  <2>7. listed'[p].target = listed[p].target \cup new
    BY <2>2 DEF Typed, MemoryTyped, Known
  <2>8. OneEach(p, "target")'
    BY <2>1, <2>5, <2>6, <2>7 DEF OneEach, ListedLead
  <2>9. ASSUME NEW b \in listed[p].target \cup new PROVE Leads(d, b)'
    <3>1. CASE b \in listed[p].target
      <4>1. Leads(d, b) /\ b.id \in Nat
        BY <1>1, <3>1 DEF ListedLead, Typed, MemoryTyped, Known, Subvol
      <4> QED
        BY <4>1, LeadsStays
    <3>2. CASE b \in new
      <4>1. b.id \in Nat /\ Leads(d, b)
        BY <2>1, <2>5, <3>2 DEF Leads
      <4> QED
        BY <4>1, LeadsStays
    <3> QED
      BY <3>1, <3>2
  <2>10. SideOf(p, "target")' = d
    BY <1>1
  <2>11. \A b \in listed'[p]["target"] : Leads(SideOf(p, "target"), b)'
    BY <2>7, <2>9, <2>10 DEF Leads
  <2> QED
    BY <2>8, <2>11 DEF ListedLead
<1> QED
  BY <1>2, <1>3

(* The rows a process has just read.                                       *)
LEMMA RowsReadLead ==
  ASSUME Typed, Honest, NEW p \in Procs, AtHome(p), NEW side \in Sides, ListCall(p, side),
         SideOf(p, side)' = SideOf(p, side)
  PROVE  RowsLead(p, side)'
<1>1. PICK d : d = SideOf(p, side)
  OBVIOUS
<1> DEFINE f == FsOf(d)
<1>2. d \in Homes
  <2>1. phase[p] = "running" /\ Step(p) = IF side = "source" THEN "list_source" ELSE "list_target"
    BY DEF ListCall, Running
  <2>2. Step(p) \in IF side = "source" THEN {"list_source", "readonly_source"}
                                       ELSE {"list_target", "readonly_target", "receive", "seal"}
    BY <2>1
  <2> QED
    BY <1>1, <2>1, <2>2, SideAtHome
<1>3. rows' = [rows EXCEPT ![p] = Rows(fs[f])] /\ f \in DOMAIN Initially
  BY <1>1, ListCallRemembered DEF Typed, DiskTyped
<1>4. rows'[p] = Rows(fs[f])
  BY <1>3 DEF Typed, MemoryTyped
<1>5. UNCHANGED <<fs, next>>
  BY DEF ListCall, disk
<1>6. WellNumbered(fs[f], next[f])
  BY <1>3 DEF Typed, DiskTyped
<1>7. \A s \in fs[f] : Distinct(d, Parent(s.path))
  BY <1>2, <1>3 DEF Honest
<1>8. ASSUME NEW r \in rows'[p]
      PROVE  Fixed(f, r.id, r.path) /\ Distinct(d, Parent(r.path))
  <2>1. PICK s \in fs[f] : r.id = s.id /\ r.path = s.path
    BY <1>4, <1>8 DEF Rows
  <2> QED
    BY <1>6, <1>7, <2>1 DEF WellNumbered, Fixed
<1>9. ASSUME NEW r \in rows'[p], NEW t \in rows'[p], r.id = t.id PROVE r = t
  <2>1. PICK s \in fs[f], u \in fs[f] :
          /\ r = [id |-> s.id, path |-> s.path, received |-> s.received]
          /\ t = [id |-> u.id, path |-> u.path, received |-> u.received]
    BY <1>4, <1>9 DEF Rows
  <2>2. s.id = u.id
    BY <1>9, <2>1
  <2>3. s = u
    BY <1>6, <2>2 DEF WellNumbered
  <2> QED
    BY <2>1, <2>3
<1>10. SideOf(p, side)' = d
  BY <1>1
<1> QED
  BY <1>3, <1>5, <1>8, <1>9, <1>10 DEF RowsLead, Fixed

(* They keep leading back, whoever steps.                                  *)
LEMMA RowsKeepLeading ==
  ASSUME Typed, NEW q \in Procs, ProcStep(q), NEW p \in Procs, NEW side \in Sides, RowsLead(p, side),
         rows'[p] = rows[p], SideOf(p, side)' = SideOf(p, side)
  PROVE  RowsLead(p, side)'
<1>1. PICK d, f : d = SideOf(p, side) /\ f = FsOf(d)
  OBVIOUS
<1>2. /\ f \in DOMAIN Initially
      /\ \A r \in rows[p] : Fixed(f, r.id, r.path) /\ Distinct(d, Parent(r.path))
      /\ \A r, t \in rows[p] : r.id = t.id => r = t
  BY <1>1 DEF RowsLead
<1>3. ASSUME NEW r \in rows[p] PROVE Fixed(f, r.id, r.path)'
  <2>1. r.id \in Nat
    BY DEF Typed, MemoryTyped, Row
  <2> QED
    BY <1>2, <2>1, FixedStays
<1>4. SideOf(p, side)' = d /\ FsOf(d) = f
  BY <1>1
<1> QED
  BY <1>2, <1>3, <1>4 DEF RowsLead, Fixed

(* What a receive has just made leads back, and is not listed yet.         *)
LEMMA ReceiveLeads ==
  ASSUME Typed, SoundLayout, NEW p \in Procs, AtHome(p), BeginReceive(p), ListedLead(p, "target"),
         SideOf(p, "target")' = SideOf(p, "target")
  PROVE  SealLeads(p)'
<1>1. SUFFICES ASSUME inflight'[p] # None PROVE SealLeads(p)'
  BY DEF SealLeads
<1>2. PICK d, i : d = SideOf(p, "target") /\ i = next[FsOf(d)]
  OBVIOUS
<1>3. PICK x \in STRING :
        d \in Homes /\ Makes(d, x) /\ inflight'[p] = [fs |-> FsOf(d), id |-> i, path |-> d.dir \o <<x>>]
  BY <1>1, <1>2, ReceiveMakes, Zenon
<1>4. /\ i < next'[FsOf(d)]
      /\ \A t \in fs'[FsOf(d)] : t.id = i => t.path = BaseOf(d) \o <<x>>
      /\ FsOf(d) \in DOMAIN Initially /\ i \in Nat
  BY <1>2, <1>3, MadeIsFixed DEF Typed
<1>5. Leaf(d.dir \o <<x>>) = x
  BY <1>3, HomesTyped, ParentOfJoin
<1> DEFINE path == d.dir \o <<x>>
<1>6. inflight'[p].fs = FsOf(d) /\ inflight'[p].id = i /\ inflight'[p].path = path
  BY <1>3
<1>7. path = d.dir \o <<Leaf(path)>> /\ Leaf(path) = x
  BY <1>5
<1> HIDE DEF path
<1>8. Leads(d, inflight[p])'
  BY <1>3, <1>4, <1>6, <1>7, Zenon DEF Leads, Fixed
<1>9. ASSUME NEW r \in listed[p].target PROVE r.id # i
  <2>1. Leads(d, r) /\ r.id \in Nat
    BY <1>2 DEF ListedLead, Typed, MemoryTyped, Known, Subvol
  <2>2. r.id < i
    BY <1>2, <2>1 DEF Leads, Fixed
  <2> QED
    BY <1>4, <2>1, <2>2
<1>10. listed' = listed /\ SideOf(p, "target")' = d
  BY <1>2 DEF BeginReceive
<1> QED
  BY <1>6, <1>8, <1>9, <1>10 DEF SealLeads, Leads

LEMMA SealKeepsLeading ==
  ASSUME Typed, NEW q \in Procs, ProcStep(q), NEW p \in Procs, SealLeads(p), SameMemory(p),
         SideOf(p, "target")' = SideOf(p, "target")
  PROVE  SealLeads(p)'
<1>1. SUFFICES ASSUME inflight[p] # None PROVE SealLeads(p)'
  BY DEF SealLeads, SameMemory
<1>2. PICK d, i : d = SideOf(p, "target") /\ i = inflight[p]
  OBVIOUS
<1>3. Leads(d, i) /\ i.fs = FsOf(d) /\ i.id \in Nat /\ \A r \in listed[p].target : r.id # i.id
  BY <1>1, <1>2 DEF SealLeads, Typed, MemoryTyped, Receiving
<1>4. Leads(d, i)'
  BY <1>3, LeadsStays
<1>5. inflight'[p] = i /\ listed'[p] = listed[p] /\ SideOf(p, "target")' = d
  BY <1>2 DEF SameMemory
<1> QED
  BY <1>3, <1>4, <1>5 DEF SealLeads, Leads

LEMMA ReadAtIs ==
  ASSUME NEW c, c.kind \in Kinds, c.set \in BOOLEAN, NEW side \in Sides
  PROVE  ReadAt(c, side) \in Int /\ ReadAt(c, side) <= ListedAt(c) /\ ReadAt(c, side) # 1
BY ListedAtIs DEF ReadAt

(* Nothing is known of a target that is yet to be picked.                  *)
LEMMA PickUnread ==
  ASSUME Typed, ReadInv, NEW p \in Procs, PickDrive(p)
  PROVE  listed[p].target = {}
<1>1. ControlTyped /\ Placed(p) /\ phase[p] = "running" /\ Step(p) = "target"
  BY DEF Typed, PickDrive, Running
<1>2. /\ StepFacts(command[p], at[p]) /\ at[p] \in Nat
      /\ command[p].kind \in Kinds /\ command[p].set \in BOOLEAN
  BY <1>1, RunningFacts
<1>3. command[p].kind = "run" /\ ~command[p].set
  BY <1>1, PickedCommand
<1>4. at[p] = 4 /\ ListedAt(command[p]) = 10
  BY <1>1, <1>2, <1>3 DEF StepFacts, Step, ListedAt
<1> QED
  BY <1>1, <1>4 DEF ReadInv, Reading

(* What a process has listed, after a step of its own.                     *)
LEMMA ListedStep ==
  ASSUME Typed, ReadInv, SoundLayout, NEW p \in Procs, LeadsBack(p), ProcStep(p), NEW side \in Sides
  PROVE  ListedLead(p, side)'
<1>1. ControlTyped /\ Placed(p) /\ AtHome(p) /\ ListedLead(p, side)
  BY DEF Typed, LeadsBack
<1>2. ASSUME listed'[p] = NothingListed PROVE ListedLead(p, side)'
  BY <1>2, NothingLeads DEF NothingListed, Sides
<1>3. CASE Forget(p)
  BY <1>2, <1>3, ForgetTyped DEF Typed
<1>4. CASE phase[p] = "idle" /\ ~Forget(p)
  <2>1. \E c \in Commands : Start(p, c)
    <3>1. ASSUME Fails(p) \/ Passes(p) \/ PickDrive(p) \/ PreHook(p) \/ PostHook(p) PROVE phase[p] = "running"
      BY <3>1 DEF Fails, Passes, PickDrive, PreHook, PostHook, Running
    <3>2. ASSUME DropGuard(p) \/ Exit(p) \/ Kill(p) \/ Delete(p) PROVE phase[p] \in {"running", "failing"}
      BY <3>2 DEF DropGuard, Exit, Kill, Delete, Running
    <3> QED
      BY <1>4, <3>1, <3>2, KindsOfStep
  <2>2. listed' = listed
    BY <1>4, <2>1 DEF Start, SetRejected, FailWith, memory
  <2> QED
    BY <1>2, <1>4, <2>2 DEF LeadsBack
<1>5. CASE ~Forget(p) /\ phase[p] # "idle"
  <2>1. /\ SideOf(p, "source")' = SideOf(p, "source")
        /\ SideOf(p, "target")' = SideOf(p, "target") \/ PickDrive(p)
    BY <1>5, SidesKept
  <2>2. CASE PickDrive(p)
    <3>1. listed' = listed /\ phase[p] = "running" /\ Step(p) = "target"
      BY <2>2 DEF PickDrive, Running, memory
    <3>2. CASE side = "source"
      BY <1>1, <2>1, <3>1, <3>2, ListedKept
    <3>3. CASE side = "target"
      <4>1. listed[p].target = {}
        BY <2>2, PickUnread
      <4> QED
        BY <3>1, <3>3, <4>1, NothingLeads
    <3> QED
      BY <3>2, <3>3 DEF Sides
  <2>3. CASE ~PickDrive(p)
    <3>1. SideOf(p, side)' = SideOf(p, side)
      BY <2>1, <2>3 DEF Sides
    <3>2. CASE TakeSnapshot(p)
      BY <1>1, <2>1, <3>2, SnapshotLeads
    <3>3. CASE \E d \in Sides : ReadonlyCall(p, d)
      <4>1. PICK d \in Sides : ReadonlyCall(p, d)
        BY <3>3
      <4>2. CASE d # side
        <5>1. listed'[p][side] = listed[p][side]
          BY <4>1, <4>2, ReadonlyCallRemembered
        <5> QED
          BY <1>1, <3>1, <5>1, ListedKept
      <4>3. CASE d = side
        <5>1. phase[p] = "running" /\ Step(p) = IF side = "source" THEN "readonly_source" ELSE "readonly_target"
          BY <4>1, <4>3 DEF ReadonlyCall, Running
        <5>2. at[p] = ReadAt(command[p], side)
          BY <1>1, <5>1, RunningFacts DEF StepFacts, Step, ReadAt, Sides
        <5>3. RowsLead(p, side)
          BY <5>1, <5>2 DEF LeadsBack
        <5> QED
          BY <1>1, <3>1, <4>1, <4>3, <5>3, ReadonlyLeads
      <4> QED
        BY <4>2, <4>3
    <3>4. CASE SealReceive(p)
      <4>1. CASE side = "source"
        <5>1. listed'[p].source = listed[p].source
          BY <3>4, Zenon DEF SealReceive, Typed, MemoryTyped, Known
        <5> QED
          BY <1>1, <3>1, <4>1, <5>1, ListedKept
      <4>2. CASE side = "target"
        <5>1. SealLeads(p)
          BY <3>4, Zenon DEF SealReceive, Running, LeadsBack
        <5> QED
          BY <1>1, <3>1, <3>4, <4>2, <5>1, SealedLeads
      <4> QED
        BY <4>1, <4>2 DEF Sides
    <3>5. CASE ~TakeSnapshot(p) /\ ~SealReceive(p) /\ \A d \in Sides : ~ReadonlyCall(p, d)
      <4>1. ASSUME \/ RefuseRawRemote(p) \/ Fail(p) \/ ReceiveFails(p) \/ \E d \in Sides : Declined(p, d)
                   \/ PostHook(p) \/ Exit(p) \/ Kill(p)
            PROVE  FALSE
        BY <1>5, <4>1 DEF RefuseRawRemote, Fail, ReceiveFails, Declined, PostHook, Exit, Kill, FailWith, Gone
      <4>2. ~\E c \in Commands : Start(p, c)
        BY <1>5 DEF Start
      <4>3. ASSUME \/ Check(p) \/ PickDrive(p) \/ \E d \in Sides : EnsureDir(p, d) \/ ListCall(p, d)
                   \/ PreHook(p) \/ DropGuard(p) \/ PruneDone(p) \/ RestoreTo(p)
                   \/ BeginReceive(p) \/ Schedule(p) \/ Delete(p)
            PROVE  listed' = listed
        BY <4>3, Zenon DEF Check, PickDrive, EnsureDir, ListCall, PreHook, DropGuard, PruneDone,
                    RestoreTo, BeginReceive, Schedule, Delete, memory
      <4>4. listed' = listed
        BY <3>5, <4>1, <4>2, <4>3 DEF ProcStep
      <4> QED
        BY <1>1, <3>1, <4>4, ListedKept
    <3> QED
      BY <3>2, <3>3, <3>4, <3>5
  <2> QED
    BY <2>2, <2>3
<1> QED
  BY <1>3, <1>4, <1>5

(* What it is about to make of what it has read or made.                   *)
LEMMA AboutToLead ==
  ASSUME Typed, SoundLayout, Honest, NEW p \in Procs, LeadsBack(p), ProcStep(p), phase'[p] = "running"
  PROVE  /\ \A side \in Sides : at'[p] = ReadAt(command'[p], side) => RowsLead(p, side)'
         /\ Step(p)' = "seal" => SealLeads(p)'
<1> DEFINE c == command[p]
           d == command'[p]
<1>1. Typed' /\ ControlTyped /\ Placed(p) /\ Placed(p)' /\ AtHome(p)
  BY TypedNext DEF Typed, Next, LeadsBack
<1>2. /\ StepFacts(d, at'[p]) /\ at'[p] \in Nat \ {0} /\ d.kind \in Kinds /\ d.set \in BOOLEAN
  <2>1. Parsed(d) /\ at'[p] \in 1 .. Len(Steps(d))
    BY <1>1 DEF Placed
  <2>2. d.kind \in Kinds /\ d.set \in BOOLEAN /\ Len(Steps(d)) \in 1 .. 16
    BY <2>1, ParsedFacts, StepsTyped
  <2> QED
    BY <2>1, <2>2, StepFactsHold
<1>3. Step(p)' = Steps(d)[at'[p]]
  BY DEF Step
<1>4. \A side \in Sides : ReadAt(d, side) \in Int /\ ReadAt(d, side) <= ListedAt(d) /\ ReadAt(d, side) # 1
  BY <1>2, ReadAtIs
<1>5. ListedAt(d) \in Nat
  BY <1>2, ListedAtIs
<1>6. CASE at'[p] = 1
  BY <1>2, <1>3, <1>4, <1>5, <1>6 DEF StepFacts
<1>7. ASSUME phase[p] = "running"
      PROVE  StepFacts(c, at[p]) /\ at[p] \in Nat \ {0} /\ ListedAt(c) \in Nat
  BY <1>1, <1>7, RunningFacts, ListedAtIs
<1>8. CASE phase[p] = "running" /\ ListedAt(d) = ListedAt(c) /\ Delete(p) /\ at'[p] = at[p] /\ at[p] > ListedAt(c)
  <2>1. \A side \in Sides : at'[p] # ReadAt(d, side)
    BY <1>2, <1>4, <1>5, <1>8
  <2>2. d = c /\ Step(p) = "delete"
    BY <1>8 DEF Delete, control, Running
  <2>3. Step(p)' # "seal"
    BY <1>3, <1>8, <2>2 DEF Step
  <2> QED
    BY <2>1, <2>3
<1>9. CASE /\ phase[p] = "running" /\ ListedAt(d) = ListedAt(c)
           /\ at'[p] = at[p] + 1 /\ entry'[p] = entry[p] /\ (d = c \/ PickDrive(p))
  <2>1. ASSUME NEW side \in Sides, at'[p] = ReadAt(d, side) PROVE RowsLead(p, side)'
    <3>1. Step(p) = IF side = "source" THEN "list_source" ELSE "list_target"
      <4>1. at[p] = IF side = "source" THEN ListedAt(c) - 3 ELSE ListedAt(c) - 1
        BY <1>7, <1>9, <2>1 DEF ReadAt
      <4> QED
        BY <1>7, <1>9, <4>1 DEF StepFacts, Step
    <3>2. ListCall(p, side)
      BY <1>9, <3>1, WhichStep DEF Sides
    <3>3. ~PickDrive(p)
      BY <3>1 DEF PickDrive, Running
    <3>4. SideOf(p, side)' = SideOf(p, side)
      BY <1>9, <3>3 DEF SideOf, EntryOf
    <3> QED
      BY <1>1, <3>2, <3>4, RowsReadLead
  <2>2. ASSUME Step(p)' = "seal" PROVE SealLeads(p)'
    <3>1. d.kind \in {"run", "resume"} /\ at'[p] = ListedAt(d) + 2
      BY <1>2, <1>3, <2>2 DEF StepFacts
    <3>2. c.kind = d.kind
      BY <1>1, <1>9, PickedCommand
    <3>3. Step(p) = "receive"
      BY <1>7, <1>9, <3>1, <3>2 DEF StepFacts, Step
    <3>4. BeginReceive(p) /\ ~PickDrive(p)
      BY <1>9, <3>3, WhichStep DEF PickDrive, Running
    <3>5. SideOf(p, "target")' = SideOf(p, "target")
      BY <1>9, <3>4 DEF SideOf, EntryOf
    <3> QED
      BY <1>1, <3>4, <3>5, ReceiveLeads DEF LeadsBack, Sides
  <2> QED
    BY <2>1, <2>2
<1> QED
  BY GoesOn, <1>6, <1>8, <1>9

LEMMA StepLeavesIdle ==
  ASSUME Typed, NEW p \in Procs, ProcStep(p)
  PROVE  phase'[p] # "idle"
<1>1. Placed(p) /\ ControlTyped
  BY DEF Typed
<1>2. ASSUME NEW e, FailWith(p, e) PROVE phase'[p] = "failing"
  BY <1>1, <1>2 DEF FailWith, ControlTyped
<1>3. ASSUME Advance(p), phase[p] = "running" PROVE phase'[p] \in {"running", "failing"}
  BY <1>1, <1>3 DEF Advance, ControlTyped
<1>4. ASSUME NEW d \in Commands, Start(p, d) PROVE phase'[p] # "idle"
  BY <1>1, <1>4, StartTyped
<1>5. ASSUME Fails(p) \/ Passes(p) \/ PickDrive(p) \/ PreHook(p) PROVE phase'[p] # "idle"
  BY <1>2, <1>3, <1>5 DEF Fails, Passes, StepDone, PickDrive, PreHook, Running
<1>6. ASSUME PostHook(p) PROVE phase'[p] # "idle"
  BY <1>1, <1>3, <1>6 DEF PostHook, Running, ControlTyped
<1>7. ASSUME DropGuard(p) \/ Exit(p) \/ Kill(p) \/ Delete(p) PROVE phase'[p] # "idle"
  BY <1>1, <1>7 DEF DropGuard, Exit, Kill, Delete, control, Running, ControlTyped
<1> QED
  BY KindsOfStep, <1>4, <1>5, <1>6, <1>7

LEMMA LeadsBackStep ==
  ASSUME Typed, ReadInv, SoundLayout, Honest, NEW p \in Procs, LeadsBack(p), ProcStep(p)
  PROVE  LeadsBack(p)'
<1>1. AtHome(p)'
  BY AtHomeStep DEF LeadsBack
<1>2. phase'[p] # "idle"
  BY StepLeavesIdle
<1>3. \A side \in Sides : ListedLead(p, side)'
  BY ListedStep
<1> QED
  BY <1>1, <1>2, <1>3, AboutToLead DEF LeadsBack

LEMMA OthersLeadBack ==
  ASSUME Typed, NEW q \in Procs, ProcStep(q), NEW p \in Procs, p # q, LeadsBack(p)
  PROVE  LeadsBack(p)'
<1>1. SameControl(p) /\ SameMemory(p)
  BY OthersKeepControl, OthersKeepMemory DEF Typed
<1>2. \A side \in Sides : SideOf(p, side)' = SideOf(p, side)
  BY <1>1 DEF SameControl, SideOf, EntryOf
<1>3. AtHome(p)'
  BY <1>1 DEF LeadsBack, AtHome, SameControl
<1>4. \A side \in Sides : ListedLead(p, side)'
  BY <1>1, <1>2, ListedKept DEF LeadsBack, SameMemory
<1>5. \A side \in Sides : RowsLead(p, side) => RowsLead(p, side)'
  BY <1>1, <1>2, RowsKeepLeading DEF SameMemory
<1>6. SealLeads(p) => SealLeads(p)'
  BY <1>1, <1>2, SealKeepsLeading DEF Sides
<1>7. Step(p)' = Step(p)
  BY <1>1 DEF Step, SameControl
<1>8. phase'[p] = phase[p] /\ at'[p] = at[p] /\ command'[p] = command[p] /\ listed'[p] = listed[p]
  BY <1>1 DEF SameControl, SameMemory
<1>9. ASSUME phase'[p] = "running"
      PROVE  /\ \A side \in Sides : at'[p] = ReadAt(command'[p], side) => RowsLead(p, side)'
             /\ Step(p)' = "seal" => SealLeads(p)'
  BY <1>5, <1>6, <1>7, <1>8, <1>9 DEF LeadsBack
<1> QED
  BY <1>3, <1>4, <1>8, <1>9 DEF LeadsBack

LEMMA LeadNext ==
  ASSUME Typed, ReadInv, SoundLayout, LeadInv, [Next]_vars
  PROVE  LeadInv'
<1>1. CASE UNCHANGED vars
  <2>1. UNCHANGED <<phase, command, entry, at, fs, next, rows, listed, inflight>>
    BY <1>1 DEF vars, control, disk, memory
  <2>2. \A p \in Procs : \A side \in Sides : SideOf(p, side)' = SideOf(p, side)
    BY <2>1 DEF SideOf, EntryOf
  <2>3. Honest'
    BY <2>1 DEF LeadInv, Honest
  <2>4. ASSUME NEW p \in Procs PROVE LeadsBack(p)'
    <3>1. LeadsBack(p)
      BY DEF LeadInv
    <3>2. AtHome(p)' /\ Step(p)' = Step(p)
      BY <2>1, <3>1 DEF LeadsBack, AtHome, Step
    <3>3. ASSUME NEW side \in Sides PROVE ListedLead(p, side)' /\ (RowsLead(p, side) => RowsLead(p, side)')
      <4>1. PICK d : d = SideOf(p, side)
        OBVIOUS
      <4>2. SideOf(p, side)' = d
        BY <2>2, <4>1
      <4>3. ListedLead(p, side)
        BY <3>1 DEF LeadsBack
      <4>4. ListedLead(p, side)'
        BY <2>1, <4>1, <4>2, <4>3 DEF ListedLead, OneEach, Leads, Fixed
      <4> QED
        BY <2>1, <4>1, <4>2, <4>4 DEF RowsLead, Fixed
    <3>4. SealLeads(p) => SealLeads(p)'
      <4>1. PICK d : d = SideOf(p, "target")
        OBVIOUS
      <4>2. SideOf(p, "target")' = d
        BY <2>2, <4>1 DEF Sides
      <4> QED
        BY <2>1, <4>1, <4>2 DEF SealLeads, Leads, Fixed
    <3> QED
      BY <2>1, <3>1, <3>2, <3>3, <3>4 DEF LeadsBack
  <2> QED
    BY <2>3, <2>4 DEF LeadInv
<1>2. ASSUME NEW q \in Procs, ProcStep(q) PROVE LeadInv'
  <2>1. LeadsBack(q) /\ AtHome(q) /\ Honest
    BY DEF LeadInv, LeadsBack
  <2>2. Honest'
    BY <1>2, <2>1, HonestNext
  <2>3. LeadsBack(q)'
    BY <1>2, <2>1, LeadsBackStep
  <2>4. ASSUME NEW p \in Procs, p # q PROVE LeadsBack(p)'
    BY <1>2, <2>4, OthersLeadBack DEF LeadInv
  <2> QED
    BY <2>2, <2>3, <2>4 DEF LeadInv
<1> QED
  BY <1>1, <1>2 DEF Next

LEMMA LeadInit ==
  ASSUME Init, SoundLayout
  PROVE  LeadInv
<1>1. Honest
  BY HonestInit
<1>2. ASSUME NEW p \in Procs PROVE LeadsBack(p)
  <2>1. phase[p] = "idle" /\ listed[p] = NothingListed
    BY DEF Init
  <2>2. \A side \in Sides : ListedLead(p, side)
    BY <2>1 DEF ListedLead, OneEach, NothingListed, Sides
  <2> QED
    BY <2>1, <2>2 DEF LeadsBack, AtHome
<1> QED
  BY <1>1, <1>2 DEF LeadInv

LEMMA LeadAlways == SoundLayout => (Spec => [](Typed /\ ReadInv /\ LeadInv))
<1> SUFFICES ASSUME SoundLayout PROVE Spec => [](Typed /\ ReadInv /\ LeadInv)
  OBVIOUS
<1>1. Init => LeadInv
  BY LeadInit
<1>2. Typed /\ ReadInv /\ LeadInv /\ [Next]_vars => LeadInv'
  BY LeadNext
<1> QED
  BY <1>1, <1>2, ReadAlways, PTL DEF Spec

(* In a sound layout a subvolume is found again under the path it is       *)
(* listed under, on the filesystem it was listed on.  The layout is an     *)
(* assumption about the machine, not about the code: no mount hides a      *)
(* directory (Unhidden), and nothing outside a mounted subvolume is listed *)
(* as if it were in a directory of the commands (Distinct).                *)
THEOREM PathsLeadBack == SoundLayout => (Spec => []ListedPathsLeadBack)
<1> SUFFICES ASSUME SoundLayout PROVE Spec => []ListedPathsLeadBack
  OBVIOUS
<1>1. ASSUME Typed, LeadInv, NEW p \in Procs, NEW side \in Sides, NEW r \in listed[p][side]
      PROVE  LET d == SideOf(p, side)
                 place == PlaceOf(d.host, r.path)
             IN  /\ place.fs = FsOf(d)
                 /\ \A s \in fs[place.fs] : s.id = r.id => s.path = place.path
  <2>1. PICK d : d = SideOf(p, side)
    OBVIOUS
  <2>2. Leads(d, r) /\ r.path \in Place
    BY <1>1, <2>1 DEF LeadInv, LeadsBack, ListedLead, Typed, MemoryTyped, Known, Sides, Subvol, Place
  <2> DEFINE x == Leaf(r.path)
  <2>3. d \in Homes /\ r.path = d.dir \o <<x>> /\ Fixed(FsOf(d), r.id, BaseOf(d) \o <<x>>)
    BY <2>2 DEF Leads
  <2>4. x \in STRING /\ Unhidden(d)
    BY <2>2, <2>3, LeafTyped DEF SoundLayout
  <2> HIDE DEF x
  <2>5. PlaceOf(d.host, r.path).fs = FsOf(d) /\ PlaceOf(d.host, r.path).path = BaseOf(d) \o <<x>>
    BY <2>3, <2>4, PlaceBelow
  <2> QED
    BY <2>1, <2>3, <2>5, Zenon DEF Fixed
<1>2. Typed /\ LeadInv => ListedPathsLeadBack
  BY <1>1 DEF ListedPathsLeadBack
<1> QED
  BY <1>2, LeadAlways, PTL

-----------------------------------------------------------------------------
(* Deletes                                                                 *)

(* Of what is doomed the oldest goes first.                                *)
LEMMA OldestDoomed ==
  ASSUME NEW S \in SUBSET Subvol, S # {}
  PROVE  \E r \in S : \A o \in S : r.id <= o.id
<1> DEFINE ids == {s.id : s \in S}
<1>1. ids \subseteq Nat /\ ids # {}
  BY DEF Subvol
<1>2. \E m \in ids : \A k \in ids : ~ (<<k, m>> \in OpToRel(<, Nat))
  BY <1>1, NatLessThanWellFounded, WFMin, Zenon
<1>3. PICK m \in ids : \A k \in ids : ~ (<<k, m>> \in OpToRel(<, Nat))
  BY <1>2, Zenon
<1>4. m \in Nat /\ \A k \in ids : k \in Nat /\ ~(k < m)
  BY <1>1, <1>3, Zenon DEF OpToRel
<1>5. \A k \in ids : m <= k
  BY <1>4
<1>6. PICK r \in S : r.id = m
  OBVIOUS
<1> QED
  BY <1>5, <1>6

LEMMA NextDoomedIs ==
  ASSUME Typed, NEW p \in Procs, Undone(p)
  PROVE  NextDoomed(p).side \in Sides /\ NextDoomed(p).row \in doomed[p][NextDoomed(p).side]
<1> DEFINE side == IF doomed[p].target # {} THEN "target" ELSE "source"
           oldest(r) == \A o \in doomed[p][side] : r.id <= o.id
<1>1. side \in Sides /\ doomed[p][side] # {}
  BY DEF Undone, Sides
<1>2. doomed[p][side] \in SUBSET Subvol
  BY <1>1 DEF Typed, MemoryTyped, Known, Sides
<1> HIDE DEF side
<1>3. \E r \in doomed[p][side] : oldest(r)
  BY <1>1, <1>2, OldestDoomed
<1>4. (CHOOSE r \in doomed[p][side] : oldest(r)) \in doomed[p][side]
  BY <1>3
<1>5. NextDoomed(p) = [side |-> side, row |-> CHOOSE r \in doomed[p][side] : oldest(r)]
  BY DEF NextDoomed, side
<1> QED
  BY <1>1, <1>4, <1>5

(* A delete takes the subvolume it means, and no other.                    *)
LEMMA DeleteTakes ==
  ASSUME Typed, SoundLayout, NEW p \in Procs, LeadsBack(p), StillThere(p), Mutates(command[p]), Delete(p),
         NEW side, NEW n, side = NextDoomed(p).side, n = NextDoomed(p).row
  PROVE  /\ side \in Sides /\ n \in doomed[p][side] /\ n \in listed[p][side]
         /\ FsOf(SideOf(p, side)) \in DOMAIN Initially
         /\ \/ fs' = fs
            \/ fs' = [fs EXCEPT ![FsOf(SideOf(p, side))] = @ \ {s \in @ : s.id = n.id}]
<1>1. phase[p] = "running" /\ Step(p) = "delete" /\ Undone(p) /\ Placed(p)
  BY DEF Delete, Running, Typed
<1>2. side \in Sides /\ n \in doomed[p][side]
  BY <1>1, NextDoomedIs
<1>3. StepFacts(command[p], at[p]) /\ command[p].set \in BOOLEAN /\ command[p].kind \in Kinds /\ at[p] \in Nat
  BY <1>1, RunningFacts
<1>4. at[p] = DeletedAt(command[p]) /\ command[p].kind \in {"run", "resume", "prune"}
  BY <1>1, <1>3 DEF StepFacts, Step
<1>5. n \in listed[p][side] /\ There(FsOf(SideOf(p, side)), n.id)
  BY <1>1, <1>2, <1>4 DEF StillThere
<1>6. PICK d : d = SideOf(p, side)
  OBVIOUS
<1>7. Leads(d, n) /\ n.path \in Place
  BY <1>2, <1>5, <1>6 DEF LeadsBack, ListedLead, Typed, MemoryTyped, Known, Sides, Subvol, Place
<1> DEFINE x == Leaf(n.path)
           f == FsOf(d)
           path == BaseOf(d) \o <<x>>
<1>8. x \in STRING /\ d \in Homes /\ Unhidden(d)
  BY <1>7, LeafTyped DEF Leads, SoundLayout
<1> HIDE DEF x
<1>9. n.path = d.dir \o <<x>> /\ f \in DOMAIN Initially /\ \A s \in fs[f] : s.id = n.id => s.path = path
  BY <1>7 DEF Leads, Fixed, x
<1>10. PlaceOf(d.host, n.path).fs = f /\ PlaceOf(d.host, n.path).path = path
  BY <1>8, <1>9, PlaceBelow
<1>11. Route(EntryOf(p).target, n.path) = d.host
  <2>1. command[p].kind # "run" \/ at[p] > 4
    BY <1>3, <1>4, ListedAtIs DEF DeletedAt
  <2>2. EntryOf(p).target # None
    BY <1>1, <2>1, TargetAtHome DEF LeadsBack
  <2>3. PICK e \in Entries :
           /\ SideOf(p, "source") = SourceOf(e) /\ EntryOf(p).snapshots = e.snapshots
           /\ SideOf(p, "target") = EntryOf(p).target
           /\ EntryOf(p).target \in TargetsOf(e)
    BY <1>1, <2>2, SidesAtHome DEF LeadsBack
  <2>4. PICK t \in TargetsOf(e) : t = EntryOf(p).target
    BY <2>3
  <2>5. Route(t, t.dir \o <<x>>) = t.host /\ Route(t, e.snapshots \o <<x>>) = "here"
    BY <1>8, RoutesHome
  <2>6. CASE side = "source"
    <3>1. d.host = "here" /\ d.dir = e.snapshots
      BY <1>6, <2>3, <2>6 DEF SourceOf
    <3> QED
      BY <1>9, <2>4, <2>5, <3>1
  <2>7. CASE side = "target"
    <3>1. d = t
      BY <1>6, <2>3, <2>4, <2>7
    <3> QED
      BY <1>9, <2>4, <2>5, <3>1
  <2> QED
    BY <1>2, <2>6, <2>7 DEF Sides
<1> HIDE DEF f, path
<1>12. SubvolAt(d.host, n.path) = {s \in fs[f] : s.id = n.id}
  <2>1. SubvolAt(d.host, n.path) = {s \in fs[f] : s.path = path}
    BY <1>10 DEF SubvolAt
  <2>2. PICK s \in fs[f] : s.id = n.id
    BY <1>5, <1>6 DEF There, f
  <2>3. \A t \in fs[f] : t.path = path => t.id = n.id
    BY <1>9, <2>2 DEF Typed, DiskTyped, WellNumbered
  <2> QED
    BY <1>9, <2>1, <2>3
<1>13. \/ fs' = fs
       \/ fs' = [fs EXCEPT ![f] = @ \ {s \in fs[f] : s.id = n.id}]
  <2>1. \/ fs' = fs
        \/ LET path2 == NextDoomed(p).row.path
               host == Route(EntryOf(p).target, path2)
           IN  fs' = [fs EXCEPT ![PlaceOf(host, path2).fs] = @ \ SubvolAt(host, path2)]
    BY DEF Delete
  <2>2. \/ fs' = fs
        \/ fs' = [fs EXCEPT ![PlaceOf(d.host, n.path).fs] = @ \ SubvolAt(d.host, n.path)]
    BY <1>11, <2>1
  <2> QED
    BY <1>10, <1>12, <2>2
<1>14. f = FsOf(SideOf(p, side))
  BY <1>6 DEF f
<1> QED
  BY <1>2, <1>5, <1>9, <1>13, <1>14

-----------------------------------------------------------------------------
(* The lock                                                                *)

LEMMA MutatesSame ==
  ASSUME NEW c, NEW d, c.kind = d.kind, c.dry = d.dry
  PROVE  Mutates(c) = Mutates(d)
BY DEF Mutates

(* Whoever runs a command that changes anything holds its lock.            *)
LEMMA LockedStep ==
  ASSUME Typed, NEW p \in Procs, Locked(p), ProcStep(p)
  PROVE  Locked(p)'
<1>1. ControlTyped /\ Placed(p) /\ LockOf[p] \in Locks
  BY CommandLineAssumption DEF Typed
<1>2. SUFFICES ASSUME phase'[p] = "running", Mutates(command'[p]) PROVE holder'[LockOf[p]] = p
  BY DEF Locked
<1>3. ASSUME NEW c \in Commands, Start(p, c) PROVE holder'[LockOf[p]] = p
  <2>1. command'[p] = c
    BY <1>1, <1>3, StartTyped
  <2>2. \A e \in Failures : ~FailWith(p, e)
    BY <1>1, <1>2, FailsTyped
  <2>3. holder' = IF Mutates(c) THEN [holder EXCEPT ![LockOf[p]] = p] ELSE holder
    BY <1>3, <2>2 DEF Start, Failures
  <2>4. holder' = [holder EXCEPT ![LockOf[p]] = p]
    BY <1>2, <2>1, <2>3
  <2> QED
    BY <1>1, <2>4 DEF ControlTyped
<1>4. ASSUME phase[p] = "running", command'[p] = command[p], holder' = holder PROVE holder'[LockOf[p]] = p
  BY <1>2, <1>4 DEF Locked
<1>5. ASSUME Passes(p) \/ PreHook(p) \/ PostHook(p) \/ Delete(p) PROVE holder'[LockOf[p]] = p
  <2>1. phase[p] = "running" /\ command' = command /\ holder' = holder
    BY <1>5 DEF Passes, StepDone, PreHook, PostHook, Delete, Running, control
  <2> QED
    BY <1>4, <2>1
<1>6. ASSUME PickDrive(p) PROVE holder'[LockOf[p]] = p
  <2>1. phase[p] = "running" /\ holder' = holder
    BY <1>6 DEF PickDrive, Running
  <2>2. command'[p].kind = command[p].kind /\ command'[p].dry = command[p].dry
    BY <1>1, <1>6, PickedCommand
  <2>3. Mutates(command[p])
    BY <1>2, <2>2, MutatesSame
  <2> QED
    BY <2>1, <2>3 DEF Locked
<1>7. ~Fails(p) /\ ~DropGuard(p) /\ ~Exit(p) /\ ~Kill(p)
  <2>1. ~Fails(p)
    <3>1. ASSUME NEW e, FailWith(p, e) PROVE phase'[p] = "failing"
      BY <1>1, <3>1 DEF FailWith, ControlTyped
    <3> QED
      BY <1>2, <3>1 DEF Fails
  <2> QED
    BY <1>1, <1>2, <2>1 DEF DropGuard, Exit, Kill, ControlTyped
<1> QED
  BY KindsOfStep, <1>3, <1>5, <1>6, <1>7

(* A lock that is held is not taken or freed by others.                    *)
LEMMA OthersKeepLocked ==
  ASSUME Typed, NEW q \in Procs, ProcStep(q), NEW p \in Procs, p # q, Locked(p)
  PROVE  Locked(p)'
<1>1. ControlTyped /\ LockOf[p] \in Locks /\ None \notin Procs
  BY CommandLineAssumption DEF Typed
<1>2. phase'[p] = phase[p] /\ command'[p] = command[p]
  BY OthersKeepControl DEF SameControl, Typed
<1>3. ASSUME holder[LockOf[p]] = p PROVE holder'[LockOf[p]] = p
  <2>1. ASSUME NEW c \in Commands, Start(q, c) PROVE holder'[LockOf[p]] = p
    <3>1. holder' = holder \/ (holder[LockOf[q]] = None /\ holder' = [holder EXCEPT ![LockOf[q]] = q])
      BY <2>1 DEF Start
    <3> QED
      BY <1>1, <1>3, <3>1 DEF ControlTyped
  <2>2. ASSUME Exit(q) \/ Kill(q) PROVE holder'[LockOf[p]] = p
    BY <1>1, <1>3, <2>2 DEF Exit, Kill, Gone
  <2>3. ASSUME Fails(q) \/ Passes(q) \/ PickDrive(q) \/ PreHook(q) \/ PostHook(q) \/ DropGuard(q) \/ Delete(q)
        PROVE  holder' = holder
    BY <2>3 DEF Fails, Passes, StepDone, PickDrive, PreHook, PostHook, DropGuard, Delete, control
  <2> QED
    BY <1>3, <2>1, <2>2, <2>3, KindsOfStep
<1> QED
  BY <1>2, <1>3 DEF Locked

(* Whoever changes anything on disk runs a command that takes the lock.    *)
LEMMA ChangersMutate ==
  ASSUME Typed, NEW p \in Procs, ProcStep(p), fs' # fs
  PROVE  phase[p] = "running" /\ Mutates(command[p])
<1>1. disk' # disk
  BY DEF disk
<1>2. /\ phase[p] = "running"
      /\ \/ Step(p) \in {"snapshot_dir", "target_dir", "snapshot", "receive", "seal"}
         \/ Step(p) \in {"delete", "restore"} /\ ~command[p].dry
  BY <1>1, DiskSteps
<1>3. StepFacts(command[p], at[p])
  BY <1>2, RunningFacts DEF Typed
<1>4. CASE Step(p) \in {"snapshot_dir", "target_dir", "snapshot", "receive", "seal"}
  BY <1>2, <1>3, <1>4 DEF StepFacts, Step, Hooked, Mutates
<1>5. CASE Step(p) \in {"delete", "restore"} /\ ~command[p].dry
  BY <1>2, <1>3, <1>5 DEF StepFacts, Step, Mutates
<1> QED
  BY <1>2, <1>4, <1>5

(* Others leave what a process with the lock has listed.                   *)
LEMMA OthersLeaveIt ==
  ASSUME Typed, OneLock, NEW q \in Procs, ProcStep(q), NEW p \in Procs, p # q, Locked(p), Locked(q), StillThere(p)
  PROVE  StillThere(p)'
<1>1. SameControl(p) /\ SameMemory(p)
  BY OthersKeepControl, OthersKeepMemory DEF Typed
<1>2. phase'[p] = phase[p] /\ command'[p] = command[p] /\ at'[p] = at[p] /\ entry'[p] = entry[p]
  BY <1>1 DEF SameControl
<1>3. rows'[p] = rows[p] /\ listed'[p] = listed[p] /\ doomed'[p] = doomed[p]
  BY <1>1 DEF SameMemory
<1>4. SUFFICES ASSUME phase[p] = "running", Mutates(command[p]) PROVE StillThere(p)'
  BY <1>2 DEF StillThere
<1>5. LockOf[q] = LockOf[p]
  BY DEF OneLock
<1>6. fs' = fs
  BY <1>4, <1>5, ChangersMutate DEF Locked
<1>7. \A side \in Sides : FsOf(SideOf(p, side))' = FsOf(SideOf(p, side))
  BY <1>2 DEF FsOf, SideOf, EntryOf
<1> QED
  BY <1>2, <1>3, <1>6, <1>7 DEF StillThere, There

(* Of its own steps, only a delete takes anything away.                    *)
LEMMA StillThereAfter ==
  ASSUME Typed, NEW p \in Procs, ProcStep(p), ~Delete(p), ~ReceiveFails(p),
         NEW f, NEW i, There(f, i)
  PROVE  There(f, i)'
<1>1. ASSUME fs[f] \subseteq fs'[f] PROVE There(f, i)'
  BY <1>1 DEF There
<1>2. ASSUME fs' = fs PROVE There(f, i)'
  BY <1>1, <1>2
<1>3. ASSUME NEW h, NEW path, NEW ro, Create(h, path, ro) PROVE There(f, i)'
  <2>1. \E x, S : fs' = [fs EXCEPT ![x] = @ \cup S]
    BY <1>3, Zenon DEF Create
  <2>2. fs[f] \subseteq fs'[f]
    BY <2>1
  <2> QED
    BY <1>1, <2>2
<1>4. CASE TakeSnapshot(p) \/ BeginReceive(p) \/ RestoreTo(p)
  BY <1>2, <1>3, <1>4, Zenon DEF TakeSnapshot, BeginReceive, RestoreTo
<1>5. CASE SealReceive(p)
  <2>1. CASE inflight[p] = None
    BY <1>2, <1>5, <2>1 DEF SealReceive
  <2>2. CASE inflight[p] # None
    <3>1. fs' = [fs EXCEPT ![inflight[p].fs] = (@ \ Received(p)) \cup {Sealed(s) : s \in Received(p)}]
      BY <1>5, <2>2, Zenon DEF SealReceive, Sealed
    <3>2. inflight[p].fs \in DOMAIN Initially /\ DOMAIN fs = DOMAIN Initially
      BY <2>2 DEF Typed, DiskTyped, MemoryTyped, Receiving
    <3>3. CASE f # inflight[p].fs
      <4>1. fs'[f] = fs[f]
        BY <3>1, <3>3
      <4> QED
        BY <1>1, <4>1
    <3>4. CASE f = inflight[p].fs
      <4>1. fs'[f] = (fs[f] \ Received(p)) \cup {Sealed(s) : s \in Received(p)}
        BY <3>1, <3>2, <3>4
      <4>2. PICK s \in fs[f] : s.id = i
        BY DEF There
      <4>3. s \in Subvol
        BY <3>2, <3>4 DEF Typed, DiskTyped, WellNumbered
      <4>4. s \in fs'[f] \/ Sealed(s) \in fs'[f]
        BY <4>1
      <4> QED
        BY <4>2, <4>3, <4>4, SealedTyped DEF There
    <3> QED
      BY <3>3, <3>4
  <2> QED
    BY <2>1, <2>2
<1>6. CASE ~TakeSnapshot(p) /\ ~BeginReceive(p) /\ ~RestoreTo(p) /\ ~SealReceive(p)
  <2>1. ASSUME \/ \E c \in Commands : Start(p, c)
               \/ Check(p) \/ PickDrive(p) \/ RefuseRawRemote(p)
               \/ \E d \in Sides : EnsureDir(p, d) \/ Declined(p, d)
               \/ PreHook(p) \/ PostHook(p) \/ Fail(p) \/ DropGuard(p) \/ Exit(p) \/ Kill(p)
               \/ \E d \in Sides : ListCall(p, d) \/ ReadonlyCall(p, d)
               \/ Schedule(p) \/ PruneDone(p)
        PROVE  fs' = fs
    BY <2>1 DEF Start, Check, PickDrive, RefuseRawRemote, EnsureDir, Declined, PreHook, PostHook, Fail,
                DropGuard, Exit, Kill, ListCall, ReadonlyCall, Schedule, PruneDone, disk
  <2> QED
    BY <1>2, <1>6, <2>1 DEF ProcStep
<1> QED
  BY <1>4, <1>5, <1>6

(* What a process has listed is still there after a step of its own that   *)
(* deletes nothing.                                                        *)
LEMMA ListedStay ==
  ASSUME Typed, ReadInv, SoundLayout, NEW p \in Procs, LeadsBack(p), ProcStep(p),
         phase[p] = "running", phase'[p] = "running", ~Delete(p), ~Forget(p), NEW side \in Sides,
         \A r \in listed[p][side] : There(FsOf(SideOf(p, side)), r.id),
         at[p] = ReadAt(command[p], side) => \A r \in rows[p] : There(FsOf(SideOf(p, side)), r.id)
  PROVE  \A r \in listed'[p][side] : There(FsOf(SideOf(p, side)), r.id)'
<1>1. ControlTyped /\ Placed(p) /\ AtHome(p)
  BY DEF Typed, LeadsBack
<1> DEFINE Goal == \A r \in listed'[p][side] : There(FsOf(SideOf(p, side)), r.id)'
<1>2. ~ReceiveFails(p)
  BY DEF ReceiveFails, FailWith
<1>3. PICK f : f = FsOf(SideOf(p, side))
  OBVIOUS
<1>4. ASSUME NEW i, There(f, i) PROVE There(f, i)'
  BY <1>2, <1>4, StillThereAfter
<1>5. /\ SideOf(p, "source")' = SideOf(p, "source")
      /\ SideOf(p, "target")' = SideOf(p, "target") \/ PickDrive(p)
  BY SidesKept
<1>6. ASSUME SideOf(p, side)' = SideOf(p, side), \A r \in listed'[p][side] : There(f, r.id)' PROVE Goal
  <2>1. FsOf(SideOf(p, side))' = f
    BY <1>3, <1>6 DEF FsOf
  <2> QED
    BY <1>6, <2>1 DEF There
<1>7. ASSUME SideOf(p, side)' = SideOf(p, side), listed'[p][side] = listed[p][side] PROVE Goal
  <2>1. \A r \in listed'[p][side] : There(f, r.id)'
    BY <1>3, <1>4, <1>7
  <2> QED
    BY <1>6, <1>7, <2>1
<1>8. CASE PickDrive(p)
  <2>1. listed' = listed
    BY <1>8 DEF PickDrive, memory
  <2>2. CASE side = "source"
    BY <1>5, <1>7, <2>1, <2>2
  <2>3. CASE side = "target"
    <3>1. listed'[p][side] = {}
      BY <1>8, <2>1, <2>3, PickUnread
    <3> QED
      BY <3>1
  <2> QED
    BY <2>2, <2>3 DEF Sides
<1>9. CASE ~PickDrive(p)
  <2>1. SideOf(p, side)' = SideOf(p, side)
    BY <1>5, <1>9 DEF Sides
  <2>2. CASE TakeSnapshot(p)
    <3>1. PICK d, x, i : d = SideOf(p, "source") /\ x = Names[named + 1] /\ i = next[FsOf(d)]
      OBVIOUS
    <3> DEFINE row == [id |-> i, path |-> d.dir \o <<x>>, readonly |-> TRUE, received |-> None]
    <3>2. d \in Homes /\ x \in STRING /\ Makes(d, x) /\ listed'[p] = [source |-> {row}, target |-> {}]
      BY <1>1, <2>2, <3>1, SnapshotMakes, Zenon
    <3>3. CASE side = "target"
      BY <3>2, <3>3
    <3>4. CASE side = "source"
      <4>1. \E t \in fs'[FsOf(d)] : t.id = i
        BY <3>1, <3>2, MadeIsFixed DEF Typed
      <4>2. FsOf(d) = f
        BY <1>3, <3>1, <3>4
      <4>3. row.id = i
        OBVIOUS
      <4> HIDE DEF row
      <4>4. \A r \in listed'[p][side] : There(f, r.id)'
        BY <3>2, <3>4, <4>1, <4>2, <4>3 DEF There
      <4> QED
        BY <1>6, <2>1, <4>4
    <3> QED
      BY <3>3, <3>4 DEF Sides
  <2>3. CASE \E d \in Sides : ReadonlyCall(p, d)
    <3>1. PICK d \in Sides : ReadonlyCall(p, d)
      BY <2>3
    <3>2. CASE d # side
      BY <1>7, <2>1, <3>1, <3>2, ReadonlyCallRemembered
    <3>3. CASE d = side
      <4> DEFINE s == SideOf(p, side)
                 readonly == ReadonlyIds(fs[FsOf(s)])
                 found == Listed(s.host, s.dir, rows[p], readonly)
      <4>1. Step(p) = IF side = "source" THEN "readonly_source" ELSE "readonly_target"
        BY <3>1, <3>3 DEF ReadonlyCall, Running
      <4>2. at[p] = ReadAt(command[p], side)
        BY <1>1, <4>1, RunningFacts DEF StepFacts, Step, ReadAt, Sides
      <4>3. \A r \in rows[p] : There(f, r.id)
        BY <1>3, <4>2
      <4>4. listed'[p][side] = found \cup {r \in listed[p][side] : \A b \in found : b.id # r.id}
        BY <3>1, <3>3, ReadonlyCallRemembered
      <4>5. \A b \in found : \E r \in rows[p] : b.id = r.id
        BY ListedFromRows
      <4> HIDE DEF found
      <4>6. \A r \in listed'[p][side] : There(f, r.id)
        BY <1>3, <4>3, <4>4, <4>5
      <4>7. \A r \in listed'[p][side] : There(f, r.id)'
        BY <1>4, <4>6
      <4> QED
        BY <1>6, <2>1, <4>7
    <3> QED
      BY <3>2, <3>3
  <2>4. CASE SealReceive(p)
    <3>1. CASE inflight[p] = None
      <4>1. listed' = listed
        BY <2>4, <3>1 DEF SealReceive
      <4> QED
        BY <1>7, <2>1, <4>1
    <3>2. CASE inflight[p] # None /\ side = "source"
      <4>1. \E S : listed' = [listed EXCEPT ![p].target = S]
        BY <2>4, <3>2, Zenon DEF SealReceive
      <4>2. listed'[p].source = listed[p].source
        BY <4>1 DEF Typed, MemoryTyped, Known
      <4> QED
        BY <1>7, <2>1, <3>2, <4>2
    <3>3. CASE inflight[p] # None /\ side = "target"
      <4> DEFINE R == Received(p)
                 new == {Seen(Sealed(s), inflight[p].path) : s \in R}
      <4>1. /\ listed' = [listed EXCEPT ![p].target = @ \cup new]
            /\ fs' = [fs EXCEPT ![inflight[p].fs] = (@ \ R) \cup {Sealed(s) : s \in R}]
        BY <2>4, <3>3, Zenon DEF SealReceive, Sealed
      <4>2. inflight[p].fs = f /\ f \in DOMAIN fs
        <5>1. SealLeads(p)
          BY <2>4, Zenon DEF SealReceive, Running, LeadsBack
        <5>2. inflight[p].fs = f
          BY <1>3, <3>3, <5>1 DEF SealLeads
        <5> QED
          BY <3>3, <5>2 DEF Typed, DiskTyped, MemoryTyped, Receiving
      <4>3. fs'[f] = (fs[f] \ R) \cup {Sealed(s) : s \in R}
        BY <4>1, <4>2
      <4>4. \A b \in new : \E s \in R : b.id = Sealed(s).id
        BY DEF Seen
      <4> HIDE DEF new, R
      <4>5. \A b \in new : \E s \in fs'[f] : s.id = b.id
        BY <4>3, <4>4
      <4>6. listed'[p].target = listed[p].target \cup new
        BY <4>1 DEF Typed, MemoryTyped, Known
      <4>7. \A r \in listed'[p][side] : There(f, r.id)'
        BY <1>3, <1>4, <3>3, <4>5, <4>6 DEF There
      <4> QED
        BY <1>6, <2>1, <4>7
    <3> QED
      BY <3>1, <3>2, <3>3 DEF Sides
  <2>5. CASE ~TakeSnapshot(p) /\ ~SealReceive(p) /\ \A d \in Sides : ~ReadonlyCall(p, d)
    <3>1. ASSUME \/ RefuseRawRemote(p) \/ Fail(p) \/ ReceiveFails(p) \/ \E d \in Sides : Declined(p, d)
                 \/ PostHook(p) \/ Exit(p) \/ Kill(p)
          PROVE  FALSE
      BY <3>1 DEF RefuseRawRemote, Fail, ReceiveFails, Declined, PostHook, Exit, Kill, FailWith, Gone
    <3>2. ~\E c \in Commands : Start(p, c)
      BY DEF Start
    <3>3. ASSUME \/ Check(p) \/ PickDrive(p) \/ \E d \in Sides : EnsureDir(p, d) \/ ListCall(p, d)
                 \/ PreHook(p) \/ DropGuard(p) \/ PruneDone(p) \/ RestoreTo(p)
                 \/ BeginReceive(p) \/ Schedule(p) \/ Delete(p)
          PROVE  listed' = listed
      BY <3>3, Zenon DEF Check, PickDrive, EnsureDir, ListCall, PreHook, DropGuard, PruneDone,
                  RestoreTo, BeginReceive, Schedule, Delete, memory
    <3>4. listed' = listed
      BY <2>5, <3>1, <3>2, <3>3 DEF ProcStep
    <3> QED
      BY <1>7, <2>1, <3>4
  <2> QED
    BY <2>2, <2>3, <2>4, <2>5
<1> QED
  BY <1>8, <1>9

-----------------------------------------------------------------------------
(* What is doomed                                                          *)

LEMMA DeletedAtIs ==
  ASSUME NEW c, c.kind \in Kinds, c.set \in BOOLEAN
  PROVE  /\ DeletedAt(c) \in Nat /\ DeletedAt(c) # 1
         /\ DeletedAt(c) # 0 => c.kind \in {"run", "resume", "prune"} /\ DeletedAt(c) > ListedAt(c) + 1
BY ListedAtIs DEF DeletedAt

(* A delete leaves all that is still doomed.                               *)
LEMMA DeleteLeaves ==
  ASSUME Typed, SoundLayout, NEW p \in Procs, LeadsBack(p), StillThere(p), Mutates(command[p]), Delete(p),
         NEW side \in Sides, NEW r \in doomed'[p][side]
  PROVE  r \in listed[p][side] /\ \E s \in fs'[FsOf(SideOf(p, side))] : s.id = r.id
<1>1. PICK m, n : m = NextDoomed(p).side /\ n = NextDoomed(p).row
  OBVIOUS
<1>2. PICK f, g : f = FsOf(SideOf(p, side)) /\ g = FsOf(SideOf(p, m))
  OBVIOUS
<1>3. /\ m \in Sides /\ n \in doomed[p][m] /\ n \in listed[p][m] /\ g \in DOMAIN Initially
      /\ fs' = fs \/ fs' = [fs EXCEPT ![g] = @ \ {s \in @ : s.id = n.id}]
  BY <1>1, <1>2, DeleteTakes
<1>4. /\ r \in doomed[p][side] /\ (m = side => r # n)
  <2>1. doomed' = [doomed EXCEPT ![p][m] = @ \ {n}]
    BY <1>1 DEF Delete, Struck
  <2>2. doomed[p] \in Known
    BY DEF Typed, MemoryTyped
  <2> QED
    BY <1>3, <2>1, <2>2 DEF Typed, MemoryTyped, Known, Sides
<1>5. phase[p] = "running" /\ Step(p) = "delete" /\ Placed(p)
  BY DEF Delete, Running, Typed
<1>6. StepFacts(command[p], at[p]) /\ command[p].set \in BOOLEAN /\ command[p].kind \in Kinds /\ at[p] \in Nat
  BY <1>5, RunningFacts
<1>7. at[p] = DeletedAt(command[p]) /\ command[p].kind \in {"run", "resume", "prune"}
  BY <1>5, <1>6 DEF StepFacts, Step
<1>8. r \in listed[p][side] /\ There(f, r.id)
  BY <1>2, <1>4, <1>5, <1>7 DEF StillThere
<1>9. PICK s \in fs[f] : s.id = r.id
  BY <1>8 DEF There
<1>10. CASE fs' = fs \/ f # g
  <2>1. fs'[f] = fs[f]
    <3>1. CASE fs' = fs
      BY <3>1
    <3>2. CASE fs' # fs
      <4>1. f # g /\ \E S : fs' = [fs EXCEPT ![g] = S]
        BY <1>3, <1>10, <3>2
      <4> QED
        BY <4>1
    <3> QED
      BY <3>1, <3>2
  <2> QED
    BY <1>2, <1>8, <1>9, <2>1
<1>11. CASE f = g /\ r.id # n.id
  <2>1. s \in fs'[f]
    <3>1. fs' = fs \/ fs'[f] = fs[f] \ {t \in fs[f] : t.id = n.id}
      BY <1>3, <1>11 DEF Typed, DiskTyped
    <3> QED
      BY <1>9, <1>11, <3>1
  <2> QED
    BY <1>2, <1>8, <1>9, <2>1
<1>12. CASE f = g /\ r.id = n.id
  <2>1. m # side
    BY <1>3, <1>4, <1>8, <1>12 DEF LeadsBack, ListedLead, OneEach
  <2>2. PICK d, o : d = SideOf(p, side) /\ o = SideOf(p, m)
    OBVIOUS
  <2>3. /\ Leads(d, r) /\ Leads(o, n) /\ r.path \in Place /\ n.path \in Place
    BY <1>3, <1>8, <2>2 DEF LeadsBack, ListedLead, Typed, MemoryTyped, Known, Sides, Subvol, Place
  <2> DEFINE x == Leaf(r.path)
             y == Leaf(n.path)
  <2>4. /\ d \in Homes /\ o \in Homes /\ x \in STRING /\ y \in STRING
        /\ s.path = BaseOf(d) \o <<x>> /\ s.path = BaseOf(o) \o <<y>>
    <3>1. /\ \A t \in fs[FsOf(d)] : t.id = r.id => t.path = BaseOf(d) \o <<x>>
          /\ \A t \in fs[FsOf(o)] : t.id = n.id => t.path = BaseOf(o) \o <<y>>
      BY <2>3 DEF Leads, Fixed
    <3>2. f = FsOf(d) /\ f = FsOf(o)
      BY <1>2, <1>12, <2>2, Zenon
    <3> QED
      BY <1>9, <1>12, <2>3, <3>1, <3>2, LeafTyped DEF Leads
  <2> HIDE DEF x, y
  <2>5. BaseOf(d) = BaseOf(o)
    <3>1. Parent(s.path) = BaseOf(d)
      BY <2>4, BaseTyped, ParentOfJoin, Zenon
    <3>2. Parent(s.path) = BaseOf(o)
      BY <2>4, BaseTyped, ParentOfJoin, Zenon
    <3> QED
      BY <3>1, <3>2
  <2>6. PICK e \in Entries :
           /\ SideOf(p, "source") = SourceOf(e)
           /\ SideOf(p, "target") \in TargetsOf(e)
    <3>1. command[p].kind # "run" \/ at[p] > 4
      BY <1>6, <1>7, ListedAtIs DEF DeletedAt
    <3>2. EntryOf(p).target # None
      BY <1>5, <3>1, TargetAtHome DEF LeadsBack
    <3> QED
      BY <1>5, <3>2, SidesAtHome DEF LeadsBack
  <2>7. PICK t \in TargetsOf(e) : t = SideOf(p, "target")
    BY <2>6
  <2>8. FsOf(t) = FsOf(SourceOf(e)) => BaseOf(t) # BaseOf(SourceOf(e))
    BY DEF SoundLayout
  <2>9. (d = t /\ o = SourceOf(e)) \/ (o = t /\ d = SourceOf(e))
    BY <1>3, <2>1, <2>2, <2>6, <2>7 DEF Sides
  <2>10. FsOf(d) = FsOf(o)
    BY <1>2, <1>12, <2>2, Zenon
  <2> QED
    BY <2>5, <2>8, <2>9, <2>10
<1> QED
  BY <1>3, <1>10, <1>11, <1>12

LEMMA StillThereStep ==
  ASSUME Typed, ReadInv, SoundLayout, NEW p \in Procs, LeadsBack(p), StillThere(p), ProcStep(p)
  PROVE  StillThere(p)'
<1> DEFINE c == command[p]
           d == command'[p]
           Own(side, r) == There(FsOf(SideOf(p, side)), r.id)
<1>1. Typed' /\ ControlTyped /\ Placed(p) /\ Placed(p)'
  BY TypedNext DEF Typed, Next
<1>2. SUFFICES ASSUME phase'[p] = "running", Mutates(d) PROVE StillThere(p)'
  BY DEF StillThere
<1>3. SUFFICES ASSUME NEW side \in Sides
               PROVE  /\ at'[p] = ReadAt(d, side) => \A r \in rows'[p] : Own(side, r)'
                      /\ at'[p] < DeletedAt(d) => \A r \in listed'[p][side] : Own(side, r)'
                      /\ at'[p] = DeletedAt(d) =>
                           \A r \in doomed'[p][side] : r \in listed'[p][side] /\ Own(side, r)'
  BY DEF StillThere
<1>4. at'[p] \in Nat \ {0} /\ d.kind \in Kinds /\ d.set \in BOOLEAN
  <2>1. Parsed(d) /\ at'[p] \in 1 .. Len(Steps(d))
    BY <1>1, <1>2 DEF Placed
  <2>2. Len(Steps(d)) \in 1 .. 16
    BY <2>1, ParsedFacts, StepsTyped
  <2> QED
    BY <2>1, <2>2, ParsedFacts
<1>5. /\ ReadAt(d, side) \in Int /\ ReadAt(d, side) <= ListedAt(d) /\ ReadAt(d, side) # 1
      /\ DeletedAt(d) \in Nat /\ DeletedAt(d) # 1 /\ ListedAt(d) \in Nat
      /\ DeletedAt(d) # 0 => d.kind \in {"run", "resume", "prune"} /\ DeletedAt(d) > ListedAt(d) + 1
  BY <1>4, ReadAtIs, DeletedAtIs, ListedAtIs
<1>6. CASE at'[p] = 1 /\ listed'[p][side] = {}
  BY <1>5, <1>6
<1>7. ASSUME phase[p] = "running"
      PROVE  StepFacts(c, at[p]) /\ at[p] \in Nat \ {0}
  BY <1>1, <1>7, RunningFacts
<1>8. CASE phase[p] = "running" /\ ListedAt(d) = ListedAt(c) /\ Delete(p) /\ at'[p] = at[p] /\ at[p] > ListedAt(c)
  <2>1. d = c /\ Step(p) = "delete" /\ SideOf(p, side)' = SideOf(p, side) /\ listed' = listed
    BY <1>8, Zenon DEF Delete, control, Running, SideOf, EntryOf
  <2>2. at[p] = DeletedAt(c)
    BY <1>7, <1>8, <2>1 DEF StepFacts, Step
  <2>3. at'[p] # ReadAt(d, side) /\ ~(at'[p] < DeletedAt(d))
    BY <1>4, <1>5, <1>8, <2>1, <2>2
  <2>4. ASSUME NEW r \in doomed'[p][side] PROVE r \in listed'[p][side] /\ Own(side, r)'
    <3>1. PICK f : f = FsOf(SideOf(p, side))
      OBVIOUS
    <3>2. r \in listed[p][side] /\ \E s \in fs'[f] : s.id = r.id
      BY <1>2, <1>8, <2>1, <3>1, DeleteLeaves
    <3>3. FsOf(SideOf(p, side))' = f
      BY <2>1, <3>1 DEF FsOf
    <3> QED
      BY <2>1, <3>2, <3>3 DEF There
  <2> QED
    BY <2>3, <2>4
<1>9. CASE /\ phase[p] = "running" /\ ListedAt(d) = ListedAt(c)
           /\ at'[p] = at[p] + 1 /\ entry'[p] = entry[p] /\ (d = c \/ PickDrive(p)) /\ ~Forget(p)
  <2>1. d.kind = c.kind /\ d.dry = c.dry
    BY <1>1, <1>9, PickedCommand
  <2>2. Mutates(c) /\ DeletedAt(d) = DeletedAt(c) /\ ReadAt(d, side) = ReadAt(c, side)
    BY <1>2, <1>9, <2>1, MutatesSame DEF DeletedAt, ReadAt
  <2>3. ASSUME at'[p] = ReadAt(d, side) PROVE \A r \in rows'[p] : Own(side, r)'
    <3>1. Step(p) = IF side = "source" THEN "list_source" ELSE "list_target"
      <4>1. at[p] = IF side = "source" THEN ListedAt(c) - 3 ELSE ListedAt(c) - 1
        BY <1>5, <1>7, <1>9, <2>3 DEF ReadAt
      <4> QED
        BY <1>7, <1>9, <4>1 DEF StepFacts, Step
    <3>2. ListCall(p, side) /\ ~PickDrive(p)
      BY <1>2, <1>9, <3>1, WhichStep DEF Sides, PickDrive, Running
    <3>3. PICK f : f = FsOf(SideOf(p, side))
      OBVIOUS
    <3>4. rows'[p] = Rows(fs[f]) /\ fs' = fs
      BY <3>2, <3>3, ListCallRemembered DEF Typed, MemoryTyped, ListCall, disk
    <3>5. FsOf(SideOf(p, side))' = f
      BY <1>9, <3>2, <3>3 DEF SideOf, EntryOf, FsOf
    <3>6. \A r \in rows'[p] : \E s \in fs'[f] : s.id = r.id
      BY <3>4 DEF Rows
    <3> QED
      BY <3>5, <3>6 DEF There
  <2>4. ASSUME at'[p] <= DeletedAt(d)
        PROVE  (\A r \in listed[p][side] : Own(side, r)) /\ \A r \in listed'[p][side] : Own(side, r)'
    <3>1. at[p] < DeletedAt(c)
      BY <1>5, <1>7, <1>9, <2>2, <2>4
    <3>2. \A r \in listed[p][side] : Own(side, r)
      BY <1>9, <2>2, <3>1 DEF StillThere
    <3>3. at[p] = ReadAt(c, side) => \A r \in rows[p] : Own(side, r)
      BY <1>9, <2>2 DEF StillThere
    <3>4. ~Delete(p)
      BY <1>7, <1>9, <3>1 DEF Delete, Running, StepFacts, Step
    <3> QED
      BY <1>2, <1>9, <3>2, <3>3, <3>4, ListedStay
  <2>5. ASSUME at'[p] = DeletedAt(d), NEW r \in doomed'[p][side]
        PROVE  r \in listed'[p][side] /\ Own(side, r)'
    <3>1. c.kind \in {"run", "resume", "prune"} /\ at[p] = DeletedAt(c) - 1
      BY <1>4, <1>5, <1>7, <1>9, <2>1, <2>2, <2>5
    <3>2. Step(p) = "schedule"
      BY <1>7, <1>9, <3>1 DEF StepFacts, Step
    <3>3. Schedule(p)
      BY <1>2, <1>9, <3>2, WhichStep
    <3>4. r \in listed'[p][side]
      BY <2>5, <3>3, ScheduleRemembered
    <3>5. at'[p] <= DeletedAt(d)
      BY <1>5, <2>5
    <3> QED
      BY <2>4, <3>4, <3>5
  <2>6. at'[p] < DeletedAt(d) => at'[p] <= DeletedAt(d)
    BY <1>4, <1>5
  <2> QED
    BY <2>3, <2>4, <2>5, <2>6
<1>10. CASE phase[p] = "idle" /\ at'[p] = 1 /\ UNCHANGED memory
  <2>1. listed'[p] = NothingListed
    BY <1>10 DEF LeadsBack, memory
  <2> QED
    BY <1>6, <1>10, <2>1 DEF NothingListed, Sides
<1>11. CASE Forget(p) /\ phase[p] = "running"
  <2>1. listed'[p][side] = {} /\ rows'[p] = {} /\ doomed'[p][side] = {}
    BY <1>11, ForgetTyped DEF NothingListed, Sides, Typed
  <2> QED
    BY <2>1
<1> QED
  BY <1>2, <1>8, <1>9, <1>10, <1>11, GoesOn

LEMMA LockNext ==
  ASSUME Typed, ReadInv, SoundLayout, OneLock, LeadInv, LockInv, [Next]_vars
  PROVE  LockInv'
<1>1. CASE UNCHANGED vars
  <2>1. UNCHANGED <<phase, command, entry, at, holder, fs, rows, listed, doomed>>
    BY <1>1 DEF vars, control, disk, memory
  <2>2. \A p \in Procs : Locked(p)'
    BY <2>1 DEF LockInv, Locked
  <2>3. ASSUME NEW p \in Procs PROVE StillThere(p)'
    <3>1. \A side \in Sides : FsOf(SideOf(p, side))' = FsOf(SideOf(p, side))
      BY <2>1 DEF FsOf, SideOf, EntryOf
    <3> QED
      BY <2>1, <3>1 DEF LockInv, StillThere, There
  <2> QED
    BY <2>2, <2>3 DEF LockInv
<1>2. ASSUME NEW q \in Procs, ProcStep(q) PROVE LockInv'
  <2>1. \A p \in Procs : Locked(p) /\ StillThere(p)
    BY DEF LockInv
  <2>2. Locked(q)' /\ StillThere(q)'
    BY <1>2, <2>1, LockedStep, StillThereStep DEF LeadInv
  <2>3. ASSUME NEW p \in Procs, p # q PROVE Locked(p)' /\ StillThere(p)'
    BY <1>2, <2>1, <2>3, OthersKeepLocked, OthersLeaveIt
  <2> QED
    BY <2>2, <2>3 DEF LockInv
<1> QED
  BY <1>1, <1>2 DEF Next

LEMMA LockAlways ==
  SoundLayout /\ OneLock => (Spec => [](Typed /\ ReadInv /\ LeadInv /\ LockInv))
<1> SUFFICES ASSUME SoundLayout, OneLock PROVE Spec => [](Typed /\ ReadInv /\ LeadInv /\ LockInv)
  OBVIOUS
<1>1. Init => LockInv
  BY DEF Init, LockInv, Locked, StillThere
<1>2. Typed /\ ReadInv /\ LeadInv /\ LockInv /\ [Next]_vars => LockInv'
  BY LockNext
<1> QED
  BY <1>1, <1>2, LeadAlways, PTL DEF Spec

LEMMA DeletersMutate ==
  ASSUME Typed, NEW p \in Procs, phase[p] = "running", Step(p) = "delete", ~command[p].dry
  PROVE  Mutates(command[p]) /\ at[p] = DeletedAt(command[p])
<1>1. StepFacts(command[p], at[p])
  BY RunningFacts DEF Typed
<1> QED
  BY <1>1 DEF StepFacts, Step, Mutates

(* With one lock file and in a sound layout, whatever is doomed stays      *)
(* where it was listed until its own process deletes it.                   *)
THEOREM DoomedStaysThere == SoundLayout /\ OneLock => (Spec => []DoomedIsThere)
<1> SUFFICES ASSUME SoundLayout, OneLock PROVE Spec => []DoomedIsThere
  OBVIOUS
<1>1. ASSUME Typed, LockInv, NEW p \in Procs,
             phase[p] = "running", Step(p) = "delete", ~command[p].dry,
             NEW side \in Sides, NEW r \in doomed[p][side]
      PROVE  \E s \in fs[FsOf(SideOf(p, side))] : s.id = r.id
  <2>1. Mutates(command[p]) /\ at[p] = DeletedAt(command[p])
    BY <1>1, DeletersMutate
  <2> QED
    BY <1>1, <2>1 DEF LockInv, StillThere, There
<1>2. Typed /\ LockInv => DoomedIsThere
  BY <1>1 DEF DoomedIsThere
<1> QED
  BY <1>2, LockAlways, PTL

(* With one lock file and in a sound layout, a delete takes the subvolume  *)
(* that was scheduled, on the filesystem it was listed on, and no other.   *)
THEOREM DeletesAreMeant == SoundLayout /\ OneLock => (Spec => DeletesWhatItMeant)
<1> DEFINE Meant(p) ==
             LET meant == NextDoomed(p)
                 home == FsOf(SideOf(p, meant.side))
             IN  \A f \in DOMAIN fs : \A s \in fs[f] :
                   s \notin fs'[f] => f = home /\ s.id = meant.row.id
<1> SUFFICES ASSUME SoundLayout, OneLock PROVE Spec => DeletesWhatItMeant
  OBVIOUS
<1>1. ASSUME Typed, LeadInv, LockInv, [Next]_vars,
             NEW p \in Procs, Running(p, "delete"), doomed'[p] # doomed[p], fs' # fs
      PROVE  Meant(p)
  <2>1. PICK q \in Procs : ProcStep(q)
    BY <1>1 DEF Next, vars, memory
  <2>2. q = p
    BY <1>1, <2>1, OthersKeepMemory DEF SameMemory, Typed
  <2>3. ProcStep(p) /\ Step(p) = "delete"
    BY <1>1, <2>1, <2>2 DEF Running
  <2>4. Delete(p)
    <3>1. ASSUME \/ \E c \in Commands : Start(p, c)
                 \/ Check(p) \/ PickDrive(p) \/ RefuseRawRemote(p)
                 \/ \E d \in Sides : EnsureDir(p, d) \/ Declined(p, d)
                 \/ PreHook(p) \/ PostHook(p) \/ Fail(p) \/ DropGuard(p) \/ Exit(p) \/ Kill(p)
                 \/ \E d \in Sides : ListCall(p, d) \/ ReadonlyCall(p, d)
                 \/ Schedule(p) \/ PruneDone(p)
          PROVE  fs' = fs
      BY <3>1 DEF Start, Check, PickDrive, RefuseRawRemote, EnsureDir, Declined, PreHook, PostHook, Fail,
                  DropGuard, Exit, Kill, ListCall, ReadonlyCall, Schedule, PruneDone, disk
    <3>2. ~TakeSnapshot(p) /\ ~BeginReceive(p) /\ ~SealReceive(p) /\ ~ReceiveFails(p) /\ ~RestoreTo(p)
      BY <2>3 DEF TakeSnapshot, BeginReceive, SealReceive, ReceiveFails, RestoreTo, Running
    <3> QED
      BY <1>1, <2>3, <3>1, <3>2 DEF ProcStep
  <2>5. Mutates(command[p])
    BY <1>1, <2>3, ChangersMutate
  <2>6. PICK side, n, home : side = NextDoomed(p).side /\ n = NextDoomed(p).row /\ home = FsOf(SideOf(p, side))
    OBVIOUS
  <2>7. fs' = [fs EXCEPT ![home] = @ \ {s \in @ : s.id = n.id}]
    BY <1>1, <2>4, <2>5, <2>6, DeleteTakes DEF LeadInv, LockInv
  <2>8. ASSUME NEW f \in DOMAIN fs, NEW s \in fs[f], s \notin fs'[f] PROVE f = home /\ s.id = n.id
    BY <2>7, <2>8
  <2> QED
    BY <2>6, <2>8
<1> HIDE DEF Meant
<1>2. ASSUME Typed, LeadInv, LockInv, [Next]_vars
      PROVE  \A p \in Procs : Running(p, "delete") /\ doomed'[p] # doomed[p] /\ fs' # fs => Meant(p)
  BY <1>1, <1>2
<1> QED
  BY <1>2, LockAlways, PTL DEF Spec, DeletesWhatItMeant, Meant
==============================================================================
