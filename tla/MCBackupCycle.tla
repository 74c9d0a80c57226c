---------------------------- MODULE MCBackupCycle ----------------------------
(* Instances of BackupCycle for TLC.                                       *)
EXTENDS BackupCycle, TLC

CONSTANTS home, root

OneSource == home :> 1
TwoSources == home :> 1 @@ root :> 2

(* A read-only snapshot somebody made by hand in the snapshot directory.   *)
ByHand == [id |-> 3, parent |-> 1, recv |-> NoUuid, ro |-> TRUE,
           leaf |-> [base |-> Foreign, time |-> 0, nn |-> 0]]
OneOutsider == {ByHand}
=============================================================================
