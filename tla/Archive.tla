------------------------------- MODULE Archive -------------------------------
(***************************************************************************)
(* What a backup tool promises of an incremental chain, with no commands,  *)
(* names, listings or failures: a set of snapshots on the source, a set of *)
(* snapshots that have a complete copy on the target, and one rule for     *)
(* whatever is dropped.  While some snapshot is held on both sides (the    *)
(* chain is linked), no purge may unlink it: the next incremental needs    *)
(* that pair as its parent.                                                *)
(***************************************************************************)
EXTENDS Naturals

VARIABLES
  kept,     \* the snapshots on the source
  copies    \* the snapshots a complete copy of which is on the target

vars == <<kept, copies>>

Linked == kept \cap copies # {}

Init == kept \subseteq Nat /\ copies = {}

(* A snapshot is taken: one that neither side holds.                       *)
Take == \E v \in kept' \ (kept \cup copies) :
           kept' = kept \cup {v} /\ UNCHANGED copies

(* A snapshot held on the source gets its copy, once.                      *)
Copy == \E v \in kept \ copies :
           copies' = copies \cup {v} /\ UNCHANGED kept

(* Retention drops something on one side, and the chain stays linked.      *)
Purge == /\ kept' \subseteq kept
         /\ copies' \subseteq copies
         /\ Linked => Linked'

Next == Take \/ Copy \/ Purge

Spec == Init /\ [][Next]_vars
=============================================================================
