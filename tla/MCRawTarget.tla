----------------------------- MODULE MCRawTarget -----------------------------
(* Instances of RawTarget for TLC.                                         *)
EXTENDS RawTarget

CONSTANT home

(* Every call may fail or be killed.                                       *)
AnyCall == Calls
=============================================================================
