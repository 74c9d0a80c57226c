----------------------------- MODULE MCPipeline -----------------------------
(* Instances of Pipeline for TLC.                                          *)
EXTENDS Pipeline

(* pipe and pipe3, each with and without a progress callback.              *)
AllShapes == Shapes
=============================================================================
