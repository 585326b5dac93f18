---- MODULE MCInputNode ----
(***************************************************************************)
(* Instances of InputNode for TLC.                                         *)
(***************************************************************************)
EXTENDS InputNode

CONSTANT a
=============================================================================
