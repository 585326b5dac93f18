---- MODULE MCOutputNode ----
(***************************************************************************)
(* Instances of OutputNode for TLC.                                        *)
(***************************************************************************)
EXTENDS OutputNode

CONSTANT a
=============================================================================
