---------------------------- MODULE MCHidService ----------------------------
(***************************************************************************)
(* Instances of HidService for TLC.                                        *)
(***************************************************************************)
EXTENDS HidService, TLC

CONSTANTS i1, i2, o1

\* The section loses its device and gets it again.
OffOn == << o1 :> 1, o1 :> 0, o1 :> 1 >>

\* The section is changed once.
Added == << o1 :> 0, o1 :> 1 >>
Dropped == << o1 :> 1, o1 :> 0 >>

\* A vendor id of the section is changed.
Edited == << o1 :> 1, o1 :> 2 >>
=============================================================================
