------------------------------- MODULE MCMux --------------------------------
(***************************************************************************)
(* Instances of Mux for TLC: keys of the device, three layers, and         *)
(* switches for them.                                                      *)
(***************************************************************************)
EXTENDS Mux, TLC

CONSTANTS base, nav, sym, s1, s2, s3

\* One switch per layer; "base" is the default route and can be switched to too.
OneEach == s1 :> nav @@ s2 :> sym @@ s3 :> base

\* Two keys for the same layer (a left and a right layer key).
TwoForNav == s1 :> nav @@ s2 :> nav @@ s3 :> sym
=============================================================================
