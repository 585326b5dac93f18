------------------------------- MODULE MCBus -------------------------------
(***************************************************************************)
(* Instances of Bus for TLC: two publishers to two keys.                   *)
(***************************************************************************)
EXTENDS Bus, TLC

CONSTANTS p1, p2, s1, s2, k1, k2

PubKeys == p1 :> k1 @@ p2 :> k2

\* One subscriber to both keys, as the input node, and one to everything, as the
\* service's subscription to the backends.
Mixed == s1 :> <<k1, k2>> @@ s2 :> <<>>
OneEach == s1 :> <<k1>> @@ s2 :> <<k1, k2>>
=============================================================================
