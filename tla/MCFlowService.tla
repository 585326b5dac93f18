--------------------------- MODULE MCFlowService ---------------------------
(***************************************************************************)
(* Instances of FlowService for TLC: a flow of two nodes.                  *)
(***************************************************************************)
EXTENDS FlowService, TLC

CONSTANTS a, b, torn

TwoNodes == <<a, b>>
Content(t, ca, cb) == [tree |-> t, conf |-> a :> ca @@ b :> cb]

\* Two valid flows, one with a cycle, and one with a node configuration that is
\* rejected.
Reloads == {torn, Content("t1", "c1", "c1"), Content("t2", "c1", "c1"),
            Content("loop", "c1", "c1"), Content("t3", "bad", "c1")}

\* One tree, other configurations of its nodes.
Reconfigures == {torn, Content("t1", "c1", "c1"), Content("t1", "c2", "c1"),
                 Content("t1", "bad", "c2")}
BothNodes == {torn, Content("t1", "c1", "c1"), Content("t1", "c2", "c2")}
TwoTrees == {torn, Content("t1", "c1", "c1"), Content("t2", "c1", "c1")}

\* A reload of the whole flow next to a change of one node.
Mixing == {torn, Content("t1", "c1", "c1"), Content("t1", "c2", "c1"),
           Content("t2", "c1", "c1")}

\* What happens in each run.
Story(f, e) == [files |-> f, early |-> e]
Both   == {Story(Reloads, FALSE), Story(Reconfigures, TRUE)}
Swaps  == {Story(BothNodes, FALSE)}
Early  == {Story(TwoTrees, TRUE)}
Partly == {Story(Reconfigures, FALSE)}
Mixed  == {Story(Mixing, FALSE)}
=============================================================================
