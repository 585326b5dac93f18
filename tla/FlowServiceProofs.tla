-------------------------- MODULE FlowServiceProofs --------------------------
(***************************************************************************)
(* Proofs about FlowService for any nodes, contents and users: a runner    *)
(* never has two nodes running at once, although Graph.Run starts nodes in *)
(* one goroutine, the watcher replaces them in another, and nodes return   *)
(* by themselves; two flows never run at once, and the flow that runs is   *)
(* that of the last valid file, if the flow is reloaded as a whole; and    *)
(* the service knows what its nodes were configured with.                  *)
(***************************************************************************)
EXTENDS FlowService, TLAPS

\* What the proof needs of the types.
Shape ==
  /\ idx \in DOMAIN NodeSeq
  /\ {graph, graphRunning, awaited, target} \subseteq Graphs \cup {None}
  /\ started \in [Graphs -> Nat]
  /\ running \in [Graphs -> [Nodes -> Nat]]
  /\ DOMAIN gpc = Graphs

\* A graph that Start or the watcher is about to run has not started a node, and they never
\* have the same one.
Places ==
  /\ \A g \in Graphs : /\ gpc[g] \in {"none", "built"} => started[g] = 0
                       /\ gpc[g] = "starting" => started[g] < Len(NodeSeq)
  /\ spc = "publish" => awaited \in Graphs /\ gpc[awaited] = "built"
  /\ wpc \in {"cancel", "await"} => target \in Graphs /\ gpc[target] = "built"
  /\ spc = "publish" /\ wpc \in {"cancel", "await"} => awaited # target

\* Channels are numbered in the order in which they are made; a live one is the newest of its
\* runner, which keeps it, and a closed one is not newer.
Numbered ==
  /\ \A c \in live \cup closed : c[1] \in Graphs /\ c[2] \in Nodes
  /\ \A c \in live : c = <<c[1], c[2], running[c[1]][c[2]]>> /\ running[c[1]][c[2]] # 0
  /\ \A c \in closed : c = <<c[1], c[2], c[3]>> /\ c[3] <= running[c[1]][c[2]] /\ c[3] \in Nat
  /\ live \cap closed = {}

\* A node that Run has not started has no channel.
StartedInOrder ==
  \A g \in Graphs : \A i \in DOMAIN NodeSeq : i > started[g] => running[g][NodeSeq[i]] = 0

\* The node that the watcher replaces was started, and is gone before the next one is.
Replacing ==
  /\ wpc \in {"replace", "start"} => target \in Graphs /\ running[target][NodeSeq[idx]] # 0
  /\ wpc = "start" => \A c \in live : <<c[1], c[2]>> # <<target, NodeSeq[idx]>>

\* The inductive invariant of OneInstance.
InstanceInv == Shape /\ Places /\ Numbered /\ StartedInOrder /\ Replacing

LEMMA NodesOf ==
  /\ DOMAIN NodeSeq = 1..Len(NodeSeq) /\ Len(NodeSeq) \in Nat \ {0}
  /\ \A i \in DOMAIN NodeSeq : NodeSeq[i] \in Nodes
  /\ \A i, j \in DOMAIN NodeSeq : NodeSeq[i] = NodeSeq[j] => i = j
  /\ None \notin Graphs
<1>1. NodeSeq \in Seq(Nodes) /\ NodeSeq # <<>>
  BY FlowAssumption
<1>2. DOMAIN NodeSeq = 1..Len(NodeSeq) /\ Len(NodeSeq) \in Nat \ {0}
  BY <1>1
<1>3. None \notin Graphs
  BY DEF None, Graphs
<1> QED BY <1>2, <1>3, FlowAssumption DEF Nodes

\* One more channel of a runner.
LEMMA Bumped ==
  ASSUME NEW g \in Graphs, NEW n \in Nodes, running \in [Graphs -> [Nodes -> Nat]],
         running' = [running EXCEPT ![g][n] = @ + 1]
  PROVE  /\ running' \in [Graphs -> [Nodes -> Nat]]
         /\ running'[g][n] = running[g][n] + 1
         /\ \A h \in Graphs : \A m \in Nodes : <<h, m>> # <<g, n>> => running'[h][m] = running[h][m]
OBVIOUS

LEMMA InstanceInit == Init => InstanceInv
<1> SUFFICES ASSUME Init PROVE InstanceInv
  OBVIOUS
<1>1. idx \in DOMAIN NodeSeq /\ {graph, graphRunning, awaited, target} \subseteq Graphs \cup {None}
  BY NodesOf DEF Init
<1>2. started \in [Graphs -> Nat] /\ running \in [Graphs -> [Nodes -> Nat]] /\ DOMAIN gpc = Graphs
  BY DEF Init
<1>3. \A g \in Graphs : \A i \in DOMAIN NodeSeq : running[g][NodeSeq[i]] = 0
  BY NodesOf DEF Init
<1>4. Places
  BY DEF Init, Places
<1> QED
  BY <1>1, <1>2, <1>3, <1>4 DEF Init, InstanceInv, Shape, Numbered, StartedInOrder, Replacing

-----------------------------------------------------------------------------
(* Where the goroutines are.                                                *)

\* buildGraph takes a graph nobody has.
LEMMA BuildPlace ==
  ASSUME Shape, Places, NEW g \in Graphs, NEW f, Build(g, f), gpc' = [gpc EXCEPT ![g] = "built"]
  PROVE  /\ DOMAIN gpc' = Graphs /\ gpc'[g] = "built" /\ gpc[g] = "none" /\ started' = started
         /\ \A h \in Graphs : h # g => gpc'[h] = gpc[h]
BY DEF Build, Unused, Shape

\* ... and has started none of its nodes.
LEMMA BuildStarted ==
  ASSUME Shape, Places, NEW g \in Graphs, NEW f, Build(g, f), gpc' = [gpc EXCEPT ![g] = "built"]
  PROVE  \A h \in Graphs : /\ gpc'[h] \in {"none", "built"} => started'[h] = 0
                           /\ gpc'[h] = "starting" => started'[h] < Len(NodeSeq)
<1> SUFFICES ASSUME NEW h \in Graphs
             PROVE  /\ gpc'[h] \in {"none", "built"} => started'[h] = 0
                    /\ gpc'[h] = "starting" => started'[h] < Len(NodeSeq)
  OBVIOUS
<1>1. /\ gpc'[g] = "built" /\ gpc[g] = "none" /\ started' = started
      /\ \A x \in Graphs : x # g => gpc'[x] = gpc[x]
  BY BuildPlace
<1>2. CASE h = g
  BY <1>1, <1>2 DEF Places
<1>3. CASE h # g
  BY <1>1, <1>3 DEF Places
<1> QED BY <1>2, <1>3

LEMMA PlacesNext == Shape /\ Places /\ Replacing /\ [Next]_vars => Shape' /\ Places'
<1> SUFFICES ASSUME Shape, Places, Replacing, [Next]_vars PROVE Shape' /\ Places'
  OBVIOUS
<1>1. ASSUME UNCHANGED <<spc, awaited, wpc, idx, target, graph, graphRunning, gpc, started, running>>
      PROVE  Shape' /\ Places'
  BY <1>1 DEF Shape, Places
<1>2. CASE (\E f \in Files : Save(f)) \/ Cancel \/ NodeStops \/ NodeFails
  BY <1>1, <1>2 DEF Save, Cancel, NodeStops, NodeFails, NodeReturns, RunUnchanged,
                    startVars, watchVars, serviceVars, runVars, nodeVars
<1>3. CASE Start
  <2>1. CASE ReadConfig \/ Subscribe
    BY <1>1, <2>1 DEF ReadConfig, StartFails, Subscribe, watchVars, serviceVars, runVars, nodeVars,
                      Shape, Places
  <2>2. CASE StartGraph
    <3>1. CASE StartFails
      BY <3>1 DEF StartFails, watchVars, serviceVars, runVars, nodeVars, Shape, Places
    <3>2. CASE ~StartFails
      <4>1. PICK g \in Graphs : Build(g, startCfg) /\ awaited' = g /\ gpc' = [gpc EXCEPT ![g] = "built"]
        BY <2>2, <3>2 DEF StartGraph
      <4>2. /\ spc' = "publish"
            /\ UNCHANGED <<wpc, idx, target, graph, graphRunning, started, running>>
        BY <2>2, <3>2, <4>1 DEF StartGraph, Build
      <4>3. /\ DOMAIN gpc' = Graphs /\ gpc'[g] = "built" /\ gpc[g] = "none" /\ started' = started
            /\ \A h \in Graphs : h # g => gpc'[h] = gpc[h]
        BY <4>1, BuildPlace
      <4>4. Shape'
        BY <4>1, <4>2, <4>3 DEF Shape
      <4>5. wpc \in {"cancel", "await"} => target # g
        BY <4>3 DEF Places
      <4>6. \A h \in Graphs : /\ gpc'[h] \in {"none", "built"} => started'[h] = 0
                             /\ gpc'[h] = "starting" => started'[h] < Len(NodeSeq)
        BY <4>1, BuildStarted
      <4>7. wpc' \in {"cancel", "await"} => target' \in Graphs /\ gpc'[target'] = "built" /\ awaited' # target'
        BY <4>1, <4>2, <4>3, <4>5 DEF Places
      <4>8. Places'
        BY <4>1, <4>2, <4>3, <4>6, <4>7 DEF Places
      <4> QED BY <4>4, <4>8
    <3> QED BY <3>1, <3>2
  <2>3. CASE PublishGraph
    <3>1. /\ graph' = awaited /\ graphRunning' = awaited /\ gpc' = [gpc EXCEPT ![awaited] = "starting"]
          /\ spc = "publish" /\ spc' = "serving"
          /\ UNCHANGED <<awaited, wpc, idx, target, started, running>>
      BY <2>3 DEF PublishGraph, watchVars, nodeVars
    <3>2. awaited \in Graphs /\ started[awaited] = 0
      BY <3>1 DEF Places
    <3> QED BY <3>1, <3>2, NodesOf DEF Shape, Places
  <2>4. CASE AwaitGraph
    BY <2>4 DEF AwaitGraph, watchVars, serviceVars, runVars, nodeVars, Shape, Places
  <2> QED BY <1>3, <2>1, <2>2, <2>3, <2>4 DEF Start
<1>4. CASE Watcher
  <2>1. CASE IgnoreEvent
    BY <1>1, <2>1 DEF IgnoreEvent, TakeEvent, startVars, watchVars, serviceVars, runVars, nodeVars
  <2>2. CASE BeginRestart
    <3>1. PICK g \in Graphs : Build(g, file) /\ target' = g /\ gpc' = [gpc EXCEPT ![g] = "built"]
      BY <2>2 DEF BeginRestart
    <3>2. wpc' = "cancel" /\ UNCHANGED <<spc, awaited, idx, graph, graphRunning, started, running>>
      BY <2>2, <3>1 DEF BeginRestart, TakeEvent, Build, startVars, serviceVars
    <3>3. /\ DOMAIN gpc' = Graphs /\ gpc'[g] = "built" /\ gpc[g] = "none"
          /\ \A h \in Graphs : h # g => gpc'[h] = gpc[h]
      BY <3>1, BuildPlace
    <3>4. \A h \in Graphs : /\ gpc'[h] \in {"none", "built"} => started'[h] = 0
                           /\ gpc'[h] = "starting" => started'[h] < Len(NodeSeq)
      BY <3>1, BuildStarted
    <3>5. Shape'
      BY <3>1, <3>2, <3>3 DEF Shape
    <3>6. spc' = "publish" => awaited' \in Graphs /\ gpc'[awaited'] = "built" /\ awaited' # target'
      BY <3>1, <3>2, <3>3 DEF Places
    <3>7. Places'
      BY <3>1, <3>2, <3>3, <3>4, <3>6 DEF Places
    <3> QED BY <3>5, <3>7
  <2>3. CASE BeginConfigure
    <3>1. wpc' = "configure" /\ idx' = 1
          /\ UNCHANGED <<spc, awaited, target, graph, graphRunning, gpc, started, running>>
      BY <2>3 DEF BeginConfigure, TakeEvent, startVars, serviceVars, runVars, nodeVars
    <3> QED BY <3>1, NodesOf DEF Shape, Places
  <2>4. CASE CancelGraph \/ CancelNothing \/ ConfigureNothing
    BY <2>4 DEF CancelGraph, CancelNothing, ConfigureNothing, Crash, startVars, watchVars, serviceVars,
                runVars, nodeVars, Shape, Places
  <2>5. CASE SwapGraph
    <3>1. /\ graph' = target /\ graphRunning' = target /\ gpc' = [gpc EXCEPT ![target] = "starting"]
          /\ wpc = "await" /\ wpc' = "idle"
          /\ UNCHANGED <<spc, awaited, idx, target, started, running>>
      BY <2>5 DEF SwapGraph, startVars, nodeVars
    <3>2. target \in Graphs /\ started[target] = 0
      BY <3>1 DEF Places
    <3> QED BY <3>1, <3>2, NodesOf DEF Shape, Places
  <2>6. CASE ConfigureNode
    <3>1. /\ wpc = "configure" /\ wpc' \in {"idle", "configure", "stuck", "replace"}
          /\ UNCHANGED <<spc, awaited, graph, graphRunning, gpc, started, running>>
      BY <2>6 DEF ConfigureNode, NextNode, startVars, serviceVars, runVars
    <3>2. idx' \in DOMAIN NodeSeq
      BY <2>6, NodesOf DEF ConfigureNode, NextNode, Last, Shape
    <3>3. target' \in Graphs \cup {None}
      BY <2>6 DEF ConfigureNode, Shape
    <3> QED BY <3>1, <3>2, <3>3 DEF Shape, Places
  <2>7. CASE ReplaceNode
    <3>1. /\ wpc = "replace" /\ wpc' = "start"
          /\ running' = [running EXCEPT ![target][NodeSeq[idx]] = @ + 1]
          /\ UNCHANGED <<spc, awaited, idx, target, graph, graphRunning, gpc, started>>
      BY <2>7 DEF ReplaceNode, startVars, serviceVars, runVars
    <3>2. running' \in [Graphs -> [Nodes -> Nat]]
      BY <3>1, Bumped, NodesOf DEF Shape, Replacing
    <3> QED BY <3>1, <3>2 DEF Shape, Places
  <2>8. CASE RestartNode
    <3>1. /\ wpc = "start" /\ wpc' \in {"idle", "configure"}
          /\ running' = [running EXCEPT ![target][NodeSeq[idx]] = @ + 1]
          /\ UNCHANGED <<spc, awaited, target, graph, graphRunning, gpc, started>>
      BY <2>8 DEF RestartNode, NextNode, StartRunner, startVars, serviceVars, runVars
    <3>2. running' \in [Graphs -> [Nodes -> Nat]]
      BY <3>1, Bumped, NodesOf DEF Shape, Replacing
    <3>3. idx' \in DOMAIN NodeSeq
      BY <2>8, NodesOf DEF RestartNode, NextNode, Last, Shape
    <3> QED BY <3>1, <3>2, <3>3 DEF Shape, Places
  <2>9. CASE StopWatcher
    BY <2>9 DEF StopWatcher, startVars, serviceVars, runVars, nodeVars, Shape, Places
  <2> QED
    BY <1>4, <2>1, <2>2, <2>3, <2>4, <2>5, <2>6, <2>7, <2>8, <2>9 DEF Watcher
<1>5. ASSUME NEW g \in Graphs, GraphGoroutine(g) PROVE Shape' /\ Places'
  <2>1. UNCHANGED <<spc, awaited, wpc, idx, target, graphRunning>>
    BY <1>5 DEF GraphGoroutine, StartNode, AwaitNode, ClearGraph, RunUnchanged, startVars, watchVars
  <2>2. CASE StartNode(g)
    <3>1. /\ gpc[g] = "starting" /\ started' = [started EXCEPT ![g] = @ + 1] /\ graph' = graph
          /\ running' = [running EXCEPT ![g][NodeSeq[started[g] + 1]] = @ + 1]
      BY <2>2 DEF StartNode, StartRunner
    <3>2. gpc' = IF started'[g] = Len(NodeSeq) THEN [gpc EXCEPT ![g] = "waiting"] ELSE gpc
      BY <2>2 DEF StartNode, Last
    <3>4. started[g] < Len(NodeSeq) /\ started[g] \in Nat
      BY <3>1 DEF Shape, Places
    <3>0. NodeSeq[started[g] + 1] \in Nodes
      BY <3>4, NodesOf
    <3>3. /\ running' \in [Graphs -> [Nodes -> Nat]] /\ started' \in [Graphs -> Nat]
          /\ started'[g] = started[g] + 1
      BY <3>1, <3>0, Bumped DEF Shape
    <3>5. /\ DOMAIN gpc' = Graphs /\ \A h \in Graphs : h # g => gpc'[h] = gpc[h] /\ started'[h] = started[h]
          /\ gpc'[g] \in {"starting", "waiting"} /\ (gpc'[g] = "starting" => started'[g] # Len(NodeSeq))
      BY <3>1, <3>2 DEF Shape
    <3>6. gpc'[g] = "starting" => started'[g] < Len(NodeSeq)
      BY <3>3, <3>4, <3>5, NodesOf
    <3> QED BY <2>1, <3>1, <3>3, <3>5, <3>6 DEF Shape, Places
  <2>3. CASE AwaitNode(g)
    <3>1. /\ gpc[g] = "waiting" /\ (gpc' = gpc \/ gpc' = [gpc EXCEPT ![g] = "ended"])
          /\ UNCHANGED <<graph, started, running>>
      BY <2>3 DEF AwaitNode, nodeVars
    <3> QED BY <2>1, <3>1 DEF Shape, Places
  <2>4. CASE ClearGraph(g)
    <3>1. /\ gpc[g] \in {"ended", "clearing"}
          /\ \/ gpc' = [gpc EXCEPT ![g] = "clearing"] \/ gpc' = [gpc EXCEPT ![g] = "closed"]
          /\ graph' \in {graph, None} /\ UNCHANGED <<started, running>>
      BY <2>4 DEF ClearGraph, AfterRun, nodeVars
    <3> QED BY <2>1, <3>1 DEF Shape, Places
  <2> QED BY <1>5, <2>2, <2>3, <2>4 DEF GraphGoroutine
<1>6. CASE UNCHANGED vars
  BY <1>1, <1>6 DEF vars, startVars, watchVars, serviceVars, runVars, nodeVars
<1> QED BY <1>2, <1>3, <1>4, <1>5, <1>6 DEF Next
-----------------------------------------------------------------------------
(* The channels.                                                            *)

\* A step that starts no node; some may return.
LEMMA Quietly ==
  ASSUME Shape, Numbered, StartedInOrder, UNCHANGED <<running, started>>,
         live' \subseteq live, closed \subseteq closed', closed' \subseteq closed \cup (live \ live')
  PROVE  Numbered' /\ StartedInOrder'
<1>1. StartedInOrder'
  BY DEF StartedInOrder
<1>2. /\ \A c \in live' \cup closed' : c[1] \in Graphs /\ c[2] \in Nodes
      /\ \A c \in live' : c = <<c[1], c[2], running'[c[1]][c[2]]>> /\ running'[c[1]][c[2]] # 0
      /\ live' \cap closed' = {}
  BY DEF Numbered
<1>3. ASSUME NEW c \in closed'
      PROVE  c = <<c[1], c[2], c[3]>> /\ c[3] <= running'[c[1]][c[2]] /\ c[3] \in Nat
  <2>1. CASE c \in closed
    BY <2>1 DEF Numbered
  <2>2. CASE c \in live
    <3>1. c = <<c[1], c[2], running[c[1]][c[2]]>> /\ c[1] \in Graphs /\ c[2] \in Nodes
      BY <2>2 DEF Numbered
    <3>2. running[c[1]][c[2]] \in Nat
      BY <3>1 DEF Shape
    <3>3. c[3] = running[c[1]][c[2]]
      BY <3>1
    <3> QED BY <3>1, <3>2, <3>3
  <2> QED BY <1>3, <2>1, <2>2
<1> QED BY <1>1, <1>2, <1>3 DEF Numbered

\* A step that makes a channel for a runner whose node is gone, and may start a node on it.
LEMMA NewChannel ==
  ASSUME Shape, Numbered, NEW g \in Graphs, NEW n \in Nodes,
         running' = [running EXCEPT ![g][n] = @ + 1], closed' = closed,
         \A c \in live : <<c[1], c[2]>> # <<g, n>>,
         live' = live \/ live' = live \cup {<<g, n, running[g][n] + 1>>}
  PROVE  Numbered'
<1>1. /\ running' \in [Graphs -> [Nodes -> Nat]] /\ running'[g][n] = running[g][n] + 1
      /\ \A h \in Graphs : \A m \in Nodes : <<h, m>> # <<g, n>> => running'[h][m] = running[h][m]
  BY Bumped DEF Shape
<1>2. running[g][n] \in Nat
  BY DEF Shape
<1> DEFINE new == <<g, n, running[g][n] + 1>>
<1>3. new[1] = g /\ new[2] = n /\ new[3] = running[g][n] + 1
  OBVIOUS
<1>4. new \notin closed
  <2> SUFFICES ASSUME new \in closed PROVE FALSE
    OBVIOUS
  <2>1. new[3] <= running[new[1]][new[2]]
    BY DEF Numbered
  <2>2. running[g][n] + 1 <= running[g][n]
    BY <1>3, <2>1
  <2> QED BY <1>2, <2>2
<1>5. ASSUME NEW c \in live
      PROVE  /\ c = <<c[1], c[2], running'[c[1]][c[2]]>> /\ running'[c[1]][c[2]] # 0
             /\ c[1] \in Graphs /\ c[2] \in Nodes /\ c \notin closed
  <2>1. c[1] \in Graphs /\ c[2] \in Nodes /\ c \notin closed
    BY DEF Numbered
  <2>2. running'[c[1]][c[2]] = running[c[1]][c[2]]
    BY <1>1, <2>1
  <2> QED BY <2>1, <2>2 DEF Numbered
<1>6. ASSUME NEW c \in closed
      PROVE  /\ c = <<c[1], c[2], c[3]>> /\ c[3] <= running'[c[1]][c[2]] /\ c[3] \in Nat
             /\ c[1] \in Graphs /\ c[2] \in Nodes
  <2>1. /\ c = <<c[1], c[2], c[3]>> /\ c[3] <= running[c[1]][c[2]] /\ c[3] \in Nat
        /\ c[1] \in Graphs /\ c[2] \in Nodes
    BY DEF Numbered
  <2>2. CASE <<c[1], c[2]>> = <<g, n>>
    <3>1. c[3] <= running[g][n] /\ running'[c[1]][c[2]] = running[g][n] + 1
      BY <1>1, <2>1, <2>2
    <3>2. c[3] <= running[g][n] + 1
      BY <1>2, <2>1, <3>1
    <3> QED BY <2>1, <3>1, <3>2
  <2>3. CASE <<c[1], c[2]>> # <<g, n>>
    BY <1>1, <2>1, <2>3
  <2> QED BY <2>2, <2>3
<1>7. running'[g][n] # 0
  BY <1>1, <1>2
<1>8. new = <<new[1], new[2], running'[new[1]][new[2]]>>
  BY <1>1, <1>3
<1> HIDE DEF new
<1>9. \A c \in live' : c \in live \/ c = new
  BY DEF new
<1>10. \A c \in live' \cup closed' : c[1] \in Graphs /\ c[2] \in Nodes
  BY <1>3, <1>5, <1>6, <1>9
<1>11. \A c \in live' : c = <<c[1], c[2], running'[c[1]][c[2]]>> /\ running'[c[1]][c[2]] # 0
  BY <1>3, <1>5, <1>7, <1>8, <1>9
<1>12. live' \cap closed' = {}
  BY <1>4, <1>5, <1>9
<1>13. \A c \in closed' : c = <<c[1], c[2], c[3]>> /\ c[3] <= running'[c[1]][c[2]] /\ c[3] \in Nat
  BY <1>6
<1> QED BY <1>10, <1>11, <1>12, <1>13 DEF Numbered

-----------------------------------------------------------------------------
(* The invariant.                                                           *)

\* A node returns.
LEMMA NodeReturning ==
  ASSUME InstanceInv, NEW c \in live, NodeReturns(c)
  PROVE  Numbered' /\ StartedInOrder' /\ Replacing'
<1>1. /\ live' = live \ {c} /\ closed' = closed \cup {c}
      /\ UNCHANGED <<running, started, wpc, idx, target>>
  BY DEF NodeReturns, RunUnchanged, watchVars, runVars
<1> QED BY <1>1, Quietly DEF InstanceInv, Replacing

\* Steps that leave the runners alone.
LEMMA OtherSteps ==
  ASSUME InstanceInv, UNCHANGED <<running, started, live, closed>>,
         \/ UNCHANGED <<wpc, idx, target>>
         \/ wpc' \notin {"replace", "start"}
  PROVE  Numbered' /\ StartedInOrder' /\ Replacing'
BY Quietly DEF InstanceInv, Replacing

LEMMA InstanceNext == InstanceInv /\ [Next]_vars => InstanceInv'
<1> SUFFICES ASSUME InstanceInv, [Next]_vars PROVE Numbered' /\ StartedInOrder' /\ Replacing'
  BY PlacesNext DEF InstanceInv
<1>1. CASE (\E f \in Files : Save(f)) \/ Cancel
  BY <1>1, OtherSteps DEF Save, Cancel, watchVars, runVars, nodeVars
<1>2. CASE NodeStops \/ NodeFails
  BY <1>2, NodeReturning DEF NodeStops, NodeFails
<1>3. CASE Start
  <2>1. UNCHANGED <<running, started, live, closed, wpc, idx, target>>
    BY <1>3 DEF Start, ReadConfig, StartFails, Subscribe, StartGraph, Build, PublishGraph, AwaitGraph,
                watchVars, runVars, nodeVars
  <2> QED BY <2>1, OtherSteps
<1>4. CASE Watcher
  <2>1. CASE IgnoreEvent \/ BeginConfigure \/ CancelNothing \/ ConfigureNothing \/ StopWatcher \/ CancelGraph
    BY <2>1, OtherSteps DEF IgnoreEvent, BeginConfigure, CancelNothing, ConfigureNothing, StopWatcher,
                            CancelGraph, Crash, watchVars, runVars, nodeVars
  <2>2. CASE BeginRestart
    <3>1. UNCHANGED <<running, started, live, closed>> /\ wpc' = "cancel"
      BY <2>2 DEF BeginRestart, Build
    <3> QED BY <3>1, OtherSteps
  <2>3. CASE SwapGraph
    BY <2>3, OtherSteps DEF SwapGraph, nodeVars
  <2>4. CASE ConfigureNode
    <3>1. UNCHANGED <<running, started, live, closed>>
      BY <2>4 DEF ConfigureNode, runVars
    <3>2. CASE wpc' = "replace"
      <4>1. graph # None /\ target' = graph /\ running[graph][NodeSeq[idx]] # 0 /\ idx' = idx
        BY <2>4, <3>2 DEF ConfigureNode, NextNode
      <4>2. graph \in Graphs
        BY <4>1 DEF InstanceInv, Shape
      <4>3. Replacing'
        BY <3>1, <3>2, <4>1, <4>2 DEF Replacing
      <4> QED BY <3>1, <4>3, Quietly DEF InstanceInv
    <3>3. wpc' \in {"idle", "configure", "stuck", "replace"}
      BY <2>4 DEF ConfigureNode, NextNode
    <3> QED BY <3>1, <3>2, <3>3, OtherSteps
  <2>5. CASE ReplaceNode
    <3> DEFINE n == NodeSeq[idx]
    <3>1. /\ wpc = "replace" /\ wpc' = "start" /\ Gone(target, n)
          /\ running' = [running EXCEPT ![target][n] = @ + 1]
          /\ UNCHANGED <<idx, target, started, live, closed>>
      BY <2>5 DEF ReplaceNode, runVars
    <3>2. target \in Graphs /\ n \in Nodes /\ running[target][n] # 0
      BY <3>1, NodesOf DEF InstanceInv, Shape, Replacing
    <3>3. <<target, n, running[target][n]>> \in closed
      BY <3>1 DEF Gone
    <3> HIDE DEF n
    <3>4. \A c \in live : <<c[1], c[2]>> # <<target, n>>
      <4> SUFFICES ASSUME NEW c \in live, c[1] = target, c[2] = n PROVE FALSE
        OBVIOUS
      <4>1. c = <<target, n, running[target][n]>> /\ c \notin closed
        BY DEF InstanceInv, Numbered
      <4> QED BY <3>3, <4>1
    <3>5. Numbered'
      BY <3>1, <3>2, <3>4, NewChannel DEF InstanceInv
    <3>6. /\ running' \in [Graphs -> [Nodes -> Nat]] /\ running'[target][n] = running[target][n] + 1
          /\ \A h \in Graphs : \A m \in Nodes : <<h, m>> # <<target, n>> => running'[h][m] = running[h][m]
      BY <3>1, <3>2, Bumped DEF InstanceInv, Shape
    <3>7. StartedInOrder'
      BY <3>1, <3>2, <3>6, NodesOf DEF InstanceInv, StartedInOrder
    <3>8. running'[target][n] # 0
      BY <3>2, <3>6 DEF InstanceInv, Shape
    <3>9. Replacing'
      BY <3>1, <3>2, <3>4, <3>8 DEF Replacing, n
    <3> QED BY <3>5, <3>7, <3>9
  <2>6. CASE RestartNode
    <3> DEFINE n == NodeSeq[idx]
    <3>1. /\ wpc = "start" /\ wpc' \in {"idle", "configure"}
          /\ running' = [running EXCEPT ![target][n] = @ + 1]
          /\ live' = live \cup {<<target, n, running[target][n] + 1>>}
          /\ UNCHANGED <<started, closed>>
      BY <2>6 DEF RestartNode, NextNode, StartRunner, runVars
    <3>2. /\ target \in Graphs /\ n \in Nodes /\ running[target][n] # 0
          /\ \A c \in live : <<c[1], c[2]>> # <<target, n>>
      BY <3>1, NodesOf DEF InstanceInv, Shape, Replacing
    <3> HIDE DEF n
    <3>3. Numbered'
      BY <3>1, <3>2, NewChannel DEF InstanceInv
    <3>4. \A h \in Graphs : \A m \in Nodes : <<h, m>> # <<target, n>> => running'[h][m] = running[h][m]
      BY <3>1, <3>2, Bumped DEF InstanceInv, Shape
    <3>5. StartedInOrder'
      BY <3>1, <3>2, <3>4, NodesOf DEF InstanceInv, StartedInOrder
    <3> QED BY <3>1, <3>3, <3>5 DEF Replacing
  <2> QED BY <1>4, <2>1, <2>2, <2>3, <2>4, <2>5, <2>6 DEF Watcher
<1>5. ASSUME NEW g \in Graphs, GraphGoroutine(g) PROVE Numbered' /\ StartedInOrder' /\ Replacing'
  <2>1. CASE AwaitNode(g) \/ ClearGraph(g)
    BY <2>1, OtherSteps DEF AwaitNode, ClearGraph, RunUnchanged, watchVars, nodeVars
  <2>2. CASE StartNode(g)
    <3> DEFINE i == started[g] + 1
               n == NodeSeq[i]
    <3>1. /\ gpc[g] = "starting" /\ started' = [started EXCEPT ![g] = @ + 1]
          /\ running' = [running EXCEPT ![g][n] = @ + 1]
          /\ live' = live \cup {<<g, n, running[g][n] + 1>>}
          /\ UNCHANGED <<closed, wpc, idx, target>>
      BY <2>2 DEF StartNode, StartRunner, RunUnchanged, watchVars
    <3>2. i \in DOMAIN NodeSeq /\ i > started[g]
      BY <3>1, NodesOf DEF InstanceInv, Shape, Places
    <3>3. n \in Nodes /\ running[g][n] = 0
      BY <3>2, NodesOf DEF InstanceInv, StartedInOrder
    <3>4. started' \in [Graphs -> Nat] /\ started'[g] = i /\ \A h \in Graphs : h # g => started'[h] = started[h]
      BY <3>1 DEF InstanceInv, Shape
    <3>5. ASSUME NEW j \in DOMAIN NodeSeq, j > i PROVE j > started[g] /\ NodeSeq[j] # n
      <4>1. j \in Nat /\ started[g] \in Nat
        BY NodesOf DEF InstanceInv, Shape
      <4>2. j > started[g] /\ j # i
        BY <3>5, <4>1
      <4> QED BY <3>2, <4>2, NodesOf
    <3>6. wpc \in {"replace", "start"} => <<target, NodeSeq[idx]>> # <<g, n>>
      BY <3>3 DEF InstanceInv, Replacing
    <3> HIDE DEF n, i
    <3>7. \A c \in live : <<c[1], c[2]>> # <<g, n>>
      BY <3>3 DEF InstanceInv, Numbered
    <3>8. Numbered'
      BY <3>1, <3>3, <3>7, NewChannel, running[g][n] + 1 = running[g][n] + 1 DEF InstanceInv
    <3>9. \A h \in Graphs : \A m \in Nodes : <<h, m>> # <<g, n>> => running'[h][m] = running[h][m]
      BY <3>1, <3>3, Bumped DEF InstanceInv, Shape
    <3>10. StartedInOrder'
      BY <3>4, <3>5, <3>9, NodesOf DEF InstanceInv, StartedInOrder
    <3>11. \A c \in live' : c \in live \/ <<c[1], c[2]>> = <<g, n>>
      BY <3>1
    <3>12. Replacing'
      BY <3>1, <3>6, <3>9, <3>11, NodesOf DEF InstanceInv, Shape, Replacing
    <3> QED BY <3>8, <3>10, <3>12
  <2> QED BY <1>5, <2>1, <2>2 DEF GraphGoroutine
<1>6. CASE UNCHANGED vars
  BY <1>6, OtherSteps DEF vars, watchVars, runVars, nodeVars
<1> QED BY <1>1, <1>2, <1>3, <1>4, <1>5, <1>6 DEF Next

\* One runner never has two nodes running at once (graph.go:606-613): nodeRunner.start is called
\* by Graph.Run once for each node, and by replaceNode after the node it replaces has returned.
THEOREM OneInstanceAlways == Spec => []OneInstance
<1>1. InstanceInv => OneInstance
  <2> SUFFICES ASSUME InstanceInv, NEW c \in live, NEW d \in live, c[1] = d[1], c[2] = d[2]
               PROVE  c = d
    BY DEF OneInstance
  <2>1. c = <<c[1], c[2], running[c[1]][c[2]]>> /\ d = <<d[1], d[2], running[d[1]][d[2]]>>
    BY DEF InstanceInv, Numbered
  <2> QED BY <2>1
<1> QED BY <1>1, InstanceInit, InstanceNext, PTL DEF Spec

-----------------------------------------------------------------------------
(* The flows.                                                               *)

Restarting == wpc \in {"cancel", "await"}
NoGraph    == graphRunning = None

\* What is read comes from the file, and what is built has a configuration for each node.
FromFile ==
  /\ story \in Stories
  /\ file \in Files
  /\ spc \in {"watch", "subscribe", "graph"} => startCfg \in Files \ {Torn}
  /\ wpc \in {"configure", "replace", "start"} => cfg \in Files \ {Torn}
  /\ DOMAIN configs = Graphs /\ \A g \in Graphs : DOMAIN configs[g] = Nodes
  /\ DOMAIN cur = Graphs /\ \A g \in Graphs : DOMAIN cur[g] = Nodes
  /\ DOMAIN treeOf = Graphs

\* Until the first graph is built there is none, and nothing for the watcher to do.
NotBuilt ==
  /\ spc \in {"read", "watch", "subscribe", "graph", "publish", "failed"} => NoGraph
  /\ NoGraph => pending = 0 /\ wpc \in {"idle", "stopped"} /\ graph = None /\ graphCancel = None
  /\ NoGraph /\ spc # "publish" => \A g \in Graphs : gpc[g] = "none"

\* The first graph is built and not started.
Publishing ==
  spc = "publish" =>
    /\ awaited \in Graphs /\ gpc[awaited] = "built"
    /\ graphHash = treeOf[awaited] /\ treeOf[awaited] = good.tree
    /\ \A g \in Graphs \ {awaited} : gpc[g] = "none"

\* One graph runs or did so last, and the fields of the service are about it; one more is
\* built while it is replaced.
Serving ==
  /\ spc \in {"serving", "await"} => ~NoGraph
  /\ ~NoGraph =>
       /\ graphRunning \in Graphs /\ gpc[graphRunning] \notin {"none", "built"}
       /\ \A g \in Graphs : g # graphRunning /\ gpc[g] \notin {"none", "closed"} => Restarting /\ g = target
       /\ Restarting => target # graphRunning /\ treeOf[target] = cfg.tree /\ good = cfg
       /\ ~Restarting => graphHash = treeOf[graphRunning] /\ treeOf[graphRunning] = good.tree
       /\ wpc \in {"configure", "replace", "start"} => cfg.tree = graphHash
       /\ LET current == IF gpc[graphRunning] = "closed" THEN None ELSE graphRunning
          IN  graph = current /\ graphCancel = current

\* The inductive invariant of the first half of LastValidTree.
Flows == NotBuilt /\ Publishing /\ Serving
FlowInv == InstanceInv /\ FromFile /\ (~EarlySaves => Flows)

\* Nodes are not replaced, for what is built of a tree is the only content that has the tree.
Unreplaced ==
  /\ wpc \notin {"replace", "start", "stuck"}
  /\ \A g \in Graphs : gpc[g] # "none" =>
       \E f \in Files \ {Torn} : Builds(f) /\ treeOf[g] = f.tree /\ configs[g] = f.conf

\* A node that runs is one of the graph that runs, and Graph.Run has still to wait for it.
Awaited ==
  /\ DOMAIN left = Graphs /\ DOMAIN recv = Graphs
  /\ \A c \in live : /\ c[1] = graphRunning /\ gpc[c[1]] \in {"starting", "waiting"}
                     /\ gpc[c[1]] = "waiting" => c[2] \in left[c[1]]
  /\ \A g \in Graphs : recv[g] # <<>> =>
       gpc[g] = "waiting" /\ \E n \in left[g] : recv[g] = <<g, n, running[g][n]>>

\* The inductive invariant of OneFlow.
WholeInv == FlowInv /\ (WholeReloads => Unreplaced /\ Awaited)

Ending == ctxDone \/ wpc = "await"
Ended(g) == gpc[g] \in {"ended", "clearing", "closed"}

\* A flow of which a node does not fail by itself ends when it is told to.
ToldToEnd ==
  /\ DOMAIN gctx = Graphs /\ cancelled \in [Graphs -> [Nodes -> BOOLEAN]]
  /\ \A g \in Graphs : gctx[g] \/ (\E c \in closed : c[1] = g) => gpc[g] \notin {"none", "built"}
  /\ \A g \in Graphs : g = graphRunning /\ (gctx[g] \/ Ended(g)) => Ending
  /\ \A c \in closed : c[1] = graphRunning => c[2] \in Fragile \/ Ending
  /\ \A g \in Graphs : g = graphRunning /\ gpc[g] = "waiting" => Nodes \subseteq left[g] \cup Fragile \/ Ending
  /\ \A c \in live : ~cancelled[c[1]][c[2]]
  /\ \A g \in Graphs : \A i \in DOMAIN NodeSeq : i > started[g] => ~cancelled[g][NodeSeq[i]]

\* The inductive invariant of the second half of LastValidTree.
LastInv == WholeInv /\ (WholeReloads /\ ~(Nodes \subseteq Fragile) => ToldToEnd)


LEMMA FromFileNext == Shape /\ FromFile /\ [Next]_vars => FromFile'
<1> SUFFICES ASSUME Shape, FromFile, [Next]_vars PROVE FromFile'
  OBVIOUS
<1>0. story' = story /\ Files' = Files
  BY DEF Next, vars, Files
<1>1. ASSUME file' \in Files, UNCHANGED <<spc, startCfg, wpc, cfg, configs, cur, treeOf>> PROVE FromFile'
  BY <1>0, <1>1 DEF FromFile
<1>2. ASSUME NEW g \in Graphs, NEW f \in Files \ {Torn}, Build(g, f)
      PROVE  /\ DOMAIN configs' = Graphs /\ \A h \in Graphs : DOMAIN configs'[h] = Nodes
             /\ DOMAIN cur' = Graphs /\ \A h \in Graphs : DOMAIN cur'[h] = Nodes
             /\ DOMAIN treeOf' = Graphs
  <2>1. f \in AllFiles \ {Torn}
    BY <1>2 DEF FromFile, AllFiles, Files
  <2>2. DOMAIN f.conf = Nodes
    BY <2>1, FlowAssumption
  <2> QED BY <1>2, <2>2 DEF Build, FromFile
<1>3. CASE \E f \in Files : Save(f)
  BY <1>1, <1>3 DEF Save, startVars, watchVars, nodeVars, builtVars
<1>4. CASE Cancel \/ NodeStops \/ NodeFails
  <2>1. file' = file
    BY <1>4 DEF Cancel, NodeStops, NodeFails, NodeReturns, RunUnchanged, fileVars
  <2> QED BY <1>1, <1>4, <2>1 DEF FromFile, Cancel, NodeStops, NodeFails, NodeReturns, RunUnchanged,
                                  startVars, watchVars, nodeVars, builtVars
<1>5. CASE Start
  <2>1. CASE ReadConfig \/ Subscribe \/ PublishGraph \/ AwaitGraph \/ StartFails
    BY <1>0, <2>1 DEF ReadConfig, StartFails, Subscribe, PublishGraph, AwaitGraph, fileVars, watchVars, nodeVars,
                      builtVars, FromFile
  <2>2. CASE StartGraph /\ ~StartFails
    <3>1. /\ \E g \in Graphs : Build(g, startCfg)
          /\ spc = "graph" /\ spc' = "publish" /\ UNCHANGED <<file, wpc, cfg>>
      BY <2>2 DEF StartGraph, fileVars
    <3>2. startCfg \in Files \ {Torn}
      BY <3>1 DEF FromFile
    <3> QED BY <1>0, <1>2, <3>1, <3>2 DEF FromFile
  <2> QED BY <1>5, <2>1, <2>2 DEF Start
<1>6. CASE Watcher
  <2>1. CASE BeginRestart
    <3>1. /\ \E g \in Graphs : Build(g, file)
          /\ wpc' = "cancel" /\ file # Torn /\ UNCHANGED <<file, spc, startCfg>>
      BY <2>1 DEF BeginRestart, TakeEvent, startVars
    <3> QED BY <1>0, <1>2, <3>1 DEF FromFile
  <2>2. CASE BeginConfigure
    BY <1>0, <2>2 DEF BeginConfigure, TakeEvent, startVars, nodeVars, builtVars, FromFile
  <2>3. CASE ConfigureNode
    <3>1. /\ configs' = configs \/ configs' = [configs EXCEPT ![graph][NodeSeq[idx]] = cfg.conf[NodeSeq[idx]]]
          /\ wpc = "configure" /\ UNCHANGED <<file, spc, startCfg, cfg, cur, treeOf>>
      BY <2>3 DEF ConfigureNode, Recorded, fileVars, startVars
    <3>2. DOMAIN configs' = Graphs /\ \A h \in Graphs : DOMAIN configs'[h] = Nodes
      BY <3>1 DEF FromFile
    <3> QED BY <1>0, <3>1, <3>2 DEF FromFile
  <2>4. CASE ReplaceNode
    <3>1. /\ cur' = [cur EXCEPT ![target][NodeSeq[idx]] = cfg.conf[NodeSeq[idx]]]
          /\ wpc = "replace" /\ UNCHANGED <<file, spc, startCfg, cfg, configs, treeOf>>
      BY <2>4 DEF ReplaceNode, fileVars, startVars, builtVars
    <3>2. DOMAIN cur' = Graphs /\ \A h \in Graphs : DOMAIN cur'[h] = Nodes
      BY <3>1 DEF FromFile
    <3> QED BY <1>0, <3>1, <3>2 DEF FromFile
  <2>5. CASE RestartNode
    BY <1>0, <2>5 DEF RestartNode, NextNode, StartRunner, fileVars, startVars, builtVars, FromFile
  <2>6. CASE IgnoreEvent \/ CancelGraph \/ CancelNothing \/ SwapGraph \/ ConfigureNothing \/ StopWatcher
    BY <1>0, <2>6 DEF IgnoreEvent, TakeEvent, CancelGraph, CancelNothing, SwapGraph, ConfigureNothing, StopWatcher,
                      Crash, fileVars, startVars, watchVars, nodeVars, builtVars, FromFile
  <2> QED BY <1>6, <2>1, <2>2, <2>3, <2>4, <2>5, <2>6 DEF Watcher
<1>7. CASE \E g \in Graphs : GraphGoroutine(g)
  <2>1. UNCHANGED <<file, spc, startCfg, wpc, cfg, configs, cur, treeOf>>
    BY <1>7 DEF GraphGoroutine, StartNode, StartRunner, AwaitNode, ClearGraph, RunUnchanged, fileVars, startVars,
                watchVars, builtVars, nodeVars
  <2> QED BY <1>1, <2>1 DEF FromFile
<1>8. CASE UNCHANGED vars
  BY <1>1, <1>8 DEF vars, fileVars, startVars, watchVars, nodeVars, builtVars, FromFile
<1> QED BY <1>3, <1>4, <1>5, <1>6, <1>7, <1>8 DEF Next

\* The graph that the service keeps is the only one whose goroutine is at work.
LEMMA OneAtWork ==
  ASSUME Shape, Places, Flows, NEW g \in Graphs,
         gpc[g] \in {"starting", "waiting", "ended", "clearing"}
  PROVE  g = graphRunning /\ ~NoGraph
<1>1. ~NoGraph
  BY DEF Flows, NotBuilt, Publishing
<1>2. ~(Restarting /\ g = target)
  BY DEF Places, Restarting
<1> QED BY <1>1, <1>2 DEF Flows, Serving

LEMMA FlowsStart ==
  ASSUME Shape, Places, FromFile, Flows, Start
  PROVE  Flows'
<1> USE DEF NoGraph, Restarting
<1>0. UNCHANGED <<wpc, cfg, target, pending>>
  BY DEF Start, ReadConfig, StartFails, Subscribe, StartGraph, PublishGraph, AwaitGraph, watchVars, fileVars
<1>1. CASE ReadConfig \/ Subscribe \/ StartFails
  <2>1. /\ UNCHANGED <<good, graph, graphCancel, graphRunning, graphHash, gpc, treeOf>>
        /\ spc' \in {"watch", "subscribe", "graph", "failed"}
    BY <1>1 DEF ReadConfig, StartFails, Subscribe, watchVars, serviceVars, runVars, builtVars
  <2>2. spc \in {"read", "watch", "subscribe", "graph"}
    BY <1>1 DEF Start, ReadConfig, StartFails, Subscribe, StartGraph, PublishGraph, AwaitGraph
  <2> QED BY <1>0, <2>1, <2>2 DEF Flows, NotBuilt, Publishing, Serving
<1>2. CASE StartGraph /\ ~StartFails
  <2>1. PICK g \in Graphs : Build(g, startCfg) /\ awaited' = g /\ gpc' = [gpc EXCEPT ![g] = "built"]
    BY <1>2 DEF StartGraph
  <2>2. /\ spc = "graph" /\ spc' = "publish" /\ graphHash' = startCfg.tree /\ good' = startCfg
        /\ UNCHANGED <<graph, graphCancel, graphRunning>>
    BY <1>2 DEF StartGraph
  <2>3. /\ gpc'[g] = "built" /\ \A h \in Graphs : h # g => gpc'[h] = gpc[h]
    BY <2>1, BuildPlace
  <2>4. treeOf'[g] = startCfg.tree
    BY <2>1 DEF Build, FromFile
  <2> QED BY <1>0, <2>1, <2>2, <2>3, <2>4 DEF Flows, NotBuilt, Publishing, Serving
<1>3. CASE PublishGraph
  <2>1. /\ graph' = awaited /\ graphCancel' = awaited /\ graphRunning' = awaited
        /\ gpc' = [gpc EXCEPT ![awaited] = "starting"] /\ spc = "publish" /\ spc' = "serving"
        /\ UNCHANGED <<good, graphHash, treeOf>>
    BY <1>3 DEF PublishGraph, watchVars, builtVars
  <2>2. /\ awaited \in Graphs /\ gpc'[awaited] = "starting"
        /\ \A h \in Graphs : h # awaited => gpc'[h] = "none"
    BY <2>1 DEF Shape, Flows, Publishing
  <2>3. wpc \in {"idle", "stopped"} /\ graphHash = treeOf[awaited] /\ treeOf[awaited] = good.tree
    BY <2>1 DEF Flows, NotBuilt, Publishing
  <2> QED BY <1>0, <2>1, <2>2, <2>3, NodesOf DEF Flows, NotBuilt, Publishing, Serving
<1>4. CASE AwaitGraph
  <2>1. /\ UNCHANGED <<good, graph, graphCancel, graphRunning, graphHash, gpc, treeOf>>
        /\ \/ spc = "serving" /\ spc' = "await"
           \/ spc = "await" /\ spc' = "returned"
           \/ spc \in {"read", "graph"} /\ spc' = "returned"
    BY <1>4 DEF AwaitGraph, watchVars, serviceVars, runVars, builtVars
  <2> QED BY <1>0, <2>1 DEF Flows, NotBuilt, Publishing, Serving
<1> QED BY <1>1, <1>2, <1>3, <1>4 DEF Start

LEMMA FlowsWatcher ==
  ASSUME Shape, Places, FromFile, Flows, Watcher
  PROVE  Flows'
<1> USE DEF NoGraph, Restarting
<1>0. UNCHANGED <<spc, awaited>>
  BY DEF Watcher, IgnoreEvent, BeginRestart, BeginConfigure, TakeEvent, CancelGraph, CancelNothing, SwapGraph,
         ConfigureNode, ConfigureNothing, ReplaceNode, RestartNode, StopWatcher, Crash, startVars
<1>1. CASE IgnoreEvent
  <2>1. /\ pending > 0
        /\ UNCHANGED <<wpc, cfg, target, good, graph, graphCancel, graphRunning, graphHash, gpc, treeOf>>
    BY <1>1 DEF IgnoreEvent, TakeEvent, watchVars, serviceVars, runVars, builtVars
  <2>2. graphRunning # None
    BY <2>1 DEF Flows, NotBuilt
  <2> QED BY <1>0, <2>1, <2>2 DEF Flows, NotBuilt, Publishing, Serving
<1>2. CASE BeginRestart
  <2>1. PICK g \in Graphs : Build(g, file) /\ target' = g /\ gpc' = [gpc EXCEPT ![g] = "built"]
    BY <1>2 DEF BeginRestart
  <2>2. /\ pending > 0 /\ wpc = "idle" /\ wpc' = "cancel" /\ cfg' = file /\ good' = file
        /\ UNCHANGED <<graph, graphCancel, graphRunning, graphHash>>
    BY <1>2 DEF BeginRestart, TakeEvent, serviceVars
  <2>3. gpc'[g] = "built" /\ gpc[g] = "none" /\ \A h \in Graphs : h # g => gpc'[h] = gpc[h]
    BY <2>1, BuildPlace
  <2>4. treeOf'[g] = file.tree
    BY <2>1 DEF Build, FromFile
  <2>5. graphRunning # None /\ spc # "publish"
    BY <2>2 DEF Flows, NotBuilt
  <2> QED BY <1>0, <2>1, <2>2, <2>3, <2>4, <2>5 DEF Flows, NotBuilt, Publishing, Serving
<1>3. CASE BeginConfigure
  <2>1. /\ pending > 0 /\ wpc = "idle" /\ wpc' = "configure" /\ cfg' = file /\ file.tree = graphHash
        /\ good' = file \/ good' = good
        /\ UNCHANGED <<target, graph, graphCancel, graphRunning, graphHash, gpc, treeOf>>
    BY <1>3 DEF BeginConfigure, TakeEvent, Changed, serviceVars, runVars, builtVars
  <2>2. graphRunning # None /\ spc # "publish"
    BY <2>1 DEF Flows, NotBuilt
  <2> QED BY <1>0, <2>1, <2>2 DEF Flows, NotBuilt, Publishing, Serving
<1>4. CASE CancelGraph \/ CancelNothing \/ ConfigureNothing \/ StopWatcher
  <2>1. /\ \/ wpc' = wpc
           \/ wpc = "cancel" /\ wpc' = "await"
           \/ wpc = "idle" /\ wpc' = "stopped"
        /\ UNCHANGED <<pending, cfg, target, good, graph, graphCancel, graphRunning, graphHash, gpc, treeOf>>
    BY <1>4 DEF CancelGraph, CancelNothing, ConfigureNothing, StopWatcher, Crash, fileVars, watchVars, serviceVars,
                runVars, builtVars
  <2> QED BY <1>0, <2>1 DEF Flows, NotBuilt, Publishing, Serving
<1>5. CASE SwapGraph
  <2>1. /\ wpc = "await" /\ wpc' = "idle" /\ gpc[graphRunning] = "closed" /\ graphHash' = cfg.tree
        /\ graphRunning' = target /\ graph' = target /\ graphCancel' = target
        /\ gpc' = [gpc EXCEPT ![target] = "starting"]
        /\ UNCHANGED <<pending, cfg, target, good, treeOf>>
    BY <1>5 DEF SwapGraph, Stopped, NewHash, fileVars, builtVars
  <2>2. /\ target \in Graphs /\ gpc'[target] = "starting" /\ \A h \in Graphs : h # target => gpc'[h] = gpc[h]
    BY <2>1 DEF Shape, Places
  <2>3. graphRunning # None /\ spc # "publish"
    BY <2>1 DEF Flows, NotBuilt
  <2>4. /\ treeOf[target] = cfg.tree /\ good = cfg
        /\ \A h \in Graphs : h # target => gpc[h] \in {"none", "closed"}
    BY <2>1, <2>3 DEF Flows, Serving
  <2> QED BY <1>0, <2>1, <2>2, <2>3, <2>4, NodesOf DEF Flows, NotBuilt, Publishing, Serving
<1>6. CASE ConfigureNode \/ ReplaceNode \/ RestartNode
  <2>1. /\ wpc \in {"configure", "replace", "start"}
        /\ wpc' \in {"idle", "configure", "replace", "stuck", "start"}
        /\ UNCHANGED <<pending, cfg, good, graph, graphCancel, graphRunning, graphHash, gpc, treeOf>>
    BY <1>6 DEF ConfigureNode, ReplaceNode, RestartNode, NextNode, fileVars, serviceVars, runVars, builtVars
  <2>2. graphRunning # None
    BY <2>1 DEF Flows, NotBuilt
  <2> QED BY <1>0, <2>1, <2>2 DEF Flows, NotBuilt, Publishing, Serving
<1> QED BY <1>1, <1>2, <1>3, <1>4, <1>5, <1>6 DEF Watcher

LEMMA FlowsGraph ==
  ASSUME Shape, Places, FromFile, Flows, NEW g \in Graphs, GraphGoroutine(g)
  PROVE  Flows'
<1> USE DEF NoGraph, Restarting
<1>1. gpc[g] \in {"starting", "waiting", "ended", "clearing"}
  BY DEF GraphGoroutine, StartNode, AwaitNode, ClearGraph
<1>2. g = graphRunning /\ graphRunning # None
  BY <1>1, OneAtWork
<1>3. UNCHANGED <<spc, awaited, wpc, target, cfg, good, pending, graphRunning, graphHash, treeOf>>
  BY DEF GraphGoroutine, StartNode, AwaitNode, ClearGraph, RunUnchanged, fileVars, startVars, watchVars, builtVars
<1>4. \/ /\ gpc' = gpc \/ gpc' = [gpc EXCEPT ![g] = "waiting"] \/ gpc' = [gpc EXCEPT ![g] = "ended"]
            \/ gpc' = [gpc EXCEPT ![g] = "clearing"]
         /\ UNCHANGED <<graph, graphCancel>>
      \/ gpc' = [gpc EXCEPT ![g] = "closed"] /\ graph' = None /\ graphCancel' = None
  BY DEF GraphGoroutine, StartNode, AwaitNode, ClearGraph, AfterRun
<1>5. /\ \A h \in Graphs : h # g => gpc'[h] = gpc[h]
      /\ \/ gpc'[g] \notin {"none", "built", "closed"} /\ UNCHANGED <<graph, graphCancel>>
         \/ gpc'[g] = "closed" /\ graph' = None /\ graphCancel' = None
  BY <1>1, <1>4 DEF Shape
<1>6. spc # "publish"
  BY <1>2 DEF Flows, NotBuilt
<1> QED BY <1>1, <1>2, <1>3, <1>5, <1>6 DEF Flows, NotBuilt, Publishing, Serving

LEMMA FlowsNext ==
  ASSUME ~EarlySaves, Shape, Places, FromFile, Flows, [Next]_vars
  PROVE  Flows'
<1> USE DEF NoGraph, Restarting
<1>1. ASSUME UNCHANGED <<spc, awaited, wpc, target, cfg, good, pending, graph, graphCancel, graphRunning, graphHash,
                         gpc, treeOf>>
      PROVE  Flows'
  BY <1>1 DEF Flows, NotBuilt, Publishing, Serving
<1>2. CASE \E f \in Files : Save(f)
  <2>1. /\ spc = "serving" /\ UNCHANGED <<spc, awaited, wpc, target, cfg, good, graph, graphCancel, graphRunning,
                                          graphHash, gpc, treeOf>>
    BY <1>2 DEF Save, startVars, watchVars, serviceVars, runVars, builtVars
  <2> QED BY <2>1 DEF Flows, NotBuilt, Publishing, Serving
<1>3. CASE Cancel \/ NodeStops \/ NodeFails \/ UNCHANGED vars
  BY <1>1, <1>3 DEF Cancel, NodeStops, NodeFails, NodeReturns, RunUnchanged, vars, fileVars, startVars, watchVars,
                    serviceVars, runVars, builtVars
<1> QED BY <1>2, <1>3, FlowsStart, FlowsWatcher, FlowsGraph DEF Next

LEMMA FlowInvInit == Init => FlowInv
<1> SUFFICES ASSUME Init PROVE FlowInv
  OBVIOUS
<1>1. FromFile
  <2>1. file \in Files /\ story \in Stories /\ spc = "read" /\ wpc = "idle"
    BY DEF Init
  <2>2. DOMAIN NoFile.conf = Nodes
    BY DEF NoFile
  <2>3. /\ configs = [g \in Graphs |-> NoFile.conf] /\ cur = [g \in Graphs |-> NoFile.conf]
        /\ treeOf = [g \in Graphs |-> "none"]
    BY DEF Init
  <2> QED BY <2>1, <2>2, <2>3 DEF FromFile
<1>2. Flows
  BY DEF Init, Flows, NotBuilt, Publishing, Serving, NoGraph, Restarting
<1> QED BY <1>1, <1>2, InstanceInit DEF FlowInv

LEMMA FlowInvAlways == Spec => []FlowInv
<1>1. FlowInv /\ [Next]_vars => FlowInv'
  <2> SUFFICES ASSUME FlowInv, [Next]_vars PROVE FlowInv'
    OBVIOUS
  <2>1. EarlySaves' = EarlySaves
    BY DEF Next, vars, EarlySaves
  <2>2. InstanceInv' /\ FromFile'
    BY InstanceNext, FromFileNext DEF FlowInv, InstanceInv
  <2> QED BY <2>1, <2>2, FlowsNext DEF FlowInv, InstanceInv
<1> QED BY <1>1, FlowInvInit, PTL DEF Spec

-----------------------------------------------------------------------------
(* Reloads of whole flows.                                                  *)

LEMMA UnreplacedNext ==
  ASSUME WholeReloads, Shape, Places, FromFile, Flows, Unreplaced, [Next]_vars
  PROVE  Unreplaced'
<1>0. Files' = Files
  BY DEF Next, vars, Files
<1>1. ASSUME NEW g \in Graphs, NEW f \in Files \ {Torn}, Build(g, f), gpc' = [gpc EXCEPT ![g] = "built"],
             wpc' \notin {"replace", "start", "stuck"}
      PROVE  Unreplaced'
  <2>1. gpc'[g] = "built" /\ \A h \in Graphs : h # g => gpc'[h] = gpc[h]
    BY <1>1, BuildPlace
  <2>2. /\ Builds(f) /\ treeOf'[g] = f.tree /\ configs'[g] = f.conf
        /\ \A h \in Graphs : h # g => treeOf'[h] = treeOf[h] /\ configs'[h] = configs[h]
    BY <1>1 DEF Build, FromFile
  <2>3. ASSUME NEW h \in Graphs, gpc'[h] # "none"
        PROVE  \E x \in Files' \ {Torn} : Builds(x) /\ treeOf'[h] = x.tree /\ configs'[h] = x.conf
    BY <1>0, <2>1, <2>2, <2>3 DEF Unreplaced
  <2> QED BY <1>1, <2>3 DEF Unreplaced, Builds
<1>2. ASSUME wpc' \notin {"replace", "start", "stuck"}, UNCHANGED <<treeOf, configs>>,
             \A g \in Graphs : gpc'[g] # "none" => gpc[g] # "none"
      PROVE  Unreplaced'
  BY <1>0, <1>2 DEF Unreplaced, Builds
<1>3. CASE \/ \E f \in Files : Save(f)
           \/ Cancel \/ NodeStops \/ NodeFails \/ UNCHANGED vars
  <2>1. UNCHANGED <<wpc, treeOf, configs, gpc>>
    BY <1>3 DEF Save, Cancel, NodeStops, NodeFails, NodeReturns, RunUnchanged, vars, watchVars, runVars, builtVars
  <2> QED BY <1>2, <2>1 DEF Unreplaced
<1>4. CASE Start
  <2>0. wpc' = wpc
    BY <1>4 DEF Start, ReadConfig, StartFails, Subscribe, StartGraph, PublishGraph, AwaitGraph, watchVars
  <2>1. CASE ReadConfig \/ Subscribe \/ StartFails \/ AwaitGraph
    <3>1. UNCHANGED <<treeOf, configs, gpc>>
      BY <2>1 DEF ReadConfig, Subscribe, StartFails, AwaitGraph, runVars, builtVars
    <3> QED BY <1>2, <2>0, <3>1 DEF Unreplaced
  <2>2. CASE StartGraph /\ ~StartFails
    <3>1. PICK g \in Graphs : Build(g, startCfg) /\ gpc' = [gpc EXCEPT ![g] = "built"]
      BY <2>2 DEF StartGraph
    <3>2. startCfg \in Files \ {Torn}
      BY <2>2 DEF StartGraph, FromFile
    <3> QED BY <1>1, <2>0, <3>1, <3>2 DEF Unreplaced
  <2>3. CASE PublishGraph
    <3>1. gpc[awaited] = "built" /\ gpc' = [gpc EXCEPT ![awaited] = "starting"] /\ UNCHANGED <<treeOf, configs>>
      BY <2>3 DEF PublishGraph, builtVars, Places
    <3>2. \A g \in Graphs : gpc'[g] # "none" => gpc[g] # "none"
      BY <3>1 DEF Shape
    <3> QED BY <1>2, <2>0, <3>1, <3>2 DEF Unreplaced
  <2> QED BY <1>4, <2>1, <2>2, <2>3 DEF Start
<1>5. CASE Watcher
  <2>1. CASE \/ IgnoreEvent \/ BeginConfigure \/ CancelGraph \/ CancelNothing \/ ConfigureNothing \/ StopWatcher
    <3>1. UNCHANGED <<treeOf, configs, gpc>> /\ (wpc' = wpc \/ wpc' \in {"configure", "await", "stopped"})
      BY <2>1 DEF IgnoreEvent, BeginConfigure, CancelGraph, CancelNothing, ConfigureNothing, StopWatcher, Crash,
                  watchVars, runVars, builtVars
    <3> QED BY <1>2, <3>1 DEF Unreplaced
  <2>2. CASE BeginRestart
    <3>1. PICK g \in Graphs : Build(g, file) /\ gpc' = [gpc EXCEPT ![g] = "built"]
      BY <2>2 DEF BeginRestart
    <3>2. file \in Files \ {Torn} /\ wpc' = "cancel"
      BY <2>2 DEF BeginRestart, FromFile
    <3> QED BY <1>1, <3>1, <3>2
  <2>3. CASE SwapGraph
    <3>1. /\ wpc = "await" /\ wpc' = "idle" /\ gpc' = [gpc EXCEPT ![target] = "starting"]
          /\ UNCHANGED <<treeOf, configs>>
      BY <2>3 DEF SwapGraph, builtVars
    <3>2. \A g \in Graphs : gpc'[g] # "none" => gpc[g] # "none"
      BY <3>1 DEF Shape, Places
    <3> QED BY <1>2, <3>1, <3>2
  <2>4. CASE ConfigureNode
    <3>1. wpc = "configure" /\ graph # None
      BY <2>4 DEF ConfigureNode
    <3>2. graphRunning # None
      BY <3>1 DEF Flows, NotBuilt, NoGraph
    <3>3. /\ graph = graphRunning /\ graph \in Graphs /\ gpc[graph] # "none"
          /\ cfg.tree = treeOf[graph]
      BY <3>1, <3>2 DEF Flows, Serving, NoGraph, Restarting
    <3>4. PICK f \in Files \ {Torn} : Builds(f) /\ treeOf[graph] = f.tree /\ configs[graph] = f.conf
      BY <3>3 DEF Unreplaced
    <3>5. cfg \in Files \ {Torn}
      BY <3>1 DEF FromFile
    <3>6. cfg = f
      BY <3>3, <3>4, <3>5 DEF WholeReloads, NodesReplaced
    <3>7. wpc' \in {"idle", "configure"} /\ UNCHANGED <<treeOf, configs, gpc>>
      BY <2>4, <3>4, <3>6 DEF ConfigureNode, NextNode, runVars
    <3> QED BY <1>2, <3>7
  <2>5. ~ReplaceNode /\ ~RestartNode
    BY DEF ReplaceNode, RestartNode, Unreplaced
  <2> QED BY <1>5, <2>1, <2>2, <2>3, <2>4, <2>5 DEF Watcher
<1>6. ASSUME NEW g \in Graphs, GraphGoroutine(g) PROVE Unreplaced'
  <2>1. /\ UNCHANGED <<wpc, treeOf, configs>> /\ gpc[g] # "none"
        /\ \/ gpc' = gpc \/ gpc' = [gpc EXCEPT ![g] = "waiting"] \/ gpc' = [gpc EXCEPT ![g] = "ended"]
           \/ gpc' = [gpc EXCEPT ![g] = "clearing"] \/ gpc' = [gpc EXCEPT ![g] = "closed"]
    BY <1>6 DEF GraphGoroutine, StartNode, AwaitNode, ClearGraph, AfterRun, RunUnchanged, watchVars, builtVars
  <2>2. \A h \in Graphs : gpc'[h] # "none" => gpc[h] # "none"
    BY <2>1 DEF Shape
  <2> QED BY <1>2, <2>1, <2>2 DEF Unreplaced
<1> QED BY <1>3, <1>4, <1>5, <1>6 DEF Next

\* Nobody comes to run and nobody is waited for.
LEMMA AwaitedKept ==
  ASSUME Awaited, live' \subseteq live, UNCHANGED <<left, recv, running, graphRunning>>,
         \A g \in Graphs : gpc[g] \in {"starting", "waiting"} => gpc'[g] = gpc[g],
         \A c \in live : c[1] \in Graphs
  PROVE  Awaited'
BY DEF Awaited

\* The graph that runs is another, when nobody runs.
LEMMA AwaitedSwap ==
  ASSUME Awaited, live = {}, live' = {}, UNCHANGED <<left, recv, running>>,
         \A g \in Graphs : gpc[g] \in {"starting", "waiting"} => gpc'[g] = gpc[g]
  PROVE  Awaited'
BY DEF Awaited

LEMMA AwaitedNext ==
  ASSUME Shape, Places, Numbered, Flows, Unreplaced, Awaited, [Next]_vars
  PROVE  Awaited'
<1>0. \A c \in live : c[1] \in Graphs /\ c[2] \in Nodes /\ c = <<c[1], c[2], running[c[1]][c[2]]>>
  BY DEF Numbered
<1>1. CASE \/ \E f \in Files : Save(f)
           \/ Cancel \/ NodeStops \/ NodeFails \/ UNCHANGED vars
  <2>1. live' \subseteq live /\ UNCHANGED <<left, recv, running, graphRunning, gpc>>
    BY <1>1 DEF Save, Cancel, NodeStops, NodeFails, NodeReturns, RunUnchanged, vars, serviceVars, runVars, nodeVars
  <2> QED BY <1>0, <2>1, AwaitedKept
<1>2. CASE Start
  <2>1. CASE ReadConfig \/ Subscribe \/ StartFails \/ AwaitGraph
    <3>1. UNCHANGED <<live, left, recv, running, graphRunning, gpc>>
      BY <2>1 DEF ReadConfig, Subscribe, StartFails, AwaitGraph, serviceVars, runVars, nodeVars
    <3> QED BY <1>0, <3>1, AwaitedKept
  <2>2. CASE StartGraph /\ ~StartFails
    <3>1. PICK g \in Graphs : Build(g, startCfg) /\ gpc' = [gpc EXCEPT ![g] = "built"]
      BY <2>2 DEF StartGraph
    <3>2. UNCHANGED <<live, left, recv, running, graphRunning>>
      BY <2>2, <3>1 DEF StartGraph, Build
    <3>3. gpc[g] = "none" /\ \A h \in Graphs : h # g => gpc'[h] = gpc[h]
      BY <3>1, BuildPlace
    <3> QED BY <1>0, <3>2, <3>3, AwaitedKept
  <2>3. CASE PublishGraph
    <3>1. /\ spc = "publish" /\ gpc' = [gpc EXCEPT ![awaited] = "starting"]
          /\ UNCHANGED <<live, left, recv, running>>
      BY <2>3 DEF PublishGraph, nodeVars
    <3>2. graphRunning = None /\ gpc[awaited] = "built"
      BY <3>1 DEF Flows, NotBuilt, NoGraph, Places
    <3>3. live = {}
      BY <1>0, <3>2, NodesOf DEF Awaited
    <3>4. \A g \in Graphs : gpc[g] \in {"starting", "waiting"} => gpc'[g] = gpc[g]
      BY <3>1, <3>2 DEF Shape
    <3> QED BY <3>1, <3>3, <3>4, AwaitedSwap
  <2> QED BY <1>2, <2>1, <2>2, <2>3 DEF Start
<1>3. CASE Watcher
  <2>1. CASE \/ IgnoreEvent \/ BeginConfigure \/ CancelGraph \/ CancelNothing \/ ConfigureNothing \/ StopWatcher
             \/ ConfigureNode
    <3>1. UNCHANGED <<live, left, recv, running, graphRunning, gpc>>
      BY <2>1 DEF IgnoreEvent, BeginConfigure, TakeEvent, CancelGraph, CancelNothing, ConfigureNothing, StopWatcher,
                  ConfigureNode, Crash, serviceVars, runVars, nodeVars
    <3> QED BY <1>0, <3>1, AwaitedKept
  <2>2. CASE BeginRestart
    <3>1. PICK g \in Graphs : Build(g, file) /\ gpc' = [gpc EXCEPT ![g] = "built"]
      BY <2>2 DEF BeginRestart
    <3>2. UNCHANGED <<live, left, recv, running, graphRunning>>
      BY <2>2, <3>1 DEF BeginRestart, TakeEvent, serviceVars, Build
    <3>3. gpc[g] = "none" /\ \A h \in Graphs : h # g => gpc'[h] = gpc[h]
      BY <3>1, BuildPlace
    <3> QED BY <1>0, <3>2, <3>3, AwaitedKept
  <2>3. CASE SwapGraph
    <3>1. /\ wpc = "await" /\ gpc[graphRunning] = "closed" /\ gpc' = [gpc EXCEPT ![target] = "starting"]
          /\ UNCHANGED <<live, left, recv, running>>
      BY <2>3 DEF SwapGraph, Stopped, nodeVars
    <3>2. gpc[target] = "built"
      BY <3>1 DEF Places
    <3>3. live = {}
      BY <3>1 DEF Awaited
    <3>4. \A g \in Graphs : gpc[g] \in {"starting", "waiting"} => gpc'[g] = gpc[g]
      BY <3>1, <3>2 DEF Shape
    <3> QED BY <3>1, <3>3, <3>4, AwaitedSwap
  <2>4. ~ReplaceNode /\ ~RestartNode
    BY DEF ReplaceNode, RestartNode, Unreplaced
  <2> QED BY <1>3, <2>1, <2>2, <2>3, <2>4 DEF Watcher
<1>4. ASSUME NEW g \in Graphs, GraphGoroutine(g) PROVE Awaited'
  <2>0. g = graphRunning /\ graphRunning' = graphRunning
    <3>1. gpc[g] \in {"starting", "waiting", "ended", "clearing"}
      BY <1>4 DEF GraphGoroutine, StartNode, AwaitNode, ClearGraph
    <3>2. graphRunning' = graphRunning
      BY <1>4 DEF GraphGoroutine, StartNode, AwaitNode, ClearGraph, RunUnchanged
    <3> QED BY <3>1, <3>2, OneAtWork
  <2>1. CASE ClearGraph(g)
    <3>1. /\ gpc[g] \in {"ended", "clearing"} /\ UNCHANGED <<live, left, recv, running>>
          /\ gpc' = [gpc EXCEPT ![g] = "clearing"] \/ gpc' = [gpc EXCEPT ![g] = "closed"]
      BY <2>1 DEF ClearGraph, AfterRun, nodeVars
    <3>2. \A h \in Graphs : gpc[h] \in {"starting", "waiting"} => gpc'[h] = gpc[h]
      BY <3>1 DEF Shape
    <3> QED BY <1>0, <2>0, <3>1, <3>2, AwaitedKept
  <2>2. CASE StartNode(g)
    <3> DEFINE n == NodeSeq[started[g] + 1]
    <3>1. /\ gpc[g] = "starting" /\ recv' = recv
          /\ running' = [running EXCEPT ![g][n] = @ + 1]
          /\ live' = live \cup {<<g, n, running[g][n] + 1>>}
          /\ \/ gpc' = [gpc EXCEPT ![g] = "waiting"] /\ left' = [left EXCEPT ![g] = Nodes]
             \/ UNCHANGED <<gpc, left>>
      BY <2>2 DEF StartNode, StartRunner
    <3>2. n \in Nodes
      BY <3>1, NodesOf DEF Shape, Places
    <3>3. \A h \in Graphs : h # g => running'[h] = running[h]
      BY <3>1 DEF Shape
    <3> HIDE DEF n
    <3>4. /\ DOMAIN left' = Graphs /\ \A h \in Graphs : h # g => gpc'[h] = gpc[h] /\ left'[h] = left[h]
          /\ gpc'[g] \in {"starting", "waiting"} /\ (gpc'[g] = "waiting" => left'[g] = Nodes)
      BY <3>1 DEF Shape, Awaited
    <3>5. \A c \in live' : c[1] = g /\ c[2] \in Nodes
      BY <1>0, <2>0, <3>1, <3>2 DEF Awaited
    <3>6. recv[g] = <<>>
      BY <3>1 DEF Awaited
    <3>7. ASSUME NEW h \in Graphs, recv'[h] # <<>>
          PROVE  gpc'[h] = "waiting" /\ \E m \in left'[h] : recv'[h] = <<h, m, running'[h][m]>>
      <4>1. h # g /\ recv'[h] = recv[h]
        BY <3>1, <3>6, <3>7
      <4>2. gpc[h] = "waiting" /\ \E m \in left[h] : recv[h] = <<h, m, running[h][m]>>
        BY <3>7, <4>1 DEF Awaited
      <4> QED BY <3>3, <3>4, <4>1, <4>2
    <3>8. DOMAIN recv' = Graphs
      BY <3>1 DEF Awaited
    <3> QED BY <2>0, <3>4, <3>5, <3>7, <3>8 DEF Awaited
  <2>3. CASE AwaitNode(g)
    <3>1. gpc[g] = "waiting" /\ UNCHANGED <<live, closed, running>>
      BY <2>3 DEF AwaitNode, nodeVars
    <3>2. ASSUME NEW n \in left[g], recv' = [recv EXCEPT ![g] = <<g, n, running[g][n]>>], UNCHANGED <<gpc, left>>
          PROVE  Awaited'
      <4>1. /\ DOMAIN recv' = Graphs /\ recv'[g] = <<g, n, running[g][n]>>
            /\ \A h \in Graphs : h # g => recv'[h] = recv[h]
        BY <3>2 DEF Awaited
      <4> QED BY <2>0, <3>1, <3>2, <4>1 DEF Awaited
    <3>3. ASSUME recv[g] \in closed, left' = [left EXCEPT ![g] = @ \ {recv[g][2]}],
                 recv' = [recv EXCEPT ![g] = <<>>],
                 gpc' = IF left'[g] = {} THEN [gpc EXCEPT ![g] = "ended"] ELSE gpc
          PROVE  Awaited'
      <4>1. /\ DOMAIN recv' = Graphs /\ DOMAIN left' = Graphs /\ recv'[g] = <<>>
            /\ left'[g] = left[g] \ {recv[g][2]}
            /\ \A h \in Graphs : h # g => recv'[h] = recv[h] /\ left'[h] = left[h]
        BY <3>3 DEF Awaited
      <4>2. /\ \A h \in Graphs : h # g => gpc'[h] = gpc[h]
            /\ left'[g] # {} => gpc'[g] = gpc[g]
        BY <3>3 DEF Shape
      <4>3. ASSUME NEW c \in live PROVE c[1] = g /\ c[2] \in left'[g]
        <5>1. c[1] = g /\ c[2] \in left[g] /\ c = <<g, c[2], running[g][c[2]]>> /\ c \notin closed
          BY <1>0, <2>0, <3>1 DEF Awaited, Numbered
        <5>2. recv[g] # <<>>
          <6>1. \A d \in closed : d = <<d[1], d[2], d[3]>>
            BY DEF Numbered
          <6>2. recv[g] = <<recv[g][1], recv[g][2], recv[g][3]>>
            BY <3>3, <6>1
          <6>3. \A x, y, z : <<x, y, z>> # <<>>
            OBVIOUS
          <6> QED BY <6>2, <6>3
        <5>3. PICK m \in left[g] : recv[g] = <<g, m, running[g][m]>>
          BY <5>2 DEF Awaited
        <5>4. c[2] # m
          BY <3>3, <5>1, <5>3
        <5>5. recv[g][2] = m
          BY <5>3
        <5> QED BY <4>1, <5>1, <5>4, <5>5
      <4>4. \A c \in live' : c[1] = g /\ gpc'[g] = "waiting" /\ c[2] \in left'[g]
        BY <3>1, <4>2, <4>3
      <4>5. \A h \in Graphs : recv'[h] # <<>> =>
              gpc'[h] = "waiting" /\ \E m \in left'[h] : recv'[h] = <<h, m, running'[h][m]>>
        BY <3>1, <4>1, <4>2 DEF Awaited
      <4> QED BY <2>0, <4>1, <4>4, <4>5 DEF Awaited
    <3> QED BY <2>3, <3>2, <3>3 DEF AwaitNode
  <2> QED BY <1>4, <2>1, <2>2, <2>3 DEF GraphGoroutine
<1> QED BY <1>1, <1>2, <1>3, <1>4 DEF Next

LEMMA WholeInvAlways == Spec => []WholeInv
<1>1. Init => WholeInv
  <2> SUFFICES ASSUME Init PROVE Unreplaced /\ Awaited
    BY FlowInvInit DEF WholeInv
  <2> QED BY DEF Init, Unreplaced, Awaited
<1>2. WholeInv /\ FlowInv' /\ [Next]_vars => WholeInv'
  <2> SUFFICES ASSUME WholeInv, FlowInv', [Next]_vars, WholeReloads PROVE Unreplaced' /\ Awaited'
    <3>1. [Next]_vars => WholeReloads' = WholeReloads
      BY DEF Next, vars, WholeReloads, EarlySaves, NodesReplaced, Files, Builds
    <3> QED BY <3>1 DEF WholeInv
  <2>1. Shape /\ Places /\ Numbered /\ FromFile /\ Flows /\ Unreplaced /\ Awaited
    BY DEF WholeInv, FlowInv, InstanceInv, WholeReloads
  <2> QED BY <2>1, UnreplacedNext, AwaitedNext
<1> QED BY <1>1, <1>2, FlowInvAlways, PTL DEF Spec

\* The nodes of two graphs never run together when whole flows are reloaded (flow_service.go:
\* 157-164): restartGraph waits for the goroutine of the old graph, and that for each of its nodes.
THEOREM OneFlowAlways == Spec => []OneFlow
<1>1. WholeInv => OneFlow
  BY DEF WholeInv, Awaited, OneFlow
<1> QED BY <1>1, WholeInvAlways, PTL

-----------------------------------------------------------------------------
(* Flows that end because they were told to.                                *)

\* No node starts or returns, and no flow ends.
LEMMA ToldKept ==
  ASSUME ToldToEnd, UNCHANGED <<gctx, cancelled, closed, live, started, left, graphRunning>>,
         Ending => Ending', DOMAIN gpc' = Graphs,
         \A g \in Graphs : gpc[g] \notin {"none", "built"} => gpc'[g] \notin {"none", "built"},
         \A g \in Graphs : g = graphRunning => gpc'[g] = gpc[g]
  PROVE  ToldToEnd'
BY DEF ToldToEnd, Ended

\* A graph that was built begins to run.
LEMMA ToldRun ==
  ASSUME Shape, Awaited, ToldToEnd, NEW g \in Graphs, gpc[g] = "built", graphRunning' = g,
         gpc' = [gpc EXCEPT ![g] = "starting"],
         UNCHANGED <<gctx, cancelled, closed, live, started, left>>
  PROVE  ToldToEnd'
<1>1. gpc'[g] = "starting" /\ \A h \in Graphs : h # g => gpc'[h] = gpc[h]
  BY DEF Shape
<1>2. ~gctx[g] /\ \A c \in closed : c[1] # g
  BY DEF ToldToEnd
<1> QED BY <1>1, <1>2 DEF ToldToEnd, Ended

\* A node returns.
LEMMA ToldReturn ==
  ASSUME Shape, Numbered, StartedInOrder, Awaited, ToldToEnd, Ending' = Ending,
         NEW c \in live, NodeReturns(c), c[2] \in Fragile \/ Told(c)
  PROVE  ToldToEnd'
<1>1. /\ live' = live \ {c} /\ closed' = closed \cup {c}
      /\ cancelled' = [cancelled EXCEPT ![c[1]][c[2]] = TRUE]
      /\ UNCHANGED <<gctx, gpc, started, left, graphRunning>>
  BY DEF NodeReturns, RunUnchanged, runVars
<1>2. /\ c[1] \in Graphs /\ c[2] \in Nodes /\ running[c[1]][c[2]] # 0
      /\ \A d \in live : d = <<d[1], d[2], running[d[1]][d[2]]>> /\ d[1] \in Graphs /\ d[2] \in Nodes
  BY DEF Numbered
<1>3. c[1] = graphRunning /\ gpc[c[1]] \in {"starting", "waiting"}
  BY DEF Awaited
<1>4. c[2] \in Fragile \/ Ending
  BY <1>2, <1>3 DEF Told, ToldToEnd, Ending
<1>5. /\ cancelled' \in [Graphs -> [Nodes -> BOOLEAN]]
      /\ \A h \in Graphs : \A m \in Nodes : <<h, m>> # <<c[1], c[2]>> => cancelled'[h][m] = cancelled[h][m]
  BY <1>1, <1>2 DEF ToldToEnd
<1>6. ASSUME NEW d \in live' PROVE ~cancelled'[d[1]][d[2]]
  <2>1. d \in live /\ <<d[1], d[2]>> # <<c[1], c[2]>>
    BY <1>1, <1>2
  <2> QED BY <1>2, <1>5, <2>1 DEF ToldToEnd
<1>7. ASSUME NEW g \in Graphs, NEW i \in DOMAIN NodeSeq, i > started'[g] PROVE ~cancelled'[g][NodeSeq[i]]
  <2>1. i > started[g] /\ running[g][NodeSeq[i]] = 0
    BY <1>1, <1>7 DEF StartedInOrder
  <2> QED BY <1>2, <1>5, <2>1, NodesOf DEF ToldToEnd
<1>8. /\ DOMAIN gctx' = Graphs
      /\ \A g \in Graphs : gctx'[g] \/ (\E d \in closed' : d[1] = g) => gpc'[g] \notin {"none", "built"}
      /\ \A g \in Graphs : g = graphRunning' /\ (gctx'[g] \/ Ended(g)') => Ending'
      /\ \A d \in closed' : d[1] = graphRunning' => d[2] \in Fragile \/ Ending'
      /\ \A g \in Graphs : g = graphRunning' /\ gpc'[g] = "waiting" => Nodes \subseteq left'[g] \cup Fragile \/ Ending'
  BY <1>1, <1>3, <1>4 DEF ToldToEnd, Ended
<1> QED BY <1>5, <1>6, <1>7, <1>8 DEF ToldToEnd

LEMMA ToldGraph ==
  ASSUME Shape, Places, Numbered, Flows, Awaited, ToldToEnd, ~(Nodes \subseteq Fragile),
         NEW g \in Graphs, GraphGoroutine(g)
  PROVE  ToldToEnd'
<1>1. gpc[g] \in {"starting", "waiting", "ended", "clearing"}
  BY DEF GraphGoroutine, StartNode, AwaitNode, ClearGraph
<1>2. g = graphRunning /\ ~NoGraph
  BY <1>1, OneAtWork
<1>3. UNCHANGED <<graphRunning, ctxDone, wpc, cancelled, closed>> /\ Ending' = Ending
  BY DEF GraphGoroutine, StartNode, StartRunner, AwaitNode, ClearGraph, RunUnchanged, watchVars, nodeVars, Ending
<1>4. CASE StartNode(g)
  <2> DEFINE n == NodeSeq[started[g] + 1]
  <2>1. /\ gpc[g] = "starting" /\ started' = [started EXCEPT ![g] = @ + 1] /\ gctx' = gctx
        /\ live' = live \cup {<<g, n, running[g][n] + 1>>}
        /\ \/ gpc' = [gpc EXCEPT ![g] = "waiting"] /\ left' = [left EXCEPT ![g] = Nodes]
           \/ UNCHANGED <<gpc, left>>
    BY <1>4 DEF StartNode, StartRunner
  <2>0. started[g] \in Nat /\ started[g] < Len(NodeSeq)
    BY <2>1 DEF Shape, Places
  <2>2. /\ started[g] + 1 \in DOMAIN NodeSeq /\ started[g] + 1 > started[g]
        /\ started'[g] = started[g] + 1 /\ \A h \in Graphs : h # g => started'[h] = started[h]
    <3>1. started[g] + 1 \in DOMAIN NodeSeq /\ started[g] + 1 > started[g]
      BY <2>0, NodesOf
    <3>2. started'[g] = started[g] + 1 /\ \A h \in Graphs : h # g => started'[h] = started[h]
      BY <2>1 DEF Shape
    <3> QED BY <3>1, <3>2
  <2>3. ~cancelled[g][n]
    BY <2>2 DEF ToldToEnd
  <2>4. /\ \A h \in Graphs : h # g => gpc'[h] = gpc[h] /\ left'[h] = left[h]
        /\ gpc'[g] \in {"starting", "waiting"} /\ (gpc'[g] = "waiting" => left'[g] = Nodes)
    BY <2>1 DEF Shape, Awaited
  <2>5. ASSUME NEW h \in Graphs, NEW i \in DOMAIN NodeSeq, i > started'[h] PROVE i > started[h]
    <3>1. CASE h = g
      <4>1. i \in Nat /\ i > started[g] + 1
        BY <2>2, <2>5, <3>1, NodesOf
      <4> QED BY <2>0, <3>1, <4>1
    <3> QED BY <2>2, <2>5, <3>1
  <2>6. \A c \in live' : c \in live \/ (c[1] = g /\ c[2] = n)
    BY <2>1
  <2> HIDE DEF n
  <2>7. \A h \in Graphs : \A i \in DOMAIN NodeSeq : i > started'[h] => ~cancelled'[h][NodeSeq[i]]
    BY <1>3, <2>5 DEF ToldToEnd
  <2>8. \A c \in live' : ~cancelled'[c[1]][c[2]]
    BY <1>3, <2>3, <2>6 DEF ToldToEnd
  <2> QED BY <1>2, <1>3, <2>1, <2>4, <2>7, <2>8 DEF ToldToEnd, Ended
<1>5. CASE AwaitNode(g)
  <2>1. gpc[g] = "waiting" /\ UNCHANGED <<live, gctx, started>>
    BY <1>5 DEF AwaitNode, nodeVars
  <2>2. ASSUME UNCHANGED <<gpc, left>> PROVE ToldToEnd'
    BY <1>3, <2>1, <2>2 DEF ToldToEnd, Ended
  <2>3. ASSUME recv[g] \in closed, left' = [left EXCEPT ![g] = @ \ {recv[g][2]}],
               gpc' = IF left'[g] = {} THEN [gpc EXCEPT ![g] = "ended"] ELSE gpc
        PROVE  ToldToEnd'
    <3>1. recv[g] # <<>>
      <4>1. recv[g] = <<recv[g][1], recv[g][2], recv[g][3]>>
        BY <2>3 DEF Numbered
      <4>2. \A x, y, z : <<x, y, z>> # <<>>
        OBVIOUS
      <4> QED BY <4>1, <4>2
    <3>2. PICK n \in left[g] : recv[g] = <<g, n, running[g][n]>>
      BY <3>1 DEF Awaited
    <3>3. recv[g][1] = g /\ recv[g][2] = n
      BY <3>2
    <3>4. n \in Fragile \/ Ending
      BY <1>2, <2>3, <3>3 DEF ToldToEnd
    <3>5. left'[g] = left[g] \ {n} /\ \A h \in Graphs : h # g => left'[h] = left[h]
      BY <2>3, <3>3 DEF Awaited
    <3>6. Nodes \subseteq left'[g] \cup Fragile \/ Ending
      BY <1>2, <2>1, <3>4, <3>5 DEF ToldToEnd
    <3>7. /\ \A h \in Graphs : h # g => gpc'[h] = gpc[h]
          /\ gpc'[g] = "waiting" \/ (gpc'[g] = "ended" /\ left'[g] = {})
      BY <2>1, <2>3 DEF Shape
    <3>8. gpc'[g] = "ended" => Ending
      BY <3>6, <3>7
    <3> QED BY <1>2, <1>3, <2>1, <3>5, <3>6, <3>7, <3>8 DEF ToldToEnd, Ended
  <2> QED BY <1>5, <2>2, <2>3 DEF AwaitNode
<1>6. CASE ClearGraph(g)
  <2>1. /\ gpc[g] \in {"ended", "clearing"} /\ UNCHANGED <<live, left, started>>
        /\ gpc' = [gpc EXCEPT ![g] = "clearing"] \/ gpc' = [gpc EXCEPT ![g] = "closed"]
        /\ gctx' = gctx \/ gctx' = [gctx EXCEPT ![graphCancel] = TRUE]
    BY <1>6 DEF ClearGraph, AfterRun, nodeVars
  <2>2. graphCancel = g
    BY <1>2, <2>1 DEF Flows, Serving
  <2>3. Ending
    BY <1>2, <2>1 DEF ToldToEnd, Ended
  <2>4. /\ \A h \in Graphs : h # g => gpc'[h] = gpc[h] /\ gctx'[h] = gctx[h]
        /\ gpc'[g] \in {"clearing", "closed"} /\ DOMAIN gctx' = Graphs
    BY <2>1, <2>2 DEF Shape, ToldToEnd
  <2> QED BY <1>2, <1>3, <2>1, <2>3, <2>4 DEF ToldToEnd, Ended
<1> QED BY <1>4, <1>5, <1>6 DEF GraphGoroutine

LEMMA ToldNext ==
  ASSUME InstanceInv, Flows, Unreplaced, Unreplaced', Awaited, ToldToEnd, ~(Nodes \subseteq Fragile), Next
  PROVE  ToldToEnd'
<1>0. Shape /\ Places /\ Numbered /\ StartedInOrder
  BY DEF InstanceInv
<1>1. CASE (\E f \in Files : Save(f)) \/ Cancel
  <2>1. /\ UNCHANGED <<gctx, cancelled, closed, live, started, left, graphRunning, gpc, wpc>>
        /\ ctxDone => ctxDone'
    BY <1>1 DEF Save, Cancel, watchVars, serviceVars, runVars, nodeVars
  <2> QED BY <1>0, <2>1, ToldKept DEF Shape, Ending
<1>2. CASE NodeStops \/ NodeFails
  <2>1. PICK c \in live : NodeReturns(c) /\ (c[2] \in Fragile \/ Told(c))
    BY <1>2 DEF NodeStops, NodeFails
  <2>2. Ending' = Ending
    BY <2>1 DEF NodeReturns, RunUnchanged, watchVars, Ending
  <2> QED BY <1>0, <2>1, <2>2, ToldReturn
<1>3. CASE Start
  <2>1. CASE ReadConfig \/ Subscribe \/ StartFails \/ AwaitGraph
    <3>1. /\ UNCHANGED <<gctx, cancelled, closed, live, started, left, graphRunning, gpc, wpc>>
          /\ ctxDone => ctxDone'
      BY <2>1 DEF ReadConfig, Subscribe, StartFails, AwaitGraph, watchVars, serviceVars, runVars, nodeVars
    <3> QED BY <1>0, <3>1, ToldKept DEF Shape, Ending
  <2>2. CASE StartGraph /\ ~StartFails
    <3>1. PICK g \in Graphs : Build(g, startCfg) /\ gpc' = [gpc EXCEPT ![g] = "built"]
      BY <2>2 DEF StartGraph
    <3>2. /\ UNCHANGED <<gctx, cancelled, closed, live, started, left, graphRunning, wpc, ctxDone>>
          /\ spc = "graph"
      BY <2>2, <3>1 DEF StartGraph, Build
    <3>3. gpc[g] = "none" /\ DOMAIN gpc' = Graphs /\ \A h \in Graphs : h # g => gpc'[h] = gpc[h]
      BY <1>0, <3>1, BuildPlace
    <3>4. \A h \in Graphs : h # graphRunning
      BY <3>2, NodesOf DEF Flows, NotBuilt, NoGraph
    <3> QED BY <3>2, <3>3, <3>4, ToldKept DEF Ending
  <2>3. CASE PublishGraph
    <3>1. /\ spc = "publish" /\ graphRunning' = awaited /\ gpc' = [gpc EXCEPT ![awaited] = "starting"]
          /\ UNCHANGED <<gctx, cancelled, closed, live, started, left>>
      BY <2>3 DEF PublishGraph, nodeVars
    <3> QED BY <1>0, <3>1, ToldRun DEF Places
  <2> QED BY <1>3, <2>1, <2>2, <2>3 DEF Start
<1>4. CASE Watcher
  <2>1. CASE IgnoreEvent \/ BeginConfigure \/ CancelNothing \/ ConfigureNothing \/ StopWatcher \/ ConfigureNode
    <3>1. /\ UNCHANGED <<gctx, closed, live, started, left, graphRunning, gpc, ctxDone>>
          /\ wpc = "await" => wpc' = "await"
      BY <2>1 DEF IgnoreEvent, BeginConfigure, TakeEvent, CancelNothing, ConfigureNothing, StopWatcher,
                  ConfigureNode, Crash, watchVars, serviceVars, runVars, nodeVars
    <3>2. cancelled' = cancelled
      BY <2>1 DEF IgnoreEvent, BeginConfigure, CancelNothing, ConfigureNothing, StopWatcher,
                  ConfigureNode, Crash, nodeVars, Unreplaced
    <3> QED BY <1>0, <3>1, <3>2, ToldKept DEF Shape, Ending
  <2>2. CASE BeginRestart
    <3>1. PICK g \in Graphs : Build(g, file) /\ gpc' = [gpc EXCEPT ![g] = "built"]
      BY <2>2 DEF BeginRestart
    <3>2. /\ UNCHANGED <<gctx, cancelled, closed, live, started, left, graphRunning, ctxDone>>
          /\ wpc = "idle" /\ pending > 0
      BY <2>2, <3>1 DEF BeginRestart, TakeEvent, serviceVars, Build
    <3>3. gpc[g] = "none" /\ DOMAIN gpc' = Graphs /\ \A h \in Graphs : h # g => gpc'[h] = gpc[h]
      BY <1>0, <3>1, BuildPlace
    <3>4. gpc[graphRunning] # "none"
      BY <3>2 DEF Flows, NotBuilt, Serving, NoGraph
    <3> QED BY <3>2, <3>3, <3>4, ToldKept DEF Ending
  <2>3. CASE CancelGraph
    <3>1. /\ wpc' = "await" /\ graphCancel # None /\ gctx' = [gctx EXCEPT ![graphCancel] = TRUE]
          /\ UNCHANGED <<cancelled, closed, live, started, left, graphRunning, gpc>>
      BY <2>3 DEF CancelGraph, serviceVars, nodeVars
    <3>2. graphCancel = graphRunning /\ gpc[graphCancel] \notin {"none", "built"}
      BY <3>1 DEF Flows, NotBuilt, Serving, NoGraph
    <3>3. /\ DOMAIN gctx' = Graphs
          /\ \A g \in Graphs : g # graphCancel => gctx'[g] = gctx[g]
      BY <3>1 DEF ToldToEnd
    <3> QED BY <3>1, <3>2, <3>3 DEF ToldToEnd, Ending
  <2>4. CASE SwapGraph
    <3>1. /\ wpc = "await" /\ graphRunning' = target /\ gpc' = [gpc EXCEPT ![target] = "starting"]
          /\ UNCHANGED <<gctx, cancelled, closed, live, started, left>>
      BY <2>4 DEF SwapGraph, nodeVars
    <3> QED BY <1>0, <3>1, ToldRun DEF Places
  <2>5. ~ReplaceNode /\ ~RestartNode
    BY DEF ReplaceNode, RestartNode, Unreplaced
  <2> QED BY <1>4, <2>1, <2>2, <2>3, <2>4, <2>5 DEF Watcher
<1>5. CASE \E g \in Graphs : GraphGoroutine(g)
  BY <1>0, <1>5, ToldGraph
<1> QED BY <1>1, <1>2, <1>3, <1>4, <1>5 DEF Next

LEMMA LastInvAlways == Spec => []LastInv
<1>1. Init => LastInv
  <2> SUFFICES ASSUME Init PROVE LastInv
    OBVIOUS
  <2>1. WholeInv
    BY FlowInvInit DEF WholeInv, Init, Unreplaced, Awaited
  <2>2. ToldToEnd
    BY NodesOf DEF Init, ToldToEnd, Ended
  <2> QED BY <2>1, <2>2 DEF LastInv
<1>2. LastInv /\ WholeInv' /\ [Next]_vars => LastInv'
  <2> SUFFICES ASSUME LastInv, WholeInv', [Next]_vars, WholeReloads', ~(Nodes \subseteq Fragile) PROVE ToldToEnd'
    BY DEF LastInv
  <2>1. WholeReloads
    BY DEF Next, vars, WholeReloads, EarlySaves, NodesReplaced, Files, Builds
  <2>2. InstanceInv /\ Flows /\ Unreplaced /\ Unreplaced' /\ Awaited /\ ToldToEnd
    BY <2>1 DEF LastInv, WholeInv, FlowInv, WholeReloads
  <2>3. CASE UNCHANGED vars
    BY <2>2, <2>3, ToldKept DEF vars, watchVars, serviceVars, runVars, nodeVars, InstanceInv, Shape, Ending
  <2> QED BY <2>2, <2>3, ToldNext
<1> QED BY <1>1, <1>2, WholeInvAlways, PTL DEF Spec

\* "... it will remain running with the last valid configuration" (agent.go:95): between two
\* events the current graph has the tree of the last valid content that was handled; and there
\* is a current graph when whole flows are reloaded and a node does not fail.
THEOREM LastValidTreeAlways == Spec => []LastValidTree
<1>1. LastInv => LastValidTree
  <2> SUFFICES ASSUME LastInv, Settled, ~EarlySaves
               PROVE  /\ graph # None => treeOf[graph] = good.tree
                      /\ WholeReloads /\ ~(Nodes \subseteq Fragile) => graph # None
    BY DEF LastValidTree
  <2>1. ~NoGraph /\ Serving /\ ~Restarting
    BY DEF LastInv, WholeInv, FlowInv, Flows, Serving, Settled, Restarting
  <2>2. graph # None => graph = graphRunning /\ treeOf[graphRunning] = good.tree
    BY <2>1 DEF Serving
  <2>3. ASSUME WholeReloads, ~(Nodes \subseteq Fragile) PROVE graph # None
    <3>1. ~Ending
      BY DEF Settled, Ending
    <3>2. gpc[graphRunning] # "closed"
      BY <2>1, <2>3, <3>1 DEF LastInv, ToldToEnd, Ended, Serving
    <3> QED BY <2>1, <3>2 DEF Serving, NoGraph
  <2> QED BY <2>2, <2>3
<1> QED BY <1>1, LastInvAlways, PTL

-----------------------------------------------------------------------------
(* The configurations that nodes have.                                      *)

\* What Graph.Configure has recorded of a node is what the node runs, or was rejected, or is
\* being put in the node's place; graphs that are not built yet are nobody's.
Backed ==
  /\ graph # None => gpc[graph] # "none"
  /\ wpc \in {"replace", "stuck"} => target \in Graphs /\ gpc[target] # "none"
  /\ wpc = "replace" => configs[target][NodeSeq[idx]] = cfg.conf[NodeSeq[idx]]
  /\ \A g \in Graphs : \A n \in Nodes :
       \/ configs[g][n] \in {cur[g][n]} \cup Rejected
       \/ wpc \in {"replace", "stuck"} /\ g = target /\ n = NodeSeq[idx]

\* No node gets another configuration.
LEMMA BackedKept ==
  ASSUME Backed, UNCHANGED <<configs, cur>>,
         \A g \in Graphs : gpc[g] # "none" => gpc'[g] # "none",
         graph \in Graphs \cup {None}, graph' # None => graph' = graph \/ gpc'[graph'] # "none",
         \/ UNCHANGED <<wpc, target, idx, cfg>>
         \/ wpc \notin {"replace", "stuck"} /\ wpc' \notin {"replace", "stuck"}
  PROVE  Backed'
BY DEF Backed

\* A graph is built.
LEMMA BackedBuild ==
  ASSUME Shape, Places, FromFile, Backed, NEW g \in Graphs, NEW f, Build(g, f),
         gpc' = [gpc EXCEPT ![g] = "built"], graph' = graph,
         \/ UNCHANGED <<wpc, target, idx, cfg>>
         \/ wpc \notin {"replace", "stuck"} /\ wpc' \notin {"replace", "stuck"}
  PROVE  Backed'
<1>1. /\ gpc[g] = "none" /\ gpc'[g] = "built" /\ \A h \in Graphs : h # g => gpc'[h] = gpc[h]
  BY BuildPlace
<1>2. /\ configs'[g] = f.conf /\ cur'[g] = f.conf
      /\ \A h \in Graphs : h # g => configs'[h] = configs[h] /\ cur'[h] = cur[h]
  BY DEF Build, FromFile
<1>3. graph \in Graphs \cup {None}
  BY DEF Shape
<1>4. /\ graph' # None => gpc'[graph'] # "none"
      /\ wpc' \in {"replace", "stuck"} => target' \in Graphs /\ gpc'[target'] # "none" /\ target' # g
  BY <1>1, <1>3 DEF Backed
<1>5. wpc' = "replace" => configs'[target'][NodeSeq[idx']] = cfg'.conf[NodeSeq[idx']]
  BY <1>2, <1>4 DEF Backed
<1>6. ASSUME NEW h \in Graphs, NEW n \in Nodes
      PROVE  \/ configs'[h][n] \in {cur'[h][n]} \cup Rejected
             \/ wpc' \in {"replace", "stuck"} /\ h = target' /\ n = NodeSeq[idx']
  <2>1. CASE h = g
    BY <1>2, <2>1
  <2>2. CASE h # g
    BY <1>2, <2>2 DEF Backed
  <2> QED BY <2>1, <2>2
<1> QED BY <1>4, <1>5, <1>6 DEF Backed

LEMMA BackedWatcher ==
  ASSUME Shape, Places, Replacing, FromFile, Backed, Watcher
  PROVE  Backed'
<1>0. graph \in Graphs \cup {None} /\ DOMAIN gpc = Graphs
  BY DEF Shape
<1>1. CASE \/ IgnoreEvent \/ BeginConfigure \/ CancelGraph \/ CancelNothing \/ ConfigureNothing \/ RestartNode
           \/ StopWatcher
  <2>1. /\ UNCHANGED <<configs, cur, gpc, graph>>
        /\ \/ UNCHANGED <<wpc, target, idx, cfg>>
           \/ wpc \notin {"replace", "stuck"} /\ wpc' \notin {"replace", "stuck"}
    BY <1>1 DEF IgnoreEvent, BeginConfigure, TakeEvent, CancelGraph, CancelNothing, ConfigureNothing, RestartNode,
                NextNode, StartRunner, StopWatcher, Crash, watchVars, serviceVars, runVars, nodeVars, builtVars
  <2> QED BY <1>0, <2>1, BackedKept
<1>2. CASE BeginRestart
  <2>1. PICK g \in Graphs : Build(g, file) /\ gpc' = [gpc EXCEPT ![g] = "built"]
    BY <1>2 DEF BeginRestart
  <2>2. wpc = "idle" /\ wpc' = "cancel" /\ graph' = graph
    BY <1>2 DEF BeginRestart, TakeEvent, serviceVars
  <2> QED BY <2>1, <2>2, BackedBuild
<1>3. CASE SwapGraph
  <2>1. /\ wpc = "await" /\ wpc' = "idle" /\ graph' = target /\ gpc' = [gpc EXCEPT ![target] = "starting"]
        /\ UNCHANGED <<configs, cur>>
    BY <1>3 DEF SwapGraph, nodeVars, builtVars
  <2>2. /\ target \in Graphs /\ gpc'[target] = "starting" /\ \A h \in Graphs : h # target => gpc'[h] = gpc[h]
    BY <2>1 DEF Shape, Places
  <2> QED BY <1>0, <2>1, <2>2, BackedKept
<1>4. CASE ConfigureNode
  <2> DEFINE n == NodeSeq[idx]
  <2>1. /\ wpc = "configure" /\ graph \in Graphs /\ n \in Nodes /\ UNCHANGED <<cfg, graph, gpc, cur>>
    BY <1>0, <1>4, NodesOf DEF ConfigureNode, serviceVars, runVars, Shape
  <2>2. \/ wpc' \in {"idle", "configure"} /\ configs' = configs
        \/ /\ configs' = [configs EXCEPT ![graph][n] = cfg.conf[n]]
           /\ \/ wpc' \in {"idle", "configure"} /\ cfg.conf[n] \in Rejected
              \/ wpc' \in {"replace", "stuck"} /\ target' = graph /\ idx' = idx
    BY <1>4 DEF ConfigureNode, NextNode, Recorded
  <2> HIDE DEF n
  <2>3. CASE wpc' \in {"idle", "configure"} /\ configs' = configs
    BY <1>0, <2>1, <2>3, BackedKept
  <2>4. CASE configs' = [configs EXCEPT ![graph][n] = cfg.conf[n]]
    <3>1. /\ configs'[graph][n] = cfg.conf[n]
          /\ \A h \in Graphs : \A m \in Nodes : <<h, m>> # <<graph, n>> => configs'[h][m] = configs[h][m]
      BY <2>1, <2>4 DEF FromFile
    <3>2. ASSUME NEW h \in Graphs, NEW m \in Nodes, <<h, m>> # <<graph, n>>
          PROVE  configs'[h][m] \in {cur'[h][m]} \cup Rejected
      BY <2>1, <3>1, <3>2 DEF Backed
    <3>3. CASE wpc' \in {"idle", "configure"} /\ cfg.conf[n] \in Rejected
      BY <2>1, <3>1, <3>2, <3>3, NodesOf DEF Backed
    <3>4. CASE wpc' \in {"replace", "stuck"} /\ target' = graph /\ idx' = idx
      BY <2>1, <3>1, <3>2, <3>4, NodesOf DEF Backed, n
    <3>5. wpc' \in {"idle", "configure"} /\ configs' # configs => cfg.conf[n] \in Rejected
      BY <2>2
    <3> QED BY <2>2, <2>3, <3>3, <3>4, <3>5
  <2> QED BY <2>2, <2>3, <2>4
<1>5. CASE ReplaceNode
  <2> DEFINE n == NodeSeq[idx]
  <2>1. /\ wpc = "replace" /\ wpc' = "start" /\ cur' = [cur EXCEPT ![target][n] = cfg.conf[n]]
        /\ UNCHANGED <<configs, graph, gpc>>
    BY <1>5 DEF ReplaceNode, serviceVars, runVars, builtVars
  <2>2. target \in Graphs /\ n \in Nodes /\ configs[target][n] = cfg.conf[n]
    BY <2>1, NodesOf DEF Backed, Shape
  <2> HIDE DEF n
  <2>3. /\ cur'[target][n] = cfg.conf[n]
        /\ \A h \in Graphs : \A m \in Nodes : <<h, m>> # <<target, n>> => cur'[h][m] = cur[h][m]
    BY <2>1, <2>2 DEF FromFile
  <2>4. ASSUME NEW h \in Graphs, NEW m \in Nodes
        PROVE  configs'[h][m] \in {cur'[h][m]} \cup Rejected
    <3>1. CASE <<h, m>> = <<target, n>>
      BY <2>1, <2>2, <2>3, <3>1
    <3>2. CASE <<h, m>> # <<target, n>>
      BY <2>1, <2>3, <3>2 DEF Backed, n
    <3> QED BY <3>1, <3>2
  <2> QED BY <2>1, <2>4 DEF Backed
<1> QED BY <1>1, <1>2, <1>3, <1>4, <1>5 DEF Watcher

LEMMA BackedNext ==
  ASSUME Shape, Places, Replacing, FromFile, Backed, [Next]_vars
  PROVE  Backed'
<1>0. graph \in Graphs \cup {None} /\ DOMAIN gpc = Graphs
  BY DEF Shape
<1>1. CASE \/ \E f \in Files : Save(f)
           \/ Cancel \/ UNCHANGED vars
  <2>1. UNCHANGED <<configs, cur, gpc, graph, wpc, target, idx, cfg>>
    BY <1>1 DEF Save, Cancel, vars, watchVars, serviceVars, runVars, nodeVars, builtVars
  <2> QED BY <1>0, <2>1, BackedKept
<1>2. CASE NodeStops \/ NodeFails
  <2>1. UNCHANGED <<configs, cur, gpc, graph, wpc, target, idx, cfg>>
    BY <1>2 DEF NodeStops, NodeFails, NodeReturns, RunUnchanged, watchVars, runVars, builtVars
  <2> QED BY <1>0, <2>1, BackedKept
<1>3. CASE Start
  <2>0. UNCHANGED <<wpc, target, idx, cfg>>
    BY <1>3 DEF Start, ReadConfig, StartFails, Subscribe, StartGraph, PublishGraph, AwaitGraph, watchVars
  <2>1. CASE ReadConfig \/ Subscribe \/ StartFails \/ AwaitGraph
    <3>1. UNCHANGED <<configs, cur, gpc, graph>>
      BY <2>1 DEF ReadConfig, Subscribe, StartFails, AwaitGraph, serviceVars, runVars, nodeVars, builtVars
    <3> QED BY <1>0, <2>0, <3>1, BackedKept
  <2>2. CASE StartGraph /\ ~StartFails
    <3>1. PICK g \in Graphs : Build(g, startCfg) /\ gpc' = [gpc EXCEPT ![g] = "built"]
      BY <2>2 DEF StartGraph
    <3>2. graph' = graph
      BY <2>2, <3>1 DEF StartGraph
    <3> QED BY <2>0, <3>1, <3>2, BackedBuild
  <2>3. CASE PublishGraph
    <3>1. /\ spc = "publish" /\ graph' = awaited /\ gpc' = [gpc EXCEPT ![awaited] = "starting"]
          /\ UNCHANGED <<configs, cur>>
      BY <2>3 DEF PublishGraph, nodeVars, builtVars
    <3>2. /\ awaited \in Graphs /\ gpc'[awaited] = "starting" /\ \A h \in Graphs : h # awaited => gpc'[h] = gpc[h]
      BY <3>1 DEF Shape, Places
    <3> QED BY <1>0, <2>0, <3>1, <3>2, BackedKept
  <2> QED BY <1>3, <2>1, <2>2, <2>3 DEF Start
<1>4. ASSUME NEW g \in Graphs, GraphGoroutine(g) PROVE Backed'
  <2>1. /\ UNCHANGED <<configs, cur, wpc, target, idx, cfg>> /\ graph' \in {graph, None}
        /\ \/ gpc' = gpc \/ gpc' = [gpc EXCEPT ![g] = "waiting"] \/ gpc' = [gpc EXCEPT ![g] = "ended"]
           \/ gpc' = [gpc EXCEPT ![g] = "clearing"] \/ gpc' = [gpc EXCEPT ![g] = "closed"]
    BY <1>4 DEF GraphGoroutine, StartNode, StartRunner, AwaitNode, ClearGraph, AfterRun, RunUnchanged, watchVars,
                nodeVars, builtVars
  <2>2. \A h \in Graphs : gpc[h] # "none" => gpc'[h] # "none"
    BY <1>0, <2>1
  <2> QED BY <1>0, <2>1, <2>2, BackedKept
<1> QED BY <1>1, <1>2, <1>3, <1>4, BackedWatcher DEF Next

\* What Graph.configs says a node was configured with, which decides whether the node is replaced
\* (graph.go:346-350), is what the node runs, unless it was rejected: whatever the users save.
THEOREM ConfigsBackedAlways == Spec => []ConfigsBacked
<1>1. Init => Backed
  BY DEF Init, Backed
<1>2. FlowInv /\ Backed /\ [Next]_vars => Backed'
  BY BackedNext DEF FlowInv, InstanceInv
<1>3. FlowInv /\ Backed => ConfigsBacked
  BY DEF FlowInv, InstanceInv, Shape, Backed, ConfigsBacked, Settled
<1> QED BY <1>1, <1>2, <1>3, FlowInvAlways, PTL DEF Spec
=============================================================================
