---------------------------- MODULE FlowService ----------------------------
(***************************************************************************)
(* The flow service (internal/flowsvc/flow_service.go) and the graph of    *)
(* node runners it keeps (graph.go), from start-up through live reloads of *)
(* the configuration file to shutdown.  Four kinds of goroutine run:       *)
(* Service.Start; the file watcher of configsvc, in which onConfigChange   *)
(* is called; one per graph, in which Graph.Run is called; and one per     *)
(* started node.  They share the service's fields without a lock.          *)
(*                                                                         *)
(* The content of the file is a record [tree |-> t, conf |-> c] (t: ids,   *)
(* types and edges of the nodes, which is what treeHash reads; c: a        *)
(* configuration for each node) or Torn, which does not parse.  All trees  *)
(* are over the same node ids.                                             *)
(***************************************************************************)
EXTENDS Naturals, FiniteSets, Sequences

CONSTANTS NodeSeq,       \* the node ids, in the order of the file
          Stories,       \* what the users do: which contents they save, and when
          Torn,          \* one that does not parse
          ValidTrees,    \* the trees that Validate and Build accept
          Rejected,      \* the node configurations that Configure rejects
          Fragile,       \* the nodes that may fail by themselves
          MaxGraphs,     \* bound: graphs built
          MaxSaves       \* bound: times the file is saved

VARIABLE story

\* A story: the contents that the file may have, and whether it is saved while the
\* service starts.
Files == story.files
EarlySaves == story.early
AllFiles == UNION {s.files : s \in Stories}

Nodes == {NodeSeq[i] : i \in DOMAIN NodeSeq}
Graphs == 1..MaxGraphs
None == 0

ASSUME FlowAssumption ==
  /\ NodeSeq \in Seq(Nodes) /\ NodeSeq # <<>>
  /\ \A i, j \in DOMAIN NodeSeq : NodeSeq[i] = NodeSeq[j] => i = j
  /\ \A s \in Stories : Torn \in s.files /\ s.early \in BOOLEAN
  /\ \A f \in AllFiles \ {Torn} : DOMAIN f.conf = Nodes
  /\ Fragile \subseteq Nodes
  /\ MaxGraphs \in Nat \ {0} /\ MaxSaves \in Nat

VARIABLES
  file, pending, saves,       \* the file, its unread events, saves so far
  watching, subscribed,       \* is its directory watched, onConfigChange called?
  ctxDone, crashed,           \* the service's ctx; has the process panicked?
  spc, startCfg, awaited,     \* Start: where it is, its cfg, the graph it waits for
  wpc, cfg, idx, target,      \* the watcher: where it is, its cfg, node and graph
  good,                       \* ghost: the last valid content that was handled
  graph, graphCancel, graphRunning, graphHash,  \* the fields of Service
  gpc, gctx,                  \* each graph's goroutine, and its ctx
  treeOf, configs,            \* its tree, and Graph.configs
  registered,                 \* whose actions and signals its registry has
  started, left, recv,        \* Graph.Run: nodes started, not yet awaited, awaited
  running, cancelled, cur,    \* each runner's channel, ctx and node
  live, closed                \* channels of nodes that run, and of those that ran

fileVars    == <<file, pending, saves, watching, subscribed>>
startVars   == <<spc, startCfg, awaited>>
watchVars   == <<wpc, cfg, idx, target, good>>
serviceVars == <<graph, graphCancel, graphRunning, graphHash>>
runVars     == <<gpc, gctx, started, left, recv>>
nodeVars    == <<running, cancelled, cur, live, closed>>
builtVars   == <<treeOf, configs, registered>>
vars == <<story, fileVars, startVars, watchVars, serviceVars, runVars, nodeVars,
          builtVars, ctxDone, crashed>>

NoFile == [tree |-> "none", conf |-> [n \in Nodes |-> "none"]]

Init ==
  /\ story \in Stories
  /\ file \in Files /\ pending = 0 /\ saves = 0
  /\ watching = FALSE /\ subscribed = FALSE /\ ctxDone = FALSE /\ crashed = FALSE
  /\ spc = "read" /\ startCfg = NoFile /\ awaited = None
  /\ wpc = "idle" /\ cfg = NoFile /\ idx = 1 /\ target = None /\ good = NoFile
  /\ graph = None /\ graphCancel = None /\ graphRunning = None /\ graphHash = "none"
  /\ gpc = [g \in Graphs |-> "none"] /\ gctx = [g \in Graphs |-> FALSE]
  /\ treeOf = [g \in Graphs |-> "none"]
  /\ configs = [g \in Graphs |-> NoFile.conf]
  /\ registered = [g \in Graphs |-> [n \in Nodes |-> 0]]
  /\ started = [g \in Graphs |-> 0] /\ left = [g \in Graphs |-> {}]
  /\ recv = [g \in Graphs |-> <<>>]
  /\ running = [g \in Graphs |-> [n \in Nodes |-> 0]]
  /\ cancelled = [g \in Graphs |-> [n \in Nodes |-> FALSE]]
  /\ cur = [g \in Graphs |-> NoFile.conf]
  /\ live = {} /\ closed = {}

-----------------------------------------------------------------------------
(* The world: the user saves the file, or stops the agent.                  *)

Save(f) ==
  /\ saves < MaxSaves /\ f # file
  /\ EarlySaves \/ spc = "serving"
  /\ file' = f
  /\ saves' = saves + 1
  /\ pending' = IF watching THEN pending + 1 ELSE pending
  /\ UNCHANGED <<watching, subscribed, startVars, watchVars, serviceVars, runVars,
                 nodeVars, builtVars, ctxDone, crashed>>

Cancel ==
  /\ ~ctxDone
  /\ ctxDone' = TRUE
  /\ UNCHANGED <<fileVars, startVars, watchVars, serviceVars, runVars, nodeVars,
                 builtVars, crashed>>

Crash ==
  /\ crashed' = TRUE
  /\ UNCHANGED <<fileVars, startVars, watchVars, serviceVars, runVars, nodeVars,
                 builtVars, ctxDone>>

-----------------------------------------------------------------------------
(* buildGraph: nodes are created and configured, none is started.           *)

Builds(f) == f.tree \in ValidTrees /\ \A n \in Nodes : f.conf[n] \notin Rejected

Unused(g) == gpc[g] = "none" /\ \A h \in 1..(g - 1) : gpc[h] # "none"

Build(g, f) ==
  /\ Unused(g) /\ Builds(f)
  /\ treeOf' = [treeOf EXCEPT ![g] = f.tree]
  /\ configs' = [configs EXCEPT ![g] = f.conf]
  /\ cur' = [cur EXCEPT ![g] = f.conf]
  /\ registered' = [registered EXCEPT ![g] = [n \in Nodes |-> 1]]
  /\ UNCHANGED <<running, cancelled, live, closed, gctx, started, left, recv>>

-----------------------------------------------------------------------------
(* Service.Start                                                            *)

\* An error makes the errgroup of Agent.Run cancel the ctx of all services.
StartFails ==
  /\ spc' = "failed" /\ ctxDone' = TRUE
  /\ UNCHANGED <<startCfg, awaited, fileVars, watchVars, serviceVars, runVars,
                 nodeVars, builtVars, crashed>>

ReadConfig ==
  /\ spc = "read"
  /\ \/ file = Torn /\ StartFails
     \/ /\ file # Torn
        /\ startCfg' = file /\ spc' = "watch"
        /\ UNCHANGED <<awaited, fileVars, watchVars, serviceVars, runVars, nodeVars,
                       builtVars, ctxDone, crashed>>

\* watcher.Add, then the callback is appended to the subscribers.
Subscribe ==
  /\ \/ spc = "watch" /\ watching' = TRUE /\ spc' = "subscribe" /\ UNCHANGED subscribed
     \/ spc = "subscribe" /\ subscribed' = TRUE /\ spc' = "graph" /\ UNCHANGED watching
  /\ UNCHANGED <<file, pending, saves, startCfg, awaited, watchVars, serviceVars,
                 runVars, nodeVars, builtVars, ctxDone, crashed>>

StartGraph ==
  /\ spc = "graph"
  /\ \/ ~Builds(startCfg) /\ StartFails
     \/ /\ \E g \in Graphs : Build(g, startCfg) /\ awaited' = g
                             /\ gpc' = [gpc EXCEPT ![g] = "built"]
        /\ graphHash' = startCfg.tree /\ good' = startCfg
        /\ spc' = "publish"
        /\ UNCHANGED <<startCfg, fileVars, wpc, cfg, idx, target, graph, graphCancel,
                       graphRunning, ctxDone, crashed>>

\* The remaining assignments of startGraph, and its go statement.
PublishGraph ==
  /\ spc = "publish"
  /\ graph' = awaited /\ graphCancel' = awaited /\ graphRunning' = awaited
  /\ gpc' = [gpc EXCEPT ![awaited] = "starting"]
  /\ spc' = "serving"
  /\ UNCHANGED <<startCfg, awaited, fileVars, watchVars, graphHash, gctx, started, left,
                 recv, nodeVars, builtVars, ctxDone, crashed>>

AwaitGraph ==
  /\ ctxDone
  /\ \/ spc = "serving" /\ spc' = "await" /\ awaited' = graphRunning
     \/ spc = "await" /\ gpc[awaited] = "closed" /\ spc' = "returned" /\ UNCHANGED awaited
     \/ spc \in {"read", "graph"} /\ spc' = "returned" /\ UNCHANGED awaited
  /\ UNCHANGED <<startCfg, fileVars, watchVars, serviceVars, runVars, nodeVars, builtVars,
                 ctxDone, crashed>>

Start == ReadConfig \/ Subscribe \/ StartGraph \/ PublishGraph \/ AwaitGraph

-----------------------------------------------------------------------------
(* The watcher: onConfigChange is called for each event, with the content   *)
(* that the file has by then.                                               *)

TakeEvent ==
  /\ wpc = "idle" /\ pending > 0
  /\ pending' = pending - 1
  /\ UNCHANGED <<file, saves, watching, subscribed, startVars, serviceVars, ctxDone,
                 crashed>>

Changed(f) == f.tree # graphHash

IgnoreEvent ==
  /\ TakeEvent
  /\ subscribed /\ file # Torn => Changed(file) /\ ~Builds(file)
  /\ UNCHANGED <<watchVars, runVars, nodeVars, builtVars>>

BeginRestart ==
  /\ TakeEvent
  /\ subscribed /\ file # Torn /\ Changed(file)
  /\ \E g \in Graphs : Build(g, file) /\ target' = g /\ gpc' = [gpc EXCEPT ![g] = "built"]
  /\ cfg' = file /\ good' = file
  /\ wpc' = "cancel"
  /\ UNCHANGED idx

BeginConfigure ==
  /\ TakeEvent
  /\ subscribed /\ file # Torn /\ ~Changed(file)
  /\ cfg' = file /\ idx' = 1
  /\ good' = IF Builds(file) THEN file ELSE good
  /\ wpc' = "configure"
  /\ UNCHANGED <<target, runVars, nodeVars, builtVars>>

CancelGraph ==
  /\ wpc = "cancel" /\ graphCancel # None
  /\ gctx' = [gctx EXCEPT ![graphCancel] = TRUE]
  /\ wpc' = "await"
  /\ UNCHANGED <<cfg, idx, target, good, fileVars, startVars, serviceVars, gpc, started,
                 left, recv, nodeVars, builtVars, ctxDone, crashed>>

\* s.graphCancel() is a call of nil when there is no flow: a panic, and nothing in
\* this goroutine recovers.
CancelNothing == wpc = "cancel" /\ graphCancel = None /\ Crash

\* Mutant: restartGraph does not wait for graphRunning.
BugStopped == graphRunning # None

Stopped == gpc[graphRunning] = "closed"

\* Mutant: restartGraph does not set graphHash.
BugNewHash(f) == graphHash

NewHash(f) == f.tree

SwapGraph ==
  /\ wpc = "await" /\ Stopped
  /\ graphHash' = NewHash(cfg)
  /\ graphRunning' = target /\ graph' = target /\ graphCancel' = target
  /\ gpc' = [gpc EXCEPT ![target] = "starting"]
  /\ wpc' = "idle"
  /\ UNCHANGED <<cfg, idx, target, good, fileVars, startVars, gctx, started, left, recv,
                 nodeVars, builtVars, ctxDone, crashed>>

Last(i) == i = Len(NodeSeq)

NextNode == IF Last(idx) THEN wpc' = "idle" /\ UNCHANGED idx
                         ELSE wpc' = "configure" /\ idx' = idx + 1

\* Mutant: Graph.Configure does not keep the new configuration.
BugRecorded(n) == configs

Recorded(n) == [configs EXCEPT ![graph][n] = cfg.conf[n]]

\* makeNode: the new node, the k-th, registers its actions and signals; an error,
\* as when they are registered already, is put aside (graph.go:218-230).
Registered(n, k) ==
  [registered EXCEPT ![graph][n] = IF registered[graph][n] = 0 THEN k ELSE @]

\* s.graph.Configure(node.ID, node.Config) with the node at idx: an unchanged
\* configuration is skipped, a rejected one leaves the node running, another
\* begins replaceNode, which waits for the channel `running` as it is now.
ConfigureNode ==
  LET n == NodeSeq[idx] IN
  /\ wpc = "configure" /\ graph # None
  /\ \/ /\ cfg.conf[n] = configs[graph][n]
        /\ NextNode
        /\ UNCHANGED <<target, cancelled, configs, registered>>
     \/ /\ cfg.conf[n] # configs[graph][n]
        /\ configs' = Recorded(n)
        /\ registered' = Registered(n, running[graph][n] + 2)
        /\ \/ cfg.conf[n] \in Rejected /\ NextNode /\ UNCHANGED <<target, cancelled>>
           \/ /\ cfg.conf[n] \notin Rejected
              /\ target' = graph
              /\ cancelled' = [cancelled EXCEPT ![graph][n] = TRUE]
              /\ wpc' = IF running[graph][n] = 0 THEN "stuck" ELSE "replace"
              /\ UNCHANGED idx
  /\ UNCHANGED <<cfg, good, fileVars, startVars, serviceVars, runVars, running, cur, live,
                 closed, treeOf, ctxDone, crashed>>

\* s.graph is nil once the flow has stopped by itself, and before it was started.
ConfigureNothing == wpc = "configure" /\ graph = None /\ Crash

\* Mutant: replaceNode does not wait for the node to return.
BugGone(g, n) == running[g][n] # 0

Gone(g, n) == <<g, n, running[g][n]>> \in closed

\* replaceNode makes a channel that start throws away at once.
ReplaceNode ==
  LET n == NodeSeq[idx] IN
  /\ wpc = "replace" /\ Gone(target, n)
  /\ cur' = [cur EXCEPT ![target][n] = cfg.conf[n]]
  /\ cancelled' = [cancelled EXCEPT ![target][n] = FALSE]
  /\ running' = [running EXCEPT ![target][n] = @ + 1]
  /\ wpc' = "start"
  /\ UNCHANGED <<cfg, idx, target, good, fileVars, startVars, serviceVars, runVars, live,
                 closed, builtVars, ctxDone, crashed>>

\* nodeRunner.start
StartRunner(g, n) ==
  /\ running' = [running EXCEPT ![g][n] = @ + 1]
  /\ live' = live \cup {<<g, n, running[g][n] + 1>>}
  /\ UNCHANGED <<cancelled, cur, closed>>

RestartNode ==
  /\ wpc = "start"
  /\ StartRunner(target, NodeSeq[idx])
  /\ NextNode
  /\ UNCHANGED <<cfg, target, good, fileVars, startVars, serviceVars, runVars, builtVars,
                 ctxDone, crashed>>

StopWatcher ==
  /\ wpc = "idle" /\ ctxDone
  /\ wpc' = "stopped"
  /\ UNCHANGED <<cfg, idx, target, good, fileVars, startVars, serviceVars, runVars,
                 nodeVars, builtVars, ctxDone, crashed>>

Watcher ==
  \/ IgnoreEvent \/ BeginRestart \/ BeginConfigure \/ CancelGraph \/ CancelNothing
  \/ SwapGraph \/ ConfigureNode \/ ConfigureNothing \/ ReplaceNode \/ RestartNode \/ StopWatcher

-----------------------------------------------------------------------------
(* A graph's goroutine: Graph.Run, then the fields of the service are       *)
(* cleared.                                                                 *)

RunUnchanged == UNCHANGED <<fileVars, startVars, watchVars, graphRunning, graphHash,
                            builtVars, ctxDone, crashed>>

StartNode(g) ==
  /\ gpc[g] = "starting"
  /\ StartRunner(g, NodeSeq[started[g] + 1])
  /\ started' = [started EXCEPT ![g] = @ + 1]
  /\ IF Last(started'[g])
       THEN gpc' = [gpc EXCEPT ![g] = "waiting"] /\ left' = [left EXCEPT ![g] = Nodes]
       ELSE UNCHANGED <<gpc, left>>
  /\ UNCHANGED <<graph, graphCancel, gctx, recv>>
  /\ RunUnchanged

\* <-g.running: the channel is read once, and then waited for.
AwaitNode(g) ==
  /\ gpc[g] = "waiting"
  /\ \/ /\ recv[g] = <<>>
        /\ \E n \in left[g] : recv' = [recv EXCEPT ![g] = <<g, n, running[g][n]>>]
        /\ UNCHANGED <<gpc, left>>
     \/ /\ recv[g] \in closed
        /\ left' = [left EXCEPT ![g] = @ \ {recv[g][2]}]
        /\ recv' = [recv EXCEPT ![g] = <<>>]
        /\ gpc' = IF left'[g] = {} THEN [gpc EXCEPT ![g] = "ended"] ELSE gpc
  /\ UNCHANGED <<graph, graphCancel, gctx, started, nodeVars>>
  /\ RunUnchanged

\* Mutant: the goroutine does not close graphRunning.
BugAfterRun == "clearing"

AfterRun == "closed"

ClearGraph(g) ==
  /\ \/ /\ gpc[g] = "ended"
        /\ gctx' = [gctx EXCEPT ![graphCancel] = TRUE]
        /\ gpc' = [gpc EXCEPT ![g] = "clearing"]
        /\ UNCHANGED <<graph, graphCancel>>
     \/ /\ gpc[g] = "clearing"
        /\ graph' = None /\ graphCancel' = None
        /\ gpc' = [gpc EXCEPT ![g] = AfterRun]
        /\ UNCHANGED gctx
  /\ UNCHANGED <<started, left, recv, nodeVars>>
  /\ RunUnchanged

GraphGoroutine(g) == StartNode(g) \/ AwaitNode(g) \/ ClearGraph(g)

\* A node's Run returns, or panics: its ctx is cancelled, its channel closed.
NodeReturns(c) ==
  /\ c \in live
  /\ live' = live \ {c} /\ closed' = closed \cup {c}
  /\ cancelled' = [cancelled EXCEPT ![c[1]][c[2]] = TRUE]
  /\ UNCHANGED <<running, cur, runVars, graph, graphCancel>>
  /\ RunUnchanged

Told(c) == ctxDone \/ gctx[c[1]] \/ cancelled[c[1]][c[2]]

NodeStops == \E c \in live : Told(c) /\ NodeReturns(c)
NodeFails == \E c \in live : c[2] \in Fragile /\ ~Told(c) /\ NodeReturns(c)

-----------------------------------------------------------------------------
Next ==
  /\ ~crashed /\ UNCHANGED story
  /\ \/ \E f \in Files : Save(f)
     \/ Cancel \/ Start \/ Watcher \/ NodeStops \/ NodeFails
     \/ \E g \in Graphs : GraphGoroutine(g)

Spec == Init /\ [][Next]_vars

Going == ~crashed /\ UNCHANGED story

\* Goroutines that can run do, and a node whose ctx is cancelled returns.
FairSpec ==
  /\ Spec
  /\ WF_vars(Going /\ Start) /\ WF_vars(Going /\ Watcher)
  /\ WF_vars(Going /\ NodeStops)
  /\ \A g \in Graphs : WF_vars(Going /\ GraphGoroutine(g))

-----------------------------------------------------------------------------
(* Properties.                                                              *)

Channels == Graphs \X Nodes \X Nat

TypeOK ==
  /\ story \in Stories /\ file \in Files /\ pending \in Nat
  /\ spc \in {"read", "watch", "subscribe", "graph", "publish", "serving", "await",
              "returned", "failed"}
  /\ wpc \in {"idle", "cancel", "await", "configure", "replace", "start", "stuck", "stopped"}
  /\ idx \in DOMAIN NodeSeq
  /\ {graph, graphCancel, graphRunning, target, awaited} \subseteq Graphs \cup {None}
  /\ gpc \in [Graphs -> {"none", "built", "starting", "waiting", "ended", "clearing",
                         "closed"}]
  /\ live \subseteq Channels /\ closed \subseteq Channels
  /\ \A g \in Graphs : left[g] \subseteq Nodes /\ started[g] \in 0..Len(NodeSeq)

\* Two contents of one tree that can run: the users replace single nodes of a flow.
NodesReplaced == \E f, g \in Files \ {Torn} : f # g /\ f.tree = g.tree /\ Builds(f)

\* The users reload the whole flow, and only when the service has started.
WholeReloads == ~EarlySaves /\ ~NodesReplaced

\* The nodes of two graphs are never running together: both would consume the
\* same events of the bus and drive the same devices (flow_service.go:157-164).
OneFlow == WholeReloads => \A c, d \in live : c[1] = d[1]

\* The same whatever the users save: Graph.Run does not wait for a node that was
\* put in the place of one it had waited for (graph.go:418).
OneFlowAnyway == \A c, d \in live : c[1] = d[1]

\* One runner never has two nodes running at once (graph.go:606-613).
OneInstance == \A c, d \in live : (c[1] = d[1] /\ c[2] = d[2]) => c = d

Settled == wpc = "idle" /\ spc = "serving" /\ ~ctxDone

\* "In case configuration becomes invalid after the startup, it will remain
\* running with the last valid configuration" (agent.go:95): between two events
\* the current graph has the tree of the last valid content that was handled,
\* however many invalid ones came after it; and there is a current graph, unless
\* nodes were replaced or all failed.
LastValidTree ==
  Settled /\ ~EarlySaves =>
    /\ graph # None => treeOf[graph] = good.tree
    /\ WholeReloads /\ ~(Nodes \subseteq Fragile) => graph # None

\* What Graph.configs says a node was configured with, which decides whether it is
\* replaced (graph.go:346-350), is what the node runs, unless it was rejected.
ConfigsBacked ==
  Settled /\ graph # None =>
    \A n \in Nodes : configs[graph][n] \in {cur[graph][n]} \cup Rejected

\* A saved file takes effect: the watcher of configsvc is never blocked for good.
TakesEffect ==
  \A f \in {x \in AllFiles \ {Torn} : Builds(x)} :
    (spc = "serving" /\ file = f /\ ~EarlySaves /\ ~NodesReplaced) ~>
      \/ file # f \/ ctxDone
      \/ graph # None /\ treeOf[graph] = f.tree /\ cur[graph] = f.conf

\* "Run starts the agent and blocks until the context is cancelled" (agent.go:93):
\* once it is, Start returns (or the process panics on the way), if no node was
\* being replaced: then it may not.
ShutsDown == ctxDone /\ ~NodesReplaced ~> spc \in {"returned", "failed"} \/ crashed

ShutsDownAnyway == ctxDone ~> spc \in {"returned", "failed"} \/ crashed

\* ... and until then the flow is running.
KeepsRunning == spc = "serving" /\ ~ctxDone /\ wpc # "await" => graph # None

\* ... and the process has not panicked.
NoCrash == ctxDone \/ ~crashed

\* "... it will remain running with the last valid configuration" (agent.go:95):
\* what runs is one content of the file, not parts of several.
OneConfiguration ==
  Settled /\ graph # None =>
    \E f \in Files \ {Torn} : treeOf[graph] = f.tree /\ cur[graph] = f.conf

\* "When activated switches the route to the specified downstream node"
\* (components/nodes/mux.go:28): the actions and signals that the other nodes find
\* in the registry are those of the node that runs.
RegistryCurrent ==
  Settled /\ graph # None =>
    \A n \in Nodes : running[graph][n] # 0 => registered[graph][n] = running[graph][n]
=============================================================================
