---------------------------- MODULE GraphBuilder -----------------------------
(***************************************************************************)
(* From the nodes of a flow file to a graph (internal/flowsvc/graph.go,    *)
(* registry.go): the nodes are added, the graph is validated, each node is *)
(* created, which registers the actions and signals it offers, and then    *)
(* each is configured, which looks up those its statements name.           *)
(***************************************************************************)
EXTENDS Naturals, Sequences, FiniteSets

CONSTANTS Types,     \* registered node types: [up, down, actions, signals]
          Actions,   \* actions of no node
          Drafts     \* flow files: sequences of sets of nodes [id, type, to, refs]

VARIABLES draft,     \* what the file may still hold
          builder    \* the graph so far

vars == <<draft, builder>>

\* A statement in a node's configuration: [kind, node, name, route], the node "" for
\* an action of no node, the route "" where the name takes none.
Start ==
  [nodes |-> <<>>,                       \* as they were added
   phase |-> "add",
   offers |-> <<>>]                      \* registered: [kind, node, name, routes]

Ids(b) == {b.nodes[i].id : i \in DOMAIN b.nodes}

Targets(n) == {n.to[i] : i \in DOMAIN n.to}

\* A later node of the same id takes the place of the earlier one.
TypeOf(b, id) ==
  b.nodes[CHOOSE i \in DOMAIN b.nodes : /\ b.nodes[i].id = id
                                       /\ \A j \in DOMAIN b.nodes : b.nodes[j].id = id => j <= i].type

\* An edge is <<i, j>>, the j-th of the i-th node.  Those of nodes with one id are added up.
Edges(b) == UNION {{i} \X DOMAIN b.nodes[i].to : i \in DOMAIN b.nodes}
From(b, e) == b.nodes[e[1]].id
To(b, e) == b.nodes[e[1]].to[e[2]]

EdgesDown(b, id) == {e \in Edges(b) : From(b, e) = id}
EdgesUp(b, id) == {e \in Edges(b) : To(b, e) = id}
Downstream(b, id) == {To(b, e) : e \in EdgesDown(b, id)}
Upstream(b, id) == {From(b, e) : e \in EdgesUp(b, id)}

-----------------------------------------------------------------------------
(* Validate.                                                                *)

LinksOK(type, count) ==
  CASE type = "many" -> count > 0
    [] type = "one" -> count = 1
    [] OTHER -> count = 0

NodeOK(b, id) ==
  /\ TypeOf(b, id) \in DOMAIN Types
  /\ LinksOK(Types[TypeOf(b, id)].up, Cardinality(EdgesUp(b, id)))
  /\ LinksOK(Types[TypeOf(b, id)].down, Cardinality(EdgesDown(b, id)))
  /\ Downstream(b, id) \subseteq Ids(b)

EntryNodes(b) == {id \in Ids(b) : EdgesUp(b, id) = {}}

\* The nodes an event that is at id may come to: every set with id that edges do not
\* lead out of has them.
Reached(b, id) ==
  {m \in Ids(b) : \A S \in SUBSET Ids(b) :
     (id \in S /\ \A n \in S : Downstream(b, n) \subseteq S) => m \in S}

\* Mutant: a node stays visited once another path has come to it.
BugHasCycle(b, id) ==
  \E n \in Reached(b, id) :
    Cardinality({e \in EdgesUp(b, n) : From(b, e) \in Reached(b, id)}) > (IF n = id THEN 0 ELSE 1)

\* validateCycles: the nodes on the way to this one are visited, and no longer once it
\* is done.  Those where it comes upon a visited one:
HasCycle(b, id) ==
  LET found[visited \in SUBSET Ids(b)] ==
        visited \cup {n \in Ids(b) \ visited : Downstream(b, n) \cap found[visited \cup {n}] # {}}
  IN  id \in found[{}]

IsDuplicate(b) == Cardinality(Ids(b)) < Len(b.nodes)

Valid(b) ==
  /\ ~IsDuplicate(b) /\ b.nodes # <<>>
  /\ \A id \in Ids(b) : NodeOK(b, id)
  /\ EntryNodes(b) # {} /\ \A id \in EntryNodes(b) : ~HasCycle(b, id)

-----------------------------------------------------------------------------
(* The registry of a graph.                                                 *)

\* A node of the type offers what its descriptor declares, for its downstream nodes.
OffersOf(n) ==
  LET type == Types[n.type] IN
  {[kind |-> o[1], node |-> n.id, name |-> o[2], routes |-> Targets(n)] :
     o \in ({"action"} \X type.actions) \cup ({"signal"} \X type.signals)}

\* ActionHandler, SignalHandler: a signal is always one of a node.
Resolves(b, r) ==
  IF r.node = "" THEN r.kind = "action" /\ r.name \in Actions
  ELSE \E o \in UNION {b.offers[i] : i \in DOMAIN b.offers} :
         o.kind = r.kind /\ o.node = r.node /\ o.name = r.name /\ (r.route = "" \/ r.route \in o.routes)

-----------------------------------------------------------------------------
(* Streams: the keys a node subscribes to and publishes on.                 *)

SubKeys(b, id, reverse) ==
  IF (IF reverse THEN EdgesUp(b, id) ELSE EdgesDown(b, id)) = {} THEN {}
  ELSE {<<id, IF reverse THEN "down" ELSE "up">>}

PubKeys(b, id, reverse) ==
  {<<n, IF reverse THEN "up" ELSE "down">> : n \in IF reverse THEN Upstream(b, id) ELSE Downstream(b, id)}

-----------------------------------------------------------------------------
Init == draft \in Drafts /\ builder = Start

AddNode ==
  /\ builder.phase = "add" /\ draft # <<>>
  /\ \E n \in draft[1] : builder' = [builder EXCEPT !.nodes = Append(@, n)]
  /\ draft' = Tail(draft)

Reject == [builder EXCEPT !.phase = "failed"]

Validate ==
  /\ builder.phase = "add" /\ draft = <<>>
  /\ builder' = IF Valid(builder) THEN [builder EXCEPT !.phase = "create"] ELSE Reject
  /\ UNCHANGED draft

CreateNode ==
  LET i == Len(builder.offers) + 1 IN
  /\ builder.phase = "create"
  /\ builder' = IF i > Len(builder.nodes) THEN [builder EXCEPT !.phase = "configure"]
                ELSE [builder EXCEPT !.offers = Append(@, OffersOf(builder.nodes[i]))]
  /\ UNCHANGED draft

\* All nodes are there when the first is configured, so it may name a later one.
Configure ==
  /\ builder.phase = "configure"
  /\ builder' = IF \A i \in DOMAIN builder.nodes : \A r \in builder.nodes[i].refs : Resolves(builder, r)
                THEN [builder EXCEPT !.phase = "built"] ELSE Reject
  /\ UNCHANGED draft

Next == AddNode \/ Validate \/ CreateNode \/ Configure

Spec == Init /\ [][Next]_vars

-----------------------------------------------------------------------------
(* Properties.                                                              *)

\* Reachable in one or more steps.
Follows(b, n, m) == \E t \in Downstream(b, n) : m \in Reached(b, t)

ById(b, id) == CHOOSE i \in DOMAIN b.nodes : b.nodes[i].id = id

\* What a statement names is there: an action or a signal that the node's type
\* declares, and a route to one of its downstream nodes.
IsOffered(b, r) ==
  IF r.node = "" THEN r.kind = "action" /\ r.name \in Actions
  ELSE /\ r.node \in Ids(b)
       /\ LET n == b.nodes[ById(b, r.node)] IN
          /\ r.name \in (IF r.kind = "action" THEN Types[n.type].actions ELSE Types[n.type].signals)
          /\ r.route = "" \/ r.route \in Targets(n)

LinksFit(b, n) ==
  LET type == Types[n.type]
      ups == EdgesUp(b, n.id)
  IN  /\ type.up = "none" <=> ups = {}
      /\ type.down = "none" <=> n.to = <<>>
      /\ (type.up = "one" => \A d, e \in ups : d = e) /\ (type.down = "one" => Len(n.to) = 1)

IsGraph(b) ==
  /\ \A i, j \in DOMAIN b.nodes : b.nodes[i].id = b.nodes[j].id => i = j
  /\ \A i \in DOMAIN b.nodes : /\ b.nodes[i].type \in DOMAIN Types /\ LinksFit(b, b.nodes[i])
                               /\ Targets(b.nodes[i]) \subseteq Ids(b)
  /\ \A i \in DOMAIN b.nodes : \A r \in b.nodes[i].refs : IsOffered(b, r)
  /\ \E i \in DOMAIN b.nodes : Types[b.nodes[i].type].up = "none"
  /\ \A n \in EntryNodes(b), m \in Ids(b) : Follows(b, n, m) => ~Follows(b, m, m)

\* A flow is built exactly if its ids are unique, its edges lead to nodes and are as many
\* as the types of both ends allow, no event comes back to where it has been and every
\* statement names something that is there; and what a node publishes downstream
\* or upstream is what the node at the other end subscribes to
\* (graph.go:79-160, 371-399, 438-516).
BuiltIffGraph ==
  /\ builder.phase \in {"built", "failed"} => (builder.phase = "built" <=> IsGraph(builder))
  /\ builder.phase = "built" =>
       \A id \in Ids(builder), reverse \in BOOLEAN :
         \A key \in PubKeys(builder, id, reverse) : key \in SubKeys(builder, key[1], ~reverse)

\* No cycle at all.
NoCycles == builder.phase = "built" => \A n \in Ids(builder) : ~Follows(builder, n, n)
=============================================================================
