-------------------------------- MODULE Split --------------------------------
(***************************************************************************)
(* A split node (components/nodes/split.go) and the patterns of usages it  *)
(* is configured with (hidapi/hidusage/matcher.go, format.go): each usage  *)
(* of an event goes to the first node whose patterns it matches, in an     *)
(* event of that node.  A usage is [page, id]; a pattern names a page, by  *)
(* its alias or its code, and a usage of it, or all of them, or is Any.    *)
(***************************************************************************)
EXTENDS Naturals, Sequences, FiniteSets

CONSTANTS Usages,
          Codes,     \* codes of pages, known or not
          Pages,     \* known pages, by code: [alias, ids], ids by name
          Configs,   \* routes of a node: sequences of [node, patterns]; a pattern is [page, id],
                     \* the page an alias or a code
          Downstreams,  \* the nodes this one is linked to; Configure does not compare them
          Any        \* "*"

VARIABLES routes,
          split

vars == <<routes, split>>

-----------------------------------------------------------------------------
(* Names.                                                                   *)

IsCode(name) == name \in Codes
Aliased(name) == {c \in DOMAIN Pages : Pages[c].alias = name}

\* A pattern is an error, or the usages it matches.
Failed == [err |-> "failed"]
Match(usages) == [err |-> "none", usages |-> usages]
OfPage(page) == {u \in Usages : u.page = page}

\* An unknown page has no table of usages to ask.
ParseUsage(page, name) ==
  IF page \notin DOMAIN Pages THEN [err |-> "panic"]
  ELSE IF name \notin DOMAIN Pages[page].ids THEN Failed
  ELSE Match({u \in OfPage(page) : u.id = Pages[page].ids[name]})

\* newMatcher, ParsePage and Parse: the code of a page need not be a known one.
Parse(p) ==
  LET page == IF IsCode(p.page) THEN p.page ELSE CHOOSE c \in Aliased(p.page) : TRUE IN
  CASE p.page = Any -> Match(Usages)
    [] p.page # Any /\ ~IsCode(p.page) /\ Aliased(p.page) = {} -> Failed
    [] OTHER -> IF p.id = Any THEN Match(OfPage(page)) ELSE ParseUsage(page, p.id)

\* NewMatcher: no pattern at all matches everything.
Matcher(patterns) ==
  LET errs == {Parse(p).err : p \in patterns} \ {"none"} IN
  IF patterns = {} THEN Match(Usages)
  ELSE IF errs # {} THEN [err |-> IF "panic" \in errs THEN "panic" ELSE "failed"]
  ELSE Match(UNION {Parse(p).usages : p \in patterns})

-----------------------------------------------------------------------------
(* Run.                                                                     *)

\* The routes whose patterns match; the first of them counts.
Candidates(u) == {i \in DOMAIN routes : u \in Matcher(routes[i].patterns).usages}
First(u) == CHOOSE i \in Candidates(u) : \A j \in Candidates(u) : i <= j

Nodes == {routes[i].node : i \in DOMAIN routes}

NoEvent == [on |-> {}, off |-> {}]

\* Mutant: the events of the last round are sent again.
BugFresh(events) == events

\* clear(events).
Fresh(events) == [n \in Nodes |-> NoEvent]

\* AddUsage, for all the usages that go to one node.
AddUsages(event, on, off) ==
  [on |-> (event.on \ off) \cup on, off |-> (event.off \ on) \cup off]

\* Configure: patterns of which one fails fail as a whole.
Errors == {Matcher(routes[i].patterns).err : i \in DOMAIN routes} \ {"none"}

Start == [err |-> IF Errors = {} THEN "none" ELSE CHOOSE e \in Errors : TRUE,
          events |-> [n \in Nodes |-> NoEvent],   \* of this round
          told |-> [n \in Nodes |-> {}],     \* ghost: usages that are on, downstream
          held |-> {},                       \* and upstream
          fair |-> TRUE]                     \* ghost: nothing was sent twice

Init == routes \in Configs /\ split = Start

Into(n, usages) == {u \in usages : Candidates(u) # {} /\ routes[First(u)].node = n}

Events(on, off) == [n \in Nodes |-> AddUsages(Fresh(split.events)[n], Into(n, on), Into(n, off))]

\* The nodes of the map of events, to each of which its event is published.
Reached(events) == {n \in Nodes : events[n] # NoEvent}

\* An event comes from upstream.  A usage is in it once: on or off.
Arrives(on, off) ==
  split.err = "none" /\ on \subseteq Usages \ split.held /\ off \subseteq split.held /\ on \cup off # {}

Handle(on, off) ==
  LET events == Events(on, off) IN
  /\ Arrives(on, off) /\ Reached(events) \subseteq Downstreams
  /\ split' = [err |-> split.err, events |-> events, held |-> (split.held \cup on) \ off,
               told |-> [n \in Nodes |-> (split.told[n] \cup events[n].on) \ events[n].off],
               fair |-> split.fair /\ \A n \in Nodes : /\ events[n].on \cap split.told[n] = {}
                                                       /\ events[n].off \subseteq split.told[n]]
  /\ UNCHANGED routes

\* flowStream.Publish to a node that is not linked calls a nil function, after the
\* events that the order of the map has before it; nodeRunner recovers and this
\* node runs no more.
Die(on, off) ==
  LET events == Events(on, off) IN
  /\ Arrives(on, off)
  /\ Reached(events) \ Downstreams # {}
  /\ \E sent \in SUBSET (Reached(events) \cap Downstreams) :
       split' = [err |-> "died", events |-> events, held |-> (split.held \cup on) \ off,
                 told |-> [n \in Nodes |-> IF n \in sent THEN (split.told[n] \cup events[n].on) \ events[n].off
                                           ELSE split.told[n]],
                 fair |-> split.fair]
  /\ UNCHANGED routes

Next ==
  \/ \E on, off \in SUBSET Usages : Handle(on, off)
  \/ \E on, off \in SUBSET Usages : Die(on, off)

Spec == Init /\ [][Next]_vars

-----------------------------------------------------------------------------
(* Properties.                                                              *)

\* A usage is on at the one node whose patterns come first, and at no other, as
\* long as it is on upstream and the node runs; each press and each release is sent
\* once (split.go:85-115).
OneRoute ==
  split.err = "none" => split.fair /\ \A n \in Nodes : split.told[n] = Into(n, split.held)

\* No pattern makes the configuration panic.
NeverPanics == split.err # "panic"

\* No route ends the node.
RunsOn == split.err # "died"
=============================================================================
