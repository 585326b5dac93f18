------------------------------ MODULE Triggers -------------------------------
(***************************************************************************)
(* The triggers of a bind node (components/nodes/bind.go, usageActivation  *)
(* and triggerMappings): a mapping is triggered when all its keys are on,  *)
(* and takes them out of the event that completes or undoes it.  Its       *)
(* action toggles usages in the same event, which the mappings after it    *)
(* look at.  What is left of an event is passed on.                        *)
(***************************************************************************)
EXTENDS Integers, Sequences, FiniteSets

CONSTANTS Sources, Usages,   \* devices, usages of their keys
          Outputs,           \* other usages
          Configs            \* mappings [keys, to] of a node; the entries of a YAML
                             \* map, which come in any order

VARIABLES mappings, bind

vars == <<mappings, bind>>

Start ==
  [held |-> [s \in Sources |-> {}],                              \* by the devices
   counters |-> [i \in DOMAIN mappings |-> [u \in {} |-> 0]],    \* of the usages that are on
   triggered |-> [i \in DOMAIN mappings |-> FALSE],
   event |-> [on |-> {}, off |-> {}],                            \* what is left of the last event
   passed |-> [u \in Usages \cup Outputs |-> 0]]                 \* ghost: activations downstream

-----------------------------------------------------------------------------
(* Events.                                                                  *)

Suppress(event, usages) == [on |-> event.on \ usages, off |-> event.off \ usages]
Activated(event, usages) == [on |-> event.on \cup usages, off |-> event.off \ usages]
Deactivated(event, usages) == [on |-> event.on \ usages, off |-> event.off \cup usages]

-----------------------------------------------------------------------------
(* Check.                                                                   *)

Number(counters, u) == IF u \in DOMAIN counters THEN counters[u] ELSE 0
Change(event, u) == IF u \in event.on THEN 1 ELSE IF u \in event.off THEN -1 ELSE 0

\* Mutant: a counter that falls to zero stays in the map.
BugCount(counters, event, usages) ==
  LET n(u) == Number(counters, u) + Change(event, u) IN
  [u \in DOMAIN counters \cup {v \in usages : n(v) > 0} |-> n(u)]

\* A usage that is on is counted, and forgotten when it is off everywhere.
Count(counters, event, usages) ==
  LET n(u) == Number(counters, u) + Change(event, u) IN
  [u \in {v \in usages : n(v) > 0} |-> n(u)]

IsActive(counters, usages) == Cardinality(DOMAIN counters) = Cardinality(usages)

\* One mapping after another looks at what the ones before it left of the event.
CheckMapping(b, i) ==
  LET keys == mappings[i].keys
      counters == Count(b.counters[i], b.event, keys)
      isTriggered == IsActive(counters, keys)
      left == IF isTriggered \/ IsActive(b.counters[i], keys) THEN Suppress(b.event, keys) ELSE b.event
  IN  [b EXCEPT !.counters[i] = counters, !.triggered[i] = isTriggered,
                !.event = CASE isTriggered /\ ~b.triggered[i] -> Activated(left, mappings[i].to)
                            [] ~isTriggered /\ b.triggered[i] -> Deactivated(left, mappings[i].to)
                            [] OTHER -> left]

TriggerMappings(b, event) ==
  LET checked[i \in 0..Len(mappings)] ==
        IF i = 0 THEN [b EXCEPT !.event = event] ELSE CheckMapping(checked[i - 1], i)
  IN  checked[Len(mappings)]

\* Downstream, a report counts activations as ReportState does.
Counted(n, u, event) ==
  CASE u \in event.on -> n + 1
    [] u \in event.off /\ n > 0 -> n - 1
    [] OTHER -> n

-----------------------------------------------------------------------------
Init == mappings \in Configs /\ bind = Start

\* An event of a source: usages go on and off, in one event each once.
Handle(s, on, off) ==
  LET after == TriggerMappings(bind, [on |-> on, off |-> off]) IN
  /\ on \subseteq Usages \ bind.held[s] /\ off \subseteq bind.held[s] /\ on \cup off # {}
  /\ bind' = [after EXCEPT !.held[s] = (@ \cup on) \ off,
                           !.passed = [u \in DOMAIN @ |-> Counted(@[u], u, after.event)]]
  /\ UNCHANGED mappings

\* MaxCount bounds the activations of usages that are never released.
MaxCount == 2

Next ==
  /\ \A u \in DOMAIN bind.passed : bind.passed[u] <= MaxCount
  /\ \A i \in DOMAIN mappings : \A u \in DOMAIN bind.counters[i] : bind.counters[i][u] <= MaxCount
  /\ \E s \in Sources : \E on, off \in SUBSET Usages : Handle(s, on, off)

Spec == Init /\ [][Next]_vars

-----------------------------------------------------------------------------
(* Properties.                                                              *)

Holders(u) == {s \in Sources : u \in bind.held[s]}
MappedKeys == UNION {mappings[i].keys : i \in DOMAIN mappings}
Targets == UNION {mappings[i].to : i \in DOMAIN mappings}
Combined == UNION {mappings[i].keys : i \in {j \in DOMAIN mappings : Cardinality(mappings[j].keys) > 1}}

\* No key belongs to two mappings, none is toggled by another one.
Separate ==
  /\ \A i, j \in DOMAIN mappings :
       i # j => (mappings[i].keys \cup mappings[i].to) \cap (mappings[j].keys \cup mappings[j].to) = {}
  /\ Targets \cap Usages = {}

IsTriggeredIffHeld ==
  \A i \in DOMAIN mappings : bind.triggered[i] <=> \A u \in mappings[i].keys : Holders(u) # {}

\* Separate mappings are triggered exactly as long as all their keys are held, by
\* whichever devices; downstream a usage is on as many times as devices hold it, if
\* it is not mapped, never, if it is mapped on its own, and once as long as a mapping
\* that toggles it is triggered (bind.go:140-198).
TriggeredIffHeld ==
  Separate =>
    /\ IsTriggeredIffHeld
    /\ \A u \in Usages \ Combined : bind.passed[u] = IF u \in MappedKeys THEN 0 ELSE Cardinality(Holders(u))
    /\ \A u \in Targets : bind.passed[u] =
         Cardinality({i \in DOMAIN mappings : bind.triggered[i] /\ u \in mappings[i].to})

\* The same for mappings that share keys, and those whose keys others toggle.
AlwaysTriggeredIffHeld == IsTriggeredIffHeld

\* What was passed on as pressed is passed on as released, keys of combinations
\* included.
ReleasedDownstream == \A u \in Usages \ Targets : bind.passed[u] > 0 => Holders(u) # {}
=============================================================================
