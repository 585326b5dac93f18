------------------------------ MODULE ReportIds ------------------------------
(***************************************************************************)
(* The descriptor of an output device (node_output.go, buildDescriptor):   *)
(* the collections of its input devices one after another, their reports   *)
(* renumbered so that no two share an id.  A report is named by its device *)
(* and its number among the device's reports.                              *)
(***************************************************************************)
EXTENDS Naturals, Sequences

CONSTANT Configs     \* inputs of an output node: sequences of [found, ids], found
                     \* "known", "missing" or "garbled", the ids those of the reports

VARIABLES inputs,    \* devices still to add
          build      \* the descriptor so far

vars == <<inputs, build>>

Start == [idMap |-> <<>>,    \* ids that are in use, as far as the builder knows
          desc |-> <<>>,     \* new ids of the reports of each device
          from |-> <<>>,     \* ghost: their ids before
          err |-> "none"]    \* or "failed", or "hangs": the search for an id does not end

\* Mutant: an id is taken although it is in use.
BugFreeId(idMap, id) == id

\* An id is a byte: 0 comes after 255.
After(id, n) == IF id + n > 255 THEN id + n - 256 ELSE id + n
Full(idMap) == 0..255 \subseteq DOMAIN idMap

\* The first id from this one on that is not a key of the map.
FreeId(idMap, id) ==
  After(id, CHOOSE n \in 0..255 : After(id, n) \notin DOMAIN idMap
                                    /\ \A k \in 0..(n - 1) : After(id, k) \in DOMAIN idMap)

\* The map is from ids before to ids after: what is in use is looked up among the
\* former.
Assign(idMap, id) ==
  [k \in DOMAIN idMap \cup {id} |-> IF k = id THEN FreeId(idMap, id) ELSE idMap[k]]

\* One report of the device after the other.
AssignAll(idMap, ids) ==
  LET maps[n \in 0..Len(ids)] == IF n = 0 THEN idMap ELSE Assign(maps[n - 1], ids[n])
  IN  maps[Len(ids)]

AddInput(b, ids) ==
  LET idMap == AssignAll(b.idMap, ids) IN
  IF ids # <<>> /\ Full(AssignAll(b.idMap, SubSeq(ids, 1, Len(ids) - 1)))
    THEN [b EXCEPT !.err = "hangs"]
    ELSE [b EXCEPT !.idMap = idMap, !.from = Append(@, ids),
                   !.desc = Append(@, [i \in DOMAIN ids |-> idMap[ids[i]]])]

AddDevice(b, device) ==
  CASE device.found = "missing" -> [b EXCEPT !.err = "failed"]
    [] device.found = "garbled" -> b
    [] OTHER -> AddInput(b, device.ids)

\* A descriptor without collections is none.
Built(b, left) == IF left = <<>> /\ b.desc = <<>> THEN [b EXCEPT !.err = "failed"] ELSE b

Init == inputs \in Configs /\ build = Built(Start, inputs)

Add ==
  /\ inputs # <<>> /\ build.err = "none"
  /\ inputs' = Tail(inputs)
  /\ build' = Built(AddDevice(build, inputs[1]), Tail(inputs))

Next == Add

Spec == Init /\ [][Next]_vars

-----------------------------------------------------------------------------
(* Properties.                                                              *)

ReportsOf(b) == UNION {{d} \X DOMAIN b.desc[d] : d \in DOMAIN b.desc}
IdOf(b, r) == b.desc[r[1]][r[2]]

Distinct(b) == \A r, q \in ReportsOf(b) : IdOf(b, r) = IdOf(b, q) => r = q

\* One device after the first, with one report: its id is free.  The first device
\* keeps its ids in any case, and the node fails rather than leave out a
\* device it does not know (node_output.go:172-211).
OwnIds ==
  build.err = "none" =>
    /\ Len(build.desc) >= 1 => build.desc[1] = build.from[1]
    /\ Len(build.desc) = 2 /\ Len(build.desc[2]) = 1 => Distinct(build)

\* Any devices: what buildDescriptor is for.
AlwaysOwnIds == build.err = "none" => Distinct(build)

\* Either all reports have an id or there is one only: a report without an id
\* cannot be told from the others (codec.go:17-20, 40-42).
NoIdIsAlone ==
  build.err = "none" =>
    \A r \in ReportsOf(build) : IdOf(build, r) = 0 => ReportsOf(build) = {r}
=============================================================================
