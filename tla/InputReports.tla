---------------------------- MODULE InputReports -----------------------------
(***************************************************************************)
(* From the reports of an input device to events (hidapi/state.go,         *)
(* ApplyReport and InitReports): the report is compared with the last one  *)
(* of its id, item by item.  An item is a set of usages (flags, or a       *)
(* selector whose slots hold the usages that are on), a relative value or  *)
(* an absolute one.                                                        *)
(***************************************************************************)
EXTENDS Integers, Sequences

CONSTANTS Items,     \* the items of each report: sequences of [kind, usages, contents],
                     \* the usages of its range and what it may hold
          NoUsage    \* the content of a slot that is not in use

VARIABLES device,    \* the content of the device's reports, as it is now
          state      \* the reports the state keeps, and what it announced

vars == <<device, state>>

Ids == DOMAIN Items

\* NewZeros.
Zero(kind) == CASE kind = "flags" -> {} [] kind = "selector" -> <<NoUsage, NoUsage>> [] OTHER -> 0
Zeros(id) == [i \in DOMAIN Items[id] |-> Zero(Items[id][i].kind)]

IsSet(item) == item.kind \in {"flags", "selector"}

-----------------------------------------------------------------------------
(* Usage sets.  Usages says what is set, HasUsage answers for the item's    *)
(* range only: a slot may hold a usage beyond it.                           *)

SetUsages(item, f) ==
  IF item.kind = "flags" THEN f ELSE {f[i] : i \in DOMAIN f} \ {NoUsage}

HasUsage(item, f, u) == u \in item.usages /\ u \in SetUsages(item, f)

Missing(item, f, g) == {u \in SetUsages(item, f) : ~HasUsage(item, g, u)}

\* UsageSetDiff.
Diff(item, t0, t1) == [on |-> Missing(item, t1, t0), off |-> Missing(item, t0, t1)]

-----------------------------------------------------------------------------
(* ApplyReport.                                                             *)

\* An event has one entry for a usage, the last one that was added.
AddDiff(event, d) ==
  [event EXCEPT !.on = (@ \cup d.on) \ d.off, !.off = (@ \ d.on) \cup d.off]

\* The deltas are added up; value is the last one or nothing.
NoEvent == [on |-> {}, off |-> {}, delta |-> 0, value |-> <<>>]

\* A relative item adds what it differs from the stripped report, an absolute one
\* its value, each time.
AddItem(event, item, t0, t1) ==
  CASE IsSet(item) -> IF t0 = t1 THEN event ELSE AddDiff(event, Diff(item, t0, t1))
    [] item.kind = "relative" -> IF t0 = t1 THEN event ELSE [event EXCEPT !.delta = @ + (t1 - t0)]
    [] OTHER -> [event EXCEPT !.value = <<t1>>]

EventOf(id, t0, t1) ==
  LET upTo[n \in 0..Len(Items[id])] ==
        IF n = 0 THEN NoEvent ELSE AddItem(upTo[n - 1], Items[id][n], t0[n], t1[n])
  IN  upTo[Len(Items[id])]

\* Mutant: a motion stays in the report that is kept.
BugStrip(id, f) == f

\* stripRelativeValues.
Strip(id, f) == [i \in DOMAIN f |-> IF Items[id][i].kind = "relative" THEN 0 ELSE f[i]]

\* The event, and what those who follow the events know after it.
ApplyReport(s, id, f) ==
  LET event == EventOf(id, s.last[id], f) IN
  [s EXCEPT !.last[id] = Strip(id, f),
            !.told = (@ \ event.off) \cup event.on,
            !.known = (@ \ event.off) \cup event.on,
            !.fair = @ /\ event.on \cap s.told = {} /\ event.off \subseteq s.told,
            !.moved = @ + event.delta,
            !.value = IF event.value = <<>> THEN @ ELSE event.value[1]]

Start == [last |-> [id \in Ids |-> Zeros(id)],
          told |-> {}, fair |-> TRUE,   \* since the device is there: usages that are on
          known |-> {},                 \* all the time
          value |-> 0, moved |-> 0]     \* the absolute item, the motions all the time

Init == device = [shown |-> [id \in Ids |-> Zeros(id)], moved |-> 0] /\ state = Start

Motion(id, f) ==
  LET upTo[n \in 0..Len(Items[id])] ==
        IF n = 0 THEN 0
        ELSE IF Items[id][n].kind = "relative" THEN upTo[n - 1] + f[n] ELSE upTo[n - 1]
  IN  upTo[Len(Items[id])]

\* What a report may hold, field by field.
ReportsWith(id) ==
  LET upTo[n \in 0..Len(Items[id])] ==
        IF n = 0 THEN {<<>>} ELSE {Append(g, c) : g \in upTo[n - 1], c \in Items[id][n].contents}
  IN  upTo[Len(Items[id])]

\* The device sends a report.
Report(id, f) ==
  /\ device' = [shown |-> [device.shown EXCEPT ![id] = Strip(id, f)],
                moved |-> device.moved + Motion(id, f)]
  /\ state' = ApplyReport(state, id, f)

\* The state of a device that is there again is a new one; nothing is released
\* for what the old one announced.
Fresh(s) == [Start EXCEPT !.known = s.known, !.moved = s.moved]

\* The device was away, and its keys moved meanwhile: InitReports asks for each
\* report, and skips those it does not get.
Reconnect(id, f, answered) ==
  LET now == [device.shown EXCEPT ![id] = Strip(id, f)]
      after[n \in 0..Len(Items)] ==
        IF n = 0 THEN Fresh(state)
        ELSE IF n \in answered THEN ApplyReport(after[n - 1], n, now[n]) ELSE after[n - 1]
  IN  device' = [device EXCEPT !.shown = now] /\ state' = after[Len(Items)]

\* MaxMoved bounds the motion that is added up.
MaxMoved == 1

Next ==
  /\ device.moved \in -MaxMoved..MaxMoved
  /\ \E id \in Ids : \E f \in ReportsWith(id) :
       \/ Report(id, f)
       \/ \E answered \in SUBSET Ids : Reconnect(id, f, answered)

Spec == Init /\ [][Next]_vars

-----------------------------------------------------------------------------
(* Properties.                                                              *)

Places == UNION {{id} \X DOMAIN Items[id] : id \in Ids}
Item(p) == Items[p[1]][p[2]]
LastOf(p) == state.last[p[1]][p[2]]

LastUsages == UNION {SetUsages(Item(p), LastOf(p)) : p \in {q \in Places : IsSet(Item(q))}}

\* As long as a device is there, those who follow the events know the usages of
\* the last report of each id, no usage is activated twice or released without
\* having been activated (what an output node's report takes for granted,
\* state.go:292-314), the motions of the events are those of the
\* reports, and the absolute item has the value of the last one (state.go:143-219).
Announced ==
  /\ state.told = LastUsages /\ state.fair
  /\ state.moved = device.moved
  /\ \A p \in Places : Item(p).kind = "absolute" => state.value = LastOf(p)

\* They know what the device shows after it was away, too.
NothingLeftOn == state.known = state.told
=============================================================================
