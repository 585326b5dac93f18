-------------------------------- MODULE Mux ---------------------------------
(***************************************************************************)
(* The mux node (components/nodes/mux.go): it forwards HID events to one   *)
(* downstream node, the current route, which "switch" actions set while    *)
(* they are active.  Each switch is a process of its own (a key of a bind  *)
(* node, or an asynchronous action): it blocks on the unbuffered channel   *)
(* `signals` until the mux takes its signal.  Events arrive on another     *)
(* channel, so Go's select may take either when both wait.                 *)
(***************************************************************************)
EXTENDS Sequences, SequencesExt

CONSTANTS Usages,        \* usages with an activation (keys, buttons)
          Routes,        \* the downstream node IDs
          DefaultRoute,  \* the fallback route
          NoRoute,       \* "not in activatedUsages"
          Switches,      \* the switch actions of the flow
          RouteOf        \* their route arguments

ASSUME MuxAssumption ==
  /\ DefaultRoute \in Routes
  /\ NoRoute \notin Routes
  /\ RouteOf \in [Switches -> Routes]

VARIABLES
  currentRoute, routeList,   \* locals of Run
  activatedUsages,           \* the field: the route each pressed usage was sent to
  running,                   \* FALSE once Run returned and closed `signals`
  switch,                    \* where each switch action is
  sent,                      \* the event published to each route by the last step
  told,                      \* ghost: the usages each route believes are pressed
  pressed,                   \* ghost: the usages the upstream last said are pressed
  active                     \* ghost: switches whose set was taken, oldest first,
                             \*        and not unset or reset since

vars == <<currentRoute, routeList, activatedUsages, running, switch, sent,
          told, pressed, active>>

Event == [press : SUBSET Usages, release : SUBSET Usages, other : BOOLEAN]
Nothing == [press |-> {}, release |-> {}, other |-> FALSE]

\* An event holds each usage once (hidapi.Event.usageMap).
InputEvent == {ev \in Event : ev.press \cap ev.release = {} /\ ev # Nothing}

Init ==
  /\ currentRoute = DefaultRoute
  /\ routeList = <<>>
  /\ activatedUsages = [u \in Usages |-> NoRoute]
  /\ running = TRUE
  /\ switch = [s \in Switches |-> "up"]
  /\ sent = [r \in Routes |-> Nothing]
  /\ told = [r \in Routes |-> {}]
  /\ pressed = {}
  /\ active = <<>>

Quiet == sent' = [r \in Routes |-> Nothing]

-----------------------------------------------------------------------------
(* The switch action: activation sends "set", deactivation sends "unset".   *)

Activate(s) ==
  /\ switch[s] = "up"
  /\ switch' = [switch EXCEPT ![s] = "setting"]
  /\ Quiet
  /\ UNCHANGED <<currentRoute, routeList, activatedUsages, running, told,
                 pressed, active>>

Deactivate(s) ==
  /\ switch[s] = "down"
  /\ switch' = [switch EXCEPT ![s] = "unsetting"]
  /\ Quiet
  /\ UNCHANGED <<currentRoute, routeList, activatedUsages, running, told,
                 pressed, active>>

\* Mutant: `signals` is not closed, so a late sender blocks for good.
BugSendOnClosed(s) == FALSE /\ UNCHANGED vars

\* Sending on the closed channel panics in the sender's goroutine.
SendOnClosed(s) ==
  /\ ~running
  /\ switch[s] \in {"setting", "unsetting"}
  /\ switch' = [switch EXCEPT ![s] = "panicked"]
  /\ Quiet
  /\ UNCHANGED <<currentRoute, routeList, activatedUsages, running, told,
                 pressed, active>>

-----------------------------------------------------------------------------
(* The receive on `signals`.                                                *)

\* Mutant: nothing to fall back to once the list is empty.
BugTopRoute(list) == IF list = <<>> THEN NoRoute ELSE Last(list)

TopRoute(list) == IF list = <<>> THEN DefaultRoute ELSE Last(list)

SetRoute(r) ==
  IF r # currentRoute
  THEN routeList' = Append(routeList, r) /\ currentRoute' = r
  ELSE UNCHANGED <<routeList, currentRoute>>

\* Where the range loop over routeList breaks, if r is in it.
FirstIndex(r) ==
  {i \in 1..Len(routeList) : routeList[i] = r /\ \A j \in 1..i-1 : routeList[j] # r}

\* Mutant: only the current route is taken off the list.
BugUnsetRoute(r) ==
  IF currentRoute = r /\ routeList # <<>>
  THEN /\ routeList' = Front(routeList)
       /\ currentRoute' = TopRoute(routeList')
  ELSE UNCHANGED <<routeList, currentRoute>>

UnsetRoute(r) ==
  \/ \E i \in FirstIndex(r) :
       /\ routeList' = RemoveAt(routeList, i)
       /\ currentRoute' = IF currentRoute = r THEN TopRoute(routeList')
                                              ELSE currentRoute
  \/ ~Contains(routeList, r) /\ UNCHANGED <<routeList, currentRoute>>

TakeSet(s) ==
  /\ running
  /\ switch[s] = "setting"
  /\ SetRoute(RouteOf[s])
  /\ switch' = [switch EXCEPT ![s] = "down"]
  /\ active' = Append(active, s)
  /\ Quiet
  /\ UNCHANGED <<activatedUsages, running, told, pressed>>

\* q without its element e, which it holds at most once.
Drop(q, e) ==
  IF Contains(q, e) THEN RemoveAt(q, CHOOSE i \in 1..Len(q) : q[i] = e) ELSE q

TakeUnset(s) ==
  /\ running
  /\ switch[s] = "unsetting"
  /\ UnsetRoute(RouteOf[s])
  /\ switch' = [switch EXCEPT ![s] = "up"]
  /\ active' = Drop(active, s)
  /\ Quiet
  /\ UNCHANGED <<activatedUsages, running, told, pressed>>

TakeReset ==
  /\ running
  /\ routeList' = <<>>
  /\ currentRoute' = DefaultRoute
  /\ active' = <<>>
  /\ Quiet
  /\ UNCHANGED <<activatedUsages, running, switch, told, pressed>>

-----------------------------------------------------------------------------
(* The receive on the upstream subscription.                                *)

\* Mutant: a second press of a usage that sits on another route is not noticed.
BugStale(ev) == {u \in ev.release : activatedUsages[u] \notin {NoRoute, currentRoute}}

\* Usages of ev recorded as pressed on a route that is no longer the current one.
Stale(ev) == {u \in ev.press \cup ev.release :
                activatedUsages[u] \notin {NoRoute, currentRoute}}

\* deactEvents[r]
DeactEvent(ev, r) ==
  [press   |-> {},
   release |-> {u \in Stale(ev) : activatedUsages[u] = r},
   other   |-> FALSE]

\* Mutant: the release is not suppressed on the current route.
BugForwarded(ev) == ev

\* The event itself once releases that belong elsewhere are suppressed.
Forwarded(ev) ==
  [press |-> ev.press, release |-> ev.release \ Stale(ev), other |-> ev.other]

Record(ev) ==
  [u \in Usages |-> IF u \in ev.press THEN currentRoute
                    ELSE IF u \in ev.release THEN NoRoute
                    ELSE activatedUsages[u]]

HandleEvent(ev) ==
  /\ running
  /\ sent' = [r \in Routes |-> IF r = currentRoute THEN Forwarded(ev)
                                                   ELSE DeactEvent(ev, r)]
  /\ activatedUsages' = Record(ev)
  /\ told' = [r \in Routes |-> (told[r] \ sent'[r].release) \cup sent'[r].press]
  /\ pressed' = (pressed \ ev.release) \cup ev.press
  /\ UNCHANGED <<currentRoute, routeList, running, switch, active>>

\* ctx.Done: Run returns, its deferred close(r.signals) runs.
Stop ==
  /\ running
  /\ running' = FALSE
  /\ Quiet
  /\ UNCHANGED <<currentRoute, routeList, activatedUsages, switch, told,
                 pressed, active>>

Next ==
  \/ \E s \in Switches : \/ Activate(s) \/ Deactivate(s) \/ SendOnClosed(s)
                         \/ TakeSet(s) \/ TakeUnset(s)
  \/ TakeReset
  \/ \E ev \in InputEvent : HandleEvent(ev)
  \/ Stop

Spec == Init /\ [][Next]_vars

\* A sender waits in the channel's FIFO queue and select chooses a ready case
\* at random, so the mux does not pass over a waiting signal forever; Activate,
\* events and Stop are the environment's choice.
FairSpec ==
  /\ Spec
  /\ \A s \in Switches : WF_vars(TakeSet(s) \/ TakeUnset(s) \/ SendOnClosed(s))
-----------------------------------------------------------------------------
(* Properties.                                                              *)

TypeOK ==
  /\ currentRoute \in Routes
  /\ routeList \in Seq(Routes)
  /\ activatedUsages \in [Usages -> Routes \cup {NoRoute}]
  /\ running \in BOOLEAN
  /\ switch \in [Switches -> {"up", "setting", "down", "unsetting", "panicked"}]
  /\ sent \in [Routes -> Event]
  /\ told \in [Routes -> SUBSET Usages]
  /\ pressed \in SUBSET Usages
  /\ active \in Seq(Switches)

\* However switches and events interleave, a usage the upstream holds is
\* pressed on exactly one downstream route, and a usage it does not hold is
\* pressed on none: no key sticks on a route that was left (mux.go:203-243).
PressedOnOneRoute ==
  \A u \in Usages :
    /\ u \in pressed <=> \E r \in Routes : u \in told[r]
    /\ \A r, q \in Routes : u \in told[r] /\ u \in told[q] => r = q

\* A route is sent the release of a usage only if it was sent its press, or if
\* no route was: a layer never sees the release of a key that another layer
\* got (the Suppress of mux.go:229).
NoForeignRelease ==
  [][\A r \in Routes : \A u \in sent'[r].release :
        u \in told[r] \/ \A q \in Routes : u \notin told[q]]_vars

Holding(s) == switch[s] \in {"down", "unsetting", "panicked"}

\* Every entry of routeList is there for a switch of its own that is still
\* active: entries never outlive the switches that pushed them, whatever the
\* order of their unsets (mux.go:177-198).
Backed ==
  \E owner \in [1..Len(routeList) -> Switches] :
    /\ \A i \in 1..Len(routeList) :
         Holding(owner[i]) /\ RouteOf[owner[i]] = routeList[i]
    /\ \A i, j \in 1..Len(routeList) : owner[i] = owner[j] => i = j

\* The mux is on a route other than its default one only while a switch to
\* that route is active: it cannot be left behind on a layer.
CurrentHeld ==
  currentRoute = DefaultRoute
    \/ \E s \in Switches : Holding(s) /\ RouteOf[s] = currentRoute

\* The route is that of the top of a stack of active switches, as the
\* descriptor of the action says (mux.go:28), as long as each route has one
\* switch.
Stack == INSTANCE RouteStack WITH route <- currentRoute
ImplementsStack == Stack!StackSpec

\* "When activated switches the route to the specified downstream node, and when
\* deactivated switches it back" (mux.go:28): while the switch activated last is
\* active, events go to its route.
LatestSwitchWins == active # <<>> => currentRoute = RouteOf[Last(active)]

\* A bind node whose key handler sends a signal gets control back: the mux takes
\* the signal or, once it has stopped, the send panics (mux.go:75, 86, 97, 166).
SignalReturns ==
  \A s \in Switches : switch[s] \in {"setting", "unsetting"}
                       ~> switch[s] \notin {"setting", "unsetting"}
=============================================================================
