------------------------------ MODULE OutputNode ------------------------------
(***************************************************************************)
(* An output node (internal/hidsvc/node_output.go) and the uhid devices it *)
(* opens (linux/linux_backend.go:390-602): Run, the goroutine that turns   *)
(* events into reports, a handler per connection of the device, its reader *)
(* of output reports, and the goroutine that takes the kernel's requests.  *)
(* The HID service is DeviceFeed.  The descriptor has one key and one LED. *)
(***************************************************************************)
EXTENDS Naturals, Sequences

CONSTANTS Addr,         \* the address of the node
          ReadCap,      \* the capacity of readCh (8)
          MaxChanges,   \* bound: changes of the table of connected devices
          MaxEvents,    \* bound: events from upstream
          MaxLeds       \* bound: changes of the LED by the host

ASSUME OutputAssumption ==
  ReadCap \in Nat \ {0} /\ MaxChanges \in Nat /\ MaxEvents \in Nat /\ MaxLeds \in Nat

\* A run starts a handler for the device it finds, one after each time the device
\* left, and one for the value it reads from a closed channel.
Handlers == 1 .. (MaxChanges \div 2) + 2

VARIABLES
  connected, pending, last,     \* the feed of the service
  changes, events, leds,        \* the bounded counts
  held, closed,                 \* the bus's announcement; are the channels closed?
  npc, ctxDone,                 \* the place of Run; is its context cancelled?
  cur, started, cancelled,      \* the handler Run may cancel, their number, the cancelled
  hpc, rpc,                     \* the place of each handler and of its reader
  reportsCh, chClosed,          \* the channel of reports, of capacity 1
  spc, state,                   \* the goroutine of events; the node's input state
  host,                         \* what the host last got from each device
  readCh,                       \* output reports on their way to each reader
  led, outputState, upLed,      \* the LED: the host's, the node's, what upstream heard
  panic,
  lost                          \* ghost: what has gone wrong so far: a report "dropped" from
                                \*   reportsCh, one "unread" in readCh, one "set" and not
                                \*   broadcast, two handlers that "overlap"

None == <<>>

feedVars == <<connected, pending, last, changes>>
chanVars == <<held, closed>>
runVars  == <<npc, ctxDone, cur, started, cancelled>>
inVars   == <<reportsCh, chClosed, spc, state, events, host>>
outVars  == <<rpc, readCh, led, leds, outputState, upLed>>
vars == <<feedVars, chanVars, runVars, hpc, inVars, outVars, panic, lost>>

Feed == INSTANCE DeviceFeed WITH Addrs <- {Addr}

Init ==
  /\ connected \in {{}, {Addr}} /\ pending = None
  /\ last = [a \in {Addr} |-> a \in connected]
  /\ changes = 0 /\ events = 0 /\ leds = 0
  /\ held = None /\ closed = FALSE
  /\ npc = "check" /\ ctxDone = FALSE /\ cur = 0 /\ started = 0 /\ cancelled = {}
  /\ hpc = [h \in Handlers |-> "none"] /\ rpc = [h \in Handlers |-> "none"]
  /\ reportsCh = <<>> /\ chClosed = FALSE
  /\ spc = "none" /\ state = FALSE /\ host = [h \in Handlers |-> FALSE]
  /\ readCh = [h \in Handlers |-> <<>>]
  /\ led = FALSE /\ outputState = FALSE /\ upLed = FALSE
  /\ panic = FALSE /\ lost = {}

-----------------------------------------------------------------------------
(* Around the node: the service, the bus, the end of the context.           *)

ServiceChange ==
  /\ changes < MaxChanges
  /\ changes' = changes + 1
  /\ \E b \in BOOLEAN : Feed!Change(Addr, b)
  /\ UNCHANGED <<chanVars, runVars, hpc, inVars, outVars, panic, lost>>

ServiceAnnounce ==
  /\ held = None
  /\ Feed!Announce
  /\ held' = IF closed THEN None ELSE pending
  /\ UNCHANGED <<changes, closed, runVars, hpc, inVars, outVars, panic, lost>>

Cancel ==
  /\ ~ctxDone
  /\ ctxDone' = TRUE
  /\ UNCHANGED <<feedVars, chanVars, npc, cur, started, cancelled, hpc, inVars, outVars, panic, lost>>

Unsubscribe ==
  /\ ctxDone /\ ~closed
  /\ closed' = TRUE /\ held' = None
  /\ UNCHANGED <<feedVars, runVars, hpc, inVars, outVars, panic, lost>>

-----------------------------------------------------------------------------
(* Run.                                                                     *)

StartHandler ==
  /\ cur' = started + 1 /\ started' = started + 1
  /\ hpc' = [hpc EXCEPT ![started + 1] = "opening"]

\* The node has subscribed; it starts the goroutine of events too.
CheckConnected ==
  /\ npc = "check"
  /\ IF Addr \in connected THEN StartHandler ELSE UNCHANGED <<cur, started, hpc>>
  /\ npc' = "loop" /\ spc' = "take"
  /\ UNCHANGED <<feedVars, chanVars, ctxDone, cancelled, reportsCh, chClosed, state, events, host, outVars,
                 panic, lost>>

\* A closed channel yields a Connected.
OnConnected ==
  /\ npc = "loop" /\ (IF held # None THEN held[2] ELSE closed)
  /\ held' = None
  /\ IF cur = 0 THEN StartHandler ELSE UNCHANGED <<cur, started, hpc>>
  /\ UNCHANGED <<feedVars, closed, npc, ctxDone, cancelled, inVars, outVars, panic, lost>>

Forget == 0

\* Mutant: the handler of a device that left is not cancelled.
BugKeepContext == UNCHANGED cancelled

CancelHandler == cancelled' = IF cur # 0 THEN cancelled \cup {cur} ELSE cancelled

\* Nobody waits for the handler.
OnDisconnected ==
  /\ npc = "loop" /\ held # None /\ ~held[2]
  /\ held' = None
  /\ CancelHandler /\ cur' = Forget
  /\ UNCHANGED <<feedVars, closed, npc, ctxDone, started, hpc, inVars, outVars, panic, lost>>

\* The deferred close comes with the return.
OnDone ==
  /\ npc = "loop" /\ ctxDone
  /\ CancelHandler
  /\ npc' = "returned" /\ chClosed' = TRUE
  /\ UNCHANGED <<feedVars, chanVars, ctxDone, cur, started, hpc, reportsCh, spc, state, events, host, outVars,
                 panic, lost>>

-----------------------------------------------------------------------------
(* The goroutine of events.                                                 *)

\* An event changes the key: ApplyEvent returns a report.
TakeEvent ==
  /\ spc = "take" /\ ~closed /\ events < MaxEvents
  /\ events' = events + 1 /\ state' = ~state /\ spc' = "send"
  /\ UNCHANGED <<feedVars, chanVars, runVars, hpc, reportsCh, chClosed, host, outVars, panic, lost>>

\* A closed channel yields an input event that has no HID event: ApplyEvent(nil).
TakeNil ==
  /\ spc = "take" /\ closed
  /\ panic' = TRUE
  /\ UNCHANGED <<feedVars, chanVars, runVars, hpc, inVars, outVars, lost>>

SendReport ==
  /\ spc = "send" /\ ~chClosed
  /\ spc' = "take"
  /\ IF reportsCh = <<>>
       THEN reportsCh' = <<state>> /\ UNCHANGED lost
       ELSE lost' = lost \cup {"dropped"} /\ UNCHANGED reportsCh
  /\ UNCHANGED <<feedVars, chanVars, runVars, hpc, chClosed, state, events, host, outVars, panic>>

SendOnClosed ==
  /\ spc = "send" /\ chClosed
  /\ panic' = TRUE
  /\ UNCHANGED <<feedVars, chanVars, runVars, hpc, inVars, outVars, lost>>

EventsDone ==
  /\ spc = "take" /\ ctxDone
  /\ spc' = "none"
  /\ UNCHANGED <<feedVars, chanVars, runVars, hpc, reportsCh, chClosed, state, events, host, outVars,
                 panic, lost>>

-----------------------------------------------------------------------------
(* handleDevice.                                                            *)

Stopped(h) == ctxDone \/ h \in cancelled

OpenFails(h) ==
  /\ hpc[h] = "opening"
  /\ hpc' = [hpc EXCEPT ![h] = "closed"]
  /\ UNCHANGED <<feedVars, chanVars, runVars, inVars, outVars, panic, lost>>

Open(h) ==
  /\ hpc[h] = "opening"
  /\ hpc' = [hpc EXCEPT ![h] = "open"] /\ rpc' = [rpc EXCEPT ![h] = "read"]
  /\ lost' = IF \E k \in Handlers \ {h} : hpc[k] = "open" \/ rpc[k] # "none"
               THEN lost \cup {"overlap"} ELSE lost
  /\ UNCHANGED <<feedVars, chanVars, runVars, inVars, readCh, led, leds, outputState, upLed, panic>>

\* select may take a report although the handler's context is cancelled.
WriteReport(h) ==
  /\ hpc[h] = "open" /\ reportsCh # <<>>
  /\ host' = [host EXCEPT ![h] = Head(reportsCh)]
  /\ reportsCh' = Tail(reportsCh)
  /\ UNCHANGED <<feedVars, chanVars, runVars, hpc, chClosed, spc, state, events, outVars, panic, lost>>

\* Mutant: the device is not closed.
BugAfterDone == "open"

AfterDone == "closed"

HandlerDone(h) ==
  /\ hpc[h] = "open" /\ Stopped(h)
  /\ hpc' = [hpc EXCEPT ![h] = AfterDone]
  /\ UNCHANGED <<feedVars, chanVars, runVars, inVars, outVars, panic, lost>>

-----------------------------------------------------------------------------
(* The kernel's requests (uhidDevice.run) and the reader of output reports.  *)

\* An output report goes to the reader, if its queue has room.
HostOutput(h) ==
  /\ hpc[h] = "open" /\ leds < MaxLeds
  /\ leds' = leds + 1 /\ led' = ~led
  /\ IF Len(readCh[h]) < ReadCap
       THEN readCh' = [readCh EXCEPT ![h] = Append(@, led')] /\ UNCHANGED lost
       ELSE lost' = lost \cup {"unread"} /\ UNCHANGED readCh
  /\ UNCHANGED <<feedVars, chanVars, runVars, hpc, inVars, rpc, outputState, upLed, panic>>

\* SetOutputReport applies the report and forgets the event that it yields.
HostSetReport(h) ==
  /\ hpc[h] = "open" /\ leds < MaxLeds
  /\ leds' = leds + 1 /\ led' = ~led /\ outputState' = led'
  /\ lost' = lost \cup {"set"}
  /\ UNCHANGED <<feedVars, chanVars, runVars, hpc, inVars, rpc, readCh, upLed, panic>>

\* Mutant: what is broadcast is not compared with what the node knows.
BugSaying(new) == IF new THEN "on" ELSE "read"

\* A report that changes nothing is not broadcast.
Saying(new) == IF new = outputState THEN "read" ELSE IF new THEN "on" ELSE "off"

\* What has been read when the context is cancelled is forgotten.
ReadOutput(h) ==
  /\ rpc[h] = "read" /\ readCh[h] # <<>>
  /\ readCh' = [readCh EXCEPT ![h] = Tail(@)]
  /\ IF Stopped(h)
       THEN /\ rpc' = [rpc EXCEPT ![h] = "none"]
            /\ lost' = lost \cup {"unread"} /\ UNCHANGED outputState
       ELSE /\ outputState' = Head(readCh[h])
            /\ rpc' = [rpc EXCEPT ![h] = Saying(outputState')]
            /\ UNCHANGED lost
  /\ UNCHANGED <<feedVars, chanVars, runVars, hpc, inVars, led, leds, upLed, panic>>

BroadcastLed(h) ==
  /\ rpc[h] \in {"on", "off"}
  /\ upLed' = (rpc[h] = "on") /\ rpc' = [rpc EXCEPT ![h] = "read"]
  /\ UNCHANGED <<feedVars, chanVars, runVars, hpc, inVars, readCh, led, leds, outputState, panic, lost>>

ReadCancelled(h) ==
  /\ rpc[h] = "read" /\ hpc[h] = "closed"
  /\ rpc' = [rpc EXCEPT ![h] = "none"]
  /\ lost' = IF readCh[h] # <<>> THEN lost \cup {"unread"} ELSE lost
  /\ UNCHANGED <<feedVars, chanVars, runVars, hpc, inVars, readCh, led, leds, outputState, upLed, panic>>

-----------------------------------------------------------------------------

Run == CheckConnected \/ OnConnected \/ OnDisconnected

Next ==
  /\ ~panic
  /\ \/ ServiceChange \/ ServiceAnnounce \/ Cancel \/ Unsubscribe
     \/ Run \/ OnDone
     \/ TakeEvent \/ TakeNil \/ SendReport \/ SendOnClosed \/ EventsDone
     \/ \E h \in Handlers :
          \/ OpenFails(h) \/ Open(h) \/ WriteReport(h) \/ HandlerDone(h)
          \/ HostOutput(h) \/ HostSetReport(h)
          \/ ReadOutput(h) \/ BroadcastLed(h) \/ ReadCancelled(h)

\* Goroutines that can run do; select takes each of its ready cases in the end.
Fairness ==
  /\ WF_vars(Run) /\ SF_vars(OnDone)
  /\ \A h \in Handlers :
       /\ WF_vars(OpenFails(h) \/ Open(h) \/ ReadOutput(h) \/ BroadcastLed(h) \/ ReadCancelled(h))
       /\ SF_vars(HandlerDone(h))

Spec == Init /\ [][Next]_vars /\ Fairness

-----------------------------------------------------------------------------
(* Properties.                                                              *)

\* The type invariant.
TypeOK ==
  /\ connected \subseteq {Addr} /\ pending \in {None} \cup ({Addr} \X BOOLEAN)
  /\ last \in [{Addr} -> BOOLEAN]
  /\ changes \in 0..MaxChanges /\ events \in 0..MaxEvents /\ leds \in 0..MaxLeds
  /\ held \in {None} \cup ({Addr} \X BOOLEAN) /\ closed \in BOOLEAN
  /\ npc \in {"check", "loop", "returned"} /\ ctxDone \in BOOLEAN
  /\ started \in Nat /\ cur \in 0..started /\ cancelled \subseteq 1..started
  /\ hpc \in [Handlers -> {"none", "opening", "open", "closed"}]
  /\ rpc \in [Handlers -> {"none", "read", "on", "off"}]
  /\ reportsCh \in {<<>>} \cup {<<b>> : b \in BOOLEAN} /\ chClosed \in BOOLEAN
  /\ spc \in {"none", "take", "send"} /\ state \in BOOLEAN
  /\ host \in [Handlers -> BOOLEAN]
  /\ readCh \in [Handlers -> UNION {[1..n -> BOOLEAN] : n \in 0..ReadCap}]
  /\ {led, outputState, upLed, panic} \subseteq BOOLEAN
  /\ lost \subseteq {"dropped", "unread", "set", "overlap"}

\* When nothing is on its way, the node keeps a handler for its device if and only if
\* the service says the device is connected.
Follows ==
  npc = "loop" /\ ~ctxDone /\ held = None /\ pending = None
    => (cur # 0 <=> Addr \in connected)

\* No more than one handler that is not cancelled: an old one may still be there,
\* for Run does not wait for it.
OneCurrent == \A h \in Handlers : hpc[h] \in {"opening", "open"} /\ ~Stopped(h) => h = cur

\* After the end of the context Run returns and every handler has closed its device,
\* those that nobody waited for included, although they look for reports at the same time.
HandlersEnd ==
  ctxDone ~> (npc = "returned" /\ \A h \in Handlers : hpc[h] \in {"none", "closed"}) \/ panic

LedQuiet == \A h \in Handlers : readCh[h] = <<>> /\ rpc[h] \in {"none", "read"}

\* What the host sets arrives upstream, unless it came through a report that was set, a full
\* queue, a device that was closed or while another one was still open.
LedsArrive == LedQuiet /\ lost \cap {"unread", "set", "overlap"} = {} => upLed = led

\* The same for reports the host sets (node_output.go:101).
SetReportsArrive == LedQuiet /\ lost \cap {"unread", "overlap"} = {} => upLed = led

\* The same for a device that returns before its first handler is gone.
OverlapArrives == LedQuiet /\ lost \cap {"unread", "set"} = {} => upLed = led

\* What the host last got is what the node's input state says.
HostCurrent ==
  npc = "loop" /\ spc = "take" /\ reportsCh = <<>> /\ started = 1 /\ hpc[1] = "open"
    => host[1] = state

\* No goroutine of the node panics: "Run starts the agent and blocks until the context
\* is cancelled" (pkg/agent/agent.go:93).
NoPanic == ~panic
=============================================================================
