------------------------------ MODULE InputNode ------------------------------
(***************************************************************************)
(* An input node (internal/hidsvc/node_input.go): Run, the handlers it     *)
(* starts for its device (handleDevice), and the goroutine of each that    *)
(* reads reports.  The HID service is DeviceFeed, its bus hands one        *)
(* announcement at a time to the node and closes the node's channel after  *)
(* the context is cancelled.  The device has one key.                      *)
(***************************************************************************)
EXTENDS Integers

CONSTANTS Addr,         \* the address of the node
          MaxChanges,   \* bound: changes of the table of connected devices
          MaxRuns,      \* bound: runs of the node (restarts of the flow)
          MaxReports    \* bound: changes of the key

ASSUME InputAssumption == MaxChanges \in Nat /\ MaxRuns \in Nat /\ MaxReports \in Nat

\* A run starts a handler for the device it finds, for every device that
\* comes, and for the value it reads from a closed channel.
Handlers == 1 .. MaxChanges + 2 * MaxRuns

VARIABLES
  connected, pending, last,   \* the feed of the service
  changes, runs, reports,     \* the bounded counts
  held,                       \* the announcement the bus has for the node
  listening, closed,          \* the node's channel: subscribed, closed
  npc,                        \* the place of Run
  ctxDone,                    \* is its context cancelled?
  cur,                        \* the handler whose cancel and done it keeps, 0 if none
  started,                    \* the number of handlers so far
  cancelled,                  \* those whose context is cancelled
  hpc, rpc,                   \* the place of each handler and of its reader
  known,                      \* the reader's state of the key
  down,                       \* the key
  told,                       \* presses minus releases that were broadcast
  lastFrom                    \* ghost: the handler that broadcast last

None == <<>>

feedVars == <<connected, pending, last, changes>>
chanVars == <<held, listening, closed>>
runVars  == <<npc, ctxDone, runs, cur, started, cancelled>>
handVars == <<hpc, rpc, known, told, lastFrom>>
keyVars  == <<down, reports>>
vars == <<feedVars, chanVars, runVars, handVars, keyVars>>

Feed == INSTANCE DeviceFeed WITH Addrs <- {Addr}

Init ==
  /\ connected \in {{}, {Addr}} /\ pending = None
  /\ last = [a \in {Addr} |-> a \in connected]
  /\ changes = 0 /\ runs = 0 /\ reports = 0
  /\ held = None /\ listening = FALSE /\ closed = FALSE
  /\ npc = "off" /\ ctxDone = FALSE /\ cur = 0 /\ started = 0 /\ cancelled = {}
  /\ hpc = [h \in Handlers |-> "none"] /\ rpc = [h \in Handlers |-> "none"]
  /\ known = [h \in Handlers |-> FALSE]
  /\ down = FALSE /\ told = 0 /\ lastFrom = 0

-----------------------------------------------------------------------------
(* Around the node.                                                         *)

ServiceChange ==
  /\ changes < MaxChanges
  /\ changes' = changes + 1
  /\ \E b \in BOOLEAN : Feed!Change(Addr, b)
  /\ UNCHANGED <<chanVars, runVars, handVars, keyVars>>

ServiceAnnounce ==
  /\ held = None
  /\ Feed!Announce
  /\ held' = IF listening THEN pending ELSE None
  /\ UNCHANGED <<changes, listening, closed, runVars, handVars, keyVars>>

\* The key of the device is pressed or released; so is one of a device that is plugged
\* in later.
Key ==
  /\ reports < MaxReports
  /\ reports' = reports + 1 /\ down' = ~down
  /\ UNCHANGED <<feedVars, chanVars, runVars, handVars>>

\* The graph stops: a restart, a shutdown.
Cancel ==
  /\ npc # "off" /\ ~ctxDone
  /\ ctxDone' = TRUE
  /\ UNCHANGED <<feedVars, chanVars, npc, runs, cur, started, cancelled, handVars, keyVars>>

Unsubscribe ==
  /\ ctxDone /\ listening
  /\ listening' = FALSE /\ closed' = TRUE /\ held' = None
  /\ UNCHANGED <<feedVars, runVars, handVars, keyVars>>

-----------------------------------------------------------------------------
(* Run.                                                                     *)

Subscribe ==
  /\ npc = "off" /\ runs < MaxRuns
  /\ runs' = runs + 1
  /\ listening' = TRUE /\ closed' = FALSE /\ held' = None /\ ctxDone' = FALSE /\ cur' = 0
  /\ npc' = "check"
  /\ UNCHANGED <<feedVars, started, cancelled, handVars, keyVars>>

StartHandler ==
  /\ cur' = started + 1 /\ started' = started + 1
  /\ hpc' = [hpc EXCEPT ![started + 1] = "opening"]

CheckConnected ==
  /\ npc = "check"
  /\ IF Addr \in connected THEN StartHandler ELSE UNCHANGED <<cur, started, hpc>>
  /\ npc' = "loop"
  /\ UNCHANGED <<feedVars, chanVars, ctxDone, runs, cancelled, rpc, known, told, lastFrom, keyVars>>

\* IsInputConnected is asked after the subscription; a Connected that was on its
\* way then finds the handler already there.
OnConnected ==
  /\ npc = "loop" /\ (IF held # None THEN held[2] ELSE closed)
  /\ held' = None
  /\ IF cur = 0 THEN StartHandler ELSE UNCHANGED <<cur, started, hpc>>
  /\ UNCHANGED <<feedVars, listening, closed, npc, ctxDone, runs, cancelled, rpc, known, told, lastFrom, keyVars>>

\* Mutant: cancel is called whether it is nil or not.
BugCancelCurrent == cancelled' = cancelled \cup {cur}

CancelCurrent == cancelled' = IF cur # 0 THEN cancelled \cup {cur} ELSE cancelled

OnDisconnected ==
  /\ npc = "loop" /\ held # None /\ ~held[2]
  /\ held' = None
  /\ CancelCurrent
  /\ npc' = IF cur # 0 THEN "wait" ELSE "loop"
  /\ UNCHANGED <<feedVars, listening, closed, ctxDone, runs, cur, started, handVars, keyVars>>

\* Mutant: nobody waits for the handler to be done.
BugDone(h) == TRUE

Done(h) == hpc[h] = "done"

\* Mutant: cancel is kept.
BugForget == cur

Forget == 0

WaitDone ==
  /\ npc = "wait" /\ Done(cur)
  /\ cur' = Forget /\ npc' = "loop"
  /\ UNCHANGED <<feedVars, chanVars, ctxDone, runs, started, cancelled, handVars, keyVars>>

OnDone ==
  /\ npc = "loop" /\ ctxDone
  /\ CancelCurrent
  /\ npc' = IF cur # 0 THEN "leave" ELSE "off"
  /\ UNCHANGED <<feedVars, chanVars, ctxDone, runs, cur, started, handVars, keyVars>>

Leave ==
  /\ npc = "leave" /\ Done(cur)
  /\ npc' = "off"
  /\ UNCHANGED <<feedVars, chanVars, ctxDone, runs, cur, started, cancelled, handVars, keyVars>>

-----------------------------------------------------------------------------
(* handleDevice.                                                            *)

\* The context of a handler is a child of that of Run, and of that Run only.
Stopped(h) == h \in cancelled \/ (ctxDone /\ h = cur)

\* Mutant: an early return does not close g.done.
BugAfterFailure == "none"

AfterFailure == "done"

\* To open the device, get and decode its descriptor, or to acquire it fails.
HandlerFails(h) ==
  /\ hpc[h] = "opening"
  /\ hpc' = [hpc EXCEPT ![h] = AfterFailure]
  /\ UNCHANGED <<feedVars, chanVars, runVars, rpc, known, told, lastFrom, keyVars>>

\* It gets the reports, acquires the device, and broadcasts what is pressed.
HandlerAcquires(h) ==
  /\ hpc[h] = "opening"
  /\ hpc' = [hpc EXCEPT ![h] = "acquired"] /\ rpc' = [rpc EXCEPT ![h] = "read"]
  /\ known' = [known EXCEPT ![h] = down]
  /\ told' = IF down THEN told + 1 ELSE told
  /\ lastFrom' = IF down THEN h ELSE lastFrom
  /\ UNCHANGED <<feedVars, chanVars, runVars, keyVars>>

HandlerReleases(h) ==
  /\ hpc[h] = "acquired" /\ Stopped(h)
  /\ hpc' = [hpc EXCEPT ![h] = "done"]
  /\ UNCHANGED <<feedVars, chanVars, runVars, rpc, known, told, lastFrom, keyVars>>

\* A report that changes nothing is not broadcast.
ReadReport(h) ==
  /\ rpc[h] = "read" /\ hpc[h] = "acquired" /\ known[h] # down
  /\ IF Stopped(h)
       THEN rpc' = [rpc EXCEPT ![h] = "none"] /\ UNCHANGED known
       ELSE rpc' = [rpc EXCEPT ![h] = "send"] /\ known' = [known EXCEPT ![h] = down]
  /\ UNCHANGED <<feedVars, chanVars, runVars, hpc, told, lastFrom, keyVars>>

ReadFails(h) ==
  /\ rpc[h] = "read" /\ (hpc[h] = "done" \/ Addr \notin connected)
  /\ rpc' = [rpc EXCEPT ![h] = "none"]
  /\ UNCHANGED <<feedVars, chanVars, runVars, hpc, known, told, lastFrom, keyVars>>

Broadcast(h) ==
  /\ rpc[h] = "send"
  /\ rpc' = [rpc EXCEPT ![h] = "read"]
  /\ told' = IF known[h] THEN told + 1 ELSE told - 1
  /\ lastFrom' = h
  /\ UNCHANGED <<feedVars, chanVars, runVars, hpc, known, keyVars>>

-----------------------------------------------------------------------------

Run == Subscribe \/ CheckConnected \/ OnConnected \/ OnDisconnected \/ WaitDone \/ Leave

Next ==
  \/ ServiceChange \/ ServiceAnnounce \/ Key \/ Cancel \/ Unsubscribe
  \/ Run \/ OnDone
  \/ \E h \in Handlers :
       HandlerFails(h) \/ HandlerAcquires(h) \/ HandlerReleases(h)
         \/ ReadReport(h) \/ ReadFails(h) \/ Broadcast(h)

\* select picks among ready cases at random, so the end of the context is seen
\* although the closed channel is always ready.
Fairness ==
  /\ WF_vars(ServiceAnnounce) /\ WF_vars(Unsubscribe)
  /\ WF_vars(Run) /\ SF_vars(OnDone)
  /\ \A h \in Handlers :
       WF_vars(HandlerFails(h) \/ HandlerAcquires(h) \/ HandlerReleases(h))

Spec == Init /\ [][Next]_vars /\ Fairness

-----------------------------------------------------------------------------
(* Properties.                                                              *)

\* The type invariant.
TypeOK ==
  /\ connected \subseteq {Addr} /\ pending \in {None} \cup ({Addr} \X BOOLEAN)
  /\ last \in [{Addr} -> BOOLEAN]
  /\ changes \in 0..MaxChanges /\ runs \in 0..MaxRuns /\ reports \in 0..MaxReports
  /\ held \in {None} \cup ({Addr} \X BOOLEAN)
  /\ listening \in BOOLEAN /\ closed \in BOOLEAN /\ ctxDone \in BOOLEAN
  /\ npc \in {"off", "check", "loop", "wait", "leave"}
  /\ started \in Nat /\ cur \in 0..started /\ cancelled \subseteq 1..started
  /\ hpc \in [Handlers -> {"none", "opening", "acquired", "done"}]
  /\ rpc \in [Handlers -> {"none", "read", "send"}]
  /\ known \in [Handlers -> BOOLEAN]
  /\ down \in BOOLEAN /\ told \in Int /\ lastFrom \in {0} \cup Handlers

\* A device is opened, acquired and released by one handler at a time, over all the
\* runs of the node: what one detaches from the kernel the next does not
\* attach behind its back (the waits for g.done, node_input.go:210, 218).
OneHolder ==
  \A h, k \in Handlers :
    hpc[h] \in {"opening", "acquired"} /\ hpc[k] \in {"opening", "acquired"} => h = k

\* A node without a context of its own holds no device (a restarted flow finds it free).
OffHoldsNothing == npc = "off" => \A h \in Handlers : hpc[h] \in {"none", "done"}

\* When nothing is on its way, the node has a handler for its device if and only if
\* the service says the device is connected: no order of Subscribe,
\* IsInputConnected and the announcements makes it miss or repeat one.
Follows ==
  npc = "loop" /\ ~ctxDone /\ held = None /\ pending = None
    => (cur # 0 <=> Addr \in connected)

\* A node whose context is cancelled returns, whatever the device does meanwhile.
Returns == ctxDone ~> npc = "off"

\* While no handler is there, no key of the device is pressed downstream.
NoStuckKey == (\A h \in Handlers : hpc[h] # "acquired" /\ rpc[h] # "send") => told <= 0

\* What a handler's reader broadcasts is never older than what the next handler does.
NoStaleReport == [][lastFrom' >= lastFrom]_lastFrom
=============================================================================
