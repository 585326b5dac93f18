----------------------------- MODULE HidService -----------------------------
(***************************************************************************)
(* How devices come and go: the Linux backend (linux/linux_backend.go),    *)
(* which polls the physical devices and follows the uhid section of the    *)
(* configuration, and the HID service (hid_service.go), which keeps the    *)
(* tables of connected devices and the database.  Four goroutines: the     *)
(* backend's (runBackend), the watcher's (the callbacks of configsvc), the *)
(* worker of the backend bus, and the service's (consumeEvents).           *)
(***************************************************************************)
EXTENDS Naturals, FiniteSets, Sequences

CONSTANTS Inputs,        \* addresses of physical devices
          Outputs,       \* ids of the uhid section
          Uhid,          \* what the section holds after each save: the
                         \*   settings of each id, 0 if it is not there
          MaxPlugs,      \* bound: devices plugged in
          MaxFailures,   \* bound: failures of the library
          FastReplug,    \* may a device return before a poll missed it?
          EarlySave      \* may the file be saved while the backend starts?

Addrs == Inputs \cup Outputs

ASSUME HidAssumption ==
  /\ Inputs \cap Outputs = {}
  /\ Uhid \in Seq([Outputs -> Nat]) /\ Uhid # <<>>
  /\ MaxPlugs \in Nat /\ MaxFailures \in Nat
  /\ FastReplug \in BOOLEAN /\ EarlySave \in BOOLEAN

VARIABLES
  plugged,      \* the device at each address, 0 if none: every plug is a new one
  plugs, failures,   \* the bounded counts
  file,         \* saves of the file
  hidDevices,   \* the backend's table: the path of each address, 0 if none
  uhidDevices,  \* and its uhid devices: their settings, 0 if none
  bpc, bcfg,    \* the backend's goroutine: its place, the section it has read
  bout,         \* what it is about to publish, None if nothing
  callbacks,    \* the registered callbacks
  events,       \* file events the watcher has still to see
  wleft, wcfg, wout,   \* callbacks it has still to call, what it read, publishes
  held,         \* the message in the worker of the backend bus
  subscribed,   \* has consumeEvents subscribed?
  disc, conn,   \* what the service has still to handle of its message
  opened,       \* the device it has initialized but not yet stored
  connected, pending, last,   \* as in DeviceFeed
  described,    \* the database: inputs with a report descriptor
  failed,       \* ghost: devices that could not be initialized
  missed,       \* ghost: was a message published before the subscription?
  flow          \* the flow service's start: has an output node been configured?

envVars  == <<plugged, plugs, file>>
backVars == <<hidDevices, bpc, bcfg, bout>>
fileVars == <<callbacks, events, wleft, wcfg, wout>>
busVars  == <<held, subscribed, missed>>
feedVars == <<connected, pending, last>>
svcVars  == <<disc, conn, opened, described, failed>>
vars == <<envVars, failures, backVars, uhidDevices, fileVars, busVars, feedVars, svcVars, flow>>

None == <<>>

Present(table) == {a \in DOMAIN table : table[a] # 0}

\* What a refresh of a table tells the service: who left, who came.
Message(old, new) == [disc |-> Present(old) \ Present(new), conn |-> Present(new) \ Present(old)]

\* Nothing is published when nobody came or left.
Publication(m) == IF m.disc = {} /\ m.conn = {} THEN None ELSE m

Init ==
  /\ plugged \in [Inputs -> {0, 1}] /\ plugs = 1 /\ failures = 0 /\ file = 1
  /\ hidDevices = [a \in Inputs |-> 0] /\ uhidDevices = [a \in Outputs |-> 0]
  /\ bpc = "start" /\ bcfg = 1 /\ bout = None
  /\ callbacks = 0 /\ events = 0 /\ wleft = 0 /\ wcfg = 1 /\ wout = None
  /\ held = None /\ subscribed = FALSE /\ missed = FALSE
  /\ connected = {} /\ pending = None /\ last = [a \in Addrs |-> FALSE]
  /\ disc = {} /\ conn = {} /\ opened = {} /\ failed = {}
  /\ described \in {{}, Inputs}
  /\ flow = "waiting"

-----------------------------------------------------------------------------
(* People: they plug and unplug, and save the file.                         *)

Plug(a) ==
  /\ plugged[a] = 0 /\ plugs < MaxPlugs
  /\ hidDevices[a] = 0 \/ FastReplug
  /\ plugs' = plugs + 1
  /\ plugged' = [plugged EXCEPT ![a] = plugs + 1]
  /\ UNCHANGED <<failures, file, backVars, uhidDevices, fileVars, busVars, feedVars, svcVars, flow>>

Unplug(a) ==
  /\ plugged[a] # 0
  /\ plugged' = [plugged EXCEPT ![a] = 0]
  /\ UNCHANGED <<failures, plugs, file, backVars, uhidDevices, fileVars, busVars, feedVars, svcVars, flow>>

\* A directory that is not watched yet yields no event.
Save ==
  /\ file < Len(Uhid)
  /\ bpc = "poll" \/ EarlySave
  /\ file' = file + 1
  /\ events' = IF callbacks > 0 THEN events + 1 ELSE events
  /\ UNCHANGED <<plugged, plugs, failures, backVars, uhidDevices, callbacks, wleft, wcfg, wout,
                 busVars, feedVars, svcVars, flow>>

-----------------------------------------------------------------------------
(* The backend's goroutine: Start, retried after a failure.                 *)

ReadConfig ==
  /\ bpc = "start"
  /\ bcfg' = file /\ bpc' = "register"
  /\ UNCHANGED <<envVars, failures, hidDevices, bout, uhidDevices, fileVars, busVars, feedVars, svcVars, flow>>

RegisterCallback ==
  /\ bpc = "register"
  /\ callbacks' = callbacks + 1 /\ bpc' = "uhid"
  /\ UNCHANGED <<envVars, failures, hidDevices, bcfg, bout, uhidDevices, events, wleft, wcfg, wout,
                 busVars, feedVars, svcVars, flow>>

\* Mutant: devices that left the section stay in the table.
BugUhidRefreshed(n) ==
  [a \in Outputs |-> IF uhidDevices[a] # 0 THEN uhidDevices[a] ELSE Uhid[n][a]]

\* refreshUhidDevices: an id that is in both keeps its old settings.
UhidRefreshed(n) ==
  [a \in Outputs |-> IF uhidDevices[a] # 0 /\ Uhid[n][a] # 0 THEN uhidDevices[a] ELSE Uhid[n][a]]

RefreshUhid ==
  /\ bpc = "uhid"
  /\ uhidDevices' = UhidRefreshed(bcfg)
  /\ bout' = Publication(Message(uhidDevices, uhidDevices'))
  /\ bpc' = "hid"
  /\ UNCHANGED <<envVars, failures, hidDevices, bcfg, fileVars, busVars, feedVars, svcVars, flow>>

\* Mutant: the table is replaced before the poll looks for devices that left.
BugHidMessage(new) == Message([a \in Inputs |-> IF new[a] # 0 THEN hidDevices[a] ELSE 0], new)

HidMessage(new) == Message(hidDevices, new)

\* refreshHidDevices: a device found again keeps the path it had.
HidRefreshed ==
  [a \in Inputs |-> IF hidDevices[a] # 0 /\ plugged[a] # 0 THEN hidDevices[a] ELSE plugged[a]]

RefreshHid ==
  /\ bpc \in {"hid", "poll"} /\ bout = None
  /\ hidDevices' = HidRefreshed
  /\ bout' = Publication(HidMessage(hidDevices'))
  /\ bpc' = IF bpc = "hid" THEN "ready" ELSE "poll"
  /\ UNCHANGED <<envVars, failures, bcfg, uhidDevices, fileVars, busVars, feedVars, svcVars, flow>>

EnumerateFails ==
  /\ bpc \in {"hid", "poll"} /\ bout = None /\ failures < MaxFailures
  /\ failures' = failures + 1
  /\ bpc' = IF bpc = "hid" THEN "backoff" ELSE "poll"
  /\ UNCHANGED <<envVars, hidDevices, bcfg, bout, uhidDevices, fileVars, busVars, feedVars, svcVars, flow>>

BackendReady ==
  /\ bpc = "ready" /\ bout = None
  /\ bpc' = "poll"
  /\ UNCHANGED <<envVars, failures, hidDevices, bcfg, bout, uhidDevices, fileVars, busVars, feedVars, svcVars, flow>>

\* Mutant: runBackend gives up after the first failure.
BugRetries == FALSE

Retries == bpc = "backoff"

Retry ==
  /\ Retries
  /\ bpc' = "start"
  /\ UNCHANGED <<envVars, failures, hidDevices, bcfg, bout, uhidDevices, fileVars, busVars, feedVars, svcVars, flow>>

-----------------------------------------------------------------------------
(* The watcher: each callback reads the file again and refreshes.           *)

TakeEvent ==
  /\ events > 0 /\ wleft = 0 /\ wout = None
  /\ events' = events - 1 /\ wleft' = callbacks
  /\ UNCHANGED <<envVars, failures, backVars, uhidDevices, callbacks, wcfg, wout, busVars, feedVars, svcVars, flow>>

OnUhidConfigChange ==
  /\ wleft > 0 /\ wout = None
  /\ wleft' = wleft - 1 /\ wcfg' = file
  /\ uhidDevices' = UhidRefreshed(file)
  /\ wout' = Publication(Message(uhidDevices, uhidDevices'))
  /\ UNCHANGED <<envVars, failures, backVars, callbacks, events, busVars, feedVars, svcVars, flow>>

-----------------------------------------------------------------------------
(* The backend bus: without a subscriber a message is lost.                 *)

Accept(m) ==
  /\ held = None
  /\ held' = IF subscribed THEN m ELSE None
  /\ missed' = (missed \/ ~subscribed)
  /\ UNCHANGED <<envVars, failures, hidDevices, bpc, bcfg, uhidDevices, callbacks, events, wleft, wcfg,
                 subscribed, feedVars, svcVars, flow>>

PublishBackend == bout # None /\ Accept(bout) /\ bout' = None /\ UNCHANGED wout
PublishWatcher == wout # None /\ Accept(wout) /\ wout' = None /\ UNCHANGED bout

Subscribe ==
  /\ ~subscribed /\ subscribed' = TRUE
  /\ UNCHANGED <<envVars, failures, backVars, uhidDevices, fileVars, held, missed, feedVars, svcVars, flow>>

-----------------------------------------------------------------------------
(* The service's goroutine.                                                 *)

Idle == disc = {} /\ conn = {} /\ opened = {} /\ pending = None

HandleBackendEvent ==
  /\ Idle /\ held # None
  /\ disc' = held.disc /\ conn' = held.conn /\ held' = None
  /\ UNCHANGED <<envVars, failures, backVars, uhidDevices, fileVars, subscribed, missed, feedVars,
                 opened, described, failed, flow>>

\* Mutant: an event is published in a goroutine of its own.
BugPublished == TRUE

\* The publisher of the bus returns when its worker has the announcement.
Published == pending = None

OnDisconnected(a) ==
  /\ Published /\ a \in disc
  /\ disc' = disc \ {a} /\ failed' = failed \ {a}
  /\ connected' = connected \ {a} /\ pending' = <<a, FALSE>>
  /\ UNCHANGED <<envVars, failures, backVars, uhidDevices, fileVars, busVars, last,
                 conn, opened, described, flow>>

\* Mutant: a device that cannot be opened is taken for one that can.
BugCanOpen(a) == TRUE

\* OpenInputDevice opens the path of the backend's table.
CanOpen(a) == hidDevices[a] # 0 /\ hidDevices[a] = plugged[a]

Connecting(a) == Published /\ disc = {} /\ opened = {} /\ a \in conn

Stored(a) == described \cup {a}

\* initializeInputDevice opens the device for its descriptor, then stores both.
InitializeInput(a) ==
  /\ a \in Inputs /\ Connecting(a) /\ CanOpen(a)
  /\ conn' = conn \ {a} /\ opened' = {a} /\ described' = Stored(a)
  /\ UNCHANGED <<envVars, failures, backVars, uhidDevices, fileVars, busVars, feedVars,
                 disc, failed, flow>>

InitializeOutput(a) ==
  /\ a \in Outputs /\ Connecting(a)
  /\ conn' = conn \ {a} /\ opened' = {a}
  /\ UNCHANGED <<envVars, failures, backVars, uhidDevices, fileVars, busVars, feedVars,
                 disc, described, failed, flow>>

\* The device is gone, or the library or the database fails: nobody tries again.
InitializeFails(a) ==
  /\ Connecting(a)
  /\ IF a \in Inputs /\ ~CanOpen(a)
       THEN UNCHANGED failures
       ELSE failures < MaxFailures /\ failures' = failures + 1
  /\ conn' = conn \ {a} /\ failed' = failed \cup {a}
  /\ UNCHANGED <<envVars, backVars, uhidDevices, fileVars, busVars, feedVars,
                 disc, opened, described, flow>>

OnConnected(a) ==
  /\ a \in opened
  /\ opened' = {} /\ connected' = connected \cup {a} /\ pending' = <<a, TRUE>>
  /\ UNCHANGED <<envVars, failures, backVars, uhidDevices, fileVars, busVars, last,
                 disc, conn, described, failed, flow>>

Announce ==
  /\ pending # None
  /\ last' = [last EXCEPT ![pending[1]] = pending[2]] /\ pending' = None
  /\ UNCHANGED <<envVars, failures, backVars, uhidDevices, fileVars, busVars, connected, svcVars, flow>>

\* The flow service does not wait for the HID service: it configures an output
\* node, which wants the descriptors of all its inputs, as soon as it has the file.
ConfigureOutput ==
  /\ flow = "waiting"
  /\ flow' = IF Inputs \subseteq described THEN "configured" ELSE "failed"
  /\ UNCHANGED <<envVars, failures, backVars, uhidDevices, fileVars, busVars, feedVars, svcVars>>

-----------------------------------------------------------------------------

Backend == ReadConfig \/ RegisterCallback \/ RefreshUhid \/ BackendReady \/ Retry
Service ==
  \/ HandleBackendEvent \/ Announce
  \/ \E a \in Addrs : OnDisconnected(a) \/ InitializeInput(a) \/ InitializeOutput(a)
                        \/ InitializeFails(a) \/ OnConnected(a)

Next ==
  \/ \E a \in Inputs : Plug(a) \/ Unplug(a)
  \/ Save \/ Backend \/ RefreshHid \/ EnumerateFails
  \/ TakeEvent \/ OnUhidConfigChange
  \/ PublishBackend \/ PublishWatcher \/ Subscribe
  \/ Service \/ ConfigureOutput

\* Goroutines that can run do; the poll is a ticker.
Fairness ==
  /\ WF_vars(Backend) /\ WF_vars(RefreshHid)
  /\ WF_vars(TakeEvent) /\ WF_vars(OnUhidConfigChange)
  /\ WF_vars(PublishBackend) /\ WF_vars(PublishWatcher) /\ WF_vars(Subscribe)
  /\ WF_vars(Service)

Spec == Init /\ [][Next]_vars /\ Fairness

-----------------------------------------------------------------------------
(* Properties.                                                              *)

Messages ==
  {None} \cup {m \in [disc : SUBSET Addrs, conn : SUBSET Addrs] : m.disc \cap m.conn = {}}

\* The type invariant: a message says of no device that it both left and came, at most one device is between the database and the table,
\* at most one announcement is on its way.
TypeOK ==
  /\ plugged \in [Inputs -> 0..MaxPlugs] /\ plugs \in 1..MaxPlugs /\ failures \in 0..MaxFailures
  /\ file \in 1..Len(Uhid) /\ bcfg \in 1..Len(Uhid) /\ wcfg \in 1..Len(Uhid)
  /\ hidDevices \in [Inputs -> 0..MaxPlugs] /\ uhidDevices \in [Outputs -> Nat]
  /\ bpc \in {"start", "register", "uhid", "hid", "ready", "poll", "backoff"}
  /\ bout \in Messages /\ wout \in Messages /\ held \in Messages
  /\ callbacks \in Nat /\ events \in Nat /\ wleft \in Nat
  /\ subscribed \in BOOLEAN /\ missed \in BOOLEAN
  /\ disc \subseteq Addrs /\ conn \subseteq Addrs /\ opened \in {{}} \cup {{a} : a \in Addrs}
  /\ connected \subseteq Addrs /\ pending \in {None} \cup (Addrs \X BOOLEAN)
  /\ last \in [Addrs -> BOOLEAN]
  /\ described \subseteq Inputs /\ failed \subseteq Addrs
  /\ flow \in {"waiting", "configured", "failed"}

\* An input that IsInputConnected reports has a report descriptor in the database: an
\* output node that copies its descriptor finds it (node_output.go:179).
Described == connected \cap Inputs \subseteq described

Quiet == bout = None /\ wout = None /\ held = None /\ Idle

\* Once all that was published is handled, the service's tables agree with the backend's:
\* no order of the messages leaves a device in one and not in the other, unless it
\* could not be initialized or the message came before the service listened.
InSync ==
  Quiet /\ ~missed =>
    connected = (Present(hidDevices) \cup Present(uhidDevices)) \ failed

\* The path that OpenInputDevice opens is that of a device that is or was
\* plugged in last: never that of one that has been replaced since.
PathCurrent == \A a \in Inputs : hidDevices[a] # 0 /\ plugged[a] # 0 => hidDevices[a] = plugged[a]

\* When the watcher is done with the events, the uhid devices are those of the file,
\* with the settings of the file (the callback of linux_backend.go:160).
UhidCurrent ==
  bpc = "poll" /\ events = 0 /\ wleft = 0 => uhidDevices = Uhid[file]

\* A device that stays plugged in is connected in the end, whatever came and went before it, if
\* it can be initialized and its message was not published too early.
Noticed ==
  \A a \in Inputs :
    <>[](plugged[a] # 0) => <>[](a \in connected \/ a \in failed \/ missed)

\* The same without the excuse of a message that nobody was subscribed to.
AlwaysNoticed ==
  \A a \in Inputs : <>[](plugged[a] # 0) => <>[](a \in connected \/ a \in failed)

\* A valid configuration starts: "Agent startup will fail if the configuration is not
\* valid" (pkg/agent/agent.go:94), and the inputs of the output node are all there.
ValidStart == Inputs = Present(plugged) => flow # "failed"

\* The service keeps the promise of DeviceFeed.
Feed == INSTANCE DeviceFeed
ImplementsFeed == Feed!Spec
=============================================================================
