# neio-agent in TLA+

neio-agent is a user-space agent that takes HID reports from input devices, sends
them through a user-configured graph of nodes (key maps, layers, splits) and writes
the result to virtual HID devices. The graph is read from a file and changed while it
runs. This directory models what is hard to test in it: goroutines that share state
without locks, events that pass through them in different orders, devices that come and
go, and the sequential parts whose long legal inputs lead to places nobody tried.

Paths below are relative to `src/`. The repository has no README; what it says of
itself is in comments, descriptors and the sample `flow.yml`, and those are quoted
where a property rests on them.

## 1. The system

### Components

| Component | Code | State | Operations | Modelled in | How far |
|---|---|---|---|---|---|
| agent | `pkg/agent` | an errgroup of three services | start, cancel all on an error | FlowService | the errgroup as the flow service sees it |
| configuration service | `internal/configsvc` | watcher, subscribers | Register, one callback per file event | FlowService, HidService | partly |
| flow service, graph | `internal/flowsvc` | graph, its cancel, hash and done channel; configs; one runner per node | Start, onConfigChange, restartGraph, Configure, replaceNode, Run; Build and Validate | FlowService, GraphBuilder | all but the reading of YAML |
| event bus | `pkg/bus` | two tables of subscribers, one worker | Publish, Subscribe, forward, unsubscribe | Bus, Delivery | whole |
| bind node | `components/nodes/bind.go` | mappings with counters and finalizers | Run, triggerMappings, shouldInterrupt | ActionPool (one key), Triggers (several) | each half by itself |
| actions | `flowapi/action.go`, `components/actions` | pool of active contexts; per context three channels and a list of finalizers | handler, finalizer, Interrupt, Do, OnFinish | ActionPool | all but `none`, `char`, deltas |
| mux node | `components/nodes/mux.go` | current route, list of routes, route of each pressed usage | set, unset, reset, handle an event | Mux, RouteStack | whole |
| split node | `components/nodes/split.go` | none | partition an event by usage | Split | whole |
| report state | `hidapi/state.go`, `usage_set.go`, `event.go` | last reports, activation counters, fields | ApplyEvent, ApplyReport, InitReports, GetReport | ReportState, WideSelector, InputReports | no values in ApplyEvent |
| values, codec, data items | `hidapi/usage_values.go`, `codec.go`, `pkg/bits` | none | scan, concatenate, decode, encode | ReportBits, ReportIds | no widths of values |
| report descriptors | `hidapi/hiddesc` | global and local items, stack | decode, encode | DescriptorCodec | whole |
| usage names and patterns | `hidapi/hidusage` | none | look up, match | Split | no formatting |
| HID service | `internal/hidsvc/hid_service.go` | tables of connected devices, two buses, a database | handle backend events, retry backends | HidService, DeviceFeed | all that changes state |
| input node | `internal/hidsvc/node_input.go` | a handler and its reader | Run, handleDevice | InputNode | not the writer to the device |
| output node | `internal/hidsvc/node_output.go` | handlers, report channel, two report states | Run, handleDevice, buildDescriptor | OutputNode, ReportIds | all but the values |
| Linux backend | `internal/hidsvc/linux` | devices of the last poll, uhid devices and their queues | poll, uhid section, requests of the kernel | HidService, OutputNode | no system calls |
| flow language | `flowapi/flowdsl`, `flowapi/arguments.go` | none | check declarations and arguments | Arguments | not the grammar |
| node and registry interfaces | `flowapi`, `pkg/registry` | a table of node types | | GraphBuilder | as a table |
| generated usage pages | `hidapi/hidusage/usagepages` | tables | look up | Split | the lookups, on a few entries |
| USB gadget output, command line | | | | | not modelled |

### How they interact

```
 file --fsnotify--> configsvc --callback--> flowsvc --starts, cancels--> node runners
                              \--callback--> Linux backend (uhid section)
 udev --poll--> Linux backend --backend bus--> HID service --device bus--> input, output node
 device --reports--> input node --Event--> bus --> bind/mux/split --Event--> bus --> output node --> uhid
        <--LEDs----------------------------------------------------------------- (upstream)
                                             bind's actions --signals channel--> mux
```

Nodes talk only through the bus, by `Stream.Publish`, which gives up after 100
microseconds, and `Stream.Subscribe`. A bind node's actions call signals of other nodes
(the `switch` of a mux) through an unbuffered channel. The watcher's goroutine calls
into the flow service and the backend with no lock; `Start`, the watcher, one goroutine per graph
and one per node share the service's fields. The HID service tells nodes about devices by a
bus and by a table they may ask.

Components meet in the models through promises. `DeviceFeed` is what the HID service
promises; `HidService` implements it, and `InputNode` and `OutputNode` are composed with it
(`Feed!Change`, `Feed!Announce` are steps of theirs). `Delivery` is what the bus promises, and
`RouteStack` what the mux does.

### What is hard, and what makes each part correct

* **Mux**: signals and events arrive on two channels in any order. Whatever the order,
  a key is pressed on exactly one layer, is released there, and the layer is that
  of a switch somebody holds.
* **Actions**: a loop, a broadcaster and one goroutine per action wait for each other by
  channels and a mutex. A finalizer runs exactly once, a released key leaves nothing pressed,
  the interrupting key comes after the hold action, nobody waits for good.
* **Flow service**: the old flow stops before the new one starts, a node before its
  replacement; invalid files change nothing; valid ones take effect; shutdown ends.
* **Bus**: one order for all, without gaps; cancelled subscribers do no harm.
* **Devices**: tables in three places (backend, service, node) follow each other by messages; a
  device has one holder; one that stays is noticed; what the host sets arrives upstream.
* **Reports**: a usage is reported while somebody holds it; what is decoded is encoded
  as it was; events say what reports do.
* **Configuration**: what is accepted works, and what is refused is wrong.

`PROJECT.json` lists every hazard found in the code, at its line, with the properties
that watch over it, or the property that shows it going wrong, or the reason why none does.

## 2. The modules

### Mux, RouteStack (`components/nodes/mux.go`)

`Mux` has the locals of `Run` (`currentRoute`, `routeList`), the field
`activatedUsages`, whether `Run` still runs (its deferred `close(r.signals)`), and for each
switch action where it is: a sender blocks on the unbuffered channel ("setting",
"unsetting") until the mux takes the signal (`TakeSet`, `TakeUnset`) or the channel
is closed (`SendOnClosed`, a panic in the sender). `HandleEvent` is the whole branch of
`select` for an event: the releases on routes that were left, their suppression
on the current one, the bookkeeping, all sends. Ghosts: `told` (what each
downstream node believes), `pressed` (what the upstream said), `active` (the switches in
the order their sets were taken). An event is a set of presses and one of releases plus
`other` for values and deltas.

`RouteStack` is the promise of the descriptor (mux.go:25-48): a stack of active switches,
the route being that of the top. `Mux` implements it if every route has one switch
(`ImplementsStack`).

| Run | Instance | Shows |
|---|---|---|
| mux_stack | 2 keys, 3 layers, a switch each | `TypeOK`, `PressedOnOneRoute`, `NoForeignRelease`, `ImplementsStack`; every sender of a signal gets control back (`SignalReturns`) |

Two keys are enough for events that press one and release the other; three routes for a
left layer that is neither the current nor the default one. Fairness: a sender waits in
the channel's queue and `select` picks ready cases at random, so a signal is taken
unless the mux stops; nothing else is assumed.

### ActionPool (`components/nodes/bind.go`, `flowapi/action.go`, `components/actions`)

`mainPc` is the place of `Bind.Run` (loop, interrupt, interrupting, send), `pc[c]` that of the
goroutine of context c. `Interrupt` takes the mutex (`BeginInterrupt`), closes channels, and
holds it until every goroutine it waits for has returned (`EndInterrupt`); `NewContext` and
`RunFinalizer` need it (`MuFree`). A finalizer is a record of the usages it
deactivates and the context it finalizes; `keyFin`, `lockFin`, `fin` and `onFinish` are the
places one is kept. Sends to the broadcaster are rendezvous (`MainSend`, `Emit`); the
broadcaster stops when the context is cancelled while the loop's send does not look
at it. `activeContexts` is the set of contexts that are not finalized. Time is abstracted: a timer may fire
at any moment after it is set. A *setting* is a node: its keys, the action of each, and two bounds.

| Run | Settings | Shows |
|---|---|---|
| bind_hold | a tap-hold, a string of two and a plain key | `TypeOK`; `InterruptSettles`; `ReleaseFinalizes` |
| bind_release | a locked mod next to a repeat, three presses each; a tap next to a string of two and a plain key, two presses each | `NoDoubleFinalize`; `TypedAndReleased` |
| bind_repeat_deadlock | a repeat and a plain key | *violated*: `ReleaseFinalizes` |

Bounds: `presses` per key and `queue` events on the way, both of the setting, `MaxContexts` alive at a
time (a slot is used again once its context is finalized and its goroutine has returned). The settings have
at most one action more than interacts: interrupts involve an action and another key,
nested contexts one action more. Three presses open and close a lock and open it again. `TypedAndReleased` says that nothing stays
pressed of nodes whose actions are taps of a usage and strings of plain letters (`PlainTyping`); an upper-case letter
is a mod, and of mods it does not hold (section 3). Fairness
(bind_hold only): goroutines that can run do, and timers fire.

### FlowService (`internal/flowsvc`, `internal/configsvc`, `pkg/agent`)

`spc` is the place of `Service.Start`, `wpc` that of the watcher in `onConfigChange`, `gpc[g]`
that of the goroutine of graph g; `live` and `closed` are the channels `running` of nodes
that run and ran, a channel being the graph, the node and a number. The fields of the
service are read and written as the code does, each at its own step where another goroutine can
come in between: `StartGraph` and `PublishGraph`, `CancelGraph` and `SwapGraph`, `ReplaceNode` and
`RestartNode`, the two steps of `ClearGraph`. Calls of a nil `graphCancel` and of methods on a nil graph are `Crash`. A file is a tree and a
configuration per node, or does not parse; reading it yields what it has by then. A *story* is the
contents that the users save and whether they save while the service starts.

| Run | Stories | Shows |
|---|---|---|
| flow | reloads among two valid flows, one with a cycle, one rejected, one torn; replacements of nodes, one of them rejected, start-up included | `OneFlow`, `LastValidTree`, `OneInstance`, `ConfigsBacked`; `TakesEffect`, `ShutsDown` |
| flow_dies | both nodes replaced | *violated*: `KeepsRunning` |

Two nodes are enough to be replaced one after the other, four graphs for three restarts, and three saves for
a valid file, an invalid one and a valid one again. One node may fail by itself (`Fragile`). The run has about
260,000 states. Fairness: goroutines that can run do, and a node whose context is
cancelled returns; `NodeStops` takes that for granted although `MCActionPool_v_cancel.cfg` shows that a bind node may
not. `OneFlow`, and of `LastValidTree` that a flow runs at all, are stated of services that are reloaded as a whole (`WholeReloads`) and not
saved to while they start (see `MCFlowService_v_early.cfg`); where single nodes are replaced, two flows may run side by side (section 3). `TakesEffect` and `ShutsDown` of reloads of the whole
flow: after a replacement `Graph.Run` may return early and leave a node running (flow_dies), or
never (`MCFlowService_v_hang.cfg`), and then they fail. `ShutsDown` counts a panic on the way as an end.

Abstractions: all trees have the same node ids; the tree stands for its hash, so collisions of
`treeHash` are out; `Validate`, `Build` and `Configure` accept or reject (GraphBuilder says which); a reload that meets a
runner that was not started waits for a nil channel ("stuck").

### Bus, Delivery (`pkg/bus/bus.go`)

A message is its place in the order in which the worker accepted it. `Accept` takes one from a
publisher, `Visit` picks the next subscriber of a range over a Go map (global ones first),
`Send` is the rendezvous with the forwarder. `Subscribe` enters one table per key, a step
each; its goroutine closes the channel (`CloseChannel`) and then leaves the tables (`Withdraw`).
Whether a range under way sees a new entry is open, as in Go. That a map may be written while it is
ranged over, which the Go runtime may turn into a fatal error, is not modelled.

`Delivery` is what subscribers rely on: one log, one queue each, read in order; a cancelled
subscriber loses messages from the end only. `Bus` implements it: the queue of a
subscriber is the message its forwarder holds and then the one the worker has for it.

| Run | Instance | Shows |
|---|---|---|
| bus_order | subscribers to two keys and to all, two messages | `ImplementsDelivery`; `Delivered`, if every reader goes on reading |
| bus_close | subscribers to one key and to two | *violated*: `NoPanic` |

Two subscribers show the order between them and hold-ups of one by the other; two messages are as many
as a subscriber has on its way. `ImplementsDelivery` is proved for any number of each. The fairness on readers is
needed: `process` has no timeout, so one that stops holds up everybody.

### HidService, DeviceFeed (`internal/hidsvc/hid_service.go`, `linux/linux_backend.go`)

Four goroutines: the backend's (`bpc`: Start with its reading of the uhid section, its callback, the first poll; then a poll per
tick; a back-off after a failure), the watcher's (`wleft` callbacks still to call, one more for each retry), the worker
of the backend bus (`held`, a message without a subscriber is lost: `missed`), and the service's
(`disc`, `conn`, `opened`). A refresh of a table yields the message who left and who came, and it is
published later; the path of a device is the number of its plug, so that one that returned is another.
`InitializeInput` opens the device, stores its descriptor and only then, in `OnConnected`, the table changes and the
announcement starts. `failed` are the devices that could not be initialized.

| Run | Instance | Shows |
|---|---|---|
| hid_service | two inputs, one entry of the section that is dropped, two plugs, one failure of the library | `InSync`, `UhidCurrent`, `ImplementsFeed`, `Noticed` |

Two inputs are enough for messages that hold several devices in any order; one failure makes a retry
that registers a second callback. Fairness: goroutines that can run do, and the ticker ticks; nothing is assumed of devices,
users or failures. `Noticed` excuses a message that was published before the service subscribed, and a
device that could not be initialized, for nobody tries again.

### InputNode (`internal/hidsvc/node_input.go`)

`npc` is the place of `Run`, `cur` the handler whose `cancel` and `done` it keeps; `hpc[h]` and `rpc[h]` are
the places of handler h and of the goroutine that reads its device. The channel of
announcements is closed after the context is cancelled, and then always ready: a closed channel reads as
`Connected`. The device has one key; a report that changes nothing is not sent. The node
runs several times (`MaxRuns`), as the flow restarts.

| Run | Instance | Shows |
|---|---|---|
| input_node | three changes of the table, two runs, two changes of the key | `TypeOK`, `OneHolder`, `Follows`; `Returns` |

Three changes let a device leave, return and leave again; the second run may meet what the first left
behind. Fairness: goroutines that can run do; `OnDone` is strongly fair, since `select` picks among ready cases at random
and the closed channel is always ready.

### OutputNode (`internal/hidsvc/node_output.go`, `linux/linux_backend.go`)

Like InputNode, but `Run` does not wait for the handler of a device that left. Besides it are the goroutine
that turns events into reports (`spc`, a channel of capacity one that drops what does not fit), and for each
connection the writer of reports, the reader of output reports, and the uhid goroutine with a queue of `ReadCap`. The
descriptor has a key and an LED. The ghost `lost` names what has gone wrong so far ("dropped", "unread", "set",
"overlap"), and properties say what holds but for it.

| Run | Instance | Shows |
|---|---|---|
| output_node | two changes of the table, one event, two LED changes, a queue of one | `OneCurrent`, `LedsArrive`; `HandlersEnd` |

Two changes let a second handler start while the first is not done; two LED changes fill the queue.
Fairness: goroutines that can run do; `select` takes each of its ready cases in the end (strong fairness of the two that compete with
others, `OnDone` and `HandlerDone`).

### The sequential parts: Sequential, MCSequential

These have no concurrency of their own: each is a small state machine that takes its input one item at a time, so that
TLC goes through all inputs of a bounded shape and a property compares the result with a reference definition. `Sequential`
puts eight of them side by side as *subjects*; `MCSequential` gives their instances and adds the one whose operators are recursive,
`codec`. The constant `Subjects` says which have a turn.

| Subject, module | Code | Inputs of the run | Property |
|---|---|---|---|
| keys: ReportState | `hidapi/state.go` ApplyEvent, `usage_set.go` | 2 sources, a flag, 3 keys for 2 slots, all orders | `TypeOK`; `CountsHolders`: a counter is the number of sources that hold the usage; `ReportedIffHeld`: the report shows what is held, but for what found the array full |
| codec: DescriptorCodec | `hidapi/hiddesc` decoder, commands, encoder | three families of drafts: bounds of every width and sign, lists and ranges of usages, nested collections with pushed globals | `RoundTrip`: what was decoded and is encoded again decodes to the same, if its bounds are numbers the encoder keeps |
| bits: ReportBits | `pkg/bits`, `hidapi/codec.go` | reports of 16 bits, with and without an id, cut into fields of seven sizes | `BitsKept`: what was decoded is encoded as the same bits |
| ids: ReportIds | `node_output.go` buildDescriptor | up to three devices with up to two reports, missing and garbled ones among them | `OwnIds`: one further device with one report gets a free id, the first keeps its own |
| input: InputReports | `hidapi/state.go` ApplyReport, InitReports, `event.go` | a keyboard with a flag and an array of two, a mouse with a button, a motion and a dial; the device leaves and returns | `Announced`: who follows the events knows the last reports, without doubled presses or releases |
| triggers: Triggers | `components/nodes/bind.go` usageActivation, triggerMappings | two devices, three keys, mappings of one key and of two, in any order | `TriggeredIffHeld`: mappings that share no key are triggered as long as their keys are held, and pass on what they should |
| split: Split | `components/nodes/split.go`, `hidusage/matcher.go`, `format.go` | all pairs of eight patterns, four usages; routes to a node that is not linked, which end the node (`Die`) | `OneRoute`: as long as the node runs, a usage is on at the first node that matches it and no other |
| graph: GraphBuilder | `internal/flowsvc/graph.go`, `registry.go` | flows of up to four nodes of four types, with references to actions and signals | `BuiltIffGraph`: a flow is built if and only if it is a graph whose statements name what is there, and both ends of an edge use the same bus key |
| args: Arguments | `flowapi/flowdsl`, `flowapi/arguments.go` | declarations of up to two parameters of seven types, statements of up to three arguments of all eight kinds | `ArgumentsArrive`: what is accepted gives its action what its parameters ask for, or nothing for exactly the kinds listed in `Unheeded`; what is refused is wrong |

`ReportState` does one usage per step because `GetReport` may read the fields in between; sources and keys are symmetric.
`WideSelector` is the same array with 16-bit slots, where the callback's offset in bytes is used as the number of a slot.
It stays out of MCSequential, for it does not keep its property (`WideSelector_two.cfg`).

The properties named *if* or *one* above are the part of the code's promise that holds; the full promise is a definition next to
it, and the next section says how it fails.

`TypeOK` is checked in the runs mux_stack, bind_hold, sequential and input_node; where it is not listed with a run (`Bus`, `FlowService`, `HidService`,
`OutputNode`) it says what the variables are.

## 3. What does not hold

### Findings

The three runs that end with a violation are findings of `PROJECT.json`, with the line each contradicts:

1. bind_repeat_deadlock: `Interrupt` waits, mutex held, for a repeat that only the waiting
   loop could end (action.go:172).
2. flow_dies: `Graph.Run` waits for channels that reloads replace, and returns once all it
   waited for are closed (graph.go:418).
3. bus_close: a channel is closed before it is taken out of the tables (bus.go:220).

### By hand, with a configuration

`tlc -config <name>.cfg <module>`, the module being the name up to the first underscore. They are kept beside the list
of runs for whoever changes that code.

| Configuration | Property | What it shows |
|---|---|---|
| MCActionPool_nested | `NoDoubleFinalize` holds | a locked tap-hold that holds a mod: contexts inside contexts |
| MCActionPool_v_holdmod | `ReleaseFinalizes` violated | an action that is being interrupted needs the mutex `Interrupt` holds (action.go:189), against "finalizer function that will be called when the action is finished" (action.go:39) |
| MCActionPool_v_stuck | `NothingStuck` violated | a mod released before its delay presses its key afterwards, for good (mod.go:39) |
| MCActionPool_v_cancel | `StopsWhenCancelled` violated | a bind node about to send when it is cancelled does not return (bind.go:115) |
| MCFlowService_v_early | `NoCrash` violated | a file saved during start-up calls a nil function (flow_service.go:157) |
| MCFlowService_v_partial | `OneConfiguration` violated | a rejected node leaves half of a reload in effect (flow_service.go:144), against "it will remain running with the last valid configuration" (agent.go:95) |
| MCFlowService_v_hang | `ShutsDownAnyway` violated | a node replaced while `Graph.Run` comes to wait for it leaves a channel nobody closes (graph.go:612), and `Start` does not return |
| MCFlowService_v_registry | `RegistryCurrent` violated | a replaced mux cannot register its switch again (graph.go:286) |
| WideSelector_two | `NoPanic` violated | two keys in an array of 16-bit slots write past its end (usage_set.go:296) |

### By hand, from a run's configuration

Take the configuration of the run, replace its INVARIANTS and PROPERTIES by the one named here, and make the change. All are
violated.

| Run's configuration | Change | Property | What it shows |
|---|---|---|---|
| MCMux_stack | `RouteOf <- TwoForNav`, `SPECIFICATION Spec` | `LatestSwitchWins` | a second switch to the current layer is not recorded (mux.go:178), so releasing the first ends the layer for both, against "switches the route to the specified downstream node, and when deactivated switches it back" (mux.go:28) |
| MCActionPool_release | `Settings <- UpperCase` | `NothingStuck` | a string that is cut short in an upper-case letter leaves shift pressed (mod.go:39, send_string.go) |
| | `Settings <- Uninterrupted`, `MaxContexts = 3` | `InterruptIsOptional` | `interrupt = false` is not looked at (tap_hold.go:38, declared in line 17) |
| MCFlowService_flow | `Stories <- Mixed`, `SPECIFICATION Spec` | `OneFlowAnyway` | after a replacement `Graph.Run` returns with a node still running, and the next flow starts beside it (graph.go:418) |
| MCSequential_all | `Subjects = {"codec"}` | `AlwaysRoundTrip` | bounds from 128 to 255 come back negative (encoder.go:235) |
| | `Subjects = {"ids"}` | `AlwaysOwnIds` | the second device that is renumbered gets an id that is taken (node_output.go:192) |
| | `Subjects = {"ids"}` | `NoIdIsAlone` | a report without an id stays without one next to others |
| | `Subjects = {"input"}` | `NothingLeftOn` | what was pressed when a device left is never released (node_input.go:77) |
| | `Subjects = {"triggers"}` | `AlwaysTriggeredIffHeld` | mappings that share a key depend on the order of a Go map (dsl.go:83) |
| | `Subjects = {"triggers"}` | `ReleasedDownstream` | the first key of a combination is passed on as pressed and its release is not (bind.go:191) |
| | `Subjects = {"graph"}` | `NoCycles` | a cycle no entry node reaches passes Validate (graph.go:139) |
| | `Subjects = {"args"}` | `ActionsArrive` | a null is accepted for an action (arguments.go:64) |
| | `Subjects = {"args"}` | `UsagesArrive` | `X=1` is accepted for a usage (arguments.go:72) and yields none (arguments.go:139) |
| | `Subjects = {"args"}` | `AlwaysArrive` | the same of all types: an expression, a usage or a null is accepted for `any` (arguments.go:75), and `Any` returns nil for it (arguments.go:193) |
| | `Subjects = {"split"}` | `RunsOn` | a route to a node that is not linked passes `Configure`, and the first event for it calls a nil function (flow_service.go:72) |
| | `Subjects = {"codec"}`, `{"bits"}`, `{"split"}` or `{"args"}` | `NeverPanics` | inputs that make the decoder, the scanner (bits.go:43), the matcher (format.go:56) or the arguments (arguments.go:48) panic |
| MCHidService_devices | `EarlySave = TRUE` | `UhidCurrent` | a save during the start is overwritten by the older section (linux_backend.go:132) |
| | `Uhid <- Edited` | `UhidCurrent` | an entry that is edited keeps its old settings |
| | | `ValidStart` | the flow service may configure an output node before its inputs are described, and fails |
| | `Inputs = {i1}` | `AlwaysNoticed` | what a backend publishes before the service has subscribed is lost (hid_service.go:168) |
| | `FastReplug = TRUE` | `PathCurrent` | a device that returns between two polls keeps its old path (linux_backend.go:210) |
| MCInputNode_device | | `NoStuckKey` | a handler that ends leaves the keys of its device pressed downstream |
| | | `NoStaleReport` | a reader that nobody waits for sends what it has read after the next handler has begun (node_input.go:131) |
| MCOutputNode_device | `MaxEvents = 2`, `MaxLeds = 0` | `HostCurrent` | a report that finds the channel full is dropped, and the host keeps the older state (node_output.go:241) |
| | | `OverlapArrives` | two handlers share the output state, and an LED change between them is taken for none (node_output.go:270) |
| | | `SetReportsArrive` | what the host sets is applied and never broadcast (node_output.go:105) |
| | | `NoPanic` | the channel of reports is closed under its sender, and a closed channel of events yields nil (node_output.go:225) |

## 4. What is proved

TLAPS checks these for every value of the constants, bounds included. The assumptions are the named ASSUMEs of the modules
(`MuxAssumption`, `PoolAssumption`, `FlowAssumption`, `BusAssumption`, `HidAssumption`, `InputAssumption`, `OutputAssumption`,
`ReportAssumption`), which TLC evaluates on the instances, and where a theorem says so a condition of its own.

**MuxProofs**

* `TypeCorrect`: `Spec => []TypeOK`.
* `OneRoute`: `Spec => []PressedOnOneRoute`. Not inductive: the code knows `activatedUsages` only. The
  strengthening `ToldAsRecorded` says that a route was told a usage is pressed exactly if it
  is recorded there, and that the usage is held exactly if it is recorded anywhere.
* `NoLeakedRelease`: `Spec => NoForeignRelease`, an action property, from the same invariant.
* `RouteListBacked`, `NeverLeftBehind`: `Backed` needs a witness, the switch each entry belongs to.
  It changes with each unset: `routeList` loses the first entry with the route, which may
  belong to another switch to the same route, and the two swap owners. `CurrentIsTop` (the current route is
  the top of the list) is the other half of `CurrentHeld`.
* `MuxImplementsStack`: `Spec => ImplementsStack`, if each route has at most one switch and none leads to the default route
  (`OneSwitchEach`). The invariant is that `routeList` is the list of the routes of `active`, in its order; a set is a
  push, an unset takes the entry of its switch out, wherever it is. Without the assumption it is false (`LatestSwitchWins`).

**SequentialProofs**, about eight of the sequential parts

* ReportState: `TypeCorrect`, `CountsRight`, `AlwaysPacked`, `ReportRight`. The invariant `IInv` adds to the four
  properties that the event under way activates what its source does not hold and deactivates what it
  does (`EventOK`), and that flags and array agree with the counters (`BitsCounted`, `SlotsCounted`,
  `LostCounted`). The array's part rests on two lemmas about the loops, `SetUsageCorrect` and
  `ClearUsageCorrect`: on a packed array they add and remove one usage and keep it packed.
* Split: `OneRouteAlways`, from the invariant that, as long as the node runs, each node was told exactly of the usages held that go to it (`Told`).
* Arguments: `ArgumentsArriveAlways`, for any number of parameters and arguments, if the types and the kinds of literals are those of the
  language (`KnownKinds`). What an action gets, or does not, is compared type by type (`ArgumentGot`, `DefaultGot`). In a declaration that was accepted the parameters without a default come first (`Declared`). The code stops at the first argument with an error; that there is
  a first one is `LeastIn`, from the well-foundedness of the numbers.
* ReportIds: `OwnIdsAlways`, if the reports of one device have different ids (`KnownInputs`; the code groups them by id). `Kept`: after the first device the map in use is the
  identity on its ids, so that the id found for one more report is none of them. `AssignAll` is a recursive function over the reports; what it yields is
  followed with a least counterexample instead of an induction (`HasLeast`).
* ReportBits: `BitsKeptAlways`, for reports of whole bytes (`KnownReports`) and fields of any sizes. The invariant `Scanned` says that what has been read, encoded, has the size of what has been
  read (`Sized`) and *carries* the bits of the report (`Carries`): as many of them as were read, and in what is missing of its last byte nothing but the bits that come next, which the next
  field brings as well. `ConcatCarries` is the step: two fields whose bytes overlap are joined with an *or*.
* Triggers: `TriggeredIffHeldAlways`, for finitely many devices and any mappings of finitely many keys, at least one each (`KnownMappings`). The invariant
  `Watched` holds of separate mappings: the counters of each are the numbers of devices that hold its keys, which are more than none, it is triggered if all of them
  are held, and what was passed on follows from that (`Watching`). `AfterFirst` says what the first n mappings have made of an event and left of it; that separate mappings
  do not touch what the ones after them look at makes each look (`CheckIs`) and all of them (`TriggerIs`, again with a least counterexample) yield it.
* GraphBuilder: `BuiltIffGraphAlways`, for files of any nodes, links and statements, if a type says of its links *none*, *one* or *many* and a statement names an action or a signal
  (`KnownFlows`). `ValidIs` is the heart: `Validate` accepts the nodes of a graph and no others. Its walk for cycles is a recursive function of the nodes visited; that it ends, and finds
  the cycles that can be reached (`HasCycleIs`), is shown of a set with the fewest nodes not visited. The invariant `Building` says what a graph that got past a phase
  is, and that one that did not is no graph.
* InputReports: `AnnouncedAlways`, for any number of reports of any items, if reports hold usages of their items' ranges and no usage is that of two items (`KnownItems`).
  The invariant `Following` says that nothing in the last reports moves (`Still`) and that those who follow the events know them (`Informed`). `EventIs`: an event is what each item has
  gained and lost, and its motion; `ApplyIs`: to those who are informed all of it is new, and they are informed after it. `Recursion` and `Ascent` are about functions defined by
  recursion on the numbers: they are there, and what each step keeps holds of all values.

**ActionPoolProofs**

* `TypeCorrect`: `Spec => []TypeOK`. The invariant `Types` follows the places of the goroutines: what each has in its variables at each of them.
* `NoDoubleFinalizeAlways`. That nobody runs a finalizer twice is not inductive; the invariant `OneHolder` is
  that each context which is not finalized is kept by at most one of: a key's mapping, a lock, the variable of a goroutine, the
  `onFinish` list of a context that is itself not finalized. Steps do one of four things to the holders, a lemma each: all keep or drop (`Keeping`), one
  passes on what it has (`Passing`), one gets a new context (`Creating`), one finalizes what it had (`Finalizing`).
* `TypedAndReleasedAlways`: when all keys are up and all goroutines have returned, nothing is left pressed. The invariant `Releases` says that every
  usage that downstream takes for pressed is *owed*: by a key that is down or whose release is on its way (`OwedByKey`), by the loop that is about to send (`OwedByLoop`) or by
  a context whose goroutine has still to release it (`OwedByCtx`). The press of a key that is in the queue has its release
  behind it (`KeysAlternate`), a goroutine has the finalizer of what it presses (`Typist`), and the loop sends an event before it takes the next (`LoopEvent`).
* `InterruptSettlesAlways`, of nodes in which actions are around toggles and no other key presses what a tap-hold action holds or a string types
  (`SeparateSettings`: `Separate` of each setting, which MCActionPool assumes of its run `bind_hold`). Without it the property is not true: a second key could release what the first
  holds, and a capital letter, a mod inside a string, leaves its shift pressed. The invariant `Settling` has `Alternating` (a mapping has no finalizer when its key's press is taken, for a release comes
  between two presses), `Keeper` (a context that is not finalized is kept by its key's mapping or lock; with usages of its own, a key has one such context at a time, `KeptBy`),
  `Waited` (who has been told to settle has, or `Interrupt` waits for it), `HoldDown` (a tap-hold action taps only once it is finalized, and before that nobody sends a release of what it holds)
  and `CharsOwed` (a character that is pressed is still to be released by a goroutine of that string, which is *detached* if it is not that of the held key). `GoroutineMoves`
  reduces the steps of all goroutines to five kinds, so that each part of the invariant is proved once for each kind.

**FlowServiceProofs**

* `OneInstanceAlways`. The invariant `InstanceInv` has `Shape` (types), `Places` (a graph that Start or the watcher is about to run
  has started no node, and the two never hold the same one), `Numbered` (channels are numbered in the order they are made, and a live one is the newest of its
  runner), `StartedInOrder` (a node Run has not come to has no channel) and `Replacing` (the node the watcher replaces was started, and is gone before its
  successor comes).
* `OneFlowAlways`: a new flow does not start before the nodes of the old one are gone. `Flows` says, at each place of Start and the
  watcher, which graph runs and which fields of the service name it. A node that runs is one of that graph, and `Run` has still to wait for it (`Awaited`);
  this needs that no node is replaced, for what is built of a tree is the only content with that tree (`Unreplaced`).
* `LastValidTreeAlways`: the tree of the graph that runs is that of the last valid file by `Flows`; that it still runs is `ToldToEnd`, a graph of which a node does not fail by itself
  ends only when it is told to.
* `ConfigsBackedAlways`: `Backed` says that `configs` of a graph is what its nodes were configured with, but for the node the watcher is about to configure or to replace.

**BusProofs**: `BusImplementsDelivery`: `Spec => ImplementsDelivery`. The invariant `BusInv` has `AtWork` (the message of a busy worker is the last of
the log: there is one worker), `Hands` (only a forwarder that ranges holds a message, and none before Subscribe has returned) and `Entered` (a subscription enters the
tables key by key, and what is on its way to one that is still entering is of a key it has entered, so that no message is added twice). `QueueIs` says what the queue of
`Delivery` is in terms of the forwarder's hand and the worker's; then every action is a step of `Delivery` or a stutter: `Accept` publishes, the two ways to
enter a table listen, `Forward` delivers, closing, stopping and abandoning lose from the end.

**HidServiceProofs**

* `ServiceImplementsFeed`: `Spec => ImplementsFeed`, from `OneAtATime` (a device is taken up when all that left are handled and nothing is announced).
* `FaithfulAlways`: the promise of `DeviceFeed` itself, of the detailed service; `DescribedAlways`: a connected input has its descriptor in the database.
* `InSyncAlways`, if the file is not saved while the backend starts (`EarlySave = FALSE`): the chain of messages (the worker's, the backend's or the watcher's)
  applied to the service's table gives the backend's. Only one of backend and watcher publishes at a time about one table (`OneWriter`); with an early save both
  write the uhid table and the order of their messages is open.
* `UhidCurrentAlways`, under the same condition and if no entry is edited in place (`NeverEdited`): `UhidInv` says that before its first poll the
  backend has not met a save and that from then on its callback is registered, so that devices which are not those of the file have an event or a callback to come; a refresh makes
  them what was read (`RefreshedIsRead`).

**InputNodeProofs**: `TypeCorrect`; `OneHolderAlways` from `HolderInv` (a handler that has the device is the one Run keeps, and Run keeps one only where it
can wait for it); `FollowsAlways` from `FollowInv`, which adds that the newest announcement that has not arrived says what the table says (`NewestIsTrue`), that
the subscription lives as long as the context, and what Run knows while it waits (`Knows`).

**OutputNodeProofs**: `OneCurrentAlways`, from `CancelledInv` (a handler at work that Run would not cancel has been cancelled). `LedsArriveAlways`, from `LedInv`: a handler
opens its device once (`Opened`), one reader is there at a time (`OneReader`), and what the host set last is in its queue, or the node knows it and tells upstream
(`LedOnItsWay`); the latter two as long as nothing is lost.

Only model-checked: liveness (`SignalReturns`, `ReleaseFinalizes`, `TakesEffect`, `ShutsDown`, `Delivered`, `Noticed`, `Returns`, `HandlersEnd`), which rests on
fairness and ENABLED and is out of the prover's reach; `InterruptSettles` of nodes with asynchronous actions inside others, which `bind_hold` does not have; and of the sequential
parts `RoundTrip`, whose operators follow the nesting of collections by recursion.

## 5. Not modelled

* Data and I/O: the generated usage pages (a run has a few entries), the program that generates them, the grammar of the flow language and the reading of YAML (libraries),
  the command line, system calls, udev, the acquisition of interfaces, formatting and logging.
* The USB gadget output: it imports a package that is not in the repository.
* What a name or a number in an argument stands for: usages in arguments have names that are known, numbers the range of their readers.
* Widths of values: deltas and absolute values are numbers; `usage_values.go` cuts them to their field.
* The input node's goroutine that writes output and feature reports to the device, which has no state that others see; the pause
  between activations in `ApplyEvent`; `publishEvent` and `RegisterWriteable`, which nothing uses.
* Data races are interleavings of reads and writes of whole variables. Maps that are written while they are ranged over, and collisions of `treeHash`, are left out.
* What a lost event does to the keys downstream: `Bus` has the loss (`GiveUp`), and Mux and ActionPool each take events as they
  come, releases without a press included, but the three are not composed: the product of their states is beyond TLC.

## 6. What could follow

1. `InterruptSettles` of nodes with asynchronous actions inside others: which of them keep it, and the proof.
2. Triggers inside ActionPool: combinations whose actions are asynchronous.
3. Bind, Bus and Mux composed on one key, with events that are given up.
4. Values: a module over integers modulo 2^w for fields, deltas and their clamping.
