----------------------------- MODULE ActionPool -----------------------------
(***************************************************************************)
(* A bind node and its asynchronous actions (components/nodes/bind.go,     *)
(* flowapi/action.go, components/actions).  Three kinds of goroutine run:  *)
(* the loop of Bind.Run, which handles one input event at a time; the      *)
(* broadcaster behind the unbuffered channel sendCh; and one goroutine per *)
(* asynchronous action context.  They share the pool's mutex, held only    *)
(* while Interrupt waits, and each context's channels.                     *)
(*                                                                         *)
(* An action is a record: [kind |-> "toggle", usage |-> u],                *)
(*   [kind |-> "mod", usage |-> u, inner |-> a],                           *)
(*   [kind |-> "tap", inner |-> a],   [kind |-> "lock", inner |-> a],      *)
(*   [kind |-> "repeat", inner |-> a],                                     *)
(*   [kind |-> "tapHold", tap |-> a, hold |-> a, interrupt |-> BOOLEAN],   *)
(*   [kind |-> "chain", actions |-> <<a, ...>>].                           *)
(* Time is abstracted: a timer may fire at any moment after it was set.    *)
(***************************************************************************)
EXTENDS Naturals, FiniteSets, Sequences

CONSTANTS Keys,          \* the keys of input devices
          UsageOf,       \* the usage an unbound key passes on
          MaxContexts,   \* bound: action contexts alive at a time
          Settings       \* the nodes to look at, see below

VARIABLE setting         \* what the node was created with

\* A setting: the keys of the device, the node's map from some of them to actions,
\* and two bounds, of the presses of each key and of the input events waiting.
ActionOf == setting.map
Bound == DOMAIN ActionOf

Ctxs == 1..MaxContexts
NoCtx == 0

IsAsync(a) == a.kind \in {"mod", "tap", "tapHold", "repeat", "chain"}

\* The actions nested in an action that its goroutine (or lock) invokes.
Parts(a) == CASE a.kind \in {"mod", "tap", "lock", "repeat"} -> {a.inner}
              [] a.kind = "tapHold" -> {a.tap, a.hold}
              [] a.kind = "chain"   -> {a.actions[i] : i \in DOMAIN a.actions}
              [] OTHER              -> {}

\* What a lock is around, or the action itself.
Outermost(a) == IF a.kind = "lock" THEN a.inner ELSE a

\* An asynchronous action nested in another one has only toggles below it: the
\* chains of finalizers are then at most two contexts long (see FinalizedBy).  An
\* empty string is no action (send_string.go:21).
ASSUME PoolAssumption ==
  /\ MaxContexts \in Nat \ {0}
  /\ \A s \in Settings :
       /\ DOMAIN s.map \subseteq s.keys /\ s.keys \subseteq Keys
       /\ s.presses \in Nat /\ s.queue \in Nat
       /\ \A k \in DOMAIN s.map : LET a == Outermost(s.map[k]) IN
            /\ \A p \in Parts(a) : \A q \in Parts(p) : q.kind = "toggle"
            /\ \A p \in {a} \cup Parts(a) :
                 /\ p.kind # "lock" /\ (p.kind = "repeat" => p.inner.kind = "toggle")
                 /\ p.kind = "chain" => p.actions \in Seq(Parts(p)) \ {<<>>}

VARIABLES
  down0, inq, presses,   \* the device: keys held, events on their way, presses so far
  mainPc,                \* where Bind.Run is
  mainEv,                \* the event it is handling
  own,                   \* the context it created for that event
  waiting,               \* the contexts Interrupt waits for
  keyFin,                \* bindItem.finalizer of each bound key
  lockFin,               \* NewActionLockHandler's deactivate
  pc, next,              \* where each context's goroutine is, and goes after a send
  act, step,             \* its action, and the index in a chain
  buf,                   \* the event it is sending on hidChan
  fin,                   \* its local variable fin
  onFinish,              \* the finalizer it registered with OnFinish
  interrupt, finished,   \* its channels: closed?
  mode, bcast,           \* the node's ctx; is the broadcaster running?
  down,                  \* the usages the downstream node believes are pressed
  panic                  \* a closed channel was closed again

deviceVars == <<down0, inq, presses>>
mainVars   == <<mainPc, mainEv, own, waiting, keyFin, lockFin>>
ctxVars    == <<pc, next, act, step, buf, fin, onFinish, interrupt, finished>>
vars == <<setting, deviceVars, mainVars, ctxVars, mode, bcast, down, panic>>

Nothing == [press |-> {}, release |-> {}]

\* A finalizer deactivates usages and finalizes a context.
NoFin == [off |-> {}, ctx |-> NoCtx]

Idle == [kind |-> "none"]

Init ==
  /\ setting \in Settings
  /\ down0 = {} /\ inq = <<>> /\ presses = [k \in Keys |-> 0]
  /\ mainPc = "loop" /\ mainEv = Nothing /\ own = NoCtx /\ waiting = {}
  /\ keyFin = [k \in Bound |-> NoFin] /\ lockFin = [k \in Bound |-> NoFin]
  /\ pc = [c \in Ctxs |-> "end"] /\ next = [c \in Ctxs |-> "end"]
  /\ act = [c \in Ctxs |-> Idle] /\ step = [c \in Ctxs |-> 1]
  /\ buf = [c \in Ctxs |-> Nothing]
  /\ fin = [c \in Ctxs |-> NoFin] /\ onFinish = [c \in Ctxs |-> NoFin]
  /\ interrupt = [c \in Ctxs |-> FALSE] /\ finished = [c \in Ctxs |-> TRUE]
  /\ mode = "running" /\ bcast = TRUE /\ down = {} /\ panic = FALSE

-----------------------------------------------------------------------------
(* The pool.  A context is in activeContexts until its finalizer runs, which *)
(* also closes `finished`, so activeContexts is {c : ~finished[c]}.          *)

Active == {c \in Ctxs : ~finished[c]}
MuFree == mainPc # "interrupting"

Put(f, c, v) == [x \in Ctxs |-> IF x = c THEN v ELSE f[x]]

\* Usages an action's handler activates in the event of its caller.
Pressed(a) == CASE a.kind \in {"toggle", "mod"} -> {a.usage}
                [] a.kind = "repeat"            -> {a.inner.usage}
                [] OTHER -> {}

\* The finalizer a handler returns, c being the context it created if any.
FinOf(a, c) == IF a.kind = "toggle" THEN [off |-> {a.usage}, ctx |-> NoCtx]
                                    ELSE [off |-> {}, ctx |-> c]

\* The slot for the context that runAsync makes for a: one that is done and
\* finalized, hence no longer referred to.
Unused(c) == pc[c] = "end" /\ finished[c]

Slot(a) ==
  IF IsAsync(a) THEN {c \in Ctxs : MuFree /\ Unused(c) /\ \A d \in Ctxs : Unused(d) => c <= d}
                ELSE {NoCtx}

\* runAsync on slot d; the other variables of the context are the caller's to set.
NewContext(d, a) ==
  /\ act' = Put(act, d, a)
  /\ step' = Put(step, d, 1)
  /\ onFinish' = Put(onFinish, d, NoFin)
  /\ interrupt' = Put(interrupt, d, FALSE)

FinAtStart(a) == IF a.kind = "repeat" THEN FinOf(a.inner, NoCtx) ELSE NoFin

\* The contexts finalized, and the usages released, by running finalizer f.
FinalizedBy(f) ==
  IF f.ctx = NoCtx THEN {}
  ELSE {f.ctx} \cup ({onFinish[f.ctx].ctx} \ {NoCtx})
ReleasedBy(f) == f.off \cup UNION {onFinish[c].off : c \in FinalizedBy(f)}

\* The finalizer of runAsync takes the mutex.
MayRun(f) == f.ctx # NoCtx => MuFree

RunFinalizer(f) ==
  /\ MayRun(f)
  /\ finished' = [c \in Ctxs |-> finished[c] \/ c \in FinalizedBy(f)]
  /\ panic' = (panic \/ \E c \in FinalizedBy(f) : finished[c])

-----------------------------------------------------------------------------
(* The device upstream: each key alternates between down and up.            *)

Feed(k, press) ==
  /\ Len(inq) < setting.queue
  /\ inq' = Append(inq, [key |-> k, press |-> press])
  /\ UNCHANGED <<mainVars, ctxVars, mode, bcast, down, panic>>

KeyDown(k) ==
  /\ k \in setting.keys \ down0 /\ presses[k] < setting.presses
  /\ down0' = down0 \cup {k}
  /\ presses' = [presses EXCEPT ![k] = @ + 1]
  /\ Feed(k, TRUE)

KeyUp(k) ==
  /\ k \in down0
  /\ down0' = down0 \ {k}
  /\ UNCHANGED presses
  /\ Feed(k, FALSE)

-----------------------------------------------------------------------------
(* Bind.Run: the loop over input events.                                    *)

Take(k, press) ==
  /\ mainPc = "loop"
  /\ inq # <<>> /\ Head(inq) = [key |-> k, press |-> press]
  /\ inq' = Tail(inq)
  /\ UNCHANGED <<down0, presses, waiting, mode, bcast, down>>

\* What the loop does with the event left by triggerMappings: shouldInterrupt
\* holds of an event that activates something, an empty event is not sent.
Proceed(ev) ==
  /\ mainEv' = ev
  /\ mainPc' = IF ev.press # {} THEN "interrupt"
               ELSE IF ev.release # {} THEN "send" ELSE "loop"

PassOn(k) ==
  /\ k \notin Bound
  /\ \/ Take(k, TRUE) /\ Proceed([Nothing EXCEPT !.press = {UsageOf[k]}])
     \/ Take(k, FALSE) /\ Proceed([Nothing EXCEPT !.release = {UsageOf[k]}])
  /\ own' = NoCtx
  /\ UNCHANGED <<keyFin, lockFin, ctxVars, panic>>

\* The handler of action a is called for the event of a bound key.
CallHandler(a, d) ==
  /\ NewContext(d, a)
  /\ pc' = Put(pc, d, "start")
  /\ fin' = Put(fin, d, FinAtStart(a))
  /\ finished' = Put(finished, d, FALSE)
  /\ own' = d
  /\ Proceed([press |-> Pressed(a), release |-> {}])
  /\ UNCHANGED <<next, buf, panic>>

Trigger(k) ==
  LET a == ActionOf[k] IN
  /\ Take(k, TRUE)
  /\ a.kind # "lock"
  /\ \E d \in Slot(a) : /\ CallHandler(a, d)
                        /\ keyFin' = [keyFin EXCEPT ![k] = FinOf(a, d)]
  /\ UNCHANGED lockFin

\* lock: the first press activates the inner action and keeps its finalizer ...
Lock(k) ==
  LET a == ActionOf[k].inner IN
  /\ Take(k, TRUE)
  /\ ActionOf[k].kind = "lock" /\ lockFin[k] = NoFin
  /\ \E d \in Slot(a) : /\ CallHandler(a, d)
                        /\ lockFin' = [lockFin EXCEPT ![k] = FinOf(a, d)]
  /\ UNCHANGED keyFin

\* Mutant: deactivate keeps the finalizer it ran.
BugUnlocked(k) == lockFin

Unlocked(k) == [lockFin EXCEPT ![k] = NoFin]

\* ... and the next press runs it.
Unlock(k) ==
  /\ Take(k, TRUE)
  /\ ActionOf[k].kind = "lock" /\ lockFin[k] # NoFin
  /\ RunFinalizer(lockFin[k])
  /\ Proceed([press |-> {}, release |-> ReleasedBy(lockFin[k])])
  /\ lockFin' = Unlocked(k)
  /\ own' = NoCtx
  /\ UNCHANGED <<keyFin, pc, next, act, step, buf, fin, onFinish, interrupt>>

Untrigger(k) ==
  /\ Take(k, FALSE)
  /\ RunFinalizer(keyFin[k])
  /\ Proceed([press |-> {}, release |-> ReleasedBy(keyFin[k])])
  /\ keyFin' = [keyFin EXCEPT ![k] = NoFin]
  /\ own' = NoCtx
  /\ UNCHANGED <<lockFin, pc, next, act, step, buf, fin, onFinish, interrupt>>

\* Mutant: the test of the parent is the wrong way round.
BugTargets == {c \in Active : c = own /\ ~interrupt[c]}

Targets == {c \in Active \ {own} : ~interrupt[c]}

\* Mutant: waits for `finished`, which only this loop closes, instead of `done`.
BugSettled == \A c \in waiting : finished[c]

Settled == \A c \in waiting : pc[c] = "end"

\* Interrupt takes the mutex, closes the channel of every context that is not
\* the event's own and was not interrupted before, and then waits for these.
BeginInterrupt ==
  /\ mainPc = "interrupt"
  /\ waiting' = Targets
  /\ interrupt' = [c \in Ctxs |-> interrupt[c] \/ c \in waiting']
  /\ mainPc' = "interrupting"
  /\ UNCHANGED <<deviceVars, mainEv, own, keyFin, lockFin, mode, bcast, down, panic,
                 pc, next, act, step, buf, fin, onFinish, finished>>

EndInterrupt ==
  /\ mainPc = "interrupting"
  /\ Settled \/ mode = "cancelled"
  /\ waiting' = {}
  /\ mainPc' = "send"
  /\ UNCHANGED <<deviceVars, mainEv, own, keyFin, lockFin, ctxVars, mode, bcast,
                 down, panic>>

Published(ev) == (down \ ev.release) \cup ev.press

\* sendCh <- event: a rendezvous with the broadcaster, without a ctx case.
MainSend ==
  /\ mainPc = "send"
  /\ bcast
  /\ down' = Published(mainEv)
  /\ mainEv' = Nothing
  /\ own' = NoCtx
  /\ mainPc' = "loop"
  /\ UNCHANGED <<deviceVars, waiting, keyFin, lockFin, ctxVars, mode, bcast, panic>>

MainExit ==
  /\ mainPc = "loop" /\ mode = "cancelled"
  /\ mainPc' = "exited"
  /\ UNCHANGED <<deviceVars, mainEv, own, waiting, keyFin, lockFin, ctxVars, mode,
                 bcast, down, panic>>

\* The node's ctx is cancelled (the graph is restarted or the agent stops).
Cancel ==
  /\ mode = "running"
  /\ mode' = "cancelled"
  /\ UNCHANGED <<deviceVars, mainVars, ctxVars, bcast, down, panic>>

BroadcasterExit ==
  /\ bcast /\ mode = "cancelled"
  /\ bcast' = FALSE
  /\ UNCHANGED <<deviceVars, mainVars, ctxVars, mode, down, panic>>

-----------------------------------------------------------------------------
(* The goroutines of the action contexts.                                   *)

At(c, kind, where) == act[c].kind = kind /\ pc[c] = where

\* Do: send the event if it is not empty, then go on at nxt.
SendThen(c, ev, nxt) ==
  /\ buf' = Put(buf, c, ev)
  /\ next' = Put(next, c, nxt)

WhereAfter(ev, nxt) == IF ev = Nothing THEN nxt ELSE "sending"

\* fin := async.Action(a)
Invoke(c, a, nxt) ==
  LET ev == [press |-> Pressed(a), release |-> {}] IN
  \E d \in Slot(a) :
    /\ NewContext(d, a)
    /\ finished' = Put(finished, d, FALSE)
    /\ fin' = Put(Put(fin, d, FinAtStart(a)), c, FinOf(a, d))
    /\ pc' = Put(Put(pc, d, "start"), c, WhereAfter(ev, nxt))
    /\ SendThen(c, ev, nxt)
    /\ UNCHANGED <<deviceVars, mainVars, mode, bcast, down, panic>>

\* async.Finish(fin)
Finish(c, nxt) ==
  LET ev == [press |-> {}, release |-> ReleasedBy(fin[c])] IN
  /\ RunFinalizer(fin[c])
  /\ fin' = Put(fin, c, NoFin)
  /\ pc' = Put(pc, c, WhereAfter(ev, nxt))
  /\ SendThen(c, ev, nxt)
  /\ UNCHANGED <<deviceVars, mainVars, mode, bcast, down, act, step, onFinish, interrupt>>

Goto(c, nxt) ==
  /\ pc' = Put(pc, c, nxt)
  /\ UNCHANGED <<deviceVars, mainVars, mode, bcast, down, panic, next, act, buf, fin,
                 onFinish, interrupt, finished>>

\* hidChan <- event
Emit(c) ==
  /\ pc[c] = "sending" /\ bcast
  /\ down' = Published(buf[c])
  /\ buf' = Put(buf, c, Nothing)
  /\ pc' = Put(pc, c, next[c])
  /\ UNCHANGED <<deviceVars, mainVars, mode, bcast, panic, next, act, step, fin,
                 onFinish, interrupt, finished>>

\* async.OnFinish(...): appended without the mutex, so a finalizer that already
\* ran does not see it.
Register(c) ==
  /\ pc[c] \in {"register", "registerLinger"}
  /\ onFinish' = Put(onFinish, c,
       [off |-> fin[c].off \cup (IF act[c].kind = "mod" THEN {act[c].usage} ELSE {}),
        ctx |-> fin[c].ctx])
  /\ fin' = Put(fin, c, NoFin)
  /\ pc' = Put(pc, c, IF pc[c] = "register" THEN "end" ELSE "linger")
  /\ UNCHANGED <<deviceVars, mainVars, mode, bcast, down, panic, next, act, step, buf,
                 interrupt, finished>>

Mod(c) == At(c, "mod", "start") /\ Invoke(c, act[c].inner, "register")

Tap(c) ==
  \/ At(c, "tap", "start") /\ Invoke(c, act[c].inner, "held")
  \/ At(c, "tap", "held") /\ Finish(c, "end")

TapHold(c) ==
  \/ At(c, "tapHold", "start") /\ interrupt[c] /\ Invoke(c, act[c].hold, "registerLinger")
  \/ At(c, "tapHold", "linger") /\ Goto(c, "end") /\ UNCHANGED step
  \/ At(c, "tapHold", "start") /\ Invoke(c, act[c].hold, "register")   \* After(delay)
  \/ At(c, "tapHold", "start") /\ finished[c] /\ Invoke(c, act[c].tap, "held")
  \/ At(c, "tapHold", "held") /\ Finish(c, "end")

\* Mutant: the loop over the characters runs once too often.
BugMoreCharacters(c) == step[c] <= Len(act[c].actions)

MoreCharacters(c) == step[c] < Len(act[c].actions)

\* Mutant: an interrupted string returns without releasing its character.
BugCutShort(c) == Goto(c, "end") /\ UNCHANGED step

CutShort(c) == Finish(c, "end")

Chain(c) ==
  \/ At(c, "chain", "start") /\ Invoke(c, act[c].actions[step[c]], "gapDown")
  \/ At(c, "chain", "gapDown") /\ Finish(c, "gapUp")
  \/ At(c, "chain", "gapDown") /\ interrupt[c] /\ CutShort(c)
  \/ /\ At(c, "chain", "gapUp") /\ MoreCharacters(c)
     /\ Goto(c, "start") /\ step' = Put(step, c, step[c] + 1)
  \/ /\ At(c, "chain", "gapUp") /\ (interrupt[c] \/ ~MoreCharacters(c))
     /\ Goto(c, "end") /\ UNCHANGED step

Repeat(c) ==
  \/ At(c, "repeat", "start") /\ Finish(c, "up")
  \/ At(c, "repeat", "start") /\ finished[c] /\ Finish(c, "end")
  \/ At(c, "repeat", "up") /\ Invoke(c, act[c].inner, "down")
  \/ At(c, "repeat", "up") /\ finished[c] /\ Goto(c, "end") /\ UNCHANGED step
  \/ At(c, "repeat", "down") /\ Finish(c, "up")
  \/ At(c, "repeat", "down") /\ finished[c] /\ Finish(c, "end")

Goroutine(c) ==
  Emit(c) \/ Register(c) \/ Mod(c) \/ Tap(c) \/ TapHold(c) \/ Chain(c) \/ Repeat(c)

-----------------------------------------------------------------------------
Device == \E k \in Keys : KeyDown(k) \/ KeyUp(k)

Main ==
  \/ \E k \in Keys : PassOn(k)
  \/ \E k \in Bound : Trigger(k) \/ Lock(k) \/ Unlock(k) \/ Untrigger(k)
  \/ BeginInterrupt \/ EndInterrupt \/ MainSend \/ MainExit

Next ==
  /\ \/ Device \/ Main \/ Cancel \/ BroadcasterExit
     \/ \E c \in Ctxs : Goroutine(c)
  /\ UNCHANGED setting

Spec == Init /\ [][Next]_vars

\* The Go scheduler runs every goroutine that can run, and timers fire.
FairSpec ==
  /\ Spec
  /\ WF_vars(Main /\ UNCHANGED setting) /\ WF_vars(BroadcasterExit /\ UNCHANGED setting)
  /\ \A c \in Ctxs : WF_vars(Goroutine(c) /\ UNCHANGED setting)
-----------------------------------------------------------------------------
(* Properties.                                                              *)

Where == {"start", "sending", "register", "registerLinger", "linger", "held",
          "gapDown", "gapUp", "up", "down", "end"}

TypeOK ==
  /\ down0 \subseteq Keys
  /\ \A i \in DOMAIN inq : inq[i].key \in Keys /\ inq[i].press \in BOOLEAN
  /\ mainPc \in {"loop", "interrupt", "interrupting", "send", "exited"}
  /\ own \in Ctxs \cup {NoCtx} /\ waiting \subseteq Ctxs
  /\ \A k \in Bound : {keyFin[k].ctx, lockFin[k].ctx} \subseteq Ctxs \cup {NoCtx}
  /\ pc \in [Ctxs -> Where] /\ next \in [Ctxs -> Where]
  /\ \A c \in Ctxs : /\ {fin[c].ctx, onFinish[c].ctx} \subseteq Ctxs \cup {NoCtx}
                     /\ act[c].kind = "chain" => step[c] \in DOMAIN act[c].actions
  /\ interrupt \in [Ctxs -> BOOLEAN] /\ finished \in [Ctxs -> BOOLEAN]
  /\ mode \in {"running", "cancelled"} /\ bcast \in BOOLEAN /\ panic \in BOOLEAN

\* No finalizer runs twice: the second close(finished) of action.go:206 would
\* panic.  The finalizer travels: it is kept by the key's mapping, by a lock, by
\* the local variable of another action's goroutine, or on its onFinish list.
NoDoubleFinalize == ~panic

\* Usages that the action of a context may leave pressed when interrupted.
Typed(a) == UNION {Pressed(p) : p \in Parts(a)}

\* Actions whose key is up already are out of the pool's reach but may still run.
Detached == {d \in Ctxs : finished[d] /\ pc[d] # "end"}

\* When the press that interrupts others is sent, every tap-hold action whose key
\* is held has sent its hold action, and every string whose key is held has
\* released its character: the interrupting key is typed with the layer or
\* modifier active, and not in the middle of a character (the wait of
\* action.go:165-177).
InterruptSettles ==
  [][mainPc = "send" /\ mainPc' = "loop" /\ mainEv.press # {} /\ mode = "running" =>
       \A c \in Active \ {own} :
         /\ act[c].kind = "tapHold" => Pressed(act[c].hold) \subseteq down
         /\ act[c].kind = "chain" =>
              Typed(act[c]) \cap down \subseteq UNION {Typed(act[d]) : d \in Detached}]_vars

\* All usages that an action may press, and those that must be its own for the above to hold.
Usages(a) == Pressed(a) \cup Typed(a)
Reserved(a) == CASE a.kind = "tapHold" -> Pressed(a.hold)
                 [] a.kind = "chain"   -> Typed(a)
                 [] OTHER              -> {}

UsagesOfKey(s, k) ==
  IF k \in DOMAIN s.map THEN Usages(Outermost(s.map[k])) ELSE {UsageOf[k]}

\* Settings of actions around toggles, in which no other key and no tap presses what a
\* tap-hold action holds, and no other key what a string types.
Separate(s) ==
  \A k \in DOMAIN s.map : LET a == Outermost(s.map[k]) IN
    /\ \A p \in Parts(a) : p.kind = "toggle"
    /\ a.kind = "tapHold" => a.tap.usage # a.hold.usage
    /\ \A l \in Keys \ {k} : Reserved(a) \cap UsagesOfKey(s, l) = {}

AtRest ==
  /\ inq = <<>> /\ down0 = {} /\ mainPc = "loop"
  /\ \A c \in Ctxs : pc[c] = "end"
  /\ \A k \in Bound : lockFin[k] = NoFin

\* "You should return finalizer function that will be called when the action is
\* finished" (action.go:39): once every key is up, every lock is open and every
\* action's goroutine has returned, nothing is left pressed downstream.
NothingStuck == AtRest => down = {}

\* The node's actions are taps of one usage, and strings that need no shift key.
PlainTyping ==
  \A k \in Bound : /\ ActionOf[k].kind \in {"tap", "chain"}
                  /\ \A p \in Parts(ActionOf[k]) : p.kind = "toggle"

\* The same of such a node, whose actions release what they press by themselves.
TypedAndReleased == PlainTyping => NothingStuck

\* The finalizer of an asynchronous action is called after its key is released:
\* the loop that has to call it is never blocked for good (action.go:38-40).
ReleaseFinalizes ==
  \A k \in Keys : (k \in Bound \ down0 /\ keyFin[k].ctx # NoCtx)
                    ~> ((k \in Bound => keyFin[k] = NoFin) \/ mode = "cancelled")

\* "Run starts the agent and blocks until the context is cancelled"
\* (pkg/agent/agent.go:93): once it is, each node's Run returns.
StopsWhenCancelled == mode = "cancelled" ~> mainPc = "exited"

\* tapHold takes "interrupt: boolean = true" (tap_hold.go:17): an action that was
\* given false does not become a hold because another key was pressed.
InterruptIsOptional ==
  \A c \in Ctxs : pc[c] \in {"registerLinger", "linger"} => act[c].interrupt
=============================================================================
