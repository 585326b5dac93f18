-------------------------- MODULE OutputNodeProofs --------------------------
(***************************************************************************)
(* Proofs about OutputNode, whatever the number of changes of the device,  *)
(* of events and of output reports: Run forgets a handler only after it    *)
(* cancelled it, so that of the handlers nobody waits for none goes on;    *)
(* and what the host sets last, an LED, is known upstream in the end,      *)
(* unless something was lost on the way.                                   *)
(***************************************************************************)
EXTENDS OutputNode, TLAPS

\* Before its loop Run has started no handler; whoever is at work and is not the handler that
\* Run would cancel has been cancelled.
CancelledInv ==
  /\ npc = "check" => cur = 0
  /\ \A h \in Handlers : hpc[h] \in {"opening", "open"} /\ h # cur => h \in cancelled
  /\ DOMAIN hpc = Handlers

\* The node starts a handler when there is none that it would cancel.
LEMMA Starting ==
  ASSUME CancelledInv, cur = 0, StartHandler, cancelled' = cancelled, npc' = "loop"
  PROVE  CancelledInv'
<1>1. cur' = started + 1 /\ hpc' = [hpc EXCEPT ![started + 1] = "opening"]
  BY DEF StartHandler
<1>2. ASSUME NEW h \in Handlers, hpc'[h] \in {"opening", "open"}, h # cur' PROVE h \in cancelled
  <2>1. hpc'[h] = hpc[h]
    BY <1>1, <1>2 DEF CancelledInv
  <2>2. h # 0
    BY DEF Handlers
  <2> QED BY <1>2, <2>1, <2>2 DEF CancelledInv
<1> QED BY <1>1, <1>2 DEF CancelledInv

LEMMA CancelledNext == CancelledInv /\ [Next]_vars => CancelledInv'
<1> SUFFICES ASSUME CancelledInv, [Next]_vars PROVE CancelledInv'
  OBVIOUS
<1>1. ASSUME UNCHANGED <<npc, cur, cancelled, hpc>> PROVE CancelledInv'
  BY <1>1 DEF CancelledInv
<1>2. CASE \/ ServiceChange \/ ServiceAnnounce \/ Cancel \/ Unsubscribe
           \/ TakeEvent \/ TakeNil \/ SendReport \/ SendOnClosed \/ EventsDone
  BY <1>1, <1>2 DEF ServiceChange, ServiceAnnounce, Cancel, Unsubscribe, TakeEvent, TakeNil,
                    SendReport, SendOnClosed, EventsDone, runVars
<1>3. CASE CheckConnected
  <2>1. npc = "check" /\ npc' = "loop" /\ cancelled' = cancelled
    BY <1>3 DEF CheckConnected
  <2>2. StartHandler \/ UNCHANGED <<cur, hpc>>
    BY <1>3 DEF CheckConnected
  <2> QED BY <2>1, <2>2, Starting DEF CancelledInv
<1>4. CASE OnConnected
  <2>1. npc = "loop" /\ UNCHANGED <<npc, cancelled>>
    BY <1>4 DEF OnConnected
  <2>2. (cur = 0 /\ StartHandler) \/ UNCHANGED <<cur, hpc>>
    BY <1>4 DEF OnConnected
  <2> QED BY <2>1, <2>2, Starting DEF CancelledInv
<1>5. CASE OnDisconnected \/ OnDone
  <2>1. /\ npc = "loop" /\ npc' \in {"loop", "returned"} /\ hpc' = hpc /\ CancelHandler
    BY <1>5 DEF OnDisconnected, OnDone
  <2>2. \A h \in Handlers : h # 0
    BY DEF Handlers
  <2> QED BY <2>1, <2>2 DEF CancelHandler, CancelledInv
<1>6. ASSUME NEW h \in Handlers, OpenFails(h) \/ Open(h) \/ HandlerDone(h) PROVE CancelledInv'
  <2>1. /\ UNCHANGED <<npc, cur, cancelled>> /\ hpc[h] \in {"opening", "open"}
        /\ hpc' = [hpc EXCEPT ![h] = "closed"] \/ hpc' = [hpc EXCEPT ![h] = "open"]
    BY <1>6 DEF OpenFails, Open, HandlerDone, AfterDone, runVars
  <2> QED BY <2>1 DEF CancelledInv
<1>7. ASSUME NEW h \in Handlers,
             \/ WriteReport(h) \/ HostOutput(h) \/ HostSetReport(h)
             \/ ReadOutput(h) \/ BroadcastLed(h) \/ ReadCancelled(h)
      PROVE  CancelledInv'
  BY <1>1, <1>7 DEF WriteReport, HostOutput, HostSetReport, ReadOutput, BroadcastLed, ReadCancelled,
                    runVars
<1>8. CASE UNCHANGED vars
  BY <1>1, <1>8 DEF vars, runVars
<1> QED BY <1>2, <1>3, <1>4, <1>5, <1>6, <1>7, <1>8 DEF Next, Run

\* Among the handlers of a node one at most goes on: the others' contexts are cancelled
\* (node_output.go:253-280), although nobody waits for them.
THEOREM OneCurrentAlways == Spec => []OneCurrent
<1>1. Init => CancelledInv
  BY DEF Init, CancelledInv
<1>2. CancelledInv => OneCurrent
  BY DEF CancelledInv, OneCurrent, Stopped
<1> QED BY <1>1, <1>2, CancelledNext, PTL DEF Spec

-----------------------------------------------------------------------------
(* The LED, on its way from the host to the node upstream.                  *)

Newest(q) == q[Len(q)]

LEMMA TakenFromQueue ==
  ASSUME NEW q \in Seq(BOOLEAN), q # <<>>
  PROVE  /\ Tail(q) \in Seq(BOOLEAN) /\ Head(q) \in BOOLEAN
         /\ Tail(q) = <<>> => Newest(q) = Head(q)
         /\ Tail(q) # <<>> => Newest(Tail(q)) = Newest(q)
<1> DEFINE t == Tail(q)
           n == Len(q)
<1>1. t \in Seq(BOOLEAN) /\ Head(q) \in BOOLEAN /\ Head(q) = q[1]
  OBVIOUS
<1>2. n \in Nat \ {0} /\ Len(t) = n - 1 /\ \A i \in 1..Len(t) : t[i] = q[i + 1]
  OBVIOUS
<1>3. Newest(q) = q[n]
  BY DEF Newest
<1> HIDE DEF t, n
<1>4. t = <<>> => Newest(q) = Head(q)
  <2>1. t = <<>> => Len(t) = 0
    OBVIOUS
  <2>2. Len(t) = 0 => n = 1
    BY <1>2
  <2> QED BY <1>1, <1>3, <2>1, <2>2
<1>5. ASSUME t # <<>> PROVE Newest(t) = Newest(q)
  <2>1. Len(t) # 0
    BY <1>1, <1>5
  <2>2. Len(t) \in 1..Len(t) /\ Len(t) + 1 = n
    BY <1>2, <2>1
  <2> QED BY <1>2, <1>3, <2>2 DEF Newest
<1> QED BY <1>1, <1>4, <1>5 DEF t

LEMMA PutInQueue ==
  ASSUME NEW q \in Seq(BOOLEAN), NEW x \in BOOLEAN
  PROVE  Append(q, x) \in Seq(BOOLEAN) /\ Append(q, x) # <<>> /\ Newest(Append(q, x)) = x
BY DEF Newest

\* A handler opens its device once, when Run has started it, and has a reader from then on.
Opened ==
  /\ started \in Nat /\ led \in BOOLEAN /\ DOMAIN hpc = Handlers /\ DOMAIN rpc = Handlers
  /\ readCh \in [Handlers -> Seq(BOOLEAN)]
  /\ \A h \in Handlers : h > started => hpc[h] = "none"
  /\ \A h \in Handlers : rpc[h] # "none" => hpc[h] \in {"open", "closed"}

\* One reader at a time, and nothing in the queues of the others.
OneReader ==
  /\ \A h \in Handlers : hpc[h] = "open" => rpc[h] # "none"
  /\ \A h \in Handlers : rpc[h] = "none" => readCh[h] = <<>>
  /\ \A h, k \in Handlers : rpc[h] # "none" /\ rpc[k] # "none" => h = k

\* What the host set last is in the queue, or the node knows it; what the node knows is
\* being broadcast, or it is known upstream.
LedOnItsWay ==
  /\ \A h \in Handlers : readCh[h] # <<>> => Newest(readCh[h]) = led
  /\ (\A h \in Handlers : readCh[h] = <<>>) => outputState = led
  /\ \A h \in Handlers : /\ rpc[h] = "on" => outputState = TRUE
                         /\ rpc[h] = "off" => outputState = FALSE
  /\ (\A h \in Handlers : rpc[h] \in {"none", "read"}) => upLed = outputState

NothingLost == lost \cap {"unread", "set", "overlap"} = {}

\* The inductive invariant of LedsArrive.
LedInv == Opened /\ (NothingLost => OneReader /\ LedOnItsWay)

LEMMA OpenedNext == Opened /\ [Next]_vars => Opened'
<1> SUFFICES ASSUME Opened, [Next]_vars PROVE Opened'
  OBVIOUS
<1>1. ASSUME UNCHANGED <<started, hpc, rpc, readCh, led>> PROVE Opened'
  BY <1>1 DEF Opened
<1>2. CASE \/ ServiceChange \/ ServiceAnnounce \/ Cancel \/ Unsubscribe \/ OnDisconnected \/ OnDone
           \/ TakeEvent \/ TakeNil \/ SendReport \/ SendOnClosed \/ EventsDone \/ UNCHANGED vars
  BY <1>1, <1>2 DEF ServiceChange, ServiceAnnounce, Cancel, Unsubscribe, OnDisconnected, OnDone, TakeEvent, TakeNil,
                    SendReport, SendOnClosed, EventsDone, vars, runVars, outVars
<1>3. CASE CheckConnected \/ OnConnected
  <2>1. UNCHANGED <<rpc, readCh, led>> /\ (StartHandler \/ UNCHANGED <<started, hpc>>)
    BY <1>3 DEF CheckConnected, OnConnected, outVars
  <2>2. CASE StartHandler
    <3>1. started' = started + 1 /\ hpc' = [hpc EXCEPT ![started + 1] = "opening"]
      BY <2>2 DEF StartHandler
    <3>2. ASSUME NEW h \in Handlers, h > started' PROVE hpc'[h] = "none"
      <4>1. h > started /\ h # started + 1
        BY <3>1, <3>2 DEF Opened, Handlers
      <4> QED BY <3>1, <4>1 DEF Opened
    <3>3. ASSUME NEW h \in Handlers, rpc[h] # "none" PROVE hpc'[h] \in {"open", "closed"}
      <4>1. hpc[h] \in {"open", "closed"}
        BY <3>3 DEF Opened
      <4>2. h # started + 1
        BY <4>1 DEF Opened, Handlers
      <4> QED BY <3>1, <4>1, <4>2 DEF Opened
    <3> QED BY <2>1, <3>1, <3>2, <3>3 DEF Opened
  <2> QED BY <1>1, <2>1, <2>2
<1>4. ASSUME NEW h \in Handlers, OpenFails(h) \/ Open(h) \/ HandlerDone(h) PROVE Opened'
  <2>1. /\ hpc[h] \in {"opening", "open"} /\ UNCHANGED <<started, readCh, led>>
        /\ \/ hpc[h] = "opening" /\ hpc' = [hpc EXCEPT ![h] = "closed"] /\ rpc' = rpc
           \/ hpc' = [hpc EXCEPT ![h] = "open"] /\ rpc' = [rpc EXCEPT ![h] = "read"]
           \/ hpc[h] = "open" /\ hpc' = [hpc EXCEPT ![h] = "closed"] /\ rpc' = rpc
    BY <1>4 DEF OpenFails, Open, HandlerDone, AfterDone, runVars, outVars
  <2>2. ~(h > started)
    BY <2>1 DEF Opened
  <2> QED BY <2>1, <2>2 DEF Opened
<1>5. ASSUME NEW h \in Handlers, WriteReport(h) \/ BroadcastLed(h) \/ HostSetReport(h) \/ ReadCancelled(h) PROVE Opened'
  <2>1. /\ UNCHANGED <<started, hpc, readCh>> /\ (led' = led \/ led' = ~led)
        /\ \/ rpc' = rpc
           \/ rpc[h] # "none" /\ rpc' = [rpc EXCEPT ![h] = "read"]
           \/ rpc' = [rpc EXCEPT ![h] = "none"]
    BY <1>5 DEF WriteReport, BroadcastLed, HostSetReport, ReadCancelled, runVars, outVars
  <2>2. led' \in BOOLEAN
    BY <2>1 DEF Opened
  <2> QED BY <2>1, <2>2 DEF Opened
<1>6. ASSUME NEW h \in Handlers, HostOutput(h) PROVE Opened'
  <2>1. /\ UNCHANGED <<started, hpc, rpc>> /\ led' = ~led
        /\ readCh' = readCh \/ readCh' = [readCh EXCEPT ![h] = Append(@, led')]
    BY <1>6 DEF HostOutput, runVars
  <2>2. led' \in BOOLEAN
    BY <2>1 DEF Opened
  <2>3. Append(readCh[h], led') \in Seq(BOOLEAN)
    BY <2>2, PutInQueue DEF Opened
  <2>4. readCh' \in [Handlers -> Seq(BOOLEAN)]
    BY <2>1, <2>3 DEF Opened
  <2> QED BY <2>1, <2>2, <2>4 DEF Opened
<1>7. ASSUME NEW h \in Handlers, ReadOutput(h) PROVE Opened'
  <2>1. /\ UNCHANGED <<started, hpc, led>> /\ rpc[h] = "read" /\ readCh[h] # <<>>
        /\ readCh' = [readCh EXCEPT ![h] = Tail(@)]
        /\ \E p : rpc' = [rpc EXCEPT ![h] = p]
    BY <1>7 DEF ReadOutput, runVars
  <2>2. Tail(readCh[h]) \in Seq(BOOLEAN)
    BY <2>1, TakenFromQueue DEF Opened
  <2>3. readCh' \in [Handlers -> Seq(BOOLEAN)]
    BY <2>1, <2>2 DEF Opened
  <2> QED BY <2>1, <2>3 DEF Opened
<1> QED BY <1>2, <1>3, <1>4, <1>5, <1>6, <1>7 DEF Next, Run

\* A step that concerns neither the devices nor the LED.
LEMMA LedKept ==
  ASSUME OneReader, LedOnItsWay, UNCHANGED <<rpc, readCh, led, outputState, upLed>>,
         \A h \in Handlers : hpc'[h] = "open" => hpc[h] = "open"
  PROVE  OneReader' /\ LedOnItsWay'
BY DEF OneReader, LedOnItsWay

\* A handler opens its device: the only one with a reader.
LEMMA LedOpen ==
  ASSUME Opened, OneReader, LedOnItsWay, NEW h \in Handlers, Open(h), "overlap" \notin lost'
  PROVE  OneReader' /\ LedOnItsWay'
<1>1. /\ hpc[h] = "opening" /\ hpc' = [hpc EXCEPT ![h] = "open"] /\ rpc' = [rpc EXCEPT ![h] = "read"]
      /\ \A k \in Handlers \ {h} : hpc[k] # "open" /\ rpc[k] = "none"
      /\ UNCHANGED <<readCh, led, outputState, upLed>>
  BY DEF Open
<1>2. rpc[h] = "none"
  BY <1>1 DEF Opened
<1>3. /\ rpc'[h] = "read" /\ \A k \in Handlers \ {h} : rpc'[k] = "none" /\ hpc'[k] # "open"
      /\ \A k \in Handlers : readCh'[k] = <<>>
  BY <1>1, <1>2 DEF Opened, OneReader
<1>4. upLed = outputState /\ outputState = led
  BY <1>1, <1>2, <1>3 DEF LedOnItsWay
<1> QED BY <1>1, <1>3, <1>4 DEF OneReader, LedOnItsWay

\* The host sets the LED by a report that has room in the queue.
LEMMA LedSet ==
  ASSUME Opened, OneReader, LedOnItsWay, NEW h \in Handlers, HostOutput(h), "unread" \notin lost'
  PROVE  OneReader' /\ LedOnItsWay'
<1>1. /\ hpc[h] = "open" /\ readCh' = [readCh EXCEPT ![h] = Append(@, led')] /\ led' = ~led
      /\ UNCHANGED <<hpc, rpc, outputState, upLed>>
  BY DEF HostOutput
<1>2. led' \in BOOLEAN
  BY <1>1 DEF Opened
<1>3. /\ readCh'[h] # <<>> /\ Newest(readCh'[h]) = led'
      /\ \A k \in Handlers \ {h} : readCh'[k] = readCh[k]
  BY <1>1, <1>2, PutInQueue DEF Opened
<1>4. rpc[h] # "none" /\ \A k \in Handlers \ {h} : rpc[k] = "none" /\ readCh[k] = <<>>
  BY <1>1 DEF OneReader
<1>5. OneReader'
  BY <1>1, <1>3, <1>4 DEF OneReader
<1>6. /\ \A k \in Handlers : readCh'[k] # <<>> => Newest(readCh'[k]) = led'
      /\ ~\A k \in Handlers : readCh'[k] = <<>>
  BY <1>3, <1>4
<1>7. LedOnItsWay'
  BY <1>1, <1>6 DEF LedOnItsWay
<1> QED BY <1>5, <1>7

\* The reader takes a report; what it says of one that changes nothing is nothing.
LEMMA LedRead ==
  ASSUME Opened, OneReader, LedOnItsWay, NEW h \in Handlers, ReadOutput(h), "unread" \notin lost'
  PROVE  OneReader' /\ LedOnItsWay'
<1> DEFINE new == Head(readCh[h])
<1>1. /\ rpc[h] = "read" /\ readCh[h] # <<>> /\ readCh' = [readCh EXCEPT ![h] = Tail(@)]
      /\ outputState' = new /\ rpc' = [rpc EXCEPT ![h] = Saying(outputState')]
      /\ UNCHANGED <<hpc, led, upLed>>
  BY DEF ReadOutput
<1>2. /\ new \in BOOLEAN /\ (Tail(readCh[h]) = <<>> => Newest(readCh[h]) = new)
      /\ Tail(readCh[h]) # <<>> => Newest(Tail(readCh[h])) = Newest(readCh[h])
  BY <1>1, TakenFromQueue DEF Opened
<1> HIDE DEF new
<1>3. /\ readCh'[h] = Tail(readCh[h]) /\ \A k \in Handlers \ {h} : readCh'[k] = <<>> /\ rpc'[k] = "none"
      /\ \A k \in Handlers \ {h} : rpc[k] = "none"
  BY <1>1 DEF OneReader, Opened
<1>4. rpc'[h] = Saying(new) /\ rpc'[h] \in {"read", "on", "off"}
  BY <1>1 DEF Opened, Saying
<1>5. OneReader'
  BY <1>1, <1>3, <1>4 DEF OneReader
<1>6. Newest(readCh[h]) = led
  BY <1>1 DEF LedOnItsWay
<1>7. /\ \A k \in Handlers : readCh'[k] # <<>> => Newest(readCh'[k]) = led'
      /\ (\A k \in Handlers : readCh'[k] = <<>>) => outputState' = led'
  BY <1>1, <1>2, <1>3, <1>6
<1>8. upLed = outputState
  BY <1>1, <1>3 DEF LedOnItsWay
<1>9. /\ rpc'[h] = "on" => new = TRUE
      /\ rpc'[h] = "off" => new = FALSE
      /\ rpc'[h] = "read" => new = outputState
  BY <1>2, <1>4 DEF Saying
<1>10. LedOnItsWay'
  BY <1>1, <1>3, <1>4, <1>7, <1>8, <1>9 DEF LedOnItsWay
<1> QED BY <1>5, <1>10

\* The node tells the one upstream.
LEMMA LedTold ==
  ASSUME Opened, OneReader, LedOnItsWay, NEW h \in Handlers, BroadcastLed(h)
  PROVE  OneReader' /\ LedOnItsWay'
<1>1. /\ rpc[h] \in {"on", "off"} /\ upLed' = (rpc[h] = "on") /\ rpc' = [rpc EXCEPT ![h] = "read"]
      /\ UNCHANGED <<hpc, readCh, led, outputState>>
  BY DEF BroadcastLed
<1>2. rpc'[h] = "read" /\ \A k \in Handlers \ {h} : rpc'[k] = "none" /\ rpc[k] = "none"
  BY <1>1 DEF OneReader, Opened
<1>3. OneReader'
  BY <1>1, <1>2 DEF OneReader
<1>4. upLed' = outputState'
  BY <1>1 DEF LedOnItsWay
<1> QED BY <1>1, <1>2, <1>3, <1>4 DEF LedOnItsWay

\* A reader ends with nothing in its queue.
LEMMA LedReaderEnds ==
  ASSUME Opened, OneReader, LedOnItsWay, NEW h \in Handlers, ReadCancelled(h), "unread" \notin lost'
  PROVE  OneReader' /\ LedOnItsWay'
<1>1. /\ rpc[h] = "read" /\ hpc[h] = "closed" /\ readCh[h] = <<>> /\ rpc' = [rpc EXCEPT ![h] = "none"]
      /\ UNCHANGED <<hpc, readCh, led, outputState, upLed>>
  BY DEF ReadCancelled
<1>2. rpc'[h] = "none" /\ \A k \in Handlers \ {h} : rpc'[k] = rpc[k] /\ rpc[k] = "none"
  BY <1>1 DEF OneReader, Opened
<1> QED BY <1>1, <1>2 DEF OneReader, LedOnItsWay

LEMMA LedNext == LedInv /\ [Next]_vars => LedInv'
<1> SUFFICES ASSUME LedInv, [Next]_vars, NothingLost' PROVE OneReader' /\ LedOnItsWay'
  BY OpenedNext DEF LedInv
<1>1. lost \subseteq lost'
  BY DEF Next, Run, ServiceChange, ServiceAnnounce, Cancel, Unsubscribe, CheckConnected, OnConnected, OnDisconnected,
         OnDone, TakeEvent, TakeNil, SendReport, SendOnClosed, EventsDone, OpenFails, Open, WriteReport, HandlerDone,
         HostOutput, HostSetReport, ReadOutput, BroadcastLed, ReadCancelled, vars
<1>2. Opened /\ OneReader /\ LedOnItsWay /\ "unread" \notin lost' /\ "overlap" \notin lost' /\ "set" \notin lost'
  BY <1>1 DEF LedInv, NothingLost
<1>3. CASE \/ ServiceChange \/ ServiceAnnounce \/ Cancel \/ Unsubscribe \/ OnDisconnected \/ OnDone
           \/ TakeEvent \/ TakeNil \/ SendReport \/ SendOnClosed \/ EventsDone \/ UNCHANGED vars
  <2>1. UNCHANGED <<hpc, rpc, readCh, led, outputState, upLed>>
    BY <1>3 DEF ServiceChange, ServiceAnnounce, Cancel, Unsubscribe, OnDisconnected, OnDone, TakeEvent, TakeNil,
                SendReport, SendOnClosed, EventsDone, vars, outVars
  <2> QED BY <1>2, <2>1, LedKept
<1>4. CASE CheckConnected \/ OnConnected
  <2>1. /\ UNCHANGED <<rpc, readCh, led, outputState, upLed>>
        /\ hpc' = hpc \/ hpc' = [hpc EXCEPT ![started + 1] = "opening"]
    BY <1>4 DEF CheckConnected, OnConnected, StartHandler, outVars
  <2>2. \A h \in Handlers : hpc'[h] = "open" => hpc[h] = "open"
    BY <1>2, <2>1 DEF Opened
  <2> QED BY <1>2, <2>1, <2>2, LedKept
<1>5. ASSUME NEW h \in Handlers, OpenFails(h) \/ WriteReport(h) \/ HandlerDone(h) PROVE OneReader' /\ LedOnItsWay'
  <2>1. /\ UNCHANGED <<rpc, readCh, led, outputState, upLed>>
        /\ hpc' = hpc \/ hpc' = [hpc EXCEPT ![h] = "closed"]
    BY <1>5 DEF OpenFails, WriteReport, HandlerDone, AfterDone, outVars
  <2>2. \A k \in Handlers : hpc'[k] = "open" => hpc[k] = "open"
    BY <1>2, <2>1 DEF Opened
  <2> QED BY <1>2, <2>1, <2>2, LedKept
<1>6. ASSUME NEW h \in Handlers, HostSetReport(h) PROVE FALSE
  BY <1>2, <1>6 DEF HostSetReport
<1> QED
  BY <1>2, <1>3, <1>4, <1>5, <1>6, LedOpen, LedSet, LedRead, LedTold, LedReaderEnds DEF Next, Run

\* What the host sets arrives upstream (node_output.go:212-236), whatever the number of changes, and
\* of devices one after the other, unless a report was set, forgotten or came from a second open device.
THEOREM LedsArriveAlways == Spec => []LedsArrive
<1>1. Init => LedInv
  <2> SUFFICES ASSUME Init PROVE LedInv
    OBVIOUS
  <2>1. readCh \in [Handlers -> Seq(BOOLEAN)]
    BY DEF Init
  <2> QED BY <2>1 DEF Init, LedInv, Opened, OneReader, LedOnItsWay
<1>2. LedInv => LedsArrive
  BY DEF LedInv, NothingLost, OneReader, LedOnItsWay, LedsArrive, LedQuiet
<1> QED BY <1>1, <1>2, LedNext, PTL DEF Spec
=============================================================================
