--------------------------- MODULE InputNodeProofs ---------------------------
(***************************************************************************)
(* Proofs about InputNode for any number of changes, runs and reports: a   *)
(* device has one handler at a time, and the node follows the service.     *)
(***************************************************************************)
EXTENDS InputNode, TLAPS

Active(h) == hpc[h] \in {"opening", "acquired"}

\* A handler that has the device is the one whose cancel and done Run keeps.
HolderIsCurrent ==
  \A h \in Handlers : Active(h) => h = cur /\ npc \in {"loop", "wait", "leave"}

\* Run waits only for a handler it has started, and has none before it has asked.
PlaceOfRun ==
  /\ npc \in {"wait", "leave"} => cur # 0
  /\ npc = "check" => cur = 0

\* The inductive invariant of OneHolder.
HolderInv == TypeOK /\ HolderIsCurrent /\ PlaceOfRun

\* The newest announcement that has not arrived says what the table says.
NewestIsTrue ==
  /\ pending # None => (pending[2] <=> Addr \in connected)
  /\ pending = None /\ held # None => (held[2] <=> Addr \in connected)

\* As long as the context lives, so does the subscription.
Subscribed ==
  /\ closed => ctxDone
  /\ npc # "off" /\ ~ctxDone => listening

Settled == ~ctxDone /\ held = None /\ pending = None

\* With nothing on its way Run knows of its device what the table says, also while it
\* waits for the handler of a device that left.
Knows ==
  Settled => /\ npc = "loop" => (cur # 0 <=> Addr \in connected)
             /\ npc = "wait" => Addr \notin connected

\* The inductive invariant of Follows.
FollowInv == HolderInv /\ NewestIsTrue /\ Subscribed /\ Knows

-----------------------------------------------------------------------------
(* Type correctness.                                                        *)

LEMMA TypeInit == Init => TypeOK
<1> SUFFICES ASSUME Init PROVE TypeOK
  OBVIOUS
<1>1. /\ connected \subseteq {Addr} /\ pending = None /\ held = None
      /\ last \in [{Addr} -> BOOLEAN]
  BY DEF Init
<1>2. changes \in 0..MaxChanges /\ runs \in 0..MaxRuns /\ reports \in 0..MaxReports
  BY InputAssumption DEF Init
<1>3. /\ listening \in BOOLEAN /\ closed \in BOOLEAN /\ ctxDone \in BOOLEAN
      /\ npc = "off" /\ cancelled \subseteq 1..started
      /\ down \in BOOLEAN /\ lastFrom \in {0} \cup Handlers
  BY DEF Init
<1>4. started \in Nat /\ cur \in 0..started /\ told \in Int
  BY DEF Init
<1>5. /\ hpc \in [Handlers -> {"none", "opening", "acquired", "done"}]
      /\ rpc \in [Handlers -> {"none", "read", "send"}]
      /\ known \in [Handlers -> BOOLEAN]
  BY DEF Init
<1> QED BY <1>1, <1>2, <1>3, <1>4, <1>5 DEF TypeOK

LEMMA StartType ==
  ASSUME TypeOK, StartHandler
  PROVE  /\ started' \in Nat /\ cur' \in 0..started' /\ cancelled \subseteq 1..started'
         /\ hpc' \in [Handlers -> {"none", "opening", "acquired", "done"}]
<1>1. started' = started + 1 /\ cur' = started + 1 /\ started \in Nat
  BY DEF TypeOK, StartHandler
<1>2. cancelled \subseteq 1..started'
  BY <1>1 DEF TypeOK
<1>3. hpc' \in [Handlers -> {"none", "opening", "acquired", "done"}]
  BY DEF TypeOK, StartHandler
<1> QED BY <1>1, <1>2, <1>3

LEMMA CancelType == TypeOK /\ CancelCurrent => cancelled' \subseteq 1..started
BY DEF TypeOK, CancelCurrent

LEMMA TypeNext == TypeOK /\ [Next]_vars => TypeOK'
<1> SUFFICES ASSUME TypeOK, [Next]_vars PROVE TypeOK'
  OBVIOUS
<1>1. CASE ServiceChange
  <2>1. changes' \in 0..MaxChanges
    BY <1>1, InputAssumption DEF TypeOK, ServiceChange
  <2>2. connected' \subseteq {Addr} /\ pending' \in {Addr} \X BOOLEAN /\ UNCHANGED last
    BY <1>1 DEF TypeOK, ServiceChange, Feed!Change
  <2> QED
    BY <1>1, <2>1, <2>2 DEF TypeOK, ServiceChange, chanVars, runVars, handVars, keyVars
<1>2. CASE ServiceAnnounce
  <2>1. pending \in {Addr} \X BOOLEAN /\ pending' = None /\ UNCHANGED connected
    BY <1>2 DEF TypeOK, ServiceAnnounce, Feed!Announce, None, Feed!None
  <2>2. last' \in [{Addr} -> BOOLEAN]
    BY <1>2, <2>1 DEF TypeOK, ServiceAnnounce, Feed!Announce
  <2>3. held' \in {None} \cup ({Addr} \X BOOLEAN)
    BY <1>2, <2>1 DEF ServiceAnnounce
  <2> QED
    BY <1>2, <2>1, <2>2, <2>3 DEF TypeOK, ServiceAnnounce, runVars, handVars, keyVars
<1>3. CASE Key
  <2>1. reports' \in 0..MaxReports /\ down' \in BOOLEAN
    BY <1>3, InputAssumption DEF TypeOK, Key
  <2> QED BY <1>3, <2>1 DEF TypeOK, Key, feedVars, chanVars, runVars, handVars
<1>4. CASE Cancel
  BY <1>4 DEF TypeOK, Cancel, feedVars, chanVars, handVars, keyVars
<1>5. CASE Unsubscribe
  BY <1>5 DEF TypeOK, Unsubscribe, feedVars, runVars, handVars, keyVars
<1>6. CASE Subscribe
  <2>1. runs' \in 0..MaxRuns /\ cur' \in 0..started
    BY <1>6, InputAssumption DEF TypeOK, Subscribe
  <2> QED BY <1>6, <2>1 DEF TypeOK, Subscribe, feedVars, handVars, keyVars
<1>7. CASE CheckConnected
  <2>1. CASE StartHandler
    BY <1>7, <2>1, StartType DEF TypeOK, CheckConnected, feedVars, chanVars, keyVars
  <2>2. CASE UNCHANGED <<cur, started, hpc>>
    BY <1>7, <2>2 DEF TypeOK, CheckConnected, feedVars, chanVars, keyVars
  <2> QED BY <1>7, <2>1, <2>2 DEF CheckConnected
<1>8. CASE OnConnected
  <2>1. CASE StartHandler
    BY <1>8, <2>1, StartType DEF TypeOK, OnConnected, feedVars, keyVars
  <2>2. CASE UNCHANGED <<cur, started, hpc>>
    BY <1>8, <2>2 DEF TypeOK, OnConnected, feedVars, keyVars
  <2> QED BY <1>8, <2>1, <2>2 DEF OnConnected
<1>9. CASE OnDisconnected
  BY <1>9, CancelType DEF TypeOK, OnDisconnected, feedVars, handVars, keyVars
<1>10. CASE WaitDone
  <2>1. cur' \in 0..started'
    BY <1>10 DEF TypeOK, WaitDone, Forget
  <2> QED BY <1>10, <2>1 DEF TypeOK, WaitDone, feedVars, chanVars, handVars, keyVars
<1>11. CASE OnDone
  BY <1>11, CancelType DEF TypeOK, OnDone, feedVars, chanVars, handVars, keyVars
<1>12. CASE Leave
  BY <1>12 DEF TypeOK, Leave, feedVars, chanVars, handVars, keyVars
<1>13. ASSUME NEW h \in Handlers,
              HandlerFails(h) \/ HandlerAcquires(h) \/ HandlerReleases(h)
       PROVE  TypeOK'
  <2>1. CASE HandlerFails(h)
    BY <2>1 DEF TypeOK, HandlerFails, AfterFailure, feedVars, chanVars, runVars, keyVars
  <2>2. CASE HandlerAcquires(h)
    <3>1. /\ hpc' \in [Handlers -> {"none", "opening", "acquired", "done"}]
          /\ rpc' \in [Handlers -> {"none", "read", "send"}]
          /\ known' \in [Handlers -> BOOLEAN]
      BY <2>2 DEF TypeOK, HandlerAcquires
    <3>2. told' \in Int /\ lastFrom' \in {0} \cup Handlers
      BY <2>2 DEF TypeOK, HandlerAcquires
    <3> QED
      BY <2>2, <3>1, <3>2 DEF TypeOK, HandlerAcquires, feedVars, chanVars, runVars, keyVars
  <2>3. CASE HandlerReleases(h)
    BY <2>3 DEF TypeOK, HandlerReleases, feedVars, chanVars, runVars, keyVars
  <2> QED BY <1>13, <2>1, <2>2, <2>3
<1>14. ASSUME NEW h \in Handlers, ReadReport(h) \/ ReadFails(h) \/ Broadcast(h)
       PROVE  TypeOK'
  <2>1. CASE ReadReport(h)
    BY <2>1 DEF TypeOK, ReadReport, feedVars, chanVars, runVars, keyVars
  <2>2. CASE ReadFails(h)
    BY <2>2 DEF TypeOK, ReadFails, feedVars, chanVars, runVars, keyVars
  <2>3. CASE Broadcast(h)
    <3>1. told' \in Int /\ lastFrom' \in {0} \cup Handlers
      BY <2>3 DEF TypeOK, Broadcast
    <3> QED BY <2>3, <3>1 DEF TypeOK, Broadcast, feedVars, chanVars, runVars, keyVars
  <2> QED BY <1>14, <2>1, <2>2, <2>3
<1>15. CASE UNCHANGED vars
  BY <1>15 DEF TypeOK, vars, feedVars, chanVars, runVars, handVars, keyVars
<1> QED
  BY <1>1, <1>2, <1>3, <1>4, <1>5, <1>6, <1>7, <1>8, <1>9, <1>10, <1>11, <1>12, <1>13,
     <1>14, <1>15 DEF Next, Run

\* The variables keep their types, whatever the bounds are.
THEOREM TypeCorrect == Spec => []TypeOK
<1>1. Init => TypeOK
  BY TypeInit
<1>2. TypeOK /\ [Next]_vars => TypeOK'
  BY TypeNext
<1> QED BY <1>1, <1>2, PTL DEF Spec

-----------------------------------------------------------------------------
(* One handler at a time.                                                   *)

LEMMA HolderInit == Init => HolderInv
<1> SUFFICES ASSUME Init PROVE HolderInv
  OBVIOUS
<1>1. HolderIsCurrent /\ PlaceOfRun
  BY DEF Init, HolderIsCurrent, PlaceOfRun, Active
<1> QED BY <1>1, TypeInit DEF HolderInv

\* A handler that is started while nobody has the device is the only one that has it.
LEMMA StartAlone ==
  ASSUME TypeOK, StartHandler, npc' = "loop", \A h \in Handlers : ~Active(h)
  PROVE  HolderIsCurrent'
BY DEF TypeOK, StartHandler, HolderIsCurrent, Active

LEMMA HolderNext == HolderInv /\ [Next]_vars => HolderInv'
<1> SUFFICES ASSUME HolderInv, [Next]_vars PROVE HolderIsCurrent' /\ PlaceOfRun'
  BY TypeNext DEF HolderInv
<1> USE DEF HolderInv
<1>a. cur = 0 => \A h \in Handlers : ~Active(h)
  BY DEF HolderIsCurrent, Handlers
<1>1. CASE ServiceChange \/ ServiceAnnounce \/ Key
  BY <1>1 DEF ServiceChange, ServiceAnnounce, Key, HolderIsCurrent, PlaceOfRun, Active, runVars, handVars
<1>2. CASE Cancel \/ Unsubscribe
  BY <1>2 DEF Cancel, Unsubscribe, HolderIsCurrent, PlaceOfRun, Active, runVars, handVars
<1>3. CASE Subscribe
  BY <1>3 DEF Subscribe, HolderIsCurrent, PlaceOfRun, Active, handVars
<1>4. CASE CheckConnected
  <2>1. \A h \in Handlers : ~Active(h)
    BY <1>4 DEF CheckConnected, HolderIsCurrent
  <2>2. npc' = "loop" /\ PlaceOfRun'
    BY <1>4 DEF CheckConnected, PlaceOfRun
  <2>3. CASE StartHandler
    BY <2>1, <2>2, <2>3, StartAlone
  <2>4. CASE UNCHANGED <<cur, started, hpc>>
    BY <2>1, <2>2, <2>4 DEF HolderIsCurrent, Active
  <2> QED BY <1>4, <2>2, <2>3, <2>4 DEF CheckConnected
<1>5. CASE OnConnected
  <2>1. npc = "loop" /\ npc' = "loop" /\ PlaceOfRun'
    BY <1>5 DEF OnConnected, PlaceOfRun
  <2>2. CASE cur = 0 /\ StartHandler
    BY <1>a, <2>1, <2>2, StartAlone
  <2>3. CASE UNCHANGED <<cur, started, hpc>>
    BY <2>1, <2>3 DEF HolderIsCurrent, Active
  <2> QED BY <1>5, <2>1, <2>2, <2>3 DEF OnConnected
<1>6. CASE OnDisconnected
  BY <1>6 DEF OnDisconnected, HolderIsCurrent, PlaceOfRun, Active, handVars
<1>7. CASE WaitDone
  <2>1. \A h \in Handlers : ~Active(h)
    BY <1>7 DEF WaitDone, Done, HolderIsCurrent, Active
  <2> QED BY <1>7, <2>1 DEF WaitDone, HolderIsCurrent, PlaceOfRun, Active, handVars
<1>8. CASE OnDone
  <2>1. PlaceOfRun'
    BY <1>8 DEF OnDone, PlaceOfRun
  <2>2. HolderIsCurrent'
    BY <1>8, <1>a DEF OnDone, HolderIsCurrent, Active, handVars
  <2> QED BY <2>1, <2>2
<1>9. CASE Leave
  <2>1. \A h \in Handlers : ~Active(h)
    BY <1>9 DEF Leave, Done, HolderIsCurrent, Active
  <2> QED BY <1>9, <2>1 DEF Leave, HolderIsCurrent, PlaceOfRun, Active, handVars
<1>10. ASSUME NEW h \in Handlers,
              HandlerFails(h) \/ HandlerAcquires(h) \/ HandlerReleases(h)
       PROVE  HolderIsCurrent' /\ PlaceOfRun'
  <2>1. \A k \in Handlers : Active(k)' => Active(k)
    BY <1>10 DEF TypeOK, HandlerFails, HandlerAcquires, HandlerReleases, AfterFailure, Active
  <2> QED
    BY <1>10, <2>1 DEF HandlerFails, HandlerAcquires, HandlerReleases, HolderIsCurrent, PlaceOfRun, runVars
<1>11. ASSUME NEW h \in Handlers, ReadReport(h) \/ ReadFails(h) \/ Broadcast(h)
       PROVE  HolderIsCurrent' /\ PlaceOfRun'
  BY <1>11 DEF ReadReport, ReadFails, Broadcast, HolderIsCurrent, PlaceOfRun, Active, runVars
<1>12. CASE UNCHANGED vars
  BY <1>12 DEF vars, HolderIsCurrent, PlaceOfRun, Active, runVars, handVars
<1> QED
  BY <1>1, <1>2, <1>3, <1>4, <1>5, <1>6, <1>7, <1>8, <1>9, <1>10, <1>11, <1>12 DEF Next, Run

\* No two handlers have the device, over all the runs of the node.
THEOREM OneHolderAlways == Spec => []OneHolder
<1>1. Init => HolderInv
  BY HolderInit
<1>2. HolderInv /\ [Next]_vars => HolderInv'
  BY HolderNext
<1>3. HolderInv => OneHolder
  BY DEF HolderInv, HolderIsCurrent, OneHolder, Active
<1> QED BY <1>1, <1>2, <1>3, PTL DEF Spec

-----------------------------------------------------------------------------
(* The node follows the service.                                            *)

LEMMA FollowInit == Init => FollowInv
<1> SUFFICES ASSUME Init PROVE FollowInv
  OBVIOUS
<1>1. NewestIsTrue /\ Subscribed /\ Knows
  BY DEF Init, NewestIsTrue, Subscribed, Knows
<1> QED BY <1>1, HolderInit DEF FollowInv

LEMMA FollowNext == FollowInv /\ [Next]_vars => FollowInv'
<1> SUFFICES ASSUME FollowInv, [Next]_vars PROVE NewestIsTrue' /\ Subscribed' /\ Knows'
  BY HolderNext DEF FollowInv
<1> USE DEF FollowInv, HolderInv
<1>1. CASE ServiceChange
  <2>1. PICK b \in BOOLEAN : Feed!Change(Addr, b)
    BY <1>1 DEF ServiceChange
  <2>2. pending' # None /\ (pending'[2] <=> Addr \in connected')
    BY <2>1 DEF Feed!Change, None
  <2> QED
    BY <1>1, <2>2 DEF ServiceChange, NewestIsTrue, Subscribed, Knows, Settled, chanVars, runVars
<1>2. CASE ServiceAnnounce
  <2>1. pending # None /\ pending' = None /\ UNCHANGED connected
    BY <1>2 DEF ServiceAnnounce, Feed!Announce, None, Feed!None
  <2>2. held' = (IF listening THEN pending ELSE None) /\ UNCHANGED <<listening, closed, runVars>>
    BY <1>2 DEF ServiceAnnounce
  <2>3. NewestIsTrue'
    BY <2>1, <2>2 DEF NewestIsTrue
  <2> QED BY <2>1, <2>2, <2>3 DEF Subscribed, Knows, Settled, runVars
<1>3. CASE Key
  BY <1>3 DEF Key, NewestIsTrue, Subscribed, Knows, Settled, feedVars, chanVars, runVars
<1>4. CASE Cancel
  BY <1>4 DEF Cancel, NewestIsTrue, Subscribed, Knows, Settled, feedVars, chanVars
<1>5. CASE Unsubscribe
  BY <1>5 DEF Unsubscribe, NewestIsTrue, Subscribed, Knows, Settled, feedVars, runVars
<1>6. CASE Subscribe
  BY <1>6 DEF Subscribe, NewestIsTrue, Subscribed, Knows, Settled, feedVars
<1>7. CASE CheckConnected
  <2>1. cur' # 0 <=> Addr \in connected
    BY <1>7 DEF CheckConnected, StartHandler, PlaceOfRun, TypeOK
  <2> QED
    BY <1>7, <2>1 DEF CheckConnected, NewestIsTrue, Subscribed, Knows, Settled, feedVars, chanVars
<1>8. CASE OnConnected
  <2>1. cur' # 0 /\ npc' = "loop"
    BY <1>8 DEF OnConnected, StartHandler, TypeOK
  <2>2. ~ctxDone /\ pending = None => Addr \in connected
    BY <1>8 DEF OnConnected, NewestIsTrue, Subscribed
  <2> QED
    BY <1>8, <2>1, <2>2 DEF OnConnected, NewestIsTrue, Subscribed, Knows, Settled, feedVars
<1>9. CASE OnDisconnected
  <2>1. pending = None => Addr \notin connected
    BY <1>9 DEF OnDisconnected, NewestIsTrue
  <2> QED
    BY <1>9, <2>1 DEF OnDisconnected, NewestIsTrue, Subscribed, Knows, Settled, feedVars
<1>10. CASE WaitDone
  BY <1>10 DEF WaitDone, Forget, NewestIsTrue, Subscribed, Knows, Settled, feedVars, chanVars
<1>11. CASE OnDone
  BY <1>11 DEF OnDone, NewestIsTrue, Subscribed, Knows, Settled, feedVars, chanVars
<1>12. CASE Leave
  BY <1>12 DEF Leave, NewestIsTrue, Subscribed, Knows, Settled, feedVars, chanVars
<1>13. ASSUME NEW h \in Handlers,
              \/ HandlerFails(h) \/ HandlerAcquires(h) \/ HandlerReleases(h)
              \/ ReadReport(h) \/ ReadFails(h) \/ Broadcast(h)
       PROVE  NewestIsTrue' /\ Subscribed' /\ Knows'
  <2>1. UNCHANGED <<feedVars, chanVars, runVars>>
    BY <1>13 DEF HandlerFails, HandlerAcquires, HandlerReleases, ReadReport, ReadFails, Broadcast
  <2> QED BY <2>1 DEF NewestIsTrue, Subscribed, Knows, Settled, feedVars, chanVars, runVars
<1>14. CASE UNCHANGED vars
  BY <1>14 DEF vars, NewestIsTrue, Subscribed, Knows, Settled, feedVars, chanVars, runVars
<1> QED
  BY <1>1, <1>2, <1>3, <1>4, <1>5, <1>6, <1>7, <1>8, <1>9, <1>10, <1>11, <1>12, <1>13,
     <1>14 DEF Next, Run

\* Once nothing is on its way, the node has a handler if and only if its device is
\* connected, whatever the order of its questions and of the announcements.
THEOREM FollowsAlways == Spec => []Follows
<1>1. Init => FollowInv
  BY FollowInit
<1>2. FollowInv /\ [Next]_vars => FollowInv'
  BY FollowNext
<1>3. FollowInv => Follows
  BY DEF FollowInv, Knows, Settled, Follows
<1> QED BY <1>1, <1>2, <1>3, PTL DEF Spec
=============================================================================
