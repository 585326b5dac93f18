------------------------------ MODULE MuxProofs -----------------------------
(***************************************************************************)
(* Proofs about Mux for any usages, routes and switches.                   *)
(***************************************************************************)
EXTENDS Mux, SequenceTheorems, TLAPS

-----------------------------------------------------------------------------
(* Facts about the operators on sequences that routeList goes through.      *)

\* The last element of a list is one of its elements.
LEMMA LastType ==
  ASSUME NEW S, NEW q \in Seq(S), q # <<>>
  PROVE  Len(q) \in 1..Len(q) /\ Last(q) = q[Len(q)] /\ Last(q) \in S
BY DEF Last

\* What is left of a list without its i-th element.
LEMMA RemovedAt ==
  ASSUME NEW S, NEW q \in Seq(S), NEW i \in 1..Len(q)
  PROVE  /\ RemoveAt(q, i) \in Seq(S)
         /\ Len(RemoveAt(q, i)) = Len(q) - 1
         /\ \A k \in 1..Len(q)-1 :
              RemoveAt(q, i)[k] = IF k < i THEN q[k] ELSE q[k+1]
<1> DEFINE front == SubSeq(q, 1, i-1)
           back == SubSeq(q, i+1, Len(q))
<1>1. front \in Seq(S) /\ Len(front) = i-1 /\ \A k \in 1..i-1 : front[k] = q[k]
  BY SubSeqProperties
<1>2. /\ back \in Seq(S) /\ Len(back) = Len(q) - i
      /\ \A k \in 1..Len(q)-i : back[k] = q[i+k]
  BY SubSeqProperties
<1>3. /\ front \o back \in Seq(S) /\ Len(front \o back) = Len(q) - 1
      /\ \A k \in 1..Len(q)-1 :
           (front \o back)[k] = IF k <= i-1 THEN front[k] ELSE back[k-(i-1)]
  <2> HIDE DEF front, back
  <2> QED BY <1>1, <1>2, ConcatProperties
<1>4. RemoveAt(q, i) = front \o back
  BY DEF RemoveAt
<1>5. ASSUME NEW k \in 1..Len(q)-1
      PROVE  (front \o back)[k] = IF k < i THEN q[k] ELSE q[k+1]
  <2> HIDE DEF front, back
  <2>1. CASE k < i
    BY <2>1, <1>1, <1>3
  <2>2. CASE k >= i
    <3>1. k-(i-1) \in 1..Len(q)-i /\ i + (k-(i-1)) = k+1 /\ ~(k <= i-1)
      BY <2>2
    <3> QED BY <3>1, <2>2, <1>2, <1>3
  <2>3. k \in Int /\ i \in Int
    BY LenProperties
  <2>4. k < i \/ k >= i
    BY <2>3
  <2> QED BY <2>1, <2>2, <2>4
<1> HIDE DEF front, back
<1> QED
  BY <1>3, <1>4, <1>5

-----------------------------------------------------------------------------
(* Type correctness.                                                        *)

LEMMA EventTypes ==
  ASSUME TypeOK, NEW ev \in InputEvent, NEW r \in Routes
  PROVE  /\ ev \in Event
         /\ Forwarded(ev) \in Event
         /\ DeactEvent(ev, r) \in Event
         /\ Nothing \in Event
BY DEF InputEvent, Event, Forwarded, DeactEvent, Nothing, Stale

LEMMA TypeInit == Init => TypeOK
BY MuxAssumption DEF Init, TypeOK, Nothing, Event

LEMMA TopRouteType ==
  ASSUME NEW list \in Seq(Routes)
  PROVE  TopRoute(list) \in Routes
BY MuxAssumption, LastType DEF TopRoute

LEMMA DropType ==
  ASSUME NEW S, NEW q \in Seq(S), NEW e
  PROVE  Drop(q, e) \in Seq(S)
<1>1. CASE Contains(q, e)
  <2> DEFINE i == CHOOSE i \in 1..Len(q) : q[i] = e
  <2>1. i \in 1..Len(q)
    BY <1>1 DEF Contains
  <2>2. Drop(q, e) = RemoveAt(q, i)
    BY <1>1 DEF Drop
  <2> HIDE DEF i
  <2> QED BY <2>1, <2>2, RemovedAt
<1>2. CASE ~Contains(q, e)
  BY <1>2 DEF Drop
<1> QED BY <1>1, <1>2

LEMMA UnsetType ==
  ASSUME TypeOK, NEW r \in Routes, UnsetRoute(r)
  PROVE  routeList' \in Seq(Routes) /\ currentRoute' \in Routes
<1>1. CASE ~Contains(routeList, r) /\ UNCHANGED <<routeList, currentRoute>>
  BY <1>1 DEF TypeOK
<1>2. ASSUME NEW i \in FirstIndex(r),
             routeList' = RemoveAt(routeList, i),
             currentRoute' = IF currentRoute = r THEN TopRoute(routeList')
                                                 ELSE currentRoute
      PROVE  routeList' \in Seq(Routes) /\ currentRoute' \in Routes
  <2>1. i \in 1..Len(routeList)
    BY DEF FirstIndex
  <2>2. routeList' \in Seq(Routes)
    BY <2>1, <1>2, RemovedAt DEF TypeOK
  <2> QED BY <2>2, <1>2, TopRouteType DEF TypeOK
<1> QED BY <1>1, <1>2 DEF UnsetRoute

LEMMA TypeNext == TypeOK /\ [Next]_vars => TypeOK'
<1> SUFFICES ASSUME TypeOK, [Next]_vars PROVE TypeOK'
  OBVIOUS
<1>q. Quiet => sent' \in [Routes -> Event]
  BY DEF Quiet, Nothing, Event
<1>1. ASSUME NEW s \in Switches,
             Activate(s) \/ Deactivate(s) \/ SendOnClosed(s)
      PROVE  TypeOK'
  BY <1>1, <1>q DEF TypeOK, Activate, Deactivate, SendOnClosed
<1>2. ASSUME NEW s \in Switches, TakeSet(s) PROVE TypeOK'
  <2>1. RouteOf[s] \in Routes
    BY MuxAssumption
  <2>2. routeList' \in Seq(Routes) /\ currentRoute' \in Routes
    <3>1. CASE RouteOf[s] # currentRoute
      <4>1. routeList' = Append(routeList, RouteOf[s]) /\ currentRoute' = RouteOf[s]
        BY <1>2, <3>1 DEF TakeSet, SetRoute
      <4> QED BY <2>1, <4>1, AppendProperties DEF TypeOK
    <3>2. CASE RouteOf[s] = currentRoute
      BY <1>2, <3>2 DEF TakeSet, SetRoute, TypeOK
    <3> QED BY <3>1, <3>2
  <2>3. active' \in Seq(Switches)
    BY <1>2, AppendProperties DEF TakeSet, TypeOK
  <2> QED BY <1>2, <1>q, <2>2, <2>3 DEF TakeSet, TypeOK
<1>3. ASSUME NEW s \in Switches, TakeUnset(s) PROVE TypeOK'
  <2>1. routeList' \in Seq(Routes) /\ currentRoute' \in Routes
    BY <1>3, UnsetType, MuxAssumption DEF TakeUnset
  <2>2. active' \in Seq(Switches)
    BY <1>3, DropType DEF TakeUnset, TypeOK
  <2> QED BY <1>3, <1>q, <2>1, <2>2 DEF TakeUnset, TypeOK
<1>4. CASE TakeReset
  BY <1>4, <1>q, MuxAssumption DEF TypeOK, TakeReset
<1>5. ASSUME NEW ev \in InputEvent, HandleEvent(ev) PROVE TypeOK'
  <2>1. sent' \in [Routes -> Event]
    BY <1>5, EventTypes DEF HandleEvent
  <2>2. activatedUsages' \in [Usages -> Routes \cup {NoRoute}]
    BY <1>5 DEF HandleEvent, Record, TypeOK
  <2>3. told' \in [Routes -> SUBSET Usages]
    BY <1>5, <2>1 DEF HandleEvent, TypeOK, Event
  <2>4. pressed' \in SUBSET Usages
    BY <1>5 DEF HandleEvent, TypeOK, InputEvent, Event
  <2> QED BY <1>5, <2>1, <2>2, <2>3, <2>4 DEF HandleEvent, TypeOK
<1>6. CASE Stop
  BY <1>6, <1>q DEF TypeOK, Stop
<1>7. CASE UNCHANGED vars
  BY <1>7 DEF TypeOK, vars
<1> QED BY <1>1, <1>2, <1>3, <1>4, <1>5, <1>6, <1>7 DEF Next

\* Every variable of the mux keeps its type: in particular the current route is
\* always a downstream node, whatever signals arrive.
THEOREM TypeCorrect == Spec => []TypeOK
BY TypeInit, TypeNext, PTL DEF Spec

-----------------------------------------------------------------------------
(* Each held usage is pressed on one route.                                 *)

\* What activatedUsages records is what the routes were told: the strengthening
\* that makes PressedOnOneRoute inductive.
ToldAsRecorded ==
  /\ \A u \in Usages : u \in pressed <=> activatedUsages[u] # NoRoute
  /\ \A u \in Usages, r \in Routes : u \in told[r] <=> activatedUsages[u] = r

LEMMA ToldInit == Init => ToldAsRecorded
BY MuxAssumption DEF Init, ToldAsRecorded

LEMMA ToldNext == TypeOK /\ ToldAsRecorded /\ [Next]_vars => ToldAsRecorded'
<1> SUFFICES ASSUME TypeOK, ToldAsRecorded, [Next]_vars PROVE ToldAsRecorded'
  OBVIOUS
<1>1. ASSUME NEW ev \in InputEvent, HandleEvent(ev) PROVE ToldAsRecorded'
  <2>0. ev.press \in SUBSET Usages /\ ev.release \in SUBSET Usages
        /\ ev.press \cap ev.release = {}
    BY DEF InputEvent, Event
  <2> SUFFICES ASSUME NEW u \in Usages
      PROVE /\ (u \in pressed <=> activatedUsages[u] # NoRoute)'
            /\ \A r \in Routes : (u \in told[r] <=> activatedUsages[u] = r)'
    BY DEF ToldAsRecorded
  <2>1. activatedUsages'[u] = IF u \in ev.press THEN currentRoute
                              ELSE IF u \in ev.release THEN NoRoute
                              ELSE activatedUsages[u]
    BY <1>1 DEF HandleEvent, Record
  <2>2. u \in pressed' <=> (u \in pressed /\ u \notin ev.release) \/ u \in ev.press
    BY <1>1 DEF HandleEvent
  <2>3. (u \in pressed <=> activatedUsages[u] # NoRoute)'
    BY <2>0, <2>1, <2>2, MuxAssumption DEF TypeOK, ToldAsRecorded
  <2>4. ASSUME NEW r \in Routes
        PROVE (u \in told[r] <=> activatedUsages[u] = r)'
    <3>1. u \in told'[r] <=> \/ u \in told[r] /\ u \notin sent'[r].release
                            \/ u \in sent'[r].press
      BY <1>1 DEF HandleEvent, TypeOK
    <3>2. CASE r = currentRoute
      <4>1. /\ sent'[r].press = ev.press
            /\ sent'[r].release = ev.release \ Stale(ev)
        BY <1>1, <3>2 DEF HandleEvent, Forwarded, InputEvent, Event
      <4> QED BY <2>0, <2>1, <3>1, <3>2, <4>1, MuxAssumption
              DEF Stale, ToldAsRecorded, TypeOK
    <3>3. CASE r # currentRoute
      <4>1. /\ sent'[r].press = {}
            /\ sent'[r].release = {v \in Stale(ev) : activatedUsages[v] = r}
        BY <1>1, <3>3 DEF HandleEvent, DeactEvent, Nothing
      <4> QED BY <2>0, <2>1, <3>1, <3>3, <4>1, MuxAssumption
              DEF Stale, ToldAsRecorded, TypeOK
    <3> QED BY <3>2, <3>3
  <2> QED BY <2>3, <2>4
<1>2. CASE UNCHANGED <<activatedUsages, told, pressed>>
  BY <1>2 DEF ToldAsRecorded
<1> QED BY <1>1, <1>2 DEF Next, vars, Activate, Deactivate, SendOnClosed,
                          TakeSet, TakeUnset, TakeReset, Stop

LEMMA ToldImpliesOneRoute == TypeOK /\ ToldAsRecorded => PressedOnOneRoute
<1> SUFFICES ASSUME TypeOK, ToldAsRecorded, NEW u \in Usages
    PROVE  /\ u \in pressed <=> \E r \in Routes : u \in told[r]
           /\ \A r, q \in Routes : u \in told[r] /\ u \in told[q] => r = q
  BY DEF PressedOnOneRoute
<1>1. activatedUsages[u] \in Routes \/ activatedUsages[u] = NoRoute
  BY DEF TypeOK
<1> QED BY <1>1, MuxAssumption DEF ToldAsRecorded

\* However events, route switches and resets interleave, a usage the upstream
\* holds is pressed on exactly one downstream route and no other usage is
\* pressed on any: for any number of usages, routes and switches.
THEOREM OneRoute == Spec => []PressedOnOneRoute
<1>1. Init => TypeOK /\ ToldAsRecorded
  BY TypeInit, ToldInit
<1>2. TypeOK /\ ToldAsRecorded /\ [Next]_vars => (TypeOK /\ ToldAsRecorded)'
  BY TypeNext, ToldNext
<1> QED BY <1>1, <1>2, ToldImpliesOneRoute, PTL DEF Spec

LEMMA NoForeignReleaseStep ==
  ASSUME TypeOK, ToldAsRecorded, [Next]_vars
  PROVE  [\A r \in Routes : \A u \in sent'[r].release :
            u \in told[r] \/ \A q \in Routes : u \notin told[q]]_vars
<1> SUFFICES ASSUME Next, NEW r \in Routes, NEW u \in sent'[r].release
             PROVE  u \in told[r] \/ \A q \in Routes : u \notin told[q]
  OBVIOUS
<1>1. CASE Quiet
  BY <1>1 DEF Quiet, Nothing
<1>2. ASSUME NEW ev \in InputEvent, HandleEvent(ev)
      PROVE  u \in told[r] \/ \A q \in Routes : u \notin told[q]
  <2>0. ev.press \in SUBSET Usages /\ ev.release \in SUBSET Usages
    BY DEF InputEvent, Event
  <2>1. CASE r = currentRoute
    <3>1. u \in ev.release \ Stale(ev)
      BY <1>2, <2>1 DEF HandleEvent, Forwarded, InputEvent, Event
    <3> QED BY <2>0, <2>1, <3>1, MuxAssumption DEF Stale, ToldAsRecorded, TypeOK
  <2>2. CASE r # currentRoute
    <3>1. u \in Stale(ev) /\ activatedUsages[u] = r
      BY <1>2, <2>2 DEF HandleEvent, DeactEvent, Nothing
    <3> QED BY <2>0, <3>1 DEF Stale, ToldAsRecorded
  <2> QED BY <2>1, <2>2
<1> QED BY <1>1, <1>2 DEF Next, Activate, Deactivate, SendOnClosed,
                          TakeSet, TakeUnset, TakeReset, Stop

\* A route never receives the release of a usage whose press another route got.
THEOREM NoLeakedRelease == Spec => NoForeignRelease
<1>1. Init => TypeOK /\ ToldAsRecorded
  BY TypeInit, ToldInit
<1>2. TypeOK /\ ToldAsRecorded /\ [Next]_vars => (TypeOK /\ ToldAsRecorded)'
  BY TypeNext, ToldNext
<1>3. TypeOK /\ ToldAsRecorded /\ [Next]_vars
        => [\A r \in Routes : \A u \in sent'[r].release :
              u \in told[r] \/ \A q \in Routes : u \notin told[q]]_vars
  BY NoForeignReleaseStep
<1> QED BY <1>1, <1>2, <1>3, PTL DEF Spec, NoForeignRelease

-----------------------------------------------------------------------------
(* The mux leaves its default route only for a switch that is active.       *)

CurrentIsTop == currentRoute = TopRoute(routeList)

\* Backed, with its witness: owner[i] is the switch that entry i stands for.
BackedBy(owner) ==
  /\ owner \in [1..Len(routeList) -> Switches]
  /\ \A i \in 1..Len(routeList) :
       Holding(owner[i]) /\ RouteOf[owner[i]] = routeList[i]
  /\ \A i, j \in 1..Len(routeList) : owner[i] = owner[j] => i = j

LEMMA BackedEquiv == Backed <=> \E owner : BackedBy(owner)
BY DEF Backed, BackedBy

LEMMA TopInit == Init => CurrentIsTop /\ Backed
<1> SUFFICES ASSUME Init PROVE CurrentIsTop /\ Backed
  OBVIOUS
<1>1. CurrentIsTop
  BY DEF Init, CurrentIsTop, TopRoute
<1>2. Len(routeList) = 0
  BY DEF Init
<1>3. BackedBy([i \in 1..Len(routeList) |-> CHOOSE s \in Switches : TRUE])
  BY <1>2 DEF BackedBy
<1> QED BY <1>1, <1>3, BackedEquiv

LEMMA TopNext == TypeOK /\ CurrentIsTop /\ [Next]_vars => CurrentIsTop'
<1> SUFFICES ASSUME TypeOK, CurrentIsTop, [Next]_vars PROVE CurrentIsTop'
  OBVIOUS
<1>1. ASSUME NEW s \in Switches, TakeSet(s) PROVE CurrentIsTop'
  <2>1. RouteOf[s] \in Routes
    BY MuxAssumption
  <2>2. CASE RouteOf[s] # currentRoute
    <3>1. routeList' = Append(routeList, RouteOf[s]) /\ currentRoute' = RouteOf[s]
      BY <1>1, <2>2 DEF TakeSet, SetRoute
    <3>2. /\ routeList' \in Seq(Routes) /\ routeList' # <<>>
          /\ routeList'[Len(routeList')] = RouteOf[s]
      BY <2>1, <3>1, AppendProperties DEF TypeOK
    <3> QED BY <3>1, <3>2, LastType DEF CurrentIsTop, TopRoute
  <2>3. CASE RouteOf[s] = currentRoute
    BY <1>1, <2>3 DEF TakeSet, SetRoute, CurrentIsTop
  <2> QED BY <2>2, <2>3
<1>2. ASSUME NEW s \in Switches, TakeUnset(s) PROVE CurrentIsTop'
  <2> DEFINE r == RouteOf[s]
  <2>1. CASE ~Contains(routeList, r) /\ UNCHANGED <<routeList, currentRoute>>
    BY <2>1 DEF CurrentIsTop
  <2>2. ASSUME NEW i \in FirstIndex(r), routeList' = RemoveAt(routeList, i),
               currentRoute' = IF currentRoute = r THEN TopRoute(routeList')
                                                   ELSE currentRoute
        PROVE  CurrentIsTop'
    <3>1. CASE currentRoute = r
      BY <2>2, <3>1 DEF CurrentIsTop
    <3>2. CASE currentRoute # r
      <4>1. i \in 1..Len(routeList) /\ routeList[i] = r
        BY DEF FirstIndex
      <4>2. routeList # <<>> /\ routeList \in Seq(Routes) /\ Len(routeList) \in Nat
        BY <4>1 DEF TypeOK
      <4>3. currentRoute = routeList[Len(routeList)]
        BY <4>2, LastType DEF CurrentIsTop, TopRoute
      <4>4. i < Len(routeList)
        BY <3>2, <4>1, <4>2, <4>3
      <4>5. /\ routeList' \in Seq(Routes) /\ Len(routeList') = Len(routeList) - 1
            /\ routeList'[Len(routeList) - 1] = routeList[Len(routeList)]
        <5>1. Len(routeList) - 1 \in 1..Len(routeList)-1 /\ ~(Len(routeList) - 1 < i)
          BY <4>1, <4>2, <4>4
        <5>2. /\ routeList' \in Seq(Routes) /\ Len(routeList') = Len(routeList) - 1
              /\ routeList'[Len(routeList) - 1] = routeList[(Len(routeList) - 1) + 1]
          BY <2>2, <4>1, <4>2, <5>1, RemovedAt
        <5> QED BY <4>2, <5>2
      <4>6. routeList' # <<>>
        BY <4>1, <4>2, <4>4, <4>5
      <4>7. TopRoute(routeList') = routeList[Len(routeList)]
        BY <4>5, <4>6, LastType DEF TopRoute
      <4> QED BY <2>2, <3>2, <4>3, <4>7 DEF CurrentIsTop
    <3> QED BY <3>1, <3>2
  <2> QED BY <1>2, <2>1, <2>2 DEF TakeUnset, UnsetRoute
<1>3. CASE TakeReset
  BY <1>3 DEF TakeReset, CurrentIsTop, TopRoute
<1>4. CASE UNCHANGED <<routeList, currentRoute>>
  BY <1>4 DEF CurrentIsTop
<1> QED BY <1>1, <1>2, <1>3, <1>4 DEF Next, vars, Activate, Deactivate,
                                      SendOnClosed, HandleEvent, Stop

LEMMA BackedNext == TypeOK /\ Backed /\ [Next]_vars => Backed'
<1> SUFFICES ASSUME TypeOK, Backed, [Next]_vars PROVE Backed'
  OBVIOUS
<1>0. PICK owner : BackedBy(owner)
  BY BackedEquiv
<1>t. routeList \in Seq(Routes) /\ Len(routeList) \in Nat
  BY DEF TypeOK
<1>e. ASSUME NEW f, BackedBy(f)' PROVE Backed'
  BY <1>e DEF Backed, BackedBy
<1>1. ASSUME NEW s \in Switches, TakeSet(s) PROVE Backed'
  <2>0. /\ ~Holding(s)
        /\ \A t \in Switches : Holding(t)' <=> Holding(t) \/ t = s
    BY <1>1 DEF TakeSet, Holding, TypeOK
  <2>1. CASE RouteOf[s] # currentRoute
    <3> DEFINE n == Len(routeList) + 1
               f == [i \in 1..n |-> IF i = n THEN s ELSE owner[i]]
    <3>1. /\ Len(routeList') = n /\ routeList'[n] = RouteOf[s]
          /\ \A i \in 1..Len(routeList) : routeList'[i] = routeList[i]
      BY <1>1, <2>1, <1>t, MuxAssumption, AppendProperties DEF TakeSet, SetRoute
    <3>2. \A i \in 1..n : i # n => i \in 1..Len(routeList)
      BY <1>t
    <3>3. \A i \in 1..Len(routeList) : owner[i] # s
      BY <1>0, <2>0 DEF BackedBy
    \* a rigid name for f, which would otherwise change with routeList
    <3>4. PICK g : g = f
      OBVIOUS
    <3>5. /\ g \in [1..n -> Switches]
          /\ \A i \in 1..n : g[i] = IF i = n THEN s ELSE owner[i]
      BY <1>0, <3>2, <3>4 DEF BackedBy
    <3> HIDE DEF f
    <3>6. \A i \in 1..n : Holding(g[i])' /\ RouteOf[g[i]] = routeList'[i]
      BY <1>0, <2>0, <3>1, <3>2, <3>5 DEF BackedBy
    <3>7. \A i, j \in 1..n : g[i] = g[j] => i = j
      BY <1>0, <3>2, <3>3, <3>5 DEF BackedBy
    <3>8. BackedBy(g)'
      BY <3>1, <3>5, <3>6, <3>7 DEF BackedBy
    <3> QED BY <3>8, <1>e
  <2>2. CASE RouteOf[s] = currentRoute
    <3>1. UNCHANGED routeList
      BY <1>1, <2>2 DEF TakeSet, SetRoute
    <3>2. BackedBy(owner)'
      BY <1>0, <2>0, <3>1 DEF BackedBy
    <3> QED BY <3>2, <1>e
  <2> QED BY <2>1, <2>2
<1>2. ASSUME NEW s \in Switches, TakeUnset(s) PROVE Backed'
  <2> DEFINE r == RouteOf[s]
  <2>0. \A t \in Switches : t # s => (Holding(t)' <=> Holding(t))
    BY <1>2 DEF TakeUnset, Holding, TypeOK
  <2>1. CASE ~Contains(routeList, r) /\ UNCHANGED <<routeList, currentRoute>>
    <3>1. \A i \in 1..Len(routeList) : owner[i] # s
      BY <1>0, <2>1 DEF BackedBy, Contains
    <3>2. BackedBy(owner)'
      BY <1>0, <2>0, <2>1, <3>1 DEF BackedBy
    <3> QED BY <3>2, <1>e
  <2>2. ASSUME NEW i \in FirstIndex(r), routeList' = RemoveAt(routeList, i)
        PROVE  Backed'
    <3>1. i \in 1..Len(routeList) /\ routeList[i] = r /\ i \in Int
      BY DEF FirstIndex
    \* the entry that stays behind for s, if any, is handed over to i's owner
    <3> DEFINE m == Len(routeList) - 1
               old(k) == IF k < i THEN k ELSE k + 1
               heir(j) == IF owner[j] = s THEN owner[i] ELSE owner[j]
               f == [k \in 1..m |-> heir(old(k))]
    <3>2. /\ Len(routeList') = m
          /\ \A k \in 1..m : routeList'[k] = routeList[old(k)]
      BY <2>2, <3>1, <1>t, RemovedAt
    <3>3. \A k \in 1..m : old(k) \in 1..Len(routeList) /\ old(k) # i
      BY <1>t, <3>1
    <3>4. \A k, l \in 1..m : old(k) = old(l) => k = l
      BY <1>t, <3>1
    <3>5. \A j \in 1..Len(routeList) : j # i =>
            /\ heir(j) \in Switches /\ heir(j) # s
            /\ Holding(heir(j)) /\ RouteOf[heir(j)] = routeList[j]
      BY <1>0, <3>1 DEF BackedBy
    <3>6. \A j, l \in 1..Len(routeList) :
            j # i /\ l # i /\ heir(j) = heir(l) => j = l
      BY <1>0, <3>1 DEF BackedBy
    <3> HIDE DEF old, heir
    <3>f. PICK g : g = f
      OBVIOUS
    <3>7. g \in [1..m -> Switches]
      BY <3>3, <3>5, <3>f
    <3>8. \A k \in 1..m : g[k] = heir(old(k))
      BY <3>f
    <3> HIDE DEF f
    <3>9. \A k \in 1..m : Holding(g[k])' /\ RouteOf[g[k]] = routeList'[k]
      BY <2>0, <3>2, <3>3, <3>5, <3>8
    <3>10. \A k, l \in 1..m : g[k] = g[l] => k = l
      BY <3>3, <3>4, <3>6, <3>8
    <3>11. BackedBy(g)'
      BY <3>2, <3>7, <3>9, <3>10 DEF BackedBy
    <3> QED BY <3>11, <1>e
  <2> QED BY <1>2, <2>1, <2>2 DEF TakeUnset, UnsetRoute
<1>3. CASE TakeReset
  <2>1. Len(routeList') = 0
    BY <1>3 DEF TakeReset
  <2>2. BackedBy([i \in 1..0 |-> owner[i]])'
    BY <2>1 DEF BackedBy
  <2> QED BY <2>2, <1>e
<1>4. ASSUME UNCHANGED routeList, \A t \in Switches : Holding(t) => Holding(t)'
      PROVE  Backed'
  <2>1. BackedBy(owner)'
    BY <1>0, <1>4 DEF BackedBy
  <2> QED BY <2>1, <1>e
<1>5. ASSUME NEW s \in Switches, Activate(s) \/ Deactivate(s) \/ SendOnClosed(s)
      PROVE  Backed'
  BY <1>5, <1>4 DEF Activate, Deactivate, SendOnClosed, Holding, TypeOK
<1>6. CASE UNCHANGED <<routeList, switch>>
  BY <1>6, <1>4 DEF Holding
<1> QED BY <1>1, <1>2, <1>3, <1>5, <1>6 DEF Next, vars, HandleEvent, Stop

LEMMA TopAndBackedHeld == TypeOK /\ CurrentIsTop /\ Backed => CurrentHeld
<1> SUFFICES ASSUME TypeOK, CurrentIsTop, Backed, currentRoute # DefaultRoute
             PROVE  \E s \in Switches : Holding(s) /\ RouteOf[s] = currentRoute
  BY DEF CurrentHeld
<1>1. routeList # <<>>
  BY DEF CurrentIsTop, TopRoute
<1>2. Len(routeList) \in 1..Len(routeList) /\ currentRoute = routeList[Len(routeList)]
  BY <1>1, LastType DEF CurrentIsTop, TopRoute, TypeOK
<1> QED BY <1>2 DEF Backed

\* Entries of routeList never outlive the switches that pushed them.
THEOREM RouteListBacked == Spec => []Backed
<1>1. Init => TypeOK /\ Backed
  BY TypeInit, TopInit
<1>2. TypeOK /\ Backed /\ [Next]_vars => (TypeOK /\ Backed)'
  BY TypeNext, BackedNext
<1> QED BY <1>1, <1>2, PTL DEF Spec

\* The mux is off its default route only while a switch to its current route is
\* active, whatever switches share a route and whenever the mux is reset.
THEOREM NeverLeftBehind == Spec => []CurrentHeld
<1>1. Init => TypeOK /\ CurrentIsTop /\ Backed
  BY TypeInit, TopInit
<1>2. TypeOK /\ CurrentIsTop /\ Backed /\ [Next]_vars
        => (TypeOK /\ CurrentIsTop /\ Backed)'
  BY TypeNext, TopNext, BackedNext
<1> QED BY <1>1, <1>2, TopAndBackedHeld, PTL DEF Spec

-----------------------------------------------------------------------------
(* The mux implements the stack, if each route has a switch of its own.     *)

OneSwitchEach ==
  \A s, t \in Switches :
    RouteOf[s] # DefaultRoute /\ (RouteOf[s] = RouteOf[t] => s = t)

\* routeList holds the routes of the active switches, in their order.
ListIsStack ==
  /\ Len(routeList) = Len(active)
  /\ \A i \in 1..Len(active) : routeList[i] = RouteOf[active[i]] /\ Holding(active[i])
  /\ \A i, j \in 1..Len(active) : active[i] = active[j] => i = j

StackInv == TypeOK /\ CurrentIsTop /\ ListIsStack

\* RouteStack has the operators of sequences by names of its own.
LEMMA SameOperators ==
  ASSUME NEW q
  PROVE  /\ Stack!Last(q) = Last(q)
         /\ \A e : Stack!Contains(q, e) <=> Contains(q, e)
         /\ \A i : Stack!RemoveAt(q, i) = RemoveAt(q, i)
BY DEF Stack!Last, Last, Stack!Contains, Contains, Stack!RemoveAt, RemoveAt

LEMMA RouteIsTop ==
  ASSUME StackInv
  PROVE  currentRoute = Stack!TopOf(active)
<1>1. routeList \in Seq(Routes) /\ active \in Seq(Switches) /\ Len(routeList) = Len(active)
  BY DEF StackInv, TypeOK, ListIsStack
<1>2. CASE active = <<>>
  <2>1. routeList = <<>>
    BY <1>1, <1>2
  <2> QED BY <1>2, <2>1 DEF StackInv, CurrentIsTop, TopRoute, Stack!TopOf
<1>3. CASE active # <<>>
  <2>1. routeList # <<>>
    BY <1>1, <1>3
  <2>2. /\ Last(routeList) = routeList[Len(routeList)] /\ Last(active) = active[Len(active)]
        /\ Len(active) \in 1..Len(active)
    BY <1>1, <1>3, <2>1, LastType
  <2>3. Last(routeList) = RouteOf[Last(active)]
    BY <1>1, <2>2 DEF StackInv, ListIsStack
  <2> QED BY <1>3, <2>1, <2>3, SameOperators DEF StackInv, CurrentIsTop, TopRoute, Stack!TopOf
<1> QED BY <1>2, <1>3

\* A switch that is being set is pushed.
LEMMA PushStep ==
  ASSUME OneSwitchEach, StackInv, NEW s \in Switches, TakeSet(s)
  PROVE  ListIsStack' /\ Stack!Activate(s)
<1>1. routeList \in Seq(Routes) /\ active \in Seq(Switches) /\ Len(routeList) = Len(active)
  BY DEF StackInv, TypeOK, ListIsStack
<1>2. ~Holding(s) /\ \A i \in 1..Len(active) : active[i] # s
  BY DEF TakeSet, Holding, StackInv, ListIsStack
<1>3. RouteOf[s] # currentRoute
  <2>1. CASE active = <<>>
    BY <2>1, RouteIsTop DEF Stack!TopOf, OneSwitchEach
  <2>2. CASE active # <<>>
    <3>1. Last(active) = active[Len(active)] /\ Len(active) \in 1..Len(active) /\ Last(active) \in Switches
      BY <1>1, <2>2, LastType
    <3>2. currentRoute = RouteOf[Last(active)]
      BY <2>2, RouteIsTop, SameOperators DEF Stack!TopOf
    <3> QED BY <1>2, <3>1, <3>2 DEF OneSwitchEach
  <2> QED BY <2>1, <2>2
<1>4. routeList' = Append(routeList, RouteOf[s]) /\ currentRoute' = RouteOf[s] /\ active' = Append(active, s)
  BY <1>3 DEF TakeSet, SetRoute
<1>5. \A t \in Switches : Holding(t) \/ t = s => Holding(t)'
  BY DEF TakeSet, Holding, StackInv, TypeOK
<1>6. /\ Len(active') = Len(active) + 1 /\ Len(routeList') = Len(active) + 1
      /\ \A i \in 1..Len(active) : active'[i] = active[i] /\ routeList'[i] = routeList[i]
      /\ active'[Len(active) + 1] = s /\ routeList'[Len(active) + 1] = RouteOf[s]
  <2>1. RouteOf[s] \in Routes
    BY MuxAssumption
  <2> QED BY <1>1, <1>4, <2>1, AppendProperties
<1>7. ListIsStack'
  <2>1. \A i \in 1..Len(active') : i \in 1..Len(active) \/ i = Len(active) + 1
    BY <1>1, <1>6
  <2>2. \A i \in 1..Len(active) : active[i] \in Switches
    BY <1>1
  <2>3. \A i \in 1..Len(active') : routeList'[i] = RouteOf[active'[i]] /\ switch'[active'[i]] \in {"down", "unsetting", "panicked"}
    BY <1>5, <1>6, <2>1, <2>2 DEF StackInv, ListIsStack, Holding
  <2>4. \A i, j \in 1..Len(active') : active'[i] = active'[j] => i = j
    BY <1>2, <1>6, <2>1 DEF StackInv, ListIsStack
  <2> QED BY <1>6, <2>3, <2>4 DEF ListIsStack, Holding
<1>8. ~Contains(active, s)
  BY <1>2 DEF Contains
<1> QED BY <1>4, <1>7, <1>8, SameOperators DEF Stack!Activate

\* A switch that is being unset leaves the stack wherever it is, or is not in it since a reset.
LEMMA PopStep ==
  ASSUME OneSwitchEach, StackInv, NEW s \in Switches, TakeUnset(s)
  PROVE  /\ ListIsStack'
         /\ \/ \E i \in 1..Len(active) : active[i] = s /\ active' = RemoveAt(active, i)
            \/ UNCHANGED <<active, currentRoute>>
<1>1. routeList \in Seq(Routes) /\ active \in Seq(Switches) /\ Len(routeList) = Len(active)
  BY DEF StackInv, TypeOK, ListIsStack
<1>2. \A t \in Switches : Holding(t) /\ t # s => Holding(t)'
  BY DEF TakeUnset, Holding, StackInv, TypeOK
<1>3. \A i \in 1..Len(active) : active[i] \in Switches /\ (routeList[i] = RouteOf[s] <=> active[i] = s)
  BY <1>1 DEF StackInv, ListIsStack, OneSwitchEach
<1>4. CASE Contains(active, s)
  <2> DEFINE i == CHOOSE i \in 1..Len(active) : active[i] = s
  <2>1. i \in 1..Len(active) /\ active[i] = s
    BY <1>4 DEF Contains
  <2>2. active' = RemoveAt(active, i)
    BY <1>4 DEF TakeUnset, Drop
  <2> HIDE DEF i
  <2>3. Contains(routeList, RouteOf[s])
    BY <1>1, <1>3, <2>1 DEF Contains
  <2>4. PICK j \in FirstIndex(RouteOf[s]) : routeList' = RemoveAt(routeList, j)
    BY <2>3 DEF TakeUnset, UnsetRoute
  <2>5. j = i
    BY <1>1, <1>3, <2>1, <2>4 DEF FirstIndex, StackInv, ListIsStack
  <2>6. /\ Len(active') = Len(active) - 1 /\ Len(routeList') = Len(active) - 1
        /\ \A k \in 1..Len(active)-1 : /\ active'[k] = IF k < i THEN active[k] ELSE active[k+1]
                                       /\ routeList'[k] = IF k < i THEN routeList[k] ELSE routeList[k+1]
    BY <1>1, <2>1, <2>2, <2>4, <2>5, RemovedAt
  <2>7. \A k \in 1..Len(active') :
          \E n \in 1..Len(active) : /\ n # i /\ n = (IF k < i THEN k ELSE k+1)
                                    /\ active'[k] = active[n] /\ routeList'[k] = routeList[n]
    <3> SUFFICES ASSUME NEW k \in 1..Len(active')
                 PROVE  \E n \in 1..Len(active) :
                           /\ n # i /\ n = (IF k < i THEN k ELSE k+1)
                           /\ active'[k] = active[n] /\ routeList'[k] = routeList[n]
      OBVIOUS
    <3>1. k \in 1..Len(active)-1 /\ Len(active) \in Nat
      BY <1>1, <2>6
    <3>2. CASE k < i
      BY <2>1, <2>6, <3>1, <3>2
    <3>3. CASE ~(k < i)
      <4>1. k+1 \in 1..Len(active) /\ k+1 # i
        BY <2>1, <3>1, <3>3
      <4> QED BY <2>6, <3>1, <3>3, <4>1
    <3> QED BY <3>2, <3>3
  <2>8. \A k \in 1..Len(active') : routeList'[k] = RouteOf[active'[k]] /\ switch'[active'[k]] \in {"down", "unsetting", "panicked"}
    <3> SUFFICES ASSUME NEW k \in 1..Len(active')
                 PROVE  routeList'[k] = RouteOf[active'[k]] /\ switch'[active'[k]] \in {"down", "unsetting", "panicked"}
      OBVIOUS
    <3>1. PICK n \in 1..Len(active) : n # i /\ active'[k] = active[n] /\ routeList'[k] = routeList[n]
      BY <2>7
    <3>2. active[n] # s /\ active[n] \in Switches /\ Holding(active[n]) /\ routeList[n] = RouteOf[active[n]]
      BY <1>3, <2>1, <3>1 DEF StackInv, ListIsStack
    <3>3. switch'[active[n]] = switch[active[n]]
      BY <3>2 DEF TakeUnset, StackInv, TypeOK
    <3> QED BY <3>1, <3>2, <3>3 DEF Holding
  <2>9. \A k, l \in 1..Len(active') : active'[k] = active'[l] => k = l
    <3> SUFFICES ASSUME NEW k \in 1..Len(active'), NEW l \in 1..Len(active'), active'[k] = active'[l]
                 PROVE  k = l
      OBVIOUS
    <3>1. PICK n \in 1..Len(active) : n = (IF k < i THEN k ELSE k+1) /\ active'[k] = active[n]
      BY <2>7
    <3>2. PICK m \in 1..Len(active) : m = (IF l < i THEN l ELSE l+1) /\ active'[l] = active[m]
      BY <2>7
    <3>3. n = m
      BY <3>1, <3>2 DEF StackInv, ListIsStack
    <3>4. k \in Int /\ l \in Int /\ i \in Int
      BY <2>1
    <3> QED BY <3>1, <3>2, <3>3, <3>4
  <2>10. ListIsStack'
    BY <2>6, <2>8, <2>9 DEF ListIsStack, Holding
  <2> QED BY <2>1, <2>2, <2>10
<1>5. CASE ~Contains(active, s)
  <2>1. active' = active
    BY <1>5 DEF TakeUnset, Drop
  <2>2. FirstIndex(RouteOf[s]) = {}
    BY <1>1, <1>3, <1>5 DEF FirstIndex, Contains
  <2>3. UNCHANGED <<routeList, currentRoute>>
    BY <2>2 DEF TakeUnset, UnsetRoute
  <2>4. \A i \in 1..Len(active) : active[i] \in Switches /\ active[i] # s
    BY <1>3, <1>5 DEF Contains
  <2>5. \A i \in 1..Len(active) : switch'[active'[i]] \in {"down", "unsetting", "panicked"}
    <3>1. \A i \in 1..Len(active) : switch'[active[i]] = switch[active[i]]
      BY <2>4 DEF TakeUnset, StackInv, TypeOK
    <3> QED BY <2>1, <3>1 DEF Holding, StackInv, ListIsStack
  <2> QED BY <2>1, <2>3, <2>5 DEF StackInv, ListIsStack, Holding
<1> QED BY <1>4, <1>5

LEMMA StackInit == Init => StackInv /\ Stack!StackInit
<1> SUFFICES ASSUME Init PROVE StackInv /\ Stack!StackInit
  OBVIOUS
<1>1. ListIsStack
  BY DEF Init, ListIsStack
<1>2. Stack!StackInit
  BY DEF Init, Stack!StackInit
<1> QED BY <1>1, <1>2, TypeInit, TopInit DEF StackInv

LEMMA StackStep ==
  ASSUME OneSwitchEach
  PROVE  StackInv /\ [Next]_vars => StackInv' /\ [Stack!StackNext]_(Stack!stackVars)
<1> SUFFICES ASSUME StackInv, [Next]_vars
             PROVE  ListIsStack' /\ (Stack!StackNext \/ UNCHANGED <<active, currentRoute>>)
  BY TypeNext, TopNext DEF StackInv, Stack!stackVars
<1>1. ASSUME NEW s \in Switches, TakeSet(s)
      PROVE  ListIsStack' /\ Stack!StackNext
  BY <1>1, PushStep DEF Stack!StackNext
<1>2. ASSUME NEW s \in Switches, TakeUnset(s)
      PROVE  ListIsStack' /\ (Stack!StackNext \/ UNCHANGED <<active, currentRoute>>)
  <2>1. ListIsStack'
    BY <1>2, PopStep
  <2>2. StackInv'
    BY <2>1, TypeNext, TopNext DEF StackInv
  <2>3. currentRoute' = Stack!TopOf(active')
    <3>1. StackInv => currentRoute = Stack!TopOf(active)
      BY RouteIsTop
    <3>2. (StackInv => currentRoute = Stack!TopOf(active))'
      BY RouteIsTop, PTL
    <3> QED BY <2>2, <3>2
  <2>4. ASSUME NEW i \in 1..Len(active), active[i] = s, active' = RemoveAt(active, i)
        PROVE  Stack!StackNext
    BY <2>3, <2>4, SameOperators DEF Stack!Deactivate, Stack!StackNext
  <2> QED BY <1>2, <2>1, <2>4, PopStep
<1>3. CASE TakeReset
  BY <1>3 DEF TakeReset, ListIsStack, Stack!Forget, Stack!StackNext
<1>4. ASSUME UNCHANGED <<currentRoute, routeList, active>>,
             \A t \in Switches : Holding(t) => Holding(t)'
      PROVE  ListIsStack' /\ UNCHANGED <<active, currentRoute>>
  <2>1. \A i \in 1..Len(active) : active[i] \in Switches
    BY DEF StackInv, TypeOK
  <2> QED BY <1>4, <2>1 DEF StackInv, ListIsStack, Holding
<1>5. ASSUME NEW s \in Switches, Activate(s) \/ Deactivate(s) \/ SendOnClosed(s)
      PROVE  ListIsStack' /\ UNCHANGED <<active, currentRoute>>
  <2>1. \A t \in Switches : Holding(t) => Holding(t)'
    BY <1>5 DEF Activate, Deactivate, SendOnClosed, Holding, StackInv, TypeOK
  <2> QED BY <1>4, <1>5, <2>1 DEF Activate, Deactivate, SendOnClosed
<1>6. ASSUME NEW ev \in InputEvent, HandleEvent(ev)
      PROVE  ListIsStack' /\ UNCHANGED <<active, currentRoute>>
  BY <1>4, <1>6 DEF HandleEvent, Holding
<1>7. CASE Stop \/ UNCHANGED vars
  BY <1>4, <1>7 DEF Stop, vars, Holding
<1> QED BY <1>1, <1>2, <1>3, <1>5, <1>6, <1>7 DEF Next

\* While each route has a switch of its own, the route is that of the switch that was
\* activated last and is still active, in whatever order switches come and go.
THEOREM MuxImplementsStack == ASSUME OneSwitchEach PROVE Spec => ImplementsStack
<1>1. Init => StackInv /\ Stack!StackInit
  BY StackInit
<1>2. StackInv /\ [Next]_vars => StackInv' /\ [Stack!StackNext]_(Stack!stackVars)
  BY StackStep
<1> QED BY <1>1, <1>2, PTL DEF Spec, ImplementsStack, Stack!StackSpec
=============================================================================
