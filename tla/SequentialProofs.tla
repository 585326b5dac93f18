-------------------------- MODULE SequentialProofs ---------------------------
(***************************************************************************)
(* Proofs about parts that work on one thing at a time: the report of an   *)
(* output device (ReportState), the routes of a split node (Split), the    *)
(* arguments of actions (Arguments), the ids of reports (ReportIds),       *)
(* their bits (ReportBits), the triggers of a bind node (Triggers), the    *)
(* graph of a flow (GraphBuilder), the events of an input device           *)
(* (InputReports), each for any values of its constants.  Where an         *)
(* operator is a function defined by recursion, its values are compared    *)
(* with those expected, and that there is no least difference is shown.    *)
(***************************************************************************)
EXTENDS Sequential, FiniteSetTheorems, WellFoundedInduction, TLAPS

-----------------------------------------------------------------------------
(* ReportState.  None of its properties is inductive by itself: the array   *)
(* agrees with what is held because it is packed (the loops stop at the     *)
(* first free slot) and because the counters are the numbers of holders     *)
(* (only the first activation and the last deactivation change it).         *)

Fields == [Slots -> Keys \cup {NoUsage}]

\* An event activates what its source does not hold, deactivates what it holds.
EventOK == on \cap held[src] = {} /\ off \subseteq held[src]

BitsCounted == bits = {u \in Flags : count[u] > 0}
SlotsCounted == Content(slots) = {u \in Keys : count[u] > 0} \ lost
LostCounted == \A u \in lost : count[u] > 0

IInv ==
  /\ TypeOK /\ EventOK /\ CountsHolders
  /\ Packed /\ BitsCounted /\ SlotsCounted /\ LostCounted

-----------------------------------------------------------------------------
(* The selector's loops.                                                    *)

\* SetUsage writes a usage that is not in the array into the first free slot.
LEMMA SetInPlace ==
  ASSUME NEW a \in Fields, IsPacked(a), NEW u \in Keys, u \notin Content(a)
  PROVE  \A i \in Slots :
           SetUsage(a, u)[i] =
             IF a[i] = NoUsage /\ \A j \in 1..(i - 1) : a[j] # NoUsage THEN u ELSE a[i]
<1> SUFFICES ASSUME NEW i \in Slots
             PROVE  SetUsage(a, u)[i] =
               IF a[i] = NoUsage /\ \A j \in 1..(i - 1) : a[j] # NoUsage THEN u ELSE a[i]
  OBVIOUS
<1>1. u # NoUsage
  BY ReportAssumption DEF Usages
<1>2. \A j \in 1..(i - 1) : j \in Slots /\ a[j] # u
  BY <1>1, ReportAssumption DEF Slots, Content
<1> QED
  BY <1>2 DEF SetUsage

\* SetUsage keeps the array packed; it adds the usage or finds the array full.
LEMMA SetUsageCorrect ==
  ASSUME NEW a \in Fields, IsPacked(a), NEW u \in Keys, u \notin Content(a)
  PROVE  LET b == SetUsage(a, u) IN
         /\ b \in Fields /\ IsPacked(b)
         /\ Content(b) = Content(a) \/ Content(b) = Content(a) \cup {u}
<1> DEFINE b == SetUsage(a, u)
<1> DEFINE First(i) == a[i] = NoUsage /\ \A j \in 1..(i - 1) : a[j] # NoUsage
<1>1. u # NoUsage
  BY ReportAssumption DEF Usages
<1>2. b \in Fields
  BY DEF SetUsage, Fields
<1>3. \A i \in Slots : b[i] = IF First(i) THEN u ELSE a[i]
  BY SetInPlace
<1>4. \A i \in Slots : a[i] # u /\ a[i] \in Keys \cup {NoUsage}
  BY <1>1 DEF Content, Fields
<1>5. \A i, j \in Slots : First(i) /\ First(j) => i = j
  BY ReportAssumption DEF Slots
<1>6. \A i, j \in Slots : i < j /\ First(i) => a[j] = NoUsage
  BY ReportAssumption DEF Slots, IsPacked
<1>7. \A i, j \in Slots : i < j /\ First(j) => a[i] # NoUsage
  BY ReportAssumption DEF Slots
<1> HIDE DEF b, First
<1>8. IsPacked(b)
  <2>1. ASSUME NEW i \in Slots, NEW j \in Slots, i < j, b[j] # NoUsage PROVE b[i] # NoUsage
    <3>1. CASE First(j)
      BY <3>1, <2>1, <1>7, <1>3, <1>1
    <3>2. CASE ~First(j)
      <4>1. a[j] # NoUsage
        BY <3>2, <2>1, <1>3
      <4>2. a[i] # NoUsage
        BY <4>1, <2>1 DEF IsPacked
      <4> QED
        BY <4>2, <1>3, <1>1
    <3> QED
      BY <3>1, <3>2
  <2>2. ASSUME NEW i \in Slots, NEW j \in Slots, b[i] = b[j], b[i] # NoUsage PROVE i = j
    <3>1. CASE First(i)
      BY <3>1, <2>2, <1>3, <1>4, <1>5
    <3>2. CASE ~First(i)
      BY <3>2, <2>2, <1>3, <1>4 DEF IsPacked
    <3> QED
      BY <3>1, <3>2
  <2> QED
    BY <2>1, <2>2 DEF IsPacked
<1>9. CASE \E i \in Slots : First(i)
  <2> PICK k \in Slots : First(k)
    BY <1>9
  <2>1. a[k] = NoUsage
    BY DEF First
  <2>2. \A i \in Slots : b[i] = IF i = k THEN u ELSE a[i]
    BY <1>3, <1>5
  <2>3. Content(b) = Content(a) \cup {u}
    BY <2>1, <2>2, <1>1 DEF Content
  <2> QED
    BY <2>3, <1>2, <1>8 DEF b
<1>10. CASE ~\E i \in Slots : First(i)
  <2>1. Content(b) = Content(a)
    BY <1>10, <1>3 DEF Content
  <2> QED
    BY <2>1, <1>2, <1>8 DEF b
<1> QED
  BY <1>9, <1>10

\* ClearUsage removes just the usage, and keeps the array packed.
LEMMA ClearUsageCorrect ==
  ASSUME NEW a \in Fields, IsPacked(a), NEW u \in Keys
  PROVE  LET b == ClearUsage(a, u) IN
         b \in Fields /\ IsPacked(b) /\ Content(b) = Content(a) \ {u}
<1> DEFINE b == ClearUsage(a, u)
<1> DEFINE Past(i) == a[i] # NoUsage /\ \E j \in 1..i : a[j] = u
<1>1. u # NoUsage
  BY ReportAssumption DEF Usages
<1>2. \A i \in Slots : (\A j \in 1..i : a[j] # NoUsage) <=> a[i] # NoUsage
  BY ReportAssumption DEF Slots, IsPacked
<1>3. \A i \in Slots :
        b[i] = IF Past(i) THEN IF i < N THEN a[i + 1] ELSE NoUsage ELSE a[i]
  BY <1>2 DEF ClearUsage
<1>4. \A i \in Slots : i < N => i + 1 \in Slots
  BY ReportAssumption DEF Slots
<1>5. b \in Fields
  BY <1>4 DEF ClearUsage, Fields
<1>6. \A i, j \in Slots : i < j /\ Past(i) /\ a[j] # NoUsage => Past(j)
  BY ReportAssumption DEF Slots
<1>7. \A i \in Slots : a[i] = u => Past(i)
  BY <1>1, ReportAssumption DEF Slots
<1>8. \A i \in Slots : Past(i) => a[i] # NoUsage
  OBVIOUS
<1>9. \A i, j \in Slots : Past(i) /\ i < j => a[j] # u
  BY <1>1, ReportAssumption DEF Slots, IsPacked
<1>10. \A i \in Slots : Past(i) => a[i] = u \/ (i - 1 \in Slots /\ Past(i - 1))
  <2> SUFFICES ASSUME NEW i \in Slots, Past(i), a[i] # u
               PROVE  i - 1 \in Slots /\ Past(i - 1)
    OBVIOUS
  <2> PICK j \in 1..i : a[j] = u
    OBVIOUS
  <2>1. j \in 1..(i - 1) /\ i - 1 \in Slots
    BY ReportAssumption DEF Slots
  <2>2. a[i - 1] # NoUsage
    BY <2>1, ReportAssumption DEF Slots, IsPacked
  <2> QED
    BY <2>1, <2>2
<1> HIDE DEF b, Past
<1>11. IsPacked(b)
  <2>1. ASSUME NEW i \in Slots, NEW j \in Slots, i < j, b[j] # NoUsage PROVE b[i] # NoUsage
    <3>1. a[j] # NoUsage
      BY <2>1, <1>3, <1>8
    <3>2. a[i] # NoUsage
      BY <2>1, <3>1 DEF IsPacked
    <3>3. i < N /\ i + 1 \in Slots
      BY <2>1, ReportAssumption DEF Slots
    <3>4. a[i + 1] # NoUsage
      BY <2>1, <3>1, <3>3, ReportAssumption DEF IsPacked, Slots
    <3> QED
      BY <1>3, <3>2, <3>3, <3>4
  <2>2. ASSUME NEW i \in Slots, NEW j \in Slots, i < j, b[i] = b[j], b[i] # NoUsage PROVE FALSE
    <3>1. b[j] # NoUsage /\ a[j] # NoUsage
      BY <2>2, <1>3, <1>8
    <3>2. CASE Past(i)
      <4>1. Past(j)
        BY <3>2, <3>1, <2>2, <1>6
      <4>2. i < N /\ j < N /\ i + 1 \in Slots /\ j + 1 \in Slots
        BY <4>1, <3>1, <2>2, <1>3, ReportAssumption DEF Slots
      <4>3. a[i + 1] = a[j + 1] /\ a[i + 1] # NoUsage
        BY <4>1, <4>2, <3>2, <2>2, <1>3
      <4> QED
        BY <4>2, <4>3, <2>2, ReportAssumption DEF IsPacked, Slots
    <3>3. CASE ~Past(i)
      <4>1. b[i] = a[i]
        BY <3>3, <1>3
      <4>2. CASE Past(j)
        <5>1. j < N /\ j + 1 \in Slots /\ b[j] = a[j + 1]
          BY <4>2, <3>1, <1>3, ReportAssumption DEF Slots
        <5>2. i = j + 1
          BY <5>1, <4>1, <2>2 DEF IsPacked
        <5> QED
          BY <5>2, <2>2, ReportAssumption DEF Slots
      <4>3. CASE ~Past(j)
        <5>1. a[i] = a[j] /\ a[i] # NoUsage
          BY <4>3, <4>1, <2>2, <1>3
        <5>2. i = j
          BY <5>1 DEF IsPacked
        <5> QED
          BY <5>2, <2>2, ReportAssumption DEF Slots
      <4> QED
        BY <4>2, <4>3
    <3> QED
      BY <3>2, <3>3
  <2>3. \A i, j \in Slots : i < j \/ j < i \/ i = j
    BY ReportAssumption DEF Slots
  <2> QED
    BY <2>1, <2>2, <2>3 DEF IsPacked
<1>12. Content(b) \subseteq Content(a) \ {u}
  <2> SUFFICES ASSUME NEW i \in Slots, b[i] # NoUsage
               PROVE  b[i] \in Content(a) /\ b[i] # u
    BY DEF Content
  <2>1. CASE Past(i)
    <3>1. i < N /\ i + 1 \in Slots /\ b[i] = a[i + 1]
      BY <2>1, <1>3, <1>4
    <3>2. a[i + 1] # u
      BY <3>1, <2>1, <1>9, ReportAssumption DEF Slots
    <3> QED
      BY <3>1, <3>2 DEF Content
  <2>2. CASE ~Past(i)
    BY <2>2, <1>3, <1>7 DEF Content
  <2> QED
    BY <2>1, <2>2
<1>13. Content(a) \ {u} \subseteq Content(b)
  <2> SUFFICES ASSUME NEW i \in Slots, a[i] # NoUsage, a[i] # u
               PROVE  \E j \in Slots : b[j] = a[i]
    BY DEF Content
  <2>1. CASE Past(i)
    <3>1. i - 1 \in Slots /\ Past(i - 1)
      BY <2>1, <1>10
    <3>2. b[i - 1] = a[i]
      BY <3>1, <1>3, ReportAssumption DEF Slots
    <3> QED
      BY <3>1, <3>2
  <2>2. CASE ~Past(i)
    BY <2>2, <1>3
  <2> QED
    BY <2>1, <2>2
<1> QED
  BY <1>5, <1>11, <1>12, <1>13 DEF b

-----------------------------------------------------------------------------
(* The counters.                                                            *)

LEMMA HoldersFinite == ASSUME NEW u PROVE IsFiniteSet(Holders(u))
  BY FS_Subset, ReportAssumption DEF Holders

LEMMA Positive ==
  ASSUME NEW u, CountsHolders, u \in Usages
  PROVE  count[u] > 0 <=> \E s \in Sources : u \in held[s]
<1>1. Cardinality(Holders(u)) \in Nat /\ (Cardinality(Holders(u)) = 0 <=> Holders(u) = {})
  BY HoldersFinite, FS_CardinalityType, FS_EmptySet
<1> QED
  BY <1>1 DEF CountsHolders, Holders

-----------------------------------------------------------------------------
LEMMA InitIInv == Init => IInv
<1> SUFFICES ASSUME Init PROVE IInv
  OBVIOUS
<1> USE DEF Init
<1>1. TypeOK
  BY DEF TypeOK, Empty
<1>2. EventOK
  BY DEF EventOK
<1>3. CountsHolders
  BY FS_EmptySet DEF CountsHolders, Holders
<1>4. Packed
  BY DEF Packed, IsPacked, Empty
<1>5. BitsCounted /\ LostCounted
  BY DEF BitsCounted, LostCounted, Usages
<1>6. SlotsCounted
  BY DEF SlotsCounted, Content, Empty, Usages
<1> QED
  BY <1>1, <1>2, <1>3, <1>4, <1>5, <1>6 DEF IInv

\* Another holder, or one less, of one usage.
LEMMA HolderAdded ==
  ASSUME TypeOK, CountsHolders, NEW u \in Usages, u \notin held[src],
         held' = [held EXCEPT ![src] = @ \cup {u}],
         count' = [count EXCEPT ![u] = @ + 1]
  PROVE  CountsHolders'
<1> SUFFICES ASSUME NEW v \in Usages PROVE count'[v] = Cardinality(Holders(v)')
  BY DEF CountsHolders
<1>1. CASE v = u
  <2>1. Holders(v)' = Holders(v) \cup {src} /\ src \notin Holders(v)
    BY <1>1 DEF TypeOK, Holders
  <2>2. Cardinality(Holders(v) \cup {src}) = Cardinality(Holders(v)) + 1
    BY <2>1, HoldersFinite, FS_AddElement
  <2> QED
    BY <1>1, <2>1, <2>2 DEF TypeOK, CountsHolders
<1>2. CASE v # u
  <2>1. Holders(v)' = Holders(v)
    BY <1>2 DEF TypeOK, Holders
  <2> QED
    BY <1>2, <2>1 DEF TypeOK, CountsHolders
<1> QED
  BY <1>1, <1>2

LEMMA HolderRemoved ==
  ASSUME TypeOK, CountsHolders, NEW u \in Usages, u \in held[src],
         held' = [held EXCEPT ![src] = @ \ {u}],
         count' = [count EXCEPT ![u] = @ - 1]
  PROVE  CountsHolders' /\ count[u] > 0
<1>0. src \in Holders(u)
  BY DEF TypeOK, Holders
<1>1. Cardinality(Holders(u) \ {src}) = Cardinality(Holders(u)) - 1
  BY <1>0, HoldersFinite, FS_RemoveElement
<1>2. count[u] > 0
  BY Positive DEF TypeOK
<1>3. ASSUME NEW v \in Usages PROVE count'[v] = Cardinality(Holders(v)')
  <2>1. CASE v = u
    <3>1. Holders(v)' = Holders(v) \ {src}
      BY <2>1 DEF TypeOK, Holders
    <3> QED
      BY <2>1, <3>1, <1>1 DEF TypeOK, CountsHolders
  <2>2. CASE v # u
    <3>1. Holders(v)' = Holders(v)
      BY <2>2 DEF TypeOK, Holders
    <3> QED
      BY <2>2, <3>1 DEF TypeOK, CountsHolders
  <2> QED
    BY <2>1, <2>2
<1> QED
  BY <1>2, <1>3 DEF CountsHolders

-----------------------------------------------------------------------------
LEMMA BeginIInv ==
  ASSUME IInv, NEW s \in Sources, NEW D \in SUBSET Usages, NEW U \in SUBSET Usages,
         Begin(s, D, U)
  PROVE  IInv'
<1> USE DEF IInv, Begin
<1>1. TypeOK' /\ EventOK'
  BY DEF TypeOK, EventOK
<1>2. CountsHolders' /\ Packed'
  BY DEF CountsHolders, Holders, Packed
<1>3. BitsCounted' /\ SlotsCounted' /\ LostCounted'
  BY DEF BitsCounted, SlotsCounted, LostCounted
<1> QED
  BY <1>1, <1>2, <1>3

LEMMA ActivateIInv ==
  ASSUME IInv, NEW u \in Usages, Activate(u)
  PROVE  IInv'
<1> USE DEF IInv
<1>1. u \notin held[src] /\ count[u] \in Nat /\ count \in [Usages -> Nat]
  BY DEF EventOK, Activate, TypeOK
<1>2. CountsHolders'
  BY <1>1, HolderAdded DEF Activate
<1>3. EventOK'
  BY DEF EventOK, Activate, TypeOK
<1>4. count' = [count EXCEPT ![u] = @ + 1]
  BY DEF Activate
<1>5. held' \in [Sources -> SUBSET Usages] /\ src' \in Sources /\ on' \subseteq Usages
        /\ off' \subseteq Usages /\ count' \in [Usages -> Nat]
  BY <1>1, <1>4 DEF TypeOK, Activate
<1>6. CASE count[u] > 0
  <2>1. bits' = bits /\ slots' = slots /\ lost' = lost
    BY <1>6, <1>1 DEF Activate
  <2>2. \A v \in Usages : count'[v] > 0 <=> count[v] > 0
    BY <1>6, <1>4, <1>1
  <2>3. TypeOK' /\ Packed'
    BY <1>5, <2>1 DEF TypeOK, Packed
  <2>4. BitsCounted' /\ SlotsCounted'
    BY <2>1, <2>2 DEF BitsCounted, SlotsCounted, Usages
  <2>5. LostCounted'
    BY <2>1, <2>2 DEF LostCounted, TypeOK, Usages
  <2> QED
    BY <1>2, <1>3, <2>3, <2>4, <2>5
<1>7. CASE count[u] = 0
  <2>1. \A v \in Usages : count'[v] > 0 <=> (count[v] > 0 \/ v = u)
    BY <1>7, <1>4, <1>1
  <2>2. /\ bits' = IF u \in Flags THEN bits \cup {u} ELSE bits
        /\ slots' = IF u \in Keys THEN SetUsage(slots, u) ELSE slots
        /\ lost' = IF u \in Keys /\ u \notin Content(slots') THEN lost \cup {u} ELSE lost
    BY <1>7, <1>1 DEF Activate, Flagged
  <2>3. BitsCounted'
    BY <2>1, <2>2 DEF BitsCounted, Usages
  <2>4. bits' \subseteq Flags /\ lost' \subseteq Keys
    BY <2>2 DEF TypeOK
  <2>5. LostCounted'
    BY <2>1, <2>2 DEF LostCounted, TypeOK, Usages
  <2>6. u \notin lost /\ u \notin Content(slots)
    BY <1>7 DEF LostCounted, SlotsCounted
  <2>7. CASE u \in Flags
    <3>1. u \notin Keys /\ slots' = slots /\ lost' = lost
      BY <2>7, <2>2, ReportAssumption
    <3>2. SlotsCounted'
      BY <3>1, <2>1 DEF SlotsCounted, Usages
    <3>3. TypeOK' /\ Packed'
      BY <1>5, <2>4, <3>1 DEF TypeOK, Packed
    <3> QED
      BY <1>2, <1>3, <2>3, <2>5, <3>2, <3>3
  <2>8. CASE u \in Keys
    <3>1. slots \in Fields /\ IsPacked(slots)
      BY DEF TypeOK, Fields, Packed
    <3>2. /\ slots' \in Fields /\ IsPacked(slots')
          /\ Content(slots') = Content(slots) \/ Content(slots') = Content(slots) \cup {u}
      BY <3>1, <2>2, <2>6, <2>8, SetUsageCorrect
    <3>3. SlotsCounted'
      BY <3>2, <2>1, <2>2, <2>6, <2>8 DEF SlotsCounted, Usages
    <3>4. TypeOK' /\ Packed'
      BY <1>5, <2>4, <3>2 DEF TypeOK, Packed, Fields
    <3> QED
      BY <1>2, <1>3, <2>3, <2>5, <3>3, <3>4
  <2> QED
    BY <2>7, <2>8 DEF Usages
<1> QED
  BY <1>1, <1>6, <1>7

LEMMA DeactivateIInv ==
  ASSUME IInv, NEW u \in Usages, Deactivate(u)
  PROVE  IInv'
<1> USE DEF IInv
<1>1. u \in held[src] /\ count[u] \in Nat /\ count \in [Usages -> Nat]
  BY DEF EventOK, Deactivate, TypeOK
<1>2. count[u] > 0
  BY <1>1, Positive DEF TypeOK
<1>3. count' = [count EXCEPT ![u] = @ - 1]
  BY <1>1, <1>2 DEF Deactivate, IsLast
<1>4. CountsHolders'
  BY <1>1, <1>3, HolderRemoved DEF Deactivate
<1>5. EventOK'
  BY DEF EventOK, Deactivate, TypeOK
<1>6. held' \in [Sources -> SUBSET Usages] /\ src' \in Sources /\ on' \subseteq Usages
        /\ off' \subseteq Usages /\ count' \in [Usages -> Nat]
  BY <1>1, <1>2, <1>3 DEF TypeOK, Deactivate
<1>7. CASE count[u] > 1
  <2>1. bits' = bits /\ slots' = slots /\ lost' = lost
    BY <1>7, <1>1 DEF Deactivate, IsLast
  <2>2. \A v \in Usages : count'[v] > 0 <=> count[v] > 0
    BY <1>7, <1>3, <1>1
  <2>3. TypeOK' /\ Packed'
    BY <1>6, <2>1 DEF TypeOK, Packed
  <2>4. BitsCounted' /\ SlotsCounted'
    BY <2>1, <2>2 DEF BitsCounted, SlotsCounted, Usages
  <2>5. LostCounted'
    BY <2>1, <2>2 DEF LostCounted, TypeOK, Usages
  <2> QED
    BY <1>4, <1>5, <2>3, <2>4, <2>5
<1>8. CASE count[u] = 1
  <2>1. \A v \in Usages : count'[v] > 0 <=> (count[v] > 0 /\ v # u)
    BY <1>8, <1>3, <1>1
  <2>2. /\ bits' = bits \ {u} /\ lost' = lost \ {u}
        /\ slots' = IF u \in Keys THEN ClearUsage(slots, u) ELSE slots
    BY <1>8 DEF Deactivate, IsLast
  <2>3. BitsCounted'
    BY <2>1, <2>2 DEF BitsCounted, Usages
  <2>4. LostCounted'
    BY <2>1, <2>2 DEF LostCounted, TypeOK, Usages
  <2>5. slots' \in Fields /\ IsPacked(slots') /\ Content(slots') = Content(slots) \ {u}
    <3>1. slots \in Fields /\ IsPacked(slots)
      BY DEF TypeOK, Fields, Packed
    <3>2. CASE u \in Keys
      BY <3>1, <3>2, <2>2, ClearUsageCorrect
    <3>3. CASE u \notin Keys
      BY <3>1, <3>3, <2>2 DEF SlotsCounted
    <3> QED
      BY <3>2, <3>3
  <2>6. SlotsCounted'
    BY <2>1, <2>2, <2>5 DEF SlotsCounted, Usages
  <2>7. TypeOK' /\ Packed'
    BY <1>6, <2>2, <2>5 DEF TypeOK, Packed, Fields
  <2> QED
    BY <1>4, <1>5, <2>3, <2>4, <2>6, <2>7
<1> QED
  BY <1>1, <1>2, <1>7, <1>8

LEMMA StepIInv == IInv /\ [Next]_vars => IInv'
<1> SUFFICES ASSUME IInv, [Next]_vars PROVE IInv'
  OBVIOUS
<1>1. CASE \E s \in Sources : \E D, U \in SUBSET Usages : Begin(s, D, U)
  BY <1>1, BeginIInv
<1>2. CASE \E u \in Usages : Activate(u) \/ Deactivate(u)
  BY <1>2, ActivateIInv, DeactivateIInv
<1>3. CASE UNCHANGED vars
  BY <1>3 DEF vars, IInv, TypeOK, EventOK, CountsHolders, Holders, Packed, BitsCounted,
              SlotsCounted, LostCounted
<1> QED
  BY <1>1, <1>2, <1>3 DEF Next

THEOREM Invariance == Spec => []IInv
  BY InitIInv, StepIInv, PTL DEF Spec

-----------------------------------------------------------------------------
\* Every variable keeps its type: no counter becomes negative (state.go:310).
THEOREM TypeCorrect == Spec => []TypeOK
<1>1. IInv => TypeOK
  BY DEF IInv
<1> QED
  BY <1>1, Invariance, PTL

\* A usage counts exactly the sources that hold it (state.go:288-324).
THEOREM CountsRight == Spec => []CountsHolders
<1>1. IInv => CountsHolders
  BY DEF IInv
<1> QED
  BY <1>1, Invariance, PTL

\* The array is always packed and without repeats (usage_set.go:274-346).
THEOREM AlwaysPacked == Spec => []Packed
<1>1. IInv => Packed
  BY DEF IInv
<1> QED
  BY <1>1, Invariance, PTL

\* The report shows what is held, except what found the array full.
THEOREM ReportRight == Spec => []ReportedIffHeld
<1>1. IInv => ReportedIffHeld
  <2> SUFFICES ASSUME IInv PROVE ReportedIffHeld
    OBVIOUS
  <2>1. \A u \in Usages : count[u] > 0 <=> \E s \in Sources : u \in held[s]
    BY Positive DEF IInv
  <2>2. lost \cap Flags = {}
    BY ReportAssumption DEF IInv, TypeOK
  <2> QED
    BY <2>1, <2>2 DEF IInv, BitsCounted, SlotsCounted, ReportedIffHeld, Usages
<1> QED
  BY <1>1, Invariance, PTL

-----------------------------------------------------------------------------
(* Split.                                                                   *)

\* As long as the node runs, each node downstream was told what goes to it of what is held, and
\* nothing twice.
Told == state.err = "none" =>
  /\ state.held \subseteq SplitUsages /\ state.fair = TRUE
  /\ state.told = [n \in Router!Nodes |-> Router!Into(n, state.held)]

LEMMA ToldInit == Router!Init => Told
BY DEF Router!Init, Router!Start, Told, Router!Into

LEMMA ToldNext ==
  ASSUME Told, NEW pressed \in SUBSET SplitUsages, NEW released \in SUBSET SplitUsages, Router!Handle(pressed, released)
  PROVE  Told'
<1> DEFINE events == Router!Events(pressed, released)
<1>0. /\ state.err = "none" /\ state.fair = TRUE /\ state.held \subseteq SplitUsages
      /\ state.told = [n \in Router!Nodes |-> Router!Into(n, state.held)]
  BY DEF Router!Handle, Router!Arrives, Told
<1>1. /\ pressed \cap state.held = {} /\ released \subseteq state.held
      /\ state'.held = (state.held \cup pressed) \ released /\ input' = input
      /\ state'.told = [n \in Router!Nodes |-> (state.told[n] \cup events[n].on) \ events[n].off]
      /\ state'.fair = (state.fair /\ \A n \in Router!Nodes : /\ events[n].on \cap state.told[n] = {}
                                                             /\ events[n].off \subseteq state.told[n])
  BY DEF Router!Handle, Router!Arrives
<1>2. \A n \in Router!Nodes : events[n] = [on |-> Router!Into(n, pressed), off |-> Router!Into(n, released)]
  <2> SUFFICES ASSUME NEW n \in Router!Nodes
               PROVE  Router!AddUsages(Router!Fresh(state.events)[n], Router!Into(n, pressed), Router!Into(n, released))
                        = [on |-> Router!Into(n, pressed), off |-> Router!Into(n, released)]
    BY DEF Router!Events
  <2>1. Router!Fresh(state.events)[n] = [on |-> {}, off |-> {}]
    BY DEF Router!Fresh, Router!NoEvent
  <2>2. ({} \ Router!Into(n, released)) \cup Router!Into(n, pressed) = Router!Into(n, pressed)
    OBVIOUS
  <2>3. ({} \ Router!Into(n, pressed)) \cup Router!Into(n, released) = Router!Into(n, released)
    OBVIOUS
  <2> QED BY <2>1, <2>2, <2>3 DEF Router!AddUsages
<1> HIDE DEF events
<1>3. /\ \A n : /\ Router!Into(n, pressed) \cap Router!Into(n, state.held) = {}
               /\ Router!Into(n, released) \subseteq Router!Into(n, state.held)
               /\ (Router!Into(n, state.held) \cup Router!Into(n, pressed)) \ Router!Into(n, released)
                    = Router!Into(n, (state.held \cup pressed) \ released)
  BY <1>1 DEF Router!Into
<1>9. ASSUME NEW n \in Router!Nodes
      PROVE  /\ state.told[n] = Router!Into(n, state.held)
             /\ events[n].on = Router!Into(n, pressed) /\ events[n].off = Router!Into(n, released)
  <2>1. state.told[n] = Router!Into(n, state.held)
    BY <1>0
  <2>2. events[n] = [on |-> Router!Into(n, pressed), off |-> Router!Into(n, released)]
    BY <1>2
  <2> QED BY <2>1, <2>2
<1>4. state'.fair = TRUE
  <2>1. \A n \in Router!Nodes : events[n].on \cap state.told[n] = {} /\ events[n].off \subseteq state.told[n]
    BY <1>3, <1>9
  <2> QED BY <1>0, <1>1, <2>1
<1>5. Router!Nodes' = Router!Nodes /\ \A n, S : Router!Into(n, S)' = Router!Into(n, S)
  BY <1>1 DEF Router!Nodes, Router!Into, Router!Candidates, Router!First
<1>6. \A n \in Router!Nodes :
        (state.told[n] \cup events[n].on) \ events[n].off = Router!Into(n, (state.held \cup pressed) \ released)
  BY <1>3, <1>9
<1>7. state'.told = [n \in Router!Nodes |-> Router!Into(n, (state.held \cup pressed) \ released)]
  BY <1>0, <1>1, <1>6
<1>8. (state.held \cup pressed) \ released = state'.held /\ state'.held \subseteq SplitUsages
  BY <1>0, <1>1
<1> HIDE DEF events
<1> QED BY <1>4, <1>5, <1>7, <1>8 DEF Told

\* A usage is on at the one node whose patterns come first, as long as it is on upstream and
\* the node runs, and each press and each release is sent once (split.go:85-115), whatever the routes.
THEOREM OneRouteAlways == Router!Spec => []OneRoute
<1>1. Told /\ [Router!Next]_(Router!vars) => Told'
  <2> SUFFICES ASSUME Told, [Router!Next]_(Router!vars) PROVE Told'
    OBVIOUS
  <2>1. CASE Router!Next
    <3>1. ASSUME NEW pressed \in SUBSET SplitUsages, NEW released \in SUBSET SplitUsages,
                 Router!Die(pressed, released)
          PROVE  Told'
      BY <3>1 DEF Router!Die, Told
    <3> QED BY <2>1, <3>1, ToldNext DEF Router!Next
  <2>2. CASE UNCHANGED Router!vars
    BY <2>2 DEF Router!vars, Told, Router!Nodes, Router!Into, Router!Candidates, Router!First
  <2> QED BY <2>1, <2>2
<1>2. Told => OneRoute
  BY DEF Told, OneRoute, Router!OneRoute
<1> QED BY <1>1, <1>2, ToldInit, PTL DEF Router!Spec

-----------------------------------------------------------------------------
(* Arguments.                                                               *)

\* The types of the language, and the kinds there are: those of arguments, and those of defaults.
KnownKinds ==
  /\ Types \subseteq {"string", "number", "boolean", "Duration", "Action", "Signal", "Usage", "any"}
  /\ Kinds \subseteq {"usage", "assignment", "expr", "duration", "string", "number", "boolean", "null"}
  /\ Defaults \subseteq {"none", "duration", "string", "number", "boolean", "null"}

Parameters == [type : Types, default : Defaults]

\* A declaration that was accepted: the parameters without a default come first.
Declared ==
  /\ input \in Seq(Parameters)
  /\ \A i \in DOMAIN input : input[i].default # "none" =>
       /\ Args!DefaultOK(input[i].type, input[i].default)
       /\ \A j \in DOMAIN input : i < j => input[j].default # "none"

Checked ==
  state.err = "declare" \/ (state.args \in Seq(Kinds) /\ state.err = Args!NewArguments(input, state.args))

LEMMA Members ==
  ASSUME NEW S, NEW s \in Seq(S)
  PROVE  \A i \in DOMAIN s : s[i] \in S
OBVIOUS

\* A set of numbers that is not empty has a least one.
LEMMA HasLeast ==
  ASSUME NEW S \in SUBSET Nat, S # {}
  PROVE  \E i \in S : \A j \in S : i <= j
<1> DEFINE R == {ss \in Nat \X Nat : ss[1] < ss[2]}
<1>1. IsWellFoundedOn(R, Nat)
  BY NatLessThanWellFounded DEF OpToRel
<1>2. PICK x \in S : \A y \in S : ~ (<<y, x>> \in R)
  BY <1>1, WFMin
<1>3. ASSUME NEW y \in S PROVE x <= y
  <2>1. <<y, x>> \in Nat \X Nat /\ <<y, x>> \notin R
    BY <1>2
  <2>2. ~(y < x)
    BY <2>1
  <2> QED BY <2>2
<1> QED BY <1>3

LEMMA LeastIn ==
  ASSUME NEW S \in SUBSET Nat, S # {}
  PROVE  Args!Least(S) \in S
BY HasLeast DEF Args!Least

LEMMA SameCardinality == \A S : Args!Cardinality(S) = Cardinality(S)
BY Zenon DEF Args!Cardinality, Cardinality

\* How many parameters are required, when those come first.
LEMMA RequiredFirst ==
  ASSUME Declared, NEW n \in Nat
  PROVE  /\ n >= Args!Required(input) => \A i \in DOMAIN input : i > n => input[i].default # "none"
         /\ n < Args!Required(input) => \E i \in DOMAIN input : i > n /\ input[i].default = "none"
<1> DEFINE R == {i \in DOMAIN input : input[i].default = "none"}
<1>1. DOMAIN input = 1..Len(input) /\ Len(input) \in Nat
  BY DEF Declared
<1>2. IsFiniteSet(R) /\ IsFiniteSet(1..n) /\ Cardinality(1..n) = n
  <2>1. R \in SUBSET (1..Len(input)) /\ IsFiniteSet(1..Len(input))
    BY <1>1, FS_Interval
  <2>2. IsFiniteSet(R)
    BY <2>1, FS_Subset
  <2> QED BY <2>2, FS_Interval
<1>3. Cardinality(R) \in Nat
  BY <1>2, FS_CardinalityType
<1>4. ASSUME n >= Cardinality(R), NEW i \in DOMAIN input, i > n, input[i].default = "none" PROVE FALSE
  <2>1. \A j \in 1..i : j \in R
    BY <1>1, <1>4 DEF Declared
  <2>2. 1..i \in SUBSET R /\ Cardinality(1..i) = i
    <3>1. i \in Nat \ {0}
      BY <1>1
    <3>2. Cardinality(1..i) = i
      BY <3>1, FS_Interval
    <3> QED BY <2>1, <3>2
  <2>3. Cardinality(1..i) <= Cardinality(R)
    <3> HIDE DEF R
    <3> QED BY <1>2, <2>2, FS_Subset
  <2> QED BY <1>1, <1>3, <1>4, <2>2, <2>3
<1>5. ASSUME n < Cardinality(R), \A i \in DOMAIN input : i > n => input[i].default # "none" PROVE FALSE
  <2>1. R \in SUBSET (1..n)
    BY <1>1, <1>5
  <2>2. Cardinality(R) <= n
    BY <1>2, <2>1, FS_Subset
  <2> QED BY <1>3, <1>5, <2>2
<1>6. Args!Required(input) = Cardinality(R)
  BY SameCardinality, Zenon DEF Args!Required
<1> HIDE DEF R
<1> QED BY <1>4, <1>5, <1>6

\* What an action gets for an argument that was accepted, or refused, and for a default.
LEMMA ArgumentGot ==
  ASSUME KnownKinds, NEW args, NEW i, i <= Len(args), args[i] \in Kinds, input[i].type \in Types
  PROVE  /\ Args!ArgumentErr(input[i].type, args[i]) = "none" =>
              Args!Get(input, args, i) = IF args[i] \in Args!Unheeded(input[i].type) THEN Args!Nothing
                                         ELSE [kind |-> args[i], from |-> i]
         /\ Args!ArgumentErr(input[i].type, args[i]) = "failed" =>
              \/ Args!Get(input, args, i) = Args!Nothing /\ args[i] \notin Args!Unheeded(input[i].type)
              \/ input[i].type = "Usage" /\ args[i] = "null"
              \/ input[i].type = "Signal" /\ Args!IsUsage(args[i])
<1> DEFINE got == [kind |-> args[i], from |-> i]
<1>1. Args!ArgumentOrNil(input, args, i) = got
  BY DEF Args!ArgumentOrNil
<1>2. got.kind = args[i]
  OBVIOUS
<1> HIDE DEF got
<1>3. \A kinds : Args!OfKind(input, args, i, kinds) = IF args[i] \in kinds THEN got ELSE Args!Nothing
  BY <1>1, <1>2 DEF Args!OfKind
<1>4. got = [kind |-> args[i], from |-> i] /\ args[i] \in {"usage", "assignment", "expr", "duration", "string", "number", "boolean", "null"}
  BY DEF KnownKinds, got
<1> HIDE DEF got
<1>5. CASE input[i].type \in {"string", "number", "boolean", "Duration"}
  BY <1>3, <1>4, <1>5 DEF Args!ArgumentErr, Args!Get, Args!Typed, Args!Unheeded, Args!IsValue
<1>6. CASE input[i].type \in {"Action", "Signal"}
  BY <1>3, <1>4, <1>6 DEF Args!ArgumentErr, Args!Get, Args!Statement, Args!Unheeded, Args!IsUsage
<1>7. CASE input[i].type = "Usage"
  BY <1>3, <1>4, <1>7 DEF Args!ArgumentErr, Args!Get, Args!UsagesOf, Args!Unheeded, Args!IsUsage
<1>8. CASE input[i].type = "any"
  BY <1>3, <1>4, <1>8 DEF Args!ArgumentErr, Args!Get, Args!AnyOf, Args!Unheeded
<1> QED BY <1>5, <1>6, <1>7, <1>8 DEF KnownKinds

LEMMA DefaultGot ==
  ASSUME KnownKinds, NEW args, NEW i, ~(i <= Len(args)), input[i].default # "none", input[i].default \in Defaults,
         Args!DefaultOK(input[i].type, input[i].default)
  PROVE  Args!Get(input, args, i) = IF input[i].default \in Args!Unheeded(input[i].type) THEN Args!Nothing
                                    ELSE [kind |-> input[i].default, from |-> 0]
<1> DEFINE got == [kind |-> input[i].default, from |-> 0]
<1>1. Args!ArgumentOrNil(input, args, i) = got
  BY DEF Args!ArgumentOrNil
<1>2. got.kind = input[i].default
  OBVIOUS
<1> HIDE DEF got
<1>3. \A kinds : Args!OfKind(input, args, i, kinds) = IF input[i].default \in kinds THEN got ELSE Args!Nothing
  BY <1>1, <1>2 DEF Args!OfKind
<1> QED BY <1>3 DEF KnownKinds, Args!DefaultOK, Args!Get, Args!Typed, Args!UsagesOf, Args!Statement, Args!AnyOf,
                    Args!Unheeded, got

\* What NewArguments says of the arguments of a statement is what its action finds.
LEMMA AcceptedArrive ==
  ASSUME KnownKinds, Declared, NEW args \in Seq(Kinds), state.args = args, state.err = Args!NewArguments(input, args)
  PROVE  Args!ArgumentsArrive
<1> DEFINE wrong == {i \in DOMAIN args : i \in DOMAIN input /\ Args!ArgumentErr(input[i].type, args[i]) # "none"}
<1>1. /\ DOMAIN input = 1..Len(input) /\ Len(input) \in Nat /\ DOMAIN args = 1..Len(args) /\ Len(args) \in Nat
      /\ \A i \in DOMAIN args : args[i] \in Kinds
      /\ \A i \in DOMAIN input : input[i].default \in Defaults /\ input[i].type \in Types
  <2>1. /\ input \in Seq(Parameters) /\ args \in Seq(Kinds)
        /\ \A i \in DOMAIN input : input[i] \in Parameters
        /\ \A i \in DOMAIN args : args[i] \in Kinds
    BY Members DEF Declared
  <2>2. \A i \in DOMAIN input : input[i].default \in Defaults /\ input[i].type \in Types
    BY <2>1 DEF Parameters
  <2>3. /\ DOMAIN input = 1..Len(input) /\ Len(input) \in Nat
        /\ DOMAIN args = 1..Len(args) /\ Len(args) \in Nat
    BY <2>1
  <2> QED BY <2>1, <2>2, <2>3
<1>2. Args!Required(input) \in Nat
  <2> DEFINE R == {i \in DOMAIN input : input[i].default = "none"}
  <2>0. DOMAIN input = 1..Len(input) /\ Len(input) \in Nat
    BY <1>1
  <2>1. R \in SUBSET (1..Len(input)) /\ IsFiniteSet(1..Len(input))
    <3>1. IsFiniteSet(1..Len(input))
      BY <2>0, FS_Interval
    <3> QED BY <2>0, <3>1
  <2>2. Args!Required(input) = Cardinality(R)
    BY SameCardinality, Zenon DEF Args!Required
  <2> HIDE DEF R
  <2> QED BY <2>1, <2>2, FS_Subset, FS_CardinalityType
<1>3. wrong # {} => Args!Least(wrong) \in wrong
  <2>1. wrong \in SUBSET Nat
    BY <1>1
  <2> HIDE DEF wrong
  <2> QED BY <2>1, LeastIn
<1>4. CASE state.err = "none"
  <2>1. Len(args) >= Args!Required(input) /\ Len(args) <= Len(input)
    BY <1>1, <1>2, <1>4 DEF Args!NewArguments
  <2>2. wrong = {}
    BY <1>3, <1>4, <2>1 DEF Args!NewArguments
  <2> DEFINE given(i) == IF i <= Len(args) THEN [kind |-> args[i], from |-> i]
                         ELSE [kind |-> input[i].default, from |-> 0]
  <2>3. ASSUME NEW i \in DOMAIN input, i <= Len(args)
        PROVE  /\ given(i).kind # "none"
               /\ Args!Get(input, args, i) = IF given(i).kind \in Args!Unheeded(input[i].type) THEN Args!Nothing ELSE given(i)
    <3>1. i \in DOMAIN args /\ args[i] \in Kinds /\ args[i] # "none" /\ input[i].type \in Types
      BY <1>1, <2>3 DEF KnownKinds
    <3>2. Args!ArgumentErr(input[i].type, args[i]) = "none"
      BY <2>2, <3>1
    <3>3. Args!Get(input, args, i) = IF args[i] \in Args!Unheeded(input[i].type) THEN Args!Nothing
                                     ELSE [kind |-> args[i], from |-> i]
      BY <2>3, <3>1, <3>2, ArgumentGot
    <3> QED BY <2>3, <3>1, <3>3
  <2>4. ASSUME NEW i \in DOMAIN input, ~(i <= Len(args))
        PROVE  /\ given(i).kind # "none"
               /\ Args!Get(input, args, i) = IF given(i).kind \in Args!Unheeded(input[i].type) THEN Args!Nothing ELSE given(i)
    <3>1. input[i].default # "none"
      BY <1>1, <2>1, <2>4, RequiredFirst
    <3>2. input[i].default \in Defaults /\ Args!DefaultOK(input[i].type, input[i].default)
      BY <1>1, <3>1 DEF KnownKinds, Declared
    <3>3. Args!Get(input, args, i) = IF input[i].default \in Args!Unheeded(input[i].type) THEN Args!Nothing
                                     ELSE [kind |-> input[i].default, from |-> 0]
      BY <2>4, <3>1, <3>2, DefaultGot
    <3> QED BY <2>4, <3>1, <3>3
  <2> QED BY <1>4, <2>1, <2>3, <2>4 DEF Args!ArgumentsArrive
<1>5. CASE state.err = "failed"
  <2>1. CASE Len(args) > Len(input)
    BY <1>5, <2>1 DEF Args!ArgumentsArrive
  <2>2. CASE Len(args) < Args!Required(input)
    <3>1. PICK i \in DOMAIN input : i > Len(args) /\ input[i].default = "none"
      BY <1>1, <2>2, RequiredFirst
    <3>2. i > Len(args)
      BY <3>1
    <3> QED BY <1>5, <3>1, <3>2 DEF Args!ArgumentsArrive
  <2>3. CASE ~(Len(args) > Len(input)) /\ ~(Len(args) < Args!Required(input))
    <3>1. wrong # {} /\ Args!ArgumentErr(input[Args!Least(wrong)].type, args[Args!Least(wrong)]) = "failed"
      BY <1>5, <2>3 DEF Args!NewArguments
    <3>2. PICK i \in wrong : Args!ArgumentErr(input[i].type, args[i]) = "failed"
      BY <1>3, <3>1
    <3>3. i \in DOMAIN input /\ i <= Len(args) /\ ~(i > Len(args)) /\ args[i] \in Kinds /\ input[i].type \in Types
      BY <1>1, <3>2
    <3>4. \/ Args!Get(input, args, i) = Args!Nothing /\ args[i] \notin Args!Unheeded(input[i].type)
          \/ input[i].type = "Usage" /\ args[i] = "null"
          \/ input[i].type = "Signal" /\ Args!IsUsage(args[i])
      BY <3>2, <3>3, ArgumentGot
    <3> QED BY <1>5, <3>3, <3>4 DEF Args!ArgumentsArrive
  <2> QED BY <2>1, <2>2, <2>3
<1>6. CASE state.err # "none" /\ state.err # "failed"
  BY <1>6 DEF Args!ArgumentsArrive
<1> QED BY <1>4, <1>5, <1>6

LEMMA DeclaredInit == Args!Init => Declared /\ Checked
BY DEF Args!Init, Declared, Checked

LEMMA DeclaredNext == Declared /\ Checked /\ [Args!Next]_(Args!vars) => Declared' /\ Checked'
<1> SUFFICES ASSUME Declared, Checked, [Args!Next]_(Args!vars) PROVE Declared' /\ Checked'
  OBVIOUS
<1>1. ASSUME NEW type \in Types, NEW kind \in Defaults, Args!Declare(type, kind) PROVE Declared' /\ Checked'
  <2> DEFINE p == [type |-> type, default |-> kind]
  <2>1. input' = Append(input, p) /\ state' = state /\ state.err = "declare" /\ Args!ParameterOK(input, type, kind)
    BY <1>1 DEF Args!Declare
  <2>2. p \in Parameters /\ p.type = type /\ p.default = kind
    BY DEF Parameters
  <2> HIDE DEF p
  <2>3. /\ input' \in Seq(Parameters) /\ Len(input) \in Nat
        /\ DOMAIN input' = 1..(Len(input) + 1) /\ DOMAIN input = 1..Len(input)
        /\ \A i \in DOMAIN input : input'[i] = input[i]
        /\ input'[Len(input) + 1] = p
    BY <2>1, <2>2 DEF Declared
  <2>4. ASSUME NEW i \in DOMAIN input', input'[i].default # "none"
        PROVE  /\ Args!DefaultOK(input'[i].type, input'[i].default)
               /\ \A j \in DOMAIN input' : i < j => input'[j].default # "none"
    <3>1. CASE i \in DOMAIN input
      <4>1. input[i].default # "none" /\ input'[i] = input[i]
        BY <2>3, <2>4, <3>1
      <4>2. kind # "none"
        BY <2>1, <3>1, <4>1 DEF Args!ParameterOK
      <4>3. \A j \in DOMAIN input' : j \in DOMAIN input \/ input'[j].default = kind
        BY <2>2, <2>3
      <4> QED BY <2>3, <3>1, <4>1, <4>2, <4>3 DEF Declared
    <3>2. CASE i = Len(input) + 1
      <4>1. input'[i].type = type /\ input'[i].default = kind
        BY <2>2, <2>3, <3>2
      <4>2. Args!DefaultOK(type, kind)
        BY <2>1, <2>4, <4>1 DEF Args!ParameterOK
      <4>3. \A j \in DOMAIN input' : ~(i < j)
        BY <2>3, <3>2
      <4> QED BY <4>1, <4>2, <4>3
    <3> QED BY <2>3, <3>1, <3>2
  <2> QED BY <2>1, <2>3, <2>4 DEF Declared, Checked
<1>2. ASSUME NEW args \in Args!Statements, Args!Call(args) PROVE Declared' /\ Checked'
  <2>1. input' = input /\ state' = [args |-> args, err |-> Args!NewArguments(input, args)]
    BY <1>2 DEF Args!Call
  <2>2. state'.args = args /\ state'.err = Args!NewArguments(input', args)
    BY <2>1
  <2>3. args \in Seq(Kinds)
    BY DEF Args!Statements
  <2> QED BY <2>1, <2>2, <2>3 DEF Declared, Checked
<1>3. CASE UNCHANGED Args!vars
  BY <1>3 DEF Args!vars, Declared, Checked
<1> QED BY <1>1, <1>2, <1>3 DEF Args!Next

\* A statement that is accepted gives its action the argument or the default of each parameter, but for
\* the kinds that NewArguments accepts and the action's look at them does not heed (Unheeded); one that
\* is refused is wrong.  For declarations and statements of any length (arguments.go:18-213).
THEOREM ArgumentsArriveAlways ==
  ASSUME KnownKinds, MaxArgs \in Nat
  PROVE  Args!Spec => []ArgumentsArrive
<1>1. Declared /\ Checked => ArgumentsArrive
  <2> SUFFICES ASSUME Declared, Checked PROVE Args!ArgumentsArrive
    BY DEF ArgumentsArrive
  <2>1. CASE state.err = "declare"
    BY <2>1 DEF Args!ArgumentsArrive
  <2>2. CASE state.args \in Seq(Kinds) /\ state.err = Args!NewArguments(input, state.args)
    BY <2>2, AcceptedArrive
  <2> QED BY <2>1, <2>2 DEF Checked
<1> QED BY <1>1, DeclaredInit, DeclaredNext, PTL DEF Args!Spec

-----------------------------------------------------------------------------
(* ReportIds.                                                               *)

\* The ids of a device's reports are different.
DeviceIds == {ids \in Seq(0..255) : \A i, j \in DOMAIN ids : ids[i] = ids[j] => i = j}
KnownInputs == InputConfigs \subseteq Seq([found : {"known", "missing", "garbled"}, ids : DeviceIds])

\* As long as one device has been added, what is in use are its ids, and it kept them.
Elements(s) == {s[i] : i \in DOMAIN s}
Identity(ids) == [k \in Elements(ids) |-> k]

KeptOf(b) ==
  /\ b = [idMap |-> b.idMap, desc |-> b.desc, from |-> b.from, err |-> b.err]
  /\ \E S : b.desc \in Seq(S)
  /\ \E S : b.from \in Seq(S)
  /\ Len(b.from) = Len(b.desc)
  /\ Len(b.desc) = 0 => b.idMap = <<>>
  /\ Len(b.desc) >= 1 => b.from[1] \in DeviceIds /\ b.desc[1] = b.from[1]
  /\ Len(b.desc) = 1 => b.idMap = Identity(b.from[1])
  /\ Len(b.desc) = 2 /\ Len(b.desc[2]) = 1 => Renumber!Distinct(b)

Kept ==
  /\ input \in Seq([found : {"known", "missing", "garbled"}, ids : DeviceIds])
  /\ KeptOf(state)

\* It does not matter whether the builder has failed.
LEMMA KeptErr ==
  ASSUME NEW b, KeptOf(b), NEW e
  PROVE  KeptOf([b EXCEPT !.err = e])
<1> DEFINE c == [b EXCEPT !.err = e]
<1>1. /\ c.idMap = b.idMap /\ c.desc = b.desc /\ c.from = b.from
      /\ c = [idMap |-> c.idMap, desc |-> c.desc, from |-> c.from, err |-> c.err]
  BY DEF KeptOf
<1>2. Renumber!Distinct(c) <=> Renumber!Distinct(b)
  BY <1>1 DEF Renumber!Distinct, Renumber!ReportsOf, Renumber!IdOf
<1> HIDE DEF c
<1>3. KeptOf(c)
  BY <1>1, <1>2 DEF KeptOf
<1> QED BY <1>3 DEF c

\* If not all ids are in use, one that is not is found.
LEMMA FreeIdFree ==
  ASSUME NEW m, ~Renumber!Full(m), NEW id \in 0..255
  PROVE  Renumber!FreeId(m, id) \in (0..255) \ DOMAIN m
<1> DEFINE S == {n \in 0..255 : Renumber!After(id, n) \notin DOMAIN m}
<1>1. PICK n0 \in 0..255 : n0 \notin DOMAIN m
  BY DEF Renumber!Full
<1>2. \E k \in 0..255 : Renumber!After(id, k) = n0
  <2>1. CASE n0 >= id
    <3>1. n0 - id \in 0..255 /\ id + (n0 - id) = n0 /\ ~(n0 > 255)
      BY <2>1
    <3> QED BY <3>1 DEF Renumber!After
  <2>2. CASE ~(n0 >= id)
    <3>1. n0 - id + 256 \in 0..255 /\ id + (n0 - id + 256) = n0 + 256 /\ n0 + 256 > 255 /\ n0 + 256 - 256 = n0
      BY <2>2
    <3> QED BY <3>1 DEF Renumber!After
  <2> QED BY <2>1, <2>2
<1>3. S \in SUBSET Nat /\ S # {}
  BY <1>1, <1>2
<1>4. PICK n \in S : \A k \in S : n <= k
  <2> HIDE DEF S
  <2> QED BY <1>3, HasLeast
<1>5. /\ n \in 0..255 /\ Renumber!After(id, n) \notin DOMAIN m
      /\ \A k \in 0..(n - 1) : Renumber!After(id, k) \in DOMAIN m
  <2>1. n \in 0..255 /\ Renumber!After(id, n) \notin DOMAIN m
    OBVIOUS
  <2>2. ASSUME NEW k \in 0..(n - 1) PROVE Renumber!After(id, k) \in DOMAIN m
    <3>1. k \in 0..255 /\ ~(n <= k)
      BY <2>1
    <3>2. k \notin S
      BY <1>4, <3>1
    <3> QED BY <3>1, <3>2
  <2> QED BY <2>1, <2>2
<1>6. \A k \in 0..255 : Renumber!After(id, k) \in 0..255
  BY DEF Renumber!After
<1>7. PICK k \in 0..255 : /\ Renumber!FreeId(m, id) = Renumber!After(id, k)
                          /\ Renumber!After(id, k) \notin DOMAIN m
  BY <1>5 DEF Renumber!FreeId
<1>8. Renumber!After(id, k) \in 0..255
  BY <1>6
<1> QED BY <1>7, <1>8, Zenon

\* An id that is not in use is kept.
LEMMA FreeIdKept ==
  ASSUME NEW m, NEW id \in (0..255) \ DOMAIN m
  PROVE  Renumber!FreeId(m, id) = id
<1>1. Renumber!After(id, 0) = id
  BY DEF Renumber!After
<1> DEFINE Good(n) == /\ Renumber!After(id, n) \notin DOMAIN m
                      /\ \A k \in 0..(n - 1) : Renumber!After(id, k) \in DOMAIN m
<1>2. 0 \in 0..255 /\ Good(0)
  BY <1>1
<1>3. \A n \in 0..255 : Good(n) => n = 0
  BY <1>1
<1>4. (CHOOSE n \in 0..255 : Good(n)) = 0
  <2> HIDE DEF Good
  <2> QED BY <1>2, <1>3
<1> QED BY <1>1, <1>4 DEF Renumber!FreeId

\* Without a report the map stays as it is.
LEMMA NoReport ==
  ASSUME NEW m, NEW ids, Len(ids) = 0
  PROVE  Renumber!AssignAll(m, ids) = m
<1> DEFINE Step(maps) == [n \in 0..Len(ids) |-> IF n = 0 THEN m ELSE Renumber!Assign(maps[n - 1], ids[n])]
           f == [n \in 0..0 |-> m]
           g == CHOOSE maps : maps = Step(maps)
<1>1. f = Step(f)
  OBVIOUS
<1>2. g = Step(g)
  <2> HIDE DEF Step, f
  <2> QED BY <1>1
<1>3. g[0] = m
  <2> HIDE DEF g
  <2> QED BY <1>2
<1>4. Renumber!AssignAll(m, ids) = g[0]
  BY DEF Renumber!AssignAll
<1> QED
  <2> HIDE DEF g
  <2> QED BY <1>3, <1>4

LEMMA IdsAre ==
  ASSUME NEW ids \in DeviceIds
  PROVE  Len(ids) \in Nat /\ DOMAIN ids = 1..Len(ids) /\ \A i \in 1..Len(ids) : ids[i] \in 0..255
<1>1. \A S : \A s \in Seq(S) : Len(s) \in Nat /\ DOMAIN s = 1..Len(s) /\ \A i \in 1..Len(s) : s[i] \in S
  OBVIOUS
<1>2. ids \in Seq(0..255)
  BY DEF DeviceIds
<1> QED BY <1>1, <1>2

\* The map after each report of the first device.
LEMMA FirstDevice ==
  ASSUME NEW ids \in DeviceIds
  PROVE  Renumber!AssignAll(<<>>, ids) = Identity(ids)
<1> DEFINE N0 == Len(ids)
           U(n) == [k \in {ids[i] : i \in 1..n} |-> k]
           Step(maps) == [n \in 0..N0 |-> IF n = 0 THEN <<>> ELSE Renumber!Assign(maps[n - 1], ids[n])]
           f == [n \in 0..N0 |-> U(n)]
           g == CHOOSE maps : maps = Step(maps)
<1>1. N0 \in Nat /\ DOMAIN ids = 1..N0 /\ \A i \in 1..N0 : ids[i] \in 0..255
  BY IdsAre
<1>2. ASSUME NEW n \in 1..N0 PROVE Renumber!Assign(U(n - 1), ids[n]) = U(n)
  <2>1. DOMAIN U(n - 1) = {ids[i] : i \in 1..(n - 1)}
    OBVIOUS
  <2>3. ids[n] \in (0..255) \ DOMAIN U(n - 1)
    BY <1>1, <2>1 DEF DeviceIds
  <2>4. Renumber!FreeId(U(n - 1), ids[n]) = ids[n]
    <3> HIDE DEF U
    <3> QED BY <2>3, FreeIdKept
  <2>5. Renumber!Assign(U(n - 1), ids[n])
          = [k \in DOMAIN U(n - 1) \cup {ids[n]} |-> IF k = ids[n] THEN ids[n] ELSE U(n - 1)[k]]
    BY <2>4 DEF Renumber!Assign
  <2>6. DOMAIN U(n - 1) \cup {ids[n]} = {ids[i] : i \in 1..n}
    BY <1>1, <2>1
  <2>7. \A k \in DOMAIN U(n - 1) : U(n - 1)[k] = k
    OBVIOUS
  <2> QED BY <2>5, <2>6, <2>7
<1>3. U(0) = <<>>
  OBVIOUS
<1>4. f = Step(f)
  <2> HIDE DEF U
  <2> QED BY <1>1, <1>2, <1>3
<1>5. g = Step(g)
  <2> HIDE DEF Step
  <2> QED BY <1>4
<1>6. g[0] = U(0) /\ \A n \in 1..N0 : g[n] = Renumber!Assign(g[n - 1], ids[n])
  <2> HIDE DEF g, U
  <2> QED BY <1>1, <1>3, <1>5
<1>7. \A n \in 0..N0 : g[n] = U(n)
  <2> DEFINE Wrong == {n \in 0..N0 : g[n] # U(n)}
  <2> HIDE DEF U, g
  <2> SUFFICES ASSUME Wrong # {} PROVE FALSE
    OBVIOUS
  <2>1. PICK n \in Wrong : \A k \in Wrong : n <= k
    <3>1. Wrong \in SUBSET Nat
      BY <1>1
    <3> HIDE DEF Wrong
    <3> QED BY <3>1, HasLeast
  <2>2. n \in 1..N0 /\ n - 1 \in 0..N0 /\ n - 1 \notin Wrong
    BY <1>1, <1>6, <2>1
  <2>3. g[n - 1] = U(n - 1)
    BY <2>2
  <2> QED BY <1>2, <1>6, <2>1, <2>2, <2>3
<1>8. Renumber!AssignAll(<<>>, ids) = g[N0]
  BY DEF Renumber!AssignAll
<1>9. U(N0) = Identity(ids)
  BY <1>1 DEF Identity, Elements
<1> QED
  <2> HIDE DEF U, g
  <2> QED BY <1>1, <1>7, <1>8, <1>9

\* The map after the report of a device that has one.
LEMMA OneReport ==
  ASSUME NEW m, NEW ids \in DeviceIds, Len(ids) = 1
  PROVE  Renumber!AssignAll(m, ids) = Renumber!Assign(m, ids[1])
<1> DEFINE Step(maps) == [n \in 0..Len(ids) |-> IF n = 0 THEN m ELSE Renumber!Assign(maps[n - 1], ids[n])]
           f == [n \in 0..1 |-> IF n = 0 THEN m ELSE Renumber!Assign(m, ids[1])]
           g == CHOOSE maps : maps = Step(maps)
<1>1. f = Step(f)
  <2>1. DOMAIN f = 0..1 /\ DOMAIN Step(f) = 0..1
    OBVIOUS
  <2>2. f[0] = Step(f)[0] /\ f[1] = Step(f)[1]
    OBVIOUS
  <2>3. \A n \in 0..1 : n = 0 \/ n = 1
    OBVIOUS
  <2> HIDE DEF f
  <2>4. f = [n \in 0..1 |-> f[n]] /\ Step(f) = [n \in 0..1 |-> Step(f)[n]]
    BY DEF f
  <2> HIDE DEF Step
  <2> QED BY <2>2, <2>3, <2>4
<1>2. g = Step(g)
  <2> HIDE DEF Step, f
  <2> QED BY <1>1
<1>3. g[0] = m /\ g[1] = Renumber!Assign(g[0], ids[1])
  <2> HIDE DEF g
  <2> QED BY <1>2
<1>4. Renumber!AssignAll(m, ids) = g[1]
  BY DEF Renumber!AssignAll
<1> QED
  <2> HIDE DEF g
  <2> QED BY <1>3, <1>4

LEMMA Appended ==
  ASSUME NEW S, NEW s \in Seq(S), NEW x
  PROVE  /\ Append(s, x) \in Seq(S \cup {x}) /\ Len(Append(s, x)) = Len(s) + 1
         /\ Append(s, x)[Len(s) + 1] = x /\ Len(s) \in Nat
         /\ \A i \in 1..Len(s) : Append(s, x)[i] = s[i]
<1>1. s \in Seq(S \cup {x}) /\ x \in S \cup {x}
  OBVIOUS
<1> QED BY <1>1

\* One more device: the first one keeps its ids, a second one with one report gets a free one.
LEMMA KeptAdd ==
  ASSUME NEW b, KeptOf(b), NEW ids \in DeviceIds
  PROVE  KeptOf(Renumber!AddInput(b, ids))
<1> DEFINE new == Renumber!AssignAll(b.idMap, ids)
           n == Len(ids) - 1
           hangs == ids # <<>> /\ Renumber!Full(Renumber!AssignAll(b.idMap, SubSeq(ids, 1, n)))
           given == [i \in DOMAIN ids |-> new[ids[i]]]
           c == Renumber!AddInput(b, ids)
<1> SUFFICES ASSUME ~hangs PROVE KeptOf(c)
  <2>1. hangs => c = [b EXCEPT !.err = "hangs"]
    BY DEF Renumber!AddInput
  <2> HIDE DEF hangs, c
  <2>2. hangs => KeptOf(c)
    BY <2>1, KeptErr
  <2> QED BY <2>2 DEF c
<1>1. /\ c.idMap = new /\ c.from = Append(b.from, ids) /\ c.desc = Append(b.desc, given)
      /\ c = [idMap |-> c.idMap, desc |-> c.desc, from |-> c.from, err |-> c.err]
  <2>1. b = [idMap |-> b.idMap, desc |-> b.desc, from |-> b.from, err |-> b.err]
    BY DEF KeptOf
  <2>2. c = [b EXCEPT !.idMap = new, !.from = Append(@, ids), !.desc = Append(@, given)]
    BY DEF Renumber!AddInput
  <2> HIDE DEF new, given, hangs, c
  <2> QED BY <2>1, <2>2
<1>2. DOMAIN ids = 1..Len(ids) /\ Len(ids) \in Nat /\ Len(given) = Len(ids) /\ DOMAIN given = DOMAIN ids
  BY DEF DeviceIds
<1> HIDE DEF given, hangs, c
<1>3. PICK S, T : b.desc \in Seq(S) /\ b.from \in Seq(T)
  BY DEF KeptOf
<1>4. /\ c.desc \in Seq(S \cup {given}) /\ Len(c.desc) = Len(b.desc) + 1
      /\ c.desc[Len(b.desc) + 1] = given /\ Len(b.desc) \in Nat
      /\ \A i \in 1..Len(b.desc) : c.desc[i] = b.desc[i]
  BY <1>1, <1>3, Appended
<1>5. /\ c.from \in Seq(T \cup {ids}) /\ Len(c.from) = Len(b.from) + 1
      /\ c.from[Len(b.from) + 1] = ids
      /\ \A i \in 1..Len(b.from) : c.from[i] = b.from[i]
  BY <1>1, <1>3, Appended
<1>6. CASE Len(b.desc) = 0
  <2>1. new = Identity(ids) /\ \A i \in DOMAIN ids : Identity(ids)[ids[i]] = ids[i]
    BY <1>6, FirstDevice DEF KeptOf, Identity, Elements
  <2>2. ids = [i \in DOMAIN ids |-> ids[i]]
    BY DEF DeviceIds
  <2>3. given = ids
    BY <2>1, <2>2 DEF given
  <2> QED BY <1>1, <1>4, <1>5, <1>6, <2>1, <2>3 DEF KeptOf
<1>7. CASE Len(b.desc) = 1
  <2> DEFINE first == b.from[1]
  <2>1. /\ first \in DeviceIds /\ b.desc[1] = first /\ b.idMap = Identity(first)
        /\ c.desc[1] = first /\ c.from[1] = first /\ c.desc[2] = given
        /\ Len(c.desc) = 2 /\ Len(c.from) = 2
    BY <1>4, <1>5, <1>7 DEF KeptOf
  <2>2. ASSUME Len(given) = 1 PROVE Renumber!Distinct(c)
    <3>1. Len(ids) = 1 /\ ids[1] \in 0..255
      <4>1. Len(ids) = 1 /\ 1 \in DOMAIN ids
        BY <1>2, <2>2
      <4>2. \A i \in DOMAIN ids : ids[i] \in 0..255
        BY IdsAre
      <4> QED BY <4>1, <4>2
    <3>2. new = Renumber!Assign(Identity(first), ids[1])
      BY <2>1, <3>1, OneReport
    <3>3. given[1] = Renumber!FreeId(Identity(first), ids[1])
      BY <1>2, <3>1, <3>2 DEF given, Renumber!Assign
    <3>4. given[1] \notin Elements(first)
      <4>1. DOMAIN Identity(first) = Elements(first)
        BY DEF Identity
      <4>2. ~Renumber!Full(Identity(first))
        <5>1. Len(SubSeq(ids, 1, n)) = 0 /\ ids # <<>>
          BY <3>1 DEF DeviceIds
        <5>2. Renumber!AssignAll(b.idMap, SubSeq(ids, 1, n)) = b.idMap
          BY <5>1, NoReport
        <5> QED BY <2>1, <5>1, <5>2 DEF hangs
      <4> QED BY <3>1, <3>3, <4>1, <4>2, FreeIdFree
    <3>5. /\ DOMAIN c.desc = 1..2 /\ DOMAIN given = 1..1
          /\ \A i, j \in DOMAIN first : first[i] = first[j] => i = j
      BY <1>2, <1>4, <2>1, <3>1 DEF DeviceIds
    <3>6. \A r \in Renumber!ReportsOf(c) :
            \/ r[1] = 1 /\ r[2] \in DOMAIN first /\ r = <<1, r[2]>> /\ Renumber!IdOf(c, r) = first[r[2]]
            \/ r = <<2, 1>> /\ Renumber!IdOf(c, r) = given[1]
      <4> SUFFICES ASSUME NEW r \in Renumber!ReportsOf(c)
                   PROVE \/ r[1] = 1 /\ r[2] \in DOMAIN first /\ r = <<1, r[2]>> /\ Renumber!IdOf(c, r) = first[r[2]]
                         \/ r = <<2, 1>> /\ Renumber!IdOf(c, r) = given[1]
        OBVIOUS
      <4>1. PICK d \in DOMAIN c.desc : r \in {d} \X DOMAIN c.desc[d]
        BY DEF Renumber!ReportsOf
      <4>2. r = <<d, r[2]>> /\ r[1] = d /\ r[2] \in DOMAIN c.desc[d]
        BY <4>1
      <4>3. d = 1 \/ d = 2
        BY <3>5, <4>1
      <4> QED BY <2>1, <3>5, <4>2, <4>3 DEF Renumber!IdOf
    <3>7. \A i \in DOMAIN first : first[i] # given[1]
      BY <3>4 DEF Elements
    <3> HIDE DEF first
    <3> QED BY <3>5, <3>6, <3>7 DEF Renumber!Distinct
  <2> QED BY <1>1, <1>4, <1>5, <2>1, <2>2 DEF KeptOf
<1>8. CASE Len(b.desc) > 1
  BY <1>1, <1>4, <1>5, <1>8 DEF KeptOf
<1>9. Len(b.desc) = 0 \/ Len(b.desc) = 1 \/ Len(b.desc) > 1
  <2>1. Len(b.desc) \in Nat
    BY <1>4
  <2>2. \A l \in Nat : l = 0 \/ l = 1 \/ l > 1
    OBVIOUS
  <2> QED BY <2>1, <2>2
<1> QED BY <1>6, <1>7, <1>8, <1>9

\* The first input device keeps its ids, and the report of one more device that has only
\* one gets an id that is free (node_output.go:172-211), whatever the ids of the devices.
THEOREM OwnIdsAlways ==
  ASSUME KnownInputs
  PROVE  Renumber!Spec => []OwnIds
<1>1. ASSUME NEW b, NEW left, KeptOf(b) PROVE KeptOf(Renumber!Built(b, left))
  <2>1. KeptOf([b EXCEPT !.err = "failed"])
    BY <1>1, KeptErr
  <2> QED BY <1>1, <2>1 DEF Renumber!Built
<1>2. Renumber!Init => Kept
  <2> SUFFICES ASSUME Renumber!Init PROVE Kept
    OBVIOUS
  <2>1. input \in Seq([found : {"known", "missing", "garbled"}, ids : DeviceIds])
    BY DEF Renumber!Init, KnownInputs
  <2>2. <<>> \in Seq({}) /\ Len(<<>>) = 0
    OBVIOUS
  <2>3. KeptOf(Renumber!Start)
    BY <2>2 DEF KeptOf, Renumber!Start
  <2>4. state = Renumber!Built(Renumber!Start, input)
    BY DEF Renumber!Init
  <2> QED BY <1>1, <2>1, <2>3, <2>4 DEF Kept
<1>3. Kept /\ [Renumber!Next]_(Renumber!vars) => Kept'
  <2> SUFFICES ASSUME Kept, [Renumber!Next]_(Renumber!vars) PROVE Kept'
    OBVIOUS
  <2>1. CASE Renumber!Add
    <3> DEFINE R == [found : {"known", "missing", "garbled"}, ids : DeviceIds]
               b == Renumber!AddDevice(state, input[1])
    <3>1. input # <<>> /\ input' = Tail(input) /\ state' = Renumber!Built(b, Tail(input)) /\ input \in Seq(R)
      BY <2>1 DEF Renumber!Add, Kept
    <3>2. input[1] \in R /\ Tail(input) \in Seq(R)
      <4> HIDE DEF R
      <4> QED BY <3>1
    <3>3. KeptOf(b)
      <4>1. KeptOf([state EXCEPT !.err = "failed"]) /\ KeptOf(Renumber!AddInput(state, input[1].ids)) /\ KeptOf(state)
        <5>1. input[1].ids \in DeviceIds /\ KeptOf(state)
          BY <3>2 DEF Kept
        <5> QED BY <5>1, KeptErr, KeptAdd
      <4> QED BY <4>1 DEF Renumber!AddDevice
    <3> HIDE DEF b
    <3>4. KeptOf(state')
      BY <1>1, <3>1, <3>3
    <3> QED BY <3>1, <3>2, <3>4 DEF Kept
  <2>2. CASE UNCHANGED Renumber!vars
    BY <2>2 DEF Renumber!vars, Kept, KeptOf, Renumber!Distinct, Renumber!ReportsOf, Renumber!IdOf
  <2> QED BY <2>1, <2>2 DEF Renumber!Next
<1>4. Kept => OwnIds
  BY DEF Kept, KeptOf, OwnIds, Renumber!OwnIds
<1> QED BY <1>2, <1>3, <1>4, PTL DEF Renumber!Spec

-----------------------------------------------------------------------------
(* ReportBits.                                                              *)

\* f[n] is what the first n fields are joined to.
Joins(f, id, fields, N0) ==
  /\ f[0] = Bits!Prefix(id)
  /\ \A n \in 1..N0 : f[n] = Bits!ConcatBits(f[n - 1], fields[n])

\* The function that EncodeReport defines by recursion exists ...
LEMMA JoinsExist ==
  ASSUME NEW id, NEW fields, NEW N0 \in Nat
  PROVE  \E f : DOMAIN f = 0..N0 /\ Joins(f, id, fields, N0)
<1> DEFINE Good(n, f) == DOMAIN f = 0..n /\ Joins(f, id, fields, n)
           Wrong == {n \in Nat : ~\E f : Good(n, f)}
<1> SUFFICES ASSUME Wrong # {} PROVE FALSE
  OBVIOUS
<1>1. PICK n \in Wrong : \A k \in Wrong : n <= k
  <2>1. Wrong \in SUBSET Nat
    OBVIOUS
  <2> HIDE DEF Wrong
  <2> QED BY <2>1, HasLeast
<1>2. CASE n = 0
  <2> DEFINE f == [k \in 0..0 |-> Bits!Prefix(id)]
  <2>1. Good(0, f)
    BY DEF Joins
  <2> QED BY <1>1, <1>2, <2>1
<1>3. CASE n # 0
  <2>1. n - 1 \in Nat /\ n - 1 \notin Wrong
    BY <1>1, <1>3
  <2>2. PICK g : Good(n - 1, g)
    BY <2>1
  <2> DEFINE f == [k \in 0..n |-> IF k = n THEN Bits!ConcatBits(g[n - 1], fields[n]) ELSE g[k]]
  <2>3. Good(n, f)
    <3>1. f[0] = g[0] /\ f[n] = Bits!ConcatBits(g[n - 1], fields[n]) /\ f[n - 1] = g[n - 1]
      BY <2>1, <1>3
    <3>2. \A k \in 1..(n - 1) : f[k] = g[k] /\ f[k - 1] = g[k - 1]
      BY <2>1
    <3>3. \A k \in 1..n : k = n \/ k \in 1..(n - 1)
      BY <2>1
    <3>4. DOMAIN f = 0..n
      OBVIOUS
    <3> HIDE DEF f
    <3> QED BY <2>2, <3>1, <3>2, <3>3, <3>4 DEF Joins
  <2> QED BY <1>1, <2>3
<1> QED BY <1>2, <1>3

\* ... and there is no other.
LEMMA JoinsAgree ==
  ASSUME NEW id, NEW s, NEW t, NEW f, NEW g, NEW N0 \in Nat,
         Joins(f, id, s, N0), Joins(g, id, t, N0), \A i \in 1..N0 : s[i] = t[i]
  PROVE  \A n \in 0..N0 : f[n] = g[n]
<1> DEFINE Wrong == {n \in 0..N0 : f[n] # g[n]}
<1> SUFFICES ASSUME Wrong # {} PROVE FALSE
  OBVIOUS
<1>1. PICK n \in Wrong : \A k \in Wrong : n <= k
  <2>1. Wrong \in SUBSET Nat
    OBVIOUS
  <2> HIDE DEF Wrong
  <2> QED BY <2>1, HasLeast
<1>2. n \in 1..N0 /\ n - 1 \in 0..N0 /\ n - 1 \notin Wrong
  <2>1. n \in 0..N0 /\ n # 0
    BY <1>1 DEF Joins
  <2> QED BY <1>1, <2>1
<1>3. f[n - 1] = g[n - 1]
  BY <1>2
<1> QED BY <1>1, <1>2, <1>3 DEF Joins

LEMMA EncodeIs ==
  ASSUME NEW id, NEW fields, Len(fields) \in Nat
  PROVE  \E f : Joins(f, id, fields, Len(fields)) /\ Bits!EncodeReport(id, fields) = f[Len(fields)]
<1> DEFINE N0 == Len(fields)
           Step(f) == [n \in 0..N0 |-> IF n = 0 THEN Bits!Prefix(id)
                                                ELSE Bits!ConcatBits(f[n - 1], fields[n])]
           g == CHOOSE f : f = Step(f)
<1>1. PICK f : DOMAIN f = 0..N0 /\ Joins(f, id, fields, N0)
  BY JoinsExist
<1>2. \E h : h = Step(h)
  <2> DEFINE h == [n \in 0..N0 |-> f[n]]
  <2>1. h = Step(h)
    BY <1>1 DEF Joins
  <2> QED BY <2>1
<1>3. g = Step(g)
  <2> HIDE DEF Step
  <2> QED BY <1>2
<1>4. Joins(g, id, fields, N0)
  <2> HIDE DEF g
  <2>1. g[0] = Bits!Prefix(id)
    BY <1>3
  <2>2. \A n \in 1..N0 : g[n] = Bits!ConcatBits(g[n - 1], fields[n])
    BY <1>3
  <2> QED BY <2>1, <2>2 DEF Joins
<1>5. Bits!EncodeReport(id, fields) = g[N0]
  BY DEF Bits!EncodeReport
<1> QED
  <2> HIDE DEF g
  <2> QED BY <1>4, <1>5

\* One more field is joined to what there was.
LEMMA EncodeNone == ASSUME NEW id PROVE Bits!EncodeReport(id, <<>>) = Bits!Prefix(id)
<1>1. Len(<<>>) = 0
  OBVIOUS
<1> QED BY <1>1, EncodeIs DEF Joins

LEMMA EncodeMore ==
  ASSUME NEW id, NEW s, NEW t, Len(s) \in Nat, Len(t) = Len(s) + 1, \A i \in 1..Len(s) : t[i] = s[i]
  PROVE  Bits!EncodeReport(id, t) = Bits!ConcatBits(Bits!EncodeReport(id, s), t[Len(s) + 1])
<1>1. PICK f : Joins(f, id, s, Len(s)) /\ Bits!EncodeReport(id, s) = f[Len(s)]
  BY EncodeIs
<1>2. PICK g : Joins(g, id, t, Len(t)) /\ Bits!EncodeReport(id, t) = g[Len(t)]
  BY EncodeIs
<1>3. Joins(g, id, t, Len(s))
  BY <1>2 DEF Joins
<1>4. f[Len(s)] = g[Len(s)]
  BY <1>1, <1>3, JoinsAgree
<1>5. g[Len(t)] = Bits!ConcatBits(g[Len(t) - 1], t[Len(t)])
  BY <1>2 DEF Joins
<1> QED BY <1>1, <1>2, <1>4, <1>5

\* How many bytes a field takes, and how many bits of the last one are missing.
LEMMA BytesOf ==
  ASSUME NEW n \in Nat
  PROVE  /\ Bits!Bytes(n) \in Nat /\ Bits!MissingBits(n) \in 0..7
         /\ 8 * Bits!Bytes(n) = n + Bits!MissingBits(n) /\ 8 * Bits!Bytes(n) >= n
BY DEF Bits!Bytes, Bits!MissingBits

\* A field of n bits.
Sized(field, n) ==
  field.bits \in Seq({0, 1}) /\ Len(field.bits) = 8 * Bits!Bytes(n) /\ field.missing = Bits!MissingBits(n)

LEMMA SizedLen ==
  ASSUME NEW n \in Nat, NEW field, Sized(field, n)
  PROVE  Bits!BitLen(field) = n
<1>1. Len(field.bits) = 8 * Bits!Bytes(n) /\ field.missing = Bits!MissingBits(n)
  BY DEF Sized
<1>2. Bits!BitLen(field) = 8 * Bits!Bytes(n) - Bits!MissingBits(n)
  BY <1>1 DEF Bits!BitLen
<1>3. Bits!Bytes(n) \in Nat /\ Bits!MissingBits(n) \in Nat /\ 8 * Bits!Bytes(n) = n + Bits!MissingBits(n)
  BY BytesOf
<1> QED BY <1>2, <1>3

\* The sizes of two fields that are joined add up, whether or not their bytes overlap.
LEMMA ConcatSized ==
  ASSUME NEW a \in Nat, NEW b \in Nat, NEW l, NEW r, Sized(l, a), Sized(r, b)
  PROVE  /\ Sized(Bits!ConcatBits(l, r), a + b)
         /\ \A i \in 1..(8 * Bits!Bytes(a + b)) :
              Bits!ConcatBits(l, r).bits[i] = Bits!Or(Bits!BitAt(l, i), IF i > a THEN Bits!BitAt(r, i - a) ELSE 0)
<1> DEFINE c == Bits!ConcatBits(l, r)
           J == Bits!Joined(l, r)
           bit(i) == Bits!Or(Bits!BitAt(l, i), IF i > Bits!BitLen(l) THEN Bits!BitAt(r, i - Bits!BitLen(l)) ELSE 0)
<1>1. Bits!BitLen(l) = a
  BY SizedLen
<1>2. /\ a + b \in Nat
      /\ Bits!Bytes(a) \in Nat /\ Bits!MissingBits(a) \in 0..7 /\ 8 * Bits!Bytes(a) = a + Bits!MissingBits(a)
      /\ Bits!Bytes(b) \in Nat /\ Bits!MissingBits(b) \in 0..7 /\ 8 * Bits!Bytes(b) = b + Bits!MissingBits(b)
      /\ Bits!Bytes(a + b) \in Nat /\ Bits!MissingBits(a + b) \in 0..7
      /\ 8 * Bits!Bytes(a + b) = a + b + Bits!MissingBits(a + b)
  BY BytesOf
<1>3. J = 8 * Bits!Bytes(a + b)
  <2>1. /\ Len(l.bits) = 8 * Bits!Bytes(a) /\ l.missing = Bits!MissingBits(a)
        /\ Len(r.bits) = 8 * Bits!Bytes(b) /\ r.missing = Bits!MissingBits(b)
    BY DEF Sized
  <2>2. J = 8 * Bits!Bytes(a) + 8 * Bits!Bytes(b)
              - (IF Bits!MissingBits(a) + Bits!MissingBits(b) >= 8 THEN 8 ELSE 0)
    BY <2>1 DEF Bits!Joined
  <2> HIDE DEF J
  <2> QED BY <1>2, <2>2
<1>4. (l.missing + r.missing) % 8 = Bits!MissingBits(a + b)
  <2>1. \A x, y \in 0..7 : (x + y) % 8 = IF x + y >= 8 THEN x + y - 8 ELSE x + y
    OBVIOUS
  <2>2. (Bits!MissingBits(a) + Bits!MissingBits(b)) % 8
          = IF Bits!MissingBits(a) + Bits!MissingBits(b) >= 8 THEN Bits!MissingBits(a) + Bits!MissingBits(b) - 8
                                                              ELSE Bits!MissingBits(a) + Bits!MissingBits(b)
    BY <1>2, <2>1
  <2>3. l.missing = Bits!MissingBits(a) /\ r.missing = Bits!MissingBits(b)
    BY DEF Sized
  <2>4. IF Bits!MissingBits(a) + Bits!MissingBits(b) >= 8
          THEN Bits!MissingBits(a) + Bits!MissingBits(b) - 8 = Bits!MissingBits(a + b)
          ELSE Bits!MissingBits(a) + Bits!MissingBits(b) = Bits!MissingBits(a + b)
    BY <1>2
  <2> QED BY <2>2, <2>3, <2>4
<1>5. c = [bits |-> [i \in 1..J |-> bit(i)], missing |-> (l.missing + r.missing) % 8]
  BY DEF Bits!ConcatBits
<1>6. \A i : bit(i) \in {0, 1}
  BY DEF Bits!Or
<1>7. c.bits = [i \in 1..J |-> bit(i)] /\ c.missing = Bits!MissingBits(a + b)
  BY <1>4, <1>5
<1>8. c.bits \in Seq({0, 1}) /\ Len(c.bits) = J
  <2>1. J \in Nat
    BY <1>2, <1>3
  <2> HIDE DEF J, bit, c
  <2>2. [i \in 1..J |-> bit(i)] \in [1..J -> {0, 1}]
    BY <1>6
  <2>3. \A s \in [1..J -> {0, 1}] : s \in Seq({0, 1}) /\ Len(s) = J
    BY <2>1
  <2> QED BY <1>7, <2>2, <2>3
<1>9. \A i \in 1..(8 * Bits!Bytes(a + b)) :
        c.bits[i] = Bits!Or(Bits!BitAt(l, i), IF i > a THEN Bits!BitAt(r, i - a) ELSE 0)
  <2> HIDE DEF J, c
  <2> QED BY <1>1, <1>3, <1>7
<1> QED BY <1>3, <1>7, <1>8, <1>9 DEF Sized

\* A field has the first n bits of a sequence, and in what is missing of its last byte
\* nothing but the bits that come next.
Carries(field, raw, n) ==
  Sized(field, n) /\ \A i \in 1..(8 * Bits!Bytes(n)) : field.bits[i] = raw[i] \/ (i > n /\ field.bits[i] = 0)

LEMMA ConcatCarries ==
  ASSUME NEW raw \in Seq({0, 1}), NEW a \in Nat, NEW b \in Nat, NEW l, NEW r,
         Carries(l, raw, a), Sized(r, b), a + 8 * Bits!Bytes(b) <= Len(raw),
         \A j \in 1..(8 * Bits!Bytes(b)) : r.bits[j] = raw[a + j]
  PROVE  Carries(Bits!ConcatBits(l, r), raw, a + b)
<1> DEFINE c == Bits!ConcatBits(l, r)
<1>1. /\ Sized(c, a + b)
      /\ \A i \in 1..(8 * Bits!Bytes(a + b)) :
           c.bits[i] = Bits!Or(Bits!BitAt(l, i), IF i > a THEN Bits!BitAt(r, i - a) ELSE 0)
  BY ConcatSized DEF Carries
<1>2. /\ a + b \in Nat
      /\ Bits!Bytes(a) \in Nat /\ 8 * Bits!Bytes(a) >= a /\ Bits!Bytes(b) \in Nat /\ 8 * Bits!Bytes(b) >= b
      /\ Bits!Bytes(a + b) \in Nat
  <2>1. a + b \in Nat
    OBVIOUS
  <2>2. Bits!Bytes(a) \in Nat /\ 8 * Bits!Bytes(a) >= a
    BY BytesOf
  <2>3. Bits!Bytes(b) \in Nat /\ 8 * Bits!Bytes(b) >= b
    BY BytesOf
  <2>4. Bits!Bytes(a + b) \in Nat
    BY <2>1, BytesOf
  <2> QED BY <2>1, <2>2, <2>3, <2>4
<1>3. \A i \in 1..Len(raw) : raw[i] \in {0, 1}
  OBVIOUS
<1>4. /\ DOMAIN l.bits = 1..(8 * Bits!Bytes(a)) /\ DOMAIN r.bits = 1..(8 * Bits!Bytes(b))
  BY DEF Carries, Sized
<1>5. ASSUME NEW i \in 1..(8 * Bits!Bytes(a + b)) PROVE c.bits[i] = raw[i] \/ (i > a + b /\ c.bits[i] = 0)
  <2>1. i \in Nat /\ i > 0
    BY <1>2
  <2>2. c.bits[i] = Bits!Or(Bits!BitAt(l, i), IF i > a THEN Bits!BitAt(r, i - a) ELSE 0)
    BY <1>1
  <2>3. CASE i <= a
    <3>1. Bits!BitAt(l, i) = raw[i]
      BY <1>2, <1>4, <2>1, <2>3 DEF Carries, Bits!BitAt
    <3>2. raw[i] \in {0, 1}
      BY <1>2, <1>3, <2>1, <2>3
    <3> QED BY <2>1, <2>2, <2>3, <3>1, <3>2 DEF Bits!Or
  <2>4. CASE i > a
    <3>1. Bits!BitAt(l, i) \in {0, raw[i]}
      BY <1>4 DEF Carries, Bits!BitAt
    <3>2. CASE i - a <= 8 * Bits!Bytes(b)
      <4>1. i - a \in 1..(8 * Bits!Bytes(b)) /\ a + (i - a) = i /\ i \in 1..Len(raw)
        BY <1>2, <2>1, <2>4, <3>2
      <4>2. Bits!BitAt(r, i - a) = raw[i]
        BY <1>4, <4>1 DEF Bits!BitAt
      <4>3. raw[i] \in {0, 1}
        BY <1>3, <4>1
      <4> QED BY <2>2, <2>4, <3>1, <4>2, <4>3 DEF Bits!Or
    <3>3. CASE ~(i - a <= 8 * Bits!Bytes(b))
      <4>1. Bits!BitAt(r, i - a) = 0 /\ i > a + b
        BY <1>2, <1>4, <2>1, <3>3 DEF Bits!BitAt
      <4>2. c.bits[i] = Bits!Or(Bits!BitAt(l, i), 0)
        BY <2>2, <2>4, <4>1
      <4>3. c.bits[i] \in {0, raw[i]}
        <5>1. Bits!Or(0, 0) = 0 /\ Bits!Or(1, 0) = 1
          BY DEF Bits!Or
        <5>2. CASE i \in DOMAIN l.bits
          <6>1. l.bits[i] \in {0, 1} /\ Bits!BitAt(l, i) = l.bits[i]
            BY <5>2 DEF Carries, Sized, Bits!BitAt
          <6> QED BY <3>1, <4>2, <5>1, <6>1
        <5>3. CASE i \notin DOMAIN l.bits
          BY <4>2, <5>1, <5>3 DEF Bits!BitAt
        <5> QED BY <5>2, <5>3
      <4> QED BY <4>1, <4>3
    <3> QED BY <3>2, <3>3
  <2> QED BY <1>2, <2>1, <2>3, <2>4
<1> QED BY <1>1, <1>5 DEF Carries

\* A report is in whole bytes.
KnownReports ==
  /\ Reports \subseteq [id : Nat, data : {d \in Seq({0, 1}) : Len(d) % 8 = 0}]
  /\ Sizes \subseteq Nat

\* What is encoded is compared with the report, its id in front.
HeadBits == IF input.id = 0 THEN 0 ELSE 8
Raw == Bits!Prefix(input.id).bits \o input.data
Blank(fields) == [i \in DOMAIN fields |-> Bits!NewZeros(Bits!BitLen(fields[i]))]

\* What has been read so far is encoded as the beginning of the report.
Scanned ==
  /\ input \in Reports
  /\ state = [offset |-> state.offset, fields |-> state.fields, err |-> state.err]
  /\ state.offset \in Nat /\ state.offset <= Len(input.data)
  /\ \E S : state.fields \in Seq(S)
  /\ Carries(Bits!EncodeReport(input.id, state.fields), Raw, HeadBits + state.offset)
  /\ Sized(Bits!EncodeReport(input.id, Blank(state.fields)), HeadBits + state.offset)

LEMMA PrefixSized ==
  ASSUME NEW id \in Nat
  PROVE  Sized(Bits!Prefix(id), IF id = 0 THEN 0 ELSE 8)
<1>1. Bits!Bytes(0) = 0 /\ Bits!MissingBits(0) = 0 /\ Bits!Bytes(8) = 1 /\ Bits!MissingBits(8) = 0
  BY DEF Bits!Bytes, Bits!MissingBits
<1>2. Bits!IdBits(id) \in Seq({0, 1}) /\ Len(Bits!IdBits(id)) = 8
  <2>1. \A i \in 1..8 : (id \div (2 ^ (8 - i))) % 2 \in {0, 1}
    OBVIOUS
  <2>2. Bits!IdBits(id) \in [1..8 -> {0, 1}]
    BY <2>1 DEF Bits!IdBits
  <2>3. \A k \in Nat : \A s \in [1..k -> {0, 1}] : s \in Seq({0, 1}) /\ Len(s) = k
    OBVIOUS
  <2> QED BY <2>2, <2>3
<1>3. <<>> \in Seq({0, 1}) /\ Len(<<>>) = 0
  OBVIOUS
<1>4. CASE id = 0
  <2>1. Bits!Prefix(id).bits = <<>> /\ Bits!Prefix(id).missing = 0
    BY <1>4 DEF Bits!Prefix
  <2>2. Bits!Prefix(id).bits \in Seq({0, 1}) /\ Len(Bits!Prefix(id).bits) = 0
    BY <1>3, <2>1
  <2>3. 8 * Bits!Bytes(0) = 0
    BY <1>1
  <2>4. Sized(Bits!Prefix(id), 0)
    BY <1>1, <2>1, <2>2, <2>3 DEF Sized
  <2> QED BY <1>4, <2>4
<1>5. CASE id # 0
  <2>1. Bits!Prefix(id).bits = Bits!IdBits(id) /\ Bits!Prefix(id).missing = 0
    BY <1>5 DEF Bits!Prefix
  <2> QED BY <1>1, <1>2, <1>5, <2>1 DEF Sized
<1> QED BY <1>4, <1>5

LEMMA RawIs ==
  ASSUME KnownReports, input \in Reports
  PROVE  /\ input.id \in Nat /\ input.data \in Seq({0, 1}) /\ Len(input.data) \in Nat
         /\ Sized(Bits!Prefix(input.id), HeadBits) /\ HeadBits \in {0, 8}
         /\ Raw \in Seq({0, 1}) /\ Len(Raw) = HeadBits + Len(input.data)
         /\ \A i \in 1..HeadBits : Raw[i] = Bits!Prefix(input.id).bits[i]
         /\ \A i \in 1..Len(input.data) : Raw[HeadBits + i] = input.data[i]
<1>1. input.id \in Nat /\ input.data \in Seq({0, 1})
  BY DEF KnownReports
<1>2. Sized(Bits!Prefix(input.id), HeadBits) /\ HeadBits \in {0, 8}
  BY <1>1, PrefixSized DEF HeadBits
<1>3. Bits!Prefix(input.id).bits \in Seq({0, 1}) /\ Len(Bits!Prefix(input.id).bits) = HeadBits
  BY <1>2 DEF Sized, Bits!Bytes
<1>4. \A s, t \in Seq({0, 1}) :
        /\ s \o t \in Seq({0, 1}) /\ Len(s \o t) = Len(s) + Len(t) /\ Len(t) \in Nat
        /\ \A i \in 1..Len(s) : (s \o t)[i] = s[i]
        /\ \A i \in 1..Len(t) : (s \o t)[Len(s) + i] = t[i]
  OBVIOUS
<1> QED BY <1>1, <1>2, <1>3, <1>4 DEF Raw

\* A field that lies within the report has the bits from its offset on.
LEMMA FieldIs ==
  ASSUME KnownReports, input \in Reports, NEW offset \in Nat, NEW size \in Nat, size # 0,
         8 * Bits!Reach(offset, size) <= Len(input.data)
  PROVE  LET field == Bits!Field(input.data, offset, size) IN
         /\ Sized(field, size) /\ offset + 8 * Bits!Bytes(size) <= Len(input.data)
         /\ \A j \in 1..(8 * Bits!Bytes(size)) : field.bits[j] = Raw[HeadBits + offset + j]
<1> DEFINE n == 8 * Bits!Bytes(size)
           t == SubSeq(input.data, offset + 1, offset + n)
<1>1. n \in Nat /\ offset + n <= 8 * Bits!Reach(offset, size) /\ 8 * Bits!Reach(offset, size) \in Nat
  BY DEF Bits!Reach, Bits!Bytes
<1>2. offset + n <= Len(input.data) /\ input.data \in Seq({0, 1}) /\ Len(input.data) \in Nat /\ HeadBits \in Nat
  BY <1>1, RawIs
<1> HIDE DEF n
<1>3. t \in Seq({0, 1}) /\ Len(t) = n /\ \A j \in 1..n : t[j] = input.data[offset + j]
  BY <1>1, <1>2
<1>4. \A j \in 1..n : input.data[offset + j] = Raw[HeadBits + offset + j]
  <2> SUFFICES ASSUME NEW j \in 1..n PROVE input.data[offset + j] = Raw[HeadBits + offset + j]
    OBVIOUS
  <2>1. offset + j \in 1..Len(input.data) /\ HeadBits + (offset + j) = HeadBits + offset + j
    BY <1>1, <1>2
  <2> QED BY <2>1, RawIs
<1>5. Bits!Field(input.data, offset, size) = [bits |-> t, missing |-> Bits!MissingBits(size)]
  BY DEF Bits!Field, n
<1>6. Sized(Bits!Field(input.data, offset, size), size)
  <2> HIDE DEF t
  <2>1. Bits!Field(input.data, offset, size).bits = t
        /\ Bits!Field(input.data, offset, size).missing = Bits!MissingBits(size)
    BY <1>5
  <2>2. Len(t) = 8 * Bits!Bytes(size)
    BY <1>3 DEF n
  <2> QED BY <1>3, <2>1, <2>2 DEF Sized
<1>7. \A j \in 1..n : Bits!Field(input.data, offset, size).bits[j] = Raw[HeadBits + offset + j]
  <2> HIDE DEF t
  <2> QED BY <1>3, <1>4, <1>5
<1> QED BY <1>2, <1>6, <1>7 DEF n

LEMMA ZerosSized ==
  ASSUME NEW n \in Nat
  PROVE  Sized(Bits!NewZeros(n), n)
<1>1. 8 * Bits!Bytes(n) \in Nat
  BY BytesOf
<1>2. \A k \in Nat : [i \in 1..k |-> 0] \in Seq({0, 1}) /\ Len([i \in 1..k |-> 0]) = k
  OBVIOUS
<1> QED BY <1>1, <1>2 DEF Sized, Bits!NewZeros

LEMMA ScannedInit == ASSUME KnownReports, Bits!Init PROVE Scanned
<1>1. /\ input \in Reports /\ state = [offset |-> 0, fields |-> <<>>, err |-> "none"]
  BY DEF Bits!Init, Bits!Start
<1>2. Blank(<<>>) = <<>> /\ <<>> \in Seq({})
  BY DEF Blank
<1>3. Sized(Bits!Prefix(input.id), HeadBits) /\ HeadBits \in {0, 8}
  BY <1>1, RawIs
<1>4. Bits!EncodeReport(input.id, <<>>) = Bits!Prefix(input.id) /\ HeadBits + 0 = HeadBits
  BY <1>3, EncodeNone
<1>5. Carries(Bits!Prefix(input.id), Raw, HeadBits)
  <2>1. 8 * Bits!Bytes(HeadBits) = HeadBits
    BY <1>3 DEF Bits!Bytes
  <2> QED BY <1>1, <1>3, <2>1, RawIs DEF Carries
<1>6. 0 <= Len(input.data)
  BY <1>1, RawIs
<1> QED BY <1>1, <1>2, <1>3, <1>4, <1>5, <1>6 DEF Scanned

LEMMA ScannedRead ==
  ASSUME KnownReports, Scanned, NEW size \in Sizes, Bits!Read(size)
  PROVE  Scanned'
<1> DEFINE r == Bits!Field(input.data, state.offset, size)
           a == HeadBits + state.offset
           enc == Bits!EncodeReport(input.id, state.fields)
           zer == Bits!EncodeReport(input.id, Blank(state.fields))
<1>1. /\ state.offset + size <= Len(input.data) /\ state' = Bits!ScanNext(input.data, state, size) /\ input' = input
      /\ size \in Nat /\ state.offset \in Nat /\ input \in Reports
      /\ state = [offset |-> state.offset, fields |-> state.fields, err |-> state.err]
      /\ HeadBits' = HeadBits /\ Raw' = Raw
  BY DEF Bits!Read, Scanned, KnownReports, HeadBits, Raw
<1>2. CASE 8 * Bits!Reach(state.offset, size) > Len(input.data) \/ size = 0
  <2>1. /\ state'.offset = state.offset /\ state'.fields = state.fields
        /\ state' = [offset |-> state'.offset, fields |-> state'.fields, err |-> state'.err]
    <3>1. state' = [state EXCEPT !.err = "panic"] \/ state' = [state EXCEPT !.err = "failed"]
      BY <1>1, <1>2 DEF Bits!ScanNext
    <3> QED BY <1>1, <3>1
  <2> QED BY <1>1, <2>1 DEF Scanned, Blank
<1>3. CASE ~(8 * Bits!Reach(state.offset, size) > Len(input.data)) /\ size # 0
  <2>1. /\ state'.offset = state.offset + size /\ state'.fields = Append(state.fields, r)
        /\ state' = [offset |-> state'.offset, fields |-> state'.fields, err |-> state'.err]
    <3>1. state' = [state EXCEPT !.offset = @ + size, !.fields = Append(@, r)]
      BY <1>1, <1>3 DEF Bits!ScanNext
    <3> HIDE DEF r
    <3> QED BY <1>1, <3>1
  <2>2. /\ Sized(r, size) /\ state.offset + 8 * Bits!Bytes(size) <= Len(input.data)
        /\ \A j \in 1..(8 * Bits!Bytes(size)) : r.bits[j] = Raw[HeadBits + state.offset + j]
    <3>1. 8 * Bits!Reach(state.offset, size) <= Len(input.data)
      <4>1. 8 * Bits!Reach(state.offset, size) \in Nat /\ Len(input.data) \in Nat
        BY <1>1, RawIs DEF Bits!Reach, Bits!Bytes
      <4> QED BY <1>3, <4>1
    <3> QED BY <1>1, <1>3, <3>1, FieldIs
  <2>3. PICK S : state.fields \in Seq(S)
    BY DEF Scanned
  <2> HIDE DEF r
  <2>4. /\ Append(state.fields, r) \in Seq(S \cup {r}) /\ Len(Append(state.fields, r)) = Len(state.fields) + 1
        /\ Append(state.fields, r)[Len(state.fields) + 1] = r /\ Len(state.fields) \in Nat
        /\ \A i \in 1..Len(state.fields) : Append(state.fields, r)[i] = state.fields[i]
    BY <2>3, Appended
  <2>5. Bits!EncodeReport(input.id, state'.fields) = Bits!ConcatBits(enc, r)
    <3> DEFINE s == state.fields
               t == Append(s, r)
    <3>1. Len(s) \in Nat /\ Len(t) = Len(s) + 1 /\ t[Len(s) + 1] = r /\ \A i \in 1..Len(s) : t[i] = s[i]
      BY <2>4
    <3>2. state'.fields = t
      BY <2>1
    <3> HIDE DEF s, t
    <3>3. Bits!EncodeReport(input.id, t) = Bits!ConcatBits(Bits!EncodeReport(input.id, s), t[Len(s) + 1])
      BY <3>1, EncodeMore
    <3> QED BY <3>1, <3>2, <3>3 DEF s
  <2>6. Bits!EncodeReport(input.id, Blank(state'.fields)) = Bits!ConcatBits(zer, Bits!NewZeros(size))
    <3> DEFINE s == state.fields
               t == Append(state.fields, r)
    <3>1. Bits!BitLen(r) = size
      BY <1>1, <2>2, SizedLen
    <3>2. DOMAIN s = 1..Len(s) /\ DOMAIN t = 1..(Len(s) + 1)
      BY <2>3, <2>4
    <3>3. /\ Len(Blank(s)) = Len(s) /\ Len(Blank(t)) = Len(s) + 1
          /\ \A i \in 1..Len(s) : Blank(t)[i] = Blank(s)[i]
          /\ Blank(t)[Len(s) + 1] = Bits!NewZeros(size)
      <4>1. DOMAIN Blank(s) = 1..Len(s) /\ DOMAIN Blank(t) = 1..(Len(s) + 1)
        BY <3>2 DEF Blank
      <4>2. \A f : \A n \in Nat : DOMAIN f = 1..n => Len(f) = n
        OBVIOUS
      <4>3. Len(Blank(s)) = Len(s) /\ Len(Blank(t)) = Len(s) + 1
        <5> HIDE DEF s, t
        <5>1. Len(s) \in Nat /\ Len(s) + 1 \in Nat
          BY <2>4 DEF s
        <5> QED BY <4>1, <4>2, <5>1
      <4>4. \A i \in 1..(Len(s) + 1) : Blank(t)[i] = Bits!NewZeros(Bits!BitLen(t[i]))
        BY <3>2 DEF Blank
      <4>5. \A i \in 1..Len(s) : Blank(s)[i] = Bits!NewZeros(Bits!BitLen(s[i])) /\ i \in 1..(Len(s) + 1) /\ t[i] = s[i]
        BY <2>4, <3>2 DEF Blank
      <4>6. Len(s) + 1 \in 1..(Len(s) + 1) /\ t[Len(s) + 1] = r
        BY <2>4
      <4> HIDE DEF s, t
      <4> QED BY <3>1, <4>3, <4>4, <4>5, <4>6
    <3>4. Len(Blank(s)) \in Nat
      BY <2>4, <3>3
    <3> QED BY <2>1, <3>3, <3>4, EncodeMore
  <2>7. a \in Nat /\ a + size = HeadBits + state'.offset /\ a + 8 * Bits!Bytes(size) <= Len(Raw) /\ Raw \in Seq({0, 1})
    <3>1. Len(Raw) = HeadBits + Len(input.data) /\ HeadBits \in Nat /\ Len(input.data) \in Nat /\ Raw \in Seq({0, 1})
      BY <1>1, RawIs
    <3>2. Bits!Bytes(size) \in Nat
      BY <1>1, BytesOf
    <3>3. state.offset \in Nat /\ size \in Nat /\ state'.offset = state.offset + size
      BY <1>1, <2>1
    <3>4. state.offset + 8 * Bits!Bytes(size) <= Len(input.data)
      BY <2>2
    <3> QED BY <3>1, <3>2, <3>3, <3>4
  <2>8. Carries(enc, Raw, a) /\ Sized(zer, a)
    BY DEF Scanned
  <2> HIDE DEF a, enc, zer
  <2>9. Carries(Bits!ConcatBits(enc, r), Raw, a + size)
    <3>1. \A j \in 1..(8 * Bits!Bytes(size)) : r.bits[j] = Raw[a + j]
      BY <2>2 DEF a
    <3> QED BY <1>1, <2>2, <2>7, <2>8, <3>1, ConcatCarries
  <2>10. Sized(Bits!ConcatBits(zer, Bits!NewZeros(size)), a + size)
    BY <1>1, <2>7, <2>8, ZerosSized, ConcatSized
  <2>11. state'.offset \in Nat /\ state'.offset <= Len(input'.data)
    BY <1>1, <2>1
  <2> QED BY <1>1, <2>1, <2>4, <2>5, <2>6, <2>7, <2>9, <2>10, <2>11 DEF Scanned
<1> QED BY <1>2, <1>3

\* Whatever the sizes of the fields and the bits of the report: what was decoded is encoded
\* as the same bits, and fields that were set up as zeros add up to the same size
\* (codec.go:15-47, bits.go:314-341).
THEOREM BitsKeptAlways ==
  ASSUME KnownReports
  PROVE  Bits!Spec => []BitsKept
<1>1. Scanned /\ [Bits!Next]_(Bits!vars) => Scanned'
  <2> SUFFICES ASSUME Scanned, [Bits!Next]_(Bits!vars) PROVE Scanned'
    OBVIOUS
  <2>1. CASE UNCHANGED Bits!vars
    BY <2>1 DEF Bits!vars, Scanned, Raw, HeadBits, Blank
  <2> QED BY <2>1, ScannedRead DEF Bits!Next
<1>2. Scanned => BitsKept
  <2> SUFFICES ASSUME Scanned PROVE Bits!BitsKept
    BY DEF BitsKept
  <2> DEFINE encoded == Bits!EncodeReport(input.id, state.fields)
             zeros == Bits!EncodeReport(input.id, Blank(state.fields))
             size == HeadBits + state.offset
  <2>1. Bits!BitLen(Bits!Prefix(input.id)) = HeadBits /\ HeadBits \in Nat
    <3>1. HeadBits \in Nat /\ Sized(Bits!Prefix(input.id), HeadBits)
      BY RawIs DEF Scanned
    <3> QED BY <3>1, SizedLen
  <2>2. size \in Nat /\ Len(Raw) \in Nat /\ size <= Len(Raw) /\ Raw \in Seq({0, 1})
    BY <2>1, RawIs DEF Scanned
  <2>3. Carries(encoded, Raw, size) /\ Sized(zeros, size)
    BY DEF Scanned
  <2> HIDE DEF encoded, zeros, size
  <2>4. Bits!BitLen(encoded) = size /\ Len(encoded.bits) = 8 * Bits!Bytes(size) /\ encoded.bits \in Seq({0, 1})
    BY <2>2, <2>3, SizedLen DEF Carries, Sized
  <2>5. zeros.missing = encoded.missing /\ Len(zeros.bits) = Len(encoded.bits)
    BY <2>3 DEF Carries, Sized
  <2>6. SubSeq(encoded.bits, 1, size) = SubSeq(Raw, 1, size)
    <3>1. size <= 8 * Bits!Bytes(size) /\ 8 * Bits!Bytes(size) \in Nat
      <4>1. size \in Nat
        BY <2>2
      <4>2. Bits!Bytes(size) \in Nat /\ 8 * Bits!Bytes(size) >= size
        BY <4>1, BytesOf
      <4> QED BY <4>1, <4>2
    <3>2. \A i \in 1..size : encoded.bits[i] = Raw[i]
      BY <2>2, <2>3, <3>1 DEF Carries
    <3>3. SubSeq(encoded.bits, 1, size) = [i \in 1..size |-> encoded.bits[i]]
      BY <2>2, <2>4, <3>1
    <3>4. SubSeq(Raw, 1, size) = [i \in 1..size |-> Raw[i]]
      BY <2>2
    <3> QED BY <3>2, <3>3, <3>4
  <2> QED BY <2>1, <2>4, <2>5, <2>6 DEF Bits!BitsKept, encoded, zeros, size, Raw, Blank
<1> QED BY <1>1, <1>2, ScannedInit, PTL DEF Bits!Spec

-----------------------------------------------------------------------------
(* Triggers.                                                                *)

\* A mapping has some keys, finitely many, and there are finitely many devices.
MappingSet == [keys : {K \in SUBSET BoundUsages : K # {} /\ IsFiniteSet(K)}, to : SUBSET Toggled]
KnownMappings == IsFiniteSet(Devices) /\ MappingConfigs \subseteq Seq(MappingSet)

\* The devices h says hold a usage, and what a mapping's trigger makes of them.
HoldersIn(h, u) == {d \in Devices : u \in h[d]}
AllHeld(h, keys) == \A u \in keys : HoldersIn(h, u) # {}
CountersOf(h, keys) == [u \in {v \in keys : HoldersIn(h, v) # {}} |-> Cardinality(HoldersIn(h, u))]

\* If the mappings are separate.
Watching ==
  /\ state = [held |-> state.held, counters |-> state.counters, triggered |-> state.triggered,
              event |-> state.event, passed |-> state.passed]
  /\ state.held \in [Devices -> SUBSET BoundUsages]
  /\ state.counters = [i \in DOMAIN input |-> CountersOf(state.held, input[i].keys)]
  /\ state.triggered = [i \in DOMAIN input |-> AllHeld(state.held, input[i].keys)]
  /\ DOMAIN state.passed = BoundUsages \cup Toggled
  /\ \A u \in BoundUsages \ Mappings!Combined :
       state.passed[u] = IF u \in Mappings!MappedKeys THEN 0 ELSE Cardinality(HoldersIn(state.held, u))
  /\ \A u \in Mappings!Targets :
       state.passed[u] = IF \E i \in DOMAIN input : AllHeld(state.held, input[i].keys) /\ u \in input[i].to
                           THEN 1 ELSE 0

Watched == input \in Seq(MappingSet) /\ (Mappings!Separate => Watching)

LEMMA CardSame == \A S : Mappings!Cardinality(S) = Cardinality(S)
BY Zenon DEF Mappings!Cardinality, Cardinality

LEMMA HoldingFinite ==
  ASSUME KnownMappings, NEW h, NEW u
  PROVE  /\ IsFiniteSet(HoldersIn(h, u)) /\ Cardinality(HoldersIn(h, u)) \in Nat
         /\ Cardinality(HoldersIn(h, u)) = 0 <=> HoldersIn(h, u) = {}
<1>1. IsFiniteSet(HoldersIn(h, u))
  <2>1. HoldersIn(h, u) \subseteq Devices /\ IsFiniteSet(Devices)
    BY DEF HoldersIn, KnownMappings
  <2> QED BY <2>1, FS_Subset
<1> QED BY <1>1, FS_CardinalityType, FS_EmptySet

Delta(pressed, released, u) == IF u \in pressed THEN 1 ELSE IF u \in released THEN -1 ELSE 0

\* A device that presses and releases usages makes g of h.
Moves(h, s, pressed, released, g) ==
  /\ h \in [Devices -> SUBSET BoundUsages] /\ s \in Devices
  /\ pressed \subseteq BoundUsages \ h[s] /\ released \subseteq h[s]
  /\ g = [h EXCEPT ![s] = (@ \cup pressed) \ released]

\* What a device does to a usage changes the number of its holders by one.
LEMMA HoldersAfter ==
  ASSUME KnownMappings, NEW h, NEW s, NEW pressed, NEW released, NEW g, Moves(h, s, pressed, released, g), NEW u
  PROVE  /\ Cardinality(HoldersIn(g, u)) = Cardinality(HoldersIn(h, u)) + Delta(pressed, released, u)
         /\ u \in pressed => s \in HoldersIn(g, u)
         /\ u \in released => s \in HoldersIn(h, u)
<1>1. s \in Devices /\ g[s] = (h[s] \cup pressed) \ released /\ \A d \in Devices \ {s} : g[d] = h[d]
  BY DEF Moves
<1>2. pressed \cap released = {} /\ pressed \cap h[s] = {} /\ released \subseteq h[s]
  BY DEF Moves
<1>3. CASE u \in pressed
  <2>1. s \notin HoldersIn(h, u) /\ HoldersIn(g, u) = HoldersIn(h, u) \cup {s}
    BY <1>1, <1>2, <1>3 DEF HoldersIn
  <2>2. Cardinality(HoldersIn(h, u) \cup {s}) = Cardinality(HoldersIn(h, u)) + 1
    BY <2>1, HoldingFinite, FS_AddElement
  <2> QED BY <1>2, <1>3, <2>1, <2>2 DEF Delta
<1>4. CASE u \in released
  <2>1. s \in HoldersIn(h, u) /\ HoldersIn(g, u) = HoldersIn(h, u) \ {s}
    BY <1>1, <1>2, <1>4 DEF HoldersIn
  <2>2. Cardinality(HoldersIn(h, u) \ {s}) = Cardinality(HoldersIn(h, u)) - 1
    BY <2>1, HoldingFinite, FS_RemoveElement
  <2>3. Cardinality(HoldersIn(h, u)) \in Nat
    BY HoldingFinite
  <2> QED BY <1>2, <1>4, <2>1, <2>2, <2>3 DEF Delta
<1>5. CASE u \notin pressed /\ u \notin released
  <2>1. HoldersIn(g, u) = HoldersIn(h, u)
    BY <1>1, <1>5 DEF HoldersIn
  <2>2. Cardinality(HoldersIn(h, u)) \in Nat
    BY HoldingFinite
  <2> QED BY <1>5, <2>1, <2>2 DEF Delta
<1> QED BY <1>3, <1>4, <1>5

\* A trigger is active if and only if all keys are held.
LEMMA ActiveIff ==
  ASSUME NEW h, NEW keys, IsFiniteSet(keys)
  PROVE  Mappings!IsActive(CountersOf(h, keys), keys) <=> AllHeld(h, keys)
<1> DEFINE D == {v \in keys : HoldersIn(h, v) # {}}
<1>1. DOMAIN CountersOf(h, keys) = D
  BY DEF CountersOf
<1>2. D \subseteq keys /\ (Cardinality(D) = Cardinality(keys) <=> D = keys)
  <2>1. D \subseteq keys
    OBVIOUS
  <2> HIDE DEF D
  <2> QED BY <2>1, FS_Subset
<1>3. D = keys <=> AllHeld(h, keys)
  BY DEF AllHeld
<1> HIDE DEF D
<1> QED BY <1>1, <1>2, <1>3, CardSame DEF Mappings!IsActive

\* Check counts the holders, if the event has what the device did to the keys.
LEMMA CountIs ==
  ASSUME KnownMappings, NEW h, NEW s, NEW pressed, NEW released, NEW g, Moves(h, s, pressed, released, g),
         NEW keys, NEW event,
         \A u \in keys : (u \in event.on <=> u \in pressed) /\ (u \in event.off <=> u \in released)
  PROVE  Mappings!Count(CountersOf(h, keys), event, keys) = CountersOf(g, keys)
<1> DEFINE n(u) == Mappings!Number(CountersOf(h, keys), u) + Mappings!Change(event, u)
<1>1. ASSUME NEW u \in keys PROVE n(u) = Cardinality(HoldersIn(g, u))
  <2>1. Mappings!Number(CountersOf(h, keys), u) = Cardinality(HoldersIn(h, u))
    <3>1. CASE HoldersIn(h, u) = {}
      <4>1. u \notin DOMAIN CountersOf(h, keys)
        BY <3>1 DEF CountersOf
      <4> QED BY <3>1, <4>1, HoldingFinite DEF Mappings!Number
    <3>2. CASE HoldersIn(h, u) # {}
      BY <3>2 DEF CountersOf, Mappings!Number
    <3> QED BY <3>1, <3>2
  <2>2. Mappings!Change(event, u) = Delta(pressed, released, u)
    BY DEF Mappings!Change, Delta
  <2>3. Cardinality(HoldersIn(g, u)) = Cardinality(HoldersIn(h, u)) + Delta(pressed, released, u)
    BY HoldersAfter
  <2> QED BY <2>1, <2>2, <2>3
<1>2. \A u \in keys : n(u) > 0 <=> HoldersIn(g, u) # {}
  <2> SUFFICES ASSUME NEW u \in keys PROVE n(u) > 0 <=> HoldersIn(g, u) # {}
    OBVIOUS
  <2>1. n(u) = Cardinality(HoldersIn(g, u))
    BY <1>1
  <2>2. Cardinality(HoldersIn(g, u)) \in Nat /\ (Cardinality(HoldersIn(g, u)) = 0 <=> HoldersIn(g, u) = {})
    BY HoldingFinite
  <2> HIDE DEF n
  <2>3. \A m \in Nat : m > 0 <=> m # 0
    OBVIOUS
  <2> QED BY <2>1, <2>2, <2>3, Zenon
<1>3. Mappings!Count(CountersOf(h, keys), event, keys) = [u \in {v \in keys : n(v) > 0} |-> n(u)]
  BY DEF Mappings!Count
<1> HIDE DEF n
<1>4. {v \in keys : n(v) > 0} = {v \in keys : HoldersIn(g, v) # {}}
  BY <1>2
<1> QED BY <1>1, <1>3, <1>4 DEF CountersOf

-----------------------------------------------------------------------------
\* What the first n mappings leave of an event, and what they make of the node.
Taken(h, g, i) == AllHeld(h, input[i].keys) \/ AllHeld(g, input[i].keys)
Begun(h, g, i) == AllHeld(g, input[i].keys) /\ ~AllHeld(h, input[i].keys)

LeftOf(h, g, usages, n) == {u \in usages : \A i \in 1..n : u \in input[i].keys => ~Taken(h, g, i)}
ToggledBy(h, g, n) == UNION {input[i].to : i \in {k \in 1..n : Begun(h, g, k)}}

AfterFirst(b, h, g, pressed, released, n) ==
  [held |-> b.held,
   counters |-> [i \in DOMAIN input |-> CountersOf(IF i <= n THEN g ELSE h, input[i].keys)],
   triggered |-> [i \in DOMAIN input |-> AllHeld(IF i <= n THEN g ELSE h, input[i].keys)],
   event |-> [on |-> LeftOf(h, g, pressed, n) \cup ToggledBy(h, g, n),
              off |-> LeftOf(h, g, released, n) \cup ToggledBy(g, h, n)],
   passed |-> b.passed]

LEMMA MappingsAre ==
  ASSUME input \in Seq(MappingSet)
  PROVE  /\ Len(input) \in Nat /\ DOMAIN input = 1..Len(input)
         /\ \A i \in 1..Len(input) : /\ input[i].keys \subseteq BoundUsages /\ input[i].keys # {}
                                     /\ IsFiniteSet(input[i].keys) /\ input[i].to \subseteq Toggled
<1>1. \A S : \A s \in Seq(S) : Len(s) \in Nat /\ DOMAIN s = 1..Len(s) /\ \A i \in 1..Len(s) : s[i] \in S
  OBVIOUS
<1>2. \A i \in 1..Len(input) : input[i] \in MappingSet
  BY <1>1
<1> QED BY <1>1, <1>2 DEF MappingSet

LEMMA SeparateIs ==
  ASSUME input \in Seq(MappingSet), Mappings!Separate
  PROVE  /\ \A i, j \in 1..Len(input) : i # j =>
              /\ input[i].keys \cap input[j].keys = {} /\ input[i].to \cap input[j].to = {}
         /\ \A i \in 1..Len(input) : input[i].to \cap BoundUsages = {}
<1>1. DOMAIN input = 1..Len(input)
  BY MappingsAre
<1> QED BY <1>1 DEF Mappings!Separate, Mappings!Targets

\* One mapping more.
LEMMA CheckIs ==
  ASSUME KnownMappings, input \in Seq(MappingSet), Mappings!Separate,
         NEW h, NEW s, NEW pressed, NEW released, NEW g, Moves(h, s, pressed, released, g), NEW b, NEW n \in 1..Len(input)
  PROVE  Mappings!CheckMapping(AfterFirst(b, h, g, pressed, released, n - 1), n) = AfterFirst(b, h, g, pressed, released, n)
<1> DEFINE c == AfterFirst(b, h, g, pressed, released, n - 1)
           keys == input[n].keys
           to == input[n].to
           On(k) == LeftOf(h, g, pressed, k) \cup ToggledBy(h, g, k)
           Off(k) == LeftOf(h, g, released, k) \cup ToggledBy(g, h, k)
<1>1. /\ Len(input) \in Nat /\ DOMAIN input = 1..Len(input) /\ n \in DOMAIN input /\ n \in Nat
      /\ keys \subseteq BoundUsages /\ IsFiniteSet(keys) /\ to \subseteq Toggled
  BY MappingsAre
<1>2. /\ \A i \in 1..(n - 1) : i \in 1..Len(input) /\ i # n
      /\ \A i \in 1..n : i = n \/ i \in 1..(n - 1)
      /\ \A i \in 1..(n - 1) : i \in 1..n
      /\ n \in 1..n
  BY <1>1
<1>3. /\ \A i \in 1..(n - 1) : keys \cap input[i].keys = {} /\ to \cap input[i].to = {} /\ keys \cap input[i].to = {}
      /\ to \cap BoundUsages = {}
  BY <1>1, <1>2, SeparateIs
<1>4. pressed \subseteq BoundUsages /\ released \subseteq BoundUsages
  BY DEF Moves
<1>5. \A u \in keys : (u \in On(n - 1) <=> u \in pressed) /\ (u \in Off(n - 1) <=> u \in released)
  <2>1. \A u \in keys : u \notin ToggledBy(h, g, n - 1) /\ u \notin ToggledBy(g, h, n - 1)
    BY <1>3 DEF ToggledBy
  <2>2. \A u \in keys : (u \in LeftOf(h, g, pressed, n - 1) <=> u \in pressed) /\ (u \in LeftOf(h, g, released, n - 1) <=> u \in released)
    BY <1>3 DEF LeftOf
  <2> QED BY <2>1, <2>2
<1>6. c.counters[n] = CountersOf(h, keys) /\ c.triggered[n] = AllHeld(h, keys)
      /\ c.event = [on |-> On(n - 1), off |-> Off(n - 1)]
  BY <1>1 DEF AfterFirst
<1>7. Mappings!Count(c.counters[n], c.event, keys) = CountersOf(g, keys)
  <2> HIDE DEF On, Off, c, keys
  <2>1. c.event.on = On(n - 1) /\ c.event.off = Off(n - 1)
    BY <1>6
  <2>2. \A u \in keys : (u \in c.event.on <=> u \in pressed) /\ (u \in c.event.off <=> u \in released)
    BY <1>5, <2>1
  <2>3. Mappings!Count(CountersOf(h, keys), c.event, keys) = CountersOf(g, keys)
    BY <2>2, CountIs
  <2> QED BY <1>6, <2>3
<1>8. /\ Mappings!IsActive(CountersOf(g, keys), keys) <=> AllHeld(g, keys)
      /\ Mappings!IsActive(c.counters[n], keys) <=> AllHeld(h, keys)
  BY <1>1, <1>6, ActiveIff
\* The parts of what is left.
<1>9. LeftOf(h, g, pressed, n) = (IF Taken(h, g, n) THEN LeftOf(h, g, pressed, n - 1) \ keys ELSE LeftOf(h, g, pressed, n - 1))
      /\ LeftOf(h, g, released, n) = (IF Taken(h, g, n) THEN LeftOf(h, g, released, n - 1) \ keys ELSE LeftOf(h, g, released, n - 1))
  <2>1. \A us : LeftOf(h, g, us, n) = {u \in LeftOf(h, g, us, n - 1) : u \in keys => ~Taken(h, g, n)}
    BY <1>2 DEF LeftOf
  <2> QED BY <2>1
<1>10. /\ ToggledBy(h, g, n) = ToggledBy(h, g, n - 1) \cup (IF Begun(h, g, n) THEN to ELSE {})
       /\ ToggledBy(g, h, n) = ToggledBy(g, h, n - 1) \cup (IF Begun(g, h, n) THEN to ELSE {})
  <2>1. \A x, y : ToggledBy(x, y, n) = ToggledBy(x, y, n - 1) \cup (IF Begun(x, y, n) THEN to ELSE {})
    <3> SUFFICES ASSUME NEW x, NEW y, NEW u
                 PROVE u \in ToggledBy(x, y, n) <=> u \in ToggledBy(x, y, n - 1) \cup (IF Begun(x, y, n) THEN to ELSE {})
      OBVIOUS
    <3>1. u \in ToggledBy(x, y, n) <=> \E i \in 1..n : Begun(x, y, i) /\ u \in input[i].to
      BY DEF ToggledBy
    <3>2. u \in ToggledBy(x, y, n - 1) <=> \E i \in 1..(n - 1) : Begun(x, y, i) /\ u \in input[i].to
      BY DEF ToggledBy
    <3> QED BY <1>2, <3>1, <3>2
  <2> QED BY <2>1
<1>11. /\ to \cap On(n - 1) = {} /\ to \cap Off(n - 1) = {}
       /\ keys \cap ToggledBy(h, g, n - 1) = {} /\ keys \cap ToggledBy(g, h, n - 1) = {}
  <2>1. to \cap LeftOf(h, g, pressed, n - 1) = {} /\ to \cap LeftOf(h, g, released, n - 1) = {}
    BY <1>3, <1>4 DEF LeftOf
  <2>2. \A x, y : to \cap ToggledBy(x, y, n - 1) = {} /\ keys \cap ToggledBy(x, y, n - 1) = {}
    BY <1>3 DEF ToggledBy
  <2> QED BY <2>1, <2>2
<1> DEFINE left == IF Taken(h, g, n) THEN Mappings!Suppress(c.event, keys) ELSE c.event
           event == CASE AllHeld(g, keys) /\ ~AllHeld(h, keys) -> Mappings!Activated(left, to)
                      [] ~AllHeld(g, keys) /\ AllHeld(h, keys) -> Mappings!Deactivated(left, to)
                      [] OTHER -> left
<1>12. Mappings!CheckMapping(c, n)
         = [c EXCEPT !.counters[n] = CountersOf(g, keys), !.triggered[n] = AllHeld(g, keys), !.event = event]
  <2> DEFINE counters == Mappings!Count(c.counters[n], c.event, keys)
             is == Mappings!IsActive(counters, keys)
             was == Mappings!IsActive(c.counters[n], keys)
             rest == IF is \/ was THEN Mappings!Suppress(c.event, keys) ELSE c.event
             next == CASE is /\ ~c.triggered[n] -> Mappings!Activated(rest, to)
                       [] ~is /\ c.triggered[n] -> Mappings!Deactivated(rest, to)
                       [] OTHER -> rest
  <2>1. Mappings!CheckMapping(c, n) = [c EXCEPT !.counters[n] = counters, !.triggered[n] = is, !.event = next]
    <3> HIDE DEF c
    <3> QED BY DEF Mappings!CheckMapping
  <2>2. counters = CountersOf(g, keys) /\ is = AllHeld(g, keys) /\ was = AllHeld(h, keys) /\ c.triggered[n] = AllHeld(h, keys)
    <3>1. Mappings!IsActive(CountersOf(g, keys), keys) = AllHeld(g, keys)
          /\ Mappings!IsActive(c.counters[n], keys) = AllHeld(h, keys)
      BY <1>8 DEF Mappings!IsActive, AllHeld
    <3> HIDE DEF c, keys
    <3> QED BY <1>6, <1>7, <3>1
  <2> HIDE DEF c, counters, is, was
  <2>3. rest = left
    BY <2>2 DEF Taken
  <2> HIDE DEF rest, left
  <2>4. next = event
    BY <2>2, <2>3
  <2> HIDE DEF next, event
  <2> QED BY <2>1, <2>2, <2>4
<1>13. event = [on |-> On(n), off |-> Off(n)]
  <2>1. keys \cap to = {}
    BY <1>1, <1>3
  <2>2. left = IF Taken(h, g, n) THEN [on |-> On(n - 1) \ keys, off |-> Off(n - 1) \ keys]
                                 ELSE [on |-> On(n - 1), off |-> Off(n - 1)]
    <3> HIDE DEF c, On, Off, keys
    <3> QED BY <1>6 DEF Mappings!Suppress
  <2>3. left = [on |-> LeftOf(h, g, pressed, n) \cup ToggledBy(h, g, n - 1),
                off |-> LeftOf(h, g, released, n) \cup ToggledBy(g, h, n - 1)]
    <3> HIDE DEF left, keys, to
    <3>1. CASE Taken(h, g, n)
      BY <1>9, <1>11, <2>2, <3>1
    <3>2. CASE ~Taken(h, g, n)
      BY <1>9, <2>2, <3>2
    <3> QED BY <3>1, <3>2
  <2>4. to \cap (LeftOf(h, g, pressed, n) \cup ToggledBy(h, g, n - 1)) = {}
        /\ to \cap (LeftOf(h, g, released, n) \cup ToggledBy(g, h, n - 1)) = {}
    BY <1>9, <1>11
  <2> HIDE DEF left
  <2>5. Begun(h, g, n) = (AllHeld(g, keys) /\ ~AllHeld(h, keys)) /\ Begun(g, h, n) = (AllHeld(h, keys) /\ ~AllHeld(g, keys))
    BY DEF Begun
  <2> HIDE DEF keys, to
  <2>6. CASE AllHeld(g, keys) /\ ~AllHeld(h, keys)
    <3>1. event = Mappings!Activated(left, to)
      BY <2>6
    <3> QED BY <1>10, <2>3, <2>4, <2>5, <2>6, <3>1 DEF Mappings!Activated
  <2>7. CASE ~AllHeld(g, keys) /\ AllHeld(h, keys)
    <3>1. event = Mappings!Deactivated(left, to)
      BY <2>7
    <3> QED BY <1>10, <2>3, <2>4, <2>5, <2>7, <3>1 DEF Mappings!Deactivated
  <2>8. CASE AllHeld(g, keys) <=> AllHeld(h, keys)
    <3>1. event = left
      BY <2>8
    <3> QED BY <1>10, <2>3, <2>5, <2>8, <3>1
  <2> QED BY <2>6, <2>7, <2>8
<1>14. \A i \in DOMAIN input : (i <= n <=> i = n \/ i <= n - 1)
  BY <1>1
<1> HIDE DEF event
<1>15. [c EXCEPT !.counters[n] = CountersOf(g, keys), !.triggered[n] = AllHeld(g, keys), !.event = event]
         = AfterFirst(b, h, g, pressed, released, n)
  <2>1. [c.counters EXCEPT ![n] = CountersOf(g, keys)]
          = [i \in DOMAIN input |-> CountersOf(IF i <= n THEN g ELSE h, input[i].keys)]
    BY <1>1, <1>14 DEF AfterFirst
  <2>2. [c.triggered EXCEPT ![n] = AllHeld(g, keys)]
          = [i \in DOMAIN input |-> AllHeld(IF i <= n THEN g ELSE h, input[i].keys)]
    BY <1>1, <1>14 DEF AfterFirst
  <2>3. c = [held |-> b.held, counters |-> c.counters, triggered |-> c.triggered, event |-> c.event, passed |-> b.passed]
    BY DEF AfterFirst
  <2>4. AfterFirst(b, h, g, pressed, released, n)
          = [held |-> b.held,
             counters |-> [i \in DOMAIN input |-> CountersOf(IF i <= n THEN g ELSE h, input[i].keys)],
             triggered |-> [i \in DOMAIN input |-> AllHeld(IF i <= n THEN g ELSE h, input[i].keys)],
             event |-> [on |-> On(n), off |-> Off(n)], passed |-> b.passed]
    BY DEF AfterFirst
  <2> HIDE DEF c, keys, On, Off
  <2>5. [c EXCEPT !.counters[n] = CountersOf(g, keys), !.triggered[n] = AllHeld(g, keys), !.event = event]
          = [held |-> b.held, counters |-> [c.counters EXCEPT ![n] = CountersOf(g, keys)],
             triggered |-> [c.triggered EXCEPT ![n] = AllHeld(g, keys)], event |-> event, passed |-> b.passed]
    <3> DEFINE x == CountersOf(g, keys)
               y == AllHeld(g, keys)
               cs == [c.counters EXCEPT ![n] = x]
               ts == [c.triggered EXCEPT ![n] = y]
    <3>1. [c EXCEPT !.counters[n] = x, !.triggered[n] = y, !.event = event]
            = [c EXCEPT !.counters = cs, !.triggered = ts, !.event = event]
      <4> HIDE DEF x, y
      <4> QED BY <2>3
    <3> HIDE DEF cs, ts
    <3>2. [c EXCEPT !.counters = cs, !.triggered = ts, !.event = event]
            = [held |-> b.held, counters |-> cs, triggered |-> ts, event |-> event, passed |-> b.passed]
      <4> DEFINE d1 == [c EXCEPT !.counters = cs]
                 d2 == [d1 EXCEPT !.triggered = ts]
                 d3 == [d2 EXCEPT !.event = event]
      <4>1. d1 = [held |-> b.held, counters |-> cs, triggered |-> c.triggered, event |-> c.event, passed |-> b.passed]
        BY <2>3
      <4>2. d2 = [held |-> b.held, counters |-> cs, triggered |-> ts, event |-> c.event, passed |-> b.passed]
        <5> HIDE DEF d1
        <5> QED BY <4>1
      <4>3. d3 = [held |-> b.held, counters |-> cs, triggered |-> ts, event |-> event, passed |-> b.passed]
        <5> HIDE DEF d2
        <5> QED BY <4>2
      <4>4. [c EXCEPT !.counters = cs, !.triggered = ts, !.event = event] = d3
        <5>1. c = [held |-> c.held, counters |-> c.counters, triggered |-> c.triggered, event |-> c.event, passed |-> c.passed]
          BY <2>3
        <5> QED BY <5>1
      <4> QED BY <4>3, <4>4
    <3> QED BY <3>1, <3>2 DEF cs, ts
  <2> QED BY <1>13, <2>1, <2>2, <2>4, <2>5
<1> QED BY <1>12, <1>15

\* All of them.
LEMMA TriggerIs ==
  ASSUME KnownMappings, input \in Seq(MappingSet), Mappings!Separate,
         NEW h, NEW s, NEW pressed, NEW released, NEW g, Moves(h, s, pressed, released, g),
         NEW b, [b EXCEPT !.event = [on |-> pressed, off |-> released]] = AfterFirst(b, h, g, pressed, released, 0)
  PROVE  Mappings!TriggerMappings(b, [on |-> pressed, off |-> released]) = AfterFirst(b, h, g, pressed, released, Len(input))
<1> DEFINE N0 == Len(input)
           U(n) == AfterFirst(b, h, g, pressed, released, n)
           Step(f) == [n \in 0..N0 |-> IF n = 0 THEN [b EXCEPT !.event = [on |-> pressed, off |-> released]]
                                                ELSE Mappings!CheckMapping(f[n - 1], n)]
           f0 == [n \in 0..N0 |-> U(n)]
           f1 == CHOOSE f : f = Step(f)
<1>1. N0 \in Nat
  BY MappingsAre
<1>2. ASSUME NEW n \in 1..N0 PROVE Mappings!CheckMapping(U(n - 1), n) = U(n)
  BY CheckIs
<1>3. f0 = Step(f0)
  <2> HIDE DEF U
  <2>1. \A n \in 0..N0 : f0[n] = IF n = 0 THEN [b EXCEPT !.event = [on |-> pressed, off |-> released]]
                                         ELSE Mappings!CheckMapping(f0[n - 1], n)
    <3> SUFFICES ASSUME NEW n \in 0..N0
                 PROVE f0[n] = IF n = 0 THEN [b EXCEPT !.event = [on |-> pressed, off |-> released]]
                                         ELSE Mappings!CheckMapping(f0[n - 1], n)
      OBVIOUS
    <3>1. CASE n = 0
      BY <3>1 DEF U
    <3>2. CASE n # 0
      BY <1>1, <1>2, <3>2
    <3> QED BY <3>1, <3>2
  <2> QED BY <2>1
<1>4. f1 = Step(f1)
  <2> HIDE DEF Step, f0
  <2> QED BY <1>3
<1>5. f1[0] = U(0) /\ \A n \in 1..N0 : f1[n] = Mappings!CheckMapping(f1[n - 1], n)
  <2> HIDE DEF f1, U
  <2>1. f1[0] = [b EXCEPT !.event = [on |-> pressed, off |-> released]]
    BY <1>1, <1>4
  <2>2. \A n \in 1..N0 : f1[n] = Mappings!CheckMapping(f1[n - 1], n)
    <3>1. \A n \in 0..N0 : f1[n] = IF n = 0 THEN [b EXCEPT !.event = [on |-> pressed, off |-> released]]
                                           ELSE Mappings!CheckMapping(f1[n - 1], n)
      BY <1>4
    <3>2. \A n \in 1..N0 : n \in 0..N0 /\ n # 0
      BY <1>1
    <3> QED BY <3>1, <3>2
  <2> QED BY <2>1, <2>2 DEF U
<1>6. \A n \in 0..N0 : f1[n] = U(n)
  <2> DEFINE Wrong == {n \in 0..N0 : f1[n] # U(n)}
  <2> HIDE DEF U, f1
  <2> SUFFICES ASSUME Wrong # {} PROVE FALSE
    OBVIOUS
  <2>1. PICK n \in Wrong : \A k \in Wrong : n <= k
    <3>1. Wrong \in SUBSET Nat
      BY <1>1
    <3> HIDE DEF Wrong
    <3> QED BY <3>1, HasLeast
  <2>2. n \in 1..N0 /\ n - 1 \in 0..N0 /\ n - 1 \notin Wrong
    BY <1>1, <1>5, <2>1
  <2>3. f1[n - 1] = U(n - 1)
    BY <2>2
  <2> QED BY <1>2, <1>5, <2>1, <2>2, <2>3
<1>7. Mappings!TriggerMappings(b, [on |-> pressed, off |-> released]) = f1[N0]
  BY DEF Mappings!TriggerMappings
<1> QED
  <2> HIDE DEF U, f1
  <2>1. N0 \in 0..N0
    BY <1>1
  <2>2. f1[N0] = U(N0)
    BY <1>6, <2>1
  <2> QED BY <1>7, <2>2 DEF U

-----------------------------------------------------------------------------
LEMMA WatchedInit == ASSUME KnownMappings, Mappings!Init PROVE Watched
<1>1. input \in Seq(MappingSet)
  BY DEF KnownMappings, Mappings!Init
<1>2. state = Mappings!Start
  BY DEF Mappings!Init
<1>3. /\ state.held = [s \in Devices |-> {}]
      /\ state.counters = [i \in DOMAIN input |-> [u \in {} |-> 0]]
      /\ state.triggered = [i \in DOMAIN input |-> FALSE]
      /\ state.passed = [u \in BoundUsages \cup Toggled |-> 0]
      /\ state = [held |-> state.held, counters |-> state.counters, triggered |-> state.triggered,
                  event |-> state.event, passed |-> state.passed]
  BY <1>2 DEF Mappings!Start
<1>4. \A u : HoldersIn(state.held, u) = {}
  BY <1>3 DEF HoldersIn
<1>5. \A i \in DOMAIN input : CountersOf(state.held, input[i].keys) = [u \in {} |-> 0]
  BY <1>4 DEF CountersOf
<1>6. \A i \in DOMAIN input : AllHeld(state.held, input[i].keys) = FALSE
  BY <1>1, <1>4, MappingsAre DEF AllHeld
<1>7. Mappings!Targets \subseteq Toggled
  BY <1>1, MappingsAre DEF Mappings!Targets
<1>8. \A u : Cardinality(HoldersIn(state.held, u)) = 0
  BY <1>4, FS_EmptySet
<1>9. state.held \in [Devices -> SUBSET BoundUsages] /\ DOMAIN state.passed = BoundUsages \cup Toggled
  BY <1>3
<1>10. \A u \in BoundUsages \cup Toggled : state.passed[u] = 0
  BY <1>3
<1>11. state.counters = [i \in DOMAIN input |-> CountersOf(state.held, input[i].keys)]
  BY <1>3, <1>5
<1>12. state.triggered = [i \in DOMAIN input |-> AllHeld(state.held, input[i].keys)]
  BY <1>3, <1>6
<1> QED BY <1>1, <1>3, <1>6, <1>7, <1>8, <1>9, <1>10, <1>11, <1>12 DEF Watched, Watching

LEMMA WatchedHandle ==
  ASSUME KnownMappings, Watched, NEW s \in Devices, NEW pressed \in SUBSET BoundUsages,
         NEW released \in SUBSET BoundUsages, Mappings!Handle(s, pressed, released)
  PROVE  Watched'
<1> DEFINE h == state.held
           g == [h EXCEPT ![s] = (@ \cup pressed) \ released]
           N0 == Len(input)
           on1 == LeftOf(h, g, pressed, N0) \cup ToggledBy(h, g, N0)
           off1 == LeftOf(h, g, released, N0) \cup ToggledBy(g, h, N0)
           after == Mappings!TriggerMappings(state, [on |-> pressed, off |-> released])
<1>1. input' = input /\ input \in Seq(MappingSet)
  BY DEF Mappings!Handle, Mappings!vars, Watched
<1>2. Mappings!Separate' = Mappings!Separate /\ Mappings!Combined' = Mappings!Combined
      /\ Mappings!MappedKeys' = Mappings!MappedKeys /\ Mappings!Targets' = Mappings!Targets
  BY <1>1 DEF Mappings!Separate, Mappings!Combined, Mappings!MappedKeys, Mappings!Targets
<1> SUFFICES ASSUME Mappings!Separate PROVE Watching'
  BY <1>1, <1>2 DEF Watched
<1>3. Watching
  BY DEF Watched
<1>4. Moves(h, s, pressed, released, g)
  BY <1>3 DEF Moves, Watching, Mappings!Handle
<1>5. /\ N0 \in Nat /\ DOMAIN input = 1..N0
      /\ \A i \in 1..N0 : input[i].keys \subseteq BoundUsages /\ IsFiniteSet(input[i].keys) /\ input[i].to \subseteq Toggled
  BY <1>1, MappingsAre
<1>6. [state EXCEPT !.event = [on |-> pressed, off |-> released]] = AfterFirst(state, h, g, pressed, released, 0)
  <2>1. LeftOf(h, g, pressed, 0) = pressed /\ LeftOf(h, g, released, 0) = released /\ ToggledBy(h, g, 0) = {} /\ ToggledBy(g, h, 0) = {}
    BY DEF LeftOf, ToggledBy
  <2>2. \A i \in DOMAIN input : ~(i <= 0)
    BY <1>5
  <2>3. state.counters = [i \in DOMAIN input |-> CountersOf(IF i <= 0 THEN g ELSE h, input[i].keys)]
    BY <1>3, <2>2 DEF Watching
  <2>4. state.triggered = [i \in DOMAIN input |-> AllHeld(IF i <= 0 THEN g ELSE h, input[i].keys)]
    BY <1>3, <2>2 DEF Watching
  <2>5. AfterFirst(state, h, g, pressed, released, 0)
          = [held |-> h, counters |-> state.counters, triggered |-> state.triggered,
             event |-> [on |-> pressed, off |-> released], passed |-> state.passed]
    BY <2>1, <2>3, <2>4 DEF AfterFirst
  <2>6. state = [held |-> state.held, counters |-> state.counters, triggered |-> state.triggered,
                 event |-> state.event, passed |-> state.passed]
    BY <1>3 DEF Watching
  <2> HIDE DEF g
  <2> QED BY <2>5, <2>6
<1>7. after = AfterFirst(state, h, g, pressed, released, N0)
  <2> HIDE DEF h, g
  <2> QED BY <1>1, <1>4, <1>6, TriggerIs
<1>8. /\ state'.held = g /\ state'.counters = [i \in DOMAIN input |-> CountersOf(g, input[i].keys)]
      /\ state'.triggered = [i \in DOMAIN input |-> AllHeld(g, input[i].keys)]
      /\ DOMAIN state'.passed = BoundUsages \cup Toggled
      /\ \A u \in BoundUsages \cup Toggled : state'.passed[u] = Mappings!Counted(state.passed[u], u, [on |-> on1, off |-> off1])
      /\ state' = [held |-> state'.held, counters |-> state'.counters, triggered |-> state'.triggered,
                   event |-> state'.event, passed |-> state'.passed]
  <2>1. /\ after.held = h /\ after.passed = state.passed /\ after.event = [on |-> on1, off |-> off1]
        /\ after.counters = [i \in DOMAIN input |-> CountersOf(IF i <= N0 THEN g ELSE h, input[i].keys)]
        /\ after.triggered = [i \in DOMAIN input |-> AllHeld(IF i <= N0 THEN g ELSE h, input[i].keys)]
        /\ after = [held |-> after.held, counters |-> after.counters, triggered |-> after.triggered,
                    event |-> after.event, passed |-> after.passed]
    <3> DEFINE cs == [i \in DOMAIN input |-> CountersOf(IF i <= N0 THEN g ELSE h, input[i].keys)]
               ts == [i \in DOMAIN input |-> AllHeld(IF i <= N0 THEN g ELSE h, input[i].keys)]
    <3>1. AfterFirst(state, h, g, pressed, released, N0)
            = [held |-> h, counters |-> cs, triggered |-> ts, event |-> [on |-> on1, off |-> off1], passed |-> state.passed]
      BY DEF AfterFirst
    <3> HIDE DEF after, on1, off1, h, g, cs, ts
    <3>2. after = [held |-> h, counters |-> cs, triggered |-> ts, event |-> [on |-> on1, off |-> off1], passed |-> state.passed]
      BY <1>7, <3>1
    <3> QED BY <3>2 DEF cs, ts
  <2>2. \A i \in DOMAIN input : i <= N0
    BY <1>5
  <2>3. state' = [after EXCEPT !.held = g,
                  !.passed = [u \in DOMAIN state.passed |-> Mappings!Counted(state.passed[u], u, [on |-> on1, off |-> off1])]]
    <3>1. state' = [after EXCEPT !.held[s] = (@ \cup pressed) \ released,
                                 !.passed = [u \in DOMAIN @ |-> Mappings!Counted(@[u], u, after.event)]]
      BY DEF Mappings!Handle
    <3> HIDE DEF after, on1, off1
    <3> QED BY <2>1, <3>1
  <2> HIDE DEF after, g, h, on1, off1
  <2>4. /\ state'.held = g /\ state'.counters = after.counters /\ state'.triggered = after.triggered
        /\ state'.passed = [u \in DOMAIN state.passed |-> Mappings!Counted(state.passed[u], u, [on |-> on1, off |-> off1])]
        /\ state' = [held |-> state'.held, counters |-> state'.counters, triggered |-> state'.triggered,
                     event |-> state'.event, passed |-> state'.passed]
    BY <2>1, <2>3
  <2>5. DOMAIN state.passed = BoundUsages \cup Toggled
    BY <1>3 DEF Watching
  <2>6. after.counters = [i \in DOMAIN input |-> CountersOf(g, input[i].keys)]
    BY <2>1, <2>2
  <2>7. after.triggered = [i \in DOMAIN input |-> AllHeld(g, input[i].keys)]
    BY <2>1, <2>2
  <2> QED BY <2>4, <2>5, <2>6, <2>7
<1>9. g \in [Devices -> SUBSET BoundUsages]
  BY <1>4 DEF Moves
<1>10. /\ pressed \subseteq BoundUsages /\ released \subseteq BoundUsages /\ pressed \cap released = {}
       /\ \A i \in 1..N0 : input[i].to \cap BoundUsages = {}
       /\ \A i, j \in 1..N0 : i # j => input[i].to \cap input[j].to = {}
  BY <1>1, <1>4, SeparateIs DEF Moves
<1> HIDE DEF g, h, after, on1, off1
<1>11. ASSUME NEW u \in BoundUsages \ Mappings!Combined
       PROVE  state'.passed[u] = IF u \in Mappings!MappedKeys THEN 0 ELSE Cardinality(HoldersIn(g, u))
  <2>1. state'.passed[u] = Mappings!Counted(state.passed[u], u, [on |-> on1, off |-> off1])
        /\ state.passed[u] = IF u \in Mappings!MappedKeys THEN 0 ELSE Cardinality(HoldersIn(h, u))
    BY <1>3, <1>8 DEF Watching, h
  <2>2. (u \in on1 <=> u \in LeftOf(h, g, pressed, N0)) /\ (u \in off1 <=> u \in LeftOf(h, g, released, N0))
    BY <1>10 DEF on1, off1, ToggledBy
  <2>3. /\ Cardinality(HoldersIn(g, u)) = Cardinality(HoldersIn(h, u)) + Delta(pressed, released, u)
        /\ u \in pressed => s \in HoldersIn(g, u)
        /\ u \in released => s \in HoldersIn(h, u)
    BY <1>4, HoldersAfter
  <2>4. CASE u \in Mappings!MappedKeys
    <3>1. PICK j \in 1..N0 : u \in input[j].keys
      BY <1>5, <2>4 DEF Mappings!MappedKeys
    <3>2. input[j].keys = {u}
      <4>1. ~(Cardinality(input[j].keys) > 1)
        BY <1>5, <3>1, CardSame DEF Mappings!Combined
      <4>2. Cardinality(input[j].keys) \in Nat /\ Cardinality(input[j].keys) # 0
        BY <1>5, <3>1, FS_CardinalityType, FS_EmptySet
      <4>3. Cardinality(input[j].keys) = 1
        BY <4>1, <4>2
      <4>4. PICK x : input[j].keys = {x}
        BY <1>5, <4>3, FS_Singleton
      <4> QED BY <3>1, <4>4
    <3>3. u \in pressed \cup released => Taken(h, g, j)
      BY <2>3, <3>2 DEF Taken, AllHeld
    <3>4. u \notin on1 /\ u \notin off1
      BY <2>2, <3>1, <3>3 DEF LeftOf
    <3> QED BY <2>1, <2>4, <3>4 DEF Mappings!Counted
  <2>5. CASE u \notin Mappings!MappedKeys
    <3>1. (u \in on1 <=> u \in pressed) /\ (u \in off1 <=> u \in released)
      BY <1>5, <2>2, <2>5 DEF LeftOf, Mappings!MappedKeys
    <3>2. Cardinality(HoldersIn(h, u)) \in Nat /\ (u \in released => Cardinality(HoldersIn(h, u)) # 0)
      BY <2>3, HoldingFinite
    <3>3. u \in released => Cardinality(HoldersIn(h, u)) > 0
      BY <3>2
    <3> QED BY <1>10, <2>1, <2>3, <2>5, <3>1, <3>2, <3>3 DEF Mappings!Counted, Delta
  <2> QED BY <2>4, <2>5
<1>12. ASSUME NEW u \in Mappings!Targets
       PROVE  state'.passed[u] = IF \E i \in DOMAIN input : AllHeld(g, input[i].keys) /\ u \in input[i].to THEN 1 ELSE 0
  <2>1. PICK j \in 1..N0 : u \in input[j].to
    BY <1>5 DEF Mappings!Targets
  <2>2. \A i \in 1..N0 : u \in input[i].to => i = j
    BY <1>10, <2>1
  <2>3. u \in Toggled /\ u \notin BoundUsages
    BY <1>5, <1>10, <2>1
  <2>4. \A x, y : u \in ToggledBy(x, y, N0) <=> Begun(x, y, j)
    BY <2>1, <2>2 DEF ToggledBy
  <2>5. (u \in on1 <=> Begun(h, g, j)) /\ (u \in off1 <=> Begun(g, h, j))
    BY <1>10, <2>3, <2>4 DEF on1, off1, LeftOf
  <2>6. state.passed[u] = IF AllHeld(h, input[j].keys) THEN 1 ELSE 0
    BY <1>3, <1>5, <2>1, <2>2 DEF Watching, h
  <2>7. state'.passed[u] = Mappings!Counted(state.passed[u], u, [on |-> on1, off |-> off1])
    BY <1>8, <2>3
  <2>8. state'.passed[u] = IF AllHeld(g, input[j].keys) THEN 1 ELSE 0
    BY <2>5, <2>6, <2>7 DEF Mappings!Counted, Begun
  <2> QED BY <1>5, <2>1, <2>2, <2>8
<1> QED BY <1>1, <1>2, <1>8, <1>9, <1>11, <1>12 DEF Watching

\* Separate mappings are triggered exactly as long as all their keys are held, by whichever
\* devices, and downstream is told so, whatever the mappings and the devices (bind.go:140-198).
THEOREM TriggeredIffHeldAlways ==
  ASSUME KnownMappings
  PROVE  Mappings!Spec => []TriggeredIffHeld
<1>1. Watched /\ [Mappings!Next]_(Mappings!vars) => Watched'
  <2> SUFFICES ASSUME Watched, [Mappings!Next]_(Mappings!vars) PROVE Watched'
    OBVIOUS
  <2>1. CASE UNCHANGED Mappings!vars
    <3>1. input' = input /\ state' = state
      BY <2>1 DEF Mappings!vars
    <3>2. Mappings!Separate' = Mappings!Separate
      BY <3>1 DEF Mappings!Separate, Mappings!Targets
    <3>3. Mappings!Combined' = Mappings!Combined /\ Mappings!MappedKeys' = Mappings!MappedKeys /\ Mappings!Targets' = Mappings!Targets
      BY <3>1 DEF Mappings!Combined, Mappings!MappedKeys, Mappings!Targets
    <3>4. Watching' = Watching
      BY <3>1, <3>3 DEF Watching
    <3> QED BY <3>1, <3>2, <3>4 DEF Watched
  <2>2. CASE Mappings!Next
    BY <2>2, WatchedHandle DEF Mappings!Next
  <2> QED BY <2>1, <2>2
<1>2. Watched => TriggeredIffHeld
  <2> SUFFICES ASSUME KnownMappings, input \in Seq(MappingSet), Mappings!Separate, Watching
               PROVE  /\ Mappings!IsTriggeredIffHeld
                      /\ \A u \in BoundUsages \ Mappings!Combined :
                           state.passed[u] = IF u \in Mappings!MappedKeys THEN 0 ELSE Mappings!Cardinality(Mappings!Holders(u))
                      /\ \A u \in Mappings!Targets :
                           state.passed[u] = Mappings!Cardinality({i \in DOMAIN input : state.triggered[i] /\ u \in input[i].to})
    BY DEF Watched, TriggeredIffHeld, Mappings!TriggeredIffHeld
  <2>1. \A u : Mappings!Holders(u) = HoldersIn(state.held, u)
    BY DEF Mappings!Holders, HoldersIn
  <2>2. Mappings!IsTriggeredIffHeld
    BY <2>1 DEF Mappings!IsTriggeredIffHeld, Watching, AllHeld
  <2>3. \A u \in BoundUsages \ Mappings!Combined :
          state.passed[u] = IF u \in Mappings!MappedKeys THEN 0 ELSE Mappings!Cardinality(Mappings!Holders(u))
    BY <2>1, CardSame DEF Watching
  <2>4. ASSUME NEW u \in Mappings!Targets
        PROVE  state.passed[u] = Mappings!Cardinality({i \in DOMAIN input : state.triggered[i] /\ u \in input[i].to})
    <3> DEFINE J == {i \in DOMAIN input : state.triggered[i] /\ u \in input[i].to}
    <3>1. \A i \in DOMAIN input : state.triggered[i] = AllHeld(state.held, input[i].keys)
      BY DEF Watching
    <3>2. state.passed[u] = IF J # {} THEN 1 ELSE 0
      BY <3>1 DEF Watching
    <3>3. \A i, j \in J : i = j
      BY MappingsAre, SeparateIs
    <3> HIDE DEF J
    <3>4. CASE J = {}
      BY <3>2, <3>4, FS_EmptySet, CardSame DEF J
    <3>5. CASE J # {}
      <4>1. PICK j : j \in J
        BY <3>5
      <4>2. J = {j}
        BY <3>3, <4>1
      <4>3. Cardinality(J) = 1
        BY <4>2, FS_Singleton
      <4> QED BY <3>2, <3>5, <4>3, CardSame DEF J
    <3> QED BY <3>4, <3>5
  <2> QED BY <2>2, <2>3, <2>4
<1> QED BY <1>1, <1>2, WatchedInit, PTL DEF Mappings!Spec

-----------------------------------------------------------------------------
(* GraphBuilder.                                                            *)

\* Edges lead to nodes, of which there are finitely many.
Closed(b) == IsFiniteSet(Graph!Ids(b)) /\ \A n \in Graph!Ids(b) : Graph!Downstream(b, n) \subseteq Graph!Ids(b)

LEMMA ReachedIs ==
  ASSUME NEW b, Closed(b), NEW n \in Graph!Ids(b)
  PROVE  /\ n \in Graph!Reached(b, n) /\ Graph!Reached(b, n) \subseteq Graph!Ids(b)
         /\ \A t \in Graph!Downstream(b, n) : Graph!Reached(b, t) \subseteq Graph!Reached(b, n)
         /\ \A m \in Graph!Reached(b, n) : m = n \/ Graph!Follows(b, n, m)
<1> DEFINE I == Graph!Ids(b)
           D(x) == Graph!Downstream(b, x)
           IsClosed(S) == \A x \in S : D(x) \subseteq S
           R(x) == {m \in I : \A S \in SUBSET I : (x \in S /\ IsClosed(S)) => m \in S}
<1>1. \A x : Graph!Reached(b, x) = R(x)
  BY DEF Graph!Reached
<1>2. \A x \in I : D(x) \subseteq I
  BY DEF Closed
<1> HIDE DEF I, D
<1>3. n \in R(n) /\ R(n) \subseteq I
  BY DEF I
<1>4. \A t \in D(n) : R(t) \subseteq R(n)
  BY <1>2 DEF I
<1>5. ASSUME NEW m \in R(n), m # n PROVE \E t \in D(n) : m \in R(t)
  <2> DEFINE T == {n} \cup UNION {R(t) : t \in D(n)}
  <2>1. T \subseteq I /\ n \in T
    BY DEF I
  <2>2. \A x \in I : D(x) \subseteq R(x)
    BY <1>2
  <2>3. \A t : \A x \in R(t) : D(x) \subseteq R(t)
    BY <1>2
  <2>4. \A t \in D(n) : t \in R(t)
    BY <1>2 DEF I
  <2>5. D(n) \subseteq T
    BY <2>4
  <2>6. IsClosed(T)
    BY <2>3, <2>5
  <2>7. m \in T
    <3> HIDE DEF T
    <3> QED BY <2>1, <2>6
  <2> QED BY <1>5, <2>7
<1> HIDE DEF R
<1> QED BY <1>1, <1>3, <1>4, <1>5 DEF D, I, Graph!Follows

\* The walk finds what was visited, or a cycle.
Found(b, visited) ==
  {n \in Graph!Ids(b) : \/ Graph!Reached(b, n) \cap visited # {}
                        \/ \E m \in Graph!Reached(b, n) : Graph!Follows(b, m, m)}

LEMMA FoundIs ==
  ASSUME NEW b, Closed(b), NEW visited \in SUBSET Graph!Ids(b)
  PROVE  Found(b, visited) =
           visited \cup {n \in Graph!Ids(b) \ visited : Graph!Downstream(b, n) \cap Found(b, visited \cup {n}) # {}}
<1> DEFINE I == Graph!Ids(b)
           D(x) == Graph!Downstream(b, x)
           R(x) == Graph!Reached(b, x)
           F(x, y) == Graph!Follows(b, x, y)
<1>1. \A x \in I : D(x) \subseteq I
  BY DEF Closed
<1>2. \A x \in I : x \in R(x) /\ R(x) \subseteq I /\ \A t \in D(x) : R(t) \subseteq R(x)
  BY ReachedIs
<1>3. \A x \in I : \A m \in R(x) : m = x \/ F(x, m)
  BY ReachedIs
<1>4. \A x, y : F(x, y) <=> \E t \in D(x) : y \in R(t)
  BY DEF Graph!Follows
<1>5. \A V : \A x : x \in Found(b, V) <=> x \in I /\ (R(x) \cap V # {} \/ \E m \in R(x) : F(m, m))
  BY DEF Found
<1> HIDE DEF I, D, R, F
<1>6. visited \subseteq Found(b, visited)
  BY <1>2, <1>5 DEF I
<1>7. ASSUME NEW n \in I \ visited
      PROVE  n \in Found(b, visited) <=> D(n) \cap Found(b, visited \cup {n}) # {}
  <2>1. ASSUME NEW t \in D(n), t \in Found(b, visited \cup {n}) PROVE n \in Found(b, visited)
    <3>1. t \in I /\ R(t) \subseteq R(n) /\ n \in R(n)
      BY <1>1, <1>2, <1>7
    <3>2. CASE \E m \in R(t) : F(m, m)
      BY <1>5, <1>7, <3>1, <3>2
    <3>3. CASE R(t) \cap visited # {}
      BY <1>5, <1>7, <3>1, <3>3
    <3>4. CASE n \in R(t)
      BY <1>4, <1>5, <1>7, <2>1, <3>1, <3>4
    <3> QED BY <1>5, <2>1, <3>2, <3>3, <3>4
  <2>2. ASSUME n \in Found(b, visited) PROVE \E t \in D(n) : t \in Found(b, visited \cup {n})
    <3>1. ASSUME NEW m, F(n, m), m \in visited \cup {n} \/ F(m, m)
          PROVE  \E t \in D(n) : t \in Found(b, visited \cup {n})
      <4>1. PICK t \in D(n) : m \in R(t)
        BY <1>4, <3>1
      <4> QED BY <1>1, <1>5, <1>7, <3>1, <4>1
    <3>2. CASE \E m \in R(n) : m \in visited
      BY <1>3, <1>7, <3>1, <3>2
    <3>3. CASE \E m \in R(n) : F(m, m)
      BY <1>3, <1>7, <3>1, <3>3
    <3> QED BY <1>5, <2>2, <3>2, <3>3
  <2> QED BY <2>1, <2>2
<1>8. Found(b, visited) \subseteq I
  BY <1>5
<1> QED BY <1>6, <1>7, <1>8 DEF I, D

\* validateCycles ends, and finds the cycles that can be reached.
LEMMA HasCycleIs ==
  ASSUME NEW b, Closed(b), NEW n \in Graph!Ids(b)
  PROVE  Graph!HasCycle(b, n) <=> \E m \in Graph!Ids(b) : m \in Graph!Reached(b, n) /\ Graph!Follows(b, m, m)
<1> DEFINE I == Graph!Ids(b)
           D(x) == Graph!Downstream(b, x)
           Step(f) == [V \in SUBSET I |-> V \cup {x \in I \ V : D(x) \cap f[V \cup {x}] # {}}]
           f0 == [V \in SUBSET I |-> Found(b, V)]
           f1 == CHOOSE f : f = Step(f)
<1>1. f0 = Step(f0)
  <2>1. \A V \in SUBSET I : f0[V] = V \cup {x \in I \ V : D(x) \cap f0[V \cup {x}] # {}}
    <3> TAKE V \in SUBSET I
    <3>1. \A x \in I : V \cup {x} \in SUBSET I
      OBVIOUS
    <3> HIDE DEF I, D
    <3>2. \A x \in I : f0[V \cup {x}] = Found(b, V \cup {x})
      BY <3>1
    <3>3. f0[V] = V \cup {x \in I \ V : D(x) \cap Found(b, V \cup {x}) # {}}
      BY FoundIs DEF I, D
    <3> HIDE DEF f0
    <3> QED BY <3>2, <3>3
  <2> HIDE DEF I, D
  <2> QED BY <2>1
<1>2. f1 = Step(f1)
  <2> HIDE DEF Step, f0
  <2> QED BY <1>1
<1>3. Graph!HasCycle(b, n) <=> n \in f1[{}]
  BY DEF Graph!HasCycle
<1> HIDE DEF I, D, f1
<1>4. \A V \in SUBSET I : f1[V] = V \cup {x \in I \ V : D(x) \cap f1[V \cup {x}] # {}}
  BY <1>2
<1>5. \A V \in SUBSET I : Found(b, V) = V \cup {x \in I \ V : D(x) \cap Found(b, V \cup {x}) # {}}
  BY FoundIs DEF I, D
<1>6. \A V \in SUBSET I : IsFiniteSet(I \ V) /\ Cardinality(I \ V) \in Nat
  <2> TAKE V \in SUBSET I
  <2>1. IsFiniteSet(I \ V)
    BY FS_Subset DEF Closed, I
  <2> QED BY <2>1, FS_CardinalityType
<1>7. \A V \in SUBSET I : f1[V] = Found(b, V)
  <2> DEFINE Wrong == {V \in SUBSET I : f1[V] # Found(b, V)}
             Sizes0 == {Cardinality(I \ V) : V \in Wrong}
  <2> SUFFICES ASSUME Wrong # {} PROVE FALSE
    OBVIOUS
  <2>1. PICK k \in Sizes0 : \A j \in Sizes0 : k <= j
    <3>1. Sizes0 \in SUBSET Nat /\ Sizes0 # {}
      BY <1>6
    <3> HIDE DEF Sizes0
    <3> QED BY <3>1, HasLeast
  <2>2. PICK V \in Wrong : k = Cardinality(I \ V)
    BY <2>1
  <2>3. ASSUME NEW x \in I \ V PROVE f1[V \cup {x}] = Found(b, V \cup {x})
    <3>1. V \cup {x} \in SUBSET I /\ I \ (V \cup {x}) = (I \ V) \ {x}
      OBVIOUS
    <3>2. Cardinality(I \ (V \cup {x})) = Cardinality(I \ V) - 1
      <4> DEFINE W == I \ V
      <4>1. IsFiniteSet(W) /\ x \in W
        BY <1>6
      <4> HIDE DEF W
      <4>2. Cardinality(W \ {x}) = Cardinality(W) - 1
        BY <4>1, FS_RemoveElement
      <4> QED BY <3>1, <4>2 DEF W
    <3>3. Cardinality(I \ V) \in Nat
      BY <1>6
    <3>4. Cardinality(I \ (V \cup {x})) \notin Sizes0
      <4> SUFFICES ASSUME Cardinality(I \ (V \cup {x})) \in Sizes0 PROVE FALSE
        OBVIOUS
      <4>1. k <= Cardinality(I \ (V \cup {x}))
        BY <2>1
      <4> HIDE DEF Sizes0
      <4> QED BY <2>2, <3>2, <3>3, <4>1
    <3> QED BY <3>1, <3>4
  <2>4. f1[V] = Found(b, V)
    <3>1. {x \in I \ V : D(x) \cap f1[V \cup {x}] # {}} = {x \in I \ V : D(x) \cap Found(b, V \cup {x}) # {}}
      BY <2>3
    <3>2. V \in SUBSET I
      OBVIOUS
    <3> HIDE DEF Wrong
    <3> QED BY <1>4, <1>5, <3>1, <3>2
  <2> QED BY <2>4
<1>8. f1[{}] = Found(b, {})
  BY <1>7
<1> QED BY <1>3, <1>8, ReachedIs DEF Found, I

-----------------------------------------------------------------------------
\* Files are sequences, and so are the nodes' links; a statement names an action or a
\* signal; a type says of both sides none, one or many.
FlowNodes == UNION {UNION {d[i] : i \in DOMAIN d} : d \in Flows}
FlowNames == UNION {{n.to[i] : i \in DOMAIN n.to} : n \in FlowNodes}

KnownFlows ==
  /\ \A t \in DOMAIN NodeTypes : {NodeTypes[t].up, NodeTypes[t].down} \subseteq {"none", "one", "many"}
  /\ Flows \subseteq Seq(SUBSET FlowNodes)
  /\ \A n \in FlowNodes : n.to \in Seq(FlowNames) /\ \A r \in n.refs : r.kind \in {"action", "signal"}

Unique(b) == \A i, j \in DOMAIN b.nodes : b.nodes[i].id = b.nodes[j].id => i = j

\* What IsGraph says of the nodes.
IsFlow(b) ==
  /\ Unique(b)
  /\ \A i \in DOMAIN b.nodes :
       /\ b.nodes[i].type \in DOMAIN NodeTypes /\ Graph!LinksFit(b, b.nodes[i])
       /\ Graph!Targets(b.nodes[i]) \subseteq Graph!Ids(b)
  /\ \E i \in DOMAIN b.nodes : NodeTypes[b.nodes[i].type].up = "none"
  /\ \A n \in Graph!EntryNodes(b), m \in Graph!Ids(b) : Graph!Follows(b, n, m) => ~Graph!Follows(b, m, m)

LEMMA CardIs ==
  ASSUME NEW S, IsFiniteSet(S)
  PROVE  /\ Graph!Cardinality(S) \in Nat /\ (Graph!Cardinality(S) = 0 <=> S = {})
         /\ Graph!Cardinality(S) = 1 <=> \E x : S = {x}
<1>1. Graph!Cardinality(S) = Cardinality(S)
  BY Zenon DEF Graph!Cardinality, Cardinality
<1> QED BY <1>1, FS_CardinalityType, FS_EmptySet, FS_Singleton

LEMMA NodesAre ==
  ASSUME KnownFlows, NEW b, b.nodes \in Seq(FlowNodes)
  PROVE  /\ Len(b.nodes) \in Nat /\ DOMAIN b.nodes = 1..Len(b.nodes)
         /\ \A i \in DOMAIN b.nodes : /\ b.nodes[i] \in FlowNodes /\ b.nodes[i].to \in Seq(FlowNames)
                                      /\ Len(b.nodes[i].to) \in Nat /\ DOMAIN b.nodes[i].to = 1..Len(b.nodes[i].to)
<1>1. \A i \in DOMAIN b.nodes : b.nodes[i] \in FlowNodes
  OBVIOUS
<1> QED BY <1>1 DEF KnownFlows

LEMMA NodeIdsAre ==
  ASSUME KnownFlows, NEW b, b.nodes \in Seq(FlowNodes)
  PROVE  /\ IsFiniteSet(Graph!Ids(b))
         /\ Graph!IsDuplicate(b) <=> \E i, j \in DOMAIN b.nodes : b.nodes[i].id = b.nodes[j].id /\ i # j
<1> DEFINE N0 == Len(b.nodes)
           f == [i \in 1..N0 |-> b.nodes[i].id]
<1>1. N0 \in Nat /\ DOMAIN b.nodes = 1..N0
  BY NodesAre
<1>2. f \in Surjection(1..N0, Graph!Ids(b))
  BY <1>1 DEF Surjection, Graph!Ids
<1>3. IsFiniteSet(1..N0) /\ Cardinality(1..N0) = N0
  BY <1>1, FS_Interval
<1>4. /\ IsFiniteSet(Graph!Ids(b)) /\ Cardinality(Graph!Ids(b)) <= N0
      /\ Cardinality(Graph!Ids(b)) = N0 <=> f \in Injection(1..N0, Graph!Ids(b))
  <2> HIDE DEF f
  <2> QED BY <1>2, <1>3, FS_Surjection
<1>5. Graph!Cardinality(Graph!Ids(b)) = Cardinality(Graph!Ids(b)) /\ Cardinality(Graph!Ids(b)) \in Nat
  <2>1. \A S : Graph!Cardinality(S) = Cardinality(S)
    BY Zenon DEF Graph!Cardinality, Cardinality
  <2> QED BY <1>4, <2>1, FS_CardinalityType
<1>6. Graph!IsDuplicate(b) <=> Cardinality(Graph!Ids(b)) # N0
  BY <1>1, <1>4, <1>5 DEF Graph!IsDuplicate
<1>7. f \in Injection(1..N0, Graph!Ids(b)) <=> \A i, j \in 1..N0 : b.nodes[i].id = b.nodes[j].id => i = j
  <2>1. f \in [1..N0 -> Graph!Ids(b)] /\ \A i \in 1..N0 : f[i] = b.nodes[i].id
    BY <1>2 DEF Surjection
  <2> HIDE DEF f
  <2> QED BY <2>1 DEF Injection, IsInjective
<1> QED BY <1>1, <1>4, <1>6, <1>7

LEMMA EdgesAre ==
  ASSUME KnownFlows, NEW b, b.nodes \in Seq(FlowNodes)
  PROVE  IsFiniteSet(Graph!Edges(b)) /\ \A id : IsFiniteSet(Graph!EdgesUp(b, id)) /\ IsFiniteSet(Graph!EdgesDown(b, id))
<1> DEFINE N0 == Len(b.nodes)
           E(i) == {i} \X DOMAIN b.nodes[i].to
           f == [i \in 1..N0 |-> E(i)]
           T == {E(i) : i \in DOMAIN b.nodes}
<1>1. N0 \in Nat /\ DOMAIN b.nodes = 1..N0
  BY NodesAre
<1>2. IsFiniteSet(T)
  <2>1. f \in Surjection(1..N0, T)
    <3> HIDE DEF E
    <3> QED BY <1>1 DEF Surjection
  <2>2. IsFiniteSet(1..N0)
    BY <1>1, FS_Interval
  <2> HIDE DEF f, T
  <2> QED BY <2>1, <2>2, FS_Surjection
<1>3. ASSUME NEW i \in DOMAIN b.nodes PROVE IsFiniteSet(E(i))
  <2>1. IsFiniteSet({i})
    BY FS_Singleton
  <2>2. IsFiniteSet(DOMAIN b.nodes[i].to)
    <3>1. Len(b.nodes[i].to) \in Int /\ DOMAIN b.nodes[i].to = 1..Len(b.nodes[i].to)
      BY NodesAre
    <3> QED BY <3>1, FS_Interval
  <2> QED BY <2>1, <2>2, FS_Product
<1>4. IsFiniteSet(UNION T)
  <2>1. \A S \in T : IsFiniteSet(S)
    BY <1>3
  <2> HIDE DEF T
  <2> QED BY <1>2, <2>1, FS_UNION
<1>5. IsFiniteSet(Graph!Edges(b))
  BY <1>4 DEF Graph!Edges
<1>6. ASSUME NEW S \in SUBSET Graph!Edges(b) PROVE IsFiniteSet(S)
  BY <1>5, FS_Subset
<1>7. \A id : Graph!EdgesUp(b, id) \in SUBSET Graph!Edges(b) /\ Graph!EdgesDown(b, id) \in SUBSET Graph!Edges(b)
  BY DEF Graph!EdgesUp, Graph!EdgesDown
<1> QED BY <1>5, <1>6, <1>7

\* If ids are unique, the edges and the type of an id are those of one node.
LEMMA NodeIs ==
  ASSUME KnownFlows, NEW b, b.nodes \in Seq(FlowNodes),
         Unique(b), NEW i \in DOMAIN b.nodes
  PROVE  /\ Graph!TypeOf(b, b.nodes[i].id) = b.nodes[i].type
         /\ Graph!EdgesDown(b, b.nodes[i].id) = {i} \X (1..Len(b.nodes[i].to))
         /\ Graph!Downstream(b, b.nodes[i].id) = Graph!Targets(b.nodes[i])
<1> DEFINE n == b.nodes[i]
<1>1. /\ DOMAIN b.nodes = 1..Len(b.nodes) /\ Len(b.nodes) \in Nat
      /\ DOMAIN n.to = 1..Len(n.to)
  BY NodesAre
<1>2. Graph!TypeOf(b, n.id) = n.type
  <2> DEFINE c == CHOOSE k \in DOMAIN b.nodes : /\ b.nodes[k].id = n.id
                                                /\ \A j \in DOMAIN b.nodes : b.nodes[j].id = n.id => j <= k
  <2>1. \A j \in DOMAIN b.nodes : b.nodes[j].id = n.id => j <= i
    BY <1>1 DEF Unique
  <2>2. c \in DOMAIN b.nodes /\ b.nodes[c].id = n.id
    BY <2>1
  <2>3. c = i
    BY <2>2 DEF Unique
  <2> QED BY <2>3 DEF Graph!TypeOf
<1>3. Graph!EdgesDown(b, n.id) = {i} \X (1..Len(n.to))
  <2>1. \A e \in Graph!Edges(b) : e[1] \in DOMAIN b.nodes /\ e[2] \in DOMAIN b.nodes[e[1]].to /\ e = <<e[1], e[2]>>
    BY DEF Graph!Edges
  <2>2. \A j \in DOMAIN n.to : <<i, j>> \in Graph!Edges(b)
    BY DEF Graph!Edges
  <2>3. ASSUME NEW e \in Graph!EdgesDown(b, n.id) PROVE e \in {i} \X (1..Len(n.to))
    BY <1>1, <2>1, <2>3 DEF Graph!EdgesDown, Graph!From, Unique
  <2>4. ASSUME NEW e \in {i} \X (1..Len(n.to)) PROVE e \in Graph!EdgesDown(b, n.id)
    BY <1>1, <2>2, <2>4 DEF Graph!EdgesDown, Graph!From
  <2> QED BY <2>3, <2>4
<1>4. Graph!Downstream(b, n.id) = Graph!Targets(n)
  <2>1. \A j \in DOMAIN n.to : <<i, j>> \in Graph!EdgesDown(b, n.id) /\ Graph!To(b, <<i, j>>) = n.to[j]
    BY <1>1, <1>3 DEF Graph!To
  <2>2. \A e \in Graph!EdgesDown(b, n.id) : e[2] \in DOMAIN n.to /\ Graph!To(b, e) = n.to[e[2]]
    BY <1>1, <1>3 DEF Graph!To
  <2> DEFINE A == {Graph!To(b, e) : e \in Graph!EdgesDown(b, n.id)}
             B == {n.to[j] : j \in DOMAIN n.to}
  <2>3. \A x : x \in A <=> x \in B
    <3>1. ASSUME NEW x \in A PROVE x \in B
      BY <2>2
    <3>2. ASSUME NEW j \in DOMAIN n.to PROVE n.to[j] \in A
      <4> HIDE DEF n
      <4> QED BY <2>1
    <3> QED BY <3>1, <3>2
  <2>4. A = B
    <3> HIDE DEF A, B
    <3> QED BY <2>3
  <2> QED BY <2>4 DEF Graph!Downstream, Graph!Targets
<1> QED BY <1>2, <1>3, <1>4

LEMMA NodeOKIs ==
  ASSUME KnownFlows, NEW b, b.nodes \in Seq(FlowNodes),
         Unique(b), NEW i \in DOMAIN b.nodes
  PROVE  Graph!NodeOK(b, b.nodes[i].id) <=>
           /\ b.nodes[i].type \in DOMAIN NodeTypes /\ Graph!LinksFit(b, b.nodes[i])
           /\ Graph!Targets(b.nodes[i]) \subseteq Graph!Ids(b)
<1> DEFINE n == b.nodes[i]
           ups == Graph!EdgesUp(b, n.id)
           downs == Graph!EdgesDown(b, n.id)
           t == NodeTypes[n.type]
<1>1. /\ Graph!TypeOf(b, n.id) = n.type /\ downs = {i} \X (1..Len(n.to))
      /\ Graph!Downstream(b, n.id) = Graph!Targets(n)
  <2>1. Graph!TypeOf(b, n.id) = n.type
    BY NodeIs
  <2>2. downs = {i} \X (1..Len(n.to))
    BY NodeIs
  <2>3. Graph!Downstream(b, n.id) = Graph!Targets(n)
    BY NodeIs
  <2> QED BY <2>1, <2>2, <2>3
<1>2. /\ Graph!Cardinality(ups) \in Nat /\ Graph!Cardinality(downs) \in Nat
      /\ Graph!Cardinality(ups) = 0 <=> ups = {}
      /\ Graph!Cardinality(downs) = 0 <=> downs = {}
      /\ Graph!Cardinality(ups) = 1 <=> \E x : ups = {x}
      /\ Graph!Cardinality(downs) = 1 <=> \E x : downs = {x}
  BY EdgesAre, CardIs
<1>3. n.to \in Seq(FlowNames) /\ Len(n.to) \in Nat
  BY NodesAre
<1> DEFINE L == Len(n.to)
<1>10. L \in Nat /\ (n.to = <<>> <=> L = 0) /\ downs = {i} \X (1..L)
  BY <1>1, <1>3
<1> HIDE DEF L, downs
<1>4. (downs = {} <=> n.to = <<>>) /\ (downs = {} <=> L = 0)
  <2>1. L > 0 => <<i, 1>> \in downs
    BY <1>10
  <2>2. L = 0 => downs = {}
    BY <1>10
  <2> QED BY <1>10, <2>1, <2>2
<1>5. (\E x : downs = {x}) <=> L = 1
  <2>1. ASSUME NEW x, downs = {x} PROVE L = 1
    <3>1. ASSUME L > 1 PROVE FALSE
      <4>1. <<i, 1>> \in downs /\ <<i, 2>> \in downs
        BY <1>10, <3>1
      <4> QED BY <2>1, <4>1
    <3> QED BY <1>10, <1>4, <2>1, <3>1
  <2>2. ASSUME L = 1 PROVE downs = {<<i, 1>>}
    <3>1. 1..L = {1}
      BY <2>2
    <3> QED BY <1>10, <3>1
  <2> QED BY <2>1, <2>2
<1>6. (\E x : ups = {x}) <=> ups # {} /\ \A d, e \in ups : d = e
  <2> HIDE DEF ups
  <2>1. ASSUME NEW x \in ups, \A d, e \in ups : d = e PROVE ups = {x}
    BY <2>1
  <2> QED BY <2>1
<1>7. ASSUME n.type \in DOMAIN NodeTypes
      PROVE  /\ Graph!LinksOK(t.up, Graph!Cardinality(ups)) <=>
                  (t.up = "none" <=> ups = {}) /\ (t.up = "one" => \A d, e \in ups : d = e)
             /\ Graph!LinksOK(t.down, Graph!Cardinality(downs)) <=>
                  (t.down = "none" <=> n.to = <<>>) /\ (t.down = "one" => Len(n.to) = 1)
  <2>1. t.up \in {"none", "one", "many"} /\ t.down \in {"none", "one", "many"}
    BY <1>7 DEF KnownFlows
  <2> HIDE DEF t, ups, downs, n
  <2>2. Graph!LinksOK(t.up, Graph!Cardinality(ups)) <=>
          (t.up = "none" <=> ups = {}) /\ (t.up = "one" => \A d, e \in ups : d = e)
    <3> DEFINE k == Graph!Cardinality(ups)
    <3>1. k \in Nat /\ (k = 0 <=> ups = {}) /\ (k = 1 <=> ups # {} /\ \A d, e \in ups : d = e)
      BY <1>2, <1>6
    <3> HIDE DEF k
    <3>2. Graph!LinksOK(t.up, k) <=> (t.up = "none" <=> ups = {}) /\ (t.up = "one" => \A d, e \in ups : d = e)
      BY <2>1, <3>1 DEF Graph!LinksOK
    <3> QED BY <3>2 DEF k
  <2>3. Graph!LinksOK(t.down, Graph!Cardinality(downs)) <=>
          (t.down = "none" <=> n.to = <<>>) /\ (t.down = "one" => Len(n.to) = 1)
    <3> DEFINE k == Graph!Cardinality(downs)
    <3>1. k \in Nat /\ (k = 0 <=> n.to = <<>>) /\ (k = 1 <=> Len(n.to) = 1) /\ (k = 1 => k # 0)
      BY <1>2, <1>4, <1>5 DEF L
    <3> HIDE DEF k
    <3>2. Graph!LinksOK(t.down, k) <=> (t.down = "none" <=> n.to = <<>>) /\ (t.down = "one" => Len(n.to) = 1)
      BY <2>1, <3>1 DEF Graph!LinksOK
    <3> QED BY <3>2 DEF k
  <2> QED BY <2>2, <2>3
<1>8. Graph!LinksFit(b, n) <=> /\ (t.up = "none" <=> ups = {}) /\ (t.up = "one" => \A d, e \in ups : d = e)
                               /\ (t.down = "none" <=> n.to = <<>>) /\ (t.down = "one" => Len(n.to) = 1)
  BY DEF Graph!LinksFit
<1>9. Graph!NodeOK(b, n.id) <=> /\ n.type \in DOMAIN NodeTypes
                                /\ Graph!LinksOK(t.up, Graph!Cardinality(ups))
                                /\ Graph!LinksOK(t.down, Graph!Cardinality(downs))
                                /\ Graph!Targets(n) \subseteq Graph!Ids(b)
  BY <1>1 DEF Graph!NodeOK, downs
<1> HIDE DEF ups, downs, t
<1> QED BY <1>7, <1>8, <1>9

\* Validate accepts the nodes of a graph, and only those.
LEMMA ValidIs ==
  ASSUME KnownFlows, NEW b, b.nodes \in Seq(FlowNodes)
  PROVE  Graph!Valid(b) <=> IsFlow(b)
<1> DEFINE Fits == \A i \in DOMAIN b.nodes :
                     /\ b.nodes[i].type \in DOMAIN NodeTypes /\ Graph!LinksFit(b, b.nodes[i])
                     /\ Graph!Targets(b.nodes[i]) \subseteq Graph!Ids(b)
<1>1. Graph!IsDuplicate(b) <=> ~Unique(b)
  BY NodeIdsAre DEF Unique
<1>2. SUFFICES ASSUME Unique(b) PROVE Graph!Valid(b) <=> IsFlow(b)
  BY <1>1 DEF Graph!Valid, IsFlow
<1>3. (\A id \in Graph!Ids(b) : Graph!NodeOK(b, id)) <=> Fits
  <2>1. \A i \in DOMAIN b.nodes : Graph!NodeOK(b, b.nodes[i].id) <=>
          /\ b.nodes[i].type \in DOMAIN NodeTypes /\ Graph!LinksFit(b, b.nodes[i])
          /\ Graph!Targets(b.nodes[i]) \subseteq Graph!Ids(b)
    BY <1>2, NodeOKIs
  <2>2. (\A id \in Graph!Ids(b) : Graph!NodeOK(b, id)) <=> \A i \in DOMAIN b.nodes : Graph!NodeOK(b, b.nodes[i].id)
    BY DEF Graph!Ids
  <2> QED BY <2>1, <2>2
<1>4. SUFFICES ASSUME Fits PROVE Graph!Valid(b) <=> IsFlow(b)
  BY <1>3 DEF Graph!Valid, IsFlow
<1>5. Closed(b)
  <2>1. \A id \in Graph!Ids(b) : Graph!Downstream(b, id) \subseteq Graph!Ids(b)
    BY <1>3, <1>4 DEF Graph!NodeOK
  <2> QED BY <2>1, NodeIdsAre DEF Closed
<1>6. Graph!EntryNodes(b) # {} <=> \E i \in DOMAIN b.nodes : NodeTypes[b.nodes[i].type].up = "none"
  <2>1. \A i \in DOMAIN b.nodes : NodeTypes[b.nodes[i].type].up = "none" <=> Graph!EdgesUp(b, b.nodes[i].id) = {}
    BY <1>4 DEF Graph!LinksFit
  <2>2. Graph!EntryNodes(b) # {} <=> \E i \in DOMAIN b.nodes : Graph!EdgesUp(b, b.nodes[i].id) = {}
    BY DEF Graph!EntryNodes, Graph!Ids
  <2> QED BY <2>1, <2>2
<1>7. ASSUME NEW n \in Graph!EntryNodes(b)
      PROVE  ~Graph!HasCycle(b, n) <=> \A m \in Graph!Ids(b) : Graph!Follows(b, n, m) => ~Graph!Follows(b, m, m)
  <2>1. n \in Graph!Ids(b)
    BY DEF Graph!EntryNodes
  <2>2. Graph!HasCycle(b, n) <=> \E m \in Graph!Ids(b) : m \in Graph!Reached(b, n) /\ Graph!Follows(b, m, m)
    BY <1>5, <2>1, HasCycleIs
  <2>3. \A m \in Graph!Reached(b, n) : m = n \/ Graph!Follows(b, n, m)
    BY <1>5, <2>1, ReachedIs
  <2>4. \A m : Graph!Follows(b, n, m) => m \in Graph!Reached(b, n)
    <3>1. \A t \in Graph!Downstream(b, n) : Graph!Reached(b, t) \subseteq Graph!Reached(b, n)
      BY <1>5, <2>1, ReachedIs
    <3> QED BY <3>1 DEF Graph!Follows
  <2> QED BY <2>1, <2>2, <2>3, <2>4
<1>8. (\A n \in Graph!EntryNodes(b) : ~Graph!HasCycle(b, n))
        <=> \A n \in Graph!EntryNodes(b), m \in Graph!Ids(b) : Graph!Follows(b, n, m) => ~Graph!Follows(b, m, m)
  BY <1>7
<1>9. (\E i \in DOMAIN b.nodes : NodeTypes[b.nodes[i].type].up = "none") => b.nodes # <<>>
  OBVIOUS
<1> HIDE DEF Fits
<1>10. IsFlow(b) <=> /\ \E i \in DOMAIN b.nodes : NodeTypes[b.nodes[i].type].up = "none"
                     /\ \A n \in Graph!EntryNodes(b), m \in Graph!Ids(b) : Graph!Follows(b, n, m) => ~Graph!Follows(b, m, m)
  BY <1>2, <1>4 DEF IsFlow, Fits
<1>11. Graph!Valid(b) <=> /\ b.nodes # <<>> /\ Graph!EntryNodes(b) # {}
                          /\ \A n \in Graph!EntryNodes(b) : ~Graph!HasCycle(b, n)
  BY <1>1, <1>2, <1>3, <1>4 DEF Graph!Valid
<1> QED BY <1>6, <1>8, <1>9, <1>10, <1>11

\* What is said of the nodes does not depend on what else is known of the graph.
LEMMA SameFlow ==
  ASSUME NEW b, NEW c, b.nodes = c.nodes
  PROVE  (IsFlow(b) <=> IsFlow(c)) /\ \A r : Graph!IsOffered(b, r) <=> Graph!IsOffered(c, r)
<1>1. Graph!Ids(b) = Graph!Ids(c) /\ Graph!Edges(b) = Graph!Edges(c)
  BY DEF Graph!Ids, Graph!Edges
<1>2. \A e : Graph!From(b, e) = Graph!From(c, e) /\ Graph!To(b, e) = Graph!To(c, e)
  BY DEF Graph!From, Graph!To
<1>3. \A id : Graph!EdgesUp(b, id) = Graph!EdgesUp(c, id) /\ Graph!EdgesDown(b, id) = Graph!EdgesDown(c, id)
  BY <1>1, <1>2 DEF Graph!EdgesUp, Graph!EdgesDown
<1>4. \A id : Graph!Downstream(b, id) = Graph!Downstream(c, id)
  BY <1>2, <1>3 DEF Graph!Downstream
<1>5. \A id : Graph!Reached(b, id) = Graph!Reached(c, id)
  BY <1>1, <1>4 DEF Graph!Reached
<1>6. \A n, m : Graph!Follows(b, n, m) <=> Graph!Follows(c, n, m)
  BY <1>4, <1>5 DEF Graph!Follows
<1>7. Graph!EntryNodes(b) = Graph!EntryNodes(c)
  BY <1>1, <1>3 DEF Graph!EntryNodes
<1>8. \A n : Graph!LinksFit(b, n) <=> Graph!LinksFit(c, n)
  BY <1>3 DEF Graph!LinksFit
<1>9. Unique(b) <=> Unique(c)
  BY DEF Unique
<1>10. \A id : Graph!ById(b, id) = Graph!ById(c, id)
  BY DEF Graph!ById
<1>11. \A r : Graph!IsOffered(b, r) <=> Graph!IsOffered(c, r)
  BY <1>1, <1>10 DEF Graph!IsOffered
<1>12. IsFlow(b) <=> IsFlow(c)
  BY <1>1, <1>6, <1>7, <1>8, <1>9 DEF IsFlow
<1> QED BY <1>11, <1>12

AllOffers == {Graph!OffersOf(n) : n \in FlowNodes}
Named(b) == \A i \in DOMAIN b.nodes : \A r \in b.nodes[i].refs : Graph!IsOffered(b, r)
Offering(b) == \A i \in DOMAIN b.offers : b.offers[i] = Graph!OffersOf(b.nodes[i])

\* When every node is created, what a statement names is found if it is offered.
LEMMA ResolvesIs ==
  ASSUME KnownFlows, NEW b, b.nodes \in Seq(FlowNodes), Unique(b),
         DOMAIN b.offers = DOMAIN b.nodes, Offering(b),
         NEW r, r.kind \in {"action", "signal"}
  PROVE  Graph!Resolves(b, r) <=> Graph!IsOffered(b, r)
<1> DEFINE At(i, o) == /\ o.kind = r.kind /\ o.node = r.node /\ o.name = r.name
                       /\ r.route = "" \/ r.route \in o.routes
           Names(n) == /\ r.node = n.id
                       /\ r.name \in (IF r.kind = "action" THEN NodeTypes[n.type].actions ELSE NodeTypes[n.type].signals)
                       /\ r.route = "" \/ r.route \in Graph!Targets(n)
<1>1. SUFFICES ASSUME r.node # "" PROVE Graph!Resolves(b, r) <=> Graph!IsOffered(b, r)
  BY DEF Graph!Resolves, Graph!IsOffered
<1>2. Graph!Resolves(b, r) <=> \E i \in DOMAIN b.nodes : \E o \in b.offers[i] : At(i, o)
  <2>1. Graph!Resolves(b, r) <=> \E o \in UNION {b.offers[i] : i \in DOMAIN b.offers} : At(1, o)
    BY <1>1 DEF Graph!Resolves
  <2> QED BY <2>1
<1>3. ASSUME NEW i \in DOMAIN b.nodes
      PROVE  (\E o \in b.offers[i] : At(i, o)) <=> Names(b.nodes[i])
  <2> DEFINE n == b.nodes[i]
             type == NodeTypes[n.type]
             Offer(k, a) == [kind |-> k, node |-> n.id, name |-> a, routes |-> Graph!Targets(n)]
  <2>1. b.offers[i] = {Offer(o[1], o[2]) : o \in ({"action"} \X type.actions) \cup ({"signal"} \X type.signals)}
    BY <1>3 DEF Offering, Graph!OffersOf
  <2>2. \A k, a : At(i, Offer(k, a)) <=> k = r.kind /\ n.id = r.node /\ a = r.name /\ (r.route = "" \/ r.route \in Graph!Targets(n))
    OBVIOUS
  <2> HIDE DEF At, Offer
  <2>3. (\E o \in b.offers[i] : At(i, o)) <=>
          \E k \in {"action", "signal"} : \E a \in IF k = "action" THEN type.actions ELSE type.signals : At(i, Offer(k, a))
    <3>1. ASSUME NEW o \in ({"action"} \X type.actions) \cup ({"signal"} \X type.signals)
          PROVE  o[1] \in {"action", "signal"} /\ o[2] \in IF o[1] = "action" THEN type.actions ELSE type.signals
      OBVIOUS
    <3>2. ASSUME NEW a \in type.actions PROVE Offer("action", a) \in b.offers[i]
      <4>1. <<"action", a>> \in ({"action"} \X type.actions) \cup ({"signal"} \X type.signals)
        OBVIOUS
      <4> QED BY <2>1, <4>1
    <3>3. ASSUME NEW a \in type.signals PROVE Offer("signal", a) \in b.offers[i]
      <4>1. <<"signal", a>> \in ({"action"} \X type.actions) \cup ({"signal"} \X type.signals)
        OBVIOUS
      <4> QED BY <2>1, <4>1
    <3> HIDE DEF type
    <3> QED BY <2>1, <3>1, <3>2, <3>3
  <2> QED BY <2>2, <2>3
<1>4. Graph!IsOffered(b, r) <=> \E i \in DOMAIN b.nodes : Names(b.nodes[i])
  <2>1. r.node \in Graph!Ids(b) <=> \E i \in DOMAIN b.nodes : b.nodes[i].id = r.node
    BY DEF Graph!Ids
  <2>2. ASSUME NEW i \in DOMAIN b.nodes, b.nodes[i].id = r.node PROVE Graph!ById(b, r.node) = i
    BY <2>2 DEF Graph!ById, Unique
  <2>3. ASSUME NEW i \in DOMAIN b.nodes, b.nodes[i].id = r.node
        PROVE  Graph!IsOffered(b, r) <=> Names(b.nodes[i])
    BY <1>1, <2>1, <2>2, <2>3 DEF Graph!IsOffered
  <2>4. ASSUME NEW i \in DOMAIN b.nodes, Names(b.nodes[i]) PROVE Graph!IsOffered(b, r)
    <3>1. b.nodes[i].id = r.node
      BY <2>4
    <3> HIDE DEF Names
    <3> QED BY <2>3, <2>4, <3>1
  <2>5. ASSUME Graph!IsOffered(b, r) PROVE \E i \in DOMAIN b.nodes : Names(b.nodes[i])
    <3>1. r.node \in Graph!Ids(b)
      BY <1>1, <2>5 DEF Graph!IsOffered
    <3> HIDE DEF Names
    <3> QED BY <2>1, <2>3, <2>5, <3>1
  <2> QED BY <2>4, <2>5
<1> HIDE DEF At, Names
<1> QED BY <1>2, <1>3, <1>4

\* Both ends of an edge name its key alike: what a node publishes on, the node at the
\* other end subscribes to.
LEMMA KeysMeet ==
  ASSUME NEW b, NEW id, NEW reverse \in BOOLEAN, NEW key \in Graph!PubKeys(b, id, reverse)
  PROVE  key \in Graph!SubKeys(b, key[1], ~reverse)
<1>1. CASE reverse
  <2>1. PICK n \in Graph!Upstream(b, id) : key = <<n, "up">>
    BY <1>1 DEF Graph!PubKeys
  <2>2. PICK e \in Graph!EdgesUp(b, id) : n = Graph!From(b, e)
    BY DEF Graph!Upstream
  <2>3. e \in Graph!EdgesDown(b, n)
    BY <2>2 DEF Graph!EdgesUp, Graph!EdgesDown
  <2> QED BY <1>1, <2>1, <2>3 DEF Graph!SubKeys
<1>2. CASE ~reverse
  <2>1. PICK n \in Graph!Downstream(b, id) : key = <<n, "down">>
    BY <1>2 DEF Graph!PubKeys
  <2>2. PICK e \in Graph!EdgesDown(b, id) : n = Graph!To(b, e)
    BY DEF Graph!Downstream
  <2>3. e \in Graph!EdgesUp(b, n)
    BY <2>2 DEF Graph!EdgesUp, Graph!EdgesDown
  <2> QED BY <1>2, <2>1, <2>3 DEF Graph!SubKeys
<1> QED BY <1>1, <1>2

\* A graph that got past a phase is what the phase has checked; one that did not, is not.
BuiltTypeOK ==
  /\ input \in Seq(SUBSET FlowNodes)
  /\ state \in [nodes : Seq(FlowNodes), phase : {"add", "create", "configure", "built", "failed"},
                offers : Seq(AllOffers)]

Building ==
  /\ BuiltTypeOK
  /\ Len(state.offers) <= Len(state.nodes) /\ Offering(state)
  /\ state.phase = "add" => state.offers = <<>>
  /\ state.phase \in {"create", "configure", "built"} => IsFlow(state)
  /\ state.phase = "configure" => Len(state.offers) = Len(state.nodes)
  /\ state.phase = "built" => Named(state)
  /\ state.phase = "failed" => ~(IsFlow(state) /\ Named(state))

LEMMA BuildingInit == ASSUME KnownFlows, Graph!Init PROVE Building
<1>1. input \in Seq(SUBSET FlowNodes) /\ state = Graph!Start
  BY DEF Graph!Init, KnownFlows
<1>2. \A S : <<>> \in Seq(S) /\ Len(<<>>) = 0 /\ DOMAIN <<>> = {}
  OBVIOUS
<1> QED BY <1>1, <1>2 DEF Building, BuiltTypeOK, Graph!Start, Offering

LEMMA BuildingAdd == ASSUME KnownFlows, Building, Graph!AddNode PROVE Building'
<1>1. PICK n \in input[1] : state' = [state EXCEPT !.nodes = Append(@, n)]
  BY DEF Graph!AddNode
<1>2. input \in Seq(SUBSET FlowNodes) /\ input # <<>> /\ input' = Tail(input) /\ state.phase = "add"
  BY DEF Building, BuiltTypeOK, Graph!AddNode
<1>3. n \in FlowNodes /\ input' \in Seq(SUBSET FlowNodes)
  BY <1>2
<1>4. /\ state'.nodes = Append(state.nodes, n) /\ state'.phase = "add" /\ state'.offers = <<>>
      /\ state' = [nodes |-> state'.nodes, phase |-> state'.phase, offers |-> state'.offers]
  BY <1>1, <1>2 DEF Building, BuiltTypeOK
<1>5. state.nodes \in Seq(FlowNodes)
  BY DEF Building, BuiltTypeOK
<1>6. Append(state.nodes, n) \in Seq(FlowNodes) /\ Len(Append(state.nodes, n)) \in Nat
  BY <1>3, <1>5
<1>7. \A S : <<>> \in Seq(S) /\ Len(<<>>) = 0 /\ DOMAIN <<>> = {}
  OBVIOUS
<1>8. BuiltTypeOK'
  BY <1>3, <1>4, <1>6, <1>7 DEF BuiltTypeOK
<1> QED BY <1>4, <1>6, <1>7, <1>8 DEF Building, Offering

LEMMA BuildingValidate == ASSUME KnownFlows, Building, Graph!Validate PROVE Building'
<1>1. Graph!Valid(state) <=> IsFlow(state)
  BY ValidIs DEF Building, BuiltTypeOK
<1>2. state' = [state EXCEPT !.phase = IF IsFlow(state) THEN "create" ELSE "failed"] /\ input' = input
  BY <1>1 DEF Graph!Validate, Graph!Reject
<1>3. /\ state'.nodes = state.nodes /\ state'.offers = state.offers /\ state'.offers = <<>>
      /\ state'.phase = IF IsFlow(state) THEN "create" ELSE "failed"
      /\ BuiltTypeOK'
  BY <1>2 DEF Building, BuiltTypeOK, Graph!Validate
<1>4. IsFlow(state') <=> IsFlow(state)
  BY <1>3, SameFlow
<1>5. (IsFlow(state))' <=> IsFlow(state)
  BY <1>4
<1> QED BY <1>3, <1>5 DEF Building, Offering

LEMMA BuildingCreate == ASSUME KnownFlows, Building, Graph!CreateNode PROVE Building'
<1> DEFINE i == Len(state.offers) + 1
<1>1. /\ state.phase = "create" /\ input' = input
      /\ state' = IF i > Len(state.nodes) THEN [state EXCEPT !.phase = "configure"]
                  ELSE [state EXCEPT !.offers = Append(@, Graph!OffersOf(state.nodes[i]))]
  BY DEF Graph!CreateNode
<1>2. /\ state.nodes \in Seq(FlowNodes) /\ state.offers \in Seq(AllOffers) /\ Offering(state)
      /\ Len(state.offers) <= Len(state.nodes) /\ IsFlow(state) /\ BuiltTypeOK
  BY <1>1 DEF Building, BuiltTypeOK
<1>3. ASSUME state'.nodes = state.nodes PROVE IsFlow(state)'
  <2>1. IsFlow(state')
    BY <1>2, <1>3, SameFlow
  <2> QED BY <2>1
<1>4. CASE i > Len(state.nodes)
  <2>1. /\ state'.nodes = state.nodes /\ state'.offers = state.offers /\ state'.phase = "configure"
        /\ BuiltTypeOK'
    BY <1>1, <1>2, <1>4 DEF BuiltTypeOK
  <2>2. Len(state.offers) = Len(state.nodes)
    BY <1>2, <1>4
  <2> QED BY <1>2, <1>3, <2>1, <2>2 DEF Building, Offering
<1>5. CASE ~(i > Len(state.nodes))
  <2>1. i \in DOMAIN state.nodes /\ state.nodes[i] \in FlowNodes
    BY <1>2, <1>5
  <2>2. Graph!OffersOf(state.nodes[i]) \in AllOffers
    BY <2>1 DEF AllOffers
  <2>3. /\ state'.nodes = state.nodes /\ state'.phase = "create"
        /\ state'.offers = Append(state.offers, Graph!OffersOf(state.nodes[i]))
        /\ BuiltTypeOK'
    <3> DEFINE more == Append(state.offers, Graph!OffersOf(state.nodes[i]))
    <3>1. more \in Seq(AllOffers)
      BY <1>2, <2>2
    <3>2. state' = [state EXCEPT !.offers = more]
      BY <1>1, <1>5
    <3> HIDE DEF more
    <3>3. /\ state'.nodes = state.nodes /\ state'.phase = "create" /\ state'.offers = more
          /\ BuiltTypeOK'
      BY <1>1, <1>2, <3>1, <3>2 DEF BuiltTypeOK
    <3> QED BY <3>3 DEF more
  <2> DEFINE o == Graph!OffersOf(state.nodes[i])
  <2>4. o = Graph!OffersOf(state.nodes[i]) /\ o \in AllOffers
    BY <2>2
  <2>5. \A k \in 1..i : Append(state.offers, o)[k] = Graph!OffersOf(state.nodes[k])
    <3> HIDE DEF o
    <3>1. \A k \in 1..Len(state.offers) : state.offers[k] = Graph!OffersOf(state.nodes[k])
      BY <1>2 DEF Offering
    <3> QED BY <1>2, <2>4, <3>1
  <2>6. Len(Append(state.offers, o)) = i /\ DOMAIN Append(state.offers, o) = 1..i /\ i <= Len(state.nodes)
    <3> HIDE DEF o
    <3> QED BY <1>2, <1>5, <2>4
  <2>7. Offering(state)' /\ Len(state'.offers) <= Len(state'.nodes)
    BY <2>3, <2>5, <2>6 DEF Offering
  <2> QED BY <1>3, <2>3, <2>7 DEF Building
<1> QED BY <1>4, <1>5

LEMMA BuildingConfigure == ASSUME KnownFlows, Building, Graph!Configure PROVE Building'
<1>1. /\ state.nodes \in Seq(FlowNodes) /\ state.offers \in Seq(AllOffers) /\ Offering(state)
      /\ Len(state.offers) = Len(state.nodes) /\ IsFlow(state) /\ BuiltTypeOK
  BY DEF Building, BuiltTypeOK, Graph!Configure
<1>2. DOMAIN state.offers = DOMAIN state.nodes /\ Unique(state)
  BY <1>1 DEF IsFlow
<1>3. \A k \in DOMAIN state.nodes : \A r \in state.nodes[k].refs : r.kind \in {"action", "signal"}
  BY <1>1, NodesAre DEF KnownFlows
<1>4. \A k \in DOMAIN state.nodes : \A r \in state.nodes[k].refs : Graph!Resolves(state, r) <=> Graph!IsOffered(state, r)
  BY <1>1, <1>2, <1>3, ResolvesIs
<1>5. state' = [state EXCEPT !.phase = IF Named(state) THEN "built" ELSE "failed"] /\ input' = input
  BY <1>4 DEF Graph!Configure, Graph!Reject, Named
<1>6. /\ state'.nodes = state.nodes /\ state'.offers = state.offers
      /\ state'.phase = IF Named(state) THEN "built" ELSE "failed"
      /\ BuiltTypeOK'
  BY <1>1, <1>5 DEF BuiltTypeOK
<1>7. /\ IsFlow(state') <=> IsFlow(state)
      /\ \A r : Graph!IsOffered(state', r) <=> Graph!IsOffered(state, r)
  BY <1>6, SameFlow
<1>8. IsFlow(state)' /\ (Named(state)' <=> Named(state))
  BY <1>1, <1>6, <1>7 DEF Named
<1> QED BY <1>1, <1>6, <1>8 DEF Building, Offering

\* A flow is built exactly if it is a graph whose statements name what is there, and its
\* nodes subscribe to what others publish (graph.go:79-160, 371-399, 438-516).
THEOREM BuiltIffGraphAlways ==
  ASSUME KnownFlows
  PROVE  Graph!Spec => []BuiltIffGraph
<1>1. Building /\ [Graph!Next]_(Graph!vars) => Building'
  <2> SUFFICES ASSUME Building, [Graph!Next]_(Graph!vars) PROVE Building'
    OBVIOUS
  <2>1. CASE UNCHANGED Graph!vars
    <3>1. input' = input /\ state' = state
      BY <2>1 DEF Graph!vars
    <3>2. /\ IsFlow(state)' <=> IsFlow(state)
          /\ Named(state)' <=> Named(state)
          /\ Offering(state)' <=> Offering(state)
      <4>1. /\ IsFlow(state') <=> IsFlow(state)
            /\ \A r : Graph!IsOffered(state', r) <=> Graph!IsOffered(state, r)
        BY <3>1, SameFlow
      <4> QED BY <3>1, <4>1 DEF Named, Offering
    <3> QED BY <3>1, <3>2 DEF Building, BuiltTypeOK
  <2> QED BY <2>1, BuildingAdd, BuildingValidate, BuildingCreate, BuildingConfigure DEF Graph!Next
<1>2. Building => BuiltIffGraph
  <2> SUFFICES ASSUME Building PROVE Graph!BuiltIffGraph
    BY DEF BuiltIffGraph
  <2>1. Graph!IsGraph(state) <=> IsFlow(state) /\ Named(state)
    BY DEF Graph!IsGraph, IsFlow, Unique, Named
  <2> QED BY <2>1, KeysMeet DEF Building, Graph!BuiltIffGraph
<1> QED BY <1>1, <1>2, BuildingInit, PTL DEF Graph!Spec

-----------------------------------------------------------------------------
(* InputReports.                                                            *)

\* What each step keeps holds of all values of a function.
LEMMA Ascent ==
  ASSUME NEW N0 \in Nat, NEW S, NEW h, h[0] \in S[0],
         \A n \in 1..N0 : h[n - 1] \in S[n - 1] => h[n] \in S[n]
  PROVE  \A n \in 0..N0 : h[n] \in S[n]
<1> DEFINE Wrong == {n \in 0..N0 : h[n] \notin S[n]}
<1> SUFFICES ASSUME Wrong # {} PROVE FALSE
  OBVIOUS
<1>1. PICK m \in Wrong : \A j \in Wrong : m <= j
  <2>1. Wrong \in SUBSET Nat
    OBVIOUS
  <2> HIDE DEF Wrong
  <2> QED BY <2>1, HasLeast
<1>2. m # 0
  BY <1>1
<1>3. m \in 1..N0 /\ m - 1 \in 0..N0 /\ ~(m <= m - 1)
  BY <1>1, <1>2
<1>4. h[m - 1] \in S[m - 1]
  BY <1>1, <1>3
<1> QED BY <1>1, <1>3, <1>4

\* A function that is defined by recursion is there, and has the type its steps keep.
Keeps(N0, S, step) == \A n \in 1..N0 : \A e \in S[n - 1] : step[<<n, e>>] \in S[n]
Recurs(h, N0, S, step) == \A n \in 1..N0 : h[n - 1] \in S[n - 1] /\ h[n] = step[<<n, h[n - 1]>>]

LEMMA Recursion ==
  ASSUME NEW N0 \in Nat, NEW T, NEW S \in [0..N0 -> SUBSET T], NEW z \in S[0], NEW step, Keeps(N0, S, step)
  PROVE  \E h : h \in [0..N0 -> T] /\ h[0] = z /\ Recurs(h, N0, S, step)
<1> DEFINE Is(m, h) == h = [n \in 0..m |-> IF n = 0 THEN z ELSE step[<<n, h[n - 1]>>]]
           Missed == {m \in Nat : \A h : ~Is(m, h)}
<1>1. Missed = {}
  <2> SUFFICES ASSUME Missed # {} PROVE FALSE
    OBVIOUS
  <2>1. PICK m \in Missed : \A j \in Missed : m <= j
    <3>1. Missed \in SUBSET Nat
      OBVIOUS
    <3> HIDE DEF Missed
    <3> QED BY <3>1, HasLeast
  <2>2. CASE m = 0
    <3>1. Is(0, [n \in 0..0 |-> z])
      OBVIOUS
    <3> QED BY <2>1, <2>2, <3>1
  <2>3. CASE m # 0
    <3>1. m \in Nat /\ m - 1 \in Nat /\ m - 1 \notin Missed
      <4>1. m \in Nat
        BY <2>1
      <4>2. m - 1 \in Nat /\ ~(m <= m - 1)
        BY <4>1, <2>3
      <4> HIDE DEF Missed
      <4> QED BY <4>1, <4>2, <2>1
    <3>2. PICK h : Is(m - 1, h)
      BY <3>1
    <3> DEFINE g == [n \in 0..m |-> IF n = m THEN step[<<m, h[m - 1]>>] ELSE h[n]]
    <3>3. \A n \in 0..(m - 1) : h[n] = IF n = 0 THEN z ELSE step[<<n, h[n - 1]>>]
      BY <3>2
    <3>4. \A n \in 0..m : g[n] = IF n = 0 THEN z ELSE step[<<n, g[n - 1]>>]
      <4> TAKE n \in 0..m
      <4>1. CASE n = m
        <5>1. m - 1 \in 0..m /\ m - 1 # m
          BY <2>3, <3>1
        <5>2. g[m - 1] = h[m - 1] /\ g[m] = step[<<m, h[m - 1]>>]
          BY <3>1, <5>1
        <5> HIDE DEF g
        <5> QED BY <2>3, <4>1, <5>2
      <4>2. CASE n # m
        <5>1. n \in 0..(m - 1) /\ (n # 0 => n - 1 \in 0..m /\ n - 1 # m)
          BY <3>1, <4>2
        <5> QED BY <3>3, <4>2, <5>1
      <4> QED BY <4>1, <4>2
    <3>5. Is(m, g)
      <4>1. g = [n \in 0..m |-> g[n]]
        OBVIOUS
      <4> HIDE DEF g
      <4> QED BY <3>4, <4>1
    <3> QED BY <2>1, <3>5
  <2> QED BY <2>2, <2>3
<1>2. \E h : Is(N0, h)
  <2>1. N0 \notin Missed
    <3> HIDE DEF Missed
    <3> QED BY <1>1
  <2> HIDE DEF Is
  <2> QED BY <2>1
<1>3. PICK h : Is(N0, h)
  BY <1>2
<1>4. h[0] = z /\ \A n \in 1..N0 : h[n] = step[<<n, h[n - 1]>>]
  BY <1>3
<1>5. h = [n \in 0..N0 |-> h[n]]
  BY <1>3
<1>6. \A n \in 0..N0 : h[n] \in S[n]
  <2>1. \A n \in 1..N0 : h[n - 1] \in S[n - 1] => h[n] \in S[n]
    BY <1>4 DEF Keeps
  <2> HIDE DEF Is
  <2> QED BY <1>4, <2>1, Ascent
<1>7. \A n \in 1..N0 : n - 1 \in 0..N0
  OBVIOUS
<1>8. h \in [0..N0 -> T]
  <2>1. \A n \in 0..N0 : h[n] \in T
    BY <1>6
  <2> HIDE DEF Is
  <2> QED BY <1>5, <2>1
<1> QED BY <1>4, <1>6, <1>7, <1>8 DEF Recurs

\* What reports hold: usages within the range of the item they are of, numbers for motions.
\* No usage is that of two items, and there is one absolute item at most.
Entries == UNION {{Items[id][i] : i \in DOMAIN Items[id]} : id \in DOMAIN Items}
Contents == {{}, <<NoUsage, NoUsage>>, 0} \cup (UNION {item.contents : item \in Entries})
AllUsages == UNION {item.usages : item \in Entries}

Shared(item, other) ==
  \/ Keyboard!IsSet(item) /\ Keyboard!IsSet(other) /\ item.usages \cap other.usages # {}
  \/ item.kind = "absolute" /\ other.kind = "absolute"

KnownItems ==
  /\ Items \in Seq(Seq(Entries))
  /\ \A item \in Entries :
       /\ item.kind \in {"flags", "selector", "relative", "absolute"}
       /\ Keyboard!IsSet(item) => \A c \in item.contents : Keyboard!SetUsages(item, c) \subseteq item.usages
       /\ item.kind = "relative" => item.contents \subseteq Int
  /\ \A p, q \in Keyboard!Places : p # q => ~Shared(Keyboard!Item(p), Keyboard!Item(q))

Fits(id, f) ==
  /\ f \in Seq(Contents) /\ Len(f) = Len(Items[id])
  /\ \A i \in DOMAIN Items[id] :
       /\ Keyboard!IsSet(Items[id][i]) => Keyboard!SetUsages(Items[id][i], f[i]) \subseteq Items[id][i].usages
       /\ Items[id][i].kind = "relative" => f[i] \in Int

\* Without motions.
Still(id, f) == Fits(id, f) /\ \A i \in DOMAIN Items[id] : Items[id][i].kind = "relative" => f[i] = 0

LEMMA ItemsAre ==
  ASSUME KnownItems, NEW id \in Keyboard!Ids
  PROVE  /\ Len(Items) \in Nat /\ Keyboard!Ids = 1..Len(Items)
         /\ Len(Items[id]) \in Nat /\ DOMAIN Items[id] = 1..Len(Items[id])
         /\ \A i \in DOMAIN Items[id] : /\ Items[id][i] \in Entries /\ <<id, i>> \in Keyboard!Places
                                        /\ Keyboard!Item(<<id, i>>) = Items[id][i]
                                        /\ Items[id][i].kind \in {"flags", "selector", "relative", "absolute"}
         /\ \A i, j \in DOMAIN Items[id] : i # j => ~Shared(Items[id][i], Items[id][j])
<1>1. Items \in Seq(Seq(Entries)) /\ id \in DOMAIN Items
  BY DEF KnownItems, Keyboard!Ids
<1>2. /\ Len(Items) \in Nat /\ Keyboard!Ids = 1..Len(Items)
      /\ Items[id] \in Seq(Entries)
  BY <1>1 DEF Keyboard!Ids
<1>3. Len(Items[id]) \in Nat /\ DOMAIN Items[id] = 1..Len(Items[id])
  BY <1>2
<1>4. ASSUME NEW i \in DOMAIN Items[id]
      PROVE  Items[id][i] \in Entries /\ <<id, i>> \in Keyboard!Places /\ Keyboard!Item(<<id, i>>) = Items[id][i]
  <2>1. Items[id][i] \in Entries
    BY <1>1, <1>4 DEF Entries
  <2>2. <<id, i>> \in Keyboard!Places
    BY <1>4 DEF Keyboard!Places
  <2> QED BY <2>1, <2>2 DEF Keyboard!Item
<1>5. \A i \in DOMAIN Items[id] : Items[id][i].kind \in {"flags", "selector", "relative", "absolute"}
  BY <1>4 DEF KnownItems
<1>6. ASSUME NEW i \in DOMAIN Items[id], NEW j \in DOMAIN Items[id], i # j
      PROVE  ~Shared(Items[id][i], Items[id][j])
  <2>1. <<id, i>> # <<id, j>>
    BY <1>6
  <2> QED BY <1>4, <2>1 DEF KnownItems
<1> QED BY <1>2, <1>3, <1>4, <1>5, <1>6

\* The motions of a report are added up.
LEMMA MotionIs ==
  ASSUME KnownItems, NEW id \in Keyboard!Ids, NEW f, Fits(id, f)
  PROVE  \E m \in [0..Len(Items[id]) -> Int] :
           /\ m[0] = 0 /\ Keyboard!Motion(id, f) = m[Len(Items[id])]
           /\ \A n \in 1..Len(Items[id]) :
                m[n] = IF Items[id][n].kind = "relative" THEN m[n - 1] + f[n] ELSE m[n - 1]
<1> DEFINE N0 == Len(Items[id])
           Add(n, k) == IF Items[id][n].kind = "relative" THEN k + f[n] ELSE k
           step == [p \in (1..N0) \X Int |-> Add(p[1], p[2])]
           Is(h) == h = [n \in 0..N0 |-> IF n = 0 THEN 0 ELSE Add(n, h[n - 1])]
           m == CHOOSE h : Is(h)
           S == [n \in 0..N0 |-> Int]
<1>1. N0 \in Nat
  BY ItemsAre
<1>2. \A n \in 1..N0 : \A k \in Int : Add(n, k) \in Int
  BY ItemsAre DEF Fits
<1>3. Keyboard!Motion(id, f) = m[N0]
  BY Zenon DEF Keyboard!Motion
<1> HIDE DEF N0, Add, m, Is
<1>4. \E h : Is(h)
  <2>1. S[0] = Int /\ \A n \in 1..N0 : n - 1 \in 0..N0 /\ S[n - 1] = Int /\ S[n] = Int
    BY <1>1
  <2>2. \A n \in 1..N0 : \A k \in Int : step[<<n, k>>] = Add(n, k)
    OBVIOUS
  <2>3. 0 \in S[0] /\ \A n \in 1..N0 : \A e \in S[n - 1] : step[<<n, e>>] \in S[n]
    <3> HIDE DEF step, S
    <3> QED BY <1>2, <2>1, <2>2
  <2>4. PICK h : /\ h \in [0..N0 -> Int] /\ h[0] = 0
                 /\ Recurs(h, N0, S, step)
    <3>1. S \in [0..N0 -> SUBSET Int]
      OBVIOUS
    <3>2. Keeps(N0, S, step)
      BY <2>3 DEF Keeps
    <3> HIDE DEF step, S
    <3> QED BY <1>1, <2>3, <3>1, <3>2, Recursion
  <2>5. \A n \in 0..N0 : h[n] = IF n = 0 THEN 0 ELSE Add(n, h[n - 1])
    <3> TAKE n \in 0..N0
    <3>1. n # 0 => n \in 1..N0
      BY <1>1
    <3> HIDE DEF step, S
    <3> QED BY <2>1, <2>2, <2>4, <3>1 DEF Recurs
  <2>6. h = [n \in 0..N0 |-> h[n]]
    BY <2>4
  <2> HIDE DEF step, S
  <2>7. h = [n \in 0..N0 |-> IF n = 0 THEN 0 ELSE Add(n, h[n - 1])]
    BY <2>5, <2>6
  <2> QED BY <2>7 DEF Is
<1>5. Is(m)
  <2> HIDE DEF Is
  <2> QED BY <1>4 DEF m
<1>6. m[0] = 0 /\ \A n \in 1..N0 : m[n] = Add(n, m[n - 1])
  BY <1>1, <1>5 DEF Is
<1>7. \A n \in 0..N0 : m[n] \in Int
  <2>1. m[0] \in S[0]
    BY <1>1, <1>6
  <2>2. \A n \in 1..N0 : m[n - 1] \in S[n - 1] => m[n] \in S[n]
    <3> TAKE n \in 1..N0
    <3>1. n - 1 \in 0..N0 /\ n \in 0..N0
      BY <1>1
    <3> QED BY <1>2, <1>6, <3>1
  <2>3. \A n \in 0..N0 : m[n] \in S[n]
    <3> HIDE DEF S
    <3> QED BY <1>1, <2>1, <2>2, Ascent
  <2> QED BY <2>3
<1>8. m \in [0..N0 -> Int]
  BY <1>5, <1>7 DEF Is
<1> QED BY <1>3, <1>6, <1>8 DEF N0, Add

EventType == [on : SUBSET AllUsages, off : SUBSET AllUsages, delta : Int, value : {<<>>} \cup {<<c>> : c \in Contents}]

\* The usages that an item has set after but not before.
Gained(item, before, after) ==
  IF Keyboard!IsSet(item) THEN Keyboard!SetUsages(item, after) \ Keyboard!SetUsages(item, before) ELSE {}

LEMMA AddSet ==
  ASSUME NEW e \in EventType, NEW item \in Entries, Keyboard!IsSet(item), NEW c0, NEW c1,
         Keyboard!SetUsages(item, c0) \subseteq item.usages, Keyboard!SetUsages(item, c1) \subseteq item.usages,
         e.on \cap item.usages = {}, e.off \cap item.usages = {}
  PROVE  /\ Keyboard!AddItem(e, item, c0, c1) \in EventType
         /\ Keyboard!AddItem(e, item, c0, c1).on = e.on \cup Gained(item, c0, c1)
         /\ Keyboard!AddItem(e, item, c0, c1).off = e.off \cup Gained(item, c1, c0)
         /\ Keyboard!AddItem(e, item, c0, c1).delta = e.delta /\ Keyboard!AddItem(e, item, c0, c1).value = e.value
<1> DEFINE S0 == Keyboard!SetUsages(item, c0)
           S1 == Keyboard!SetUsages(item, c1)
           d == Keyboard!Diff(item, c0, c1)
           e1 == Keyboard!AddItem(e, item, c0, c1)
<1>1. d.on = S1 \ S0 /\ d.off = S0 \ S1
  BY DEF Keyboard!Diff, Keyboard!Missing, Keyboard!HasUsage
<1>2. Gained(item, c0, c1) = S1 \ S0 /\ Gained(item, c1, c0) = S0 \ S1
  BY DEF Gained
<1>3. item.usages \subseteq AllUsages
  BY DEF AllUsages
<1>4. CASE c0 = c1
  <2>1. e1 = e
    BY <1>4 DEF Keyboard!AddItem
  <2> QED BY <1>2, <1>4, <2>1
<1>5. CASE c0 # c1
  <2>1. e1 = [e EXCEPT !.on = (@ \cup d.on) \ d.off, !.off = (@ \ d.on) \cup d.off]
    BY <1>5 DEF Keyboard!AddItem, Keyboard!AddDiff, Keyboard!IsSet
  <2> HIDE DEF d, e1, S0, S1
  <2>2. e1 = [on |-> (e.on \cup d.on) \ d.off, off |-> (e.off \ d.on) \cup d.off, delta |-> e.delta, value |-> e.value]
    BY <2>1 DEF EventType
  <2>3. S0 \subseteq item.usages /\ S1 \subseteq item.usages
    BY DEF S0, S1
  <2>4. (e.on \cup d.on) \ d.off = e.on \cup (S1 \ S0) /\ (e.off \ d.on) \cup d.off = e.off \cup (S0 \ S1)
    BY <1>1, <2>3
  <2>5. e1 = [on |-> e.on \cup (S1 \ S0), off |-> e.off \cup (S0 \ S1), delta |-> e.delta, value |-> e.value]
    BY <2>2, <2>4
  <2>6. e1 \in EventType
    BY <1>3, <2>3, <2>5 DEF EventType
  <2> QED BY <1>2, <2>5, <2>6 DEF e1
<1> QED BY <1>4, <1>5

LEMMA AddMotion ==
  ASSUME NEW e \in EventType, NEW item, item.kind = "relative", NEW c1 \in Int
  PROVE  Keyboard!AddItem(e, item, 0, c1) =
           [on |-> e.on, off |-> e.off, delta |-> e.delta + c1, value |-> e.value]
BY DEF Keyboard!AddItem, Keyboard!IsSet, EventType

LEMMA AddValue ==
  ASSUME NEW e \in EventType, NEW item, item.kind = "absolute", NEW c0, NEW c1
  PROVE  Keyboard!AddItem(e, item, c0, c1) = [on |-> e.on, off |-> e.off, delta |-> e.delta, value |-> <<c1>>]
BY DEF Keyboard!AddItem, Keyboard!IsSet, EventType

\* The event after the first n items.
EventUpTo(id, t0, t1, m, n) ==
  {e \in EventType :
     /\ e.on = UNION {Gained(Items[id][i], t0[i], t1[i]) : i \in 1..n}
     /\ e.off = UNION {Gained(Items[id][i], t1[i], t0[i]) : i \in 1..n}
     /\ e.delta = m
     /\ \A i \in 1..n : Items[id][i].kind = "absolute" => e.value = <<t1[i]>>
     /\ (\A i \in 1..n : Items[id][i].kind # "absolute") => e.value = <<>>}

LEMMA AddItemIs ==
  ASSUME KnownItems, NEW id \in Keyboard!Ids, NEW t0, Still(id, t0), NEW t1, Fits(id, t1),
         NEW m \in Int, NEW n \in 1..Len(Items[id]), NEW e \in EventUpTo(id, t0, t1, m, n - 1)
  PROVE  Keyboard!AddItem(e, Items[id][n], t0[n], t1[n])
           \in EventUpTo(id, t0, t1, IF Items[id][n].kind = "relative" THEN m + t1[n] ELSE m, n)
<1> DEFINE J == Items[id]
           Up(i) == Gained(J[i], t0[i], t1[i])
           Dn(i) == Gained(J[i], t1[i], t0[i])
           e1 == Keyboard!AddItem(e, J[n], t0[n], t1[n])
<1>1. /\ Len(J) \in Nat /\ DOMAIN J = 1..Len(J) /\ n \in DOMAIN J
      /\ J[n].kind \in {"flags", "selector", "relative", "absolute"} /\ J[n] \in Entries
  BY ItemsAre
<1>2. /\ 1..n = 1..(n - 1) \cup {n} /\ \A i \in 1..(n - 1) : i \in DOMAIN J /\ i # n
  BY <1>1
<1>3. /\ UNION {Up(i) : i \in 1..n} = (UNION {Up(i) : i \in 1..(n - 1)}) \cup Up(n)
      /\ UNION {Dn(i) : i \in 1..n} = (UNION {Dn(i) : i \in 1..(n - 1)}) \cup Dn(n)
  <2> HIDE DEF Up, Dn, J
  <2>1. \A i \in 1..n : i \in 1..(n - 1) \/ i = n
    BY <1>2
  <2>2. n \in 1..n /\ \A i \in 1..(n - 1) : i \in 1..n
    BY <1>2
  <2>3. \A u : u \in UNION {Up(i) : i \in 1..n} <=> u \in UNION {Up(i) : i \in 1..(n - 1)} \/ u \in Up(n)
    BY <2>1, <2>2
  <2>4. \A u : u \in UNION {Dn(i) : i \in 1..n} <=> u \in UNION {Dn(i) : i \in 1..(n - 1)} \/ u \in Dn(n)
    BY <2>1, <2>2
  <2>5. UNION {Up(i) : i \in 1..n} = (UNION {Up(i) : i \in 1..(n - 1)}) \cup Up(n)
    BY <2>3
  <2>6. UNION {Dn(i) : i \in 1..n} = (UNION {Dn(i) : i \in 1..(n - 1)}) \cup Dn(n)
    BY <2>4
  <2> QED BY <2>5, <2>6
<1>4. /\ e \in EventType /\ e.on = UNION {Up(i) : i \in 1..(n - 1)} /\ e.off = UNION {Dn(i) : i \in 1..(n - 1)}
      /\ e.delta = m
      /\ \A i \in 1..(n - 1) : J[i].kind = "absolute" => e.value = <<t1[i]>>
      /\ (\A i \in 1..(n - 1) : J[i].kind # "absolute") => e.value = <<>>
  BY DEF EventUpTo
<1>5. SUFFICES /\ e1 \in EventType
               /\ e1.on = e.on \cup Up(n) /\ e1.off = e.off \cup Dn(n)
               /\ e1.delta = IF J[n].kind = "relative" THEN m + t1[n] ELSE m
               /\ \A i \in 1..n : J[i].kind = "absolute" => e1.value = <<t1[i]>>
               /\ (\A i \in 1..n : J[i].kind # "absolute") => e1.value = <<>>
  <2> HIDE DEF e1
  <2>1. e1.on = UNION {Up(i) : i \in 1..n} /\ e1.off = UNION {Dn(i) : i \in 1..n}
    BY <1>3, <1>4, <1>5
  <2> QED BY <1>5, <2>1 DEF EventUpTo, e1
<1>6. CASE Keyboard!IsSet(J[n])
  <2>1. J[n].kind # "relative" /\ J[n].kind # "absolute"
    BY <1>6 DEF Keyboard!IsSet
  <2>2. \A i \in 1..(n - 1) : Keyboard!IsSet(J[i]) => J[i].usages \cap J[n].usages = {}
    BY <1>1, <1>2, <1>6, ItemsAre DEF Shared
  <2>3. \A i \in 1..n : Up(i) \subseteq J[i].usages /\ Dn(i) \subseteq J[i].usages
    BY <1>1 DEF Fits, Still, Gained
  <2>4. \A i \in 1..(n - 1) : ~Keyboard!IsSet(J[i]) => Up(i) = {} /\ Dn(i) = {}
    BY DEF Gained
  <2>5. e.on \cap J[n].usages = {} /\ e.off \cap J[n].usages = {}
    <3>1. \A i \in 1..(n - 1) : Up(i) \cap J[n].usages = {} /\ Dn(i) \cap J[n].usages = {}
      <4> HIDE DEF Up, Dn, J
      <4> QED BY <1>2, <2>2, <2>3, <2>4
    <3> HIDE DEF Up, Dn, J
    <3> QED BY <1>4, <3>1
  <2>6. Keyboard!SetUsages(J[n], t0[n]) \subseteq J[n].usages /\ Keyboard!SetUsages(J[n], t1[n]) \subseteq J[n].usages
    BY <1>1, <1>6 DEF Fits, Still
  <2>7. /\ e1 \in EventType /\ e1.on = e.on \cup Up(n) /\ e1.off = e.off \cup Dn(n)
        /\ e1.delta = e.delta /\ e1.value = e.value
    BY <1>1, <1>4, <1>6, <2>5, <2>6, AddSet
  <2> HIDE DEF e1, Up, Dn
  <2> QED BY <1>2, <1>4, <2>1, <2>7
<1>7. CASE J[n].kind = "relative"
  <2>1. t0[n] = 0 /\ t1[n] \in Int
    BY <1>1, <1>7 DEF Fits, Still
  <2>2. e1 = [on |-> e.on, off |-> e.off, delta |-> e.delta + t1[n], value |-> e.value]
    BY <1>4, <1>7, <2>1, AddMotion
  <2>3. Up(n) = {} /\ Dn(n) = {}
    BY <1>7 DEF Gained, Keyboard!IsSet
  <2>4. e1 \in EventType
    BY <1>4, <2>1, <2>2 DEF EventType
  <2> HIDE DEF e1, Up, Dn
  <2> QED BY <1>2, <1>4, <1>7, <2>2, <2>3, <2>4
<1>8. CASE J[n].kind = "absolute"
  <2>1. t1[n] \in Contents
    BY <1>1 DEF Fits
  <2>2. e1 = [on |-> e.on, off |-> e.off, delta |-> e.delta, value |-> <<t1[n]>>]
    <3>1. e \in EventType
      BY <1>4
    <3> QED BY <1>8, <3>1, AddValue
  <2>3. Up(n) = {} /\ Dn(n) = {}
    BY <1>8 DEF Gained, Keyboard!IsSet
  <2>4. e1 \in EventType
    BY <1>4, <2>1, <2>2 DEF EventType
  <2>5. \A i \in 1..(n - 1) : J[i].kind # "absolute"
    BY <1>1, <1>2, <1>8, ItemsAre DEF Shared
  <2> HIDE DEF e1, Up, Dn
  <2> QED BY <1>2, <1>4, <1>8, <2>2, <2>3, <2>4, <2>5
<1> QED BY <1>1, <1>6, <1>7, <1>8 DEF Keyboard!IsSet

\* The event of a report says what was gained and lost by each item, and its motion.
LEMMA EventIs ==
  ASSUME KnownItems, NEW id \in Keyboard!Ids, NEW t0, Still(id, t0), NEW t1, Fits(id, t1)
  PROVE  /\ Keyboard!Motion(id, t1) \in Int
         /\ Keyboard!EventOf(id, t0, t1) \in EventUpTo(id, t0, t1, Keyboard!Motion(id, t1), Len(Items[id]))
<1>1. PICK m \in [0..Len(Items[id]) -> Int] :
        /\ m[0] = 0 /\ Keyboard!Motion(id, t1) = m[Len(Items[id])]
        /\ \A n \in 1..Len(Items[id]) : m[n] = IF Items[id][n].kind = "relative" THEN m[n - 1] + t1[n] ELSE m[n - 1]
  BY MotionIs
<1> DEFINE N0 == Len(Items[id])
           Add(n, e) == Keyboard!AddItem(e, Items[id][n], t0[n], t1[n])
           step == [p \in (1..N0) \X EventType |-> Add(p[1], p[2])]
           Is(h) == h = [n \in 0..N0 |-> IF n = 0 THEN Keyboard!NoEvent ELSE Add(n, h[n - 1])]
           v == CHOOSE h : Is(h)
           S == [n \in 0..N0 |-> EventUpTo(id, t0, t1, m[n], n)]
<1>2. N0 \in Nat
  BY ItemsAre
<1>3. Keyboard!EventOf(id, t0, t1) = v[N0]
  BY Zenon DEF Keyboard!EventOf
<1>4. \A n \in 1..N0 : n - 1 \in 0..N0 /\ n \in 0..N0 /\ m[n - 1] \in Int /\ m[n] \in Int
  BY <1>2
<1>5. \A n \in 1..N0 : \A e \in S[n - 1] : Add(n, e) \in S[n]
  <2> TAKE n \in 1..N0
  <2>1. \A e \in EventUpTo(id, t0, t1, m[n - 1], n - 1) : Add(n, e) \in EventUpTo(id, t0, t1, m[n], n)
    <3> TAKE e \in EventUpTo(id, t0, t1, m[n - 1], n - 1)
    <3>1. Add(n, e) \in EventUpTo(id, t0, t1, IF Items[id][n].kind = "relative" THEN m[n - 1] + t1[n] ELSE m[n - 1], n)
      BY <1>4, AddItemIs
    <3>2. m[n] = IF Items[id][n].kind = "relative" THEN m[n - 1] + t1[n] ELSE m[n - 1]
      BY <1>1
    <3> HIDE DEF Add
    <3> QED BY <3>1, <3>2
  <2> HIDE DEF Add, N0
  <2> QED BY <1>4, <2>1
<1>6. Keyboard!NoEvent \in S[0]
  <2>1. Keyboard!NoEvent \in EventUpTo(id, t0, t1, 0, 0)
    <3>1. 1..0 = {}
      OBVIOUS
    <3>2. UNION {Gained(Items[id][i], t0[i], t1[i]) : i \in 1..0} = {} /\ UNION {Gained(Items[id][i], t1[i], t0[i]) : i \in 1..0} = {}
      BY <3>1
    <3> QED BY <3>2 DEF EventUpTo, EventType, Keyboard!NoEvent
  <2> QED BY <1>1, <1>2, <2>1
<1>7. S \in [0..N0 -> SUBSET EventType]
  BY DEF EventUpTo
<1>8. \A n \in 1..N0 : \A e \in EventType : step[<<n, e>>] = Add(n, e)
  OBVIOUS
<1>9. \A n \in 0..N0 : S[n] \subseteq EventType
  BY <1>7
<1>17. S[N0] = EventUpTo(id, t0, t1, m[N0], N0) /\ N0 \in 0..N0
  BY <1>2
<1> HIDE DEF N0, Add, v, step, S, Is
<1>10. Keeps(N0, S, step)
  BY <1>4, <1>5, <1>8, <1>9 DEF Keeps
<1>11. PICK h : h \in [0..N0 -> EventType] /\ h[0] = Keyboard!NoEvent /\ Recurs(h, N0, S, step)
  BY <1>2, <1>6, <1>7, <1>10, Recursion
<1>12. Is(h)
  <2>1. \A n \in 0..N0 : h[n] = IF n = 0 THEN Keyboard!NoEvent ELSE Add(n, h[n - 1])
    <3> TAKE n \in 0..N0
    <3>1. n # 0 => n \in 1..N0
      BY <1>2
    <3> QED BY <1>4, <1>8, <1>9, <1>11, <3>1 DEF Recurs
  <2>2. h = [n \in 0..N0 |-> h[n]]
    BY <1>11
  <2>3. h = [n \in 0..N0 |-> IF n = 0 THEN Keyboard!NoEvent ELSE Add(n, h[n - 1])]
    BY <2>1, <2>2
  <2> QED BY <2>3 DEF Is
<1>13. Is(v)
  BY <1>12 DEF v
<1>14. v[0] = Keyboard!NoEvent /\ \A n \in 1..N0 : v[n] = Add(n, v[n - 1])
  BY <1>2, <1>13 DEF Is
<1>15. \A n \in 0..N0 : v[n] \in S[n]
  <2>1. v[0] \in S[0]
    BY <1>6, <1>14
  <2>2. \A n \in 1..N0 : v[n - 1] \in S[n - 1] => v[n] \in S[n]
    BY <1>5, <1>14
  <2> QED BY <1>2, <2>1, <2>2, Ascent
<1>16. m[N0] \in Int /\ Keyboard!Motion(id, t1) = m[N0]
  BY <1>1, <1>2, <1>17 DEF N0
<1>18. v[N0] \in EventUpTo(id, t0, t1, m[N0], N0)
  BY <1>15, <1>17
<1> QED BY <1>3, <1>16, <1>18 DEF N0

\* Without motions there is none.
LEMMA StillMotion ==
  ASSUME KnownItems, NEW id \in Keyboard!Ids, NEW f, Still(id, f)
  PROVE  Keyboard!Motion(id, f) = 0
<1>1. PICK m \in [0..Len(Items[id]) -> Int] :
        /\ m[0] = 0 /\ Keyboard!Motion(id, f) = m[Len(Items[id])]
        /\ \A n \in 1..Len(Items[id]) : m[n] = IF Items[id][n].kind = "relative" THEN m[n - 1] + f[n] ELSE m[n - 1]
  BY MotionIs DEF Still
<1> DEFINE N0 == Len(Items[id])
           S == [n \in 0..N0 |-> {0}]
<1>2. N0 \in Nat /\ DOMAIN Items[id] = 1..N0
  BY ItemsAre
<1>3. m[0] \in S[0]
  BY <1>1, <1>2
<1>4. \A n \in 1..N0 : m[n - 1] \in S[n - 1] => m[n] \in S[n]
  <2> TAKE n \in 1..N0
  <2>1. n - 1 \in 0..N0 /\ n \in 0..N0
    BY <1>2
  <2>2. Items[id][n].kind = "relative" => f[n] = 0
    BY <1>2 DEF Still
  <2> QED BY <1>1, <2>1, <2>2
<1>5. \A n \in 0..N0 : m[n] \in S[n]
  <2> HIDE DEF S
  <2> QED BY <1>2, <1>3, <1>4, Ascent
<1>6. m[N0] \in S[N0] /\ S[N0] = {0}
  BY <1>2, <1>5
<1> QED BY <1>1, <1>6

\* The reports that the device may send fit their items.
LEMMA ReportsFit ==
  ASSUME KnownItems, NEW id \in Keyboard!Ids, NEW f \in Keyboard!ReportsWith(id)
  PROVE  Fits(id, f)
<1> DEFINE N0 == Len(Items[id])
           Add(n, fs) == {Append(g, c) : g \in fs, c \in Items[id][n].contents}
           T == SUBSET Seq(Contents)
           z == {<<>>}
           step == [p \in (1..N0) \X T |-> Add(p[1], p[2])]
           Is(h) == h = [n \in 0..N0 |-> IF n = 0 THEN z ELSE Add(n, h[n - 1])]
           v == CHOOSE h : Is(h)
           Up(n) == {g \in Seq(Contents) : Len(g) = n /\ \A i \in 1..n : g[i] \in Items[id][i].contents}
           PS(n) == SUBSET Up(n)
           S == [n \in 0..N0 |-> PS(n)]
<1>1. N0 \in Nat
  BY ItemsAre
<1>21. \A n \in 1..N0 : Items[id][n] \in Entries
  BY ItemsAre
<1>2. Keyboard!ReportsWith(id) = v[N0]
  BY DEF Keyboard!ReportsWith
<1>3. \A n \in 1..N0 : n - 1 \in 0..N0 /\ n \in 0..N0
  BY <1>1
<1>22. ASSUME NEW n \in 1..N0, NEW g \in Up(n - 1), NEW c \in Items[id][n].contents
       PROVE  Append(g, c) \in Up(n)
  <2>1. c \in Contents
    BY <1>21 DEF Contents
  <2>2. g \in Seq(Contents) /\ Len(g) = n - 1 /\ \A i \in 1..(n - 1) : g[i] \in Items[id][i].contents
    OBVIOUS
  <2>3. Append(g, c) \in Seq(Contents) /\ Len(Append(g, c)) = n
    BY <1>1, <2>1, <2>2
  <2>4. \A i \in 1..n : Append(g, c)[i] = IF i = n THEN c ELSE g[i]
    BY <1>1, <2>1, <2>2
  <2>5. \A i \in 1..n : Append(g, c)[i] \in Items[id][i].contents
    <3> TAKE i \in 1..n
    <3>1. i = n \/ i \in 1..(n - 1)
      BY <1>1
    <3> QED BY <2>2, <2>4, <3>1
  <2> QED BY <2>3, <2>5
<1>4. \A n \in 1..N0 : \A fs \in PS(n - 1) : Add(n, fs) \in PS(n)
  <2> SUFFICES ASSUME NEW n \in 1..N0, NEW fs \in PS(n - 1), NEW x \in Add(n, fs) PROVE x \in Up(n)
    OBVIOUS
  <2> HIDE DEF Up
  <2>1. PICK g \in fs, c \in Items[id][n].contents : x = Append(g, c)
    OBVIOUS
  <2>2. g \in Up(n - 1)
    OBVIOUS
  <2> QED BY <1>22, <2>1, <2>2
<1>5. z \in PS(0)
  OBVIOUS
<1>6. S \in [0..N0 -> SUBSET T]
  OBVIOUS
<1>7. \A n \in 1..N0 : \A fs \in T : step[<<n, fs>>] = Add(n, fs)
  OBVIOUS
<1>8. \A n \in 0..N0 : S[n] = PS(n) /\ S[n] \subseteq T
  OBVIOUS
<1>20. \A g \in Up(N0) : Fits(id, g)
  <2> SUFFICES ASSUME NEW g \in Up(N0) PROVE Fits(id, g)
    OBVIOUS
  <2>1. g \in Seq(Contents) /\ Len(g) = N0 /\ \A i \in 1..N0 : g[i] \in Items[id][i].contents
    OBVIOUS
  <2>2. DOMAIN Items[id] = 1..N0
    BY ItemsAre
  <2> HIDE DEF Up, N0
  <2>3. ASSUME NEW i \in DOMAIN Items[id]
        PROVE  /\ Keyboard!IsSet(Items[id][i]) => Keyboard!SetUsages(Items[id][i], g[i]) \subseteq Items[id][i].usages
               /\ Items[id][i].kind = "relative" => g[i] \in Int
    BY <1>21, <2>1, <2>2 DEF KnownItems
  <2> QED BY <2>1, <2>3 DEF Fits, N0
<1> HIDE DEF N0, Add, T, v, step, S, Is, Up, PS, z
<1>9. z \in S[0]
  BY <1>1, <1>5, <1>8
<1>10. Keeps(N0, S, step)
  BY <1>3, <1>4, <1>7, <1>8 DEF Keeps
<1>11. PICK h : h \in [0..N0 -> T] /\ h[0] = z /\ Recurs(h, N0, S, step)
  BY <1>1, <1>6, <1>9, <1>10, Recursion
<1>12. Is(h)
  <2>1. \A n \in 0..N0 : h[n] = IF n = 0 THEN z ELSE Add(n, h[n - 1])
    <3> TAKE n \in 0..N0
    <3>1. n # 0 => n \in 1..N0
      BY <1>1
    <3> QED BY <1>3, <1>7, <1>8, <1>11, <3>1 DEF Recurs
  <2>2. h = [n \in 0..N0 |-> h[n]]
    BY <1>11
  <2>3. h = [n \in 0..N0 |-> IF n = 0 THEN z ELSE Add(n, h[n - 1])]
    BY <2>1, <2>2
  <2> QED BY <2>3 DEF Is
<1>13. Is(v)
  BY <1>12 DEF v
<1>14. v[0] = z /\ \A n \in 1..N0 : v[n] = Add(n, v[n - 1])
  BY <1>1, <1>13 DEF Is
<1>15. \A n \in 0..N0 : v[n] \in S[n]
  <2>1. \A n \in 1..N0 : v[n - 1] \in S[n - 1] => v[n] \in S[n]
    BY <1>3, <1>4, <1>8, <1>14
  <2> QED BY <1>1, <1>9, <1>14, <2>1, Ascent
<1>16. f \in Up(N0)
  <2>1. v[N0] \in PS(N0)
    BY <1>1, <1>8, <1>15
  <2> QED BY <1>2, <2>1 DEF PS
<1> QED BY <1>16, <1>20

LEMMA StripIs ==
  ASSUME KnownItems, NEW id \in Keyboard!Ids, NEW f, Fits(id, f)
  PROVE  /\ Still(id, Keyboard!Strip(id, f)) /\ Keyboard!Strip(id, f) \in Seq(Contents)
         /\ \A i \in DOMAIN Items[id] : Items[id][i].kind # "relative" => Keyboard!Strip(id, f)[i] = f[i]
<1> DEFINE g == Keyboard!Strip(id, f)
<1>1. /\ f \in Seq(Contents) /\ Len(f) = Len(Items[id]) /\ DOMAIN Items[id] = 1..Len(Items[id]) /\ Len(Items[id]) \in Nat
      /\ DOMAIN f = 1..Len(f)
  BY ItemsAre DEF Fits
<1>2. 0 \in Contents
  BY DEF Contents
<1>3. g = [i \in 1..Len(f) |-> IF Items[id][i].kind = "relative" THEN 0 ELSE f[i]]
  BY <1>1 DEF Keyboard!Strip
<1>4. \A i \in 1..Len(f) : f[i] \in Contents
  BY <1>1
<1>5. g \in Seq(Contents) /\ Len(g) = Len(f)
  <2>1. g \in [1..Len(f) -> Contents]
    BY <1>2, <1>3, <1>4
  <2> HIDE DEF g
  <2> QED BY <1>1, <2>1
<1>6. \A i \in DOMAIN Items[id] : g[i] = IF Items[id][i].kind = "relative" THEN 0 ELSE f[i]
  BY <1>1, <1>3
<1> HIDE DEF g
<1>7. \A i \in DOMAIN Items[id] : Keyboard!IsSet(Items[id][i]) => Items[id][i].kind # "relative"
  BY DEF Keyboard!IsSet
<1>8. Fits(id, g)
  BY <1>1, <1>5, <1>6, <1>7 DEF Fits
<1>9. Still(id, g)
  BY <1>6, <1>8 DEF Still
<1> QED BY <1>5, <1>6, <1>9 DEF g

Held(p, last) == Keyboard!SetUsages(Keyboard!Item(p), last[p[1]][p[2]])
Shown(last) == {u \in AllUsages : \E p \in Keyboard!Places : Keyboard!IsSet(Keyboard!Item(p)) /\ u \in Held(p, last)}

StateType == [last : [Keyboard!Ids -> Seq(Contents)], told : SUBSET AllUsages, fair : {TRUE},
              known : SUBSET AllUsages, value : Contents, moved : Int]

\* What the state knows of reports it keeps, whose motions are stripped.
Informed(s) ==
  /\ s \in StateType
  /\ \A id \in Keyboard!Ids : Still(id, s.last[id])
  /\ s.told = Shown(s.last)
  /\ \A p \in Keyboard!Places : Keyboard!Item(p).kind = "absolute" => s.value = s.last[p[1]][p[2]]

LEMMA PlacesAre ==
  ASSUME KnownItems, NEW p \in Keyboard!Places
  PROVE  /\ p = <<p[1], p[2]>> /\ p[1] \in Keyboard!Ids /\ p[2] \in DOMAIN Items[p[1]]
         /\ Keyboard!Item(p) = Items[p[1]][p[2]] /\ Keyboard!Item(p) \in Entries
<1>1. p = <<p[1], p[2]>> /\ p[1] \in Keyboard!Ids /\ p[2] \in DOMAIN Items[p[1]]
  BY DEF Keyboard!Places
<1>2. Keyboard!Item(p) = Items[p[1]][p[2]]
  BY DEF Keyboard!Item
<1> QED BY <1>1, <1>2, ItemsAre

\* A usage is shown by the item in whose range it is, and by no other.
LEMMA ShownIs ==
  ASSUME KnownItems, NEW last, \A id \in Keyboard!Ids : Still(id, last[id]),
         NEW p \in Keyboard!Places, Keyboard!IsSet(Keyboard!Item(p)), NEW u \in Keyboard!Item(p).usages
  PROVE  u \in Shown(last) <=> u \in Held(p, last)
<1>1. \A q \in Keyboard!Places : Keyboard!IsSet(Keyboard!Item(q)) => Held(q, last) \subseteq Keyboard!Item(q).usages
  BY PlacesAre DEF Held, Still, Fits
<1>2. \A q \in Keyboard!Places : Keyboard!IsSet(Keyboard!Item(q)) /\ u \in Keyboard!Item(q).usages => q = p
  BY DEF KnownItems, Shared
<1>3. u \in AllUsages
  BY PlacesAre DEF AllUsages
<1> QED BY <1>1, <1>2, <1>3 DEF Shown

\* A report's event is new to those who know the last ones, and tells them what is in it.
LEMMA ApplyIs ==
  ASSUME KnownItems, NEW s, Informed(s), NEW id \in Keyboard!Ids, NEW f, Fits(id, f)
  PROVE  /\ Informed(Keyboard!ApplyReport(s, id, f))
         /\ Keyboard!ApplyReport(s, id, f).moved = s.moved + Keyboard!Motion(id, f)
<1> DEFINE J == Items[id]
           N0 == Len(J)
           t0 == s.last[id]
           event == Keyboard!EventOf(id, t0, f)
           g == Keyboard!Strip(id, f)
           last1 == [s.last EXCEPT ![id] = g]
           s1 == Keyboard!ApplyReport(s, id, f)
           Up(i) == Gained(J[i], t0[i], f[i])
           Dn(i) == Gained(J[i], f[i], t0[i])
<1>1. /\ s.last \in [Keyboard!Ids -> Seq(Contents)] /\ s.told \in SUBSET AllUsages /\ s.fair = TRUE
      /\ s.known \in SUBSET AllUsages /\ s.value \in Contents /\ s.moved \in Int
      /\ s.told = Shown(s.last)
  BY DEF Informed, StateType
<1>2. \A i \in Keyboard!Ids : Still(i, s.last[i])
  BY DEF Informed, StateType
<1>3. /\ DOMAIN J = 1..N0 /\ N0 \in Nat
      /\ \A i \in DOMAIN J : <<id, i>> \in Keyboard!Places /\ Keyboard!Item(<<id, i>>) = J[i]
  BY ItemsAre
<1>4. /\ Keyboard!Motion(id, f) \in Int /\ event \in EventUpTo(id, t0, f, Keyboard!Motion(id, f), N0)
  BY <1>2, EventIs
<1>5. /\ event \in EventType /\ event.delta = Keyboard!Motion(id, f)
      /\ event.on = UNION {Up(i) : i \in 1..N0} /\ event.off = UNION {Dn(i) : i \in 1..N0}
      /\ \A i \in 1..N0 : J[i].kind = "absolute" => event.value = <<f[i]>>
      /\ (\A i \in 1..N0 : J[i].kind # "absolute") => event.value = <<>>
  BY <1>4 DEF EventUpTo
<1>6. Still(id, g) /\ g \in Seq(Contents) /\ \A i \in DOMAIN J : J[i].kind # "relative" => g[i] = f[i]
  BY StripIs
<1>7. \A i \in Keyboard!Ids : Still(i, last1[i])
  BY <1>1, <1>2, <1>6
<1>8. ASSUME NEW i \in 1..N0, Keyboard!IsSet(J[i])
      PROVE  /\ Held(<<id, i>>, s.last) = Keyboard!SetUsages(J[i], t0[i])
             /\ Held(<<id, i>>, last1) = Keyboard!SetUsages(J[i], f[i])
             /\ Keyboard!SetUsages(J[i], t0[i]) \subseteq J[i].usages /\ Keyboard!SetUsages(J[i], f[i]) \subseteq J[i].usages
  <2>1. last1[id] = g /\ g[i] = f[i]
    BY <1>1, <1>3, <1>6, <1>8 DEF Keyboard!IsSet
  <2>2. Keyboard!Item(<<id, i>>) = J[i]
    BY <1>3
  <2> QED BY <1>2, <1>3, <1>8, <2>1, <2>2 DEF Held, Still, Fits
<1>9. \A i \in 1..N0 : ~Keyboard!IsSet(J[i]) => Up(i) = {} /\ Dn(i) = {}
  BY DEF Gained
<1>10. ASSUME NEW u
       PROVE  /\ u \in event.on <=> u \in Shown(last1) /\ u \notin s.told
              /\ u \in event.off <=> u \in s.told /\ u \notin Shown(last1)
  <2>1. CASE \E i \in 1..N0 : Keyboard!IsSet(J[i]) /\ u \in J[i].usages
    <3>1. PICK i \in 1..N0 : Keyboard!IsSet(J[i]) /\ u \in J[i].usages
      BY <2>1
    <3>2. \A j \in 1..N0 : j # i => u \notin Up(j) /\ u \notin Dn(j)
      <4> TAKE j \in 1..N0
      <4> HAVE j # i
      <4>1. CASE Keyboard!IsSet(J[j])
        <5>1. u \notin J[j].usages
          BY <1>3, <3>1, <4>1, ItemsAre DEF Shared
        <5> QED BY <1>8, <4>1, <5>1 DEF Gained
      <4> QED BY <1>9, <4>1
    <3>3. (u \in event.on <=> u \in Up(i)) /\ (u \in event.off <=> u \in Dn(i))
      <4> HIDE DEF Up, Dn, event, N0, J
      <4> QED BY <1>5, <3>1, <3>2
    <3>4. /\ u \in Up(i) <=> u \in Held(<<id, i>>, last1) /\ u \notin Held(<<id, i>>, s.last)
          /\ u \in Dn(i) <=> u \in Held(<<id, i>>, s.last) /\ u \notin Held(<<id, i>>, last1)
      BY <1>8, <3>1 DEF Gained
    <3>5. /\ u \in Shown(last1) <=> u \in Held(<<id, i>>, last1)
          /\ u \in Shown(s.last) <=> u \in Held(<<id, i>>, s.last)
      <4>1. /\ <<id, i>> \in Keyboard!Places /\ Keyboard!IsSet(Keyboard!Item(<<id, i>>))
            /\ u \in Keyboard!Item(<<id, i>>).usages
        BY <1>3, <3>1
      <4> HIDE DEF last1
      <4> QED BY <1>2, <1>7, <4>1, ShownIs
    <3> HIDE DEF Up, Dn, event, last1
    <3> QED BY <1>1, <3>3, <3>4, <3>5
  <2>2. CASE ~\E i \in 1..N0 : Keyboard!IsSet(J[i]) /\ u \in J[i].usages
    <3>1. \A i \in 1..N0 : u \notin Up(i) /\ u \notin Dn(i)
      <4> TAKE i \in 1..N0
      <4>1. CASE Keyboard!IsSet(J[i])
        BY <1>8, <2>2, <4>1 DEF Gained
      <4> QED BY <1>9, <4>1
    <3>2. u \notin event.on /\ u \notin event.off
      <4> HIDE DEF Up, Dn, event, N0, J
      <4> QED BY <1>5, <3>1
    <3>3. ASSUME NEW p \in Keyboard!Places, Keyboard!IsSet(Keyboard!Item(p))
          PROVE  u \in Held(p, last1) <=> u \in Held(p, s.last)
      <4>1. CASE p[1] = id
        <5>1. p[2] \in 1..N0 /\ J[p[2]] = Keyboard!Item(p) /\ p = <<id, p[2]>>
          BY <1>3, <4>1, PlacesAre
        <5> QED BY <1>8, <2>2, <3>3, <5>1
      <4>2. CASE p[1] # id
        <5>1. last1[p[1]] = s.last[p[1]]
          BY <1>1, <4>2, PlacesAre
        <5> QED BY <5>1 DEF Held
      <4> QED BY <4>1, <4>2
    <3>4. u \in Shown(last1) <=> u \in Shown(s.last)
      BY <3>3 DEF Shown
    <3> QED BY <1>1, <3>2, <3>4
  <2> QED BY <2>1, <2>2
<1>11. /\ event.on \cap s.told = {} /\ event.off \subseteq s.told
       /\ (s.told \ event.off) \cup event.on = Shown(last1)
  <2> HIDE DEF event, last1
  <2> QED BY <1>10
<1> DEFINE value1 == IF event.value = <<>> THEN s.value ELSE event.value[1]
<1>12. s1 = [last |-> last1, told |-> (s.told \ event.off) \cup event.on, fair |-> TRUE,
             known |-> (s.known \ event.off) \cup event.on, value |-> value1, moved |-> s.moved + event.delta]
  <2>1. s1 = [s EXCEPT !.last[id] = g, !.told = (@ \ event.off) \cup event.on, !.known = (@ \ event.off) \cup event.on,
                       !.fair = @ /\ event.on \cap s.told = {} /\ event.off \subseteq s.told,
                       !.moved = @ + event.delta, !.value = value1]
    BY DEF Keyboard!ApplyReport
  <2> HIDE DEF event, g, value1, s1
  <2>2. (s.fair /\ event.on \cap s.told = {} /\ event.off \subseteq s.told) = TRUE
    BY <1>1, <1>11
  <2> QED BY <2>1, <2>2 DEF Informed, StateType
<1>13. \A p \in Keyboard!Places : Keyboard!Item(p).kind = "absolute" => value1 = last1[p[1]][p[2]]
  <2> SUFFICES ASSUME NEW p \in Keyboard!Places, Keyboard!Item(p).kind = "absolute"
               PROVE  value1 = last1[p[1]][p[2]]
    OBVIOUS
  <2>1. CASE p[1] = id
    <3>1. p[2] \in 1..N0 /\ J[p[2]] = Keyboard!Item(p)
      BY <1>3, <2>1, PlacesAre
    <3>2. event.value = <<f[p[2]]>>
      <4> HIDE DEF event
      <4> QED BY <1>5, <3>1
    <3>3. last1[p[1]][p[2]] = f[p[2]]
      BY <1>1, <1>3, <1>6, <2>1, <3>1
    <3> HIDE DEF event, last1
    <3> QED BY <3>2, <3>3
  <2>2. CASE p[1] # id
    <3>1. \A i \in 1..N0 : J[i].kind # "absolute"
      <4> TAKE i \in 1..N0
      <4>1. <<id, i>> \in Keyboard!Places /\ Keyboard!Item(<<id, i>>) = J[i] /\ <<id, i>> # p
        BY <1>3, <2>2
      <4> QED BY <4>1 DEF KnownItems, Shared
    <3>2. event.value = <<>>
      <4> HIDE DEF event
      <4> QED BY <1>5, <3>1
    <3>3. last1[p[1]] = s.last[p[1]]
      BY <1>1, <2>2, PlacesAre
    <3>4. s.value = s.last[p[1]][p[2]]
      BY DEF Informed, StateType
    <3> HIDE DEF event, last1
    <3> QED BY <3>2, <3>3, <3>4
  <2> QED BY <2>1, <2>2
<1>14. value1 \in Contents
  <2>1. event.value = <<>> \/ \E c \in Contents : event.value = <<c>>
    <3> HIDE DEF event
    <3> QED BY <1>5 DEF EventType
  <2> HIDE DEF event
  <2> QED BY <1>1, <2>1
<1>15. last1 \in [Keyboard!Ids -> Seq(Contents)]
  BY <1>1, <1>6
<1>16. Shown(last1) \in SUBSET AllUsages
  BY DEF Shown
<1>17. event.on \in SUBSET AllUsages /\ event.delta \in Int
  <2> HIDE DEF event
  <2> QED BY <1>5 DEF EventType
<1> HIDE DEF event, last1, value1, s1
<1>18. s1.moved = s.moved + Keyboard!Motion(id, f)
  BY <1>5, <1>12
<1>19. Informed(s1)
  BY <1>1, <1>7, <1>11, <1>12, <1>13, <1>14, <1>15, <1>16, <1>17 DEF Informed, StateType
<1> QED BY <1>18, <1>19 DEF s1

\* Before any report nothing is shown.
LEMMA ZerosAre ==
  ASSUME KnownItems, NEW last, last = [id \in Keyboard!Ids |-> Keyboard!Zeros(id)]
  PROVE  /\ last \in [Keyboard!Ids -> Seq(Contents)] /\ \A id \in Keyboard!Ids : Still(id, last[id])
         /\ Shown(last) = {}
         /\ \A p \in Keyboard!Places : Keyboard!Item(p).kind = "absolute" => last[p[1]][p[2]] = 0
<1>1. ASSUME NEW id \in Keyboard!Ids
      PROVE  /\ Keyboard!Zeros(id) \in Seq(Contents) /\ Len(Keyboard!Zeros(id)) = Len(Items[id])
             /\ \A i \in DOMAIN Items[id] : Keyboard!Zeros(id)[i] = Keyboard!Zero(Items[id][i].kind)
  <2> DEFINE z == Keyboard!Zeros(id)
  <2>1. z = [i \in DOMAIN Items[id] |-> Keyboard!Zero(Items[id][i].kind)]
    BY DEF Keyboard!Zeros
  <2>2. DOMAIN Items[id] = 1..Len(Items[id]) /\ Len(Items[id]) \in Nat
    BY ItemsAre
  <2>3. \A i \in DOMAIN Items[id] : Keyboard!Zero(Items[id][i].kind) \in Contents
    BY DEF Keyboard!Zero, Contents
  <2> HIDE DEF z
  <2>4. z \in [1..Len(Items[id]) -> Contents]
    BY <2>1, <2>2, <2>3
  <2> QED BY <2>1, <2>2, <2>4 DEF z
<1>2. ASSUME NEW kind
      PROVE  /\ kind = "flags" => Keyboard!Zero(kind) = {}
             /\ kind = "selector" => Keyboard!Zero(kind) = <<NoUsage, NoUsage>>
             /\ kind \notin {"flags", "selector"} => Keyboard!Zero(kind) = 0
  BY DEF Keyboard!Zero
<1>3. ASSUME NEW item, Keyboard!IsSet(item) PROVE Keyboard!SetUsages(item, Keyboard!Zero(item.kind)) = {}
  <2>1. CASE item.kind = "flags"
    BY <1>2, <2>1 DEF Keyboard!SetUsages
  <2>2. CASE item.kind = "selector"
    <3>1. Keyboard!Zero(item.kind) = <<NoUsage, NoUsage>>
      BY <1>2, <2>2
    <3>2. \A i \in DOMAIN <<NoUsage, NoUsage>> : <<NoUsage, NoUsage>>[i] = NoUsage
      OBVIOUS
    <3>3. Keyboard!SetUsages(item, <<NoUsage, NoUsage>>) = {}
      BY <2>2, <3>2 DEF Keyboard!SetUsages
    <3> QED BY <3>1, <3>3
  <2> QED BY <1>3, <2>1, <2>2 DEF Keyboard!IsSet
<1>4. ASSUME NEW id \in Keyboard!Ids PROVE Still(id, last[id])
  <2>1. \A i \in DOMAIN Items[id] : last[id][i] = Keyboard!Zero(Items[id][i].kind)
    BY <1>1
  <2>2. last[id] \in Seq(Contents) /\ Len(last[id]) = Len(Items[id])
    BY <1>1
  <2>3. \A i \in DOMAIN Items[id] :
          /\ Keyboard!IsSet(Items[id][i]) => Keyboard!SetUsages(Items[id][i], last[id][i]) \subseteq Items[id][i].usages
          /\ Items[id][i].kind = "relative" => last[id][i] = 0
    BY <1>2, <1>3, <2>1
  <2> QED BY <2>2, <2>3 DEF Still, Fits
<1>5. \A p \in Keyboard!Places : last[p[1]][p[2]] = Keyboard!Zero(Keyboard!Item(p).kind)
  BY <1>1, PlacesAre
<1>6. Shown(last) = {}
  BY <1>3, <1>5 DEF Shown, Held
<1>7. \A p \in Keyboard!Places : Keyboard!Item(p).kind = "absolute" => last[p[1]][p[2]] = 0
  BY <1>2, <1>5
<1> QED BY <1>1, <1>4, <1>6, <1>7

\* The new state of a device that is there again.
LEMMA FreshIs ==
  ASSUME KnownItems, NEW s, s.known \in SUBSET AllUsages, s.moved \in Int
  PROVE  Informed(Keyboard!Fresh(s)) /\ Keyboard!Fresh(s).moved = s.moved
<1> DEFINE last == [id \in Keyboard!Ids |-> Keyboard!Zeros(id)]
<1>1. Keyboard!Fresh(s) = [last |-> last, told |-> {}, fair |-> TRUE, known |-> s.known, value |-> 0, moved |-> s.moved]
  <2>1. Keyboard!Start = [last |-> last, told |-> {}, fair |-> TRUE, known |-> {}, value |-> 0, moved |-> 0]
    BY DEF Keyboard!Start
  <2> HIDE DEF last
  <2>2. Keyboard!Fresh(s) = [Keyboard!Start EXCEPT !.known = s.known, !.moved = s.moved]
    BY DEF Keyboard!Fresh
  <2>3. Keyboard!Fresh(s) = [[last |-> last, told |-> {}, fair |-> TRUE, known |-> {}, value |-> 0, moved |-> 0]
                               EXCEPT !.known = s.known, !.moved = s.moved]
    BY ONLY <2>1, <2>2
  <2> QED BY <2>3
<1>2. /\ last \in [Keyboard!Ids -> Seq(Contents)] /\ \A id \in Keyboard!Ids : Still(id, last[id])
      /\ Shown(last) = {}
      /\ \A p \in Keyboard!Places : Keyboard!Item(p).kind = "absolute" => last[p[1]][p[2]] = 0
  <2> HIDE DEF last
  <2>1. last = [id \in Keyboard!Ids |-> Keyboard!Zeros(id)]
    BY DEF last
  <2> QED BY <2>1, ZerosAre
<1>3. 0 \in Contents
  BY DEF Contents
<1> HIDE DEF last
<1> QED BY <1>1, <1>2, <1>3 DEF Informed, StateType

\* The device shows what it sent last.
Following ==
  /\ Informed(state)
  /\ input \in [shown : [Keyboard!Ids -> Seq(Contents)], moved : Int]
  /\ \A id \in Keyboard!Ids : Still(id, input.shown[id])
  /\ state.moved = input.moved

LEMMA FollowingReport ==
  ASSUME KnownItems, Following, NEW id \in Keyboard!Ids, NEW f \in Keyboard!ReportsWith(id), Keyboard!Report(id, f)
  PROVE  Following'
<1>1. Fits(id, f)
  BY ReportsFit
<1>2. Keyboard!Motion(id, f) \in Int /\ input.moved \in Int
  BY <1>1, EventIs, ZerosAre DEF Following, Informed, StateType
<1>3. Still(id, Keyboard!Strip(id, f)) /\ Keyboard!Strip(id, f) \in Seq(Contents)
  BY <1>1, StripIs
<1>4. /\ input' = [shown |-> [input.shown EXCEPT ![id] = Keyboard!Strip(id, f)], moved |-> input.moved + Keyboard!Motion(id, f)]
      /\ state' = Keyboard!ApplyReport(state, id, f)
  BY DEF Keyboard!Report
<1>5. Informed(state') /\ state'.moved = state.moved + Keyboard!Motion(id, f)
  BY <1>1, <1>4, ApplyIs DEF Following
<1>6. /\ input' \in [shown : [Keyboard!Ids -> Seq(Contents)], moved : Int]
      /\ \A i \in Keyboard!Ids : Still(i, input'.shown[i])
      /\ state'.moved = input'.moved
  BY <1>2, <1>3, <1>4, <1>5 DEF Following
<1>7. Informed(state)'
  BY <1>5
<1> QED BY <1>6, <1>7 DEF Following

LEMMA FollowingReconnect ==
  ASSUME KnownItems, Following, NEW id \in Keyboard!Ids, NEW f \in Keyboard!ReportsWith(id),
         NEW answered, Keyboard!Reconnect(id, f, answered)
  PROVE  Following'
<1> DEFINE now == [input.shown EXCEPT ![id] = Keyboard!Strip(id, f)]
           N0 == Len(Items)
           z == Keyboard!Fresh(state)
           Add(n, s) == IF n \in answered THEN Keyboard!ApplyReport(s, n, now[n]) ELSE s
           T == {s \in StateType : Informed(s) /\ s.moved = state.moved}
           step == [p \in (1..N0) \X T |-> Add(p[1], p[2])]
           Is(h) == h = [n \in 0..N0 |-> IF n = 0 THEN z ELSE Add(n, h[n - 1])]
           v == CHOOSE h : Is(h)
           S == [n \in 0..N0 |-> T]
<1>1. N0 \in Nat /\ Keyboard!Ids = 1..N0
  BY ItemsAre
<1>2. input' = [input EXCEPT !.shown = now] /\ state' = v[N0]
  BY DEF Keyboard!Reconnect
<1>3. Still(id, Keyboard!Strip(id, f)) /\ Keyboard!Strip(id, f) \in Seq(Contents)
  BY ReportsFit, StripIs
<1>4. now \in [Keyboard!Ids -> Seq(Contents)] /\ \A i \in Keyboard!Ids : Still(i, now[i])
  BY <1>3 DEF Following
<1>5. /\ input' \in [shown : [Keyboard!Ids -> Seq(Contents)], moved : Int]
      /\ \A i \in Keyboard!Ids : Still(i, input'.shown[i])
      /\ input'.moved = input.moved
  <2> HIDE DEF now
  <2> QED BY <1>2, <1>4 DEF Following
<1>6. \A s : Informed(s) => s \in StateType
  BY DEF Informed, StateType
<1>7. z \in T
  <2>1. state.known \in SUBSET AllUsages /\ state.moved \in Int
    BY DEF Following, Informed, StateType
  <2>2. Informed(z) /\ z.moved = state.moved
    BY <2>1, FreshIs
  <2> QED BY <1>6, <2>2
<1>8. \A n \in 1..N0 : \A s \in T : Add(n, s) \in T
  <2> SUFFICES ASSUME NEW n \in 1..N0, NEW s \in T, n \in answered PROVE Keyboard!ApplyReport(s, n, now[n]) \in T
    OBVIOUS
  <2>1. n \in Keyboard!Ids /\ Still(n, now[n])
    BY <1>1, <1>4
  <2>2. Fits(n, now[n])
    BY <2>1 DEF Still
  <2> HIDE DEF now
  <2>3. Keyboard!Motion(n, now[n]) = 0
    BY <2>1, StillMotion
  <2>4. Informed(s) /\ s.moved = state.moved /\ s.moved \in Int
    BY DEF Informed, StateType
  <2>5. /\ Informed(Keyboard!ApplyReport(s, n, now[n]))
        /\ Keyboard!ApplyReport(s, n, now[n]).moved = s.moved + Keyboard!Motion(n, now[n])
    BY <2>1, <2>2, <2>4, ApplyIs
  <2> QED BY <1>6, <2>3, <2>4, <2>5
<1>9. N0 \in Nat
  BY <1>1
<1>10. S \in [0..N0 -> SUBSET T] /\ \A n \in 0..N0 : S[n] = T
  OBVIOUS
<1>11. \A n \in 1..N0 : \A s \in T : step[<<n, s>>] = Add(n, s)
  OBVIOUS
<1>12. \A n \in 1..N0 : n - 1 \in 0..N0 /\ n \in 0..N0
  BY <1>9
<1> HIDE DEF N0, now, z, Add, T, v, step, S, Is
<1>13. Keeps(N0, S, step) /\ z \in S[0]
  BY <1>7, <1>8, <1>9, <1>10, <1>11, <1>12 DEF Keeps
<1>14. PICK h : h \in [0..N0 -> T] /\ h[0] = z /\ Recurs(h, N0, S, step)
  BY <1>9, <1>10, <1>13, Recursion
<1>15. Is(h)
  <2>1. \A n \in 0..N0 : h[n] = IF n = 0 THEN z ELSE Add(n, h[n - 1])
    <3> TAKE n \in 0..N0
    <3>1. n # 0 => n \in 1..N0
      BY <1>9
    <3> QED BY <1>10, <1>11, <1>12, <1>14, <3>1 DEF Recurs
  <2>2. h = [n \in 0..N0 |-> h[n]]
    BY <1>14
  <2>3. h = [n \in 0..N0 |-> IF n = 0 THEN z ELSE Add(n, h[n - 1])]
    BY <2>1, <2>2
  <2> QED BY <2>3 DEF Is
<1>16. Is(v)
  BY <1>15 DEF v
<1>17. v[0] = z /\ \A n \in 1..N0 : v[n] = Add(n, v[n - 1])
  BY <1>9, <1>16 DEF Is
<1>18. \A n \in 0..N0 : v[n] \in S[n]
  <2>1. \A n \in 1..N0 : v[n - 1] \in S[n - 1] => v[n] \in S[n]
    BY <1>8, <1>10, <1>12, <1>17
  <2> QED BY <1>9, <1>13, <1>17, <2>1, Ascent
<1>19. v[N0] \in T
  BY <1>9, <1>10, <1>18
<1>20. Informed(state') /\ state'.moved = state.moved
  BY <1>2, <1>19 DEF T
<1>21. Informed(state)'
  BY <1>20
<1> QED BY <1>5, <1>20, <1>21 DEF Following

\* Who follows the events of a device knows the usages, the motions and the value of its
\* last reports, and is never told what he knows (state.go:143-219, usage_set.go:370-384).
THEOREM AnnouncedAlways ==
  ASSUME KnownItems
  PROVE  Keyboard!Spec => []Announced
<1>1. Keyboard!Init => Following
  <2> SUFFICES ASSUME Keyboard!Init PROVE Following
    OBVIOUS
  <2> DEFINE last == [id \in Keyboard!Ids |-> Keyboard!Zeros(id)]
  <2>1. /\ input = [shown |-> last, moved |-> 0]
        /\ state = [last |-> last, told |-> {}, fair |-> TRUE, known |-> {}, value |-> 0, moved |-> 0]
    BY DEF Keyboard!Init, Keyboard!Start
  <2>2. last = [id \in Keyboard!Ids |-> Keyboard!Zeros(id)]
    OBVIOUS
  <2> HIDE DEF last
  <2>3. /\ last \in [Keyboard!Ids -> Seq(Contents)] /\ \A id \in Keyboard!Ids : Still(id, last[id])
        /\ Shown(last) = {}
        /\ \A p \in Keyboard!Places : Keyboard!Item(p).kind = "absolute" => last[p[1]][p[2]] = 0
    BY <2>2, ZerosAre
  <2>4. 0 \in Contents
    BY DEF Contents
  <2> QED BY <2>1, <2>3, <2>4 DEF Following, Informed, StateType
<1>2. Following /\ [Keyboard!Next]_(Keyboard!vars) => Following'
  <2> SUFFICES ASSUME Following, [Keyboard!Next]_(Keyboard!vars) PROVE Following'
    OBVIOUS
  <2>1. CASE Keyboard!Next
    BY <2>1, FollowingReport, FollowingReconnect DEF Keyboard!Next
  <2>2. CASE UNCHANGED Keyboard!vars
    <3>1. input' = input /\ state' = state
      BY <2>2 DEF Keyboard!vars
    <3> QED BY <3>1 DEF Following, Informed, StateType
  <2> QED BY <2>1, <2>2
<1>3. Following => Announced
  <2> SUFFICES ASSUME Following PROVE Keyboard!Announced
    BY DEF Announced
  <2>1. /\ state.told = Shown(state.last) /\ state.fair = TRUE /\ state.moved = input.moved
        /\ \A id \in Keyboard!Ids : Still(id, state.last[id])
        /\ \A p \in Keyboard!Places : Keyboard!Item(p).kind = "absolute" => state.value = state.last[p[1]][p[2]]
    BY DEF Following, Informed, StateType
  <2>2. Keyboard!LastUsages = Shown(state.last)
    <3>1. \A p \in Keyboard!Places : Keyboard!IsSet(Keyboard!Item(p)) => Held(p, state.last) \subseteq AllUsages
      BY <2>1, PlacesAre DEF Held, Still, Fits, AllUsages
    <3>2. \A u : u \in Keyboard!LastUsages <=> \E p \in Keyboard!Places : Keyboard!IsSet(Keyboard!Item(p)) /\ u \in Held(p, state.last)
      BY DEF Keyboard!LastUsages, Keyboard!LastOf, Held
    <3>3. \A u : u \in Shown(state.last) <=> u \in Keyboard!LastUsages
      BY <3>1, <3>2 DEF Shown
    <3> QED BY <3>3
  <2> QED BY <2>1, <2>2 DEF Keyboard!Announced, Keyboard!LastOf
<1> QED BY <1>1, <1>2, <1>3, PTL DEF Keyboard!Spec
=============================================================================
