------------------------------ MODULE BusProofs ------------------------------
(***************************************************************************)
(* Proofs about Bus for any publishers, keys and subscriptions and any     *)
(* number of messages: the bus implements Delivery.                        *)
(***************************************************************************)
EXTENDS Bus, FiniteSetTheorems, SequenceTheorems, TLAPS

\* A message for s is in the hands of the worker.
Way(s) == s \in todo[1] \/ at[1] = s

Types ==
  /\ log \in Seq(Keys) /\ busy \in [Workers -> Nat]
  /\ todo \in [Workers -> SUBSET Subs] /\ at \in [Workers -> Subs \cup {None}]
  /\ globalSubs \in SUBSET Subs /\ keySubs \in [Keys -> SUBSET Subs]
  /\ spc \in [Subs -> {"new", "adding", "on", "closed", "off"}] /\ place \in [Subs -> Nat]
  /\ hand \in [Subs -> Nat] /\ fwd \in [Subs -> BOOLEAN] /\ got \in [Subs -> Seq(Nat)]
  /\ cancelled \in SUBSET Subs

\* The message that the worker has is the last of the log.
AtWork == Idle(1) \/ (busy[1] = Len(log) /\ log # <<>>)

\* Only a forwarder that is ranging holds a message, and it ranges over no channel that
\* Subscribe has not returned.
Hands ==
  /\ \A s \in Subs : ~fwd[s] => hand[s] = 0
  /\ \A s \in Subs : spc[s] \in {"new", "adding"} => ~fwd[s]

\* A subscription enters the tables in the order of its keys, and the worker sends to those only
\* that it found there.
Entered ==
  /\ \A s \in Subs : spc[s] = "new" =>
       s \notin globalSubs /\ place[s] = 1 /\ ~Way(s) /\ \A k \in Keys : s \notin keySubs[k]
  /\ \A s \in Subs : spc[s] = "adding" =>
       /\ s \notin globalSubs /\ SubKeys[s] # <<>> /\ place[s] \in DOMAIN SubKeys[s]
       /\ \A i \in DOMAIN SubKeys[s] : i >= place[s] => s \notin keySubs[SubKeys[s][i]]
       /\ Way(s) => s \in keySubs[log[busy[1]]]
  /\ \A s \in Subs : at[1] = s => s \notin todo[1]

BusInv == Types /\ AtWork /\ Hands /\ Entered

LEMMA OneWorker == Workers = {1}
BY DEF Workers, concurrency

LEMMA KeysOf ==
  ASSUME NEW s \in Subs
  PROVE  /\ SubKeys[s] \in Seq(Keys) /\ DOMAIN SubKeys[s] = 1..Len(SubKeys[s]) /\ Len(SubKeys[s]) \in Nat
         /\ \A i, j \in DOMAIN SubKeys[s] : SubKeys[s][i] = SubKeys[s][j] => i = j
         /\ SubKeys[s] # <<>> => 1 \in DOMAIN SubKeys[s]
         /\ \A i \in DOMAIN SubKeys[s] : SubKeys[s][i] \in Keys
         /\ s # None
<1>1. SubKeys[s] \in Seq(Keys) /\ IsInjective(SubKeys[s]) /\ s # None
  BY BusAssumption
<1> QED BY <1>1 DEF IsInjective

LEMMA OneUp ==
  ASSUME NEW f \in [Subs -> Nat], NEW s \in Subs
  PROVE  /\ [f EXCEPT ![s] = @ + 1] \in [Subs -> Nat] /\ [f EXCEPT ![s] = 1] \in [Subs -> Nat]
         /\ \A t \in Subs : t # s => [f EXCEPT ![s] = @ + 1][t] = f[t]
<1>1. f[s] + 1 \in Nat
  OBVIOUS
<1> DEFINE n == f[s] + 1
<1> HIDE DEF n
<1>2. n \in Nat
  BY <1>1 DEF n
<1>3. [f EXCEPT ![s] = n] \in [Subs -> Nat] /\ \A t \in Subs : t # s => [f EXCEPT ![s] = n][t] = f[t]
  BY <1>2
<1>4. [f EXCEPT ![s] = 1] \in [Subs -> Nat]
  OBVIOUS
<1> QED BY <1>3, <1>4 DEF n

-----------------------------------------------------------------------------
(* The queue of a subscriber.                                               *)

LEMMA InOrderShort == InOrder({}) = <<>> /\ \A x \in Nat : InOrder({x}) = <<x>>
<1>1. Cardinality({}) = 0
  BY FS_EmptySet
<1>2. [1..0 -> {}] = {<<>>}
  <2>1. ASSUME NEW q \in [1..0 -> {}] PROVE q = <<>>
    <3>1. q \in Seq({}) /\ Len(q) = 0
      OBVIOUS
    <3> QED BY <3>1, EmptySeq
  <2>2. <<>> \in [1..0 -> {}]
    <3>1. <<>> \in Seq({}) /\ Len(<<>>) = 0
      OBVIOUS
    <3> QED BY <3>1, LenProperties
  <2> QED BY <2>1, <2>2
<1>3. InOrder({}) = <<>>
  <2>1. \A q \in [1..0 -> {}] : q = <<>>
    BY <1>2
  <2>2. <<>> \in [1..0 -> {}] /\ \A i, j \in DOMAIN <<>> : i < j => <<>>[i] < <<>>[j]
    BY <1>2
  <2> QED BY <1>1, <2>1, <2>2 DEF InOrder
<1>4. ASSUME NEW x \in Nat PROVE InOrder({x}) = <<x>>
  <2>1. Cardinality({x}) = 1
    BY FS_Singleton
  <2>2. \A q \in [1..1 -> {x}] : q = <<x>>
    OBVIOUS
  <2>3. <<x>> \in [1..1 -> {x}] /\ \A i, j \in DOMAIN <<x>> : i < j => <<x>>[i] < <<x>>[j]
    OBVIOUS
  <2> QED BY <2>1, <2>2, <2>3 DEF InOrder
<1> QED BY <1>3, <1>4

LEMMA Pair ==
  ASSUME NEW x \in Nat, NEW y \in Nat
  PROVE  <<x>> \o <<y>> = <<x, y>>
<1> DEFINE s1 == <<x>>
           s2 == <<y>>
           t == <<x, y>>
           c == s1 \o s2
<1>1. Len(s1) = 1 /\ Len(s2) = 1 /\ s1[1] = x /\ s2[1] = y /\ s1 \in Seq(Nat) /\ s2 \in Seq(Nat)
  OBVIOUS
<1>2. t \in Seq(Nat) /\ Len(t) = 2 /\ t[1] = x /\ t[2] = y
  OBVIOUS
<1> HIDE DEF s1, s2, t
<1>3. c \in Seq(Nat) /\ Len(c) = Len(s1) + Len(s2)
  BY <1>1, ConcatProperties, Zenon
<1>4. \A i \in 1 .. Len(s1) + Len(s2) : c[i] = IF i <= Len(s1) THEN s1[i] ELSE s2[i - Len(s1)]
  BY <1>1, ConcatProperties, Zenon
<1> HIDE DEF c
<1>5. Len(c) = 2 /\ c[1] = x /\ c[2] = y
  BY <1>1, <1>3, <1>4
<1>6. \A i \in 1 .. Len(c) : c[i] = t[i]
  BY <1>2, <1>5
<1>7. c = t
  BY <1>2, <1>3, <1>5, <1>6, SeqEqual, Zenon
<1> QED BY <1>7 DEF s1, s2, t, c

LEMMA AppendIs ==
  ASSUME NEW s \in Seq(Nat), NEW y \in Nat
  PROVE  /\ Append(s, y) \in Seq(Nat) /\ Len(Append(s, y)) = Len(s) + 1
         /\ \A i \in 1 .. Len(s) : Append(s, y)[i] = s[i]
         /\ Append(s, y)[Len(s) + 1] = y
OBVIOUS

LEMMA AppendToOne ==
  ASSUME NEW x \in Nat, NEW y \in Nat
  PROVE  Append(<<x>>, y) = <<x, y>>
<1> DEFINE s == <<x>>
           t == <<x, y>>
           a == Append(s, y)
<1>1. s \in Seq(Nat) /\ Len(s) = 1 /\ s[1] = x
  OBVIOUS
<1>2. t \in Seq(Nat) /\ Len(t) = 2 /\ t[1] = x /\ t[2] = y
  OBVIOUS
<1> HIDE DEF s, t
<1>3. a \in Seq(Nat) /\ Len(a) = 2 /\ a[1] = s[1] /\ a[2] = y
  <2>1. /\ a \in Seq(Nat) /\ Len(a) = Len(s) + 1
        /\ \A i \in 1 .. Len(s) : a[i] = s[i]
        /\ a[Len(s) + 1] = y
    BY <1>1, AppendIs
  <2> HIDE DEF a
  <2> QED BY <1>1, <2>1
<1> HIDE DEF a
<1>4. \A i \in 1 .. Len(a) : a[i] = t[i]
  BY <1>1, <1>2, <1>3
<1>5. Len(a) = Len(t)
  BY <1>1, <1>2, <1>3
<1>6. a = t
  BY <1>2, <1>3, <1>4, <1>5, SeqEqual, Zenon
<1> QED BY <1>6 DEF s, t, a

\* What the forwarder holds (h, of a subscription in state o), then what the worker has (b).
Line(o, f, h, w, b) ==
  IF o = "on" /\ ~f THEN <<>>
  ELSE IF h = 0 THEN (IF o \in {"adding", "on"} /\ w THEN <<b>> ELSE <<>>)
  ELSE (IF o \in {"adding", "on"} /\ w THEN <<h, b>> ELSE <<h>>)

LEMMA QueueIs ==
  Types => \A s \in Subs : Queue(s) = Line(spc[s], fwd[s], hand[s], Way(s), busy[1])
<1> SUFFICES ASSUME Types, NEW s \in Subs
             PROVE  Queue(s) = Line(spc[s], fwd[s], hand[s], Way(s), busy[1])
  OBVIOUS
<1>1. Waiting(s) = IF Way(s) THEN {busy[1]} ELSE {}
  BY OneWorker DEF Waiting, Way
<1>2. busy[1] \in Nat
  BY OneWorker DEF Types
<1>3. InOrder(Waiting(s)) = IF Way(s) THEN <<busy[1]>> ELSE <<>>
  BY <1>1, <1>2, InOrderShort
<1>4. ASSUME NEW x \in Nat, NEW y \in Nat
      PROVE  /\ <<>> \o <<>> = <<>> /\ <<>> \o <<y>> = <<y>>
             /\ <<x>> \o <<>> = <<x>> /\ <<x>> \o <<y>> = <<x, y>>
  <2>1. <<>> \in Seq(Nat) /\ <<x>> \in Seq(Nat) /\ <<y>> \in Seq(Nat)
    OBVIOUS
  <2>2. <<>> \o <<>> = <<>> /\ <<>> \o <<y>> = <<y>> /\ <<x>> \o <<>> = <<x>>
    BY <2>1, ConcatEmptySeq
  <2>3. <<x>> \o <<y>> = <<x, y>>
    BY Pair
  <2> QED BY <2>2, <2>3
<1>5. hand[s] \in Nat
  BY DEF Types
<1> QED BY <1>2, <1>3, <1>4, <1>5 DEF Queue, Line, Open

-----------------------------------------------------------------------------
(* The inductive invariant.                                                 *)

\* The tables and ranges after Subscribe has entered one key, or the global table.
LEMMA Ranges ==
  ASSUME Types, NEW s \in Subs, NEW K, AddToRanges(s, K)
  PROVE  /\ todo' \in [Workers -> SUBSET Subs]
         /\ todo'[1] = todo[1] \/ (todo'[1] = todo[1] \cup {s} /\ ~Idle(1) /\ log[busy[1]] \in K)
<1>1. PICK W \in SUBSET {w \in Workers : ~Idle(w) /\ log[busy[w]] \in K} :
        todo' = [w \in Workers |-> IF w \in W THEN todo[w] \cup {s} ELSE todo[w]]
  BY DEF AddToRanges
<1>2. todo' \in [Workers -> SUBSET Subs]
  BY <1>1 DEF Types
<1>3. todo'[1] = IF 1 \in W THEN todo[1] \cup {s} ELSE todo[1]
  BY <1>1, OneWorker
<1> QED BY <1>1, <1>2, <1>3

LEMMA BusInit == Init => BusInv
<1> SUFFICES ASSUME Init PROVE BusInv
  OBVIOUS
<1>1. /\ busy = [w \in Workers |-> 0] /\ todo = [w \in Workers |-> {}] /\ at = [w \in Workers |-> None]
      /\ spc = [s \in Subs |-> "new"] /\ place = [s \in Subs |-> 1] /\ fwd = [s \in Subs |-> FALSE]
      /\ hand = [s \in Subs |-> 0] /\ got = [s \in Subs |-> <<>>] /\ log = <<>>
      /\ globalSubs = {} /\ keySubs = [k \in Keys |-> {}] /\ cancelled = {}
  BY DEF Init
<1>2. log \in Seq(Keys) /\ got \in [Subs -> Seq(Nat)]
  BY <1>1
<1>3. Types
  BY <1>1, <1>2 DEF Types
<1>4. todo[1] = {} /\ at[1] = None /\ \A s \in Subs : s # None
  BY <1>1, OneWorker, KeysOf
<1>5. AtWork
  BY <1>4 DEF AtWork, Idle
<1>6. Hands /\ Entered
  BY <1>1, <1>4 DEF Hands, Entered, Way
<1> QED BY <1>3, <1>5, <1>6 DEF BusInv

\* The worker.
LEMMA WorkerInv ==
  ASSUME BusInv, NEW w \in Workers, Worker(w)
  PROVE  BusInv'
<1>0. w = 1
  BY OneWorker
<1>1. ASSUME NEW p \in Publishers, Accept(w, p) PROVE BusInv'
  <2> DEFINE k == PubKey[p]
  <2>1. /\ log' = Append(log, k) /\ busy' = [busy EXCEPT ![1] = Len(log')]
        /\ todo' = [todo EXCEPT ![1] = globalSubs \cup keySubs[k]] /\ Idle(1)
        /\ UNCHANGED <<at, globalSubs, keySubs, spc, place, cancelled, hand, fwd, got>>
    BY <1>0, <1>1 DEF Accept, tableVars, subVars
  <2>2. k \in Keys
    BY BusAssumption
  <2> HIDE DEF k
  <2>3. log' \in Seq(Keys) /\ Len(log') = Len(log) + 1 /\ log'[Len(log')] = k /\ Len(log) \in Nat
    BY <2>1, <2>2 DEF BusInv, Types
  <2>4. log' # <<>>
    BY <2>3
  <2>5. busy' \in [Workers -> Nat] /\ busy'[1] = Len(log')
    BY <2>1, <2>3, OneWorker DEF BusInv, Types
  <2>6. todo' \in [Workers -> SUBSET Subs] /\ todo'[1] = globalSubs \cup keySubs[k]
    BY <2>1, <2>2, OneWorker DEF BusInv, Types
  <2>7. Types'
    BY <2>1, <2>3, <2>5, <2>6 DEF BusInv, Types
  <2>8. AtWork' /\ Hands'
    BY <2>1, <2>4, <2>5 DEF BusInv, AtWork, Hands, Idle
  <2>9. at[1] = None /\ \A s \in Subs : s # None
    BY <2>1, KeysOf DEF Idle
  <2>10. Entered'
    BY <2>1, <2>2, <2>3, <2>5, <2>6, <2>9 DEF BusInv, Entered, Way
  <2> QED BY <2>7, <2>8, <2>10 DEF BusInv
<1>2. CASE Visit(w)
  <2>1. PICK s \in todo[1] :
          /\ at[1] = None /\ at' = [at EXCEPT ![1] = s] /\ todo' = [todo EXCEPT ![1] = @ \ {s}]
          /\ UNCHANGED <<log, busy, globalSubs, keySubs, spc, place, cancelled, hand, fwd, got>>
    BY <1>0, <1>2 DEF Visit, tableVars, subVars
  <2>2. s \in Subs /\ at'[1] = s /\ todo'[1] = todo[1] \ {s}
    BY <2>1, OneWorker DEF BusInv, Types
  <2>3. Types'
    BY <2>1, <2>2 DEF BusInv, Types
  <2>4. AtWork' /\ Hands'
    BY <2>1 DEF BusInv, AtWork, Hands, Idle
  <2>5. Entered'
    BY <2>1, <2>2, KeysOf DEF BusInv, Entered, Way
  <2> QED BY <2>3, <2>4, <2>5 DEF BusInv
<1>3. CASE Send(w)
  <2> DEFINE s == at[1]
  <2>1. /\ s # None /\ fwd[s] /\ hand[s] = 0 /\ hand' = [hand EXCEPT ![s] = busy[1]]
        /\ at' = [at EXCEPT ![1] = None] /\ todo' = todo
        /\ UNCHANGED <<log, busy, globalSubs, keySubs, spc, place, cancelled, fwd, got>>
    BY <1>0, <1>3 DEF Send, AfterSend, tableVars
  <2>2. s \in Subs /\ busy[1] \in Nat /\ at'[1] = None
    BY <2>1, OneWorker DEF BusInv, Types
  <2> HIDE DEF s
  <2>3. Types'
    BY <2>1, <2>2 DEF BusInv, Types
  <2>4. AtWork' /\ Hands'
    BY <2>1, <2>2 DEF BusInv, AtWork, Hands, Idle, Types
  <2>5. Entered'
    BY <2>1, <2>2, KeysOf DEF BusInv, Entered, Way
  <2> QED BY <2>3, <2>4, <2>5 DEF BusInv
<1>4. CASE SendOnClosed(w)
  BY <1>4 DEF SendOnClosed, workVars, tableVars, subVars, BusInv, Types, AtWork, Idle, Hands, Entered, Way
<1>5. CASE Abandon(w)
  <2>1. /\ todo' = [todo EXCEPT ![1] = {}] /\ at' = [at EXCEPT ![1] = None]
        /\ UNCHANGED <<log, busy, globalSubs, keySubs, spc, place, cancelled, hand, fwd, got>>
    BY <1>0, <1>5 DEF Abandon, tableVars, subVars
  <2>2. todo'[1] = {} /\ at'[1] = None
    BY <2>1, OneWorker DEF BusInv, Types
  <2>3. Types'
    BY <2>1 DEF BusInv, Types
  <2>4. AtWork' /\ Hands'
    BY <2>1, <2>2 DEF BusInv, AtWork, Hands, Idle
  <2>5. Entered'
    BY <2>1, <2>2, KeysOf DEF BusInv, Entered, Way
  <2> QED BY <2>3, <2>4, <2>5 DEF BusInv
<1> QED BY <1>1, <1>2, <1>3, <1>4, <1>5 DEF Worker

\* Subscribe.
LEMMA SubscribeInv ==
  ASSUME BusInv, NEW s \in Subs, Subscribe(s)
  PROVE  BusInv'
<1>1. UNCHANGED <<log, busy, at, cancelled, hand, got>>
  BY DEF Subscribe
<1>2. CASE AddGlobal(s)
  <2>1. /\ SubKeys[s] = <<>> /\ spc[s] = "new" /\ globalSubs' = globalSubs \cup {s}
        /\ AddToRanges(s, Keys) /\ spc' = [spc EXCEPT ![s] = "on"] /\ fwd' = [fwd EXCEPT ![s] = TRUE]
        /\ UNCHANGED <<keySubs, place>>
    BY <1>2 DEF AddGlobal
  <2>2. /\ todo' \in [Workers -> SUBSET Subs]
        /\ todo'[1] = todo[1] \/ (todo'[1] = todo[1] \cup {s} /\ ~Idle(1))
    BY <2>1, Ranges DEF BusInv
  <2>3. Types'
    BY <1>1, <2>1, <2>2 DEF BusInv, Types
  <2>4. AtWork'
    BY <1>1, <2>2 DEF BusInv, AtWork, Idle
  <2>5. Hands'
    BY <1>1, <2>1 DEF BusInv, Hands, Types
  <2>6. Entered'
    BY <1>1, <2>1, <2>2 DEF BusInv, Entered, Way, Types
  <2> QED BY <2>3, <2>4, <2>5, <2>6 DEF BusInv
<1>3. CASE AddKey(s)
  <2> DEFINE k == SubKeys[s][place[s]]
  <2>1. /\ SubKeys[s] # <<>> /\ spc[s] \in {"new", "adding"} /\ keySubs' = [keySubs EXCEPT ![k] = @ \cup {s}]
        /\ AddToRanges(s, {k}) /\ globalSubs' = globalSubs
        /\ \/ /\ LastKey(s) /\ spc' = [spc EXCEPT ![s] = "on"] /\ fwd' = [fwd EXCEPT ![s] = TRUE]
              /\ place' = [place EXCEPT ![s] = 1]
           \/ /\ ~LastKey(s) /\ spc' = [spc EXCEPT ![s] = "adding"] /\ fwd' = fwd
              /\ place' = [place EXCEPT ![s] = @ + 1]
    BY <1>3 DEF AddKey
  <2>2. place[s] \in DOMAIN SubKeys[s] /\ k \in Keys /\ place[s] \in Nat /\ s \notin keySubs[k]
    <3>1. place[s] \in DOMAIN SubKeys[s] /\ k \in Keys
      BY <2>1, KeysOf DEF BusInv, Entered
    <3>2. place[s] \in Nat
      BY DEF BusInv, Types
    <3> QED BY <2>1, <3>1, <3>2 DEF BusInv, Entered
  <2>3. \A i \in DOMAIN SubKeys[s] : i >= place[s] + 1 =>
           i >= place[s] /\ SubKeys[s][i] # k /\ s \notin keySubs[SubKeys[s][i]] /\ SubKeys[s][i] \in Keys
    <3> SUFFICES ASSUME NEW i \in DOMAIN SubKeys[s], i >= place[s] + 1
                 PROVE  i >= place[s] /\ SubKeys[s][i] # k /\ s \notin keySubs[SubKeys[s][i]]
                        /\ SubKeys[s][i] \in Keys
      OBVIOUS
    <3>1. i >= place[s] /\ i # place[s]
      BY <2>2, KeysOf
    <3>2. SubKeys[s][i] # k /\ SubKeys[s][i] \in Keys
      BY <2>2, <3>1, KeysOf
    <3>3. s \notin keySubs[SubKeys[s][i]]
      BY <2>1, <3>1, <3>2 DEF BusInv, Entered
    <3> QED BY <3>1, <3>2, <3>3
  <2>4. ~LastKey(s) => place[s] + 1 \in DOMAIN SubKeys[s]
    BY <2>2, KeysOf DEF LastKey
  <2> HIDE DEF k
  <2>5. /\ todo' \in [Workers -> SUBSET Subs]
        /\ todo'[1] = todo[1] \/ (todo'[1] = todo[1] \cup {s} /\ ~Idle(1) /\ log[busy[1]] = k)
    BY <2>1, Ranges DEF BusInv
  <2>6. Types'
    <3>1. place' \in [Subs -> Nat]
      <4>1. place \in [Subs -> Nat]
        BY DEF BusInv, Types
      <4> QED BY <2>1, <4>1, OneUp
    <3>2. keySubs' \in [Keys -> SUBSET Subs]
      <4>1. keySubs \in [Keys -> SUBSET Subs]
        BY DEF BusInv, Types
      <4>2. keySubs' = [keySubs EXCEPT ![k] = @ \cup {s}]
        BY <2>1
      <4> QED BY <4>1, <4>2
    <3>4. fwd' \in [Subs -> BOOLEAN]
      <4>1. fwd \in [Subs -> BOOLEAN]
        BY DEF BusInv, Types
      <4>2. fwd' = fwd \/ fwd' = [fwd EXCEPT ![s] = TRUE]
        BY <2>1
      <4> QED BY <4>1, <4>2
    <3>3. spc' \in [Subs -> {"new", "adding", "on", "closed", "off"}]
      BY <2>1 DEF BusInv, Types
    <3> QED BY <1>1, <2>1, <2>5, <3>1, <3>2, <3>3, <3>4 DEF BusInv, Types
  <2>7. AtWork'
    BY <1>1, <2>5 DEF BusInv, AtWork, Idle
  <2>8. Hands'
    BY <1>1, <2>1 DEF BusInv, Hands, Types
  <2>9. /\ keySubs'[k] = keySubs[k] \cup {s} /\ \A x \in Keys : x # k => keySubs'[x] = keySubs[x]
        /\ \A t \in Subs : t # s => spc'[t] = spc[t] /\ place'[t] = place[t]
        /\ \/ spc'[s] = "on"
           \/ (spc'[s] = "adding" /\ place'[s] = place[s] + 1 /\ place'[s] \in DOMAIN SubKeys[s])
    BY <2>1, <2>2, <2>4 DEF BusInv, Types
  <2>10. at[1] = s => s \notin todo'[1]
    BY <2>1, <2>2, <2>5 DEF BusInv, Entered, Way
  <2>11. ASSUME NEW t \in Subs, t # s
         PROVE  /\ spc'[t] = "new" => t \notin globalSubs' /\ place'[t] = 1 /\ ~Way(t)'
                                      /\ \A x \in Keys : t \notin keySubs'[x]
                /\ spc'[t] = "adding" =>
                     /\ t \notin globalSubs' /\ SubKeys[t] # <<>> /\ place'[t] \in DOMAIN SubKeys[t]
                     /\ \A i \in DOMAIN SubKeys[t] : i >= place'[t] => t \notin keySubs'[SubKeys[t][i]]
                     /\ Way(t)' => t \in keySubs'[log'[busy'[1]]]
                /\ at'[1] = t => t \notin todo'[1]
    <3>1. Way(t)' = Way(t)
      BY <1>1, <2>5, <2>11 DEF Way
    <3>2. \A x : t \in keySubs'[x] <=> t \in keySubs[x]
      BY <2>1, <2>2, <2>11 DEF BusInv, Types
    <3>3. t \in todo'[1] <=> t \in todo[1]
      BY <2>5, <2>11
    <3>4. /\ spc'[t] = spc[t] /\ place'[t] = place[t] /\ globalSubs' = globalSubs
          /\ log' = log /\ busy' = busy /\ at' = at
      BY <1>1, <2>1, <2>9, <2>11
    <3>5. spc'[t] = "new" => t \notin globalSubs' /\ place'[t] = 1 /\ ~Way(t)'
                            /\ \A x \in Keys : t \notin keySubs'[x]
      BY <3>1, <3>2, <3>4 DEF BusInv, Entered
    <3>6. ASSUME spc'[t] = "adding"
          PROVE  /\ t \notin globalSubs' /\ SubKeys[t] # <<>> /\ place'[t] \in DOMAIN SubKeys[t]
                 /\ \A i \in DOMAIN SubKeys[t] : i >= place'[t] => t \notin keySubs'[SubKeys[t][i]]
                 /\ Way(t)' => t \in keySubs'[log'[busy'[1]]]
      <4>1. /\ t \notin globalSubs /\ SubKeys[t] # <<>> /\ place[t] \in DOMAIN SubKeys[t]
            /\ \A i \in DOMAIN SubKeys[t] : i >= place[t] => t \notin keySubs[SubKeys[t][i]]
            /\ Way(t) => t \in keySubs[log[busy[1]]]
        BY <3>4, <3>6 DEF BusInv, Entered
      <4>2. \A i \in DOMAIN SubKeys[t] : i >= place'[t] => t \notin keySubs'[SubKeys[t][i]]
        BY <3>2, <3>4, <4>1
      <4>3. Way(t)' => t \in keySubs'[log'[busy'[1]]]
        BY <3>1, <3>2, <3>4, <4>1
      <4> QED BY <3>4, <4>1, <4>2, <4>3
    <3>7. at'[1] = t => t \notin todo'[1]
      BY <3>3, <3>4 DEF BusInv, Entered
    <3> QED BY <3>5, <3>6, <3>7
  <2>12. spc'[s] = "adding" =>
           /\ s \notin globalSubs' /\ SubKeys[s] # <<>> /\ place'[s] \in DOMAIN SubKeys[s]
           /\ \A i \in DOMAIN SubKeys[s] : i >= place'[s] => s \notin keySubs'[SubKeys[s][i]]
           /\ Way(s)' => s \in keySubs'[log'[busy'[1]]]
    <3> SUFFICES ASSUME spc'[s] = "adding"
                 PROVE  /\ s \notin globalSubs'
                        /\ \A i \in DOMAIN SubKeys[s] : i >= place'[s] => s \notin keySubs'[SubKeys[s][i]]
                        /\ Way(s)' => s \in keySubs'[log'[busy'[1]]]
      BY <2>1, <2>9
    <3>1. s \notin globalSubs'
      BY <2>1 DEF BusInv, Entered
    <3>2. \A i \in DOMAIN SubKeys[s] : i >= place'[s] => s \notin keySubs'[SubKeys[s][i]]
      BY <2>3, <2>9
    <3>3. Way(s)' => Way(s) \/ log[busy[1]] = k
      BY <1>1, <2>5 DEF Way
    <3>4. Way(s) => s \in keySubs[log[busy[1]]]
      BY <2>1 DEF BusInv, Entered
    <3>5. \A x : s \in keySubs[x] => s \in keySubs'[x]
      BY <2>1, <2>2 DEF BusInv, Types
    <3> QED BY <1>1, <2>9, <3>1, <3>2, <3>3, <3>4, <3>5
  <2>13. Entered'
    BY <1>1, <2>9, <2>10, <2>11, <2>12 DEF Entered
  <2> QED BY <2>6, <2>7, <2>8, <2>13 DEF BusInv
<1> QED BY <1>2, <1>3 DEF Subscribe

\* A subscription that was cancelled leaves the tables.
LEMMA UnsubscribeInv ==
  ASSUME BusInv, NEW s \in Subs, Unsubscribe(s)
  PROVE  BusInv'
<1>1. CASE CloseChannel(s)
  <2>1. /\ spc' = [spc EXCEPT ![s] = "closed"]
        /\ UNCHANGED <<log, busy, todo, at, globalSubs, keySubs, place, cancelled, hand, fwd, got>>
    BY <1>1 DEF CloseChannel, workVars, tableVars
  <2> QED BY <2>1 DEF BusInv, Types, AtWork, Idle, Hands, Entered, Way
<1>2. CASE Withdraw(s)
  <2>1. /\ spc[s] = "closed" /\ (spc' = spc \/ spc' = [spc EXCEPT ![s] = "off"])
        /\ UNCHANGED <<log, busy, at, cancelled, hand, fwd, got>>
    BY <1>2 DEF Withdraw
  <2> DEFINE k == SubKeys[s][place[s]]
  <2>11. \/ globalSubs' = globalSubs \ {s} /\ keySubs' = keySubs
         \/ globalSubs' = globalSubs /\ keySubs' = [keySubs EXCEPT ![k] = @ \ {s}]
    BY <1>2 DEF Withdraw
  <2>12. place' = place \/ place' = [place EXCEPT ![s] = @ + 1]
    BY <1>2 DEF Withdraw
  <2>13. \/ todo' = [w \in Workers |-> todo[w] \ {s}]
         \/ todo' = [w \in Workers |-> IF ~Idle(w) /\ log[busy[w]] = k THEN todo[w] \ {s} ELSE todo[w]]
    BY <1>2 DEF Withdraw
  <2> HIDE DEF k
  <2>2. /\ globalSubs' \in SUBSET globalSubs /\ \A t \in Subs : t # s => (t \in globalSubs' <=> t \in globalSubs)
        /\ keySubs' \in [Keys -> SUBSET Subs]
        /\ \A x \in Keys : \A t \in Subs : t # s => (t \in keySubs'[x] <=> t \in keySubs[x])
    BY <2>11 DEF BusInv, Types
  <2>3. todo' \in [Workers -> SUBSET Subs] /\ (todo'[1] = todo[1] \/ todo'[1] = todo[1] \ {s})
    BY <2>13, OneWorker DEF BusInv, Types
  <2>4. place' \in [Subs -> Nat] /\ \A t \in Subs : t # s => place'[t] = place[t]
    <3>1. place \in [Subs -> Nat]
      BY DEF BusInv, Types
    <3> QED BY <2>12, <3>1, OneUp
  <2>5. Types'
    BY <2>1, <2>2, <2>3, <2>4 DEF BusInv, Types
  <2>6. AtWork'
    BY <2>1, <2>3 DEF BusInv, AtWork, Idle
  <2>7. spc'[s] \in {"closed", "off"} /\ \A t \in Subs : t # s => spc'[t] = spc[t]
    BY <2>1 DEF BusInv, Types
  <2>8. Hands'
    BY <2>1, <2>7 DEF BusInv, Hands
  <2>9. ASSUME NEW t \in Subs, t # s
        PROVE  /\ spc'[t] = "new" => t \notin globalSubs' /\ place'[t] = 1 /\ ~Way(t)'
                                     /\ \A x \in Keys : t \notin keySubs'[x]
               /\ spc'[t] = "adding" =>
                    /\ t \notin globalSubs' /\ SubKeys[t] # <<>> /\ place'[t] \in DOMAIN SubKeys[t]
                    /\ \A i \in DOMAIN SubKeys[t] : i >= place'[t] => t \notin keySubs'[SubKeys[t][i]]
                    /\ Way(t)' => t \in keySubs'[log'[busy'[1]]]
    <3>1. Way(t)' = Way(t) /\ (t \in globalSubs' <=> t \in globalSubs)
      BY <2>1, <2>2, <2>3, <2>9 DEF Way
    <3>2. Way(t) => log[busy[1]] \in Keys
      <4>1. Way(t) => ~Idle(1)
        BY KeysOf DEF Way, Idle
      <4>2. ~Idle(1) => log[Len(log)] \in Keys /\ busy[1] = Len(log)
        BY DEF BusInv, AtWork, Types
      <4> QED BY <4>1, <4>2
    <3>3. /\ spc'[t] = spc[t] /\ place'[t] = place[t] /\ log' = log /\ busy' = busy
          /\ \A x \in Keys : t \in keySubs'[x] <=> t \in keySubs[x]
      BY <2>1, <2>2, <2>4, <2>7, <2>9
    <3>4. \A i \in DOMAIN SubKeys[t] : SubKeys[t][i] \in Keys
      BY KeysOf
    <3>5. spc'[t] = "new" => t \notin globalSubs' /\ place'[t] = 1 /\ ~Way(t)'
                            /\ \A x \in Keys : t \notin keySubs'[x]
      BY <3>1, <3>3 DEF BusInv, Entered
    <3>6. ASSUME spc'[t] = "adding"
          PROVE  /\ t \notin globalSubs' /\ SubKeys[t] # <<>> /\ place'[t] \in DOMAIN SubKeys[t]
                 /\ \A i \in DOMAIN SubKeys[t] : i >= place'[t] => t \notin keySubs'[SubKeys[t][i]]
                 /\ Way(t)' => t \in keySubs'[log'[busy'[1]]]
      <4>1. /\ t \notin globalSubs /\ SubKeys[t] # <<>> /\ place[t] \in DOMAIN SubKeys[t]
            /\ \A i \in DOMAIN SubKeys[t] : i >= place[t] => t \notin keySubs[SubKeys[t][i]]
            /\ Way(t) => t \in keySubs[log[busy[1]]]
        BY <3>3, <3>6 DEF BusInv, Entered
      <4>2. \A i \in DOMAIN SubKeys[t] : i >= place'[t] => t \notin keySubs'[SubKeys[t][i]]
        BY <3>3, <3>4, <4>1
      <4>3. Way(t)' => t \in keySubs'[log'[busy'[1]]]
        BY <3>1, <3>2, <3>3, <4>1
      <4> QED BY <3>1, <3>3, <4>1, <4>2, <4>3
    <3> QED BY <3>5, <3>6
  <2>10. Entered'
    BY <2>1, <2>3, <2>7, <2>9 DEF BusInv, Entered
  <2> QED BY <2>5, <2>6, <2>8, <2>10 DEF BusInv
<1> QED BY <1>1, <1>2 DEF Unsubscribe

LEMMA BusNext == BusInv /\ [Next]_vars => BusInv'
<1> SUFFICES ASSUME BusInv, [Next]_vars PROVE BusInv'
  OBVIOUS
<1>1. ASSUME NEW p \in Publishers, Publish(p) \/ GiveUp(p) PROVE BusInv'
  BY <1>1 DEF Publish, GiveUp, workVars, tableVars, subVars, BusInv, Types, AtWork, Idle, Hands, Entered, Way
<1>2. ASSUME NEW s \in Subs, CancelSub(s) PROVE BusInv'
  BY <1>2 DEF CancelSub, workVars, tableVars, BusInv, Types, AtWork, Idle, Hands, Entered, Way
<1>3. ASSUME NEW s \in Subs, Reader(s) PROVE BusInv'
  <2>1. /\ fwd[s] /\ hand' = [hand EXCEPT ![s] = 0] /\ (fwd' = fwd \/ fwd' = [fwd EXCEPT ![s] = FALSE])
        /\ UNCHANGED <<log, busy, todo, at, globalSubs, keySubs, spc, place, cancelled>>
    BY <1>3 DEF Reader, Forward, StopForwarding, workVars, tableVars
  <2>2. got' = got \/ got' = [got EXCEPT ![s] = Append(@, hand[s])]
    BY <1>3 DEF Reader, Forward, StopForwarding
  <2>3. got' \in [Subs -> Seq(Nat)]
    <3>1. got \in [Subs -> Seq(Nat)] /\ hand[s] \in Nat
      BY DEF BusInv, Types
    <3>2. Append(got[s], hand[s]) \in Seq(Nat)
      BY <3>1
    <3> QED BY <2>2, <3>1, <3>2
  <2>4. Types'
    BY <2>1, <2>3 DEF BusInv, Types
  <2>5. Hands'
    BY <2>1 DEF BusInv, Hands, Types
  <2> QED BY <2>1, <2>4, <2>5 DEF BusInv, AtWork, Idle, Entered, Way
<1>4. CASE Cancel
  <2>1. cancelled' \in SUBSET Subs
    BY <1>4 DEF Cancel, BusInv, Types
  <2> QED BY <1>4, <2>1 DEF Cancel, workVars, tableVars, BusInv, Types, AtWork, Idle, Hands, Entered, Way
<1>5. CASE UNCHANGED vars
  BY <1>5 DEF vars, workVars, tableVars, subVars, BusInv, Types, AtWork, Idle, Hands, Entered, Way
<1> QED BY <1>1, <1>2, <1>3, <1>4, <1>5, WorkerInv, SubscribeInv, UnsubscribeInv DEF Next

LEMMA BusInvAlways == Spec => []BusInv
<1> QED BY BusInit, BusNext, PTL DEF Spec

-----------------------------------------------------------------------------
(* The state of Delivery, and its steps in terms of it.                     *)

Hears(k) == {s \in keySubs[k] \cup globalSubs : Listens(s)}
Row(s) == Line(spc[s], fwd[s], hand[s], Way(s), busy[1])

LEMMA RowIs == Types => \A s \in Subs : Queue(s) = Row(s)
BY QueueIs DEF Row

LEMMA RowNext == Types' => \A s \in Subs : Queue(s)' = Row(s)'
<1>1. (Types => \A s \in Subs : Queue(s) = Row(s))'
  BY RowIs, PTL
<1> QED BY <1>1

SameRest == UNCHANGED <<log, got, cancelled, ctxDone>>
SameHears == \A k \in Keys : Hears(k)' = Hears(k)
SameRows == \A s \in Subs : Row(s)' = Row(s)

LEMMA Stutter ==
  ASSUME Types, Types', SameRest, SameHears, SameRows
  PROVE  UNCHANGED D!vars
<1>1. \A s \in Subs : Queue(s)' = Queue(s)
  BY RowIs, RowNext DEF SameRows
<1>2. [k \in Keys |-> {s \in keySubs[k] \cup globalSubs : Listens(s)}]'
        = [k \in Keys |-> {s \in keySubs[k] \cup globalSubs : Listens(s)}]
  BY DEF SameHears, Hears
<1>3. [s \in Subs |-> Queue(s)]' = [s \in Subs |-> Queue(s)]
  BY <1>1
<1> QED BY <1>2, <1>3 DEF SameRest, D!vars

LEMMA Publishes ==
  ASSUME Types, Types', NEW k \in Keys, log' = Append(log, k), UNCHANGED <<got, cancelled, ctxDone>>,
         SameHears,
         \A s \in Subs : Row(s)' = IF s \in Hears(k) THEN Append(Row(s), Len(log')) ELSE Row(s)
  PROVE  D!Next
<1>1. \A s \in Subs : Queue(s)' = IF s \in Hears(k) THEN Append(Queue(s), Len(log')) ELSE Queue(s)
  BY RowIs, RowNext
<1>2. [j \in Keys |-> {s \in keySubs[j] \cup globalSubs : Listens(s)}]'
        = [j \in Keys |-> {s \in keySubs[j] \cup globalSubs : Listens(s)}]
  BY DEF SameHears, Hears
<1>3. D!Publish(k)
  BY <1>1, <1>2 DEF D!Publish, Hears
<1> QED BY <1>3 DEF D!Next

LEMMA Listening ==
  ASSUME Types, Types', SameRest, NEW s \in Subs, NEW K \in SUBSET Keys,
         \A k \in K : s \notin Hears(k),
         \A k \in Keys : Hears(k)' = IF k \in K THEN Hears(k) \cup {s} ELSE Hears(k),
         \A t \in Subs : t # s => Row(t)' = Row(t),
         \/ Row(s)' = Row(s)
         \/ log # <<>> /\ log[Len(log)] \in K /\ Row(s)' = Append(Row(s), Len(log))
  PROVE  D!Next
<1>1. \A t \in Subs : Queue(t) = Row(t) /\ Queue(t)' = Row(t)'
  BY RowIs, RowNext
<1>2. [k \in Keys |-> {t \in keySubs[k] \cup globalSubs : Listens(t)}]'
        = [k \in Keys |-> IF k \in K THEN Hears(k) \cup {s} ELSE Hears(k)]
  BY DEF Hears
<1>3. \/ [t \in Subs |-> Queue(t)]' = [t \in Subs |-> Queue(t)]
      \/ /\ log # <<>> /\ log[Len(log)] \in K
         /\ [t \in Subs |-> Queue(t)]' = [[t \in Subs |-> Queue(t)] EXCEPT ![s] = Append(@, Len(log))]
  <2>1. CASE Row(s)' = Row(s)
    BY <1>1, <2>1
  <2>2. CASE log # <<>> /\ log[Len(log)] \in K /\ Row(s)' = Append(Row(s), Len(log))
    BY <1>1, <2>2
  <2> QED BY <2>1, <2>2
<1>4. D!Last(log) = log[Len(log)]
  BY DEF D!Last
<1>5. D!Listen(s, K)
  BY <1>2, <1>3, <1>4 DEF D!Listen, SameRest, Hears
<1> QED BY <1>5 DEF D!Next

LEMMA Delivers ==
  ASSUME Types, Types', UNCHANGED <<log, cancelled, ctxDone>>, SameHears, NEW s \in Subs,
         Row(s) # <<>>, got' = [got EXCEPT ![s] = Append(@, Head(Row(s)))],
         Row(s)' = Tail(Row(s)), \A t \in Subs : t # s => Row(t)' = Row(t)
  PROVE  D!Next
<1>1. \A t \in Subs : Queue(t) = Row(t) /\ Queue(t)' = Row(t)'
  BY RowIs, RowNext
<1>2. [k \in Keys |-> {t \in keySubs[k] \cup globalSubs : Listens(t)}]'
        = [k \in Keys |-> {t \in keySubs[k] \cup globalSubs : Listens(t)}]
  BY DEF SameHears, Hears
<1>3. [t \in Subs |-> Queue(t)]' = [[t \in Subs |-> Queue(t)] EXCEPT ![s] = Tail(@)]
  BY <1>1
<1>4. D!Deliver(s)
  BY <1>1, <1>2, <1>3 DEF D!Deliver
<1> QED BY <1>4 DEF D!Next

Shorter(q, r) == q = r \/ q = <<>> \/ (\E x, y \in Nat : r = <<x, y>> /\ q = <<x>>)

LEMMA ShorterIsPrefix ==
  ASSUME NEW q, NEW r, Shorter(q, r),
         r = <<>> \/ (\E x \in Nat : r = <<x>>) \/ (\E x, y \in Nat : r = <<x, y>>)
  PROVE  D!IsPrefix(q, r)
<1>1. r \in Seq(Nat) /\ q \in Seq(Nat)
  <2>1. <<>> \in Seq(Nat) /\ \A x, y \in Nat : <<x>> \in Seq(Nat) /\ <<x, y>> \in Seq(Nat)
    OBVIOUS
  <2>2. r \in Seq(Nat)
    BY <2>1
  <2> QED BY <2>1, <2>2 DEF Shorter
<1>2. Len(q) <= Len(r) /\ \A i \in 1..Len(q) : q[i] = r[i]
  BY DEF Shorter
<1> QED BY <1>1, <1>2 DEF D!IsPrefix

LEMMA Loses ==
  ASSUME Types, Types', SameRest,
         \A s \in Subs : Shorter(Row(s)', Row(s)) /\ (Row(s)' = Row(s) \/ s \in cancelled \/ ctxDone),
         \A k \in Keys : \A s \in Subs :
           /\ s \in Hears(k)' => s \in Hears(k)
           /\ s \in Hears(k) => s \in Hears(k)' \/ s \in cancelled
  PROVE  D!Next
<1>1. \A t \in Subs : Queue(t) = Row(t) /\ Queue(t)' = Row(t)'
  BY RowIs, RowNext
<1>2. \A t \in Subs : Row(t) = <<>> \/ (\E x \in Nat : Row(t) = <<x>>) \/ (\E x, y \in Nat : Row(t) = <<x, y>>)
  <2>1. busy[1] \in Nat /\ \A t \in Subs : hand[t] \in Nat
    BY OneWorker DEF Types
  <2> QED BY <2>1 DEF Row, Line
<1>3. \A t \in Subs : D!IsPrefix(Row(t)', Row(t))
  BY <1>2, ShorterIsPrefix
<1>4. \A k \in Keys : Hears(k) \subseteq Subs /\ Hears(k)' \subseteq Subs
  BY DEF Hears, Types
<1>5. \A k \in Keys : Hears(k)' \subseteq Hears(k) /\ Hears(k) \ Hears(k)' \subseteq cancelled
  BY <1>4
<1>6. D!Lose
  BY <1>1, <1>3, <1>5 DEF D!Lose, SameRest, Hears
<1> QED BY <1>6 DEF D!Next

-----------------------------------------------------------------------------
(* Every step of the bus is one of Delivery.                                *)

LEMMA WorkerStep ==
  ASSUME BusInv, BusInv', NEW w \in Workers, Worker(w)
  PROVE  D!Next \/ UNCHANGED D!vars
<1>0. w = 1 /\ Types /\ Types' /\ busy[1] \in Nat
  BY OneWorker DEF BusInv, Types
<1>1. ASSUME NEW p \in Publishers, Accept(w, p) PROVE D!Next
  <2> DEFINE k == PubKey[p]
  <2>1. /\ log' = Append(log, k) /\ busy' = [busy EXCEPT ![1] = Len(log')]
        /\ todo' = [todo EXCEPT ![1] = globalSubs \cup keySubs[k]] /\ Idle(1)
        /\ UNCHANGED <<ctxDone, at, globalSubs, keySubs, spc, place, cancelled, hand, fwd, got>>
    BY <1>0, <1>1 DEF Accept, tableVars, subVars
  <2>2. k \in Keys
    BY BusAssumption
  <2> HIDE DEF k
  <2>3. busy'[1] = Len(log') /\ todo'[1] = globalSubs \cup keySubs[k] /\ Len(log') \in Nat
    BY <1>0, <2>1, <2>2, OneWorker DEF Types
  <2>4. SameHears
    BY <2>1 DEF SameHears, Hears, Listens, Open
  <2>5. \A s \in Subs : ~Way(s) /\ (Way(s)' <=> s \in globalSubs \cup keySubs[k])
    BY <2>1, <2>3, KeysOf DEF Way, Idle
  <2>6. \A s \in Subs : Row(s)' = IF s \in Hears(k) THEN Append(Row(s), Len(log')) ELSE Row(s)
    <3> SUFFICES ASSUME NEW s \in Subs
                 PROVE  Row(s)' = IF s \in Hears(k) THEN Append(Row(s), Len(log')) ELSE Row(s)
      OBVIOUS
    <3>1. /\ Row(s) = Line(spc[s], fwd[s], hand[s], FALSE, busy[1])
          /\ Row(s)' = Line(spc[s], fwd[s], hand[s], s \in globalSubs \cup keySubs[k], Len(log'))
      <4>1. Way(s) = FALSE /\ Way(s)' = (s \in globalSubs \cup keySubs[k])
        BY <2>5 DEF Way
      <4> QED BY <2>1, <2>3, <4>1 DEF Row
    <3>2. \A x, y \in Nat : Append(<<>>, x) = <<x>> /\ Append(<<y>>, x) = <<y, x>>
      <4>1. \A x : Append(<<>>, x) = <<x>>
        OBVIOUS
      <4> QED BY <4>1, AppendToOne
    <3>3. spc[s] = "new" => s \notin globalSubs \cup keySubs[k]
      BY <2>2 DEF BusInv, Entered
    <3>4. s \in Hears(k) <=> s \in globalSubs \cup keySubs[k] /\ spc[s] \in {"adding", "on"}
                             /\ (spc[s] = "on" => fwd[s])
      BY DEF Hears, Listens, Open
    <3> HIDE DEF k
    <3>5. hand[s] \in Nat
      BY <1>0 DEF Types
    <3> QED BY <2>3, <3>1, <3>2, <3>3, <3>4, <3>5 DEF Line
  <2> QED BY <1>0, <2>1, <2>2, <2>4, <2>6, Publishes
<1>2. CASE Visit(w)
  <2>1. PICK s \in todo[1] :
          /\ at[1] = None /\ at' = [at EXCEPT ![1] = s] /\ todo' = [todo EXCEPT ![1] = @ \ {s}]
          /\ UNCHANGED <<ctxDone, log, busy, globalSubs, keySubs, spc, place, cancelled, hand, fwd, got>>
    BY <1>0, <1>2 DEF Visit, tableVars, subVars
  <2>2. at'[1] = s /\ todo'[1] = todo[1] \ {s}
    BY <1>0, <2>1, OneWorker DEF Types
  <2>3. \A t \in Subs : Way(t)' = Way(t)
    BY <2>1, <2>2, KeysOf DEF Way
  <2>4. SameRest /\ SameHears
    BY <2>1 DEF SameRest, SameHears, Hears, Listens, Open
  <2>5. SameRows
    BY <2>1, <2>3 DEF SameRows, Row
  <2> QED BY <1>0, <2>4, <2>5, Stutter
<1>3. CASE Send(w)
  <2>0. PICK s : s = at[1]
    OBVIOUS
  <2>1. /\ s # None /\ Open(s) /\ fwd[s] /\ hand[s] = 0 /\ hand' = [hand EXCEPT ![s] = busy[1]]
        /\ at' = [at EXCEPT ![1] = None] /\ todo' = todo
        /\ UNCHANGED <<ctxDone, log, busy, globalSubs, keySubs, spc, place, cancelled, fwd, got>>
    BY <1>0, <1>3, <2>0 DEF Send, AfterSend, tableVars
  <2>2. s \in Subs /\ at'[1] = None /\ Way(s)
    BY <1>0, <2>0, <2>1, OneWorker DEF Types, Way
  <2>3. s \notin todo[1] /\ spc[s] = "on" /\ busy[1] # 0
    <3>1. s \notin todo[1] /\ spc[s] = "on"
      BY <2>0, <2>1, <2>2 DEF BusInv, Entered, Hands, Open
    <3>2. busy[1] = Len(log) /\ log # <<>> /\ log \in Seq(Keys)
      BY <2>0, <2>1 DEF BusInv, AtWork, Idle, Types
    <3>3. Len(log) # 0
      BY <3>2
    <3> QED BY <3>1, <3>2, <3>3
  <2>4. ~Way(s)' /\ \A t \in Subs : t # s => Way(t)' = Way(t)
    BY <2>0, <2>1, <2>2, <2>3, KeysOf DEF Way
  <2>5. SameRest /\ SameHears
    BY <2>1 DEF SameRest, SameHears, Hears, Listens, Open
  <2>6. hand'[s] = busy[1] /\ \A t \in Subs : t # s => hand'[t] = hand[t]
    BY <1>0, <2>1, <2>2 DEF Types
  <2>7. SameRows
    <3>1. \A t \in Subs : t # s => Row(t)' = Row(t)
      BY <2>1, <2>4, <2>6 DEF Row
    <3>2. Row(s) = <<busy[1]>> /\ Row(s)' = <<busy[1]>>
      BY <2>1, <2>2, <2>3, <2>4, <2>6 DEF Row, Line
    <3> QED BY <3>1, <3>2 DEF SameRows
  <2> QED BY <1>0, <2>5, <2>7, Stutter
<1>4. CASE SendOnClosed(w)
  <2>1. UNCHANGED <<ctxDone, log, busy, todo, at, globalSubs, keySubs, spc, place, cancelled, hand, fwd, got>>
    BY <1>4 DEF SendOnClosed, workVars, tableVars, subVars
  <2>2. SameRest /\ SameHears /\ SameRows
    BY <2>1 DEF SameRest, SameHears, SameRows, Row, Way, Hears, Listens, Open
  <2> QED BY <1>0, <2>2, Stutter
<1>5. CASE Abandon(w)
  <2>1. /\ ctxDone /\ todo' = [todo EXCEPT ![1] = {}] /\ at' = [at EXCEPT ![1] = None]
        /\ UNCHANGED <<ctxDone, log, busy, globalSubs, keySubs, spc, place, cancelled, hand, fwd, got>>
    BY <1>0, <1>5 DEF Abandon, tableVars, subVars
  <2>2. \A s \in Subs : ~Way(s)'
    BY <1>0, <2>1, OneWorker, KeysOf DEF Types, Way
  <2>3. SameRest /\ SameHears
    BY <2>1 DEF SameRest, SameHears, Hears, Listens, Open
  <2>4. \A s \in Subs : Shorter(Row(s)', Row(s))
    <3>1. \A s \in Subs : hand[s] \in Nat
      BY <1>0 DEF Types
    <3> QED BY <1>0, <2>1, <2>2, <3>1 DEF Row, Line, Shorter
  <2> QED BY <1>0, <2>1, <2>3, <2>4, Loses DEF SameHears
<1> QED BY <1>1, <1>2, <1>3, <1>4, <1>5 DEF Worker

LEMMA SubscribeStep ==
  ASSUME BusInv, BusInv', NEW s \in Subs, Subscribe(s)
  PROVE  D!Next \/ UNCHANGED D!vars
<1>0. Types /\ Types' /\ busy[1] \in Nat /\ log \in Seq(Keys)
  BY OneWorker DEF BusInv, Types
<1>1. UNCHANGED <<ctxDone, log, busy, at, cancelled, hand, got>>
  BY DEF Subscribe
<1>2. SameRest
  BY <1>1 DEF SameRest
<1>3. ~Idle(1) => busy[1] = Len(log) /\ log # <<>> /\ log[Len(log)] \in Keys
  BY <1>0 DEF BusInv, AtWork
<1>4. CASE AddGlobal(s)
  <2>1. /\ SubKeys[s] = <<>> /\ spc[s] = "new" /\ globalSubs' = globalSubs \cup {s}
        /\ AddToRanges(s, Keys) /\ spc' = [spc EXCEPT ![s] = "on"] /\ fwd' = [fwd EXCEPT ![s] = TRUE]
        /\ UNCHANGED <<keySubs, place>>
    BY <1>4 DEF AddGlobal
  <2>2. todo'[1] = todo[1] \/ (todo'[1] = todo[1] \cup {s} /\ ~Idle(1))
    BY <1>0, <2>1, Ranges
  <2>3. /\ spc'[s] = "on" /\ fwd'[s] = TRUE /\ hand[s] = 0 /\ ~Way(s) /\ ~fwd[s]
        /\ \A t \in Subs : t # s => spc'[t] = spc[t] /\ fwd'[t] = fwd[t] /\ Way(t)' = Way(t)
    BY <1>0, <1>1, <2>1, <2>2 DEF BusInv, Types, Entered, Hands, Way
  <2>4. \A k \in Keys : s \notin Hears(k)
    BY <2>1 DEF Hears, Listens, Open
  <2>5. \A k \in Keys : Hears(k)' = Hears(k) \cup {s}
    <3> SUFFICES ASSUME NEW k \in Keys PROVE Hears(k)' = Hears(k) \cup {s}
      OBVIOUS
    <3>1. Hears(k) \subseteq Subs /\ Hears(k)' \subseteq Subs
      BY <1>0 DEF Hears, Types
    <3>2. s \in Hears(k)'
      BY <2>1, <2>3 DEF Hears, Listens, Open
    <3>3. \A t \in Subs : t # s => (t \in Hears(k)' <=> t \in Hears(k))
      BY <2>1, <2>3 DEF Hears, Listens, Open
    <3> QED BY <3>1, <3>2, <3>3
  <2>6. \A t \in Subs : t # s => Row(t)' = Row(t)
    BY <1>1, <2>3 DEF Row
  <2>7. Row(s) = <<>> /\ (Row(s)' = <<>> \/ (Way(s)' /\ Row(s)' = <<busy[1]>>))
    BY <1>1, <2>1, <2>3 DEF Row, Line
  <2>8. Way(s)' => ~Idle(1)
    BY <1>1, <2>2, <2>3 DEF Way
  <2>9. Row(s)' = Row(s) \/ (log # <<>> /\ log[Len(log)] \in Keys /\ Row(s)' = Append(Row(s), Len(log)))
    <3>1. \A x : Append(<<>>, x) = <<x>>
      OBVIOUS
    <3> QED BY <1>3, <2>7, <2>8, <3>1
  <2> QED BY <1>0, <1>2, <2>4, <2>5, <2>6, <2>9, Listening
<1>5. CASE AddKey(s)
  <2> DEFINE k == SubKeys[s][place[s]]
  <2>1. /\ SubKeys[s] # <<>> /\ spc[s] \in {"new", "adding"} /\ keySubs' = [keySubs EXCEPT ![k] = @ \cup {s}]
        /\ AddToRanges(s, {k}) /\ globalSubs' = globalSubs
        /\ \/ spc' = [spc EXCEPT ![s] = "on"] /\ fwd' = [fwd EXCEPT ![s] = TRUE]
           \/ spc' = [spc EXCEPT ![s] = "adding"] /\ fwd' = fwd
    BY <1>5 DEF AddKey
  <2>2. k \in Keys /\ s \notin keySubs[k] /\ s \notin globalSubs /\ hand[s] = 0 /\ ~fwd[s]
    <3>1. place[s] \in DOMAIN SubKeys[s] /\ k \in Keys
      BY <2>1, KeysOf DEF BusInv, Entered
    <3>2. place[s] \in Nat
      BY DEF BusInv, Types
    <3> QED BY <2>1, <3>1, <3>2 DEF BusInv, Entered, Hands
  <2> HIDE DEF k
  <2>3. todo'[1] = todo[1] \/ (todo'[1] = todo[1] \cup {s} /\ ~Idle(1) /\ log[busy[1]] = k)
    BY <1>0, <2>1, Ranges
  <2>4. /\ keySubs'[k] = keySubs[k] \cup {s} /\ \A x \in Keys : x # k => keySubs'[x] = keySubs[x]
        /\ spc'[s] \in {"on", "adding"} /\ (spc'[s] = "on" => fwd'[s] = TRUE)
        /\ \A t \in Subs : t # s => spc'[t] = spc[t] /\ fwd'[t] = fwd[t] /\ Way(t)' = Way(t)
    BY <1>0, <1>1, <2>1, <2>2, <2>3 DEF Types, Way
  <2>5. \A x \in {k} : s \notin Hears(x)
    BY <2>2 DEF Hears
  <2>6. \A x \in Keys : Hears(x)' = IF x \in {k} THEN Hears(x) \cup {s} ELSE Hears(x)
    <3> SUFFICES ASSUME NEW x \in Keys
                 PROVE  Hears(x)' = IF x \in {k} THEN Hears(x) \cup {s} ELSE Hears(x)
      OBVIOUS
    <3>1. Hears(x) \subseteq Subs /\ Hears(x)' \subseteq Subs
      BY <1>0 DEF Hears, Types
    <3>2. \A t \in Subs : t # s => (t \in Hears(x)' <=> t \in Hears(x))
      BY <2>1, <2>4 DEF Hears, Listens, Open
    <3>3. x = k => s \in Hears(x)'
      BY <2>4 DEF Hears, Listens, Open
    <3>4. s \in Hears(x) <=> s \in keySubs[x]
      BY <2>1, <2>2 DEF Hears, Listens, Open, BusInv, Entered
    <3>5. x # k => (s \in Hears(x)' <=> s \in keySubs[x])
      BY <2>1, <2>2, <2>4 DEF Hears, Listens, Open
    <3> QED BY <3>1, <3>2, <3>3, <3>4, <3>5
  <2>7. \A t \in Subs : t # s => Row(t)' = Row(t)
    BY <1>1, <2>4 DEF Row
  <2>8. /\ Row(s) = IF Way(s) THEN <<busy[1]>> ELSE <<>>
        /\ Row(s)' = IF Way(s)' THEN <<busy[1]>> ELSE <<>>
    <3>1. spc[s] = "new" => ~Way(s)
      BY DEF BusInv, Entered
    <3> QED BY <1>1, <2>1, <2>2, <2>4, <3>1 DEF Row, Line
  <2>9. \/ Way(s)' = Way(s)
        \/ Way(s)' /\ ~Way(s) /\ ~Idle(1) /\ log[busy[1]] = k
    BY <1>1, <2>3 DEF Way
  <2>10. Row(s)' = Row(s) \/ (log # <<>> /\ log[Len(log)] \in {k} /\ Row(s)' = Append(Row(s), Len(log)))
    <3>1. \A x : Append(<<>>, x) = <<x>>
      OBVIOUS
    <3>2. CASE Way(s)' = Way(s)
      BY <2>8, <3>2
    <3>3. CASE Way(s)' /\ ~Way(s) /\ ~Idle(1) /\ log[busy[1]] = k
      BY <1>3, <2>8, <3>1, <3>3
    <3> QED BY <2>9, <3>2, <3>3
  <2>11. {k} \in SUBSET Keys
    BY <2>2
  <2> QED BY <1>0, <1>2, <2>5, <2>6, <2>7, <2>10, <2>11, Listening
<1> QED BY <1>4, <1>5 DEF Subscribe

LEMMA UnsubscribeStep ==
  ASSUME BusInv, BusInv', NEW s \in Subs, Unsubscribe(s)
  PROVE  D!Next \/ UNCHANGED D!vars
<1>0. Types /\ Types'
  BY DEF BusInv
<1>1. CASE CloseChannel(s)
  <2>1. /\ s \in cancelled /\ spc[s] = "on" /\ spc' = [spc EXCEPT ![s] = "closed"]
        /\ UNCHANGED <<ctxDone, log, busy, todo, at, globalSubs, keySubs, place, cancelled, hand, fwd, got>>
    BY <1>1 DEF CloseChannel, workVars, tableVars
  <2>2. spc'[s] = "closed" /\ \A t \in Subs : t # s => spc'[t] = spc[t] /\ Way(t)' = Way(t)
    BY <1>0, <2>1 DEF Types, Way
  <2>3. SameRest
    BY <2>1 DEF SameRest
  <2>4. \A t \in Subs : t # s => Row(t)' = Row(t)
    BY <2>1, <2>2 DEF Row
  <2>5. Shorter(Row(s)', Row(s))
    <3>1. hand[s] \in Nat /\ busy[1] \in Nat /\ (~fwd[s] => hand[s] = 0)
      BY OneWorker DEF BusInv, Types, Hands
    <3> QED BY <2>1, <2>2, <3>1 DEF Row, Line, Shorter
  <2>6. \A t \in Subs : Shorter(Row(t)', Row(t)) /\ (Row(t)' = Row(t) \/ t \in cancelled \/ ctxDone)
    BY <2>1, <2>4, <2>5 DEF Shorter
  <2>7. \A k \in Keys : \A t \in Subs : /\ t \in Hears(k)' => t \in Hears(k)
                                        /\ t \in Hears(k) => t \in Hears(k)' \/ t \in cancelled
    BY <2>1, <2>2 DEF Hears, Listens, Open
  <2> QED BY <1>0, <2>3, <2>6, <2>7, Loses
<1>2. CASE Withdraw(s)
  <2>1. /\ spc[s] = "closed" /\ (spc' = spc \/ spc' = [spc EXCEPT ![s] = "off"])
        /\ UNCHANGED <<ctxDone, log, busy, at, cancelled, hand, fwd, got>>
    BY <1>2 DEF Withdraw
  <2> DEFINE k == SubKeys[s][place[s]]
  <2>2. \/ globalSubs' = globalSubs \ {s} /\ keySubs' = keySubs
        \/ globalSubs' = globalSubs /\ keySubs' = [keySubs EXCEPT ![k] = @ \ {s}]
    BY <1>2 DEF Withdraw
  <2>3. \/ todo' = [w \in Workers |-> todo[w] \ {s}]
        \/ todo' = [w \in Workers |-> IF ~Idle(w) /\ log[busy[w]] = k THEN todo[w] \ {s} ELSE todo[w]]
    BY <1>2 DEF Withdraw
  <2> HIDE DEF k
  <2>4. todo'[1] = todo[1] \/ todo'[1] = todo[1] \ {s}
    BY <2>3, OneWorker
  <2>5. /\ spc'[s] \in {"closed", "off"}
        /\ \A t \in Subs : t # s => spc'[t] = spc[t] /\ Way(t)' = Way(t)
    BY <1>0, <2>1, <2>4 DEF Types, Way
  <2>6. SameRest
    BY <2>1 DEF SameRest
  <2>7. \A t \in Subs : t # s => Row(t)' = Row(t)
    BY <2>1, <2>5 DEF Row
  <2>8. Row(s)' = Row(s)
    BY <2>1, <2>5 DEF Row, Line
  <2>9. SameRows
    BY <2>7, <2>8 DEF SameRows
  <2>10. SameHears
    <3> SUFFICES ASSUME NEW x \in Keys PROVE Hears(x)' = Hears(x)
      BY DEF SameHears
    <3>1. Hears(x) \subseteq Subs /\ Hears(x)' \subseteq Subs
      BY <1>0 DEF Hears, Types
    <3>2. s \notin Hears(x) /\ s \notin Hears(x)'
      BY <2>1, <2>5 DEF Hears, Listens, Open
    <3>3. \A t \in Subs : t # s => (t \in keySubs'[x] \cup globalSubs' <=> t \in keySubs[x] \cup globalSubs)
      <4>1. keySubs \in [Keys -> SUBSET Subs]
        BY <1>0 DEF Types
      <4>2. keySubs'[x] = keySubs[x] \/ keySubs'[x] = keySubs[x] \ {s}
        BY <2>2, <4>1
      <4>3. globalSubs' = globalSubs \/ globalSubs' = globalSubs \ {s}
        BY <2>2
      <4> QED BY <4>2, <4>3
    <3>4. \A t \in Subs : t # s => Listens(t)' = Listens(t)
      BY <2>1, <2>5 DEF Listens, Open
    <3>5. \A t \in Subs : t # s => (t \in Hears(x)' <=> t \in Hears(x))
      BY <3>3, <3>4 DEF Hears
    <3> QED BY <3>1, <3>2, <3>5
  <2> QED BY <1>0, <2>6, <2>9, <2>10, Stutter
<1> QED BY <1>1, <1>2 DEF Unsubscribe

LEMMA ReaderStep ==
  ASSUME BusInv, BusInv', NEW s \in Subs, Reader(s)
  PROVE  D!Next \/ UNCHANGED D!vars
<1>0. Types /\ Types' /\ hand[s] \in Nat /\ busy[1] \in Nat /\ spc[s] \notin {"new", "adding"}
  <2>1. fwd[s]
    BY DEF Reader, Forward, StopForwarding
  <2> QED BY <2>1, OneWorker DEF BusInv, Types, Hands
<1>1. CASE Forward(s)
  <2>1. /\ fwd[s] /\ hand[s] # 0 /\ got' = [got EXCEPT ![s] = Append(@, hand[s])]
        /\ hand' = [hand EXCEPT ![s] = 0]
        /\ UNCHANGED <<ctxDone, log, busy, todo, at, globalSubs, keySubs, spc, place, cancelled, fwd>>
    BY <1>1 DEF Forward, workVars, tableVars
  <2>2. hand'[s] = 0 /\ \A t \in Subs : t # s => hand'[t] = hand[t]
    BY <1>0, <2>1 DEF Types
  <2>3. \A t \in Subs : t # s => Row(t)' = Row(t)
    BY <2>1, <2>2 DEF Row, Way
  <2>4. /\ Row(s) = IF spc[s] = "on" /\ Way(s) THEN <<hand[s], busy[1]>> ELSE <<hand[s]>>
        /\ Row(s)' = IF spc[s] = "on" /\ Way(s) THEN <<busy[1]>> ELSE <<>>
    BY <1>0, <2>1, <2>2 DEF Row, Line, Way
  <2>5. \A x, y : /\ <<x>> # <<>> /\ Head(<<x>>) = x /\ Tail(<<x>>) = <<>>
                  /\ <<x, y>> # <<>> /\ Head(<<x, y>>) = x /\ Tail(<<x, y>>) = <<y>>
    OBVIOUS
  <2>6. Row(s) # <<>> /\ Head(Row(s)) = hand[s] /\ Row(s)' = Tail(Row(s))
    BY <2>4, <2>5
  <2>7. SameHears
    BY <2>1 DEF SameHears, Hears, Listens, Open
  <2> QED BY <1>0, <2>1, <2>3, <2>6, <2>7, Delivers
<1>2. CASE StopForwarding(s)
  <2>1. /\ fwd[s] /\ ((hand[s] # 0 /\ s \in cancelled) \/ (hand[s] = 0 /\ ~Open(s)))
        /\ fwd' = [fwd EXCEPT ![s] = FALSE] /\ hand' = [hand EXCEPT ![s] = 0]
        /\ UNCHANGED <<ctxDone, log, busy, todo, at, globalSubs, keySubs, spc, place, cancelled, got>>
    BY <1>2 DEF StopForwarding, workVars, tableVars
  <2>2. /\ hand'[s] = 0 /\ ~fwd'[s]
        /\ \A t \in Subs : t # s => hand'[t] = hand[t] /\ fwd'[t] = fwd[t]
    BY <1>0, <2>1 DEF Types
  <2>3. \A t \in Subs : t # s => Row(t)' = Row(t)
    BY <2>1, <2>2 DEF Row, Way
  <2>4. SameRest
    BY <2>1 DEF SameRest
  <2>5. Row(s)' = <<>>
    BY <1>0, <2>1, <2>2 DEF Row, Line, Types
  <2>6. Row(s) = <<>> \/ s \in cancelled
    BY <2>1 DEF Row, Line, Open
  <2>7. \A t \in Subs : Shorter(Row(t)', Row(t)) /\ (Row(t)' = Row(t) \/ t \in cancelled \/ ctxDone)
    BY <2>3, <2>5, <2>6 DEF Shorter
  <2>8. \A k \in Keys : \A t \in Subs : /\ t \in Hears(k)' => t \in Hears(k)
                                        /\ t \in Hears(k) => t \in Hears(k)' \/ t \in cancelled
    BY <1>0, <2>1, <2>2 DEF Hears, Listens, Open
  <2> QED BY <1>0, <2>4, <2>7, <2>8, Loses
<1> QED BY <1>1, <1>2 DEF Reader

LEMMA InitStep == Init => D!Init
<1> SUFFICES ASSUME Init PROVE D!Init
  OBVIOUS
<1>1. /\ spc = [s \in Subs |-> "new"] /\ hand = [s \in Subs |-> 0] /\ got = [s \in Subs |-> <<>>]
      /\ log = <<>> /\ cancelled = {} /\ ctxDone = FALSE
  BY DEF Init
<1>2. \A s \in Subs : Row(s) = <<>> /\ ~Listens(s)
  BY <1>1 DEF Row, Line, Listens, Open
<1>3. Types
  BY BusInit DEF BusInv
<1>4. \A s \in Subs : Queue(s) = <<>>
  BY <1>2, <1>3, RowIs
<1>5. \A k \in Keys : {s \in keySubs[k] \cup globalSubs : Listens(s)} = {}
  BY <1>2, <1>3 DEF Types
<1> QED BY <1>1, <1>4, <1>5 DEF D!Init

LEMMA NextStep == BusInv /\ BusInv' /\ [Next]_vars => [D!Next]_(D!vars)
<1> SUFFICES ASSUME BusInv, BusInv', [Next]_vars PROVE D!Next \/ UNCHANGED D!vars
  OBVIOUS
<1>0. Types /\ Types'
  BY DEF BusInv
<1>1. ASSUME NEW p \in Publishers, Publish(p) \/ GiveUp(p) PROVE UNCHANGED D!vars
  <2>1. UNCHANGED <<ctxDone, log, busy, todo, at, globalSubs, keySubs, spc, place, cancelled, hand, fwd, got>>
    BY <1>1 DEF Publish, GiveUp, workVars, tableVars, subVars
  <2>2. SameRest /\ SameHears /\ SameRows
    BY <2>1 DEF SameRest, SameHears, SameRows, Row, Way, Hears, Listens, Open
  <2> QED BY <1>0, <2>2, Stutter
<1>2. ASSUME NEW s \in Subs, CancelSub(s) PROVE D!Next
  <2>1. /\ cancelled' = cancelled \cup {s}
        /\ UNCHANGED <<ctxDone, log, busy, todo, at, globalSubs, keySubs, spc, place, hand, fwd, got>>
    BY <1>2 DEF CancelSub, workVars, tableVars
  <2>2. SameHears /\ SameRows
    BY <2>1 DEF SameHears, SameRows, Row, Way, Hears, Listens, Open
  <2>3. [k \in Keys |-> {t \in keySubs[k] \cup globalSubs : Listens(t)}]'
          = [k \in Keys |-> {t \in keySubs[k] \cup globalSubs : Listens(t)}]
    BY <2>2 DEF SameHears, Hears
  <2>4. [t \in Subs |-> Queue(t)]' = [t \in Subs |-> Queue(t)]
    BY <1>0, <2>2, RowIs, RowNext DEF SameRows
  <2>5. D!Finish(s)
    BY <2>1, <2>3, <2>4 DEF D!Finish
  <2> QED BY <2>5 DEF D!Next
<1>3. CASE Cancel
  <2>1. /\ ctxDone' = TRUE /\ cancelled' \in SUBSET Subs /\ cancelled \subseteq cancelled'
        /\ UNCHANGED <<log, busy, todo, at, globalSubs, keySubs, spc, place, hand, fwd, got>>
    BY <1>0, <1>3 DEF Cancel, workVars, tableVars, Types
  <2>2. SameHears /\ SameRows
    BY <2>1 DEF SameHears, SameRows, Row, Way, Hears, Listens, Open
  <2>3. [k \in Keys |-> {t \in keySubs[k] \cup globalSubs : Listens(t)}]'
          = [k \in Keys |-> {t \in keySubs[k] \cup globalSubs : Listens(t)}]
    BY <2>2 DEF SameHears, Hears
  <2>4. [t \in Subs |-> Queue(t)]' = [t \in Subs |-> Queue(t)]
    BY <1>0, <2>2, RowIs, RowNext DEF SameRows
  <2>5. D!Stop
    BY <2>1, <2>3, <2>4 DEF D!Stop
  <2> QED BY <2>5 DEF D!Next
<1>4. CASE UNCHANGED vars
  <2>1. UNCHANGED <<ctxDone, log, busy, todo, at, globalSubs, keySubs, spc, place, cancelled, hand, fwd, got>>
    BY <1>4 DEF vars, workVars, tableVars, subVars
  <2>2. SameRest /\ SameHears /\ SameRows
    BY <2>1 DEF SameRest, SameHears, SameRows, Row, Way, Hears, Listens, Open
  <2> QED BY <1>0, <2>2, Stutter
<1> QED BY <1>1, <1>2, <1>3, <1>4, WorkerStep, SubscribeStep, UnsubscribeStep, ReaderStep DEF Next

\* The bus keeps what it promises its subscribers, for any number of them: one order of all
\* messages, in which every subscriber gets those of its keys, each once and none left out, until
\* its context is cancelled (bus.go: worker, process, Subscribe and CreateMessageSubscriber).
THEOREM BusImplementsDelivery == Spec => ImplementsDelivery
<1>1. Init => D!Init
  BY InitStep
<1>2. BusInv /\ BusInv' /\ [Next]_vars => [D!Next]_(D!vars)
  BY NextStep
<1> QED BY <1>1, <1>2, BusInvAlways, PTL DEF Spec, ImplementsDelivery, D!Spec
=============================================================================
