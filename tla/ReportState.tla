----------------------------- MODULE ReportState -----------------------------
(***************************************************************************)
(* The report of an output device (hidapi/state.go, ApplyEvent) with its   *)
(* two kinds of usage sets (hidapi/usage_set.go): flags, one bit for each  *)
(* usage, and a selector, an array of slots that hold the usages that are  *)
(* on.  Several sources (keys and actions of several devices) may hold the *)
(* same usage at a time.  The fields are changed in place, so that another *)
(* goroutine may read the report (GetReport) in the middle of an event.    *)
(***************************************************************************)
EXTENDS Naturals, FiniteSets

CONSTANTS Sources, Flags, Keys,   \* usages of the flags and of the selector
          N,                      \* slots of the selector
          NoUsage                 \* the content of a slot that is not in use

Usages == Flags \cup Keys

ASSUME ReportAssumption ==
  /\ IsFiniteSet(Sources)
  /\ Flags \cap Keys = {} /\ NoUsage \notin Usages
  /\ N \in Nat \ {0}

VARIABLES
  held,          \* the usages each source holds, as far as they were applied
  src, on, off,  \* the event: its source, what it has still to activate, deactivate
  count,         \* usageActivations
  bits, slots,   \* the fields: usages whose flag is set, content of the array
  lost           \* ghost: usages that found the array full

vars == <<held, src, on, off, count, bits, slots, lost>>

Slots == 1..N
Empty == [i \in Slots |-> NoUsage]

Init ==
  /\ held = [s \in Sources |-> {}]
  /\ src \in Sources /\ on = {} /\ off = {}
  /\ count = [u \in Usages |-> 0]
  /\ bits = {} /\ slots = Empty /\ lost = {}

-----------------------------------------------------------------------------
(* The selector, over slots of 8 bits (16 bits: WideSelector).  Its loops stop *)
(* at the first slot that is not in use.                                       *)

\* Mutant: a full array drops its last usage.
BugSetUsage(a, u) ==
  [i \in Slots |-> IF (a[i] = NoUsage \/ i = N) /\ \A j \in 1..(i - 1) : a[j] \notin {NoUsage, u}
                   THEN u ELSE a[i]]

SetUsage(a, u) ==
  [i \in Slots |-> IF a[i] = NoUsage /\ \A j \in 1..(i - 1) : a[j] \notin {NoUsage, u}
                   THEN u ELSE a[i]]

\* What follows the usage moves up by one slot.
ClearUsage(a, u) ==
  [i \in Slots |->
     IF (\A j \in 1..i : a[j] # NoUsage) /\ (\E j \in 1..i : a[j] = u)
     THEN IF i < N THEN a[i + 1] ELSE NoUsage
     ELSE a[i]]

Content(a) == {a[i] : i \in Slots} \ {NoUsage}

-----------------------------------------------------------------------------
(* ApplyEvent.  An event has one entry for a usage, in no particular order; *)
(* once all are applied the report is encoded and sent.                     *)

Begin(s, D, U) ==
  /\ on = {} /\ off = {} /\ D \cup U # {}
  /\ D \subseteq Usages \ held[s] /\ U \subseteq held[s]
  /\ src' = s /\ on' = D /\ off' = U
  /\ UNCHANGED <<held, count, bits, slots, lost>>

\* Mutant: a usage of the selector is looked up among the flags too.
BugFlagged(u) == bits \cup {u}

Flagged(u) == IF u \in Flags THEN bits \cup {u} ELSE bits

\* The first activation sets the flag, or takes a slot.
Activate(u) ==
  /\ u \in on
  /\ on' = on \ {u}
  /\ held' = [held EXCEPT ![src] = @ \cup {u}]
  /\ count' = [count EXCEPT ![u] = @ + 1]
  /\ IF count[u] + 1 = 1
       THEN /\ bits' = Flagged(u)
            /\ slots' = IF u \in Keys THEN SetUsage(slots, u) ELSE slots
            /\ lost' = IF u \in Keys /\ u \notin Content(slots') THEN lost \cup {u} ELSE lost
       ELSE UNCHANGED <<bits, slots, lost>>
  /\ UNCHANGED <<src, off>>

\* Mutant: the first release clears the usage.
BugIsLast(u) == TRUE

IsLast(u) == count[u] <= 1

\* The last deactivation clears it.
Deactivate(u) ==
  /\ u \in off
  /\ off' = off \ {u}
  /\ held' = [held EXCEPT ![src] = @ \ {u}]
  /\ IF IsLast(u)
       THEN /\ count' = [count EXCEPT ![u] = 0]
            /\ bits' = bits \ {u}
            /\ slots' = IF u \in Keys THEN ClearUsage(slots, u) ELSE slots
            /\ lost' = lost \ {u}
       ELSE count' = [count EXCEPT ![u] = @ - 1] /\ UNCHANGED <<bits, slots, lost>>
  /\ UNCHANGED <<src, on>>

Next ==
  \/ \E s \in Sources : \E D, U \in SUBSET Usages : Begin(s, D, U)
  \/ \E u \in Usages : Activate(u) \/ Deactivate(u)

Spec == Init /\ [][Next]_vars

-----------------------------------------------------------------------------
(* Properties.                                                              *)

TypeOK ==
  /\ held \in [Sources -> SUBSET Usages]
  /\ src \in Sources /\ on \subseteq Usages /\ off \subseteq Usages
  /\ count \in [Usages -> Nat]
  /\ bits \subseteq Flags /\ slots \in [Slots -> Keys \cup {NoUsage}] /\ lost \subseteq Keys

Holders(u) == {s \in Sources : u \in held[s]}

\* The counter of a usage is the number of sources that hold it, so a usage that
\* two sources hold is not released with the first of them (state.go:292-314).
CountsHolders == \A u \in Usages : count[u] = Cardinality(Holders(u))

\* In the array the slots in use come first and no usage is there twice: the
\* loops of SetUsage and ClearUsage, which stop at the first zero, rely on it
\* (usage_set.go:280-326).
IsPacked(a) ==
  /\ \A i, j \in Slots : i < j /\ a[j] # NoUsage => a[i] # NoUsage
  /\ \A i, j \in Slots : a[i] = a[j] /\ a[i] # NoUsage => i = j
Packed == IsPacked(slots)

\* The host sees as pressed the usages that some source holds, also in the middle
\* of an event, except those that were activated when the array was full: these
\* stay out until all their sources release them, even if a slot becomes free.
ReportedIffHeld ==
  bits \cup Content(slots) = {u \in Usages : \E s \in Sources : u \in held[s]} \ lost
=============================================================================
