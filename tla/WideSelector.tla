---------------------------- MODULE WideSelector ----------------------------
(***************************************************************************)
(* The selector of hidapi/usage_set.go over slots of 16 bits, as the       *)
(* arrays of media keys have them, for one source of events.  EachUint16   *)
(* (pkg/bits) hands its callback the offset of a slot in bytes, and        *)
(* SetUint16 takes the number of a slot, so the loops write to another     *)
(* slot than the one they look at, or past the end, which panics.  The     *)
(* 8-bit selector, whose loops write where they look, is in ReportState.   *)
(***************************************************************************)
EXTENDS Naturals, FiniteSets, SequencesExt

CONSTANTS Keys,    \* usages of the selector
          N,       \* the number of its slots
          NoUsage  \* the content of a slot that is not in use, not one of Keys

VARIABLES held,    \* the usages that are activated
          slots,   \* the array
          panic

vars == <<held, slots, panic>>

Slots == 1..N

Init ==
  /\ held = {} /\ slots = [i \in Slots |-> NoUsage] /\ panic = FALSE

-----------------------------------------------------------------------------
(* A callback's state: the array, as earlier calls left it, and what the    *)
(* loop has come to.                                                        *)

\* The loop is at slot i, at the offset of 2(i-1) bytes, which SetUint16 takes for
\* the number of a slot.
Written(i) == 2 * (i - 1) + 1

SetAt(st, j, u) == IF j \in Slots THEN [st EXCEPT !.a[j] = u] ELSE [st EXCEPT !.at = "panic"]

Loop(Callback(_, _), a) ==
  FoldLeft(LAMBDA st, i : IF st.at \in {"stop", "panic"} THEN st ELSE Callback(st, i),
           [a |-> a, at |-> "search"], [i \in Slots |-> i])

Stop(st) == IF st.at = "panic" THEN st ELSE [st EXCEPT !.at = "stop"]

SetUsage(a, u) ==
  LET Callback(st, i) == CASE st.a[i] = u       -> Stop(st)
                           [] st.a[i] = NoUsage -> Stop(SetAt(st, Written(i), u))
                           [] OTHER             -> st
  IN Loop(Callback, a)

\* Once the usage is cleared, each slot in use is moved up by what the code takes
\* for one slot: SetUint16(i-1, val), SetUint16(i, 0).
MoveUp(st, i) ==
  LET moved == SetAt(st, Written(i) - 1, st.a[i])
  IN IF moved.at = "panic" THEN moved ELSE SetAt(moved, Written(i), NoUsage)

Cleared(st) == IF st.at = "panic" THEN st ELSE [st EXCEPT !.at = "move"]

ClearUsage(a, u) ==
  LET Callback(st, i) == CASE st.a[i] = NoUsage -> Stop(st)
                           [] st.a[i] # NoUsage /\ st.at = "move" -> MoveUp(st, i)
                           [] st.a[i] = u /\ st.at = "search" ->
                                Cleared(SetAt(st, Written(i), NoUsage))
                           [] OTHER -> st
  IN Loop(Callback, a)

-----------------------------------------------------------------------------
Apply(st) == slots' = st.a /\ panic' = (st.at = "panic")

Activate(u) ==
  /\ u \notin held
  /\ held' = held \cup {u}
  /\ Apply(SetUsage(slots, u))

Deactivate(u) ==
  /\ u \in held
  /\ held' = held \ {u}
  /\ Apply(ClearUsage(slots, u))

Next == ~panic /\ \E u \in Keys : Activate(u) \/ Deactivate(u)

Spec == Init /\ [][Next]_vars

-----------------------------------------------------------------------------
\* "Run starts the agent and blocks until the context is cancelled"
\* (pkg/agent/agent.go:93): no event makes the process panic.  ApplyEvent is called
\* in goroutines of their own (node_output.go:238, node_input.go:146), which do
\* not recover.
NoPanic == ~panic
=============================================================================
