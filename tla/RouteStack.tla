----------------------------- MODULE RouteStack -----------------------------
(***************************************************************************)
(* What the mux node promises the user about its "switch" action           *)
(* (components/nodes/mux.go:25-48): switching is a stack.  The route is    *)
(* the one of the most recently activated switch that is still active, and *)
(* the default route when there is none; a reset forgets every activation. *)
(***************************************************************************)
EXTENDS Sequences, SequencesExt

CONSTANTS Switches, Routes, DefaultRoute,
          RouteOf        \* the route argument of each switch action

VARIABLES active,        \* the active switches, oldest activation first
          route          \* where events go

stackVars == <<active, route>>

TopOf(stack) == IF stack = <<>> THEN DefaultRoute ELSE RouteOf[Last(stack)]

StackInit == active = <<>> /\ route = DefaultRoute

Activate(s) ==
  /\ ~Contains(active, s)
  /\ active' = Append(active, s)
  /\ route' = RouteOf[s]

Deactivate(s) ==
  /\ \E i \in 1..Len(active) : active[i] = s /\ active' = RemoveAt(active, i)
  /\ route' = TopOf(active')

Forget ==
  /\ active' = <<>>
  /\ route' = DefaultRoute

StackNext == (\E s \in Switches : Activate(s) \/ Deactivate(s)) \/ Forget

StackSpec == StackInit /\ [][StackNext]_stackVars
=============================================================================
