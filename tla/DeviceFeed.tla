----------------------------- MODULE DeviceFeed -----------------------------
(***************************************************************************)
(* What the HID service promises its nodes about devices (the tables       *)
(* connectedInputs and connectedOutputs and the two buses of               *)
(* internal/hidsvc/hid_service.go): one goroutine changes the table, then  *)
(* announces what it did, and does nothing else until somebody took the    *)
(* announcement over.  A device may be announced as gone that never came.  *)
(***************************************************************************)

CONSTANT Addrs

VARIABLES connected,    \* the table
          pending,      \* <<address, is it connected>> on its way to the bus, or None
          last          \* the last announcement about each address

None == <<>>

vars == <<connected, pending, last>>

Init == connected = {} /\ pending = None /\ last = [a \in Addrs |-> FALSE]

Change(a, b) ==
  /\ pending = None
  /\ connected' = IF b THEN connected \cup {a} ELSE connected \ {a}
  /\ pending' = <<a, b>>
  /\ UNCHANGED last

Announce ==
  /\ pending # None
  /\ last' = [last EXCEPT ![pending[1]] = pending[2]]
  /\ pending' = None
  /\ UNCHANGED connected

Next == Announce \/ \E a \in Addrs, b \in BOOLEAN : Change(a, b)

Spec == Init /\ [][Next]_vars

-----------------------------------------------------------------------------

\* What is announced is what the table says, but for an announcement on its way: a
\* node that subscribes, then asks IsInputConnected, then follows the
\* announcements never has to ask again (node_input.go:177-186).
Faithful ==
  \A a \in Addrs :
    \/ last[a] <=> a \in connected
    \/ pending # None /\ pending[1] = a /\ (pending[2] <=> a \in connected)
=============================================================================
