------------------------------ MODULE Delivery ------------------------------
(***************************************************************************)
(* What the bus promises its subscribers: one log of messages for the      *)
(* whole bus, and one queue per subscriber.  A message enters the queues   *)
(* of all who listen to its key at once, and leaves a queue at its head.   *)
(* One who starts to listen may or may not get the message that is being   *)
(* delivered then; one whose context is cancelled, or everybody once the   *)
(* bus is stopped, loses messages from the end of the queue only.          *)
(***************************************************************************)
EXTENDS Naturals, Sequences, SequencesExt

CONSTANTS Keys, Subs

VARIABLES log,        \* the key of each message that was accepted
          on,         \* the subscribers that listen to each key
          queue,      \* indices in log that a subscriber has still to get
          got,        \* those it got
          over,       \* subscribers whose context is cancelled
          stopped     \* the bus's context is cancelled

vars == <<log, on, queue, got, over, stopped>>

Init ==
  /\ log = <<>> /\ on = [k \in Keys |-> {}]
  /\ queue = [s \in Subs |-> <<>>] /\ got = [s \in Subs |-> <<>>]
  /\ over = {} /\ stopped = FALSE

Publish(k) ==
  /\ log' = Append(log, k)
  /\ queue' = [s \in Subs |-> IF s \in on[k] THEN Append(queue[s], Len(log')) ELSE queue[s]]
  /\ UNCHANGED <<on, got, over, stopped>>

Listen(s, K) ==
  /\ \A k \in K : s \notin on[k]
  /\ on' = [k \in Keys |-> IF k \in K THEN on[k] \cup {s} ELSE on[k]]
  /\ \/ UNCHANGED queue
     \/ /\ log # <<>> /\ Last(log) \in K
        /\ queue' = [queue EXCEPT ![s] = Append(@, Len(log))]
  /\ UNCHANGED <<log, got, over, stopped>>

Deliver(s) ==
  /\ queue[s] # <<>>
  /\ got' = [got EXCEPT ![s] = Append(@, Head(queue[s]))]
  /\ queue' = [queue EXCEPT ![s] = Tail(@)]
  /\ UNCHANGED <<log, on, over, stopped>>

Finish(s) == over' = over \cup {s} /\ UNCHANGED <<log, on, queue, got, stopped>>
Stop == stopped' = TRUE /\ over' \in SUBSET Subs /\ over \subseteq over' /\ UNCHANGED <<log, on, queue, got>>

Lose ==
  /\ \A s \in Subs : /\ IsPrefix(queue'[s], queue[s])
                     /\ (s \notin over /\ ~stopped) => queue'[s] = queue[s]
  /\ \A k \in Keys : on'[k] \subseteq on[k] /\ on[k] \ on'[k] \subseteq over
  /\ UNCHANGED <<log, got, over, stopped>>

Next ==
  \/ \E k \in Keys : Publish(k)
  \/ \E s \in Subs : Deliver(s) \/ Finish(s) \/ \E K \in SUBSET Keys : Listen(s, K)
  \/ Stop \/ Lose

Spec == Init /\ [][Next]_vars
=============================================================================
