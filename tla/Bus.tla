--------------------------------- MODULE Bus ---------------------------------
(***************************************************************************)
(* The event bus (pkg/bus/bus.go).  Publishers, one worker (concurrency    *)
(* is 1), and for each subscriber a goroutine that undoes the subscription *)
(* when its context is cancelled and one that forwards messages to the     *)
(* reader (CreateMessageSubscriber; a reader of Subscribe plays that part  *)
(* itself).  The channels are unbuffered.  A message is known by its place *)
(* in the order in which the worker accepted them.                         *)
(***************************************************************************)
EXTENDS Naturals, FiniteSets, Sequences, SequencesExt

CONSTANTS Publishers,
          Keys,
          PubKey,       \* the key of each publisher
          Subs,         \* subscriptions, each made once
          SubKeys,      \* the keys of each, in order; <<>> subscribes to all
          MaxMessages   \* bound: messages accepted

None == "none"

ASSUME BusAssumption ==
  /\ PubKey \in [Publishers -> Keys]
  /\ DOMAIN SubKeys = Subs
  /\ \A s \in Subs : SubKeys[s] \in Seq(Keys) /\ IsInjective(SubKeys[s])
  /\ None \notin Subs /\ MaxMessages \in Nat

VARIABLES
  ctxDone, panic,       \* the bus's context; has a goroutine panicked?
  ppc,                  \* publishers that wait in Publish
  log,                  \* the key of each message accepted by the worker
  busy,                 \* workers: the message of each, 0 if none,
  todo, at,             \*   subscribers still to be visited, the one it sends to
  globalSubs, keySubs,  \* the tables
  spc, place,           \* Subscribe and its goroutine; the index in SubKeys
  cancelled,            \* the subscriber's context
  hand, fwd,            \* the forwarder: the message it holds; is it ranging?
  got                   \* what the reader got

tableVars == <<globalSubs, keySubs>>
workVars  == <<busy, todo, at>>
subVars   == <<spc, place, cancelled, hand, fwd, got>>
vars == <<ctxDone, panic, ppc, log, workVars, tableVars, subVars>>

\* Mutant: two workers.
BugConcurrency == 2

concurrency == 1

Workers == 1..concurrency

Init ==
  /\ ctxDone = FALSE /\ panic = FALSE /\ ppc = {} /\ log = <<>>
  /\ busy = [w \in Workers |-> 0] /\ todo = [w \in Workers |-> {}]
  /\ at = [w \in Workers |-> None]
  /\ globalSubs = {} /\ keySubs = [k \in Keys |-> {}]
  /\ spc = [s \in Subs |-> "new"] /\ place = [s \in Subs |-> 1]
  /\ cancelled = {}
  /\ hand = [s \in Subs |-> 0] /\ fwd = [s \in Subs |-> FALSE]
  /\ got = [s \in Subs |-> <<>>]

-----------------------------------------------------------------------------
(* Publish: a send to the worker, or the end of the caller's context (the   *)
(* flow's streams give it 100 microseconds).                                *)

Publish(p) ==
  /\ p \notin ppc /\ Len(log) < MaxMessages
  /\ ppc' = ppc \cup {p}
  /\ UNCHANGED <<ctxDone, panic, log, workVars, tableVars, subVars>>

GiveUp(p) ==
  /\ p \in ppc
  /\ ppc' = ppc \ {p}
  /\ UNCHANGED <<ctxDone, panic, log, workVars, tableVars, subVars>>

-----------------------------------------------------------------------------
(* The worker.                                                              *)

Idle(w) == todo[w] = {} /\ at[w] = None

Accept(w, p) ==
  /\ p \in ppc /\ Idle(w) /\ Len(log) < MaxMessages
  /\ ppc' = ppc \ {p}
  /\ log' = Append(log, PubKey[p])
  /\ busy' = [busy EXCEPT ![w] = Len(log')]
  /\ todo' = [todo EXCEPT ![w] = globalSubs \cup keySubs[PubKey[p]]]
  /\ UNCHANGED <<ctxDone, panic, at, tableVars, subVars>>

\* The subscribers to all keys come first, each table is in no order.
Visit(w) ==
  /\ at[w] = None
  /\ \E s \in todo[w] :
       /\ globalSubs \cap todo[w] # {} => s \in globalSubs
       /\ at' = [at EXCEPT ![w] = s]
       /\ todo' = [todo EXCEPT ![w] = @ \ {s}]
  /\ UNCHANGED <<ctxDone, panic, ppc, log, busy, tableVars, subVars>>

Open(s) == spc[s] \in {"adding", "on"}

\* Mutant: process returns after the first subscriber.
BugAfterSend(w) == [todo EXCEPT ![w] = {}]

AfterSend(w) == todo

Send(w) ==
  LET s == at[w] IN
  /\ s # None /\ Open(s)
  /\ fwd[s] /\ hand[s] = 0
  /\ hand' = [hand EXCEPT ![s] = busy[w]]
  /\ at' = [at EXCEPT ![w] = None]
  /\ todo' = AfterSend(w)
  /\ UNCHANGED <<ctxDone, panic, ppc, log, busy, tableVars, spc, place, cancelled, fwd, got>>

\* A send on a channel that is closed, before or while the worker waits.
SendOnClosed(w) ==
  /\ at[w] # None /\ ~Open(at[w])
  /\ panic' = TRUE
  /\ UNCHANGED <<ctxDone, ppc, log, workVars, tableVars, subVars>>

Abandon(w) ==
  /\ ctxDone /\ at[w] # None
  /\ todo' = [todo EXCEPT ![w] = {}] /\ at' = [at EXCEPT ![w] = None]
  /\ UNCHANGED <<ctxDone, panic, ppc, log, busy, tableVars, subVars>>

-----------------------------------------------------------------------------
(* Subscribe, called once per subscription.                                 *)

\* Whether a range over the table that is under way visits a new entry is open.
AddToRanges(s, keys) ==
  \E W \in SUBSET {w \in Workers : ~Idle(w) /\ log[busy[w]] \in keys} :
    todo' = [w \in Workers |-> IF w \in W THEN todo[w] \cup {s} ELSE todo[w]]

AddGlobal(s) ==
  /\ SubKeys[s] = <<>> /\ spc[s] = "new"
  /\ globalSubs' = globalSubs \cup {s}
  /\ AddToRanges(s, Keys)
  /\ spc' = [spc EXCEPT ![s] = "on"] /\ fwd' = [fwd EXCEPT ![s] = TRUE]
  /\ UNCHANGED <<keySubs, place>>

LastKey(s) == place[s] = Len(SubKeys[s])

AddKey(s) ==
  LET k == SubKeys[s][place[s]] IN
  /\ SubKeys[s] # <<>> /\ spc[s] \in {"new", "adding"}
  /\ keySubs' = [keySubs EXCEPT ![k] = @ \cup {s}]
  /\ AddToRanges(s, {k})
  /\ IF LastKey(s)
       THEN /\ spc' = [spc EXCEPT ![s] = "on"] /\ fwd' = [fwd EXCEPT ![s] = TRUE]
            /\ place' = [place EXCEPT ![s] = 1]
       ELSE /\ spc' = [spc EXCEPT ![s] = "adding"] /\ UNCHANGED fwd
            /\ place' = [place EXCEPT ![s] = @ + 1]
  /\ UNCHANGED globalSubs

Subscribe(s) ==
  /\ AddGlobal(s) \/ AddKey(s)
  /\ UNCHANGED <<ctxDone, panic, ppc, log, busy, at, cancelled, hand, got>>

CancelSub(s) ==
  /\ spc[s] # "new" /\ s \notin cancelled
  /\ cancelled' = cancelled \cup {s}
  /\ UNCHANGED <<ctxDone, panic, ppc, log, workVars, tableVars, spc, place, hand, fwd, got>>

\* The goroutine of a subscription: the channel is closed ...
CloseChannel(s) ==
  /\ s \in cancelled /\ spc[s] = "on"
  /\ spc' = [spc EXCEPT ![s] = "closed"]
  /\ UNCHANGED <<ctxDone, panic, ppc, log, workVars, tableVars, place, cancelled, hand, fwd,
                 got>>

\* ... and then taken from the tables, one key at a time; a range that has not
\* come to the entry does not visit it any more.
Withdraw(s) ==
  /\ spc[s] = "closed"
  /\ IF SubKeys[s] = <<>>
       THEN /\ globalSubs' = globalSubs \ {s} /\ todo' = [w \in Workers |-> todo[w] \ {s}]
            /\ spc' = [spc EXCEPT ![s] = "off"]
            /\ UNCHANGED <<keySubs, place>>
       ELSE LET k == SubKeys[s][place[s]] IN
            /\ keySubs' = [keySubs EXCEPT ![k] = @ \ {s}]
            /\ todo' = [w \in Workers |->
                 IF ~Idle(w) /\ log[busy[w]] = k THEN todo[w] \ {s} ELSE todo[w]]
            /\ IF LastKey(s)
                 THEN spc' = [spc EXCEPT ![s] = "off"] /\ UNCHANGED place
                 ELSE place' = [place EXCEPT ![s] = @ + 1] /\ UNCHANGED spc
            /\ UNCHANGED globalSubs
  /\ UNCHANGED <<ctxDone, panic, ppc, log, busy, at, cancelled, hand, fwd, got>>

-----------------------------------------------------------------------------
(* The forwarder of CreateMessageSubscriber and its reader.                 *)

Forward(s) ==
  /\ fwd[s] /\ hand[s] # 0
  /\ got' = [got EXCEPT ![s] = Append(@, hand[s])]
  /\ hand' = [hand EXCEPT ![s] = 0]
  /\ UNCHANGED <<ctxDone, panic, ppc, log, workVars, tableVars, spc, place, cancelled, fwd>>

StopForwarding(s) ==
  /\ fwd[s]
  /\ (hand[s] # 0 /\ s \in cancelled) \/ (hand[s] = 0 /\ ~Open(s))
  /\ fwd' = [fwd EXCEPT ![s] = FALSE] /\ hand' = [hand EXCEPT ![s] = 0]
  /\ UNCHANGED <<ctxDone, panic, ppc, log, workVars, tableVars, spc, place, cancelled, got>>

-----------------------------------------------------------------------------
\* The context of the bus contains those of the subscribers.
Cancel ==
  /\ ~ctxDone
  /\ ctxDone' = TRUE
  /\ cancelled' = {s \in Subs : spc[s] # "new"} \cup cancelled
  /\ UNCHANGED <<panic, ppc, log, workVars, tableVars, spc, place, hand, fwd, got>>

Worker(w) ==
  \/ \E p \in Publishers : Accept(w, p)
  \/ Visit(w) \/ Send(w) \/ SendOnClosed(w) \/ Abandon(w)

Unsubscribe(s) == CloseChannel(s) \/ Withdraw(s)
Reader(s) == Forward(s) \/ StopForwarding(s)

Next ==
  /\ ~panic
  /\ \/ \E p \in Publishers : Publish(p) \/ GiveUp(p)
     \/ \E w \in Workers : Worker(w)
     \/ \E s \in Subs : Subscribe(s) \/ CancelSub(s) \/ Unsubscribe(s) \/ Reader(s)
     \/ Cancel

Spec == Init /\ [][Next]_vars

\* Goroutines that can run do, every reader goes on reading, and a call of Subscribe
\* that was begun comes to its end.
FairSpec ==
  /\ Spec
  /\ \A w \in Workers : WF_vars(~panic /\ Worker(w))
  /\ \A s \in Subs : /\ WF_vars(~panic /\ Reader(s)) /\ WF_vars(~panic /\ Unsubscribe(s))
                     /\ WF_vars(~panic /\ spc[s] = "adding" /\ Subscribe(s))

-----------------------------------------------------------------------------
(* Properties.                                                              *)

TypeOK ==
  /\ ppc \subseteq Publishers /\ log \in Seq(Keys)
  /\ \A w \in Workers : /\ busy[w] \in 0..Len(log)
                        /\ todo[w] \subseteq Subs /\ at[w] \in Subs \cup {None}
  /\ globalSubs \subseteq Subs /\ \A k \in Keys : keySubs[k] \subseteq Subs
  /\ spc \in [Subs -> {"new", "adding", "on", "closed", "off"}]
  /\ \A s \in Subs : SubKeys[s] # <<>> => place[s] \in DOMAIN SubKeys[s]
  /\ \A s \in Subs : hand[s] \in 0..Len(log) /\ got[s] \in Seq(1..Len(log))

Listens(s) == Open(s) /\ (spc[s] = "on" => fwd[s])

InOrder(S) ==
  CHOOSE q \in [1..Cardinality(S) -> S] : \A i, j \in DOMAIN q : i < j => q[i] < q[j]

\* The messages on their way to s: the forwarder's and then the worker's.
Waiting(s) == {busy[w] : w \in {v \in Workers : s \in todo[v] \/ at[v] = s}}
Queue(s) ==
  IF spc[s] = "on" /\ ~fwd[s] THEN <<>>
  ELSE (IF hand[s] = 0 THEN <<>> ELSE <<hand[s]>>)
       \o (IF Open(s) THEN InOrder(Waiting(s)) ELSE <<>>)

D == INSTANCE Delivery WITH
       on <- [k \in Keys |-> {s \in keySubs[k] \cup globalSubs : Listens(s)}],
       queue <- [s \in Subs |-> Queue(s)],
       over <- cancelled,
       stopped <- ctxDone

\* Every subscriber gets the messages of its keys in the one order in which the
\* bus accepted them, each once and none left out, from the time it listens until
\* its context is cancelled.  The bus owes this to its single worker (bus.go:53).
ImplementsDelivery == D!Spec

\* While all readers read, an accepted message reaches each of its subscribers,
\* however slow the others are: process has no timeout and no default case
\* (bus.go:163-169).
Delivered ==
  \A s \in Subs : \A i \in 1..MaxMessages :
    (i \in ToSet(Queue(s))) ~> (i \in ToSet(got[s]) \/ s \in cancelled \/ ctxDone \/ panic)

\* "Run starts the agent and blocks until the context is cancelled"
\* (pkg/agent/agent.go:93): no goroutine of the bus panics before that.
NoPanic == ctxDone \/ ~panic
=============================================================================
