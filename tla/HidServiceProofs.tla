--------------------------- MODULE HidServiceProofs --------------------------
(***************************************************************************)
(* Proofs about HidService for any devices, any section of the             *)
(* configuration and any number of failures: it keeps the promise of       *)
(* DeviceFeed, an input is described before it is connected, its tables    *)
(* agree with the backend's, and the uhid devices are those of the file.   *)
(***************************************************************************)
EXTENDS HidService, TLAPS

-----------------------------------------------------------------------------
(* The promise of DeviceFeed.                                               *)

\* A device is taken up when all that left are handled and nothing is announced; the
\* guard of the step that ends it does not say so again.
OneAtATime ==
  /\ opened # {} => disc = {} /\ pending = None
  /\ conn \cap opened = {}
  /\ \A a, b \in opened : a = b

LEMMA OneAtATimeInit == Init => OneAtATime
BY DEF Init, OneAtATime

LEMMA OneAtATimeNext == OneAtATime /\ [Next]_vars => OneAtATime'
<1> SUFFICES ASSUME OneAtATime, [Next]_vars PROVE OneAtATime'
  OBVIOUS
<1> USE DEF OneAtATime
<1>1. ASSUME UNCHANGED <<disc, conn, opened, pending>> PROVE OneAtATime'
  BY <1>1
<1>2. CASE \E a \in Inputs : Plug(a) \/ Unplug(a)
  BY <1>1, <1>2 DEF Plug, Unplug, feedVars, svcVars
<1>3. CASE Save \/ Backend \/ RefreshHid \/ EnumerateFails
  BY <1>1, <1>3 DEF Save, Backend, ReadConfig, RegisterCallback, RefreshUhid, BackendReady, Retry,
                    RefreshHid, EnumerateFails, feedVars, svcVars
<1>4. CASE TakeEvent \/ OnUhidConfigChange
  BY <1>1, <1>4 DEF TakeEvent, OnUhidConfigChange, feedVars, svcVars
<1>5. CASE PublishBackend \/ PublishWatcher \/ Subscribe
  BY <1>1, <1>5 DEF PublishBackend, PublishWatcher, Accept, Subscribe, feedVars, svcVars
<1>6. CASE ConfigureOutput
  BY <1>1, <1>6 DEF ConfigureOutput, feedVars, svcVars
<1>7. CASE HandleBackendEvent
  BY <1>7 DEF HandleBackendEvent, Idle
<1>8. CASE Announce
  BY <1>8 DEF Announce, svcVars
<1>9. ASSUME NEW a \in Addrs, OnDisconnected(a)
      PROVE  OneAtATime'
  BY <1>9 DEF OnDisconnected
<1>10. ASSUME NEW a \in Addrs, InitializeInput(a) \/ InitializeOutput(a) \/ InitializeFails(a)
       PROVE  OneAtATime'
  BY <1>10 DEF InitializeInput, InitializeOutput, InitializeFails, Connecting, Published, feedVars
<1>11. ASSUME NEW a \in Addrs, OnConnected(a)
       PROVE  OneAtATime'
  BY <1>11 DEF OnConnected
<1>12. CASE UNCHANGED vars
  BY <1>1, <1>12 DEF vars, feedVars, svcVars
<1> QED
  BY <1>2, <1>3, <1>4, <1>5, <1>6, <1>7, <1>8, <1>9, <1>10, <1>11, <1>12 DEF Next, Service

LEMMA FeedInit == Init => Feed!Init
BY DEF Init, Feed!Init, None, Feed!None

\* A step of the service is one of the feed or changes nothing of it.
LEMMA FeedStep == OneAtATime /\ [Next]_vars => [Feed!Next]_(Feed!vars)
<1> SUFFICES ASSUME OneAtATime, [Next]_vars PROVE Feed!Next \/ UNCHANGED feedVars
  BY DEF Feed!vars, feedVars
<1>1. CASE \E a \in Inputs : Plug(a) \/ Unplug(a)
  BY <1>1 DEF Plug, Unplug
<1>2. CASE Save \/ Backend \/ RefreshHid \/ EnumerateFails
  BY <1>2 DEF Save, Backend, ReadConfig, RegisterCallback, RefreshUhid, BackendReady, Retry,
              RefreshHid, EnumerateFails
<1>3. CASE TakeEvent \/ OnUhidConfigChange
  BY <1>3 DEF TakeEvent, OnUhidConfigChange
<1>4. CASE PublishBackend \/ PublishWatcher \/ Subscribe \/ ConfigureOutput \/ HandleBackendEvent
  BY <1>4 DEF PublishBackend, PublishWatcher, Accept, Subscribe, ConfigureOutput, HandleBackendEvent
<1>5. CASE Announce
  BY <1>5 DEF Announce, Feed!Next, Feed!Announce, None, Feed!None
<1>6. ASSUME NEW a \in Addrs, OnDisconnected(a)
      PROVE  Feed!Next
  <2>1. Feed!Change(a, FALSE)
    BY <1>6 DEF OnDisconnected, Published, Feed!Change, None, Feed!None
  <2> QED BY <2>1 DEF Feed!Next
<1>7. ASSUME NEW a \in Addrs, InitializeInput(a) \/ InitializeOutput(a) \/ InitializeFails(a)
      PROVE  UNCHANGED feedVars
  BY <1>7 DEF InitializeInput, InitializeOutput, InitializeFails
<1>8. ASSUME NEW a \in Addrs, OnConnected(a)
      PROVE  Feed!Next
  <2>1. pending = None
    BY <1>8 DEF OnConnected, OneAtATime
  <2>2. Feed!Change(a, TRUE)
    BY <1>8, <2>1 DEF OnConnected, Feed!Change, None, Feed!None
  <2> QED BY <2>2 DEF Feed!Next
<1>9. CASE UNCHANGED vars
  BY <1>9 DEF vars, feedVars
<1> QED
  BY <1>1, <1>2, <1>3, <1>4, <1>5, <1>6, <1>7, <1>8, <1>9 DEF Next, Service

\* The service changes its table, announces what it did, and does nothing to the table
\* until somebody has taken the announcement over.
THEOREM ServiceImplementsFeed == Spec => ImplementsFeed
<1>1. Init => OneAtATime /\ Feed!Init
  BY OneAtATimeInit, FeedInit
<1>2. OneAtATime /\ [Next]_vars => OneAtATime' /\ [Feed!Next]_(Feed!vars)
  BY OneAtATimeNext, FeedStep
<1> QED BY <1>1, <1>2, PTL DEF Spec, ImplementsFeed, Feed!Spec

\* An announcement says what the table says; of the devices it is not about, the last ones did.
Announced ==
  /\ connected \subseteq Addrs /\ last \in [Addrs -> BOOLEAN]
  /\ pending # None => /\ pending \in Addrs \X BOOLEAN
                       /\ pending[2] <=> pending[1] \in connected
  /\ \A a \in Addrs : pending = None \/ pending[1] # a => (last[a] <=> a \in connected)

LEMMA AnnouncedStep == Announced /\ [Feed!Next]_(Feed!vars) => Announced'
<1> SUFFICES ASSUME Announced, [Feed!Next]_(Feed!vars) PROVE Announced'
  OBVIOUS
<1>1. ASSUME NEW a \in Addrs, NEW b \in BOOLEAN, Feed!Change(a, b)
      PROVE  Announced'
  <2>1. /\ pending = None /\ pending' = <<a, b>> /\ last' = last
        /\ connected' = IF b THEN connected \cup {a} ELSE connected \ {a}
    BY <1>1 DEF Feed!Change, None, Feed!None
  <2>2. pending' \in Addrs \X BOOLEAN /\ pending'[1] = a /\ pending'[2] = b
    BY <2>1
  <2>3. \A e \in Addrs : e # a => (last'[e] <=> e \in connected')
    BY <2>1 DEF Announced
  <2> QED BY <2>1, <2>2, <2>3 DEF Announced, None
<1>2. CASE Feed!Announce
  <2>1. /\ pending # None /\ pending' = None /\ connected' = connected
        /\ last' = [last EXCEPT ![pending[1]] = pending[2]]
    BY <1>2 DEF Feed!Announce, None, Feed!None
  <2>2. pending[1] \in Addrs /\ pending[2] \in BOOLEAN /\ (pending[2] <=> pending[1] \in connected)
    BY <2>1 DEF Announced
  <2>3. last' \in [Addrs -> BOOLEAN]
    BY <2>1, <2>2 DEF Announced
  <2>4. \A e \in Addrs : last'[e] <=> e \in connected
    BY <2>1, <2>2 DEF Announced
  <2> QED BY <2>1, <2>3, <2>4 DEF Announced
<1>3. CASE UNCHANGED Feed!vars
  BY <1>3 DEF Feed!vars, Announced
<1> QED BY <1>1, <1>2, <1>3 DEF Feed!Next

\* What was announced last of a device is what the table says, unless an announcement that
\* says so is on its way.
THEOREM FaithfulAlways == Spec => []Feed!Faithful
<1>1. Init => OneAtATime /\ Announced
  BY OneAtATimeInit DEF Init, Announced
<1>2. OneAtATime /\ Announced /\ [Next]_vars => OneAtATime' /\ Announced'
  BY OneAtATimeNext, FeedStep, AnnouncedStep
<1>3. Announced => Feed!Faithful
  BY DEF Announced, Feed!Faithful, None, Feed!None
<1> QED BY <1>1, <1>2, <1>3, PTL DEF Spec

-----------------------------------------------------------------------------
(* Descriptors.                                                             *)

\* The descriptor of an input is stored before the input is.
DescribedFirst == (connected \cup opened) \cap Inputs \subseteq described

LEMMA DescribedNext == DescribedFirst /\ [Next]_vars => DescribedFirst'
<1> SUFFICES ASSUME DescribedFirst, [Next]_vars PROVE DescribedFirst'
  OBVIOUS
<1> USE DEF DescribedFirst
<1>1. ASSUME UNCHANGED <<connected, opened, described>> PROVE DescribedFirst'
  BY <1>1
<1>2. CASE \E a \in Inputs : Plug(a) \/ Unplug(a)
  BY <1>1, <1>2 DEF Plug, Unplug, feedVars, svcVars
<1>3. CASE Save \/ Backend \/ RefreshHid \/ EnumerateFails
  BY <1>1, <1>3 DEF Save, Backend, ReadConfig, RegisterCallback, RefreshUhid, BackendReady, Retry,
                    RefreshHid, EnumerateFails, feedVars, svcVars
<1>4. CASE TakeEvent \/ OnUhidConfigChange
  BY <1>1, <1>4 DEF TakeEvent, OnUhidConfigChange, feedVars, svcVars
<1>5. CASE PublishBackend \/ PublishWatcher \/ Subscribe \/ ConfigureOutput
  BY <1>1, <1>5 DEF PublishBackend, PublishWatcher, Accept, Subscribe, ConfigureOutput, feedVars, svcVars
<1>6. CASE HandleBackendEvent \/ Announce
  BY <1>1, <1>6 DEF HandleBackendEvent, Announce, feedVars, svcVars
<1>7. ASSUME NEW a \in Addrs, OnDisconnected(a) \/ OnConnected(a)
      PROVE  DescribedFirst'
  BY <1>7 DEF OnDisconnected, OnConnected
<1>8. ASSUME NEW a \in Addrs, InitializeInput(a) \/ InitializeFails(a)
      PROVE  DescribedFirst'
  BY <1>8 DEF InitializeInput, InitializeFails, Stored, feedVars
<1>9. ASSUME NEW a \in Addrs, InitializeOutput(a)
      PROVE  DescribedFirst'
  BY <1>9, HidAssumption DEF InitializeOutput, feedVars
<1>10. CASE UNCHANGED vars
  BY <1>1, <1>10 DEF vars, feedVars, svcVars
<1> QED
  BY <1>2, <1>3, <1>4, <1>5, <1>6, <1>7, <1>8, <1>9, <1>10 DEF Next, Service

\* What IsInputConnected reports has a report descriptor in the database.
THEOREM DescribedAlways == Spec => []Described
<1>1. Init => DescribedFirst
  BY DEF Init, DescribedFirst
<1>2. DescribedFirst /\ [Next]_vars => DescribedFirst'
  BY DescribedNext
<1>3. DescribedFirst => Described
  BY DEF DescribedFirst, Described
<1> QED BY <1>1, <1>2, <1>3, PTL DEF Spec

-----------------------------------------------------------------------------
(* The tables agree.                                                        *)

\* What the service will know once it has handled a message, of what it knew before.
After(K, m) == IF m = None THEN K ELSE (K \ m.disc) \cup m.conn

\* No message calls a device new that the service knows already.
Fresh(K, m) == m # None => m.conn \cap K = {}

About(m, S) == m # None => m.disc \cup m.conn \subseteq S

Known == connected \cup failed
Heard == (Known \ disc) \cup conn \cup opened
Delivered == After(Heard, held)
Tables == Present(hidDevices) \cup Present(uhidDevices)

Pairs == {None} \cup [disc : SUBSET Addrs, conn : SUBSET Addrs]

Shape ==
  /\ DOMAIN hidDevices = Inputs /\ DOMAIN uhidDevices = Outputs
  /\ bout \in Pairs /\ wout \in Pairs /\ held \in Pairs

\* The backend's goroutine and the watcher's never both have a message about uhid
\* devices: nobody saves the file until the backend polls.
OneWriter ==
  /\ bpc # "poll" => events = 0 /\ wleft = 0 /\ wout = None
  /\ bpc \in {"start", "register", "uhid", "backoff"} => bout = None
  /\ bpc \in {"ready", "poll"} => About(bout, Inputs)
  /\ About(wout, Outputs)

\* Handled in order, what is on its way makes the service's tables those of the backend.
Chain ==
  /\ After(After(Delivered, bout), wout) = Tables
  /\ Fresh(Heard, held) /\ Fresh(Delivered, bout) /\ Fresh(Delivered, wout)
  /\ (conn \cup opened) \cap Known = {} /\ connected \cap failed = {}

\* The inductive invariant of InSync.
SyncInv == OneAtATime /\ Shape /\ OneWriter /\ (~missed => Chain)

LEMMA MessageShape ==
  ASSUME NEW S, NEW old, NEW new, DOMAIN old = S, DOMAIN new = S, S \subseteq Addrs
  PROVE  LET m == Publication(Message(old, new)) IN
         /\ m \in Pairs /\ About(m, S)
         /\ \A K : After(K, m) = (K \ (Present(old) \ Present(new))) \cup (Present(new) \ Present(old))
         /\ \A K : K \cap S \subseteq Present(old) => Fresh(K, m)
<1> DEFINE d == Present(old) \ Present(new)
           c == Present(new) \ Present(old)
           m == Publication(Message(old, new))
<1>1. d \subseteq S /\ c \subseteq S /\ c \cap Present(old) = {}
  BY DEF Present
<1>2. m = IF d = {} /\ c = {} THEN None ELSE [disc |-> d, conn |-> c]
  BY DEF Publication, Message
<1> HIDE DEF d, c, m
<1>3. m \in Pairs
  BY <1>1, <1>2 DEF Pairs
<1>4. About(m, S)
  BY <1>1, <1>2 DEF About
<1>5. ASSUME NEW K PROVE After(K, m) = (K \ d) \cup c
  BY <1>2 DEF After, None
<1>6. ASSUME NEW K, K \cap S \subseteq Present(old) PROVE Fresh(K, m)
  BY <1>1, <1>2, <1>6 DEF Fresh
<1> QED BY <1>3, <1>4, <1>5, <1>6 DEF m, d, c

LEMMA AfterNone == \A K : After(K, None) = K /\ Fresh(K, None)
BY DEF After, Fresh

\* Messages about different devices can be handled in either order.
LEMMA Commute ==
  ASSUME NEW K, NEW m, NEW n, NEW S, NEW T, S \cap T = {}, About(m, S), About(n, T)
  PROVE  /\ After(After(K, m), n) = After(After(K, n), m)
         /\ Fresh(K, m) => Fresh(After(K, n), m)
         /\ After(K, m) \cap T = K \cap T
BY DEF After, About, Fresh

LEMMA RefreshedShape ==
  /\ DOMAIN HidRefreshed = Inputs
  /\ \A n : DOMAIN UhidRefreshed(n) = Outputs
  /\ DOMAIN hidDevices = Inputs => Present(hidDevices) \subseteq Inputs
  /\ DOMAIN uhidDevices = Outputs => Present(uhidDevices) \subseteq Outputs
  /\ Inputs \subseteq Addrs /\ Outputs \subseteq Addrs
BY DEF HidRefreshed, UhidRefreshed, Present, Addrs

LEMMA SyncInit == Init => SyncInv
<1> SUFFICES ASSUME Init PROVE SyncInv
  OBVIOUS
<1>1. Shape /\ OneWriter
  BY DEF Init, Shape, OneWriter, Pairs, About
<1>2. Present(hidDevices) = {} /\ Present(uhidDevices) = {}
  BY DEF Init, Present
<1>3. Chain
  BY <1>2, AfterNone DEF Init, Chain, Delivered, Heard, Known, Tables
<1> QED BY <1>1, <1>3, OneAtATimeInit DEF SyncInv

\* The backend's poll: its goroutine has nothing else to publish.
LEMMA SyncRefreshHid == SyncInv /\ RefreshHid => Shape' /\ OneWriter' /\ (~missed' => Chain')
<1> SUFFICES ASSUME SyncInv, RefreshHid PROVE Shape' /\ OneWriter' /\ (~missed' => Chain')
  OBVIOUS
<1> USE DEF SyncInv
<1> DEFINE old == Present(hidDevices)
           new == Present(HidRefreshed)
           uhid == Present(uhidDevices)
           m == Publication(Message(hidDevices, HidRefreshed))
<1>1. hidDevices' = HidRefreshed /\ bout' = m /\ bout = None
  BY DEF RefreshHid, HidMessage
<1>2. UNCHANGED <<uhidDevices, wout, held, events, wleft, disc, conn, opened, connected, failed, missed>>
  BY DEF RefreshHid, fileVars, busVars, feedVars, svcVars
<1>3. bpc' \in {"ready", "poll"} /\ (bpc' # "poll" <=> bpc # "poll")
  BY DEF RefreshHid
<1>4. /\ m \in Pairs /\ About(m, Inputs)
      /\ \A K : After(K, m) = (K \ (old \ new)) \cup (new \ old)
      /\ \A K : K \cap Inputs \subseteq old => Fresh(K, m)
  BY MessageShape, RefreshedShape DEF Shape
<1>5. old \subseteq Inputs /\ new \subseteq Inputs /\ uhid \subseteq Outputs
  BY RefreshedShape DEF Shape, Present
<1>6. Tables = old \cup uhid /\ Tables' = new \cup uhid
  BY <1>1, <1>2 DEF Tables
<1>7. Known' = Known /\ Heard' = Heard /\ Delivered' = Delivered
  BY <1>2 DEF Known, Heard, Delivered
<1> HIDE DEF old, new, uhid, m
<1>8. Shape'
  BY <1>1, <1>2, <1>4, RefreshedShape DEF Shape
<1>9. OneWriter'
  BY <1>1, <1>2, <1>3, <1>4 DEF OneWriter
<1>10. ASSUME Chain PROVE Chain'
  <2>1. After(Delivered, wout) = old \cup uhid
    BY <1>1, <1>6, <1>10, AfterNone DEF Chain
  <2>2. Delivered \cap Inputs = old
    <3>1. After(Delivered, wout) \cap Inputs = Delivered \cap Inputs
      BY Commute, HidAssumption DEF OneWriter, About, After
    <3> QED BY <2>1, <3>1, <1>5, HidAssumption
  <2>3. Fresh(Delivered, m) /\ Fresh(Delivered, wout)
    BY <1>4, <1>10, <2>2 DEF Chain
  <2>4. After(After(Delivered, m), wout) = new \cup uhid
    <3>1. After(After(Delivered, m), wout) = After(After(Delivered, wout), m)
      BY <1>4, Commute, HidAssumption DEF OneWriter
    <3>2. After(old \cup uhid, m) = new \cup uhid
      BY <1>4, <1>5, HidAssumption
    <3> QED BY <3>1, <3>2, <2>1
  <2> QED BY <1>1, <1>2, <1>6, <1>7, <1>10, <2>3, <2>4 DEF Chain
<1> QED BY <1>2, <1>8, <1>9, <1>10

\* The section is read by the backend's goroutine, when the watcher has nothing to publish,
\* or by the watcher, when the goroutine has at most physical devices to publish.
LEMMA SyncUhid ==
  ASSUME SyncInv, NEW n,
         uhidDevices' = UhidRefreshed(n),
         UNCHANGED <<hidDevices, held, disc, conn, opened, connected, failed, missed>>,
         About(bout, Inputs), wout = None,
         \/ bout = None /\ bout' = Publication(Message(uhidDevices, uhidDevices')) /\ wout' = None
         \/ wout' = Publication(Message(uhidDevices, uhidDevices')) /\ bout' = bout
  PROVE  Shape' /\ About(wout', Outputs) /\ (~missed' => Chain')
<1> USE DEF SyncInv
<1> DEFINE old == Present(uhidDevices)
           new == Present(uhidDevices')
           hid == Present(hidDevices)
           m == Publication(Message(uhidDevices, uhidDevices'))
<1>1. DOMAIN uhidDevices' = Outputs
  BY RefreshedShape
<1>2. /\ m \in Pairs /\ About(m, Outputs)
      /\ \A K : After(K, m) = (K \ (old \ new)) \cup (new \ old)
      /\ \A K : K \cap Outputs \subseteq old => Fresh(K, m)
  BY <1>1, MessageShape, RefreshedShape DEF Shape
<1>3. old \subseteq Outputs /\ new \subseteq Outputs /\ hid \subseteq Inputs
  BY <1>1, RefreshedShape DEF Shape, Present
<1>4. Tables = hid \cup old /\ Tables' = hid \cup new
  BY DEF Tables, Present
<1>5. Known' = Known /\ Heard' = Heard /\ Delivered' = Delivered
  BY DEF Known, Heard, Delivered
<1>6. About(None, Outputs) /\ None \in Pairs
  BY DEF About, Pairs
<1> HIDE DEF old, new, hid
<1>7. Shape' /\ About(wout', Outputs)
  BY <1>1, <1>2, <1>6 DEF Shape
<1>8. ASSUME Chain PROVE Chain'
  <2>1. After(Delivered, bout) = hid \cup old
    BY <1>4, <1>8, AfterNone DEF Chain
  <2>2. Delivered \cap Outputs = old
    <3>1. After(Delivered, bout) \cap Outputs = Delivered \cap Outputs
      BY HidAssumption DEF About, After
    <3> QED BY <2>1, <3>1, <1>3, HidAssumption
  <2>3. Fresh(Delivered, m) /\ Fresh(Delivered, bout)
    BY <1>2, <1>8, <2>2 DEF Chain
  <2>4. After(After(Delivered, bout), m) = hid \cup new
    BY <1>2, <1>3, <2>1, HidAssumption
  <2> HIDE DEF m
  <2>5. After(After(Delivered, bout'), wout') = hid \cup new
    BY <2>4, AfterNone DEF m
  <2>6. Fresh(Delivered, bout') /\ Fresh(Delivered, wout')
    BY <2>3, AfterNone DEF m
  <2> QED BY <1>4, <1>5, <1>8, <2>5, <2>6 DEF Chain
<1> QED BY <1>7, <1>8

\* A message goes from the backend or the watcher to the bus.
LEMMA SyncPublish ==
  ASSUME SyncInv, PublishBackend \/ PublishWatcher
  PROVE  Shape' /\ OneWriter' /\ (~missed' => Chain')
<1> USE DEF SyncInv
<1>1. /\ held = None /\ held' = IF subscribed THEN (IF bout' = bout THEN wout ELSE bout) ELSE None
      /\ missed' = (missed \/ ~subscribed)
      /\ UNCHANGED <<hidDevices, uhidDevices, bpc, events, wleft, disc, conn, opened, connected, failed>>
  BY DEF PublishBackend, PublishWatcher, Accept, feedVars, svcVars, envVars
<1>2. \/ bout # None /\ bout' = None /\ wout' = wout
      \/ wout # None /\ wout' = None /\ bout' = bout
  BY DEF PublishBackend, PublishWatcher
<1>3. Shape'
  BY <1>1, <1>2 DEF Shape, Pairs
<1>4. OneWriter'
  BY <1>1, <1>2 DEF OneWriter, About
<1>5. ASSUME ~missed' PROVE Chain'
  <2>1. Chain /\ subscribed
    BY <1>1, <1>5
  <2>2. Known' = Known /\ Heard' = Heard /\ Delivered = Heard /\ Tables' = Tables
    BY <1>1, AfterNone DEF Known, Heard, Delivered, Tables, Present
  <2>3. CASE bout # None /\ bout' = None /\ wout' = wout
    <3>1. held' = bout /\ Delivered' = After(Heard, bout)
      BY <1>1, <2>1, <2>2, <2>3 DEF Delivered
    <3>2. wout = None \/ About(bout, Inputs)
      BY DEF OneWriter
    <3>3. Fresh(After(Heard, bout), wout)
      BY <2>1, <2>2, <3>2, AfterNone, Commute, HidAssumption DEF Chain, OneWriter
    <3> QED BY <1>1, <2>1, <2>2, <2>3, <3>1, <3>3, AfterNone DEF Chain
  <2>4. CASE wout # None /\ wout' = None /\ bout' = bout
    <3>1. held' = wout /\ Delivered' = After(Heard, wout)
      BY <1>1, <2>1, <2>2, <2>4 DEF Delivered
    <3>2. About(bout, Inputs) /\ About(wout, Outputs)
      BY <2>4 DEF OneWriter
    <3>3. /\ Fresh(After(Heard, wout), bout)
          /\ After(After(Heard, wout), bout) = After(After(Heard, bout), wout)
      BY <2>1, <2>2, <3>2, Commute, HidAssumption DEF Chain
    <3> QED BY <1>1, <2>1, <2>2, <2>4, <3>1, <3>3, AfterNone DEF Chain
  <2> QED BY <1>2, <2>3, <2>4
<1> QED BY <1>3, <1>4, <1>5

\* What the service does with a message it has taken does not change what it will know.
LEMMA SyncService ==
  ASSUME SyncInv,
         \/ HandleBackendEvent
         \/ \E a \in Addrs : \/ OnDisconnected(a) \/ InitializeInput(a) \/ InitializeOutput(a)
                             \/ InitializeFails(a) \/ OnConnected(a)
  PROVE  Shape' /\ OneWriter' /\ (~missed' => Chain')
<1> USE DEF SyncInv
<1>1. UNCHANGED <<hidDevices, uhidDevices, bpc, bout, wout, events, wleft, missed>>
  BY DEF HandleBackendEvent, OnDisconnected, InitializeInput, InitializeOutput, InitializeFails,
         OnConnected, backVars, fileVars, busVars
<1>2. held' \in Pairs
  BY DEF HandleBackendEvent, OnDisconnected, InitializeInput, InitializeOutput, InitializeFails,
         OnConnected, busVars, Shape, Pairs
<1>3. Shape' /\ OneWriter' /\ Tables' = Tables
  BY <1>1, <1>2 DEF Shape, OneWriter, Tables, Present
<1>4. ASSUME Chain, Delivered' = Delivered, Fresh(Heard', held'),
             (conn' \cup opened') \cap Known' = {}, connected' \cap failed' = {}
      PROVE  Chain'
  BY <1>1, <1>3, <1>4 DEF Chain
<1>5. ASSUME Chain, HandleBackendEvent PROVE Chain'
  <2>1. /\ held # None /\ held' = None /\ disc' = held.disc /\ conn' = held.conn
        /\ disc = {} /\ conn = {} /\ opened = {} /\ UNCHANGED <<connected, failed, opened>>
    BY <1>5 DEF HandleBackendEvent, Idle, feedVars
  <2>2. Heard = Known /\ Known' = Known
    BY <2>1 DEF Heard, Known
  <2>3. Heard' = After(Known, held) /\ Delivered = After(Known, held) /\ Delivered' = Heard'
    BY <2>1, <2>2, AfterNone DEF Heard, Delivered, After
  <2>4. held.conn \cap Known = {}
    BY <1>5, <2>1, <2>2 DEF Chain, Fresh
  <2> QED BY <1>4, <1>5, <2>1, <2>2, <2>3, <2>4, AfterNone DEF Chain
<1>6. ASSUME NEW a \in Addrs, Chain,
             OnDisconnected(a) \/ InitializeInput(a) \/ InitializeOutput(a)
               \/ InitializeFails(a) \/ OnConnected(a)
      PROVE  Chain'
  <2>1. held' = held
    BY <1>6 DEF OnDisconnected, InitializeInput, InitializeOutput, InitializeFails, OnConnected, busVars
  <2>2. Heard' = Heard /\ (conn' \cup opened') \cap Known' = {} /\ connected' \cap failed' = {}
    <3>1. CASE OnDisconnected(a)
      BY <1>6, <3>1 DEF OnDisconnected, Chain, Heard, Known
    <3>2. CASE InitializeInput(a) \/ InitializeOutput(a)
      BY <1>6, <3>2 DEF InitializeInput, InitializeOutput, Connecting, Chain, Heard, Known, feedVars
    <3>3. CASE InitializeFails(a)
      BY <1>6, <3>3 DEF InitializeFails, Connecting, Chain, Heard, Known, feedVars
    <3>4. CASE OnConnected(a)
      <4>1. opened = {a} /\ disc = {} /\ a \notin conn /\ a \notin failed
        BY <1>6, <3>4 DEF OnConnected, OneAtATime, Chain, Known
      <4> QED BY <1>6, <3>4, <4>1 DEF OnConnected, Chain, Heard, Known
    <3> QED BY <1>6, <3>1, <3>2, <3>3, <3>4
  <2>3. Delivered' = Delivered
    BY <2>1, <2>2 DEF Delivered
  <2> QED BY <1>4, <1>6, <2>1, <2>2, <2>3 DEF Chain
<1> QED BY <1>1, <1>3, <1>5, <1>6

\* A step that leaves the tables, the messages and the service alone, and the watcher too
\* unless the backend polls.
LEMMA SyncElsewhere ==
  ASSUME SyncInv,
         UNCHANGED <<hidDevices, uhidDevices, bout, wout, held, feedVars, svcVars, missed>>,
         bpc' # "poll" => events' = events /\ wleft' = wleft,
         \/ bpc' = bpc
         \/ bpc \notin {"poll", "uhid"} /\ bpc' \in {"register", "uhid", "start"} /\ bout = None
         \/ bpc = "hid" /\ bpc' = "backoff" /\ bout = None
         \/ bpc = "ready" /\ bpc' = "poll"
  PROVE  Shape' /\ OneWriter' /\ (~missed' => Chain')
<1>1. Shape'
  BY DEF SyncInv, Shape
<1>2. OneWriter'
  BY DEF SyncInv, OneWriter, About
<1>3. Chain => Chain'
  BY DEF Chain, Delivered, Heard, Known, Tables, Present, feedVars, svcVars
<1> QED BY <1>1, <1>2, <1>3 DEF SyncInv

LEMMA SyncNext ==
  ASSUME EarlySave = FALSE
  PROVE  SyncInv /\ [Next]_vars => SyncInv'
<1> SUFFICES ASSUME SyncInv, [Next]_vars
             PROVE  Shape' /\ OneWriter' /\ (~missed' => Chain')
  BY OneAtATimeNext DEF SyncInv
<1>1. CASE \E a \in Inputs : Plug(a) \/ Unplug(a)
  BY <1>1, SyncElsewhere DEF Plug, Unplug, backVars, fileVars, busVars
<1>2. CASE Save
  BY <1>2, SyncElsewhere DEF Save, backVars, busVars
<1>3. CASE ReadConfig \/ RegisterCallback \/ Retry
  <2>1. bout = None
    BY <1>3 DEF ReadConfig, RegisterCallback, Retry, Retries, SyncInv, OneWriter
  <2> QED
    BY <1>3, <2>1, SyncElsewhere DEF ReadConfig, RegisterCallback, Retry, Retries, fileVars, busVars
<1>4. CASE EnumerateFails \/ BackendReady
  BY <1>4, SyncElsewhere DEF EnumerateFails, BackendReady, fileVars, busVars
<1>5. CASE RefreshUhid
  <2>1. bout = None /\ wout = None
    BY <1>5 DEF RefreshUhid, SyncInv, OneWriter
  <2>2. Shape' /\ About(wout', Outputs) /\ (~missed' => Chain')
    BY <1>5, <2>1, SyncUhid DEF RefreshUhid, fileVars, busVars, feedVars, svcVars, About
  <2>3. OneWriter'
    BY <1>5, <2>2 DEF RefreshUhid, fileVars, SyncInv, OneWriter
  <2> QED BY <2>2, <2>3
<1>6. CASE RefreshHid
  BY <1>6, SyncRefreshHid
<1>7. CASE TakeEvent
  BY <1>7, SyncElsewhere DEF TakeEvent, backVars, busVars, SyncInv, OneWriter
<1>8. CASE OnUhidConfigChange
  <2>1. bpc = "poll" /\ wout = None /\ About(bout, Inputs)
    BY <1>8 DEF OnUhidConfigChange, SyncInv, OneWriter
  <2>2. Shape' /\ About(wout', Outputs) /\ (~missed' => Chain')
    BY <1>8, <2>1, SyncUhid DEF OnUhidConfigChange, backVars, busVars, feedVars, svcVars
  <2>3. OneWriter'
    BY <1>8, <2>1, <2>2 DEF OnUhidConfigChange, backVars, OneWriter
  <2> QED BY <2>2, <2>3
<1>9. CASE PublishBackend \/ PublishWatcher
  BY <1>9, SyncPublish
<1>10. CASE Subscribe \/ Announce \/ ConfigureOutput
  <2>1. /\ UNCHANGED <<hidDevices, uhidDevices, bpc, bout, wout, events, wleft, held, missed>>
        /\ UNCHANGED <<disc, conn, opened, connected, failed>>
    BY <1>10 DEF Subscribe, Announce, ConfigureOutput, backVars, fileVars, busVars, feedVars, svcVars
  <2>2. Shape' /\ OneWriter'
    BY <2>1 DEF SyncInv, Shape, OneWriter
  <2>3. Chain => Chain'
    BY <2>1 DEF Chain, Delivered, Heard, Known, Tables, Present
  <2> QED BY <2>1, <2>2, <2>3 DEF SyncInv
<1>11. CASE \/ HandleBackendEvent
            \/ \E a \in Addrs : \/ OnDisconnected(a) \/ InitializeInput(a) \/ InitializeOutput(a)
                                \/ InitializeFails(a) \/ OnConnected(a)
  BY <1>11, SyncService
<1>12. CASE UNCHANGED vars
  BY <1>12, SyncElsewhere DEF vars, backVars, fileVars, busVars
<1> QED
  BY <1>1, <1>2, <1>3, <1>4, <1>5, <1>6, <1>7, <1>8, <1>9, <1>10, <1>11, <1>12
  DEF Next, Backend, Service

\* If the file is not saved while the backend starts, the tables of the service agree with
\* those of the backend once all that was published is handled.
THEOREM InSyncAlways == ASSUME EarlySave = FALSE PROVE Spec => []InSync
<1>1. Init => SyncInv
  BY SyncInit
<1>2. SyncInv /\ [Next]_vars => SyncInv'
  BY SyncNext
<1>3. SyncInv => InSync
  <2> SUFFICES ASSUME SyncInv, Quiet, ~missed PROVE connected = Tables \ failed
    BY DEF InSync, Tables
  <2>1. Known = Tables
    BY AfterNone DEF SyncInv, Chain, Quiet, Idle, Delivered, Heard
  <2> QED BY <2>1 DEF SyncInv, Chain, Known
<1> QED BY <1>1, <1>2, <1>3, PTL DEF Spec

-----------------------------------------------------------------------------
(* The uhid devices and the file.                                           *)

\* No entry is edited: each id has the same settings in all contents that have it.  An entry
\* whose settings change while it stays is not created again (see UhidRefreshed).
NeverEdited ==
  \A i, j \in DOMAIN Uhid : \A a \in Outputs :
    Uhid[i][a] # 0 /\ Uhid[j][a] # 0 => Uhid[i][a] = Uhid[j][a]

\* Before its first poll the backend has not met a save.  From then on the callback is
\* registered, so that a save which is not in the table has an event or a callback to come.
UhidInv ==
  /\ file \in DOMAIN Uhid /\ {callbacks, events, wleft} \subseteq Nat
  /\ DOMAIN uhidDevices = Outputs
  /\ \A a \in Outputs : uhidDevices[a] # 0 => \E j \in DOMAIN Uhid : uhidDevices[a] = Uhid[j][a]
  /\ bpc # "poll" => file = 1 /\ events = 0 /\ wleft = 0 /\ bcfg = 1
  /\ bpc \notin {"start", "register"} => callbacks > 0
  /\ bpc \in {"hid", "ready"} \/ (bpc = "poll" /\ events = 0 /\ wleft = 0) => uhidDevices = Uhid[file]

\* The table is then the section that was read.
LEMMA RefreshedIsRead ==
  ASSUME NeverEdited, UhidInv, NEW n \in DOMAIN Uhid
  PROVE  UhidRefreshed(n) = Uhid[n]
<1>1. Uhid[n] \in [Outputs -> Nat]
  BY HidAssumption
<1>2. \A a \in Outputs : uhidDevices[a] # 0 /\ Uhid[n][a] # 0 => uhidDevices[a] = Uhid[n][a]
  BY DEF UhidInv, NeverEdited
<1>3. UhidRefreshed(n) = [a \in Outputs |-> Uhid[n][a]]
  BY <1>2 DEF UhidRefreshed
<1> QED BY <1>1, <1>3

LEMMA UhidNext ==
  ASSUME NeverEdited, EarlySave = FALSE, UhidInv, [Next]_vars
  PROVE  UhidInv'
<1>1. \A n \in DOMAIN Uhid : Uhid[n] \in [Outputs -> Nat]
  BY HidAssumption
<1>2. CASE UNCHANGED <<file, callbacks, events, wleft, uhidDevices, bpc, bcfg>>
  BY <1>2 DEF UhidInv
<1>3. CASE \/ \E a \in Inputs : Plug(a) \/ Unplug(a)
           \/ PublishBackend \/ PublishWatcher \/ Subscribe \/ Service \/ ConfigureOutput \/ UNCHANGED vars
  <2>1. UNCHANGED <<file, callbacks, events, wleft, uhidDevices, bpc, bcfg>>
    BY <1>3 DEF Plug, Unplug, PublishBackend, PublishWatcher, Accept, Subscribe, Service,
                HandleBackendEvent, Announce, OnDisconnected, InitializeInput, InitializeOutput,
                InitializeFails, OnConnected, ConfigureOutput, vars, envVars, backVars, fileVars
  <2> QED BY <1>2, <2>1
<1>4. CASE Save
  <2>1. /\ file < Len(Uhid) /\ bpc = "poll" /\ file' = file + 1
        /\ UNCHANGED <<callbacks, wleft, uhidDevices, bpc, bcfg>>
    BY <1>4 DEF Save, backVars
  <2>2. events' = events + 1
    BY <1>4, <2>1 DEF Save, UhidInv
  <2>3. file' \in DOMAIN Uhid
    BY <2>1, HidAssumption DEF UhidInv
  <2> QED BY <2>1, <2>2, <2>3 DEF UhidInv
<1>5. CASE ReadConfig \/ RegisterCallback \/ BackendReady \/ Retry \/ RefreshHid \/ EnumerateFails
  BY <1>5 DEF ReadConfig, RegisterCallback, BackendReady, Retry, Retries, RefreshHid, EnumerateFails, envVars,
              fileVars, UhidInv
<1>6. CASE RefreshUhid
  <2>1. /\ bpc = "uhid" /\ bpc' = "hid" /\ uhidDevices' = UhidRefreshed(bcfg)
        /\ UNCHANGED <<file, callbacks, events, wleft, bcfg>>
    BY <1>6 DEF RefreshUhid, envVars, fileVars
  <2>2. uhidDevices' = Uhid[file] /\ Uhid[file] \in [Outputs -> Nat]
    BY <1>1, <2>1, RefreshedIsRead DEF UhidInv
  <2> QED BY <2>1, <2>2 DEF UhidInv
<1>7. CASE TakeEvent
  BY <1>7 DEF TakeEvent, envVars, backVars, UhidInv
<1>8. CASE OnUhidConfigChange
  <2>1. /\ wleft > 0 /\ wleft' = wleft - 1 /\ uhidDevices' = UhidRefreshed(file)
        /\ UNCHANGED <<file, callbacks, events, bpc, bcfg>>
    BY <1>8 DEF OnUhidConfigChange, envVars, backVars
  <2>2. uhidDevices' = Uhid[file] /\ Uhid[file] \in [Outputs -> Nat] /\ bpc = "poll"
    BY <1>1, <2>1, RefreshedIsRead DEF UhidInv
  <2> QED BY <2>1, <2>2 DEF UhidInv
<1> QED BY <1>3, <1>4, <1>5, <1>6, <1>7, <1>8 DEF Next, Backend

\* Once the watcher is done with the events, the uhid devices are those of the file, if no
\* entry is edited and the file is not saved while the backend starts: an event is not lost
\* between the reading of the section and the registration of the callback, nor in a retry.
THEOREM UhidCurrentAlways ==
  ASSUME EarlySave = FALSE, NeverEdited
  PROVE  Spec => []UhidCurrent
<1>1. Init => UhidInv
  BY HidAssumption DEF Init, UhidInv
<1>2. UhidInv /\ [Next]_vars => UhidInv'
  BY UhidNext
<1>3. UhidInv => UhidCurrent
  BY DEF UhidInv, UhidCurrent
<1> QED BY <1>1, <1>2, <1>3, PTL DEF Spec
=============================================================================
