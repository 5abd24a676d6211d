------------------------ MODULE DeviceControlProofs ------------------------
(***************************************************************************)
(* Proof that no capture thread is out of reach, for any devices, outcomes *)
(* of opening one and bounds, and that with one card the radio is reported *)
(* present exactly while it is read.                                       *)
(*                                                                         *)
(* What the service has in mDevMapping and the threads change together, so *)
(* the first needs the types only.  The report comes by message: of the    *)
(* radio messages in the queue the last says what is the case, and when    *)
(* there is none the service has heard it.                                 *)
(*                                                                         *)
(* And that the words of the card's EEPROM are read right, for either size *)
(* of address, any contents and any order of reading, when no more than    *)
(* one transfer is lost.                                                   *)
(***************************************************************************)
EXTENDS DeviceControl, Eeprom93cx6, QueueProofs

Thread == {"new", "running", "stopped", "ended"}
SourceType == [device : Devices, thread : Thread]
Fields == [life : {"unborn", "up", "leaving", "gone"},
           bind : {"no", "asked", "started", "bound"}, service : BOOLEAN, deferred : Seq(Intent)]

\* The types of what the looper and the activities, the system, and the service keep.
UiType == queue \in Seq(Message) /\ ui \in [Activities -> Fields]
SystemType ==
  /\ plugged \in [Devices -> {"never", "in", "out"}]
  /\ asked \in [Devices -> Nat]
  /\ permitted \subseteq Devices
ServiceType ==
  /\ made \in 0 .. MaxSources
  /\ source \in Seq(SourceType)
  /\ Len(source) = made
  /\ mapping \in [Devices -> 0 .. made]
  /\ lastUsb \in BOOLEAN
  /\ \A d \in Devices : mapping[d] # 0 => source[mapping[d]].device = d

LEMMA TypeParts ==
  TypeOK <=> UiType /\ SystemType /\ ServiceType
BY DEF TypeOK, UiType, SystemType, ServiceType, SourceType, Thread, Fields

LEMMA Bounds ==
  MaxActivities \in Nat \ {0} /\ MaxSources \in Nat
BY DeviceAssumption

-----------------------------------------------------------------------------
(* Messages. *)

\* What says of the radio is a message of the radio, and nothing else is.
RadioNews == {Radio(b) : b \in BOOLEAN}
Other == Message \ RadioNews

\* Messages of other kinds.
LEMMA OtherMessages ==
  /\ OnStart \in Other
  /\ \A i \in Intent : UsbIntent(i) \in Other
  /\ \A a \in Activities : Connected(a) \in Other /\ Destroyed(a) \in Other
  /\ \A a \in Activities, i \in Intent : Receive(a, i) \in Other
  /\ RadioNews \subseteq Message
<1>1. OnStart \in Other
  BY DEF Other, Message, OnStart, RadioNews, Radio
<1>2. ASSUME NEW i \in Intent
      PROVE  UsbIntent(i) \in Other
  <2>1. UsbIntent(i) \in [to : {Service} \cup Activities, what : {"intent"}, intent : Intent]
    BY DEF UsbIntent
  <2>2. UsbIntent(i) \notin RadioNews
    BY DEF UsbIntent, RadioNews, Radio
  <2>3. QED
    BY <2>1, <2>2 DEF Other, Message
<1>3. ASSUME NEW a \in Activities
      PROVE  Connected(a) \in Other /\ Destroyed(a) \in Other
  <2>1. Connected(a) \in Message /\ Destroyed(a) \in Message
    BY DEF Connected, Destroyed, Message
  <2>2. Connected(a) \notin RadioNews /\ Destroyed(a) \notin RadioNews
    BY DEF Connected, Destroyed, RadioNews, Radio
  <2>3. QED
    BY <2>1, <2>2 DEF Other
<1>4. ASSUME NEW a \in Activities, NEW i \in Intent
      PROVE  Receive(a, i) \in Other
  <2>1. Receive(a, i) \in [to : {Service} \cup Activities, what : {"intent"}, intent : Intent]
    BY DEF Receive
  <2>2. Receive(a, i) \notin RadioNews
    BY DEF Receive, RadioNews, Radio
  <2>3. QED
    BY <2>1, <2>2 DEF Other, Message
<1>5. RadioNews \subseteq Message
  BY DEF RadioNews, Radio, Message
<1>6. QED
  BY <1>1, <1>2, <1>3, <1>4, <1>5

\* Intents, and what a message that brings one is made of.
LEMMA IntentType ==
  /\ \A d \in Devices : Attached(d) \in Intent /\ Detached(d) \in Intent
  /\ \A d \in Devices, g \in BOOLEAN : Permission(d, g) \in Intent
BY DEF Attached, Detached, Permission, Intent

\* A broadcast is a queue of messages, none of which is of the radio.
LEMMA BroadcastType ==
  ASSUME NEW i \in Intent, NEW told \in Broadcast(i)
  PROVE  told \in Seq(Other)
<1>1. Cardinality(Listening) \in Nat
  <2>1. IsFiniteSet(Activities)
    BY Bounds, FS_Interval DEF Activities
  <2>2. IsFiniteSet(Listening)
    BY <2>1, FS_Subset DEF Listening
  <2>3. QED
    BY <2>2, FS_CardinalityType
<1>2. PICK l \in Registered : told = [k \in DOMAIN l |-> Receive(l[k], i)]
  BY DEF Broadcast
<1>3. l \in [1 .. Cardinality(Listening) -> Activities]
  BY DEF Registered, Listening
<1>4. told \in [1 .. Cardinality(Listening) -> Other]
  BY <1>2, <1>3, OtherMessages
<1>5. QED
  BY <1>1, <1>4

-----------------------------------------------------------------------------
(* What becomes of the queue. *)

\* A step is quiet if it neither posts nor dispatches news of the radio.
Quiet ==
  /\ queue' \in Seq(Message)
  /\ Has(queue, RadioNews) <=> Has(queue', RadioNews)
  /\ \A G : LastIn(queue, RadioNews, G) => LastIn(queue', RadioNews, G)

LEMMA NoNews ==
  ASSUME NEW out \in Seq(Other)
  PROVE  /\ out \in Seq(Message)
         /\ ~Has(out, RadioNews)
         /\ \A G : LastIn(out, RadioNews, G)
<1>1. ~Has(out, RadioNews)
  BY DEF Has, Other
<1>2. out \in Seq(Message)
  BY DEF Other
<1>3. QED
  BY <1>1, <1>2, LastOfNone

LEMMA PostIsQuiet ==
  ASSUME queue \in Seq(Message), NEW out \in Seq(Other), queue' = queue \o out
  PROVE  Quiet
<1>1. out \in Seq(Message) /\ ~Has(out, RadioNews) /\ \A G : LastIn(out, RadioNews, G)
  BY NoNews
<1>2. queue \o out \in Seq(Message)
  BY <1>1, ConcatProperties
<1>3. Has(queue \o out, RadioNews) <=> Has(queue, RadioNews)
  BY <1>1, HasConcat
<1>4. ASSUME NEW G, LastIn(queue, RadioNews, G)
      PROVE  LastIn(queue \o out, RadioNews, G)
  BY <1>1, <1>4, LastOfConcat
<1>5. QED
  BY <1>2, <1>3, <1>4 DEF Quiet

LEMMA AppendIsQuiet ==
  ASSUME queue \in Seq(Message), NEW m \in Other, queue' = Append(queue, m)
  PROVE  Quiet
<1>1. <<m>> \in Seq(Other)
  OBVIOUS
<1>2. queue' = queue \o <<m>>
  BY AppendIsConcat DEF Other
<1>3. QED
  BY <1>1, <1>2, PostIsQuiet

LEMMA IdleIsQuiet ==
  ASSUME queue \in Seq(Message), queue' = queue
  PROVE  Quiet
BY DEF Quiet

\* What a dispatch does to the queue.
LEMMA DispatchMoves ==
  ASSUME queue \in Seq(Message), NEW m, NEW out \in Seq(Message), Dispatch(m, out)
  PROVE  /\ queue' \in Seq(Message)
         /\ m \in Message
         /\ Has(queue', RadioNews) <=> Has(Tail(queue), RadioNews) \/ Has(out, RadioNews)
         /\ Has(queue, RadioNews) <=> m \in RadioNews \/ Has(Tail(queue), RadioNews)
         /\ \A G : LastIn(queue, RadioNews, G) /\ m \in RadioNews => m \in G \/ Has(Tail(queue), RadioNews)
         /\ \A G : LastIn(out, RadioNews, G) /\ (Has(out, RadioNews) \/ LastIn(queue, RadioNews, G))
                     => LastIn(queue', RadioNews, G)
<1>1. queue # <<>> /\ Head(queue) = m /\ queue' = Tail(queue) \o out
  BY DEF Dispatch
<1>2. m \in Message
  BY <1>1, HeadTailProperties, EmptySeq
<1>3. QED
  BY <1>1, <1>2, AfterDispatch

LEMMA DispatchIsQuiet ==
  ASSUME queue \in Seq(Message), NEW m \in Other, NEW out \in Seq(Other), Dispatch(m, out)
  PROVE  Quiet
<1>1. out \in Seq(Message) /\ ~Has(out, RadioNews) /\ \A G : LastIn(out, RadioNews, G)
  BY NoNews
<1>2. m \notin RadioNews
  BY DEF Other
<1>3. QED
  BY <1>1, <1>2, DispatchMoves DEF Quiet

-----------------------------------------------------------------------------
(* The steps of the system and the activities: types kept, no news, and the *)
(* service left alone.                                                     *)

Calm == Quiet /\ UiType' /\ SystemType' /\ UNCHANGED service

LEMMA PlugIsCalm ==
  ASSUME UiType, SystemType, NEW d \in Devices, Plug(d)
  PROVE  Calm
<1>1. PICK told \in Broadcast(Attached(d)) :
        \/ queue' = queue \o told
        \/ \E a \in Activities : queue' = queue \o told \o <<Receive(a, Attached(d))>>
  BY DEF Plug
<1>2. told \in Seq(Other)
  BY BroadcastType, IntentType
<1>3. \E out \in Seq(Other) : queue' = queue \o out
  <2>1. CASE queue' = queue \o told
    BY <1>2, <2>1
  <2>2. ASSUME NEW a \in Activities, queue' = queue \o told \o <<Receive(a, Attached(d))>>
        PROVE  \E out \in Seq(Other) : queue' = queue \o out
    <3>1. <<Receive(a, Attached(d))>> \in Seq(Other)
      BY OtherMessages, IntentType
    <3>2. told \o <<Receive(a, Attached(d))>> \in Seq(Other)
      BY <1>2, <3>1, ConcatProperties
    <3>3. /\ told \in Seq(Message) /\ <<Receive(a, Attached(d))>> \in Seq(Message)
      BY <1>2, <3>1, NoNews
    <3>4. queue' = queue \o (told \o <<Receive(a, Attached(d))>>)
      BY <2>2, <3>3, ConcatAssociative DEF UiType
    <3>5. QED
      BY <3>2, <3>4
  <2>3. QED
    BY <1>1, <2>1, <2>2
<1>4. Quiet
  BY <1>3, PostIsQuiet DEF UiType
<1>5. QED
  BY <1>4 DEF Calm, Quiet, UiType, SystemType, Plug

LEMMA UnplugIsCalm ==
  ASSUME UiType, SystemType, NEW d \in Devices, Unplug(d)
  PROVE  Calm
<1>1. PICK told \in Broadcast(Detached(d)) : queue' = queue \o told
  BY DEF Unplug
<1>2. told \in Seq(Other)
  BY BroadcastType, IntentType
<1>3. Quiet
  BY <1>1, <1>2, PostIsQuiet DEF UiType
<1>4. QED
  BY <1>3 DEF Calm, Quiet, UiType, SystemType, Unplug

LEMMA AnswerIsCalm ==
  ASSUME UiType, SystemType, NEW d \in Devices, NEW g \in BOOLEAN, Answer(d, g)
  PROVE  Calm
<1>1. PICK told \in Broadcast(Permission(d, g)) : queue' = queue \o told
  BY DEF Answer
<1>2. told \in Seq(Other)
  BY BroadcastType, IntentType
<1>3. Quiet
  BY <1>1, <1>2, PostIsQuiet DEF UiType
<1>4. asked' \in [Devices -> Nat]
  BY DEF SystemType, Answer
<1>5. permitted' \subseteq Devices
  BY DEF SystemType, Answer
<1>6. QED
  BY <1>3, <1>4, <1>5 DEF Calm, Quiet, UiType, SystemType, Answer

LEMMA ActivityIsCalm ==
  ASSUME UiType, SystemType, NEW a \in Activities,
         Create(a) \/ Leave(a) \/ PostStart(a) \/ PostConnected(a)
  PROVE  Calm
<1>1. ui[a] \in Fields
  BY DEF UiType
<1>2. CASE Create(a)
  <2>1. ui' \in [Activities -> Fields]
    BY <1>1, <1>2 DEF UiType, Fields, Create
  <2>2. Quiet
    BY <1>2, IdleIsQuiet DEF UiType, Create
  <2>3. QED
    BY <1>2, <2>1, <2>2 DEF Calm, Quiet, UiType, SystemType, Create, system
<1>3. CASE Leave(a)
  <2>1. ui' \in [Activities -> Fields]
    BY <1>1, <1>3 DEF UiType, Fields, Leave
  <2>2. Quiet
    BY <1>3, AppendIsQuiet, OtherMessages DEF UiType, Leave
  <2>3. QED
    BY <1>3, <2>1, <2>2 DEF Calm, Quiet, UiType, SystemType, Leave, system
<1>4. CASE PostStart(a)
  <2>1. ui' \in [Activities -> Fields]
    BY <1>1, <1>4 DEF UiType, Fields, PostStart
  <2>2. Quiet
    BY <1>4, AppendIsQuiet, OtherMessages DEF UiType, PostStart
  <2>3. QED
    BY <1>4, <2>1, <2>2 DEF Calm, Quiet, UiType, SystemType, PostStart, system
<1>5. CASE PostConnected(a)
  <2>1. ui' \in [Activities -> Fields]
    BY <1>1, <1>5 DEF UiType, Fields, PostConnected
  <2>2. Quiet
    BY <1>5, AppendIsQuiet, OtherMessages DEF UiType, PostConnected
  <2>3. QED
    BY <1>5, <2>1, <2>2 DEF Calm, Quiet, UiType, SystemType, PostConnected, system
<1>6. QED
  BY <1>2, <1>3, <1>4, <1>5

LEMMA HandledByActivityIsCalm ==
  ASSUME UiType, SystemType, NEW a \in Activities, HandledByActivity(a)
  PROVE  Calm
<1>1. ui[a] \in Fields /\ queue \in Seq(Message)
  BY DEF UiType
<1>2. <<>> \in Seq(Other)
  OBVIOUS
<1>3. CASE Destroy(a)
  <2>1. ui' \in [Activities -> Fields]
    BY <1>1, <1>3 DEF UiType, Fields, Destroy
  <2>2. Quiet
    BY <1>1, <1>2, <1>3, DispatchIsQuiet, OtherMessages DEF Destroy
  <2>3. QED
    BY <1>3, <2>1, <2>2 DEF Calm, Quiet, UiType, SystemType, Destroy, system
<1>4. CASE OnServiceConnected(a)
  <2>1. ui' \in [Activities -> Fields]
    BY <1>1, <1>4 DEF UiType, Fields, OnServiceConnected
  <2> DEFINE kept == [k \in DOMAIN ui[a].deferred |-> UsbIntent(ui[a].deferred[k])]
  <2>2. ui[a].deferred \in Seq(Intent)
    BY <1>1 DEF Fields
  <2>3. kept \in Seq(Other)
    <3>1. kept \in [1 .. Len(ui[a].deferred) -> Other]
      BY <2>2, OtherMessages
    <3>2. Len(ui[a].deferred) \in Nat
      BY <2>2
    <3>3. QED
      BY <3>1, <3>2
  <2>4. \E out \in Seq(Other) : Dispatch(Connected(a), out)
    BY <1>2, <1>4, <2>3 DEF OnServiceConnected
  <2>5. Quiet
    BY <1>1, <2>4, DispatchIsQuiet, OtherMessages
  <2>6. QED
    BY <1>4, <2>1, <2>5 DEF Calm, Quiet, UiType, SystemType, OnServiceConnected, system
<1>5. ASSUME NEW i \in Intent, Forward(a, i)
      PROVE  Calm
  <2>1. <<UsbIntent(i)>> \in Seq(Other)
    BY OtherMessages
  <2>2. Quiet
    BY <1>1, <1>5, <2>1, DispatchIsQuiet, OtherMessages DEF Forward
  <2>3. QED
    BY <1>5, <2>2 DEF Calm, Quiet, UiType, SystemType, Forward, system
<1>6. ASSUME NEW i \in Intent, Defer(a, i)
      PROVE  Calm
  <2>1. Append(ui[a].deferred, i) \in Seq(Intent)
    BY <1>1 DEF Fields
  <2>2. ui' = [ui EXCEPT ![a] = [ui[a] EXCEPT !.deferred = Append(ui[a].deferred, i)]]
    BY <1>6 DEF Defer
  <2>3. [ui[a] EXCEPT !.deferred = Append(ui[a].deferred, i)] \in Fields
    BY <1>1, <2>1 DEF Fields
  <2>4. ui' \in [Activities -> Fields]
    BY <2>2, <2>3 DEF UiType
  <2>5. Quiet
    BY <1>1, <1>2, <1>6, DispatchIsQuiet, OtherMessages DEF Defer
  <2>6. QED
    BY <1>6, <2>4, <2>5 DEF Calm, Quiet, UiType, SystemType, Defer, system
<1>7. ASSUME NEW i \in Intent, Missed(a, i)
      PROVE  Calm
  <2>1. Quiet
    BY <1>1, <1>2, <1>7, DispatchIsQuiet, OtherMessages DEF Missed
  <2>2. QED
    BY <1>7, <2>1 DEF Calm, Quiet, UiType, SystemType, Missed, system
<1>8. QED
  BY <1>3, <1>4, <1>5, <1>6, <1>7 DEF HandledByActivity

\* The messages to the service that change nothing it keeps.
LEMMA AskingIsCalm ==
  ASSUME UiType, SystemType,
         OnStartCommand \/ \E d \in Devices : HandleAttached(d) \/ IgnorePermission(d) \/ IgnoreDetached(d)
  PROVE  Calm
<1>1. queue \in Seq(Message) /\ <<>> \in Seq(Other)
  BY DEF UiType
<1>2. CASE OnStartCommand
  <2>1. Quiet
    BY <1>1, <1>2, DispatchIsQuiet, OtherMessages DEF OnStartCommand
  <2>2. asked' \in [Devices -> Nat]
    BY <1>2 DEF OnStartCommand, SystemType
  <2>3. QED
    BY <1>2, <2>1, <2>2 DEF Calm, Quiet, UiType, SystemType, OnStartCommand
<1>3. ASSUME NEW d \in Devices, HandleAttached(d)
      PROVE  Calm
  <2>1. Quiet
    BY <1>1, <1>3, DispatchIsQuiet, OtherMessages, IntentType DEF HandleAttached
  <2>2. asked' \in [Devices -> Nat]
    BY <1>3 DEF HandleAttached, SystemType
  <2>3. QED
    BY <1>3, <2>1, <2>2 DEF Calm, Quiet, UiType, SystemType, HandleAttached
<1>4. ASSUME NEW d \in Devices, IgnorePermission(d)
      PROVE  Calm
  <2>1. PICK g \in BOOLEAN : Dispatch(UsbIntent(Permission(d, g)), <<>>)
    BY <1>4 DEF IgnorePermission
  <2>2. Quiet
    BY <1>1, <2>1, DispatchIsQuiet, OtherMessages, IntentType
  <2>3. QED
    BY <1>4, <2>2 DEF Calm, Quiet, UiType, SystemType, IgnorePermission, system
<1>5. ASSUME NEW d \in Devices, IgnoreDetached(d)
      PROVE  Calm
  <2>1. Quiet
    BY <1>1, <1>5, DispatchIsQuiet, OtherMessages, IntentType DEF IgnoreDetached
  <2>2. QED
    BY <1>5, <2>1 DEF Calm, Quiet, UiType, SystemType, IgnoreDetached, system
<1>6. QED
  BY <1>2, <1>3, <1>4, <1>5
-----------------------------------------------------------------------------
(* The steps of the service and of the threads.                            *)

\* The messages made of a list of truths.
LEMMA SayingType ==
  ASSUME NEW says \in Seq(BOOLEAN), Len(says) > 0
  PROVE  LET out == [k \in DOMAIN says |-> Radio(says[k])]
         IN  /\ out \in Seq(Message)
             /\ Has(out, RadioNews)
             /\ LastIn(out, RadioNews, {Radio(says[Len(says)])})
<1> DEFINE out == [k \in DOMAIN says |-> Radio(says[k])]
<1>1. Len(says) \in Nat \ {0} /\ DOMAIN says = 1 .. Len(says)
  BY LenProperties
<1>2. \A k \in 1 .. Len(says) : Radio(says[k]) \in RadioNews
  BY DEF RadioNews
<1>3. out \in [1 .. Len(says) -> Message]
  BY <1>1, <1>2, OtherMessages
<1>4. out \in Seq(Message) /\ Len(out) = Len(says)
  BY <1>1, <1>3
<1>5. \A k \in 1 .. Len(says) : out[k] = Radio(says[k])
  BY <1>1
<1>6. Has(out, RadioNews)
  BY <1>1, <1>2, <1>4, <1>5 DEF Has
<1>7. LastIn(out, RadioNews, {Radio(says[Len(says)])})
  BY <1>1, <1>2, <1>4, <1>5 DEF LastIn
<1>8. QED
  BY <1>4, <1>6, <1>7

\* What attachUsbDevice says of the radio ends with whether a thread was started, but
\* where the card has no endpoint.
LEMMA SaysType ==
  ASSUME NEW o \in {"started", "notCalibrated", "noEndpoint", "notOpened"}
  PROVE  /\ Says(o) \in Seq(BOOLEAN)
         /\ Len(Says(o)) > 0
         /\ o # "noEndpoint" => Says(o)[Len(Says(o))] = (o \in {"started", "notCalibrated"})
<1>1. CASE o \in {"started", "noEndpoint"}
  <2>1. Says(o) = <<TRUE, TRUE>>
    BY <1>1 DEF Says
  <2>2. Says(o) \in Seq(BOOLEAN) /\ Len(Says(o)) = 2
    BY <2>1
  <2>3. Says(o)[2] = TRUE
    BY <2>1
  <2>4. QED
    BY <1>1, <2>2, <2>3
<1>2. CASE o = "notCalibrated"
  <2>1. Says(o) = <<TRUE, FALSE, TRUE>>
    BY <1>2 DEF Says
  <2>2. Says(o) \in Seq(BOOLEAN) /\ Len(Says(o)) = 3
    BY <2>1
  <2>3. Says(o)[3] = TRUE
    BY <2>1
  <2>4. QED
    BY <1>2, <2>2, <2>3
<1>3. CASE o = "notOpened"
  <2>1. Says(o) = <<TRUE, FALSE>>
    BY <1>3 DEF Says
  <2>2. Says(o) \in Seq(BOOLEAN) /\ Len(Says(o)) = 2
    BY <2>1
  <2>3. Says(o)[2] = FALSE
    BY <2>1
  <2>4. QED
    BY <1>3, <2>2, <2>3
<1>4. QED
  BY <1>1, <1>2, <1>3

LEMMA SayGone ==
  /\ Radio(FALSE) \in RadioNews
  /\ <<Radio(FALSE)>> \in Seq(Message)
<1>1. Radio(FALSE) \in RadioNews
  BY DEF RadioNews
<1>2. ASSUME NEW m \in Message
      PROVE  <<m>> \in Seq(Message)
  OBVIOUS
<1>3. Radio(FALSE) \in Message
  BY <1>1, OtherMessages
<1>4. QED
  BY <1>1, <1>2, <1>3

\* What the service keeps, and that no thread of a card is out of reach.
ServiceHolds == ServiceType /\ ThreadsAreReachable

\* A card that has a source has no thread but that one's; a card that has none, none.
LEMMA MakingASource ==
  ASSUME ServiceHolds, NEW d \in Devices, NEW t \in {"new", "running"},
         mapping[d] = 0, made < MaxSources,
         made' = made + 1,
         source' = Append(source, [device |-> d, thread |-> t]),
         mapping' = [mapping EXCEPT ![d] = made + 1],
         lastUsb' = lastUsb
  PROVE  ServiceHolds'
<1> DEFINE new == [device |-> d, thread |-> t]
<1>1. /\ made \in Nat /\ made + 1 \in 0 .. MaxSources
      /\ source \in Seq(SourceType) /\ Len(source) = made
      /\ mapping \in [Devices -> 0 .. made] /\ lastUsb \in BOOLEAN
  BY Bounds DEF ServiceHolds, ServiceType
<1>2. new \in SourceType
  BY DEF SourceType, Thread
<1>3. /\ source' \in Seq(SourceType) /\ Len(source') = made + 1
      /\ source'[made + 1] = new
      /\ \A s \in 1 .. made : source'[s] = source[s]
  BY <1>1, <1>2, AppendProperties
<1>4. \A e \in Devices : mapping'[e] = IF e = d THEN made + 1 ELSE mapping[e]
  BY <1>1
<1>5. mapping' \in [Devices -> 0 .. made + 1]
  BY <1>1
<1>6. \A e \in Devices : mapping'[e] # 0 => source'[mapping'[e]].device = e
  <2> SUFFICES ASSUME NEW e \in Devices, mapping'[e] # 0
               PROVE  source'[mapping'[e]].device = e
    OBVIOUS
  <2>1. CASE e = d
    BY <1>3, <1>4, <2>1
  <2>2. CASE e # d
    <3>1. mapping'[e] = mapping[e] /\ mapping[e] \in 1 .. made
      BY <1>1, <1>4, <2>2
    <3>2. source[mapping[e]].device = e
      BY <3>1 DEF ServiceHolds, ServiceType
    <3>3. QED
      BY <1>3, <3>1, <3>2
  <2>3. QED
    BY <2>1, <2>2
<1>7. ServiceType'
  BY <1>1, <1>3, <1>5, <1>6 DEF ServiceType
<1>8. ThreadsAreReachable'
  <2> SUFFICES ASSUME NEW s \in 1 .. made + 1, source'[s].thread = "running"
               PROVE  mapping'[source'[s].device] = s
    BY DEF ThreadsAreReachable, Running
  <2>1. CASE s = made + 1
    BY <1>3, <1>4, <2>1
  <2>2. CASE s # made + 1
    <3>1. s \in 1 .. made /\ source'[s] = source[s]
      BY <1>1, <1>3, <2>2
    <3>2. source[s] \in SourceType /\ source[s].thread = "running"
      BY <1>1, <3>1
    <3>3. source[s].device \in Devices /\ mapping[source[s].device] = s
      BY <3>1, <3>2 DEF ServiceHolds, ThreadsAreReachable, Running, SourceType
    <3>4. source[s].device # d
      BY <1>1, <3>1, <3>3
    <3>5. QED
      BY <1>4, <3>1, <3>3, <3>4
  <2>3. QED
    BY <2>1, <2>2
<1>9. QED
  BY <1>7, <1>8 DEF ServiceHolds

\* A thread that is told to stop, or that ends, is not running any more; the others go on.
LEMMA TurningAThread ==
  ASSUME ServiceHolds, NEW s \in 1 .. made, NEW t \in Thread \ {"running"},
         source' = [source EXCEPT ![s] = [source[s] EXCEPT !.thread = t]]
  PROVE  /\ source' \in Seq(SourceType) /\ Len(source') = made
         /\ \A r \in 1 .. made : source'[r].device = source[r].device
         /\ \A r \in 1 .. made : r # s => source'[r] = source[r]
         /\ source'[s].thread = t
<1>1. source \in Seq(SourceType) /\ Len(source) = made /\ made \in Nat
  BY DEF ServiceHolds, ServiceType
<1>2. source[s] \in SourceType
  BY <1>1
<1>3. [source[s] EXCEPT !.thread = t] \in SourceType
  BY <1>2 DEF SourceType
<1>4. /\ source' \in Seq(SourceType) /\ Len(source') = made
      /\ \A r \in 1 .. made : source'[r] = IF r = s THEN [source[s] EXCEPT !.thread = t] ELSE source[r]
  BY <1>1, <1>3, ExceptSeq
<1>5. [source[s] EXCEPT !.thread = t].device = source[s].device
      /\ [source[s] EXCEPT !.thread = t].thread = t
  BY <1>2 DEF SourceType
<1>6. QED
  BY <1>4, <1>5

\* No thread runs of a card that has no source.
LEMMA NoneOfIt ==
  ASSUME ServiceHolds, NEW d \in Devices, mapping[d] = 0
  PROVE  \A s \in Running : source[s].device # d
BY DEF ServiceHolds, ServiceType, ThreadsAreReachable, Running

LEMMA ForgettingASource ==
  ASSUME ServiceHolds, NEW d \in Devices, mapping[d] # 0,
         made' = made, lastUsb' = lastUsb,
         source' = [source EXCEPT ![mapping[d]].thread = IF @ = "running" THEN "stopped" ELSE @],
         mapping' = [mapping EXCEPT ![d] = 0]
  PROVE  /\ ServiceHolds'
         /\ \A s \in Running' : s \in Running /\ source'[s].device = source[s].device /\ source[s].device # d
<1> DEFINE s == mapping[d]
           t == IF source[s].thread = "running" THEN "stopped" ELSE source[s].thread
<1>1. /\ made \in 0 .. MaxSources /\ made \in Nat /\ source \in Seq(SourceType) /\ Len(source) = made
      /\ mapping \in [Devices -> 0 .. made] /\ lastUsb \in BOOLEAN
  BY Bounds DEF ServiceHolds, ServiceType
<1>2. s \in 1 .. made
  BY <1>1
<1>3. t \in Thread \ {"running"}
  <2>1. source[s] \in SourceType
    BY <1>1, <1>2
  <2>2. source[s].thread \in Thread
    BY <2>1 DEF SourceType
  <2>3. QED
    BY <2>2 DEF Thread
<1>4. source' = [source EXCEPT ![s] = [source[s] EXCEPT !.thread = t]]
  BY <1>1, <1>2
<1>5. /\ source' \in Seq(SourceType) /\ Len(source') = made
      /\ \A r \in 1 .. made : source'[r].device = source[r].device
      /\ \A r \in 1 .. made : r # s => source'[r] = source[r]
      /\ source'[s].thread = t
  BY <1>2, <1>3, <1>4, TurningAThread
<1>6. /\ mapping' \in [Devices -> 0 .. made]
      /\ \A e \in Devices : mapping'[e] = IF e = d THEN 0 ELSE mapping[e]
  BY <1>1
<1>7. \A e \in Devices : mapping'[e] # 0 => source'[mapping'[e]].device = e
  BY <1>1, <1>5, <1>6 DEF ServiceHolds, ServiceType
<1>8. ServiceType'
  BY <1>1, <1>5, <1>6, <1>7 DEF ServiceType
<1>9. \A r \in Running' : r \in Running /\ r # s /\ source'[r] = source[r]
  BY <1>1, <1>3, <1>5 DEF Running
<1>10. ASSUME NEW r \in Running'
       PROVE  /\ r \in Running /\ source'[r] = source[r]
              /\ source[r].device \in Devices /\ source[r].device # d
              /\ mapping[source[r].device] = r
  <2>1. r \in Running /\ r # s /\ source'[r] = source[r]
    BY <1>9
  <2>2. r \in 1 .. made /\ source[r] \in SourceType
    BY <1>1, <2>1 DEF Running
  <2>3. mapping[source[r].device] = r
    BY <2>1 DEF ServiceHolds, ThreadsAreReachable
  <2>4. QED
    BY <2>1, <2>2, <2>3 DEF SourceType
<1>11. ThreadsAreReachable'
  BY <1>6, <1>10 DEF ThreadsAreReachable
<1>12. QED
  BY <1>8, <1>10, <1>11 DEF ServiceHolds

LEMMA EndingAThread ==
  ASSUME ServiceHolds, NEW s \in Sources, ThreadEnds(s)
  PROVE  ServiceHolds' /\ Running' = Running
<1>1. /\ made \in 0 .. MaxSources /\ made \in Nat /\ source \in Seq(SourceType) /\ Len(source) = made
      /\ mapping \in [Devices -> 0 .. made] /\ lastUsb \in BOOLEAN
  BY Bounds DEF ServiceHolds, ServiceType
<1>2. s \in 1 .. made /\ source[s].thread = "stopped"
  BY <1>1 DEF ThreadEnds, Sources
<1>3. source' = [source EXCEPT ![s] = [source[s] EXCEPT !.thread = "ended"]]
      /\ UNCHANGED <<mapping, made, lastUsb>>
  BY DEF ThreadEnds
<1>4. /\ source' \in Seq(SourceType) /\ Len(source') = made
      /\ \A r \in 1 .. made : source'[r].device = source[r].device
      /\ \A r \in 1 .. made : r # s => source'[r] = source[r]
      /\ source'[s].thread = "ended"
  BY <1>2, <1>3, TurningAThread DEF Thread
<1>5. Running' = Running
  BY <1>2, <1>3, <1>4 DEF Running
<1>6. ServiceType'
  BY <1>1, <1>3, <1>4 DEF ServiceHolds, ServiceType
<1>7. ThreadsAreReachable'
  BY <1>3, <1>4, <1>5 DEF ServiceHolds, ThreadsAreReachable, Running
<1>8. QED
  BY <1>5, <1>6, <1>7 DEF ServiceHolds

-----------------------------------------------------------------------------
\* Every step keeps what the service holds, and tells the radio's news in one of four ways:
\* it says nothing and no thread comes or goes, it makes a source and says what came of it,
\* it forgets one and says so, or it is what hears the news.
SaysNothing == Quiet /\ Running' = Running /\ lastUsb' = lastUsb

SaysWhatCame ==
  \E d \in Devices, o \in Outcomes \cup {"notOpened"} :
    /\ mapping[d] = 0
    /\ \E m \in Other : Dispatch(m, [k \in DOMAIN Says(o) |-> Radio(Says(o)[k])])
    /\ made' = made + 1
    /\ source' = Append(source,
         [device |-> d, thread |-> IF o \in {"started", "notCalibrated"} THEN "running" ELSE "new"])
    /\ lastUsb' = lastUsb

SaysItIsGone ==
  \E d \in Devices :
    /\ \E m \in Other : Dispatch(m, <<Radio(FALSE)>>)
    /\ \A s \in Running' : s \in Running /\ source'[s].device = source[s].device /\ source[s].device # d
    /\ lastUsb' = lastUsb

Hears == (\E b \in BOOLEAN : RadioMessage(b)) /\ Running' = Running

LEMMA StepOfEither ==
  ASSUME UiType, SystemType, ServiceHolds, [Next]_vars
  PROVE  /\ UiType' /\ SystemType' /\ ServiceHolds'
         /\ SaysNothing \/ SaysWhatCame \/ SaysItIsGone \/ Hears
<1>1. queue \in Seq(Message)
  BY DEF UiType
<1>2. ASSUME UNCHANGED service
      PROVE  ServiceHolds' /\ Running' = Running /\ lastUsb' = lastUsb
  BY <1>2 DEF service, ServiceHolds, ServiceType, ThreadsAreReachable, Running
<1>3. ASSUME Calm
      PROVE  /\ UiType' /\ SystemType' /\ ServiceHolds'
             /\ SaysNothing
  BY <1>2, <1>3 DEF Calm, SaysNothing
<1>4. CASE UNCHANGED vars
  BY <1>1, <1>3, <1>4, IdleIsQuiet DEF vars, system, Calm, UiType, SystemType
<1>5. CASE System
  BY <1>3, <1>5, PlugIsCalm, UnplugIsCalm, AnswerIsCalm DEF System
<1>6. CASE \E a \in Activities : Create(a) \/ Leave(a) \/ PostStart(a) \/ PostConnected(a)
  BY <1>3, <1>6, ActivityIsCalm
<1>7. CASE \E a \in Activities : HandledByActivity(a)
  BY <1>3, <1>7, HandledByActivityIsCalm
<1>8. CASE OnStartCommand \/ \E d \in Devices : HandleAttached(d) \/ IgnorePermission(d) \/ IgnoreDetached(d)
  BY <1>3, <1>8, AskingIsCalm
<1>9. ASSUME NEW d \in Devices, NEW o \in Outcomes \cup {"notOpened"}, HandlePermission(d, o)
      PROVE  UiType' /\ SystemType' /\ ServiceHolds' /\ SaysWhatCame
  <2> DEFINE out == [k \in DOMAIN Says(o) |-> Radio(Says(o)[k])]
             m == UsbIntent(Permission(d, TRUE))
             t == IF o \in {"started", "notCalibrated"} THEN "running" ELSE "new"
  <2>1. /\ Dispatch(m, out) /\ mapping[d] = 0 /\ made < MaxSources /\ made' = made + 1
        /\ source' = Append(source, [device |-> d, thread |-> t])
        /\ mapping' = [mapping EXCEPT ![d] = made + 1]
        /\ UNCHANGED <<ui, plugged, asked, permitted, lastUsb>>
    BY <1>9 DEF HandlePermission, system
  <2>2. m \in Other
    BY OtherMessages, IntentType
  <2>3. out \in Seq(Message)
    BY DeviceAssumption, SaysType, SayingType
  <2>4. queue' \in Seq(Message)
    BY <1>1, <2>1, <2>3, DispatchMoves
  <2>5. ServiceHolds'
    BY <2>1, MakingASource
  <2>6. SaysWhatCame
    BY <2>1, <2>2 DEF SaysWhatCame
  <2>7. QED
    BY <2>1, <2>4, <2>5, <2>6 DEF UiType, SystemType
<1>10. ASSUME NEW d \in Devices, HandleDetached(d)
       PROVE  UiType' /\ SystemType' /\ ServiceHolds' /\ SaysItIsGone
  <2>1. /\ Dispatch(UsbIntent(Detached(d)), <<Radio(FALSE)>>)
        /\ UsbIntent(Detached(d)) \in Other
        /\ UNCHANGED <<ui, plugged, asked, permitted, lastUsb>>
    BY <1>10, OtherMessages, IntentType DEF HandleDetached, system
  <2>2. <<Radio(FALSE)>> \in Seq(Message)
    BY SayGone
  <2>3. queue' \in Seq(Message)
    BY <1>1, <2>1, <2>2, DispatchMoves
  <2>4. /\ ServiceHolds'
        /\ \A s \in Running' : s \in Running /\ source'[s].device = source[s].device /\ source[s].device # d
    BY <1>10, ForgettingASource DEF HandleDetached
  <2>5. QED
    BY <2>1, <2>3, <2>4 DEF UiType, SystemType, SaysItIsGone
<1>11. ASSUME NEW b \in BOOLEAN, RadioMessage(b)
       PROVE  UiType' /\ SystemType' /\ ServiceHolds' /\ Hears
  <2>1. /\ Dispatch(Radio(b), <<>>) /\ lastUsb' = b
        /\ UNCHANGED <<ui, plugged, asked, permitted, mapping, source, made>>
    BY <1>11 DEF RadioMessage, system
  <2>2. queue' \in Seq(Message)
    <3>1. <<>> \in Seq(Message)
      OBVIOUS
    <3>2. QED
      BY <1>1, <2>1, <3>1, DispatchMoves
  <2>3. ServiceHolds' /\ Running' = Running
    BY <2>1 DEF ServiceHolds, ServiceType, ThreadsAreReachable, Running
  <2>4. QED
    BY <1>11, <2>1, <2>2, <2>3 DEF UiType, SystemType, Hears
<1>12. ASSUME NEW s \in Sources, ThreadEnds(s)
       PROVE  UiType' /\ SystemType' /\ ServiceHolds' /\ SaysNothing
  <2>1. queue' = queue /\ UNCHANGED <<ui, plugged, asked, permitted, lastUsb>>
    BY <1>12 DEF ThreadEnds, system
  <2>2. Quiet
    BY <1>1, <2>1, IdleIsQuiet
  <2>3. ServiceHolds' /\ Running' = Running
    BY <1>12, EndingAThread
  <2>4. QED
    BY <2>1, <2>2, <2>3 DEF UiType, SystemType, SaysNothing
<1>13. CASE HandledByService
  BY <1>8, <1>9, <1>10, <1>11, <1>13 DEF HandledByService
<1>14. QED
  BY <1>4, <1>5, <1>6, <1>7, <1>12, <1>13 DEF Next, Looper

LEMMA InitHolds ==
  ASSUME Init
  PROVE  UiType /\ SystemType /\ ServiceHolds /\ Running = {}
<1>1. UiType
  BY DEF Init, UiType, Fields
<1>2. SystemType
  BY DEF Init, SystemType
<1>3. ServiceType
  <2>1. source = <<>> /\ made = 0 /\ lastUsb = FALSE /\ mapping = [d \in Devices |-> 0]
    BY DEF Init
  <2>2. source \in Seq(SourceType) /\ Len(source) = 0
    BY <2>1
  <2>3. mapping \in [Devices -> 0 .. made] /\ \A d \in Devices : mapping[d] = 0
    BY <2>1
  <2>4. Len(source) = made /\ made \in 0 .. MaxSources /\ lastUsb \in BOOLEAN
    <3>1. Len(source) = made /\ made \in 0 .. MaxSources
      BY Bounds, <2>1, <2>2
    <3>2. lastUsb \in BOOLEAN
      BY <2>1
    <3>3. QED
      BY <3>1, <3>2
  <2>5. \A d \in Devices : mapping[d] # 0 => source[mapping[d]].device = d
    BY <2>3
  <2>6. QED
    BY <2>2, <2>3, <2>4, <2>5 DEF ServiceType
<1>4. Running = {}
  BY DEF Init, Running
<1>5. QED
  BY <1>1, <1>2, <1>3, <1>4 DEF ServiceHolds, ThreadsAreReachable

\* However often devices are announced, asked for, permitted and unplugged, and however
\* opening one ends, the service can reach every thread that runs, and a device has at most
\* one: attachUsbDevice and usbDetached keep mDevMapping in step with the threads.
THEOREM ThreadsStayReachable == Spec => [](TypeOK /\ ThreadsAreReachable)
<1>1. TypeOK /\ ThreadsAreReachable <=> UiType /\ SystemType /\ ServiceHolds
  BY TypeParts DEF ServiceHolds
<1>2. Init => TypeOK /\ ThreadsAreReachable
  BY <1>1, InitHolds
<1> DEFINE Inv == UiType /\ SystemType /\ ServiceHolds
<1>3. Init => Inv
  BY InitHolds
<1>4. Inv /\ [Next]_vars => Inv'
  BY StepOfEither
<1>5. Inv => TypeOK /\ ThreadsAreReachable
  BY <1>1
<1>6. QED
  BY <1>3, <1>4, <1>5, PTL DEF Spec

-----------------------------------------------------------------------------
(* One card.                                                               *)

\* Of the radio messages in the queue the last says whether a thread runs; when there is
\* none, the service has heard it.
NewsIsTrue ==
  /\ LastIn(queue, RadioNews, {Radio(Running # {})})
  /\ ~Has(queue, RadioNews) => (lastUsb <=> Running # {})

\* The inductive invariant of the second theorem.
OneCardInv == UiType /\ SystemType /\ ServiceHolds /\ NewsIsTrue

\* One card, and one that has the endpoint that is read: the driver says nothing more, when
\* it does not find it, than what it said before.
OneCard(d) == Devices = {d} /\ "noEndpoint" \notin Outcomes

\* A message is dispatched that is not of the radio, and what is posted says of the radio,
\* in the end, what is the case then.
LEMMA NewsAreTold ==
  ASSUME queue \in Seq(Message), NEW m \in Other, NEW out \in Seq(Message), Dispatch(m, out),
         Has(out, RadioNews), LastIn(out, RadioNews, {Radio((Running # {})')})
  PROVE  NewsIsTrue'
<1>1. Has(queue', RadioNews) /\ LastIn(queue', RadioNews, {Radio((Running # {})')})
  BY DispatchMoves
<1>2. LastIn(queue, RadioNews, {Radio(Running # {})})'
  BY <1>1
<1>3. Has(queue, RadioNews)'
  BY <1>1
<1>4. QED
  BY <1>2, <1>3 DEF NewsIsTrue

LEMMA NewsStayTrue ==
  ASSUME NEW d, OneCard(d), OneCardInv, [Next]_vars
  PROVE  NewsIsTrue'
<1>1. queue \in Seq(Message) /\ made \in Nat
      /\ source \in Seq(SourceType) /\ Len(source) = made
  BY Bounds DEF OneCardInv, UiType, ServiceHolds, ServiceType
<1>2. SaysNothing \/ SaysWhatCame \/ SaysItIsGone \/ Hears
  BY StepOfEither DEF OneCardInv
<1>3. ASSUME NEW s \in Running, NEW e \in Devices
      PROVE  source[s].device = e
  <2>1. s \in 1 .. made
    BY DEF Running
  <2>2. source[s] \in SourceType
    BY <1>1, <2>1
  <2>3. source[s].device \in Devices
    BY <2>2 DEF SourceType
  <2>4. QED
    BY <2>3 DEF OneCard
<1>4. CASE SaysNothing
  <2>1. /\ LastIn(queue', RadioNews, {Radio(Running # {})})
        /\ ~Has(queue', RadioNews) => (lastUsb <=> Running # {})
    BY <1>4 DEF SaysNothing, Quiet, OneCardInv, NewsIsTrue
  <2>2. LastIn(queue, RadioNews, {Radio(Running # {})})'
    BY <1>4, <2>1 DEF SaysNothing
  <2>3. (~Has(queue, RadioNews) => (lastUsb <=> Running # {}))'
    BY <1>4, <2>1 DEF SaysNothing
  <2>4. QED
    BY <2>2, <2>3 DEF NewsIsTrue
<1>5. CASE SaysWhatCame
  <2>1. PICK e \in Devices, o \in Outcomes \cup {"notOpened"}, m \in Other :
          /\ mapping[e] = 0
          /\ Dispatch(m, [k \in DOMAIN Says(o) |-> Radio(Says(o)[k])])
          /\ made' = made + 1
          /\ source' = Append(source,
               [device |-> e, thread |-> IF o \in {"started", "notCalibrated"} THEN "running" ELSE "new"])
    BY <1>5 DEF SaysWhatCame
  <2> DEFINE out == [k \in DOMAIN Says(o) |-> Radio(Says(o)[k])]
             t == IF o \in {"started", "notCalibrated"} THEN "running" ELSE "new"
  <2>2. o \in {"started", "notCalibrated", "noEndpoint", "notOpened"} /\ o # "noEndpoint"
    BY DeviceAssumption DEF OneCard
  <2>3. /\ out \in Seq(Message) /\ Has(out, RadioNews)
        /\ LastIn(out, RadioNews, {Radio(Says(o)[Len(Says(o))])})
    BY <2>2, SaysType, SayingType
  <2>4. Running = {}
    BY <1>3, <2>1, NoneOfIt DEF OneCardInv
  <2>5. /\ [device |-> e, thread |-> t] \in SourceType
        /\ source'[made + 1] = [device |-> e, thread |-> t]
        /\ \A s \in 1 .. made : source'[s] = source[s]
    BY <1>1, <2>1, AppendProperties DEF SourceType, Thread
  <2>6. (Running # {})' <=> o \in {"started", "notCalibrated"}
    <3>1. \A s \in 1 .. made : source'[s].thread # "running"
      BY <2>4, <2>5 DEF Running
    <3>2. source'[made + 1].thread = "running" <=> o \in {"started", "notCalibrated"}
      BY <2>5
    <3>3. made' = made + 1 /\ made + 1 \in 1 .. made + 1
          /\ \A s \in 1 .. made + 1 : s = made + 1 \/ s \in 1 .. made
      BY <1>1, <2>1
    <3>4. Running' = {s \in 1 .. made + 1 : source'[s].thread = "running"}
      BY <3>3 DEF Running
    <3>5. QED
      BY <3>1, <3>2, <3>3, <3>4
  <2>7. LastIn(out, RadioNews, {Radio((Running # {})')})
    <3>1. Says(o)[Len(Says(o))] = (o \in {"started", "notCalibrated"})
      BY <2>2, SaysType
    <3>2. Says(o)[Len(Says(o))] = (Running # {})'
      BY <2>6, <3>1
    <3>3. QED
      BY <2>3, <3>2
  <2>8. QED
    BY <1>1, <2>1, <2>3, <2>7, NewsAreTold
<1>6. CASE SaysItIsGone
  <2>1. PICK e \in Devices, m \in Other :
          /\ Dispatch(m, <<Radio(FALSE)>>)
          /\ \A s \in Running' : s \in Running /\ source'[s].device = source[s].device /\ source[s].device # e
    BY <1>6 DEF SaysItIsGone
  <2>2. \A s \in Running : source[s].device = e
    BY <1>3
  <2>3. (Running # {})' = FALSE
    BY <2>1, <2>2
  <2>4. Radio(FALSE) \in RadioNews /\ <<Radio(FALSE)>> \in Seq(Message)
    BY SayGone
  <2>5. Has(<<Radio(FALSE)>>, RadioNews) /\ LastIn(<<Radio(FALSE)>>, RadioNews, {Radio((Running # {})')})
    BY <2>3, <2>4, HasOne, LastOfOne
  <2>6. QED
    BY <1>1, <2>1, <2>4, <2>5, NewsAreTold
<1>7. CASE Hears
  <2>1. PICK b \in BOOLEAN : Dispatch(Radio(b), <<>>) /\ lastUsb' = b
    BY <1>7 DEF Hears, RadioMessage
  <2>2. Running' = Running
    BY <1>7 DEF Hears
  <2>3. <<>> \in Seq(Message) /\ ~Has(<<>>, RadioNews) /\ \A G : LastIn(<<>>, RadioNews, G)
    BY HasNone, LastOfNone
  <2>4. Radio(b) \in RadioNews
    BY DEF RadioNews
  <2>5. LastIn(queue', RadioNews, {Radio(Running # {})})
    BY <1>1, <2>1, <2>3, DispatchMoves DEF OneCardInv, NewsIsTrue
  <2>6. Radio(b) = Radio(Running # {}) \/ Has(queue', RadioNews)
    <3>1. LastIn(queue, RadioNews, {Radio(Running # {})})
      BY DEF OneCardInv, NewsIsTrue
    <3>2. Radio(b) \in {Radio(Running # {})} \/ Has(Tail(queue), RadioNews)
      BY <1>1, <2>1, <2>3, <2>4, <3>1, DispatchMoves
    <3>3. Has(queue', RadioNews) <=> Has(Tail(queue), RadioNews) \/ Has(<<>>, RadioNews)
      BY <1>1, <2>1, <2>3, DispatchMoves
    <3>4. QED
      BY <3>2, <3>3
  <2>7. Radio(b) = Radio(Running # {}) => (b <=> Running # {})
    BY DEF Radio
  <2>8. LastIn(queue, RadioNews, {Radio(Running # {})})'
    BY <2>2, <2>5
  <2>9. (~Has(queue, RadioNews) => (lastUsb <=> Running # {}))'
    BY <2>1, <2>2, <2>6, <2>7
  <2>10. QED
    BY <2>8, <2>9 DEF NewsIsTrue
<1>8. QED
  BY <1>2, <1>4, <1>5, <1>6, <1>7

\* With one card, mDevMapping and mLastUsbState tell of the capture thread there is: it can
\* be reached, and once everything posted has been handled the radio is reported present
\* exactly while it is read.  With two cards the service is told by the one that goes that
\* there is no radio, whatever the other does.
THEOREM ThreadsStayKnown ==
  ASSUME NEW d, OneCard(d)
  PROVE  Spec => []ThreadsAreKnown
<1>1. Init => OneCardInv
  <2> SUFFICES ASSUME Init
               PROVE  OneCardInv
    OBVIOUS
  <2>1. UiType /\ SystemType /\ ServiceHolds /\ Running = {}
    BY InitHolds
  <2>2. queue = <<>> /\ ~lastUsb
    BY DEF Init
  <2>3. NewsIsTrue
    BY <2>1, <2>2, HasNone, LastOfNone DEF NewsIsTrue
  <2>4. QED
    BY <2>1, <2>3 DEF OneCardInv
<1>2. OneCardInv /\ [Next]_vars => OneCardInv'
  <2> SUFFICES ASSUME OneCardInv, [Next]_vars
               PROVE  OneCardInv'
    OBVIOUS
  <2>1. UiType' /\ SystemType' /\ ServiceHolds'
    BY StepOfEither DEF OneCardInv
  <2>2. NewsIsTrue'
    BY NewsStayTrue
  <2>3. QED
    BY <2>1, <2>2 DEF OneCardInv
<1>3. OneCardInv => ThreadsAreKnown
  <2> SUFFICES ASSUME OneCardInv
               PROVE  ThreadsAreKnown
    OBVIOUS
  <2>1. TypeOK /\ ThreadsAreReachable
    BY TypeParts DEF OneCardInv, ServiceHolds
  <2>2. queue = <<>> => ~Has(queue, RadioNews)
    BY HasNone
  <2>3. PresentIsRunning
    BY <2>2 DEF OneCardInv, NewsIsTrue, PresentIsRunning
  <2>4. QED
    BY <2>1, <2>3 DEF ThreadsAreKnown
<1>4. QED
  BY <1>1, <1>2, <1>3, PTL DEF Spec

-----------------------------------------------------------------------------
(* Reading the EEPROM.  The driver and the chip advance in step, a bit of the command and then  *)
(* a bit of the word at a time, as long as nothing is lost; the invariant says how far each is  *)
(* at each place, and what a lost transfer leaves of it.                                        *)

(* What the driver and the chip have come to. *)

\* The chip is selected, and the clock is low.
Selected ==
  {"startHigh", "startLow", "command", "bit", "bitHigh", "bitLow", "release", "data",
   "dataHigh", "sample", "dataLow", "cleanup"}
ClockIsLow == {"startHigh", "command", "bit", "bitHigh", "release", "data", "dataHigh"}

\* The chip reads the word that is wanted, and has yet to give this many bits of it.
Reading(bits) == chip.mode = "reading" /\ Operand(chip.bits) = word /\ chip.left = bits

\* This many bits of the command have yet to come.
ToCome(bits) ==
  IF bits = WidthOpcode + Width THEN chip.mode = "waiting"
  ELSE IF bits = 0 THEN Reading(WordBits)
  ELSE /\ chip.mode = "command"
       /\ Len(chip.bits) = 2 + Width - bits
       /\ \A k \in 1 .. Len(chip.bits) : chip.bits[k] = Bit(Command, 2 + Width - k)

\* The word has been received but for its lowest bits.
Received(bits) == buf = (memory[word] \div 2^bits) * 2^bits

\* A read that has lost nothing.
OnTrack ==
  /\ chip.mode \notin {"erase", "write", "done"}
  /\ at \in Selected => reg.select /\ pins.select
  /\ at \in ClockIsLow => ~reg.clock /\ ~pins.clock
  /\ at = "startHigh" => ~reg.in
  /\ at \in {"startHigh", "startLow", "command"} => chip.mode = "waiting"
  /\ at \in {"bit", "bitHigh"} => ToCome(togo)
  /\ at = "bitHigh" => reg.in = (Bit(Command, togo - 1) = 1)
  /\ at = "bitLow" => ToCome(togo - 1)
  /\ at \in {"release", "data"} => Reading(WordBits)
  /\ at = "dataHigh" => Reading(togo) /\ Received(togo)
  /\ at = "sample" => Reading(togo - 1) /\ Received(togo)
  /\ at = "dataLow" => Reading(togo - 1) /\ Received(togo - 1)
  /\ at = "cleanup" => buf = memory[word]

\* A read that has lost a transfer: the chip may have been told anything, but not to
\* change what it holds after it was permitted to.
Disturbed ==
  /\ chip.mode \in {"erase", "write"} => ~chip.enabled
  /\ chip.enabled => \/ chip.mode = "done"
                     \/ ~pins.select /\ (at # "idle" => ~reg.select)

\* The chip is not selected between two reads, even if it was once not told so.
Released ==
  /\ ~pins.select => chip.mode = "waiting"
  /\ at \in {"idle", "startup", "select", "endLow"} => ~pins.select
  /\ at = "endHigh" /\ pins.select => lost > 0
  /\ at \in {"deselect", "endHigh", "endLow"} => ~reg.select
  /\ at = "select" => reg = [AllLow EXCEPT !.select = TRUE]

Losses ==
  /\ lost = 0 => clean /\ ~chip.enabled
  /\ at = "startup" => clean

\* How far the loops over the bits have come.
Loops ==
  /\ chip.mode = "command" => Len(chip.bits) < 2 + Width
  /\ at \in {"bit", "bitHigh", "bitLow"} => togo \in 1 .. WidthOpcode + Width
  /\ at \in {"dataHigh", "sample", "dataLow"} => togo \in 1 .. WordBits
  /\ at \in {"dataHigh", "sample"} => buf <= 2^WordBits - 2^togo
  /\ at = "dataLow" => buf <= 2^WordBits - 2^(togo - 1)

Driven ==
  /\ EepromTypeOK
  /\ ~altered
  /\ IF clean THEN OnTrack ELSE Disturbed
  /\ Released
  /\ Losses
  /\ Loops
-----------------------------------------------------------------------------
(* Bits. *)

\* The sizes that there are.
LEMMA Sizes ==
  /\ Width \in 6 .. 8 /\ WordBits = 16 /\ 2^WordBits = 65536
  /\ \/ Width = 6 /\ 2^Width = 64
     \/ Width = 8 /\ 2^Width = 256
<1>1. CASE Width = 6
  BY <1>1 DEF WordBits
<1>2. CASE Width = 8
  BY <1>2 DEF WordBits
<1>3. QED
  BY <1>1, <1>2, EepromAssumption

\* The read command is a start bit, an opcode and the address.
LEMMA CommandBits ==
  ASSUME NEW w \in Address,
         NEW c, c = ReadOpcode * 2^Width + w
  PROVE  /\ Bit(c, Width + 2) = 1 /\ Bit(c, Width + 1) = 1 /\ Bit(c, Width) = 0
         /\ \A k \in 0 .. Width - 1 : Bit(c, k) = Bit(w, k)
<1>1. CASE Width = 6
  <2>1. w \in 0 .. 63 /\ c = 384 + w
    BY <1>1, Sizes DEF Address, ReadOpcode
  <2>2. Bit(c, 8) = 1 /\ Bit(c, 7) = 1 /\ Bit(c, 6) = 0
    BY <2>1 DEF Bit
  <2>3. /\ Bit(c, 0) = Bit(w, 0) /\ Bit(c, 1) = Bit(w, 1) /\ Bit(c, 2) = Bit(w, 2)
    BY <2>1 DEF Bit
  <2>4. /\ Bit(c, 3) = Bit(w, 3) /\ Bit(c, 4) = Bit(w, 4) /\ Bit(c, 5) = Bit(w, 5)
    BY <2>1 DEF Bit
  <2>5. QED
    BY <1>1, <2>2, <2>3, <2>4
<1>2. CASE Width = 8
  <2>1. w \in 0 .. 255 /\ c = 1536 + w
    BY <1>2, Sizes DEF Address, ReadOpcode
  <2>2. Bit(c, 10) = 1 /\ Bit(c, 9) = 1 /\ Bit(c, 8) = 0
    BY <2>1 DEF Bit
  <2>3. /\ Bit(c, 0) = Bit(w, 0) /\ Bit(c, 1) = Bit(w, 1) /\ Bit(c, 2) = Bit(w, 2)
    BY <2>1 DEF Bit
  <2>4. /\ Bit(c, 3) = Bit(w, 3) /\ Bit(c, 4) = Bit(w, 4) /\ Bit(c, 5) = Bit(w, 5)
    BY <2>1 DEF Bit
  <2>5. Bit(c, 6) = Bit(w, 6) /\ Bit(c, 7) = Bit(w, 7)
    BY <2>1 DEF Bit
  <2>6. QED
    BY <1>2, <2>2, <2>3, <2>4, <2>5
<1>3. QED
  BY <1>1, <1>2, Sizes

\* A number of eight bits is the sum of them.
LEMMA SumOfBits ==
  ASSUME NEW a \in 0 .. 255
  PROVE  a = Bit(a, 0) + 2 * Bit(a, 1) + 4 * Bit(a, 2) + 8 * Bit(a, 3) + 16 * Bit(a, 4)
             + 32 * Bit(a, 5) + 64 * Bit(a, 6) + 128 * Bit(a, 7)
<1>1. Bit(a, 0) \in Nat /\ a \div 2 \in Nat /\ a = 2 * (a \div 2) + Bit(a, 0)
  BY DEF Bit
<1>2. Bit(a, 1) \in Nat /\ a \div 4 \in Nat /\ a \div 2 = 2 * (a \div 4) + Bit(a, 1)
  BY DEF Bit
<1>3. Bit(a, 2) \in Nat /\ a \div 8 \in Nat /\ a \div 4 = 2 * (a \div 8) + Bit(a, 2)
  BY DEF Bit
<1>4. Bit(a, 3) \in Nat /\ a \div 16 \in Nat /\ a \div 8 = 2 * (a \div 16) + Bit(a, 3)
  BY DEF Bit
<1>5. Bit(a, 4) \in Nat /\ a \div 32 \in Nat /\ a \div 16 = 2 * (a \div 32) + Bit(a, 4)
  BY DEF Bit
<1>6. Bit(a, 5) \in Nat /\ a \div 64 \in Nat /\ a \div 32 = 2 * (a \div 64) + Bit(a, 5)
  BY DEF Bit
<1>7. Bit(a, 6) \in Nat /\ a \div 128 \in Nat /\ a \div 64 = 2 * (a \div 128) + Bit(a, 6)
  BY DEF Bit
<1>8. Bit(a, 7) \in Nat /\ a \div 128 = Bit(a, 7)
  BY DEF Bit
<1>9. QED
  BY <1>1, <1>2, <1>3, <1>4, <1>5, <1>6, <1>7, <1>8

\* The operand of an instruction is the address whose bits it has.
LEMMA OperandIs ==
  ASSUME NEW w \in Address,
         NEW bits,
         \A k \in 0 .. Width - 1 : bits[2 + Width - k] = Bit(w, k)
  PROVE  Operand(bits) = w
<1>1. ASSUME NEW a \in Address, \A k \in 0 .. Width - 1 : Bit(a, k) = bits[2 + Width - k]
      PROVE  a = w
  <2>1. \A k \in 0 .. Width - 1 : Bit(a, k) = Bit(w, k)
    BY <1>1
  <2>6. /\ Bit(a, 0) = Bit(w, 0) /\ Bit(a, 1) = Bit(w, 1) /\ Bit(a, 2) = Bit(w, 2)
        /\ Bit(a, 3) = Bit(w, 3) /\ Bit(a, 4) = Bit(w, 4) /\ Bit(a, 5) = Bit(w, 5)
    BY <2>1, Sizes
  <2>2. a \in 0 .. 255 /\ w \in 0 .. 255
    BY Sizes DEF Address
  <2>3. CASE Width = 8
    <3>1. Bit(a, 6) = Bit(w, 6) /\ Bit(a, 7) = Bit(w, 7)
      BY <2>1, <2>3
    <3>2. QED
      BY <2>2, <2>6, <3>1, SumOfBits
  <2>4. CASE Width = 6
    <3>1. Bit(a, 6) = 0 /\ Bit(a, 7) = 0 /\ Bit(w, 6) = 0 /\ Bit(w, 7) = 0
      BY <2>4, Sizes DEF Address, Bit
    <3>2. QED
      BY <2>2, <2>6, <3>1, SumOfBits
  <2>5. QED
    BY <2>3, <2>4, Sizes
<1>2. QED
  BY <1>1 DEF Operand

\* A half, and what is left.
LEMMA HalfOf ==
  ASSUME NEW n \in Nat
  PROVE  \E h \in Nat : (n = h + h /\ n % 2 = 0) \/ (n = h + h + 1 /\ n % 2 = 1)
<1>1. n \div 2 \in Nat
  OBVIOUS
<1>2. n = n \div 2 + n \div 2 \/ n = n \div 2 + n \div 2 + 1
  OBVIOUS
<1>3. \A h \in Nat : (h + h) % 2 = 0 /\ (h + h + 1) % 2 = 1
  OBVIOUS
<1>4. QED
  BY <1>1, <1>2, <1>3

\* A number cut to multiples of p, and of twice p.
LEMMA CutInHalf ==
  ASSUME NEW w \in Nat, NEW d \in Nat \ {0}
  PROVE  /\ (w \div d) * d = (w \div (d + d)) * (d + d) + (IF (w \div d) % 2 = 1 THEN d ELSE 0)
         /\ (w \div (d + d)) * (d + d) \in Nat
<1>1. PICK q \in Nat : q = w \div d /\ q * d <= w /\ w < q * d + d
  OBVIOUS
<1>2. PICK h \in Nat : (q = h + h /\ q % 2 = 0) \/ (q = h + h + 1 /\ q % 2 = 1)
  BY HalfOf
<1>3. /\ q = h + h => q * d = h * (d + d)
      /\ q = h + h + 1 => q * d = h * (d + d) + d
  OBVIOUS
<1>4. w \div (d + d) = h
  <2>1. h * (d + d) <= w /\ w < h * (d + d) + (d + d)
    BY <1>1, <1>2, <1>3
  <2>2. QED
    BY <2>1
<1>5. q * d = h * (d + d) + (IF q % 2 = 1 THEN d ELSE 0)
  BY <1>2, <1>3
<1>6. h * (d + d) \in Nat
  OBVIOUS
<1>7. QED
  BY <1>1, <1>4, <1>5, <1>6

\* The powers of the bits of a word.
LEMMA Doubles ==
  ASSUME NEW k \in 1 .. WordBits
  PROVE  2^(k - 1) \in Nat \ {0} /\ 2^k = 2^(k - 1) + 2^(k - 1)
<1>0. k \in 1 .. 16
  BY DEF WordBits
<1>1. CASE k = 1 BY <1>1
<1>2. CASE k = 2 BY <1>2
<1>3. CASE k = 3 BY <1>3
<1>4. CASE k = 4 BY <1>4
<1>5. CASE k = 5 BY <1>5
<1>6. CASE k = 6 BY <1>6
<1>7. CASE k = 7 BY <1>7
<1>8. CASE k = 8 BY <1>8
<1>9. CASE k = 9 BY <1>9
<1>10. CASE k = 10 BY <1>10
<1>11. CASE k = 11 BY <1>11
<1>12. CASE k = 12 BY <1>12
<1>13. CASE k = 13 BY <1>13
<1>14. CASE k = 14 BY <1>14
<1>15. CASE k = 15 BY <1>15
<1>16. CASE k = 16 BY <1>16
<1>17. QED
  BY <1>0, <1>1, <1>2, <1>3, <1>4, <1>5, <1>6, <1>7, <1>8, <1>9, <1>10, <1>11, <1>12, <1>13,
     <1>14, <1>15, <1>16

\* What has been received grows by the next bit of the word.
LEMMA NextBit ==
  ASSUME NEW w \in Nat, NEW k \in 1 .. WordBits
  PROVE  /\ (w \div 2^(k - 1)) * 2^(k - 1)
              = (w \div 2^k) * 2^k + (IF Bit(w, k - 1) = 1 THEN 2^(k - 1) ELSE 0)
         /\ (w \div 2^k) * 2^k \in Nat
<1>1. PICK d \in Nat \ {0} : d = 2^(k - 1) /\ 2^k = d + d
  BY Doubles
<1>2. Bit(w, k - 1) = (w \div d) % 2
  BY <1>1 DEF Bit
<1>3. /\ (w \div d) * d = (w \div (d + d)) * (d + d) + (IF (w \div d) % 2 = 1 THEN d ELSE 0)
      /\ (w \div (d + d)) * (d + d) \in Nat
  BY CutInHalf
<1>4. QED
  BY <1>1, <1>2, <1>3

LEMMA BitsAreBits ==
  ASSUME NEW w \in Nat, NEW k \in 0 .. WordBits - 1
  PROVE  Bit(w, k) \in {0, 1}
<1>1. PICK d \in Nat \ {0} : d = 2^k
  BY Doubles, k + 1 \in 1 .. WordBits, (k + 1) - 1 = k DEF WordBits
<1>2. PICK q \in Nat : q = w \div d
  OBVIOUS
<1>3. q % 2 \in {0, 1}
  BY HalfOf
<1>4. QED
  BY <1>1, <1>2, <1>3 DEF Bit

-----------------------------------------------------------------------------
(* The chip. *)

ChipModes == {"waiting", "command", "reading", "erase", "write", "done"}
BitString == Seq({0, 1})
Lefts == 0 .. WordBits
ChipType == [mode : ChipModes, bits : BitString, left : Lefts, enabled : BOOLEAN]
Halfway(c) == Len(c.bits) <= 2 + Width /\ (c.mode = "command" => Len(c.bits) < 2 + Width)

LEMMA ModesAndLefts ==
  /\ "waiting" \in ChipModes /\ "command" \in ChipModes /\ "reading" \in ChipModes
  /\ "erase" \in ChipModes /\ "write" \in ChipModes /\ "done" \in ChipModes
  /\ WordBits \in Lefts /\ 0 \in Lefts
  /\ <<>> \in BitString /\ Len(<<>>) = 0
BY DEF ChipModes, Lefts, WordBits, BitString

\* Chips as they are built.
LEMMA ChipFields ==
  ASSUME NEW mode \in ChipModes, NEW bits \in BitString, NEW left \in Lefts,
         NEW enabled \in BOOLEAN, NEW c, c = Chip(mode, bits, left, enabled)
  PROVE  /\ c \in ChipType
         /\ c.mode = mode /\ c.bits = bits /\ c.left = left /\ c.enabled = enabled
BY DEF Chip, ChipType

LEMMA FieldsOfChip ==
  ASSUME NEW c \in ChipType
  PROVE  /\ c.mode \in ChipModes /\ c.bits \in BitString /\ c.left \in Lefts
         /\ c.enabled \in BOOLEAN
BY DEF ChipType

\* A whole instruction is one of seven, of which one permits to change the memory and
\* does not itself change it.
LEMMA DecodeKeeps ==
  ASSUME NEW c \in ChipType, NEW bits \in BitString, Len(bits) = 2 + Width,
         NEW d, d = Decode(c, bits)
  PROVE  /\ d \in ChipType /\ d.bits = bits /\ d.mode # "command"
         /\ d.enabled => d.mode = "done" \/ c.enabled
         /\ bits[1] = 1 /\ bits[2] = 0 => d.mode = "reading" /\ d.left = WordBits
<1>1. bits[1] \in {0, 1} /\ bits[2] \in {0, 1} /\ bits[3] \in {0, 1} /\ bits[4] \in {0, 1}
  <2>1. 1 \in DOMAIN bits /\ 2 \in DOMAIN bits /\ 3 \in DOMAIN bits /\ 4 \in DOMAIN bits
    BY Sizes DEF BitString
  <2>2. QED
    BY <2>1 DEF BitString
<1>2. c.left \in Lefts /\ c.enabled \in BOOLEAN
  BY FieldsOfChip
<1>3. CASE bits[1] = 1 /\ bits[2] = 0
  <2>1. d = Chip("reading", bits, WordBits, c.enabled)
    BY <1>3 DEF Decode, Opcode, Extended
  <2>2. QED
    BY <1>2, <2>1, ChipFields, ModesAndLefts
<1>4. CASE bits[1] = 1 /\ bits[2] = 1
  <2>1. d = Chip("erase", bits, c.left, c.enabled)
    BY <1>4 DEF Decode, Opcode, Extended
  <2>2. QED
    BY <1>2, <1>4, <2>1, ChipFields, ModesAndLefts
<1>5. CASE bits[1] = 0 /\ bits[2] = 1
  <2>1. d = Chip("write", bits, WordBits, c.enabled)
    BY <1>5 DEF Decode, Opcode, Extended
  <2>2. QED
    BY <1>2, <1>5, <2>1, ChipFields, ModesAndLefts
<1>6. CASE bits[1] = 0 /\ bits[2] = 0 /\ bits[3] = 1 /\ bits[4] = 1
  <2>1. d = Chip("done", bits, c.left, TRUE)
    BY <1>6 DEF Decode, Opcode, Extended
  <2>2. QED
    BY <1>2, <1>6, <2>1, ModesAndLefts DEF Chip, ChipType
<1>7. CASE bits[1] = 0 /\ bits[2] = 0 /\ bits[3] = 0 /\ bits[4] = 0
  <2>1. d = Chip("done", bits, c.left, FALSE)
    BY <1>7 DEF Decode, Opcode, Extended
  <2>2. QED
    BY <1>2, <1>7, <2>1, ModesAndLefts DEF Chip, ChipType
<1>8. CASE bits[1] = 0 /\ bits[2] = 0 /\ bits[3] = 1 /\ bits[4] = 0
  <2>1. d = Chip("erase", bits, c.left, c.enabled)
    BY <1>8 DEF Decode, Opcode, Extended
  <2>2. QED
    BY <1>2, <1>8, <2>1, ChipFields, ModesAndLefts
<1>9. CASE bits[1] = 0 /\ bits[2] = 0 /\ bits[3] = 0 /\ bits[4] = 1
  <2>1. d = Chip("write", bits, WordBits, c.enabled)
    BY <1>9 DEF Decode, Opcode, Extended
  <2>2. QED
    BY <1>2, <1>9, <2>1, ChipFields, ModesAndLefts
<1>10. QED
  BY <1>1, <1>3, <1>4, <1>5, <1>6, <1>7, <1>8, <1>9

\* An edge of the clock.
LEMMA ClockedKeeps ==
  ASSUME NEW c \in ChipType, Halfway(c), NEW in \in BOOLEAN,
         NEW d, d = Clocked(c, in)
  PROVE  /\ d \in ChipType /\ Halfway(d)
         /\ d.enabled => d.mode = "done" \/ c.enabled
         /\ c.mode = "done" => d = c
         /\ d.mode \in {"erase", "write"} => c.mode \in {"erase", "write"} \/ c.mode = "command"
<1>0. c.mode \in ChipModes /\ c.bits \in BitString /\ c.left \in Lefts /\ c.enabled \in BOOLEAN
  BY FieldsOfChip
<1>1. CASE c.mode = "waiting"
  <2>1. CASE in
    <3>1. d = Chip("command", <<>>, c.left, c.enabled)
      BY <1>1, <2>1 DEF Clocked
    <3>2. /\ d \in ChipType /\ d.mode = "command" /\ d.bits = <<>> /\ d.enabled = c.enabled
      BY <1>0, <3>1, ChipFields, ModesAndLefts
    <3>3. QED
      BY <1>1, <3>2, ModesAndLefts, Sizes DEF Halfway
  <2>2. CASE ~in
    BY <1>1, <2>2 DEF Clocked
  <2>3. QED
    BY <2>1, <2>2
<1>2. CASE c.mode = "command"
  <2> DEFINE more == Append(c.bits, IF in THEN 1 ELSE 0)
  <2>1. more \in BitString /\ Len(more) = Len(c.bits) + 1 /\ Len(c.bits) \in Nat
    BY <1>0 DEF BitString
  <2>2. d = IF Len(more) = 2 + Width THEN Decode(c, more) ELSE [c EXCEPT !.bits = more]
    BY <1>2 DEF Clocked
  <2> HIDE DEF more
  <2>3. CASE Len(more) = 2 + Width
    <3>1. d = Decode(c, more)
      BY <2>2, <2>3
    <3>2. /\ d \in ChipType /\ d.bits = more /\ d.mode # "command"
          /\ (d.enabled => d.mode = "done" \/ c.enabled)
      BY <2>1, <2>3, <3>1, DecodeKeeps
    <3>3. QED
      BY <1>2, <2>3, <3>2, Sizes DEF Halfway
  <2>4. CASE Len(more) # 2 + Width
    <3>1. d = [c EXCEPT !.bits = more]
      BY <2>2, <2>4
    <3>2. d \in ChipType /\ d.mode = "command" /\ d.bits = more /\ d.enabled = c.enabled
      BY <1>2, <2>1, <3>1 DEF ChipType
    <3>3. QED
      BY <1>2, <2>1, <2>4, <3>2, Sizes DEF Halfway
  <2>5. QED
    BY <2>3, <2>4
<1>3. CASE c.mode \in {"reading", "write"} /\ c.left > 0
  <2>1. d = [c EXCEPT !.left = c.left - 1]
    BY <1>3 DEF Clocked
  <2>2. c.left - 1 \in Lefts
    BY <1>0, <1>3 DEF Lefts, WordBits
  <2>3. d \in ChipType /\ d.mode = c.mode /\ d.bits = c.bits /\ d.enabled = c.enabled
    BY <2>1, <2>2 DEF ChipType
  <2>4. QED
    BY <1>3, <2>3 DEF Halfway
<1>4. CASE c.mode \notin {"waiting", "command"} /\ ~(c.mode \in {"reading", "write"} /\ c.left > 0)
  <2>1. d = c
    BY <1>4 DEF Clocked
  <2>2. QED
    BY <2>1, <1>4
<1>5. QED
  BY <1>1, <1>2, <1>3, <1>4

-----------------------------------------------------------------------------
(* The invariant. *)

LEMMA MaxLostIsNat ==
  MaxLost \in Nat
BY EepromAssumption

\* The chip is of its type, and an instruction it receives is not yet whole.
LEMMA ChipOfState ==
  ASSUME Driven
  PROVE  /\ chip \in ChipType /\ Halfway(chip)
         /\ pins \in Pins /\ reg \in Pins
         /\ lost \in 0 .. MaxLost /\ clean \in BOOLEAN
BY DEF Driven, EepromTypeOK, Loops, ChipType, ChipModes, BitString, Lefts, Halfway

\* A transfer is lost when none was before.
LEMMA OneIsLost ==
  ASSUME Driven, MaxLost <= 1, Lose
  PROVE  lost = 0 /\ lost' = 1 /\ ~chip.enabled /\ clean' = FALSE
<1>1. lost \in Nat /\ lost < MaxLost /\ lost' = lost + 1 /\ clean' = FALSE
  BY ChipOfState, MaxLostIsNat DEF Lose
<1>2. lost = 0
  BY <1>1, MaxLostIsNat
<1>3. QED
  BY <1>1, <1>2 DEF Driven, Losses

\* What every write of the register keeps.
Written(r) ==
  /\ reg' = r /\ pins' \in Pins
  /\ chip' \in ChipType /\ Halfway(chip')
  /\ UNCHANGED <<memory, word>> /\ altered' = FALSE
  /\ lost' \in 0 .. MaxLost /\ clean' \in BOOLEAN
  /\ lost' = 0 => clean' /\ (chip'.mode # "done" => ~chip'.enabled)
  /\ ~pins'.select => chip'.mode = "waiting"
  /\ ~clean' /\ chip'.mode \in {"erase", "write"} => ~chip'.enabled
  /\ ~clean' /\ chip'.enabled => chip'.mode = "done" \/ (~pins'.select /\ ~r.select)
  /\ pins' = r \/ (pins' = pins /\ chip' = chip /\ lost = 0 /\ lost' = 1)
  /\ clean' => /\ clean /\ pins' = r
               /\ r.select =>
                    chip' = IF r.clock /\ ~pins.clock THEN Clocked(chip, r.in) ELSE chip
               /\ ~r.select => chip'.mode \in {"waiting", chip.mode}

LEMMA WriteKeeps ==
  ASSUME Driven, MaxLost <= 1,
         NEW here, here # "idle", here # "startup",
         NEW r \in Pins, r.select = reg.select, RegisterWrite(here, r)
  PROVE  Written(r)
<1> USE DEF Written
<1>1. /\ chip \in ChipType /\ Halfway(chip) /\ pins \in Pins /\ reg \in Pins
      /\ lost \in 0 .. MaxLost /\ clean \in BOOLEAN
  BY ChipOfState
<1>2. /\ at = here /\ reg' = r /\ UNCHANGED <<memory, word>>
      /\ (Keep /\ Drive(r)) \/ (Lose /\ UNCHANGED <<pins, chip, altered>>)
  BY DEF RegisterWrite
<1>3. /\ lost = 0 => clean /\ ~chip.enabled
      /\ ~pins.select => chip.mode = "waiting"
      /\ clean => chip.mode \notin {"erase", "write", "done"}
      /\ ~clean => /\ chip.mode \in {"erase", "write"} => ~chip.enabled
                   /\ chip.enabled => chip.mode = "done" \/ (~pins.select /\ ~reg.select)
      /\ altered = FALSE
  BY <1>2 DEF Driven, Losses, Released, OnTrack, Disturbed, EepromTypeOK
<1>4. CASE Lose /\ UNCHANGED <<pins, chip, altered>>
  <2>1. lost = 0 /\ lost' = 1 /\ ~chip.enabled /\ clean' = FALSE
    BY <1>4, OneIsLost
  <2>2. 1 \in 0 .. MaxLost
    BY <1>4, <2>1, MaxLostIsNat DEF Lose
  <2>3. chip' = chip /\ pins' = pins /\ altered' = altered
    BY <1>4
  <2>4. Halfway(chip')
    BY <1>1, <2>3
  <2>5. /\ ~pins'.select => chip'.mode = "waiting"
        /\ ~chip'.enabled
    BY <1>3, <2>1, <2>3
  <2>6. /\ chip' \in ChipType /\ pins' \in Pins
        /\ altered' = FALSE /\ lost' \in 0 .. MaxLost /\ clean' \in BOOLEAN
    BY <1>1, <1>3, <2>1, <2>2, <2>3
  <2>7. QED
    BY <1>2, <2>1, <2>3, <2>4, <2>5, <2>6
<1>5. CASE Keep /\ Drive(r)
  <2>1. lost' = lost /\ clean' = clean /\ pins' = r
    BY <1>5 DEF Keep, Drive
  <2>2. CASE pins.select /\ ~r.select
    <3>1. chip' = Chip("waiting", <<>>, 0, chip.enabled)
      BY <1>5, <2>2 DEF Drive
    <3>2. /\ chip' \in ChipType /\ chip'.mode = "waiting" /\ chip'.bits = <<>>
          /\ chip'.enabled = chip.enabled
      <4>1. chip.enabled \in BOOLEAN
        BY <1>1, FieldsOfChip
      <4>2. QED
        BY <3>1, <4>1, ChipFields, ModesAndLefts
    <3>3. Halfway(chip')
      BY <3>2, ModesAndLefts, Sizes DEF Halfway
    <3>4. altered' = FALSE
      BY <1>3, <1>5, <2>2 DEF Drive
    <3>5. QED
      BY <1>1, <1>2, <1>3, <2>1, <2>2, <3>2, <3>3, <3>4
  <2>3. CASE r.select /\ r.clock /\ ~pins.clock
    <3>1. chip' = Clocked(chip, r.in) /\ altered' = FALSE
      BY <1>3, <1>5, <2>3 DEF Drive
    <3>2. r.in \in BOOLEAN
      BY DEF Pins
    <3>3. /\ chip' \in ChipType /\ Halfway(chip')
          /\ chip'.enabled => chip'.mode = "done" \/ chip.enabled
          /\ chip.mode = "done" => chip' = chip
          /\ chip'.mode \in {"erase", "write"}
               => chip.mode \in {"erase", "write"} \/ chip.mode = "command"
      BY <1>1, <3>1, <3>2, ClockedKeeps
    <3>4. pins'.select /\ r.select /\ reg.select
      BY <2>1, <2>3
    <3>5. /\ lost' = 0 => clean' /\ (chip'.mode # "done" => ~chip'.enabled)
          /\ ~clean' /\ chip'.mode \in {"erase", "write"} => ~chip'.enabled
          /\ ~clean' /\ chip'.enabled => chip'.mode = "done" \/ (~pins'.select /\ ~r.select)
      BY <1>3, <2>1, <3>3, <3>4
    <3>6. QED
      BY <1>1, <1>2, <2>1, <2>3, <3>1, <3>3, <3>4, <3>5
  <2>4. CASE ~(pins.select /\ ~r.select) /\ ~(r.select /\ r.clock /\ ~pins.clock)
    <3>1. chip' = chip /\ altered' = FALSE
      BY <1>3, <1>5, <2>4 DEF Drive
    <3>2. QED
      BY <1>1, <1>2, <1>3, <2>1, <2>4, <3>1
  <2>5. QED
    BY <2>2, <2>3, <2>4
<1>6. QED
  BY <1>2, <1>4, <1>5

\* What every reading of the register keeps.
Obtained(f) ==
  /\ reg' \in Pins
  /\ UNCHANGED <<pins, chip, memory, word>> /\ altered' = FALSE
  /\ lost' \in 0 .. MaxLost /\ clean' \in BOOLEAN
  /\ lost' = 0 => clean' /\ ~chip.enabled
  /\ ~clean' /\ chip.mode \in {"erase", "write"} => ~chip.enabled
  /\ ~clean' /\ chip.enabled => /\ ~clean
                                /\ chip.mode = "done" \/ (~pins.select /\ ~reg.select)
  /\ \E o \in Pins : reg' = f[o] /\ (o.select => pins.select)
  /\ clean' => clean /\ reg' = f[[pins EXCEPT !.out = Out(chip)]]

LEMMA ReadKeeps ==
  ASSUME Driven, MaxLost <= 1,
         NEW here, here # "idle",
         NEW f, \A r \in Pins : f[r] \in Pins,
         RegisterRead(here, f)
  PROVE  Obtained(f)
<1>1. /\ chip \in ChipType /\ pins \in Pins /\ reg \in Pins
      /\ lost \in 0 .. MaxLost /\ clean \in BOOLEAN
  BY ChipOfState
<1>2. /\ at = here /\ UNCHANGED <<pins, chip, memory, altered, word>>
      /\ \/ Keep /\ reg' = f[[pins EXCEPT !.out = Out(chip)]]
         \/ Lose /\ reg' = f[AllLow]
  BY DEF RegisterRead
<1>3. /\ lost = 0 => clean /\ ~chip.enabled
      /\ ~clean => /\ chip.mode \in {"erase", "write"} => ~chip.enabled
                   /\ chip.enabled => chip.mode = "done" \/ (~pins.select /\ ~reg.select)
      /\ altered = FALSE
  BY <1>2 DEF Driven, Losses, Disturbed, EepromTypeOK
<1>4. CASE Lose /\ reg' = f[AllLow]
  <2>1. lost = 0 /\ lost' = 1 /\ ~chip.enabled /\ clean' = FALSE
    BY <1>4, OneIsLost
  <2>2. 1 \in 0 .. MaxLost
    BY <1>4, <2>1, MaxLostIsNat DEF Lose
  <2>3. AllLow \in Pins /\ ~AllLow.select
    BY DEF Pins, AllLow
  <2>4. reg' \in Pins /\ \E o \in Pins : reg' = f[o] /\ (o.select => pins.select)
    BY <1>4, <2>3
  <2>5. /\ clean' \in BOOLEAN /\ ~clean'
        /\ lost' \in 0 .. MaxLost /\ lost' # 0
    <3>1. lost' \in 0 .. MaxLost /\ lost' # 0
      BY <2>1, <2>2
    <3>2. clean' \in BOOLEAN /\ ~clean'
      BY <2>1
    <3>3. QED
      BY <3>1, <3>2
  <2>6. altered' = FALSE /\ UNCHANGED <<pins, chip, memory, word>>
    BY <1>2, <1>3
  <2>7. QED
    BY <2>1, <2>4, <2>5, <2>6 DEF Obtained
<1>5. CASE Keep /\ reg' = f[[pins EXCEPT !.out = Out(chip)]]
  <2>1. lost' = lost /\ clean' = clean
    BY <1>5 DEF Keep
  <2>2. Out(chip) \in BOOLEAN
    BY DEF Out
  <2>3. [pins EXCEPT !.out = Out(chip)] \in Pins /\ [pins EXCEPT !.out = Out(chip)].select = pins.select
    BY <1>1, <2>2 DEF Pins
  <2>4. QED
    BY <1>1, <1>2, <1>3, <1>5, <2>1, <2>3 DEF Obtained
<1>6. QED
  BY <1>2, <1>4, <1>5

\* The driver goes on to another place with the chip's word half received.
Stations ==
  {"idle", "startup", "select", "startHigh", "startLow", "command", "bit", "bitHigh",
   "bitLow", "release", "data", "dataHigh", "sample", "dataLow", "cleanup", "deselect",
   "endHigh", "endLow"}

LEMMA StillTyped ==
  ASSUME Driven, at' \in Stations, togo' \in 0 .. WordBits, buf' \in Word, word' \in Address,
         reg' \in Pins, pins' \in Pins, chip' \in ChipType, Halfway(chip'),
         memory' = memory, altered' = FALSE, lost' \in 0 .. MaxLost, clean' \in BOOLEAN
  PROVE  EepromTypeOK'
BY DEF Driven, EepromTypeOK, Stations, ChipType, ChipModes, BitString, Lefts, Halfway

\* A write keeps the invariant if the read is on its track.
LEMMA AfterWrite ==
  ASSUME Driven, NEW r \in Pins, Written(r),
         at' \in Stations \ {"startup", "select"}, togo' \in 0 .. WordBits, buf' \in Word,
         clean' => OnTrack', Loops',
         at' \in {"deselect", "endHigh", "endLow"} => ~r.select,
         at' \in {"idle", "endLow"} => ~pins'.select,
         at' = "endHigh" /\ pins'.select => lost' > 0
  PROVE  Driven'
<1>1. EepromTypeOK'
  <2>1. word \in Address
    BY DEF Driven, EepromTypeOK
  <2>2. QED
    BY <2>1, StillTyped DEF Written
<1>2. IF clean' THEN OnTrack' ELSE Disturbed'
  BY DEF Written, Disturbed
<1>3. Released'
  BY DEF Written, Released
<1>4. Losses'
  BY DEF Written, Losses, OnTrack
<1>5. QED
  BY <1>1, <1>2, <1>3, <1>4 DEF Driven, Written

\* So does a reading.
LEMMA AfterRead ==
  ASSUME Driven, NEW f, Obtained(f), \A o \in Pins : f[o].select => o.select,
         at' \in Stations \ {"idle", "startup", "select", "endHigh", "endLow"},
         togo' \in 0 .. WordBits, buf' \in Word,
         clean' => OnTrack', Loops',
         at' = "deselect" => ~reg'.select
  PROVE  Driven'
<1>1. EepromTypeOK'
  <2>1. word \in Address
    BY DEF Driven, EepromTypeOK
  <2>2. pins \in Pins /\ chip \in ChipType /\ Halfway(chip)
    BY ChipOfState
  <2>3. pins' \in Pins /\ chip' \in ChipType /\ Halfway(chip')
    BY <2>2 DEF Obtained
  <2>4. QED
    BY <2>1, <2>3, StillTyped DEF Obtained
<1>2. IF clean' THEN OnTrack' ELSE Disturbed'
  <2>1. ~pins.select => ~reg'.select
    BY DEF Obtained
  <2>2. QED
    BY <2>1 DEF Obtained, Disturbed
<1>3. Released'
  BY DEF Obtained, Released, Driven
<1>4. Losses'
  BY DEF Obtained, Losses
<1>5. QED
  BY <1>1, <1>2, <1>3, <1>4 DEF Driven, Obtained

-----------------------------------------------------------------------------
(* The steps. *)

\* What is written.
LEMMA HighAndLow ==
  ASSUME Driven
  PROVE  /\ High \in Pins /\ High.select = reg.select /\ High.clock /\ High.in = reg.in
         /\ Low \in Pins /\ Low.select = reg.select /\ ~Low.clock /\ Low.in = reg.in
BY ChipOfState DEF High, Low, Pins

LEMMA Loopless ==
  ASSUME Driven, Halfway(chip'),
         at' \notin {"bit", "bitHigh", "bitLow", "dataHigh", "sample", "dataLow"}
  PROVE  Loops'
BY DEF Loops, Halfway

LEMMA TypesOfState ==
  ASSUME Driven
  PROVE  togo \in 0 .. WordBits /\ buf \in Word /\ word \in Address /\ memory[word] \in Word
BY EepromAssumption DEF Driven, EepromTypeOK

LEMMA ReadKeepsDriven ==
  ASSUME Driven, NEW w \in Wanted, Read(w)
  PROVE  Driven'
<1>1. /\ at = "idle" /\ at' = "startup" /\ word' = w /\ clean' = TRUE
      /\ UNCHANGED <<togo, buf, reg, pins, chip, memory, altered, lost>>
  BY DEF Read, Goto
<1>2. w \in Address
  BY EepromAssumption
<1>3. EepromTypeOK'
  <2>1. clean' \in BOOLEAN /\ altered' = FALSE /\ word' \in Address
    BY <1>1, <1>2 DEF Driven, EepromTypeOK
  <2>2. /\ reg' \in Pins /\ pins' \in Pins /\ chip' \in ChipType /\ Halfway(chip')
        /\ lost' \in 0 .. MaxLost
    BY <1>1, ChipOfState
  <2>3. QED
    BY <1>1, <2>1, <2>2, TypesOfState, StillTyped DEF Stations
<1>4. OnTrack'
  BY <1>1 DEF Driven, OnTrack, Released, Selected, ClockIsLow
<1>5. Released' /\ Losses'
  BY <1>1 DEF Driven, Released, Losses
<1>6. Loops'
  BY <1>1, ChipOfState, Loopless
<1>7. QED
  BY <1>1, <1>3, <1>4, <1>5, <1>6 DEF Driven

LEMMA StartupKeeps ==
  ASSUME Driven, MaxLost <= 1, Startup
  PROVE  Driven'
<1> DEFINE f == [r \in Pins |-> [AllLow EXCEPT !.select = TRUE]]
<1>1. /\ RegisterRead("startup", f) /\ at' = "select" /\ UNCHANGED <<togo, buf>>
  BY DEF Startup, Goto
<1>2. at = "startup"
  BY <1>1 DEF RegisterRead
<1>3. [AllLow EXCEPT !.select = TRUE] \in Pins
  BY DEF AllLow, Pins
<1>4. \A r \in Pins : f[r] = [AllLow EXCEPT !.select = TRUE] /\ f[r] \in Pins
  BY <1>3
<1> HIDE DEF f
<1>5. Obtained(f)
  BY <1>1, <1>4, ReadKeeps
<1>6. reg' = [AllLow EXCEPT !.select = TRUE]
  BY <1>4, <1>5 DEF Obtained
<1>7. clean /\ ~pins.select /\ chip.mode = "waiting"
  BY <1>2 DEF Driven, Losses, Released
<1>8. /\ pins \in Pins /\ chip \in ChipType /\ Halfway(chip)
  BY ChipOfState
<1>9. pins' \in Pins /\ chip' \in ChipType /\ Halfway(chip')
  BY <1>5, <1>8 DEF Obtained
<1>10. EepromTypeOK'
  BY <1>1, <1>5, <1>9, TypesOfState, StillTyped DEF Obtained, Stations
<1>11. IF clean' THEN OnTrack' ELSE Disturbed'
  BY <1>1, <1>5, <1>7 DEF Obtained, OnTrack, Selected, ClockIsLow, Disturbed
<1>12. Released' /\ Losses'
  BY <1>1, <1>5, <1>6, <1>7 DEF Obtained, Released, Losses
<1>13. Loops'
  BY <1>1, <1>9, Loopless
<1>14. QED
  BY <1>5, <1>10, <1>11, <1>12, <1>13 DEF Driven, Obtained

LEMMA SelectKeeps ==
  ASSUME Driven, MaxLost <= 1, Select
  PROVE  Driven'
<1>1. /\ RegisterWrite("select", reg) /\ at' = "startHigh" /\ UNCHANGED <<togo, buf>>
  BY DEF Select, Goto
<1>2. at = "select" /\ reg \in Pins
  BY <1>1, ChipOfState DEF RegisterWrite
<1>3. Written(reg)
  BY <1>1, <1>2, WriteKeeps
<1>4. reg = [AllLow EXCEPT !.select = TRUE] /\ ~pins.select /\ chip.mode = "waiting"
  BY <1>2 DEF Driven, Released
<1>5. reg.select /\ ~reg.clock /\ ~reg.in
  BY <1>4 DEF AllLow
<1>6. ASSUME clean' PROVE OnTrack'
  <2>1. chip' = chip /\ reg' = reg /\ pins' = reg
    BY <1>3, <1>5, <1>6 DEF Written
  <2>2. QED
    BY <1>1, <1>4, <1>5, <2>1 DEF OnTrack, Selected, ClockIsLow
<1>7. Loops'
  BY <1>1, <1>3, Loopless DEF Written
<1>8. QED
  BY <1>1, <1>2, <1>3, <1>6, <1>7, AfterWrite, TypesOfState DEF Stations

LEMMA StartHighKeeps ==
  ASSUME Driven, MaxLost <= 1, StartHigh
  PROVE  Driven'
<1>1. /\ RegisterWrite("startHigh", High) /\ at' = "startLow" /\ UNCHANGED <<togo, buf>>
  BY DEF StartHigh, Goto
<1>2. at = "startHigh"
  BY <1>1 DEF RegisterWrite
<1>3. Written(High) /\ High \in Pins
  BY <1>1, HighAndLow, WriteKeeps
<1>4. ASSUME clean' PROVE OnTrack'
  <2>1. pins.select /\ reg.select /\ ~pins.clock /\ ~reg.in /\ chip.mode = "waiting"
    BY <1>2, <1>3, <1>4 DEF Driven, Written, OnTrack, Selected, ClockIsLow
  <2>2. chip' = chip /\ reg' = High /\ pins' = High
    BY <1>3, <1>4, <2>1, HighAndLow DEF Written, Clocked
  <2>3. QED
    BY <1>1, <2>1, <2>2, HighAndLow DEF OnTrack, Selected, ClockIsLow
<1>5. Loops'
  BY <1>1, <1>3, Loopless DEF Written
<1>6. QED
  BY <1>1, <1>3, <1>4, <1>5, AfterWrite, TypesOfState DEF Stations

LEMMA StartLowKeeps ==
  ASSUME Driven, MaxLost <= 1, StartLow
  PROVE  Driven'
<1>1. /\ RegisterWrite("startLow", Low) /\ at' = "command" /\ UNCHANGED <<togo, buf>>
  BY DEF StartLow, Goto
<1>2. at = "startLow"
  BY <1>1 DEF RegisterWrite
<1>3. Written(Low) /\ Low \in Pins
  BY <1>1, HighAndLow, WriteKeeps
<1>4. ASSUME clean' PROVE OnTrack'
  <2>1. reg.select /\ chip.mode = "waiting"
    BY <1>2, <1>3, <1>4 DEF Driven, Written, OnTrack, Selected
  <2>2. chip' = chip /\ reg' = Low /\ pins' = Low
    BY <1>3, <1>4, <2>1, HighAndLow DEF Written
  <2>3. QED
    BY <1>1, <2>1, <2>2, HighAndLow DEF OnTrack, Selected, ClockIsLow
<1>5. Loops'
  BY <1>1, <1>3, Loopless DEF Written
<1>6. QED
  BY <1>1, <1>3, <1>4, <1>5, AfterWrite, TypesOfState DEF Stations

\* The chip gets a bit of the command.
LEMMA BitArrives ==
  ASSUME NEW w \in Address, NEW c \in ChipType, NEW e, e = ReadOpcode * 2^Width + w,
         NEW n \in 1 .. 2 + Width, c.mode = "command", Len(c.bits) = 2 + Width - n,
         \A k \in 1 .. Len(c.bits) : c.bits[k] = Bit(e, 2 + Width - k),
         NEW in \in BOOLEAN, in <=> Bit(e, n - 1) = 1,
         NEW d, d = Clocked(c, in)
  PROVE  IF n > 1
         THEN /\ d.mode = "command" /\ Len(d.bits) = 2 + Width - (n - 1)
              /\ \A k \in 1 .. Len(d.bits) : d.bits[k] = Bit(e, 2 + Width - k)
         ELSE d.mode = "reading" /\ Operand(d.bits) = w /\ d.left = WordBits
<1> DEFINE more == Append(c.bits, IF in THEN 1 ELSE 0)
<1>1. \A k \in 0 .. 2 + Width : Bit(e, k) \in {0, 1}
  <2>1. \A k \in 0 .. Width - 1 : Bit(w, k) \in {0, 1}
    <3>1. w \in Nat /\ \A k \in 0 .. Width - 1 : k \in 0 .. WordBits - 1
      BY Sizes DEF Address
    <3>2. QED
      BY <3>1, BitsAreBits
  <2>2. QED
    BY <2>1, CommandBits, Sizes
<1>2. c.bits \in BitString /\ Len(c.bits) \in Nat
  BY FieldsOfChip DEF BitString
<1>3. (IF in THEN 1 ELSE 0) = Bit(e, n - 1)
  BY <1>1, Sizes
<1>4. /\ more \in BitString /\ Len(more) = Len(c.bits) + 1
      /\ more[Len(c.bits) + 1] = (IF in THEN 1 ELSE 0)
      /\ \A k \in 1 .. Len(c.bits) : more[k] = c.bits[k]
  BY <1>2 DEF BitString
<1> HIDE DEF more
<1>5. \A k \in 1 .. Len(more) : more[k] = Bit(e, 2 + Width - k)
  <2> TAKE k \in 1 .. Len(more)
  <2>1. CASE k = Len(c.bits) + 1
    <3>1. 2 + Width - k = n - 1
      BY <2>1, Sizes
    <3>2. QED
      BY <1>3, <1>4, <2>1, <3>1
  <2>2. CASE k # Len(c.bits) + 1
    BY <1>2, <1>4, <2>2
  <2>3. QED
    BY <2>1, <2>2
<1>6. d = IF Len(more) = 2 + Width THEN Decode(c, more) ELSE [c EXCEPT !.bits = more]
  BY DEF Clocked, more
<1>7. CASE n > 1
  <2>1. Len(more) = 2 + Width - (n - 1) /\ Len(more) # 2 + Width
    BY <1>4, <1>7, Sizes
  <2>2. d = [c EXCEPT !.bits = more]
    BY <1>6, <2>1
  <2>3. d.mode = "command" /\ d.bits = more
    BY <2>2 DEF ChipType
  <2>4. QED
    BY <1>5, <1>7, <2>1, <2>3
<1>8. CASE n = 1
  <2>1. Len(more) = 2 + Width
    BY <1>4, <1>8, Sizes
  <2>2. d = Decode(c, more)
    BY <1>6, <2>1
  <2>3. more[1] = Bit(e, Width + 1) /\ more[2] = Bit(e, Width)
    <3>1. 1 \in 1 .. Len(more) /\ 2 \in 1 .. Len(more)
      BY <2>1, Sizes
    <3>2. 2 + Width - 1 = Width + 1 /\ 2 + Width - 2 = Width
      BY Sizes
    <3>3. QED
      BY <1>5, <3>1, <3>2
  <2>4. more[1] = 1 /\ more[2] = 0
    BY <2>3, CommandBits
  <2>5. d.mode = "reading" /\ d.bits = more /\ d.left = WordBits
    <3>1. more \in BitString
      BY <1>4
    <3>2. QED
      BY <2>1, <2>2, <2>4, <3>1, DecodeKeeps
  <2>6. \A k \in 0 .. Width - 1 : more[2 + Width - k] = Bit(w, k)
    <3> TAKE k \in 0 .. Width - 1
    <3>1. 2 + Width - k \in 1 .. Len(more) /\ 2 + Width - (2 + Width - k) = k
      BY <2>1, Sizes
    <3>2. QED
      BY <1>5, <3>1, CommandBits
  <2>7. QED
    BY <1>8, <2>5, <2>6, OperandIs
<1>9. QED
  BY <1>7, <1>8

LEMMA StartCommandKeeps ==
  ASSUME Driven, MaxLost <= 1, StartCommand
  PROVE  Driven'
<1> DEFINE f == [r \in Pins |-> [r EXCEPT !.in = FALSE, !.out = FALSE]]
<1>1. /\ RegisterRead("command", f) /\ at' = "bit" /\ togo' = WidthOpcode + Width
      /\ buf' = buf
  BY DEF StartCommand, Goto
<1>2. at = "command"
  BY <1>1 DEF RegisterRead
<1>3. \A r \in Pins : /\ f[r] \in Pins /\ f[r].select = r.select /\ f[r].clock = r.clock
  BY DEF Pins
<1> HIDE DEF f
<1>4. Obtained(f)
  BY <1>1, <1>3, ReadKeeps
<1>5. WidthOpcode + Width \in 1 .. WidthOpcode + Width /\ WidthOpcode + Width \in 0 .. WordBits
  BY Sizes DEF WidthOpcode
<1>6. ASSUME clean' PROVE OnTrack'
  <2>1. pins.select /\ ~pins.clock /\ chip.mode = "waiting"
    BY <1>2, <1>4, <1>6 DEF Driven, Obtained, OnTrack, Selected, ClockIsLow
  <2>2. \E o \in Pins : o.select = pins.select /\ o.clock = pins.clock /\ reg' = f[o]
    <3>1. Out(chip) \in BOOLEAN
      BY DEF Out
    <3>2. /\ [pins EXCEPT !.out = Out(chip)] \in Pins
          /\ [pins EXCEPT !.out = Out(chip)].select = pins.select
          /\ [pins EXCEPT !.out = Out(chip)].clock = pins.clock
      BY <3>1, ChipOfState DEF Pins
    <3>3. QED
      BY <1>4, <1>6, <3>2 DEF Obtained
  <2>3. reg'.select /\ ~reg'.clock
    BY <1>3, <2>1, <2>2
  <2>4. QED
    BY <1>1, <1>4, <2>1, <2>3 DEF Obtained, OnTrack, Selected, ClockIsLow, ToCome
<1>7. Loops'
  BY <1>1, <1>4, <1>5, ChipOfState DEF Loops, Halfway, Obtained
<1>8. \A o \in Pins : f[o].select => o.select
  BY <1>3
<1>9. QED
  BY <1>1, <1>4, <1>5, <1>6, <1>7, <1>8, AfterRead, TypesOfState DEF Stations

LEMMA SameToCome ==
  ASSUME NEW n, chip' = chip, word' = word, togo' = n, ToCome(n)
  PROVE  ToCome(togo)'
BY DEF ToCome, Reading, Command

LEMMA WriteBitKeeps ==
  ASSUME Driven, MaxLost <= 1, WriteBit
  PROVE  Driven'
<1> DEFINE r == [reg EXCEPT !.in = (Bit(Command, togo - 1) = 1)]
<1>1. /\ RegisterWrite("bit", r) /\ at' = "bitHigh" /\ UNCHANGED <<togo, buf>>
  BY DEF WriteBit, Goto
<1>2. at = "bit"
  BY <1>1 DEF RegisterWrite
<1>3. r \in Pins /\ r.select = reg.select /\ r.clock = reg.clock
      /\ r.in = (Bit(Command, togo - 1) = 1)
  BY ChipOfState DEF Pins
<1> HIDE DEF r
<1>4. Written(r)
  BY <1>1, <1>3, WriteKeeps
<1>5. ASSUME clean' PROVE OnTrack'
  <2>1. reg.select /\ ~reg.clock /\ ToCome(togo) /\ chip.mode \notin {"erase", "write", "done"}
    BY <1>2, <1>4, <1>5 DEF Driven, Written, OnTrack, Selected, ClockIsLow
  <2>2. chip' = chip /\ reg' = r /\ pins' = r /\ word' = word
    BY <1>3, <1>4, <1>5, <2>1 DEF Written
  <2>3. ToCome(togo)'
    BY <1>1, <2>1, <2>2, SameToCome
  <2>4. reg'.in = (Bit(Command, togo - 1) = 1)'
    BY <1>1, <1>3, <2>2 DEF Command
  <2>5. QED
    BY <1>1, <1>3, <2>1, <2>2, <2>3, <2>4 DEF OnTrack, Selected, ClockIsLow
<1>6. Loops'
  BY <1>1, <1>2, <1>4 DEF Driven, Loops, Written, Halfway
<1>7. QED
  BY <1>1, <1>3, <1>4, <1>5, <1>6, AfterWrite, TypesOfState DEF Stations

LEMMA BitHighKeeps ==
  ASSUME Driven, MaxLost <= 1, BitHigh
  PROVE  Driven'
<1>1. /\ RegisterWrite("bitHigh", High) /\ at' = "bitLow" /\ UNCHANGED <<togo, buf>>
  BY DEF BitHigh, Goto
<1>2. at = "bitHigh"
  BY <1>1 DEF RegisterWrite
<1>3. Written(High) /\ High \in Pins
  BY <1>1, HighAndLow, WriteKeeps
<1>4. togo \in 1 .. WidthOpcode + Width
  BY <1>2 DEF Driven, Loops
<1>5. ASSUME clean' PROVE OnTrack'
  <2>1. /\ reg.select /\ ~pins.clock /\ ToCome(togo)
        /\ reg.in = (Bit(Command, togo - 1) = 1)
    BY <1>2, <1>3, <1>5 DEF Driven, Written, OnTrack, Selected, ClockIsLow
  <2>2. /\ chip' = Clocked(chip, High.in) /\ reg' = High /\ pins' = High /\ word' = word
    BY <1>3, <1>5, <2>1, HighAndLow DEF Written
  <2>3. High.in \in BOOLEAN /\ (High.in <=> Bit(Command, togo - 1) = 1)
    BY <2>1, HighAndLow DEF Pins
  <2>4. /\ ToCome(togo - 1)' /\ chip'.mode \notin {"erase", "write", "done"}
    <3>1. CASE togo = WidthOpcode + Width
      <4>1. chip.mode = "waiting" /\ togo - 1 = Width + 2
        BY <2>1, <3>1, Sizes DEF ToCome, WidthOpcode
      <4>2. Bit(Command, Width + 2) = 1
        BY TypesOfState, CommandBits DEF Command
      <4>3. chip' = Chip("command", <<>>, chip.left, chip.enabled)
        BY <2>2, <2>3, <4>1, <4>2 DEF Clocked
      <4>4. chip'.mode = "command" /\ chip'.bits = <<>>
        BY <4>3 DEF Chip
      <4>5. Len(chip'.bits) = 0
        BY <4>4
      <4>6. togo' - 1 = Width + 2
        BY <1>1, <4>1
      <4>7. QED
        BY <4>4, <4>5, <4>6, Sizes DEF ToCome, WidthOpcode
    <3>2. CASE togo # WidthOpcode + Width
      <4>1. togo \in 1 .. 2 + Width
        BY <1>4, <3>2, Sizes DEF WidthOpcode
      <4>2. /\ chip.mode = "command" /\ Len(chip.bits) = 2 + Width - togo
            /\ \A k \in 1 .. Len(chip.bits) : chip.bits[k] = Bit(Command, 2 + Width - k)
        BY <2>1, <3>2, <4>1 DEF ToCome
      <4>3. IF togo > 1
            THEN /\ chip'.mode = "command" /\ Len(chip'.bits) = 2 + Width - (togo - 1)
                 /\ \A k \in 1 .. Len(chip'.bits) : chip'.bits[k] = Bit(Command, 2 + Width - k)
            ELSE /\ chip'.mode = "reading" /\ Operand(chip'.bits) = word
                 /\ chip'.left = WordBits
        <5>1. chip \in ChipType /\ word \in Address /\ Command = ReadOpcode * 2^Width + word
          BY ChipOfState, TypesOfState DEF Command
        <5>2. QED
          BY <2>2, <2>3, <4>1, <4>2, <5>1, BitArrives
      <4>4. togo' - 1 # WidthOpcode + Width /\ togo' = togo /\ Command' = Command
        BY <1>1, <2>2, <4>1, Sizes DEF WidthOpcode, Command
      <4>5. CASE togo > 1
        <5>1. togo' - 1 # 0
          BY <1>1, <4>1, <4>5, Sizes
        <5>2. QED
          BY <4>3, <4>4, <4>5, <5>1 DEF ToCome
      <4>6. CASE togo = 1
        <5>1. togo' - 1 = 0
          BY <1>1, <4>6
        <5>2. QED
          BY <2>2, <4>3, <4>4, <4>6, <5>1 DEF ToCome, Reading
      <4>7. QED
        BY <4>1, <4>5, <4>6, Sizes
    <3>3. QED
      BY <3>1, <3>2
  <2>5. QED
    BY <1>1, <2>1, <2>2, <2>4, HighAndLow DEF OnTrack, Selected, ClockIsLow
<1>6. Loops'
  BY <1>1, <1>3, <1>4 DEF Loops, Written, Halfway
<1>7. QED
  BY <1>1, <1>3, <1>5, <1>6, AfterWrite, TypesOfState DEF Stations

LEMMA BitLowKeeps ==
  ASSUME Driven, MaxLost <= 1, BitLow
  PROVE  Driven'
<1>1. /\ RegisterWrite("bitLow", Low) /\ togo' = togo - 1 /\ buf' = buf
      /\ at' = IF togo' > 0 THEN "bit" ELSE "release"
  BY DEF BitLow, Goto
<1>2. at = "bitLow"
  BY <1>1 DEF RegisterWrite
<1>3. Written(Low) /\ Low \in Pins
  BY <1>1, HighAndLow, WriteKeeps
<1>4. togo \in 1 .. WidthOpcode + Width
  BY <1>2 DEF Driven, Loops
<1>5. togo' \in 0 .. WidthOpcode + Width /\ togo' \in 0 .. WordBits
  BY <1>1, <1>4, Sizes DEF WidthOpcode
<1>6. ASSUME clean' PROVE OnTrack'
  <2>1. reg.select /\ ToCome(togo - 1) /\ chip.mode \notin {"erase", "write", "done"}
    BY <1>2, <1>3, <1>6 DEF Driven, Written, OnTrack, Selected
  <2>2. chip' = chip /\ reg' = Low /\ pins' = Low /\ word' = word
    BY <1>3, <1>6, <2>1, HighAndLow DEF Written
  <2>3. ToCome(togo)'
    BY <1>1, <2>1, <2>2, SameToCome
  <2>4. togo' = 0 => Reading(WordBits)'
    BY <2>3, Sizes DEF ToCome, WidthOpcode
  <2>5. QED
    <3>1. CASE togo' > 0
      BY <1>1, <2>1, <2>2, <2>3, <3>1, HighAndLow DEF OnTrack, Selected, ClockIsLow
    <3>2. CASE togo' = 0
      <4>1. at' = "release"
        BY <1>1, <3>2
      <4>2. /\ chip'.mode \notin {"erase", "write", "done"} /\ Reading(WordBits)'
            /\ reg'.select /\ ~reg'.clock /\ pins'.select /\ ~pins'.clock
        BY <2>1, <2>2, <2>4, <3>2, HighAndLow
      <4>3. QED
        BY <4>1, <4>2 DEF OnTrack, Selected, ClockIsLow
    <3>3. QED
      BY <1>5, <3>1, <3>2
<1>7. Loops'
  BY <1>1, <1>3, <1>5 DEF Loops, Written, Halfway
<1>8. at' \in {"bit", "release"}
  BY <1>1
<1>9. QED
  BY <1>1, <1>3, <1>5, <1>6, <1>7, <1>8, AfterWrite, TypesOfState DEF Stations

LEMMA SameReading ==
  ASSUME NEW n, chip' = chip, word' = word, Reading(n)
  PROVE  Reading(n)'
BY DEF Reading

LEMMA ReleaseKeeps ==
  ASSUME Driven, MaxLost <= 1, Release
  PROVE  Driven'
<1> DEFINE r == [reg EXCEPT !.in = FALSE]
<1>1. /\ RegisterWrite("release", r) /\ at' = "data" /\ UNCHANGED <<togo, buf>>
  BY DEF Release, Goto
<1>2. at = "release"
  BY <1>1 DEF RegisterWrite
<1>3. r \in Pins /\ r.select = reg.select /\ r.clock = reg.clock
  BY ChipOfState DEF Pins
<1> HIDE DEF r
<1>4. Written(r)
  BY <1>1, <1>3, WriteKeeps
<1>5. ASSUME clean' PROVE OnTrack'
  <2>1. reg.select /\ ~reg.clock /\ Reading(WordBits)
    BY <1>2, <1>4, <1>5 DEF Driven, Written, OnTrack, Selected, ClockIsLow
  <2>2. chip' = chip /\ reg' = r /\ pins' = r /\ word' = word
    BY <1>3, <1>4, <1>5, <2>1 DEF Written
  <2>3. Reading(WordBits)' /\ chip'.mode = "reading"
    BY <2>1, <2>2 DEF Reading
  <2>4. QED
    BY <1>1, <1>3, <2>1, <2>2, <2>3 DEF OnTrack, Selected, ClockIsLow
<1>6. Loops'
  BY <1>1, <1>4, Loopless DEF Written
<1>7. QED
  BY <1>1, <1>3, <1>4, <1>5, <1>6, AfterWrite, TypesOfState DEF Stations

\* Nothing of the word has been received yet.
LEMMA NothingReceived ==
  ASSUME NEW w \in Word
  PROVE  (w \div 2^WordBits) * 2^WordBits = 0
BY Sizes DEF Word

LEMMA StartDataKeeps ==
  ASSUME Driven, MaxLost <= 1, StartData
  PROVE  Driven'
<1> DEFINE f == [r \in Pins |-> [r EXCEPT !.in = FALSE, !.out = FALSE]]
<1>1. /\ RegisterRead("data", f) /\ at' = "dataHigh" /\ togo' = WordBits /\ buf' = 0
  BY DEF StartData, Goto
<1>2. at = "data"
  BY <1>1 DEF RegisterRead
<1>3. \A r \in Pins : /\ f[r] \in Pins /\ f[r].select = r.select /\ f[r].clock = r.clock
  BY DEF Pins
<1> HIDE DEF f
<1>4. Obtained(f)
  BY <1>1, <1>3, ReadKeeps
<1>5. /\ WordBits \in 1 .. WordBits /\ WordBits \in 0 .. WordBits /\ 0 \in Word
      /\ 0 <= 2^WordBits - 2^WordBits
  BY Sizes DEF Word
<1>6. ASSUME clean' PROVE OnTrack'
  <2>1. pins.select /\ ~pins.clock /\ Reading(WordBits)
    BY <1>2, <1>4, <1>6 DEF Driven, Obtained, OnTrack, Selected, ClockIsLow
  <2>2. \E o \in Pins : o.select = pins.select /\ o.clock = pins.clock /\ reg' = f[o]
    <3>1. Out(chip) \in BOOLEAN
      BY DEF Out
    <3>2. /\ [pins EXCEPT !.out = Out(chip)] \in Pins
          /\ [pins EXCEPT !.out = Out(chip)].select = pins.select
          /\ [pins EXCEPT !.out = Out(chip)].clock = pins.clock
      BY <3>1, ChipOfState DEF Pins
    <3>3. QED
      BY <1>4, <1>6, <3>2 DEF Obtained
  <2>3. reg'.select /\ ~reg'.clock
    BY <1>3, <2>1, <2>2
  <2>4. UNCHANGED <<chip, pins, word, memory>>
    BY <1>4 DEF Obtained
  <2>5. Reading(togo)' /\ chip'.mode = "reading"
    BY <1>1, <2>1, <2>4 DEF Reading
  <2>6. Received(togo)'
    BY <1>1, <2>4, TypesOfState, NothingReceived DEF Received
  <2>7. QED
    BY <1>1, <2>1, <2>3, <2>4, <2>5, <2>6 DEF OnTrack, Selected, ClockIsLow
<1>7. Loops'
  BY <1>1, <1>4, <1>5, ChipOfState DEF Loops, Halfway, Obtained
<1>8. \A o \in Pins : f[o].select => o.select
  BY <1>3
<1>9. QED
  BY <1>1, <1>4, <1>5, <1>6, <1>7, <1>8, AfterRead DEF Stations

LEMMA DataHighKeeps ==
  ASSUME Driven, MaxLost <= 1, DataHigh
  PROVE  Driven'
<1>1. /\ RegisterWrite("dataHigh", High) /\ at' = "sample" /\ UNCHANGED <<togo, buf>>
  BY DEF DataHigh, Goto
<1>2. at = "dataHigh"
  BY <1>1 DEF RegisterWrite
<1>3. Written(High) /\ High \in Pins
  BY <1>1, HighAndLow, WriteKeeps
<1>4. togo \in 1 .. WordBits /\ buf <= 2^WordBits - 2^togo
  BY <1>2 DEF Driven, Loops
<1>5. ASSUME clean' PROVE OnTrack'
  <2>1. reg.select /\ ~pins.clock /\ Reading(togo) /\ Received(togo)
    BY <1>2, <1>3, <1>5 DEF Driven, Written, OnTrack, Selected, ClockIsLow
  <2>2. chip' = Clocked(chip, High.in) /\ reg' = High /\ pins' = High /\ word' = word
        /\ memory' = memory
    BY <1>3, <1>5, <2>1, HighAndLow DEF Written
  <2>3. chip.mode = "reading" /\ Operand(chip.bits) = word /\ chip.left = togo /\ chip.left > 0
    BY <1>4, <2>1 DEF Reading
  <2>4. chip' = [chip EXCEPT !.left = chip.left - 1]
    BY <2>2, <2>3 DEF Clocked
  <2>5. chip'.mode = "reading" /\ chip'.bits = chip.bits /\ chip'.left = togo - 1
    BY <2>3, <2>4, ChipOfState DEF ChipType
  <2>6. Reading(togo - 1)'
    BY <1>1, <2>2, <2>3, <2>5 DEF Reading
  <2>7. Received(togo)'
    BY <1>1, <2>1, <2>2 DEF Received
  <2>8. QED
    BY <1>1, <2>1, <2>2, <2>5, <2>6, <2>7, HighAndLow DEF OnTrack, Selected, ClockIsLow
<1>6. Loops'
  BY <1>1, <1>3, <1>4 DEF Loops, Written, Halfway
<1>7. QED
  BY <1>1, <1>3, <1>5, <1>6, AfterWrite, TypesOfState DEF Stations

LEMMA SampleKeeps ==
  ASSUME Driven, MaxLost <= 1, Sample
  PROVE  Driven'
<1> DEFINE f == [r \in Pins |-> [r EXCEPT !.in = FALSE]]
<1>1. /\ RegisterRead("sample", f) /\ at' = "dataLow" /\ togo' = togo
      /\ buf' = IF reg'.out THEN buf + 2^(togo - 1) ELSE buf
  BY DEF Sample, Goto
<1>2. at = "sample"
  BY <1>1 DEF RegisterRead
<1>3. \A r \in Pins : /\ f[r] \in Pins /\ f[r].select = r.select /\ f[r].clock = r.clock
                      /\ f[r].out = r.out
  BY DEF Pins
<1> HIDE DEF f
<1>4. Obtained(f)
  BY <1>1, <1>3, ReadKeeps
<1>5. togo \in 1 .. WordBits /\ buf <= 2^WordBits - 2^togo
  BY <1>2 DEF Driven, Loops
<1>6. /\ 2^(togo - 1) \in Nat \ {0} /\ 2^togo = 2^(togo - 1) + 2^(togo - 1)
      /\ buf \in Nat
  BY <1>5, Doubles, TypesOfState DEF Word
<1>7. buf' \in Word /\ buf' <= 2^WordBits - 2^(togo - 1)
  BY <1>1, <1>5, <1>6, Sizes DEF Word
<1>8. ASSUME clean' PROVE OnTrack'
  <2>1. pins.select /\ Reading(togo - 1) /\ Received(togo)
    BY <1>2, <1>4, <1>8 DEF Driven, Obtained, OnTrack, Selected
  <2>2. \E o \in Pins : o.select = pins.select /\ o.out = Out(chip) /\ reg' = f[o]
    <3>1. Out(chip) \in BOOLEAN
      BY DEF Out
    <3>2. /\ [pins EXCEPT !.out = Out(chip)] \in Pins
          /\ [pins EXCEPT !.out = Out(chip)].select = pins.select
          /\ [pins EXCEPT !.out = Out(chip)].out = Out(chip)
      BY <3>1, ChipOfState DEF Pins
    <3>3. QED
      BY <1>4, <1>8, <3>2 DEF Obtained
  <2>3. reg'.select /\ reg'.out = Out(chip)
    BY <1>3, <2>1, <2>2
  <2>4. UNCHANGED <<chip, pins, word, memory>>
    BY <1>4 DEF Obtained
  <2>5. Reading(togo - 1)' /\ chip'.mode = "reading"
    BY <1>1, <2>1, <2>4 DEF Reading
  <2>6. Out(chip) <=> Bit(memory[word], togo - 1) = 1
    BY <1>5, <2>1 DEF Out, Reading, WordBits
  <2>7. buf' = buf + (IF Bit(memory[word], togo - 1) = 1 THEN 2^(togo - 1) ELSE 0)
    BY <1>1, <1>6, <2>3, <2>6
  <2>8. buf = (memory[word] \div 2^togo) * 2^togo
    BY <2>1 DEF Received
  <2>9. memory[word] \in Nat
    BY TypesOfState DEF Word
  <2>10. buf' = (memory[word] \div 2^(togo - 1)) * 2^(togo - 1)
    BY <1>5, <2>7, <2>8, <2>9, NextBit
  <2>11. Received(togo - 1)'
    BY <1>1, <2>4, <2>10 DEF Received
  <2>12. QED
    BY <1>1, <2>1, <2>3, <2>4, <2>5, <2>11 DEF OnTrack, Selected, ClockIsLow
<1>9. Loops'
  BY <1>1, <1>4, <1>5, <1>7, ChipOfState DEF Loops, Halfway, Obtained
<1>10. \A o \in Pins : f[o].select => o.select
  BY <1>3
<1>11. QED
  BY <1>1, <1>4, <1>7, <1>8, <1>9, <1>10, AfterRead, TypesOfState DEF Stations

LEMMA DataLowKeeps ==
  ASSUME Driven, MaxLost <= 1, DataLow
  PROVE  Driven'
<1>1. /\ RegisterWrite("dataLow", Low) /\ togo' = togo - 1 /\ buf' = buf
      /\ at' = IF togo' > 0 THEN "dataHigh" ELSE "cleanup"
  BY DEF DataLow, Goto
<1>2. at = "dataLow"
  BY <1>1 DEF RegisterWrite
<1>3. Written(Low) /\ Low \in Pins
  BY <1>1, HighAndLow, WriteKeeps
<1>4. togo \in 1 .. WordBits /\ buf <= 2^WordBits - 2^(togo - 1)
  BY <1>2 DEF Driven, Loops
<1>5. togo' \in 0 .. WordBits
  BY <1>1, <1>4, Sizes
<1>6. ASSUME clean' PROVE OnTrack'
  <2>1. reg.select /\ Reading(togo - 1) /\ Received(togo - 1)
    BY <1>2, <1>3, <1>6 DEF Driven, Written, OnTrack, Selected
  <2>2. chip' = chip /\ reg' = Low /\ pins' = Low /\ word' = word /\ memory' = memory
    BY <1>3, <1>6, <2>1, HighAndLow DEF Written
  <2>3. Reading(togo)' /\ Received(togo)' /\ chip'.mode = "reading"
    BY <1>1, <2>1, <2>2 DEF Reading, Received
  <2>4. CASE togo' > 0
    BY <1>1, <2>2, <2>3, <2>1, <2>4, HighAndLow DEF OnTrack, Selected, ClockIsLow
  <2>5. CASE togo' = 0
    <3>1. buf' = memory'[word']
      <4>1. memory'[word'] \in Nat
        BY <2>2, TypesOfState DEF Word
      <4>2. buf' = (memory'[word'] \div 2^0) * 2^0
        BY <2>3, <2>5 DEF Received
      <4>3. QED
        BY <4>1, <4>2
    <3>2. QED
      BY <1>1, <2>1, <2>2, <2>3, <2>5, <3>1, HighAndLow DEF OnTrack, Selected, ClockIsLow
  <2>6. QED
    BY <1>5, <2>4, <2>5
<1>7. Loops'
  BY <1>1, <1>3, <1>4, <1>5 DEF Loops, Written, Halfway
<1>8. at' \in {"dataHigh", "cleanup"}
  BY <1>1
<1>9. QED
  BY <1>1, <1>3, <1>5, <1>6, <1>7, <1>8, AfterWrite, TypesOfState DEF Stations

LEMMA CleanupKeeps ==
  ASSUME Driven, MaxLost <= 1, Cleanup
  PROVE  Driven'
<1> DEFINE f == [r \in Pins |-> [r EXCEPT !.in = FALSE, !.select = FALSE]]
<1>1. RegisterRead("cleanup", f) /\ at' = "deselect" /\ UNCHANGED <<togo, buf>>
  BY DEF Cleanup, Goto
<1>2. \A r \in Pins : f[r] \in Pins /\ ~f[r].select
  BY DEF Pins
<1> HIDE DEF f
<1>3. Obtained(f)
  BY <1>1, <1>2, ReadKeeps
<1>4. ~reg'.select
  BY <1>2, <1>3 DEF Obtained
<1>5. clean' => OnTrack'
  BY <1>1, <1>3 DEF Obtained, Driven, OnTrack, Selected, ClockIsLow
<1>6. Loops'
  BY <1>1, <1>3, ChipOfState, Loopless DEF Obtained
<1>7. QED
  BY <1>1, <1>2, <1>3, <1>4, <1>5, <1>6, AfterRead, TypesOfState DEF Stations

LEMMA DeselectKeeps ==
  ASSUME Driven, MaxLost <= 1, Deselect
  PROVE  Driven'
<1>1. RegisterWrite("deselect", reg) /\ at' = "endHigh" /\ UNCHANGED <<togo, buf>>
  BY DEF Deselect, Goto
<1>2. at = "deselect" /\ reg \in Pins
  BY <1>1, ChipOfState DEF RegisterWrite
<1>3. Written(reg) /\ ~reg.select
  BY <1>1, <1>2, WriteKeeps DEF Driven, Released
<1>4. clean' => OnTrack'
  BY <1>1, <1>3 DEF Written, Driven, OnTrack, Selected, ClockIsLow
<1>5. pins'.select => lost' > 0
  BY <1>3 DEF Written
<1>6. Loops'
  BY <1>1, <1>3, Loopless DEF Written
<1>7. QED
  BY <1>1, <1>2, <1>3, <1>4, <1>5, <1>6, AfterWrite, TypesOfState DEF Stations

LEMMA EndHighKeeps ==
  ASSUME Driven, MaxLost <= 1, EndHigh
  PROVE  Driven'
<1>1. RegisterWrite("endHigh", High) /\ at' = "endLow" /\ UNCHANGED <<togo, buf>>
  BY DEF EndHigh, Goto
<1>2. at = "endHigh"
  BY <1>1 DEF RegisterWrite
<1>3. Written(High) /\ High \in Pins /\ ~High.select
  BY <1>1, <1>2, WriteKeeps, HighAndLow DEF Driven, Released
<1>4. clean' => OnTrack'
  BY <1>1, <1>3 DEF Written, Driven, OnTrack, Selected, ClockIsLow
<1>5. ~pins'.select
  BY <1>2, <1>3 DEF Written, Driven, Released
<1>6. Loops'
  BY <1>1, <1>3, Loopless DEF Written
<1>7. QED
  BY <1>1, <1>3, <1>4, <1>5, <1>6, AfterWrite, TypesOfState DEF Stations

LEMMA EndLowKeeps ==
  ASSUME Driven, MaxLost <= 1, EndLow
  PROVE  Driven'
<1>1. RegisterWrite("endLow", Low) /\ at' = "idle" /\ UNCHANGED <<togo, buf>>
  BY DEF EndLow, Goto
<1>2. at = "endLow"
  BY <1>1 DEF RegisterWrite
<1>3. Written(Low) /\ Low \in Pins /\ ~Low.select
  BY <1>1, <1>2, WriteKeeps, HighAndLow DEF Driven, Released
<1>4. clean' => OnTrack'
  BY <1>1, <1>3 DEF Written, Driven, OnTrack, Selected, ClockIsLow
<1>5. ~pins'.select
  BY <1>2, <1>3 DEF Written, Driven, Released
<1>6. Loops'
  BY <1>1, <1>3, Loopless DEF Written
<1>7. QED
  BY <1>1, <1>3, <1>4, <1>5, <1>6, AfterWrite, TypesOfState DEF Stations

LEMMA DrivenAtFirst ==
  EepromInit => Driven
<1> SUFFICES ASSUME EepromInit PROVE Driven
  OBVIOUS
<1>1. /\ at = "idle" /\ word = 0 /\ togo = 0 /\ buf = 0 /\ reg = AllLow /\ pins = AllLow
      /\ chip = Chip("waiting", <<>>, 0, FALSE) /\ memory \in Memories
      /\ altered = FALSE /\ lost = 0 /\ clean = TRUE
  BY DEF EepromInit
<1>2. /\ chip.mode = "waiting" /\ chip.bits = <<>> /\ chip.left = 0 /\ chip.enabled = FALSE
      /\ DOMAIN chip = {"mode", "bits", "left", "enabled"}
  BY <1>1 DEF Chip
<1>3. chip \in ChipType
  BY <1>1, ModesAndLefts DEF Chip, ChipType
<1>4. Halfway(chip)
  BY <1>2, ModesAndLefts, Sizes DEF Halfway
<1>5. 0 \in Address /\ 0 \in Word /\ 0 \in 0 .. WordBits /\ 0 \in 0 .. MaxLost
  BY Sizes, MaxLostIsNat DEF Address, Word
<1>6. AllLow \in Pins /\ ~AllLow.select
  BY DEF AllLow, Pins
<1>7. EepromTypeOK
  BY <1>1, <1>3, <1>4, <1>5, <1>6
     DEF EepromTypeOK, ChipType, ChipModes, BitString, Lefts, Halfway
<1>8. OnTrack /\ Released /\ Losses /\ Loops
  BY <1>1, <1>2, <1>6 DEF OnTrack, Released, Losses, Loops, Selected, ClockIsLow
<1>9. QED
  BY <1>1, <1>7, <1>8 DEF Driven

LEMMA DrivenAlways ==
  ASSUME MaxLost <= 1
  PROVE  Driven /\ [EepromNext]_eepromVars => Driven'
<1> SUFFICES ASSUME Driven, [EepromNext]_eepromVars PROVE Driven'
  OBVIOUS
<1>1. CASE UNCHANGED eepromVars
  BY <1>1 DEF eepromVars, driver, Driven, EepromTypeOK, OnTrack, Disturbed, Released, Losses,
              Loops, ToCome, Reading, Received, Command
<1>2. ASSUME NEW w \in Wanted, Read(w) PROVE Driven'
  BY <1>2, ReadKeepsDriven
<1>3. QED
  BY <1>1, <1>2, StartupKeeps, SelectKeeps, StartHighKeeps, StartLowKeeps, StartCommandKeeps,
     WriteBitKeeps, BitHighKeeps, BitLowKeeps, ReleaseKeeps, StartDataKeeps, DataHighKeeps,
     SampleKeeps, DataLowKeeps, CleanupKeeps, DeselectKeeps, EndHighKeeps, EndLowKeeps
     DEF EepromNext

\* When no more than one transfer is lost, words are read right, and only read.
THEOREM WordsAreReadRight ==
  ASSUME MaxLost <= 1
  PROVE  EepromSpec => []ReadsRight
<1>1. Driven => ReadsRight
  BY DEF Driven, ReadsRight, CleanReadIsRight, NeverAltered, OnTrack
<1>2. QED
  BY <1>1, DrivenAtFirst, DrivenAlways, PTL DEF EepromSpec
=============================================================================
