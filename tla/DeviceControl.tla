--------------------------- MODULE DeviceControl ---------------------------
(***************************************************************************)
(* How cards come and go: the USB broadcasts MainActivity.java receives    *)
(* and forwards, the permission requests and the table of sources in       *)
(* PcapService.java, and the start and end of a card's capture thread in   *)
(* UsbSource.java and Rtl8187Card.java.                                    *)
(*                                                                         *)
(* Only an activity listens to the system: what is broadcast while there   *)
(* is none is lost.  The activity forwards what it hears to the service,   *)
(* or keeps it until the service is connected.  Everything but the capture *)
(* threads runs on the main looper, in the order it was posted.            *)
(***************************************************************************)
EXTENDS Naturals, Sequences, FiniteSets

CONSTANTS
  Devices,         \* what is plugged in; a device plugged in again is a new one
  Outcomes,        \* how attachUsbDevice may end for a device that is there
  MaxActivities,   \* bound: instances of MainActivity, one after another
  MaxSources,      \* bound: calls of makeSource
  MaxQueue         \* bound: the system posts nothing while so many messages wait

ASSUME DeviceAssumption ==
  /\ Outcomes \subseteq {"started", "notCalibrated", "noEndpoint", "notOpened"}
  /\ MaxActivities \in Nat \ {0}
  /\ MaxSources \in Nat
  /\ MaxQueue \in Nat

Activities == 1 .. MaxActivities
Sources == 1 .. MaxSources
Service == 0

VARIABLES
  queue,     \* the messages of the main looper
  ui,        \* per MainActivity: [life, bind, service, deferred]
  plugged,   \* per device: was it never, is it still, or has it been plugged in
  asked,     \* per device: permission requests the system has not answered
  permitted, \* devices we have permission for
  mapping,   \* PcapService.mDevMapping: the source of a device, or 0
  source,    \* per source: [device, thread]
  made,      \* sources made so far
  lastUsb    \* PcapService.mLastUsbState: is a radio present

system == <<plugged, asked, permitted>>
service == <<mapping, source, made, lastUsb>>
vars == <<queue, ui, system, service>>

\* The intents of mUsbReceiver.
Intent == [action : {"attached", "detached"}, device : Devices]
          \cup [action : {"permission"}, device : Devices, granted : BOOLEAN]

Attached(d)      == [action |-> "attached", device |-> d]
Detached(d)      == [action |-> "detached", device |-> d]
Permission(d, g) == [action |-> "permission", device |-> d, granted |-> g]

\* Messages.
OnStart       == [to |-> Service, what |-> "start"]
UsbIntent(i)  == [to |-> Service, what |-> "intent", intent |-> i]
Radio(b)      == [to |-> Service, what |-> "radio", present |-> b]
Receive(a, i) == [to |-> a, what |-> "intent", intent |-> i]
Connected(a)  == [to |-> a, what |-> "connected"]
Destroyed(a)  == [to |-> a, what |-> "destroy"]

Message ==
  [to : {Service}, what : {"start"}]
  \cup [to : {Service}, what : {"radio"}, present : BOOLEAN]
  \cup [to : {Service} \cup Activities, what : {"intent"}, intent : Intent]
  \cup [to : Activities, what : {"connected", "destroy"}]

Dispatch(m, out) ==
  /\ queue # <<>>
  /\ Head(queue) = m
  /\ queue' = Tail(queue) \o out

\* The activities whose receiver is registered: the one that is up and those that were
\* left and are not destroyed yet.
Listening == {a \in Activities : ui[a].life \in {"up", "leaving"}}

\* A broadcast reaches those who listen when it is sent, in the order they registered.
Registered ==
  {l \in [1 .. Cardinality(Listening) -> Listening] :
     \A j, k \in DOMAIN l : j < k => l[j] < l[k]}

Broadcast(i) == {[k \in DOMAIN l |-> Receive(l[k], i)] : l \in Registered}

-----------------------------------------------------------------------------
Init ==
  /\ queue = <<>>
  /\ ui = [a \in Activities |-> [life |-> "unborn", bind |-> "no", service |-> FALSE, deferred |-> <<>>]]
  /\ plugged \in [Devices -> {"never", "in"}]
  /\ asked = [d \in Devices |-> 0]
  /\ permitted = {}
  /\ mapping = [d \in Devices |-> 0]
  /\ source = <<>>
  /\ made = 0
  /\ lastUsb = FALSE

-----------------------------------------------------------------------------
(* The system. *)

\* A device is plugged in: the activities that listen are told and, when one is up,
\* the system may bring the same intent to it again, as the activity that declares
\* the device in the manifest.  When none is up the user, or the system, creates one.
Plug(d) ==
  /\ plugged[d] = "never"
  /\ Len(queue) < MaxQueue
  /\ plugged' = [plugged EXCEPT ![d] = "in"]
  /\ \E told \in Broadcast(Attached(d)) :
       \/ queue' = queue \o told
       \/ \E a \in Activities :
            ui[a].life = "up" /\ queue' = queue \o told \o <<Receive(a, Attached(d))>>
  /\ UNCHANGED <<ui, asked, permitted, service>>

Unplug(d) ==
  /\ plugged[d] = "in"
  /\ Len(queue) < MaxQueue
  /\ plugged' = [plugged EXCEPT ![d] = "out"]
  /\ permitted' = permitted \ {d}
  /\ \E told \in Broadcast(Detached(d)) : queue' = queue \o told
  /\ UNCHANGED <<ui, asked, service>>

\* The user, or a permission given before, answers a request.
Answer(d, g) ==
  /\ asked[d] > 0
  /\ Len(queue) < MaxQueue
  /\ g => plugged[d] = "in"
  /\ d \in permitted => g
  /\ asked' = [asked EXCEPT ![d] = @ - 1]
  /\ permitted' = IF g THEN permitted \cup {d} ELSE permitted
  /\ \E told \in Broadcast(Permission(d, g)) : queue' = queue \o told
  /\ UNCHANGED <<ui, plugged, service>>

-----------------------------------------------------------------------------
(* MainActivity. *)

\* onCreate registers mUsbReceiver, starts the service and binds to it.
Create(a) ==
  /\ ui[a].life = "unborn"
  /\ \A b \in Activities : b < a => ui[b].life \in {"leaving", "gone"}
  /\ ui' = [ui EXCEPT ![a].life = "up", ![a].bind = "asked"]
  /\ UNCHANGED <<queue, system, service>>

\* The system answers in its own time: it has the service started, then tells the
\* activity that it is bound.
PostStart(a) ==
  /\ ui[a].bind = "asked"
  /\ ui' = [ui EXCEPT ![a].bind = "started"]
  /\ queue' = Append(queue, OnStart)
  /\ UNCHANGED <<system, service>>

PostConnected(a) ==
  /\ ui[a].bind = "started"
  /\ ui' = [ui EXCEPT ![a].bind = "bound"]
  /\ queue' = Append(queue, Connected(a))
  /\ UNCHANGED <<system, service>>

\* The user goes back or turns the device; the last activity of the bound stays.
Leave(a) ==
  /\ ui[a].life = "up"
  /\ a < MaxActivities
  /\ ui' = [ui EXCEPT ![a].life = "leaving"]
  /\ queue' = Append(queue, Destroyed(a))
  /\ UNCHANGED <<system, service>>

\* onDestroy unregisters the receiver and forgets the service.
Destroy(a) ==
  /\ Dispatch(Destroyed(a), <<>>)
  /\ ui' = [ui EXCEPT ![a].life = "gone", ![a].service = FALSE]
  /\ UNCHANGED <<system, service>>

\* Mutant of OnServiceConnected: what has been kept is not forwarded.
OnServiceConnectedDrops(a) ==
  /\ Dispatch(Connected(a), <<>>)
  /\ ui' = [ui EXCEPT ![a].service = (ui[a].life # "gone")]
  /\ UNCHANGED <<system, service>>

\* onServiceConnected forwards what has been kept, and keeps it nevertheless.
OnServiceConnected(a) ==
  /\ Dispatch(Connected(a),
              IF ui[a].life = "gone" THEN <<>>
              ELSE [k \in DOMAIN ui[a].deferred |-> UsbIntent(ui[a].deferred[k])])
  /\ ui' = [ui EXCEPT ![a].service = (ui[a].life # "gone")]
  /\ UNCHANGED <<system, service>>

\* mUsbReceiver.onReceive, also called by onNewIntent, forwards to the service.
Forward(a, i) ==
  /\ ui[a].life # "gone"
  /\ ui[a].service
  /\ Dispatch(Receive(a, i), <<UsbIntent(i)>>)
  /\ UNCHANGED <<ui, system, service>>

\* The same while mService is null.
Defer(a, i) ==
  /\ ui[a].life # "gone"
  /\ ~ui[a].service
  /\ Dispatch(Receive(a, i), <<>>)
  /\ ui' = [ui EXCEPT ![a].deferred = Append(@, i)]
  /\ UNCHANGED <<system, service>>

\* A receiver that is not registered any more is not called.
Missed(a, i) ==
  /\ ui[a].life = "gone"
  /\ Dispatch(Receive(a, i), <<>>)
  /\ UNCHANGED <<ui, system, service>>

-----------------------------------------------------------------------------
(* PcapService. *)

\* onStartCommand asks for every device that has no source yet.
OnStartCommand ==
  /\ Dispatch(OnStart, <<>>)
  /\ asked' = [d \in Devices |-> IF plugged[d] = "in" /\ mapping[d] = 0
                                 THEN asked[d] + 1 ELSE asked[d]]
  /\ UNCHANGED <<ui, plugged, permitted, service>>

\* handleUsbIntent, attached: ask, whether or not the device has a source.
HandleAttached(d) ==
  /\ Dispatch(UsbIntent(Attached(d)), <<>>)
  /\ asked' = [asked EXCEPT ![d] = @ + 1]
  /\ UNCHANGED <<ui, plugged, permitted, service>>

\* handleUsbIntent, permission denied, or granted to a device that has a source.
IgnorePermission(d) ==
  /\ \E g \in BOOLEAN :
       /\ g => mapping[d] # 0
       /\ Dispatch(UsbIntent(Permission(d, g)), <<>>)
  /\ UNCHANGED <<ui, system, service>>

\* What attachUsbDevice says of the radio, in order: first that it is there; of a card
\* it cannot open that it is not; a text alone says nothing of it, which reads as not.
Says(o) ==
  CASE o = "started"       -> <<TRUE, TRUE>>
    [] o = "notCalibrated" -> <<TRUE, FALSE, TRUE>>
    [] o = "noEndpoint"    -> <<TRUE, TRUE>>
    [] o = "notOpened"     -> <<TRUE, FALSE>>

\* handleUsbIntent, permission granted: makeSource, attachUsbDevice and, whatever came
\* of that, an entry in mDevMapping.  A device that has gone cannot be opened.
HandlePermission(d, o) ==
  /\ mapping[d] = 0
  /\ made < MaxSources
  /\ o \in IF plugged[d] = "in" THEN Outcomes ELSE {"notOpened"}
  /\ Dispatch(UsbIntent(Permission(d, TRUE)), [k \in DOMAIN Says(o) |-> Radio(Says(o)[k])])
  /\ made' = made + 1
  /\ source' = Append(source,
       [device |-> d,
        thread |-> IF o \in {"started", "notCalibrated"} THEN "running" ELSE "new"])
  /\ mapping' = [mapping EXCEPT ![d] = made + 1]
  /\ UNCHANGED <<ui, system, lastUsb>>

\* Mutant of HandleDetached: the source is forgotten and not shut down.
HandleDetachedForgets(d) ==
  /\ mapping[d] # 0
  /\ Dispatch(UsbIntent(Detached(d)), <<Radio(FALSE)>>)
  /\ mapping' = [mapping EXCEPT ![d] = 0]
  /\ UNCHANGED <<ui, system, source, made, lastUsb>>

\* Mutant of HandleDetached: the source does not say that its radio is gone.
HandleDetachedSilently(d) ==
  /\ mapping[d] # 0
  /\ Dispatch(UsbIntent(Detached(d)), <<>>)
  /\ source' = [source EXCEPT ![mapping[d]].thread =
                               IF @ = "running" THEN "stopped" ELSE @]
  /\ mapping' = [mapping EXCEPT ![d] = 0]
  /\ UNCHANGED <<ui, system, made, lastUsb>>

\* handleUsbIntent, detached: shut down the source, which says so, and forget it.
HandleDetached(d) ==
  /\ mapping[d] # 0
  /\ Dispatch(UsbIntent(Detached(d)), <<Radio(FALSE)>>)
  /\ source' = [source EXCEPT ![mapping[d]].thread =
                               IF @ = "running" THEN "stopped" ELSE @]
  /\ mapping' = [mapping EXCEPT ![d] = 0]
  /\ UNCHANGED <<ui, system, made, lastUsb>>

IgnoreDetached(d) ==
  /\ mapping[d] = 0
  /\ Dispatch(UsbIntent(Detached(d)), <<>>)
  /\ UNCHANGED <<ui, system, service>>

\* mDeviceHandler, sendStateBundle.
RadioMessage(b) ==
  /\ Dispatch(Radio(b), <<>>)
  /\ lastUsb' = b
  /\ UNCHANGED <<ui, system, mapping, source, made>>

-----------------------------------------------------------------------------
(* A capture thread leaves its loop once it is told to. *)
ThreadEnds(s) ==
  /\ s <= made
  /\ source[s].thread = "stopped"
  /\ source' = [source EXCEPT ![s].thread = "ended"]
  /\ UNCHANGED <<queue, ui, system, mapping, made, lastUsb>>

-----------------------------------------------------------------------------
HandledByActivity(a) ==
  \/ Destroy(a) \/ OnServiceConnected(a)
  \/ \E i \in Intent : Forward(a, i) \/ Defer(a, i) \/ Missed(a, i)

HandledByService ==
  \/ OnStartCommand
  \/ \E d \in Devices :
       \/ HandleAttached(d) \/ IgnorePermission(d) \/ HandleDetached(d) \/ IgnoreDetached(d)
       \/ \E o \in Outcomes \cup {"notOpened"} : HandlePermission(d, o)
  \/ \E b \in BOOLEAN : RadioMessage(b)

Looper == HandledByService \/ \E a \in Activities : HandledByActivity(a)

System == \E d \in Devices : Plug(d) \/ Unplug(d) \/ \E g \in BOOLEAN : Answer(d, g)

Next ==
  \/ Looper \/ System
  \/ \E a \in Activities : Create(a) \/ Leave(a) \/ PostStart(a) \/ PostConnected(a)
  \/ \E s \in Sources : ThreadEnds(s)

Spec == Init /\ [][Next]_vars

\* The looper dispatches what it has, the system starts and binds what it was asked to,
\* a thread that is told to stop gets round to it, and requests are answered.
FairSpec ==
  /\ Spec
  /\ WF_vars(Looper)
  /\ \A a \in Activities : WF_vars(PostStart(a)) /\ WF_vars(PostConnected(a))
  /\ \A s \in Sources : WF_vars(ThreadEnds(s))
  /\ \A d \in Devices : WF_vars(\E g \in BOOLEAN : Answer(d, g))

-----------------------------------------------------------------------------
(* Properties. *)

\* Every variable keeps its type, and a device's source is one made for that device.
TypeOK ==
  /\ queue \in Seq(Message)
  /\ ui \in [Activities -> [life : {"unborn", "up", "leaving", "gone"},
                            bind : {"no", "asked", "started", "bound"}, service : BOOLEAN, deferred : Seq(Intent)]]
  /\ plugged \in [Devices -> {"never", "in", "out"}]
  /\ asked \in [Devices -> Nat]
  /\ permitted \subseteq Devices
  /\ made \in 0 .. MaxSources
  /\ source \in Seq([device : Devices, thread : {"new", "running", "stopped", "ended"}])
  /\ Len(source) = made
  /\ mapping \in [Devices -> 0 .. made]
  /\ lastUsb \in BOOLEAN
  /\ \A d \in Devices : mapping[d] # 0 => source[mapping[d]].device = d

Running == {s \in 1 .. made : source[s].thread = "running"}

\* A device has at most one capture thread, and the service can still reach every
\* thread that runs: however often a device is announced, asked for and permitted,
\* no second source displaces the first from mDevMapping.
ThreadsAreReachable ==
  \A s \in Running : mapping[source[s].device] = s

\* The broadcast that d is unplugged will be received by a that is connected to the service.
Heard(a, d) ==
  /\ ui[a].life # "gone" /\ ui[a].service
  /\ \E k \in DOMAIN queue :
       queue[k] = Receive(a, Detached(d)) /\ \A j \in 1 .. k - 1 : queue[j] # Destroyed(a)

\* A card that was unplugged stops being read, if an activity heard of it: also when that one
\* is about to go, or the other has heard of it too.
HeardUnplugEndsThread ==
  \A s \in Sources, a \in Activities :
    (s \in Running /\ Heard(a, source[s].device)) ~> s \notin Running

\* The device d has a source, or need not have one: it is unplugged, it is not
\* permitted, or no activity is up.
Settled(d) ==
  \/ plugged[d] # "in"
  \/ mapping[d] # 0
  \/ d \notin permitted
  \/ \A a \in Activities : ui[a].life # "up"

\* A device that is plugged in and that the user permits gets a source, whenever the
\* permission arrives: also while the activity is not connected to the service yet.
PermittedIsAttached ==
  \A d \in Devices : (d \in permitted) ~> Settled(d)

\* Once everything posted has been handled, a radio is reported present exactly while
\* some card is being read.
PresentIsRunning ==
  queue = <<>> => (lastUsb <=> Running # {})

\* mDevMapping and mLastUsbState tell of the threads that there are.
ThreadsAreKnown == TypeOK /\ ThreadsAreReachable /\ PresentIsRunning
=============================================================================
