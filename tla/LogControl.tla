----------------------------- MODULE LogControl -----------------------------
(***************************************************************************)
(* How the user starts, stops and shares a log: MainActivity.java and the  *)
(* message handler of PcapService.java.                                    *)
(*                                                                         *)
(* Both live in one process and run on its main thread, whose looper       *)
(* dispatches one message at a time, in the order they were posted.  What  *)
(* the activity shows of the service (mUsbPresent, mLogging, mLocalLogging)*)
(* is a copy, kept up to date by messages; a touch is checked against the  *)
(* copy when it happens and acted on when its click is dispatched.  The    *)
(* activity is torn down and created anew when the user leaves or turns    *)
(* the device; the service stays.                                          *)
(***************************************************************************)
EXTENDS Naturals, Sequences

CONSTANTS
  MaxActivities,   \* bound: instances of MainActivity, one after another
  MaxTaps,         \* bound: touches of the user
  MaxFlips,        \* bound: times a radio appears or disappears
  MaxQueue         \* bound: no timer fires while so many messages wait

ASSUME ControlAssumption ==
  /\ MaxActivities \in Nat \ {0}
  /\ MaxTaps \in Nat
  /\ MaxFlips \in Nat
  /\ MaxQueue \in Nat

Service == 0
Activities == 1 .. MaxActivities

\* Logs are numbered in the order the user names them; 0 is no log.
Logs == 0 .. MaxTaps

VARIABLES
  queue,     \* the messages of the main looper
  ui,        \* per MainActivity: its fields
  clients,   \* PcapService.mClientList
  lastUsb,   \* PcapService.mLastUsbState: what the radio last said of itself
  logger,    \* PcapLogger: is it logging, and, while it is, where
  ticking,   \* logStateTask is posted again and again
  named,     \* logs named so far
  taps,      \* touches so far
  radio,     \* a radio is attached
  flips,     \* times that changed
  orphan     \* history: the log that was running when the radio went away

service == <<clients, lastUsb, logger, ticking>>
user == <<named, taps>>
world == <<radio, flips, orphan>>
vars == <<queue, ui, service, user, world>>

\* Messages.
Register(a)     == [to |-> Service, what |-> "register", from |-> a]
Unregister(a)   == [to |-> Service, what |-> "unregister", from |-> a]
Start(p)        == [to |-> Service, what |-> "start", path |-> p]
Stop            == [to |-> Service, what |-> "stop"]
Radio(b)        == [to |-> Service, what |-> "radio", present |-> b]
Tick            == [to |-> Service, what |-> "tick"]
Plain(a, w)     == [to |-> a, what |-> w]
RadioState(a, b) == [to |-> a, what |-> "radioState", present |-> b]
LogState(a, l)  == [to |-> a, what |-> "logState", state |-> l]

\* Where the last log was is told as well, but read only while there is one.
NotLogging == [logging |-> FALSE, path |-> 0]

PlainKinds == {"connected", "destroy", "control", "share", "cancel", "stopAndShare"}

Message ==
  [to : {Service}, what : {"register", "unregister"}, from : Activities]
  \cup [to : {Service}, what : {"start"}, path : Logs]
  \cup [to : {Service}, what : {"stop", "tick"}]
  \cup [to : {Service}, what : {"radio"}, present : BOOLEAN]
  \cup [to : Activities, what : PlainKinds]
  \cup [to : Activities, what : {"radioState"}, present : BOOLEAN]
  \cup [to : Activities, what : {"logState"}, state : [logging : BOOLEAN, path : Logs]]

\* The message m is dispatched, and its handler posts those of out.
Dispatch(m, out) ==
  /\ queue # <<>>
  /\ Head(queue) = m
  /\ queue' = Tail(queue) \o out

Post(m) == queue' = Append(queue, m)

\* sendLogStateBundle and sendStateBundle go to every client, in order.
LogStates(cs, l) == [i \in DOMAIN cs |-> LogState(cs[i], l)]
RadioStates(cs, b) == [i \in DOMAIN cs |-> RadioState(cs[i], b)]

\* doUpdateServiceLogs does nothing while mService is null.
Command(a, m) == IF ui[a].service THEN <<m>> ELSE <<>>

-----------------------------------------------------------------------------
Unborn == [life |-> "unborn", bind |-> "no", service |-> FALSE, usb |-> FALSE, local |-> FALSE,
           logging |-> FALSE, path |-> 0, shareOnStop |-> FALSE,
           dialog |-> FALSE]

Init ==
  /\ queue = <<>>
  /\ ui = [a \in Activities |-> Unborn]
  /\ clients = <<>>
  /\ lastUsb = "none"
  /\ logger = NotLogging
  /\ ticking = FALSE
  /\ named = 0
  /\ taps = 0
  /\ radio = FALSE
  /\ flips = 0
  /\ orphan = 0

-----------------------------------------------------------------------------
(* The life of an activity. *)

\* onCreate starts the service and binds to it: in the system's own time
\* onStartCommand is called, which runs logStateTask, and then onServiceConnected.
\* MainActivity is singleTask: there is no new one while one is up, but one that was
\* left may not be destroyed yet.
Create(a) ==
  /\ ui[a].life = "unborn"
  /\ \A b \in Activities : b < a => ui[b].life \in {"leaving", "gone"}
  /\ ui' = [ui EXCEPT ![a].life = "up", ![a].bind = "asked"]
  /\ UNCHANGED <<queue, service, user, world>>

PostStart(a) ==
  /\ ui[a].bind = "asked"
  /\ ui' = [ui EXCEPT ![a].bind = "started"]
  /\ Post(Tick)
  /\ UNCHANGED <<service, user, world>>

PostConnected(a) ==
  /\ ui[a].bind = "started"
  /\ ui' = [ui EXCEPT ![a].bind = "bound"]
  /\ Post(Plain(a, "connected"))
  /\ UNCHANGED <<service, user, world>>

Connected(a) ==
  /\ ui[a].life # "gone"
  /\ Dispatch(Plain(a, "connected"), <<Register(a)>>)
  /\ ui' = [ui EXCEPT ![a].service = TRUE]
  /\ UNCHANGED <<service, user, world>>

\* The connection of an activity that is gone went with it.
ConnectedLate(a) ==
  /\ ui[a].life = "gone"
  /\ Dispatch(Plain(a, "connected"), <<>>)
  /\ UNCHANGED <<ui, service, user, world>>

\* The user goes back or turns the device.
Leave(a) ==
  /\ ui[a].life = "up"
  /\ a < MaxActivities
  /\ ui' = [ui EXCEPT ![a].life = "leaving", ![a].dialog = FALSE]
  /\ Post(Plain(a, "destroy"))
  /\ UNCHANGED <<service, user, world>>

\* onDestroy, doUnbindService.
Destroy(a) ==
  /\ Dispatch(Plain(a, "destroy"), Command(a, Unregister(a)))
  /\ ui' = [ui EXCEPT ![a].life = "gone", ![a].service = FALSE]
  /\ UNCHANGED <<service, user, world>>

-----------------------------------------------------------------------------
(* The user touches the screen.  Whether a row can be clicked is decided now, the
   listener runs when the click that is posted here is dispatched. *)

Tap(a, m) ==
  /\ ui[a].life = "up"
  /\ ~ui[a].dialog
  /\ taps < MaxTaps
  /\ taps' = taps + 1
  /\ Post(m)
  /\ UNCHANGED <<ui, service, named, world>>

TapControl(a) == ui[a].usb /\ Tap(a, Plain(a, "control"))
TapShare(a) == ui[a].logging /\ Tap(a, Plain(a, "share"))

\* A button of the dialog closes it.
TapDialog(a, w) ==
  /\ ui[a].dialog
  /\ taps < MaxTaps
  /\ taps' = taps + 1
  /\ ui' = [ui EXCEPT ![a].dialog = FALSE]
  /\ Post(Plain(a, w))
  /\ UNCHANGED <<service, named, world>>

\* mRowLogControl's listener, when mLocalLogging: stop the log.
ClickStop(a) ==
  /\ ui[a].local
  /\ Dispatch(Plain(a, "control"), Command(a, Stop))
  /\ ui' = [ui EXCEPT ![a].local = FALSE]
  /\ UNCHANGED <<service, user, world>>

\* The same listener otherwise: name a new log after the time and start it.
ClickStart(a) ==
  /\ ~ui[a].local
  /\ Dispatch(Plain(a, "control"), Command(a, Start(named + 1)))
  /\ named' = named + 1
  /\ ui' = [ui EXCEPT ![a].local = TRUE, ![a].path = named + 1]
  /\ UNCHANGED <<service, taps, world>>

\* mRowLogShare's listener shows the dialog, which takes the touches from then on.
ClickShare(a) ==
  /\ Dispatch(Plain(a, "share"), <<>>)
  /\ ui' = [ui EXCEPT ![a].dialog = (ui[a].life = "up")]
  /\ UNCHANGED <<service, user, world>>

\* "Cancel", and "Share", which hands out the path of the log while it is written.
ClickOther(a) ==
  /\ Dispatch(Plain(a, "cancel"), <<>>)
  /\ UNCHANGED <<ui, service, user, world>>

\* Mutant of ClickStopAndShare: the log is not stopped.
ClickStopAndShareKeepsLog(a) ==
  /\ Dispatch(Plain(a, "stopAndShare"), <<>>)
  /\ ui' = [ui EXCEPT ![a].shareOnStop = TRUE]
  /\ UNCHANGED <<service, user, world>>

\* "Stop and Share".
ClickStopAndShare(a) ==
  /\ Dispatch(Plain(a, "stopAndShare"), Command(a, Stop))
  /\ ui' = [ui EXCEPT ![a].shareOnStop = TRUE]
  /\ UNCHANGED <<service, user, world>>

-----------------------------------------------------------------------------
(* The activity's handler. *)

\* Mutant of HandleRadioState: the log goes on when the radio has gone.
HandleRadioStateOnly(a, b) ==
  /\ Dispatch(RadioState(a, b), <<>>)
  /\ ui' = [ui EXCEPT ![a].usb = b]
  /\ UNCHANGED <<service, user, world>>

\* MSG_RADIOSTATE.  When the radio the activity knew has gone, logging is stopped.
HandleRadioState(a, b) ==
  /\ Dispatch(RadioState(a, b), IF ui[a].usb /\ ~b THEN Command(a, Stop) ELSE <<>>)
  /\ ui' = [ui EXCEPT ![a].usb = b]
  /\ UNCHANGED <<service, user, world>>

\* MSG_LOGSTATE of a log that is running.
HandleLogging(a) ==
  \E l \in [logging : {TRUE}, path : Logs] :
    /\ Dispatch(LogState(a, l), <<>>)
    /\ ui' = [ui EXCEPT ![a].local = TRUE, ![a].logging = TRUE, ![a].path = l.path]
    /\ UNCHANGED <<service, user, world>>

\* MSG_LOGSTATE otherwise: what was to be shared on stop is shared.
HandleNotLogging(a) ==
  /\ Dispatch(LogState(a, NotLogging), <<>>)
  /\ ui' = [ui EXCEPT ![a].local = FALSE, ![a].logging = FALSE, ![a].shareOnStop = FALSE]
  /\ UNCHANGED <<service, user, world>>

-----------------------------------------------------------------------------
(* The service's handler. *)

\* mClientList.contains.
Client(a) == \E i \in 1 .. Len(clients) : clients[i] = a

RegisterClient(a) ==
  LET cs == IF Client(a) THEN clients ELSE Append(clients, a) IN
  /\ Dispatch(Register(a),
              (IF lastUsb = "none" THEN <<>> ELSE RadioStates(cs, lastUsb = "present"))
                \o LogStates(cs, logger))
  /\ clients' = cs
  /\ UNCHANGED <<ui, lastUsb, logger, ticking, user, world>>

\* ArrayList.remove drops the first that is equal.
Remove(a) ==
  \E i \in 1 .. Len(clients) :
    /\ clients[i] = a
    /\ \A j \in 1 .. i - 1 : clients[j] # a
    /\ clients' = SubSeq(clients, 1, i - 1) \o SubSeq(clients, i + 1, Len(clients))

UnregisterClient(a) ==
  /\ Dispatch(Unregister(a), <<>>)
  /\ \/ Client(a) /\ Remove(a)
     \/ ~Client(a) /\ UNCHANGED clients
  /\ UNCHANGED <<ui, lastUsb, logger, ticking, user, world>>

\* MSG_COMMAND with a path: startLogging, which may fail, then sendLogStateBundle.
StartCommand(p, ok) ==
  LET l == IF ok THEN [logging |-> TRUE, path |-> p] ELSE NotLogging IN
  /\ Dispatch(Start(p), LogStates(clients, l))
  /\ logger' = l
  /\ UNCHANGED <<ui, clients, lastUsb, ticking, user, world>>

\* Mutant of StopCommand: the clients are not told.
StopCommandSilently ==
  /\ Dispatch(Stop, <<>>)
  /\ logger' = NotLogging
  /\ UNCHANGED <<ui, clients, lastUsb, ticking, user, world>>

\* MSG_COMMAND without: stopLogging, then sendLogStateBundle.
StopCommand ==
  /\ Dispatch(Stop, LogStates(clients, NotLogging))
  /\ logger' = NotLogging
  /\ UNCHANGED <<ui, clients, lastUsb, ticking, user, world>>

\* mDeviceHandler: remember the radio's state and replicate it.
RadioMessage(b) ==
  /\ Dispatch(Radio(b), RadioStates(clients, b))
  /\ lastUsb' = IF b THEN "present" ELSE "absent"
  /\ UNCHANGED <<ui, clients, logger, ticking, user, world>>

\* logStateTask, which onStartCommand runs for the first time.
RunLogStateTask ==
  /\ Dispatch(Tick, LogStates(clients, logger))
  /\ ticking' = TRUE
  /\ UNCHANGED <<ui, clients, lastUsb, logger, user, world>>

\* A second has passed since logStateTask ran.
TickDue ==
  /\ ticking
  /\ Len(queue) < MaxQueue
  /\ Post(Tick)
  /\ UNCHANGED <<ui, service, user, world>>

-----------------------------------------------------------------------------
(* A card is plugged in or pulled out, and says so to mDeviceHandler. *)

RadioAppears ==
  /\ ~radio
  /\ flips < MaxFlips
  /\ radio' = TRUE
  /\ flips' = flips + 1
  /\ orphan' = 0
  /\ Post(Radio(TRUE))
  /\ UNCHANGED <<ui, service, user>>

RadioGoes ==
  /\ radio
  /\ flips < MaxFlips
  /\ radio' = FALSE
  /\ flips' = flips + 1
  /\ orphan' = IF logger.logging THEN logger.path ELSE 0
  /\ Post(Radio(FALSE))
  /\ UNCHANGED <<ui, service, user>>

-----------------------------------------------------------------------------
Touch(a) ==
  \/ TapControl(a) \/ TapShare(a) \/ TapDialog(a, "cancel") \/ TapDialog(a, "stopAndShare")

HandledByActivity(a) ==
  \/ Connected(a) \/ ConnectedLate(a) \/ Destroy(a)
  \/ ClickStop(a) \/ ClickStart(a)
  \/ ClickShare(a) \/ ClickOther(a) \/ ClickStopAndShare(a)
  \/ \E b \in BOOLEAN : HandleRadioState(a, b)
  \/ HandleLogging(a) \/ HandleNotLogging(a)

HandledByService ==
  \/ \E a \in Activities : RegisterClient(a) \/ UnregisterClient(a)
  \/ \E p \in Logs, ok \in BOOLEAN : StartCommand(p, ok)
  \/ StopCommand
  \/ \E b \in BOOLEAN : RadioMessage(b)
  \/ RunLogStateTask

\* The looper takes its next message, and the handler it was sent to runs.
Looper ==
  /\ queue # <<>>
  /\ \/ Head(queue).to = Service /\ HandledByService
     \/ \E a \in Activities : Head(queue).to = a /\ HandledByActivity(a)

Next ==
  \/ Looper
  \/ TickDue \/ RadioAppears \/ RadioGoes
  \/ \E a \in Activities : Create(a) \/ PostStart(a) \/ PostConnected(a) \/ Leave(a)
                            \/ Touch(a)

Spec == Init /\ [][Next]_vars

\* A looper that has messages dispatches them.
FairSpec == Spec /\ WF_vars(Looper)

-----------------------------------------------------------------------------
(* Properties. *)

\* What an activity holds; life and bind are the system's view of it.
Fields ==
  [life : {"unborn", "up", "leaving", "gone"}, bind : {"no", "asked", "started", "bound"},
   service : BOOLEAN, usb : BOOLEAN, local : BOOLEAN, logging : BOOLEAN, path : Logs,
   shareOnStop : BOOLEAN, dialog : BOOLEAN]

\* Every variable keeps its type, no client is listed twice, and every message in
\* the queue has a handler.
TypeOK ==
  /\ queue \in Seq(Message)
  /\ ui \in [Activities -> Fields]
  /\ clients \in Seq(Activities)
  /\ \A i, j \in DOMAIN clients : clients[i] = clients[j] => i = j
  /\ lastUsb \in {"none", "absent", "present"}
  /\ logger \in [logging : BOOLEAN, path : Logs]
  /\ ticking \in BOOLEAN
  /\ named \in Logs
  /\ taps \in 0 .. MaxTaps
  /\ radio \in BOOLEAN
  /\ flips \in 0 .. MaxFlips
  /\ orphan \in Logs

\* Once everything posted has been handled, the activity the user sees shows what
\* the service does: the button (mLocalLogging), the dashboard (mLogging, mLogPath)
\* and the radio (mUsbPresent) all agree with it, whatever the order of touches,
\* ticks and radio messages was.
UiAgrees ==
  queue = <<>> =>
    \A a \in Activities : ui[a].life = "up" /\ ui[a].bind = "bound" =>
      /\ ui[a].local = logger.logging
      /\ ui[a].logging = logger.logging
      /\ logger.logging => ui[a].path = logger.path
      /\ ui[a].usb = radio

\* The service knows the activities that are up, and no others, once everything
\* posted has been handled: no dead one is left in mClientList.
ClientsAreUp ==
  queue = <<>> =>
    \A a \in Activities : Client(a) <=> ui[a].life = "up" /\ ui[a].bind = "bound"

\* What activity and service hold of each other agrees whenever no message is under way.
SidesAgree == TypeOK /\ UiAgrees /\ ClientsAreUp

\* "Stop and Share" shares, even when the activity is torn down meanwhile.
StopAndShareShares ==
  \A a \in Activities : ui[a].shareOnStop ~> ~ui[a].shareOnStop

\* The log that was running when the radio went away runs no more.
Ended == orphan = 0 \/ logger.path # orphan \/ ~logger.logging

\* A log that was running when the radio went away is stopped, or replaced, unless the
\* activity that saw the radio is replaced, whatever touches and other messages are on
\* their way when the radio goes.
SeenRadioLossEndsLog == orphan # 0 ~> Ended \/ ui[1].life # "up"
=============================================================================
