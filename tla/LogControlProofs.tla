-------------------------- MODULE LogControlProofs --------------------------
(***************************************************************************)
(* Proof that activity and service agree once everything posted has been   *)
(* handled, for any number of activities, touches and radio changes, and   *)
(* whatever the bound on the timer is.                                     *)
(*                                                                         *)
(* The argument is about what is under way.  Of each kind of news, the     *)
(* last message in the looper's queue carries the present state of its     *)
(* sender; when none is in the queue the receiver has it already.  Of each *)
(* step of joining and leaving, the message that completes it is still to  *)
(* come, or it is done.                                                    *)
(***************************************************************************)
EXTENDS LogControl, QueueProofs

-----------------------------------------------------------------------------
(* The inductive invariant. *)

\* The messages of a kind to, or from, activity a.
To(a, w) == {m \in Message : m.what = w /\ m.to = a}
From(a, w) == {m \in Message : m.what = w /\ m.from = a}
Of(W) == {m \in Message : m.what \in W}

Controls == Of({"control"})
Commands == Of({"start", "stop"})
RadioNews == Of({"radio"})
LogNewsTo(a) == To(a, "logState")
RadioNewsTo(a) == To(a, "radioState")
Joins(a) == From(a, "register")
Leaves(a) == From(a, "unregister")

\* A log is named for each click that starts one, and a click is a touch.
TapsPayForNames == named + Count(queue, Controls) <= taps

\* While no log runs, none is told of.
LoggerIsOffOrOn == ~logger.logging => logger = NotLogging

\* The last news of the log under way to a client is what the logger does...
LogNewsIsLast ==
  \A a \in Activities : Client(a) => LastIn(queue, LogNewsTo(a), {LogState(a, logger)})

\* ...and when there is none, nor a command that makes some, the client knows.
LogIsShown ==
  \A a \in Activities :
    Client(a) /\ ui[a].service /\ ~Has(queue, LogNewsTo(a)) /\ ~Has(queue, Commands) =>
      /\ ui[a].local = logger.logging
      /\ ui[a].logging = logger.logging
      /\ logger.logging => ui[a].path = logger.path

LogSide == LoggerIsOffOrOn /\ LogNewsIsLast /\ LogIsShown

\* The same of what the radio tells the service...
RadioIsHeard ==
  /\ LastIn(queue, RadioNews, {Radio(radio)})
  /\ ~Has(queue, RadioNews) => (radio <=> lastUsb = "present")

\* ...and the service the clients, which are told nothing before it was.
RadioNewsIsLast ==
  \A a \in Activities :
    Client(a) => LastIn(queue, RadioNewsTo(a), {RadioState(a, lastUsb = "present")})

RadioIsShown ==
  \A a \in Activities :
    Client(a) /\ ~Has(queue, RadioNewsTo(a)) => (ui[a].usb <=> lastUsb = "present")

NothingHeard ==
  lastUsb = "none" => \A a \in Activities : ~ui[a].usb /\ ~Has(queue, RadioNewsTo(a))

RadioSide == RadioIsHeard /\ RadioNewsIsLast /\ RadioIsShown /\ NothingHeard

\* An activity that has bound to the service is a client, or will be.
Joining(a) ==
  ui[a].life \in {"up", "leaving"} /\ ui[a].bind = "bound" =>
    \/ Has(queue, To(a, "connected"))
    \/ ui[a].service /\ (Has(queue, Joins(a)) \/ Client(a))

\* One that is gone is none, or will not be: should it still join, it leaves after that.
Leaving(a) ==
  ui[a].life = "gone" =>
    /\ LastIn(queue, Joins(a) \cup Leaves(a), Leaves(a))
    /\ Client(a) => Has(queue, Leaves(a))

\* None leaves before it is gone, or joins before it has bound.
InOrder(a) ==
  /\ Has(queue, Leaves(a)) => ui[a].life = "gone"
  /\ Has(queue, Joins(a)) \/ Client(a) => ui[a].service \/ ui[a].life = "gone"
  /\ Has(queue, To(a, "connected")) \/ Has(queue, Joins(a)) \/ ui[a].service \/ Client(a)
       => ui[a].bind = "bound"
  /\ ui[a].life = "unborn" <=> ui[a].bind = "no"
  /\ ui[a].life = "leaving" => Has(queue, To(a, "destroy"))
  /\ Has(queue, To(a, "destroy")) => ui[a].life # "unborn"

ClientSide == \A a \in Activities : Joining(a) /\ Leaving(a) /\ InOrder(a)

Agreeing == TypeOK /\ TapsPayForNames /\ LogSide /\ RadioSide /\ ClientSide

-----------------------------------------------------------------------------
(* Messages, and what dispatching and posting them does to the queue. *)

\* What is posted is a message.
LEMMA MessageType ==
  /\ Tick \in Message /\ Stop \in Message
  /\ \A b \in BOOLEAN : Radio(b) \in Message
  /\ \A p \in Logs : Start(p) \in Message
  /\ \A a \in Activities :
       /\ Register(a) \in Message /\ Unregister(a) \in Message
       /\ \A w \in PlainKinds : Plain(a, w) \in Message
       /\ \A b \in BOOLEAN : RadioState(a, b) \in Message
       /\ \A l \in [logging : BOOLEAN, path : Logs] : LogState(a, l) \in Message
BY DEF Message, Tick, Stop, Radio, Start, Register, Unregister, Plain, RadioState, LogState

\* Nothing of M was dispatched or posted.
Quiet(M) ==
  /\ Has(queue, M) <=> Has(queue, M)'
  /\ \A G : LastIn(queue, M, G) => LastIn(queue, M, G)'

QuietOf(W) == \A M \in SUBSET Of(W) : Quiet(M)

\* A step that leaves the queue alone is quiet.
LEMMA IdleIsQuiet ==
  ASSUME UNCHANGED queue, NEW M
  PROVE  Quiet(M)
BY DEF Quiet

\* What a dispatch does to the queue.
LEMMA DispatchMoves ==
  ASSUME TypeOK, NEW m, NEW out \in Seq(Message), Dispatch(m, out)
  PROVE  /\ queue' \in Seq(Message)
         /\ m \in Message
         /\ \A M : Has(queue, M)' => Has(queue, M) \/ Has(out, M)
         /\ \A M : Has(queue, M) => Has(queue, M)' \/ m \in M
         /\ \A M : Has(out, M) => Has(queue, M)'
         /\ \A M, G : LastIn(queue, M, G) /\ m \in M => m \in G \/ Has(queue, M)'
         /\ \A M, G : LastIn(out, M, G) /\ (Has(out, M) \/ LastIn(queue, M, G)) => LastIn(queue, M, G)'
         /\ \A M : m \notin M /\ ~Has(out, M) => Quiet(M)
<1>1. queue \in Seq(Message) /\ queue # <<>> /\ Head(queue) = m /\ queue' = Tail(queue) \o out
  BY DEF TypeOK, Dispatch
<1>2. m \in Message
  BY <1>1, HeadTailProperties, EmptySeq
<1>3. ASSUME NEW M
      PROVE  /\ queue' \in Seq(Message)
             /\ Has(queue, M) <=> m \in M \/ Has(Tail(queue), M)
             /\ Has(queue', M) <=> Has(Tail(queue), M) \/ Has(out, M)
             /\ \A G : LastIn(queue, M, G) /\ m \in M => m \in G \/ Has(Tail(queue), M)
             /\ \A G : LastIn(out, M, G) /\ (Has(out, M) \/ LastIn(queue, M, G)) => LastIn(queue', M, G)
  BY <1>1, AfterDispatch
<1>4. ASSUME NEW M, m \notin M, ~Has(out, M)
      PROVE  Quiet(M)
  <2>1. \A G : LastIn(out, M, G)
    BY <1>4, LastOfNone
  <2>2. QED
    BY <1>3, <1>4, <2>1 DEF Quiet
<1>5. QED
  BY <1>2, <1>3, <1>4

\* What posting a message does to it.
LEMMA PostMoves ==
  ASSUME TypeOK, NEW m \in Message, Post(m)
  PROVE  /\ queue' \in Seq(Message)
         /\ \A M : Has(queue, M)' <=> Has(queue, M) \/ m \in M
         /\ \A M, G : (m \in M => m \in G) /\ (m \in M \/ LastIn(queue, M, G)) => LastIn(queue, M, G)'
         /\ \A M : m \notin M => Quiet(M)
<1>1. queue \in Seq(Message) /\ queue' = Append(queue, m)
  BY DEF TypeOK, Post
<1>2. ASSUME NEW M
      PROVE  /\ queue' \in Seq(Message)
             /\ Has(queue', M) <=> Has(queue, M) \/ m \in M
             /\ \A G : (m \in M => m \in G) /\ (m \in M \/ LastIn(queue, M, G)) => LastIn(queue', M, G)
  BY <1>1, AfterPost
<1>3. QED
  BY <1>2 DEF Quiet

\* The kinds of the messages posted.
Kinds(out) == {out[i].what : i \in 1 .. Len(out)}

\* The kinds of what handlers post.
LEMMA KindsPosted ==
  /\ <<>> \in Seq(Message) /\ Kinds(<<>>) = {}
  /\ \A m \in Message : <<m>> \in Seq(Message) /\ Kinds(<<m>>) = {m.what}
<1>1. Kinds(<<>>) = {}
  BY DEF Kinds
<1>2. ASSUME NEW m \in Message
      PROVE  Kinds(<<m>>) = {m.what}
  BY DEF Kinds
<1>3. QED
  BY <1>1, <1>2

\* A dispatch is quiet of all kinds but those of its messages.
LEMMA DispatchIsQuiet ==
  ASSUME TypeOK, NEW m, NEW out \in Seq(Message), Dispatch(m, out), NEW W,
         \A w \in W : m.what # w /\ w \notin Kinds(out)
  PROVE  QuietOf(W)
<1>1. ASSUME NEW M \in SUBSET Of(W)
      PROVE  m \notin M /\ ~Has(out, M)
  BY <1>1 DEF Of, Has, Kinds
<1>2. QED
  BY <1>1, DispatchMoves DEF QuietOf

\* And posting is of all kinds but that of the message.
LEMMA PostIsQuiet ==
  ASSUME TypeOK, NEW m \in Message, Post(m), NEW W, m.what \notin W
  PROVE  QuietOf(W)
<1>1. \A M \in SUBSET Of(W) : m \notin M
  BY DEF Of
<1>2. QED
  BY <1>1, PostMoves DEF QuietOf

-----------------------------------------------------------------------------
(* What keeps each side. *)

\* The kinds of messages each side is about.
LogKinds == {"logState"}
RadioKinds == {"radio", "radioState"}
ClientKinds == {"connected", "destroy", "register", "unregister"}

\* The log's side depends on the logger, on what the clients show of it and on the
\* messages of two kinds; commands may come.
LEMMA LogSideKept ==
  ASSUME LogSide, QuietOf(LogKinds), UNCHANGED logger,
         Has(queue, Commands) => Has(queue, Commands)',
         \A a \in Activities : Client(a)' => Client(a),
         \A a \in Activities :
           Client(a) /\ ui'[a].service => /\ ui[a].service
                                          /\ ui'[a].local = ui[a].local
                                          /\ ui'[a].logging = ui[a].logging
                                          /\ ui'[a].path = ui[a].path
  PROVE  LogSide'
<1>1. \A a \in Activities : Quiet(LogNewsTo(a))
  BY DEF QuietOf, Of, To, LogNewsTo, LogKinds
<1>2. LogNewsIsLast'
  BY <1>1 DEF LogSide, LogNewsIsLast, Quiet
<1>3. LogIsShown'
  BY <1>1 DEF LogSide, LogIsShown, Quiet
<1>4. QED
  BY <1>2, <1>3 DEF LogSide, LoggerIsOffOrOn

\* The radio's side.
LEMMA RadioSideKept ==
  ASSUME RadioSide, QuietOf(RadioKinds), UNCHANGED <<lastUsb, radio>>,
         \A a \in Activities : Client(a)' => Client(a),
         \A a \in Activities : ui'[a].usb = ui[a].usb
  PROVE  RadioSide'
<1>1. Quiet(RadioNews) /\ \A a \in Activities : Quiet(RadioNewsTo(a))
  BY DEF QuietOf, Of, To, RadioNews, RadioNewsTo, RadioKinds
<1>2. RadioIsHeard'
  BY <1>1 DEF RadioSide, RadioIsHeard, Quiet
<1>3. RadioNewsIsLast'
  BY <1>1 DEF RadioSide, RadioNewsIsLast, Quiet
<1>4. RadioIsShown'
  BY <1>1 DEF RadioSide, RadioIsShown, Quiet
<1>5. NothingHeard'
  BY <1>1 DEF RadioSide, NothingHeard, Quiet
<1>6. QED
  BY <1>2, <1>3, <1>4, <1>5 DEF RadioSide

\* The side of one activity among the clients.
LEMMA ClientKept ==
  ASSUME NEW a \in Activities, Joining(a), Leaving(a), InOrder(a),
         Quiet(To(a, "connected")), Quiet(To(a, "destroy")),
         Quiet(Joins(a)), Quiet(Leaves(a)), Quiet(Joins(a) \cup Leaves(a)),
         Client(a)' <=> Client(a),
         ui'[a].life = ui[a].life, ui'[a].bind = ui[a].bind, ui'[a].service = ui[a].service
  PROVE  Joining(a)' /\ Leaving(a)' /\ InOrder(a)'
BY DEF Joining, Leaving, InOrder, Quiet

LEMMA ClientSideKept ==
  ASSUME ClientSide, QuietOf(ClientKinds), UNCHANGED clients,
         \A a \in Activities : /\ ui'[a].life = ui[a].life
                               /\ ui'[a].bind = ui[a].bind
                               /\ ui'[a].service = ui[a].service
  PROVE  ClientSide'
<1>1. ASSUME NEW a \in Activities
      PROVE  /\ Quiet(To(a, "connected")) /\ Quiet(To(a, "destroy"))
             /\ Quiet(Joins(a)) /\ Quiet(Leaves(a)) /\ Quiet(Joins(a) \cup Leaves(a))
  BY DEF QuietOf, Of, To, From, Joins, Leaves, ClientKinds
<1>2. \A a \in Activities : Client(a)' <=> Client(a)
  BY DEF Client
<1>3. QED
  BY <1>1, <1>2, ClientKept DEF ClientSide

\* Handlers that post no click leave the count of clicks, less the one dispatched.
LEMMA NamesKept ==
  ASSUME TypeOK, TapsPayForNames, NEW m, NEW out \in Seq(Message), Dispatch(m, out),
         "control" \notin Kinds(out),
         taps' = taps, named' = named + (IF m.what = "control" THEN 1 ELSE 0) \/ named' = named
  PROVE  TapsPayForNames' /\ named' <= MaxTaps
<1>1. /\ queue \in Seq(Message) /\ queue # <<>> /\ Head(queue) = m
      /\ queue' = Tail(queue) \o out /\ queue' \in Seq(Message) /\ m \in Message
  BY DispatchMoves DEF TypeOK, Dispatch
<1>2. ~Has(out, Controls)
  BY DEF Has, Controls, Of, Kinds
<1>3. Count(queue', Controls) <= Count(queue, Controls) - (IF m \in Controls THEN 1 ELSE 0)
  BY <1>1, <1>2, CountDispatch
<1>4. Count(queue', Controls) \in Nat /\ Count(queue, Controls) \in Nat
  BY <1>1, CountType
<1>5. m \in Controls <=> m.what = "control"
  BY <1>1 DEF Controls, Of
<1>6. named \in Nat /\ taps \in Nat /\ MaxTaps \in Nat /\ taps <= MaxTaps
  BY ControlAssumption DEF TypeOK, Logs
<1>7. named' + Count(queue', Controls) <= taps
  BY <1>3, <1>4, <1>5, <1>6 DEF TapsPayForNames
<1>8. QED
  BY <1>4, <1>6, <1>7 DEF TapsPayForNames, Count, Places

-----------------------------------------------------------------------------
(* Every action keeps the invariant.  First those that touch no side. *)

\* What the sides are about of an activity stays.
SameSides(a) ==
  /\ ui'[a].life = ui[a].life /\ ui'[a].bind = ui[a].bind /\ ui'[a].service = ui[a].service
  /\ ui'[a].usb = ui[a].usb /\ ui'[a].local = ui[a].local
  /\ ui'[a].logging = ui[a].logging /\ ui'[a].path = ui[a].path

\* A step that posts at most a message no side is about, and changes of the activities
\* only what none is about, keeps them all.
LEMMA AsideKeeps ==
  ASSUME Agreeing, TypeOK', TapsPayForNames',
         NEW W, W = {"connected", "destroy", "register", "unregister", "radio", "radioState",
                     "logState", "start", "stop"},
         QuietOf(W), UNCHANGED <<clients, logger, lastUsb, radio>>,
         \A a \in Activities : SameSides(a)
  PROVE  Agreeing'
<1>1. QuietOf(LogKinds) /\ QuietOf(RadioKinds) /\ QuietOf(ClientKinds) /\ QuietOf({"start", "stop"})
  BY DEF QuietOf, Of, LogKinds, RadioKinds, ClientKinds
<1>2. Quiet(Commands)
  BY <1>1 DEF QuietOf, Commands
<1>3. \A a \in Activities : Client(a)' <=> Client(a)
  BY DEF Client
<1>5. LogSide'
  BY <1>1, <1>2, <1>3, LogSideKept DEF Agreeing, Quiet, SameSides
<1>6. RadioSide'
  BY <1>1, <1>3, RadioSideKept DEF Agreeing, SameSides
<1>7. ClientSide'
  BY <1>1, ClientSideKept DEF Agreeing, SameSides
<1>8. QED
  BY <1>5, <1>6, <1>7 DEF Agreeing

\* Neither is the dialog.
LEMMA DialogAside ==
  ASSUME TypeOK, NEW a \in Activities, NEW d \in BOOLEAN, ui' = [ui EXCEPT ![a].dialog = d]
  PROVE  ui' \in [Activities -> Fields] /\ \A b \in Activities : SameSides(b)
<1>1. ui' \in [Activities -> Fields]
  BY DEF TypeOK, Fields
<1>2. \A b \in Activities : SameSides(b)
  BY DEF TypeOK, Fields, SameSides
<1>3. QED
  BY <1>1, <1>2

LEMMA TouchKeeps ==
  ASSUME Agreeing, NEW a \in Activities, Touch(a)
  PROVE  Agreeing'
<1>1. PICK w \in {"control", "share", "cancel", "stopAndShare"} :
        /\ Post(Plain(a, w))
        /\ taps < MaxTaps /\ taps' = taps + 1
        /\ ui' = ui \/ ui' = [ui EXCEPT ![a].dialog = FALSE]
        /\ UNCHANGED <<service, named, world>>
  BY DEF Touch, TapControl, TapShare, TapDialog, Tap
<1>2. Plain(a, w) \in Message /\ Plain(a, w).what = w
  BY MessageType DEF PlainKinds, Plain
<1>3. TypeOK'
  <2>1. queue' \in Seq(Message)
    BY <1>1, <1>2, PostMoves DEF Agreeing
  <2>2. ui' \in [Activities -> Fields]
    BY <1>1, DialogAside DEF Agreeing, TypeOK
  <2>3. QED
    BY <1>1, <2>1, <2>2, ControlAssumption DEF Agreeing, TypeOK, service, world
<1>4. TapsPayForNames'
  <2>1. Count(queue', Controls) = Count(queue, Controls) + (IF Plain(a, w) \in Controls THEN 1 ELSE 0)
    BY <1>1, <1>2, CountPost DEF Agreeing, TypeOK, Post
  <2>2. Count(queue, Controls) \in Nat /\ named \in Nat /\ taps \in Nat
    BY CountType DEF Agreeing, TypeOK, Logs
  <2>3. named + Count(queue', Controls) <= taps + 1
    BY <2>1, <2>2 DEF Agreeing, TapsPayForNames
  <2>4. QED
    BY <1>1, <2>3 DEF TapsPayForNames, Count, Places
<1> DEFINE W == {"connected", "destroy", "register", "unregister", "radio", "radioState",
                 "logState", "start", "stop"}
<1>5. QuietOf(W)
  BY <1>1, <1>2, PostIsQuiet DEF Agreeing
<1>6. \A b \in Activities : SameSides(b)
  BY <1>1, DialogAside DEF Agreeing, SameSides
<1>7. QED
  BY <1>1, <1>3, <1>4, <1>5, <1>6, AsideKeeps DEF service, world

LEMMA TickDueKeeps ==
  ASSUME Agreeing, TickDue
  PROVE  Agreeing'
<1>1. Tick \in Message /\ Tick.what = "tick" /\ Post(Tick)
  BY MessageType DEF Tick, TickDue
<1>2. TypeOK'
  BY <1>1, PostMoves DEF Agreeing, TypeOK, TickDue, service, user, world
<1>3. TapsPayForNames'
  <2>1. Count(queue', Controls) = Count(queue, Controls) + (IF Tick \in Controls THEN 1 ELSE 0)
    BY <1>1, CountPost DEF Agreeing, TypeOK, Post
  <2>2. Count(queue, Controls) \in Nat /\ Tick \notin Controls
    BY <1>1, CountType DEF Agreeing, TypeOK, Controls, Of
  <2>3. Count(queue', Controls) = Count(queue, Controls)
    BY <2>1, <2>2
  <2>4. QED
    BY <2>3 DEF Agreeing, TapsPayForNames, TickDue, user, Count, Places
<1> DEFINE W == {"connected", "destroy", "register", "unregister", "radio", "radioState",
                 "logState", "start", "stop"}
<1>4. QuietOf(W)
  BY <1>1, PostIsQuiet DEF Agreeing
<1>5. QED
  BY <1>2, <1>3, <1>4, AsideKeeps DEF TickDue, SameSides, service, world

\* The clicks on the dialog's buttons but "Stop and Share", and on the log itself.
LEMMA ClickOtherKeeps ==
  ASSUME Agreeing, NEW a \in Activities, ClickOther(a) \/ ClickShare(a)
  PROVE  Agreeing'
<1>1. PICK w \in {"cancel", "share"} :
        /\ Dispatch(Plain(a, w), <<>>)
        /\ ui' = ui \/ ui' = [ui EXCEPT ![a].dialog = (ui[a].life = "up")]
        /\ UNCHANGED <<service, user, world>>
  BY DEF ClickOther, ClickShare
<1>2. Plain(a, w).what = w /\ <<>> \in Seq(Message) /\ Kinds(<<>>) = {}
  BY KindsPosted DEF Plain
<1>3. TypeOK'
  <2>1. queue' \in Seq(Message)
    BY <1>1, <1>2, DispatchMoves DEF Agreeing
  <2>2. ui' \in [Activities -> Fields]
    BY <1>1, DialogAside DEF Agreeing, TypeOK
  <2>3. QED
    BY <1>1, <2>1, <2>2 DEF Agreeing, TypeOK, service, user, world
<1>4. TapsPayForNames'
  BY <1>1, <1>2, NamesKept DEF Agreeing, user
<1> DEFINE W == {"connected", "destroy", "register", "unregister", "radio", "radioState",
                 "logState", "start", "stop"}
<1>5. QuietOf(W)
  <2>1. \A v \in W : Plain(a, w).what # v /\ v \notin Kinds(<<>>)
    BY <1>2
  <2>2. QED
    BY <1>1, <1>2, <2>1, DispatchIsQuiet DEF Agreeing
<1>6. \A b \in Activities : SameSides(b)
  BY <1>1, DialogAside DEF Agreeing, SameSides
<1>7. QED
  BY <1>1, <1>3, <1>4, <1>5, <1>6, AsideKeeps DEF service, world

-----------------------------------------------------------------------------
(* The handlers of the activity that may command the service. *)

\* A command is posted if the activity has the service.
LEMMA CommandPosted ==
  ASSUME NEW a \in Activities, NEW m \in Message
  PROVE  /\ Command(a, m) \in Seq(Message)
         /\ Kinds(Command(a, m)) \subseteq {m.what}
         /\ \A M : Has(Command(a, m), M) <=> ui[a].service /\ m \in M
<1>1. CASE ui[a].service
  BY <1>1, KindsPosted, HasOne DEF Command
<1>2. CASE ~ui[a].service
  BY <1>2, KindsPosted, HasNone DEF Command
<1>3. QED
  BY <1>1, <1>2

\* A command the activity gives leaves the radio and the clients as they are.
LEMMA CommandIsQuiet ==
  ASSUME TypeOK, NEW a \in Activities, NEW d, NEW m \in Message, Dispatch(d, Command(a, m)),
         m.what \in {"start", "stop"}
  PROVE  /\ queue' \in Seq(Message)
         /\ Has(queue, Commands) /\ d.what \notin {"start", "stop"} => Has(queue, Commands)'
         /\ ui[a].service => Has(queue, Commands)'
         /\ d.what # "logState" => QuietOf(LogKinds)
         /\ d.what \notin RadioKinds => QuietOf(RadioKinds)
         /\ d.what \notin ClientKinds => QuietOf(ClientKinds)
<1> DEFINE out == Command(a, m)
<1>1. out \in Seq(Message) /\ Kinds(out) \subseteq {"start", "stop"}
  BY CommandPosted
<1>2. m \in Commands
  BY DEF Commands, Of
<1>3. queue' \in Seq(Message)
  BY <1>1, DispatchMoves
<1>4. ASSUME Has(queue, Commands), d.what \notin {"start", "stop"}
      PROVE  Has(queue, Commands)'
  <2>1. d \notin Commands
    BY <1>4 DEF Commands, Of
  <2>2. QED
    BY <1>1, <1>4, <2>1, DispatchMoves
<1>5. ui[a].service => Has(queue, Commands)'
  BY <1>1, <1>2, CommandPosted, DispatchMoves
<1>6. ASSUME NEW W, "start" \notin W, "stop" \notin W, d.what \notin W
      PROVE  QuietOf(W)
  <2>1. \A w \in W : d.what # w /\ w \notin Kinds(out)
    BY <1>1, <1>6
  <2>2. QED
    BY <1>1, <2>1, DispatchIsQuiet
<1>7. d.what # "logState" => QuietOf(LogKinds)
  BY <1>6 DEF LogKinds
<1>8. d.what \notin RadioKinds => QuietOf(RadioKinds)
  BY <1>6 DEF RadioKinds
<1>9. d.what \notin ClientKinds => QuietOf(ClientKinds)
  BY <1>6 DEF ClientKinds
<1>10. QED
  BY <1>3, <1>4, <1>5, <1>7, <1>8, <1>9

LEMMA ClickStopAndShareKeeps ==
  ASSUME Agreeing, NEW a \in Activities, ClickStopAndShare(a)
  PROVE  Agreeing'
<1> DEFINE d == Plain(a, "stopAndShare")
<1>1. /\ Dispatch(d, Command(a, Stop)) /\ d.what = "stopAndShare"
      /\ Stop \in Message /\ Stop.what = "stop"
  BY MessageType DEF ClickStopAndShare, Plain, Stop
<1>2. /\ queue' \in Seq(Message)
      /\ Has(queue, Commands) => Has(queue, Commands)'
      /\ QuietOf(LogKinds) /\ QuietOf(RadioKinds) /\ QuietOf(ClientKinds)
  BY <1>1, CommandIsQuiet DEF Agreeing, LogKinds, RadioKinds, ClientKinds
<1>3. ui' = [ui EXCEPT ![a].shareOnStop = TRUE] /\ UNCHANGED <<service, user, world>>
  BY DEF ClickStopAndShare
<1>4. ui' \in [Activities -> Fields]
  <2>1. ui \in [Activities -> Fields] /\ ui' = [ui EXCEPT ![a].shareOnStop = TRUE]
    BY <1>3 DEF Agreeing, TypeOK
  <2>2. QED
    BY <2>1 DEF Fields
<1>5. \A b \in Activities : SameSides(b)
  BY <1>3 DEF Agreeing, TypeOK, Fields, SameSides
<1>6. TypeOK'
  BY <1>2, <1>3, <1>4 DEF Agreeing, TypeOK, service, user, world
<1>7. TapsPayForNames'
  <2>1. Command(a, Stop) \in Seq(Message) /\ "control" \notin Kinds(Command(a, Stop))
    BY <1>1, CommandPosted
  <2>2. QED
    BY <1>1, <1>3, <2>1, NamesKept DEF Agreeing, user
<1>8. \A b \in Activities : Client(b)' <=> Client(b)
  BY <1>3 DEF Client, service
<1>9. LogSide'
  BY <1>2, <1>3, <1>5, <1>8, LogSideKept DEF Agreeing, SameSides, service
<1>10. RadioSide'
  BY <1>2, <1>3, <1>5, <1>8, RadioSideKept DEF Agreeing, SameSides, service, world
<1>11. ClientSide'
  BY <1>2, <1>3, <1>5, ClientSideKept DEF Agreeing, SameSides, service
<1>12. QED
  BY <1>6, <1>7, <1>9, <1>10, <1>11 DEF Agreeing

\* A click on the log itself: what it changes of the activity, a command comes for.
LEMMA ClickLogKeeps ==
  ASSUME Agreeing, NEW a \in Activities, ClickStop(a) \/ ClickStart(a)
  PROVE  Agreeing'
<1> DEFINE d == Plain(a, "control")
<1>1. d.what = "control" /\ Stop \in Message /\ Stop.what = "stop"
  BY MessageType DEF Plain, Stop
<1>2. UNCHANGED <<service, taps, world>>
  BY DEF ClickStop, ClickStart, user
<1>3. ASSUME ClickStart(a)
      PROVE  named + 1 \in Logs
  <2>1. Count(queue, Controls) # 0
    <3>1. queue \in Seq(Message) /\ queue # <<>> /\ Head(queue) = d
      BY <1>3 DEF Agreeing, TypeOK, ClickStart, Dispatch
    <3>2. d \in Controls
      BY <1>1, <3>1, HeadTailProperties, EmptySeq DEF Controls, Of
    <3>3. 1 \in Places(queue, Controls)
      BY <3>1, <3>2, HeadTailProperties, EmptySeq DEF Places
    <3>4. QED
      BY <3>1, <3>3, CountType, FS_EmptySet DEF Count
  <2>2. Count(queue, Controls) \in Nat /\ named \in Nat /\ taps \in 0 .. MaxTaps
    BY CountType DEF Agreeing, TypeOK, Logs
  <2>3. QED
    BY <2>1, <2>2, ControlAssumption DEF Agreeing, TapsPayForNames, Logs
<1>4. PICK m \in Message :
        /\ m.what \in {"start", "stop"}
        /\ Dispatch(d, Command(a, m))
        /\ ui' \in [Activities -> Fields]
        /\ \A b \in Activities : ui'[b].life = ui[b].life
        /\ \A b \in Activities : ui'[b].bind = ui[b].bind
        /\ \A b \in Activities : ui'[b].service = ui[b].service
        /\ \A b \in Activities : ui'[b].usb = ui[b].usb
        /\ \A b \in Activities \ {a} : ui'[b] = ui[b]
        /\ named' \in Logs /\ (named' = named + 1 \/ named' = named)
  <2>1. CASE ClickStop(a)
    <3>1. ui' = [ui EXCEPT ![a].local = FALSE] /\ named' = named
      BY <2>1 DEF ClickStop, user
    <3>2. ui' \in [Activities -> Fields]
      <4>1. ui \in [Activities -> Fields] /\ ui' = [ui EXCEPT ![a].local = FALSE]
        BY <3>1 DEF Agreeing, TypeOK
      <4>2. QED
        BY <4>1 DEF Fields
    <3>3. QED
      BY <1>1, <2>1, <3>1, <3>2 DEF ClickStop, Agreeing, TypeOK, Fields
  <2>2. CASE ClickStart(a)
    <3>1. ui' = [ui EXCEPT ![a].local = TRUE, ![a].path = named + 1] /\ named' = named + 1
      BY <2>2 DEF ClickStart
    <3>2. ui' \in [Activities -> Fields]
      <4>1. /\ ui \in [Activities -> Fields]
            /\ ui' = [ui EXCEPT ![a].local = TRUE, ![a].path = named + 1]
            /\ named + 1 \in Logs
        BY <1>3, <2>2, <3>1 DEF Agreeing, TypeOK
      <4>2. ui' = [ui EXCEPT ![a] = [ui[a] EXCEPT !.local = TRUE, !.path = named + 1]]
        BY <4>1
      <4>3. [ui[a] EXCEPT !.local = TRUE, !.path = named + 1] \in Fields
        BY <4>1 DEF Fields
      <4>4. QED
        BY <4>1, <4>2, <4>3
    <3>3. Start(named + 1) \in Message /\ Start(named + 1).what = "start"
      BY <1>3, <2>2, MessageType DEF Start
    <3>4. QED
      BY <1>3, <2>2, <3>1, <3>2, <3>3 DEF ClickStart, Agreeing, TypeOK, Fields
  <2>3. QED
    BY <2>1, <2>2
<1>5. /\ queue' \in Seq(Message)
      /\ Has(queue, Commands) => Has(queue, Commands)'
      /\ ui[a].service => Has(queue, Commands)'
      /\ QuietOf(LogKinds) /\ QuietOf(RadioKinds) /\ QuietOf(ClientKinds)
  BY <1>1, <1>4, CommandIsQuiet DEF Agreeing, LogKinds, RadioKinds, ClientKinds
<1>6. TypeOK'
  BY <1>2, <1>4, <1>5 DEF Agreeing, TypeOK, service, world
<1>7. TapsPayForNames'
  <2>1. Command(a, m) \in Seq(Message) /\ "control" \notin Kinds(Command(a, m))
    BY <1>4, CommandPosted
  <2>2. QED
    BY <1>1, <1>2, <1>4, <2>1, NamesKept DEF Agreeing
<1>8. \A b \in Activities : Client(b)' <=> Client(b)
  BY <1>2 DEF Client, service
<1>9. LogSide'
  <2>1. \A b \in Activities : Quiet(LogNewsTo(b))
    BY <1>5 DEF QuietOf, Of, To, LogNewsTo, LogKinds
  <2>2. LogNewsIsLast'
    BY <1>2, <1>8, <2>1 DEF Agreeing, LogSide, LogNewsIsLast, Quiet, service
  <2>3. LogIsShown'
    BY <1>2, <1>4, <1>5, <1>8, <2>1 DEF Agreeing, LogSide, LogIsShown, Quiet, service
  <2>4. QED
    BY <1>2, <2>2, <2>3 DEF Agreeing, LogSide, LoggerIsOffOrOn, service
<1>10. RadioSide'
  BY <1>2, <1>4, <1>5, <1>8, RadioSideKept DEF Agreeing, service, world
<1>11. ClientSide'
  BY <1>2, <1>4, <1>5, ClientSideKept DEF Agreeing, service
<1>12. QED
  BY <1>6, <1>7, <1>9, <1>10, <1>11 DEF Agreeing

-----------------------------------------------------------------------------
(* The handlers of what the service tells. *)

LEMMA HandleRadioStateKeeps ==
  ASSUME Agreeing, NEW a \in Activities, NEW b \in BOOLEAN, HandleRadioState(a, b)
  PROVE  Agreeing'
<1> DEFINE d == RadioState(a, b)
           out == IF ui[a].usb /\ ~b THEN Command(a, Stop) ELSE <<>>
<1>0. TypeOK
  BY DEF Agreeing
<1>1. /\ Dispatch(d, out) /\ ui' = [ui EXCEPT ![a].usb = b] /\ UNCHANGED <<service, user, world>>
      /\ d.what = "radioState" /\ d.to = a /\ d.present = b /\ d \in Message
      /\ Stop \in Message /\ Stop.what = "stop"
  BY MessageType DEF HandleRadioState, RadioState, Stop
<1>2. out \in Seq(Message) /\ Kinds(out) \subseteq {"stop"}
  BY <1>1, CommandPosted, KindsPosted
<1>3. /\ queue' \in Seq(Message)
      /\ Has(queue, Commands) => Has(queue, Commands)'
      /\ \A M, G : LastIn(queue, M, G) /\ d \in M => d \in G \/ Has(queue, M)'
      /\ \A M, G : LastIn(out, M, G) /\ LastIn(queue, M, G) => LastIn(queue, M, G)'
      /\ \A M : Has(queue, M)' => Has(queue, M) \/ Has(out, M)
  <2>1. d \notin Commands
    BY <1>1 DEF Commands, Of
  <2>2. QED
    BY <1>0, <1>1, <1>2, <2>1, DispatchMoves
<1>4. ASSUME NEW W, "radioState" \notin W, "stop" \notin W
      PROVE  QuietOf(W)
  <2>1. \A w \in W : d.what # w /\ w \notin Kinds(out)
    BY <1>1, <1>2, <1>4
  <2>2. QED
    BY <1>0, <1>1, <1>2, <2>1, DispatchIsQuiet
<1>5. QuietOf(LogKinds) /\ QuietOf(ClientKinds) /\ QuietOf({"radio"})
  BY <1>4 DEF LogKinds, ClientKinds
<1>6. ui \in [Activities -> Fields] /\ ui' \in [Activities -> Fields]
  <2>1. ui \in [Activities -> Fields] /\ ui' = [ui EXCEPT ![a].usb = b]
    BY <1>0, <1>1 DEF TypeOK
  <2>2. QED
    BY <2>1 DEF Fields
<1>7. /\ ui'[a].usb = b
      /\ \A c \in Activities \ {a} : ui'[c] = ui[c]
      /\ \A c \in Activities : /\ ui'[c].life = ui[c].life /\ ui'[c].bind = ui[c].bind
                               /\ ui'[c].service = ui[c].service /\ ui'[c].local = ui[c].local
                               /\ ui'[c].logging = ui[c].logging /\ ui'[c].path = ui[c].path
  BY <1>1, <1>6 DEF Fields
<1>8. TypeOK'
  BY <1>0, <1>1, <1>3, <1>6 DEF TypeOK, service, user, world
<1>9. TapsPayForNames'
  <2>1. "control" \notin Kinds(out)
    BY <1>2
  <2>2. QED
    BY <1>1, <1>2, <2>1, NamesKept DEF Agreeing, user
<1>10. \A c \in Activities : Client(c)' <=> Client(c)
  BY <1>1 DEF Client, service
<1>11. LogSide'
  BY <1>1, <1>3, <1>5, <1>7, <1>10, LogSideKept DEF Agreeing, service
<1>12. ClientSide'
  BY <1>1, <1>5, <1>7, ClientSideKept DEF Agreeing, service
<1>13. RadioSide'
  <2>1. RadioSide /\ UNCHANGED <<lastUsb, radio>>
    BY <1>1 DEF Agreeing, service, world
  <2>2. Quiet(RadioNews)
    BY <1>5 DEF QuietOf, Of, RadioNews
  <2>3. RadioIsHeard'
    BY <2>1, <2>2 DEF RadioSide, RadioIsHeard, Quiet
  <2>4. ASSUME NEW c \in Activities
        PROVE  /\ ~Has(out, RadioNewsTo(c))
               /\ Has(queue, RadioNewsTo(c))' => Has(queue, RadioNewsTo(c))
               /\ \A G : LastIn(queue, RadioNewsTo(c), G) => LastIn(queue, RadioNewsTo(c), G)'
               /\ c # a => Quiet(RadioNewsTo(c))
    <3>1. ~Has(out, RadioNewsTo(c))
      BY <1>2 DEF Has, Kinds, RadioNewsTo, To
    <3>2. \A G : LastIn(out, RadioNewsTo(c), G)
      BY <3>1, LastOfNone
    <3>3. c # a => d \notin RadioNewsTo(c)
      BY <1>1 DEF RadioNewsTo, To
    <3>4. c # a => Quiet(RadioNewsTo(c))
      BY <1>0, <1>1, <1>2, <3>1, <3>3, DispatchMoves
    <3>5. QED
      BY <1>3, <3>1, <3>2, <3>4
  <2>5. RadioNewsIsLast'
    BY <1>10, <2>1, <2>4 DEF RadioSide, RadioNewsIsLast
  <2>6. d \in RadioNewsTo(a) /\ Has(queue, RadioNewsTo(a))
    <3>1. d \in RadioNewsTo(a)
      BY <1>1 DEF RadioNewsTo, To
    <3>2. queue \in Seq(Message) /\ queue # <<>> /\ Head(queue) = d
      BY <1>0, <1>1 DEF TypeOK, Dispatch
    <3>3. QED
      BY <3>1, <3>2, HasHead
  <2>7. NothingHeard'
    BY <2>1, <2>6 DEF RadioSide, NothingHeard
  <2>8. ASSUME NEW c \in Activities, Client(c)', ~Has(queue, RadioNewsTo(c))'
        PROVE  ui'[c].usb <=> lastUsb' = "present"
    <3>1. CASE c = a
      <4>1. d \in {RadioState(a, lastUsb = "present")}
        BY <1>3, <1>10, <2>1, <2>6, <2>8, <3>1 DEF RadioSide, RadioNewsIsLast
      <4>2. b <=> lastUsb = "present"
        BY <1>1, <4>1 DEF RadioState
      <4>3. QED
        BY <1>7, <2>1, <3>1, <4>2
    <3>2. CASE c # a
      BY <1>7, <1>10, <2>1, <2>4, <2>8, <3>2 DEF RadioSide, RadioIsShown, Quiet
    <3>3. QED
      BY <3>1, <3>2
  <2>9. RadioIsShown'
    BY <2>8 DEF RadioIsShown
  <2>10. QED
    BY <2>3, <2>5, <2>7, <2>9 DEF RadioSide
<1>14. QED
  BY <1>8, <1>9, <1>11, <1>12, <1>13 DEF Agreeing

\* What the news of the log makes of an activity's fields.
LEMMA FieldsOfLog ==
  ASSUME NEW r \in Fields, NEW p \in Logs
  PROVE  /\ [r EXCEPT !.local = TRUE, !.logging = TRUE, !.path = p] \in Fields
         /\ [r EXCEPT !.local = FALSE, !.logging = FALSE, !.shareOnStop = FALSE] \in Fields
<1>1. [r EXCEPT !.local = TRUE, !.logging = TRUE, !.path = p] \in Fields
  BY DEF Fields
<1>2. [r EXCEPT !.local = FALSE, !.logging = FALSE, !.shareOnStop = FALSE] \in Fields
  BY DEF Fields
<1>3. QED
  BY <1>1, <1>2

\* The news of the log reaches activity a: l is what it showed of the logger.
LEMMA HandleLogStateKeeps ==
  ASSUME Agreeing, NEW a \in Activities, HandleLogging(a) \/ HandleNotLogging(a)
  PROVE  Agreeing'
<1>0. TypeOK
  BY DEF Agreeing
<1>1. PICK l \in [logging : BOOLEAN, path : Logs] :
        /\ Dispatch(LogState(a, l), <<>>)
        /\ UNCHANGED <<service, user, world>>
        /\ \/ l.logging /\ ui' = [ui EXCEPT ![a].local = TRUE, ![a].logging = TRUE, ![a].path = l.path]
           \/ l = NotLogging
              /\ ui' = [ui EXCEPT ![a].local = FALSE, ![a].logging = FALSE, ![a].shareOnStop = FALSE]
  <2>1. NotLogging \in [logging : BOOLEAN, path : Logs]
    BY ControlAssumption DEF NotLogging, Logs
  <2>2. QED
    BY <2>1 DEF HandleLogging, HandleNotLogging
<1> DEFINE d == LogState(a, l)
<1>2. d.what = "logState" /\ d.to = a /\ d.state = l /\ d \in Message
  BY MessageType DEF LogState
<1>3. <<>> \in Seq(Message) /\ Kinds(<<>>) = {} /\ \A M : ~Has(<<>>, M)
  BY KindsPosted, HasNone
<1>4. /\ queue' \in Seq(Message)
      /\ Has(queue, Commands) => Has(queue, Commands)'
      /\ \A M, G : LastIn(queue, M, G) /\ d \in M => d \in G \/ Has(queue, M)'
      /\ \A M, G : LastIn(<<>>, M, G) /\ LastIn(queue, M, G) => LastIn(queue, M, G)'
      /\ \A M : d \notin M => Quiet(M)
  <2>1. d \notin Commands
    BY <1>2 DEF Commands, Of
  <2>2. QED
    BY <1>0, <1>1, <1>3, <2>1, DispatchMoves
<1>5. QuietOf(RadioKinds) /\ QuietOf(ClientKinds)
  <2>1. \A W : (\A w \in W : d.what # w /\ w \notin Kinds(<<>>)) => QuietOf(W)
    BY <1>0, <1>1, <1>3, DispatchIsQuiet
  <2>2. QED
    BY <1>2, <1>3, <2>1 DEF RadioKinds, ClientKinds
<1>6. /\ ui' \in [Activities -> Fields]
      /\ \A c \in Activities \ {a} : ui'[c] = ui[c]
      /\ ui'[a].life = ui[a].life /\ ui'[a].bind = ui[a].bind
      /\ ui'[a].service = ui[a].service /\ ui'[a].usb = ui[a].usb
      /\ ui'[a].local = l.logging /\ ui'[a].logging = l.logging
      /\ l.logging => ui'[a].path = l.path
  <2>1. ui \in [Activities -> Fields] /\ l.path \in Logs /\ l.logging \in BOOLEAN
    BY <1>0, <1>1 DEF TypeOK
  <2>2. CASE l.logging /\ ui' = [ui EXCEPT ![a].local = TRUE, ![a].logging = TRUE, ![a].path = l.path]
    <3>1. ui' = [ui EXCEPT ![a] = [ui[a] EXCEPT !.local = TRUE, !.logging = TRUE, !.path = l.path]]
      BY <2>1, <2>2
    <3>2. [ui[a] EXCEPT !.local = TRUE, !.logging = TRUE, !.path = l.path] \in Fields
      BY <2>1, FieldsOfLog
    <3>3. QED
      BY <2>1, <2>2, <3>1, <3>2 DEF Fields
  <2>3. CASE l = NotLogging /\ ui' = [ui EXCEPT ![a].local = FALSE, ![a].logging = FALSE, ![a].shareOnStop = FALSE]
    <3>1. ui' = [ui EXCEPT ![a] = [ui[a] EXCEPT !.local = FALSE, !.logging = FALSE, !.shareOnStop = FALSE]]
      BY <2>1, <2>3
    <3>2. [ui[a] EXCEPT !.local = FALSE, !.logging = FALSE, !.shareOnStop = FALSE] \in Fields
      BY <2>1, FieldsOfLog
    <3>3. l.logging = FALSE
      BY <2>3 DEF NotLogging
    <3>4. QED
      BY <2>1, <3>1, <3>2, <3>3 DEF Fields
  <2>4. QED
    BY <1>1, <2>2, <2>3
<1>7. TypeOK'
  BY <1>0, <1>1, <1>4, <1>6 DEF TypeOK, service, user, world
<1>8. TapsPayForNames'
  BY <1>1, <1>2, <1>3, NamesKept DEF Agreeing, user
<1>9. \A c \in Activities : Client(c)' <=> Client(c)
  BY <1>1 DEF Client, service
<1>10. RadioSide'
  BY <1>1, <1>5, <1>6, <1>9, RadioSideKept DEF Agreeing, service, world
<1>11. ClientSide'
  BY <1>1, <1>5, <1>6, ClientSideKept DEF Agreeing, service
<1>12. LogSide'
  <2>1. LogSide /\ UNCHANGED logger
    BY <1>1 DEF Agreeing, service
  <2>2. \A M, G : LastIn(queue, M, G) => LastIn(queue, M, G)'
    BY <1>3, <1>4, LastOfNone
  <2>3. LogNewsIsLast'
    BY <1>9, <2>1, <2>2 DEF LogSide, LogNewsIsLast
  <2>4. ASSUME NEW c \in Activities, Client(c)', ui'[c].service,
               ~Has(queue, LogNewsTo(c))', ~Has(queue, Commands)'
        PROVE  /\ ui'[c].local = logger.logging /\ ui'[c].logging = logger.logging
               /\ logger.logging => ui'[c].path = logger.path
    <3>1. CASE c = a
      <4>1. d \in LogNewsTo(a)
        BY <1>2 DEF LogNewsTo, To
      <4>2. d \in {LogState(a, logger)}
        BY <1>4, <1>9, <2>1, <2>4, <3>1, <4>1 DEF LogSide, LogNewsIsLast
      <4>3. l = logger
        BY <1>2, <4>2 DEF LogState
      <4>4. QED
        BY <1>6, <3>1, <4>3
    <3>2. CASE c # a
      <4>1. d \notin LogNewsTo(c)
        BY <1>2, <3>2 DEF LogNewsTo, To
      <4>2. Quiet(LogNewsTo(c))
        BY <1>4, <4>1
      <4>3. QED
        BY <1>4, <1>6, <1>9, <2>1, <2>4, <3>2, <4>2 DEF LogSide, LogIsShown, Quiet
    <3>3. QED
      BY <3>1, <3>2
  <2>5. LogIsShown'
    BY <2>1, <2>4 DEF LogIsShown
  <2>6. QED
    BY <2>1, <2>3, <2>5 DEF LogSide, LoggerIsOffOrOn
<1>13. QED
  BY <1>7, <1>8, <1>10, <1>11, <1>12 DEF Agreeing

-----------------------------------------------------------------------------
(* The handlers of the service that tell the clients. *)

\* What sendLogStateBundle posts: the news to every client.
LEMMA LogStatesPosted ==
  ASSUME NEW cs \in Seq(Activities), NEW l \in [logging : BOOLEAN, path : Logs]
  PROVE  /\ LogStates(cs, l) \in Seq(Message)
         /\ Kinds(LogStates(cs, l)) \subseteq {"logState"}
         /\ \A a \in Activities :
              /\ Has(LogStates(cs, l), LogNewsTo(a)) <=> \E i \in 1 .. Len(cs) : cs[i] = a
              /\ LastIn(LogStates(cs, l), LogNewsTo(a), {LogState(a, l)})
<1> DEFINE out == LogStates(cs, l)
<1>1. DOMAIN cs = 1 .. Len(cs) /\ Len(cs) \in Nat /\ \A i \in 1 .. Len(cs) : cs[i] \in Activities
  BY LenProperties
<1>2. \A i \in 1 .. Len(cs) : LogState(cs[i], l) \in Message
  BY <1>1, MessageType
<1>3. out = [i \in 1 .. Len(cs) |-> LogState(cs[i], l)]
  BY <1>1 DEF LogStates
<1>4. out \in Seq(Message) /\ Len(out) = Len(cs)
  BY <1>1, <1>2, <1>3, IsASeq
<1>5. \A i \in 1 .. Len(out) :
        /\ out[i] = LogState(cs[i], l) /\ out[i] \in Message
        /\ out[i].what = "logState" /\ out[i].to = cs[i]
  BY <1>2, <1>3, <1>4 DEF LogState
<1>6. Kinds(out) \subseteq {"logState"}
  BY <1>5 DEF Kinds
<1>7. ASSUME NEW a \in Activities
      PROVE  /\ \A i \in 1 .. Len(out) : out[i] \in LogNewsTo(a) <=> cs[i] = a
             /\ \A i \in 1 .. Len(out) : cs[i] = a => out[i] = LogState(a, l)
  BY <1>5 DEF LogNewsTo, To
<1>8. ASSUME NEW a \in Activities
      PROVE  /\ Has(out, LogNewsTo(a)) <=> \E i \in 1 .. Len(cs) : cs[i] = a
             /\ LastIn(out, LogNewsTo(a), {LogState(a, l)})
  BY <1>4, <1>7 DEF Has, LastIn
<1>9. QED
  BY <1>4, <1>6, <1>8

\* And sendStateBundle.
LEMMA RadioStatesPosted ==
  ASSUME NEW cs \in Seq(Activities), NEW b \in BOOLEAN
  PROVE  /\ RadioStates(cs, b) \in Seq(Message)
         /\ Kinds(RadioStates(cs, b)) \subseteq {"radioState"}
         /\ \A a \in Activities :
              /\ Has(RadioStates(cs, b), RadioNewsTo(a)) <=> \E i \in 1 .. Len(cs) : cs[i] = a
              /\ LastIn(RadioStates(cs, b), RadioNewsTo(a), {RadioState(a, b)})
<1> DEFINE out == RadioStates(cs, b)
<1>1. DOMAIN cs = 1 .. Len(cs) /\ Len(cs) \in Nat /\ \A i \in 1 .. Len(cs) : cs[i] \in Activities
  BY LenProperties
<1>2. \A i \in 1 .. Len(cs) : RadioState(cs[i], b) \in Message
  BY <1>1, MessageType
<1>3. out = [i \in 1 .. Len(cs) |-> RadioState(cs[i], b)]
  BY <1>1 DEF RadioStates
<1>4. out \in Seq(Message) /\ Len(out) = Len(cs)
  BY <1>1, <1>2, <1>3, IsASeq
<1>5. \A i \in 1 .. Len(out) :
        /\ out[i] = RadioState(cs[i], b) /\ out[i] \in Message
        /\ out[i].what = "radioState" /\ out[i].to = cs[i]
  BY <1>2, <1>3, <1>4 DEF RadioState
<1>6. Kinds(out) \subseteq {"radioState"}
  BY <1>5 DEF Kinds
<1>7. ASSUME NEW a \in Activities
      PROVE  /\ \A i \in 1 .. Len(out) : out[i] \in RadioNewsTo(a) <=> cs[i] = a
             /\ \A i \in 1 .. Len(out) : cs[i] = a => out[i] = RadioState(a, b)
  BY <1>5 DEF RadioNewsTo, To
<1>8. ASSUME NEW a \in Activities
      PROVE  /\ Has(out, RadioNewsTo(a)) <=> \E i \in 1 .. Len(cs) : cs[i] = a
             /\ LastIn(out, RadioNewsTo(a), {RadioState(a, b)})
  BY <1>4, <1>7 DEF Has, LastIn
<1>9. QED
  BY <1>4, <1>6, <1>8

\* The three handlers that tell all clients what the logger does.
LEMMA LogTellingKeeps ==
  ASSUME Agreeing, NEW d, d.what \in {"start", "stop", "tick"},
         Dispatch(d, LogStates(clients, logger')),
         logger' \in [logging : BOOLEAN, path : Logs],
         ~logger'.logging => logger' = NotLogging, ticking' \in BOOLEAN,
         UNCHANGED <<ui, clients, lastUsb, user, world>>
  PROVE  Agreeing'
<1> DEFINE out == LogStates(clients, logger')
<1>0. TypeOK /\ clients \in Seq(Activities)
  BY DEF Agreeing, TypeOK
<1>1. /\ out \in Seq(Message) /\ Kinds(out) \subseteq {"logState"}
      /\ \A a \in Activities : /\ Has(out, LogNewsTo(a)) <=> Client(a)
                               /\ LastIn(out, LogNewsTo(a), {LogState(a, logger')})
  BY <1>0, LogStatesPosted DEF Client
<1>2. /\ queue' \in Seq(Message)
      /\ \A M : Has(out, M) => Has(queue, M)'
      /\ \A M, G : LastIn(out, M, G) /\ Has(out, M) => LastIn(queue', M, G)
  <2>1. \A M, G : LastIn(out, M, G) /\ Has(out, M) => LastIn(queue, M, G)'
    BY <1>0, <1>1, DispatchMoves
  <2>2. QED
    BY <1>0, <1>1, <2>1, DispatchMoves
<1>3. QuietOf(RadioKinds) /\ QuietOf(ClientKinds)
  <2>1. \A w \in RadioKinds \cup ClientKinds : d.what # w /\ w \notin Kinds(out)
    BY <1>1 DEF RadioKinds, ClientKinds
  <2>2. QED
    BY <1>0, <1>1, <2>1, DispatchIsQuiet
<1>4. TypeOK'
  BY <1>0, <1>2 DEF TypeOK, user, world
<1>5. TapsPayForNames'
  <2>1. "control" \notin Kinds(out)
    BY <1>1
  <2>2. QED
    BY <1>0, <1>1, <2>1, NamesKept DEF Agreeing, user
<1>6. \A a \in Activities : Client(a)' <=> Client(a)
  BY DEF Client
<1>7. RadioSide'
  BY <1>3, <1>6, RadioSideKept DEF Agreeing, world
<1>8. ClientSide'
  BY <1>3, ClientSideKept DEF Agreeing
<1>9. LogSide'
  <2>1. LogNewsIsLast'
    BY <1>1, <1>2, <1>6 DEF LogNewsIsLast
  <2>2. LogIsShown'
    BY <1>1, <1>2, <1>6 DEF LogIsShown
  <2>3. QED
    BY <2>1, <2>2 DEF LogSide, LoggerIsOffOrOn
<1>10. QED
  BY <1>4, <1>5, <1>7, <1>8, <1>9 DEF Agreeing

LEMMA CommandKeeps ==
  ASSUME Agreeing,
         \/ \E p \in Logs, ok \in BOOLEAN : StartCommand(p, ok)
         \/ StopCommand
         \/ RunLogStateTask
  PROVE  Agreeing'
<1>1. NotLogging \in [logging : BOOLEAN, path : Logs] /\ ~NotLogging.logging
  BY ControlAssumption DEF NotLogging, Logs
<1>2. TypeOK /\ (~logger.logging => logger = NotLogging)
  BY DEF Agreeing, LogSide, LoggerIsOffOrOn
<1>3. ASSUME NEW p \in Logs, NEW ok \in BOOLEAN, StartCommand(p, ok)
      PROVE  Agreeing'
  <2>1. /\ Dispatch(Start(p), LogStates(clients, logger'))
        /\ logger' = IF ok THEN [logging |-> TRUE, path |-> p] ELSE NotLogging
        /\ UNCHANGED <<ui, clients, lastUsb, ticking, user, world>>
    BY <1>3 DEF StartCommand
  <2>2. Start(p).what = "start"
    BY DEF Start
  <2>3. logger' \in [logging : BOOLEAN, path : Logs] /\ (~logger'.logging => logger' = NotLogging)
    BY <1>1, <2>1
  <2>4. /\ Dispatch(Start(p), LogStates(clients, logger'))
        /\ ticking' \in BOOLEAN
        /\ UNCHANGED <<ui, clients, lastUsb, user, world>>
    BY <1>2, <2>1 DEF TypeOK
  <2>5. QED
    BY <2>2, <2>3, <2>4, LogTellingKeeps
<1>4. CASE StopCommand
  <2>1. Stop.what = "stop"
    BY DEF Stop
  <2>2. QED
    BY <1>1, <1>2, <1>4, <2>1, LogTellingKeeps DEF StopCommand, TypeOK
<1>5. CASE RunLogStateTask
  <2>1. Tick.what = "tick"
    BY DEF Tick
  <2>2. logger' = logger /\ Dispatch(Tick, LogStates(clients, logger'))
    BY <1>5 DEF RunLogStateTask
  <2>3. QED
    BY <1>2, <1>5, <2>1, <2>2, LogTellingKeeps DEF RunLogStateTask, TypeOK
<1>6. QED
  BY <1>3, <1>4, <1>5

LEMMA RadioMessageKeeps ==
  ASSUME Agreeing, NEW b \in BOOLEAN, RadioMessage(b)
  PROVE  Agreeing'
<1> DEFINE d == Radio(b)
           out == RadioStates(clients, b)
<1>0. TypeOK /\ clients \in Seq(Activities) /\ radio \in BOOLEAN
  BY DEF Agreeing, TypeOK
<1>1. /\ Dispatch(d, out) /\ d.what = "radio" /\ d.present = b /\ d \in Message
      /\ lastUsb' = IF b THEN "present" ELSE "absent"
      /\ UNCHANGED <<ui, clients, logger, ticking, user, world>>
  BY MessageType DEF RadioMessage, Radio
<1>2. /\ out \in Seq(Message) /\ Kinds(out) \subseteq {"radioState"}
      /\ \A a \in Activities : /\ Has(out, RadioNewsTo(a)) <=> Client(a)
                               /\ LastIn(out, RadioNewsTo(a), {RadioState(a, b)})
  BY <1>0, RadioStatesPosted DEF Client
<1>3. /\ queue' \in Seq(Message)
      /\ \A M : Has(out, M) => Has(queue, M)'
      /\ \A M : Has(queue, M) => Has(queue, M)' \/ d \in M
      /\ \A M, G : LastIn(queue, M, G) /\ d \in M => d \in G \/ Has(queue, M)'
  BY <1>0, <1>1, <1>2, DispatchMoves
<1>4. \A M, G : LastIn(out, M, G) /\ (Has(out, M) \/ LastIn(queue, M, G)) => LastIn(queue', M, G)
  <2>1. \A M, G : LastIn(out, M, G) /\ (Has(out, M) \/ LastIn(queue, M, G)) => LastIn(queue, M, G)'
    BY <1>0, <1>1, <1>2, DispatchMoves
  <2>2. QED
    BY <2>1
<1>5. QuietOf(LogKinds) /\ QuietOf(ClientKinds) /\ QuietOf({"start", "stop"})
  <2>1. \A w \in LogKinds \cup ClientKinds \cup {"start", "stop"} : d.what # w /\ w \notin Kinds(out)
    BY <1>1, <1>2 DEF LogKinds, ClientKinds
  <2>2. QED
    BY <1>0, <1>1, <1>2, <2>1, DispatchIsQuiet
<1>6. TypeOK'
  BY <1>0, <1>1, <1>3 DEF TypeOK, user, world
<1>7. TapsPayForNames'
  <2>1. "control" \notin Kinds(out)
    BY <1>2
  <2>2. QED
    BY <1>0, <1>1, <1>2, <2>1, NamesKept DEF Agreeing, user
<1>8. \A a \in Activities : Client(a)' <=> Client(a)
  BY <1>1 DEF Client
<1>9. LogSide'
  <2>1. Quiet(Commands)
    BY <1>5 DEF QuietOf, Commands
  <2>2. QED
    BY <1>1, <1>5, <1>8, <2>1, LogSideKept DEF Agreeing, Quiet
<1>10. ClientSide'
  BY <1>1, <1>5, ClientSideKept DEF Agreeing
<1>11. RadioSide'
  <2>1. RadioIsHeard /\ UNCHANGED radio
    BY <1>1 DEF Agreeing, RadioSide, world
  <2>2. d \in RadioNews /\ ~Has(out, RadioNews)
    BY <1>1, <1>2 DEF RadioNews, Of, Has, Kinds
  <2>3. LastIn(queue', RadioNews, {Radio(radio)})
    BY <1>4, <2>1, <2>2, LastOfNone DEF RadioIsHeard
  <2>4. ~Has(queue, RadioNews)' => (radio <=> b)
    <3>1. ASSUME ~Has(queue, RadioNews)'
          PROVE  d \in {Radio(radio)}
      BY <1>3, <2>1, <2>2, <3>1 DEF RadioIsHeard
    <3>2. Radio(radio).present = radio
      BY DEF Radio
    <3>3. QED
      BY <1>0, <1>1, <3>1, <3>2
  <2>5. RadioIsHeard'
    BY <1>1, <2>1, <2>3, <2>4 DEF RadioIsHeard
  <2>6. lastUsb' # "none" /\ (lastUsb' = "present") = b
    BY <1>1
  <2>7. RadioNewsIsLast'
    BY <1>2, <1>4, <1>8, <2>6 DEF RadioNewsIsLast
  <2>8. RadioIsShown'
    BY <1>2, <1>3, <1>8 DEF RadioIsShown
  <2>9. NothingHeard'
    BY <2>6 DEF NothingHeard
  <2>10. QED
    BY <2>5, <2>7, <2>8, <2>9 DEF RadioSide
<1>12. QED
  BY <1>6, <1>7, <1>9, <1>10, <1>11 DEF Agreeing

-----------------------------------------------------------------------------
(* Joining and leaving. *)

\* The messages by which activity a joins and leaves.
About(a) == To(a, "connected") \cup To(a, "destroy") \cup Joins(a) \cup Leaves(a)

\* Kinds and activities tell the classes of messages apart.
LEMMA Apart ==
  ASSUME NEW m \in Message, NEW a \in Activities
  PROVE  /\ m \in To(a, "connected") <=> m.what = "connected" /\ m.to = a
         /\ m \in To(a, "destroy") <=> m.what = "destroy" /\ m.to = a
         /\ m \in Joins(a) <=> m.what = "register" /\ m.from = a
         /\ m \in Leaves(a) <=> m.what = "unregister" /\ m.from = a
         /\ m \in About(a) <=> \/ m.what \in {"connected", "destroy"} /\ m.to = a
                               \/ m.what \in {"register", "unregister"} /\ m.from = a
BY DEF To, From, Joins, Leaves, About

\* An activity a step is not about stays as it was among the clients.
LEMMA OtherKept ==
  ASSUME ClientSide, NEW a \in Activities, \A M \in SUBSET About(a) : Quiet(M),
         Client(a)' <=> Client(a),
         ui'[a].life = ui[a].life, ui'[a].bind = ui[a].bind, ui'[a].service = ui[a].service
  PROVE  Joining(a)' /\ Leaving(a)' /\ InOrder(a)'
<1>1. /\ Quiet(To(a, "connected")) /\ Quiet(To(a, "destroy"))
      /\ Quiet(Joins(a)) /\ Quiet(Leaves(a)) /\ Quiet(Joins(a) \cup Leaves(a))
  BY DEF About
<1>2. QED
  BY <1>1, ClientKept DEF ClientSide

\* Removing the first a from a list without duplicates removes a alone.
LEMMA RemoveDrops ==
  ASSUME TypeOK, NEW a \in Activities, Remove(a)
  PROVE  /\ clients' \in Seq(Activities)
         /\ \A i, j \in DOMAIN clients' : clients'[i] = clients'[j] => i = j
         /\ \A c \in Activities : Client(c)' <=> Client(c) /\ c # a
<1>1. PICK i \in 1 .. Len(clients) :
        /\ clients[i] = a
        /\ clients' = SubSeq(clients, 1, i - 1) \o SubSeq(clients, i + 1, Len(clients))
  BY DEF Remove
<1>2. /\ clients \in Seq(Activities) /\ Len(clients) \in Nat /\ DOMAIN clients = 1 .. Len(clients)
      /\ \A k, l \in 1 .. Len(clients) : clients[k] = clients[l] => k = l
      /\ \A k \in 1 .. Len(clients) : clients[k] \in Activities
  BY LenProperties DEF TypeOK
<1> DEFINE n == Len(clients)
<1>5. /\ clients' \in Seq(Activities) /\ Len(clients') = n - 1
      /\ \A k \in 1 .. n - 1 : clients'[k] = clients[IF k < i THEN k ELSE k + 1]
  BY <1>1, <1>2, WithoutOne
<1>6. \A j, k \in DOMAIN clients' : clients'[j] = clients'[k] => j = k
  <2>1. DOMAIN clients' = 1 .. n - 1
    BY <1>5, LenProperties
  <2>2. QED
    BY <1>2, <1>5, <2>1
<1>7. ASSUME NEW c \in Activities
      PROVE  Client(c)' <=> Client(c) /\ c # a
  <2>1. ASSUME NEW k \in 1 .. n - 1, clients'[k] = c
        PROVE  Client(c) /\ c # a
    <3>1. (IF k < i THEN k ELSE k + 1) \in 1 .. n /\ (IF k < i THEN k ELSE k + 1) # i
      BY <1>2
    <3>2. QED
      BY <1>1, <1>2, <1>5, <2>1, <3>1 DEF Client
  <2>2. ASSUME NEW k \in 1 .. n, clients[k] = c, c # a
        PROVE  Client(c)'
    <3>1. CASE k < i
      BY <1>2, <1>5, <2>2, <3>1 DEF Client
    <3>2. CASE k > i
      <4>1. k - 1 \in 1 .. n - 1 /\ clients'[k - 1] = c
        BY <1>2, <1>5, <2>2, <3>2
      <4>2. QED
        BY <1>5, <4>1 DEF Client
    <3>3. QED
      BY <1>1, <1>2, <2>2, <3>1, <3>2
  <2>3. QED
    BY <1>5, <2>1, <2>2 DEF Client
<1>8. QED
  BY <1>5, <1>6, <1>7

LEMMA UnregisterKeeps ==
  ASSUME Agreeing, NEW a \in Activities, UnregisterClient(a)
  PROVE  Agreeing'
<1> DEFINE d == Unregister(a)
<1>0. TypeOK
  BY DEF Agreeing
<1>1. /\ Dispatch(d, <<>>) /\ d.what = "unregister" /\ d.from = a /\ d \in Message
      /\ UNCHANGED <<ui, lastUsb, logger, ticking, user, world>>
  BY MessageType DEF UnregisterClient, Unregister
<1>2. /\ clients' \in Seq(Activities)
      /\ \A i, j \in DOMAIN clients' : clients'[i] = clients'[j] => i = j
      /\ \A c \in Activities : Client(c)' <=> Client(c) /\ c # a
  <2>1. CASE Remove(a)
    BY <1>0, <2>1, RemoveDrops
  <2>2. CASE ~Client(a) /\ UNCHANGED clients
    BY <1>0, <2>2 DEF TypeOK, Client
  <2>3. QED
    BY <2>1, <2>2 DEF UnregisterClient
<1>3. <<>> \in Seq(Message) /\ Kinds(<<>>) = {} /\ \A M : ~Has(<<>>, M) /\ \A G : LastIn(<<>>, M, G)
  BY KindsPosted, HasNone, LastOfNone
<1>4. /\ queue' \in Seq(Message)
      /\ \A M : Has(queue, M)' => Has(queue, M)
      /\ \A M : Has(queue, M) => Has(queue, M)' \/ d \in M
      /\ \A M, G : LastIn(queue, M, G) => LastIn(queue, M, G)'
      /\ \A M : d \notin M => Quiet(M)
  BY <1>0, <1>1, <1>3, DispatchMoves
<1>5. QuietOf(LogKinds) /\ QuietOf(RadioKinds) /\ QuietOf({"start", "stop"})
  <2>1. \A W : (\A w \in W : d.what # w /\ w \notin Kinds(<<>>)) => QuietOf(W)
    BY <1>0, <1>1, <1>3, DispatchIsQuiet
  <2>2. QED
    BY <1>1, <1>3, <2>1 DEF RadioKinds, LogKinds
<1>6. TypeOK'
  BY <1>0, <1>1, <1>2, <1>4 DEF TypeOK, user, world
<1>7. TapsPayForNames'
  BY <1>1, <1>3, NamesKept DEF Agreeing, user
<1>8. LogSide'
  <2>1. Quiet(Commands)
    BY <1>5 DEF QuietOf, Commands
  <2>2. QED
    BY <1>1, <1>2, <1>5, <2>1, LogSideKept DEF Agreeing, Quiet
<1>9. RadioSide'
  BY <1>1, <1>2, <1>5, RadioSideKept DEF Agreeing, world
<1>10. ASSUME NEW c \in Activities
       PROVE  Joining(c)' /\ Leaving(c)' /\ InOrder(c)'
  <2>1. CASE c # a
    <3>1. d \notin About(c)
      BY <1>1, <2>1, Apart
    <3>2. \A M \in SUBSET About(c) : Quiet(M)
      BY <1>4, <3>1
    <3>3. QED
      BY <1>1, <1>2, <2>1, <3>2, OtherKept DEF Agreeing
  <2>2. CASE c = a
    <3>1. Joining(a) /\ Leaving(a) /\ InOrder(a) /\ ui' = ui /\ ~Client(a)'
      BY <1>1, <1>2 DEF Agreeing, ClientSide
    <3>2. d \in Leaves(a) /\ d \notin Joins(a) /\ d \notin To(a, "connected") /\ d \notin To(a, "destroy")
      BY <1>1, Apart
    <3>3. ui[a].life = "gone"
      <4>1. queue \in Seq(Message) /\ queue # <<>> /\ Head(queue) = d
        BY <1>0, <1>1 DEF TypeOK, Dispatch
      <4>2. Has(queue, Leaves(a))
        BY <3>2, <4>1, HasHead
      <4>3. QED
        BY <3>1, <4>2 DEF InOrder
    <3>4. Joining(a)'
      BY <3>1, <3>3 DEF Joining
    <3>5. Leaving(a)'
      BY <1>4, <3>1 DEF Leaving
    <3>6. InOrder(a)'
      BY <1>4, <3>1, <3>2, <3>3 DEF InOrder
    <3>7. QED
      BY <2>2, <3>4, <3>5, <3>6
  <2>3. QED
    BY <2>1, <2>2
<1>11. QED
  BY <1>6, <1>7, <1>8, <1>9, <1>10 DEF Agreeing, ClientSide

LEMMA RegisterKeeps ==
  ASSUME Agreeing, NEW a \in Activities, RegisterClient(a)
  PROVE  Agreeing'
<1> DEFINE d == Register(a)
           heard == IF lastUsb = "none" THEN <<>> ELSE RadioStates(clients', lastUsb = "present")
           told == LogStates(clients', logger)
           out == heard \o told
<1>0. TypeOK /\ logger \in [logging : BOOLEAN, path : Logs] /\ clients \in Seq(Activities)
  BY DEF Agreeing, TypeOK
<1>1. /\ Dispatch(d, out) /\ d.what = "register" /\ d.from = a /\ d \in Message
      /\ clients' = IF Client(a) THEN clients ELSE Append(clients, a)
      /\ UNCHANGED <<ui, lastUsb, logger, ticking, user, world>>
  BY MessageType DEF RegisterClient, Register
<1>2. /\ clients' \in Seq(Activities)
      /\ \A i, j \in DOMAIN clients' : clients'[i] = clients'[j] => i = j
      /\ \A c \in Activities : Client(c)' <=> Client(c) \/ c = a
  <2>1. CASE Client(a)
    BY <1>0, <1>1, <2>1 DEF TypeOK, Client
  <2>2. CASE ~Client(a)
    <3>1. clients' = Append(clients, a)
      BY <1>1, <2>2
    <3>2. /\ clients' \in Seq(Activities) /\ Len(clients) \in Nat
          /\ Len(clients') = Len(clients) + 1
          /\ \A i \in 1 .. Len(clients) : clients'[i] = clients[i]
          /\ clients'[Len(clients) + 1] = a
      BY <1>0, <3>1, AppendProperties, LenProperties
    <3>3. /\ DOMAIN clients = 1 .. Len(clients) /\ DOMAIN clients' = 1 .. Len(clients) + 1
          /\ \A i, j \in 1 .. Len(clients) : clients[i] = clients[j] => i = j
          /\ \A i \in 1 .. Len(clients) : clients[i] # a
      BY <1>0, <2>2, <3>2, LenProperties DEF TypeOK, Client
    <3>4. \A i, j \in DOMAIN clients' : clients'[i] = clients'[j] => i = j
      BY <3>2, <3>3
    <3>5. \A c \in Activities : Client(c)' <=> Client(c) \/ c = a
      BY <3>2 DEF Client
    <3>6. QED
      BY <3>2, <3>4, <3>5
  <2>3. QED
    BY <2>1, <2>2
<1>3. /\ told \in Seq(Message) /\ Kinds(told) \subseteq {"logState"}
      /\ \A c \in Activities : /\ Has(told, LogNewsTo(c)) <=> Client(c)'
                               /\ LastIn(told, LogNewsTo(c), {LogState(c, logger)})
  BY <1>0, <1>2, LogStatesPosted DEF Client
<1>4. /\ heard \in Seq(Message) /\ Kinds(heard) \subseteq {"radioState"}
      /\ lastUsb # "none" =>
           \A c \in Activities : /\ Has(heard, RadioNewsTo(c)) <=> Client(c)'
                                 /\ LastIn(heard, RadioNewsTo(c), {RadioState(c, lastUsb = "present")})
      /\ lastUsb = "none" => heard = <<>>
  <2>1. CASE lastUsb = "none"
    BY <2>1, KindsPosted
  <2>2. CASE lastUsb # "none"
    BY <1>2, <2>2, RadioStatesPosted DEF Client
  <2>3. QED
    BY <2>1, <2>2
<1>5. /\ out \in Seq(Message)
      /\ \A M : Has(out, M) <=> Has(heard, M) \/ Has(told, M)
  BY <1>3, <1>4, ConcatProperties, HasConcat
<1> HIDE DEF heard, told, out
<1>6. \A M : Has(out, M) => \E m \in M : m.what \in {"radioState", "logState"}
  <2>1. ASSUME NEW q, NEW K, Kinds(q) \subseteq K, NEW M, Has(q, M)
        PROVE  \E m \in M : m.what \in K
    <3>1. PICK i \in 1 .. Len(q) : q[i] \in M
      BY <2>1 DEF Has
    <3>2. q[i].what \in K
      BY <2>1 DEF Kinds
    <3>3. QED
      BY <3>1, <3>2
  <2>2. ASSUME NEW M, Has(out, M)
        PROVE  \E m \in M : m.what \in {"radioState", "logState"}
    <3>1. CASE Has(heard, M)
      BY <1>4, <2>1, <3>1
    <3>2. CASE Has(told, M)
      BY <1>3, <2>1, <3>2
    <3>3. QED
      BY <1>5, <2>2, <3>1, <3>2
  <2>3. QED
    BY <2>2
<1>7. Kinds(out) \subseteq {"radioState", "logState"}
  <2>1. ASSUME NEW i \in 1 .. Len(out)
        PROVE  out[i].what \in {"radioState", "logState"}
    <3>1. Has(out, {out[i]})
      BY DEF Has
    <3>2. QED
      BY <1>6, <3>1
  <2>2. QED
    BY <2>1 DEF Kinds
<1>8. /\ queue' \in Seq(Message)
      /\ \A M : Has(queue, M)' => Has(queue, M) \/ Has(out, M)
      /\ \A M : Has(queue, M) => Has(queue, M)' \/ d \in M
      /\ \A M : Has(out, M) => Has(queue, M)'
      /\ \A M, G : LastIn(queue, M, G) /\ d \in M => d \in G \/ Has(queue, M)'
      /\ \A M : d \notin M /\ ~Has(out, M) => Quiet(M)
  BY <1>0, <1>1, <1>5, DispatchMoves
<1>9. \A M, G : LastIn(out, M, G) /\ (Has(out, M) \/ LastIn(queue, M, G)) => LastIn(queue', M, G)
  <2>1. \A M, G : LastIn(out, M, G) /\ (Has(out, M) \/ LastIn(queue, M, G)) => LastIn(queue, M, G)'
    BY <1>0, <1>1, <1>5, DispatchMoves
  <2>2. QED
    BY <2>1
<1>10. TypeOK'
  BY <1>0, <1>1, <1>2, <1>8 DEF TypeOK, user, world
<1>11. TapsPayForNames'
  <2>1. "control" \notin Kinds(out)
    BY <1>7
  <2>2. QED
    BY <1>1, <1>5, <2>1, NamesKept DEF Agreeing, user
<1>12. LogSide'
  <2>1. ASSUME NEW c \in Activities, Client(c)'
        PROVE  Has(queue, LogNewsTo(c))' /\ LastIn(queue', LogNewsTo(c), {LogState(c, logger)})
    <3>1. Has(out, LogNewsTo(c))
      BY <1>3, <1>5, <2>1
    <3>2. LastIn(out, LogNewsTo(c), {LogState(c, logger)})
      BY <1>3, <1>4, <2>1, LastOfConcat DEF out
    <3>3. QED
      BY <1>8, <1>9, <3>1, <3>2
  <2>2. logger' = logger
    BY <1>1
  <2>3. LogNewsIsLast'
    BY <2>1, <2>2 DEF LogNewsIsLast
  <2>4. LogIsShown'
    BY <2>1 DEF LogIsShown
  <2>5. QED
    BY <2>2, <2>3, <2>4 DEF Agreeing, LogSide, LoggerIsOffOrOn
<1>13. RadioSide'
  <2>1. RadioSide /\ UNCHANGED <<ui, lastUsb, radio>>
    BY <1>1 DEF Agreeing, RadioSide, world
  <2>2. Quiet(RadioNews)
    <3>1. d \notin RadioNews /\ ~Has(out, RadioNews)
      BY <1>1, <1>6 DEF RadioNews, Of
    <3>2. QED
      BY <1>8, <3>1
  <2>3. RadioIsHeard'
    BY <2>1, <2>2 DEF RadioSide, RadioIsHeard, Quiet
  <2>4. \A c \in Activities : ~Has(told, RadioNewsTo(c)) /\ d \notin RadioNewsTo(c)
    BY <1>1, <1>3 DEF Has, Kinds, RadioNewsTo, To
  <2>5. CASE lastUsb # "none"
    <3>1. ASSUME NEW c \in Activities, Client(c)'
          PROVE  /\ Has(queue, RadioNewsTo(c))'
                 /\ LastIn(queue', RadioNewsTo(c), {RadioState(c, lastUsb = "present")})
      <4>1. Has(heard, RadioNewsTo(c)) /\ LastIn(heard, RadioNewsTo(c), {RadioState(c, lastUsb = "present")})
        BY <1>4, <2>5, <3>1
      <4>2. LastIn(told, RadioNewsTo(c), {RadioState(c, lastUsb = "present")})
        BY <2>4, LastOfNone
      <4>3. LastIn(out, RadioNewsTo(c), {RadioState(c, lastUsb = "present")})
        BY <1>3, <1>4, <4>1, <4>2, LastOfConcat DEF out
      <4>4. QED
        BY <1>5, <1>8, <1>9, <4>1, <4>3
    <3>2. RadioNewsIsLast'
      BY <2>1, <3>1 DEF RadioNewsIsLast
    <3>3. RadioIsShown'
      BY <3>1 DEF RadioIsShown
    <3>4. NothingHeard'
      BY <2>1, <2>5 DEF NothingHeard
    <3>5. QED
      BY <2>3, <3>2, <3>3, <3>4 DEF RadioSide
  <2>6. CASE lastUsb = "none"
    <3>1. \A c \in Activities : Quiet(RadioNewsTo(c)) /\ ~Has(queue, RadioNewsTo(c)) /\ ~ui[c].usb
      <4>1. \A c \in Activities : ~Has(heard, RadioNewsTo(c))
        BY <1>4, <2>6, HasNone
      <4>2. \A c \in Activities : Quiet(RadioNewsTo(c))
        BY <1>5, <1>8, <2>4, <4>1
      <4>3. QED
        BY <2>1, <2>6, <4>2 DEF RadioSide, NothingHeard
    <3>2. \A c \in Activities : ~Has(queue, RadioNewsTo(c))' /\ ~ui'[c].usb
      BY <2>1, <3>1 DEF Quiet
    <3>3. RadioNewsIsLast'
      <4>1. \A c \in Activities : ~Has(queue', RadioNewsTo(c))
        BY <3>2
      <4>2. QED
        BY <4>1, LastOfNone DEF RadioNewsIsLast
    <3>4. RadioIsShown'
      BY <2>1, <2>6, <3>2 DEF RadioIsShown
    <3>5. NothingHeard'
      BY <3>2 DEF NothingHeard
    <3>6. QED
      BY <2>3, <3>3, <3>4, <3>5 DEF RadioSide
  <2>7. QED
    BY <2>5, <2>6
<1>14. ASSUME NEW c \in Activities
       PROVE  Joining(c)' /\ Leaving(c)' /\ InOrder(c)'
  <2>1. ~Has(out, About(c)) /\ \A M \in SUBSET About(c) : ~Has(out, M)
    BY <1>6 DEF About, To, From, Joins, Leaves
  <2>2. CASE c # a
    <3>1. d \notin About(c)
      BY <1>1, <2>2, Apart
    <3>2. \A M \in SUBSET About(c) : Quiet(M)
      BY <1>8, <2>1, <3>1
    <3>3. QED
      BY <1>1, <1>2, <2>2, <3>2, OtherKept DEF Agreeing
  <2>3. CASE c = a
    <3>1. Joining(a) /\ Leaving(a) /\ InOrder(a) /\ ui' = ui /\ Client(a)'
      BY <1>1, <1>2 DEF Agreeing, ClientSide
    <3>2. d \in Joins(a) /\ d \notin Leaves(a) /\ d \notin To(a, "connected") /\ d \notin To(a, "destroy")
      BY <1>1, Apart
    <3>3. /\ Quiet(Leaves(a)) /\ Quiet(To(a, "connected")) /\ Quiet(To(a, "destroy"))
          /\ Has(queue, Joins(a))
          /\ Has(queue, Joins(a))' => Has(queue, Joins(a))
      <4>1. /\ Leaves(a) \subseteq About(a) /\ To(a, "connected") \subseteq About(a)
            /\ To(a, "destroy") \subseteq About(a)
        BY DEF About
      <4>2. queue \in Seq(Message) /\ queue # <<>> /\ Head(queue) = d
        BY <1>0, <1>1 DEF TypeOK, Dispatch
      <4>3. Has(queue, Joins(a))
        BY <3>2, <4>2, HasHead
      <4>4. QED
        BY <1>8, <2>1, <2>3, <3>2, <4>1, <4>3
    <3>4. Joining(a)'
      BY <3>1, <3>3 DEF Joining, InOrder
    <3>5. Leaving(a)'
      <4>1. SUFFICES ASSUME ui[a].life = "gone"
                     PROVE  /\ LastIn(queue', Joins(a) \cup Leaves(a), Leaves(a))
                            /\ Has(queue, Leaves(a))'
        BY <3>1 DEF Leaving
      <4>2. LastIn(queue, Joins(a) \cup Leaves(a), Leaves(a))
        BY <3>1, <4>1 DEF Leaving
      <4>3. Has(queue, Joins(a) \cup Leaves(a))'
        BY <1>8, <3>2, <4>2
      <4>4. ~Has(out, Joins(a) \cup Leaves(a))
        BY <2>1, <2>3 DEF About
      <4>5. LastIn(queue', Joins(a) \cup Leaves(a), Leaves(a))
        BY <1>9, <4>2, <4>4, LastOfNone
      <4>6. Has(queue', Leaves(a))
        BY <1>8, <4>3, <4>5, HasLast
      <4>7. QED
        BY <4>5, <4>6
    <3>6. InOrder(a)'
      BY <3>1, <3>3 DEF InOrder, Quiet
    <3>7. QED
      BY <2>3, <3>4, <3>5, <3>6
  <2>4. QED
    BY <2>2, <2>3
<1>15. QED
  BY <1>10, <1>11, <1>12, <1>13, <1>14 DEF Agreeing, ClientSide

-----------------------------------------------------------------------------
(* The life of an activity. *)

\* Of activity a, only what makes it a client changes.
SameShown(a) ==
  /\ ui' \in [Activities -> Fields]
  /\ \A c \in Activities \ {a} : ui'[c] = ui[c]
  /\ ui'[a].usb = ui[a].usb /\ ui'[a].local = ui[a].local
  /\ ui'[a].logging = ui[a].logging /\ ui'[a].path = ui[a].path

\* A step of the life of activity a keeps the invariant if it does so for a.
LEMMA LifeKeeps ==
  ASSUME Agreeing, NEW a \in Activities, SameShown(a), queue' \in Seq(Message), TapsPayForNames',
         UNCHANGED <<service, user, world>>,
         QuietOf(LogKinds), QuietOf(RadioKinds), QuietOf({"start", "stop"}),
         \A c \in Activities \ {a} : \A M \in SUBSET About(c) : Quiet(M),
         Client(a) /\ ui'[a].service => ui[a].service,
         Joining(a)', Leaving(a)', InOrder(a)'
  PROVE  Agreeing'
<1>1. TypeOK'
  BY DEF Agreeing, TypeOK, SameShown, service, user, world
<1>2. \A c \in Activities : Client(c)' <=> Client(c)
  BY DEF Client, service
<1>3. Quiet(Commands)
  BY DEF QuietOf, Commands
<1>4. LogSide'
  BY <1>2, <1>3, LogSideKept DEF Agreeing, SameShown, service, Quiet
<1>5. RadioSide'
  BY <1>2, RadioSideKept DEF Agreeing, SameShown, service, world
<1>6. ASSUME NEW c \in Activities \ {a}
      PROVE  Joining(c)' /\ Leaving(c)' /\ InOrder(c)'
  BY <1>2, OtherKept DEF Agreeing, SameShown
<1>7. ClientSide'
  BY <1>6 DEF ClientSide
<1>8. QED
  BY <1>1, <1>4, <1>5, <1>7 DEF Agreeing

\* What a message about the life of activity a does to the queue when it is posted.
LEMMA LifePosted ==
  ASSUME Agreeing, NEW a \in Activities, NEW m \in Message, Post(m), user' = user,
         m.what \in {"connected", "destroy", "tick"}, m.to \in {a, Service}
  PROVE  /\ queue' \in Seq(Message) /\ TapsPayForNames'
         /\ QuietOf(LogKinds) /\ QuietOf(RadioKinds) /\ QuietOf({"start", "stop"})
         /\ \A c \in Activities \ {a} : \A M \in SUBSET About(c) : Quiet(M)
         /\ Quiet(Joins(a)) /\ Quiet(Leaves(a)) /\ Quiet(Joins(a) \cup Leaves(a))
         /\ \A M : m \notin M => Quiet(M)
         /\ \A M : Has(queue, M)' <=> Has(queue, M) \/ m \in M
<1>0. TypeOK
  BY DEF Agreeing
<1>1. /\ queue' \in Seq(Message)
      /\ \A M : m \notin M => Quiet(M)
      /\ \A M : Has(queue, M)' <=> Has(queue, M) \/ m \in M
  BY <1>0, PostMoves
<1>2. TapsPayForNames'
  <2>1. Count(queue', Controls) = Count(queue, Controls) + (IF m \in Controls THEN 1 ELSE 0)
    BY <1>0, CountPost DEF TypeOK, Post
  <2>2. Count(queue, Controls) \in Nat /\ m \notin Controls
    BY <1>0, CountType DEF TypeOK, Controls, Of
  <2>3. Count(queue', Controls) = Count(queue, Controls)
    BY <2>1, <2>2
  <2>4. QED
    BY <2>3 DEF Agreeing, TapsPayForNames, user, Count, Places
<1>3. QuietOf(LogKinds) /\ QuietOf(RadioKinds) /\ QuietOf({"start", "stop"})
  BY <1>0, PostIsQuiet DEF LogKinds, RadioKinds
<1>4. ASSUME NEW c \in Activities \ {a}
      PROVE  m \notin About(c)
  BY <1>4, Apart DEF Service, Activities
<1>5. m \notin Joins(a) /\ m \notin Leaves(a)
  BY Apart
<1>6. QED
  BY <1>1, <1>2, <1>3, <1>4, <1>5

LEMMA CreateKeeps ==
  ASSUME Agreeing, NEW a \in Activities, Create(a)
  PROVE  Agreeing'
<1>1. /\ ui[a].life = "unborn" /\ UNCHANGED <<queue, service, user, world>>
      /\ ui' = [ui EXCEPT ![a].life = "up", ![a].bind = "asked"]
      /\ ui \in [Activities -> Fields]
  BY DEF Create, Agreeing, TypeOK
<1>2. /\ SameShown(a) /\ ui'[a].life = "up" /\ ui'[a].bind = "asked"
      /\ ui'[a].service = ui[a].service
  <2>1. ui' = [ui EXCEPT ![a] = [ui[a] EXCEPT !.life = "up", !.bind = "asked"]]
    BY <1>1
  <2>2. ui[a] \in Fields /\ ui'[a] = [ui[a] EXCEPT !.life = "up", !.bind = "asked"]
    BY <1>1, <2>1
  <2>3. /\ ui'[a] \in Fields /\ ui'[a].life = "up" /\ ui'[a].bind = "asked"
        /\ ui'[a].service = ui[a].service /\ ui'[a].usb = ui[a].usb
        /\ ui'[a].local = ui[a].local /\ ui'[a].logging = ui[a].logging
        /\ ui'[a].path = ui[a].path
    BY <2>2 DEF Fields
  <2>4. ui' \in [Activities -> Fields] /\ \A c \in Activities \ {a} : ui'[c] = ui[c]
    BY <1>1, <2>1, <2>2, <2>3
  <2>5. QED
    BY <2>3, <2>4 DEF SameShown
<1>3. \A M : Quiet(M)
  BY <1>1, IdleIsQuiet
<1>4. Joining(a)' /\ Leaving(a)'
  BY <1>2 DEF Joining, Leaving
<1>5. InOrder(a)'
  <2>1. InOrder(a) /\ (Client(a)' <=> Client(a))
    BY <1>1 DEF Agreeing, ClientSide, service, Client
  <2>2. QED
    BY <1>1, <1>2, <2>1 DEF InOrder
<1>6. queue' \in Seq(Message) /\ TapsPayForNames'
  BY <1>1 DEF Agreeing, TypeOK, TapsPayForNames, Count, Places, user
<1>7. QED
  BY <1>1, <1>2, <1>3, <1>4, <1>5, <1>6, LifeKeeps DEF QuietOf

LEMMA PostStartKeeps ==
  ASSUME Agreeing, NEW a \in Activities, PostStart(a)
  PROVE  Agreeing'
<1>1. /\ ui[a].bind = "asked" /\ UNCHANGED <<service, user, world>> /\ Post(Tick)
      /\ ui' = [ui EXCEPT ![a].bind = "started"]
      /\ ui \in [Activities -> Fields]
      /\ Tick \in Message /\ Tick.what = "tick" /\ Tick.to = Service
  BY MessageType DEF PostStart, Agreeing, TypeOK, Tick
<1>2. SameShown(a) /\ ui'[a] = [ui[a] EXCEPT !.bind = "started"]
  <2>1. ui' \in [Activities -> Fields]
    BY <1>1 DEF Fields
  <2>2. QED
    BY <1>1, <2>1 DEF SameShown, Fields
<1>3. /\ queue' \in Seq(Message) /\ TapsPayForNames'
      /\ QuietOf(LogKinds) /\ QuietOf(RadioKinds) /\ QuietOf({"start", "stop"})
      /\ \A c \in Activities \ {a} : \A M \in SUBSET About(c) : Quiet(M)
      /\ \A M : Tick \notin M => Quiet(M)
  BY <1>1, LifePosted
<1>4. /\ Quiet(To(a, "connected")) /\ Quiet(To(a, "destroy"))
      /\ Quiet(Joins(a)) /\ Quiet(Leaves(a)) /\ Quiet(Joins(a) \cup Leaves(a))
  BY <1>1, <1>3, Apart
<1>5. Joining(a) /\ Leaving(a) /\ InOrder(a) /\ (Client(a)' <=> Client(a))
  BY <1>1 DEF Agreeing, ClientSide, service, Client
<1>6. /\ ui'[a].life = ui[a].life /\ ui'[a].service = ui[a].service
      /\ ui'[a].bind = "started" /\ ui[a].bind = "asked"
  BY <1>1, <1>2 DEF Fields
<1>7. Joining(a)' /\ Leaving(a)' /\ InOrder(a)'
  BY <1>4, <1>5, <1>6 DEF Joining, Leaving, InOrder, Quiet
<1>8. QED
  BY <1>1, <1>2, <1>3, <1>6, <1>7, LifeKeeps

LEMMA PostConnectedKeeps ==
  ASSUME Agreeing, NEW a \in Activities, PostConnected(a)
  PROVE  Agreeing'
<1> DEFINE m == Plain(a, "connected")
<1>1. /\ ui[a].bind = "started" /\ UNCHANGED <<service, user, world>> /\ Post(m)
      /\ ui' = [ui EXCEPT ![a].bind = "bound"]
      /\ ui \in [Activities -> Fields]
      /\ m \in Message /\ m.what = "connected" /\ m.to = a
  BY MessageType DEF PostConnected, Agreeing, TypeOK, Plain, PlainKinds
<1>2. SameShown(a) /\ ui'[a] = [ui[a] EXCEPT !.bind = "bound"]
  <2>1. ui' \in [Activities -> Fields]
    BY <1>1 DEF Fields
  <2>2. QED
    BY <1>1, <2>1 DEF SameShown, Fields
<1>3. /\ queue' \in Seq(Message) /\ TapsPayForNames'
      /\ QuietOf(LogKinds) /\ QuietOf(RadioKinds) /\ QuietOf({"start", "stop"})
      /\ \A c \in Activities \ {a} : \A M \in SUBSET About(c) : Quiet(M)
      /\ Quiet(Joins(a)) /\ Quiet(Leaves(a)) /\ Quiet(Joins(a) \cup Leaves(a))
      /\ \A M : m \notin M => Quiet(M)
      /\ \A M : Has(queue, M)' <=> Has(queue, M) \/ m \in M
  BY <1>1, LifePosted
<1>4. Quiet(To(a, "destroy")) /\ Has(queue, To(a, "connected"))'
  <2>1. m \notin To(a, "destroy") /\ m \in To(a, "connected")
    BY <1>1, Apart
  <2>2. QED
    BY <1>3, <2>1
<1>5. Joining(a) /\ Leaving(a) /\ InOrder(a) /\ (Client(a)' <=> Client(a))
  BY <1>1 DEF Agreeing, ClientSide, service, Client
<1>6. /\ ui'[a].life = ui[a].life /\ ui'[a].service = ui[a].service
      /\ ui'[a].bind = "bound" /\ ui[a].bind = "started"
  BY <1>1, <1>2 DEF Fields
<1>7. Joining(a)' /\ Leaving(a)' /\ InOrder(a)'
  BY <1>3, <1>4, <1>5, <1>6 DEF Joining, Leaving, InOrder, Quiet
<1>8. QED
  BY <1>1, <1>2, <1>3, <1>6, <1>7, LifeKeeps

LEMMA LeaveKeeps ==
  ASSUME Agreeing, NEW a \in Activities, Leave(a)
  PROVE  Agreeing'
<1> DEFINE m == Plain(a, "destroy")
<1>1. /\ ui[a].life = "up" /\ UNCHANGED <<service, user, world>> /\ Post(m)
      /\ ui' = [ui EXCEPT ![a].life = "leaving", ![a].dialog = FALSE]
      /\ ui \in [Activities -> Fields]
      /\ m \in Message /\ m.what = "destroy" /\ m.to = a
  BY MessageType DEF Leave, Agreeing, TypeOK, Plain, PlainKinds
<1>2. /\ SameShown(a) /\ ui'[a].life = "leaving" /\ ui'[a].bind = ui[a].bind
      /\ ui'[a].service = ui[a].service
  <2>1. ui' = [ui EXCEPT ![a] = [ui[a] EXCEPT !.life = "leaving", !.dialog = FALSE]]
    BY <1>1
  <2>2. ui[a] \in Fields /\ ui'[a] = [ui[a] EXCEPT !.life = "leaving", !.dialog = FALSE]
    BY <1>1, <2>1
  <2>3. /\ ui'[a] \in Fields /\ ui'[a].life = "leaving" /\ ui'[a].bind = ui[a].bind
        /\ ui'[a].service = ui[a].service /\ ui'[a].usb = ui[a].usb
        /\ ui'[a].local = ui[a].local /\ ui'[a].logging = ui[a].logging
        /\ ui'[a].path = ui[a].path
    BY <2>2 DEF Fields
  <2>4. ui' \in [Activities -> Fields] /\ \A c \in Activities \ {a} : ui'[c] = ui[c]
    BY <1>1, <2>1, <2>2, <2>3
  <2>5. QED
    BY <2>3, <2>4 DEF SameShown
<1>3. /\ queue' \in Seq(Message) /\ TapsPayForNames'
      /\ QuietOf(LogKinds) /\ QuietOf(RadioKinds) /\ QuietOf({"start", "stop"})
      /\ \A c \in Activities \ {a} : \A M \in SUBSET About(c) : Quiet(M)
      /\ Quiet(Joins(a)) /\ Quiet(Leaves(a)) /\ Quiet(Joins(a) \cup Leaves(a))
      /\ \A M : m \notin M => Quiet(M)
      /\ \A M : Has(queue, M)' <=> Has(queue, M) \/ m \in M
  BY <1>1, LifePosted
<1>4. Quiet(To(a, "connected")) /\ Has(queue, To(a, "destroy"))'
  <2>1. m \in To(a, "destroy") /\ m \notin To(a, "connected")
    BY <1>1, Apart
  <2>2. QED
    BY <1>3, <2>1
<1>5. Joining(a) /\ Leaving(a) /\ InOrder(a) /\ (Client(a)' <=> Client(a))
  BY <1>1 DEF Agreeing, ClientSide, service, Client
<1>6. Joining(a)' /\ Leaving(a)' /\ InOrder(a)'
  BY <1>1, <1>2, <1>3, <1>4, <1>5 DEF Joining, Leaving, InOrder, Quiet
<1>7. QED
  BY <1>1, <1>2, <1>3, <1>6, LifeKeeps

\* What dispatching a message about the life of activity a does to the queue, when its
\* handler posts at most that it joins or leaves.
LEMMA LifeDispatched ==
  ASSUME Agreeing, NEW a \in Activities, NEW d \in Message, NEW out \in Seq(Message),
         Dispatch(d, out), user' = user, d.what \in {"connected", "destroy"}, d.to = a,
         Kinds(out) \subseteq {"register", "unregister"},
         \A i \in 1 .. Len(out) : out[i] \in Joins(a) \cup Leaves(a)
  PROVE  /\ queue' \in Seq(Message) /\ TapsPayForNames'
         /\ QuietOf(LogKinds) /\ QuietOf(RadioKinds) /\ QuietOf({"start", "stop"})
         /\ \A c \in Activities \ {a} : \A M \in SUBSET About(c) : Quiet(M)
<1>0. TypeOK
  BY DEF Agreeing
<1>1. queue' \in Seq(Message)
  BY <1>0, DispatchMoves
<1>2. TapsPayForNames'
  <2>1. "control" \notin Kinds(out)
    OBVIOUS
  <2>2. QED
    BY <2>1, NamesKept DEF Agreeing, user
<1>3. ASSUME NEW W, W \cap {"connected", "destroy", "register", "unregister"} = {}
      PROVE  QuietOf(W)
  <2>1. \A w \in W : d.what # w /\ w \notin Kinds(out)
    BY <1>3
  <2>2. QED
    BY <1>0, <2>1, DispatchIsQuiet
<1>4. QuietOf(LogKinds) /\ QuietOf(RadioKinds) /\ QuietOf({"start", "stop"})
  BY <1>3 DEF LogKinds, RadioKinds
<1>5. ASSUME NEW c \in Activities \ {a}, NEW M \in SUBSET About(c)
      PROVE  Quiet(M)
  <2>1. d \notin About(c)
    BY Apart
  <2>2. \A m \in Message : m \in Joins(a) \cup Leaves(a) => m \notin About(c)
    BY Apart
  <2>3. ~Has(out, M)
    <3>1. \A i \in 1 .. Len(out) : out[i] \in Message
      BY ElementOfSeq
    <3>2. QED
      BY <2>2, <3>1 DEF Has
  <2>4. QED
    BY <1>0, <2>1, <2>3, DispatchMoves
<1>6. QED
  BY <1>1, <1>2, <1>4, <1>5

LEMMA ConnectedKeeps ==
  ASSUME Agreeing, NEW a \in Activities, Connected(a)
  PROVE  Agreeing'
<1> DEFINE d == Plain(a, "connected")
           m == Register(a)
<1>0. TypeOK /\ Joining(a) /\ Leaving(a) /\ InOrder(a)
  BY DEF Agreeing, ClientSide
<1>1. /\ ui[a].life # "gone" /\ UNCHANGED <<service, user, world>> /\ Dispatch(d, <<m>>)
      /\ ui' = [ui EXCEPT ![a].service = TRUE]
      /\ ui \in [Activities -> Fields]
      /\ d \in Message /\ d.what = "connected" /\ d.to = a
      /\ m \in Message /\ m.what = "register" /\ m.from = a
  BY <1>0, MessageType DEF Connected, TypeOK, Plain, PlainKinds, Register
<1>2. SameShown(a) /\ ui'[a] = [ui[a] EXCEPT !.service = TRUE]
  <2>1. ui' \in [Activities -> Fields]
    BY <1>1 DEF Fields
  <2>2. QED
    BY <1>1, <2>1 DEF SameShown, Fields
<1>3. <<m>> \in Seq(Message) /\ Kinds(<<m>>) = {"register"} /\ \A M : Has(<<m>>, M) <=> m \in M
  BY <1>1, KindsPosted, HasOne
<1>4. m \in Joins(a)
  BY <1>1, Apart
<1>5. /\ queue' \in Seq(Message) /\ TapsPayForNames'
      /\ QuietOf(LogKinds) /\ QuietOf(RadioKinds) /\ QuietOf({"start", "stop"})
      /\ \A c \in Activities \ {a} : \A M \in SUBSET About(c) : Quiet(M)
  <2>1. \A i \in 1 .. Len(<<m>>) : <<m>>[i] \in Joins(a) \cup Leaves(a)
    BY <1>4
  <2>2. Kinds(<<m>>) \subseteq {"register", "unregister"}
    BY <1>3
  <2>3. user' = user
    BY <1>1
  <2>4. QED
    BY <1>1, <1>3, <2>1, <2>2, <2>3, LifeDispatched
<1>6. /\ Has(queue, To(a, "connected"))
      /\ Has(queue, Joins(a))'
      /\ Quiet(Leaves(a)) /\ Quiet(To(a, "destroy"))
  <2>1. d \in To(a, "connected") /\ d \notin Leaves(a) /\ d \notin To(a, "destroy")
    BY <1>1, Apart
  <2>2. m \notin Leaves(a) /\ m \notin To(a, "destroy")
    BY <1>1, Apart
  <2>3. queue \in Seq(Message) /\ queue # <<>> /\ Head(queue) = d
    BY <1>0, <1>1 DEF TypeOK, Dispatch
  <2>4. Has(queue, To(a, "connected"))
    BY <2>1, <2>3, HasHead
  <2>5. QED
    BY <1>0, <1>1, <1>3, <1>4, <2>1, <2>2, <2>4, DispatchMoves
<1>7. ui[a].bind = "bound" /\ (Client(a)' <=> Client(a))
  BY <1>0, <1>1, <1>6 DEF InOrder, service, Client
<1>8. ui'[a].life = ui[a].life /\ ui'[a].bind = ui[a].bind /\ ui'[a].service
  BY <1>1, <1>2 DEF Fields
<1>9. Client(a) => ui[a].service
  BY <1>0, <1>1 DEF InOrder
<1>10. Joining(a)'
  BY <1>6, <1>8 DEF Joining
<1>11. Leaving(a)'
  BY <1>1, <1>8 DEF Leaving
<1>12. InOrder(a)'
  BY <1>0, <1>6, <1>7, <1>8 DEF InOrder, Quiet
<1>13. QED
  BY <1>1, <1>2, <1>5, <1>9, <1>10, <1>11, <1>12, LifeKeeps

LEMMA ConnectedLateKeeps ==
  ASSUME Agreeing, NEW a \in Activities, ConnectedLate(a)
  PROVE  Agreeing'
<1> DEFINE d == Plain(a, "connected")
<1>0. TypeOK /\ Joining(a) /\ Leaving(a) /\ InOrder(a)
  BY DEF Agreeing, ClientSide
<1>1. /\ ui[a].life = "gone" /\ UNCHANGED <<ui, service, user, world>> /\ Dispatch(d, <<>>)
      /\ ui \in [Activities -> Fields]
      /\ d \in Message /\ d.what = "connected" /\ d.to = a
  BY <1>0, MessageType DEF ConnectedLate, TypeOK, Plain, PlainKinds
<1>2. SameShown(a)
  BY <1>1 DEF SameShown
<1>3. <<>> \in Seq(Message) /\ Kinds(<<>>) = {} /\ \A M : ~Has(<<>>, M)
  BY KindsPosted, HasNone
<1>4. /\ queue' \in Seq(Message) /\ TapsPayForNames'
      /\ QuietOf(LogKinds) /\ QuietOf(RadioKinds) /\ QuietOf({"start", "stop"})
      /\ \A c \in Activities \ {a} : \A M \in SUBSET About(c) : Quiet(M)
  <2>1. \A i \in 1 .. Len(<<>>) : <<>>[i] \in Joins(a) \cup Leaves(a)
    OBVIOUS
  <2>2. Kinds(<<>>) \subseteq {"register", "unregister"}
    BY <1>3
  <2>3. user' = user
    BY <1>1
  <2>4. QED
    BY <1>1, <1>3, <2>1, <2>2, <2>3, LifeDispatched
<1>5. /\ Quiet(Leaves(a)) /\ Quiet(Joins(a)) /\ Quiet(Joins(a) \cup Leaves(a))
      /\ Quiet(To(a, "destroy"))
      /\ Has(queue, To(a, "connected"))' => Has(queue, To(a, "connected"))
  <2>1. d \notin Leaves(a) /\ d \notin Joins(a) /\ d \notin To(a, "destroy")
    BY <1>1, Apart
  <2>2. QED
    BY <1>0, <1>1, <1>3, <2>1, DispatchMoves
<1>6. Client(a)' <=> Client(a)
  BY <1>1 DEF service, Client
<1>7. Joining(a)'
  BY <1>1 DEF Joining
<1>8. Leaving(a)' /\ InOrder(a)'
  BY <1>0, <1>1, <1>5, <1>6 DEF Leaving, InOrder, Quiet
<1>9. QED
  BY <1>1, <1>2, <1>4, <1>7, <1>8, LifeKeeps

LEMMA DestroyKeeps ==
  ASSUME Agreeing, NEW a \in Activities, Destroy(a)
  PROVE  Agreeing'
<1> DEFINE d == Plain(a, "destroy")
           m == Unregister(a)
           out == Command(a, m)
<1>0. TypeOK /\ Joining(a) /\ Leaving(a) /\ InOrder(a)
  BY DEF Agreeing, ClientSide
<1>1. /\ UNCHANGED <<service, user, world>> /\ Dispatch(d, out)
      /\ ui' = [ui EXCEPT ![a].life = "gone", ![a].service = FALSE]
      /\ ui \in [Activities -> Fields]
      /\ d \in Message /\ d.what = "destroy" /\ d.to = a
      /\ m \in Message /\ m.what = "unregister" /\ m.from = a
  BY <1>0, MessageType DEF Destroy, TypeOK, Plain, PlainKinds, Unregister
<1>2. /\ SameShown(a) /\ ui'[a].life = "gone" /\ ui'[a].bind = ui[a].bind /\ ~ui'[a].service
  <2>1. ui' = [ui EXCEPT ![a] = [ui[a] EXCEPT !.life = "gone", !.service = FALSE]]
    BY <1>1
  <2>2. ui[a] \in Fields /\ ui'[a] = [ui[a] EXCEPT !.life = "gone", !.service = FALSE]
    BY <1>1, <2>1
  <2>3. /\ ui'[a] \in Fields /\ ui'[a].life = "gone" /\ ui'[a].bind = ui[a].bind
        /\ ui'[a].service = FALSE /\ ui'[a].usb = ui[a].usb
        /\ ui'[a].local = ui[a].local /\ ui'[a].logging = ui[a].logging
        /\ ui'[a].path = ui[a].path
    BY <2>2 DEF Fields
  <2>4. ui' \in [Activities -> Fields] /\ \A c \in Activities \ {a} : ui'[c] = ui[c]
    BY <1>1, <2>1, <2>2, <2>3
  <2>5. QED
    BY <2>3, <2>4 DEF SameShown
<1>3. /\ out \in Seq(Message) /\ Kinds(out) \subseteq {"unregister"}
      /\ \A M : Has(out, M) <=> ui[a].service /\ m \in M
  BY <1>1, CommandPosted
<1>4. m \in Leaves(a) /\ m \notin Joins(a) /\ m \notin To(a, "connected")
  BY <1>1, Apart
<1>5. \A i \in 1 .. Len(out) : out[i] \in Leaves(a)
  <2>1. ASSUME NEW i \in 1 .. Len(out)
        PROVE  out[i] = m
    <3>1. Has(out, {out[i]})
      BY DEF Has
    <3>2. QED
      BY <1>3, <3>1
  <2>2. QED
    BY <1>4, <2>1
<1>6. /\ queue' \in Seq(Message) /\ TapsPayForNames'
      /\ QuietOf(LogKinds) /\ QuietOf(RadioKinds) /\ QuietOf({"start", "stop"})
      /\ \A c \in Activities \ {a} : \A M \in SUBSET About(c) : Quiet(M)
  <2>1. \A i \in 1 .. Len(out) : out[i] \in Joins(a) \cup Leaves(a)
    BY <1>5
  <2>2. Kinds(out) \subseteq {"register", "unregister"} /\ user' = user
    BY <1>1, <1>3
  <2>3. QED
    BY <1>1, <1>3, <2>1, <2>2, LifeDispatched
<1> HIDE DEF out
<1>7. /\ Quiet(To(a, "connected")) /\ Quiet(Joins(a))
      /\ Has(queue, Leaves(a)) => Has(queue, Leaves(a))'
      /\ ui[a].service => Has(queue, Leaves(a))'
  <2>1. d \notin To(a, "connected") /\ d \notin Joins(a) /\ d \notin Leaves(a)
    BY <1>1, Apart
  <2>2. ~Has(out, To(a, "connected")) /\ ~Has(out, Joins(a)) /\ (ui[a].service => Has(out, Leaves(a)))
    BY <1>3, <1>4
  <2>3. QED
    BY <1>0, <1>1, <1>3, <2>1, <2>2, DispatchMoves
<1>8. Client(a)' <=> Client(a)
  BY <1>1 DEF service, Client
<1>9. Joining(a)'
  BY <1>2 DEF Joining
<1>10. LastIn(queue', Joins(a) \cup Leaves(a), Leaves(a))
  <2> DEFINE M == Joins(a) \cup Leaves(a)
  <2>1. \A N, G : LastIn(out, N, G) /\ (Has(out, N) \/ LastIn(queue, N, G)) => LastIn(queue, N, G)'
    BY <1>0, <1>1, <1>3, DispatchMoves
  <2>2. LastIn(out, M, Leaves(a))
    BY <1>5 DEF LastIn
  <2>3. CASE ui[a].service
    <3>1. Has(out, M)
      BY <1>3, <1>4, <2>3
    <3>2. QED
      BY <2>1, <2>2, <3>1
  <2>4. CASE ~ui[a].service
    <3>1. LastIn(queue, M, Leaves(a))
      <4>1. CASE ui[a].life = "gone"
        BY <1>0, <4>1 DEF Leaving
      <4>2. CASE ui[a].life # "gone"
        <5>1. ~Has(queue, M)
          BY <1>0, <2>4, <4>2 DEF InOrder, Has
        <5>2. QED
          BY <5>1, LastOfNone
      <4>3. QED
        BY <4>1, <4>2
    <3>2. QED
      BY <2>1, <2>2, <3>1
  <2>5. QED
    BY <2>3, <2>4
<1>11. Leaving(a)'
  <2>1. Client(a) => Has(queue, Leaves(a))'
    BY <1>0, <1>7 DEF InOrder, Leaving
  <2>2. QED
    BY <1>2, <1>8, <1>10, <2>1 DEF Leaving
<1>12. InOrder(a)'
  <2>1. d \in To(a, "destroy")
    BY <1>1, Apart
  <2>2. queue \in Seq(Message) /\ queue # <<>> /\ Head(queue) = d
    BY <1>0, <1>1 DEF TypeOK, Dispatch
  <2>3. ui[a].life # "unborn"
    BY <1>0, <2>1, <2>2, HasHead DEF InOrder
  <2>4. QED
    BY <1>0, <1>2, <1>7, <1>8, <2>3 DEF InOrder, Quiet
<1>13. QED
  BY <1>1, <1>2, <1>6, <1>9, <1>11, <1>12, LifeKeeps

-----------------------------------------------------------------------------
(* The radio comes and goes. *)

LEMMA RadioKeeps ==
  ASSUME Agreeing, RadioAppears \/ RadioGoes
  PROVE  Agreeing'
<1>0. TypeOK /\ radio \in BOOLEAN
  BY DEF Agreeing, TypeOK
<1>1. /\ Post(Radio(radio')) /\ radio' \in BOOLEAN
      /\ flips < MaxFlips /\ flips' = flips + 1 /\ orphan' \in Logs
      /\ UNCHANGED <<ui, service, user>>
  <2>1. 0 \in Logs /\ logger.path \in Logs
    BY <1>0, ControlAssumption DEF TypeOK, Logs
  <2>2. CASE RadioAppears
    BY <2>1, <2>2 DEF RadioAppears
  <2>3. CASE RadioGoes
    BY <2>1, <2>3 DEF RadioGoes
  <2>4. QED
    BY <2>2, <2>3
<1> DEFINE m == Radio(radio')
<1>2. m \in Message /\ m.what = "radio"
  BY <1>1, MessageType DEF Radio
<1>3. /\ queue' \in Seq(Message)
      /\ \A M : Has(queue, M)' <=> Has(queue, M) \/ m \in M
      /\ \A M : m \notin M => Quiet(M)
      /\ \A M, G : (m \in M => m \in G) /\ (m \in M \/ LastIn(queue, M, G)) => LastIn(queue, M, G)'
  BY <1>0, <1>1, <1>2, PostMoves
<1>4. TypeOK'
  BY <1>0, <1>1, <1>3, ControlAssumption DEF TypeOK, service, user
<1>5. TapsPayForNames'
  <2>1. Count(queue', Controls) = Count(queue, Controls) + (IF m \in Controls THEN 1 ELSE 0)
    BY <1>0, <1>1, <1>2, CountPost DEF TypeOK, Post
  <2>2. Count(queue, Controls) \in Nat /\ m \notin Controls
    BY <1>0, <1>2, CountType DEF TypeOK, Controls, Of
  <2>3. Count(queue', Controls) = Count(queue, Controls)
    BY <2>1, <2>2
  <2>4. QED
    BY <1>1, <2>3 DEF Agreeing, TapsPayForNames, user, Count, Places
<1>6. QuietOf(LogKinds) /\ QuietOf(ClientKinds) /\ QuietOf({"start", "stop"})
  BY <1>0, <1>1, <1>2, PostIsQuiet DEF LogKinds, ClientKinds
<1>7. \A a \in Activities : Client(a)' <=> Client(a)
  BY <1>1 DEF Client, service
<1>8. LogSide'
  <2>1. Quiet(Commands)
    BY <1>6 DEF QuietOf, Commands
  <2>2. QED
    BY <1>1, <1>6, <1>7, <2>1, LogSideKept DEF Agreeing, service, Quiet
<1>9. ClientSide'
  BY <1>1, <1>6, ClientSideKept DEF Agreeing, service
<1>10. RadioSide'
  <2>1. RadioSide /\ UNCHANGED <<ui, lastUsb>>
    BY <1>1 DEF Agreeing, service
  <2>2. m \in RadioNews
    BY <1>2 DEF RadioNews, Of
  <2>3. RadioIsHeard'
    <3>1. \A G : m \in G => LastIn(queue, RadioNews, G)'
      BY <1>3, <2>2
    <3>2. LastIn(queue', RadioNews, {m})
      BY <3>1
    <3>3. Has(queue, RadioNews)'
      BY <1>3, <2>2
    <3>4. QED
      BY <3>2, <3>3 DEF RadioIsHeard
  <2>4. \A a \in Activities : Quiet(RadioNewsTo(a))
    BY <1>2, <1>3 DEF RadioNewsTo, To
  <2>5. RadioNewsIsLast'
    BY <1>7, <2>1, <2>4 DEF RadioSide, RadioNewsIsLast, Quiet
  <2>6. RadioIsShown' /\ NothingHeard'
    BY <1>7, <2>1, <2>4 DEF RadioSide, RadioIsShown, NothingHeard, Quiet
  <2>7. QED
    BY <2>3, <2>5, <2>6 DEF RadioSide
<1>11. QED
  BY <1>4, <1>5, <1>8, <1>9, <1>10 DEF Agreeing

-----------------------------------------------------------------------------
(* The invariant, and what it comes to once the queue is empty. *)

LEMMA InitAgreeing ==
  Init => Agreeing
<1> SUFFICES ASSUME Init
             PROVE  Agreeing
  OBVIOUS
<1>1. queue = <<>> /\ \A M : ~Has(queue, M) /\ \A G : LastIn(queue, M, G)
  BY HasNone, LastOfNone DEF Init
<1>2. \A a \in Activities : ~Client(a) /\ ui[a] = Unborn
  BY DEF Init, Client
<1>3. TypeOK
  <2>1. 0 \in Logs /\ 0 \in 0 .. MaxTaps /\ 0 \in 0 .. MaxFlips
    BY ControlAssumption DEF Logs
  <2>2. Unborn \in Fields
    BY <2>1 DEF Unborn, Fields
  <2>3. ui \in [Activities -> Fields]
    BY <2>2 DEF Init
  <2>4. NotLogging \in [logging : BOOLEAN, path : Logs]
    BY <2>1 DEF NotLogging
  <2>5. /\ <<>> \in Seq(Message) /\ <<>> \in Seq(Activities)
        /\ \A i, j \in DOMAIN <<>> : <<>>[i] = <<>>[j] => i = j
    OBVIOUS
  <2>6. queue \in Seq(Message) /\ clients \in Seq(Activities) /\ logger \in [logging : BOOLEAN, path : Logs]
    BY <2>4, <2>5 DEF Init
  <2>7. \A i, j \in DOMAIN clients : clients[i] = clients[j] => i = j
    BY <2>5 DEF Init
  <2>8. QED
    BY <2>1, <2>3, <2>6, <2>7 DEF Init, TypeOK
<1>4. TapsPayForNames
  <2>1. Places(queue, Controls) = {}
    BY <1>1 DEF Places
  <2>2. QED
    BY <2>1, FS_EmptySet DEF TapsPayForNames, Count, Init
<1>5. LogSide
  BY <1>2 DEF LogSide, LoggerIsOffOrOn, LogNewsIsLast, LogIsShown, Init
<1>6. RadioSide
  BY <1>1, <1>2 DEF RadioSide, RadioIsHeard, RadioNewsIsLast, RadioIsShown, NothingHeard, Init, Unborn
<1>7. ClientSide
  BY <1>1, <1>2 DEF ClientSide, Joining, Leaving, InOrder, Unborn
<1>8. QED
  BY <1>3, <1>4, <1>5, <1>6, <1>7 DEF Agreeing

LEMMA IdleKeeps ==
  ASSUME Agreeing, UNCHANGED vars
  PROVE  Agreeing'
<1>1. UNCHANGED <<queue, ui, clients, lastUsb, logger, ticking, named, taps, radio, flips, orphan>>
  BY DEF vars, service, user, world
<1>2. \A M : Quiet(M)
  BY <1>1, IdleIsQuiet
<1>3. TypeOK' /\ TapsPayForNames'
  BY <1>1 DEF Agreeing, TypeOK, TapsPayForNames, Count, Places
<1>4. QED
  BY <1>1, <1>2, <1>3, AsideKeeps DEF QuietOf, SameSides

LEMMA NextKeepsAgreeing ==
  ASSUME Agreeing, [Next]_vars
  PROVE  Agreeing'
<1>1. CASE Looper
  <2>1. CASE HandledByService
    <3>1. ASSUME NEW a \in Activities, RegisterClient(a) \/ UnregisterClient(a)
          PROVE  Agreeing'
      BY <3>1, RegisterKeeps, UnregisterKeeps
    <3>2. ASSUME NEW b \in BOOLEAN, RadioMessage(b)
          PROVE  Agreeing'
      BY <3>2, RadioMessageKeeps
    <3>3. QED
      BY <2>1, <3>1, <3>2, CommandKeeps DEF HandledByService
  <2>2. ASSUME NEW a \in Activities, HandledByActivity(a)
        PROVE  Agreeing'
    <3>1. CASE Connected(a) \/ ConnectedLate(a) \/ Destroy(a)
      BY <3>1, ConnectedKeeps, ConnectedLateKeeps, DestroyKeeps
    <3>2. CASE ClickStop(a) \/ ClickStart(a)
      BY <3>2, ClickLogKeeps
    <3>3. CASE ClickShare(a) \/ ClickOther(a) \/ ClickStopAndShare(a)
      BY <3>3, ClickOtherKeeps, ClickStopAndShareKeeps
    <3>4. ASSUME NEW b \in BOOLEAN, HandleRadioState(a, b)
          PROVE  Agreeing'
      BY <3>4, HandleRadioStateKeeps
    <3>5. CASE HandleLogging(a) \/ HandleNotLogging(a)
      BY <3>5, HandleLogStateKeeps
    <3>6. QED
      BY <2>2, <3>1, <3>2, <3>3, <3>4, <3>5 DEF HandledByActivity
  <2>3. QED
    BY <1>1, <2>1, <2>2 DEF Looper
<1>2. CASE TickDue
  BY <1>2, TickDueKeeps
<1>3. CASE RadioAppears \/ RadioGoes
  BY <1>3, RadioKeeps
<1>4. ASSUME NEW a \in Activities, Create(a) \/ PostStart(a) \/ PostConnected(a) \/ Leave(a) \/ Touch(a)
      PROVE  Agreeing'
  BY <1>4, CreateKeeps, PostStartKeeps, PostConnectedKeeps, LeaveKeeps, TouchKeeps
<1>5. CASE UNCHANGED vars
  BY <1>5, IdleKeeps
<1>6. QED
  BY <1>1, <1>2, <1>3, <1>4, <1>5 DEF Next

\* With nothing under way, what the invariant says of messages falls away.
LEMMA AgreeingIsAgreed ==
  ASSUME Agreeing
  PROVE  SidesAgree
<1>0. TypeOK
  BY DEF Agreeing
<1>1. ASSUME queue = <<>>
      PROVE  \A M : ~Has(queue, M)
  BY <1>1, HasNone
<1>2. ASSUME queue = <<>>, NEW a \in Activities
      PROVE  Client(a) <=> ui[a].life = "up" /\ ui[a].bind = "bound"
  <2>1. Joining(a) /\ Leaving(a) /\ InOrder(a)
    BY DEF Agreeing, ClientSide
  <2>2. ui[a].life \in {"unborn", "up", "leaving", "gone"}
    BY <1>0 DEF TypeOK, Fields
  <2>3. ui[a].life = "up" /\ ui[a].bind = "bound" => Client(a)
    BY <1>1, <1>2, <2>1 DEF Joining
  <2>4. Client(a) => ui[a].bind = "bound" /\ ui[a].life \notin {"gone", "leaving", "unborn"}
    BY <1>1, <1>2, <2>1 DEF Leaving, InOrder
  <2>5. QED
    BY <2>2, <2>3, <2>4
<1>3. ASSUME queue = <<>>, NEW a \in Activities, ui[a].life = "up", ui[a].bind = "bound"
      PROVE  /\ ui[a].local = logger.logging
             /\ ui[a].logging = logger.logging
             /\ logger.logging => ui[a].path = logger.path
             /\ ui[a].usb = radio
  <2>1. Client(a) /\ ui[a].service
    BY <1>1, <1>2, <1>3 DEF Agreeing, ClientSide, InOrder
  <2>2. /\ ui[a].local = logger.logging /\ ui[a].logging = logger.logging
        /\ logger.logging => ui[a].path = logger.path
    BY <1>1, <1>3, <2>1 DEF Agreeing, LogSide, LogIsShown
  <2>3. ui[a].usb <=> radio
    BY <1>1, <1>3, <2>1 DEF Agreeing, RadioSide, RadioIsHeard, RadioIsShown
  <2>4. ui[a].usb \in BOOLEAN /\ radio \in BOOLEAN
    BY <1>0 DEF TypeOK, Fields
  <2>5. QED
    BY <2>2, <2>3, <2>4
<1>4. QED
  BY <1>0, <1>2, <1>3 DEF SidesAgree, UiAgrees, ClientsAreUp

\* Whatever the order of touches, ticks, radio messages and activities, once everything
\* posted has been handled the activity that is up shows what MainActivity shows of the
\* service truly, and the service tells just the activities that are up.
THEOREM SidesAlwaysAgree ==
  Spec => []SidesAgree
<1>1. Init => Agreeing
  BY InitAgreeing
<1>2. Agreeing /\ [Next]_vars => Agreeing'
  BY NextKeepsAgreeing
<1>3. Agreeing => SidesAgree
  BY AgreeingIsAgreed
<1>4. QED
  BY <1>1, <1>2, <1>3, PTL DEF Spec
=============================================================================
