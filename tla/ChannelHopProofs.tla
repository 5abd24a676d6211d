-------------------------- MODULE ChannelHopProofs --------------------------
(***************************************************************************)
(* Proof that the settings of the hopper agree in their three places, for  *)
(* any channels, cards and bounds.                                         *)
(*                                                                         *)
(* The dashboard shows what is stored whenever the user is not editing.    *)
(* The service works from what is stored, or a message that makes it read  *)
(* the preferences is under way, or the activity that is up has yet to     *)
(* have the service started: unless an edit was over before the service    *)
(* was connected, which unsent tells.  That the chains are no more than    *)
(* the activities is a matter of counting: each start was posted once.     *)
(***************************************************************************)
EXTENDS ChannelHop, QueueProofs

-----------------------------------------------------------------------------
(* The inductive invariant. *)

\* The messages whose handlers read the preferences.
Tellers == {m \in Message : m.what \in {"start", "reconfigure", "granted", "detached"}}

ShownIsStored == ~editing => shown = prefs

HopperIsStored ==
  top > 0 /\ ~editing /\ ~unsent =>
    hopper = prefs \/ Has(queue, Tellers) \/ ui[top].bind = "asked"

\* The activities that have had the service started.
Starters == {a \in 1 .. MaxActivities : ui[a].bind \in {"started", "bound"}}

ChainsAreStarted == chains + Count(queue, {OnStart}) <= Cardinality(Starters)

\* No source is ever put into mSourceList.
NothingListed == sourceList = {}

\* The activities to come have not asked for anything.
OthersAreUnborn == \A a \in 1 .. MaxActivities : a > top => ui[a].bind = "no"

Hopping ==
  TypeOK /\ ShownIsStored /\ HopperIsStored /\ ChainsAreStarted /\ NothingListed /\ OthersAreUnborn

\* The types, by who keeps what.
Fields == [bind : {"no", "asked", "started", "bound"}, service : BOOLEAN]
UiType == ui \in [1 .. MaxActivities -> Fields] /\ top \in 0 .. MaxActivities /\ unsent \in BOOLEAN
UserType == prefs \in Setting /\ editing \in BOOLEAN /\ edits \in 0 .. MaxEdits /\ shown \in Setting
ServiceType ==
  /\ hopper \in Setting
  /\ pos \in 0 .. Beyond
  /\ sourceList \subseteq Cards
  /\ tuned \in [Cards -> Channels \cup {0}]
  /\ intents \in 0 .. MaxIntents

LEMMA TypeParts ==
  /\ TypeOK <=> /\ queue \in Seq(Message) /\ chains \in 0 .. MaxActivities
                /\ UiType /\ UserType /\ ServiceType
  /\ TypeOK' <=> /\ queue' \in Seq(Message) /\ chains' \in 0 .. MaxActivities
                 /\ UiType' /\ UserType' /\ ServiceType'
BY DEF TypeOK, UiType, UserType, ServiceType, Fields

-----------------------------------------------------------------------------
LEMMA Bounds ==
  /\ MaxActivities \in Nat \ {0} /\ MaxEdits \in Nat /\ MaxIntents \in Nat
  /\ Beyond \in Nat
  /\ FirstChannel \in Channels /\ DefaultLock \in Channels
BY HopAssumption, FS_CardinalityType DEF Beyond

LEMMA StartersType ==
  /\ IsFiniteSet(Starters) /\ Cardinality(Starters) \in 0 .. MaxActivities
  /\ IsFiniteSet(Starters') /\ Cardinality(Starters') \in 0 .. MaxActivities
<1>1. IsFiniteSet(1 .. MaxActivities) /\ Cardinality(1 .. MaxActivities) = MaxActivities
  BY Bounds, FS_Interval
<1>2. ASSUME NEW T \in SUBSET (1 .. MaxActivities)
      PROVE  IsFiniteSet(T) /\ Cardinality(T) \in 0 .. MaxActivities
  <2>1. IsFiniteSet(T) /\ Cardinality(T) <= MaxActivities
    BY <1>1, FS_Subset
  <2>2. Cardinality(T) \in Nat
    BY <2>1, FS_CardinalityType
  <2>3. QED
    BY Bounds, <2>1, <2>2
<1>3. Starters \in SUBSET (1 .. MaxActivities) /\ Starters' \in SUBSET (1 .. MaxActivities)
  BY DEF Starters
<1>4. QED
  BY <1>2, <1>3

LEMMA MessageType ==
  /\ OnStart \in Tellers /\ Reconfigure \in Tellers
  /\ \A k \in Cards : Granted(k) \in Tellers /\ Detached(k) \in Tellers
  /\ \A a \in 1 .. MaxActivities : Connected(a) \in Message \ Tellers
  /\ Reconfigure # OnStart
  /\ \A k \in Cards : Granted(k) # OnStart /\ Detached(k) # OnStart
  /\ \A a \in 1 .. MaxActivities : Connected(a) # OnStart
  /\ Tellers \subseteq Message
BY DEF Tellers, Message, OnStart, Reconfigure, Granted, Detached, Connected

\* What posting does to the queue.
LEMMA PostMoves ==
  ASSUME queue \in Seq(Message), NEW m \in Message, Post(m)
  PROVE  /\ queue' \in Seq(Message)
         /\ Has(queue', Tellers) <=> Has(queue, Tellers) \/ m \in Tellers
         /\ m # OnStart => Count(queue', {OnStart}) = Count(queue, {OnStart})
         /\ m = OnStart => Count(queue', {OnStart}) = Count(queue, {OnStart}) + 1
         /\ Count(queue, {OnStart}) \in Nat
<1>1. queue' = Append(queue, m)
  BY DEF Post
<1>2. queue' \in Seq(Message) /\ (Has(queue', Tellers) <=> Has(queue, Tellers) \/ m \in Tellers)
  BY <1>1, AfterPost
<1>3. Count(queue', {OnStart}) = Count(queue, {OnStart}) + (IF m = OnStart THEN 1 ELSE 0)
  BY <1>1, CountPost
<1>4. QED
  BY <1>2, <1>3, CountType

\* What dispatching does.
LEMMA DispatchMoves ==
  ASSUME queue \in Seq(Message), NEW m, Dispatch(m)
  PROVE  /\ queue' \in Seq(Message)
         /\ m \in Message
         /\ Has(queue, Tellers) <=> m \in Tellers \/ Has(queue', Tellers)
         /\ m # OnStart => Count(queue', {OnStart}) <= Count(queue, {OnStart})
         /\ m = OnStart => Count(queue', {OnStart}) + 1 <= Count(queue, {OnStart})
         /\ Count(queue', {OnStart}) \in Nat /\ Count(queue, {OnStart}) \in Nat
<1>1. queue # <<>> /\ Head(queue) = m /\ queue' = Tail(queue)
  BY DEF Dispatch
<1>2. m \in Message /\ queue' \in Seq(Message)
  BY <1>1, HeadTailProperties, EmptySeq
<1>3. Has(queue, Tellers) <=> m \in Tellers \/ Has(queue', Tellers)
  BY <1>1, HasHead
<1>4. Tail(queue) \o <<>> = queue'
  BY <1>1, <1>2, ConcatEmptySeq
<1>5. Count(queue', {OnStart}) <= Count(queue, {OnStart}) - (IF m = OnStart THEN 1 ELSE 0)
  <2>1. <<>> \in Seq(Message) /\ ~Has(<<>>, {OnStart})
    BY HasNone
  <2>2. Count(Tail(queue) \o <<>>, {OnStart})
          <= Count(queue, {OnStart}) - (IF Head(queue) \in {OnStart} THEN 1 ELSE 0)
    BY <1>1, <2>1, CountDispatch
  <2>3. QED
    BY <1>1, <1>4, <2>2
<1>6. QED
  BY <1>2, <1>3, <1>5, CountType

-----------------------------------------------------------------------------
(* The steps. *)

\* A step that leaves the queue and the bindings alone starts no chain.
LEMMA ChainsKept ==
  ASSUME ChainsAreStarted, UNCHANGED chains, queue' = queue, Starters' = Starters
  PROVE  ChainsAreStarted'
BY DEF ChainsAreStarted, Count, Places

\* There are no more chains than activities.
LEMMA ChainsType ==
  ASSUME queue' \in Seq(Message), ChainsAreStarted', chains' \in Nat
  PROVE  chains' \in 0 .. MaxActivities
<1>1. Count(queue', {OnStart}) \in Nat
  BY CountType
<1>2. chains' + Count(queue', {OnStart}) <= Cardinality(Starters')
  BY DEF ChainsAreStarted
<1>3. QED
  BY <1>1, <1>2, StartersType, Bounds

\* The task of a chain, and the one that a start runs, with the settings h.
LEMMA HopType ==
  ASSUME NEW h, Hop(h), pos \in 0 .. Beyond, NothingListed,
         tuned \in [Cards -> Channels \cup {0}]
  PROVE  pos' \in 0 .. Beyond /\ tuned' = tuned
<1>1. CASE h.hop
  <2> DEFINE list == ChannelList(h.list)
  <2>1. tuned' = [k \in Cards |-> IF k \in sourceList THEN list[pos + 1] ELSE tuned[k]]
    BY <1>1 DEF Hop
  <2>2. tuned' = tuned
    BY <2>1 DEF NothingListed
  <2>3. pos' = CASE pos + 1 = Len(list) -> 0
                 [] pos + 1 # Len(list) /\ pos < Beyond -> pos + 1
                 [] OTHER -> Beyond
    BY <1>1 DEF Hop
  <2> HIDE DEF list
  <2>4. pos' \in 0 .. Beyond
    BY <2>3, Bounds
  <2>5. QED
    BY <2>2, <2>4
<1>2. CASE ~h.hop
  BY <1>2 DEF Hop
<1>3. QED
  BY <1>1, <1>2

\* The next activity is there, and has asked for the service.
LEMMA CreateKeeps ==
  ASSUME Hopping, Create
  PROVE  Hopping'
<1> DEFINE new(a) == [bind |-> IF a = top + 1 THEN "asked" ELSE ui[a].bind, service |-> FALSE]
<1>1. /\ queue \in Seq(Message) /\ chains \in 0 .. MaxActivities
      /\ UiType /\ UserType /\ ServiceType
      /\ ChainsAreStarted /\ NothingListed /\ OthersAreUnborn
  BY TypeParts DEF Hopping
<1>2. top + 1 \in 1 .. MaxActivities
  BY <1>1, Bounds DEF UiType, Create
<1>3. ui' = [a \in 1 .. MaxActivities |-> new(a)] /\ ui \in [1 .. MaxActivities -> Fields]
  BY <1>1 DEF Create, UiType
<1>4. \A a \in 1 .. MaxActivities : new(a) \in Fields
  BY <1>3 DEF Fields
<1>5. ui' \in [1 .. MaxActivities -> Fields]
  BY <1>3, <1>4
<1>6. UiType'
  BY <1>1, <1>2, <1>5 DEF UiType, UserType, Create
<1>7. UserType' /\ ServiceType' /\ NothingListed'
  BY <1>1 DEF UserType, ServiceType, Create, cards, NothingListed
<1>8. HopperIsStored' /\ ShownIsStored'
  BY <1>2, <1>3 DEF HopperIsStored, ShownIsStored, Create
<1>9. OthersAreUnborn'
  BY <1>1, <1>2, <1>3 DEF OthersAreUnborn, Create, UiType
<1>10. Starters' = Starters
  <2>1. ui[top + 1].bind = "no"
    BY <1>1, <1>2 DEF OthersAreUnborn, UiType
  <2>2. \A a \in 1 .. MaxActivities : a \in Starters' <=> a \in Starters
    BY <1>2, <1>3, <2>1 DEF Starters
  <2>3. QED
    BY <2>2 DEF Starters
<1>11. ChainsAreStarted' /\ queue' = queue /\ chains' = chains
  BY <1>1, <1>10, ChainsKept DEF Create
<1>12. QED
  BY <1>1, <1>6, <1>7, <1>8, <1>9, <1>11, TypeParts DEF Hopping

\* What the user does in ChannelPrefs.
LEMMA EditingKeeps ==
  ASSUME Hopping, OpenPrefs \/ Edit
  PROVE  Hopping'
<1>1. /\ queue \in Seq(Message) /\ chains \in 0 .. MaxActivities
      /\ UiType /\ UserType /\ ServiceType
      /\ ChainsAreStarted /\ NothingListed /\ OthersAreUnborn
  BY TypeParts DEF Hopping
<1>2. /\ editing' = TRUE
      /\ UNCHANGED <<queue, ui, top, shown, hopper, pos, chains, sourceList, tuned, intents, unsent>>
  BY <1>1 DEF OpenPrefs, Edit, activities, cards, UserType
<1>3. prefs' \in Setting
  <2>1. CASE OpenPrefs
    BY <1>1, <2>1 DEF OpenPrefs, UserType
  <2>2. CASE Edit
    <3>1. prefs \in Setting
      BY <1>1 DEF UserType
    <3>2. CASE prefs' = [prefs EXCEPT !.hop = ~@]
      BY <3>1, <3>2 DEF Setting
    <3>3. ASSUME NEW c \in Channels,
                 prefs' = [prefs EXCEPT !.list = IF c \in @ THEN @ \ {c} ELSE @ \cup {c}]
          PROVE  prefs' \in Setting
      BY <3>1, <3>3 DEF Setting
    <3>4. ASSUME NEW c \in Channels, prefs' = [prefs EXCEPT !.lock = c]
          PROVE  prefs' \in Setting
      BY <3>1, <3>4 DEF Setting
    <3>5. QED
      BY <2>2, <3>2, <3>3, <3>4 DEF Edit
  <2>3. QED
    BY <2>1, <2>2
<1>4. edits' \in 0 .. MaxEdits
  BY <1>1, Bounds DEF OpenPrefs, Edit, UserType
<1>5. Starters' = Starters
  BY <1>2 DEF Starters
<1>6. ChainsAreStarted'
  BY <1>1, <1>2, <1>5, ChainsKept
<1>7. UserType' /\ UiType' /\ ServiceType' /\ NothingListed' /\ OthersAreUnborn'
  BY <1>1, <1>2, <1>3, <1>4 DEF UserType, UiType, ServiceType, NothingListed, OthersAreUnborn
<1>8. HopperIsStored' /\ ShownIsStored'
  BY <1>2 DEF HopperIsStored, ShownIsStored
<1>9. QED
  BY <1>1, <1>2, <1>6, <1>7, <1>8, TypeParts DEF Hopping

\* Closing ChannelPrefs, and forwarding an intent.
LEMMA ClosingKeeps ==
  ASSUME Hopping, ClosePrefs
  PROVE  Hopping'
<1>1. /\ queue \in Seq(Message) /\ chains \in 0 .. MaxActivities
      /\ UiType /\ UserType /\ ServiceType
      /\ ChainsAreStarted /\ NothingListed /\ OthersAreUnborn
  BY TypeParts DEF Hopping
<1>2. /\ editing' = FALSE /\ shown' = prefs /\ unsent' = (unsent \/ ~ui[top].service)
      /\ UNCHANGED <<prefs, edits, ui, top, hopper, pos, chains, sourceList, tuned, intents>>
  BY DEF ClosePrefs, cards
<1>3. Post(Reconfigure) \/ (queue' = queue /\ ~ui[top].service)
  BY DEF ClosePrefs
<1>4. /\ queue' \in Seq(Message)
      /\ Count(queue', {OnStart}) = Count(queue, {OnStart})
      /\ Has(queue', Tellers) \/ ~ui[top].service
  <2>1. CASE Post(Reconfigure)
    BY <1>1, <2>1, PostMoves, MessageType
  <2>2. CASE queue' = queue /\ ~ui[top].service
    BY <1>1, <2>2
  <2>3. QED
    BY <1>3, <2>1, <2>2
<1>5. Starters' = Starters
  BY <1>2 DEF Starters
<1>6. ChainsAreStarted'
  BY <1>1, <1>2, <1>4, <1>5 DEF ChainsAreStarted
<1>7. UserType' /\ UiType' /\ ServiceType' /\ NothingListed' /\ OthersAreUnborn'
  BY <1>1, <1>2 DEF UserType, UiType, ServiceType, NothingListed, OthersAreUnborn
<1>8. ShownIsStored'
  BY <1>2 DEF ShownIsStored
<1>9. HopperIsStored'
  BY <1>2, <1>4 DEF HopperIsStored
<1>10. QED
  BY <1>1, <1>2, <1>4, <1>6, <1>7, <1>8, <1>9, TypeParts DEF Hopping

LEMMA ForwardingKeeps ==
  ASSUME Hopping, NEW k \in Cards, ForwardIntent(k)
  PROVE  Hopping'
<1>1. /\ queue \in Seq(Message) /\ chains \in 0 .. MaxActivities
      /\ UiType /\ UserType /\ ServiceType
      /\ ShownIsStored /\ HopperIsStored
      /\ ChainsAreStarted /\ NothingListed /\ OthersAreUnborn
  BY TypeParts DEF Hopping
<1>2. /\ intents < MaxIntents /\ intents' = intents + 1
      /\ UNCHANGED <<prefs, editing, edits, ui, top, shown, hopper, pos, chains, sourceList, tuned, unsent>>
  BY DEF ForwardIntent, settings, activities, cards
<1>3. PICK m \in {Granted(k), Detached(k)} : Post(m)
  BY DEF ForwardIntent
<1>4. m \in Message /\ m \in Tellers /\ m # OnStart
  BY MessageType
<1>5. queue' \in Seq(Message) /\ Has(queue', Tellers)
      /\ Count(queue', {OnStart}) = Count(queue, {OnStart})
  BY <1>1, <1>3, <1>4, PostMoves
<1>6. Starters' = Starters
  BY <1>2 DEF Starters
<1>7. ChainsAreStarted'
  BY <1>1, <1>2, <1>5, <1>6 DEF ChainsAreStarted
<1>8. UserType' /\ UiType' /\ ServiceType' /\ NothingListed' /\ OthersAreUnborn'
  BY <1>1, <1>2, Bounds DEF UserType, UiType, ServiceType, NothingListed, OthersAreUnborn
<1>9. ShownIsStored' /\ HopperIsStored'
  BY <1>1, <1>2, <1>5 DEF ShownIsStored, HopperIsStored
<1>10. QED
  BY <1>1, <1>2, <1>5, <1>7, <1>8, <1>9, TypeParts DEF Hopping

\* The system starts and binds the service.
LEMMA StartingKeeps ==
  ASSUME Hopping, NEW a \in 1 .. MaxActivities, PostStart(a)
  PROVE  Hopping'
<1>1. /\ queue \in Seq(Message) /\ chains \in 0 .. MaxActivities
      /\ UiType /\ UserType /\ ServiceType
      /\ ShownIsStored /\ ChainsAreStarted /\ NothingListed /\ OthersAreUnborn
  BY TypeParts DEF Hopping
<1>2. /\ ui[a].bind = "asked" /\ ui' = [ui EXCEPT ![a] = [ui[a] EXCEPT !.bind = "started"]]
      /\ Post(OnStart)
      /\ UNCHANGED <<prefs, editing, edits, top, shown, hopper, pos, chains, sourceList, tuned, intents, unsent>>
  BY DEF PostStart, settings, cards
<1>3. queue' \in Seq(Message) /\ Has(queue', Tellers)
      /\ Count(queue', {OnStart}) = Count(queue, {OnStart}) + 1 /\ Count(queue, {OnStart}) \in Nat
  BY <1>1, <1>2, PostMoves, MessageType
<1>4. ui[a] \in Fields /\ [ui[a] EXCEPT !.bind = "started"] \in Fields
      /\ [ui[a] EXCEPT !.bind = "started"].bind = "started"
  BY <1>1 DEF UiType, Fields
<1>5. /\ ui' \in [1 .. MaxActivities -> Fields] /\ ui'[a].bind = "started"
      /\ \A b \in 1 .. MaxActivities : b # a => ui'[b] = ui[b]
  BY <1>1, <1>2, <1>4 DEF UiType
<1>6. Starters' = Starters \cup {a} /\ a \notin Starters
  BY <1>2, <1>5 DEF Starters
<1>7. Cardinality(Starters') = Cardinality(Starters) + 1
  BY <1>6, StartersType, FS_AddElement
<1>8. ChainsAreStarted'
  BY <1>1, <1>2, <1>3, <1>7, StartersType DEF ChainsAreStarted
<1>9. UserType' /\ UiType' /\ ServiceType' /\ NothingListed' /\ ShownIsStored'
  BY <1>1, <1>2, <1>5 DEF UserType, UiType, ServiceType, NothingListed, ShownIsStored
<1>10. OthersAreUnborn'
  BY <1>1, <1>2, <1>5 DEF OthersAreUnborn
<1>11. HopperIsStored'
  BY <1>3 DEF HopperIsStored
<1>12. QED
  BY <1>1, <1>2, <1>3, <1>8, <1>9, <1>10, <1>11, TypeParts DEF Hopping

LEMMA BindingKeeps ==
  ASSUME Hopping, NEW a \in 1 .. MaxActivities, PostConnected(a)
  PROVE  Hopping'
<1>1. /\ queue \in Seq(Message) /\ chains \in 0 .. MaxActivities
      /\ UiType /\ UserType /\ ServiceType
      /\ ShownIsStored /\ HopperIsStored /\ ChainsAreStarted /\ NothingListed /\ OthersAreUnborn
  BY TypeParts DEF Hopping
<1>2. /\ ui[a].bind = "started" /\ ui' = [ui EXCEPT ![a] = [ui[a] EXCEPT !.bind = "bound"]]
      /\ Post(Connected(a))
      /\ UNCHANGED <<prefs, editing, edits, top, shown, hopper, pos, chains, sourceList, tuned, intents, unsent>>
  BY DEF PostConnected, settings, cards
<1>3. queue' \in Seq(Message) /\ (Has(queue', Tellers) <=> Has(queue, Tellers))
      /\ Count(queue', {OnStart}) = Count(queue, {OnStart})
  BY <1>1, <1>2, PostMoves, MessageType
<1>4. ui[a] \in Fields /\ [ui[a] EXCEPT !.bind = "bound"] \in Fields
      /\ [ui[a] EXCEPT !.bind = "bound"].bind = "bound"
  BY <1>1 DEF UiType, Fields
<1>5. /\ ui' \in [1 .. MaxActivities -> Fields] /\ ui'[a].bind = "bound"
      /\ \A b \in 1 .. MaxActivities : b # a => ui'[b] = ui[b]
  BY <1>1, <1>2, <1>4 DEF UiType
<1>6. Starters' = Starters
  <2>1. \A b \in 1 .. MaxActivities : b \in Starters' <=> b \in Starters
    BY <1>2, <1>5 DEF Starters
  <2>2. QED
    BY <2>1 DEF Starters
<1>7. ChainsAreStarted'
  BY <1>1, <1>2, <1>3, <1>6 DEF ChainsAreStarted
<1>8. UserType' /\ UiType' /\ ServiceType' /\ NothingListed' /\ ShownIsStored'
  BY <1>1, <1>2, <1>5 DEF UserType, UiType, ServiceType, NothingListed, ShownIsStored
<1>9. OthersAreUnborn'
  BY <1>1, <1>2, <1>5 DEF OthersAreUnborn
<1>10. HopperIsStored'
  <2>1. top > 0 => top \in 1 .. MaxActivities
    BY <1>1 DEF UiType
  <2>2. top > 0 /\ ui[top].bind = "asked" => ui'[top].bind = "asked"
    BY <1>2, <1>5, <2>1
  <2>3. QED
    BY <1>1, <1>2, <1>3, <2>2 DEF HopperIsStored
<1>11. QED
  BY <1>1, <1>2, <1>3, <1>7, <1>8, <1>9, <1>10, TypeParts DEF Hopping

LEMMA ConnectingKeeps ==
  ASSUME Hopping, NEW a \in 1 .. MaxActivities, OnServiceConnected(a)
  PROVE  Hopping'
<1>1. /\ queue \in Seq(Message) /\ chains \in 0 .. MaxActivities
      /\ UiType /\ UserType /\ ServiceType
      /\ ShownIsStored /\ HopperIsStored /\ ChainsAreStarted /\ NothingListed /\ OthersAreUnborn
  BY TypeParts DEF Hopping
<1>2. /\ ui' = [ui EXCEPT ![a] = [ui[a] EXCEPT !.service = (a = top)]]
      /\ Dispatch(Connected(a))
      /\ UNCHANGED <<prefs, editing, edits, top, shown, hopper, pos, chains, sourceList, tuned, intents, unsent>>
  BY DEF OnServiceConnected, settings, cards
<1>3. queue' \in Seq(Message) /\ (Has(queue', Tellers) <=> Has(queue, Tellers))
      /\ Count(queue', {OnStart}) <= Count(queue, {OnStart})
      /\ Count(queue', {OnStart}) \in Nat /\ Count(queue, {OnStart}) \in Nat
  BY <1>1, <1>2, DispatchMoves, MessageType
<1>4. ui[a] \in Fields /\ [ui[a] EXCEPT !.service = (a = top)] \in Fields
      /\ [ui[a] EXCEPT !.service = (a = top)].bind = ui[a].bind
  BY <1>1 DEF UiType, Fields
<1>5. /\ ui' \in [1 .. MaxActivities -> Fields]
      /\ \A b \in 1 .. MaxActivities : ui'[b].bind = ui[b].bind
  BY <1>1, <1>2, <1>4 DEF UiType
<1>6. Starters' = Starters
  BY <1>5 DEF Starters
<1>7. ChainsAreStarted'
  BY <1>1, <1>2, <1>3, <1>6, StartersType DEF ChainsAreStarted
<1>8. UserType' /\ UiType' /\ ServiceType' /\ NothingListed' /\ ShownIsStored'
  BY <1>1, <1>2, <1>5 DEF UserType, UiType, ServiceType, NothingListed, ShownIsStored
<1>9. OthersAreUnborn'
  BY <1>1, <1>2, <1>5 DEF OthersAreUnborn
<1>10. HopperIsStored'
  <2>1. top > 0 => top \in 1 .. MaxActivities
    BY <1>1 DEF UiType
  <2>2. QED
    BY <1>1, <1>2, <1>3, <1>5, <2>1 DEF HopperIsStored
<1>11. QED
  BY <1>1, <1>2, <1>3, <1>7, <1>8, <1>9, <1>10, TypeParts DEF Hopping

\* The messages to the service: each has it read the preferences.
LEMMA ServiceKeeps ==
  ASSUME Hopping,
         OnStartCommand \/ HandleReconfigure \/ \E k \in Cards : HandleGranted(k) \/ HandleDetached(k)
  PROVE  Hopping'
<1>1. /\ queue \in Seq(Message) /\ chains \in 0 .. MaxActivities
      /\ UiType /\ UserType /\ ServiceType
      /\ ShownIsStored /\ ChainsAreStarted /\ NothingListed /\ OthersAreUnborn
  BY TypeParts DEF Hopping
<1>2. /\ hopper' = prefs /\ unsent' = (unsent /\ editing)
      /\ UNCHANGED <<prefs, editing, edits, ui, top, shown, intents>>
  BY DEF OnStartCommand, HandleReconfigure, HandleGranted, HandleDetached, UpdatePreferences,
         settings, activities
<1>3. /\ pos' \in 0 .. Beyond /\ tuned' \in [Cards -> Channels \cup {0}] /\ NothingListed'
  <2>1. CASE OnStartCommand
    BY <1>1, <2>1, HopType DEF OnStartCommand, ServiceType, NothingListed
  <2>2. CASE HandleReconfigure
    BY <1>1, <2>2 DEF HandleReconfigure, ServiceType, NothingListed, cards
  <2>3. ASSUME NEW k \in Cards, HandleGranted(k)
        PROVE  /\ pos' \in 0 .. Beyond /\ tuned' \in [Cards -> Channels \cup {0}] /\ NothingListed'
    BY <1>1, <2>3, Bounds DEF HandleGranted, ServiceType, NothingListed
  <2>4. ASSUME NEW k \in Cards, HandleDetached(k)
        PROVE  /\ pos' \in 0 .. Beyond /\ tuned' \in [Cards -> Channels \cup {0}] /\ NothingListed'
    BY <1>1, <2>4 DEF HandleDetached, ServiceType, NothingListed
  <2>5. QED
    BY <2>1, <2>2, <2>3, <2>4
<1>4. PICK m : Dispatch(m) /\ (m # OnStart => chains' = chains) /\ (m = OnStart => chains' = chains + 1)
  <2>1. CASE OnStartCommand
    BY <2>1 DEF OnStartCommand
  <2>2. CASE HandleReconfigure
    BY <2>2, MessageType DEF HandleReconfigure
  <2>3. ASSUME NEW k \in Cards, HandleGranted(k) \/ HandleDetached(k)
        PROVE  \E m : Dispatch(m) /\ (m # OnStart => chains' = chains) /\ (m = OnStart => chains' = chains + 1)
    BY <2>3, MessageType DEF HandleGranted, HandleDetached
  <2>4. QED
    BY <2>1, <2>2, <2>3
<1>5. /\ queue' \in Seq(Message)
      /\ m # OnStart => Count(queue', {OnStart}) <= Count(queue, {OnStart})
      /\ m = OnStart => Count(queue', {OnStart}) + 1 <= Count(queue, {OnStart})
      /\ Count(queue', {OnStart}) \in Nat /\ Count(queue, {OnStart}) \in Nat
  BY <1>1, <1>4, DispatchMoves
<1>6. Starters' = Starters
  BY <1>2 DEF Starters
<1>7. ChainsAreStarted'
  BY <1>1, <1>4, <1>5, <1>6, StartersType DEF ChainsAreStarted
<1>8. chains' \in 0 .. MaxActivities
  BY <1>1, <1>4, <1>5, <1>7, ChainsType
<1>9. UserType' /\ UiType' /\ ServiceType' /\ ShownIsStored' /\ OthersAreUnborn'
  BY <1>1, <1>2, <1>3 DEF UserType, UiType, ServiceType, NothingListed, ShownIsStored, OthersAreUnborn
<1>10. HopperIsStored'
  BY <1>2 DEF HopperIsStored
<1>11. QED
  BY <1>3, <1>5, <1>7, <1>8, <1>9, <1>10, TypeParts DEF Hopping

LEMMA TickingKeeps ==
  ASSUME Hopping, ChanChangeTask \/ UNCHANGED vars
  PROVE  Hopping'
<1>1. /\ queue \in Seq(Message) /\ chains \in 0 .. MaxActivities
      /\ UiType /\ UserType /\ ServiceType
      /\ ShownIsStored /\ HopperIsStored /\ ChainsAreStarted /\ NothingListed /\ OthersAreUnborn
  BY TypeParts DEF Hopping
<1>2. UNCHANGED <<queue, prefs, editing, edits, ui, top, shown, hopper, chains, sourceList, intents, unsent>>
  BY DEF ChanChangeTask, vars, settings, activities, cards
<1>3. pos' \in 0 .. Beyond /\ tuned' = tuned
  BY <1>1, HopType DEF ChanChangeTask, vars, cards, ServiceType
<1>4. Starters' = Starters
  BY <1>2 DEF Starters
<1>5. ChainsAreStarted'
  BY <1>1, <1>2, <1>4, ChainsKept
<1>6. UserType' /\ UiType' /\ ServiceType' /\ NothingListed' /\ ShownIsStored' /\ OthersAreUnborn'
  BY <1>1, <1>2, <1>3 DEF UserType, UiType, ServiceType, NothingListed, ShownIsStored, OthersAreUnborn
<1>7. HopperIsStored'
  BY <1>1, <1>2 DEF HopperIsStored
<1>8. QED
  BY <1>1, <1>2, <1>5, <1>6, <1>7, TypeParts DEF Hopping

-----------------------------------------------------------------------------
LEMMA HoppingInit == Init => Hopping
<1> SUFFICES ASSUME Init
             PROVE  Hopping
  OBVIOUS
<1>1. /\ queue = <<>> /\ prefs = Defaults /\ ~editing /\ editing \in BOOLEAN /\ edits = 0
      /\ ui = [a \in 1 .. MaxActivities |-> [bind |-> "no", service |-> FALSE]]
      /\ top = 0 /\ shown = Defaults /\ hopper = [hop |-> FALSE, lock |-> 6, list |-> {}]
      /\ pos = 0 /\ chains = 0 /\ sourceList = {} /\ tuned = [k \in Cards |-> 0]
      /\ intents = 0 /\ unsent \in BOOLEAN
  BY DEF Init
<1>2. Defaults \in Setting /\ hopper \in Setting
  BY <1>1, Bounds DEF Defaults, Setting, FirstChannel
<1>3. UiType /\ UserType /\ ServiceType
  BY <1>1, <1>2, Bounds DEF UiType, UserType, ServiceType, Fields
<1>4. queue \in Seq(Message)
  BY <1>1
<1>5. ChainsAreStarted
  <2>1. Places(queue, {OnStart}) = {}
    BY <1>1 DEF Places
  <2>2. Count(queue, {OnStart}) = 0
    BY <2>1, FS_EmptySet DEF Count
  <2>3. QED
    BY <1>1, <2>2, StartersType DEF ChainsAreStarted
<1>6. ShownIsStored /\ HopperIsStored /\ NothingListed /\ OthersAreUnborn
  BY <1>1 DEF ShownIsStored, HopperIsStored, NothingListed, OthersAreUnborn
<1>7. QED
  BY Bounds, <1>1, <1>3, <1>4, <1>5, <1>6, TypeParts DEF Hopping

LEMMA HoppingStep == Hopping /\ [Next]_vars => Hopping'
<1> SUFFICES ASSUME Hopping, [Next]_vars
             PROVE  Hopping'
  OBVIOUS
<1>1. CASE Looper
  BY <1>1, ConnectingKeeps, ServiceKeeps DEF Looper
<1>2. CASE ChanChangeTask \/ UNCHANGED vars
  BY <1>2, TickingKeeps
<1>3. CASE Create \/ OpenPrefs \/ Edit \/ ClosePrefs
  BY <1>3, CreateKeeps, EditingKeeps, ClosingKeeps
<1>4. CASE \E a \in 1 .. MaxActivities : PostStart(a) \/ PostConnected(a)
  BY <1>4, StartingKeeps, BindingKeeps
<1>5. CASE \E k \in Cards : ForwardIntent(k)
  BY <1>5, ForwardingKeeps
<1>6. QED
  BY <1>1, <1>2, <1>3, <1>4, <1>5 DEF Next

\* Whatever the user edits, however often the device is turned and the service is started,
\* bound and told of cards: once everything posted has been handled, what is stored, what
\* the dashboard shows and what updatePreferences has given the hopper are the same, but
\* for an edit that was over before the service was connected.
THEOREM PlacesAlwaysAgree == Spec => []PlacesAgree
<1>1. Hopping => PlacesAgree
  <2> SUFFICES ASSUME Hopping
               PROVE  PlacesAgree
    OBVIOUS
  <2>1. queue = <<>> => ~Has(queue, Tellers)
    BY HasNone
  <2>2. SettingsAgree
    BY <2>1 DEF Hopping, SettingsAgree, ShownIsStored, HopperIsStored
  <2>3. QED
    BY <2>2 DEF Hopping, PlacesAgree
<1>2. QED
  BY <1>1, HoppingInit, HoppingStep, PTL DEF Spec
=============================================================================
