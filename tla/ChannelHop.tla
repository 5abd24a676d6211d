----------------------------- MODULE ChannelHop -----------------------------
(***************************************************************************)
(* Which channel the cards are tuned to: the preferences the user edits in *)
(* ChannelPrefs.java, the copy MainActivity.java shows of them, the copy   *)
(* PcapService.java works from, and chanChangeTask, which is to walk the   *)
(* cards along the list of channels.                                       *)
(*                                                                         *)
(* All of it runs on the main looper.  chanChangeTask posts itself again   *)
(* whenever it has run; every onStartCommand adds another such chain.      *)
(***************************************************************************)
EXTENDS Naturals, Sequences, FiniteSets, SequencesExt

CONSTANTS
  Channels,        \* the channels the preferences offer
  Cards,           \* the cards that may be attached
  MaxActivities,   \* bound: instances of MainActivity, one after another
  MaxEdits,        \* bound: changes of the preferences
  MaxIntents,      \* bound: USB intents forwarded to the service
  MaxQueue         \* bound: ChannelPrefs is not opened while so many messages wait

\* The channel of rtl8187_set_channel(6) at the end of attachUsbDevice, and what the
\* preference "channel_lock" reads as while the user has not set it.
FirstChannel == 6
DefaultLock == 11

ASSUME HopAssumption ==
  /\ {FirstChannel, DefaultLock} \subseteq Channels
  /\ Channels \subseteq Nat /\ IsFiniteSet(Channels)
  /\ MaxActivities \in Nat \ {0}
  /\ MaxEdits \in Nat
  /\ MaxIntents \in Nat
  /\ MaxQueue \in Nat

VARIABLES
  queue,      \* the messages of the main looper
  prefs,      \* the shared preferences: [hop, list, lock]
  editing,    \* ChannelPrefs is on top of MainActivity
  edits,      \* changes of the preferences so far
  ui,         \* per MainActivity: [bind, service]
  top,        \* the MainActivity that is up; 0 before the first
  shown,      \* its copy of the preferences
  hopper,     \* PcapService: [mChannelHop, mChannelLock, mChannelList]
  pos,        \* PcapService.mChannelPos
  chains,     \* chanChangeTasks that are posted
  sourceList, \* PcapService.mSourceList
  tuned,      \* per card: its channel, or 0 while it is not attached
  intents,    \* USB intents forwarded so far
  unsent      \* history: the service has not been told of the last edit

activities == <<ui, top, shown>>
settings == <<prefs, editing, edits>>
cards == <<sourceList, tuned>>
vars == <<queue, settings, activities, hopper, pos, chains, cards, intents, unsent>>

Setting == [hop : BOOLEAN, list : SUBSET Channels, lock : Channels]

Defaults == [hop |-> TRUE, list |-> Channels, lock |-> DefaultLock]

\* mChannelList holds the chosen channels in ascending order.
ChannelList(list) == SetToSortSeq(list, <)

\* Messages.
OnStart      == [what |-> "start"]
Reconfigure  == [what |-> "reconfigure"]
Connected(a) == [what |-> "connected", to |-> a]
Granted(k)   == [what |-> "granted", card |-> k]
Detached(k)  == [what |-> "detached", card |-> k]

Message ==
  [what : {"start", "reconfigure"}]
  \cup [what : {"connected"}, to : 1 .. MaxActivities]
  \cup [what : {"granted", "detached"}, card : Cards]

Post(m) == queue' = Append(queue, m)

Dispatch(m) == queue # <<>> /\ Head(queue) = m /\ queue' = Tail(queue)

-----------------------------------------------------------------------------
Init ==
  /\ queue = <<>>
  /\ prefs = Defaults
  /\ editing = FALSE
  /\ edits = 0
  /\ ui = [a \in 1 .. MaxActivities |-> [bind |-> "no", service |-> FALSE]]
  /\ top = 0
  /\ shown = Defaults
  /\ hopper = [hop |-> FALSE, lock |-> 6, list |-> {}]
  /\ pos = 0
  /\ chains = 0
  /\ sourceList = {}
  /\ tuned = [k \in Cards |-> 0]
  /\ intents = 0
  /\ unsent = FALSE

-----------------------------------------------------------------------------
(* MainActivity and ChannelPrefs. *)

\* onCreate starts and binds the service and reads the preferences, after the
\* activity before it has been destroyed.  It comes first when the user closes
\* ChannelPrefs on a device that was turned meanwhile: then onActivityResult finds
\* mService null and sends nothing.
Create ==
  /\ top < MaxActivities
  /\ top' = top + 1
  /\ ui' = [a \in DOMAIN ui |-> [bind    |-> IF a = top + 1 THEN "asked" ELSE ui[a].bind,
                                 service |-> FALSE]]
  /\ shown' = prefs
  /\ editing' = FALSE
  /\ unsent' = (unsent \/ editing)
  /\ UNCHANGED <<queue, prefs, edits, hopper, pos, chains, cards, intents>>

PostStart(a) ==
  /\ ui[a].bind = "asked"
  /\ ui' = [ui EXCEPT ![a].bind = "started"]
  /\ Post(OnStart)
  /\ UNCHANGED <<settings, top, shown, hopper, pos, chains, cards, intents, unsent>>

PostConnected(a) ==
  /\ ui[a].bind = "started"
  /\ ui' = [ui EXCEPT ![a].bind = "bound"]
  /\ Post(Connected(a))
  /\ UNCHANGED <<settings, top, shown, hopper, pos, chains, cards, intents, unsent>>

\* An activity that has been replaced has unbound.
OnServiceConnected(a) ==
  /\ Dispatch(Connected(a))
  /\ ui' = [ui EXCEPT ![a].service = (a = top)]
  /\ UNCHANGED <<settings, top, shown, hopper, pos, chains, cards, intents, unsent>>

OpenPrefs ==
  /\ top > 0
  /\ ~editing
  /\ edits < MaxEdits
  /\ Len(queue) < MaxQueue
  /\ editing' = TRUE
  /\ UNCHANGED <<queue, prefs, edits, activities, hopper, pos, chains, cards, intents, unsent>>

\* hopOverrider lets the user choose channels while hopping is checked, and the
\* locked channel while it is not.
Edit ==
  /\ editing
  /\ edits < MaxEdits
  /\ edits' = edits + 1
  /\ \/ prefs' = [prefs EXCEPT !.hop = ~@]
     \/ \E c \in Channels :
          \/ prefs.hop /\ prefs' = [prefs EXCEPT !.list = IF c \in @ THEN @ \ {c}
                                                                     ELSE @ \cup {c}]
          \/ ~prefs.hop /\ prefs' = [prefs EXCEPT !.lock = c]
  /\ UNCHANGED <<queue, editing, activities, hopper, pos, chains, cards, intents, unsent>>

\* Mutant of ClosePrefs: the service is not told.
ClosePrefsSilently ==
  /\ editing
  /\ editing' = FALSE
  /\ shown' = prefs
  /\ unsent' = (unsent \/ ~ui[top].service)
  /\ UNCHANGED <<queue, prefs, edits, ui, top, hopper, pos, chains, cards, intents>>

\* onActivityResult: read the preferences, and tell the service unless mService is null.
ClosePrefs ==
  /\ editing
  /\ editing' = FALSE
  /\ shown' = prefs
  /\ IF ui[top].service THEN Post(Reconfigure) ELSE UNCHANGED queue
  /\ unsent' = (unsent \/ ~ui[top].service)
  /\ UNCHANGED <<prefs, edits, ui, top, hopper, pos, chains, cards, intents>>

\* mUsbReceiver forwards that the use of a card was granted, or that it is gone.
ForwardIntent(k) ==
  /\ top > 0
  /\ ui[top].service
  /\ intents < MaxIntents
  /\ intents' = intents + 1
  /\ Post(Granted(k)) \/ Post(Detached(k))
  /\ UNCHANGED <<settings, activities, hopper, pos, chains, cards, unsent>>

-----------------------------------------------------------------------------
(* PcapService. *)

UpdatePreferences ==
  /\ hopper' = prefs
  /\ unsent' = (unsent /\ editing)

\* A position that no list reaches.  mChannelPos, once it is past the end of a list
\* that has run short, grows for ever; how far is not told apart from here on.
Beyond == Cardinality(Channels)

\* Mutant of Hop: the last channel of the list is left out.
HopShort(h) ==
  IF h.hop
  THEN LET list == ChannelList(h.list) IN
       /\ tuned' = [k \in Cards |-> IF k \in sourceList THEN list[pos + 1] ELSE tuned[k]]
       /\ pos' = IF pos + 2 >= Len(list) THEN 0 ELSE pos + 1
  ELSE UNCHANGED <<tuned, pos>>

\* chanChangeTask, working from the settings h: tune the sources to the channel at
\* mChannelPos and move on, from the last place back to the first.
Hop(h) ==
  IF h.hop
  THEN LET list == ChannelList(h.list) IN
       /\ tuned' = [k \in Cards |-> IF k \in sourceList THEN list[pos + 1] ELSE tuned[k]]
       /\ pos' = CASE pos + 1 = Len(list) -> 0
                   [] pos + 1 # Len(list) /\ pos < Beyond -> pos + 1
                   [] OTHER -> Beyond
  ELSE UNCHANGED <<tuned, pos>>

\* onStartCommand reads the preferences and runs chanChangeTask, which stays posted.
OnStartCommand ==
  /\ Dispatch(OnStart)
  /\ UpdatePreferences
  /\ Hop(prefs)
  /\ chains' = chains + 1
  /\ UNCHANGED <<settings, activities, sourceList, intents>>

\* A quarter of a second has passed in one of the chains.
ChanChangeTask ==
  /\ chains > 0
  /\ Hop(hopper)
  /\ UNCHANGED <<queue, settings, activities, hopper, chains, sourceList, intents, unsent>>

HandleReconfigure ==
  /\ Dispatch(Reconfigure)
  /\ UpdatePreferences
  /\ UNCHANGED <<settings, activities, pos, chains, cards, intents>>

\* handleUsbIntent makes a source and tunes it; the case of MSG_USBINTENT has no
\* break, and goes on into that of MSG_RECONFIGURE_PREFS.
HandleGranted(k) ==
  /\ Dispatch(Granted(k))
  /\ tuned' = [tuned EXCEPT ![k] = IF @ = 0 THEN FirstChannel ELSE @]
  /\ UpdatePreferences
  /\ UNCHANGED <<settings, activities, pos, chains, sourceList, intents>>

HandleDetached(k) ==
  /\ Dispatch(Detached(k))
  /\ tuned' = [tuned EXCEPT ![k] = 0]
  /\ sourceList' = sourceList \ {k}
  /\ UpdatePreferences
  /\ UNCHANGED <<settings, activities, pos, chains, intents>>

-----------------------------------------------------------------------------
Looper ==
  \/ \E a \in 1 .. MaxActivities : OnServiceConnected(a)
  \/ OnStartCommand \/ HandleReconfigure
  \/ \E k \in Cards : HandleGranted(k) \/ HandleDetached(k)

Next ==
  \/ Looper \/ ChanChangeTask
  \/ Create \/ OpenPrefs \/ Edit \/ ClosePrefs
  \/ \E a \in 1 .. MaxActivities : PostStart(a) \/ PostConnected(a)
  \/ \E k \in Cards : ForwardIntent(k)

Spec == Init /\ [][Next]_vars

\* The looper dispatches what it has, and a task that was posted with a delay runs.
FairSpec == Spec /\ WF_vars(Looper) /\ WF_vars(ChanChangeTask)

-----------------------------------------------------------------------------
(* Properties. *)

\* Every variable keeps its type, and every message in the queue has a handler.
TypeOK ==
  /\ queue \in Seq(Message)
  /\ prefs \in Setting
  /\ editing \in BOOLEAN
  /\ edits \in 0 .. MaxEdits
  /\ ui \in [1 .. MaxActivities ->
               [bind : {"no", "asked", "started", "bound"}, service : BOOLEAN]]
  /\ top \in 0 .. MaxActivities
  /\ shown \in Setting
  /\ hopper \in Setting
  /\ pos \in 0 .. Beyond
  /\ chains \in 0 .. MaxActivities
  /\ sourceList \subseteq Cards
  /\ tuned \in [Cards -> Channels \cup {0}]
  /\ intents \in 0 .. MaxIntents
  /\ unsent \in BOOLEAN

\* Once everything posted has been handled and the user is back on the dashboard, the
\* stored preferences, what the dashboard shows and what the service works from are
\* the same, however the editing fell together with turning the device and with
\* binding.  The one gap: an edit that is over before the service is connected, and
\* after it was started.
SettingsAgree ==
  queue = <<>> /\ ~editing /\ top > 0 /\ ui[top].bind = "bound" /\ ~unsent
    => shown = prefs /\ hopper = prefs

\* The settings in their three places agree once messages have settled.
PlacesAgree == TypeOK /\ SettingsAgree

\* The list has run short under mChannelPos.
Derailed == pos >= Len(ChannelList(hopper.list))

\* While hopping is on, every channel of the list comes round at mChannelPos again
\* and again, whatever edits came before, unless the list ran short under it.
AllComeRound ==
  \A c \in Channels :
    []<>(\/ Derailed
         \/ ~hopper.hop
         \/ c \notin hopper.list
         \/ ChannelList(hopper.list)[pos + 1] = c)

=============================================================================
