---------------------------- MODULE FileManager ----------------------------
(***************************************************************************)
(* The file manager: FilemanagerActivity.java with its list                *)
(* (FilelistFragment.java), its storage usage (FileusageFragment.java) and *)
(* the helpers in FileUtils.java, PcapFileTyper.java and NameDialog.java.  *)
(*                                                                         *)
(* It shows the logs of a directory in which one log may still be written. *)
(* Timers list the directory again and again; the rows are bound to what   *)
(* was listed at the next layout, which goes before everything posted; the *)
(* packets of a log are counted by a task posted to its row.               *)
(*                                                                         *)
(* Stars are preferences under the file's name.  Only MainActivity starts  *)
(* a log; being singleTask, it is not up while the file manager is.        *)
(***************************************************************************)
EXTENDS Naturals, Sequences, FiniteSets, Functions, SequencesExt

CONSTANTS
  Names,      \* names a log can have, without the extension
  NoName,     \* no name
  MaxStamps,  \* bound: writes to logs
  MaxTouches  \* bound: stars and dialogs

ASSUME FileAssumption ==
  /\ IsFiniteSet(Names)
  /\ NoName \notin Names
  /\ MaxStamps \in Nat
  /\ MaxTouches \in Nat

VARIABLES
  dir,        \* per name in the directory: [stamp, kept] of its file
  stamps,     \* writes so far; a file's stamp stands for contents and lastModified
  log,        \* the name of the log that is being written
  stars,      \* the names whose preference FILEFAV_... is set
  screen,     \* the activity: "none", "resumed", "paused" or "crashed"
  list,       \* mFileList: the names in their order
  entry,      \* mFileList: per name [time, dirty, small] of its FileEntry
  row,        \* the views of the list: [name, star, text]
  laidOut,    \* the views have been bound since the last notifyDataSetChanged
  posted,     \* tasks of updateDetailsView: [row, name, live]
  counted,    \* mDirectorySize is the size of the files as they are
  listTasks,  \* updateTasks of the list that are pending
  usageTask,  \* an updateTask of the usage is pending, or more
  dialog,     \* [kind, name, count, clicked, mine]
  touches,    \* stars and dialogs so far
  late        \* history: a click ran after onPause, or after onDestroy

files == <<dir, stamps, log>>
timers == <<listTasks, usageTask>>
views == <<row, laidOut, posted>>
vars == <<files, stars, screen, list, entry, views, counted, timers, dialog, touches, late>>

Rows == 1 .. Cardinality(Names)

\* What a row can say of its log.  A view that has not been made says nothing.
Unmade == <<>>
Fetching == <<"fetching">>
Error == <<"error">>
Packets(stamp) == <<"packets", stamp>>
Text == {Unmade, Fetching, Error} \cup {Packets(s) : s \in 1 .. MaxStamps}

NoDialog == [kind |-> "none", name |-> NoName, count |-> 0, clicked |-> FALSE, mine |-> FALSE]

NoRows == [i \in Rows |-> [name |-> NoName, star |-> FALSE, text |-> Unmade]]

Init ==
  /\ dir = <<>>
  /\ stamps = 0
  /\ log = NoName
  /\ stars = {}
  /\ screen = "none"
  /\ list = <<>>
  /\ entry = <<>>
  /\ row = NoRows
  /\ laidOut = TRUE
  /\ posted = <<>>
  /\ counted = FALSE
  /\ listTasks = 0
  /\ usageTask = FALSE
  /\ dialog = NoDialog
  /\ touches = 0
  /\ late = FALSE

-----------------------------------------------------------------------------
(* The directory and the log. *)

\* A log is named after the time of day, so its name is not in the directory.
StartLog(n) ==
  /\ screen = "none" /\ dialog = NoDialog
  /\ log = NoName
  /\ n \notin DOMAIN dir
  /\ stamps < MaxStamps
  /\ stamps' = stamps + 1
  /\ dir' = [m \in DOMAIN dir \cup {n} |->
               IF m = n THEN [stamp |-> stamps + 1, kept |-> NoName] ELSE dir[m]]
  /\ log' = n
  /\ counted' = FALSE
  /\ UNCHANGED <<stars, screen, list, entry, views, timers, dialog, touches, late>>

WriteLog ==
  /\ log # NoName
  /\ stamps < MaxStamps
  /\ stamps' = stamps + 1
  /\ dir' = [dir EXCEPT ![log].stamp = stamps + 1]
  /\ counted' = FALSE
  /\ UNCHANGED <<log, stars, screen, list, entry, views, timers, dialog, touches, late>>

\* MainActivity stops the log, or the radio goes away.
StopLog ==
  /\ log # NoName
  /\ log' = NoName
  /\ UNCHANGED <<dir, stamps, stars, screen, list, entry, views, counted, timers, dialog,
                 touches, late>>

-----------------------------------------------------------------------------
(* Listing the directory. *)

\* Mutant of EntryOf: an older version is taken as it is.
EntryKept(n, d, old) ==
  IF n \in DOMAIN old THEN old[n]
  ELSE [time |-> d[n].stamp, dirty |-> TRUE, small |-> Fetching]

\* The entry of a file: the one there was, refreshed, or a new one.
EntryOf(n, d, old) ==
  IF n \in DOMAIN old
  THEN IF old[n].time = d[n].stamp THEN old[n]
       ELSE [old[n] EXCEPT !.time = d[n].stamp, !.dirty = TRUE]
  ELSE [time |-> d[n].stamp, dirty |-> TRUE, small |-> Fetching]

\* The order of the list is any, as FileDateComparator never says that a file comes
\* before another; a directory of the same names is listed in the same order.
Orders(S) == IF ToSet(list) = S THEN {list} ELSE SetToSeqs(S)

\* FilelistFragment.Populate lists directory d, given the entries there were.
List(d, old) ==
  /\ list' \in Orders(DOMAIN d)
  /\ entry' = [n \in DOMAIN d |-> EntryOf(n, d, old)]
  /\ laidOut' = FALSE

\* The same for the instance that is up: a task of an entry that is gone keeps to the old object.
Relist(d, old) ==
  /\ List(d, old)
  /\ posted' = [t \in DOMAIN posted |->
                  [posted[t] EXCEPT !.live = @ /\ posted[t].name \in DOMAIN d]]
  /\ UNCHANGED row

\* Mutant of PostListTask: the ones that are pending stay.
PostListTaskMore(pending) == listTasks' = pending + 1

\* Populate takes back the updateTasks that are pending before it posts the next.
PostListTask(pending) == listTasks' = 1

\* FileusageFragment.Populate: countFileSizes, and another task.  It does not take back
\* one that is pending.
PopulateUsage ==
  /\ counted' = TRUE
  /\ usageTask' = TRUE

ListTask ==
  /\ listTasks > 0
  /\ Relist(dir, entry)
  /\ PostListTask(listTasks - 1)
  /\ UNCHANGED <<files, stars, screen, counted, usageTask, dialog, touches, late>>

UsageTask ==
  /\ usageTask
  /\ PopulateUsage
  /\ UNCHANGED <<files, stars, screen, list, entry, views, listTasks, dialog, touches, late>>

-----------------------------------------------------------------------------
(* The life cycle of the activity. *)

\* onCreate and onResume, of a new instance: each populates both fragments.
Start ==
  /\ screen' = "resumed"
  /\ List(dir, <<>>)
  /\ row' = NoRows
  /\ posted' = <<>>
  /\ listTasks' = 1
  /\ PopulateUsage

Open ==
  /\ screen = "none" /\ dialog = NoDialog
  /\ Start
  /\ UNCHANGED <<files, stars, dialog, touches, late>>

OnPause ==
  /\ screen = "resumed"
  /\ screen' = "paused"
  /\ listTasks' = 0
  /\ usageTask' = FALSE
  /\ UNCHANGED <<files, stars, list, entry, views, counted, dialog, touches, late>>

OnResume ==
  /\ screen = "paused"
  /\ screen' = "resumed"
  /\ Relist(dir, entry)
  /\ PostListTask(listTasks)
  /\ PopulateUsage
  /\ UNCHANGED <<files, stars, dialog, touches, late>>

\* A dialog goes with its activity, but not a click that is on its way to its listener.
Orphaned == IF dialog.clicked THEN [dialog EXCEPT !.mine = FALSE] ELSE NoDialog

\* The device is turned.  The fragment manager makes a NameDialog again, without its
\* mEntry, and onCreateDialog fails.
Turn ==
  /\ screen = "paused"
  /\ IF dialog.kind = "rename"
     THEN /\ screen' = "crashed"
          /\ UNCHANGED <<list, entry, views, counted, timers, dialog>>
     ELSE Start /\ dialog' = Orphaned
  /\ UNCHANGED <<files, stars, touches, late>>

\* The user goes back to MainActivity.
Finish ==
  /\ screen = "paused"
  /\ screen' = "none"
  /\ list' = <<>> /\ entry' = <<>> /\ row' = NoRows /\ laidOut' = TRUE /\ posted' = <<>>
  /\ counted' = FALSE
  /\ listTasks' = 0 /\ usageTask' = FALSE
  /\ dialog' = Orphaned
  /\ UNCHANGED <<files, stars, touches, late>>

-----------------------------------------------------------------------------
(* The rows. *)

\* getView wants the details of place i: the view is new, or the entry dirty.
Wants(i) == row[i].text = Unmade \/ entry[list[i]].dirty

\* Places from the top of the screen downwards.
TopDown(places) ==
  {s \in SetToSeqs(places) : \A t, u \in DOMAIN s : t < u => s[t] < s[u]}

\* Layout: getView binds a view to each place of the list.  getDirty, which clears the
\* flag, is not asked for a new view.
Layout ==
  /\ screen \in {"resumed", "paused"}
  /\ ~laidOut
  /\ laidOut' = TRUE
  /\ row' = [i \in Rows |->
               IF i <= Len(list)
               THEN [name |-> list[i], star |-> list[i] \in stars, text |-> entry[list[i]].small]
               ELSE [row[i] EXCEPT !.name = NoName]]
  /\ entry' = [n \in DOMAIN entry |->
                 [entry[n] EXCEPT !.dirty = @ /\ \E i \in DOMAIN list :
                                                   list[i] = n /\ row[i].text = Unmade]]
  /\ \E wanting \in TopDown({i \in DOMAIN list : Wants(i)}) :
       posted' = posted \o [t \in DOMAIN wanting |->
                              [row |-> wanting[t], name |-> list[wanting[t]], live |-> TRUE]]
  /\ UNCHANGED <<files, stars, screen, list, counted, timers, dialog, touches, late>>

\* A task of updateDetailsView counts the packets of the file that has the name now.
ShowDetails ==
  /\ posted # <<>>
  /\ LET task    == Head(posted)
         details == IF task.name \in DOMAIN dir THEN Packets(dir[task.name].stamp) ELSE Error
     IN /\ row' = [row EXCEPT ![task.row].text = details]
        /\ entry' = IF task.live THEN [entry EXCEPT ![task.name].small = details] ELSE entry
  /\ posted' = Tail(posted)
  /\ UNCHANGED <<files, stars, screen, list, laidOut, counted, timers, dialog, touches, late>>

-----------------------------------------------------------------------------
(* The user. *)

Touch ==
  /\ screen = "resumed"
  /\ dialog = NoDialog
  /\ touches < MaxTouches
  /\ touches' = touches + 1

\* The star of a row is a preference under the name the row is bound to.  A file of that
\* name is kept under it; or no file is any longer, as one that has moved since has lost
\* its star to the file that came after it.
ToggleStar(i) ==
  /\ Touch
  /\ row[i].name # NoName
  /\ LET n == row[i].name
         starred == n \notin stars
     IN /\ stars' = IF starred THEN stars \cup {n} ELSE stars \ {n}
        /\ row' = [row EXCEPT ![i].star = starred]
        /\ dir' = [m \in DOMAIN dir |->
                     CASE starred /\ m = n            -> [dir[m] EXCEPT !.kept = n]
                       [] ~starred /\ dir[m].kept = n -> [dir[m] EXCEPT !.kept = NoName]
                       [] OTHER                       -> dir[m]]
  /\ UNCHANGED <<stamps, log, screen, list, entry, laidOut, posted, counted, timers, dialog, late>>

\* The files that countFiles counts and deleteFiles deletes, with nonfavorite set.
Unstarred == DOMAIN dir \ stars

OpenDialog(kind, name, count) ==
  /\ Touch
  /\ dialog' = [kind |-> kind, name |-> name, count |-> count, clicked |-> FALSE, mine |-> TRUE]
  /\ UNCHANGED <<files, stars, screen, list, entry, views, counted, timers, late>>

\* From the popup of a row.
AskDelete(i) == row[i].name # NoName /\ OpenDialog("delete", row[i].name, 1)
AskRename(i) == row[i].name # NoName /\ OpenDialog("rename", row[i].name, 0)

\* Mutant of AskDeleteUnstarred: the count is that of all files.
AskDeleteAll == OpenDialog("bulk", NoName, Cardinality(DOMAIN dir))

\* "Delete un-starred files?", and how many that is.
AskDeleteUnstarred == OpenDialog("bulk", NoName, Cardinality(Unstarred))

Cancel ==
  /\ dialog # NoDialog /\ ~dialog.clicked /\ screen = "resumed"
  /\ dialog' = NoDialog
  /\ UNCHANGED <<files, stars, screen, list, entry, views, counted, timers, touches, late>>

\* The button of the dialog sends its message, which is handled later.
Click ==
  /\ dialog # NoDialog /\ ~dialog.clicked /\ screen = "resumed"
  /\ dialog' = [dialog EXCEPT !.clicked = TRUE]
  /\ UNCHANGED <<files, stars, screen, list, entry, views, counted, timers, touches, late>>

-----------------------------------------------------------------------------
(* What the dialogs do.  The activity may have been paused or destroyed meanwhile. *)

OnClick(kind) ==
  /\ screen # "crashed"
  /\ dialog.kind = kind /\ dialog.clicked
  /\ dialog' = NoDialog
  /\ late' = (late \/ screen # "resumed" \/ ~dialog.mine)
  /\ UNCHANGED <<stars, screen, touches>>

\* The directory becomes d, and the instance that asked lists it.  The refreshing of
\* one that is destroyed is seen only in late.
Become(d, old) ==
  /\ dir' = d
  /\ UNCHANGED stamps
  /\ IF dialog.mine
     THEN Relist(d, old) /\ PostListTask(listTasks)
     ELSE UNCHANGED <<list, entry, views, listTasks>>

\* A file that is unlinked while it is written takes the log with it.
Unlink(gone) == log' = IF log \in gone THEN NoName ELSE log

DeleteFile ==
  /\ OnClick("delete")
  /\ Become(Restrict(dir, DOMAIN dir \ {dialog.name}), entry)
  /\ Unlink({dialog.name})
  /\ counted' = FALSE
  /\ UNCHANGED usageTask

\* renameTo replaces a file that has the new name; a log that is written follows its
\* file.  setDirty makes the entry dirty, which is still in the list if the renaming failed.
Rename(to) ==
  /\ OnClick("rename")
  /\ LET from == dialog.name
         moves == from \in DOMAIN dir /\ to # from
         at(m) == IF moves /\ m = to THEN from ELSE m
         names == IF moves THEN (DOMAIN dir \ {from}) \cup {to} ELSE DOMAIN dir
         dirtied == [n \in DOMAIN entry |->
                       IF n = from THEN [entry[n] EXCEPT !.time = 0, !.dirty = TRUE] ELSE entry[n]]
     IN /\ Become([m \in names |-> dir[at(m)]], dirtied)
        /\ log' = CASE moves /\ log = from -> to
                    [] moves /\ log = to   -> NoName
                    [] OTHER               -> log
  /\ counted' = FALSE
  /\ UNCHANGED usageTask

\* The usage is counted again too.
DeleteUnstarred ==
  /\ OnClick("bulk")
  /\ Become(Restrict(dir, DOMAIN dir \ Unstarred), entry)
  /\ Unlink(Unstarred)
  /\ IF dialog.mine
     THEN PopulateUsage
     ELSE counted' = FALSE /\ UNCHANGED usageTask

-----------------------------------------------------------------------------
Next ==
  \/ \E n \in Names : StartLog(n)
  \/ WriteLog \/ StopLog
  \/ Open \/ OnPause \/ OnResume \/ Turn \/ Finish
  \/ ListTask \/ UsageTask \/ Layout \/ ShowDetails
  \/ \E i \in Rows : ToggleStar(i) \/ AskDelete(i) \/ AskRename(i)
  \/ AskDeleteUnstarred \/ Cancel \/ Click
  \/ DeleteFile \/ DeleteUnstarred
  \/ \E to \in Names : Rename(to)

Spec == Init /\ [][Next]_vars

\* Tasks that are posted run, those with a delay too, and a layout that is asked for comes.
FairSpec ==
  Spec /\ WF_vars(ListTask) /\ WF_vars(UsageTask) /\ WF_vars(Layout) /\ WF_vars(ShowDetails)

-----------------------------------------------------------------------------
(* Properties. *)

File == [stamp : 1 .. MaxStamps, kept : Names \cup {NoName}]
FileEntry == [time : 0 .. MaxStamps, dirty : BOOLEAN, small : Text \ {Unmade}]
Dialog == [kind : {"none", "bulk", "delete", "rename"}, name : Names \cup {NoName},
           count : 0 .. Cardinality(Names), clicked : BOOLEAN, mine : BOOLEAN]

\* Every variable keeps its type; the list has each of its entries once.
TypeOK ==
  /\ \E S \in SUBSET Names : dir \in [S -> File]
  /\ stamps \in 0 .. MaxStamps
  /\ log \in DOMAIN dir \cup {NoName}
  /\ stars \subseteq Names
  /\ screen \in {"none", "resumed", "paused", "crashed"}
  /\ \E S \in SUBSET Names : entry \in [S -> FileEntry] /\ list \in SetToSeqs(S)
  /\ row \in [Rows -> [name : Names \cup {NoName}, star : BOOLEAN, text : Text]]
  /\ laidOut \in BOOLEAN
  /\ posted \in Seq([row : Rows, name : Names, live : BOOLEAN])
  /\ counted \in BOOLEAN
  /\ listTasks \in Nat
  /\ usageTask \in BOOLEAN
  /\ dialog \in Dialog
  /\ touches \in 0 .. MaxTouches
  /\ late \in BOOLEAN

\* However dialogs, pauses and resumes follow each other, the list never refreshes in
\* two chains, and nothing refreshes behind another screen, unless a click was handled
\* after onPause.
RefreshesOnce ==
  /\ listTasks <= 1
  /\ screen # "resumed" /\ ~late => listTasks = 0 /\ ~usageTask

\* One chain of refreshing at most, of lists that have each file once.
OneChain == TypeOK /\ RefreshesOnce

Truthful ==
  /\ {row[i].name : i \in Rows} \ {NoName} = DOMAIN dir
  /\ \A i \in Rows : row[i].name # NoName =>
       /\ row[i].star = (row[i].name \in stars)
       /\ row[i].text = Packets(dir[row[i].name].stamp)
  /\ counted

\* A file manager that stays up comes to show the files there are, each with its star
\* and the count of what is in it, and the storage they use, whichever logs were
\* written, renamed onto each other and deleted while rows were bound and counts on
\* their way.
ScreenSettles == <>[](screen = "resumed") => <>[]Truthful

DeletesUnstarred == dialog.kind = "bulk" /\ dialog.clicked /\ dialog'.kind # "bulk"

\* "n files will be deleted": so many are, whatever came between question and answer.
DeletesAsAnnounced ==
  [][DeletesUnstarred => Cardinality(DOMAIN dir) = Cardinality(DOMAIN dir') + dialog.count]_vars

\* Deleting the un-starred files spares every file that was starred under the name it
\* has, through all that became of other files of that name but the star's removal.
StarredInPlaceSurvives ==
  [][DeletesUnstarred =>
       \A n \in DOMAIN dir : dir[n].kept = n => n \in DOMAIN dir' /\ dir'[n] = dir[n]]_vars

\* The deletion that the user is asked about deletes what was announced, and no file that
\* was starred under its name, whatever happened between the question and the answer.
DeletesAsAsked == DeletesAsAnnounced /\ StarredInPlaceSurvives
=============================================================================
