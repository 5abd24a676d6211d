------------------------- MODULE FileManagerProofs -------------------------
(***************************************************************************)
(* Proofs about the file manager, for any names, bounds and orders of the  *)
(* list: its state keeps its shape, the list refreshes in one chain that   *)
(* ends with the screen, and deleting the un-starred files deletes what    *)
(* was announced and spares what was starred.                              *)
(*                                                                         *)
(* The number in the question stays right as no file comes, goes, moves or *)
(* is starred while the question is on the screen or its answer under way. *)
(*                                                                         *)
(* Also, for any file, what is read of it fits the buffer that it is read  *)
(* into, by the file manager's count of its packets and by every other     *)
(* program: the state is that the file is made of words and blocks, and    *)
(* that a pcap_t has a buffer, or is at a block of the file.               *)
(***************************************************************************)
EXTENDS FileManager, Savefile, FiniteSetTheorems, SequenceTheorems, TLAPS

-----------------------------------------------------------------------------
(* The type invariant, by what the actions change together. *)

FilesType ==
  /\ DOMAIN dir \subseteq Names
  /\ dir \in [DOMAIN dir -> File]
  /\ stamps \in 0 .. MaxStamps
  /\ log \in DOMAIN dir \cup {NoName}
  /\ stars \subseteq Names

\* An order of the entries.
IsList(l, e) ==
  /\ DOMAIN e \subseteq Names
  /\ e \in [DOMAIN e -> FileEntry]
  /\ l \in SetToSeqs(DOMAIN e)

ListType == IsList(list, entry)

RowType == [name : Names \cup {NoName}, star : BOOLEAN, text : Text]
TaskType == [row : Rows, name : Names, live : BOOLEAN]

ViewsType ==
  /\ row \in [Rows -> RowType]
  /\ laidOut \in BOOLEAN
  /\ posted \in Seq(TaskType)

ScreenType ==
  /\ screen \in {"none", "resumed", "paused", "crashed"}
  /\ counted \in BOOLEAN
  /\ listTasks \in Nat
  /\ usageTask \in BOOLEAN
  /\ late \in BOOLEAN

UserType ==
  /\ dialog \in Dialog
  /\ touches \in 0 .. MaxTouches

LEMMA TypeParts ==
  /\ TypeOK <=> FilesType /\ ListType /\ ViewsType /\ ScreenType /\ UserType
  /\ TypeOK' <=> (FilesType /\ ListType /\ ViewsType /\ ScreenType /\ UserType)'
<1>1. ASSUME NEW d
      PROVE  (\E S \in SUBSET Names : d \in [S -> File])
             <=> DOMAIN d \subseteq Names /\ d \in [DOMAIN d -> File]
  OBVIOUS
<1>2. ASSUME NEW e, NEW l
      PROVE  (\E S \in SUBSET Names : e \in [S -> FileEntry] /\ l \in SetToSeqs(S))
             <=> IsList(l, e)
  <2>1. ASSUME NEW S \in SUBSET Names, e \in [S -> FileEntry], l \in SetToSeqs(S)
        PROVE  IsList(l, e)
    <3>1. DOMAIN e = S
      BY <2>1
    <3>2. QED
      BY <2>1, <3>1 DEF IsList
  <2>2. QED
    BY <2>1 DEF IsList
<1>3. TypeOK <=> FilesType /\ ListType /\ ViewsType /\ ScreenType /\ UserType
  BY <1>1, <1>2
     DEF TypeOK, FilesType, ListType, ViewsType, ScreenType, UserType, RowType, TaskType
<1>4. TypeOK' <=> (FilesType /\ ListType /\ ViewsType /\ ScreenType /\ UserType)'
  BY <1>1, <1>2
     DEF TypeOK, FilesType, ListType, ViewsType, ScreenType, UserType, RowType, TaskType
<1> QED
  BY <1>3, <1>4

-----------------------------------------------------------------------------
(* Lists. *)

\* The number of rows.
LEMMA RowsAreEnough ==
  /\ Cardinality(Names) \in Nat
  /\ \A S \in SUBSET Names : /\ IsFiniteSet(S)
                             /\ Cardinality(S) \in 0 .. Cardinality(Names)
                             /\ 1 .. Cardinality(S) \subseteq Rows
<1>1. Cardinality(Names) \in Nat
  BY FileAssumption, FS_CardinalityType
<1>2. ASSUME NEW S \in SUBSET Names
      PROVE  /\ IsFiniteSet(S)
             /\ Cardinality(S) \in 0 .. Cardinality(Names)
  <2>1. IsFiniteSet(S) /\ Cardinality(S) <= Cardinality(Names)
    BY FileAssumption, FS_Subset
  <2>2. QED
    BY <1>1, <2>1, FS_CardinalityType
<1> QED
  BY <1>1, <1>2 DEF Rows

\* Each place of a list is a row, and has a name.
LEMMA ListPlaces ==
  ASSUME NEW l, NEW S \in SUBSET Names, l \in SetToSeqs(S)
  PROVE  /\ l \in [1 .. Cardinality(S) -> S]
         /\ DOMAIN l = 1 .. Cardinality(S)
         /\ Len(l) = Cardinality(S)
         /\ DOMAIN l \subseteq Rows
         /\ \A i \in DOMAIN l : l[i] \in S
<1>1. l \in [1 .. Cardinality(S) -> S]
  BY DEF SetToSeqs
<1>2. Cardinality(S) \in Nat
  BY RowsAreEnough
<1> QED
  BY <1>1, <1>2, RowsAreEnough

\* A list has all the entries.
LEMMA ListIsWhole ==
  ASSUME NEW l, NEW S \in SUBSET Names, l \in SetToSeqs(S)
  PROVE  ToSet(l) = S
<1>1. l \in [1 .. Cardinality(S) -> S]
  BY ListPlaces
<1>2. Cardinality(S) \in Nat /\ IsFiniteSet(S)
  BY RowsAreEnough
<1>3. l \in Injection(1 .. Cardinality(S), S)
  BY <1>1 DEF SetToSeqs, Injection, IsInjective
<1>4. Cardinality(1 .. Cardinality(S)) = Cardinality(S)
  BY <1>2, FS_Interval
<1>5. l \in Surjection(1 .. Cardinality(S), S)
  BY <1>2, <1>3, <1>4, FS_Injection
<1> QED
  BY <1>1, <1>5 DEF Surjection, ToSet

\* The empty function, list and directory.
LEMMA NoEntries ==
  /\ <<>> \in [{} -> FileEntry]
  /\ <<>> \in [{} -> File]
  /\ DOMAIN <<>> = {}
  /\ <<>> \in SetToSeqs({})
<1>1. <<>> = [x \in {} |-> x]
  OBVIOUS
<1>2. 1 .. Cardinality({}) = {}
  BY FS_EmptySet
<1> QED
  BY <1>1, <1>2 DEF SetToSeqs

\* The entry of a file, old or new.
LEMMA EntryIsTyped ==
  ASSUME NEW d, d \in [DOMAIN d -> File], NEW n \in DOMAIN d,
         NEW old, old \in [DOMAIN old -> FileEntry]
  PROVE  EntryOf(n, d, old) \in FileEntry
<1>1. d[n].stamp \in 1 .. MaxStamps
  BY DEF File
<1>2. d[n].stamp \in 0 .. MaxStamps
  BY <1>1, FileAssumption
<1>3. CASE n \in DOMAIN old
  BY <1>2, <1>3 DEF EntryOf, FileEntry
<1>4. CASE n \notin DOMAIN old
  <2>1. Fetching \in Text \ {Unmade}
    BY DEF Text, Fetching, Unmade
  <2>2. QED
    BY <1>2, <1>4, <2>1 DEF EntryOf, FileEntry
<1> QED
  BY <1>3, <1>4

\* Listing a directory leaves a list of what is in it.
LEMMA ListedIsList ==
  ASSUME ListType,
         NEW d, DOMAIN d \subseteq Names, d \in [DOMAIN d -> File],
         NEW old, old \in [DOMAIN old -> FileEntry],
         List(d, old)
  PROVE  ListType' /\ laidOut' \in BOOLEAN
<1>1. DOMAIN entry' = DOMAIN d /\ entry' \in [DOMAIN d -> FileEntry]
  BY EntryIsTyped DEF List
<1>2. list' \in SetToSeqs(DOMAIN d)
  <2>1. list' \in Orders(DOMAIN d)
    BY DEF List
  <2>2. CASE ToSet(list) = DOMAIN d
    <3>1. ToSet(list) = DOMAIN entry
      BY ListIsWhole DEF ListType, IsList
    <3>2. QED
      BY <2>1, <2>2, <3>1 DEF Orders, ListType, IsList
  <2>3. QED
    BY <2>1, <2>2 DEF Orders
<1>3. laidOut' \in BOOLEAN
  BY DEF List
<1> QED
  BY <1>1, <1>2, <1>3 DEF ListType, IsList

LEMMA RelistedIsTyped ==
  ASSUME ListType, ViewsType,
         NEW d, DOMAIN d \subseteq Names, d \in [DOMAIN d -> File],
         NEW old, old \in [DOMAIN old -> FileEntry],
         Relist(d, old)
  PROVE  ListType' /\ ViewsType'
<1>1. ListType' /\ laidOut' \in BOOLEAN
  BY ListedIsList DEF Relist
<1>2. posted' \in Seq(TaskType)
  <2>1. Len(posted) \in Nat /\ DOMAIN posted = 1 .. Len(posted)
    BY DEF ViewsType
  <2>2. \A t \in 1 .. Len(posted) :
          [posted[t] EXCEPT !.live = @ /\ posted[t].name \in DOMAIN d] \in TaskType
    <3> TAKE t \in 1 .. Len(posted)
    <3>1. posted[t] \in TaskType
      BY DEF ViewsType
    <3>2. (posted[t].live /\ posted[t].name \in DOMAIN d) \in BOOLEAN
      OBVIOUS
    <3>3. QED
      BY <3>1, <3>2 DEF TaskType
  <2>3. QED
    BY <2>1, <2>2 DEF Relist
<1>3. row' = row
  BY DEF Relist
<1> QED
  BY <1>1, <1>2, <1>3 DEF ViewsType

\* A new instance lists anew, into rows that were not made.
LEMMA StartIsTyped ==
  ASSUME FilesType, ListType, Start
  PROVE  ListType' /\ ViewsType'
<1>1. <<>> \in [DOMAIN <<>> -> FileEntry]
  BY NoEntries
<1>2. ListType' /\ laidOut' \in BOOLEAN
  BY <1>1, ListedIsList DEF Start, FilesType
<1>3. row' \in [Rows -> RowType]
  <2>1. Unmade \in Text
    BY DEF Text
  <2>2. QED
    BY <2>1 DEF Start, NoRows, RowType
<1>4. posted' \in Seq(TaskType)
  BY DEF Start
<1> QED
  BY <1>2, <1>3, <1>4 DEF ViewsType

-----------------------------------------------------------------------------
(* The directory. *)

\* What is left of the directory is a directory.
LEMMA RestrictedIsTyped ==
  ASSUME FilesType, NEW S \in SUBSET Names
  PROVE  /\ DOMAIN Restrict(dir, DOMAIN dir \ S) = DOMAIN dir \ S
         /\ Restrict(dir, DOMAIN dir \ S) \in [DOMAIN dir \ S -> File]
         /\ \A n \in DOMAIN dir \ S : Restrict(dir, DOMAIN dir \ S)[n] = dir[n]
BY DEF FilesType, Restrict

\* A file is moved onto the name to.
Moves(to) == dialog.name \in DOMAIN dir /\ to # dialog.name

Moved(to) ==
  [m \in IF Moves(to) THEN (DOMAIN dir \ {dialog.name}) \cup {to} ELSE DOMAIN dir |->
     dir[IF Moves(to) /\ m = to THEN dialog.name ELSE m]]

LEMMA MovedIsTyped ==
  ASSUME FilesType, NEW to \in Names
  PROVE  /\ DOMAIN Moved(to) \subseteq Names
         /\ Moved(to) \in [DOMAIN Moved(to) -> File]
BY DEF FilesType, Moved, Moves

Dirtied ==
  [n \in DOMAIN entry |->
     IF n = dialog.name THEN [entry[n] EXCEPT !.time = 0, !.dirty = TRUE] ELSE entry[n]]

LEMMA DirtiedIsTyped ==
  ASSUME ListType
  PROVE  DOMAIN Dirtied = DOMAIN entry /\ Dirtied \in [DOMAIN entry -> FileEntry]
<1>1. \A n \in DOMAIN entry : entry[n] \in FileEntry
  BY DEF ListType, IsList
<1>2. 0 \in 0 .. MaxStamps
  BY FileAssumption
<1> QED
  BY <1>1, <1>2 DEF Dirtied, FileEntry

\* What Rename does, in these words.
LEMMA RenameMeans ==
  ASSUME NEW to \in Names, Rename(to)
  PROVE  /\ OnClick("rename")
         /\ Become(Moved(to), Dirtied)
         /\ log' = CASE Moves(to) /\ log = dialog.name -> to
                     [] Moves(to) /\ log = to          -> NoName
                     [] OTHER                          -> log
         /\ counted' = FALSE /\ UNCHANGED usageTask
BY DEF Rename, Moved, Moves, Dirtied

LEMMA FilesStep ==
  ASSUME TypeOK, [Next]_vars
  PROVE  FilesType'
<1>1. FilesType /\ ListType /\ dialog \in Dialog
  BY TypeParts DEF UserType
<1>2. CASE UNCHANGED <<files, stars>>
  BY <1>1, <1>2 DEF FilesType, files
<1>3. ASSUME NEW n \in Names, StartLog(n)
      PROVE  FilesType'
  <2>1. stamps + 1 \in 0 .. MaxStamps /\ stamps + 1 \in 1 .. MaxStamps
    BY <1>1, <1>3, FileAssumption DEF StartLog, FilesType
  <2>2. [stamp |-> stamps + 1, kept |-> NoName] \in File
    BY <2>1 DEF File
  <2>3. QED
    BY <1>1, <1>3, <2>1, <2>2 DEF StartLog, FilesType
<1>4. CASE WriteLog
  <2>1. stamps + 1 \in 0 .. MaxStamps /\ stamps + 1 \in 1 .. MaxStamps
    BY <1>1, <1>4, FileAssumption DEF WriteLog, FilesType
  <2>2. log \in DOMAIN dir /\ dir[log] \in File
    BY <1>1, <1>4 DEF WriteLog, FilesType
  <2>3. [dir[log] EXCEPT !.stamp = stamps + 1] \in File
    BY <2>1, <2>2 DEF File
  <2>4. dir' = [dir EXCEPT ![log] = [dir[log] EXCEPT !.stamp = stamps + 1]]
    BY <1>4 DEF WriteLog
  <2>5. QED
    BY <1>1, <1>4, <2>1, <2>2, <2>3, <2>4 DEF WriteLog, FilesType
<1>5. CASE StopLog
  BY <1>1, <1>5 DEF StopLog, FilesType
<1>6. ASSUME NEW i \in Rows, ToggleStar(i)
      PROVE  FilesType'
  <2>1. row[i].name \in Names
    BY <1>6, TypeParts DEF ToggleStar, ViewsType, RowType
  <2>2. \A m \in DOMAIN dir : /\ dir[m] \in File
                              /\ [dir[m] EXCEPT !.kept = row[i].name] \in File
                              /\ [dir[m] EXCEPT !.kept = NoName] \in File
    BY <1>1, <2>1 DEF FilesType, File
  <2>3. /\ DOMAIN dir' = DOMAIN dir
        /\ \A m \in DOMAIN dir : dir'[m] \in {dir[m], [dir[m] EXCEPT !.kept = row[i].name],
                                              [dir[m] EXCEPT !.kept = NoName]}
        /\ dir' = [m \in DOMAIN dir |-> dir'[m]]
    BY <1>6 DEF ToggleStar
  <2>4. dir' \in [DOMAIN dir -> File]
    BY <2>2, <2>3
  <2>5. stars' \subseteq Names /\ UNCHANGED <<stamps, log>>
    BY <1>1, <1>6, <2>1 DEF ToggleStar, FilesType
  <2>6. QED
    BY <1>1, <2>3, <2>4, <2>5 DEF FilesType
<1>7. ASSUME NEW gone \in SUBSET Names,
             dir' = Restrict(dir, DOMAIN dir \ gone), Unlink(gone), UNCHANGED <<stamps, stars>>
      PROVE  FilesType'
  <2>1. DOMAIN dir' = DOMAIN dir \ gone /\ dir' \in [DOMAIN dir \ gone -> File]
    BY <1>1, <1>7, RestrictedIsTyped
  <2>2. log' \in (DOMAIN dir \ gone) \cup {NoName}
    BY <1>1, <1>7 DEF FilesType, Unlink
  <2>3. DOMAIN dir' \subseteq Names
    BY <1>1, <2>1 DEF FilesType
  <2>4. QED
    BY <1>1, <1>7, <2>1, <2>2, <2>3 DEF FilesType
<1>8. CASE DeleteFile
  <2>1. DOMAIN dir \ {dialog.name} = DOMAIN dir \ ({dialog.name} \cap Names)
    BY <1>1 DEF FilesType
  <2>2. log' = IF log = dialog.name THEN NoName ELSE log
    BY <1>8 DEF DeleteFile, Unlink
  <2>3. Unlink({dialog.name} \cap Names)
    <3>1. log \in Names \/ log = NoName
      BY <1>1 DEF FilesType
    <3>2. QED
      BY <2>2, <3>1 DEF Unlink
  <2>4. QED
    BY <1>7, <1>8, <2>1, <2>3 DEF DeleteFile, Become, OnClick
<1>9. CASE DeleteUnstarred
  BY <1>1, <1>7, <1>9 DEF DeleteUnstarred, Become, OnClick, Unstarred, FilesType
<1>10. ASSUME NEW to \in Names, Rename(to)
       PROVE  FilesType'
  <2>1. dir' = Moved(to) /\ UNCHANGED <<stamps, stars>>
    BY <1>10, RenameMeans DEF Become, OnClick
  <2>2. log' \in DOMAIN Moved(to) \cup {NoName}
    BY <1>1, <1>10, RenameMeans DEF FilesType, Moved, Moves
  <2>3. QED
    BY <1>1, <2>1, <2>2, MovedIsTyped DEF FilesType
<1> QED
  <2>1. CASE Open \/ OnPause \/ OnResume \/ Turn \/ Finish \/ UNCHANGED vars
    BY <1>2, <2>1 DEF Open, OnPause, OnResume, Turn, Finish, vars, files
  <2>2. CASE ListTask \/ UsageTask \/ Layout \/ ShowDetails \/ AskDeleteUnstarred \/ Cancel \/ Click
    BY <1>2, <2>2 DEF ListTask, UsageTask, Layout, ShowDetails, AskDeleteUnstarred, OpenDialog,
                      Cancel, Click, files
  <2>3. CASE \E i \in Rows : AskDelete(i) \/ AskRename(i)
    BY <1>2, <2>3 DEF AskDelete, AskRename, OpenDialog, files
  <2>4. QED
    BY <1>3, <1>4, <1>5, <1>6, <1>8, <1>9, <1>10, <2>1, <2>2, <2>3 DEF Next

-----------------------------------------------------------------------------
(* The list and its views. *)

LEMMA BecomeIsTyped ==
  ASSUME FilesType, ListType, ViewsType,
         NEW d, DOMAIN d \subseteq Names, d \in [DOMAIN d -> File],
         NEW old, old \in [DOMAIN old -> FileEntry],
         Become(d, old)
  PROVE  ListType' /\ ViewsType'
<1>1. CASE dialog.mine
  BY <1>1, RelistedIsTyped DEF Become
<1>2. CASE ~dialog.mine
  BY <1>2 DEF Become, ListType, ViewsType, views
<1> QED
  BY <1>1, <1>2

\* Binding the rows asks for details of some of them, from the top downwards.
LEMMA LayoutIsTyped ==
  ASSUME ListType, ViewsType, Layout
  PROVE  ListType' /\ ViewsType'
<1>1. /\ DOMAIN entry \subseteq Names
      /\ \A n \in DOMAIN entry : entry[n] \in FileEntry
      /\ DOMAIN list = 1 .. Len(list) /\ DOMAIN list \subseteq Rows
      /\ \A i \in DOMAIN list : list[i] \in DOMAIN entry
  BY ListPlaces, RowsAreEnough DEF ListType, IsList
<1>2. ListType'
  <2>1. \A n \in DOMAIN entry :
          [entry[n] EXCEPT !.dirty = @ /\ \E i \in DOMAIN list :
                                            list[i] = n /\ row[i].text = Unmade] \in FileEntry
    <3> TAKE n \in DOMAIN entry
    <3>1. (entry[n].dirty /\ \E i \in DOMAIN list : list[i] = n /\ row[i].text = Unmade) \in BOOLEAN
      OBVIOUS
    <3>2. entry[n] \in FileEntry
      BY <1>1
    <3>3. QED
      BY <3>1, <3>2 DEF FileEntry
  <2>2. DOMAIN entry' = DOMAIN entry /\ entry' \in [DOMAIN entry -> FileEntry] /\ list' = list
    BY <2>1 DEF Layout
  <2>3. QED
    BY <2>2 DEF ListType, IsList
<1>3. row' \in [Rows -> RowType]
  <2>1. \A i \in Rows : i <= Len(list) => i \in DOMAIN list
    BY <1>1, ListPlaces, RowsAreEnough DEF Rows, ListType, IsList
  <2>2. \A i \in DOMAIN list :
          [name |-> list[i], star |-> list[i] \in stars, text |-> entry[list[i]].small] \in RowType
    BY <1>1 DEF RowType, FileEntry
  <2>3. \A i \in Rows : [row[i] EXCEPT !.name = NoName] \in RowType
    BY DEF ViewsType, RowType
  <2>4. QED
    BY <2>1, <2>2, <2>3 DEF Layout
<1>4. posted' \in Seq(TaskType)
  <2>1. PICK wanting \in TopDown({i \in DOMAIN list : Wants(i)}) :
          posted' = posted \o [t \in DOMAIN wanting |->
                                 [row |-> wanting[t], name |-> list[wanting[t]], live |-> TRUE]]
    BY DEF Layout
  <2> DEFINE P == {i \in DOMAIN list : Wants(i)}
  <2>2. wanting \in [1 .. Cardinality(P) -> P]
    BY DEF TopDown, SetToSeqs
  <2>3. Cardinality(P) \in Nat
    <3>1. P \subseteq 1 .. Cardinality(Names)
      BY <1>1 DEF Rows
    <3>2. IsFiniteSet(1 .. Cardinality(Names))
      BY RowsAreEnough, FS_Interval
    <3>3. IsFiniteSet(P)
      BY <3>1, <3>2, FS_Subset
    <3>4. QED
      BY <3>3, FS_CardinalityType
  <2>4. \A t \in 1 .. Cardinality(P) :
          [row |-> wanting[t], name |-> list[wanting[t]], live |-> TRUE] \in TaskType
    BY <1>1, <2>2 DEF TaskType
  <2>5. DOMAIN wanting = 1 .. Cardinality(P)
    BY <2>2
  <2> HIDE DEF P
  <2>6. [t \in DOMAIN wanting |->
           [row |-> wanting[t], name |-> list[wanting[t]], live |-> TRUE]] \in Seq(TaskType)
    BY <2>3, <2>4, <2>5
  <2>7. QED
    BY <2>1, <2>6 DEF ViewsType
<1>5. laidOut' \in BOOLEAN
  BY DEF Layout
<1> QED
  BY <1>2, <1>3, <1>4, <1>5 DEF ViewsType

LEMMA ShowDetailsIsTyped ==
  ASSUME FilesType, ListType, ViewsType, ShowDetails
  PROVE  ListType' /\ ViewsType'
<1> DEFINE task == Head(posted)
           details == IF task.name \in DOMAIN dir THEN Packets(dir[task.name].stamp) ELSE Error
<1>1. task \in TaskType /\ Tail(posted) \in Seq(TaskType)
  BY DEF ShowDetails, ViewsType
<1>2. details \in Text /\ details # Unmade
  <2>1. \A n \in DOMAIN dir : dir[n].stamp \in 1 .. MaxStamps
    BY DEF FilesType, File
  <2>2. QED
    BY <2>1 DEF Text, Packets, Error, Unmade
<1>3. /\ row' = [row EXCEPT ![task.row].text = details]
      /\ entry' = IF task.live THEN [entry EXCEPT ![task.name].small = details] ELSE entry
      /\ posted' = Tail(posted) /\ UNCHANGED <<list, laidOut>>
  BY DEF ShowDetails
<1> HIDE DEF task, details
<1>4. row' \in [Rows -> RowType]
  <2>1. task.row \in Rows /\ row[task.row] \in RowType
    BY <1>1 DEF TaskType, ViewsType
  <2>2. [row[task.row] EXCEPT !.text = details] \in RowType
    BY <1>2, <2>1 DEF RowType
  <2>3. row' = [row EXCEPT ![task.row] = [row[task.row] EXCEPT !.text = details]]
    BY <1>3
  <2>4. QED
    BY <2>1, <2>2, <2>3 DEF ViewsType
<1>5. ListType'
  <2>1. CASE task.live /\ task.name \in DOMAIN entry
    <3>1. [entry[task.name] EXCEPT !.small = details] \in FileEntry
      BY <1>2, <2>1 DEF ListType, IsList, FileEntry
    <3>2. entry' = [entry EXCEPT ![task.name] = [entry[task.name] EXCEPT !.small = details]]
      BY <1>3, <2>1
    <3>3. DOMAIN entry' = DOMAIN entry /\ entry' \in [DOMAIN entry -> FileEntry]
      BY <3>1, <3>2 DEF ListType, IsList
    <3>4. QED
      BY <1>3, <3>3 DEF ListType, IsList
  <2>2. CASE ~(task.live /\ task.name \in DOMAIN entry)
    <3>1. entry' = entry
      BY <1>3, <2>2 DEF ListType, IsList
    <3>2. QED
      BY <1>3, <3>1 DEF ListType, IsList
  <2>3. QED
    BY <2>1, <2>2
<1> QED
  BY <1>1, <1>3, <1>4, <1>5 DEF ViewsType

LEMMA ViewsStep ==
  ASSUME TypeOK, [Next]_vars
  PROVE  ListType' /\ ViewsType'
<1>1. FilesType /\ ListType /\ ViewsType
  BY TypeParts
<1>2. /\ DOMAIN dir \subseteq Names /\ dir \in [DOMAIN dir -> File]
      /\ entry \in [DOMAIN entry -> FileEntry]
  BY <1>1 DEF FilesType, ListType, IsList
<1>3. CASE UNCHANGED <<list, entry, views>>
  BY <1>1, <1>3 DEF ListType, ViewsType, views
<1>4. CASE ListTask \/ OnResume
  BY <1>1, <1>2, <1>4, RelistedIsTyped DEF ListTask, OnResume
<1>5. CASE Start
  BY <1>1, <1>5, StartIsTyped
<1>6. CASE Open \/ Turn
  BY <1>3, <1>5, <1>6 DEF Open, Turn
<1>7. CASE Finish
  <2>1. ListType'
    BY <1>7, NoEntries DEF Finish, ListType, IsList
  <2>2. NoRows \in [Rows -> RowType]
    BY DEF NoRows, RowType, Text
  <2>3. QED
    BY <1>7, <2>1, <2>2 DEF Finish, ViewsType
<1>8. CASE Layout
  BY <1>1, <1>8, LayoutIsTyped
<1>9. CASE ShowDetails
  BY <1>1, <1>9, ShowDetailsIsTyped
<1>10. ASSUME NEW i \in Rows, ToggleStar(i)
       PROVE  ListType' /\ ViewsType'
  <2>1. row' = [row EXCEPT ![i] = [row[i] EXCEPT !.star = row[i].name \notin stars]]
    BY <1>10 DEF ToggleStar
  <2>2. [row[i] EXCEPT !.star = row[i].name \notin stars] \in RowType
    BY <1>1 DEF ViewsType, RowType
  <2>3. row' \in [Rows -> RowType]
    BY <1>1, <2>1, <2>2 DEF ViewsType
  <2>4. QED
    BY <1>1, <1>10, <2>3 DEF ToggleStar, ListType, ViewsType
<1>11. ASSUME NEW S \in SUBSET Names, Become(Restrict(dir, DOMAIN dir \ S), entry)
       PROVE  ListType' /\ ViewsType'
  <2>1. /\ DOMAIN Restrict(dir, DOMAIN dir \ S) \subseteq Names
        /\ Restrict(dir, DOMAIN dir \ S) \in [DOMAIN Restrict(dir, DOMAIN dir \ S) -> File]
    BY <1>1, <1>2, RestrictedIsTyped
  <2>2. QED
    BY <1>1, <1>2, <1>11, <2>1, BecomeIsTyped
<1>12. CASE DeleteFile
  <2>1. DOMAIN dir \ {dialog.name} = DOMAIN dir \ ({dialog.name} \cap Names)
    BY <1>2
  <2>2. QED
    BY <1>11, <1>12, <2>1 DEF DeleteFile
<1>13. CASE DeleteUnstarred
  BY <1>2, <1>11, <1>13 DEF DeleteUnstarred, Unstarred
<1>14. ASSUME NEW to \in Names, Rename(to)
       PROVE  ListType' /\ ViewsType'
  <2>1. Become(Moved(to), Dirtied)
    BY <1>14, RenameMeans
  <2>2. DOMAIN Moved(to) \subseteq Names /\ Moved(to) \in [DOMAIN Moved(to) -> File]
    BY <1>1, MovedIsTyped
  <2>3. Dirtied \in [DOMAIN Dirtied -> FileEntry]
    BY <1>1, DirtiedIsTyped
  <2>4. QED
    BY <1>1, <2>1, <2>2, <2>3, BecomeIsTyped
<1> QED
  <2>1. CASE (\E n \in Names : StartLog(n)) \/ WriteLog \/ StopLog \/ OnPause \/ UsageTask \/ UNCHANGED vars
    BY <1>3, <2>1 DEF StartLog, WriteLog, StopLog, OnPause, UsageTask, vars
  <2>2. CASE AskDeleteUnstarred \/ Cancel \/ Click \/ \E i \in Rows : AskDelete(i) \/ AskRename(i)
    BY <1>3, <2>2 DEF AskDeleteUnstarred, AskDelete, AskRename, OpenDialog, Cancel, Click
  <2>3. QED
    BY <1>4, <1>6, <1>7, <1>8, <1>9, <1>10, <1>12, <1>13, <1>14, <2>1, <2>2 DEF Next

-----------------------------------------------------------------------------
(* The screen, the timers and the user. *)

LEMMA BecomeKeepsChain ==
  ASSUME NEW d, NEW old, Become(d, old)
  PROVE  /\ ~dialog.mine => listTasks' = listTasks
         /\ dialog.mine => listTasks' = 1
BY DEF Become, PostListTask

\* A chain of one is no more than one.
LEMMA ChainOfOne ==
  ASSUME listTasks' \in {0, 1}, screen' # "resumed" => late'
  PROVE  listTasks' \in Nat /\ RefreshesOnce'
BY DEF RefreshesOnce

LEMMA SameChain ==
  ASSUME RefreshesOnce, UNCHANGED <<screen, listTasks, usageTask, late>>
  PROVE  RefreshesOnce'
BY DEF RefreshesOnce

LEMMA RefreshStep ==
  ASSUME TypeOK, RefreshesOnce, [Next]_vars
  PROVE  ScreenType' /\ RefreshesOnce'
<1>1. ScreenType
  BY TypeParts
<1>2. CASE UNCHANGED <<screen, counted, listTasks, usageTask, late>>
  BY <1>1, <1>2 DEF ScreenType, RefreshesOnce
<1>3. CASE (\E n \in Names : StartLog(n)) \/ WriteLog
  <2>1. counted' = FALSE /\ UNCHANGED <<screen, listTasks, usageTask, late>>
    BY <1>3 DEF StartLog, WriteLog, timers
  <2>2. QED
    BY <1>1, <2>1, SameChain DEF ScreenType
<1>4. CASE StopLog \/ Layout \/ ShowDetails \/ AskDeleteUnstarred \/ Cancel \/ Click \/ UNCHANGED vars
  BY <1>2, <1>4 DEF StopLog, Layout, ShowDetails, AskDeleteUnstarred, OpenDialog, Cancel, Click,
                    timers, vars
<1>5. CASE \E i \in Rows : ToggleStar(i) \/ AskDelete(i) \/ AskRename(i)
  BY <1>2, <1>5 DEF ToggleStar, AskDelete, AskRename, OpenDialog, timers
<1>6. CASE ListTask
  <2>1. listTasks' = 1 /\ listTasks # 0 /\ UNCHANGED <<screen, counted, usageTask, late>>
    BY <1>1, <1>6 DEF ListTask, PostListTask, ScreenType
  <2>2. screen' # "resumed" => late'
    BY <2>1 DEF RefreshesOnce
  <2>3. QED
    BY <1>1, <2>1, <2>2, ChainOfOne DEF ScreenType
<1>7. CASE UsageTask
  <2>1. usageTask /\ counted' = TRUE /\ usageTask' = TRUE /\ UNCHANGED <<screen, listTasks, late>>
    BY <1>7 DEF UsageTask, PopulateUsage
  <2>2. screen' # "resumed" => late'
    BY <2>1 DEF RefreshesOnce
  <2>3. listTasks' \in {0, 1}
    BY <1>1, <2>1 DEF RefreshesOnce, ScreenType
  <2>4. QED
    BY <1>1, <2>1, <2>2, <2>3, ChainOfOne DEF ScreenType
<1>8. CASE Start /\ UNCHANGED late
  <2>1. screen' = "resumed" /\ listTasks' = 1 /\ counted' = TRUE /\ usageTask' = TRUE
    BY <1>8 DEF Start, PopulateUsage
  <2>2. QED
    BY <1>1, <1>8, <2>1, ChainOfOne DEF ScreenType
<1>9. CASE OnResume
  <2>1. screen' = "resumed" /\ listTasks' = 1 /\ counted' = TRUE /\ usageTask' = TRUE /\ UNCHANGED late
    BY <1>9 DEF OnResume, PopulateUsage, PostListTask
  <2>2. QED
    BY <1>1, <2>1, ChainOfOne DEF ScreenType
<1>10. CASE OnPause \/ Finish
  <2>1. /\ screen' \in {"none", "paused"} /\ listTasks' = 0 /\ counted' \in {counted, FALSE}
        /\ usageTask' = FALSE /\ UNCHANGED late
    BY <1>10 DEF OnPause, Finish
  <2>2. counted' \in BOOLEAN
    BY <1>1, <2>1 DEF ScreenType
  <2>3. RefreshesOnce'
    BY <2>1 DEF RefreshesOnce
  <2>4. QED
    BY <1>1, <2>1, <2>2, <2>3 DEF ScreenType
<1>11. CASE Turn /\ ~Start
  <2>1. screen = "paused" /\ screen' = "crashed" /\ UNCHANGED <<counted, listTasks, usageTask, late>>
    BY <1>11 DEF Turn, timers
  <2>2. RefreshesOnce'
    BY <2>1 DEF RefreshesOnce
  <2>3. QED
    BY <1>1, <2>1, <2>2 DEF ScreenType
<1>12. ASSUME UNCHANGED screen, counted' \in BOOLEAN, usageTask' \in BOOLEAN,
              late' = (late \/ screen # "resumed" \/ ~dialog.mine),
              ~dialog.mine => usageTask' = usageTask,
              \E d, old : Become(d, old)
       PROVE  ScreenType' /\ RefreshesOnce'
  <2>1. late' \in BOOLEAN /\ (screen' # "resumed" => late')
    BY <1>12
  <2>2. listTasks' \in {0, 1}
    <3>1. listTasks \in {0, 1}
      BY <1>1 DEF RefreshesOnce, ScreenType
    <3>2. QED
      BY <1>12, <3>1, BecomeKeepsChain
  <2>3. QED
    BY <1>1, <1>12, <2>1, <2>2, ChainOfOne DEF ScreenType
<1>13. CASE DeleteFile \/ \E to \in Names : Rename(to)
  <2>1. /\ UNCHANGED <<screen, usageTask>> /\ counted' = FALSE
        /\ late' = (late \/ screen # "resumed" \/ ~dialog.mine)
        /\ \E d, old : Become(d, old)
    BY <1>13, RenameMeans DEF DeleteFile, OnClick
  <2>2. usageTask' \in BOOLEAN
    BY <1>1, <2>1 DEF ScreenType
  <2>3. QED
    BY <1>12, <2>1, <2>2
<1>14. CASE DeleteUnstarred
  <2>1. /\ UNCHANGED screen /\ counted' \in BOOLEAN
        /\ usageTask' \in {usageTask, TRUE}
        /\ ~dialog.mine => usageTask' = usageTask
        /\ late' = (late \/ screen # "resumed" \/ ~dialog.mine)
        /\ \E d, old : Become(d, old)
    BY <1>14 DEF DeleteUnstarred, OnClick, PopulateUsage
  <2>2. usageTask' \in BOOLEAN
    BY <1>1, <2>1 DEF ScreenType
  <2>3. QED
    BY <1>12, <2>1, <2>2
<1> QED
  <2>1. CASE Open \/ OnPause \/ OnResume \/ Turn \/ Finish
    BY <1>8, <1>9, <1>10, <1>11, <2>1 DEF Open, Turn
  <2>2. QED
    BY <1>3, <1>4, <1>5, <1>6, <1>7, <1>13, <1>14, <2>1 DEF Next

LEMMA UserStep ==
  ASSUME TypeOK, [Next]_vars
  PROVE  UserType'
<1>1. UserType /\ FilesType /\ MaxTouches \in Nat
  BY TypeParts, FileAssumption
<1>2. NoDialog \in Dialog
  BY RowsAreEnough DEF NoDialog, Dialog
<1>3. CASE UNCHANGED touches /\ dialog' \in {dialog, NoDialog, Orphaned, [dialog EXCEPT !.clicked = TRUE]}
  <2>1. /\ dialog \in Dialog
        /\ [dialog EXCEPT !.clicked = TRUE] \in Dialog
        /\ [dialog EXCEPT !.mine = FALSE] \in Dialog
    BY <1>1 DEF UserType, Dialog
  <2>2. QED
    BY <1>1, <1>2, <1>3, <2>1 DEF UserType, Orphaned
<1>5. ASSUME NEW k \in {"bulk", "delete", "rename"}, NEW n \in Names \cup {NoName},
             NEW c \in 0 .. Cardinality(Names), OpenDialog(k, n, c)
      PROVE  UserType'
  <2>1. dialog' \in Dialog
    BY <1>5 DEF OpenDialog, Dialog
  <2>2. touches' \in 0 .. MaxTouches
    BY <1>1, <1>5 DEF OpenDialog, Touch, UserType
  <2>3. QED
    BY <2>1, <2>2 DEF UserType
<1>6. CASE AskDeleteUnstarred
  <2>1. Cardinality(Unstarred) \in 0 .. Cardinality(Names)
    BY <1>1, RowsAreEnough DEF Unstarred, FilesType
  <2>2. QED
    BY <1>5, <1>6, <2>1 DEF AskDeleteUnstarred
<1>7. ASSUME NEW i \in Rows, AskDelete(i) \/ AskRename(i)
      PROVE  UserType'
  <2>1. row[i].name \in Names
    BY <1>7, TypeParts DEF ViewsType, RowType, AskDelete, AskRename
  <2>2. 1 \in 0 .. Cardinality(Names) /\ 0 \in 0 .. Cardinality(Names)
    BY <1>7, RowsAreEnough DEF Rows
  <2>3. QED
    BY <1>5, <1>7, <2>1, <2>2 DEF AskDelete, AskRename
<1>8. ASSUME NEW i \in Rows, ToggleStar(i)
      PROVE  UserType'
  BY <1>1, <1>8 DEF ToggleStar, Touch, UserType
<1> QED
  <2>1. CASE (\E n \in Names : StartLog(n)) \/ WriteLog \/ StopLog \/ UNCHANGED vars
    BY <1>3, <2>1 DEF StartLog, WriteLog, StopLog, vars
  <2>2. CASE Open \/ OnPause \/ OnResume \/ Turn \/ Finish
    BY <1>3, <2>2 DEF Open, OnPause, OnResume, Turn, Finish
  <2>3. CASE ListTask \/ UsageTask \/ Layout \/ ShowDetails \/ Cancel \/ Click
    BY <1>3, <2>3 DEF ListTask, UsageTask, Layout, ShowDetails, Cancel, Click
  <2>4. CASE DeleteFile \/ DeleteUnstarred \/ \E to \in Names : Rename(to)
    BY <1>3, <2>4 DEF DeleteFile, DeleteUnstarred, Rename, OnClick
  <2>5. QED
    BY <1>6, <1>7, <1>8, <2>1, <2>2, <2>3, <2>4 DEF Next

LEMMA InitHolds ==
  ASSUME Init
  PROVE  TypeOK /\ RefreshesOnce
<1>1. FilesType
  <2>1. 0 \in 0 .. MaxStamps
    BY FileAssumption
  <2>2. QED
    BY <2>1, NoEntries DEF Init, FilesType
<1>2. ListType
  BY NoEntries DEF Init, ListType, IsList
<1>3. ViewsType
  <2>1. NoRows \in [Rows -> RowType]
    BY DEF NoRows, RowType, Text
  <2>2. QED
    BY <2>1 DEF Init, ViewsType
<1>4. ScreenType /\ RefreshesOnce
  <2>1. counted \in BOOLEAN /\ usageTask \in BOOLEAN /\ late \in BOOLEAN
    BY DEF Init
  <2>2. listTasks = 0 /\ screen = "none" /\ ~usageTask
    BY DEF Init
  <2>3. ScreenType
    BY <2>1, <2>2 DEF ScreenType
  <2>4. RefreshesOnce
    BY <2>2 DEF RefreshesOnce
  <2>5. QED
    BY <2>3, <2>4
<1>5. UserType
  BY FileAssumption, RowsAreEnough DEF Init, UserType, NoDialog, Dialog
<1> QED
  BY <1>1, <1>2, <1>3, <1>4, <1>5, TypeParts

LEMMA OneChainStep == OneChain /\ [Next]_vars => OneChain'
BY FilesStep, ViewsStep, RefreshStep, UserStep, TypeParts DEF OneChain

\* Whatever the user does, and however often the screen is turned and left: the list has
\* each file once, it refreshes in one chain at most, and none outlives the screen but by
\* a click that was under way.  The chain is FilelistFragment's updateTask, which Populate
\* takes back before it posts it.
THEOREM OneChainOnly == Spec => []OneChain
<1>1. Init => OneChain
  BY InitHolds DEF OneChain
<1> QED
  BY <1>1, OneChainStep, PTL DEF Spec

-----------------------------------------------------------------------------
(* What is deleted. *)

\* The question tells what there is to delete, for as long as it is open.
CountIsRight == dialog.kind = "bulk" => dialog.count = Cardinality(Unstarred)

\* The star a file was given is set, wherever the file has gone.
KeptIsStarred == \A n \in DOMAIN dir : dir[n].kept \in stars \cup {NoName}

Asking == OneChain /\ CountIsRight /\ KeptIsStarred

LEMMA CountStep ==
  ASSUME Asking, [Next]_vars
  PROVE  CountIsRight'
<1>1. FilesType /\ CountIsRight
  BY TypeParts DEF Asking, OneChain
<1>2. CASE dialog'.kind # "bulk"
  BY <1>2 DEF CountIsRight
<1>3. CASE dialog' = NoDialog
  BY <1>2, <1>3 DEF NoDialog
<1>4. CASE DOMAIN dir' = DOMAIN dir /\ UNCHANGED stars /\ dialog'.kind = dialog.kind /\ dialog'.count = dialog.count
  BY <1>1, <1>4 DEF CountIsRight, Unstarred
<1>5. dialog \in Dialog
  BY TypeParts DEF Asking, OneChain, UserType
<1>6. CASE (\E n \in Names : StartLog(n)) \/ Open \/ \E i \in Rows : ToggleStar(i)
  BY <1>3, <1>6 DEF StartLog, Open, ToggleStar, Touch
<1>7. CASE WriteLog
  <2>1. DOMAIN dir' = DOMAIN dir
    BY <1>1, <1>7 DEF WriteLog, FilesType
  <2>2. QED
    BY <1>4, <1>7, <2>1 DEF WriteLog
<1>8. CASE UNCHANGED <<dir, stars>> /\ dialog' \in {dialog, NoDialog, Orphaned, [dialog EXCEPT !.clicked = TRUE]}
  <2>1. /\ [dialog EXCEPT !.clicked = TRUE].kind = dialog.kind
        /\ [dialog EXCEPT !.clicked = TRUE].count = dialog.count
        /\ [dialog EXCEPT !.mine = FALSE].kind = dialog.kind
        /\ [dialog EXCEPT !.mine = FALSE].count = dialog.count
    BY <1>5 DEF Dialog
  <2>2. QED
    BY <1>3, <1>4, <1>8, <2>1 DEF Orphaned
<1>9. CASE DeleteFile \/ DeleteUnstarred \/ \E to \in Names : Rename(to)
  BY <1>3, <1>9 DEF DeleteFile, DeleteUnstarred, Rename, OnClick
<1>10. CASE AskDeleteUnstarred
  <2>1. dialog'.count = Cardinality(Unstarred) /\ UNCHANGED <<dir, stars>>
    BY <1>10 DEF AskDeleteUnstarred, OpenDialog, files
  <2>2. QED
    BY <2>1 DEF CountIsRight, Unstarred
<1>11. CASE \E i \in Rows : AskDelete(i) \/ AskRename(i)
  BY <1>2, <1>11 DEF AskDelete, AskRename, OpenDialog
<1> QED
  <2>1. CASE StopLog \/ OnPause \/ OnResume \/ Turn \/ Finish \/ UNCHANGED vars
    BY <1>8, <2>1 DEF StopLog, OnPause, OnResume, Turn, Finish, files, vars
  <2>2. CASE ListTask \/ UsageTask \/ Layout \/ ShowDetails \/ Cancel \/ Click
    BY <1>8, <2>2 DEF ListTask, UsageTask, Layout, ShowDetails, Cancel, Click, files
  <2>3. QED
    BY <1>6, <1>7, <1>9, <1>10, <1>11, <2>1, <2>2 DEF Next

LEMMA KeptStep ==
  ASSUME Asking, [Next]_vars
  PROVE  KeptIsStarred'
<1>1. FilesType /\ KeptIsStarred /\ dialog \in Dialog
  BY TypeParts DEF Asking, OneChain, UserType
<1>2. CASE UNCHANGED <<dir, stars>>
  BY <1>1, <1>2 DEF KeptIsStarred
<1>3. ASSUME UNCHANGED stars,
             \A n \in DOMAIN dir' : \/ dir'[n].kept = NoName
                                    \/ \E m \in DOMAIN dir : dir'[n].kept = dir[m].kept
      PROVE  KeptIsStarred'
  BY <1>1, <1>3 DEF KeptIsStarred
<1>4. ASSUME NEW n \in Names, StartLog(n)
      PROVE  KeptIsStarred'
  BY <1>3, <1>4 DEF StartLog
<1>5. CASE WriteLog
  <2>1. log \in DOMAIN dir /\ dir[log] \in File
    BY <1>1, <1>5 DEF WriteLog, FilesType
  <2>2. dir' = [dir EXCEPT ![log] = [dir[log] EXCEPT !.stamp = stamps + 1]]
    BY <1>5 DEF WriteLog
  <2>3. [dir[log] EXCEPT !.stamp = stamps + 1].kept = dir[log].kept
    BY <2>1 DEF File
  <2>4. DOMAIN dir' = DOMAIN dir /\ \A n \in DOMAIN dir : dir'[n].kept = dir[n].kept
    BY <1>1, <2>1, <2>2, <2>3 DEF FilesType
  <2>5. QED
    BY <1>3, <1>5, <2>4 DEF WriteLog
<1>6. ASSUME NEW i \in Rows, ToggleStar(i)
      PROVE  KeptIsStarred'
  <2> DEFINE n == row[i].name
  <2>1. \A m \in DOMAIN dir : dir[m] \in File /\ dir[m].kept \in stars \cup {NoName}
    BY <1>1 DEF FilesType, KeptIsStarred
  <2>2. \A m \in DOMAIN dir : /\ [dir[m] EXCEPT !.kept = n].kept = n
                              /\ [dir[m] EXCEPT !.kept = NoName].kept = NoName
    BY <2>1 DEF File
  <2>3. CASE n \notin stars
    <3>1. stars' = stars \cup {n}
      BY <1>6, <2>3 DEF ToggleStar
    <3>2. /\ DOMAIN dir' = DOMAIN dir
          /\ \A m \in DOMAIN dir : dir'[m] \in {dir[m], [dir[m] EXCEPT !.kept = n]}
      BY <1>6, <2>3 DEF ToggleStar
    <3>3. ASSUME NEW m \in DOMAIN dir
          PROVE  dir'[m].kept \in stars' \cup {NoName}
      <4>1. CASE dir'[m] = dir[m]
        BY <2>1, <3>1, <4>1
      <4>2. CASE dir'[m] = [dir[m] EXCEPT !.kept = n]
        BY <2>2, <3>1, <4>2
      <4>3. QED
        BY <3>2, <4>1, <4>2
    <3>4. QED
      BY <3>2, <3>3 DEF KeptIsStarred
  <2>4. CASE n \in stars
    <3>1. stars' = stars \ {n}
      BY <1>6, <2>4 DEF ToggleStar
    <3>2. /\ DOMAIN dir' = DOMAIN dir
          /\ \A m \in DOMAIN dir : dir'[m] = IF dir[m].kept = n THEN [dir[m] EXCEPT !.kept = NoName]
                                                                ELSE dir[m]
      BY <1>6, <2>4 DEF ToggleStar
    <3>3. ASSUME NEW m \in DOMAIN dir
          PROVE  dir'[m].kept \in stars' \cup {NoName}
      <4>1. CASE dir[m].kept = n
        BY <2>2, <3>2, <4>1
      <4>2. CASE dir[m].kept # n
        BY <2>1, <3>1, <3>2, <4>2
      <4>3. QED
        BY <4>1, <4>2
    <3>4. QED
      BY <3>2, <3>3 DEF KeptIsStarred
  <2>5. QED
    BY <2>3, <2>4
<1>7. ASSUME NEW S, dir' = Restrict(dir, DOMAIN dir \ S), UNCHANGED stars
      PROVE  KeptIsStarred'
  BY <1>3, <1>7 DEF Restrict
<1>8. CASE DeleteFile \/ DeleteUnstarred
  BY <1>7, <1>8 DEF DeleteFile, DeleteUnstarred, Become, OnClick
<1>9. ASSUME NEW to \in Names, Rename(to)
      PROVE  KeptIsStarred'
  <2>1. dir' = Moved(to) /\ UNCHANGED stars
    BY <1>9, RenameMeans DEF Become, OnClick
  <2>2. \A m \in DOMAIN Moved(to) : \E k \in DOMAIN dir : Moved(to)[m] = dir[k]
    BY DEF Moved, Moves
  <2>3. QED
    BY <1>3, <2>1, <2>2
<1> QED
  <2>1. CASE StopLog \/ Open \/ OnPause \/ OnResume \/ Turn \/ Finish \/ UNCHANGED vars
    BY <1>2, <2>1 DEF StopLog, Open, OnPause, OnResume, Turn, Finish, files, vars
  <2>2. CASE ListTask \/ UsageTask \/ Layout \/ ShowDetails \/ Cancel \/ Click
    BY <1>2, <2>2 DEF ListTask, UsageTask, Layout, ShowDetails, Cancel, Click, files
  <2>3. CASE AskDeleteUnstarred \/ \E i \in Rows : AskDelete(i) \/ AskRename(i)
    BY <1>2, <2>3 DEF AskDeleteUnstarred, AskDelete, AskRename, OpenDialog, files
  <2>4. QED
    BY <1>4, <1>5, <1>6, <1>8, <1>9, <2>1, <2>2, <2>3 DEF Next

\* Only the deletion itself takes the answer away.
LEMMA DeletingIsDeleteUnstarred ==
  ASSUME TypeOK, [Next]_vars, DeletesUnstarred
  PROVE  DeleteUnstarred
<1>1. dialog \in Dialog /\ dialog.kind = "bulk" /\ dialog.clicked /\ dialog'.kind # "bulk"
  BY TypeParts DEF UserType, DeletesUnstarred
<1>2. dialog # NoDialog /\ dialog' # dialog
  BY <1>1 DEF NoDialog
<1>3. ~(Turn \/ Finish)
  <2>1. Orphaned.kind = "bulk"
    BY <1>1 DEF Orphaned, Dialog
  <2>2. QED
    BY <1>1, <2>1 DEF Turn, Finish
<1>4. ~((\E n \in Names : StartLog(n)) \/ WriteLog \/ StopLog \/ Open \/ OnPause \/ OnResume
         \/ UNCHANGED vars)
  BY <1>2 DEF StartLog, WriteLog, StopLog, Open, OnPause, OnResume, vars
<1>5. ~(ListTask \/ UsageTask \/ Layout \/ ShowDetails \/ Cancel \/ Click)
  BY <1>1, <1>2 DEF ListTask, UsageTask, Layout, ShowDetails, Cancel, Click
<1>6. ~(AskDeleteUnstarred \/ \E i \in Rows : ToggleStar(i) \/ AskDelete(i) \/ AskRename(i))
  BY <1>2 DEF AskDeleteUnstarred, ToggleStar, AskDelete, AskRename, OpenDialog, Touch
<1>7. ~(DeleteFile \/ \E to \in Names : Rename(to))
  BY <1>1 DEF DeleteFile, Rename, OnClick
<1> QED
  BY <1>3, <1>4, <1>5, <1>6, <1>7 DEF Next

LEMMA DeletingIsAsAsked ==
  ASSUME Asking, DeletesUnstarred, DeleteUnstarred
  PROVE  /\ Cardinality(DOMAIN dir) = Cardinality(DOMAIN dir') + dialog.count
         /\ \A n \in DOMAIN dir : dir[n].kept = n => n \in DOMAIN dir' /\ dir'[n] = dir[n]
<1>1. FilesType /\ dialog.kind = "bulk"
  BY TypeParts DEF Asking, OneChain, DeletesUnstarred
<1>2. dir' = Restrict(dir, DOMAIN dir \ Unstarred)
  BY DEF DeleteUnstarred, Become
<1>3. /\ DOMAIN dir' = DOMAIN dir \ Unstarred
      /\ \A n \in DOMAIN dir' : dir'[n] = dir[n]
  BY <1>2 DEF Restrict
<1>4. dialog.count = Cardinality(Unstarred)
  BY <1>1 DEF Asking, CountIsRight
<1>5. Cardinality(DOMAIN dir) = Cardinality(DOMAIN dir \ Unstarred) + Cardinality(Unstarred)
  <2>1. IsFiniteSet(DOMAIN dir) /\ IsFiniteSet(Unstarred) /\ IsFiniteSet(DOMAIN dir \ Unstarred)
    BY <1>1, RowsAreEnough DEF FilesType, Unstarred
  <2>2. (DOMAIN dir \ Unstarred) \cap Unstarred = {}
        /\ (DOMAIN dir \ Unstarred) \cup Unstarred = DOMAIN dir
    BY DEF Unstarred
  <2>3. /\ Cardinality(DOMAIN dir \ Unstarred) \in Nat
        /\ Cardinality(Unstarred) \in Nat
        /\ Cardinality({}) = 0
    BY <2>1, FS_EmptySet, FS_CardinalityType
  <2>4. Cardinality((DOMAIN dir \ Unstarred) \cup Unstarred)
        = Cardinality(DOMAIN dir \ Unstarred) + Cardinality(Unstarred)
          - Cardinality((DOMAIN dir \ Unstarred) \cap Unstarred)
    BY <2>1, FS_Union
  <2>5. /\ Cardinality((DOMAIN dir \ Unstarred) \cup Unstarred) = Cardinality(DOMAIN dir)
        /\ Cardinality((DOMAIN dir \ Unstarred) \cap Unstarred) = 0
    BY <2>2, <2>3
  <2>6. QED
    BY <2>3, <2>4, <2>5
<1>6. ASSUME NEW n \in DOMAIN dir, dir[n].kept = n
      PROVE  n \in DOMAIN dir' /\ dir'[n] = dir[n]
  <2>1. n \in stars
    BY <1>1, <1>6, FileAssumption DEF FilesType, Asking, KeptIsStarred
  <2>2. QED
    BY <1>3, <2>1 DEF Unstarred
<1> QED
  BY <1>3, <1>4, <1>5, <1>6

\* deleteFiles deletes as many files as the user was told and none that was starred under
\* its name, whatever was written, and however often the screen was turned, refreshed or
\* left, between countFiles and the answer.
THEOREM DeletesAsAskedFor == Spec => DeletesAsAsked
<1> DEFINE Announced == DeletesUnstarred =>
                          Cardinality(DOMAIN dir) = Cardinality(DOMAIN dir') + dialog.count
           Spared == DeletesUnstarred =>
                       \A n \in DOMAIN dir : dir[n].kept = n => n \in DOMAIN dir' /\ dir'[n] = dir[n]
<1>1. Init => Asking
  <2>1. ASSUME Init
        PROVE  OneChain /\ dialog.kind # "bulk" /\ DOMAIN dir = {}
    BY <2>1, InitHolds, NoEntries DEF Init, OneChain, NoDialog
  <2>2. QED
    BY <2>1 DEF Asking, CountIsRight, KeptIsStarred
<1>2. Asking /\ [Next]_vars => Asking'
  BY OneChainStep, CountStep, KeptStep DEF Asking
<1>3. Asking /\ [Next]_vars => Announced /\ Spared
  BY DeletingIsDeleteUnstarred, DeletingIsAsAsked DEF Asking, OneChain
<1>4. Asking /\ [Next]_vars => [Announced]_vars /\ [Spared]_vars
  BY <1>3
<1> QED
  BY <1>1, <1>2, <1>4, PTL DEF Spec, DeletesAsAsked, DeletesAsAnnounced, StarredInPlaceSurvives

-----------------------------------------------------------------------------
(* Savefiles: the fields of a pcap_t that reading a packet looks at *)

IsClassic(p) ==
  /\ {"format", "pos", "swapped", "linktype", "bufsize", "hdrsize"} \subseteq DOMAIN p
  /\ p.format = "pcap" /\ p.pos \in Nat /\ p.bufsize \in Nat \ {0} /\ p.hdrsize \in {4, 6}

IsNg(p, blocks) ==
  /\ {"format", "pos", "snapshot"} \subseteq DOMAIN p
  /\ p.format = "ng" /\ p.pos \in 1 .. Len(blocks) /\ p.snapshot \in Int

IsPcapT(p, blocks) == IsClassic(p) \/ IsNg(p, blocks)

IsReader(r, blocks) ==
  /\ DOMAIN r = {"is", "pcap", "read", "fcode", "break_loop", "ended"}
  /\ r.is = "open"
  /\ IsPcapT(r.pcap, blocks)

FileType ==
  /\ DOMAIN file = DOMAIN NewFile
  /\ file.cells \in Seq(Int)
  /\ file.blocks \in Seq(ToSet(file.blocks))
  /\ \A n \in 1 .. Len(file.blocks) : IsBlock(file.blocks[n])

DumperType ==
  /\ dumper \in [at : {"closed", "open", "data"}, buffer : Seq(Int), lost : BOOLEAN]
  /\ dumper.at # "closed" => file.written \in Seq(Dumpable)
  /\ dumper.at = "data" => file.written # <<>>

ReaderType ==
  /\ reader = None \/ IsReader(reader, file.blocks)
  /\ DOMAIN call = DOMAIN Idle
  /\ call.at \in {"idle", "describe", "check", "next"}
  /\ call.at # "idle" => reader # None
  /\ call.at = "describe" => reader.pcap.format = "ng"

\* The inductive invariant.
Kept == FileType /\ DumperType /\ ReaderType /\ KeepsWithinBuffer

-----------------------------------------------------------------------------
(* The bytes of a packet *)

\* A function on 1 .. n is a sequence of that length.
LEMMA LengthOfFunction ==
  ASSUME NEW n \in Nat, NEW f, NEW S, f \in [1 .. n -> S]
  PROVE  f \in Seq(S) /\ Len(f) = n
BY SeqDef

IsSeq(s) == Len(s) \in Nat /\ DOMAIN s = 1 .. Len(s)

\* swap_linux_usb_header changes the bytes in their places: each part of it keeps their number,
LEMMA SwapsKeepLength ==
  ASSUME NEW bytes, NEW fields, IsSeq(bytes)
  PROVE  IsSeq(SwapFields(bytes, fields)) /\ Len(SwapFields(bytes, fields)) = Len(bytes)
<1> DEFINE s == SwapFields(bytes, fields)
           S == {s[i] : i \in 1 .. Len(bytes)}
<1>1. DOMAIN bytes = 1 .. Len(bytes) /\ Len(bytes) \in Nat
  BY DEF IsSeq
<1>2. s = [i \in 1 .. Len(bytes) |-> s[i]]
  BY <1>1 DEF SwapFields
<1>3. s \in [1 .. Len(bytes) -> S]
  <2> HIDE DEF s
  <2> QED
    BY <1>2
<1>4. Len(s) = Len(bytes) /\ DOMAIN s = 1 .. Len(bytes)
  <2> HIDE DEF s, S
  <2> QED
    BY <1>1, <1>3, LengthOfFunction
<1> QED
  BY <1>1, <1>4 DEF IsSeq

\* and so does all of it, for whatever is in the header.
LEMMA ToHostKeepsLength ==
  ASSUME NEW r, NEW bytes \in Seq(Int)
  PROVE  Len(ToHost(r, bytes)) = Len(bytes)
<1>1. IsSeq(bytes)
  BY DEF IsSeq
<1>2. ASSUME NEW sixty_four
      PROVE  Len(swap_linux_usb_header(bytes, sixty_four)) = Len(bytes)
  <2> DEFINE isochronous == Len(bytes) >= 40 /\ bytes[10] = URB_ISOCHRONOUS
             header == SwapFields(bytes, HeaderFields(isochronous, sixty_four))
             first == IF sixty_four THEN 64 ELSE 48
  <2>1. IsSeq(header) /\ Len(header) = Len(bytes)
    <3> DEFINE fields == HeaderFields(isochronous, sixty_four)
    <3> HIDE DEF fields
    <3>1. IsSeq(SwapFields(bytes, fields)) /\ Len(SwapFields(bytes, fields)) = Len(bytes)
      BY <1>1, SwapsKeepLength
    <3> QED
      BY <3>1 DEF fields
  <2>2. Len(SwapFields(header, IsoFields(first, header[45]))) = Len(bytes)
    <3> DEFINE fields == IsoFields(first, header[45])
    <3> HIDE DEF fields, header
    <3>1. Len(SwapFields(header, fields)) = Len(header)
      BY <2>1, SwapsKeepLength
    <3> QED
      BY <2>1, <3>1 DEF fields
  <2>3. swap_linux_usb_header(bytes, sixty_four) =
          IF isochronous /\ Len(bytes) >= first THEN SwapFields(header, IsoFields(first, header[45])) ELSE header
    BY DEF swap_linux_usb_header
  <2> HIDE DEF header, isochronous, first
  <2> QED
    BY <2>1, <2>2, <2>3
<1> QED
  BY <1>2 DEF ToHost

\* The part that is copied to the buffer has the length that was asked for.
LEMMA PartOfBytes ==
  ASSUME NEW bytes \in Seq(Int), NEW from \in Nat, NEW n \in Nat, from + n <= Len(bytes)
  PROVE  /\ SubSeq(bytes, from + 1, from + n) \in Seq(Int)
         /\ Len(SubSeq(bytes, from + 1, from + n)) = n
  OBVIOUS

-----------------------------------------------------------------------------
(* What is read of a classic file *)

\* Against a length that is not negative, a word that would be is huge.
LEMMA ExceedsLength ==
  ASSUME NEW a \in Int, NEW b \in Nat
  PROVE  /\ Exceeds(a, b) <=> a < 0 \/ a > b
         /\ Smaller(a, b) = IF a < 0 \/ a > b THEN b ELSE a
  BY DEF Exceeds, Smaller

\* Within the file, there is a word.
LEMMA WordsAreIntegers ==
  ASSUME NEW r, NEW cells \in Seq(Int), NEW n \in Nat \ {0}, r.pos \in Nat, r.pos + n <= Len(cells)
  PROVE  Word(r, cells, n) \in Int
<1>1. cells[r.pos + n] \in Int
  BY ElementOfSeq
<1> QED
  BY <1>1 DEF Word, SWAPLONG

\* pcap_next_packet gives no more than the buffer has, and all that it says, whatever the header of the
\* record says: a length that the rest of the file does not have is an error.
LEMMA ClassicPacket ==
  ASSUME NEW r, IsClassic(r), NEW cells \in Seq(Int), NEW next,
         next = pcap_next_packet(r, cells), next.is = "packet"
  PROVE  /\ next.pos \in Nat
         /\ Len(next.data) = next.hdr.caplen
         /\ next.hdr.caplen <= r.bufsize
<1> DEFINE hdr == RecordHeader(r, cells)
           at == r.pos + r.hdrsize
           kept == CutTo(r, hdr)
<1>1. r.pos \in Nat /\ r.bufsize \in Nat \ {0} /\ r.hdrsize \in {4, 6} /\ Len(cells) \in Nat /\ at \in Nat
  BY DEF IsClassic
<1>2. ~(Left(r, cells) < r.hdrsize)
  BY DEF pcap_next_packet, EndOfFile, Truncated
<1>3. at <= Len(cells)
  BY <1>1, <1>2 DEF Left
<1>4. hdr.caplen \in Int /\ DOMAIN hdr = {"sec", "usec", "caplen", "len"}
  <2>1. Word(r, cells, 3) \in Int /\ Word(r, cells, 4) \in Int
    BY <1>1, <1>3, WordsAreIntegers
  <2> QED
    BY <2>1 DEF RecordHeader
<1> HIDE DEF hdr
<1>5. kept.caplen = Smaller(hdr.caplen, r.bufsize)
  BY <1>4 DEF CutTo
<1> HIDE DEF at, kept
<1>6. /\ ~Exceeds(hdr.caplen, Len(cells) - at)
      /\ next = [ is |-> "packet", pos |-> at + hdr.caplen, hdr |-> kept,
                  data |-> ToHost(r, SubSeq(cells, at + 1, at + kept.caplen)) ]
  BY <1>2 DEF pcap_next_packet, EndOfFile, Truncated, Bogus, hdr, at, kept
<1>7. hdr.caplen \in Nat /\ at + hdr.caplen <= Len(cells)
  <2>1. Len(cells) - at \in Nat
    BY <1>1, <1>3
  <2> QED
    BY <1>1, <1>4, <1>6, <2>1, ExceedsLength
<1>8. kept.caplen \in Nat /\ kept.caplen <= hdr.caplen /\ kept.caplen <= r.bufsize
  BY <1>1, <1>4, <1>5, <1>7, ExceedsLength
<1>9. Len(ToHost(r, SubSeq(cells, at + 1, at + kept.caplen))) = kept.caplen
  <2>1. at + kept.caplen <= Len(cells)
    BY <1>1, <1>7, <1>8
  <2>2. /\ SubSeq(cells, at + 1, at + kept.caplen) \in Seq(Int)
        /\ Len(SubSeq(cells, at + 1, at + kept.caplen)) = kept.caplen
    BY <1>1, <1>8, <2>1, PartOfBytes
  <2> QED
    BY <2>2, ToHostKeepsLength
<1> QED
  BY <1>1, <1>6, <1>7, <1>8, <1>9

\* pcap_check_header makes a buffer of at least a byte for any snapshot length.
LEMMA ClassicHeader ==
  ASSUME NEW cells \in Seq(Int), Len(cells) >= FileHeader
  PROVE  IsClassic(pcap_check_header(cells))
<1> DEFINE start == [pos |-> 0, swapped |-> ~IsMagic(cells[1])]
<1>1. Word(start, cells, 6) \in Int
  <2>1. start.pos = 0 /\ Len(cells) \in Nat /\ 0 + 6 <= Len(cells)
    BY DEF FileHeader
  <2> HIDE DEF start
  <2> QED
    BY <2>1, WordsAreIntegers
<1> DEFINE patched == Word(start, cells, 1) = KUZNETZOV_TCPDUMP_MAGIC
           linktype == linktype_to_dlt(Word(start, cells, 7))
           snapshot == Word(start, cells, 6) + (IF patched /\ linktype = DLT_EN10MB THEN 14 ELSE 0)
<1>2. snapshot \in Int
  <2> HIDE DEF start, patched, linktype
  <2> QED
    BY <1>1
<1> DEFINE p == pcap_check_header(cells)
<1>3. p = [ format |-> "pcap", pos |-> FileHeader, swapped |-> start.swapped, linktype |-> linktype, snapshot |-> snapshot,
            lengths_swapped |-> LengthsSwapped(Word(start, cells, 2), Word(start, cells, 3)),
            hdrsize |-> IF patched THEN 6 ELSE 4,
            bufsize |-> IF snapshot <= 0 THEN DefaultBuffer ELSE snapshot,
            archaic |-> Exceeds(PCAP_VERSION_MAJOR, Word(start, cells, 2)) ]
  BY DEF pcap_check_header
<1> HIDE DEF start, patched, linktype, snapshot, p
<1>4. p.pos = FileHeader /\ p.format = "pcap"
      /\ p.bufsize = (IF snapshot <= 0 THEN DefaultBuffer ELSE snapshot)
      /\ p.hdrsize \in {4, 6}
      /\ {"format", "pos", "swapped", "linktype", "bufsize", "hdrsize"} \subseteq DOMAIN p
  BY <1>3
<1> QED
  BY <1>2, <1>4, PcapFileAssumption DEF IsClassic, FileHeader, p

-----------------------------------------------------------------------------
(* What is read of a file of the next generation *)

\* The other byte order of a word is a word.
LEMMA OrderedIsInteger ==
  ASSUME NEW r, NEW word \in Int
  PROVE  Ordered(r, word) \in Int
  BY DEF Ordered, SWAPLONG

\* What the steps through a file say they are.
LEMMA WhatSteps ==
  /\ \A why : Failed(why).is = why
  /\ \A p : Continue(p).is = "continue" /\ Continue(p).r = p
  BY DEF Failed, Continue

\* There is a block to go past.
LEMMA PastKeeps ==
  ASSUME NEW r, NEW blocks, IsNg(r, blocks), Len(blocks) \in Nat, r.pos # Len(blocks)
  PROVE  IsNg(Past(r), blocks)
  BY DEF IsNg, Past

\* A packet has no more than its block.
LEMMA NgPacketOf ==
  ASSUME NEW r, NEW blocks, IsNg(r, blocks), NEW block, IsBlock(block), IsPacket(block), ReadsBlock(block),
         NEW next, next = PacketOf(r, block), next.is = "packet"
  PROVE  /\ next.r = Past(r)
         /\ Len(next.data) = next.hdr.caplen
<1> DEFINE simple == block.type = "SPB"
           caplen == IF simple THEN Smaller(Ordered(r, block.len), r.snapshot) ELSE Ordered(r, block.caplen)
           interface == IF simple THEN 0 ELSE Ordered(r, block.interface)
           time == Time(r, IF simple THEN 0 ELSE Ordered(r, block.time))
<1>1. caplen \in Int
  <2>1. simple => Ordered(r, block.len) \in Int
    BY OrderedIsInteger DEF IsBlock
  <2>2. ~simple => Ordered(r, block.caplen) \in Int
    BY OrderedIsInteger DEF IsBlock, IsPacket
  <2> QED
    BY <2>1, <2>2 DEF Smaller, IsNg
<1>2. /\ ~(Remaining(block) < 0) /\ ~Exceeds(caplen, Remaining(block))
      /\ next = [ is |-> "packet", r |-> Past(r),
                  hdr |-> [sec |-> time.sec, usec |-> time.usec, caplen |-> caplen, len |-> Ordered(r, block.len)],
                  data |-> ToHost(r, SubSeq(block.data, 1, caplen)) ]
  <2> HIDE DEF time
  <2>1. PacketOf(r, block) =
          IF Remaining(block) < 0 \/ ~Exceeds(r.ifcount, interface) \/ Exceeds(caplen, Remaining(block)) THEN Failed("bad_block")
          ELSE [ is |-> "packet", r |-> Past(r),
                 hdr |-> [sec |-> time.sec, usec |-> time.usec, caplen |-> caplen, len |-> Ordered(r, block.len)],
                 data |-> ToHost(r, SubSeq(block.data, 1, caplen)) ]
    BY DEF PacketOf, time
  <2> HIDE DEF caplen, interface
  <2>2. PacketOf(r, block) # Failed("bad_block")
    BY WhatSteps
  <2> QED
    BY <2>1, <2>2
<1>3. Remaining(block) \in Nat
  BY <1>2 DEF IsBlock, Remaining, BlockHeader, BlockTrailer, BodySize
<1>4. caplen \in Nat /\ caplen <= Remaining(block)
  <2> HIDE DEF caplen
  <2> QED
    BY <1>1, <1>2, <1>3, ExceedsLength
<1> HIDE DEF caplen, time
<1>5. Len(ToHost(r, SubSeq(block.data, 1, caplen))) = caplen
  <2>1. block.data \in Seq(Int) /\ Len(block.data) >= Remaining(block)
    BY DEF IsBlock
  <2>2. SubSeq(block.data, 1, caplen) \in Seq(Int) /\ Len(SubSeq(block.data, 1, caplen)) = caplen
    BY <1>3, <1>4, <2>1, PartOfBytes
  <2> QED
    BY <2>2, ToHostKeepsLength
<1> QED
  BY <1>2, <1>5

\* Blocks that are not packets are passed.
LEMMA OthersContinue ==
  ASSUME NEW r, NEW blocks, IsNg(r, blocks), Len(blocks) \in Nat, r.pos # Len(blocks), NEW block, NEW next,
         next \in {OtherInterface(r, block), OtherSection(r, block), Continue(Past(r))}
  PROVE  /\ next.is # "packet"
         /\ next.is = "continue" => IsNg(next.r, blocks)
<1> DEFINE q == Past(r)
<1>1. IsNg(q, blocks)
  BY PastKeeps
<1> HIDE DEF q
<1>2. IsNg([q EXCEPT !.ifcount = @ + 1], blocks)
  BY <1>1 DEF IsNg
<1>3. IsNg([q EXCEPT !.ifcount = 0], blocks)
  BY <1>1 DEF IsNg
<1>4. CASE next = OtherInterface(r, block)
  <2>1. next = Failed("bad_block") \/ next = Continue([q EXCEPT !.ifcount = @ + 1])
    BY <1>4 DEF OtherInterface, q
  <2> QED
    BY <2>1, <1>2, WhatSteps
<1>5. CASE next = OtherSection(r, block)
  <2>1. next = Failed("bad_block") \/ next = Continue([q EXCEPT !.ifcount = 0])
    BY <1>5 DEF OtherSection, NewSection, q
  <2> QED
    BY <2>1, <1>3, WhatSteps
<1>6. CASE next = Continue(Past(r))
  BY <1>6, <1>1 DEF Continue, q
<1> QED
  BY <1>4, <1>5, <1>6

\* pcap_ng_next_packet gives what the block of the packet has.
LEMMA NgPacket ==
  ASSUME NEW r, NEW blocks, IsNg(r, blocks), Len(blocks) \in Nat, \A n \in 1 .. Len(blocks) : IsBlock(blocks[n]),
         NEW next, next = pcap_ng_next_packet(r, blocks)
  PROVE  /\ next.is \in {"packet", "continue"} => IsNg(next.r, blocks)
         /\ next.is = "packet" => Len(next.data) = next.hdr.caplen
<1> DEFINE block == blocks[r.pos + 1]
<1>1. CASE r.pos = Len(blocks)
  BY <1>1 DEF pcap_ng_next_packet, EndOfFile
<1>2. CASE r.pos # Len(blocks)
  <2>1. IsBlock(block)
    BY <1>2 DEF IsNg
  <2>2. CASE ~ReadsBlock(block)
    BY <1>2, <2>2 DEF pcap_ng_next_packet, Truncated
  <2>3. CASE ReadsBlock(block) /\ IsPacket(block)
    <3>1. next = PacketOf(r, block)
      BY <1>2, <2>3 DEF pcap_ng_next_packet, IsPacket
    <3> HIDE DEF block
    <3>2. next.is # "continue"
      <4>1. next = Failed("bad_block") \/ next.is = "packet"
        BY <3>1 DEF PacketOf
      <4> QED
        BY <4>1, WhatSteps
    <3>3. IsNg(Past(r), blocks)
      BY <1>2, PastKeeps
    <3> QED
      BY <2>1, <2>3, <3>1, <3>2, <3>3, NgPacketOf
  <2>4. CASE ReadsBlock(block) /\ ~IsPacket(block)
    <3>1. next \in {OtherInterface(r, block), OtherSection(r, block), Continue(Past(r))}
      BY <1>2, <2>4 DEF pcap_ng_next_packet
    <3> HIDE DEF block
    <3> QED
      BY <1>2, <3>1, OthersContinue
  <2> QED
    BY <2>2, <2>3, <2>4
<1> QED
  BY <1>1, <1>2

\* pcap_ng_check_header reads the first block,
LEMMA NgHeader ==
  ASSUME NEW blocks, Len(blocks) \in Nat \ {0},
         NEW next, next = pcap_ng_check_header(blocks)
  PROVE  /\ next.is # "found"
         /\ next.is = "continue" => IsNg(next.r, blocks)
<1> DEFINE r == [ format |-> "ng", pos |-> 1, swapped |-> blocks[1].order < 0, ifcount |-> 0, linktype |-> 0, snapshot |-> 0,
                  bufsize |-> 0, tsresol |-> TicksPerSecond, tsscale |-> 1, tsoffset |-> 0 ]
<1>1. next \in {Failed("truncated"), Failed("unknown_version"), Continue(r)}
  BY DEF pcap_ng_check_header
<1>2. IsNg(r, blocks)
  BY DEF IsNg
<1> HIDE DEF r
<1> QED
  BY <1>1, <1>2, WhatSteps

\* and goes on to an interface.
LEMMA NgDescription ==
  ASSUME NEW r, NEW blocks, IsNg(r, blocks), Len(blocks) \in Nat, \A n \in 1 .. Len(blocks) : IsBlock(blocks[n]),
         NEW next, next = SkipToInterface(r, blocks)
  PROVE  next.is \in {"found", "continue"} => IsNg(next.r, blocks)
<1> DEFINE block == blocks[r.pos + 1]
<1>1. CASE r.pos = Len(blocks)
  BY <1>1, WhatSteps DEF SkipToInterface
<1>2. CASE r.pos # Len(blocks)
  <2>1. IsBlock(block) /\ IsNg(Past(r), blocks)
    BY <1>2, PastKeeps DEF IsNg
  <2>2. CASE ~ReadsBlock(block) \/ (block.type # "IDB" /\ IsPacket(block))
    BY <1>2, <2>2, WhatSteps DEF SkipToInterface
  <2>3. CASE ReadsBlock(block) /\ block.type # "IDB" /\ ~IsPacket(block)
    BY <1>2, <2>1, <2>3, WhatSteps DEF SkipToInterface
  <2>4. CASE ReadsBlock(block) /\ block.type = "IDB"
    <3> DEFINE s == Described(r, block)
               snaplen == Ordered(r, block.snaplen)
               link == linktype_to_dlt(Ordered(r, block.linktype))
               scale == tsscale(s.tsresol)
    <3>1. next = FirstInterface(r, block)
      BY <1>2, <2>4 DEF SkipToInterface
    <3>2. snaplen \in Int
      BY <2>1, <2>4, OrderedIsInteger DEF IsBlock
    <3>3. next = Failed("bad_block") \/
          next = [ is |-> "found",
                   r |-> [Past(r) EXCEPT !.ifcount = @ + 1, !.tsresol = s.tsresol, !.tsoffset = s.tsoffset,
                                         !.tsscale = scale, !.snapshot = snaplen, !.linktype = link] ]
      BY <3>1 DEF FirstInterface
    <3> HIDE DEF s, snaplen, link, scale
    <3> DEFINE q == Past(r)
               p == [q EXCEPT !.ifcount = @ + 1, !.tsresol = s.tsresol, !.tsoffset = s.tsoffset,
                              !.tsscale = scale, !.snapshot = snaplen, !.linktype = link]
    <3>4. IsNg(q, blocks)
      BY <2>1
    <3> HIDE DEF q
    <3>5. p.format = "ng" /\ p.pos = q.pos
      BY <3>4 DEF IsNg
    <3>6. p.snapshot = snaplen
      BY <3>4 DEF IsNg
    <3>7. DOMAIN p = DOMAIN q
      OBVIOUS
    <3> HIDE DEF p
    <3>8. IsNg(p, blocks)
      BY <3>2, <3>4, <3>5, <3>6, <3>7 DEF IsNg
    <3> QED
      BY <3>3, <3>8, WhatSteps DEF p, q
  <2> QED
    BY <2>2, <2>3, <2>4
<1> QED
  BY <1>1, <1>2

-----------------------------------------------------------------------------
(* Opening *)

\* What pcap_fopen_offline makes of the file can be read from.
LEMMA OpenedIsTyped ==
  ASSUME FileType, NEW opened, opened = Opened, opened.is \in {"found", "continue"}
  PROVE  /\ IsPcapT(opened.r, file.blocks)
         /\ opened.is = "continue" => IsNg(opened.r, file.blocks)
<1>1. CASE file.blocks # <<>>
  <2>1. Len(file.blocks) \in Nat \ {0}
    BY <1>1, EmptySeq DEF FileType
  <2>2. opened = pcap_ng_check_header(file.blocks)
    BY <1>1, WhatSteps DEF Opened
  <2> QED
    BY <2>1, <2>2, NgHeader DEF IsPcapT
<1>2. CASE file.blocks = <<>>
  <2> DEFINE r == pcap_check_header(file.cells)
  <2> HIDE DEF r
  <2>1. /\ ~(Len(file.cells) < FileHeader)
        /\ opened = [is |-> "found", r |-> r]
    BY <1>2, WhatSteps DEF Opened, Truncated, r
  <2>2. file.cells \in Seq(Int) /\ Len(file.cells) >= FileHeader
    BY <2>1 DEF FileType, FileHeader
  <2> QED
    BY <2>1, <2>2, ClassicHeader DEF IsPcapT, r
<1> QED
  BY <1>1, <1>2

-----------------------------------------------------------------------------
(* Writing *)

\* pcap_dump_open and pcap_dump write words.
LEMMA HeadersAreWords ==
  /\ \A link \in Links : sf_write_header(dlt_to_linktype(link[1]), 0, link[2]) \in Seq(Int)
  /\ \A pkt \in Dumpable : sf_hdr(pkt) \in Seq(Int) /\ pkt.data \in Seq(Int)
<1>1. ASSUME NEW link \in Links
      PROVE  sf_write_header(dlt_to_linktype(link[1]), 0, link[2]) \in Seq(Int)
  <2>1. link[1] \in Int /\ link[2] \in Int
    BY SavefileAssumption
  <2>2. dlt_to_linktype(link[1]) \in Int
    <3>1. \A type \in LinkTypeMap : type[2] \in Int
      BY DEF LinkTypeMap
    <3> QED
      BY <2>1, <3>1 DEF dlt_to_linktype
  <2> QED
    BY <2>1, <2>2 DEF sf_write_header, TCPDUMP_MAGIC, PCAP_VERSION_MAJOR, PCAP_VERSION_MINOR
<1>2. ASSUME NEW pkt \in Dumpable
      PROVE  sf_hdr(pkt) \in Seq(Int) /\ pkt.data \in Seq(Int)
  BY SavefileAssumption DEF sf_hdr
<1> QED
  BY <1>1, <1>2

\* No write takes the file away from its reader, wherever it is cut.
LEMMA WriteKeepsFile ==
  ASSUME FileType, DumperType, Write
  PROVE  /\ FileType' /\ DumperType'
         /\ file'.blocks = file.blocks
         /\ given' = None
<1> USE DEF FileType, DumperType
<1> DEFINE Dumpers == [at : {"closed", "open", "data"}, buffer : Seq(Int), lost : BOOLEAN]
<1>1. CASE pcap_dump_open
  <2>1. PICK link \in Links :
          \/ UNCHANGED <<file, dumper>>
          \/ /\ dumper' = [Closed EXCEPT !.at = "open", !.buffer = sf_write_header(dlt_to_linktype(link[1]), 0, link[2])]
             /\ file' = [NewFile EXCEPT !.link = link[1], !.snapshot = link[2]]
    BY <1>1 DEF pcap_dump_open
  <2>2. file = NewFile /\ given' = None
    BY <1>1 DEF pcap_dump_open
  <2>3. CASE UNCHANGED <<file, dumper>>
    BY <2>2, <2>3
  <2>4. CASE /\ dumper' = [Closed EXCEPT !.at = "open", !.buffer = sf_write_header(dlt_to_linktype(link[1]), 0, link[2])]
             /\ file' = [NewFile EXCEPT !.link = link[1], !.snapshot = link[2]]
    <3>1. file' = [cells |-> <<>>, blocks |-> <<>>, written |-> <<>>, link |-> link[1], snapshot |-> link[2], hdrsize |-> 4]
      BY <2>4 DEF NewFile
    <3>2. file.blocks = <<>> /\ file.cells = <<>>
      BY <2>2 DEF NewFile
    <3>3. DOMAIN file' = DOMAIN NewFile
      BY <3>1 DEF NewFile
    <3>4. dumper' = [at |-> "open", buffer |-> sf_write_header(dlt_to_linktype(link[1]), 0, link[2]), lost |-> FALSE]
      BY <2>4 DEF Closed
    <3>5. dumper' \in Dumpers /\ dumper'.at = "open"
      BY <3>4, HeadersAreWords
    <3>6. FileType'
      BY <3>1, <3>2, <3>3
    <3>7. file'.written \in Seq(Dumpable) /\ file'.blocks = file.blocks
      BY <3>1, <3>2
    <3> QED
      BY <2>2, <3>5, <3>6, <3>7
  <2> QED
    BY <2>1, <2>3, <2>4
<1>2. CASE DumpHeader
  <2>1. PICK pkt \in Dumpable :
          /\ dumper' = [dumper EXCEPT !.at = "data", !.buffer = @ \o sf_hdr(pkt)]
          /\ file' = [file EXCEPT !.written = Append(@, pkt)]
    BY <1>2 DEF DumpHeader
  <2>2. given' = None /\ dumper.at = "open"
    BY <1>2 DEF DumpHeader, Quiet
  <2>3. /\ DOMAIN file' = DOMAIN file /\ file'.cells = file.cells /\ file'.blocks = file.blocks
        /\ file'.written = Append(file.written, pkt)
    BY <2>1 DEF NewFile
  <2>4. dumper.buffer \o sf_hdr(pkt) \in Seq(Int)
    BY HeadersAreWords, ConcatProperties
  <2>5. dumper' \in Dumpers /\ dumper'.at = "data"
    BY <2>1, <2>4
  <2>6. file'.written \in Seq(Dumpable) /\ file'.written # <<>>
    <3>1. file.written \in Seq(Dumpable) /\ pkt \in Dumpable
      BY <2>2
    <3>2. /\ Append(file.written, pkt) \in Seq(Dumpable)
          /\ Len(Append(file.written, pkt)) = Len(file.written) + 1 /\ Len(file.written) \in Nat
      BY <3>1
    <3>3. Append(file.written, pkt) # <<>>
      <4>1. Len(<<>>) = 0
        BY EmptySeq
      <4> QED
        BY <3>2, <4>1
    <3> QED
      BY <2>3, <3>2, <3>3
  <2> QED
    BY <2>2, <2>3, <2>5, <2>6
<1>3. CASE DumpData
  <2> DEFINE data == Last(file.written).data
  <2>1. data \in Seq(Int)
    <3>1. file.written \in Seq(Dumpable) /\ file.written # <<>>
      BY <1>3 DEF DumpData
    <3>2. Last(file.written) \in Dumpable
      BY <3>1 DEF Last
    <3> QED
      BY <3>2, HeadersAreWords
  <2> HIDE DEF data
  <2>2. dumper.buffer \o data \in Seq(Int)
    BY <2>1, ConcatProperties
  <2>3. dumper' = [dumper EXCEPT !.at = "open", !.buffer = @ \o data] /\ UNCHANGED file /\ given' = None /\ dumper.at = "data"
    BY <1>3 DEF DumpData, Quiet, data
  <2>4. dumper' \in Dumpers /\ dumper'.at = "open"
    BY <2>2, <2>3
  <2> QED
    BY <2>3, <2>4
<1>4. CASE Spill
  <2>1. PICK n \in 0 .. Len(dumper.buffer) :
          /\ Reaches(n)
          /\ \/ n > 0 /\ dumper' = [dumper EXCEPT !.buffer = SubSeq(@, n + 1, Len(@))]
             \/ dumper' = [dumper EXCEPT !.buffer = <<>>, !.lost = TRUE]
    BY <1>4 DEF Spill
  <2>2. SubSeq(dumper.buffer, n + 1, Len(dumper.buffer)) \in Seq(Int) /\ SubSeq(dumper.buffer, 1, n) \in Seq(Int)
    OBVIOUS
  <2>3. dumper' \in Dumpers /\ dumper'.at = dumper.at
    <3>1. CASE dumper' = [dumper EXCEPT !.buffer = SubSeq(@, n + 1, Len(@))]
      BY <2>2, <3>1
    <3>2. CASE dumper' = [dumper EXCEPT !.buffer = <<>>, !.lost = TRUE]
      <4>1. dumper' = [at |-> dumper.at, buffer |-> <<>>, lost |-> TRUE]
        BY <3>2
      <4> QED
        BY <4>1
    <3> QED
      BY <2>1, <3>1, <3>2
  <2>4. /\ DOMAIN file' = DOMAIN file /\ file'.blocks = file.blocks /\ file'.written = file.written
        /\ file'.cells = file.cells \o SubSeq(dumper.buffer, 1, n)
    BY <2>1 DEF Reaches, NewFile
  <2>5. file'.cells \in Seq(Int)
    BY <2>2, <2>4, ConcatProperties
  <2>6. given' = None
    BY <1>4 DEF Spill, Quiet
  <2> QED
    BY <2>3, <2>4, <2>5, <2>6
<1>5. CASE pcap_dump_close
  BY <1>5 DEF pcap_dump_close, Quiet
<1>6. CASE Crash
  <2>1. dumper' = [dumper EXCEPT !.at = "closed", !.buffer = <<>>] /\ UNCHANGED file /\ given' = None
    BY <1>6 DEF Crash, Quiet
  <2>2. dumper' = [at |-> "closed", buffer |-> <<>>, lost |-> dumper.lost]
    BY <2>1
  <2>3. dumper' \in Dumpers /\ dumper'.at = "closed"
    BY <2>2
  <2> QED
    BY <2>1, <2>3
<1> QED
  BY <1>1, <1>2, <1>3, <1>4, <1>5, <1>6 DEF Write

\* Nor does it touch the pcap_t.
LEMMA WriteKeepsReader ==
  ASSUME FileType, DumperType, ReaderType, Write
  PROVE  ReaderType'
<1>1. file'.blocks = file.blocks
  BY WriteKeepsFile
<1>2. UNCHANGED <<reader, call>>
  BY DEF Write, pcap_dump_open, DumpHeader, DumpData, Spill, pcap_dump_close, Crash
<1> QED
  BY <1>1, <1>2 DEF ReaderType
-----------------------------------------------------------------------------
(* Reading *)

\* A call is over or looks for the next packet.
LEMMA CallGoesOn ==
  ASSUME NEW n, DOMAIN call = DOMAIN Idle, ReadReturns(n)
  PROVE  /\ DOMAIN call' = DOMAIN Idle
         /\ call'.at \in {"idle", "check"}
         /\ call.op = "count" /\ n > 0 /\ Counted <=> call.op = "count" /\ call'.at = "check"
<1>1. ASSUME NEW value, Return(value)
      PROVE  DOMAIN call' = DOMAIN Idle /\ call'.at = "idle"
  BY <1>1 DEF Return, Idle
<1>2. ASSUME NEW c, DOMAIN c = DOMAIN Idle, Again(c)
      PROVE  DOMAIN call' = DOMAIN Idle /\ call'.at = "check"
  BY <1>2 DEF Again, Idle
<1>3. CASE call.op = "count"
  <2>1. CountReturns(n)
    BY <1>3 DEF ReadReturns
  <2>2. CASE n > 0 /\ Counted
    <3>1. Again([call EXCEPT !.packets = @ + 1])
      BY <2>1, <2>2 DEF CountReturns
    <3> QED
      BY <1>2, <1>3, <2>2, <3>1
  <2>3. CASE ~(n > 0 /\ Counted)
    <3>1. Return(call.packets)
      BY <2>1, <2>3 DEF CountReturns
    <3> QED
      BY <1>1, <1>3, <2>3, <3>1
  <2> QED
    BY <2>2, <2>3
<1>4. CASE call.op = "loop"
  <2>1. LoopReturns(n)
    BY <1>4 DEF ReadReturns
  <2>2. Return(n) \/ Return(0) \/ Again([call EXCEPT !.cnt = IF @ > 0 THEN @ - n ELSE @])
    BY <2>1 DEF LoopReturns
  <2> QED
    BY <1>1, <1>2, <1>4, <2>2
<1>5. CASE call.op \notin {"loop", "count"}
  <2>1. Return(n)
    BY <1>5 DEF ReadReturns
  <2> QED
    BY <1>1, <1>5, <2>1
<1> QED
  BY <1>3, <1>4, <1>5

\* A pcap_t is not None.
LEMMA NoReader == \A r, blocks : IsReader(r, blocks) => r # None
  BY DEF IsReader, None

\* A count that goes on has not closed its file.
LEMMA ReturnKeepsReader ==
  ASSUME ReaderType, NEW n, NEW r, IsReader(r, file.blocks), UNCHANGED file,
         reader' = After(r, n), ReadReturns(n)
  PROVE  ReaderType' /\ (reader' # None => reader' = r)
<1>1. /\ DOMAIN call' = DOMAIN Idle
      /\ call'.at \in {"idle", "check"}
      /\ call.op = "count" /\ n > 0 /\ Counted <=> call.op = "count" /\ call'.at = "check"
  BY CallGoesOn DEF ReaderType
<1>2. CASE call.op = "count" /\ ~(n > 0 /\ Counted)
  <2>1. reader' = None /\ call'.at = "idle"
    BY <1>1, <1>2 DEF After
  <2> QED
    BY <1>1, <2>1 DEF ReaderType
<1>3. CASE ~(call.op = "count" /\ ~(n > 0 /\ Counted))
  <2>1. reader' = r
    BY <1>3 DEF After
  <2> QED
    BY <1>1, <2>1, NoReader DEF ReaderType
<1> QED
  BY <1>2, <1>3

\* pcap_open_offline and countPcapFile
LEMMA OpenKeeps ==
  ASSUME FileType, ReaderType, NEW op, NEW cnt, OpenFile(op, cnt)
  PROVE  ReaderType' /\ given' = None /\ UNCHANGED <<file, dumper>>
<1>1. given' = None /\ UNCHANGED <<file, dumper>>
  BY DEF OpenFile
<1>2. CASE reader' = None /\ call' = Idle
  BY <1>1, <1>2 DEF ReaderType, Idle
<1>3. CASE ~(reader' = None /\ call' = Idle)
  <2> DEFINE opened == Opened
  <2>1. /\ opened.is \in {"found", "continue"}
        /\ reader' = NewReader(opened.r)
        /\ call' = [Idle EXCEPT !.op = op, !.cnt = cnt,
                                !.at = IF opened.is = "continue" THEN "describe" ELSE AfterOpen(op)]
    BY <1>3 DEF OpenFile, OpenError
  <2> HIDE DEF opened
  <2>2. /\ IsPcapT(opened.r, file.blocks)
        /\ opened.is = "continue" => IsNg(opened.r, file.blocks)
    BY <2>1, OpenedIsTyped DEF opened
  <2>3. IsReader(reader', file.blocks) /\ reader'.pcap = opened.r
    BY <2>1, <2>2 DEF NewReader, IsReader, IsPcapT
  <2>4. /\ DOMAIN call' = DOMAIN Idle
        /\ call'.at = IF opened.is = "continue" THEN "describe" ELSE AfterOpen(op)
    BY <2>1 DEF Idle
  <2>5. call'.at \in {"describe", "check", "idle"} /\ (call'.at = "describe" => opened.is = "continue")
    BY <2>4 DEF AfterOpen
  <2> QED
    BY <1>1, <2>2, <2>3, <2>4, <2>5, NoReader DEF ReaderType, IsNg
<1> QED
  BY <1>1, <1>2, <1>3

\* pcap_ng_check_header, up to the first interface
LEMMA DescribeKeeps ==
  ASSUME FileType, ReaderType, Describe
  PROVE  ReaderType' /\ given' = None /\ UNCHANGED <<file, dumper>>
<1> DEFINE step == SkipToInterface(reader.pcap, file.blocks)
<1>1. /\ given' = None /\ UNCHANGED <<file, dumper>> /\ call.at = "describe"
      /\ \/ OpenError(step.is)
         \/ /\ step.is \in {"found", "continue"}
            /\ reader' = [reader EXCEPT !.pcap = step.r]
            /\ call' = IF step.is = "continue" THEN call ELSE [call EXCEPT !.at = AfterOpen(call.op)]
  BY DEF Describe
<1>2. /\ IsReader(reader, file.blocks) /\ IsNg(reader.pcap, file.blocks)
      /\ Len(file.blocks) \in Nat
      /\ \A n \in 1 .. Len(file.blocks) : IsBlock(file.blocks[n])
  BY <1>1 DEF ReaderType, FileType, IsReader, IsPcapT, IsClassic
<1>3. step.is \in {"found", "continue"} => IsNg(step.r, file.blocks)
  <2> HIDE DEF step
  <2> QED
    BY <1>2, NgDescription DEF step
<1> HIDE DEF step
<1>4. CASE OpenError(step.is)
  BY <1>1, <1>4 DEF OpenError, ReaderType, Idle
<1>5. CASE /\ step.is \in {"found", "continue"}
           /\ reader' = [reader EXCEPT !.pcap = step.r]
           /\ call' = IF step.is = "continue" THEN call ELSE [call EXCEPT !.at = AfterOpen(call.op)]
  <2>1. IsReader(reader', file.blocks) /\ reader'.pcap = step.r
    BY <1>2, <1>3, <1>5 DEF IsReader, IsPcapT
  <2>2. reader'.pcap.format = "ng"
    BY <1>3, <1>5, <2>1 DEF IsNg
  <2>3. DOMAIN call' = DOMAIN Idle /\ call'.at \in {"describe", "check", "idle"}
    <3>1. DOMAIN call = DOMAIN Idle
      BY DEF ReaderType
    <3> QED
      BY <1>1, <1>5, <3>1 DEF AfterOpen, Idle
  <2> QED
    BY <1>1, <2>1, <2>2, <2>3, NoReader DEF ReaderType
<1> QED
  BY <1>1, <1>4, <1>5

\* pcap_offline_read, before a packet
LEMMA BreakCheckKeeps ==
  ASSUME ReaderType, BreakCheck
  PROVE  ReaderType' /\ given' = None /\ UNCHANGED <<file, dumper>>
<1>1. given' = None /\ UNCHANGED <<file, dumper>> /\ call.at = "check" /\ IsReader(reader, file.blocks)
  BY DEF BreakCheck, ReaderType
<1>2. CASE ~reader.break_loop
  <2>1. call' = [call EXCEPT !.at = "next"] /\ UNCHANGED reader
    BY <1>2 DEF BreakCheck
  <2>2. DOMAIN call' = DOMAIN Idle /\ call'.at = "next"
    BY <2>1 DEF ReaderType, Idle
  <2> QED
    BY <1>1, <2>1, <2>2, NoReader DEF ReaderType
<1>3. CASE reader.break_loop
  <2>1. IsReader(reader', file.blocks)
    <3>1. reader' = [reader EXCEPT !.break_loop = FALSE] \/ UNCHANGED reader
      BY <1>3 DEF BreakCheck
    <3> QED
      BY <1>1, <3>1 DEF IsReader
  <2>2. PICK n : ReadReturns(n)
    BY <1>3 DEF BreakCheck
  <2>3. DOMAIN call' = DOMAIN Idle /\ call'.at \in {"idle", "check"}
    BY <2>2, CallGoesOn DEF ReaderType
  <2> QED
    BY <1>1, <2>1, <2>3, NoReader DEF ReaderType
<1> QED
  BY <1>1, <1>2, <1>3

\* Whatever the format, the next packet fits.
LEMMA NextPacketIsTyped ==
  ASSUME FileType, ReaderType, call.at = "next", NEW next, next = NextPacket
  PROVE  /\ next.is = "continue" => IsPcapT(next.r, file.blocks)
         /\ next.is = "packet" =>
              /\ IsPcapT(MovedOn(next), file.blocks)
              /\ Len(next.data) = next.hdr.caplen
              /\ MovedOn(next).format = "pcap" => next.hdr.caplen <= MovedOn(next).bufsize
<1>1. IsReader(reader, file.blocks)
  BY DEF ReaderType
<1>2. CASE IsNg(reader.pcap, file.blocks)
  <2>1. next = pcap_ng_next_packet(reader.pcap, file.blocks) /\ MovedOn(next) = next.r
    BY <1>2 DEF IsNg, NextPacket, MovedOn
  <2>2. Len(file.blocks) \in Nat /\ \A n \in 1 .. Len(file.blocks) : IsBlock(file.blocks[n])
    BY DEF FileType
  <2>3. /\ next.is \in {"packet", "continue"} => IsNg(next.r, file.blocks)
        /\ next.is = "packet" => Len(next.data) = next.hdr.caplen
    BY <1>2, <2>1, <2>2, NgPacket
  <2> QED
    BY <2>1, <2>3 DEF IsPcapT, IsNg
<1>3. CASE IsClassic(reader.pcap)
  <2>1. next = pcap_next_packet(reader.pcap, file.cells) /\ MovedOn(next) = [reader.pcap EXCEPT !.pos = next.pos]
    BY <1>3 DEF IsClassic, NextPacket, MovedOn
  <2>2. next.is # "continue"
    BY <2>1 DEF pcap_next_packet, EndOfFile, Truncated, Bogus
  <2>3. ASSUME next.is = "packet"
        PROVE  /\ next.pos \in Nat
               /\ Len(next.data) = next.hdr.caplen
               /\ next.hdr.caplen <= reader.pcap.bufsize
    BY <1>3, <2>1, <2>3, ClassicPacket DEF FileType
  <2>4. ASSUME next.is = "packet"
        PROVE  IsClassic(MovedOn(next)) /\ MovedOn(next).bufsize = reader.pcap.bufsize
    BY <1>3, <2>1, <2>3, <2>4 DEF IsClassic
  <2> QED
    BY <2>2, <2>3, <2>4 DEF IsPcapT
<1> QED
  BY <1>1, <1>2, <1>3 DEF IsReader, IsPcapT

\* The callback gets the packet as it was read.
LEMMA TakePacketKeeps ==
  ASSUME FileType, ReaderType, call.at = "next", NEW next, next = NextPacket, next.is = "packet",
         TakePacket(next), UNCHANGED file
  PROVE  ReaderType' /\ KeepsWithinBuffer'
<1> DEFINE r == [reader EXCEPT !.pcap = MovedOn(next), !.read = @ + 1]
           n == call.n + 1
<1>1. /\ IsPcapT(MovedOn(next), file.blocks)
      /\ Len(next.data) = next.hdr.caplen
      /\ MovedOn(next).format = "pcap" => next.hdr.caplen <= MovedOn(next).bufsize
  BY NextPacketIsTyped
<1>2. IsReader(r, file.blocks) /\ r.pcap = MovedOn(next)
  <2>1. IsReader(reader, file.blocks)
    BY DEF ReaderType
  <2>2. r.is = reader.is /\ r.pcap = MovedOn(next)
    BY <2>1 DEF IsReader
  <2>3. DOMAIN r = DOMAIN reader
    OBVIOUS
  <2> HIDE DEF r
  <2> QED
    BY <1>1, <2>1, <2>2, <2>3 DEF IsReader, IsPcapT
<1>3. \/ reader' = r /\ call' = [call EXCEPT !.at = "check"] /\ given' = None
      \/ /\ given' = [is |-> "packet", n |-> r.read, hdr |-> next.hdr, data |-> next.data]
         /\ \/ reader' = After(r, n) /\ ReadReturns(n)
            \/ reader' = r /\ call' = [call EXCEPT !.at = "check", !.n = n]
  BY DEF TakePacket, Quiet
<1> HIDE DEF r, n
<1>4. reader' \in {None, r} /\ ReaderType'
  <2>1. DOMAIN call = DOMAIN Idle
    BY DEF ReaderType
  <2>2. CASE reader' = After(r, n) /\ ReadReturns(n)
    BY <1>2, <2>2, ReturnKeepsReader
  <2>3. CASE reader' = r /\ (call' = [call EXCEPT !.at = "check"] \/ call' = [call EXCEPT !.at = "check", !.n = n])
    <3>1. DOMAIN call' = DOMAIN Idle /\ call'.at = "check"
      BY <2>1, <2>3 DEF Idle
    <3> QED
      BY <1>2, <2>3, <3>1, NoReader DEF ReaderType
  <2> QED
    BY <1>3, <2>2, <2>3
<1>5. given' = None \/ (given'.hdr = next.hdr /\ given'.data = next.data)
  BY <1>3
<1> QED
  BY <1>1, <1>2, <1>4, <1>5 DEF KeepsWithinBuffer

\* pcap_offline_read, the packet or the end
LEMMA ReadPacketKeeps ==
  ASSUME FileType, ReaderType, ReadPacket
  PROVE  ReaderType' /\ KeepsWithinBuffer' /\ UNCHANGED <<file, dumper>>
<1> DEFINE next == NextPacket
<1>1. /\ call.at = "next" /\ UNCHANGED <<file, dumper>>
      /\ \/ next.is = "packet" /\ TakePacket(next)
         \/ next.is = "continue" /\ reader' = [reader EXCEPT !.pcap = next.r] /\ Quiet /\ UNCHANGED call
         \/ \E why, value : Ends(why, value)
  BY DEF ReadPacket, ReadError
<1>2. IsReader(reader, file.blocks)
  BY <1>1 DEF ReaderType
<1> HIDE DEF next
<1>3. CASE next.is = "packet" /\ TakePacket(next)
  BY <1>1, <1>3, TakePacketKeeps DEF next
<1>4. CASE next.is = "continue" /\ reader' = [reader EXCEPT !.pcap = next.r] /\ Quiet /\ UNCHANGED call
  <2>1. IsPcapT(next.r, file.blocks)
    BY <1>1, <1>4, NextPacketIsTyped DEF next
  <2>2. IsReader(reader', file.blocks)
    BY <1>2, <1>4, <2>1 DEF IsReader, IsPcapT
  <2> QED
    BY <1>1, <1>4, <2>2, NoReader DEF ReaderType, KeepsWithinBuffer, Quiet
<1>5. ASSUME NEW why, NEW value, Ends(why, value)
      PROVE  ReaderType' /\ KeepsWithinBuffer'
  <2> DEFINE r == [reader EXCEPT !.ended = why]
  <2>1. IsReader(r, file.blocks)
    BY <1>2 DEF IsReader
  <2>2. reader' = After(r, value) /\ ReadReturns(value) /\ given' = None
    BY <1>5 DEF Ends
  <2> HIDE DEF r
  <2>3. ReaderType'
    BY <1>1, <2>1, <2>2, ReturnKeepsReader
  <2> QED
    BY <2>2, <2>3 DEF KeepsWithinBuffer
<1> QED
  BY <1>1, <1>3, <1>4, <1>5

\* The program's other calls
LEMMA UseKeeps ==
  ASSUME ReaderType, Use
  PROVE  ReaderType' /\ given' = None /\ UNCHANGED <<file, dumper>>
<1>1. given' = None /\ UNCHANGED <<file, dumper>>
  BY DEF Use, pcap_dispatch, pcap_loop, pcap_next, Begin, pcap_breakloop, pcap_setfilter, pcap_close, Quiet
<1>2. ASSUME NEW op, NEW cnt, Begin(op, cnt)
      PROVE  ReaderType'
  <2>1. DOMAIN call' = DOMAIN Idle /\ call'.at = "check" /\ UNCHANGED reader /\ reader # None
    BY <1>2 DEF Begin, Ready, Idle
  <2> QED
    BY <1>1, <2>1 DEF ReaderType
<1>3. CASE pcap_breakloop
  <2>1. IsReader(reader', file.blocks) /\ call.at # "describe"
    BY <1>3 DEF pcap_breakloop, ReaderType, IsReader
  <2>2. DOMAIN call' = DOMAIN Idle /\ call'.at = call.at
    BY <1>3 DEF pcap_breakloop, ReaderType, Idle
  <2> QED
    BY <1>1, <2>1, <2>2, NoReader DEF ReaderType
<1>4. CASE pcap_setfilter
  <2>1. IsReader(reader', file.blocks) /\ UNCHANGED call /\ call.at = "idle"
    BY <1>4 DEF pcap_setfilter, Ready, ReaderType, IsReader
  <2> QED
    BY <1>1, <2>1, NoReader DEF ReaderType
<1>5. CASE pcap_close
  BY <1>1, <1>5 DEF pcap_close, ReaderType, Idle
<1> QED
  <2>1. CASE pcap_dispatch \/ pcap_loop \/ pcap_next
    BY <1>1, <1>2, <2>1 DEF pcap_dispatch, pcap_loop, pcap_next
  <2> QED
    BY <1>1, <1>3, <1>4, <1>5, <2>1 DEF Use

-----------------------------------------------------------------------------

\* The invariant holds of every file that can be opened,
LEMMA SavefileStarts == SavefileInit => Kept
<1> SUFFICES ASSUME SavefileInit
             PROVE  Kept
  OBVIOUS
<1>1. FileType
  <2>1. CASE file = NewFile
    <3>1. file.cells = <<>> /\ file.blocks = <<>>
      BY <2>1 DEF NewFile
    <3> QED
      BY <2>1, <3>1, EmptySeq DEF FileType
  <2>2. CASE file \in Others
    <3>1. \A n \in 1 .. Len(file.blocks) : file.blocks[n] \in ToSet(file.blocks)
      BY <2>2, SavefileAssumption
    <3> QED
      BY <2>2, <3>1, SavefileAssumption DEF FileType
  <2> QED
    BY <2>1, <2>2 DEF SavefileInit
<1>2. DumperType
  BY EmptySeq DEF SavefileInit, DumperType, Closed
<1>3. ReaderType /\ KeepsWithinBuffer
  BY DEF SavefileInit, ReaderType, KeepsWithinBuffer, Idle
<1> QED
  BY <1>1, <1>2, <1>3 DEF Kept

\* and every step keeps it.
LEMMA SavefileStep == Kept /\ [SavefileNext]_savefileVars => Kept'
<1> SUFFICES ASSUME Kept, [SavefileNext]_savefileVars
             PROVE  Kept'
  OBVIOUS
<1>0. FileType /\ DumperType /\ ReaderType /\ KeepsWithinBuffer
  BY DEF Kept
<1>1. ASSUME UNCHANGED <<file, dumper>>
      PROVE  FileType' /\ DumperType'
  BY <1>0, <1>1 DEF FileType, DumperType
<1>2. CASE Write
  BY <1>0, <1>2, WriteKeepsFile, WriteKeepsReader DEF Kept, KeepsWithinBuffer
<1>3. CASE Read
  <2>1. CASE pcap_open_offline
    BY <1>0, <1>1, <2>1, OpenKeeps DEF pcap_open_offline, Kept, KeepsWithinBuffer
  <2>2. CASE countPcapFile
    <3>1. PICK max \in Counts : OpenFile("count", max)
      BY <2>2 DEF countPcapFile
    <3> QED
      BY <1>0, <1>1, <3>1, OpenKeeps DEF Kept, KeepsWithinBuffer
  <2>3. CASE Describe
    BY <1>0, <1>1, <2>3, DescribeKeeps DEF Kept, KeepsWithinBuffer
  <2>4. CASE BreakCheck
    BY <1>0, <1>1, <2>4, BreakCheckKeeps DEF Kept, KeepsWithinBuffer
  <2>5. CASE ReadPacket
    BY <1>0, <1>1, <2>5, ReadPacketKeeps DEF Kept
  <2> QED
    BY <1>3, <2>1, <2>2, <2>3, <2>4, <2>5 DEF Read
<1>4. CASE Use
  BY <1>0, <1>1, <1>4, UseKeeps DEF Kept, KeepsWithinBuffer
<1>5. CASE UNCHANGED savefileVars
  BY <1>0, <1>5 DEF savefileVars, Kept, FileType, DumperType, ReaderType, KeepsWithinBuffer
<1> QED
  BY <1>2, <1>3, <1>4, <1>5 DEF SavefileNext

\* Neither pcap_offline_read nor countPcapFile gives a packet of another length than its header says, or
\* one longer than the buffer that pcap_check_header has made: for any bytes in the file, whole or cut
\* anywhere, of either byte order and format, written to meanwhile or not, and whatever the snapshot length.
THEOREM PacketsFitTheirBuffer == SavefileSpec => []KeepsWithinBuffer
<1>1. Kept => KeepsWithinBuffer
  BY DEF Kept
<1> QED
  BY <1>1, SavefileStarts, SavefileStep, PTL DEF SavefileSpec

=============================================================================
