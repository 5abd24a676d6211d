-------------------------- MODULE PcapLoggerProofs --------------------------
(***************************************************************************)
(* Proofs about PcapLogger, for any number of radios, logs and frames.     *)
(***************************************************************************)
EXTENDS PcapLogger, SequenceTheorems, TLAPS

\* What stdio is given keeps the type of the files.
LEMMA FwriteType ==
  ASSUME TypeOK, NEW n \in Sessions, NEW c \in Chunk, Fwrite(n, c)
  PROVE  /\ file' \in [Paths -> Seq(Chunk)]
         /\ synced' \in [Paths -> Nat]
<1> DEFINE p == sessionPath[n]
<1>1. p \in Paths
  BY DEF TypeOK
<1>2. file[p] \in Seq(Chunk) /\ synced[p] \in Nat /\ Len(file[p]) \in Nat
  BY <1>1 DEF TypeOK
<1>3. Append(file[p], c) \in Seq(Chunk)
  BY <1>2
<1>4. file' = [file EXCEPT ![p] = Append(file[p], c)]
  BY DEF Fwrite
<1>5. file' \in [Paths -> Seq(Chunk)]
  BY <1>1, <1>3, <1>4 DEF TypeOK
<1>6. PICK k \in synced[p] .. Len(file[p]) + 1 : synced' = [synced EXCEPT ![p] = k]
  BY DEF Fwrite
<1>7. k \in Nat
  BY <1>2, <1>6
<1> QED BY <1>1, <1>5, <1>6, <1>7 DEF TypeOK

LEMMA ChunkType ==
  ASSUME NEW s \in Sources, NEW n \in Lengths
  PROVE  Header(s, n) \in Chunk /\ Data(s, n) \in Chunk
BY DEF Header, Data, Chunk

\* What a capture thread's registers are.
LEMMA ThreadFields ==
  ASSUME NEW t \in Thread
  PROVE  /\ t \in [at : CaptureAt, frame : Lengths, count : Nat, ref : Sessions \cup {NoState}]
         /\ t.at \in CaptureAt /\ t.frame \in Lengths /\ t.count \in Nat
         /\ t.ref \in Sessions \cup {NoState}
         /\ t.at \in {"header", "data"} => t.ref # NoState
<1>1. t \in [at : CaptureAt, frame : Lengths, count : Nat, ref : Sessions \cup {NoState}]
  BY DEF Thread
<1>2. t.at \in {"header", "data"} => t.ref # NoState
  BY DEF Thread
<1> QED BY <1>1, <1>2

\* The registers stay well typed along every step of a capture thread.
LEMMA ThreadStep ==
  ASSUME TypeOK, NEW s \in Sources, CaptureStep(s)
  PROVE  capture' \in [Sources -> Thread]
<1> DEFINE t == capture[s]
<1>1. capture \in [Sources -> Thread] /\ t \in Thread
  BY DEF TypeOK
<1>2. /\ t \in [at : CaptureAt, frame : Lengths, count : Nat, ref : Sessions \cup {NoState}]
      /\ t.at \in {"header", "data"} => t.ref # NoState
      /\ handledPackets \in Nat /\ handledBytes \in Nat
      /\ pcapState \in Sessions \cup {NoState}
  BY <1>1, ThreadFields DEF TypeOK
<1>3. ASSUME NEW r \in Thread, capture' = [capture EXCEPT ![s] = r]
      PROVE  capture' \in [Sources -> Thread]
  BY <1>1, <1>3
<1> HIDE DEF t
<1>4. ASSUME NEW n \in Lengths, HandlePacket(s, n) PROVE capture' \in [Sources -> Thread]
  <2> DEFINE r == [t EXCEPT !.at = IF loggingEnabled THEN "count" ELSE "read", !.frame = n]
  <2>1. r \in Thread
    BY <1>2, <1>4 DEF Thread, CaptureAt, HandlePacket
  <2>2. capture' = [capture EXCEPT ![s] = r]
    BY <1>4 DEF HandlePacket, t
  <2> QED BY <1>3, <2>1, <2>2
<1>5. ASSUME LoadPackets(s) PROVE capture' \in [Sources -> Thread]
  <2> DEFINE r == [t EXCEPT !.at = "store", !.count = handledPackets]
  <2>1. r \in Thread
    BY <1>2, <1>5 DEF Thread, CaptureAt, LoadPackets
  <2>2. capture' = [capture EXCEPT ![s] = r]
    BY <1>5 DEF LoadPackets, t
  <2> QED BY <1>3, <2>1, <2>2
<1>6. ASSUME LoadBytes(s) PROVE capture' \in [Sources -> Thread]
  <2> DEFINE r == [t EXCEPT !.at = "storeBytes", !.count = handledBytes]
  <2>1. r \in Thread
    BY <1>2, <1>6 DEF Thread, CaptureAt, LoadBytes
  <2>2. capture' = [capture EXCEPT ![s] = r]
    BY <1>6 DEF LoadBytes, t
  <2> QED BY <1>3, <2>1, <2>2
<1>7. ASSUME LookupState(s) PROVE capture' \in [Sources -> Thread]
  <2> DEFINE r == [t EXCEPT !.at = "header", !.ref = pcapState]
  <2>1. r \in Thread
    BY <1>2, <1>7 DEF Thread, CaptureAt, LookupState
  <2>2. capture' = [capture EXCEPT ![s] = r]
    BY <1>7 DEF LookupState, t
  <2> QED BY <1>3, <2>1, <2>2
<1>8. ASSUME NEW a \in CaptureAt, NEW b \in CaptureAt, Go(s, a, b),
             b \in {"header", "data"} => a = "header"
      PROVE  capture' \in [Sources -> Thread]
  <2> DEFINE r == [t EXCEPT !.at = b]
  <2>1. t.at = a
    BY <1>8 DEF Go, t
  <2>2. r \in Thread
    BY <1>2, <1>8, <2>1 DEF Thread
  <2>3. capture' = [capture EXCEPT ![s] = r]
    BY <1>8 DEF Go, t
  <2> QED BY <1>3, <2>2, <2>3
<1>9. ASSUME StorePackets(s) \/ StoreBytes(s) PROVE capture' \in [Sources -> Thread]
  BY <1>8, <1>9 DEF StorePackets, StoreBytes, CaptureAt
<1>10. ASSUME WriteHeader(s) \/ WriteData(s) \/ WriteClosed(s)
       PROVE  capture' \in [Sources -> Thread]
  BY <1>8, <1>10 DEF WriteHeader, WriteData, WriteClosed, CaptureAt
<1>11. ASSUME LogNotOpen(s) PROVE capture' \in [Sources -> Thread]
  BY <1>1, <1>11 DEF LogNotOpen, captureVars
<1> QED BY <1>4, <1>5, <1>6, <1>7, <1>9, <1>10, <1>11 DEF CaptureStep

\* Every step keeps the types.
LEMMA TypeStep ==
  ASSUME TypeOK, LogHandle, [Next]_vars
  PROVE  TypeOK'
<1> USE LogAssumption DEF Sessions
<1>1. ASSUME StopLogging PROVE TypeOK'
  BY <1>1 DEF StopLogging, TypeOK, MainAt, counters, files, captureVars, fate
<1>2. ASSUME NEW p \in Paths, StartLogging(p) PROVE TypeOK'
  <2>1. starts + 1 \in Sessions /\ starts' \in 0 .. MaxStarts
    BY <1>2 DEF StartLogging, TypeOK
  <2>2. main' \in [at : MainAt, then : {"idle", "reset"}, path : Paths]
    BY <1>2 DEF StartLogging, TypeOK, MainAt
  <2>3. sessionPath' \in [Sessions -> Paths]
    BY <1>2, <2>1 DEF StartLogging, TypeOK
  <2> QED BY <1>2, <2>1, <2>2, <2>3
          DEF StartLogging, TypeOK, counters, files, captureVars, fate
<1>3. ASSUME ClosePcap PROVE TypeOK'
  <2>1. pcapState \in Sessions
    BY <1>3 DEF ClosePcap, TypeOK, LogHandle
  <2>2. sessionPath[pcapState] \in Paths
    BY <2>1 DEF TypeOK
  <2>3. Len(file[sessionPath[pcapState]]) \in Nat
    BY <2>2 DEF TypeOK
  <2>4. synced' \in [Paths -> Nat]
    BY <1>3, <2>2, <2>3 DEF ClosePcap, TypeOK
  <2> QED BY <1>3, <2>4 DEF ClosePcap, TypeOK, MainAt, counters, captureVars, fate
<1>4. ASSUME ClearState PROVE TypeOK'
  BY <1>4 DEF ClearState, TypeOK, MainAt, counters, files, captureVars, fate
<1>5. ASSUME DisableLogging PROVE TypeOK'
  BY <1>5 DEF DisableLogging, TypeOK, MainAt, counters, files, captureVars, fate
<1>6. ASSUME ResetCounters PROVE TypeOK'
  BY <1>6 DEF ResetCounters, TypeOK, MainAt, counters, files, captureVars, fate
<1>7. ASSUME OpenPcap PROVE TypeOK'
  <2>1. main.path \in Paths
    BY DEF TypeOK
  <2>2. file' \in [Paths -> Seq(Chunk)] /\ synced' \in [Paths -> Nat]
    BY <1>7, <2>1 DEF OpenPcap, TypeOK
  <2>3. starts \in Sessions
    BY <1>7 DEF OpenPcap, TypeOK, LogHandle
  <2> QED BY <1>7, <2>2, <2>3 DEF OpenPcap, TypeOK, MainAt, counters, captureVars, fate
<1>8. ASSUME OpenPcapFails PROVE TypeOK'
  BY <1>8 DEF OpenPcapFails, TypeOK, MainAt, counters, files, captureVars, fate
<1>9. ASSUME EnableLogging PROVE TypeOK'
  BY <1>9 DEF EnableLogging, TypeOK, MainAt, counters, files, captureVars, fate
<1>10. ASSUME NEW s \in Sources, CaptureStep(s) PROVE TypeOK'
  <2>1. capture' \in [Sources -> Thread]
    BY <1>10, ThreadStep
  <2>2. capture[s] \in Thread /\ opened \subseteq Sessions
    BY DEF TypeOK
  <2>3. /\ capture[s].frame \in Lengths
        /\ capture[s].count + 1 \in Nat
        /\ capture[s].count + capture[s].frame \in Nat
    <3>1. capture[s].frame \in Lengths /\ capture[s].count \in Nat
      BY <2>2, ThreadFields
    <3>2. capture[s].frame \in Nat
      BY <3>1
    <3> QED BY <3>1, <3>2
  <2>4. Header(s, capture[s].frame) \in Chunk /\ Data(s, capture[s].frame) \in Chunk
    BY <2>3, ChunkType
  <2>5. ASSUME NEW n \in Lengths, HandlePacket(s, n) PROVE TypeOK'
    <3>1. captured' \in [Sources -> 0 .. MaxFrames]
      <4>1. captured[s] \in 0 .. MaxFrames /\ captured[s] < MaxFrames
        BY <2>5 DEF HandlePacket, TypeOK
      <4>2. captured[s] + 1 \in 0 .. MaxFrames
        BY <4>1
      <4> QED BY <2>5, <4>2 DEF HandlePacket, TypeOK
    <3>2. UNCHANGED <<mainVars, counters, files, fate>>
      BY <2>5 DEF HandlePacket
    <3> QED BY <2>1, <3>1, <3>2 DEF TypeOK, mainVars, counters, files, fate
  <2>6. CASE LoadPackets(s) \/ LoadBytes(s) \/ LookupState(s)
    BY <2>1, <2>6 DEF LoadPackets, LoadBytes, LookupState, TypeOK, mainVars, counters,
                      files, fate
  <2>7. CASE StorePackets(s) \/ StoreBytes(s)
    BY <2>1, <2>3, <2>7 DEF StorePackets, StoreBytes, Go, TypeOK, mainVars, files, fate
  <2>8. CASE LogNotOpen(s)
    BY <2>1, <2>8 DEF LogNotOpen, TypeOK, mainVars, counters, files, captureVars
  <2>9. CASE WriteHeader(s) \/ WriteData(s)
    <3>1. file' \in [Paths -> Seq(Chunk)] /\ synced' \in [Paths -> Nat]
      BY <2>2, <2>4, <2>9, FwriteType DEF WriteHeader, WriteData
    <3> QED BY <2>1, <2>9, <3>1 DEF WriteHeader, WriteData, Go, TypeOK, mainVars, counters,
                                    fate
  <2>10. CASE WriteClosed(s)
    <3>1. captured' = captured
      BY <2>10 DEF WriteClosed, Go
    <3>2. file' \in [Paths -> Seq(Chunk)] /\ synced' \in [Paths -> Nat] /\ crashed' \in BOOLEAN
      <4>1. CASE UNCHANGED files
        BY <2>10, <4>1 DEF WriteClosed, TypeOK, files
      <4>2. CASE ~ UNCHANGED files
        <5>1. PICK n \in opened, c \in Chunk : Fwrite(n, c)
          BY <2>4, <2>10, <4>2 DEF WriteClosed
        <5> QED BY <2>2, <2>10, <4>2, <5>1, FwriteType DEF WriteClosed, TypeOK
      <4> QED BY <4>1, <4>2
    <3> QED BY <2>1, <2>10, <3>1, <3>2 DEF WriteClosed, TypeOK, mainVars, counters
  <2> QED BY <1>10, <2>5, <2>6, <2>7, <2>8, <2>9, <2>10 DEF CaptureStep
<1>11. CASE UNCHANGED vars
  BY <1>11 DEF TypeOK, vars, mainVars, counters, files, captureVars, fate
<1> QED
  BY <1>1, <1>2, <1>3, <1>4, <1>5, <1>6, <1>7, <1>8, <1>9, <1>10, <1>11
  DEF Next, MainStep

\* Every step keeps loggingEnabled, pcap_state and the open FILE in agreement
\* with where the main thread is.
LEMMA HandleStep ==
  ASSUME TypeOK, LogHandle, [Next]_vars
  PROVE  LogHandle'
<1> USE LogAssumption DEF Sessions
<1>0. starts # NoState /\ main.then \in {"idle", "reset"} /\ starts \in Nat
  BY DEF TypeOK
<1>1. ASSUME StopLogging PROVE LogHandle'
  BY <1>1 DEF StopLogging, TypeOK, LogHandle
<1>2. ASSUME NEW p \in Paths, StartLogging(p) PROVE LogHandle'
  BY <1>0, <1>2 DEF StartLogging, TypeOK, LogHandle
<1>3. ASSUME ClosePcap PROVE LogHandle'
  BY <1>3 DEF ClosePcap, TypeOK, LogHandle
<1>4. ASSUME ClearState PROVE LogHandle'
  BY <1>4 DEF ClearState, TypeOK, LogHandle
<1>5. ASSUME DisableLogging PROVE LogHandle'
  BY <1>0, <1>5 DEF DisableLogging, TypeOK, LogHandle
<1>6. ASSUME ResetCounters PROVE LogHandle'
  BY <1>6 DEF ResetCounters, TypeOK, LogHandle
<1>7. ASSUME OpenPcap PROVE LogHandle'
  BY <1>0, <1>7 DEF OpenPcap, TypeOK, LogHandle
<1>8. ASSUME OpenPcapFails PROVE LogHandle'
  BY <1>8 DEF OpenPcapFails, TypeOK, LogHandle
<1>9. ASSUME EnableLogging PROVE LogHandle'
  BY <1>9 DEF EnableLogging, TypeOK, LogHandle
<1>10. ASSUME NEW s \in Sources, CaptureStep(s) PROVE LogHandle'
  <2>1. UNCHANGED mainVars
    BY <1>10 DEF CaptureStep, HandlePacket, LoadPackets, StorePackets, LoadBytes,
       StoreBytes, LookupState, LogNotOpen, WriteHeader, WriteData, WriteClosed
  <2> QED BY <2>1 DEF LogHandle, mainVars
<1>11. CASE UNCHANGED vars
  BY <1>11 DEF LogHandle, vars, mainVars
<1> QED
  BY <1>1, <1>2, <1>3, <1>4, <1>5, <1>6, <1>7, <1>8, <1>9, <1>10, <1>11
  DEF Next, MainStep

LEMMA InitHandle == Init => TypeOK /\ LogHandle
<1> SUFFICES ASSUME Init PROVE TypeOK /\ LogHandle
  OBVIOUS
<1>1. LogHandle
  BY LogAssumption DEF Init, LogHandle, Sessions
<1>2. main \in [at : MainAt, then : {"idle", "reset"}, path : Paths]
  BY DEF Init, MainAt
<1>3. capture \in [Sources -> Thread]
  <2>1. PICK n \in Lengths :
          capture = [s \in Sources |->
                      [at |-> "read", frame |-> n, count |-> 0, ref |-> NoState]]
    BY DEF Init
  <2>2. [at |-> "read", frame |-> n, count |-> 0, ref |-> NoState] \in Thread
    BY DEF Thread, CaptureAt
  <2> QED BY <2>1, <2>2
<1>4. sessionPath \in [Sessions -> Paths]
  BY DEF Init
<1>5. file \in [Paths -> Seq(Chunk)]
  BY DEF Init
<1>6. /\ synced \in [Paths -> Nat]
      /\ captured \in [Sources -> 0 .. MaxFrames]
      /\ starts \in 0 .. MaxStarts
  BY LogAssumption DEF Init
<1>7. /\ loggingEnabled = FALSE /\ pcapState = NoState /\ opened = {}
      /\ handledPackets = 0 /\ handledBytes = 0
      /\ raced = FALSE /\ crashed = FALSE
  BY DEF Init
<1>8. TypeOK
  BY <1>2, <1>3, <1>4, <1>5, <1>6, <1>7 DEF TypeOK
<1> QED BY <1>1, <1>8

\* The types hold in every state of every execution.
THEOREM TypeCorrect == Spec => []TypeOK
<1>1. TypeOK /\ LogHandle /\ [Next]_vars => (TypeOK /\ LogHandle)'
  BY TypeStep, HandleStep
<1> QED BY <1>1, InitHandle, PTL DEF Spec

\* loggingEnabled, pcap_state and the open FILE agree in every state of every
\* execution, however many radios deliver frames meanwhile.
THEOREM HandleCorrect == Spec => []LogHandle
<1>1. TypeOK /\ LogHandle /\ [Next]_vars => (TypeOK /\ LogHandle)'
  BY TypeStep, HandleStep
<1> QED BY <1>1, InitHandle, PTL DEF Spec

\* Between two calls on the main thread no FILE is leaked and none is missing.
THEOREM FlagCorrect == Spec => []FlagMatchesFile
<1>1. LogHandle => FlagMatchesFile
  BY DEF LogHandle, FlagMatchesFile
<1> QED BY <1>1, HandleCorrect, PTL

-----------------------------------------------------------------------------
\* Steps that touch no file and open or close none.
FilesAlone == UNCHANGED <<opened, files>> /\ OpenPaths' = OpenPaths

LEMMA AloneStep ==
  ASSUME TypeOK, LogHandle,
         \/ StopLogging \/ (\E p \in Paths : StartLogging(p)) \/ ClearState
         \/ DisableLogging \/ ResetCounters \/ OpenPcapFails \/ EnableLogging
         \/ UNCHANGED vars
  PROVE  FilesAlone
<1> USE LogAssumption DEF Sessions
<1>1. ASSUME NEW p \in Paths, StartLogging(p) PROVE FilesAlone
  <2>1. UNCHANGED <<opened, files>>
    BY <1>1 DEF StartLogging
  <2>2. \A n \in opened : n \in Sessions /\ n <= starts
    BY DEF TypeOK, LogHandle
  <2>3. \A n \in opened : sessionPath'[n] = sessionPath[n]
    BY <1>1, <2>2 DEF StartLogging, TypeOK
  <2> QED BY <2>1, <2>3 DEF FilesAlone, OpenPaths
<1>2. CASE \/ StopLogging \/ ClearState \/ DisableLogging \/ ResetCounters
           \/ OpenPcapFails \/ EnableLogging \/ UNCHANGED vars
  BY <1>2 DEF StopLogging, ClearState, DisableLogging, ResetCounters, OpenPcapFails,
     EnableLogging, vars, mainVars, files, FilesAlone, OpenPaths
<1> QED BY <1>1, <1>2

\* A capture thread opens and closes nothing, and writes to nothing but an open log.
LEMMA CaptureFiles ==
  ASSUME TypeOK, NEW s \in Sources, CaptureStep(s)
  PROVE  /\ OpenPaths' = OpenPaths
         /\ \A p \in Paths \ OpenPaths : file'[p] = file[p] /\ synced'[p] = synced[p]
<1>1. UNCHANGED mainVars
  BY DEF CaptureStep, HandlePacket, LoadPackets, StorePackets, LoadBytes,
     StoreBytes, LookupState, LogNotOpen, WriteHeader, WriteData, WriteClosed
<1>2. OpenPaths' = OpenPaths
  BY <1>1 DEF mainVars, OpenPaths
<1>3. UNCHANGED files \/ \E n \in opened : \E c : Fwrite(n, c)
  BY DEF CaptureStep, HandlePacket, LoadPackets, StorePackets, LoadBytes,
     StoreBytes, LookupState, LogNotOpen, WriteHeader, WriteData, WriteClosed
<1>4. ASSUME NEW n \in opened, NEW c, Fwrite(n, c), NEW p \in Paths \ OpenPaths
      PROVE  file'[p] = file[p] /\ synced'[p] = synced[p]
  <2>1. p # sessionPath[n]
    BY DEF OpenPaths
  <2> QED BY <1>4, <2>1 DEF Fwrite, TypeOK
<1> QED BY <1>2, <1>3, <1>4 DEF files

LEMMA SyncedStep ==
  ASSUME TypeOK, LogHandle, ClosedIsSynced, [Next]_vars
  PROVE  ClosedIsSynced'
<1> USE DEF ClosedIsSynced
<1>1. CASE \/ StopLogging \/ (\E p \in Paths : StartLogging(p)) \/ ClearState
           \/ DisableLogging \/ ResetCounters \/ OpenPcapFails \/ EnableLogging
           \/ UNCHANGED vars
  BY <1>1, AloneStep DEF FilesAlone, files
<1>2. CASE ClosePcap
  <2>1. opened = {pcapState} /\ UNCHANGED <<sessionPath, file>>
    BY <1>2 DEF ClosePcap, LogHandle
  <2> QED BY <1>2, <2>1 DEF ClosePcap, TypeOK, OpenPaths
<1>3. CASE OpenPcap
  <2>1. opened = {} /\ OpenPaths = {}
    BY <1>3 DEF OpenPcap, LogHandle, OpenPaths
  <2>2. \A p \in Paths : \/ file'[p] = file[p] /\ synced'[p] = synced[p]
                         \/ file'[p] = <<>> /\ synced'[p] = 0
    <3>1. /\ file' = [file EXCEPT ![main.path] = <<>>]
          /\ synced' = [synced EXCEPT ![main.path] = 0]
      BY <1>3 DEF OpenPcap
    <3> QED BY <3>1 DEF TypeOK
  <2> QED BY <2>1, <2>2
<1>4. ASSUME NEW s \in Sources, CaptureStep(s) PROVE ClosedIsSynced'
  BY <1>4, CaptureFiles
<1> QED BY <1>1, <1>2, <1>3, <1>4 DEF Next, MainStep

\* In every execution a log that is not open is in its file to the last byte.
THEOREM SyncedCorrect == Spec => []ClosedIsSynced
<1>1. Init => ClosedIsSynced
  BY DEF Init, ClosedIsSynced
<1>2. TypeOK /\ LogHandle /\ ClosedIsSynced /\ [Next]_vars => ClosedIsSynced'
  BY SyncedStep
<1> QED BY <1>1, <1>2, TypeCorrect, HandleCorrect, PTL DEF Spec

\* In no execution does a step change a log that is open neither before it nor after.
THEOREM FinalCorrect == Spec => ClosedIsFinal
<1> DEFINE Final == \A p \in Paths \ (OpenPaths \cup OpenPaths') :
                      file'[p] = file[p] /\ synced'[p] = synced[p]
<1>1. ASSUME TypeOK, LogHandle, [Next]_vars PROVE Final
  <2>1. CASE \/ StopLogging \/ (\E p \in Paths : StartLogging(p)) \/ ClearState
             \/ DisableLogging \/ ResetCounters \/ OpenPcapFails \/ EnableLogging
             \/ UNCHANGED vars
    BY <1>1, <2>1, AloneStep DEF FilesAlone, files
  <2>2. CASE ClosePcap
    <3>1. pcapState \in opened /\ UNCHANGED file
      BY <1>1, <2>2 DEF ClosePcap, LogHandle
    <3> QED BY <1>1, <2>2, <3>1 DEF ClosePcap, TypeOK, OpenPaths
  <2>3. CASE OpenPcap
    <3>1. main.path = sessionPath'[starts] /\ starts \in opened'
      BY <1>1, <2>3 DEF OpenPcap, LogHandle
    <3>2. main.path \in OpenPaths'
      BY <3>1 DEF OpenPaths
    <3> QED BY <1>1, <2>3, <3>2 DEF OpenPcap, TypeOK
  <2>4. ASSUME NEW s \in Sources, CaptureStep(s) PROVE Final
    BY <1>1, <2>4, CaptureFiles
  <2> QED BY <1>1, <2>1, <2>2, <2>3, <2>4 DEF Next, MainStep
<1>2. TypeOK /\ LogHandle /\ [Next]_vars => [Final]_vars
  BY <1>1
<1> QED BY <1>2, TypeCorrect, HandleCorrect, PTL DEF Spec, ClosedIsFinal

-----------------------------------------------------------------------------
(***************************************************************************)
(* One radio: its log is whole and counted, and it keeps the promise of    *)
(* CaptureLog.  With two radios neither holds: the records of the two get  *)
(* mixed.                                                                  *)
(***************************************************************************)

\* Hypothesis of the theorems: s is the only radio.
OnlyRadio(s) == Sources = {s}

-----------------------------------------------------------------------------
(* The inductive invariant. *)

\* A start has been asked for and the session it got is not opened yet.
Starting ==
  \/ main.at \in {"reset", "open"}
  \/ main.at \in {"close", "clear", "disable"} /\ main.then = "reset"

\* Sessions are numbered as they start: neither pcap_state nor a capture thread
\* holds one that is yet to be opened.
RefsAreOld ==
  /\ Starting => pcapState # starts
  /\ main.at = "enable" => pcapState = starts
  /\ \A s \in Sources : capture[s].ref # NoState =>
       /\ capture[s].ref <= starts
       /\ Starting => capture[s].ref # starts

\* What was flushed was written.
SyncedWithin == \A p \in Paths : synced[p] <= Len(file[p])

\* The records of a file: header, data, header, data...
Alternates(f) ==
  \A i \in 1 .. Len(f) : f[i].part = IF i % 2 = 1 THEN "header" ELSE "data"

Paired(f) ==
  \A i \in 1 .. Len(f) : i % 2 = 0 => f[i].src = f[i - 1].src /\ f[i].len = f[i - 1].len

\* Thread s has written the header that file p ends with, and not the packet.
HalfWritten(s, p) ==
  /\ capture[s].at = "data"
  /\ sessionPath[capture[s].ref] = p
  /\ file[p][Len(file[p])] = Header(s, capture[s].frame)

\* A file is whole records, but for one that a thread is writing.
WholeFile(S, p) ==
  /\ Alternates(file[p])
  /\ Paired(file[p])
  /\ Len(file[p]) % 2 = 1 => \E s \in S : HalfWritten(s, p)

\* And the other way round, as long as the thread's session is open.
InFlightIsHalf(s) ==
  capture[s].at = "data" /\ capture[s].ref \in opened
    => Len(file[sessionPath[capture[s].ref]]) % 2 = 1

WholeRecords ==
  /\ \A p \in Paths : WholeFile(Sources, p)
  /\ \A s \in Sources : InFlightIsHalf(s)

\* Where a capture thread's frame is in handledPackets already.
Counted == {"addBytes", "storeBytes", "lookup", "header", "data"}

\* With r records in the log and k packets counted: the counter is ahead of the log by the
\* frame that thread t has counted and not yet written; a load that t has not stored yet
\* was of a counter not behind the log either.
NotBehind(t, k, r) ==
  /\ r <= k + 1
  /\ t.at = "store" => r <= t.count + 1
  /\ t.at \in Counted => r <= k

RecordsIn(n) == Len(file[sessionPath[n]]) \div 2

CountAhead ==
  \A n \in opened, s \in Sources : NotBehind(capture[s], handledPackets, RecordsIn(n))

Intact == raced \/ (WholeRecords /\ CountAhead)

OneRadioInv == TypeOK /\ LogHandle /\ RefsAreOld /\ SyncedWithin /\ Intact

-----------------------------------------------------------------------------
(* Arithmetic and sequences. *)

LEMMA Halves ==
  ASSUME NEW n \in Nat
  PROVE  /\ n % 2 \in {0, 1} /\ n \div 2 \in Nat
         /\ n = 2 * (n \div 2) + (n % 2)
         /\ n % 2 = 0 => (n + 1) % 2 = 1 /\ (n + 1) \div 2 = n \div 2
         /\ n % 2 = 1 => (n + 1) % 2 = 0 /\ (n + 1) \div 2 = n \div 2 + 1
OBVIOUS

\* Fwrite on the file it writes and on the others.
LEMMA FwriteFile ==
  ASSUME TypeOK, NEW n \in Sessions, NEW c \in Chunk, Fwrite(n, c)
  PROVE  /\ sessionPath[n] \in Paths
         /\ file'[sessionPath[n]] = Append(file[sessionPath[n]], c)
         /\ Len(file'[sessionPath[n]]) = Len(file[sessionPath[n]]) + 1
         /\ synced'[sessionPath[n]] \in synced[sessionPath[n]] .. Len(file'[sessionPath[n]])
         /\ \A p \in Paths \ {sessionPath[n]} : file'[p] = file[p] /\ synced'[p] = synced[p]
<1> DEFINE p == sessionPath[n]
<1>1. p \in Paths
  BY DEF TypeOK
<1>2. file[p] \in Seq(Chunk) /\ Len(file[p]) \in Nat
  BY <1>1 DEF TypeOK
<1>3. file' = [file EXCEPT ![p] = Append(file[p], c)]
  BY DEF Fwrite
<1>4. PICK k \in synced[p] .. Len(file[p]) + 1 : synced' = [synced EXCEPT ![p] = k]
  BY DEF Fwrite
<1>5. file'[p] = Append(file[p], c) /\ Len(Append(file[p], c)) = Len(file[p]) + 1
  BY <1>1, <1>2, <1>3 DEF TypeOK
<1>6. synced'[p] = k
  BY <1>1, <1>4 DEF TypeOK
<1> QED BY <1>1, <1>3, <1>4, <1>5, <1>6 DEF TypeOK

-----------------------------------------------------------------------------
(* What holds for any number of radios. *)

\* A step of a capture thread moves its own registers only; its session changes where it
\* reads pcap_state.
LEMMA RefStep ==
  ASSUME TypeOK, NEW s \in Sources, CaptureStep(s)
  PROVE  /\ UNCHANGED mainVars
         /\ \A x \in Sources : capture'[x].ref = capture[x].ref \/ capture'[x].ref = pcapState
<1>1. UNCHANGED mainVars
  BY DEF CaptureStep, HandlePacket, LoadPackets, StorePackets, LoadBytes,
     StoreBytes, LookupState, LogNotOpen, WriteHeader, WriteData, WriteClosed
<1>2. capture \in [Sources -> Thread] /\ capture[s] \in Thread
  BY DEF TypeOK
<1>3. capture[s] \in [at : CaptureAt, frame : Lengths, count : Nat, ref : Sessions \cup {NoState}]
  BY <1>2, ThreadFields
<1>4. ASSUME NEW a, NEW b, Go(s, a, b)
      PROVE  \A x \in Sources : capture'[x].ref = capture[x].ref
  BY <1>2, <1>3, <1>4 DEF Go
<1>5. CASE StorePackets(s) \/ StoreBytes(s) \/ WriteHeader(s) \/ WriteData(s) \/ WriteClosed(s)
  BY <1>1, <1>4, <1>5 DEF StorePackets, StoreBytes, WriteHeader, WriteData, WriteClosed
<1>6. ASSUME NEW n \in Lengths, HandlePacket(s, n)
      PROVE  \A x \in Sources : capture'[x].ref = capture[x].ref
  BY <1>2, <1>3, <1>6 DEF HandlePacket
<1>8. CASE LoadPackets(s)
  BY <1>2, <1>3, <1>8 DEF LoadPackets
<1>9. CASE LoadBytes(s)
  BY <1>2, <1>3, <1>9 DEF LoadBytes
<1>10. CASE LookupState(s)
  BY <1>2, <1>3, <1>10 DEF LookupState
<1>7. CASE LogNotOpen(s)
  BY <1>1, <1>7 DEF LogNotOpen, captureVars
<1> QED BY <1>1, <1>5, <1>7, <1>6, <1>8, <1>9, <1>10 DEF CaptureStep

\* No session is held before it is opened.
LEMMA RefsStep ==
  ASSUME TypeOK, LogHandle, RefsAreOld, [Next]_vars
  PROVE  RefsAreOld'
<1> USE LogAssumption DEF Sessions, Starting
<1>0. /\ starts \in Nat /\ starts # NoState /\ main.then \in {"idle", "reset"}
      /\ pcapState # NoState => pcapState \in Nat /\ pcapState <= starts
      /\ \A s \in Sources : capture[s].ref # NoState => capture[s].ref \in Nat
  <2>1. \A s \in Sources : capture[s] \in Thread
    BY DEF TypeOK
  <2>2. \A s \in Sources : capture[s].ref \in Sessions \cup {NoState}
    BY <2>1, ThreadFields
  <2>3. starts \in Nat /\ main.then \in {"idle", "reset"}
    BY DEF TypeOK
  <2>4. pcapState # NoState => pcapState \in Nat /\ pcapState <= starts
    BY DEF TypeOK, LogHandle
  <2> QED BY <2>2, <2>3, <2>4
<1>1. CASE StopLogging
  BY <1>0, <1>1 DEF StopLogging, RefsAreOld, TypeOK, LogHandle, captureVars
<1>2. ASSUME NEW p \in Paths, StartLogging(p) PROVE RefsAreOld'
  <2>1. starts' = starts + 1 /\ UNCHANGED <<pcapState, capture>> /\ main'.at # "enable"
    BY <1>2 DEF StartLogging, captureVars
  <2>2. pcapState # NoState => pcapState # starts + 1
    BY <1>0
  <2>3. pcapState # starts + 1
    BY <1>0, <2>2
  <2>4. ASSUME NEW s \in Sources, capture[s].ref # NoState
        PROVE  capture[s].ref <= starts + 1 /\ capture[s].ref # starts + 1
    BY <1>0, <2>4 DEF RefsAreOld
  <2> QED BY <2>1, <2>3, <2>4 DEF RefsAreOld
<1>3. CASE ClosePcap
  BY <1>0, <1>3 DEF ClosePcap, RefsAreOld, TypeOK, LogHandle, captureVars
<1>4. CASE ClearState
  BY <1>0, <1>4 DEF ClearState, RefsAreOld, TypeOK, LogHandle, captureVars
<1>5. CASE DisableLogging
  BY <1>0, <1>5 DEF DisableLogging, RefsAreOld, TypeOK, LogHandle, captureVars
<1>6. CASE ResetCounters
  BY <1>0, <1>6 DEF ResetCounters, RefsAreOld, TypeOK, LogHandle, captureVars
<1>7. CASE OpenPcap
  BY <1>0, <1>7 DEF OpenPcap, RefsAreOld, TypeOK, LogHandle, captureVars
<1>8. CASE OpenPcapFails
  BY <1>0, <1>8 DEF OpenPcapFails, RefsAreOld, TypeOK, LogHandle, captureVars
<1>9. CASE EnableLogging
  BY <1>0, <1>9 DEF EnableLogging, RefsAreOld, TypeOK, LogHandle, captureVars
<1>10. ASSUME NEW s \in Sources, CaptureStep(s) PROVE RefsAreOld'
  <2>1. /\ UNCHANGED mainVars
        /\ \A x \in Sources : capture'[x].ref = capture[x].ref \/ capture'[x].ref = pcapState
    BY <1>10, RefStep
  <2>2. pcapState # NoState => pcapState <= starts /\ (Starting => pcapState # starts)
    BY DEF RefsAreOld, LogHandle
  <2> QED BY <2>1, <2>2 DEF RefsAreOld, mainVars
<1>11. CASE UNCHANGED vars
  BY <1>11 DEF RefsAreOld, vars, mainVars, captureVars
<1> QED
  BY <1>1, <1>2, <1>3, <1>4, <1>5, <1>6, <1>7, <1>8, <1>9, <1>10, <1>11
  DEF Next, MainStep

\* No more has reached a file than was written.
LEMMA WithinStep ==
  ASSUME TypeOK, LogHandle, SyncedWithin, [Next]_vars
  PROVE  SyncedWithin'
<1> USE DEF SyncedWithin
<1>1. CASE \/ StopLogging \/ (\E p \in Paths : StartLogging(p)) \/ ClearState
           \/ DisableLogging \/ ResetCounters \/ OpenPcapFails \/ EnableLogging
           \/ UNCHANGED vars
  BY <1>1, AloneStep DEF FilesAlone, files
<1>2. CASE ClosePcap
  <2>1. pcapState \in Sessions /\ UNCHANGED file
    BY <1>2 DEF ClosePcap, LogHandle, TypeOK
  <2>2. sessionPath[pcapState] \in Paths
    BY <2>1 DEF TypeOK
  <2>3. \A p \in Paths : Len(file[p]) \in Nat
    BY DEF TypeOK
  <2>4. synced' = [synced EXCEPT ![sessionPath[pcapState]] = Len(file[sessionPath[pcapState]])]
    BY <1>2 DEF ClosePcap
  <2>5. \A p \in Paths : synced'[p] = synced[p] \/ synced'[p] = Len(file[p])
    BY <2>2, <2>4 DEF TypeOK
  <2> QED BY <2>1, <2>3, <2>5
<1>3. CASE OpenPcap
  <2>1. \A p \in Paths : \/ file'[p] = file[p] /\ synced'[p] = synced[p]
                         \/ file'[p] = <<>> /\ synced'[p] = 0
    <3>1. /\ file' = [file EXCEPT ![main.path] = <<>>]
          /\ synced' = [synced EXCEPT ![main.path] = 0]
      BY <1>3 DEF OpenPcap
    <3> QED BY <3>1 DEF TypeOK
  <2>2. Len(<<>>) = 0
    OBVIOUS
  <2> QED BY <2>1, <2>2
<1>4. ASSUME NEW s \in Sources, CaptureStep(s) PROVE SyncedWithin'
  <2>1. capture[s] \in Thread /\ opened \subseteq Sessions
    BY DEF TypeOK
  <2>2. Header(s, capture[s].frame) \in Chunk /\ Data(s, capture[s].frame) \in Chunk
    BY <2>1, ThreadFields, ChunkType
  <2>3. UNCHANGED files \/ \E n \in opened : \E c \in Chunk : Fwrite(n, c)
    BY <1>4, <2>2 DEF CaptureStep, HandlePacket, LoadPackets, StorePackets, LoadBytes,
       StoreBytes, LookupState, LogNotOpen, WriteHeader, WriteData, WriteClosed
  <2>4. ASSUME NEW n \in opened, NEW c \in Chunk, Fwrite(n, c) PROVE SyncedWithin'
    <3>1. /\ n \in Sessions /\ sessionPath[n] \in Paths
          /\ synced'[sessionPath[n]] \in synced[sessionPath[n]] .. Len(file'[sessionPath[n]])
          /\ \A p \in Paths \ {sessionPath[n]} : file'[p] = file[p] /\ synced'[p] = synced[p]
      BY <2>1, <2>4, FwriteFile
    <3>2. synced'[sessionPath[n]] <= Len(file'[sessionPath[n]])
      BY <3>1
    <3> QED BY <3>1, <3>2
  <2> QED BY <2>3, <2>4 DEF files
<1> QED BY <1>1, <1>2, <1>3, <1>4 DEF Next, MainStep

-----------------------------------------------------------------------------
(* With one radio. *)

\* Where the capture thread goes, and with what, when it writes nothing.
Quiet(c) ==
  LET t == capture[c] u == capture'[c] IN
  /\ UNCHANGED <<opened, sessionPath, files>>
  /\ t.at # "data" /\ u.at # "data"
  /\ \/ t.at = "read" /\ u.at \in {"read", "count"} /\ UNCHANGED handledPackets
     \/ t.at = "count" /\ u.at = "store" /\ u.count = handledPackets /\ UNCHANGED handledPackets
     \/ t.at = "store" /\ u.at = "addBytes" /\ handledPackets' = t.count + 1
     \/ t.at \in Counted /\ u.at \in Counted /\ UNCHANGED handledPackets
     \/ u = t /\ UNCHANGED handledPackets

LEMMA QuietStep ==
  ASSUME TypeOK, NEW c \in Sources, CaptureStep(c)
  PROVE  Quiet(c) \/ WriteHeader(c) \/ WriteData(c) \/ WriteClosed(c)
<1> USE DEF Counted
<1>1. capture \in [Sources -> Thread] /\ capture[c] \in Thread
  BY DEF TypeOK
<1>2. capture[c] \in [at : CaptureAt, frame : Lengths, count : Nat, ref : Sessions \cup {NoState}]
  BY <1>1, ThreadFields
<1>3. ASSUME NEW n \in Lengths, HandlePacket(c, n) PROVE Quiet(c)
  <2>1. capture[c].at = "read" /\ capture'[c].at \in {"read", "count"}
    BY <1>1, <1>2, <1>3 DEF HandlePacket
  <2> QED BY <1>3, <2>1 DEF HandlePacket, Quiet, mainVars, counters, files
<1>4. CASE LoadPackets(c)
  <2>1. /\ capture[c].at = "count" /\ capture'[c].at = "store"
        /\ capture'[c].count = handledPackets
    BY <1>1, <1>2, <1>4 DEF LoadPackets
  <2> QED BY <1>4, <2>1 DEF LoadPackets, Quiet, mainVars, counters, files
<1>5. CASE StorePackets(c)
  <2>1. capture[c].at = "store" /\ capture'[c].at = "addBytes"
    BY <1>1, <1>2, <1>5 DEF StorePackets, Go
  <2> QED BY <1>5, <2>1 DEF StorePackets, Quiet, mainVars, files
<1>6. CASE LoadBytes(c)
  <2>1. capture[c].at = "addBytes" /\ capture'[c].at = "storeBytes"
    BY <1>1, <1>2, <1>6 DEF LoadBytes
  <2> QED BY <1>6, <2>1 DEF LoadBytes, Quiet, mainVars, counters, files
<1>7. CASE StoreBytes(c)
  <2>1. capture[c].at = "storeBytes" /\ capture'[c].at = "lookup"
    BY <1>1, <1>2, <1>7 DEF StoreBytes, Go
  <2> QED BY <1>7, <2>1 DEF StoreBytes, Quiet, mainVars, files
<1>8. CASE LookupState(c)
  <2>1. capture[c].at = "lookup" /\ capture'[c].at = "header"
    BY <1>1, <1>2, <1>8 DEF LookupState
  <2> QED BY <1>8, <2>1 DEF LookupState, Quiet, mainVars, counters, files
<1>9. CASE LogNotOpen(c)
  BY <1>9 DEF LogNotOpen, Quiet, mainVars, counters, files, captureVars
<1> QED BY <1>3, <1>4, <1>5, <1>6, <1>7, <1>8, <1>9 DEF CaptureStep

\* What the invariant says of the only capture thread.
LEMMA OneThread ==
  ASSUME NEW c, OnlyRadio(c)
  PROVE  /\ WholeRecords <=> (\A p \in Paths : WholeFile({c}, p)) /\ InFlightIsHalf(c)
         /\ CountAhead <=>
              \A n \in opened : NotBehind(capture[c], handledPackets, RecordsIn(n))
BY DEF OnlyRadio, WholeRecords, CountAhead

LEMMA OneThreadNext ==
  ASSUME NEW c, OnlyRadio(c)
  PROVE  /\ WholeRecords' <=> (\A p \in Paths : WholeFile({c}, p)') /\ InFlightIsHalf(c)'
         /\ CountAhead' <=>
              \A n \in opened' : NotBehind(capture'[c], handledPackets', RecordsIn(n)')
BY DEF OnlyRadio, WholeRecords, CountAhead

\* The main thread opens nothing: no file changes, and the counter only while no log is open.
LEMMA MainKeeps ==
  ASSUME OneRadioInv, NEW c, OnlyRadio(c), WholeRecords, CountAhead,
         UNCHANGED <<file, capture>>,
         opened' \subseteq opened,
         opened' = {} \/ UNCHANGED handledPackets,
         \A n \in Sessions : n <= starts => sessionPath'[n] = sessionPath[n]
  PROVE  WholeRecords' /\ CountAhead'
<1>1. \A n \in opened : n \in Sessions /\ n <= starts
  BY DEF OneRadioInv, TypeOK, LogHandle
<1>2. capture[c] \in Thread
  BY DEF OnlyRadio, OneRadioInv, TypeOK
<1>3. capture[c].at = "data" => capture[c].ref \in Sessions /\ capture[c].ref <= starts
  BY <1>2, ThreadFields DEF OneRadioInv, RefsAreOld, OnlyRadio
<1>4. capture[c].at = "data" => sessionPath'[capture[c].ref] = sessionPath[capture[c].ref]
  BY <1>3
<1>5. \A n \in opened' : sessionPath'[n] = sessionPath[n]
  BY <1>1
<1>6. WholeRecords'
  <2>1. ASSUME NEW p \in Paths, WholeFile({c}, p) PROVE WholeFile({c}, p)'
    BY <1>4, <2>1 DEF WholeFile, HalfWritten
  <2>2. InFlightIsHalf(c)'
    <3>1. InFlightIsHalf(c)
      BY OneThread
    <3> QED BY <1>4, <3>1 DEF InFlightIsHalf
  <2> QED BY <2>1, <2>2, OneThread, OneThreadNext
<1>7. CountAhead'
  <2>1. \A n \in opened' : RecordsIn(n)' = RecordsIn(n) /\ UNCHANGED handledPackets
    BY <1>5 DEF RecordsIn
  <2> QED BY <2>1, OneThread, OneThreadNext
<1> QED BY <1>6, <1>7

\* OpenPcap starts an empty file, which no late packet refers to.
LEMMA OpenKeeps ==
  ASSUME OneRadioInv, NEW c, OnlyRadio(c), WholeRecords, CountAhead, OpenPcap
  PROVE  WholeRecords' /\ CountAhead'
<1>1. /\ opened' = {starts} /\ UNCHANGED <<capture, sessionPath, handledPackets>>
      /\ main.at = "open" /\ main.path \in Paths /\ main.path = sessionPath[starts]
      /\ file' = [file EXCEPT ![main.path] = <<>>]
  BY DEF OneRadioInv, OpenPcap, LogHandle, captureVars, counters, TypeOK
<1>2. file'[main.path] = <<>> /\ \A p \in Paths \ {main.path} : file'[p] = file[p]
  BY <1>1 DEF OneRadioInv, TypeOK
<1>3. Len(<<>>) = 0 /\ 0 % 2 = 0 /\ 0 \div 2 = 0
  OBVIOUS
<1>4. Alternates(<<>>) /\ Paired(<<>>)
  BY <1>3 DEF Alternates, Paired
<1>5. capture[c] \in Thread /\ handledPackets \in Nat
  BY DEF OnlyRadio, OneRadioInv, TypeOK
<1>6. capture[c].at = "data" => capture[c].ref # starts
  BY <1>1, <1>5, ThreadFields DEF OneRadioInv, RefsAreOld, Starting, OnlyRadio
<1>7. capture[c].count \in Nat
  BY <1>5, ThreadFields
<1>8. WholeRecords'
  <2>1. ASSUME NEW p \in Paths, WholeFile({c}, p) PROVE WholeFile({c}, p)'
    <3>1. CASE p = main.path
      <4>1. file'[p] = <<>> /\ Len(file'[p]) = 0 /\ 0 % 2 # 1
        BY <1>2, <1>3, <3>1
      <4>2. Alternates(file'[p]) /\ Paired(file'[p])
        BY <1>4, <4>1
      <4>3. ~ (Len(file'[p]) % 2 = 1)
        BY <4>1
      <4> QED BY <4>2, <4>3 DEF WholeFile
    <3>2. CASE p # main.path
      BY <1>1, <1>2, <2>1, <3>2 DEF WholeFile, HalfWritten
    <3> QED BY <3>1, <3>2
  <2>2. InFlightIsHalf(c)'
    BY <1>1, <1>6 DEF InFlightIsHalf
  <2> QED BY <2>1, <2>2, OneThread, OneThreadNext
<1>9. CountAhead'
  <2>1. ASSUME NEW n \in opened' PROVE RecordsIn(n)' = 0
    BY <1>1, <1>2, <1>3, <2>1 DEF RecordsIn
  <2>2. NotBehind(capture[c], handledPackets, 0)
    BY <1>5, <1>7 DEF NotBehind
  <2> QED BY <1>1, <2>1, <2>2, OneThreadNext
<1> QED BY <1>8, <1>9

\* A capture thread that writes nothing has no record half written, and a counter that only
\* moves away from the log.
LEMMA QuietKeeps ==
  ASSUME OneRadioInv, NEW c, OnlyRadio(c), WholeRecords, CountAhead, Quiet(c)
  PROVE  WholeRecords' /\ CountAhead'
<1>1. WholeRecords'
  <2>1. ASSUME NEW p \in Paths, WholeFile({c}, p) PROVE WholeFile({c}, p)'
    BY <2>1 DEF WholeFile, HalfWritten, Quiet, files
  <2>2. InFlightIsHalf(c)'
    BY DEF InFlightIsHalf, Quiet
  <2> QED BY <2>1, <2>2, OneThread, OneThreadNext
<1>2. capture[c] \in Thread /\ handledPackets \in Nat /\ opened \subseteq Sessions
  BY DEF OnlyRadio, OneRadioInv, TypeOK
<1>3. capture[c].count \in Nat
  BY <1>2, ThreadFields
<1>4. CountAhead'
  <2>1. ASSUME NEW n \in opened PROVE RecordsIn(n)' = RecordsIn(n) /\ RecordsIn(n) \in Nat
    <3>1. Len(file[sessionPath[n]]) \in Nat
      BY <1>2 DEF OneRadioInv, TypeOK
    <3> QED BY <3>1, Halves DEF RecordsIn, Quiet, files
  <2>2. ASSUME NEW r \in Nat, NotBehind(capture[c], handledPackets, r)
        PROVE  NotBehind(capture'[c], handledPackets', r)
    BY <1>2, <1>3, <2>2 DEF NotBehind, Quiet, Counted
  <2>3. opened' = opened
    BY DEF Quiet
  <2> QED BY <2>1, <2>2, <2>3, OneThread, OneThreadNext
<1> QED BY <1>1, <1>4

\* Half a record becomes a whole one when the thread's packet follows its header, and a
\* file of whole records gets a header.
LEMMA AppendRecord ==
  ASSUME NEW f \in Seq(Chunk), Alternates(f), Paired(f), NEW s \in Sources, NEW n \in Lengths
  PROVE  /\ Len(f) % 2 = 0 =>
              LET g == Append(f, Header(s, n)) IN
              Alternates(g) /\ Paired(g) /\ g[Len(g)] = Header(s, n)
         /\ Len(f) % 2 = 1 /\ f[Len(f)] = Header(s, n) =>
              LET g == Append(f, Data(s, n)) IN Alternates(g) /\ Paired(g)
<1>1. Header(s, n) \in Chunk /\ Data(s, n) \in Chunk /\ Len(f) \in Nat
  BY ChunkType
<1>2. /\ Header(s, n).part = "header" /\ Header(s, n).src = s /\ Header(s, n).len = n
      /\ Data(s, n).part = "data" /\ Data(s, n).src = s /\ Data(s, n).len = n
  BY DEF Header, Data
<1>3. ASSUME NEW c \in Chunk
      PROVE  LET g == Append(f, c) IN
             /\ Len(g) = Len(f) + 1 /\ g[Len(f) + 1] = c
             /\ \A i \in 1 .. Len(f) : g[i] = f[i]
             /\ \A i \in 1 .. Len(g) : i \in 1 .. Len(f) \/ i = Len(f) + 1
  BY <1>1
<1>4. ASSUME Len(f) % 2 = 0, NEW g, g = Append(f, Header(s, n))
      PROVE  Alternates(g) /\ Paired(g) /\ g[Len(g)] = Header(s, n)
  <2>1. (Len(f) + 1) % 2 = 1
    BY <1>1, <1>4, Halves
  <2>2. g[Len(g)] = Header(s, n)
    BY <1>1, <1>3, <1>4
  <2>3. Alternates(g)
    BY <1>1, <1>2, <1>3, <1>4, <2>1 DEF Alternates
  <2>4. Paired(g)
    <3>1. ASSUME NEW i \in 1 .. Len(g), i % 2 = 0
          PROVE  g[i].src = g[i - 1].src /\ g[i].len = g[i - 1].len
      <4>1. i \in 1 .. Len(f) /\ g[i] = f[i]
        BY <1>1, <1>3, <1>4, <2>1, <3>1
      <4>2. i # 1
        BY <3>1
      <4>3. i - 1 \in 1 .. Len(f)
        BY <1>1, <4>1, <4>2
      <4>4. g[i - 1] = f[i - 1]
        BY <1>1, <1>3, <1>4, <4>3
      <4> QED BY <3>1, <4>1, <4>4 DEF Paired
    <3> QED BY <3>1 DEF Paired
  <2> QED BY <2>2, <2>3, <2>4
<1>5. ASSUME Len(f) % 2 = 1, f[Len(f)] = Header(s, n), NEW g, g = Append(f, Data(s, n))
      PROVE  Alternates(g) /\ Paired(g)
  <2>1. (Len(f) + 1) % 2 = 0 /\ Len(f) # 0
    BY <1>1, <1>5, Halves
  <2>2. Len(f) \in 1 .. Len(f)
    BY <1>1, <2>1
  <2>3. Alternates(g)
    BY <1>1, <1>2, <1>3, <1>5, <2>1 DEF Alternates
  <2>4. Paired(g)
    <3>1. ASSUME NEW i \in 1 .. Len(g), i % 2 = 0
          PROVE  g[i].src = g[i - 1].src /\ g[i].len = g[i - 1].len
      <4>1. CASE i \in 1 .. Len(f)
        <5>1. i # 1
          BY <3>1
        <5>2. i - 1 \in 1 .. Len(f)
          BY <1>1, <4>1, <5>1
        <5>3. g[i] = f[i] /\ g[i - 1] = f[i - 1]
          BY <1>1, <1>3, <1>5, <4>1, <5>2
        <5> QED BY <3>1, <4>1, <5>3 DEF Paired
      <4>2. CASE i = Len(f) + 1
        <5>1. i - 1 = Len(f)
          BY <1>1, <4>2
        <5>2. g[i] = Data(s, n) /\ g[i - 1] = Header(s, n)
          BY <1>1, <1>3, <1>5, <2>2, <4>2, <5>1
        <5> QED BY <1>2, <5>2
      <4> QED BY <1>1, <1>3, <1>5, <4>1, <4>2
    <3> QED BY <3>1 DEF Paired
  <2> QED BY <2>3, <2>4
<1> QED BY <1>4, <1>5

\* The thread that writes, and how much its file holds before and after.
LEMMA WriteTo ==
  ASSUME OneRadioInv, NEW c \in Sources, NEW a, NEW b, NEW k \in Chunk,
         capture[c].ref \in opened, Go(c, a, b), Fwrite(capture[c].ref, k),
         UNCHANGED mainVars
  PROVE  LET p == sessionPath[capture[c].ref] IN
         /\ p \in Paths /\ file[p] \in Seq(Chunk) /\ opened = {capture[c].ref}
         /\ UNCHANGED <<opened, sessionPath>>
         /\ capture[c].at = a /\ capture'[c].at = b
         /\ capture'[c].ref = capture[c].ref /\ capture'[c].frame = capture[c].frame
         /\ capture'[c].count = capture[c].count /\ capture[c].frame \in Lengths
         /\ file'[p] = Append(file[p], k)
         /\ Len(file[p]) \in Nat /\ Len(file'[p]) = Len(file[p]) + 1
         /\ \A q \in Paths \ {p} : file'[q] = file[q]
<1>1. TypeOK /\ LogHandle
  BY DEF OneRadioInv
<1>2. capture \in [Sources -> Thread] /\ capture[c] \in Thread /\ opened \subseteq Sessions
  BY <1>1 DEF TypeOK
<1>3. capture[c] \in [at : CaptureAt, frame : Lengths, count : Nat, ref : Sessions \cup {NoState}]
  BY <1>2, ThreadFields
<1>4. /\ capture[c].at = a /\ capture'[c].at = b
      /\ capture'[c].ref = capture[c].ref /\ capture'[c].frame = capture[c].frame
      /\ capture'[c].count = capture[c].count /\ capture[c].frame \in Lengths
  BY <1>2, <1>3 DEF Go
<1>5. opened = {capture[c].ref}
  BY <1>1 DEF LogHandle
<1>6. \A q \in Paths : file[q] \in Seq(Chunk) /\ Len(file[q]) \in Nat
  BY <1>1 DEF TypeOK
<1> QED BY <1>1, <1>2, <1>4, <1>5, <1>6, FwriteFile DEF mainVars

\* A header begins a record.
LEMMA HeaderKeeps ==
  ASSUME OneRadioInv, NEW c, OnlyRadio(c), WholeRecords, CountAhead, WriteHeader(c)
  PROVE  WholeRecords' /\ CountAhead'
<1> DEFINE p == sessionPath[capture[c].ref]
           k == Header(c, capture[c].frame)
<1>1. c \in Sources
  BY DEF OnlyRadio
<1>2. capture[c] \in Thread /\ handledPackets \in Nat
  BY <1>1 DEF OneRadioInv, TypeOK
<1>3. k \in Chunk
  BY <1>1, <1>2, ThreadFields, ChunkType
<1>4. /\ p \in Paths /\ file[p] \in Seq(Chunk) /\ opened = {capture[c].ref}
      /\ UNCHANGED <<opened, sessionPath>>
      /\ capture[c].at = "header" /\ capture'[c].at = "data"
      /\ capture'[c].ref = capture[c].ref /\ capture'[c].frame = capture[c].frame
      /\ capture'[c].count = capture[c].count /\ capture[c].frame \in Lengths
      /\ file'[p] = Append(file[p], k)
      /\ Len(file[p]) \in Nat /\ Len(file'[p]) = Len(file[p]) + 1
      /\ \A q \in Paths \ {p} : file'[q] = file[q]
  BY <1>1, <1>3, WriteTo DEF WriteHeader
<1>5. \A q \in Paths : WholeFile({c}, q)
  BY OneThread
<1>6. \A q \in Paths : Len(file[q]) % 2 # 1
  BY <1>4, <1>5 DEF WholeFile, HalfWritten
<1>7. Len(file[p]) % 2 = 0 /\ Len(file'[p]) % 2 = 1
      /\ Len(file'[p]) \div 2 = Len(file[p]) \div 2
  BY <1>4, <1>6, Halves
<1>8. Alternates(file'[p]) /\ Paired(file'[p]) /\ file'[p][Len(file'[p])] = k
  BY <1>1, <1>4, <1>5, <1>7, AppendRecord DEF WholeFile
<1>9. ASSUME NEW q \in Paths, q = p PROVE WholeFile({c}, q)'
  BY <1>4, <1>8, <1>9 DEF WholeFile, HalfWritten
<1>10. ASSUME NEW q \in Paths, q # p PROVE WholeFile({c}, q)'
  BY <1>4, <1>5, <1>6, <1>10 DEF WholeFile
<1>11. InFlightIsHalf(c)'
  BY <1>4, <1>7 DEF InFlightIsHalf
<1>12. WholeRecords'
  <2>1. \A q \in Paths : WholeFile({c}, q)'
    BY <1>9, <1>10
  <2> QED BY <1>11, <2>1, OneThreadNext
<1>13. CountAhead'
  <2>1. ASSUME NEW n \in opened' PROVE RecordsIn(n)' = RecordsIn(n) /\ n \in opened
    BY <1>4, <1>7 DEF RecordsIn
  <2>2. UNCHANGED handledPackets
    BY DEF WriteHeader, counters
  <2>3. ASSUME NEW r, NotBehind(capture[c], handledPackets, r)
        PROVE  NotBehind(capture'[c], handledPackets, r)
    BY <1>4, <2>3 DEF NotBehind, Counted
  <2> QED BY <2>1, <2>2, <2>3, OneThread, OneThreadNext
<1> QED BY <1>12, <1>13

\* The packet completes it.
LEMMA DataKeeps ==
  ASSUME OneRadioInv, NEW c, OnlyRadio(c), WholeRecords, CountAhead, WriteData(c)
  PROVE  WholeRecords' /\ CountAhead'
<1> DEFINE p == sessionPath[capture[c].ref]
           k == Data(c, capture[c].frame)
<1>1. c \in Sources
  BY DEF OnlyRadio
<1>2. capture[c] \in Thread /\ handledPackets \in Nat
  BY <1>1 DEF OneRadioInv, TypeOK
<1>3. k \in Chunk
  BY <1>1, <1>2, ThreadFields, ChunkType
<1>4. /\ p \in Paths /\ file[p] \in Seq(Chunk) /\ opened = {capture[c].ref}
      /\ UNCHANGED <<opened, sessionPath>>
      /\ capture[c].at = "data" /\ capture'[c].at = "read"
      /\ capture'[c].ref = capture[c].ref /\ capture'[c].frame = capture[c].frame
      /\ capture'[c].count = capture[c].count /\ capture[c].frame \in Lengths
      /\ file'[p] = Append(file[p], k)
      /\ Len(file[p]) \in Nat /\ Len(file'[p]) = Len(file[p]) + 1
      /\ \A q \in Paths \ {p} : file'[q] = file[q]
  BY <1>1, <1>3, WriteTo DEF WriteData
<1>5. \A q \in Paths : WholeFile({c}, q)
  BY OneThread
<1>6. \A q \in Paths \ {p} : Len(file[q]) % 2 # 1
  BY <1>5 DEF WholeFile, HalfWritten
<1>7. /\ Len(file[p]) % 2 = 1 /\ Len(file'[p]) % 2 # 1
      /\ Len(file'[p]) \div 2 = Len(file[p]) \div 2 + 1
  <2>1. Len(file[p]) % 2 = 1
    BY <1>4, OneThread DEF InFlightIsHalf
  <2>2. Len(file'[p]) % 2 = 0 /\ Len(file'[p]) \div 2 = Len(file[p]) \div 2 + 1
    BY <1>4, <2>1, Halves
  <2>3. 0 # 1
    OBVIOUS
  <2>4. Len(file'[p]) % 2 # 1
    BY <2>2, <2>3, Zenon
  <2> QED BY <2>1, <2>2, <2>4
<1>8. Alternates(file'[p]) /\ Paired(file'[p])
  <2>1. file[p][Len(file[p])] = Header(c, capture[c].frame)
    BY <1>4, <1>5, <1>7 DEF WholeFile, HalfWritten
  <2> QED BY <1>1, <1>4, <1>5, <1>7, <2>1, AppendRecord DEF WholeFile
<1>9. ASSUME NEW q \in Paths, q = p PROVE WholeFile({c}, q)'
  BY <1>7, <1>8, <1>9 DEF WholeFile
<1>10. ASSUME NEW q \in Paths, q # p PROVE WholeFile({c}, q)'
  BY <1>4, <1>5, <1>6, <1>10 DEF WholeFile
<1>11. InFlightIsHalf(c)'
  BY <1>4 DEF InFlightIsHalf
<1>12. WholeRecords'
  <2>1. \A q \in Paths : WholeFile({c}, q)'
    BY <1>9, <1>10
  <2> QED BY <1>11, <2>1, OneThreadNext
<1>13. CountAhead'
  <2>1. ASSUME NEW n \in opened'
        PROVE  RecordsIn(n)' = RecordsIn(n) + 1 /\ n \in opened /\ RecordsIn(n) \in Nat
    BY <1>4, <1>7, Halves DEF RecordsIn
  <2>2. UNCHANGED handledPackets
    BY DEF WriteData, counters
  <2>3. ASSUME NEW r \in Nat, NotBehind(capture[c], handledPackets, r)
        PROVE  NotBehind(capture'[c], handledPackets, r + 1)
    BY <1>2, <1>4, <2>3 DEF NotBehind, Counted
  <2> QED BY <2>1, <2>2, <2>3, OneThread, OneThreadNext
<1> QED BY <1>12, <1>13

-----------------------------------------------------------------------------
(* The theorems. *)

LEMMA IntactStep ==
  ASSUME OneRadioInv, [Next]_vars, NEW c, OnlyRadio(c)
  PROVE  Intact'
<1>1. CASE raced'
  BY <1>1 DEF Intact
<1>2. CASE ~ raced'
  <2>1. ~ raced /\ c \in Sources
    BY <1>2 DEF OnlyRadio, OneRadioInv, TypeOK, Next, MainStep, StopLogging, StartLogging,
       ClosePcap, ClearState, DisableLogging, ResetCounters, OpenPcap, OpenPcapFails,
       EnableLogging, CaptureStep, HandlePacket, LoadPackets, StorePackets, LoadBytes,
       StoreBytes, LookupState, LogNotOpen, WriteHeader, WriteData, WriteClosed, vars, fate
  <2>2. WholeRecords /\ CountAhead
    BY <2>1 DEF OneRadioInv, Intact
  <2>3. /\ TypeOK /\ LogHandle /\ starts \in Nat
        /\ main.at = "reset" => opened = {}
    BY DEF OneRadioInv, TypeOK, LogHandle
  <2>4. CASE \/ StopLogging \/ ClosePcap \/ ClearState \/ DisableLogging \/ ResetCounters
             \/ OpenPcapFails \/ EnableLogging \/ UNCHANGED vars
    <3>1. /\ UNCHANGED <<file, capture, sessionPath>> /\ opened' \subseteq opened
          /\ opened' = {} \/ UNCHANGED handledPackets
      BY <2>3, <2>4 DEF StopLogging, ClosePcap, ClearState, DisableLogging, ResetCounters,
         OpenPcapFails, EnableLogging, vars, mainVars, counters, files, captureVars
    <3> QED BY <2>2, <3>1, MainKeeps DEF Intact
  <2>5. ASSUME NEW p \in Paths, StartLogging(p) PROVE Intact'
    <3>1. UNCHANGED <<file, capture, opened, handledPackets>>
      BY <2>5 DEF StartLogging, counters, files, captureVars
    <3>2. \A n \in Sessions : n <= starts => sessionPath'[n] = sessionPath[n]
      BY <2>3, <2>5 DEF StartLogging, TypeOK, Sessions
    <3> QED BY <2>2, <3>1, <3>2, MainKeeps DEF Intact
  <2>6. CASE OpenPcap
    BY <2>2, <2>6, OpenKeeps DEF Intact
  <2>7. ASSUME CaptureStep(c) PROVE Intact'
    <3>1. ~ WriteClosed(c)
      BY <1>2 DEF WriteClosed
    <3>2. Quiet(c) \/ WriteHeader(c) \/ WriteData(c)
      BY <2>1, <2>3, <2>7, <3>1, QuietStep
    <3> QED BY <2>2, <3>2, QuietKeeps, HeaderKeeps, DataKeeps DEF Intact
  <2> QED BY <2>4, <2>5, <2>6, <2>7 DEF Next, MainStep, OnlyRadio
<1> QED BY <1>1, <1>2

LEMMA InitOneRadio == Init => OneRadioInv
<1> SUFFICES ASSUME Init PROVE OneRadioInv
  OBVIOUS
<1>1. TypeOK /\ LogHandle
  BY InitHandle
<1>2. RefsAreOld
  BY DEF Init, RefsAreOld, Starting
<1>3. \A p \in Paths : file[p] = <<>> /\ synced[p] = 0
  BY DEF Init
<1>4. Len(<<>>) = 0 /\ 0 % 2 # 1
  OBVIOUS
<1>5. SyncedWithin
  BY <1>3, <1>4 DEF SyncedWithin
<1>6. Alternates(<<>>) /\ Paired(<<>>)
  BY <1>4 DEF Alternates, Paired
<1>7. \A p \in Paths : WholeFile(Sources, p)
  BY <1>3, <1>4, <1>6 DEF WholeFile
<1>8. \A s \in Sources : InFlightIsHalf(s)
  BY DEF Init, InFlightIsHalf
<1>9. CountAhead
  BY DEF Init, CountAhead
<1> QED BY <1>1, <1>2, <1>5, <1>7, <1>8, <1>9 DEF OneRadioInv, Intact, WholeRecords

LEMMA OneRadioStep ==
  ASSUME NEW c, OnlyRadio(c)
  PROVE  OneRadioInv /\ [Next]_vars => OneRadioInv'
<1> SUFFICES ASSUME OneRadioInv, [Next]_vars PROVE OneRadioInv'
  OBVIOUS
<1>1. TypeOK /\ LogHandle /\ RefsAreOld /\ SyncedWithin
  BY DEF OneRadioInv
<1> QED BY <1>1, TypeStep, HandleStep, RefsStep, WithinStep, IntactStep DEF OneRadioInv

\* The invariant makes a log whole and counted.
LEMMA InvMakesWhole ==
  ASSUME NEW c, OnlyRadio(c), OneRadioInv
  PROVE  LogIsWhole
<1>1. CASE raced
  BY <1>1 DEF OneRadioInv, LogIsWhole, WellFormed, CountCoversLog
<1>2. CASE ~ raced
  <2>1. WholeRecords /\ CountAhead
    BY <1>2 DEF OneRadioInv, Intact
  <2>2. ASSUME NEW p \in Paths PROVE WellFormedFile(p)
    <3>1. WholeFile(Sources, p)
      BY <2>1 DEF WholeRecords
    <3> QED BY <3>1 DEF WholeFile, HalfWritten, Alternates, Paired, WellFormedFile
  <2>3. ASSUME NEW n \in opened
        PROVE  Len(file[sessionPath[n]]) \div 2 <= handledPackets + 1
    BY <2>1, <2>3, OneThread DEF NotBehind, RecordsIn
  <2> QED BY <2>2, <2>3 DEF OneRadioInv, LogIsWhole, WellFormed, CountCoversLog
<1> QED BY <1>1, <1>2

\* With one radio, every log is at every moment a row of whole records, but for one that
\* is being written, and the user's packet count is not behind it by more than that
\* record: whichever calls of the main thread the accesses of the capture thread fall
\* between, as long as no packet was written through a log that had been closed.
THEOREM WholeCorrect ==
  ASSUME NEW c, OnlyRadio(c)
  PROVE  Spec => []LogIsWhole
<1>1. OneRadioInv /\ [Next]_vars => OneRadioInv'
  BY OneRadioStep
<1>2. OneRadioInv => LogIsWhole
  BY InvMakesWhole
<1> QED BY <1>1, <1>2, InitOneRadio, PTL DEF Spec

-----------------------------------------------------------------------------
(* The promise of CaptureLog is kept. *)

\* The variables of CaptureLog, as PcapLogger sees them.
Log      == [p \in Paths |-> RecordsOf(file[p])]
Readable == [p \in Paths |-> synced[p] \div 2]
Current  == IF opened = {} THEN NoState ELSE CHOOSE p \in Paths : p \in OpenPaths

LEMMA RecordsType ==
  ASSUME NEW f \in Seq(Chunk)
  PROVE  /\ RecordsOf(f) \in Seq(Record)
         /\ Len(RecordsOf(f)) = Len(f) \div 2
         /\ \A i \in 1 .. Len(f) \div 2 :
              /\ 2 * i \in 1 .. Len(f)
              /\ RecordsOf(f)[i] = [src |-> f[2 * i].src, len |-> f[2 * i].len]
<1>1. Len(f) \in Nat /\ Len(f) \div 2 \in Nat
  BY Halves
<1>2. \A i \in 1 .. Len(f) \div 2 : 2 * i \in 1 .. Len(f)
  BY <1>1
<1>3. \A i \in 1 .. Len(f) : f[i].src \in Sources /\ f[i].len \in Lengths
  <2>1. \A i \in 1 .. Len(f) : f[i] \in Chunk
    OBVIOUS
  <2> QED BY <2>1 DEF Chunk
<1>4. RecordsOf(f) \in [1 .. Len(f) \div 2 -> Record]
  BY <1>1, <1>2, <1>3 DEF RecordsOf, Record
<1>5. RecordsOf(f) \in Seq(Record) /\ Len(RecordsOf(f)) = Len(f) \div 2
  BY <1>1, <1>4
<1> QED BY <1>1, <1>2, <1>5 DEF RecordsOf

\* A header adds no record, a packet adds one.
LEMMA RecordsAppend ==
  ASSUME NEW f \in Seq(Chunk), NEW c \in Chunk
  PROVE  /\ Len(f) % 2 = 0 => RecordsOf(Append(f, c)) = RecordsOf(f)
         /\ Len(f) % 2 = 1 =>
              RecordsOf(Append(f, c)) = Append(RecordsOf(f), [src |-> c.src, len |-> c.len])
<1> DEFINE g == Append(f, c)
<1>1. /\ Len(f) \in Nat /\ Len(g) = Len(f) + 1 /\ g \in Seq(Chunk)
      /\ g[Len(f) + 1] = c /\ \A i \in 1 .. Len(f) : g[i] = f[i]
  OBVIOUS
<1> HIDE DEF g
<1>2. ASSUME Len(f) % 2 = 0 PROVE RecordsOf(g) = RecordsOf(f)
  <2>1. Len(g) \div 2 = Len(f) \div 2
    BY <1>1, <1>2, Halves
  <2>2. \A i \in 1 .. Len(f) \div 2 : g[2 * i] = f[2 * i]
    BY <1>1, RecordsType
  <2> QED BY <2>1, <2>2 DEF RecordsOf
<1>3. ASSUME Len(f) % 2 = 1
      PROVE  RecordsOf(g) = Append(RecordsOf(f), [src |-> c.src, len |-> c.len])
  <2> DEFINE r == [src |-> c.src, len |-> c.len]
             h == Append(RecordsOf(f), r)
             n == Len(f) \div 2
  <2>1. Len(g) \div 2 = n + 1 /\ n \in Nat /\ 2 * (n + 1) = Len(f) + 1
    <3>1. n \in Nat /\ Len(f) = 2 * n + (Len(f) % 2) /\ Len(g) \div 2 = n + 1
      BY <1>1, <1>3, Halves
    <3>2. Len(f) = 2 * n + 1
      BY <1>3, <3>1
    <3> HIDE DEF n
    <3> QED BY <3>1, <3>2
  <2>2. r \in Record
    BY DEF Record, Chunk
  <2>3. RecordsOf(f) \in Seq(Record) /\ Len(RecordsOf(f)) = n
    BY RecordsType
  <2>4. /\ h \in Seq(Record) /\ Len(h) = n + 1 /\ h[n + 1] = r
        /\ \A i \in 1 .. n : h[i] = RecordsOf(f)[i]
    BY <2>1, <2>2, <2>3
  <2>5. RecordsOf(g) \in Seq(Record) /\ Len(RecordsOf(g)) = n + 1
    BY <1>1, <2>1, RecordsType
  <2>6. ASSUME NEW i \in 1 .. n PROVE RecordsOf(g)[i] = h[i]
    <3>1. 2 * i \in 1 .. Len(f) /\ i \in 1 .. Len(g) \div 2
      BY <2>1, RecordsType
    <3>2. RecordsOf(f)[i] = [src |-> f[2 * i].src, len |-> f[2 * i].len]
      BY RecordsType
    <3>3. RecordsOf(g)[i] = [src |-> g[2 * i].src, len |-> g[2 * i].len]
      BY <1>1, <3>1, RecordsType
    <3> QED BY <1>1, <2>4, <3>1, <3>2, <3>3
  <2>7. RecordsOf(g)[n + 1] = r
    <3>1. n + 1 \in 1 .. Len(g) \div 2
      BY <2>1
    <3>2. RecordsOf(g)[n + 1] = [src |-> g[2 * (n + 1)].src, len |-> g[2 * (n + 1)].len]
      BY <1>1, <3>1, RecordsType
    <3>3. g[2 * (n + 1)] = c
      BY <1>1, <2>1
    <3> QED BY <3>2, <3>3
  <2>8. \A i \in 1 .. n + 1 : RecordsOf(g)[i] = h[i]
    <3>1. \A i \in 1 .. n + 1 : i \in 1 .. n \/ i = n + 1
      BY <2>1
    <3> QED BY <2>4, <2>6, <2>7, <3>1
  <2> HIDE DEF h
  <2>9. RecordsOf(g) = h
    BY <2>4, <2>5, <2>8, SeqEqual
  <2> QED BY <2>9 DEF h
<1> QED BY <1>2, <1>3 DEF g

LEMMA HalvesMonotone ==
  ASSUME NEW m \in Nat, NEW n \in Nat, m <= n
  PROVE  m \div 2 <= n \div 2
OBVIOUS

\* The log that is open is the one pcap_state leads to.
LEMMA CurrentIs ==
  ASSUME TypeOK, NEW n, opened = {n}
  PROVE  Current = sessionPath[n] /\ Current \in Paths /\ n \in Sessions
<1>1. n \in Sessions /\ sessionPath[n] \in Paths /\ OpenPaths = {sessionPath[n]}
  BY DEF TypeOK, OpenPaths
<1>2. (CHOOSE p \in Paths : p \in OpenPaths) = sessionPath[n]
  BY <1>1
<1> QED BY <1>1, <1>2 DEF Current

LEMMA NoStateIsNoPath == NoState \notin Paths
BY LogAssumption

\* What CaptureLog sees of a step that opens, closes and writes nothing: nothing.
LEMMA Stutters ==
  ASSUME UNCHANGED <<opened, files, raced>>, OpenPaths' = OpenPaths
  PROVE  UNCHANGED <<Log, Readable, Current, raced>>
BY DEF Log, Readable, Current, files

LEMMA ClosePromise ==
  ASSUME OneRadioInv, ClosePcap
  PROVE  /\ Current # NoState
         /\ Readable' = [Readable EXCEPT ![Current] = Len(Log[Current])]
         /\ Current' = NoState
         /\ UNCHANGED <<Log, raced>>
<1>1. TypeOK /\ opened = {pcapState} /\ opened' = {} /\ UNCHANGED <<file, raced>>
  BY DEF OneRadioInv, ClosePcap, LogHandle, fate
<1>2. Current = sessionPath[pcapState] /\ Current \in Paths /\ Current # NoState
  BY <1>1, CurrentIs, NoStateIsNoPath
<1>3. Log[Current] = RecordsOf(file[Current]) /\ file[Current] \in Seq(Chunk)
  BY <1>1, <1>2 DEF Log, TypeOK
<1>4. Len(Log[Current]) = Len(file[Current]) \div 2
  BY <1>3, RecordsType
<1>5. synced' = [synced EXCEPT ![Current] = Len(file[Current])]
  BY <1>2 DEF ClosePcap
<1>6. \A p \in Paths : synced'[p] = IF p = Current THEN Len(file[p]) ELSE synced[p]
  BY <1>1, <1>2, <1>5 DEF TypeOK
<1>7. Readable' = [Readable EXCEPT ![Current] = Len(Log[Current])]
  BY <1>2, <1>4, <1>6 DEF Readable
<1>8. Current' = NoState
  BY <1>1 DEF Current
<1> QED BY <1>1, <1>2, <1>7, <1>8 DEF Log

LEMMA OpenPromise ==
  ASSUME OneRadioInv, OneRadioInv', OpenPcap
  PROVE  /\ main.path \in Paths
         /\ Current = NoState
         /\ Current' = main.path
         /\ Log' = [Log EXCEPT ![main.path] = <<>>]
         /\ Readable' = [Readable EXCEPT ![main.path] = 0]
         /\ UNCHANGED raced
<1>1. /\ TypeOK /\ opened = {} /\ opened' = {starts} /\ UNCHANGED <<raced, sessionPath>>
      /\ main.path = sessionPath[starts] /\ main.path \in Paths /\ starts \in Sessions
  BY DEF OneRadioInv, OpenPcap, LogHandle, fate, TypeOK
<1>2. Current = NoState
  BY <1>1 DEF Current
<1>3. OpenPaths' = {main.path}
  BY <1>1 DEF OpenPaths
<1>4. Current' = main.path
  BY <1>1, <1>3 DEF Current
<1>5. /\ file' = [file EXCEPT ![main.path] = <<>>]
      /\ synced' = [synced EXCEPT ![main.path] = 0]
  BY DEF OpenPcap
<1>6. \A p \in Paths : /\ file'[p] = IF p = main.path THEN <<>> ELSE file[p]
                       /\ synced'[p] = IF p = main.path THEN 0 ELSE synced[p]
  BY <1>1, <1>5 DEF TypeOK
<1>7. RecordsOf(<<>>) = <<>> /\ 0 \div 2 = 0
  <2>1. <<>> \in Seq(Chunk) /\ Len(<<>>) = 0
    OBVIOUS
  <2>2. RecordsOf(<<>>) \in Seq(Record) /\ Len(RecordsOf(<<>>)) = 0 \div 2
    BY <2>1, RecordsType
  <2>3. 0 \div 2 = 0
    OBVIOUS
  <2> QED BY <2>2, <2>3
<1>8. Log' = [Log EXCEPT ![main.path] = <<>>]
  BY <1>6, <1>7 DEF Log
<1>9. Readable' = [Readable EXCEPT ![main.path] = 0]
  BY <1>6, <1>7 DEF Readable
<1> QED BY <1>1, <1>2, <1>4, <1>8, <1>9

\* What a fwrite makes readable.
LEMMA WriteReadable ==
  ASSUME OneRadioInv, NEW n \in opened, NEW c \in Chunk, Fwrite(n, c),
         UNCHANGED <<opened, sessionPath>>
  PROVE  /\ opened = {n} /\ Current = sessionPath[n] /\ Current' = Current
         /\ Current \in Paths /\ Current # NoState
         /\ \E k \in Readable[Current] .. Len(file'[Current]) \div 2 :
              Readable' = [Readable EXCEPT ![Current] = k]
<1>1. TypeOK /\ opened = {n}
  BY DEF OneRadioInv, LogHandle
<1>2. Current = sessionPath[n] /\ Current \in Paths /\ n \in Sessions /\ Current # NoState
  BY <1>1, CurrentIs, NoStateIsNoPath
<1>3. OpenPaths' = OpenPaths /\ Current' = Current
  BY DEF OpenPaths, Current
<1>4. /\ synced'[Current] \in synced[Current] .. Len(file'[Current])
      /\ \A p \in Paths \ {Current} : synced'[p] = synced[p]
      /\ Len(file'[Current]) = Len(file[Current]) + 1
  BY <1>1, <1>2, FwriteFile
<1>5. synced[Current] \in Nat /\ Len(file[Current]) \in Nat
  BY <1>1, <1>2 DEF TypeOK
<1> DEFINE k == synced'[Current] \div 2
<1>6. k \in synced[Current] \div 2 .. Len(file'[Current]) \div 2
  <2>1. /\ synced'[Current] \in Nat /\ Len(file'[Current]) \in Nat
        /\ synced[Current] <= synced'[Current] /\ synced'[Current] <= Len(file'[Current])
    BY <1>4, <1>5
  <2>2. /\ k \in Nat /\ synced[Current] \div 2 \in Nat
        /\ Len(file'[Current]) \div 2 \in Nat
    BY <1>5, <2>1, Halves
  <2>3. synced[Current] \div 2 <= k /\ k <= Len(file'[Current]) \div 2
    BY <1>5, <2>1, HalvesMonotone
  <2>4. ASSUME NEW i \in Nat, NEW j \in Nat, NEW l \in Nat, i <= j, j <= l PROVE j \in i .. l
    BY <2>4
  <2> QED BY <2>2, <2>3, <2>4
<1>7. Readable' = [Readable EXCEPT ![Current] = k]
  BY <1>2, <1>4 DEF Readable
<1>8. Readable[Current] = synced[Current] \div 2
  BY <1>2 DEF Readable
<1> QED BY <1>1, <1>2, <1>3, <1>6, <1>7, <1>8

\* Between two records and in the middle of one.
LEMMA EvenBetween ==
  ASSUME OneRadioInv, NEW c, OnlyRadio(c), WholeRecords, capture[c].at # "data",
         NEW p \in Paths
  PROVE  Len(file[p]) % 2 = 0
<1>1. WholeFile({c}, p) /\ Len(file[p]) \in Nat
  <2>1. \A q \in Paths : WholeFile({c}, q)
    BY OneThread
  <2>2. Len(file[p]) \in Nat
    BY DEF OneRadioInv, TypeOK
  <2> QED BY <2>1, <2>2
<1>2. Len(file[p]) % 2 # 1
  BY <1>1 DEF WholeFile, HalfWritten
<1> QED BY <1>1, <1>2, Halves

LEMMA HeaderPromise ==
  ASSUME OneRadioInv, NEW c, OnlyRadio(c), WholeRecords, WriteHeader(c)
  PROVE  /\ Current # NoState
         /\ \E k \in Readable[Current] .. Len(Log'[Current]) :
              Readable' = [Readable EXCEPT ![Current] = k]
         /\ UNCHANGED <<Log, Current>>
<1> DEFINE h == Header(c, capture[c].frame)
           n == capture[c].ref
<1>1. c \in Sources
  BY DEF OnlyRadio
<1>2. capture[c] \in Thread
  BY <1>1 DEF OneRadioInv, TypeOK
<1>3. h \in Chunk
  BY <1>1, <1>2, ThreadFields, ChunkType
<1>4. /\ n \in opened /\ Fwrite(n, h) /\ UNCHANGED <<opened, sessionPath>>
      /\ capture[c].at # "data"
  BY DEF WriteHeader, Go, mainVars
<1>5. /\ Current = sessionPath[n] /\ Current' = Current
      /\ Current \in Paths /\ Current # NoState
      /\ \E k \in Readable[Current] .. Len(file'[Current]) \div 2 :
           Readable' = [Readable EXCEPT ![Current] = k]
  BY <1>3, <1>4, WriteReadable
<1>6. /\ file'[Current] = Append(file[Current], h)
      /\ \A p \in Paths \ {Current} : file'[p] = file[p]
  BY <1>3, <1>4, <1>5, FwriteFile DEF OneRadioInv, TypeOK
<1>7. file[Current] \in Seq(Chunk) /\ Len(file[Current]) % 2 = 0
  BY <1>4, <1>5, EvenBetween DEF OneRadioInv, TypeOK
<1>8. RecordsOf(file'[Current]) = RecordsOf(file[Current])
  BY <1>3, <1>6, <1>7, RecordsAppend
<1>9. Log' = Log
  BY <1>6, <1>8 DEF Log
<1>10. Len(Log'[Current]) = Len(file'[Current]) \div 2
  <2>1. file'[Current] \in Seq(Chunk)
    BY <1>3, <1>6, <1>7
  <2> QED BY <1>5, <2>1, RecordsType DEF Log
<1> QED BY <1>5, <1>9, <1>10

LEMMA DataPromise ==
  ASSUME OneRadioInv, NEW c, OnlyRadio(c), WholeRecords, WriteData(c)
  PROVE  /\ Current # NoState
         /\ \E r \in Record : Log' = [Log EXCEPT ![Current] = Append(Log[Current], r)]
         /\ \E k \in Readable[Current] .. Len(Log'[Current]) :
              Readable' = [Readable EXCEPT ![Current] = k]
         /\ UNCHANGED Current
<1> DEFINE d == Data(c, capture[c].frame)
           n == capture[c].ref
           r == [src |-> d.src, len |-> d.len]
<1>1. c \in Sources
  BY DEF OnlyRadio
<1>2. capture[c] \in Thread
  BY <1>1 DEF OneRadioInv, TypeOK
<1>3. d \in Chunk /\ r \in Record
  <2>1. d \in Chunk
    BY <1>1, <1>2, ThreadFields, ChunkType
  <2> QED BY <2>1 DEF Chunk, Record
<1>4. /\ n \in opened /\ Fwrite(n, d) /\ UNCHANGED <<opened, sessionPath>>
      /\ capture[c].at = "data"
  BY DEF WriteData, Go, mainVars
<1>5. /\ Current = sessionPath[n] /\ Current' = Current
      /\ Current \in Paths /\ Current # NoState
      /\ \E k \in Readable[Current] .. Len(file'[Current]) \div 2 :
           Readable' = [Readable EXCEPT ![Current] = k]
  BY <1>3, <1>4, WriteReadable
<1>6. /\ file'[Current] = Append(file[Current], d)
      /\ \A p \in Paths \ {Current} : file'[p] = file[p]
  BY <1>3, <1>4, <1>5, FwriteFile DEF OneRadioInv, TypeOK
<1>7. file[Current] \in Seq(Chunk) /\ Len(file[Current]) % 2 = 1
  BY <1>4, <1>5, OneThread DEF InFlightIsHalf, OneRadioInv, TypeOK
<1>8. RecordsOf(file'[Current]) = Append(RecordsOf(file[Current]), r)
  BY <1>3, <1>6, <1>7, RecordsAppend
<1>9. Log' = [Log EXCEPT ![Current] = Append(Log[Current], r)]
  <2>1. \A p \in Paths : RecordsOf(file'[p]) = IF p = Current THEN Append(Log[Current], r)
                                                             ELSE Log[p]
    BY <1>5, <1>6, <1>8 DEF Log
  <2> QED BY <2>1 DEF Log
<1>10. Len(Log'[Current]) = Len(file'[Current]) \div 2
  <2>1. file'[Current] \in Seq(Chunk)
    BY <1>3, <1>6, <1>7
  <2> QED BY <1>5, <2>1, RecordsType DEF Log
<1> QED BY <1>3, <1>5, <1>9, <1>10

\* Every step is a step of CaptureLog or leaves it alone.
LEMMA PromiseStep ==
  ASSUME OneRadioInv, OneRadioInv', [Next]_vars, NEW c, OnlyRadio(c)
  PROVE  [Promise!Next]_<<Log, Readable, Current, raced>>
<1>1. CASE raced'
  BY <1>1 DEF Promise!Next, Promise!Lapse
<1>2. CASE ~ raced'
  <2>1. ~ raced /\ c \in Sources /\ raced' = raced
    BY <1>2 DEF OnlyRadio, OneRadioInv, TypeOK, Next, MainStep, StopLogging, StartLogging,
       ClosePcap, ClearState, DisableLogging, ResetCounters, OpenPcap, OpenPcapFails,
       EnableLogging, CaptureStep, HandlePacket, LoadPackets, StorePackets, LoadBytes,
       StoreBytes, LookupState, LogNotOpen, WriteHeader, WriteData, WriteClosed, vars, fate
  <2>2. WholeRecords /\ TypeOK /\ LogHandle
    BY <2>1 DEF OneRadioInv, Intact
  <2>3. CASE \/ StopLogging \/ (\E p \in Paths : StartLogging(p)) \/ ClearState
             \/ DisableLogging \/ ResetCounters \/ OpenPcapFails \/ EnableLogging
             \/ UNCHANGED vars
    <3>1. UNCHANGED <<opened, files>> /\ OpenPaths' = OpenPaths
      BY <2>2, <2>3, AloneStep DEF FilesAlone
    <3> QED BY <2>1, <3>1, Stutters
  <2>4. CASE ClosePcap
    <3>1. Promise!Close
      BY <2>4, ClosePromise DEF Promise!Close, Log, Readable, Current
    <3> QED BY <3>1 DEF Promise!Next
  <2>5. CASE OpenPcap
    <3>1. \E p \in Paths : Promise!Open(p)
      BY <2>5, OpenPromise DEF Promise!Open, Log, Readable, Current
    <3> QED BY <3>1 DEF Promise!Next
  <2>6. CASE Quiet(c)
    <3>1. UNCHANGED <<opened, files>> /\ OpenPaths' = OpenPaths
      BY <2>6 DEF Quiet, OpenPaths
    <3> QED BY <2>1, <3>1, Stutters
  <2>7. CASE WriteHeader(c)
    <3>1. Promise!Spill
      BY <2>1, <2>2, <2>7, HeaderPromise DEF Promise!Spill, Promise!Reach, Log, Readable, Current
    <3> QED BY <3>1 DEF Promise!Next
  <2>8. CASE WriteData(c)
    <3>1. \E r \in Record : Promise!Write(r)
      BY <2>1, <2>2, <2>8, DataPromise DEF Promise!Write, Promise!Reach, Log, Readable, Current
    <3> QED BY <3>1 DEF Promise!Next
  <2>9. CASE WriteClosed(c)
    BY <1>2, <2>9 DEF WriteClosed
  <2>10. CaptureStep(c) => Quiet(c) \/ WriteHeader(c) \/ WriteData(c) \/ WriteClosed(c)
    BY <2>1, <2>2, QuietStep
  <2> QED BY <2>3, <2>4, <2>5, <2>6, <2>7, <2>8, <2>9, <2>10 DEF Next, MainStep, OnlyRadio
<1> QED BY <1>1, <1>2

\* At the beginning no log is open and all are empty.
LEMMA PromiseInit == Init => Promise!Init
<1> SUFFICES ASSUME Init PROVE Promise!Init
  OBVIOUS
<1>1. <<>> \in Seq(Chunk) /\ Len(<<>>) = 0 /\ 0 \div 2 = 0
  OBVIOUS
<1>2. RecordsOf(<<>>) \in Seq(Record) /\ Len(RecordsOf(<<>>)) = 0
  BY <1>1, RecordsType
<1>3. RecordsOf(<<>>) = <<>>
  BY <1>2
<1>4. opened = {} /\ raced = FALSE /\ \A p \in Paths : file[p] = <<>> /\ synced[p] = 0
  BY DEF Init
<1> QED BY <1>1, <1>3, <1>4 DEF Promise!Init

\* One radio's PcapLogger implements CaptureLog: whatever the interleaving, the log it
\* writes grows by whole records, what a reader can rely on never shrinks, closing makes
\* all of it readable and only a new log of the same name touches it again, until a packet
\* is written through a log that has been closed.
THEOREM PromiseKept ==
  ASSUME NEW c, OnlyRadio(c)
  PROVE  Spec => KeepsPromise
<1>1. OneRadioInv /\ [Next]_vars => OneRadioInv'
  BY OneRadioStep
<1>2. OneRadioInv /\ OneRadioInv' /\ [Next]_vars => [Promise!Next]_(Promise!vars)
  BY PromiseStep DEF Promise!vars, Log, Readable, Current
<1> QED BY <1>1, <1>2, InitOneRadio, PromiseInit, PTL DEF Spec, KeepsPromise, Promise!Spec
=============================================================================
