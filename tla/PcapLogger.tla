----------------------------- MODULE PcapLogger -----------------------------
(***************************************************************************)
(* The capture log: PcapLogger.java, the counters it inherits from         *)
(* PacketHandler.java, the native half in jni/pcap_jni.c and the two       *)
(* fwrite calls of libpcap's pcap_dump.  The 24 bytes of file header that  *)
(* pcap_dump_open writes are left out: a file here is its records.         *)
(*                                                                         *)
(* Two kinds of threads meet here without a lock.  The main thread runs    *)
(* startLogging and stopLogging; one capture thread per radio runs         *)
(* handlePacket for every frame it reads.  A step of this module is one    *)
(* access to what they share: the fields loggingEnabled, pcap_state,       *)
(* handledPackets and handledBytes, and the FILE behind pcap_state.        *)
(***************************************************************************)
EXTENDS Naturals, Sequences

CONSTANTS
  Sources,     \* the capture threads, one per radio
  Paths,       \* the names a log may be given
  Lengths,     \* the lengths of captured frames
  NoState,     \* pcap_state = null: no session, and no log
  MaxFrames,   \* bound: frames each source captures
  MaxStarts    \* bound: calls of startLogging

ASSUME LogAssumption ==
  /\ Lengths \subseteq Nat
  /\ MaxFrames \in Nat
  /\ MaxStarts \in Nat
  /\ NoState \notin Nat \cup Paths
  /\ Paths # {}
  /\ Lengths # {}

VARIABLES
  loggingEnabled,   \* PcapLogger.loggingEnabled
  pcapState,        \* PcapLogger.pcap_state: a session, or NoState
  handledPackets,   \* PacketHandler.handledPackets
  handledBytes,     \* PacketHandler.handledBytes
  main,             \* where the main thread is: [at, then, path]
  starts,           \* sessions given out so far; a session is its number
  sessionPath,      \* the file a session writes
  opened,           \* the sessions whose FILE and native state are not released
  file,             \* what fwrite was given, per path, in order
  synced,           \* how much of it has left the stdio buffer
  capture,          \* per source: [at, frame, count, ref]
  captured,         \* frames read so far, per source
  raced,            \* history: a FILE was used after it was closed
  crashed           \* the process has died

mainVars == <<loggingEnabled, pcapState, main, starts, sessionPath, opened>>
counters == <<handledPackets, handledBytes>>
files == <<file, synced>>
captureVars == <<capture, captured>>
fate == <<raced, crashed>>
vars == <<mainVars, counters, files, captureVars, fate>>

Sessions == 1 .. MaxStarts

\* pcap_dump hands stdio a record header and then the packet, in two calls.
Chunk == [part : {"header", "data"}, src : Sources, len : Lengths]

Header(s, n) == [part |-> "header", src |-> s, len |-> n]
Data(s, n)   == [part |-> "data", src |-> s, len |-> n]

MainAt == {"idle", "close", "clear", "disable", "reset", "open", "enable"}
CaptureAt == {"read", "count", "store", "addBytes", "storeBytes", "lookup",
              "header", "data"}

\* A capture thread that writes holds a session.
Thread ==
  {t \in [at : CaptureAt, frame : Lengths, count : Nat, ref : Sessions \cup {NoState}] :
     t.at \in {"header", "data"} => t.ref # NoState}

OpenPaths == {sessionPath[n] : n \in opened}

-----------------------------------------------------------------------------
Init ==
  /\ loggingEnabled = FALSE
  /\ pcapState = NoState
  /\ handledPackets = 0
  /\ handledBytes = 0
  /\ \E p \in Paths :
       /\ main = [at |-> "idle", then |-> "idle", path |-> p]
       /\ sessionPath = [n \in Sessions |-> p]
  /\ starts = 0
  /\ opened = {}
  /\ file = [p \in Paths |-> <<>>]
  /\ synced = [p \in Paths |-> 0]
  /\ \E n \in Lengths :
       capture = [s \in Sources |->
                   [at |-> "read", frame |-> n, count |-> 0, ref |-> NoState]]
  /\ captured = [s \in Sources |-> 0]
  /\ raced = FALSE
  /\ crashed = FALSE

-----------------------------------------------------------------------------
(* The main thread. *)

\* stopLogging returns at once when nothing is being logged.
StopLogging ==
  /\ main.at = "idle"
  /\ loggingEnabled
  /\ main' = [main EXCEPT !.at = "close", !.then = "idle"]
  /\ UNCHANGED <<loggingEnabled, pcapState, starts, sessionPath, opened,
                 counters, files, captureVars, fate>>

\* Mutant of StartLogging: a log that is running is not stopped first.
StartLoggingAnyway(p) ==
  /\ main.at = "idle"
  /\ starts < MaxStarts
  /\ starts' = starts + 1
  /\ sessionPath' = [sessionPath EXCEPT ![starts + 1] = p]
  /\ main' = [at |-> "reset", then |-> "reset", path |-> p]
  /\ UNCHANGED <<loggingEnabled, pcapState, opened, counters, files,
                 captureVars, fate>>

\* startLogging first stops the log that is running, if one is.
StartLogging(p) ==
  /\ main.at = "idle"
  /\ starts < MaxStarts
  /\ starts' = starts + 1
  /\ sessionPath' = [sessionPath EXCEPT ![starts + 1] = p]
  /\ main' = [at |-> IF loggingEnabled THEN "close" ELSE "reset",
              then |-> "reset", path |-> p]
  /\ UNCHANGED <<loggingEnabled, pcapState, opened, counters, files,
                 captureVars, fate>>

\* Mutant of ClosePcap: what stdio holds back is not flushed.
ClosePcapUnflushed ==
  /\ main.at = "close"
  /\ opened' = opened \ {pcapState}
  /\ main' = [main EXCEPT !.at = "clear"]
  /\ UNCHANGED <<loggingEnabled, pcapState, starts, sessionPath, counters,
                 files, captureVars, fate>>

\* closePcap: pcap_dump_flush, pcap_dump_close, pcap_close and free.  From
\* here until "clear" pcap_state still points at what was released.
ClosePcap ==
  /\ main.at = "close"
  /\ opened' = opened \ {pcapState}
  /\ synced' = [synced EXCEPT ![sessionPath[pcapState]] =
                                Len(file[sessionPath[pcapState]])]
  /\ main' = [main EXCEPT !.at = "clear"]
  /\ UNCHANGED <<loggingEnabled, pcapState, starts, sessionPath, counters,
                 file, captureVars, fate>>

\* Mutant of ClearState: pcap_state is left pointing at what was released.
ClearStateForgotten ==
  /\ main.at = "clear"
  /\ main' = [main EXCEPT !.at = "disable"]
  /\ UNCHANGED <<loggingEnabled, pcapState, starts, sessionPath, opened, counters,
                 files, captureVars, fate>>

\* closePcap: pcap_state = null.
ClearState ==
  /\ main.at = "clear"
  /\ pcapState' = NoState
  /\ main' = [main EXCEPT !.at = "disable"]
  /\ UNCHANGED <<loggingEnabled, starts, sessionPath, opened, counters, files,
                 captureVars, fate>>

\* stopLogging, after closePcap has returned: loggingEnabled = false.
DisableLogging ==
  /\ main.at = "disable"
  /\ loggingEnabled' = FALSE
  /\ main' = [main EXCEPT !.at = main.then]
  /\ UNCHANGED <<pcapState, starts, sessionPath, opened, counters, files,
                 captureVars, fate>>

\* startLogging: handledPackets = 0, handledBytes = 0, pcapPath = path.
ResetCounters ==
  /\ main.at = "reset"
  /\ handledPackets' = 0
  /\ handledBytes' = 0
  /\ main' = [main EXCEPT !.at = "open"]
  /\ UNCHANGED <<loggingEnabled, pcapState, starts, sessionPath, opened, files,
                 captureVars, fate>>

\* Mutant of OpenPcap: an earlier file of that name is appended to.
OpenPcapAppends ==
  /\ main.at = "open"
  /\ opened' = opened \cup {starts}
  /\ pcapState' = starts
  /\ main' = [main EXCEPT !.at = "enable"]
  /\ UNCHANGED <<loggingEnabled, starts, sessionPath, counters, files, captureVars,
                 fate>>

\* openPcap succeeds: fopen(path, "w") discards an earlier file of that name.
OpenPcap ==
  /\ main.at = "open"
  /\ file' = [file EXCEPT ![main.path] = <<>>]
  /\ synced' = [synced EXCEPT ![main.path] = 0]
  /\ opened' = opened \cup {starts}
  /\ pcapState' = starts
  /\ main' = [main EXCEPT !.at = "enable"]
  /\ UNCHANGED <<loggingEnabled, starts, sessionPath, counters, captureVars,
                 fate>>

\* openPcap throws IOException: everything it allocated is released.
OpenPcapFails ==
  /\ main.at = "open"
  /\ loggingEnabled' = FALSE
  /\ main' = [main EXCEPT !.at = "idle"]
  /\ UNCHANGED <<pcapState, starts, sessionPath, opened, counters, files,
                 captureVars, fate>>

\* startLogging: loggingEnabled = true, once openPcap has returned.
EnableLogging ==
  /\ main.at = "enable"
  /\ loggingEnabled' = TRUE
  /\ main' = [main EXCEPT !.at = "idle"]
  /\ UNCHANGED <<pcapState, starts, sessionPath, opened, counters, files,
                 captureVars, fate>>

MainStep ==
  \/ StopLogging
  \/ \E p \in Paths : StartLogging(p)
  \/ ClosePcap \/ ClearState \/ DisableLogging
  \/ ResetCounters \/ OpenPcap \/ OpenPcapFails \/ EnableLogging

-----------------------------------------------------------------------------
(* A capture thread. *)

\* The capture thread s moves from a to b.
Go(s, a, b) ==
  /\ capture[s].at = a
  /\ capture' = [capture EXCEPT ![s] = [@ EXCEPT !.at = b]]
  /\ UNCHANGED captured

\* A frame of length n arrives and handlePacket tests loggingEnabled.
HandlePacket(s, n) ==
  /\ capture[s].at = "read"
  /\ captured[s] < MaxFrames
  /\ captured' = [captured EXCEPT ![s] = @ + 1]
  /\ capture' = [capture EXCEPT ![s] =
                 [@ EXCEPT !.at = IF loggingEnabled THEN "count" ELSE "read", !.frame = n]]
  /\ UNCHANGED <<mainVars, counters, files, fate>>

\* handledPackets++ is a load and a store.
LoadPackets(s) ==
  /\ capture[s].at = "count"
  /\ capture' = [capture EXCEPT ![s] = [@ EXCEPT !.at = "store", !.count = handledPackets]]
  /\ UNCHANGED <<mainVars, counters, files, captured, fate>>

StorePackets(s) ==
  /\ Go(s, "store", "addBytes")
  /\ handledPackets' = capture[s].count + 1
  /\ UNCHANGED <<mainVars, handledBytes, files, fate>>

\* handledBytes += p.getBytes().length, likewise.
LoadBytes(s) ==
  /\ capture[s].at = "addBytes"
  /\ capture' = [capture EXCEPT ![s] = [@ EXCEPT !.at = "storeBytes", !.count = handledBytes]]
  /\ UNCHANGED <<mainVars, counters, files, captured, fate>>

StoreBytes(s) ==
  /\ Go(s, "storeBytes", "lookup")
  /\ handledBytes' = capture[s].count + capture[s].frame
  /\ UNCHANGED <<mainVars, handledPackets, files, fate>>

\* logPPIPacket reads pcap_state.
LookupState(s) ==
  /\ capture[s].at = "lookup"
  /\ pcapState # NoState
  /\ capture' = [capture EXCEPT ![s] = [@ EXCEPT !.at = "header", !.ref = pcapState]]
  /\ UNCHANGED <<mainVars, counters, files, captured, fate>>

\* logPPIPacket finds pcap_state null and throws "pcap log not open".  Nothing
\* on the way up catches it, so the capture thread and the process end.
LogNotOpen(s) ==
  /\ capture[s].at = "lookup"
  /\ pcapState = NoState
  /\ crashed' = TRUE
  /\ UNCHANGED <<mainVars, counters, files, captureVars, raced>>

\* fwrite appends c to the file of an open session; stdio passes on as much of
\* its buffer as it likes.
Fwrite(n, c) ==
  LET p == sessionPath[n] IN
  /\ file' = [file EXCEPT ![p] = Append(@, c)]
  /\ \E k \in synced[p] .. Len(file[p]) + 1 : synced' = [synced EXCEPT ![p] = k]

WriteHeader(s) ==
  /\ capture[s].ref \in opened
  /\ Go(s, "header", "data")
  /\ Fwrite(capture[s].ref, Header(s, capture[s].frame))
  /\ UNCHANGED <<mainVars, counters, fate>>

\* Mutant of WriteData: the record is given the length of another frame.
WriteDataMisjudged(s) ==
  /\ capture[s].ref \in opened
  /\ Go(s, "data", "read")
  /\ \E n \in Lengths : Fwrite(capture[s].ref, Data(s, n))
  /\ UNCHANGED <<mainVars, counters, fate>>

WriteData(s) ==
  /\ capture[s].ref \in opened
  /\ Go(s, "data", "read")
  /\ Fwrite(capture[s].ref, Data(s, capture[s].frame))
  /\ UNCHANGED <<mainVars, counters, fate>>

\* Mutant of WriteClosed: the session opens its file again to write.
WriteClosedReopens(s) ==
  /\ capture[s].ref \notin opened
  /\ Go(s, "header", "data")
  /\ raced' = TRUE
  /\ Fwrite(capture[s].ref, Header(s, capture[s].frame))
  /\ UNCHANGED <<mainVars, counters, crashed>>

\* fwrite through a session that has been closed is undefined: the process may
\* die, the bytes may vanish, or the C library has handed the same FILE to the
\* session opened since and they land there.
WriteClosed(s) ==
  /\ capture[s].ref \notin opened
  /\ \/ Go(s, "header", "data")
     \/ Go(s, "data", "read")
  /\ raced' = TRUE
  /\ \/ crashed' = TRUE /\ UNCHANGED files
     \/ UNCHANGED <<crashed, files>>
     \/ /\ UNCHANGED crashed
        /\ \E n \in opened :
             Fwrite(n, IF capture[s].at = "header" THEN Header(s, capture[s].frame)
                                                   ELSE Data(s, capture[s].frame))
  /\ UNCHANGED <<mainVars, counters>>

CaptureStep(s) ==
  \/ \E n \in Lengths : HandlePacket(s, n)
  \/ LoadPackets(s) \/ StorePackets(s) \/ LoadBytes(s) \/ StoreBytes(s)
  \/ LookupState(s) \/ LogNotOpen(s)
  \/ WriteHeader(s) \/ WriteData(s) \/ WriteClosed(s)

-----------------------------------------------------------------------------
\* Nothing happens in a process that has died.
Next == ~crashed /\ (MainStep \/ \E s \in Sources : CaptureStep(s))

Spec == Init /\ [][Next]_vars

-----------------------------------------------------------------------------
(* Properties. *)

\* Every variable keeps its type; in particular a session's file is one of
\* Paths and a capture thread that writes holds a session.
TypeOK ==
  /\ loggingEnabled \in BOOLEAN
  /\ pcapState \in Sessions \cup {NoState}
  /\ handledPackets \in Nat
  /\ handledBytes \in Nat
  /\ main \in [at : MainAt, then : {"idle", "reset"}, path : Paths]
  /\ starts \in 0 .. MaxStarts
  /\ sessionPath \in [Sessions -> Paths]
  /\ opened \subseteq Sessions
  /\ file \in [Paths -> Seq(Chunk)]
  /\ synced \in [Paths -> Nat]
  /\ capture \in [Sources -> Thread]
  /\ captured \in [Sources -> 0 .. MaxFrames]
  /\ raced \in BOOLEAN
  /\ crashed \in BOOLEAN

\* Between two calls on the main thread, loggingEnabled says exactly whether a
\* FILE is open, that FILE is the one pcap_state leads to, and no other has been
\* left behind: openPcap overwrites pcap_state without looking at it
\* (pcap_jni.c:88), so a start that skipped closePcap would leak one.
FlagMatchesFile ==
  main.at = "idle" =>
    IF loggingEnabled
    THEN pcapState # NoState /\ opened = {pcapState}
    ELSE pcapState = NoState /\ opened = {}

\* What FlagMatchesFile needs in between: the same, at every point of stopLogging
\* and startLogging.
LogHandle ==
  /\ loggingEnabled <=> \/ main.at \in {"close", "clear", "disable"}
                        \/ main.at = "idle" /\ pcapState # NoState
  /\ pcapState = NoState <=> \/ main.at \in {"disable", "reset", "open"}
                             \/ main.at = "idle" /\ ~loggingEnabled
  /\ opened = IF pcapState = NoState \/ main.at = "clear" THEN {} ELSE {pcapState}
  /\ starts = 0 => main.at = "idle" /\ ~loggingEnabled
  /\ starts # 0 => main.path = sessionPath[starts]
  /\ pcapState = NoState \/ pcapState <= starts

\* Everything written to a log that is not open any more is in its file: it can
\* be shared, counted or copied from then on.
ClosedIsSynced ==
  \A p \in Paths \ OpenPaths : synced[p] = Len(file[p])

\* The log that is not open now and was not open before stays as it was, whatever
\* late packets do: only opening a log of the same name replaces it.
ClosedIsFinal ==
  [][\A p \in Paths \ (OpenPaths \cup OpenPaths') :
       file'[p] = file[p] /\ synced'[p] = synced[p]]_vars

\* A savefile is a row of headers, each followed by its own packet.  Only the
\* last packet may be missing, while the thread that wrote its header is on its
\* way to write it.
WellFormedFile(p) ==
  LET f == file[p] IN
  /\ \A i \in 1 .. Len(f) :
       f[i].part = IF i % 2 = 1 THEN "header" ELSE "data"
  /\ \A i \in 1 .. Len(f) :
       i % 2 = 0 => f[i].src = f[i - 1].src /\ f[i].len = f[i - 1].len
  /\ Len(f) % 2 = 1 =>
       \E s \in Sources :
         /\ capture[s].at = "data"
         /\ f[Len(f)] = Header(s, capture[s].frame)

\* With one radio every log is well formed, as long as no packet was written
\* through a log that had been closed: pcap_dump's two fwrite calls
\* (sf-pcap.c:489-490) are never separated by another record.
WellFormed == raced \/ \A p \in Paths : WellFormedFile(p)

\* With one radio the counters shown to the user are never behind the log by more
\* than the record in flight, although handledPackets++ on the capture thread and
\* the reset in startLogging race: the race can leave the count too high, never
\* too low.
CountCoversLog ==
  raced \/
    \A n \in opened : Len(file[sessionPath[n]]) \div 2 <= handledPackets + 1

\* A log is whole and counted at every moment, whichever calls of the main thread the
\* accesses of the capture thread fall between.
LogIsWhole == TypeOK /\ WellFormed /\ CountCoversLog

-----------------------------------------------------------------------------
(* The promise of CaptureLog, kept for one radio. *)

Record == [src : Sources, len : Lengths]

\* The complete records of a log.
RecordsOf(f) == [i \in 1 .. Len(f) \div 2 |-> [src |-> f[2 * i].src, len |-> f[2 * i].len]]

Promise == INSTANCE CaptureLog WITH
  NoPath   <- NoState,
  Records  <- Record,
  log      <- [p \in Paths |-> RecordsOf(file[p])],
  readable <- [p \in Paths |-> synced[p] \div 2],
  current  <- IF opened = {} THEN NoState ELSE CHOOSE p \in Paths : p \in OpenPaths,
  lapsed   <- raced

\* One radio's PcapLogger implements CaptureLog: the log grows by whole records,
\* what is readable never shrinks, and closing it makes all of it readable; the
\* promise lapses only at a write through a closed log.
KeepsPromise == Promise!Spec
=============================================================================
