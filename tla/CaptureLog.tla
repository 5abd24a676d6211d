----------------------------- MODULE CaptureLog -----------------------------
(***************************************************************************)
(* What a capture log promises whoever opens its file: it grows by whole   *)
(* records while it is open, a reader can rely on a prefix of it that      *)
(* never shrinks, closing it makes all of it readable, and from then on    *)
(* only a new log of the same name touches it.                             *)
(*                                                                         *)
(* The promise can lapse.  PcapLogger implements this specification for    *)
(* one radio, and lapses only where a packet overtakes the end of a log.   *)
(***************************************************************************)
EXTENDS Naturals, Sequences

CONSTANTS
  Paths,     \* the names of logs
  Records,   \* what a log is a sequence of
  NoPath     \* no log is open; not one of Paths

VARIABLES
  log,       \* the records of each log
  readable,  \* how many of them are certain to be in the file
  current,   \* the log that is open
  lapsed     \* the promise is void

vars == <<log, readable, current, lapsed>>

Init ==
  /\ log = [p \in Paths |-> <<>>]
  /\ readable = [p \in Paths |-> 0]
  /\ current = NoPath
  /\ lapsed = FALSE

Open(p) ==
  /\ current = NoPath
  /\ current' = p
  /\ log' = [log EXCEPT ![p] = <<>>]
  /\ readable' = [readable EXCEPT ![p] = 0]
  /\ UNCHANGED lapsed

\* More of what was written reaches the file.
Reach == \E k \in readable[current] .. Len(log'[current]) :
           readable' = [readable EXCEPT ![current] = k]

Write(r) ==
  /\ current # NoPath
  /\ log' = [log EXCEPT ![current] = Append(@, r)]
  /\ Reach
  /\ UNCHANGED <<current, lapsed>>

Spill ==
  /\ current # NoPath
  /\ UNCHANGED log
  /\ Reach
  /\ UNCHANGED <<current, lapsed>>

Close ==
  /\ current # NoPath
  /\ readable' = [readable EXCEPT ![current] = Len(log[current])]
  /\ current' = NoPath
  /\ UNCHANGED <<log, lapsed>>

Lapse == lapsed' = TRUE

Next ==
  \/ \E p \in Paths : Open(p)
  \/ \E r \in Records : Write(r)
  \/ Spill \/ Close \/ Lapse

Spec == Init /\ [][Next]_vars
=============================================================================
