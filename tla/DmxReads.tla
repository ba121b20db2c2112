------------------------------ MODULE DmxReads ------------------------------
(***************************************************************************)
(* How processes read what the demux leaves for them (dvb-core/dmxdev.c):  *)
(* dvb_dmxdev_read_sec, which cuts the ring of a section filter into       *)
(* sections, and the DVR device, which is read for the transport stream or *)
(* written to in place of a frontend.                                      *)
(*                                                                         *)
(* A section is 3 bytes of header, which say how long the rest is, and the *)
(* rest.  The single steps of a read of the ring are those of DmxBuffer.   *)
(***************************************************************************)
EXTENDS Integers, Sequences, SequencesExt, FiniteSets

CONSTANTS
  Lengths, \* how long the rest of a section may be
  Size,    \* of the ring: it takes Size - 1 bytes
  Counts,  \* what processes ask for in one read
  Files    \* files that may be open on the DVR device

ReadsAssumption ==
  /\ Lengths \subseteq Nat \ {0} /\ Size \in Nat \ {0} /\ Counts \subseteq Nat \ {0}

VARIABLES
  ring,      \* what is unread: bytes, each with its section's length and its place
  error,     \* buffer->error
  todo,      \* dfil->todo: what is left of the section, or minus the header got
  secheader, \* dfil->secheader
  reader,    \* the process in read_sec
  astray,    \* history: did an overflow hit the rest of a section being read?
  dvr        \* the DVR device

vars == <<ring, error, todo, secheader, reader, astray, dvr>>

Idle == [at |-> "idle", count |-> 0, nonblock |-> FALSE]
Closed == [f \in Files |-> "closed"]

Init ==
  /\ ring = <<>> /\ error = FALSE /\ todo = 0 /\ secheader = <<>>
  /\ reader = Idle /\ astray = FALSE
  /\ dvr = [frontend |-> "tuner", orig_fe |-> "none", data |-> FALSE, lost |-> 0,
            files |-> Closed, crowded |-> FALSE, interrupted |-> FALSE]

section(n) == [k \in 1 .. 3 + n |-> [length |-> n, place |-> k - 1]]
lesser(a, b) == IF a < b THEN a ELSE b

-----------------------------------------------------------------------------
(* dvb_dmxdev_section_callback                                               *)
Receive(n) ==
  /\ ~error
  /\ IF Len(ring) + 3 + n < Size THEN ring' = ring \o section(n) /\ UNCHANGED error
     ELSE ring' = <<>> /\ error' = TRUE
  /\ UNCHANGED <<todo, secheader, reader, astray, dvr>>

(* DMX_STOP and DMX_START wait for the reader.                               *)
Restart ==
  /\ reader.at = "idle"
  /\ ring' = <<>> /\ todo' = 0 /\ astray' = FALSE
  /\ UNCHANGED <<error, secheader, reader, dvr>>

(* What dvb_dmxdev_buffer_read may return: an error, which empties the ring, *)
(* or the bytes it got; fewer than asked for without blocking or by a signal.*)
Failed == -1
results(want) ==
  IF error \/ (reader.nonblock /\ ring = <<>>) THEN {Failed} ELSE {lesser(want, Len(ring))}
consumed(r) ==
  IF r = Failed THEN IF error THEN ring' = <<>> /\ error' = FALSE ELSE UNCHANGED <<ring, error>>
  ELSE ring' = SubSeq(ring, r + 1, Len(ring)) /\ UNCHANGED error

EnterRead(count, nonblock) ==
  /\ reader.at = "idle"
  /\ reader' = [at |-> IF todo <= 0 THEN "header" ELSE "rest",
                count |-> count, nonblock |-> nonblock]
  /\ UNCHANGED <<ring, error, todo, secheader, astray, dvr>>

(* What a header says that was not read from the start of a section is       *)
(* anything.                                                                 *)
lengths_in(header) ==
  IF \A k \in 1 .. 3 : header[k].place = k - 1 THEN {header[1].length} ELSE Lengths \cup {0}

(* The first half of read_sec.                                               *)
ReadHeader ==
  /\ reader.at = "header"
  /\ \E r \in results(lesser(3 + todo, reader.count)) :
       /\ consumed(r)
       /\ IF r = Failed
          THEN todo' = 0 /\ reader' = Idle /\ UNCHANGED secheader /\ astray' = (astray /\ ~error)
          ELSE LET got == SubSeq(secheader, 1, -todo) \o SubSeq(ring, 1, r)
               IN /\ secheader' = got
                  /\ IF Len(got) < 3 THEN todo' = todo - r /\ reader' = Idle
                     ELSE /\ todo' \in lengths_in(got)
                          /\ reader' = IF reader.count = r THEN Idle
                                       ELSE [reader EXCEPT !.at = "rest", !.count = @ - r]
                  /\ UNCHANGED astray
  /\ UNCHANGED dvr

(* The second half: an error leaves todo as it is.                           *)
ReadRest ==
  /\ reader.at = "rest"
  /\ \E r \in results(lesser(reader.count, todo)) :
       /\ consumed(r)
       /\ todo' = IF r = Failed THEN todo ELSE todo - r
       /\ astray' = (astray \/ (r = Failed /\ error /\ todo > 0))
  /\ reader' = Idle
  /\ UNCHANGED <<secheader, dvr>>

-----------------------------------------------------------------------------
(* The DVR device.  dvr.lost counts the buffers nobody has any more.         *)

opened(f, mode) ==
  [dvr EXCEPT !.files[f] = mode, !.crowded = @ \/ \E g \in Files : dvr.files[g] # "closed"]

(* dvb_dvr_open: to read, a buffer is allocated over the one there may be;   *)
(* to write, the demux is taken from its frontend and given the memory.      *)
OpenDvr(f, mode) ==
  /\ dvr.files[f] = "closed"
  /\ dvr' = IF mode = "read"
              THEN [opened(f, mode) EXCEPT !.data = TRUE,
                                           !.lost = lesser(1, IF dvr.data THEN @ + 1 ELSE @)]
              ELSE [opened(f, mode) EXCEPT !.orig_fe = dvr.frontend, !.frontend = "memory"]
  /\ UNCHANGED <<ring, error, todo, secheader, reader, astray>>

(* dvb_dvr_release                                                           *)
released(f) ==
  IF dvr.files[f] = "read" THEN [dvr EXCEPT !.files[f] = "closed", !.data = FALSE]
  ELSE [dvr EXCEPT !.files[f] = "closed", !.frontend = dvr.orig_fe]

(* A signal while it waits for dmxdev->mutex: nobody calls it again.  A      *)
(* signal while it waits for the demux after that leaves it in between.      *)
unreleased(f) ==
  LET left == [dvr EXCEPT !.files[f] = "closed", !.interrupted = TRUE]
  IN IF dvr.files[f] = "read" THEN {left}
     ELSE {left, [left EXCEPT !.frontend = "none"]}

ReleaseDvr(f) ==
  /\ dvr.files[f] # "closed"
  /\ dvr' \in {released(f)} \cup unreleased(f)
  /\ UNCHANGED <<ring, error, todo, secheader, reader, astray>>

Next ==
  \/ \E n \in Lengths : Receive(n)
  \/ Restart
  \/ \E count \in Counts, nonblock \in BOOLEAN : EnterRead(count, nonblock)
  \/ ReadHeader \/ ReadRest
  \/ \E f \in Files, mode \in {"read", "write"} : OpenDvr(f, mode)
  \/ \E f \in Files : ReleaseDvr(f)

Spec == Init /\ [][Next]_vars

-----------------------------------------------------------------------------
TypeOK ==
  /\ Len(ring) < Size /\ error \in BOOLEAN
  /\ todo \in -2 .. 3 + Cardinality(Lengths) + Size
  /\ Len(secheader) <= 3
  /\ reader.at \in {"idle", "header", "rest"}

(* However a reader cuts its reads, what it is given next is what read_sec   *)
(* takes it for: the rest of a header, or the rest of a section; until the   *)
(* ring overflows while it reads the rest of one.  Then todo outlives the    *)
(* bytes it counts, and sections are cut in the wrong places from there on.  *)
InStep ==
  (ring # <<>> /\ ~astray) =>
    IF todo <= 0 THEN ring[1].place = -todo
    ELSE ring[1].place > 2 /\ todo = ring[1].length + 3 - ring[1].place

(* When the last file is closed the demux has its frontend again and the     *)
(* buffer is given back; unless two files were open at a time, which nothing *)
(* forbids, or a signal cut a release short.                                 *)
DvrLeavesNothing ==
  (dvr.files = Closed /\ ~dvr.crowded /\ ~dvr.interrupted) =>
    dvr.frontend = "tuner" /\ ~dvr.data /\ dvr.lost = 0
=============================================================================
