----------------------------- MODULE DmxBuffer -----------------------------
(***************************************************************************)
(* The ring buffer of a demux filter or of the DVR device (struct          *)
(* dmxdev_buffer of dvb-core/dmxdev.c): callbacks write into it from       *)
(* interrupt context, a process reads it holding no lock the writer takes. *)
(*                                                                         *)
(* A callback interrupts the reader between any two of its statements, but *)
(* not the other way round, so a write is one step and a read is many.     *)
(* Bytes are numbered as they are accepted, modulo Wrap, so that a byte    *)
(* that is lost, repeated or overwritten shows.                            *)
(***************************************************************************)
EXTENDS Integers

CONSTANTS
  Size,      \* buffer->size
  MaxWrite,  \* the longest piece a callback passes to buffer_write
  MaxCount,  \* the longest count of a read
  Wrap       \* the modulus of the byte numbers

BufferAssumption ==
  /\ Size \in Nat \ {0} /\ MaxWrite \in Nat \ {0} /\ MaxCount \in Nat \ {0}
  /\ Wrap \in Nat /\ Wrap > 2 * Size

VARIABLES
  data,    \* buffer->data
  pread, pwrite,
  error,   \* buffer->error
  reader,  \* the reading process: its place in buffer_read and its locals
  seq,     \* the number of the next byte written
  expect,  \* the number of the next byte the reader ought to get
  wrong    \* has the reader been given any other byte?

vars == <<data, pread, pwrite, error, reader, seq, expect, wrong>>

Places == {"idle", "loop", "copy1", "skip1", "copy2", "skip2", "flush", "clear"}
Idle == [at |-> "idle", nonblock |-> FALSE, todo |-> 0, avail |-> 0, split |-> 0]

Init ==
  /\ data = [p \in 0 .. Size - 1 |-> 0]
  /\ pread = 0 /\ pwrite = 0 /\ error = "none"
  /\ reader = Idle /\ seq = 0 /\ expect = 0 /\ wrong = FALSE

Empty == pread = pwrite

-----------------------------------------------------------------------------
(* dvb_dmxdev_buffer_write of len bytes, as section_callback and            *)
(* ts_callback call it                                                      *)

room == IF pread - pwrite <= 0 THEN pread - pwrite + Size ELSE pread - pwrite

overflows_late(len) == len > room  \* mutant: the ring may fill up entirely
overflows(len) == len >= room

(* The piece is copied up to the end of the ring and then from its start. *)
filled(len) ==
  [p \in 0 .. Size - 1 |->
     LET j == (p - pwrite) % Size
     IN  IF j < len THEN (seq + j) % Wrap ELSE data[p]]

(* The callback drops everything while an error is pending; an overflow     *)
(* throws away what the ring holds.                                         *)
Receive(len) ==
  /\ error = "none"
  /\ IF overflows(len)
     THEN pwrite' = pread /\ error' = "EOVERFLOW" /\ UNCHANGED <<data, seq>>
     ELSE /\ data' = filled(len)
          /\ pwrite' = (pwrite + len) % Size
          /\ seq' = (seq + len) % Wrap
          /\ UNCHANGED error
  /\ UNCHANGED <<pread, reader, expect, wrong>>

(* filter_timeout takes no lock to set the error *)
Timeout ==
  /\ error' = "ETIMEDOUT"
  /\ UNCHANGED <<data, pread, pwrite, reader, seq, expect, wrong>>

(* filter_stop and filter_start empty the ring; they hold the filter's      *)
(* mutex, so no reader is inside, and the feed does not run.                *)
Reset ==
  /\ reader.at = "idle"
  /\ pread' = 0 /\ pwrite' = 0 /\ expect' = seq
  /\ UNCHANGED <<data, error, reader, seq, wrong>>

-----------------------------------------------------------------------------
(* dvb_dmxdev_buffer_read *)

At(place) == [reader EXCEPT !.at = place]
Other == <<data, pread, pwrite, error, seq, expect, wrong>>

Read(count, nonblock) ==
  /\ reader.at = "idle"
  /\ reader' = IF error # "none" THEN At("flush")
               ELSE IF nonblock /\ Empty THEN Idle
               ELSE [Idle EXCEPT !.at = "loop", !.todo = count, !.nonblock = nonblock]
  /\ UNCHANGED Other

(* One turn of the loop up to the first copy; a blocking reader waits for    *)
(* data or an error.                                                        *)
lengths ==
  LET around == pwrite - pread < 0
      ready == (pwrite - pread) % Size
  IN  [avail |-> IF ready > reader.todo THEN reader.todo ELSE ready,
       split |-> IF around THEN Size - pread ELSE Size]

Turn ==
  /\ reader.at = "loop" /\ reader.todo > 0
  /\ \/ ~Empty \/ error # "none" \/ reader.nonblock
  /\ reader' =
       IF reader.nonblock /\ Empty THEN Idle
       ELSE IF error # "none" THEN At("flush")
       ELSE [reader EXCEPT !.avail = lengths.avail, !.split = lengths.split,
               !.at = IF lengths.split < lengths.avail THEN "copy1" ELSE "copy2"]
  /\ UNCHANGED Other

Done == /\ reader.at = "loop" /\ reader.todo = 0
        /\ reader' = Idle
        /\ UNCHANGED Other

(* A signal ends a wait. *)
Signal == /\ reader.at = "loop" /\ reader.todo > 0 /\ Empty /\ error = "none"
          /\ reader' = Idle
          /\ UNCHANGED Other

(* copy_to_user of len bytes at pread *)
Copied(len) ==
  /\ wrong' = (wrong \/ \E j \in 0 .. len - 1 :
                 data[(pread + j) % Size] # (expect + j) % Wrap)
  /\ expect' = (expect + len) % Wrap

(* up to the end of the ring *)
Copy1 == /\ reader.at = "copy1"
         /\ Copied(reader.split)
         /\ reader' = At("skip1")
         /\ UNCHANGED <<data, pread, pwrite, error, seq>>
Skip1 == /\ reader.at = "skip1"
         /\ pread' = 0
         /\ reader' = [reader EXCEPT !.todo = @ - reader.split,
                         !.avail = @ - reader.split, !.at = "copy2"]
         /\ UNCHANGED <<data, pwrite, error, seq, expect, wrong>>

(* and the rest *)
Copy2 == /\ reader.at = "copy2"
         /\ Copied(reader.avail)
         /\ reader' = At("skip2")
         /\ UNCHANGED <<data, pread, pwrite, error, seq>>
Skip2 == /\ reader.at = "skip2"
         /\ pread' = (pread + reader.avail) % Size
         /\ reader' = [reader EXCEPT !.todo = @ - reader.avail, !.at = "loop",
                                     !.avail = 0, !.split = 0]
         /\ UNCHANGED <<data, pwrite, error, seq, expect, wrong>>

(* An error is reported: the ring is emptied, then the error is cleared. *)
Flush == /\ reader.at = "flush"
         /\ pwrite' = pread
         /\ reader' = At("clear")
         /\ UNCHANGED <<data, pread, error, seq, expect, wrong>>
Clear == /\ reader.at = "clear"
         /\ error' = "none"
         /\ expect' = seq
         /\ reader' = Idle
         /\ UNCHANGED <<data, pread, pwrite, seq, wrong>>

-----------------------------------------------------------------------------
Reader == Turn \/ Done \/ Copy1 \/ Skip1 \/ Copy2 \/ Skip2 \/ Flush \/ Clear

Next ==
  \/ \E len \in 1 .. MaxWrite : Receive(len)
  \/ Timeout \/ Reset \/ Signal
  \/ \E count \in 1 .. MaxCount, nonblock \in BOOLEAN : Read(count, nonblock)
  \/ Reader

(* The reading process runs, and the stream goes on. *)
Fairness == WF_vars(Reader) /\ WF_vars(\E len \in 1 .. MaxWrite : Receive(len))

Spec == Init /\ [][Next]_vars
FairSpec == Spec /\ Fairness

-----------------------------------------------------------------------------
TypeOK ==
  /\ data \in [0 .. Size - 1 -> 0 .. Wrap - 1]
  /\ pread \in 0 .. Size - 1 /\ pwrite \in 0 .. Size - 1
  /\ error \in {"none", "ETIMEDOUT", "EOVERFLOW"}
  /\ reader \in [at : Places, nonblock : BOOLEAN, todo : 0 .. MaxCount,
                 avail : 0 .. Size, split : 0 .. Size]
  /\ seq \in 0 .. Wrap - 1 /\ expect \in 0 .. Wrap - 1 /\ wrong \in BOOLEAN

(* However writes, overflows and timeouts fall between the statements of a  *)
(* read, the reader gets every byte once and in order, up to an error that  *)
(* is reported to it; after the error it goes on with bytes received since. *)
ReadsInOrder == ~wrong

(* Between reads and without an error pending, the ring holds exactly the   *)
(* bytes received and not yet read.                                         *)
RingHoldsUnread ==
  reader.at = "idle" /\ error = "none" =>
    LET held == (pwrite - pread) % Size
    IN  /\ (seq - expect) % Wrap = held
        /\ \A j \in 0 .. held - 1 :
             data[(pread + j) % Size] = (expect + j) % Wrap

(* While the stream goes on, a blocking read returns.                       *)
ReadReturns == reader.at = "loop" ~> reader.at = "idle"
=============================================================================
