----------------------------- MODULE GtPlayback -----------------------------
(***************************************************************************)
(* Writing to a system queue (avia/avia_gt_dmx.c): a program that plays    *)
(* from memory puts its data behind the write position of the queue, the   *)
(* decoder takes them from its read position.                              *)
(***************************************************************************)
EXTENDS Integers

CONSTANTS
  Size,     \* q->size
  Counts    \* how much a program writes at a time

PlaybackAssumption == Size \in Nat /\ Size >= 2 /\ Counts \subseteq Nat

Positions == 0 .. Size - 1

VARIABLES
  write_pos, \* q->write_pos
  chip,      \* the queue's registers: read and write position
  writer,    \* avia_gt_dmx_queue_write: [at, count, todo, n, nonblock, ret]
  unplayed   \* history: bytes put and not played

vars == <<write_pos, chip, writer, unplayed>>

Away == [at |-> "away", count |-> 0, todo |-> 0, n |-> 0, nonblock |-> FALSE,
         ret |-> 0]

EAGAIN == -1

Init ==
  /\ write_pos = 0 /\ chip = [read |-> 0, write |-> 0]
  /\ writer = Away
  /\ unplayed = 0

Minimum(a, b) == IF a < b THEN a ELSE b

(* The decoder.                                                             *)
Plays ==
  /\ chip.read # chip.write
  /\ chip' = [chip EXCEPT !.read = (@ + 1) % Size]
  /\ unplayed' = unplayed - 1
  /\ UNCHANGED <<write_pos, writer>>

(* avia_gt_dmx_queue_get_bytes_free                                         *)
bytes_free(pos) ==
  IF pos >= chip.read THEN (Size - pos) + chip.read - 1 ELSE (chip.read - pos) - 1

(* avia_gt_dmx_queue_data_put: up to the end, the rest from the start.      *)
data_put(pos, count) ==
  LET n == Minimum(count, bytes_free(pos))
      done == IF pos + n >= Size THEN Size - pos ELSE 0
  IN [n |-> n, pos |-> IF done > 0 THEN n - done ELSE pos + n]

-----------------------------------------------------------------------------
(* avia_gt_dmx_queue_write                                                  *)

Write(count, nonblock) ==
  /\ writer.at = "away"
  /\ writer' = [at |-> "loop", count |-> count, todo |-> count, n |-> 0,
                nonblock |-> nonblock, ret |-> 0]
  /\ UNCHANGED <<write_pos, chip, unplayed>>

Return(ret) == writer' = [Away EXCEPT !.ret = ret]

Piece ==
  /\ writer.at = "loop" /\ writer.todo > 0
  /\ writer' = [writer EXCEPT !.at = "wait", !.n = Minimum(writer.todo, Size - 1)]
  /\ UNCHANGED <<write_pos, chip, unplayed>>

(* No room: a timer of 10 ms, or what has been written.                     *)
GivesUp ==
  /\ writer.at = "wait" /\ bytes_free(write_pos) < writer.n /\ writer.nonblock
  /\ Return(IF writer.count > writer.todo THEN writer.count - writer.todo ELSE EAGAIN)
  /\ UNCHANGED <<write_pos, chip, unplayed>>

Put ==
  /\ writer.at = "wait" /\ bytes_free(write_pos) >= writer.n
  /\ LET r == data_put(write_pos, writer.n)
     IN /\ write_pos' = r.pos
        /\ chip' = [chip EXCEPT !.write = r.pos]
        /\ unplayed' = unplayed + r.n
  /\ writer' = [writer EXCEPT !.at = "loop", !.todo = @ - writer.n]

Finish ==
  /\ writer.at = "loop" /\ writer.todo = 0
  /\ Return(writer.count)
  /\ UNCHANGED <<write_pos, chip, unplayed>>

(* avia_gt_dmx_queue_reset: the decoder is started again, and nobody asks    *)
(* whether a program sleeps in a write.                                      *)
Reset ==
  /\ write_pos' = 0 /\ chip' = [read |-> 0, write |-> 0] /\ unplayed' = 0
  /\ UNCHANGED writer

Next ==
  \/ Plays
  \/ \E c \in Counts, nb \in BOOLEAN : Write(c, nb)
  \/ Piece \/ GivesUp \/ Put \/ Finish
  \/ Reset

(* The decoder plays; the timer of the loop expires.                        *)
Fairness == WF_vars(Plays) /\ WF_vars(Piece) /\ WF_vars(Put) /\ WF_vars(Finish)

Spec == Init /\ [][Next]_vars /\ Fairness

-----------------------------------------------------------------------------
TypeOK ==
  /\ write_pos \in Positions /\ chip \in [read : Positions, write : Positions]
  /\ writer.at \in {"away", "loop", "wait"} /\ writer.todo \in 0 .. writer.count
  /\ unplayed \in Int

(* What has not been played is never written over, also around the end of    *)
(* the ring and with resets between: the positions of chip and program tell  *)
(* just the bytes that were put and not played.                              *)
NothingOverwritten ==
  /\ chip.write = write_pos
  /\ unplayed = (chip.write - chip.read) % Size

(* A write that may block gets all of its data in as long as the decoder     *)
(* plays: no piece is larger than the free room of an empty queue.           *)
WriteEnds == writer.at # "away" ~> writer.at = "away"
=============================================================================
