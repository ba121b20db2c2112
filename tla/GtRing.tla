------------------------------- MODULE GtRing -------------------------------
(***************************************************************************)
(* One queue of the hardware demultiplexer as a ring (avia/avia_gt_dmx.c): *)
(* the chip writes packets behind its write pointer and raises an          *)
(* interrupt, the interrupt handler looks at the pointer and notices when  *)
(* the chip has overtaken the reader, the bottom half lets a callback read *)
(* what is there.  None of the three waits for another.  Under a high load *)
(* of interrupts the queue changes to "qim mode", with one interrupt for a *)
(* stretch of the ring instead of one for each packet.                     *)
(***************************************************************************)
EXTENDS Integers

CONSTANTS
  Size,     \* the bytes of the queue: a power of two
  Latency,  \* the most the chip writes before an interrupt it has raised is served
  Chunks    \* how much the chip writes, or a callback reads, at a time

RingAssumption ==
  /\ Size \in Nat /\ Size >= 8 /\ Size % 8 = 0
  /\ Latency \in 1 .. Size - 1 - Size \div 4
  /\ Chunks \subseteq 1 .. Latency

Positions == 0 .. Size - 1

VARIABLES
  chip,       \* [wp: its write position, irq: interrupt raised, next: the position that
              \*  raises the next interrupt in qim mode]
  hw,         \* q->hw_write_pos
  read_pos,   \* q->read_pos
  write_pos,  \* q->write_pos
  overflow,   \* q->overflow_count # 0
  qim,        \* q->qim_mode
  bh,         \* the bottom half: queued again?, and where it is
  unread,     \* history: bytes from what was read last to q->hw_write_pos
  fresh,      \* history: bytes from q->hw_write_pos to the write position of the chip
  late,       \* history: bytes written since the interrupt was raised
  resynced    \* history: the queue was restarted in qim mode

ghosts == <<late, resynced>>
vars == <<chip, hw, read_pos, write_pos, overflow, qim, bh, unread, fresh, late, resynced>>

(* The history is kept while there is something to compare it with. *)
tracked(n) == IF overflow' \/ resynced' THEN 0 ELSE n

ahead(from, to) == (to - from) % Size

Init ==
  /\ chip = [wp |-> 0, irq |-> FALSE, next |-> 0]
  /\ hw = 0 /\ read_pos = 0 /\ write_pos = 0
  /\ overflow = FALSE /\ qim = FALSE
  /\ bh = [queued |-> FALSE, at |-> "idle"]
  /\ unread = 0 /\ fresh = 0 /\ late = 0 /\ resynced = FALSE

-----------------------------------------------------------------------------
(* The chip.                                                                 *)

(* Outside qim mode every packet raises the interrupt; in qim mode passing   *)
(* the position that was set does.                                           *)
ChipWrites(n) ==
  /\ chip.irq => late + n <= Latency
  /\ fresh + n <= Size
  /\ chip' = [chip EXCEPT !.wp = (@ + n) % Size,
                          !.irq = @ \/ ~qim \/ ahead(chip.wp, chip.next) \in 1 .. n]
  /\ fresh' = fresh + n
  /\ late' = IF chip'.irq THEN late + n ELSE 0
  /\ UNCHANGED <<hw, read_pos, write_pos, overflow, qim, bh, unread, resynced>>

-----------------------------------------------------------------------------
(* avia_gt_dmx_queue_irq                                                     *)

rnd_div(a, b) == (a + b \div 2) \div b

(* avia_gt_dmx_queue_qim_mode_update: the next interrupt is due two          *)
(* sixteenths of the ring on; the register counts in parts of 1/32.          *)
qim_block(pos) == ((rnd_div(pos * 16, Size) + 2) % 16) * 2
qim_next(pos) == (qim_block(pos) * Size) \div 32

(* A mutant: the case that the chip stops just at the reader is left out. *)
overtaken_strict(old, new) ==
  \/ /\ read_pos < old
     /\ read_pos < new /\ new < old
  \/ /\ old < read_pos
     /\ read_pos < new \/ new < old
(* The six cases of the comment: where the new write position lies, as seen  *)
(* from the reader and the old one.                                          *)
overtaken(old, new) ==
  \/ /\ read_pos < old
     /\ read_pos <= new /\ new < old
  \/ /\ old < read_pos
     /\ read_pos <= new \/ new < old

(* busy: too many interrupts in the last second.                             *)
QueueIrq(busy) ==
  /\ chip.irq
  /\ hw' = chip.wp
  /\ qim' = (qim \/ busy)
  /\ chip' = [chip EXCEPT !.irq = FALSE, !.next = IF qim' THEN qim_next(chip.wp) ELSE @]
  /\ overflow' = (overflow \/ overtaken(hw, chip.wp))
  /\ bh' = [bh EXCEPT !.queued = TRUE]
  /\ UNCHANGED <<read_pos, write_pos, resynced>>
  /\ unread' = tracked(unread + fresh) /\ fresh' = 0 /\ late' = 0

-----------------------------------------------------------------------------
(* avia_gt_dmx_bh_task.  An interrupt may come between any two of its steps. *)

BhStart ==
  /\ bh.at = "idle" /\ bh.queued
  /\ bh' = [queued |-> FALSE, at |-> "check"]
  /\ write_pos' = hw
  /\ UNCHANGED <<chip, hw, read_pos, overflow, qim, unread, fresh, ghosts>>

BhOverflow ==
  /\ bh.at = "check" /\ overflow
  /\ overflow' = FALSE
  /\ bh' = [bh EXCEPT !.at = "skip"]
  /\ UNCHANGED <<chip, hw, read_pos, write_pos, qim, unread, fresh, ghosts>>

(* Everything the queue holds is dropped.                                    *)
BhSkip ==
  /\ bh.at = "skip"
  /\ read_pos' = hw /\ write_pos' = hw
  /\ bh' = [bh EXCEPT !.at = "idle"]
  /\ unread' = 0
  /\ UNCHANGED <<chip, hw, overflow, qim, fresh, ghosts>>

BhCallback ==
  /\ bh.at = "check" /\ ~overflow
  /\ bh' = [bh EXCEPT !.at = "read"]
  /\ UNCHANGED <<chip, hw, read_pos, write_pos, overflow, qim, unread, fresh, ghosts>>

bytes_avail == IF write_pos >= read_pos THEN write_pos - read_pos
               ELSE (Size - read_pos) + write_pos

(* avia_gt_dmx_queue_data_get, in one or two pieces; a count larger than     *)
(* what is there is cut down.                                                *)
after_get(count) ==
  LET n == IF count > bytes_avail THEN bytes_avail ELSE count
      wraps == read_pos > write_pos /\ n >= Size - read_pos
  IN [n |-> n, pos |-> IF wraps THEN n - (Size - read_pos) ELSE read_pos + n]

BhRead(count) ==
  /\ bh.at = "read" /\ bytes_avail > 0
  /\ UNCHANGED <<chip, hw, write_pos, overflow, qim, bh, fresh, ghosts>>
  /\ LET r == after_get(count)
     IN read_pos' = r.pos /\ unread' = tracked(unread - r.n)

(* avia_gt_dmx_queue_flush *)
BhFlush ==
  /\ bh.at = "read"
  /\ UNCHANGED <<chip, hw, write_pos, overflow, qim, bh, fresh, ghosts>>
  /\ read_pos' = write_pos
  /\ unread' = tracked(unread - bytes_avail)

(* The callback may leave what is not complete to the next bottom half.      *)
BhEnd ==
  /\ bh.at = "read"
  /\ bh' = [bh EXCEPT !.at = "idle"]
  /\ UNCHANGED <<chip, hw, read_pos, write_pos, overflow, qim, unread, fresh, ghosts>>

-----------------------------------------------------------------------------
(* avia_gt_dmx_queue_reset                                                   *)
reset_positions ==
  /\ hw' = 0 /\ read_pos' = 0 /\ write_pos' = 0
  /\ unread' = 0 /\ fresh' = 0

(* avia_gt_dmx_alloc_queue: an interrupt or a bottom half of the last owner  *)
(* may still be on its way, and an overflow of his is not forgotten.         *)
Alloc ==
  /\ bh.at = "idle"
  /\ reset_positions
  /\ chip' = [chip EXCEPT !.wp = 0]
  /\ qim' = FALSE
  /\ UNCHANGED <<overflow, bh, ghosts>>

(* A section callback that is out of sync restarts the queue; in qim mode    *)
(* the place of the next interrupt stays where it was.                       *)
Resync ==
  /\ bh.at = "read"
  /\ reset_positions
  /\ chip' = [chip EXCEPT !.wp = 0]
  /\ bh' = [bh EXCEPT !.at = "idle"]
  /\ resynced' = (resynced \/ qim)
  /\ UNCHANGED <<overflow, qim, late>>

BottomHalf ==
  \/ BhStart \/ BhOverflow \/ BhSkip \/ BhCallback
  \/ \E n \in Chunks : BhRead(n)
  \/ BhFlush \/ BhEnd

Next ==
  \/ \E n \in Chunks : ChipWrites(n)
  \/ \E busy \in BOOLEAN : QueueIrq(busy)
  \/ BottomHalf \/ Alloc \/ Resync

(* Interrupts are served, and so is what is queued on tq_immediate.          *)
Fairness ==
  /\ WF_vars(\E busy \in BOOLEAN : QueueIrq(busy))
  /\ WF_vars(BhStart) /\ WF_vars(BhOverflow) /\ WF_vars(BhSkip)
  /\ WF_vars(BhCallback) /\ WF_vars(BhEnd)

Spec == Init /\ [][Next]_vars /\ Fairness

-----------------------------------------------------------------------------
TypeOK ==
  /\ chip \in [wp : Positions, irq : BOOLEAN, next : Positions]
  /\ hw \in Positions /\ read_pos \in Positions /\ write_pos \in Positions
  /\ overflow \in BOOLEAN /\ qim \in BOOLEAN
  /\ bh \in [queued : BOOLEAN, at : {"idle", "check", "skip", "read"}]
  /\ unread \in Nat /\ fresh \in 0 .. Size /\ late \in 0 .. Latency /\ resynced \in BOOLEAN

(* Two positions can't tell a full ring from an empty one, nor one lap from  *)
(* the next.  Still, as long as the chip does not write a whole lap before   *)
(* an interrupt is served, the driver is never wrong about what is unread    *)
(* unless it has noticed an overflow: what it takes for unread are just the  *)
(* bytes that came since the last read, in all interleavings of chip,        *)
(* interrupt and bottom half.                                                *)
OverflowNoticed ==
  ~overflow /\ bh.at # "skip" /\ ~resynced => unread = ahead(read_pos, hw)

(* A noticed overflow is dealt with: a bottom half that will drop what the   *)
(* queue holds is on its way.                                                *)
OverflowDropped == overflow ~> ~overflow

(* In qim mode the place of the next interrupt lies ahead of the chip, and   *)
(* not a lap: the chip always raises it before it can overtake the place it  *)
(* was at.                                                                   *)
NextIrqAhead ==
  qim /\ ~chip.irq /\ ~resynced => ahead(chip.wp, chip.next) \in 1 .. Size \div 4
=============================================================================
