---------------------------- MODULE Avia_proofs -----------------------------
(***************************************************************************)
(* Proofs about the drivers of the Avia chips that MCAvia puts together,   *)
(* for every value of their constants.                                     *)
(***************************************************************************)
EXTENDS MCAvia, TLAPS

-----------------------------------------------------------------------------
(* Arithmetic on a ring of S positions.                                      *)

LEMMA Modulo ==
  ASSUME NEW S \in Nat \ {0}, NEW x \in -S .. 2 * S - 1
  PROVE  /\ x % S = IF x < 0 THEN x + S ELSE IF x < S THEN x ELSE x - S
         /\ x % S \in 0 .. S - 1
<1>1. ASSUME NEW a \in 0 .. S - 1
      PROVE  a % S = a /\ (a - S) % S = a /\ (a + S) % S = a
  OBVIOUS
<1>2. CASE x < 0
  <2>1. x + S \in 0 .. S - 1 /\ (x + S) - S = x BY <1>2
  <2> QED BY <1>1, <1>2, <2>1
<1>3. CASE x \in 0 .. S - 1 BY <1>1, <1>3
<1>4. CASE x >= S
  <2>1. x - S \in 0 .. S - 1 /\ (x - S) + S = x BY <1>4
  <2> QED BY <1>1, <1>4, <2>1
<1> QED BY <1>2, <1>3, <1>4

-----------------------------------------------------------------------------
(* GtInterrupts, for any queues in any halves.  An interrupt that is being  *)
(* looked at is one of a queue, and packets are waited for only where a      *)
(* handler is.                                                               *)

InterruptsInv == TypeOK /\ OpenMeansHandled

LEMMA SeenIsQueue == \A q : seen_through(q) \in DmxQueues \cup {None}
BY DEF seen_through

LEMMA InterruptsInvInit == Init => InterruptsInv
<1> SUFFICES ASSUME Init PROVE InterruptsInv
  OBVIOUS
<1>1. upq \in BOOLEAN BY DEF Init
<1> QED BY <1>1 DEF Init, InterruptsInv, TypeOK, OpenMeansHandled, Idle, Away

(* avia_gt_irq goes through what was raised, and a handler sees its packets. *)
LEMMA IrqKeepsInv == ASSUME InterruptsInv, Irq PROVE InterruptsInv'
<1> USE DEF InterruptsInv, TypeOK, OpenMeansHandled
<1>1. CASE IrqEnter BY <1>1 DEF IrqEnter
<1>2. ASSUME NEW q \in DmxQueues, IrqHandle(q) PROVE InterruptsInv'
  <2>1. irq' \in [left : SUBSET DmxQueues, at : {"idle", "loop", "clear"}, q : DmxQueues \cup {None}]
    BY <1>2 DEF IrqHandle
  <2>2. CASE q \in handler
    <3>1. upq' \in BOOLEAN BY <1>2, <2>2 DEF IrqHandle
    <3> QED BY <1>2, <2>1, <2>2, <3>1 DEF IrqHandle
  <2>3. CASE q \notin handler BY <1>2, <2>1, <2>3 DEF IrqHandle
  <2> QED BY <2>2, <2>3
<1>3. CASE IrqClear BY <1>3 DEF IrqClear
<1>4. CASE IrqLeave BY <1>4 DEF IrqLeave, Idle
<1> QED BY <1>1, <1>2, <1>3, <1>4 DEF Irq

LEMMA ProcessKeepsInv == ASSUME InterruptsInv, Process PROVE InterruptsInv'
<1> USE DEF InterruptsInv, TypeOK, OpenMeansHandled
<1>1. CASE ReadOnce BY <1>1, SeenIsQueue DEF ReadOnce
<1>2. CASE ReadAgain
  <2>1. proc' \in [at : {"away", "read", "again", "check"}, q : DmxQueues \cup {None},
                   got : DmxQueues \cup {None}]
    <3> DEFINE now == seen_through(proc.q)
    <3>1. now \in DmxQueues \cup {None} BY SeenIsQueue
    <3>2. PICK same \in BOOLEAN :
            proc' = [proc EXCEPT !.got = now,
                       !.at = IF same /\ now = proc.got THEN "check" ELSE "again"]
      BY <1>2 DEF ReadAgain
    <3> HIDE DEF now
    <3> QED BY <3>1, <3>2
  <2> QED BY <1>2, <2>1 DEF ReadAgain
<1>3. CASE Check
  <2>1. CASE proc.got = proc.q BY <1>3, <2>1 DEF Check, Away
  <2>2. CASE proc.got # proc.q
    <3>1. upq' \in BOOLEAN BY <1>3, <2>2 DEF Check
    <3> QED BY <1>3, <3>1 DEF Check, Away
  <2> QED BY <2>1, <2>2
<1> QED BY <1>1, <1>2, <1>3 DEF Process

LEMMA InterruptsInvStep == InterruptsInv /\ [Next]_vars => InterruptsInv'
<1> SUFFICES ASSUME InterruptsInv, [Next]_vars PROVE InterruptsInv'
  OBVIOUS
<1>1. CASE Irq BY <1>1, IrqKeepsInv
<1>2. CASE Process BY <1>2, ProcessKeepsInv
<1> USE DEF InterruptsInv, TypeOK, OpenMeansHandled
<1>3. ASSUME NEW q \in DmxQueues, ChipWrites(q) PROVE InterruptsInv' BY <1>3 DEF ChipWrites
<1>4. ASSUME NEW q \in DmxQueues, avia_gt_alloc_irq(q) PROVE InterruptsInv'
  BY <1>4 DEF avia_gt_alloc_irq
<1>5. ASSUME NEW q \in DmxQueues, avia_gt_free_irq(q) PROVE InterruptsInv'
  BY <1>5 DEF avia_gt_free_irq
<1>6. ASSUME NEW q \in DmxQueues, avia_gt_dmx_map_queue(q) PROVE InterruptsInv'
  <2>1. upq' \in BOOLEAN BY <1>6 DEF avia_gt_dmx_map_queue
  <2> QED BY <1>6, <2>1 DEF avia_gt_dmx_map_queue
<1>7. CASE UNCHANGED vars BY <1>7 DEF vars
<1> QED BY <1>1, <1>2, <1>3, <1>4, <1>5, <1>6, <1>7 DEF Next

LEMMA InterruptsInvHolds == Spec => []InterruptsInv
BY InterruptsInvInit, InterruptsInvStep, PTL DEF Spec

(* What is raised, open or being looked at are interrupts of queues, and     *)
(* only those that have a handler are waited for.                            *)
THEOREM InterruptsTypeCorrect == Spec => []TypeOK
<1>1. InterruptsInv => TypeOK BY DEF InterruptsInv
<1> QED BY <1>1, InterruptsInvHolds, PTL

(* However allocations, releases and avia_gt_irq come between each other, an *)
(* interrupt without a handler is masked.                                    *)
THEOREM OpenIsAlwaysHandled == Spec => []OpenMeansHandled
<1>1. InterruptsInv => OpenMeansHandled BY DEF InterruptsInv
<1> QED BY <1>1, InterruptsInvHolds, PTL

-----------------------------------------------------------------------------
(* GtRing.                                                                   *)

(* What lies between two positions, without the remainder.                   *)
LEMMA Ahead ==
  ASSUME Ring!RingAssumption, NEW from \in Ring!Positions, NEW to \in Ring!Positions
  PROVE  /\ Ring!ahead(from, to) = IF from <= to THEN to - from ELSE to - from + RingSize
         /\ Ring!ahead(from, to) \in 0 .. RingSize - 1
<1> DEFINE x == to - from
<1>1. RingSize \in Nat \ {0} /\ x \in -RingSize .. 2 * RingSize - 1
  BY DEF Ring!RingAssumption, Ring!Positions
<1>2. x < RingSize BY DEF Ring!RingAssumption, Ring!Positions
<1>3. from <= to <=> ~(x < 0) BY DEF Ring!RingAssumption, Ring!Positions
<1>4. Ring!ahead(from, to) = x % RingSize BY DEF Ring!ahead
<1> HIDE DEF x
<1>5. x % RingSize = (IF x < 0 THEN x + RingSize ELSE x) /\ x % RingSize \in 0 .. RingSize - 1
  BY <1>1, <1>2, Modulo
<1> QED BY <1>1, <1>3, <1>4, <1>5 DEF x

(* A position that goes on by up to a whole ring.                            *)
LEMMA GoOn ==
  ASSUME Ring!RingAssumption, NEW pos \in Ring!Positions, NEW n \in 0 .. RingSize
  PROVE  /\ (pos + n) % RingSize = IF pos + n < RingSize THEN pos + n ELSE pos + n - RingSize
         /\ (pos + n) % RingSize \in Ring!Positions
<1> DEFINE x == pos + n
<1>1. RingSize \in Nat \ {0} /\ x \in -RingSize .. 2 * RingSize - 1 /\ ~(x < 0)
  BY DEF Ring!RingAssumption, Ring!Positions
<1> HIDE DEF x
<1>2. x % RingSize = (IF x < RingSize THEN x ELSE x - RingSize) /\ x % RingSize \in 0 .. RingSize - 1
  BY <1>1, Modulo
<1>3. RingSize \in Nat BY <1>1
<1> QED BY <1>2, <1>3 DEF x, Ring!Positions

(* The place of the next interrupt in qim mode is a position, and lies ahead *)
(* by no more than a quarter of the ring.                                    *)
LEMMA NextPlaceAhead ==
  ASSUME Ring!RingAssumption, NEW pos \in Ring!Positions
  PROVE  /\ Ring!qim_next(pos) \in Ring!Positions
         /\ Ring!ahead(pos, Ring!qim_next(pos)) \in 1 .. RingSize \div 4
<1> DEFINE r == Ring!rnd_div(pos * 16, RingSize)
           a == pos * 16 + RingSize \div 2
           whole == RingSize * r
           next == Ring!qim_next(pos)
<1>1. RingSize \in Nat /\ RingSize >= 8 /\ pos \in 0 .. RingSize - 1
  BY DEF Ring!RingAssumption, Ring!Positions
<1>2. PICK k \in Nat : RingSize = 8 * k /\ k > 0
  BY DEF Ring!RingAssumption
<1>3. a \in Nat /\ r = a \div RingSize /\ a = pos * 16 + 4 * k
  BY <1>1, <1>2 DEF Ring!rnd_div
<1>4. next = ((((r + 2) % 16) * 2) * RingSize) \div 32
  BY DEF Ring!qim_next, Ring!qim_block
<1> HIDE DEF a, r, next
<1>5. r \in Nat /\ whole \in Nat /\ whole <= a /\ a < whole + RingSize
  BY <1>1, <1>3
<1>6. r \in 0 .. 16
  <2>1. ASSUME r >= 17 PROVE whole >= 17 * RingSize
    BY <2>1, <1>1, <1>5
  <2> HIDE DEF whole
  <2> QED BY <1>1, <1>2, <1>3, <1>5, <2>1
<1>7. ASSUME r < 14
      PROVE  next = (2 * whole + 4 * RingSize) \div 32
  <2>1. (r + 2) % 16 = r + 2 BY <1>7, <1>5
  <2>2. ((r + 2) * 2) * RingSize = 2 * whole + 4 * RingSize BY <1>1, <1>5
  <2> QED BY <1>4, <2>1, <2>2
<1>8. ASSUME r >= 14
      PROVE  next = (2 * whole + 4 * RingSize - 32 * RingSize) \div 32
  <2>1. (r + 2) % 16 = r + 2 - 16 BY <1>6, <1>8
  <2>2. ((r + 2 - 16) * 2) * RingSize = 2 * whole + 4 * RingSize - 32 * RingSize BY <1>1, <1>5
  <2> QED BY <1>4, <2>1, <2>2
<1>9. /\ r < 14 => whole <= 13 * RingSize
      /\ r >= 14 => whole >= 14 * RingSize /\ whole <= 16 * RingSize
      /\ k = 1 => whole = 8 * r
  BY <1>1, <1>2, <1>5, <1>6
<1> HIDE DEF whole
<1>10. ASSUME r < 14 PROVE next \in 0 .. 8 * k - 1 /\ next > pos /\ next - pos <= 2 * k
  <2>1. next \in Int /\ 32 * next <= 2 * whole + 32 * k /\ 2 * whole + 32 * k < 32 * next + 32
    BY <1>1, <1>2, <1>5, <1>7, <1>10
  <2>2. whole <= 16 * pos + 4 * k /\ 16 * pos + 4 * k < whole + 8 * k
    BY <1>1, <1>2, <1>3, <1>5
  <2>3. next > pos
    <3>1. CASE k = 1
      <4>1. 2 * whole + 32 >= 32 * pos + 32
        BY <1>1, <1>5, <1>9, <2>2, <3>1
      <4> QED BY <1>1, <1>5, <2>1, <3>1, <4>1
    <3>2. CASE k > 1 BY <1>1, <1>2, <1>5, <2>1, <2>2, <3>2
    <3> QED BY <1>2, <3>1, <3>2
  <2>4. next - pos <= 2 * k BY <1>1, <1>2, <1>5, <2>1, <2>2
  <2>5. next <= 8 * k - 1 BY <1>1, <1>2, <1>5, <1>9, <1>10, <2>1
  <2> QED BY <1>1, <2>1, <2>3, <2>4, <2>5
<1>11. ASSUME r >= 14 PROVE next \in 0 .. 8 * k - 1 /\ next <= pos /\ next - pos + 8 * k \in 1 .. 2 * k
  <2> DEFINE n == 2 * whole + 32 * k - 256 * k
  <2>1. next = n \div 32 /\ n \in Nat
    BY <1>1, <1>2, <1>5, <1>8, <1>9, <1>11
  <2> HIDE DEF n
  <2>2. next \in Nat /\ 32 * next <= n /\ n < 32 * next + 32
    BY <2>1
  <2>3. whole <= 16 * pos + 4 * k /\ 16 * pos + 4 * k < whole + 8 * k
    BY <1>1, <1>2, <1>3, <1>5
  <2>4. n = 2 * whole + 32 * k - 256 * k BY DEF n
  <2>5. whole >= 112 * k /\ whole <= 128 * k BY <1>1, <1>2, <1>5, <1>9, <1>11
  <2>6. next <= k BY <1>2, <1>5, <2>2, <2>4, <2>5
  <2>7. next <= pos BY <1>1, <1>2, <1>5, <2>2, <2>3, <2>4, <2>5, <2>6
  <2>8. next - pos + 8 * k <= 2 * k BY <1>1, <1>2, <1>5, <2>2, <2>3, <2>4, <2>5
  <2>9. next - pos + 8 * k >= 1 BY <1>1, <1>2, <2>2
  <2> QED BY <1>1, <1>2, <2>2, <2>6, <2>7, <2>8, <2>9
<1>12. RingSize \div 4 = 2 * k BY <1>2
<1>13. next \in Ring!Positions
  BY <1>2, <1>5, <1>10, <1>11 DEF Ring!Positions
<1>14. Ring!ahead(pos, next) = IF pos <= next THEN next - pos ELSE next - pos + RingSize
  BY <1>13, Ahead
<1>15. CASE r < 14 BY <1>1, <1>2, <1>10, <1>12, <1>13, <1>14, <1>15 DEF next
<1>16. CASE r >= 14
  <2>1. next < pos BY <1>1, <1>2, <1>11, <1>16
  <2> QED BY <1>1, <1>2, <1>11, <1>12, <1>13, <1>14, <1>16, <2>1 DEF next
<1> QED BY <1>5, <1>15, <1>16

(* What lies between two positions, and what RingInv says: the chip is ahead *)
(* of the interrupt handler by what is fresh, which is less than a lap; the  *)
(* handler is ahead of the reader by what is unread, and the bottom half     *)
(* sees no more than that.                                                   *)
dist(from, to) == IF from <= to THEN to - from ELSE to - from + RingSize
Quarter == RingSize \div 4

RingKnown ==
  /\ fresh = dist(hw, chip.wp)
  /\ ~chip.irq /\ ~qim => fresh = 0
  /\ ~chip.irq /\ qim => dist(chip.wp, chip.next) >= 1 /\ fresh + dist(chip.wp, chip.next) <= Quarter
  /\ chip.irq => fresh < late + Quarter
  /\ ~overflow /\ bh.at # "skip" => unread = dist(read_pos, hw)
  /\ ~overflow /\ bh.at \in {"check", "read"} => dist(read_pos, write_pos) <= unread

RingInv ==
  /\ Ring!TypeOK
  /\ ~chip.irq => late = 0
  /\ ~resynced => RingKnown

LEMMA RingInvInit == ASSUME Ring!RingAssumption, Ring!Init PROVE RingInv
<1>1. RingSize \in Nat /\ RingSize >= 8 /\ Latency \in Nat
  BY DEF Ring!RingAssumption
<1>2. overflow \in BOOLEAN /\ qim \in BOOLEAN /\ resynced \in BOOLEAN BY DEF Ring!Init
<1>3. Ring!TypeOK
  BY <1>1, <1>2 DEF Ring!Init, Ring!TypeOK, Ring!Positions
<1> QED BY <1>1, <1>3 DEF Ring!Init, RingInv, RingKnown, dist

LEMMA RingChip ==
  ASSUME Ring!RingAssumption, RingInv, NEW n \in Chunks, Ring!ChipWrites(n)
  PROVE  RingInv'
<1>1. /\ RingSize \in Nat /\ RingSize >= 8 /\ Latency \in Nat /\ Quarter \in Nat
      /\ Latency + Quarter <= RingSize - 1 /\ n \in 1 .. Latency
  BY DEF Ring!RingAssumption, Quarter
<1> DEFINE wp == (chip.wp + n) % RingSize
           passes == Ring!ahead(chip.wp, chip.next) \in 1 .. n
<1>2. /\ chip.wp \in 0 .. RingSize - 1 /\ chip.next \in 0 .. RingSize - 1
      /\ hw \in 0 .. RingSize - 1 /\ fresh \in 0 .. RingSize /\ late \in 0 .. Latency
  BY DEF RingInv, Ring!TypeOK, Ring!Positions
<1>3. wp = (IF chip.wp + n < RingSize THEN chip.wp + n ELSE chip.wp + n - RingSize)
      /\ wp \in 0 .. RingSize - 1
  <2>1. chip.wp \in Ring!Positions /\ n \in 0 .. RingSize
    BY <1>1, <1>2 DEF Ring!Positions
  <2>2. wp \in Ring!Positions BY <2>1, GoOn
  <2>3. wp = IF chip.wp + n < RingSize THEN chip.wp + n ELSE chip.wp + n - RingSize BY <2>1, GoOn
  <2> QED BY <2>2, <2>3 DEF Ring!Positions
<1>4. passes <=> dist(chip.wp, chip.next) \in 1 .. n
  BY <1>2, Ahead DEF dist, Ring!Positions
<1> HIDE DEF wp, passes
<1>5. chip' = [wp |-> wp, irq |-> chip.irq \/ ~qim \/ passes, next |-> chip.next]
  BY DEF Ring!ChipWrites, wp, passes, RingInv, Ring!TypeOK
<1>51. chip'.irq <=> (chip.irq \/ ~qim \/ passes)
  <2>1. chip.irq \in BOOLEAN /\ qim \in BOOLEAN BY DEF RingInv, Ring!TypeOK
  <2>2. chip'.irq = (chip.irq \/ ~qim \/ passes) BY <1>5
  <2> QED BY <2>1, <2>2
<1>6. /\ fresh' = fresh + n /\ fresh' \in 0 .. RingSize
      /\ late' = (IF chip'.irq THEN late + n ELSE 0) /\ late' \in 0 .. Latency
  <2>1. fresh' = fresh + n /\ fresh' \in 0 .. RingSize /\ late' = (IF chip'.irq THEN late + n ELSE 0)
    BY <1>1, <1>2 DEF Ring!ChipWrites
  <2>2. chip.irq => late + n <= Latency BY DEF Ring!ChipWrites
  <2>3. ~chip.irq => late = 0 BY DEF RingInv
  <2> QED BY <1>1, <1>2, <2>1, <2>2, <2>3
<1>7. UNCHANGED <<hw, read_pos, write_pos, overflow, qim, bh, unread, resynced>>
  BY DEF Ring!ChipWrites
<1>8. Ring!TypeOK'
  <2>1. chip' \in [wp : Ring!Positions, irq : BOOLEAN, next : Ring!Positions]
    BY <1>2, <1>3, <1>5 DEF Ring!Positions
  <2> QED BY <1>6, <1>7, <2>1 DEF RingInv, Ring!TypeOK
<1>9. ASSUME RingKnown PROVE RingKnown'
  <2>1. /\ fresh = dist(hw, chip.wp)
        /\ ~chip.irq /\ ~qim => fresh = 0
        /\ ~chip.irq /\ qim => dist(chip.wp, chip.next) >= 1 /\ fresh + dist(chip.wp, chip.next) <= Quarter
        /\ chip.irq => fresh < late + Quarter
        /\ ~chip.irq => late = 0
    BY <1>9 DEF RingKnown, RingInv
  <2>2. Quarter \in Nat /\ Quarter >= 1 BY <1>1 DEF Quarter
  <2>3. chip'.irq => fresh' < late' + Quarter
    BY <1>1, <1>2, <1>4, <1>51, <1>6, <2>1, <2>2 DEF dist
  <2>4. fresh' < RingSize
    BY <1>1, <1>2, <1>4, <1>51, <1>6, <2>1, <2>2, <2>3 DEF dist
  <2>5. fresh' = dist(hw, wp)
    BY <1>1, <1>2, <1>3, <1>6, <2>1, <2>4 DEF dist
  <2>6. ASSUME ~chip'.irq
        PROVE  qim /\ dist(wp, chip.next) >= 1 /\ fresh' + dist(wp, chip.next) <= Quarter
    BY <1>1, <1>2, <1>3, <1>4, <1>51, <1>6, <2>1, <2>2, <2>6 DEF dist
  <2>7. /\ ~overflow' /\ bh'.at # "skip" => unread' = dist(read_pos', hw')
        /\ ~overflow' /\ bh'.at \in {"check", "read"} => dist(read_pos', write_pos') <= unread'
    BY <1>7, <1>9 DEF RingKnown, dist
  <2>8. chip'.wp = wp /\ chip'.next = chip.next BY <1>5
  <2> QED BY <1>7, <2>3, <2>5, <2>6, <2>7, <2>8 DEF RingKnown, dist, Quarter
<1>10. ~chip'.irq => late' = 0 BY <1>6
<1> QED BY <1>7, <1>8, <1>9, <1>10 DEF RingInv

LEMMA RingIrq ==
  ASSUME Ring!RingAssumption, RingInv, NEW often \in BOOLEAN, Ring!QueueIrq(often)
  PROVE  RingInv'
<1>1. /\ RingSize \in Nat /\ RingSize >= 8 /\ Latency \in Nat /\ Quarter \in Nat
      /\ Latency + Quarter <= RingSize - 1
  BY DEF Ring!RingAssumption, Quarter
<1>2. /\ chip.wp \in 0 .. RingSize - 1 /\ hw \in 0 .. RingSize - 1 /\ read_pos \in 0 .. RingSize - 1
      /\ write_pos \in 0 .. RingSize - 1 /\ fresh \in 0 .. RingSize /\ late \in 0 .. Latency
      /\ qim \in BOOLEAN /\ overflow \in BOOLEAN /\ resynced \in BOOLEAN /\ unread \in Nat
  BY DEF RingInv, Ring!TypeOK, Ring!Positions
<1> DEFINE nextPlace == Ring!qim_next(chip.wp)
<1>3. nextPlace \in Ring!Positions /\ Ring!ahead(chip.wp, nextPlace) \in 1 .. Quarter
  BY <1>2, NextPlaceAhead DEF Ring!Positions, Quarter
<1>4. dist(chip.wp, nextPlace) \in 1 .. Quarter
  BY <1>2, <1>3, Ahead DEF dist, Ring!Positions
<1> HIDE DEF nextPlace
<1>5. /\ hw' = chip.wp /\ fresh' = 0 /\ late' = 0 /\ qim' = (qim \/ often)
      /\ overflow' = (overflow \/ Ring!overtaken(hw, chip.wp))
      /\ unread' = (IF overflow' \/ resynced' THEN 0 ELSE unread + fresh)
      /\ UNCHANGED <<read_pos, write_pos, resynced>>
      /\ bh' = [bh EXCEPT !.queued = TRUE]
      /\ chip' = [wp |-> chip.wp, irq |-> FALSE, next |-> IF qim' THEN nextPlace ELSE chip.next]
  BY DEF Ring!QueueIrq, Ring!tracked, RingInv, Ring!TypeOK, nextPlace
<1>6. Ring!TypeOK'
  <2>1. overflow' \in BOOLEAN /\ qim' \in BOOLEAN
    BY <1>2, <1>5
  <2>2. chip' \in [wp : Ring!Positions, irq : BOOLEAN, next : Ring!Positions]
    BY <1>3, <1>5 DEF RingInv, Ring!TypeOK
  <2>3. bh' \in [queued : BOOLEAN, at : {"idle", "check", "skip", "read"}]
    BY <1>5 DEF RingInv, Ring!TypeOK
  <2>4. unread' \in Nat BY <1>2, <1>5
  <2>5. hw' \in Ring!Positions BY <1>2, <1>5 DEF Ring!Positions
  <2> QED BY <1>1, <1>5, <2>1, <2>2, <2>3, <2>4, <2>5 DEF RingInv, Ring!TypeOK
<1>7. ASSUME RingKnown, ~resynced PROVE RingKnown'
  <2>1. /\ fresh = dist(hw, chip.wp)
        /\ ~overflow /\ bh.at # "skip" => unread = dist(read_pos, hw)
        /\ ~overflow /\ bh.at \in {"check", "read"} => dist(read_pos, write_pos) <= unread
    BY <1>7 DEF RingKnown
  <2>2. fresh' = dist(hw', chip'.wp) BY <1>2, <1>5 DEF dist
  <2>3. ~chip'.irq /\ qim' => dist(chip'.wp, chip'.next) >= 1 /\ fresh' + dist(chip'.wp, chip'.next) <= Quarter
    BY <1>1, <1>2, <1>4, <1>5 DEF dist
  <2>4. ~chip'.irq BY <1>5
  <2>5. ASSUME ~overflow', bh'.at # "skip" PROVE unread' = dist(read_pos', hw')
    <3>1. ~overflow /\ ~Ring!overtaken(hw, chip.wp) /\ bh.at # "skip"
      BY <1>5, <2>5 DEF RingInv, Ring!TypeOK
    <3>2. unread' = unread + fresh BY <1>5, <1>7, <2>5
    <3> QED BY <1>1, <1>2, <1>5, <2>1, <3>1, <3>2 DEF dist, Ring!overtaken
  <2>6. ASSUME ~overflow', bh'.at \in {"check", "read"} PROVE dist(read_pos', write_pos') <= unread'
    <3>1. ~overflow /\ bh.at \in {"check", "read"}
      BY <1>5, <2>6 DEF RingInv, Ring!TypeOK
    <3>2. unread' = unread + fresh BY <1>5, <1>7, <2>6
    <3> QED BY <1>1, <1>2, <1>5, <2>1, <3>1, <3>2 DEF dist
  <2> QED BY <1>5, <2>2, <2>3, <2>4, <2>5, <2>6 DEF RingKnown, Quarter
<1> QED BY <1>5, <1>6, <1>7 DEF RingInv

LEMMA RingBottomHalf ==
  ASSUME Ring!RingAssumption, RingInv, Ring!BottomHalf
  PROVE  RingInv'
<1>1. RingSize \in Nat /\ RingSize >= 8
  BY DEF Ring!RingAssumption
<1>2. /\ hw \in 0 .. RingSize - 1 /\ read_pos \in 0 .. RingSize - 1
      /\ write_pos \in 0 .. RingSize - 1 /\ unread \in Nat
      /\ bh \in [queued : BOOLEAN, at : {"idle", "check", "skip", "read"}]
      /\ overflow \in BOOLEAN /\ resynced \in BOOLEAN
  BY DEF RingInv, Ring!TypeOK, Ring!Positions
<1> USE DEF RingInv, Ring!TypeOK, Ring!Positions, Ring!ghosts
<1>3. CASE Ring!BhStart
  <2>1. RingKnown /\ ~resynced => RingKnown'
    BY <1>1, <1>2, <1>3 DEF Ring!BhStart, RingKnown, dist, Quarter
  <2> QED BY <1>3, <2>1 DEF Ring!BhStart
<1>4. CASE Ring!BhOverflow
  <2>1. RingKnown /\ ~resynced => RingKnown'
    BY <1>1, <1>2, <1>4 DEF Ring!BhOverflow, RingKnown, dist, Quarter
  <2> QED BY <1>4, <2>1 DEF Ring!BhOverflow
<1>5. CASE Ring!BhSkip
  <2>1. RingKnown /\ ~resynced => RingKnown'
    BY <1>1, <1>2, <1>5 DEF Ring!BhSkip, RingKnown, dist, Quarter
  <2> QED BY <1>5, <2>1 DEF Ring!BhSkip
<1>6. CASE Ring!BhCallback
  <2>1. RingKnown /\ ~resynced => RingKnown'
    BY <1>1, <1>2, <1>6 DEF Ring!BhCallback, RingKnown, dist, Quarter
  <2> QED BY <1>6, <2>1 DEF Ring!BhCallback
<1>7. ASSUME NEW n \in Chunks, Ring!BhRead(n) PROVE RingInv'
  <2> DEFINE r == Ring!after_get(n)
  <2>1. n \in Nat /\ n >= 1 BY <1>7 DEF Ring!RingAssumption
  <2>2. Ring!bytes_avail = dist(read_pos, write_pos)
    BY <1>1, <1>2 DEF dist, Ring!bytes_avail
  <2>3. r.n \in Nat /\ r.n <= dist(read_pos, write_pos) /\ r.pos \in 0 .. RingSize - 1
        /\ r.pos = (IF read_pos + r.n < RingSize THEN read_pos + r.n ELSE read_pos + r.n - RingSize)
    BY <1>1, <1>2, <2>1, <2>2 DEF dist, Ring!after_get
  <2> HIDE DEF r
  <2>4. read_pos' = r.pos /\ unread' = (IF overflow' \/ resynced' THEN 0 ELSE unread - r.n)
        /\ bh.at = "read" /\ UNCHANGED <<chip, hw, write_pos, overflow, qim, bh, fresh, late, resynced>>
    BY <1>7 DEF Ring!BhRead, Ring!tracked, r
  <2>5. ASSUME RingKnown, ~overflow
        PROVE  unread = dist(read_pos, hw) /\ dist(read_pos, write_pos) <= unread
    BY <2>4, <2>5 DEF RingKnown
  <2>6. unread' \in Nat BY <1>1, <1>2, <2>3, <2>4, <2>5 DEF dist
  <2>7. ASSUME RingKnown, ~resynced, ~overflow
        PROVE  unread' = dist(read_pos', hw) /\ dist(read_pos', write_pos) <= unread'
    BY <1>1, <1>2, <2>3, <2>4, <2>5, <2>7 DEF dist
  <2>8. RingKnown /\ ~resynced => RingKnown'
    BY <2>4, <2>7 DEF RingKnown, dist, Quarter
  <2> QED BY <2>3, <2>4, <2>6, <2>8
<1>8. CASE Ring!BhFlush
  <2>1. Ring!bytes_avail = dist(read_pos, write_pos)
    BY <1>1, <1>2 DEF dist, Ring!bytes_avail
  <2>2. read_pos' = write_pos /\ unread' = (IF overflow' \/ resynced' THEN 0 ELSE unread - dist(read_pos, write_pos))
        /\ bh.at = "read" /\ UNCHANGED <<chip, hw, write_pos, overflow, qim, bh, fresh, late, resynced>>
    BY <1>8, <2>1 DEF Ring!BhFlush, Ring!tracked
  <2>3. ASSUME RingKnown, ~overflow
        PROVE  unread = dist(read_pos, hw) /\ dist(read_pos, write_pos) <= unread
    BY <2>2, <2>3 DEF RingKnown
  <2>4. unread' \in Nat BY <1>1, <1>2, <2>2, <2>3 DEF dist
  <2>5. ASSUME RingKnown, ~resynced, ~overflow
        PROVE  unread' = dist(read_pos', hw) /\ dist(read_pos', write_pos) <= unread'
    BY <1>1, <1>2, <2>2, <2>3, <2>5 DEF dist
  <2>6. RingKnown /\ ~resynced => RingKnown'
    BY <2>2, <2>5 DEF RingKnown, dist, Quarter
  <2> QED BY <2>2, <2>4, <2>6
<1>9. CASE Ring!BhEnd
  <2>1. RingKnown /\ ~resynced => RingKnown'
    BY <1>1, <1>2, <1>9 DEF Ring!BhEnd, RingKnown, dist, Quarter
  <2> QED BY <1>9, <2>1 DEF Ring!BhEnd
<1> QED BY <1>3, <1>4, <1>5, <1>6, <1>7, <1>8, <1>9 DEF Ring!BottomHalf

LEMMA RingStep ==
  ASSUME Ring!RingAssumption, RingInv, [Ring!Next]_ringVars
  PROVE  RingInv'
<1>1. RingSize \in Nat /\ RingSize >= 8
  BY DEF Ring!RingAssumption
<1> USE DEF RingInv, Ring!TypeOK, Ring!Positions
<1>2. ASSUME Ring!Alloc \/ Ring!Resync PROVE RingInv'
  <2>1. /\ hw' = 0 /\ read_pos' = 0 /\ write_pos' = 0 /\ unread' = 0 /\ fresh' = 0
        /\ chip' = [chip EXCEPT !.wp = 0] /\ UNCHANGED <<overflow, late>>
        /\ bh' \in [queued : BOOLEAN, at : {"idle"}]
        /\ (qim' = FALSE /\ resynced' = resynced) \/ (qim' = qim /\ resynced' = (resynced \/ qim))
    BY <1>2 DEF Ring!Alloc, Ring!Resync, Ring!reset_positions, Ring!ghosts
  <2>2. RingKnown /\ ~resynced' => RingKnown'
    BY <1>1, <2>1 DEF RingKnown, dist, Quarter
  <2>3. qim' \in BOOLEAN /\ resynced' \in BOOLEAN /\ (resynced => resynced')
    <3>1. CASE resynced' = resynced BY <2>1, <3>1
    <3>2. CASE resynced' = (resynced \/ qim) /\ qim' = qim BY <3>2
    <3> QED BY <2>1, <3>1, <3>2
  <2>4. chip' \in [wp : 0 .. RingSize - 1, irq : BOOLEAN, next : 0 .. RingSize - 1]
        /\ chip'.irq = chip.irq
    BY <1>1, <2>1
  <2> QED BY <1>1, <2>1, <2>2, <2>3, <2>4
<1>3. CASE UNCHANGED ringVars BY <1>3 DEF ringVars, RingKnown, dist, Quarter
<1> QED BY <1>2, <1>3, RingChip, RingIrq, RingBottomHalf DEF Ring!Next

LEMMA RingWell ==
  ASSUME Ring!RingAssumption, RingInv PROVE Ring!OverflowNoticed /\ Ring!NextIrqAhead
<1>1. /\ chip \in [wp : Ring!Positions, irq : BOOLEAN, next : Ring!Positions]
      /\ hw \in Ring!Positions /\ read_pos \in Ring!Positions /\ fresh \in Nat
  BY DEF RingInv, Ring!TypeOK, Ring!RingAssumption
<1>2. Ring!ahead(read_pos, hw) = dist(read_pos, hw)
  BY <1>1, Ahead DEF dist
<1>3. Ring!ahead(chip.wp, chip.next) = dist(chip.wp, chip.next)
      /\ dist(chip.wp, chip.next) \in Int
  BY <1>1, Ahead DEF dist
<1>4. RingSize \div 4 \in Int BY DEF Ring!RingAssumption
<1>5. ASSUME qim, ~chip.irq, ~resynced PROVE dist(chip.wp, chip.next) \in 1 .. RingSize \div 4
  BY <1>1, <1>3, <1>4, <1>5 DEF RingInv, RingKnown, Quarter
<1> QED BY <1>2, <1>3, <1>5 DEF RingInv, RingKnown, Ring!OverflowNoticed, Ring!NextIrqAhead

-----------------------------------------------------------------------------
(* GtPlayback: a piece is no larger than what is still to do and than an     *)
(* empty queue takes, and the positions tell what is not played.             *)

room(from, to) == IF from <= to THEN to - from ELSE to - from + PlaybackSize
Places == 0 .. PlaybackSize - 1

PlaybackInv ==
  /\ playbackWritepos \in Places /\ playbackChip \in [read : Places, write : Places]
  /\ writer \in [at : {"away", "loop", "wait"}, count : Nat, todo : Nat, n : Nat,
                 nonblock : BOOLEAN, ret : Int]
  /\ writer.todo <= writer.count
  /\ writer.at = "wait" => writer.n <= writer.todo /\ writer.n < PlaybackSize
  /\ playbackChip.write = playbackWritepos
  /\ unplayed = room(playbackChip.read, playbackChip.write)

LEMMA PlaybackStep ==
  ASSUME Playback!PlaybackAssumption, PlaybackInv, [Playback!Next]_playbackVars
  PROVE  PlaybackInv'
<1>1. PlaybackSize \in Nat /\ PlaybackSize >= 2
  BY DEF Playback!PlaybackAssumption
<1> USE DEF PlaybackInv, Places
<1>2. CASE Playback!Plays
  <2> DEFINE pos == (playbackChip.read + 1) % PlaybackSize
  <2>1. playbackChip.read + 1 \in -PlaybackSize .. 2 * PlaybackSize - 1 BY <1>1
  <2>2. pos \in Places /\ pos = (IF playbackChip.read + 1 < PlaybackSize THEN playbackChip.read + 1 ELSE 0)
    <3> DEFINE x == playbackChip.read + 1
    <3>0. PlaybackSize \in Nat \ {0} /\ x \in -PlaybackSize .. 2 * PlaybackSize - 1 /\ ~(x < 0)
      BY <1>1, <2>1
    <3> HIDE DEF x
    <3>1. x % PlaybackSize \in 0 .. PlaybackSize - 1
          /\ x % PlaybackSize = IF x < PlaybackSize THEN x ELSE x - PlaybackSize
      BY <3>0, Modulo
    <3>2. pos \in Places BY <3>1 DEF x
    <3>3. pos = IF playbackChip.read + 1 < PlaybackSize THEN playbackChip.read + 1
                ELSE playbackChip.read + 1 - PlaybackSize
      BY <1>1, <2>1, <3>1 DEF x
    <3> QED BY <1>1, <3>2, <3>3
  <2> HIDE DEF pos
  <2>3. /\ playbackChip.read # playbackChip.write
        /\ playbackChip' = [read |-> pos, write |-> playbackChip.write]
        /\ unplayed' = unplayed - 1 /\ UNCHANGED <<playbackWritepos, writer>>
    BY <1>2 DEF Playback!Plays, pos
  <2>4. unplayed' = room(playbackChip'.read, playbackChip'.write)
    BY <1>1, <2>2, <2>3 DEF room
  <2> QED BY <2>2, <2>3, <2>4
<1>3. ASSUME NEW c \in PlaybackCounts, NEW nb \in BOOLEAN, Playback!Write(c, nb) PROVE PlaybackInv'
  <2>1. c \in Nat BY DEF Playback!PlaybackAssumption
  <2> QED BY <1>3, <2>1 DEF Playback!Write, room
<1>4. CASE Playback!Piece
  <2> DEFINE n == Playback!Minimum(writer.todo, PlaybackSize - 1)
  <2>1. n \in Nat /\ n <= writer.todo /\ n < PlaybackSize BY <1>1 DEF Playback!Minimum
  <2> HIDE DEF n
  <2>2. writer' = [writer EXCEPT !.at = "wait", !.n = n]
        /\ UNCHANGED <<playbackWritepos, playbackChip, unplayed>>
    BY <1>4 DEF Playback!Piece, n
  <2> QED BY <2>1, <2>2 DEF room
<1>5. CASE Playback!GivesUp
  <2> DEFINE ret == IF writer.count > writer.todo THEN writer.count - writer.todo ELSE Playback!EAGAIN
  <2>1. ret \in Int BY DEF Playback!EAGAIN
  <2> HIDE DEF ret
  <2>2. writer' = [at |-> "away", count |-> 0, todo |-> 0, n |-> 0, nonblock |-> FALSE, ret |-> ret]
        /\ UNCHANGED <<playbackWritepos, playbackChip, unplayed>>
    BY <1>5 DEF Playback!GivesUp, Playback!Return, Playback!Away, ret
  <2> QED BY <2>1, <2>2 DEF room
<1>6. CASE Playback!Finish
  <2>1. writer' = [at |-> "away", count |-> 0, todo |-> 0, n |-> 0, nonblock |-> FALSE,
                   ret |-> writer.count]
        /\ UNCHANGED <<playbackWritepos, playbackChip, unplayed>>
    BY <1>6 DEF Playback!Finish, Playback!Return, Playback!Away
  <2> QED BY <2>1 DEF room
<1>7. CASE Playback!Reset
  BY <1>1, <1>7 DEF Playback!Reset, room
<1>8. CASE Playback!Put
  <2> DEFINE r == Playback!data_put(playbackWritepos, writer.n)
  <2>1. writer.at = "wait" /\ Playback!bytes_free(playbackWritepos) >= writer.n
    BY <1>8 DEF Playback!Put
  <2>0. /\ playbackWritepos \in 0 .. PlaybackSize - 1 /\ playbackChip.read \in 0 .. PlaybackSize - 1
        /\ unplayed = room(playbackChip.read, playbackWritepos) /\ writer.n \in Nat
    OBVIOUS
  <2>2. Playback!bytes_free(playbackWritepos) = PlaybackSize - 1 - unplayed
    <3>1. CASE playbackWritepos >= playbackChip.read
      BY <1>1, <2>0, <3>1 DEF Playback!bytes_free, room
    <3>2. CASE playbackWritepos < playbackChip.read
      BY <1>1, <2>0, <3>2 DEF Playback!bytes_free, room
    <3> QED BY <2>0, <3>1, <3>2
  <2>7. writer.n <= PlaybackSize - 1 - unplayed
    BY <2>1, <2>2
  <2>8. Playback!Minimum(writer.n, PlaybackSize - 1 - unplayed) = writer.n
    BY <1>1, <2>0, <2>7 DEF Playback!Minimum, room
  <2>3. /\ r.n = writer.n
        /\ r.pos = IF playbackWritepos + writer.n >= PlaybackSize
                   THEN playbackWritepos + writer.n - PlaybackSize ELSE playbackWritepos + writer.n
    BY <1>1, <2>0, <2>2, <2>8 DEF Playback!data_put
  <2>4. r.pos \in Places /\ unplayed + r.n = room(playbackChip.read, r.pos)
    BY <1>1, <2>0, <2>3, <2>7 DEF room
  <2> HIDE DEF r
  <2>5. /\ playbackWritepos' = r.pos /\ unplayed' = unplayed + r.n
        /\ playbackChip' = [read |-> playbackChip.read, write |-> r.pos]
        /\ writer' = [writer EXCEPT !.at = "loop", !.todo = @ - writer.n]
    BY <1>8 DEF Playback!Put, r
  <2>6. unplayed' = room(playbackChip'.read, playbackChip'.write) BY <2>4, <2>5 DEF room
  <2>9. writer.todo - writer.n \in Nat /\ writer.todo - writer.n <= writer.count BY <2>1
  <2>10. writer' \in [at : {"away", "loop", "wait"}, count : Nat, todo : Nat, n : Nat,
                     nonblock : BOOLEAN, ret : Int]
    BY <2>5, <2>9
  <2> QED BY <2>4, <2>5, <2>6, <2>9, <2>10
<1>9. CASE UNCHANGED playbackVars BY <1>9 DEF playbackVars, room
<1> QED BY <1>2, <1>3, <1>4, <1>5, <1>6, <1>7, <1>8, <1>9 DEF Playback!Next

LEMMA PlaybackInvInit ==
  ASSUME Playback!PlaybackAssumption, Playback!Init PROVE PlaybackInv
<1>1. 0 \in Places BY DEF Playback!PlaybackAssumption, Places
<1> QED BY <1>1 DEF Playback!Init, Playback!Away, PlaybackInv, room

LEMMA PlaybackKnown ==
  ASSUME Playback!PlaybackAssumption, PlaybackInv
  PROVE  Playback!TypeOK /\ Playback!NothingOverwritten
<1> DEFINE x == playbackChip.write - playbackChip.read
<1>1. /\ PlaybackSize \in Nat \ {0} /\ x \in -PlaybackSize .. 2 * PlaybackSize - 1 /\ x < PlaybackSize
      /\ playbackChip.read <= playbackChip.write <=> ~(x < 0)
  BY DEF Playback!PlaybackAssumption, PlaybackInv, Places
<1>2. unplayed = IF playbackChip.read <= playbackChip.write THEN x ELSE x + PlaybackSize
  BY DEF PlaybackInv, room
<1> HIDE DEF x
<1>3. x % PlaybackSize = IF x < 0 THEN x + PlaybackSize ELSE x BY <1>1, Modulo
<1>4. unplayed = x % PlaybackSize /\ unplayed \in Int BY <1>1, <1>2, <1>3
<1>5. Playback!NothingOverwritten BY <1>4 DEF x, PlaybackInv, Playback!NothingOverwritten
<1> QED BY <1>4, <1>5 DEF PlaybackInv, Places, Playback!TypeOK, Playback!Positions

-----------------------------------------------------------------------------
(* AvCommand: STATUS_ADDRESS is set only while the mailbox is empty, and a   *)
(* command is written only when it is set.                                   *)

CommandInv == Command!TypeOK /\ Command!NoCommandDropped

LEMMA CommandStep ==
  ASSUME Command!CallersAssumption, CommandInv, [Command!Next]_commandVars
  PROVE  CommandInv'
<1> USE DEF CommandInv, Command!TypeOK, Command!NoCommandDropped, Command!Addresses
<1>1. Command!Idle \in [at : {"idle"}, addr : {Command!Zero}, waits : BOOLEAN, woken : BOOLEAN]
  BY DEF Command!Idle
<1>2. CASE Command!TakeCommand BY <1>2 DEF Command!TakeCommand
<1>3. CASE Command!Hangs BY <1>3 DEF Command!Hangs
<1>4. ASSUME NEW c \in Callers, Command!CommandEnds(c) PROVE CommandInv'
  <2>1. ASSUME NEW d \in Callers
        PROVE  [commandCall[d] EXCEPT !.woken = @ \/ commandCall[d].at = "sleep"] \in
               [at : {"idle", "ready", "accept", "look", "fall_asleep", "sleep", "restart"},
                addr : Command!Addresses, waits : BOOLEAN, woken : BOOLEAN]
    <3>1. (commandCall[d].woken \/ commandCall[d].at = "sleep") \in BOOLEAN OBVIOUS
    <3> QED BY <3>1
  <2> QED BY <1>4, <2>1 DEF Command!CommandEnds
<1>5. ASSUME NEW c \in Callers, NEW waits \in BOOLEAN, Command!avia_av_cmd(c, waits) PROVE CommandInv'
  BY <1>1, <1>5 DEF Command!avia_av_cmd
<1>6. ASSUME NEW c \in Callers, Command!write_command(c) PROVE CommandInv'
  BY <1>6 DEF Command!write_command
<1>7. ASSUME NEW c \in Callers, Command!Accepted(c) PROVE CommandInv'
  BY <1>1, <1>7 DEF Command!Accepted
<1>8. ASSUME NEW c \in Callers, Command!LookAtStatus(c) PROVE CommandInv'
  BY <1>1, <1>8 DEF Command!LookAtStatus
<1>9. ASSUME NEW c \in Callers, Command!FallAsleep(c) \/ Command!WakeUp(c) \/ Command!SleepTimeout(c)
      PROVE CommandInv'
  BY <1>1, <1>9 DEF Command!FallAsleep, Command!WakeUp, Command!SleepTimeout
<1>10. ASSUME NEW c \in Callers, Command!StandbyOn(c) PROVE CommandInv'
  BY <1>10 DEF Command!StandbyOn
<1>11. ASSUME NEW c \in Callers, Command!avia_av_init(c) PROVE CommandInv'
  BY <1>1, <1>11 DEF Command!avia_av_init
<1>12. CASE UNCHANGED commandVars BY <1>12 DEF commandVars
<1> QED BY <1>2, <1>3, <1>4, <1>5, <1>6, <1>7, <1>8, <1>9, <1>10, <1>11, <1>12
        DEF Command!Next, Command!Caller

LEMMA CommandInvInit ==
  ASSUME Command!Init PROVE CommandInv
BY DEF Command!Init, Command!Idle, CommandInv, Command!TypeOK, Command!NoCommandDropped, Command!Addresses

-----------------------------------------------------------------------------
(* GtClock: while the clock is not to be reloaded it is where off says, up to *)
(* a turn of the counters.                                                   *)

Turns == {-2 * Half, 0, 2 * Half}
ClockInv ==
  /\ Clock!TypeOK /\ Clock!ReloadsOnlyWhenLost
  /\ ~force_stc_reload =>
       last_pcr = pcr /\ off \in -MaxDiff .. MaxDiff /\ (lstc - pcr) - off \in Turns

(* Two values that are whole turns apart.                                    *)
LEMMA TurnsApart ==
  ASSUME NEW h \in Int, NEW x \in Int, NEW n \in Int, NEW y \in Int,
         y \in {x + n + 2 * h, x + n, x + n - 2 * h}
  PROVE  y - x - n \in {-2 * h, 0, 2 * h}
OBVIOUS

LEMMA MoreTurnsApart ==
  ASSUME NEW h \in Int, NEW x \in Int, NEW d \in Int, NEW y \in Int,
         d - x \in {-2 * h, 0, 2 * h}, y \in {d, d - 2 * h, d + 2 * h}
  PROVE  y - x \in {-4 * h, -2 * h, 0, 2 * h, 4 * h}
OBVIOUS

(* Whole turns more or less do not show in 32 bits.                          *)
LEMMA Signed ==
  ASSUME Clock!ClockAssumption, NEW o \in Int, -(Half \div 2) < o, o < Half \div 2,
         NEW v \in Int, v - o \in {-4 * Half, -2 * Half, 0, 2 * Half, 4 * Half}
  PROVE  Clock!s32(v) = o
<1>1. Half \in Nat \ {0} BY DEF Clock!ClockAssumption
<1>2. ASSUME NEW a \in 0 .. Half - 1
      PROVE  /\ a % Half = a
             /\ (a - Half) % Half = a /\ (a + Half) % Half = a
             /\ (a - 2 * Half) % Half = a /\ (a + 2 * Half) % Half = a
             /\ (a - 3 * Half) % Half = a /\ (a + 3 * Half) % Half = a
             /\ (a - 4 * Half) % Half = a /\ (a + 4 * Half) % Half = a
             /\ (a - 5 * Half) % Half = a
  BY <1>1
<1>3. CASE o >= 0
  <2>1. v \in {o - 4 * Half, o - 2 * Half, o, o + 2 * Half, o + 4 * Half} BY <1>1
  <2>2. v % Half = o BY <1>1, <1>2, <1>3, <2>1
  <2> QED BY <1>1, <1>3, <2>2 DEF Clock!s32
<1>4. CASE o < 0
  <2> DEFINE a == o + Half
  <2>0. a \in 0 .. Half - 1 /\ a >= Half \div 2 /\ o = a - Half BY <1>1, <1>4
  <2>1. v \in {a - 5 * Half, a - 3 * Half, a - Half, a + Half, a + 3 * Half} BY <1>1, <2>0
  <2> HIDE DEF a
  <2>2. v % Half = a BY <1>1, <1>2, <2>0, <2>1
  <2> QED BY <1>1, <2>0, <2>2 DEF Clock!s32
<1> QED BY <1>3, <1>4

(* A counter that goes on by less than a turn.                               *)
LEMMA CounterGoesOn ==
  ASSUME Clock!ClockAssumption, NEW c \in 0 .. 2 * Half - 1, NEW n \in Int,
         -2 * Half < n, n < 2 * Half
  PROVE  /\ (c + n) % (2 * Half) \in 0 .. 2 * Half - 1
         /\ (c + n) % (2 * Half) = IF c + n < 0 THEN c + n + 2 * Half
                                   ELSE IF c + n < 2 * Half THEN c + n ELSE c + n - 2 * Half
<1> DEFINE S == 2 * Half
           x == c + n
<1>1. S \in Nat \ {0} /\ x \in -S .. 2 * S - 1
  BY DEF Clock!ClockAssumption
<1> HIDE DEF S, x
<1>2. x % S = (IF x < 0 THEN x + S ELSE IF x < S THEN x ELSE x - S) /\ x % S \in 0 .. S - 1
  BY <1>1, Modulo
<1>3. x % S \in 0 .. 2 * Half - 1 BY <1>2 DEF S
<1>4. x % S = (IF x < 0 THEN x + 2 * Half ELSE IF x < 2 * Half THEN x ELSE x - 2 * Half)
  <2>1. x % S = IF x < 0 THEN x + S ELSE IF x < S THEN x ELSE x - S BY <1>2
  <2> QED BY <2>1 DEF S
<1>5. Half \in Nat /\ c \in Int BY DEF Clock!ClockAssumption
<1> QED BY <1>3, <1>4, <1>5 DEF S, x

(* What the handler takes for the distances is what they are.                *)
LEMMA DiffsAreDistances ==
  ASSUME Clock!ClockAssumption, ClockInv, ~force_stc_reload,
         NEW step \in Steps, Clock!Arrive(step)
  PROVE  /\ pcr' \in 0 .. 2 * Half - 1 /\ lstc' \in 0 .. 2 * Half - 1
         /\ gap' \in 0 .. 2 * Half - 1 /\ off' \in Int /\ (lstc' - pcr') - off' \in Turns
         /\ gap' # 0 => Clock!pcr_diff(pcr') = gap'
         /\ gap' = 0 => Clock!pcr_diff(pcr') = 2 * Half
         /\ Clock!pcr_lstc_diff(pcr', lstc') = off'
<1> DEFINE p == step.pcr
           l == step.stc
<1>1. /\ Half \in Nat \ {0} /\ MaxDiff \in Nat
      /\ p \in 0 .. 2 * Half - 1 /\ l \in 0 .. 2 * Half - 1
      /\ MaxDiff + l < Half \div 2 /\ MaxDiff + p < Half \div 2
  BY DEF Clock!ClockAssumption
<1>2. /\ pcr \in 0 .. 2 * Half - 1 /\ lstc \in 0 .. 2 * Half - 1 /\ last_pcr = pcr
      /\ last_lstc \in 0 .. 2 * Half - 1
      /\ off \in -MaxDiff .. MaxDiff
      /\ (lstc - pcr) - off \in {-2 * Half, 0, 2 * Half}
  BY DEF ClockInv, Clock!TypeOK, Clock!Counters, Clock!Wrap, Turns
<1>3. /\ pcr' = (pcr + p) % (2 * Half) /\ lstc' = (lstc + l) % (2 * Half)
      /\ gap' = p /\ off' = off + l - p
  BY DEF Clock!Arrive, Clock!Wrap
<1> HIDE DEF p, l
<1>10. Half \in Nat \ {0} BY <1>1
<1>0. p \in Int /\ l \in Int /\ -2 * Half < p /\ p < 2 * Half /\ -2 * Half < l /\ l < 2 * Half
  BY <1>1
<1>4. /\ pcr' \in 0 .. 2 * Half - 1
      /\ pcr' = IF pcr + p < 2 * Half THEN pcr + p ELSE pcr + p - 2 * Half
  <2>1. /\ (pcr + p) % (2 * Half) \in 0 .. 2 * Half - 1
        /\ (pcr + p) % (2 * Half) = IF pcr + p < 0 THEN pcr + p + 2 * Half
              ELSE IF pcr + p < 2 * Half THEN pcr + p ELSE pcr + p - 2 * Half
    BY <1>0, <1>2, CounterGoesOn
  <2>2. ~(pcr + p < 0) BY <1>1, <1>2
  <2> QED BY <1>3, <2>1, <2>2
<1>5. /\ lstc' \in 0 .. 2 * Half - 1
      /\ lstc' = IF lstc + l < 2 * Half THEN lstc + l ELSE lstc + l - 2 * Half
  <2>1. /\ (lstc + l) % (2 * Half) \in 0 .. 2 * Half - 1
        /\ (lstc + l) % (2 * Half) = IF lstc + l < 0 THEN lstc + l + 2 * Half
              ELSE IF lstc + l < 2 * Half THEN lstc + l ELSE lstc + l - 2 * Half
    BY <1>0, <1>2, CounterGoesOn
  <2>2. ~(lstc + l < 0) BY <1>1, <1>2
  <2> QED BY <1>3, <2>1, <2>2
<1>6. gap' \in 0 .. 2 * Half - 1 /\ off' \in Int /\ -(Half \div 2) < off' /\ off' < Half \div 2
  BY <1>1, <1>2, <1>3
<1>7. (lstc' - pcr') - off' \in {-2 * Half, 0, 2 * Half}
  <2>1. (lstc' - pcr') - off' \in {-4 * Half, -2 * Half, 0, 2 * Half, 4 * Half}
    BY <1>1, <1>2, <1>3, <1>4, <1>5
  <2>2. -2 * Half < lstc' - pcr' /\ lstc' - pcr' < 2 * Half
    BY <1>1, <1>4, <1>5
  <2> QED BY <1>1, <1>4, <1>5, <1>6, <2>1, <2>2
<1>8. /\ gap' # 0 => Clock!pcr_diff(pcr') = gap'
      /\ gap' = 0 => Clock!pcr_diff(pcr') = 2 * Half
  <2>1. Clock!pcr_diff(pcr') = IF pcr' > pcr THEN pcr' - pcr ELSE pcr' + 2 * Half - pcr
    BY <1>2 DEF Clock!pcr_diff, Clock!Wrap
  <2> QED BY <1>1, <1>2, <1>3, <1>4, <2>1
<1>9. Clock!pcr_lstc_diff(pcr', lstc') = off'
  <2>1. ASSUME NEW v \in {lstc' - pcr', lstc' - pcr' - 2 * Half, lstc' + 2 * Half - pcr'}
        PROVE  Clock!s32(v) = off'
    <3> DEFINE d == lstc' - pcr'
    <3>2. d \in Int /\ d - off' \in {-2 * Half, 0, 2 * Half} BY <1>4, <1>5, <1>7
    <3>3. v \in {d, d - 2 * Half, d + 2 * Half} BY <1>1, <1>4, <1>5
    <3> HIDE DEF d
    <3>4. v \in Int BY <1>10, <3>2, <3>3
    <3>5. off' \in Int BY <1>6
    <3>6. Half \in Int BY <1>10
    <3>1. v - off' \in {-4 * Half, -2 * Half, 0, 2 * Half, 4 * Half}
      BY <3>2, <3>3, <3>4, <3>5, <3>6, MoreTurnsApart
    <3> QED BY <1>6, <3>1, <3>4, Signed
  <2>2. Clock!pcr_lstc_diff(pcr', lstc') \in
          {Clock!s32(lstc' - pcr'), Clock!s32(lstc' - pcr' - 2 * Half),
           Clock!s32(lstc' + 2 * Half - pcr')}
    <3>1. CASE pcr' < last_pcr /\ lstc' < last_lstc
      BY <1>1, <1>2, <1>4, <1>5, <3>1 DEF Clock!pcr_lstc_diff
    <3>2. CASE pcr' < last_pcr /\ ~(lstc' < last_lstc)
      BY <1>1, <1>2, <1>5, <3>2 DEF Clock!pcr_lstc_diff, Clock!Wrap
    <3>3. CASE ~(pcr' < last_pcr) /\ lstc' < last_lstc
      BY <1>1, <1>2, <1>4, <3>3 DEF Clock!pcr_lstc_diff, Clock!Wrap
    <3>4. CASE ~(pcr' < last_pcr) /\ ~(lstc' < last_lstc)
      BY <1>1, <1>2, <1>4, <1>5, <3>4 DEF Clock!pcr_lstc_diff
    <3> QED BY <3>1, <3>2, <3>3, <3>4
  <2> QED BY <2>1, <2>2
<1> QED BY <1>4, <1>5, <1>6, <1>7, <1>8, <1>9 DEF Turns

LEMMA ClockInvInit ==
  ASSUME Clock!ClockAssumption, Clock!Init PROVE ClockInv
BY DEF Clock!ClockAssumption, Clock!Init, ClockInv, Clock!TypeOK, Clock!ReloadsOnlyWhenLost,
   Clock!Counters, Clock!Wrap

LEMMA ClockStep ==
  ASSUME Clock!ClockAssumption, ClockInv, [Clock!Next]_clockVars
  PROVE  ClockInv'
<1>0. /\ Half \in Nat \ {0} /\ MaxDiff \in Nat /\ MaxPcrDiff \in Nat /\ MaxPcrDiff < Half
      /\ ForceDiff \in Nat /\ MaxDiffDiff \in Nat /\ ForceDiff < MaxDiff /\ MaxDiff < Half \div 2
  BY DEF Clock!ClockAssumption
<1>t. Clock!TypeOK BY DEF ClockInv
<1>1. ASSUME NEW jump \in Jumps, Clock!Reload(jump) PROVE ClockInv'
  <2>0. jump \in -MaxDiff .. MaxDiff BY DEF Clock!ClockAssumption
  <2>1. PICK step \in Steps : pcr' = (pcr + step.pcr) % (2 * Half) /\ gap' = step.pcr
    BY <1>1 DEF Clock!Reload, Clock!Wrap
  <2>2. step.pcr \in 0 .. 2 * Half - 1 BY DEF Clock!ClockAssumption
  <2>3. pcr \in 0 .. 2 * Half - 1 BY <1>t DEF Clock!TypeOK, Clock!Counters, Clock!Wrap
  <2>4. pcr' \in 0 .. 2 * Half - 1
    <3>1. step.pcr \in Int /\ -2 * Half < step.pcr /\ step.pcr < 2 * Half BY <1>0, <2>2
    <3> QED BY <2>1, <2>3, <3>1, CounterGoesOn
  <2>5. /\ off' = jump /\ lstc' = (pcr' + jump) % (2 * Half)
        /\ last_pcr' = pcr' /\ last_lstc' = pcr' /\ last_diff' = 0
        /\ force_stc_reload' = FALSE /\ why' = "reload" /\ dac' = dac
    BY <1>1 DEF Clock!Reload, Clock!Wrap
  <2>6. -2 * Half < jump /\ jump < 2 * Half /\ jump \in Int BY <1>0, <2>0
  <2>7. /\ (pcr' + jump) % (2 * Half) \in 0 .. 2 * Half - 1
        /\ (pcr' + jump) % (2 * Half) =
             IF pcr' + jump < 0 THEN pcr' + jump + 2 * Half
             ELSE IF pcr' + jump < 2 * Half THEN pcr' + jump ELSE pcr' + jump - 2 * Half
    BY <2>4, <2>6, CounterGoesOn
  <2>10. Half \in Nat \ {0} BY <1>0
  <2>11. lstc' \in Int BY <1>0, <2>5, <2>7
  <2>8. (lstc' - pcr') - off' \in Turns
    <3>2. lstc' \in {pcr' + jump + 2 * Half, pcr' + jump, pcr' + jump - 2 * Half} BY <2>5, <2>7
    <3>1. (lstc' - pcr') - jump \in {-2 * Half, 0, 2 * Half} 
      <4>1. Half \in Int /\ pcr' \in Int BY <2>4, <2>10
      <4> QED BY <2>6, <2>11, <3>2, <4>1, TurnsApart
    <3> QED BY <2>5, <3>1 DEF Turns
  <2>9. Clock!TypeOK'
    <3>1. 0 \in -MaxDiff .. MaxDiff BY <1>0
    <3> QED BY <1>t, <2>4, <2>5, <2>7, <3>1 DEF Clock!TypeOK, Clock!Counters, Clock!Wrap
  <2> QED BY <2>0, <2>5, <2>8, <2>9 DEF ClockInv, Clock!ReloadsOnlyWhenLost
<1>2. ASSUME NEW step \in Steps, Clock!Discontinuity(step) PROVE ClockInv'
  <2>1. ~force_stc_reload /\ Clock!Arrive(step) BY <1>2 DEF Clock!Discontinuity
  <2>2. /\ pcr' \in 0 .. 2 * Half - 1 /\ lstc' \in 0 .. 2 * Half - 1 /\ gap' \in 0 .. 2 * Half - 1
        /\ gap' # 0 => Clock!pcr_diff(pcr') = gap'
    BY <2>1, DiffsAreDistances
  <2> QED BY <1>0, <1>t, <1>2, <2>2 DEF Clock!Discontinuity, ClockInv, Clock!ReloadsOnlyWhenLost,
             Clock!TypeOK, Clock!Counters, Clock!Wrap
<1>3. ASSUME NEW step \in Steps, Clock!SyncLost(step) PROVE ClockInv'
  <2>1. ~force_stc_reload /\ Clock!Arrive(step) BY <1>3 DEF Clock!SyncLost
  <2>2. /\ pcr' \in 0 .. 2 * Half - 1 /\ lstc' \in 0 .. 2 * Half - 1
        /\ Clock!pcr_lstc_diff(pcr', lstc') = off'
    BY <2>1, DiffsAreDistances
  <2> QED BY <1>0, <1>t, <1>3, <2>2 DEF Clock!SyncLost, ClockInv, Clock!ReloadsOnlyWhenLost,
             Clock!TypeOK, Clock!Counters, Clock!Wrap
<1>4. ASSUME NEW step \in Steps, Clock!Tune(step) PROVE ClockInv'
  <2>1. ~force_stc_reload /\ Clock!Arrive(step) BY <1>4 DEF Clock!Tune
  <2>2. /\ pcr' \in 0 .. 2 * Half - 1 /\ lstc' \in 0 .. 2 * Half - 1
        /\ gap' \in 0 .. 2 * Half - 1 /\ (lstc' - pcr') - off' \in Turns
        /\ gap' # 0 => Clock!pcr_diff(pcr') = gap'
        /\ gap' = 0 => Clock!pcr_diff(pcr') = 2 * Half
        /\ Clock!pcr_lstc_diff(pcr', lstc') = off'
    BY <2>1, DiffsAreDistances
  <2>3. /\ Clock!pcr_diff(pcr') <= MaxPcrDiff /\ off' \in -MaxDiff .. MaxDiff
        /\ dac' = Clock!gain(off').by /\ last_diff' = Clock!gain(off').last
        /\ last_pcr' = pcr' /\ last_lstc' = lstc' /\ why' = "tune"
        /\ force_stc_reload' = force_stc_reload
    BY <1>4, <2>2 DEF Clock!Tune
  <2>4. gap' \in 1 .. MaxPcrDiff BY <1>0, <2>2, <2>3
  <2>5. last_diff' \in -MaxDiff .. MaxDiff /\ dac' \in {"up", "down", "same"}
    BY <1>0, <1>t, <2>3 DEF Clock!TypeOK, Clock!gain, Clock!direction
  <2>6. Clock!TypeOK' BY <1>t, <2>1, <2>2, <2>3, <2>5 DEF Clock!TypeOK, Clock!Counters, Clock!Wrap
  <2> QED BY <2>2, <2>3, <2>4, <2>6 DEF ClockInv, Clock!ReloadsOnlyWhenLost
<1>5. CASE Clock!avia_gt_dmx_set_pcr_pid
  BY <1>5 DEF Clock!avia_gt_dmx_set_pcr_pid, ClockInv, Clock!ReloadsOnlyWhenLost, Clock!TypeOK
<1>6. CASE UNCHANGED clockVars
  BY <1>6 DEF clockVars, ClockInv, Clock!ReloadsOnlyWhenLost, Clock!TypeOK
<1> QED BY <1>1, <1>2, <1>3, <1>4, <1>5, <1>6 DEF Clock!Next

-----------------------------------------------------------------------------
(* AvPlayback.                                                               *)

(* A call deals with the types that it touches and no other call met, mine.  *)
(* What a quiet type plays is kept: its feed's pid, or nothing.              *)

asideStream == IF bypass THEN 3 ELSE 2
mine(c, t) == t \in call[c].touches /\ t \notin call[c].met
changes_feed(c) == call[c].op \in {"start", "stop"}
now(t) == selected[Av!Stream(t)]
soon(c, t) ==
  IF call[c].at = "write" /\ call[c].cmd[Av!Stream(t)] # Av!Same THEN call[c].cmd[Av!Stream(t)] ELSE now(t)

noted(t, p) ==
  /\ feed[t] # Av!NoPid /\ want[t] = "playing" => play[t] = "playing"
  /\ play[t] = "stopped" => p = Av!NoPid
kept(t, p) ==
  /\ noted(t, p)
  /\ feed[t] # Av!NoPid /\ (play[t] = "playing" \/ (t = "video" /\ play[t] = "paused")) => p = pid[t]


(* Calls for the same type have met, and what one of them met is astray.     *)
CallsInv ==
  \A c \in Threads :
    /\ Av!idle(c) => call[c] = Av!Idle
    /\ ~Av!idle(c) => call[c].t \in call[c].touches
    /\ call[c].op \in {"bypass", "restart"} \/ call[c].at \in {"restart", "cleared"} =>
         call[c].touches = Av!Types
    /\ call[c].op # "restart" /\ call[c].at \in {"restart", "cleared"} => call[c].met = Av!Types
    /\ call[c].op = "restart" => call[c].at \in {"restart", "cleared"}
    /\ call[c].met \subseteq call[c].touches
    /\ call[c].met \subseteq astray
    /\ \A d \in Threads \ {c} : call[c].touches \cap call[d].touches \subseteq call[c].met

(* The steps that a call may be at.                                          *)
stepped(c) ==
  /\ call[c].step \in {"select", "video", "anew", "play"} =>
       call[c].op \in {"ioctl", "start"} /\ call[c].t = "audio" /\ call[c].to = "playing"
  /\ call[c].step \in {"video", "anew", "play"} /\ ~switched => call[c].touches = Av!Types
  /\ call[c].step \in {"select", "type"} /\ call[c].t = "audio" /\ Av!may_play_again /\ ~switched =>
       call[c].touches = Av!Types
  /\ call[c].step = "abort" =>
       call[c].op \in {"ioctl", "stop"} /\ call[c].to = "stopped" /\ call[c].touches = Av!Types
  /\ call[c].step = "type" => call[c].op = "start" /\ call[c].to = "none"
  /\ call[c].op \in {"bypass", "restart", "watch"} => call[c].step = "last"
  /\ call[c].op # "bypass" => call[c].to \in Av!States \cup {"none"}
  /\ call[c].op = "ioctl" => call[c].to \in Av!States
StepsInv == \A c \in Threads : stepped(c)

(* A feed's pid is noted, and have tells of it when its call is over.        *)
FeedsInv ==
  /\ \A t \in Av!Types :
       /\ feed[t] # Av!NoPid => pid[t] = feed[t]
       /\ \/ have[t] <=> feed[t] # Av!NoPid
          \/ \E c \in Threads : changes_feed(c) /\ call[c].t = t
  /\ \A c \in Threads :
       /\ call[c].op = "stop" => feed[call[c].t] = Av!NoPid
       /\ call[c].op = "start" => feed[call[c].t] # Av!NoPid
       /\ \A d \in Threads : changes_feed(c) /\ changes_feed(d) => c = d

(* What a call is about to do with a type that is its own: it sets all, so   *)
(* that even what is astray will be right; or what plays is kept before its  *)
(* command and after it.                                                     *)
told(c, t) ==
  /\ call[c].op \in {"ioctl", "start", "stop"} /\ call[c].t = t /\ call[c].whole
  /\ call[c].op = "stop" => call[c].to = "stopped"
  /\ call[c].op = "start" => call[c].to = "playing"
  /\ \/ call[c].to = "stopped" /\ soon(c, t) = Av!NoPid
     \/ call[c].to = "playing" /\ soon(c, t) = pid[t]
watched(c, t) ==
  /\ call[c].op = "watch" /\ call[c].to = "none" /\ play[t] = "playing"
  /\ kept(t, now(t)) /\ kept(t, soon(c, t))
unfrozen(c, t) ==
  /\ call[c].op \in {"ioctl", "start"} /\ call[c].t = t /\ ~call[c].whole
  /\ call[c].to = "playing" /\ t = "video" /\ play[t] = "paused"
  /\ kept(t, now(t)) /\ call[c].cmd = Av!Untouched
halted(c, t) ==
  /\ call[c].op = "ioctl" /\ call[c].t = t /\ ~call[c].whole
  /\ call[c].to = "paused" /\ play[t] = "playing"
  /\ t = "video" => kept(t, now(t)) /\ call[c].cmd = Av!Untouched
typed(c, t) ==
  /\ call[c].op = "start" /\ call[c].t = t /\ call[c].to = "none" /\ ~call[c].whole
  /\ call[c].step = "type" /\ play[t] = "stopped" /\ now(t) = Av!NoPid /\ call[c].cmd = Av!Untouched
beside(c, t) ==
  /\ call[c].op \in {"ioctl", "start", "stop"} /\ call[c].t # t
  /\ kept(t, now(t)) /\ kept(t, soon(c, t))
  /\ call[c].to = "stopped" \/ t = "audio" => play[t] = "stopped"
bypassed(c, t) ==
  /\ call[c].op = "bypass" /\ ~call[c].whole
  /\ noted(t, now(t)) /\ noted(t, soon(c, t))
  /\ ~Avia500 => kept(t, now(t)) /\ call[c].cmd = Av!Untouched
restarts(c, t) ==
  /\ call[c].op = "restart" /\ ~call[c].whole
  /\ call[c].at = "cleared" => now(t) = Av!NoPid

dealt(c, t) ==
  \/ told(c, t)
  \/ t \in astray /\ ~(call[c].t = t /\ call[c].whole)
  \/ watched(c, t) \/ unfrozen(c, t) \/ halted(c, t) \/ typed(c, t) \/ beside(c, t)
  \/ bypassed(c, t) \/ restarts(c, t)

(* A command changes the streams of types that its call touches, and never   *)
(* selects the audio stream that the bypass mode leaves aside.               *)
writes_own(c) ==
  call[c].at = "write" =>
    /\ call[c].cmd[asideStream] \in {Av!Same, Av!NoPid}
    /\ call[c].cmd[0] # Av!Same => "video" \in call[c].touches
    /\ call[c].cmd[2] # Av!Same \/ call[c].cmd[3] # Av!Same => "audio" \in call[c].touches
StreamsInv ==
  ~switched =>
    /\ selected[asideStream] = Av!NoPid
    /\ \A c \in Threads : writes_own(c)
    /\ \A t \in Av!Types : Av!quiet(t) /\ t \notin astray => kept(t, now(t))
    /\ \A c \in Threads, t \in Av!Types : mine(c, t) => dealt(c, t)

(* A restart that nobody met leaves nothing selected.                        *)
ClearedInv ==
  \A c \in Threads : call[c].op = "restart" /\ call[c].at = "cleared" /\ call[c].met = {} =>
    selected = [s \in Av!Streams |-> Av!NoPid]
DecoderInv == Av!TypeOK /\ CallsInv /\ StepsInv /\ FeedsInv /\ StreamsInv /\ ClearedInv

(* The types and their streams.                                              *)
LEMMA Kinds ==
  /\ Av!Types = {"audio", "video"} /\ Av!Streams = {0, 2, 3}
  /\ asideStream \in {2, 3} /\ Av!audio_stream \in {2, 3} /\ asideStream # Av!audio_stream
  /\ Av!Stream("audio") = Av!audio_stream /\ Av!Stream("video") = 0
  /\ \A t \in Av!Types : Av!Stream(t) \in Av!Streams /\ Av!Other(t) \in Av!Types /\ Av!Other(t) # t
BY DEF Av!Types, Av!Streams, asideStream, Av!audio_stream, Av!Stream, Av!Other

(* Calls and types that a step leaves alone.                                 *)
same_call(d) ==
  /\ call'[d].op = call[d].op /\ call'[d].t = call[d].t /\ call'[d].to = call[d].to
  /\ call'[d].touches = call[d].touches /\ call'[d].step = call[d].step
  /\ call'[d].at = call[d].at /\ call'[d].cmd = call[d].cmd /\ call'[d].whole = call[d].whole
  /\ call[d].met \subseteq call'[d].met
same_type(t) ==
  /\ want'[t] = want[t] /\ play'[t] = play[t] /\ feed'[t] = feed[t] /\ pid'[t] = pid[t]
  /\ (t \in astray') = (t \in astray) /\ selected'[Av!Stream(t)] = selected[Av!Stream(t)]

(* A step of c that touches the types T leaves what the other calls do with  *)
(* their own types, and the quiet types, as they were.                       *)
LEMMA RestKept ==
  ASSUME Av!TypeOK, Av!TypeOK', CallsInv, StreamsInv, ~switched, ~switched',
         NEW c \in Threads, NEW T \in SUBSET Av!Types, bypass' = bypass,
         call[c].touches \subseteq T, call'[c].touches \subseteq T,
         \A d \in Threads \ {c} : same_call(d) /\ call[d].touches \cap T \subseteq call'[d].met,
         \A t \in Av!Types \ T : same_type(t)
  PROVE  /\ \A d \in Threads \ {c} : writes_own(d)'
         /\ \A t \in Av!Types \ T : Av!quiet(t)' /\ t \notin astray' => kept(t, now(t))'
         /\ \A d \in Threads \ {c} : \A t \in Av!Types : mine(d, t)' => dealt(d, t)'
<1>1. ASSUME NEW t \in Av!Types PROVE Av!Stream(t)' = Av!Stream(t)
  BY DEF Av!Stream, Av!audio_stream
<1>2. ASSUME NEW d \in Threads \ {c} PROVE writes_own(d)'
  BY <1>2 DEF writes_own, StreamsInv, same_call, asideStream
<1>3. ASSUME NEW t \in Av!Types \ T, Av!quiet(t)', t \notin astray' PROVE kept(t, now(t))'
  <2>1. Av!quiet(t) BY <1>3 DEF Av!quiet, same_call
  <2>2. kept(t, now(t)) BY <1>3, <2>1 DEF StreamsInv, same_type
  <2> QED BY <1>1, <1>3, <2>2 DEF kept, noted, now, same_type
<1>4. ASSUME NEW d \in Threads \ {c}, NEW t \in Av!Types, mine(d, t)' PROVE dealt(d, t)'
  <2>1. mine(d, t) /\ t \notin T BY <1>4 DEF mine, same_call
  <2>2. dealt(d, t) BY <2>1 DEF StreamsInv
  <2>3. now(t)' = now(t) /\ soon(d, t)' = soon(d, t) BY <1>1, <2>1 DEF now, soon, same_call, same_type
  <2>4. \A p \in AvPids \cup {Av!NoPid} : noted(t, p)' = noted(t, p) /\ kept(t, p)' = kept(t, p)
    BY <2>1 DEF noted, kept, same_type
  <2>5. now(t) \in AvPids \cup {Av!NoPid} /\ soon(d, t) \in AvPids \cup {Av!NoPid}
    BY Kinds DEF now, soon, Av!TypeOK, Av!Calls
  <2> QED BY <2>1, <2>2, <2>3, <2>4, <2>5 DEF dealt, same_type, same_call, told, watched, unfrozen, halted,
       typed, beside, bypassed, restarts
<1> QED BY <1>2, <1>3, <1>4
Pid == AvPids \cup {Av!NoPid}
Commands == [Av!Streams -> Pid \cup {Av!Same}]

(* Commands tell each stream a pid, nothing, or to go on.                    *)
LEMMA CommandsTyped ==
  ASSUME Av!TypeOK
  PROVE  /\ Av!Untouched \in Commands /\ Av!Abort \in Commands /\ Av!NewChannel \in Commands
         /\ \A s \in Av!Streams, p \in Pid : Av!SelectStream(s, p) \in Commands
         /\ \A v, a \in Pid : Av!Play(v, a) \in Commands
         /\ \A cmd \in Commands : Av!given(cmd) \in [Av!Streams -> Pid]
         /\ Av!video_if_playing \in Pid
         /\ \A t \in Av!Types, to \in {"playing", "paused", "stopped"}, p \in Pid :
              Av!first_command(t, to, p) \in Commands
<1>1. /\ Av!Untouched \in Commands /\ Av!Abort \in Commands /\ Av!NewChannel \in Commands
      /\ \A s \in Av!Streams, p \in Pid : Av!SelectStream(s, p) \in Commands
      /\ \A v, a \in Pid : Av!Play(v, a) \in Commands
  BY DEF Commands, Pid, Av!Untouched, Av!Abort, Av!NewChannel, Av!SelectStream, Av!Play
<1>2. \A cmd \in Commands : Av!given(cmd) \in [Av!Streams -> Pid]
  BY DEF Commands, Pid, Av!given, Av!TypeOK
<1>3. Av!video_if_playing \in Pid BY Kinds DEF Av!video_if_playing, Pid, Av!TypeOK
<1>4. ASSUME NEW t \in Av!Types, NEW to \in {"playing", "paused", "stopped"}, NEW p \in Pid
      PROVE  Av!first_command(t, to, p) \in Commands
  <2>1. Av!NoPid \in Pid /\ Av!Stream(t) \in Av!Streams /\ Av!audio_stream \in Av!Streams BY Kinds DEF Pid
  <2> QED BY <1>1, <2>1 DEF Av!first_command, Av!set_paused, Av!set_playing, Av!set_stopped
<1> QED BY <1>1, <1>2, <1>3, <1>4

(* A call that begins, and one that goes on.                                 *)
begun(r, T) ==
  /\ r.op \in {"ioctl", "start", "stop", "watch", "bypass", "restart"}
  /\ r.t \in T /\ r.touches = T /\ r.at # "cleared"
  /\ r.op \in {"bypass", "restart"} => T = Av!Types
  /\ r.op = "restart" <=> r.at = "restart"

(* The other calls meet one that begins, or ends at once.                    *)
LEMMA CallsEnter ==
  ASSUME Av!TypeOK, CallsInv, NEW c \in Threads, Av!idle(c), NEW T \in SUBSET Av!Types,
         NEW r, r = Av!Idle \/ (begun(r, T) /\ r.met = Av!met_by(c, T)), Av!Enters(c, T, r),
         astray \cup Av!met_by(c, T) \subseteq astray'
  PROVE  /\ CallsInv' /\ call'[c] = r
         /\ \A d \in Threads \ {c} : same_call(d) /\ call[d].touches \cap T \subseteq call'[d].met
<1>1. /\ call'[c] = r
      /\ \A d \in Threads \ {c} : call'[d] = [call[d] EXCEPT !.met = @ \cup (call[d].touches \cap T)]
  BY DEF Av!Enters
<1>2. \A d \in Threads : call[d] \in Av!Calls BY DEF Av!TypeOK
<1>3. ASSUME NEW d \in Threads \ {c}
      PROVE  /\ same_call(d) /\ call'[d].met = call[d].met \cup (call[d].touches \cap T)
             /\ call[d] = Av!Idle => call'[d] = Av!Idle
  <2>1. call[d] \in Av!Calls /\ call'[d] = [call[d] EXCEPT !.met = @ \cup (call[d].touches \cap T)]
    BY <1>1, <1>2
  <2>2. same_call(d) /\ call'[d].met = call[d].met \cup (call[d].touches \cap T)
    BY <2>1 DEF same_call, Av!Calls
  <2>3. ASSUME call[d] = Av!Idle PROVE call'[d] = Av!Idle
    <3>1. call'[d] = [Av!Idle EXCEPT !.met = {}] BY <2>1, <2>3 DEF Av!Idle
    <3> QED BY <3>1 DEF Av!Idle
  <2> QED BY <2>2, <2>3
<1>4. call[c] = Av!Idle /\ Av!Idle.touches = {} /\ Av!Idle.met = {} /\ Av!Idle.op = "none" /\ Av!Idle.at = "write"
  BY DEF CallsInv, Av!Idle
<1>5. \A d \in Threads \ {c} : call[d].touches \cap T \subseteq Av!met_by(c, T)
  BY <1>3 DEF Av!met_by
<1>6. Av!met_by(c, T) \subseteq T BY DEF Av!met_by
<1>7. ASSUME NEW d \in Threads \ {c}
      PROVE  /\ Av!idle(d)' => call'[d] = Av!Idle
             /\ ~Av!idle(d)' => call'[d].t \in call'[d].touches
             /\ call'[d].op \in {"bypass", "restart"} \/ call'[d].at \in {"restart", "cleared"} =>
                  call'[d].touches = Av!Types
             /\ call'[d].op # "restart" /\ call'[d].at \in {"restart", "cleared"} => call'[d].met = Av!Types
             /\ call'[d].op = "restart" => call'[d].at \in {"restart", "cleared"}
             /\ call'[d].met \subseteq call'[d].touches
             /\ call'[d].met \subseteq astray'
             /\ \A e \in Threads \ {d} : call'[d].touches \cap call'[e].touches \subseteq call'[d].met
  <2>0. call[d] \in Av!Calls BY <1>2
  <2>1. /\ Av!idle(d)' => call'[d] = Av!Idle
        /\ ~Av!idle(d)' => call'[d].t \in call'[d].touches
    <3>1. ASSUME Av!idle(d)' PROVE call'[d] = Av!Idle
      <4>1. Av!idle(d) BY <1>3, <3>1 DEF Av!idle, same_call
      <4>2. call[d] = Av!Idle BY <4>1 DEF CallsInv
      <4> QED BY <1>3, <4>2
    <3>2. ASSUME ~Av!idle(d)' PROVE call'[d].t \in call'[d].touches
      <4>1. ~Av!idle(d) BY <1>3, <3>2 DEF Av!idle, same_call
      <4> QED BY <1>3, <4>1 DEF CallsInv, same_call
    <3> QED BY <3>1, <3>2
  <2>2. /\ call'[d].op \in {"bypass", "restart"} \/ call'[d].at \in {"restart", "cleared"} =>
             call'[d].touches = Av!Types
        /\ call'[d].op # "restart" /\ call'[d].at \in {"restart", "cleared"} => call'[d].met = Av!Types
        /\ call'[d].op = "restart" => call'[d].at \in {"restart", "cleared"}
    <3>1. /\ call[d].op \in {"bypass", "restart"} \/ call[d].at \in {"restart", "cleared"} =>
               call[d].touches = Av!Types
          /\ call[d].op # "restart" /\ call[d].at \in {"restart", "cleared"} => call[d].met = Av!Types
          /\ call[d].op = "restart" => call[d].at \in {"restart", "cleared"}
          /\ call[d].met \subseteq call[d].touches
      BY DEF CallsInv
    <3>2. call[d].touches \in SUBSET Av!Types BY <2>0 DEF Av!Calls
    <3>3. call[d].met = Av!Types => call'[d].met = Av!Types BY <1>3, <3>1, <3>2
    <3> QED BY <1>3, <3>1, <3>3 DEF same_call
  <2>3. /\ call'[d].met \subseteq call'[d].touches /\ call'[d].met \subseteq astray'
    BY <1>3, <1>5 DEF CallsInv, same_call
  <2>4. ASSUME NEW e \in Threads \ {d}
        PROVE  call'[d].touches \cap call'[e].touches \subseteq call'[d].met
    <3>1. CASE e = c
      <4>1. call'[c].touches \subseteq T BY <1>1, <1>4 DEF begun
      <4> QED BY <1>3, <3>1, <4>1 DEF same_call
    <3>2. CASE e # c BY <1>3, <3>2 DEF CallsInv, same_call
    <3> QED BY <3>1, <3>2
  <2> QED BY <2>1, <2>2, <2>3, <2>4
<1>8. /\ Av!idle(c)' => call'[c] = Av!Idle
      /\ ~Av!idle(c)' => call'[c].t \in call'[c].touches
      /\ call'[c].op \in {"bypass", "restart"} \/ call'[c].at \in {"restart", "cleared"} =>
           call'[c].touches = Av!Types
      /\ call'[c].op # "restart" /\ call'[c].at \in {"restart", "cleared"} => call'[c].met = Av!Types
      /\ call'[c].op = "restart" => call'[c].at \in {"restart", "cleared"}
      /\ call'[c].met \subseteq call'[c].touches
      /\ call'[c].met \subseteq astray'
      /\ \A e \in Threads \ {c} : call'[c].touches \cap call'[e].touches \subseteq call'[c].met
  <2>1. CASE r = Av!Idle BY <1>1, <1>4, <2>1 DEF Av!idle
  <2>2. CASE begun(r, T) /\ r.met = Av!met_by(c, T)
    <3>1. \A e \in Threads \ {c} : T \cap call'[e].touches \subseteq Av!met_by(c, T)
      BY <1>3, <1>5 DEF same_call
    <3> QED BY <1>1, <1>6, <2>2, <3>1 DEF begun, Av!idle
  <2> QED BY <2>1, <2>2
<1> QED BY <1>1, <1>3, <1>7, <1>8 DEF CallsInv

(* A call that goes on touches what it touched.                              *)
LEMMA CallsGoOn ==
  ASSUME Av!TypeOK, CallsInv, NEW c \in Threads, ~Av!idle(c), NEW r, call' = [call EXCEPT ![c] = r],
         \/ r = Av!Idle
         \/ /\ r.op = call[c].op /\ r.t = call[c].t /\ r.touches = call[c].touches
            /\ r.met = call[c].met
            /\ r.at \in {"restart", "cleared"} => call[c].at \in {"restart", "cleared"}
            /\ r.op = "restart" => r.at \in {"restart", "cleared"},
         \A t \in astray : t \in astray' \/ mine(c, t)
  PROVE  /\ CallsInv' /\ call'[c] = r
         /\ \A d \in Threads \ {c} : same_call(d) /\ call[d].touches \cap call[c].touches \subseteq call'[d].met
<1>1. call'[c] = r /\ \A d \in Threads \ {c} : call'[d] = call[d] BY DEF Av!TypeOK
<1>2. \A d \in Threads \ {c} : same_call(d) /\ call[d].touches \cap call[c].touches \subseteq call'[d].met
  BY <1>1 DEF same_call, CallsInv
<1>3. Av!Idle.touches = {} /\ Av!Idle.met = {} /\ Av!Idle.op = "none" /\ Av!Idle.at = "write" BY DEF Av!Idle
<1>4. call'[c].touches \subseteq call[c].touches /\ call'[c].met \subseteq call[c].met BY <1>1, <1>3
<1>5. ASSUME NEW d \in Threads
      PROVE  /\ Av!idle(d)' => call'[d] = Av!Idle
             /\ ~Av!idle(d)' => call'[d].t \in call'[d].touches
             /\ call'[d].op \in {"bypass", "restart"} \/ call'[d].at \in {"restart", "cleared"} =>
                  call'[d].touches = Av!Types
             /\ call'[d].op # "restart" /\ call'[d].at \in {"restart", "cleared"} => call'[d].met = Av!Types
             /\ call'[d].op = "restart" => call'[d].at \in {"restart", "cleared"}
             /\ call'[d].met \subseteq call'[d].touches
             /\ call'[d].met \subseteq astray'
  <2>1. call'[d].met \subseteq astray'
    <3>1. SUFFICES ASSUME NEW t \in call'[d].met PROVE t \in astray'
      OBVIOUS
    <3>2. t \in call[d].met /\ t \in call[d].touches /\ t \in astray BY <1>1, <1>4, <3>1 DEF CallsInv
    <3>3. ~mine(c, t)
      <4>1. CASE d = c BY <3>2, <4>1 DEF mine
      <4>2. CASE d # c BY <3>2, <4>2 DEF mine, CallsInv
      <4> QED BY <4>1, <4>2
    <3> QED BY <3>2, <3>3
  <2>2. CASE d # c BY <1>1, <2>1, <2>2 DEF CallsInv, Av!idle
  <2>3. CASE d = c /\ r = Av!Idle BY <1>1, <1>3, <2>1, <2>3 DEF Av!idle
  <2>4. CASE d = c /\ r # Av!Idle BY <1>1, <2>1, <2>4 DEF CallsInv, Av!idle
  <2> QED BY <2>2, <2>3, <2>4
<1>6. ASSUME NEW d \in Threads, NEW e \in Threads \ {d}
      PROVE  call'[d].touches \cap call'[e].touches \subseteq call'[d].met
  <2>1. CASE d = c
    <3>1. CASE r = Av!Idle BY <1>1, <1>3, <2>1, <3>1
    <3>2. CASE r # Av!Idle BY <1>1, <2>1, <3>2 DEF CallsInv
    <3> QED BY <3>1, <3>2
  <2>2. CASE d # c BY <1>1, <1>4, <2>2 DEF CallsInv
  <2> QED BY <2>1, <2>2
<1> QED BY <1>1, <1>2, <1>5, <1>6 DEF CallsInv

(* Every step keeps the types of the variables.                              *)
LEMMA TypeKept ==
  ASSUME Av!ConfigAssumption, Av!PidsAssumption, Av!TypeOK, StepsInv, [Av!Next]_decoderVars
  PROVE  Av!TypeOK'
<1>1. \A d \in Threads : call[d] \in Av!Calls BY DEF Av!TypeOK
<1>2. Av!Idle \in Av!Calls BY CommandsTyped DEF Av!Idle, Av!Calls, Commands, Pid, Av!Types
<1>3. ASSUME NEW c \in Threads, NEW T \in SUBSET Av!Types, NEW r \in Av!Calls, Av!Enters(c, T, r)
      PROVE  call' \in [Threads -> Av!Calls]
  <2>1. SUFFICES ASSUME NEW d \in Threads, d # c
                 PROVE  [call[d] EXCEPT !.met = @ \cup (call[d].touches \cap T)] \in Av!Calls
    BY <1>3 DEF Av!Enters
  <2> QED BY <1>1 DEF Av!Calls
<1>4. ASSUME NEW c \in Threads, NEW r \in Av!Calls, call' = [call EXCEPT ![c] = r]
      PROVE  call' \in [Threads -> Av!Calls]
  BY <1>4 DEF Av!TypeOK
<1>5. ASSUME NEW r \in Av!Calls, NEW t \in Av!Types, NEW to \in Av!States, NEW p \in Pid
      PROVE  Av!setting(r, t, to, p) \in Av!Calls
  <2>1. Av!first_command(t, to, p) \in Commands BY CommandsTyped, Kinds, <1>5 DEF Av!States
  <2>2. Av!first_step(t, to) \in {"select", "abort", "last"} BY DEF Av!first_step
  <2>3. Av!sets_all(t, to) \in BOOLEAN BY DEF Av!sets_all
  <2> HIDE DEF Av!first_step
  <2> QED BY <2>1, <2>2, <2>3 DEF Av!setting, Av!Calls, Commands, Pid, Av!States
<1>6. ASSUME NEW op \in {"ioctl", "start", "stop", "watch", "bypass", "restart"}, NEW t \in Av!Types,
             NEW to \in Av!States \cup {"none", "on", "off"}, NEW T \in SUBSET Av!Types,
             NEW m \in SUBSET Av!Types, NEW begins \in {"write", "restart"}, NEW cmd \in Commands
      PROVE  /\ Av!Started(op, t, to, T) \in Av!Calls
             /\ [Av!Started(op, t, to, T) EXCEPT !.met = m] \in Av!Calls
             /\ [Av!Started(op, t, to, T) EXCEPT !.cmd = cmd, !.met = m] \in Av!Calls
             /\ [Av!Started(op, t, to, T) EXCEPT !.at = begins, !.met = m] \in Av!Calls
  BY CommandsTyped DEF Av!Started, Av!Idle, Av!Calls, Commands, Pid
<1>7. \A c \in Threads, T \in SUBSET Av!Types : Av!met_by(c, T) \in SUBSET Av!Types BY DEF Av!met_by
<1>8. \A t \in Av!Types, to \in Av!States : Av!touched(t, to) \in SUBSET Av!Types BY DEF Av!touched
<1>9. ASSUME NEW c \in Threads, NEW op \in {"ioctl", "stop"}, NEW t \in Av!Types, NEW to \in Av!States, NEW goes,
             Av!SetPlayState(c, op, t, to, goes)
      PROVE  call' \in [Threads -> Av!Calls] /\ want' \in [Av!Types -> Av!States] /\ have' \in [Av!Types -> BOOLEAN]
             /\ astray' \subseteq Av!Types
  <2>1. astray' \subseteq Av!Types BY <1>7, <1>8, <1>9 DEF Av!SetPlayState, Av!Upset, Av!TypeOK
  <2>2. want' \in [Av!Types -> Av!States] BY <1>9 DEF Av!SetPlayState, Av!Noted, Av!TypeOK
  <2>3. have' \in [Av!Types -> BOOLEAN]
    <3>1. have' = have \/ have' = [have EXCEPT ![t] = TRUE] \/ have' = [have EXCEPT ![t] = FALSE]
      BY <1>9 DEF Av!SetPlayState, Av!Noted
    <3> QED BY <3>1, ZenonT(20) DEF Av!TypeOK
  <2>4. call' \in [Threads -> Av!Calls]
    <3>1. CASE Av!refuses(t, to) \/ ~goes BY <1>2, <1>3, <1>9, <3>1 DEF Av!SetPlayState
    <3>2. CASE ~(Av!refuses(t, to) \/ ~goes)
      <4> DEFINE T == Av!touched(t, to)
                 r == Av!setting([Av!Started(op, t, to, T) EXCEPT !.met = Av!met_by(c, T)], t, to, pid[t])
      <4>1. pid[t] \in Pid BY DEF Av!TypeOK, Pid
      <4>2. T \in SUBSET Av!Types /\ Av!met_by(c, T) \in SUBSET Av!Types BY <1>7, <1>8
      <4>3. [Av!Started(op, t, to, T) EXCEPT !.met = Av!met_by(c, T)] \in Av!Calls
        BY <1>6, <4>2, CommandsTyped DEF Av!States
      <4>4. r \in Av!Calls BY <1>5, <4>1, <4>3
      <4>5. Av!Enters(c, T, r) BY <1>9, <3>2 DEF Av!SetPlayState
      <4> QED BY <1>3, <4>2, <4>4, <4>5
    <3> QED BY <3>1, <3>2
  <2> QED BY <2>1, <2>2, <2>3, <2>4
<1>10. Av!TypeOK /\ UNCHANGED <<source, play, pid, bypass, changed, selected, feed, switched>> =>
         /\ source' \in [Av!Types -> {"demux", "memory"}] /\ play' \in [Av!Types -> Av!States]
         /\ pid' \in [Av!Types -> AvPids \cup {Av!NoPid}] /\ bypass' \in BOOLEAN /\ changed' \in BOOLEAN
         /\ selected' \in [Av!Streams -> AvPids \cup {Av!NoPid}]
         /\ feed' \in [Av!Types -> AvPids \cup {Av!NoPid}] /\ switched' \in BOOLEAN
  BY DEF Av!TypeOK
<1>11. ASSUME NEW c \in Threads, NEW t \in Av!Types,
              Av!Stop(c, t) \/ Av!PlayIoctl(c, t) \/ Av!Pause(c, t) \/ Av!Continue(c, t)
       PROVE  Av!TypeOK'
  <2>1. /\ UNCHANGED <<source, play, pid, bypass, changed, selected, feed, switched>>
        /\ \E to \in Av!States, goes \in BOOLEAN : Av!SetPlayState(c, "ioctl", t, to, goes)
    BY <1>11 DEF Av!Stop, Av!PlayIoctl, Av!Pause, Av!Continue, Av!States
  <2>2. PICK to \in Av!States, goes \in BOOLEAN : Av!SetPlayState(c, "ioctl", t, to, goes) BY <2>1
  <2>3. call' \in [Threads -> Av!Calls] /\ want' \in [Av!Types -> Av!States] /\ have' \in [Av!Types -> BOOLEAN]
        /\ astray' \subseteq Av!Types
    BY <1>9, <2>2
  <2> QED BY <1>10, <2>1, <2>3 DEF Av!TypeOK
<1>12. ASSUME NEW c \in Threads, NEW t \in Av!Types, Av!avia_av_napi_decoder_stop(c, t) PROVE Av!TypeOK'
  <2>1. /\ UNCHANGED <<source, play, pid, bypass, changed, selected, switched>>
        /\ Av!SetPlayState(c, "stop", t, "stopped", TRUE) /\ feed' = [feed EXCEPT ![t] = Av!NoPid]
    BY <1>12 DEF Av!avia_av_napi_decoder_stop
  <2>2. call' \in [Threads -> Av!Calls] /\ want' \in [Av!Types -> Av!States] /\ have' \in [Av!Types -> BOOLEAN]
        /\ astray' \subseteq Av!Types
    BY <1>9, <2>1 DEF Av!States
  <2>3. /\ source' \in [Av!Types -> {"demux", "memory"}] /\ play' \in [Av!Types -> Av!States]
        /\ pid' \in [Av!Types -> AvPids \cup {Av!NoPid}] /\ bypass' \in BOOLEAN /\ changed' \in BOOLEAN
        /\ selected' \in [Av!Streams -> AvPids \cup {Av!NoPid}]
        /\ feed' \in [Av!Types -> AvPids \cup {Av!NoPid}] /\ switched' \in BOOLEAN
    BY <2>1 DEF Av!TypeOK
  <2> QED BY <2>2, <2>3 DEF Av!TypeOK
<1>13. ASSUME NEW c \in Threads, NEW t \in Av!Types, NEW p \in AvPids, Av!avia_av_napi_decoder_start(c, t, p)
       PROVE  Av!TypeOK'
  <2> DEFINE T == Av!touched(t, "playing")
             r == [Av!Started("start", t, "none", T) EXCEPT !.met = Av!met_by(c, T)]
  <2>0. T \in SUBSET Av!Types /\ Av!met_by(c, T) \in SUBSET Av!Types BY <1>7, <1>8 DEF Av!States
  <2>1. r \in Av!Calls BY <1>6, <2>0, CommandsTyped
  <2>2. Av!setting(r, t, "playing", p) \in Av!Calls BY <1>5, <2>1 DEF Av!States, Pid
  <2>3. [r EXCEPT !.step = "type"] \in Av!Calls BY <2>1 DEF Av!Calls
  <2> HIDE DEF T
  <2>4. /\ call' \in [Threads -> Av!Calls] /\ want' = want
        /\ have' = have \/ have' = [have EXCEPT ![t] = TRUE]
        /\ astray' \subseteq Av!Types
    <3>1. CASE play = Av!Both("stopped") /\ Av!Enters(c, T, [r EXCEPT !.step = "type"]) /\ UNCHANGED <<want, have>>
               /\ Av!Upset(Av!met_by(c, T))
      BY <1>3, <2>0, <2>3, <3>1 DEF Av!Upset, Av!TypeOK
    <3>2. CASE want[t] = "playing" /\ ~Av!refuses(t, "playing") /\ Av!Enters(c, T, Av!setting(r, t, "playing", p))
               /\ UNCHANGED <<want, have>> /\ Av!Upset(Av!met_by(c, T) \cup {u \in {t} : play[t] # "stopped"})
      <4> HIDE DEF r
      <4> QED BY <1>3, <2>0, <2>2, <3>2 DEF Av!Upset, Av!TypeOK
    <3>3. CASE Av!Enters(c, {t}, Av!Idle) /\ Av!Noted("start", t, "none")
               /\ Av!Upset(Av!met_by(c, {t}) \cup {u \in {t} : play[t] # "stopped"})
      BY <1>2, <1>3, <1>7, <3>3 DEF Av!Upset, Av!TypeOK, Av!Noted
    <3> QED BY <1>13, <3>1, <3>2, <3>3 DEF Av!avia_av_napi_decoder_start, T
  <2>5. /\ want' \in [Av!Types -> Av!States] /\ have' \in [Av!Types -> BOOLEAN]
    BY <2>4, ZenonT(20) DEF Av!TypeOK
  <2>6. /\ source' \in [Av!Types -> {"demux", "memory"}] /\ play' \in [Av!Types -> Av!States]
        /\ pid' \in [Av!Types -> AvPids \cup {Av!NoPid}] /\ bypass' \in BOOLEAN /\ changed' \in BOOLEAN
        /\ selected' \in [Av!Streams -> AvPids \cup {Av!NoPid}]
        /\ feed' \in [Av!Types -> AvPids \cup {Av!NoPid}] /\ switched' \in BOOLEAN
    BY <1>13 DEF Av!TypeOK, Av!avia_av_napi_decoder_start
  <2> QED BY <2>4, <2>5, <2>6 DEF Av!TypeOK
<1>14. ASSUME NEW c \in Threads, NEW enable \in BOOLEAN, Av!SetBypass(c, enable) PROVE Av!TypeOK'
  <2> DEFINE to == IF enable THEN "on" ELSE "off"
             cmd == IF Avia500 THEN Av!Abort ELSE Av!Untouched
  <2>1. to \in Av!States \cup {"none", "on", "off"} /\ cmd \in Commands BY CommandsTyped
  <2>2. Av!Enters(c, Av!Types, [Av!Started("bypass", "audio", to, Av!Types) EXCEPT !.cmd = cmd, !.met = Av!met_by(c, Av!Types)])
    BY <1>14 DEF Av!SetBypass
  <2> HIDE DEF to, cmd
  <2>4. Av!met_by(c, Av!Types) \in SUBSET Av!Types /\ "audio" \in Av!Types BY <1>7, Kinds
  <2>5. [Av!Started("bypass", "audio", to, Av!Types) EXCEPT !.cmd = cmd, !.met = Av!met_by(c, Av!Types)] \in Av!Calls
    BY <1>6, <2>1, <2>4
  <2>6. call' \in [Threads -> Av!Calls] BY <1>3, <2>2, <2>5
  <2>3. astray' \subseteq Av!Types BY <1>7, <1>14 DEF Av!SetBypass, Av!Upset, Av!TypeOK
  <2> QED BY <1>14, <2>6, <2>3 DEF Av!SetBypass, Av!TypeOK
<1>15. ASSUME NEW t \in Av!Types, Av!Watch(t) PROVE Av!TypeOK'
  <2>1. Av!SelectStream(Av!Stream(t), pid[t]) \in Commands BY CommandsTyped, Kinds DEF Av!TypeOK, Pid
  <2>2. [Av!Started("watch", t, "none", {t})
           EXCEPT !.cmd = Av!SelectStream(Av!Stream(t), pid[t]), !.met = Av!met_by(Watchdog, {t})] \in Av!Calls
    <3>1. Av!met_by(Watchdog, {t}) \in SUBSET Av!Types /\ {t} \in SUBSET Av!Types
      BY <1>7 DEF Av!ConfigAssumption
    <3> QED BY <1>6, <2>1, <3>1
  <2>3. call' \in [Threads -> Av!Calls] BY <1>3, <1>15, <2>2 DEF Av!Watch, Av!ConfigAssumption
  <2>4. astray' \subseteq Av!Types BY <1>7, <1>15 DEF Av!Watch, Av!Upset, Av!TypeOK, Av!ConfigAssumption
  <2> QED BY <1>15, <2>3, <2>4 DEF Av!Watch, Av!TypeOK
<1>16. ASSUME NEW c \in Threads, Av!avia_av_standby(c) PROVE Av!TypeOK'
  <2>1. [Av!Started("restart", "audio", "none", Av!Types) EXCEPT !.at = "restart", !.met = Av!met_by(c, Av!Types)] \in Av!Calls
    BY <1>6, <1>7, CommandsTyped, Kinds
  <2>2. call' \in [Threads -> Av!Calls] BY <1>3, <1>16, <2>1 DEF Av!avia_av_standby
  <2>3. astray' \subseteq Av!Types BY <1>7, <1>16 DEF Av!avia_av_standby, Av!Upset, Av!TypeOK
  <2> QED BY <1>16, <2>2, <2>3 DEF Av!avia_av_standby, Av!TypeOK
<1>17. ASSUME NEW t \in Av!Types, NEW src \in {"demux", "memory"}, Av!SelectSource(t, src) PROVE Av!TypeOK'
  BY <1>17 DEF Av!SelectSource, Av!TypeOK
<1>18. ASSUME NEW c \in Threads, Av!WriteCommand(c) PROVE Av!TypeOK'
  <2>1. selected' \in [Av!Streams -> Pid]
    BY <1>1, <1>18, CommandsTyped DEF Av!WriteCommand, Av!Calls, Commands, Pid
  <2>2. call' \in [Threads -> Av!Calls]
    <3>1. [call[c] EXCEPT !.at = "accept", !.cmd = Av!Untouched] \in Av!Calls
      BY <1>1, CommandsTyped DEF Av!Calls, Commands, Pid
    <3>2. call' = [call EXCEPT ![c] = [call[c] EXCEPT !.at = "accept", !.cmd = Av!Untouched]]
      BY <1>18 DEF Av!WriteCommand
    <3> QED BY <1>4, <3>1, <3>2
  <2> QED BY <1>18, <2>1, <2>2 DEF Av!WriteCommand, Av!TypeOK, Pid
<1>19. ASSUME NEW c \in Threads, Av!NextCommand(c) PROVE Av!TypeOK'
  <2> DEFINE step == Av!next_step(call[c].step)
  <2>1. step \in {"video", "anew", "play", "last"}
    <3>1. step # "none" BY <1>19 DEF Av!NextCommand
    <3> QED BY <3>1 DEF Av!next_step
  <2>2. Av!next_command(step) \in Commands
    <3>1. Av!Stream("audio") \in Av!Streams /\ 0 \in Av!Streams /\ Av!NoPid \in Pid /\ pid["audio"] \in Pid
      BY Kinds DEF Av!TypeOK, Pid
    <3> QED BY <2>1, <3>1, CommandsTyped DEF Av!next_command
  <2>3. call' = [call EXCEPT ![c] = [call[c] EXCEPT !.step = step, !.at = "write", !.cmd = Av!next_command(step)]]
    BY <1>19 DEF Av!NextCommand
  <2> HIDE DEF step
  <2>4. [call[c] EXCEPT !.step = step, !.at = "write", !.cmd = Av!next_command(step)] \in Av!Calls
    BY <1>1, <2>1, <2>2 DEF Av!Calls, Commands, Pid
  <2>5. call' \in [Threads -> Av!Calls] BY <1>4, <2>3, <2>4
  <2>6. astray' \subseteq Av!Types BY <1>19, Kinds DEF Av!NextCommand, Av!Upset, Av!TypeOK
  <2> QED BY <1>19, <2>5, <2>6 DEF Av!NextCommand, Av!TypeOK
<1>20. ASSUME NEW c \in Threads, Av!AfterType(c) PROVE Av!TypeOK'
  <2> DEFINE r == call[c]
  <2>0. r \in Av!Calls /\ r.t \in Av!Types BY <1>1 DEF Av!Calls
  <2>1. Av!setting(r, r.t, "playing", pid[r.t]) \in Av!Calls BY <1>5, <2>0 DEF Av!States, Pid, Av!TypeOK
  <2>2. call' \in [Threads -> Av!Calls] BY <1>2, <1>4, <1>20, <2>1 DEF Av!AfterType
  <2>3. want' = want /\ (have' = have \/ have' = [have EXCEPT ![r.t] = TRUE])
    BY <1>20 DEF Av!AfterType, Av!Noted
  <2>4. have' \in [Av!Types -> BOOLEAN] BY <2>3, ZenonT(20) DEF Av!TypeOK
  <2> QED BY <1>20, <2>2, <2>3, <2>4 DEF Av!AfterType, Av!TypeOK
<1>21. ASSUME NEW c \in Threads, Av!Finish(c) PROVE Av!TypeOK'
  <2>1. call[c].t \in Av!Types /\ call[c].to \in Av!States \cup {"none", "on", "off"} BY <1>1 DEF Av!Calls
  <2>2. call' \in [Threads -> Av!Calls] BY <1>2, <1>4, <1>21 DEF Av!Finish
  <2>3. /\ have' = have \/ have' = [have EXCEPT ![call[c].t] = TRUE] \/ have' = [have EXCEPT ![call[c].t] = FALSE]
    BY <1>21 DEF Av!Finish, Av!Noted
  <2>4. have' \in [Av!Types -> BOOLEAN] BY <2>3, ZenonT(20) DEF Av!TypeOK
  <2>5. call[c].op # "bypass" => call[c].to \in Av!States \cup {"none"}
    BY DEF StepsInv, stepped
  <2>6. play' \in [Av!Types -> Av!States] /\ want' \in [Av!Types -> Av!States]
    BY <1>21, <2>1, <2>5 DEF Av!Finish, Av!Noted, Av!TypeOK, StepsInv, stepped
  <2> QED BY <1>21, <2>2, <2>4, <2>6 DEF Av!Finish, Av!TypeOK
<1>22. ASSUME NEW c \in Threads, Av!FinishBypass(c) PROVE Av!TypeOK'
  <2>1. call' \in [Threads -> Av!Calls] BY <1>2, <1>4, <1>22 DEF Av!FinishBypass
  <2>2. bypass' \in BOOLEAN /\ switched' \in BOOLEAN BY <1>22 DEF Av!FinishBypass, Av!TypeOK
  <2> QED BY <1>22, <2>1, <2>2 DEF Av!FinishBypass, Av!TypeOK
<1>23. ASSUME NEW c \in Threads, Av!TimesOut(c) PROVE Av!TypeOK'
  <2>1. call' \in [Threads -> Av!Calls]
    <3>1. SUFFICES ASSUME NEW d \in Threads
                   PROVE  (IF d = c THEN [call[d] EXCEPT !.at = "restart", !.touches = Av!Types, !.met = Av!Types]
                           ELSE [call[d] EXCEPT !.met = @ \cup call[d].touches]) \in Av!Calls
      BY <1>23 DEF Av!TimesOut
    <3> QED BY <1>1 DEF Av!Calls
  <2>2. astray' \subseteq Av!Types BY <1>23 DEF Av!TimesOut, Av!Upset, Av!TypeOK
  <2> QED BY <1>23, <2>1, <2>2 DEF Av!TimesOut, Av!TypeOK
<1>24. ASSUME NEW c \in Threads, Av!ClearStreams(c) PROVE Av!TypeOK'
  <2>1. call' \in [Threads -> Av!Calls]
    <3>1. [call[c] EXCEPT !.at = "cleared"] \in Av!Calls BY <1>1 DEF Av!Calls
    <3>2. call' = [call EXCEPT ![c] = [call[c] EXCEPT !.at = "cleared"]] BY <1>24 DEF Av!ClearStreams
    <3> QED BY <1>4, <3>1, <3>2
  <2> QED BY <1>24, <2>1 DEF Av!ClearStreams, Av!TypeOK
<1>25. ASSUME NEW c \in Threads, Av!Restarted(c) PROVE Av!TypeOK'
  <2>1. call' \in [Threads -> Av!Calls]
    <3>1. [call[c] EXCEPT !.at = "accept"] \in Av!Calls BY <1>1 DEF Av!Calls
    <3>2. \/ call' = [call EXCEPT ![c] = Av!Idle]
          \/ call' = [call EXCEPT ![c] = [call[c] EXCEPT !.at = "accept"]]
      BY <1>25 DEF Av!Restarted
    <3> QED BY <1>2, <1>4, <3>1, <3>2
  <2>2. play' \in [Av!Types -> Av!States] BY <1>25 DEF Av!Restarted, Av!Both, Av!States
  <2>3. switched' \in BOOLEAN BY <1>25 DEF Av!Restarted, Av!TypeOK
  <2>4. astray' \subseteq Av!Types BY <1>25 DEF Av!Restarted, Av!TypeOK
  <2> QED BY <1>25, <2>1, <2>2, <2>3, <2>4 DEF Av!Restarted, Av!TypeOK
<1>26. CASE UNCHANGED decoderVars BY <1>26 DEF decoderVars, Av!TypeOK
<1> QED BY <1>11, <1>12, <1>13, <1>14, <1>15, <1>16, <1>17, <1>18, <1>19, <1>20, <1>21, <1>22, <1>23, <1>24,
           <1>25, <1>26 DEF Av!Next

(* A call that begins keeps the invariant if it deals with what was quiet.   *)
LEMMA EnterKeeps ==
  ASSUME DecoderInv, Av!TypeOK', NEW c \in Threads, Av!idle(c), NEW T \in SUBSET Av!Types,
         NEW r, r = Av!Idle \/ (begun(r, T) /\ r.met = Av!met_by(c, T)), Av!Enters(c, T, r),
         astray \cup Av!met_by(c, T) \subseteq astray', astray' \subseteq astray \cup T,
         UNCHANGED <<play, bypass, changed, switched>>,
         selected' = selected \/ (T = Av!Types /\ selected' = [s \in Av!Streams |-> Av!NoPid]),
         \A t \in Av!Types \ T : want'[t] = want[t] /\ feed'[t] = feed[t] /\ pid'[t] = pid[t],
         FeedsInv', stepped(c)',
         ~switched => writes_own(c)',
         \A t \in T : ~switched /\ Av!quiet(t) =>
           IF r = Av!Idle THEN t \notin astray' => kept(t, now(t))' ELSE dealt(c, t)'
  PROVE  DecoderInv'
<1>1. /\ CallsInv' /\ call'[c] = r
      /\ \A d \in Threads \ {c} : same_call(d) /\ call[d].touches \cap T \subseteq call'[d].met
  BY CallsEnter DEF DecoderInv
<1>2. call[c] = Av!Idle /\ call[c].touches = {} /\ Av!Idle.touches = {} /\ Av!Idle.op = "none" /\ Av!Idle.met = {}
  <2>1. call[c] = Av!Idle BY DEF DecoderInv, CallsInv
  <2> QED BY <2>1 DEF Av!Idle
<1>3. call'[c].touches \subseteq T BY <1>1, <1>2 DEF begun
<1>4. StepsInv'
  <2>1. ASSUME NEW d \in Threads PROVE stepped(d)'
    <3>1. CASE d = c BY <3>1
    <3>2. CASE d # c BY <1>1, <3>2 DEF DecoderInv, StepsInv, stepped, same_call, Av!may_play_again
    <3> QED BY <3>1, <3>2
  <2> QED BY <2>1 DEF StepsInv
<1>5. ClearedInv'
  <2>1. SUFFICES ASSUME NEW d \in Threads, call'[d].op = "restart", call'[d].at = "cleared", call'[d].met = {}
                 PROVE  selected' = [s \in Av!Streams |-> Av!NoPid]
    BY DEF ClearedInv
  <2>2. d # c BY <1>1, <1>2, <2>1 DEF begun
  <2>3. call[d].op = "restart" /\ call[d].at = "cleared" /\ call[d].met = {}
    BY <1>1, <2>1, <2>2 DEF same_call
  <2>4. selected = [s \in Av!Streams |-> Av!NoPid] BY <2>3 DEF DecoderInv, ClearedInv
  <2> QED BY <2>4
<1>6. StreamsInv'
  <2>1. SUFFICES ASSUME ~switched, ~switched' PROVE StreamsInv'
    BY DEF StreamsInv
  <2>2. \A t \in Av!Types \ T : same_type(t)
    <3>1. SUFFICES ASSUME NEW t \in Av!Types \ T PROVE same_type(t)
      OBVIOUS
    <3>2. selected'[Av!Stream(t)] = selected[Av!Stream(t)] BY <3>1
    <3> QED BY <3>1, <3>2 DEF same_type
  <2>3. /\ \A d \in Threads \ {c} : writes_own(d)'
        /\ \A t \in Av!Types \ T : Av!quiet(t)' /\ t \notin astray' => kept(t, now(t))'
        /\ \A d \in Threads \ {c} : \A t \in Av!Types : mine(d, t)' => dealt(d, t)'
    BY <1>1, <1>2, <1>3, <2>1, <2>2, RestKept DEF DecoderInv
  <2>4. selected'[asideStream'] = Av!NoPid
    <3>1. asideStream' = asideStream /\ selected[asideStream] = Av!NoPid
      BY <2>1 DEF DecoderInv, StreamsInv, asideStream
    <3> QED BY <3>1, Kinds
  <2>5. ASSUME NEW t \in T, Av!quiet(t)', t \notin astray' PROVE kept(t, now(t))'
    <3>1. r = Av!Idle \/ t \in r.touches BY DEF begun
    <3>2. r = Av!Idle BY <1>1, <2>5, <3>1 DEF Av!quiet
    <3>3. Av!quiet(t) BY <1>1, <1>2, <2>5 DEF Av!quiet, same_call
    <3> QED BY <2>1, <2>5, <3>2, <3>3
  <2>6. ASSUME NEW t \in Av!Types, mine(c, t)' PROVE dealt(c, t)'
    <3>1. r # Av!Idle /\ t \in T /\ t \notin Av!met_by(c, T)
      BY <1>1, <1>2, <2>6 DEF mine, begun
    <3>2. Av!quiet(t) BY <1>2, <3>1 DEF Av!quiet, Av!met_by
    <3> QED BY <2>1, <3>1, <3>2
  <2> QED BY <2>1, <2>3, <2>4, <2>5, <2>6 DEF StreamsInv
<1> QED BY <1>1, <1>4, <1>5, <1>6 DEF DecoderInv

(* No feed's call is under way where have is to tell whether there is a feed. *)
LEMMA HaveKnown ==
  ASSUME DecoderInv, NEW t \in Av!Types, Av!quiet(t) \/ ~Av!feeding
  PROVE  have[t] <=> feed[t] # Av!NoPid
<1>1. SUFFICES ASSUME NEW c \in Threads, changes_feed(c), call[c].t = t PROVE FALSE
  BY DEF DecoderInv, FeedsInv
<1>2. t \in call[c].touches BY <1>1 DEF DecoderInv, CallsInv, changes_feed, Av!idle
<1> QED BY <1>1, <1>2 DEF Av!quiet, Av!feeding, changes_feed

(* A call that was told what to do is on its way to it.                      *)
LEMMA Dealing ==
  ASSUME Av!PidsAssumption, Av!TypeOK, Av!TypeOK', NEW c \in Threads, NEW t \in Av!Types, NEW to \in Av!States,
         NEW p \in AvPids \cup {Av!NoPid}, NEW op \in {"ioctl", "start", "stop"},
         op = "stop" => to = "stopped", op = "start" => to = "playing",
         call'[c].op = op, call'[c].t = t, call'[c].to = to, call'[c].at = "write",
         call'[c].cmd = Av!first_command(t, to, p), call'[c].whole = Av!sets_all(t, to),
         pid'[t] = p, UNCHANGED <<play, bypass, selected>>, ~Av!refuses(t, to),
         NEW u \in Av!touched(t, to),
         u \in astray' \/ kept(u, now(u))' \/ (u = t /\ Av!sets_all(t, to))
  PROVE  dealt(c, u)'
<1>0. u \in Av!Types /\ p # Av!Same BY DEF Av!touched, Av!PidsAssumption, Av!NoPid, Av!Same
<1>1. Av!Stream(u)' = Av!Stream(u) /\ Av!Stream(t)' = Av!Stream(t) BY DEF Av!Stream, Av!audio_stream
<1>2. ASSUME NEW q \in AvPids \cup {Av!NoPid}, Av!first_command(t, to, p) = Av!SelectStream(Av!Stream(t), q)
      PROVE  soon(c, t)' = q
  BY <1>0, <1>1, <1>2, Kinds DEF soon, Av!SelectStream, Av!PidsAssumption, Av!NoPid, Av!Same
<1>3. CASE u = t
  <2>1. CASE to = "paused"
    <3>1. ~Av!sets_all(t, to) /\ play[t] = "playing" /\ op = "ioctl" BY <2>1 DEF Av!sets_all, Av!refuses
    <3>2. t = "video" => Av!first_command(t, to, p) = Av!Untouched
      BY <2>1 DEF Av!first_command, Av!set_paused
    <3> QED BY <1>3, <2>1, <3>1, <3>2 DEF dealt, halted
  <2>2. CASE to = "stopped"
    <3>1. Av!sets_all(t, to) BY <2>2 DEF Av!sets_all
    <3>2. soon(c, t)' = Av!NoPid
      <4>1. Av!first_command(t, to, p) = Av!set_stopped(t) BY <2>2 DEF Av!first_command
      <4>2. CASE Av!set_stopped(t) = Av!SelectStream(Av!Stream(t), Av!NoPid) BY <1>2, <4>1, <4>2
      <4>3. CASE Av!set_stopped(t) = Av!NewChannel
        BY <1>0, <1>1, <4>1, <4>3, Kinds DEF soon, Av!NewChannel, Av!Same, Av!NoPid
      <4> QED BY <4>2, <4>3 DEF Av!set_stopped
    <3> QED BY <1>3, <2>2, <3>1, <3>2 DEF dealt, told
  <2>3. CASE to = "playing" /\ Av!sets_all(t, to)
    <3>1. Av!first_command(t, to, p) = Av!SelectStream(Av!Stream(t), p)
      BY <2>3 DEF Av!first_command, Av!set_playing, Av!sets_all
    <3>2. soon(c, t)' = pid'[t] BY <1>2, <3>1
    <3> QED BY <1>3, <2>3, <3>2 DEF dealt, told
  <2>4. CASE to = "playing" /\ ~Av!sets_all(t, to)
    <3>1. t = "video" /\ play[t] = "paused"
      BY <2>4 DEF Av!sets_all, Av!refuses, Av!States, Av!Types, Av!TypeOK
    <3>2. Av!first_command(t, to, p) = Av!Untouched BY <2>4, <3>1 DEF Av!first_command, Av!set_playing
    <3>3. op \in {"ioctl", "start"} BY <2>4
    <3> QED BY <1>3, <2>4, <3>1, <3>2, <3>3 DEF dealt, unfrozen
  <2> QED BY <2>1, <2>2, <2>3, <2>4 DEF Av!States
<1>4. CASE u # t
  <2>1. u = Av!Other(t) BY <1>0, <1>4 DEF Av!Other, Av!Types
  <2>2. Av!Stream(u) # Av!Stream(t) /\ Av!Stream(u) \in Av!Streams /\ Av!Stream(t) \in Av!Streams
    BY <1>0, <1>4, Kinds
  <2>3. CASE to = "stopped" /\ Av!is_last(t)
    <3>1. play[u] = "stopped" BY <2>1, <2>3 DEF Av!is_last
    <3>2. CASE kept(u, now(u))'
      <4>1. now(u)' = Av!NoPid BY <3>1, <3>2 DEF kept, noted
      <4>2. soon(c, u)' = now(u)'
        <5>1. Av!first_command(t, to, p) \in {Av!NewChannel, Av!SelectStream(Av!Stream(t), Av!NoPid)}
          BY <2>3 DEF Av!first_command, Av!set_stopped
        <5> QED BY <1>1, <2>2, <4>1, <5>1 DEF soon, Av!NewChannel, Av!SelectStream
      <4> QED BY <1>4, <2>3, <3>1, <3>2, <4>2 DEF dealt, beside
    <3> QED BY <1>4, <3>2 DEF dealt
  <2>4. CASE to = "playing" /\ t = "audio"
    <3>1. Av!first_command(t, to, p) = Av!SelectStream(Av!Stream(t), p)
      BY <2>4 DEF Av!first_command, Av!set_playing
    <3>2. soon(c, u)' = now(u)' BY <1>1, <2>2, <3>1 DEF soon, Av!SelectStream
    <3> QED BY <1>4, <2>1, <2>4, <3>2 DEF dealt, beside, Av!Other
  <2> QED BY <1>4, <2>3, <2>4 DEF Av!touched
<1> QED BY <1>3, <1>4

(* avia_av_play_state_set_*, from an ioctl or the stop of a feed.            *)
LEMMA SetPlayStateKeeps ==
  ASSUME DecoderInv, Av!TypeOK', Av!PidsAssumption, Av!ConfigAssumption,
         NEW c \in Threads, NEW t \in Av!Types, NEW to \in Av!States, NEW op \in {"ioctl", "stop"},
         NEW goes \in BOOLEAN, Av!idle(c), Av!SetPlayState(c, op, t, to, goes),
         UNCHANGED <<play, pid, bypass, changed, selected, switched>>,
         op = "ioctl" => feed' = feed /\ (goes \/ (to = "playing" /\ ~have[t])),
         op = "stop" => feed' = [feed EXCEPT ![t] = Av!NoPid] /\ goes /\ to = "stopped" /\ ~Av!feeding
  PROVE  DecoderInv'
<1> DEFINE T == Av!touched(t, to)
           r == Av!setting([Av!Started(op, t, to, T) EXCEPT !.met = Av!met_by(c, T)], t, to, pid[t])
<1>0. /\ Av!TypeOK /\ T \in SUBSET Av!Types /\ t \in T
      /\ \A u \in Av!Types : pid[u] \in AvPids \cup {Av!NoPid} /\ pid[u] # Av!Same
  BY DEF Av!touched, DecoderInv, Av!TypeOK, Av!PidsAssumption, Av!NoPid, Av!Same
<1>1. CASE Av!refuses(t, to) \/ ~goes
  <2>1. Av!Enters(c, {t}, Av!Idle) /\ Av!Noted(op, t, to) /\ Av!Upset(Av!met_by(c, {t}))
    BY <1>1 DEF Av!SetPlayState
  <2>2. call'[c] = Av!Idle BY <2>1 DEF Av!Enters
  <2>3. FeedsInv'
    <3>1. \A d \in Threads :
            (changes_feed(d)' <=> changes_feed(d)) /\ call'[d].op = call[d].op /\ (d # c => call'[d].t = call[d].t)
      <4>1. call[c].op = "none" /\ call'[c].op = "none" BY <2>2 DEF Av!idle, Av!Idle
      <4>2. ASSUME NEW d \in Threads \ {c} PROVE call'[d].op = call[d].op /\ call'[d].t = call[d].t
        BY <1>0, <2>1 DEF Av!Enters, Av!TypeOK, Av!Calls
      <4> QED BY <4>1, <4>2 DEF changes_feed
    <3>2. CASE op = "ioctl"
      <4>1. UNCHANGED <<feed, have, pid>> BY <2>1, <3>2 DEF Av!Noted
      <4> QED BY <3>1, <4>1 DEF FeedsInv, DecoderInv, changes_feed, Av!idle
    <3>3. CASE op = "stop"
      <4>1. /\ feed' = [feed EXCEPT ![t] = Av!NoPid] /\ have' = [have EXCEPT ![t] = FALSE]
            /\ \A d \in Threads : ~changes_feed(d)
        BY <2>1, <3>3 DEF Av!Noted, Av!feeding, changes_feed
      <4>2. \A u \in Av!Types : have[u] <=> feed[u] # Av!NoPid BY <3>3, HaveKnown
      <4>3. \A u \in Av!Types : have'[u] <=> feed'[u] # Av!NoPid
        <5> SUFFICES ASSUME NEW u \in Av!Types PROVE have'[u] <=> feed'[u] # Av!NoPid
          OBVIOUS
        <5>1. CASE u = t BY <1>0, <4>1, <5>1 DEF Av!TypeOK
        <5>2. CASE u # t
          <6>1. have'[u] = have[u] /\ feed'[u] = feed[u] BY <1>0, <4>1, <5>2 DEF Av!TypeOK
          <6> QED BY <4>2, <6>1
        <5> QED BY <5>1, <5>2
      <4>4. \A u \in Av!Types : feed'[u] # Av!NoPid => pid'[u] = feed'[u]
        BY <1>0, <4>1 DEF DecoderInv, FeedsInv, Av!TypeOK
      <4> QED BY <3>1, <4>1, <4>3, <4>4 DEF FeedsInv, changes_feed
    <3> QED BY <3>2, <3>3
  <2>4. stepped(c)' /\ writes_own(c)'
    BY <2>2 DEF stepped, writes_own, Av!Idle, Av!Untouched, Av!Types, Av!Streams, asideStream
  <2>5. ASSUME ~switched, Av!quiet(t), t \notin astray' PROVE kept(t, now(t))'
    <3>1. kept(t, now(t)) BY <2>1, <2>5 DEF DecoderInv, StreamsInv, Av!Upset
    <3>2. now(t)' = now(t) BY DEF now, Av!Stream, Av!audio_stream
    <3>3. /\ want'[t] = IF op = "ioctl" THEN to ELSE want[t]
          /\ feed'[t] = feed[t] \/ (op = "stop" /\ feed'[t] = Av!NoPid)
      BY <1>0, <2>1 DEF Av!Noted, Av!TypeOK
    <3>4. have[t] <=> feed[t] # Av!NoPid BY <2>5, HaveKnown
    <3>5. op = "ioctl" /\ to = "playing" => play[t] = "playing" \/ feed[t] = Av!NoPid
      BY <1>1, <3>4 DEF Av!refuses
    <3> QED BY <3>1, <3>2, <3>3, <3>5 DEF kept, noted
  <2>6. Av!met_by(c, {t}) \subseteq {t} /\ astray' = astray \cup Av!met_by(c, {t})
    BY <2>1 DEF Av!met_by, Av!Upset
  <2>7. \A u \in Av!Types \ {t} : want'[u] = want[u] /\ feed'[u] = feed[u] /\ pid'[u] = pid[u]
    BY <2>1 DEF Av!Noted, Av!TypeOK, DecoderInv
  <2> QED BY <1>0, <2>1, <2>3, <2>4, <2>5, <2>6, <2>7, EnterKeeps
<1>2. CASE ~(Av!refuses(t, to) \/ ~goes)
  <2>1. Av!Enters(c, T, r) /\ UNCHANGED <<want, have>> /\ Av!Upset(Av!met_by(c, T))
    BY <1>2 DEF Av!SetPlayState
  <2>2. /\ r.op = op /\ r.t = t /\ r.to = to /\ r.touches = T /\ r.met = Av!met_by(c, T)
        /\ r.step = Av!first_step(t, to) /\ r.at = "write" /\ r.cmd = Av!first_command(t, to, pid[t])
        /\ r.whole = Av!sets_all(t, to)
    BY DEF Av!setting, Av!Started, Av!Idle
  <2> HIDE DEF T, r
  <2>3. begun(r, T) /\ r # Av!Idle BY <1>0, <2>2 DEF begun, Av!Idle
  <2>4. /\ call'[c] = r
        /\ \A d \in Threads \ {c} : call'[d].op = call[d].op /\ call'[d].t = call[d].t
    BY <1>0, <2>1 DEF Av!Enters, Av!TypeOK, Av!Calls
  <2>5. Av!met_by(c, T) \subseteq T /\ astray' = astray \cup Av!met_by(c, T) BY <2>1 DEF Av!met_by, Av!Upset
  <2>6. FeedsInv'
    <3>1. CASE op = "ioctl"
      <4>1. \A d \in Threads : ~(d = c /\ changes_feed(d)) BY <3>1 DEF changes_feed, Av!idle
      <4>2. \A d \in Threads : changes_feed(d)' <=> changes_feed(d)
        BY <2>2, <2>4, <3>1 DEF changes_feed, Av!idle
      <4>3. UNCHANGED <<feed, have, pid>> BY <2>1, <3>1
      <4> QED BY <2>2, <2>4, <3>1, <4>1, <4>2, <4>3 DEF FeedsInv, DecoderInv, changes_feed
    <3>2. CASE op = "stop"
      <4>1. \A d \in Threads \ {c} : ~changes_feed(d)' BY <2>4, <3>2 DEF changes_feed, Av!feeding
      <4>2. changes_feed(c)' /\ call'[c].op = "stop" /\ call'[c].t = t BY <2>2, <2>4, <3>2 DEF changes_feed
      <4>3. feed' = [feed EXCEPT ![t] = Av!NoPid] /\ have' = have /\ pid' = pid BY <2>1, <3>2
      <4>4. \A u \in Av!Types : have[u] <=> feed[u] # Av!NoPid BY <3>2, HaveKnown
      <4>5. feed'[t] = Av!NoPid /\ \A u \in Av!Types \ {t} : feed'[u] = feed[u] BY <1>0, <4>3 DEF Av!TypeOK
      <4>6. \A u \in Av!Types : feed[u] # Av!NoPid => pid[u] = feed[u] BY DEF DecoderInv, FeedsInv
      <4>7. ASSUME NEW u \in Av!Types
            PROVE  /\ feed'[u] # Av!NoPid => pid'[u] = feed'[u]
                   /\ \/ have'[u] <=> feed'[u] # Av!NoPid
                      \/ \E d \in Threads : changes_feed(d)' /\ call'[d].t = u
        <5>1. CASE u = t BY <4>2, <4>5, <5>1
        <5>2. CASE u # t BY <4>3, <4>4, <4>5, <4>6, <5>2
        <5> QED BY <5>1, <5>2
      <4> QED BY <4>1, <4>2, <4>5, <4>7 DEF FeedsInv, changes_feed
    <3> QED BY <3>1, <3>2
  <2>7. stepped(c)'
    <3>1. Av!may_play_again' = Av!may_play_again BY DEF Av!may_play_again
    <3>2. /\ Av!first_step(t, to) \in {"select", "abort", "last"}
          /\ Av!first_step(t, to) = "select" => t = "audio" /\ to = "playing"
          /\ Av!first_step(t, to) = "abort" => to = "stopped" /\ Av!is_last(t)
      BY DEF Av!first_step
    <3>3. CASE Av!first_step(t, to) = "select"
      <4>1. Av!may_play_again => T = Av!Types BY <3>2, <3>3 DEF Av!touched, T
      <4>2. op = "ioctl" BY <3>2, <3>3
      <4> QED BY <2>2, <2>4, <3>1, <3>2, <3>3, <4>1, <4>2 DEF stepped
    <3>4. CASE Av!first_step(t, to) = "abort"
      <4>1. T = Av!Types BY <3>2, <3>4 DEF Av!touched, T
      <4> QED BY <2>2, <2>4, <3>1, <3>2, <3>4, <4>1 DEF stepped
    <3>5. CASE Av!first_step(t, to) = "last" BY <2>2, <2>4, <3>5 DEF stepped
    <3> QED BY <3>2, <3>3, <3>4, <3>5
  <2>8. ASSUME ~switched PROVE writes_own(c)'
    <3>1. call'[c].touches = T /\ call'[c].cmd = Av!first_command(t, to, pid[t]) /\ asideStream' = asideStream
      BY <2>2, <2>4 DEF asideStream
    <3> DEFINE cmd == Av!first_command(t, to, pid[t])
    <3>2. CASE cmd = Av!Untouched BY <3>1, <3>2, Kinds DEF writes_own, Av!Untouched
    <3>3. CASE \E p \in Pid : cmd = Av!SelectStream(Av!Stream(t), p)
      BY <1>0, <3>1, <3>3, Kinds DEF writes_own, Av!SelectStream
    <3>4. CASE cmd = Av!NewChannel /\ Av!is_last(t) /\ to = "stopped"
      <4>1. T = Av!Types BY <3>4 DEF Av!touched, T
      <4> QED BY <3>1, <3>4, <4>1, Kinds DEF writes_own, Av!NewChannel
    <3>5. pid[t] \in Pid /\ Av!NoPid \in Pid BY <1>0 DEF Pid
    <3> QED BY <3>2, <3>3, <3>4, <3>5, Kinds
        DEF Av!first_command, Av!set_paused, Av!set_playing, Av!set_stopped, Av!States, Av!Stream
  <2>11. /\ call'[c].op = op /\ call'[c].t = t /\ call'[c].to = to /\ call'[c].at = "write"
         /\ call'[c].cmd = Av!first_command(t, to, pid[t]) /\ call'[c].whole = Av!sets_all(t, to)
    BY <2>2, <2>4
  <2>9. ASSUME NEW u \in T, ~switched, Av!quiet(u) PROVE dealt(c, u)'
    <3>0. u \in Av!Types BY <1>0, <2>9
    <3>1. Av!Stream(u)' = Av!Stream(u) /\ Av!Stream(t)' = Av!Stream(t) BY DEF Av!Stream, Av!audio_stream
    <3>2. astray \subseteq astray' BY <2>5
    <3>3. u \in astray \/ kept(u, now(u)) BY <2>9, <3>0 DEF DecoderInv, StreamsInv
    <3>4. /\ pid' = pid /\ play' = play /\ want' = want /\ selected' = selected
          /\ feed'[u] = feed[u] \/ (op = "stop" /\ feed'[u] = Av!NoPid)
      BY <1>0, <2>1, <3>0 DEF Av!TypeOK
    <3>5. kept(u, now(u)) => kept(u, now(u))' BY <3>1, <3>4 DEF kept, noted, now
    <3>6. /\ op = "stop" => to = "stopped"
          /\ (u \in astray' \/ kept(u, now(u))') /\ ~Av!refuses(t, to) /\ u \in Av!touched(t, to)
      BY <1>2, <2>9, <3>2, <3>3, <3>5 DEF T
    <3> QED BY <1>0, <2>11, <3>4, <3>6, Dealing
  <2>10. \A u \in Av!Types \ T : want'[u] = want[u] /\ feed'[u] = feed[u] /\ pid'[u] = pid[u]
    BY <1>0, <2>1 DEF Av!TypeOK
  <2> QED BY <1>0, <2>1, <2>2, <2>3, <2>5, <2>6, <2>7, <2>8, <2>9, <2>10, EnterKeeps
<1> QED BY <1>1, <1>2

(* A call that goes on keeps the invariant if it goes on to deal with its own.*)
LEMMA GoOnKeeps ==
  ASSUME DecoderInv, Av!TypeOK', NEW c \in Threads, ~Av!idle(c), NEW r, call' = [call EXCEPT ![c] = r],
         \/ r = Av!Idle
         \/ /\ r.op = call[c].op /\ r.t = call[c].t /\ r.touches = call[c].touches
            /\ r.met = call[c].met
            /\ r.at \in {"restart", "cleared"} => call[c].at \in {"restart", "cleared"}
            /\ r.op = "restart" => r.at \in {"restart", "cleared"},
         \A t \in astray : t \in astray' \/ mine(c, t),
         UNCHANGED <<bypass, switched>>, changed' => changed, FeedsInv', stepped(c)',
         r.op = "restart" /\ r.at = "cleared" /\ r.met = {} => selected' = [s \in Av!Streams |-> Av!NoPid],
         ~switched => /\ writes_own(c)' /\ selected'[asideStream] = Av!NoPid
                      /\ \A t \in Av!Types \ call[c].touches : same_type(t),
         \A t \in Av!Types : mine(c, t) /\ ~switched =>
           IF r = Av!Idle THEN t \notin astray' => kept(t, now(t))' ELSE dealt(c, t)'
  PROVE  DecoderInv'
<1>1. /\ CallsInv' /\ call'[c] = r
      /\ \A d \in Threads \ {c} : same_call(d) /\ call[d].touches \cap call[c].touches \subseteq call'[d].met
  BY CallsGoOn DEF DecoderInv
<1>2. Av!Idle.touches = {} /\ Av!Idle.met = {} /\ Av!Idle.op = "none" BY DEF Av!Idle
<1>3. /\ call[c].touches \in SUBSET Av!Types /\ call'[c].touches \subseteq call[c].touches
      /\ call[c].t \in call[c].touches
  BY <1>1, <1>2 DEF DecoderInv, Av!TypeOK, Av!Calls, CallsInv
<1>4. StepsInv'
  <2>1. ASSUME NEW d \in Threads \ {c} PROVE stepped(d)'
    <3>1. Av!may_play_again' => Av!may_play_again BY DEF Av!may_play_again
    <3>2. stepped(d) /\ same_call(d) BY <1>1 DEF DecoderInv, StepsInv
    <3> QED BY <3>1, <3>2 DEF stepped, same_call
  <2> QED BY <2>1 DEF StepsInv
<1>5. ClearedInv'
  <2>1. SUFFICES ASSUME NEW d \in Threads \ {c}, call'[d].op = "restart", call'[d].met = {} PROVE FALSE
    BY <1>1 DEF ClearedInv
  <2>2. call[d].touches = Av!Types BY <1>1, <2>1 DEF same_call, DecoderInv, CallsInv
  <2> QED BY <1>1, <1>3, <2>1, <2>2
<1>6. StreamsInv'
  <2>1. SUFFICES ASSUME ~switched, ~switched' PROVE StreamsInv'
    BY DEF StreamsInv
  <2>2. /\ \A d \in Threads \ {c} : writes_own(d)'
        /\ \A t \in Av!Types \ call[c].touches : Av!quiet(t)' /\ t \notin astray' => kept(t, now(t))'
        /\ \A d \in Threads \ {c} : \A t \in Av!Types : mine(d, t)' => dealt(d, t)'
    BY <1>1, <1>3, <2>1, RestKept DEF DecoderInv
  <2>3. asideStream' = asideStream BY DEF asideStream
  <2>4. ASSUME NEW t \in call[c].touches, Av!quiet(t)', t \notin astray' PROVE kept(t, now(t))'
    <3>1. r = Av!Idle BY <1>1, <2>4 DEF Av!quiet
    <3>2. mine(c, t)
      <4>1. t \in call[c].met => t \in astray BY DEF DecoderInv, CallsInv
      <4> QED BY <2>4, <4>1 DEF mine
    <3> QED BY <1>3, <2>1, <2>4, <3>1, <3>2
  <2>5. ASSUME NEW t \in Av!Types, mine(c, t)' PROVE dealt(c, t)'
    <3>1. r # Av!Idle /\ mine(c, t) BY <1>1, <1>2, <2>5 DEF mine
    <3> QED BY <2>1, <3>1
  <2> QED BY <2>1, <2>2, <2>3, <2>4, <2>5 DEF StreamsInv
<1> QED BY <1>1, <1>4, <1>5, <1>6 DEF DecoderInv

(* Nothing that have and feed say is changed by a call of another kind.      *)
LEMMA FeedsStay ==
  ASSUME DecoderInv, UNCHANGED <<feed, have, pid>>,
         \A d \in Threads : \/ call'[d].op = call[d].op /\ call'[d].t = call[d].t
                            \/ ~changes_feed(d) /\ ~changes_feed(d)'
  PROVE  FeedsInv'
BY DEF DecoderInv, FeedsInv, changes_feed

(* avia_av_napi_decoder_start: the new feed is told, or the type is astray.  *)
LEMMA StartKeeps ==
  ASSUME DecoderInv, Av!TypeOK', Av!PidsAssumption, NEW c \in Threads, NEW t \in Av!Types, NEW p \in AvPids,
         Av!avia_av_napi_decoder_start(c, t, p)
  PROVE  DecoderInv'
<1> DEFINE T == Av!touched(t, "playing")
           r0 == [Av!Started("start", t, "none", T) EXCEPT !.met = Av!met_by(c, T)]
<1>0. /\ Av!TypeOK /\ T \in SUBSET Av!Types /\ t \in T /\ p # Av!Same /\ p # Av!NoPid /\ Av!idle(c) /\ ~Av!feeding
      /\ feed' = [feed EXCEPT ![t] = p] /\ pid' = [pid EXCEPT ![t] = p]
      /\ UNCHANGED <<source, play, bypass, changed, selected, switched, want>>
  <2>1. UNCHANGED want
    BY DEF Av!avia_av_napi_decoder_start, Av!Noted
  <2> QED
    BY <2>1 DEF Av!avia_av_napi_decoder_start, Av!touched, DecoderInv, Av!PidsAssumption, Av!NoPid, Av!Same
<1>1. /\ feed'[t] = p /\ pid'[t] = p
      /\ \A u \in Av!Types \ {t} : feed'[u] = feed[u] /\ pid'[u] = pid[u]
  BY <1>0 DEF Av!TypeOK
<1>2. \A d \in Threads : ~changes_feed(d) BY <1>0 DEF Av!feeding, changes_feed
<1>3. \A u \in Av!Types : (have[u] <=> feed[u] # Av!NoPid) /\ (feed[u] # Av!NoPid => pid[u] = feed[u])
  BY <1>0, HaveKnown DEF DecoderInv, FeedsInv
<1>4. ASSUME NEW u \in Av!Types \ {t}, u \notin astray, Av!quiet(u), ~switched PROVE kept(u, now(u))'
  <2>1. kept(u, now(u)) BY <1>4 DEF DecoderInv, StreamsInv
  <2>2. now(u)' = now(u) BY <1>0 DEF now, Av!Stream, Av!audio_stream
  <2> QED BY <1>0, <1>1, <2>1, <2>2 DEF kept, noted
<1>5. ASSUME NEW r, r.op = "start", r.t = t, Av!Enters(c, T, r), have' = have PROVE FeedsInv'
  <2>1. call'[c] = r /\ \A d \in Threads \ {c} : call'[d].op = call[d].op /\ call'[d].t = call[d].t
    BY <1>0, <1>5 DEF Av!Enters, Av!TypeOK, Av!Calls
  <2>2. changes_feed(c)' /\ \A d \in Threads \ {c} : ~changes_feed(d)'
    BY <1>2, <1>5, <2>1 DEF changes_feed
  <2>3. ASSUME NEW u \in Av!Types
        PROVE  /\ feed'[u] # Av!NoPid => pid'[u] = feed'[u]
               /\ \/ have'[u] <=> feed'[u] # Av!NoPid
                  \/ \E d \in Threads : changes_feed(d)' /\ call'[d].t = u
    BY <1>1, <1>3, <1>5, <2>1, <2>2
  <2> QED BY <1>0, <1>1, <1>5, <2>1, <2>2, <2>3 DEF FeedsInv, changes_feed
<1>6. \A Y : Av!met_by(c, Y) \subseteq Y BY DEF Av!met_by
<1>7. CASE play = Av!Both("stopped") /\ Av!Enters(c, T, [r0 EXCEPT !.step = "type"]) /\ UNCHANGED <<want, have>>
           /\ Av!Upset(Av!met_by(c, T))
  <2> DEFINE r == [r0 EXCEPT !.step = "type"]
  <2>1. /\ r.op = "start" /\ r.t = t /\ r.to = "none" /\ r.touches = T /\ r.met = Av!met_by(c, T)
        /\ r.step = "type" /\ r.at = "write" /\ r.cmd = Av!Untouched /\ r.whole = FALSE
    BY DEF Av!Started, Av!Idle
  <2>2. Av!Enters(c, T, r) /\ have' = have /\ astray' = astray \cup Av!met_by(c, T) BY <1>7 DEF Av!Upset
  <2> HIDE DEF r, r0, T
  <2>3. begun(r, T) /\ r # Av!Idle BY <1>0, <2>1 DEF begun, Av!Idle
  <2>4. call'[c] = r BY <2>2 DEF Av!Enters
  <2>5. FeedsInv' BY <1>5, <2>1, <2>2
  <2>6. stepped(c)'
    <3>1. Av!may_play_again /\ t = "audio" => T = Av!Types BY DEF Av!touched, T
    <3>2. Av!may_play_again' = Av!may_play_again BY <1>0 DEF Av!may_play_again
    <3> QED BY <1>0, <2>1, <2>4, <3>1, <3>2 DEF stepped
  <2>7. writes_own(c)' BY <1>0, <2>1, <2>4, Kinds DEF writes_own, Av!Untouched, asideStream
  <2>8. ASSUME NEW u \in T, ~switched, Av!quiet(u) PROVE dealt(c, u)'
    <3>1. u \in Av!Types /\ play[u] = "stopped" BY <1>0, <1>7 DEF Av!Both
    <3>2. u \in astray \/ kept(u, now(u)) BY <2>8, <3>1 DEF DecoderInv, StreamsInv
    <3>3. now(u)' = now(u) /\ soon(c, u)' = now(u)
      BY <1>0, <2>1, <2>4, <3>1, Kinds DEF now, soon, Av!Stream, Av!audio_stream, Av!Untouched
    <3>4. CASE u \in astray BY <2>1, <2>2, <2>4, <3>4 DEF dealt
    <3>5. CASE kept(u, now(u)) /\ u = t
      BY <1>0, <2>1, <2>4, <3>1, <3>3, <3>5 DEF dealt, typed, kept, noted
    <3>6. CASE kept(u, now(u)) /\ u # t /\ u \notin astray
      <4>1. kept(u, now(u))' BY <1>4, <2>8, <3>1, <3>6
      <4>2. kept(u, soon(c, u))' BY <3>3, <4>1 DEF kept, noted
      <4> QED BY <1>0, <2>1, <2>4, <3>1, <3>6, <4>1, <4>2 DEF dealt, beside
    <3> QED BY <3>2, <3>4, <3>5, <3>6
  <2>9. \A u \in Av!Types \ T : want'[u] = want[u] /\ feed'[u] = feed[u] /\ pid'[u] = pid[u]
    BY <1>0, <1>1
  <2> QED BY <1>0, <1>6, <2>1, <2>2, <2>3, <2>5, <2>6, <2>7, <2>8, <2>9, EnterKeeps
<1>8. CASE want[t] = "playing" /\ ~Av!refuses(t, "playing") /\ Av!Enters(c, T, Av!setting(r0, t, "playing", p))
           /\ UNCHANGED <<want, have>> /\ Av!Upset(Av!met_by(c, T) \cup {u \in {t} : play[t] # "stopped"})
  <2> DEFINE r == Av!setting(r0, t, "playing", p)
  <2>1. /\ r.op = "start" /\ r.t = t /\ r.to = "playing" /\ r.touches = T /\ r.met = Av!met_by(c, T)
        /\ r.step = Av!first_step(t, "playing") /\ r.at = "write" /\ r.cmd = Av!first_command(t, "playing", p)
        /\ r.whole = Av!sets_all(t, "playing")
    BY DEF Av!setting, Av!Started, Av!Idle
  <2>2. /\ Av!Enters(c, T, r) /\ have' = have
        /\ astray' = astray \cup Av!met_by(c, T) \cup {u \in {t} : play[t] # "stopped"}
    BY <1>8 DEF Av!Upset
  <2> HIDE DEF r, r0, T
  <2>3. begun(r, T) /\ r # Av!Idle BY <1>0, <2>1 DEF begun, Av!Idle
  <2>4. call'[c] = r BY <2>2 DEF Av!Enters
  <2>5. FeedsInv' BY <1>5, <2>1, <2>2
  <2>6. stepped(c)'
    <3>1. Av!may_play_again /\ t = "audio" => T = Av!Types BY DEF Av!touched, T
    <3>2. Av!may_play_again' = Av!may_play_again BY <1>0 DEF Av!may_play_again
    <3>3. Av!first_step(t, "playing") = IF t = "audio" THEN "select" ELSE "last" BY DEF Av!first_step
    <3> QED BY <1>0, <2>1, <2>4, <3>1, <3>2, <3>3 DEF stepped, Av!States
  <2>7. writes_own(c)'
    <3>1. Av!first_command(t, "playing", p) \in {Av!Untouched, Av!SelectStream(Av!Stream(t), p)}
      BY DEF Av!first_command, Av!set_playing
    <3>2. asideStream' = asideStream BY <1>0 DEF asideStream
    <3> QED BY <1>0, <2>1, <2>4, <3>1, <3>2, Kinds DEF writes_own, Av!Untouched, Av!SelectStream
  <2>8. ASSUME NEW u \in T, ~switched, Av!quiet(u) PROVE dealt(c, u)'
    <3>1. u \in Av!Types BY <1>0
    <3>2. u \in astray' \/ kept(u, now(u))' \/ (u = t /\ Av!sets_all(t, "playing"))
      <4>1. CASE u # t BY <1>4, <2>2, <2>8, <3>1, <4>1
      <4>2. CASE u = t BY <2>2, <4>2 DEF Av!sets_all
      <4> QED BY <4>1, <4>2
    <3>3. u \in Av!touched(t, "playing") BY <2>8 DEF T
    <3> QED BY <1>0, <1>1, <1>8, <2>1, <2>4, <3>2, <3>3, Dealing DEF Av!States
  <2>9. \A u \in Av!Types \ T : want'[u] = want[u] /\ feed'[u] = feed[u] /\ pid'[u] = pid[u]
    BY <1>0, <1>1
  <2>10. astray \cup Av!met_by(c, T) \subseteq astray' /\ astray' \subseteq astray \cup T
    BY <1>0, <1>6, <2>2
  <2> QED BY <1>0, <2>1, <2>2, <2>3, <2>5, <2>6, <2>7, <2>8, <2>9, <2>10, EnterKeeps
<1>9. CASE /\ ~(want[t] = "playing" /\ ~Av!refuses(t, "playing"))
           /\ Av!Enters(c, {t}, Av!Idle) /\ Av!Noted("start", t, "none")
           /\ Av!Upset(Av!met_by(c, {t}) \cup {u \in {t} : play[t] # "stopped"})
  <2>1. call'[c] = Av!Idle BY <1>9 DEF Av!Enters
  <2>2. /\ have' = [have EXCEPT ![t] = TRUE] /\ want' = want
        /\ astray' = astray \cup Av!met_by(c, {t}) \cup {u \in {t} : play[t] # "stopped"}
    BY <1>9 DEF Av!Noted, Av!Upset
  <2>3. FeedsInv'
    <3>1. \A d \in Threads \ {c} : call'[d].op = call[d].op BY <1>0, <1>9 DEF Av!Enters, Av!TypeOK, Av!Calls
    <3>2. \A d \in Threads : ~changes_feed(d)' BY <1>2, <2>1, <3>1 DEF changes_feed, Av!Idle
    <3>3. ASSUME NEW u \in Av!Types
          PROVE  (feed'[u] # Av!NoPid => pid'[u] = feed'[u]) /\ (have'[u] <=> feed'[u] # Av!NoPid)
      <4>1. CASE u = t
        <5>1. have'[t] = TRUE BY <1>0, <2>2 DEF Av!TypeOK
        <5> QED BY <1>0, <1>1, <4>1, <5>1
      <4>2. CASE u # t
        <5>1. have'[u] = have[u] BY <1>0, <2>2, <4>2 DEF Av!TypeOK
        <5> QED BY <1>1, <1>3, <4>2, <5>1
      <4> QED BY <4>1, <4>2
    <3> QED BY <3>2, <3>3 DEF FeedsInv, changes_feed
  <2>4. stepped(c)' /\ writes_own(c)'
    BY <2>1 DEF stepped, writes_own, Av!Idle, Av!Untouched, Av!Types, Av!Streams, asideStream
  <2>5. ASSUME ~switched, Av!quiet(t), t \notin astray' PROVE kept(t, now(t))'
    <3>1. play[t] = "stopped" /\ kept(t, now(t)) /\ want[t] # "playing"
      BY <1>0, <1>9, <2>2, <2>5 DEF DecoderInv, StreamsInv, Av!refuses
    <3>2. now(t)' = now(t) BY <1>0 DEF now, Av!Stream, Av!audio_stream
    <3> QED BY <1>0, <3>1, <3>2 DEF kept, noted
  <2>6. \A u \in Av!Types \ {t} : want'[u] = want[u] /\ feed'[u] = feed[u] /\ pid'[u] = pid[u]
    BY <1>0, <1>1
  <2>7. astray \cup Av!met_by(c, {t}) \subseteq astray' /\ astray' \subseteq astray \cup {t} BY <1>6, <2>2
  <2>8. {t} \in SUBSET Av!Types /\ \A u \in {t} : u = t OBVIOUS
  <2>9. Av!idle(c) /\ Av!Enters(c, {t}, Av!Idle) /\ UNCHANGED <<play, bypass, changed, switched>>
        /\ selected' = selected
    BY <1>0, <1>9
  <2> QED BY <2>3, <2>4, <2>5, <2>6, <2>7, <2>8, <2>9, EnterKeeps
<1> QED BY <1>7, <1>8, <1>9 DEF Av!avia_av_napi_decoder_start

(* The ioctls and the stop of a feed.                                        *)
LEMMA IoctlKeeps ==
  ASSUME DecoderInv, Av!TypeOK', Av!PidsAssumption, Av!ConfigAssumption, NEW c \in Threads, NEW t \in Av!Types,
         \/ Av!Stop(c, t) \/ Av!PlayIoctl(c, t) \/ Av!Pause(c, t) \/ Av!Continue(c, t)
         \/ Av!avia_av_napi_decoder_stop(c, t)
  PROVE  DecoderInv'
<1> USE DEF Av!States
<1>1. CASE Av!Stop(c, t) BY <1>1, SetPlayStateKeeps DEF Av!Stop
<1>2. CASE Av!PlayIoctl(c, t)
  <2>1. (have[t] \/ source[t] = "memory") \in BOOLEAN OBVIOUS
  <2> QED BY <1>2, <2>1, SetPlayStateKeeps DEF Av!PlayIoctl
<1>3. CASE Av!Pause(c, t) BY <1>3, SetPlayStateKeeps DEF Av!Pause
<1>4. CASE Av!Continue(c, t) BY <1>4, SetPlayStateKeeps DEF Av!Continue
<1>5. CASE Av!avia_av_napi_decoder_stop(c, t) BY <1>5, SetPlayStateKeeps DEF Av!avia_av_napi_decoder_stop
<1> QED BY <1>1, <1>2, <1>3, <1>4, <1>5

(* The calls that leave the program's wishes and the feeds alone.            *)
LEMMA OtherCallsKeep ==
  ASSUME DecoderInv, Av!TypeOK', NEW c \in Threads, Av!idle(c), NEW T \in SUBSET Av!Types, NEW r,
         begun(r, T), r.met = Av!met_by(c, T), r.op \in {"watch", "bypass", "restart"},
         r.step = "last", r.op # "bypass" => r.to = "none", Av!Enters(c, T, r), Av!Upset(Av!met_by(c, T)),
         UNCHANGED <<want, have, play, pid, bypass, changed, feed, switched>>,
         selected' = selected \/ (T = Av!Types /\ selected' = [s \in Av!Streams |-> Av!NoPid]),
         ~switched => writes_own(c)',
         \A t \in T : ~switched /\ Av!quiet(t) => t \in astray \/ dealt(c, t)',
         r.whole = FALSE
  PROVE  DecoderInv'
<1>1. call'[c] = r /\ astray' = astray \cup Av!met_by(c, T) /\ Av!met_by(c, T) \subseteq T
  BY DEF Av!Enters, Av!Upset, Av!met_by
<1>2. FeedsInv'
  <2>1. ASSUME NEW d \in Threads \ {c}
        PROVE  call'[d].op = call[d].op /\ call'[d].t = call[d].t
    <3>1. call[d] \in Av!Calls BY DEF DecoderInv, Av!TypeOK
    <3>2. call'[d] = [call[d] EXCEPT !.met = @ \cup (call[d].touches \cap T)] BY DEF Av!Enters
    <3> QED BY <3>1, <3>2 DEF Av!Calls
  <2>2. ~changes_feed(c) /\ ~changes_feed(c)' BY <1>1 DEF changes_feed, Av!idle
  <2> QED BY <2>1, <2>2, FeedsStay
<1>3. stepped(c)' BY <1>1 DEF stepped, begun
<1>4. ASSUME NEW t \in T, ~switched, Av!quiet(t) PROVE dealt(c, t)'
  <2>1. CASE t \in astray BY <1>1, <2>1 DEF dealt
  <2> QED BY <1>4, <2>1
<1>5. r # Av!Idle BY DEF begun, Av!Idle
<1> QED BY <1>1, <1>2, <1>3, <1>4, <1>5, EnterKeeps

(* SetBypass begins: the mode is as it was until the end.                    *)
LEMMA BypassKeeps ==
  ASSUME DecoderInv, Av!TypeOK', NEW c \in Threads, NEW enable \in BOOLEAN, Av!SetBypass(c, enable)
  PROVE  DecoderInv'
<1> DEFINE cmd == IF Avia500 THEN Av!Abort ELSE Av!Untouched
           r == [Av!Started("bypass", "audio", IF enable THEN "on" ELSE "off", Av!Types)
                   EXCEPT !.cmd = cmd, !.met = Av!met_by(c, Av!Types)]
<1>1. /\ r.op = "bypass" /\ r.t = "audio" /\ r.touches = Av!Types /\ r.met = Av!met_by(c, Av!Types)
      /\ r.step = "last" /\ r.at = "write" /\ r.cmd = cmd /\ r.whole = FALSE
  BY DEF Av!Started, Av!Idle
<1>2. /\ Av!idle(c) /\ Av!Enters(c, Av!Types, r) /\ Av!Upset(Av!met_by(c, Av!Types))
      /\ UNCHANGED <<want, source, have, play, pid, bypass, changed, selected, feed, switched>>
  BY DEF Av!SetBypass
<1> HIDE DEF r
<1>3. begun(r, Av!Types) BY <1>1, Kinds DEF begun
<1>4. call'[c] = r BY <1>2 DEF Av!Enters
<1>5. writes_own(c)'
  BY <1>1, <1>2, <1>4, Kinds DEF writes_own, Av!Abort, Av!Untouched, asideStream
<1>6. ASSUME NEW t \in Av!Types, ~switched, Av!quiet(t), t \notin astray PROVE dealt(c, t)'
  <2>1. kept(t, now(t)) BY <1>6 DEF DecoderInv, StreamsInv
  <2>2. Av!Stream(t)' = Av!Stream(t) /\ now(t)' = now(t) BY <1>2 DEF now, Av!Stream, Av!audio_stream
  <2>3. kept(t, now(t))' BY <1>2, <2>1, <2>2 DEF kept, noted
  <2>4. soon(c, t)' \in {now(t), Av!NoPid} BY <1>1, <1>4, <2>2, Kinds DEF soon, Av!Abort, Av!Untouched
  <2>5. noted(t, now(t))' /\ noted(t, soon(c, t))'
    BY <1>2, <2>1, <2>2, <2>4 DEF kept, noted
  <2> QED BY <1>1, <1>4, <2>3, <2>5 DEF dealt, bypassed
<1> QED BY <1>1, <1>2, <1>3, <1>5, <1>6, OtherCallsKeep

(* The watchdog tells a playing type the pid that is noted.                  *)
LEMMA WatchKeeps ==
  ASSUME DecoderInv, Av!TypeOK', Av!ConfigAssumption, Av!PidsAssumption, NEW t \in Av!Types, Av!Watch(t)
  PROVE  DecoderInv'
<1> DEFINE c == Watchdog
           r == [Av!Started("watch", t, "none", {t})
                   EXCEPT !.cmd = Av!SelectStream(Av!Stream(t), pid[t]), !.met = Av!met_by(Watchdog, {t})]
<1>1. /\ r.op = "watch" /\ r.t = t /\ r.to = "none" /\ r.touches = {t} /\ r.met = Av!met_by(c, {t})
      /\ r.step = "last" /\ r.at = "write" /\ r.cmd = Av!SelectStream(Av!Stream(t), pid[t]) /\ r.whole = FALSE
  BY DEF Av!Started, Av!Idle
<1>2. /\ Av!idle(c) /\ Av!Enters(c, {t}, r) /\ Av!Upset(Av!met_by(c, {t})) /\ play[t] = "playing"
      /\ UNCHANGED <<want, source, have, play, pid, bypass, changed, selected, feed, switched>>
  BY DEF Av!Watch
<1> HIDE DEF r
<1>3. begun(r, {t}) BY <1>1 DEF begun
<1>4. call'[c] = r /\ c \in Threads BY <1>2 DEF Av!Enters, Av!ConfigAssumption
<1>5. writes_own(c)'
  <2>1. asideStream' = asideStream BY <1>2 DEF asideStream
  <2> QED BY <1>1, <1>4, <2>1, Kinds DEF writes_own, Av!SelectStream
<1>6. ASSUME ~switched, Av!quiet(t), t \notin astray PROVE dealt(c, t)'
  <2>1. kept(t, now(t)) BY <1>6 DEF DecoderInv, StreamsInv
  <2>2. Av!Stream(t)' = Av!Stream(t) /\ now(t)' = now(t) BY <1>2 DEF now, Av!Stream, Av!audio_stream
  <2>3. kept(t, now(t))' BY <1>2, <2>1, <2>2 DEF kept, noted
  <2>4. pid[t] # Av!Same BY DEF DecoderInv, Av!TypeOK, Av!PidsAssumption, Av!NoPid, Av!Same
  <2>5. soon(c, t)' = pid[t] BY <1>1, <1>4, <2>2, <2>4, Kinds DEF soon, Av!SelectStream
  <2>6. kept(t, soon(c, t))' BY <1>2, <2>1, <2>5 DEF kept, noted
  <2> QED BY <1>1, <1>2, <1>4, <2>3, <2>6 DEF dealt, watched
<1>7. {t} \in SUBSET Av!Types /\ \A u \in {t} : u = t OBVIOUS
<1> HIDE DEF c
<1> QED BY <1>1, <1>2, <1>3, <1>4, <1>5, <1>6, <1>7, OtherCallsKeep

(* A restart deselects everything first.                                     *)
LEMMA StandbyKeeps ==
  ASSUME DecoderInv, Av!TypeOK', NEW c \in Threads, Av!avia_av_standby(c)
  PROVE  DecoderInv'
<1> DEFINE r == [Av!Started("restart", "audio", "none", Av!Types)
                   EXCEPT !.at = "restart", !.met = Av!met_by(c, Av!Types)]
<1>1. /\ r.op = "restart" /\ r.t = "audio" /\ r.to = "none" /\ r.touches = Av!Types
      /\ r.met = Av!met_by(c, Av!Types) /\ r.step = "last" /\ r.at = "restart" /\ r.whole = FALSE
  BY DEF Av!Started, Av!Idle
<1>2. /\ Av!idle(c) /\ Av!Enters(c, Av!Types, r) /\ Av!Upset(Av!met_by(c, Av!Types))
      /\ selected' = [s \in Av!Streams |-> Av!NoPid]
      /\ UNCHANGED <<want, source, have, play, pid, bypass, changed, feed, switched>>
  BY DEF Av!avia_av_standby
<1> HIDE DEF r
<1>3. begun(r, Av!Types) BY <1>1, Kinds DEF begun
<1>4. call'[c] = r BY <1>2 DEF Av!Enters
<1>5. writes_own(c)' BY <1>1, <1>4 DEF writes_own
<1>6. ASSUME NEW t \in Av!Types PROVE dealt(c, t)' BY <1>1, <1>4 DEF dealt, restarts
<1> QED BY <1>1, <1>2, <1>3, <1>5, <1>6, OtherCallsKeep

(* Steps that change nothing of it but sources.                              *)
LEMMA StutterKeeps ==
  ASSUME DecoderInv, Av!TypeOK',
         UNCHANGED <<want, have, play, pid, bypass, changed, selected, call, feed, astray, switched>>
  PROVE  DecoderInv'
<1>1. CallsInv' BY DEF DecoderInv, CallsInv, Av!idle
<1>2. StepsInv' BY DEF DecoderInv, StepsInv, stepped, Av!may_play_again
<1>3. FeedsInv' BY FeedsStay
<1>4. /\ \A t : Av!Stream(t)' = Av!Stream(t) /\ now(t)' = now(t) /\ (Av!quiet(t)' <=> Av!quiet(t))
      /\ asideStream' = asideStream
  BY DEF Av!Stream, Av!audio_stream, now, asideStream, Av!quiet
<1>5. \A t, p : (noted(t, p)' <=> noted(t, p)) /\ (kept(t, p)' <=> kept(t, p)) BY DEF kept, noted
<1>6. /\ \A c, t : soon(c, t)' = soon(c, t) /\ (mine(c, t)' <=> mine(c, t))
      /\ \A c : writes_own(c)' <=> writes_own(c)
  BY <1>4 DEF soon, mine, writes_own
<1>7. \A c \in Threads, t \in Av!Types : dealt(c, t) => dealt(c, t)'
  BY <1>4, <1>5, <1>6 DEF dealt, told, watched, unfrozen, halted, typed, beside, bypassed, restarts
<1>8. StreamsInv' BY <1>4, <1>5, <1>6, <1>7 DEF DecoderInv, StreamsInv
<1>9. ClearedInv' BY DEF DecoderInv, ClearedInv
<1> QED BY <1>1, <1>2, <1>3, <1>8, <1>9 DEF DecoderInv

(* When nobody makes a call.                                                 *)
LEMMA AloneKeeps ==
  ASSUME Av!TypeOK', \A d \in Threads : call'[d] = Av!Idle, FeedsInv', selected'[asideStream'] = Av!NoPid,
         \A t \in Av!Types : t \notin astray' => kept(t, now(t))'
  PROVE  DecoderInv'
<1>1. /\ Av!Idle.op = "none" /\ Av!Idle.touches = {} /\ Av!Idle.met = {} /\ Av!Idle.at = "write" /\ Av!Idle.step = "last"
      /\ Av!Idle.cmd = Av!Untouched /\ Av!Idle.to = "none"
  BY DEF Av!Idle
<1>2. CallsInv' BY <1>1 DEF CallsInv, Av!idle
<1>3. StepsInv' BY <1>1 DEF StepsInv, stepped
<1>4. \A d \in Threads : writes_own(d)' BY <1>1, Kinds DEF writes_own, Av!Untouched, asideStream
<1>5. StreamsInv' BY <1>1, <1>4 DEF StreamsInv, mine
<1>6. ClearedInv' BY <1>1 DEF ClearedInv
<1> QED BY <1>2, <1>3, <1>5, <1>6 DEF DecoderInv

(* The decoder gets the command that a call has waited with.                 *)
LEMMA WriteKeeps ==
  ASSUME DecoderInv, Av!TypeOK', NEW c \in Threads, Av!WriteCommand(c)
  PROVE  DecoderInv'
<1> DEFINE r == [call[c] EXCEPT !.at = "accept", !.cmd = Av!Untouched]
<1>1. /\ call[c] \in Av!Calls /\ call[c].at = "write" /\ ~Av!idle(c) /\ selected' = Av!given(call[c].cmd)
      /\ call' = [call EXCEPT ![c] = r]
      /\ UNCHANGED <<want, source, have, play, pid, bypass, changed, feed, astray, switched>>
  BY DEF Av!WriteCommand, DecoderInv, Av!TypeOK
<1>2. /\ r.op = call[c].op /\ r.t = call[c].t /\ r.touches = call[c].touches /\ r.met = call[c].met
      /\ r.to = call[c].to /\ r.step = call[c].step /\ r.whole = call[c].whole
      /\ r.at = "accept" /\ r.cmd = Av!Untouched
  BY <1>1 DEF Av!Calls
<1> HIDE DEF r
<1>3. call'[c] = r /\ \A d \in Threads \ {c} : call'[d] = call[d] BY <1>1 DEF DecoderInv, Av!TypeOK
<1>4. call[c].op # "restart" BY <1>1 DEF DecoderInv, CallsInv
<1>5. FeedsInv' BY <1>1, <1>2, <1>3, FeedsStay
<1>6. stepped(c)'
  <2>1. Av!may_play_again' = Av!may_play_again BY <1>1 DEF Av!may_play_again
  <2> QED BY <1>1, <1>2, <1>3, <2>1 DEF DecoderInv, StepsInv, stepped
<1>7. \A t : Av!Stream(t)' = Av!Stream(t) BY <1>1 DEF Av!Stream, Av!audio_stream
<1>8. \A t \in Av!Types : now(t)' = soon(c, t) /\ soon(c, t)' = now(t)'
  BY <1>1, <1>2, <1>3, <1>7, Kinds DEF now, soon, Av!given
<1>9. ASSUME ~switched
      PROVE  /\ writes_own(c)' /\ selected'[asideStream] = Av!NoPid
             /\ \A t \in Av!Types \ call[c].touches : same_type(t)
  <2>1. writes_own(c) /\ selected[asideStream] = Av!NoPid BY <1>9 DEF DecoderInv, StreamsInv
  <2>2. writes_own(c)' BY <1>2, <1>3 DEF writes_own
  <2>3. selected'[asideStream] = Av!NoPid BY <1>1, <2>1, Kinds DEF writes_own, Av!given
  <2>4. ASSUME NEW t \in Av!Types \ call[c].touches PROVE same_type(t)
    <3>1. selected'[Av!Stream(t)] = selected[Av!Stream(t)] BY <1>1, <2>1, Kinds DEF writes_own, Av!given
    <3> QED BY <1>1, <3>1 DEF same_type
  <2> QED BY <2>2, <2>3, <2>4
<1>10. ASSUME NEW t \in Av!Types, mine(c, t), ~switched PROVE dealt(c, t)'
  <2>1. dealt(c, t) BY <1>10 DEF DecoderInv, StreamsInv
  <2>2. \A p : (noted(t, p)' <=> noted(t, p)) /\ (kept(t, p)' <=> kept(t, p)) BY <1>1 DEF kept, noted
  <2>3. call[c].cmd = Av!Untouched => now(t)' = now(t)
    BY <1>1, <1>7, Kinds DEF now, Av!given, Av!Untouched
  <2>4. call'[c].cmd = Av!Untouched /\ call'[c].at = "accept" /\ call'[c].op = call[c].op /\ call'[c].t = call[c].t
        /\ call'[c].to = call[c].to /\ call'[c].whole = call[c].whole /\ call'[c].step = call[c].step
    BY <1>2, <1>3
  <2>5. CASE told(c, t) BY <1>1, <1>8, <2>4, <2>5 DEF dealt, told
  <2>6. CASE t \in astray /\ ~(call[c].t = t /\ call[c].whole) BY <1>1, <2>4, <2>6 DEF dealt
  <2>7. CASE watched(c, t) BY <1>1, <1>8, <2>2, <2>4, <2>7 DEF dealt, watched
  <2>8. CASE unfrozen(c, t) BY <1>1, <1>8, <2>2, <2>3, <2>4, <2>8 DEF dealt, unfrozen
  <2>9. CASE halted(c, t) BY <1>1, <1>8, <2>2, <2>3, <2>4, <2>9 DEF dealt, halted
  <2>10. CASE typed(c, t) BY <1>1, <1>8, <2>2, <2>3, <2>4, <2>10 DEF dealt, typed
  <2>11. CASE beside(c, t) BY <1>1, <1>8, <2>2, <2>4, <2>11 DEF dealt, beside
  <2>12. CASE bypassed(c, t) BY <1>1, <1>8, <2>2, <2>3, <2>4, <2>12 DEF dealt, bypassed
  <2>13. CASE restarts(c, t) BY <1>4, <2>13 DEF restarts
  <2> QED BY <2>1, <2>5, <2>6, <2>7, <2>8, <2>9, <2>10, <2>11, <2>12, <2>13 DEF dealt
<1>11. r # Av!Idle BY <1>2 DEF Av!Idle
<1> QED BY <1>1, <1>2, <1>4, <1>5, <1>6, <1>9, <1>10, <1>11, GoOnKeeps

(* A call goes on to the next of its commands.                               *)
LEMMA NextCommandKeeps ==
  ASSUME DecoderInv, Av!TypeOK', Av!PidsAssumption, NEW c \in Threads, Av!NextCommand(c)
  PROVE  DecoderInv'
<1> DEFINE step == Av!next_step(call[c].step)
           cmd == Av!next_command(step)
           r == [call[c] EXCEPT !.step = step, !.at = "write", !.cmd = cmd]
<1>1. /\ call[c] \in Av!Calls /\ call[c].at = "accept" /\ ~Av!idle(c) /\ step # "none"
      /\ call' = [call EXCEPT ![c] = r]
      /\ astray' = astray \cup {t \in {"video"} : step # "last" /\ play["video"] = "paused"}
      /\ UNCHANGED <<want, source, have, play, pid, bypass, changed, selected, feed, switched>>
  BY DEF Av!NextCommand, DecoderInv, Av!TypeOK, Av!Upset
<1>2. /\ r.op = call[c].op /\ r.t = call[c].t /\ r.touches = call[c].touches /\ r.met = call[c].met
      /\ r.to = call[c].to /\ r.step = step /\ r.whole = call[c].whole /\ r.at = "write" /\ r.cmd = cmd
  BY <1>1 DEF Av!Calls
<1>3. /\ call[c].step \in {"select", "video", "anew"} => step \in {"video", "anew", "play"}
      /\ call[c].step = "abort" => step = "last"
      /\ call[c].step \in {"select", "video", "anew", "abort"}
      /\ call[c].step = "select" => Av!may_play_again
  BY <1>1 DEF Av!next_step, Av!again, Av!may_play_again
<1>4. /\ step \in {"anew", "play"} => cmd = Av!Play(Av!video_if_playing, pid["audio"])
      /\ step = "video" => cmd = Av!SelectStream(0, Av!video_if_playing)
      /\ step = "last" => cmd = Av!Abort
  BY DEF Av!next_command
<1> HIDE DEF r, step, cmd
<1>5. call'[c] = r /\ \A d \in Threads \ {c} : call'[d] = call[d] BY <1>1 DEF DecoderInv, Av!TypeOK
<1>6. stepped(c) BY DEF DecoderInv, StepsInv
<1>7. call[c].op # "restart" BY <1>3, <1>6 DEF stepped
<1>8. FeedsInv' BY <1>1, <1>2, <1>5, FeedsStay
<1>9. ~switched => call[c].touches = Av!Types BY <1>3, <1>6 DEF stepped
<1>10. stepped(c)'
  <2>1. Av!may_play_again' = Av!may_play_again BY <1>1 DEF Av!may_play_again
  <2> QED BY <1>1, <1>2, <1>3, <1>5, <1>6, <1>9, <2>1 DEF stepped
<1>11. \A t : Av!Stream(t)' = Av!Stream(t) /\ now(t)' = now(t) /\ asideStream' = asideStream
  BY <1>1 DEF Av!Stream, Av!audio_stream, now, asideStream
<1>12. /\ Av!video_if_playing \in Pid /\ Av!video_if_playing # Av!Same /\ pid["audio"] \in Pid /\ pid["audio"] # Av!Same
       /\ pid["video"] # Av!Same
  BY Kinds DEF Av!video_if_playing, DecoderInv, Av!TypeOK, Pid, Av!PidsAssumption, Av!NoPid, Av!Same
<1>13. ASSUME ~switched PROVE writes_own(c)' /\ selected'[asideStream] = Av!NoPid
  <2>1. selected[asideStream] = Av!NoPid BY <1>13 DEF DecoderInv, StreamsInv
  <2>2. cmd[asideStream] \in {Av!Same, Av!NoPid}
    <3>1. step \in {"anew", "play", "video", "last"} BY <1>3
    <3> QED BY <1>4, <3>1, Kinds DEF Av!Play, Av!SelectStream, Av!Abort
  <2>3. writes_own(c)' BY <1>2, <1>5, <1>9, <1>11, <1>13, <2>2, Kinds DEF writes_own
  <2> QED BY <1>1, <2>1, <2>3
<1>14. ASSUME NEW t \in Av!Types, mine(c, t), ~switched PROVE dealt(c, t)'
  <2>1. dealt(c, t) BY <1>14 DEF DecoderInv, StreamsInv
  <2>2. \A p : (noted(t, p)' <=> noted(t, p)) /\ (kept(t, p)' <=> kept(t, p)) BY <1>1 DEF kept, noted
  <2>3. call'[c].cmd = cmd /\ call'[c].at = "write" /\ call'[c].op = call[c].op /\ call'[c].t = call[c].t
        /\ call'[c].to = call[c].to /\ call'[c].whole = call[c].whole
    BY <1>2, <1>5
  <2>4. soon(c, t)' = IF cmd[Av!Stream(t)] # Av!Same THEN cmd[Av!Stream(t)] ELSE now(t)
    BY <1>11, <2>3 DEF soon
  <2>5. soon(c, t) = now(t) BY <1>1 DEF soon
  <2>6. CASE t \in astray /\ ~(call[c].t = t /\ call[c].whole) BY <1>1, <2>3, <2>6 DEF dealt
  <2>7. CASE told(c, t)
    <3>1. CASE call[c].to = "stopped"
      <4>1. step = "last" BY <1>3, <1>6, <3>1 DEF stepped
      <4>2. soon(c, t)' = Av!NoPid BY <1>4, <2>4, <4>1, Kinds DEF Av!Abort, Av!Same, Av!NoPid
      <4> QED BY <1>1, <2>3, <2>7, <3>1, <4>2 DEF told, dealt
    <3>2. CASE call[c].to = "playing"
      <4>1. step \in {"video", "anew", "play"} /\ t = "audio" BY <1>3, <1>6, <2>7, <3>2 DEF stepped, told
      <4>2. now(t) = pid[t] BY <2>5, <2>7, <3>2 DEF told
      <4>3. soon(c, t)' = pid[t]
        <5>1. CASE step = "video" BY <1>4, <2>4, <4>1, <4>2, <5>1, Kinds DEF Av!SelectStream
        <5>2. CASE step # "video" BY <1>4, <1>12, <2>4, <4>1, <5>2, Kinds DEF Av!Play
        <5> QED BY <5>1, <5>2
      <4> QED BY <1>1, <2>3, <2>7, <3>2, <4>3 DEF told, dealt
    <3> QED BY <2>7, <3>1, <3>2 DEF told
  <2>8. CASE beside(c, t)
    <3>1. CASE step = "last"
      <4>1. call[c].to = "stopped" /\ play[t] = "stopped" BY <1>3, <1>6, <2>8, <3>1 DEF stepped, beside
      <4>2. soon(c, t)' = Av!NoPid BY <1>4, <2>4, <3>1, Kinds DEF Av!Abort, Av!Same, Av!NoPid
      <4>3. now(t) = Av!NoPid BY <2>8, <4>1 DEF beside, kept, noted
      <4> QED BY <1>1, <1>11, <2>2, <2>3, <2>8, <4>1, <4>2, <4>3 DEF beside, dealt
    <3>2. CASE step # "last"
      <4>1. call[c].to = "playing" /\ call[c].t = "audio" /\ t = "video"
        BY <1>3, <1>6, <2>8, <3>2, Kinds DEF stepped, beside
      <4>2. CASE play["video"] = "paused" BY <1>1, <2>3, <3>2, <4>1, <4>2 DEF dealt
      <4>3. CASE play["video"] # "paused"
        <5>1. soon(c, t)' = Av!video_if_playing
          <6>1. step \in {"video", "anew", "play"} BY <1>3, <3>2
          <6> QED BY <1>4, <1>12, <2>4, <4>1, <6>1, Kinds DEF Av!Play, Av!SelectStream
        <5>2. kept(t, Av!video_if_playing)
          BY <2>8, <4>1, <4>3 DEF beside, kept, noted, Av!video_if_playing, DecoderInv, Av!TypeOK
        <5> QED BY <1>1, <1>11, <2>2, <2>3, <2>8, <4>1, <5>1, <5>2 DEF beside, dealt
      <4> QED BY <4>2, <4>3
    <3> QED BY <3>1, <3>2
  <2>9. ~watched(c, t) /\ ~unfrozen(c, t) /\ ~halted(c, t) /\ ~typed(c, t) /\ ~bypassed(c, t) /\ ~restarts(c, t)
    BY <1>3, <1>6, <1>7 DEF stepped, watched, unfrozen, halted, typed, bypassed, restarts
  <2> QED BY <2>1, <2>6, <2>7, <2>8, <2>9 DEF dealt
<1>15. r # Av!Idle
  <2>1. Av!Idle.op = "none" BY DEF Av!Idle
  <2> QED BY <1>1, <1>2, <2>1 DEF Av!idle
<1>16. (r.at \notin {"restart", "cleared"}) /\ \A t \in astray : t \in astray' BY <1>1, <1>2
<1> QED BY <1>1, <1>2, <1>7, <1>8, <1>9, <1>10, <1>13, <1>14, <1>15, <1>16, GoOnKeeps

(* The last command of a restart.                                            *)
LEMMA ClearKeeps ==
  ASSUME DecoderInv, Av!TypeOK', NEW c \in Threads, Av!ClearStreams(c)
  PROVE  DecoderInv'
<1> DEFINE r == [call[c] EXCEPT !.at = "cleared"]
<1>1. /\ call[c] \in Av!Calls /\ call[c].at = "restart" /\ selected' = [s \in Av!Streams |-> Av!NoPid]
      /\ call' = [call EXCEPT ![c] = r]
      /\ UNCHANGED <<want, source, have, play, pid, bypass, changed, feed, astray, switched>>
  BY DEF Av!ClearStreams, DecoderInv, Av!TypeOK
<1>2. /\ r.op = call[c].op /\ r.t = call[c].t /\ r.touches = call[c].touches /\ r.met = call[c].met
      /\ r.to = call[c].to /\ r.step = call[c].step /\ r.whole = call[c].whole
      /\ r.at = "cleared" /\ r.cmd = call[c].cmd
  BY <1>1 DEF Av!Calls
<1> HIDE DEF r
<1>3. call'[c] = r /\ \A d \in Threads \ {c} : call'[d] = call[d] BY <1>1 DEF DecoderInv, Av!TypeOK
<1>4. /\ ~Av!idle(c) /\ call[c].touches = Av!Types /\ (call[c].op # "restart" => call[c].met = Av!Types)
  <2>1. Av!Idle.at = "write" BY DEF Av!Idle
  <2> QED BY <1>1, <2>1 DEF DecoderInv, CallsInv
<1>5. FeedsInv' BY <1>1, <1>2, <1>3, FeedsStay
<1>6. stepped(c)'
  <2>1. Av!may_play_again' = Av!may_play_again BY <1>1 DEF Av!may_play_again
  <2> QED BY <1>1, <1>2, <1>3, <2>1 DEF DecoderInv, StepsInv, stepped
<1>7. writes_own(c)' /\ selected'[asideStream] = Av!NoPid BY <1>1, <1>2, <1>3, Kinds DEF writes_own
<1>8. ASSUME NEW t \in Av!Types, mine(c, t), ~switched PROVE dealt(c, t)'
  <2>1. call[c].op = "restart" /\ dealt(c, t) BY <1>4, <1>8 DEF mine, DecoderInv, StreamsInv
  <2>2. restarts(c, t) \/ (t \in astray /\ ~(call[c].t = t /\ call[c].whole))
    BY <2>1 DEF dealt, told, watched, unfrozen, halted, typed, beside, bypassed
  <2>3. now(t)' = Av!NoPid
    <3>1. Av!Stream(t)' \in Av!Streams BY <1>1, <1>8, Kinds DEF Av!Stream, Av!audio_stream
    <3> QED BY <1>1, <3>1 DEF now
  <2> QED BY <1>1, <1>2, <1>3, <2>2, <2>3 DEF dealt, restarts
<1>9. r # Av!Idle BY <1>2 DEF Av!Idle
<1>10. /\ r.at \in {"restart", "cleared"} /\ call[c].at \in {"restart", "cleared"}
       /\ Av!Types \ call[c].touches = {} /\ \A t \in astray : t \in astray'
  BY <1>1, <1>2, <1>4
<1>11. UNCHANGED <<bypass, switched>> /\ (changed' => changed) /\ (r.op = "restart" => r.at \in {"restart", "cleared"})
  BY <1>1, <1>10
<1>12. ~switched => /\ writes_own(c)' /\ selected'[asideStream] = Av!NoPid
                    /\ \A t \in Av!Types \ call[c].touches : same_type(t)
  BY <1>7, <1>10
<1>13. \A t \in Av!Types : mine(c, t) /\ ~switched =>
         IF r = Av!Idle THEN t \notin astray' => kept(t, now(t))' ELSE dealt(c, t)'
  BY <1>8, <1>9
<1>14. selected' = [s \in Av!Streams |-> Av!NoPid] BY <1>1
<1> HIDE DEF dealt, mine
<1> QED BY <1>1, <1>2, <1>4, <1>5, <1>6, <1>10, <1>11, <1>12, <1>13, <1>14, GoOnKeeps

(* A feed's call reads the wish only after the stream type was set.          *)
LEMMA AfterTypeKeeps ==
  ASSUME DecoderInv, Av!TypeOK', Av!PidsAssumption, NEW c \in Threads, Av!AfterType(c)
  PROVE  DecoderInv'
<1> DEFINE u == call[c].t
           r == Av!setting(call[c], u, "playing", pid[u])
<1>1. /\ call[c] \in Av!Calls /\ call[c].at = "accept" /\ ~Av!idle(c) /\ call[c].step = "type" /\ u \in Av!Types
      /\ UNCHANGED <<want, source, play, pid, bypass, changed, selected, feed, astray, switched>>
  BY DEF Av!AfterType, Av!Noted, DecoderInv, Av!TypeOK, Av!Calls
<1>2. stepped(c) /\ call[c].op = "start" /\ call[c].to = "none"
  <2>1. stepped(c) BY DEF DecoderInv, StepsInv
  <2> QED BY <1>1, <2>1 DEF stepped
<1>3. ASSUME NEW t \in Av!Types, mine(c, t), ~switched, t \notin astray
      PROVE  /\ t = u => play[t] = "stopped" /\ now(t) = Av!NoPid
             /\ t # u => beside(c, t)
  BY <1>2, <1>3 DEF DecoderInv, StreamsInv, dealt, told, watched, unfrozen, halted, typed, beside,
     bypassed, restarts
<1>4. \A t : Av!Stream(t)' = Av!Stream(t) /\ now(t)' = now(t) /\ asideStream' = asideStream
  BY <1>1 DEF Av!Stream, Av!audio_stream, now, asideStream
<1>5. \A t, p : (noted(t, p)' <=> noted(t, p)) /\ (kept(t, p)' <=> kept(t, p)) BY <1>1 DEF kept, noted
<1>6. ~switched => selected'[asideStream] = Av!NoPid BY <1>1 DEF DecoderInv, StreamsInv
<1>7. \A t \in Av!Types : same_type(t) BY <1>1 DEF same_type
<1>8. CASE want[u] = "playing" /\ ~Av!refuses(u, "playing")
  <2>1. /\ r.op = "start" /\ r.t = u /\ r.to = "playing" /\ r.touches = call[c].touches
        /\ r.met = call[c].met /\ r.step = Av!first_step(u, "playing") /\ r.at = "write"
        /\ r.cmd = Av!first_command(u, "playing", pid[u]) /\ r.whole = Av!sets_all(u, "playing")
    BY <1>1, <1>2 DEF Av!setting, Av!Calls
  <2>2. call' = [call EXCEPT ![c] = r] /\ have' = have BY <1>8 DEF Av!AfterType
  <2> HIDE DEF r
  <2>3. call'[c] = r /\ \A d \in Threads \ {c} : call'[d] = call[d] BY <2>2 DEF DecoderInv, Av!TypeOK
  <2>4. FeedsInv' BY <1>1, <1>2, <2>1, <2>2, <2>3, FeedsStay
  <2>5. pid[u] \in Pid /\ pid[u] # Av!Same
    BY <1>1 DEF DecoderInv, Av!TypeOK, Pid, Av!PidsAssumption, Av!NoPid, Av!Same
  <2>6. stepped(c)'
    <3>1. Av!may_play_again' = Av!may_play_again BY <1>1 DEF Av!may_play_again
    <3>2. Av!first_step(u, "playing") = IF u = "audio" THEN "select" ELSE "last" BY DEF Av!first_step
    <3> QED BY <1>1, <1>2, <2>1, <2>3, <3>1, <3>2 DEF stepped, Av!States
  <2>7. Av!first_command(u, "playing", pid[u]) \in {Av!Untouched, Av!SelectStream(Av!Stream(u), pid[u])}
    BY DEF Av!first_command, Av!set_playing
  <2>8. writes_own(c)'
    <3>1. u \in call[c].touches BY <1>1 DEF DecoderInv, CallsInv
    <3> QED BY <1>1, <1>4, <2>1, <2>3, <2>7, <3>1, Kinds DEF writes_own, Av!Untouched, Av!SelectStream
  <2>9. ASSUME NEW t \in Av!Types, mine(c, t), ~switched PROVE dealt(c, t)'
    <3>1. CASE t = u
      <4>1. t \in astray \/ Av!sets_all(u, "playing") BY <1>3, <2>9, <3>1 DEF Av!sets_all
      <4>2. t \in Av!touched(u, "playing") BY <3>1 DEF Av!touched
      <4>3. Av!TypeOK /\ "playing" \in Av!States BY DEF DecoderInv, Av!States
      <4>4. UNCHANGED <<play, bypass, selected>> /\ pid'[u] = pid[u] /\ pid[u] \in AvPids \cup {Av!NoPid}
        BY <1>1, <2>5 DEF Pid
      <4>5. /\ call'[c].op = "start" /\ call'[c].t = u /\ call'[c].to = "playing" /\ call'[c].at = "write"
            /\ call'[c].cmd = Av!first_command(u, "playing", pid[u]) /\ call'[c].whole = Av!sets_all(u, "playing")
        BY <2>1, <2>3
      <4>6. t \in astray' \/ kept(t, now(t))' \/ (t = u /\ Av!sets_all(u, "playing")) BY <1>1, <3>1, <4>1
      <4> QED BY <1>1, <1>8, <4>2, <4>3, <4>4, <4>5, <4>6, Dealing
    <3>2. CASE t # u /\ t \in astray BY <1>1, <2>1, <2>3, <3>2 DEF dealt
    <3>3. CASE t # u /\ t \notin astray
      <4>1. beside(c, t) BY <1>3, <2>9, <3>3
      <4>2. soon(c, t)' = now(t) /\ soon(c, t) = now(t)
        BY <1>1, <1>4, <2>1, <2>3, <2>7, <3>3, Kinds DEF soon, Av!Untouched, Av!SelectStream
      <4> QED BY <1>1, <1>2, <1>4, <1>5, <2>1, <2>3, <3>3, <4>1, <4>2 DEF dealt, beside
    <3> QED BY <3>1, <3>2, <3>3
  <2>10. r # Av!Idle
    <3>1. Av!Idle.op = "none" BY DEF Av!Idle
    <3> QED BY <2>1, <3>1
  <2>11. r.at \notin {"restart", "cleared"} /\ (\A t \in astray : t \in astray') /\ r.op # "restart"
    BY <1>1, <2>1
  <2> HIDE DEF dealt, mine
  <2> QED BY <1>1, <1>2, <1>6, <1>7, <2>1, <2>2, <2>4, <2>6, <2>8, <2>9, <2>10, <2>11, GoOnKeeps
<1>9. CASE ~(want[u] = "playing" /\ ~Av!refuses(u, "playing"))
  <2>1. call' = [call EXCEPT ![c] = Av!Idle] /\ have' = [have EXCEPT ![u] = TRUE]
    BY <1>9 DEF Av!AfterType, Av!Noted
  <2>2. call'[c] = Av!Idle /\ \A d \in Threads \ {c} : call'[d] = call[d] BY <2>1 DEF DecoderInv, Av!TypeOK
  <2>3. FeedsInv'
    <3>1. feed[u] # Av!NoPid /\ \A d \in Threads \ {c} : ~changes_feed(d)
      BY <1>2 DEF DecoderInv, FeedsInv, changes_feed
    <3>2. \A d \in Threads : ~changes_feed(d)' BY <2>2, <3>1 DEF changes_feed, Av!Idle
    <3>3. ASSUME NEW t \in Av!Types
          PROVE  (feed'[t] # Av!NoPid => pid'[t] = feed'[t]) /\ (have'[t] <=> feed'[t] # Av!NoPid)
      <4>1. feed[t] # Av!NoPid => pid[t] = feed[t] BY DEF DecoderInv, FeedsInv
      <4>2. CASE t = u
        <5>1. have'[t] = TRUE BY <1>1, <2>1, <4>2 DEF DecoderInv, Av!TypeOK
        <5> QED BY <1>1, <3>1, <4>1, <4>2, <5>1
      <4>3. CASE t # u
        <5>1. have'[t] = have[t] BY <2>1, <4>3 DEF DecoderInv, Av!TypeOK
        <5>2. have[t] <=> feed[t] # Av!NoPid BY <3>1, <4>3 DEF DecoderInv, FeedsInv
        <5> QED BY <1>1, <4>1, <5>1, <5>2
      <4> QED BY <4>2, <4>3
    <3> QED BY <3>2, <3>3 DEF FeedsInv, changes_feed
  <2>4. stepped(c)' /\ writes_own(c)'
    BY <2>2 DEF stepped, writes_own, Av!Idle, Av!Untouched, Av!Types, Av!Streams, asideStream
  <2>5. ASSUME NEW t \in Av!Types, mine(c, t), ~switched, t \notin astray' PROVE kept(t, now(t))'
    <3>1. CASE t = u
      <4>1. play[t] = "stopped" /\ now(t) = Av!NoPid BY <1>1, <1>3, <2>5, <3>1
      <4>2. want[t] # "playing" BY <1>9, <3>1, <4>1 DEF Av!refuses
      <4> QED BY <1>1, <1>4, <4>1, <4>2 DEF kept, noted
    <3>2. CASE t # u BY <1>1, <1>3, <1>4, <1>5, <2>5, <3>2 DEF beside
    <3> QED BY <3>1, <3>2
  <2>6. Av!Idle.op = "none" BY DEF Av!Idle
  <2>7. \A t \in astray : t \in astray' BY <1>1
  <2> HIDE DEF mine
  <2> QED BY <1>1, <1>6, <1>7, <2>1, <2>3, <2>4, <2>5, <2>6, <2>7, GoOnKeeps
<1> QED BY <1>8, <1>9

(* A call notes what it did.                                                 *)
LEMMA FinishKeeps ==
  ASSUME DecoderInv, Av!TypeOK', NEW c \in Threads, Av!Finish(c)
  PROVE  DecoderInv'
<1> DEFINE u == call[c].t
           op == call[c].op
           to == call[c].to
<1>1. /\ call[c] \in Av!Calls /\ call[c].at = "accept" /\ ~Av!idle(c) /\ call[c].step # "type" /\ u \in Av!Types
      /\ op \in {"ioctl", "start", "stop", "watch"}
      /\ play' = IF to = "none" THEN play ELSE [play EXCEPT ![u] = to]
      /\ (changed' => changed)
      /\ astray' = IF call[c].whole /\ u \notin call[c].met THEN astray \ {u} ELSE astray
      /\ call' = [call EXCEPT ![c] = Av!Idle]
      /\ UNCHANGED <<source, pid, bypass, selected, feed, switched>>
  BY DEF Av!Finish, DecoderInv, Av!TypeOK, Av!Calls, Av!idle
<1>2. /\ want' = IF op = "ioctl" THEN [want EXCEPT ![u] = to] ELSE want
      /\ have' = CASE op = "start" -> [have EXCEPT ![u] = TRUE]
                   [] op = "stop" -> [have EXCEPT ![u] = FALSE]
                   [] OTHER -> have
  BY DEF Av!Finish, Av!Noted
<1>3. call'[c] = Av!Idle /\ \A d \in Threads \ {c} : call'[d] = call[d] BY <1>1 DEF DecoderInv, Av!TypeOK
<1>4. stepped(c) /\ u \in call[c].touches BY <1>1 DEF DecoderInv, StepsInv, CallsInv
<1>5. \A t : Av!Stream(t)' = Av!Stream(t) /\ now(t)' = now(t) /\ asideStream' = asideStream
  BY <1>1 DEF Av!Stream, Av!audio_stream, now, asideStream
<1>6. \A t \in Av!Types \ {u} : want'[t] = want[t] /\ play'[t] = play[t]
  BY <1>1, <1>2 DEF DecoderInv, Av!TypeOK
<1>7. /\ to # "none" => play'[u] = to
      /\ to = "none" => play'[u] = play[u]
      /\ want'[u] = IF op = "ioctl" THEN to ELSE want[u]
  BY <1>1, <1>2 DEF DecoderInv, Av!TypeOK
<1>8. FeedsInv'
  <2>1. CASE op \in {"ioctl", "watch"}
    <3>1. UNCHANGED <<feed, have, pid>> BY <1>1, <1>2, <2>1
    <3>2. ~changes_feed(c) /\ ~changes_feed(c)' BY <1>3, <2>1 DEF changes_feed, Av!Idle
    <3> QED BY <1>3, <3>1, <3>2, FeedsStay
  <2>2. CASE op \in {"start", "stop"}
    <3>1. /\ op = "start" => feed[u] # Av!NoPid
          /\ op = "stop" => feed[u] = Av!NoPid
          /\ \A d \in Threads \ {c} : ~changes_feed(d)
      BY <2>2 DEF DecoderInv, FeedsInv, changes_feed
    <3>2. \A d \in Threads : ~changes_feed(d)' BY <1>3, <3>1 DEF changes_feed, Av!Idle
    <3>3. ASSUME NEW t \in Av!Types
          PROVE  (feed'[t] # Av!NoPid => pid'[t] = feed'[t]) /\ (have'[t] <=> feed'[t] # Av!NoPid)
      <4>1. feed[t] # Av!NoPid => pid[t] = feed[t] BY DEF DecoderInv, FeedsInv
      <4>2. CASE t = u
        <5>1. have'[t] = (op = "start") BY <1>1, <1>2, <2>2, <4>2 DEF DecoderInv, Av!TypeOK
        <5> QED BY <1>1, <2>2, <3>1, <4>1, <4>2, <5>1
      <4>3. CASE t # u
        <5>1. have'[t] = have[t] BY <1>2, <4>3 DEF DecoderInv, Av!TypeOK
        <5>2. have[t] <=> feed[t] # Av!NoPid BY <3>1, <4>3 DEF DecoderInv, FeedsInv
        <5> QED BY <1>1, <4>1, <5>1, <5>2
      <4> QED BY <4>2, <4>3
    <3> QED BY <3>2, <3>3 DEF FeedsInv, changes_feed
  <2> QED BY <1>1, <2>1, <2>2
<1>9. stepped(c)' /\ writes_own(c)'
  BY <1>3 DEF stepped, writes_own, Av!Idle, Av!Untouched, Av!Types, Av!Streams, asideStream
<1>10. ~switched => selected'[asideStream] = Av!NoPid BY <1>1 DEF DecoderInv, StreamsInv
<1>11. ASSUME NEW t \in Av!Types \ call[c].touches PROVE same_type(t)
  <2>1. t # u BY <1>4, <1>11
  <2> QED BY <1>1, <1>6, <1>11, <2>1 DEF same_type
<1>12. ASSUME NEW t \in Av!Types, mine(c, t), ~switched, t \notin astray' PROVE kept(t, now(t))'
  <2>1. dealt(c, t) BY <1>12 DEF DecoderInv, StreamsInv
  <2>2. soon(c, t) = now(t) BY <1>1 DEF soon
  <2>3. CASE told(c, t)
    <3>1. t = u /\ (op = "stop" => feed[t] = Av!NoPid) /\ play'[t] = to
      BY <1>7, <2>3 DEF told, DecoderInv, FeedsInv
    <3> QED BY <1>1, <1>5, <1>7, <2>2, <2>3, <3>1 DEF told, kept, noted
  <2>4. CASE t \in astray /\ ~(u = t /\ call[c].whole) BY <1>1, <1>12, <2>4
  <2>5. CASE watched(c, t)
    <3>1. play'[t] = play[t] /\ want'[t] = want[t] BY <1>6, <1>7, <2>5 DEF watched
    <3> QED BY <1>1, <1>5, <2>5, <3>1 DEF watched, kept, noted
  <2>6. CASE unfrozen(c, t) BY <1>1, <1>5, <1>7, <2>6 DEF unfrozen, kept, noted
  <2>7. CASE halted(c, t) BY <1>1, <1>5, <1>7, <2>7 DEF halted, kept, noted
  <2>8. CASE beside(c, t)
    <3>1. play'[t] = play[t] /\ want'[t] = want[t] BY <1>6, <2>8 DEF beside
    <3> QED BY <1>1, <1>5, <2>8, <3>1 DEF beside, kept, noted
  <2>9. ~typed(c, t) /\ ~bypassed(c, t) /\ ~restarts(c, t) BY <1>1 DEF typed, bypassed, restarts
  <2> QED BY <2>1, <2>3, <2>4, <2>5, <2>6, <2>7, <2>8, <2>9 DEF dealt
<1>13. \A t \in astray : t \in astray' \/ mine(c, t) BY <1>1, <1>4 DEF mine
<1>14. Av!Idle.op = "none" BY DEF Av!Idle
<1> HIDE DEF mine
<1> QED BY <1>1, <1>3, <1>8, <1>9, <1>10, <1>11, <1>12, <1>13, <1>14, GoOnKeeps

(* The mode changes when nothing plays, or is switched.                      *)
LEMMA FinishBypassKeeps ==
  ASSUME DecoderInv, Av!TypeOK', NEW c \in Threads, Av!FinishBypass(c)
  PROVE  DecoderInv'
<1>1. /\ call[c].op = "bypass" /\ call[c].at = "accept" /\ ~Av!idle(c) /\ changed' = TRUE
      /\ switched' = (switched \/ call[c].met # {} \/ Av!plays("audio") \/ (Avia500 /\ Av!plays("video")))
      /\ call' = [call EXCEPT ![c] = Av!Idle]
      /\ UNCHANGED <<want, source, have, play, pid, selected, feed, astray>>
  BY DEF Av!FinishBypass, Av!idle
<1>2. call'[c] = Av!Idle /\ \A d \in Threads \ {c} : call'[d] = call[d] BY <1>1 DEF DecoderInv, Av!TypeOK
<1>3. Av!Idle.op = "none" /\ Av!Idle.touches = {} BY DEF Av!Idle
<1>4. FeedsInv'
  <2>1. ~changes_feed(c) /\ ~changes_feed(c)' BY <1>1, <1>2, <1>3 DEF changes_feed
  <2> QED BY <1>1, <1>2, <2>1, FeedsStay
<1>5. CASE switched'
  <2>1. CallsInv'
    <3>1. \A t \in astray : t \in astray' \/ mine(c, t) BY <1>1
    <3> HIDE DEF mine
    <3> QED BY <1>1, <3>1, CallsGoOn DEF DecoderInv
  <2>2. StepsInv'
    <3>1. stepped(c)' BY <1>2 DEF stepped, Av!Idle
    <3>2. ASSUME NEW d \in Threads \ {c} PROVE stepped(d)'
      <4>1. stepped(d) BY DEF DecoderInv, StepsInv
      <4> QED BY <1>2, <1>5, <4>1 DEF stepped
    <3> QED BY <3>1, <3>2 DEF StepsInv
  <2>3. StreamsInv' BY <1>5 DEF StreamsInv
  <2>4. ClearedInv'
    <3>1. SUFFICES ASSUME NEW d \in Threads \ {c}, call[d].op = "restart", call[d].met = {} PROVE FALSE
      BY <1>2, <1>3 DEF ClearedInv
    <3>2. call[d].touches = Av!Types /\ call[c].touches = Av!Types BY <1>1, <3>1 DEF DecoderInv, CallsInv
    <3>3. call[d].touches \cap call[c].touches \subseteq call[d].met BY DEF DecoderInv, CallsInv
    <3> QED BY <3>1, <3>2, <3>3, Kinds
  <2> QED BY <1>4, <2>1, <2>2, <2>3, <2>4 DEF DecoderInv
<1>6. CASE ~switched'
  <2>1. /\ ~switched /\ call[c].met = {} /\ play["audio"] = "stopped" /\ "audio" \notin astray
        /\ Avia500 => play["video"] = "stopped" /\ "video" \notin astray
    BY <1>1, <1>6 DEF Av!plays, DecoderInv, Av!TypeOK
  <2>2. ASSUME NEW d \in Threads PROVE call'[d] = Av!Idle
    <3>1. CASE d = c BY <1>2, <3>1
    <3>2. CASE d # c
      <4>1. call[c].touches = Av!Types /\ call[d].touches \cap call[c].touches = {}
        BY <1>1, <2>1, <3>2 DEF DecoderInv, CallsInv
      <4>2. call[d].touches = {} /\ call[d] \in Av!Calls BY <4>1 DEF DecoderInv, Av!TypeOK, Av!Calls
      <4>3. call[d] = Av!Idle BY <4>2 DEF DecoderInv, CallsInv, Av!idle
      <4> QED BY <1>2, <3>2, <4>3
    <3> QED BY <3>1, <3>2
  <2>3. ASSUME NEW t \in Av!Types, t \notin astray PROVE bypassed(c, t)
    <3>1. mine(c, t)
      <4>1. call[c].touches = Av!Types BY <1>1 DEF DecoderInv, CallsInv
      <4> QED BY <2>1, <4>1 DEF mine
    <3>2. dealt(c, t) BY <2>1, <3>1 DEF DecoderInv, StreamsInv
    <3> QED BY <1>1, <2>3, <3>2 DEF dealt, told, watched, unfrozen, halted, typed, beside, restarts
  <2>4. selected[asideStream] = Av!NoPid /\ selected[Av!audio_stream] = Av!NoPid
    <3>1. selected[asideStream] = Av!NoPid BY <2>1 DEF DecoderInv, StreamsInv
    <3>2. noted("audio", now("audio")) BY <2>1, <2>3, Kinds DEF bypassed
    <3> QED BY <2>1, <3>1, <3>2, Kinds DEF noted, now
  <2>5. selected[2] = Av!NoPid /\ selected[3] = Av!NoPid BY <2>4 DEF asideStream, Av!audio_stream
  <2>6. selected'[asideStream'] = Av!NoPid BY <1>1, <2>5 DEF asideStream
  <2>7. ASSUME NEW t \in Av!Types, t \notin astray' PROVE kept(t, now(t))'
    <3>1. t \notin astray /\ bypassed(c, t) BY <1>1, <2>3, <2>7
    <3>2. CASE t = "audio"
      <4>1. now(t)' = Av!NoPid BY <1>1, <2>5, <3>2, Kinds DEF now, Av!Stream, Av!audio_stream
      <4>2. noted(t, now(t)) /\ play[t] = "stopped" BY <2>1, <3>1, <3>2 DEF bypassed
      <4> QED BY <1>1, <3>2, <4>1, <4>2 DEF kept, noted
    <3>3. CASE t = "video"
      <4>1. now(t)' = now(t) BY <1>1, <3>3 DEF now, Av!Stream
      <4>2. CASE Avia500
        <5>1. play[t] = "stopped" /\ noted(t, now(t)) BY <2>1, <3>1, <3>3, <4>2 DEF bypassed
        <5> QED BY <1>1, <4>1, <5>1 DEF kept, noted
      <4>3. CASE ~Avia500
        <5>1. kept(t, now(t)) BY <3>1, <4>3 DEF bypassed
        <5> QED BY <1>1, <4>1, <5>1 DEF kept, noted
      <4> QED BY <4>2, <4>3
    <3> QED BY <3>2, <3>3 DEF Av!Types
  <2> QED BY <1>4, <2>2, <2>6, <2>7, AloneKeeps
<1> QED BY <1>5, <1>6

(* A time-out makes everything astray, and all calls have met it.            *)
LEMMA TimesOutKeeps ==
  ASSUME DecoderInv, Av!TypeOK', NEW c \in Threads, Av!TimesOut(c)
  PROVE  DecoderInv'
<1>1. /\ call[c].op \notin {"none", "restart"} /\ astray' = Av!Types
      /\ call' = [d \in Threads |-> IF d = c THEN [call[d] EXCEPT !.at = "restart", !.touches = Av!Types, !.met = Av!Types]
                                     ELSE [call[d] EXCEPT !.met = @ \cup call[d].touches]]
      /\ selected' = [s \in Av!Streams |-> Av!NoPid]
      /\ UNCHANGED <<want, source, have, play, pid, bypass, changed, feed, switched>>
  BY DEF Av!TimesOut, Av!Upset, DecoderInv, Av!TypeOK
<1>2. ASSUME NEW d \in Threads
      PROVE  /\ call[d] \in Av!Calls /\ call'[d].op = call[d].op /\ call'[d].t = call[d].t
             /\ call'[d].to = call[d].to /\ call'[d].step = call[d].step /\ call'[d].whole = call[d].whole
             /\ call'[d].cmd = call[d].cmd
             /\ d = c => call'[d].at = "restart" /\ call'[d].touches = Av!Types /\ call'[d].met = Av!Types
             /\ d # c => /\ call'[d].at = call[d].at /\ call'[d].touches = call[d].touches
                         /\ call'[d].met = call[d].touches /\ (call[d] = Av!Idle => call'[d] = Av!Idle)
  <2>1. call[d] \in Av!Calls /\ call[d].met \subseteq call[d].touches BY DEF DecoderInv, Av!TypeOK, CallsInv
  <2>2. CASE d = c BY <1>1, <2>1, <2>2 DEF Av!Calls
  <2>3. CASE d # c
    <3>1. call'[d] = [call[d] EXCEPT !.met = @ \cup call[d].touches] BY <1>1, <2>3
    <3>2. call[d] = Av!Idle => call'[d] = Av!Idle
      <4>1. SUFFICES ASSUME call[d] = Av!Idle PROVE [Av!Idle EXCEPT !.met = @ \cup Av!Idle.touches] = Av!Idle
        BY <3>1
      <4> QED BY DEF Av!Idle
    <3> QED BY <2>1, <2>3, <3>1, <3>2 DEF Av!Calls
  <2> QED BY <2>2, <2>3
<1>3. CallsInv'
  <2>1. ASSUME NEW d \in Threads
        PROVE  /\ Av!idle(d)' => call'[d] = Av!Idle
               /\ ~Av!idle(d)' => call'[d].t \in call'[d].touches
               /\ call'[d].op \in {"bypass", "restart"} \/ call'[d].at \in {"restart", "cleared"} =>
                    call'[d].touches = Av!Types
               /\ call'[d].op # "restart" /\ call'[d].at \in {"restart", "cleared"} => call'[d].met = Av!Types
               /\ call'[d].op = "restart" => call'[d].at \in {"restart", "cleared"}
               /\ call'[d].met \subseteq call'[d].touches
               /\ call'[d].met \subseteq astray'
               /\ \A e \in Threads \ {d} : call'[d].touches \cap call'[e].touches \subseteq call'[d].met
    <3>1. CASE d = c
      <4>1. call[d].t \in Av!Types /\ call'[d].touches = Av!Types /\ call'[d].met = Av!Types
        BY <1>2, <3>1 DEF Av!Calls
      <4>2. \A e \in Threads : call'[e].touches \subseteq Av!Types BY <1>2 DEF Av!Calls
      <4> QED BY <1>1, <1>2, <3>1, <4>1, <4>2 DEF Av!idle
    <3>2. CASE d # c
      <4>1. call[d].touches \in SUBSET Av!Types BY <1>2 DEF Av!Calls
      <4>2. /\ Av!idle(d) => call[d] = Av!Idle
            /\ ~Av!idle(d) => call[d].t \in call[d].touches
            /\ call[d].op \in {"bypass", "restart"} \/ call[d].at \in {"restart", "cleared"} =>
                 call[d].touches = Av!Types
            /\ call[d].op = "restart" => call[d].at \in {"restart", "cleared"}
        BY DEF DecoderInv, CallsInv
      <4>3. Av!idle(d)' => call'[d] = Av!Idle BY <1>2, <3>2, <4>2 DEF Av!idle
      <4>4. ~Av!idle(d)' => call'[d].t \in call'[d].touches BY <1>2, <3>2, <4>2 DEF Av!idle
      <4> QED BY <1>1, <1>2, <3>2, <4>1, <4>2, <4>3, <4>4
    <3> QED BY <3>1, <3>2
  <2> QED BY <2>1 DEF CallsInv
<1>4. StepsInv'
  <2>1. SUFFICES ASSUME NEW d \in Threads PROVE stepped(d)'
    BY DEF StepsInv
  <2>2. stepped(d) /\ (Av!may_play_again' <=> Av!may_play_again)
    BY <1>1 DEF DecoderInv, StepsInv, Av!may_play_again
  <2>3. call'[d].touches = Av!Types \/ call'[d].touches = call[d].touches BY <1>2
  <2> QED BY <1>1, <1>2, <2>2, <2>3 DEF stepped
<1>5. FeedsInv' BY <1>1, <1>2, FeedsStay
<1>6. StreamsInv'
  <2>1. SUFFICES ASSUME ~switched PROVE StreamsInv' BY <1>1 DEF StreamsInv
  <2>2. selected'[asideStream'] = Av!NoPid BY <1>1, Kinds DEF asideStream
  <2>3. ASSUME NEW d \in Threads PROVE writes_own(d)'
    <3>1. asideStream' = asideStream BY <1>1 DEF asideStream
    <3> QED BY <1>2, <2>1, <3>1 DEF DecoderInv, StreamsInv, writes_own
  <2>4. \A d \in Threads, t \in Av!Types : ~mine(d, t)' BY <1>2 DEF mine
  <2> QED BY <1>1, <2>2, <2>3, <2>4 DEF StreamsInv
<1>7. ClearedInv' BY <1>1 DEF ClearedInv
<1> QED BY <1>3, <1>4, <1>5, <1>6, <1>7 DEF DecoderInv

(* The driver notes that all is stopped; only a restart that nobody met makes*)
(* everything right.                                                         *)
LEMMA RestartedKeeps ==
  ASSUME DecoderInv, Av!TypeOK', NEW c \in Threads, Av!Restarted(c)
  PROVE  DecoderInv'
<1> DEFINE alone == call[c].op = "restart" /\ call[c].met = {}
           r == IF call[c].op = "restart" THEN Av!Idle ELSE [call[c] EXCEPT !.at = "accept"]
<1>1. /\ call[c] \in Av!Calls /\ call[c].at = "cleared" /\ play' = Av!Both("stopped")
      /\ switched' = (switched /\ ~alone)
      /\ astray' = (IF alone THEN {} ELSE astray) \cup {t \in Av!Types : feed[t] # Av!NoPid}
      /\ call' = [call EXCEPT ![c] = r]
      /\ UNCHANGED <<want, source, have, pid, bypass, changed, selected, feed>>
  BY DEF Av!Restarted, DecoderInv, Av!TypeOK
<1>2. /\ ~Av!idle(c) /\ call[c].touches = Av!Types /\ (call[c].op # "restart" => call[c].met = Av!Types)
  <2>1. Av!Idle.at = "write" BY DEF Av!Idle
  <2> QED BY <1>1, <2>1 DEF DecoderInv, CallsInv
<1>3. Av!Idle.op = "none" BY DEF Av!Idle
<1>4. CASE call[c].op # "restart"
  <2>1. /\ r.op = call[c].op /\ r.t = call[c].t /\ r.touches = call[c].touches /\ r.met = call[c].met
        /\ r.to = call[c].to /\ r.step = call[c].step /\ r.at = "accept" /\ r # Av!Idle
    BY <1>1, <1>2, <1>3, <1>4 DEF Av!Calls, Av!idle
  <2> HIDE DEF r
  <2>2. call'[c] = r /\ \A d \in Threads \ {c} : call'[d] = call[d] BY <1>1 DEF DecoderInv, Av!TypeOK
  <2>3. FeedsInv' BY <1>1, <2>1, <2>2, FeedsStay
  <2>4. switched' = switched /\ \A t \in astray : t \in astray' BY <1>1, <1>4 DEF DecoderInv, Av!TypeOK
  <2>5. stepped(c)'
    <3>1. Av!may_play_again' <=> Av!may_play_again BY <1>1 DEF Av!may_play_again
    <3>2. stepped(c) BY DEF DecoderInv, StepsInv
    <3> QED BY <2>1, <2>2, <2>4, <3>1, <3>2 DEF stepped
  <2>6. writes_own(c)' BY <2>1, <2>2 DEF writes_own
  <2>7. ~switched => selected'[asideStream] = Av!NoPid BY <1>1 DEF DecoderInv, StreamsInv
  <2>8. \A t \in Av!Types : ~mine(c, t) BY <1>2, <1>4 DEF mine
  <2>9. (changed' => changed) /\ Av!Types \ call[c].touches = {} BY <1>1, <1>2
  <2> HIDE DEF mine
  <2> QED BY <1>1, <1>2, <1>4, <2>1, <2>3, <2>4, <2>5, <2>6, <2>7, <2>8, <2>9, GoOnKeeps
<1>5. CASE call[c].op = "restart" /\ call[c].met # {}
  <2>1. r = Av!Idle /\ ~alone BY <1>5
  <2> HIDE DEF r, alone
  <2>2. call'[c] = Av!Idle /\ \A d \in Threads \ {c} : call'[d] = call[d]
    BY <1>1, <2>1 DEF DecoderInv, Av!TypeOK
  <2>3. FeedsInv'
    <3>1. ~changes_feed(c) /\ ~changes_feed(c)' BY <1>3, <1>5, <2>2 DEF changes_feed
    <3> QED BY <1>1, <2>2, <3>1, FeedsStay
  <2>4. switched' = switched /\ \A t \in astray : t \in astray' BY <1>1, <2>1 DEF DecoderInv, Av!TypeOK
  <2>5. stepped(c)' /\ writes_own(c)'
    BY <2>2 DEF stepped, writes_own, Av!Idle, Av!Untouched, Av!Types, Av!Streams, asideStream
  <2>6. ~switched => selected'[asideStream] = Av!NoPid BY <1>1 DEF DecoderInv, StreamsInv
  <2>7. ASSUME NEW t \in Av!Types, mine(c, t), ~switched, t \notin astray' PROVE kept(t, now(t))'
    <3>1. feed[t] = Av!NoPid /\ t \notin astray BY <1>1, <2>1, <2>7
    <3>2. dealt(c, t) BY <2>7 DEF DecoderInv, StreamsInv
    <3>3. now(t) = Av!NoPid
      BY <1>1, <1>5, <3>1, <3>2 DEF dealt, told, watched, unfrozen, halted, typed, beside, bypassed,
         restarts
    <3>4. now(t)' = now(t) /\ feed'[t] = Av!NoPid BY <1>1, <3>1 DEF now, Av!Stream, Av!audio_stream
    <3> QED BY <3>3, <3>4 DEF kept, noted
  <2>8. (changed' => changed) /\ Av!Types \ call[c].touches = {} BY <1>1, <1>2
  <2> HIDE DEF mine
  <2> QED BY <1>1, <1>2, <1>3, <2>1, <2>3, <2>4, <2>5, <2>6, <2>7, <2>8, GoOnKeeps
<1>6. CASE alone
  <2>1. ASSUME NEW d \in Threads PROVE call'[d] = Av!Idle
    <3>1. CASE d = c BY <1>1, <1>6, <3>1 DEF DecoderInv, Av!TypeOK
    <3>2. CASE d # c
      <4>1. call[d].touches \cap call[c].touches = {} BY <1>6, <3>2 DEF DecoderInv, CallsInv
      <4>2. call[d].touches = {} BY <1>2, <4>1 DEF DecoderInv, Av!TypeOK, Av!Calls
      <4>3. call[d] = Av!Idle BY <4>2 DEF DecoderInv, CallsInv, Av!idle
      <4> QED BY <1>1, <3>2, <4>3 DEF DecoderInv, Av!TypeOK
    <3> QED BY <3>1, <3>2
  <2>2. FeedsInv'
    <3>1. ~changes_feed(c) /\ \A d \in Threads : ~changes_feed(d)'
      BY <1>3, <1>6, <2>1 DEF changes_feed
    <3>2. \A d \in Threads \ {c} : call'[d] = call[d] BY <1>1 DEF DecoderInv, Av!TypeOK
    <3> QED BY <1>1, <3>1, <3>2, FeedsStay
  <2>3. selected' = [s \in Av!Streams |-> Av!NoPid] BY <1>1, <1>6 DEF DecoderInv, ClearedInv
  <2>4. selected'[asideStream'] = Av!NoPid BY <2>3 DEF asideStream, Av!Streams
  <2>5. ASSUME NEW t \in Av!Types, t \notin astray' PROVE kept(t, now(t))'
    <3>1. feed'[t] = Av!NoPid BY <1>1, <2>5
    <3>2. now(t)' = Av!NoPid BY <2>3, <2>5 DEF now, Av!Stream, Av!audio_stream, Av!Streams
    <3> QED BY <3>1, <3>2 DEF kept, noted
  <2> QED BY <2>1, <2>2, <2>4, <2>5, AloneKeeps
<1> QED BY <1>4, <1>5, <1>6

(* It holds at first.                                                        *)
LEMMA DecoderInvInit == ASSUME Av!ConfigAssumption, Av!Init PROVE DecoderInv
<1>1. Av!Idle \in Av!Calls BY CommandsTyped DEF Av!Idle, Av!Calls, Av!Untouched, Av!Types, Av!States
<1>2. Av!TypeOK BY <1>1 DEF Av!Init, Av!TypeOK, Av!Both, Av!States, Av!Types
<1>3. CallsInv /\ StepsInv BY DEF Av!Init, CallsInv, StepsInv, stepped, Av!idle, Av!Idle
<1>4. FeedsInv BY DEF Av!Init, FeedsInv, Av!Both, Av!Idle, changes_feed
<1>5. StreamsInv
  <2>1. \A c \in Threads : writes_own(c) BY Kinds DEF Av!Init, writes_own, Av!Idle, Av!Untouched
  <2>2. \A c \in Threads, t \in Av!Types : ~mine(c, t) BY DEF Av!Init, mine, Av!Idle
  <2>3. \A t \in Av!Types : kept(t, now(t)) BY Kinds DEF Av!Init, kept, noted, now, Av!Both
  <2>4. selected[asideStream] = Av!NoPid BY Kinds DEF Av!Init
  <2> QED BY <2>1, <2>2, <2>3, <2>4 DEF StreamsInv
<1>6. ClearedInv BY DEF Av!Init, ClearedInv
<1> QED BY <1>2, <1>3, <1>4, <1>5, <1>6 DEF DecoderInv

(* It is kept by every step.                                                 *)
LEMMA DecoderStep ==
  ASSUME Av!ConfigAssumption, Av!PidsAssumption, DecoderInv, [Av!Next]_decoderVars
  PROVE  DecoderInv'
<1>1. Av!TypeOK' BY TypeKept DEF DecoderInv
<1>2. ASSUME NEW t \in Av!Types, NEW c \in Threads \ {Watchdog},
             \/ Av!Stop(c, t) \/ Av!PlayIoctl(c, t) \/ Av!Pause(c, t) \/ Av!Continue(c, t)
             \/ Av!avia_av_napi_decoder_stop(c, t)
      PROVE  DecoderInv'
  BY <1>1, <1>2, IoctlKeeps
<1>3. ASSUME NEW t \in Av!Types, NEW c \in Threads \ {Watchdog}, NEW p \in AvPids,
             Av!avia_av_napi_decoder_start(c, t, p)
      PROVE  DecoderInv'
  BY <1>1, <1>3, StartKeeps
<1>4. ASSUME NEW t \in Av!Types, Av!Watch(t) PROVE DecoderInv' BY <1>1, <1>4, WatchKeeps
<1>5. ASSUME NEW t \in Av!Types, NEW src \in {"demux", "memory"}, Av!SelectSource(t, src) PROVE DecoderInv'
  <2>1. UNCHANGED <<want, have, play, pid, bypass, changed, selected, call, feed, astray, switched>>
    BY <1>5 DEF Av!SelectSource
  <2> QED BY <1>1, <2>1, StutterKeeps
<1>6. ASSUME NEW c \in Threads \ {Watchdog}, NEW enable \in BOOLEAN, Av!SetBypass(c, enable) PROVE DecoderInv'
  BY <1>1, <1>6, BypassKeeps
<1>7. ASSUME NEW c \in Threads \ {Watchdog}, Av!avia_av_standby(c) PROVE DecoderInv'
  BY <1>1, <1>7, StandbyKeeps
<1>8. ASSUME NEW c \in Threads,
             \/ Av!WriteCommand(c) \/ Av!NextCommand(c) \/ Av!AfterType(c) \/ Av!Finish(c) \/ Av!FinishBypass(c)
             \/ Av!TimesOut(c) \/ Av!ClearStreams(c) \/ Av!Restarted(c)
      PROVE  DecoderInv'
  BY <1>1, <1>8, WriteKeeps, NextCommandKeeps, AfterTypeKeeps, FinishKeeps, FinishBypassKeeps,
     TimesOutKeeps, ClearKeeps, RestartedKeeps
<1>9. CASE UNCHANGED decoderVars
  <2>1. UNCHANGED <<want, have, play, pid, bypass, changed, selected, call, feed, astray, switched>>
    BY <1>9 DEF decoderVars
  <2> QED BY <1>1, <2>1, StutterKeeps
<1> QED BY <1>2, <1>3, <1>4, <1>5, <1>6, <1>7, <1>8, <1>9 DEF Av!Next

(* It is what the property says.                                             *)
LEMMA DecoderInvPlays == DecoderInv => Av!PlaysItsFeed
<1>1. SUFFICES ASSUME DecoderInv, ~switched, NEW t \in Av!Types, Av!quiet(t), t \notin astray
               PROVE  /\ feed[t] # Av!NoPid /\ want[t] = "playing" =>
                           play[t] = "playing" /\ selected[Av!Stream(t)] = feed[t]
                      /\ play[t] = "stopped" => selected[Av!Stream(t)] = Av!NoPid
  BY DEF Av!PlaysItsFeed
<1>2. kept(t, now(t)) BY <1>1 DEF DecoderInv, StreamsInv
<1>3. feed[t] # Av!NoPid => pid[t] = feed[t] BY <1>1 DEF DecoderInv, FeedsInv
<1> QED BY <1>2, <1>3 DEF kept, noted, now

-----------------------------------------------------------------------------
(* EventQueues: as long as no reader was overtaken, what nobody has read is   *)
(* what lies between the ring's positions, and who goes to take an event     *)
(* finds one.                                                                *)

ringed == IF eventRing.r <= eventRing.w THEN eventRing.w - eventRing.r
          ELSE eventRing.w - eventRing.r + MaxVideo
EventsInv ==
  /\ size \in Shapes /\ seen \in Shapes
  /\ handle \in [Handles -> [open : BOOLEAN, filter : BOOLEAN, waiting : 0 .. BufferSize,
                             reader : {"idle", "entered", "asleep", "running"}]]
  /\ eventRing \in [r : 0 .. MaxVideo - 1, w : 0 .. MaxVideo - 1, overflow : BOOLEAN]
  /\ place \in [Readers -> {"idle", "asleep", "take"}]
  /\ freshEvents \in 0 .. MaxVideo - 1 /\ stale \in BOOLEAN /\ raced \in BOOLEAN
  /\ ~raced =>
       /\ ~stale /\ freshEvents = ringed
       /\ \A p \in Readers : place[p] = "take" => freshEvents >= 1

LEMMA EventsInvInit == ASSUME Events!EventAssumption, Events!Init PROVE EventsInv
<1>1. 0 \in 0 .. BufferSize /\ 0 \in 0 .. MaxVideo - 1 /\ 0 - 0 = 0 /\ 0 <= 0
  BY DEF Events!EventAssumption
<1>2. handle \in [Handles -> [open : BOOLEAN, filter : BOOLEAN, waiting : 0 .. BufferSize,
                             reader : {"idle", "entered", "asleep", "running"}]]
  BY <1>1 DEF Events!Init, Events!Closed
<1>3. ringed = 0 BY <1>1 DEF Events!Init, ringed
<1> QED BY <1>1, <1>2, <1>3 DEF Events!Init, EventsInv

LEMMA EventsInvTypes ==
  ASSUME EventsInv PROVE Events!TypeOK /\ Events!OldEventsOnlyAfterRace
BY DEF EventsInv, Events!TypeOK, Events!OldEventsOnlyAfterRace

LEMMA EventsStep ==
  ASSUME Events!EventAssumption, EventsInv, [Events!Next]_eventsVars
  PROVE  EventsInv'
<1>0. BufferSize \in Nat \ {0} /\ MaxVideo \in Nat /\ MaxVideo >= 2
  BY DEF Events!EventAssumption
<1> DEFINE States == [open : BOOLEAN, filter : BOOLEAN, waiting : 0 .. BufferSize,
                      reader : {"idle", "entered", "asleep", "running"}]
<1>h. ASSUME handle' \in [Handles -> States], seen' \in Shapes,
             UNCHANGED <<size, eventRing, place, freshEvents, stale, raced>>
      PROVE  EventsInv'
  BY <1>h DEF EventsInv, ringed
<1>m. ASSUME NEW n \in 0 .. MaxVideo - 1
      PROVE  (n + 1) % MaxVideo = (IF n + 1 < MaxVideo THEN n + 1 ELSE 0)
  <2> DEFINE x == n + 1
  <2>1. x \in -MaxVideo .. 2 * MaxVideo - 1 /\ ~(x < 0) /\ MaxVideo \in Nat \ {0} BY <1>0
  <2>2. x < MaxVideo \/ x - MaxVideo = 0 BY <1>0
  <2> HIDE DEF x
  <2>3. x % MaxVideo = IF x < MaxVideo THEN x ELSE 0 BY <2>1, <2>2, Modulo
  <2> QED BY <2>3 DEF x
<1>1. ASSUME NEW s \in Shapes, Events!SizeChanges(s) PROVE EventsInv'
  <2>1. /\ size' = s /\ eventRing' = Events!added
        /\ freshEvents' = (IF freshEvents = MaxVideo - 1 THEN freshEvents ELSE freshEvents + 1)
        /\ place' = [p \in Readers |-> IF place[p] = "asleep" THEN "take" ELSE place[p]]
        /\ UNCHANGED <<seen, handle, stale, raced>>
    BY <1>1 DEF Events!SizeChanges
  <2> DEFINE w == IF eventRing.w + 1 < MaxVideo THEN eventRing.w + 1 ELSE 0
             r == IF eventRing.r + 1 < MaxVideo THEN eventRing.r + 1 ELSE 0
  <2>2. eventRing.w \in 0 .. MaxVideo - 1 /\ eventRing.r \in 0 .. MaxVideo - 1
    BY DEF EventsInv
  <2>3. eventRing' = IF w = eventRing.r THEN [r |-> r, w |-> w, overflow |-> TRUE]
                     ELSE [eventRing EXCEPT !.w = w]
    BY <1>m, <2>1, <2>2 DEF Events!added
  <2>4. eventRing' \in [r : 0 .. MaxVideo - 1, w : 0 .. MaxVideo - 1, overflow : BOOLEAN]
    BY <1>0, <2>2, <2>3 DEF EventsInv
  <2>5. ASSUME ~raced PROVE freshEvents' = ringed'
    <3>1. freshEvents = ringed BY <2>5 DEF EventsInv
    <3>2. CASE w = eventRing.r
      <4>1. eventRing'.r = r /\ eventRing'.w = w BY <2>3, <3>2
      <4> QED BY <1>0, <2>1, <2>2, <3>1, <3>2, <4>1 DEF ringed
    <3>3. CASE w # eventRing.r
      <4>1. eventRing'.r = eventRing.r /\ eventRing'.w = w BY <2>3, <3>3 DEF EventsInv
      <4> QED BY <1>0, <2>1, <2>2, <3>1, <3>3, <4>1 DEF ringed
    <3> QED BY <3>2, <3>3
  <2>6. freshEvents' \in 0 .. MaxVideo - 1 /\ freshEvents' >= 1 BY <1>0, <2>1 DEF EventsInv
  <2> HIDE DEF w, r
  <2> QED BY <2>1, <2>4, <2>5, <2>6 DEF EventsInv
<1>2. CASE Events!TimerLook
  <2>1. ASSUME NEW h \in Handles PROVE Events!offered(h) \in States
    <3>1. handle[h] \in States BY DEF EventsInv
    <3>2. handle[h].waiting < BufferSize => handle[h].waiting + 1 \in 0 .. BufferSize
      BY <1>0, <3>1
    <3>3. Events!offered(h) =
            [handle[h] EXCEPT
               !.waiting = IF handle[h].open /\ handle[h].filter /\ handle[h].waiting < BufferSize
                           THEN handle[h].waiting + 1 ELSE handle[h].waiting,
               !.reader = IF handle[h].reader = "asleep" THEN "running" ELSE handle[h].reader]
      BY DEF Events!offered
    <3> QED BY <3>1, <3>2, <3>3
  <2>2. handle' = [h \in Handles |-> Events!offered(h)] /\ seen' = size
        /\ UNCHANGED <<size, eventRing, place, freshEvents, stale, raced>>
    BY <1>2 DEF Events!TimerLook
  <2> QED BY <1>h, <2>1, <2>2 DEF EventsInv
<1>3. ASSUME NEW h \in Handles,
             \/ Events!event_open(h) \/ Events!event_release(h) \/ Events!EnterRead(h)
             \/ Events!TakeEvent(h) \/ Events!FallAsleep(h) \/ Events!ReadNothing(h)
             \/ \E t \in BOOLEAN : Events!SetFilter(h, t)
      PROVE  EventsInv'
  <2>1. UNCHANGED <<size, seen, eventRing, place, freshEvents, stale, raced>>
    BY <1>3 DEF Events!event_open, Events!event_release, Events!EnterRead, Events!TakeEvent,
       Events!FallAsleep, Events!ReadNothing, Events!SetFilter
  <2>2. handle \in [Handles -> States] /\ seen \in Shapes BY DEF EventsInv
  <2>3. Events!Closed = [open |-> FALSE, filter |-> FALSE, waiting |-> 0, reader |-> "idle"]
    BY DEF Events!Closed
  <2>4. \/ handle' = [handle EXCEPT ![h] = [Events!Closed EXCEPT !.open = TRUE, !.filter = TRUE]]
        \/ handle' = [handle EXCEPT ![h] = Events!Closed]
        \/ \E t \in BOOLEAN : handle' = [handle EXCEPT ![h].filter = t]
        \/ \E x \in {"idle", "entered", "asleep"} : handle' = [handle EXCEPT ![h].reader = x]
        \/ handle[h].waiting > 0
           /\ handle' = [handle EXCEPT ![h].waiting = @ - 1, ![h].reader = "idle"]
    BY <1>3 DEF Events!event_open, Events!event_release, Events!EnterRead, Events!TakeEvent,
       Events!FallAsleep, Events!ReadNothing, Events!SetFilter
  <2>5. handle' \in [Handles -> States]
    <3>1. 0 \in 0 .. BufferSize BY <1>0
    <3>2. handle[h].waiting > 0 => handle[h].waiting - 1 \in 0 .. BufferSize BY <1>0, <2>2
    <3>3. Events!Closed \in States /\ [Events!Closed EXCEPT !.open = TRUE, !.filter = TRUE] \in States
      BY <2>3, <3>1
    <3>4. CASE \/ handle' = [handle EXCEPT ![h] = [Events!Closed EXCEPT !.open = TRUE, !.filter = TRUE]]
               \/ handle' = [handle EXCEPT ![h] = Events!Closed]
      <4> HIDE DEF States
      <4> QED BY <2>2, <3>3, <3>4
    <3>5. CASE \/ \E t \in BOOLEAN : handle' = [handle EXCEPT ![h].filter = t]
               \/ \E x \in {"idle", "entered", "asleep"} : handle' = [handle EXCEPT ![h].reader = x]
      BY <2>2, <3>5
    <3>6. CASE /\ handle[h].waiting > 0
               /\ handle' = [handle EXCEPT ![h].waiting = @ - 1, ![h].reader = "idle"]
      <4> DEFINE e == [handle[h] EXCEPT !.waiting = handle[h].waiting - 1, !.reader = "idle"]
      <4>1. e \in States BY <2>2, <3>2, <3>6
      <4>2. handle' = [handle EXCEPT ![h] = e] BY <2>2, <3>6
      <4> HIDE DEF e, States
      <4> QED BY <2>2, <4>1, <4>2
    <3> QED BY <2>4, <3>4, <3>5, <3>6
  <2> QED BY <1>h, <2>1, <2>2, <2>5
<1>4. ASSUME NEW p \in Readers, Events!VideoLook(p) PROVE EventsInv'
  <2>1. CASE eventRing.overflow
    BY <1>4, <2>1 DEF Events!VideoLook, EventsInv, ringed
  <2>2. CASE ~eventRing.overflow
    <3>1. /\ place' = [place EXCEPT ![p] = IF eventRing.r = eventRing.w THEN "asleep" ELSE "take"]
          /\ UNCHANGED <<size, seen, handle, eventRing, freshEvents, stale, raced>>
      BY <1>4, <2>2 DEF Events!VideoLook, Events!empty
    <3>2. eventRing.r # eventRing.w => ringed >= 1 BY <1>0 DEF EventsInv, ringed
    <3> QED BY <3>1, <3>2 DEF EventsInv, ringed
  <2> QED BY <2>1, <2>2
<1>5. ASSUME NEW p \in Readers, Events!VideoTake(p) PROVE EventsInv'
  <2>1. /\ place[p] = "take" /\ place' = [place EXCEPT ![p] = "idle"]
        /\ stale' = (stale \/ freshEvents = 0)
        /\ freshEvents' = (IF freshEvents = 0 THEN 0 ELSE freshEvents - 1)
        /\ raced' = (raced \/ \E q \in Readers \ {p} : place[q] = "take")
        /\ UNCHANGED <<size, seen, handle>>
        /\ eventRing' = [eventRing EXCEPT !.r = (@ + 1) % MaxVideo]
    BY <1>5 DEF Events!VideoTake, Events!Took
  <2>2. eventRing.w \in 0 .. MaxVideo - 1 /\ eventRing.r \in 0 .. MaxVideo - 1
        /\ freshEvents \in 0 .. MaxVideo - 1
    BY DEF EventsInv
  <2>3. eventRing' = [eventRing EXCEPT !.r = IF eventRing.r + 1 < MaxVideo
                                             THEN eventRing.r + 1 ELSE 0]
    BY <1>m, <2>1, <2>2
  <2>4. eventRing' \in [r : 0 .. MaxVideo - 1, w : 0 .. MaxVideo - 1, overflow : BOOLEAN]
    BY <1>0, <2>2, <2>3 DEF EventsInv
  <2>5. freshEvents' \in 0 .. MaxVideo - 1 /\ raced' \in BOOLEAN /\ stale' \in BOOLEAN
    BY <1>0, <2>1, <2>2 DEF EventsInv
  <2>6. ASSUME ~raced'
        PROVE  /\ ~stale' /\ freshEvents' = ringed'
               /\ \A q \in Readers : place'[q] # "take"
    <3>1. ~raced /\ \A q \in Readers \ {p} : place[q] # "take" BY <2>1, <2>6
    <3>2. freshEvents = ringed /\ freshEvents >= 1 /\ ~stale BY <2>1, <3>1 DEF EventsInv
    <3>6. freshEvents # 0 BY <2>2, <3>2
    <3>3. freshEvents' = freshEvents - 1 /\ ~stale' BY <2>1, <3>2, <3>6
    <3>4. /\ eventRing'.w = eventRing.w
          /\ eventRing'.r = IF eventRing.r + 1 < MaxVideo THEN eventRing.r + 1 ELSE 0
      BY <2>3 DEF EventsInv
    <3>5. freshEvents' = ringed' BY <1>0, <2>2, <3>2, <3>3, <3>4 DEF ringed
    <3> QED BY <2>1, <3>1, <3>3, <3>5 DEF EventsInv
  <2>7. place' \in [Readers -> {"idle", "asleep", "take"}] BY <2>1 DEF EventsInv
  <2> QED BY <2>1, <2>4, <2>5, <2>6, <2>7 DEF EventsInv
<1>6. ASSUME NEW p \in Readers, Events!VideoSignal(p) PROVE EventsInv'
  BY <1>6 DEF Events!VideoSignal, EventsInv, ringed
<1>7. CASE Events!VideoOpen
  <2>1. /\ eventRing' = [eventRing EXCEPT !.r = 0, !.w = 0] /\ freshEvents' = 0
        /\ raced' = (raced \/ \E q \in Readers : place[q] = "take")
        /\ UNCHANGED <<size, seen, handle, place, stale>>
    BY <1>7 DEF Events!VideoOpen
  <2>4. 0 \in 0 .. MaxVideo - 1 BY <1>0
  <2>2. eventRing'.r = 0 /\ eventRing'.w = 0
        /\ eventRing' \in [r : 0 .. MaxVideo - 1, w : 0 .. MaxVideo - 1, overflow : BOOLEAN]
    BY <2>1, <2>4 DEF EventsInv
  <2>3. raced' \in BOOLEAN /\ ringed' = 0 BY <2>1, <2>2 DEF EventsInv, ringed
  <2> QED BY <1>0, <2>1, <2>2, <2>3 DEF EventsInv
<1>8. CASE UNCHANGED eventsVars BY <1>8 DEF eventsVars, EventsInv, ringed
<1> QED BY <1>1, <1>2, <1>3, <1>4, <1>5, <1>6, <1>7, <1>8 DEF Events!Next

-----------------------------------------------------------------------------
(* The systems run by themselves: a step is one of a system or none.         *)

LEMMA RingIdleOrRuns == ASSUME [AnyNext]_anyVars PROVE [Ring!Next]_ringVars
BY DEF AnyNext, anyVars, ringVars, Main, RunFeeding, RunRing, RunUcode, RunPlayback, RunClock,
   RunCommand, RunDecoder, RunSizes, RunScreen, RunCopyArea, RunLirc, RunPulses, RunKeys,
   RunSound, RunPicture

LEMMA PlaybackIdleOrRuns == ASSUME [AnyNext]_anyVars PROVE [Playback!Next]_playbackVars
BY DEF AnyNext, anyVars, playbackVars, Main, RunFeeding, RunRing, RunUcode, RunPlayback, RunClock,
   RunCommand, RunDecoder, RunSizes, RunScreen, RunCopyArea, RunLirc, RunPulses, RunKeys,
   RunSound, RunPicture

LEMMA ClockIdleOrRuns == ASSUME [AnyNext]_anyVars PROVE [Clock!Next]_clockVars
BY DEF AnyNext, anyVars, clockVars, Main, RunFeeding, RunRing, RunUcode, RunPlayback, RunClock,
   RunCommand, RunDecoder, RunSizes, RunScreen, RunCopyArea, RunLirc, RunPulses, RunKeys,
   RunSound, RunPicture

LEMMA CommandIdleOrRuns == ASSUME [AnyNext]_anyVars PROVE [Command!Next]_commandVars
BY DEF AnyNext, anyVars, commandVars, Main, RunFeeding, RunRing, RunUcode, RunPlayback, RunClock,
   RunCommand, RunDecoder, RunSizes, RunScreen, RunCopyArea, RunLirc, RunPulses, RunKeys,
   RunSound, RunPicture

LEMMA DecoderIdleOrRuns == ASSUME [AnyNext]_anyVars PROVE [Av!Next]_decoderVars
BY DEF AnyNext, anyVars, decoderVars, Main, RunFeeding, RunRing, RunUcode, RunPlayback, RunClock,
   RunCommand, RunDecoder, RunSizes, RunScreen, RunCopyArea, RunLirc, RunPulses, RunKeys,
   RunSound, RunPicture

LEMMA EventsIdleOrRuns == ASSUME [AnyNext]_anyVars PROVE [Events!Next]_eventsVars
BY DEF AnyNext, anyVars, eventsVars, Main, RunFeeding, RunRing, RunUcode, RunPlayback, RunClock,
   RunCommand, RunDecoder, RunSizes, RunScreen, RunCopyArea, RunLirc, RunPulses, RunKeys,
   RunSound, RunPicture

-----------------------------------------------------------------------------
(* The driver is never wrong about what is unread in a queue of the chip, or *)
(* has noticed that it was overtaken; in qim mode the next interrupt lies    *)
(* ahead of the chip; and what a program put into a system queue is not      *)
(* written over before the decoder played it (avia_gt_dmx_queue_interrupt,   *)
(* _task, _write): in all rings, with every latency and every size of write. *)
THEOREM RingsAccountedHolds == AnySpec => []RingsAccounted
<1> USE PartsAssumption DEF PartsAssumption
<1>1. AnyInit => RingInv /\ PlaybackInv
  BY RingInvInit, PlaybackInvInit DEF AnyInit
<1>2. RingInv /\ PlaybackInv /\ [AnyNext]_anyVars => RingInv' /\ PlaybackInv'
  BY RingIdleOrRuns, RingStep, PlaybackIdleOrRuns, PlaybackStep
<1>3. RingInv /\ PlaybackInv => RingsAccounted
  BY RingWell, PlaybackKnown DEF RingsAccounted, RingInv
<1> QED BY <1>1, <1>2, <1>3, PTL DEF AnySpec

(* When no call for a type is under way the decoder plays the pid of its     *)
(* running feed if the program wants it to, and nothing if it is stopped,    *)
(* for any number of threads whose calls run into each other between their   *)
(* commands, with the watchdog and with restarts, except for what is named   *)
(* astray or switched; no command is written over one that was not taken;    *)
(* the decoder's clock is set only when it is lost, for all turns of both    *)
(* counters; and the reader of the video events is given an old one only     *)
(* after it was overtaken (avia_av_napi.c, avia_av_core.c, avia_gt_pcr_irq). *)
THEOREM DecoderObeysHolds == AnySpec => []DecoderObeys
<1> USE PartsAssumption DEF PartsAssumption
<1> DEFINE Inv == DecoderInv /\ CommandInv /\ ClockInv /\ EventsInv
<1>1. AnyInit => Inv
  BY DecoderInvInit, CommandInvInit, ClockInvInit, EventsInvInit DEF AnyInit
<1>2. Inv /\ [AnyNext]_anyVars => Inv'
  <2>1. Av!ConfigAssumption /\ Av!PidsAssumption OBVIOUS
  <2> QED BY <2>1, DecoderIdleOrRuns, DecoderStep, CommandIdleOrRuns, CommandStep, ClockIdleOrRuns,
             ClockStep, EventsIdleOrRuns, EventsStep
<1>3. Inv => DecoderObeys
  BY DecoderInvPlays, EventsInvTypes DEF DecoderInv, CommandInv, ClockInv, DecoderObeys
<1> QED BY <1>1, <1>2, <1>3, PTL DEF AnySpec
=============================================================================
