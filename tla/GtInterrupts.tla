---------------------------- MODULE GtInterrupts ----------------------------
(***************************************************************************)
(* The interrupts of the eNX (avia/avia_gt_core.c, avia_gt_enx.c) and the  *)
(* pointers of the demultiplexer's queues (avia/avia_gt_dmx.c), which      *)
(* interrupt handlers and processes both look at.  There is one window for *)
(* the pointers of two halves of the queues, and a bit, UPQ, chooses the   *)
(* half that is seen through it.                                           *)
(***************************************************************************)
EXTENDS Integers

CONSTANTS
  DmxQueues,   \* the queues; each has one interrupt
  Upper,    \* those in the upper half
  Window    \* Window[q]: which pointer of the window is that of q

ASSUME QueuesAssumption ==
  /\ Upper \subseteq DmxQueues
  /\ \A q, r \in DmxQueues : q # r /\ Window[q] = Window[r] => (q \in Upper) # (r \in Upper)

None == "none"
ASSUME NoneAssumption == None \notin DmxQueues

VARIABLES
  raised,   \* ISR: interrupts raised and not cleared
  unmasked, \* IMR
  handler,  \* gt_isr_proc_list: those that have a handler
  upq,      \* the upper half is seen through the window
  irq,      \* avia_gt_irq: [left: status bits not looked at, at, q]
  proc,     \* a process in avia_gt_dmx_queue_get_write_pos: [at, q, got]
  unseen    \* history: queues with packets their handler has not seen

vars == <<raised, unmasked, handler, upq, irq, proc, unseen>>

Idle == [left |-> {}, at |-> "idle", q |-> None]
Away == [at |-> "away", q |-> None, got |-> None]

(* Nothing but the chip moves while the processor is in an interrupt.       *)
no_irq == irq.at = "idle"

(* Whose pointer is seen where that of q is looked for.                     *)
seen_through(q) ==
  LET there == {r \in DmxQueues : Window[r] = Window[q] /\ (r \in Upper) = upq}
  IN IF there = {} THEN None ELSE CHOOSE r \in there : TRUE

Init ==
  /\ raised = {} /\ unmasked = {} /\ handler = {} /\ upq = FALSE
  /\ irq = Idle /\ proc = Away /\ unseen = {}

-----------------------------------------------------------------------------
ChipWrites(q) ==
  /\ unseen' = unseen \cup (IF q \in handler THEN {q} ELSE {})
  /\ raised' = raised \cup {q}
  /\ UNCHANGED <<unmasked, handler, upq, irq, proc>>

(* avia_gt_alloc_irq, for a queue that is started.                          *)
avia_gt_alloc_irq(q) ==
  /\ no_irq /\ q \notin handler
  /\ handler' = handler \cup {q}
  /\ unmasked' = unmasked \cup {q}
  /\ raised' = raised \ {q}
  /\ UNCHANGED <<upq, irq, proc, unseen>>

(* A mutant: the interrupt stays unmasked. *)
free_irq_open(q) ==
  /\ no_irq /\ q \in handler
  /\ handler' = handler \ {q}
  /\ unseen' = unseen \ {q}
  /\ UNCHANGED <<raised, unmasked, upq, irq, proc>>
avia_gt_free_irq(q) ==
  /\ no_irq /\ q \in handler
  /\ unmasked' = unmasked \ {q}
  /\ handler' = handler \ {q}
  /\ unseen' = unseen \ {q}
  /\ UNCHANGED <<raised, upq, irq, proc>>

-----------------------------------------------------------------------------
(* avia_gt_irq.  The line is up while an unmasked interrupt is raised; the   *)
(* status is read once, so masked ones are gone through too.                *)
IrqEnter ==
  /\ no_irq /\ raised \cap unmasked # {}
  /\ irq' = [left |-> raised, at |-> "loop", q |-> None]
  /\ UNCHANGED <<raised, unmasked, handler, upq, proc, unseen>>

(* A handler, or else the mask.  The handler of a queue reads its pointer:   *)
(* avia_gt_dmx_queue_irq.                                                   *)
IrqHandle(q) ==
  /\ irq.at = "loop" /\ q \in irq.left
  /\ irq' = [left |-> irq.left \ {q}, at |-> "clear", q |-> q]
  /\ IF q \in handler
       THEN upq' = (q \in Upper) /\ unseen' = unseen \ {q} /\ UNCHANGED unmasked
       ELSE unmasked' = unmasked \ {q} /\ UNCHANGED <<upq, unseen>>
  /\ UNCHANGED <<raised, handler, proc>>

(* What has been raised since the handler looked is cleared with the rest.  *)
IrqClear ==
  /\ irq.at = "clear"
  /\ raised' = raised \ {irq.q}
  /\ irq' = [irq EXCEPT !.at = "loop", !.q = None]
  /\ UNCHANGED <<unmasked, handler, upq, proc, unseen>>

IrqLeave ==
  /\ irq.at = "loop" /\ irq.left = {}
  /\ irq' = Idle
  /\ UNCHANGED <<raised, unmasked, handler, upq, proc, unseen>>

-----------------------------------------------------------------------------
(* avia_gt_dmx_queue_get_write_pos in a process: the queue is mapped, then   *)
(* the pointer is read until the same value is read twice.                  *)
avia_gt_dmx_map_queue(q) ==
  /\ no_irq /\ proc.at = "away"
  /\ upq' = (q \in Upper)
  /\ proc' = [at |-> "read", q |-> q, got |-> None]
  /\ UNCHANGED <<raised, unmasked, handler, irq, unseen>>

ReadOnce ==
  /\ no_irq /\ proc.at = "read"
  /\ proc' = [proc EXCEPT !.at = "again", !.got = seen_through(proc.q)]
  /\ UNCHANGED <<raised, unmasked, handler, upq, irq, unseen>>

(* A moving pointer may be read any number of times.                        *)
ReadAgain ==
  /\ no_irq /\ proc.at = "again"
  /\ \E same \in BOOLEAN :
       LET now == seen_through(proc.q)
       IN proc' = [proc EXCEPT !.got = now,
                               !.at = IF same /\ now = proc.got THEN "check" ELSE "again"]
  /\ UNCHANGED <<raised, unmasked, handler, upq, irq, unseen>>

(* Another queue's pointer is out of bounds: the queue is reset.            *)
Check ==
  /\ no_irq /\ proc.at = "check"
  /\ upq' = IF proc.got = proc.q THEN upq ELSE proc.q \in Upper
  /\ proc' = Away
  /\ UNCHANGED <<raised, unmasked, handler, irq, unseen>>

Irq == IrqEnter \/ (\E q \in DmxQueues : IrqHandle(q)) \/ IrqClear \/ IrqLeave
Process == ReadOnce \/ ReadAgain \/ Check

Next ==
  \/ \E q \in DmxQueues : ChipWrites(q)
  \/ \E q \in DmxQueues : avia_gt_alloc_irq(q) \/ avia_gt_free_irq(q)
  \/ Irq
  \/ \E q \in DmxQueues : avia_gt_dmx_map_queue(q)
  \/ Process

(* Interrupts are served, and streams do not end.                           *)
Fairness ==
  /\ WF_vars(Irq)
  /\ \A q \in DmxQueues : SF_vars(no_irq /\ ChipWrites(q))

Spec == Init /\ [][Next]_vars /\ Fairness

-----------------------------------------------------------------------------
TypeOK ==
  /\ raised \subseteq DmxQueues /\ unmasked \subseteq DmxQueues /\ handler \subseteq DmxQueues
  /\ irq \in [left : SUBSET DmxQueues, at : {"idle", "loop", "clear"}, q : DmxQueues \cup {None}]
  /\ proc \in [at : {"away", "read", "again", "check"}, q : DmxQueues \cup {None},
               got : DmxQueues \cup {None}]
  /\ upq \in BOOLEAN /\ unseen \subseteq handler

(* An interrupt is never open without a handler: one nobody serves would    *)
(* come again and again until avia_gt_irq masks it.                         *)
OpenMeansHandled == unmasked \subseteq handler

(* Packets that came while the handler's interrupt was being cleared are    *)
(* forgotten by the chip, but not for ever: the next packet brings them.    *)
PacketsSeen == \A q \in DmxQueues : q \in unseen ~> q \notin unseen

(* The write position a process reads is in the memory of its queue: the    *)
(* BUG() at avia_gt_dmx.c:548 is not reached.  It is: an interrupt between   *)
(* the mapping and the reads chooses the other half.                        *)
PositionInBounds == proc.at = "check" => proc.got = proc.q
=============================================================================
