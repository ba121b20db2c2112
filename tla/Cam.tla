--------------------------------- MODULE Cam ---------------------------------
(***************************************************************************)
(* The conditional access module (cam/cam.c, cam/cam_napi.c).  It raises   *)
(* its interrupt when it has a message; the interrupt stays off until a    *)
(* task has fetched the message over the I2C bus.  A message that asks for *)
(* the CA id is answered at once, the others go to a queue of bytes that   *)
(* processes read.  Processes send messages over the same bus; cam_busy    *)
(* keeps the users of the bus apart.                                       *)
(***************************************************************************)
EXTENDS Integers, FiniteSets

CONSTANTS
  Size,    \* CAM_QUEUE_SIZE: 0x800
  Lengths, \* of messages as they are queued, their mark included
  Counts,  \* what processes ask for
  Writers, \* processes that send messages
  MaxBusy  \* bound: how far cam_busy may be counted up

ASSUME CamAssumption ==
  /\ Size \in Nat \ {0} /\ Lengths \subseteq 2 .. Size /\ Counts \subseteq Nat \ {0} /\ MaxBusy \in Nat

VARIABLES
  cam_busy,  \* count of the semaphore
  irq,       \* the interrupt: "on", "off" (being served)
  task,      \* cam_task: where it is
  writer,    \* CA_SEND_MSG: where each is
  rptr, wptr,\* cam_queuerptr, cam_queuewptr
  unread,    \* history: how many bytes were put in and not taken out
  answered,  \* history: was a CA id ever asked for?
  tight,     \* history: was a message put in that left no byte free?
  at_end     \* history: did the write pointer ever take over a read pointer at the end?

vars == <<cam_busy, irq, task, writer, rptr, wptr, unread, answered, tight, at_end>>
queue == <<rptr, wptr, unread, tight, at_end>>

Init ==
  /\ cam_busy = 1 /\ irq = "on" /\ task = "none"
  /\ writer = [p \in Writers |-> "idle"]
  /\ rptr = 0 /\ wptr = 0 /\ unread = 0
  /\ answered = FALSE /\ tight = FALSE /\ at_end = FALSE

(* Bytes between the pointers, as cam_read_message and cam_task see them.    *)
bytes == IF wptr - rptr < 0 THEN wptr - rptr + Size ELSE wptr - rptr

(* "mich stoerte der Buffer": what is unread is dropped.                     *)
Flush ==
  /\ wptr' = rptr /\ unread' = 0
  /\ at_end' = (at_end \/ rptr = Size)
  /\ UNCHANGED <<rptr, tight>>

-----------------------------------------------------------------------------
(* cam_interrupt (SA_ONESHOT) and cam_task                                   *)

Interrupt ==
  /\ irq = "on" /\ irq' = "off" /\ task' = "scheduled"
  /\ UNCHANGED <<cam_busy, writer, queue, answered>>

(* A mutant: a signal breaks the wait, and the task goes on. *)
TaskDownSignal ==
  /\ task = "scheduled" /\ task' = "receives"
  /\ UNCHANGED <<cam_busy, irq, writer, queue, answered>>
TaskDown ==
  /\ task = "scheduled" /\ cam_busy > 0
  /\ cam_busy' = cam_busy - 1 /\ task' = "receives"
  /\ UNCHANGED <<irq, writer, queue, answered>>

(* A signal ends the wait of keventd: the message stays in the module.       *)
TaskInterrupted ==
  /\ task = "scheduled" /\ task' = "none" /\ irq' = "on"
  /\ UNCHANGED <<cam_busy, writer, queue, answered>>

(* The bus or the module fails.                                              *)
ReceiveFails ==
  /\ task = "receives" /\ task' = "up"
  /\ UNCHANGED <<cam_busy, irq, writer, queue, answered>>

fits(len) == Size - bytes >= len - 1

(* A message that does not fit takes the unread ones with it.  What is       *)
(* written from the end of the queue on goes past it and is not modelled.    *)
ReceiveMessage(len) ==
  /\ task = "receives" /\ task' = "up" /\ wptr < Size
  /\ IF ~fits(len) THEN Flush
     ELSE /\ wptr' = (wptr + len) % Size
          /\ unread' = IF unread + len > Size THEN Size ELSE unread + len
          /\ tight' = (tight \/ unread + len >= Size)
          /\ UNCHANGED <<rptr, at_end>>
  /\ UNCHANGED <<cam_busy, irq, writer, answered>>

(* The CA id: cam_busy is given back, and cam_write_message takes it again.  *)
ReceiveCaid ==
  /\ task = "receives" /\ task' = "answers" /\ cam_busy < MaxBusy
  /\ cam_busy' = cam_busy + 1 /\ answered' = TRUE
  /\ UNCHANGED <<irq, writer, queue>>

TaskSends ==
  /\ task = "answers" /\ cam_busy > 0
  /\ cam_busy' = cam_busy - 1 /\ task' = "sends"
  /\ UNCHANGED <<irq, writer, queue, answered>>

TaskSent ==
  /\ task = "sends" /\ task' = "up"
  /\ cam_busy' = cam_busy + 1 /\ Flush
  /\ UNCHANGED <<irq, writer, answered>>

(* A signal, or no module: nothing is sent, and nobody looks at the result.  *)
AnswerFails ==
  /\ task = "answers" /\ task' = "up"
  /\ UNCHANGED <<cam_busy, irq, writer, queue, answered>>

(* cam_busy is given back once more, and the interrupt may come again.       *)
TaskEnd ==
  /\ task = "up" /\ task' = "none"
  /\ cam_busy' = cam_busy + 1 /\ irq' = "on"
  /\ UNCHANGED <<writer, queue, answered>>

-----------------------------------------------------------------------------
(* CA_SEND_MSG and CA_GET_MSG                                                *)

WriteBegin(p) ==
  /\ writer[p] = "idle" /\ cam_busy > 0
  /\ cam_busy' = cam_busy - 1 /\ writer' = [writer EXCEPT ![p] = "sends"]
  /\ UNCHANGED <<irq, task, queue, answered>>

WriteEnd(p) ==
  /\ writer[p] = "sends" /\ writer' = [writer EXCEPT ![p] = "idle"]
  /\ cam_busy' = cam_busy + 1 /\ Flush
  /\ UNCHANGED <<irq, task, answered>>

(* cam_read_message; a read that ends at the end of the queue leaves the     *)
(* read pointer there.                                                       *)
Read(count) ==
  /\ \E cb \in {IF count < bytes THEN count ELSE bytes} :
       /\ rptr' = IF rptr + cb > Size THEN cb - (Size - rptr) ELSE rptr + cb
       /\ unread' = IF unread < cb THEN 0 ELSE unread - cb
  /\ UNCHANGED <<cam_busy, irq, task, writer, wptr, answered, tight, at_end>>

Next ==
  \/ Interrupt \/ TaskDown \/ TaskInterrupted \/ ReceiveFails \/ ReceiveCaid
  \/ TaskSends \/ TaskSent \/ AnswerFails \/ TaskEnd
  \/ \E len \in Lengths : ReceiveMessage(len)
  \/ \E p \in Writers : WriteBegin(p) \/ WriteEnd(p)
  \/ \E count \in Counts : Read(count)

(* The bus comes back, and the task's process runs.                          *)
Fairness ==
  /\ WF_vars(TaskEnd) /\ SF_vars(TaskDown) /\ SF_vars(TaskSends) /\ WF_vars(TaskSent)
  /\ WF_vars(ReceiveFails \/ ReceiveCaid \/ \E len \in Lengths : ReceiveMessage(len))
  /\ \A p \in Writers : WF_vars(WriteEnd(p))
Spec == Init /\ [][Next]_vars /\ Fairness

-----------------------------------------------------------------------------
TypeOK ==
  /\ cam_busy \in Nat /\ irq \in {"on", "off"}
  /\ task \in {"none", "scheduled", "receives", "answers", "sends", "up"}
  /\ writer \in [Writers -> {"idle", "sends"}]
  /\ rptr \in 0 .. Size /\ wptr \in 0 .. Size /\ unread \in Nat
  /\ answered \in BOOLEAN /\ tight \in BOOLEAN /\ at_end \in BOOLEAN

on_the_bus == {p \in Writers : writer[p] = "sends"}
              \cup (IF task \in {"receives", "sends"} THEN {"task"} ELSE {})

(* Only one at a time talks to the module, until the module asks for the CA  *)
(* id for the first time: each answer leaves cam_busy one higher.            *)
OneOnTheBus == answered \/ Cardinality(on_the_bus) <= 1
(* cam_busy is declared a mutex (cam.c:89), so it never counts past one.     *)
BusyIsMutex == cam_busy <= 1

(* The pointers tell what is unread, so a reader gets every byte of every    *)
(* message that was not dropped as a whole, and the writer stays within the  *)
(* queue; until a message leaves no byte free, which looks like none, or a   *)
(* flush puts the writer at the end of the queue, where it goes on past it.  *)
QueueWhole == tight \/ at_end \/ (bytes = unread /\ wptr < Size)

(* Whatever fails, the module is listened to again.                          *)
InterruptComesBack == irq = "off" ~> irq = "on"
=============================================================================
