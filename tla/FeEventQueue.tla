---------------------------- MODULE FeEventQueue ----------------------------
(***************************************************************************)
(* What the event queue of a frontend promises: events are handed out once *)
(* and in order; when more than Capacity wait, the oldest is dropped and   *)
(* the loss is reported once; an open for writing empties the queue.       *)
(***************************************************************************)
EXTENDS Integers, Sequences

CONSTANTS Capacity, Numbers

VARIABLES
  queue,     \* the events that wait
  overflow,  \* has a loss yet to be reported?
  next,      \* the number of the next event
  got        \* the event handed out last

vars == <<queue, overflow, next, got>>

NoEvent == Numbers
Init == queue = <<>> /\ overflow = FALSE /\ next = 0 /\ got = NoEvent

Add == /\ next' = (next + 1) % Numbers
       /\ IF Len(queue) < Capacity
          THEN queue' = Append(queue, next) /\ UNCHANGED overflow
          ELSE queue' = Append(Tail(queue), next) /\ overflow' = TRUE
       /\ UNCHANGED got
ReportLoss == overflow /\ overflow' = FALSE /\ UNCHANGED <<queue, next, got>>
Get == /\ queue # <<>>
       /\ got' = Head(queue) /\ queue' = Tail(queue)
       /\ UNCHANGED <<overflow, next>>
Empty == queue' = <<>> /\ UNCHANGED <<overflow, next, got>>

Next == Add \/ ReportLoss \/ Get \/ Empty
Spec == Init /\ [][Next]_vars
=============================================================================
