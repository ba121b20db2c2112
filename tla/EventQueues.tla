----------------------------- MODULE EventQueues -----------------------------
(***************************************************************************)
(* How processes learn that the decoder shows a picture of another size.   *)
(* A timer compares the size with the one it saw last (avia_av_event.c)    *)
(* and writes an event for every process that has opened the event device  *)
(* (event/event.c), each with a queue and a filter of its own.  And the    *)
(* decoder's interrupt puts an event in the one ring of the video device   *)
(* (avia_av_napi.c), which is read by VIDEO_GET_EVENT.                     *)
(***************************************************************************)
EXTENDS Naturals, FiniteSets

CONSTANTS
  Handles,    \* files open on the event device: MAX_EVENT_OPEN
  BufferSize, \* EVENTBUFFERSIZE: 32
  Readers,    \* processes in VIDEO_GET_EVENT
  MaxVideo,   \* MAX_VIDEO_EVENT
  Sizes       \* of the picture

EventAssumption ==
  /\ BufferSize \in Nat \ {0} /\ MaxVideo \in Nat \ {0, 1} /\ Sizes # {}

VARIABLES
  size,   \* of the picture
  seen,   \* reg->hsize, reg->vsize
  handle, \* event_private, and the process that reads the file
  knows,  \* history: the size when the process was last told something
  ring,   \* video_events
  place,  \* of each reader of the video device
  fresh,  \* history: events of the ring nobody has read
  stale,  \* history: has a reader been given an event that was read before?
  raced   \* history: was a reader overtaken between its look and its take?

vars == <<size, seen, handle, knows, ring, place, fresh, stale, raced>>

Closed == [open |-> FALSE, filter |-> FALSE, waiting |-> 0, reader |-> "idle"]

Init ==
  /\ size \in Sizes /\ seen = size
  /\ handle = [h \in Handles |-> Closed]
  /\ knows = [h \in Handles |-> size]
  /\ ring = [r |-> 0, w |-> 0, overflow |-> FALSE]
  /\ place = [p \in Readers |-> "idle"]
  /\ fresh = 0 /\ stale = FALSE /\ raced = FALSE

-----------------------------------------------------------------------------
(* The sources.                                                              *)

(* avia_av_napi_video_add_event                                              *)
added == LET w == (ring.w + 1) % MaxVideo
         IN IF w = ring.r THEN [r |-> (ring.r + 1) % MaxVideo, w |-> w, overflow |-> TRUE]
            ELSE [ring EXCEPT !.w = w]

(* The decoder shows another size and interrupts; it stays at least until    *)
(* the timer has looked.                                                     *)
SizeChanges(s) ==
  /\ s # size /\ size = seen
  /\ size' = s
  /\ ring' = added
  /\ fresh' = IF fresh = MaxVideo - 1 THEN fresh ELSE fresh + 1
  /\ place' = [p \in Readers |-> IF place[p] = "asleep" THEN "take" ELSE place[p]]
  /\ UNCHANGED <<seen, handle, knows, stale, raced>>

(* event_write_message for one file, and the process that sleeps there.      *)
offered(h) ==
  LET e == handle[h]
      taken == e.open /\ e.filter /\ e.waiting < BufferSize
  IN [e EXCEPT !.waiting = IF taken THEN @ + 1 ELSE @,
               !.reader = IF @ = "asleep" THEN "running" ELSE @]

(* avia_av_event_timer_function                                              *)
TimerLook ==
  /\ seen # size /\ seen' = size
  /\ handle' = [h \in Handles |-> offered(h)]
  /\ UNCHANGED <<size, knows, ring, place, fresh, stale, raced>>

-----------------------------------------------------------------------------
(* The event device.                                                         *)

Told(h) == knows' = [knows EXCEPT ![h] = size]

event_open(h) ==
  /\ ~handle[h].open
  /\ handle' = [handle EXCEPT ![h] = [Closed EXCEPT !.open = TRUE, !.filter = TRUE]]
  /\ Told(h) /\ UNCHANGED <<size, seen, ring, place, fresh, stale, raced>>

event_release(h) ==
  /\ handle[h].open /\ handle[h].reader = "idle"
  /\ handle' = [handle EXCEPT ![h] = Closed]
  /\ UNCHANGED <<size, seen, knows, ring, place, fresh, stale, raced>>

(* EVENT_SET_FILTER; whoever lets the events through again looks himself.    *)
SetFilter(h, through) ==
  /\ handle[h].open /\ handle[h].reader = "idle"
  /\ handle' = [handle EXCEPT ![h].filter = through]
  /\ Told(h) /\ UNCHANGED <<size, seen, ring, place, fresh, stale, raced>>

EnterRead(h) ==
  /\ handle[h].open /\ handle[h].reader = "idle"
  /\ handle' = [handle EXCEPT ![h].reader = "entered"]
  /\ UNCHANGED <<size, seen, knows, ring, place, fresh, stale, raced>>

TakeEvent(h) ==
  /\ handle[h].reader \in {"entered", "running"} /\ handle[h].waiting > 0
  /\ handle' = [handle EXCEPT ![h].waiting = @ - 1, ![h].reader = "idle"]
  /\ Told(h) /\ UNCHANGED <<size, seen, ring, place, fresh, stale, raced>>

(* The task state was set before the look, so no wake-up is missed.  It is   *)
(* not set again: once woken the process runs until there is an event.       *)
FallAsleep(h) ==
  /\ handle[h].reader = "entered" /\ handle[h].waiting = 0
  /\ handle' = [handle EXCEPT ![h].reader = "asleep"]
  /\ UNCHANGED <<size, seen, knows, ring, place, fresh, stale, raced>>

(* O_NONBLOCK or a signal.                                                   *)
ReadNothing(h) ==
  /\ handle[h].reader \in {"entered", "asleep", "running"} /\ handle[h].waiting = 0
  /\ handle' = [handle EXCEPT ![h].reader = "idle"]
  /\ UNCHANGED <<size, seen, knows, ring, place, fresh, stale, raced>>

-----------------------------------------------------------------------------
(* The video device: avia_av_napi_video_get_event and video_open.            *)

empty == ring.r = ring.w

VideoLook(p) ==
  /\ place[p] = "idle"
  /\ IF ring.overflow THEN ring' = [ring EXCEPT !.overflow = FALSE] /\ UNCHANGED place
     ELSE place' = [place EXCEPT ![p] = IF empty THEN "asleep" ELSE "take"] /\ UNCHANGED ring
  /\ UNCHANGED <<size, seen, handle, knows, fresh, stale, raced>>

(* What a take means to the readers that have looked.                        *)
Took(p) ==
  /\ place[p] = "take" /\ place' = [place EXCEPT ![p] = "idle"]
  /\ stale' = (stale \/ fresh = 0)
  /\ fresh' = IF fresh = 0 THEN 0 ELSE fresh - 1
  /\ raced' = (raced \/ \E q \in Readers \ {p} : place[q] = "take")
  /\ UNCHANGED <<size, seen, handle, knows>>

VideoTake(p) == Took(p) /\ ring' = [ring EXCEPT !.r = (@ + 1) % MaxVideo]

VideoSignal(p) ==
  /\ place[p] = "asleep" /\ place' = [place EXCEPT ![p] = "idle"]
  /\ UNCHANGED <<size, seen, handle, knows, ring, fresh, stale, raced>>

(* An open for writing empties the ring.                                     *)
VideoOpen ==
  /\ ring' = [ring EXCEPT !.r = 0, !.w = 0]
  /\ fresh' = 0 /\ raced' = (raced \/ \E q \in Readers : place[q] = "take")
  /\ UNCHANGED <<size, seen, handle, knows, place, stale>>

Next ==
  \/ \E s \in Sizes : SizeChanges(s)
  \/ TimerLook
  \/ \E h \in Handles :
       \/ event_open(h) \/ event_release(h) \/ EnterRead(h) \/ TakeEvent(h)
       \/ FallAsleep(h) \/ ReadNothing(h) \/ \E t \in BOOLEAN : SetFilter(h, t)
  \/ \E p \in Readers : VideoLook(p) \/ VideoTake(p) \/ VideoSignal(p)
  \/ VideoOpen

(* The timer goes off; a process that runs goes on, and one that wants to    *)
(* know comes back to read.                                                  *)
Fairness ==
  /\ WF_vars(TimerLook)
  /\ \A h \in Handles : WF_vars(TakeEvent(h)) /\ WF_vars(FallAsleep(h)) /\ SF_vars(EnterRead(h))
Spec == Init /\ [][Next]_vars /\ Fairness

-----------------------------------------------------------------------------
TypeOK ==
  /\ size \in Sizes /\ seen \in Sizes
  /\ \A h \in Handles : handle[h].waiting \in 0 .. BufferSize
  /\ ring.r \in 0 .. MaxVideo - 1 /\ ring.w \in 0 .. MaxVideo - 1

(* A process that keeps the device open and listens is told of the last      *)
(* change in the end, though events are dropped while its queue is full and  *)
(* the writer wakes processes whose filter takes nothing.                    *)
SizeIsLearnt ==
  \A h \in Handles, s \in Sizes :
    <>[](size = s /\ handle[h].open /\ handle[h].filter) => <>[](knows[h] = s)

(* VIDEO_GET_EVENT gives nobody an event that was read before, unless        *)
(* another reader or an open came between its look and its take; then the    *)
(* whole ring of old events looks new.                                       *)
OldEventsOnlyAfterRace == stale => raced
=============================================================================
