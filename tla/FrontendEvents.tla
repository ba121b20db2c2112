--------------------------- MODULE FrontendEvents ---------------------------
(***************************************************************************)
(* The event queue of a frontend (dvb-core/dvb_frontend.c): the tuning     *)
(* thread and FE_SET_FRONTEND add events, FE_GET_EVENT takes them and gives *)
(* fe->sem back while it waits, and an open for writing resets the ring    *)
(* holding no semaphore at all.                                            *)
(***************************************************************************)
EXTENDS Integers, Sequences, FiniteSets, FiniteSetTheorems, TLAPS

CONSTANTS
  MaxEvent,  \* slots of the ring: 8 in the code
  Numbers,   \* event numbers are taken modulo Numbers: more than MaxEvent to tell them apart
  Adders,    \* the tuning thread, and callers of FE_SET_FRONTEND
  Readers,   \* callers of FE_GET_EVENT
  Signals,   \* signals that may interrupt a caller
  Reopened   \* may the device be opened for writing meanwhile?

EventsAssumption ==
  /\ MaxEvent \in Nat /\ MaxEvent > 1
  /\ Numbers \in Nat \ {0}
  /\ Adders \cap Readers = {}
  /\ Signals \in Nat /\ Reopened \in BOOLEAN

VARIABLES
  events,          \* events.events[], each the number of an event
  eventw, eventr,  \* the write and read index
  overflow,
  sem,             \* the count of fe->sem
  evsem,           \* the count of events->sem
  pc,              \* where each adder and reader is
  wp,              \* the local of add_event
  next,            \* the number of the next event
  got,             \* the event handed out last
  torn,            \* has a reset ever hit an add or a get that had looked
                   \* at the indices already?
  signals          \* signals that have arrived

ring == <<events, eventw, eventr, overflow>>
vars == <<ring, sem, evsem, pc, wp, next, got, torn, signals>>

Init ==
  /\ events = [i \in 0 .. MaxEvent - 1 |-> Numbers]
  /\ eventw = 0 /\ eventr = 0 /\ overflow = FALSE
  /\ sem = 1 /\ evsem = 1
  /\ pc = [p \in Adders \cup Readers |-> "away"]
  /\ wp = 0 /\ next = 0 /\ got = Numbers
  /\ torn = FALSE /\ signals = 0

Goto(p, place) == pc' = [pc EXCEPT ![p] = place]

(* down_interruptible of fe->sem, and the up that ends every ioctl *)
Enter(p) == /\ pc[p] = "away" /\ sem > 0
            /\ sem' = sem - 1
            /\ Goto(p, "inside")
            /\ UNCHANGED <<ring, evsem, wp, next, got, torn, signals>>
LeaveTwice(p) == sem' = sem + 2 /\ Goto(p, "away")  \* mutant: and given back twice
Leave(p) == sem' = sem + 1 /\ Goto(p, "away")

-----------------------------------------------------------------------------
(* dvb_frontend_add_event.  Between the two steps the frontend driver may    *)
(* sleep on its I2C bus to read the parameters back.                        *)

AddBeginFull(p) ==  \* mutant: the oldest event is not dropped
  /\ p \in Adders /\ pc[p] = "inside" /\ evsem > 0
  /\ evsem' = evsem - 1
  /\ wp' = (eventw + 1) % MaxEvent
  /\ overflow' = (wp' = eventr)
  /\ events' = [events EXCEPT ![eventw] = next]
  /\ Goto(p, "adding")
  /\ UNCHANGED <<eventw, eventr, sem, next, got, torn, signals>>
AddBegin(p) ==
  /\ p \in Adders /\ pc[p] = "inside" /\ evsem > 0
  /\ evsem' = evsem - 1
  /\ LET w == (eventw + 1) % MaxEvent
     IN  /\ wp' = w
         /\ IF w = eventr
            THEN overflow' = TRUE /\ eventr' = (eventr + 1) % MaxEvent
            ELSE UNCHANGED <<overflow, eventr>>
  /\ events' = [events EXCEPT ![eventw] = next]
  /\ Goto(p, "adding")
  /\ UNCHANGED <<eventw, sem, next, got, torn, signals>>

AddEnd(p) ==
  /\ p \in Adders /\ pc[p] = "adding"
  /\ eventw' = wp
  /\ next' = (next + 1) % Numbers
  /\ evsem' = evsem + 1
  /\ Leave(p)
  /\ UNCHANGED <<events, eventr, overflow, wp, got, torn, signals>>

-----------------------------------------------------------------------------
(* dvb_frontend_get_event *)

ReportLoss(p) ==
  /\ p \in Readers /\ pc[p] = "inside" /\ overflow
  /\ overflow' = FALSE
  /\ Leave(p)
  /\ UNCHANGED <<events, eventw, eventr, evsem, wp, next, got, torn, signals>>

(* Nothing waits: a reader with O_NONBLOCK goes, the others sleep without   *)
(* fe->sem.                                                                 *)
FindNothing(p) ==
  /\ p \in Readers /\ pc[p] = "inside" /\ ~overflow /\ eventw = eventr
  /\ sem' = sem + 1
  /\ Goto(p, "away") \/ Goto(p, "asleep")
  /\ UNCHANGED <<ring, evsem, wp, next, got, torn, signals>>
FindEvent(p) ==
  /\ p \in Readers /\ pc[p] = "inside" /\ ~overflow /\ eventw # eventr
  /\ Goto(p, "taking")
  /\ UNCHANGED <<ring, sem, evsem, wp, next, got, torn, signals>>

Signal == signals < Signals /\ signals' = signals + 1

Wake(p) ==
  /\ p \in Readers /\ pc[p] = "asleep"
  /\ \/ eventw # eventr /\ Goto(p, "woken") /\ UNCHANGED signals
     \/ Signal /\ Goto(p, "interrupted")
  /\ UNCHANGED <<ring, sem, evsem, wp, next, got, torn>>

(* fe->sem is taken again.  If it is not free and a signal is pending,      *)
(* get_event returns without it, and the ioctl gives it back all the same.  *)
Reenter(p) ==
  /\ p \in Readers /\ pc[p] \in {"woken", "interrupted"}
  /\ \/ /\ sem > 0
        /\ IF pc[p] = "woken" THEN sem' = sem - 1 /\ Goto(p, "taking")
                              ELSE sem' = sem /\ Goto(p, "away")
        /\ UNCHANGED signals
     \/ /\ sem = 0
        /\ IF pc[p] = "woken" THEN Signal ELSE UNCHANGED signals
        /\ Leave(p)
  /\ UNCHANGED <<ring, evsem, wp, next, got, torn>>

Take(p) ==
  /\ p \in Readers /\ pc[p] = "taking" /\ evsem > 0
  /\ got' = events[eventr]
  /\ eventr' = (eventr + 1) % MaxEvent
  /\ Leave(p)
  /\ UNCHANGED <<events, eventw, overflow, evsem, wp, next, torn, signals>>

-----------------------------------------------------------------------------
(* dvb_frontend_open for writing *)
Reset ==
  /\ Reopened
  /\ eventr' = 0 /\ eventw' = 0
  /\ torn' = (torn \/ \E p \in DOMAIN pc : pc[p] \in {"adding", "woken", "taking"})
  /\ UNCHANGED <<events, overflow, sem, evsem, pc, wp, next, got, signals>>

Next ==
  \/ Reset
  \/ \E p \in Adders \cup Readers : Enter(p)
  \/ \E p \in Adders : AddBegin(p) \/ AddEnd(p)
  \/ \E p \in Readers : \/ ReportLoss(p) \/ FindNothing(p) \/ FindEvent(p)
                        \/ Wake(p) \/ Reenter(p) \/ Take(p)

(* Events keep coming, semaphores are granted in turn, and whoever is       *)
(* inside an ioctl runs.                                                    *)
Fairness ==
  /\ SF_vars(\E p \in Adders : Enter(p))
  /\ \A p \in Adders : WF_vars(AddBegin(p)) /\ WF_vars(AddEnd(p))
  /\ \A p \in Readers : /\ WF_vars(ReportLoss(p)) /\ WF_vars(FindNothing(p))
                        /\ WF_vars(FindEvent(p)) /\ WF_vars(Take(p))
                        /\ WF_vars(Wake(p)) /\ SF_vars(Reenter(p))

Spec == Init /\ [][Next]_vars
FairSpec == Spec /\ Fairness

-----------------------------------------------------------------------------
TypeOK ==
  /\ events \in [0 .. MaxEvent - 1 -> 0 .. Numbers]
  /\ eventw \in 0 .. MaxEvent - 1 /\ eventr \in 0 .. MaxEvent - 1
  /\ overflow \in BOOLEAN /\ wp \in 0 .. MaxEvent - 1
  /\ sem \in 0 .. 1 + Signals /\ evsem \in 0 .. 1
  /\ next \in 0 .. Numbers - 1 /\ got \in 0 .. Numbers
  /\ torn \in BOOLEAN /\ signals \in 0 .. Signals
  /\ \A p \in Adders \cup Readers : pc[p] \in
       {"away", "inside", "adding", "asleep", "woken", "interrupted", "taking"}

(* What the ring ev holds from read index r to write index w *)
Segment(ev, r, w) == [j \in 1 .. (w - r) % MaxEvent |-> ev[(r + j - 1) % MaxEvent]]

(* The events that wait.  The one being added counts as soon as its slot is *)
(* taken: dropping the oldest for it has made room already.                 *)
pending == \E p \in Adders : pc[p] = "adding"
Queue == Segment(events, eventr, IF pending THEN wp ELSE eventw)

(* The ring implements the queue: events are handed out once and in order,  *)
(* however adding, waiting and taking interleave.                           *)
Implemented == INSTANCE FeEventQueue WITH
  Capacity <- MaxEvent - 1, queue <- Queue,
  next <- IF pending THEN (next + 1) % Numbers ELSE next
(* Only a reset that hits one of them half way breaks it: an add then       *)
(* publishes an index from before the reset, a get reads past the write     *)
(* index.                                                                   *)
ImplementsQueue ==
  Implemented!Init /\ [][torn' \/ Implemented!Next]_Implemented!vars

(* fe->sem is a mutex, through the sleep that gives it back, until a reader *)
(* is interrupted: at most one adder or reader holds it.  The signal makes  *)
(* get_event return without it, and the ioctl then gives it back twice.     *)
Holding == {p \in Adders \cup Readers : pc[p] \in {"inside", "adding", "taking"}}
SemIsMutex == signals = 0 => sem <= 1 /\ \A p, q \in Holding : p = q

(* A sleeping reader wakes: whoever adds the event it sleeps for can get    *)
(* fe->sem, and an open that resets the ring between the two steps of an    *)
(* add delays the reader but never strands it.                              *)
SleeperIsWoken ==
  []<><<Reset>>_vars \/ \A p \in Readers : pc[p] = "asleep" ~> pc[p] # "asleep"

-----------------------------------------------------------------------------
(* For every size of the ring and any number of adders, the ring implements  *)
(* the bounded queue of FeEventQueue; and for any number of adders and       *)
(* readers fe->sem is a mutex until the first signal.                        *)

Indices == 0 .. MaxEvent - 1
Held == 0 .. Numbers  \* what a slot holds
Places == {"away", "inside", "adding", "asleep", "woken", "interrupted", "taking"}

-----------------------------------------------------------------------------
(* Arithmetic of the indices, and what a segment of the ring does when an    *)
(* event is written behind it or read off its front.                        *)

(* Counting modulo M *)
LEMMA Successor ==
  ASSUME NEW M \in Nat \ {0}, NEW i \in 0 .. M - 1
  PROVE  (i + 1) % M = IF i = M - 1 THEN 0 ELSE i + 1
<1>1. CASE i = M - 1
  <2>1. M % M = 0
    OBVIOUS
  <2> QED
    BY <1>1, <2>1
<1>2. CASE i # M - 1
  <2>1. ASSUME NEW a \in 0 .. M - 1
        PROVE  a % M = a
    OBVIOUS
  <2>2. i + 1 \in 0 .. M - 1
    BY <1>2
  <2> QED
    BY <1>2, <2>1, <2>2
<1> QED
  BY <1>1, <1>2

(* The index after i, and the distance between two indices *)
LEMMA NextIndex ==
  ASSUME EventsAssumption, NEW i \in Indices
  PROVE  (i + 1) % MaxEvent = IF i = MaxEvent - 1 THEN 0 ELSE i + 1
BY Successor DEF EventsAssumption, Indices

LEMMA Distance ==
  ASSUME EventsAssumption, NEW r \in Indices, NEW w \in Indices
  PROVE  (w - r) % MaxEvent = IF r <= w THEN w - r ELSE w - r + MaxEvent
<1>1. MaxEvent \in Nat /\ MaxEvent > 1
  BY DEF EventsAssumption
<1>2. ASSUME NEW a \in Indices
      PROVE  a % MaxEvent = a /\ (a - MaxEvent) % MaxEvent = a
  BY <1>1 DEF Indices
<1>3. CASE r <= w
  <2>1. w - r \in Indices
    BY <1>1, <1>3 DEF Indices
  <2> QED
    BY <1>2, <1>3, <2>1
<1>4. CASE ~(r <= w)
  <2>1. w - r + MaxEvent \in Indices /\ (w - r + MaxEvent) - MaxEvent = w - r
    BY <1>1, <1>4 DEF Indices
  <2> QED
    BY <1>2, <1>4, <2>1
<1> QED
  BY <1>3, <1>4

(* The slot of the j-th event that waits *)
LEMMA Slot ==
  ASSUME EventsAssumption, NEW r \in Indices, NEW j \in 1 .. MaxEvent
  PROVE  (r + j - 1) % MaxEvent =
           IF r + j - 1 < MaxEvent THEN r + j - 1 ELSE r + j - 1 - MaxEvent
<1>1. MaxEvent \in Nat /\ MaxEvent > 1
  BY DEF EventsAssumption
<1>2. ASSUME NEW a \in Indices
      PROVE  a % MaxEvent = a /\ (a + MaxEvent) % MaxEvent = a
  BY <1>1 DEF Indices
<1>3. CASE r + j - 1 < MaxEvent
  <2>1. r + j - 1 \in Indices
    BY <1>1, <1>3 DEF Indices
  <2> QED
    BY <1>2, <1>3, <2>1
<1>4. CASE ~(r + j - 1 < MaxEvent)
  <2>1. r + j - 1 - MaxEvent \in Indices
        /\ (r + j - 1 - MaxEvent) + MaxEvent = r + j - 1
    BY <1>1, <1>4 DEF Indices
  <2> QED
    BY <1>2, <1>4, <2>1
<1> QED
  BY <1>3, <1>4

LEMMA SegmentType ==
  ASSUME EventsAssumption, NEW ev \in [Indices -> Held],
         NEW r \in Indices, NEW w \in Indices
  PROVE  /\ Segment(ev, r, w) \in Seq(Held)
         /\ Len(Segment(ev, r, w)) = (w - r) % MaxEvent
         /\ (w - r) % MaxEvent \in 0 .. MaxEvent - 1
<1>1. (w - r) % MaxEvent \in 0 .. MaxEvent - 1
  BY Distance DEF Indices, EventsAssumption
<1>2. ASSUME NEW j \in 1 .. (w - r) % MaxEvent
      PROVE  ev[(r + j - 1) % MaxEvent] \in Held
  <2>1. j \in 1 .. MaxEvent
    BY <1>1 DEF EventsAssumption
  <2>2. (r + j - 1) % MaxEvent \in Indices
    BY <2>1, Slot DEF EventsAssumption, Indices
  <2> QED
    BY <2>2
<1>3. Segment(ev, r, w) \in [1 .. (w - r) % MaxEvent -> Held]
  BY <1>2 DEF Segment
<1> QED
  BY <1>1, <1>3

LEMMA SegmentEmpty ==
  ASSUME EventsAssumption, NEW ev \in [Indices -> Held],
         NEW r \in Indices, NEW w \in Indices
  PROVE  Segment(ev, r, w) = <<>> <=> r = w
<1>1. (w - r) % MaxEvent = 0 <=> r = w
  BY Distance DEF Indices, EventsAssumption
<1>2. Segment(ev, r, w) \in Seq(Held) /\ Len(Segment(ev, r, w)) = (w - r) % MaxEvent
  BY SegmentType
<1>3. \A s \in Seq(Held) : s = <<>> <=> Len(s) = 0
  OBVIOUS
<1> QED
  BY <1>1, <1>2, <1>3

(* Writing behind the segment appends to it, if the index then stays off    *)
(* the read index...                                                        *)
LEMMA SegmentAppend ==
  ASSUME EventsAssumption, NEW ev \in [Indices -> Held], NEW x \in Held,
         NEW r \in Indices, NEW w \in Indices, (w + 1) % MaxEvent # r
  PROVE  /\ Segment([ev EXCEPT ![w] = x], r, (w + 1) % MaxEvent) = Append(Segment(ev, r, w), x)
         /\ Len(Segment(ev, r, w)) < MaxEvent - 1
<1> DEFINE v == (w + 1) % MaxEvent
           old == Segment(ev, r, w)
           ev2 == [ev EXCEPT ![w] = x]
           new == Segment(ev2, r, v)
<1>0. MaxEvent \in Nat /\ MaxEvent > 1
  BY DEF EventsAssumption
<1>1. v = IF w = MaxEvent - 1 THEN 0 ELSE w + 1
  BY NextIndex
<1>2. v \in Indices
  BY <1>0, <1>1 DEF Indices
<1>3. (v - r) % MaxEvent = ((w - r) % MaxEvent) + 1
  <2>1. (v - r) % MaxEvent = IF r <= v THEN v - r ELSE v - r + MaxEvent
    BY <1>2, Distance
  <2>2. (w - r) % MaxEvent = IF r <= w THEN w - r ELSE w - r + MaxEvent
    BY Distance
  <2>3. v # r
    OBVIOUS
  <2> HIDE DEF v
  <2> QED
    BY <1>0, <1>1, <2>1, <2>2, <2>3 DEF Indices
<1>4. ev2 \in [Indices -> Held]
  OBVIOUS
<1>5. old \in Seq(Held) /\ Len(old) = (w - r) % MaxEvent
      /\ new \in Seq(Held) /\ Len(new) = Len(old) + 1
  <2>1. old \in Seq(Held) /\ Len(old) = (w - r) % MaxEvent
    BY SegmentType
  <2> HIDE DEF v, ev2
  <2>2. new \in Seq(Held) /\ Len(new) = (v - r) % MaxEvent
    BY <1>2, <1>4, SegmentType
  <2> QED
    BY <1>3, <2>1, <2>2
<1>6. Len(old) + 1 <= MaxEvent - 1
  BY <1>2, <1>3, <1>4, <1>5, SegmentType
<1>7. ASSUME NEW j \in 1 .. Len(new)
      PROVE  new[j] = Append(old, x)[j]
  <2>1. j \in 1 .. MaxEvent
    BY <1>0, <1>5, <1>6
  <2>2. new[j] = ev2[(r + j - 1) % MaxEvent]
    BY <1>3, <1>5 DEF Segment
  <2>3. (r + j - 1) % MaxEvent =
          IF r + j - 1 < MaxEvent THEN r + j - 1 ELSE r + j - 1 - MaxEvent
    BY <2>1, Slot
  <2>4. Len(old) = IF r <= w THEN w - r ELSE w - r + MaxEvent
    BY <1>5, Distance
  <2>5. CASE j = Len(old) + 1
    <3>1. (r + j - 1) % MaxEvent = w
      BY <1>0, <2>3, <2>4, <2>5 DEF Indices
    <3> QED
      BY <1>5, <2>2, <2>5, <3>1
  <2>6. CASE j # Len(old) + 1
    <3>1. j \in 1 .. Len(old)
      BY <1>5, <2>6
    <3>2. (r + j - 1) % MaxEvent # w /\ (r + j - 1) % MaxEvent \in Indices
      <4> DEFINE n == Len(old)
      <4>1. n = IF r <= w THEN w - r ELSE w - r + MaxEvent
        BY <2>4
      <4>2. j \in 1 .. n
        BY <3>1
      <4> HIDE DEF n, old
      <4> QED
        BY <1>0, <2>3, <4>1, <4>2, SMTT(20) DEF Indices
    <3>3. old[j] = ev[(r + j - 1) % MaxEvent]
      BY <1>5, <3>1 DEF Segment
    <3> QED
      BY <1>5, <2>2, <3>1, <3>2, <3>3
  <2> QED
    BY <2>5, <2>6
<1>8. new = Append(old, x)
  <2> HIDE DEF new, old
  <2> DEFINE longer == Append(old, x)
  <2>1. longer \in Seq(Held) /\ Len(longer) = Len(new)
    BY <1>5
  <2>2. \A j \in 1 .. Len(new) : new[j] = longer[j]
    BY <1>7
  <2> HIDE DEF longer
  <2>3. new = longer
    BY <1>5, <2>1, <2>2
  <2> QED
    BY <2>3 DEF longer
<1>9. Len(old) < MaxEvent - 1
  <2> HIDE DEF new, old
  <2> QED
    BY <1>0, <1>5, <1>6
<1> QED
  BY <1>8, <1>9

(* Reading off the front takes the head *)
LEMMA SegmentTail ==
  ASSUME EventsAssumption, NEW ev \in [Indices -> Held],
         NEW r \in Indices, NEW w \in Indices, r # w
  PROVE  /\ Head(Segment(ev, r, w)) = ev[r]
         /\ Tail(Segment(ev, r, w)) = Segment(ev, (r + 1) % MaxEvent, w)
<1> DEFINE s == (r + 1) % MaxEvent
           old == Segment(ev, r, w)
           new == Segment(ev, s, w)
<1>0. MaxEvent \in Nat /\ MaxEvent > 1
  BY DEF EventsAssumption
<1>1. s = IF r = MaxEvent - 1 THEN 0 ELSE r + 1
  BY NextIndex
<1>2. s \in Indices
  BY <1>0, <1>1 DEF Indices
<1>3. (w - r) % MaxEvent = ((w - s) % MaxEvent) + 1
  <2>1. (w - r) % MaxEvent = IF r <= w THEN w - r ELSE w - r + MaxEvent
    BY Distance
  <2> HIDE DEF s
  <2>2. (w - s) % MaxEvent = IF s <= w THEN w - s ELSE w - s + MaxEvent
    BY <1>2, Distance
  <2> DEFINE far == (w - r) % MaxEvent
             near == (w - s) % MaxEvent
  <2>3. far = IF r <= w THEN w - r ELSE w - r + MaxEvent
    BY <2>1
  <2>4. near = IF s <= w THEN w - s ELSE w - s + MaxEvent
    BY <2>2
  <2> HIDE DEF far, near
  <2>5. far = near + 1
    BY <1>0, <1>1, <2>3, <2>4 DEF Indices
  <2> QED
    BY <2>5 DEF far, near
<1>4. old \in Seq(Held) /\ Len(old) = (w - r) % MaxEvent /\ Len(old) <= MaxEvent - 1
      /\ new \in Seq(Held) /\ Len(old) = Len(new) + 1 /\ Len(new) = (w - s) % MaxEvent
      /\ Len(new) \in Nat
  <2>1. old \in Seq(Held) /\ Len(old) = (w - r) % MaxEvent
    BY SegmentType
  <2>2. (w - r) % MaxEvent \in 0 .. MaxEvent - 1
    BY SegmentType
  <2> HIDE DEF s
  <2>3. new \in Seq(Held) /\ Len(new) = (w - s) % MaxEvent
    BY <1>2, SegmentType
  <2>4. (w - s) % MaxEvent \in 0 .. MaxEvent - 1
    BY <1>2, SegmentType
  <2> HIDE DEF old, new
  <2> QED
    BY <1>0, <1>3, <2>1, <2>2, <2>3, <2>4
<1>5. ASSUME NEW j \in 1 .. Len(old)
      PROVE  old[j] = ev[(r + j - 1) % MaxEvent]
  BY <1>4 DEF Segment
<1>6. Head(old) = ev[r]
  <2>1. 1 \in 1 .. MaxEvent /\ 1 \in 1 .. Len(old)
    BY <1>0, <1>4
  <2>2. (r + 1 - 1) % MaxEvent = r
    BY <1>0, <2>1, Slot DEF Indices
  <2>3. old[1] = ev[r]
    BY <1>5, <2>1, <2>2
  <2> HIDE DEF old
  <2> QED
    BY <1>4, <2>1, <2>3
<1>7. ASSUME NEW j \in 1 .. Len(new)
      PROVE  Tail(old)[j] = new[j]
  <2>1. j \in 1 .. MaxEvent /\ j + 1 \in 1 .. MaxEvent /\ j + 1 \in 1 .. Len(old)
    BY <1>0, <1>4
  <2>2. new[j] = ev[(s + j - 1) % MaxEvent]
    BY <1>4 DEF Segment
  <2>3. (s + j - 1) % MaxEvent = (r + (j + 1) - 1) % MaxEvent
    <3>1. (s + j - 1) % MaxEvent =
            IF s + j - 1 < MaxEvent THEN s + j - 1 ELSE s + j - 1 - MaxEvent
      BY <1>2, <2>1, Slot
    <3>2. (r + (j + 1) - 1) % MaxEvent =
            IF r + (j + 1) - 1 < MaxEvent THEN r + (j + 1) - 1 ELSE r + (j + 1) - 1 - MaxEvent
      BY <2>1, Slot
    <3> HIDE DEF s
    <3>3. CASE r = MaxEvent - 1
      <4>1. (s + j - 1) % MaxEvent = j - 1
        BY <1>0, <1>1, <2>1, <3>1, <3>3
      <4>2. (r + (j + 1) - 1) % MaxEvent = j - 1
        BY <1>0, <2>1, <3>2, <3>3
      <4> QED
        BY <4>1, <4>2
    <3>4. CASE r # MaxEvent - 1
      <4>1. s = r + 1
        BY <1>1, <3>4
      <4> QED
        BY <1>0, <2>1, <3>1, <3>2, <4>1 DEF Indices
    <3> QED
      BY <3>3, <3>4
  <2>4. old[j + 1] = new[j]
    BY <1>5, <2>1, <2>2, <2>3
  <2> HIDE DEF new, old
  <2> QED
    BY <1>4, <2>1, <2>4
<1>8. Tail(old) = new
  <2>1. Tail(old) \in Seq(Held) /\ Len(Tail(old)) = Len(new)
    <3> HIDE DEF new, old
    <3> QED
      BY <1>4
  <2> HIDE DEF new, old
  <2> QED
    BY <1>4, <1>7, <2>1
<1> QED
  BY <1>6, <1>8

(* ... and when the ring is full, drops its oldest event *)
LEMMA SegmentFull ==
  ASSUME EventsAssumption, NEW ev \in [Indices -> Held], NEW x \in Held,
         NEW r \in Indices, NEW w \in Indices, (w + 1) % MaxEvent = r
  PROVE  /\ Segment([ev EXCEPT ![w] = x], (r + 1) % MaxEvent, r)
              = Append(Tail(Segment(ev, r, w)), x)
         /\ Len(Segment(ev, r, w)) = MaxEvent - 1
<1> DEFINE s == (r + 1) % MaxEvent
<1>0. MaxEvent \in Nat /\ MaxEvent > 1
  BY DEF EventsAssumption
<1>1. r = IF w = MaxEvent - 1 THEN 0 ELSE w + 1
  BY NextIndex
<1>2. s = IF r = MaxEvent - 1 THEN 0 ELSE r + 1
  BY NextIndex
<1>3. s \in Indices /\ r # w /\ r # s
  BY <1>0, <1>1, <1>2 DEF Indices
<1>4. (w - r) % MaxEvent = MaxEvent - 1
  BY <1>0, <1>1, Distance DEF Indices
<1>5. Len(Segment(ev, r, w)) = MaxEvent - 1
  BY <1>4, SegmentType
<1>6. Tail(Segment(ev, r, w)) = Segment(ev, s, w)
  BY <1>3, SegmentTail
<1>7. Segment([ev EXCEPT ![w] = x], s, (w + 1) % MaxEvent) = Append(Segment(ev, s, w), x)
  BY <1>3, SegmentAppend
<1> QED
  BY <1>5, <1>6, <1>7

-----------------------------------------------------------------------------
(* The inductive invariant.  Types first; where the count of fe->sem ends up *)
(* is a matter of its own, below.                                           *)
Typed ==
  /\ events \in [Indices -> Held]
  /\ eventw \in Indices /\ eventr \in Indices /\ wp \in Indices
  /\ sem \in Nat /\ evsem \in 0 .. 1
  /\ next \in 0 .. Numbers - 1 /\ got \in 0 .. Numbers
  /\ signals \in 0 .. Signals
  /\ pc \in [Adders \cup Readers -> Places]
  /\ \A p \in Adders : pc[p] \in {"away", "inside", "adding"}
  /\ \A p \in Readers : pc[p] # "adding"

Flags == overflow \in BOOLEAN /\ torn \in BOOLEAN

(* events->sem is held from taking a slot to publishing it *)
OneAdding ==
  /\ evsem = IF pending THEN 0 ELSE 1
  /\ \A p, q \in Adders : pc[p] = "adding" /\ pc[q] = "adding" => p = q

(* A slot that is taken is the one behind the last that waits, and there is *)
(* room for it.                                                             *)
SlotTaken ==
  ~torn /\ pending => /\ wp = (eventw + 1) % MaxEvent
                      /\ wp # eventr
                      /\ events[eventw] = next

(* The event a reader saw is still there, or gave way to one being added.   *)
(* Two readers that one event wakes do not keep this.                       *)
EventSeen ==
  ~torn => \A p \in Readers : pc[p] \in {"woken", "taking"} => eventw # eventr \/ pending

RingInv == Typed /\ Flags /\ OneAdding /\ SlotTaken
OneReader == \A p, q \in Readers : p = q

LEMMA RingInit ==
  ASSUME EventsAssumption, Init
  PROVE  RingInv /\ EventSeen
<1>1. Typed
  BY DEF EventsAssumption, Init, Typed, Indices, Places, Held
<1>2. Flags
  BY DEF Init, Flags
<1>3. ~pending
  BY DEF EventsAssumption, Init, pending
<1> QED
  BY <1>1, <1>2, <1>3 DEF EventsAssumption, Init, RingInv, OneAdding, SlotTaken, EventSeen, pending

LEMMA FlagsStep ==
  ASSUME Flags, [Next]_vars
  PROVE  Flags'
<1>1. CASE Reset
  BY <1>1 DEF Reset, Flags
<1>2. ASSUME NEW p \in Adders \cup Readers,
             \/ Enter(p) \/ AddEnd(p) \/ FindNothing(p) \/ FindEvent(p)
             \/ Wake(p) \/ Reenter(p) \/ Take(p)
      PROVE  Flags'
  BY <1>2 DEF Enter, AddEnd, FindNothing, FindEvent, Wake, Reenter, Take, ring, Flags
<1>3. ASSUME NEW p \in Adders, AddBegin(p)
      PROVE  Flags'
  <2>1. (overflow' = TRUE \/ overflow' = overflow) /\ torn' = torn
    BY <1>3 DEF AddBegin
  <2> QED
    BY <2>1 DEF Flags
<1>4. ASSUME NEW p \in Readers, ReportLoss(p)
      PROVE  Flags'
  <2>1. overflow' = FALSE /\ torn' = torn
    BY <1>4 DEF ReportLoss
  <2> QED
    BY <2>1 DEF Flags
<1>5. CASE UNCHANGED vars
  BY <1>5 DEF vars, ring, Flags
<1> QED
  BY <1>1, <1>2, <1>3, <1>4, <1>5 DEF Next

LEMMA RingStep ==
  ASSUME EventsAssumption, RingInv, [Next]_vars
  PROVE  RingInv'
<1> USE DEF EventsAssumption, RingInv, Places
<1>0. Flags'
  BY FlagsStep
<1>1. CASE Reset
  <2>1. Typed'
    BY <1>1 DEF Reset, Typed, Indices
  <2>2. pending' = pending
    BY <1>1 DEF Reset, pending
  <2>3. OneAdding'
    BY <1>1, <2>2 DEF Reset, OneAdding
  <2>4. torn' \/ ~pending'
    BY <1>1, <2>2 DEF Reset, Typed, pending
  <2> QED
    BY <1>0, <2>1, <2>3, <2>4 DEF SlotTaken
<1>2. ASSUME NEW p \in Adders \cup Readers, Enter(p)
      PROVE  RingInv'
  <2>1. Typed'
    BY <1>2 DEF Enter, Goto, ring, Typed
  <2>2. \A q \in Adders \cup Readers : pc'[q] = "adding" <=> pc[q] = "adding"
    BY <1>2 DEF Enter, Goto, Typed
  <2> QED
    BY <1>0, <1>2, <2>1, <2>2 DEF Enter, ring, OneAdding, SlotTaken, pending
<1>3. ASSUME NEW p \in Adders, AddBegin(p)
      PROVE  RingInv'
  <2>1. Typed'
    <3>1. (eventw + 1) % MaxEvent \in Indices /\ (eventr + 1) % MaxEvent \in Indices
      BY NextIndex DEF Indices, Typed
    <3> QED
      BY <1>3, <3>1 DEF AddBegin, Goto, Typed, Held
  <2>2. ~pending
    BY <1>3 DEF AddBegin, OneAdding
  <2>3. \A q \in Adders : pc'[q] = "adding" <=> q = p
    BY <1>3, <2>2 DEF AddBegin, Goto, Typed, pending
  <2>4. pending' /\ OneAdding'
    BY <1>3, <2>2, <2>3 DEF AddBegin, OneAdding, pending, Typed
  <2>5. SlotTaken'
    <3>1. wp' = (eventw + 1) % MaxEvent /\ eventw' = eventw
      BY <1>3 DEF AddBegin
    <3>2. events'[eventw] = next /\ next' = next
      BY <1>3 DEF AddBegin, Typed
    <3>3. wp' # eventr'
      <4>1. (eventr + 1) % MaxEvent # eventr
        BY NextIndex DEF Indices, Typed
      <4> QED
        BY <1>3, <4>1 DEF AddBegin
    <3> QED
      BY <3>1, <3>2, <3>3 DEF SlotTaken
  <2> QED
    BY <1>0, <2>1, <2>4, <2>5
<1>4. ASSUME NEW p \in Adders, AddEnd(p)
      PROVE  RingInv'
  <2>1. Typed'
    <3>1. (next + 1) % Numbers \in 0 .. Numbers - 1
      BY Successor DEF Typed
    <3>2. evsem + 1 \in 0 .. 1
      BY <1>4 DEF AddEnd, OneAdding, pending, Typed
    <3> QED
      BY <1>4, <3>1, <3>2 DEF AddEnd, Leave, Goto, Typed
  <2>2. \A q \in Adders : pc'[q] # "adding"
    BY <1>4 DEF AddEnd, Leave, Goto, OneAdding, Typed
  <2>3. evsem' = 1
    BY <1>4 DEF AddEnd, OneAdding, pending, Typed
  <2> QED
    BY <1>0, <2>1, <2>2, <2>3 DEF OneAdding, SlotTaken, pending
<1>5. ASSUME NEW p \in Readers,
             \/ ReportLoss(p) \/ FindNothing(p) \/ FindEvent(p) \/ Wake(p) \/ Reenter(p)
      PROVE  RingInv'
  <2>1. Typed'
    <3>1. CASE ReportLoss(p)
      BY <3>1 DEF ReportLoss, Leave, Goto, Typed
    <3>2. CASE FindNothing(p)
      BY <3>2 DEF FindNothing, Goto, ring, Typed
    <3>3. CASE FindEvent(p)
      BY <3>3 DEF FindEvent, Goto, ring, Typed
    <3>4. CASE Wake(p)
      BY <3>4 DEF Wake, Signal, Goto, ring, Typed
    <3>5. CASE Reenter(p)
      BY <3>5 DEF Reenter, Signal, Leave, Goto, ring, Typed
    <3> QED
      BY <1>5, <3>1, <3>2, <3>3, <3>4, <3>5
  <2>2. \A q \in Adders : pc'[q] = pc[q]
    BY <1>5 DEF ReportLoss, FindNothing, FindEvent, Wake, Reenter, Leave, Goto, Typed
  <2>3. UNCHANGED <<events, eventw, eventr, evsem, wp, next, torn>>
    BY <1>5 DEF ReportLoss, FindNothing, FindEvent, Wake, Reenter, ring
  <2> QED
    BY <1>0, <2>1, <2>2, <2>3 DEF OneAdding, SlotTaken, pending
<1>6. ASSUME NEW p \in Readers, Take(p)
      PROVE  RingInv'
  <2>1. Typed'
    <3>1. (eventr + 1) % MaxEvent \in Indices
      BY NextIndex DEF Indices, Typed
    <3> QED
      BY <1>6, <3>1 DEF Take, Leave, Goto, Typed, Held
  <2>2. ~pending
    BY <1>6 DEF Take, OneAdding
  <2>3. \A q \in Adders : pc'[q] = pc[q]
    BY <1>6 DEF Take, Leave, Goto, Typed
  <2> QED
    BY <1>0, <1>6, <2>1, <2>2, <2>3 DEF Take, OneAdding, SlotTaken, pending
<1>7. CASE UNCHANGED vars
  BY <1>0, <1>7 DEF vars, ring, Typed, OneAdding, SlotTaken, pending
<1> QED
  BY <1>1, <1>2, <1>3, <1>4, <1>5, <1>6, <1>7 DEF Next

LEMMA EventSeenStep ==
  ASSUME EventsAssumption, OneReader, RingInv, EventSeen, [Next]_vars
  PROVE  EventSeen'
<1> USE DEF EventsAssumption, RingInv, OneReader
<1>1. CASE Reset
  <2>1. torn' \/ \A p \in Readers : pc[p] \notin {"woken", "taking"}
    BY <1>1 DEF Reset, Typed
  <2> QED
    BY <1>1, <2>1 DEF Reset, EventSeen
<1>2. ASSUME NEW p \in Adders \cup Readers, Enter(p)
      PROVE  EventSeen'
  <2>1. \A q \in Adders \cup Readers : pc'[q] = IF q = p THEN "inside" ELSE pc[q]
    BY <1>2 DEF Enter, Goto, Typed
  <2>2. pc[p] = "away"
    BY <1>2 DEF Enter
  <2> QED
    BY <1>2, <2>1, <2>2 DEF Enter, ring, EventSeen, pending
<1>3. ASSUME NEW p \in Adders, AddBegin(p)
      PROVE  EventSeen'
  <2>1. pc'[p] = "adding"
    BY <1>3 DEF AddBegin, Goto, Typed
  <2> QED
    BY <2>1 DEF EventSeen, pending
<1>4. ASSUME NEW p \in Adders, AddEnd(p)
      PROVE  EventSeen'
  <2>1. SUFFICES ASSUME ~torn
                 PROVE  eventw' # eventr'
    BY <1>4 DEF AddEnd, EventSeen
  <2>2. pending
    BY <1>4 DEF AddEnd, pending
  <2> QED
    BY <1>4, <2>1, <2>2 DEF AddEnd, SlotTaken
<1>5. ASSUME NEW p \in Readers,
             \/ ReportLoss(p) \/ FindNothing(p) \/ FindEvent(p) \/ Wake(p) \/ Reenter(p)
      PROVE  EventSeen'
  <2>1. UNCHANGED <<eventw, eventr, torn>>
    BY <1>5 DEF ReportLoss, FindNothing, FindEvent, Wake, Reenter, ring
  <2>2. \A q \in Adders : pc'[q] = pc[q]
    BY <1>5 DEF ReportLoss, FindNothing, FindEvent, Wake, Reenter, Leave, Goto, Typed
  <2>3. pending' = pending
    BY <2>2 DEF pending
  <2>4. pc'[p] \in {"woken", "taking"} => eventw # eventr \/ pc[p] = "woken"
    BY <1>5 DEF ReportLoss, FindNothing, FindEvent, Wake, Reenter, Leave, Goto, Typed
  <2>5. \A q \in Readers : q = p
    OBVIOUS
  <2> QED
    BY <2>1, <2>3, <2>4, <2>5 DEF EventSeen
<1>6. ASSUME NEW p \in Readers, Take(p)
      PROVE  EventSeen'
  <2>1. pc'[p] = "away"
    BY <1>6 DEF Take, Leave, Goto, Typed
  <2>2. \A q \in Readers : q = p
    OBVIOUS
  <2> QED
    BY <2>1, <2>2 DEF EventSeen
<1>7. CASE UNCHANGED vars
  BY <1>7 DEF vars, ring, EventSeen, pending
<1> QED
  BY <1>1, <1>2, <1>3, <1>4, <1>5, <1>6, <1>7 DEF Next

-----------------------------------------------------------------------------
(* The refinement.  AddBegin is the abstract Add, AddEnd adds nothing.       *)

LEMMA RefinedInit ==
  ASSUME EventsAssumption, Init
  PROVE  Implemented!Init
<1>1. Typed
  BY RingInit DEF RingInv
<1>2. ~pending
  BY DEF Init, EventsAssumption, pending
<1>3. Queue = Segment(events, eventr, eventw)
  BY <1>2 DEF Queue
<1>4. Queue = <<>>
  BY <1>1, <1>3, SegmentEmpty DEF Init, Typed
<1> QED
  BY <1>2, <1>4 DEF Init, Implemented!Init, Implemented!NoEvent

LEMMA RefinedStep ==
  ASSUME EventsAssumption, RingInv, EventSeen, [Next]_vars
  PROVE  [torn' \/ Implemented!Next]_(Implemented!vars)
<1> DEFINE number == IF pending THEN (next + 1) % Numbers ELSE next
<1>0. ASSUME UNCHANGED <<events, eventw, eventr, overflow, wp, next, got, pending>>
      PROVE  UNCHANGED Implemented!vars
  <2>1. Queue' = Queue
    BY <1>0 DEF Queue, Segment
  <2> QED
    BY <1>0, <2>1 DEF Implemented!vars
<1>1. CASE Reset
  <2>1. SUFFICES ASSUME ~torn'
                 PROVE  Implemented!Next
    OBVIOUS
  <2>2. ~pending /\ ~pending'
    BY <1>1, <2>1 DEF Reset, RingInv, Typed, pending
  <2>3. Queue' = Segment(events', eventr', eventw')
    BY <2>2 DEF Queue
  <2>4. eventr' = 0 /\ eventw' = 0 /\ events' = events /\ 0 \in Indices
    BY <1>1 DEF Reset, Indices, EventsAssumption
  <2>5. events \in [Indices -> Held]
    BY DEF RingInv, Typed
  <2>6. Queue' = <<>>
    BY <2>3, <2>4, <2>5, SegmentEmpty
  <2> QED
    BY <1>1, <2>2, <2>6 DEF Reset, Implemented!Next, Implemented!Empty
<1>2. ASSUME NEW p \in Adders \cup Readers, Enter(p)
      PROVE  UNCHANGED Implemented!vars
  <2>1. pending' = pending
    BY <1>2 DEF Enter, Goto, RingInv, Typed, pending
  <2> QED
    BY <1>0, <1>2, <2>1 DEF Enter, ring
<1>3. ASSUME NEW p \in Adders, AddBegin(p)
      PROVE  Implemented!Next
  <2>1. ~pending /\ pending'
    <3>1. pc'[p] = "adding"
      BY <1>3 DEF AddBegin, Goto, RingInv, Typed
    <3> QED
      BY <1>3, <3>1 DEF AddBegin, RingInv, OneAdding, pending
  <2>2. Queue = Segment(events, eventr, eventw)
    BY <2>1 DEF Queue
  <2>3. Queue' = Segment([events EXCEPT ![eventw] = next], eventr', (eventw + 1) % MaxEvent)
    BY <1>3, <2>1 DEF AddBegin, Queue, Segment
  <2>4. /\ events \in [Indices -> Held] /\ next \in Held
        /\ eventw \in Indices /\ eventr \in Indices
    BY DEF RingInv, Typed, EventsAssumption, Held
  <2>5. next' = next /\ got' = got
    BY <1>3 DEF AddBegin
  <2>6. CASE (eventw + 1) % MaxEvent = eventr
    <3>1. eventr' = (eventr + 1) % MaxEvent /\ overflow' = TRUE
      BY <1>3, <2>6 DEF AddBegin
    <3>2. /\ Segment([events EXCEPT ![eventw] = next], (eventr + 1) % MaxEvent, eventr)
                = Append(Tail(Segment(events, eventr, eventw)), next)
          /\ Len(Segment(events, eventr, eventw)) = MaxEvent - 1
      BY <2>4, <2>6, SegmentFull
    <3>3. Queue' = Append(Tail(Queue), next) /\ Len(Queue) = MaxEvent - 1
      BY <2>2, <2>3, <2>6, <3>1, <3>2
    <3>4. ~(Len(Queue) < MaxEvent - 1)
      BY <3>3 DEF EventsAssumption
    <3> QED
      BY <2>1, <2>5, <3>1, <3>3, <3>4 DEF Implemented!Next, Implemented!Add
  <2>7. CASE (eventw + 1) % MaxEvent # eventr
    <3>1. eventr' = eventr /\ overflow' = overflow
      BY <1>3, <2>7 DEF AddBegin
    <3>2. Queue' = Append(Queue, next) /\ Len(Queue) < MaxEvent - 1
      BY <2>2, <2>3, <2>4, <2>7, <3>1, SegmentAppend
    <3> QED
      BY <2>1, <2>5, <3>1, <3>2 DEF Implemented!Next, Implemented!Add
  <2> QED
    BY <2>6, <2>7
<1>4. ASSUME NEW p \in Adders, AddEnd(p)
      PROVE  UNCHANGED Implemented!vars
  <2>1. pending /\ ~pending'
    BY <1>4 DEF AddEnd, Leave, Goto, RingInv, OneAdding, Typed, pending
  <2>2. Queue' = Queue
    BY <1>4, <2>1 DEF AddEnd, Queue, Segment
  <2> QED
    BY <1>4, <2>1, <2>2 DEF AddEnd, Implemented!vars
<1>5. ASSUME NEW p \in Readers, FindNothing(p) \/ FindEvent(p) \/ Wake(p) \/ Reenter(p)
      PROVE  UNCHANGED Implemented!vars
  <2>1. pending' = pending
    <3>1. \A q \in Adders : pc'[q] = pc[q]
      BY <1>5 DEF FindNothing, FindEvent, Wake, Reenter, Leave, Goto, RingInv, Typed,
                  EventsAssumption
    <3> QED
      BY <3>1 DEF pending
  <2>2. UNCHANGED <<events, eventw, eventr, overflow, wp, next, got>>
    BY <1>5 DEF FindNothing, FindEvent, Wake, Reenter, ring
  <2> QED
    BY <1>0, <2>1, <2>2
<1>6. ASSUME NEW p \in Readers, ReportLoss(p)
      PROVE  Implemented!Next
  <2>1. \A q \in Adders : pc'[q] = pc[q]
    BY <1>6 DEF ReportLoss, Leave, Goto, RingInv, Typed, EventsAssumption
  <2>2. pending' = pending
    BY <2>1 DEF pending
  <2>3. Queue' = Queue
    BY <1>6, <2>2 DEF ReportLoss, Queue, Segment
  <2> QED
    BY <1>6, <2>2, <2>3 DEF ReportLoss, Implemented!Next, Implemented!ReportLoss
<1>7. ASSUME NEW p \in Readers, Take(p), ~torn
      PROVE  Implemented!Next
  <2>1. \A q \in Adders : pc'[q] = pc[q]
    BY <1>7 DEF Take, Leave, Goto, RingInv, Typed, EventsAssumption
  <2>2. ~pending /\ ~pending'
    BY <1>7, <2>1 DEF Take, RingInv, OneAdding, pending
  <2>3. eventr # eventw
    BY <1>7, <2>2 DEF Take, EventSeen
  <2>4. /\ events \in [Indices -> Held]
        /\ eventw \in Indices /\ eventr \in Indices
    BY DEF RingInv, Typed
  <2>5. /\ Queue = Segment(events, eventr, eventw)
        /\ Queue' = Segment(events, (eventr + 1) % MaxEvent, eventw)
    BY <1>7, <2>2 DEF Take, Queue, Segment
  <2>6. Queue # <<>>
    BY <2>3, <2>4, <2>5, SegmentEmpty
  <2>7. Head(Queue) = events[eventr] /\ Tail(Queue) = Queue'
    BY <2>3, <2>4, <2>5, SegmentTail
  <2> QED
    BY <1>7, <2>2, <2>6, <2>7 DEF Take, Implemented!Next, Implemented!Get
<1>8. ASSUME NEW p \in Readers, Take(p), torn
      PROVE  torn'
  BY <1>8 DEF Take
<1>9. CASE UNCHANGED vars
  <2>1. pending' = pending
    BY <1>9 DEF vars, pending
  <2> QED
    BY <1>0, <1>9, <2>1 DEF vars, ring
<1> QED
  BY <1>1, <1>2, <1>3, <1>4, <1>5, <1>6, <1>7, <1>8, <1>9 DEF Next, RingInv, Flags

(* For every size of the ring and any number of adders, one reader gets the  *)
(* events once and in order, and hears of a loss once: the ring implements   *)
(* the bounded queue, but for the steps after a reset hit an add or a get.   *)
THEOREM QueueImplemented ==
  ASSUME EventsAssumption, OneReader
  PROVE  Spec => ImplementsQueue
<1>1. Init => RingInv /\ EventSeen /\ Implemented!Init
  BY RingInit, RefinedInit
<1>2. RingInv /\ EventSeen /\ [Next]_vars => RingInv' /\ EventSeen'
  BY RingStep, EventSeenStep
<1>3. RingInv /\ EventSeen /\ [Next]_vars => [torn' \/ Implemented!Next]_(Implemented!vars)
  BY RefinedStep
<1> QED
  BY <1>1, <1>2, <1>3, PTL DEF Spec, ImplementsQueue

-----------------------------------------------------------------------------
(* The count of fe->sem.  Whoever is in an ioctl, or will give the semaphore *)
(* back without having taken it, has a claim on one of the counts; a signal *)
(* makes one claim more than there should be.                               *)
Claiming == {p \in Adders \cup Readers :
               pc[p] \in {"inside", "adding", "taking", "interrupted"}}
SemAccounted == sem + Cardinality(Claiming) <= 1 + signals

LEMMA ClaimsCounted ==
  ASSUME IsFiniteSet(Adders \cup Readers)
  PROVE  IsFiniteSet(Claiming) /\ Cardinality(Claiming) \in Nat
BY FS_Subset, FS_CardinalityType DEF Claiming

LEMMA ClaimMade ==
  ASSUME IsFiniteSet(Adders \cup Readers), Typed,
         NEW p \in (Adders \cup Readers) \ Claiming,
         NEW place \in {"inside", "taking", "interrupted"}, Goto(p, place)
  PROVE  Cardinality(Claiming') = Cardinality(Claiming) + 1
<1>1. Claiming' = Claiming \cup {p}
  BY DEF Claiming, Goto, Typed
<1> QED
  BY <1>1, ClaimsCounted, FS_AddElement

LEMMA ClaimEnded ==
  ASSUME IsFiniteSet(Adders \cup Readers), Typed, NEW p \in Claiming,
         NEW place \in {"away", "asleep"}, Goto(p, place)
  PROVE  Cardinality(Claiming') = Cardinality(Claiming) - 1
<1>1. Claiming' = Claiming \ {p}
  BY DEF Claiming, Goto, Typed
<1> QED
  BY <1>1, ClaimsCounted, FS_RemoveElement

LEMMA SemInit ==
  ASSUME EventsAssumption, Init
  PROVE  SemAccounted
<1>1. Claiming = {}
  BY DEF Init, Claiming
<1> QED
  BY <1>1, FS_EmptySet DEF Init, SemAccounted

LEMMA SemStep ==
  ASSUME EventsAssumption, IsFiniteSet(Adders \cup Readers), Typed, SemAccounted, [Next]_vars
  PROVE  SemAccounted'
<1> DEFINE claims == Cardinality(Claiming)
<1>0. /\ sem \in Nat /\ signals \in Nat /\ claims \in Nat
      /\ sem + claims <= 1 + signals
  BY ClaimsCounted DEF EventsAssumption, Typed, SemAccounted
<1>1. SUFFICES sem' + claims' <= 1 + signals'
  BY DEF SemAccounted
<1> HIDE DEF claims
<1>2. CASE Reset \/ UNCHANGED vars
  <2>1. UNCHANGED <<sem, signals, pc>>
    BY <1>2 DEF Reset, vars
  <2> QED
    BY <1>0, <2>1 DEF claims, Claiming
<1>3. ASSUME NEW p \in Adders \cup Readers, Enter(p)
      PROVE  sem' + claims' <= 1 + signals'
  <2>1. claims' = claims + 1
    BY <1>3, ClaimMade DEF Enter, Claiming, claims
  <2>2. sem' = sem - 1 /\ signals' = signals
    BY <1>3 DEF Enter
  <2> QED
    BY <1>0, <2>1, <2>2
<1>4. ASSUME NEW p \in Adders \cup Readers, AddBegin(p) \/ FindEvent(p)
      PROVE  sem' + claims' <= 1 + signals'
  <2>1. Claiming' = Claiming
    BY <1>4 DEF AddBegin, FindEvent, Goto, Typed, Claiming
  <2>2. sem' = sem /\ signals' = signals
    BY <1>4 DEF AddBegin, FindEvent
  <2> QED
    BY <1>0, <2>1, <2>2 DEF claims
<1>5. ASSUME NEW p \in Adders \cup Readers,
             AddEnd(p) \/ ReportLoss(p) \/ FindNothing(p) \/ Take(p)
      PROVE  sem' + claims' <= 1 + signals'
  <2>1. Goto(p, "away") \/ Goto(p, "asleep")
    BY <1>5 DEF AddEnd, ReportLoss, FindNothing, Take, Leave
  <2>2. p \in Claiming
    BY <1>5 DEF AddEnd, ReportLoss, FindNothing, Take, Claiming
  <2>3. claims' = claims - 1
    BY <2>1, <2>2, ClaimEnded DEF claims
  <2>4. sem' = sem + 1 /\ signals' = signals
    BY <1>5 DEF AddEnd, ReportLoss, FindNothing, Take, Leave
  <2> QED
    BY <1>0, <2>3, <2>4
<1>6. ASSUME NEW p \in Readers, Wake(p)
      PROVE  sem' + claims' <= 1 + signals'
  <2>1. p \notin Claiming /\ sem' = sem
    BY <1>6 DEF Wake, Claiming
  <2>2. CASE Goto(p, "woken") /\ signals' = signals
    <3>1. Claiming' = Claiming
      BY <2>1, <2>2 DEF Goto, Typed, Claiming
    <3> QED
      BY <1>0, <2>1, <2>2, <3>1 DEF claims
  <2>3. CASE Goto(p, "interrupted") /\ signals' = signals + 1
    <3>1. claims' = claims + 1
      BY <2>1, <2>3, ClaimMade DEF claims
    <3> QED
      BY <1>0, <2>1, <2>3, <3>1
  <2> QED
    BY <1>6, <2>2, <2>3 DEF Wake, Signal
<1>7. ASSUME NEW p \in Readers, Reenter(p)
      PROVE  sem' + claims' <= 1 + signals'
  <2>1. CASE pc[p] = "woken"
    <3>1. p \notin Claiming
      BY <2>1 DEF Claiming
    <3>2. CASE sem' = sem - 1 /\ Goto(p, "taking") /\ signals' = signals
      <4>1. claims' = claims + 1
        BY <3>1, <3>2, ClaimMade DEF claims
      <4> QED
        BY <1>0, <3>2, <4>1
    <3>3. CASE sem' = sem + 1 /\ Goto(p, "away") /\ signals' = signals + 1
      <4>1. Claiming' = Claiming
        BY <3>1, <3>3 DEF Goto, Typed, Claiming
      <4> QED
        BY <1>0, <3>3, <4>1 DEF claims
    <3> QED
      BY <1>7, <2>1, <3>2, <3>3 DEF Reenter, Signal, Leave
  <2>2. CASE pc[p] = "interrupted"
    <3>1. Goto(p, "away") /\ (sem' = sem \/ sem' = sem + 1) /\ signals' = signals
      BY <1>7, <2>2 DEF Reenter, Leave
    <3>2. p \in Claiming
      BY <2>2 DEF Claiming
    <3>3. Goto(p, "away")
      BY <3>1
    <3>4. claims' = claims - 1
      BY <3>2, <3>3, ClaimEnded DEF claims
    <3> QED
      BY <1>0, <3>1, <3>4
  <2> QED
    BY <1>7, <2>1, <2>2 DEF Reenter
<1> QED
  BY <1>2, <1>3, <1>4, <1>5, <1>6, <1>7 DEF Next

LEMMA SemExcludes ==
  ASSUME EventsAssumption, IsFiniteSet(Adders \cup Readers), Typed, SemAccounted
  PROVE  SemIsMutex
<1>1. SUFFICES ASSUME signals = 0
               PROVE  sem <= 1 /\ \A p, q \in Holding : p = q
  BY DEF SemIsMutex
<1>2. sem \in Nat /\ Cardinality(Claiming) \in Nat /\ sem + Cardinality(Claiming) <= 1
  BY <1>1, ClaimsCounted DEF Typed, SemAccounted
<1>3. ASSUME NEW p \in Holding, NEW q \in Holding, p # q
      PROVE  FALSE
  <2>1. p \in Claiming /\ q \in Claiming
    BY DEF Holding, Claiming
  <2> DEFINE rest == Claiming \ {p}
  <2>2. IsFiniteSet(rest) /\ Cardinality(rest) = Cardinality(Claiming) - 1
    BY <2>1, ClaimsCounted, FS_RemoveElement
  <2>3. q \in rest
    BY <1>3, <2>1
  <2> HIDE DEF rest
  <2>4. Cardinality(rest) \in Nat
    BY <2>2, FS_CardinalityType
  <2>5. Cardinality(rest) = 0
    BY <1>2, <2>2, <2>4
  <2>6. rest = {}
    BY <2>2, <2>5, FS_EmptySet
  <2> QED
    BY <2>3, <2>6
<1> QED
  BY <1>2, <1>3

LEMMA TypesComplete ==
  ASSUME EventsAssumption, IsFiniteSet(Adders \cup Readers), Typed, Flags, OneAdding, SemAccounted
  PROVE  TypeOK
<1>1. sem \in 0 .. 1 + Signals
  BY ClaimsCounted DEF EventsAssumption, Typed, SemAccounted
<1>2. overflow \in BOOLEAN /\ torn \in BOOLEAN
  BY DEF Flags
<1>3. /\ events \in [0 .. MaxEvent - 1 -> 0 .. Numbers]
      /\ eventw \in 0 .. MaxEvent - 1 /\ eventr \in 0 .. MaxEvent - 1
      /\ wp \in 0 .. MaxEvent - 1 /\ evsem \in 0 .. 1
      /\ next \in 0 .. Numbers - 1 /\ got \in 0 .. Numbers /\ signals \in 0 .. Signals
  BY DEF Typed, Indices, Held
<1>4. \A p \in Adders \cup Readers : pc[p] \in
        {"away", "inside", "adding", "asleep", "woken", "interrupted", "taking"}
  BY DEF Typed, Places
<1> HIDE DEF TypeOK
<1> QED
  BY <1>1, <1>2, <1>3, <1>4 DEF TypeOK

(* For any number of adders and readers, even where a woken reader overtakes *)
(* another: fe->sem is a mutex as long as no signal came, and a signal adds  *)
(* at most one to its count.                                                *)
THEOREM SemaphoreHolds ==
  ASSUME EventsAssumption, IsFiniteSet(Adders \cup Readers)
  PROVE  Spec => [](TypeOK /\ SemIsMutex)
<1>1. Init => RingInv /\ SemAccounted
  BY RingInit, SemInit
<1>2. RingInv /\ SemAccounted /\ [Next]_vars => RingInv' /\ SemAccounted'
  BY RingStep, SemStep DEF RingInv
<1>3. RingInv /\ SemAccounted => TypeOK /\ SemIsMutex
  BY SemExcludes, TypesComplete DEF RingInv
<1> QED
  BY <1>1, <1>2, <1>3, PTL DEF Spec
=============================================================================
