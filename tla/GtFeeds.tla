------------------------------ MODULE GtFeeds ------------------------------
(***************************************************************************)
(* The hardware demultiplexer of the dbox2 at work: feeds that dvb_demux   *)
(* starts and stops (avia/avia_gt_napi.c), packets that arrive in queues,  *)
(* interrupts and their bottom halves, and messages of the microcode.      *)
(*                                                                         *)
(* The first half is the bookkeeping of avia/avia_gt_dmx.c and             *)
(* avia/avia_gt_ucode.c: the queues the chip writes packets to, their      *)
(* interrupts, the feeds of the microcode and its section filters.  A      *)
(* state of the driver is a record; every function of the driver that      *)
(* changes it is an operator on such records.                              *)
(*                                                                         *)
(* A decoder feed owns a system queue.  When a user feed wants the same    *)
(* pid, the microcode must not have two active entries for it: whoever     *)
(* comes second is a tap, whose queue is read in place of the system       *)
(* queue.  All of it is under demux->mutex except the bottom halves.       *)
(***************************************************************************)
EXTENDS Integers, FiniteSets, FiniteSetsExt

CONSTANTS
  LastUserQueue,   \* AVIA_GT_DMX_QUEUE_USER_END: 30 in the code
  NUcodeFeeds,     \* AVIA_GT_UCODE_MAXIMUM_FEED_NUMBER: 32
  NSections,       \* AVIA_GT_UCODE_MAXIMUM_SECTION_FILTERS: 32
  NoPid,           \* 0xffff
  Nobody,          \* priv_data of a queue that is not allocated
  Feeds,      \* the feeds that are started and stopped
  Request,    \* what each of them asks for
  SPTS,       \* mode = 1: audio and video reach the decoder as a transport stream
  SectionCap, \* AVIA_GT_UCODE_CAP_SEC: the microcode can filter sections
  MessageCap  \* AVIA_GT_UCODE_CAP_MSGQ: it reports lost packets

VideoQueue == 0
AudioQueue == 1
TeletextQueue == 2
SysQueues == VideoQueue .. TeletextQueue
UserQueues == TeletextQueue + 1 .. LastUserQueue
Queues == SysQueues \cup UserQueues
UcodeFeeds == 0 .. NUcodeFeeds - 1
SectionSlots == 0 .. NSections - 1
None == -1

IdleQueue == [busy |-> FALSE, running |-> FALSE, pid |-> NoPid, mode |-> "TS",
              owner |-> Nobody, cb |-> "none", data |-> {}, feed_idx |-> None]
IdleFeed == [queue |-> None, pid |-> NoPid, tap |-> FALSE, type |-> "TS",
             section |-> None, filtercount |-> 0]
IdleEntry == [valid |-> FALSE, pid |-> NoPid, queue |-> None]
InitDmx == [queue |-> [q \in Queues |-> IdleQueue], irqs |-> {},
            client |-> [s \in SysQueues |-> None],
            ufeed |-> [i \in UcodeFeeds |-> IdleFeed],
            entry |-> [i \in UcodeFeeds |-> IdleEntry],
            section_map |-> [i \in SectionSlots |-> None],
            ts_pid |-> [q \in Queues |-> NoPid], irqs_off |-> FALSE]

-----------------------------------------------------------------------------
(* The microcode looks for a pid in its search table and takes the first     *)
(* valid entry.                                                              *)

entries_of(g, pid) == {i \in UcodeFeeds : g.entry[i].valid /\ g.entry[i].pid = pid}
route(g, pid) == IF entries_of(g, pid) = {} THEN None
                 ELSE g.entry[Min(entries_of(g, pid))].queue

(* pid2feedidx: a feed marked as a tap keeps its pid with a bit set that no  *)
(* pid has, so it is not found.                                              *)
feeds_of_pid(g, pid) ==
  {i \in UcodeFeeds : g.ufeed[i].queue # None /\ ~g.ufeed[i].tap /\ g.ufeed[i].pid = pid}

-----------------------------------------------------------------------------
(* Section filters: a run of slots, each marked with the first of them.      *)

free_runs(g) == {s \in SectionSlots : /\ g.section_map[s] = None
                                      /\ s = 0 \/ g.section_map[s - 1] # None}
run_length(g, s) ==
  Min({j \in s .. NSections : j = NSections \/ g.section_map[j] # None}) - s

(* The smallest free run that has room, the first of them; None if none has. *)
best_fit(g, count) ==
  LET fitting == {s \in free_runs(g) : run_length(g, s) >= count}
      smallest == {s \in fitting : \A t \in fitting : run_length(g, s) <= run_length(g, t)}
  IN IF fitting = {} THEN None ELSE Min(smallest)

mark_section(g, first, count) ==
  [g EXCEPT !.section_map = [i \in SectionSlots |->
     IF i \in first .. first + count - 1 THEN first ELSE @[i]]]

(* A filter that a feed still uses, or that is not the head of a run, stays. *)
free_section_filter(g, first) ==
  LET marked == {j \in first .. NSections - 1 :
                   \A k \in first .. j : g.section_map[k] = first}
  IN IF \E i \in UcodeFeeds : g.ufeed[i].section = first THEN g
     ELSE [g EXCEPT !.section_map = [i \in SectionSlots |->
             IF i \in marked THEN None ELSE @[i]]]

-----------------------------------------------------------------------------
(* Feeds of the microcode.                                                   *)

(* Returns with interrupts still off when it finds no free feed.  A user     *)
(* queue's feed is only a tap when its pid is active already.                *)
alloc_generic_feed(g, q, type, pid, section, count) ==
  LET free == {i \in UcodeFeeds : g.ufeed[i].queue = None}
      i == Min(free)
      tap == feeds_of_pid(g, pid) # {} /\ q \in UserQueues
      known == [g EXCEPT !.ufeed[i] =
                  [queue |-> q, pid |-> pid, tap |-> tap, type |-> type,
                   section |-> section, filtercount |-> count]]
  IN IF free = {} THEN [g |-> [g EXCEPT !.irqs_off = TRUE], idx |-> None]
     ELSE [g |-> known, idx |-> i]

(* In SPTS mode audio goes to the video queue. *)
target_queue(g, i) ==
  IF g.ufeed[i].queue = AudioQueue /\ g.ufeed[i].type = "TS"
    THEN VideoQueue ELSE g.ufeed[i].queue

start_ucode_feed(g, i, tap_feed) ==
  IF g.ufeed[i].queue = None \/ (g.ufeed[i].tap /\ ~tap_feed) THEN g
  ELSE [g EXCEPT !.entry[i] =
          [valid |-> TRUE, pid |-> g.ufeed[i].pid, queue |-> target_queue(g, i)]]

(* A mutant: the entry of a removed feed stays valid. *)
stop_ucode_feed_valid(g, i, remove) ==
  IF g.ufeed[i].queue = None THEN g
  ELSE [g EXCEPT !.ufeed[i] = IF remove THEN IdleFeed ELSE @,
                 !.entry[i] = IF remove THEN @ ELSE IdleEntry]
(* The last feed of a section filter frees it. *)
stop_ucode_feed(g, i, remove) ==
  LET section == g.ufeed[i].section
      gone == [g EXCEPT !.ufeed[i] = IdleFeed]
      freed == IF section # None THEN free_section_filter(gone, section) ELSE gone
      r == IF remove THEN freed ELSE g
  IN IF g.ufeed[i].queue = None THEN g
     ELSE [r EXCEPT !.entry[i] = IdleEntry]

(* Every queue has at most one feed: the driver calls alloc_feed once for a  *)
(* queue it has allocated.                                                   *)
queue_feeds(g, q) == {i \in UcodeFeeds : g.ufeed[i].queue = q}
start_queue_feeds(g, q) ==
  FoldSet(LAMBDA i, h : start_ucode_feed(h, i, FALSE), g, queue_feeds(g, q))
stop_queue_feeds(g, q, remove) ==
  FoldSet(LAMBDA i, h : stop_ucode_feed(h, i, remove), g, queue_feeds(g, q))

-----------------------------------------------------------------------------
(* Interrupts.  A running user queue with the pid and mode of a system queue *)
(* is the client of that queue, whose interrupt is enabled while it has one. *)

wanted_client(g, s) ==
  LET interested == {u \in UserQueues : /\ g.queue[u].running
                                        /\ g.queue[s].pid # NoPid
                                        /\ g.queue[u].pid = g.queue[s].pid
                                        /\ g.queue[u].mode = g.queue[s].mode}
  IN IF interested = {} THEN None ELSE Min(interested)

enable_disable_system_queue_irqs(g) ==
  LET new == [s \in SysQueues |-> wanted_client(g, s)]
      gained == {s \in SysQueues : new[s] # None /\ g.client[s] = None}
      lost == {s \in SysQueues : new[s] = None /\ g.client[s] # None}
  IN [g EXCEPT !.client = new, !.irqs = (@ \cup gained) \ lost,
               !.queue = [q \in Queues |->
                 CASE q \in gained -> [@[q] EXCEPT !.running = TRUE, !.data = {}]
                   [] q \in lost -> [@[q] EXCEPT !.running = FALSE]
                   [] OTHER -> @[q]]]

queue_running(g, q, running) ==
  LET r == [g EXCEPT !.queue[q].running = running]
  IN IF q \in UserQueues THEN enable_disable_system_queue_irqs(r) ELSE r

(* avia_gt_alloc_irq refuses an interrupt that has a handler already. *)
queue_irq_enable(g, q) ==
  LET r == queue_running(g, q, TRUE)
  IN [g |-> [r EXCEPT !.irqs = @ \cup {q}], ok |-> q \notin r.irqs]
queue_irq_disable(g, q) ==
  LET r == queue_running(g, q, FALSE) IN [r EXCEPT !.irqs = @ \ {q}]

-----------------------------------------------------------------------------
(* Queues.  The fields of a queue, a feed or an entry that is not in use are  *)
(* never looked at: they are back at their idle values here.                 *)

queue_reset(g, q) == [g EXCEPT !.queue[q].data = {}]

alloc_queue(g, q, cb, owner) ==
  queue_reset([g EXCEPT !.queue[q].busy = TRUE, !.queue[q].cb = cb,
                        !.queue[q].owner = owner], q)
free_queue(g, q) ==
  LET r == queue_irq_disable(g, q)
  IN [r EXCEPT !.queue[q] = [IdleQueue EXCEPT !.data = g.queue[q].data]]

queue_start(g, q, mode, pid) ==
  LET r == [queue_reset(g, q) EXCEPT !.queue[q].pid = pid, !.queue[q].mode = mode]
  IN start_queue_feeds(IF q \in SysQueues THEN enable_disable_system_queue_irqs(r)
                                          ELSE r, q)

queue_stop(g, q) ==
  stop_queue_feeds(queue_irq_disable([g EXCEPT !.queue[q].pid = NoPid], q), q, TRUE)

(* A decoder feed leaves (start) or takes over the pid of a tap's queue. *)
tap(g, q, start) ==
  IF start THEN start_ucode_feed(g, g.queue[q].feed_idx, TRUE)
           ELSE stop_ucode_feed(g, g.queue[q].feed_idx, FALSE)

-----------------------------------------------------------------------------
Pids == {Request[f].pid : f \in Feeds}

GtAssumption ==
  /\ LastUserQueue \in Nat /\ LastUserQueue > TeletextQueue
  /\ NUcodeFeeds >= Cardinality(Queues) /\ NSections \in Nat \ {0}
  /\ SPTS \in BOOLEAN /\ SectionCap \in BOOLEAN /\ MessageCap \in BOOLEAN
  /\ NoPid \notin Pids /\ Nobody \notin Feeds
  /\ \A f \in Feeds :
       /\ Request[f].stream \in {"video", "audio", "teletext", "other", "section"}
       /\ Request[f].decoder => Request[f].stream # "section"
       /\ Request[f].packet \in BOOLEAN /\ Request[f].payload_only \in BOOLEAN
       /\ Request[f].filters \in Nat \ {0}

VARIABLES
  g,        \* the driver: queues, interrupts, microcode
  priv,     \* the queue of each feed that is started
  pending,  \* the queues whose bottom half is on tq_immediate
  muted     \* history: pids with a start that the taps do not follow, see mutes

vars == <<g, priv, pending, muted>>

Init == g = InitDmx /\ priv = [f \in Feeds |-> None] /\ pending = {} /\ muted = {}

started == {f \in Feeds : priv[f] # None}
pid_of(f) == Request[f].pid
is_section(f) == Request[f].stream = "section"
is_decoder(f) == Request[f].decoder
reads(f) == is_section(f) \/ Request[f].packet

(* dmxdev makes decoder feeds of subtitles and clock references too          *)
(* (dmxdev.c:648), which have user queues.  The latter without packets are   *)
(* not here: they have no queue at all.                                      *)
in_user_queue(f) == Request[f].stream \in {"other", "section"}

(* Starts after which one of a pid's feeds may hear nothing: that of a       *)
(* decoder feed in a user queue, of a second feed in one, and of a decoder   *)
(* together with a PES or section feed, which ts_pid does not tell of.       *)
mutes(f) ==
  LET same == {h \in started \cup {f} : pid_of(h) = pid_of(f)}
      user == {h \in same : in_user_queue(h)}
  IN \/ Cardinality(user) > 1
     \/ \E d \in same : is_decoder(d) /\ \E h \in user : h = d \/ is_section(h) \/ Request[h].payload_only

-----------------------------------------------------------------------------
(* Starting a feed.  Each step gives the state it leaves and whether it      *)
(* succeeded; one that fails gives back what the earlier ones took.          *)

Failed(h) == [g |-> h, queue |-> None]

(* avia_gt_napi_queue_alloc: None when the queue, or every user queue, is busy. *)
queue_for(h, f) ==
  LET sys == CASE Request[f].stream = "video" -> {VideoQueue}
               [] Request[f].stream = "audio" -> {AudioQueue}
               [] Request[f].stream = "teletext" -> {TeletextQueue}
               [] OTHER -> UserQueues
      free == {q \in sys : ~h.queue[q].busy}
  IN IF free = {} THEN None ELSE Min(free)

(* What the four ways to start a feed share. *)
start_hw_feed(h, f, cb, type, section) ==
  LET q == queue_for(h, f)
      allocated == alloc_queue(h, q, cb, f)
      fed == alloc_generic_feed(allocated, q, type, pid_of(f), section, Request[f].filters)
      unfiltered(k) == IF section = None THEN k ELSE free_section_filter(k, section)
      indexed == IF section = None THEN [fed.g EXCEPT !.queue[q].feed_idx = fed.idx] ELSE fed.g
  IN CASE q = None -> Failed(unfiltered(h))
       [] q # None /\ fed.idx = None -> Failed(free_queue(unfiltered(fed.g), q))
       [] OTHER -> [g |-> queue_start(indexed, q, type, pid_of(f)), queue |-> q]

start_feed_generic(h, f) == start_hw_feed(h, f, "generic", "TS", None)

start_feed_ts(h, f) ==
  LET r == start_hw_feed(h, f, "ts_pes", "TS", None)
  IN IF r.queue = None THEN r ELSE [r EXCEPT !.g.ts_pid[r.queue] = pid_of(f)]

(* A pid that is active in TS mode is turned into PES by software. *)
start_feed_pes(h, f) ==
  IF \E q \in Queues : h.ts_pid[q] = pid_of(f)
    THEN start_feed_generic(h, f)
    ELSE start_hw_feed(h, f, "ts_pes", "PES", None)

(* Without room for its filters a section feed is filtered by software. *)
start_feed_section(h, f) ==
  LET first == IF SectionCap THEN best_fit(h, Request[f].filters) ELSE None
  IN IF first = None THEN start_feed_generic(h, f)
     ELSE start_hw_feed(mark_section(h, first, Request[f].filters), f, "section",
                        "SECTION", first)

start_feed_by_type(h, f) ==
  CASE is_section(f) -> start_feed_section(h, f)
    [] ~is_section(f) /\ (\/ Request[f].payload_only
                          \/ /\ ~SPTS /\ is_decoder(f)
                             /\ Request[f].stream \in {"audio", "video"})
         -> start_feed_pes(h, f)
    [] OTHER -> start_feed_ts(h, f)

(* The first user queue with the pid gives way to a decoder feed, and is     *)
(* started again when the decoder leaves.  A decoder feed in a user queue    *)
(* may find its own.                                                         *)
tap_of(h, f, start) ==
  LET taps == {q \in UserQueues : h.ts_pid[q] = pid_of(f)}
  IN IF is_decoder(f) /\ taps # {} THEN tap(h, Min(taps), start) ELSE h

(* avia_gt_napi_start_feed: with an interrupt that is in use it returns      *)
(* -EBUSY, and the queue stays as it is.                                     *)
StartFeed(f) ==
  /\ priv[f] = None
  /\ \E r \in {start_feed_by_type(g, f)} :
       IF r.queue = None THEN g' = r.g /\ UNCHANGED priv
       ELSE \E settled \in {tap_of(r.g, f, FALSE)} :
              IF reads(f)
              THEN \E irq \in {queue_irq_enable(settled, r.queue)} :
                     /\ g' = irq.g
                     /\ priv' = IF irq.ok THEN [priv EXCEPT ![f] = r.queue] ELSE priv
              ELSE g' = settled /\ priv' = [priv EXCEPT ![f] = r.queue]
  /\ muted' = IF mutes(f) /\ priv'[f] # None THEN muted \cup {pid_of(f)} ELSE muted
  /\ UNCHANGED pending

(* avia_gt_napi_stop_feed *)
StopFeed(f) ==
  LET q == priv[f]
      stopped == queue_stop(tap_of(g, f, TRUE), q)
  IN /\ priv[f] # None
     /\ g' = free_queue([stopped EXCEPT !.ts_pid[q] = NoPid], q)
     /\ priv' = [priv EXCEPT ![f] = None]
     /\ muted' = IF \E h \in started \ {f} : pid_of(h) = pid_of(f) THEN muted
                 ELSE muted \ {pid_of(f)}
     /\ UNCHANGED pending

-----------------------------------------------------------------------------
(* The chip and its interrupts.                                              *)

(* avia_gt_dmx_queue_irq: packets of a pid lie in the queue the microcode    *)
(* sent them to.  What arrives while the interrupt is off is skipped when it *)
(* is enabled.                                                               *)
QueueIrq(pid) ==
  LET q == route(g, pid)
  IN /\ q # None /\ q \in g.irqs /\ g.queue[q].busy
     /\ g' = [g EXCEPT !.queue[q].data = @ \cup {pid}]
     /\ pending' = pending \cup
          (IF g.queue[q].cb # "none" THEN {q} ELSE {})
     /\ UNCHANGED <<priv, muted>>

(* Whose callback gets the data of a queue. *)
receiver(q) ==
  IF q \in SysQueues /\ g.client[q] # None THEN g.client[q] ELSE q

(* A transport stream is searched for a packet of a pid the queue holds. *)
synced(q) ==
  g.queue[q].mode = "TS" =>
    \/ g.queue[q].pid \in g.queue[q].data
    \/ q = VideoQueue /\ g.queue[AudioQueue].pid \in g.queue[q].data

(* avia_gt_dmx_bh_task: the callback of the queue, or of its client, takes   *)
(* what is there.                                                            *)
BottomHalf(q) ==
  /\ q \in pending
  /\ pending' = pending \ {q}
  /\ g' = IF synced(q) /\ g.queue[receiver(q)].cb = "none" THEN g
          ELSE [g EXCEPT !.queue[q].data = {}]
  /\ UNCHANGED <<priv, muted>>

(* avia_gt_napi_queue_callback_section: a queue that is out of sync is       *)
(* restarted.                                                                *)
SectionResync(q) ==
  /\ q \in pending /\ g.queue[q].cb = "section" /\ g.queue[q].data # {}
  /\ g' = start_queue_feeds(queue_reset(stop_queue_feeds(g, q, FALSE), q), q)
  /\ pending' = pending \ {q}
  /\ UNCHANGED <<priv, muted>>

(* prop_ucode_handle_msgq, DMX_MESSAGE_CC_ERROR: a feed of the pid, if it is *)
(* not a tap, is stopped and started.                                        *)
CcError(pid) ==
  LET fs == feeds_of_pid(g, pid)
  IN /\ MessageCap /\ fs # {}
     /\ g' = start_ucode_feed(stop_ucode_feed(g, Min(fs), FALSE), Min(fs), FALSE)
     /\ UNCHANGED <<priv, pending, muted>>

Next ==
  \/ \E f \in Feeds : StartFeed(f) \/ StopFeed(f)
  \/ \E pid \in Pids : QueueIrq(pid) \/ CcError(pid)
  \/ \E q \in Queues : BottomHalf(q) \/ SectionResync(q)

Spec == Init /\ [][Next]_vars

-----------------------------------------------------------------------------
TypeOK ==
  /\ g.queue \in [Queues ->
       [busy : BOOLEAN, running : BOOLEAN, pid : Pids \cup {NoPid},
        mode : {"TS", "PES", "SECTION"}, owner : Feeds \cup {Nobody},
        cb : {"none", "generic", "ts_pes", "section"}, data : SUBSET Pids,
        feed_idx : UcodeFeeds \cup {None}]]
  /\ g.irqs \subseteq Queues
  /\ g.client \in [SysQueues -> UserQueues \cup {None}]
  /\ g.section_map \in [SectionSlots -> SectionSlots \cup {None}]
  /\ g.ts_pid \in [Queues -> Pids \cup {NoPid}]
  /\ priv \in [Feeds -> Queues \cup {None}] /\ pending \subseteq Queues
  /\ muted \subseteq Pids

(* A decoder feed that was refused because its interrupt serves a client.    *)
Refused(q) ==
  /\ q \in SysQueues /\ g.queue[q].owner \in Feeds \ started
  /\ Request[g.queue[q].owner].packet

(* Queues and feeds of the microcode are neither lost nor shared, whatever   *)
(* runs out half way through a start: a busy queue belongs to one started    *)
(* feed and has one microcode feed, with its pid.  The one exception is the  *)
(* queue of a start that was refused at its last step.                       *)
QueuesAccounted ==
  /\ \A f \in started : g.queue[priv[f]].busy /\ g.queue[priv[f]].owner = f
  /\ \A q \in Queues : g.queue[q].busy =>
       /\ (g.queue[q].owner \in started /\ priv[g.queue[q].owner] = q) \/ Refused(q)
       /\ \E i \in UcodeFeeds : /\ queue_feeds(g, q) = {i}
                                /\ g.ufeed[i].pid = pid_of(g.queue[q].owner)
  /\ \A i \in UcodeFeeds : g.ufeed[i].queue # None => g.queue[g.ufeed[i].queue].busy

(* Section filter slots: every feed with a filter has the whole of its run,  *)
(* no two runs overlap, and a slot that is marked is some feed's.            *)
SectionFiltersAccounted ==
  LET run(i) == g.ufeed[i].section .. g.ufeed[i].section + g.ufeed[i].filtercount - 1
      filtering == {i \in UcodeFeeds : g.ufeed[i].section # None}
  IN /\ \A i \in filtering : run(i) \subseteq SectionSlots
                           /\ \A s \in run(i) : g.section_map[s] = g.ufeed[i].section
     /\ \A i, j \in filtering : i # j => run(i) \cap run(j) = {}
     /\ \A s \in SectionSlots : g.section_map[s] # None =>
                                  \E i \in filtering : s \in run(i)

(* The chip writes only to queues of started feeds (or of a refused one),    *)
(* and only packets of the pid they were started for: an entry of the search *)
(* table does not outlive its queue.                                         *)
EntriesLive ==
  \A i \in UcodeFeeds : g.entry[i].valid =>
    LET q == g.ufeed[i].queue
    IN /\ q # None /\ g.queue[q].busy
       /\ g.entry[i].pid = g.queue[q].pid
       /\ g.entry[i].queue = target_queue(g, i)

(* The feeds of the microcode never run out before the queues do, so         *)
(* alloc_generic_feed never returns with interrupts off.                     *)
InterruptsStayOn == ~g.irqs_off

(* A user feed that wants packets always has a way to them, through starts   *)
(* and stops of decoders on its pid, restarts after lost packets and         *)
(* resyncs: the active entry of its pid leads to its own queue, or to a      *)
(* system queue that it is the client of.  Not so on a pid of mutes, as long *)
(* as anybody has it: a second user feed is not active, and nobody activates *)
(* it when the first or the decoder goes; and a decoder feed in a user queue *)
(* takes itself for the feed it has to stop.                                 *)
HearsItsPid ==
  \A f \in started : priv[f] \in UserQueues /\ reads(f) /\ pid_of(f) \notin muted =>
    LET q == route(g, pid_of(f))
    IN \/ q = priv[f] /\ q \in g.irqs
       \/ q \in SysQueues /\ g.client[q] = priv[f]

(* A bottom half that was queued for one feed never gives its packets to     *)
(* another, though queues are freed, given out again and change their        *)
(* clients while it waits.                                                   *)
DeliversOwnPid ==
  \A q \in pending :
    LET r == g.queue[receiver(q)]
    IN synced(q) /\ r.cb # "none" => g.queue[q].data \subseteq {pid_of(r.owner)}
=============================================================================
