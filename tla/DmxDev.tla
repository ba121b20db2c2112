------------------------------- MODULE DmxDev -------------------------------
(***************************************************************************)
(* The demux device files (dvb-core/dmxdev.c) on top of the demux kernel   *)
(* API: filters that share one section feed per pid, one-shot and timed    *)
(* filters, restarts of a shared feed, and the callbacks and timers that   *)
(* write into the filters from interrupt context.                          *)
(*                                                                         *)
(* An ioctl, open or close holds dmxdev->mutex, so it is one step.  What    *)
(* may happen inside it is the expiry of the filter's own timer: between   *)
(* the state change and del_timer of feed_stop, and between add_timer and  *)
(* the state change of filter_start.  Both windows are outcomes of the     *)
(* step when TimerRaces is TRUE.  Everything else an interrupt does there  *)
(* has the effect it has just before or just after the step.               *)
(***************************************************************************)
EXTENDS DvbDemuxOps

CONSTANTS
  NDev,        \* dmxdev->filternum
  NoDev,       \* a NULL priv pointer
  NoFilter,    \* a NULL section filter pointer
  SecRequests, \* parameters the DMX_SET_FILTER of each slot may carry
  PesRequests, \* parameters the DMX_SET_PES_FILTER of each slot may carry
  TimerRaces   \* may a timer expire inside the windows named above?

Devs == 0 .. NDev - 1

ASSUME DmxDevAssumption ==
  /\ NDev \in Nat /\ NoDev \notin Devs /\ NoFilter \notin Filters
  /\ TimerRaces \in BOOLEAN
  /\ \A k \in Devs :
       /\ SecRequests[k] \subseteq
            [pid : Pids, oneshot : BOOLEAN, timeout : BOOLEAN, crc : BOOLEAN]
       /\ PesRequests[k] \subseteq [pid : Pids \cup {BadPid},
            pes : PesTypes \cup {OtherPes}, output : {"DECODER", "TAP"}]

VARIABLES
  dmx,     \* struct dvb_demux, a record of Demux
  fil,     \* dmxdev->filter[]
  priv,    \* (*secfilter)->priv of every section filter slot
  tspriv,  \* (*tsfeed)->priv of every feed slot
  dead     \* "no", or how a caller died: "oops" (NULL feed), "hung" (a
           \* section filter released with its feed running)

vars == <<dmx, fil, priv, tspriv, dead>>

(* struct dmxdev_filter.  .buf holds the pids of the data the ring buffer   *)
(* contains, .err is buffer.error, .file says whether a file still refers   *)
(* to the slot.                                                             *)
Running == {"GO", "DONE", "TIMEDOUT"}          \* state >= DMXDEV_STATE_GO
Armed == {"SET"} \cup Running                  \* state >= DMXDEV_STATE_SET
DevFilter ==
  [state : {"FREE", "ALLOCATED"} \cup Armed, type : {"NONE", "SEC", "PES"},
   pid : Pids \cup {NoPid, BadPid}, oneshot : BOOLEAN, timeout : BOOLEAN,
   crc : BOOLEAN, pes : PesTypes \cup {OtherPes}, output : {"DECODER", "TAP"},
   feed : Feeds \cup {NoFeed}, sec : Filters \cup {NoFilter}, timer : BOOLEAN,
   err : {"none", "ETIMEDOUT", "EOVERFLOW"}, buf : SUBSET Pids, file : BOOLEAN]

Closed == [state |-> "FREE", type |-> "NONE", pid |-> NoPid, oneshot |-> FALSE,
           timeout |-> FALSE, crc |-> FALSE, pes |-> OtherPes,
           output |-> "TAP", feed |-> NoFeed, sec |-> NoFilter,
           timer |-> FALSE, err |-> "none", buf |-> {}, file |-> FALSE]

Init ==
  /\ dmx = dmx_init([f \in Feeds |-> OtherPes])
  /\ fil = [k \in Devs |-> Closed]
  /\ priv = [i \in Filters |-> NoDev]
  /\ tspriv = [f \in Feeds |-> NoDev]
  /\ dead = "no"

-----------------------------------------------------------------------------
(* The functions of dmxdev.c, on a world w = [d, fil, priv, tspriv, dead].  *)
(* Each returns the set of worlds it may leave behind; their results are    *)
(* chained with Then.                                                       *)
World == [d |-> dmx, fil |-> fil, priv |-> priv, tspriv |-> tspriv, dead |-> dead]
Becomes(w) == /\ dmx' = w.d /\ fil' = w.fil /\ priv' = w.priv
              /\ tspriv' = w.tspriv /\ dead' = w.dead

Then(W, F(_)) == UNION {F(w) : w \in W}
Set(w, k, x) == [w EXCEPT !.fil[k] = x]
With(w, d) == [w EXCEPT !.d = d]
Ret(w, ret) == {[w |-> w, ret |-> ret]}

(* The timer expires: filter_timeout, called from the timer interrupt *)
timed_out(x) == [x EXCEPT !.state = "TIMEDOUT", !.err = "ETIMEDOUT",
                          !.timer = FALSE]
Window(x, y) == {y} \cup (IF TimerRaces /\ x.timer THEN {timed_out(x)} ELSE {})

del_timer_forgotten(x) == x  \* mutant: the timer outlives the stop
del_timer(x) == [x EXCEPT !.timer = FALSE]

feed_stop_marked(w, k) ==  \* mutant: the feed itself is not stopped
  {Set(w, k, del_timer([w.fil[k] EXCEPT !.state = "SET"]))}
feed_stop(w, k) ==
  LET x == [w.fil[k] EXCEPT !.state = "SET"]
      stopped == IF x.type = "SEC" THEN section_feed_stop_filtering(w.d, x.feed)
                 ELSE ts_feed_stop_filtering(w.d, x.feed)
  IN  {Set(With(w, r.d), k, y) :
         r \in stopped,
         y \in IF x.type = "SEC" THEN Window(x, del_timer(x)) ELSE {x}}

feed_start(w, k) ==
  LET x == [w.fil[k] EXCEPT !.state = "GO"]
  IN  IF x.feed = NoFeed THEN {[Set(w, k, x) EXCEPT !.dead = "oops"]}
      ELSE {Set(With(w, r.d), k, x) :
              r \in IF x.type = "SEC" THEN section_feed_start_filtering(w.d, x.feed)
                    ELSE ts_feed_start_filtering(w.d, x.feed)}

(* The first running section filter of this pid, by its index *)
sharer(w, pid) == First({k \in Devs : /\ w.fil[k].state \in Running
                                      /\ w.fil[k].type = "SEC"
                                      /\ w.fil[k].pid = pid})

feed_restart_always(w, k) ==  \* mutant: a feed still in use is released
  {With(w, r.d) : r \in release_section_feed(w.d, w.fil[k].feed)}
feed_restart(w, k) ==
  LET left == sharer(w, w.fil[k].pid)
  IN  IF left # {} THEN UNION {feed_start(w, j) : j \in left}
      ELSE {With(w, r.d) : r \in release_section_feed(w.d, w.fil[k].feed)}

release_filter_not(w, k) == {w}  \* mutant: the filter is left in the chain
release_filter(w, k) ==
  LET x == w.fil[k]
  IN  IF x.sec = NoFilter THEN {w}
      ELSE {[With(w, r.d) EXCEPT !.dead = IF r.ret = "DEADLOCK" THEN "hung" ELSE @] :
              r \in section_feed_release_filter(w.d, x.feed, x.sec)}

release_ts(w, k) ==
  {With(w, r.d) : r \in release_ts_feed(w.d, w.fil[k].feed)}

detached(w, k) == {Set(w, k, [w.fil[k] EXCEPT !.feed = NoFeed,
                                                !.sec = NoFilter])}
flushed_not(w, k) == {w}  \* mutant: the ring buffer keeps its data
flushed(w, k) == {Set(w, k, [w.fil[k] EXCEPT !.buf = {}])}

filter_stop(w, k) ==
  LET release(v) == release_filter(v, k)
      restart(v) == feed_restart(v, k)
      free(v) == release_ts(v, k)
      detach(v) == detached(v, k)
      flush(v) == flushed(v, k)
      stopped == feed_stop(w, k)
  IN  IF w.fil[k].state \notin Running THEN {w} ELSE
      Then(IF w.fil[k].feed = NoFeed THEN {w} ELSE
           IF w.fil[k].type = "SEC"
           THEN Then(Then(Then(stopped, release), restart), detach)
           ELSE Then(Then(stopped, free), detach),
           flush)

-----------------------------------------------------------------------------
(* dvb_dmxdev_filter_start, case DMXDEV_TYPE_SEC *)

(* The feed of a running filter of the same pid, or a new feed.  Sharing    *)
(* stops the feed; the sharer's CRC flag is not looked at.                  *)
new_feed(w, k) ==
  LET x == w.fil[k]
  IN  UNION {IF r.ret # "ok" THEN Ret(With(w, r.d), r.ret)
             ELSE UNION {LET v == Set(With(w, s.d), k, [x EXCEPT !.feed = r.slot])
                         IN  IF s.ret = "ok" THEN Ret(v, "ok")
                             ELSE UNION {Ret(u, s.ret) : u \in feed_restart(v, k)} :
                         s \in section_feed_set(r.d, r.slot, x.pid, x.crc)} :
             r \in allocate_section_feed(w.d)}

find_feed_unshared(w, k) == new_feed(w, k)  \* mutant: the scan finds nothing
find_feed(w, k) ==
  LET shared == {w.fil[j].feed : j \in sharer(w, w.fil[k].pid)} \ {NoFeed}
  IN  IF shared = {} THEN new_feed(w, k)
      ELSE UNION {UNION {Ret(v, "ok") :
                    v \in feed_stop(Set(w, k, [w.fil[k] EXCEPT !.feed = f]), k)} :
                  f \in shared}

(* No filter slot left: the feed is restarted or released, and then started *)
(* once more.                                                               *)
no_filter(w, k) ==
  UNION {{With(v, r.d) : r \in section_feed_start_filtering(v.d, v.fil[k].feed)} :
         v \in feed_restart(w, k)}

filter_timer(x) == [x EXCEPT !.timer = x.timeout]

(* A start refused by the driver leaves feed and filter where they are. *)
run_section(w, k, i) ==
  LET x == [w.fil[k] EXCEPT !.sec = i]
  IN  UNION {LET v == [With(w, r.d) EXCEPT !.fil[k] = x, !.priv[i] = k]
             IN  IF r.ret # "ok" THEN {v} ELSE
                 {Set(v, k, [y EXCEPT !.state = "GO"]) :
                    y \in Window(filter_timer(x), filter_timer(x))} :
             r \in section_feed_start_filtering(w.d, x.feed)}

start_section(w, k) ==
  LET bare == [w.fil[k] EXCEPT !.feed = NoFeed, !.sec = NoFilter]
  IN  UNION {IF found.ret # "ok" THEN {found.w} ELSE
             UNION {IF r.ret # "ok" THEN no_filter(With(found.w, r.d), k)
                    ELSE run_section(With(found.w, r.d), k, r.slot) :
                    r \in section_feed_allocate_filter(found.w.d,
                                                       found.w.fil[k].feed)} :
             found \in find_feed(Set(w, k, bare), k)}

(* dvb_dmxdev_filter_start, case DMXDEV_TYPE_PES.  A refused start leaves   *)
(* the feed configured and the filter in state SET.                         *)
run_ts(w, k) ==
  UNION {LET v == With(w, r.d)
         IN  IF r.ret # "ok" THEN {v}
             ELSE {Set(v, k, [v.fil[k] EXCEPT !.state = "GO"])} :
         r \in ts_feed_start_filtering(w.d, w.fil[k].feed)}

start_ts(w, k) ==
  LET x == w.fil[k]
      configured(v) ==
        UNION {IF r.ret = "ok" THEN run_ts(With(v, r.d), k)
               ELSE release_ts(With(v, r.d), k) :
               r \in ts_feed_set(v.d, v.fil[k].feed, x.pid, x.pes # OtherPes, x.pes)}
  IN  UNION {IF r.ret # "ok"
             THEN {Set(With(w, r.d), k, [x EXCEPT !.feed = NoFeed])}
             ELSE configured([With(w, r.d) EXCEPT
                    !.fil[k] = [x EXCEPT !.feed = r.slot],
                    !.tspriv[r.slot] = k]) :
             r \in allocate_ts_feed(w.d)}

filter_start(w, k) ==
  LET flush(v) == flushed(v, k)
      begin(v) == IF v.fil[k].type = "SEC" THEN start_section(v, k) ELSE start_ts(v, k)
  IN  IF w.fil[k].state \notin Armed THEN {w}
      ELSE Then(Then(filter_stop(w, k), flush), begin)

-----------------------------------------------------------------------------
(* The files.  A call that finds a signal pending returns ERESTARTSYS; a    *)
(* close that does so leaves the slot as it is, and no file refers to it.   *)

Open(k) ==
  /\ k \in First({j \in Devs : fil[j].state = "FREE"})
  /\ fil' = [fil EXCEPT ![k] = [Closed EXCEPT !.state = "ALLOCATED",
                                             !.file = TRUE]]
  /\ UNCHANGED <<dmx, priv, tspriv, dead>>

(* What the slot still holds of its last user is overwritten before it is   *)
(* read again.                                                              *)
filter_free(w, k) ==
  LET freed(v) == {Set(v, k, Closed)}
  IN  Then(filter_stop(w, k), freed)

Close(k) ==
  /\ fil[k].file
  /\ \/ \E w \in filter_free(World, k) : Becomes(w)
     \/ /\ Signals
        /\ fil' = [fil EXCEPT ![k].file = FALSE]
        /\ UNCHANGED <<dmx, priv, tspriv, dead>>

(* DMX_SET_FILTER and DMX_SET_PES_FILTER, each with DMX_IMMEDIATE_START or  *)
(* without                                                                  *)
set_section(w, k, req) ==
  Set(w, k, [w.fil[k] EXCEPT !.state = "SET", !.type = "SEC", !.pid = req.pid,
     !.oneshot = req.oneshot, !.timeout = req.timeout, !.crc = req.crc])
set_pes(w, k, req) ==
  Set(w, k, [w.fil[k] EXCEPT !.state = "SET", !.type = "PES", !.pid = req.pid,
     !.pes = req.pes, !.output = req.output])

SetFilter(k) ==
  /\ fil[k].file
  /\ \E req \in SecRequests[k] : \E w \in filter_stop(World, k) :
       LET v == set_section(w, k, req)
       IN  Becomes(v) \/ \E u \in filter_start(v, k) : Becomes(u)

SetPesFilter(k) ==
  /\ fil[k].file
  /\ \E req \in PesRequests[k] : \E w \in filter_stop(World, k) :
       LET v == set_pes(w, k, req)
       IN  Becomes(v) \/ \E u \in filter_start(v, k) : Becomes(u)

Start(k) == /\ fil[k].file /\ fil[k].state \in Armed
            /\ \E w \in filter_start(World, k) : Becomes(w)

Stop(k) == /\ fil[k].file
           /\ \E w \in filter_stop(World, k) : Becomes(w)

(* DMX_SET_BUFFER_SIZE, to another size *)
SetBufferSize(k) ==
  /\ fil[k].file /\ fil[k].state \notin Running
  /\ \E w \in flushed(World, k) : Becomes(w)

(* One read of a reader that finds something: an error is reported once,    *)
(* and drops the data.                                                      *)
Read(k) ==
  /\ fil[k].file
  /\ \/ fil[k].err # "none"
        /\ fil' = [fil EXCEPT ![k].err = "none", ![k].buf = {}]
     \/ fil[k].err = "none" /\ fil[k].buf # {}
        /\ fil' = [fil EXCEPT ![k].buf = {}]
  /\ UNCHANGED <<dmx, priv, tspriv, dead>>

-----------------------------------------------------------------------------
(* Interrupt context *)

Timeout(k) ==
  /\ fil[k].timer
  /\ fil' = [fil EXCEPT ![k] = timed_out(@)]
  /\ UNCHANGED <<dmx, priv, tspriv, dead>>

(* buffer_write: the data fits, or the buffer overflows *)
written(x, pid) == {[x EXCEPT !.buf = @ \cup {pid}],
                    [x EXCEPT !.buf = {}, !.err = "EOVERFLOW"]}

finished(x) == IF x.oneshot THEN [x EXCEPT !.state = "DONE"] ELSE x

(* dvb_dmxdev_section_callback; while an error is pending the section is    *)
(* dropped and the timer runs on                                            *)
section_callback(x, pid) ==
  IF x.err # "none" \/ x.state # "GO" THEN {x}
  ELSE {finished(y) : y \in written([x EXCEPT !.timer = FALSE], pid)}

(* dvb_dmxdev_ts_callback, for output TAP *)
ts_callback(x, pid) ==
  IF x.output = "DECODER" \/ x.err # "none" THEN {x} ELSE written(x, pid)

(* A section that filter i of a running feed matches, or the payload of a   *)
(* TS feed, reaches the filter its priv pointer names.                      *)
Live == {f \in dmx.list : dmx.feed[f].filtering}
Section(f, i) ==
  /\ f \in Live /\ dmx.feed[f].type = "SEC" /\ i \in dmx.feed[f].chain
  /\ \E x \in section_callback(fil[priv[i]], dmx.feed[f].pid) :
       fil' = [fil EXCEPT ![priv[i]] = x]
  /\ UNCHANGED <<dmx, priv, tspriv, dead>>
Payload(f) ==
  /\ f \in Live /\ dmx.feed[f].type = "TS"
  /\ \E x \in ts_callback(fil[tspriv[f]], dmx.feed[f].pid) :
       fil' = [fil EXCEPT ![tspriv[f]] = x]
  /\ UNCHANGED <<dmx, priv, tspriv, dead>>

-----------------------------------------------------------------------------
OwnCall(k) == \/ Open(k) \/ Close(k) \/ SetFilter(k) \/ SetPesFilter(k)
              \/ Start(k) \/ Stop(k) \/ SetBufferSize(k) \/ Read(k)

Next ==
  /\ dead = "no"
  /\ \/ \E k \in Devs : OwnCall(k)
     \/ \E k \in Devs : Timeout(k)
     \/ \E f \in Feeds, i \in Filters : Section(f, i)
     \/ \E f \in Feeds : Payload(f)

Spec == Init /\ [][Next]_vars

-----------------------------------------------------------------------------
TypeOK ==
  /\ dmx \in Demux
  /\ fil \in [Devs -> DevFilter]
  /\ priv \in [Filters -> Devs \cup {NoDev}]
  /\ tspriv \in [Feeds -> Devs \cup {NoDev}]
  /\ dead \in {"no", "oops", "hung"}

(* A filter in state GO can get data: whatever its neighbours on the same   *)
(* pid did with the shared feed (start, stop, close, fail for want of a     *)
(* filter slot), the feed runs and carries the filter's pid, and its own    *)
(* section filter is in the chain.                                          *)
GoingIsFed ==
  \A k \in Devs : LET x == fil[k] IN x.state = "GO" =>
    /\ x.feed \in Live
    /\ dmx.feed[x.feed].pid = x.pid
    /\ IF x.type = "SEC"
       THEN /\ dmx.feed[x.feed].type = "SEC"
            /\ x.sec \in dmx.feed[x.feed].chain /\ priv[x.sec] = k
       ELSE dmx.feed[x.feed].type = "TS" /\ tspriv[x.feed] = k

(* An interrupt never writes into a filter that was closed or reused for    *)
(* another feed: whoever the packet path can reach owns what it is reached  *)
(* through.                                                                 *)
DeliveryToOwner ==
  \A f \in Live : IF dmx.feed[f].type = "SEC"
    THEN \A i \in dmx.feed[f].chain : priv[i] \in Devs /\
           LET x == fil[priv[i]] IN
           x.file /\ x.type = "SEC" /\ x.sec = i /\ x.feed = f
    ELSE tspriv[f] \in Devs /\
           LET x == fil[tspriv[f]] IN x.file /\ x.type = "PES" /\ x.feed = f

(* What a reader gets was received for the pid the filter is set to now,    *)
(* not for the pid it had before it was set anew.                           *)
BufferOwnPid == \A k \in Devs : fil[k].buf \subseteq {fil[k].pid}

(* A timer is pending only for a filter that still waits for its first      *)
(* section: a stopped, finished or closed filter is never timed out.        *)
TimerOnlyWhileGoing ==
  \A k \in Devs : fil[k].timer => fil[k].state = "GO" /\ fil[k].timeout

(* Running section filters share a feed exactly when they share a pid.      *)
OneFeedPerPid ==
  \A j, k \in Devs :
    LET x == fil[j]  y == fil[k] IN
    x.state \in Running /\ y.state \in Running /\ x.type = "SEC"
      => (x.feed = y.feed <=> y.type = "SEC" /\ x.pid = y.pid)

Uses(x, i) ==
  /\ x.state \in Running /\ x.feed # NoFeed
  /\ i \in dmx.feed[x.feed].chain
  /\ x.type = "SEC" => x.sec = i

(* No slot of the demux is lost: every feed in use belongs to a running     *)
(* filter, and every section filter in use to exactly one.                  *)
NoSlotLost ==
  /\ \A f \in Feeds : dmx.feed[f].state # "FREE" =>
       \E k \in Devs : fil[k].state \in Running /\ fil[k].feed = f
  /\ \A i \in Filters : dmx.filter[i].state # "FREE" =>
       \E k \in Devs : \A j \in Devs : Uses(fil[j], i) <=> j = k

(* Nobody dereferences a NULL feed or deadlocks on demux->mutex.            *)
NobodyDies == dead = "no"

(* DMX_STOP leaves the filter stopped: "stop feed but only mark the         *)
(* specified filter as stopped (state set)".                                *)
StopMarksStopped ==
  [][\A k \in Devs : Stop(k) => fil'[k].state \notin Running]_vars
=============================================================================
