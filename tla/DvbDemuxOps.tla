---------------------------- MODULE DvbDemuxOps ----------------------------
(***************************************************************************)
(* The feed and filter slots of the software demultiplexer                 *)
(* (dvb-core/dvb_demux.c) and every call of its kernel API, as operators   *)
(* on one record d of type Demux.                                          *)
(*                                                                         *)
(* A call runs under demux->mutex, so it is one atomic step for its        *)
(* callers.  It returns the SET of its possible outcomes: an outcome holds *)
(* the demux afterwards (.d), the slot handed to the caller (.slot) and    *)
(* the return code (.ret).  More than one outcome means the code's         *)
(* environment decides: a signal may interrupt down_interruptible          *)
(* (Signals), the driver's start_feed may refuse (HwMayFail).              *)
(***************************************************************************)
EXTENDS Integers, FiniteSets, WellFoundedInduction, TLAPS

CONSTANTS
  NFeeds,      \* demux->feednum
  NFilters,    \* demux->filternum
  Pids,        \* pids a caller may ask for, all in range
  BadPid,      \* a pid above DMX_MAX_PID
  PesTypes,    \* decoder stream types: those below DMX_TS_PES_OTHER
  OtherPes,    \* DMX_TS_PES_OTHER, the type of a feed with no decoder
  NoFeed,      \* a NULL feed pointer
  Signals,     \* may a signal interrupt down_interruptible?
  HwMayFail    \* may the driver's start_feed fail?

Feeds == 0 .. NFeeds - 1
Filters == 0 .. NFilters - 1
NoPid == 65535

ASSUME DemuxAssumption ==
  /\ NFeeds \in Nat /\ NFilters \in Nat
  /\ NoFeed \notin Feeds
  /\ NoPid \notin Pids /\ BadPid \notin Pids
  /\ OtherPes \notin PesTypes
  /\ Signals \in BOOLEAN /\ HwMayFail \in BOOLEAN

SlotStates == {"FREE", "ALLOCATED", "READY", "GO"}

(* struct dvb_demux_feed.  .decoder is ts_type & TS_DECODER and .pes is     *)
(* pes_type; .filtering is is_filtering of the embedded ts or section       *)
(* feed; .chain holds the filters linked from feed->filter (one for a TS     *)
(* feed; their order decides nothing that is modelled).                     *)
Feed == [state : SlotStates, type : {"TS", "SEC"}, pid : Pids \cup {NoPid},
         decoder : BOOLEAN, pes : PesTypes \cup {OtherPes},
         filtering : BOOLEAN, crc : BOOLEAN, chain : SUBSET Filters]

(* struct dvb_demux_filter: who owns the slot *)
Filter == [state : {"FREE", "ALLOCATED", "READY"}, feed : Feeds \cup {NoFeed}]

(* struct dvb_demux; .hw is the set of feeds the driver was asked to start  *)
(* and has not been asked to stop since.                                    *)
Demux == [feed : [Feeds -> Feed], filter : [Filters -> Filter],
          list : SUBSET Feeds, pesfilter : [PesTypes -> Feeds \cup {NoFeed}],
          pids : [PesTypes -> Pids \cup {NoPid}], hw : SUBSET Feeds]

(* dvb_dmx_init.  The slots come from vmalloc and only .state is written:   *)
(* the decoder type a slot starts with is whatever the memory held, one of  *)
(* the values of left.                                                      *)
dmx_init(left) ==
  [feed |-> [f \in Feeds |->
     [state |-> "FREE", type |-> "TS", pid |-> NoPid,
      decoder |-> left[f] # OtherPes, pes |-> left[f],
      filtering |-> FALSE, crc |-> FALSE, chain |-> {}]],
   filter |-> [i \in Filters |-> [state |-> "FREE", feed |-> NoFeed]],
   list |-> {}, pesfilter |-> [p \in PesTypes |-> NoFeed],
   pids |-> [p \in PesTypes |-> NoPid], hw |-> {}]

-----------------------------------------------------------------------------
Outcome(d, slot, ret) == {[d |-> d, slot |-> slot, ret |-> ret]}
Return(d, ret) == Outcome(d, NoFeed, ret)

(* down_interruptible: a pending signal makes the call return at once *)
Interrupted(d) == IF Signals THEN Return(d, "ERESTARTSYS") ELSE {}

(* The slot scans take the first free index.  The set has at most one       *)
(* element, and none when every slot is taken.                              *)
First(S) == {i \in S : \A j \in S : i <= j}
feed_alloc_idle(d) == First({f \in Feeds : d.feed[f].state # "GO"})  \* mutant
feed_alloc(d) == First({f \in Feeds : d.feed[f].state = "FREE"})
filter_alloc(d) == First({i \in Filters : d.filter[i].state = "FREE"})

(* demux->start_feed and demux->stop_feed, and the state they lead to *)
filtering(feed, on, state) == [feed EXCEPT !.filtering = on, !.state = state]

start_feed(d, f) ==
  Return([d EXCEPT !.hw = @ \cup {f},
                   !.feed[f] = filtering(@, TRUE, "GO")], "ok")
  \cup (IF HwMayFail THEN Return(d, "EIO") ELSE {})

stop_feed(d, f, state) ==
  Return([d EXCEPT !.hw = @ \ {f},
                   !.feed[f] = filtering(@, FALSE, state)], "ok")

-----------------------------------------------------------------------------
(* TS feeds *)

(* The slot is set up before its filter is looked for: a feed for which no  *)
(* filter is left is free again, but a TS feed.                             *)
ts_slot(feed, state, chain) ==
  [feed EXCEPT !.state = state, !.type = "TS", !.pid = NoPid,
               !.filtering = FALSE, !.chain = chain]

allocate_ts_feed(d) ==
  Interrupted(d) \cup
  (IF feed_alloc(d) = {} THEN Return(d, "EBUSY") ELSE
   IF filter_alloc(d) = {}
   THEN UNION {Return([d EXCEPT !.feed[f] = ts_slot(@, "FREE", {})], "EBUSY") :
               f \in feed_alloc(d)}
   ELSE UNION {UNION {Outcome([d EXCEPT
                   !.feed[f] = ts_slot(@, "ALLOCATED", {i}),
                   !.filter[i] = [state |-> "READY", feed |-> f]], f, "ok") :
               i \in filter_alloc(d)} : f \in feed_alloc(d)})

in_range_unchecked(pid) == TRUE  \* mutant
in_range(pid) == pid # BadPid

ts_params_stale(feed, pid, decoder, pes) ==  \* mutant: pes_type not recorded
  [feed EXCEPT !.pid = pid, !.decoder = decoder, !.state = "READY"]
ts_params(feed, pid, decoder, pes) ==
  [feed EXCEPT !.pid = pid, !.decoder = decoder, !.pes = pes, !.state = "READY"]

(* dmx_ts_feed_set: the decoder's slot is taken before the feed records     *)
(* its own type, and a refused call leaves the type of the previous owner.  *)
ts_feed_set(d, f, pid, decoder, pes) ==
  LET taken == decoder /\ d.pesfilter[pes] \notin {NoFeed, f}
  IN  IF ~in_range(pid) THEN Return(d, "EINVAL") ELSE
      Interrupted(d) \cup
      (IF decoder /\ pes = OtherPes THEN Return(d, "EINVAL") ELSE
       IF taken THEN Return(d, "EINVAL") ELSE
       Return([d EXCEPT
           !.pesfilter = IF decoder THEN [@ EXCEPT ![pes] = f] ELSE @,
           !.pids = IF decoder THEN [@ EXCEPT ![pes] = pid] ELSE @,
           !.list = @ \cup {f},
           !.feed[f] = ts_params(@, pid, decoder, pes)], "ok"))

ts_feed_start_filtering(d, f) ==
  Interrupted(d) \cup
  (IF d.feed[f].state # "READY" \/ d.feed[f].type # "TS"
   THEN Return(d, "EINVAL") ELSE start_feed(d, f))

ts_feed_stop_filtering(d, f) ==
  Interrupted(d) \cup
  (IF d.feed[f].state # "GO" THEN Return(d, "EINVAL")
   ELSE stop_feed(d, f, "ALLOCATED"))

(* feed->filter, the one filter of a TS feed *)
own_filter_kept(d, f) == {}  \* mutant: the filter slot is not given back
own_filter(d, f) == d.feed[f].chain

unreserved_kept(d, f) == d.pesfilter  \* mutant: the reservation is not dropped
unreserved(d, f) ==
  IF d.feed[f].decoder THEN [d.pesfilter EXCEPT ![d.feed[f].pes] = NoFeed]
  ELSE d.pesfilter

release_ts_feed(d, f) ==
  LET feed == d.feed[f]
  IN  Interrupted(d) \cup
      (IF feed.state = "FREE" THEN Return(d, "EINVAL") ELSE
       Return([d EXCEPT
           !.feed[f] = [@ EXCEPT !.state = "FREE", !.pid = NoPid],
           !.filter = [i \in Filters |-> IF i \in own_filter(d, f)
                         THEN [@[i] EXCEPT !.state = "FREE"] ELSE @[i]],
           !.list = @ \ {f},
           !.pesfilter = unreserved(d, f)], "ok"))

-----------------------------------------------------------------------------
(* Section feeds *)

sec_slot(feed) == [feed EXCEPT !.state = "ALLOCATED", !.type = "SEC",
                    !.pid = NoPid, !.filtering = FALSE, !.chain = {}]

allocate_section_feed(d) ==
  Interrupted(d) \cup
  (IF feed_alloc(d) = {} THEN Return(d, "EBUSY") ELSE
   UNION {Outcome([d EXCEPT !.feed[f] = sec_slot(@)], f, "ok") :
          f \in feed_alloc(d)})

section_feed_set(d, f, pid, check_crc) ==
  IF ~in_range(pid) THEN Return(d, "EINVAL") ELSE
  Interrupted(d) \cup
  Return([d EXCEPT !.list = @ \cup {f},
             !.feed[f] = [@ EXCEPT !.pid = pid, !.crc = check_crc,
                                   !.state = "READY"]], "ok")

section_feed_allocate_filter(d, f) ==
  Interrupted(d) \cup
  (IF filter_alloc(d) = {} THEN Return(d, "EBUSY") ELSE
   UNION {Outcome([d EXCEPT
             !.filter[i] = [state |-> "READY", feed |-> f],
             !.feed[f].chain = @ \cup {i}], i, "ok") : i \in filter_alloc(d)})

section_feed_start_filtering(d, f) ==
  Interrupted(d) \cup
  (IF d.feed[f].filtering THEN Return(d, "EBUSY") ELSE
   IF d.feed[f].chain = {} THEN Return(d, "EINVAL") ELSE start_feed(d, f))

(* No state is checked: a stop of a feed that never started still makes it  *)
(* READY.                                                                   *)
section_feed_stop_filtering(d, f) ==
  Interrupted(d) \cup stop_feed(d, f, "READY")

(* A feed that is filtering calls stop_filtering with the mutex held; that  *)
(* outcome is "DEADLOCK" (the caller sleeps for ever on its own mutex).     *)
section_feed_release_filter(d, f, i) ==
  Interrupted(d) \cup
  (IF d.filter[i].feed # f THEN Return(d, "EINVAL") ELSE
   IF d.feed[f].filtering THEN Return(d, "DEADLOCK") ELSE
   Return([d EXCEPT !.filter[i].state = "FREE",
             !.feed[f].chain = @ \ {i}], "ok"))

(* The filters still hanging off the feed keep their slots. *)
release_section_feed(d, f) ==
  Interrupted(d) \cup
  (IF d.feed[f].state = "FREE" THEN Return(d, "EINVAL") ELSE
   Return([d EXCEPT !.list = @ \ {f},
             !.feed[f] = [@ EXCEPT !.state = "FREE", !.pid = NoPid]], "ok"))
-----------------------------------------------------------------------------
(* What calls in a legal order keep as long as no signal interrupts them.   *)

(* The chain of a feed in use and the feed pointers of the filters in use   *)
(* say the same, and no filter in use points at a free feed.                *)
ChainsMatch(d) ==
  /\ \A f \in Feeds : d.feed[f].state # "FREE" =>
       d.feed[f].chain = {i \in Filters : /\ d.filter[i].state # "FREE"
                                         /\ d.filter[i].feed = f}
  /\ \A i \in Filters : d.filter[i].state # "FREE" =>
       /\ d.filter[i].state = "READY"
       /\ d.filter[i].feed \in Feeds /\ d.feed[d.filter[i].feed].state # "FREE"

(* The driver runs what is filtering, and only configured feeds with a      *)
(* filter are.                                                              *)
DriverRunsFiltering(d) ==
  \A f \in Feeds :
    /\ f \in d.hw <=> d.feed[f].filtering
    /\ d.feed[f].filtering =>
         d.feed[f].state = "GO" /\ f \in d.list /\ d.feed[f].chain # {}

Sound(d) == d \in Demux /\ ChainsMatch(d) /\ DriverRunsFiltering(d)

-----------------------------------------------------------------------------
(* What each call does to a demux that is Sound: one lemma per call, used    *)
(* for every client of the demux (DvbDemux, DmxDev).                         *)

(* A call on feed f leaves the other feeds as they are. *)
OnlyFeed(d, e, f) ==
  \A g \in Feeds \ {f} : /\ e.feed[g] = d.feed[g]
                         /\ g \in e.list <=> g \in d.list
                         /\ g \in e.hw <=> g \in d.hw

(* A call that hands out nothing may have written to a free slot. *)
NoFeedTaken(d, e) ==
  \A g \in Feeds :
    /\ e.feed[g].state = "FREE" <=> d.feed[g].state = "FREE"
    /\ d.feed[g].state # "FREE" => e.feed[g] = d.feed[g]
    /\ g \in e.list <=> g \in d.list

(* The filters of the other feeds stay as they are, too. *)
OnlyFilters(d, e, f) ==
  \A i \in Filters :
    \/ e.filter[i] = d.filter[i]
    \/ /\ d.filter[i].state # "FREE" => d.filter[i].feed = f
       /\ e.filter[i].state # "FREE" => e.filter[i] = [state |-> "READY", feed |-> f]

(* Kept is what no call with a feed in use does: it neither frees the feed  *)
(* nor touches its pid, type or chain.                                      *)
SameFeed(x, y) == /\ y.type = x.type /\ y.pid = x.pid /\ y.chain = x.chain
                  /\ y.decoder = x.decoder /\ y.pes = x.pes

(* The feed differs in its chain only. *)
Relinked(x, y, chain) ==
  /\ y.state = x.state /\ y.type = x.type /\ y.pid = x.pid
  /\ y.filtering = x.filtering /\ y.chain = chain

(* A demux with no feed and no filter in use is sound. *)
LEMMA SoundInit ==
  ASSUME NEW left \in [Feeds -> PesTypes \cup {OtherPes}]
  PROVE  /\ Sound(dmx_init(left))
         /\ \A f \in Feeds : dmx_init(left).feed[f].state = "FREE"
<1> DEFINE d == dmx_init(left)
<1>1. d \in Demux
  BY DEF dmx_init, Demux, Feed, Filter, SlotStates
<1>2. /\ \A f \in Feeds : d.feed[f].state = "FREE" /\ ~d.feed[f].filtering
      /\ \A i \in Filters : d.filter[i].state = "FREE"
      /\ d.hw = {}
  BY DEF dmx_init
<1> HIDE DEF d
<1>3. Sound(d)
  BY <1>1, <1>2 DEF Sound, ChainsMatch, DriverRunsFiltering
<1> QED BY <1>2, <1>3 DEF d

LEMMA FirstFree ==
  ASSUME NEW d \in Demux
  PROVE  /\ \A f \in feed_alloc(d) :
              f \in Feeds /\ d.feed[f].state = "FREE" /\ d.feed[f] \in Feed
         /\ \A i \in filter_alloc(d) : i \in Filters /\ d.filter[i].state = "FREE"
  BY DEF feed_alloc, filter_alloc, First, Demux

-----------------------------------------------------------------------------
(* A sound demux stays sound when all that changes is one feed and its      *)
(* filters, and this feed is in order afterwards.                           *)
LEMMA SoundRewrite ==
  ASSUME NEW d, Sound(d), NEW f \in Feeds, NEW e \in Demux,
         OnlyFeed(d, e, f), OnlyFilters(d, e, f),
         f \in e.hw <=> e.feed[f].filtering,
         e.feed[f].filtering =>
           e.feed[f].state = "GO" /\ f \in e.list /\ e.feed[f].chain # {},
         e.feed[f].state # "FREE" =>
           e.feed[f].chain = {i \in Filters : /\ e.filter[i].state # "FREE"
                                              /\ e.filter[i].feed = f},
         e.feed[f].state = "FREE" =>
           \A i \in Filters : e.filter[i].state # "FREE" => e.filter[i].feed # f
  PROVE  Sound(e)
<1> USE DEF Sound
<1>1. DriverRunsFiltering(e)
  BY DEF DriverRunsFiltering, OnlyFeed
<1>2. ASSUME NEW g \in Feeds, e.feed[g].state # "FREE"
      PROVE  e.feed[g].chain = {i \in Filters : e.filter[i].state # "FREE" /\ e.filter[i].feed = g}
  <2>1. CASE g = f
    BY <1>2, <2>1
  <2>2. CASE g # f
    <3>1. \A i \in Filters : (e.filter[i].state # "FREE" /\ e.filter[i].feed = g)
                               <=> (d.filter[i].state # "FREE" /\ d.filter[i].feed = g)
      BY <2>2 DEF OnlyFilters
    <3>2. e.feed[g] = d.feed[g]
      BY <2>2 DEF OnlyFeed
    <3> QED BY <1>2, <3>1, <3>2 DEF ChainsMatch
  <2> QED BY <2>1, <2>2
<1>3. ASSUME NEW i \in Filters, e.filter[i].state # "FREE"
      PROVE  /\ e.filter[i].state = "READY"
             /\ e.filter[i].feed \in Feeds /\ e.feed[e.filter[i].feed].state # "FREE"
  <2>1. CASE e.filter[i] = d.filter[i] /\ e.filter[i].feed # f
    BY <1>3, <2>1 DEF ChainsMatch, OnlyFeed
  <2>2. CASE e.filter[i] = d.filter[i] /\ e.filter[i].feed = f
    BY <1>3, <2>2 DEF ChainsMatch
  <2>3. CASE e.filter[i] = [state |-> "READY", feed |-> f]
    BY <1>3, <2>3
  <2> QED BY <1>3, <2>1, <2>2, <2>3 DEF OnlyFilters
<1>4. ChainsMatch(e)
  BY <1>2, <1>3 DEF ChainsMatch
<1> QED BY <1>1, <1>4

-----------------------------------------------------------------------------
(* Calls on a feed in use *)

LEMMA StartFeedEffect ==
  ASSUME NEW d, Sound(d), NEW f \in Feeds, d.feed[f].state # "FREE",
         d.feed[f].chain # {}, f \in d.list, NEW r \in start_feed(d, f)
  PROVE  \/ HwMayFail /\ r.d = d /\ r.ret # "ok"
         \/ /\ r.ret = "ok" /\ Sound(r.d) /\ OnlyFeed(d, r.d, f)
            /\ f \in r.d.list /\ SameFeed(d.feed[f], r.d.feed[f])
            /\ r.d.feed[f].state = "GO" /\ r.d.feed[f].filtering
            /\ r.d.pesfilter = d.pesfilter
<1> DEFINE x == filtering(d.feed[f], TRUE, "GO")
           e == [d EXCEPT !.hw = @ \cup {f}, !.feed[f] = x]
<1>1. d \in Demux /\ d.feed[f] \in Feed
  BY DEF Sound, Demux
<1>2. /\ x \in Feed /\ x.state = "GO" /\ x.filtering /\ SameFeed(d.feed[f], x)
  BY <1>1 DEF filtering, Feed, SlotStates, SameFeed
<1>3. (HwMayFail /\ r.d = d /\ r.ret # "ok") \/ (r.d = e /\ r.ret = "ok")
  BY DEF start_feed, Return, Outcome
<1> HIDE DEF x
<1>4. /\ e \in Demux /\ e.feed[f] = x /\ f \in e.hw /\ f \in e.list
      /\ OnlyFeed(d, e, f) /\ OnlyFilters(d, e, f)
      /\ e.filter = d.filter /\ e.pesfilter = d.pesfilter
  BY <1>1, <1>2 DEF OnlyFeed, OnlyFilters, Demux
<1> HIDE DEF e
<1>5. Sound(e)
  <2>1. x.chain # {} /\ x.chain = {i \in Filters : /\ d.filter[i].state # "FREE"
                                                   /\ d.filter[i].feed = f}
    BY <1>2 DEF SameFeed, Sound, ChainsMatch
  <2> QED BY <1>2, <1>4, <2>1, SoundRewrite
<1> QED BY <1>2, <1>3, <1>4, <1>5

LEMMA StopFeedEffect ==
  ASSUME NEW d, Sound(d), NEW f \in Feeds, d.feed[f].state # "FREE",
         NEW state \in SlotStates, state # "FREE", NEW r \in stop_feed(d, f, state)
  PROVE  /\ r.ret = "ok" /\ Sound(r.d) /\ OnlyFeed(d, r.d, f)
         /\ f \in r.d.list <=> f \in d.list
         /\ SameFeed(d.feed[f], r.d.feed[f])
         /\ r.d.feed[f].state = state /\ ~r.d.feed[f].filtering
         /\ r.d.pesfilter = d.pesfilter
<1> DEFINE x == filtering(d.feed[f], FALSE, state)
           e == [d EXCEPT !.hw = @ \ {f}, !.feed[f] = x]
<1>1. d \in Demux /\ d.feed[f] \in Feed
  BY DEF Sound, Demux
<1>2. x \in Feed /\ x.state = state /\ ~x.filtering /\ SameFeed(d.feed[f], x)
  BY <1>1 DEF filtering, Feed, SameFeed
<1>3. r.d = e /\ r.ret = "ok"
  BY DEF stop_feed, Return, Outcome
<1> HIDE DEF x
<1>4. /\ e \in Demux /\ e.feed[f] = x /\ f \notin e.hw /\ e.list = d.list
      /\ OnlyFeed(d, e, f) /\ OnlyFilters(d, e, f)
      /\ e.filter = d.filter /\ e.pesfilter = d.pesfilter
  BY <1>1, <1>2 DEF OnlyFeed, OnlyFilters, Demux
<1> HIDE DEF e
<1>5. Sound(e)
  <2>1. x.chain = {i \in Filters : d.filter[i].state # "FREE" /\ d.filter[i].feed = f}
    BY <1>2 DEF SameFeed, Sound, ChainsMatch
  <2> QED BY <1>2, <1>4, <2>1, SoundRewrite
<1> QED BY <1>2, <1>3, <1>4, <1>5

(* The start of a TS feed succeeds, or is refused and changes nothing. *)
LEMMA TsStartEffect ==
  ASSUME NEW d, Sound(d), NEW f \in Feeds, d.feed[f].state # "FREE",
         d.feed[f].chain # {}, f \in d.list, NEW r \in ts_feed_start_filtering(d, f)
  PROVE  \/ /\ r.d = d /\ r.ret # "ok"
            /\ Signals \/ HwMayFail \/ d.feed[f].state # "READY" \/ d.feed[f].type # "TS"
         \/ /\ r.ret = "ok" /\ Sound(r.d) /\ OnlyFeed(d, r.d, f)
            /\ f \in r.d.list /\ SameFeed(d.feed[f], r.d.feed[f])
            /\ r.d.feed[f].state = "GO" /\ r.d.feed[f].filtering
            /\ r.d.pesfilter = d.pesfilter
<1>1. \/ r.d = d /\ r.ret # "ok" /\ (Signals \/ d.feed[f].state # "READY" \/ d.feed[f].type # "TS")
      \/ r \in start_feed(d, f)
  BY DEF ts_feed_start_filtering, Interrupted, Return, Outcome
<1>2. CASE r \in start_feed(d, f)
  BY <1>2, StartFeedEffect
<1> QED BY <1>1, <1>2

LEMMA TsStopEffect ==
  ASSUME NEW d, Sound(d), NEW f \in Feeds, d.feed[f].state # "FREE",
         NEW r \in ts_feed_stop_filtering(d, f)
  PROVE  \/ r.d = d /\ (Signals \/ d.feed[f].state # "GO")
         \/ /\ r.ret = "ok" /\ Sound(r.d) /\ OnlyFeed(d, r.d, f)
            /\ f \in r.d.list <=> f \in d.list
            /\ SameFeed(d.feed[f], r.d.feed[f])
            /\ r.d.feed[f].state = "ALLOCATED" /\ ~r.d.feed[f].filtering
            /\ r.d.pesfilter = d.pesfilter
<1>1. \/ r.d = d /\ (Signals \/ d.feed[f].state # "GO")
      \/ r \in stop_feed(d, f, "ALLOCATED")
  BY DEF ts_feed_stop_filtering, Interrupted, Return, Outcome
<1>2. CASE r \in stop_feed(d, f, "ALLOCATED")
  BY <1>2, StopFeedEffect DEF SlotStates
<1> QED BY <1>1, <1>2

LEMMA SectionStartEffect ==
  ASSUME NEW d, Sound(d), NEW f \in Feeds, d.feed[f].state # "FREE", f \in d.list,
         NEW r \in section_feed_start_filtering(d, f)
  PROVE  \/ /\ r.d = d /\ r.ret # "ok"
            /\ Signals \/ HwMayFail \/ d.feed[f].filtering \/ d.feed[f].chain = {}
         \/ /\ r.ret = "ok" /\ Sound(r.d) /\ OnlyFeed(d, r.d, f)
            /\ f \in r.d.list /\ SameFeed(d.feed[f], r.d.feed[f])
            /\ r.d.feed[f].state = "GO" /\ r.d.feed[f].filtering
            /\ r.d.pesfilter = d.pesfilter
<1>1. \/ r.d = d /\ r.ret # "ok" /\ (Signals \/ d.feed[f].filtering \/ d.feed[f].chain = {})
      \/ d.feed[f].chain # {} /\ r \in start_feed(d, f)
  BY DEF section_feed_start_filtering, Interrupted, Return, Outcome
<1>2. CASE d.feed[f].chain # {} /\ r \in start_feed(d, f)
  BY <1>2, StartFeedEffect
<1> QED BY <1>1, <1>2

LEMMA SectionStopEffect ==
  ASSUME NEW d, Sound(d), NEW f \in Feeds, d.feed[f].state # "FREE",
         NEW r \in section_feed_stop_filtering(d, f)
  PROVE  \/ r.d = d /\ Signals
         \/ /\ r.ret = "ok" /\ Sound(r.d) /\ OnlyFeed(d, r.d, f)
            /\ f \in r.d.list <=> f \in d.list
            /\ SameFeed(d.feed[f], r.d.feed[f])
            /\ r.d.feed[f].state = "READY" /\ ~r.d.feed[f].filtering
            /\ r.d.pesfilter = d.pesfilter
<1>1. (r.d = d /\ Signals) \/ r \in stop_feed(d, f, "READY")
  BY DEF section_feed_stop_filtering, Interrupted, Return, Outcome
<1>2. CASE r \in stop_feed(d, f, "READY")
  BY <1>2, StopFeedEffect DEF SlotStates
<1> QED BY <1>1, <1>2

LEMMA TsSetEffect ==
  ASSUME NEW d, Sound(d), NEW f \in Feeds, d.feed[f].state # "FREE", ~d.feed[f].filtering,
         NEW pid \in Pids \cup {BadPid}, NEW decoder \in BOOLEAN,
         NEW pes \in PesTypes \cup {OtherPes},
         NEW r \in ts_feed_set(d, f, pid, decoder, pes)
  PROVE  \/ r.d = d /\ r.ret # "ok"
         \/ /\ r.ret = "ok" /\ Sound(r.d) /\ OnlyFeed(d, r.d, f)
            /\ f \in r.d.list /\ r.d.feed[f].pid = pid /\ pid \in Pids
            /\ r.d.feed[f].type = d.feed[f].type /\ r.d.feed[f].chain = d.feed[f].chain
            /\ r.d.feed[f].state = "READY" /\ ~r.d.feed[f].filtering
<1> DEFINE x == ts_params(d.feed[f], pid, decoder, pes)
           pf == IF decoder THEN [d.pesfilter EXCEPT ![pes] = f] ELSE d.pesfilter
           pd == IF decoder THEN [d.pids EXCEPT ![pes] = pid] ELSE d.pids
           e == [d EXCEPT !.pesfilter = pf, !.pids = pd, !.list = @ \cup {f}, !.feed[f] = x]
<1>1. d \in Demux /\ d.feed[f] \in Feed
  BY DEF Sound, Demux
<1>2. \/ r.d = d /\ r.ret # "ok"
      \/ pid # BadPid /\ ~(decoder /\ pes = OtherPes) /\ r.d = e /\ r.ret = "ok"
  BY DEF ts_feed_set, Interrupted, Return, Outcome, in_range
<1>3. ASSUME pid \in Pids  PROVE
      /\ Sound(e) /\ OnlyFeed(d, e, f) /\ f \in e.list
      /\ e.feed[f].pid = pid /\ e.feed[f].type = d.feed[f].type
      /\ e.feed[f].chain = d.feed[f].chain
      /\ e.feed[f].state = "READY" /\ ~e.feed[f].filtering
  <2>1. /\ x \in Feed /\ x.state = "READY" /\ ~x.filtering /\ x.pid = pid
        /\ x.type = d.feed[f].type /\ x.chain = d.feed[f].chain
    BY <1>1, <1>3 DEF ts_params, Feed, SlotStates
  <2>2. pf \in [PesTypes -> Feeds \cup {NoFeed}] /\ pd \in [PesTypes -> Pids \cup {NoPid}]
    BY <1>1, <1>3 DEF Demux
  <2> HIDE DEF x, pf, pd
  <2>3. /\ e \in Demux /\ e.feed[f] = x /\ e.hw = d.hw /\ f \in e.list
        /\ OnlyFeed(d, e, f) /\ OnlyFilters(d, e, f) /\ e.filter = d.filter
    BY <1>1, <2>1, <2>2 DEF OnlyFeed, OnlyFilters, Demux
  <2>4. /\ x.chain = {i \in Filters : d.filter[i].state # "FREE" /\ d.filter[i].feed = f}
        /\ f \notin d.hw
    BY <2>1 DEF Sound, ChainsMatch, DriverRunsFiltering
  <2> HIDE DEF e
  <2>5. Sound(e)
    BY <2>1, <2>3, <2>4, SoundRewrite
  <2> QED BY <2>1, <2>3, <2>5
<1> HIDE DEF e
<1> QED BY <1>2, <1>3

LEMMA ReleaseTsEffect ==
  ASSUME NEW d, Sound(d), NEW f \in Feeds, d.feed[f].state # "FREE", ~d.feed[f].filtering,
         NEW r \in release_ts_feed(d, f)
  PROVE  \/ r.d = d /\ Signals
         \/ /\ Sound(r.d) /\ OnlyFeed(d, r.d, f)
            /\ r.d.feed[f].state = "FREE" /\ f \notin r.d.list
<1> DEFINE x == [d.feed[f] EXCEPT !.state = "FREE", !.pid = NoPid]
           ff == [i \in Filters |-> IF i \in own_filter(d, f)
                    THEN [d.filter[i] EXCEPT !.state = "FREE"] ELSE d.filter[i]]
           pf == unreserved(d, f)
           e == [d EXCEPT !.feed[f] = x, !.filter = ff, !.list = @ \ {f}, !.pesfilter = pf]
<1>1. d \in Demux /\ d.feed[f] \in Feed
  BY DEF Sound, Demux
<1>2. (r.d = d /\ Signals) \/ r.d = e
  BY DEF release_ts_feed, Interrupted, Return, Outcome
<1>3. x \in Feed /\ x.state = "FREE" /\ ~x.filtering
  BY <1>1 DEF Feed, SlotStates
<1>4. pf \in [PesTypes -> Feeds \cup {NoFeed}]
  BY <1>1 DEF unreserved, Demux
<1>5. /\ ff \in [Filters -> Filter]
      /\ \A i \in Filters : /\ d.filter[i].feed # f \/ d.filter[i].state = "FREE" => ff[i] = d.filter[i]
                            /\ ff[i].state # "FREE" => ff[i].feed # f /\ ff[i] = d.filter[i]
  <2>1. d.feed[f].chain = {i \in Filters : d.filter[i].state # "FREE" /\ d.filter[i].feed = f}
    BY DEF Sound, ChainsMatch
  <2>2. ASSUME NEW i \in Filters
        PROVE  /\ [d.filter[i] EXCEPT !.state = "FREE"] \in Filter
               /\ [d.filter[i] EXCEPT !.state = "FREE"].state = "FREE"
               /\ d.filter[i] \in Filter
    <3>1. d.filter[i] \in Filter
      BY <1>1 DEF Demux
    <3> QED BY <3>1 DEF Filter
  <2> QED BY <2>1, <2>2 DEF own_filter
<1> HIDE DEF x, ff, pf
<1>6. /\ e \in Demux /\ e.feed[f] = x /\ e.hw = d.hw /\ f \notin e.list
      /\ OnlyFeed(d, e, f) /\ e.filter = ff
  BY <1>1, <1>3, <1>4, <1>5 DEF OnlyFeed, Demux
<1>7. f \notin d.hw
  BY DEF Sound, DriverRunsFiltering
<1> HIDE DEF e
<1>8. OnlyFilters(d, e, f)
  BY <1>5, <1>6 DEF OnlyFilters
<1>9. Sound(e)
  BY <1>3, <1>5, <1>6, <1>7, <1>8, SoundRewrite
<1> QED BY <1>2, <1>3, <1>6, <1>9

LEMMA SectionSetEffect ==
  ASSUME NEW d, Sound(d), NEW f \in Feeds, ~d.feed[f].filtering, d.feed[f].state # "FREE",
         NEW pid \in Pids, NEW check_crc \in BOOLEAN,
         NEW r \in section_feed_set(d, f, pid, check_crc)
  PROVE  \/ r.d = d /\ r.ret # "ok" /\ Signals
         \/ /\ r.ret = "ok" /\ Sound(r.d) /\ OnlyFeed(d, r.d, f)
            /\ f \in r.d.list /\ r.d.feed[f].pid = pid
            /\ r.d.feed[f].type = d.feed[f].type /\ r.d.feed[f].chain = d.feed[f].chain
            /\ r.d.feed[f].state = "READY" /\ ~r.d.feed[f].filtering
<1> DEFINE x == [d.feed[f] EXCEPT !.pid = pid, !.crc = check_crc, !.state = "READY"]
           e == [d EXCEPT !.list = @ \cup {f}, !.feed[f] = x]
<1>1. d \in Demux /\ d.feed[f] \in Feed
  BY DEF Sound, Demux
<1>2. \/ r.d = d /\ r.ret # "ok" /\ Signals
      \/ r.d = e /\ r.ret = "ok"
  BY DemuxAssumption DEF section_feed_set, Interrupted, Return, Outcome, in_range
<1>3. /\ x \in Feed /\ x.state = "READY" /\ ~x.filtering /\ x.pid = pid
      /\ x.type = d.feed[f].type /\ x.chain = d.feed[f].chain
  BY <1>1 DEF Feed, SlotStates
<1> HIDE DEF x
<1>4. /\ e \in Demux /\ e.feed[f] = x /\ e.hw = d.hw /\ f \in e.list
      /\ OnlyFeed(d, e, f) /\ OnlyFilters(d, e, f) /\ e.filter = d.filter
  BY <1>1, <1>3 DEF OnlyFeed, OnlyFilters, Demux
<1>5. /\ x.chain = {i \in Filters : d.filter[i].state # "FREE" /\ d.filter[i].feed = f}
      /\ f \notin d.hw
  BY <1>3 DEF Sound, ChainsMatch, DriverRunsFiltering
<1> HIDE DEF e
<1>6. Sound(e)
  BY <1>3, <1>4, <1>5, SoundRewrite
<1> QED BY <1>2, <1>3, <1>4, <1>6

LEMMA AllocateFilterEffect ==
  ASSUME NEW d, Sound(d), NEW f \in Feeds, d.feed[f].state # "FREE",
         NEW r \in section_feed_allocate_filter(d, f)
  PROVE  \/ r.d = d /\ r.ret # "ok"
         \/ /\ r.ret = "ok" /\ Sound(r.d) /\ OnlyFeed(d, r.d, f)
            /\ r.slot \in Filters /\ d.filter[r.slot].state = "FREE"
            /\ f \in r.d.list <=> f \in d.list
            /\ Relinked(d.feed[f], r.d.feed[f], d.feed[f].chain \cup {r.slot})
<1>1. CASE r \in Interrupted(d) \cup Return(d, "EBUSY")
  BY <1>1 DEF Interrupted, Return, Outcome
<1>2. ASSUME NEW i \in filter_alloc(d),
             r \in Outcome([d EXCEPT
               !.filter[i] = [state |-> "READY", feed |-> f],
               !.feed[f].chain = @ \cup {i}], i, "ok")
      PROVE  /\ r.ret = "ok" /\ Sound(r.d) /\ OnlyFeed(d, r.d, f)
             /\ r.slot \in Filters /\ d.filter[r.slot].state = "FREE"
             /\ f \in r.d.list <=> f \in d.list
             /\ Relinked(d.feed[f], r.d.feed[f], d.feed[f].chain \cup {r.slot})
  <2> DEFINE x == [d.feed[f] EXCEPT !.chain = @ \cup {i}]
             y == [state |-> "READY", feed |-> f]
             e == [d EXCEPT !.filter[i] = y, !.feed[f] = x]
  <2>1. d \in Demux /\ d.feed[f] \in Feed /\ i \in Filters /\ d.filter[i].state = "FREE"
    BY FirstFree DEF Sound, Demux
  <2>2. y \in Filter /\ y.state = "READY" /\ y.feed = f
    BY DEF Filter
  <2>3. /\ x \in Feed /\ x.state = d.feed[f].state /\ x.filtering = d.feed[f].filtering
        /\ x.chain = d.feed[f].chain \cup {i}
        /\ Relinked(d.feed[f], x, d.feed[f].chain \cup {i})
    BY <2>1 DEF Feed, Relinked
  <2>4. r.d = e /\ r.slot = i /\ r.ret = "ok"
    BY <1>2 DEF Outcome
  <2>y. y = [state |-> "READY", feed |-> f]
    OBVIOUS
  <2> HIDE DEF x, y
  <2>5. /\ e \in Demux /\ e.feed[f] = x /\ e.hw = d.hw /\ e.list = d.list
        /\ OnlyFeed(d, e, f) /\ e.filter = [d.filter EXCEPT ![i] = y]
    BY <2>1, <2>2, <2>3 DEF OnlyFeed, Demux
  <2> HIDE DEF e
  <2>6. \A j \in Filters : e.filter[j] = IF j = i THEN y ELSE d.filter[j]
    BY <2>1, <2>5 DEF Demux
  <2>7. OnlyFilters(d, e, f)
    BY <2>1, <2>y, <2>6 DEF OnlyFilters
  <2>8. x.chain = {j \in Filters : e.filter[j].state # "FREE" /\ e.filter[j].feed = f}
    <3>1. d.feed[f].chain = {j \in Filters : d.filter[j].state # "FREE" /\ d.filter[j].feed = f}
      BY DEF Sound, ChainsMatch
    <3> QED BY <2>1, <2>2, <2>3, <2>6, <3>1
  <2>9. /\ f \in d.hw <=> d.feed[f].filtering
        /\ d.feed[f].filtering => d.feed[f].state = "GO" /\ f \in d.list
    BY DEF Sound, DriverRunsFiltering
  <2>10. Sound(e)
    BY <2>3, <2>5, <2>7, <2>8, <2>9, SoundRewrite
  <2> QED BY <2>1, <2>3, <2>4, <2>5, <2>10
<1> QED
  BY <1>1, <1>2 DEF section_feed_allocate_filter

(* A filter of a feed that does not filter is given back. *)
LEMMA ReleaseFilterEffect ==
  ASSUME NEW d, Sound(d), NEW f \in Feeds, d.feed[f].state # "FREE", ~d.feed[f].filtering,
         NEW i \in d.feed[f].chain, NEW r \in section_feed_release_filter(d, f, i)
  PROVE  \/ r.d = d /\ r.ret # "DEADLOCK" /\ Signals
         \/ /\ r.ret = "ok" /\ Sound(r.d) /\ OnlyFeed(d, r.d, f)
            /\ f \in r.d.list <=> f \in d.list
            /\ Relinked(d.feed[f], r.d.feed[f], d.feed[f].chain \ {i})
<1> DEFINE x == [d.feed[f] EXCEPT !.chain = @ \ {i}]
           y == [d.filter[i] EXCEPT !.state = "FREE"]
           e == [d EXCEPT !.filter[i] = y, !.feed[f] = x]
<1>1. d \in Demux /\ d.feed[f] \in Feed /\ i \in Filters /\ d.filter[i] \in Filter
  BY DEF Sound, Demux, Feed
<1>2. /\ d.feed[f].chain = {j \in Filters : d.filter[j].state # "FREE" /\ d.filter[j].feed = f}
      /\ d.filter[i].feed = f
  BY DEF Sound, ChainsMatch
<1>3. \/ r.d = d /\ r.ret # "DEADLOCK" /\ Signals
      \/ r.d = e /\ r.ret = "ok"
  BY <1>2 DEF section_feed_release_filter, Interrupted, Return, Outcome
<1>4. y \in Filter /\ y.state = "FREE" /\ y.feed = f
  BY <1>1, <1>2 DEF Filter
<1>5. /\ x \in Feed /\ x.state = d.feed[f].state /\ ~x.filtering
      /\ x.chain = d.feed[f].chain \ {i}
      /\ Relinked(d.feed[f], x, d.feed[f].chain \ {i})
  BY <1>1 DEF Feed, Relinked
<1> HIDE DEF x, y
<1>6. /\ e \in Demux /\ e.feed[f] = x /\ e.hw = d.hw /\ e.list = d.list
      /\ OnlyFeed(d, e, f) /\ e.filter = [d.filter EXCEPT ![i] = y]
  BY <1>1, <1>4, <1>5 DEF OnlyFeed, Demux
<1> HIDE DEF e
<1>7. \A j \in Filters : e.filter[j] = IF j = i THEN y ELSE d.filter[j]
  BY <1>1, <1>6 DEF Demux
<1>8. OnlyFilters(d, e, f)
  BY <1>2, <1>4, <1>7 DEF OnlyFilters
<1>9. x.chain = {j \in Filters : e.filter[j].state # "FREE" /\ e.filter[j].feed = f}
  BY <1>1, <1>2, <1>4, <1>5, <1>7
<1>10. f \notin d.hw
  BY DEF Sound, DriverRunsFiltering
<1>11. Sound(e)
  BY <1>5, <1>6, <1>8, <1>9, <1>10, SoundRewrite
<1> QED BY <1>3, <1>5, <1>6, <1>11

(* A section feed without filters is given back. *)
LEMMA ReleaseSectionEffect ==
  ASSUME NEW d, Sound(d), NEW f \in Feeds, d.feed[f].state # "FREE", ~d.feed[f].filtering,
         d.feed[f].chain = {}, NEW r \in release_section_feed(d, f)
  PROVE  \/ r.d = d /\ Signals
         \/ /\ Sound(r.d) /\ OnlyFeed(d, r.d, f)
            /\ r.d.feed[f].state = "FREE" /\ f \notin r.d.list
            /\ ~r.d.feed[f].filtering /\ r.d.feed[f].chain = {}
<1> DEFINE x == [d.feed[f] EXCEPT !.state = "FREE", !.pid = NoPid]
           e == [d EXCEPT !.list = @ \ {f}, !.feed[f] = x]
<1>1. d \in Demux /\ d.feed[f] \in Feed
  BY DEF Sound, Demux
<1>2. (r.d = d /\ Signals) \/ r.d = e
  BY DEF release_section_feed, Interrupted, Return, Outcome
<1>3. x \in Feed /\ x.state = "FREE" /\ ~x.filtering /\ x.chain = {}
  BY <1>1 DEF Feed, SlotStates
<1> HIDE DEF x
<1>4. /\ e \in Demux /\ e.feed[f] = x /\ e.hw = d.hw /\ f \notin e.list
      /\ OnlyFeed(d, e, f) /\ OnlyFilters(d, e, f) /\ e.filter = d.filter
  BY <1>1, <1>3 DEF OnlyFeed, OnlyFilters, Demux
<1>5. /\ \A i \in Filters : d.filter[i].state # "FREE" => d.filter[i].feed # f
      /\ f \notin d.hw
  BY DEF Sound, ChainsMatch, DriverRunsFiltering
<1> HIDE DEF e
<1>6. Sound(e)
  BY <1>3, <1>4, <1>5, SoundRewrite
<1> QED BY <1>2, <1>3, <1>4, <1>6

-----------------------------------------------------------------------------
(* Calls that take a feed *)

(* A free slot is not filtering and no filter in use points at it. *)
LEMMA FreeSlot ==
  ASSUME NEW d, Sound(d), NEW f \in Feeds, d.feed[f].state = "FREE"
  PROVE  /\ f \notin d.hw /\ ~d.feed[f].filtering
         /\ \A i \in Filters : d.filter[i].state # "FREE" => d.filter[i].feed # f
  BY DEF Sound, DriverRunsFiltering, ChainsMatch

LEMMA AllocateSectionEffect ==
  ASSUME NEW d, Sound(d), NEW r \in allocate_section_feed(d)
  PROVE  \/ r.d = d /\ r.ret # "ok"
         \/ /\ r.ret = "ok" /\ r.slot \in Feeds /\ d.feed[r.slot].state = "FREE"
            /\ Sound(r.d) /\ OnlyFeed(d, r.d, r.slot)
            /\ r.d.feed[r.slot].state = "ALLOCATED" /\ r.d.feed[r.slot].type = "SEC"
            /\ r.d.feed[r.slot].chain = {} /\ ~r.d.feed[r.slot].filtering
            /\ r.d.pesfilter = d.pesfilter
<1>1. CASE r \in Interrupted(d) \cup Return(d, "EBUSY")
  BY <1>1 DEF Interrupted, Return, Outcome
<1>2. ASSUME NEW f \in feed_alloc(d),
             r \in Outcome([d EXCEPT !.feed[f] = sec_slot(@)], f, "ok")
      PROVE  /\ r.ret = "ok" /\ r.slot \in Feeds /\ d.feed[r.slot].state = "FREE"
             /\ Sound(r.d) /\ OnlyFeed(d, r.d, r.slot)
             /\ r.d.feed[r.slot].state = "ALLOCATED" /\ r.d.feed[r.slot].type = "SEC"
             /\ r.d.feed[r.slot].chain = {} /\ ~r.d.feed[r.slot].filtering
             /\ r.d.pesfilter = d.pesfilter
  <2> DEFINE x == sec_slot(d.feed[f])
             e == [d EXCEPT !.feed[f] = x]
  <2>1. d \in Demux /\ f \in Feeds /\ d.feed[f].state = "FREE" /\ d.feed[f] \in Feed
    BY FirstFree DEF Sound
  <2>2. /\ x \in Feed /\ x.state = "ALLOCATED" /\ x.type = "SEC"
        /\ x.chain = {} /\ ~x.filtering
    BY <2>1 DEF sec_slot, Feed, SlotStates
  <2>3. r.d = e /\ r.slot = f /\ r.ret = "ok"
    BY <1>2 DEF Outcome
  <2> HIDE DEF x
  <2>4. /\ e \in Demux /\ e.feed[f] = x /\ e.hw = d.hw /\ e.pesfilter = d.pesfilter
        /\ OnlyFeed(d, e, f) /\ OnlyFilters(d, e, f) /\ e.filter = d.filter
    BY <2>1, <2>2 DEF OnlyFeed, OnlyFilters, Demux
  <2> HIDE DEF e
  <2>5. Sound(e)
    BY <2>1, <2>2, <2>4, FreeSlot, SoundRewrite
  <2> QED BY <2>1, <2>2, <2>3, <2>4, <2>5
<1> QED
  BY <1>1, <1>2 DEF allocate_section_feed

LEMMA AllocateTsEffect ==
  ASSUME NEW d, Sound(d), NEW r \in allocate_ts_feed(d)
  PROVE  \/ r.ret # "ok" /\ Sound(r.d) /\ NoFeedTaken(d, r.d)
         \/ /\ r.ret = "ok" /\ r.slot \in Feeds /\ d.feed[r.slot].state = "FREE"
            /\ Sound(r.d) /\ OnlyFeed(d, r.d, r.slot)
            /\ r.d.feed[r.slot].state = "ALLOCATED" /\ r.d.feed[r.slot].type = "TS"
            /\ r.d.feed[r.slot].chain # {} /\ ~r.d.feed[r.slot].filtering
<1> DEFINE Refused == r.ret # "ok" /\ Sound(r.d) /\ NoFeedTaken(d, r.d)
           Taken == /\ r.ret = "ok" /\ r.slot \in Feeds /\ d.feed[r.slot].state = "FREE"
                    /\ Sound(r.d) /\ OnlyFeed(d, r.d, r.slot)
                    /\ r.d.feed[r.slot].state = "ALLOCATED" /\ r.d.feed[r.slot].type = "TS"
                    /\ r.d.feed[r.slot].chain # {} /\ ~r.d.feed[r.slot].filtering
<1>1. ASSUME r \in Interrupted(d) \cup Return(d, "EBUSY")  PROVE Refused
  BY <1>1 DEF Interrupted, Return, Outcome, NoFeedTaken
<1>2. ASSUME NEW f \in feed_alloc(d),
             r \in Return([d EXCEPT !.feed[f] = ts_slot(@, "FREE", {})], "EBUSY")
      PROVE  Refused
  <2> DEFINE x == ts_slot(d.feed[f], "FREE", {})
             e == [d EXCEPT !.feed[f] = x]
  <2>1. d \in Demux /\ f \in Feeds /\ d.feed[f].state = "FREE" /\ d.feed[f] \in Feed
    BY FirstFree DEF Sound
  <2>2. x \in Feed /\ x.state = "FREE" /\ ~x.filtering
    BY <2>1 DEF ts_slot, Feed, SlotStates
  <2>3. r.d = e /\ r.ret = "EBUSY"
    BY <1>2 DEF Return, Outcome
  <2> HIDE DEF x
  <2>4. /\ e \in Demux /\ e.feed[f] = x /\ e.hw = d.hw /\ e.list = d.list
        /\ OnlyFeed(d, e, f) /\ OnlyFilters(d, e, f) /\ e.filter = d.filter
    BY <2>1, <2>2 DEF OnlyFeed, OnlyFilters, Demux
  <2> HIDE DEF e
  <2>5. Sound(e)
    BY <2>1, <2>2, <2>4, FreeSlot, SoundRewrite
  <2>6. NoFeedTaken(d, e)
    BY <2>1, <2>2, <2>4 DEF NoFeedTaken, OnlyFeed
  <2> QED BY <2>3, <2>5, <2>6
<1>3. ASSUME NEW f \in feed_alloc(d), NEW i \in filter_alloc(d),
             r \in Outcome([d EXCEPT
                   !.feed[f] = ts_slot(@, "ALLOCATED", {i}),
                   !.filter[i] = [state |-> "READY", feed |-> f]], f, "ok")
      PROVE  Taken
  <2> DEFINE x == ts_slot(d.feed[f], "ALLOCATED", {i})
             y == [state |-> "READY", feed |-> f]
             e == [d EXCEPT !.feed[f] = x, !.filter[i] = y]
  <2>1. /\ d \in Demux /\ f \in Feeds /\ d.feed[f].state = "FREE" /\ d.feed[f] \in Feed
        /\ i \in Filters /\ d.filter[i].state = "FREE"
    BY FirstFree DEF Sound
  <2>2. /\ x \in Feed /\ x.state = "ALLOCATED" /\ x.type = "TS"
        /\ x.chain = {i} /\ ~x.filtering
        /\ y \in Filter /\ y.state = "READY" /\ y.feed = f
        /\ y = [state |-> "READY", feed |-> f]
    BY <2>1 DEF ts_slot, Feed, SlotStates, Filter
  <2>3. r.d = e /\ r.slot = f /\ r.ret = "ok"
    BY <1>3 DEF Outcome
  <2> HIDE DEF x, y
  <2>4. /\ e \in Demux /\ e.feed[f] = x /\ e.hw = d.hw /\ e.list = d.list
        /\ OnlyFeed(d, e, f) /\ e.filter = [d.filter EXCEPT ![i] = y]
    BY <2>1, <2>2 DEF OnlyFeed, Demux
  <2> HIDE DEF e
  <2>5. \A j \in Filters : e.filter[j] = IF j = i THEN y ELSE d.filter[j]
    BY <2>1, <2>4 DEF Demux
  <2>6. OnlyFilters(d, e, f)
    BY <2>1, <2>2, <2>5 DEF OnlyFilters
  <2>7. x.chain = {j \in Filters : e.filter[j].state # "FREE" /\ e.filter[j].feed = f}
    BY <2>1, <2>2, <2>5, FreeSlot
  <2>8. Sound(e)
    BY <2>1, <2>2, <2>4, <2>6, <2>7, FreeSlot, SoundRewrite
  <2> QED BY <2>1, <2>2, <2>3, <2>4, <2>8
<1>4. CASE feed_alloc(d) # {} /\ filter_alloc(d) = {}
  BY <1>1, <1>2, <1>4 DEF allocate_ts_feed
<1>5. CASE feed_alloc(d) # {} /\ filter_alloc(d) # {}
  <2> DEFINE out(f, i) == Outcome([d EXCEPT
                   !.feed[f] = ts_slot(@, "ALLOCATED", {i}),
                   !.filter[i] = [state |-> "READY", feed |-> f]], f, "ok")
  <2>1. r \in Interrupted(d) \cup
              UNION {UNION {out(f, i) : i \in filter_alloc(d)} : f \in feed_alloc(d)}
    BY <1>5 DEF allocate_ts_feed
  <2>2. ASSUME NEW f \in feed_alloc(d), NEW i \in filter_alloc(d), r \in out(f, i)
        PROVE  Taken
    BY <2>2, <1>3
  <2> HIDE DEF out, Taken, Refused
  <2>3. Taken \/ Refused
    BY <1>1, <2>1, <2>2
  <2> QED BY <2>3 DEF Taken, Refused
<1> QED
  BY <1>1, <1>4, <1>5 DEF allocate_ts_feed

-----------------------------------------------------------------------------
(* A scan for the first slot finds one unless there is none. *)
LEMMA FirstExists ==
  ASSUME NEW S, S \subseteq Nat, S # {}
  PROVE  \E i \in S : First(S) = {i}
<1> DEFINE Less == OpToRel(<, Nat)
<1>1. ASSUME NEW i \in Nat, NEW j \in Nat, <<j, i>> \notin Less
      PROVE  i <= j
  <2>1. Less = {ss \in Nat \X Nat : ss[1] < ss[2]}
    BY Zenon DEF OpToRel
  <2>2. <<j, i>> \in Nat \X Nat /\ <<j, i>>[1] = j /\ <<j, i>>[2] = i
    OBVIOUS
  <2>3. ~(j < i)
    BY <1>1, <2>1, <2>2, Zenon
  <2> QED BY <2>3
<1>2. \E i \in S : \A j \in S : <<j, i>> \notin Less
  <2>1. IsWellFoundedOn(Less, Nat)
    BY NatLessThanWellFounded, Zenon
  <2> HIDE DEF Less
  <2>3. ASSUME NEW R, IsWellFoundedOn(R, Nat)
        PROVE  \E x \in S : \A y \in S : ~(<<y, x>> \in R)
    BY <2>3, WFMin, Zenon
  <2> QED BY <2>1, <2>3
<1> HIDE DEF Less
<1>3. PICK i \in S : \A j \in S : i <= j
  BY <1>1, <1>2
<1>4. \A k \in S : k \in First(S) <=> k = i
  BY <1>3 DEF First
<1>5. First(S) = {i}
  BY <1>4 DEF First
<1> QED BY <1>5

-----------------------------------------------------------------------------
(* Calls on any feed slot, whatever state it is in: a caller whose earlier  *)
(* call was interrupted or refused may hold a slot that is free, another's, *)
(* or half set up.  What is on feed_list is in use and has a pid.           *)
Registered(d) ==
  d \in Demux /\ \A f \in d.list : d.feed[f].state # "FREE" /\ d.feed[f].pid \in Pids

LEMMA StaysRegistered ==
  ASSUME NEW d, Registered(d), NEW e \in Demux, NEW f \in Feeds,
         \A g \in Feeds \ {f} : e.feed[g] = d.feed[g] /\ (g \in e.list => g \in d.list),
         f \in e.list => e.feed[f].state # "FREE" /\ e.feed[f].pid \in Pids
  PROVE  Registered(e)
<1>1. \A g \in e.list : g \in Feeds
  BY DEF Demux
<1> QED BY <1>1 DEF Registered

LEMMA StartRegistered ==
  ASSUME NEW d, Registered(d), NEW f \in Feeds, NEW r \in start_feed(d, f)
  PROVE  Registered(r.d)
<1> DEFINE x == filtering(d.feed[f], TRUE, "GO")
           e == [d EXCEPT !.hw = @ \cup {f}, !.feed[f] = x]
<1>1. d \in Demux /\ d.feed[f] \in Feed
  BY DEF Registered, Demux
<1>2. x \in Feed /\ x.state = "GO" /\ x.pid = d.feed[f].pid
  BY <1>1 DEF filtering, Feed, SlotStates
<1>3. r.d = d \/ r.d = e
  BY DEF start_feed, Return, Outcome
<1> HIDE DEF x
<1>4. /\ e \in Demux /\ e.list = d.list /\ e.feed[f] = x
      /\ \A g \in Feeds \ {f} : e.feed[g] = d.feed[g]
  BY <1>1, <1>2 DEF Demux
<1> HIDE DEF e
<1>5. Registered(e)
  BY <1>2, <1>4, StaysRegistered DEF Registered
<1> QED BY <1>3, <1>5

LEMMA StopRegistered ==
  ASSUME NEW d, Registered(d), NEW f \in Feeds, NEW state \in SlotStates, state # "FREE",
         NEW r \in stop_feed(d, f, state)
  PROVE  Registered(r.d)
<1> DEFINE x == filtering(d.feed[f], FALSE, state)
           e == [d EXCEPT !.hw = @ \ {f}, !.feed[f] = x]
<1>1. d \in Demux /\ d.feed[f] \in Feed
  BY DEF Registered, Demux
<1>2. x \in Feed /\ x.state = state /\ x.pid = d.feed[f].pid
  BY <1>1 DEF filtering, Feed
<1>3. r.d = e
  BY DEF stop_feed, Return, Outcome
<1> HIDE DEF x
<1>4. /\ e \in Demux /\ e.list = d.list /\ e.feed[f] = x
      /\ \A g \in Feeds \ {f} : e.feed[g] = d.feed[g]
  BY <1>1, <1>2 DEF Demux
<1> HIDE DEF e
<1>5. Registered(e)
  BY <1>2, <1>4, StaysRegistered DEF Registered
<1> QED BY <1>3, <1>5

LEMMA TsStartRegistered ==
  ASSUME NEW d, Registered(d), NEW f \in Feeds, NEW r \in ts_feed_start_filtering(d, f)
  PROVE  Registered(r.d)
  BY StartRegistered DEF ts_feed_start_filtering, Interrupted, Return, Outcome

LEMMA TsStopRegistered ==
  ASSUME NEW d, Registered(d), NEW f \in Feeds, NEW r \in ts_feed_stop_filtering(d, f)
  PROVE  Registered(r.d)
<1>1. "ALLOCATED" \in SlotStates
  BY DEF SlotStates
<1> QED BY <1>1, StopRegistered DEF ts_feed_stop_filtering, Interrupted, Return, Outcome

LEMMA SectionStartRegistered ==
  ASSUME NEW d, Registered(d), NEW f \in Feeds, NEW r \in section_feed_start_filtering(d, f)
  PROVE  Registered(r.d)
  BY StartRegistered DEF section_feed_start_filtering, Interrupted, Return, Outcome

LEMMA SectionStopRegistered ==
  ASSUME NEW d, Registered(d), NEW f \in Feeds, NEW r \in section_feed_stop_filtering(d, f)
  PROVE  Registered(r.d)
<1>1. "READY" \in SlotStates
  BY DEF SlotStates
<1> QED BY <1>1, StopRegistered DEF section_feed_stop_filtering, Interrupted, Return, Outcome

LEMMA TsSetRegistered ==
  ASSUME NEW d, Registered(d), NEW f \in Feeds, NEW pid \in Pids \cup {BadPid},
         NEW decoder \in BOOLEAN, NEW pes \in PesTypes \cup {OtherPes},
         NEW r \in ts_feed_set(d, f, pid, decoder, pes)
  PROVE  Registered(r.d)
<1> DEFINE x == ts_params(d.feed[f], pid, decoder, pes)
           pf == IF decoder THEN [d.pesfilter EXCEPT ![pes] = f] ELSE d.pesfilter
           pd == IF decoder THEN [d.pids EXCEPT ![pes] = pid] ELSE d.pids
           e == [d EXCEPT !.pesfilter = pf, !.pids = pd, !.list = @ \cup {f}, !.feed[f] = x]
<1>1. d \in Demux /\ d.feed[f] \in Feed
  BY DEF Registered, Demux
<1>2. r.d = d \/ (pid # BadPid /\ r.d = e)
  BY DEF ts_feed_set, Interrupted, Return, Outcome, in_range
<1>3. ASSUME pid # BadPid  PROVE Registered(e)
  <2>1. x \in Feed /\ x.state = "READY" /\ x.pid = pid /\ pid \in Pids
    BY <1>1, <1>3 DEF ts_params, Feed, SlotStates
  <2>2. pf \in [PesTypes -> Feeds \cup {NoFeed}] /\ pd \in [PesTypes -> Pids \cup {NoPid}]
    BY <1>1, <2>1 DEF Demux
  <2> HIDE DEF x, pf, pd
  <2>3. /\ e \in Demux /\ e.list = d.list \cup {f} /\ e.feed[f] = x
        /\ \A g \in Feeds \ {f} : e.feed[g] = d.feed[g]
    BY <1>1, <2>1, <2>2 DEF Demux
  <2> HIDE DEF e
  <2> QED BY <2>1, <2>3, StaysRegistered
<1> HIDE DEF e
<1> QED BY <1>2, <1>3

LEMMA ReleaseTsRegistered ==
  ASSUME NEW d, Registered(d), NEW f \in Feeds, NEW r \in release_ts_feed(d, f)
  PROVE  Registered(r.d)
<1> DEFINE x == [d.feed[f] EXCEPT !.state = "FREE", !.pid = NoPid]
           ff == [i \in Filters |-> IF i \in own_filter(d, f)
                    THEN [d.filter[i] EXCEPT !.state = "FREE"] ELSE d.filter[i]]
           pf == unreserved(d, f)
           e == [d EXCEPT !.feed[f] = x, !.filter = ff, !.list = @ \ {f}, !.pesfilter = pf]
<1>1. /\ d \in Demux /\ d.feed[f] \in Feed /\ \A i \in Filters : d.filter[i] \in Filter
      /\ d.pesfilter \in [PesTypes -> Feeds \cup {NoFeed}]
  BY DEF Registered, Demux
<1>2. r.d = d \/ r.d = e
  BY DEF release_ts_feed, Interrupted, Return, Outcome
<1>3. x \in Feed
  BY <1>1 DEF Feed, SlotStates
<1>4. ff \in [Filters -> Filter]
  <2>1. ASSUME NEW i \in Filters  PROVE [d.filter[i] EXCEPT !.state = "FREE"] \in Filter
    BY <1>1 DEF Filter
  <2> QED BY <1>1, <2>1
<1>5. pf \in [PesTypes -> Feeds \cup {NoFeed}]
  BY <1>1 DEF unreserved
<1> HIDE DEF x, ff, pf
<1>6. /\ e \in Demux /\ e.list = d.list \ {f}
      /\ \A g \in Feeds \ {f} : e.feed[g] = d.feed[g]
  BY <1>1, <1>3, <1>4, <1>5 DEF Demux
<1> HIDE DEF e
<1>7. Registered(e)
  BY <1>6, StaysRegistered
<1> QED BY <1>2, <1>7

LEMMA SectionSetRegistered ==
  ASSUME NEW d, Registered(d), NEW f \in Feeds, NEW pid \in Pids \cup {BadPid},
         NEW check_crc \in BOOLEAN, NEW r \in section_feed_set(d, f, pid, check_crc)
  PROVE  Registered(r.d)
<1> DEFINE x == [d.feed[f] EXCEPT !.pid = pid, !.crc = check_crc, !.state = "READY"]
           e == [d EXCEPT !.list = @ \cup {f}, !.feed[f] = x]
<1>1. d \in Demux /\ d.feed[f] \in Feed
  BY DEF Registered, Demux
<1>2. r.d = d \/ (pid # BadPid /\ r.d = e)
  BY DEF section_feed_set, Interrupted, Return, Outcome, in_range
<1>3. ASSUME pid # BadPid  PROVE Registered(e)
  <2>1. x \in Feed /\ x.state = "READY" /\ x.pid \in Pids
    BY <1>1, <1>3 DEF Feed, SlotStates
  <2> HIDE DEF x
  <2>2. /\ e \in Demux /\ e.feed[f] = x
        /\ \A g \in Feeds \ {f} : e.feed[g] = d.feed[g] /\ (g \in e.list => g \in d.list)
    BY <1>1, <2>1 DEF Demux
  <2> HIDE DEF e
  <2> QED BY <2>1, <2>2, StaysRegistered
<1> HIDE DEF e
<1> QED BY <1>2, <1>3

LEMMA AllocateFilterRegistered ==
  ASSUME NEW d, Registered(d), NEW f \in Feeds, NEW r \in section_feed_allocate_filter(d, f)
  PROVE  Registered(r.d) /\ (r.ret = "ok" => r.slot \in Filters)
<1>1. CASE r \in Interrupted(d) \cup Return(d, "EBUSY")
  BY <1>1 DEF Interrupted, Return, Outcome
<1>2. ASSUME NEW i \in filter_alloc(d),
             r \in Outcome([d EXCEPT
               !.filter[i] = [state |-> "READY", feed |-> f],
               !.feed[f].chain = @ \cup {i}], i, "ok")
      PROVE  Registered(r.d) /\ r.slot \in Filters
  <2> DEFINE x == [d.feed[f] EXCEPT !.chain = @ \cup {i}]
             y == [state |-> "READY", feed |-> f]
             e == [d EXCEPT !.filter[i] = y, !.feed[f] = x]
  <2>1. d \in Demux /\ d.feed[f] \in Feed /\ i \in Filters
    BY FirstFree DEF Registered, Demux
  <2>2. x \in Feed /\ x.state = d.feed[f].state /\ x.pid = d.feed[f].pid /\ y \in Filter
    BY <2>1 DEF Feed, Filter
  <2>3. r.d = e /\ r.slot = i
    BY <1>2, <2>1 DEF Outcome, Demux
  <2> HIDE DEF x, y
  <2>4. /\ e \in Demux /\ e.list = d.list /\ e.feed[f] = x
        /\ \A g \in Feeds \ {f} : e.feed[g] = d.feed[g]
    BY <2>1, <2>2 DEF Demux
  <2> HIDE DEF e
  <2>5. Registered(e)
    BY <2>2, <2>4, StaysRegistered DEF Registered
  <2> QED BY <2>1, <2>3, <2>5
<1> QED BY <1>1, <1>2 DEF section_feed_allocate_filter

LEMMA ReleaseFilterRegistered ==
  ASSUME NEW d, Registered(d), NEW f \in Feeds, NEW i \in Filters,
         NEW r \in section_feed_release_filter(d, f, i)
  PROVE  Registered(r.d)
<1> DEFINE x == [d.feed[f] EXCEPT !.chain = @ \ {i}]
           y == [d.filter[i] EXCEPT !.state = "FREE"]
           e == [d EXCEPT !.filter[i] = y, !.feed[f] = x]
<1>1. d \in Demux /\ d.feed[f] \in Feed /\ d.filter[i] \in Filter
  BY DEF Registered, Demux
<1>2. x \in Feed /\ x.state = d.feed[f].state /\ x.pid = d.feed[f].pid /\ y \in Filter
  BY <1>1 DEF Feed, Filter
<1>3. r.d = d \/ r.d = e
  BY <1>1 DEF section_feed_release_filter, Interrupted, Return, Outcome, Demux
<1> HIDE DEF x, y
<1>4. /\ e \in Demux /\ e.list = d.list /\ e.feed[f] = x
      /\ \A g \in Feeds \ {f} : e.feed[g] = d.feed[g]
  BY <1>1, <1>2 DEF Demux
<1> HIDE DEF e
<1>5. Registered(e)
  BY <1>2, <1>4, StaysRegistered DEF Registered
<1> QED BY <1>3, <1>5

LEMMA ReleaseSectionRegistered ==
  ASSUME NEW d, Registered(d), NEW f \in Feeds, NEW r \in release_section_feed(d, f)
  PROVE  Registered(r.d)
<1> DEFINE x == [d.feed[f] EXCEPT !.state = "FREE", !.pid = NoPid]
           e == [d EXCEPT !.list = @ \ {f}, !.feed[f] = x]
<1>1. d \in Demux /\ d.feed[f] \in Feed
  BY DEF Registered, Demux
<1>2. r.d = d \/ r.d = e
  BY DEF release_section_feed, Interrupted, Return, Outcome
<1>3. x \in Feed
  BY <1>1 DEF Feed, SlotStates
<1> HIDE DEF x
<1>4. /\ e \in Demux /\ e.list = d.list \ {f}
      /\ \A g \in Feeds \ {f} : e.feed[g] = d.feed[g]
  BY <1>1, <1>3 DEF Demux
<1> HIDE DEF e
<1>5. Registered(e)
  BY <1>4, StaysRegistered
<1> QED BY <1>2, <1>5

LEMMA AllocateSectionRegistered ==
  ASSUME NEW d, Registered(d), NEW r \in allocate_section_feed(d)
  PROVE  Registered(r.d) /\ (r.ret = "ok" => r.slot \in Feeds)
<1>1. CASE r \in Interrupted(d) \cup Return(d, "EBUSY")
  BY <1>1 DEF Interrupted, Return, Outcome
<1>2. ASSUME NEW f \in feed_alloc(d),
             r \in Outcome([d EXCEPT !.feed[f] = sec_slot(@)], f, "ok")
      PROVE  Registered(r.d) /\ r.slot \in Feeds
  <2> DEFINE x == sec_slot(d.feed[f])
             e == [d EXCEPT !.feed[f] = x]
  <2>1. d \in Demux /\ f \in Feeds /\ d.feed[f] \in Feed /\ d.feed[f].state = "FREE"
    BY FirstFree DEF Registered
  <2>2. x \in Feed
    BY <2>1 DEF sec_slot, Feed, SlotStates
  <2>3. r.d = e /\ r.slot = f
    BY <1>2 DEF Outcome
  <2> HIDE DEF x
  <2>4. /\ e \in Demux /\ e.list = d.list /\ \A g \in Feeds \ {f} : e.feed[g] = d.feed[g]
    BY <2>1, <2>2 DEF Demux
  <2> HIDE DEF e
  <2> QED BY <2>1, <2>3, <2>4, StaysRegistered DEF Registered
<1> QED BY <1>1, <1>2 DEF allocate_section_feed

LEMMA AllocateTsRegistered ==
  ASSUME NEW d, Registered(d), NEW r \in allocate_ts_feed(d)
  PROVE  Registered(r.d) /\ (r.ret = "ok" => r.slot \in Feeds)
<1> DEFINE Good == Registered(r.d) /\ (r.ret = "ok" => r.slot \in Feeds)
<1>1. CASE r \in Interrupted(d) \cup Return(d, "EBUSY")
  BY <1>1 DEF Interrupted, Return, Outcome
<1>2. ASSUME NEW f \in feed_alloc(d),
             r \in Return([d EXCEPT !.feed[f] = ts_slot(@, "FREE", {})], "EBUSY")
      PROVE  Good
  <2> DEFINE x == ts_slot(d.feed[f], "FREE", {})
             e == [d EXCEPT !.feed[f] = x]
  <2>1. d \in Demux /\ f \in Feeds /\ d.feed[f] \in Feed /\ d.feed[f].state = "FREE"
    BY FirstFree DEF Registered
  <2>2. x \in Feed
    BY <2>1 DEF ts_slot, Feed, SlotStates
  <2>3. r.d = e /\ r.ret = "EBUSY"
    BY <1>2 DEF Return, Outcome
  <2> HIDE DEF x
  <2>4. /\ e \in Demux /\ e.list = d.list /\ \A g \in Feeds \ {f} : e.feed[g] = d.feed[g]
    BY <2>1, <2>2 DEF Demux
  <2> HIDE DEF e
  <2> QED BY <2>1, <2>3, <2>4, StaysRegistered DEF Registered
<1>3. ASSUME NEW f \in feed_alloc(d), NEW i \in filter_alloc(d),
             r \in Outcome([d EXCEPT
                   !.feed[f] = ts_slot(@, "ALLOCATED", {i}),
                   !.filter[i] = [state |-> "READY", feed |-> f]], f, "ok")
      PROVE  Good
  <2> DEFINE x == ts_slot(d.feed[f], "ALLOCATED", {i})
             y == [state |-> "READY", feed |-> f]
             e == [d EXCEPT !.feed[f] = x, !.filter[i] = y]
  <2>1. /\ d \in Demux /\ f \in Feeds /\ d.feed[f] \in Feed /\ d.feed[f].state = "FREE"
        /\ i \in Filters
    BY FirstFree DEF Registered
  <2>2. x \in Feed /\ y \in Filter
    BY <2>1 DEF ts_slot, Feed, SlotStates, Filter
  <2>3. r.d = e /\ r.slot = f
    BY <1>3 DEF Outcome
  <2> HIDE DEF x, y
  <2>4. /\ e \in Demux /\ e.list = d.list /\ \A g \in Feeds \ {f} : e.feed[g] = d.feed[g]
    BY <2>1, <2>2 DEF Demux
  <2> HIDE DEF e
  <2> QED BY <2>1, <2>3, <2>4, StaysRegistered DEF Registered
<1>4. CASE feed_alloc(d) # {} /\ filter_alloc(d) = {}
  BY <1>1, <1>2, <1>4 DEF allocate_ts_feed
<1>5. CASE feed_alloc(d) # {} /\ filter_alloc(d) # {}
  <2> DEFINE out(f, i) == Outcome([d EXCEPT
                   !.feed[f] = ts_slot(@, "ALLOCATED", {i}),
                   !.filter[i] = [state |-> "READY", feed |-> f]], f, "ok")
  <2>1. r \in Interrupted(d) \cup
              UNION {UNION {out(f, i) : i \in filter_alloc(d)} : f \in feed_alloc(d)}
    BY <1>5 DEF allocate_ts_feed
  <2>2. ASSUME NEW f \in feed_alloc(d), NEW i \in filter_alloc(d), r \in out(f, i)
        PROVE  Good
    BY <2>2, <1>3
  <2> HIDE DEF out, Good
  <2>3. Good
    BY <1>1, <2>1, <2>2 DEF Good
  <2> QED BY <2>3 DEF Good
<1> QED
  BY <1>1, <1>4, <1>5 DEF allocate_ts_feed
=============================================================================
