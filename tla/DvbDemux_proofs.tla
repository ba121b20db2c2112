-------------------------- MODULE DvbDemux_proofs ---------------------------
(***************************************************************************)
(* Proofs about DvbDemux for every number of slots, pids, stream types and *)
(* clients, with or without signals and start failures.                    *)
(***************************************************************************)
EXTENDS MCDvbDemux

-----------------------------------------------------------------------------
(* What a call on feed f changes: d is the demux before, e after.          *)

(* Every feed but f keeps its decoder type, and is free if it was. *)
OthersKept(d, e, f) ==
  \A g \in Feeds \ {f} :
    /\ e.feed[g].state = "FREE" <=> d.feed[g].state = "FREE"
    /\ e.feed[g].decoder = d.feed[g].decoder /\ e.feed[g].pes = d.feed[g].pes

TypeKept(d, e, f) == /\ e.feed[f].decoder = d.feed[f].decoder
                     /\ e.feed[f].pes = d.feed[f].pes

(* Neither the decoder types nor the reservations nor which slots are free  *)
(* changed, with f in use.                                                  *)
Kept(d, e, f) == /\ e \in Demux
                 /\ e.pesfilter = d.pesfilter
                 /\ OthersKept(d, e, f) /\ TypeKept(d, e, f)
                 /\ e.feed[f].state # "FREE"

(* A free feed was handed out, or nothing of interest changed. *)
Allocated(d, r) ==
  /\ r.d \in Demux
  /\ \/ /\ r.ret = "ok" /\ r.slot \in Feeds
        /\ d.feed[r.slot].state = "FREE"
        /\ Kept(d, r.d, r.slot)
     \/ /\ r.ret # "ok" /\ r.d.pesfilter = d.pesfilter
        /\ \A g \in Feeds : /\ TypeKept(d, r.d, g)
                            /\ r.d.feed[g].state = "FREE" <=> d.feed[g].state = "FREE"

-----------------------------------------------------------------------------
(* The parts the calls are made of. *)

LEMMA TsSlot ==
  ASSUME NEW x \in Feed, NEW state \in SlotStates, NEW chain \in SUBSET Filters
  PROVE  LET y == ts_slot(x, state, chain) IN
         /\ y \in Feed /\ y.state = state
         /\ y.decoder = x.decoder /\ y.pes = x.pes
  BY DEF ts_slot, Feed

LEMMA FilteringFeed ==
  ASSUME NEW x \in Feed, NEW on \in BOOLEAN, NEW state \in SlotStates
  PROVE  LET y == filtering(x, on, state) IN
         /\ y \in Feed /\ y.state = state
         /\ y.decoder = x.decoder /\ y.pes = x.pes
  BY DEF filtering, Feed

LEMMA FeedAlloc ==
  ASSUME NEW d \in Demux, NEW f \in feed_alloc(d)
  PROVE  f \in Feeds /\ d.feed[f].state = "FREE" /\ d.feed[f] \in Feed
  BY DEF feed_alloc, First, Demux

LEMMA FilterAlloc ==
  ASSUME NEW d \in Demux, NEW i \in filter_alloc(d)
  PROVE  i \in Filters
  BY DEF filter_alloc, First

LEMMA InterruptedCall ==
  ASSUME NEW d, NEW r \in Interrupted(d)
  PROVE  r.d = d /\ r.ret = "ERESTARTSYS"
  BY DEF Interrupted, Return, Outcome

LEMMA StartFeed ==
  ASSUME NEW d \in Demux, NEW f \in Feeds, d.feed[f].state # "FREE",
         NEW r \in start_feed(d, f)
  PROVE  Kept(d, r.d, f)
<1> DEFINE x == filtering(d.feed[f], TRUE, "GO")
           e == [d EXCEPT !.hw = @ \cup {f}, !.feed[f] = x]
<1>1. x \in Feed /\ x.state = "GO"
      /\ x.decoder = d.feed[f].decoder /\ x.pes = d.feed[f].pes
  BY FilteringFeed DEF Demux, SlotStates
<1>2. r.d = d \/ r.d = e
  BY DEF start_feed, Return, Outcome
<1> HIDE DEF x
<1>3. Kept(d, e, f)
  BY <1>1 DEF Kept, OthersKept, TypeKept, Demux
<1>4. Kept(d, d, f)
  BY DEF Kept, OthersKept, TypeKept
<1> HIDE DEF e
<1> QED BY <1>2, <1>3, <1>4

LEMMA StopFeed ==
  ASSUME NEW d \in Demux, NEW f \in Feeds, NEW state \in SlotStates,
         state # "FREE", NEW r \in stop_feed(d, f, state)
  PROVE  Kept(d, r.d, f)
<1> DEFINE x == filtering(d.feed[f], FALSE, state)
           e == [d EXCEPT !.hw = @ \ {f}, !.feed[f] = x]
<1>0. d.feed[f] \in Feed
  BY DEF Demux
<1>1. x \in Feed /\ x.state # "FREE"
      /\ x.decoder = d.feed[f].decoder /\ x.pes = d.feed[f].pes
  BY <1>0 DEF filtering, Feed
<1>2. r.d = e
  BY DEF stop_feed, Return, Outcome
<1> HIDE DEF x
<1>3. Kept(d, e, f)
  BY <1>1 DEF Kept, OthersKept, TypeKept, Demux
<1> HIDE DEF e
<1> QED BY <1>2, <1>3

-----------------------------------------------------------------------------
(* The calls. *)

LEMMA AllocateTs ==
  ASSUME NEW d \in Demux, NEW r \in allocate_ts_feed(d)
  PROVE  Allocated(d, r)
<1>1. CASE r \in Interrupted(d)
  BY <1>1, InterruptedCall DEF Allocated, TypeKept
<1>2. CASE r \in Return(d, "EBUSY")
  BY <1>2 DEF Return, Outcome, Allocated, TypeKept
<1>3. ASSUME NEW f \in feed_alloc(d),
             r \in Return([d EXCEPT !.feed[f] = ts_slot(@, "FREE", {})], "EBUSY")
      PROVE  Allocated(d, r)
  <2> DEFINE x == ts_slot(d.feed[f], "FREE", {})
             e == [d EXCEPT !.feed[f] = x]
  <2>1. /\ f \in Feeds /\ d.feed[f].state = "FREE"
        /\ x \in Feed /\ x.state = "FREE"
        /\ x.decoder = d.feed[f].decoder /\ x.pes = d.feed[f].pes
    BY FeedAlloc, TsSlot DEF SlotStates
  <2>2. r.d = e /\ r.ret = "EBUSY"
    BY <1>3 DEF Return, Outcome
  <2> HIDE DEF x
  <2>3. /\ e \in Demux /\ e.pesfilter = d.pesfilter
        /\ \A g \in Feeds : /\ TypeKept(d, e, g)
                            /\ e.feed[g].state = "FREE" <=> d.feed[g].state = "FREE"
    BY <2>1 DEF TypeKept, Demux
  <2> HIDE DEF e
  <2> QED BY <2>2, <2>3 DEF Allocated
<1>4. ASSUME NEW f \in feed_alloc(d), NEW i \in filter_alloc(d),
             r \in Outcome([d EXCEPT
                   !.feed[f] = ts_slot(@, "ALLOCATED", {i}),
                   !.filter[i] = [state |-> "READY", feed |-> f]], f, "ok")
      PROVE  Allocated(d, r)
  <2> DEFINE x == ts_slot(d.feed[f], "ALLOCATED", {i})
             y == [state |-> "READY", feed |-> f]
             e == [d EXCEPT !.feed[f] = x, !.filter[i] = y]
  <2>1. /\ f \in Feeds /\ i \in Filters /\ d.feed[f].state = "FREE"
        /\ x \in Feed /\ x.state = "ALLOCATED" /\ y \in Filter
        /\ x.decoder = d.feed[f].decoder /\ x.pes = d.feed[f].pes
    BY FeedAlloc, FilterAlloc, TsSlot DEF SlotStates, Filter
  <2>2. r.d = e /\ r.slot = f /\ r.ret = "ok"
    BY <1>4 DEF Outcome
  <2> HIDE DEF x, y
  <2>3. Kept(d, e, f)
    BY <2>1 DEF Kept, OthersKept, TypeKept, Demux
  <2>4. e \in Demux
    BY <2>3 DEF Kept
  <2> HIDE DEF e
  <2> QED BY <2>1, <2>2, <2>3, <2>4 DEF Allocated
<1>5. CASE feed_alloc(d) # {} /\ filter_alloc(d) = {}
  BY <1>1, <1>3, <1>5 DEF allocate_ts_feed
<1>6. CASE feed_alloc(d) # {} /\ filter_alloc(d) # {}
  <2> DEFINE out(f, i) == Outcome([d EXCEPT
                   !.feed[f] = ts_slot(@, "ALLOCATED", {i}),
                   !.filter[i] = [state |-> "READY", feed |-> f]], f, "ok")
  <2>1. r \in Interrupted(d) \cup
              UNION {UNION {out(f, i) : i \in filter_alloc(d)} : f \in feed_alloc(d)}
    BY <1>6 DEF allocate_ts_feed
  <2>2. ASSUME NEW f \in feed_alloc(d), NEW i \in filter_alloc(d), r \in out(f, i)
        PROVE  Allocated(d, r)
    BY <2>2, <1>4
  <2> HIDE DEF out
  <2> QED BY <1>1, <2>1, <2>2
<1> QED
  BY <1>1, <1>2, <1>5, <1>6 DEF allocate_ts_feed

(* The section feed allocator does the same. *)
LEMMA AllocateSection ==
  ASSUME NEW d \in Demux, NEW r \in allocate_section_feed(d)
  PROVE  Allocated(d, r)
<1>1. CASE r \in Interrupted(d)
  BY <1>1, InterruptedCall DEF Allocated, TypeKept
<1>2. CASE r \in Return(d, "EBUSY")
  BY <1>2 DEF Return, Outcome, Allocated, TypeKept
<1>3. ASSUME NEW f \in feed_alloc(d),
             r \in Outcome([d EXCEPT !.feed[f] = sec_slot(@)], f, "ok")
      PROVE  Allocated(d, r)
  <2> DEFINE x == sec_slot(d.feed[f])
             e == [d EXCEPT !.feed[f] = x]
  <2>1. f \in Feeds /\ d.feed[f].state = "FREE" /\ d.feed[f] \in Feed
    BY FeedAlloc
  <2>2. /\ x \in Feed /\ x.state = "ALLOCATED"
        /\ x.decoder = d.feed[f].decoder /\ x.pes = d.feed[f].pes
    BY <2>1 DEF sec_slot, Feed, SlotStates
  <2>3. r.d = e /\ r.slot = f /\ r.ret = "ok"
    BY <1>3 DEF Outcome
  <2> HIDE DEF x
  <2>4. Kept(d, e, f)
    BY <2>1, <2>2 DEF Kept, OthersKept, TypeKept, Demux
  <2>5. e \in Demux
    BY <2>4 DEF Kept
  <2> HIDE DEF e
  <2> QED BY <2>1, <2>3, <2>4, <2>5 DEF Allocated
<1> QED
  BY <1>1, <1>2, <1>3 DEF allocate_section_feed

(* Reserved(d, e, f): f was configured, and holds the reservation of its    *)
(* new stream type if it writes to a decoder.                               *)
Reserved(d, e, f) ==
  /\ e \in Demux /\ OthersKept(d, e, f) /\ e.feed[f].state # "FREE"
  /\ \/ e.pesfilter = d.pesfilter
     \/ /\ e.feed[f].decoder /\ e.feed[f].pes \in PesTypes
        /\ e.pesfilter = [d.pesfilter EXCEPT ![e.feed[f].pes] = f]

LEMMA TsSet ==
  ASSUME NEW d \in Demux, NEW f \in Feeds, NEW pid \in AskPids,
         NEW pes \in PesTypes \cup {OtherPes},
         NEW r \in ts_feed_set(d, f, pid, pes # OtherPes, pes)
  PROVE  r.d = d \/ (r.ret = "ok" /\ Reserved(d, r.d, f))
<1> DEFINE x == ts_params(d.feed[f], pid, pes # OtherPes, pes)
           pf == IF pes # OtherPes THEN [d.pesfilter EXCEPT ![pes] = f] ELSE d.pesfilter
           pd == IF pes # OtherPes THEN [d.pids EXCEPT ![pes] = pid] ELSE d.pids
           e == [d EXCEPT !.pesfilter = pf, !.pids = pd, !.list = @ \cup {f}, !.feed[f] = x]
<1>1. r.d = d \/ (pid # BadPid /\ r.d = e /\ r.ret = "ok")
  BY DEF ts_feed_set, Interrupted, Return, Outcome, in_range
<1>2. ASSUME pid # BadPid  PROVE Reserved(d, e, f)
  <2>1. d.feed[f] \in Feed /\ pid \in Pids
    BY <1>2, ClientAssumption DEF Demux
  <2>2. x \in Feed /\ x.state = "READY" /\ x.pes = pes
        /\ (pes # OtherPes => x.decoder)
    BY <2>1 DEF ts_params, Feed, SlotStates
  <2>3. pf \in [PesTypes -> Feeds \cup {NoFeed}] /\ pd \in [PesTypes -> Pids \cup {NoPid}]
    BY <2>1 DEF Demux
  <2>4. pf = d.pesfilter \/ (pes # OtherPes /\ pf = [d.pesfilter EXCEPT ![pes] = f])
    OBVIOUS
  <2> HIDE DEF x, pf, pd
  <2>5. /\ e \in Demux /\ e.pesfilter = pf /\ e.feed[f] = x
        /\ \A g \in Feeds \ {f} : e.feed[g] = d.feed[g]
    BY <2>2, <2>3 DEF Demux
  <2> HIDE DEF e
  <2>6. e \in Demux /\ OthersKept(d, e, f) /\ e.feed[f].state # "FREE"
    BY <2>2, <2>5 DEF OthersKept
  <2>7. CASE pf = d.pesfilter
    BY <2>5, <2>6, <2>7 DEF Reserved
  <2>8. CASE pes # OtherPes /\ pf = [d.pesfilter EXCEPT ![pes] = f]
    <3>1. e.feed[f].decoder /\ e.feed[f].pes = pes /\ pes \in PesTypes
      BY <2>2, <2>5, <2>8
    <3>2. e.pesfilter = [d.pesfilter EXCEPT ![e.feed[f].pes] = f]
      BY <2>5, <2>8, <3>1
    <3> QED BY <2>6, <3>1, <3>2 DEF Reserved
  <2> QED BY <2>4, <2>7, <2>8
<1> HIDE DEF e
<1>3. CASE r.d = d
  BY <1>3
<1>4. CASE pid # BadPid /\ r.d = e /\ r.ret = "ok"
  BY <1>2, <1>4
<1> QED BY <1>1, <1>3, <1>4

LEMMA TsStart ==
  ASSUME NEW d \in Demux, NEW f \in Feeds, d.feed[f].state # "FREE",
         NEW r \in ts_feed_start_filtering(d, f)
  PROVE  r.d = d \/ Kept(d, r.d, f)
  BY StartFeed DEF ts_feed_start_filtering, Interrupted, Return, Outcome

LEMMA TsStop ==
  ASSUME NEW d \in Demux, NEW f \in Feeds, d.feed[f].state # "FREE",
         NEW r \in ts_feed_stop_filtering(d, f)
  PROVE  r.d = d \/ Kept(d, r.d, f)
<1>1. "ALLOCATED" \in SlotStates
  BY DEF SlotStates
<1> QED BY <1>1, StopFeed DEF ts_feed_stop_filtering, Interrupted, Return, Outcome

(* A released feed is free and its own reservation is gone. *)
LEMMA ReleaseTs ==
  ASSUME NEW d \in Demux, NEW f \in Feeds, NEW r \in release_ts_feed(d, f)
  PROVE  \/ r.d = d
         \/ /\ r.d \in Demux /\ OthersKept(d, r.d, f) /\ TypeKept(d, r.d, f)
            /\ r.d.pesfilter = unreserved(d, f)
<1> DEFINE x == [d.feed[f] EXCEPT !.state = "FREE", !.pid = NoPid]
           ff == [i \in Filters |-> IF i \in own_filter(d, f)
                    THEN [d.filter[i] EXCEPT !.state = "FREE"] ELSE d.filter[i]]
           pf == unreserved(d, f)
           e == [d EXCEPT !.feed[f] = x, !.filter = ff, !.list = @ \ {f}, !.pesfilter = pf]
<1>1. r.d = d \/ r.d = e
  BY DEF release_ts_feed, Interrupted, Return, Outcome
<1>2. d.feed[f] \in Feed
  BY DEF Demux
<1>3. x \in Feed /\ x.decoder = d.feed[f].decoder /\ x.pes = d.feed[f].pes
  BY <1>2 DEF Feed, SlotStates
<1>4. ff \in [Filters -> Filter]
  <2>1. ASSUME NEW i \in Filters  PROVE [d.filter[i] EXCEPT !.state = "FREE"] \in Filter
    <3>1. d.filter[i] \in Filter
      BY DEF Demux
    <3> QED BY <3>1 DEF Filter
  <2>2. \A i \in Filters : d.filter[i] \in Filter
    BY DEF Demux
  <2> QED BY <2>1, <2>2
<1>5. pf \in [PesTypes -> Feeds \cup {NoFeed}]
  BY DEF unreserved, Demux
<1>7. pf = unreserved(d, f)
  OBVIOUS
<1> HIDE DEF x, ff, pf
<1>6. /\ e \in Demux /\ e.pesfilter = pf /\ e.feed[f] = x
      /\ \A g \in Feeds \ {f} : e.feed[g] = d.feed[g]
  BY <1>3, <1>4, <1>5 DEF Demux
<1> HIDE DEF e
<1> QED BY <1>1, <1>3, <1>6, <1>7 DEF OthersKept, TypeKept

LEMMA SectionSet ==
  ASSUME NEW d \in Demux, NEW f \in Feeds, NEW pid \in Pids,
         NEW r \in section_feed_set(d, f, pid, TRUE)
  PROVE  r.d = d \/ Kept(d, r.d, f)
<1> DEFINE x == [d.feed[f] EXCEPT !.pid = pid, !.crc = TRUE, !.state = "READY"]
           e == [d EXCEPT !.list = @ \cup {f}, !.feed[f] = x]
<1>1. r.d = d \/ r.d = e
  BY DEF section_feed_set, Interrupted, Return, Outcome
<1>2. d.feed[f] \in Feed
  BY DEF Demux
<1>3. /\ x \in Feed /\ x.state = "READY"
      /\ x.decoder = d.feed[f].decoder /\ x.pes = d.feed[f].pes
  BY <1>2 DEF Feed, SlotStates
<1> HIDE DEF x
<1>4. Kept(d, e, f)
  BY <1>3 DEF Kept, OthersKept, TypeKept, Demux
<1> HIDE DEF e
<1> QED BY <1>1, <1>4

LEMMA SectionAllocateFilter ==
  ASSUME NEW d \in Demux, NEW f \in Feeds, d.feed[f].state # "FREE",
         NEW r \in section_feed_allocate_filter(d, f)
  PROVE  /\ r.d = d \/ Kept(d, r.d, f)
         /\ r.ret = "ok" => r.slot \in Filters
<1>1. CASE r \in Interrupted(d) \cup Return(d, "EBUSY")
  BY <1>1 DEF Interrupted, Return, Outcome
<1>2. ASSUME NEW i \in filter_alloc(d),
             r \in Outcome([d EXCEPT
               !.filter[i] = [state |-> "READY", feed |-> f],
               !.feed[f].chain = @ \cup {i}], i, "ok")
      PROVE  Kept(d, r.d, f) /\ r.slot \in Filters
  <2> DEFINE x == [d.feed[f] EXCEPT !.chain = @ \cup {i}]
             y == [state |-> "READY", feed |-> f]
             e == [d EXCEPT !.filter[i] = y, !.feed[f] = x]
  <2>1. i \in Filters /\ y \in Filter /\ d.feed[f] \in Feed
    BY FilterAlloc DEF Filter, Demux
  <2>2. /\ x \in Feed /\ x.state = d.feed[f].state
        /\ x.decoder = d.feed[f].decoder /\ x.pes = d.feed[f].pes
    BY <2>1 DEF Feed
  <2>3. r.d = e /\ r.slot = i
    BY <1>2 DEF Outcome
  <2> HIDE DEF x, y
  <2>4. Kept(d, e, f)
    BY <2>1, <2>2 DEF Kept, OthersKept, TypeKept, Demux
  <2> HIDE DEF e
  <2> QED BY <2>1, <2>3, <2>4
<1> QED
  BY <1>1, <1>2 DEF section_feed_allocate_filter

LEMMA SectionStart ==
  ASSUME NEW d \in Demux, NEW f \in Feeds, d.feed[f].state # "FREE",
         NEW r \in section_feed_start_filtering(d, f)
  PROVE  r.d = d \/ Kept(d, r.d, f)
  BY StartFeed DEF section_feed_start_filtering, Interrupted, Return, Outcome

LEMMA SectionStop ==
  ASSUME NEW d \in Demux, NEW f \in Feeds, NEW r \in section_feed_stop_filtering(d, f)
  PROVE  r.d = d \/ Kept(d, r.d, f)
<1>1. "READY" \in SlotStates
  BY DEF SlotStates
<1> QED BY <1>1, StopFeed DEF section_feed_stop_filtering, Interrupted, Return, Outcome

LEMMA SectionReleaseFilter ==
  ASSUME NEW d \in Demux, NEW f \in Feeds, d.feed[f].state # "FREE", NEW i \in Filters,
         NEW r \in section_feed_release_filter(d, f, i)
  PROVE  r.d = d \/ Kept(d, r.d, f)
<1> DEFINE x == [d.feed[f] EXCEPT !.chain = @ \ {i}]
           y == [d.filter[i] EXCEPT !.state = "FREE"]
           e == [d EXCEPT !.filter[i] = y, !.feed[f] = x]
<1>1. r.d = d \/ r.d = e
  BY DEF section_feed_release_filter, Interrupted, Return, Outcome
<1>2. d.feed[f] \in Feed /\ d.filter[i] \in Filter
  BY DEF Demux
<1>3. /\ x \in Feed /\ x.state = d.feed[f].state
      /\ x.decoder = d.feed[f].decoder /\ x.pes = d.feed[f].pes
  BY <1>2 DEF Feed
<1>4. y \in Filter
  BY <1>2 DEF Filter
<1> HIDE DEF x, y
<1>5. Kept(d, e, f)
  BY <1>3, <1>4 DEF Kept, OthersKept, TypeKept, Demux
<1> HIDE DEF e
<1> QED BY <1>1, <1>5

LEMMA ReleaseSection ==
  ASSUME NEW d \in Demux, NEW f \in Feeds, NEW r \in release_section_feed(d, f)
  PROVE  \/ r.d = d
         \/ /\ r.d \in Demux /\ OthersKept(d, r.d, f) /\ TypeKept(d, r.d, f)
            /\ r.d.pesfilter = d.pesfilter
<1> DEFINE x == [d.feed[f] EXCEPT !.state = "FREE", !.pid = NoPid]
           e == [d EXCEPT !.list = @ \ {f}, !.feed[f] = x]
<1>1. r.d = d \/ r.d = e
  BY DEF release_section_feed, Interrupted, Return, Outcome
<1>2. d.feed[f] \in Feed
  BY DEF Demux
<1>3. x \in Feed /\ x.decoder = d.feed[f].decoder /\ x.pes = d.feed[f].pes
  BY <1>2 DEF Feed, SlotStates
<1> HIDE DEF x
<1>4. /\ e \in Demux /\ e.pesfilter = d.pesfilter /\ e.feed[f] = x
      /\ \A g \in Feeds \ {f} : e.feed[g] = d.feed[g]
  BY <1>3 DEF Demux
<1> HIDE DEF e
<1> QED BY <1>1, <1>3, <1>4 DEF OthersKept, TypeKept

-----------------------------------------------------------------------------
(* What the calls do to the invariant.  A client c inside an ioctl makes    *)
(* one call on the feed it points at, or takes a free feed, or gives its    *)
(* feed back.                                                               *)

LEMMA InvInit == Init => IInv
<1> SUFFICES ASSUME Init PROVE IInv
  OBVIOUS
<1>1. PICK left \in [Feeds -> PesTypes \cup {OtherPes}] : dmx = dmx_init(left)
  BY DEF Init
<1>2. dmx \in Demux
  BY <1>1 DEF dmx_init, Demux, Feed, Filter, SlotStates
<1>3. \A p \in PesTypes : dmx.pesfilter[p] = NoFeed
  BY <1>1 DEF dmx_init
<1> QED
  BY <1>2, <1>3 DEF Init, IInv, TypeOK, NoDanglingPesFilter, FeedsNotShared,
     HeldByPhase, ReservedByConfigured, Phases

(* A call that keeps what matters, by a client that keeps its feed. *)
LEMMA KeepStep ==
  ASSUME IInv, NEW c \in Clients, held[c] # NoFeed,
         dmx' = dmx \/ Kept(dmx, dmx', held[c]),
         held' = held, NEW ph \in Phases, ph # "idle", ph # "set",
         pc' = pc \/ pc' = [pc EXCEPT ![c] = ph],
         flts' \in [Clients -> SUBSET Filters],
         mutex' \in PesClients \cup {NoClient}
  PROVE  IInv'
<1> USE DEF IInv, TypeOK
<1>1. held[c] \in Feeds
  OBVIOUS
<1>2. TypeOK'
  BY <1>1 DEF Kept
<1>3. NoDanglingPesFilter'
  BY <1>1 DEF Kept, OthersKept, TypeKept, NoDanglingPesFilter, Demux
<1>4. FeedsNotShared'
  BY <1>1 DEF Kept, OthersKept, FeedsNotShared
<1>5. HeldByPhase' /\ ReservedByConfigured'
  BY <1>1 DEF Kept, HeldByPhase, ReservedByConfigured
<1> QED BY <1>2, <1>3, <1>4, <1>5

(* A client that takes a free feed. *)
LEMMA TakeStep ==
  ASSUME IInv, NEW c \in Clients, pc[c] = "idle",
         NEW f \in Feeds, dmx.feed[f].state = "FREE", Kept(dmx, dmx', f),
         held' = [held EXCEPT ![c] = f], pc' = [pc EXCEPT ![c] = "set"],
         flts' = flts, mutex' \in PesClients \cup {NoClient}
  PROVE  IInv'
<1> USE DEF IInv, TypeOK
<1>1. TypeOK'
  BY DEF Kept, Phases
<1>2. NoDanglingPesFilter'
  BY DEF Kept, OthersKept, TypeKept, NoDanglingPesFilter, Demux
<1>3. \A e \in Clients : held[e] # f
  BY DemuxAssumption DEF FeedsNotShared
<1>4. \A p \in PesTypes : dmx.pesfilter[p] # f
  BY DemuxAssumption DEF NoDanglingPesFilter
<1>5. FeedsNotShared'
  BY <1>3 DEF Kept, OthersKept, FeedsNotShared
<1>6. HeldByPhase'
  BY DemuxAssumption DEF HeldByPhase
<1>7. ReservedByConfigured'
  BY <1>4 DEF Kept, ReservedByConfigured
<1> QED BY <1>1, <1>2, <1>5, <1>6, <1>7

(* A client that asks for a feed and gets none. *)
LEMMA RefusedStep ==
  ASSUME IInv, dmx' \in Demux, dmx'.pesfilter = dmx.pesfilter,
         \A g \in Feeds : TypeKept(dmx, dmx', g),
         \A g \in Feeds : dmx'.feed[g].state = "FREE" <=> dmx.feed[g].state = "FREE",
         held' = held, pc' = pc, flts' = flts, mutex' \in PesClients \cup {NoClient}
  PROVE  IInv'
<1> USE DEF IInv, TypeOK
<1>1. TypeOK'
  OBVIOUS
<1>2. NoDanglingPesFilter'
  BY DEF TypeKept, NoDanglingPesFilter, Demux
<1>3. FeedsNotShared'
  BY DEF FeedsNotShared
<1>4. HeldByPhase' /\ ReservedByConfigured'
  BY DEF HeldByPhase, ReservedByConfigured
<1> QED BY <1>1, <1>2, <1>3, <1>4

(* A client that lets go of its feed: it gave it back, with no reservation  *)
(* left in its name, or forgot about it.                                    *)
LEMMA LetGoStep ==
  ASSUME IInv, NEW c \in Clients, held[c] # NoFeed,
         \/ dmx' = dmx
         \/ Kept(dmx, dmx', held[c])
         \/ /\ dmx' \in Demux /\ OthersKept(dmx, dmx', held[c])
            /\ TypeKept(dmx, dmx', held[c])
            /\ \A p \in PesTypes : /\ dmx'.pesfilter[p] # held[c]
                                   /\ dmx'.pesfilter[p] \in {dmx.pesfilter[p], NoFeed},
         held' = [held EXCEPT ![c] = NoFeed], pc' = [pc EXCEPT ![c] = "idle"],
         flts' \in [Clients -> SUBSET Filters],
         mutex' \in PesClients \cup {NoClient}
  PROVE  IInv'
<1> USE DEF IInv, TypeOK
<1>1. held[c] \in Feeds
  OBVIOUS
<1>2. TypeOK'
  BY DEF Kept, Phases
<1>3. NoDanglingPesFilter'
  BY <1>1, SMTT(40) DEF Kept, OthersKept, TypeKept, NoDanglingPesFilter, Demux
<1>4. FeedsNotShared'
  BY <1>1 DEF Kept, OthersKept, FeedsNotShared
<1>5. HeldByPhase'
  BY DEF HeldByPhase
<1>6. ReservedByConfigured'
  BY <1>1, DemuxAssumption DEF Kept, ReservedByConfigured
<1> QED BY <1>2, <1>3, <1>4, <1>5, <1>6

(* A client that configures its feed. *)
LEMMA ReserveStep ==
  ASSUME IInv, NEW c \in PesClients, pc[c] = "set", held[c] # NoFeed,
         Reserved(dmx, dmx', held[c]),
         held' = held, pc' = [pc EXCEPT ![c] = "start"], flts' = flts,
         mutex' \in PesClients \cup {NoClient}
  PROVE  IInv'
<1> USE DEF IInv, TypeOK, Clients
<1> DEFINE f == held[c]
<1>1. f \in Feeds
  OBVIOUS
<1>2. TypeOK'
  BY DEF Reserved, Phases
<1>3. \A p \in PesTypes : dmx.pesfilter[p] # f
  BY DEF ReservedByConfigured
<1>4. \A e \in Clients \ {c} : held[e] # f
  BY DEF FeedsNotShared
<1>5. \A p \in PesTypes : \/ dmx'.pesfilter[p] = dmx.pesfilter[p]
                         \/ /\ dmx'.pesfilter[p] = f
                            /\ dmx'.feed[f].decoder /\ dmx'.feed[f].pes = p
  BY DEF Reserved, Demux
<1>6. dmx'.feed[f].state # "FREE" /\ OthersKept(dmx, dmx', f)
  BY DEF Reserved
<1> HIDE DEF f
<1>7. NoDanglingPesFilter'
  BY <1>1, <1>3, <1>5, <1>6 DEF NoDanglingPesFilter, OthersKept, Demux
<1>8. FeedsNotShared'
  BY <1>1, <1>6 DEF FeedsNotShared, OthersKept, f
<1>9. HeldByPhase'
  BY DEF HeldByPhase
<1>10. ReservedByConfigured'
  BY <1>3, <1>4, <1>5 DEF ReservedByConfigured, f
<1> QED BY <1>2, <1>7, <1>8, <1>9, <1>10

LEMMA Busy ==
  ASSUME IInv, NEW c \in Clients, pc[c] # "idle"
  PROVE  /\ held[c] # NoFeed /\ held[c] \in Feeds /\ dmx.feed[held[c]].state # "FREE"
         /\ dmx \in Demux
  BY DEF IInv, TypeOK, HeldByPhase, FeedsNotShared

LEMMA Locks ==
  ASSUME IInv, NEW c \in Clients, Lock(c) \/ Unlock(c) \/ mutex' = mutex
  PROVE  mutex' \in PesClients \cup {NoClient}
  BY DEF IInv, TypeOK, Lock, Unlock

(* IInv is inductive: no call of any client breaks it. *)
LEMMA InvNext == IInv /\ [Next]_vars => IInv'
<1> SUFFICES ASSUME IInv, [Next]_vars PROVE IInv'
  OBVIOUS
<1> USE DEF Goto
<1>a. dmx \in Demux /\ flts \in [Clients -> SUBSET Filters]
  BY DEF IInv, TypeOK
<1>b. {"idle", "set", "start", "run", "filter", "drop", "release", "hung"} \subseteq Phases
  BY DEF Phases
<1>1. ASSUME NEW c \in PesClients, PesStep(c) PROVE IInv'
  <2>0. c \in Clients
    BY DEF Clients
  <2>1. CASE PesAllocate(c)
    <3>1. PICK r \in allocate_ts_feed(dmx) :
            /\ dmx' = r.d
            /\ IF r.ret = "ok"
               THEN /\ pc' = [pc EXCEPT ![c] = "set"] /\ Lock(c)
                    /\ held' = [held EXCEPT ![c] = r.slot]
               ELSE Unlock(c) /\ UNCHANGED <<pc, held>>
      BY <2>1 DEF PesAllocate
    <3>2. Allocated(dmx, r)
      BY <1>a, AllocateTs
    <3>3. pc[c] = "idle" /\ flts' = flts
      BY <2>1 DEF PesAllocate
    <3>4. mutex' \in PesClients \cup {NoClient}
      BY <2>0, <3>1, Locks
    <3>5. CASE r.ret = "ok"
      BY <2>0, <3>1, <3>2, <3>3, <3>4, <3>5, TakeStep DEF Allocated
    <3>6. CASE r.ret # "ok"
      BY <3>1, <3>2, <3>3, <3>4, <3>6, RefusedStep DEF Allocated
    <3> QED BY <3>5, <3>6
  <2>2. CASE PesSet(c)
    <3>1. PICK pid \in AskPids, pes \in Wants[c] :
          \E r \in ts_feed_set(dmx, held[c], pid, pes # OtherPes, pes) :
            dmx' = r.d /\ pc' = [pc EXCEPT ![c] = IF r.ret = "ok" THEN "start" ELSE "release"]
      BY <2>2 DEF PesSet
    <3>2. PICK r \in ts_feed_set(dmx, held[c], pid, pes # OtherPes, pes) :
            dmx' = r.d /\ pc' = [pc EXCEPT ![c] = IF r.ret = "ok" THEN "start" ELSE "release"]
      BY <3>1
    <3>3. pes \in PesTypes \cup {OtherPes}
      BY ClientAssumption
    <3>4. /\ pc[c] = "set" /\ held' = held /\ flts' = flts
          /\ mutex' \in PesClients \cup {NoClient}
      BY <2>0, <2>2, Locks DEF PesSet
    <3>5. held[c] # NoFeed /\ held[c] \in Feeds
      BY <2>0, <3>4, Busy
    <3>6. CASE r.d = dmx
      <4>1. PICK ph \in {"start", "release"} : pc' = [pc EXCEPT ![c] = ph]
        BY <3>2
      <4> QED BY <1>a, <1>b, <2>0, <3>2, <3>4, <3>5, <3>6, <4>1, KeepStep
    <3>7. CASE r.ret = "ok" /\ Reserved(dmx, r.d, held[c])
      BY <3>2, <3>4, <3>5, <3>7, ReserveStep
    <3> QED BY <1>a, <3>3, <3>5, <3>6, <3>7, TsSet
  <2>3. CASE PesStart(c)
    <3>1. PICK r \in ts_feed_start_filtering(dmx, held[c]) :
            /\ dmx' = r.d
            /\ IF r.ret = "ok" THEN pc' = [pc EXCEPT ![c] = "run"] /\ UNCHANGED held
               ELSE pc' = [pc EXCEPT ![c] = "idle"] /\ held' = [held EXCEPT ![c] = NoFeed]
      BY <2>3 DEF PesStart
    <3>2. pc[c] = "start" /\ flts' = flts /\ mutex' \in PesClients \cup {NoClient}
      BY <2>0, <2>3, Locks DEF PesStart
    <3>3. held[c] # NoFeed /\ held[c] \in Feeds /\ dmx.feed[held[c]].state # "FREE"
      BY <2>0, <3>2, Busy
    <3>4. dmx' = dmx \/ Kept(dmx, dmx', held[c])
      BY <1>a, <3>1, <3>3, TsStart
    <3>5. CASE r.ret = "ok"
      BY <1>a, <1>b, <2>0, <3>1, <3>2, <3>3, <3>4, <3>5, KeepStep
    <3>6. CASE r.ret # "ok"
      BY <1>a, <2>0, <3>1, <3>2, <3>3, <3>4, <3>6, LetGoStep
    <3> QED BY <3>5, <3>6
  <2>4. CASE PesStop(c)
    <3>1. PICK r \in ts_feed_stop_filtering(dmx, held[c]) : dmx' = r.d
      BY <2>4 DEF PesStop
    <3>2. /\ pc[c] = "run" /\ held' = held /\ flts' = flts
          /\ pc' = [pc EXCEPT ![c] = "release"] /\ mutex' \in PesClients \cup {NoClient}
      BY <2>0, <2>4, Locks DEF PesStop
    <3>3. held[c] # NoFeed /\ held[c] \in Feeds /\ dmx.feed[held[c]].state # "FREE"
      BY <2>0, <3>2, Busy
    <3>4. dmx' = dmx \/ Kept(dmx, dmx', held[c])
      BY <1>a, <3>1, <3>3, TsStop
    <3> QED BY <1>a, <1>b, <2>0, <3>2, <3>3, <3>4, KeepStep
  <2>5. CASE PesRelease(c)
    <3>1. PICK r \in release_ts_feed(dmx, held[c]) : dmx' = r.d
      BY <2>5 DEF PesRelease
    <3>2. /\ pc[c] = "release" /\ held' = [held EXCEPT ![c] = NoFeed] /\ flts' = flts
          /\ pc' = [pc EXCEPT ![c] = "idle"] /\ mutex' \in PesClients \cup {NoClient}
      BY <2>0, <2>5, Locks DEF PesRelease
    <3>3. held[c] # NoFeed /\ held[c] \in Feeds
      BY <2>0, <3>2, Busy
    <3>4. CASE r.d = dmx
      BY <1>a, <2>0, <3>1, <3>2, <3>3, <3>4, LetGoStep
    <3>5. CASE /\ r.d \in Demux /\ OthersKept(dmx, r.d, held[c])
               /\ TypeKept(dmx, r.d, held[c])
               /\ r.d.pesfilter = unreserved(dmx, held[c])
      <4>1. \A p \in PesTypes : /\ unreserved(dmx, held[c])[p] # held[c]
                               /\ unreserved(dmx, held[c])[p] \in {dmx.pesfilter[p], NoFeed}
        BY <3>3 DEF unreserved, IInv, NoDanglingPesFilter, TypeOK, Demux
      <4> QED BY <1>a, <2>0, <3>1, <3>2, <3>3, <3>5, <4>1, LetGoStep
    <3> QED BY <1>a, <3>3, <3>4, <3>5, ReleaseTs
  <2> QED BY <1>1, <2>1, <2>2, <2>3, <2>4, <2>5 DEF PesStep
<1>2. ASSUME NEW c \in NetClients, NetStep(c) PROVE IInv'
  <2>0. c \in Clients /\ c \notin PesClients /\ mutex' = mutex
    BY <1>2, ClientAssumption DEF Clients, NetStep, NetAllocate, NetSet, NetFilter,
       NetStart, NetStop, NetDropFilter, NetRelease
  <2>m. mutex' \in PesClients \cup {NoClient}
    BY <2>0, Locks
  <2>1. CASE NetAllocate(c)
    <3>1. PICK r \in allocate_section_feed(dmx) :
            /\ dmx' = r.d
            /\ IF r.ret = "ok"
               THEN pc' = [pc EXCEPT ![c] = "set"] /\ held' = [held EXCEPT ![c] = r.slot]
               ELSE UNCHANGED <<pc, held>>
      BY <2>1 DEF NetAllocate
    <3>2. Allocated(dmx, r)
      BY <1>a, AllocateSection
    <3>3. pc[c] = "idle" /\ flts' = flts
      BY <2>1 DEF NetAllocate
    <3>4. CASE r.ret = "ok"
      BY <2>0, <2>m, <3>1, <3>2, <3>3, <3>4, TakeStep DEF Allocated
    <3>5. CASE r.ret # "ok"
      BY <2>m, <3>1, <3>2, <3>3, <3>5, RefusedStep DEF Allocated
    <3> QED BY <3>4, <3>5
  <2>2. CASE NetSet(c)
    <3>1. PICK pid \in Pids :
          \E r \in section_feed_set(dmx, held[c], pid, TRUE) :
            dmx' = r.d /\ pc' = [pc EXCEPT ![c] = IF r.ret = "ok" THEN "filter" ELSE "release"]
      BY <2>2 DEF NetSet
    <3>0. PICK r \in section_feed_set(dmx, held[c], pid, TRUE) :
            dmx' = r.d /\ pc' = [pc EXCEPT ![c] = IF r.ret = "ok" THEN "filter" ELSE "release"]
      BY <3>1
    <3>2. pc[c] = "set" /\ held' = held /\ flts' = flts
      BY <2>2 DEF NetSet
    <3>3. held[c] # NoFeed /\ held[c] \in Feeds
      BY <2>0, <3>2, Busy
    <3>4. dmx' = dmx \/ Kept(dmx, dmx', held[c])
      BY <1>a, <3>0, <3>3, SectionSet
    <3>5. PICK ph \in {"filter", "release"} : pc' = [pc EXCEPT ![c] = ph]
      BY <3>0
    <3> QED BY <1>a, <1>b, <2>0, <2>m, <3>2, <3>3, <3>4, <3>5, KeepStep
  <2>3. CASE NetFilter(c)
    <3>1. pc[c] = "filter" /\ held' = held
      BY <2>3 DEF NetFilter
    <3>2. held[c] # NoFeed /\ held[c] \in Feeds /\ dmx.feed[held[c]].state # "FREE"
      BY <2>0, <3>1, Busy
    <3>3. ASSUME NEW r \in section_feed_allocate_filter(dmx, held[c]), dmx' = r.d, pc' = pc,
                 flts' = IF r.ret = "ok" THEN [flts EXCEPT ![c] = @ \cup {r.slot}] ELSE flts
          PROVE  IInv'
      <4>1. /\ dmx' = dmx \/ Kept(dmx, dmx', held[c])
            /\ flts' \in [Clients -> SUBSET Filters]
        BY <1>a, <3>2, <3>3, SectionAllocateFilter
      <4> QED BY <1>b, <2>0, <2>m, <3>1, <3>2, <3>3, <4>1, KeepStep
    <3>4. ASSUME pc' = [pc EXCEPT ![c] = "start"], dmx' = dmx, flts' = flts  PROVE IInv'
      BY <1>a, <1>b, <2>0, <2>m, <3>1, <3>2, <3>4, KeepStep
    <3> QED BY <2>3, <3>3, <3>4 DEF NetFilter
  <2>4. CASE NetStart(c)
    <3>1. PICK r \in section_feed_start_filtering(dmx, held[c]) : dmx' = r.d
      BY <2>4 DEF NetStart
    <3>2. /\ pc[c] = "start" /\ held' = held /\ flts' = flts
          /\ pc' = [pc EXCEPT ![c] = "run"]
      BY <2>4 DEF NetStart
    <3>3. held[c] # NoFeed /\ held[c] \in Feeds /\ dmx.feed[held[c]].state # "FREE"
      BY <2>0, <3>2, Busy
    <3>4. dmx' = dmx \/ Kept(dmx, dmx', held[c])
      BY <1>a, <3>1, <3>3, SectionStart
    <3> QED BY <1>a, <1>b, <2>0, <2>m, <3>2, <3>3, <3>4, KeepStep
  <2>5. CASE NetStop(c)
    <3>1. /\ pc[c] = "run" /\ held' = held /\ flts' = flts
          /\ pc' = [pc EXCEPT ![c] = "drop"]
      BY <2>5 DEF NetStop
    <3>2. held[c] # NoFeed /\ held[c] \in Feeds
      BY <2>0, <3>1, Busy
    <3>3. dmx' = dmx \/ Kept(dmx, dmx', held[c])
      BY <1>a, <2>5, <3>2, SectionStop DEF NetStop
    <3> QED BY <1>a, <1>b, <2>0, <2>m, <3>1, <3>2, <3>3, KeepStep
  <2>6. CASE NetDropFilter(c)
    <3>0. PICK i \in flts[c] :
          \E r \in section_feed_release_filter(dmx, held[c], i) :
            /\ dmx' = r.d /\ flts' = [flts EXCEPT ![c] = @ \ {i}]
            /\ IF r.ret = "DEADLOCK" THEN pc' = [pc EXCEPT ![c] = "hung"] ELSE pc' = pc
      BY <2>6 DEF NetDropFilter
    <3>1. PICK r \in section_feed_release_filter(dmx, held[c], i) :
            /\ dmx' = r.d /\ flts' = [flts EXCEPT ![c] = @ \ {i}]
            /\ IF r.ret = "DEADLOCK" THEN pc' = [pc EXCEPT ![c] = "hung"] ELSE pc' = pc
      BY <3>0
    <3>2. pc[c] = "drop" /\ held' = held
      BY <2>6 DEF NetDropFilter
    <3>3. held[c] # NoFeed /\ held[c] \in Feeds /\ dmx.feed[held[c]].state # "FREE"
      BY <2>0, <3>2, Busy
    <3>4. /\ dmx' = dmx \/ Kept(dmx, dmx', held[c])
          /\ flts' \in [Clients -> SUBSET Filters]
      BY <1>a, <2>0, <3>1, <3>3, SectionReleaseFilter
    <3> QED BY <1>b, <2>0, <2>m, <3>1, <3>2, <3>3, <3>4, KeepStep
  <2>7. CASE NetRelease(c)
    <3>1. PICK r \in release_section_feed(dmx, held[c]) : dmx' = r.d
      BY <2>7 DEF NetRelease
    <3>2. /\ pc[c] # "idle" /\ held' = [held EXCEPT ![c] = NoFeed] /\ flts' = flts
          /\ pc' = [pc EXCEPT ![c] = "idle"]
      BY <2>7 DEF NetRelease
    <3>3. held[c] # NoFeed /\ held[c] \in Feeds
      BY <2>0, <3>2, Busy
    <3>4. CASE r.d = dmx
      BY <1>a, <2>0, <2>m, <3>1, <3>2, <3>3, <3>4, LetGoStep
    <3>5. CASE /\ r.d \in Demux /\ OthersKept(dmx, r.d, held[c])
               /\ TypeKept(dmx, r.d, held[c])
               /\ r.d.pesfilter = dmx.pesfilter
      <4>1. \A p \in PesTypes : dmx.pesfilter[p] # held[c]
        BY <2>0, <3>3 DEF IInv, ReservedByConfigured
      <4> QED BY <1>a, <2>0, <2>m, <3>1, <3>2, <3>3, <3>5, <4>1, LetGoStep
    <3> QED BY <1>a, <3>3, <3>4, <3>5, ReleaseSection
  <2> QED BY <1>2, <2>1, <2>2, <2>3, <2>4, <2>5, <2>6, <2>7 DEF NetStep
<1>3. CASE UNCHANGED vars
  BY <1>3 DEF vars, IInv, TypeOK, NoDanglingPesFilter, FeedsNotShared, HeldByPhase,
     ReservedByConfigured
<1> QED BY <1>1, <1>2, <1>3 DEF Next

-----------------------------------------------------------------------------
(* The inductive invariant holds in every reachable state. *)
THEOREM Invariance == Spec => []IInv
<1> QED BY InvInit, InvNext, PTL DEF Spec

(* Whatever clients do, however often calls are interrupted or refused,     *)
(* the demux holds values its structs can hold (dvb_demux.h).               *)
THEOREM TypeCorrect == Spec => []TypeOK
<1>1. IInv => TypeOK
  BY DEF IInv
<1> QED BY <1>1, Invariance, PTL

(* No decoder reservation outlives its feed or names a feed of another      *)
(* type (demux->pesfilter, dvb_demux.c:584-592 and 763).                    *)
THEOREM ReservationsLive == Spec => []NoDanglingPesFilter
<1>1. IInv => NoDanglingPesFilter
  BY DEF IInv
<1> QED BY <1>1, Invariance, PTL

(* No feed slot is handed to two clients or reused while one points at it   *)
(* (dvb_dmx_feed_alloc against every release path).                         *)
THEOREM FeedsExclusive == Spec => []FeedsNotShared
<1>1. IInv => FeedsNotShared
  BY DEF IInv
<1> QED BY <1>1, Invariance, PTL

-----------------------------------------------------------------------------
(* Without signals: QuietInv is inductive, too.  Clients that do not make   *)
(* the call keep their phase, for their feeds are not touched.              *)

LEMMA OthersPhases ==
  ASSUME QuietInv, NEW c \in Clients, NEW f \in Feeds, OnlyFeed(dmx, dmx', f),
         \A e \in Clients \ {c} : /\ pc'[e] = pc[e] /\ held'[e] = held[e]
                                  /\ flts'[e] = flts[e] /\ held[e] # f
  PROVE  /\ \A e \in PesClients \ {c} : pc'[e] # "hung" /\ PesPhase(e)'
         /\ \A e \in NetClients \ {c} : NetPhase(e)'
<1>1. ASSUME NEW e \in Clients \ {c}, pc[e] # "idle"
      PROVE  /\ dmx'.feed[held'[e]] = dmx.feed[held[e]]
             /\ held'[e] \in dmx'.list <=> held[e] \in dmx.list
  BY <1>1, Busy DEF QuietInv, OnlyFeed
<1>2. PesClients \subseteq Clients /\ NetClients \subseteq Clients
  BY DEF Clients
<1>3. ASSUME NEW e \in PesClients \ {c}  PROVE pc'[e] # "hung" /\ PesPhase(e)'
  BY <1>1, <1>2 DEF QuietInv, PesPhase
<1>4. ASSUME NEW e \in NetClients \ {c}  PROVE NetPhase(e)'
  BY <1>1, <1>2 DEF QuietInv, NetPhase
<1> QED BY <1>3, <1>4

(* A client that goes on with the feed it points at. *)
LEMMA GoesOn ==
  ASSUME QuietInv, IInv', NEW c \in Clients, pc[c] # "idle",
         Sound(dmx'), OnlyFeed(dmx, dmx', held[c]),
         \A e \in Clients \ {c} : /\ pc'[e] = pc[e] /\ held'[e] = held[e]
                                  /\ flts'[e] = flts[e],
         c \in PesClients => pc'[c] # "hung" /\ PesPhase(c)',
         c \in NetClients => NetPhase(c)'
  PROVE  QuietInv'
<1>1. held[c] \in Feeds /\ \A e \in Clients \ {c} : held[e] # held[c]
  BY Busy DEF QuietInv, IInv, FeedsNotShared
<1>2. /\ \A e \in PesClients \ {c} : pc'[e] # "hung" /\ PesPhase(e)'
      /\ \A e \in NetClients \ {c} : NetPhase(e)'
  BY <1>1, OthersPhases
<1> QED BY <1>2 DEF QuietInv

(* A client that takes a feed, or finds none to take. *)
LEMMA Takes ==
  ASSUME QuietInv, IInv', NEW c \in Clients, pc[c] = "idle",
         NEW f \in Feeds, dmx.feed[f].state = "FREE", Sound(dmx'), OnlyFeed(dmx, dmx', f),
         pc' = [pc EXCEPT ![c] = "set"], held' = [held EXCEPT ![c] = f], flts' = flts,
         c \in PesClients => PesPhase(c)', c \in NetClients => NetPhase(c)'
  PROVE  QuietInv'
<1>1. /\ \A e \in Clients : held[e] # f
      /\ pc \in [Clients -> Phases] /\ held \in [Clients -> Feeds \cup {NoFeed}]
  BY DemuxAssumption DEF QuietInv, IInv, FeedsNotShared, TypeOK
<1>2. /\ \A e \in PesClients \ {c} : pc'[e] # "hung" /\ PesPhase(e)'
      /\ \A e \in NetClients \ {c} : NetPhase(e)'
  BY <1>1, OthersPhases
<1>3. pc'[c] = "set"
  BY <1>1
<1> QED BY <1>2, <1>3 DEF QuietInv

LEMMA FindsNone ==
  ASSUME QuietInv, IInv', Sound(dmx'), NoFeedTaken(dmx, dmx'),
         pc' = pc, held' = held, flts' = flts
  PROVE  QuietInv'
<1>1. ASSUME NEW e \in Clients, pc[e] # "idle"
      PROVE  /\ dmx'.feed[held'[e]] = dmx.feed[held[e]]
             /\ held'[e] \in dmx'.list <=> held[e] \in dmx.list
  BY <1>1, Busy DEF QuietInv, NoFeedTaken
<1>2. PesClients \subseteq Clients /\ NetClients \subseteq Clients
  BY DEF Clients
<1>3. \A e \in PesClients : pc'[e] # "hung" /\ PesPhase(e)'
  BY <1>1, <1>2 DEF QuietInv, PesPhase
<1>4. \A e \in NetClients : NetPhase(e)'
  BY <1>1, <1>2 DEF QuietInv, NetPhase
<1> QED BY <1>3, <1>4 DEF QuietInv

LEMMA SameDemux == ASSUME NEW f \in Feeds PROVE OnlyFeed(dmx, dmx, f)
  BY DEF OnlyFeed

LEMMA QuietInit == Init => QuietInv
<1> SUFFICES ASSUME Init PROVE QuietInv
  OBVIOUS
<1>1. IInv
  BY InvInit
<1>2. PICK left \in [Feeds -> PesTypes \cup {OtherPes}] : dmx = dmx_init(left)
  BY DEF Init
<1>3. Sound(dmx)
  BY <1>2, SoundInit
<1>4. \A c \in Clients : pc[c] = "idle" /\ flts[c] = {}
  BY DEF Init
<1> QED
  BY <1>1, <1>3, <1>4 DEF QuietInv, PesPhase, NetPhase, Clients

(* The calls of a PES client *)
LEMMA QuietPes ==
  ASSUME ~Signals, QuietInv, IInv', NEW c \in PesClients, PesStep(c)
  PROVE  QuietInv'
<1> USE DEF Goto
<1>1. /\ c \in Clients /\ c \notin NetClients /\ Sound(dmx) /\ PesPhase(c)
      /\ pc \in [Clients -> Phases] /\ held \in [Clients -> Feeds \cup {NoFeed}]
  BY ClientAssumption DEF Clients, QuietInv, IInv, TypeOK
<1>2. CASE PesAllocate(c)
  <2>1. PICK r \in allocate_ts_feed(dmx) :
          /\ dmx' = r.d
          /\ IF r.ret = "ok"
             THEN pc' = [pc EXCEPT ![c] = "set"] /\ held' = [held EXCEPT ![c] = r.slot]
             ELSE UNCHANGED <<pc, held>>
    BY <1>2 DEF PesAllocate
  <2>2. pc[c] = "idle" /\ flts' = flts
    BY <1>2 DEF PesAllocate
  <2>3. CASE r.ret # "ok" /\ Sound(r.d) /\ NoFeedTaken(dmx, r.d)
    BY <2>1, <2>2, <2>3, FindsNone
  <2>4. CASE /\ r.ret = "ok" /\ r.slot \in Feeds /\ dmx.feed[r.slot].state = "FREE"
             /\ Sound(r.d) /\ OnlyFeed(dmx, r.d, r.slot)
             /\ r.d.feed[r.slot].chain # {} /\ ~r.d.feed[r.slot].filtering
    <3>1. pc'[c] = "set" /\ held'[c] = r.slot
      BY <1>1, <2>1, <2>4
    <3>2. PesPhase(c)'
      BY <2>1, <2>4, <3>1 DEF PesPhase
    <3> QED BY <1>1, <2>1, <2>2, <2>4, <3>2, Takes
  <2> QED BY <1>1, <2>3, <2>4, AllocateTsEffect
<1>3. ASSUME pc[c] # "idle"
      PROVE  /\ held[c] \in Feeds /\ dmx.feed[held[c]].state # "FREE"
             /\ dmx.feed[held[c]].chain # {}
             /\ \A e \in Clients \ {c} : held[e] # held[c]
  BY <1>1, <1>3, Busy DEF QuietInv, PesPhase, IInv, FeedsNotShared
<1>4. CASE PesSet(c)
  <2>1. PICK pid \in AskPids, pes \in Wants[c] :
        \E r \in ts_feed_set(dmx, held[c], pid, pes # OtherPes, pes) :
          dmx' = r.d /\ pc' = [pc EXCEPT ![c] = IF r.ret = "ok" THEN "start" ELSE "release"]
    BY <1>4 DEF PesSet
  <2>2. PICK r \in ts_feed_set(dmx, held[c], pid, pes # OtherPes, pes) :
          dmx' = r.d /\ pc' = [pc EXCEPT ![c] = IF r.ret = "ok" THEN "start" ELSE "release"]
    BY <2>1
  <2>3. pid \in Pids \cup {BadPid} /\ pes \in PesTypes \cup {OtherPes}
    BY ClientAssumption
  <2>4. pc[c] = "set" /\ held' = held /\ flts' = flts
    BY <1>4 DEF PesSet
  <2>5. ~dmx.feed[held[c]].filtering
    BY <1>1, <2>4 DEF PesPhase
  <2>6. CASE r.d = dmx /\ r.ret # "ok"
    <3>1. pc'[c] = "release"
      BY <1>1, <2>2, <2>6
    <3>2. PesPhase(c)'
      BY <1>3, <2>2, <2>4, <2>5, <2>6, <3>1 DEF PesPhase
    <3> QED BY <1>1, <1>3, <2>2, <2>4, <2>6, <3>1, <3>2, SameDemux, GoesOn
  <2>7. CASE /\ r.ret = "ok" /\ Sound(r.d) /\ OnlyFeed(dmx, r.d, held[c])
             /\ held[c] \in r.d.list /\ r.d.feed[held[c]].chain = dmx.feed[held[c]].chain
             /\ ~r.d.feed[held[c]].filtering
    <3>1. pc'[c] = "start"
      BY <1>1, <2>2, <2>7
    <3>2. PesPhase(c)'
      BY <1>3, <2>2, <2>4, <2>7, <3>1 DEF PesPhase
    <3> QED BY <1>1, <2>2, <2>4, <2>7, <3>1, <3>2, GoesOn
  <2>8. PICK b \in BOOLEAN : r \in ts_feed_set(dmx, held[c], pid, b, pes)
    <3>1. CASE pes = OtherPes
      <4>1. r \in ts_feed_set(dmx, held[c], pid, FALSE, pes)
        BY <2>2, <3>1
      <4> QED BY <4>1
    <3>2. CASE pes # OtherPes
      <4>1. r \in ts_feed_set(dmx, held[c], pid, TRUE, pes)
        BY <2>2, <3>2
      <4> QED BY <4>1
    <3> QED BY <3>1, <3>2
  <2>9. \/ r.d = dmx /\ r.ret # "ok"
        \/ /\ r.ret = "ok" /\ Sound(r.d) /\ OnlyFeed(dmx, r.d, held[c])
           /\ held[c] \in r.d.list /\ r.d.feed[held[c]].chain = dmx.feed[held[c]].chain
           /\ ~r.d.feed[held[c]].filtering
    <3>1. held[c] \in Feeds /\ dmx.feed[held[c]].state # "FREE"
      BY <1>3, <2>4
    <3> QED BY <1>1, <2>3, <2>5, <2>8, <3>1, TsSetEffect
  <2> QED BY <2>6, <2>7, <2>9
<1>5. CASE PesStart(c)
  <2>1. PICK r \in ts_feed_start_filtering(dmx, held[c]) :
          /\ dmx' = r.d
          /\ IF r.ret = "ok" THEN pc' = [pc EXCEPT ![c] = "run"] /\ UNCHANGED held
             ELSE pc' = [pc EXCEPT ![c] = "idle"] /\ held' = [held EXCEPT ![c] = NoFeed]
    BY <1>5 DEF PesStart
  <2>2. pc[c] = "start" /\ flts' = flts
    BY <1>5 DEF PesStart
  <2>3. held[c] \in dmx.list
    BY <1>1, <2>2 DEF PesPhase
  <2>4. CASE r.d = dmx /\ r.ret # "ok"
    <3>1. pc'[c] = "idle" /\ \A e \in Clients \ {c} : pc'[e] = pc[e] /\ held'[e] = held[e]
      BY <1>1, <2>1, <2>4
    <3>2. PesPhase(c)'
      BY <3>1 DEF PesPhase
    <3> QED BY <1>1, <1>3, <2>1, <2>2, <2>4, <3>1, <3>2, SameDemux, GoesOn
  <2>5. CASE /\ r.ret = "ok" /\ Sound(r.d) /\ OnlyFeed(dmx, r.d, held[c])
             /\ held[c] \in r.d.list /\ SameFeed(dmx.feed[held[c]], r.d.feed[held[c]])
    <3>1. pc'[c] = "run" /\ held' = held
      BY <1>1, <2>1, <2>5
    <3>2. PesPhase(c)'
      BY <1>3, <2>1, <2>2, <2>5, <3>1 DEF PesPhase, SameFeed
    <3> QED BY <1>1, <2>1, <2>2, <2>5, <3>1, <3>2, GoesOn
  <2> QED BY <1>1, <1>3, <2>2, <2>3, <2>4, <2>5, TsStartEffect
<1>6. CASE PesStop(c)
  <2>1. PICK r \in ts_feed_stop_filtering(dmx, held[c]) : dmx' = r.d
    BY <1>6 DEF PesStop
  <2>2. pc[c] = "run" /\ held' = held /\ flts' = flts /\ pc' = [pc EXCEPT ![c] = "release"]
    BY <1>6 DEF PesStop
  <2>3. pc'[c] = "release"
    BY <1>1, <2>2
  <2>4. CASE r.d = dmx /\ dmx.feed[held[c]].state # "GO"
    <3>1. ~dmx.feed[held[c]].filtering
      BY <1>1, <1>3, <2>2, <2>4 DEF Sound, DriverRunsFiltering
    <3>2. PesPhase(c)'
      BY <1>3, <2>1, <2>2, <2>3, <2>4, <3>1 DEF PesPhase
    <3> QED BY <1>1, <1>3, <2>1, <2>2, <2>3, <2>4, <3>2, SameDemux, GoesOn
  <2>5. CASE /\ Sound(r.d) /\ OnlyFeed(dmx, r.d, held[c])
             /\ SameFeed(dmx.feed[held[c]], r.d.feed[held[c]])
             /\ ~r.d.feed[held[c]].filtering
    <3>1. PesPhase(c)'
      BY <1>3, <2>1, <2>2, <2>3, <2>5 DEF PesPhase, SameFeed
    <3> QED BY <1>1, <2>1, <2>2, <2>3, <2>5, <3>1, GoesOn
  <2> QED BY <1>1, <1>3, <2>2, <2>4, <2>5, TsStopEffect
<1>7. CASE PesRelease(c)
  <2>1. PICK r \in release_ts_feed(dmx, held[c]) : dmx' = r.d
    BY <1>7 DEF PesRelease
  <2>2. /\ pc[c] = "release" /\ held' = [held EXCEPT ![c] = NoFeed] /\ flts' = flts
        /\ pc' = [pc EXCEPT ![c] = "idle"]
    BY <1>7 DEF PesRelease
  <2>3. /\ pc'[c] = "idle" /\ PesPhase(c)'
        /\ \A e \in Clients \ {c} : pc'[e] = pc[e] /\ held'[e] = held[e]
    BY <1>1, <2>2 DEF PesPhase
  <2>4. Sound(r.d) /\ OnlyFeed(dmx, r.d, held[c])
    <3>1. ~dmx.feed[held[c]].filtering
      BY <1>1, <2>2 DEF PesPhase
    <3> QED BY <1>1, <1>3, <2>2, <3>1, ReleaseTsEffect
  <2> QED BY <1>1, <2>1, <2>2, <2>3, <2>4, GoesOn
<1> QED BY <1>2, <1>4, <1>5, <1>6, <1>7 DEF PesStep

(* The calls of a net client *)
LEMMA QuietNet ==
  ASSUME ~Signals, QuietInv, IInv', NEW c \in NetClients, NetStep(c)
  PROVE  QuietInv'
<1> USE DEF Goto
<1>1. /\ c \in Clients /\ c \notin PesClients /\ Sound(dmx) /\ NetPhase(c)
      /\ pc \in [Clients -> Phases] /\ held \in [Clients -> Feeds \cup {NoFeed}]
      /\ flts \in [Clients -> SUBSET Filters]
  BY ClientAssumption DEF Clients, QuietInv, IInv, TypeOK
<1>2. ASSUME pc[c] # "idle"
      PROVE  /\ held[c] \in Feeds /\ dmx.feed[held[c]].state # "FREE"
             /\ dmx.feed[held[c]].chain = flts[c]
  BY <1>1, <1>2, Busy DEF QuietInv, NetPhase
<1>3. CASE NetAllocate(c)
  <2>1. PICK r \in allocate_section_feed(dmx) :
          /\ dmx' = r.d
          /\ IF r.ret = "ok"
             THEN pc' = [pc EXCEPT ![c] = "set"] /\ held' = [held EXCEPT ![c] = r.slot]
             ELSE UNCHANGED <<pc, held>>
    BY <1>3 DEF NetAllocate
  <2>2. pc[c] = "idle" /\ flts' = flts /\ flts[c] = {}
    BY <1>1, <1>3 DEF NetAllocate, NetPhase
  <2>3. CASE r.d = dmx /\ r.ret # "ok"
    BY <1>1, <2>1, <2>2, <2>3, FindsNone DEF NoFeedTaken
  <2>4. CASE /\ r.ret = "ok" /\ r.slot \in Feeds /\ dmx.feed[r.slot].state = "FREE"
             /\ Sound(r.d) /\ OnlyFeed(dmx, r.d, r.slot)
             /\ r.d.feed[r.slot].chain = {} /\ ~r.d.feed[r.slot].filtering
    <3>1. pc'[c] = "set" /\ held'[c] = r.slot
      BY <1>1, <2>1, <2>4
    <3>2. NetPhase(c)'
      BY <2>1, <2>2, <2>4, <3>1 DEF NetPhase
    <3> QED BY <1>1, <2>1, <2>2, <2>4, <3>2, Takes
  <2> QED BY <1>1, <2>3, <2>4, AllocateSectionEffect
<1>4. CASE NetSet(c)
  <2>1. PICK pid \in Pids : \E r \in section_feed_set(dmx, held[c], pid, TRUE) :
          dmx' = r.d /\ pc' = [pc EXCEPT ![c] = IF r.ret = "ok" THEN "filter" ELSE "release"]
    BY <1>4 DEF NetSet
  <2>2. PICK r \in section_feed_set(dmx, held[c], pid, TRUE) :
          dmx' = r.d /\ pc' = [pc EXCEPT ![c] = IF r.ret = "ok" THEN "filter" ELSE "release"]
    BY <2>1
  <2>3. pc[c] = "set" /\ held' = held /\ flts' = flts
    BY <1>4 DEF NetSet
  <2>4. ~dmx.feed[held[c]].filtering
    BY <1>1, <2>3 DEF NetPhase
  <2>5. /\ r.ret = "ok" /\ Sound(r.d) /\ OnlyFeed(dmx, r.d, held[c])
        /\ held[c] \in r.d.list /\ r.d.feed[held[c]].chain = dmx.feed[held[c]].chain
        /\ ~r.d.feed[held[c]].filtering
    <3>1. PICK b \in BOOLEAN : r \in section_feed_set(dmx, held[c], pid, b)
      BY <2>2
    <3> QED BY <1>1, <1>2, <2>3, <2>4, <3>1, SectionSetEffect
  <2>6. pc'[c] = "filter"
    BY <1>1, <2>2, <2>5
  <2>7. NetPhase(c)'
    BY <1>2, <2>2, <2>3, <2>5, <2>6 DEF NetPhase
  <2> QED BY <1>1, <2>2, <2>3, <2>5, <2>6, <2>7, GoesOn
<1>5. CASE NetFilter(c)
  <2>1. pc[c] = "filter" /\ held' = held
    BY <1>5 DEF NetFilter
  <2>2. held[c] \in dmx.list /\ ~dmx.feed[held[c]].filtering
    BY <1>1, <2>1 DEF NetPhase
  <2>3. ASSUME NEW r \in section_feed_allocate_filter(dmx, held[c]), dmx' = r.d, pc' = pc,
               flts' = IF r.ret = "ok" THEN [flts EXCEPT ![c] = @ \cup {r.slot}] ELSE flts
        PROVE  QuietInv'
    <3>1. CASE r.d = dmx /\ r.ret # "ok"
      <4>1. NetPhase(c)'
        BY <1>1, <2>1, <2>3, <3>1 DEF NetPhase
      <4> QED BY <1>1, <1>2, <2>1, <2>3, <3>1, <4>1, SameDemux, GoesOn
    <3>2. CASE /\ r.ret = "ok" /\ Sound(r.d) /\ OnlyFeed(dmx, r.d, held[c])
               /\ held[c] \in r.d.list <=> held[c] \in dmx.list
               /\ Relinked(dmx.feed[held[c]], r.d.feed[held[c]],
                           dmx.feed[held[c]].chain \cup {r.slot})
      <4>1. flts'[c] = flts[c] \cup {r.slot} /\ \A e \in Clients \ {c} : flts'[e] = flts[e]
        BY <1>1, <2>3, <3>2
      <4>3. /\ r.d.feed[held[c]].chain = flts'[c]
            /\ ~r.d.feed[held[c]].filtering
        BY <1>2, <2>1, <2>2, <3>2, <4>1 DEF Relinked
      <4>4. NetPhase(c)'
        BY <2>1, <2>2, <2>3, <3>2, <4>3 DEF NetPhase
      <4> QED BY <1>1, <2>1, <2>3, <3>2, <4>1, <4>4, GoesOn
    <3> QED BY <1>1, <1>2, <2>1, <2>3, <3>1, <3>2, AllocateFilterEffect, ZenonT(40)
  <2>4. ASSUME pc' = [pc EXCEPT ![c] = "start"], dmx' = dmx, flts' = flts
        PROVE  QuietInv'
    <3>1. pc'[c] = "start"
      BY <1>1, <2>4
    <3>2. NetPhase(c)'
      BY <1>2, <2>1, <2>2, <2>4, <3>1 DEF NetPhase
    <3> QED BY <1>1, <1>2, <2>1, <2>4, <3>1, <3>2, SameDemux, GoesOn
  <2> QED BY <1>5, <2>3, <2>4 DEF NetFilter
<1>6. CASE NetStart(c)
  <2>1. PICK r \in section_feed_start_filtering(dmx, held[c]) : dmx' = r.d
    BY <1>6 DEF NetStart
  <2>2. /\ pc[c] = "start" /\ held' = held /\ flts' = flts
        /\ pc' = [pc EXCEPT ![c] = "run"]
    BY <1>6 DEF NetStart
  <2>3. pc'[c] = "run" /\ held[c] \in dmx.list
    BY <1>1, <2>2 DEF NetPhase
  <2>4. CASE r.d = dmx
    <3>1. NetPhase(c)'
      BY <1>2, <2>1, <2>2, <2>3, <2>4 DEF NetPhase
    <3> QED BY <1>1, <1>2, <2>1, <2>2, <2>3, <2>4, <3>1, SameDemux, GoesOn
  <2>5. CASE /\ Sound(r.d) /\ OnlyFeed(dmx, r.d, held[c])
             /\ held[c] \in r.d.list /\ SameFeed(dmx.feed[held[c]], r.d.feed[held[c]])
    <3>1. NetPhase(c)'
      BY <1>2, <2>1, <2>2, <2>3, <2>5 DEF NetPhase, SameFeed
    <3> QED BY <1>1, <2>1, <2>2, <2>3, <2>5, <3>1, GoesOn
  <2> QED BY <1>1, <1>2, <2>2, <2>3, <2>4, <2>5, SectionStartEffect
<1>7. CASE NetStop(c)
  <2>1. /\ pc[c] = "run" /\ held' = held /\ flts' = flts
        /\ pc' = [pc EXCEPT ![c] = "drop"]
    BY <1>7 DEF NetStop
  <2>2. pc'[c] = "drop"
    BY <1>1, <2>1
  <2>3. CASE dmx.feed[held[c]].filtering
    <3>1. PICK r \in section_feed_stop_filtering(dmx, held[c]) : dmx' = r.d
      BY <1>7, <2>3 DEF NetStop
    <3>2. /\ Sound(r.d) /\ OnlyFeed(dmx, r.d, held[c])
          /\ SameFeed(dmx.feed[held[c]], r.d.feed[held[c]])
          /\ ~r.d.feed[held[c]].filtering
      BY <1>1, <1>2, <2>1, <3>1, SectionStopEffect
    <3>3. NetPhase(c)'
      BY <1>2, <2>1, <2>2, <3>1, <3>2 DEF NetPhase, SameFeed
    <3> QED BY <1>1, <2>1, <2>2, <3>1, <3>2, <3>3, GoesOn
  <2>4. CASE ~dmx.feed[held[c]].filtering
    <3>1. dmx' = dmx
      BY <1>7, <2>4 DEF NetStop
    <3>2. NetPhase(c)'
      BY <1>2, <2>1, <2>2, <2>4, <3>1 DEF NetPhase
    <3> QED BY <1>1, <1>2, <2>1, <2>2, <3>1, <3>2, SameDemux, GoesOn
  <2> QED BY <2>3, <2>4
<1>8. CASE NetDropFilter(c)
  <2>0. PICK i \in flts[c] : \E r \in section_feed_release_filter(dmx, held[c], i) :
          /\ dmx' = r.d /\ flts' = [flts EXCEPT ![c] = @ \ {i}]
          /\ IF r.ret = "DEADLOCK" THEN pc' = [pc EXCEPT ![c] = "hung"] ELSE pc' = pc
    BY <1>8 DEF NetDropFilter
  <2>1. PICK r \in section_feed_release_filter(dmx, held[c], i) :
          /\ dmx' = r.d /\ flts' = [flts EXCEPT ![c] = @ \ {i}]
          /\ IF r.ret = "DEADLOCK" THEN pc' = [pc EXCEPT ![c] = "hung"] ELSE pc' = pc
    BY <2>0
  <2>2. pc[c] = "drop" /\ held' = held
    BY <1>8 DEF NetDropFilter
  <2>3. ~dmx.feed[held[c]].filtering /\ i \in dmx.feed[held[c]].chain
    BY <1>1, <1>2, <2>2 DEF NetPhase
  <2>4. /\ r.ret = "ok" /\ Sound(r.d) /\ OnlyFeed(dmx, r.d, held[c])
        /\ Relinked(dmx.feed[held[c]], r.d.feed[held[c]], dmx.feed[held[c]].chain \ {i})
    BY <1>1, <1>2, <2>1, <2>2, <2>3, ReleaseFilterEffect
  <2>5. /\ flts'[c] = flts[c] \ {i} /\ \A e \in Clients \ {c} : flts'[e] = flts[e]
        /\ pc' = pc
    BY <1>1, <2>1, <2>4
  <2>7. r.d.feed[held[c]].chain = flts'[c] /\ ~r.d.feed[held[c]].filtering
    BY <1>2, <2>2, <2>3, <2>4, <2>5 DEF Relinked
  <2>8. NetPhase(c)'
    BY <2>1, <2>2, <2>5, <2>7 DEF NetPhase
  <2> QED BY <1>1, <2>1, <2>2, <2>4, <2>5, <2>8, GoesOn
<1>9. CASE NetRelease(c)
  <2>1. PICK r \in release_section_feed(dmx, held[c]) : dmx' = r.d
    BY <1>9 DEF NetRelease
  <2>2. /\ pc[c] = "drop" /\ flts[c] = {}
        /\ held' = [held EXCEPT ![c] = NoFeed] /\ flts' = flts
        /\ pc' = [pc EXCEPT ![c] = "idle"]
    BY <1>1, <1>9 DEF NetRelease, NetPhase
  <2>3. ~dmx.feed[held[c]].filtering /\ dmx.feed[held[c]].chain = {}
    BY <1>1, <1>2, <2>2 DEF NetPhase
  <2>4. Sound(r.d) /\ OnlyFeed(dmx, r.d, held[c])
    BY <1>1, <1>2, <2>1, <2>2, <2>3, SameDemux, ReleaseSectionEffect
  <2>5. /\ pc'[c] = "idle" /\ NetPhase(c)'
        /\ \A e \in Clients \ {c} : pc'[e] = pc[e] /\ held'[e] = held[e]
    BY <1>1, <2>2 DEF NetPhase
  <2> QED BY <1>1, <2>1, <2>2, <2>4, <2>5, GoesOn
<1> QED BY <1>3, <1>4, <1>5, <1>6, <1>7, <1>8, <1>9 DEF NetStep

LEMMA QuietNext == ASSUME ~Signals, QuietInv, [Next]_vars PROVE QuietInv'
<1>1. IInv'
  BY InvNext DEF QuietInv
<1>2. CASE UNCHANGED vars
  BY <1>2, <1>1 DEF vars, QuietInv, PesPhase, NetPhase
<1> QED BY <1>1, <1>2, QuietPes, QuietNet DEF Next

(* As long as no signal interrupts a call, the clients and the demux agree  *)
(* on every feed: which filters it has, and whether it runs.                *)
THEOREM QuietInvariance ==
  ASSUME ~Signals  PROVE Spec => []QuietInv
<1>1. QuietInv /\ [Next]_vars => QuietInv'
  BY QuietNext
<1> QED BY QuietInit, <1>1, PTL DEF Spec

(* Without signals no section filter slot leaks or hangs off two feeds      *)
(* (dvb_dmx_filter_alloc against every release path of dvb_demux.c).        *)
THEOREM FiltersAccounted ==
  ASSUME ~Signals  PROVE Spec => []FilterSlotsAccounted
<1>1. QuietInv => FilterSlotsAccounted
  BY DemuxAssumption DEF QuietInv, Sound, ChainsMatch, FilterSlotsAccounted
<1> QED BY <1>1, QuietInvariance, PTL

(* Without signals the driver runs live, listed feeds with a filter only    *)
(* (start_feed and stop_feed of dvb_demux.c against the release paths).     *)
THEOREM HardwareFollows ==
  ASSUME ~Signals  PROVE Spec => []HardwareRunsLiveFeeds
<1>1. QuietInv => HardwareRunsLiveFeeds
  BY DEF QuietInv, Sound, Demux, ChainsMatch, DriverRunsFiltering, HardwareRunsLiveFeeds
<1> QED BY <1>1, QuietInvariance, PTL

(* Without signals dvb_net never makes release_filter stop a running feed   *)
(* with the demux mutex held (dvb_demux.c:957).                            *)
THEOREM NobodyHangs ==
  ASSUME ~Signals  PROVE Spec => []NoSelfDeadlock
<1>1. QuietInv => NoSelfDeadlock
  BY DEF QuietInv, NetPhase, NoSelfDeadlock, Clients
<1> QED BY <1>1, QuietInvariance, PTL

-----------------------------------------------------------------------------
(* Who may write to a decoder, with signals and failures.  A feed on         *)
(* feed_list holds the reservation of its decoder, until a feed that is not *)
(* takes it along; a TS feed runs only if it is on feed_list.               *)

Listed(d) ==
  \A f \in Feeds :
    /\ d.feed[f].state = "FREE" => f \notin d.list
    /\ d.feed[f].type = "TS" /\ d.feed[f].state \in {"READY", "GO"} => f \in d.list
Settled(d) ==
  \A f \in d.list : d.feed[f].type = "TS" /\ d.feed[f].decoder
                       => d.feed[f].pes \in PesTypes /\ d.pesfilter[d.feed[f].pes] = f

TypeOf(c) == IF c \in PesClients THEN "TS" ELSE "SEC"
HeldTypes == \A c \in Clients : held[c] # NoFeed => dmx.feed[held[c]].type = TypeOf(c)
RobInv == HeldTypes /\ Listed(dmx) /\ (robbed \/ Settled(dmx))

(* What the calls on feed f do to it and to its place on feed_list *)
Elsewhere(d, e, f) ==
  \A g \in Feeds \ {f} : e.feed[g] = d.feed[g] /\ (g \in e.list <=> g \in d.list)
Moved(d, e, f) ==
  /\ Elsewhere(d, e, f) /\ e.pesfilter = d.pesfilter
  /\ f \in e.list <=> f \in d.list
  /\ e.feed[f].type = d.feed[f].type
  /\ e.feed[f].decoder = d.feed[f].decoder /\ e.feed[f].pes = d.feed[f].pes
  /\ e.feed[f].state # "FREE"
  /\ e.feed[f].type = "TS" /\ e.feed[f].state \in {"READY", "GO"}
       => d.feed[f].state \in {"READY", "GO"}
Refilled(d, e, f, type) ==
  /\ Elsewhere(d, e, f) /\ e.pesfilter = d.pesfilter /\ e.list = d.list
  /\ d.feed[f].state = "FREE"
  /\ e.feed[f].state \in {"FREE", "ALLOCATED"} /\ e.feed[f].type = type
Configured(d, e, f) ==
  /\ Elsewhere(d, e, f) /\ f \in e.list
  /\ e.feed[f].state = "READY" /\ e.feed[f].type = d.feed[f].type
Freed(d, e, f) ==
  /\ Elsewhere(d, e, f) /\ f \notin e.list
  /\ e.feed[f].state = "FREE" /\ e.feed[f].type = d.feed[f].type

LEMMA StartMoves ==
  ASSUME NEW d \in Demux, NEW f \in Feeds, NEW r \in start_feed(d, f),
         d.feed[f].type = "TS" => d.feed[f].state = "READY"
  PROVE  r.d = d \/ Moved(d, r.d, f)
<1> DEFINE x == filtering(d.feed[f], TRUE, "GO")
           e == [d EXCEPT !.hw = @ \cup {f}, !.feed[f] = x]
<1>1. d.feed[f] \in Feed
  BY DEF Demux
<1>2. /\ x.state = "GO" /\ x.type = d.feed[f].type
      /\ x.decoder = d.feed[f].decoder /\ x.pes = d.feed[f].pes
  BY <1>1 DEF filtering, Feed
<1>3. r.d = d \/ r.d = e
  BY DEF start_feed, Return, Outcome
<1> HIDE DEF x
<1>4. Moved(d, e, f)
  BY <1>2 DEF Moved, Elsewhere, Demux
<1> HIDE DEF e
<1> QED BY <1>3, <1>4

LEMMA StopMoves ==
  ASSUME NEW d \in Demux, NEW f \in Feeds, NEW state \in {"ALLOCATED", "READY"},
         d.feed[f].type = "TS" => state = "ALLOCATED", NEW r \in stop_feed(d, f, state)
  PROVE  Moved(d, r.d, f)
<1> DEFINE x == filtering(d.feed[f], FALSE, state)
           e == [d EXCEPT !.hw = @ \ {f}, !.feed[f] = x]
<1>1. d.feed[f] \in Feed
  BY DEF Demux
<1>2. /\ x.state = state /\ x.type = d.feed[f].type
      /\ x.decoder = d.feed[f].decoder /\ x.pes = d.feed[f].pes
  BY <1>1 DEF filtering, Feed
<1>3. r.d = e
  BY DEF stop_feed, Return, Outcome
<1> HIDE DEF x
<1>4. Moved(d, e, f)
  BY <1>2 DEF Moved, Elsewhere, Demux
<1> HIDE DEF e
<1> QED BY <1>3, <1>4

LEMMA AllocateFilterMoves ==
  ASSUME NEW d \in Demux, NEW f \in Feeds, d.feed[f].state # "FREE",
         NEW r \in section_feed_allocate_filter(d, f)
  PROVE  r.d = d \/ Moved(d, r.d, f)
<1>1. CASE r \in Interrupted(d) \cup Return(d, "EBUSY")
  BY <1>1 DEF Interrupted, Return, Outcome
<1>2. ASSUME NEW i \in filter_alloc(d),
             r \in Outcome([d EXCEPT
               !.filter[i] = [state |-> "READY", feed |-> f],
               !.feed[f].chain = @ \cup {i}], i, "ok")
      PROVE  Moved(d, r.d, f)
  <2> DEFINE x == [d.feed[f] EXCEPT !.chain = @ \cup {i}]
             y == [state |-> "READY", feed |-> f]
             e == [d EXCEPT !.filter[i] = y, !.feed[f] = x]
  <2>1. d.feed[f] \in Feed
    BY DEF Demux
  <2>2. /\ x.state = d.feed[f].state /\ x.type = d.feed[f].type
        /\ x.decoder = d.feed[f].decoder /\ x.pes = d.feed[f].pes
    BY <2>1 DEF Feed
  <2>3. r.d = e
    BY <1>2 DEF Outcome
  <2> HIDE DEF x, y
  <2>4. Moved(d, e, f)
    BY <2>2 DEF Moved, Elsewhere, Demux
  <2> HIDE DEF e
  <2> QED BY <2>3, <2>4
<1> QED BY <1>1, <1>2 DEF section_feed_allocate_filter

LEMMA ReleaseFilterMoves ==
  ASSUME NEW d \in Demux, NEW f \in Feeds, d.feed[f].state # "FREE", NEW i \in Filters,
         NEW r \in section_feed_release_filter(d, f, i)
  PROVE  r.d = d \/ Moved(d, r.d, f)
<1> DEFINE x == [d.feed[f] EXCEPT !.chain = @ \ {i}]
           y == [d.filter[i] EXCEPT !.state = "FREE"]
           e == [d EXCEPT !.filter[i] = y, !.feed[f] = x]
<1>1. r.d = d \/ r.d = e
  BY DEF section_feed_release_filter, Interrupted, Return, Outcome
<1>2. d.feed[f] \in Feed
  BY DEF Demux
<1>3. /\ x.state = d.feed[f].state /\ x.type = d.feed[f].type
      /\ x.decoder = d.feed[f].decoder /\ x.pes = d.feed[f].pes
  BY <1>2 DEF Feed
<1> HIDE DEF x, y
<1>4. Moved(d, e, f)
  BY <1>3 DEF Moved, Elsewhere, Demux
<1> HIDE DEF e
<1> QED BY <1>1, <1>4

LEMMA AllocateTsRefills ==
  ASSUME NEW d \in Demux, NEW r \in allocate_ts_feed(d)
  PROVE  \/ r.d = d /\ r.ret # "ok"
         \/ \E f \in Feeds : Refilled(d, r.d, f, "TS") /\ (r.ret = "ok" => r.slot = f)
<1>1. CASE r \in Interrupted(d) \cup Return(d, "EBUSY")
  BY <1>1 DEF Interrupted, Return, Outcome
<1>2. ASSUME NEW f \in feed_alloc(d),
             r \in Return([d EXCEPT !.feed[f] = ts_slot(@, "FREE", {})], "EBUSY")
      PROVE  Refilled(d, r.d, f, "TS") /\ r.ret # "ok"
  <2> DEFINE x == ts_slot(d.feed[f], "FREE", {})
             e == [d EXCEPT !.feed[f] = x]
  <2>1. f \in Feeds /\ d.feed[f].state = "FREE" /\ d.feed[f] \in Feed
    BY FeedAlloc
  <2>2. x.state = "FREE" /\ x.type = "TS"
    BY <2>1 DEF ts_slot, Feed
  <2>3. r.d = e /\ r.ret # "ok"
    BY <1>2 DEF Return, Outcome
  <2> HIDE DEF x
  <2>4. Refilled(d, e, f, "TS")
    BY <2>1, <2>2 DEF Refilled, Elsewhere, Demux
  <2> HIDE DEF e
  <2> QED BY <2>3, <2>4
<1>3. ASSUME NEW f \in feed_alloc(d), NEW i \in filter_alloc(d),
             r \in Outcome([d EXCEPT
                   !.feed[f] = ts_slot(@, "ALLOCATED", {i}),
                   !.filter[i] = [state |-> "READY", feed |-> f]], f, "ok")
      PROVE  Refilled(d, r.d, f, "TS") /\ r.slot = f
  <2> DEFINE x == ts_slot(d.feed[f], "ALLOCATED", {i})
             y == [state |-> "READY", feed |-> f]
             e == [d EXCEPT !.feed[f] = x, !.filter[i] = y]
  <2>1. f \in Feeds /\ d.feed[f].state = "FREE" /\ d.feed[f] \in Feed
    BY FeedAlloc
  <2>2. x.state = "ALLOCATED" /\ x.type = "TS"
    BY <2>1 DEF ts_slot, Feed
  <2>3. r.d = e /\ r.slot = f
    BY <1>3 DEF Outcome
  <2> HIDE DEF x, y
  <2>4. Refilled(d, e, f, "TS")
    BY <2>1, <2>2 DEF Refilled, Elsewhere, Demux
  <2> HIDE DEF e
  <2> QED BY <2>3, <2>4
<1>4. feed_alloc(d) \subseteq Feeds
  BY FeedAlloc
<1>5. CASE feed_alloc(d) # {} /\ filter_alloc(d) = {}
  BY <1>1, <1>2, <1>4, <1>5 DEF allocate_ts_feed
<1>6. CASE feed_alloc(d) # {} /\ filter_alloc(d) # {}
  <2> DEFINE out(f, i) == Outcome([d EXCEPT
                   !.feed[f] = ts_slot(@, "ALLOCATED", {i}),
                   !.filter[i] = [state |-> "READY", feed |-> f]], f, "ok")
  <2>1. r \in Interrupted(d) \cup
              UNION {UNION {out(f, i) : i \in filter_alloc(d)} : f \in feed_alloc(d)}
    BY <1>6 DEF allocate_ts_feed
  <2>2. ASSUME NEW f \in feed_alloc(d), NEW i \in filter_alloc(d), r \in out(f, i)
        PROVE  Refilled(d, r.d, f, "TS") /\ r.slot = f
    BY <2>2, <1>3
  <2> HIDE DEF out
  <2> QED BY <1>1, <1>4, <2>1, <2>2
<1> QED BY <1>1, <1>5, <1>6 DEF allocate_ts_feed

LEMMA AllocateSectionRefills ==
  ASSUME NEW d \in Demux, NEW r \in allocate_section_feed(d)
  PROVE  \/ r.d = d /\ r.ret # "ok"
         \/ \E f \in Feeds : Refilled(d, r.d, f, "SEC") /\ (r.ret = "ok" => r.slot = f)
<1>1. CASE r \in Interrupted(d) \cup Return(d, "EBUSY")
  BY <1>1 DEF Interrupted, Return, Outcome
<1>2. ASSUME NEW f \in feed_alloc(d),
             r \in Outcome([d EXCEPT !.feed[f] = sec_slot(@)], f, "ok")
      PROVE  Refilled(d, r.d, f, "SEC") /\ r.slot = f /\ f \in Feeds
  <2> DEFINE x == sec_slot(d.feed[f])
             e == [d EXCEPT !.feed[f] = x]
  <2>1. f \in Feeds /\ d.feed[f].state = "FREE" /\ d.feed[f] \in Feed
    BY FeedAlloc
  <2>2. x.state = "ALLOCATED" /\ x.type = "SEC"
    BY <2>1 DEF sec_slot, Feed
  <2>3. r.d = e /\ r.slot = f
    BY <1>2 DEF Outcome
  <2> HIDE DEF x
  <2>4. Refilled(d, e, f, "SEC")
    BY <2>1, <2>2 DEF Refilled, Elsewhere, Demux
  <2> HIDE DEF e
  <2> QED BY <2>1, <2>3, <2>4
<1> QED BY <1>1, <1>2 DEF allocate_section_feed

LEMMA TsSetConfigures ==
  ASSUME NEW d \in Demux, NEW f \in Feeds, NEW pid \in AskPids,
         NEW pes \in PesTypes \cup {OtherPes},
         NEW r \in ts_feed_set(d, f, pid, pes # OtherPes, pes)
  PROVE  \/ r.d = d
         \/ /\ Configured(d, r.d, f)
            /\ IF pes = OtherPes THEN ~r.d.feed[f].decoder /\ r.d.pesfilter = d.pesfilter
               ELSE /\ r.d.feed[f].pes = pes /\ d.pesfilter[pes] \in {NoFeed, f}
                    /\ r.d.pesfilter = [d.pesfilter EXCEPT ![pes] = f]
<1> DEFINE x == ts_params(d.feed[f], pid, pes # OtherPes, pes)
           pf == IF pes # OtherPes THEN [d.pesfilter EXCEPT ![pes] = f] ELSE d.pesfilter
           pd == IF pes # OtherPes THEN [d.pids EXCEPT ![pes] = pid] ELSE d.pids
           e == [d EXCEPT !.pesfilter = pf, !.pids = pd, !.list = @ \cup {f}, !.feed[f] = x]
<1>1. \/ r.d = d
      \/ r.d = e /\ (pes # OtherPes => d.pesfilter[pes] \in {NoFeed, f})
  BY DEF ts_feed_set, Interrupted, Return, Outcome
<1>2. d.feed[f] \in Feed
  BY DEF Demux
<1>3. /\ x.state = "READY" /\ x.pes = pes /\ x.type = d.feed[f].type
      /\ x.decoder = (pes # OtherPes)
  BY <1>2 DEF ts_params, Feed
<1>4. pf = IF pes # OtherPes THEN [d.pesfilter EXCEPT ![pes] = f] ELSE d.pesfilter
  OBVIOUS
<1> HIDE DEF x, pf, pd
<1>5. Configured(d, e, f) /\ e.feed[f] = x /\ e.pesfilter = pf
  BY <1>3 DEF Configured, Elsewhere, Demux
<1> HIDE DEF e
<1> QED BY <1>1, <1>3, <1>4, <1>5

LEMMA SectionSetConfigures ==
  ASSUME NEW d \in Demux, NEW f \in Feeds, NEW pid \in Pids,
         NEW r \in section_feed_set(d, f, pid, TRUE)
  PROVE  r.d = d \/ (Configured(d, r.d, f) /\ r.d.pesfilter = d.pesfilter)
<1> DEFINE x == [d.feed[f] EXCEPT !.pid = pid, !.crc = TRUE, !.state = "READY"]
           e == [d EXCEPT !.list = @ \cup {f}, !.feed[f] = x]
<1>1. r.d = d \/ r.d = e
  BY DEF section_feed_set, Interrupted, Return, Outcome
<1>2. d.feed[f] \in Feed
  BY DEF Demux
<1>3. x.state = "READY" /\ x.type = d.feed[f].type
  BY <1>2 DEF Feed
<1> HIDE DEF x
<1>4. Configured(d, e, f) /\ e.pesfilter = d.pesfilter
  BY <1>3 DEF Configured, Elsewhere, Demux
<1> HIDE DEF e
<1> QED BY <1>1, <1>4

LEMMA ReleaseTsFrees ==
  ASSUME NEW d \in Demux, NEW f \in Feeds, NEW r \in release_ts_feed(d, f)
  PROVE  r.d = d \/ (Freed(d, r.d, f) /\ r.d.pesfilter = unreserved(d, f))
<1> DEFINE x == [d.feed[f] EXCEPT !.state = "FREE", !.pid = NoPid]
           ff == [i \in Filters |-> IF i \in own_filter(d, f)
                    THEN [d.filter[i] EXCEPT !.state = "FREE"] ELSE d.filter[i]]
           pf == unreserved(d, f)
           e == [d EXCEPT !.feed[f] = x, !.filter = ff, !.list = @ \ {f}, !.pesfilter = pf]
<1>1. r.d = d \/ r.d = e
  BY DEF release_ts_feed, Interrupted, Return, Outcome
<1>2. d.feed[f] \in Feed
  BY DEF Demux
<1>3. x.state = "FREE" /\ x.type = d.feed[f].type
  BY <1>2 DEF Feed
<1>4. pf = unreserved(d, f)
  OBVIOUS
<1> HIDE DEF x, ff, pf
<1>5. Freed(d, e, f) /\ e.pesfilter = pf
  BY <1>3 DEF Freed, Elsewhere, Demux
<1> HIDE DEF e
<1> QED BY <1>1, <1>4, <1>5

LEMMA ReleaseSectionFrees ==
  ASSUME NEW d \in Demux, NEW f \in Feeds, NEW r \in release_section_feed(d, f)
  PROVE  r.d = d \/ (Freed(d, r.d, f) /\ r.d.pesfilter = d.pesfilter)
<1> DEFINE x == [d.feed[f] EXCEPT !.state = "FREE", !.pid = NoPid]
           e == [d EXCEPT !.list = @ \ {f}, !.feed[f] = x]
<1>1. r.d = d \/ r.d = e
  BY DEF release_section_feed, Interrupted, Return, Outcome
<1>2. d.feed[f] \in Feed
  BY DEF Demux
<1>3. x.state = "FREE" /\ x.type = d.feed[f].type
  BY <1>2 DEF Feed
<1> HIDE DEF x
<1>4. Freed(d, e, f) /\ e.pesfilter = d.pesfilter
  BY <1>3 DEF Freed, Elsewhere, Demux
<1> HIDE DEF e
<1> QED BY <1>1, <1>4

(* What such a change means for feed_list and the reservations *)
LEMMA MovedKeeps ==
  ASSUME NEW d \in Demux, NEW e \in Demux, NEW f \in Feeds, d.feed[f].state # "FREE",
         d = e \/ Moved(d, e, f), Listed(d)
  PROVE  Listed(e) /\ (Settled(d) => Settled(e))
<1>1. CASE d = e
  BY <1>1
<1>2. CASE Moved(d, e, f)
  <2>1. Listed(e)
    BY <1>2 DEF Moved, Elsewhere, Listed
  <2>2. e.list \subseteq Feeds
    BY DEF Demux
  <2>3. Settled(d) => Settled(e)
    BY <1>2, <2>2 DEF Moved, Elsewhere, Settled
  <2> QED BY <2>1, <2>3
<1> QED BY <1>1, <1>2

LEMMA RefilledKeeps ==
  ASSUME NEW d \in Demux, NEW e \in Demux, NEW f \in Feeds, NEW type,
         Refilled(d, e, f, type), Listed(d)
  PROVE  Listed(e) /\ (Settled(d) => Settled(e))
<1>1. f \notin e.list
  BY DEF Refilled, Listed
<1>2. Listed(e)
  BY <1>1 DEF Refilled, Elsewhere, Listed
<1>3. e.list \subseteq Feeds
  BY DEF Demux
<1>4. Settled(d) => Settled(e)
  BY <1>1, <1>3 DEF Refilled, Elsewhere, Settled
<1> QED BY <1>2, <1>4

LEMMA ConfiguredKeeps ==
  ASSUME NEW d \in Demux, NEW e \in Demux, NEW f \in Feeds, Configured(d, e, f), Listed(d),
         \A g \in d.list \ {f} : d.feed[g].pes \in PesTypes /\ d.pesfilter[d.feed[g].pes] = g
                                 => e.pesfilter[d.feed[g].pes] = g,
         e.feed[f].type = "TS" /\ e.feed[f].decoder
           => e.feed[f].pes \in PesTypes /\ e.pesfilter[e.feed[f].pes] = f
  PROVE  Listed(e) /\ (Settled(d) => Settled(e))
<1>1. Listed(e)
  BY DEF Configured, Elsewhere, Listed
<1>2. e.list \subseteq Feeds
  BY DEF Demux
<1>3. Settled(d) => Settled(e)
  BY <1>2 DEF Configured, Elsewhere, Settled
<1> QED BY <1>1, <1>3

LEMMA FreedKeeps ==
  ASSUME NEW d \in Demux, NEW e \in Demux, NEW f \in Feeds, Freed(d, e, f), Listed(d),
         \A g \in d.list \ {f} : d.feed[g].pes \in PesTypes /\ d.pesfilter[d.feed[g].pes] = g
                                 => e.pesfilter[d.feed[g].pes] = g
  PROVE  Listed(e) /\ (Settled(d) => Settled(e))
<1>1. Listed(e)
  BY DEF Freed, Elsewhere, Listed
<1>2. e.list \subseteq Feeds
  BY DEF Demux
<1>3. Settled(d) => Settled(e)
  BY <1>2 DEF Freed, Elsewhere, Settled
<1> QED BY <1>1, <1>3

(* A client stays with feeds of its type: nobody else writes to the slot it *)
(* points at.                                                               *)
LEMMA HeldTypesKept ==
  ASSUME IInv, HeldTypes, NEW c \in Clients, held[c] # NoFeed,
         held' = held \/ held' = [held EXCEPT ![c] = NoFeed],
         dmx' = dmx \/ Elsewhere(dmx, dmx', held[c]),
         dmx'.feed[held[c]].type = dmx.feed[held[c]].type
  PROVE  HeldTypes'
<1>1. \A b \in Clients \ {c} : held[b] # NoFeed => held[b] \in Feeds \ {held[c]}
  BY DEF IInv, TypeOK, FeedsNotShared
<1>2. \A b \in Clients : held'[b] = held[b] \/ held'[b] = NoFeed
  BY DEF IInv, TypeOK
<1> QED BY <1>1, <1>2 DEF HeldTypes, TypeOf, Elsewhere

LEMMA HeldTypesTaken ==
  ASSUME IInv, HeldTypes, NEW c \in Clients, NEW f \in Feeds,
         Refilled(dmx, dmx', f, TypeOf(c)),
         held' = held \/ held' = [held EXCEPT ![c] = f]
  PROVE  HeldTypes'
<1>1. \A b \in Clients : held[b] # NoFeed => held[b] \in Feeds \ {f}
  BY DEF IInv, TypeOK, FeedsNotShared, Refilled
<1>2. \A b \in Clients : held'[b] = held[b] \/ (b = c /\ held'[b] = f)
  BY DEF IInv, TypeOK
<1> QED BY <1>1, <1>2 DEF HeldTypes, TypeOf, Elsewhere, Refilled

LEMMA RobPes ==
  ASSUME IInv, IInv', HeldTypes, Listed(dmx), NEW c \in PesClients, PesStep(c)
  PROVE  HeldTypes' /\ Listed(dmx') /\ (Settled(dmx) => Settled(dmx') \/ Robs(c))
<1>0. c \in Clients /\ TypeOf(c) = "TS" /\ dmx \in Demux /\ dmx' \in Demux
  BY DEF Clients, TypeOf, IInv, TypeOK
<1>1. CASE PesAllocate(c)
  <2>1. PICK r \in allocate_ts_feed(dmx) :
          /\ dmx' = r.d
          /\ IF r.ret = "ok" THEN held' = [held EXCEPT ![c] = r.slot] ELSE held' = held
    BY <1>1 DEF PesAllocate
  <2>2. CASE dmx' = dmx /\ held' = held
    BY <2>2 DEF HeldTypes
  <2>3. CASE \E f \in Feeds : Refilled(dmx, dmx', f, "TS") /\ (r.ret = "ok" => r.slot = f)
    <3>1. PICK f \in Feeds : Refilled(dmx, dmx', f, "TS") /\ (r.ret = "ok" => r.slot = f)
      BY <2>3
    <3>2. HeldTypes'
      BY <1>0, <2>1, <3>1, HeldTypesTaken
    <3> QED BY <1>0, <3>1, <3>2, RefilledKeeps
  <2> QED BY <1>0, <2>1, <2>2, <2>3, AllocateTsRefills
<1>2. ASSUME pc[c] # "idle"
      PROVE  /\ held[c] \in Feeds /\ held[c] # NoFeed /\ dmx.feed[held[c]].state # "FREE"
             /\ dmx.feed[held[c]].type = "TS"
  BY <1>0, <1>2, Busy DEF HeldTypes
<1>3. CASE PesSet(c)
  <2>1. PICK pid \in AskPids, pes \in Wants[c] :
        \E r \in ts_feed_set(dmx, held[c], pid, pes # OtherPes, pes) : dmx' = r.d
    BY <1>3 DEF PesSet
  <2>2. PICK r \in ts_feed_set(dmx, held[c], pid, pes # OtherPes, pes) : dmx' = r.d
    BY <2>1
  <2>3. pc[c] # "idle" /\ held' = held
    BY <1>3 DEF PesSet
  <2>4. pes \in PesTypes \cup {OtherPes}
    BY ClientAssumption
  <2>5. CASE dmx' = dmx
    BY <2>3, <2>5 DEF HeldTypes
  <2>6. CASE /\ Configured(dmx, dmx', held[c])
             /\ IF pes = OtherPes
                THEN ~dmx'.feed[held[c]].decoder /\ dmx'.pesfilter = dmx.pesfilter
                ELSE /\ dmx'.feed[held[c]].pes = pes /\ dmx.pesfilter[pes] \in {NoFeed, held[c]}
                     /\ dmx'.pesfilter = [dmx.pesfilter EXCEPT ![pes] = held[c]]
    <3>1. HeldTypes'
      BY <1>0, <1>2, <2>3, <2>6, HeldTypesKept DEF Configured
    <3>2. \A g \in dmx.list \ {held[c]} :
            dmx.feed[g].pes \in PesTypes /\ dmx.pesfilter[dmx.feed[g].pes] = g
              => dmx'.pesfilter[dmx.feed[g].pes] = g
      <4>1. \A g \in dmx.list : g \in Feeds /\ g # NoFeed
        BY <1>0, DemuxAssumption DEF Demux
      <4>2. dmx.pesfilter \in [PesTypes -> Feeds \cup {NoFeed}]
        BY <1>0 DEF Demux
      <4> QED BY <2>6, <4>1, <4>2
    <3>3. dmx'.feed[held[c]].decoder =>
            dmx'.feed[held[c]].pes \in PesTypes /\ dmx'.pesfilter[dmx'.feed[held[c]].pes] = held[c]
      <4>1. dmx.pesfilter \in [PesTypes -> Feeds \cup {NoFeed}]
        BY <1>0 DEF Demux
      <4> QED BY <2>4, <2>6, <4>1
    <3>4. held[c] \in Feeds
      BY <1>2, <2>3
    <3> QED BY <1>0, <2>6, <3>1, <3>2, <3>3, <3>4, ConfiguredKeeps
  <2> QED BY <1>0, <1>2, <2>2, <2>3, <2>4, <2>5, <2>6, TsSetConfigures
<1>4. CASE PesStart(c)
  <2>1. PICK r \in ts_feed_start_filtering(dmx, held[c]) : dmx' = r.d
    BY <1>4 DEF PesStart
  <2>2. pc[c] # "idle" /\ (held' = held \/ held' = [held EXCEPT ![c] = NoFeed])
    BY <1>4 DEF PesStart
  <2>3. dmx' = dmx \/ Moved(dmx, dmx', held[c])
    BY <1>0, <1>2, <2>1, <2>2, StartMoves
       DEF ts_feed_start_filtering, Interrupted, Return, Outcome
  <2>4. HeldTypes'
    BY <1>0, <1>2, <2>2, <2>3, HeldTypesKept DEF Moved
  <2> QED BY <1>0, <1>2, <2>2, <2>3, <2>4, MovedKeeps
<1>5. CASE PesStop(c)
  <2>1. PICK r \in ts_feed_stop_filtering(dmx, held[c]) : dmx' = r.d
    BY <1>5 DEF PesStop
  <2>2. pc[c] # "idle" /\ held' = held
    BY <1>5 DEF PesStop
  <2>3. dmx' = dmx \/ Moved(dmx, dmx', held[c])
    BY <1>0, <1>2, <2>1, <2>2, StopMoves
       DEF ts_feed_stop_filtering, Interrupted, Return, Outcome
  <2>4. HeldTypes'
    BY <1>0, <1>2, <2>2, <2>3, HeldTypesKept DEF Moved
  <2> QED BY <1>0, <1>2, <2>2, <2>3, <2>4, MovedKeeps
<1>6. CASE PesRelease(c)
  <2>1. PICK r \in release_ts_feed(dmx, held[c]) : dmx' = r.d
    BY <1>6 DEF PesRelease
  <2>2. pc[c] # "idle" /\ held' = [held EXCEPT ![c] = NoFeed]
    BY <1>6 DEF PesRelease
  <2>3. CASE dmx' = dmx
    <3>1. HeldTypes'
      BY <1>0, <1>2, <2>2, <2>3, HeldTypesKept
    <3> QED BY <2>3, <3>1
  <2>4. CASE Freed(dmx, dmx', held[c]) /\ dmx'.pesfilter = unreserved(dmx, held[c])
    <3>1. HeldTypes'
      BY <1>0, <1>2, <2>2, <2>4, HeldTypesKept DEF Freed
    <3>2. Listed(dmx')
      BY <1>2, <2>2, <2>4 DEF Freed, Elsewhere, Listed
    <3>3. CASE dmx'.pesfilter = dmx.pesfilter
      BY <1>0, <1>2, <2>2, <2>4, <3>1, <3>3, FreedKeeps
    <3>4. CASE dmx'.pesfilter # dmx.pesfilter /\ held[c] \notin dmx.list
      BY <1>6, <3>1, <3>2, <3>4 DEF Robs
    <3>5. CASE dmx'.pesfilter # dmx.pesfilter /\ held[c] \in dmx.list
      <4>1. SUFFICES ASSUME Settled(dmx)
                     PROVE  Settled(dmx')
        BY <3>1, <3>2
      <4>2. dmx.feed[held[c]].decoder
            /\ dmx'.pesfilter = [dmx.pesfilter EXCEPT ![dmx.feed[held[c]].pes] = NoFeed]
        BY <2>4, <3>5 DEF unreserved
      <4>3. dmx.feed[held[c]].pes \in PesTypes /\ dmx.pesfilter[dmx.feed[held[c]].pes] = held[c]
        BY <1>2, <2>2, <3>5, <4>1, <4>2 DEF Settled
      <4>4. \A g \in dmx.list \ {held[c]} :
              dmx.feed[g].pes \in PesTypes /\ dmx.pesfilter[dmx.feed[g].pes] = g
                => dmx'.pesfilter[dmx.feed[g].pes] = g
        <5>1. dmx.pesfilter \in [PesTypes -> Feeds \cup {NoFeed}]
          BY <1>0 DEF Demux
        <5> QED BY <4>2, <4>3, <5>1
      <4> QED BY <1>0, <1>2, <2>2, <2>4, <4>1, <4>4, FreedKeeps
    <3> QED BY <3>3, <3>4, <3>5
  <2> QED BY <1>0, <1>2, <2>1, <2>2, <2>3, <2>4, ReleaseTsFrees
<1> QED BY <1>1, <1>3, <1>4, <1>5, <1>6 DEF PesStep

LEMMA RobNet ==
  ASSUME IInv, IInv', HeldTypes, Listed(dmx), NEW c \in NetClients, NetStep(c)
  PROVE  HeldTypes' /\ Listed(dmx') /\ (Settled(dmx) => Settled(dmx'))
<1>0. c \in Clients /\ TypeOf(c) = "SEC" /\ dmx \in Demux /\ dmx' \in Demux
  BY ClientAssumption DEF Clients, TypeOf, IInv, TypeOK
<1>1. CASE NetAllocate(c)
  <2>1. PICK r \in allocate_section_feed(dmx) :
          /\ dmx' = r.d
          /\ IF r.ret = "ok" THEN held' = [held EXCEPT ![c] = r.slot] ELSE held' = held
    BY <1>1 DEF NetAllocate
  <2>2. CASE dmx' = dmx /\ held' = held
    BY <2>2 DEF HeldTypes
  <2>3. CASE \E f \in Feeds : Refilled(dmx, dmx', f, "SEC") /\ (r.ret = "ok" => r.slot = f)
    <3>1. PICK f \in Feeds : Refilled(dmx, dmx', f, "SEC") /\ (r.ret = "ok" => r.slot = f)
      BY <2>3
    <3>2. HeldTypes'
      BY <1>0, <2>1, <3>1, HeldTypesTaken
    <3> QED BY <1>0, <3>1, <3>2, RefilledKeeps
  <2> QED BY <1>0, <2>1, <2>2, <2>3, AllocateSectionRefills
<1>2. ASSUME pc[c] # "idle"
      PROVE  /\ held[c] \in Feeds /\ held[c] # NoFeed /\ dmx.feed[held[c]].state # "FREE"
             /\ dmx.feed[held[c]].type = "SEC"
  BY <1>0, <1>2, Busy DEF HeldTypes
<1>3. CASE NetSet(c)
  <2>1. PICK pid \in Pids : \E r \in section_feed_set(dmx, held[c], pid, TRUE) : dmx' = r.d
    BY <1>3 DEF NetSet
  <2>2. pc[c] # "idle" /\ held' = held
    BY <1>3 DEF NetSet
  <2>3. CASE dmx' = dmx
    BY <2>2, <2>3 DEF HeldTypes
  <2>4. CASE Configured(dmx, dmx', held[c]) /\ dmx'.pesfilter = dmx.pesfilter
    <3>1. HeldTypes'
      BY <1>0, <1>2, <2>2, <2>4, HeldTypesKept DEF Configured
    <3>2. dmx'.feed[held[c]].type # "TS"
      BY <1>2, <2>2, <2>4 DEF Configured
    <3> QED BY <1>0, <1>2, <2>2, <2>4, <3>1, <3>2, ConfiguredKeeps
  <2> QED BY <1>0, <1>2, <2>1, <2>2, <2>3, <2>4, SectionSetConfigures
<1>4. ASSUME pc[c] # "idle", held' = held, dmx' = dmx \/ Moved(dmx, dmx', held[c])
      PROVE  HeldTypes' /\ Listed(dmx') /\ (Settled(dmx) => Settled(dmx'))
  <2>1. HeldTypes'
    BY <1>0, <1>2, <1>4, HeldTypesKept DEF Moved
  <2> QED BY <1>0, <1>2, <1>4, <2>1, MovedKeeps
<1>5. CASE NetFilter(c)
  <2>1. pc[c] # "idle" /\ held' = held
    BY <1>5 DEF NetFilter
  <2>2. dmx' = dmx \/ \E r \in section_feed_allocate_filter(dmx, held[c]) : dmx' = r.d
    BY <1>5 DEF NetFilter
  <2> QED BY <1>0, <1>2, <1>4, <2>1, <2>2, AllocateFilterMoves
<1>6. CASE NetStart(c)
  <2>1. pc[c] # "idle" /\ held' = held
    BY <1>6 DEF NetStart
  <2>2. PICK r \in section_feed_start_filtering(dmx, held[c]) : dmx' = r.d
    BY <1>6 DEF NetStart
  <2>3. dmx' = dmx \/ Moved(dmx, dmx', held[c])
    BY <1>0, <1>2, <2>1, <2>2, StartMoves
       DEF section_feed_start_filtering, Interrupted, Return, Outcome
  <2> QED BY <1>4, <2>1, <2>3
<1>7. CASE NetStop(c)
  <2>1. pc[c] # "idle" /\ held' = held
    BY <1>7 DEF NetStop
  <2>2. dmx' = dmx \/ \E r \in section_feed_stop_filtering(dmx, held[c]) : dmx' = r.d
    BY <1>7 DEF NetStop
  <2>3. dmx' = dmx \/ Moved(dmx, dmx', held[c])
    BY <1>0, <1>2, <2>1, <2>2, StopMoves
       DEF section_feed_stop_filtering, Interrupted, Return, Outcome
  <2> QED BY <1>4, <2>1, <2>3
<1>8. CASE NetDropFilter(c)
  <2>1. pc[c] # "idle" /\ held' = held
    BY <1>8 DEF NetDropFilter
  <2>2. PICK i \in flts[c] : \E r \in section_feed_release_filter(dmx, held[c], i) : dmx' = r.d
    BY <1>8 DEF NetDropFilter
  <2>3. i \in Filters
    BY <1>0 DEF IInv, TypeOK
  <2>4. dmx' = dmx \/ Moved(dmx, dmx', held[c])
    BY <1>0, <1>2, <2>1, <2>2, <2>3, ReleaseFilterMoves
  <2> QED BY <1>4, <2>1, <2>4
<1>9. CASE NetRelease(c)
  <2>1. PICK r \in release_section_feed(dmx, held[c]) : dmx' = r.d
    BY <1>9 DEF NetRelease
  <2>2. pc[c] # "idle" /\ held' = [held EXCEPT ![c] = NoFeed]
    BY <1>9 DEF NetRelease
  <2>3. CASE dmx' = dmx
    <3>1. HeldTypes'
      BY <1>0, <1>2, <2>2, <2>3, HeldTypesKept
    <3> QED BY <2>3, <3>1
  <2>4. CASE Freed(dmx, dmx', held[c]) /\ dmx'.pesfilter = dmx.pesfilter
    <3>1. HeldTypes'
      BY <1>0, <1>2, <2>2, <2>4, HeldTypesKept DEF Freed
    <3> QED BY <1>0, <1>2, <2>2, <2>4, <3>1, FreedKeeps
  <2> QED BY <1>0, <1>2, <2>1, <2>2, <2>3, <2>4, ReleaseSectionFrees
<1> QED BY <1>1, <1>3, <1>5, <1>6, <1>7, <1>8, <1>9 DEF NetStep

LEMMA RobInit == ASSUME Init, robbed = FALSE PROVE RobInv
<1>1. PICK left \in [Feeds -> PesTypes \cup {OtherPes}] : dmx = dmx_init(left)
  BY DEF Init
<1>2. dmx.list = {} /\ \A f \in Feeds : dmx.feed[f].state = "FREE"
  BY <1>1 DEF dmx_init
<1>3. \A c \in Clients : held[c] = NoFeed
  BY DEF Init
<1> QED BY <1>2, <1>3 DEF RobInv, HeldTypes, Listed, Settled

LEMMA RobNext ==
  ASSUME IInv, IInv', RobInv,
         [Next /\ robbed' = (robbed \/ \E c \in PesClients : Robs(c))]_<<vars, robbed>>
  PROVE  RobInv'
<1>1. CASE UNCHANGED <<vars, robbed>>
  BY <1>1 DEF vars, RobInv, HeldTypes
<1>2. ASSUME NEW c \in PesClients, PesStep(c),
             robbed' = (robbed \/ \E b \in PesClients : Robs(b))
      PROVE  RobInv'
  <2>1. HeldTypes' /\ Listed(dmx') /\ (Settled(dmx) => Settled(dmx') \/ Robs(c))
    BY <1>2, RobPes DEF RobInv
  <2>2. robbed' \/ Settled(dmx')
    BY <1>2, <2>1 DEF RobInv
  <2> QED BY <2>1, <2>2 DEF RobInv
<1>3. ASSUME NEW c \in NetClients, NetStep(c),
             robbed' = (robbed \/ \E b \in PesClients : Robs(b))
      PROVE  RobInv'
  <2>1. HeldTypes' /\ Listed(dmx') /\ (Settled(dmx) => Settled(dmx'))
    BY <1>3, RobNet DEF RobInv
  <2>2. robbed' \/ Settled(dmx')
    BY <1>3, <2>1 DEF RobInv
  <2> QED BY <2>1, <2>2 DEF RobInv
<1> QED BY <1>1, <1>2, <1>3 DEF Next

(* Whatever is refused, interrupted or lost, two running feeds never write  *)
(* to one decoder (dmx_ts_feed_set, dvb_demux.c:577-592) until the release  *)
(* of a feed that was refused takes a reservation along (line 763).         *)
THEOREM DecodersExclusive == RobbedSpec => []DecoderExclusiveUntilRobbed
<1> DEFINE Step == Next /\ robbed' = (robbed \/ \E c \in PesClients : Robs(c))
<1>1. Init /\ robbed = FALSE => IInv /\ RobInv
  BY InvInit, RobInit
<1>2. [Step]_<<vars, robbed>> => [Next]_vars
  OBVIOUS
<1>3. IInv /\ RobInv /\ [Step]_<<vars, robbed>> => IInv' /\ RobInv'
  BY <1>2, InvNext, RobNext
<1>4. RobInv => DecoderExclusiveUntilRobbed
  <2>1. SUFFICES ASSUME RobInv, ~robbed, NEW f \in Feeds,
                        dmx.feed[f].state = "GO", dmx.feed[f].type = "TS", dmx.feed[f].decoder
                 PROVE  dmx.pesfilter[dmx.feed[f].pes] = f
    BY DEF DecoderExclusiveUntilRobbed, DecoderExclusive
  <2>2. f \in dmx.list
    BY <2>1 DEF RobInv, Listed
  <2> QED BY <2>1, <2>2 DEF RobInv, Settled
<1> HIDE DEF Step
<1>5. RobbedSpec => (Init /\ robbed = FALSE) /\ [][Step]_<<vars, robbed>>
  BY DEF RobbedSpec, RobbedInit, Step
<1> QED BY <1>1, <1>3, <1>4, <1>5, PTL
=============================================================================
