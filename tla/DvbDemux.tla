------------------------------ MODULE DvbDemux ------------------------------
(***************************************************************************)
(* The kernel API of the software demultiplexer (DvbDemuxOps) under the    *)
(* two kinds of in-kernel client the tree has:                             *)
(*                                                                         *)
(*   PES clients - files of dmxdev.c whose filter is a PES filter.  Their  *)
(*     ioctls hold dmxdev->mutex, so the calls one of them makes inside an *)
(*     ioctl are not interleaved with another PES client's.                *)
(*   Net clients - interfaces of dvb_net.c, which hold no common lock: any *)
(*     call of theirs may fall between two calls of a PES client.          *)
(*                                                                         *)
(* One step is one API call, the unit demux->mutex makes atomic.           *)
(***************************************************************************)
EXTENDS DvbDemuxOps

CONSTANTS
  PesClients, NetClients, NoClient,
  AskPids,     \* the pids a PES client asks for: Pids, perhaps BadPid
  Wants,       \* the stream types each PES client asks for
  NetFilters   \* filters a net client may want (unicast and multicast MACs)

Clients == PesClients \cup NetClients

ASSUME ClientAssumption ==
  /\ PesClients \cap NetClients = {}
  /\ NoClient \notin Clients
  /\ AskPids \subseteq Pids \cup {BadPid}
  /\ Wants \in [PesClients -> SUBSET (PesTypes \cup {OtherPes})]
  /\ NetFilters \in Nat

VARIABLES
  dmx,     \* the demux, a record of Demux
  pc,      \* the next thing each client does
  held,    \* the feed each client points at
  flts,    \* the section filters a net client points at
  mutex    \* the PES client inside an ioctl, holding dmxdev->mutex

vars == <<dmx, pc, held, flts, mutex>>

Phases == {"idle", "set", "start", "run", "filter", "drop", "release", "hung"}

Init ==
  /\ \E left \in [Feeds -> PesTypes \cup {OtherPes}] : dmx = dmx_init(left)
  /\ pc = [c \in Clients |-> "idle"]
  /\ held = [c \in Clients |-> NoFeed]
  /\ flts = [c \in Clients |-> {}]
  /\ mutex = NoClient

Goto(c, phase) == pc' = [pc EXCEPT ![c] = phase]
Lock(c) == /\ c \in PesClients => mutex \in {NoClient, c}
           /\ mutex' = IF c \in PesClients THEN c ELSE mutex
Unlock(c) == /\ c \in PesClients => mutex \in {NoClient, c}
             /\ mutex' = IF c \in PesClients THEN NoClient ELSE mutex

-----------------------------------------------------------------------------
(* dvb_dmxdev_filter_start, case DMXDEV_TYPE_PES *)

PesAllocate(c) ==
  /\ pc[c] = "idle"
  /\ \E r \in allocate_ts_feed(dmx) :
       /\ dmx' = r.d
       /\ IF r.ret = "ok"
          THEN /\ Goto(c, "set") /\ Lock(c)
               /\ held' = [held EXCEPT ![c] = r.slot]
          ELSE Unlock(c) /\ UNCHANGED <<pc, held>>
  /\ UNCHANGED flts

PesSet(c) ==
  /\ pc[c] = "set"
  /\ \E pid \in AskPids, pes \in Wants[c] :
     \E r \in ts_feed_set(dmx, held[c], pid, pes # OtherPes, pes) :
       /\ dmx' = r.d
       /\ Goto(c, IF r.ret = "ok" THEN "start" ELSE "release")
  /\ Lock(c)
  /\ UNCHANGED <<held, flts>>

(* A refused start returns without releasing the feed: the filter stays in  *)
(* state SET, for which filter_stop does nothing.                           *)
PesStart(c) ==
  /\ pc[c] = "start"
  /\ \E r \in ts_feed_start_filtering(dmx, held[c]) :
       /\ dmx' = r.d
       /\ IF r.ret = "ok" THEN Goto(c, "run") /\ UNCHANGED held
          ELSE Goto(c, "idle") /\ held' = [held EXCEPT ![c] = NoFeed]
  /\ Unlock(c)
  /\ UNCHANGED flts

(* dvb_dmxdev_filter_stop, case DMXDEV_TYPE_PES: the result of             *)
(* stop_filtering is ignored                                               *)
PesStopForgotten(c) ==  \* mutant: the feed is released while it runs
  pc[c] = "run" /\ Goto(c, "release") /\ Lock(c) /\ UNCHANGED <<dmx, held, flts>>

PesStop(c) ==
  /\ pc[c] = "run"
  /\ \E r \in ts_feed_stop_filtering(dmx, held[c]) : dmx' = r.d
  /\ Goto(c, "release")
  /\ Lock(c)
  /\ UNCHANGED <<held, flts>>

PesRelease(c) ==
  /\ pc[c] = "release"
  /\ \E r \in release_ts_feed(dmx, held[c]) : dmx' = r.d
  /\ Goto(c, "idle")
  /\ held' = [held EXCEPT ![c] = NoFeed]
  /\ Unlock(c)
  /\ UNCHANGED flts

-----------------------------------------------------------------------------
(* dvb_net_feed_start *)

NetAllocate(c) ==
  /\ pc[c] = "idle"
  /\ \E r \in allocate_section_feed(dmx) :
       /\ dmx' = r.d
       /\ IF r.ret = "ok"
          THEN Goto(c, "set") /\ held' = [held EXCEPT ![c] = r.slot]
          ELSE UNCHANGED <<pc, held>>
  /\ UNCHANGED <<flts, mutex>>

NetSet(c) ==
  /\ pc[c] = "set"
  /\ \E pid \in Pids : \E r \in section_feed_set(dmx, held[c], pid, TRUE) :
       /\ dmx' = r.d
       /\ Goto(c, IF r.ret = "ok" THEN "filter" ELSE "release")
  /\ UNCHANGED <<held, flts, mutex>>

(* dvb_net_filter_set: a filter that cannot be had is skipped *)
NetFilter(c) ==
  /\ pc[c] = "filter"
  /\ \/ \E r \in section_feed_allocate_filter(dmx, held[c]) :
          /\ Cardinality(flts[c]) < NetFilters
          /\ dmx' = r.d
          /\ flts' = IF r.ret = "ok" THEN [flts EXCEPT ![c] = @ \cup {r.slot}]
                     ELSE flts
          /\ UNCHANGED pc
     \/ Goto(c, "start") /\ UNCHANGED <<dmx, flts>>
  /\ UNCHANGED <<held, mutex>>

NetStart(c) ==
  /\ pc[c] = "start"
  /\ \E r \in section_feed_start_filtering(dmx, held[c]) : dmx' = r.d
  /\ Goto(c, "run")
  /\ UNCHANGED <<held, flts, mutex>>

(* dvb_net_feed_stop *)
NetStopForgotten(c) ==  \* mutant: filters are dropped from a running feed
  pc[c] = "run" /\ Goto(c, "drop") /\ UNCHANGED <<dmx, held, flts, mutex>>

NetStop(c) ==
  /\ pc[c] = "run"
  /\ IF dmx.feed[held[c]].filtering
     THEN \E r \in section_feed_stop_filtering(dmx, held[c]) : dmx' = r.d
     ELSE UNCHANGED dmx
  /\ Goto(c, "drop")
  /\ UNCHANGED <<held, flts, mutex>>

NetDropFilter(c) ==
  /\ pc[c] = "drop"
  /\ \E i \in flts[c] :
     \E r \in section_feed_release_filter(dmx, held[c], i) :
       /\ dmx' = r.d
       /\ flts' = [flts EXCEPT ![c] = @ \ {i}]
       /\ IF r.ret = "DEADLOCK" THEN Goto(c, "hung") ELSE UNCHANGED pc
  /\ UNCHANGED <<held, mutex>>

NetRelease(c) ==
  /\ \/ pc[c] = "drop" /\ flts[c] = {}
     \/ pc[c] = "release"
  /\ \E r \in release_section_feed(dmx, held[c]) : dmx' = r.d
  /\ Goto(c, "idle")
  /\ held' = [held EXCEPT ![c] = NoFeed]
  /\ UNCHANGED <<flts, mutex>>

-----------------------------------------------------------------------------
PesStep(c) == \/ PesAllocate(c) \/ PesSet(c) \/ PesStart(c)
              \/ PesStop(c) \/ PesRelease(c)
NetStep(c) == \/ NetAllocate(c) \/ NetSet(c) \/ NetFilter(c) \/ NetStart(c)
              \/ NetStop(c) \/ NetDropFilter(c) \/ NetRelease(c)

Next == (\E c \in PesClients : PesStep(c)) \/ (\E c \in NetClients : NetStep(c))

Spec == Init /\ [][Next]_vars

-----------------------------------------------------------------------------
(* The state is what the structs of dvb_demux.h can hold. *)
TypeOK ==
  /\ dmx \in Demux
  /\ pc \in [Clients -> Phases]
  /\ held \in [Clients -> Feeds \cup {NoFeed}]
  /\ flts \in [Clients -> SUBSET Filters]
  /\ mutex \in PesClients \cup {NoClient}

(* A decoder stream type is never reserved by a feed that has been given    *)
(* back or now carries something else: whatever releases, refusals and      *)
(* slot reuse happened, pesfilter[p] is free or names a live feed whose     *)
(* type is p.  Otherwise nobody could ever use that decoder again.          *)
NoDanglingPesFilter ==
  \A p \in PesTypes : LET f == dmx.pesfilter[p] IN f # NoFeed =>
    /\ dmx.feed[f].state # "FREE"
    /\ dmx.feed[f].decoder /\ dmx.feed[f].pes = p

(* Two clients never hold the same feed slot, and a slot a client holds is  *)
(* not handed out again.                                                    *)
FeedsNotShared ==
  \A c \in Clients : held[c] # NoFeed =>
    /\ dmx.feed[held[c]].state # "FREE"
    /\ \A e \in Clients \ {c} : held[e] # held[c]

(* The inductive invariant behind the two above: a client points at a feed  *)
(* exactly while it is in the middle of something, and a reservation never  *)
(* belongs to a feed whose holder has not configured it.                    *)
HeldByPhase ==
  \A c \in Clients : pc[c] = "idle" <=> held[c] = NoFeed
ReservedByConfigured ==
  \A p \in PesTypes, c \in Clients :
    held[c] # NoFeed /\ dmx.pesfilter[p] = held[c]
      => c \in PesClients /\ pc[c] # "set"
IInv == /\ TypeOK /\ NoDanglingPesFilter /\ FeedsNotShared
        /\ HeldByPhase /\ ReservedByConfigured

(* What the phases of a client say of its feed while no signal interrupts   *)
(* it: only in "run" may the feed filter, and the filters a net client      *)
(* remembers are the ones its feed has.                                     *)
PesPhase(c) == pc[c] # "idle" =>
  LET f == dmx.feed[held[c]] IN
  /\ f.chain # {}
  /\ pc[c] # "run" => ~f.filtering
  /\ pc[c] \in {"start", "run"} => held[c] \in dmx.list
NetPhase(c) ==
  /\ pc[c] \notin {"release", "hung"}
  /\ IF pc[c] = "idle" THEN flts[c] = {} ELSE
     LET f == dmx.feed[held[c]] IN
     /\ f.chain = flts[c]
     /\ pc[c] # "run" => ~f.filtering
     /\ pc[c] \in {"filter", "start", "run"} => held[c] \in dmx.list
(* The inductive invariant without signals *)
QuietInv == /\ IInv /\ Sound(dmx)
            /\ \A c \in PesClients : pc[c] # "hung" /\ PesPhase(c)
            /\ \A c \in NetClients : NetPhase(c)

(* Filter slots are accounted for: one that is in use hangs off exactly the *)
(* live feed it names, so it can be found and given back.             *)
FilterSlotsAccounted ==
  \A i \in Filters : dmx.filter[i].state # "FREE" =>
    LET f == dmx.filter[i].feed IN
    /\ f # NoFeed /\ dmx.feed[f].state # "FREE"
    /\ \A g \in Feeds : dmx.feed[g].state # "FREE" =>
         (i \in dmx.feed[g].chain <=> g = f)

(* The driver never runs a feed whose slot has been given back, and a feed  *)
(* it runs is on feed_list, where the packet path finds it, with at least   *)
(* one filter in use (the driver dereferences feed->filter).                *)
HardwareRunsLiveFeeds ==
  \A f \in dmx.hw :
    /\ dmx.feed[f].state = "GO" /\ dmx.feed[f].filtering
    /\ f \in dmx.list
    /\ dmx.feed[f].chain # {}
    /\ \A i \in dmx.feed[f].chain : dmx.filter[i].state = "READY"

(* No client sleeps on demux->mutex while holding it (release_filter of a   *)
(* feed that still filters).                                                *)
NoSelfDeadlock == \A c \in Clients : pc[c] # "hung"

(* At most one running feed writes to a decoder: a running decoder feed     *)
(* holds the reservation of its stream type.                                *)
DecoderExclusive ==
  \A f \in Feeds : dmx.feed[f].state = "GO" /\ dmx.feed[f].type = "TS"
                   /\ dmx.feed[f].decoder => dmx.pesfilter[dmx.feed[f].pes] = f
=============================================================================
