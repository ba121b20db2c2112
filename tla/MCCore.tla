------------------------------- MODULE MCCore -------------------------------
(***************************************************************************)
(* The small instances of the common part, dvb-core and the demodulators:  *)
(* component names the one that runs, the others stay as they are.  They   *)
(* share no variable, so one run of TLC looks at each of them by itself.   *)
(***************************************************************************)
EXTENDS DvbNet

VARIABLES
  component,  \* the one of the systems below that runs
  data, pread, pwrite, error, reader, seq, expect, wrong,
  ring, sectionReadsError, todo, secheader, sectionReadsReader, astray, dvr,
  dvrReadsRing, dvrReadsError, dvrReadsTodo, dvrReadsSecheader, dvrReadsReader,
  dvrReadsAstray, dvrReadsDvr,
  ringData, ringPread, ringPwrite, ringReader, writer, wrote, ringExpect, wrapped,
  ringWrong,
  long, tsbuf, pos, lost, clean, bad,
  feed, mux, whole, sectionsLost, seen,
  events, eventw, eventr, overflow, sem, evsem, pc, wp, next, got, torn, signals,
  list, hooks, callback, frequency, bending, tuned, bent,
  drivers, buses, clients, refs, nodes, chosen, files, serial, shared, devicesAstray,
  driver, chip, power, gate, demodFresh, call, steps, asked, failed, answer, demodLost,
  locked, line, irq, queued, reading, status, garbled

(* The drivers of the demodulators, and requests that keep or change each    *)
(* of the fields; 0 is out of range.                                         *)
Chips == {"at76c651", "ves1820", "ves1893", "ves1x93", "tda80xx", "tda8044h", "sqc6100", "stv0297"}
Usual == [pll |-> 1, rate |-> 1, mode |-> 1, inversion |-> 1]
Requested == {[Usual EXCEPT !.pll = 2, !.rate = 2, !.mode = 2], [Usual EXCEPT !.pll = 0],
              [Usual EXCEPT !.mode = 0, !.pll = 2]}

Buffer == INSTANCE DmxBuffer WITH Size <- 3, MaxWrite <- 3, MaxCount <- 2, Wrap <- 7
bufferVars == <<data, pread, pwrite, error, reader, seq, expect, wrong>>
SectionReads == INSTANCE DmxReads WITH Lengths <- {1, 2}, Size <- 7, Counts <- {1, 2, 7},
    Files <- {}, error <- sectionReadsError, reader <- sectionReadsReader
sectionReadsVars == <<ring, sectionReadsError, todo, secheader, sectionReadsReader, astray,
    dvr>>
DvrReads == INSTANCE DmxReads WITH Lengths <- {}, Size <- 7, Counts <- {},
    Files <- {"f1", "f2"}, ring <- dvrReadsRing, error <- dvrReadsError,
    todo <- dvrReadsTodo, secheader <- dvrReadsSecheader, reader <- dvrReadsReader,
    astray <- dvrReadsAstray, dvr <- dvrReadsDvr
dvrReadsVars == <<dvrReadsRing, dvrReadsError, dvrReadsTodo, dvrReadsSecheader,
    dvrReadsReader, dvrReadsAstray, dvrReadsDvr>>
Ring == INSTANCE RingBuffer WITH Size <- 4, Lengths <- {1, 3}, Wrap <- 9, data <- ringData,
    pread <- ringPread, pwrite <- ringPwrite, reader <- ringReader, expect <- ringExpect,
    wrong <- ringWrong
ringVars == <<ringData, ringPread, ringPwrite, ringReader, writer, wrote, ringExpect,
    wrapped, ringWrong>>
Packets == INSTANCE PacketStream WITH Length <- 3, MaxPiece <- 8
packetsVars == <<long, tsbuf, pos, lost, clean, bad>>
Sections == INSTANCE SectionAssembly WITH Payload <- 8, MaxSec <- 13, Lens <- {4, 13},
    Ids <- 3, CcMod <- 2, CheckCrc <- TRUE, MaxLost <- 1, lost <- sectionsLost
sectionsVars == <<feed, mux, whole, sectionsLost, seen>>
Events == INSTANCE FrontendEvents WITH MaxEvent <- 2, Numbers <- 3,
    Adders <- {"thread", "setter"}, Readers <- {"reader"}, Signals <- 1, Reopened <- TRUE
eventsVars == <<events, eventw, eventr, overflow, sem, evsem, pc, wp, next, got, torn,
    signals>>
Group == INSTANCE FrontendGroup WITH Frontends <- {"f1", "f2"}, Callbacks <- {"c1", "c2"},
    NoCallback <- "none", Frequencies <- {0, 2, 5}, Step <- 3, MaxHooks <- 2
groupVars == <<list, hooks, callback, frequency, bending, tuned, bent>>
Devices == INSTANCE DvbDevices WITH Adapters <- {"a1", "a2"}, Drivers <- {"d1", "d2"},
    Others <- {"demux"}, AdapterOf <- [o \in {"demux"} |-> "a1"], MaxIds <- 2, Readers <- 1,
    MaxFiles <- 1, MaxStates <- 3, astray <- devicesAstray
devicesVars == <<drivers, buses, clients, refs, nodes, chosen, files, serial, shared,
    devicesAstray>>
Demod == INSTANCE Demodulators WITH Drivers <- Chips, Requests <- Requested,
    fresh <- demodFresh, lost <- demodLost
demodVars == <<driver, chip, power, gate, demodFresh, call, steps, asked, failed, answer,
    demodLost, locked, line, irq, queued, reading, status, garbled>>

ASSUME PartsAssumption ==
  /\ Buffer!BufferAssumption
  /\ SectionReads!ReadsAssumption
  /\ DvrReads!ReadsAssumption
  /\ Ring!RingAssumption
  /\ Packets!StreamAssumption
  /\ Sections!AssemblyAssumption
  /\ Events!EventsAssumption
  /\ Group!GroupAssumption
  /\ Devices!DevicesAssumption
  /\ Demod!DemodulatorsAssumption

-----------------------------------------------------------------------------
Components == {"net", "buffer", "sectionReads", "dvr", "ring", "packets", "sections",
    "events", "group", "devices", "demodCalls", "demodReceives"}

\* What does not run stays as it is in one of its initial states.
AnyInit ==
  /\ component \in Components
  /\ Init
  /\ Buffer!Init
  /\ SectionReads!Init
  /\ DvrReads!Init
  /\ Ring!Init
  /\ Packets!Init
  /\ component # "packets" => ~long /\ pos = 0
  /\ Sections!Init
  /\ Events!Init
  /\ Group!Init
  /\ Devices!Init
  /\ Demod!Init
  /\ component \notin {"demodCalls", "demodReceives"} => driver = "tda80xx"

Main == component = "net" /\ Next
    /\ UNCHANGED <<component, bufferVars, sectionReadsVars, dvrReadsVars, ringVars,
                    packetsVars, sectionsVars, eventsVars, groupVars, devicesVars,
                    demodVars>>
RunBuffer == component = "buffer" /\ Buffer!Next
    /\ UNCHANGED <<component, vars, sectionReadsVars, dvrReadsVars, ringVars,
                    packetsVars, sectionsVars, eventsVars, groupVars, devicesVars,
                    demodVars>>
RunSectionReads == component = "sectionReads" /\ SectionReads!Next
    /\ UNCHANGED <<component, vars, bufferVars, dvrReadsVars, ringVars, packetsVars,
                    sectionsVars, eventsVars, groupVars, devicesVars, demodVars>>
RunDvr == component = "dvr" /\ DvrReads!Next
    /\ UNCHANGED <<component, vars, bufferVars, sectionReadsVars, ringVars, packetsVars,
                    sectionsVars, eventsVars, groupVars, devicesVars, demodVars>>
RunRing == component = "ring" /\ Ring!Next
    /\ UNCHANGED <<component, vars, bufferVars, sectionReadsVars, dvrReadsVars,
                    packetsVars, sectionsVars, eventsVars, groupVars, devicesVars,
                    demodVars>>
RunPackets == component = "packets" /\ Packets!Next
    /\ UNCHANGED <<component, vars, bufferVars, sectionReadsVars, dvrReadsVars,
                    ringVars, sectionsVars, eventsVars, groupVars, devicesVars,
                    demodVars>>
RunSections == component = "sections" /\ Sections!Next
    /\ UNCHANGED <<component, vars, bufferVars, sectionReadsVars, dvrReadsVars,
                    ringVars, packetsVars, eventsVars, groupVars, devicesVars,
                    demodVars>>
RunEvents == component = "events" /\ Events!Next
    /\ UNCHANGED <<component, vars, bufferVars, sectionReadsVars, dvrReadsVars,
                    ringVars, packetsVars, sectionsVars, groupVars, devicesVars,
                    demodVars>>
RunGroup == component = "group" /\ Group!Next
    /\ UNCHANGED <<component, vars, bufferVars, sectionReadsVars, dvrReadsVars,
                    ringVars, packetsVars, sectionsVars, eventsVars, devicesVars,
                    demodVars>>
RunDevices == component = "devices" /\ Devices!Next
    /\ UNCHANGED <<component, vars, bufferVars, sectionReadsVars, dvrReadsVars,
                    ringVars, packetsVars, sectionsVars, eventsVars, groupVars,
                    demodVars>>
RunDemodCalls == component = "demodCalls" /\ Demod!Calls
    /\ UNCHANGED <<component, vars, bufferVars, sectionReadsVars, dvrReadsVars,
                    ringVars, packetsVars, sectionsVars, eventsVars, groupVars,
                    devicesVars>>
RunDemodReceives == component = "demodReceives" /\ Demod!Receives
    /\ UNCHANGED <<component, vars, bufferVars, sectionReadsVars, dvrReadsVars,
                    ringVars, packetsVars, sectionsVars, eventsVars, groupVars,
                    devicesVars>>

AnyNext == Main \/ RunBuffer \/ RunSectionReads \/ RunDvr \/ RunRing \/ RunPackets
           \/ RunSections \/ RunEvents \/ RunGroup \/ RunDevices
           \/ RunDemodCalls \/ RunDemodReceives
anyVars == <<component, vars, bufferVars, sectionReadsVars, dvrReadsVars, ringVars,
                    packetsVars, sectionsVars, eventsVars, groupVars, devicesVars,
                    demodVars>>

AnySpec == AnyInit /\ [][AnyNext]_anyVars

-----------------------------------------------------------------------------
(* Whoever reads a filter, the DVR device or a ring buffer gets every byte   *)
(* once, in order and from the place read_sec takes it for, up to an error   *)
(* that is reported to him; a ring buffer only until a call is cut in two at *)
(* its end.  However a stream is cut into packets and pieces, no section and *)
(* no packet gets lost in the software, and after a loss the packets are     *)
(* found again.                                                              *)
StreamKept ==
  /\ Buffer!TypeOK /\ Buffer!ReadsInOrder /\ Buffer!RingHoldsUnread
  /\ SectionReads!TypeOK /\ SectionReads!InStep
  /\ Ring!InOrderUntilWrap
  /\ Sections!TypeOK /\ Sections!EverySectionDelivered
  /\ Packets!TypeOK /\ Packets!PacketsKept /\ Packets!Resyncs

(* In whichever order drivers, buses, modules, hooks and files come and go:  *)
(* a minor names one device, the module of a driver is held once for each    *)
(* bus it is on, a driver is detached with the state it made for the bus, no *)
(* frontend calls a hook that is gone, and the DVR device gives the demux    *)
(* its frontend back.                                                        *)
RegistrationsHold ==
  /\ Devices!TypeOK /\ Group!TypeOK /\ DvrReads!TypeOK /\ TypeOK
  /\ Devices!MinorsUnique /\ Devices!ModulesHeld /\ Devices!DetachedWithOwnState
  /\ Group!NoDanglingHook
  /\ DvrReads!DvrLeavesNothing

(* A frontend that reports success has tuner and demodulator set to what was *)
(* asked, the way to the tuner is closed between calls, and two frontends    *)
(* that are through with bending their frequencies keep apart.               *)
TunedAsAsked ==
  /\ Demod!TypeOK /\ Demod!AnsweredIsTuned /\ Demod!GateClosed
  /\ Group!KeepApart

(* fe->sem stays a mutex until a signal hits FE_GET_EVENT.                   *)
SemIsMutex == Events!TypeOK /\ Events!SemIsMutex

(* The ring of frontend events implements a bounded queue.                   *)
ImplementsQueue == Events!ImplementsQueue
=============================================================================
