------------------------------- MODULE MCLive -------------------------------
(***************************************************************************)
(* What must happen in the end: small instances of the systems in which a  *)
(* process waits for another, an interrupt or the hardware.  component     *)
(* names the one that runs, the others stay as they are.  Callers, queues  *)
(* and readers of one kind are alike, so one of them is watched.           *)
(***************************************************************************)
EXTENDS FrontendThread

VARIABLES
  component,  \* the one of the systems below that runs
  data, pread, pwrite, error, reader, seq, expect, wrong,
  feed, mux, whole, lost, seen,
  events, eventw, eventr, overflow, eventsSem, evsem, pc, wp, next, got, torn, signals,
  caps, lnb_drift, lost_sync_count, status, tuned, clock, air, answered, sets,
  size, listenersSeen, handle, knows, ring, place, fresh, stale, raced,
  demodDriver, chip, power, gate, demodFresh, call, steps, asked, failed, answer, demodLost,
  locked, line, irq, queued, reading, demodStatus, garbled,
  req, fs, at, i, j, merged, hw, forgot,
  raised, unmasked, handler, upq, interruptsIrq, proc, unseen,
  ringChip, ringHw, read_pos, write_pos, ringOverflow, qim, bh, unread, ringFresh, late,
  resynced,
  playbackWritepos, playbackChip, writer, unplayed,
  commandStatus, mailbox, done, commandChip, commandIrq, commandCall, dropped,
  holder, i2cPc, msgs, tx, rx, on, i2cNext, result, early, acked, reg, i2cWriting, new,
  i2cReading, i2cGot, shown, truth, clean, i2cLost,
  type, shadow, saved, scartChip, scartPc, buffer, choice, crossed, missed, mixed, pins,
  state, timer, task, scartReg, scartLost,
  fifo, ctrl, fetched, taken, idePc, op, ideBuffer, sent, problem, slow,
  format, free, busy, soundBuffer, soundChip, soundWriter, played, capture, pig,
  soundReader, meddled,
  cam_busy, moduleIrq, moduleTask, moduleWriter, rptr, wptr, moduleUnread, moduleAnswered,
  tight, at_end,
  remote, used, presses, loads, frontBusy, code, frontIrq, frontTask, frontStatus, todo,
  down, last, toggle, frontTimer, oldCode, fn, half, moved, mid, sec, lnb, secStatus,
  frontPc, message, polls, frontMissed, frontLost, wakeup, trigger, woken, board

Stereo == [wide |-> TRUE, stereo |-> TRUE]

(* All pairs of filters of three bytes with one bit.                         *)
OneBit == {b \in [value : SUBSET {1}, mask : SUBSET {1}, mode : SUBSET {1}] :
             b.value \subseteq b.mask /\ b.mode \subseteq b.mask}
wanted(t) == [value |-> [k \in 0 .. 2 |-> t[k + 1].value], mask |-> [k \in 0 .. 2 |-> t[k + 1].mask],
              mode |-> [k \in 0 .. 2 |-> t[k + 1].mode]]
FilterLists == LET one == {wanted(t) : t \in OneBit \X OneBit \X {[value |-> {}, mask |-> {}, mode |-> {}]}}
               IN {<<f, g, wanted(<<b, b, b>>)>> : f, g \in one, b \in OneBit}
SomeFilters == CHOOSE list \in FilterLists : TRUE

Buffer == INSTANCE DmxBuffer WITH Size <- 2, MaxWrite <- 2, MaxCount <- 2, Wrap <- 5
bufferVars == <<data, pread, pwrite, error, reader, seq, expect, wrong>>
Sections == INSTANCE SectionAssembly WITH Payload <- 8, MaxSec <- 13, Lens <- {4, 13},
    Ids <- 3, CcMod <- 2, CheckCrc <- TRUE, MaxLost <- 1
sectionsVars == <<feed, mux, whole, lost, seen>>
Events == INSTANCE FrontendEvents WITH MaxEvent <- 3, Numbers <- 1,
    Adders <- {"thread", "setter"}, Readers <- {"reader"}, Signals <- 1, Reopened <- TRUE,
    sem <- eventsSem
eventsVars == <<events, eventw, eventr, overflow, eventsSem, evsem, pc, wp, next, got, torn,
    signals>>
Tuning == INSTANCE FrontendTuning WITH
    Capabilities <- {{}, {"clean"}, {"clean", "recover"}}, Period <- 8, Patience <- 3,
    Reach <- 3, MaxSets <- 1
tuningVars == <<caps, lnb_drift, lost_sync_count, status, tuned, clock, air, answered,
    sets>>
Listeners == INSTANCE EventQueues WITH Handles <- {"h1"}, BufferSize <- 2, Readers <- {},
    MaxVideo <- 2, Sizes <- {"pal", "ntsc"}, seen <- listenersSeen
listenersVars == <<size, listenersSeen, handle, knows, ring, place, fresh, stale, raced>>
Demod == INSTANCE Demodulators WITH Drivers <- {"tda80xx", "ves1x93"},
    Requests <- {[pll |-> 1, rate |-> 1, mode |-> 1, inversion |-> 1]},
    driver <- demodDriver, fresh <- demodFresh, lost <- demodLost, status <- demodStatus
demodVars == <<demodDriver, chip, power, gate, demodFresh, call, steps, asked, failed,
    answer, demodLost, locked, line, irq, queued, reading, demodStatus, garbled>>
Ucode == INSTANCE UcodeFilters WITH Bits <- {1}, LastByte <- 2, VersionByte <- 2,
    MaxFilters <- 3, Requests <- FilterLists
ucodeVars == <<req, fs, at, i, j, merged, hw, forgot>>
Interrupts == INSTANCE GtInterrupts WITH DmxQueues <- {"vq", "tq"}, Upper <- {"tq"},
    Window <- [q \in {"vq", "tq"} |-> 1], irq <- interruptsIrq
interruptsVars == <<raised, unmasked, handler, upq, interruptsIrq, proc, unseen>>
Ring == INSTANCE GtRing WITH Size <- 8, Latency <- 4, Chunks <- {2, 4}, chip <- ringChip,
    hw <- ringHw, overflow <- ringOverflow, fresh <- ringFresh
ringVars == <<ringChip, ringHw, read_pos, write_pos, ringOverflow, qim, bh, unread,
    ringFresh, late, resynced>>
Playback == INSTANCE GtPlayback WITH Size <- 6, Counts <- {1, 5, 13},
    write_pos <- playbackWritepos, chip <- playbackChip
playbackVars == <<playbackWritepos, playbackChip, writer, unplayed>>
Command == INSTANCE AvCommand WITH Callers <- {"feed", "watchdog"}, status <- commandStatus,
    chip <- commandChip, irq <- commandIrq, call <- commandCall
commandVars == <<commandStatus, mailbox, done, commandChip, commandIrq, commandCall,
    dropped>>
I2c == INSTANCE I2cBus WITH Callers <- {"c1", "c2"},
    Transfers <- {<<"send">>, <<"recv">>, <<"send", "recv">>}, MaxBd <- 4, Times <- {},
    MaxLost <- 1, pc <- i2cPc, next <- i2cNext, writing <- i2cWriting,
    reading <- i2cReading, got <- i2cGot, lost <- i2cLost
i2cVars == <<holder, i2cPc, msgs, tx, rx, on, i2cNext, result, early, acked, reg,
    i2cWriting, new, i2cReading, i2cGot, shown, truth, clean, i2cLost>>
Scart == INSTANCE ScartSwitch WITH Chips <- {"cxa2092", "stv6412"}, Fields <- {},
    Values <- {}, Volumes <- {}, Callers <- {}, Pins <- {0, 2}, MaxLost <- 1,
    chip <- scartChip, pc <- scartPc, reg <- scartReg, lost <- scartLost
scartVars == <<type, shadow, saved, scartChip, scartPc, buffer, choice, crossed, missed,
    mixed, pins, state, timer, task, scartReg, scartLost>>
Ide == INSTANCE IdeChannel WITH Counts <- {1, 3, 4, 6, 8}, MaxWords <- 8, Wrap <- 32,
    MaxSlow <- 1, pc <- idePc, buffer <- ideBuffer
ideVars == <<fifo, ctrl, fetched, taken, idePc, op, ideBuffer, sent, problem, slow>>
Sound == INSTANCE SoundPicture WITH BufferCount <- 2, MaxSamples <- 3, Formats <- {Stereo},
    Offers <- {8}, MaxWrites <- 3, Screen <- <<16, 8>>, Inputs <- {<<16, 8>>},
    Outputs <- {<<8, 4>>}, buffer <- soundBuffer, chip <- soundChip, writer <- soundWriter,
    reader <- soundReader
soundVars == <<format, free, busy, soundBuffer, soundChip, soundWriter, played, capture,
    pig, soundReader, meddled>>
Module == INSTANCE Cam WITH Size <- 4, Lengths <- {3}, Counts <- {1, 3}, Writers <- {"w1"},
    MaxBusy <- 2, irq <- moduleIrq, task <- moduleTask, writer <- moduleWriter,
    unread <- moduleUnread, answered <- moduleAnswered
moduleVars == <<cam_busy, moduleIrq, moduleTask, moduleWriter, rptr, wptr, moduleUnread,
    moduleAnswered, tight, at_end>>
Front == INSTANCE FrontProcessor WITH Keys <- {"up"}, Directions <- {1}, Uses <- {{0, 4}},
    MaxWaiting <- 1, MaxPresses <- 2, MaxLoads <- 1, Wires <- {"power"}, Callers <- {},
    MaxLost <- 0, busy <- frontBusy, irq <- frontIrq, task <- frontTask,
    status <- frontStatus, timer <- frontTimer, pc <- frontPc, missed <- frontMissed,
    lost <- frontLost
frontVars == <<remote, used, presses, loads, frontBusy, code, frontIrq, frontTask,
    frontStatus, todo, down, last, toggle, frontTimer, oldCode, fn, half, moved, mid, sec,
    lnb, secStatus, frontPc, message, polls, frontMissed, frontLost, wakeup, trigger, woken,
    board>>

ASSUME PartsAssumption ==
  /\ Buffer!BufferAssumption
  /\ Sections!AssemblyAssumption
  /\ Events!EventsAssumption
  /\ Tuning!TuningAssumption
  /\ Listeners!EventAssumption
  /\ Demod!DemodulatorsAssumption
  /\ Ucode!FilterAssumption
  /\ Ring!RingAssumption
  /\ Playback!PlaybackAssumption
  /\ Command!CallersAssumption
  /\ I2c!I2cBusAssumption
  /\ I2c!RateNotFound
  /\ Scart!ScartSwitchAssumption
  /\ Ide!IdeChannelAssumption
  /\ Sound!SoundPictureAssumption
  /\ Front!FrontProcessorAssumption

-----------------------------------------------------------------------------
Components == {"thread", "buffer", "sections", "events", "tuning", "queues", "receives",
    "ucode", "upperQueue", "lowerQueue", "ring", "playback", "command", "bus", "watch",
    "ide", "sound", "picture", "cam", "inputs"}

\* What does not run stays as it is in one of its initial states.
AnyInit ==
  /\ component \in Components
  /\ Init
  /\ component # "thread" => can_recover
  /\ Buffer!Init
  /\ Sections!Init
  /\ Events!Init
  /\ Tuning!Init
  /\ component # "tuning" => caps = {} /\ air = [at |-> 0, on |-> TRUE]
  /\ Listeners!Init
  /\ component # "queues" => size = "pal"
  /\ Demod!Init
  /\ component # "receives" => demodDriver = "tda80xx"
  /\ Ucode!Init
  /\ component # "ucode" => req = SomeFilters
  /\ Interrupts!Init
  /\ Ring!Init
  /\ Playback!Init
  /\ Command!Init
  /\ I2c!Init
  /\ Scart!Init
  /\ component # "watch" => type = "stv6412" /\ pins = [s \in {"tv", "vcr"} |-> 0] /\ state = pins
  /\ Ide!Init
  /\ component # "ide" => fifo = <<>>
  /\ Sound!Init
  /\ Module!Init
  /\ Front!Init
  /\ component # "inputs" => remote = "old"
  /\ component \notin {"inputs", "thread"} => mid = "nokia" /\ trigger = "user"

OnlyMain == UNCHANGED <<component, bufferVars, sectionsVars, eventsVars, tuningVars,
    listenersVars, demodVars, ucodeVars, interruptsVars, ringVars, playbackVars,
    commandVars, i2cVars, scartVars, ideVars, soundVars, moduleVars, frontVars>>
Main == component = "thread" /\ Next /\ OnlyMain
OnlyBuffer == UNCHANGED <<component, vars, sectionsVars, eventsVars, tuningVars,
    listenersVars, demodVars, ucodeVars, interruptsVars, ringVars, playbackVars,
    commandVars, i2cVars, scartVars, ideVars, soundVars, moduleVars, frontVars>>
RunBuffer == component = "buffer" /\ Buffer!Next /\ OnlyBuffer
OnlySections == UNCHANGED <<component, vars, bufferVars, eventsVars, tuningVars,
    listenersVars, demodVars, ucodeVars, interruptsVars, ringVars, playbackVars,
    commandVars, i2cVars, scartVars, ideVars, soundVars, moduleVars, frontVars>>
RunSections == component = "sections" /\ Sections!Next /\ OnlySections
OnlyEvents == UNCHANGED <<component, vars, bufferVars, sectionsVars, tuningVars,
    listenersVars, demodVars, ucodeVars, interruptsVars, ringVars, playbackVars,
    commandVars, i2cVars, scartVars, ideVars, soundVars, moduleVars, frontVars>>
RunEvents == component = "events" /\ Events!Next /\ OnlyEvents
OnlyTuning == UNCHANGED <<component, vars, bufferVars, sectionsVars, eventsVars,
    listenersVars, demodVars, ucodeVars, interruptsVars, ringVars, playbackVars,
    commandVars, i2cVars, scartVars, ideVars, soundVars, moduleVars, frontVars>>
RunTuning == component = "tuning" /\ Tuning!Next /\ OnlyTuning
OnlyListeners == UNCHANGED <<component, vars, bufferVars, sectionsVars, eventsVars,
    tuningVars, demodVars, ucodeVars, interruptsVars, ringVars, playbackVars, commandVars,
    i2cVars, scartVars, ideVars, soundVars, moduleVars, frontVars>>
RunQueues == component = "queues" /\ Listeners!Next /\ OnlyListeners
OnlyDemod == UNCHANGED <<component, vars, bufferVars, sectionsVars, eventsVars, tuningVars,
    listenersVars, ucodeVars, interruptsVars, ringVars, playbackVars, commandVars, i2cVars,
    scartVars, ideVars, soundVars, moduleVars, frontVars>>
RunReceives == component = "receives" /\ Demod!Receives /\ OnlyDemod
OnlyUcode == UNCHANGED <<component, vars, bufferVars, sectionsVars, eventsVars, tuningVars,
    listenersVars, demodVars, interruptsVars, ringVars, playbackVars, commandVars, i2cVars,
    scartVars, ideVars, soundVars, moduleVars, frontVars>>
RunUcode == component = "ucode" /\ Ucode!Next /\ OnlyUcode
OnlyInterrupts == UNCHANGED <<component, vars, bufferVars, sectionsVars, eventsVars,
    tuningVars, listenersVars, demodVars, ucodeVars, ringVars, playbackVars, commandVars,
    i2cVars, scartVars, ideVars, soundVars, moduleVars, frontVars>>
RunUpperQueue == component = "upperQueue" /\ Interrupts!Next /\ OnlyInterrupts
RunLowerQueue == component = "lowerQueue" /\ Interrupts!Next /\ OnlyInterrupts
OnlyRing == UNCHANGED <<component, vars, bufferVars, sectionsVars, eventsVars, tuningVars,
    listenersVars, demodVars, ucodeVars, interruptsVars, playbackVars, commandVars, i2cVars,
    scartVars, ideVars, soundVars, moduleVars, frontVars>>
RunRing == component = "ring" /\ Ring!Next /\ OnlyRing
OnlyPlayback == UNCHANGED <<component, vars, bufferVars, sectionsVars, eventsVars,
    tuningVars, listenersVars, demodVars, ucodeVars, interruptsVars, ringVars, commandVars,
    i2cVars, scartVars, ideVars, soundVars, moduleVars, frontVars>>
RunPlayback == component = "playback" /\ Playback!Next /\ OnlyPlayback
OnlyCommand == UNCHANGED <<component, vars, bufferVars, sectionsVars, eventsVars,
    tuningVars, listenersVars, demodVars, ucodeVars, interruptsVars, ringVars, playbackVars,
    i2cVars, scartVars, ideVars, soundVars, moduleVars, frontVars>>
RunCommand == component = "command" /\ Command!Next /\ OnlyCommand
OnlyI2c == UNCHANGED <<component, vars, bufferVars, sectionsVars, eventsVars, tuningVars,
    listenersVars, demodVars, ucodeVars, interruptsVars, ringVars, playbackVars,
    commandVars, scartVars, ideVars, soundVars, moduleVars, frontVars>>
RunBus == component = "bus" /\ I2c!Bus /\ OnlyI2c
OnlyScart == UNCHANGED <<component, vars, bufferVars, sectionsVars, eventsVars, tuningVars,
    listenersVars, demodVars, ucodeVars, interruptsVars, ringVars, playbackVars,
    commandVars, i2cVars, ideVars, soundVars, moduleVars, frontVars>>
RunWatch == component = "watch" /\ Scart!Watch /\ OnlyScart
OnlyIde == UNCHANGED <<component, vars, bufferVars, sectionsVars, eventsVars, tuningVars,
    listenersVars, demodVars, ucodeVars, interruptsVars, ringVars, playbackVars,
    commandVars, i2cVars, scartVars, soundVars, moduleVars, frontVars>>
RunIde == component = "ide" /\ Ide!Next /\ OnlyIde
OnlySound == UNCHANGED <<component, vars, bufferVars, sectionsVars, eventsVars, tuningVars,
    listenersVars, demodVars, ucodeVars, interruptsVars, ringVars, playbackVars,
    commandVars, i2cVars, scartVars, ideVars, moduleVars, frontVars>>
RunSound == component = "sound" /\ Sound!SoundNext /\ OnlySound
RunPicture == component = "picture" /\ Sound!PictureNext /\ OnlySound
OnlyModule == UNCHANGED <<component, vars, bufferVars, sectionsVars, eventsVars, tuningVars,
    listenersVars, demodVars, ucodeVars, interruptsVars, ringVars, playbackVars,
    commandVars, i2cVars, scartVars, ideVars, soundVars, frontVars>>
RunCam == component = "cam" /\ Module!Next /\ OnlyModule
OnlyFront == UNCHANGED <<component, vars, bufferVars, sectionsVars, eventsVars, tuningVars,
    listenersVars, demodVars, ucodeVars, interruptsVars, ringVars, playbackVars,
    commandVars, i2cVars, scartVars, ideVars, soundVars, moduleVars>>
RunInputs == component = "inputs" /\ Front!Inputs /\ OnlyFront

AnyNext == Main \/ RunBuffer \/ RunSections \/ RunEvents \/ RunTuning \/ RunQueues
           \/ RunReceives \/ RunUcode \/ RunUpperQueue \/ RunLowerQueue \/ RunRing
           \/ RunPlayback \/ RunCommand \/ RunBus \/ RunWatch \/ RunIde \/ RunSound
           \/ RunPicture \/ RunCam \/ RunInputs
anyVars == <<component, vars, bufferVars, sectionsVars, eventsVars, tuningVars,
              listenersVars, demodVars, ucodeVars, interruptsVars, ringVars, playbackVars,
              commandVars, i2cVars, scartVars, ideVars, soundVars, moduleVars, frontVars>>

(* What goes on by itself: the process or thread that is looked at ...       *)
Runs ==
  \/ component = "thread" /\ Tuner /\ OnlyMain
  \/ component = "buffer" /\ Buffer!Reader /\ OnlyBuffer
  \/ component = "sections" /\ Sections!Send /\ OnlySections
  \/ /\ component = "events" /\ OnlyEvents
     /\ \/ Events!ReportLoss("reader") \/ Events!FindNothing("reader") \/ Events!FindEvent("reader")
        \/ Events!Wake("reader") \/ Events!Take("reader")
  \/ component = "tuning" /\ Tuning!Look /\ OnlyTuning
  \/ /\ component = "queues" /\ OnlyListeners
     /\ Listeners!TakeEvent("h1") \/ Listeners!FallAsleep("h1")
  \/ component = "receives" /\ (Demod!ReadStatus \/ Demod!ReadNothing) /\ OnlyDemod
  \/ component = "ucode" /\ Ucode!Next /\ OnlyUcode
  \/ component \in {"upperQueue", "lowerQueue"} /\ Interrupts!Irq /\ OnlyInterrupts
  \/ /\ component = "ring" /\ OnlyRing
     /\ Ring!BhStart \/ Ring!BhOverflow \/ Ring!BhSkip \/ Ring!BhCallback \/ Ring!BhEnd
  \/ component = "playback" /\ (Playback!Piece \/ Playback!Put \/ Playback!Finish) /\ OnlyPlayback
  \/ component = "command" /\ Command!Caller("feed") /\ OnlyCommand
  \/ component = "bus" /\ (I2c!SleepEnds("c1") \/ I2c!Finish("c1")) /\ OnlyI2c
  \/ component = "watch" /\ Scart!avs_event_task /\ OnlyScart
  \/ component = "ide" /\ Ide!Going /\ OnlyIde
  \/ /\ component = "sound" /\ OnlySound
     /\ \/ Sound!Take \/ Sound!Copy \/ Sound!LookAtRegister \/ Sound!Load \/ Sound!Return
  \/ component = "picture" /\ Sound!ReadEnds /\ OnlySound
  \/ /\ component = "cam" /\ OnlyModule
     /\ \/ Module!TaskEnd \/ Module!TaskSent
        \/ Module!ReceiveFails \/ Module!ReceiveCaid \/ Module!ReceiveMessage(3)
  \/ /\ component = "inputs" /\ OnlyFront
     /\ Front!ReadStatus \/ Front!RoundEnd \/ Front!TaskEnd \/ Front!Handle
(* ... its partner, another process, the chip, or the stream ...             *)
Answers ==
  \/ component = "thread" /\ IoctlEnd("u1") /\ OnlyMain
  \/ component = "buffer" /\ (\E len \in 1 .. 2 : Buffer!Receive(len)) /\ OnlyBuffer
  \/ component = "events" /\ (Events!AddBegin("thread") \/ Events!AddEnd("thread")) /\ OnlyEvents
  \/ component = "tuning" /\ Tuning!TimeoutPasses /\ OnlyTuning
  \/ component = "queues" /\ Listeners!TimerLook /\ OnlyListeners
  \/ component = "receives" /\ Demod!Interrupt /\ OnlyDemod
  \/ component = "ring" /\ (\E load \in BOOLEAN : Ring!QueueIrq(load)) /\ OnlyRing
  \/ component = "playback" /\ Playback!Plays /\ OnlyPlayback
  \/ component = "command" /\ Command!Caller("watchdog") /\ OnlyCommand
  \/ component = "bus" /\ (I2c!SleepEnds("c2") \/ I2c!Finish("c2")) /\ OnlyI2c
  \/ component = "watch" /\ Scart!avs_event_func /\ OnlyScart
  \/ component = "ide" /\ Ide!Put /\ OnlyIde
  \/ component = "sound" /\ Sound!avia_gt_pcm_irq /\ OnlySound
  \/ component = "picture" /\ Sound!avia_gt_capture_interrupt /\ OnlySound
  \/ component = "cam" /\ Module!WriteEnd("w1") /\ OnlyModule
  \/ component = "inputs" /\ Front!dbox2_fp_rc_keyup /\ OnlyFront
(* ... and a third and a fourth one.                                         *)
GoesOn ==
  \/ component = "thread" /\ IoctlEnd("u2") /\ OnlyMain
  \/ component = "events" /\ (Events!AddBegin("setter") \/ Events!AddEnd("setter")) /\ OnlyEvents
  \/ component = "receives" /\ Demod!Acknowledge /\ OnlyDemod
  \/ component = "command" /\ Command!TakeCommand /\ OnlyCommand
  \/ component = "ide" /\ Ide!Fetch /\ OnlyIde
  \/ component = "sound" /\ Sound!ChipTakes /\ OnlySound
ComesLast ==
  \/ component = "thread" /\ Expire /\ OnlyMain
  \/ component = "sound" /\ Sound!ChipEnds /\ OnlySound

(* What is granted in turn to whoever wants it again and again: semaphores,  *)
(* the bus, the decoder; and an interrupt that a queue keeps raising.        *)
Granted ==
  \/ component = "thread" /\ Lock /\ OnlyMain
  \/ component = "events" /\ (\E p \in {"thread", "setter"} : Events!Enter(p)) /\ OnlyEvents
  \/ component = "queues" /\ Listeners!EnterRead("h1") /\ OnlyListeners
  \/ /\ component \in {"upperQueue", "lowerQueue"} /\ OnlyInterrupts
     /\ Interrupts!no_irq /\ Interrupts!ChipWrites("tq")
  \/ /\ component = "command" /\ OnlyCommand
     /\ Command!SleepTimeout("feed") \/ Command!write_command("feed") \/ Command!Accepted("feed")
  \/ component = "bus" /\ I2c!Start("c1") /\ OnlyI2c
  \/ component = "cam" /\ Module!TaskDown /\ OnlyModule
GrantedNext ==
  \/ component = "thread" /\ (\E u \in Users : Start(u)) /\ OnlyMain
  \/ component = "events" /\ Events!Reenter("reader") /\ OnlyEvents
  \/ /\ component \in {"upperQueue", "lowerQueue"} /\ OnlyInterrupts
     /\ Interrupts!no_irq /\ Interrupts!ChipWrites("vq")
  \/ component = "cam" /\ Module!TaskSends /\ OnlyModule

AnyFairness ==
  /\ WF_anyVars(Runs)
  /\ WF_anyVars(Answers)
  /\ WF_anyVars(GoesOn)
  /\ WF_anyVars(ComesLast)
  /\ SF_anyVars(Granted)
  /\ SF_anyVars(GrantedNext)

AnySpec == AnyInit /\ [][AnyNext]_anyVars /\ AnyFairness

-----------------------------------------------------------------------------
(* Somebody waits: an open for the thread, a read for data, a reader for an  *)
(* event, a feed or a call for the decoder, a transfer for the bus, a disk   *)
(* for its channel, a write for the sound or the decoder to play, a reader   *)
(* for a picture, a section feed for its filters, packets for their handler, *)
(* a queue that ran over for its bottom half, the CAM and the front          *)
(* processor for their interrupt, one who tuned for an answer, a voltage at  *)
(* the sockets or the lock of a chip for a task.                             *)
Waiting ==
  CASE component = "thread" -> upc["u1"] = "starting"
    [] component = "buffer" -> reader.at # "idle"
    [] component = "events" -> pc["reader"] = "asleep"
    [] component = "tuning" -> caps # {} /\ ~answered
    [] component = "receives" -> /\ Demod!interrupts /\ demodStatus # locked
                                 /\ ~garbled
    [] component = "ucode" -> at \notin {"filtered", "unfiltered"}
    [] component = "upperQueue" -> "tq" \in unseen
    [] component = "lowerQueue" -> "vq" \in unseen
    [] component = "ring" -> ringOverflow
    [] component = "playback" -> writer.at # "away"
    [] component = "command" -> commandCall["feed"].at # "idle"
    [] component = "bus" -> i2cPc["c1"] # "idle"
    [] component = "watch" -> pins # state /\ scartReg = "allocated"
    [] component = "ide" -> idePc \notin {"off", "idle"} /\ Ide!proper /\ ~problem
    [] component = "sound" -> soundWriter.at # "away"
    [] component = "picture" -> capture.busy /\ soundReader.at = "wait"
    [] component = "cam" -> moduleIrq = "off"
    [] component = "inputs" -> frontIrq = "off" /\ frontBusy # {}
    [] OTHER -> FALSE

(* Nobody waits for good, whatever goes wrong and whoever else wants the     *)
(* same: the semaphores and the bus are given back, sleeps end, interrupts   *)
(* are switched on again.  Only a reader of events may, if the ring is reset *)
(* again and again.                                                          *)
NobodyWaitsForGood ==
  []<>~Waiting \/ []<><<component = "events" /\ Events!Reset>>_eventsVars

(* What stays as it is: a frontend that nobody has open for writing, a       *)
(* carrier that is on the air, the size of the picture for one who listens.  *)
Settled ==
  CASE component = "thread" -> writing = {} /\ driver = "in"
    [] component = "tuning" -> air.on /\ lost_sync_count # -1
    [] component = "queues" -> /\ size = "pal" /\ handle["h1"].open
                               /\ handle["h1"].filter
    [] OTHER -> TRUE
Followed ==
  CASE component = "thread" -> ~awake
    [] component = "tuning" -> Tuning!Locked(status)
    [] component = "queues" -> knows["h1"] = "pal"
    [] OTHER -> TRUE

(* Once that settles, it is followed and stays so: the hardware sleeps, the  *)
(* carrier is found and kept, the listener knows the size - though readers   *)
(* come and go, the search stands anywhere and events are dropped.           *)
SettledIsFollowed == <>[]Settled => <>[]Followed

(* A loss does not stop a section feed for good: while sections keep coming  *)
(* in whole and some packets only continue one, sections are delivered.      *)
RecoversFromLoss ==
  []<><<component = "sections" /\ Sections!Continue>>_sectionsVars
  /\ []<>(seen.due # <<>>)
    => []<>(seen.due # <<>> /\ seen.got # <<>>)
=============================================================================
