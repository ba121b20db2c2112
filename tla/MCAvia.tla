------------------------------- MODULE MCAvia -------------------------------
(***************************************************************************)
(* The small instances of the Avia chips' drivers: demultiplexer, decoder, *)
(* graphics, sound and infrared.  component names the one that runs, the   *)
(* others stay as they are.  They share no variable, so one run of TLC     *)
(* looks at each of them by itself.                                        *)
(***************************************************************************)
EXTENDS GtInterrupts

CONSTANTS
  RingSize, Latency, Chunks,                      \* of GtRing
  PlaybackSize, PlaybackCounts,                   \* of GtPlayback
  Half, MaxPcrDiff, MaxDiffDiff, ForceDiff, MaxDiff, Steps, Jumps, \* of GtClock
  Callers,                                        \* of AvCommand
  AvPids, Threads, Watchdog, Avia500, sptsfix,    \* of AvPlayback
  Handles, BufferSize, Readers, MaxVideo, Shapes  \* of EventQueues

VARIABLES
  component,  \* the one of the systems below that runs
  g, priv, pending, muted,
  chip, hw, read_pos, write_pos, overflow, qim, bh, unread, fresh, late, resynced,
  req, fs, at, i, j, merged, ucodeHw, forgot,
  playbackWritepos, playbackChip, writer, unplayed,
  pcr, lstc, last_pcr, last_lstc, last_diff, dac, force_stc_reload, gap, off, why,
  status, mailbox, done, commandChip, commandIrq, commandCall, dropped,
  size, seen, handle, knows, eventRing, place, freshEvents, stale, raced,
  want, source, have, play, pid, bypass, changed, selected, call, feed, astray, switched,
  frameChip, console_transparent, gv, regs, par, panned, frameRefused, clut, asked, copy,
  memory,
  rx, came, lapped, reader, given, tx, remoteWriter, train, frames, dec, words, noisy,
  queue, remoteStatus, down, timer, orphans,
  format, free, busy, buffer, soundChip, soundWriter, played, capture, pig, soundReader,
  meddled

(* A queue of each half is seen through pointer 1 of the window.             *)
Pointers == [q \in DmxQueues |-> IF q = "uq" THEN 2 ELSE 1]

(* A decoder feed without and one with a copy for the application, one       *)
(* without a queue of the decoder's, a recording and a PES feed of the same  *)
(* pid, and section feeds that need one and two filters.  There are five     *)
(* user feeds for two user queues, and filter slots for one section feed or  *)
(* the other.                                                                *)
Asked ==
  LET ts(decoder, packet) ==
        [stream |-> IF decoder THEN "video" ELSE "other", pid |-> 1, decoder |-> decoder,
         packet |-> packet, payload_only |-> FALSE, filters |-> 1]
      section(n, filters) ==
        [stream |-> "section", pid |-> n, decoder |-> FALSE, packet |-> FALSE,
         payload_only |-> FALSE, filters |-> filters]
  IN [video |-> ts(TRUE, FALSE), preview |-> ts(TRUE, TRUE), record |-> ts(FALSE, TRUE),
      clock |-> [ts(TRUE, TRUE) EXCEPT !.stream = "other"],
      pes |-> [ts(FALSE, TRUE) EXCEPT !.payload_only = TRUE],
      sect1 |-> section(2, 1), sect2 |-> section(3, 2)]

(* Every filter of the first byte with two bits and the others with one, all *)
(* pairs of small filters, and three filters of the first byte: of any two   *)
(* bits, and with a bit they agree on and a version to be excluded or not.   *)
byte_filters(bits) ==
  {b \in [value : SUBSET bits, mask : SUBSET bits, mode : SUBSET bits] :
     b.value \subseteq b.mask /\ b.mode \subseteq b.mask}
positive(bits) == {b \in byte_filters(bits) : b.mode = b.mask}
NotUsed == [value |-> {}, mask |-> {}, mode |-> {}]
wanted(t) == [value |-> [k \in 0 .. 2 |-> t[k + 1].value], mask |-> [k \in 0 .. 2 |-> t[k + 1].mask],
              mode |-> [k \in 0 .. 2 |-> t[k + 1].mode]]
FilterLists ==
  LET single == {wanted(t) : t \in byte_filters({1, 2}) \X byte_filters({1}) \X byte_filters({1})}
      paired == {wanted(t) : t \in positive({1}) \X byte_filters({1}) \X byte_filters({1})}
      first == {wanted(<<b, NotUsed, NotUsed>>) : b \in positive({1, 2}) \ {NotUsed}}
      kept == {[value |-> b.value, mask |-> b.mask \cup {3}, mode |-> b.mask \cup {3}] :
                 b \in positive({1, 2})}
      version == {NotUsed, [value |-> {1}, mask |-> {1}, mode |-> {}]}
      versioned == {wanted(<<t[1], NotUsed, t[2]>>) : t \in kept \X version}
  IN UNION {{<<f>> : f \in single}, paired \X paired, {<<f1, f2, f3>> : f1, f2, f3 \in first},
            {<<f1, f2, f3>> : f1, f2, f3 \in versioned}}

(* Between two PCRs the stream and the clock go on alike, apart, too far, or *)
(* not at all; a reload leaves the clock up to MaxDiff before or behind.     *)
Paces == {[pcr |-> p[1], stc |-> p[2]] :
            p \in {<<1, 1>>, <<3, 2>>, <<3, 5>>, <<4, 4>>, <<6, 6>>, <<6, 0>>, <<0, 0>>, <<0, 1>>}}

Offs == {-3, -1, 0, 3}

colour(red, green, blue, transp) ==
  [red |-> red, green |-> green, blue |-> blue, transp |-> transp]
Stereo == [wide |-> TRUE, stereo |-> TRUE]

Feeding == INSTANCE GtFeeds WITH Feeds <- DOMAIN Asked, Request <- Asked,
    LastUserQueue <- 4, NUcodeFeeds <- 5, NSections <- 2, SPTS <- TRUE, SectionCap <- TRUE,
    MessageCap <- TRUE, NoPid <- 0, Nobody <- "nobody"
feedingVars == <<g, priv, pending, muted>>
Ring == INSTANCE GtRing WITH Size <- RingSize
ringVars == <<chip, hw, read_pos, write_pos, overflow, qim, bh, unread, fresh, late,
    resynced>>
Ucode == INSTANCE UcodeFilters WITH Bits <- {1, 2, 3}, LastByte <- 2, VersionByte <- 2,
    MaxFilters <- 3, Requests <- FilterLists, hw <- ucodeHw
ucodeVars == <<req, fs, at, i, j, merged, ucodeHw, forgot>>
Playback == INSTANCE GtPlayback WITH Size <- PlaybackSize, Counts <- PlaybackCounts,
    write_pos <- playbackWritepos, chip <- playbackChip
playbackVars == <<playbackWritepos, playbackChip, writer, unplayed>>
Clock == INSTANCE GtClock
clockVars == <<pcr, lstc, last_pcr, last_lstc, last_diff, dac, force_stc_reload, gap, off,
    why>>
Command == INSTANCE AvCommand WITH chip <- commandChip,
    irq <- commandIrq, call <- commandCall
commandVars == <<status, mailbox, done, commandChip, commandIrq, commandCall, dropped>>
Av == INSTANCE AvPlayback WITH Pids <- AvPids
decoderVars == <<want, source, have, play, pid, bypass, changed, selected, call, feed, astray,
    switched>>
Events == INSTANCE EventQueues WITH Sizes <- Shapes, ring <- eventRing, fresh <- freshEvents
eventsVars == <<size, seen, handle, knows, eventRing, place, freshEvents, stale, raced>>
Frame == INSTANCE FrameBuffer WITH Sizes <- {<<640, 480>>, <<360, 288>>, <<320, 600>>},
    Offsets <- {0, 7},
    Colours <- {colour(65535, 65535, 32768, 16384), colour(65535, 0, 30720, 0)},
    Burst <- [enx |-> 3, gtx |-> 4], Side <- 5, chip <- frameChip, refused <- frameRefused
frameVars == <<frameChip, console_transparent, gv, regs, par, panned, frameRefused, clut,
    asked, copy, memory>>
Remote == INSTANCE Infrared WITH RxMax <- 3, MaxPulses <- 5,
    Words <- {<<0, 0, 34>>, <<1, 128, 98>>, <<249, 5, 255>>}, MaxFrames <- 3,
    Noise <- {[on |-> 6, len |-> 12], [on |-> 15, len |-> 90], [on |-> 6, len |-> 24],
    [on |-> 2, len |-> 5]},
    MaxRecv <- 2, Plain <- [c \in {34, 98} |-> IF c = 34 THEN "Q" ELSE "1"],
    Fn <- [c \in {98} |-> "F1"], writer <- remoteWriter, status <- remoteStatus
remoteVars == <<rx, came, lapped, reader, given, tx, remoteWriter, train, frames, dec,
    words, noisy, queue, remoteStatus, down, timer, orphans>>
Sound == INSTANCE SoundPicture WITH BufferCount <- 4, MaxSamples <- 3,
    Formats <- {Stereo, [wide |-> FALSE, stereo |-> FALSE]}, Offers <- {3, 8},
    MaxWrites <- 7, Screen <- <<16, 8>>, Inputs <- {<<16, 8>>, <<6, 8>>, <<1024, 8>>},
    Outputs <- {<<4, 2>>, <<8, 4>>, <<5, 3>>, <<32, 4>>}, chip <- soundChip,
    writer <- soundWriter, reader <- soundReader
soundVars == <<format, free, busy, buffer, soundChip, soundWriter, played, capture, pig,
    soundReader, meddled>>

ASSUME PartsAssumption ==
  /\ Feeding!GtAssumption
  /\ Ring!RingAssumption
  /\ Ucode!FilterAssumption
  /\ Playback!PlaybackAssumption
  /\ Clock!ClockAssumption
  /\ Command!CallersAssumption
  /\ Av!ConfigAssumption
  /\ Av!PidsAssumption
  /\ Events!EventAssumption
  /\ Sound!SoundPictureAssumption

-----------------------------------------------------------------------------
Components == {"interrupts", "feeding", "ring", "ucode", "playback", "clock", "command",
    "decoder", "sizes", "screen", "copyArea", "lirc", "pulses", "keys", "sound", "picture"}

\* What does not run stays as it is in one of its initial states.
AnyInit ==
  /\ component \in Components
  /\ Init
  /\ Feeding!Init
  /\ Ring!Init
  /\ Ucode!Init
  /\ component # "ucode" => req = <<wanted(<<NotUsed, NotUsed, NotUsed>>)>>
  /\ Playback!Init
  /\ Clock!Init
  /\ Command!Init
  /\ Av!Init
  /\ Events!Init
  /\ component # "sizes" => size = CHOOSE s \in Shapes : TRUE
  /\ Frame!Init
  /\ component \notin {"screen", "copyArea"} => frameChip = "enx"
  /\ component # "screen" => console_transparent = TRUE
  /\ Remote!Init
  /\ Sound!Init
  /\ component # "sound" => format = Stereo

Main == component = "interrupts" /\ Next
    /\ UNCHANGED <<component, feedingVars, ringVars, ucodeVars, playbackVars, clockVars,
                    commandVars, decoderVars, eventsVars, frameVars, remoteVars,
                    soundVars>>
RunFeeding == component = "feeding" /\ Feeding!Next
    /\ UNCHANGED <<component, vars, ringVars, ucodeVars, playbackVars, clockVars,
                    commandVars, decoderVars, eventsVars, frameVars, remoteVars,
                    soundVars>>
RunRing == component = "ring" /\ Ring!Next
    /\ UNCHANGED <<component, vars, feedingVars, ucodeVars, playbackVars, clockVars,
                    commandVars, decoderVars, eventsVars, frameVars, remoteVars,
                    soundVars>>
RunUcode == component = "ucode" /\ Ucode!Next
    /\ UNCHANGED <<component, vars, feedingVars, ringVars, playbackVars, clockVars,
                    commandVars, decoderVars, eventsVars, frameVars, remoteVars,
                    soundVars>>
RunPlayback == component = "playback" /\ Playback!Next
    /\ UNCHANGED <<component, vars, feedingVars, ringVars, ucodeVars, clockVars,
                    commandVars, decoderVars, eventsVars, frameVars, remoteVars,
                    soundVars>>
RunClock == component = "clock" /\ Clock!Next
    /\ UNCHANGED <<component, vars, feedingVars, ringVars, ucodeVars, playbackVars,
                    commandVars, decoderVars, eventsVars, frameVars, remoteVars,
                    soundVars>>
RunCommand == component = "command" /\ Command!Next
    /\ UNCHANGED <<component, vars, feedingVars, ringVars, ucodeVars, playbackVars,
                    clockVars, decoderVars, eventsVars, frameVars, remoteVars, soundVars>>
RunDecoder == component = "decoder" /\ Av!Next
    /\ UNCHANGED <<component, vars, feedingVars, ringVars, ucodeVars, playbackVars,
                    clockVars, commandVars, eventsVars, frameVars, remoteVars, soundVars>>
RunSizes == component = "sizes" /\ Events!Next
    /\ UNCHANGED <<component, vars, feedingVars, ringVars, ucodeVars, playbackVars,
                    clockVars, commandVars, decoderVars, frameVars, remoteVars,
                    soundVars>>
RunScreen == component = "screen" /\ Frame!Screen
    /\ UNCHANGED <<component, vars, feedingVars, ringVars, ucodeVars, playbackVars,
                    clockVars, commandVars, decoderVars, eventsVars, remoteVars,
                    soundVars>>
RunCopyArea == component = "copyArea" /\ Frame!CopyArea
    /\ UNCHANGED <<component, vars, feedingVars, ringVars, ucodeVars, playbackVars,
                    clockVars, commandVars, decoderVars, eventsVars, remoteVars,
                    soundVars>>
RunLirc == component = "lirc" /\ Remote!Lirc
    /\ UNCHANGED <<component, vars, feedingVars, ringVars, ucodeVars, playbackVars,
                    clockVars, commandVars, decoderVars, eventsVars, frameVars,
                    soundVars>>
RunPulses == component = "pulses" /\ Remote!Pulses
    /\ UNCHANGED <<component, vars, feedingVars, ringVars, ucodeVars, playbackVars,
                    clockVars, commandVars, decoderVars, eventsVars, frameVars,
                    soundVars>>
RunKeys == component = "keys" /\ Remote!Keys
    /\ UNCHANGED <<component, vars, feedingVars, ringVars, ucodeVars, playbackVars,
                    clockVars, commandVars, decoderVars, eventsVars, frameVars,
                    soundVars>>
RunSound == component = "sound" /\ Sound!SoundNext
    /\ UNCHANGED <<component, vars, feedingVars, ringVars, ucodeVars, playbackVars,
                    clockVars, commandVars, decoderVars, eventsVars, frameVars,
                    remoteVars>>
RunPicture == component = "picture" /\ Sound!PictureNext
    /\ UNCHANGED <<component, vars, feedingVars, ringVars, ucodeVars, playbackVars,
                    clockVars, commandVars, decoderVars, eventsVars, frameVars,
                    remoteVars>>

AnyNext == Main \/ RunFeeding \/ RunRing \/ RunUcode \/ RunPlayback \/ RunClock
          \/ RunCommand \/ RunDecoder \/ RunSizes \/ RunScreen \/ RunCopyArea \/ RunLirc
          \/ RunPulses \/ RunKeys \/ RunSound \/ RunPicture
anyVars == <<component, vars, feedingVars, ringVars, ucodeVars, playbackVars, clockVars,
              commandVars, decoderVars, eventsVars, frameVars, remoteVars, soundVars>>

AnySpec == AnyInit /\ [][AnyNext]_anyVars

\* The decoder runs until a bypass mode is switched while something plays or
\* both types may be astray: there PlaysItsFeed says nothing more until calls
\* have put both right, as they put one right.  Only the audio has a source other
\* than demux, and then there is no feed.
DecoderBound ==
  component = "decoder" =>
    /\ ~switched /\ astray # {"audio", "video"}
    /\ source["video"] = "demux"
    /\ source["audio"] = "memory" => feed = [t \in {"audio", "video"} |-> Av!NoPid]

-----------------------------------------------------------------------------
(* Some are stated of the component that runs only: the others stay as they  *)
(* are, and to look at them in every state takes TLC half of its time.       *)

(* Queues, microcode feeds, filter slots and search entries are neither lost *)
(* nor shared, a user feed has a way to its packets, and a bottom half gives *)
(* no feed the packets of another.                                           *)
FeedsHeard ==
  /\ TypeOK
  /\ component = "feeding" =>
       /\ Feeding!TypeOK
       /\ Feeding!QueuesAccounted /\ Feeding!SectionFiltersAccounted /\ Feeding!EntriesLive
       /\ Feeding!InterruptsStayOn /\ Feeding!HearsItsPid /\ Feeding!DeliversOwnPid

(* The driver knows what is unread in a queue or has noticed an overflow,    *)
(* the next interrupt lies ahead of the chip, and what is to be played is    *)
(* not written over.                                                         *)
RingsAccounted ==
  /\ Ring!TypeOK /\ Ring!OverflowNoticed /\ Ring!NextIrqAhead
  /\ Playback!TypeOK /\ Playback!NothingOverwritten

(* No section that a filter wants is dropped by the chip's own filters,      *)
(* however they were split and merged.                                       *)
NoSectionDropped == component = "ucode" => Ucode!TypeOK /\ Ucode!NoSectionDropped

(* The decoder plays what its feed and its ioctls say when their calls are   *)
(* over, is given no command over one it has not taken, and its clock is set *)
(* only when it is lost; VIDEO_GET_EVENT gives nobody an old event unless it *)
(* was overtaken.                                                            *)
DecoderObeys ==
  /\ Av!TypeOK /\ Av!PlaysItsFeed
  /\ Command!TypeOK /\ Command!NoCommandDropped
  /\ Clock!TypeOK /\ Clock!ReloadsOnlyWhenLost
  /\ Events!TypeOK /\ Events!OldEventsOnlyAfterRace

(* The screen shows what its users are told, where it was put, in the        *)
(* colours that were set; areas are copied whole; and a picture in graphics  *)
(* is captured in the size of its window.                                    *)
PictureAsTold ==
  /\ component \in {"screen", "copyArea"} =>
       /\ Frame!TypeOK
       /\ Frame!ShownAsTold /\ Frame!StaysInPlace /\ Frame!ColoursKept /\ Frame!CopyMoves
  /\ component = "picture" => Sound!TypeOK /\ Sound!PigShowsCapture

(* Sound is heard and pulses are read in the order they came, no buffer is   *)
(* filled while it is played, frames of the remote control are decoded, and  *)
(* a key that is down has a timer.                                           *)
SoundAndKeysInOrder ==
  /\ component = "sound" => Sound!TypeOK
  /\ Sound!HeardInOrder /\ Sound!PlaysUntouched /\ Sound!TakesWhatIsOffered
  /\ Remote!TypeOK /\ Remote!PulsesInOrder /\ Remote!FramesArrive /\ Remote!DownHasTimer
=============================================================================
