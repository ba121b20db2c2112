---------------------------- MODULE SoundPicture ----------------------------
(***************************************************************************)
(* Sound and picture of the eNX/GTX.  Sound: a program writes samples to   *)
(* /dev/dsp (avia/avia_gt_oss.c), which go through a list of buffers and   *)
(* one address register to the chip (avia/avia_gt_pcm.c).  Picture: one    *)
(* capture unit (avia/avia_gt_capture.c) that its own device file and the  *)
(* picture in graphics of the V4L2 driver (avia/avia_gt_pig.c,             *)
(* avia/avia_gt_v4l2.c) share.                                             *)
(***************************************************************************)
EXTENDS Integers, Sequences

CONSTANTS
  BufferCount, MaxSamples, \* AVIA_GT_PCM_BUFFER_COUNT, AVIA_GT_PCM_MAX_SAMPLES
  Formats,                 \* 16 bit or 8, stereo or mono
  Offers,                  \* the bytes a program offers at a time
  MaxWrites,               \* bound: buffers a program writes
  Screen,                  \* <<CAPTURE_WIDTH, CAPTURE_HEIGHT>>
  Inputs, Outputs          \* what the capture is set to: widths and heights

SoundPictureAssumption ==
  /\ BufferCount \in Nat \ {0} /\ MaxSamples \in Nat \ {0}
  /\ Formats \subseteq [wide : BOOLEAN, stereo : BOOLEAN]
  /\ Offers \subseteq Nat /\ MaxWrites \in Nat
  /\ Screen \in Nat \X Nat
  /\ Inputs \subseteq Nat \X Nat /\ Outputs \subseteq (Nat \ {0}) \X (Nat \ {0})

VARIABLES
  format,  \* PCMC: 16 bit, stereo
  free, busy, \* pcm_free_buffer_list, pcm_busy_buffer_list
  buffer,  \* pcm_buffer_array: queued, and the part of the sound it holds
  chip,    \* PCMA (0: W is set, it can be written), what is played, PCM-PF
  writer,  \* avia_gt_pcm_play_buffer: [at, offered, bytes, samples, mine]
  played,  \* history: parts written, the last part heard, a part left out,
           \* PCMA written while it was taken, the format changed in a write
  capture, \* capture_busy, captured_frames, the sizes, line_stride
  pig,     \* pig_busy[0], pig_stride[0], and the width in VPSZ1
  reader,  \* capture_read
  meddled  \* history: the capture's own device used while a pig was shown,
           \* or its output size set there

sound == <<format, free, busy, buffer, chip, writer, played>>
picture == <<capture, pig, reader, meddled>>
vars == <<sound, picture>>

Buffers == 1 .. BufferCount
Minimum(a, b) == IF a < b THEN a ELSE b

(* Bytes of a sample of all channels: avia_gt_pcm_calc_buffer_size of 1.    *)
unit(f) == (IF f.wide THEN 2 ELSE 1) * (IF f.stereo THEN 2 ELSE 1)

(* avia_gt_pcm_calc_sample_count, and what avia_gt_pcm_play_buffer makes of *)
(* it.                                                                      *)
calc_sample_count(f, offered) ==
  LET n == Minimum(offered \div unit(f), MaxSamples)
  IN IF f.wide \/ f.stereo THEN n ELSE n - (n % 2)

-----------------------------------------------------------------------------
SoundInit ==
  /\ format \in Formats /\ format.wide = TRUE /\ format.stereo = TRUE
  /\ free = [i \in Buffers |-> i] /\ busy = <<>>
  /\ buffer = [i \in Buffers |-> [queued |-> FALSE, part |-> 0]]
  /\ chip = [pcma |-> 0, plays |-> 0, irq |-> FALSE]
  /\ writer = [at |-> "away", offered |-> 0, samples |-> 0, mine |-> 0, bytes |-> 0]
  /\ played = [written |-> 0, heard |-> 0, gap |-> FALSE, raced |-> FALSE, changed |-> FALSE]

(* The loop of avia_gt_pcm_queue_buffer, under the lock: the first buffer   *)
(* that the chip was not told of, if there is one.                          *)
Waiting(list, b) == SelectSeq(list, LAMBDA i : ~b[i].queued)
Queue(list, b) ==
  LET w == Waiting(list, b)
  IN IF w = <<>> THEN /\ buffer' = b /\ UNCHANGED <<chip, played>>
     ELSE /\ buffer' = [b EXCEPT ![Head(w)].queued = TRUE]
          /\ chip' = [chip EXCEPT !.pcma = Head(w)]
          /\ played' = [played EXCEPT !.raced = @ \/ chip.pcma # 0]

(* PCMA.W                                                                   *)
writable == chip.pcma = 0

(* SNDCTL_DSP_SETFMT, SNDCTL_DSP_CHANNELS, SNDCTL_DSP_STEREO of             *)
(* avia_oss_dsp_ioctl, by any thread of the program: at once, whatever is   *)
(* in the buffers.                                                          *)
SetFormat(f) ==
  /\ format' = f
  /\ played' = [played EXCEPT !.changed = @ \/ writer.at \in {"wait", "copy"}]
  /\ UNCHANGED <<free, busy, buffer, chip, writer, picture>>

(* avia_oss_dsp_write, avia_gt_pcm_play_buffer                              *)
Write(n) ==
  /\ writer.at = "away" /\ played.written < MaxWrites
  /\ writer' = [at |-> "wait", offered |-> n, samples |-> calc_sample_count(format, n),
                mine |-> 0, bytes |-> 0]
  /\ played' = [played EXCEPT !.changed = FALSE]
  /\ UNCHANGED <<format, free, busy, buffer, chip, picture>>

Away == writer' = [writer EXCEPT !.at = "away", !.offered = 0, !.samples = 0, !.mine = 0, !.bytes = 0]

(* O_NONBLOCK, or a signal for one that sleeps.                             *)
WriteNothing ==
  /\ writer.at = "wait" /\ free = <<>>
  /\ Away
  /\ UNCHANGED <<format, free, busy, buffer, chip, played, picture>>

Take ==
  /\ writer.at = "wait" /\ free # <<>>
  /\ writer' = [writer EXCEPT !.at = "copy", !.mine = Head(free)]
  /\ free' = Tail(free)
  /\ UNCHANGED <<format, busy, buffer, chip, played, picture>>

Copy ==
  /\ writer.at = "copy"
  /\ buffer' = [buffer EXCEPT ![writer.mine].part = played.written + 1]
  /\ played' = [played EXCEPT !.written = @ + 1]
  /\ busy' = Append(busy, writer.mine)
  /\ writer' = [writer EXCEPT !.at = "queue", !.mine = 0,
                              !.bytes = writer.samples * unit(format),
                              !.samples = 0]
  /\ UNCHANGED <<format, free, chip, picture>>

(* avia_gt_pcm_queue_buffer: the register is looked at before the lock.     *)
LookAtRegister ==
  /\ writer.at = "queue"
  /\ writer' = [writer EXCEPT !.at = IF writable THEN "load" ELSE "return"]
  /\ UNCHANGED <<format, free, busy, buffer, chip, played, picture>>

Load ==
  /\ writer.at = "load"
  /\ Queue(busy, buffer)
  /\ writer' = [writer EXCEPT !.at = "return"]
  /\ UNCHANGED <<format, free, busy, picture>>

Return ==
  /\ writer.at = "return"
  /\ Away
  /\ UNCHANGED <<format, free, busy, buffer, chip, played, picture>>

(* The buffer an interrupt gives back.                                      *)
retired(list) == Head(list)

(* avia_gt_pcm_irq                                                          *)
avia_gt_pcm_irq ==
  /\ chip.irq
  /\ LET some == busy # <<>>
         r == IF some THEN retired(busy) ELSE 0
         list == SelectSeq(busy, LAMBDA i : i # r)
         b == IF some THEN [buffer EXCEPT ![r] = [queued |-> FALSE, part |-> 0]] ELSE buffer
         w == Waiting(list, b)
         loads == writable /\ w # <<>>
     IN /\ busy' = list
        /\ free' = IF some THEN Append(free, r) ELSE free
        /\ buffer' = IF loads THEN [b EXCEPT ![Head(w)].queued = TRUE] ELSE b
        /\ chip' = [chip EXCEPT !.irq = FALSE, !.pcma = IF loads THEN Head(w) ELSE @]
  /\ UNCHANGED <<format, writer, played, picture>>

(* The chip takes the register when it is done with the last buffer, and    *)
(* reports a buffer's end.  A buffer lasts longer than the report waits.    *)
(* The handler is attached to PCM-AD as well (avia_gt_pcm_init) and would   *)
(* retire a buffer for it too; the source does not say what AD reports, and *)
(* a chip that raised it beside PF would have a buffer retired twice.  Here *)
(* only PF comes.                                                           *)
ChipTakes ==
  /\ chip.plays = 0 /\ chip.pcma # 0
  /\ chip' = [chip EXCEPT !.plays = chip.pcma, !.pcma = 0]
  /\ played' = [played EXCEPT !.heard = buffer[chip.pcma].part,
                              !.gap = @ \/ buffer[chip.pcma].part # played.heard + 1]
  /\ UNCHANGED <<format, free, busy, buffer, writer, picture>>

ChipEnds ==
  /\ chip.plays # 0 /\ ~chip.irq
  /\ chip' = [chip EXCEPT !.plays = 0, !.irq = TRUE]
  /\ UNCHANGED <<format, free, busy, buffer, writer, played, picture>>

SoundNext ==
  \/ \E f \in Formats : SetFormat(f)
  \/ \E n \in Offers : Write(n)
  \/ WriteNothing \/ Take \/ Copy \/ LookAtRegister \/ Load \/ Return
  \/ avia_gt_pcm_irq \/ ChipTakes \/ ChipEnds

SoundFair ==
  /\ WF_vars(Take) /\ WF_vars(Copy) /\ WF_vars(LookAtRegister) /\ WF_vars(Load)
  /\ WF_vars(Return) /\ WF_vars(avia_gt_pcm_irq) /\ WF_vars(ChipTakes) /\ WF_vars(ChipEnds)

-----------------------------------------------------------------------------
(* avia_gt_pig_init: a quarter of the screen.                               *)
Quarter == <<Screen[1] \div 4, Screen[2] \div 4>>

PictureInit ==
  /\ capture = [busy |-> FALSE, frames |-> 0, in |-> Screen, out |-> Quarter, stride |-> Screen[1] \div 2]
  /\ pig = [busy |-> FALSE, stride |-> 0, size |-> Quarter]
  /\ reader = [at |-> "away", bytes |-> 0] /\ meddled = FALSE

(* scale_x and scale_y are bytes.                                           *)
Scale(c, i) == (c.in[i] \div c.out[i]) % 256
line_stride(c) == (((c.in[1] \div Scale(c, 1)) + 3) \div 4) * 4

(* avia_gt_capture_start: what comes of it, the interrupt being free.       *)
Starts(c) == ~c.busy /\ Scale(c, 1) > 0 /\ Scale(c, 2) > 0
Started(c) == [c EXCEPT !.busy = TRUE, !.frames = 0, !.stride = line_stride(c)]

(* avia_gt_capture_stop                                                     *)
Stopped(c) == [c EXCEPT !.busy = FALSE]

(* The ioctls of /dev/dbox/capture0 (capture_ioctl).                        *)
CaptureStart ==
  /\ Starts(capture)
  /\ capture' = Started(capture)
  /\ meddled' = (meddled \/ pig.busy)
  /\ UNCHANGED <<pig, reader, sound>>

(* AVIA_GT_CAPTURE_STOP, and capture_release of a file that was opened      *)
(* while nothing was captured.                                              *)
CaptureStop ==
  /\ capture.busy
  /\ capture' = Stopped(capture)
  /\ meddled' = (meddled \/ pig.busy)
  /\ UNCHANGED <<pig, reader, sound>>

avia_gt_capture_set_input_size(size) ==
  /\ ~capture.busy
  /\ capture' = [capture EXCEPT !.in = size]
  /\ meddled' = (meddled \/ pig.busy)
  /\ UNCHANGED <<pig, reader, sound>>

avia_gt_capture_set_output_size(size) ==
  /\ ~capture.busy
  /\ capture' = [capture EXCEPT !.out = size]
  /\ meddled' = TRUE
  /\ UNCHANGED <<pig, reader, sound>>

(* capture_read: a start that fails is not looked at.                       *)
Read(nonblock) ==
  /\ reader.at = "away"
  /\ LET c == IF Starts(capture) THEN Started(capture) ELSE capture
     IN IF nonblock THEN capture' = c /\ UNCHANGED reader
        ELSE /\ capture' = [c EXCEPT !.frames = 0]
             /\ reader' = [at |-> "wait", bytes |-> c.stride * c.out[2]]
  /\ UNCHANGED <<pig, meddled, sound>>

ReadEnds ==
  /\ reader.at = "wait" /\ capture.frames > 0
  /\ reader' = [at |-> "away", bytes |-> 0]
  /\ UNCHANGED <<capture, pig, meddled, sound>>

ReadInterrupted ==
  /\ reader.at = "wait"
  /\ reader' = [at |-> "away", bytes |-> 0]
  /\ UNCHANGED <<capture, pig, meddled, sound>>

(* avia_gt_capture_interrupt; more frames than one are as one.              *)
avia_gt_capture_interrupt ==
  /\ capture.busy
  /\ capture' = [capture EXCEPT !.frames = 1]
  /\ UNCHANGED <<pig, reader, meddled, sound>>

(* VIDIOC_OVERLAY of avia_gt_v4l2_ioctl: avia_gt_pig_show, whose three      *)
(* calls of the capture fail together when it runs; input sizes that were   *)
(* set stay when the start fails.                                           *)
avia_gt_pig_show ==
  /\ ~pig.busy /\ ~capture.busy
  /\ LET c == [capture EXCEPT !.in = Screen]
     IN IF Starts(c)
        THEN /\ capture' = Started(c)
             /\ pig' = [pig EXCEPT !.busy = TRUE, !.stride = line_stride(c)]
        ELSE /\ capture' = c /\ UNCHANGED pig
  /\ UNCHANGED <<reader, meddled, sound>>

(* avia_gt_pig_hide: VIDIOC_OVERLAY with 0, VIDIOC_G_INPUT (which falls     *)
(* through into it) and the release of any file of the V4L2 device.         *)
avia_gt_pig_hide ==
  /\ pig.busy
  /\ capture' = Stopped(capture)
  /\ pig' = [pig EXCEPT !.busy = FALSE]
  /\ UNCHANGED <<reader, meddled, sound>>

(* VIDIOC_S_FMT: avia_gt_pig_set_size; nobody is told that it failed.       *)
avia_gt_pig_set_size(size) ==
  /\ ~pig.busy /\ ~capture.busy
  /\ capture' = [capture EXCEPT !.out = size]
  /\ pig' = [pig EXCEPT !.size = size]
  /\ UNCHANGED <<reader, meddled, sound>>

PictureNext ==
  \/ CaptureStart \/ CaptureStop
  \/ \E size \in Inputs : avia_gt_capture_set_input_size(size)
  \/ \E size \in Outputs : avia_gt_capture_set_output_size(size)
  \/ \E nonblock \in BOOLEAN : Read(nonblock)
  \/ ReadEnds \/ ReadInterrupted \/ avia_gt_capture_interrupt
  \/ avia_gt_pig_show \/ avia_gt_pig_hide
  \/ \E size \in Outputs : avia_gt_pig_set_size(size)

PictureFair == WF_vars(ReadEnds) /\ WF_vars(avia_gt_capture_interrupt)

-----------------------------------------------------------------------------
Init == SoundInit /\ PictureInit
SoundSpec == Init /\ [][SoundNext]_vars /\ SoundFair
PictureSpec == Init /\ [][PictureNext]_vars /\ PictureFair

(* The lists hold buffers, nobody's value is out of its range.              *)
TypeOK ==
  /\ format \in Formats
  /\ free \in Seq(Buffers) /\ busy \in Seq(Buffers)
  /\ buffer \in [Buffers -> [queued : BOOLEAN, part : 0 .. MaxWrites]]
  /\ chip \in [pcma : {0} \cup Buffers, plays : {0} \cup Buffers, irq : BOOLEAN]
  /\ writer.at \in {"away", "wait", "copy", "queue", "load", "return"}
  /\ capture.in \in Nat \X Nat /\ capture.out \in Nat \X Nat /\ capture.frames \in 0 .. 1
  /\ pig.stride \in Nat /\ reader.at \in {"away", "wait"}

(* What is heard are the parts in the order in which they were written, and *)
(* one is left out only if the interrupt came between the look at PCMA and  *)
(* its writing (avia_gt_pcm_queue_buffer looks before it takes the lock).   *)
HeardInOrder ==
  /\ played.gap => played.raced
  /\ \A i \in {chip.pcma} \ {0} : buffer[i].part > played.heard

(* A buffer that the chip plays, or is told to play next, is not free and   *)
(* is not being filled, and each buffer is in one list or with the writer.  *)
PlaysUntouched ==
  /\ \A i \in {chip.pcma, chip.plays} \ {0} :
        i # writer.mine /\ \A n \in DOMAIN free : free[n] # i
  /\ \A i \in Buffers :
        \E owner \in {<<"free">>, <<"busy">>, <<"writer">>} :
           /\ (\E n \in DOMAIN free : free[n] = i) <=> (owner = <<"free">>)
           /\ (\E n \in DOMAIN busy : busy[n] = i) <=> (owner = <<"busy">>)
           /\ (writer.mine = i) <=> (owner = <<"writer">>)

(* A write takes no more bytes than it was offered, unless the format was   *)
(* changed during it.                                                       *)
TakesWhatIsOffered == ~played.changed => writer.bytes <= writer.offered

(* A program that writes and waits gets on.                                 *)
WriteReturns == (writer.at # "away") ~> (writer.at = "away")

(* While nobody uses the capture's own device with it, a picture in         *)
(* graphics that is shown is captured, with the line length and in the size *)
(* its window was set to.                                                   *)
PigShowsCapture ==
  pig.busy /\ ~meddled =>
    /\ capture.busy
    /\ pig.stride = capture.stride
    /\ pig.size = capture.out

(* A reader of the capture device is not left waiting while fields are      *)
(* captured.                                                                *)
ReadReturns == []<>~(capture.busy /\ reader.at = "wait")

=============================================================================
