# Verification of the dbox2 DVB driver tree

TLA+ specifications of the drivers in this repository, TLC configurations that
check them on small instances, and TLAPS proofs of what matters most for every
instance. Paths below are relative to `src/`; `dvb-core/` and `avia/` stand
for `dvb/drivers/media/dvb/dvb-core/` and `dvb/drivers/media/dvb/avia/`.

Contents: 1 the system, 2 modules, 3 what each module says, 4 runs, 5 fairness,
6 proofs, 7 where the code does something else than it says, 8 what is not
modelled, 9 hazards not covered, 10 plan, 11 how to run everything.

## 1. The system

The tree is a set of Linux 2.4 drivers for a set-top box: a uniprocessor
without kernel preemption. Three kinds of activity therefore interleave:
processes, which change places only where they sleep (a semaphore, a wait
queue, the I2C bus, user memory); bottom halves and timers; and interrupts,
which may come between any two statements that are not under a lock that
masks them. Nearly everything that is hard to test here comes from the second
and third kind, from calls that give up half way (`-ERESTARTSYS`, `-EBUSY`, a
full table) and from slots that are reused while something still names them.

The main path of the data, and who calls whom:

    user process      read / ioctl                read               packets
          |                |                        |                   |
      FE device      demux device files (dmxdev)  DVR device      dvb_net interface
          |                |   kernel demux API       |                 |
          |                +------> dvb_demux <-------+-----------------+
     dvb_frontend            slots, feed_list, pesfilter
      tuning thread                 | start_feed / stop_feed
          |                    avia_gt_napi
     tuner drivers            queues, taps, section filters (avia_gt_dmx, avia_gt_ucode)
          |                         ^ interrupt -> bottom half -> packets or sections
         I2C                  the demultiplexer chip and its microcode

### 1.1 The software demultiplexer (`dvb-core/dvb_demux.c`)

*State.* Tables of feeds and of section filters with a state each; `feed_list`,
which the packet path walks; `pesfilter[]`, which stream type of a decoder is
reserved by which feed; the chain of filters of each section feed.
*Operations.* allocate, set, start, stop, release of a TS feed and of a section
feed; allocate and release of a section filter. All of them are called inside the
kernel, by dmxdev and dvb_net, and take `demux->mutex`, which a signal can
interrupt. They call the driver's `start_feed` and `stop_feed`, which can refuse.
*Hard.* A refused or interrupted call leaves what the previous calls did. The
fields of a released slot keep their values until the slot is used again, and
`release_ts_feed` decides by them. A stop, a set and a release on one feed are
three calls; another client gets in between.
*Correct when* a slot belongs to one client; a reservation names a live feed of
that type; the driver runs only feeds that are on the list and have filters; no
filter slot is in use without a feed that can find it.

### 1.2 Section assembly (`dvb-core/dvb_demux.c`, packet path)

*State.* Per feed: `secbuf`, `secbufp`, `seclen`, the continuity counter.
*Operation.* One packet: the rest of the previous section up to the pointer
field, then sections that start in this packet, the last of which may go on.
*Hard.* Sections of any length packed in any way, a header cut in two by the end
of a packet, a lost packet, a section that fails its CRC.
*Correct when* every section sent is delivered once and unharmed, and a loss
costs no more than the sections it hit.

### 1.3 Demux device files (`dvb-core/dmxdev.c`)

*State.* A table of filters (state, parameters, feed and section filter, timer,
ring buffer with its error), `dmxdev->mutex` and one mutex per filter.
*Operations.* open, close, `DMX_SET_FILTER`, `DMX_SET_PES_FILTER`, `DMX_START`,
`DMX_STOP`, `DMX_SET_BUFFER_SIZE`, read; the section and payload callbacks; the
timeout of a filter. Filters of one pid share one section feed: a start or stop
of one stops and restarts the feed under the others.
*Hard.* Restarting for others what one of them stopped; failure half way through
a start; one-shot filters that finish in a callback; timers that expire inside a
call; a ring that an interrupt writes while a process reads without a lock.
*Correct when* a running filter is fed, with its pid and through its own section
filter; nothing is delivered to a filter that was closed or set anew; no slot is
lost; a reader gets every byte once and in order until an error it is told of.

### 1.4 Frontend (`dvb-core/dvb_frontend.c`)

*State.* `fe->sem`; the thread with `thread_pid`, `exit`, `lost_sync_count` and
`release_jiffies`; the event ring (8 slots, a read and a write index, an overflow
flag, its own semaphore); `writers` of the device node.
*Operations.* open, close, the ioctls (of them `FE_SET_FRONTEND` adds an event
and `FE_GET_EVENT` takes one), the thread's loop, register and unregister.
*Hard.* `FE_GET_EVENT` gives `fe->sem` back while it sleeps; an open resets the ring
without a semaphore; the thread decides to leave and acts on it some sleeps
later; an unregistration has to wait for it.
*Correct when* events come out once and in order with losses reported; there is
at most one thread; an open returns; the hardware is suspended after the last
writer and not before; what may free the frontend under its thread.

### 1.5 Hardware demultiplexer (`avia/avia_gt_dmx.c`, `avia_gt_ucode.c`, `avia_gt_napi.c`)

*State.* 31 queues (three that feed the decoders, the rest for applications) with
owner, callback, mode and interrupt; for each decoder queue the application queue
that taps it (`queue_client`); feeds of the microcode and their entries in the
chip's pid search table; runs of section filter slots; `ts_pid[]`.
*Operations.* start and stop a feed (as TS, PES, section, decoder), the interrupt
of a queue, its bottom half, the microcode's messages (lost packets), the resync of a
section queue.
*Hard.* The microcode must not have two active entries for one pid, so the second
feed of a pid becomes a tap of the first, in either order of starting and stopping;
four tables are allocated in turn and given back in turn, or half of them when
one is full; bottom halves run late, when their queue may have a new owner.
*Correct when* nothing allocated is lost or shared, entries of the chip lead to
live queues, an application's feed always has a way to its packets, and a late bottom
half never hands packets to the wrong feed.

### 1.6 Network interfaces (`dvb-core/dvb_net.c`)

*State.* Per interface what the kernel keeps (`struct net_device`: up or down, address, flags, multicast
list) and what the driver keeps (mode, group addresses, the section feed with its filters); the work queue.
*Operations.* add, remove, open, stop, `set_multicast_list`, `set_mac_address`, the two works, the section callback.
*Hard.* The kernel only announces a change; the work that carries it out runs later, when the
interface may have been closed, opened again or changed once more.
*Correct when* the feed of an open interface has the filters its addresses ask for once the work is
done; a closed interface holds no feed; no filter is lost in a restart.

### 1.7 Adapters, nodes, buses (`dvb-core/dvbdev.c`, `dvb_i2c.c`)

*State.* Lists of adapters, of the device nodes of each, of I2C buses and of the drivers on them; references to modules.
*Operations.* register and unregister an adapter, a device, a bus, a driver; open and close a node.
*Hard.* Buses and drivers come in any order, and one driver meets several buses; an id is chosen in
one step and used in another.
*Correct when* a minor names one node; a module is referenced as often as it is used; a driver is detached from
a bus with the state it made for that bus.

### 1.8 Tuning (`dvb-core/dvb_frontend.c`, `frontends/`)

*State.* The zigzag's drift and counter, the last status, the timeout; frequency and bending of each frontend of an
adapter; hooks and notifiers; in a driver, the registers programmed, the tuner's gate, the cached status.
*Operations.* the turn of the thread's loop, `FE_SET_FRONTEND`, adding and removing hooks and
notifiers; in a driver, init, tune and sleep as rows of I2C messages, and the interrupt of the TDA chips.
*Hard.* The search moves while the carrier comes and goes; each frontend bends away from where
the others are *now*; a message in the middle of a row is not acknowledged.
*Correct when* a carrier in reach is found and reported; two frontends keep apart; a call that
answers success has programmed what was asked; the gate to the tuner is closed again.

### 1.9 Byte streams (`dvb_ringbuffer.c`, `dvb_demux.c`, `dmxdev.c`)

The transport stream as it arrives in pieces from memory (`dvb_dmx_swfilter`), the ring buffer of
`dvb_ringbuffer.c`, `read_sec`, which cuts a ring into sections with a header state of its own, and the DVR device
in both directions. *Hard.* Pieces of any length, bytes that look like a sync byte, loss, an
overflow in the middle of a section that is being read. *Correct when* packets and sections come
out whole and in order, and are found again after a loss.

### 1.10 The chip under the demultiplexer (`avia/avia_gt_core.c`, `avia_gt_dmx.c`, `avia_gt_ucode.c`)

*State.* Interrupt status, mask and handler table; the window of queue pointers with its selector; per queue the
chip's position, the driver's two positions, the overflow count and the interrupt mode; the write position of
playback; the clock recovery's last values; the table of section filters.
*Operations.* attach and detach a handler, the dispatch of an interrupt, a queue's interrupt, its bottom half, a
write from memory, a PCR, the fitting and merging of a feed's filters.
*Hard.* One selector shared by processes and interrupts; positions of a ring that cannot tell full from empty;
counters that wrap at 33 and 32 bits; filters that must be coarser than asked but never finer.
*Correct when* an open interrupt is handled; what the driver takes for unread is what came; nothing
unplayed is overwritten; the clock is reloaded only when it is lost; no wanted section is dropped by the chip.

### 1.11 Decoder (`avia/avia_av_core.c`, `avia_av_napi.c`, `avia_av_event.c`, `src/event/`)

*State.* The mailbox and its status word; play states in the devices and once more in the decoder's driver, pids
and stream types; a ring of video events; per reader of the event device a queue and a filter.
*Operations.* a command with its two waits and the restart of a decoder that hangs; play, stop, freeze, continue, bypass; a
feed's start and stop; the timer that looks at the picture's size; open, filter, read, write, close of the event device.
*Hard.* Commands from ioctls, feeds and a watchdog; two layers of play states that refuse each other's changes;
readers that are overtaken between a look and a take.
*Correct when* no command is written over another; what plays is the feed the program asked to play; who listens
learns the size; no event is given out twice.

### 1.12 Picture, sound, infrared (`avia/avia_gt_fb_core.c`, `_gv.c`, `_accel.c`, `_capture.c`, `_pig.c`, `_v4l2.c`, `_pcm.c`, `_oss.c`, `_ir*.c`, `_lirc.c`)

*State.* Mode, size and position of the viewport with its registers, colour table, copy engine; the one capture unit and
the picture in graphics over it; lists of PCM buffers and the one address register; the ring of received
pulses, the keyboard's decoder, held keys and their timer.
*Hard.* Values that are cached beside registers; a unit with two users; a list
shared with an interrupt; half of a frame lost on the air.
*Correct when* the screen is as the program was told; samples are heard in order and not filled while they
play; a shown picture is captured in its size; pulses and frames arrive in order.

### 1.13 The board (`cam/`, `fp/`, `i2c/`, `ds1307/`, `avs/`, `lcd/`, `mmc/`, `ide/`)

Small protocols of one chip each: the CAM's messages through a byte queue; the front processor's interrupt, keys and
dish commands; the I2C controller's descriptors; the clock; the switch whose registers are sent all at once, its mute and mixer;
the display's memory and console; cards driven by waving port lines; a fifo in front of the disk. *Hard.*
Messages without acknowledge at any place, signals that end a wait early, several callers on one bus, timers
against tasks, counters at their end. *Correct when* what was answered well was done, no more and no less; the
chip follows the driver's copy; lines and interrupts are given back.

### 1.14 Loading and unloading (the `init` and `exit` functions of all drivers)

*State.* What a driver has taken: memory, mappings, interrupts, timers, tasks, registrations, threads.
*Hard.* Failure at each step of an init; whatever was started runs at any moment, also after the code is gone.
*Correct when* whoever runs finds what it relies on, a driver that is gone has left nothing, and nothing is given
back twice. The code keeps this for most drivers and breaks it for the ones section 3 lists.

## 2. Modules

| module | extends / instantiates | what it is |
|---|---|---|
| `DvbDemuxOps` | | one operator per call of the demux's kernel API, on a record `Demux`; with the lemmas about what each call does to it |
| `DvbDemux` | `DvbDemuxOps` | those calls under dmxdev's PES filters and dvb_net's interfaces |
| `DvbDemux_proofs` | `MCDvbDemux` | theorems about `DvbDemux` |
| `DmxDev` | `DvbDemuxOps` | the demux device files composed with the same demux |
| `DmxDev_proofs` | `DmxDev` | its theorems |
| `DmxBuffer` | | ring buffer between a callback and a reader, statement by statement |
| `DmxReads` | | `read_sec` with its header state; the DVR device |
| `RingBuffer` | | `dvb_ringbuffer.c` with one reader and one writer |
| `PacketStream` | | cutting a stream of bytes into packets, and finding them again |
| `SectionAssembly` | | the packet path of a section feed |
| `DvbNet` | | network interfaces and their work queue; with theorems |
| `FeEventQueue` | | abstract: what the event queue of a frontend promises |
| `FrontendEvents` | instance of `FeEventQueue` | the event ring, implementing it; with theorems, the refinement among them |
| `FrontendThread` | | the life of a tuning thread, with the users of the device; with theorems |
| `FrontendTuning` | | what the thread does to the tuner: zigzag, status, timeouts |
| `FrontendGroup` | | hooks, notifiers and bending among the frontends of an adapter |
| `Demodulators` | | seven demodulator drivers as rows of bus messages |
| `DvbDevices` | | adapters, nodes, buses, drivers, modules' references |
| `GtFeeds` | | the tables of the hardware demultiplexer, an operator per driver function; feeds that start and stop, interrupts, bottom halves, microcode messages |
| `GtInterrupts` | | dispatch of the chip's interrupts and the window of queue pointers |
| `GtRing` | | one hardware queue: positions, overflow, interrupt mode |
| `GtPlayback` | | writing to a decoder's queue from memory |
| `GtClock` | | recovery of the system time clock |
| `UcodeFilters` | | fitting and merging section filters for the microcode |
| `AvCommand` | | the decoder's mailbox with acknowledge, timeout and restart |
| `AvPlayback` | | play states of the devices and of the decoder, under feeds, ioctls and the watchdog, command by command |
| `EventQueues` | | size of the picture: event device and video events |
| `Avia_proofs` | `MCAvia` | theorems about `GtInterrupts` and about the instances of `GtRing`, `GtPlayback`, `GtClock`, `AvCommand`, `AvPlayback` and `EventQueues` |
| `FrameBuffer` | | frame buffer, viewport, colour table, copy engine |
| `SoundPicture` | | PCM playback; the capture unit and its two users |
| `Infrared` | | receive ring, sending, keyboard decoder, keys |
| `Cam` | | the conditional access module |
| `FrontProcessor` | | keys, dish, wakeup timer of the front processor |
| `I2cBus` | | I2C transfers, and the clock chip |
| `ScartSwitch` | | three audio/video switches, mixer and socket watch |
| `Display` | | the display's memory and the console |
| `MmcCard` | | memory cards, their requests, and the port lines |
| `IdeChannel` | | the fifo before the disk |
| `Board_proofs` | `MCBoard` | theorems about `Cam` and about the instances of `IdeChannel`, `MmcCard`, `I2cBus` and `FrontProcessor` |
| `DriverLoad` | | steps of every `init` and `exit`; loading, failing, running, leaving |
| `MCDvbDemux`, `MCDmxDev` | the module named | small instances; the first with a history variable |
| `MCCore`, `MCAvia`, `MCBoard`, `MCLive` | instances of the rest | sums of small instances, see section 4 |

The demux is an `Ops` module of operators, not of actions, because two modules
call it from steps of their own: an API call returns the *set* of outcomes
`[d, slot, ret]` it may have (interrupted, refused, table full, done), and a caller picks
one with `\E r \in call(dmx, ...)`. `DvbDemux` lets every call be a step, which is
what `demux->mutex` makes atomic; `DmxDev` chains the calls of one ioctl, which
`dmxdev->mutex` makes atomic. `GtFeeds` follows the same pattern without the sets: its
functions are deterministic.

Operators marked "Mutant" in their comment are broken variants of a definition; no specification
uses them. `PROJECT.json` pairs each checked property with the variant that breaks it. Variables
marked "history" record what happened and never decide what a step may do.

## 3. What each module says

The map in `PROJECT.json` gives the lines of every definition. This section says how
state and steps correspond and what was abstracted.

### DvbDemuxOps, DvbDemux

`dmx.feed[f]` is `struct dvb_demux_feed` with the fields that decide anything:
state, type, pid, whether it drives a decoder and of which stream type, `is_filtering`, the
chain of filters as a set. `dmx.hw` is the set of feeds the driver has been asked to
run; it does not exist in the code and stands for what `avia_gt_napi` does with
them. Slots come from `vmalloc` and are not cleared, so `Init` lets the stream type of a
slot be anything: `release_ts_feed` reads it on paths where nothing wrote it.

A client walks through the calls as `dvb_dmxdev_filter_start`/`filter_stop` or
`dvb_net_feed_start`/`feed_stop` make them, failures included: a refused PES
start returns without releasing the feed, so it is lost to everyone, and that is what the code
does. PES clients exclude each other through `dmxdev->mutex`; net clients are excluded by nothing.

Properties: `NoDanglingPesFilter`, `FeedsNotShared`,
`FilterSlotsAccounted`, `HardwareRunsLiveFeeds`, `NoSelfDeadlock` (`release_filter` stops a
feed that still filters while it holds the mutex the stop takes), and `DecoderExclusive`, which the code
breaks in one way: a feed whose set call was refused is released with the stream type of the slot's previous
owner, and that frees a decoder somebody else runs (`dvb_demux.c:763`). `MCDvbDemux` therefore adds a history
variable `robbed` that exactly that release sets, and states `robbed \/ DecoderExclusive`. `FilterSlotsAccounted`,
`HardwareRunsLiveFeeds` and `NoSelfDeadlock` need calls that are not interrupted: a signal in a stop leaves a running feed that the
caller goes on to release.

### DmxDev

`fil[k]` is `struct dmxdev_filter`; its ring buffer is the set of pids whose data it
holds, because what is at stake here is *whose* data it is (order and
loss of bytes are `DmxBuffer`'s). `priv` and `tspriv` are the back pointers the
callbacks use. An ioctl is one step on a world `[d, fil, priv, tspriv, dead]`; each function of
`dmxdev.c` maps a world to the set of worlds it may leave. `dead` records a NULL dereference or a
sleep on a mutex the caller holds, after which nothing moves; that is why the deadlock check is
off in these runs (`NobodyDies` says that it does not happen).

Interrupts deliver a section or a payload through the back pointers, or expire a
timer. The expiry *inside* an ioctl is an outcome of the step when `TimerRaces` holds.
It is FALSE in the passing runs because of the bug in section 7, which would hide everything
behind it.

Properties: `GoingIsFed`, `OneFeedPerPid`, `NoSlotLost`, `DeliveryToOwner`,
`BufferOwnPid`, `TimerOnlyWhileGoing`, `NobodyDies`.

### DmxBuffer

A write is one step (it is in interrupt context), a read is eight places: the error check,
the two copies, the two moves of `pread`, and the places at which an error is
noticed. Bytes carry their number modulo `Wrap`. `seq`, `expect` and `wrong` are
history: which byte was accepted next, which the reader ought to get next, and
whether it ever got another. `ReadsInOrder` and `RingHoldsUnread` relate the two.

### SectionAssembly

The environment is a multiplexer that packs sections into packets back to back, with up
to two sections starting in a packet. A byte is `[id, at, of]`: which section it is of, its place
there, and the length of the section, so the length field and the CRC need no
bits: a header is read from the third byte on, and the CRC holds exactly when
the buffer contains one section in order. `copied` places bytes as `memcopy` does, with a
`secbufp` beyond the end as the one overflow value `MaxSec + 1`.

`EverySectionDelivered` excludes sections whose first piece has fewer than three
bytes: their length is not in it, and the code gives up on them. `RecoversFromLoss` needs packets that only continue a section; without them see
section 7.

### FeEventQueue, FrontendEvents

Two adders (the thread and a caller of `FE_SET_FRONTEND`) and a reader. An add is two steps,
because the ring is visible to a poll or an open after the slot is taken and
before the index is published; a get checks the overflow flag, looks for an event, gives
`fe->sem` back, sleeps until there is one, takes `fe->sem` again and takes the event without another look. A
reader that finds `fe->sem` taken when it comes back, with a signal pending, returns without it, and the
ioctl gives it back all the same; a reset is what an open for writing does.

The refinement (`ImplementsQueue`) maps the ring to the queue of the events from the read to the write
index (`Segment`), with an event that is being added counted once its slot is taken. `torn`
becomes TRUE when a reset hits an add or a get that has looked at the indices and not yet acted on
them; from then on the ring is not a queue in the code, and the step formula is
not required. Everything else, including signals and lost `fe->sem` exclusion, is inside it. There is one
reader: two readers may be woken for one event, and the second runs `eventr` past
`eventw` (hazard at `dvb_frontend.c:272`).

### FrontendThread

Steps are the stretches between sleeping points (`fe->sem`, `fe->wait_queue`, the I2C bus), which is
where processes and the thread change places on this kernel. `tpc` names where the
thread sleeps. Time is `expired`: whether the shutdown timeout is over. What the thread does to the
tuner is left out, except that it may lock or lose the signal and that a driver that cannot recover by
itself is retuned, which wakes everyone on `fe->wait_queue`.

`driver` also tells what ended the wait of `dvb_frontend_stop`, after which everything is freed. `FreedAfterThread` says
what may free the frontend under its running thread: a signal (`interrupted`), and the thread itself when it tunes again
(`retuned`), which wakes the same queue; that happens in the code, to drivers without `FE_CAN_RECOVER`, and is listed as a hazard. Any
other end of the wait is the thread's own.

### GtFeeds

`g.queue[q]` is `struct avia_gt_dmx_queue`, `g.ufeed` the feeds of the microcode,
`g.entry` the pid search table in the chip's memory, `g.section_map` the runs of
section filter slots, `g.client[s]` is `queue_client`, `g.irqs` the interrupts
with a handler. Data in a queue is the set of pids it may contain. `StartFeed` and `StopFeed` are one step
each (`demux->mutex`); a packet's interrupt, the bottom half, a lost packet and a resync are steps of their own.

Decoder feeds of subtitles and clock recovery are in user queues (`dmxdev.c:648` marks them for a decoder as well): the tap loop at
their start takes them for the feed of the pid that must be stopped, and stops themselves (`avia_gt_napi.c:610-625`). `mutes`
names the starts after which one of a pid's feeds hears nothing in the code: that one, a second user feed of the pid (it is
a tap that nobody activates later), and a PES or section feed beside a decoder's (it is not in `ts_pid`). `muted` keeps the pids on which such a start
happened until they have no feed, and `HearsItsPid` excepts those pids and no other. Decoder feeds in user queues without packets
for the application are left out: they have no queue at all.

Properties: `QueuesAccounted`, `SectionFiltersAccounted`, `EntriesLive`,
`InterruptsStayOn`, `HearsItsPid`, `DeliversOwnPid`. `QueuesAccounted` names its one exception,
`Refused`: a decoder feed with a copy for the application that is refused with
`-EBUSY` at its last step keeps its queue (`avia_gt_napi.c:638`).

### DmxReads, RingBuffer, PacketStream

`DmxReads` keeps the ring as a sequence of bytes `[length, place]`, because the steps inside a read are `DmxBuffer`'s;
`todo` is the driver's counter, negative while the header is incomplete. `InStep` says that what
`read_sec` takes for a header is one, until an overflow hits the rest of a section that is being read
(`dmxdev.c:838`: `todo` outlives the bytes it counts). The DVR device has opens in both directions, the switch to the
memory frontend and back, and closes; `DvrLeavesNothing` says that the last close gives back the buffer and the
frontend, unless two readers were open at once or the frontend changed meanwhile (section 9).

`RingBuffer` follows the rules of `dvb_ringbuffer.h`: ask, then read or write at most that much. Bytes are numbered modulo
`Wrap`. `BytesInOrder` fails (section 7); `InOrderUntilWrap` is what remains: no byte is wrong before the first call
that is cut in two at the end of the ring.

In `PacketStream` a byte is its offset in the packet it was sent in, and whether it looks like a sync byte; pieces of
up to `MaxPiece` bytes arrive, bytes get lost. `PacketsKept` and `Resyncs` together say what `tsbuf` is for.

### DvbNet

`dev[i]` is what the kernel keeps and tells, `priv[i]` what the driver has made of it, `work` the queue between
them, in order. Starting and stopping a feed are one step each; their single calls are those of the network client of
`DvbDemux`. The demux may refuse the feed,
any of the filters or the start (`outcomes`); the code looks only at the first (`dvb_net.c:280`, 305), so a feed may run with some of its filters or
hold them without running. `starved` says of an interface that this happened at its last start. `FiltersFollow` relates wishes
and filters once no work is queued for an interface: it has none but what it wants by now, and all of that unless it is starved. `FeedOnlyWhileUp` has the exception the code
makes: a multicast list sent before the close and worked on after it starts a feed for a closed interface (`dvb_net.c:358`).
`StartsClean`, the "BUG" message at `dvb_net.c:255`, is stated and does not hold for the same reason.

### FrontendTuning, FrontendGroup, Demodulators

`FrontendTuning` counts frequencies in steps of the zigzag from the one asked for; a turn of the loop is a step, since the loop
and the ioctls hold `fe->sem`. `air` is the environment: a carrier that appears, vanishes and lies up to
`Reach` steps off. `FindsCarrier` and `TuningAnswered` are its liveness.

`FrontendGroup` has the entries of the ioctl hooks and notifiers, which are alike, with callbacks of frontends that come and
go (`NoDanglingHook`), and bending. `KeepApart` holds for frontends that have bent and been left alone since.

In `Demodulators` a driver is a table: for each call the row of messages it sends, each of which says what it programs,
whether an error counts, and whether the tuner's gate is opened before and closed after. `AnsweredIsTuned` and `GateClosed` go through
every place a message can fail. VES1x93 and TDA drivers do not tell what they refuse, and are
excepted from the one half. The TDA chips' interrupt, task and cached status are a second part of the module.

### DvbDevices

`nodes[a]` is the list of device nodes of an adapter, `clients[a]` the drivers on its bus with the state each was given,
`refs` the references to modules. Registration of frontends is one step under `dvb_i2c_mutex`; other modules choose an
id in one step and link the node in another. One module per adapter registers demux devices, as in this tree; with two
of one adapter `MinorsUnique` would fail (`dvbdev.c:215`). `astray` records a detach with the state of another bus; `DetachedWithOwnState`
says that takes a driver on two buses.

### GtInterrupts, GtRing, GtPlayback, GtClock

`GtInterrupts` interleaves the chip, `avia_gt_irq` statement by statement and a process in `get_write_pos`. Nothing but the
chip moves while the interrupt runs. `PacketsSeen` is its liveness. `PositionInBounds`, the `BUG()` of
`avia_gt_dmx.c:548`, is stated and does not hold: an interrupt between the choice of the window's half and the reads
chooses the other one, twice.

`GtRing` follows the chip's write position, the interrupt handler's and the reader's with ghosts that count what
they really are apart. A queue has a multiple of eight bytes, as the chip's registers want (`RingAssumption`; the code's sizes are powers of two): the
positions at which an interrupt is asked for then divide it. `Latency` is the assumption everything rests on: the chip does not write more than that before a
raised interrupt is served; `OverflowNoticed` says that is enough for the comparison at `avia_gt_dmx.c:672`.

`GtClock` keeps both 33-bit counters modulo `2 * Half` and the difference as the code has it, in 32 bits with sign.
`ReloadsOnlyWhenLost` compares what the interrupt did with the real distance, kept as a ghost. `ClockAssumption` orders the code's
limits, 36000 and less against 2^32, and steps between two PCRs that do not bring the 32-bit difference to its sign.

### UcodeFilters

A pure algorithm, as steps (split, reduce, sort, merge pairs, write) so that TLC shows where it goes wrong. A byte is the set of its bits.
`NoSectionDropped` compares the filters the chip gets with those of the demux over *every* section of three bytes,
for single filters, pairs and triples of the kinds named in `MCAvia`; the triples have two bits of the first byte that differ, a third they agree
on, and a version to be excluded or none. Feeds that exceed what the microcode can express are excepted
by `beyond_the_microcode`. The code drops sections in one more way: two filters merge into one that demands another version although
one of them had given its demand up (`avia_gt_ucode.c:419`, 460 look at one of two `unchanged` flags); of {0x50/FE, version not 5}, {0x52/FF, version not 5} and
{0x53/FF}, section 0x53 of version 5 is lost. `forgot` records such a merge, and what it loses, which is sections that the entry would match but for its version, is
excepted. That nothing else is lost is the property.

### AvCommand, AvPlayback, EventQueues

`AvCommand`: STATUS_ADDRESS is the command whose status it points to, or zero; a caller goes through wait,
look, sleep and timeout; any of them may find the decoder dead and start it again under the
others. A restart (`avia_av_init`: reset, upload, waits) is one step; its error exits, among them a missing
microcode, are left out: after one of them there is no decoder (section 9).

`AvPlayback` has the two layers of play states. There is no lock: `call[c]` is what a thread is doing, and each command of a
call is written and accepted in steps of its own, with the words it had when the call made it; the play state is noted after the last. Any other thread, the
watchdog among them, runs in between. `touches` says about which streams a call is and `met` about which of them another call was under way
meanwhile. `astray` holds the types of which the decoder may play something else than the driver notes (`Upset`):
two calls about one type at a time, a feed that is started while the decoder plays, a Play for the audio beside a frozen picture, a restart that feeds are
not told of. A call from beginning to end by itself puts its type right, and that it does is part of what is checked; `switched` is set when the
bypass mode changes while something plays. `PlaysItsFeed` speaks of the types that are in neither and have no call under way. Overlap alone is excepted, not the rest:
the calls about the other type, and the watchdog between two calls, may not disturb it. Left out: a restart within the
restart's own commands, and one that fails.

`EventQueues` has two queues of one idea: the
event device's with a filter per reader, and the one ring of the video device, whose second reader is overtaken as in the frontend's
(`OldEventsOnlyAfterRace`).

### FrameBuffer, SoundPicture, Infrared

`FrameBuffer` compares what programs are told (`line_length`, size, offset, colours) with what the registers of either chip
make of it, and the copy engine with an abstract move: `CopyMoves` holds for areas that do not overlap downwards.
`SoundPicture` has the PCM lists, one register and the interrupt (`HeardInOrder` with its one gap, a look at PCMA
before the lock), and the capture unit with its own device and the picture in graphics
(`PigShowsCapture` while nobody uses that device beside it); scale factors are taken modulo 256 as the register's
type does. The chip's PCM-AD interrupt, which has the same handler, is left out: what it reports the source does not say. `Infrared` has three parts that share only who uses the unit: the
receive ring whose two indices run modulo different numbers, the decoder of the keyboard's pulses, keys with a timer. The decoder's
bits are positions in the frame; the code's shifts give the same for pauses of less than eight chips, and frames have no longer ones.

### Cam, FrontProcessor, I2cBus, ScartSwitch, Display, MmcCard, IdeChannel

`Cam`: the semaphore of the bus counts one up with each answer to a CA id request, so `OneOnTheBus` holds up to the first and
`BusyIsMutex` (its declaration, `cam.c:89`) is stated and does not hold after it. `QueueWhole` excepts a message that fills the ring to
the last byte and a flush at its end. A task may be interrupted before it has the bus and may fail to receive or to answer.

`FrontProcessor` has three parts that share only the chip: inputs, dish, service. A message marks the dish as busy by
`sec_bus_status`, except the DiSEqC of Sagem boxes (`dbox2_fp_sec.c:87`), which goes out unmarked, so that a second one may go with it. `OneMessage` says that
one message with a mark is under way at a time, with its mark standing as long, whoever begins or ends one without; and that
only a Sagem box has those. On a Philips box a DiSEqC call is refused and changes nothing. `I2cBus`: `OkMeansDone` with what a signal
does to it; `TimeKept` goes through the conversions of the clock's registers (BCD, month, year in the century). It assumes transfers that receive last,
as all drivers make: the answer looks a send up by its number among the sends, so one after a receive is looked up in the wrong
descriptor, and is answered well though nobody acknowledged it. `ScartSwitch`: three
chips, of which one sends a copy of its registers: `ChipFollows` excepts two copies that overtake each other. `Display`:
the console against the last lines of the text. `MmcCard`: requests block by block with failures and a partition
table that changes under them, and the lines taken for the wiring; the five drivers have the same text for
this, modelled once. `IdeChannel`: the counter of the words left is
modulo `Wrap` (2^32 in the code), which is more than a call can ask for (`IdeChannelAssumption`).

### DriverLoad

A function is a sequence of steps: what it takes, gives back, uses without asking, asks for, and what is undone when it
fails. `DriverLoad` follows one driver through loading, failing at any step, running, unloading, with its
interrupts, timers, tasks and threads running at any moment, also afterwards. The decoder is also restarted, as a change of
the video system, of the sample rate or a command that gets no answer does; a demodulator is attached and detached as its bus comes
and goes, and counts as used while it is attached. Probing a bus counts as a use of `avs` and `saa7126` that is never given
back, so these two are never unloaded. Three sets name where the code does not keep
its properties; every other way through every driver is clean.

*What runs without its own* (`late`):

* `avia_av`: when the decoder does not come up the mapping goes before the interrupt, and the watchdog's thread is never ended: it
  looks at memory that a failed load or wakeup has unmapped, and runs on after the module is gone.
* `avia_gt_enx`: neither its watchdog's thread nor the message queue's task is waited for at unloading.
* `avs`: a load that fails at its device node leaves the timer running, and the task it starts. `cam`, `dbox2_fp`: the task is not
  waited for, and uses the client; `dbox2_fp` also leaves its restart and power-off hooks set while the client goes.
* `dbox2_fp_input`: the key-up timer may be pending as the input device is unregistered.
* `dbox2_i2c`: the interrupt goes before the adapter that needs it. `dboxide_24`: the base address is cleared before
  the interface is unregistered.
* `ds1307`, `saa7126`: the device node stays when the client could not be attached, and its data is freed; the clock's
  `/proc` entry asks a client there may not be.
* `dvb_i2c_bridge`: a client is freed and stays on the list of its adapter (`dvb_i2c_bridge.c:68`), and a bus whose client could not be
  attached is never taken off.
* `at76c651`: the `/proc` entry is made as `driver/at76c651` and removed as `at76c651` (`at76c651.c:564`, `584`), so it stays;
  that of `sqc6100` stays after an attach that failed. `stv0297`: not counted as used, and not detached when there was no memory to
  note that it is attached.
* `tda8044h`, `tda80xx`, `ves1x93`: the state is freed before the frontend that uses it is unregistered; the
  interrupt of the first is freed by a pointer nobody has set, the queued work of the second is not waited for.

*What stays behind* (`left`): the lock of the I2C buses and devices, when there is no memory for one of them (`dvb_i2c.c:194`, `242`), and the
spin lock of `avs` (`avs_core.c:533`); each demodulator's entry on its bus's list, which is taken off and not freed; what an attach or
detect that failed had taken (it undoes nothing in the demodulators, and leaves the node of `ds1307`, both clients of the bridge and `avs`);
the infrared interrupts of `avia_gt_lirc`, the demux and its user of `avia_gt_napi` and `dummyadap`, `defdata` of
`dbox2_fp`, mapping and chip select of both `dboxide`, the devfs directory of `dvbdev`; at unloading, the tasks, timers and threads above, the
frontend `dummyadap` stays connected to, and the reference to eth0 of `dvb2eth`.

*What is given back without being there* (`unheld`): interrupt and mapping of `avia_av` after a restart that failed, a
pointer `cam` never set, and the adapter of `avs` when no switch was found: its load goes through a null pointer.

## 4. Runs

Bounds are chosen so that each table can fill up, each slot can be reused, and
each pair of actors can meet; a third actor is there where two neighbours
of one are different from one.

| run | instance | shows |
|---|---|---|
| `demux_api` | 3 feeds, 3 filters; two PES clients that compete for one decoder or want none, one interface; the driver may refuse; no signals | when calls are not interrupted, slots are never shared, filter slots never lost, the driver runs live feeds with filters, nobody hangs, although a refused start loses its feed for good |
| `demux_signals` | 2 feeds, 2 filters for three clients, two of which compete for two decoders; signals, refusals, a bad pid | type correctness and reservations survive everything; what takes a decoder away. Both runs are symmetric in the PES clients, which differ in nothing; no liveness is checked |
| `dmxdev_sections` | 3 device filters on 2 feeds and 2 section filters, one-shot and timed, one may move to a second pid | sharing, restarting and running out of either table |
| `dmxdev_mixed` | a section and a PES user in the same slots, a pid the demux refuses | whose data is delivered where, and slot reuse across types |
| `core` | the common part, twelve systems (`MCCore`) | streams whole, registrations hold, tuned as asked, `fe->sem` a mutex, the event queue refined, network feeds follow |
| `avia` | the Avia chips, sixteen systems (`MCAvia`) | interrupts handled, feeds heard, rings accounted, no section dropped, decoder, picture, sound and keys as asked |
| `board` | the rest of the box and the loading of every driver, thirteen systems (`MCBoard`) | the CAM's bus, clean loading, messages answered truly, switch and display as told, data carried whole |
| `live` | the systems in which somebody waits, twenty (`MCLive`) | nobody waits for good; what has settled is followed; a section feed recovers; and the thread's safety |
| `dmxdev_stop` | one filter, its timer may expire inside a call | violation, section 7 |
| `sections_loss` | four lengths, one loss | violation, section 7 |
| `fe_thread_suspend` | one user | violation, section 7 |
| `ring_buffer` | a ring of 4 bytes, calls of 1 and 3 | violation, section 7 |

### Sums

`MCCore`, `MCAvia`, `MCBoard` and `MCLive` each instantiate many modules that share no variable. `component` is chosen
in the initial state and never changes; only that component's steps are enabled, and the others stay in one of their
initial states. A run thus goes through the state spaces one after another, as separate runs would, and its states are the sum of
theirs, not the product. One of the modules is extended instead of instantiated (`DvbNet`, `GtInterrupts`,
`Cam`, `FrontendThread`), so that the run checks its properties under the names its theorems have.

A property of a sum is a conjunction of the components' properties: each speaks of one component's variables, and holds of the others
because they stand still. It also contains their type invariants.

| property | of |
|---|---|
| `FiltersFollow`, `FeedOnlyWhileUp` | `DvbNet` |
| `StreamKept` | `DmxBuffer` (`ReadsInOrder`, `RingHoldsUnread`), `DmxReads` (`InStep`), `RingBuffer` (`InOrderUntilWrap`), `SectionAssembly` (`EverySectionDelivered`), `PacketStream` (`PacketsKept`, `Resyncs`) |
| `RegistrationsHold` | `DvbDevices` (`MinorsUnique`, `ModulesHeld`, `DetachedWithOwnState`), `FrontendGroup` (`NoDanglingHook`), `DmxReads` (`DvrLeavesNothing`) |
| `TunedAsAsked` | `Demodulators` (`AnsweredIsTuned`, `GateClosed`), `FrontendGroup` (`KeepApart`) |
| `SemIsMutex`, `ImplementsQueue` | `FrontendEvents` |
| `OpenMeansHandled` | `GtInterrupts` |
| `FeedsHeard` | `GtFeeds`: `QueuesAccounted`, `SectionFiltersAccounted`, `EntriesLive`, `InterruptsStayOn`, `HearsItsPid`, `DeliversOwnPid` |
| `RingsAccounted` | `GtRing` (`OverflowNoticed`, `NextIrqAhead`), `GtPlayback` (`NothingOverwritten`) |
| `NoSectionDropped` | `UcodeFilters` |
| `DecoderObeys` | `AvPlayback` (`PlaysItsFeed`), `AvCommand` (`NoCommandDropped`), `GtClock` (`ReloadsOnlyWhenLost`), `EventQueues` (`OldEventsOnlyAfterRace`) |
| `PictureAsTold` | `FrameBuffer` (`ShownAsTold`, `StaysInPlace`, `ColoursKept`, `CopyMoves`), `SoundPicture` (`PigShowsCapture`) |
| `SoundAndKeysInOrder` | `SoundPicture` (`HeardInOrder`, `PlaysUntouched`, `TakesWhatIsOffered`), `Infrared` (`PulsesInOrder`, `FramesArrive`, `DownHasTimer`) |
| `OneOnTheBus` | `Cam` |
| `DriversLoadCleanly` | `DriverLoad`: `HandlersHaveTheirs`, `LeavesNothing`, `UsesWhatItHolds` |
| `MessagesArrive` | `I2cBus` (`OkMeansDone`, `RunsForHolder`, `TimeKept`), `FrontProcessor` (`OneMessage`, `DishFollows`, `HeldKeyTimesOut`), `Cam` (`QueueWhole`) |
| `SwitchAndDisplayFollow` | `ScartSwitch` (`MuteKeepsChoice`, `ChipFollows`, `MixerKeepsVolume`), `Display` (`ConsoleShowsText`) |
| `DataCarriedWhole`, `NothingElseWritten` | `IdeChannel` (`ExactlyCount`), `MmcCard` (`OkMeansCarried`, `PortsGivenBack`, `NoLineStolen`; and the action property) |
| `PidNamesThread`, `FreedAfterThread` | `FrontendThread` |

The small instances, where a size says what can happen in them:

* `core`: a ring of 3 bytes under writes of up to 3 and reads of up to 2 (every alignment of two copies, exactly full, overflow); 7 bytes for sections
  of 4 and 5 (`read_sec` sees one and a half); packets of 3 or 4 bytes in pieces of up to 8; packets of 8 bytes with sections of 4 and
  13 (shorter than a packet, and over two or three); an event ring of 2 with three numbers for events; two
  frontends, hooks and callbacks; two adapters and two drivers with one further module; all seven demodulators. One
  network interface, as two have millions of states: interfaces share no state but the work queue and the
  number of feeds, and the theorems `FeedAlwaysOnlyWhileUp` and `FiltersAlwaysFollow` are for any number.
* `avia`: 7 feeds over 5 queues, 2 section slots and 5 microcode feeds (decoder with and without copy, clock recovery, recording and PES of one pid in every order, two
  section pids; out of queues and slots half way); a caller and the watchdog of the decoder, up to a state of which `PlaysItsFeed` says nothing any more
  (`DecoderBound`); a ring of 8 with up to 4 bytes of latency; 6 bytes for playback; clocks of 40 ticks; four PCM
  buffers of 3 samples; a receive ring of 3 pulses with frames of three words and four kinds of noise; filters as in section 3.
* `board`: transfers of 1 to 8 words with a counter modulo 32 (`MaxWords`, `Wrap`); a CAM queue of 8 bytes with messages of 3 and 4; two callers on every bus; a display of 2 by 2 characters; 4 half
  kilobytes on a card; times on leap days and out of range; every driver of the tree.
* In `avia` a conjunct about a component's tables is stated of the runs of that component only (`component = "feeding" => ...`): the others never change
  it.
* `live`: instances of the same kind, smaller. Callers, queues and readers of one kind are alike, so one of
  each is watched; the others are there to be in its way.

`core` has about 420 000 distinct states, `avia` 592 000, `board` 210 000, `live` 112 000; `avia` takes about three
minutes on two cores and each of the others less than two. The deadlock check is off in the sums, as components may come to an end at their
bounds; that nobody is stuck before is what `live` is for.

What these instances cannot show is what depends on the numbers the code has (4096 bytes of `secbuf`,
8 events, 31 queues, 10 users). They are parameters here; where the exact value decides (a section
length beyond 4096) it is a hazard of section 9. Four or more clients of one table are not
checked either, except where section 6 proves the property for any number.

The passing runs of `DmxDev` keep `HwMayFail` and `TimerRaces` FALSE: with the first one refused start
loses its slots (`dmxdev.c:626`, `680`), with the second section 7 applies, and every property
would report these again. `Signals` is FALSE there too, as a close that is interrupted (`dmxdev.c:730`) loses its filter.

Every property of a passing run is broken by a mutant of the code's definitions,
so none holds by the shape of the model alone. For a sum there is one mutant for each
property, of one of its components.

## 5. Fairness

Each module with liveness states it by itself (`Fairness` or `FairSpec`), with a property of its own:
`ReadReturns` (`DmxBuffer`, `SoundPicture`), `RecoversFromLoss`, `SleeperIsWoken`, `SuspendedAfterClose`, `OpenReturns`,
`FindsCarrier`, `TuningAnswered`, `SizeIsLearnt`, `StatusCatchesUp`, `Ends`, `PacketsSeen`, `OverflowDropped`,
`WriteEnds`, `CallReturns`, `CallsReturn`, `ChangeTold`, `CallsEnd`, `WriteReturns`, `InterruptComesBack` (`Cam`,
`FrontProcessor`). `MCLive` checks them in merged form. "Whenever somebody waits he goes on in the end" is
`[]<>~Waiting` for whoever waits in the component that runs (`NobodyWaitsForGood`), and "what has settled is followed" is
`<>[]Settled => <>[]Followed` (`SettledIsFollowed`). `RecoversFromLoss` stands by itself.

Its fairness is merged alike: only one component moves, so one condition serves an action of each.

* `Runs`, `Answers`, `GoesOn`, `ComesLast` (weak): what runs by itself once it can. A process or task inside the driver
  goes on; a sleep ends at its timeout; a controller works off its descriptors; the decoder, the drive and the chip's units take what
  they are given; a raised interrupt is served; the stream and the clock go on. No user has to open, close or call
  anything.
* `Granted`, `GrantedNext` (strong): what is given to one of several who want it: semaphores, the bus, the
  decoder's mailbox. Linux semaphores wake one waiter at a time and a waiter competes with newcomers, so this is an assumption about
  the scheduler: a newcomer may overtake a waiter any number of times but not for ever. Of a queue's interrupt it
  says that a queue that goes on receiving raises it again.

Two exceptions are in the properties: a reader of frontend events may wait while opens reset
the ring for ever, and `RecoversFromLoss` needs packets that only continue a section (without them, section 7).

## 6. Proofs

Eight modules hold theorems: `DvbDemuxOps` (lemmas), `DvbDemux_proofs`, `DmxDev_proofs`, `FrontendEvents`,
`FrontendThread`, `DvbNet`, `Avia_proofs` and `Board_proofs`. All are for every value of the constants, from the assumptions
the modules name (`DemuxAssumption`, `ClientAssumption`, `EventsAssumption`, `ThreadAssumption`, `CamAssumption`, `QueuesAssumption`,
`NoneAssumption`, `NetAssumption`, `RingAssumption`, `PlaybackAssumption`, `ClockAssumption`, `EventAssumption`, `PidsAssumption`,
`IdeChannelAssumption`, `MmcCardAssumption`, `I2cBusAssumption`, `FrontProcessorAssumption`: NULL values are no slots, sets of actors are disjoint, sizes are not zero, and what
section 3 says of a ring, the clock and the fifo), and from the hypothesis in the last column, where there is one. The theorems of `Avia_proofs`
and `Board_proofs` about a sum are for every value of the constants of those components; `AnySpec` is the specification the run checks.

| theorem | says | for |
|---|---|---|
| `TypeCorrect` (`DvbDemux_proofs`) | `TypeOK` | everything |
| `ReservationsLive` | `NoDanglingPesFilter`: a reservation names a live feed of that stream type | everything |
| `FeedsExclusive` | `FeedsNotShared`: a slot a client points at is in use and nobody else points at it | everything |
| `DecodersExclusive` | `DecoderExclusiveUntilRobbed`: one running feed per decoder, until a feed that was refused takes a reservation | everything |
| `FiltersAccounted` | `FilterSlotsAccounted`: no filter slot lost or given twice | `~Signals` |
| `HardwareFollows` | `HardwareRunsLiveFeeds`: the driver runs live, listed feeds that have a filter | `~Signals` |
| `NobodyHangs` | `NoSelfDeadlock`: nobody takes the demux mutex twice | `~Signals` |
| `Typed`, `TimersStop` (`DmxDev_proofs`) | `TypeOK`, `TimerOnlyWhileGoing` | everything |
| `GoingFed`, `SharedByPid`, `SlotsAccounted`, `EverybodyLives`, `DeliveredToOwner`, `OwnPidRead` | `GoingIsFed`, `OneFeedPerPid`, `NoSlotLost`, `NobodyDies`, `DeliveryToOwner`, `BufferOwnPid` | `Calm` |
| `QueueImplemented` (`FrontendEvents`) | the ring implements the queue of `FeEventQueue`, step by step | one reader |
| `SemaphoreHolds` | `fe->sem` has one holder until a signal | a finite set of callers |
| `ThreadTypeCorrect`, `PidAlwaysNamesThread`, `FreedAfterThreadUnlessWoken` (`FrontendThread`) | types; `thread_pid` is set while a thread runs; the frontend is freed under it only after a signal or, without `FE_CAN_RECOVER`, its own tuning | everything |
| `InterruptsTypeCorrect`, `OpenIsAlwaysHandled` (`Avia_proofs`) | types; an unmasked interrupt has a handler | queues in two halves, any window |
| `RingsAccountedHolds` | `RingsAccounted`: no overflow goes unnoticed, the next interrupt is ahead, nothing unplayed is overwritten | any sizes, chunks and latency within `RingAssumption` |
| `DecoderObeysHolds` | `DecoderObeys`: the decoder plays what its feed says although states are noted after commands that sleep, for types that are not `astray`; no command is written over another, the clock is reloaded only when lost, no old event without a race | any callers, pids, readers, rings and counters |
| `CamTypeCorrect`, `AlwaysOneOnTheBus` (`Board_proofs`) | types; one at a time on the bus up to the first CA id | everything |
| `CamQueueWhole` | `QueueWhole`: what is read from the CAM's ring is what was put in, up to its two exceptions | any ring and messages |
| `MessagesArriveHolds` | `MessagesArrive`: a transfer that is answered well was acknowledged, the clock gives the time it was set to, one marked message at a time goes to the dish, which has the values kept, a held key has its timer | any callers, times, keys and values, transfers that receive last |
| `DataCarriedWholeHolds` | `DataCarriedWhole`: an answered transfer carried its words in order and no more, an answered request its sectors, lines come back as they were found and none is stolen | any lengths, counter, card, wirings' other uses |
| `NothingElseIsWritten` | `NothingElseWritten`: a step of the disk writes no sector its request did not name | the same |
| `NetTypeCorrect`, `FeedAlwaysOnlyWhileUp` (`DvbNet`) | types; a closed interface holds a feed only after a stray work, and no filter is lost | any number of interfaces |
| `FiltersAlwaysFollow` | `FiltersFollow`: an open interface with no work left has only filters of its lists as they are now, and all of them, started, unless the demux refused a filter or the start | the same |

The hypotheses are those of the runs that check the property, and none can go.
With `Signals` an interrupted release keeps its slot, so `FilterSlotsAccounted` and its two companions fail (section 7).
`Calm == ~Signals /\ ~HwMayFail /\ ~TimerRaces`, and TLC refutes outside it:

| with | TLC refutes | TLC finds true |
|---|---|---|
| `Signals` | `GoingIsFed`, `NoSlotLost`, `NobodyDies`, `DeliveryToOwner`, `BufferOwnPid` | `OneFeedPerPid` |
| `HwMayFail` | `GoingIsFed`, `NoSlotLost`, `DeliveryToOwner` | `OneFeedPerPid`, `NobodyDies`, `BufferOwnPid` |
| `TimerRaces` | `GoingIsFed`, `OneFeedPerPid`, `NoSlotLost`, `NobodyDies` | `DeliveryToOwner`, `BufferOwnPid` |

### The demux

`NoDanglingPesFilter` is not inductive: `ts_feed_set` reserves
a type for a feed, and `release_ts_feed` clears `pesfilter[pes_type]` of the feed
it releases, with whatever `pes_type` an earlier use of the slot left. That is harmless only because of two facts about *clients*:
one that is between allocate and set holds a feed no reservation names, and a client points at a feed exactly
while it is in the middle of a sequence. Hence

    IInv == TypeOK /\ NoDanglingPesFilter /\ FeedsNotShared /\ HeldByPhase /\ ReservedByConfigured

`FeedsNotShared` is part of it: a release by one client would otherwise free the
feed another's reservation names.

First what each call does to a demux, whoever makes it: it keeps the other feeds
(`OthersKept`), and either keeps the feed's own type (`Kept`), takes a free
one (`Allocated`), or changes its reservation; one lemma per call (`AllocateTs` to
`ReleaseSection`). Then five lemmas about a client making such a call: it keeps its feed (`KeepStep`), takes one (`TakeStep`), was
refused (`RefusedStep`), lets go (`LetGoStep`), or reserves (`ReserveStep`), each of which preserves `IInv`. `InvNext` has a
step for each of the twelve actions and cites the two lemmas that fit it.

`QuietInv` adds to it what holds while no call is interrupted: `Sound(dmx)` (filters and feeds name each other, what
filters is on the list and has a filter, the driver runs exactly what filters), and for each client the state its feed is in between its calls
(`PesPhase`, `NetPhase`). The call that releases a filter is safe only because its caller has stopped the feed
before, which is a fact about the client and not about the demux: that is why `NoSelfDeadlock` needs the phases. The lemmas about `Sound` are in
`DvbDemuxOps`, one per call, and serve `DmxDev` too.

`RobInv == HeldTypes /\ Listed(dmx) /\ (robbed \/ Settled(dmx))` holds with interrupted calls as well: a transport stream feed
runs only from `feed_list`, and one that is listed holds the reservation of its decoder, as long as none was taken from it.

### The demux device

    IInv == Orderly(World, NoFeed) /\ \A k \in Devs : Fresh(fil[k])

`Orderly(w, p)` says that a running filter and its feed name each other, that every
feed but `p` filters, every feed and every section filter in use has its running filter, and filters of one pid share.
`p` is what makes it provable in parts: starting or stopping one filter on a shared feed stops the feed, changes its filters, and starts it
again, and in between the neighbours' feed *waits*. `Pause` makes a feed wait, `Resume` ends it, and the lemmas about the parts of an ioctl
(`StoppedFilter`, `Detach`, `NewFeed`, `RunSection`, ...) say what they leave of `Orderly(w, p)`; a call
that ends with no feed waiting has restored the invariant. `Tame` is the
part that survives signals, refusals and timers inside a call: types, and that a timer is pending only where it may be. It follows every
ioctl through all its exits, with `Registered` (of `DvbDemuxOps`) below it.

### The frontend's events

The refinement mapping reads the segment from `eventr` to `eventw` as the abstract queue. `Segment*` say what appending, taking the head and dropping
the oldest do to a segment that wraps around, for every `MaxEvent`; `RingInv` says that one adder at a time is inside, that
its slot is not in the segment until `eventw` moves, and `EventSeen` that a reader's copy is what the abstract queue gave it. `OneReader` is needed: of two
readers that one event woke (`dvb_frontend.c:272`) the second does not look again after it has `fe->sem`, takes from an empty ring and moves `eventr`
past `eventw` (`dvb_frontend.c:288`). An open that resets the ring in
the middle of an operation tears it (hazard in section 9), so the theorem is about steps until then.
`SemAccounted` (`sem + Cardinality(Claiming) <= 1 + signals`) is what makes `SemaphoreHolds` inductive.

### The others

* `ThreadInv` (`Typed`, `OneWriter`, `WhoIsWhere` and both properties): one process at most writes, nobody is inside the
  device while its driver leaves, `exit` is set just then, and only a driver that does not recover by itself is told
  to. So an open starts a thread only where `thread_pid` is clear, and the driver goes only where the thread has cleared it.
* `CamInv` (`TypeOK`, no task while the interrupt is open, `BusyIsTaken` until the first answer): who is on the bus has taken
  `cam_busy` down to zero. The answer breaks it, by the code's own doing.
* `InterruptsInv` (`TypeOK /\ OpenMeansHandled`): the interrupt that is looked at is one of a queue, and packets are waited for only
  where there is a handler; so clearing, serving and detaching in between keep the mask inside the table.
* `NetInv` (`NetTyped /\ FiltersCounted /\ FeedOnlyWhileUp`): a feed is stopped with the counts it was started
  with (`FiltersCounted`), because mode and group count change only between a stop and a start.
* `FollowInv` (`NetInv` and `Owed` for every interface): what is not up to date on an open interface has its work in the queue. A work queued
  before a close and run after the next open does no harm, because the open queued one of its own.

* `RingInv`: as long as the
  counts are known (`~resynced`), the ghosts `fresh`, `late` and `unread` are the distances between the positions on the ring, and the next
  interrupt lies ahead of the chip by what may still come. The arithmetic is one lemma, `Modulo`: what `%` does to a number at most one
  turn off. It needs what `Latency` may be, and a ring whose quarters are whole (`Ring!RingAssumption`).
* `PlaybackInv`: a piece is no longer than what is to do and than the room there was when it was looked up, and only the chip makes room meanwhile.
* `CommandInv` (`Command!TypeOK /\ Command!NoCommandDropped`) is inductive by itself; the work is in the callers that restart the decoder under one another.
* `ClockInv`: while the clock need not be reloaded, what the driver keeps and what the chip shows differ by `off`, up to whole turns of the
  counters, and those do not show in the 32 bits the code compares.
* `DecoderInv`: of each call under way, what it has still to write and to note fits the type it is about, and a type about which no
  call is under way, or one that nothing has met, has in the decoder what its play state says: `PlaysItsFeed` speaks only of the moments when no call is.
* `EventsInv`: until a reader was overtaken, the unread events are the distance between the ring's positions, and who goes to take one finds one.
* `IdeInv` (`IdeTyped`, `Carrying`, `ExactlyCount`) says for each place of a call how many words have gone by: those in the caller's
  buffer, in the fifo and in the drive follow each other (`Follow`), a read in fours is a multiple of four ahead of the buffer, and the chip is
  told to stop with just as much in the fifo as the call still wants. The 2^32 of the counter is never reached: `MaxWords < Wrap`.
* `DiskInv` (`Underway`): a request that is being carried out has written, or read, the blocks before `done` and stands at the address of its
  first one plus `done`, while blocks are half kilobytes and the partitions were left alone.
  `NothingElseIsWritten` follows from it for each step.
* `LinesInv`: a line is as it was found unless it belongs to the wiring in use, and then the copy that was kept (`mmcSaved`) is; so trying the
  next wiring or giving up restores it, whatever was tried before.

* `BusInv` (`Worked`): all descriptors before the one the controller works on were acknowledged, or the last of them was not and it has stopped;
  and those of receives further on are empty. A signal leaves the controller running, so an answer is read meanwhile: with a receive at the end
  it is good only if that descriptor is full. That sends come first makes "the n-th send" and "the n-th descriptor" the same (`BeforeAll`).
* `TimeInv`: a register that is no longer to be written has what was given, one no longer to be read has been read as it is;
  `TimeBack` takes a valid time through the registers and back.
* `DishInv`: one caller at a time is under way, and what he sends is what is kept, unless a call was refused or lost meanwhile.
* `InputInv`: the key of the remote control that is down is the one remembered and its timer runs; for a new remote control also that the
  toggle bits are remembered, without which a key of another code would not release it.
* `QueueWhole` of `Cam` is inductive with its types.

Only model-checked are liveness under fairness, anything said with ENABLED, and these conjunctions of `MCCore`, `MCAvia` and `MCBoard`:

* `StreamKept` contains `SectionAssembly`, whose packet loop is a `RECURSIVE` operator, and byte streams whose order is a matter of
  induction over their length. `RegistrationsHold`, `TunedAsAsked` and `DriversLoadCleanly` speak of what sequences of steps compute, over the
  driver tables of the tree, which have no parameter worth generalising.
* `FeedsHeard`, `NoSectionDropped`: folds over pids and queues in `GtFeeds`, and over filters and masks in `UcodeFilters`.
* `PictureAsTold`, `SoundAndKeysInOrder`, `SwitchAndDisplayFollow`: not attempted. Parts of each are sequences
  whose contents need induction (`HeardInOrder`, `FramesArrive`, `ConsoleShowsText`).
* `SemIsMutex` and `ImplementsQueue` are proved in `FrontendEvents` (`SemaphoreHolds`, `QueueImplemented`) for every instance; `MCCore` checks
  one of them under names of its own.

## 7. Where the code does something else than it says

Four runs have a violation as their expected result.

* `dmxdev_stop` (`dmxdev.c:428`): `feed_stop` marks a filter as stopped and deletes its timer
  *afterwards*. A timer that expires in between marks it timed out again, which counts as
  running, with a feed pointer that is then cleared. The next restart of a feed of that pid goes through the NULL
  pointer. `StopMarksStopped` is the comment at line 421.
* `sections_loss` (`dvb_demux.c:305`): the start of a section is copied to the start of
  `secbuf`, but its length is *added* to `secbufp`. After a lost packet `secbufp` is not
  zero there, and the next section is assembled at the wrong place. While every packet starts a section that
  continues in the next, nothing ever clears it.
* `fe_thread_suspend` (`dvb_frontend.c:539`): an open for writing finds a thread that has decided
  to leave but not left, takes it for one at work and returns. The hardware is then suspended, and the device is open
  with nobody to tune it.
* `ring_buffer` (`dvb_ringbuffer.c:158`): a read or a write that is cut in two at the end of the ring sets its index
  to 0 and then adds the length of the whole call. The reader skips bytes and gets old ones, although both keep to the rules of
  `dvb_ringbuffer.h`.

Four more statements of the code are definitions here that are known not to hold, each with the
states that break it in its comment: `DecoderExclusive` (`DvbDemux`), `BusyIsMutex` (`Cam`), `StartsClean` (`DvbNet`),
`PositionInBounds` (`GtInterrupts`). The checked properties say what remains.

## 8. Not modelled, and why

Inside modelled components: matching a section against the filters' masks in software, the users count of `open` and
`close` of a demux, descrambling keys (`dvb_demux`, `dmxdev`); an unregistration that walks the list of devices beside an open
(`dvbdev`); the C-interface microcode and the loading of microcode into the chip (`avia_gt`); the upload of the decoder's firmware;
the single settings of a chip's register that nothing depends on (mixing, contrast, cursor, colour bits, the tuner's
four bytes).

Left out as whole components: the decoder's on-screen display (`avia_av_osd.c`, whose initialisation is compiled out), most
of `dvb_filter.c` (compiled out, and the rest has no caller), the video encoder's and teletext's register settings (only their loading
is modelled), `aviaEXT` and the box's description (loading only), the conversion of a packet for Ethernet (loading
only), kernel version glue, data (microcode, fonts), user space (`directfb`) and headers. A model of those would repeat
assignments. The arithmetic of demodulator registers and error counters is abstracted to what a register is *for*.

External code enters in one place each: the tuner driver's functions (`FrontendThread`, `FrontendTuning`), the microcode's search
table and its messages (`GtFeeds`), the chips' own state machines (in each module under "the chip"), the kernel's semaphores,
timers, work queues and network core.

## 9. Hazards

`PROJECT.json` lists forty hazards, each at its line, with the properties that answer to them; where a property excepts just
what the code does there, the note says so. Further places where this
code can go wrong in ways a test would hardly find; some are in a model, whose properties except what follows
from them, the others are not covered:

- `dvb-core/dmxdev.c:476` (stale state): A restart of a shared feed calls start_filtering through the feed pointer of another filter, which is NULL after a stop that lost the race with its timer. The runs let no timer expire inside a call (TimerRaces FALSE); with it TLC finds the NULL pointer: NobodyDies and GoingIsFed are violated.
- `dvb-core/dmxdev.c:626` (partial failure): The driver refuses to start a feed: the new section filter stays in the chain of a feed its owner no longer stops, so a section can be delivered to a filter that was since set to another pid; a PES feed in the same place (line 680) is never released. The passing runs keep HwMayFail FALSE, which excludes the refusal. With it TLC finds DeliveryToOwner, GoingIsFed and NoSlotLost violated by one refused start.
- `dvb-core/dmxdev.c:838` (stale state): An overflow while the rest of a section is read: todo outlives the bytes it counts, and read_sec takes the next sections' payload for headers. It happens: read_sec cuts in the wrong places after it. StreamKept excepts a reader so struck by name (astray), until the filter is stopped.
- `dvb-core/dvb_frontend.c:659` (interleaving): An open for writing empties the ring without events->sem or fe->sem. An add that sleeps on the I2C bus then publishes an index computed before, and a get that had seen an event reads past eventw: the ring is full of old events. ImplementsQueue covers an add that sleeps between slot and publication, and an open before or after it; an open in between is excepted by name (torn), and what follows happens as told.
- `avia/avia_gt_dmx.c:139` (interleaving): One register selects the half of the queues whose pointers are visible; the interrupt handler selects the other half between a process's selection and its reads. GtInterrupts has the two halves; PositionInBounds (what the BUG() at avia_gt_dmx.c:548 asserts) is stated there and violated by it. No property that the code keeps would show it.
- `dvb-core/dmxdev.c:374` (stale state): buffer.error survives a stop and a start: a filter started anew drops every section until the old error has been read.
- `dvb-core/dmxdev.c:197` (protocol sequence): Every open of the DVR device for reading allocates a new buffer over the old one, and every close frees it: the second reader takes the first one's data. DmxReads has the two openers and excepts what they take from each other.
- `dvb-core/dmxdev.c:209` (atomicity): An open of the DVR device for writing stores the demux's frontend to restore it at close; a second writer, or a frontend connected in between, makes close restore the wrong one.
- `dvb-core/dmxdev.c:853` (deadlock): A reader sleeps for data holding its filter's mutex; an ioctl on the same file then holds dmxdev->mutex and waits for it: every other call on the device waits for data of one pid. Plain from the code, and no comment or document forbids it.
- `dvb-core/dmxdev.c:730` (partial failure): A close interrupted while it waits for a mutex returns -ERESTARTSYS, which release ignores: the file is gone and its filter and feeds stay. DmxDev runs without signals.
- `dvb-core/dmxdev.c:445` (protocol sequence): Restarting a shared feed sets the first filter of the pid to GO whatever it was: a one-shot filter that is DONE, or one that TIMEDOUT, delivers again.
- `dvb-core/dmxdev.c:574` (ordering): A second filter that shares a feed inherits the CRC setting of the first.
- `dvb-core/dvb_demux.c:280` (numeric edge): A section's length field may reach 4098 while secbuf has 4096 bytes; only sections of a legal length are sent in Sections.
- `dvb-core/dvb_frontend.c:272` (interleaving): One event wakes every reader that sleeps in FE_GET_EVENT, and the second takes no second look: EventQueues has both readers, and excepts what follows (OldEventsOnlyAfterRace).
- `dvb-core/dvb_frontend.c:259` (stale state): The overflow flag outlives an open that empties the queue: the first FE_GET_EVENT of a new user reports a loss it did not suffer.
- `dvb-core/dvb_frontend.c:978` (protocol sequence): dvb_core's fops do not hold the frontend driver's module: it can be unloaded while the device is open.
- `dvb-core/dvbdev.c:340` (partial failure): An interrupted dvb_unregister_adapter leaves the adapter in the list although its directory is gone, and its caller goes on unloading.
- `dvb-core/dvb_net.c:507` (partial failure): get_if marks an interface slot that is not given back when the memory or the registration fails.
- `avia/avia_gt_dmx.c:131` (stale state): A client that leaves turns off the interrupt of a system queue that its own decoder feed had enabled.
- `avia/avia_gt_dmx.c:787` (stale state): queue_stop leaves queue_client behind; the feeds' order of calls keeps that from mattering.
- `avia/avia_gt_napi.c:678` (protocol sequence): Only user feeds in TS mode are in ts_pid (also lines 448-450): a PES or generic feed that came second on a decoder's pid has no tap.
- `avia/avia_gt_ucode.c:722` (protocol sequence): The second user feed of a pid is made a tap and never becomes active when the first is stopped.
- `avia/avia_av_core.c:1085` (partial failure): When a restart fails the decoder's memory stays unmapped (aviamem is NULL), and later commands write through it.
- `avia/avia_gt_pcm.c:381` (interleaving): The reports of both kinds of sound, AD and PF, have one handler that retires the head of the busy list for each: should the chip raise both, parts are retired early. SoundPicture has the PF report.
- `fp/dbox2_fp_sec.c:90` (interleaving): A Sagem box sends DiSEqC without marking the dish busy: two messages may go at a time. FrontProcessor has it and excepts it (OneMessage).
- `avia/avia_gt_ucode.c:145` (numeric edge): free_section_filter reads section->idx before it looks whether section is NULL.
- `avia/avia_gt_dmx.c:1281` (liveness): Playback waits until the whole queue is free and ignores signals: when the decoder stops, the writer cannot be ended.
- `event/event.c:63` (ordering): Writers take event_lock without masking interrupts; a writer in interrupt context spins on it for good.
- `event/event.c:202` (liveness): The read loop sets TASK_INTERRUPTIBLE once: after its first wakeup without an event for it, a reader spins instead of sleeping.
- `event/event.c:122` (interleaving): A reader's slot is published before its filter is set. EventQueues has the two steps.
- `cam/cam.c:240` (resource bound): A message of len bytes needs len + 1 places in the ring, but only len are asked for: the write pointer laps the reader. Cam has the ring and excepts a lap (QueueWhole).
- `avia/avia_av_napi.c:200` (interleaving): Of two readers woken by one video event the second advances the read index past the write index. EventQueues has both.
- `avia/avia_gt_pcm.c:282` (stale state): The format is changed while parts in the old one are queued.
- `avia/avia_gt_ir.c:158` (numeric edge): The receive ring is written modulo RX_MAX and read modulo RX_MAX + 1: the reader leaves the array by one and falls out of step. Infrared has both indices.
- `avia/avia_gt_lirc.c:223` (interleaving): The buffer of pulses is static: a writer that sleeps sends another's.
- `avia/avia_gt_capture.c:173` (numeric edge): An output width of 0 divides by zero; an output larger than the maximum is not refused.
- `fp/dbox2_fp_rc.c:99` (timeout retry): The key-up timer clears last_key between the handler's tests of timer_pending and of last_key; two remote controls share one timer with different data.
- `fp/dbox2_fp_sec.c:189` (partial failure): One message to the dish that is lost disables the module for good, and a refused value is kept as if it were set.
- `fp/dbox2_fp_core.c:531` (liveness): An interrupt nobody has a handler for is read again for ever, in keventd.
- `avs/avs_core.c:533` (partial failure): avs_event_init returns without memory and with avs_event_lock held.
- `frontends/tda80xx.c:674` (stale state): The status is cached by the interrupt: after FE_SET_FRONTEND the lock of the old channel is answered until the next one.
- `frontends/tda80xx.c:638` (partial failure): What the chip refused is answered 0 (also ves1x93.c:538).
- `frontends/ves1x93.c:630` (ordering): The chip's state is freed before the frontend is unregistered (also tda8044h.c:825, tda80xx.c:821).
- `lcd/lcd-ks0713.c:435` (numeric edge): A read after a seek beyond row 0 starts at a negative column; a loop at 744 draws one byte too many.
- `ide/main.c:384` (numeric edge): The counter of the words left has no sign and goes down by four: a write of a number of words that is no multiple of four never ends (the lines after the loop were meant for two). IdeChannel has the counter; ExactlyCount is about the other calls.

## 10. Plan

Done, in this order: `DvbDemuxOps` and `DvbDemux` (everything else depends on the slots) with their proofs; `DmxDev` over the same
operators; buffers, section assembly and the frontend's queue and thread; the tables of the hardware demultiplexer; its interrupts, rings,
clock and filters; network interfaces, tuning, registration; the decoder; the board; loading; and the theorems of section 6.

Left, most useful first:

1. `DmxDev` with `HwMayFail` (`OneFeedPerPid`, `NobodyDies`, `BufferOwnPid`) and with `TimerRaces`
   (`DeliveryToOwner`, `BufferOwnPid`): TLC finds them true, and `Orderly` does not hold there.
2. `RingHoldsUnread` for every size; `OkMeansDone` for any transfers; `ChipFollows` for any callers; `QueuesAccounted` and `SectionFiltersAccounted`.
3. `DmxDev` with its mutexes as steps.
4. Two network interfaces with one feed between them, once the work queue is abstracted; sections matched in software behind
   `UcodeFilters`, so that what reaches a client is stated end to end.

## 11. Running it

    tlc -workers 2 -config MCCore.cfg MCCore
    tlc -workers 2 -config MCDvbDemux_signals.cfg MCDvbDemux
    tlapm DvbDemux_proofs.tla
    tlapm DmxDev_proofs.tla
    tlapm Board_proofs.tla

`PROJECT.json` pairs modules with configurations. Every passing run ends within a few
minutes on two cores; so do the longest proof modules, `DmxDev_proofs` and `Board_proofs`.
