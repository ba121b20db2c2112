------------------------------- MODULE MCBoard ------------------------------
(***************************************************************************)
(* The small instances of the drivers of the rest of the board: the CAM,   *)
(* the front processor, the I2C controller and the clock, the audio and    *)
(* video switch, the display, memory cards and disks; and the loading of   *)
(* all drivers.  component names the one that runs, the others stay as     *)
(* they are.  They share no variable, so one run of TLC looks at each of   *)
(* them by itself.                                                         *)
(***************************************************************************)
EXTENDS Cam

CONSTANTS
  Callers,                                      \* threads that use the dish, the bus and the switch
  Keys, Directions, Uses, Wires, MaxWaiting, MaxPresses, MaxLoads, \* of FrontProcessor
  Transfers, MaxBd, Times,                      \* of I2cBus
  MaxLost,                                      \* bound: messages that are not acknowledged
  CardDrivers, CardUnits, BlockLens, FirstSector, Delay, MaxWrites, Varied, \* of MmcCard
  WordCounts, MaxWords, Wrap, MaxSlow           \* of IdeChannel

VARIABLES
  component,  \* the one of the systems below that runs
  remote, used, presses, loads, busy, code, frontIrq, frontTask, status, todo, down, last,
  toggle, timer, oldCode, fn, half, moved, mid, sec, lnb, secStatus, pc, message, polls,
  missed, lost, wakeup, trigger, woken, board,
  holder, i2cPc, msgs, tx, rx, on, next, result, early, acked, reg, writing, new, reading,
  got, shown, truth, clean, i2cLost,
  type, shadow, saved, chip, scartPc, buffer, choice, crossed, scartMissed, mixed, pins,
  state, scartTimer, scartTask, scartReg, scartLost,
  ram, modify, row, col, mode, panel, lines, pure, drawn,
  driver, mmcState, present, card, detect, hardsect, nr_sects, start, request, lied, writes,
  reread, rejected, ports, before, mmcSaved, actualhard, wiringopt, forcehw, wirings,
  inited,
  fifo, ctrl, fetched, taken, idePc, op, ideBuffer, sent, problem, slow,
  driversDriver, phase, driversTodo, held, driversMissed

\* Values of Uses and Transfers.
BoardUses == {{0, 4}, {3, 4}, {1, 2}}
BoardTransfers == {<<"send">>, <<"recv">>, <<"send", "recv">>, <<"send", "send">>}

moment(y, mon, day, h, m, s, wday) ==
  [year |-> y, mon |-> mon, day |-> day, hour |-> h, min |-> m, sec |-> s, wday |-> wday]
(* Leap days early and late in the hundred years that a clock can hold,      *)
(* a year beyond, a leap day of a year without, a month and an hour that are *)
(* none.                                                                     *)
ClockTimes ==
  {moment(72, 1, 29, 23, 59, 59, 0), moment(168, 1, 29, 23, 59, 59, 0),
   moment(170, 0, 1, 1, 1, 1, 1), moment(101, 1, 29, 1, 1, 1, 1),
   moment(104, -1, 0, 1, 1, 1, 1), moment(104, 1, 29, 24, 1, 1, 1)}

Front == INSTANCE FrontProcessor WITH irq <- frontIrq, task <- frontTask
frontVars == <<remote, used, presses, loads, busy, code, frontIrq, frontTask, status, todo,
    down, last, toggle, timer, oldCode, fn, half, moved, mid, sec, lnb, secStatus, pc,
    message, polls, missed, lost, wakeup, trigger, woken, board>>
I2c == INSTANCE I2cBus WITH pc <- i2cPc, lost <- i2cLost
i2cVars == <<holder, i2cPc, msgs, tx, rx, on, next, result, early, acked, reg, writing, new,
    reading, got, shown, truth, clean, i2cLost>>
Scart == INSTANCE ScartSwitch WITH Chips <- {"cxa2092", "cxa2126", "stv6412"},
    Fields <- {"asw1", "mute"}, Values <- {0, 1, 2}, Volumes <- {37, 255},
    Pins <- {0, 2}, pc <- scartPc, missed <- scartMissed, timer <- scartTimer,
    task <- scartTask, reg <- scartReg, lost <- scartLost
scartVars == <<type, shadow, saved, chip, scartPc, buffer, choice, crossed, scartMissed,
    mixed, pins, state, scartTimer, scartTask, scartReg, scartLost>>
Lcd == INSTANCE Display WITH Rows <- 2, Cols <- 2, MaxDrawn <- 1,
    Texts <- {<<"a">>, <<"b", "nl">>, <<"a", "b", "b">>}
lcdVars == <<ram, modify, row, col, mode, panel, lines, pure, drawn>>
Mmc == INSTANCE MmcCard WITH Drivers <- CardDrivers, Units <- CardUnits,
    Start <- FirstSector, state <- mmcState, saved <- mmcSaved
mmcVars == <<driver, mmcState, present, card, detect, hardsect, nr_sects, start, request,
    lied, writes, reread, rejected, ports, before, mmcSaved, actualhard, wiringopt, forcehw,
    wirings, inited>>
Ide == INSTANCE IdeChannel WITH Counts <- WordCounts, pc <- idePc, buffer <- ideBuffer
ideVars == <<fifo, ctrl, fetched, taken, idePc, op, ideBuffer, sent, problem, slow>>
Drivers == INSTANCE DriverLoad WITH driver <- driversDriver, todo <- driversTodo,
    missed <- driversMissed
driversVars == <<driversDriver, phase, driversTodo, held, driversMissed>>

ASSUME PartsAssumption ==
  /\ Front!FrontProcessorAssumption
  /\ I2c!I2cBusAssumption
  /\ I2c!RateNotFound
  /\ Scart!ScartSwitchAssumption
  /\ Lcd!DisplayAssumption
  /\ Mmc!MmcCardAssumption
  /\ Ide!IdeChannelAssumption

-----------------------------------------------------------------------------
Components == {"cam", "inputs", "dish", "service", "bus", "clock", "settings", "watch",
    "display", "disk", "wiring", "ide", "drivers"}

\* What does not run stays as it is in one of its initial states.
AnyInit ==
  /\ component \in Components
  /\ Init
  /\ Front!Init
  /\ component # "dish" => mid = "nokia"
  /\ component # "service" => trigger = "user"
  /\ component # "inputs" => remote = "old" /\ used = (CHOOSE u \in Uses : TRUE)
  /\ I2c!Init
  /\ Scart!Init
  /\ component # "watch" => pins = [s \in {"tv", "vcr"} |-> 0] /\ state = pins
  /\ component \notin {"settings", "watch"} => type = "stv6412"
  /\ Lcd!Init
  /\ Mmc!Init
  /\ component # "wiring" => ports = [l \in Mmc!Lines |-> Mmc!Free] /\ ~forcehw /\ wirings = <<1>>
  /\ component # "disk" => driver = (CHOOSE d \in CardDrivers : TRUE) /\ ~present
  /\ Ide!Init
  /\ component # "ide" => fifo = <<>>
  /\ Drivers!Init
  /\ component # "drivers" => driversDriver = "cam"

Main == component = "cam" /\ Next
    /\ UNCHANGED <<component, frontVars, i2cVars, scartVars, lcdVars, mmcVars, ideVars,
                    driversVars>>
RunInputs == component = "inputs" /\ Front!Inputs
    /\ UNCHANGED <<component, vars, i2cVars, scartVars, lcdVars, mmcVars, ideVars,
                    driversVars>>
RunDish == component = "dish" /\ Front!Dish
    /\ UNCHANGED <<component, vars, i2cVars, scartVars, lcdVars, mmcVars, ideVars,
                    driversVars>>
RunService == component = "service" /\ Front!Service
    /\ UNCHANGED <<component, vars, i2cVars, scartVars, lcdVars, mmcVars, ideVars,
                    driversVars>>
RunBus == component = "bus" /\ I2c!Bus
    /\ UNCHANGED <<component, vars, frontVars, scartVars, lcdVars, mmcVars, ideVars,
                    driversVars>>
RunClock == component = "clock" /\ I2c!Clock
    /\ UNCHANGED <<component, vars, frontVars, scartVars, lcdVars, mmcVars, ideVars,
                    driversVars>>
RunSettings == component = "settings" /\ Scart!Settings
    /\ UNCHANGED <<component, vars, frontVars, i2cVars, lcdVars, mmcVars, ideVars,
                    driversVars>>
RunWatch == component = "watch" /\ Scart!Watch
    /\ UNCHANGED <<component, vars, frontVars, i2cVars, lcdVars, mmcVars, ideVars,
                    driversVars>>
RunDisplay == component = "display" /\ Lcd!Next
    /\ UNCHANGED <<component, vars, frontVars, i2cVars, scartVars, mmcVars, ideVars,
                    driversVars>>
RunDisk == component = "disk" /\ Mmc!Disk
    /\ UNCHANGED <<component, vars, frontVars, i2cVars, scartVars, lcdVars, ideVars,
                    driversVars>>
RunWiring == component = "wiring" /\ Mmc!Wiring
    /\ UNCHANGED <<component, vars, frontVars, i2cVars, scartVars, lcdVars, ideVars,
                    driversVars>>
RunIde == component = "ide" /\ Ide!Next
    /\ UNCHANGED <<component, vars, frontVars, i2cVars, scartVars, lcdVars, mmcVars,
                    driversVars>>
RunDrivers == component = "drivers" /\ Drivers!Next
    /\ UNCHANGED <<component, vars, frontVars, i2cVars, scartVars, lcdVars, mmcVars,
                    ideVars>>

AnyNext == Main \/ RunInputs \/ RunDish \/ RunService \/ RunBus \/ RunClock \/ RunSettings
           \/ RunWatch \/ RunDisplay \/ RunDisk \/ RunWiring \/ RunIde \/ RunDrivers
anyVars == <<component, vars, frontVars, i2cVars, scartVars, lcdVars, mmcVars, ideVars,
              driversVars>>


AnySpec == AnyInit /\ [][AnyNext]_anyVars

-----------------------------------------------------------------------------
(* What does not run stays in an initial state, so each of the invariants is *)
(* about the system that runs.                                               *)

(* Every driver can be loaded, fail at any step of it and be removed: what   *)
(* runs meanwhile has what it needs, nothing is left behind, and nothing is  *)
(* given back that was not taken; but for what the sets late, left and       *)
(* unheld of DriverLoad name.                                                *)
DriversLoadCleanly == component = "drivers" =>
  /\ Drivers!TypeOK /\ Drivers!HandlersHaveTheirs /\ Drivers!LeavesNothing
  /\ Drivers!UsesWhatItHolds

(* Over the I2C bus, to the CAM and the front processor: a transfer that is  *)
(* answered well was acknowledged, one message at a time is under way to the *)
(* dish, which has the values kept, the clock gives the time it was set to,  *)
(* a key that is held has a timer, and the messages of the CAM are read      *)
(* whole.                                                                    *)
MessagesArrive ==
  /\ component = "cam" => TypeOK /\ QueueWhole
  /\ component \in {"bus", "clock"} =>
       I2c!TypeOK /\ I2c!OkMeansDone /\ I2c!RunsForHolder /\ I2c!TimeKept
  /\ component \in {"inputs", "dish", "service"} =>
       Front!TypeOK /\ Front!OneMessage /\ Front!DishFollows /\ Front!HeldKeyTimesOut

(* What was switched, muted, mixed or written is what the switch and the     *)
(* display have.                                                             *)
SwitchAndDisplayFollow ==
  /\ component \in {"settings", "watch"} =>
       Scart!TypeOK /\ Scart!MuteKeepsChoice /\ Scart!ChipFollows /\ Scart!MixerKeepsVolume
  /\ component = "display" => Lcd!TypeOK /\ Lcd!ConsoleShowsText

(* A disk or card carries exactly the words and sectors it was asked for,    *)
(* and the lines of the card are borrowed and given back.                    *)
DataCarriedWhole ==
  /\ component = "ide" => Ide!TypeOK /\ Ide!ExactlyCount
  /\ component \in {"disk", "wiring"} =>
       Mmc!TypeOK /\ Mmc!OkMeansCarried /\ Mmc!PortsGivenBack /\ Mmc!NoLineStolen

(* A write to a card changes none but the sectors it named.                  *)
NothingElseWritten == Mmc!NothingElseWritten
=============================================================================
