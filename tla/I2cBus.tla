-------------------------------- MODULE I2cBus --------------------------------
(***************************************************************************)
(* The I2C bus of the board (i2c/dbox2_i2c.c) and the clock chip behind it *)
(* (ds1307/ds1307.c).  A transfer is laid out in buffer descriptors, the   *)
(* controller works them off and its interrupt wakes the caller; a signal  *)
(* or half a second wakes him too, and what became of the messages is then *)
(* read from the descriptors.                                              *)
(***************************************************************************)
EXTENDS Naturals, Integers, Sequences, FiniteSets

CONSTANTS
  Callers,   \* threads that transfer
  Transfers, \* sequences of "send" and "recv"
  MaxBd,     \* I2C_MAXBD
  Times,     \* times given to RTC_SET_TIME: [year, mon, day, hour, min, sec, wday]
  MaxLost    \* bound: messages to the clock without an acknowledge, and seconds that pass

\* The drivers send, receive, or send and then receive.
SendsFirst(t) == \A j, k \in 1..Len(t) : j < k /\ t[k] = "send" => t[j] = "send"
I2cBusAssumption ==
  /\ MaxBd \in Nat \ {0} /\ MaxLost \in Nat
  /\ \A t \in Transfers : t \in Seq({"send", "recv"}) /\ Len(t) \in 1..MaxBd /\ SendsFirst(t)
  /\ \A t \in Times :
       t \in [year : Int, mon : Int, day : Nat, hour : Nat, min : Nat, sec : Nat, wday : Nat]

VARIABLES
  \* the controller
  holder,   \* who has i2c_mutex: a set of callers
  pc,       \* [caller -> "idle", "waiting", "sleeping", "awake"]
  msgs,     \* [caller -> the messages of his call]
  tx, rx,   \* the descriptors: "free", "ready", "nak", "done"; "empty", "full"
  on,       \* bit 0 of i2mod: the controller runs
  next,     \* the descriptor it works on
  result,   \* [caller -> "none", "ok", "error"]
  early,    \* history: did a signal or the timeout wake the caller of this call?
  acked,    \* history: messages of the call that the chip has acknowledged
  \* the clock
  reg,      \* [register -> byte]
  writing,  \* registers RTC_SET_TIME has still to write: a sequence
  new,      \* the bytes it writes
  reading,  \* registers RTC_RD_TIME has still to read
  got,      \* what it has read
  shown,    \* its answer
  truth,    \* history: the time set, NoTime once a message was lost or a second passed in between
  clean,    \* history: nothing happened since the read began
  lost

controller == <<holder, pc, msgs, tx, rx, on, next, result, early, acked>>
clock == <<reg, writing, new, reading, got, shown, truth, clean, lost>>
vars == <<controller, clock>>

Bd == 0..(MaxBd - 1)

-----------------------------------------------------------------------------
(* i2c_setrate never takes a speed above the asked one, and the rounding of  *)
(* the divider never leaves one below: nothing is found, and i2c_init writes *)
(* the divider itself.                                                       *)
moddiv(modval) == 2 ^ (5 - modval)
brgval(hz, speed, modval) == (hz \div (moddiv(modval) * speed)) \div 2 - 3
totspeed(hz, speed, modval) == hz \div (moddiv(modval) * 2 * (brgval(hz, speed, modval) + 3))
found(hz, speed) == {m \in 0..3 : brgval(hz, speed, m) \in 0..255 /\ totspeed(hz, speed, m) <= speed}
RateNotFound == found(66 * 1024 * 1024, 100000) = {}

NoTime == [year |-> 0, mon |-> 0, day |-> 0, hour |-> 0, min |-> 0, sec |-> 0, wday |-> 0]
Registers == DOMAIN NoTime

Init ==
  /\ holder = {} /\ pc = [c \in Callers |-> "idle"] /\ msgs = [c \in Callers |-> <<>>]
  /\ tx = [b \in Bd |-> "free"] /\ rx = [b \in Bd |-> "empty"] /\ on = FALSE /\ next = 0
  /\ result = [c \in Callers |-> "none"] /\ early = FALSE /\ acked = 0
  /\ reg = NoTime /\ writing = <<>> /\ new = NoTime /\ reading = <<>> /\ got = NoTime
  /\ shown = NoTime /\ truth = NoTime /\ clean = FALSE /\ lost = 0

-----------------------------------------------------------------------------
(* dbox2_i2c_xfer                                                            *)

Receives(m) == {k \in 1..Len(m) : m[k] = "recv"}
before(m, k, kind) == Cardinality({j \in 1..(k - 1) : m[j] = kind})

Call(c) ==
  /\ pc[c] = "idle" /\ pc' = [pc EXCEPT ![c] = "waiting"] /\ result' = [result EXCEPT ![c] = "none"]
  /\ \E m \in Transfers : msgs' = [msgs EXCEPT ![c] = m]
  /\ UNCHANGED <<holder, tx, rx, on, next, early, acked, clock>>

(* Every message takes a descriptor of tx, the one that addresses a chip to  *)
(* be read too.  A mutant: the descriptors of the last call are not reset.   *)
cleared_not == rx
cleared == [b \in Bd |-> "empty"]

Start(c) ==
  /\ pc[c] = "waiting" /\ holder = {} /\ holder' = {c}
  /\ rx' = cleared
  /\ tx' = [b \in Bd |-> IF b < Len(msgs[c]) THEN "ready" ELSE "free"]
  /\ on' = TRUE /\ next' = 0 /\ early' = FALSE /\ acked' = 0
  /\ pc' = [pc EXCEPT ![c] = "sleeping"]
  /\ UNCHANGED <<msgs, result, clock>>

(* The controller: an acknowledged message is done, another one ends the     *)
(* transfer; the interrupt turns the controller off and wakes the caller.    *)
ending(c, ack) == ~ack \/ next + 1 = Len(msgs[c])
Controller ==
  /\ on
  /\ \E c \in holder, ack \in BOOLEAN :
       /\ tx' = [tx EXCEPT ![next] = IF ack THEN "done" ELSE "nak"]
       /\ rx' = (IF ack /\ msgs[c][next + 1] = "recv" THEN [rx EXCEPT ![before(msgs[c], next + 1, "recv")] = "full"] ELSE rx)
       /\ acked' = (IF ack THEN acked + 1 ELSE acked) /\ next' = next + 1
       /\ on' = ~ending(c, ack)
       /\ pc' = (IF ending(c, ack) THEN [pc EXCEPT ![c] = "awake"] ELSE pc)
  /\ UNCHANGED <<holder, msgs, result, early, clock>>

(* interruptible_sleep_on_timeout ends for a signal, or in the end.          *)
SleepEnds(c) ==
  /\ pc[c] = "sleeping" /\ pc' = [pc EXCEPT ![c] = "awake"] /\ early' = TRUE
  /\ UNCHANGED <<holder, msgs, tx, rx, on, next, result, acked, clock>>

(* The sends are looked up by their number among the sends.                  *)
refused(m) ==
  \/ \E k \in Receives(m) : rx[before(m, k, "recv")] = "empty"
  \/ \E k \in (1..Len(m)) \ Receives(m) : tx[before(m, k, "send")] = "nak"
Finish(c) ==
  /\ pc[c] = "awake" /\ pc' = [pc EXCEPT ![c] = "idle"]
  /\ result' = [result EXCEPT ![c] = IF refused(msgs[c]) THEN "error" ELSE "ok"]
  /\ on' = FALSE /\ holder' = {}
  /\ UNCHANGED <<msgs, tx, rx, next, early, acked, clock>>

Bus == Controller \/ \E c \in Callers : Call(c) \/ Start(c) \/ SleepEnds(c) \/ Finish(c)

-----------------------------------------------------------------------------
(* ds1307.c: seven registers, each written and read by itself                *)

leap_yr(y) == (y % 4 = 0 /\ y % 100 # 0) \/ y % 400 = 0
days_in_mo == <<31, 28, 31, 30, 31, 30, 31, 31, 30, 31, 30, 31>>
valid(t) ==
  /\ t.year + 1900 \in 1970..2069 /\ t.mon + 1 \in 1..12 /\ t.day > 0
  /\ t.day <= days_in_mo[t.mon + 1] + (IF t.mon = 1 /\ leap_yr(t.year + 1900) THEN 1 ELSE 0)
  /\ t.hour < 24 /\ t.min < 60 /\ t.sec < 60 /\ t.wday \in 0..6

BIN_TO_BCD(n) == (n \div 10) * 16 + (n % 10)
BCD_TO_BIN(n) == (n \div 16) * 10 + (n % 16)
stored(t) == [r \in Registers |-> BIN_TO_BCD(
  CASE r = "year" -> t.year % 100 [] r = "mon" -> t.mon + 1 [] OTHER -> t[r])]

WriteOrder == <<"year", "mon", "day", "hour", "min", "sec", "wday">>
ReadOrder == <<"sec", "min", "hour", "day", "mon", "year", "wday">>

RTC_SET_TIME(t) ==
  /\ writing = <<>> /\ valid(t)
  /\ writing' = WriteOrder /\ new' = stored(t) /\ truth' = t /\ clean' = FALSE
  /\ UNCHANGED <<controller, reg, reading, got, shown, lost>>

ds1307_writereg ==
  /\ writing # <<>> /\ writing' = Tail(writing) /\ clean' = FALSE
  /\ \/ reg' = [reg EXCEPT ![Head(writing)] = new[Head(writing)]] /\ UNCHANGED <<truth, lost>>
     \/ lost < MaxLost /\ lost' = lost + 1 /\ truth' = NoTime /\ UNCHANGED reg
  /\ UNCHANGED <<controller, new, reading, got, shown>>

RTC_RD_TIME ==
  /\ reading = <<>> /\ reading' = ReadOrder /\ clean' = (writing = <<>>)
  /\ got' = NoTime /\ shown' = NoTime
  /\ UNCHANGED <<controller, reg, writing, new, truth, lost>>

full_year(y) == IF y <= 69 THEN y + 100 ELSE y
ds1307_get_rtc_time(g) ==
  [r \in Registers |->
     CASE r = "year" -> full_year(BCD_TO_BIN(g[r])) [] r = "mon" -> BCD_TO_BIN(g[r]) - 1 [] OTHER -> BCD_TO_BIN(g[r])]

(* What is not acknowledged reads as 0. *)
ds1307_readreg ==
  /\ reading # <<>> /\ reading' = Tail(reading)
  /\ \/ got' = [got EXCEPT ![Head(reading)] = reg[Head(reading)]] /\ UNCHANGED <<clean, lost>>
     \/ lost < MaxLost /\ lost' = lost + 1 /\ clean' = FALSE /\ got' = [got EXCEPT ![Head(reading)] = 0]
  /\ shown' = (IF reading' = <<>> THEN ds1307_get_rtc_time(got') ELSE NoTime)
  /\ UNCHANGED <<controller, reg, writing, new, truth>>

(* A second passes: of the carries the model has the one to the minutes.     *)
Tick ==
  /\ lost < MaxLost /\ lost' = lost + 1 /\ clean' = FALSE /\ truth' = NoTime
  /\ reg' = (IF reg.sec = 89 THEN [reg EXCEPT !.sec = 0, !.min = BIN_TO_BCD((BCD_TO_BIN(@) + 1) % 60)]
             ELSE [reg EXCEPT !.sec = BIN_TO_BCD(BCD_TO_BIN(@) + 1)])
  /\ UNCHANGED <<controller, writing, new, reading, got, shown>>

Clock ==
  \/ \E t \in Times : RTC_SET_TIME(t)
  \/ ds1307_writereg \/ RTC_RD_TIME \/ ds1307_readreg \/ Tick

Next == Bus \/ Clock

(* Nobody waits for good: the sleep ends with the timeout at the latest.     *)
Fairness == \A c \in Callers : SF_vars(Start(c)) /\ WF_vars(SleepEnds(c)) /\ WF_vars(Finish(c))
Spec == Init /\ [][Next]_vars /\ Fairness

-----------------------------------------------------------------------------
TypeOK ==
  /\ holder \subseteq Callers /\ tx \in [Bd -> {"free", "ready", "nak", "done"}] /\ rx \in [Bd -> {"empty", "full"}]
  /\ result \in [Callers -> {"none", "ok", "error"}] /\ Registers = DOMAIN shown

(* A transfer that is answered with success had every message acknowledged;  *)
(* one that was woken early may have lost what it sent, but never claims to  *)
(* have read something.                                                      *)
OkMeansDone ==
  \A c \in Callers :
    pc[c] = "awake" /\ ~refused(msgs[c]) =>
      acked >= (IF early THEN IF Receives(msgs[c]) = {} THEN 0 ELSE Len(msgs[c]) ELSE Len(msgs[c]))

(* The controller works for the caller who holds the mutex and has not left. *)
RunsForHolder == on => \E c \in Callers : holder = {c} /\ pc[c] \in {"sleeping", "awake"}

(* Every call returns. *)
CallsReturn == \A c \in Callers : pc[c] = "waiting" ~> pc[c] = "idle"

(* A time that was accepted is read again as it was given, if nothing came   *)
(* between the messages of the write and of the read.                        *)
TimeKept ==
  reading = <<>> /\ clean /\ truth # NoTime => shown = truth
=============================================================================
