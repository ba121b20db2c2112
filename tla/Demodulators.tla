----------------------------- MODULE Demodulators -----------------------------
(***************************************************************************)
(* The demodulator drivers (frontends/).  A call of the frontend core      *)
(* becomes a row of messages on the I2C bus; any of them may stay without  *)
(* an acknowledge, and the drivers differ in what they do then and in      *)
(* which parameters they refuse.  A driver is therefore the rows of steps  *)
(* its calls make.  The tuner hangs behind a gate of some demodulators,    *)
(* and the TDA drivers learn the state of the reception from an interrupt. *)
(***************************************************************************)
EXTENDS Naturals, Sequences, SequencesExt

CONSTANTS
  Drivers,  \* the drivers looked at, by the name of their file; "ves1893" is ves1x93.c with
            \*  a VES1893 that is not on a Siemens card
  Requests  \* [pll, rate, mode, inversion]: 0 is a value outside what the chips know

Fields == {"pll", "rate", "mode", "inversion"}

DemodulatorsAssumption == Requests \subseteq [Fields -> Nat]

VARIABLES
  driver, \* the driver attached
  chip,   \* [field -> value] as programmed
  power,  \* "on", "off"
  gate,   \* the way to the tuner: "open", "closed"
  fresh,  \* was the demodulator started after the last change of its registers?
  call,   \* the last call: "none", "init", "tune", "sleep"
  steps,  \* what is left of it
  asked,  \* the parameters of the last FE_SET_FRONTEND
  failed, \* an error to be returned when the gate is closed again
  answer, \* of the last call: "none", "ok", "error"
  lost,   \* history: did "some" step of this call, or the last "close", get no acknowledge?
  \* the interrupt of the TDA chips
  locked,  \* has the chip found the signal?
  line,    \* the interrupt line
  irq,     \* "on", "off"
  queued,  \* the task is scheduled
  reading, \* the task has acknowledged, and reads
  status,  \* tda->status, what FE_READ_STATUS answers
  garbled  \* history: was the status read without an acknowledge?

bus == <<chip, power, gate, fresh, call, steps, asked, failed, answer, lost>>
reception == <<locked, line, irq, queued, reading, status, garbled>>
vars == <<driver, bus, reception>>

-----------------------------------------------------------------------------
(* The steps.  A step writes fields, from the request or from a table; on a  *)
(* value it does not know or a missing acknowledge it stops, passes on, or   *)
(* keeps the error for later.                                                *)

Step(kind, sets, refused, nak) == [kind |-> kind, sets |-> sets, refused |-> refused, nak |-> nak]
Write(sets, refused, nak) == Step("write", sets, refused, nak)
Table(sets, nak) == Step("table", sets, "pass", nak)
Check(sets) == Step("check", sets, "stop", "pass")
Do(kind, nak) == Step(kind, {}, "pass", nak)

Gated(refused, nak) == <<Do("open", "pass"), Write({"pll"}, refused, nak), Do("close", "pass")>>
Running == Fields \ {"pll"}

(* at76c651.c                                                                *)
PllAt76 == <<Check({"pll"})>> \o Gated("stop", "later") \o <<Do("late", "stop")>>
StartAt76 == Do("start", "pass")
ParametersAt76 == <<Write({"rate"}, "stop", "pass"), Write({"mode"}, "stop", "stop"), Write({"inversion"}, "stop", "stop")>>
(* A mutant: started before the inversion is set. *)
TuneAt76Early ==
  PllAt76 \o <<Write({"rate"}, "stop", "pass"), Write({"mode"}, "stop", "stop"), StartAt76, Write({"inversion"}, "stop", "stop")>>
TuneAt76 == PllAt76 \o ParametersAt76 \o <<StartAt76>>
InitAt76 == <<Table({"rate"}, "pass"), Table({"mode"}, "pass"), StartAt76>>

(* ves1820.c: the inversion is written with the modulation, and the start.   *)
PllVes1820 == Write({"pll"}, "pass", "pass")
RateVes1820 == Write({"rate"}, "pass", "pass")
StartVes1820 == <<Write({"mode", "inversion"}, "pass", "pass"), Do("start", "pass")>>
TuneVes1820 == <<Check({"mode"}), PllVes1820, RateVes1820>> \o StartVes1820
InitVes1820 == <<Table(Running, "pass"), Do("wake", "pass")>>
SleepVes1820 == <<Do("standby", "pass")>>

(* ves1x93.c: what is refused is not told.  It does not know the tuner of a  *)
(* VES1893, which hangs behind the front processor.                          *)
PllVes1x93 == IF driver = "ves1893" THEN <<>> ELSE Gated("pass", "pass")
RateVes1x93 == <<Write({"rate"}, "pass", "pass"), Do("start", "pass")>>
ModeVes1x93 == <<Write({"inversion"}, "pass", "pass"), Write({"mode"}, "pass", "pass")>>
TuneVes1x93 == PllVes1x93 \o ModeVes1x93 \o RateVes1x93
InitVes1x93 ==
  <<Table(Running, "pass"), Do("wake", "pass")>>
  \o (IF driver = "ves1893" THEN <<>> ELSE <<Do("open", "pass"), Do("close", "pass")>>)
SleepVes1x93 == <<Do("standby", "stop")>>

(* tda80xx.c, tda8044h.c: the parameters are one message; one that is        *)
(* refused is not told, the others are not sent.                             *)
PllTda80xx == <<Check({})>> \o Gated("pass", "pass")
ParametersTda80xx == Write(Running, "pass", "pass")
TuneTda80xx == PllTda80xx \o <<ParametersTda80xx, Do("start", "pass")>>
InitTda80xx == <<Table(Running, "stop"), Do("wake", "pass"), Table(Running, "stop")>>
SleepTda80xx == <<Do("standby", "pass")>>

PllTda8044h == <<Check({})>> \o Gated("pass", "pass")
ParametersTda8044h == Write(Running, "pass", "pass")
TuneTda8044h == PllTda8044h \o <<ParametersTda8044h, Do("start", "pass")>>
InitTda8044h == <<Table({"mode", "inversion"}, "stop"), Table({"rate"}, "stop"), Do("wake", "pass"), Table(Running, "stop")>>
SleepTda8044h == <<Do("standby", "pass")>>

(* sqc6100.c: everything is checked before the demodulator is stopped.       *)
InitSqc6100 == <<Table({"inversion"}, "stop"), Do("wake", "pass")>>
PllSqc6100 == Write({"pll"}, "stop", "stop")
TuneSqc6100 ==
  <<Check({"pll", "rate", "mode"}), Do("reset", "stop"), PllSqc6100, Do("release", "stop"),
    Table({"inversion"}, "pass"), Write({"rate"}, "stop", "stop"), Write({"mode"}, "stop", "stop"), Do("start", "stop")>>
SleepSqc6100 == <<Do("reset", "stop"), Do("release", "stop"), Table({"inversion"}, "stop")>>

(* stv0297.c: the gate is opened for one message; the modulation is fixed.   *)
PllStv0297 == Write({"pll"}, "pass", "pass")
RateStv0297 == Write({"rate"}, "pass", "pass")
TuneStv0297 == <<PllStv0297, RateStv0297, Table({"mode", "inversion"}, "pass"), Do("start", "pass")>>
InitStv0297 == <<Table(Running, "pass"), Do("wake", "pass")>>

program(c) ==
  CASE driver = "at76c651" -> [init |-> InitAt76, tune |-> TuneAt76, sleep |-> <<>>][c]
    [] driver = "ves1820"  -> [init |-> InitVes1820, tune |-> TuneVes1820, sleep |-> SleepVes1820][c]
    [] driver \in {"ves1893", "ves1x93"} -> [init |-> InitVes1x93, tune |-> TuneVes1x93, sleep |-> SleepVes1x93][c]
    [] driver = "tda80xx"  -> [init |-> InitTda80xx, tune |-> TuneTda80xx, sleep |-> SleepTda80xx][c]
    [] driver = "tda8044h" -> [init |-> InitTda8044h, tune |-> TuneTda8044h, sleep |-> SleepTda8044h][c]
    [] driver = "sqc6100"  -> [init |-> InitSqc6100, tune |-> TuneSqc6100, sleep |-> SleepSqc6100][c]
    [] driver = "stv0297"  -> [init |-> InitStv0297, tune |-> TuneStv0297, sleep |-> <<>>][c]

(* What a driver does not program or from its own tables only, and what it   *)
(* clamps.                                                                   *)
fixed == CASE driver = "stv0297" -> {"mode", "inversion"} [] driver = "sqc6100" -> {"inversion"}
           [] driver = "ves1893" -> {"pll"} [] OTHER -> {}
clamped == CASE driver \in {"ves1820", "stv0297"} -> Fields \ {"mode"} [] driver \in {"ves1893", "ves1x93"} -> {"pll", "rate"}
             [] driver \in {"tda80xx", "tda8044h"} -> {"rate", "inversion"} [] OTHER -> {}
interrupts == driver \in {"tda80xx", "tda8044h"}

Init ==
  /\ driver \in Drivers
  /\ chip = [f \in Fields |-> 0] /\ power = "on" /\ gate = "closed" /\ fresh = FALSE
  /\ call = "none" /\ steps = <<>> /\ asked = [f \in Fields |-> 0]
  /\ failed = FALSE /\ answer = "none" /\ lost = {}
  /\ locked = FALSE /\ line = FALSE /\ irq = "on" /\ queued = FALSE /\ reading = FALSE /\ status = FALSE /\ garbled = FALSE

-----------------------------------------------------------------------------
(* FE_INIT, FE_SET_FRONTEND, FE_SLEEP; the core makes one at a time          *)

Call(c, r) ==
  /\ steps = <<>>
  /\ steps' = program(c) /\ call' = c
  /\ asked' = (IF c = "tune" THEN r ELSE asked)
  /\ answer' = (IF program(c) = <<>> THEN "ok" ELSE "none")
  /\ failed' = FALSE /\ lost' = lost \intersect {"close"}
  /\ UNCHANGED <<driver, chip, power, gate, fresh, reception>>

unknown(s) == s.kind \in {"write", "check"} /\ \E f \in s.sets : asked[f] = 0 /\ f \notin clamped
late(s) == s.kind = "late" /\ failed

Stop == steps' = <<>> /\ answer' = "error"

Go == steps' = Tail(steps) /\ answer' = (IF Len(steps) = 1 THEN "ok" ELSE answer)

Refuse ==
  /\ steps # <<>>
  /\ \E s \in {Head(steps)} :
       /\ unknown(s) \/ late(s)
       /\ IF late(s) \/ s.refused = "stop" THEN Stop ELSE Go
  /\ UNCHANGED <<driver, chip, power, gate, fresh, call, asked, failed, lost, reception>>

(* The step reaches the chip.  *)
started(s) ==
  CASE s.kind = "start" -> TRUE [] s.kind = "reset" -> FALSE [] s.sets # {} /\ s.kind # "check" -> FALSE [] OTHER -> fresh
Send ==
  /\ steps # <<>>
  /\ \E s \in {Head(steps)} :
       /\ ~unknown(s) /\ ~late(s)
       /\ chip' = [f \in Fields |-> IF f \in s.sets /\ s.kind = "write" THEN asked[f]
                                    ELSE IF f \in s.sets /\ s.kind = "table" THEN 1 ELSE chip[f]]
       /\ power' = (CASE s.kind = "wake" -> "on" [] s.kind = "standby" -> "off" [] OTHER -> power)
       /\ gate' = (CASE s.kind = "open" -> "open" [] s.kind = "close" -> "closed" [] OTHER -> gate)
       /\ fresh' = started(s)
       /\ lost' = (IF s.kind = "close" THEN lost \ {"close"} ELSE lost)
  /\ Go /\ UNCHANGED <<driver, call, asked, failed, reception>>

(* No acknowledge.  Once the gate was opened for nothing the tuner does not  *)
(* answer either.                                                            *)
Nak ==
  /\ steps # <<>>
  /\ \E s \in {Head(steps)} :
       /\ s.kind \notin {"check", "late"} /\ ~unknown(s)
       /\ lost' = lost \union {IF s.kind = "close" THEN "close" ELSE "some"}
       /\ failed' = (failed \/ s.nak = "later")
       /\ IF s.nak = "stop" THEN Stop ELSE Go
  /\ UNCHANGED <<driver, chip, power, gate, fresh, call, asked, reception>>

-----------------------------------------------------------------------------
(* tda80xx_irq, tda80xx_worklet; tda8044_irq, tda8044_tasklet: the interrupt *)
(* stays off until the task has acknowledged it; then the state is read.     *)

Reception ==
  /\ interrupts /\ locked' = ~locked /\ line' = TRUE
  /\ UNCHANGED <<driver, bus, irq, queued, reading, status, garbled>>

Interrupt ==
  /\ line /\ irq = "on" /\ irq' = "off" /\ queued' = TRUE
  /\ UNCHANGED <<driver, bus, locked, line, reading, status, garbled>>

Acknowledge ==
  /\ queued /\ ~reading /\ queued' = FALSE /\ reading' = TRUE
  /\ line' \in {FALSE, line} /\ irq' = "on"
  /\ UNCHANGED <<driver, bus, locked, status, garbled>>

(* A byte that tda80xx_read does not get is whatever the stack holds; the    *)
(* one of tda8044_readreg is zero, and it looks at a value that is new only. *)
ReadStatus ==
  /\ reading /\ reading' = FALSE
  /\ \/ status' = locked /\ garbled' = FALSE
     \/ driver = "tda80xx" /\ status' \in BOOLEAN /\ garbled' = TRUE
  /\ UNCHANGED <<driver, bus, locked, line, irq, queued>>

ReadNothing ==
  /\ reading /\ reading' = FALSE
  /\ driver = "tda8044h" /\ status' = FALSE /\ garbled' = TRUE
  /\ UNCHANGED <<driver, bus, locked, line, irq, queued>>

(* The two halves share nothing but the driver.                              *)
Calls == (\E c \in {"init", "tune", "sleep"}, r \in Requests : Call(c, r)) \/ Refuse \/ Send \/ Nak
Receives == Reception \/ Interrupt \/ Acknowledge \/ ReadStatus \/ ReadNothing
Next == Calls \/ Receives

Fairness == WF_vars(Interrupt) /\ WF_vars(Acknowledge) /\ WF_vars(ReadStatus \/ ReadNothing)
Spec == Init /\ [][Next]_vars /\ Fairness

-----------------------------------------------------------------------------
TypeOK ==
  /\ driver \in Drivers /\ chip \in [Fields -> Nat] /\ power \in {"on", "off"}
  /\ gate \in {"open", "closed"} /\ fresh \in BOOLEAN /\ call \in {"none", "init", "tune", "sleep"}
  /\ failed \in BOOLEAN /\ answer \in {"none", "ok", "error"} /\ locked \in BOOLEAN /\ line \in BOOLEAN
  /\ irq \in {"on", "off"} /\ queued \in BOOLEAN /\ reading \in BOOLEAN
  /\ status \in BOOLEAN /\ garbled \in BOOLEAN

(* FE_SET_FRONTEND answers success only when the tuner and the demodulator   *)
(* have what was asked for and the demodulator was started after its last    *)
(* register, whatever was refused or went wrong in calls before.  (The VES1x93 *)
(* and TDA drivers do not tell what they refuse.)                            *)
tells == driver \notin {"ves1893", "ves1x93", "tda80xx", "tda8044h"}
AnsweredIsTuned ==
  (steps = <<>> /\ call = "tune" /\ answer = "ok" /\ lost \subseteq {"close"}
     /\ (tells \/ \A f \in Fields : asked[f] # 0))
    => fresh /\ \A f \in Fields \ fixed : chip[f] = asked[f]

(* Between two calls the tuner is cut off again from the bus, after errors   *)
(* too: its noise would reach the reception.                                 *)
GateClosed == (steps = <<>> /\ "close" \notin lost) => gate = "closed"

(* The drivers that wait for an interrupt learn every change that lasts.     *)
StatusCatchesUp ==
  \A v \in BOOLEAN : (interrupts /\ locked = v) ~> (status = v \/ locked # v \/ garbled)
===============================================================================
