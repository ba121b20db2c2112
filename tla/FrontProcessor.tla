---------------------------- MODULE FrontProcessor ----------------------------
(***************************************************************************)
(* The front processor (fp/): a small chip behind the I2C bus that serves  *)
(* the remote controls, keyboard, mouse and buttons, the voltage and tone  *)
(* of the satellite dish, and the wakeup timer.  Its interrupt only        *)
(* schedules a task: keventd reads what happened, message by message, and  *)
(* turns the interrupt on again.  The three parts share the chip alone.    *)
(***************************************************************************)
EXTENDS Naturals, Integers, FiniteSets, FiniteSetsExt

CONSTANTS
  Keys,       \* keys of the remote control: "up" is also a button, the others are its own
  Directions, \* mouse codes looked at, of 0..15
  Uses,       \* sets of queues whose devices are used together
  MaxWaiting, \* bound: codes waiting in the chip
  MaxPresses, \* bound: codes sent
  MaxLoads,   \* bound: times the input module is loaded
  Wires,      \* the values of the dish looked at, of "power", "voltage", "high", "tone"
  Callers,    \* threads that call the SEC ioctls
  MaxLost     \* bound: messages the chip does not acknowledge

FrontProcessorAssumption ==
  /\ Keys \intersect {"none", "break", "digit", "cursor", "fn_digit", "fn_cursor", "power"} = {}
  /\ Directions \subseteq 0..15 /\ Uses \subseteq SUBSET (0..4) /\ MaxWaiting \in Nat /\ MaxPresses \in Nat /\ MaxLoads \in Nat /\ MaxLost \in Nat

None == "none"
Queues == 0..4  \* old and new remote control 0 and 3, keyboard 1, mouse 2, button 4
Bits == {0, 1}

VARIABLES
  \* interrupt and input
  remote,   \* module parameters: "old" or "new" alone, or "patched": new with philips_rc_patch
  used,     \* queues whose devices are in use
  presses,  \* codes sent so far
  loads,    \* times the input module was loaded
  busy,     \* queues with a handler
  code,     \* [queue -> the code waiting in the chip, if any]
  irq,      \* FP_INTERRUPT: "on", "off"
  task,     \* fp_task: "idle", "scheduled", "status", "serve", "done", "crashed"
  status,   \* the queues the chip reported
  todo,     \* those not looked at yet
  down,     \* the keys held, as the input device knows them
  last,     \* last_key of the remote control
  toggle,   \* toggle_bits; 255 when nothing is held
  timer,    \* keyup_timer is pending
  oldCode,  \* old_rc_code
  fn,       \* fn_pressed
  half,     \* mouse_directions
  moved,    \* the last movement reported
  \* voltage and tone of the dish
  mid,      \* "nokia", "sagem", "philips"
  sec,      \* sec_power, sec_voltage, sec_high_voltage, sec_tone
  lnb,      \* the values the chip has
  secStatus,\* sec_bus_status
  pc,       \* [caller -> "idle", "set", "diseqc", "poll", "unmarked"]
  message,  \* the values on their way
  polls,    \* polls left for the DiSEqC command
  missed,   \* history: a call was refused or lost, and no complete one came after it
  lost,     \* messages lost so far
  \* timer and power
  wakeup, trigger, woken, board

input == <<remote, used, presses, loads, busy, code, irq, task, status, todo, down, last, toggle, timer, oldCode, fn, half, moved>>
dish == <<mid, sec, lnb, secStatus, pc, message, polls, missed, lost>>
service == <<wakeup, trigger, woken, board>>
vars == <<input, dish, service>>

Off == [w \in Wires |-> 0]

Init ==
  /\ remote \in {"old", "new", "patched"}
  /\ used \in Uses /\ presses = 0
  /\ loads = 0 /\ busy = {} /\ code = [q \in Queues |-> {}] /\ irq = "on" /\ task = "idle"
  /\ status = {} /\ todo = {} /\ down = {} /\ last = None /\ toggle = 255 /\ timer = FALSE
  /\ oldCode = None /\ fn = FALSE /\ half = 0 /\ moved = <<0, 0>>
  /\ mid \in {"nokia", "sagem", "philips"} /\ sec = Off /\ lnb = Off /\ secStatus = 0
  /\ pc = [c \in Callers |-> "idle"] /\ message = Off /\ polls = 0
  /\ missed = FALSE /\ lost = 0
  /\ wakeup = 0 /\ trigger \in {"user", "timer"} /\ woken = "user" /\ board = "running"

-----------------------------------------------------------------------------
(* the user, and the chip                                                    *)

Codes == [q \in Queues |->
  CASE q = 0 -> Keys \union {"break"}
    [] q = 1 -> {<<k, up>> : k \in {"fn", "digit", "cursor"}, up \in BOOLEAN}
    [] q = 2 -> Directions
    [] q = 3 -> Keys \X Bits
    [] q = 4 -> {"up", "power"} \X BOOLEAN]

Waiting == {q \in Queues : code[q] # {}}
Press(q) ==
  /\ q \in used /\ code[q] = {} /\ Cardinality(Waiting) < MaxWaiting
  /\ presses < MaxPresses /\ presses' = presses + 1
  /\ \E c \in Codes[q] : code' = [code EXCEPT ![q] = {c}]
  /\ UNCHANGED <<remote, used, loads, busy, irq, task, status, todo, down, last, toggle, timer, oldCode, fn, half, moved, dish, service>>

fp_interrupt ==
  /\ irq = "on" /\ Waiting # {} /\ task = "idle"
  /\ irq' = "off" /\ task' = "scheduled"
  /\ UNCHANGED <<remote, used, presses, loads, busy, code, status, todo, down, last, toggle, timer, oldCode, fn, half, moved, dish, service>>

(* dbox2_fp_input_init and _exit: the handlers come and go with the module;  *)
(* keventd may be inside one.                                                *)
handlers == Queues
dbox2_fp_input_init ==
  /\ busy = {} /\ loads < MaxLoads /\ loads' = loads + 1 /\ busy' = handlers
  /\ UNCHANGED <<remote, used, presses, code, irq, task, status, todo, down, last, toggle, timer, oldCode, fn, half, moved, dish, service>>

dbox2_fp_input_exit ==
  /\ busy # {} /\ busy' = {}
  /\ task' = (IF task = "serve" /\ todo \intersect busy # {} THEN "crashed" ELSE task)
  /\ UNCHANGED <<remote, used, presses, loads, code, irq, status, todo, down, last, toggle, timer, oldCode, fn, half, moved, dish, service>>

-----------------------------------------------------------------------------
(* fp_task: a status with one of the five bits asks for another round        *)

ReadStatus ==
  /\ task \in {"scheduled", "status"}
  /\ status' = Waiting /\ todo' = Waiting
  /\ task' = "serve"
  /\ UNCHANGED <<remote, used, presses, loads, busy, code, irq, down, last, toggle, timer, oldCode, fn, half, moved, dish, service>>

RoundEnd ==
  /\ task = "serve" /\ todo \intersect busy = {}
  /\ task' = (IF status # {} THEN "status" ELSE "done")
  /\ UNCHANGED <<remote, used, presses, loads, busy, code, irq, status, todo, down, last, toggle, timer, oldCode, fn, half, moved, dish, service>>

TaskEnd ==
  /\ task = "done" /\ task' = "idle" /\ irq' = "on"
  /\ UNCHANGED <<remote, used, presses, loads, busy, code, status, todo, down, last, toggle, timer, oldCode, fn, half, moved, dish, service>>

Serve(q) ==
  /\ task = "serve" /\ todo \intersect busy # {} /\ q = Min(todo \intersect busy)
  /\ todo' = todo \ {q} /\ code' = [code EXCEPT ![q] = {}]
  /\ UNCHANGED <<remote, used, presses, loads, busy, irq, task, status, dish, service>>

(* An event of the input device: a press sets the key's bit, a release       *)
(* clears it, a repetition changes nothing.                                  *)
pressed(d, k) == d \union {k}
released(d, k) == d \ {k}
rest == <<fn, half, moved>>

(* The old remote control tells a key and, if nothing is swallowed, a break. *)
dbox2_fp_old_rc_queue_handler ==
  /\ Serve(0)
  /\ \E c \in code[0] : \E over \in {remote = "old" /\ (c = "break" \/ (last # None /\ c # last))} :
       \E d \in {IF over /\ last # None THEN released(down, last) ELSE down} :
         CASE remote # "old" -> UNCHANGED <<down, last, timer>>
           [] remote = "old" /\ c = "break" -> down' = d /\ last' = None /\ timer' = FALSE
           [] OTHER -> /\ down' = (IF last = c THEN d ELSE pressed(d, c))
                       /\ last' = c /\ timer' = TRUE
  /\ UNCHANGED <<toggle, oldCode, rest>>

(* The new one has bits that toggle from press to press.                     *)
over(c) == timer /\ last # None /\ (last # c[1] \/ toggle # c[2]) /\ toggle # 255
dbox2_fp_new_rc_queue_handler ==
  /\ Serve(3)
  /\ \E c \in code[3] :
       IF remote = "old" THEN UNCHANGED <<down, last, toggle, timer, oldCode>>
       ELSE IF remote = "patched" /\ c[1] # oldCode THEN oldCode' = c[1] /\ UNCHANGED <<down, last, toggle, timer>>
       ELSE /\ \E t \in {IF over(c) THEN 255 ELSE toggle} : \E d \in {IF over(c) THEN released(down, last) ELSE down} :
                 down' = (IF t = c[2] THEN d ELSE pressed(d, c[1]))
            /\ last' = c[1] /\ toggle' = c[2] /\ timer' = TRUE /\ UNCHANGED oldCode
  /\ UNCHANGED rest

(* No code for a while: the key held is over, unless a button's release of   *)
(* the same code came first.                                                 *)
dbox2_fp_rc_keyup ==
  /\ timer /\ timer' = FALSE
  /\ IF last \in down THEN down' = released(down, last) /\ toggle' = 255 /\ last' = None
     ELSE UNCHANGED <<down, toggle, last>>
  /\ UNCHANGED <<remote, used, presses, loads, busy, code, irq, task, status, todo, oldCode, rest, dish, service>>

keyboard_code(k) == IF fn THEN [digit |-> "fn_digit", cursor |-> "fn_cursor"][k] ELSE k
dbox2_fp_keyboard_queue_handler ==
  /\ Serve(1)
  /\ \E c \in code[1] :
       IF c[1] = "fn" THEN fn' = ~c[2] /\ UNCHANGED down
       ELSE /\ down' = (IF ~c[2] THEN pressed(down, keyboard_code(c[1]))
                        ELSE released(down, keyboard_code(c[1])) \ {IF c[1] = "cursor" THEN "fn_cursor" ELSE None})
            /\ UNCHANGED fn
  /\ UNCHANGED <<last, toggle, timer, oldCode, half, moved>>

(* A direction between an axis and a diagonal moves the second axis at every *)
(* other code.                                                               *)
X(d) == IF d \in {4, 12} THEN 0 ELSE IF d \in 5..11 THEN -1 ELSE 1
Y(d) == IF d \in {0, 8} THEN 0 ELSE IF d \in 1..7 THEN -1 ELSE 1
dbox2_fp_mouse_queue_handler ==
  /\ Serve(2)
  /\ \E d \in code[2] :
       /\ moved' = (IF d % 2 = 0 \/ half = d THEN <<X(d), Y(d)>> ELSE IF d \in {1, 7, 9, 15} THEN <<X(d), 0>> ELSE <<0, Y(d)>>)
       /\ half' = (IF d % 2 = 1 /\ half # d THEN d ELSE 0)
  /\ UNCHANGED <<down, last, toggle, timer, oldCode, fn>>

dbox2_fp_button_queue_handler ==
  /\ Serve(4)
  /\ \E c \in code[4] : down' = (IF c[2] THEN pressed(down, c[1]) ELSE released(down, c[1]))
  /\ UNCHANGED <<last, toggle, timer, oldCode, rest>>

Inputs ==
  \/ \E q \in Queues : Press(q)
  \/ fp_interrupt \/ dbox2_fp_input_init \/ dbox2_fp_input_exit \/ ReadStatus \/ RoundEnd \/ TaskEnd
  \/ dbox2_fp_old_rc_queue_handler \/ dbox2_fp_new_rc_queue_handler \/ dbox2_fp_rc_keyup
  \/ dbox2_fp_keyboard_queue_handler \/ dbox2_fp_mouse_queue_handler \/ dbox2_fp_button_queue_handler

Handle ==
  \/ dbox2_fp_old_rc_queue_handler \/ dbox2_fp_new_rc_queue_handler \/ dbox2_fp_keyboard_queue_handler
  \/ dbox2_fp_mouse_queue_handler \/ dbox2_fp_button_queue_handler

-----------------------------------------------------------------------------
(* dbox2_fp_sec_*: the values are kept, then sent.  secStatus marks that a   *)
(* message is under way: nobody else sends meanwhile, and what he asked for  *)
(* waits for the next call.  A Philips box sends nothing at all.             *)

Dished == UNCHANGED <<mid, input, service>>
Store(c, s) ==
  /\ pc[c] = "idle" /\ sec' = s
  /\ IF secStatus < 0 \/ mid = "philips" THEN missed' = TRUE /\ UNCHANGED <<pc, message, secStatus>>
     ELSE /\ pc' = [pc EXCEPT ![c] = "set"] /\ message' = s
          /\ secStatus' = -1 /\ missed' = FALSE
  /\ UNCHANGED <<lnb, polls, lost>> /\ Dished

(* dbox2_fp_napi_sec_ioctl; a voltage other than off turns the power on.     *)
asked(w, b) == [v \in Wires |-> IF v = w THEN b ELSE IF v = "power" /\ w = "voltage" THEN 1 ELSE sec[v]]
SecIoctl(c) == \E w \in Wires, b \in Bits : Store(c, asked(w, b))

SetSent(c) ==
  /\ pc[c] = "set" /\ pc' = [pc EXCEPT ![c] = "idle"]
  /\ lnb' = message /\ message' = Off /\ secStatus' = 0
  /\ UNCHANGED <<sec, polls, missed, lost>> /\ Dished
(* Not acknowledged: the status stays, and nobody ever sends again.          *)
SetLost(c) ==
  /\ pc[c] = "set" /\ pc' = [pc EXCEPT ![c] = "idle"] /\ lost < MaxLost /\ lost' = lost + 1
  /\ missed' = TRUE /\ message' = Off
  /\ UNCHANGED <<sec, lnb, secStatus, polls>> /\ Dished

Diseqc(c) ==
  /\ pc[c] = "idle" /\ secStatus = 0 /\ mid = "nokia"
  /\ pc' = [pc EXCEPT ![c] = "diseqc"] /\ secStatus' = -2 /\ polls' = 5
  /\ UNCHANGED <<sec, lnb, message, missed, lost>> /\ Dished
(* A Sagem box sends it, if it has more than one byte, without a mark.       *)
DiseqcUnmarked(c) ==
  /\ pc[c] = "idle" /\ secStatus = 0 /\ mid = "sagem"
  /\ pc' = [pc EXCEPT ![c] = "unmarked"]
  /\ UNCHANGED <<sec, lnb, secStatus, message, polls, missed, lost>> /\ Dished
UnmarkedSent(c) ==
  /\ pc[c] = "unmarked" /\ pc' = [pc EXCEPT ![c] = "idle"]
  /\ UNCHANGED <<sec, lnb, secStatus, message, polls, missed, lost>> /\ Dished
DiseqcSent(c) ==
  /\ pc[c] = "diseqc" /\ pc' = [pc EXCEPT ![c] = "poll"]
  /\ UNCHANGED <<sec, lnb, secStatus, message, polls, missed, lost>> /\ Dished
DiseqcPoll(c) ==
  /\ pc[c] = "poll"
  /\ \E done \in BOOLEAN : \E over_now \in {done \/ polls = 1} :
       /\ pc' = [pc EXCEPT ![c] = IF over_now THEN "idle" ELSE "poll"]
       /\ secStatus' = (IF over_now THEN 0 ELSE secStatus)
       /\ polls' = (IF over_now THEN 0 ELSE polls - 1)
  /\ UNCHANGED <<sec, lnb, message, missed, lost>> /\ Dished

Dish == \E c \in Callers :
  \/ SecIoctl(c) \/ SetSent(c) \/ SetLost(c) \/ Diseqc(c) \/ DiseqcSent(c) \/ DiseqcPoll(c)
  \/ DiseqcUnmarked(c) \/ UnmarkedSent(c)

-----------------------------------------------------------------------------
(* fp_ioctl: the wakeup timer, power off and reboot                          *)

dbox2_fp_timer_set ==
  /\ board = "running" /\ wakeup' \in {0, 1}
  /\ UNCHANGED <<input, dish, trigger, woken, board>>
(* The boot trigger is a bit the chip clears when it is told to; the message *)
(* that stops the timer may be lost without notice.                          *)
dbox2_fp_timer_clear ==
  /\ board = "running" /\ wakeup' \in {0, wakeup}
  /\ woken' = trigger /\ trigger' = "user"
  /\ UNCHANGED <<input, dish, board>>
PowerOff ==
  /\ board = "running" /\ board' \in {"off", "rebooting"}
  /\ UNCHANGED <<input, dish, wakeup, trigger, woken>>

Service == dbox2_fp_timer_set \/ dbox2_fp_timer_clear \/ PowerOff

Next == Inputs \/ Dish \/ Service

(* keventd runs, the timer expires, messages end.                            *)
Fairness ==
  /\ WF_vars(ReadStatus) /\ WF_vars(RoundEnd) /\ WF_vars(TaskEnd) /\ WF_vars(Handle) /\ WF_vars(dbox2_fp_rc_keyup)
  /\ WF_vars(\E c \in Callers : SetSent(c) \/ DiseqcSent(c) \/ DiseqcPoll(c) \/ UnmarkedSent(c))
Spec == Init /\ [][Next]_vars /\ Fairness

-----------------------------------------------------------------------------
TypeOK ==
  /\ irq \in {"on", "off"} /\ task \in {"idle", "scheduled", "status", "serve", "done", "crashed"}
  /\ todo \subseteq status /\ status \subseteq Queues /\ last \in Keys \union {None} /\ toggle \in Bits \union {255}
  /\ sec \in [Wires -> Bits] /\ lnb \in [Wires -> Bits] /\ secStatus \in {0, -1, -2} /\ polls \in 0..5

(* With one remote control in use, whatever came between its codes - a lost  *)
(* break, another key, the same key anew - a key that is down is the one     *)
(* the handler remembers, and its timer is running.                          *)
HeldKeyTimesOut ==
  \A k \in (down \intersect Keys) \ {"up"} : last = k /\ timer

(* Only one marked message or command of the dish is under way, and the mark *)
(* stands as long as it is, whoever begins or ends one without a mark; only  *)
(* a Sagem box has those, and then a second message may go out with it.      *)
marked == {c \in Callers : pc[c] \notin {"idle", "unmarked"}}
OneMessage ==
  /\ Cardinality(marked) <= 1 /\ (marked # {} => secStatus < 0)
  /\ mid # "sagem" => \A c \in Callers : pc[c] # "unmarked"

(* The chip has the values kept, once it is free and no call was refused or  *)
(* lost since.                                                               *)
DishFollows == secStatus = 0 /\ ~missed => lnb = sec

(* The interrupt comes back, as long as the module that drains the queues    *)
(* stays (without it keventd turns round for good).                          *)
InterruptComesBack == irq = "off" ~> (irq = "on" \/ busy = {})
=============================================================================
