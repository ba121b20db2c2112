----------------------------- MODULE ScartSwitch -----------------------------
(***************************************************************************)
(* The audio/video switch of the scart sockets (avs/): one of three chips. *)
(* The driver keeps all registers and sends all of them for every setting. *)
(* A mixer device sets the volume, and a timer has keventd look at the     *)
(* voltage on the sockets and tell changes as events.                      *)
(***************************************************************************)
EXTENDS Naturals, Integers, FiniteSets

CONSTANTS
  Chips,    \* of "cxa2092", "cxa2126", "stv6412"
  Fields,   \* settings looked at, named as the ioctls: "vsw1" .. "asw3", "fblk", "fnc", "log1" .. "log4", "vol", "mute"
  Values,   \* arguments of the ioctls
  Volumes,  \* arguments of the mixer
  Callers,  \* threads in the ioctls
  Pins,     \* voltages at a socket, of 0..2
  MaxLost   \* bound: messages without an acknowledge

ScartSwitchAssumption ==
  /\ Chips \subseteq {"cxa2092", "cxa2126", "stv6412"} /\ Values \subseteq Nat /\ Volumes \subseteq Nat
  /\ Pins \subseteq 0..2 /\ MaxLost \in Nat

VARIABLES
  \* settings
  type,     \* the chip
  shadow,   \* [register -> value], cxa2092_data and the like
  saved,    \* [audio register -> value kept while muted], 255 for none
  chip,     \* the registers as the chip has them
  pc,       \* [caller -> "idle", "sending"]
  buffer,   \* [caller -> the registers he sends]; the Sony drivers send the shadow itself
  choice,   \* history: [audio register -> the last value accepted]
  crossed,  \* history: two messages were under way at once
  missed,   \* history: the last message was not acknowledged
  mixed,    \* history: the volume the mixer was asked for, 255 for none
  \* the watch
  pins,     \* [socket -> voltage]
  state,    \* reg->state
  timer,    \* avs_event_timer: "off", "on"
  task,     \* avs_event_tasklet: "idle", "queued"
  reg,      \* "allocated", "freed", "touched": used after it was freed
  lost

settings == <<type, shadow, saved, chip, pc, buffer, choice, crossed, missed, mixed>>
watch == <<pins, state, timer, task, reg>>
vars == <<settings, watch, lost>>

-----------------------------------------------------------------------------
(* Which register an ioctl sets, and the values it takes.                    *)

(* cxa2092_command: the four logic outputs are counted from 1, the function  *)
(* they go to from 0.                                                        *)
limits_cxa2092(f) ==
  CASE f \in {"vsw1", "vsw2", "vsw3", "asw1", "asw2", "asw3"} -> 0..7
    [] f \in {"fblk", "fnc"} -> 0..3
    [] f \in {"log1", "log2", "log3", "mute"} -> 0..1
    [] f = "vol" -> 0..63 [] OTHER -> {}
register_cxa2092(f) == CASE f = "log1" -> "log2" [] f = "log2" -> "log3" [] f = "log3" -> "log4" [] OTHER -> f

limits_cxa2126(f) ==
  CASE f \in {"vsw1", "vsw2", "asw1", "asw2"} -> 0..7
    [] f \in {"fblk", "fnc"} -> 0..3
    [] f \in {"log1", "mute"} -> 0..1
    [] f = "vol" -> 0..63 [] OTHER -> {}

(* stv6412_command: the sound of TV and cinch is one register.               *)
limits_stv6412(f) ==
  CASE f \in {"vsw1", "vsw3"} -> 0..4 [] f = "vsw2" -> 0..2
    [] f = "asw1" -> 1..3 [] f \in {"asw2", "asw3"} -> 1..4
    [] f \in {"fblk", "fnc"} -> 0..3 [] f = "mute" -> 0..1
    [] f = "vol" -> 0..63 [] OTHER -> {}
register_stv6412(f) == IF f = "asw3" THEN "asw2" ELSE f

register(f) == CASE type = "cxa2092" -> register_cxa2092(f) [] type = "cxa2126" -> f [] OTHER -> register_stv6412(f)
Audio == {"asw1", "asw2"}
Registers == Fields \union Audio \union {"log2", "vol"}

(* cxa2092_init, cxa2126_init, stv6412_init *)
initial(t) == [r \in Registers |->
  CASE r = "vsw1" -> [cxa2092 |-> 5, cxa2126 |-> 0, stv6412 |-> 1][t]
    [] r = "vsw2" -> [cxa2092 |-> 1, cxa2126 |-> 0, stv6412 |-> 1][t]
    [] r = "vsw3" -> [cxa2092 |-> 0, cxa2126 |-> 0, stv6412 |-> 1][t]
    [] r \in Audio -> IF t = "stv6412" THEN 1 ELSE 0
    [] r = "fblk" -> IF t = "stv6412" THEN 1 ELSE 0
    [] r = "fnc" -> IF t = "stv6412" THEN 3 ELSE 2
    [] OTHER -> 0]

Init ==
  /\ type \in Chips /\ shadow = initial(type) /\ chip = initial(type)
  /\ choice = [r \in Audio |-> initial(type)[r]]
  /\ saved = [r \in Audio |-> 255]
  /\ pc = [c \in Callers |-> "idle"] /\ buffer = [c \in Callers |-> initial(type)]
  /\ crossed = FALSE /\ missed = FALSE /\ mixed = 255
  /\ pins \in [{"tv", "vcr"} -> Pins]
  /\ state \in {pins, [s \in {"tv", "vcr"} |-> 3]}
  /\ timer = "on" /\ task = "idle" /\ reg = "allocated" /\ lost = 0

-----------------------------------------------------------------------------
(* One setting                                                               *)

muted == saved # [r \in Audio |-> 255]

(* stv6412_set_asw: what is chosen while muted is kept for later.            *)
set_asw(r, v) ==
  IF saved[r] # 255 THEN saved' = [saved EXCEPT ![r] = v] /\ UNCHANGED shadow
  ELSE shadow' = [shadow EXCEPT ![r] = v] /\ UNCHANGED saved

(* stv6412_set_mute: there is no bit for it, both sounds are set to none.    *)
set_mute(v) ==
  CASE v = 1 /\ ~muted -> /\ saved' = [r \in Audio |-> shadow[r]]
                          /\ shadow' = [r \in Registers |-> IF r \in Audio THEN 0 ELSE shadow[r]]
    [] v = 0 /\ muted -> /\ shadow' = [r \in Registers |-> IF r \in Audio THEN saved[r] ELSE shadow[r]]
                         /\ saved' = [r \in Audio |-> 255]
    [] OTHER -> UNCHANGED <<shadow, saved>>

(* stv6412_set_volume: half as many steps. *)
set_vol(v) == shadow' = [shadow EXCEPT !["vol"] = v \div 2] /\ UNCHANGED saved

(* What each driver does of an ioctl; other arguments it refuses.            *)
cxa2092_command(f, v) == v \in limits_cxa2092(f) /\ shadow' = [shadow EXCEPT ![register_cxa2092(f)] = v] /\ UNCHANGED saved
cxa2126_command(f, v) == v \in limits_cxa2126(f) /\ shadow' = [shadow EXCEPT ![f] = v] /\ UNCHANGED saved
stv6412_command(f, v) ==
  /\ v \in limits_stv6412(f)
  /\ CASE f \in {"asw1", "asw2", "asw3"} -> set_asw(register_stv6412(f), v)
       [] f = "mute" -> set_mute(v)
       [] f = "vol" -> set_vol(v)
       [] OTHER -> shadow' = [shadow EXCEPT ![f] = v] /\ UNCHANGED saved

avs_command(f, v) ==
  CASE type = "cxa2092" -> cxa2092_command(f, v) [] type = "cxa2126" -> cxa2126_command(f, v)
    [] type = "stv6412" -> stv6412_command(f, v)

Sending(c) ==
  /\ pc[c] = "idle" /\ pc' = [pc EXCEPT ![c] = "sending"]
  /\ buffer' = [buffer EXCEPT ![c] = shadow']
  /\ crossed' = (\E d \in Callers : pc[d] = "sending")
  /\ UNCHANGED <<type, chip, missed, watch, lost>>

Set(c, f, v) ==
  /\ avs_command(f, v)
  /\ choice' = (IF register(f) \in Audio THEN [choice EXCEPT ![register(f)] = v] ELSE choice)
  /\ mixed' = (IF f = "vol" THEN 255 ELSE mixed)
  /\ Sending(c)

(* mixer_ioctl: 0 to 100 there, an attenuation of 63 to 0 here.              *)
attenuation(v) == 63 - ((63 * v) \div 100)
Mix(c, v) ==
  \E l \in {attenuation(IF v % 256 > 100 THEN 100 ELSE v % 256)} :
    /\ avs_command("vol", l) /\ UNCHANGED choice
    /\ mixed' = (IF v % 256 > 100 THEN 100 ELSE v % 256)
    /\ Sending(c)

Quiet(c) == buffer' = [buffer EXCEPT ![c] = initial(type)] /\ UNCHANGED crossed

(* The registers are taken when the bus is free, or were copied before.      *)
(* A mutant: all drivers copy them before. *)
taken_early(c) == buffer[c]
taken(c) == IF type = "stv6412" THEN buffer[c] ELSE shadow
Sent(c) ==
  /\ pc[c] = "sending" /\ pc' = [pc EXCEPT ![c] = "idle"]
  /\ chip' = taken(c)
  /\ missed' = FALSE /\ Quiet(c)
  /\ UNCHANGED <<type, shadow, saved, choice, mixed, watch, lost>>
Unsent(c) ==
  /\ pc[c] = "sending" /\ lost < MaxLost /\ lost' = lost + 1
  /\ pc' = [pc EXCEPT ![c] = "idle"] /\ missed' = TRUE /\ Quiet(c)
  /\ UNCHANGED <<type, shadow, saved, chip, choice, mixed, watch>>

Settings ==
  \E c \in Callers :
    \/ \E f \in Fields, v \in Values : Set(c, f, v)
    \/ \E v \in Volumes : Mix(c, v)
    \/ Sent(c) \/ Unsent(c)

(* What the get ioctls answer.                                               *)
get_stv6412(r) ==
  CASE r \in Audio -> (IF saved[r] # 255 THEN saved[r] ELSE shadow[r])
    [] r = "mute" -> (IF muted THEN 1 ELSE 0)
    [] r = "vol" -> shadow["vol"] * 2 [] OTHER -> shadow[r]
get_cxa2126(r) == shadow[r]
get_cxa2092(f) == shadow[register_cxa2092(f)]
get(f) == CASE type = "stv6412" -> get_stv6412(f) [] type = "cxa2126" -> get_cxa2126(f) [] OTHER -> get_cxa2092(f)
mixer_read == ((63 - get("vol")) * 100) \div 63

-----------------------------------------------------------------------------
(* The watch                                                                 *)

Plug ==
  /\ \E s \in {"tv", "vcr"}, p \in Pins : pins[s] # p /\ pins' = [pins EXCEPT ![s] = p]
  /\ UNCHANGED <<settings, state, timer, task, reg, lost>>

avs_event_func ==
  /\ timer = "on" /\ timer' = "off" /\ task' = "queued"
  /\ UNCHANGED <<settings, pins, state, reg, lost>>

avs_event_task ==
  /\ task = "queued" /\ task' = "idle" /\ timer' = "on"
  /\ reg' = (IF reg = "freed" THEN "touched" ELSE reg)
  /\ \/ state' = pins /\ UNCHANGED lost
     \/ lost < MaxLost /\ lost' = lost + 1 /\ UNCHANGED state
  /\ UNCHANGED <<settings, pins>>

(* The task may be queued, and starts the timer again. *)
avs_event_cleanup ==
  /\ reg = "allocated" /\ reg' = "freed" /\ timer' = "off"
  /\ UNCHANGED <<settings, pins, state, task, lost>>

Watch == Plug \/ avs_event_func \/ avs_event_task \/ avs_event_cleanup

Next == Settings \/ Watch
Fairness == WF_vars(avs_event_func) /\ WF_vars(avs_event_task)
Spec == Init /\ [][Next]_vars /\ Fairness

-----------------------------------------------------------------------------
TypeOK ==
  /\ type \in Chips /\ DOMAIN shadow = Registers /\ DOMAIN chip = Registers /\ choice \in [Audio -> 0..7]
  /\ pc \in [Callers -> {"idle", "sending"}] /\ timer \in {"on", "off"} /\ task \in {"idle", "queued"}

(* Whatever the order of muting and choosing, the sound chosen last is what  *)
(* is asked back, and no sound is on while muted.                            *)
MuteKeepsChoice ==
  /\ \A r \in Audio : get(r) = choice[r]
  /\ muted => \A r \in Audio : shadow[r] = 0

(* When nobody sends, the chip has the registers the driver believes it has, *)
(* unless the last message was lost, or copies of the registers overtook     *)
(* each other on the way to the bus.                                         *)
ChipFollows ==
  (\A c \in Callers : pc[c] = "idle") /\ ~missed /\ (type = "stv6412" => ~crossed) => chip = shadow

(* The mixer reads back nearly the volume it was set to.                     *)
MixerKeepsVolume ==
  mixed # 255 => mixer_read - mixed \in -2..(IF type = "stv6412" THEN 1 ELSE 0)

(* A voltage that differs from the one told is noticed in the end.           *)
ChangeTold == pins # state ~> (pins = state \/ reg # "allocated")
=============================================================================
