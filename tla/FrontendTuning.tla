--------------------------- MODULE FrontendTuning ---------------------------
(***************************************************************************)
(* What the thread of a frontend does to the tuner (dvb-core/              *)
(* dvb_frontend.c): it looks at the status again and again; while there is *)
(* no lock it moves the frequency to and fro around the one that was asked *)
(* for ("zigzag"), further out each time, and it reports every change of   *)
(* the status as an event.  Handlers and the turn of the thread's loop     *)
(* hold fe->sem, so each of them is one step.                              *)
(*                                                                         *)
(* Frequencies are counted in steps of the zigzag from the one asked for.  *)
(***************************************************************************)
EXTENDS Integers

CONSTANTS
  Capabilities, \* of the frontends: sets of "recover" (FE_CAN_RECOVER) and "clean"
                \* (FE_CAN_CLEAN_SETUP)
  Period,       \* the zigzag starts over after this many looks: 32
  Patience,     \* looks without a lock before a frontend without "clean" is moved: 10
  Reach,        \* how far the carrier may lie from where it is looked for
  MaxSets       \* bound: how often a user tunes or opens the frontend again

TuningAssumption ==
  /\ Capabilities \subseteq SUBSET {"recover", "clean"}
  /\ Period \in Nat /\ Period > 2 /\ Period % 2 = 0
  /\ Patience \in 1 .. Period
  /\ Reach \in 0 .. Period \div 2 - 1
  /\ MaxSets \in Nat

VARIABLES
  caps,            \* fe->info->caps
  lnb_drift,       \* fe->lnb_drift
  lost_sync_count, \* fe->lost_sync_count
  status,          \* fe->status
  tuned,           \* what the tuner was last set to
  clock,           \* since lost_sync_jiffies: has the thread looked?, is TIMEOUT over?
  air,             \* where the carrier is, and whether it is on the air
  answered,        \* history: has an event told what became of the tuning?
  sets             \* bound: how often a user came

vars == <<caps, lnb_drift, lost_sync_count, status, tuned, clock, air, answered, sets>>

Locked(s) == "LOCK" \in s
Restarted == [looked |-> FALSE, late |-> FALSE]

(* dvb_register_frontend; the thread has just been started and waits for     *)
(* somebody to tune.                                                         *)
Init ==
  /\ caps \in Capabilities
  /\ lnb_drift = 0 /\ lost_sync_count = -1 /\ status = {} /\ tuned = 0
  /\ clock = Restarted
  /\ air \in [at : -Reach .. Reach, on : BOOLEAN]
  /\ answered = TRUE /\ sets = 0

-----------------------------------------------------------------------------
(* The world: carriers come and go, time passes.                             *)

CarrierChanges ==
  /\ air' = [air EXCEPT !.on = ~@]
  /\ UNCHANGED <<caps, lnb_drift, lost_sync_count, status, tuned, clock, answered, sets>>

(* Two seconds pass.  The thread, woken by a tuning, looks before that.      *)
TimeoutPasses ==
  /\ clock.looked /\ ~clock.late
  /\ clock' = [clock EXCEPT !.late = TRUE]
  /\ UNCHANGED <<caps, lnb_drift, lost_sync_count, status, tuned, air, answered, sets>>

(* What FE_READ_STATUS says.  A frontend that recovers looks around itself.  *)
on_carrier == air.on /\ (tuned = air.at \/ "recover" \in caps)
readings == IF on_carrier THEN {{"SIGNAL", "LOCK"}} ELSE {{}, {"SIGNAL"}}

-----------------------------------------------------------------------------
(* dvb_frontend_add_event and dvb_call_frontend_notifiers: losing the lock   *)
(* starts the clock again.                                                   *)
Report(s) ==
  /\ status' = s
  /\ answered' = (answered \/ s \cap {"LOCK", "TIMEDOUT"} # {})

(* dvb_frontend_set_parameters at the first trial                            *)
SetFrontend ==
  /\ sets < MaxSets /\ sets' = sets + 1
  /\ lost_sync_count' = 0 /\ lnb_drift' = 0 /\ tuned' = 0
  /\ clock' = Restarted
  /\ status' = IF status \ {"TIMEDOUT"} # {} THEN {} ELSE status
  /\ answered' = FALSE
  /\ UNCHANGED <<caps, air>>

(* Another thread is started after the last one has gone to sleep.           *)
StartThread ==
  /\ sets < MaxSets /\ sets' = sets + 1
  /\ lost_sync_count' = -1 /\ status' = {} /\ tuned' = 0 /\ answered' = TRUE
  /\ clock' = [clock EXCEPT !.looked = FALSE]
  /\ UNCHANGED <<caps, lnb_drift, air>>

(* FE_SET_TONE and the DiSEqC commands: the lock is taken for lost.          *)
DiseqcCommand ==
  /\ status # {} /\ status' = {}
  /\ sets < MaxSets /\ sets' = sets + 1
  /\ clock' = IF Locked(status) THEN Restarted ELSE clock
  /\ UNCHANGED <<caps, lnb_drift, lost_sync_count, tuned, air, answered>>

-----------------------------------------------------------------------------
(* The turn of the loop in dvb_frontend_thread                               *)

(* lost_sync_count counts on; only its value below Patience and its value    *)
(* modulo Period matter, so it is brought back after two periods.            *)
counted == IF lost_sync_count + 1 = 2 * Period THEN Period ELSE lost_sync_count + 1

(* dvb_frontend_recover: to the other side, and every other time further.    *)
zigzag(j) ==
  IF j % Period = 0 THEN 0 ELSE IF j % 2 = 1 THEN 1 - lnb_drift ELSE -lnb_drift

FindLock(s) ==
  /\ Locked(s)
  /\ lost_sync_count' = 0
  /\ clock' = [clock EXCEPT !.looked = TRUE]
  /\ IF s # status THEN Report(s) ELSE UNCHANGED <<status, answered>>
  /\ UNCHANGED <<lnb_drift, tuned>>

patient == caps = {} /\ counted < Patience

(* The loop goes on without a word.                                          *)
BePatient(s) ==
  /\ ~Locked(s) /\ patient
  /\ lost_sync_count' = counted
  /\ clock' = [clock EXCEPT !.looked = TRUE]
  /\ UNCHANGED <<lnb_drift, tuned, status, answered>>

Search(s) ==
  LET seen == s \cup (IF clock.late THEN {"TIMEDOUT"} ELSE {})
  IN /\ ~Locked(s) /\ ~patient
     /\ lost_sync_count' = counted
     /\ IF "recover" \in caps THEN UNCHANGED <<lnb_drift, tuned>>
        ELSE lnb_drift' = zigzag(counted) /\ tuned' = lnb_drift'
     /\ clock' = IF Locked(status) THEN Restarted ELSE [clock EXCEPT !.looked = TRUE]
     /\ IF seen # status THEN Report(seen) ELSE UNCHANGED <<status, answered>>

Look == /\ lost_sync_count # -1
        /\ \E s \in readings : FindLock(s) \/ BePatient(s) \/ Search(s)
        /\ UNCHANGED <<caps, air, sets>>

Next == CarrierChanges \/ TimeoutPasses \/ SetFrontend \/ StartThread \/ DiseqcCommand \/ Look

(* The thread sleeps for about a second at most; time passes.                *)
Fairness == WF_vars(Look) /\ WF_vars(TimeoutPasses)
Spec == Init /\ [][Next]_vars /\ Fairness

-----------------------------------------------------------------------------
TypeOK ==
  /\ caps \in Capabilities
  /\ lnb_drift \in -Period .. Period /\ tuned \in -Period .. Period
  /\ lost_sync_count \in -1 .. 2 * Period
  /\ status \in SUBSET {"SIGNAL", "LOCK", "TIMEDOUT"}
  /\ clock \in [looked : BOOLEAN, late : BOOLEAN]
  /\ answered \in BOOLEAN /\ sets \in 0 .. MaxSets

(* A carrier within reach that stays on the air is found and kept, wherever  *)
(* the search stood when it came up.                                         *)
FindsCarrier ==
  <>[](air.on /\ lost_sync_count # -1) => <>[]Locked(status)

(* Whoever tunes is told what came of it: a lock or a timeout.  A frontend   *)
(* that waits for Patience looks keeps the timeout of the tuning before and  *)
(* tells nothing of its own.                                                 *)
TuningAnswered == caps # {} => [](~answered => <>answered)
=============================================================================
