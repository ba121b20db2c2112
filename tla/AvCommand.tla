----------------------------- MODULE AvCommand -----------------------------
(***************************************************************************)
(* The command interface of the MPEG decoder (avia/avia_av_core.c): one    *)
(* mailbox in the decoder's memory, and one word, STATUS_ADDRESS, that is  *)
(* 0 from the writing of a command until the decoder has taken it and then *)
(* tells where its status is found.  Ioctls, demux feeds and the watchdog  *)
(* give commands; a decoder that does not answer is started again.         *)
(***************************************************************************)
EXTENDS Integers

CONSTANTS Callers   \* the processes that give commands

NoCommand == "nobody"
CallersAssumption == NoCommand \notin Callers

VARIABLES
  status,   \* STATUS_ADDRESS: 0, or the command whose status it points to
  mailbox,  \* COMMAND and ARGUMENT_n, from the interrupt until they are taken
  done,     \* commands whose status is 3 or more
  chip,     \* the decoder: "runs", "hangs", "reset"
  irq,      \* the decoder's interrupt is requested
  call,     \* call[c]: [at, addr, waits, woken]
  dropped   \* history: a command that was written over

vars == <<status, mailbox, done, chip, irq, call, dropped>>

Zero == "0"
Boot == "boot"  \* what the microcode leaves in STATUS_ADDRESS as it starts
Addresses == Callers \cup {Zero, Boot}

Idle == [at |-> "idle", addr |-> Zero, waits |-> FALSE, woken |-> FALSE]

Init ==
  /\ status = Boot /\ mailbox = NoCommand /\ done = {Boot}
  /\ chip = "runs" /\ irq = TRUE
  /\ call = [c \in Callers |-> Idle]
  /\ dropped = FALSE

-----------------------------------------------------------------------------
(* The decoder.                                                              *)

TakeCommand ==
  /\ chip = "runs" /\ mailbox # NoCommand
  /\ status' = mailbox /\ mailbox' = NoCommand
  /\ UNCHANGED <<done, chip, irq, call, dropped>>

(* avia_av_interrupt, IRQ_END_C and IRQ_END_L: everyone who sleeps in        *)
(* avia_cmd_wait is woken.                                                   *)
CommandEnds(c) ==
  /\ chip = "runs" /\ c \notin done /\ mailbox # c
  /\ done' = done \cup {c}
  /\ call' = IF irq THEN [d \in Callers |-> [call[d] EXCEPT !.woken = @ \/ call[d].at = "sleep"]]
             ELSE call
  /\ UNCHANGED <<status, mailbox, chip, irq, dropped>>

Hangs ==
  /\ chip = "runs"
  /\ chip' = "hangs"
  /\ UNCHANGED <<status, mailbox, done, irq, call, dropped>>

-----------------------------------------------------------------------------
(* avia_av_cmd.  A command of c has c for its identity.                      *)

avia_av_cmd(c, waits) ==
  /\ call[c].at = "idle"
  /\ call' = [call EXCEPT ![c] = [Idle EXCEPT !.at = "ready", !.waits = waits]]
  /\ UNCHANGED <<status, mailbox, done, chip, irq, dropped>>

(* avia_cmd_status_get_addr looks again whenever it is scheduled.  When it   *)
(* has seen an address nobody runs until the command is in the mailbox.      *)
write_command(c) ==
  /\ call[c].at = "ready" /\ status # Zero
  /\ mailbox' = c /\ done' = done \ {c}
  /\ dropped' = (dropped \/ mailbox # NoCommand)
  /\ status' = Zero
  /\ call' = [call EXCEPT ![c].at = "accept"]
  /\ UNCHANGED <<chip, irq>>

(* The address that is seen need not be that of the caller's own command.    *)
Accepted(c) ==
  /\ call[c].at = "accept" /\ status # Zero
  /\ call' = [call EXCEPT ![c] = IF call[c].waits THEN [@ EXCEPT !.at = "look", !.addr = status]
                                 ELSE Idle]
  /\ UNCHANGED <<status, mailbox, done, chip, irq, dropped>>

(* avia_cmd_status_get: between the look and the sleep the interrupt may     *)
(* come; then only the time ends the sleep.  waittime is what is left of     *)
(* 3.5 s, over all wakeups.                                                  *)
LookAtStatus(c) ==
  /\ call[c].at = "look"
  /\ call' = [call EXCEPT ![c] = IF call[c].addr \in done THEN Idle
                                 ELSE [@ EXCEPT !.at = "fall_asleep"]]
  /\ UNCHANGED <<status, mailbox, done, chip, irq, dropped>>
FallAsleep(c) ==
  /\ call[c].at = "fall_asleep"
  /\ call' = [call EXCEPT ![c].at = "sleep", ![c].woken = FALSE]
  /\ UNCHANGED <<status, mailbox, done, chip, irq, dropped>>
WakeUp(c) ==
  /\ call[c].at = "sleep" /\ call[c].woken
  /\ call' = [call EXCEPT ![c].at = "look"]
  /\ UNCHANGED <<status, mailbox, done, chip, irq, dropped>>
SleepTimeout(c) ==
  /\ call[c].at = "sleep"
  /\ call' = [call EXCEPT ![c] = Idle]
  /\ UNCHANGED <<status, mailbox, done, chip, irq, dropped>>

-----------------------------------------------------------------------------
(* Two seconds without an answer: avia_av_standby(1), avia_av_standby(0).    *)

StandbyOn(c) ==
  /\ call[c].at \in {"ready", "accept"} /\ status = Zero /\ chip # "runs"
  /\ call' = [call EXCEPT ![c].at = "restart"]
  /\ irq' = FALSE /\ chip' = "reset" /\ mailbox' = NoCommand
  /\ UNCHANGED <<status, done, dropped>>

(* avia_av_init, as one step: reset, the load of the microcode and the wait  *)
(* until the decoder is idle, during which the others find what they find    *)
(* in between.  Its error exits are left out: without a microcode there is   *)
(* no decoder, and after one that does not start aviamem is NULL for every   *)
(* later command.  Its own last commands are AvPlayback's ClearStreams.      *)
avia_av_init(c) ==
  /\ call[c].at = "restart"
  /\ irq' = TRUE /\ chip' = "runs" /\ status' = Boot /\ mailbox' = NoCommand
  /\ done' = Callers \cup {Boot}
  /\ call' = [call EXCEPT ![c] = Idle]
  /\ UNCHANGED dropped

Caller(c) ==
  \/ write_command(c) \/ Accepted(c)
  \/ LookAtStatus(c) \/ FallAsleep(c) \/ WakeUp(c) \/ SleepTimeout(c)
  \/ StandbyOn(c) \/ avia_av_init(c)

Next ==
  \/ TakeCommand \/ Hangs
  \/ \E c \in Callers : CommandEnds(c)
  \/ \E c \in Callers : \E waits \in BOOLEAN : avia_av_cmd(c, waits)
  \/ \E c \in Callers : Caller(c)

(* The decoder takes commands as long as it runs; processes are scheduled    *)
(* and timers expire.  A process that polls may find the mailbox used by     *)
(* others again and again.                                                   *)
Fairness ==
  /\ WF_vars(TakeCommand)
  /\ \A c \in Callers : /\ WF_vars(Caller(c)) /\ SF_vars(SleepTimeout(c))
                         /\ SF_vars(write_command(c)) /\ SF_vars(Accepted(c))

Spec == Init /\ [][Next]_vars /\ Fairness

-----------------------------------------------------------------------------
TypeOK ==
  /\ status \in Addresses /\ mailbox \in Callers \cup {NoCommand}
  /\ done \subseteq Callers \cup {Boot}
  /\ chip \in {"runs", "hangs", "reset"} /\ irq \in BOOLEAN /\ dropped \in BOOLEAN
  /\ call \in [Callers -> [at : {"idle", "ready", "accept", "look", "fall_asleep", "sleep", "restart"},
                           addr : Addresses, waits : BOOLEAN, woken : BOOLEAN]]

(* No command is written over another one that the decoder has not taken,    *)
(* however callers, decoder and restarts interleave: STATUS_ADDRESS is only  *)
(* seen to be set when the mailbox is empty.                                 *)
NoCommandDropped ==
  /\ ~dropped
  /\ status # Zero => mailbox = NoCommand

(* A call comes back, from a decoder that hangs, from one that was started   *)
(* again by someone else, and after a wakeup that came too early.            *)
CallReturns == \A c \in Callers : call[c].at # "idle" ~> call[c].at = "idle"
=============================================================================
