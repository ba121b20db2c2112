------------------------------ MODULE GtClock ------------------------------
(***************************************************************************)
(* The recovery of the program clock (avia_gt_pcr_irq in                   *)
(* avia/avia_gt_dmx.c): each PCR of the stream is compared with the clock  *)
(* of the decoder, latched as the PCR came, and the oscillator is tuned.   *)
(* Both are counters of 33 bits, and their difference is kept in 32.       *)
(***************************************************************************)
EXTENDS Integers

CONSTANTS
  Half,        \* 2^32; a counter is modulo 2 * Half
  MaxPcrDiff,  \* MAX_PCR_DIFF
  MaxDiffDiff, \* MAX_DIFF_DIFF
  ForceDiff,   \* FORCE_DIFF
  MaxDiff,     \* MAX_DIFF
  Steps,       \* by how much the stream and the clock go on between two PCRs
  Jumps        \* by how much the clock may be off after a reload

ClockAssumption ==
  /\ Half \in Nat /\ Half > 0
  /\ MaxPcrDiff \in Nat /\ MaxDiffDiff \in Nat /\ ForceDiff \in Nat /\ MaxDiff \in Nat
  /\ ForceDiff < MaxDiff /\ MaxDiff < Half \div 2 /\ MaxPcrDiff < Half
  /\ Steps \subseteq [pcr : 0 .. 2 * Half - 1, stc : 0 .. 2 * Half - 1]
  /\ \A s \in Steps : MaxDiff + s.stc < Half \div 2 /\ MaxDiff + s.pcr < Half \div 2
  /\ Jumps \subseteq -MaxDiff .. MaxDiff

Wrap == 2 * Half
Counters == 0 .. Wrap - 1

VARIABLES
  pcr, lstc,         \* the registers TP_PCR and LC_STC
  last_pcr, last_lstc, last_diff,
  dac,               \* the last correction: gain went up, down or did not change
  force_stc_reload,
  gap, off,          \* history: how far PCR is from the last one, the clock from the PCR
  why                \* history: what the last interrupt did

vars == <<pcr, lstc, last_pcr, last_lstc, last_diff, dac, force_stc_reload, gap, off, why>>

Init ==
  /\ pcr = 0 /\ lstc = 0
  /\ last_pcr = 0 /\ last_lstc = 0 /\ last_diff = 0
  /\ dac = "same" /\ force_stc_reload = TRUE
  /\ gap = 0 /\ off = 0 /\ why = "nothing"

(* The assignment to an s32.                                                *)
s32(n) == LET m == n % Half IN IF m >= Half \div 2 THEN m - Half ELSE m

(* avia_gt_dmx_get_pcr_base and ..._latched_stc_base against the last ones:  *)
(* the order in which the two counters wrap is not fixed.                   *)
pcr_diff(p) == IF p > last_pcr THEN p - last_pcr ELSE p + Wrap - last_pcr
pcr_lstc_diff(p, l) ==
  s32(CASE p < last_pcr /\ l < last_lstc -> l - p
        [] p < last_pcr /\ l >= last_lstc -> l - p - Wrap
        [] p >= last_pcr /\ l < last_lstc -> l + Wrap - p
        [] OTHER -> l - p)

direction(diff) == CASE diff - last_diff > MaxDiffDiff -> "FAST"
                     [] diff - last_diff < -MaxDiffDiff -> "SLOW"
                     [] OTHER -> "OK"

(* The correction and the difference that is kept.                          *)
gain(diff) ==
  LET dir == direction(diff)
  IN CASE diff > ForceDiff ->
            IF dir # "SLOW" THEN [by |-> "up", last |-> diff] ELSE [by |-> "same", last |-> last_diff]
       [] diff < -ForceDiff ->
            IF dir # "FAST" THEN [by |-> "down", last |-> diff] ELSE [by |-> "same", last |-> last_diff]
       [] dir = "FAST" -> [by |-> "up", last |-> last_diff + 1]
       [] dir = "SLOW" -> [by |-> "down", last |-> last_diff - 1]
       [] OTHER -> [by |-> "same", last |-> last_diff]

(* A PCR packet: the registers have changed, and the interrupt comes.        *)
Arrive(step) ==
  /\ pcr' = (pcr + step.pcr) % Wrap
  /\ lstc' = (lstc + step.stc) % Wrap
  /\ gap' = step.pcr
  /\ off' = off + step.stc - step.pcr

(* The decoder's clock is set to a PCR, exactly or not quite.               *)
Reload(jump) ==
  /\ force_stc_reload
  /\ \E step \in Steps : pcr' = (pcr + step.pcr) % Wrap /\ gap' = step.pcr
  /\ off' = jump /\ lstc' = (pcr' + jump) % Wrap
  /\ last_pcr' = pcr' /\ last_lstc' = pcr' /\ last_diff' = 0
  /\ force_stc_reload' = FALSE /\ why' = "reload"
  /\ UNCHANGED dac

Discontinuity(step) ==
  /\ ~force_stc_reload
  /\ Arrive(step)
  /\ pcr_diff(pcr') > MaxPcrDiff
  /\ force_stc_reload' = TRUE /\ why' = "gap"
  /\ UNCHANGED <<last_pcr, last_lstc, last_diff, dac>>

SyncLost(step) ==
  /\ ~force_stc_reload
  /\ Arrive(step)
  /\ pcr_diff(pcr') <= MaxPcrDiff
  /\ pcr_lstc_diff(pcr', lstc') \notin -MaxDiff .. MaxDiff
  /\ last_pcr' = pcr' /\ last_lstc' = lstc'
  /\ force_stc_reload' = TRUE /\ why' = "lost"
  /\ UNCHANGED <<last_diff, dac>>

Tune(step) ==
  /\ ~force_stc_reload
  /\ Arrive(step)
  /\ pcr_diff(pcr') <= MaxPcrDiff
  /\ \E diff \in {pcr_lstc_diff(pcr', lstc')} :
       /\ diff \in -MaxDiff .. MaxDiff
       /\ dac' = gain(diff).by
       /\ last_diff' = gain(diff).last
  /\ last_pcr' = pcr' /\ last_lstc' = lstc'
  /\ why' = "tune"
  /\ UNCHANGED force_stc_reload

(* avia_gt_dmx_set_pcr_pid: another program's clock.                        *)
avia_gt_dmx_set_pcr_pid ==
  /\ force_stc_reload' = TRUE /\ why' = "nothing"
  /\ UNCHANGED <<pcr, lstc, last_pcr, last_lstc, last_diff, dac, gap, off>>

Next ==
  \/ \E jump \in Jumps : Reload(jump)
  \/ \E step \in Steps : Discontinuity(step) \/ SyncLost(step) \/ Tune(step)
  \/ avia_gt_dmx_set_pcr_pid

Spec == Init /\ [][Next]_vars

-----------------------------------------------------------------------------
TypeOK ==
  /\ pcr \in Counters /\ lstc \in Counters
  /\ last_pcr \in Counters /\ last_lstc \in Counters
  /\ last_diff \in -MaxDiff .. MaxDiff
  /\ dac \in {"up", "down", "same"} /\ force_stc_reload \in BOOLEAN

(* Whichever of the counters wraps first, and also when the clock was set    *)
(* to just before or after the PCR, the difference that is taken is the      *)
(* distance of the clock from the stream: the clock is tuned only when it is *)
(* near, and reloaded only when it is not, when PCRs are missing, or when a  *)
(* PCR comes twice (which counts as a whole turn).                          *)
ReloadsOnlyWhenLost ==
  /\ why = "tune" => off \in -MaxDiff .. MaxDiff /\ gap \in 1 .. MaxPcrDiff
  /\ why = "lost" => off \notin -MaxDiff .. MaxDiff
  /\ why = "gap" => gap > MaxPcrDiff \/ gap = 0
=============================================================================
