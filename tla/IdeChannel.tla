----------------------------- MODULE IdeChannel ------------------------------
(***************************************************************************)
(* The IDE interface (ide/main.c): a logic chip with a fifo of four words  *)
(* between the processor and the drive.  Told to repeat, the chip fetches  *)
(* words of its own accord as long as the fifo has room, or puts them out; *)
(* the driver only looks at the level of the fifo.                         *)
(***************************************************************************)
EXTENDS Integers, Sequences

CONSTANTS
  Counts,    \* words asked for in one call
  MaxWords,  \* bound: words kept of one call, no fewer than are asked for
  Wrap,      \* the counter of the words left is modulo Wrap, 2^32 in the code
  MaxSlow    \* bound: times the drive is too slow for a wait

IdeChannelAssumption ==
  /\ MaxWords \in Nat \ {0} /\ Counts \subseteq 1..MaxWords
  /\ Wrap \in Nat /\ MaxWords < Wrap /\ MaxSlow \in Nat

VARIABLES
  fifo,     \* words, at most four
  ctrl,     \* [enable, writing, repeat]
  fetched,  \* words the drive has given
  taken,    \* words the drive has taken
  pc,       \* "off", "idle", or where in the call
  op,       \* [name, count, left]
  buffer,   \* words given to the caller
  sent,     \* words of the caller put into the fifo
  problem,  \* dboxide_problem was called
  slow

vars == <<fifo, ctrl, fetched, taken, pc, op, buffer, sent, problem, slow>>

Off == [enable |-> FALSE, writing |-> FALSE, repeat |-> FALSE]
Reading(repeat) == [enable |-> TRUE, writing |-> FALSE, repeat |-> repeat]
Writing(repeat) == [enable |-> TRUE, writing |-> TRUE, repeat |-> repeat]
Upto(n) == [i \in 1..n |-> i]

Init ==
  /\ fifo \in {<<>>, <<0>>, <<0, 0, 0, 0>>} \* whatever is left from before
  /\ ctrl = Off /\ fetched = 0 /\ taken = <<>> /\ pc = "off"
  /\ op = [name |-> "none", count |-> 0, left |-> 0]
  /\ buffer = <<>> /\ sent = 0 /\ problem = FALSE /\ slow = 0

-----------------------------------------------------------------------------
(* The chip and the drive                                                    *)

Fetch ==
  /\ ctrl.enable /\ ~ctrl.writing /\ Len(fifo) < 4
  /\ fifo' = Append(fifo, fetched + 1) /\ fetched' = fetched + 1
  /\ ctrl' = [ctrl EXCEPT !.enable = ctrl.repeat]
  /\ UNCHANGED <<taken, pc, op, buffer, sent, problem, slow>>

Put ==
  /\ ctrl.enable /\ ctrl.writing /\ fifo # <<>>
  /\ taken' = (IF Len(taken) <= MaxWords THEN Append(taken, Head(fifo)) ELSE taken)
  /\ fifo' = Tail(fifo)
  /\ ctrl' = [ctrl EXCEPT !.enable = ctrl.repeat]
  /\ UNCHANGED <<fetched, pc, op, buffer, sent, problem, slow>>

-----------------------------------------------------------------------------
(* The calls                                                                 *)

(* detect_cpld: what is in the fifo is read out, two words at a time.        *)
detect_cpld ==
  /\ pc = "off" /\ pc' = "idle" /\ fifo' = <<>>
  /\ UNCHANGED <<ctrl, fetched, taken, op, buffer, sent, problem, slow>>

(* What the IDE layer asks for; each call starts counting anew.              *)
Begin(name, count, to, c) ==
  /\ pc = "idle" /\ pc' = to /\ ctrl' = c
  /\ op' = [name |-> name, count |-> count, left |-> count]
  /\ buffer' = <<>> /\ fetched' = 0 /\ taken' = <<>>
  /\ problem' = (problem \/ (~c.repeat /\ fifo # <<>>))
  /\ UNCHANGED slow

dboxide_insw ==
  /\ \E n \in Counts :
       IF n < 4 THEN Begin("insw", n, "word", Reading(FALSE)) ELSE Begin("insw", n, "full", Reading(TRUE))
  /\ sent' = 0 /\ UNCHANGED fifo
dboxide_inb == Begin("inb", 1, "word", Reading(FALSE)) /\ sent' = 0 /\ UNCHANGED fifo
dboxide_outb == Begin("outb", 1, "drain", Writing(FALSE)) /\ fifo' = Append(fifo, 1) /\ sent' = 1
dboxide_outsw == \E n \in Counts : Begin("outsw", n, "empty", Writing(TRUE)) /\ sent' = 0 /\ UNCHANGED fifo

pair == IF Len(fifo) < 2 THEN fifo ELSE SubSeq(fifo, 1, 2)
rest == IF Len(fifo) < 2 THEN <<>> ELSE SubSeq(fifo, 3, Len(fifo))

(* dboxide_inb, dboxide_inw: one word, and for few words again.              *)
Word ==
  /\ pc = "word" /\ fifo # <<>>
  /\ buffer' = Append(buffer, Head(fifo)) /\ fifo' = <<>>
  /\ op' = [op EXCEPT !.left = op.left - 1]
  /\ IF op.left = 1 THEN pc' = "idle" /\ UNCHANGED ctrl ELSE ctrl' = Reading(FALSE) /\ UNCHANGED pc
  /\ UNCHANGED <<fetched, taken, sent, problem, slow>>

(* dboxide_insw: four words as often as the fifo is full; before the last    *)
(* four the chip is stopped, while it is full.                               *)
more == op.left > 4
(* A mutant: it is stopped after the last four. *)
stopped_late == ctrl
stopped == IF more THEN ctrl ELSE Off
Full ==
  /\ pc = "full" /\ Len(fifo) = 4 /\ pc' = "first" /\ ctrl' = stopped
  /\ UNCHANGED <<fifo, fetched, taken, op, buffer, sent, problem, slow>>
First ==
  /\ pc = "first" /\ pc' = "second" /\ buffer' = buffer \o pair /\ fifo' = rest
  /\ UNCHANGED <<ctrl, fetched, taken, op, sent, problem, slow>>
Second ==
  /\ pc = "second" /\ buffer' = buffer \o pair /\ fifo' = rest
  /\ IF more THEN pc' = "full" /\ op' = [op EXCEPT !.left = op.left - 4] /\ UNCHANGED ctrl
             ELSE pc' = "idle" /\ ctrl' = Off /\ UNCHANGED op
  /\ UNCHANGED <<fetched, taken, sent, problem, slow>>

(* dboxide_outsw: four words as often as the fifo is empty; the counter has  *)
(* no sign.                                                                  *)
Empty ==
  /\ pc = "empty" /\ op.left > 0 /\ fifo = <<>>
  /\ fifo' = <<sent + 1, sent + 2, sent + 3, sent + 4>>
  /\ sent' = (IF sent > MaxWords THEN sent ELSE sent + 4)
  /\ op' = [op EXCEPT !.left = (op.left - 4) % Wrap]
  /\ UNCHANGED <<ctrl, fetched, taken, pc, buffer, problem, slow>>
Written == pc = "empty" /\ op.left = 0 /\ pc' = "drain" /\ UNCHANGED <<fifo, ctrl, fetched, taken, op, buffer, sent, problem, slow>>

(* wait_for_fifo_empty, then the chip is stopped.  A drive that is too slow  *)
(* is reported, and the call goes on.                                        *)
drained == fifo = <<>>
wait_for_fifo_empty ==
  /\ pc = "drain" /\ pc' = "idle" /\ ctrl' = Off
  /\ \/ drained /\ UNCHANGED <<problem, slow>>
     \/ fifo # <<>> /\ slow < MaxSlow /\ slow' = slow + 1 /\ problem' = TRUE
  /\ UNCHANGED <<fifo, fetched, taken, op, buffer, sent>>

Host ==
  \/ detect_cpld \/ dboxide_insw \/ dboxide_inb \/ dboxide_outb \/ dboxide_outsw
  \/ Word \/ Full \/ First \/ Second \/ Empty \/ Written \/ wait_for_fifo_empty
Next == Host \/ Fetch \/ Put
Going == Word \/ Full \/ First \/ Second \/ Empty \/ Written \/ wait_for_fifo_empty
Fairness == WF_vars(Fetch) /\ WF_vars(Put) /\ WF_vars(Going)
Spec == Init /\ [][Next]_vars /\ Fairness

-----------------------------------------------------------------------------
TypeOK == Len(fifo) <= 4 + slow /\ op.left \in 0..Wrap - 1 /\ problem \in BOOLEAN /\ slow \in 0..MaxSlow

(* A call of four words, a multiple of it, or fewer than four to read.       *)
proper == op.count % 4 = 0 \/ (op.name # "outsw" /\ op.count < 4)

(* A call carries the words it was asked for, each once and in order, and    *)
(* the drive has given no word too many and is missing none: no matter how   *)
(* far the chip was ahead.                                                   *)
ExactlyCount ==
  pc = "idle" /\ proper /\ ~problem =>
    /\ fifo = <<>>
    /\ op.name \in {"insw", "inb"} => buffer = Upto(op.count) /\ fetched = op.count
    /\ op.name \in {"outsw", "outb"} => taken = Upto(op.count)

(* A proper call comes to an end, although nothing in insw and outsw bounds  *)
(* their waits for the level of the fifo.                                    *)
CallsEnd == (pc \notin {"off", "idle"} /\ proper /\ ~problem) ~> pc = "idle"
=============================================================================
