------------------------------- MODULE Infrared -------------------------------
(***************************************************************************)
(* The infrared unit of the chip, used by one of two drivers: lirc         *)
(* (avia_gt_lirc.c over avia_gt_ir.c), which hands pulses to and takes     *)
(* them from a process, and the driver of the Samsung keyboard             *)
(* (avia_gt_ir_samsung.c), which decodes them.  Three parts with no       *)
(* variable in common but `on': Lirc, Pulses (the decoder) and Keys.       *)
(***************************************************************************)
EXTENDS Integers, Sequences, FiniteSets

CONSTANTS
  RxMax,      \* size of the buffer of received pulses, 50000 in the code
  MaxPulses,  \* bound: pulses that come in
  Words,      \* frames sent, <<key[0], key[1], key[2]>>
  MaxFrames,  \* bound: frames sent
  Noise,      \* pulses that are no part of a frame, [len, on] in ticks
  MaxRecv,    \* size of the queue of words, 16 in the code
  Plain,      \* scan code -> key
  Fn          \* scan code -> key with Fn held down

VARIABLES
  rx,      \* [buf, read, write, busy]; buf[RxMax] is memory that is not the buffer's
  came,    \* pulses received; lapped: unread ones were overwritten
  lapped,
  reader,  \* [pc, left, pulse]: pulse whose length is given next, or -1
  given,   \* what the reader got, [id, half]
  tx,      \* [busy, queue, air]: unit, pulses queued, pulses on the air
  writer,  \* [pc, n]
  \* Pulses
  train,   \* pulses of the frame on its way
  frames,  \* [word, whole]: frames sent
  dec,     \* [lbuf, time]: what the interrupt handler keeps
  words,   \* words decoded
  noisy,   \* a pulse was disturbed or lost
  \* Keys
  queue,   \* words for the tasklet
  status,  \* [old, mouse]: the last status bytes
  down,    \* keys reported down
  timer,   \* [key, on]
  orphans  \* keys down whose timer another key's release took away

lirc == <<rx, came, lapped, reader, given, tx, writer>>
pulses == <<train, frames, dec, words, noisy>>
keys == <<queue, status, down, timer, orphans>>
vars == <<lirc, pulses, keys>>

Init ==
  /\ rx = [buf |-> [i \in 0..RxMax |-> 0], read |-> 0, write |-> 0, busy |-> FALSE]
  /\ came = 0 /\ lapped = FALSE /\ reader = [pc |-> "out", left |-> 0, pulse |-> -1] /\ given = <<>>
  /\ tx = [busy |-> FALSE, queue |-> 0, air |-> 0] /\ writer = [pc |-> "out", n |-> 0]
  /\ train = <<>> /\ frames = <<>> /\ dec = [lbuf |-> <<>>, time |-> 0] /\ words = <<>> /\ noisy = FALSE
  /\ queue = <<>> /\ status = [old |-> {}, mouse |-> FALSE] /\ down = {}
  /\ timer = [key |-> "none", on |-> FALSE] /\ orphans = {}

-----------------------------------------------------------------------------
(* Lirc: receiving                                                           *)

unread == came - Cardinality({i \in DOMAIN given : given[i].half = "low" /\ given[i].id # 0})

(* avia_gt_ir_rx_irq *)
avia_gt_ir_rx_irq ==
  /\ came < MaxPulses /\ came' = came + 1
  /\ rx' = [rx EXCEPT !.buf[rx.write] = came + 1, !.busy = FALSE,
                      !.write = IF rx.write < RxMax - 1 THEN rx.write + 1 ELSE 0]
  /\ lapped' = (lapped \/ unread >= RxMax - 1)
  /\ UNCHANGED <<reader, given, tx, writer, pulses, keys>>

(* avia_gt_lirc_read: the pause of a pulse, then its length.                 *)
avia_gt_lirc_read ==
  /\ reader.pc = "out" /\ \E n \in 1..2 : reader' = [reader EXCEPT !.pc = "in", !.left = n]
  /\ UNCHANGED <<rx, came, lapped, given, tx, writer, pulses, keys>>
done(r) == [r EXCEPT !.left = r.left - 1, !.pc = IF r.left = 1 THEN "out" ELSE "in"]
PulseLength ==
  /\ reader.pc = "in" /\ reader.pulse # -1
  /\ given' = Append(given, [id |-> reader.pulse, half |-> "high"])
  /\ reader' = [done(reader) EXCEPT !.pulse = -1]
  /\ UNCHANGED <<rx, came, lapped, tx, writer, pulses, keys>>

(* avia_gt_ir_receive_pulse: interrupts are on between the look at the       *)
(* positions and the mark the interrupt takes away.                          *)
Look ==
  /\ reader.pc = "in" /\ reader.pulse = -1
  /\ reader' = [reader EXCEPT !.pc = IF rx.write = rx.read THEN "empty" ELSE "take"]
  /\ UNCHANGED <<rx, came, lapped, given, tx, writer, pulses, keys>>
MarkBusy ==
  /\ reader.pc = "empty" /\ rx' = [rx EXCEPT !.busy = TRUE]
  /\ \/ reader' = [reader EXCEPT !.pc = "sleep"]
     \/ reader' = [reader EXCEPT !.pc = "out", !.left = 0] \* O_NONBLOCK
  /\ UNCHANGED <<came, lapped, given, tx, writer, pulses, keys>>
(* A mutant: any wake-up will do. *)
woken_by_all == TRUE
woken == ~rx.busy
Wake ==
  /\ reader.pc = "sleep"
  /\ \/ woken /\ reader' = [reader EXCEPT !.pc = "take"]
     \/ reader' = [reader EXCEPT !.pc = "out", !.left = 0] \* a signal
  /\ UNCHANGED <<rx, came, lapped, given, tx, writer, pulses, keys>>
Take ==
  /\ reader.pc = "take"
  /\ given' = Append(given, [id |-> rx.buf[rx.read], half |-> "low"])
  /\ reader' = [done(reader) EXCEPT !.pulse = rx.buf[rx.read]]
  /\ rx' = [rx EXCEPT !.read = IF rx.read < RxMax THEN rx.read + 1 ELSE 0]
  /\ UNCHANGED <<came, lapped, tx, writer, pulses, keys>>

(* Lirc: sending                                                             *)
avia_gt_lirc_write ==
  /\ writer.pc = "out" /\ \E n \in 1..2 : writer' = [pc |-> "queue", n |-> n]
  /\ UNCHANGED <<rx, came, lapped, reader, given, tx, pulses, keys>>
ready == ~tx.busy
(* avia_gt_ir_queue_pulse for each pulse, avia_gt_ir_send_buffer.            *)
avia_gt_ir_send_buffer ==
  /\ writer.pc = "queue" /\ ready
  /\ tx' = [busy |-> TRUE, queue |-> 0, air |-> tx.queue + writer.n]
  /\ writer' = [pc |-> "out", n |-> 0]
  /\ UNCHANGED <<rx, came, lapped, reader, given, pulses, keys>>
GiveUp ==
  /\ writer.pc = "queue" /\ ~ready /\ writer' = [pc |-> "out", n |-> 0]
  /\ UNCHANGED <<rx, came, lapped, reader, given, tx, pulses, keys>>
avia_gt_ir_tx_irq ==
  /\ tx.busy /\ tx' = [tx EXCEPT !.busy = FALSE, !.air = 0]
  /\ UNCHANGED <<rx, came, lapped, reader, given, writer, pulses, keys>>

Read == PulseLength \/ Look \/ MarkBusy \/ Wake \/ Take
Lirc ==
  \/ avia_gt_ir_rx_irq \/ avia_gt_lirc_read \/ Read
  \/ avia_gt_lirc_write \/ avia_gt_ir_send_buffer \/ GiveUp \/ avia_gt_ir_tx_irq

-----------------------------------------------------------------------------
(* Pulses.  A frame is 72 chips of six ticks: one off, three on, three off,  *)
(* one on, then sixteen symbols of two bits, each four chips of which one is *)
(* on.                                                                       *)

nibbles(w) == [i \in 1..8 |->
  IF i <= 6 THEN (w[(i + 1) \div 2] \div (IF i % 2 = 1 THEN 16 ELSE 1)) % 16 ELSE 0]
sum(n) == n[1] + n[2] + n[3] + n[4] + n[5] + n[6] + n[7]
symbols(w) ==
  LET n == [nibbles(w) EXCEPT ![8] = sum(nibbles(w)) % 16] IN
    [i \in 0..15 |-> (n[1 + i \div 2] \div (IF i % 2 = 0 THEN 4 ELSE 1)) % 4]
chips(w) == {1, 2, 3, 7} \cup {8 + 4 * i + symbols(w)[i] : i \in 0..15}
(* The pulses of a frame, each with the pause before it.                     *)
frame(w) ==
  LET c == chips(w)
      starts == {p \in c : p - 1 \notin c}
      before(p) == {q \in c : q < p}
      run[p \in 0..72] == IF p \in c THEN 1 + run[p + 1] ELSE 0
      nth(i) == CHOOSE p \in starts : Cardinality({q \in starts : q < p}) = i - 1
      off(p) == IF before(p) = {} THEN 12 ELSE p - 1 - (CHOOSE q \in before(p) : \A r \in before(p) : r <= q)
  IN [i \in 1..Cardinality(starts) |->
        [on |-> 6 * run[nth(i)], len |-> 6 * (run[nth(i)] + off(nth(i)))]]

Send ==
  /\ train = <<>> /\ Len(frames) < MaxFrames
  /\ \E w \in Words : train' = frame(w) /\ frames' = Append(frames, [word |-> w, whole |-> TRUE])
  /\ UNCHANGED <<lirc, dec, words, noisy, keys>>

chip2value(c) == CASE c = {0} -> 0 [] c = {1} -> 1 [] c = {2} -> 2 [] c = {3} -> 3 [] OTHER -> 255

(* samsung_ir_decode: the chips that are on, the symbols, the check sum.     *)
(* The positions are exact; the code's bit arithmetic (418-427) is, too, but *)
(* for a pause of eight chips or more, which no whole frame has.             *)
samsung_ir_decode(lbuf) ==
  LET end[i \in 0..Len(lbuf)] == IF i = 0 THEN 0 ELSE end[i - 1] + lbuf[i].off + lbuf[i].on
      lit == UNION {(end[i] - lbuf[i].on)..(end[i] - 1) : i \in DOMAIN lbuf}
      value == [i \in 0..15 |-> chip2value({p \in 0..3 : 8 + 4 * i + p \in lit})]
      nib == [i \in 1..8 |-> 4 * value[2 * i - 2] + value[2 * i - 1]] IN
  IF \/ lbuf[1].off # 1 \/ lbuf[1].on # 3 \/ Len(lbuf) < 2 \/ lbuf[2].off # 3
     \/ \E i \in 0..15 : value[i] = 255
     \/ nib[8] # sum(nib) % 16
  THEN <<>>
  ELSE <<<<16 * nib[1] + nib[2], 16 * nib[3] + nib[4], 16 * nib[5] + nib[6]>>>>

Start == [lbuf |-> <<>>, time |-> 0]
norm(t) == (t + 3) \div 6
advance(d, p) == IF d.lbuf = <<>> THEN norm(p.on) ELSE norm(p.len)
complete(t) == t >= 68
(* samsung_ir_receive_irq, for one pulse: what is kept afterwards, and what  *)
(* was decoded.                                                              *)
samsung_ir_receive_irq(d, p) ==
  LET off == p.len - p.on
      empty == d.lbuf = <<>>
      e == [lbuf |-> Append(d.lbuf, [on |-> norm(p.on), off |-> IF empty THEN 1 ELSE norm(p.len) - norm(p.on)]),
            time |-> d.time + advance(d, p)] IN
  CASE off < 4 \/ (off > 50 /\ ~empty) -> [dec |-> Start, word |-> <<>>]
    [] empty /\ (p.len < 50 \/ p.on < 10 \/ p.on > 18) -> [dec |-> d, word |-> <<>>]
    [] ~empty /\ p.on > 14 -> [dec |-> Start, word |-> <<>>]
    [] OTHER -> IF e.time > 71 THEN [dec |-> Start, word |-> <<>>]
                ELSE IF complete(e.time) THEN [dec |-> Start, word |-> samsung_ir_decode(e.lbuf)]
                ELSE IF Len(e.lbuf) >= 48 THEN [dec |-> Start, word |-> <<>>]
                ELSE [dec |-> e, word |-> <<>>]

Heard(p) ==
  \E r \in {samsung_ir_receive_irq(dec, p)} : dec' = r.dec /\ words' = words \o r.word
Pulse ==
  /\ train # <<>> /\ Heard(Head(train)) /\ train' = Tail(train)
  /\ UNCHANGED <<lirc, frames, noisy, keys>>
(* Once: a foreign pulse, or one of the frame's that is not heard.           *)
Disturb ==
  /\ train # <<>> /\ ~noisy /\ noisy' = TRUE
  /\ frames' = [frames EXCEPT ![Len(frames)].whole = FALSE]
  /\ \/ \E p \in Noise : Heard(p) /\ UNCHANGED train
     \/ train' = Tail(train) /\ UNCHANGED <<dec, words>>
  /\ UNCHANGED <<lirc, keys>>
Pulses == Send \/ Pulse \/ Disturb

-----------------------------------------------------------------------------
(* Keys                                                                      *)

(* write_to_queue: one place always stays free.                              *)
write_to_queue ==
  /\ \E code \in DOMAIN Plain, st \in SUBSET {"BREAK", "FN"}, mouse \in BOOLEAN :
       queue' = IF Len(queue) < MaxRecv - 1
                THEN Append(queue, [code |-> code, status |-> st, mouse |-> mouse]) ELSE queue
  /\ UNCHANGED <<lirc, pulses, status, down, timer, orphans>>

replaced(d, key) == (d \ {timer.key}) \cup {key}
(* do_input_report_key *)
do_input_report_key(key, make) ==
  IF ~make
  THEN /\ timer' = [timer EXCEPT !.on = FALSE] /\ down' = down \ {key}
       /\ orphans' = (orphans \cup (IF timer.on THEN {timer.key} ELSE {})) \ {key}
  ELSE /\ timer' = [key |-> key, on |-> TRUE]
       /\ down' = IF ~timer.on THEN down \cup {key}
                  ELSE IF key = timer.key THEN down ELSE replaced(down, key)
       /\ orphans' = orphans \ {key}
untouched == UNCHANGED <<down, timer, orphans>>

(* samsung_task: status keys and mouse buttons are reported as they change.  *)
samsung_task ==
  /\ queue # <<>> /\ queue' = Tail(queue)
  /\ LET w == Head(queue)
         make == "BREAK" \notin w.status IN
       IF w.mouse THEN status' = [status EXCEPT !.mouse = ~status.mouse] /\ untouched
       ELSE /\ status' = [status EXCEPT !.old = w.status]
            /\ IF "FN" \in w.status
               THEN IF w.code \in DOMAIN Fn THEN do_input_report_key(Fn[w.code], make) ELSE untouched
               ELSE do_input_report_key(Plain[w.code], make)
  /\ UNCHANGED <<lirc, pulses>>

(* break_missed: no key code for BREAK_KEY_TIMEOUT.                          *)
break_missed ==
  /\ timer.on /\ timer' = [timer EXCEPT !.on = FALSE] /\ down' = down \ {timer.key}
  /\ UNCHANGED <<lirc, pulses, queue, status, orphans>>
Keys == write_to_queue \/ samsung_task \/ break_missed

Next == Lirc \/ Pulses \/ Keys
Spec == Init /\ [][Next]_vars

-----------------------------------------------------------------------------
TypeOK ==
  /\ rx.read \in 0..RxMax /\ rx.write \in 0..(RxMax - 1) /\ came \in 0..MaxPulses
  /\ reader.pc \in {"out", "in", "empty", "sleep", "take"}
  /\ Len(dec.lbuf) < 48 /\ dec.time < 68 /\ Len(queue) < MaxRecv

(* Pulses reach the reader once and in order, each pause before its length.  *)
(* The reader's position runs one place further than the interrupt's before  *)
(* it returns to 0: once in a lap, and no oftener, it reads memory behind    *)
(* the buffer (id 0).                                                        *)
PulsesInOrder ==
  LET real == SelectSeq(given, LAMBDA g : g.id # 0)
      foreign == {i \in DOMAIN given : given[i].id = 0 /\ given[i].half = "low"} IN
    ~lapped =>
      /\ \A i \in DOMAIN real :
           real[i] = [id |-> (i + 1) \div 2, half |-> IF i % 2 = 1 THEN "low" ELSE "high"]
      /\ 2 * RxMax * Cardinality(foreign) <= Len(real)

(* Every whole frame is decoded, in order, to the word that was sent, but    *)
(* for the frame after a disturbed one, whose first pulse only ends it.  A   *)
(* disturbed frame yields its own word or none.                              *)
FramesArrive ==
  LET sure == {i \in DOMAIN frames : frames[i].whole /\ (i > 1 => frames[i - 1].whole)}
      over == IF train = <<>> THEN Len(frames) ELSE Len(frames) - 1 IN
    /\ \A i \in sure : i <= over => \E k \in DOMAIN words : words[k] = frames[i].word
    /\ \A k \in DOMAIN words : \E i \in DOMAIN frames : words[k] = frames[i].word
    /\ Len(words) <= Len(frames)
    /\ ~noisy => words = [i \in 1..over |-> frames[i].word]

(* A key that is down has the timer that ends it: but for one whose timer    *)
(* went with the release of another.                                         *)
DownHasTimer == \A k \in down : (timer.on /\ timer.key = k) \/ k \in orphans
=============================================================================
