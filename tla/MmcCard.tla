------------------------------- MODULE MmcCard -------------------------------
(***************************************************************************)
(* The memory card drivers (mmc/): mmc, mmc2 and mmccombo, and two for     *)
(* tests.  A card is asked for its capacity when the driver is loaded;     *)
(* requests of the block layer are carried out a block at a time by waving *)
(* port lines.  The second half is how mmccombo takes the lines.           *)
(***************************************************************************)
EXTENDS Integers, Sequences, FiniteSets

CONSTANTS
  Drivers,   \* of "mmc", "mmc2", "mmc2test", "mmc3test", "mmccombo"
  Units,     \* half kilobytes on the card
  BlockLens, \* the card's block length in half kilobytes: 1, 2
  Start,     \* first sector of the partition
  Delay,     \* how often the card must be looked at until it answers
  MaxWrites, \* bound: writes
  Varied     \* lines whose use before differs from board to board

MmcCardAssumption ==
  /\ Units \in Nat /\ Delay \in Nat /\ BlockLens \subseteq 1..4 /\ Start \in 0..Units - 1 /\ MaxWrites \in Nat

VARIABLES
  \* the disk
  driver, state,   \* "out", "loaded", "unloaded"
  present,   \* a card is in
  card,      \* [unit -> version written, 0 before]
  detect,    \* mmc_media_detect
  hardsect,  \* hd_hardsectsizes[0], in half kilobytes
  nr_sects,  \* hd[0].nr_sects
  start,     \* [partition -> start_sect]; partition 0 is the whole card
  request,   \* <<>> or <<[cmd, part, sector, count, done, code, got, version]>>
  lied,      \* history: a request was answered well that was not carried out
  writes,
  reread,    \* history: the partitions were read anew while the request waited
  rejected,  \* history: the card refused a block of the request
  \* the lines
  ports,     \* [line -> [assigned, drain, out, high]]
  before,    \* history: the same before the driver was loaded
  saved,     \* myports
  actualhard, wiringopt, forcehw,
  wirings,   \* still to try
  inited     \* "no", "trying", "yes", "failed", "gone"

disk == <<driver, state, present, card, detect, hardsect, nr_sects, start, request, lied, writes, reread, rejected>>
lines == <<ports, before, saved, actualhard, wiringopt, forcehw, wirings, inited>>
vars == <<disk, lines>>

-----------------------------------------------------------------------------
(* The disk                                                                  *)

InitDisk ==
  /\ driver \in Drivers /\ state = "out" /\ present \in BOOLEAN
  /\ card = [u \in 0..Units - 1 |-> 0]
  /\ detect = 0 /\ hardsect = 0 /\ nr_sects = 0 /\ start = [p \in 0..1 |-> 0]
  /\ request = <<>> /\ lied = FALSE /\ writes = 0 /\ reread = FALSE /\ rejected = FALSE

(* mmc_card_init: reset, then asked until it is no longer busy. *)
card_inits == IF present THEN {0, 1, 2} ELSE {1}
(* mmc_card_config: the capacity comes from the card in its block length; a  *)
(* checksum whose last byte is zero is taken for an error.                   *)
mmc_card_config(len) == [hardsect |-> len, size |-> Units \div 2]

(* mmc_check_media: the card counts as found whatever mmc_init returned, and *)
(* nobody asks again.                                                        *)
Load ==
  /\ state = "out" /\ state' = "loaded" /\ detect' = 1
  /\ \/ \* mmc_init: two attempts
        /\ 0 \in card_inits
        /\ \E len \in BlockLens : \E c \in {mmc_card_config(len)} :
             hardsect' = c.hardsect /\ nr_sects' = 2 * c.size
        /\ start' = [start EXCEPT ![1] = Start]
     \/ UNCHANGED <<hardsect, nr_sects, start>>
  /\ UNCHANGED <<driver, present, card, request, lied, writes, reread, rejected, lines>>

(* mmc_driver_exit, mmc_exit *)
Unload ==
  /\ state = "loaded" /\ request = <<>> /\ state' = "unloaded" /\ nr_sects' = 0
  /\ UNCHANGED <<driver, present, card, detect, hardsect, start, request, lied, writes, reread, rejected, lines>>

(* The block layer has looked at the length of the partition.                *)
Submit ==
  /\ state = "loaded" /\ detect = 1 /\ request = <<>>
  /\ \E cmd \in {"read", "write"}, part \in 0..1, sector \in 0..Units - 1, count \in 1..2 :
       /\ sector + count + start[part] <= Units
       /\ cmd = "write" => writes < MaxWrites
       /\ writes' = (IF cmd = "write" THEN writes + 1 ELSE writes)
       /\ request' = <<[cmd |-> cmd, part |-> part, first |-> sector + start[part], sector |-> sector, count |-> count,
                        done |-> -1, addr |-> 0, code |-> 1, got |-> <<>>, version |-> writes + 1]>>
  /\ reread' = FALSE /\ rejected' = FALSE
  /\ UNCHANGED <<driver, state, present, card, detect, hardsect, nr_sects, start, lied, lines>>

r == request[1]

(* Where a request begins on the card. *)
(* A mutant: the start of the partition is left out. *)
mmc_address_whole == r.sector * hardsect
mmc_address == (r.sector + start[r.part]) * hardsect

(* mmc_request: the limit is that of the whole card.                         *)
mmc_request ==
  /\ request # <<>> /\ r.done = -1
  /\ request' = <<[r EXCEPT !.done = 0,
                            !.addr = mmc_address,
                            !.code = IF r.sector + r.count + start[r.part] > nr_sects THEN 0 ELSE 1]>>
  /\ UNCHANGED <<driver, state, present, card, detect, hardsect, nr_sects, start, lied, writes, reread, rejected, lines>>

(* A block: the address goes on by the card's block length; what is carried  *)
(* is half a kilobyte.                                                       *)
transferring == request # <<>> /\ r.done \in 0..r.count - 1 /\ r.code = 1

at == r.addr + r.done * hardsect
(* How many times each driver looks for an answer, for the data, and whether *)
(* the card has finished; the test driver looks once more.                   *)
mmc_waits == [answer |-> 8, data |-> 100000, busy |-> 1000000]
mmc2_waits == [answer |-> 8, data |-> 100000, busy |-> 1000000]
mmc3test_waits == [answer |-> 8, data |-> 100000, busy |-> 1000000]
mmccombo_waits == [answer |-> 8, data |-> 100000, busy |-> 1000000]
mmc2test_waits == [answer |-> 9, data |-> 100001, busy |-> 1000001]
waits == CASE driver = "mmc2test" -> mmc2test_waits [] driver = "mmccombo" -> mmccombo_waits
           [] driver = "mmc2" -> mmc2_waits [] driver = "mmc3test" -> mmc3test_waits [] OTHER -> mmc_waits
heard == Delay <= waits.answer

failed == request' = <<[r EXCEPT !.code = 0]>>
advanced(got) == request' = <<[r EXCEPT !.done = r.done + 1, !.got = Append(r.got, got)]>>

(* mmc_read_block: no answer, no data in time, or the block.                 *)
mmc_read_block ==
  /\ transferring /\ r.cmd = "read"
  /\ \/ failed
     \/ /\ present /\ at < Units /\ heard
        /\ advanced(card[at])
  /\ UNCHANGED <<driver, state, present, card, detect, hardsect, nr_sects, start, lied, writes, reread, rejected, lines>>

(* mmc_write_block: what the card says of the data is not looked at, only    *)
(* that it is no longer busy.                                                *)
mmc_write_block ==
  /\ transferring /\ r.cmd = "write"
  /\ \/ failed /\ UNCHANGED <<card, rejected>>
     \/ /\ present /\ at < Units /\ heard
        /\ \/ card' = [card EXCEPT ![at] = r.version] /\ (failed \/ advanced(0)) /\ UNCHANGED rejected
           \/ rejected' = TRUE /\ advanced(0) /\ UNCHANGED card
  /\ UNCHANGED <<driver, state, present, detect, hardsect, nr_sects, start, lied, writes, reread, lines>>

(* What was read is what is there, what was written is there. *)
Carried(q) == \A i \in 0..q.count - 1 : card[q.first + i] = (IF q.cmd = "write" THEN q.version ELSE q.got[i + 1])

end_request ==
  /\ request # <<>> /\ (r.code = 0 \/ r.done = r.count)
  /\ lied' = (lied \/ (r.code = 1 /\ hardsect = 1 /\ ~reread /\ ~rejected /\ ~Carried(r))) /\ request' = <<>>
  /\ UNCHANGED <<driver, state, present, card, detect, hardsect, nr_sects, start, writes, reread, rejected, lines>>

(* BLKRRPART, mmc_revalidate: the partitions are gone until they have been   *)
(* read again; nobody looks whether they are in use.                         *)
mmc_revalidate ==
  /\ state = "loaded" /\ hardsect # 0
  /\ start' = [start EXCEPT ![1] = IF @ = 0 THEN Start ELSE 0]
  /\ reread' = TRUE
  /\ UNCHANGED <<driver, state, present, card, detect, hardsect, nr_sects, request, lied, writes, rejected, lines>>

(* Nobody notices that the card is taken out. *)
Pull ==
  /\ present /\ present' = FALSE
  /\ UNCHANGED <<driver, state, card, detect, hardsect, nr_sects, start, request, lied, writes, reread, rejected, lines>>

Disk ==
  \/ Load \/ Unload \/ Submit \/ mmc_request
  \/ mmc_read_block \/ mmc_write_block \/ end_request \/ mmc_revalidate \/ Pull

-----------------------------------------------------------------------------
(* The lines                                                                 *)

In(w) == CASE w = 1 -> {"PA07"} [] w = 2 -> {"PA09"} [] OTHER -> {"PB18"}
Out(w) == CASE w = 1 -> {"PB22", "PB23", "PB19"} [] w = 2 -> {"PA08", "PB17", "PB16"} [] OTHER -> {"PB17", "PB16", "PB19"}
Clock(w) == IF w = 1 THEN "PB22" ELSE "PB17"
Lines == UNION {In(w) \union Out(w) : w \in {1, 2, 4}}

Free == [assigned |-> FALSE, drain |-> FALSE, out |-> FALSE, high |-> FALSE]
LineUses == {Free, [Free EXCEPT !.assigned = TRUE], [Free EXCEPT !.out = TRUE, !.high = TRUE], [Free EXCEPT !.drain = TRUE, !.out = TRUE]}

InitLines ==
  /\ before \in {[l \in Lines |-> IF l \in Varied THEN f[l] ELSE Free] : f \in [Varied -> LineUses]}
  /\ ports = before /\ saved = before
  /\ actualhard = 0 /\ wiringopt = 0 /\ forcehw \in BOOLEAN
  /\ wirings \in {<<4, 1, 2>>, <<1>>, <<2>>, <<4>>} /\ inited = "trying"

(* mmc_hardware_cleanup: the direction of the input of wiring 4 was not kept.*)
restored(l) == [saved[l] EXCEPT !.out = IF l = "PB18" THEN ports[l].out ELSE @]
mmc_hardware_cleanup ==
  [l \in Lines |-> IF actualhard # 0 /\ l \in In(actualhard) \union Out(actualhard) THEN restored(l) ELSE ports[l]]

taken(m, w) ==
  [l \in Lines |->
    CASE l \in In(w) -> [m[l] EXCEPT !.assigned = FALSE, !.drain = FALSE, !.out = FALSE]
      [] l \in Out(w) -> [assigned |-> FALSE, drain |-> FALSE, out |-> TRUE, high |-> l # Clock(w)]
      [] OTHER -> m[l]]

conflict(m, w) == ~forcehw /\ \E l \in In(w) \union Out(w) : m[l].assigned

(* set_wiring_and_try, or the wiring that was asked for. *)
mmc_hardware_init ==
  /\ inited = "trying" /\ wirings # <<>>
  /\ \E w \in {Head(wirings)} : \E m \in {mmc_hardware_cleanup} :
       /\ wiringopt' = w /\ wirings' = Tail(wirings)
       /\ IF conflict(m, w)
          THEN ports' = m /\ actualhard' = 0 /\ UNCHANGED <<saved, inited>>
          ELSE /\ ports' = taken(m, w) /\ saved' = m /\ actualhard' = w
               /\ inited' \in {"yes", "trying"} \* whether a card answered
  /\ UNCHANGED <<disk, before, forcehw>>

mmc_driver_exit ==
  /\ \/ inited = "trying" /\ wirings = <<>> /\ inited' = "failed"
     \/ inited = "yes" /\ inited' = "gone"
  /\ ports' = mmc_hardware_cleanup /\ actualhard' = 0
  /\ UNCHANGED <<disk, before, saved, wiringopt, forcehw, wirings>>

Wiring == mmc_hardware_init \/ mmc_driver_exit

Init == InitDisk /\ InitLines
Next == Disk \/ Wiring
Spec == Init /\ [][Next]_vars

-----------------------------------------------------------------------------
TypeOK ==
  /\ DOMAIN card = 0..Units - 1 /\ Len(request) <= 1
  /\ DOMAIN ports = Lines /\ inited \in {"trying", "yes", "failed", "gone"}

(* A request that is answered well has carried the sectors it named: what    *)
(* was read is what is there, what was written is there - for cards of half  *)
(* kilobyte blocks, when the partitions were left alone and the card took    *)
(* the data.                                                                 *)
OkMeansCarried == ~lied

(* A write changes none but the sectors it named, also when it fails.        *)
NothingElseWritten ==
  [][hardsect = 1 /\ ~reread =>
       \A u \in 0..Units - 1 : card'[u] # card[u] => u \in r.first..r.first + r.count - 1]_disk

(* The lines are given back as they were found, but for the direction of one.*)
PortsGivenBack ==
  inited \in {"failed", "gone"} =>
    \A l \in Lines : IF l = "PB18" THEN [ports[l] EXCEPT !.out = FALSE] = [before[l] EXCEPT !.out = FALSE]
                     ELSE ports[l] = before[l]
(* A line with another use is left alone, unless that was asked for.         *)
NoLineStolen == ~forcehw => \A l \in Lines : before[l].assigned => ports[l] = before[l]
=============================================================================
