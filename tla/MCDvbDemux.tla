----------------------------- MODULE MCDvbDemux -----------------------------
(* Small instances of DvbDemux for TLC: two dmxdev PES filters and one      *)
(* dvb_net interface, and a history of what became of reservations.         *)
EXTENDS DvbDemux, TLC

CONSTANTS c1, c2, n1
MCPids == {1}
Competing == [c \in PesClients |-> PesTypes \cup {OtherPes}]
Symmetry == Permutations(PesClients)

(* History: has a feed been released whose set call was refused, taking a   *)
(* reservation with it?  Such a feed is not on feed_list and carries the    *)
(* stream type of the slot's previous owner.                                *)
VARIABLE robbed
Robs(c) == /\ PesRelease(c)
           /\ held[c] \notin dmx.list /\ dmx'.pesfilter # dmx.pesfilter
RobbedInit == Init /\ robbed = FALSE
RobbedSpec ==
  /\ RobbedInit
  /\ [][Next /\ robbed' = (robbed \/ \E c \in PesClients : Robs(c))]_<<vars, robbed>>

(* Two running feeds never write to one decoder, whatever else is refused,  *)
(* interrupted or lost, until a refused feed has taken a reservation        *)
(* (dvb_demux.c:763).                                                       *)
DecoderExclusiveUntilRobbed == robbed \/ DecoderExclusive
=============================================================================
