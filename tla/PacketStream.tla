---------------------------- MODULE PacketStream ----------------------------
(***************************************************************************)
(* Cutting a stream of bytes into transport packets (dvb_dmx_swfilter and  *)
(* dvb_dmx_swfilter_204 of dvb-core/dvb_demux.c): pieces of any length     *)
(* arrive from the DVR device or an adapter; packets start with the sync   *)
(* byte, but other bytes may look like it; bytes may get lost.             *)
(*                                                                         *)
(* A byte here is what it looks like and, to tell what became of it, its   *)
(* offset in the packet it was sent in.                                    *)
(***************************************************************************)
EXTENDS Naturals, Sequences, SequencesExt

CONSTANTS
  Length,  \* of a packet: 188; the long ones, with 16 bytes of checks: 204
  MaxPiece \* of the pieces that arrive

StreamAssumption == Length \in Nat \ {0, 1} /\ MaxPiece \in Nat \ {0}

VARIABLES
  long,  \* are the packets of the adapter the long ones?
  tsbuf, \* demux->tsbuf up to tsbufp
  pos,   \* the offset of the next byte that is sent
  lost,  \* history: did bytes get lost, or was the start missed?
  clean, \* history: bytes since the last loss or the last byte that only looked like sync
  bad    \* history: has the last piece given a packet that is none?

vars == <<long, tsbuf, pos, lost, clean, bad>>

size == IF long THEN Length + 1 ELSE Length
Syncs == IF long THEN {0, 1} ELSE {0} \* 0x47 and, in long packets only, 0xB8

Init ==
  /\ long \in BOOLEAN /\ tsbuf = <<>> /\ bad = FALSE
  /\ pos \in 0 .. size - 1 /\ lost = (pos # 0) /\ clean = 0

byte(offset, sync) == [offset |-> offset, sync |-> sync]
is_sync(b) == b.sync
whole(packet) == \A k \in DOMAIN packet : packet[k].offset = k - 1

(* What comes next: the first byte of a packet is a sync byte, each other    *)
(* one may be taken for it.                                                  *)
pieces(n) ==
  {[k \in 1 .. n |-> LET o == (pos + k - 1) % size IN byte(o, o = 0 \/ k \in false)] :
     false \in SUBSET {k \in 1 .. n : (pos + k - 1) % size # 0}}
cleanliness(buf) ==
  LET false == {k \in DOMAIN buf : buf[k].sync /\ buf[k].offset # 0}
      since == IF false = {} THEN clean + Len(buf)
               ELSE Len(buf) - CHOOSE k \in false : \A j \in false : j <= k
  IN IF since > 2 * size THEN 2 * size ELSE since

(* The second half of swfilter: where packets start in buf from p on, and    *)
(* where what is left over for the next piece starts.                        *)
scan(buf, from) ==
  LET at[p \in from .. Len(buf) + size] ==
        IF p > Len(buf) THEN [starts |-> <<>>, rest |-> Len(buf) + 1]
        ELSE IF ~is_sync(buf[p]) THEN at[p + 1]
        ELSE IF Len(buf) - p + 1 >= size
               THEN [at[p + size] EXCEPT !.starts = <<p>> \o @]
        ELSE [starts |-> <<>>, rest |-> p]
  IN at[from]

packets(buf, starts) == {SubSeq(buf, p, p + size - 1) : p \in ToSet(starts)}

(* The first half completes a packet that was begun.                         *)
swfilter(buf) ==
  LET begun == Len(tsbuf)
      missing == size - begun
  IN IF begun > 0 /\ Len(buf) < missing
       THEN tsbuf' = tsbuf \o buf /\ bad' = FALSE
       ELSE LET s == scan(buf, IF begun > 0 THEN missing + 1 ELSE 1)
                first == IF begun > 0 THEN {tsbuf \o SubSeq(buf, 1, missing)} ELSE {}
            IN /\ tsbuf' = SubSeq(buf, s.rest, Len(buf))
               /\ bad' = \E p \in first \cup packets(buf, s.starts) : ~whole(p)

Arrive(n) ==
  \E buf \in pieces(n) :
    /\ swfilter(buf)
    /\ pos' = (pos + n) % size
    /\ clean' = cleanliness(buf)
    /\ UNCHANGED <<long, lost>>

Lose(n) ==
  /\ pos' = (pos + n) % size
  /\ lost' = TRUE /\ clean' = 0
  /\ UNCHANGED <<long, tsbuf, bad>>

Next == \E n \in 1 .. MaxPiece : Arrive(n) \/ (n < size /\ Lose(n))

Spec == Init /\ [][Next]_vars

-----------------------------------------------------------------------------
TypeOK ==
  /\ Len(tsbuf) < size /\ pos \in 0 .. size - 1
  /\ clean \in 0 .. 2 * size
  /\ tsbuf # <<>> => is_sync(tsbuf[1])

(* However the stream is cut, as long as nothing is lost every packet is     *)
(* found, and nothing else is taken for one.                                 *)
PacketsKept == ~lost => Len(tsbuf) = pos /\ ~bad

(* After a loss the packets are found again once two in a row hold no byte   *)
(* that looks like the sync byte.                                            *)
Resyncs == clean = 2 * size => Len(tsbuf) = pos
=============================================================================
