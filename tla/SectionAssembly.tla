-------------------------- MODULE SectionAssembly --------------------------
(***************************************************************************)
(* How the software demultiplexer cuts the sections of a feed out of       *)
(* transport packets (dvb_dmx_swfilter_section_packet and                  *)
(* dvb_dmx_swfilter_section_feed of dvb-core/dvb_demux.c).                 *)
(*                                                                         *)
(* A multiplexer packs sections of any length of Lens back to back into    *)
(* packets of Payload bytes; up to MaxLost packets get lost on the way.    *)
(* A byte is the place it has in its section, so a section that is put     *)
(* together wrongly shows, and fails its CRC.                              *)
(***************************************************************************)
EXTENDS Integers, Sequences

CONSTANTS
  Payload,   \* bytes of payload of a packet: 184 in the code
  MaxSec,    \* sizeof sec->secbuf: 4096 in the code
  Lens,      \* lengths of the sections sent
  Ids,       \* section numbers are taken modulo Ids
  CcMod,     \* the continuity counter is taken modulo CcMod: 16 in the code
  CheckCrc,  \* sec->check_crc; every section has a CRC
  MaxLost    \* packets that may get lost

AssemblyAssumption ==
  /\ Payload \in Nat /\ Payload > 4
  /\ Lens \subseteq 4 .. MaxSec
  /\ Ids \in Nat \ {0} /\ CcMod \in Nat \ {0} /\ MaxLost \in Nat

VARIABLES
  feed,   \* what the feed keeps between packets: secbuf, secbufp, seclen, cc
  mux,    \* the section being sent, its bytes sent so far and the counter
  whole,  \* has every packet of that section been received so far, and did
          \* its first piece hold its header?
  lost,   \* packets lost
  seen    \* of the last packet: the sections that ended in it and ought to
          \* be delivered, and those that were

vars == <<feed, mux, whole, lost, seen>>

Stuffing == [id |-> Ids, at |-> 0, of |-> 0]     \* a 0xff byte
Byte(id, at, of) == [id |-> id, at |-> at, of |-> of]

Init ==
  /\ feed = [buf |-> [j \in 0 .. MaxSec - 1 |-> Stuffing], bufp |-> 0,
             len |-> 0, cc |-> 0]
  /\ mux = [id |-> 0, len |-> 0, sent |-> 0, cc |-> 0]
  /\ whole = FALSE
  /\ lost = 0
  /\ seen = [due |-> <<>>, got |-> <<>>]

-----------------------------------------------------------------------------
(* The receiver.  A packet is [pusi, skip, cells, cc]; skip is the pointer   *)
(* field, the bytes of the packet that belong to the previous section.      *)

(* section_length of the header at a place of a sequence or buffer: what    *)
(* two bytes that do not belong together say may be anything.               *)
headers(b1, b2) == IF b1.at = 1 /\ b2.at = 2 /\ b1.id = b2.id THEN {b1.of}
                   ELSE Lens
copied(fd, from, cells, first, n) ==
  [fd EXCEPT !.buf = [j \in DOMAIN @ |->
     IF j >= from /\ j < from + n THEN cells[first + j - from] ELSE @[j]]]

intact(fd) == /\ fd.len > 0 /\ fd.len = fd.buf[0].of
              /\ \A j \in 0 .. fd.len - 1 : fd.buf[j] = Byte(fd.buf[0].id, j, fd.len)

(* dvb_dmx_swfilter_section_feed: a section that fails its CRC stays in the *)
(* buffer; the result is ignored by the caller.                             *)
section_feed(fd, out) ==
  IF fd.bufp # fd.len \/ (CheckCrc /\ ~intact(fd)) THEN [fd |-> fd, out |-> out]
  ELSE [fd |-> [fd EXCEPT !.bufp = 0, !.len = 0],
        out |-> Append(out, [id |-> fd.buf[0].id, ok |-> intact(fd)])]

Trash(fd, out) == {[fd |-> [fd EXCEPT !.bufp = 0, !.len = 0], out |-> out]}

(* The rest of the previous section at the start of a packet with PUSI set, *)
(* for which nothing may be missing in between.                             *)
rest_of_previous(fd, pk) ==
  LET tmp == 3 - fd.bufp
      known == IF tmp > 0 /\ tmp # 3
               THEN LET g == copied(fd, fd.bufp, pk.cells, 1, tmp)
                    IN  {[g EXCEPT !.len = n] : n \in headers(g.buf[1], g.buf[2])}
               ELSE {fd}
  IN  {IF g.len - g.bufp = pk.skip /\ g.len # 0
       THEN section_feed([copied(g, g.bufp, pk.cells, 1, pk.skip) EXCEPT
                            !.bufp = @ + pk.skip], <<>>)
       ELSE [fd |-> g, out |-> <<>>] : g \in known}

(* secbufp may grow past any length; all values past MaxSec act alike.      *)
counted(n) == IF n > MaxSec THEN MaxSec + 1 ELSE n

(* The sections that start in the packet, from cell p on; a header cut off  *)
(* by the end of the packet makes the code give up.                         *)
RECURSIVE sections(_, _, _, _)
sections(fd, out, pk, p) ==
  LET count == Payload - p        \* cells 1 .. Payload - 1 follow the pointer
      whole_section(n) ==
        section_feed([copied(fd, 0, pk.cells, p, n) EXCEPT !.bufp = n, !.len = n], out)
  IN  IF count = 0 \/ (p > 1 + pk.skip /\ pk.cells[p] = Stuffing)
      THEN {[fd |-> fd, out |-> out]}
      ELSE IF count <= 2 THEN Trash(fd, out)
      ELSE UNION {IF n <= count
                  THEN LET r == whole_section(n) IN sections(r.fd, r.out, pk, p + n)
                  ELSE {[fd |-> [copied(fd, 0, pk.cells, p, count) EXCEPT
                                   !.len = n, !.bufp = counted(@ + count)],
                        out |-> out]} :
                  n \in headers(pk.cells[p + 1], pk.cells[p + 2])}

start_packet(fd, pk, ccok) ==
  UNION {sections(r.fd, r.out, pk, 1 + pk.skip) :
         r \in IF pk.skip > 0 /\ ccok THEN rest_of_previous(fd, pk)
               ELSE {[fd |-> fd, out |-> <<>>]}}

(* A packet that only continues a section. *)
continue_packet(fd, pk) ==
  LET known == IF fd.bufp < 3
               THEN LET g == copied(fd, fd.bufp, pk.cells, 1, 3 - fd.bufp)
                    IN  {[g EXCEPT !.len = n] : n \in headers(g.buf[1], g.buf[2])}
               ELSE {fd}
      next(g) ==
        LET rest == g.len - g.bufp
        IN  IF rest < 0 THEN Trash(g, <<>>)
            ELSE IF rest <= Payload
            THEN {section_feed([copied(g, g.bufp, pk.cells, 1, rest) EXCEPT
                                  !.bufp = @ + rest], <<>>)}
            ELSE {[fd |-> [copied(g, g.bufp, pk.cells, 1, Payload) EXCEPT
                             !.bufp = @ + Payload], out |-> <<>>]}
  IN  UNION {next(g) : g \in known}

section_packet_unstarted(fd0, pk) ==  \* mutant: a section may begin in its middle
  LET ccok == pk.cc = (fd0.cc + 1) % CcMod
      fd == [fd0 EXCEPT !.cc = pk.cc]
  IN  IF pk.pusi THEN start_packet(fd, pk, ccok)
      ELSE IF ~ccok THEN Trash(fd, <<>>)
      ELSE continue_packet(fd, pk)
section_packet(fd0, pk) ==
  LET ccok == pk.cc = (fd0.cc + 1) % CcMod
      fd == [fd0 EXCEPT !.cc = pk.cc]
  IN  IF pk.pusi THEN start_packet(fd, pk, ccok)
      ELSE IF ~ccok \/ fd.bufp = 0 THEN Trash(fd, <<>>)
      ELSE continue_packet(fd, pk)

-----------------------------------------------------------------------------
(* The sender: a packet that continues or ends the section being sent, with *)
(* stuffing after it, or one in which the sections of lengths news start.   *)

left == mux.len - mux.sent
cc == (mux.cc + 1) % CcMod
Old(n) == [j \in 1 .. n |-> IF j <= left THEN Byte(mux.id, mux.sent + j - 1, mux.len)
                            ELSE Stuffing]
New(news, n) ==
  [j \in 1 .. n |->
     IF j <= news[1] THEN Byte((mux.id + 1) % Ids, j - 1, news[1])
     ELSE IF Len(news) = 2 /\ j <= news[1] + news[2]
     THEN Byte((mux.id + 2) % Ids, j - 1 - news[1], news[2])
     ELSE Stuffing]

(* The packet passes, or it is lost and with it what it carried. *)
Passes(pk, due) ==
  /\ \E r \in section_packet(feed, pk) :
       feed' = r.fd /\ seen' = [due |-> due, got |-> r.out]
  /\ UNCHANGED lost
Lost ==
  /\ lost < MaxLost /\ lost' = lost + 1
  /\ seen' = [due |-> <<>>, got |-> <<>>]
  /\ UNCHANGED feed

ending == IF whole /\ left > 0 THEN <<mux.id>> ELSE <<>>

Continue ==
  /\ left > 0
  /\ mux' = [mux EXCEPT !.sent = IF left < Payload THEN mux.len ELSE @ + Payload,
                        !.cc = cc]
  /\ \E pk \in {[pusi |-> FALSE, skip |-> 0, cells |-> Old(Payload), cc |-> cc]} :
         \/ Passes(pk, IF left <= Payload THEN ending ELSE <<>>) /\ UNCHANGED whole
         \/ Lost /\ whole' = FALSE

Begin(news) ==
  LET n == Payload - 1 - left     \* bytes left for new sections
      past == news[1] < n         \* does the first one end with room to spare?
      started == IF Len(news) = 2 THEN n - news[1] ELSE n
      final == news[Len(news)]
      id(k) == (mux.id + k) % Ids
      fits(k) == IF k = 1 THEN news[1] <= n ELSE news[1] + news[2] <= n
      due == ending \o (IF n > 2 /\ fits(1) THEN <<id(1)>> ELSE <<>>)
               \o (IF Len(news) = 2 /\ started > 2 /\ fits(2) THEN <<id(2)>> ELSE <<>>)
  IN  /\ n > 0
      /\ Len(news) = 2 => past
      /\ mux' = [id |-> id(Len(news)), len |-> final, cc |-> cc,
                 sent |-> IF final < started THEN final ELSE started]
      /\ \E pk \in {[pusi |-> TRUE, skip |-> left, cells |-> Old(left) \o New(news, n),
                      cc |-> cc]} :
         \/ Passes(pk, due) /\ whole' = (started > 2)
         \/ Lost /\ whole' = FALSE

Send == Continue \/ \E a \in Lens : Begin(<<a>>) \/ \E b \in Lens : Begin(<<a, b>>)

Next == Send
Spec == Init /\ [][Next]_vars

(* The stream does not stop. *)
FairSpec == Spec /\ WF_vars(Send)

-----------------------------------------------------------------------------
TypeOK ==
  /\ feed.bufp \in 0 .. MaxSec + 1 /\ feed.len \in 0 .. MaxSec
  /\ mux.sent \in 0 .. mux.len /\ lost \in 0 .. MaxLost

(* Of a stream received without a loss, every section whose header was not  *)
(* cut in two by the end of a packet is delivered once, unharmed, in the    *)
(* packet that ends it, however the multiplexer packed it.                  *)
EverySectionDelivered ==
  lost = 0 => seen.got = [k \in DOMAIN seen.due |-> [id |-> seen.due[k], ok |-> TRUE]]

(* secbufp counts the bytes of the section in progress that are in secbuf   *)
(* ("any data in last ts packet?"): if all its packets were received, they  *)
(* are all there and nothing else is counted.                               *)
HoldsSectionSoFar ==
  whole /\ left > 0 =>
    /\ feed.bufp = mux.sent /\ feed.len = mux.len
    /\ \A j \in 0 .. mux.sent - 1 : feed.buf[j] = Byte(mux.id, j, mux.len)

(* A loss does not stop the feed for good: while sections keep coming in    *)
(* whole and some packets only continue one, sections are delivered.  (When *)
(* every packet starts a section, see HoldsSectionSoFar.)                   *)
RecoversFromLoss ==
  []<><<Continue>>_vars /\ []<>(seen.due # <<>>)
    => []<>(seen.due # <<>> /\ seen.got # <<>>)
=============================================================================
