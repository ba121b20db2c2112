---------------------------- MODULE UcodeFilters ----------------------------
(***************************************************************************)
(* How the section filters of a feed become filters of the microcode       *)
(* (prop_ucode_alloc_section_filter in avia/avia_gt_ucode.c).  The         *)
(* microcode knows fewer kinds of filters than dvb_demux and has few slots *)
(* for them, so filters are rewritten and merged.  What the chip drops     *)
(* never reaches the filters of dvb_demux: the chip must accept at least   *)
(* all they accept.                                                        *)
(*                                                                         *)
(* A byte is the set of its bits that are 1.                               *)
(***************************************************************************)
EXTENDS Integers, Sequences, FiniteSets, FiniteSetsExt

CONSTANTS
  Bits,        \* the bits of a byte
  LastByte,    \* the bytes that are compared: 0 .. 7, the length left out
  VersionByte, \* the one with the version: 3
  MaxFilters,  \* MAX_SECTION_FILTERS
  Requests     \* the lists of filters that are asked for

Bytes == 0 .. LastByte
Mask == [Bytes -> SUBSET Bits]
Zero == [k \in Bytes |-> {}]

FilterAssumption ==
  /\ LastByte \in Nat /\ VersionByte \in Bytes /\ MaxFilters \in Nat \ {0}
  /\ \A r \in Requests : \A n \in DOMAIN r : r[n] \in [value : Mask, mask : Mask, mode : Mask]

VARIABLES
  req,    \* the filters of the feed: filter_value, filter_mask, filter_mode
  fs,     \* the filters as they are rewritten; those not in_use are gone
  at,     \* what comes next
  i, j,   \* the pair to be merged next
  merged, \* a pair was merged in this pass
  hw,     \* what is written for the microcode
  forgot  \* history: a merged filter kept a version that the other had given up

vars == <<req, fs, at, i, j, merged, hw, forgot>>

None == -1
Nothing == [and_or |-> "OR", entry |-> <<>>]

Init ==
  /\ req \in Requests
  /\ fs = <<>> /\ at = "normalize" /\ i = 1 /\ j = 2 /\ merged = FALSE
  /\ hw = Nothing /\ forgot = FALSE

symdiff(a, b) == (a \ b) \cup (b \ a)
last_used(mask) == LET used == {k \in Bytes : mask[k] # {}}
                   IN IF used = {} THEN None ELSE Max(used)

(* Sections pass unfiltered to dvb_demux.                                    *)
GiveUp == at' = "unfiltered" /\ UNCHANGED <<req, fs, i, j, merged, hw, forgot>>

-----------------------------------------------------------------------------
(* Copying: value and mode only count under the mask.  A version byte that   *)
(* is compared for difference only can be left to the microcode.             *)
normalized(f) ==
  LET mode == [k \in Bytes |-> f.mode[k] \cup (Bits \ f.mask[k])]
      value == [k \in Bytes |-> f.value[k] \cap f.mask[k]]
  IN [mask |-> f.mask, value |-> value, mode |-> mode, in_use |-> last_used(f.mask),
      ver_not |-> /\ mode[VersionByte] # Bits
                  /\ mode[VersionByte] \cap f.mask[VersionByte] = {},
      not_mask |-> f.mask[VersionByte], not_value |-> value[VersionByte],
      unchanged |-> TRUE, negated |-> FALSE]

Normalize ==
  /\ at = "normalize"
  /\ LET n == [m \in DOMAIN req |-> normalized(req[m])]
     IN IF Len(req) > MaxFilters \/ \E m \in DOMAIN n : n[m].in_use = None
          THEN GiveUp
          ELSE /\ fs' = n
               /\ at' = IF Len(req) = 1 THEN "single" ELSE "several"
               /\ UNCHANGED <<req, i, j, merged, hw, forgot>>

(* One filter.  With bits compared for equality and bits compared for        *)
(* difference it becomes two: the first AND NOT the second.                  *)
Single ==
  LET f == fs[1]
      differ == {k \in Bytes : f.mode[k] # Bits}
      mixed == {k \in differ : f.mode[k] \cap f.mask[k] # {}}
      equal == {k \in Bytes \ differ : f.mask[k] # {}}
      positive == [k \in Bytes |-> f.mask[k] \cap f.mode[k]]
      negative == [k \in Bytes |-> Bits \ f.mode[k]]
      first == [f EXCEPT !.mask = positive,
                         !.value = [k \in Bytes |-> f.value[k] \cap positive[k]]]
      second == [f EXCEPT !.mask = negative, !.negated = TRUE, !.ver_not = FALSE,
                          !.value = [k \in Bytes |-> f.value[k] \cap negative[k]]]
      version_only == differ = {VersionByte} /\ mixed = {}
  IN /\ at = "single"
     /\ fs' = CASE differ = {} \/ version_only -> fs
                [] differ # {} /\ ~version_only /\ equal # {} -> <<first, second>>
                [] OTHER -> <<[f EXCEPT !.negated = TRUE]>>
     /\ at' = "program"
     /\ UNCHANGED <<req, i, j, merged, hw, forgot>>

(* Several filters are alternatives: bits compared for difference are not    *)
(* looked at.                                                                *)
positive_part(f) ==
  LET mask == [k \in Bytes |-> f.mask[k] \cap f.mode[k]]
  IN [f EXCEPT !.mask = mask, !.value = [k \in Bytes |-> f.value[k] \cap mask[k]],
               !.in_use = last_used(mask)]
Several ==
  /\ at = "several"
  /\ LET p == [m \in DOMAIN fs |-> positive_part(fs[m])]
     IN IF \E m \in DOMAIN p : p[m].in_use = None
          THEN GiveUp
          ELSE fs' = p /\ at' = "merge" /\ UNCHANGED <<req, i, j, merged, hw, forgot>>

-----------------------------------------------------------------------------
(* Two filters become one that accepts what either does.                     *)

compared(f, g) == 0 .. Min({f.in_use, g.in_use})

(* Every byte has the same mask and other values, and there is but one bit   *)
(* of difference in all: so there can be but one byte.                       *)
one_bit_apart(f, g) ==
  /\ compared(f, g) = {0}
  /\ f.mask[0] = g.mask[0]
  /\ Cardinality(symdiff(f.value[0], g.value[0])) = 1

(* In every byte the mask of one is part of the mask of the other, and they  *)
(* agree where both look.                                                    *)
comparable(f, g) ==
  \A k \in compared(f, g) :
    LET common == f.mask[k] \cap g.mask[k]
    IN /\ common = f.mask[k] \/ common = g.mask[k]
       /\ f.value[k] \cap common = g.value[k] \cap common

(* A mutant: the bytes that only one of them compares are kept. *)
merger_long(f, g) ==
  LET mask == [k \in Bytes |-> IF k \in compared(f, g) THEN f.mask[k] \cap g.mask[k]
                               ELSE f.mask[k]]
  IN [f EXCEPT !.mask = mask, !.value = [k \in Bytes |-> f.value[k] \cap mask[k]],
               !.in_use = Max(compared(f, g))]
same_version(f, g) ==
  f.ver_not = g.ver_not /\ f.not_mask = g.not_mask /\ f.not_value = g.not_value
merger(f, g) ==
  LET both == compared(f, g)
      mask == [k \in Bytes |->
                 CASE k \notin both -> {}
                   [] k \in both /\ one_bit_apart(f, g) ->
                        f.mask[k] \ symdiff(f.value[k], g.value[k])
                   [] OTHER -> f.mask[k] \cap g.mask[k]]
  IN [f EXCEPT !.mask = mask, !.value = [k \in Bytes |-> f.value[k] \cap mask[k]],
               !.in_use = IF one_bit_apart(f, g) /\ f.in_use = 0 THEN last_used(mask)
                          ELSE Max(both),
               !.unchanged = @ /\ same_version(f, g)]

(* That the other's version does not count any more is not looked at.        *)
forgets(f, g) == f.ver_not /\ f.unchanged /\ same_version(f, g) /\ ~g.unchanged

left == {m \in DOMAIN fs : fs[m].in_use # None}
gone(f) == [f EXCEPT !.in_use = None]

can_merge == /\ {i, j} \subseteq left /\ i < j
             /\ one_bit_apart(fs[i], fs[j]) \/ comparable(fs[i], fs[j])
(* The two loops go on with the next pair; after a pass that merged any there *)
(* is another one.                                                           *)
Merge ==
  /\ at = "merge" /\ can_merge
  /\ \E f \in {merger(fs[i], fs[j])} :
       IF f.in_use = None THEN GiveUp
       ELSE /\ fs' = [fs EXCEPT ![i] = f, ![j] = gone(@)]
            /\ merged' = TRUE
            /\ forgot' = (forgot \/ forgets(fs[i], fs[j]))
            /\ IF j < Len(fs) THEN j' = j + 1 /\ UNCHANGED i
               ELSE IF i < Len(fs) - 1 THEN i' = i + 1 /\ j' = i + 2
               ELSE i' = 1 /\ j' = 2
            /\ UNCHANGED <<req, at, hw>>
KeepBoth ==
  /\ at = "merge" /\ ~can_merge
  /\ CASE j < Len(fs) -> j' = j + 1 /\ UNCHANGED <<i, at, merged>>
       [] j >= Len(fs) /\ i < Len(fs) - 1 ->
            i' = i + 1 /\ j' = i + 2 /\ UNCHANGED <<at, merged>>
       [] j >= Len(fs) /\ i >= Len(fs) - 1 ->
            /\ i' = 1 /\ j' = 2 /\ merged' = FALSE
            /\ at' = IF merged THEN at ELSE "program"
  /\ UNCHANGED <<req, fs, hw, forgot>>

-----------------------------------------------------------------------------
(* The tables of the microcode.                                              *)
entry_of(f) ==
  LET version == f.unchanged /\ f.ver_not
  IN [mask |-> IF version THEN [f.mask EXCEPT ![VersionByte] = f.not_mask] ELSE f.mask,
      value |-> IF version THEN [f.value EXCEPT ![VersionByte] = f.not_value] ELSE f.value,
      not_flag |-> f.negated, not_flag_ver_id_byte |-> version]

Program ==
  /\ at = "program"
  /\ hw' = [and_or |-> IF Len(req) = 1 THEN "AND" ELSE "OR",
            entry |-> [m \in left |-> entry_of(fs[m])]]
  /\ at' = "filtered"
  /\ UNCHANGED <<req, fs, i, j, merged, forgot>>

Done == at \in {"filtered", "unfiltered"} /\ UNCHANGED vars

Next == Normalize \/ Single \/ Several \/ Merge \/ KeepBoth \/ Program \/ Done
Spec == Init /\ [][Next]_vars /\ WF_vars(Next)

-----------------------------------------------------------------------------
(* What the filters of dvb_demux accept: all the bits to be equal are, and   *)
(* of those to differ, if there are any, one does.                           *)
software_accepts(f, section) ==
  LET wrong(k) == symdiff(f.value[k], section[k]) \cap f.mask[k]
      differ(k) == f.mask[k] \ f.mode[k]
  IN /\ \A k \in Bytes : wrong(k) \cap f.mode[k] = {}
     /\ (\E k \in Bytes : differ(k) # {}) => \E k \in Bytes : wrong(k) \cap differ(k) # {}

(* What an entry of the microcode accepts.                                   *)
hardware_matches(e, section) ==
  LET equal(k) == symdiff(e.value[k], section[k]) \cap e.mask[k] = {}
      all == \A k \in Bytes : IF k = VersionByte /\ e.not_flag_ver_id_byte
                                THEN ~equal(k) ELSE equal(k)
  IN IF e.not_flag THEN ~all ELSE all
hardware_accepts(section) ==
  IF hw.and_or = "AND" THEN \A m \in DOMAIN hw.entry : hardware_matches(hw.entry[m], section)
  ELSE \E m \in DOMAIN hw.entry : hardware_matches(hw.entry[m], section)

(* A filter that wants version and another byte to differ: the code marks    *)
(* the version byte for the microcode all the same, and the entry then asks  *)
(* for another version and cannot see the other byte.                        *)
beyond_the_microcode(f) ==
  LET n == normalized(f)
  IN n.ver_not /\ \E k \in Bytes \ {VersionByte} : n.mode[k] # Bits

TypeOK ==
  /\ req \in Requests
  /\ at \in {"normalize", "single", "several", "merge", "program", "filtered", "unfiltered"}
  /\ hw.and_or \in {"AND", "OR"} /\ merged \in BOOLEAN

(* No section that one of the feed's filters wants is dropped by the chip,   *)
(* however the filters were split and merged.  The exception is a merged     *)
(* filter that kept a version to be excluded though its second half stood    *)
(* for filters that want any: sections of just that version are dropped.     *)
but_for_version(e, section) ==
  /\ e.not_flag_ver_id_byte
  /\ hardware_matches([e EXCEPT !.mask[VersionByte] = {}, !.value[VersionByte] = {},
                                !.not_flag_ver_id_byte = FALSE], section)
NoSectionDropped ==
  at = "filtered" /\ (\A m \in DOMAIN req : ~beyond_the_microcode(req[m])) =>
    \A section \in Mask :
      (\E m \in DOMAIN req : software_accepts(req[m], section)) =>
        \/ hardware_accepts(section)
        \/ forgot /\ \E m \in DOMAIN hw.entry : but_for_version(hw.entry[m], section)

(* The merging comes to an end.                                              *)
Ends == <>(at \in {"filtered", "unfiltered"})
=============================================================================
