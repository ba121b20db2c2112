----------------------------- MODULE RingBuffer -----------------------------
(***************************************************************************)
(* The ring buffer of dvb-core/dvb_ringbuffer.c, used as its header says:  *)
(* one reader and one writer without a lock, which ask how much there is   *)
(* to read, or how much room, before they call.  Bytes are numbered as     *)
(* they are written, modulo Wrap.                                          *)
(***************************************************************************)
EXTENDS Integers

CONSTANTS
  Size,   \* rbuf->size
  Lengths,\* that are read and written at a time
  Wrap    \* modulus of the numbers

RingAssumption ==
  /\ Size \in Nat \ {0, 1} /\ Wrap \in Nat /\ Wrap > 2 * Size /\ Lengths \subseteq 1 .. Size - 1

VARIABLES
  data,          \* rbuf->data
  pread, pwrite, \* rbuf->pread, rbuf->pwrite
  reader, writer,\* what is left to copy once the end of the ring was reached, and len
  wrote,         \* the number of the next byte
  expect,        \* the number of the byte the reader ought to get next
  wrapped,       \* history: has a call been cut in two at the end of the ring?
  wrong          \* history: did the reader get another byte?

vars == <<data, pread, pwrite, reader, writer, wrote, expect, wrapped, wrong>>

Idle == [todo |-> 0, len |-> 0]

Init ==
  /\ data = [p \in 0 .. Size - 1 |-> 0] /\ pread = 0 /\ pwrite = 0
  /\ reader = Idle /\ writer = Idle
  /\ wrote = 0 /\ expect = 0 /\ wrapped = FALSE /\ wrong = FALSE

dvb_ringbuffer_free ==
  (IF pread - pwrite <= 0 THEN pread - pwrite + Size ELSE pread - pwrite) - 1
dvb_ringbuffer_avail ==
  IF pwrite - pread < 0 THEN pwrite - pread + Size ELSE pwrite - pread

(* n bytes that follow what was written, from place p on.                    *)
stored(p, n) ==
  [q \in 0 .. Size - 1 |-> IF q >= p /\ q < p + n THEN (wrote + q - p) % Wrap ELSE data[q]]
(* Are the n bytes from place p on those the reader expects?                 *)
expected(p, n) == \A k \in 0 .. n - 1 : data[p + k] = (expect + k) % Wrap

-----------------------------------------------------------------------------
(* dvb_ringbuffer_write: the part up to the end of the ring, and the rest.   *)
(* What is added to the index in the end is the whole length.                *)
WriteRest(p, todo, len) ==
  /\ data' = stored(p, todo)
  /\ wrote' = (wrote + todo) % Wrap
  /\ pwrite' = (p + len) % Size
  /\ writer' = Idle

Write(len) ==
  /\ writer = Idle /\ dvb_ringbuffer_free >= len
  /\ IF pwrite + len > Size
     THEN /\ data' = stored(pwrite, Size - pwrite)
          /\ wrote' = (wrote + Size - pwrite) % Wrap
          /\ pwrite' = 0 /\ wrapped' = TRUE
          /\ writer' = [todo |-> len - (Size - pwrite), len |-> len]
     ELSE WriteRest(pwrite, len, len) /\ UNCHANGED wrapped
  /\ UNCHANGED <<pread, reader, expect, wrong>>

WriteOn ==
  /\ writer # Idle /\ WriteRest(pwrite, writer.todo, writer.len)
  /\ UNCHANGED <<pread, reader, expect, wrapped, wrong>>

(* dvb_ringbuffer_read, in the same way.                                     *)
ReadRest(p, todo, len) ==
  /\ wrong' = (wrong \/ ~expected(p, todo))
  /\ expect' = (expect + todo) % Wrap
  /\ pread' = (p + len) % Size
  /\ reader' = Idle

Read(len) ==
  /\ reader = Idle /\ dvb_ringbuffer_avail >= len
  /\ IF pread + len > Size
     THEN /\ wrong' = (wrong \/ ~expected(pread, Size - pread))
          /\ expect' = (expect + Size - pread) % Wrap
          /\ pread' = 0 /\ wrapped' = TRUE
          /\ reader' = [todo |-> len - (Size - pread), len |-> len]
     ELSE ReadRest(pread, len, len) /\ UNCHANGED wrapped
  /\ UNCHANGED <<data, pwrite, writer, wrote>>

ReadOn ==
  /\ reader # Idle /\ ReadRest(pread, reader.todo, reader.len)
  /\ UNCHANGED <<data, pwrite, writer, wrote, wrapped>>

(* dvb_ringbuffer_flush, which counts as a read.                             *)
Flush ==
  /\ reader = Idle /\ writer = Idle
  /\ pread' = pwrite /\ expect' = wrote
  /\ UNCHANGED <<data, pwrite, reader, writer, wrote, wrapped, wrong>>

Next ==
  \/ \E len \in Lengths : Write(len) \/ Read(len)
  \/ WriteOn \/ ReadOn \/ Flush

Spec == Init /\ [][Next]_vars

-----------------------------------------------------------------------------
(* The reader gets what was written, in order.                               *)
BytesInOrder == ~wrong

(* It does until a call is cut in two at the end of the ring.                *)
InOrderUntilWrap == wrapped \/ (~wrong /\ (wrote - expect) % Wrap = dvb_ringbuffer_avail)
=============================================================================
