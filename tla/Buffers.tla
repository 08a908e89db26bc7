------------------------------ MODULE Buffers ------------------------------
(***************************************************************************)
(* stream/src/buffer.rs: how the field of a task that takes the blob of a  *)
(* response makes room for it.  A buffer is its type, its length and its   *)
(* capacity; without "some" it is the value None of an Option, and the     *)
(* capacity is the most that Buffer::alloc grants.                         *)
(***************************************************************************)
EXTENDS Integers

\* The buffer types that implement AllocateBuf, and a task without such a field.
BufTypes == {"OptVec", "Vec", "OptBuffer", "Buffer", "NoField"}

Buf(type, some, len, cap) == [type |-> type, some |-> some, len |-> len, cap |-> cap]

NoBuf == Buf("NoField", FALSE, 0, 0)

\* Vec::reserve(more) of the standard library: room for more elements beyond len.
VecReserve(buf, more) ==
  IF buf.cap - buf.len >= more THEN buf
  ELSE [buf EXCEPT !.cap = IF 2 * buf.cap > buf.len + more THEN 2 * buf.cap
                                                           ELSE buf.len + more]

\* Reserving for Vec<u8>, and for Option<Vec<u8>> that is Some.
ReserveVec(buf, n) ==
  IF buf.len = n THEN buf
  ELSE [(IF buf.cap < n THEN VecReserve(buf, n - buf.cap) ELSE buf) EXCEPT !.len = n]

Fits_Always(buf, n) == TRUE

\* Reserving for io_buffer::Buffer: the capacity is fixed.
Fits(buf, n) == buf.len = n \/ buf.cap >= n

\* AllocateBuf::reserve, with the default of reserve_resp_blob for a task without a
\* field: whether there is a slice, and the buffer afterwards.
Reserve(buf, n) ==
  CASE buf.type = "NoField"                 -> [ok |-> FALSE, buf |-> buf]
    [] buf.type = "Vec"                     -> [ok |-> TRUE, buf |-> ReserveVec(buf, n)]
    [] buf.type = "OptVec" /\ buf.some      -> [ok |-> TRUE, buf |-> ReserveVec(buf, n)]
    [] buf.type = "OptVec" /\ ~buf.some     -> [ok |-> TRUE, buf |-> Buf("OptVec", TRUE, n, n)]
    [] buf.type = "OptBuffer" /\ ~buf.some  ->
         [ok |-> n <= buf.cap, buf |-> IF n <= buf.cap THEN Buf("OptBuffer", TRUE, n, n) ELSE buf]
    [] OTHER -> [ok  |-> Fits(buf, n),
                 buf |-> IF Fits(buf, n) THEN [buf EXCEPT !.len = n] ELSE buf]

=============================================================================
