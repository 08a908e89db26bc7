------------------------------- MODULE Proto -------------------------------
(***************************************************************************)
(* The frames of stream/src/proto.rs.  A frame is a header followed by a   *)
(* body, and nothing but the lengths in the header says where the next     *)
(* frame begins.  The wire is a sequence of units: a unit is a header, or  *)
(* one byte of a text, of an encoded message or of a blob.  All units have *)
(* the same fields, so that any two can be compared.                       *)
(***************************************************************************)
EXTENDS ErrCodec

U32_HIGH_MASK == Half
PING_ACTION == 0
RESP_FLAG_HAS_ERRNO == 1
RESP_FLAG_HAS_ERR_STRING == 2

\* One byte of a body: what it is part of and whose it is.
Byte(kind, own) == [kind |-> kind, own |-> own, a |-> 0, m |-> 0, b |-> 0]

\* n bytes of a message or of a blob, and the bytes of a text (a sequence of words).
Bytes(kind, own, n) == [i \in 1..n |-> Byte(kind, own)]
Text(s) == [i \in DOMAIN s |-> Byte("txt", s[i])]

\* str::from_utf8: only the bytes of a text are one.
IsText(buf) == \A i \in DOMAIN buf : buf[i].kind = "txt"
FromText(buf) == [i \in DOMAIN buf |-> buf[i].own]

\* RpcAction.
Num(n) == [tag |-> "Num", num |-> n, str |-> <<>>]
Str(s) == [tag |-> "Str", num |-> 0, str |-> s]

----------------------------------------------------------------------------
(* Requests. *)

\* ReqHead: a is the action field, m and b the lengths.
ReqHead(seq, action, msg_len, blob_len) ==
  [kind |-> "head", own |-> seq, a |-> action, m |-> msg_len, b |-> AsU32(blob_len)]

ActionFlag_NoMask(action) ==
  IF action.tag = "Num" THEN AsU32(action.num) ELSE Low32(Len(action.str))

\* A string action announces its length with the highest bit set.
ActionFlag(action) ==
  IF action.tag = "Num" THEN AsU32(action.num)
  ELSE LET n == Low32(Len(action.str))
       IN IF n >= U32_HIGH_MASK THEN n ELSE n + U32_HIGH_MASK

\* ReqHead::encode and the writes of write_req: FALSE in ok is its Err(()).
EncodeReq(seq, action, msg, blob) ==
  [ok    |-> Len(msg) <= U32_MAX /\ Len(blob) <= I32_MAX,
   bytes |-> <<ReqHead(seq, ActionFlag(action), Len(msg), Len(blob))>>
               \o Text(action.str) \o msg \o blob]

EncodePing(seq) == <<ReqHead(seq, PING_ACTION, 0, 0)>>

\* decode_head checks the magic number and the version: only a header has them.
IsHead(unit) == unit.kind = "head"

\* ReqHead::get_action: a number, or the length of the text that follows.
GetAction(head) ==
  IF head.a < U32_HIGH_MASK
  THEN [tag |-> "Num", num |-> AsI32(head.a), len |-> 0]
  ELSE [tag |-> "Str", num |-> 0, len |-> head.a - U32_HIGH_MASK]

----------------------------------------------------------------------------
(* Responses. *)

\* RespHead: a is the flag, m the message length or the errno.
RespHead(seq, flag, msg_len, blob_len) ==
  [kind |-> "head", own |-> seq, a |-> flag, m |-> msg_len, b |-> blob_len]

\* RespHead::_encode_error.  buf is what encode_resp has put behind the room for the
\* header; the text of an error is appended to it.
EncodeError(seq, buf, err) ==
  IF err.tag = "Num"
  THEN <<RespHead(seq, RESP_FLAG_HAS_ERRNO, err.num, 0)>> \o buf
  ELSE <<RespHead(seq, RESP_FLAG_HAS_ERR_STRING, 0, AsI32(Low32(Len(err.txt))))>>
         \o buf \o Text(err.txt)

\* RespHead::encode and the writes of write_resp, for the result of encode_resp:
\* the bytes it put into the buffer, whether it is an error, and the blob.
EncodeResp(seq, r) ==
  IF r.err.tag # "None" THEN EncodeError(seq, r.buf, r.err)
  ELSE IF Len(r.buf) > U32_MAX \/ Len(r.blob) > I32_MAX
  THEN EncodeError(seq, r.buf, EncRpc("Encode"))
  ELSE <<RespHead(seq, 0, Len(r.buf), Len(r.blob))>> \o r.buf \o r.blob

\* RespHead::encode_internal: the answer to a ping, or an error of the framework.
EncodeInternal(seq, err) ==
  IF err.tag = "None" THEN <<RespHead(seq, 0, 0, 0)>> ELSE EncodeError(seq, <<>>, err)

=============================================================================
