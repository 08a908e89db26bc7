------------------------------ MODULE ErrCodec -----------------------------
(***************************************************************************)
(* stream/src/error.rs: errors of the framework and of users, and how they *)
(* are encoded for the wire.  A text is a sequence of words; the word      *)
(* "rpc_" is the reserved prefix.                                          *)
(*                                                                         *)
(* Half stands for 2^31, so that a u32 is below U32 = 2 * Half and an i32  *)
(* below Half; every cast of the code is written out.  S stands for 2^7;   *)
(* the 16-bit types are treated by the same macro as the 8-bit ones.       *)
(***************************************************************************)
EXTENDS Integers, Sequences

CONSTANTS Half, S

ASSUME WidthAssumption == Half \in Nat /\ S \in Nat \ {0, 1} /\ 2 * S <= Half

U32 == 2 * Half
U32_MAX == U32 - 1
I32_MAX == Half - 1

\* `x as u32` of an i32, `x as i32` of a u32, and the low 32 bits of a usize.
AsU32(x) == IF x < 0 THEN x + U32 ELSE x
AsI32(x) == IF x < Half THEN x ELSE x - U32
Low32(x) == x % U32

RPC_ERR_PREFIX == "rpc_"

\* RpcIntErr, in the order of its variants.
RpcIntErr == <<"Unreachable", "IO", "Timeout", "Method", "Service",
               "Encode", "Decode", "Internal", "Version">>
IntErrs == {RpcIntErr[i] : i \in DOMAIN RpcIntErr}

\* The text strum gives an internal error, and its inverse RpcIntErr::from_str.
IntText(e) == <<RPC_ERR_PREFIX, e>>
IsIntText(s) == \E e \in IntErrs : s = IntText(e)

\* EncodedErr; the tag "None" is the absence of an error.
EncNone == [tag |-> "None", num |-> 0, txt |-> <<>>]
EncRpc(e) == [tag |-> "Rpc", num |-> 0, txt |-> IntText(e)]
EncNum(n) == [tag |-> "Num", num |-> n, txt |-> <<>>]
EncStatic(s) == [tag |-> "Static", num |-> 0, txt |-> s]
EncBuf(s) == [tag |-> "Buf", num |-> 0, txt |-> s]

\* A value of an error type E of the user.
UserErr(ty, num, txt) == [ty |-> ty, num |-> num, txt |-> txt]

NumTypes == {"i8", "u8", "i32", "u32"}
NumMax(ty) == CASE ty = "i8"             -> S - 1
                [] ty = "u8"             -> 2 * S - 1
                [] ty \in {"i32", "Errno"} -> I32_MAX
                [] ty = "u32"            -> U32_MAX
                [] OTHER                 -> 0

\* The least value of a type; an Errno is a positive number or 0.
NumMin(ty) == CASE ty = "i8"  -> -S
                [] ty = "i32" -> -Half
                [] OTHER      -> 0

\* RpcErrCodec::encode.  "Enum" is an error enum of the user that encodes as a static
\* string, as the documentation of the trait shows.
Encode(e) ==
  CASE e.ty \in NumTypes \cup {"Errno"} -> EncNum(AsU32(e.num))
    [] e.ty = "()"                      -> EncNum(0)
    [] e.ty = "String"                  -> EncBuf(e.txt)
    [] e.ty = "Enum"                    -> EncStatic(e.txt)

\* RpcErrCodec::decode for E = ty, from a number or from the bytes of a text.
Decodable(ty, enc) ==
  CASE ty \in NumTypes -> enc.tag = "Num" /\ enc.num <= NumMax(ty)
    [] ty = "Errno"    -> enc.tag = "Num" /\ enc.num <= I32_MAX
    [] ty = "()"       -> enc.tag = "Num" /\ enc.num = 0
    [] OTHER           -> enc.tag \in {"Buf", "Static"}

\* What a caller is told.
Verdict(tag, err, msg, blob) == [tag |-> tag, err |-> err, msg |-> msg, blob |-> blob]
Pending == Verdict("Pending", UserErr("", 0, <<>>), <<>>, <<>>)
Ok(msg, blob) == Verdict("Ok", UserErr("", 0, <<>>), msg, blob)
User(e) == Verdict("User", e, <<>>, <<>>)
Rpc(e) == Verdict("Rpc", UserErr("", 0, IntText(e)), <<>>, <<>>)

\* set_custom_error of a generated task, and process_res of an API request, which
\* keeps the encoded error until the type is known.
CustomError(ty, enc) ==
  IF Decodable(ty, enc) THEN User(UserErr(ty, enc.num, enc.txt)) ELSE Rpc("Decode")

=============================================================================
