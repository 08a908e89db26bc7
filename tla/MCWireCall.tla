----------------------------- MODULE MCWireCall ----------------------------
(* Names, actions, errors and buffers for WireCall that a configuration    *)
(* file cannot write.                                                      *)
EXTENDS WireCall, TLC

MCWords == {".", "Kv", "Fs", "get", "put", "open", "mine", "full", RPC_ERR_PREFIX} \cup IntErrs
MCCallSeq == <<"c1", "c2">>

\* A service with one method.  A client's endpoints also have a method and a service
\* that do not exist at the server, and a caller may use a text that names no method.
MCServices == <<"Kv">> :> {<<"get">>}
MCSingle == <<"Kv">>
MCEndpoints == <<"Kv">> :> {<<"get">>, <<"put">>} @@ <<"Fs">> :> {<<"get">>}
MCRawActions == {<<"Kv">>}

\* Two variants of a server's task enum, one of which stands for two actions.  The
\* variants of the client's name an action of their own, or leave it to the task.
MCVariants == <<<<Num(1), Str(<<"open">>)>>, <<Num(0)>>>>
MCClientVariants ==
  {[attr |-> <<Num(0)>>, field |-> <<Num(1)>>, fixed |-> <<>>],
   [attr |-> <<>>, field |-> <<Num(1)>>, fixed |-> <<>>],
   [attr |-> <<>>, field |-> <<Num(I32_MAX)>>, fixed |-> <<>>],
   [attr |-> <<>>, field |-> <<>>, fixed |-> <<Str(<<"open">>)>>]}

\* The least and the greatest value of signed types and of an unsigned one, zero, and
\* texts without the reserved prefix, with it, and of an internal error.
MCErrors == {UserErr("i8", -1, <<>>), UserErr("i8", S - 1, <<>>), UserErr("i32", -Half, <<>>),
             UserErr("u32", U32_MAX, <<>>), UserErr("Errno", 1, <<>>), UserErr("()", 0, <<>>),
             UserErr("String", 0, <<"rpc_", "mine">>), UserErr("String", 0, <<"rpc_", "Timeout">>),
             UserErr("String", 0, <<>>), UserErr("Enum", 0, <<"full">>)}

\* Vectors that are absent, longer, full and with spare room, Buffers that can and cannot
\* be allocated, and that are too small and large enough, for a blob of 3 bytes.
MCBufs == {NoBuf, Buf("OptVec", FALSE, 0, 0), Buf("OptVec", TRUE, 4, 4), Buf("Vec", TRUE, 1, 1),
           Buf("Vec", TRUE, 0, 2), Buf("OptBuffer", FALSE, 0, 2), Buf("OptBuffer", FALSE, 0, 4),
           Buf("Buffer", TRUE, 1, 2), Buf("Buffer", TRUE, 1, 4)}

\* The instance is one the theorems speak of.
ASSUME MCAssumption == Carried

=============================================================================
