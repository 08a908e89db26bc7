------------------------------ MODULE WireCall -----------------------------
(***************************************************************************)
(* A call from the value of the caller to the value of the handler and     *)
(* back, over one connection: how a request is encoded, framed, read,      *)
(* routed to a handler and answered, and how the answer is read into the   *)
(* task or thrown away.  Client and server are the two ends of two byte    *)
(* sequences.  Their coroutines, windows and timers are the business of    *)
(* ClientStream and RpcServer; here a frame is written or read in one      *)
(* step, and a task may time out at any moment.                            *)
(*                                                                         *)
(* layer is the API layer, with several services ("mux") or one that is    *)
(* not asked for its name ("single"), or the stream layer ("stream": tasks *)
(* of the generated enums, with blobs).                                    *)
(***************************************************************************)
EXTENDS Proto, Buffers, Functions

CONSTANTS
  Words,          \* the words of all texts
  CallSeq,        \* the calls made on the connection, in the order of their numbers
  Services,       \* the methods of each service of the server, a function
  Single,         \* the service of a server that has only one
  Endpoints,      \* the methods a client knows of each service trait, a function
  RawActions,     \* texts a caller may use as an action without an endpoint
  Variants,       \* the variants of the server's task enum: a sequence of action lists
  ClientVariants, \* the variants of the client's task enum
  Errors,         \* error values a handler may return
  Bufs,           \* buffers a task may offer for a blob
  MsgLens, BlobLens,  \* lengths of encoded messages and of blobs
  Partial         \* bytes a failing encoder may have written

VARIABLES
  layer,
  c2s, s2c,       \* bytes written and not read yet
  task,           \* the client's tasks
  running,        \* tasks in handlers
  cup, sup,       \* whether the client and the server go on reading
  asked, want     \* history: what was asked of the server, what its answer should mean

vars == <<layer, c2s, s2c, task, running, cup, sup, asked, want>>

Calls == {CallSeq[i] : i \in DOMAIN CallSeq}
Api == layer \in {"mux", "single"}

\* The actions a client uses.  API layer: "Trait.method" for each method of an endpoint.
ServiceMethod(trait, method) == Str(trait \o <<".">> \o method)
EndpointActions == UNION {{ServiceMethod(t, m) : m \in Endpoints[t]} : t \in DOMAIN Endpoints}

\* Stream layer: the #[action] of a variant, or else the action of the task in it, which
\* is a field of the task or fixed for its type.  An absent one is the empty sequence.
OwnAction(v) == IF v.field # <<>> THEN v.field[1] ELSE v.fixed[1]
ClientAction(v) == IF v.attr # <<>> THEN v.attr[1] ELSE OwnAction(v)

Actions == IF Api THEN EndpointActions \cup {Str(s) : s \in RawActions}
                  ELSE {ClientAction(v) : v \in ClientVariants}

\* A number or a text, never both.
RpcActions == [tag : {"Num", "Str"}, num : Int, str : Seq(Words)]
IsAction(a) == /\ a \in RpcActions
               /\ a = IF a.tag = "Num" THEN Num(a.num) ELSE Str(a.str)

BufShape == [type : BufTypes, some : BOOLEAN, len : Nat, cap : Nat]
ErrTypes == NumTypes \cup {"Errno", "()", "String", "Enum"}

\* A text is a sequence of words; a service is named by an identifier, which has no
\* dot in it; an error is a value of its type; a buffer is not longer than its capacity.
ASSUME CallAssumption ==
  /\ {".", RPC_ERR_PREFIX} \cup IntErrs \subseteq Words
  /\ MsgLens \subseteq Nat /\ BlobLens \subseteq Nat /\ Partial \subseteq Nat
  /\ RawActions \subseteq Seq(Words)
  /\ \A t \in DOMAIN Endpoints : t \in Seq(Words) /\ Endpoints[t] \subseteq Seq(Words)
  /\ \A s \in DOMAIN Services : /\ s \in Seq(Words) /\ "." \notin Range(s)
                               /\ Services[s] \subseteq Seq(Words)
  /\ Single \in DOMAIN Services
  /\ \A v \in ClientVariants : IsAction(ClientAction(v))
  /\ Variants \in Seq(Seq(RpcActions))
  /\ Errors \subseteq [ty : ErrTypes, num : Int, txt : Seq(Words)]
  /\ \A e \in Errors : /\ e.num \in NumMin(e.ty)..NumMax(e.ty)
                       /\ e.txt # <<>> => e.ty \in {"String", "Enum"}
  /\ Bufs \subseteq BufShape
  /\ \A b \in Bufs : b.len <= b.cap /\ (b.type = "NoField" => b = NoBuf)

\* What the headers can carry: a number that is not negative or a text of less than
\* 2^31 bytes as an action, a message and a blob of less than 4 GiB together, and a
\* text of less than 2^31 bytes as an error.
Carried ==
  /\ \A a \in EndpointActions \cup {Str(s) : s \in RawActions}
              \cup {ClientAction(v) : v \in ClientVariants} :
       IF a.tag = "Num" THEN a.num \in 0..I32_MAX ELSE Len(a.str) <= I32_MAX
  /\ \A m \in MsgLens, b \in BlobLens \cup {0} : b <= I32_MAX /\ m + b <= U32_MAX
  /\ \A e \in Errors : Len(e.txt) <= I32_MAX

\* Codec::decode of a message type: exactly the bytes an encoder made of a value.
Decodes(kind, buf) ==
  /\ buf # <<>>
  /\ \A i \in DOMAIN buf : buf[i] = buf[1] /\ buf[i].kind = kind

From(s, n) == SubSeq(s, n + 1, Len(s))

NotAsked == [action |-> Num(0), kind |-> "none", msg |-> 0, blob |-> 0,
             buf |-> NoBuf, ety |-> "()"]

Init ==
  /\ layer \in {"mux", "single", "stream"}
  /\ c2s = <<>> /\ s2c = <<>>
  /\ task = [c \in Calls |-> [st |-> "new", buf |-> NoBuf, res |-> Pending]]
  /\ running = {}
  /\ cup = TRUE /\ sup = TRUE
  /\ asked = [c \in Calls |-> NotAsked]
  /\ want = [c \in Calls |-> Pending]

----------------------------------------------------------------------------
(* The client sends. *)

\* Requests a client may make: a message the server can or cannot decode, or that does
\* not encode, and a blob, of which one is a byte too long.
\* The buffer for the blob of the answer and the error type both sides agree on are
\* chosen when something first depends on them.
Requests ==
  [action : Actions, kind : {"req", "odd"} \cup (IF Api THEN {} ELSE {"noenc"}),
   msg : MsgLens \ {0}, blob : IF Api THEN {0} ELSE BlobLens \cup {Half},
   buf : {NoBuf}, ety : {"()"}]

\* encode_req and get_req_blob of the task, in the frame.
Frame(c, q) == EncodeReq(c, q.action, Bytes(q.kind, c, q.msg), Bytes("blob", c, q.blob))
Encodes(c, q) == q.kind # "noenc" /\ Frame(c, q).ok

\* Sequence numbers are given in the order of writing.
IsNext(c) ==
  /\ cup /\ task[c].st = "new"
  /\ \E i \in DOMAIN CallSeq : /\ CallSeq[i] = c
                               /\ \A j \in 1..(i - 1) : task[CallSeq[j]].st # "new"

\* set_error_and_exit and clean_error: every task that waits gets an error.
FailAll(t) == [c \in Calls |-> IF t[c].st = "wait"
                               THEN [t[c] EXCEPT !.st = "failed", !.res = Rpc("IO")]
                               ELSE t[c]]

\* send_task with write_req, the request written whole or not encoded at all.
Send(c) ==
  /\ IsNext(c)
  /\ \E q \in Requests :
       /\ c2s' = IF Encodes(c, q) THEN c2s \o Frame(c, q).bytes ELSE c2s
       /\ task' = [task EXCEPT ![c] =
            [st  |-> IF Encodes(c, q) THEN "wait" ELSE "failed", buf |-> NoBuf,
             res |-> IF Encodes(c, q) THEN Pending ELSE Rpc("Encode")]]
       /\ asked' = [asked EXCEPT ![c] = q]
  /\ UNCHANGED <<layer, s2c, running, cup, sup, want>>

\* write_req fails after a part of the frame: the connection is given up.
SendCut(c) ==
  /\ IsNext(c)
  /\ \E q \in Requests :
       /\ Encodes(c, q)
       /\ \E n \in 1..(Len(Frame(c, q).bytes) - 1) :
            c2s' = c2s \o SubSeq(Frame(c, q).bytes, 1, n)
       /\ task' = FailAll([task EXCEPT ![c].st = "wait"])
  /\ cup' = FALSE
  /\ UNCHANGED <<layer, s2c, running, sup, asked, want>>

\* ping: it takes a sequence number and no task waits for it.
Ping(c) ==
  /\ IsNext(c)
  /\ c2s' = c2s \o EncodePing(c)
  /\ task' = [task EXCEPT ![c].st = "ping"]
  /\ UNCHANGED <<layer, s2c, running, cup, sup, asked, want>>

----------------------------------------------------------------------------
(* The server reads and dispatches. *)

\* read_req: the parts of a request, by the lengths of its header.
ActionLen(h) == GetAction(h).len
BlobLen(h) == IF AsI32(h.b) > 0 THEN AsI32(h.b) ELSE 0
ReqSize(h) == 1 + ActionLen(h) + h.m + BlobLen(h)

\* The header decodes, all of the body comes, and a text action is a text.
Readable(wire) ==
  /\ IsHead(wire[1]) /\ ReqSize(wire[1]) <= Len(wire)
  /\ IsText(SubSeq(wire, 2, 1 + ActionLen(wire[1])))

ReadReq(wire) ==
  LET h == wire[1]
      n == 1 + ActionLen(h)
  IN [seq    |-> h.own,
      action |-> IF GetAction(h).tag = "Num" THEN Num(GetAction(h).num)
                 ELSE Str(FromText(SubSeq(wire, 2, n))),
      msg    |-> SubSeq(wire, n + 1, n + h.m),
      blob   |-> SubSeq(wire, n + h.m + 1, ReqSize(h))]

\* split_once('.'): the service and the method an action names.
SplitOnce(str) ==
  LET dots == {i \in DOMAIN str : str[i] = "."}
      dot == CHOOSE i \in dots : \A j \in dots : i <= j
  IN [service |-> SubSeq(str, 1, dot - 1), method |-> From(str, dot)]

\* What becomes of a request before the user's code runs: an error, or "none".  Below,
\* the handler generated for a method, the match on the name of the method, the match on
\* the name of the service, and APIDispatch::dispatch_req.
HandleMethod(req) == IF Decodes("req", req.msg) THEN "none" ELSE "Decode"

ServeService(methods, method, req) ==
  IF method \in methods THEN HandleMethod(req) ELSE "Method"

ServeMux(a, req) ==
  IF a.service \in DOMAIN Services THEN ServeService(Services[a.service], a.method, req)
                                   ELSE "Service"

ApiDispatch(req) ==
  IF req.action.tag = "Num" \/ "." \notin Range(req.action.str) THEN "Decode"
  ELSE LET a == SplitOnce(req.action.str)
       IN IF layer = "mux" THEN ServeMux(a, req)
                           ELSE ServeService(Services[Single], a.method, req)

\* The variant of the task enum whose #[action] lists the action of a request.
VariantOf(action) ==
  {v \in DOMAIN Variants : \E i \in DOMAIN Variants[v] : Variants[v][i] = action}

\* DispatchClosure with the generated decode_req: no arm, or a message that does not
\* decode, is an Err, for which the reader answers with Decode.
StreamDispatch(req) ==
  IF VariantOf(req.action) # {} /\ Decodes("req", req.msg) THEN "none" ELSE "Decode"

TaskAction_First(v, kept) == Variants[v][1]

\* get_action of the enum: the action of the variant, or the one it keeps if it has several.
TaskAction(v, kept) == IF Len(Variants[v]) = 1 THEN Variants[v][1] ELSE kept

\* The server task of an accepted request.
ServerTask(req) ==
  [seq |-> req.seq, blob |-> Len(req.blob),
   action |-> IF Api THEN req.action
              ELSE TaskAction(CHOOSE v \in VariantOf(req.action) :
                                \A w \in VariantOf(req.action) : v <= w, req.action)]

Dispatch(req) == IF Api THEN ApiDispatch(req) ELSE StreamDispatch(req)

\* One round of Reader::run.
ServerRead ==
  /\ sup /\ c2s # <<>> /\ Readable(c2s)
  /\ LET req == ReadReq(c2s)
         e == Dispatch(req)
     IN /\ c2s' = From(c2s, ReqSize(c2s[1]))
        /\ \/ /\ req.action = Num(0) /\ req.msg = <<>>
              /\ s2c' = s2c \o EncodeInternal(req.seq, EncNone)
              /\ UNCHANGED running
           \/ /\ ~(req.action = Num(0) /\ req.msg = <<>>)
              /\ IF e = "none"
                 THEN running' = running \cup {ServerTask(req)} /\ UNCHANGED s2c
                 ELSE /\ s2c' = s2c \o EncodeInternal(req.seq, EncRpc(e))
                      /\ UNCHANGED running
  /\ UNCHANGED <<layer, task, cup, sup, asked, want>>

\* read_req fails, in reading or because no buffer can be had for a blob, and the reader
\* leaves.
ServerDrop ==
  /\ sup /\ c2s # <<>> /\ (~Readable(c2s) \/ BlobLen(c2s[1]) > 0)
  /\ sup' = FALSE
  /\ UNCHANGED <<layer, c2s, s2c, task, running, cup, asked, want>>

----------------------------------------------------------------------------
(* Handlers answer. *)

\* What a handler may come to: a value with or without a message (resp: None) and a
\* blob, an error of the user, an internal error (API methods), or a value that does
\* not encode, of which a part may be in the buffer already.
Outcome(kind, msg, blob, err, left) ==
  [kind |-> kind, msg |-> msg, blob |-> blob, err |-> err, left |-> left]

NoErr == UserErr("", 0, <<>>)

Outcomes ==
  {Outcome("err", 0, 0, e, 0) : e \in Errors} \cup
  IF Api
  THEN {Outcome("ok", n, 0, NoErr, 0) : n \in MsgLens \ {0}} \cup
       {Outcome("rpc", 0, 0, NoErr, 0), Outcome("noenc", 0, 0, NoErr, 0)}
  ELSE {Outcome("ok", n, b, NoErr, 0) : n \in MsgLens, b \in BlobLens} \cup
       {Outcome("noenc", 0, 0, NoErr, k) : k \in Partial}

\* set_result, set_error and set_rpc_error of an API request, with encode_resp: a value
\* is encoded into a vector of its own before the response is made.
ApiResp(seq, o) ==
  [buf  |-> Bytes("rsp", seq, o.msg),
   err  |-> CASE o.kind = "ok"    -> EncNone
              [] o.kind = "err"   -> Encode(o.err)
              [] o.kind = "rpc"   -> EncRpc("Internal")
              [] o.kind = "noenc" -> EncRpc("Encode"),
   blob |-> <<>>]

\* encode_resp of ServerTaskVariant and ServerTaskVariantFull: a value is encoded into
\* the buffer of the connection, behind the room for the header.
StreamResp(seq, o) ==
  [buf  |-> Bytes("rsp", seq, IF o.kind = "noenc" THEN o.left ELSE o.msg),
   err  |-> CASE o.kind = "ok"    -> EncNone
              [] o.kind = "err"   -> Encode(o.err)
              [] o.kind = "noenc" -> EncRpc("Encode"),
   blob |-> Bytes("blob", seq, o.blob)]

EncodeOutcome(seq, o) == IF Api THEN ApiResp(seq, o) ELSE StreamResp(seq, o)

\* What an outcome means to a caller.
Meaning(seq, o) ==
  CASE o.kind = "ok"    -> Ok(Bytes("rsp", seq, o.msg), Bytes("blob", seq, o.blob))
    [] o.kind = "err"   -> User(o.err)
    [] o.kind = "rpc"   -> Rpc("Internal")
    [] o.kind = "noenc" -> Rpc("Encode")

\* A handler sets the result of its task (set_result, set_error), and the writer
\* encodes and writes it.
Serve(r) ==
  /\ \E o \in Outcomes :
       /\ s2c' = s2c \o EncodeResp(r.seq, EncodeOutcome(r.seq, o))
       /\ want' = [want EXCEPT ![r.seq] = Meaning(r.seq, o)]
       /\ asked' = [asked EXCEPT ![r.seq].ety = IF o.kind = "err" THEN o.err.ty ELSE @]
  /\ running' = running \ {r}
  /\ UNCHANGED <<layer, c2s, task, cup, sup>>

----------------------------------------------------------------------------
(* The client receives. *)

Waiting(seq) == seq \in Calls /\ task[seq].st = "wait"
Complete(c, res) == [task EXCEPT ![c].st = "done", ![c].res = res]

ErrorText_NoPrefix(ty, buf) ==
  IF IsText(buf) THEN CustomError(ty, EncBuf(FromText(buf))) ELSE Rpc("Decode")

\* The text of an error response: an internal error when it is the text of one.
ErrorText(ty, buf) ==
  IF IsText(buf) /\ IsIntText(FromText(buf))
  THEN Verdict("Rpc", UserErr("", 0, FromText(buf)), <<>>, <<>>)
  ELSE IF IsText(buf) THEN CustomError(ty, EncBuf(FromText(buf)))
  ELSE Rpc("Decode")

\* _recv_error, flag 1: the message length is the error.
RecvErrno ==
  /\ cup /\ s2c # <<>>
  /\ LET h == s2c[1]
     IN /\ IsHead(h) /\ Waiting(h.own) /\ h.a = RESP_FLAG_HAS_ERRNO
        /\ task' = Complete(h.own, CustomError(asked[h.own].ety, EncNum(h.m)))
  /\ s2c' = Tail(s2c)
  /\ UNCHANGED <<layer, c2s, running, cup, sup, asked, want>>

\* _recv_error, flag 2: the blob is the text of the error.
RecvErrString ==
  /\ cup /\ s2c # <<>>
  /\ LET h == s2c[1]
     IN /\ IsHead(h) /\ Waiting(h.own) /\ h.a = RESP_FLAG_HAS_ERR_STRING
        /\ 1 + h.b <= Len(s2c)
        /\ task' = Complete(h.own, ErrorText(asked[h.own].ety, SubSeq(s2c, 2, 1 + h.b)))
        /\ s2c' = From(s2c, 1 + h.b)
  /\ UNCHANGED <<layer, c2s, running, cup, sup, asked, want>>

\* The result of a response whose message and blob were read into the task.
DecodeResp(msg, blob) ==
  IF msg = <<>> \/ Decodes("rsp", msg) THEN Ok(msg, blob) ELSE Rpc("Decode")

\* _recv_resp_body of a task that is found: without room for the blob the task gets
\* Decode and the blob is read and thrown away.
RecvResp ==
  /\ cup /\ s2c # <<>>
  /\ \E buf \in (IF Api THEN {NoBuf} ELSE Bufs) :
       LET h == s2c[1]
           c == h.own
           room == Reserve(buf, h.b)
           size == 1 + h.m + h.b
       IN /\ IsHead(h) /\ Waiting(c) /\ h.a = 0 /\ size <= Len(s2c)
          /\ LET res == DecodeResp(SubSeq(s2c, 2, 1 + h.m), SubSeq(s2c, 2 + h.m, size))
             IN task' = IF h.b = 0 THEN [Complete(c, res) EXCEPT ![c].buf = buf]
                        ELSE IF room.ok THEN [Complete(c, res) EXCEPT ![c].buf = room.buf]
                        ELSE [Complete(c, Rpc("Decode")) EXCEPT ![c].buf = buf]
          /\ asked' = [asked EXCEPT ![c].buf = buf]
          /\ s2c' = From(s2c, size)
  /\ UNCHANGED <<layer, c2s, running, cup, sup, want>>

DumpLen_NoErr(h) == IF h.a = 0 THEN Low32(h.m + AsU32(h.b)) ELSE 0

\* The length of a body no task waits for: a sum of two u32.
DumpLen(h) ==
  CASE h.a = 0                        -> Low32(h.m + AsU32(h.b))
    [] h.a = RESP_FLAG_HAS_ERR_STRING -> AsU32(h.b)
    [] OTHER                          -> 0

\* _recv_resp_body of a task that timed out (or of a ping), with _recv_and_dump.
RecvDump ==
  /\ cup /\ s2c # <<>>
  /\ LET h == s2c[1]
         n == DumpLen(h)
     IN /\ IsHead(h) /\ ~Waiting(h.own)
        /\ AsI32(n) >= 0 /\ 1 + n <= Len(s2c)
        /\ s2c' = From(s2c, 1 + n)
  /\ UNCHANGED <<layer, c2s, task, running, cup, sup, asked, want>>

\* Whether the receiver may fail on the response at the head of the stream: the bytes
\* it wants do not come, or no buffer can be had for the ones it would throw away.
Unreadable(h) ==
  \/ ~IsHead(h)
  \/ ~Waiting(h.own) /\ DumpLen(h) > 0
  \/ /\ Waiting(h.own)
     /\ 1 + h.b + (IF h.a = 0 THEN h.m ELSE 0) > Len(s2c)

\* The receiver gives up: read_resp fails, and clean_error ends every task.
ClientDrop ==
  /\ cup /\ s2c # <<>> /\ Unreadable(s2c[1])
  /\ cup' = FALSE
  /\ task' = FailAll(task)
  /\ UNCHANGED <<layer, c2s, s2c, running, sup, asked, want>>

\* The timer ends a task; its answer is still to come.
Expire(c) ==
  /\ task[c].st = "wait"
  /\ task' = [task EXCEPT ![c].st = "failed", ![c].res = Rpc("Timeout")]
  /\ UNCHANGED <<layer, c2s, s2c, running, cup, sup, asked, want>>

\* Every call has ended and nothing is left to read.
Quiet ==
  /\ \A c \in Calls : task[c].st \in {"done", "failed", "ping", "new"}
  /\ cup => \A c \in Calls : task[c].st # "new"
  /\ running = {}
  /\ c2s = <<>> \/ ~sup
  /\ s2c = <<>> \/ ~cup
  /\ UNCHANGED vars

Next ==
  \/ \E c \in Calls : Send(c) \/ SendCut(c) \/ Ping(c) \/ Expire(c)
  \/ ServerRead \/ ServerDrop
  \/ \E r \in running : Serve(r)
  \/ RecvErrno \/ RecvErrString \/ RecvResp \/ RecvDump \/ ClientDrop
  \/ Quiet

Spec == Init /\ [][Next]_vars

----------------------------------------------------------------------------
(* Properties. *)

\* A unit of the wire; what is put into a 32-bit field of a header fits it.
Unit == [kind : {"head", "txt", "req", "odd", "rsp", "blob"}, own : Calls \cup Words,
         a : 0..U32_MAX, m : 0..U32_MAX, b : 0..I32_MAX]

\* Every variable has its type; in particular the lengths in the headers of requests
\* and responses fit their fields (ReqHead::encode, RespHead::encode).
TypeOK ==
  /\ layer \in {"mux", "single", "stream"}
  /\ c2s \in Seq(Unit) /\ s2c \in Seq(Unit)
  /\ DOMAIN task = Calls
  /\ \A c \in Calls : /\ DOMAIN task[c] = {"st", "buf", "res"}
                      /\ task[c].st \in {"new", "wait", "ping", "done", "failed"}
                      /\ task[c].buf \in BufShape
  /\ running \subseteq [seq : Calls, blob : Nat, action : RpcActions]
  /\ cup \in BOOLEAN /\ sup \in BOOLEAN
  /\ asked \in [Calls -> [action : RpcActions, kind : {"none", "req", "odd", "noenc"}, msg : Nat, blob : Nat,
                          buf : BufShape, ety : ErrTypes]]
  /\ DOMAIN want = Calls

\* The server's reader is always at the beginning of a request: what it took of the
\* requests before (action, message, blob) is what their headers announced and the
\* client wrote (ReqHead::encode against read_req).
RequestsInSync == c2s # <<>> => IsHead(c2s[1])

\* The client's receiver is always at the beginning of a response, whether the ones
\* before were read into a task, ended in an error, had no room or came too late
\* (RespHead::encode against _recv_resp_body, _recv_error and _recv_and_dump).
ResponsesInSync == s2c # <<>> => IsHead(s2c[1])

\* The method an API action names, without taking the text apart; a server with one
\* service takes any name without a dot for it.
Names(a, s, m) == a.str = s \o <<".">> \o m
NamesMethod(a, m) ==
  \E k \in 0..Len(a.str) : LET s == SubSeq(a.str, 1, k)
                           IN "." \notin Range(s) /\ Names(a, s, m)

\* What becomes of a request before any handler runs, stated from the request.
Rejection(q) ==
  IF layer = "stream"
  THEN IF q.kind = "req" /\ VariantOf(q.action) # {} THEN "none" ELSE "Decode"
  ELSE IF "." \notin Range(q.action.str) THEN "Decode"
  ELSE IF /\ layer = "mux"
          /\ \A s \in DOMAIN Services, k \in 0..Len(q.action.str) :
               SubSeq(q.action.str, 1, k) # s \o <<".">> THEN "Service"
  ELSE IF \/ /\ layer = "mux"
             /\ \A s \in DOMAIN Services : \A m \in Services[s] : ~Names(q.action, s, m)
          \/ /\ layer = "single"
             /\ \A m \in Services[Single] : ~NamesMethod(q.action, m) THEN "Method"
  ELSE IF q.kind = "req" THEN "none" ELSE "Decode"

\* Whether the buffer a caller offered takes a blob of n bytes, after the documentation
\* of AllocateBuf: vectors grow, a Buffer is as large as it is or as can be allocated.
TakesBlob(buf, n) == n = 0 \/ buf.type \in {"Vec", "OptVec"} \/ buf.cap >= n

\* What a caller is told of an outcome: all of it, except that a negative number does
\* not come back as the error it was, and that a user's text which is the text of an
\* internal error, whose prefix is reserved, is taken for that error.
Told(v) ==
  IF v.tag = "User" /\ v.err.num < 0 THEN Rpc("Decode")
  ELSE IF v.tag = "User" /\ IsIntText(v.err.txt)
  THEN Verdict("Rpc", UserErr("", 0, v.err.txt), <<>>, <<>>)
  ELSE v

Expected(c) ==
  IF Rejection(asked[c]) # "none" THEN Rpc(Rejection(asked[c]))
  ELSE IF ~TakesBlob(asked[c].buf, Len(want[c].blob)) THEN Rpc("Decode")
  ELSE Told(want[c])

\* A blob was read into more memory than its buffer has: what follows is undefined.
Overrun(c) == task[c].buf.len > task[c].buf.cap

\* A caller whose call was answered learns what the handler of its own request came
\* to, value, blob and error alike, or why no handler ran; nothing is lost or changed
\* by encoding, framing, routing and decoding, whatever other calls and late
\* answers share the connection.  The two kinds of errors that Told names are the
\* exception, and nothing is said of a connection on which a buffer was overrun.
Faithful ==
  (\A c \in Calls : ~Overrun(c)) =>
    \A c \in Calls : task[c].st = "done" => task[c].res = Expected(c)

\* An error of one of the built-in numeric types reaches the caller as the number the
\* handler returned ("Numeric types: i8, u8, i16, u16, i32, u32", stream/src/error.rs).
NumbersUnchanged ==
  \A c \in Calls :
    task[c].st = "done" /\ want[c].tag = "User" /\ want[c].err.ty \in NumTypes
      => task[c].res = want[c]

\* A handler runs only for a request that was made and not rejected, and sees the
\* action (get_action) and the blob of that request.
HandlerSeesRequest ==
  \A r \in running :
    /\ Rejection(asked[r.seq]) = "none"
    /\ r.action = asked[r.seq].action
    /\ r.blob = asked[r.seq].blob

\* The length a buffer is given never exceeds what it has allocated (set_len in
\* AllocateBuf::reserve): a vector grows "to fit the requirement".
BlobFits == \A c \in Calls : ~Overrun(c)

\* Only a vector that was offered with spare room, and too little of it, is ever given
\* a length beyond its allocation: a full vector, a Buffer and a None never are.
FitsUnlessSpare ==
  \A c \in Calls : Overrun(c) =>
    LET buf == asked[c].buf
    IN /\ buf.type \in {"Vec", "OptVec"}
       /\ buf.len < buf.cap /\ buf.cap < task[c].buf.len

=============================================================================
