------------------------------ MODULE RpcServer ------------------------------
(***************************************************************************)
(* RpcServer (stream/src/server/server.rs): the listener coroutines, a     *)
(* reader and a writer coroutine per connection, the handlers that hold a  *)
(* RespNoti for the request they work on (server/task.rs, dispatch.rs),    *)
(* and close().  Readers, handlers and writers share the channel done_rx;  *)
(* listeners, connections and close() share conn_ref_count and the close   *)
(* channel.                                                                *)
(***************************************************************************)
EXTENDS TcpServer, Functions

CONSTANTS
  Listener,       \* the listener coroutines
  Pings,          \* the requests that are pings: Num(0) with an empty message
  BadReqs,        \* the requests dispatch_req cannot decode
  CloseWait       \* ServerConfig.server_close_wait, in seconds

ASSUME ServerAssumption ==
  /\ Pings \subseteq Req /\ BadReqs \subseteq Req
  /\ CloseWait \in Nat

VARIABLES
  lst,        \* where each listener coroutine is
  backlog,    \* the connections no listener has accepted yet
  fresh,      \* the connection a listener has accepted and not spawned yet
  rdr,        \* where each connection's reader coroutine is
  running,    \* the requests handlers hold, each with a RespNoti clone
  forgone,    \* history: those a handler dropped with their RespNoti, unanswered
  done_rx,    \* the channel from RespNoti to the writer
  wtr,        \* where each connection's writer coroutine is
  broken,     \* history: the writer stopped on an error
  cpc,        \* where close() is
  aborted,    \* the listeners close() has told to stop
  close_tx,   \* the server still holds its end of the close channel
  waited,     \* seconds close() has slept
  left        \* what close() saw alive when it last counted

connVars == <<rdr, running, forgone, done_rx, wtr, broken>>
listenVars == <<lst, backlog, fresh>>
closeVars == <<cpc, aborted, close_tx, waited, left>>
vars == <<socketVars, listenVars, connVars, closeVars>>

ReaderPc == {"none", "head", "body", "dispatch", "serve", "gone"}
WriterPc == {"none", "recv", "burst", "flush", "gone"}

Init ==
  /\ SocketInit
  /\ lst = [l \in Listener |-> "accept"]
  /\ backlog = Conn
  /\ fresh = [l \in Listener |-> {}]
  /\ rdr = [c \in Conn |-> "none"]
  /\ running = [c \in Conn |-> {}]
  /\ forgone = [c \in Conn |-> {}]
  /\ done_rx = [c \in Conn |-> <<>>]
  /\ wtr = [c \in Conn |-> "none"]
  /\ broken = [c \in Conn |-> FALSE]
  /\ cpc = "open" /\ aborted = {} /\ close_tx = TRUE /\ waited = 0 /\ left = {}
--------------------------------------------------------------------------------
(* The listeners.                                                            *)

\* accept() returns.  An aborted coroutine is not polled again, but one that is
\* being polled goes on as long as it has connections to accept, so the abort does
\* not forbid it.
Accept(l, c) ==
  /\ lst[l] = "accept"
  /\ c \in backlog
  /\ backlog' = backlog \ {c}
  /\ fresh' = [fresh EXCEPT ![l] = {c}]
  /\ lst' = [lst EXCEPT ![l] = "spawn"]
  /\ UNCHANGED <<socketVars, connVars, closeVars>>

\* new_conn and server_conn.
ServerConn(l) ==
  /\ lst[l] = "spawn"
  /\ rdr' = [c \in Conn |-> IF c \in fresh[l] THEN "head" ELSE rdr[c]]
  /\ wtr' = [c \in Conn |-> IF c \in fresh[l] THEN "recv" ELSE wtr[c]]
  /\ fresh' = [fresh EXCEPT ![l] = {}]
  /\ lst' = [lst EXCEPT ![l] = "accept"]
  /\ UNCHANGED <<socketVars, backlog, running, forgone, done_rx, broken, closeVars>>

\* The coroutine ends at its await, by an accept error or by the abort.
ListenerEnds(l) ==
  /\ lst[l] = "accept"
  /\ lst' = [lst EXCEPT ![l] = "stopped"]
  /\ UNCHANGED <<socketVars, backlog, fresh, connVars, closeVars>>
--------------------------------------------------------------------------------
(* A connection's reader.                                                    *)

\* The request in the reader's hands.
InHand(c) == nread[c]

\* read_req has the header of the next request.
ReadHead(c) ==
  /\ rdr[c] = "head"
  /\ nread[c] < nsent[c]
  /\ rdr' = [rdr EXCEPT ![c] = "body"]
  /\ UNCHANGED <<socketVars, listenVars, running, forgone, done_rx, wtr, broken, closeVars>>

\* read_req gives up waiting for a header: end of stream, idle_timeout, or the
\* close channel is closed.
ReadHeadEnds(c) ==
  /\ rdr[c] = "head"
  /\ ~copen[c] \/ ~close_tx \/ ("idle" \in SrvFaults /\ nread[c] = nsent[c])
  /\ rdr' = [rdr EXCEPT ![c] = "gone"]
  /\ UNCHANGED <<socketVars, listenVars, running, forgone, done_rx, wtr, broken, closeVars>>

\* The action, the message and the blob follow the header.
ReadBody(c) ==
  /\ rdr[c] = "body"
  /\ nread' = [nread EXCEPT ![c] = @ + 1]
  /\ rdr' = [rdr EXCEPT ![c] = "dispatch"]
  /\ UNCHANGED <<nsent, copen, sbuf, replies, sshut, listenVars, running, forgone,
                 done_rx, wtr, broken, closeVars>>

\* They do not arrive, or not as they should: the reader returns.
ReadBodyFails(c) ==
  /\ rdr[c] = "body"
  /\ ~copen[c] \/ "stall" \in SrvFaults \/ "garble" \in SrvFaults
  /\ rdr' = [rdr EXCEPT ![c] = "gone"]
  /\ UNCHANGED <<socketVars, listenVars, running, forgone, done_rx, wtr, broken, closeVars>>

\* send_quick_resp: a writer that has stopped stops the reader too.
send_quick_resp(c) ==
  IF wtr[c] = "gone"
  THEN rdr' = [rdr EXCEPT ![c] = "gone"] /\ UNCHANGED done_rx
  ELSE /\ done_rx' = [done_rx EXCEPT ![c] = Append(@, InHand(c))]
       /\ rdr' = [rdr EXCEPT ![c] = "head"]

\* The reader answers a ping itself, and a request that does not decode.
QuickResp(c) ==
  /\ rdr[c] = "dispatch"
  /\ InHand(c) \in Pings \cup BadReqs
  /\ send_quick_resp(c)
  /\ UNCHANGED <<socketVars, listenVars, running, forgone, wtr, broken, closeVars>>

\* dispatch_req hands the request to a worker and returns, or goes on to serve
\* it inline.
DispatchReq(c) ==
  /\ rdr[c] = "dispatch"
  /\ InHand(c) \notin Pings \cup BadReqs
  /\ running' = [running EXCEPT ![c] = @ \cup {InHand(c)}]
  /\ \E pc \in {"head", "serve"} : rdr' = [rdr EXCEPT ![c] = pc]
  /\ UNCHANGED <<socketVars, listenVars, forgone, done_rx, wtr, broken, closeVars>>
--------------------------------------------------------------------------------
(* The handlers.                                                             *)

\* RespNoti::done: without a writer the reply goes nowhere.
noti_done(c, r) ==
  done_rx' = [done_rx EXCEPT ![c] = IF wtr[c] = "gone" THEN @ ELSE Append(@, r)]

\* A handler sets the result; if it ran inline, the reader goes on.
HandlerDone(c, r) ==
  /\ r \in running[c]
  /\ running' = [running EXCEPT ![c] = @ \ {r}]
  /\ noti_done(c, r)
  /\ rdr' = [rdr EXCEPT ![c] = IF @ = "serve" /\ r = InHand(c) THEN "head" ELSE @]
  /\ UNCHANGED <<socketVars, listenVars, forgone, wtr, broken, closeVars>>

\* A handler drops the task, and the RespNoti in it, without a result.
HandlerDrops(c, r) ==
  /\ r \in running[c]
  /\ running' = [running EXCEPT ![c] = @ \ {r}]
  /\ forgone' = [forgone EXCEPT ![c] = @ \cup {r}]
  /\ rdr' = [rdr EXCEPT ![c] = IF @ = "serve" /\ r = InHand(c) THEN "head" ELSE @]
  /\ UNCHANGED <<socketVars, listenVars, done_rx, wtr, broken, closeVars>>

\* An inline handler refuses the request; the reader answers in its place.
HandlerErr(c) ==
  /\ rdr[c] = "serve"
  /\ running' = [running EXCEPT ![c] = @ \ {InHand(c)}]
  /\ send_quick_resp(c)
  /\ UNCHANGED <<socketVars, listenVars, forgone, wtr, broken, closeVars>>
--------------------------------------------------------------------------------
(* A connection's writer.                                                    *)

\* recv or try_recv yields a reply, which is written; an error ends the writer.
WriteResp(c) ==
  /\ wtr[c] \in {"recv", "burst"}
  /\ done_rx[c] # <<>>
  /\ \/ /\ write_resp(c, Head(done_rx[c]))
        /\ done_rx' = [done_rx EXCEPT ![c] = Tail(@)]
        /\ wtr' = [wtr EXCEPT ![c] = "burst"]
        /\ UNCHANGED broken
     \/ /\ write_fails(c, Append(sbuf[c], Head(done_rx[c])))
        /\ done_rx' = [done_rx EXCEPT ![c] = <<>>]
        /\ wtr' = [wtr EXCEPT ![c] = "gone"]
        /\ broken' = [broken EXCEPT ![c] = TRUE]
  /\ UNCHANGED <<listenVars, rdr, running, forgone, closeVars>>

\* try_recv finds nothing more.
BurstEnds_Waits(c) ==
  /\ wtr[c] = "burst"
  /\ done_rx[c] = <<>>
  /\ wtr' = [wtr EXCEPT ![c] = "recv"]
  /\ UNCHANGED <<socketVars, listenVars, rdr, running, forgone, done_rx, broken, closeVars>>
BurstEnds(c) ==
  /\ wtr[c] = "burst"
  /\ done_rx[c] = <<>>
  /\ wtr' = [wtr EXCEPT ![c] = "flush"]
  /\ UNCHANGED <<socketVars, listenVars, rdr, running, forgone, done_rx, broken, closeVars>>

FlushResp(c) ==
  /\ wtr[c] = "flush"
  /\ \/ flush_resp(c) /\ wtr' = [wtr EXCEPT ![c] = "recv"] /\ UNCHANGED <<done_rx, broken>>
     \/ /\ write_fails(c, sbuf[c])
        /\ done_rx' = [done_rx EXCEPT ![c] = <<>>]
        /\ wtr' = [wtr EXCEPT ![c] = "gone"]
        /\ broken' = [broken EXCEPT ![c] = TRUE]
  /\ UNCHANGED <<listenVars, rdr, running, forgone, closeVars>>

\* No RespNoti is left, neither the reader's nor a handler's.
NoSender_ReaderOnly(c) == rdr[c] = "gone"
NoSender(c) == rdr[c] = "gone" /\ running[c] = {}

\* recv fails for good: the writer closes the connection.
WriterExit_Loops(c) ==
  /\ wtr[c] = "recv"
  /\ done_rx[c] = <<>>
  /\ NoSender(c)
  /\ wtr' = [wtr EXCEPT ![c] = "flush"]
  /\ UNCHANGED <<socketVars, listenVars, rdr, running, forgone, done_rx, broken, closeVars>>
WriterExit(c) ==
  /\ wtr[c] = "recv"
  /\ done_rx[c] = <<>>
  /\ NoSender(c)
  /\ close_conn(c)
  /\ wtr' = [wtr EXCEPT ![c] = "gone"]
  /\ UNCHANGED <<listenVars, rdr, running, forgone, done_rx, broken, closeVars>>
--------------------------------------------------------------------------------
(* close().                                                                  *)

\* A connection object lives until its reader and its writer have returned.
Alive == {c \in Conn : rdr[c] \notin {"none", "gone"} \/ wtr[c] \notin {"none", "gone"}}

\* conn_ref_count is held by every connection object and by every listener
\* coroutine: those that hold it, which the code counts.
get_alive_conn_ConnsOnly == Alive
get_alive_conn == Alive \cup {l \in Listener : lst[l] # "stopped"}

\* The user calls close().
Close ==
  /\ cpc = "open"
  /\ cpc' = "abort"
  /\ UNCHANGED <<socketVars, listenVars, connVars, aborted, close_tx, waited, left>>

\* It aborts the listeners one by one ...
CloseAbort ==
  /\ cpc = "abort"
  /\ \E l \in Listener \ aborted : aborted' = aborted \cup {l}
  /\ UNCHANGED <<socketVars, listenVars, connVars, cpc, close_tx, waited, left>>

\* ... drops its end of the close channel ...
CloseNotify ==
  /\ cpc = "abort"
  /\ aborted = Listener
  /\ close_tx' = FALSE
  /\ cpc' = "count"
  /\ UNCHANGED <<socketVars, listenVars, connVars, aborted, waited, left>>

\* ... counts what is alive and, after a sleep, looks whether server_close_wait
\* is over: each sleep takes a second or a little more ...
CloseCount ==
  /\ cpc = "count"
  /\ left' = get_alive_conn
  /\ \/ (left' = {} \/ (waited > 0 /\ waited >= CloseWait)) /\ cpc' = "closed"
     \/ left' # {} /\ waited <= CloseWait /\ cpc' = "sleep"
  /\ UNCHANGED <<socketVars, listenVars, connVars, aborted, close_tx, waited>>

\* ... and sleeps for a second before it counts again.
CloseSleep_Restarts ==
  /\ cpc = "sleep"
  /\ waited' = 1
  /\ cpc' = "count"
  /\ UNCHANGED <<socketVars, listenVars, connVars, aborted, close_tx, left>>
CloseSleep ==
  /\ cpc = "sleep"
  /\ waited' = waited + 1
  /\ cpc' = "count"
  /\ UNCHANGED <<socketVars, listenVars, connVars, aborted, close_tx, left>>
--------------------------------------------------------------------------------
Client ==
  /\ \E c \in Conn : (ClientSend(c) \/ ClientClose(c))
  /\ UNCHANGED <<listenVars, connVars, closeVars>>

ListenerStep(l) == (\E c \in Conn : Accept(l, c)) \/ ServerConn(l) \/ ListenerEnds(l)

ReaderStep(c) ==
  ReadHead(c) \/ ReadHeadEnds(c) \/ ReadBody(c) \/ ReadBodyFails(c)
    \/ QuickResp(c) \/ DispatchReq(c)

HandlerStep(c) ==
  (\E r \in Req : HandlerDone(c, r) \/ HandlerDrops(c, r)) \/ HandlerErr(c)

WriterStep(c) == WriteResp(c) \/ BurstEnds(c) \/ FlushResp(c) \/ WriterExit(c)

CloseStep == CloseAbort \/ CloseNotify \/ CloseCount \/ CloseSleep

Terminated == cpc = "closed" /\ Alive = {} /\ UNCHANGED vars

Next ==
  \/ Client
  \/ \E l \in Listener : ListenerStep(l)
  \/ \E c \in Conn : ReaderStep(c) \/ HandlerStep(c) \/ WriterStep(c)
  \/ Close \/ CloseStep
  \/ Terminated

Spec == Init /\ [][Next]_vars

\* The runtime polls every coroutine it has to and serves the timers; only
\* what the user, the handlers and the clients do is up to them.
Coroutines ==
  /\ WF_vars(CloseStep)
  /\ \A l \in Listener : WF_vars(ServerConn(l)) /\ WF_vars(l \in aborted /\ ListenerEnds(l))
  /\ \A c \in Conn : WF_vars(ReaderStep(c)) /\ WF_vars(WriterStep(c))

CoroutineSpec == Spec /\ Coroutines

\* What the user of the server may add: every handler finishes.
HandlersFinish == \A c \in Conn : WF_vars(HandlerStep(c))
--------------------------------------------------------------------------------
\* Every variable of the server has its type.
TypeOK ==
  /\ SocketTypeOK
  /\ lst \in [Listener -> {"accept", "spawn", "stopped"}]
  /\ backlog \subseteq Conn
  /\ fresh \in [Listener -> SUBSET Conn]
  /\ rdr \in [Conn -> ReaderPc]
  /\ running \in [Conn -> SUBSET Req]
  /\ forgone \in [Conn -> SUBSET Req]
  /\ done_rx \in [Conn -> Seq(Req)]
  /\ wtr \in [Conn -> WriterPc]
  /\ broken \in [Conn -> BOOLEAN]
  /\ cpc \in {"open", "abort", "count", "sleep", "closed"}
  /\ aborted \subseteq Listener
  /\ close_tx \in BOOLEAN
  /\ waited \in 0 .. CloseWait + 1
  /\ left \subseteq Conn \cup Listener

\* The replies to requests of c on their way out or delivered.
Answers(c) == replies[c] \o sbuf[c] \o done_rx[c]

\* A request read_req returned is answered at most once, by its handler or by
\* the reader, whatever the order in which they finish; and unless the client
\* left or the writer failed, it is answered, being served, in the reader's
\* hands, or its handler dropped it, and then it is never answered.
ReplyConserved ==
  \A c \in Conn :
    /\ IsInjective(Answers(c))
    /\ Range(Answers(c)) \cap (running[c] \cup forgone[c]) = {}
    /\ Range(Answers(c)) \cup running[c] \cup forgone[c] \subseteq 1 .. nread[c]
    /\ copen[c] /\ ~broken[c] =>
         \A r \in 1 .. nread[c] :
           \/ r \in Range(Answers(c)) \cup running[c] \cup forgone[c]
           \/ rdr[c] = "dispatch" /\ r = InHand(c)

\* No reply stays in the write buffer while the writer waits for the next one.
IdleFlushed == \A c \in Conn : wtr[c] = "recv" => sbuf[c] = <<>>

Contract == INSTANCE PeerContract WITH
  Peer <- Conn, got <- [c \in Conn |-> 1 .. nread[c]],
  forgone <- forgone, answers <- replies, there <- copen, ended <- sshut

\* On every connection the server implements what the client side relies on: no
\* answer without its request, none twice, none after the end of the stream, and
\* close_conn ends the stream of a client that is still there only when every
\* request that read_req returned has been answered, handlers included, or dropped
\* by its handler.
ContractSpec == Contract!Spec

\* When close() reports that nothing is alive, nothing is and nothing will be:
\* no connection slipped in between the abort of its listener and the count.
ClosedQuiet ==
  cpc = "closed" /\ left = {} => Alive = {} /\ \A l \in Listener : lst[l] = "stopped"

\* close() returns, whatever the handlers and the clients do.
CloseReturns == cpc # "open" ~> cpc = "closed"

\* Once the close channel is closed every connection ends, if handlers finish.
Drained == HandlersFinish => (~close_tx ~> Alive = {})

\* A request a handler works on is answered to the client if handlers finish,
\* unless the handler dropped it, the client left or the writer failed.
Answered ==
  HandlersFinish => \A c \in Conn, r \in Req \ (Pings \cup BadReqs) :
    r \in running[c] ~> r \in Range(replies[c]) \cup forgone[c] \/ broken[c] \/ ~copen[c]
================================================================================
