------------------------------ MODULE TcpServer ------------------------------
(***************************************************************************)
(* TcpServer (transport/tcp/src/server.rs): the sockets of the server's    *)
(* connections, with the client at the other end of each.  A request is    *)
(* named by its place in what its connection's client sends, a reply by    *)
(* the request it answers.                                                 *)
(***************************************************************************)
EXTENDS Naturals, Sequences

CONSTANTS
  Conn,        \* the connections clients open
  MaxReqs,     \* bound: how many requests a client sends on a connection
  SrvFaults    \* what clients may do: "stall", "close", "garble", "idle"

ASSUME TcpServerAssumption ==
  /\ MaxReqs \in Nat
  /\ SrvFaults \subseteq {"stall", "close", "garble", "idle"}

Req == 1 .. MaxReqs

VARIABLES
  nsent,     \* how many requests the client has sent
  nread,     \* how many of them read_req has returned
  copen,     \* the client keeps the connection open
  sbuf,      \* replies in AsyncBufStream's write buffer
  replies,   \* replies the client has received, in order
  sshut      \* the server has shut down its write side

socketVars == <<nsent, nread, copen, sbuf, replies, sshut>>

SocketTypeOK ==
  /\ nsent \in [Conn -> 0 .. MaxReqs]
  /\ nread \in [Conn -> 0 .. MaxReqs]
  /\ copen \in [Conn -> BOOLEAN]
  /\ sbuf \in [Conn -> Seq(Req)]
  /\ replies \in [Conn -> Seq(Req)]
  /\ sshut \in [Conn -> BOOLEAN]

SocketInit ==
  /\ nsent = [c \in Conn |-> 0]
  /\ nread = [c \in Conn |-> 0]
  /\ copen = [c \in Conn |-> TRUE]
  /\ sbuf = [c \in Conn |-> <<>>]
  /\ replies = [c \in Conn |-> <<>>]
  /\ sshut = [c \in Conn |-> FALSE]

\* What the server's socket hands to a client that is still there.
Deliver(c, s) ==
  /\ replies' = [replies EXCEPT ![c] = IF copen[c] THEN @ \o s ELSE @]
  /\ sbuf' = [sbuf EXCEPT ![c] = <<>>]

\* write_resp and write_resp_internal returning Ok: the reply is buffered, and
\* a buffer that is full goes out.
write_resp(c, r) ==
  /\ \/ sbuf' = [sbuf EXCEPT ![c] = Append(@, r)] /\ UNCHANGED replies
     \/ Deliver(c, Append(sbuf[c], r))
  /\ UNCHANGED <<nsent, nread, copen, sshut>>

\* flush_resp returning Ok.
flush_resp(c) ==
  /\ Deliver(c, sbuf[c])
  /\ UNCHANGED <<nsent, nread, copen, sshut>>

\* A write or a flush of s fails, after some of it went out: the client is
\* gone, or write_timeout expired.
write_fails(c, s) ==
  /\ ~copen[c] \/ "stall" \in SrvFaults
  /\ \E n \in 0 .. Len(s) :
       /\ n > 0 => copen[c]
       /\ replies' = [replies EXCEPT ![c] = @ \o SubSeq(s, 1, n)]
       /\ sbuf' = [sbuf EXCEPT ![c] = SubSeq(s, n + 1, Len(s))]
  /\ UNCHANGED <<nsent, nread, copen, sshut>>

\* close_conn: shut down the write side if the flush succeeds.
close_conn(c) ==
  \/ /\ Deliver(c, sbuf[c])
     /\ sshut' = [sshut EXCEPT ![c] = TRUE]
     /\ UNCHANGED <<nsent, nread, copen>>
  \/ write_fails(c, sbuf[c])
--------------------------------------------------------------------------------
\* The client writes its next request.
ClientSend(c) ==
  /\ copen[c]
  /\ nsent[c] < MaxReqs
  /\ nsent' = [nsent EXCEPT ![c] = @ + 1]
  /\ UNCHANGED <<nread, copen, sbuf, replies, sshut>>

\* The client closes the connection or dies.
ClientClose(c) ==
  /\ "close" \in SrvFaults
  /\ copen[c]
  /\ copen' = [copen EXCEPT ![c] = FALSE]
  /\ UNCHANGED <<nsent, nread, sbuf, replies, sshut>>
================================================================================
