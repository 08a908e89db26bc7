------------------------------ MODULE TcpClient ------------------------------
(***************************************************************************)
(* TcpClient (transport/tcp/src/client.rs) and what it talks to: the       *)
(* buffered socket and the peer.  A frame is named by its sequence number. *)
(* Requests wait in the write buffer until a flush (or a full buffer)      *)
(* sends them; the peer answers the requests it has in any order, may send *)
(* an answer twice, may stall a write until write_timeout, and may go away *)
(* at any moment.                                                          *)
(***************************************************************************)
EXTENDS Naturals, Sequences

CONSTANTS
  Faults,      \* what the environment may do: "stall", "close", and "split", let
               \* a header arrive in parts
  MaxFaults    \* bound: how often it stalls, closes or sends an answer twice

ASSUME TcpAssumption == Faults \subseteq {"stall", "close", "split"} /\ MaxFaults \in Nat

VARIABLES
  wbuf,      \* requests in AsyncBufStream's write buffer
  reqs,      \* requests the peer has and has not answered
  wire,      \* response frames on their way to the client, in order; 0 is the
             \* rest of one whose first bytes are lost
  up,        \* the peer keeps the connection open
  wshut,     \* the client has shut down its write side
  faults     \* how often the environment stalled, closed or repeated itself

tcpVars == <<wbuf, reqs, wire, up, wshut, faults>>

TcpTypeOK ==
  /\ wbuf \subseteq Nat
  /\ reqs \subseteq Nat
  /\ wire \in Seq(Nat)
  /\ up \in BOOLEAN
  /\ wshut \in BOOLEAN
  /\ faults \in Nat

TcpInit ==
  /\ wbuf = {}
  /\ reqs = {}
  /\ wire = <<>>
  /\ up = TRUE
  /\ wshut = FALSE
  /\ faults = 0

\* The requests of S leave the client; without a peer they are lost.
Send(S) ==
  /\ reqs' = IF up THEN reqs \cup S ELSE reqs
  /\ wbuf' = {}

Buffer(S) ==
  /\ wbuf' = wbuf \cup S
  /\ UNCHANGED reqs

\* write_req returning Ok.  Without need_flush the frame may stay buffered.
write_req(s, need_flush) ==
  /\ \/ ~wshut /\ Send(wbuf \cup {s})
     \/ ~need_flush /\ Buffer({s})
  /\ UNCHANGED <<wire, up, wshut, faults>>

\* flush returns Ok: an empty buffer needs no socket.
Flush == (wshut => wbuf = {}) /\ Send(wbuf)

flush_req == Flush /\ UNCHANGED <<wire, up, wshut, faults>>

\* A write or flush fails when the peer is gone, the write side was shut, or
\* write_timeout expires on a stalled peer; the frames may have left anyway.
io_error(S) ==
  /\ \/ (~up \/ wshut) /\ UNCHANGED faults
     \/ "stall" \in Faults /\ faults < MaxFaults /\ faults' = faults + 1
  /\ \/ Send(wbuf \cup S)
     \/ UNCHANGED <<reqs, wbuf>>
  /\ UNCHANGED <<wire, up, wshut>>

\* close_conn: shut down the write side if the flush succeeds.
close_conn ==
  \/ /\ Flush
     /\ wshut' = TRUE
     /\ UNCHANGED <<wire, up, faults>>
  \/ io_error({})

\* The next bytes to be read do not begin a frame.
Cut == wire # <<>> /\ Head(wire) = 0

\* A read of a header is abandoned: what it had read of it is gone.
AbandonHeader ==
  /\ \/ UNCHANGED wire
     \/ "split" \in Faults /\ wire # <<>> /\ wire' = <<0>> \o Tail(wire)
  /\ UNCHANGED <<wbuf, reqs, up, wshut, faults>>
--------------------------------------------------------------------------------
\* The peer answers request s, once or twice.
PeerRespond(s) ==
  /\ up
  /\ s \in reqs
  /\ \/ wire' = Append(wire, s) /\ UNCHANGED faults
     \/ faults < MaxFaults /\ faults' = faults + 1 /\ wire' = Append(Append(wire, s), s)
  /\ reqs' = reqs \ {s}
  /\ UNCHANGED <<wbuf, up, wshut>>

\* The peer closes or the connection breaks; what is in flight may be lost.
PeerClose ==
  /\ "close" \in Faults
  /\ up /\ faults < MaxFaults
  /\ up' = FALSE
  /\ faults' = faults + 1
  /\ reqs' = {}
  /\ \/ UNCHANGED wire
     \/ wire' = <<>>
  /\ UNCHANGED <<wbuf, wshut>>
================================================================================
