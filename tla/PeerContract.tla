----------------------------- MODULE PeerContract -----------------------------
(***************************************************************************)
(* What clients rely on from the server behind their connections: an       *)
(* answer belongs to a request that was received on the same connection,   *)
(* no request is answered twice, and the server ends a stream by itself    *)
(* only when it owes a client that is still there nothing: every request   *)
(* is answered, or the service has dropped it for good.                    *)
(***************************************************************************)
EXTENDS Naturals, Sequences, Functions

CONSTANT Peer    \* the connections

VARIABLES
  got,       \* for each of them, the requests received
  forgone,   \* those among them the service will not answer
  answers,   \* the answers that reached the client, in order
  there,     \* the client keeps the connection open
  ended      \* the server has ended the stream

contractVars == <<got, forgone, answers, there, ended>>

Init ==
  /\ got = [c \in Peer |-> {}]
  /\ forgone = [c \in Peer |-> {}]
  /\ answers = [c \in Peer |-> <<>>]
  /\ there = [c \in Peer |-> TRUE]
  /\ ended = [c \in Peer |-> FALSE]

Receive(c) ==
  /\ got[c] \subseteq got'[c]
  /\ got' = [got EXCEPT ![c] = got'[c]]
  /\ UNCHANGED <<forgone, answers, there, ended>>

\* The service drops requests it has not answered.
Forgo(c) ==
  /\ forgone[c] \subseteq forgone'[c] /\ forgone'[c] \subseteq got[c]
  /\ forgone'[c] \cap Range(answers[c]) = {}
  /\ forgone' = [forgone EXCEPT ![c] = forgone'[c]]
  /\ UNCHANGED <<got, answers, there, ended>>

\* The sequence t begins with s.
Begins(s, t) == Len(s) <= Len(t) /\ s = SubSeq(t, 1, Len(s))

\* Some answers arrive together.
Answer(c) ==
  /\ there[c] /\ ~ended[c]
  /\ Begins(answers[c], answers'[c])
  /\ IsInjective(answers'[c])
  /\ Range(answers'[c]) \subseteq got[c] \ forgone[c]
  /\ answers' = [answers EXCEPT ![c] = answers'[c]]
  /\ UNCHANGED <<got, forgone, there, ended>>

Leave(c) ==
  /\ there' = [there EXCEPT ![c] = FALSE]
  /\ UNCHANGED <<got, forgone, answers, ended>>

End(c) ==
  /\ there[c] => got[c] = Range(answers[c]) \cup forgone[c]
  /\ ended' = [ended EXCEPT ![c] = TRUE]
  /\ UNCHANGED <<got, forgone, answers, there>>

Next == \E c \in Peer : Receive(c) \/ Forgo(c) \/ Answer(c) \/ Leave(c) \/ End(c)

Spec == Init /\ [][Next]_contractVars
================================================================================
