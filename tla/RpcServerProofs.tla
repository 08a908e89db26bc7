--------------------------- MODULE RpcServerProofs ---------------------------
(***************************************************************************)
(* The safety of the server for every number of connections, listeners and *)
(* requests: replies are conserved and not left in a buffer, close() never *)
(* reports a quiet server that is not, and every connection implements     *)
(* PeerContract.                                                           *)
(***************************************************************************)
EXTENDS RpcServer, TLAPS

\* A step may use this fact and gains nothing from it, but a record update among its
\* facts spares tlapm the inference of types, which takes most of the time otherwise.
LEMMA RecordUpdate == \A r : [r EXCEPT !.field = 1] = [r EXCEPT !.field = 1]
OBVIOUS

USE RecordUpdate

(* What a channel holds, which is modelled as a sequence. *)

LEMMA SameSeq ==
  ASSUME NEW S, NEW s \in Seq(S), NEW t \in Seq(S), Len(s) = Len(t),
         \A i \in 1 .. Len(s) : s[i] = t[i]
  PROVE  s = t
<1>1. s \in [1 .. Len(s) -> S] /\ t \in [1 .. Len(t) -> S]
  OBVIOUS
<1> QED BY <1>1

\* An empty channel holds nothing, and nothing twice.
LEMMA RangeEmpty == Range(<<>>) = {} /\ IsInjective(<<>>)
BY DEF Range, IsInjective

\* Sending one element into a channel adds it to the channel's contents.
LEMMA RangeAppend ==
  ASSUME NEW S, NEW s \in Seq(S), NEW x \in S
  PROVE  Range(Append(s, x)) = Range(s) \cup {x}
<1>1. /\ Len(Append(s, x)) = Len(s) + 1
      /\ \A i \in 1 .. Len(s) : Append(s, x)[i] = s[i]
      /\ Append(s, x)[Len(s) + 1] = x
  OBVIOUS
<1>2. DOMAIN s = 1 .. Len(s) /\ DOMAIN Append(s, x) = 1 .. Len(s) + 1 /\ Len(s) \in Nat
  OBVIOUS
<1>3. ASSUME NEW y \in Range(Append(s, x)) PROVE y \in Range(s) \cup {x}
  BY <1>1, <1>2 DEF Range
<1>4. ASSUME NEW y \in Range(s) \cup {x} PROVE y \in Range(Append(s, x))
  BY <1>1, <1>2 DEF Range
<1> QED BY <1>3, <1>4

\* Sending an element that is not in the channel puts nothing there twice.
LEMMA InjAppend ==
  ASSUME NEW S, NEW s \in Seq(S), NEW x \in S, IsInjective(s), x \notin Range(s)
  PROVE  IsInjective(Append(s, x))
<1>1. DOMAIN s = 1 .. Len(s) /\ DOMAIN Append(s, x) = 1 .. Len(s) + 1 /\ Len(s) \in Nat
  OBVIOUS
<1>2. /\ \A i \in 1 .. Len(s) : Append(s, x)[i] = s[i]
      /\ Append(s, x)[Len(s) + 1] = x
  OBVIOUS
<1>3. \A i \in 1 .. Len(s) : s[i] # x
  BY <1>1 DEF Range
<1> QED BY <1>1, <1>2, <1>3 DEF IsInjective

\* Joining two buffers.
LEMMA RangeConcat ==
  ASSUME NEW S, NEW s \in Seq(S), NEW t \in Seq(S)
  PROVE  Range(s \o t) = Range(s) \cup Range(t)
<1> DEFINE u == s \o t
<1>1. /\ DOMAIN s = 1 .. Len(s) /\ DOMAIN t = 1 .. Len(t) /\ Len(s) \in Nat /\ Len(t) \in Nat
      /\ DOMAIN u = 1 .. Len(s) + Len(t)
  OBVIOUS
<1>2. /\ \A i \in 1 .. Len(s) : u[i] = s[i]
      /\ \A i \in 1 .. Len(t) : u[Len(s) + i] = t[i]
  OBVIOUS
<1>3. ASSUME NEW i \in 1 .. Len(s) + Len(t) PROVE u[i] \in Range(s) \cup Range(t)
  <2>1. CASE i <= Len(s)
    BY <2>1, <1>1, <1>2 DEF Range
  <2>2. CASE i > Len(s)
    <3>1. i - Len(s) \in 1 .. Len(t) /\ i = Len(s) + (i - Len(s))
      BY <2>2, <1>1
    <3>2. u[i] = t[i - Len(s)]
      BY <3>1, <1>2
    <3> QED BY <3>1, <3>2, <1>1 DEF Range
  <2> QED BY <2>1, <2>2, <1>1
<1>4. ASSUME NEW i \in 1 .. Len(s) PROVE s[i] \in Range(u)
  <2>1. i \in DOMAIN u /\ u[i] = s[i]
    BY <1>1, <1>2
  <2> QED BY <2>1 DEF Range
<1>5. ASSUME NEW i \in 1 .. Len(t) PROVE t[i] \in Range(u)
  <2>1. Len(s) + i \in DOMAIN u /\ u[Len(s) + i] = t[i]
    BY <1>1, <1>2
  <2> QED BY <2>1 DEF Range
<1>6. Range(u) \subseteq Range(s) \cup Range(t)
  BY <1>1, <1>3 DEF Range
<1>7. Range(s) \subseteq Range(u) /\ Range(t) \subseteq Range(u)
  BY <1>1, <1>4, <1>5, SMTT(20) DEF Range
<1> QED BY <1>6, <1>7

\* Joining two buffers that share nothing puts nothing there twice.
LEMMA InjConcat ==
  ASSUME NEW S, NEW s \in Seq(S), NEW t \in Seq(S),
         IsInjective(s), IsInjective(t), Range(s) \cap Range(t) = {}
  PROVE  IsInjective(s \o t)
<1> DEFINE u == s \o t
<1>1. /\ DOMAIN s = 1 .. Len(s) /\ DOMAIN t = 1 .. Len(t) /\ Len(s) \in Nat /\ Len(t) \in Nat
      /\ DOMAIN u = 1 .. Len(s) + Len(t)
  OBVIOUS
<1>2. /\ \A i \in 1 .. Len(s) : u[i] = s[i]
      /\ \A i \in 1 .. Len(t) : u[Len(s) + i] = t[i]
  OBVIOUS
<1>3. \A i \in 1 .. Len(s), j \in 1 .. Len(t) : s[i] # t[j]
  BY <1>1 DEF Range
<1>4. \A i \in 1 .. Len(s) + Len(t) :
        i > Len(s) => i - Len(s) \in 1 .. Len(t) /\ u[i] = t[i - Len(s)]
  <2>1. ASSUME NEW i \in 1 .. Len(s) + Len(t), i > Len(s)
        PROVE  i - Len(s) \in 1 .. Len(t) /\ u[i] = t[i - Len(s)]
    <3>1. i - Len(s) \in 1 .. Len(t) /\ Len(s) + (i - Len(s)) = i
      BY <2>1, <1>1
    <3> QED BY <3>1, <1>2
  <2> QED BY <2>1
<1> SUFFICES ASSUME NEW i \in 1 .. Len(s) + Len(t), NEW j \in 1 .. Len(s) + Len(t),
                    u[i] = u[j]
             PROVE  i = j
  BY <1>1 DEF IsInjective
<1> HIDE DEF u
<1>5. CASE i <= Len(s) /\ j <= Len(s)
  BY <1>5, <1>1, <1>2 DEF IsInjective
<1>6. CASE i > Len(s) /\ j > Len(s)
  <2>1. i - Len(s) = j - Len(s)
    BY <1>6, <1>1, <1>4 DEF IsInjective
  <2> QED BY <2>1, <1>1
<1>7. CASE i <= Len(s) /\ j > Len(s)
  BY <1>7, <1>1, <1>2, <1>3, <1>4
<1>8. CASE i > Len(s) /\ j <= Len(s)
  BY <1>8, <1>1, <1>2, <1>3, <1>4
<1> QED BY <1>5, <1>6, <1>7, <1>8, <1>1

\* Receiving from a channel takes away its head and nothing else.
LEMMA Received ==
  ASSUME NEW S, NEW s \in Seq(S), s # <<>>
  PROVE  /\ Head(s) \in S /\ Tail(s) \in Seq(S)
         /\ Range(s) = {Head(s)} \cup Range(Tail(s))
         /\ IsInjective(s) => IsInjective(Tail(s)) /\ Head(s) \notin Range(Tail(s))
<1> DEFINE t == Tail(s)
<1>1. /\ Head(s) \in S /\ t \in Seq(S) /\ Head(s) = s[1] /\ Len(s) \in Nat /\ Len(s) > 0
      /\ DOMAIN s = 1 .. Len(s) /\ DOMAIN t = 1 .. Len(s) - 1
      /\ \A i \in 1 .. Len(s) - 1 : t[i] = s[i + 1]
  OBVIOUS
<1> HIDE DEF t
<1>2. \A i \in 1 .. Len(s) : i = 1 \/ (i - 1 \in 1 .. Len(s) - 1 /\ s[i] = t[i - 1])
  <2>1. ASSUME NEW i \in 1 .. Len(s), i # 1 PROVE i - 1 \in 1 .. Len(s) - 1 /\ s[i] = t[i - 1]
    <3>1. i - 1 \in 1 .. Len(s) - 1 /\ (i - 1) + 1 = i
      BY <2>1, <1>1
    <3> QED BY <3>1, <1>1
  <2> QED BY <2>1
<1>3. Range(s) \subseteq {Head(s)} \cup Range(t)
  BY <1>1, <1>2 DEF Range
<1>4. Head(s) \in Range(s)
  BY <1>1 DEF Range
<1>5. Range(t) \subseteq Range(s)
  <2>1. ASSUME NEW i \in 1 .. Len(s) - 1 PROVE i + 1 \in DOMAIN s /\ t[i] = s[i + 1]
    BY <1>1
  <2> QED BY <2>1, <1>1 DEF Range
<1>6. ASSUME IsInjective(s) PROVE IsInjective(t) /\ Head(s) \notin Range(t)
  <2>1. ASSUME NEW i \in 1 .. Len(s) - 1, NEW j \in 1 .. Len(s) - 1, t[i] = t[j]
        PROVE  i = j
    <3>1. i + 1 \in DOMAIN s /\ j + 1 \in DOMAIN s /\ s[i + 1] = s[j + 1]
      BY <1>1, <2>1
    <3>2. i + 1 = j + 1
      BY <3>1, <1>6 DEF IsInjective
    <3> QED BY <3>2
  <2>2. ASSUME NEW i \in 1 .. Len(s) - 1 PROVE t[i] # Head(s)
    <3>1. i + 1 \in DOMAIN s /\ 1 \in DOMAIN s /\ i + 1 # 1 /\ t[i] = s[i + 1]
      BY <1>1
    <3> QED BY <3>1, <1>1, <1>6 DEF IsInjective
  <2> QED BY <2>1, <2>2, <1>1 DEF IsInjective, Range
<1> QED BY <1>1, <1>3, <1>4, <1>5, <1>6 DEF t

\* Cutting a buffer in two: a write that fails midway.
LEMMA Cut ==
  ASSUME NEW S, NEW s \in Seq(S), NEW n \in 0 .. Len(s)
  PROVE  /\ SubSeq(s, 1, n) \in Seq(S) /\ SubSeq(s, n + 1, Len(s)) \in Seq(S)
         /\ Range(SubSeq(s, 1, n)) \cup Range(SubSeq(s, n + 1, Len(s))) = Range(s)
         /\ IsInjective(s) => /\ IsInjective(SubSeq(s, 1, n))
                              /\ IsInjective(SubSeq(s, n + 1, Len(s)))
                              /\ Range(SubSeq(s, 1, n)) \cap Range(SubSeq(s, n + 1, Len(s))) = {}
<1> DEFINE a == SubSeq(s, 1, n)
           b == SubSeq(s, n + 1, Len(s))
<1>1. /\ Len(s) \in Nat /\ n \in Nat /\ n <= Len(s) /\ DOMAIN s = 1 .. Len(s)
      /\ \A i \in 1 .. Len(s) : s[i] \in S
  OBVIOUS
<1>2. a \in Seq(S) /\ DOMAIN a = 1 .. n /\ \A i \in 1 .. n : a[i] = s[i]
  BY <1>1
<1>3. b \in Seq(S) /\ DOMAIN b = 1 .. Len(s) - n /\ \A i \in 1 .. Len(s) - n : b[i] = s[n + i]
  <2>a. n + 1 \in Int /\ Len(s) \in Int /\ \A i \in n + 1 .. Len(s) : s[i] \in S
    BY <1>1
  <2>b. b \in Seq(S) /\ Len(b) = IF n + 1 <= Len(s) THEN Len(s) - (n + 1) + 1 ELSE 0
    BY <2>a
  <2>1. Len(b) = Len(s) - n
    <3> HIDE DEF b
    <3>1. CASE n < Len(s)
      <4>1. Len(s) - (n + 1) + 1 = Len(s) - n /\ n + 1 <= Len(s)
        BY <1>1, <3>1
      <4> QED BY <2>b, <3>1, <4>1
    <3>2. CASE n = Len(s)
      <4>1. Len(s) - n = 0 /\ ~(n + 1 <= Len(s))
        BY <1>1, <3>2
      <4> QED BY <2>b, <3>2, <4>1
    <3>3. n < Len(s) \/ n = Len(s)
      OBVIOUS
    <3> QED BY <3>1, <3>2, <3>3
  <2>2. ASSUME NEW i \in 1 .. Len(s) - n PROVE b[i] = s[n + i]
    <3>1. i \in 1 .. Len(s) - (n + 1) + 1
      BY <1>1
    <3>2. b[i] = s[(n + 1) + i - 1]
      BY <3>1, <2>a, SMTT(20)
    <3>3. (n + 1) + i - 1 = n + i
      BY <1>1
    <3> QED BY <3>2, <3>3
  <2> QED BY <2>b, <2>1, <2>2
<1> HIDE DEF a, b
<1>4. \A i \in 1 .. Len(s) :
        i <= n \/ (i - n \in 1 .. Len(s) - n /\ b[i - n] = s[i])
  <2>1. ASSUME NEW i \in 1 .. Len(s), i > n
        PROVE  i - n \in 1 .. Len(s) - n /\ b[i - n] = s[i]
    <3>1. i - n \in 1 .. Len(s) - n /\ n + (i - n) = i
      BY <2>1, <1>1
    <3> QED BY <3>1, <1>3
  <2> QED BY <2>1, <1>1
<1>5. Range(s) \subseteq Range(a) \cup Range(b)
  BY <1>1, <1>2, <1>3, <1>4 DEF Range
<1>6. \A i \in 1 .. n : i \in DOMAIN s
  BY <1>1
<1>7. \A i \in 1 .. Len(s) - n : n + i \in DOMAIN s
  BY <1>1
<1>8. Range(a) \subseteq Range(s) /\ Range(b) \subseteq Range(s)
  BY <1>2, <1>3, <1>6, <1>7 DEF Range
<1>9. ASSUME IsInjective(s)
      PROVE  IsInjective(a) /\ IsInjective(b) /\ Range(a) \cap Range(b) = {}
  <2>1. IsInjective(a)
    BY <1>2, <1>6, <1>9 DEF IsInjective
  <2>2. ASSUME NEW i \in 1 .. Len(s) - n, NEW j \in 1 .. Len(s) - n, b[i] = b[j]
        PROVE  i = j
    <3>1. n + i = n + j
      BY <2>2, <1>3, <1>7, <1>9 DEF IsInjective
    <3> QED BY <3>1, <1>1
  <2>3. ASSUME NEW i \in 1 .. n, NEW j \in 1 .. Len(s) - n PROVE a[i] # b[j]
    <3>1. i # n + j
      BY <1>1
    <3> QED BY <3>1, <1>2, <1>3, <1>6, <1>7, <1>9 DEF IsInjective
  <2>4. IsInjective(b)
    BY <2>2, <1>3 DEF IsInjective
  <2>5. Range(a) \cap Range(b) = {}
    BY <2>3, <1>2, <1>3 DEF Range
  <2> QED BY <2>1, <2>4, <2>5
<1>10. /\ a \in Seq(S) /\ b \in Seq(S) /\ Range(a) \cup Range(b) = Range(s)
       /\ IsInjective(s) => /\ IsInjective(a) /\ IsInjective(b)
                            /\ Range(a) \cap Range(b) = {}
  BY <1>2, <1>3, <1>5, <1>8, <1>9
<1> QED BY <1>10 DEF a, b

\* The sequence t begins with s.
Begins(s, t) == Len(s) <= Len(t) /\ s = SubSeq(t, 1, Len(s))

\* A sequence begins with itself.
LEMMA PrefixSelf ==
  ASSUME NEW S, NEW s \in Seq(S)
  PROVE  Begins(s, s)
<1>1. SubSeq(s, 1, Len(s)) = s
  BY SameSeq
<1> QED BY <1>1 DEF Begins

\* What was delivered stays in front when more is.
LEMMA PrefixConcat ==
  ASSUME NEW S, NEW s \in Seq(S), NEW t \in Seq(S)
  PROVE  Begins(s, s \o t)
<1>1. Len(s) <= Len(s \o t) /\ s \o t \in Seq(S)
  OBVIOUS
<1>2. SubSeq(s \o t, 1, Len(s)) = s
  BY <1>1, SameSeq
<1> QED BY <1>1, <1>2 DEF Begins

--------------------------------------------------------------------------------

\* No reply is twice among those delivered (a), buffered (b) and queued (d).
Distinct(a, b, d) ==
  /\ IsInjective(a) /\ IsInjective(b) /\ IsInjective(d)
  /\ Range(a) \cap Range(b) = {} /\ Range(a) \cap Range(d) = {} /\ Range(b) \cap Range(d) = {}

All(a, b, d) == Range(a) \cup Range(b) \cup Range(d)

\* The requests whose reply is on its way or delivered.
Out(c) == All(replies[c], sbuf[c], done_rx[c])

\* Every request that was read is in one place: with the reader that is about
\* to dispatch it, in a handler, among the replies, or dropped by its handler.
Placed(c) ==
  /\ Distinct(replies[c], sbuf[c], done_rx[c])
  /\ Out(c) \cap running[c] = {} /\ Out(c) \cap forgone[c] = {} /\ running[c] \cap forgone[c] = {}
  /\ Out(c) \subseteq 1 .. nread[c] /\ running[c] \subseteq 1 .. nread[c]
  /\ forgone[c] \subseteq 1 .. nread[c]
  /\ (rdr[c] = "dispatch" => /\ nread[c] > 0 /\ nread[c] \notin Out(c)
                              /\ nread[c] \notin running[c] /\ nread[c] \notin forgone[c])
  /\ (rdr[c] = "serve" => nread[c] \in running[c])

\* None has been lost while the client is there and the writer has not failed.
Covered(c) ==
  (copen[c] /\ ~broken[c]) =>
    \A r \in 1 .. nread[c] : \/ r \in Out(c) \/ r \in running[c] \/ r \in forgone[c]
                             \/ (rdr[c] = "dispatch" /\ r = nread[c])

\* How the coroutines of a connection stand to one another: a writer that has
\* stopped without an error was the last, and one that waits has flushed.
Shape(c) ==
  /\ ((wtr[c] = "gone" /\ ~broken[c]) => (rdr[c] = "gone" /\ running[c] = {}))
  /\ (broken[c] => wtr[c] = "gone")
  /\ (sshut[c] => wtr[c] = "gone")
  /\ (wtr[c] \in {"none", "recv"} => sbuf[c] = <<>>)
  /\ nread[c] <= nsent[c]
  /\ (rdr[c] = "body" => nread[c] < nsent[c])

ConnInv(c) == Placed(c) /\ Covered(c) /\ Shape(c)

\* A connection no coroutine has been started for has none, and one listener
\* at most holds it.
Listening ==
  /\ \A c \in backlog : rdr[c] = "none" /\ wtr[c] = "none"
  /\ \A l \in Listener : \A c \in fresh[l] : rdr[c] = "none" /\ wtr[c] = "none" /\ c \notin backlog
  /\ \A l, m \in Listener : l # m => fresh[l] \cap fresh[m] = {}

\* close() sleeps only while server_close_wait is not over.
Patience == cpc = "sleep" => waited <= CloseWait

Inv == TypeOK /\ (\A c \in Conn : ConnInv(c)) /\ Listening /\ Patience /\ ClosedQuiet
--------------------------------------------------------------------------------
(* Moving replies between the places.                                        *)

\* RespNoti::done and send_quick_resp: a reply that is nowhere is queued.
LEMMA Queue ==
  ASSUME NEW a \in Seq(Req), NEW b \in Seq(Req), NEW d \in Seq(Req), NEW r \in Req,
         Distinct(a, b, d), r \notin All(a, b, d)
  PROVE  /\ Append(d, r) \in Seq(Req) /\ Distinct(a, b, Append(d, r))
         /\ All(a, b, Append(d, r)) = All(a, b, d) \cup {r}
<1>1. Range(Append(d, r)) = Range(d) \cup {r}
  BY RangeAppend
<1>2. IsInjective(Append(d, r))
  BY InjAppend DEF Distinct, All
<1> QED BY <1>1, <1>2 DEF Distinct, All

\* The writer takes the next reply from the queue and writes it to the buffer.
LEMMA Buffer ==
  ASSUME NEW a \in Seq(Req), NEW b \in Seq(Req), NEW d \in Seq(Req), d # <<>>,
         Distinct(a, b, d)
  PROVE  /\ Append(b, Head(d)) \in Seq(Req) /\ Tail(d) \in Seq(Req)
         /\ Distinct(a, Append(b, Head(d)), Tail(d))
         /\ All(a, Append(b, Head(d)), Tail(d)) = All(a, b, d)
<1>1. /\ Head(d) \in Req /\ Tail(d) \in Seq(Req)
      /\ Range(d) = {Head(d)} \cup Range(Tail(d))
      /\ IsInjective(Tail(d)) /\ Head(d) \notin Range(Tail(d))
  BY Received DEF Distinct
<1>2. Range(Append(b, Head(d))) = Range(b) \cup {Head(d)}
  BY <1>1, RangeAppend
<1>3. IsInjective(Append(b, Head(d)))
  BY <1>1, InjAppend DEF Distinct
<1>4. Append(b, Head(d)) \in Seq(Req)
  BY <1>1
<1> QED BY <1>1, <1>2, <1>3, <1>4 DEF Distinct, All

\* A flush hands the buffer to the client, or loses it with the client gone.
LEMMA FlushAway ==
  ASSUME NEW a \in Seq(Req), NEW b \in Seq(Req), NEW d \in Seq(Req), Distinct(a, b, d)
  PROVE  /\ a \o b \in Seq(Req) /\ Begins(a, a \o b)
         /\ Distinct(a \o b, <<>>, d) /\ All(a \o b, <<>>, d) = All(a, b, d)
         /\ Distinct(a, <<>>, d) /\ All(a, <<>>, d) \subseteq All(a, b, d)
<1>1. Range(a \o b) = Range(a) \cup Range(b) /\ Begins(a, a \o b)
  BY RangeConcat, PrefixConcat
<1>2. IsInjective(a \o b)
  BY InjConcat DEF Distinct
<1>3. Range(<<>>) = {} /\ IsInjective(<<>>)
  BY RangeEmpty
<1>4. a \o b \in Seq(Req)
  OBVIOUS
<1> QED BY <1>1, <1>2, <1>3, <1>4 DEF Distinct, All

\* A write that fails midway, after which the queue is dropped.
LEMMA FailAway ==
  ASSUME NEW a \in Seq(Req), NEW b \in Seq(Req), NEW d \in Seq(Req), Distinct(a, b, d),
         NEW n \in 0 .. Len(b)
  PROVE  LET p == SubSeq(b, 1, n)
             q == SubSeq(b, n + 1, Len(b))
         IN  /\ a \o p \in Seq(Req) /\ q \in Seq(Req) /\ Begins(a, a \o p)
             /\ Distinct(a \o p, q, <<>>) /\ All(a \o p, q, <<>>) \subseteq All(a, b, d)
             /\ Distinct(a \o p, q, d) /\ All(a \o p, q, d) = All(a, b, d)
<1> DEFINE p == SubSeq(b, 1, n)
           q == SubSeq(b, n + 1, Len(b))
<1>1. /\ p \in Seq(Req) /\ q \in Seq(Req) /\ Range(p) \cup Range(q) = Range(b)
      /\ IsInjective(p) /\ IsInjective(q) /\ Range(p) \cap Range(q) = {}
  BY Cut DEF Distinct
<1> HIDE DEF p, q
<1>2. Range(a \o p) = Range(a) \cup Range(p) /\ Begins(a, a \o p)
  BY <1>1, RangeConcat, PrefixConcat
<1>3. IsInjective(a \o p)
  BY <1>1, InjConcat DEF Distinct
<1>4. Range(<<>>) = {} /\ IsInjective(<<>>)
  BY RangeEmpty
<1>5. a \o p \in Seq(Req)
  BY <1>1
<1>6. /\ Distinct(a \o p, q, <<>>) /\ All(a \o p, q, <<>>) \subseteq All(a, b, d)
      /\ Distinct(a \o p, q, d) /\ All(a \o p, q, d) = All(a, b, d)
  BY <1>1, <1>2, <1>3, <1>4 DEF Distinct, All
<1> QED BY <1>1, <1>2, <1>5, <1>6 DEF p, q
--------------------------------------------------------------------------------
(* What the socket operations do.                                            *)

\* What the socket operations do to the replies of their connection, and that
\* they leave the other connections alone.
Written(c) ==
  /\ replies' = [replies EXCEPT ![c] = replies'[c]] /\ replies'[c] \in Seq(Req)
  /\ sbuf' = [sbuf EXCEPT ![c] = sbuf'[c]] /\ sbuf'[c] \in Seq(Req)
  /\ Begins(replies[c], replies'[c])
  /\ (~copen[c] => replies'[c] = replies[c])

\* A reply is written.
LEMMA WriteRespSock ==
  ASSUME TypeOK, NEW c \in Conn, NEW d \in Seq(Req), d # <<>>,
         Distinct(replies[c], sbuf[c], d), write_resp(c, Head(d))
  PROVE  /\ Written(c) /\ Distinct(replies'[c], sbuf'[c], Tail(d))
         /\ All(replies'[c], sbuf'[c], Tail(d)) \subseteq All(replies[c], sbuf[c], d)
         /\ (copen[c] => All(replies'[c], sbuf'[c], Tail(d)) = All(replies[c], sbuf[c], d))
<1> DEFINE a == replies[c]
           b == Append(sbuf[c], Head(d))
<1>1. a \in Seq(Req) /\ sbuf[c] \in Seq(Req) /\ copen[c] \in BOOLEAN
      /\ replies \in [Conn -> Seq(Req)] /\ sbuf \in [Conn -> Seq(Req)]
  BY DEF TypeOK, SocketTypeOK
<1>2. /\ b \in Seq(Req) /\ Tail(d) \in Seq(Req) /\ Distinct(a, b, Tail(d))
      /\ All(a, b, Tail(d)) = All(replies[c], sbuf[c], d)
  BY <1>1, Buffer
<1>3. /\ a \o b \in Seq(Req) /\ Begins(a, a \o b)
      /\ Distinct(a \o b, <<>>, Tail(d)) /\ All(a \o b, <<>>, Tail(d)) = All(a, b, Tail(d))
      /\ Distinct(a, <<>>, Tail(d)) /\ All(a, <<>>, Tail(d)) \subseteq All(a, b, Tail(d))
  BY <1>1, <1>2, FlushAway, Zenon
<1>4. Begins(a, a) /\ <<>> \in Seq(Req)
  BY <1>1 DEF Begins
<1> HIDE DEF b
<1>5. CASE sbuf' = [sbuf EXCEPT ![c] = Append(@, Head(d))] /\ UNCHANGED replies
  <2>1. sbuf'[c] = b /\ replies' = replies /\ sbuf' = [sbuf EXCEPT ![c] = sbuf'[c]]
    BY <1>5, <1>1 DEF b
  <2>2. replies' = [replies EXCEPT ![c] = replies'[c]]
    BY <2>1, <1>1
  <2> QED BY <2>1, <2>2, <1>1, <1>2, <1>4 DEF Written
<1>6. CASE Deliver(c, Append(sbuf[c], Head(d)))
  <2>1. /\ sbuf'[c] = <<>> /\ sbuf' = [sbuf EXCEPT ![c] = sbuf'[c]]
        /\ replies' = [replies EXCEPT ![c] = replies'[c]]
        /\ replies'[c] = IF copen[c] THEN a \o b ELSE a
    BY <1>6, <1>1 DEF Deliver, b
  <2>2. CASE copen[c]
    BY <2>1, <2>2, <1>1, <1>2, <1>3, <1>4 DEF Written
  <2>3. CASE ~copen[c]
    BY <2>1, <2>3, <1>1, <1>2, <1>3, <1>4 DEF Written
  <2> QED BY <2>2, <2>3
<1> QED BY <1>5, <1>6 DEF write_resp

\* The buffer is flushed.
LEMMA DeliverSock ==
  ASSUME TypeOK, NEW c \in Conn, NEW d \in Seq(Req),
         Distinct(replies[c], sbuf[c], d), Deliver(c, sbuf[c])
  PROVE  /\ Written(c) /\ Distinct(replies'[c], sbuf'[c], d) /\ sbuf'[c] = <<>>
         /\ All(replies'[c], sbuf'[c], d) \subseteq All(replies[c], sbuf[c], d)
         /\ (copen[c] => All(replies'[c], sbuf'[c], d) = All(replies[c], sbuf[c], d))
         /\ (sbuf[c] = <<>> => replies'[c] = replies[c])
<1> DEFINE a == replies[c]
           b == sbuf[c]
<1>1. a \in Seq(Req) /\ b \in Seq(Req) /\ copen[c] \in BOOLEAN
      /\ replies \in [Conn -> Seq(Req)] /\ sbuf \in [Conn -> Seq(Req)]
  BY DEF TypeOK, SocketTypeOK
<1>2. /\ a \o b \in Seq(Req) /\ Begins(a, a \o b)
      /\ Distinct(a \o b, <<>>, d) /\ All(a \o b, <<>>, d) = All(a, b, d)
      /\ Distinct(a, <<>>, d) /\ All(a, <<>>, d) \subseteq All(a, b, d)
  BY <1>1, FlushAway
<1>3. Begins(a, a) /\ <<>> \in Seq(Req) /\ (b = <<>> => a \o b = a)
  BY <1>1 DEF Begins
<1>4. /\ sbuf'[c] = <<>> /\ sbuf' = [sbuf EXCEPT ![c] = sbuf'[c]]
      /\ replies' = [replies EXCEPT ![c] = replies'[c]]
      /\ replies'[c] = IF copen[c] THEN a \o b ELSE a
  BY <1>1 DEF Deliver
<1>5. CASE copen[c]
  BY <1>5, <1>1, <1>2, <1>3, <1>4 DEF Written
<1>6. CASE ~copen[c]
  BY <1>6, <1>1, <1>2, <1>3, <1>4 DEF Written
<1> QED BY <1>5, <1>6

\* A write or a flush of s, the buffer and perhaps one reply more, fails.
LEMMA FailsSock ==
  ASSUME TypeOK, NEW c \in Conn, NEW s \in Seq(Req), NEW d \in Seq(Req),
         Distinct(replies[c], s, d), write_fails(c, s)
  PROVE  /\ Written(c)
         /\ Distinct(replies'[c], sbuf'[c], <<>>)
         /\ All(replies'[c], sbuf'[c], <<>>) \subseteq All(replies[c], s, d)
         /\ Distinct(replies'[c], sbuf'[c], d)
         /\ All(replies'[c], sbuf'[c], d) = All(replies[c], s, d)
         /\ (s = <<>> => replies'[c] = replies[c] /\ sbuf'[c] = <<>>)
<1> DEFINE a == replies[c]
<1>1. a \in Seq(Req) /\ copen[c] \in BOOLEAN
      /\ replies \in [Conn -> Seq(Req)] /\ sbuf \in [Conn -> Seq(Req)]
  BY DEF TypeOK, SocketTypeOK
<1>2. PICK n \in 0 .. Len(s) :
        /\ (n > 0 => copen[c])
        /\ replies' = [replies EXCEPT ![c] = @ \o SubSeq(s, 1, n)]
        /\ sbuf' = [sbuf EXCEPT ![c] = SubSeq(s, n + 1, Len(s))]
  BY Zenon DEF write_fails
<1> DEFINE p == SubSeq(s, 1, n)
           q == SubSeq(s, n + 1, Len(s))
<1>3. /\ a \o p \in Seq(Req) /\ q \in Seq(Req) /\ Begins(a, a \o p)
      /\ Distinct(a \o p, q, <<>>) /\ All(a \o p, q, <<>>) \subseteq All(a, s, d)
      /\ Distinct(a \o p, q, d) /\ All(a \o p, q, d) = All(a, s, d)
  BY <1>1, FailAway
<1>4. n = 0 => a \o p = a
  <2>1. n = 0 => p = <<>>
    OBVIOUS
  <2> QED BY <2>1, <1>1
<1>5. s = <<>> => n = 0 /\ q = <<>>
  OBVIOUS
<1> HIDE DEF p, q
<1>6. /\ replies'[c] = a \o p /\ sbuf'[c] = q
      /\ replies' = [replies EXCEPT ![c] = replies'[c]]
      /\ sbuf' = [sbuf EXCEPT ![c] = sbuf'[c]]
  BY <1>1, <1>2, Zenon DEF p, q
<1>7. n = 0 \/ n > 0
  OBVIOUS
<1>8. Written(c)
  BY <1>2, <1>3, <1>4, <1>6, <1>7, Zenon DEF Written
<1> QED BY <1>3, <1>4, <1>5, <1>6, <1>8
--------------------------------------------------------------------------------
(* The steps of a connection.                                                *)

\* The part of the state that belongs to connection c.
At(c) == <<nsent[c], nread[c], copen[c], sbuf[c], replies[c], sshut[c],
           rdr[c], running[c], forgone[c], done_rx[c], wtr[c], broken[c]>>

Others(c) == \A d \in Conn \ {c} : At(d)' = At(d)

\* The invariant of a connection is its own affair.
LEMMA ConnFrame ==
  ASSUME NEW c \in Conn, ConnInv(c), At(c)' = At(c)
  PROVE  ConnInv(c)'
BY DEF ConnInv, Placed, Covered, Shape, Out, At

LEMMA OthersKeep ==
  ASSUME NEW c \in Conn, \A d \in Conn : ConnInv(d), ConnInv(c)', Others(c)
  PROVE  \A d \in Conn : ConnInv(d)'
BY ConnFrame DEF Others

\* ClientSend, ClientClose: more to read, or nobody to answer.
LEMMA ClientInv ==
  ASSUME Inv, NEW c \in Conn, ClientSend(c) \/ ClientClose(c),
         UNCHANGED connVars
  PROVE  ConnInv(c)' /\ Others(c)
<1> USE DEF Inv, TypeOK, SocketTypeOK, connVars
<1>1. CASE ClientSend(c)
  <2>1. Others(c)
    BY <1>1 DEF ClientSend, Others, At
  <2>2. nsent'[c] = nsent[c] + 1 /\ nread'[c] = nread[c] /\ copen' = copen
        /\ nread[c] \in Nat /\ nsent[c] \in Nat
    BY <1>1 DEF ClientSend
  <2> QED BY <1>1, <2>1, <2>2 DEF ClientSend, ConnInv, Placed, Covered, Shape, Out
<1>2. CASE ClientClose(c)
  <2>1. Others(c)
    BY <1>2 DEF ClientClose, Others, At
  <2>2. copen'[c] = FALSE
    BY <1>2 DEF ClientClose
  <2> QED BY <1>2, <2>1, <2>2 DEF ClientClose, ConnInv, Placed, Covered, Shape, Out
<1> QED BY <1>1, <1>2

\* The reader waits, gives up, or has the whole of the next request.
LEMMA ReadInv ==
  ASSUME Inv, NEW c \in Conn,
         ReadHead(c) \/ ReadHeadEnds(c) \/ ReadBody(c) \/ ReadBodyFails(c)
  PROVE  ConnInv(c)' /\ Others(c)
<1> USE DEF Inv, TypeOK, SocketTypeOK, socketVars
<1>1. CASE ReadHead(c)
  <2>1. Others(c) /\ rdr'[c] = "body" /\ nread[c] < nsent[c]
    BY <1>1 DEF ReadHead, Others, At
  <2> QED BY <1>1, <2>1 DEF ReadHead, ConnInv, Placed, Covered, Shape, Out
<1>2. CASE ReadHeadEnds(c) \/ ReadBodyFails(c)
  <2>1. Others(c) /\ rdr'[c] = "gone" /\ rdr[c] # "dispatch"
    BY <1>2 DEF ReadHeadEnds, ReadBodyFails, Others, At
  <2> QED BY <1>2, <2>1 DEF ReadHeadEnds, ReadBodyFails, ConnInv, Placed, Covered, Shape, Out
<1>3. CASE ReadBody(c)
  <2>1. Others(c) /\ rdr[c] = "body" /\ rdr'[c] = "dispatch" /\ nread'[c] = nread[c] + 1
    BY <1>3 DEF ReadBody, Others, At
  <2>2. /\ sbuf' = sbuf /\ replies' = replies /\ done_rx' = done_rx /\ running' = running
        /\ forgone' = forgone /\ copen' = copen /\ broken' = broken /\ wtr' = wtr /\ nsent' = nsent /\ sshut' = sshut
        /\ nread[c] \in Nat /\ nsent[c] \in Nat
    BY <1>3 DEF ReadBody
  <2>3. Out(c)' = Out(c)
    BY <2>2 DEF Out
  <2>4. Placed(c) /\ Covered(c) /\ Shape(c)
    BY DEF ConnInv
  <2>5. nread[c] + 1 \notin 1 .. nread[c] /\ 1 .. nread[c] \subseteq 1 .. nread[c] + 1
    BY <2>2
  <2>6. Placed(c)'
    BY <2>1, <2>2, <2>3, <2>4, <2>5 DEF Placed
  <2>7. Shape(c)'
    BY <2>1, <2>2, <2>4 DEF Shape
  <2>8. Covered(c)'
    <3> SUFFICES ASSUME copen[c], ~broken[c], NEW r \in 1 .. nread[c] + 1
                 PROVE  r \in Out(c) \/ r \in running[c] \/ r \in forgone[c] \/ r = nread[c] + 1
      BY <2>1, <2>2, <2>3 DEF Covered
    <3>1. r = nread[c] + 1 \/ r \in 1 .. nread[c]
      BY <2>2
    <3> QED BY <3>1, <2>1, <2>4 DEF Covered
  <2> QED BY <2>1, <2>6, <2>7, <2>8 DEF ConnInv
<1> QED BY <1>1, <1>2, <1>3

\* A reply enters the queue.
LEMMA Queued ==
  ASSUME Inv, NEW c \in Conn, NEW r \in 1 .. nread[c], r \notin Out(c),
         done_rx' = [done_rx EXCEPT ![c] = Append(@, r)], UNCHANGED socketVars
  PROVE  /\ done_rx'[c] \in Seq(Req) /\ Distinct(replies[c], sbuf[c], done_rx'[c])
         /\ Out(c)' = Out(c) \cup {r}
<1>1. /\ r \in Req /\ replies[c] \in Seq(Req) /\ sbuf[c] \in Seq(Req) /\ done_rx[c] \in Seq(Req)
      /\ Distinct(replies[c], sbuf[c], done_rx[c])
  BY TcpServerAssumption DEF Inv, TypeOK, SocketTypeOK, Req, ConnInv, Placed
<1>2. done_rx'[c] = Append(done_rx[c], r) /\ replies' = replies /\ sbuf' = sbuf
  BY DEF Inv, TypeOK, socketVars
<1>3. /\ Append(done_rx[c], r) \in Seq(Req) /\ Distinct(replies[c], sbuf[c], Append(done_rx[c], r))
      /\ All(replies[c], sbuf[c], Append(done_rx[c], r)) = Out(c) \cup {r}
  BY <1>1, Queue DEF Out
<1> QED BY <1>2, <1>3 DEF Out

\* The reader answers in a handler's place; H is what handlers hold then.
LEMMA QuickInv ==
  ASSUME Inv, NEW c \in Conn, send_quick_resp(c), nread[c] > 0, nread[c] \notin Out(c),
         nread[c] \notin forgone[c], rdr[c] \in {"dispatch", "serve"},
         running'[c] = running[c] \ {nread[c]},
         \A d \in Conn \ {c} : running'[d] = running[d],
         UNCHANGED <<socketVars, forgone, wtr, broken>>
  PROVE  ConnInv(c)' /\ Others(c)
<1> USE DEF Inv, TypeOK, SocketTypeOK, socketVars
<1>1. Placed(c) /\ Covered(c) /\ Shape(c) /\ nread[c] \in 1 .. nread[c]
  BY DEF ConnInv
<1>2. CASE wtr[c] = "gone"
  <2>1. Others(c) /\ rdr'[c] = "gone" /\ done_rx' = done_rx
    BY <1>2 DEF send_quick_resp, Others, At
  <2>2. broken[c]
    BY <1>1, <1>2 DEF Shape
  <2>3. Out(c)' = Out(c)
    BY <2>1 DEF Out
  <2> QED BY <1>1, <1>2, <2>1, <2>2, <2>3 DEF ConnInv, Placed, Covered, Shape
<1>3. CASE wtr[c] # "gone"
  <2>1. /\ Others(c) /\ rdr'[c] = "head"
        /\ done_rx' = [done_rx EXCEPT ![c] = Append(@, nread[c])]
    BY <1>3 DEF send_quick_resp, Others, At, InHand
  <2>2. /\ done_rx'[c] \in Seq(Req) /\ Distinct(replies[c], sbuf[c], done_rx'[c])
        /\ Out(c)' = Out(c) \cup {nread[c]}
    BY <1>1, <2>1, Queued, Zenon
  <2>3. Placed(c)'
    BY <1>1, <2>1, <2>2 DEF Placed
  <2>4. Shape(c)'
    BY <1>1, <1>3, <2>1 DEF Shape
  <2>5. Covered(c)'
    BY <1>1, <2>1, <2>2 DEF Covered
  <2> QED BY <2>1, <2>3, <2>4, <2>5 DEF ConnInv
<1> QED BY <1>2, <1>3

LEMMA DispatchInv ==
  ASSUME Inv, NEW c \in Conn, QuickResp(c) \/ DispatchReq(c)
  PROVE  ConnInv(c)' /\ Others(c)
<1>1. Placed(c) /\ Covered(c) /\ Shape(c)
  BY DEF Inv, ConnInv
<1>2. CASE QuickResp(c)
  <2>1. /\ rdr[c] = "dispatch" /\ nread[c] > 0 /\ nread[c] \notin Out(c)
        /\ nread[c] \notin running[c] /\ nread[c] \notin forgone[c]
    BY <1>1, <1>2 DEF QuickResp, Placed
  <2>2. running'[c] = running[c] \ {nread[c]}
    BY <1>2, <2>1, SMTT(20) DEF QuickResp
  <2> QED BY <1>2, <2>1, <2>2, QuickInv, Zenon DEF QuickResp
<1>3. CASE DispatchReq(c)
  <2> USE DEF Inv, TypeOK, SocketTypeOK, socketVars
  <2>1. /\ rdr[c] = "dispatch" /\ rdr'[c] \in {"head", "serve"}
        /\ running'[c] = running[c] \cup {nread[c]} /\ Others(c)
    BY <1>3 DEF DispatchReq, Others, At, InHand
  <2>2. Out(c)' = Out(c) /\ nread[c] \in 1 .. nread[c]
    BY <1>1, <1>3, <2>1 DEF DispatchReq, Out, Placed
  <2> QED BY <1>1, <1>3, <2>1, <2>2 DEF DispatchReq, ConnInv, Placed, Covered, Shape
<1> QED BY <1>2, <1>3

LEMMA HandlerInv ==
  ASSUME Inv, NEW c \in Conn, HandlerStep(c)
  PROVE  ConnInv(c)' /\ Others(c)
<1>1. Placed(c) /\ Covered(c) /\ Shape(c)
  BY DEF Inv, ConnInv
<1>2. ASSUME NEW r \in Req, HandlerDone(c, r) PROVE ConnInv(c)' /\ Others(c)
  <2> USE DEF Inv, TypeOK, SocketTypeOK, socketVars
  <2>1. /\ r \in running[c] /\ running'[c] = running[c] \ {r} /\ Others(c)
        /\ rdr'[c] = IF rdr[c] = "serve" /\ r = nread[c] THEN "head" ELSE rdr[c]
    BY <1>2 DEF HandlerDone, noti_done, Others, At, InHand
  <2>2. r \in 1 .. nread[c] /\ r \notin Out(c) /\ r \notin forgone[c]
    BY <1>1, <2>1, SMTT(20) DEF Placed
  <2>3. CASE wtr[c] = "gone"
    <3>1. done_rx'[c] = done_rx[c] /\ broken[c]
      BY <1>1, <1>2, <2>1, <2>3 DEF HandlerDone, noti_done, Shape
    <3>2. Out(c)' = Out(c)
      BY <1>2, <3>1 DEF HandlerDone, Out
    <3> QED BY <1>1, <1>2, <2>1, <2>2, <2>3, <3>1, <3>2
            DEF HandlerDone, ConnInv, Placed, Covered, Shape
  <2>4. CASE wtr[c] # "gone"
    <3>1. done_rx' = [done_rx EXCEPT ![c] = Append(@, r)]
      BY <1>2, <2>4 DEF HandlerDone, noti_done
    <3>2. /\ done_rx'[c] \in Seq(Req) /\ Distinct(replies[c], sbuf[c], done_rx'[c])
          /\ Out(c)' = Out(c) \cup {r}
      BY <1>2, <2>2, <3>1, Queued, Zenon DEF HandlerDone
    <3>3. UNCHANGED <<socketVars, forgone, wtr, broken>>
      BY <1>2 DEF HandlerDone
    <3>4. Placed(c)'
      BY <1>1, <2>1, <2>2, <3>2, <3>3 DEF Placed
    <3>5. Shape(c)'
      BY <1>1, <2>1, <2>4, <3>3 DEF Shape
    <3>6. Covered(c)'
      BY <1>1, <2>1, <2>2, <3>2, <3>3 DEF Covered
    <3> QED BY <2>1, <3>4, <3>5, <3>6 DEF ConnInv
  <2> QED BY <2>3, <2>4
<1>3. CASE HandlerErr(c)
  <2>1. rdr[c] = "serve" /\ nread[c] \in running[c] /\ nread[c] \in Nat
    BY <1>1, <1>3 DEF HandlerErr, Placed, Inv, TypeOK, SocketTypeOK
  <2>2. nread[c] > 0 /\ nread[c] \notin Out(c) /\ nread[c] \notin forgone[c]
    BY <1>1, <2>1 DEF Placed
  <2>3. running'[c] = running[c] \ {nread[c]} /\ \A d \in Conn \ {c} : running'[d] = running[d]
    BY <1>3 DEF HandlerErr, InHand, Inv, TypeOK
  <2> QED BY <1>3, <2>1, <2>2, <2>3, QuickInv DEF HandlerErr
<1>4. ASSUME NEW r \in Req, HandlerDrops(c, r) PROVE ConnInv(c)' /\ Others(c)
  <2> USE DEF Inv, TypeOK, SocketTypeOK, socketVars
  <2>1. /\ r \in running[c] /\ running'[c] = running[c] \ {r} /\ Others(c)
        /\ forgone'[c] = forgone[c] \cup {r}
        /\ rdr'[c] = IF rdr[c] = "serve" /\ r = nread[c] THEN "head" ELSE rdr[c]
    BY <1>4 DEF HandlerDrops, Others, At, InHand
  <2>2. r \in 1 .. nread[c] /\ r \notin Out(c) /\ (rdr[c] = "dispatch" => r # nread[c])
    BY <1>1, <2>1, SMTT(20) DEF Placed
  <2>3. UNCHANGED <<socketVars, done_rx, wtr, broken>> /\ Out(c)' = Out(c)
    BY <1>4 DEF HandlerDrops, Out
  <2>4. Placed(c)'
    BY <1>1, <2>1, <2>2, <2>3 DEF Placed
  <2>5. Shape(c)'
    BY <1>1, <2>1, <2>3 DEF Shape
  <2>6. Covered(c)'
    BY <1>1, <2>1, <2>2, <2>3 DEF Covered
  <2> QED BY <2>1, <2>4, <2>5, <2>6 DEF ConnInv
<1> QED BY <1>2, <1>3, <1>4 DEF HandlerStep

\* The replies of c are Written, nothing but its writer moves, and c's client
\* is still the same.
WriterMoves(c) ==
  /\ Written(c)
  /\ done_rx' = [done_rx EXCEPT ![c] = done_rx'[c]] /\ done_rx'[c] \in Seq(Req)
  /\ wtr' = [wtr EXCEPT ![c] = wtr'[c]] /\ wtr'[c] \in WriterPc
  /\ broken' = [broken EXCEPT ![c] = broken'[c]] /\ broken'[c] \in BOOLEAN
  /\ sshut' = [sshut EXCEPT ![c] = sshut'[c]] /\ sshut'[c] \in BOOLEAN
  /\ UNCHANGED <<nsent, nread, copen, rdr, running, forgone, listenVars, closeVars>>

LEMMA WriterOthers ==
  ASSUME Inv, NEW c \in Conn, WriterMoves(c)
  PROVE  Others(c)
BY DEF WriterMoves, Written, Inv, TypeOK, SocketTypeOK, Others, At

LEMMA WriteRespInv ==
  ASSUME Inv, NEW c \in Conn, WriteResp(c)
  PROVE  ConnInv(c)' /\ WriterMoves(c)
<1> DEFINE d == done_rx[c]
<1>1. Placed(c) /\ Covered(c) /\ Shape(c)
  BY DEF Inv, ConnInv
<1>2. /\ d \in Seq(Req) /\ sbuf[c] \in Seq(Req) /\ replies[c] \in Seq(Req)
      /\ d # <<>> /\ wtr[c] \in {"recv", "burst"} /\ ~broken[c] /\ ~sshut[c]
      /\ Distinct(replies[c], sbuf[c], d)
  BY <1>1 DEF WriteResp, Inv, TypeOK, SocketTypeOK, Shape, Placed
<1>3. done_rx \in [Conn -> Seq(Req)] /\ wtr \in [Conn -> WriterPc] /\ broken \in [Conn -> BOOLEAN]
      /\ sshut \in [Conn -> BOOLEAN]
  BY DEF Inv, TypeOK, SocketTypeOK
<1>4. /\ Append(sbuf[c], Head(d)) \in Seq(Req) /\ Tail(d) \in Seq(Req)
      /\ Distinct(replies[c], Append(sbuf[c], Head(d)), Tail(d))
      /\ All(replies[c], Append(sbuf[c], Head(d)), Tail(d)) = Out(c)
  BY <1>2, Buffer DEF Out
<1>5. CASE /\ write_resp(c, Head(d)) /\ done_rx' = [done_rx EXCEPT ![c] = Tail(@)]
           /\ wtr' = [wtr EXCEPT ![c] = "burst"] /\ UNCHANGED broken
  <2>1. /\ Written(c) /\ Distinct(replies'[c], sbuf'[c], Tail(d))
        /\ All(replies'[c], sbuf'[c], Tail(d)) \subseteq Out(c)
        /\ (copen[c] => All(replies'[c], sbuf'[c], Tail(d)) = Out(c))
    BY <1>2, <1>5, WriteRespSock, Zenon DEF Inv, Out
  <2>2. done_rx'[c] = Tail(d) /\ wtr'[c] = "burst" /\ broken' = broken
    BY <1>3, <1>5
  <2>3. UNCHANGED <<nsent, nread, copen, sshut, rdr, running, forgone, listenVars, closeVars>>
    BY <1>5 DEF WriteResp, write_resp
  <2>4. WriterMoves(c)
    BY <1>3, <1>4, <1>5, <2>1, <2>2, <2>3 DEF WriterMoves, WriterPc
  <2>5. Out(c)' \subseteq Out(c) /\ (copen[c] => Out(c)' = Out(c))
    BY <2>1, <2>2 DEF Out
  <2>6. Placed(c)' /\ Covered(c)'
    BY <1>1, <1>2, <2>1, <2>2, <2>3, <2>5 DEF Placed, Covered
  <2>7. Shape(c)'
    BY <1>1, <1>2, <2>2, <2>3 DEF Shape
  <2> QED BY <2>4, <2>6, <2>7 DEF ConnInv
<1>6. CASE /\ write_fails(c, Append(sbuf[c], Head(d))) /\ done_rx' = [done_rx EXCEPT ![c] = <<>>]
           /\ wtr' = [wtr EXCEPT ![c] = "gone"] /\ broken' = [broken EXCEPT ![c] = TRUE]
  <2>1. /\ Written(c) /\ Distinct(replies'[c], sbuf'[c], <<>>)
        /\ All(replies'[c], sbuf'[c], <<>>) \subseteq Out(c)
    <3> DEFINE s == Append(sbuf[c], Head(d))
               t == Tail(d)
    <3>1. /\ s \in Seq(Req) /\ t \in Seq(Req) /\ Distinct(replies[c], s, t)
          /\ All(replies[c], s, t) = Out(c) /\ write_fails(c, s)
      BY <1>4, <1>6
    <3> HIDE DEF s, t
    <3> QED BY <3>1, FailsSock DEF Inv
  <2>2. done_rx'[c] = <<>> /\ wtr'[c] = "gone" /\ broken'[c] = TRUE
    BY <1>3, <1>6, SMTT(20)
  <2>3. UNCHANGED <<nsent, nread, copen, sshut, rdr, running, forgone, listenVars, closeVars>>
    BY <1>6 DEF WriteResp, write_fails
  <2>4. WriterMoves(c)
    BY <1>3, <1>6, <2>1, <2>2, <2>3 DEF WriterMoves, WriterPc
  <2>5. Out(c)' \subseteq Out(c)
    BY <2>1, <2>2 DEF Out
  <2>6. Placed(c)' /\ Covered(c)'
    BY <1>1, <2>1, <2>2, <2>3, <2>5 DEF Placed, Covered
  <2>7. Shape(c)'
    BY <1>1, <2>2, <2>3 DEF Shape
  <2> QED BY <2>4, <2>6, <2>7 DEF ConnInv
<1> QED BY <1>5, <1>6 DEF WriteResp

LEMMA FlushInv ==
  ASSUME Inv, NEW c \in Conn, BurstEnds(c) \/ FlushResp(c)
  PROVE  ConnInv(c)' /\ WriterMoves(c)
<1> DEFINE d == done_rx[c]
<1>1. Placed(c) /\ Covered(c) /\ Shape(c)
  BY DEF Inv, ConnInv
<1>2. /\ d \in Seq(Req) /\ sbuf[c] \in Seq(Req) /\ replies[c] \in Seq(Req)
      /\ Distinct(replies[c], sbuf[c], d) /\ wtr[c] # "gone" /\ ~broken[c] /\ ~sshut[c]
  BY <1>1 DEF BurstEnds, FlushResp, Inv, TypeOK, SocketTypeOK, Placed, Shape
<1>3. done_rx \in [Conn -> Seq(Req)] /\ wtr \in [Conn -> WriterPc] /\ broken \in [Conn -> BOOLEAN]
      /\ sshut \in [Conn -> BOOLEAN] /\ sbuf \in [Conn -> Seq(Req)]
      /\ replies \in [Conn -> Seq(Req)]
  BY DEF Inv, TypeOK, SocketTypeOK
<1>4. CASE BurstEnds(c)
  <2>1. wtr'[c] = "flush" /\ wtr' = [wtr EXCEPT ![c] = wtr'[c]]
        /\ UNCHANGED <<socketVars, listenVars, rdr, running, forgone, done_rx, broken, closeVars>>
    BY <1>3, <1>4 DEF BurstEnds
  <2>2. Begins(replies[c], replies[c])
    BY <1>3, PrefixSelf
  <2>3. WriterMoves(c)
    BY <1>2, <1>3, <2>1, <2>2 DEF WriterMoves, Written, WriterPc, socketVars
  <2>4. ConnInv(c)'
    BY <1>1, <1>2, <2>1 DEF ConnInv, Placed, Covered, Shape, Out, socketVars
  <2> QED BY <2>3, <2>4
<1>5. CASE /\ wtr[c] = "flush" /\ flush_resp(c) /\ wtr' = [wtr EXCEPT ![c] = "recv"]
           /\ UNCHANGED <<done_rx, broken, listenVars, rdr, running, forgone, closeVars>>
  <2>1. /\ Written(c) /\ Distinct(replies'[c], sbuf'[c], d) /\ sbuf'[c] = <<>>
        /\ All(replies'[c], sbuf'[c], d) \subseteq Out(c)
        /\ (copen[c] => All(replies'[c], sbuf'[c], d) = Out(c))
    BY <1>2, <1>5, DeliverSock, Zenon DEF Inv, Out, flush_resp
  <2>2. wtr'[c] = "recv" /\ UNCHANGED <<nsent, nread, copen, sshut>>
    BY <1>3, <1>5 DEF flush_resp
  <2>3. WriterMoves(c)
    BY <1>2, <1>3, <1>5, <2>1, <2>2 DEF WriterMoves, WriterPc
  <2>4. Out(c)' \subseteq Out(c) /\ (copen[c] => Out(c)' = Out(c))
    BY <1>5, <2>1 DEF Out
  <2>5. Placed(c)' /\ Covered(c)'
    BY <1>1, <1>5, <2>1, <2>2, <2>4 DEF Placed, Covered
  <2>6. Shape(c)'
    BY <1>1, <1>2, <1>5, <2>1, <2>2 DEF Shape
  <2> QED BY <2>3, <2>5, <2>6 DEF ConnInv
<1>6. CASE /\ wtr[c] = "flush" /\ write_fails(c, sbuf[c])
           /\ done_rx' = [done_rx EXCEPT ![c] = <<>>]
           /\ wtr' = [wtr EXCEPT ![c] = "gone"] /\ broken' = [broken EXCEPT ![c] = TRUE]
           /\ UNCHANGED <<listenVars, rdr, running, forgone, closeVars>>
  <2>1. /\ Written(c) /\ Distinct(replies'[c], sbuf'[c], <<>>)
        /\ All(replies'[c], sbuf'[c], <<>>) \subseteq Out(c)
    BY <1>2, <1>6, FailsSock, Zenon DEF Inv, Out
  <2>2. done_rx'[c] = <<>> /\ wtr'[c] = "gone" /\ broken'[c] = TRUE
        /\ UNCHANGED <<nsent, nread, copen, sshut>>
    BY <1>3, <1>6 DEF write_fails
  <2>3. WriterMoves(c)
    BY <1>3, <1>6, <2>1, <2>2 DEF WriterMoves, WriterPc
  <2>4. Out(c)' \subseteq Out(c)
    BY <2>1, <2>2 DEF Out
  <2>5. Placed(c)' /\ Covered(c)'
    BY <1>1, <1>6, <2>1, <2>2, <2>4 DEF Placed, Covered
  <2>6. Shape(c)'
    BY <1>1, <1>6, <2>2 DEF Shape
  <2> QED BY <2>3, <2>5, <2>6 DEF ConnInv
<1> QED BY <1>4, <1>5, <1>6 DEF FlushResp

\* The writer closes the connection: the buffer is empty, so nothing moves.
LEMMA WriterExitInv ==
  ASSUME Inv, NEW c \in Conn, WriterExit(c)
  PROVE  /\ ConnInv(c)' /\ WriterMoves(c) /\ replies'[c] = replies[c]
         /\ (sshut'[c] # sshut[c] /\ copen[c]) => 1 .. nread[c] = Range(replies[c]) \cup forgone[c]
<1> DEFINE d == done_rx[c]
<1>1. Placed(c) /\ Covered(c) /\ Shape(c)
  BY DEF Inv, ConnInv
<1>2. /\ wtr[c] = "recv" /\ d = <<>> /\ rdr[c] = "gone" /\ running[c] = {} /\ sbuf[c] = <<>>
      /\ d \in Seq(Req) /\ Distinct(replies[c], sbuf[c], d) /\ ~broken[c]
  BY <1>1 DEF WriterExit, NoSender, Placed, Shape, Inv, TypeOK, SocketTypeOK
<1>3. done_rx \in [Conn -> Seq(Req)] /\ wtr \in [Conn -> WriterPc] /\ broken \in [Conn -> BOOLEAN]
      /\ sshut \in [Conn -> BOOLEAN] /\ sbuf \in [Conn -> Seq(Req)] /\ nread[c] \in Nat
  BY DEF Inv, TypeOK, SocketTypeOK
<1>4. /\ wtr' = [wtr EXCEPT ![c] = wtr'[c]] /\ wtr'[c] = "gone"
      /\ UNCHANGED <<listenVars, rdr, running, forgone, done_rx, broken, closeVars>>
  BY <1>3 DEF WriterExit
<1>5. /\ Written(c) /\ sbuf'[c] = <<>> /\ replies'[c] = replies[c]
      /\ sshut' = [sshut EXCEPT ![c] = sshut'[c]] /\ sshut'[c] \in BOOLEAN
      /\ UNCHANGED <<nsent, nread, copen>>
  <2>1. CASE /\ Deliver(c, sbuf[c]) /\ sshut' = [sshut EXCEPT ![c] = TRUE]
             /\ UNCHANGED <<nsent, nread, copen>>
    <3>1. Written(c) /\ sbuf'[c] = <<>> /\ replies'[c] = replies[c]
      BY <1>2, <2>1, DeliverSock, Zenon DEF Inv
    <3>2. sshut'[c] = TRUE /\ sshut' = [sshut EXCEPT ![c] = sshut'[c]]
      BY <1>3, <2>1
    <3> QED BY <2>1, <3>1, <3>2, Zenon
  <2>2. CASE write_fails(c, sbuf[c])
    <3>1. Written(c) /\ sbuf'[c] = <<>> /\ replies'[c] = replies[c]
      BY <1>2, <1>3, <2>2, FailsSock DEF Inv
    <3>2. UNCHANGED <<nsent, nread, copen, sshut>>
      BY <2>2 DEF write_fails
    <3> QED BY <1>3, <3>1, <3>2
  <2> QED BY <2>1, <2>2 DEF WriterExit, close_conn
<1>6. WriterMoves(c)
  BY <1>3, <1>4, <1>5 DEF WriterMoves, WriterPc
<1>7. Out(c)' = Out(c) /\ Out(c) = Range(replies[c])
  BY <1>2, <1>4, <1>5, RangeEmpty DEF Out, All
<1>8. ConnInv(c)'
  BY <1>1, <1>2, <1>4, <1>5, <1>7 DEF ConnInv, Placed, Covered, Shape
<1>9. copen[c] => 1 .. nread[c] = Range(replies[c]) \cup forgone[c]
  BY <1>1, <1>2, <1>7, Zenon DEF Covered, Placed
<1> QED BY <1>5, <1>6, <1>8, <1>9

\* A listener starts the coroutines of the connection it accepted.
LEMMA ServerConnInv ==
  ASSUME Inv, NEW l \in Listener, ServerConn(l)
  PROVE  \A c \in Conn : ConnInv(c)'
<1> SUFFICES ASSUME NEW c \in Conn PROVE ConnInv(c)'
  OBVIOUS
<1>1. /\ rdr'[c] = IF c \in fresh[l] THEN "head" ELSE rdr[c]
      /\ wtr'[c] = IF c \in fresh[l] THEN "recv" ELSE wtr[c]
      /\ UNCHANGED <<socketVars, running, forgone, done_rx, broken>>
  BY DEF ServerConn
<1>2. ConnInv(c)
  BY DEF Inv
<1>3. CASE c \notin fresh[l]
  <2>1. At(c)' = At(c)
    BY <1>1, <1>3 DEF At, socketVars
  <2> QED BY <1>2, <2>1, ConnFrame
<1>4. CASE c \in fresh[l]
  <2>1. rdr[c] = "none" /\ wtr[c] = "none"
    BY <1>4 DEF Inv, Listening
  <2> QED BY <1>1, <1>2, <1>4, <2>1 DEF ConnInv, Placed, Covered, Shape, Out, socketVars
<1> QED BY <1>3, <1>4

\* Whatever step is taken, every connection keeps its invariant.
LEMMA ConnStep ==
  ASSUME Inv, [Next]_vars
  PROVE  \A c \in Conn : ConnInv(c)'
<1>1. ASSUME NEW c \in Conn, ClientSend(c) \/ ClientClose(c), UNCHANGED connVars
      PROVE  \A d \in Conn : ConnInv(d)'
  BY <1>1, ClientInv, OthersKeep DEF Inv
<1>2. ASSUME NEW c \in Conn, ReaderStep(c) PROVE \A d \in Conn : ConnInv(d)'
  <2>1. ConnInv(c)' /\ Others(c)
    BY <1>2, ReadInv, DispatchInv DEF ReaderStep
  <2> QED BY <2>1, OthersKeep DEF Inv
<1>3. ASSUME NEW c \in Conn, HandlerStep(c) PROVE \A d \in Conn : ConnInv(d)'
  BY <1>3, HandlerInv, OthersKeep DEF Inv
<1>4. ASSUME NEW c \in Conn, WriterStep(c) PROVE \A d \in Conn : ConnInv(d)'
  <2>1. ConnInv(c)' /\ WriterMoves(c)
    BY <1>4, WriteRespInv, FlushInv, WriterExitInv DEF WriterStep
  <2> QED BY <2>1, WriterOthers, OthersKeep DEF Inv
<1>5. ASSUME UNCHANGED <<socketVars, connVars>> PROVE \A d \in Conn : ConnInv(d)'
  <2>1. \A d \in Conn : At(d)' = At(d)
    BY <1>5 DEF At, socketVars, connVars
  <2> QED BY <2>1, ConnFrame DEF Inv
<1>6. CASE Client
  BY <1>6, <1>1 DEF Client
<1>7. ASSUME NEW l \in Listener, ListenerStep(l) PROVE \A d \in Conn : ConnInv(d)'
  <2>1. CASE ServerConn(l)
    BY <2>1, ServerConnInv
  <2>2. CASE (\E c \in Conn : Accept(l, c)) \/ ListenerEnds(l)
    BY <2>2, <1>5 DEF Accept, ListenerEnds
  <2> QED BY <1>7, <2>1, <2>2 DEF ListenerStep
<1>8. CASE Close \/ CloseStep
  BY <1>8, <1>5 DEF Close, CloseStep, CloseAbort, CloseNotify, CloseCount, CloseSleep
<1>9. CASE Terminated \/ UNCHANGED vars
  BY <1>9, <1>5 DEF Terminated, vars
<1> QED BY <1>2, <1>3, <1>4, <1>6, <1>7, <1>8, <1>9 DEF Next
--------------------------------------------------------------------------------
(* Listeners, close() and types.                                             *)

\* Coroutines of a connection only start with ServerConn: one that has not been
\* started is not, and one that has returned stays so.
LEMMA Dormant ==
  ASSUME Inv, NEW c \in Conn,
         \/ ReaderStep(c) \/ HandlerStep(c) \/ WriterStep(c)
  PROVE  /\ UNCHANGED <<listenVars, closeVars>>
         /\ \A d \in Conn : rdr[d] \in {"none", "gone"} => rdr'[d] = rdr[d]
         /\ \A d \in Conn : wtr[d] \in {"none", "gone"} => wtr'[d] = wtr[d]
<1> USE DEF Inv, TypeOK
<1>1. CASE ReadHead(c) \/ ReadHeadEnds(c) \/ ReadBody(c) \/ ReadBodyFails(c) \/ DispatchReq(c)
  BY <1>1 DEF ReadHead, ReadHeadEnds, ReadBody, ReadBodyFails, DispatchReq
<1>2. CASE QuickResp(c) \/ HandlerErr(c)
  BY <1>2 DEF QuickResp, HandlerErr, send_quick_resp
<1>3. ASSUME NEW r \in Req, HandlerDone(c, r) \/ HandlerDrops(c, r)
      PROVE  /\ UNCHANGED <<listenVars, closeVars, wtr>>
             /\ \A d \in Conn : rdr[d] \in {"none", "gone"} => rdr'[d] = rdr[d]
  BY <1>3 DEF HandlerDone, HandlerDrops
<1>4. CASE WriteResp(c)
  BY <1>4 DEF WriteResp
<1>5. CASE BurstEnds(c) \/ FlushResp(c) \/ WriterExit(c)
  BY <1>5 DEF BurstEnds, FlushResp, WriterExit
<1>6. CASE \E r \in Req : HandlerDone(c, r) \/ HandlerDrops(c, r)
  BY <1>3, <1>6
<1> QED BY <1>1, <1>2, <1>4, <1>5, <1>6 DEF ReaderStep, HandlerStep, WriterStep

LEMMA ListeningStep ==
  ASSUME Inv, [Next]_vars
  PROVE  Listening'
<1>1. ASSUME UNCHANGED listenVars,
             \A d \in Conn : rdr[d] = "none" => rdr'[d] = "none",
             \A d \in Conn : wtr[d] = "none" => wtr'[d] = "none"
      PROVE  Listening'
  BY <1>1 DEF Inv, TypeOK, Listening, listenVars
<1>2. ASSUME NEW c \in Conn, ReaderStep(c) \/ HandlerStep(c) \/ WriterStep(c) PROVE Listening'
  BY <1>1, <1>2, Dormant
<1>3. CASE Client \/ Close \/ CloseStep \/ Terminated \/ UNCHANGED vars
  <2>1. UNCHANGED <<listenVars, connVars>>
    BY <1>3 DEF Client, Close, CloseStep, CloseAbort, CloseNotify, CloseCount, CloseSleep,
                Terminated, vars
  <2> QED BY <1>1, <2>1 DEF connVars
<1>4. ASSUME NEW l \in Listener, NEW c \in Conn, Accept(l, c) PROVE Listening'
  <2>1. /\ fresh' = [fresh EXCEPT ![l] = {c}] /\ backlog' = backlog \ {c} /\ c \in backlog
        /\ rdr' = rdr /\ wtr' = wtr /\ fresh \in [Listener -> SUBSET Conn]
    BY <1>4 DEF Accept, connVars, Inv, TypeOK
  <2>2. \A m \in Listener : fresh'[m] = IF m = l THEN {c} ELSE fresh[m]
    BY <2>1
  <2>3. \A m \in Listener : c \notin fresh[m]
    BY <2>1 DEF Inv, Listening
  <2> QED BY <2>1, <2>2, <2>3 DEF Inv, Listening
<1>5. ASSUME NEW l \in Listener, ServerConn(l) PROVE Listening'
  <2>1. /\ fresh' = [fresh EXCEPT ![l] = {}] /\ backlog' = backlog
        /\ fresh \in [Listener -> SUBSET Conn] /\ backlog \subseteq Conn
    BY <1>5 DEF ServerConn, Inv, TypeOK
  <2>2. \A c \in Conn \ fresh[l] : rdr'[c] = rdr[c] /\ wtr'[c] = wtr[c]
    BY <1>5 DEF ServerConn
  <2>3. \A m \in Listener : fresh'[m] = IF m = l THEN {} ELSE fresh[m]
    BY <2>1
  <2> QED BY <2>1, <2>2, <2>3 DEF Inv, Listening
<1>6. ASSUME NEW l \in Listener, ListenerEnds(l) PROVE Listening'
  BY <1>6 DEF ListenerEnds, connVars, Inv, Listening
<1> QED BY <1>2, <1>3, <1>4, <1>5, <1>6 DEF Next, ListenerStep

LEMMA ClosedStep ==
  ASSUME Inv, [Next]_vars
  PROVE  ClosedQuiet' /\ Patience'
<1>1. ASSUME UNCHANGED <<lst, closeVars>>,
             \A d \in Conn : rdr[d] \in {"none", "gone"} => rdr'[d] = rdr[d],
             \A d \in Conn : wtr[d] \in {"none", "gone"} => wtr'[d] = wtr[d]
      PROVE  ClosedQuiet' /\ Patience'
  <2>1. Alive' \subseteq Alive
    BY <1>1 DEF Alive
  <2> QED BY <1>1, <2>1 DEF Inv, ClosedQuiet, Patience, closeVars
<1>2. ASSUME NEW c \in Conn, ReaderStep(c) \/ HandlerStep(c) \/ WriterStep(c)
      PROVE  ClosedQuiet' /\ Patience'
  BY <1>1, <1>2, Dormant DEF listenVars
<1>3. CASE Client \/ Terminated \/ UNCHANGED vars
  <2>1. UNCHANGED <<listenVars, connVars, closeVars>>
    BY <1>3 DEF Client, Terminated, vars
  <2> QED BY <1>1, <2>1 DEF connVars, listenVars
<1>4. ASSUME NEW l \in Listener, ListenerStep(l) PROVE ClosedQuiet' /\ Patience'
  <2>1. lst[l] # "stopped" /\ UNCHANGED closeVars
    BY <1>4 DEF ListenerStep, Accept, ServerConn, ListenerEnds
  <2>2. ~(cpc = "closed" /\ left = {})
    BY <2>1 DEF Inv, ClosedQuiet
  <2> QED BY <2>1, <2>2 DEF ClosedQuiet, Patience, closeVars, Inv
<1>5. CASE Close \/ CloseAbort \/ CloseNotify \/ CloseSleep
  BY <1>5 DEF Close, CloseAbort, CloseNotify, CloseSleep, ClosedQuiet, Patience
<1>6. CASE CloseCount
  <2>1. /\ left' = get_alive_conn /\ waited' = waited /\ UNCHANGED <<listenVars, connVars>>
        /\ (cpc' = "sleep" => waited <= CloseWait)
    BY <1>6 DEF CloseCount
  <2>2. Alive' = Alive /\ lst' = lst
    BY <2>1 DEF Alive, connVars, listenVars
  <2>3. ASSUME left' = {} PROVE Alive = {} /\ \A l \in Listener : lst[l] = "stopped"
    BY <2>1, <2>3 DEF get_alive_conn
  <2> QED BY <2>1, <2>2, <2>3 DEF ClosedQuiet, Patience
<1> QED BY <1>2, <1>3, <1>4, <1>5, <1>6 DEF Next, CloseStep

LEMMA QuickTypes ==
  ASSUME TypeOK, NEW c \in Conn, nread[c] \in Req, send_quick_resp(c)
  PROVE  rdr' \in [Conn -> ReaderPc] /\ done_rx' \in [Conn -> Seq(Req)]
<1> USE DEF TypeOK, ReaderPc
<1>1. CASE wtr[c] = "gone"
  BY <1>1, Zenon DEF send_quick_resp
<1>2. CASE wtr[c] # "gone"
  <2>1. /\ rdr' = [rdr EXCEPT ![c] = "head"]
        /\ done_rx' = [done_rx EXCEPT ![c] = Append(done_rx[c], nread[c])]
    BY <1>2 DEF send_quick_resp, InHand
  <2>2. Append(done_rx[c], nread[c]) \in Seq(Req)
    OBVIOUS
  <2> QED BY <2>1, <2>2
<1> QED BY <1>1, <1>2

LEMMA TypeStep ==
  ASSUME Inv, [Next]_vars
  PROVE  TypeOK'
<1> USE TcpServerAssumption, ServerAssumption DEF Inv, TypeOK, SocketTypeOK
<1>1. CASE Client
  <2>1. ASSUME NEW c \in Conn, ClientSend(c)
        PROVE  nsent' \in [Conn -> 0 .. MaxReqs] /\ UNCHANGED <<nread, copen, sbuf, replies, sshut>>
    BY <2>1 DEF ClientSend
  <2>2. ASSUME NEW c \in Conn, ClientClose(c)
        PROVE  copen' \in [Conn -> BOOLEAN] /\ UNCHANGED <<nsent, nread, sbuf, replies, sshut>>
    BY <2>2 DEF ClientClose
  <2>3. SocketTypeOK'
    BY <1>1, <2>1, <2>2, SMTT(20) DEF Client
  <2> QED BY <1>1, <2>3, SMTT(20) DEF Client, listenVars, connVars, closeVars
<1>2. ASSUME NEW l \in Listener, ListenerStep(l) PROVE TypeOK'
  <2>1. ASSUME NEW c \in Conn, Accept(l, c) PROVE TypeOK'
    BY <2>1 DEF Accept, socketVars, connVars, closeVars
  <2>2. CASE ServerConn(l)
    BY <2>2 DEF ServerConn, socketVars, closeVars, ReaderPc, WriterPc
  <2>3. CASE ListenerEnds(l)
    BY <2>3 DEF ListenerEnds, socketVars, connVars, closeVars
  <2> QED BY <1>2, <2>1, <2>2, <2>3, Zenon DEF ListenerStep
<1>3. ASSUME NEW c \in Conn, ReaderStep(c) PROVE TypeOK'
  <2>1. CASE ReadHead(c) \/ ReadHeadEnds(c) \/ ReadBodyFails(c)
    <3>1. rdr' \in [Conn -> ReaderPc]
      <4>1. rdr' = [rdr EXCEPT ![c] = "body"] \/ rdr' = [rdr EXCEPT ![c] = "gone"]
        BY <2>1, Zenon DEF ReadHead, ReadHeadEnds, ReadBodyFails
      <4>2. rdr \in [Conn -> ReaderPc] /\ "body" \in ReaderPc /\ "gone" \in ReaderPc
        BY DEF ReaderPc
      <4> QED BY <4>1, <4>2, ZenonT(30)
    <3>2. UNCHANGED <<socketVars, listenVars, running, forgone, done_rx, wtr, broken, closeVars>>
      BY <2>1 DEF ReadHead, ReadHeadEnds, ReadBodyFails
    <3> QED BY <3>1, <3>2, SMTT(20) DEF socketVars, listenVars, closeVars
  <2>2. CASE ReadBody(c)
    <3>1. nread[c] + 1 \in 0 .. MaxReqs
      BY <2>2 DEF ReadBody, ConnInv, Shape
    <3> QED BY <2>2, <3>1, SMTT(20) DEF ReadBody, listenVars, closeVars, ReaderPc
  <2>3. CASE QuickResp(c) \/ DispatchReq(c)
    <3>1. nread[c] \in Req
      BY <2>3 DEF QuickResp, DispatchReq, ConnInv, Placed, Req
    <3>2. /\ rdr' \in [Conn -> ReaderPc] /\ done_rx' \in [Conn -> Seq(Req)]
          /\ running' \in [Conn -> SUBSET Req]
      <4>1. CASE QuickResp(c)
        BY <4>1, <3>1, QuickTypes, Zenon DEF QuickResp
      <4>2. CASE DispatchReq(c)
        BY <4>2, <3>1 DEF DispatchReq, InHand, ReaderPc
      <4> QED BY <2>3, <4>1, <4>2, SMTT(20)
    <3>3. UNCHANGED <<socketVars, listenVars, forgone, wtr, broken, closeVars>>
      BY <2>3 DEF QuickResp, DispatchReq
    <3> QED BY <3>2, <3>3, SMTT(20) DEF socketVars, listenVars, closeVars
  <2> QED BY <1>3, <2>1, <2>2, <2>3, Zenon DEF ReaderStep
<1>4. ASSUME NEW c \in Conn, HandlerStep(c) PROVE TypeOK'
  <2>1. ASSUME NEW r \in Req, HandlerDone(c, r) PROVE TypeOK'
    BY <2>1, SMTT(20) DEF HandlerDone, noti_done, socketVars, listenVars, closeVars, ReaderPc
  <2>2. CASE HandlerErr(c)
    <3>1. nread[c] \in Req
      BY <2>2 DEF HandlerErr, ConnInv, Placed
    <3>2. /\ rdr' \in [Conn -> ReaderPc] /\ done_rx' \in [Conn -> Seq(Req)]
          /\ running' \in [Conn -> SUBSET Req]
      BY <2>2, <3>1, QuickTypes, Zenon DEF HandlerErr
    <3>3. UNCHANGED <<socketVars, listenVars, forgone, wtr, broken, closeVars>>
      BY <2>2 DEF HandlerErr
    <3> QED BY <3>2, <3>3 DEF socketVars, listenVars, closeVars
  <2>3. ASSUME NEW r \in Req, HandlerDrops(c, r) PROVE TypeOK'
    BY <2>3, SMTT(20) DEF HandlerDrops, socketVars, listenVars, closeVars, ReaderPc
  <2> QED BY <1>4, <2>1, <2>2, <2>3, Zenon DEF HandlerStep
<1>5. ASSUME NEW c \in Conn, WriterStep(c) PROVE TypeOK'
  <2>1. WriterMoves(c)
    BY <1>5, WriteRespInv, FlushInv, WriterExitInv, SMTT(60) DEF WriterStep
  <2> QED BY <2>1, ZenonT(30) DEF WriterMoves, Written, listenVars, closeVars
<1>6. CASE Close \/ CloseAbort \/ CloseNotify
  BY <1>6, Zenon DEF Close, CloseAbort, CloseNotify, socketVars, listenVars, connVars
<1>7. CASE CloseCount
  BY <1>7, SMTT(20) DEF CloseCount, get_alive_conn, Alive, socketVars, listenVars, connVars
<1>8. CASE CloseSleep
  <2>1. waited + 1 \in 0 .. CloseWait + 1
    BY <1>8 DEF CloseSleep, Patience
  <2> QED BY <1>8, <2>1 DEF CloseSleep, socketVars, listenVars, connVars
<1>9. CASE Terminated \/ UNCHANGED vars
  BY <1>9 DEF Terminated, vars, socketVars, listenVars, connVars, closeVars
<1> QED BY <1>1, <1>2, <1>3, <1>4, <1>5, <1>6, <1>7, <1>8, <1>9, Zenon DEF Next, CloseStep
--------------------------------------------------------------------------------
LEMMA InitInv == Init => Inv
<1> SUFFICES ASSUME Init PROVE Inv
  OBVIOUS
<1> USE DEF Init, SocketInit
<1>1. TypeOK
  BY TcpServerAssumption, ServerAssumption DEF TypeOK, SocketTypeOK, ReaderPc, WriterPc
<1>2. ASSUME NEW c \in Conn PROVE ConnInv(c)
  <2>1. Out(c) = {} /\ Distinct(replies[c], sbuf[c], done_rx[c])
    BY RangeEmpty DEF Out, All, Distinct
  <2> QED BY <2>1 DEF ConnInv, Placed, Covered, Shape
<1>3. Listening /\ Patience /\ ClosedQuiet
  BY DEF Listening, Patience, ClosedQuiet
<1> QED BY <1>1, <1>2, <1>3 DEF Inv

LEMMA NextInv == Inv /\ [Next]_vars => Inv'
BY TypeStep, ConnStep, ListeningStep, ClosedStep DEF Inv

\* The inductive invariant of the server.
THEOREM Invariance == Spec => []Inv
BY InitInv, NextInv, PTL DEF Spec

\* Every variable of listeners, connections and close() keeps its type; in
\* particular close() does not sleep beyond server_close_wait.
THEOREM Typing == Spec => []TypeOK
<1>1. Inv => TypeOK
  BY DEF Inv
<1> QED BY <1>1, Invariance, PTL

\* Each request is answered at most once, and none is forgotten but by its handler.
THEOREM Conservation == Spec => []ReplyConserved
<1>1. Inv => ReplyConserved
  <2> SUFFICES ASSUME Inv, NEW c \in Conn
               PROVE  /\ IsInjective(Answers(c))
                      /\ Range(Answers(c)) \cap (running[c] \cup forgone[c]) = {}
                      /\ Range(Answers(c)) \cup running[c] \cup forgone[c] \subseteq 1 .. nread[c]
                      /\ (copen[c] /\ ~broken[c] =>
                            \A r \in 1 .. nread[c] :
                              \/ r \in Range(Answers(c)) \cup running[c] \cup forgone[c]
                              \/ rdr[c] = "dispatch" /\ r = InHand(c))
    BY Zenon DEF ReplyConserved
  <2>1. /\ replies[c] \in Seq(Req) /\ sbuf[c] \in Seq(Req) /\ done_rx[c] \in Seq(Req)
        /\ Distinct(replies[c], sbuf[c], done_rx[c])
    BY DEF Inv, TypeOK, SocketTypeOK, ConnInv, Placed
  <2> DEFINE u == replies[c] \o sbuf[c]
  <2>2. u \in Seq(Req) /\ Range(u) = Range(replies[c]) \cup Range(sbuf[c]) /\ IsInjective(u)
    BY <2>1, RangeConcat, InjConcat DEF Distinct
  <2>3. Range(u) \cap Range(done_rx[c]) = {}
    BY <2>1, <2>2 DEF Distinct
  <2> HIDE DEF u
  <2>4. Range(u \o done_rx[c]) = Range(u) \cup Range(done_rx[c]) /\ IsInjective(u \o done_rx[c])
    BY <2>1, <2>2, <2>3, RangeConcat, InjConcat DEF Distinct
  <2>5. Range(Answers(c)) = Out(c) /\ IsInjective(Answers(c))
    BY <2>2, <2>4 DEF Answers, Out, All, u
  <2> QED BY <2>5 DEF Inv, ConnInv, Placed, Covered, InHand
<1> QED BY <1>1, Invariance, PTL

\* A writer that waits for the next reply has flushed the ones before.
THEOREM Flushing == Spec => []IdleFlushed
<1>1. Inv => IdleFlushed
  BY DEF Inv, ConnInv, Shape, IdleFlushed
<1> QED BY <1>1, Invariance, PTL

\* close() reports that nothing is alive only if nothing is.
THEOREM Closing == Spec => []ClosedQuiet
<1>1. Inv => ClosedQuiet
  BY DEF Inv
<1> QED BY <1>1, Invariance, PTL
--------------------------------------------------------------------------------
(* The server implements PeerContract.                                       *)

Got == [c \in Conn |-> 1 .. nread[c]]

\* A step of the contract that leaves everything as it was.
LEMMA ContractStutter ==
  ASSUME UNCHANGED <<nread, forgone, replies, copen, sshut>>
  PROVE  UNCHANGED Contract!contractVars
BY DEF Contract!contractVars

\* The writer of a connection that is not shut down hands answers to its client.
LEMMA ContractAnswer ==
  ASSUME Inv, Inv', NEW c \in Conn, WriterMoves(c), sshut' = sshut, ~sshut[c]
  PROVE  [Contract!Next]_(Contract!contractVars)
<1>1. /\ Written(c) /\ UNCHANGED <<nread, forgone, copen, sshut>> /\ copen[c] \in BOOLEAN
      /\ replies \in [Conn -> Seq(Req)]
  BY DEF WriterMoves, Inv, TypeOK, SocketTypeOK
<1>2. CASE replies'[c] = replies[c]
  <2>1. replies' = replies
    BY <1>1, <1>2 DEF Written
  <2> QED BY <1>1, <2>1, ContractStutter
<1>3. CASE replies'[c] # replies[c]
  <2>1. copen[c] /\ Begins(replies[c], replies'[c])
        /\ replies' = [replies EXCEPT ![c] = replies'[c]]
    BY <1>1, <1>3 DEF Written
  <2>2. IsInjective(replies'[c]) /\ Range(replies'[c]) \subseteq (1 .. nread[c]) \ forgone[c]
    BY <1>1 DEF Inv, ConnInv, Placed, Distinct, Out, All
  <2>3. Got[c] = 1 .. nread[c] /\ Got' = Got
    BY <1>1 DEF Got
  <2>4. Contract!Answer(c)
    <3>1. Contract!Begins(replies[c], replies'[c]) /\ Contract!IsInjective(replies'[c])
      BY <2>1, <2>2 DEF Contract!Begins, Begins, Contract!IsInjective, IsInjective
    <3>2. Contract!Range(replies'[c]) = Range(replies'[c])
      BY DEF Contract!Range, Range
    <3>3. Contract!Range(replies'[c]) \subseteq Got[c] \ forgone[c]
      BY <2>2, <2>3, <3>2
    <3> QED BY <1>1, <2>1, <2>3, <3>1, <3>3 DEF Contract!Answer, Got
  <2> QED BY <2>4 DEF Contract!Next
<1> QED BY <1>2, <1>3

\* The writer ends the stream when every request has its answer.
LEMMA ContractEnd ==
  ASSUME Inv, NEW c \in Conn, WriterExit(c)
  PROVE  [Contract!Next]_(Contract!contractVars)
<1>1. /\ WriterMoves(c) /\ replies'[c] = replies[c]
      /\ (sshut'[c] # sshut[c] /\ copen[c]) => 1 .. nread[c] = Range(replies[c]) \cup forgone[c]
  BY WriterExitInv
<1>2. /\ UNCHANGED <<nread, forgone, copen>> /\ replies' = [replies EXCEPT ![c] = replies'[c]]
      /\ sshut' = [sshut EXCEPT ![c] = sshut'[c]] /\ sshut'[c] \in BOOLEAN /\ sshut[c] \in BOOLEAN
      /\ sshut \in [Conn -> BOOLEAN] /\ replies \in [Conn -> Seq(Req)]
  BY <1>1 DEF WriterMoves, Written, Inv, TypeOK, SocketTypeOK
<1>3. replies' = replies
  BY <1>1, <1>2, Zenon
<1>4. CASE sshut'[c] = sshut[c]
  <2>1. sshut' = sshut
    BY <1>2, <1>4
  <2> QED BY <1>2, <1>3, <2>1, ContractStutter
<1>5. CASE sshut'[c] # sshut[c]
  <2>1. ~sshut[c]
    BY DEF WriterExit, Inv, ConnInv, Shape
  <2>2. sshut'[c] = TRUE
    BY <1>2, <1>5, <2>1
  <2>3. sshut' = [sshut EXCEPT ![c] = TRUE]
    BY <1>2, <2>2
  <2>4. Got[c] = 1 .. nread[c] /\ Got' = Got
    BY <1>2 DEF Got
  <2>5. copen[c] => Got[c] = Range(replies[c]) \cup forgone[c]
    BY <1>1, <1>5, <2>4
  <2>6. Contract!End(c)
    <3>1. Contract!Range(replies[c]) = Range(replies[c])
      BY DEF Contract!Range, Range
    <3>2. copen[c] => Got[c] = Contract!Range(replies[c]) \cup forgone[c]
      BY <2>5, <3>1
    <3> QED BY <1>2, <1>3, <2>3, <2>4, <3>2 DEF Contract!End, Got
  <2> QED BY <2>6 DEF Contract!Next
<1> QED BY <1>4, <1>5

LEMMA ContractStep ==
  ASSUME Inv, Inv', [Next]_vars
  PROVE  [Contract!Next]_(Contract!contractVars)
<1>1. ASSUME UNCHANGED <<socketVars, forgone>> PROVE [Contract!Next]_(Contract!contractVars)
  BY <1>1, ContractStutter DEF socketVars
<1>2. ASSUME NEW c \in Conn, ClientSend(c) \/ ClientClose(c), UNCHANGED connVars
      PROVE  [Contract!Next]_(Contract!contractVars)
  <2>1. CASE ClientSend(c)
    BY <1>2, <2>1, ContractStutter DEF ClientSend, connVars
  <2>2. CASE ClientClose(c)
    <3>1. /\ copen' = [copen EXCEPT ![c] = FALSE]
          /\ UNCHANGED <<nread, forgone, replies, sshut>> /\ Got' = Got
      BY <1>2, <2>2 DEF ClientClose, Got, connVars
    <3>2. Contract!Leave(c)
      BY <3>1 DEF Contract!Leave, Got
    <3> QED BY <3>2 DEF Contract!Next
  <2> QED BY <1>2, <2>1, <2>2
<1>3. ASSUME NEW c \in Conn, ReadBody(c) PROVE [Contract!Next]_(Contract!contractVars)
  <2>1. /\ nread' = [nread EXCEPT ![c] = @ + 1] /\ UNCHANGED <<forgone, copen, replies, sshut>>
        /\ nread \in [Conn -> 0 .. MaxReqs] /\ nread[c] \in Nat
    <3>1. nread' = [nread EXCEPT ![c] = @ + 1] /\ UNCHANGED <<forgone, copen, replies, sshut>>
      BY <1>3, Zenon DEF ReadBody
    <3>2. nread \in [Conn -> 0 .. MaxReqs] /\ MaxReqs \in Nat
      BY TcpServerAssumption DEF Inv, TypeOK, SocketTypeOK
    <3> QED BY <3>1, <3>2
  <2>2. Got' = [Got EXCEPT ![c] = Got'[c]] /\ Got[c] \subseteq Got'[c]
    <3>1. \A d \in Conn \ {c} : nread'[d] = nread[d]
      BY <2>1
    <3>2. nread'[c] = nread[c] + 1
      BY <2>1
    <3>3. /\ Got \in [Conn -> SUBSET Nat] /\ Got' \in [Conn -> SUBSET Nat]
          /\ \A d \in Conn : Got[d] = 1 .. nread[d] /\ Got'[d] = 1 .. nread'[d]
      BY DEF Got
    <3>4. \A d \in Conn \ {c} : Got'[d] = Got[d]
      BY <3>1, <3>3
    <3>5. Got[c] \subseteq Got'[c]
      BY <2>1, <3>2, <3>3
    <3> HIDE DEF Got
    <3>6. Got' = [Got EXCEPT ![c] = Got'[c]]
      BY <3>3, <3>4
    <3> QED BY <3>5, <3>6
  <2>3. Contract!Receive(c)
    BY <2>1, <2>2 DEF Contract!Receive, Got
  <2> QED BY <2>3 DEF Contract!Next
<1>4. ASSUME NEW c \in Conn, ReaderStep(c) PROVE [Contract!Next]_(Contract!contractVars)
  <2>1. CASE ReadHead(c) \/ ReadHeadEnds(c) \/ ReadBodyFails(c) \/ QuickResp(c) \/ DispatchReq(c)
    BY <1>1, <2>1 DEF ReadHead, ReadHeadEnds, ReadBodyFails, QuickResp, DispatchReq
  <2> QED BY <1>3, <1>4, <2>1 DEF ReaderStep
<1>5. ASSUME NEW c \in Conn, HandlerStep(c) PROVE [Contract!Next]_(Contract!contractVars)
  <2>1. ASSUME NEW r \in Req, HandlerDone(c, r) \/ HandlerErr(c) PROVE UNCHANGED <<socketVars, forgone>>
    BY <2>1 DEF HandlerDone, HandlerErr
  <2>2. ASSUME NEW r \in Req, HandlerDrops(c, r) PROVE Contract!Forgo(c)
    <3>1. /\ forgone' = [forgone EXCEPT ![c] = @ \cup {r}] /\ UNCHANGED socketVars
          /\ forgone \in [Conn -> SUBSET Req] /\ Got' = Got
      BY <2>2 DEF HandlerDrops, Inv, TypeOK, Got, socketVars
    <3>2. /\ forgone' = [forgone EXCEPT ![c] = forgone'[c]] /\ forgone[c] \subseteq forgone'[c]
      BY <3>1
    <3>3. /\ forgone'[c] \subseteq 1 .. nread'[c] /\ forgone'[c] \cap Range(replies'[c]) = {}
      BY DEF Inv, ConnInv, Placed, Out, All
    <3>4. Got[c] = 1 .. nread[c] /\ nread' = nread /\ replies' = replies /\ copen' = copen /\ sshut' = sshut
      BY <3>1 DEF Got, socketVars
    <3>5. Contract!Range(replies[c]) = Range(replies[c])
      BY DEF Contract!Range, Range
    <3> QED BY <3>1, <3>2, <3>3, <3>4, <3>5 DEF Contract!Forgo, Got
  <2>3. CASE HandlerErr(c)
    BY <1>1, <2>3 DEF HandlerErr
  <2> QED BY <1>1, <1>5, <2>1, <2>2, <2>3 DEF HandlerStep, Contract!Next
<1>6. ASSUME NEW c \in Conn, WriterStep(c) PROVE [Contract!Next]_(Contract!contractVars)
  <2>1. CASE WriteResp(c) \/ BurstEnds(c) \/ FlushResp(c)
    <3>1. WriterMoves(c)
      BY <2>1, WriteRespInv, FlushInv, SMTT(20)
    <3>2. sshut' = sshut
      BY <2>1 DEF WriteResp, BurstEnds, FlushResp, write_resp, flush_resp, write_fails, socketVars
    <3>3. ~sshut[c]
      BY <2>1 DEF WriteResp, BurstEnds, FlushResp, Inv, ConnInv, Shape
    <3> QED BY <3>1, <3>2, <3>3, ContractAnswer
  <2> QED BY <1>6, <2>1, ContractEnd DEF WriterStep
<1>7. CASE Client
  BY <1>2, <1>7 DEF Client
<1>8. ASSUME NEW l \in Listener, ListenerStep(l) PROVE [Contract!Next]_(Contract!contractVars)
  BY <1>1, <1>8 DEF ListenerStep, Accept, ServerConn, ListenerEnds, connVars
<1>9. CASE Close \/ CloseStep \/ Terminated \/ UNCHANGED vars
  BY <1>1, <1>9 DEF Close, CloseStep, CloseAbort, CloseNotify, CloseCount, CloseSleep,
                    Terminated, vars, connVars
<1> QED BY <1>4, <1>5, <1>6, <1>7, <1>8, <1>9 DEF Next

\* Every connection of the server implements the contract its client relies on.
THEOREM Refinement == Spec => ContractSpec
<1>1. Init => Contract!Init
  BY DEF Init, SocketInit, Contract!Init
<1>2. Inv /\ Inv' /\ [Next]_vars => [Contract!Next]_(Contract!contractVars)
  BY ContractStep
<1> QED BY <1>1, <1>2, Invariance, PTL DEF Spec, ContractSpec, Contract!Spec
================================================================================
