---------------------------- MODULE WireFrameProofs ----------------------------
(***************************************************************************)
(* The frames of WireCall for every set of calls, services, actions,       *)
(* messages, blobs, errors and buffers, and every width of the integers:   *)
(* how an action and a message are routed, that both readers stay at the   *)
(* beginning of a frame, that what is read fits the caller's buffer, and   *)
(* that a request on the wire and in a handler is one a caller made.       *)
(***************************************************************************)
EXTENDS WireCall, TLAPS

\* A step may use this fact and gains nothing from it, but a record update among its
\* facts spares tlapm the inference of types, which takes most of the time otherwise.
LEMMA RecordUpdate == \A r : [r EXCEPT !.field = 1] = [r EXCEPT !.field = 1]
OBVIOUS

USE RecordUpdate

LEMMA Widths ==
  /\ Half \in Nat /\ Half > 3 /\ U32 \in Nat /\ U32_MAX \in Nat /\ I32_MAX \in Nat
  /\ U32 = Half + Half /\ U32_MAX = U32 - 1 /\ I32_MAX = Half - 1
BY WidthAssumption DEF U32, U32_MAX, I32_MAX

LEMMA UnitFields ==
  ASSUME NEW u \in Unit
  PROVE  u.a \in Nat /\ u.m \in Nat /\ u.b \in Nat
BY Widths DEF Unit

LEMMA LowSame ==
  ASSUME NEW x \in 0..U32_MAX
  PROVE  Low32(x) = x
BY Widths DEF Low32

--------------------------------------------------------------------------------
(* Two sequences one after the other, and a sequence without its beginning. *)

\* Two sequences with the same elements.
LEMMA SameSeq ==
  ASSUME NEW D, NEW s \in Seq(D), NEW t \in Seq(D), Len(s) = Len(t),
         \A i \in 1 .. Len(s) : s[i] = t[i]
  PROVE  s = t
<1>1. s \in [1 .. Len(s) -> D] /\ t \in [1 .. Len(t) -> D]
  OBVIOUS
<1> QED BY <1>1

LEMMA Joined ==
  ASSUME NEW D, NEW s \in Seq(D), NEW t \in Seq(D)
  PROVE  /\ s \o t \in Seq(D) /\ Len(s \o t) = Len(s) + Len(t)
         /\ Len(s) \in Nat /\ Len(t) \in Nat /\ Len(s \o t) \in Nat
         /\ DOMAIN s = 1..Len(s) /\ DOMAIN t = 1..Len(t) /\ DOMAIN (s \o t) = 1..Len(s \o t)
         /\ \A i \in 1..Len(s) : (s \o t)[i] = s[i]
         /\ \A i \in 1..Len(t) : (s \o t)[Len(s) + i] = t[i]
OBVIOUS

\* A sequence that is one followed by another.
LEMMA JoinedBy ==
  ASSUME NEW D, NEW s \in Seq(D), NEW t \in Seq(D), NEW v \in Seq(D),
         Len(v) = Len(s) + Len(t),
         \A i \in 1..Len(s) : v[i] = s[i],
         \A i \in 1..Len(t) : v[Len(s) + i] = t[i]
  PROVE  v = s \o t
<1> DEFINE u == s \o t
<1>1. /\ u \in Seq(D) /\ Len(u) = Len(v) /\ Len(s) \in Nat /\ Len(t) \in Nat
      /\ \A i \in 1..Len(s) : u[i] = s[i]
      /\ \A i \in 1..Len(t) : u[Len(s) + i] = t[i]
  BY Joined, SMTT(60)
<1> HIDE DEF u
<1>2. ASSUME NEW i \in 1..Len(v) PROVE v[i] = u[i]
  <2>1. CASE i <= Len(s)
    <3>1. i \in 1..Len(s)
      BY <2>1
    <3> QED BY <3>1, <1>1
  <2>2. CASE ~(i <= Len(s))
    <3>1. i - Len(s) \in 1..Len(t) /\ Len(s) + (i - Len(s)) = i
      BY <2>2, <1>1
    <3>2. v[Len(s) + (i - Len(s))] = t[i - Len(s)] /\ u[Len(s) + (i - Len(s))] = t[i - Len(s)]
      BY <3>1, <1>1
    <3> QED BY <3>1, <3>2
  <2> QED BY <2>1, <2>2
<1>3. v = u
  BY <1>1, <1>2, SameSeq
<1> QED BY <1>3 DEF u

LEMMA Behind ==
  ASSUME NEW D, NEW s \in Seq(D), NEW n \in 0..Len(s)
  PROVE  /\ From(s, n) \in Seq(D) /\ Len(From(s, n)) = Len(s) - n
         /\ Len(s) \in Nat /\ Len(From(s, n)) \in Nat
         /\ DOMAIN s = 1..Len(s) /\ DOMAIN From(s, n) = 1..(Len(s) - n)
         /\ \A i \in 1..(Len(s) - n) : i + n \in 1..Len(s) /\ From(s, n)[i] = s[i + n]
BY SMTT(20) DEF From

--------------------------------------------------------------------------------
(* Routing: the action and the message of a request decide what becomes of it. *)

\* A set of natural numbers has a least element. This follows from the library's facts
\* about well-founded relations, which WireCallProofs brings in at its end, where
\* nothing else is slowed down by them; the lemmas until then assume it.
WellOrdered == \A T \in SUBSET Nat : T # {} => \E x \in T : \A y \in T : x <= y

\* The text before the first dot and the text behind it are the service and the method.
LEMMA SplitAt ==
  ASSUME NEW str \in Seq(Words), NEW k \in 1..Len(str), str[k] = ".",
         \A i \in 1..(k - 1) : str[i] # "."
  PROVE  SplitOnce(str) = [service |-> SubSeq(str, 1, k - 1), method |-> From(str, k)]
<1> DEFINE dots == {i \in DOMAIN str : str[i] = "."}
           dot == CHOOSE i \in dots : \A j \in dots : i <= j
<1>1. k \in dots /\ dots \subseteq Nat /\ \A j \in dots : k <= j
  OBVIOUS
<1>2. dot \in dots /\ \A j \in dots : dot <= j
  BY <1>1
<1>3. dot = k
  <2>1. dot <= k /\ k <= dot /\ dot \in Nat /\ k \in Nat
    BY <1>1, <1>2
  <2> QED BY <2>1
<1>4. SplitOnce(str) = [service |-> SubSeq(str, 1, dot - 1), method |-> From(str, dot)]
  BY DEF SplitOnce
<1> QED BY <1>3, <1>4, Zenon

LEMMA SplitFirst ==
  ASSUME WellOrdered, NEW str \in Seq(Words), "." \in Range(str)
  PROVE  \E k \in 1..Len(str) : str[k] = "." /\ \A i \in 1..(k - 1) : str[i] # "."
<1> DEFINE dots == {i \in DOMAIN str : str[i] = "."}
<1>1. dots # {} /\ dots \subseteq Nat /\ dots \subseteq 1..Len(str)
  BY DEF Range
<1>2. PICK k \in dots : \A j \in dots : k <= j
  BY <1>1, Zenon DEF WellOrdered
<1>3. \A i \in 1..(k - 1) : str[i] # "."
  <2> SUFFICES ASSUME NEW i \in 1..(k - 1), str[i] = "." PROVE FALSE
    OBVIOUS
  <2>1. i \in dots /\ i < k
    BY <1>1
  <2> QED BY <1>1, <1>2, <2>1
<1> QED BY <1>1, <1>2, <1>3

LEMMA SplitParts ==
  ASSUME WellOrdered, NEW str \in Seq(Words), "." \in Range(str)
  PROVE  LET a == SplitOnce(str)
         IN /\ a.service \in Seq(Words) /\ a.method \in Seq(Words) /\ "." \notin Range(a.service)
            /\ str = a.service \o <<".">> \o a.method
            /\ Len(a.service) + 1 <= Len(str)
            /\ SubSeq(str, 1, Len(a.service) + 1) = a.service \o <<".">>
            /\ SubSeq(str, 1, Len(a.service)) = a.service
<1>1. PICK k \in 1..Len(str) : str[k] = "." /\ \A i \in 1..(k - 1) : str[i] # "."
  BY SplitFirst
<1> DEFINE s == SubSeq(str, 1, k - 1)
           m == From(str, k)
           d == s \o <<".">>
<1>2. SplitOnce(str) = [service |-> s, method |-> m]
  BY <1>1, SplitAt
<1>3. /\ s \in Seq(Words) /\ Len(s) = k - 1 /\ \A i \in 1..(k - 1) : s[i] = str[i]
      /\ Len(str) \in Nat /\ k \in Nat /\ k - 1 \in Nat
  OBVIOUS
<1>4. m \in Seq(Words) /\ Len(m) = Len(str) - k /\ \A i \in 1..(Len(str) - k) : m[i] = str[i + k]
  BY Behind
<1>5. "." \notin Range(s)
  BY <1>1, <1>3, SMTT(20) DEF Range
<1>6. d \in Seq(Words) /\ Len(d) = k /\ \A i \in 1..k : d[i] = str[i]
  <2>1. <<".">> \in Seq(Words) /\ Len(<<".">>) = 1 /\ <<".">>[1] = "."
    BY CallAssumption
  <2>2. d \in Seq(Words) /\ Len(d) = k
    BY <1>3, <2>1
  <2>3. \A i \in 1..(k - 1) : d[i] = str[i]
    BY <1>3, <2>1, Joined
  <2>4. d[k] = "."
    <3>1. \A i \in 1..Len(<<".">>) : d[Len(s) + i] = <<".">>[i]
      BY <1>3, <2>1, Joined
    <3>2. 1 \in 1..Len(<<".">>) /\ Len(s) + 1 = k
      BY <1>3, <2>1
    <3> QED BY <2>1, <3>1, <3>2, Zenon
  <2>5. ASSUME NEW i \in 1..k PROVE d[i] = str[i]
    BY <1>1, <1>3, <2>3, <2>4
  <2> QED BY <2>2, <2>5
<1> HIDE DEF s, m, d
<1>7. str = d \o m
  <2>1. Len(str) = Len(d) + Len(m)
    BY <1>3, <1>4, <1>6
  <2>2. \A i \in 1..Len(m) : str[Len(d) + i] = m[i]
    BY <1>3, <1>4, <1>6, SMTT(20)
  <2> QED BY <1>4, <1>6, <2>1, <2>2, JoinedBy, Zenon
<1>8. SubSeq(str, 1, k) = d
  <2>1. SubSeq(str, 1, k) \in Seq(Words) /\ Len(SubSeq(str, 1, k)) = k
        /\ \A i \in 1..k : SubSeq(str, 1, k)[i] = str[i]
    BY <1>3
  <2> QED BY <1>3, <1>6, <2>1
<1>9. Len(s) + 1 = k /\ k <= Len(str) /\ Len(s) = k - 1
  BY <1>3
<1> HIDE RecordUpdate
<1> QED BY <1>2, <1>3, <1>4, <1>5, <1>7, <1>8, <1>9 DEF s, d

\* str is s, a dot at place k, and m.
Parts(str, s, m, k) ==
  /\ Len(s) = k - 1 /\ Len(str) = k + Len(m) /\ str[k] = "."
  /\ \A i \in 1..Len(s) : str[i] = s[i]
  /\ \A i \in 1..Len(m) : str[k + i] = m[i]

LEMMA SplitPoint ==
  ASSUME NEW str \in Seq(Words), NEW s \in Seq(Words), NEW m \in Seq(Words), NEW k \in Nat,
         Parts(str, s, m, k), "." \notin Range(s)
  PROVE  "." \in Range(str) /\ SplitOnce(str).service = s /\ SplitOnce(str).method = m
<1>1. Len(s) \in Nat /\ Len(m) \in Nat /\ k \in 1..Len(str) /\ k \in 0..Len(str) /\ k - 1 = Len(s)
      /\ DOMAIN str = 1..Len(str) /\ DOMAIN s = 1..Len(s) /\ Len(str) - k = Len(m)
  BY DEF Parts
<1>2. \A i \in 1..Len(s) : s[i] # "."
  BY <1>1, Zenon DEF Range
<1>3. \A i \in 1..(k - 1) : str[i] = s[i] /\ str[i] # "."
  BY <1>1, <1>2, SMTT(20) DEF Parts
<1>4. SplitOnce(str) = [service |-> SubSeq(str, 1, k - 1), method |-> From(str, k)]
  BY <1>1, <1>3, SplitAt, Zenon DEF Parts
<1>5. SubSeq(str, 1, k - 1) = s
  <2> DEFINE u == SubSeq(str, 1, k - 1)
  <2>1. u \in Seq(Words) /\ Len(u) = k - 1 /\ \A i \in 1..(k - 1) : u[i] = str[i]
    BY <1>1
  <2> HIDE DEF u
  <2>2. u = s
    BY <1>1, <1>3, <2>1, SameSeq, SMTT(20)
  <2> QED BY <2>2 DEF u
<1>6. From(str, k) = m
  <2> DEFINE u == From(str, k)
  <2>1. /\ u \in Seq(Words) /\ Len(u) = Len(str) - k
        /\ \A i \in 1..(Len(str) - k) : u[i] = str[i + k]
    BY <1>1, Behind, SMTT(20)
  <2> HIDE DEF u
  <2> HIDE RecordUpdate
  <2>2. ASSUME NEW i \in 1..Len(m) PROVE u[i] = m[i]
    BY <1>1, <2>1 DEF Parts
  <2> USE RecordUpdate
  <2>3. u = m
    BY <1>1, <2>1, <2>2, SameSeq, Zenon
  <2> QED BY <2>3 DEF u
<1>7. "." \in Range(str)
  BY <1>1 DEF Range, Parts
<1> QED BY <1>4, <1>5, <1>6, <1>7

\* A text taken apart at a dot that has none before it.
LEMMA SplitUnique ==
  ASSUME NEW str \in Seq(Words), NEW s \in Seq(Words), NEW m \in Seq(Words),
         str = s \o <<".">> \o m, "." \notin Range(s)
  PROVE  "." \in Range(str) /\ SplitOnce(str).service = s /\ SplitOnce(str).method = m
<1> DEFINE d == s \o <<".">>
           k == Len(d)
<1>1. <<".">> \in Seq(Words) /\ Len(<<".">>) = 1 /\ <<".">>[1] = "."
  BY CallAssumption
<1>2. d \in Seq(Words) /\ Len(d) = Len(s) + 1 /\ Len(s) \in Nat
      /\ (\A i \in 1..Len(s) : d[i] = s[i]) /\ d[Len(s) + 1] = "."
  BY <1>1
<1> HIDE DEF d
<1>3. str = d \o m
  BY DEF d
<1>4. /\ Len(str) = k + Len(m) /\ Len(m) \in Nat /\ k \in Nat /\ Len(s) = k - 1
      /\ \A i \in 1..k : str[i] = d[i]
      /\ \A i \in 1..Len(m) : str[k + i] = m[i]
  <2>0. d \in Seq(Words) /\ m \in Seq(Words)
    BY <1>2
  <2>1. /\ Len(d \o m) = k + Len(m) /\ Len(m) \in Nat /\ k \in Nat
        /\ \A i \in 1..k : (d \o m)[i] = d[i]
        /\ \A i \in 1..Len(m) : (d \o m)[k + i] = m[i]
    BY <2>0, Joined, SMTT(60)
  <2> HIDE DEF k
  <2>2. Len(s) = k - 1
    BY <1>2 DEF k
  <2> QED BY <1>3, <2>1, <2>2, Zenon
<1> HIDE DEF k
<1>5. str[k] = "." /\ \A i \in 1..Len(s) : str[i] = s[i]
  BY <1>2, <1>4, SMTT(20)
<1>6. Parts(str, s, m, k) /\ k \in Nat
  BY <1>4, <1>5, SMTT(20) DEF Parts
<1> QED BY <1>6, SplitPoint, Zenon


LEMMA DecodesBytes ==
  ASSUME NEW k, NEW kind, NEW c, NEW n \in Nat \ {0}
  PROVE  Decodes(k, Bytes(kind, c, n)) <=> kind = k
<1> DEFINE w == Bytes(kind, c, n)
<1>1. DOMAIN w = 1..n /\ \A i \in 1..n : w[i] = Byte(kind, c)
  BY DEF Bytes
<1>2. 1 \in 1..n /\ w # <<>>
  BY DEF Bytes
<1>3. Byte(kind, c).kind = kind
  BY DEF Byte
<1> HIDE DEF w
<1>4. Decodes(k, w) <=> kind = k
  BY <1>1, <1>2, <1>3 DEF Decodes
<1> QED BY <1>4 DEF w

\* A server with several services.
LEMMA MuxRouted ==
  ASSUME WellOrdered, NEW str \in Seq(Words), "." \in Range(str)
  PROVE  LET a == SplitOnce(str)
         IN /\ a.service \in DOMAIN Services <=>
                 ~\A s \in DOMAIN Services, k \in 0..Len(str) : SubSeq(str, 1, k) # s \o <<".">>
            /\ a.service \in DOMAIN Services =>
                 (a.method \in Services[a.service] <=>
                    ~\A s \in DOMAIN Services : \A m \in Services[s] : str # s \o <<".">> \o m)
<1> DEFINE a == SplitOnce(str)
<1>0. /\ a.service \in Seq(Words) /\ a.method \in Seq(Words)
      /\ Len(a.service) + 1 <= Len(str)
  BY SplitParts, Zenon
<1>1. /\ str = a.service \o <<".">> \o a.method
      /\ SubSeq(str, 1, Len(a.service) + 1) = a.service \o <<".">>
  BY SplitParts, Zenon
<1> HIDE DEF a
<1>6. Len(a.service) \in Nat /\ Len(str) \in Nat /\ Len(a.service) + 1 \in 0..Len(str)
  BY <1>0
<1>2. ASSUME NEW s \in DOMAIN Services, NEW m \in Seq(Words), str = s \o <<".">> \o m
      PROVE  s = a.service /\ m = a.method
  <2>1. s \in Seq(Words) /\ "." \notin Range(s)
    BY CallAssumption
  <2> QED BY <1>2, <2>1, SplitUnique, Zenon DEF a
<1>3. ASSUME NEW s \in DOMAIN Services, NEW k \in 0..Len(str), SubSeq(str, 1, k) = s \o <<".">>
      PROVE  s = a.service
  <2>1. From(str, k) \in Seq(Words)
    BY Behind
  <2>2. str = SubSeq(str, 1, k) \o From(str, k)
    <3>1. SubSeq(str, 1, k) \in Seq(Words) /\ Len(SubSeq(str, 1, k)) = k /\ k \in Nat
          /\ \A i \in 1..k : SubSeq(str, 1, k)[i] = str[i]
      OBVIOUS
    <3>2. Len(From(str, k)) = Len(str) - k /\ \A i \in 1..(Len(str) - k) : From(str, k)[i] = str[i + k]
      BY Behind
    <3> DEFINE x == SubSeq(str, 1, k)
               y == From(str, k)
    <3> HIDE DEF x, y
    <3>3. Len(str) = Len(x) + Len(y) /\ x \in Seq(Words) /\ y \in Seq(Words)
      BY <1>6, <2>1, <3>1, <3>2 DEF x, y
    <3>4. \A i \in 1..Len(x) : str[i] = x[i]
      BY <3>1 DEF x
    <3>5. \A i \in 1..Len(y) : str[Len(x) + i] = y[i]
      BY <1>6, <3>1, <3>2 DEF x, y
    <3>6. str = x \o y
      BY <3>3, <3>4, <3>5, JoinedBy, Zenon
    <3> QED BY <3>6 DEF x, y
  <2>3. str = s \o <<".">> \o From(str, k)
    BY <1>3, <2>2, Zenon
  <2> QED BY <1>2, <2>1, <2>3, Zenon
<1>4. a.service \in DOMAIN Services <=>
        ~\A s \in DOMAIN Services, k \in 0..Len(str) : SubSeq(str, 1, k) # s \o <<".">>
  BY <1>1, <1>3, <1>6, Zenon
<1>5. ASSUME a.service \in DOMAIN Services
      PROVE  a.method \in Services[a.service] <=>
               ~\A s \in DOMAIN Services : \A m \in Services[s] : str # s \o <<".">> \o m
  <2>1. \A s \in DOMAIN Services : Services[s] \subseteq Seq(Words)
    BY CallAssumption
  <2> QED BY <1>0, <1>1, <1>2, <1>5, <2>1, Zenon
<1> QED BY <1>4, <1>5, Zenon DEF a

\* A server with one service, which is not asked for its name.
LEMMA SingleRouted ==
  ASSUME WellOrdered, NEW q, q.action.str \in Seq(Words), "." \in Range(q.action.str)
  PROVE  SplitOnce(q.action.str).method \in Services[Single] <=>
           ~\A m \in Services[Single] : ~NamesMethod(q.action, m)
<1> DEFINE str == q.action.str
           a == SplitOnce(str)
<1>0. /\ a.service \in Seq(Words) /\ a.method \in Seq(Words)
      /\ Len(a.service) + 1 <= Len(str)
  BY SplitParts, Zenon
<1>1. /\ str = a.service \o <<".">> \o a.method
      /\ SubSeq(str, 1, Len(a.service)) = a.service /\ "." \notin Range(a.service)
  BY SplitParts, Zenon
<1>2. Services[Single] \subseteq Seq(Words)
  BY CallAssumption
<1> HIDE DEF a
<1>3. ASSUME NEW m \in Services[Single], NamesMethod(q.action, m) PROVE m = a.method
  <2>1. PICK k \in 0..Len(str) : /\ "." \notin Range(SubSeq(str, 1, k))
                                 /\ str = SubSeq(str, 1, k) \o <<".">> \o m
    BY <1>3, Zenon DEF NamesMethod, Names
  <2>2. SubSeq(str, 1, k) \in Seq(Words)
    OBVIOUS
  <2> QED BY <1>2, <2>1, <2>2, SplitUnique, Zenon DEF a
<1>4. NamesMethod(q.action, a.method)
  <2>1. Len(a.service) \in 0..Len(str)
    BY <1>0
  <2> QED BY <1>1, <2>1, Zenon DEF NamesMethod, Names
<1> QED BY <1>3, <1>4, Zenon DEF a

\* What becomes of a request is what its action and its message say.
LEMMA Routed ==
  ASSUME WellOrdered, layer \in {"mux", "single", "stream"}, NEW q, NEW req, NEW c,
         q.action \in RpcActions, Api => q.action.tag = "Str", q.msg \in Nat \ {0},
         req.action = q.action, req.msg = Bytes(q.kind, c, q.msg)
  PROVE  Dispatch(req) = Rejection(q)
<1>1. Decodes("req", req.msg) <=> q.kind = "req"
  BY DecodesBytes
<1>2. CASE layer = "stream"
  BY <1>1, <1>2 DEF Dispatch, Api, StreamDispatch, Rejection
<1> DEFINE str == q.action.str
           a == SplitOnce(str)
<1>3. CASE layer # "stream" /\ "." \notin Range(str)
  BY <1>3 DEF Dispatch, Api, ApiDispatch, Rejection
<1>4. str \in Seq(Words)
  BY DEF RpcActions
<1>5. CASE layer = "mux" /\ "." \in Range(str)
  <2>1. Dispatch(req) = ServeMux(a, req)
    BY <1>5 DEF Dispatch, Api, ApiDispatch
  <2>2. CASE a.service \notin DOMAIN Services
    <3>1. Dispatch(req) = "Service"
      BY <2>1, <2>2 DEF ServeMux
    <3>2. \A s \in DOMAIN Services, k \in 0..Len(str) : SubSeq(str, 1, k) # s \o <<".">>
      BY <1>4, <1>5, <2>2, MuxRouted, Zenon
    <3>3. Rejection(q) = "Service"
      BY <1>5, <3>2, Zenon DEF Rejection
    <3> QED BY <3>1, <3>3
  <2>3. CASE a.service \in DOMAIN Services
    <3>1. Dispatch(req) = ServeService(Services[a.service], a.method, req)
      BY <2>1, <2>3 DEF ServeMux
    <3>2. ~\A s \in DOMAIN Services, k \in 0..Len(str) : SubSeq(str, 1, k) # s \o <<".">>
      BY <1>4, <1>5, <2>3, MuxRouted, Zenon
    <3>3. a.method \in Services[a.service] <=>
            ~\A s \in DOMAIN Services : \A m \in Services[s] : ~Names(q.action, s, m)
      BY <1>4, <1>5, <2>3, MuxRouted, Zenon DEF Names
    <3>4. Rejection(q) = IF a.method \notin Services[a.service] THEN "Method"
                         ELSE IF q.kind = "req" THEN "none" ELSE "Decode"
      BY <1>5, <3>2, <3>3 DEF Rejection
    <3> QED BY <1>1, <3>1, <3>4 DEF ServeService, HandleMethod
  <2> QED BY <2>2, <2>3
<1>6. CASE layer = "single" /\ "." \in Range(str)
  <2>1. Dispatch(req) = ServeService(Services[Single], a.method, req)
    BY <1>6 DEF Dispatch, Api, ApiDispatch
  <2>2. a.method \in Services[Single] <=> ~\A m \in Services[Single] : ~NamesMethod(q.action, m)
    BY <1>4, <1>6, SingleRouted
  <2>3. Rejection(q) = IF a.method \notin Services[Single] THEN "Method"
                       ELSE IF q.kind = "req" THEN "none" ELSE "Decode"
    BY <1>6, <2>2 DEF Rejection
  <2> QED BY <1>1, <2>1, <2>3 DEF ServeService, HandleMethod
<1> QED BY <1>2, <1>3, <1>5, <1>6

\* The task of a request that is not rejected has the request's action.
LEMMA TaskOf ==
  ASSUME WellOrdered, NEW req, Dispatch(req) = "none"
  PROVE  /\ ServerTask(req).action = req.action /\ ServerTask(req).seq = req.seq
         /\ ServerTask(req).blob = Len(req.blob)
<1>1. CASE Api
  BY <1>1 DEF ServerTask
<1>2. CASE ~Api
  <2> DEFINE T == VariantOf(req.action)
             v == CHOOSE x \in T : \A w \in T : x <= w
  <2>1. T # {} /\ T \subseteq Nat /\ T \subseteq DOMAIN Variants
    BY <1>2, CallAssumption DEF Dispatch, StreamDispatch, VariantOf
  <2>2. \E x \in T : \A w \in T : x <= w
    BY <2>1 DEF WellOrdered
  <2>3. v \in T
    BY <2>2
  <2>4. PICK i \in DOMAIN Variants[v] : Variants[v][i] = req.action
    BY <2>3, Zenon DEF VariantOf
  <2>5. Variants[v] \in Seq(RpcActions)
    BY <2>1, <2>3, CallAssumption
  <2>6. ServerTask(req).action = TaskAction(v, req.action)
    BY <1>2 DEF ServerTask
  <2>7. ServerTask(req).seq = req.seq /\ ServerTask(req).blob = Len(req.blob)
    BY DEF ServerTask
  <2> HIDE DEF v
  <2>8. TaskAction(v, req.action) = req.action
    BY <2>4, <2>5 DEF TaskAction
  <2> QED BY <2>6, <2>7, <2>8
<1> QED BY <1>1, <1>2


--------------------------------------------------------------------------------
(* Frames. *)

\* The frame sizes of a wire: at a header, the number of units of its frame.
\* Where a frame begins, the next one begins behind it.
Chain(n) ==
  /\ n # <<>> => n[1] > 0
  /\ \A i, j \in 1..Len(n) : n[i] > 0 /\ j = i + n[i] => n[j] > 0

\* No frame is cut off.
Whole(n) == \A i \in 1..Len(n) : n[i] > 0 => i + n[i] <= Len(n) + 1

\* Writing a frame, or a part of one, behind frames none of which is cut off.
LEMMA ChainWrite ==
  ASSUME NEW n \in Seq(Nat), NEW f \in Seq(Nat), Chain(n), Whole(n), Len(f) > 0,
         f[1] >= Len(f), \A k \in 2..Len(f) : f[k] = 0
  PROVE  /\ Chain(n \o f)
         /\ f[1] = Len(f) => Whole(n \o f)
<1> DEFINE u == n \o f
           k == Len(n)
<1>0. u \in Seq(Nat) /\ \A i \in 1..k : u[i] = n[i]
  BY Joined
<1>1. Len(u) = k + Len(f) /\ k \in Nat /\ Len(f) \in Nat
  BY Joined
<1>2. u[k + 1] = f[1] /\ f[1] \in Nat /\ f[1] > 0
  BY Joined
<1>3. \A i \in 1..Len(u) : i > k + 1 => u[i] = 0
  <2> SUFFICES ASSUME NEW i \in 1..Len(u), i > k + 1 PROVE u[i] = 0
    OBVIOUS
  <2>1. i - k \in 2..Len(f) /\ i - k \in 1..Len(f) /\ k + (i - k) = i
    BY <1>1
  <2>2. u[k + (i - k)] = f[i - k]
    BY <2>1, Joined, SMTT(20)
  <2> QED BY <2>1, <2>2
<1>4. \A i \in 1..k : n[i] \in Nat
  OBVIOUS
<1>5. k = Len(n) /\ (k = 0 <=> n = <<>>)
  OBVIOUS
<1> HIDE DEF u, k
<1>6. u # <<>> => u[1] > 0
  <2>1. CASE k = 0
    BY <2>1, <1>2
  <2>2. CASE k # 0
    <3>1. n[1] > 0
      BY <2>2, <1>5 DEF Chain
    <3> HIDE RecordUpdate
    <3>2. u[1] = n[1]
      BY <2>2, <1>0, <1>1
    <3> USE RecordUpdate
    <3> QED BY <3>1, <3>2
  <2> QED BY <2>1, <2>2
<1>7. ASSUME NEW i \in 1..Len(u), NEW j \in 1..Len(u), u[i] > 0, j = i + u[i] PROVE u[j] > 0
  <2>1. CASE i <= k
    <3>1. i \in 1..k /\ u[i] = n[i] /\ n[i] \in Nat /\ j <= k + 1
      BY <2>1, <1>0, <1>1, <1>4, <1>5, <1>7 DEF Whole
    <3>2. CASE j <= k
      <4>1. j \in 1..k /\ n[j] > 0
        BY <3>1, <3>2, <1>5, <1>7 DEF Chain
      <4> QED BY <4>1, <1>0, Zenon
    <3>3. CASE j = k + 1
      BY <3>3, <1>2
    <3> HIDE RecordUpdate
    <3>4. j <= k \/ j = k + 1
      BY <3>1, <1>1
    <3> USE RecordUpdate
    <3> QED BY <3>2, <3>3, <3>4
  <2>2. CASE i > k
    <3> HIDE RecordUpdate
    <3>1. i = k + 1
      BY <2>2, <1>1, <1>3, <1>7
    <3> USE RecordUpdate
    <3>2. u[i] >= Len(f) /\ u[i] \in Nat
      BY <3>1, <1>2
    <3> QED BY <3>1, <3>2, <1>1, <1>7
  <2> QED BY <2>1, <2>2, <1>1
<1>8. ASSUME f[1] = Len(f), NEW i \in 1..Len(u), u[i] > 0 PROVE i + u[i] <= Len(u) + 1
  <2>1. CASE i <= k
    <3>1. i \in 1..k /\ u[i] = n[i] /\ n[i] \in Nat /\ i + n[i] <= k + 1
      BY <2>1, <1>0, <1>1, <1>4, <1>5, <1>8 DEF Whole
    <3> QED BY <3>1, <1>1, SMTT(20)
  <2>2. CASE i > k
    <3> HIDE RecordUpdate
    <3>1. i = k + 1
      BY <2>2, <1>1, <1>3, <1>8
    <3> USE RecordUpdate
    <3>2. u[i] = Len(f)
      BY <3>1, <1>2, <1>8
    <3> QED BY <3>1, <3>2, <1>1
  <2> QED BY <2>1, <2>2, <1>1
<1> QED BY <1>6, <1>7, <1>8, Zenon DEF Chain, Whole, u

\* Reading a frame.
LEMMA ChainRead ==
  ASSUME NEW n \in Seq(Nat), Chain(n), n # <<>>, n[1] <= Len(n)
  PROVE  /\ Chain(From(n, n[1]))
         /\ Whole(n) => Whole(From(n, n[1]))
<1> DEFINE k == n[1]
           u == From(n, k)
<1>1. Len(n) \in Nat /\ Len(n) > 0 /\ k \in 1..Len(n) /\ k \in 0..Len(n)
  <2>1. n[1] > 0 /\ n[1] \in Nat
    BY DEF Chain
  <2> QED BY <2>1
<1>4. k = n[1]
  OBVIOUS
<1> HIDE DEF k
<1>2. /\ u \in Seq(Nat) /\ Len(u) = Len(n) - k
      /\ \A i \in 1..(Len(n) - k) : u[i] = n[i + k]
  BY <1>1, Behind, ZenonT(30)
<1>3. Len(u) = Len(n) - k
  BY <1>2
<1> HIDE DEF u
<1>5. ASSUME NEW i \in 1..Len(u)
      PROVE  i + k \in 1..Len(n) /\ u[i] = n[i + k] /\ u[i] \in Nat
  <2>1. i \in 1..(Len(n) - k) /\ i + k \in 1..Len(n)
    BY <1>1, <1>2, SMTT(60)
  <2>2. u[i] = n[i + k]
    BY <2>1, <1>2
  <2> QED BY <2>1, <2>2
<1>6. u # <<>> => u[1] > 0
  <2> SUFFICES ASSUME u # <<>> PROVE u[1] > 0
    OBVIOUS
  <2>1. 1 \in 1..Len(u) /\ 1 \in 1..Len(n)
    BY <1>1, <1>2
  <2>2. u[1] = n[1 + k] /\ 1 + k \in 1..Len(n)
    BY <2>1, <1>5
  <2>3. n[1] > 0 /\ 1 + k = 1 + n[1]
    BY <1>1, <1>4
  <2> QED BY <2>1, <2>2, <2>3, SMTT(20) DEF Chain
<1>7. ASSUME NEW i \in 1..Len(u), NEW j \in 1..Len(u), u[i] > 0, j = i + u[i] PROVE u[j] > 0
  <2>1. i + k \in 1..Len(n) /\ u[i] = n[i + k] /\ u[i] \in Nat
    BY <1>5
  <2>2. j + k \in 1..Len(n) /\ u[j] = n[j + k]
    BY <1>5
  <2>3. j + k = (i + k) + n[i + k] /\ n[i + k] > 0
    BY <2>1, <1>1, <1>7, SMTT(20)
  <2>4. n[j + k] > 0
    BY <2>1, <2>2, <2>3, Zenon DEF Chain
  <2> QED BY <2>2, <2>4
<1>8. ASSUME Whole(n), NEW i \in 1..Len(u), u[i] > 0 PROVE i + u[i] <= Len(u) + 1
  <2>1. i + k \in 1..Len(n) /\ u[i] = n[i + k] /\ u[i] \in Nat
    BY <1>5
  <2>2. (i + k) + n[i + k] <= Len(n) + 1
    BY <2>1, <1>8 DEF Whole
  <2>3. u[i] \in Nat /\ (i + k) + u[i] <= Len(n) + 1
    BY <2>1, <2>2
  <2>4. i \in Int /\ k \in Int /\ Len(n) \in Int
    BY <1>1
  <2>5. \A x \in Nat : (i + k) + x <= Len(n) + 1 => i + x <= (Len(n) - k) + 1
    BY <2>4, SMTT(20)
  <2> QED BY <2>3, <2>5, <1>3
<1>9. Chain(u) /\ (Whole(n) => Whole(u))
  BY <1>6, <1>7, <1>8 DEF Chain, Whole
<1> QED BY <1>9, <1>4 DEF u

RespSize(h) ==
  1 + (IF h.a = 0 THEN h.m + h.b ELSE IF h.a = RESP_FLAG_HAS_ERR_STRING THEN h.b ELSE 0)

\* The frame sizes of the two wires.
ReqMarks(w) == [i \in DOMAIN w |-> IF IsHead(w[i]) THEN ReqSize(w[i]) ELSE 0]
RespMarks(w) == [i \in DOMAIN w |-> IF IsHead(w[i]) THEN RespSize(w[i]) ELSE 0]

LEMMA Sizes ==
  ASSUME NEW h \in Unit
  PROVE  ReqSize(h) \in Nat \ {0} /\ RespSize(h) \in Nat \ {0} /\ BlobLen(h) = h.b
BY Widths DEF Unit, ReqSize, ActionLen, BlobLen, GetAction, AsI32, RespSize, U32_HIGH_MASK

LEMMA MarksSeq ==
  ASSUME NEW w \in Seq(Unit)
  PROVE  /\ ReqMarks(w) \in Seq(Nat) /\ Len(ReqMarks(w)) = Len(w)
         /\ RespMarks(w) \in Seq(Nat) /\ Len(RespMarks(w)) = Len(w)
<1>1. \A i \in 1..Len(w) : w[i] \in Unit
  OBVIOUS
<1>2. \A i \in 1..Len(w) : ReqSize(w[i]) \in Nat /\ RespSize(w[i]) \in Nat
  BY <1>1, Sizes
<1>3. DOMAIN w = 1..Len(w) /\ Len(w) \in Nat
  OBVIOUS
<1> QED BY <1>2, <1>3 DEF ReqMarks, RespMarks

LEMMA MarksJoin ==
  ASSUME NEW w \in Seq(Unit), NEW f \in Seq(Unit)
  PROVE  /\ ReqMarks(w \o f) = ReqMarks(w) \o ReqMarks(f)
         /\ RespMarks(w \o f) = RespMarks(w) \o RespMarks(f)
<1> DEFINE u == w \o f
<1>1. /\ u \in Seq(Unit) /\ Len(u) = Len(w) + Len(f) /\ Len(w) \in Nat /\ Len(f) \in Nat
      /\ \A i \in 1..Len(w) : u[i] = w[i]
      /\ \A i \in 1..Len(f) : u[Len(w) + i] = f[i]
      /\ DOMAIN w = 1..Len(w) /\ DOMAIN f = 1..Len(f) /\ DOMAIN u = 1..Len(u)
  BY Joined
<1>2. /\ \A i \in 1..Len(w) : i \in DOMAIN u
      /\ \A i \in 1..Len(f) : Len(w) + i \in DOMAIN u
  BY <1>1
<1> HIDE DEF u
<1>3. ReqMarks(u) = ReqMarks(w) \o ReqMarks(f)
  <2>1. /\ ReqMarks(w) \in Seq(Nat) /\ Len(ReqMarks(w)) = Len(w)
        /\ ReqMarks(f) \in Seq(Nat) /\ Len(ReqMarks(f)) = Len(f)
        /\ ReqMarks(u) \in Seq(Nat) /\ Len(ReqMarks(u)) = Len(u)
    BY <1>1, MarksSeq
  <2>2. \A i \in 1..Len(w) : ReqMarks(u)[i] = ReqMarks(w)[i]
    BY <1>1, <1>2 DEF ReqMarks
  <2>3. ASSUME NEW i \in 1..Len(f) PROVE ReqMarks(u)[Len(w) + i] = ReqMarks(f)[i]
    <3>1. ReqMarks(u)[Len(w) + i] = IF IsHead(u[Len(w) + i]) THEN ReqSize(u[Len(w) + i]) ELSE 0
      BY <1>1, <1>2 DEF ReqMarks
    <3>2. ReqMarks(f)[i] = IF IsHead(f[i]) THEN ReqSize(f[i]) ELSE 0
      BY <1>1 DEF ReqMarks
    <3> QED BY <3>1, <3>2, <1>1
  <2>4. Len(ReqMarks(u)) = Len(ReqMarks(w)) + Len(ReqMarks(f))
    BY <2>1, <1>1
  <2>5. \A i \in 1..Len(ReqMarks(f)) : ReqMarks(u)[Len(ReqMarks(w)) + i] = ReqMarks(f)[i]
    BY <2>1, <2>3
  <2>6. \A i \in 1..Len(ReqMarks(w)) : ReqMarks(u)[i] = ReqMarks(w)[i]
    BY <2>1, <2>2
  <2> QED BY <2>1, <2>4, <2>5, <2>6, JoinedBy, Zenon
<1>4. RespMarks(u) = RespMarks(w) \o RespMarks(f)
  <2>1. /\ RespMarks(w) \in Seq(Nat) /\ Len(RespMarks(w)) = Len(w)
        /\ RespMarks(f) \in Seq(Nat) /\ Len(RespMarks(f)) = Len(f)
        /\ RespMarks(u) \in Seq(Nat) /\ Len(RespMarks(u)) = Len(u)
    BY <1>1, MarksSeq
  <2>2. \A i \in 1..Len(w) : RespMarks(u)[i] = RespMarks(w)[i]
    BY <1>1, <1>2 DEF RespMarks
  <2>3. ASSUME NEW i \in 1..Len(f) PROVE RespMarks(u)[Len(w) + i] = RespMarks(f)[i]
    <3>1. RespMarks(u)[Len(w) + i] = IF IsHead(u[Len(w) + i]) THEN RespSize(u[Len(w) + i]) ELSE 0
      BY <1>1, <1>2 DEF RespMarks
    <3>2. RespMarks(f)[i] = IF IsHead(f[i]) THEN RespSize(f[i]) ELSE 0
      BY <1>1 DEF RespMarks
    <3> QED BY <3>1, <3>2, <1>1
  <2>4. Len(RespMarks(u)) = Len(RespMarks(w)) + Len(RespMarks(f))
    BY <2>1, <1>1
  <2>5. \A i \in 1..Len(RespMarks(f)) : RespMarks(u)[Len(RespMarks(w)) + i] = RespMarks(f)[i]
    BY <2>1, <2>3
  <2>6. \A i \in 1..Len(RespMarks(w)) : RespMarks(u)[i] = RespMarks(w)[i]
    BY <2>1, <2>2
  <2> QED BY <2>1, <2>4, <2>5, <2>6, JoinedBy, Zenon
<1> QED BY <1>3, <1>4 DEF u

LEMMA MarksFrom ==
  ASSUME NEW w \in Seq(Unit), NEW n \in 0..Len(w)
  PROVE  /\ ReqMarks(From(w, n)) = From(ReqMarks(w), n)
         /\ RespMarks(From(w, n)) = From(RespMarks(w), n)
<1> DEFINE u == From(w, n)
<1>1. /\ u \in Seq(Unit) /\ Len(u) = Len(w) - n /\ Len(w) \in Nat
      /\ \A i \in 1..(Len(w) - n) : u[i] = w[i + n]
      /\ DOMAIN w = 1..Len(w) /\ DOMAIN u = 1..(Len(w) - n)
  BY Behind
<1> HIDE DEF u
<1> HIDE RecordUpdate
<1>2. ReqMarks(u) = From(ReqMarks(w), n)
  BY <1>1, MarksSeq DEF ReqMarks, From
<1> USE RecordUpdate
<1> HIDE RecordUpdate
<1>3. RespMarks(u) = From(RespMarks(w), n)
  BY <1>1, MarksSeq DEF RespMarks, From
<1> USE RecordUpdate
<1> QED BY <1>2, <1>3 DEF u

\* The bytes of a message or a blob, and of a text.
Body == {"txt", "req", "odd", "rsp", "blob"}

LEMMA BytesSeq ==
  ASSUME NEW kind \in Body \ {"txt"}, NEW own \in Calls, NEW n \in Nat
  PROVE  /\ Bytes(kind, own, n) \in Seq(Unit) /\ Len(Bytes(kind, own, n)) = n
         /\ \A i \in 1..n : Bytes(kind, own, n)[i] = Byte(kind, own)
         /\ Byte(kind, own) \in Unit /\ ~IsHead(Byte(kind, own))
<1>1. Byte(kind, own) \in Unit /\ ~IsHead(Byte(kind, own))
  BY Widths DEF Byte, Unit, Body, IsHead
<1> QED BY <1>1 DEF Bytes

LEMMA TextSeq ==
  ASSUME NEW s \in Seq(Words)
  PROVE  /\ Text(s) \in Seq(Unit) /\ Len(Text(s)) = Len(s)
         /\ \A i \in 1..Len(s) : /\ Text(s)[i] = Byte("txt", s[i])
                                 /\ ~IsHead(Text(s)[i])
<1>1. \A i \in 1..Len(s) : Byte("txt", s[i]) \in Unit
  BY Widths DEF Byte, Unit
<1>2. DOMAIN s = 1..Len(s) /\ Len(s) \in Nat
  OBVIOUS
<1>3. \A i \in 1..Len(s) : ~IsHead(Byte("txt", s[i]))
  BY DEF Byte, IsHead
<1> QED BY <1>1, <1>2, <1>3 DEF Text

\* An action whose number or length a header can carry.
Carries(a) == IF a.tag = "Num" THEN a.num \in 0..I32_MAX ELSE Len(a.str) <= I32_MAX

\* A request that was encoded.
Encoded(q) ==
  /\ IsAction(q.action) /\ Carries(q.action)
  /\ q.kind \in {"req", "odd"}
  /\ q.msg \in 1..U32_MAX /\ q.blob \in 0..I32_MAX

\* The field for the action says whether a number or a text follows, and which.
LEMMA ActionField ==
  ASSUME NEW a, IsAction(a), Carries(a)
  PROVE  LET h == ActionFlag(a)
         IN /\ h \in 0..U32_MAX
            /\ a.tag = "Num" => h < Half /\ h = a.num
            /\ a.tag = "Str" => h >= Half /\ h - Half = Len(a.str)
<1>1. CASE a.tag = "Num"
  BY <1>1, Widths DEF Carries, ActionFlag, AsU32
<1>2. CASE a.tag = "Str"
  <2>1. Len(a.str) \in 0..I32_MAX
    BY <1>2, Widths DEF IsAction, RpcActions, Carries
  <2>2. Low32(Len(a.str)) = Len(a.str)
    BY <2>1, LowSame, Widths
  <2> QED BY <1>2, <2>1, <2>2, Widths, SMTT(20) DEF ActionFlag, U32_HIGH_MASK
<1> QED BY <1>1, <1>2 DEF IsAction, RpcActions

LEMMA ReqFrame ==
  ASSUME NEW c \in Calls, NEW q, Encoded(q)
  PROVE  LET f == Frame(c, q).bytes
             n == Len(q.action.str)
         IN /\ f \in Seq(Unit) /\ n \in Nat /\ Len(f) = 1 + n + q.msg + q.blob
            /\ f[1] = ReqHead(c, ActionFlag(q.action), q.msg, q.blob)
            /\ \A i \in 1..n : f[1 + i] = Byte("txt", q.action.str[i])
            /\ \A i \in 1..q.msg : f[1 + n + i] = Byte(q.kind, c)
            /\ \A i \in 1..q.blob : f[1 + n + q.msg + i] = Byte("blob", c)
<1> DEFINE h == ReqHead(c, ActionFlag(q.action), q.msg, q.blob)
           t == Text(q.action.str)
           n == Len(q.action.str)
           m == Bytes(q.kind, c, q.msg)
           b == Bytes("blob", c, q.blob)
           f == <<h>> \o t \o m \o b
<1>1. q.action.str \in Seq(Words) /\ n \in Nat /\ q.msg \in Nat /\ q.blob \in Nat
  BY Widths, SMTT(20) DEF Encoded, IsAction, RpcActions
<1>2. h \in Unit
  BY <1>1, ActionField, Widths, SMTT(20) DEF Encoded, ReqHead, Unit, AsU32
<1>3. t \in Seq(Unit) /\ Len(t) = n /\ \A i \in 1..n : t[i] = Byte("txt", q.action.str[i])
  BY <1>1, TextSeq
<1>4. m \in Seq(Unit) /\ Len(m) = q.msg /\ \A i \in 1..q.msg : m[i] = Byte(q.kind, c)
  BY <1>1, BytesSeq, Zenon DEF Encoded, Body
<1>5. b \in Seq(Unit) /\ Len(b) = q.blob /\ \A i \in 1..q.blob : b[i] = Byte("blob", c)
  BY <1>1, BytesSeq, Zenon DEF Body
<1>6. Frame(c, q).bytes = f
  BY <1>4, <1>5 DEF Frame, EncodeReq
<1> HIDE DEF h, t, m, b, n
<1> DEFINE f1 == <<h>> \o t
           f2 == f1 \o m
<1>7. /\ f1 \in Seq(Unit) /\ Len(f1) = 1 + n /\ f1[1] = h
      /\ \A i \in 1..n : f1[1 + i] = t[i]
  BY <1>1, <1>2, <1>3, SMTT(20)
<1> HIDE DEF f1
<1>8. /\ f2 \in Seq(Unit) /\ Len(f2) = 1 + n + q.msg
      /\ \A i \in 1..(1 + n) : f2[i] = f1[i]
      /\ \A i \in 1..q.msg : f2[1 + n + i] = m[i]
  <2>1. f1 \in Seq(Unit) /\ m \in Seq(Unit)
    BY <1>4, <1>7
  <2>2. /\ f2 \in Seq(Unit) /\ Len(f2) = Len(f1) + Len(m)
        /\ \A i \in 1..Len(f1) : f2[i] = f1[i]
        /\ \A i \in 1..Len(m) : f2[Len(f1) + i] = m[i]
    BY <2>1, Joined
  <2>3. Len(f1) = 1 + n /\ Len(m) = q.msg
    BY <1>4, <1>7
  <2> QED BY <2>2, <2>3, SMTT(20)
<1> HIDE DEF f2
<1>9. f = f2 \o b
  BY DEF f1, f2
<1>10. /\ f \in Seq(Unit) /\ Len(f) = 1 + n + q.msg + q.blob
       /\ \A i \in 1..(1 + n + q.msg) : f[i] = f2[i]
       /\ \A i \in 1..q.blob : f[1 + n + q.msg + i] = b[i]
  <2> HIDE DEF f
  <2>1. f2 \in Seq(Unit) /\ b \in Seq(Unit)
    BY <1>5, <1>8
  <2>2. /\ f \in Seq(Unit) /\ Len(f) = Len(f2) + Len(b)
        /\ \A i \in 1..Len(f2) : f[i] = f2[i]
        /\ \A i \in 1..Len(b) : f[Len(f2) + i] = b[i]
    BY <2>1, <1>9, Joined, SMTT(20)
  <2>3. Len(f2) = 1 + n + q.msg /\ Len(b) = q.blob
    BY <1>5, <1>8
  <2> QED BY <2>2, <2>3
<1> HIDE DEF f
<1>11. f[1] = h
  BY <1>1, <1>7, <1>8, <1>10, SMTT(20)
<1>12. \A i \in 1..n : f[1 + i] = Byte("txt", q.action.str[i])
  <2> TAKE i \in 1..n
  <2>1. 1 + i \in 1..(1 + n) /\ 1 + i \in 1..(1 + n + q.msg)
    BY <1>1
  <2> QED BY <2>1, <1>3, <1>7, <1>8, <1>10, SMTT(20)
<1>13. \A i \in 1..q.msg : f[1 + n + i] = Byte(q.kind, c)
  <2> TAKE i \in 1..q.msg
  <2>1. 1 + n + i \in 1..(1 + n + q.msg)
    BY <1>1
  <2> QED BY <2>1, <1>4, <1>8, <1>10
<1> QED BY <1>1, <1>5, <1>6, <1>10, <1>11, <1>12, <1>13, Zenon DEF h, n

\* A frame is its header and a body in which there is no other header.
Framed(f) == f \in Seq(Unit) /\ Len(f) > 0 /\ IsHead(f[1]) /\ \A k \in 2..Len(f) : ~IsHead(f[k])

LEMMA ReqFramed ==
  ASSUME NEW c \in Calls, NEW q, Encoded(q)
  PROVE  LET f == Frame(c, q).bytes
         IN /\ Framed(f) /\ f[1].own = c /\ ReqSize(f[1]) = Len(f)
            /\ ActionLen(f[1]) = Len(q.action.str)
            /\ f[1].m = q.msg /\ f[1].b = q.blob
            /\ GetAction(f[1]).tag = q.action.tag
            /\ q.action.tag = "Num" => GetAction(f[1]).num = q.action.num
<1> DEFINE f == Frame(c, q).bytes
           n == Len(q.action.str)
<1>1. /\ f \in Seq(Unit) /\ n \in Nat /\ Len(f) = 1 + n + q.msg + q.blob
      /\ f[1] = ReqHead(c, ActionFlag(q.action), q.msg, q.blob)
      /\ \A i \in 1..n : f[1 + i] = Byte("txt", q.action.str[i])
      /\ \A i \in 1..q.msg : f[1 + n + i] = Byte(q.kind, c)
      /\ \A i \in 1..q.blob : f[1 + n + q.msg + i] = Byte("blob", c)
  BY ReqFrame, Zenon
<1>2. q.msg \in Nat /\ q.blob \in 0..I32_MAX /\ q.blob \in Nat /\ q.kind \in {"req", "odd"}
  BY Widths DEF Encoded
<1>3. q.action.tag = "Num" => n = 0
  BY DEF Encoded, IsAction, Num
<1>4. /\ ActionFlag(q.action) \in 0..U32_MAX
      /\ q.action.tag = "Num" => ActionFlag(q.action) < Half /\ ActionFlag(q.action) = q.action.num
      /\ q.action.tag = "Str" => ActionFlag(q.action) >= Half /\ ActionFlag(q.action) - Half = n
      /\ q.action.tag \in {"Num", "Str"}
  BY ActionField DEF Encoded, IsAction, RpcActions
<1> HIDE DEF f, n
<1>5. /\ IsHead(f[1]) /\ f[1].own = c /\ f[1].m = q.msg /\ f[1].b = q.blob
      /\ f[1].a = ActionFlag(q.action)
  BY <1>1, <1>2 DEF ReqHead, IsHead, AsU32
<1>6. /\ GetAction(f[1]).tag = q.action.tag /\ GetAction(f[1]).len = n
      /\ q.action.tag = "Num" => GetAction(f[1]).num = q.action.num
  BY <1>3, <1>4, <1>5, Widths DEF GetAction, U32_HIGH_MASK, AsI32
<1>7. ReqSize(f[1]) = Len(f)
  <2>1. BlobLen(f[1]) = q.blob
    BY <1>2, <1>5, Widths DEF BlobLen, AsI32
  <2> QED BY <2>1, <1>1, <1>2, <1>5, <1>6 DEF ReqSize, ActionLen
<1>8. ASSUME NEW k \in 2..Len(f) PROVE ~IsHead(f[k])
  <2>1. k \in Int /\ 2 <= k /\ k <= 1 + n + q.msg + q.blob /\ n \in Nat
    BY <1>1, <1>2
  <2>2. CASE k - 1 <= n
    <3>1. k - 1 \in 1..n /\ 1 + (k - 1) = k
      BY <2>1, <2>2, <1>1
    <3>2. f[k] = Byte("txt", q.action.str[k - 1])
      BY <3>1, <1>1
    <3> QED BY <3>2 DEF Byte, IsHead
  <2>3. CASE k - 1 > n /\ k - 1 - n <= q.msg
    <3>1. k - 1 - n \in 1..q.msg /\ 1 + n + (k - 1 - n) = k
      BY <2>1, <2>3, <1>1, <1>2, SMTT(20)
    <3>2. f[k] = Byte(q.kind, c)
      BY <3>1, <1>1
    <3> QED BY <3>2, <1>2 DEF Byte, IsHead
  <2>4. CASE k - 1 - n > q.msg
    <3> HIDE RecordUpdate
    <3>1. k - 1 - n - q.msg \in 1..q.blob /\ 1 + n + q.msg + (k - 1 - n - q.msg) = k
      BY <2>1, <2>4, <1>2, SMTT(20)
    <3> USE RecordUpdate
    <3>2. \A i \in 1..q.blob : f[1 + n + q.msg + i] = Byte("blob", c)
      BY <1>1
    <3>3. f[1 + n + q.msg + (k - 1 - n - q.msg)] = Byte("blob", c)
      BY <3>1, <3>2
    <3>4. f[k] = Byte("blob", c)
      BY <3>1, <3>3
    <3> QED BY <3>4 DEF Byte, IsHead
  <2> QED BY <2>1, <2>2, <2>3, <2>4, <1>1, <1>2
<1>9. Framed(f)
  BY <1>1, <1>2, <1>5, <1>8 DEF Framed
<1> QED BY <1>5, <1>6, <1>7, <1>9 DEF f, n, ActionLen

LEMMA PingFramed ==
  ASSUME NEW c \in Calls
  PROVE  /\ Framed(EncodePing(c)) /\ Len(EncodePing(c)) = 1
         /\ EncodePing(c)[1] = ReqHead(c, PING_ACTION, 0, 0)
         /\ EncodePing(c)[1].own = c /\ ReqSize(EncodePing(c)[1]) = 1
<1> DEFINE h == ReqHead(c, PING_ACTION, 0, 0)
<1>1. h \in Unit /\ IsHead(h) /\ h.own = c
  BY Widths DEF ReqHead, Unit, IsHead, PING_ACTION, AsU32
<1>2. ReqSize(h) = 1
  BY Widths DEF ReqHead, ReqSize, ActionLen, BlobLen, GetAction, AsI32, AsU32, PING_ACTION,
                U32_HIGH_MASK
<1>3. EncodePing(c) = <<h>>
  BY DEF EncodePing
<1> HIDE DEF h
<1>4. Framed(<<h>>) /\ Len(<<h>>) = 1 /\ <<h>>[1] = h
  BY <1>1 DEF Framed
<1> QED BY <1>1, <1>2, <1>3, <1>4 DEF h

\* Writing a frame behind others.
LEMMA WriteFrame ==
  ASSUME NEW w \in Seq(Unit), NEW f, Framed(f)
  PROVE  /\ w \o f \in Seq(Unit) /\ Len(w \o f) = Len(w) + Len(f)
         /\ \A i \in 1..Len(w) : (w \o f)[i] = w[i]
         /\ \A k \in 1..Len(f) : (w \o f)[Len(w) + k] = f[k]
         /\ (w \o f)[Len(w) + 1] = f[1]
         /\ \A i \in 1..(Len(w) + Len(f)) :
              IsHead((w \o f)[i]) => i \in 1..Len(w) \/ i = Len(w) + 1
<1> DEFINE v == w \o f
<1>1. /\ v \in Seq(Unit) /\ Len(v) = Len(w) + Len(f) /\ Len(w) \in Nat /\ Len(f) \in Nat
      /\ \A i \in 1..Len(w) : v[i] = w[i]
      /\ \A k \in 1..Len(f) : v[Len(w) + k] = f[k]
  BY Joined DEF Framed
<1>2. v[Len(w) + 1] = f[1]
  BY <1>1 DEF Framed
<1> HIDE DEF v
<1>3. ASSUME NEW i \in 1..(Len(w) + Len(f)), IsHead(v[i]), i # Len(w) + 1 PROVE i \in 1..Len(w)
  <2> SUFFICES ASSUME i > Len(w) PROVE FALSE
    BY <1>1
  <2>1. i - Len(w) \in 2..Len(f) /\ i - Len(w) \in 1..Len(f) /\ Len(w) + (i - Len(w)) = i
    BY <1>1, <1>3
  <2>2. v[Len(w) + (i - Len(w))] = f[i - Len(w)]
    BY <2>1, <1>1
  <2> QED BY <2>1, <2>2, <1>3 DEF Framed
<1> QED BY <1>1, <1>2, <1>3, SMTT(20) DEF v

LEMMA WriteChain ==
  ASSUME NEW w \in Seq(Unit), NEW f, Framed(f)
  PROVE  /\ /\ Chain(ReqMarks(w)) /\ Whole(ReqMarks(w)) /\ ReqSize(f[1]) >= Len(f)
            => Chain(ReqMarks(w \o f))
         /\ /\ Chain(ReqMarks(w)) /\ Whole(ReqMarks(w)) /\ ReqSize(f[1]) = Len(f)
            => Whole(ReqMarks(w \o f))
         /\ /\ Chain(RespMarks(w)) /\ Whole(RespMarks(w)) /\ RespSize(f[1]) = Len(f)
            => Chain(RespMarks(w \o f)) /\ Whole(RespMarks(w \o f))
<1>1. /\ f \in Seq(Unit) /\ Len(f) \in Nat /\ Len(f) > 0 /\ IsHead(f[1]) /\ DOMAIN f = 1..Len(f)
      /\ \A k \in 2..Len(f) : ~IsHead(f[k])
  BY DEF Framed
<1>2. /\ ReqMarks(w \o f) = ReqMarks(w) \o ReqMarks(f)
      /\ RespMarks(w \o f) = RespMarks(w) \o RespMarks(f)
  BY <1>1, MarksJoin, SMTT(20)
<1>3. /\ ReqMarks(w) \in Seq(Nat) /\ RespMarks(w) \in Seq(Nat)
      /\ ReqMarks(f) \in Seq(Nat) /\ Len(ReqMarks(f)) = Len(f)
      /\ RespMarks(f) \in Seq(Nat) /\ Len(RespMarks(f)) = Len(f)
  BY <1>1, MarksSeq
<1>4. /\ ReqMarks(f)[1] = ReqSize(f[1]) /\ RespMarks(f)[1] = RespSize(f[1])
      /\ \A k \in 2..Len(f) : ReqMarks(f)[k] = 0 /\ RespMarks(f)[k] = 0
  BY <1>1 DEF ReqMarks, RespMarks
<1>5. ReqSize(f[1]) \in Nat /\ RespSize(f[1]) \in Nat
  <2>1. f[1] \in Unit
    BY <1>1
  <2> QED BY <2>1, Sizes
<1>6. ASSUME Chain(ReqMarks(w)), Whole(ReqMarks(w)), ReqSize(f[1]) >= Len(f)
      PROVE  /\ Chain(ReqMarks(w) \o ReqMarks(f))
             /\ ReqSize(f[1]) = Len(f) => Whole(ReqMarks(w) \o ReqMarks(f))
  BY <1>1, <1>3, <1>4, <1>6, ChainWrite
<1>7. ASSUME Chain(RespMarks(w)), Whole(RespMarks(w)), RespSize(f[1]) = Len(f)
      PROVE  Chain(RespMarks(w) \o RespMarks(f)) /\ Whole(RespMarks(w) \o RespMarks(f))
  <2>1. RespMarks(f)[1] >= Len(RespMarks(f)) /\ RespMarks(f)[1] = Len(RespMarks(f))
    BY <1>1, <1>3, <1>4, <1>7
  <2> QED BY <2>1, <1>1, <1>3, <1>4, <1>7, ChainWrite, Zenon
<1>8. ReqSize(f[1]) = Len(f) => ReqSize(f[1]) >= Len(f)
  BY <1>1
<1> QED BY <1>2, <1>6, <1>7, <1>8

--------------------------------------------------------------------------------
(* The three kinds of responses. *)

NumFrame(c, n) == <<RespHead(c, RESP_FLAG_HAS_ERRNO, n, 0)>>
TextFrame(c, s) == <<RespHead(c, RESP_FLAG_HAS_ERR_STRING, 0, Len(s))>> \o Text(s)
OkFrame(c, m, b) == <<RespHead(c, 0, m, b)>> \o (Bytes("rsp", c, m) \o Bytes("blob", c, b))

LEMMA HeadBody ==
  ASSUME NEW h \in Unit, NEW t \in Seq(Unit), IsHead(h), \A i \in 1..Len(t) : ~IsHead(t[i])
  PROVE  /\ Framed(<<h>> \o t) /\ Len(<<h>> \o t) = 1 + Len(t) /\ (<<h>> \o t)[1] = h
         /\ \A i \in 1..Len(t) : (<<h>> \o t)[1 + i] = t[i]
<1> DEFINE f == <<h>> \o t
<1>1. f \in Seq(Unit) /\ Len(f) = 1 + Len(t) /\ f[1] = h /\ Len(t) \in Nat
  OBVIOUS
<1>2. \A i \in 1..Len(t) : f[1 + i] = t[i]
  OBVIOUS
<1> HIDE DEF f
<1>3. ASSUME NEW k \in 2..Len(f) PROVE ~IsHead(f[k])
  <2>1. k - 1 \in 1..Len(t) /\ 1 + (k - 1) = k
    BY <1>1
  <2>2. f[1 + (k - 1)] = t[k - 1]
    BY <2>1, <1>2
  <2> QED BY <2>1, <2>2
<1>4. Framed(f)
  BY <1>1, <1>3 DEF Framed
<1> QED BY <1>1, <1>2, <1>4 DEF f

LEMMA NumFramed ==
  ASSUME NEW c \in Calls, NEW n \in 0..U32_MAX
  PROVE  LET f == NumFrame(c, n)
         IN /\ Framed(f) /\ Len(f) = 1 /\ f[1] = RespHead(c, RESP_FLAG_HAS_ERRNO, n, 0)
            /\ f[1] \in Unit /\ RespSize(f[1]) = Len(f)
<1> DEFINE h == RespHead(c, RESP_FLAG_HAS_ERRNO, n, 0)
<1>1. h \in Unit /\ IsHead(h) /\ RespSize(h) = 1
  BY Widths DEF RespHead, Unit, IsHead, RespSize, RESP_FLAG_HAS_ERRNO, RESP_FLAG_HAS_ERR_STRING
<1> HIDE DEF h
<1>2. Framed(<<h>>) /\ Len(<<h>>) = 1 /\ <<h>>[1] = h
  BY <1>1 DEF Framed
<1> QED BY <1>1, <1>2 DEF h, NumFrame

LEMMA TextFramed ==
  ASSUME NEW c \in Calls, NEW s \in Seq(Words), Len(s) <= I32_MAX
  PROVE  LET f == TextFrame(c, s)
         IN /\ Framed(f) /\ Len(f) = 1 + Len(s)
            /\ f[1] = RespHead(c, RESP_FLAG_HAS_ERR_STRING, 0, Len(s))
            /\ f[1] \in Unit /\ RespSize(f[1]) = Len(f)
            /\ \A i \in 1..Len(s) : f[1 + i] = Byte("txt", s[i])
<1> DEFINE h == RespHead(c, RESP_FLAG_HAS_ERR_STRING, 0, Len(s))
           t == Text(s)
           f == <<h>> \o t
<1>1. Len(s) \in Nat
  OBVIOUS
<1>2. h \in Unit /\ IsHead(h) /\ RespSize(h) = 1 + Len(s)
  BY <1>1, Widths DEF RespHead, Unit, IsHead, RespSize, RESP_FLAG_HAS_ERR_STRING
<1>3. t \in Seq(Unit) /\ Len(t) = Len(s) /\ \A i \in 1..Len(s) : t[i] = Byte("txt", s[i]) /\ ~IsHead(t[i])
  BY TextSeq
<1> HIDE DEF h, t
<1>4. /\ Framed(f) /\ Len(f) = 1 + Len(t) /\ f[1] = h
      /\ \A i \in 1..Len(t) : f[1 + i] = t[i]
  BY <1>2, <1>3, HeadBody
<1> HIDE DEF f
<1>5. /\ Len(f) = 1 + Len(s) /\ \A i \in 1..Len(s) : f[1 + i] = Byte("txt", s[i])
  BY <1>3, <1>4
<1> QED BY <1>2, <1>4, <1>5 DEF h, t, f, TextFrame

LEMMA OkFramed ==
  ASSUME NEW c \in Calls, NEW m \in Nat, NEW b \in 0..I32_MAX, m + b <= U32_MAX
  PROVE  LET f == OkFrame(c, m, b)
         IN /\ Framed(f) /\ Len(f) = 1 + m + b /\ f[1] = RespHead(c, 0, m, b)
            /\ f[1] \in Unit /\ RespSize(f[1]) = Len(f)
            /\ \A i \in 1..m : f[1 + i] = Byte("rsp", c)
            /\ \A i \in 1..b : f[1 + m + i] = Byte("blob", c)
<1> DEFINE h == RespHead(c, 0, m, b)
           x == Bytes("rsp", c, m)
           y == Bytes("blob", c, b)
           t == x \o y
           f == <<h>> \o t
<1>0. m \in Nat /\ b \in Nat
  BY Widths
<1>1. h \in Unit /\ IsHead(h) /\ RespSize(h) = 1 + m + b
  <2>1. m \in 0..U32_MAX /\ b \in 0..I32_MAX /\ 0 \in 0..U32_MAX
    BY <1>0, Widths
  <2>2. h \in Unit /\ IsHead(h)
    BY <2>1 DEF RespHead, Unit, IsHead
  <2>3. RespSize(h) = 1 + m + b
    BY <1>0 DEF RespHead, RespSize
  <2> QED BY <2>2, <2>3
<1>2. x \in Seq(Unit) /\ Len(x) = m /\ \A i \in 1..m : x[i] = Byte("rsp", c)
  BY <1>0, BytesSeq DEF Body
<1>3. y \in Seq(Unit) /\ Len(y) = b /\ \A i \in 1..b : y[i] = Byte("blob", c)
  BY <1>0, BytesSeq DEF Body
<1> HIDE DEF h, x, y
<1>4. /\ t \in Seq(Unit) /\ Len(t) = Len(x) + Len(y)
      /\ \A i \in 1..Len(x) : t[i] = x[i]
      /\ \A i \in 1..Len(y) : t[Len(x) + i] = y[i]
  <2>1. x \in Seq(Unit) /\ y \in Seq(Unit)
    BY <1>2, <1>3
  <2> QED BY <2>1, Joined, SMTT(20)
<1> HIDE DEF t
<1>5. /\ Len(t) = m + b
      /\ \A i \in 1..m : t[i] = Byte("rsp", c)
      /\ \A i \in 1..b : t[m + i] = Byte("blob", c)
  BY <1>2, <1>3, <1>4, Zenon
<1>6. ASSUME NEW i \in 1..Len(t) PROVE ~IsHead(t[i])
  <2>1. CASE i <= m
    BY <2>1, <1>5, <1>0 DEF Byte, IsHead
  <2>2. CASE i > m
    <3>1. i - m \in 1..b /\ m + (i - m) = i
      BY <2>2, <1>5, <1>0
    <3>2. t[m + (i - m)] = Byte("blob", c)
      BY <3>1, <1>5
    <3> QED BY <3>1, <3>2 DEF Byte, IsHead
  <2> QED BY <2>1, <2>2, <1>0
<1>7. /\ Framed(f) /\ Len(f) = 1 + Len(t) /\ f[1] = h
      /\ \A i \in 1..Len(t) : f[1 + i] = t[i]
  BY <1>1, <1>4, <1>6, HeadBody, Zenon
<1> HIDE DEF f
<1>8. \A i \in 1..m : f[1 + i] = Byte("rsp", c)
  <2> TAKE i \in 1..m
  <2>1. i \in 1..Len(t)
    BY <1>0, <1>5
  <2> QED BY <2>1, <1>5, <1>7, Zenon
<1>9. \A i \in 1..b : f[1 + m + i] = Byte("blob", c)
  <2> TAKE i \in 1..b
  <2>1. m + i \in 1..Len(t) /\ 1 + (m + i) = 1 + m + i
    BY <1>0, <1>5
  <2>2. t[m + i] = Byte("blob", c)
    BY <1>5
  <2>3. f[1 + (m + i)] = t[m + i]
    BY <2>1, <1>7
  <2> QED BY <2>1, <2>2, <2>3
<1>10. Len(f) = 1 + m + b
  BY <1>0, <1>5, <1>7
<1> QED BY <1>1, <1>7, <1>8, <1>9, <1>10, Zenon DEF h, x, y, t, f, OkFrame

\* What the encoders make of an outcome, if an encoder that fails writes nothing.
Answer(c, o) ==
  IF o.kind = "ok" THEN OkFrame(c, o.msg, o.blob)
  ELSE IF o.kind = "rpc" THEN TextFrame(c, IntText("Internal"))
  ELSE IF o.kind = "noenc" THEN TextFrame(c, IntText("Encode"))
  ELSE IF o.err.ty \in NumTypes \cup {"Errno"} THEN NumFrame(c, AsU32(o.err.num))
  ELSE IF o.err.ty = "()" THEN NumFrame(c, 0)
  ELSE TextFrame(c, o.err.txt)

LEMMA IntTexts ==
  ASSUME NEW e \in IntErrs
  PROVE  IntText(e) \in Seq(Words) /\ Len(IntText(e)) = 2 /\ IsIntText(IntText(e))
<1>1. e \in Words /\ RPC_ERR_PREFIX \in Words
  BY CallAssumption
<1>2. ASSUME NEW w, NEW x \in w, NEW y \in w PROVE <<x, y>> \in Seq(w) /\ Len(<<x, y>>) = 2
  OBVIOUS
<1>3. IntText(e) \in Seq(Words) /\ Len(IntText(e)) = 2
  BY <1>1, <1>2 DEF IntText
<1>4. IsIntText(IntText(e))
  BY DEF IsIntText
<1> QED BY <1>3, <1>4

LEMMA ErrorFrames ==
  ASSUME NEW c \in Calls
  PROVE  /\ \A n : EncodeError(c, <<>>, EncNum(n)) = NumFrame(c, n)
         /\ \A e : e.tag # "Num" /\ e.txt \in Seq(Words) /\ Len(e.txt) <= I32_MAX
                     => EncodeError(c, <<>>, e) = TextFrame(c, e.txt)
<1>1. ASSUME NEW n PROVE EncodeError(c, <<>>, EncNum(n)) = NumFrame(c, n)
  BY DEF EncodeError, EncNum, NumFrame
<1>2. ASSUME NEW e, e.tag # "Num", e.txt \in Seq(Words), Len(e.txt) <= I32_MAX
      PROVE  EncodeError(c, <<>>, e) = TextFrame(c, e.txt)
  <2> DEFINE h == RespHead(c, RESP_FLAG_HAS_ERR_STRING, 0, Len(e.txt))
  <2>1. Len(e.txt) \in Nat
    BY <1>2
  <2>2. AsI32(Low32(Len(e.txt))) = Len(e.txt)
    <3>1. Low32(Len(e.txt)) = Len(e.txt)
      BY <2>1, <1>2, LowSame, Widths
    <3> QED BY <3>1, <2>1, <1>2, Widths DEF AsI32
  <2>3. <<h>> \o <<>> = <<h>>
    OBVIOUS
  <2> HIDE DEF h
  <2>4. EncodeError(c, <<>>, e) = <<h>> \o <<>> \o Text(e.txt)
    BY <1>2, <2>2 DEF h, EncodeError
  <2> QED BY <2>3, <2>4 DEF TextFrame, h
<1> QED BY <1>1, <1>2

LEMMA Internal ==
  ASSUME NEW c \in Calls
  PROVE  /\ EncodeInternal(c, EncNone) = OkFrame(c, 0, 0)
         /\ \A e \in IntErrs : EncodeInternal(c, EncRpc(e)) = TextFrame(c, IntText(e))
<1>1. EncodeInternal(c, EncNone) = OkFrame(c, 0, 0)
  <2> DEFINE h == RespHead(c, 0, 0, 0)
  <2>1. Bytes("rsp", c, 0) = <<>> /\ Bytes("blob", c, 0) = <<>>
    BY DEF Bytes
  <2>2. <<h>> \o (<<>> \o <<>>) = <<h>>
    OBVIOUS
  <2> QED BY <2>1, <2>2 DEF EncodeInternal, EncNone, OkFrame
<1>2. ASSUME NEW e \in IntErrs PROVE EncodeInternal(c, EncRpc(e)) = TextFrame(c, IntText(e))
  <2>1. EncodeInternal(c, EncRpc(e)) = EncodeError(c, <<>>, EncRpc(e))
    BY DEF EncodeInternal, EncRpc
  <2>2. EncRpc(e).tag # "Num" /\ EncRpc(e).txt = IntText(e)
    BY DEF EncRpc
  <2> HIDE RecordUpdate
  <2>3. IntText(e) \in Seq(Words) /\ Len(IntText(e)) <= I32_MAX
    BY IntTexts, Widths, SMTT(20)
  <2> USE RecordUpdate
  <2> QED BY <2>1, <2>2, <2>3, ErrorFrames
<1> QED BY <1>1, <1>2

LEMMA Outcomed ==
  ASSUME Carried, NEW o \in Outcomes
  PROVE  /\ o.kind \in {"ok", "err", "rpc", "noenc"}
         /\ o.kind = "ok" => /\ o.msg \in Nat /\ o.blob \in 0..I32_MAX
                             /\ o.msg + o.blob <= U32_MAX /\ (Api => o.blob = 0)
         /\ o.kind = "err" => /\ o.err \in Errors /\ o.msg = 0 /\ o.blob = 0
                              /\ Len(o.err.txt) <= I32_MAX
         /\ o.kind = "rpc" => Api
         /\ o.kind # "ok" => o.msg = 0 /\ o.blob = 0
         /\ o.kind = "noenc" => (IF Api THEN o.left = 0 ELSE o.left \in Partial)
<1>1. CASE \E e \in Errors : o = Outcome("err", 0, 0, e, 0)
  BY <1>1 DEF Outcome, Carried
<1>2. CASE Api /\ \E n \in MsgLens \ {0} : o = Outcome("ok", n, 0, NoErr, 0)
  <2>1. PICK n \in MsgLens : o = Outcome("ok", n, 0, NoErr, 0)
    BY <1>2
  <2>2. n \in Nat /\ n + 0 <= U32_MAX /\ 0 \in 0..I32_MAX
    BY CallAssumption, Widths DEF Carried
  <2> QED BY <1>2, <2>1, <2>2 DEF Outcome
<1>3. CASE Api /\ o \in {Outcome("rpc", 0, 0, NoErr, 0), Outcome("noenc", 0, 0, NoErr, 0)}
  BY <1>3 DEF Outcome
<1>4. CASE ~Api /\ \E n \in MsgLens, b \in BlobLens : o = Outcome("ok", n, b, NoErr, 0)
  <2>1. PICK n \in MsgLens, b \in BlobLens : o = Outcome("ok", n, b, NoErr, 0)
    BY <1>4
  <2>2. n \in Nat /\ b \in Nat /\ b <= I32_MAX /\ n + b <= U32_MAX
    BY CallAssumption DEF Carried
  <2>3. b \in 0..I32_MAX
    BY <2>2, Widths
  <2> QED BY <1>4, <2>1, <2>2, <2>3 DEF Outcome
<1>5. CASE ~Api /\ \E k \in Partial : o = Outcome("noenc", 0, 0, NoErr, k)
  BY <1>5 DEF Outcome
<1> QED BY <1>1, <1>2, <1>3, <1>4, <1>5 DEF Outcomes

\* The values of an error type.
LEMMA NumRange ==
  ASSUME NEW ty \in ErrTypes
  PROVE  NumMin(ty) \in (-Half)..0 /\ NumMax(ty) \in 0..U32_MAX
<1>1. S \in Nat /\ 2 * S <= Half /\ Half \in Nat /\ S > 1 /\ I32_MAX = Half - 1 /\ U32_MAX = 2 * Half - 1
  BY WidthAssumption DEF I32_MAX, U32_MAX, U32
<1>2. NumMin(ty) = -S \/ NumMin(ty) = -Half \/ NumMin(ty) = 0
  BY DEF NumMin
<1>3. NumMax(ty) \in {S - 1, 2 * S - 1, I32_MAX, U32_MAX, 0}
  BY DEF NumMax
<1> QED BY <1>1, <1>2, <1>3

LEMMA Encodings ==
  ASSUME NEW e \in Errors
  PROVE  /\ e.ty \in NumTypes \cup {"Errno"} => Encode(e) = EncNum(AsU32(e.num))
         /\ e.ty = "()" => Encode(e) = EncNum(0)
         /\ e.ty \in {"String", "Enum"} => Encode(e).tag \in {"Buf", "Static"} /\ Encode(e).txt = e.txt
         /\ e.ty \in NumTypes \cup {"Errno", "()", "String", "Enum"}
         /\ e.txt \in Seq(Words) /\ AsU32(e.num) \in 0..U32_MAX
<1>1. e \in [ty : ErrTypes, num : Int, txt : Seq(Words)] /\ e.num \in NumMin(e.ty)..NumMax(e.ty)
  BY CallAssumption
<1>2. e.ty \in ErrTypes /\ e.txt \in Seq(Words) /\ e.num \in (-Half)..U32_MAX
  <2>1. e.ty \in ErrTypes /\ e.txt \in Seq(Words) /\ e.num \in Int
    BY <1>1
  <2>2. NumMin(e.ty) \in (-Half)..0 /\ NumMax(e.ty) \in 0..U32_MAX
    BY <2>1, NumRange
  <2> QED BY <1>1, <2>1, <2>2, Widths
<1>3. AsU32(e.num) \in 0..U32_MAX
  BY <1>2, Widths, SMTT(20) DEF AsU32
<1>4. e.ty \in NumTypes \cup {"Errno"} => Encode(e) = EncNum(AsU32(e.num))
  BY Zenon DEF Encode, NumTypes
<1>5. e.ty = "()" => Encode(e) = EncNum(0)
  BY DEF Encode, NumTypes
<1>6. e.ty \in {"String", "Enum"} => Encode(e).tag \in {"Buf", "Static"} /\ Encode(e).txt = e.txt
  BY DEF Encode, NumTypes, EncBuf, EncStatic
<1> QED BY <1>2, <1>3, <1>4, <1>5, <1>6 DEF ErrTypes

LEMMA Answered ==
  ASSUME Carried, Partial \subseteq {0}, NEW c \in Calls, NEW o \in Outcomes
  PROVE  EncodeResp(c, EncodeOutcome(c, o)) = Answer(c, o)
<1> DEFINE r == EncodeOutcome(c, o)
<1>1. Bytes("rsp", c, 0) = <<>>
  BY DEF Bytes
<1>2. CASE o.kind = "ok"
  <2> DEFINE h == RespHead(c, 0, o.msg, o.blob)
             x == Bytes("rsp", c, o.msg)
             y == Bytes("blob", c, o.blob)
  <2>1. o.msg \in Nat /\ o.blob \in 0..I32_MAX /\ o.msg + o.blob <= U32_MAX /\ (Api => o.blob = 0)
    BY <1>2, Outcomed
  <2>2. o.blob \in Nat /\ o.msg <= U32_MAX /\ o.blob <= I32_MAX
    BY <2>1, Widths
  <2> HIDE RecordUpdate
  <2>3. x \in Seq(Unit) /\ Len(x) = o.msg /\ y \in Seq(Unit) /\ Len(y) = o.blob
    BY <2>1, <2>2, BytesSeq DEF Body
  <2> USE RecordUpdate
  <2>4. r.buf = x /\ r.err = EncNone /\ r.blob = y
    <3>1. CASE Api
      <4>1. y = <<>>
        BY <3>1, <2>1 DEF Bytes
      <4> QED BY <4>1, <3>1, <1>2 DEF EncodeOutcome, ApiResp
    <3>2. CASE ~Api
      BY <3>2, <1>2 DEF EncodeOutcome, StreamResp
    <3> QED BY <3>1, <3>2
  <2>5. EncodeResp(c, r) = <<h>> \o x \o y
    <3> HIDE DEF r, x, y
    <3>1. r.err.tag = "None"
      BY <2>4 DEF EncNone
    <3>2. ~(Len(x) > U32_MAX \/ Len(y) > I32_MAX)
      BY <2>1, <2>2, <2>3, Widths, SMTT(20)
    <3> QED BY <3>1, <3>2, <2>3, <2>4, SMTT(20) DEF EncodeResp
  <2>6. h \in Unit
    BY <2>1, <2>2, Widths DEF RespHead, Unit
  <2> HIDE DEF h, x, y
  <2>7. <<h>> \o x \o y = <<h>> \o (x \o y)
    BY <2>3, <2>6, SMTT(20)
  <2> QED BY <2>5, <2>7, <1>2 DEF Answer, OkFrame, h, x, y
<1>3. ASSUME NEW e, r.err = e, e.tag # "None", o.kind # "ok"
      PROVE  EncodeResp(c, r) = EncodeError(c, <<>>, e)
  <2>1. o.msg = 0 /\ (o.kind = "noenc" => o.left = 0 \/ Api)
    BY <1>3, Outcomed, Zenon
  <2>2. r.buf = <<>>
    BY <2>1, <1>1 DEF EncodeOutcome, ApiResp, StreamResp
  <2> QED BY <2>2, <1>3 DEF EncodeResp
<1>4. CASE o.kind \in {"rpc", "noenc"}
  <2> DEFINE i == IF o.kind = "rpc" THEN "Internal" ELSE "Encode"
  <2>1. r.err = EncRpc(i)
    <3>1. o.kind = "rpc" => Api
      BY Outcomed
    <3>2. CASE Api
      BY <3>2, <1>4 DEF EncodeOutcome, ApiResp
    <3>3. CASE ~Api
      BY <3>1, <3>3, <1>4 DEF EncodeOutcome, StreamResp
    <3> QED BY <3>2, <3>3
  <2>2. EncRpc(i).tag = "Rpc" /\ EncRpc(i).txt = IntText(i)
    BY DEF EncRpc
  <2>3. i \in IntErrs
    <3>1. RpcIntErr[8] = "Internal" /\ RpcIntErr[6] = "Encode" /\ DOMAIN RpcIntErr = 1..9
      BY DEF RpcIntErr
    <3> QED BY <3>1 DEF IntErrs
  <2> HIDE DEF r, i
  <2>4. IntText(i) \in Seq(Words) /\ Len(IntText(i)) <= I32_MAX
    <3>1. IntText(i) \in Seq(Words) /\ Len(IntText(i)) = 2
      BY <2>3, IntTexts
    <3>2. 2 <= I32_MAX
      BY Widths
    <3> QED BY <3>1, <3>2
  <2>5. EncodeResp(c, r) = EncodeError(c, <<>>, EncRpc(i))
    BY <2>1, <2>2, <1>3, <1>4
  <2>6. EncodeResp(c, r) = TextFrame(c, IntText(i))
    BY <2>2, <2>4, <2>5, ErrorFrames
  <2> QED BY <2>6, <1>4 DEF Answer, i, r
<1>5. CASE o.kind = "err"
  <2>1. o.err \in Errors /\ Len(o.err.txt) <= I32_MAX
    BY <1>5, Outcomed
  <2>2. r.err = Encode(o.err)
    BY <1>5 DEF EncodeOutcome, ApiResp, StreamResp
  <2> HIDE DEF r
  <2>3. CASE o.err.ty \in NumTypes \cup {"Errno"}
    <3>1. EncNum(AsU32(o.err.num)).tag = "Num"
      BY DEF EncNum
    <3>2. EncodeResp(c, r) = NumFrame(c, AsU32(o.err.num))
      BY <3>1, <2>1, <2>2, <2>3, <1>3, <1>5, Encodings, ErrorFrames
    <3> QED BY <3>2, <2>3, <1>5 DEF Answer, r
  <2>4. CASE o.err.ty = "()"
    <3>1. EncNum(0).tag = "Num"
      BY DEF EncNum
    <3>2. EncodeResp(c, r) = NumFrame(c, 0)
      BY <3>1, <2>1, <2>2, <2>4, <1>3, <1>5, Encodings, ErrorFrames
    <3> QED BY <3>2, <2>4, <1>5 DEF Answer, r, NumTypes
  <2>5. CASE o.err.ty \in {"String", "Enum"}
    <3>1. EncodeResp(c, r) = EncodeError(c, <<>>, Encode(o.err))
      BY <2>1, <2>2, <2>5, <1>3, <1>5, Encodings
    <3>2. EncodeResp(c, r) = TextFrame(c, o.err.txt)
      BY <3>1, <2>1, <2>5, Encodings, ErrorFrames
    <3> QED BY <3>2, <2>5, <1>5 DEF Answer, r, NumTypes
  <2> QED BY <2>1, <2>3, <2>4, <2>5, Encodings
<1> QED BY <1>2, <1>4, <1>5, Outcomed

--------------------------------------------------------------------------------
(* Requests in the state of the system. *)

LEMMA ActionsOK ==
  ASSUME Carried, NEW a \in Actions
  PROVE  IsAction(a) /\ Carries(a) /\ (Api => a.tag = "Str")
<1>1. Carries(a)
  BY DEF Carried, Carries, Actions
<1>2. ASSUME NEW s \in Seq(Words) PROVE IsAction(Str(s)) /\ Str(s).tag = "Str"
  BY DEF IsAction, RpcActions, Str
<1>3. CASE Api /\ \E s \in RawActions : a = Str(s)
  BY <1>1, <1>2, <1>3, CallAssumption
<1>4. CASE Api /\ a \in EndpointActions
  <2>1. PICK t \in DOMAIN Endpoints : \E m \in Endpoints[t] : a = ServiceMethod(t, m)
    BY <1>4 DEF EndpointActions
  <2>2. PICK m \in Endpoints[t] : a = ServiceMethod(t, m)
    BY <2>1
  <2>3. t \in Seq(Words) /\ m \in Seq(Words) /\ "." \in Words
    BY CallAssumption
  <2>4. t \o <<".">> \o m \in Seq(Words)
    BY <2>3
  <2> QED BY <1>1, <1>2, <2>2, <2>4, Zenon DEF ServiceMethod
<1>5. CASE ~Api
  BY <1>1, <1>5, CallAssumption DEF Actions
<1> QED BY <1>3, <1>4, <1>5 DEF Actions

\* A request of a caller, and one that was encoded.
Asked == [action : RpcActions, kind : {"none", "req", "odd", "noenc"}, msg : Nat, blob : Nat,
          buf : BufShape, ety : ErrTypes]

LEMMA Requested ==
  ASSUME Carried, NEW c \in Calls, NEW q \in Requests
  PROVE  /\ q \in Asked /\ q.buf = NoBuf /\ q.action \in Actions
         /\ Encodes(c, q) => Encoded(q)
<1>1. /\ q.action \in Actions /\ q.kind \in {"req", "odd"} \cup (IF Api THEN {} ELSE {"noenc"})
      /\ q.msg \in MsgLens \ {0} /\ q.blob \in (IF Api THEN {0} ELSE BlobLens \cup {Half})
      /\ q.buf = NoBuf /\ q.ety = "()"
      /\ q = [action |-> q.action, kind |-> q.kind, msg |-> q.msg, blob |-> q.blob,
              buf |-> q.buf, ety |-> q.ety]
  BY DEF Requests
<1>2. q.msg \in Nat /\ q.msg > 0 /\ q.blob \in Nat
  BY <1>1, CallAssumption, Widths
<1>3. NoBuf \in BufShape
  BY DEF NoBuf, BufShape, Buf, BufTypes
<1>4. IsAction(q.action) /\ Carries(q.action) /\ q.action \in RpcActions
  BY <1>1, ActionsOK DEF IsAction
<1>5. q \in Asked
  BY <1>1, <1>2, <1>3, <1>4 DEF Asked, ErrTypes
<1>6. ASSUME Encodes(c, q) PROVE Encoded(q)
  <2>1. q.kind \in {"req", "odd"}
    BY <1>1, <1>6 DEF Encodes
  <2>2. Len(Bytes(q.kind, c, q.msg)) = q.msg /\ Len(Bytes("blob", c, q.blob)) = q.blob
    BY <2>1, <1>2, BytesSeq, Zenon DEF Body
  <2>3. q.msg <= U32_MAX /\ q.blob <= I32_MAX
    BY <2>2, <1>6, Zenon DEF Encodes, Frame, EncodeReq
  <2> QED BY <2>1, <2>3, <1>2, <1>4, Widths DEF Encoded
<1> QED BY <1>1, <1>5, <1>6

\* The wire to the server is a chain of frames, and only the last write of a client that
\* gives up cuts one off.
ReqInv ==
  /\ c2s \in Seq(Unit) /\ Chain(ReqMarks(c2s))
  /\ cup => Whole(ReqMarks(c2s))
  /\ \A i \in 1..Len(c2s) : IsHead(c2s[i]) => c2s[i].own \in Calls

LEMMA CutFramed ==
  ASSUME NEW f, Framed(f), NEW n \in 1..(Len(f) - 1)
  PROVE  /\ Framed(SubSeq(f, 1, n)) /\ Len(SubSeq(f, 1, n)) = n
         /\ SubSeq(f, 1, n)[1] = f[1] /\ n < Len(f)
<1>1. f \in Seq(Unit) /\ Len(f) \in Nat /\ n \in Nat /\ n >= 1 /\ n < Len(f)
  BY DEF Framed
<1> DEFINE g == SubSeq(f, 1, n)
<1>2. g \in Seq(Unit) /\ Len(g) = n /\ \A i \in 1..n : g[i] = f[i]
  BY <1>1
<1> HIDE DEF g
<1>3. Framed(g)
  BY <1>1, <1>2, SMTT(20) DEF Framed
<1> QED BY <1>1, <1>2, <1>3 DEF g

LEMMA PostFrame ==
  ASSUME ReqInv, cup, NEW f, Framed(f), f[1].own \in Calls, ReqSize(f[1]) >= Len(f),
         c2s' = c2s \o f, cup' => ReqSize(f[1]) = Len(f)
  PROVE  ReqInv'
<1>1. /\ c2s' \in Seq(Unit) /\ Len(c2s') = Len(c2s) + Len(f)
      /\ \A i \in 1..Len(c2s) : c2s'[i] = c2s[i]
      /\ c2s'[Len(c2s) + 1] = f[1]
      /\ \A i \in 1..Len(c2s') : IsHead(c2s'[i]) => i \in 1..Len(c2s) \/ i = Len(c2s) + 1
  <2>1. c2s \in Seq(Unit) /\ Framed(f)
    BY DEF ReqInv
  <2>2. /\ c2s \o f \in Seq(Unit) /\ Len(c2s \o f) = Len(c2s) + Len(f)
        /\ \A i \in 1..Len(c2s) : (c2s \o f)[i] = c2s[i]
        /\ (c2s \o f)[Len(c2s) + 1] = f[1]
        /\ \A i \in 1..(Len(c2s) + Len(f)) :
             IsHead((c2s \o f)[i]) => i \in 1..Len(c2s) \/ i = Len(c2s) + 1
    BY <2>1, WriteFrame, ZenonT(30)
  <2> QED BY <2>2, Zenon
<1>2. Chain(ReqMarks(c2s')) /\ (cup' => Whole(ReqMarks(c2s')))
  BY WriteChain DEF ReqInv
<1>3. \A i \in 1..Len(c2s') : IsHead(c2s'[i]) => c2s'[i].own \in Calls
  BY <1>1, SMTT(20) DEF ReqInv
<1> QED BY <1>1, <1>2, <1>3 DEF ReqInv

LEMMA ReadFrame ==
  ASSUME ReqInv, c2s # <<>>, ReqSize(c2s[1]) <= Len(c2s),
         c2s' = From(c2s, ReqSize(c2s[1])), cup' = cup
  PROVE  ReqInv'
<1> DEFINE n == ReqSize(c2s[1])
<1>1. c2s \in Seq(Unit) /\ c2s[1] \in Unit /\ Len(c2s) \in Nat /\ Len(c2s) > 0 /\ DOMAIN c2s = 1..Len(c2s)
  BY DEF ReqInv
<1>2. n \in Nat \ {0}
  BY <1>1, Sizes
<1>3. n \in 0..Len(c2s)
  BY <1>1, <1>2
<1>4. /\ ReqMarks(c2s) \in Seq(Nat) /\ ReqMarks(c2s) # <<>> /\ Len(ReqMarks(c2s)) = Len(c2s)
  BY <1>1, MarksSeq
<1>5. ReqMarks(c2s)[1] = n
  <2>1. ReqMarks(c2s)[1] > 0
    BY <1>4 DEF ReqInv, Chain
  <2> QED BY <2>1, <1>1 DEF ReqMarks
<1>6. c2s' = From(c2s, n)
  OBVIOUS
<1> HIDE DEF n
<1>7. /\ c2s' \in Seq(Unit) /\ Len(c2s') = Len(c2s) - n
      /\ \A i \in 1..Len(c2s') : i + n \in 1..Len(c2s) /\ c2s'[i] = c2s[i + n]
  <2>1. /\ From(c2s, n) \in Seq(Unit) /\ Len(From(c2s, n)) = Len(c2s) - n
        /\ \A i \in 1..(Len(c2s) - n) : i + n \in 1..Len(c2s) /\ From(c2s, n)[i] = c2s[i + n]
    BY <1>1, <1>3, Behind
  <2> QED BY <2>1, <1>6
<1>8. ReqMarks(c2s') = From(ReqMarks(c2s), n)
  BY <1>1, <1>3, <1>6, MarksFrom
<1>9. Chain(ReqMarks(c2s')) /\ (cup' => Whole(ReqMarks(c2s')))
  <2>1. ReqMarks(c2s)[1] <= Len(ReqMarks(c2s))
    BY <1>1, <1>3, <1>4, <1>5
  <2>2. /\ Chain(From(ReqMarks(c2s), ReqMarks(c2s)[1]))
        /\ Whole(ReqMarks(c2s)) => Whole(From(ReqMarks(c2s), ReqMarks(c2s)[1]))
    BY <2>1, <1>4, ChainRead DEF ReqInv
  <2> QED BY <2>2, <1>5, <1>8 DEF ReqInv
<1>10. \A i \in 1..Len(c2s') : IsHead(c2s'[i]) => c2s'[i].own \in Calls
  <2> SUFFICES ASSUME NEW i \in 1..Len(c2s'), IsHead(c2s'[i]) PROVE c2s'[i].own \in Calls
    OBVIOUS
  <2>1. i + n \in 1..Len(c2s) /\ c2s'[i] = c2s[i + n]
    BY <1>7
  <2> QED BY <2>1 DEF ReqInv
<1> QED BY <1>7, <1>9, <1>10 DEF ReqInv

LEMMA SameReq ==
  ASSUME ReqInv, c2s' = c2s, cup' => cup
  PROVE  ReqInv'
BY DEF ReqInv

LEMMA ReqStep ==
  ASSUME Carried, ReqInv, [Next]_vars
  PROVE  ReqInv'
<1>1. ASSUME NEW c \in Calls, Send(c) PROVE ReqInv'
  <2>1. PICK q \in Requests : c2s' = IF Encodes(c, q) THEN c2s \o Frame(c, q).bytes ELSE c2s
    BY <1>1 DEF Send
  <2>2. cup /\ cup' = cup
    BY <1>1 DEF Send, IsNext
  <2>3. CASE Encodes(c, q)
    <3>1. Encoded(q)
      BY <2>3, Requested
    <3>2. /\ Framed(Frame(c, q).bytes) /\ Frame(c, q).bytes[1].own = c
          /\ ReqSize(Frame(c, q).bytes[1]) = Len(Frame(c, q).bytes)
      BY <3>1, ReqFramed
    <3>3. ReqSize(Frame(c, q).bytes[1]) >= Len(Frame(c, q).bytes)
      BY <3>2 DEF Framed
    <3> QED BY <3>2, <3>3, <2>1, <2>2, <2>3, PostFrame, Zenon
  <2>4. CASE ~Encodes(c, q)
    BY <2>1, <2>2, <2>4, SameReq
  <2> QED BY <2>3, <2>4
<1>2. ASSUME NEW c \in Calls, SendCut(c) PROVE ReqInv'
  <2>1. PICK q \in Requests : /\ Encodes(c, q)
                              /\ \E n \in 1..(Len(Frame(c, q).bytes) - 1) :
                                   c2s' = c2s \o SubSeq(Frame(c, q).bytes, 1, n)
    BY <1>2, Zenon DEF SendCut
  <2> DEFINE f == Frame(c, q).bytes
  <2>2. PICK n \in 1..(Len(f) - 1) : c2s' = c2s \o SubSeq(f, 1, n)
    BY <2>1
  <2>3. cup /\ ~cup'
    BY <1>2 DEF SendCut, IsNext
  <2>4. Encoded(q)
    BY <2>1, Requested
  <2>5. Framed(f) /\ f[1].own = c /\ ReqSize(f[1]) = Len(f)
    BY <2>4, ReqFramed
  <2> HIDE DEF f
  <2>6. /\ Framed(SubSeq(f, 1, n)) /\ Len(SubSeq(f, 1, n)) = n
        /\ SubSeq(f, 1, n)[1] = f[1] /\ n < Len(f)
    BY <2>5, CutFramed
  <2>7. ReqSize(SubSeq(f, 1, n)[1]) >= Len(SubSeq(f, 1, n)) /\ SubSeq(f, 1, n)[1].own \in Calls
    BY <2>5, <2>6, SMTT(20) DEF Framed
  <2> QED BY <2>2, <2>3, <2>6, <2>7, PostFrame, Zenon
<1>3. ASSUME NEW c \in Calls, Ping(c) PROVE ReqInv'
  <2>1. cup /\ cup' = cup /\ c2s' = c2s \o EncodePing(c)
    BY <1>3 DEF Ping, IsNext
  <2>2. /\ Framed(EncodePing(c)) /\ Len(EncodePing(c)) = 1
        /\ EncodePing(c)[1].own = c /\ ReqSize(EncodePing(c)[1]) = 1
    BY PingFramed
  <2>3. ReqSize(EncodePing(c)[1]) >= Len(EncodePing(c))
    BY <2>2
  <2> QED BY <2>1, <2>2, <2>3, PostFrame, Zenon
<1>4. CASE ServerRead
  BY <1>4, ReadFrame DEF ServerRead, Readable
<1>5. ASSUME NEW c \in Calls, Expire(c) PROVE ReqInv'
  BY <1>5, SameReq DEF Expire
<1>6. ASSUME NEW r \in running, Serve(r) PROVE ReqInv'
  BY <1>6, SameReq DEF Serve
<1>7. CASE RecvErrno \/ RecvErrString \/ RecvResp \/ RecvDump
  BY <1>7, SameReq, Zenon DEF RecvErrno, RecvErrString, RecvResp, RecvDump
<1>8. CASE ServerDrop \/ ClientDrop \/ Quiet \/ UNCHANGED vars
  BY <1>8, SameReq DEF ServerDrop, ClientDrop, Quiet, vars
<1> QED BY <1>1, <1>2, <1>3, <1>4, <1>5, <1>6, <1>7, <1>8, SMTT(20) DEF Next

--------------------------------------------------------------------------------
(* Responses in the state of the system. *)

GoodHead(h) ==
  /\ h.own \in Calls /\ h.a \in {0, 1, 2}
  /\ h.a = 0 => h.m + h.b <= U32_MAX
  /\ h.a = 1 => h.b = 0

RespInv ==
  /\ s2c \in Seq(Unit) /\ Chain(RespMarks(s2c)) /\ Whole(RespMarks(s2c))
  /\ \A i \in 1..Len(s2c) : IsHead(s2c[i]) => GoodHead(s2c[i])
  /\ \A r \in running : r.seq \in Calls

\* A response of which the client can tell where it ends.
GoodFrame(c, f) ==
  /\ Framed(f) /\ f[1].own = c /\ GoodHead(f[1]) /\ RespSize(f[1]) = Len(f)

LEMMA TextGood ==
  ASSUME NEW c \in Calls, NEW s \in Seq(Words), Len(s) <= I32_MAX
  PROVE  GoodFrame(c, TextFrame(c, s))
<1>1. LET f == TextFrame(c, s)
      IN /\ Framed(f) /\ f[1] = RespHead(c, RESP_FLAG_HAS_ERR_STRING, 0, Len(s))
         /\ RespSize(f[1]) = Len(f)
  BY TextFramed
<1> QED BY <1>1 DEF GoodFrame, GoodHead, RespHead, RESP_FLAG_HAS_ERR_STRING

LEMMA NumGood ==
  ASSUME NEW c \in Calls, NEW n \in 0..U32_MAX
  PROVE  GoodFrame(c, NumFrame(c, n))
<1>1. LET f == NumFrame(c, n)
      IN /\ Framed(f) /\ f[1] = RespHead(c, RESP_FLAG_HAS_ERRNO, n, 0)
         /\ RespSize(f[1]) = Len(f)
  BY NumFramed
<1> QED BY <1>1 DEF GoodFrame, GoodHead, RespHead, RESP_FLAG_HAS_ERRNO

LEMMA OkGood ==
  ASSUME NEW c \in Calls, NEW m \in Nat, NEW b \in 0..I32_MAX, m + b <= U32_MAX
  PROVE  GoodFrame(c, OkFrame(c, m, b))
<1>1. LET f == OkFrame(c, m, b)
      IN Framed(f) /\ f[1] = RespHead(c, 0, m, b) /\ RespSize(f[1]) = Len(f)
  BY OkFramed
<1> QED BY <1>1 DEF GoodFrame, GoodHead, RespHead

LEMMA AnswerGood ==
  ASSUME Carried, NEW c \in Calls, NEW o \in Outcomes
  PROVE  GoodFrame(c, Answer(c, o))
<1>1. CASE o.kind = "ok"
  <2>1. o.msg \in Nat /\ o.blob \in 0..I32_MAX /\ o.msg + o.blob <= U32_MAX
    BY <1>1, Outcomed
  <2> QED BY <1>1, <2>1, OkGood DEF Answer
<1>2. ASSUME NEW e \in IntErrs PROVE GoodFrame(c, TextFrame(c, IntText(e)))
  <2>1. IntText(e) \in Seq(Words) /\ Len(IntText(e)) = 2
    BY IntTexts
  <2>2. 2 <= I32_MAX
    BY Widths
  <2> QED BY <2>1, <2>2, TextGood, Zenon
<1>3. CASE o.kind \in {"rpc", "noenc"}
  <2>1. "Internal" \in IntErrs /\ "Encode" \in IntErrs
    <3>1. RpcIntErr[8] = "Internal" /\ RpcIntErr[6] = "Encode" /\ DOMAIN RpcIntErr = 1..9
      BY DEF RpcIntErr
    <3> QED BY <3>1 DEF IntErrs
  <2> QED BY <1>2, <1>3, <2>1 DEF Answer
<1>4. CASE o.kind = "err"
  <2>1. o.err \in Errors /\ Len(o.err.txt) <= I32_MAX
    BY <1>4, Outcomed
  <2>2. /\ o.err.txt \in Seq(Words) /\ AsU32(o.err.num) \in 0..U32_MAX
    BY <2>1, Encodings
  <2>3. /\ GoodFrame(c, TextFrame(c, o.err.txt))
        /\ GoodFrame(c, NumFrame(c, AsU32(o.err.num)))
    BY <2>1, <2>2, TextGood, NumGood
  <2>4. 0 \in 0..U32_MAX
    BY Widths
  <2>5. GoodFrame(c, NumFrame(c, 0))
    BY <2>4, NumGood
  <2> QED BY <1>4, <2>3, <2>5 DEF Answer
<1> QED BY <1>1, <1>3, <1>4, Outcomed

\* The server answers: a frame is written behind the others.
LEMMA AnswerFrame ==
  ASSUME RespInv, NEW c \in Calls, NEW f, GoodFrame(c, f), s2c' = s2c \o f,
         \A r \in running' : r.seq \in Calls
  PROVE  RespInv'
<1>1. /\ s2c' \in Seq(Unit) /\ Len(s2c') = Len(s2c) + Len(f)
      /\ \A i \in 1..Len(s2c) : s2c'[i] = s2c[i]
      /\ s2c'[Len(s2c) + 1] = f[1]
      /\ \A i \in 1..Len(s2c') : IsHead(s2c'[i]) => i \in 1..Len(s2c) \/ i = Len(s2c) + 1
  <2>1. s2c \in Seq(Unit) /\ Framed(f)
    BY DEF RespInv, GoodFrame
  <2>2. /\ s2c \o f \in Seq(Unit) /\ Len(s2c \o f) = Len(s2c) + Len(f)
        /\ \A i \in 1..Len(s2c) : (s2c \o f)[i] = s2c[i]
        /\ (s2c \o f)[Len(s2c) + 1] = f[1]
        /\ \A i \in 1..(Len(s2c) + Len(f)) :
             IsHead((s2c \o f)[i]) => i \in 1..Len(s2c) \/ i = Len(s2c) + 1
    BY <2>1, WriteFrame, ZenonT(90)
  <2> QED BY <2>2, Zenon
<1>2. Chain(RespMarks(s2c')) /\ Whole(RespMarks(s2c'))
  BY WriteChain DEF RespInv, GoodFrame
<1>3. \A i \in 1..Len(s2c') : IsHead(s2c'[i]) => GoodHead(s2c'[i])
  BY <1>1, Zenon DEF RespInv, GoodFrame
<1> QED BY <1>1, <1>2, <1>3 DEF RespInv

\* Where the client is, and what it takes.
LEMMA FirstResp ==
  ASSUME RespInv, s2c # <<>>
  PROVE  /\ IsHead(s2c[1]) /\ GoodHead(s2c[1]) /\ s2c[1] \in Unit
         /\ RespSize(s2c[1]) \in Nat \ {0} /\ RespSize(s2c[1]) \in 0..Len(s2c)
         /\ RespMarks(s2c)[1] = RespSize(s2c[1])
<1>1. s2c \in Seq(Unit) /\ s2c[1] \in Unit /\ Len(s2c) \in Nat /\ Len(s2c) > 0 /\ DOMAIN s2c = 1..Len(s2c)
  BY DEF RespInv
<1>2. /\ RespMarks(s2c) \in Seq(Nat) /\ RespMarks(s2c) # <<>> /\ Len(RespMarks(s2c)) = Len(s2c)
  BY <1>1, MarksSeq
<1>3. RespMarks(s2c)[1] > 0
  BY <1>2 DEF RespInv, Chain
<1>4. IsHead(s2c[1]) /\ RespMarks(s2c)[1] = RespSize(s2c[1])
  BY <1>1, <1>3 DEF RespMarks
<1>5. RespSize(s2c[1]) \in Nat \ {0}
  BY <1>1, Sizes
<1>6. 1 + RespMarks(s2c)[1] <= Len(RespMarks(s2c)) + 1
  BY <1>1, <1>2, <1>3 DEF RespInv, Whole
<1>7. RespSize(s2c[1]) \in 0..Len(s2c)
  BY <1>1, <1>2, <1>4, <1>5, <1>6
<1>8. GoodHead(s2c[1])
  BY <1>1, <1>4 DEF RespInv
<1> QED BY <1>1, <1>4, <1>5, <1>7, <1>8

LEMMA TakeFrame ==
  ASSUME RespInv, s2c # <<>>, s2c' = From(s2c, RespSize(s2c[1])),
         \A r \in running' : r.seq \in Calls
  PROVE  RespInv'
<1> DEFINE n == RespSize(s2c[1])
<1>1. s2c \in Seq(Unit) /\ n \in 0..Len(s2c) /\ RespMarks(s2c)[1] = n /\ s2c' = From(s2c, n)
  BY FirstResp DEF RespInv
<1> HIDE DEF n
<1>2. /\ s2c' \in Seq(Unit)
      /\ \A i \in 1..Len(s2c') : i + n \in 1..Len(s2c) /\ s2c'[i] = s2c[i + n]
  <2>1. /\ From(s2c, n) \in Seq(Unit) /\ Len(From(s2c, n)) = Len(s2c) - n
        /\ \A i \in 1..(Len(s2c) - n) : i + n \in 1..Len(s2c) /\ From(s2c, n)[i] = s2c[i + n]
    BY <1>1, Behind
  <2> QED BY <2>1, <1>1
<1>3. RespMarks(s2c') = From(RespMarks(s2c), n)
  BY <1>1, MarksFrom
<1>4. Chain(RespMarks(s2c')) /\ Whole(RespMarks(s2c'))
  <2>1. RespMarks(s2c) \in Seq(Nat) /\ RespMarks(s2c) # <<>> /\ Len(RespMarks(s2c)) = Len(s2c)
    BY <1>1, MarksSeq
  <2>2. RespMarks(s2c)[1] <= Len(RespMarks(s2c))
    BY <1>1, <2>1
  <2>3. /\ Chain(From(RespMarks(s2c), RespMarks(s2c)[1]))
        /\ Whole(RespMarks(s2c)) => Whole(From(RespMarks(s2c), RespMarks(s2c)[1]))
    BY <2>1, <2>2, ChainRead DEF RespInv
  <2> QED BY <2>3, <1>1, <1>3 DEF RespInv
<1>5. \A i \in 1..Len(s2c') : IsHead(s2c'[i]) => GoodHead(s2c'[i])
  BY <1>2 DEF RespInv
<1> QED BY <1>2, <1>4, <1>5 DEF RespInv

LEMMA Dispatched ==
  ASSUME NEW req
  PROVE  Dispatch(req) \in {"none", "Decode", "Method", "Service"}
<1>1. HandleMethod(req) \in {"none", "Decode"}
  BY DEF HandleMethod
<1>2. ASSUME NEW ms, NEW m PROVE ServeService(ms, m, req) \in {"none", "Decode", "Method"}
  BY <1>1 DEF ServeService
<1>3. ASSUME NEW a PROVE ServeMux(a, req) \in {"none", "Decode", "Method", "Service"}
  BY <1>2 DEF ServeMux
<1>4. ApiDispatch(req) \in {"none", "Decode", "Method", "Service"}
  BY <1>2, <1>3 DEF ApiDispatch
<1>5. StreamDispatch(req) \in {"none", "Decode"}
  BY DEF StreamDispatch
<1> QED BY <1>4, <1>5 DEF Dispatch

LEMMA Rejections == {"Decode", "Method", "Service"} \subseteq IntErrs
<1>1. /\ RpcIntErr[7] = "Decode" /\ RpcIntErr[4] = "Method" /\ RpcIntErr[5] = "Service"
      /\ DOMAIN RpcIntErr = 1..9
  BY DEF RpcIntErr
<1> QED BY <1>1 DEF IntErrs

\* The response at the head is taken whole, whatever becomes of it.
LEMMA TakesWhole ==
  ASSUME RespInv, RecvErrno \/ RecvErrString \/ RecvResp \/ RecvDump
  PROVE  s2c # <<>> /\ s2c' = From(s2c, RespSize(s2c[1]))
<1>1. s2c # <<>>
  BY Zenon DEF RecvErrno, RecvErrString, RecvResp, RecvDump
<1> DEFINE h == s2c[1]
<1>2. h \in Unit /\ GoodHead(h) /\ s2c \in Seq(Unit)
  BY <1>1, FirstResp DEF RespInv
<1>3. h.m \in Nat /\ h.b \in Nat /\ h.a \in {0, 1, 2}
  BY <1>2, UnitFields, Zenon DEF GoodHead
<1>4. CASE RecvErrno
  <2>1. s2c' = Tail(s2c) /\ h.a = 1
    BY <1>4 DEF RecvErrno, RESP_FLAG_HAS_ERRNO
  <2>2. RespSize(h) = 1
    BY <2>1 DEF RespSize, RESP_FLAG_HAS_ERR_STRING
  <2>3. Tail(s2c) = From(s2c, 1)
    BY <1>1, <1>2 DEF From
  <2> QED BY <1>1, <2>1, <2>2, <2>3, SMTT(20)
<1>5. CASE RecvErrString
  <2>1. s2c' = From(s2c, 1 + h.b) /\ h.a = 2
    BY <1>5 DEF RecvErrString, RESP_FLAG_HAS_ERR_STRING
  <2>2. RespSize(h) = 1 + h.b
    BY <2>1 DEF RespSize, RESP_FLAG_HAS_ERR_STRING
  <2> QED BY <1>1, <2>1, <2>2
<1>6. CASE RecvResp
  <2>1. s2c' = From(s2c, 1 + h.m + h.b) /\ h.a = 0
    BY <1>6, Zenon DEF RecvResp
  <2>2. RespSize(h) = 1 + h.m + h.b
    BY <1>3, <2>1 DEF RespSize
  <2> QED BY <1>1, <2>1, <2>2
<1>7. CASE RecvDump
  <2>1. s2c' = From(s2c, 1 + DumpLen(h))
    BY <1>7 DEF RecvDump
  <2>2. 1 + DumpLen(h) = RespSize(h)
    <3>1. AsU32(h.b) = h.b
      BY <1>3 DEF AsU32
    <3>2. CASE h.a = 0
      <4> HIDE RecordUpdate
      <4>1. h.m + h.b \in 0..U32_MAX
        BY <1>2, <1>3, <3>2, Widths, SMTT(20) DEF GoodHead
      <4> USE RecordUpdate
      <4>2. Low32(h.m + AsU32(h.b)) = h.m + h.b
        BY <4>1, <3>1, LowSame
      <4>3. DumpLen(h) = h.m + h.b
        BY <4>2, <3>2 DEF DumpLen, RESP_FLAG_HAS_ERR_STRING
      <4>4. RespSize(h) = 1 + h.m + h.b
        BY <1>3, <3>2 DEF RespSize
      <4> QED BY <1>3, <4>3, <4>4, SMTT(20)
    <3>3. CASE h.a = 2
      BY <3>1, <3>3 DEF DumpLen, RespSize, RESP_FLAG_HAS_ERR_STRING
    <3>4. CASE h.a = 1
      BY <3>4 DEF DumpLen, RespSize, RESP_FLAG_HAS_ERR_STRING
    <3> QED BY <1>3, <3>2, <3>3, <3>4
  <2> QED BY <1>1, <2>1, <2>2
<1> QED BY <1>4, <1>5, <1>6, <1>7

LEMMA RespStep ==
  ASSUME Carried, Partial \subseteq {0}, ReqInv, RespInv, [Next]_vars
  PROVE  RespInv'
<1>1. CASE ServerRead
  <2> DEFINE req == ReadReq(c2s)
             c == req.seq
             e == Dispatch(req)
  <2>1. c2s # <<>> /\ IsHead(c2s[1]) /\ c = c2s[1].own
    BY <1>1 DEF ServerRead, Readable, ReadReq
  <2>2. c \in Calls
    <3>1. 1 \in 1..Len(c2s)
      BY <2>1, SMTT(20) DEF ReqInv
    <3> QED BY <2>1, <3>1 DEF ReqInv
  <2>3. /\ \/ s2c' = s2c \o EncodeInternal(c, EncNone) /\ running' = running
           \/ e = "none" /\ running' = running \cup {ServerTask(req)} /\ s2c' = s2c
           \/ e # "none" /\ s2c' = s2c \o EncodeInternal(c, EncRpc(e)) /\ running' = running
    BY <1>1 DEF ServerRead
  <2>4. ServerTask(req).seq = c
    BY DEF ServerTask
  <2>5. e \in {"none", "Decode", "Method", "Service"}
    BY Dispatched
  <2> HIDE DEF req, c, e
  <2>6. CASE s2c' = s2c \o EncodeInternal(c, EncNone) /\ running' = running
    <3>1. GoodFrame(c, OkFrame(c, 0, 0))
      <4>1. 0 \in 0..I32_MAX /\ 0 \in Nat /\ 0 + 0 <= U32_MAX
        BY Widths
      <4> QED BY <2>2, <4>1, OkGood
    <3>2. EncodeInternal(c, EncNone) = OkFrame(c, 0, 0)
      BY <2>2, Internal
    <3> QED BY <2>2, <2>6, <3>1, <3>2, AnswerFrame, Zenon DEF RespInv
  <2>7. CASE e = "none" /\ running' = running \cup {ServerTask(req)} /\ s2c' = s2c
    BY <2>2, <2>4, <2>7 DEF RespInv
  <2>8. CASE e # "none" /\ s2c' = s2c \o EncodeInternal(c, EncRpc(e)) /\ running' = running
    <3>1. e \in IntErrs
      BY <2>5, <2>8, Rejections
    <3>2. IntText(e) \in Seq(Words) /\ Len(IntText(e)) = 2 /\ 2 <= I32_MAX
      BY <3>1, IntTexts, Widths
    <3>3. GoodFrame(c, TextFrame(c, IntText(e)))
      BY <2>2, <3>2, TextGood, Zenon
    <3>4. EncodeInternal(c, EncRpc(e)) = TextFrame(c, IntText(e))
      BY <2>2, <3>1, Internal
    <3> QED BY <2>2, <2>8, <3>3, <3>4, AnswerFrame, Zenon DEF RespInv
  <2> QED BY <2>3, <2>6, <2>7, <2>8, SMTT(20)
<1>2. ASSUME NEW r \in running, Serve(r) PROVE RespInv'
  <2>1. r.seq \in Calls /\ running' \subseteq running
    BY <1>2 DEF Serve, RespInv
  <2>2. PICK o \in Outcomes : s2c' = s2c \o EncodeResp(r.seq, EncodeOutcome(r.seq, o))
    BY <1>2 DEF Serve
  <2>3. s2c' = s2c \o Answer(r.seq, o) /\ GoodFrame(r.seq, Answer(r.seq, o))
    BY <2>1, <2>2, Answered, AnswerGood, SMTT(20)
  <2> QED BY <2>1, <2>3, AnswerFrame, Zenon DEF RespInv
<1>3. CASE RecvErrno \/ RecvErrString \/ RecvResp \/ RecvDump
  <2>1. running' = running
    BY <1>3, Zenon DEF RecvErrno, RecvErrString, RecvResp, RecvDump
  <2> QED BY <1>3, <2>1, TakesWhole, TakeFrame DEF RespInv
<1>4. ASSUME s2c' = s2c, running' = running PROVE RespInv'
  BY <1>4, SMTT(20) DEF RespInv
<1>5. ASSUME NEW c \in Calls, Send(c) \/ SendCut(c) \/ Ping(c) \/ Expire(c) PROVE RespInv'
  BY <1>4, <1>5 DEF Send, SendCut, Ping, Expire
<1>6. CASE ServerDrop \/ ClientDrop \/ Quiet \/ UNCHANGED vars
  BY <1>4, <1>6 DEF ServerDrop, ClientDrop, Quiet, vars
<1> QED BY <1>1, <1>2, <1>3, <1>5, <1>6, SMTT(20) DEF Next

LEMMA WireInit == Init => ReqInv /\ RespInv
<1> SUFFICES ASSUME Init PROVE ReqInv /\ RespInv
  OBVIOUS
<1>1. c2s = <<>> /\ s2c = <<>> /\ running = {}
  BY DEF Init
<1>2. <<>> \in Seq(Unit) /\ Len(<<>>) = 0
  OBVIOUS
<1>3. ReqMarks(<<>>) = <<>> /\ RespMarks(<<>>) = <<>>
  <2>1. /\ ReqMarks(<<>>) \in Seq(Nat) /\ Len(ReqMarks(<<>>)) = Len(<<>>)
        /\ RespMarks(<<>>) \in Seq(Nat) /\ Len(RespMarks(<<>>)) = Len(<<>>)
    BY <1>2, MarksSeq, Zenon
  <2> QED BY <2>1
<1> QED BY <1>1, <1>2, <1>3 DEF ReqInv, RespInv, Chain, Whole

LEMMA WireInvariance ==
  ASSUME Carried, Partial \subseteq {0}
  PROVE  Spec => [](ReqInv /\ RespInv)
<1>1. ReqInv /\ RespInv /\ [Next]_vars => (ReqInv /\ RespInv)'
  BY ReqStep, RespStep
<1> QED BY <1>1, WireInit, PTL DEF Spec

\* As long as actions, messages and blobs have lengths that a header can carry, the
\* server's reader is always at the beginning of a request.
THEOREM RequestsSynced == ASSUME Carried PROVE Spec => []RequestsInSync
<1>2. ReqInv /\ [Next]_vars => ReqInv'
  BY ReqStep
<1>3. ReqInv => RequestsInSync
  <2> SUFFICES ASSUME ReqInv, c2s # <<>> PROVE IsHead(c2s[1])
    BY DEF RequestsInSync
  <2>1. c2s \in Seq(Unit) /\ Len(c2s) > 0 /\ DOMAIN c2s = 1..Len(c2s)
    BY DEF ReqInv
  <2>2. ReqMarks(c2s) # <<>>
    BY <2>1, MarksSeq
  <2>3. ReqMarks(c2s)[1] > 0
    BY <2>2 DEF ReqInv, Chain
  <2> QED BY <2>1, <2>3 DEF ReqMarks
<1> QED BY <1>2, <1>3, WireInit, PTL DEF Spec

\* If in addition an encoder that fails leaves nothing in the buffer, the client's
\* receiver is always at the beginning of a response.
THEOREM ResponsesSynced ==
  ASSUME Carried, Partial \subseteq {0}
  PROVE  Spec => []ResponsesInSync
<1>1. RespInv => ResponsesInSync
  BY FirstResp DEF ResponsesInSync
<1> QED BY <1>1, WireInvariance, PTL

--------------------------------------------------------------------------------
(* Tasks, and the buffers in them. *)

Statuses == {"new", "wait", "ping", "done", "failed"}

\* Tasks with buffers and results of any kind.
TasksOf(B, V) == [Calls -> [st : Statuses, buf : B, res : V]]
Tasks(t) == \E B, V : t \in TasksOf(B, V)

LEMMA RecSt ==
  ASSUME NEW B, NEW V, NEW x \in [st : Statuses, buf : B, res : V], NEW s
  PROVE  [x EXCEPT !.st = s] = [st |-> s, buf |-> x.buf, res |-> x.res]
OBVIOUS

LEMMA RecDone ==
  ASSUME NEW B, NEW V, NEW x \in [st : Statuses, buf : B, res : V], NEW s, NEW r
  PROVE  [x EXCEPT !.st = s, !.res = r] = [st |-> s, buf |-> x.buf, res |-> r]
<1> DEFINE y == [x EXCEPT !.st = s]
<1>1. [x EXCEPT !.st = s, !.res = r] = [y EXCEPT !.res = r]
  OBVIOUS
<1>2. y = [st |-> s, buf |-> x.buf, res |-> x.res]
  OBVIOUS
<1>3. ASSUME NEW bb, NEW rr
      PROVE  [[st |-> s, buf |-> bb, res |-> rr] EXCEPT !.res = r] = [st |-> s, buf |-> bb, res |-> r]
  OBVIOUS
<1> HIDE DEF y
<1>4. [y EXCEPT !.res = r] = [st |-> s, buf |-> x.buf, res |-> r]
  BY <1>2, <1>3
<1> QED BY <1>1, <1>4

\* In u the task of call c is the one given, and the others are as in t.
Put(t, u, c, s, b, r) ==
  /\ Tasks(u) /\ u[c] = [st |-> s, buf |-> b, res |-> r]
  /\ \A d \in Calls : d # c => u[d] = t[d]

LEMMA PutAll ==
  ASSUME NEW t, Tasks(t), NEW c \in Calls, NEW s \in Statuses, NEW b, NEW r
  PROVE  Put(t, [t EXCEPT ![c] = [st |-> s, buf |-> b, res |-> r]], c, s, b, r)
<1>0. PICK B, V : t \in TasksOf(B, V)
  BY DEF Tasks
<1> DEFINE x == [st |-> s, buf |-> b, res |-> r]
           u == [t EXCEPT ![c] = x]
<1>1. x \in [st : Statuses, buf : B \cup {b}, res : V \cup {r}]
  OBVIOUS
<1> HIDE DEF x
<1>2. u \in TasksOf(B \cup {b}, V \cup {r}) /\ u[c] = x /\ \A d \in Calls : d # c => u[d] = t[d]
  BY <1>0, <1>1 DEF TasksOf
<1> QED BY <1>2 DEF Put, Tasks, x

LEMMA Shape ==
  ASSUME NEW t, Tasks(t), NEW c \in Calls
  PROVE  /\ t[c].st \in Statuses
         /\ \E B, V : t[c] \in [st : Statuses, buf : B, res : V] /\ t \in TasksOf(B, V)
<1>0. PICK B, V : t \in TasksOf(B, V)
  BY DEF Tasks
<1>1. t[c] \in [st : Statuses, buf : B, res : V]
  BY <1>0 DEF TasksOf
<1> QED BY <1>0, <1>1

LEMMA PutSt ==
  ASSUME NEW t, Tasks(t), NEW c \in Calls, NEW s \in Statuses
  PROVE  Put(t, [t EXCEPT ![c].st = s], c, s, t[c].buf, t[c].res)
<1>1. PICK B, V : t[c] \in [st : Statuses, buf : B, res : V] /\ t \in TasksOf(B, V)
  BY Shape
<1> DEFINE x == t[c]
<1>2. [t EXCEPT ![c].st = s] = [t EXCEPT ![c] = [x EXCEPT !.st = s]]
  BY <1>1 DEF TasksOf
<1>3. [x EXCEPT !.st = s] = [st |-> s, buf |-> x.buf, res |-> x.res]
  BY <1>1, RecSt
<1> HIDE DEF x
<1>4. Put(t, [t EXCEPT ![c] = [st |-> s, buf |-> x.buf, res |-> x.res]], c, s, x.buf, x.res)
  BY PutAll
<1>5. Put(t, [t EXCEPT ![c].st = s], c, s, x.buf, x.res)
  BY <1>2, <1>3, <1>4, Zenon
<1> QED BY <1>5 DEF x

LEMMA PutDone ==
  ASSUME NEW t, Tasks(t), NEW c \in Calls, NEW s \in Statuses, NEW r
  PROVE  Put(t, [t EXCEPT ![c].st = s, ![c].res = r], c, s, t[c].buf, r)
<1>1. PICK B, V : t[c] \in [st : Statuses, buf : B, res : V] /\ t \in TasksOf(B, V)
  BY Shape
<1> DEFINE x == t[c]
<1>2. [t EXCEPT ![c].st = s, ![c].res = r] = [t EXCEPT ![c] = [x EXCEPT !.st = s, !.res = r]]
  <2> DEFINE R == [st : Statuses, buf : B, res : V]
  <2>1. t \in [Calls -> R]
    BY <1>1 DEF TasksOf
  <2> HIDE DEF R
  <2> QED BY <2>1, Zenon
<1>3. [x EXCEPT !.st = s, !.res = r] = [st |-> s, buf |-> x.buf, res |-> r]
  BY <1>1, RecDone, Zenon
<1> HIDE DEF x
<1>4. Put(t, [t EXCEPT ![c] = [st |-> s, buf |-> x.buf, res |-> r]], c, s, x.buf, r)
  BY PutAll
<1>5. Put(t, [t EXCEPT ![c].st = s, ![c].res = r], c, s, x.buf, r)
  BY <1>2, <1>3, <1>4, Zenon
<1> QED BY <1>5 DEF x

LEMMA PutFull ==
  ASSUME NEW t, Tasks(t), NEW c \in Calls, NEW s \in Statuses, NEW b, NEW r
  PROVE  Put(t, [[t EXCEPT ![c].st = s, ![c].res = r] EXCEPT ![c].buf = b], c, s, b, r)
<1>1. PICK B, V : t[c] \in [st : Statuses, buf : B, res : V] /\ t \in TasksOf(B, V)
  BY Shape
<1> DEFINE x == t[c]
           y == [x EXCEPT !.st = s, !.res = r]
<1>2. [[t EXCEPT ![c].st = s, ![c].res = r] EXCEPT ![c].buf = b]
        = [t EXCEPT ![c] = [y EXCEPT !.buf = b]]
  <2> DEFINE R == [st : Statuses, buf : B, res : V]
  <2>1. t \in [Calls -> R]
    BY <1>1 DEF TasksOf
  <2> HIDE DEF R
  <2> QED BY <2>1, Zenon
<1>3. [y EXCEPT !.buf = b] = [st |-> s, buf |-> b, res |-> r]
  <2>1. y = [st |-> s, buf |-> x.buf, res |-> r]
    BY <1>1, RecDone, Zenon
  <2>2. ASSUME NEW bb
        PROVE  [[st |-> s, buf |-> bb, res |-> r] EXCEPT !.buf = b] = [st |-> s, buf |-> b, res |-> r]
    OBVIOUS
  <2> HIDE DEF y
  <2> QED BY <2>1, <2>2
<1> HIDE DEF x, y
<1>4. Put(t, [t EXCEPT ![c] = [st |-> s, buf |-> b, res |-> r]], c, s, b, r)
  BY PutAll
<1> QED BY <1>2, <1>3, <1>4, Zenon

LEMMA TasksFail ==
  ASSUME NEW t, Tasks(t)
  PROVE  /\ Tasks(FailAll(t))
         /\ \A c \in Calls : IF t[c].st = "wait"
              THEN FailAll(t)[c].st = "failed" /\ FailAll(t)[c].buf = t[c].buf
              ELSE FailAll(t)[c] = t[c]
<1>0. PICK B, V : t \in TasksOf(B, V)
  BY DEF Tasks
<1> DEFINE r == Rpc("IO")
           R == [st : Statuses, buf : B, res : V \cup {r}]
<1>2. \A c \in Calls : FailAll(t)[c] = IF t[c].st = "wait"
                         THEN [t[c] EXCEPT !.st = "failed", !.res = r] ELSE t[c]
  BY Zenon DEF FailAll
<1> HIDE DEF r
<1>3. ASSUME NEW c \in Calls
      PROVE  /\ FailAll(t)[c] \in R
             /\ IF t[c].st = "wait"
                THEN FailAll(t)[c].st = "failed" /\ FailAll(t)[c].buf = t[c].buf
                ELSE FailAll(t)[c] = t[c]
  <2> DEFINE x == t[c]
  <2>1. x \in [st : Statuses, buf : B, res : V]
    BY <1>0 DEF TasksOf
  <2>2. CASE x.st = "wait"
    <3>1. FailAll(t)[c] = [x EXCEPT !.st = "failed", !.res = r]
      BY <1>2, <2>2, Zenon
    <3> HIDE DEF x
    <3>2. FailAll(t)[c] = [st |-> "failed", buf |-> x.buf, res |-> r]
      BY <2>1, <3>1, RecDone, Zenon
    <3>3. FailAll(t)[c] \in R
      <4>1. "failed" \in Statuses
        BY DEF Statuses
      <4>2. x.buf \in B /\ r \in V \cup {r}
        BY <2>1
      <4> QED BY <3>2, <4>1, <4>2
    <3>4. FailAll(t)[c].st = "failed" /\ FailAll(t)[c].buf = x.buf
      BY <3>2
    <3>5. x = t[c]
      BY DEF x
    <3> QED BY <2>2, <3>3, <3>4, <3>5
  <2>3. CASE x.st # "wait"
    <3>1. FailAll(t)[c] = x
      BY <1>2, <2>3, Zenon
    <3>2. x \in R
      BY <2>1
    <3> QED BY <2>3, <3>1, <3>2
  <2> QED BY <2>2, <2>3
<1>4. FailAll(t) \in TasksOf(B, V \cup {r})
  <2>1. FailAll(t) = [c \in Calls |-> FailAll(t)[c]]
    BY Zenon DEF FailAll
  <2> QED BY <1>3, <2>1 DEF TasksOf
<1> QED BY <1>3, <1>4 DEF Tasks
--------------------------------------------------------------------------------
(* Requests on the wire and in handlers. *)

\* The frame f is in w from place i on.
Holds(w, i, f) == i + Len(f) <= Len(w) + 1 /\ \A k \in 1..Len(f) : w[i + k - 1] = f[k]

LEMMA Slice ==
  ASSUME NEW D, NEW s \in Seq(D), NEW j \in Nat, NEW k \in Nat, j + k <= Len(s)
  PROVE  /\ SubSeq(s, j + 1, j + k) \in Seq(D) /\ Len(SubSeq(s, j + 1, j + k)) = k
         /\ DOMAIN SubSeq(s, j + 1, j + k) = 1..k
         /\ \A i \in 1..k : SubSeq(s, j + 1, j + k)[i] = s[j + i]
<1> HIDE RecordUpdate
<1> QED OBVIOUS

LEMMA ReadsBack ==
  ASSUME NEW c \in Calls, NEW q, Encoded(q), NEW w \in Seq(Unit), Holds(w, 1, Frame(c, q).bytes)
  PROVE  LET req == ReadReq(w)
         IN /\ req.seq = c /\ req.action = q.action /\ req.msg = Bytes(q.kind, c, q.msg)
            /\ Len(req.blob) = q.blob
<1> DEFINE f == Frame(c, q).bytes
           n == Len(q.action.str)
           h == w[1]
<1>1. /\ f \in Seq(Unit) /\ n \in Nat /\ Len(f) = 1 + n + q.msg + q.blob
      /\ \A i \in 1..n : f[1 + i] = Byte("txt", q.action.str[i])
      /\ \A i \in 1..q.msg : f[1 + n + i] = Byte(q.kind, c)
  BY ReqFrame
<1>2. /\ f[1].own = c /\ ReqSize(f[1]) = Len(f) /\ ActionLen(f[1]) = n
      /\ f[1].m = q.msg /\ GetAction(f[1]).tag = q.action.tag
      /\ q.action.tag = "Num" => GetAction(f[1]).num = q.action.num
  BY ReqFramed
<1>3. /\ q.msg \in Nat \ {0} /\ q.blob \in Nat /\ q.kind \in {"req", "odd"}
      /\ q.action \in RpcActions /\ q.action = IF q.action.tag = "Num" THEN Num(q.action.num) ELSE Str(q.action.str)
  BY Widths DEF Encoded, IsAction
<1> HIDE DEF f
<1>4. Len(f) <= Len(w) /\ Len(w) \in Nat /\ Len(f) \in Nat /\ \A k \in 1..Len(f) : w[k] = f[k]
  <2>1. 1 + Len(f) <= Len(w) + 1 /\ \A k \in 1..Len(f) : w[1 + k - 1] = f[k]
    BY DEF Holds, f
  <2>2. Len(w) \in Nat /\ Len(f) \in Nat
    BY <1>1
  <2> QED BY <2>1, <2>2
<1>5. h = f[1]
  BY <1>1, <1>3, <1>4, SMTT(20)
<1> HIDE DEF h, n
<1>6. /\ h.own = c /\ ReqSize(h) = 1 + n + q.msg + q.blob /\ ActionLen(h) = n /\ h.m = q.msg
      /\ GetAction(h).tag = q.action.tag
      /\ q.action.tag = "Num" => GetAction(h).num = q.action.num
  BY <1>1, <1>2, <1>5
<1> DEFINE x == SubSeq(w, 2, 1 + n)
           y == SubSeq(w, 1 + n + 1, 1 + n + q.msg)
           z == SubSeq(w, 1 + n + q.msg + 1, 1 + n + q.msg + q.blob)
<1>7. /\ ReadReq(w).seq = c /\ ReadReq(w).msg = y /\ ReadReq(w).blob = z
      /\ ReadReq(w).action = IF q.action.tag = "Num" THEN Num(q.action.num) ELSE Str(FromText(x))
  BY <1>6, Zenon DEF ReadReq, h
<1>8. y = Bytes(q.kind, c, q.msg)
  <2> DEFINE j == 1 + n
             k == q.msg
  <2>5. j \in Nat /\ k \in Nat /\ j + k <= Len(w)
    BY <1>1, <1>3, <1>4, SMTT(20)
  <2> HIDE DEF j, k
  <2> HIDE RecordUpdate
  <2>6. /\ SubSeq(w, j + 1, j + k) \in Seq(Unit) /\ Len(SubSeq(w, j + 1, j + k)) = k
        /\ \A i \in 1..k : SubSeq(w, j + 1, j + k)[i] = w[j + i]
    BY <2>5
  <2> USE RecordUpdate
  <2>1. y \in Seq(Unit) /\ Len(y) = q.msg /\ \A i \in 1..q.msg : y[i] = w[1 + n + i]
    BY <2>6, Zenon DEF j, k
  <2>2. \A i \in 1..q.msg : 1 + n + i \in 1..Len(f)
    BY <1>1, <1>3, SMTT(20)
  <2>3. /\ Bytes(q.kind, c, q.msg) \in Seq(Unit) /\ Len(Bytes(q.kind, c, q.msg)) = q.msg
        /\ \A i \in 1..q.msg : Bytes(q.kind, c, q.msg)[i] = Byte(q.kind, c)
    <3>1. q.kind \in Body \ {"txt"} /\ q.msg \in Nat
      BY <1>3 DEF Body
    <3> QED BY <3>1, BytesSeq
  <2> HIDE DEF y
  <2>4. \A i \in 1..q.msg : y[i] = Byte(q.kind, c)
    BY <1>1, <1>4, <2>1, <2>2, Zenon
  <2> QED BY <2>1, <2>3, <2>4, SameSeq
<1>9. FromText(x) = q.action.str
  <2> DEFINE t == q.action.str
  <2>1. t \in Seq(Words) /\ DOMAIN t = 1..n /\ Len(t) = n
    BY <1>3 DEF RpcActions, n
  <2>6. t \in [1..n -> Words]
    BY <2>1
  <2>11. x = SubSeq(w, 1 + 1, 1 + n)
    OBVIOUS
  <2>12. 1 \in Nat /\ n \in Nat /\ 1 + n <= Len(w)
    BY <1>1, <1>3, <1>4
  <2>2. DOMAIN x = 1..n /\ \A i \in 1..n : x[i] = w[1 + i]
    BY <2>11, <2>12, Slice
  <2>3. \A i \in 1..n : 1 + i \in 1..Len(f)
    BY <1>1, <1>3, SMTT(20)
  <2> HIDE DEF x
  <2>7. \A i \in 1..n : f[1 + i] = Byte("txt", t[i])
    BY <1>1
  <2> HIDE DEF t
  <2>8. ASSUME NEW i \in 1..n PROVE x[i] = Byte("txt", t[i])
    BY <1>4, <2>2, <2>3, <2>7
  <2>10. \A v : Byte("txt", v).own = v
    BY DEF Byte
  <2>4. \A i \in 1..n : x[i].own = t[i]
    BY <2>8, <2>10
  <2>5. FromText(x) = [i \in 1..n |-> x[i].own]
    BY <2>2, Zenon DEF FromText
  <2>9. FromText(x) = t
    BY <2>4, <2>5, <2>6
  <2> QED BY <2>9 DEF t
<1>10. Len(z) = q.blob
  <2> DEFINE j == 1 + n + q.msg
  <2>1. j \in Nat /\ j + 1 \in Nat /\ j + q.blob <= Len(w) /\ j + q.blob \in Nat /\ j + 1 >= 1
    BY <1>1, <1>3, <1>4, SMTT(20)
  <2> HIDE DEF j
  <2>2. Len(SubSeq(w, j + 1, j + q.blob)) = q.blob
    BY <1>3, <2>1
  <2> QED BY <2>2, Zenon DEF j
<1> HIDE DEF x, y, z
<1> QED BY <1>3, <1>7, <1>8, <1>9, <1>10, SMTT(20)

LEMMA ReadsPing ==
  ASSUME NEW c, NEW w \in Seq(Unit), Len(w) > 0, w[1] = ReqHead(c, PING_ACTION, 0, 0)
  PROVE  ReadReq(w).action = Num(0) /\ ReadReq(w).msg = <<>>
<1> DEFINE h == ReqHead(c, PING_ACTION, 0, 0)
<1>1. h.m = 0 /\ h.own = c /\ GetAction(h).tag = "Num" /\ GetAction(h).num = 0 /\ ActionLen(h) = 0
  BY Widths DEF ReqHead, PING_ACTION, GetAction, ActionLen, U32_HIGH_MASK, AsI32
<1> HIDE DEF h
<1>2. ReadReq(w).action = Num(0) /\ ReadReq(w).msg = SubSeq(w, 1 + 0 + 1, 1 + 0 + 0)
  BY <1>1 DEF ReadReq, h
<1> QED BY <1>2


\* The part of a request that goes over the wire.
Same(p, q) == p.action = q.action /\ p.kind = q.kind /\ p.msg = q.msg /\ p.blob = q.blob

AskTypes ==
  /\ layer \in {"mux", "single", "stream"} /\ Tasks(task) /\ asked \in [Calls -> Asked]
  /\ \A c \in Calls : layer # "stream" /\ asked[c].kind # "none" => asked[c].action.tag = "Str"
  /\ \A r \in running : r.seq \in Calls

\* What was asked is not changed once the call has begun.
AskKept ==
  \A c \in Calls : task[c].st # "new" => task'[c].st # "new" /\ Same(asked'[c], asked[c])

LEMMA AskedPut ==
  ASSUME asked \in [Calls -> Asked], NEW c \in Calls
  PROVE  /\ \A e \in ErrTypes :
              LET a == [asked EXCEPT ![c].ety = e]
              IN a \in [Calls -> Asked] /\ \A d \in Calls : Same(a[d], asked[d])
         /\ \A b \in BufShape :
              LET a == [asked EXCEPT ![c].buf = b]
              IN a \in [Calls -> Asked] /\ \A d \in Calls : Same(a[d], asked[d])
<1>1. ASSUME NEW x \in Asked, NEW e \in ErrTypes, NEW b \in BufShape
      PROVE  /\ [x EXCEPT !.ety = e] \in Asked /\ Same([x EXCEPT !.ety = e], x)
             /\ [x EXCEPT !.buf = b] \in Asked /\ Same([x EXCEPT !.buf = b], x)
  BY DEF Asked, Same
<1>2. \A x : Same(x, x)
  BY DEF Same
<1>3. ASSUME NEW y \in Asked, Same(y, asked[c])
      PROVE  /\ [asked EXCEPT ![c] = y] \in [Calls -> Asked]
             /\ \A d \in Calls : Same([asked EXCEPT ![c] = y][d], asked[d])
  BY <1>2, <1>3
<1>4. ASSUME NEW e \in ErrTypes
      PROVE  LET a == [asked EXCEPT ![c].ety = e]
             IN a \in [Calls -> Asked] /\ \A d \in Calls : Same(a[d], asked[d])
  <2> DEFINE y == [asked[c] EXCEPT !.ety = e]
  <2>1. y \in Asked /\ Same(y, asked[c])
    <3>1. NoBuf \in BufShape
      BY DEF NoBuf, Buf, BufShape, BufTypes
    <3> QED BY <1>1, <3>1, Zenon
  <2>2. [asked EXCEPT ![c].ety = e] = [asked EXCEPT ![c] = y]
    OBVIOUS
  <2> HIDE DEF y
  <2> QED BY <1>3, <2>1, <2>2, Zenon
<1>5. ASSUME NEW b \in BufShape
      PROVE  LET a == [asked EXCEPT ![c].buf = b]
             IN a \in [Calls -> Asked] /\ \A d \in Calls : Same(a[d], asked[d])
  <2> DEFINE y == [asked[c] EXCEPT !.buf = b]
  <2>1. y \in Asked /\ Same(y, asked[c])
    <3>1. "()" \in ErrTypes
      BY DEF ErrTypes
    <3> QED BY <1>1, <3>1, Zenon
  <2>2. [asked EXCEPT ![c].buf = b] = [asked EXCEPT ![c] = y]
    OBVIOUS
  <2> HIDE DEF y
  <2> QED BY <1>3, <2>1, <2>2, Zenon
<1> QED BY <1>4, <1>5

\* A step that only touches what does not go over the wire.
LEMMA AskedSame ==
  ASSUME AskTypes, layer' = layer, asked' \in [Calls -> Asked],
         \A c \in Calls : Same(asked'[c], asked[c]), \A r \in running' : r.seq \in Calls,
         Tasks(task'), \A c \in Calls : task[c].st # "new" => task'[c].st # "new"
  PROVE  AskTypes' /\ AskKept
<1>1. AskKept
  BY DEF AskKept
<1>2. \A c \in Calls : layer' # "stream" /\ asked'[c].kind # "none" => asked'[c].action.tag = "Str"
  BY DEF AskTypes, Same
<1> QED BY <1>1, <1>2 DEF AskTypes


\* A task that has begun stays so when one task is replaced or all that wait fail.
LEMMA PutBegun ==
  ASSUME NEW t, NEW u, NEW c \in Calls, NEW s, NEW b, NEW r, Put(t, u, c, s, b, r), s # "new"
  PROVE  Tasks(u) /\ u[c].st = s /\ \A d \in Calls : t[d].st # "new" => u[d].st # "new"
<1>1. Tasks(u) /\ u[c].st = s
  BY DEF Put
<1> QED BY <1>1 DEF Put

LEMMA FailBegun ==
  ASSUME NEW t, Tasks(t)
  PROVE  Tasks(FailAll(t)) /\ \A d \in Calls : t[d].st # "new" => FailAll(t)[d].st # "new"
<1>1. /\ Tasks(FailAll(t))
      /\ \A d \in Calls : IF t[d].st = "wait" THEN FailAll(t)[d].st = "failed"
                          ELSE FailAll(t)[d] = t[d]
  BY TasksFail, Zenon
<1> QED BY <1>1

LEMMA AskStep ==
  ASSUME Carried, ReqInv, AskTypes, [Next]_vars
  PROVE  AskTypes' /\ AskKept /\ layer' = layer
<1>0. /\ Tasks(task) /\ asked \in [Calls -> Asked] /\ \A r \in running : r.seq \in Calls
      /\ \A x : Same(x, x)
  BY DEF AskTypes, Same
<1>1. layer' = layer
  BY Zenon DEF Next, Send, SendCut, Ping, Expire, ServerRead, ServerDrop, Serve, RecvErrno, RecvErrString,
         RecvResp, RecvDump, ClientDrop, Quiet, vars
<1>2. {"wait", "failed", "ping", "done"} \subseteq Statuses \ {"new"} /\ "wait" # "new"
  BY DEF Statuses
<1>3. ASSUME asked' = asked, running' = running, Tasks(task'),
             \A c \in Calls : task[c].st # "new" => task'[c].st # "new"
      PROVE  AskTypes' /\ AskKept
  BY <1>0, <1>1, <1>3, AskedSame
<1>4. ASSUME NEW c \in Calls, Send(c) PROVE AskTypes' /\ AskKept
  <2>1. PICK q \in Requests :
          /\ task' = [task EXCEPT ![c] =
               [st  |-> IF Encodes(c, q) THEN "wait" ELSE "failed", buf |-> NoBuf,
                res |-> IF Encodes(c, q) THEN Pending ELSE Rpc("Encode")]]
          /\ asked' = [asked EXCEPT ![c] = q]
    BY <1>4, Zenon DEF Send
  <2> DEFINE s == IF Encodes(c, q) THEN "wait" ELSE "failed"
             r == IF Encodes(c, q) THEN Pending ELSE Rpc("Encode")
  <2>2. s \in Statuses \ {"new"}
    BY <1>2
  <2>3. Put(task, task', c, s, NoBuf, r)
    BY <1>0, <1>2, <2>1, <2>2, PutAll, Zenon
  <2>4. Tasks(task') /\ \A d \in Calls : task[d].st # "new" => task'[d].st # "new"
    BY <2>2, <2>3, PutBegun
  <2>5. q \in Asked /\ q.action \in Actions /\ (Api => q.action.tag = "Str")
    BY Requested, ActionsOK
  <2>6. asked' \in [Calls -> Asked] /\ asked'[c] = q /\ \A d \in Calls : d # c => asked'[d] = asked[d]
    BY <1>0, <2>1, <2>5
  <2>7. task[c].st = "new" /\ running' = running
    BY <1>4 DEF Send, IsNext
  <2>8. AskKept
    BY <1>0, <2>4, <2>6, <2>7 DEF AskKept
  <2>9. \A d \in Calls : layer' # "stream" /\ asked'[d].kind # "none" => asked'[d].action.tag = "Str"
    BY <1>1, <2>5, <2>6 DEF AskTypes, Api
  <2> QED BY <1>0, <1>1, <2>4, <2>6, <2>7, <2>8, <2>9, SMTT(20) DEF AskTypes
<1>16. ASSUME NEW c \in Calls, NEW s \in Statuses \ {"new"}, NEW t, t = [task EXCEPT ![c].st = s]
       PROVE  Tasks(t) /\ \A d \in Calls : task[d].st # "new" => t[d].st # "new"
  <2>1. Put(task, t, c, s, task[c].buf, task[c].res)
    BY <1>0, <1>16, PutSt, Zenon
  <2>2. s # "new"
    OBVIOUS
  <2>3. Tasks(t) /\ t[c].st = s
    BY <2>1 DEF Put
  <2> QED BY <2>1, <2>2, <2>3 DEF Put
<1>17. ASSUME NEW c \in Calls, NEW s \in Statuses \ {"new"}, NEW x, NEW r,
              task' = [[task EXCEPT ![c].st = s, ![c].res = r] EXCEPT ![c].buf = x]
       PROVE  Tasks(task') /\ \A d \in Calls : task[d].st # "new" => task'[d].st # "new"
  <2>1. Put(task, task', c, s, x, r)
    BY <1>0, <1>17, PutFull, Zenon
  <2>2. s # "new"
    OBVIOUS
  <2> QED BY <2>1, <2>2, PutBegun, Zenon
<1>5. ASSUME NEW c \in Calls, SendCut(c) PROVE AskTypes' /\ AskKept
  <2> DEFINE t == [task EXCEPT ![c].st = "wait"]
  <2>1. task' = FailAll(t) /\ asked' = asked /\ running' = running
    BY <1>5 DEF SendCut
  <2>2. "wait" \in Statuses \ {"new"}
    BY <1>2
  <2>3. Tasks(t) /\ \A d \in Calls : task[d].st # "new" => t[d].st # "new"
    BY <1>16, <2>2, Zenon
  <2> HIDE DEF t
  <2>4. Tasks(task') /\ \A d \in Calls : t[d].st # "new" => task'[d].st # "new"
    BY <2>1, <2>3, FailBegun
  <2>5. asked' = asked /\ running' = running
    BY <2>1
  <2> QED BY <1>3, <2>3, <2>4, <2>5
<1>6. ASSUME NEW c \in Calls, Ping(c) PROVE AskTypes' /\ AskKept
  <2>1. task' = [task EXCEPT ![c].st = "ping"] /\ asked' = asked /\ running' = running
    BY <1>6 DEF Ping
  <2>2. "ping" \in Statuses \ {"new"}
    BY <1>2
  <2>3. Tasks(task') /\ \A d \in Calls : task[d].st # "new" => task'[d].st # "new"
    BY <1>16, <2>1, <2>2, Zenon
  <2> QED BY <1>3, <2>1, <2>3
<1>7. ASSUME NEW c \in Calls, NEW s \in Statuses \ {"new"}, NEW r,
             task' = [task EXCEPT ![c].st = s, ![c].res = r]
      PROVE  Tasks(task') /\ \A d \in Calls : task[d].st # "new" => task'[d].st # "new"
  <2>1. Put(task, task', c, s, task[c].buf, r)
    BY <1>0, <1>7, PutDone, Zenon
  <2>2. s # "new"
    OBVIOUS
  <2> QED BY <2>1, <2>2, PutBegun, Zenon
<1>8. ASSUME NEW c \in Calls, Expire(c) PROVE AskTypes' /\ AskKept
  <2>1. Tasks(task') /\ \A d \in Calls : task[d].st # "new" => task'[d].st # "new"
    BY <1>2, <1>7, <1>8, ZenonT(30) DEF Expire
  <2> QED BY <1>3, <1>8, <2>1, Zenon DEF Expire
<1>9. CASE RecvErrno
  <2>1. Tasks(task') /\ \A d \in Calls : task[d].st # "new" => task'[d].st # "new"
    BY <1>2, <1>7, <1>9, ZenonT(30) DEF RecvErrno, Complete, Waiting
  <2> QED BY <1>3, <1>9, <2>1 DEF RecvErrno
<1>10. CASE RecvErrString
  <2>1. Tasks(task') /\ \A d \in Calls : task[d].st # "new" => task'[d].st # "new"
    BY <1>2, <1>7, <1>10, Zenon DEF RecvErrString, Complete, Waiting
  <2> QED BY <1>3, <1>10, <2>1 DEF RecvErrString
<1>11. CASE RecvResp
  <2> DEFINE c == s2c[1].own
  <2>1. PICK b \in (IF Api THEN {NoBuf} ELSE Bufs) :
          /\ c \in Calls /\ asked' = [asked EXCEPT ![c].buf = b] /\ running' = running
          /\ \E x, r : task' = [Complete(c, r) EXCEPT ![c].buf = x]
    BY <1>11, Zenon DEF RecvResp, Waiting
  <2>2. PICK x, r : task' = [[task EXCEPT ![c].st = "done", ![c].res = r] EXCEPT ![c].buf = x]
    BY <2>1, Zenon DEF Complete
  <2> HIDE DEF c
  <2>3. "done" \in Statuses \ {"new"}
    BY <1>2
  <2>5. Tasks(task') /\ \A d \in Calls : task[d].st # "new" => task'[d].st # "new"
    BY <1>17, <2>1, <2>2, <2>3, Zenon
  <2>6. b \in BufShape
    <3>1. NoBuf \in BufShape
      BY DEF NoBuf, Buf, BufShape, BufTypes
    <3> QED BY <3>1, CallAssumption
  <2>7. asked' \in [Calls -> Asked] /\ \A d \in Calls : Same(asked'[d], asked[d])
    BY <1>0, <2>1, <2>6, AskedPut
  <2> QED BY <1>0, <1>1, <2>1, <2>5, <2>7, AskedSame
<1>12. CASE ClientDrop
  <2>1. task' = FailAll(task) /\ asked' = asked /\ running' = running
    BY <1>12 DEF ClientDrop
  <2>2. Tasks(task') /\ \A d \in Calls : task[d].st # "new" => task'[d].st # "new"
    BY <1>0, <2>1, FailBegun
  <2>3. asked' = asked /\ running' = running
    BY <2>1
  <2> QED BY <1>1, <1>3, <2>2, <2>3
<1>13. CASE ServerRead
  <2>1. task' = task /\ asked' = asked
    BY <1>13 DEF ServerRead
  <2>2. \A r \in running' : r.seq \in Calls
    <3>1. c2s # <<>> /\ IsHead(c2s[1]) /\ ReadReq(c2s).seq = c2s[1].own
      BY <1>13 DEF ServerRead, Readable, ReadReq
    <3>2. ReadReq(c2s).seq \in Calls
      <4>1. 1 \in 1..Len(c2s)
        BY <3>1 DEF ReqInv
      <4> QED BY <3>1, <4>1 DEF ReqInv
    <3>3. running' = running \/ running' = running \cup {ServerTask(ReadReq(c2s))}
      BY <1>13 DEF ServerRead
    <3>4. ServerTask(ReadReq(c2s)).seq = ReadReq(c2s).seq
      BY DEF ServerTask
    <3> QED BY <1>0, <3>2, <3>3, <3>4, SMTT(20)
  <2> QED BY <1>0, <1>1, <2>1, <2>2, AskedSame, SMTT(20)
<1>14. ASSUME NEW r \in running, Serve(r) PROVE AskTypes' /\ AskKept
  <2>1. PICK o \in Outcomes : asked' = [asked EXCEPT ![r.seq].ety = IF o.kind = "err" THEN o.err.ty ELSE @]
    BY <1>14, Zenon DEF Serve
  <2>2. r.seq \in Calls /\ task' = task /\ running' \subseteq running
    BY <1>0, <1>14 DEF Serve
  <2> DEFINE e == IF o.kind = "err" THEN o.err.ty ELSE asked[r.seq].ety
  <2>3. e \in ErrTypes
    <3>1. o.kind = "err" => o.err \in Errors
      BY Outcomed
    <3>2. \A x \in Errors : x.ty \in ErrTypes
      BY CallAssumption
    <3>3. asked[r.seq].ety \in ErrTypes
      BY <1>0, <2>2 DEF Asked
    <3> QED BY <3>1, <3>2, <3>3
  <2>4. asked' = [asked EXCEPT ![r.seq].ety = e]
    BY <2>1
  <2> HIDE DEF e
  <2>5. asked' \in [Calls -> Asked] /\ \A d \in Calls : Same(asked'[d], asked[d])
    BY <1>0, <2>2, <2>3, <2>4, AskedPut
  <2> QED BY <1>0, <1>1, <2>2, <2>5, AskedSame
<1>15. CASE ServerDrop \/ RecvDump \/ Quiet \/ UNCHANGED vars
  <2>1. task' = task /\ asked' = asked /\ running' = running
    BY <1>15 DEF ServerDrop, RecvDump, Quiet, vars
  <2>2. Tasks(task') /\ \A c \in Calls : task[c].st # "new" => task'[c].st # "new"
    BY <1>0, <2>1
  <2> QED BY <1>1, <1>3, <2>1, <2>2
<1> QED BY <1>1, <1>4, <1>5, <1>6, <1>8, <1>9, <1>10, <1>11, <1>12, <1>13, <1>14, <1>15, Zenon DEF Next


\* A buffer b that was o when it was offered: it is within what it has allocated, or o
\* was a vector with spare room.
Fit(b, o) ==
  /\ b \in BufShape
  /\ b.len > b.cap => o.type \in {"Vec", "OptVec"} /\ o.len < o.cap /\ o.cap < b.len

LEMMA Reserved ==
  ASSUME NEW b \in Bufs \cup {NoBuf}, NEW n \in Nat
  PROVE  Fit(b, b) /\ Fit(Reserve(b, n).buf, b)
<1>1. NoBuf \in BufShape /\ NoBuf.len <= NoBuf.cap /\ NoBuf.type = "NoField"
  BY DEF NoBuf, Buf, BufShape, BufTypes
<1>2. b \in BufShape /\ b.len <= b.cap
  BY <1>1, CallAssumption
<1>3. /\ b.type \in BufTypes /\ b.some \in BOOLEAN /\ b.len \in Nat /\ b.cap \in Nat
      /\ DOMAIN b = {"type", "some", "len", "cap"}
  BY <1>2 DEF BufShape
<1>4. ASSUME NEW x \in Nat
      PROVE  /\ [b EXCEPT !.len = x] \in BufShape
             /\ [b EXCEPT !.len = x].len = x /\ [b EXCEPT !.len = x].cap = b.cap
  BY <1>2, <1>4 DEF BufShape
<1>5. ASSUME NEW x \in Nat, NEW y \in Nat
      PROVE  /\ [[b EXCEPT !.cap = y] EXCEPT !.len = x] \in BufShape
             /\ [[b EXCEPT !.cap = y] EXCEPT !.len = x].len = x
             /\ [[b EXCEPT !.cap = y] EXCEPT !.len = x].cap = y
  <2> DEFINE d == [b EXCEPT !.cap = y]
  <2>1. d \in BufShape /\ d.cap = y
    BY <1>2, <1>5 DEF BufShape
  <2> HIDE DEF d
  <2>2. [d EXCEPT !.len = x] \in BufShape /\ [d EXCEPT !.len = x].len = x /\ [d EXCEPT !.len = x].cap = y
    BY <2>1, <1>5 DEF BufShape
  <2> QED BY <2>2 DEF d
<1>6. /\ ReserveVec(b, n) \in BufShape
      /\ (ReserveVec(b, n).len > ReserveVec(b, n).cap =>
            b.len < b.cap /\ b.cap < ReserveVec(b, n).len)
  <2>1. CASE b.len = n
    <3>1. ReserveVec(b, n) = b
      BY <2>1 DEF ReserveVec
    <3> QED BY <1>2, <1>3, <3>1
  <2>2. CASE b.len # n /\ ~(b.cap < n)
    <3>1. ReserveVec(b, n) = [b EXCEPT !.len = n]
      BY <2>2 DEF ReserveVec
    <3> QED BY <1>3, <1>4, <2>2, <3>1
  <2>3. CASE b.len # n /\ b.cap < n /\ b.cap - b.len >= n - b.cap
    <3>1. ReserveVec(b, n) = [b EXCEPT !.len = n]
      BY <2>3 DEF ReserveVec, VecReserve
    <3>2. b.len < b.cap
      BY <1>3, <2>3
    <3> QED BY <1>4, <2>3, <3>1, <3>2
  <2>4. CASE b.len # n /\ b.cap < n /\ ~(b.cap - b.len >= n - b.cap)
    <3> DEFINE y == IF 2 * b.cap > b.len + (n - b.cap) THEN 2 * b.cap ELSE b.len + (n - b.cap)
               d == [[b EXCEPT !.cap = y] EXCEPT !.len = n]
    <3>1. VecReserve(b, n - b.cap) = [b EXCEPT !.cap = y]
      BY <2>4, Zenon DEF VecReserve
    <3>2. y \in Nat /\ (n > y => b.len < b.cap /\ b.cap < n)
      BY <1>2, <1>3, <2>4
    <3> HIDE DEF y
    <3>3. ReserveVec(b, n) = d
      BY <2>4, <3>1, Zenon DEF ReserveVec
    <3>4. d \in BufShape /\ d.len = n /\ d.cap = y
      BY <1>5, <3>2, Zenon
    <3> HIDE DEF d
    <3>5. ReserveVec(b, n) \in BufShape /\ ReserveVec(b, n).len = n /\ ReserveVec(b, n).cap = y
      BY <3>3, <3>4
    <3> QED BY <3>2, <3>5, SMTT(20)
  <2> QED BY <2>1, <2>2, <2>3, <2>4
<1>7. CASE b.type = "NoField"
  <2>1. Reserve(b, n).buf = b
    BY <1>7 DEF Reserve
  <2> QED BY <1>2, <1>3, <2>1 DEF Fit
<1>8. CASE b.type = "Vec" \/ (b.type = "OptVec" /\ b.some)
  <2>1. Reserve(b, n).buf = ReserveVec(b, n)
    BY <1>8, Zenon DEF Reserve
  <2> QED BY <1>2, <1>3, <1>6, <1>8, <2>1 DEF Fit
<1>9. CASE b.type \in {"OptVec", "OptBuffer"} /\ ~b.some
  <2>1. Reserve(b, n).buf = Buf(b.type, TRUE, n, n) \/ Reserve(b, n).buf = b
    BY <1>9, Zenon DEF Reserve
  <2>2. Fit(b, b)
    BY <1>2, <1>3 DEF Fit
  <2>3. Fit(Buf(b.type, TRUE, n, n), b)
    BY <1>3 DEF Buf, BufShape, Fit
  <2> QED BY <2>1, <2>2, <2>3
<1>10. CASE b.type = "Buffer" \/ (b.type = "OptBuffer" /\ b.some)
  <2>1. Reserve(b, n).buf = IF Fits(b, n) THEN [b EXCEPT !.len = n] ELSE b
    BY <1>10, Zenon DEF Reserve
  <2>2. CASE Fits(b, n)
    BY <1>2, <1>3, <1>4, <2>1, <2>2 DEF Fits, Fit
  <2>3. CASE ~Fits(b, n)
    BY <1>2, <1>3, <2>1, <2>3 DEF Fit
  <2> QED BY <2>2, <2>3
<1> QED BY <1>2, <1>3, <1>7, <1>8, <1>9, <1>10, SMTT(20) DEF BufTypes

\* The tasks and the buffers in them.
BlobInv == Tasks(task) /\ \A c \in Calls : Fit(task[c].buf, asked[c].buf)

LEMMA BlobPut ==
  ASSUME BlobInv, NEW c \in Calls, NEW s, NEW b, NEW r, Put(task, task', c, s, b, r),
         Fit(b, asked'[c].buf), \A d \in Calls : d # c => asked'[d].buf = asked[d].buf
  PROVE  BlobInv'
<1>1. task'[c].buf = b
  BY DEF Put
<1>2. \A d \in Calls : Fit(task'[d].buf, asked'[d].buf)
  BY <1>1, SMTT(20) DEF Put, BlobInv
<1> QED BY <1>2 DEF Put, BlobInv, Fit

LEMMA BlobFail ==
  ASSUME BlobInv, task' = FailAll(task), asked' = asked
  PROVE  BlobInv'
<1>1. Tasks(task') /\ \A c \in Calls : task'[c].buf = task[c].buf
  BY TasksFail, Zenon DEF BlobInv
<1> QED BY <1>1 DEF BlobInv, Fit

LEMMA BlobStep ==
  ASSUME Carried, RespInv, AskTypes, BlobInv, [Next]_vars
  PROVE  BlobInv'
<1>1. \A o : Fit(NoBuf, o)
  BY DEF Fit, NoBuf, Buf, BufShape, BufTypes
<1>2. \A c \in Calls : Fit(task[c].buf, asked[c].buf)
  BY DEF BlobInv
<1>0. Tasks(task) /\ asked \in [Calls -> Asked]
  BY DEF BlobInv, AskTypes
<1>3. ASSUME NEW c \in Calls, NEW s \in Statuses, task' = [task EXCEPT ![c].st = s], asked' = asked
      PROVE  BlobInv'
  <2>1. Put(task, task', c, s, task[c].buf, task[c].res)
    BY <1>0, <1>3, PutSt, Zenon
  <2> QED BY <1>2, <1>3, <2>1, BlobPut
<1>4. ASSUME NEW c \in Calls, NEW s \in Statuses, NEW r, asked' = asked,
             task' = [task EXCEPT ![c].st = s, ![c].res = r]
      PROVE  BlobInv'
  <2>1. Put(task, task', c, s, task[c].buf, r)
    BY <1>0, <1>4, PutDone, Zenon
  <2> QED BY <1>2, <1>4, <2>1, BlobPut
<1>5. ASSUME NEW c \in Calls, NEW b, NEW r, Fit(b, asked'[c].buf),
             \A d \in Calls : d # c => asked'[d].buf = asked[d].buf,
             task' = [Complete(c, r) EXCEPT ![c].buf = b]
      PROVE  BlobInv'
  <2>1. "done" \in Statuses
    BY DEF Statuses
  <2>2. Put(task, task', c, "done", b, r)
    BY <1>0, <1>5, <2>1, PutFull, Zenon DEF Complete
  <2> QED BY <1>5, <2>2, BlobPut, Zenon
<1>6. ASSUME NEW c \in Calls, Send(c) PROVE BlobInv'
  <2>1. PICK q \in Requests :
          task' = [task EXCEPT ![c] =
            [st  |-> IF Encodes(c, q) THEN "wait" ELSE "failed", buf |-> NoBuf,
             res |-> IF Encodes(c, q) THEN Pending ELSE Rpc("Encode")]]
    BY <1>6, Zenon DEF Send
  <2>6. \A d \in Calls : d # c => asked'[d].buf = asked[d].buf
    BY <1>0, <1>6 DEF Send
  <2>2. \E s \in Statuses : \E r : task' = [task EXCEPT ![c] = [st |-> s, buf |-> NoBuf, res |-> r]]
    <3>1. (IF Encodes(c, q) THEN "wait" ELSE "failed") \in Statuses
      BY DEF Statuses
    <3> QED BY <2>1, <3>1, Zenon
  <2>3. PICK s \in Statuses : \E r : task' = [task EXCEPT ![c] = [st |-> s, buf |-> NoBuf, res |-> r]]
    BY <2>2, Zenon
  <2>5. PICK r : task' = [task EXCEPT ![c] = [st |-> s, buf |-> NoBuf, res |-> r]]
    BY <2>3, Zenon
  <2>4. Put(task, task', c, s, NoBuf, r)
    BY <1>0, <1>1, <2>5, PutAll, Zenon
  <2> QED BY <1>1, <2>4, <2>6, BlobPut, Zenon
<1>7. ASSUME NEW c \in Calls, SendCut(c) PROVE BlobInv'
  <2> DEFINE t == [task EXCEPT ![c].st = "wait"]
  <2>1. task' = FailAll(t) /\ asked' = asked
    BY <1>7 DEF SendCut
  <2>2. "wait" \in Statuses
    BY DEF Statuses
  <2>3. Put(task, t, c, "wait", task[c].buf, task[c].res)
    BY <1>0, <2>2, PutSt
  <2> HIDE DEF t
  <2>4. Tasks(t) /\ t[c].buf = task[c].buf
    <3>1. Tasks(t) /\ t[c] = [st |-> "wait", buf |-> task[c].buf, res |-> task[c].res]
      BY <2>3, Zenon DEF Put
    <3> QED BY <3>1
  <2>5. \A d \in Calls : t[d].buf = task[d].buf
    BY <2>3, <2>4 DEF Put
  <2>6. Tasks(task') /\ \A d \in Calls : task'[d].buf = t[d].buf
    BY <2>1, <2>4, TasksFail, Zenon
  <2> QED BY <1>2, <2>1, <2>5, <2>6 DEF BlobInv
<1>8. ASSUME NEW c \in Calls, Ping(c) \/ Expire(c) PROVE BlobInv'
  <2>1. "ping" \in Statuses /\ "failed" \in Statuses
    BY DEF Statuses
  <2>2. CASE Ping(c)
    BY <1>3, <2>1, <2>2, Zenon DEF Ping
  <2>3. CASE Expire(c)
    BY <1>4, <2>1, <2>3, Zenon DEF Expire
  <2> QED BY <1>8, <2>2, <2>3
<1>9. CASE RecvErrno \/ RecvErrString
  <2>1. "done" \in Statuses
    BY DEF Statuses
  <2>2. CASE RecvErrno
    BY <1>4, <2>1, <2>2, Zenon DEF RecvErrno, Complete, Waiting
  <2>3. CASE RecvErrString
    BY <1>4, <2>1, <2>3, Zenon DEF RecvErrString, Complete, Waiting
  <2> QED BY <1>9, <2>2, <2>3
<1>10. CASE RecvResp
  <2> DEFINE h == s2c[1]
             c == h.own
             size == 1 + h.m + h.b
             res == DecodeResp(SubSeq(s2c, 2, 1 + h.m), SubSeq(s2c, 2 + h.m, size))
  <2>1. PICK buf \in (IF Api THEN {NoBuf} ELSE Bufs) :
          /\ c \in Calls /\ asked' = [asked EXCEPT ![c].buf = buf]
          /\ task' = IF h.b = 0 THEN [Complete(c, res) EXCEPT ![c].buf = buf]
                     ELSE IF Reserve(buf, h.b).ok
                     THEN [Complete(c, res) EXCEPT ![c].buf = Reserve(buf, h.b).buf]
                     ELSE [Complete(c, Rpc("Decode")) EXCEPT ![c].buf = buf]
    BY <1>10, Zenon DEF RecvResp, Waiting
  <2>2. h.b \in Nat
    <3>1. s2c[1] \in Unit
      BY <1>10, FirstResp, Zenon DEF RecvResp
    <3>2. s2c[1].b \in 0..I32_MAX
      BY <3>1 DEF Unit
    <3> QED BY <3>2, Widths
  <2>3. buf \in Bufs \cup {NoBuf}
    OBVIOUS
  <2> DEFINE room == Reserve(buf, h.b)
  <2>4. Fit(buf, buf) /\ Fit(room.buf, buf)
    BY <2>2, <2>3, Reserved
  <2>5. \/ task' = [Complete(c, res) EXCEPT ![c].buf = buf]
        \/ task' = [Complete(c, res) EXCEPT ![c].buf = room.buf]
        \/ task' = [Complete(c, Rpc("Decode")) EXCEPT ![c].buf = buf]
    BY <2>1, Zenon
  <2> HIDE DEF h, c, res, room
  <2>6. asked'[c].buf = buf /\ \A d \in Calls : d # c => asked'[d].buf = asked[d].buf
    <3>1. asked[c] \in Asked /\ asked'[c] = [asked[c] EXCEPT !.buf = buf]
      BY <1>0, <2>1
    <3>2. asked'[c].buf = buf
      BY <3>1 DEF Asked
    <3> QED BY <1>0, <2>1, <3>2
  <2>7. /\ c \in Calls /\ Fit(buf, asked'[c].buf) /\ Fit(room.buf, asked'[c].buf)
        /\ \A d \in Calls : d # c => asked'[d].buf = asked[d].buf
    BY <2>1, <2>4, <2>6
  <2>8. CASE task' = [Complete(c, res) EXCEPT ![c].buf = buf]
    BY <1>5, <2>7, <2>8, Zenon
  <2>9. CASE task' = [Complete(c, res) EXCEPT ![c].buf = room.buf]
    BY <1>5, <2>7, <2>9, Zenon
  <2>10. CASE task' = [Complete(c, Rpc("Decode")) EXCEPT ![c].buf = buf]
    BY <1>5, <2>7, <2>10, Zenon
  <2> QED BY <2>5, <2>8, <2>9, <2>10
<1>11. CASE ClientDrop
  BY <1>11, BlobFail DEF ClientDrop
<1>12. ASSUME task' = task, \A d \in Calls : asked'[d].buf = asked[d].buf PROVE BlobInv'
  BY <1>12 DEF BlobInv
<1>13. CASE ServerRead \/ ServerDrop \/ RecvDump \/ Quiet \/ UNCHANGED vars
  BY <1>12, <1>13 DEF ServerRead, ServerDrop, RecvDump, Quiet, vars
<1>14. ASSUME NEW r \in running, Serve(r) PROVE BlobInv'
  <2>1. PICK o \in Outcomes : asked' = [asked EXCEPT ![r.seq].ety = IF o.kind = "err" THEN o.err.ty ELSE @]
    BY <1>14, Zenon DEF Serve
  <2> DEFINE e == IF o.kind = "err" THEN o.err.ty ELSE asked[r.seq].ety
  <2>2. task' = task /\ asked' = [asked EXCEPT ![r.seq].ety = e]
    BY <1>14, <2>1 DEF Serve
  <2> HIDE DEF e
  <2>3. ASSUME NEW d \in Calls PROVE asked'[d].buf = asked[d].buf
    <3>1. asked[d] \in Asked /\ (asked'[d] = asked[d] \/ asked'[d] = [asked[d] EXCEPT !.ety = e])
      BY <1>0, <2>2
    <3> QED BY <3>1 DEF Asked
  <2> QED BY <1>12, <2>2, <2>3
<1> QED BY <1>6, <1>7, <1>8, <1>9, <1>10, <1>11, <1>13, <1>14, Zenon DEF Next

LEMMA BlobInit == Init => BlobInv
<1> SUFFICES ASSUME Init PROVE BlobInv
  OBVIOUS
<1>1. "new" \in Statuses
  BY DEF Statuses
<1>2. task \in TasksOf({NoBuf}, {Pending}) /\ \A c \in Calls : task[c].buf = NoBuf
  BY <1>1 DEF Init, TasksOf
<1>3. \A o : Fit(NoBuf, o)
  BY DEF Fit, NoBuf, Buf, BufShape, BufTypes
<1> QED BY <1>2, <1>3 DEF BlobInv, Tasks

\* A complete request at place i of w is a ping or the frame of what its caller asked.
Content(w, i, q) ==
  LET c == w[i].own
  IN \/ w[i] = ReqHead(c, PING_ACTION, 0, 0)
     \/ Encoded(q) /\ Holds(w, i, Frame(c, q).bytes)

\* The handler of task r was given the request q, and q is not one to reject.
Seen(r, q) == Rejection(q) = "none" /\ r.action = q.action /\ r.blob = q.blob

AskInv ==
  /\ AskTypes
  /\ \A i \in 1..Len(c2s) : IsHead(c2s[i]) => task[c2s[i].own].st # "new"
  /\ \A i \in 1..Len(c2s) :
       IsHead(c2s[i]) /\ i + ReqSize(c2s[i]) <= Len(c2s) + 1 => Content(c2s, i, asked[c2s[i].own])
  /\ \A r \in running : task[r.seq].st # "new" /\ Seen(r, asked[r.seq])

LEMMA SameContent ==
  ASSUME NEW w, NEW i, NEW p, NEW q, Same(p, q)
  PROVE  /\ Content(w, i, q) => Content(w, i, p)
         /\ \A r : Seen(r, q) => Seen(r, p)
<1>1. Encoded(q) => Encoded(p)
  BY DEF Encoded, Same
<1>2. \A c : Frame(c, p) = Frame(c, q)
  BY DEF Frame, Same
<1>3. Rejection(p) = Rejection(q)
  BY DEF Rejection, Same
<1>4. Content(w, i, q) => Content(w, i, p)
  BY <1>1, <1>2 DEF Content
<1>5. \A r : Seen(r, q) => Seen(r, p)
  BY <1>3 DEF Seen, Same
<1> QED BY <1>4, <1>5

\* A frame in the stream stays where it is when others are written behind it, moves to
\* the front when others are read, and is at the end once it is written.
LEMMA HeldJoin ==
  ASSUME NEW w \in Seq(Unit), NEW f \in Seq(Unit), NEW i \in 1..Len(w), NEW g \in Seq(Unit),
         Holds(w, i, g)
  PROVE  Holds(w \o f, i, g) /\ (w \o f)[i] = w[i]
<1> DEFINE v == w \o f
<1>1. /\ Len(v) = Len(w) + Len(f) /\ Len(w) \in Nat /\ Len(f) \in Nat /\ Len(g) \in Nat
      /\ \A j \in 1..Len(w) : v[j] = w[j]
  BY Joined
<1> HIDE DEF v
<1>2. i + Len(g) <= Len(w) + 1 /\ \A k \in 1..Len(g) : w[i + k - 1] = g[k]
  BY DEF Holds
<1>3. i + Len(g) <= Len(v) + 1
  BY <1>1, <1>2
<1>4. ASSUME NEW k \in 1..Len(g) PROVE v[i + k - 1] = g[k]
  <2>1. i + k - 1 \in 1..Len(w)
    BY <1>1, <1>2
  <2> QED BY <1>1, <1>2, <2>1
<1>5. Holds(v, i, g)
  BY <1>3, <1>4 DEF Holds
<1> QED BY <1>1, <1>5 DEF v

LEMMA HeldFrom ==
  ASSUME NEW w \in Seq(Unit), NEW n \in 0..Len(w), NEW i \in 1..(Len(w) - n), NEW g \in Seq(Unit),
         Holds(w, i + n, g)
  PROVE  Holds(From(w, n), i, g) /\ From(w, n)[i] = w[i + n]
<1> DEFINE v == From(w, n)
<1>1. /\ Len(v) = Len(w) - n /\ Len(w) \in Nat /\ Len(g) \in Nat
      /\ \A j \in 1..(Len(w) - n) : v[j] = w[j + n]
  BY Behind
<1> HIDE DEF v
<1>2. i + n + Len(g) <= Len(w) + 1 /\ \A k \in 1..Len(g) : w[i + n + k - 1] = g[k]
  BY DEF Holds
<1>3. i + Len(g) <= Len(v) + 1
  BY <1>1, <1>2
<1>4. ASSUME NEW k \in 1..Len(g) PROVE v[i + k - 1] = g[k]
  <2>1. i + k - 1 \in 1..(Len(w) - n)
    BY <1>1, <1>2
  <2>2. i + k - 1 + n = i + n + k - 1
    BY <1>1
  <2>3. v[i + k - 1] = w[i + k - 1 + n]
    BY <1>1, <2>1
  <2> QED BY <1>2, <2>2, <2>3
<1>5. Holds(v, i, g)
  BY <1>3, <1>4 DEF Holds
<1> QED BY <1>1, <1>5 DEF v

LEMMA HeldEnd ==
  ASSUME NEW w \in Seq(Unit), NEW f \in Seq(Unit)
  PROVE  Holds(w \o f, Len(w) + 1, f)
<1> DEFINE v == w \o f
<1>1. /\ Len(v) = Len(w) + Len(f) /\ Len(w) \in Nat /\ Len(f) \in Nat
      /\ \A i \in 1..Len(f) : v[Len(w) + i] = f[i]
  BY Joined
<1> HIDE DEF v
<1>2. ASSUME NEW k \in 1..Len(f) PROVE v[Len(w) + 1 + k - 1] = f[k]
  <2>1. Len(w) + 1 + k - 1 = Len(w) + k
    BY <1>1
  <2> QED BY <1>1, <2>1
<1>3. Len(w) + 1 + Len(f) <= Len(v) + 1
  BY <1>1
<1> QED BY <1>2, <1>3 DEF Holds, v

LEMMA HoldsJoin ==
  ASSUME NEW w \in Seq(Unit), NEW f \in Seq(Unit), NEW i \in 1..Len(w), NEW q, Content(w, i, q),
         w[i].own \in Calls
  PROVE  Content(w \o f, i, q)
<1> DEFINE v == w \o f
           g == Frame(w[i].own, q).bytes
<1>1. v[i] = w[i]
  BY Joined
<1>2. ASSUME Encoded(q), Holds(w, i, g) PROVE Holds(v, i, g)
  <2>1. g \in Seq(Unit)
    BY <1>2, ReqFramed DEF Framed
  <2> HIDE DEF g
  <2> QED BY <1>2, <2>1, HeldJoin, SMTT(20)
<1> HIDE DEF v
<1> QED BY <1>1, <1>2 DEF Content, v

LEMMA HoldsFrom ==
  ASSUME NEW w \in Seq(Unit), NEW n \in 0..Len(w), NEW i \in 1..(Len(w) - n), NEW q,
         Content(w, i + n, q), w[i + n].own \in Calls
  PROVE  Content(From(w, n), i, q)
<1> DEFINE v == From(w, n)
           g == Frame(w[i + n].own, q).bytes
<1>1. v[i] = w[i + n]
  BY Behind
<1>2. ASSUME Encoded(q), Holds(w, i + n, g) PROVE Holds(v, i, g)
  <2>1. g \in Seq(Unit)
    BY <1>2, ReqFramed DEF Framed
  <2> HIDE DEF g
  <2> QED BY <1>2, <2>1, HeldFrom
<1> HIDE DEF v
<1> QED BY <1>1, <1>2 DEF Content, v

LEMMA HoldsEnd ==
  ASSUME NEW w \in Seq(Unit), NEW c \in Calls, NEW q, Encoded(q)
  PROVE  Content(w \o Frame(c, q).bytes, Len(w) + 1, q)
<1> DEFINE f == Frame(c, q).bytes
           v == w \o f
<1>1. Framed(f) /\ f \in Seq(Unit) /\ f[1].own = c
  BY ReqFramed DEF Framed
<1> HIDE DEF f
<1>2. v[Len(w) + 1] = f[1] /\ Holds(v, Len(w) + 1, f)
  BY <1>1, HeldEnd, WriteFrame, Zenon
<1> HIDE DEF v
<1> QED BY <1>1, <1>2 DEF Content, f, v

\* The wire and the handlers as they were, or fewer of them.
LEMMA AskSame ==
  ASSUME AskInv, ReqInv, AskTypes', AskKept, layer' = layer, c2s' = c2s, running' \subseteq running
  PROVE  AskInv'
<1>1. \A r, q : Seen(r, q)' <=> Seen(r, q)
  BY DEF Seen, Rejection
<1>2. \A r \in running : r.seq \in Calls
  BY DEF AskInv, AskTypes
<1>3. ASSUME NEW r \in running' PROVE task'[r.seq].st # "new" /\ Seen(r, asked'[r.seq])
  <2>1. r \in running /\ r.seq \in Calls /\ task[r.seq].st # "new" /\ Seen(r, asked[r.seq])
    BY <1>2, <1>3 DEF AskInv
  <2>2. task'[r.seq].st # "new" /\ Same(asked'[r.seq], asked[r.seq])
    BY <2>1 DEF AskKept
  <2> QED BY <2>1, <2>2, SameContent
<1>4. ASSUME NEW i \in 1..Len(c2s), IsHead(c2s[i]) PROVE task'[c2s[i].own].st # "new"
  <2>1. c2s[i].own \in Calls /\ task[c2s[i].own].st # "new"
    BY <1>4 DEF AskInv, ReqInv
  <2> QED BY <2>1 DEF AskKept
<1>5. ASSUME NEW i \in 1..Len(c2s), IsHead(c2s[i]), i + ReqSize(c2s[i]) <= Len(c2s) + 1
      PROVE  Content(c2s, i, asked'[c2s[i].own])
  <2>1. /\ c2s[i].own \in Calls /\ task[c2s[i].own].st # "new"
        /\ Content(c2s, i, asked[c2s[i].own])
    BY <1>5 DEF AskInv, ReqInv
  <2>2. Same(asked'[c2s[i].own], asked[c2s[i].own])
    BY <2>1 DEF AskKept
  <2> QED BY <2>1, <2>2, SameContent
<1> QED BY <1>1, <1>3, <1>4, <1>5 DEF AskInv

\* A frame, or a part of one, is written.
LEMMA AskWrite ==
  ASSUME AskInv, ReqInv, AskTypes', AskKept, layer' = layer, running' = running, cup,
         NEW f, Framed(f), NEW c \in Calls, f[1].own = c, c2s' = c2s \o f, task'[c].st # "new",
         ReqSize(f[1]) <= Len(f) => Content(c2s \o f, Len(c2s) + 1, asked'[c])
  PROVE  AskInv'
<1>1. \A r, q : Seen(r, q)' <=> Seen(r, q)
  BY DEF Seen, Rejection
<1>2. \A r \in running : r.seq \in Calls
  BY DEF AskInv, AskTypes
<1>3. ASSUME NEW r \in running' PROVE task'[r.seq].st # "new" /\ Seen(r, asked'[r.seq])
  <2>1. r \in running /\ r.seq \in Calls /\ task[r.seq].st # "new" /\ Seen(r, asked[r.seq])
    BY <1>2, <1>3 DEF AskInv
  <2>2. task'[r.seq].st # "new" /\ Same(asked'[r.seq], asked[r.seq])
    BY <2>1 DEF AskKept
  <2> QED BY <2>1, <2>2, SameContent, Zenon
<1> DEFINE v == c2s \o f
<1> HIDE RecordUpdate
<1>4. /\ c2s \in Seq(Unit) /\ f \in Seq(Unit) /\ Len(c2s) \in Nat /\ Len(f) \in Nat
      /\ Len(v) = Len(c2s) + Len(f) /\ \A i \in 1..Len(c2s) : v[i] = c2s[i]
      /\ v[Len(c2s) + 1] = f[1]
      /\ \A i \in 1..(Len(c2s) + Len(f)) : IsHead(v[i]) => i \in 1..Len(c2s) \/ i = Len(c2s) + 1
  BY WriteFrame DEF ReqInv, Framed
<1> USE RecordUpdate
<1>5. ASSUME NEW i \in 1..Len(c2s), IsHead(c2s[i])
      PROVE  task'[c2s[i].own].st # "new" /\ Content(v, i, asked'[c2s[i].own])
  <2>1. c2s[i].own \in Calls /\ task[c2s[i].own].st # "new"
    BY <1>5 DEF AskInv, ReqInv
  <2>2. i + ReqSize(c2s[i]) <= Len(c2s) + 1
    <3>1. ReqMarks(c2s)[i] = ReqSize(c2s[i]) /\ Len(ReqMarks(c2s)) = Len(c2s)
      BY <1>4, <1>5, MarksSeq DEF ReqMarks
    <3>2. Whole(ReqMarks(c2s))
      BY DEF ReqInv
    <3>3. c2s[i] \in Unit
      BY <1>4
    <3>4. ReqSize(c2s[i]) > 0
      BY <3>3, Sizes
    <3> QED BY <3>1, <3>2, <3>4 DEF Whole
  <2>3. Content(c2s, i, asked[c2s[i].own])
    BY <1>5, <2>2 DEF AskInv
  <2>4. Same(asked'[c2s[i].own], asked[c2s[i].own]) /\ task'[c2s[i].own].st # "new"
    BY <2>1 DEF AskKept
  <2>5. Content(c2s, i, asked'[c2s[i].own])
    BY <2>3, <2>4, SameContent
  <2> QED BY <1>4, <1>5, <2>1, <2>4, <2>5, HoldsJoin, SMTT(20)
<1> HIDE DEF v
<1>6. c2s' = v
  BY DEF v
<1>7. ASSUME NEW i \in 1..Len(v), IsHead(v[i])
      PROVE  /\ task'[v[i].own].st # "new"
             /\ i + ReqSize(v[i]) <= Len(v) + 1 => Content(v, i, asked'[v[i].own])
  <2>1. CASE i \in 1..Len(c2s)
    BY <1>4, <1>5, <1>7, <2>1, SMTT(20)
  <2>2. CASE i = Len(c2s) + 1
    <3>1. v[i] = f[1] /\ v[i].own = c
      BY <1>4, <2>2
    <3>2. ReqSize(f[1]) \in Nat
      <4>1. f[1] \in Unit
        BY DEF Framed
      <4> QED BY <4>1, Sizes
    <3>3. i + ReqSize(v[i]) <= Len(v) + 1 => ReqSize(f[1]) <= Len(f)
      BY <1>4, <2>2, <3>1, <3>2, SMTT(20)
    <3> QED BY <2>2, <3>1, <3>3 DEF v
  <2> QED BY <1>4, <1>7, <2>1, <2>2
<1> QED BY <1>1, <1>3, <1>6, <1>7 DEF AskInv

\* The request at the head is read.
LEMMA AskRead ==
  ASSUME WellOrdered, AskInv, ReqInv, AskTypes', AskKept, ServerRead
  PROVE  AskInv'
<1> DEFINE req == ReadReq(c2s)
           c == c2s[1].own
           n == ReqSize(c2s[1])
<1>0. /\ c2s # <<>> /\ IsHead(c2s[1]) /\ n <= Len(c2s) /\ c2s' = From(c2s, n)
      /\ layer' = layer /\ task' = task /\ asked' = asked
      /\ \/ req.action = Num(0) /\ req.msg = <<>> /\ running' = running
         \/ ~(req.action = Num(0) /\ req.msg = <<>>) /\ Dispatch(req) # "none" /\ running' = running
         \/ /\ ~(req.action = Num(0) /\ req.msg = <<>>)
            /\ Dispatch(req) = "none" /\ running' = running \cup {ServerTask(req)}
  BY DEF ServerRead, Readable
<1>1. /\ c2s \in Seq(Unit) /\ Len(c2s) \in Nat /\ Len(c2s) > 0 /\ c \in Calls
      /\ c2s[1] \in Unit /\ 1 \in 1..Len(c2s)
  <2>1. c2s \in Seq(Unit) /\ Len(c2s) \in Nat /\ Len(c2s) > 0 /\ 1 \in 1..Len(c2s)
    BY <1>0 DEF ReqInv
  <2> QED BY <1>0, <2>1 DEF ReqInv
<1>2. n \in 0..Len(c2s) /\ n \in Nat
  BY <1>0, <1>1, Sizes
<1>3. /\ Len(c2s') = Len(c2s) - n
      /\ \A i \in 1..(Len(c2s) - n) : i + n \in 1..Len(c2s) /\ c2s'[i] = c2s[i + n]
  BY <1>0, <1>1, <1>2, Behind
<1>4. \A r, q : Seen(r, q)' <=> Seen(r, q)
  BY <1>0 DEF Seen, Rejection
<1>5. task[c].st # "new" /\ Content(c2s, 1, asked[c])
  <2>1. 1 + n <= Len(c2s) + 1
    BY <1>0, <1>1, <1>2
  <2> QED BY <1>0, <1>1, <2>1 DEF AskInv
<1>6. ASSUME running' = running \cup {ServerTask(req)}, Dispatch(req) = "none",
             ~(req.action = Num(0) /\ req.msg = <<>>)
      PROVE  ServerTask(req).seq = c /\ Seen(ServerTask(req), asked[c])
  <2>1. c2s[1] # ReqHead(c, PING_ACTION, 0, 0)
    BY <1>1, <1>6, ReadsPing
  <2>2. Encoded(asked[c]) /\ Holds(c2s, 1, Frame(c, asked[c]).bytes)
    BY <1>5, <2>1 DEF Content
  <2> DEFINE q == asked[c]
  <2>3. /\ req.seq = c /\ req.action = q.action /\ req.msg = Bytes(q.kind, c, q.msg)
        /\ Len(req.blob) = q.blob
    BY <1>1, <2>2, ReadsBack, SMTT(20)
  <2>4. q \in Asked /\ layer \in {"mux", "single", "stream"} /\ (layer # "stream" => q.action.tag = "Str")
    BY <1>1, <2>2, SMTT(20) DEF AskInv, AskTypes, Encoded
  <2>5. q.action \in RpcActions /\ q.msg \in Nat \ {0} /\ (Api => q.action.tag = "Str")
    BY <2>2, <2>4, Widths DEF Encoded, IsAction, Api
  <2> HIDE DEF q, req
  <2>6. Rejection(q) = "none"
    BY <1>6, <2>3, <2>4, <2>5, Routed
  <2>7. /\ ServerTask(req).action = req.action /\ ServerTask(req).seq = req.seq
        /\ ServerTask(req).blob = Len(req.blob)
    BY <1>6, TaskOf
  <2> QED BY <2>3, <2>6, <2>7 DEF Seen, q
<1> HIDE DEF req, c, n
<1>7. ASSUME NEW r \in running' PROVE task'[r.seq].st # "new" /\ Seen(r, asked'[r.seq])
  <2>1. CASE r \in running
    BY <1>0, <2>1 DEF AskInv
  <2>2. CASE r \notin running
    <3>1. r = ServerTask(req) /\ r.seq = c /\ Seen(r, asked[c])
      BY <1>0, <1>6, <1>7, <2>2
    <3> QED BY <1>0, <1>5, <3>1
  <2> QED BY <2>1, <2>2
<1>8. ASSUME NEW i \in 1..Len(c2s'), IsHead(c2s'[i])
      PROVE  /\ task[c2s'[i].own].st # "new"
             /\ i + ReqSize(c2s'[i]) <= Len(c2s') + 1 => Content(c2s', i, asked[c2s'[i].own])
  <2>1. /\ i \in 1..(Len(c2s) - n) /\ i + n \in 1..Len(c2s) /\ c2s'[i] = c2s[i + n]
        /\ c2s[i + n] \in Unit
    BY <1>1, <1>2, <1>3
  <2>2. c2s[i + n].own \in Calls /\ task[c2s[i + n].own].st # "new"
    BY <1>8, <2>1 DEF ReqInv, AskInv
  <2>3. ASSUME i + ReqSize(c2s'[i]) <= Len(c2s') + 1 PROVE Content(c2s', i, asked[c2s'[i].own])
    <3>1. ReqSize(c2s[i + n]) \in Nat
      BY <2>1, Sizes
    <3>2. (i + n) + ReqSize(c2s[i + n]) <= Len(c2s) + 1
      BY <1>1, <1>2, <1>3, <2>1, <2>3, <3>1, SMTT(20)
    <3>3. Content(c2s, i + n, asked[c2s[i + n].own])
      BY <1>8, <2>1, <3>2 DEF AskInv
    <3> QED BY <1>0, <1>1, <1>2, <1>8, <2>1, <2>2, <3>3, HoldsFrom, SMTT(20)
  <2> QED BY <2>1, <2>2, <2>3
<1> QED BY <1>0, <1>4, <1>7, <1>8 DEF AskInv


LEMMA AskInvStep ==
  ASSUME WellOrdered, Carried, ReqInv, AskInv, [Next]_vars
  PROVE  AskInv'
<1>0. AskTypes' /\ AskKept /\ layer' = layer
  BY AskStep DEF AskInv
<1>1. ASSUME c2s' = c2s, running' \subseteq running PROVE AskInv'
  BY <1>0, <1>1, AskSame
<1>2. ASSUME NEW c \in Calls, Send(c) PROVE AskInv'
  <2>1. PICK q \in Requests :
          /\ c2s' = IF Encodes(c, q) THEN c2s \o Frame(c, q).bytes ELSE c2s
          /\ task' = [task EXCEPT ![c] =
               [st  |-> IF Encodes(c, q) THEN "wait" ELSE "failed", buf |-> NoBuf,
                res |-> IF Encodes(c, q) THEN Pending ELSE Rpc("Encode")]]
          /\ asked' = [asked EXCEPT ![c] = q]
    BY <1>2, Zenon DEF Send
  <2>2. cup /\ running' = running
    BY <1>2 DEF Send, IsNext
  <2>3. CASE ~Encodes(c, q)
    BY <1>1, <2>1, <2>2, <2>3
  <2>4. CASE Encodes(c, q)
    <3> DEFINE f == Frame(c, q).bytes
    <3>1. Encoded(q)
      BY <2>4, Requested
    <3>2. Framed(f) /\ f[1].own = c
      BY <3>1, ReqFramed
    <3>3. Content(c2s \o f, Len(c2s) + 1, q)
      BY <3>1, HoldsEnd DEF ReqInv
    <3>4. asked'[c] = q
      BY <2>1 DEF AskInv, AskTypes
    <3>5. task'[c].st # "new"
      <4>1. DOMAIN task = Calls
        BY DEF AskInv, AskTypes, Tasks, TasksOf
      <4>2. task'[c].st = IF Encodes(c, q) THEN "wait" ELSE "failed"
        BY <2>1, <4>1
      <4> QED BY <4>2
    <3>6. c2s' = c2s \o f
      BY <2>1, <2>4
    <3> HIDE DEF f
    <3> QED BY <1>0, <2>2, <3>2, <3>3, <3>4, <3>5, <3>6, AskWrite, SMTT(20)
  <2> QED BY <2>3, <2>4
<1>3. ASSUME NEW c \in Calls, SendCut(c) PROVE AskInv'
  <2>1. PICK q \in Requests :
          /\ Encodes(c, q)
          /\ \E n \in 1..(Len(Frame(c, q).bytes) - 1) : c2s' = c2s \o SubSeq(Frame(c, q).bytes, 1, n)
          /\ task' = FailAll([task EXCEPT ![c].st = "wait"])
    BY <1>3, Zenon DEF SendCut
  <2> DEFINE f == Frame(c, q).bytes
  <2>2. Encoded(q)
    BY <2>1, Requested
  <2>3. Framed(f) /\ f[1].own = c /\ ReqSize(f[1]) = Len(f)
    BY <2>2, ReqFramed
  <2>4. PICK n \in 1..(Len(f) - 1) : c2s' = c2s \o SubSeq(f, 1, n)
    BY <2>1, Zenon
  <2> HIDE DEF f
  <2> DEFINE g == SubSeq(f, 1, n)
  <2>5. Framed(g) /\ Len(g) = n /\ g[1] = f[1] /\ n < Len(f)
    BY <2>3, CutFramed
  <2>6. cup /\ running' = running
    BY <1>3 DEF SendCut, IsNext
  <2>7. task'[c].st # "new"
    <3> DEFINE t == [task EXCEPT ![c].st = "wait"]
    <3>1. "wait" \in Statuses /\ Tasks(task)
      BY DEF Statuses, AskInv, AskTypes
    <3>2. \E s \in Statuses : s = "wait" /\ Put(task, t, c, s, task[c].buf, task[c].res)
      BY <3>1, PutSt, Zenon
    <3>3. Tasks(t) /\ t[c].st = "wait"
      BY <3>2 DEF Put
    <3>4. task' = FailAll(t)
      BY <2>1
    <3> HIDE DEF t
    <3> QED BY <3>3, <3>4, FailBegun, SMTT(20)
  <2>8. c2s' = c2s \o g /\ g[1].own = c /\ ~(ReqSize(g[1]) <= Len(g))
    BY <2>3, <2>4, <2>5 DEF Framed
  <2> HIDE DEF g
  <2> QED BY <1>0, <2>5, <2>6, <2>7, <2>8, AskWrite, Zenon
<1>4. ASSUME NEW c \in Calls, Ping(c) PROVE AskInv'
  <2> DEFINE f == EncodePing(c)
  <2>1. /\ Framed(f) /\ Len(f) = 1 /\ f[1] = ReqHead(c, PING_ACTION, 0, 0) /\ f[1].own = c
    BY PingFramed
  <2>2. c2s' = c2s \o f /\ cup /\ running' = running /\ task' = [task EXCEPT ![c].st = "ping"]
    BY <1>4 DEF Ping, IsNext
  <2> HIDE DEF f
  <2>3. (c2s \o f)[Len(c2s) + 1] = f[1]
    BY <2>1, WriteFrame DEF ReqInv
  <2>4. Content(c2s \o f, Len(c2s) + 1, asked'[c])
    BY <2>1, <2>3 DEF Content
  <2>5. task'[c].st # "new"
    <3>1. "ping" \in Statuses /\ Tasks(task)
      BY DEF Statuses, AskInv, AskTypes
    <3>2. \E s \in Statuses : s = "ping" /\ Put(task, task', c, s, task[c].buf, task[c].res)
      BY <2>2, <3>1, PutSt, Zenon
    <3> QED BY <3>2 DEF Put
  <2> QED BY <1>0, <2>1, <2>2, <2>4, <2>5, AskWrite, Zenon
<1>5. CASE ServerRead
  BY <1>0, <1>5, AskRead
<1>6. ASSUME NEW r \in running, Serve(r) PROVE AskInv'
  BY <1>1, <1>6 DEF Serve
<1>7. ASSUME NEW c \in Calls, Expire(c) PROVE AskInv'
  BY <1>1, <1>7 DEF Expire
<1>8. CASE RecvErrno \/ RecvErrString \/ RecvResp \/ RecvDump
  BY <1>1, <1>8, Zenon DEF RecvErrno, RecvErrString, RecvResp, RecvDump
<1>9. CASE ServerDrop \/ ClientDrop \/ Quiet \/ UNCHANGED vars
  BY <1>1, <1>9 DEF ServerDrop, ClientDrop, Quiet, vars
<1> QED BY <1>2, <1>3, <1>4, <1>5, <1>6, <1>7, <1>8, <1>9, Zenon DEF Next

LEMMA AskInit == Init => AskInv
<1> SUFFICES ASSUME Init PROVE AskInv
  OBVIOUS
<1>1. c2s = <<>> /\ running = {} /\ layer \in {"mux", "single", "stream"}
  BY DEF Init
<1>2. "new" \in Statuses
  BY DEF Statuses
<1>3. task \in TasksOf({NoBuf}, {Pending})
  BY <1>2 DEF Init, TasksOf
<1>4. NotAsked \in Asked /\ NotAsked.kind = "none"
  <2>1. NoBuf \in BufShape
    BY DEF NoBuf, Buf, BufShape, BufTypes
  <2>2. Num(0) \in RpcActions
    BY DEF Num, RpcActions
  <2> QED BY <2>1, <2>2 DEF NotAsked, Asked, ErrTypes
<1>5. asked \in [Calls -> Asked] /\ \A c \in Calls : asked[c].kind = "none"
  BY <1>4 DEF Init
<1>6. AskTypes
  BY <1>1, <1>3, <1>5 DEF AskTypes, Tasks
<1> QED BY <1>1, <1>6 DEF AskInv
================================================================================
