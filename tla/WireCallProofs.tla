---------------------------- MODULE WireCallProofs ----------------------------
(***************************************************************************)
(* The calls of WireCall, for the same constants as in WireFrameProofs:    *)
(* what a handler is given is what a caller asked, and what the caller is  *)
(* told is what the handler answered.                                      *)
(***************************************************************************)
EXTENDS WireFrameProofs

USE RecordUpdate

--------------------------------------------------------------------------------
(* Every call is in at most one place: in a request that is written, in a handler or
   in a response. *)

Owners(w) == {w[i].own : i \in {j \in 1..Len(w) : IsHead(w[j])}}
Distinct(w) ==
  \A i, j \in 1..Len(w) : IsHead(w[i]) /\ IsHead(w[j]) /\ w[i].own = w[j].own => i = j
Serving == {r.seq : r \in running}

Places ==
  /\ Distinct(c2s) /\ Distinct(s2c)
  /\ \A r, s \in running : r.seq = s.seq => r = s
  /\ Owners(c2s) \cap Serving = {} /\ Owners(c2s) \cap Owners(s2c) = {}
  /\ Serving \cap Owners(s2c) = {}
  /\ \A c \in Owners(c2s) \cup Serving \cup Owners(s2c) : task[c].st \notin {"new", "done"}

\* A frame is written behind the others.
LEMMA OwnersWrite ==
  ASSUME NEW w \in Seq(Unit), NEW f, Framed(f), Distinct(w), f[1].own \notin Owners(w)
  PROVE  Owners(w \o f) = Owners(w) \cup {f[1].own} /\ Distinct(w \o f)
<1> DEFINE v == w \o f
           n == Len(w)
<1>1. /\ Len(v) = n + Len(f) /\ n \in Nat /\ Len(f) \in Nat /\ Len(f) > 0
      /\ \A i \in 1..n : v[i] = w[i]
      /\ v[n + 1] = f[1] /\ IsHead(f[1])
      /\ \A i \in 1..(n + Len(f)) : IsHead(v[i]) => i \in 1..n \/ i = n + 1
  BY WriteFrame, SMTT(20) DEF Framed
<1> HIDE DEF v, n
<1>2. ASSUME NEW i \in 1..Len(v), IsHead(v[i]) PROVE i \in 1..n \/ i = n + 1
  BY <1>1, <1>2
<1>3. ASSUME NEW i \in 1..n, IsHead(w[i]) PROVE w[i].own \in Owners(w) /\ w[i].own # f[1].own
  BY <1>3 DEF Owners, n
<1>4. Owners(v) = Owners(w) \cup {f[1].own}
  <2>1. ASSUME NEW x \in Owners(v) PROVE x \in Owners(w) \cup {f[1].own}
    <3>1. PICK i \in 1..Len(v) : IsHead(v[i]) /\ x = v[i].own
      BY <2>1 DEF Owners
    <3> QED BY <1>1, <1>2, <1>3, <3>1, SMTT(20)
  <2>2. ASSUME NEW x \in Owners(w) PROVE x \in Owners(v)
    <3>1. PICK i \in 1..n : IsHead(w[i]) /\ x = w[i].own
      BY <2>2 DEF Owners, n
    <3>2. i \in 1..Len(v) /\ v[i] = w[i]
      BY <1>1
    <3> QED BY <3>1, <3>2 DEF Owners
  <2>3. f[1].own \in Owners(v)
    <3>1. n + 1 \in 1..Len(v)
      BY <1>1
    <3> QED BY <1>1, <3>1 DEF Owners
  <2> QED BY <2>1, <2>2, <2>3, SMTT(20)
<1>5. Distinct(v)
  <2> SUFFICES ASSUME NEW i \in 1..Len(v), NEW j \in 1..Len(v), IsHead(v[i]), IsHead(v[j]),
                      v[i].own = v[j].own
               PROVE  i = j
    BY DEF Distinct
  <2>1. (i \in 1..n \/ i = n + 1) /\ (j \in 1..n \/ j = n + 1)
    BY <1>2
  <2>2. CASE i \in 1..n /\ j \in 1..n
    BY <1>1, <2>2, SMTT(20) DEF Distinct, n
  <2>3. CASE i \in 1..n /\ j = n + 1
    BY <1>1, <1>3, <2>3
  <2>4. CASE i = n + 1 /\ j \in 1..n
    BY <1>1, <1>3, <2>4, SMTT(20)
  <2> QED BY <2>1, <2>2, <2>3, <2>4
<1> QED BY <1>4, <1>5 DEF v

\* The frame at the head is taken.
LEMMA OwnersTake ==
  ASSUME NEW w \in Seq(Unit), Distinct(w), NEW n \in 1..Len(w), IsHead(w[1])
  PROVE  Owners(From(w, n)) \subseteq Owners(w) \ {w[1].own} /\ Distinct(From(w, n))
         /\ w[1].own \in Owners(w)
<1> DEFINE v == From(w, n)
<1>0. n \in 0..Len(w) /\ Len(w) \in Nat /\ 1 \in 1..Len(w)
  OBVIOUS
<1>1. /\ Len(v) = Len(w) - n
      /\ \A i \in 1..(Len(w) - n) : i + n \in 1..Len(w) /\ v[i] = w[i + n]
  BY <1>0, Behind
<1> HIDE DEF v
<1>2. ASSUME NEW i \in 1..Len(v), IsHead(v[i])
      PROVE  i + n \in 1..Len(w) /\ v[i] = w[i + n] /\ v[i].own \in Owners(w) \ {w[1].own}
  <2>1. i + n \in 1..Len(w) /\ v[i] = w[i + n] /\ i + n # 1
    BY <1>0, <1>1
  <2>2. v[i].own # w[1].own
    BY <1>0, <1>2, <2>1, SMTT(20) DEF Distinct
  <2> QED BY <1>2, <2>1, <2>2, SMTT(20) DEF Owners
<1>3. Owners(v) \subseteq Owners(w) \ {w[1].own}
  BY <1>2 DEF Owners
<1>4. Distinct(v)
  <2> SUFFICES ASSUME NEW i \in 1..Len(v), NEW j \in 1..Len(v), IsHead(v[i]), IsHead(v[j]),
                      v[i].own = v[j].own
               PROVE  i = j
    BY DEF Distinct
  <2>1. /\ i + n \in 1..Len(w) /\ v[i] = w[i + n] /\ j + n \in 1..Len(w) /\ v[j] = w[j + n]
    BY <1>2
  <2>2. i + n = j + n
    BY <2>1, SMTT(20) DEF Distinct
  <2> QED BY <2>2
<1>5. w[1].own \in Owners(w)
  BY <1>0 DEF Owners
<1> QED BY <1>3, <1>4, <1>5 DEF v


\* What a response may be: the text of why no handler ran, or the answer of the handler.
IsReply(c, f) ==
  \/ Rejection(asked[c]) # "none" /\ f = TextFrame(c, IntText(Rejection(asked[c])))
  \/ /\ Rejection(asked[c]) = "none"
     /\ \E o \in Outcomes : /\ want[c] = Meaning(c, o) /\ f = Answer(c, o)
                            /\ o.kind = "err" => asked[c].ety = o.err.ty

\* The response at place i is the one to a ping or to what was asked.
Reply(i, c) ==
  task[c].st = "ping" \/ \E f : GoodFrame(c, f) /\ IsReply(c, f) /\ Holds(s2c, i, f)

\* Nothing changes of what the answer to call c depends on.
Still(c) ==
  /\ asked'[c] = asked[c] /\ want'[c] = want[c]
  /\ task'[c] = task[c] \/ (task[c].st = "wait" /\ task'[c].st = "failed")

(* What the steps do to the streams: nothing, a request is written, a request is read, a
   handler answers, a response is taken. *)

Idle == c2s' = c2s /\ s2c' = s2c /\ running' = running /\ \A d \in Calls : Still(d)

Post(c) ==
  /\ task[c].st = "new" /\ task'[c].st \notin {"new", "done"}
  /\ s2c' = s2c /\ running' = running /\ \A d \in Calls : d # c => Still(d)
  /\ \/ c2s' = c2s
     \/ \E f : /\ Framed(f) /\ f[1].own = c /\ c2s' = c2s \o f
               /\ f[1] = ReqHead(c, PING_ACTION, 0, 0) => task'[c].st = "ping"

Answering(c, f) == GoodFrame(c, f) /\ s2c' = s2c \o f

Accept(c) ==
  /\ c2s # <<>> /\ IsHead(c2s[1]) /\ c = c2s[1].own
  /\ \E n \in 1..Len(c2s) : c2s' = From(c2s, n)
  /\ \A d \in Calls : Still(d)
  /\ \/ s2c' = s2c /\ \E r : r.seq = c /\ running' = running \cup {r}
     \/ running' = running /\ \E f : Answering(c, f) /\ (task[c].st = "ping" \/ IsReply(c, f))

Finish(r) ==
  /\ c2s' = c2s /\ running' = running \ {r} /\ task' = task
  /\ \A d \in Calls : d # r.seq => Still(d)
  /\ \E f : Answering(r.seq, f) /\ IsReply(r.seq, f)'

Take(c) ==
  /\ s2c # <<>> /\ c = s2c[1].own /\ s2c' = From(s2c, RespSize(s2c[1]))
  /\ c2s' = c2s /\ running' = running /\ \A d \in Calls : d # c => Still(d)
  /\ Still(c) \/ (task'[c].st = "done" /\ task'[c].res = Expected(c)')

Moves ==
  \/ Idle \/ \E c \in Calls : Post(c) \/ Accept(c) \/ Take(c)
  \/ \E r \in running : Finish(r)

LEMMA StillSame ==
  ASSUME layer' = layer, NEW c \in Calls, Still(c)
  PROVE  /\ task[c].st \notin {"new", "done"} => task'[c].st \notin {"new", "done"}
         /\ task'[c].st = "done" => task'[c] = task[c]
         /\ task[c].st = "ping" => task'[c].st = "ping"
         /\ Expected(c)' = Expected(c)
         /\ \A f : IsReply(c, f)' <=> IsReply(c, f)
<1>1. \A q : Rejection(q)' = Rejection(q)
  BY DEF Rejection
<1>2. Rejection(asked[c])' = Rejection(asked[c])
  BY <1>1 DEF Still, Rejection
<1>3. Outcomes' = Outcomes
  BY DEF Outcomes, Api
<1>4. Expected(c)' = Expected(c)
  BY <1>2 DEF Expected, Still
<1>5. \A f : IsReply(c, f)' <=> IsReply(c, f)
  BY <1>2, <1>3 DEF IsReply, Still
<1> QED BY <1>4, <1>5 DEF Still


LEMMA PlacesStep ==
  ASSUME ReqInv, RespInv, Places, layer' = layer, Moves
  PROVE  Places'
<1> DEFINE C == Owners(c2s)
           R == Owners(s2c)
           D == Owners(c2s')
           E == Owners(s2c')
           Sv == {r.seq : r \in running'}
           Begun(c) == task[c].st \notin {"new", "done"}
           Begun1(c) == task'[c].st \notin {"new", "done"}
<1>0. C \subseteq Calls /\ Serving \subseteq Calls /\ R \subseteq Calls
  BY DEF ReqInv, RespInv, GoodHead, Owners, Serving
<1>1. /\ Distinct(c2s) /\ Distinct(s2c) /\ \A r, s \in running : r.seq = s.seq => r = s
      /\ C \cap Serving = {} /\ C \cap R = {} /\ Serving \cap R = {}
      /\ \A c \in C \cup Serving \cup R : Begun(c)
  BY DEF Places
<1>2. ASSUME Distinct(c2s'), Distinct(s2c'), \A r, s \in running' : r.seq = s.seq => r = s,
             D \cap Sv = {}, D \cap E = {}, Sv \cap E = {}, \A c \in D \cup Sv \cup E : Begun1(c)
      PROVE  Places'
  BY <1>2, Zenon DEF Places, Serving, Owners, Distinct
<1>3. \A c \in Calls : Still(c) /\ Begun(c) => Begun1(c)
  BY StillSame
<1>4. Serving = {r.seq : r \in running} /\ c2s \in Seq(Unit) /\ s2c \in Seq(Unit)
  BY DEF Serving, ReqInv, RespInv
<1> HIDE DEF Begun, Begun1
<1>5. CASE Idle
  <2>1. /\ c2s' = c2s /\ s2c' = s2c /\ running' = running /\ \A d \in Calls : Still(d)
    BY <1>5 DEF Idle
  <2>2. D = C /\ E = R /\ Sv = Serving
    BY <1>4, <2>1
  <2> HIDE DEF C, D, E, R, Sv
  <2> QED BY <1>0, <1>1, <1>2, <1>3, <2>1, <2>2, SMTT(20)
<1>6. ASSUME NEW c \in Calls, Post(c) PROVE Places'
  <2>1. /\ task[c].st = "new" /\ Begun1(c) /\ s2c' = s2c /\ running' = running
        /\ \A d \in Calls : d # c => Still(d)
    BY <1>6 DEF Post, Begun1
  <2>2. c \notin C \cup Serving \cup R
    BY <1>1, <2>1 DEF Begun
  <2>3. D \subseteq C \cup {c} /\ Distinct(c2s')
    <3>1. CASE c2s' = c2s
      BY <1>1, <3>1
    <3>2. CASE c2s' # c2s
      <4>1. PICK f : Framed(f) /\ f[1].own = c /\ c2s' = c2s \o f
        BY <1>6, <3>2 DEF Post
      <4> QED BY <1>1, <1>4, <2>2, <4>1, OwnersWrite, SMTT(20)
    <3> QED BY <3>1, <3>2
  <2>4. E = R /\ Sv = Serving
    BY <1>4, <2>1
  <2> HIDE DEF C, D, E, R, Sv
  <2>5. \A d \in D \cup Sv \cup E : Begun1(d)
    BY <1>0, <1>1, <1>3, <2>1, <2>3, <2>4, SMTT(20)
  <2> QED BY <1>1, <1>2, <2>1, <2>2, <2>3, <2>4, <2>5, SMTT(20)
<1>7. ASSUME NEW c \in Calls, Accept(c) PROVE Places'
  <2>1. /\ IsHead(c2s[1]) /\ c = c2s[1].own /\ \A d \in Calls : Still(d)
    BY <1>7 DEF Accept
  <2>2. PICK n \in 1..Len(c2s) : c2s' = From(c2s, n)
    BY <1>7 DEF Accept
  <2>3. D \subseteq C \ {c} /\ Distinct(c2s') /\ c \in C
    BY <1>1, <1>4, <2>1, <2>2, OwnersTake, SMTT(20)
  <2>4. c \notin Serving /\ c \notin R
    BY <1>1, <2>3
  <2>5. CASE s2c' = s2c /\ \E r : r.seq = c /\ running' = running \cup {r}
    <3>1. PICK r : r.seq = c /\ running' = running \cup {r}
      BY <2>5
    <3>2. Sv = Serving \cup {c} /\ E = R
      BY <1>4, <2>5, <3>1, SMTT(20)
    <3>3. ASSUME NEW x \in running', NEW y \in running', x.seq = y.seq PROVE x = y
      <4>1. \A z \in running : z.seq # c
        BY <1>4, <2>4, SMTT(20)
      <4> QED BY <1>1, <3>1, <3>3, <4>1, SMTT(20)
    <3> HIDE DEF C, D, E, R, Sv
    <3>4. \A d \in D \cup Sv \cup E : Begun1(d)
      BY <1>0, <1>1, <1>3, <2>1, <2>3, <3>2, SMTT(20)
    <3> QED BY <1>1, <1>2, <2>3, <2>4, <2>5, <3>2, <3>3, <3>4, SMTT(20)
  <2>6. CASE running' = running /\ \E f : Answering(c, f)
    <3>1. PICK f : Framed(f) /\ f[1].own = c /\ s2c' = s2c \o f
      BY <2>6, Zenon DEF Answering, GoodFrame
    <3>2. E = R \cup {c} /\ Distinct(s2c')
      BY <1>1, <1>4, <2>4, <3>1, OwnersWrite, SMTT(20)
    <3>3. Sv = Serving
      BY <1>4, <2>6, SMTT(20)
    <3> HIDE DEF C, D, E, R, Sv
    <3>4. \A d \in D \cup Sv \cup E : Begun1(d)
      BY <1>0, <1>1, <1>3, <2>1, <2>3, <3>2, <3>3, SMTT(20)
    <3> QED BY <1>1, <1>2, <2>3, <2>4, <2>6, <3>2, <3>3, <3>4, SMTT(20)
  <2> QED BY <1>7, <2>5, <2>6, SMTT(20) DEF Accept
<1>8. ASSUME NEW c \in Calls, Take(c) PROVE Places'
  <2>1. /\ s2c # <<>> /\ c = s2c[1].own /\ s2c' = From(s2c, RespSize(s2c[1]))
        /\ c2s' = c2s /\ running' = running /\ \A d \in Calls : d # c => Still(d)
    BY <1>8 DEF Take
  <2>2. IsHead(s2c[1]) /\ RespSize(s2c[1]) \in 1..Len(s2c)
    BY <2>1, FirstResp, SMTT(20)
  <2>3. E \subseteq R \ {c} /\ Distinct(s2c') /\ c \in R
    BY <1>1, <1>4, <2>1, <2>2, OwnersTake, SMTT(20)
  <2>4. D = C /\ Sv = Serving
    BY <1>4, <2>1, SMTT(20)
  <2> HIDE DEF C, D, E, R, Sv
  <2>5. c \notin C \cup Serving
    BY <1>1, <2>3, SMTT(20)
  <2>6. \A d \in D \cup Sv \cup E : Begun1(d)
    BY <1>0, <1>1, <1>3, <2>1, <2>3, <2>4, <2>5, SMTT(20)
  <2> QED BY <1>1, <1>2, <2>1, <2>3, <2>4, <2>6, SMTT(20)
<1>9. ASSUME NEW r \in running, Finish(r) PROVE Places'
  <2> DEFINE c == r.seq
  <2>1. /\ c2s' = c2s /\ running' = running \ {r} /\ task' = task
    BY <1>9 DEF Finish
  <2>2. PICK f : Framed(f) /\ f[1].own = c /\ s2c' = s2c \o f
    BY <1>9 DEF Finish, Answering, GoodFrame
  <2>3. c \in Serving /\ c \notin C /\ c \notin R
    BY <1>1, <1>4
  <2>4. E = R \cup {c} /\ Distinct(s2c')
    BY <1>1, <1>4, <2>2, <2>3, OwnersWrite, SMTT(20)
  <2>5. Sv \subseteq Serving \ {c} /\ D = C
    BY <1>1, <1>4, <2>1
  <2>6. \A d : Begun(d) => Begun1(d)
    BY <2>1 DEF Begun, Begun1
  <2> HIDE DEF C, D, E, R, Sv, c
  <2>7. \A d \in D \cup Sv \cup E : Begun1(d)
    BY <1>1, <2>3, <2>4, <2>5, <2>6, SMTT(20)
  <2> QED BY <1>1, <1>2, <2>1, <2>3, <2>4, <2>5, <2>7, SMTT(20)
<1> QED BY <1>5, <1>6, <1>7, <1>8, <1>9, SMTT(20) DEF Moves


Pings ==
  \A i \in 1..Len(c2s) :
    c2s[i] = ReqHead(c2s[i].own, PING_ACTION, 0, 0) => task[c2s[i].own].st = "ping"
Replies ==
  \A i \in 1..Len(s2c), d \in Calls : IsHead(s2c[i]) /\ d = s2c[i].own => Reply(i, d)

LEMMA PingsStep ==
  ASSUME ReqInv, RespInv, Places, Pings, layer' = layer, Moves
  PROVE  Pings'
<1> DEFINE IsPing(u) == u = ReqHead(u.own, PING_ACTION, 0, 0)
<1>1. ASSUME NEW u, IsPing(u) PROVE IsHead(u)
  <2>1. \A c : IsHead(ReqHead(c, PING_ACTION, 0, 0))
    BY DEF ReqHead, IsHead
  <2> QED BY <1>1, <2>1
<1>2. ASSUME NEW i \in 1..Len(c2s), IsPing(c2s[i]) PROVE task'[c2s[i].own].st = "ping"
  <2> DEFINE d == c2s[i].own
  <2>1. IsHead(c2s[i])
    BY <1>1, <1>2
  <2>2. d \in Calls /\ d \in Owners(c2s) /\ task[d].st = "ping"
    BY <1>2, <2>1 DEF ReqInv, Owners, Pings
  <2> HIDE DEF d
  <2>3. Still(d) => task'[d].st = "ping"
    BY <2>2, StillSame, SMTT(20)
  <2>4. ASSUME NEW c \in Calls, Take(c) PROVE d # c
    <3>1. s2c # <<>> /\ c = s2c[1].own
      BY <2>4 DEF Take
    <3>2. IsHead(s2c[1]) /\ 1 \in 1..Len(s2c)
      BY <3>1, FirstResp, SMTT(20) DEF RespInv
    <3>3. c \in Owners(s2c)
      BY <3>1, <3>2, SMTT(20) DEF Owners
    <3> QED BY <2>2, <3>3 DEF Places
  <2>5. ASSUME Idle PROVE task'[d].st = "ping"
    BY <2>2, <2>3, <2>5, SMTT(20) DEF Idle
  <2>6. ASSUME NEW c \in Calls, Post(c) PROVE task'[d].st = "ping"
    BY <2>2, <2>3, <2>6, SMTT(20) DEF Post
  <2>7. ASSUME NEW c \in Calls, Accept(c) PROVE task'[d].st = "ping"
    BY <2>2, <2>3, <2>7, SMTT(20) DEF Accept
  <2>8. ASSUME NEW c \in Calls, Take(c) PROVE task'[d].st = "ping"
    BY <2>2, <2>3, <2>4, <2>8, SMTT(20) DEF Take
  <2>9. ASSUME NEW r \in running, Finish(r) PROVE task'[d].st = "ping"
    BY <2>2, <2>9 DEF Finish
  <2>10. task'[d].st = "ping"
    BY <2>5, <2>6, <2>7, <2>8, <2>9, SMTT(20) DEF Moves
  <2> QED BY <2>10 DEF d
<1>3. ASSUME NEW i \in 1..Len(c2s'), IsPing(c2s'[i]) PROVE task'[c2s'[i].own].st = "ping"
  <2>1. CASE c2s' = c2s
    BY <1>2, <1>3, <2>1, SMTT(20)
  <2>2. ASSUME NEW c \in Calls, NEW f, Framed(f), f[1].own = c, c2s' = c2s \o f,
               f[1] = ReqHead(c, PING_ACTION, 0, 0) => task'[c].st = "ping"
        PROVE  task'[c2s'[i].own].st = "ping"
    <3>1. /\ Len(c2s') = Len(c2s) + Len(f) /\ c2s'[Len(c2s) + 1] = f[1]
          /\ \A j \in 1..Len(c2s) : c2s'[j] = c2s[j]
          /\ \A j \in 1..(Len(c2s) + Len(f)) : IsHead(c2s'[j]) => j \in 1..Len(c2s) \/ j = Len(c2s) + 1
      BY <2>2, WriteFrame, Zenon DEF ReqInv
    <3>2. i \in 1..Len(c2s) \/ i = Len(c2s) + 1
      BY <1>1, <1>3, <3>1, SMTT(20)
    <3>3. CASE i \in 1..Len(c2s)
      <4>1. c2s'[i] = c2s[i]
        BY <3>1, <3>3, SMTT(20)
      <4> QED BY <1>2, <1>3, <3>3, <4>1, SMTT(20)
    <3>4. CASE i = Len(c2s) + 1
      <4>1. c2s'[i] = f[1]
        BY <3>1, <3>4, SMTT(20)
      <4> QED BY <1>3, <2>2, <4>1, SMTT(20)
    <3> QED BY <3>2, <3>3, <3>4
  <2>3. ASSUME NEW n \in 1..Len(c2s), c2s' = From(c2s, n) PROVE task'[c2s'[i].own].st = "ping"
    <3>1. /\ Len(c2s') = Len(c2s) - n
          /\ \A j \in 1..(Len(c2s) - n) : j + n \in 1..Len(c2s) /\ c2s'[j] = c2s[j + n]
      BY <2>3, Behind, SMTT(20) DEF ReqInv
    <3>2. i + n \in 1..Len(c2s) /\ c2s'[i] = c2s[i + n]
      BY <3>1
    <3> QED BY <1>2, <1>3, <3>2, SMTT(20)
  <2>4. CASE Idle \/ (\E c \in Calls : Take(c)) \/ \E r \in running : Finish(r)
    BY <2>1, <2>4, SMTT(20) DEF Idle, Take, Finish
  <2>5. ASSUME NEW c \in Calls, Post(c) PROVE task'[c2s'[i].own].st = "ping"
    BY <2>1, <2>2, <2>5, SMTT(20) DEF Post
  <2>6. ASSUME NEW c \in Calls, Accept(c) PROVE task'[c2s'[i].own].st = "ping"
    BY <2>3, <2>6, SMTT(20) DEF Accept
  <2> QED BY <2>4, <2>5, <2>6, SMTT(20) DEF Moves
<1> QED BY <1>3 DEF Pings

\* Every caller that is answered has what it should have.
AllFaithful == \A c \in Calls : task[c].st = "done" => task[c].res = Expected(c)

LEMMA FaithfulStep ==
  ASSUME RespInv, Places, AllFaithful, layer' = layer, Moves
  PROVE  AllFaithful'
<1> SUFFICES ASSUME NEW d \in Calls, task'[d].st = "done"
             PROVE  task'[d].res = Expected(d)'
  BY DEF AllFaithful
<1>1. CASE Still(d)
  <2>1. task'[d] = task[d] /\ Expected(d)' = Expected(d)
    BY <1>1, StillSame
  <2> QED BY <2>1 DEF AllFaithful
<1>2. CASE Idle
  BY <1>1, <1>2, SMTT(20) DEF Idle
<1>3. ASSUME NEW c \in Calls, Post(c) PROVE task'[d].res = Expected(d)'
  BY <1>1, <1>3 DEF Post
<1>4. ASSUME NEW c \in Calls, Accept(c) PROVE task'[d].res = Expected(d)'
  BY <1>1, <1>4, SMTT(20) DEF Accept
<1>5. ASSUME NEW c \in Calls, Take(c) PROVE task'[d].res = Expected(d)'
  BY <1>1, <1>5 DEF Take
<1>6. ASSUME NEW r \in running, Finish(r) PROVE task'[d].res = Expected(d)'
  <2>1. task' = task /\ \A c \in Calls : c # r.seq => Still(c)
    BY <1>6 DEF Finish
  <2>2. r.seq \in Serving
    BY DEF Serving
  <2>3. task[r.seq].st # "done"
    BY <2>2 DEF Places
  <2> QED BY <1>1, <2>1, <2>3, SMTT(20)
<1> QED BY <1>2, <1>3, <1>4, <1>5, <1>6, SMTT(20) DEF Moves


LEMMA ReplyKept ==
  ASSUME layer' = layer, NEW d \in Calls, Still(d), NEW i, NEW j, Reply(i, d),
         \A g \in Seq(Unit) : Holds(s2c, i, g) => Holds(s2c', j, g)
  PROVE  Reply(j, d)'
<1>1. CASE task[d].st = "ping"
  BY <1>1, StillSame DEF Reply
<1>2. CASE \E f : GoodFrame(d, f) /\ IsReply(d, f) /\ Holds(s2c, i, f)
  <2>1. PICK f : GoodFrame(d, f) /\ IsReply(d, f) /\ Holds(s2c, i, f)
    BY <1>2
  <2>2. Holds(s2c', j, f)
    BY <2>1 DEF GoodFrame, Framed
  <2>3. IsReply(d, f)'
    BY <2>1, StillSame, SMTT(20)
  <2> QED BY <2>1, <2>2, <2>3, SMTT(20) DEF Reply, Holds
<1> QED BY <1>1, <1>2 DEF Reply

LEMMA RepliesStep ==
  ASSUME RespInv, Places, Replies, layer' = layer, Moves
  PROVE  Replies'
<1>0. s2c \in Seq(Unit) /\ Len(s2c) \in Nat
  BY DEF RespInv
<1>1. ASSUME NEW i \in 1..Len(s2c), IsHead(s2c[i]), NEW d, d = s2c[i].own
      PROVE  d \in Calls /\ d \in Owners(s2c) /\ Reply(i, d)
  BY <1>1 DEF RespInv, GoodHead, Owners, Replies
<1>2. ASSUME s2c' = s2c, \A d \in Owners(s2c) : Still(d) PROVE Replies'
  <2>1. ASSUME NEW i \in 1..Len(s2c), IsHead(s2c[i]), NEW d, d = s2c[i].own PROVE Reply(i, d)'
    BY <1>1, <1>2, <2>1, ReplyKept, SMTT(20)
  <2> QED BY <1>2, <2>1 DEF Replies
<1>3. ASSUME NEW c \in Calls, NEW f, Answering(c, f), \A d \in Owners(s2c) : Still(d),
             NEW k, k = Len(s2c) + 1, Reply(k, c)'
      PROVE  Replies'
  <2>1. /\ Framed(f) /\ f \in Seq(Unit) /\ f[1].own = c /\ s2c' = s2c \o f
    BY <1>3 DEF Answering, GoodFrame, Framed
  <2>2. /\ Len(s2c') = Len(s2c) + Len(f) /\ s2c'[Len(s2c) + 1] = f[1]
        /\ \A j \in 1..Len(s2c) : s2c'[j] = s2c[j]
        /\ \A j \in 1..(Len(s2c) + Len(f)) : IsHead(s2c'[j]) => j \in 1..Len(s2c) \/ j = Len(s2c) + 1
    <3>1. /\ Len(s2c \o f) = Len(s2c) + Len(f) /\ (s2c \o f)[Len(s2c) + 1] = f[1]
          /\ \A j \in 1..Len(s2c) : (s2c \o f)[j] = s2c[j]
          /\ \A j \in 1..(Len(s2c) + Len(f)) :
               IsHead((s2c \o f)[j]) => j \in 1..Len(s2c) \/ j = Len(s2c) + 1
      BY <1>0, <2>1, WriteFrame, ZenonT(90)
    <3> QED BY <2>1, <3>1, Zenon
  <2>3. ASSUME NEW i \in 1..Len(s2c), IsHead(s2c[i]), NEW d, d = s2c[i].own PROVE Reply(i, d)'
    <3>1. \A g \in Seq(Unit) : Holds(s2c, i, g) => Holds(s2c', i, g)
      BY <1>0, <2>1, HeldJoin
    <3>2. d \in Calls /\ Still(d) /\ Reply(i, d)
      BY <1>1, <1>3, <2>3
    <3> QED BY <3>1, <3>2, ReplyKept
  <2>4. ASSUME NEW i \in 1..Len(s2c'), IsHead(s2c'[i]), NEW d, d = s2c'[i].own PROVE Reply(i, d)'
    <3>1. i \in 1..Len(s2c) \/ i = Len(s2c) + 1
      BY <2>2, <2>4
    <3>2. CASE i \in 1..Len(s2c)
      <4>1. s2c'[i] = s2c[i]
        BY <2>2, <3>2
      <4> QED BY <2>3, <2>4, <3>2, <4>1, SMTT(20)
    <3>3. CASE i = Len(s2c) + 1
      <4>1. d = c
        BY <2>1, <2>2, <2>4, <3>3, SMTT(20)
      <4> QED BY <1>3, <3>3, <4>1, SMTT(20)
    <3> QED BY <3>1, <3>2, <3>3
  <2> QED BY <2>4 DEF Replies
<1>4. CASE Idle
  <2>1. Owners(s2c) \subseteq Calls
    BY <1>1 DEF Owners
  <2> QED BY <1>2, <1>4, <2>1, SMTT(20) DEF Idle
<1>5. ASSUME NEW c \in Calls, Post(c) PROVE Replies'
  <2>1. \A d \in Owners(s2c) : Still(d)
    <3>1. Owners(s2c) \subseteq Calls
      BY <1>1, SMTT(20) DEF Owners
    <3>2. task[c].st = "new" /\ \A d \in Calls : d # c => Still(d)
      BY <1>5 DEF Post
    <3>3. c \notin Owners(s2c)
      BY <3>2, SMTT(20) DEF Places
    <3> QED BY <3>1, <3>2, <3>3, SMTT(20)
  <2> QED BY <1>2, <1>5, <2>1, SMTT(20) DEF Post
<1>6. ASSUME NEW c \in Calls, Accept(c) PROVE Replies'
  <2>1. \A d \in Calls : Still(d)
    BY <1>6 DEF Accept
  <2>2. Owners(s2c) \subseteq Calls
    BY <1>1 DEF Owners
  <2>3. CASE s2c' = s2c
    BY <1>2, <2>1, <2>2, <2>3, SMTT(20)
  <2>4. ASSUME NEW f, Answering(c, f), task[c].st = "ping" \/ IsReply(c, f) PROVE Replies'
    <3>1. GoodFrame(c, f) /\ f \in Seq(Unit) /\ s2c' = s2c \o f
      BY <2>4, SMTT(20) DEF Answering, GoodFrame, Framed
    <3>2. PICK k : k = Len(s2c) + 1 /\ Holds(s2c', k, f)
      BY <1>0, <3>1, HeldEnd, SMTT(20)
    <3>3. task'[c].st = "ping" \/ IsReply(c, f)'
      BY <2>1, <2>4, StillSame, SMTT(20)
    <3>4. Reply(k, c)'
      BY <3>1, <3>2, <3>3, SMTT(20) DEF Reply, Holds
    <3> QED BY <1>3, <2>1, <2>2, <2>4, <3>2, <3>4, SMTT(20)
  <2> QED BY <1>6, <2>3, <2>4, SMTT(20) DEF Accept
<1>7. ASSUME NEW r \in running, Finish(r) PROVE Replies'
  <2> DEFINE c == r.seq
  <2>1. \A d \in Calls : d # c => Still(d)
    BY <1>7, SMTT(20) DEF Finish
  <2>2. Owners(s2c) \subseteq Calls /\ c \in Calls
    BY <1>1 DEF Owners, RespInv
  <2>3. c \notin Owners(s2c)
    BY DEF Places, Serving
  <2>4. PICK f : Answering(c, f) /\ IsReply(c, f)'
    BY <1>7 DEF Finish
  <2>5. GoodFrame(c, f) /\ f \in Seq(Unit) /\ s2c' = s2c \o f
    BY <2>4, SMTT(20) DEF Answering, GoodFrame, Framed
  <2>6. PICK k : k = Len(s2c) + 1 /\ Holds(s2c', k, f)
    BY <1>0, <2>5, HeldEnd, SMTT(20)
  <2> HIDE DEF c
  <2>7. Reply(k, c)'
    BY <2>4, <2>5, <2>6, SMTT(20) DEF Reply, Holds
  <2> QED BY <1>3, <2>1, <2>2, <2>3, <2>4, <2>6, <2>7, SMTT(20)
<1>8. ASSUME NEW c \in Calls, Take(c) PROVE Replies'
  <2> DEFINE n == RespSize(s2c[1])
  <2>1. /\ s2c # <<>> /\ c = s2c[1].own /\ s2c' = From(s2c, n) /\ \A d \in Calls : d # c => Still(d)
    BY <1>8 DEF Take
  <2>2. IsHead(s2c[1]) /\ n \in 1..Len(s2c) /\ n \in 0..Len(s2c) /\ 1 \in 1..Len(s2c)
    BY <1>0, <2>1, FirstResp, SMTT(20)
  <2> HIDE DEF n
  <2>3. /\ Len(s2c') = Len(s2c) - n
        /\ \A j \in 1..(Len(s2c) - n) : j + n \in 1..Len(s2c) /\ s2c'[j] = s2c[j + n]
    BY <1>0, <2>1, <2>2, Behind, SMTT(20)
  <2>4. ASSUME NEW i \in 1..Len(s2c'), IsHead(s2c'[i]), NEW d, d = s2c'[i].own PROVE Reply(i, d)'
    <3>1. i \in 1..(Len(s2c) - n) /\ i + n \in 1..Len(s2c) /\ s2c'[i] = s2c[i + n] /\ i + n # 1
      BY <1>0, <2>2, <2>3, SMTT(20)
    <3>2. d \in Calls /\ Reply(i + n, d)
      BY <1>1, <2>4, <3>1, SMTT(20)
    <3>3. d # c
      BY <2>1, <2>2, <2>4, <3>1, SMTT(20) DEF Places, Distinct
    <3>4. \A g \in Seq(Unit) : Holds(s2c, i + n, g) => Holds(s2c', i, g)
      BY <1>0, <2>1, <2>2, <3>1, HeldFrom, SMTT(20)
    <3> QED BY <2>1, <3>2, <3>3, <3>4, ReplyKept, SMTT(20)
  <2> QED BY <2>4 DEF Replies
<1> QED BY <1>4, <1>5, <1>6, <1>7, <1>8, SMTT(20) DEF Moves


--------------------------------------------------------------------------------
(* What the client makes of a response. *)

LEMMA TextBack ==
  ASSUME NEW c \in Calls, NEW s \in Seq(Words), Len(s) <= I32_MAX, NEW w \in Seq(Unit),
         Holds(w, 1, TextFrame(c, s))
  PROVE  /\ w[1] = RespHead(c, RESP_FLAG_HAS_ERR_STRING, 0, Len(s))
         /\ IsText(SubSeq(w, 2, 1 + Len(s))) /\ FromText(SubSeq(w, 2, 1 + Len(s))) = s
<1> DEFINE f == TextFrame(c, s)
           n == Len(s)
           x == SubSeq(w, 2, 1 + n)
<1>1. /\ f \in Seq(Unit) /\ Len(f) = 1 + n /\ f[1] = RespHead(c, RESP_FLAG_HAS_ERR_STRING, 0, n)
      /\ \A i \in 1..n : f[1 + i] = Byte("txt", s[i])
  BY TextFramed DEF Framed
<1>2. n \in Nat /\ s \in [1..n -> Words] /\ Len(w) \in Nat
  OBVIOUS
<1>3. 1 + Len(f) <= Len(w) + 1 /\ \A k \in 1..Len(f) : w[1 + k - 1] = f[k]
  BY DEF Holds
<1> HIDE DEF f, n
<1>4. 1 + n <= Len(w) /\ \A k \in 1..(1 + n) : w[k] = f[k]
  BY <1>1, <1>2, <1>3, SMTT(20)
<1>5. w[1] = f[1]
  BY <1>2, <1>4, SMTT(20)
<1>6. DOMAIN x = 1..n /\ \A i \in 1..n : x[i] = w[1 + i]
  BY <1>2, <1>4, SMTT(20)
<1>7. \A i \in 1..n : 1 + i \in 1..(1 + n)
  BY <1>2, SMTT(20)
<1> HIDE DEF x
<1>8. ASSUME NEW i \in 1..n PROVE x[i] = Byte("txt", s[i])
  BY <1>1, <1>4, <1>6, <1>7, SMTT(20)
<1>9. \A v : Byte("txt", v).own = v /\ Byte("txt", v).kind = "txt"
  BY DEF Byte
<1>10. \A i \in 1..n : x[i].own = s[i] /\ x[i].kind = "txt"
  BY <1>8, <1>9
<1>11. FromText(x) = [i \in 1..n |-> x[i].own]
  BY <1>6, Zenon DEF FromText
<1>12. FromText(x) = s
  BY <1>2, <1>10, <1>11, SMTT(20)
<1>13. IsText(x)
  BY <1>6, <1>10, SMTT(20) DEF IsText
<1> QED BY <1>1, <1>5, <1>12, <1>13, SMTT(20) DEF n, x

\* n bytes of one kind, from place k + 1 on.
LEMMA BytesBack ==
  ASSUME NEW w \in Seq(Unit), NEW k \in Nat, NEW n \in Nat, k + n <= Len(w), NEW c \in Calls,
         NEW kind \in Body \ {"txt"}, \A i \in 1..n : w[k + i] = Byte(kind, c)
  PROVE  SubSeq(w, k + 1, k + n) = Bytes(kind, c, n)
<1> DEFINE y == SubSeq(w, k + 1, k + n)
<1>1. y \in Seq(Unit) /\ Len(y) = n /\ \A i \in 1..n : y[i] = w[k + i]
  BY SMTT(20)
<1>2. /\ Bytes(kind, c, n) \in Seq(Unit) /\ Len(Bytes(kind, c, n)) = n
      /\ \A i \in 1..n : Bytes(kind, c, n)[i] = Byte(kind, c)
  BY BytesSeq
<1> HIDE DEF y
<1>3. \A i \in 1..n : y[i] = Byte(kind, c)
  BY <1>1
<1>4. y = Bytes(kind, c, n)
  BY <1>1, <1>2, <1>3, SameSeq, SMTT(20)
<1> QED BY <1>4 DEF y

LEMMA OkBack ==
  ASSUME NEW c \in Calls, NEW m \in Nat, NEW b \in 0..I32_MAX, m + b <= U32_MAX,
         NEW w \in Seq(Unit), Holds(w, 1, OkFrame(c, m, b))
  PROVE  /\ w[1] = RespHead(c, 0, m, b)
         /\ SubSeq(w, 2, 1 + m) = Bytes("rsp", c, m)
         /\ SubSeq(w, 2 + m, 1 + m + b) = Bytes("blob", c, b)
<1> DEFINE f == OkFrame(c, m, b)
           n == m + b
<1>1. /\ Framed(f) /\ Len(f) = 1 + m + b /\ f[1] = RespHead(c, 0, m, b)
      /\ \A i \in 1..m : f[1 + i] = Byte("rsp", c)
      /\ \A i \in 1..b : f[1 + m + i] = Byte("blob", c)
  BY OkFramed, SMTT(60)
<1>2. b \in Nat /\ n \in Nat /\ Len(w) \in Nat /\ 1 + m + b = 1 + n
  BY Widths, SMTT(20)
<1>3. 1 + Len(f) <= Len(w) + 1 /\ \A k \in 1..Len(f) : w[1 + k - 1] = f[k]
  BY DEF Holds
<1> HIDE DEF f
<1>4. 1 + m + b <= Len(w) /\ \A k \in 1..(1 + m + b) : w[k] = f[k]
  <2> HIDE DEF n
  <2>1. Len(f) = 1 + n
    BY <1>1, <1>2
  <2>2. 1 + n <= Len(w) /\ \A k \in 1..(1 + n) : w[k] = f[k]
    BY <1>2, <1>3, <2>1, SMTT(20)
  <2> QED BY <1>2, <2>2, SMTT(20)
<1>5. w[1] = f[1]
  BY <1>2, <1>4, SMTT(60)
<1>6. \A i \in 1..m : w[1 + i] = Byte("rsp", c)
  <2>1. \A i \in 1..m : 1 + i \in 1..(1 + m + b)
    BY <1>2
  <2> QED BY <1>1, <1>4, <2>1
<1>7. \A i \in 1..b : w[1 + m + i] = Byte("blob", c)
  <2>1. \A i \in 1..b : 1 + m + i \in 1..(1 + m + b)
    BY <1>2
  <2> QED BY <1>1, <1>4, <2>1, SMTT(20)
<1>8. SubSeq(w, 1 + 1, 1 + m) = Bytes("rsp", c, m)
  <2>1. 1 \in Nat /\ 1 + m <= Len(w)
    BY <1>2, <1>4, SMTT(20)
  <2>2. PICK kind \in Body \ {"txt"} : kind = "rsp"
    BY Zenon DEF Body
  <2>3. \A i \in 1..m : w[1 + i] = Byte(kind, c)
    BY <1>6, <2>2, Zenon
  <2>4. SubSeq(w, 1 + 1, 1 + m) = Bytes(kind, c, m)
    BY <2>1, <2>3, BytesBack, ZenonT(30)
  <2> QED BY <2>2, <2>4, Zenon
<1>9. SubSeq(w, 1 + m + 1, 1 + m + b) = Bytes("blob", c, b)
  <2> DEFINE k == 1 + m
  <2>1. k \in Nat /\ k + b <= Len(w)
    BY <1>4
  <2>2. PICK kind \in Body \ {"txt"} : kind = "blob"
    BY Zenon DEF Body
  <2>3. \A i \in 1..b : w[k + i] = Byte(kind, c)
    BY <1>7, <2>2, Zenon
  <2> HIDE DEF k
  <2>5. SubSeq(w, k + 1, k + b) = Bytes(kind, c, b)
    <3>1. b \in Nat
      BY <1>2
    <3> QED BY <2>1, <2>3, <3>1, BytesBack, ZenonT(30)
  <2>4. SubSeq(w, 1 + m + 1, 1 + m + b) = Bytes(kind, c, b)
    BY <2>5 DEF k
  <2> QED BY <2>2, <2>4, Zenon
<1>10. 1 + 1 = 2 /\ 1 + m + 1 = 2 + m
  OBVIOUS
<1> QED BY <1>1, <1>5, <1>8, <1>9, <1>10, Zenon

\* An error of the user comes back as it was, unless it is a negative number.
LEMMA ErrorsBack ==
  ASSUME NEW e \in Errors
  PROVE  /\ e.ty \in NumTypes \cup {"Errno"} =>
              CustomError(e.ty, EncNum(AsU32(e.num))) = Told(User(e))
         /\ e.ty = "()" => CustomError(e.ty, EncNum(0)) = Told(User(e))
         /\ e.ty \in {"String", "Enum"} => CustomError(e.ty, EncBuf(e.txt)) = User(e) /\ e.num = 0
<1>1. /\ e \in [ty : ErrTypes, num : Int, txt : Seq(Words)] /\ e.num \in NumMin(e.ty)..NumMax(e.ty)
      /\ e.txt # <<>> => e.ty \in {"String", "Enum"}
  BY CallAssumption
<1>2. e = UserErr(e.ty, e.num, e.txt) /\ e.num \in Int /\ e.ty \in ErrTypes
  BY <1>1 DEF UserErr
<1>0. /\ NumMin(e.ty) \in (-Half)..0 /\ NumMax(e.ty) \in 0..U32_MAX
      /\ e.num >= NumMin(e.ty) /\ e.num <= NumMax(e.ty)
  BY <1>1, <1>2, NumRange, Widths
<1>6. User(e).tag = "User" /\ User(e).err = e
  BY DEF User, Verdict
<1>7. e.txt = <<>> => ~IsIntText(e.txt)
  BY DEF IsIntText, IntText
<1>3. ASSUME e.ty \in NumTypes \cup {"Errno"}
      PROVE  CustomError(e.ty, EncNum(AsU32(e.num))) = Told(User(e))
  <2>1. e.txt = <<>>
    BY <1>1, <1>3 DEF NumTypes
  <2>3. \A n : EncNum(n).tag = "Num" /\ EncNum(n).num = n /\ EncNum(n).txt = <<>>
    BY DEF EncNum
  <2>4. CASE e.num >= 0
    <3>1. AsU32(e.num) = e.num
      BY <1>2, <2>4 DEF AsU32
    <3>2. e.ty = "Errno" => NumMax(e.ty) = I32_MAX
      BY DEF NumMax
    <3>3. Decodable(e.ty, EncNum(e.num))
      BY <1>0, <1>3, <2>3, <3>2, SMTT(20) DEF Decodable, NumTypes
    <3>4. CustomError(e.ty, EncNum(AsU32(e.num))) = User(e)
      BY <1>2, <2>1, <2>3, <3>1, <3>3, SMTT(20) DEF CustomError
    <3>5. ~(e.num < 0)
      BY <1>2, <2>4
    <3>6. Told(User(e)) = User(e)
      BY <1>6, <1>7, <2>1, <3>5, Zenon DEF Told
    <3> QED BY <3>4, <3>6
  <2>5. CASE e.num < 0
    <3>1. AsU32(e.num) = e.num + U32
      BY <2>5 DEF AsU32
    <3>2. e.ty \in {"i8", "i32"} /\ NumMax(e.ty) < Half
      <4>1. NumMin(e.ty) < 0
        BY <1>0, <1>2, <2>5
      <4>2. e.ty \in {"i8", "i32"}
        BY <4>1 DEF NumMin
      <4>3. NumMax(e.ty) \in {S - 1, I32_MAX}
        BY <4>2 DEF NumMax
      <4> QED BY <4>2, <4>3, WidthAssumption DEF I32_MAX
    <3>3. e.num + U32 > NumMax(e.ty)
      BY <1>0, <1>2, <3>2, WidthAssumption DEF U32
    <3>4. ~Decodable(e.ty, EncNum(e.num + U32))
      <4>1. Decodable(e.ty, EncNum(e.num + U32)) => e.num + U32 <= NumMax(e.ty)
        BY <2>3, <3>2 DEF Decodable, NumTypes
      <4> QED BY <1>0, <1>2, <3>3, <4>1, WidthAssumption DEF U32
    <3>5. CustomError(e.ty, EncNum(AsU32(e.num))) = Rpc("Decode")
      BY <3>1, <3>4, Zenon DEF CustomError
    <3>6. Told(User(e)) = Rpc("Decode")
      BY <1>6, <2>5, Zenon DEF Told
    <3> QED BY <3>5, <3>6
  <2> QED BY <1>2, <2>4, <2>5
<1>4. ASSUME e.ty = "()" PROVE CustomError(e.ty, EncNum(0)) = Told(User(e))
  <2>1. e.num = 0 /\ e.txt = <<>>
    <3>1. NumMin(e.ty) = 0 /\ NumMax(e.ty) = 0
      BY <1>4 DEF NumMin, NumMax
    <3> QED BY <1>0, <1>1, <1>2, <1>4, <3>1
  <2>2. EncNum(0).tag = "Num" /\ EncNum(0).num = 0 /\ EncNum(0).txt = <<>>
    BY DEF EncNum
  <2>3. Decodable(e.ty, EncNum(0))
    BY <1>4, <2>2 DEF Decodable, NumTypes
  <2>4. CustomError(e.ty, EncNum(0)) = User(e)
    BY <1>2, <2>1, <2>2, <2>3, SMTT(20) DEF CustomError
  <2>5. ~(e.num < 0)
    BY <2>1
  <2>6. Told(User(e)) = User(e)
    BY <1>6, <1>7, <2>1, <2>5, Zenon DEF Told
  <2> QED BY <2>4, <2>6
<1>5. ASSUME e.ty \in {"String", "Enum"}
      PROVE  CustomError(e.ty, EncBuf(e.txt)) = User(e) /\ e.num = 0
  <2>1. e.num = 0
    <3>1. NumMin(e.ty) = 0 /\ NumMax(e.ty) = 0
      BY <1>5 DEF NumMin, NumMax
    <3> QED BY <1>0, <1>2, <3>1
  <2>2. EncBuf(e.txt).tag = "Buf" /\ EncBuf(e.txt).num = 0 /\ EncBuf(e.txt).txt = e.txt
    BY DEF EncBuf
  <2>3. Decodable(e.ty, EncBuf(e.txt))
    BY <1>5, <2>2 DEF Decodable, NumTypes
  <2> QED BY <1>2, <2>1, <2>2, <2>3, SMTT(20) DEF CustomError
<1> QED BY <1>3, <1>4, <1>5, SMTT(20)


LEMMA TextsBack ==
  ASSUME NEW x, NEW ty, IsText(x)
  PROVE  /\ \A e \in IntErrs : FromText(x) = IntText(e) => ErrorText(ty, x) = Rpc(e)
         /\ ~IsIntText(FromText(x)) => ErrorText(ty, x) = CustomError(ty, EncBuf(FromText(x)))
<1>1. ASSUME NEW e \in IntErrs, FromText(x) = IntText(e) PROVE ErrorText(ty, x) = Rpc(e)
  <2>1. IsIntText(FromText(x))
    BY <1>1, IntTexts
  <2> QED BY <1>1, <2>1 DEF ErrorText, Rpc
<1>2. ASSUME ~IsIntText(FromText(x)) PROVE ErrorText(ty, x) = CustomError(ty, EncBuf(FromText(x)))
  BY <1>2 DEF ErrorText
<1> QED BY <1>1, <1>2

\* A text of the framework is taken for its error, whoever wrote it.
LEMMA TextsTaken ==
  ASSUME NEW x, NEW ty, IsText(x), IsIntText(FromText(x))
  PROVE  ErrorText(ty, x) = Verdict("Rpc", UserErr("", 0, FromText(x)), <<>>, <<>>)
BY Zenon DEF ErrorText

\* Without a blob the buffer does not matter.
LEMMA NoBlob ==
  ASSUME NEW c, Rejection(asked[c]) = "none", want[c].blob = <<>>
  PROVE  Expected(c) = Told(want[c])
<1>1. Len(want[c].blob) = 0
  OBVIOUS
<1>2. TakesBlob(asked[c].buf, Len(want[c].blob))
  BY <1>1 DEF TakesBlob
<1> QED BY <1>2 DEF Expected

\* What the client makes of the response to a call that waits.
Understood(c) ==
  LET h == s2c[1]
  IN /\ h.a = RESP_FLAG_HAS_ERRNO => CustomError(asked[c].ety, EncNum(h.m)) = Expected(c)
     /\ h.a = RESP_FLAG_HAS_ERR_STRING =>
          ErrorText(asked[c].ety, SubSeq(s2c, 2, 1 + h.b)) = Expected(c)
     /\ h.a = 0 => /\ Rejection(asked[c]) = "none" /\ Len(want[c].blob) = h.b
                   /\ DecodeResp(SubSeq(s2c, 2, 1 + h.m), SubSeq(s2c, 2 + h.m, 1 + h.m + h.b)) = want[c]
                   /\ Told(want[c]) = want[c]

LEMMA Answers ==
  ASSUME Carried, RespInv, Replies, s2c # <<>>, NEW c \in Calls, c = s2c[1].own,
         task[c].st = "wait"
  PROVE  Understood(c)
<1>0. s2c \in Seq(Unit) /\ 1 \in 1..Len(s2c) /\ IsHead(s2c[1])
  BY FirstResp DEF RespInv
<1>1. PICK f : IsReply(c, f) /\ Holds(s2c, 1, f)
  BY <1>0 DEF Replies, Reply
<1>2. /\ RESP_FLAG_HAS_ERRNO = 1 /\ RESP_FLAG_HAS_ERR_STRING = 2 /\ 2 <= I32_MAX
      /\ \A d, a, m, b : LET h == RespHead(d, a, m, b) IN h.a = a /\ h.m = m /\ h.b = b
  BY Widths, SMTT(20) DEF RESP_FLAG_HAS_ERRNO, RESP_FLAG_HAS_ERR_STRING, RespHead
<1>3. ASSUME NEW s \in Seq(Words), Len(s) <= I32_MAX, f = TextFrame(c, s)
      PROVE  LET h == s2c[1] IN /\ h.a = 2 /\ IsText(SubSeq(s2c, 2, 1 + h.b))
                                /\ FromText(SubSeq(s2c, 2, 1 + h.b)) = s
  <2>1. /\ s2c[1] = RespHead(c, RESP_FLAG_HAS_ERR_STRING, 0, Len(s))
        /\ IsText(SubSeq(s2c, 2, 1 + Len(s))) /\ FromText(SubSeq(s2c, 2, 1 + Len(s))) = s
    BY <1>0, <1>1, <1>3, TextBack, SMTT(20)
  <2>2. s2c[1].b = Len(s) /\ s2c[1].a = 2
    BY <1>2, <2>1, SMTT(20)
  <2> QED BY <2>1, <2>2, SMTT(20)
<1>4. ASSUME NEW e \in IntErrs, f = TextFrame(c, IntText(e)), Expected(c) = Rpc(e)
      PROVE  Understood(c)
  <2>1. IntText(e) \in Seq(Words) /\ Len(IntText(e)) <= I32_MAX
    BY <1>2, IntTexts, Zenon
  <2> DEFINE x == SubSeq(s2c, 2, 1 + s2c[1].b)
  <2>2. s2c[1].a = 2 /\ IsText(x) /\ FromText(x) = IntText(e)
    BY <1>3, <1>4, <2>1, SMTT(20)
  <2> HIDE DEF x
  <2>3. ErrorText(asked[c].ety, x) = Rpc(e)
    BY <2>2, TextsBack, SMTT(20)
  <2> QED BY <1>2, <1>4, <2>2, <2>3, SMTT(20) DEF Understood, x
<1>5. CASE Rejection(asked[c]) # "none"
  <2> DEFINE e == Rejection(asked[c])
  <2>1. e \in {"Decode", "Method", "Service"}
    BY <1>5, Zenon DEF Rejection
  <2>2. e \in IntErrs
    BY <2>1, Rejections, SMTT(20)
  <2>3. f = TextFrame(c, IntText(e)) /\ Expected(c) = Rpc(e)
    BY <1>1, <1>5, SMTT(20) DEF IsReply, Expected
  <2> HIDE DEF e
  <2> QED BY <1>4, <2>2, <2>3, SMTT(20)
<1>6. CASE Rejection(asked[c]) = "none"
  <2>1. PICK o \in Outcomes : /\ want[c] = Meaning(c, o) /\ f = Answer(c, o)
                              /\ o.kind = "err" => asked[c].ety = o.err.ty
    BY <1>1, <1>6 DEF IsReply
  <2>2. \A e, v : Rpc(e).blob = <<>> /\ User(v).blob = <<>>
    BY DEF Rpc, User, Verdict
  <2>6. (\A e : Told(Rpc(e)) = Rpc(e)) /\ \A x, y : Told(Ok(x, y)) = Ok(x, y)
    BY DEF Told, Rpc, Ok, Verdict
  <2>3. CASE o.kind = "rpc" \/ o.kind = "noenc"
    <3> DEFINE e == IF o.kind = "rpc" THEN "Internal" ELSE "Encode"
    <3>1. e \in IntErrs
      <4>1. RpcIntErr[8] = "Internal" /\ RpcIntErr[6] = "Encode" /\ DOMAIN RpcIntErr = 1..9
        BY DEF RpcIntErr
      <4> QED BY <4>1 DEF IntErrs
    <3>2. want[c] = Rpc(e) /\ f = TextFrame(c, IntText(e))
      BY <2>1, <2>3 DEF Meaning, Answer
    <3> HIDE DEF e
    <3>3. want[c].blob = <<>>
      BY <2>2, <3>2
    <3>5. Told(Rpc(e)) = Rpc(e)
      BY <2>6, Zenon
    <3>4. Expected(c) = Rpc(e)
      BY <1>6, <3>2, <3>3, <3>5, NoBlob, SMTT(20)
    <3> QED BY <1>4, <3>1, <3>2, <3>4, SMTT(20)
  <2>4. CASE o.kind = "err"
    <3>1. /\ o.err \in Errors /\ Len(o.err.txt) <= I32_MAX /\ want[c] = User(o.err)
          /\ asked[c].ety = o.err.ty
      BY <2>1, <2>4, Outcomed, SMTT(20) DEF Meaning
    <3>2. Expected(c) = Told(User(o.err))
      BY <1>6, <2>2, <3>1, NoBlob, SMTT(20)
    <3>3. /\ o.err.ty \in NumTypes \cup {"Errno", "()", "String", "Enum"} /\ o.err.txt \in Seq(Words)
          /\ AsU32(o.err.num) \in 0..U32_MAX
      BY <3>1, Encodings
    <3>4. ASSUME NEW n, f = NumFrame(c, n), CustomError(o.err.ty, EncNum(n)) = Told(User(o.err))
          PROVE  Understood(c)
      <4>1. f[1] = RespHead(c, RESP_FLAG_HAS_ERRNO, n, 0) /\ Len(f) = 1
        BY <3>4 DEF NumFrame
      <4>2. s2c[1] = f[1]
        BY <1>1, <4>1 DEF Holds
      <4>3. s2c[1].a = 1 /\ s2c[1].m = n
        BY <1>2, <4>1, <4>2, SMTT(20)
      <4> QED BY <1>2, <3>1, <3>2, <3>4, <4>3, SMTT(20) DEF Understood
    <3>5. CASE o.err.ty \in NumTypes \cup {"Errno"}
      <4>1. f = NumFrame(c, AsU32(o.err.num))
        BY <2>1, <2>4, <3>5, SMTT(20) DEF Answer
      <4> QED BY <3>1, <3>4, <3>5, <4>1, ErrorsBack, SMTT(20)
    <3>6. CASE o.err.ty = "()"
      <4>1. f = NumFrame(c, 0)
        BY <2>1, <2>4, <3>6, SMTT(20) DEF Answer, NumTypes
      <4> QED BY <3>1, <3>4, <3>6, <4>1, ErrorsBack, SMTT(20)
    <3>7. CASE o.err.ty \in {"String", "Enum"}
      <4>1. f = TextFrame(c, o.err.txt)
        BY <2>1, <2>4, <3>7, SMTT(20) DEF Answer, NumTypes
      <4> DEFINE x == SubSeq(s2c, 2, 1 + s2c[1].b)
      <4>2. s2c[1].a = 2 /\ IsText(x) /\ FromText(x) = o.err.txt
        BY <1>3, <3>1, <3>3, <4>1, SMTT(20)
      <4> HIDE DEF x
      <4>3. CustomError(o.err.ty, EncBuf(o.err.txt)) = User(o.err) /\ ~(o.err.num < 0)
        BY <3>1, <3>7, ErrorsBack, SMTT(20)
      <4>5. User(o.err).tag = "User" /\ User(o.err).err = o.err
        BY DEF User, Verdict
      <4>6. Told(User(o.err)) = IF IsIntText(o.err.txt)
                                THEN Verdict("Rpc", UserErr("", 0, o.err.txt), <<>>, <<>>) ELSE User(o.err)
        BY <4>3, <4>5, Zenon DEF Told
      <4>4. ErrorText(asked[c].ety, x) = Told(User(o.err))
        <5>1. CASE IsIntText(o.err.txt)
          BY <4>2, <4>6, <5>1, TextsTaken, Zenon
        <5>2. CASE ~IsIntText(o.err.txt)
          BY <3>1, <4>2, <4>3, <4>6, <5>2, TextsBack, SMTT(20)
        <5> QED BY <5>1, <5>2
      <4> QED BY <1>2, <3>2, <4>2, <4>4, SMTT(20) DEF Understood, x
    <3> QED BY <3>3, <3>5, <3>6, <3>7, SMTT(20)
  <2>5. CASE o.kind = "ok"
    <3> DEFINE m == o.msg
               b == o.blob
    <3>1. m \in Nat /\ b \in 0..I32_MAX /\ m + b <= U32_MAX
      BY <2>5, Outcomed
    <3>2. want[c] = Ok(Bytes("rsp", c, m), Bytes("blob", c, b)) /\ f = OkFrame(c, m, b)
      BY <2>1, <2>5, SMTT(20) DEF Meaning, Answer
    <3> HIDE DEF m, b
    <3>3. /\ s2c[1] = RespHead(c, 0, m, b)
          /\ SubSeq(s2c, 2, 1 + m) = Bytes("rsp", c, m)
          /\ SubSeq(s2c, 2 + m, 1 + m + b) = Bytes("blob", c, b)
      BY <1>0, <1>1, <3>1, <3>2, OkBack, SMTT(20)
    <3>4. s2c[1].a = 0 /\ s2c[1].m = m /\ s2c[1].b = b
      BY <1>2, <3>3
    <3>5. b \in Nat /\ Len(Bytes("blob", c, b)) = b
      BY <3>1, Widths, BytesSeq, SMTT(20) DEF Body
    <3>9. \A x, y : Ok(x, y).blob = y
      BY DEF Ok, Verdict
    <3>6. Len(want[c].blob) = b
      BY <3>2, <3>5, <3>9, Zenon
    <3>7. Bytes("rsp", c, m) = <<>> \/ Decodes("rsp", Bytes("rsp", c, m))
      <4>1. CASE m = 0
        BY <4>1 DEF Bytes
      <4>2. CASE m # 0
        BY <3>1, <4>2, DecodesBytes, SMTT(20) DEF Body
      <4> QED BY <4>1, <4>2
    <3>8. DecodeResp(Bytes("rsp", c, m), Bytes("blob", c, b)) = want[c]
      BY <3>2, <3>7, SMTT(20) DEF DecodeResp
    <3>10. DecodeResp(SubSeq(s2c, 2, 1 + s2c[1].m),
                      SubSeq(s2c, 2 + s2c[1].m, 1 + s2c[1].m + s2c[1].b)) = want[c]
      BY <3>3, <3>4, <3>8, Zenon
    <3>11. Told(want[c]) = want[c]
      BY <2>6, <3>2, Zenon
    <3> QED BY <1>2, <1>6, <3>4, <3>6, <3>10, <3>11, SMTT(20) DEF Understood
  <2> QED BY <2>3, <2>4, <2>5, Outcomed, SMTT(20)
<1> QED BY <1>5, <1>6, SMTT(20)


--------------------------------------------------------------------------------
(* Every step is one of the moves. *)

\* A step that only replaces the task of c, or lets all that wait fail.
LEMMA StillPut ==
  ASSUME NEW c, NEW s, NEW b, NEW r, Put(task, task', c, s, b, r),
         \A d \in Calls : d # c => asked'[d] = asked[d] /\ want'[d] = want[d]
  PROVE  \A d \in Calls : d # c => Still(d)
BY DEF Put, Still

LEMMA StillFail ==
  ASSUME Tasks(task), task' = FailAll(task), asked' = asked, want' = want
  PROVE  \A d \in Calls : Still(d)
<1>1. \A d \in Calls : IF task[d].st = "wait" THEN task'[d].st = "failed" ELSE task'[d] = task[d]
  BY TasksFail, Zenon
<1> QED BY <1>1 DEF Still

LEMMA SendPosts ==
  ASSUME ReqInv, AskInv, NEW c \in Calls, Carried, Send(c)
  PROVE  Post(c)
<1>1. PICK q \in Requests :
        /\ c2s' = IF Encodes(c, q) THEN c2s \o Frame(c, q).bytes ELSE c2s
        /\ task' = [task EXCEPT ![c] =
             [st  |-> IF Encodes(c, q) THEN "wait" ELSE "failed", buf |-> NoBuf,
              res |-> IF Encodes(c, q) THEN Pending ELSE Rpc("Encode")]]
        /\ asked' = [asked EXCEPT ![c] = q]
  BY Zenon DEF Send
<1>2. task[c].st = "new" /\ s2c' = s2c /\ running' = running /\ want' = want
  BY DEF Send, IsNext
<1>3. Tasks(task) /\ asked \in [Calls -> Asked]
  BY DEF AskInv, AskTypes
<1> DEFINE s == IF Encodes(c, q) THEN "wait" ELSE "failed"
           r == IF Encodes(c, q) THEN Pending ELSE Rpc("Encode")
<1>4. s \in Statuses /\ s \notin {"new", "done", "ping"}
  BY DEF Statuses
<1>5. Put(task, task', c, s, NoBuf, r)
  BY <1>1, <1>3, <1>4, PutAll, Zenon
<1> HIDE DEF s, r
<1>6. task'[c].st = s
  BY <1>5 DEF Put
<1>7. \A d \in Calls : d # c => Still(d)
  BY <1>1, <1>2, <1>3, <1>5, StillPut, Zenon
<1>8. CASE ~Encodes(c, q)
  <2>1. c2s' = c2s
    BY <1>1, <1>8, SMTT(20)
  <2> QED BY <1>2, <1>4, <1>6, <1>7, <2>1, SMTT(20) DEF Post
<1>9. CASE Encodes(c, q)
  <2> DEFINE f == Frame(c, q).bytes
  <2>1. Encoded(q)
    BY <1>9, Requested
  <2>2. Framed(f) /\ f[1].own = c /\ f[1].m = q.msg /\ q.msg # 0
    BY <2>1, ReqFramed DEF Encoded
  <2>3. f[1] # ReqHead(c, PING_ACTION, 0, 0)
    BY <2>2 DEF ReqHead
  <2>4. c2s' = c2s \o f
    BY <1>1, <1>9
  <2> HIDE DEF f
  <2> QED BY <1>2, <1>4, <1>6, <1>7, <2>2, <2>3, <2>4, SMTT(20) DEF Post
<1> QED BY <1>8, <1>9

LEMMA CutPosts ==
  ASSUME ReqInv, AskInv, NEW c \in Calls, Carried, SendCut(c)
  PROVE  Post(c)
<1>1. PICK q \in Requests :
        /\ Encodes(c, q)
        /\ \E n \in 1..(Len(Frame(c, q).bytes) - 1) : c2s' = c2s \o SubSeq(Frame(c, q).bytes, 1, n)
        /\ task' = FailAll([task EXCEPT ![c].st = "wait"])
  BY Zenon DEF SendCut
<1>2. task[c].st = "new" /\ s2c' = s2c /\ running' = running /\ want' = want /\ asked' = asked
  BY DEF SendCut, IsNext
<1> DEFINE t == [task EXCEPT ![c].st = "wait"]
<1>3. "wait" \in Statuses /\ Tasks(task)
  BY DEF Statuses, AskInv, AskTypes
<1>4. \E s \in Statuses : s = "wait" /\ Put(task, t, c, s, task[c].buf, task[c].res)
  BY <1>3, PutSt, Zenon
<1>5. Tasks(t) /\ t[c].st = "wait" /\ \A d \in Calls : d # c => t[d] = task[d]
  BY <1>4 DEF Put
<1>6. task' = FailAll(t)
  BY <1>1
<1> HIDE DEF t
<1>7. \A d \in Calls : IF t[d].st = "wait" THEN task'[d].st = "failed" ELSE task'[d] = t[d]
  BY <1>5, <1>6, TasksFail, Zenon
<1>8. task'[c].st = "failed" /\ \A d \in Calls : d # c => Still(d)
  BY <1>2, <1>5, <1>7, SMTT(20) DEF Still
<1> DEFINE f == Frame(c, q).bytes
<1>9. Encoded(q)
  BY <1>1, Requested, SMTT(20)
<1>10. Framed(f) /\ f[1].own = c /\ f[1].m = q.msg /\ q.msg # 0
  BY <1>9, ReqFramed DEF Encoded
<1>11. PICK n \in 1..(Len(f) - 1) : c2s' = c2s \o SubSeq(f, 1, n)
  BY <1>1, Zenon
<1> HIDE DEF f
<1> DEFINE g == SubSeq(f, 1, n)
<1>12. Framed(g) /\ g[1] = f[1]
  BY <1>10, CutFramed
<1>13. g[1].own = c /\ c2s' = c2s \o g /\ g[1] # ReqHead(c, PING_ACTION, 0, 0)
  BY <1>10, <1>11, <1>12 DEF ReqHead
<1> HIDE DEF g
<1> QED BY <1>2, <1>8, <1>12, <1>13, SMTT(20) DEF Post

LEMMA PingPosts ==
  ASSUME ReqInv, AskInv, NEW c \in Calls, Ping(c)
  PROVE  Post(c)
<1> DEFINE f == EncodePing(c)
<1>1. Framed(f) /\ f[1].own = c
  BY PingFramed
<1>2. /\ c2s' = c2s \o f /\ task' = [task EXCEPT ![c].st = "ping"] /\ task[c].st = "new"
      /\ s2c' = s2c /\ running' = running /\ want' = want /\ asked' = asked
  BY DEF Ping, IsNext
<1> HIDE DEF f
<1>3. "ping" \in Statuses /\ Tasks(task)
  BY DEF Statuses, AskInv, AskTypes
<1>4. \E s \in Statuses : s = "ping" /\ Put(task, task', c, s, task[c].buf, task[c].res)
  BY <1>2, <1>3, PutSt, Zenon
<1>5. task'[c].st = "ping"
  BY <1>4 DEF Put
<1>6. \A d \in Calls : d # c => Still(d)
  BY <1>2, <1>4, StillPut, Zenon
<1> QED BY <1>1, <1>2, <1>5, <1>6, Zenon DEF Post


LEMMA ReadAccepts ==
  ASSUME WellOrdered, Carried, ReqInv, AskInv, Pings, ServerRead
  PROVE  \E c \in Calls : Accept(c)
<1> DEFINE req == ReadReq(c2s)
           c == c2s[1].own
           n == ReqSize(c2s[1])
           e == Dispatch(req)
<1>0. /\ c2s # <<>> /\ IsHead(c2s[1]) /\ n <= Len(c2s) /\ c2s' = From(c2s, n) /\ req.seq = c
      /\ layer' = layer /\ task' = task /\ asked' = asked /\ want' = want
      /\ \/ /\ req.action = Num(0) /\ req.msg = <<>> /\ running' = running
            /\ s2c' = s2c \o EncodeInternal(req.seq, EncNone)
         \/ /\ ~(req.action = Num(0) /\ req.msg = <<>>) /\ e # "none" /\ running' = running
            /\ s2c' = s2c \o EncodeInternal(req.seq, EncRpc(e))
         \/ e = "none" /\ running' = running \cup {ServerTask(req)} /\ s2c' = s2c
  BY Zenon DEF ServerRead, Readable, ReadReq
<1>1. /\ c2s \in Seq(Unit) /\ Len(c2s) \in Nat /\ Len(c2s) > 0 /\ 1 \in 1..Len(c2s)
      /\ c2s[1] \in Unit
  BY <1>0 DEF ReqInv
<1>2. c \in Calls
  BY <1>0, <1>1, SMTT(20) DEF ReqInv
<1>3. n \in 1..Len(c2s)
  BY <1>0, <1>1, Sizes, SMTT(20)
<1>4. Content(c2s, 1, asked[c])
  <2>1. 1 + n <= Len(c2s) + 1
    BY <1>1, <1>3
  <2> QED BY <1>0, <1>1, <2>1 DEF AskInv
<1>5. \A d \in Calls : Still(d)
  BY <1>0 DEF Still
<1>6. ASSUME c2s[1] # ReqHead(c, PING_ACTION, 0, 0)
      PROVE  req.msg # <<>> /\ Dispatch(req) = Rejection(asked[c])
  <2> DEFINE q == asked[c]
  <2>1. Encoded(q) /\ Holds(c2s, 1, Frame(c, q).bytes)
    BY <1>4, <1>6 DEF Content
  <2>2. req.action = q.action /\ req.msg = Bytes(q.kind, c, q.msg)
    BY <1>1, <1>2, <2>1, ReadsBack, SMTT(20)
  <2>3. q \in Asked /\ layer \in {"mux", "single", "stream"} /\ (layer # "stream" => q.action.tag = "Str")
    BY <1>2, <2>1, SMTT(20) DEF AskInv, AskTypes, Encoded
  <2>4. q.action \in RpcActions /\ q.msg \in Nat \ {0} /\ (Api => q.action.tag = "Str")
    BY <2>1, <2>3, Widths, SMTT(20) DEF Encoded, IsAction, Api
  <2> HIDE DEF q, req
  <2>5. Dispatch(req) = Rejection(q)
    BY <2>2, <2>3, <2>4, Routed, SMTT(20)
  <2>6. req.msg # <<>>
    <3>1. \A k, d : \A i \in Nat \ {0} : Bytes(k, d, i) # <<>>
      BY DEF Bytes
    <3> QED BY <2>2, <2>4, <3>1
  <2> QED BY <2>5, <2>6 DEF q
<1>7. c2s[1] = ReqHead(c, PING_ACTION, 0, 0) => task[c].st = "ping"
  BY <1>1 DEF Pings
<1> HIDE DEF req, c, n, e
<1>8. c2s # <<>> /\ IsHead(c2s[1]) /\ c = c2s[1].own /\ \E k \in 1..Len(c2s) : c2s' = From(c2s, k)
  BY <1>0, <1>3 DEF c
<1>9. CASE req.action = Num(0) /\ req.msg = <<>> /\ running' = running
           /\ s2c' = s2c \o EncodeInternal(req.seq, EncNone)
  <2>1. 0 \in 0..I32_MAX /\ 0 \in Nat /\ 0 + 0 <= U32_MAX
    BY Widths
  <2>2. GoodFrame(c, OkFrame(c, 0, 0)) /\ EncodeInternal(c, EncNone) = OkFrame(c, 0, 0)
    BY <1>2, <2>1, OkGood, Internal, SMTT(20)
  <2>3. task[c].st = "ping"
    BY <1>6, <1>7, <1>9, SMTT(20)
  <2>4. Answering(c, OkFrame(c, 0, 0))
    BY <1>0, <1>9, <2>2, SMTT(20) DEF Answering
  <2>5. Accept(c)
    BY <1>5, <1>8, <1>9, <2>3, <2>4, SMTT(20) DEF Accept
  <2> QED BY <1>2, <2>5
<1>10. CASE ~(req.action = Num(0) /\ req.msg = <<>>) /\ e # "none" /\ running' = running
            /\ s2c' = s2c \o EncodeInternal(req.seq, EncRpc(e))
  <2>1. e \in {"none", "Decode", "Method", "Service"}
    BY Dispatched DEF e
  <2>2. e \in IntErrs
    BY <1>10, <2>1, Rejections, SMTT(20)
  <2>3. IntText(e) \in Seq(Words) /\ Len(IntText(e)) = 2 /\ 2 <= I32_MAX
    BY <2>2, IntTexts, Widths
  <2>4. GoodFrame(c, TextFrame(c, IntText(e))) /\ EncodeInternal(c, EncRpc(e)) = TextFrame(c, IntText(e))
    BY <1>2, <2>2, <2>3, TextGood, Internal, Zenon
  <2>5. Answering(c, TextFrame(c, IntText(e)))
    BY <1>0, <1>10, <2>4, SMTT(20) DEF Answering
  <2>6. c2s[1] # ReqHead(c, PING_ACTION, 0, 0)
    BY <1>1, <1>10, ReadsPing DEF req
  <2>7. e = Rejection(asked[c])
    BY <1>6, <2>6 DEF e
  <2>8. IsReply(c, TextFrame(c, IntText(e)))
    BY <1>10, <2>7, SMTT(20) DEF IsReply
  <2>9. Accept(c)
    BY <1>5, <1>8, <1>10, <2>5, <2>8, SMTT(20) DEF Accept
  <2> QED BY <1>2, <2>9
<1>11. CASE e = "none" /\ running' = running \cup {ServerTask(req)} /\ s2c' = s2c
  <2>1. ServerTask(req).seq = c
    BY <1>0 DEF ServerTask
  <2>2. Accept(c)
    BY <1>5, <1>8, <1>11, <2>1, SMTT(20) DEF Accept
  <2> QED BY <1>2, <2>2
<1> QED BY <1>0, <1>9, <1>10, <1>11, SMTT(20)

LEMMA ServeFinishes ==
  ASSUME Carried, Partial \subseteq {0}, RespInv, AskInv, DOMAIN want = Calls, layer' = layer,
         NEW r \in running, Serve(r)
  PROVE  Finish(r)
<1> DEFINE c == r.seq
<1>1. c \in Calls /\ asked \in [Calls -> Asked] /\ Rejection(asked[c]) = "none"
  BY DEF AskInv, AskTypes, Seen
<1>2. /\ c2s' = c2s /\ running' = running \ {r} /\ task' = task
  BY DEF Serve
<1>3. PICK o \in Outcomes :
        /\ s2c' = s2c \o EncodeResp(c, EncodeOutcome(c, o))
        /\ want' = [want EXCEPT ![c] = Meaning(c, o)]
        /\ asked' = [asked EXCEPT ![c].ety = IF o.kind = "err" THEN o.err.ty ELSE @]
  BY Zenon DEF Serve
<1> DEFINE f == Answer(c, o)
<1>4. Answering(c, f)
  <2>1. GoodFrame(c, f) /\ EncodeResp(c, EncodeOutcome(c, o)) = f
    BY <1>1, Answered, AnswerGood, SMTT(20)
  <2> QED BY <1>3, <2>1 DEF Answering
<1> HIDE DEF f
<1>5. want'[c] = Meaning(c, o) /\ \A d \in Calls : d # c => want'[d] = want[d]
  BY <1>1, <1>3
<1> DEFINE t == IF o.kind = "err" THEN o.err.ty ELSE asked[c].ety
<1>6. asked' = [asked EXCEPT ![c].ety = t]
  BY <1>3
<1>7. t \in ErrTypes /\ (o.kind = "err" => t = o.err.ty)
  <2>1. o.kind = "err" => o.err \in Errors
    BY Outcomed
  <2>2. \A x \in Errors : x.ty \in ErrTypes
    BY CallAssumption
  <2>3. asked[c].ety \in ErrTypes
    BY <1>1 DEF Asked
  <2> QED BY <2>1, <2>2, <2>3, SMTT(20)
<1> HIDE DEF t
<1>8. /\ asked'[c].ety = t /\ Same(asked'[c], asked[c])
      /\ \A d \in Calls : d # c => asked'[d] = asked[d]
  <2>1. Same(asked'[c], asked[c])
    BY <1>1, <1>6, <1>7, AskedPut, SMTT(20)
  <2>2. \A d \in Calls : d # c => asked'[d] = asked[d]
    BY <1>1, <1>6, SMTT(20)
  <2>3. asked'[c] = [asked[c] EXCEPT !.ety = t] /\ asked[c] \in Asked
    BY <1>1, <1>6, SMTT(20)
  <2>4. asked'[c].ety = t
    BY <2>3 DEF Asked
  <2> QED BY <2>1, <2>2, <2>4, SMTT(20)
<1>9. Rejection(asked[c])' = "none"
  BY <1>1, <1>8, Zenon DEF Rejection, Same
<1>10. Outcomes' = Outcomes
  BY DEF Outcomes, Api
<1>11. IsReply(c, f)'
  BY <1>5, <1>7, <1>8, <1>9, <1>10, SMTT(20) DEF IsReply, f
<1>12. \A d \in Calls : d # c => Still(d)
  BY <1>2, <1>5, <1>8 DEF Still
<1> QED BY <1>2, <1>4, <1>11, <1>12, SMTT(20) DEF Finish

\* A buffer makes room for a blob when its documentation says so.
LEMMA Room ==
  ASSUME NEW b \in Bufs \cup {NoBuf}, NEW n \in Nat \ {0}
  PROVE  Reserve(b, n).ok = TRUE <=> TakesBlob(b, n)
<1>1. NoBuf \in BufShape /\ NoBuf.len <= NoBuf.cap /\ NoBuf.cap = 0
  BY DEF NoBuf, Buf, BufShape, BufTypes
<1>2. /\ b.type \in BufTypes /\ b.some \in BOOLEAN /\ b.len \in Nat /\ b.cap \in Nat
      /\ b.len <= b.cap /\ (b.type = "NoField" => b.cap = 0)
  BY <1>1, CallAssumption DEF BufShape
<1>3. CASE b.type = "NoField"
  BY <1>2, <1>3 DEF Reserve, TakesBlob
<1>4. CASE b.type = "Vec"
  BY <1>4 DEF Reserve, TakesBlob
<1>5. CASE b.type = "OptVec"
  BY <1>2, <1>5 DEF Reserve, TakesBlob
<1>6. CASE b.type = "OptBuffer" /\ ~b.some
  BY <1>2, <1>6 DEF Reserve, TakesBlob
<1>7. CASE b.type = "Buffer" \/ (b.type = "OptBuffer" /\ b.some)
  <2>1. Reserve(b, n).ok = Fits(b, n)
    BY <1>7, Zenon DEF Reserve
  <2>2. Fits(b, n) <=> b.cap >= n
    BY <1>2 DEF Fits
  <2> QED BY <1>7, <2>1, <2>2, Zenon DEF TakesBlob, Fits
<1> QED BY <1>2, <1>3, <1>4, <1>5, <1>6, <1>7, Zenon DEF BufTypes

\* A response that ends a task tells it what it should.
LEMMA RecvTakes ==
  ASSUME Carried, RespInv, AskInv, Replies, layer' = layer,
         RecvErrno \/ RecvErrString \/ RecvResp \/ RecvDump
  PROVE  \E c \in Calls : Take(c)
<1> DEFINE h == s2c[1]
<1>1. s2c # <<>> /\ s2c' = From(s2c, RespSize(h))
  BY TakesWhole
<1>2. PICK c \in Calls : c = h.own
  BY <1>1, FirstResp, SMTT(20) DEF GoodHead
<1>3. c2s' = c2s /\ running' = running /\ want' = want
  BY Zenon DEF RecvErrno, RecvErrString, RecvResp, RecvDump
<1>4. Tasks(task) /\ asked \in [Calls -> Asked] /\ "done" \in Statuses
  BY DEF AskInv, AskTypes, Statuses
<1>5. task[c].st = "wait" => Understood(c)
  BY <1>1, <1>2, Answers, SMTT(20)
<1>6. ASSUME NEW b, NEW r, Put(task, task', c, "done", b, r), r = Expected(c)',
             \A d \in Calls : d # c => asked'[d] = asked[d]
      PROVE  Take(c)
  <2>1. task'[c].st = "done" /\ task'[c].res = r
    BY <1>6 DEF Put
  <2>2. \A d \in Calls : d # c => Still(d)
    BY <1>3, <1>6, StillPut, SMTT(20)
  <2> HIDE DEF h
  <2> QED BY <1>1, <1>2, <1>3, <1>6, <2>1, <2>2, ZenonT(30) DEF Take, h
<1>7. asked' = asked => Expected(c)' = Expected(c)
  <2>1. asked' = asked => Rejection(asked[c])' = Rejection(asked[c])
    BY DEF Rejection
  <2> QED BY <1>3, <2>1 DEF Expected
<1>8. CASE RecvErrno
  <2> DEFINE r == CustomError(asked[c].ety, EncNum(h.m))
  <2>1. task[c].st = "wait" /\ h.a = RESP_FLAG_HAS_ERRNO /\ asked' = asked /\ task' = Complete(c, r)
    BY <1>2, <1>8 DEF RecvErrno, Waiting
  <2>2. r = Expected(c)
    BY <1>5, <2>1 DEF Understood
  <2> HIDE DEF r
  <2>3. Put(task, task', c, "done", task[c].buf, r)
    BY <1>2, <1>4, <2>1, PutDone, ZenonT(30) DEF Complete
  <2> QED BY <1>2, <1>6, <1>7, <2>1, <2>2, <2>3, SMTT(20)
<1>9. CASE RecvErrString
  <2> DEFINE r == ErrorText(asked[c].ety, SubSeq(s2c, 2, 1 + h.b))
  <2>1. task[c].st = "wait" /\ h.a = RESP_FLAG_HAS_ERR_STRING /\ asked' = asked /\ task' = Complete(c, r)
    BY <1>2, <1>9 DEF RecvErrString, Waiting
  <2>2. r = Expected(c)
    BY <1>5, <2>1, SMTT(20) DEF Understood
  <2> HIDE DEF r
  <2>3. Put(task, task', c, "done", task[c].buf, r)
    BY <1>2, <1>4, <2>1, PutDone, Zenon DEF Complete
  <2> QED BY <1>2, <1>6, <1>7, <2>1, <2>2, <2>3
<1>10. CASE RecvDump
  <2>1. task' = task /\ asked' = asked
    BY <1>10 DEF RecvDump
  <2>2. \A d \in Calls : Still(d)
    BY <1>3, <2>1 DEF Still
  <2> QED BY <1>1, <1>2, <1>3, <2>2, SMTT(20) DEF Take
<1>11. CASE RecvResp
  <2> DEFINE size == 1 + h.m + h.b
             res == DecodeResp(SubSeq(s2c, 2, 1 + h.m), SubSeq(s2c, 2 + h.m, size))
  <2>1. PICK buf \in (IF Api THEN {NoBuf} ELSE Bufs) :
          /\ task[c].st = "wait" /\ h.a = 0
          /\ task' = IF h.b = 0 THEN [Complete(c, res) EXCEPT ![c].buf = buf]
                     ELSE IF Reserve(buf, h.b).ok
                     THEN [Complete(c, res) EXCEPT ![c].buf = Reserve(buf, h.b).buf]
                     ELSE [Complete(c, Rpc("Decode")) EXCEPT ![c].buf = buf]
          /\ asked' = [asked EXCEPT ![c].buf = buf]
    BY <1>2, <1>11, Zenon DEF RecvResp, Waiting
  <2>2. h.b \in Nat
    BY <1>1, FirstResp, Widths, SMTT(20) DEF Unit
  <2>3. buf \in Bufs \cup {NoBuf}
    BY SMTT(20)
  <2>4. Rejection(asked[c]) = "none" /\ Len(want[c].blob) = h.b /\ res = want[c] /\ Told(res) = res
    BY <1>5, <2>1 DEF Understood
  <2>5. buf \in BufShape
    <3>1. NoBuf \in BufShape
      BY DEF NoBuf, Buf, BufShape, BufTypes
    <3> QED BY <2>3, <3>1, CallAssumption, SMTT(20)
  <2> HIDE DEF h, res
  <2>6. Same(asked'[c], asked[c]) /\ asked'[c].buf = buf /\ \A d \in Calls : d # c => asked'[d] = asked[d]
    <3>1. Same(asked'[c], asked[c])
      BY <1>2, <1>4, <2>1, <2>5, AskedPut, SMTT(20)
    <3>2. asked'[c] = [asked[c] EXCEPT !.buf = buf] /\ asked[c] \in Asked
      BY <1>2, <1>4, <2>1, SMTT(20)
    <3>3. asked'[c].buf = buf
      BY <3>2 DEF Asked
    <3>4. \A d \in Calls : d # c => asked'[d] = asked[d]
      BY <1>2, <1>4, <2>1, SMTT(20)
    <3> QED BY <3>1, <3>3, <3>4, SMTT(20)
  <2> DEFINE v == IF TakesBlob(buf, h.b) THEN res ELSE Rpc("Decode")
  <2>7. Expected(c)' = v
    <3>1. Rejection(asked[c])' = "none"
      BY <2>4, <2>6, Zenon DEF Rejection, Same
    <3>2. asked'[c].buf = buf /\ want'[c] = want[c] /\ Len(want[c].blob) = h.b /\ want[c] = res /\ Told(res) = res
      BY <1>3, <2>4, <2>6, SMTT(20)
    <3> QED BY <3>1, <3>2 DEF Expected
  <2>8. h.b # 0 => (Reserve(buf, h.b).ok = TRUE <=> TakesBlob(buf, h.b))
    BY <2>2, <2>3, Room, Zenon
  <2>9. h.b = 0 => TakesBlob(buf, h.b)
    BY DEF TakesBlob
  <2>10. PICK b : task' = [Complete(c, v) EXCEPT ![c].buf = b]
    BY <2>1, <2>8, <2>9, Zenon
  <2> HIDE DEF v
  <2>11. Put(task, task', c, "done", b, v)
    BY <1>4, <2>10, PutFull, Zenon DEF Complete
  <2> QED BY <1>6, <2>6, <2>7, <2>11, SMTT(20)
<1> QED BY <1>2, <1>8, <1>9, <1>10, <1>11, SMTT(20)

\* Steps that move no request and no response.
LEMMA StaysIdle ==
  ASSUME Tasks(task), (\E c \in Calls : Expire(c)) \/ ServerDrop \/ ClientDrop \/ Quiet \/ UNCHANGED vars
  PROVE  Idle
<1>1. c2s' = c2s /\ s2c' = s2c /\ running' = running /\ asked' = asked /\ want' = want
  BY Zenon DEF Expire, ServerDrop, ClientDrop, Quiet, vars
<1>2. ASSUME task' = task PROVE Idle
  BY <1>1, <1>2 DEF Idle, Still
<1>3. ASSUME NEW c \in Calls, Expire(c) PROVE Idle
  <2> DEFINE r == Rpc("Timeout")
  <2>1. task[c].st = "wait" /\ task' = [task EXCEPT ![c].st = "failed", ![c].res = r] /\ "failed" \in Statuses
    BY <1>3 DEF Expire, Statuses
  <2> HIDE DEF r
  <2>2. Put(task, task', c, "failed", task[c].buf, r)
    BY <2>1, PutDone, Zenon
  <2>3. task'[c].st = "failed"
    BY <2>2 DEF Put
  <2>4. \A d \in Calls : d # c => Still(d)
    BY <1>1, <2>2, StillPut
  <2>5. Still(c)
    BY <1>1, <2>1, <2>3 DEF Still
  <2> QED BY <1>1, <2>4, <2>5, SMTT(20) DEF Idle
<1>4. CASE ClientDrop
  <2>1. \A d \in Calls : Still(d)
    BY <1>1, <1>4, StillFail, SMTT(20) DEF ClientDrop
  <2> QED BY <1>1, <2>1 DEF Idle
<1>5. CASE ServerDrop \/ Quiet \/ UNCHANGED vars
  BY <1>2, <1>5 DEF ServerDrop, Quiet, vars
<1> QED BY <1>3, <1>4, <1>5, SMTT(20)

\* Every step is one of the moves.
LEMMA Moved ==
  ASSUME WellOrdered, Carried, Partial \subseteq {0}, ReqInv, RespInv, AskInv,
         DOMAIN want = Calls, Pings, Replies, layer' = layer, [Next]_vars
  PROVE  Moves
<1>1. ASSUME NEW c \in Calls, Send(c) \/ SendCut(c) \/ Ping(c) PROVE Moves
  <2>1. Post(c)
    BY <1>1, SendPosts, CutPosts, PingPosts, SMTT(20)
  <2> QED BY <2>1 DEF Moves
<1>2. CASE ServerRead
  BY <1>2, ReadAccepts DEF Moves
<1>3. ASSUME NEW r \in running, Serve(r) PROVE Moves
  <2>1. Finish(r)
    BY <1>3, ServeFinishes
  <2> QED BY <2>1 DEF Moves
<1>4. CASE RecvErrno \/ RecvErrString \/ RecvResp \/ RecvDump
  BY <1>4, RecvTakes DEF Moves
<1>5. CASE (\E c \in Calls : Expire(c)) \/ ServerDrop \/ ClientDrop \/ Quiet \/ UNCHANGED vars
  BY <1>5, StaysIdle DEF Moves, AskInv, AskTypes
<1> QED BY <1>1, <1>2, <1>3, <1>4, <1>5, Zenon DEF Next

LEMMA WantKept ==
  ASSUME [Next]_vars, DOMAIN want = Calls
  PROVE  DOMAIN want' = Calls
<1>1. ASSUME NEW r \in running, Serve(r) PROVE DOMAIN want' = Calls
  BY <1>1 DEF Serve
<1>2. CASE UNCHANGED want
  BY <1>2
<1>3. ASSUME NEW c \in Calls, Send(c) \/ SendCut(c) \/ Ping(c) \/ Expire(c) PROVE UNCHANGED want
  BY <1>3 DEF Send, SendCut, Ping, Expire
<1>4. CASE ServerRead \/ ServerDrop
  BY <1>2, <1>4 DEF ServerRead, ServerDrop
<1>5. CASE RecvErrno \/ RecvErrString \/ RecvResp \/ RecvDump \/ ClientDrop \/ Quiet \/ UNCHANGED vars
  BY <1>2, <1>5, Zenon DEF RecvErrno, RecvErrString, RecvResp, RecvDump, ClientDrop, Quiet, vars
<1> QED BY <1>1, <1>2, <1>3, <1>4, <1>5, Zenon DEF Next

\* Where the calls are, which of them are pings, and what the responses say.
ReplyInv == AskInv /\ DOMAIN want = Calls /\ Places /\ Pings /\ Replies /\ AllFaithful

LEMMA ReplyInit == Init => ReplyInv
<1> SUFFICES ASSUME Init PROVE ReplyInv
  OBVIOUS
<1>1. AskInv
  BY AskInit
<1>2. c2s = <<>> /\ s2c = <<>> /\ running = {} /\ DOMAIN want = Calls
  BY DEF Init
<1>3. Len(c2s) = 0 /\ Len(s2c) = 0
  BY <1>2
<1>4. Owners(c2s) = {} /\ Owners(s2c) = {} /\ Serving = {} /\ Distinct(c2s) /\ Distinct(s2c)
  BY <1>2, <1>3 DEF Owners, Serving, Distinct
<1>5. Places /\ Pings /\ Replies
  BY <1>2, <1>3, <1>4 DEF Places, Pings, Replies
<1>6. AllFaithful
  <2>1. \A c \in Calls : task[c].st = "new"
    BY DEF Init
  <2> QED BY <2>1 DEF AllFaithful
<1> QED BY <1>1, <1>2, <1>5, <1>6 DEF ReplyInv

\* What TypeOK says of the handlers' tasks and of the flags, and of nothing else.
Shaped ==
  /\ cup \in BOOLEAN /\ sup \in BOOLEAN /\ DOMAIN want = Calls
  /\ \A r \in running : \E s, b, a : r = [seq |-> s, blob |-> b, action |-> a]

LEMMA ShapedStep ==
  ASSUME Shaped, [Next]_vars
  PROVE  Shaped'
<1>1. DOMAIN want' = Calls
  BY WantKept DEF Shaped
<1>2. ASSUME running' \subseteq running, cup' \in {cup, FALSE}, sup' \in {sup, FALSE} PROVE Shaped'
  BY <1>1, <1>2, Zenon DEF Shaped
<1>3. CASE ServerRead
  <2>1. cup' = cup /\ sup' = sup /\ running' \subseteq running \cup {ServerTask(ReadReq(c2s))}
    BY <1>3 DEF ServerRead
  <2>2. \E s, b, a : ServerTask(ReadReq(c2s)) = [seq |-> s, blob |-> b, action |-> a]
    BY Zenon DEF ServerTask
  <2> QED BY <1>1, <2>1, <2>2, SMTT(20) DEF Shaped
<1>4. ASSUME NEW c \in Calls, Send(c) \/ SendCut(c) \/ Ping(c) \/ Expire(c) PROVE Shaped'
  BY <1>2, <1>4, Zenon DEF Send, SendCut, Ping, Expire
<1>5. ASSUME NEW r \in running, Serve(r) PROVE Shaped'
  BY <1>2, <1>5 DEF Serve
<1>6. CASE \/ RecvErrno \/ RecvErrString \/ RecvResp \/ RecvDump \/ ServerDrop \/ ClientDrop
           \/ Quiet \/ UNCHANGED vars
  <2>1. running' = running /\ cup' \in {cup, FALSE} /\ sup' \in {sup, FALSE}
    BY <1>6, Zenon DEF RecvErrno, RecvErrString, RecvResp, RecvDump, ServerDrop, ClientDrop, Quiet, vars
  <2> QED BY <1>2, <2>1, Zenon
<1> QED BY <1>3, <1>4, <1>5, <1>6, Zenon DEF Next

LEMMA Typed ==
  ASSUME ReqInv, RespInv, AskInv, BlobInv, Shaped
  PROVE  TypeOK
<1>1. ASSUME NEW c \in Calls
      PROVE  /\ DOMAIN task[c] = {"st", "buf", "res"} /\ task[c].st \in Statuses
             /\ task[c].buf \in BufShape /\ DOMAIN task = Calls
  <2>1. Fit(task[c].buf, asked[c].buf) /\ Tasks(task)
    BY DEF BlobInv
  <2>2. PICK B, V : task[c] \in [st : Statuses, buf : B, res : V] /\ task \in TasksOf(B, V)
    BY <2>1, Shape
  <2>3. DOMAIN task[c] = {"st", "buf", "res"} /\ task[c].st \in Statuses
    BY <2>2
  <2>4. DOMAIN task = Calls
    BY <2>2 DEF TasksOf
  <2> QED BY <2>1, <2>3, <2>4, SMTT(20) DEF Fit
<1>2. DOMAIN task = Calls
  BY DEF BlobInv, Tasks, TasksOf
<1>3. ASSUME NEW r \in running PROVE r \in [seq : Calls, blob : Nat, action : RpcActions]
  <2>1. PICK s, b, a : r = [seq |-> s, blob |-> b, action |-> a]
    BY DEF Shaped
  <2>2. r.seq \in Calls /\ asked[r.seq] \in Asked
    BY DEF AskInv, AskTypes
  <2>3. r.action \in RpcActions /\ r.blob \in Nat
    BY <2>2 DEF AskInv, Seen, Asked
  <2> QED BY <2>1, <2>2, <2>3
<1>4. layer \in {"mux", "single", "stream"} /\ asked \in [Calls -> Asked]
  BY DEF AskInv, AskTypes
<1> QED BY <1>1, <1>2, <1>3, <1>4, SMTT(20) DEF TypeOK, ReqInv, RespInv, Shaped, Asked, Statuses
--------------------------------------------------------------------------------
(* Natural numbers are well ordered, and the theorems that rest on it. *)

INSTANCE WellFoundedInduction

LEMMA Least == WellOrdered
<1>1. SUFFICES ASSUME NEW T \in SUBSET Nat, T # {} PROVE \E x \in T : \A y \in T : x <= y
  BY DEF WellOrdered
<1>2. PICK x \in T : \A y \in T : ~(<<y, x>> \in OpToRel(<, Nat))
  BY <1>1, NatLessThanWellFounded, WFMin, Zenon
<1>3. \A y \in T : ~(y < x)
  BY <1>2, Zenon DEF OpToRel
<1> QED BY <1>3

\* As long as a header can carry the lengths, a handler runs only for a request that was
\* made and whose action, service, method and message the dispatch accepts, and it is
\* given the action and the blob of that request (read_req and APIDispatch::dispatch_req
\* or decode_req, then get_action), for every set of services, methods and variants.
THEOREM HandlersSee == ASSUME Carried PROVE Spec => []HandlerSeesRequest
<1>1. ReqInv /\ AskInv /\ [Next]_vars => (ReqInv /\ AskInv)'
  BY ReqStep, AskInvStep, Least, SMTT(20)
<1>2. AskInv => HandlerSeesRequest
  BY DEF AskInv, HandlerSeesRequest, Seen
<1> QED BY <1>1, <1>2, WireInit, AskInit, PTL DEF Spec

\* As long as lengths fit the headers and an encoder that fails leaves nothing behind,
\* every variable keeps its type: whatever calls and answers are made, the fields of
\* every header on the wire are within their width (ReqHead::encode, RespHead::encode),
\* and a buffer's capacity and length stay natural numbers.
THEOREM Typing ==
  ASSUME Carried, Partial \subseteq {0}
  PROVE  Spec => []TypeOK
<1>1. ReqInv /\ AskInv /\ [Next]_vars => (ReqInv /\ AskInv)'
  BY ReqStep, AskInvStep, Least, SMTT(20)
<1>2. RespInv /\ AskInv /\ BlobInv /\ [Next]_vars => BlobInv'
  BY BlobStep DEF AskInv
<1>3. Init => Shaped
  BY DEF Init, Shaped
<1>4. Shaped /\ [Next]_vars => Shaped'
  BY ShapedStep
<1>5. (ReqInv /\ RespInv) /\ AskInv /\ BlobInv /\ Shaped => TypeOK
  BY Typed
<1> QED BY <1>1, <1>2, <1>3, <1>4, <1>5, WireInvariance, WireInit, AskInit, BlobInit, PTL DEF Spec

\* As long as lengths fit the headers and an encoder that fails leaves nothing behind,
\* a blob that is read beyond the length of its buffer is read into a vector that had
\* spare room when the task was made, and nothing else: in every other buffer the client
\* makes room for the whole blob of a response (buffer.rs) before it reads it.
THEOREM BlobsFit ==
  ASSUME Carried, Partial \subseteq {0}
  PROVE  Spec => []FitsUnlessSpare
<1>1. AskInv /\ [Next]_vars /\ RespInv /\ ReqInv => AskInv'
  BY AskInvStep, Least, SMTT(20)
<1>2. RespInv /\ AskInv /\ BlobInv /\ [Next]_vars => BlobInv'
  BY BlobStep DEF AskInv
<1>3. BlobInv => FitsUnlessSpare
  BY DEF BlobInv, FitsUnlessSpare, Overrun, Fit
<1> QED BY <1>1, <1>2, <1>3, WireInvariance, WireInit, AskInit, BlobInit, PTL DEF Spec

\* As long as lengths fit the headers and an encoder that fails leaves nothing behind,
\* every caller whose call is answered learns what the handler of its own request came
\* to, or why no handler ran, whatever requests, pings, timeouts and late responses
\* share the connection; but a negative number reaches it as a decode error, and the
\* text of an error of the framework as that error, as Told says.
THEOREM Faithfulness ==
  ASSUME Carried, Partial \subseteq {0}
  PROVE  Spec => []Faithful
<1>1. ASSUME ReqInv, RespInv, ReplyInv, [Next]_vars PROVE ReplyInv'
  <2>1. layer' = layer
    BY <1>1, AskStep, SMTT(20) DEF ReplyInv, AskInv
  <2>2. Moves
    BY <1>1, <2>1, Least, Moved, SMTT(20) DEF ReplyInv
  <2>3. AskInv' /\ DOMAIN want' = Calls
    BY <1>1, Least, AskInvStep, WantKept, SMTT(20) DEF ReplyInv
  <2>4. Places' /\ Pings' /\ Replies' /\ AllFaithful'
    BY <1>1, <2>1, <2>2, PlacesStep, PingsStep, RepliesStep, FaithfulStep, SMTT(20) DEF ReplyInv
  <2> QED BY <2>3, <2>4, SMTT(20) DEF ReplyInv
<1>2. ReplyInv => Faithful
  BY DEF ReplyInv, AllFaithful, Faithful
<1>3. (ReqInv /\ RespInv) /\ ReplyInv /\ [Next]_vars => ReplyInv'
  BY <1>1
<1> QED BY <1>2, <1>3, WireInvariance, ReplyInit, PTL DEF Spec

================================================================================
