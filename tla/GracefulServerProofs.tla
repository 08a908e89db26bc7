-------------------------- MODULE GracefulServerProofs --------------------------
(***************************************************************************)
(* Safety of a graceful restart for every number of processes and          *)
(* addresses and any set of faults: types, the order of the inherited      *)
(* sockets, that a process leaves only for a successor, that one process   *)
(* is the server and named by the pid file, and that no address is closed  *)
(* in between.                                                             *)
(***************************************************************************)
EXTENDS GracefulServer, TLAPS

\* A step may use this fact and gains nothing from it, but a record update among its
\* facts spares tlapm the inference of types, which takes most of the time otherwise.
LEMMA RecordUpdate == \A r : [r EXCEPT !.field = 1] = [r EXCEPT !.field = 1]
OBVIOUS

USE RecordUpdate

(* What a channel holds, which is modelled as a sequence. *)

LEMMA EmptySeq ==
  ASSUME NEW S
  PROVE  <<>> \in Seq(S) /\ \A s \in Seq(S) : (s = <<>>) <=> (Len(s) = 0)
OBVIOUS

LEMMA SameSeq ==
  ASSUME NEW S, NEW s \in Seq(S), NEW t \in Seq(S), Len(s) = Len(t),
         \A i \in 1 .. Len(s) : s[i] = t[i]
  PROVE  s = t
<1>1. s \in [1 .. Len(s) -> S] /\ t \in [1 .. Len(t) -> S]
  OBVIOUS
<1> QED BY <1>1

\* An empty channel holds nothing, and nothing twice.
LEMMA RangeEmpty == Range(<<>>) = {} /\ IsInjective(<<>>)
BY DEF Range, IsInjective

\* Sending one element into a channel adds it to the channel's contents.
LEMMA RangeAppend ==
  ASSUME NEW S, NEW s \in Seq(S), NEW x \in S
  PROVE  Range(Append(s, x)) = Range(s) \cup {x}
<1>1. /\ Len(Append(s, x)) = Len(s) + 1
      /\ \A i \in 1 .. Len(s) : Append(s, x)[i] = s[i]
      /\ Append(s, x)[Len(s) + 1] = x
  OBVIOUS
<1>2. DOMAIN s = 1 .. Len(s) /\ DOMAIN Append(s, x) = 1 .. Len(s) + 1 /\ Len(s) \in Nat
  OBVIOUS
<1>3. ASSUME NEW y \in Range(Append(s, x)) PROVE y \in Range(s) \cup {x}
  BY <1>1, <1>2 DEF Range
<1>4. ASSUME NEW y \in Range(s) \cup {x} PROVE y \in Range(Append(s, x))
  BY <1>1, <1>2 DEF Range
<1> QED BY <1>3, <1>4

--------------------------------------------------------------------------------

\* A process that is starting has the first of its sockets in the list it would
\* hand on.  If a predecessor started it, the rest is still to be taken and all
\* of them are open in it; otherwise it binds them one by one.
Starting(p) ==
  st[p] = "init" =>
    /\ Len(listen[p]) <= Len(Addrs)
    /\ \A i \in 1 .. Len(listen[p]) : listen[p][i] = Addrs[i]
    /\ recovered[p] = TRUE => /\ Len(listen[p]) + Len(recover[p]) = Len(Addrs)
                              /\ \A i \in 1 .. Len(recover[p]) :
                                   recover[p][i] = Addrs[Len(listen[p]) + i]
                              /\ held[p] = Range(Addrs)
    /\ recovered[p] = FALSE => recover[p] = <<>> /\ held[p] = Range(listen[p])

\* A process past its start, as ListensInOrder has it.
Started(p) ==
  st[p] \in {"sync", "loop", "wait", "exit"} => listen[p] = Addrs /\ held[p] = Range(Addrs)

\* A process in restart() has a successor.
Waiting(p) == st[p] = "wait" => child[p] \in Pids

Inv == TypeOK /\ \A p \in Pids : Starting(p) /\ Started(p) /\ Waiting(p)
--------------------------------------------------------------------------------
LEMMA AddrsType == Addrs \in Seq(Range(Addrs)) /\ Len(Addrs) \in Nat /\ RestartTimeout \in Nat
BY GracefulAssumption

\* What the steps leave alone of a process they are not about.
LEMMA Bystander ==
  ASSUME Inv, NEW r \in Pids, st'[r] = st[r], listen'[r] = listen[r], held'[r] = held[r],
         recover'[r] = recover[r], recovered'[r] = recovered[r], child'[r] = child[r]
  PROVE  (Starting(r) /\ Started(r) /\ Waiting(r))'
<1>1. Starting(r) /\ Started(r) /\ Waiting(r)
  BY DEF Inv
<1>2. Starting(r)'
  BY <1>1, Zenon DEF Starting
<1>3. Started(r)' /\ Waiting(r)'
  BY <1>1 DEF Started, Waiting
<1> QED BY <1>2, <1>3

\* A process that is over has nothing to keep.
LEMMA Over ==
  ASSUME NEW r \in Pids, st'[r] \in {"none", "gone"}
  PROVE  (Starting(r) /\ Started(r) /\ Waiting(r))'
BY Zenon DEF Starting, Started, Waiting

\* The next address is one of the program's.
LEMMA NextAddrType ==
  ASSUME TypeOK, NEW p \in Pids, Len(listen[p]) < Len(Addrs)
  PROVE  /\ Len(listen[p]) \in Nat /\ Len(listen[p]) + 1 \in DOMAIN Addrs
         /\ NextAddr(p) \in Range(Addrs)
<1>1. Len(listen[p]) \in Nat /\ listen[p] \in Seq(Range(Addrs))
  BY DEF TypeOK
<1>2. Len(listen[p]) + 1 \in DOMAIN Addrs
  BY <1>1, AddrsType
<1> QED BY <1>1, <1>2, AddrsType DEF NextAddr, Range

\* new_listener with an inherited socket appends the socket that belongs there.
LEMMA TakeListenerInv ==
  ASSUME Inv, NEW p \in Pids, TakeListener(p)
  PROVE  Inv'
<1> DEFINE S == Range(Addrs)
           l == listen[p]
           r == recover[p]
<1>1. /\ st[p] = "init" /\ Len(l) < Len(Addrs) /\ r # <<>>
      /\ listen' = [listen EXCEPT ![p] = Append(l, Head(r))]
      /\ recover' = [recover EXCEPT ![p] = Tail(r)]
      /\ UNCHANGED <<st, recovered, held, child, waited, pend, pid_file, sync_files, faults,
                     crashes, signals, announced, misled, excused>>
  BY DEF TakeListener, Inherit, env
<1>2. l \in Seq(S) /\ r \in Seq(S) /\ listen \in [Pids -> Seq(S)] /\ recover \in [Pids -> Seq(S)]
  BY DEF Inv, TypeOK
<1>3. /\ Head(r) = r[1] /\ Head(r) \in S /\ Tail(r) \in Seq(S) /\ Len(Tail(r)) = Len(r) - 1
      /\ Len(r) \in Nat /\ Len(r) > 0 /\ \A i \in 1 .. Len(r) - 1 : Tail(r)[i] = r[i + 1]
  BY <1>1, <1>2
<1>4. /\ Append(l, Head(r)) \in Seq(S) /\ Len(Append(l, Head(r))) = Len(l) + 1 /\ Len(l) \in Nat
      /\ \A i \in 1 .. Len(l) : Append(l, Head(r))[i] = l[i]
      /\ Append(l, Head(r))[Len(l) + 1] = Head(r)
  BY <1>2, <1>3
<1>5. listen'[p] = Append(l, Head(r)) /\ recover'[p] = Tail(r)
  BY <1>1, <1>2
<1>6. TypeOK'
  BY <1>1, <1>2, <1>3, <1>4, SMTT(20) DEF Inv, TypeOK
<1>7. recovered[p] = TRUE
  BY <1>1 DEF Inv, Starting, TypeOK
<1>8. /\ Len(l) + Len(r) = Len(Addrs) /\ held[p] = S
      /\ \A i \in 1 .. Len(l) : l[i] = Addrs[i]
      /\ \A i \in 1 .. Len(r) : r[i] = Addrs[Len(l) + i]
  BY <1>1, <1>7, Zenon DEF Inv, Starting
<1>9. /\ Len(listen'[p]) <= Len(Addrs)
      /\ Len(listen'[p]) + Len(recover'[p]) = Len(Addrs)
      /\ \A i \in 1 .. Len(listen'[p]) : listen'[p][i] = Addrs[i]
      /\ \A i \in 1 .. Len(recover'[p]) : recover'[p][i] = Addrs[Len(listen'[p]) + i]
  <2> HIDE DEF l, r
  <2>1. r[1] = Addrs[Len(l) + 1]
    <3>1. 1 \in 1 .. Len(r)
      BY <1>3
    <3> QED BY <1>8, <3>1
  <2>2. ASSUME NEW i \in 1 .. Len(r) - 1 PROVE r[i + 1] = Addrs[Len(l) + 1 + i]
    <3>1. i + 1 \in 1 .. Len(r) /\ Len(l) + (i + 1) = Len(l) + 1 + i
      BY <1>3, <1>4
    <3> QED BY <1>8, <3>1
  <2> QED BY <1>3, <1>4, <1>5, <1>8, <2>1, <2>2, AddrsType
<1>10. Starting(p)'
  BY <1>1, <1>7, <1>8, <1>9, Zenon DEF Starting
<1>11. Started(p)' /\ Waiting(p)'
  BY <1>1 DEF Started, Waiting
<1>12. \A u \in Pids \ {p} : (Starting(u) /\ Started(u) /\ Waiting(u))'
  BY <1>1, <1>2, Bystander
<1> QED BY <1>6, <1>10, <1>11, <1>12 DEF Inv

\* The end of a process disturbs no other one.
LEMMA EndInv ==
  ASSUME Inv, NEW p \in Pids, End(p), TypeOK',
         UNCHANGED <<listen, recovered>>,
         \A u \in Pids \ {p} : recover'[u] = recover[u] /\ child'[u] = child[u]
  PROVE  Inv'
<1>1. st'[p] = "gone" /\ \A u \in Pids \ {p} : st'[u] = st[u] /\ held'[u] = held[u]
  BY DEF End, Inv, TypeOK
<1>2. (Starting(p) /\ Started(p) /\ Waiting(p))'
  BY <1>1, Over
<1>3. \A u \in Pids \ {p} : (Starting(u) /\ Started(u) /\ Waiting(u))'
  BY <1>1, Bystander
<1> QED BY <1>2, <1>3 DEF Inv

\* new_listener with a bind: either the address is taken and the program ends, or
\* the socket is the next one of a program that inherited none.
LEMMA BindListenerInv ==
  ASSUME Inv, NEW p \in Pids, BindListener(p)
  PROVE  Inv'
<1> DEFINE S == Range(Addrs)
           l == listen[p]
<1>1. /\ st[p] = "init" /\ Len(l) < Len(Addrs)
      /\ UNCHANGED <<recovered, child, waited, pend, pid_file, sync_files, crashes, signals,
                     announced, misled, excused>>
  BY DEF BindListener
<1>2. /\ recover' \in [Pids -> Seq(S)] /\ faults' \in 0 .. MaxFaults
      /\ \A u \in Pids \ {p} : recover'[u] = recover[u]
      /\ recover[p] = <<>> => recover' = recover
  <2>1. recover \in [Pids -> Seq(S)] /\ faults \in 0 .. MaxFaults /\ MaxFaults \in Nat
    BY GracefulAssumption DEF Inv, TypeOK
  <2>2. CASE recover[p] = <<>>
    BY <2>1, <2>2 DEF BindListener
  <2>3. CASE recover[p] # <<>>
    <3>1. recover' = [recover EXCEPT ![p] = Tail(recover[p])] /\ Fault("convert")
      BY <2>3 DEF BindListener, Inherit
    <3>2. Tail(recover[p]) \in Seq(S)
      BY <2>1, <2>3
    <3> QED BY <2>1, <2>3, <3>1, <3>2 DEF Fault
  <2> QED BY <2>2, <2>3
<1>3. CASE \E q \in Pids : NextAddr(p) \in held[q]
  <2>1. End(p) /\ UNCHANGED listen
    BY <1>3 DEF BindListener
  <2>2. TypeOK'
    BY <1>1, <1>2, <2>1, SMTT(20) DEF Inv, TypeOK, End, Places
  <2> QED BY <1>1, <1>2, <2>1, <2>2, EndInv
<1>4. CASE ~\E q \in Pids : NextAddr(p) \in held[q]
  <2>1. /\ listen' = [listen EXCEPT ![p] = Append(l, NextAddr(p))]
        /\ held' = [held EXCEPT ![p] = held[p] \cup {NextAddr(p)}]
        /\ UNCHANGED st
    BY <1>4 DEF BindListener
  <2>2. l \in Seq(S) /\ listen \in [Pids -> Seq(S)] /\ held \in [Pids -> SUBSET S]
    BY DEF Inv, TypeOK
  <2>3. Len(l) \in Nat /\ NextAddr(p) \in S
    BY <1>1, NextAddrType DEF Inv
  <2>4. /\ Append(l, NextAddr(p)) \in Seq(S) /\ Len(Append(l, NextAddr(p))) = Len(l) + 1
        /\ \A i \in 1 .. Len(l) : Append(l, NextAddr(p))[i] = l[i]
        /\ Append(l, NextAddr(p))[Len(l) + 1] = NextAddr(p)
        /\ Range(Append(l, NextAddr(p))) = Range(l) \cup {NextAddr(p)}
    BY <2>2, <2>3, RangeAppend
  <2>5. TypeOK'
    BY <1>1, <1>2, <2>1, <2>2, <2>3, <2>4, ZenonT(30) DEF Inv, TypeOK
  <2>6. recovered[p] = FALSE
    <3>1. NextAddr(p) \notin held[p]
      BY <1>4
    <3>2. recovered[p] \in BOOLEAN
      BY DEF Inv, TypeOK
    <3>3. recovered[p] = TRUE => held[p] = S
      BY <1>1, Zenon DEF Inv, Starting
    <3> QED BY <2>3, <3>1, <3>2, <3>3
  <2>7. /\ recover[p] = <<>> /\ held[p] = Range(l)
        /\ \A i \in 1 .. Len(l) : l[i] = Addrs[i]
    BY <1>1, <2>6, Zenon DEF Inv, Starting
  <2>8. /\ listen'[p] = Append(l, NextAddr(p)) /\ held'[p] = held[p] \cup {NextAddr(p)}
        /\ recover'[p] = <<>>
    BY <1>2, <2>1, <2>2, <2>7
  <2>9. Starting(p)'
    <3>1. /\ Len(listen'[p]) <= Len(Addrs)
          /\ \A i \in 1 .. Len(listen'[p]) : listen'[p][i] = Addrs[i]
      BY <1>1, <2>3, <2>4, <2>7, <2>8, AddrsType DEF NextAddr
    <3>2. recovered'[p] = FALSE /\ held'[p] = Range(listen'[p])
      BY <1>1, <2>4, <2>6, <2>7, <2>8
    <3> QED BY <2>8, <3>1, <3>2 DEF Starting
  <2>10. Started(p)' /\ Waiting(p)'
    BY <1>1, <2>1 DEF Started, Waiting
  <2>11. \A u \in Pids \ {p} : (Starting(u) /\ Started(u) /\ Waiting(u))'
    BY <1>1, <1>2, <2>1, <2>2, Bystander
  <2> QED BY <2>5, <2>9, <2>10, <2>11 DEF Inv
<1> QED BY <1>3, <1>4

\* ready: a process gets there with every socket in its place.
LEMMA WritePidFileInv ==
  ASSUME Inv, NEW p \in Pids, WritePidFile(p)
  PROVE  Inv'
<1>1. /\ st[p] = "init" /\ Len(listen[p]) = Len(Addrs)
      /\ UNCHANGED <<recovered, recover, listen, child, waited, pend, sync_files, crashes, signals,
                     misled>>
  BY DEF WritePidFile
<1>2. CASE End(p)
  <2>1. TypeOK'
    <3>1. /\ st' \in [Pids -> Places] /\ held' \in [Pids -> SUBSET Range(Addrs)]
      BY <1>2, SMTT(20) DEF End, Inv, TypeOK, Places
    <3>2. faults \in 0 .. MaxFaults /\ MaxFaults \in Nat /\ pid_file \in Pids \cup {NoPid}
      BY GracefulAssumption DEF Inv, TypeOK
    <3>4. faults' = faults \/ (faults < MaxFaults /\ faults' = faults + 1)
      BY DEF WritePidFile, Fault
    <3>5. faults' \in 0 .. MaxFaults
      BY <3>2, <3>4
    <3>6. pid_file' \in {pid_file, NoPid, p}
      BY DEF WritePidFile, write_pid_file
    <3>7. excused' = excused \/ excused' = excused \cup {"torn"}
      BY DEF WritePidFile
    <3>8. excused' \subseteq {"closed", "crash", "late", "outrun", "torn", "two"}
      BY <3>7 DEF Inv, TypeOK
    <3>3. announced' \in [Pids -> BOOLEAN]
      BY Zenon DEF WritePidFile, Inv, TypeOK
    <3> QED BY <1>1, <3>1, <3>2, <3>3, <3>5, <3>6, <3>8, SMTT(20) DEF Inv, TypeOK
  <2> QED BY <1>1, <1>2, <2>1, EndInv
<1>3. CASE ~End(p)
  <2>1. /\ st' = [st EXCEPT ![p] = IF recovered[p] THEN "sync" ELSE "loop"]
        /\ pid_file' = p /\ announced' = [announced EXCEPT ![p] = TRUE]
        /\ UNCHANGED <<held, faults, excused>>
    BY <1>3 DEF WritePidFile, write_pid_file
  <2>2. TypeOK'
    BY <1>1, <2>1 DEF Inv, TypeOK, Places
  <2>3. st'[p] \in {"sync", "loop"} /\ \A u \in Pids \ {p} : st'[u] = st[u]
    BY <2>1 DEF Inv, TypeOK
  <2>4. listen[p] = Addrs
    <3>1. listen[p] \in Seq(Range(Addrs)) /\ \A i \in 1 .. Len(listen[p]) : listen[p][i] = Addrs[i]
      BY <1>1 DEF Inv, TypeOK, Starting
    <3> QED BY <1>1, <3>1, AddrsType, SameSeq
  <2>5. held[p] = Range(Addrs)
    <3>1. recovered[p] \in BOOLEAN
      BY DEF Inv, TypeOK
    <3> QED BY <1>1, <2>4, <3>1, Zenon DEF Inv, Starting
  <2>6. (Starting(p) /\ Started(p) /\ Waiting(p))'
    BY <1>1, <2>1, <2>3, <2>4, <2>5 DEF Starting, Started, Waiting
  <2>7. \A u \in Pids \ {p} : (Starting(u) /\ Started(u) /\ Waiting(u))'
    BY <1>1, <2>1, <2>3, Bystander
  <2> QED BY <2>2, <2>6, <2>7 DEF Inv
<1> QED BY <1>2, <1>3

\* Steps by which a process with all its sockets goes on, and keeps them.
LEMMA GoOnInv ==
  ASSUME Inv, NEW p \in Pids, TypeOK', st[p] \in {"sync", "loop", "wait"},
         NEW x \in {"loop", "wait", "exit"}, st' = [st EXCEPT ![p] = x], x = "wait" => st[p] = "wait",
         UNCHANGED <<listen, held, recover, recovered>>,
         x = "wait" => child'[p] = child[p],
         \A u \in Pids \ {p} : child'[u] = child[u]
  PROVE  Inv'
<1>1. st'[p] = x /\ \A u \in Pids \ {p} : st'[u] = st[u]
  BY DEF Inv, TypeOK
<1>2. (Starting(p) /\ Started(p) /\ Waiting(p))'
  BY <1>1, Zenon DEF Inv, Starting, Started, Waiting
<1>3. \A u \in Pids \ {p} : (Starting(u) /\ Started(u) /\ Waiting(u))'
  BY <1>1, Bystander
<1> QED BY <1>2, <1>3 DEF Inv

\* restart: a successor starts with the list and the open sockets of its predecessor.
LEMMA SpawnInv ==
  ASSUME Inv, NEW p \in Pids, Spawn(p)
  PROVE  Inv'
<1>1. /\ st[p] = "loop" /\ UNCHANGED <<pid_file, sync_files, crashes, signals, excused>>
  BY DEF Spawn
<1>2. CASE Fault("spawn") /\ UNCHANGED <<st, recovered, recover, listen, held, child, waited, announced, misled>>
           /\ pend' = [pend EXCEPT ![p] = pend[p] \ {"restart"}]
  <2> HIDE RecordUpdate
  <2>1. faults' \in 0 .. MaxFaults
    BY <1>2, GracefulAssumption DEF Fault, Inv, TypeOK
  <2> USE RecordUpdate
  <2>2. TypeOK'
    BY <1>1, <1>2, <2>1 DEF Inv, TypeOK
  <2>3. \A u \in Pids : (Starting(u) /\ Started(u) /\ Waiting(u))'
    BY <1>2, Bystander
  <2> QED BY <2>2, <2>3 DEF Inv
<1>3. ASSUME NEW q \in Pids, q # p,
             pend' = [pend EXCEPT ![p] = pend[p] \ {"restart"}, ![q] = {}],
             st' = [st EXCEPT ![p] = "wait", ![q] = "init"],
             child' = [child EXCEPT ![p] = q, ![q] = NoPid],
             waited' = [waited EXCEPT ![p] = 0],
             recovered' = [recovered EXCEPT ![q] = TRUE],
             recover' = [recover EXCEPT ![q] = listen[p]],
             listen' = [listen EXCEPT ![q] = <<>>],
             held' = [held EXCEPT ![q] = Range(listen[p])],
             announced' = [announced EXCEPT ![q] = FALSE],
             misled' = misled \ {q},
             UNCHANGED faults
      PROVE  Inv'
  <2> DEFINE S == Range(Addrs)
  <2>1. listen[p] = Addrs /\ held[p] = S
    BY <1>1 DEF Inv, Started
  <2>2. /\ st \in [Pids -> Places] /\ child \in [Pids -> Pids \cup {NoPid}]
        /\ listen \in [Pids -> Seq(S)] /\ recover \in [Pids -> Seq(S)]
        /\ held \in [Pids -> SUBSET S] /\ recovered \in [Pids -> BOOLEAN]
    BY SMTT(20) DEF Inv, TypeOK
  <2>3. /\ st'[p] = "wait" /\ st'[q] = "init" /\ child'[p] = q /\ recovered'[q] = TRUE
        /\ recover'[q] = Addrs /\ listen'[q] = <<>> /\ held'[q] = S
        /\ listen'[p] = Addrs /\ held'[p] = S
    BY <1>3, <2>1, <2>2
  <2>4. TypeOK'
    <3>1. st' \in [Pids -> Places] /\ child' \in [Pids -> Pids \cup {NoPid}]
      BY <1>3, <2>2, Zenon DEF Places
    <3>4. waited' \in [Pids -> 0 .. (RestartTimeout + 1)]
      <4>1. waited \in [Pids -> 0 .. (RestartTimeout + 1)] /\ 0 \in 0 .. (RestartTimeout + 1)
        BY AddrsType, SMTT(60) DEF Inv, TypeOK
      <4> QED BY <1>3, <4>1
    <3>5. pend' \in [Pids -> SUBSET {"close", "restart"}]
      <4>1. pend \in [Pids -> SUBSET {"close", "restart"}]
        BY DEF Inv, TypeOK
      <4> QED BY <1>3, <4>1
    <3>2. recovered' \in [Pids -> BOOLEAN] /\ announced' \in [Pids -> BOOLEAN]
      BY <1>3, SMTT(20) DEF Inv, TypeOK
    <3>3. /\ recover' \in [Pids -> Seq(S)] /\ listen' \in [Pids -> Seq(S)]
          /\ held' \in [Pids -> SUBSET S]
      BY <1>3, <2>1, <2>2, AddrsType
    <3>6. misled' \subseteq Pids
      BY <1>3 DEF Inv, TypeOK
    <3> QED BY <1>1, <1>3, <3>1, <3>2, <3>3, <3>4, <3>5, <3>6, Zenon DEF Inv, TypeOK
  <2>5. (Starting(p) /\ Started(p) /\ Waiting(p))'
    BY <2>3 DEF Starting, Started, Waiting
  <2>6. (Starting(q) /\ Started(q) /\ Waiting(q))'
    <3>1. Len(<<>>) = 0 /\ \A i \in 1 .. Len(Addrs) : 0 + i = i
      BY AddrsType
    <3>2. Starting(q)'
      BY <2>3, <3>1, AddrsType DEF Starting
    <3> QED BY <2>3, <3>2 DEF Started, Waiting
  <2>7. \A u \in Pids \ {p, q} : (Starting(u) /\ Started(u) /\ Waiting(u))'
    <3>1. \A u \in Pids \ {p, q} :
            /\ st'[u] = st[u] /\ listen'[u] = listen[u] /\ held'[u] = held[u]
            /\ recover'[u] = recover[u] /\ recovered'[u] = recovered[u] /\ child'[u] = child[u]
      BY <1>3, <2>2, Zenon
    <3> QED BY <3>1, Bystander
  <2> QED BY <2>4, <2>5, <2>6, <2>7 DEF Inv
<1> QED BY <1>2, <1>3 DEF Spawn

\* The processes that go on, poll for their successor, or leave.
LEMMA LoopInv ==
  ASSUME Inv, NEW p \in Pids,
         WriteSyncFile(p) \/ Close(p) \/ Found(p) \/ Sleep(p) \/ TimeUp(p)
  PROVE  Inv'
<1>f. faults \in 0 .. MaxFaults /\ MaxFaults \in Nat /\ st \in [Pids -> Places]
  BY GracefulAssumption DEF Inv, TypeOK
<1>1. CASE WriteSyncFile(p)
  <2>1. faults' \in 0 .. MaxFaults /\ sync_files' \subseteq Pids
    <3>1. /\ faults' = faults \/ (faults < MaxFaults /\ faults' = faults + 1)
          /\ sync_files' = sync_files \/ sync_files' = sync_files \cup {p}
      BY <1>1, Zenon DEF WriteSyncFile, Fault
    <3>2. faults' \in 0 .. MaxFaults
      BY <3>1, <1>f
    <3>3. sync_files' \subseteq Pids
      BY <3>1 DEF Inv, TypeOK
    <3> QED BY <3>2, <3>3
  <2>2. TypeOK'
    BY <1>1, <2>1 DEF WriteSyncFile, Inv, TypeOK, Places
  <2> QED BY <1>1, <2>2, GoOnInv, Zenon DEF WriteSyncFile
<1>2. CASE Close(p)
  <2>1. TypeOK'
    BY <1>2 DEF Close, env, Inv, TypeOK, Places
  <2> QED BY <1>2, <2>1, GoOnInv, Zenon DEF Close
<1>3. CASE Found(p)
  <2>1. faults' \in 0 .. MaxFaults /\ sync_files' \subseteq Pids
    <3>1. /\ faults' = faults \/ (faults < MaxFaults /\ faults' = faults + 1)
          /\ sync_files' = sync_files \/ sync_files' = sync_files \ {child[p]}
      BY <1>3, Zenon DEF Found, Fault
    <3>2. faults' \in 0 .. MaxFaults
      BY <3>1, <1>f
    <3>3. sync_files' \subseteq Pids
      BY <3>1 DEF Inv, TypeOK
    <3> QED BY <3>2, <3>3
  <2>2. TypeOK'
    BY <1>3, <2>1, SMTT(20) DEF Found, Inv, TypeOK, Places
  <2> QED BY <1>3, <2>2, GoOnInv, Zenon DEF Found
<1>4. CASE Sleep(p)
  <2>1. waited' = [waited EXCEPT ![p] = waited[p] + 1] /\ waited[p] <= RestartTimeout
    BY <1>4 DEF Sleep, Round, InTime
  <2>2. waited' \in [Pids -> 0 .. (RestartTimeout + 1)]
    BY <2>1, AddrsType, SMTT(20) DEF Inv, TypeOK
  <2>3. TypeOK'
    BY <1>4, <2>2, SMTT(20) DEF Sleep, env, Inv, TypeOK
  <2>4. \A u \in Pids : (Starting(u) /\ Started(u) /\ Waiting(u))'
    BY <1>4, Bystander DEF Sleep
  <2> QED BY <2>3, <2>4 DEF Inv
<1>5. CASE TimeUp(p)
  <2>1. /\ st[p] = "wait"
        /\ UNCHANGED <<recovered, recover, listen, held, waited, pend, pid_file, sync_files,
                       crashes, signals, announced>>
    BY <1>5 DEF TimeUp
  <2>2. PICK x \in {"loop", "exit"} : st' = [st EXCEPT ![p] = x]
    BY <1>5 DEF TimeUp, AfterTimeout
  <2>3. /\ child' \in [Pids -> Pids \cup {NoPid}]
        /\ \A u \in Pids \ {p} : child'[u] = child[u]
    BY <1>5, Zenon DEF TimeUp, Inv, TypeOK
  <2>4. faults' \in 0 .. MaxFaults
    BY <1>5, <1>f DEF TimeUp, Fault
  <2>5. excused' \subseteq {"closed", "crash", "late", "outrun", "torn", "two"}
    BY <1>5 DEF TimeUp, Inv, TypeOK
  <2>7. misled' \subseteq Pids
    BY <1>5 DEF TimeUp, Inv, TypeOK
  <2>6. TypeOK'
    BY <2>1, <2>2, <2>3, <2>4, <2>5, <2>7, Zenon DEF Inv, TypeOK, Places
  <2> QED BY <2>1, <2>2, <2>3, <2>6, GoOnInv, Zenon
<1> QED BY <1>1, <1>2, <1>3, <1>4, <1>5

\* The processes that leave or die, and the signals.
LEMMA LeaveInv ==
  ASSUME Inv, NEW p \in Pids,
         Exit(p) \/ Crash(p) \/ \E s \in {"close", "restart"} : Signal(p, s)
  PROVE  Inv'
<1>1. CASE Exit(p)
  <2>1. TypeOK'
    BY <1>1, SMTT(20) DEF Exit, End, env, Inv, TypeOK, Places
  <2>2. \A u \in Pids \ {p} : child'[u] = child[u]
    BY <1>1 DEF Exit, Inv, TypeOK
  <2> QED BY <1>1, <2>1, <2>2, EndInv DEF Exit
<1>2. CASE Crash(p)
  <2> HIDE RecordUpdate
  <2>1. crashes' \in 0 .. MaxCrashes
    BY <1>2, GracefulAssumption DEF Crash, Inv, TypeOK
  <2> USE RecordUpdate
  <2>2. excused' \subseteq {"closed", "crash", "late", "outrun", "torn", "two"}
    <3>1. excused' = excused \/ excused' = excused \cup {"crash"}
      BY <1>2 DEF Crash
    <3> QED BY <3>1 DEF Inv, TypeOK
  <2>3. TypeOK'
    BY <1>2, <2>1, <2>2, SMTT(20) DEF Crash, End, Inv, TypeOK, Places
  <2>4. \A u \in Pids \ {p} : child'[u] = child[u]
    BY <1>2 DEF Crash, Inv, TypeOK
  <2> QED BY <1>2, <2>3, <2>4, EndInv DEF Crash
<1>3. ASSUME NEW s \in {"close", "restart"}, Signal(p, s) PROVE Inv'
  <2> HIDE RecordUpdate
  <2>1. signals' \in 0 .. MaxSignals
    BY <1>3, GracefulAssumption DEF Signal, Inv, TypeOK
  <2> USE RecordUpdate
  <2>2. TypeOK'
    BY <1>3, <2>1, SMTT(20) DEF Signal, Inv, TypeOK
  <2>3. \A u \in Pids : (Starting(u) /\ Started(u) /\ Waiting(u))'
    BY <1>3, Bystander DEF Signal
  <2> QED BY <2>2, <2>3 DEF Inv
<1> QED BY <1>1, <1>2, <1>3

LEMMA InitInv == Init => Inv
<1> SUFFICES ASSUME Init PROVE Inv
  OBVIOUS
<1> USE DEF Init
<1>1. st \in [Pids -> Places] /\ child \in [Pids -> Pids \cup {NoPid}]
  BY DEF Places
<1>2. recovered \in [Pids -> BOOLEAN] /\ announced \in [Pids -> BOOLEAN]
  OBVIOUS
<1>3. /\ recover \in [Pids -> Seq(Range(Addrs))] /\ listen \in [Pids -> Seq(Range(Addrs))]
      /\ held \in [Pids -> SUBSET Range(Addrs)]
  BY EmptySeq
<1>4. /\ waited \in [Pids -> 0 .. (RestartTimeout + 1)]
      /\ pend \in [Pids -> SUBSET {"close", "restart"}]
  BY AddrsType
<1>5. faults \in 0 .. MaxFaults /\ crashes \in 0 .. MaxCrashes /\ signals \in 0 .. MaxSignals
  BY GracefulAssumption
<1>6. TypeOK
  BY <1>1, <1>2, <1>3, <1>4, <1>5 DEF TypeOK
<1>7. \A p \in Pids : Starting(p)
  <2> SUFFICES ASSUME NEW p \in Pids PROVE Starting(p)
    OBVIOUS
  <2>1. listen[p] = <<>> /\ recover[p] = <<>> /\ held[p] = {} /\ recovered[p] = FALSE
    OBVIOUS
  <2>2. Len(<<>>) = 0 /\ Range(<<>>) = {} /\ Len(Addrs) >= 0
    BY RangeEmpty, AddrsType
  <2> QED BY <2>1, <2>2 DEF Starting
<1>8. \A p \in Pids : Started(p) /\ Waiting(p)
  BY DEF Started, Waiting
<1> QED BY <1>6, <1>7, <1>8 DEF Inv

\* Every step of every process keeps the invariant.
LEMMA NextInv ==
  ASSUME Inv, [Next]_vars
  PROVE  Inv'
<1>1. CASE UNCHANGED vars
  <2>1. TypeOK'
    BY <1>1 DEF vars, Inv, TypeOK
  <2>2. \A u \in Pids : (Starting(u) /\ Started(u) /\ Waiting(u))'
    BY <1>1, Bystander DEF vars
  <2> QED BY <2>1, <2>2 DEF Inv
<1>2. ASSUME NEW p \in Pids,
             \/ TakeListener(p) \/ BindListener(p) \/ WritePidFile(p)
             \/ WriteSyncFile(p) \/ Close(p) \/ Spawn(p) \/ Found(p) \/ Sleep(p)
             \/ TimeUp(p) \/ Exit(p) \/ Crash(p)
             \/ \E s \in {"close", "restart"} : Signal(p, s)
      PROVE  Inv'
  BY <1>2, TakeListenerInv, BindListenerInv, WritePidFileInv, SpawnInv, LoopInv, LeaveInv
<1> QED BY <1>1, <1>2 DEF Next, Idle

\* The inductive invariant holds in every reachable state.
THEOREM Invariance == Spec => []Inv
<1>1. Inv /\ [Next]_vars => Inv'
  BY NextInv
<1> QED BY <1>1, InitInv, PTL DEF Spec

\* Processes, files and sockets keep their types, and restart() polls no longer
\* than restart_timeout.
THEOREM Typing == Spec => []TypeOK
<1>1. Inv => TypeOK
  BY DEF Inv
<1> QED BY <1>1, Invariance, PTL

\* A process past its start has every socket at its place in the list it hands
\* on, whatever failed in the starts before it, so that a successor that calls
\* new_listener in the same order gets the socket of the address it asks for.
THEOREM InheritedOrder == Spec => []ListensInOrder
<1>1. Inv => ListensInOrder
  BY DEF Inv, Started, ListensInOrder
<1> QED BY <1>1, Invariance, PTL
--------------------------------------------------------------------------------
\* A file named after a pid was written by the process that has the pid: as long
\* as no pid is given out twice, a file is no older than the process.
Announcing ==
  /\ \A p \in Pids : /\ st[p] = "none" => announced[p] = FALSE
                     /\ st[p] = "sync" => announced[p] = TRUE
  /\ \A p \in sync_files : announced[p] = TRUE

LEMMA AnnouncingStep ==
  ASSUME Reuse = FALSE, Inv, Announcing, [Next]_vars
  PROVE  Announcing'
<1>t. /\ st \in [Pids -> Places] /\ announced \in [Pids -> BOOLEAN] /\ sync_files \subseteq Pids
  BY DEF Inv, TypeOK
<1>1. CASE UNCHANGED vars
  BY <1>1 DEF vars, Announcing
<1>2. ASSUME NEW p \in Pids,
             \/ TakeListener(p) \/ Sleep(p) \/ \E s \in {"close", "restart"} : Signal(p, s)
      PROVE  Announcing'
  <2>1. UNCHANGED <<st, announced, sync_files>>
    BY <1>2 DEF TakeListener, Sleep, Signal
  <2> QED BY <2>1 DEF Announcing
<1>3. ASSUME NEW p \in Pids,
             BindListener(p) \/ Close(p) \/ Found(p) \/ TimeUp(p) \/ Exit(p) \/ Crash(p)
      PROVE  Announcing'
  <2>1. UNCHANGED announced /\ sync_files' \subseteq sync_files
    BY <1>3 DEF BindListener, Close, Found, TimeUp, Exit, Crash
  <2>2. \A u \in Pids : st'[u] = st[u] \/ st'[u] \in {"loop", "exit", "gone"}
    BY <1>t, <1>3 DEF BindListener, Close, Found, TimeUp, Exit, Crash, End, AfterTimeout
  <2> QED BY <2>1, <2>2 DEF Announcing
<1>4. ASSUME NEW p \in Pids, WritePidFile(p) PROVE Announcing'
  <2>1. /\ st[p] = "init" /\ UNCHANGED sync_files
        /\ \/ st'[p] = "gone" /\ UNCHANGED announced
           \/ st'[p] \in {"sync", "loop"} /\ announced' = [announced EXCEPT ![p] = TRUE]
        /\ \A u \in Pids \ {p} : st'[u] = st[u]
    BY <1>t, <1>4 DEF WritePidFile, End
  <2> QED BY <1>t, <2>1 DEF Announcing
<1>5. ASSUME NEW p \in Pids, WriteSyncFile(p) PROVE Announcing'
  <2>1. /\ st[p] = "sync" /\ UNCHANGED announced /\ sync_files' \subseteq sync_files \cup {p}
        /\ st'[p] = "loop" /\ \A u \in Pids \ {p} : st'[u] = st[u]
    BY <1>t, <1>5 DEF WriteSyncFile
  <2> QED BY <2>1 DEF Announcing
<1>6. ASSUME NEW p \in Pids, Spawn(p) PROVE Announcing'
  <2>1. CASE UNCHANGED <<st, announced>>
    BY <1>6, <2>1 DEF Spawn, Announcing
  <2>2. ASSUME NEW q \in Pids, Unused(q), q # p,
               st' = [st EXCEPT ![p] = "wait", ![q] = "init"],
               announced' = [announced EXCEPT ![q] = FALSE]
        PROVE  Announcing'
    <3>1. st[q] = "none" /\ announced[q] = FALSE
      BY <2>2 DEF Unused, Announcing
    <3>2. announced' = announced /\ UNCHANGED sync_files
      BY <1>t, <1>6, <2>2, <3>1 DEF Spawn
    <3>3. \A u \in Pids : st'[u] = st[u] \/ st'[u] \in {"wait", "init"}
      BY <1>t, <2>2
    <3> QED BY <3>2, <3>3 DEF Announcing
  <2> QED BY <1>6, <2>1, <2>2 DEF Spawn
<1> QED BY <1>1, <1>2, <1>3, <1>4, <1>5, <1>6 DEF Next, Idle

\* As long as no pid is given out twice, a process that ends its restart() and
\* leaves has a successor that is alive or was ready.
THEOREM Handover == ASSUME Reuse = FALSE PROVE Spec => ChildTookOver
<1> DEFINE TookOver == \A p \in Pids : st[p] = "wait" /\ st'[p] = "exit" =>
                         Alive(child[p]) \/ announced[child[p]]
<1>1. Init => Announcing
  BY DEF Init, Announcing
<1>2. Inv /\ Announcing /\ [Next]_vars => Announcing'
  BY AnnouncingStep, Zenon
<1>3. ASSUME Inv, Announcing, [Next]_vars PROVE [TookOver]_vars
  <2> SUFFICES ASSUME NEW p \in Pids, st[p] = "wait", st'[p] = "exit"
               PROVE  Alive(child[p]) \/ announced[child[p]]
    OBVIOUS
  <2>1. st \in [Pids -> Places]
    BY <1>3, SMTT(20) DEF Inv, TypeOK
  <2>2. Found(p) \/ TimeUp(p)
    <3>1. PICK u \in Pids :
             \/ TakeListener(u) \/ BindListener(u) \/ WritePidFile(u)
             \/ WriteSyncFile(u) \/ Close(u) \/ Spawn(u) \/ Found(u) \/ Sleep(u)
             \/ TimeUp(u) \/ Exit(u) \/ Crash(u)
             \/ \E s \in {"close", "restart"} : Signal(u, s)
      BY <1>3, SMTT(20) DEF Next, Idle, vars
    <3>2. u = p \/ Spawn(u)
      BY <2>1, <3>1 DEF TakeListener, BindListener, WritePidFile, WriteSyncFile, Close, Found,
         Sleep, TimeUp, Exit, Crash, Signal, End
    <3>3. ~Spawn(u)
      BY <2>1 DEF Spawn
    <3>4. u = p
      BY <3>2, <3>3
    <3> QED BY <2>1, <3>1, <3>4 DEF TakeListener, BindListener, WritePidFile, WriteSyncFile,
            Close, Spawn, Sleep, Exit, Crash, Signal, End
  <2>3. CASE Found(p)
    BY <1>3, <2>3 DEF Found, Announcing
  <2>4. CASE TimeUp(p)
    <3>1. AfterTimeout(p) = "exit"
      BY <2>1, <2>4 DEF TimeUp
    <3> QED BY <3>1 DEF AfterTimeout
  <2> QED BY <2>2, <2>3, <2>4
<1> QED BY <1>1, <1>2, <1>3, Invariance, PTL DEF Spec, ChildTookOver
--------------------------------------------------------------------------------
(* One server, one pid file, and the addresses kept.  What matters of a process   *)
(* for these is whether it takes signals or is about to (Young), and whether it   *)
(* waits for a successor that has not announced itself yet (Undecided).           *)

Young(p) == st[p] \in {"init", "sync", "loop"}
Undecided(p) == st[p] = "wait" /\ announced[child[p]] = FALSE
Tip(p) == st[p] \in {"sync", "loop"} \/ Undecided(p)

\* A process that is there is announced once it is ready; a pid not yet given out is
\* nobody's successor.
Known ==
  \A p \in Pids : /\ (st[p] = "none" => \A r \in Pids : child[r] # p)
                  /\ (st[p] \in {"sync", "loop", "wait"} => announced[p] = TRUE)
                  /\ (st[p] \in {"none", "init"} => announced[p] = FALSE)

\* One process is the server or becomes it.  While a predecessor is undecided that is
\* its successor, and there is one such predecessor.
OneLine ==
  /\ \A p, q \in Pids : Young(p) /\ Young(q) => p = q
  /\ \A p, q \in Pids : Undecided(p) /\ Young(q) => q = child[p]
  /\ \A p, q \in Pids : Undecided(p) /\ Undecided(q) => p = q

Lineage == excused \cap {"two", "outrun"} = {} => OneLine

\* The pid file names the process that would go on if its successor failed, or a
\* successor of that process that is dead.
Named == excused \cap {"two", "outrun", "torn"} = {} =>
           \A p \in Pids : Tip(p) => pid_file = p \/ p \in misled

\* There is such a process.
Kept ==
  (\E p \in Pids : announced[p] = TRUE) /\ excused \cap {"closed", "crash", "late"} = {} =>
    \E p \in Pids : Tip(p)

\* The steps, as far as these invariants are concerned.
Quiet == UNCHANGED <<st, child, announced, misled, pid_file, excused>>

Leaves(p) ==
  /\ \E x \in {"exit", "gone"} : st' = [st EXCEPT ![p] = x]
  /\ announced' = announced /\ misled' = misled
  /\ child'[p] \in {child[p], NoPid} /\ \A r \in Pids \ {p} : child'[r] = child[r]
  /\ excused \subseteq excused' /\ (pid_file' = pid_file \/ "torn" \in excused')
  /\ Tip(p) => \/ excused' \cap {"closed", "crash", "late"} # {}
               \/ st[p] = "wait" /\ child[p] \in sync_files

Rises(p) ==
  /\ st[p] = "init" /\ \E x \in {"sync", "loop"} : st' = [st EXCEPT ![p] = x]
  /\ announced' = [announced EXCEPT ![p] = TRUE]
  /\ pid_file' = p /\ UNCHANGED <<child, misled, excused>>

Settles(p) ==
  /\ st[p] = "sync" /\ st' = [st EXCEPT ![p] = "loop"]
  /\ UNCHANGED <<child, announced, misled, pid_file, excused>>

Returns(p) ==
  /\ st[p] = "wait" /\ st' = [st EXCEPT ![p] = "loop"]
  /\ child'[p] \in {child[p], NoPid} /\ \A r \in Pids \ {p} : child'[r] = child[r]
  /\ excused \subseteq excused' /\ UNCHANGED <<announced, pid_file>>
  /\ misled \subseteq misled'
  /\ \/ excused' \cap {"two", "outrun"} # {}
     \/ st[child[p]] \in {"none", "gone"} /\ announced[child[p]] = FALSE
     \/ p \in misled' /\ \A r \in Pids \ {p} : ~Young(r) /\ ~Undecided(r)

Forks(p, q) ==
  /\ st[p] = "loop" /\ q # p
  /\ st[q] \in {"none", "gone"} /\ \A r \in Pids : child[r] # q
  /\ st' = [st EXCEPT ![p] = "wait", ![q] = "init"]
  /\ child' = [child EXCEPT ![p] = q, ![q] = NoPid]
  /\ announced' = [announced EXCEPT ![q] = FALSE] /\ misled' = misled \ {q}
  /\ UNCHANGED <<pid_file, excused>>

Move ==
  \/ Quiet
  \/ \E p \in Pids : Leaves(p) \/ Rises(p) \/ Settles(p) \/ Returns(p) \/ \E q \in Pids : Forks(p, q)

LEMMA Moves ==
  ASSUME Inv, Known, [Next]_vars
  PROVE  Move
<1>t. /\ st \in [Pids -> Places] /\ announced \in [Pids -> BOOLEAN]
      /\ child \in [Pids -> Pids \cup {NoPid}]
  BY DEF Inv, TypeOK
<1>1. CASE UNCHANGED vars
  BY <1>1 DEF vars, Move, Quiet
<1>2. ASSUME NEW p \in Pids,
             TakeListener(p) \/ Sleep(p) \/ \E s \in {"close", "restart"} : Signal(p, s)
      PROVE  Move
  BY <1>2 DEF TakeListener, Sleep, Signal, Move, Quiet
<1>3. ASSUME NEW p \in Pids, BindListener(p) PROVE Move
  <2>1. /\ st[p] = "init" /\ UNCHANGED <<child, announced, misled, pid_file, excused>>
        /\ st' = [st EXCEPT ![p] = "gone"] \/ st' = st
    BY <1>3 DEF BindListener, End
  <2> QED BY <2>1 DEF Move, Quiet, Leaves, Tip, Undecided
<1>4. ASSUME NEW p \in Pids, WritePidFile(p) PROVE Move
  <2>1. st[p] = "init" /\ UNCHANGED <<child, misled>>
    BY <1>4 DEF WritePidFile
  <2>2. \/ Rises(p)
        \/ /\ st' = [st EXCEPT ![p] = "gone"] /\ announced' = announced
           /\ \/ pid_file' = pid_file /\ excused' = excused
              \/ excused' = excused \cup {"torn"}
    BY <1>4, <2>1 DEF WritePidFile, write_pid_file, End, Rises
  <2> QED BY <2>1, <2>2 DEF Move, Leaves, Tip, Undecided
<1>5. ASSUME NEW p \in Pids, WriteSyncFile(p) PROVE Move
  BY <1>5, Zenon DEF WriteSyncFile, Move, Settles
<1>6. ASSUME NEW p \in Pids, Close(p) PROVE Move
  <2>1. /\ st' = [st EXCEPT ![p] = "exit"] /\ UNCHANGED <<child, announced, misled, pid_file>>
        /\ excused' = excused \cup {"closed"}
    BY <1>6 DEF Close
  <2> QED BY <2>1, Zenon DEF Move, Leaves
<1>7. ASSUME NEW p \in Pids, Found(p) PROVE Move
  <2>1. /\ st[p] = "wait" /\ child[p] \in sync_files
        /\ st' = [st EXCEPT ![p] = "exit"] /\ UNCHANGED <<child, announced, misled, pid_file, excused>>
    BY <1>7 DEF Found
  <2> QED BY <2>1, Zenon DEF Move, Leaves
<1>8. ASSUME NEW p \in Pids, TimeUp(p) PROVE Move
  <2>1. st[p] = "wait" /\ UNCHANGED <<announced, pid_file>> /\ child[p] \in Pids
    BY <1>8 DEF TimeUp, Inv, Waiting
  <2>2. announced[child[p]] \in BOOLEAN
    BY <1>t, <2>1
  <2>3. CASE "two" \in excused' /\ st' = [st EXCEPT ![p] = "loop"] /\ UNCHANGED <<child, misled>>
             /\ excused' = excused \cup {"two"}
    BY <2>1, <2>3, Zenon DEF Move, Returns
  <2>4. CASE /\ st' = [st EXCEPT ![p] = AfterTimeout(p)]
             /\ child' = [child EXCEPT ![p] = IF Alive(child[p]) THEN @ ELSE NoPid]
             /\ excused' = excused \cup
                  (IF Alive(child[p]) THEN IF announced[child[p]] THEN {} ELSE {"late"}
                   ELSE IF announced[child[p]] /\ Rival(p) THEN {"outrun"} ELSE {})
             /\ misled' = IF ~Alive(child[p]) /\ announced[child[p]] THEN misled \cup {p} ELSE misled
    <3>1. /\ excused \subseteq excused' /\ \A r \in Pids \ {p} : child'[r] = child[r]
          /\ child'[p] \in {child[p], NoPid}
      BY <1>t, <2>4
    <3>2. CASE Alive(child[p])
      <4>1. st' = [st EXCEPT ![p] = "exit"]
        BY <2>4, <3>2 DEF AfterTimeout
      <4>2. announced[child[p]] = FALSE => "late" \in excused'
        BY <2>4, <3>2
      <4>3. Tip(p) => "late" \in excused'
        BY <2>1, <4>2 DEF Tip, Undecided
      <4>4. misled' = misled
        BY <2>4, <3>2
      <4> QED BY <2>1, <3>1, <4>1, <4>3, <4>4, Zenon DEF Move, Leaves
    <3>3. CASE ~Alive(child[p])
      <4>1. st' = [st EXCEPT ![p] = "loop"]
        BY <2>4, <3>3 DEF AfterTimeout
      <4>2. announced[child[p]] = TRUE =>
              p \in misled' /\ ("outrun" \in excused' \/ ~Rival(p))
        BY <2>4, <3>3
      <4>3. st[child[p]] \in {"none", "gone"} /\ misled \subseteq misled'
        BY <2>4, <3>3 DEF Alive
      <4>4. ~Rival(p) => \A r \in Pids \ {p} : ~Young(r) /\ ~Undecided(r)
        BY DEF Rival, Young, Undecided
      <4>5. \/ "outrun" \in excused' \/ announced[child[p]] = FALSE
            \/ p \in misled' /\ \A r \in Pids \ {p} : ~Young(r) /\ ~Undecided(r)
        BY <2>2, <4>2, <4>4
      <4> QED BY <2>1, <3>1, <4>1, <4>3, <4>5, Zenon DEF Move, Returns
    <3> QED BY <3>2, <3>3
  <2> QED BY <1>8, <2>3, <2>4 DEF TimeUp
<1>9. ASSUME NEW p \in Pids, Exit(p) PROVE Move
  <2>1. /\ st[p] = "exit" /\ st' = [st EXCEPT ![p] = "gone"]
        /\ UNCHANGED <<announced, misled, pid_file, excused>> /\ child' = [child EXCEPT ![p] = NoPid]
    BY <1>9 DEF Exit, End
  <2> QED BY <1>t, <2>1, Zenon DEF Move, Leaves, Tip, Undecided
<1>10. ASSUME NEW p \in Pids, Crash(p) PROVE Move
  <2>1. /\ st' = [st EXCEPT ![p] = "gone"] /\ UNCHANGED <<announced, misled, pid_file>>
        /\ child' = [child EXCEPT ![p] = NoPid]
    BY <1>10 DEF Crash, End
  <2>2. /\ excused \subseteq excused'
        /\ announced[p] = TRUE => "crash" \in excused'
    BY <1>10 DEF Crash
  <2>3. Tip(p) => announced[p] = TRUE
    BY DEF Tip, Undecided, Known
  <2> QED BY <1>t, <2>1, <2>2, <2>3, Zenon DEF Move, Leaves
<1>11. ASSUME NEW p \in Pids, Spawn(p) PROVE Move
  <2>1. st[p] = "loop" /\ UNCHANGED <<pid_file, excused>>
    BY <1>11 DEF Spawn
  <2>2. CASE UNCHANGED <<st, child, announced, misled>>
    BY <2>1, <2>2 DEF Move, Quiet
  <2>3. ASSUME NEW q \in Pids, Unused(q), q # p,
               st' = [st EXCEPT ![p] = "wait", ![q] = "init"],
               child' = [child EXCEPT ![p] = q, ![q] = NoPid],
               announced' = [announced EXCEPT ![q] = FALSE], misled' = misled \ {q}
        PROVE  Move
    <3>1. st[q] \in {"none", "gone"} /\ \A r \in Pids : child[r] # q
      BY <2>3 DEF Unused, Known
    <3>2. Forks(p, q)
      BY <2>1, <2>3, <3>1 DEF Forks
    <3> QED BY <3>2 DEF Move
  <2> QED BY <1>11, <2>2, <2>3 DEF Spawn
<1> QED BY <1>1, <1>2, <1>3, <1>4, <1>5, <1>6, <1>7, <1>8, <1>9, <1>10, <1>11 DEF Next, Idle

LEMMA MoveTypes ==
  ASSUME Inv
  PROVE  /\ st \in [Pids -> Places] /\ announced \in [Pids -> BOOLEAN]
         /\ child \in [Pids -> Pids \cup {NoPid}] /\ NoPid \notin Pids
         /\ \A p \in Pids : st[p] = "wait" => child[p] \in Pids
BY GracefulAssumption, SMTT(60) DEF Inv, TypeOK, Waiting, NoPid

LEMMA KnownStep ==
  ASSUME Inv, Known, Move
  PROVE  Known'
<1> USE MoveTypes
<1>1. CASE Quiet
  BY <1>1 DEF Quiet, Known
<1>2. ASSUME NEW p \in Pids, Leaves(p) PROVE Known'
  BY <1>2 DEF Leaves, Known
<1>3. ASSUME NEW p \in Pids, Rises(p) PROVE Known'
  BY <1>3 DEF Rises, Known
<1>4. ASSUME NEW p \in Pids, Settles(p) PROVE Known'
  BY <1>4 DEF Settles, Known
<1>5. ASSUME NEW p \in Pids, Returns(p) PROVE Known'
  BY <1>5 DEF Returns, Known
<1>6. ASSUME NEW p \in Pids, NEW q \in Pids, Forks(p, q) PROVE Known'
  BY <1>6 DEF Forks, Known
<1> QED BY <1>1, <1>2, <1>3, <1>4, <1>5, <1>6 DEF Move

\* Fewer young and fewer undecided processes are in line if more were.
LEMMA LineShrinks ==
  ASSUME OneLine,
         \A p \in Pids : Young(p)' => Young(p),
         \A p \in Pids : Undecided(p)' => Undecided(p) /\ child'[p] = child[p]
  PROVE  OneLine'
BY DEF OneLine

\* No step makes a second server, unless try_wait fails or comes too late.
LEMMA LineageStep ==
  ASSUME Inv, Known, Lineage, Move
  PROVE  Lineage'
<1> USE MoveTypes
<1>1. CASE Quiet
  BY <1>1 DEF Quiet, Lineage, OneLine, Young, Undecided
<1>2. ASSUME NEW p \in Pids, Leaves(p) PROVE Lineage'
  <2> SUFFICES ASSUME excused' \cap {"two", "outrun"} = {} PROVE OneLine'
    BY DEF Lineage
  <2>1. OneLine
    BY <1>2 DEF Lineage, Leaves
  <2>2. \A r \in Pids : Young(r)' => Young(r)
    BY <1>2 DEF Leaves, Young
  <2>3. \A r \in Pids : Undecided(r)' => Undecided(r) /\ child'[r] = child[r]
    BY <1>2 DEF Leaves, Undecided
  <2> QED BY <2>1, <2>2, <2>3, LineShrinks
<1>3. ASSUME NEW p \in Pids, Rises(p) \/ Settles(p) PROVE Lineage'
  <2> SUFFICES ASSUME excused' \cap {"two", "outrun"} = {} PROVE OneLine'
    BY DEF Lineage
  <2>1. OneLine
    BY <1>3 DEF Lineage, Rises, Settles
  <2>2. \A r \in Pids : Young(r)' => Young(r)
    BY <1>3 DEF Rises, Settles, Young
  <2>3. \A r \in Pids : Undecided(r)' => Undecided(r) /\ child'[r] = child[r]
    BY <1>3 DEF Rises, Settles, Undecided
  <2> QED BY <2>1, <2>2, <2>3, LineShrinks
<1>4. ASSUME NEW p \in Pids, Returns(p) PROVE Lineage'
  <2> SUFFICES ASSUME excused' \cap {"two", "outrun"} = {} PROVE OneLine'
    BY DEF Lineage
  <2>1. \/ OneLine /\ Undecided(p) /\ ~Young(child[p])
        \/ \A r \in Pids \ {p} : ~Young(r) /\ ~Undecided(r)
    BY <1>4 DEF Lineage, Returns, Undecided, Young
  <2>2. \A r \in Pids \ {p} : ~Young(r)
    BY <2>1 DEF OneLine
  <2>3. \A r \in Pids : Young(r)' => r = p
    BY <1>4, <2>2 DEF Returns, Young
  <2>4. \A r \in Pids : ~Undecided(r)'
    <3>1. \A r \in Pids \ {p} : ~Undecided(r)
      BY <2>1 DEF OneLine
    <3> QED BY <1>4, <3>1 DEF Returns, Undecided
  <2> QED BY <2>3, <2>4 DEF OneLine
<1>5. ASSUME NEW p \in Pids, NEW q \in Pids, Forks(p, q) PROVE Lineage'
  <2> SUFFICES ASSUME excused' \cap {"two", "outrun"} = {} PROVE OneLine'
    BY DEF Lineage
  <2>1. OneLine /\ Young(p) /\ announced[p] = TRUE
    BY <1>5 DEF Lineage, Forks, Young, Known
  <2>2. \A r \in Pids : Young(r)' => r = q
    BY <1>5, <2>1 DEF Forks, Young, OneLine
  <2>3. \A r \in Pids : ~Undecided(r)
    BY <2>1 DEF OneLine, Undecided
  <2>4. \A r \in Pids : Undecided(r)' => r = p
    BY <1>5, <2>3 DEF Forks, Undecided
  <2>5. child'[p] = q
    BY <1>5 DEF Forks
  <2> QED BY <2>2, <2>4, <2>5 DEF OneLine
<1> QED BY <1>1, <1>2, <1>3, <1>4, <1>5 DEF Move

\* The pid file follows the server.
LEMMA NamedStep ==
  ASSUME Inv, Known, Lineage, Named, Move
  PROVE  Named'
<1> USE MoveTypes
<1> SUFFICES ASSUME excused' \cap {"two", "outrun", "torn"} = {}
             PROVE  \A r \in Pids : Tip(r)' => pid_file' = r \/ r \in misled'
  BY DEF Named
<1>1. CASE Quiet
  BY <1>1 DEF Quiet, Named, Tip, Undecided
<1>2. ASSUME NEW p \in Pids, Leaves(p) PROVE \A r \in Pids : Tip(r)' => pid_file' = r \/ r \in misled'
  <2>1. \A r \in Pids : Tip(r)' => Tip(r)
    BY <1>2 DEF Leaves, Tip, Undecided
  <2> QED BY <1>2, <2>1 DEF Leaves, Named
<1>3. ASSUME NEW p \in Pids, Rises(p) PROVE \A r \in Pids : Tip(r)' => pid_file' = r \/ r \in misled'
  <2>1. OneLine /\ Young(p)
    BY <1>3 DEF Rises, Young, Lineage
  <2>2. ASSUME NEW r \in Pids, Tip(r)', r # p PROVE FALSE
    <3>1. Tip(r) /\ st'[r] = st[r] /\ child'[r] = child[r]
      BY <1>3, <2>2 DEF Rises, Tip, Undecided
    <3>2. Undecided(r)
      BY <2>1, <2>2, <3>1 DEF Tip, Young, OneLine
    <3>3. child[r] = p
      BY <2>1, <3>2 DEF OneLine
    <3> QED BY <1>3, <2>2, <3>1, <3>2, <3>3 DEF Rises, Tip, Undecided
  <2> QED BY <1>3, <2>2 DEF Rises
<1>4. ASSUME NEW p \in Pids, Settles(p) PROVE \A r \in Pids : Tip(r)' => pid_file' = r \/ r \in misled'
  <2>1. \A r \in Pids : Tip(r)' => Tip(r)
    BY <1>4 DEF Settles, Tip, Undecided
  <2> QED BY <1>4, <2>1 DEF Settles, Named
<1>5. ASSUME NEW p \in Pids, Returns(p) PROVE \A r \in Pids : Tip(r)' => pid_file' = r \/ r \in misled'
  <2>1. Tip(p) \/ p \in misled'
    BY <1>5 DEF Returns, Tip, Undecided
  <2>2. \A r \in Pids \ {p} : Tip(r)' => Tip(r)
    BY <1>5 DEF Returns, Tip, Undecided
  <2> QED BY <1>5, <2>1, <2>2 DEF Returns, Named
<1>6. ASSUME NEW p \in Pids, NEW q \in Pids, Forks(p, q) PROVE \A r \in Pids : Tip(r)' => pid_file' = r \/ r \in misled'
  <2>1. Tip(p)
    BY <1>6 DEF Forks, Tip
  <2>2. ~Tip(q)'
    BY <1>6 DEF Forks, Tip, Undecided
  <2>3. \A r \in Pids \ {p, q} : Tip(r)' => Tip(r)
    BY <1>6 DEF Forks, Tip, Undecided
  <2> QED BY <1>6, <2>1, <2>2, <2>3 DEF Forks, Named
<1> QED BY <1>1, <1>2, <1>3, <1>4, <1>5, <1>6 DEF Move

\* Somebody who has all the sockets and is not about to leave stays, if a file is
\* only found when the successor has announced itself.
LEMMA KeptStep ==
  ASSUME Inv, Known, Announcing, Kept, Move
  PROVE  Kept'
<1> USE MoveTypes
<1> SUFFICES ASSUME \E u \in Pids : announced'[u] = TRUE,
                    excused' \cap {"closed", "crash", "late"} = {}
             PROVE  \E r \in Pids : Tip(r)'
  BY Zenon DEF Kept
<1>1. CASE Quiet
  BY <1>1 DEF Quiet, Kept, Tip, Undecided
<1>2. ASSUME NEW p \in Pids, Leaves(p) PROVE \E r \in Pids : Tip(r)'
  <2>1. PICK r \in Pids : Tip(r)
    BY <1>2 DEF Leaves, Kept
  <2>2. r # p
    BY <1>2, <2>1 DEF Leaves, Announcing, Tip, Undecided
  <2> QED BY <1>2, <2>1, <2>2 DEF Leaves, Tip, Undecided
<1>3. ASSUME NEW p \in Pids, Rises(p) PROVE \E r \in Pids : Tip(r)'
  <2>1. Tip(p)'
    BY <1>3 DEF Rises, Tip
  <2> QED BY <2>1
<1>4. ASSUME NEW p \in Pids, Settles(p) \/ Returns(p) PROVE \E r \in Pids : Tip(r)'
  <2>1. Tip(p)'
    BY <1>4 DEF Settles, Returns, Tip
  <2> QED BY <2>1
<1>5. ASSUME NEW p \in Pids, NEW q \in Pids, Forks(p, q) PROVE \E r \in Pids : Tip(r)'
  <2>1. Tip(p)'
    BY <1>5 DEF Forks, Tip, Undecided
  <2> QED BY <2>1
<1> QED BY <1>1, <1>2, <1>3, <1>4, <1>5 DEF Move

LEMMA LineInit == Init => Known /\ Lineage /\ Named /\ Kept
<1> SUFFICES ASSUME Init PROVE Known /\ Lineage /\ Named /\ Kept
  OBVIOUS
<1>1. /\ \A p \in Pids : /\ st[p] = (IF p = First THEN "init" ELSE "none")
                         /\ child[p] = NoPid /\ announced[p] = FALSE
      /\ NoPid \notin Pids
  BY GracefulAssumption DEF Init, NoPid
<1>2. Known
  BY <1>1 DEF Known
<1>3. \A p \in Pids : ~Tip(p) /\ ~Undecided(p) /\ (Young(p) => p = First)
  BY <1>1 DEF Tip, Undecided, Young
<1>4. Lineage /\ Named /\ Kept
  BY <1>1, <1>3 DEF Lineage, OneLine, Named, Kept
<1> QED BY <1>2, <1>4

LEMMA LineInvariance == Spec => [](Known /\ Lineage /\ Named)
<1>1. Inv /\ Known /\ Lineage /\ Named /\ [Next]_vars => (Known /\ Lineage /\ Named)'
  BY Moves, KnownStep, LineageStep, NamedStep
<1> QED BY <1>1, LineInit, Invariance, PTL DEF Spec

\* Two processes never both take signals as the server, whatever crashes and failed
\* starts there were, unless try_wait failed or came after the successor had handed
\* over to one of its own and gone; pids may be given out again.
THEOREM SingleServer == Spec => []OneServer
<1>1. Lineage => OneServer
  BY DEF Lineage, OneLine, Young, OneServer
<1> QED BY <1>1, LineInvariance, PTL

\* With the same exceptions, and if no write of it failed midway, the pid file names
\* the process that takes signals, or that process went back to serving when a successor
\* that had written the file was dead: the only way to a stale file.
THEOREM CurrentPidFile == Spec => []PidFileCurrent
<1>1. Named => PidFileCurrent
  BY DEF Named, Tip, PidFileCurrent
<1> QED BY <1>1, LineInvariance, PTL

\* As long as no pid is given out twice, every address of a program that is up stays
\* open, unless it was closed, a ready process died, or a successor that was given up
\* too early failed.
THEOREM NoGap == ASSUME Reuse = FALSE PROVE Spec => []AddressesKept
<1>1. Init => Announcing
  BY DEF Init, Announcing
<1>2. Inv /\ Announcing /\ [Next]_vars => Announcing'
  BY AnnouncingStep, Zenon
<1>3. Inv /\ Known /\ Announcing /\ Kept /\ [Next]_vars => Kept'
  BY Moves, KeptStep
<1>4. ASSUME Inv, Kept PROVE AddressesKept
  <2> SUFFICES ASSUME \E p \in Pids : announced[p], excused \cap {"closed", "crash", "late"} = {},
                      NEW i \in DOMAIN Addrs
               PROVE  \E p \in Pids : Addrs[i] \in held[p]
    BY DEF AddressesKept
  <2>1. PICK u \in Pids : announced[u] = TRUE
    BY <1>4, MoveTypes
  <2>2. PICK p \in Pids : Tip(p)
    BY <1>4, <2>1 DEF Kept
  <2>3. held[p] = Range(Addrs)
    BY <1>4, <2>2 DEF Tip, Undecided, Inv, Started
  <2> QED BY <2>3 DEF Range
<1> QED BY <1>1, <1>2, <1>3, <1>4, LineInit, LineInvariance, Invariance, PTL DEF Spec
================================================================================
