--------------------------- MODULE ConnPoolProofs ---------------------------
(***************************************************************************)
(* The safety of a connection pool for every number of workers, tasks,     *)
(* spawns and server failures: one monitor, an exact worker_count, and no  *)
(* task lost or held twice.                                                *)
(***************************************************************************)
EXTENDS ConnPool, TLAPS, FiniteSetTheorems

\* A step may use this fact and gains nothing from it, but a record update among its
\* facts spares tlapm the inference of types, which takes most of the time otherwise.
LEMMA RecordUpdate == \A r : [r EXCEPT !.field = 1] = [r EXCEPT !.field = 1]
OBVIOUS

USE RecordUpdate

(* What a channel holds, which is modelled as a sequence. *)

\* An empty channel holds nothing, and nothing twice.
LEMMA RangeEmpty == Range(<<>>) = {} /\ IsInjective(<<>>)
BY DEF Range, IsInjective

\* Sending one element into a channel adds it to the channel's contents.
LEMMA RangeAppend ==
  ASSUME NEW S, NEW s \in Seq(S), NEW x \in S
  PROVE  Range(Append(s, x)) = Range(s) \cup {x}
<1>1. /\ Len(Append(s, x)) = Len(s) + 1
      /\ \A i \in 1 .. Len(s) : Append(s, x)[i] = s[i]
      /\ Append(s, x)[Len(s) + 1] = x
  OBVIOUS
<1>2. DOMAIN s = 1 .. Len(s) /\ DOMAIN Append(s, x) = 1 .. Len(s) + 1 /\ Len(s) \in Nat
  OBVIOUS
<1>3. ASSUME NEW y \in Range(Append(s, x)) PROVE y \in Range(s) \cup {x}
  BY <1>1, <1>2 DEF Range
<1>4. ASSUME NEW y \in Range(s) \cup {x} PROVE y \in Range(Append(s, x))
  BY <1>1, <1>2 DEF Range
<1> QED BY <1>3, <1>4

\* Sending an element that is not in the channel puts nothing there twice.
LEMMA InjAppend ==
  ASSUME NEW S, NEW s \in Seq(S), NEW x \in S, IsInjective(s), x \notin Range(s)
  PROVE  IsInjective(Append(s, x))
<1>1. DOMAIN s = 1 .. Len(s) /\ DOMAIN Append(s, x) = 1 .. Len(s) + 1 /\ Len(s) \in Nat
  OBVIOUS
<1>2. /\ \A i \in 1 .. Len(s) : Append(s, x)[i] = s[i]
      /\ Append(s, x)[Len(s) + 1] = x
  OBVIOUS
<1>3. \A i \in 1 .. Len(s) : s[i] # x
  BY <1>1 DEF Range
<1> QED BY <1>1, <1>2, <1>3 DEF IsInjective

\* Receiving from a channel takes away its head and nothing else.
LEMMA Received ==
  ASSUME NEW S, NEW s \in Seq(S), s # <<>>
  PROVE  /\ Head(s) \in S /\ Tail(s) \in Seq(S)
         /\ Range(s) = {Head(s)} \cup Range(Tail(s))
         /\ IsInjective(s) => IsInjective(Tail(s)) /\ Head(s) \notin Range(Tail(s))
<1> DEFINE t == Tail(s)
<1>1. /\ Head(s) \in S /\ t \in Seq(S) /\ Head(s) = s[1] /\ Len(s) \in Nat /\ Len(s) > 0
      /\ DOMAIN s = 1 .. Len(s) /\ DOMAIN t = 1 .. Len(s) - 1
      /\ \A i \in 1 .. Len(s) - 1 : t[i] = s[i + 1]
  OBVIOUS
<1> HIDE DEF t
<1>2. \A i \in 1 .. Len(s) : i = 1 \/ (i - 1 \in 1 .. Len(s) - 1 /\ s[i] = t[i - 1])
  <2>1. ASSUME NEW i \in 1 .. Len(s), i # 1 PROVE i - 1 \in 1 .. Len(s) - 1 /\ s[i] = t[i - 1]
    <3>1. i - 1 \in 1 .. Len(s) - 1 /\ (i - 1) + 1 = i
      BY <2>1, <1>1
    <3> QED BY <3>1, <1>1
  <2> QED BY <2>1
<1>3. Range(s) \subseteq {Head(s)} \cup Range(t)
  BY <1>1, <1>2 DEF Range
<1>4. Head(s) \in Range(s)
  BY <1>1 DEF Range
<1>5. Range(t) \subseteq Range(s)
  <2>1. ASSUME NEW i \in 1 .. Len(s) - 1 PROVE i + 1 \in DOMAIN s /\ t[i] = s[i + 1]
    BY <1>1
  <2> QED BY <2>1, <1>1 DEF Range
<1>6. ASSUME IsInjective(s) PROVE IsInjective(t) /\ Head(s) \notin Range(t)
  <2>1. ASSUME NEW i \in 1 .. Len(s) - 1, NEW j \in 1 .. Len(s) - 1, t[i] = t[j]
        PROVE  i = j
    <3>1. i + 1 \in DOMAIN s /\ j + 1 \in DOMAIN s /\ s[i + 1] = s[j + 1]
      BY <1>1, <2>1
    <3>2. i + 1 = j + 1
      BY <3>1, <1>6 DEF IsInjective
    <3> QED BY <3>2
  <2>2. ASSUME NEW i \in 1 .. Len(s) - 1 PROVE t[i] # Head(s)
    <3>1. i + 1 \in DOMAIN s /\ 1 \in DOMAIN s /\ i + 1 # 1 /\ t[i] = s[i + 1]
      BY <1>1
    <3> QED BY <3>1, <1>1, <1>6 DEF IsInjective
  <2> QED BY <2>1, <2>2, <1>1 DEF IsInjective, Range
<1> QED BY <1>1, <1>3, <1>4, <1>5, <1>6 DEF t

--------------------------------------------------------------------------------

\* What a worker's place in the code says of its worker_id: only the monitor
\* monitors, no monitor is in run_worker, and one that ends knows that the pool
\* was dropped.
Role(w) ==
  /\ (pc[w] \in {"monitor", "sleep", "wait", "ping", "got"} => id[w] = 0)
  /\ (pc[w] \in {"enter", "work", "burst", "wsend", "flush", "last_flush", "leave",
                 "leave_err"} => id[w] # 0)
  /\ ((pc[w] = "exit" /\ id[w] = 0) => ~handle)
  /\ (cur[w] # {} => pc[w] \in {"got", "send", "wsend"})

\* OneMonitor without cardinalities.
Single ==
  /\ \A v, w \in Live : (id[v] = 0 /\ id[w] = 0) => v = w
  /\ (handle => \E w \in Live : id[w] = 0)

\* PoolConserved without cardinalities: the places are disjoint, and together
\* hold what was posted and is not settled.
Placed ==
  /\ IsInjective(rx)
  /\ \A w \in Worker : cur[w] \cap Range(rx) = {}
  /\ \A v, w \in Worker : v # w => cur[v] \cap cur[w] = {}
  /\ \A t \in Task : (t \in Range(rx) \/ \E w \in Worker : t \in cur[w])
                       <=> (t <= posted /\ fate[t] = "none")
  /\ \A t \in Task : t > posted => fate[t] = "none"

Inv == TypeOK /\ (\A w \in Worker : Role(w)) /\ Single /\ WorkersCounted /\ Placed
--------------------------------------------------------------------------------
LEMMA ChannelSize == channel_size \in Nat
BY PoolAssumption DEF channel_size

LEMMA LiveFinite == IsFiniteSet(Live) /\ Cardinality(Live) \in Nat
BY PoolAssumption, FS_Subset, FS_CardinalityType DEF Live

\* A worker that goes on stays alive.
LEMMA GoOn ==
  ASSUME TypeOK, NEW w \in Worker, NEW l, pc[w] # "none", l # "none", Goto(w, l)
  PROVE  Live' = Live /\ pc'[w] = l /\ \A v \in Worker \ {w} : pc'[v] = pc[v]
BY DEF TypeOK, Goto, Live

\* A coroutine is spawned for a free slot.
LEMMA Begin ==
  ASSUME NEW v \in Worker, pc[v] = "none", Live' = Live \cup {v}
  PROVE  Cardinality(Live') = Cardinality(Live) + 1
BY LiveFinite, FS_AddElement, Zenon DEF Live
--------------------------------------------------------------------------------
(* Who is alive, and who is the monitor.                                     *)

\* Steps that neither start nor end a worker and change no worker_id.
LEMMA SameWorkers ==
  ASSUME Single, WorkersCounted, Live' = Live, id' = id, worker_count' = worker_count,
         handle' = handle \/ handle' = FALSE
  PROVE  Single' /\ WorkersCounted'
BY DEF Single, WorkersCounted

LEMMA SpawnWorkers ==
  ASSUME Inv, Spawn
  PROVE  Single' /\ WorkersCounted' /\ \A w \in Worker : Role(w)'
<1> PICK v \in Worker : pc[v] = "none" /\ Goto(v, "connect") /\ id' = [id EXCEPT ![v] = worker_count]
  BY Zenon DEF Spawn
<1>1. /\ handle /\ handle' = handle /\ worker_count' = worker_count + 1 /\ cur' = cur
      /\ pc'[v] = "connect" /\ id'[v] = worker_count /\ worker_count \in Nat
      /\ \A u \in Worker \ {v} : pc'[u] = pc[u] /\ id'[u] = id[u]
  BY DEF Spawn, Goto, taskVars, Inv, TypeOK
<1>2. Live' = Live \cup {v} /\ v \notin Live
  BY <1>1 DEF Live
<1>3. worker_count = Cardinality(Live)
  BY DEF Inv, WorkersCounted
<1>4. Cardinality(Live') = worker_count + 1
  BY <1>2, <1>3, Begin
<1>5. worker_count # 0
  <2>1. Live # {}
    BY <1>1 DEF Inv, Single
  <2> QED BY <1>3, <2>1, LiveFinite, FS_EmptySet
<1>6. Single'
  BY <1>1, <1>2, <1>5 DEF Inv, Single, Live
<1>7. ASSUME NEW w \in Worker PROVE Role(w)'
  BY <1>1 DEF Inv, Role
<1> QED BY <1>1, <1>4, <1>6, <1>7 DEF WorkersCounted

LEMMA PromoteWorkers ==
  ASSUME Inv, NEW w \in Worker, Promote(w)
  PROVE  Single' /\ WorkersCounted' /\ \A u \in Worker : Role(u)'
<1>1. /\ pc[w] = "got" /\ id[w] = 0 /\ handle' = handle /\ cur' = cur /\ w \in Live
      /\ pc \in [Worker -> WorkerPc] /\ id \in [Worker -> Nat] /\ worker_count \in Nat
  BY DEF Promote, Inv, Role, TypeOK, userVars, taskVars, Live
<1>2. CASE Goto(w, "send") /\ UNCHANGED <<worker_count, id>>
  <2>1. Live' = Live /\ pc'[w] = "send" /\ \A v \in Worker \ {w} : pc'[v] = pc[v]
    BY <1>1, <1>2, GoOn DEF Inv
  <2>2. ASSUME NEW u \in Worker PROVE Role(u)'
    BY <1>1, <1>2, <2>1 DEF Inv, Role
  <2> QED BY <1>1, <1>2, <2>1, <2>2, SameWorkers DEF Inv
<1>3. ASSUME worker_count = 1, worker_count' = 2,
             NEW v \in Worker, pc[v] = "none",
             pc' = [pc EXCEPT ![w] = "send", ![v] = "connect"],
             id' = [id EXCEPT ![w] = 1, ![v] = 0]
      PROVE  Single' /\ WorkersCounted' /\ \A u \in Worker : Role(u)'
  <2>1. /\ v # w /\ pc'[w] = "send" /\ pc'[v] = "connect" /\ id'[w] = 1 /\ id'[v] = 0
        /\ \A u \in Worker \ {v, w} : pc'[u] = pc[u] /\ id'[u] = id[u]
    BY <1>1, <1>3
  <2>2. Live' = Live \cup {v}
    BY <1>1, <1>3, <2>1 DEF Live
  <2>3. WorkersCounted'
    <3>1. Cardinality(Live') = Cardinality(Live) + 1
      BY <1>3, <2>2, Begin
    <3>2. Cardinality(Live) = 1
      BY <1>3 DEF Inv, WorkersCounted
    <3>3. Cardinality(Live') = 2
      BY <3>1, <3>2
    <3> QED BY <1>3, <3>3 DEF WorkersCounted
  <2>4. Single'
    BY <1>1, <2>1, <2>2 DEF Inv, Single, Live
  <2>5. ASSUME NEW u \in Worker PROVE Role(u)'
    BY <1>1, <1>3, <2>1 DEF Inv, Role
  <2> QED BY <2>3, <2>4, <2>5
<1> QED BY <1>2, <1>3 DEF Promote

LEMMA ExitWorkers ==
  ASSUME Inv, NEW w \in Worker, Exit(w)
  PROVE  Single' /\ WorkersCounted' /\ \A u \in Worker : Role(u)'
<1>1. /\ pc[w] = "exit" /\ w \in Live /\ pc'[w] = "none" /\ cur[w] = {}
      /\ \A u \in Worker \ {w} : pc'[u] = pc[u]
      /\ UNCHANGED <<handle, id, cur>> /\ worker_count' = worker_count - 1
      /\ (id[w] = 0 => ~handle)
  BY Zenon DEF Exit, Goto, Inv, TypeOK, Role, userVars, taskVars, Live
<1>2. Live' = Live \ {w}
  BY <1>1 DEF Live
<1>3. WorkersCounted'
  BY <1>1, <1>2, LiveFinite, FS_RemoveElement, SMTT(20) DEF Inv, WorkersCounted
<1>4. Single'
  BY <1>1, <1>2 DEF Inv, Single
<1>5. ASSUME NEW u \in Worker PROVE Role(u)'
  BY <1>1 DEF Inv, Role
<1> QED BY <1>3, <1>4, <1>5

\* The steps in which a worker goes on under the same worker_id.
LEMMA WorkerGoesOn ==
  ASSUME Inv, NEW w \in Worker, NEW l, pc[w] # "none", l # "none", Goto(w, l),
         UNCHANGED <<handle, id, worker_count>>,
         \A v \in Worker \ {w} : cur'[v] = cur[v],
         (l \in {"monitor", "sleep", "wait", "ping", "got"} => id[w] = 0),
         (l \in {"enter", "work", "burst", "wsend", "flush", "last_flush", "leave",
                 "leave_err"} => id[w] # 0),
         ((l = "exit" /\ id[w] = 0) => ~handle),
         (cur'[w] # {} => l \in {"got", "send", "wsend"})
  PROVE  Single' /\ WorkersCounted' /\ \A u \in Worker : Role(u)'
<1>1. Live' = Live /\ pc'[w] = l /\ \A v \in Worker \ {w} : pc'[v] = pc[v]
  BY GoOn DEF Inv
<1>2. ASSUME NEW u \in Worker PROVE Role(u)'
  BY <1>1 DEF Inv, Role
<1> QED BY <1>1, <1>2, SameWorkers DEF Inv

LEMMA WorkersStep ==
  ASSUME Inv, [Next]_vars
  PROVE  Single' /\ WorkersCounted' /\ \A u \in Worker : Role(u)'
<1>t. /\ pc \in [Worker -> WorkerPc] /\ id \in [Worker -> Nat]
      /\ cur \in [Worker -> SUBSET Task]
  BY DEF Inv, TypeOK
<1>r. \A w \in Worker : Role(w)
  BY DEF Inv
<1>1. ASSUME UNCHANGED <<pc, id, cur, worker_count>>, handle' = handle \/ handle' = FALSE
      PROVE  Single' /\ WorkersCounted' /\ \A u \in Worker : Role(u)'
  <2>1. Live' = Live
    BY <1>1 DEF Live
  <2>2. ASSUME NEW u \in Worker PROVE Role(u)'
    BY <1>1 DEF Inv, Role
  <2> QED BY <1>1, <2>1, <2>2, SameWorkers, Zenon DEF Inv
<1>2. CASE SendReq \/ DropPool \/ DropInner \/ Flip \/ Terminated \/ UNCHANGED vars
  BY <1>1, <1>2, Zenon DEF SendReq, DropPool, DropInner, Flip, Terminated, vars, userVars,
                    taskVars, countVars
<1>3. CASE Spawn
  BY <1>3, SpawnWorkers, SMTT(20)
<1>4. ASSUME NEW w \in Worker, WorkerStep(w)
      PROVE  Single' /\ WorkersCounted' /\ \A u \in Worker : Role(u)'
  <2>r. Role(w)
    BY <1>r
  <2> USE DEF userVars, taskVars, countVars, Role, UseOk, UseErr
  <2>1. CASE Connect(w)
    <3>1. PICK l \in {"monitor", "enter", "backoff"} :
            /\ Goto(w, l) /\ (l = "monitor" => id[w] = 0) /\ (l = "enter" => id[w] # 0)
      BY <2>1 DEF Connect
    <3>2. /\ pc[w] = "connect" /\ cur[w] = {} /\ UNCHANGED <<handle, id, worker_count, cur>>
      BY <2>1, <2>r DEF Connect
    <3> QED BY <3>1, <3>2, WorkerGoesOn
  <2>2. CASE Backoff(w)
    <3>1. /\ pc[w] = "backoff" /\ cur[w] = {} /\ UNCHANGED <<handle, id, worker_count, cur>>
          /\ Goto(w, "connect")
      BY <2>2, <2>r DEF Backoff
    <3> QED BY <3>1, WorkerGoesOn
  <2>3. CASE Monitor(w)
    <3>1. PICK l \in {"sleep", "wait"} : Goto(w, l)
      BY <2>3 DEF Monitor
    <3>2. /\ pc[w] = "monitor" /\ cur[w] = {} /\ UNCHANGED <<handle, id, worker_count, cur>>
          /\ id[w] = 0
      BY <2>3, <2>r DEF Monitor
    <3> QED BY <3>1, <3>2, WorkerGoesOn
  <2>4. CASE Ping(w)
    <3>1. PICK l \in {"monitor", "connect"} : Goto(w, l)
      BY <2>4 DEF Ping
    <3>2. /\ pc[w] \in {"sleep", "ping"} /\ cur[w] = {} /\ id[w] = 0
          /\ UNCHANGED <<handle, id, worker_count, cur>>
      BY <2>4, <2>r DEF Ping
    <3> QED BY <3>1, <3>2, WorkerGoesOn
  <2>5. CASE MonitorRecv(w)
    <3>1. /\ pc[w] = "wait" /\ id[w] = 0 /\ cur[w] = {} /\ UNCHANGED <<handle, id, worker_count>>
      BY <2>5, <2>r DEF MonitorRecv
    <3>2. PICK l \in {"got", "exit", "ping"} :
            /\ Goto(w, l) /\ (l = "exit" => ~handle)
            /\ (l = "got" \/ cur' = cur) /\ \A v \in Worker \ {w} : cur'[v] = cur[v]
      BY <2>5, <1>t DEF MonitorRecv, Take
    <3> QED BY <3>1, <3>2, WorkerGoesOn
  <2>6. CASE Promote(w)
    BY <2>6, PromoteWorkers
  <2>7. CASE MonitorSend(w)
    <3>1. PICK l \in {"monitor", "enter", "backoff", "exit"} :
            /\ Goto(w, l) /\ (l = "monitor" => id[w] = 0) /\ (l \in {"enter", "exit"} => id[w] # 0)
      BY <2>7 DEF MonitorSend
    <3>2. /\ pc[w] = "send" /\ cur'[w] = {} /\ UNCHANGED <<handle, id, worker_count>>
          /\ \A v \in Worker \ {w} : cur'[v] = cur[v]
      BY <2>7, <1>t DEF MonitorSend
    <3> QED BY <3>1, <3>2, WorkerGoesOn
  <2>8. CASE EnterWorker(w)
    <3>1. /\ pc[w] = "enter" /\ id[w] # 0 /\ cur[w] = {}
          /\ UNCHANGED <<handle, id, worker_count, cur>> /\ Goto(w, "work")
      BY <2>8, <2>r DEF EnterWorker
    <3> QED BY <3>1, WorkerGoesOn
  <2>9. CASE WorkerRecv(w)
    <3>1. /\ pc[w] \in {"work", "burst"} /\ id[w] # 0 /\ cur[w] = {}
          /\ UNCHANGED <<handle, id, worker_count>>
      BY <2>9, <2>r DEF WorkerRecv
    <3>2. PICK l \in {"wsend", "flush", "last_flush"} :
            /\ Goto(w, l) /\ (l = "wsend" \/ cur' = cur)
            /\ \A v \in Worker \ {w} : cur'[v] = cur[v]
      BY <2>9, <1>t DEF WorkerRecv, Take
    <3> QED BY <3>1, <3>2, WorkerGoesOn
  <2>10. CASE WorkerSend(w)
    <3>1. /\ pc[w] = "wsend" /\ id[w] # 0 /\ cur'[w] = {} /\ UNCHANGED <<handle, id, worker_count>>
          /\ \A v \in Worker \ {w} : cur'[v] = cur[v]
      BY <2>10, <2>r, <1>t DEF WorkerSend
    <3>2. PICK l \in {"burst", "leave_err"} : Goto(w, l)
      BY <2>10 DEF WorkerSend
    <3> QED BY <3>1, <3>2, WorkerGoesOn
  <2>11. CASE WorkerFlush(w)
    <3>1. /\ pc[w] \in {"flush", "last_flush"} /\ id[w] # 0 /\ cur[w] = {}
          /\ UNCHANGED <<handle, id, worker_count, cur>>
      BY <2>11, <2>r DEF WorkerFlush
    <3>2. PICK l \in {"work", "leave", "leave_err"} : Goto(w, l)
      BY <2>11 DEF WorkerFlush
    <3> QED BY <3>1, <3>2, WorkerGoesOn
  <2>12. CASE LeaveWorker(w)
    <3>1. /\ pc[w] \in {"leave", "leave_err"} /\ id[w] # 0 /\ cur[w] = {} /\ Goto(w, "exit")
          /\ UNCHANGED <<handle, id, worker_count, cur>>
      BY <2>12, <2>r DEF LeaveWorker
    <3> QED BY <3>1, WorkerGoesOn
  <2>13. CASE Exit(w)
    BY <2>13, ExitWorkers
  <2> QED BY <1>4, <2>1, <2>2, <2>3, <2>4, <2>5, <2>6, <2>7, <2>8, <2>9, <2>10, <2>11,
             <2>12, <2>13, SMTT(20) DEF WorkerStep
<1> QED BY <1>2, <1>3, <1>4 DEF Next
--------------------------------------------------------------------------------
(* Where the tasks are.                                                      *)

\* What each operation on the tasks leaves: their places and their types.
TasksOK ==
  /\ rx \in Seq(Task) /\ Len(rx) <= channel_size
  /\ cur \in [Worker -> SUBSET Task]
  /\ fate \in [Task -> {"none", "sent", "io", "unreachable"}]
  /\ posted \in 0 .. MaxPosts
  /\ Placed

\* Some tasks are settled: from the channel, all of it (r), and from the hands
\* of the workers, all that c takes out of them.
LEMMA Settled ==
  ASSUME TasksOK, posted' = posted, NEW S \in SUBSET Task,
         fate' \in [Task -> {"none", "sent", "io", "unreachable"}],
         \A t \in S : fate'[t] # "none" /\ t <= posted,
         \A t \in Task \ S : fate'[t] = fate[t],
         rx' = <<>> \/ rx' = rx,
         cur' \in [Worker -> SUBSET Task],
         \A w \in Worker : cur'[w] \subseteq cur[w],
         \A t \in Task : (t \in Range(rx') \/ \E w \in Worker : t \in cur'[w])
                           <=> (t \notin S /\ (t \in Range(rx) \/ \E w \in Worker : t \in cur[w]))
  PROVE  TasksOK'
<1>1. rx' \in Seq(Task) /\ Len(rx') <= channel_size /\ IsInjective(rx') /\ Range(rx') \subseteq Range(rx)
  <2>1. CASE rx' = rx
    BY <2>1 DEF TasksOK, Placed
  <2>2. CASE rx' = <<>>
    <3>1. IsInjective(rx') /\ Range(rx') = {}
      BY ONLY <2>2, RangeEmpty, Zenon
    <3>2. rx' \in Seq(Task) /\ Len(rx') <= channel_size
      BY ONLY <2>2, ChannelSize
    <3> QED BY <3>1, <3>2
  <2> QED BY <2>1, <2>2
<1>2. \A w \in Worker : cur'[w] \cap Range(rx') = {}
  BY <1>1 DEF TasksOK, Placed
<1>3. \A v, w \in Worker : v # w => cur'[v] \cap cur'[w] = {}
  BY DEF TasksOK, Placed
<1>4. ASSUME NEW t \in Task
      PROVE  (t \in Range(rx') \/ \E w \in Worker : t \in cur'[w])
               <=> (t <= posted /\ fate'[t] = "none")
  BY DEF TasksOK, Placed
<1>5. ASSUME NEW t \in Task, t > posted PROVE fate'[t] = "none"
  <2>1. ~(t <= posted)
    BY <1>5, PoolAssumption DEF Task, TasksOK
  <2>2. t \notin S
    BY <2>1
  <2> QED BY <1>5, <2>2 DEF TasksOK, Placed
<1> QED BY <1>1, <1>2, <1>3, <1>4, <1>5, SMTT(20) DEF TasksOK, Placed

\* cleanup of the channel.
LEMMA CleanTasks ==
  ASSUME TasksOK, cleanup, UNCHANGED <<cur, posted>>
  PROVE  TasksOK'
<1>1. /\ rx' = <<>> /\ Range(rx') = {} /\ Range(rx) \in SUBSET Task
      /\ fate' = [t \in Task |-> IF t \in Range(rx) THEN "unreachable" ELSE fate[t]]
  BY RangeEmpty DEF cleanup, Settle, TasksOK, Range
<1>2. fate' \in [Task -> {"none", "sent", "io", "unreachable"}]
  BY <1>1 DEF TasksOK
<1>3. /\ \A t \in Range(rx) : fate'[t] # "none" /\ t <= posted
      /\ \A t \in Task \ Range(rx) : fate'[t] = fate[t]
  BY <1>1 DEF TasksOK, Placed
<1>4. /\ cur' \in [Worker -> SUBSET Task] /\ \A w \in Worker : cur'[w] = cur[w]
      /\ \A w \in Worker : cur[w] \cap Range(rx) = {}
  BY DEF TasksOK, Placed
<1>5. \A t \in Task : (t \in Range(rx') \/ \E w \in Worker : t \in cur'[w])
         <=> (t \notin Range(rx) /\ (t \in Range(rx) \/ \E w \in Worker : t \in cur[w]))
  BY <1>1, <1>4
<1> QED BY <1>1, <1>2, <1>3, <1>4, <1>5, Settled, Zenon

\* The task in a worker's hands is settled.
LEMMA HandTasks ==
  ASSUME TasksOK, NEW w \in Worker, NEW o \in {"sent", "io"},
         Settle(cur[w], o), cur' = [cur EXCEPT ![w] = {}], UNCHANGED <<rx, posted>>
  PROVE  TasksOK'
<1>1. /\ cur[w] \in SUBSET Task
      /\ fate' = [t \in Task |-> IF t \in cur[w] THEN o ELSE fate[t]]
  BY DEF Settle, TasksOK
<1>2. fate' \in [Task -> {"none", "sent", "io", "unreachable"}]
  BY <1>1 DEF TasksOK
<1>3. /\ \A t \in cur[w] : fate'[t] # "none" /\ t <= posted
      /\ \A t \in Task \ cur[w] : fate'[t] = fate[t]
  BY <1>1 DEF TasksOK, Placed
<1>4. /\ cur' \in [Worker -> SUBSET Task] /\ cur'[w] = {}
      /\ \A v \in Worker \ {w} : cur'[v] = cur[v] /\ cur[v] \cap cur[w] = {}
      /\ cur[w] \cap Range(rx) = {}
  BY DEF TasksOK, Placed
<1>5. \A t \in Task : (t \in Range(rx') \/ \E v \in Worker : t \in cur'[v])
         <=> (t \notin cur[w] /\ (t \in Range(rx) \/ \E v \in Worker : t \in cur[v]))
  BY <1>4
<1>6. \A v \in Worker : cur'[v] \subseteq cur[v]
  BY <1>4
<1> QED BY <1>1, <1>2, <1>3, <1>4, <1>5, <1>6, Settled, SMTT(20)

\* The monitor fails: its task and the channel are settled.
LEMMA AllTasks ==
  ASSUME TasksOK, NEW w \in Worker, cur' = [cur EXCEPT ![w] = {}], rx' = <<>>, posted' = posted,
         fate' = [t \in Task |-> CASE t \in cur[w] -> "io"
                                   [] t \in Range(rx) -> "unreachable"
                                   [] OTHER -> fate[t]]
  PROVE  TasksOK'
<1> DEFINE S == cur[w] \cup Range(rx)
<1>1. S \in SUBSET Task /\ Range(rx') = {}
  BY RangeEmpty DEF TasksOK, Range
<1>2. fate' \in [Task -> {"none", "sent", "io", "unreachable"}]
  BY DEF TasksOK
<1>3. /\ \A t \in S : fate'[t] # "none" /\ t <= posted
      /\ \A t \in Task \ S : fate'[t] = fate[t]
  BY <1>1 DEF TasksOK, Placed
<1>4. /\ cur' \in [Worker -> SUBSET Task] /\ cur'[w] = {}
      /\ \A v \in Worker \ {w} : cur'[v] = cur[v] /\ cur[v] \cap cur[w] = {}
      /\ \A v \in Worker : cur[v] \cap Range(rx) = {}
  BY DEF TasksOK, Placed
<1>5. \A t \in Task : (t \in Range(rx') \/ \E v \in Worker : t \in cur'[v])
         <=> (t \notin S /\ (t \in Range(rx) \/ \E v \in Worker : t \in cur[v]))
  BY <1>1, <1>4
<1>6. \A v \in Worker : cur'[v] \subseteq cur[v]
  BY <1>4
<1> HIDE DEF S
<1> QED BY ONLY TasksOK, posted' = posted, rx' = <<>>, <1>1, <1>2, <1>3, <1>4, <1>5, <1>6, Settled, Zenon

\* A worker whose hands are empty receives a task.
LEMMA TakeTasks ==
  ASSUME TasksOK, NEW w \in Worker, cur[w] = {}, Take(w), UNCHANGED <<fate, posted>>
  PROVE  TasksOK'
<1> DEFINE h == Head(rx)
<1>1. /\ rx # <<>> /\ rx' = Tail(rx) /\ cur' = [cur EXCEPT ![w] = {h}] /\ rx \in Seq(Task)
  BY DEF Take, TasksOK
<1>2. /\ h \in Task /\ rx' \in Seq(Task) /\ Range(rx) = {h} \cup Range(rx')
      /\ IsInjective(rx') /\ h \notin Range(rx')
  BY <1>1, Received DEF TasksOK, Placed
<1>3. Len(rx') <= channel_size
  BY <1>1, ChannelSize DEF TasksOK
<1> HIDE DEF h
<1>4. /\ cur' \in [Worker -> SUBSET Task] /\ cur'[w] = {h}
      /\ \A v \in Worker \ {w} : cur'[v] = cur[v]
  BY <1>1, <1>2 DEF TasksOK
<1>5. \A v \in Worker : cur[v] \cap Range(rx) = {}
  BY DEF TasksOK, Placed
<1>6. \A v \in Worker : cur'[v] \cap Range(rx') = {}
  BY <1>2, <1>4, <1>5
<1>7. \A v, u \in Worker : v # u => cur'[v] \cap cur'[u] = {}
  BY <1>2, <1>4, <1>5 DEF TasksOK, Placed
<1>8. \A t \in Task : (t \in Range(rx') \/ \E v \in Worker : t \in cur'[v])
         <=> (t \in Range(rx) \/ \E v \in Worker : t \in cur[v])
  BY <1>2, <1>4
<1> QED BY <1>2, <1>3, <1>4, <1>6, <1>7, <1>8 DEF TasksOK, Placed

\* A new task is posted.
LEMMA PostTasks ==
  ASSUME TasksOK, SendReq
  PROVE  TasksOK'
<1> DEFINE n == posted + 1
<1>1. /\ n \in Task /\ posted' = n /\ rx' = Append(rx, n) /\ UNCHANGED <<cur, fate>>
      /\ rx \in Seq(Task) /\ Len(rx) < channel_size /\ posted \in Nat /\ n \in Nat
      /\ posted' \in 0 .. MaxPosts /\ n > posted
  BY PoolAssumption, SMTT(20) DEF SendReq, TasksOK, Task
<1>2. \A t \in Task : t \in Nat /\ (t <= n <=> (t <= posted \/ t = n))
  BY <1>1 DEF Task
<1>3. n \notin Range(rx) /\ \A w \in Worker : n \notin cur[w]
  BY <1>1 DEF TasksOK, Placed
<1>4. fate[n] = "none"
  BY <1>1 DEF TasksOK, Placed
<1> HIDE DEF n
<1>5. /\ rx' \in Seq(Task) /\ Range(rx') = Range(rx) \cup {n} /\ IsInjective(rx')
      /\ Len(rx') = Len(rx) + 1
  BY <1>1, <1>3, RangeAppend, InjAppend DEF TasksOK, Placed
<1>6. Len(rx') <= channel_size
  BY <1>1, <1>5, ChannelSize
<1>7. \A w \in Worker : cur'[w] \cap Range(rx') = {}
  BY <1>1, <1>3, <1>5 DEF TasksOK, Placed
<1>8. ASSUME NEW t \in Task
      PROVE  /\ (t \in Range(rx') \/ \E w \in Worker : t \in cur'[w])
                   <=> (t <= posted' /\ fate'[t] = "none")
             /\ (t > posted' => fate'[t] = "none")
  <2>1. CASE t = n
    BY <1>1, <1>2, <1>4, <1>5, <2>1
  <2>2. CASE t # n
    <3>1. t <= posted' <=> t <= posted
      BY <1>1, <1>2, <2>2
    <3>2. t \in Range(rx') <=> t \in Range(rx)
      BY <1>5, <2>2
    <3>3. t > posted' => t > posted
      BY <1>1, <1>2
    <3> QED BY <1>1, <3>1, <3>2, <3>3 DEF TasksOK, Placed
  <2> QED BY <2>1, <2>2
<1> QED BY <1>1, <1>5, <1>6, <1>7, <1>8, SMTT(20) DEF TasksOK, Placed

LEMMA TasksStep ==
  ASSUME Inv, [Next]_vars
  PROVE  TasksOK'
<1>i. TasksOK /\ \A w \in Worker : Role(w)
  BY DEF Inv, TasksOK, TypeOK
<1>1. ASSUME UNCHANGED <<rx, cur, fate, posted>> PROVE TasksOK'
  BY <1>1, <1>i DEF TasksOK, Placed
<1>2. CASE Spawn \/ DropPool \/ Flip \/ Terminated \/ UNCHANGED vars
  BY <1>1, <1>2 DEF Spawn, DropPool, Flip, Terminated, vars, userVars, taskVars
<1>3. CASE SendReq
  BY <1>3, <1>i, PostTasks
<1>4. CASE DropInner
  BY <1>4, <1>i, CleanTasks DEF DropInner
<1>5. ASSUME NEW w \in Worker, WorkerStep(w) PROVE TasksOK'
  <2>p. posted' = posted
    BY <1>5 DEF WorkerStep, Connect, Backoff, Monitor, Ping, MonitorRecv, Promote, MonitorSend,
                EnterWorker, WorkerRecv, WorkerSend, WorkerFlush, LeaveWorker, Exit, userVars
  <2>1. CASE Connect(w) \/ Ping(w)
    <3>1. cur' = cur /\ (cleanup \/ UNCHANGED <<rx, fate>>)
      BY <2>1 DEF Connect, Ping
    <3> QED BY <3>1, <2>p, <1>i, <1>1, CleanTasks, SMTT(20)
  <2>2. CASE Backoff(w) \/ Monitor(w) \/ Promote(w) \/ EnterWorker(w) \/ WorkerFlush(w)
             \/ LeaveWorker(w) \/ Exit(w)
    <3>1. UNCHANGED taskVars
      BY <2>2 DEF Backoff, Monitor, Promote, EnterWorker, WorkerFlush, LeaveWorker, Exit
    <3> QED BY <3>1, <2>p, <1>1, SMTT(20) DEF taskVars
  <2>3. CASE MonitorRecv(w) \/ WorkerRecv(w)
    <3>1. fate' = fate /\ (Take(w) \/ UNCHANGED <<rx, cur>>)
      BY <2>3 DEF MonitorRecv, WorkerRecv
    <3>2. cur[w] = {}
      BY <2>3, <1>i DEF MonitorRecv, WorkerRecv, Role
    <3> QED BY <3>1, <3>2, <2>p, <1>i, <1>1, TakeTasks, SMTT(20)
  <2>4. CASE MonitorSend(w)
    <3>1. cur' = [cur EXCEPT ![w] = {}]
      BY <2>4 DEF MonitorSend
    <3>2. CASE Settle(cur[w], "sent") /\ UNCHANGED rx
      BY <3>1, <3>2, <2>p, <1>i, HandTasks, Zenon
    <3>3. CASE Settle(cur[w], "io") /\ UNCHANGED rx
      BY <3>1, <3>3, <2>p, <1>i, HandTasks, Zenon
    <3>4. CASE /\ fate' = [t \in Task |-> CASE t \in cur[w] -> "io"
                                             [] t \in Range(rx) -> "unreachable"
                                             [] OTHER -> fate[t]]
               /\ rx' = <<>>
      BY <3>1, <3>4, <2>p, <1>i, AllTasks, Zenon
    <3> QED BY <2>4, <3>2, <3>3, <3>4 DEF MonitorSend
  <2>5. CASE WorkerSend(w)
    <3>1. cur' = [cur EXCEPT ![w] = {}] /\ UNCHANGED rx
          /\ (Settle(cur[w], "sent") \/ Settle(cur[w], "io"))
      BY <2>5 DEF WorkerSend
    <3> QED BY <3>1, <2>p, <1>i, HandTasks, Zenon
  <2> QED BY <1>5, <2>1, <2>2, <2>3, <2>4, <2>5, SMTT(20) DEF WorkerStep
<1> QED BY <1>2, <1>3, <1>4, <1>5 DEF Next
--------------------------------------------------------------------------------
(* The other types.                                                          *)

LEMMA TypeStep ==
  ASSUME Inv, [Next]_vars, TasksOK', WorkersCounted'
  PROVE  TypeOK'
<1>i. TypeOK
  BY DEF Inv
<1>1. handle' \in BOOLEAN /\ srv' \in BOOLEAN /\ freed' \in BOOLEAN
  <2>1. CASE UNCHANGED vars \/ Terminated
    BY <2>1, <1>i DEF Terminated, vars, userVars, srvVars, TypeOK
  <2>2. CASE SendReq \/ Spawn \/ DropPool \/ DropInner \/ Flip
    BY <2>2, <1>i, ZenonT(30) DEF SendReq, Spawn, DropPool, DropInner, Flip, userVars, srvVars, TypeOK
  <2>3. ASSUME NEW w \in Worker, WorkerStep(w) PROVE UNCHANGED <<handle, srv, freed>>
    BY <2>3 DEF WorkerStep, Connect, Backoff, Monitor, Ping, MonitorRecv, Promote, MonitorSend,
                EnterWorker, WorkerRecv, WorkerSend, WorkerFlush, LeaveWorker, Exit, userVars,
                srvVars
  <2> QED BY <2>1, <2>2, <2>3, <1>i DEF Next, TypeOK
<1>2. is_ok' \in BOOLEAN
  <2>1. ASSUME NEW w \in Worker, WorkerStep(w) PROVE is_ok' = is_ok \/ is_ok' = FALSE
    BY <2>1, SMTT(20) DEF WorkerStep, Connect, Backoff, Monitor, Ping, MonitorRecv, Promote, MonitorSend,
                EnterWorker, WorkerRecv, WorkerSend, WorkerFlush, LeaveWorker, Exit, set_err
  <2>2. CASE UNCHANGED vars \/ Terminated \/ SendReq \/ Spawn \/ DropPool \/ DropInner \/ Flip
    BY <2>2, <1>i DEF SendReq, Spawn, DropPool, DropInner, Flip, Terminated, vars, TypeOK
  <2> QED BY <2>1, <2>2, <1>i, ZenonT(30) DEF Next, TypeOK
<1>3. worker_count' \in Nat
  <2>1. IsFiniteSet(Live')
    BY PoolAssumption, FS_Subset DEF Live
  <2> QED BY <2>1, FS_CardinalityType DEF WorkersCounted
<1>4. connected_worker_count' \in Nat
  <2>1. ASSUME NEW w \in Worker, WorkerStep(w)
        PROVE  \/ connected_worker_count' = connected_worker_count
               \/ connected_worker_count' = connected_worker_count + 1
    BY <2>1 DEF WorkerStep, Connect, Backoff, Monitor, Ping, MonitorRecv, Promote, MonitorSend,
                EnterWorker, WorkerRecv, WorkerSend, WorkerFlush, LeaveWorker, Exit, countVars
  <2>2. CASE UNCHANGED vars \/ Terminated \/ SendReq \/ Spawn \/ DropPool \/ DropInner \/ Flip
    BY <2>2, <1>i DEF SendReq, Spawn, DropPool, DropInner, Flip, Terminated, vars, countVars, TypeOK
  <2> QED BY <2>1, <2>2, <1>i, SMTT(20) DEF Next, TypeOK
<1>5. pc' \in [Worker -> WorkerPc]
  <2>1. ASSUME NEW w \in Worker, WorkerStep(w)
        PROVE  \/ \E l \in WorkerPc : Goto(w, l)
               \/ \E v \in Worker : pc' = [pc EXCEPT ![w] = "send", ![v] = "connect"]
    BY <2>1 DEF WorkerStep, Connect, Backoff, Monitor, Ping, MonitorRecv, Promote, MonitorSend,
                EnterWorker, WorkerRecv, WorkerSend, WorkerFlush, LeaveWorker, Exit, WorkerPc
  <2>2. CASE Spawn
    BY <2>2, <1>i DEF Spawn, Goto, TypeOK, WorkerPc
  <2>3. CASE UNCHANGED vars \/ Terminated \/ SendReq \/ DropPool \/ DropInner \/ Flip
    BY <2>3, <1>i DEF SendReq, DropPool, DropInner, Flip, Terminated, vars, TypeOK
  <2> QED BY <2>1, <2>2, <2>3, <1>i, Zenon DEF Next, TypeOK, Goto, WorkerPc
<1>6. id' \in [Worker -> Nat]
  <2>1. ASSUME NEW w \in Worker, WorkerStep(w)
        PROVE  \/ id' = id
               \/ \E v \in Worker : id' = [id EXCEPT ![w] = 1, ![v] = 0]
    BY <2>1 DEF WorkerStep, Connect, Backoff, Monitor, Ping, MonitorRecv, Promote, MonitorSend,
                EnterWorker, WorkerRecv, WorkerSend, WorkerFlush, LeaveWorker, Exit
  <2>2. CASE Spawn
    BY <2>2, <1>i DEF Spawn, TypeOK
  <2>3. CASE UNCHANGED vars \/ Terminated \/ SendReq \/ DropPool \/ DropInner \/ Flip
    BY <2>3, <1>i DEF SendReq, DropPool, DropInner, Flip, Terminated, vars, TypeOK
  <2>4. ASSUME NEW w \in Worker, WorkerStep(w) PROVE id' \in [Worker -> Nat]
    <3>1. id \in [Worker -> Nat] /\ 0 \in Nat /\ 1 \in Nat
      BY <1>i DEF TypeOK
    <3>2. CASE id' = id
      BY <3>1, <3>2
    <3>3. ASSUME NEW v \in Worker, id' = [id EXCEPT ![w] = 1, ![v] = 0]
          PROVE  id' \in [Worker -> Nat]
      BY <3>1, <3>3, Zenon
    <3> QED BY <2>1, <2>4, <3>2, <3>3
  <2> QED BY <2>2, <2>3, <2>4, SMTT(20) DEF Next
<1>7. conn' \in [Worker -> {"none", "ok", "broken"}] /\ used' \subseteq Worker
  <2>1. ASSUME NEW w \in Worker, WorkerStep(w)
        PROVE  /\ \/ conn' = conn
                  \/ \E s \in {"none", "ok"} : conn' = [conn EXCEPT ![w] = s]
               /\ used' \subseteq used \cup {w}
    BY <2>1 DEF WorkerStep, Connect, Backoff, Monitor, Ping, MonitorRecv, Promote, MonitorSend,
                EnterWorker, WorkerRecv, WorkerSend, WorkerFlush, LeaveWorker, Exit, streamVars
  <2>2. CASE Flip
    BY <2>2, <1>i DEF Flip, TypeOK
  <2>3. CASE UNCHANGED vars \/ Terminated \/ SendReq \/ Spawn \/ DropPool \/ DropInner
    BY <2>3, <1>i DEF SendReq, DropPool, Spawn, DropInner, Terminated, vars, streamVars, TypeOK
  <2> QED BY <2>1, <2>2, <2>3, <1>i, ZenonT(30) DEF Next, TypeOK
<1> QED BY <1>1, <1>2, <1>3, <1>4, <1>5, <1>6, <1>7, SMTT(20) DEF TypeOK, TasksOK
--------------------------------------------------------------------------------
LEMMA InitInv == Init => Inv
<1> SUFFICES ASSUME Init PROVE Inv
  OBVIOUS
<1> PICK w \in Worker : pc = [v \in Worker |-> IF v = w THEN "connect" ELSE "none"]
  BY DEF Init
<1>1. TypeOK
  <2>1. /\ handle \in BOOLEAN /\ is_ok \in BOOLEAN /\ srv \in BOOLEAN /\ freed \in BOOLEAN
    BY Zenon DEF Init
  <2>2. pc \in [Worker -> WorkerPc]
    BY DEF WorkerPc
  <2>3. rx \in Seq(Task) /\ Len(rx) <= channel_size
    BY ChannelSize DEF Init
  <2>4. /\ worker_count \in Nat /\ connected_worker_count \in Nat /\ id \in [Worker -> Nat]
        /\ posted \in 0 .. MaxPosts
    BY PoolAssumption DEF Init
  <2>5. /\ conn \in [Worker -> {"none", "ok", "broken"}] /\ cur \in [Worker -> SUBSET Task]
        /\ used \subseteq Worker /\ fate \in [Task -> {"none", "sent", "io", "unreachable"}]
    BY DEF Init
  <2> QED BY <2>1, <2>2, <2>3, <2>4, <2>5 DEF TypeOK
<1>2. ASSUME NEW v \in Worker PROVE Role(v)
  BY DEF Init, Role
<1>3. Live = {w}
  BY DEF Live
<1>4. Single /\ WorkersCounted
  BY <1>3, FS_Singleton, Zenon DEF Single, WorkersCounted, Init
<1>5. Placed
  <2>1. rx = <<>> /\ posted = 0 /\ \A v \in Worker : cur[v] = {}
    BY DEF Init
  <2>2. \A t \in Task : ~(t <= posted) /\ fate[t] = "none"
    BY <2>1, PoolAssumption DEF Task, Init
  <2> QED BY <2>1, <2>2, RangeEmpty DEF Placed
<1> QED BY <1>1, <1>2, <1>4, <1>5 DEF Inv

LEMMA NextInv == Inv /\ [Next]_vars => Inv'
BY WorkersStep, TasksStep, TypeStep DEF Inv, TasksOK

\* The inductive invariant of the pool.
THEOREM Invariance == Spec => []Inv
BY InitInv, NextInv, PTL DEF Spec

\* Every variable of the pool keeps its type; the channel stays within its bound
\* and worker_count does not drop below zero.
THEOREM Typing == Spec => []TypeOK
<1>1. Inv => TypeOK
  BY DEF Inv
<1> QED BY <1>1, Invariance, PTL

\* The worker_count the monitor decides on is the number of workers.
THEOREM Counting == Spec => []WorkersCounted
<1>1. Inv => WorkersCounted
  BY DEF Inv
<1> QED BY <1>1, Invariance, PTL

\* The monitor's identity passes on without a gap and without a copy.
THEOREM Monitoring == Spec => []OneMonitor
<1>1. ASSUME Inv PROVE OneMonitor
  <2> DEFINE M == {w \in Live : id[w] = 0}
  <2>1. IsFiniteSet(M)
    BY LiveFinite, FS_Subset
  <2>2. CASE M = {}
    BY <1>1, <2>2, FS_EmptySet DEF Inv, Single, OneMonitor
  <2>3. CASE M # {}
    <3>1. PICK w : M = {w}
      BY <1>1, <2>3 DEF Inv, Single
    <3> QED BY <2>3, <3>1, FS_Singleton DEF OneMonitor
  <2> QED BY <2>2, <2>3
<1> QED BY <1>1, Invariance, PTL

\* Every task posted is in the channel, in the hands of one worker, or settled.
THEOREM Conservation == Spec => []PoolConserved
<1>1. ASSUME Inv PROVE PoolConserved
  <2> SUFFICES ASSUME NEW t \in Task
               PROVE  Cardinality({i \in DOMAIN rx : rx[i] = t})
                        + Cardinality({w \in Worker : t \in cur[w]})
                        + (IF fate[t] # "none" THEN 1 ELSE 0) = IF t <= posted THEN 1 ELSE 0
    BY Zenon DEF PoolConserved
  <2> DEFINE I == {i \in DOMAIN rx : rx[i] = t}
             W == {w \in Worker : t \in cur[w]}
  <2>i. Placed
    BY <1>1 DEF Inv
  <2>1. /\ (t \in Range(rx) => Cardinality(I) = 1) /\ (t \notin Range(rx) => Cardinality(I) = 0)
    <3>1. ASSUME t \in Range(rx) PROVE \E i : I = {i}
      BY <3>1, <2>i DEF Placed, IsInjective, Range
    <3>2. ASSUME t \notin Range(rx) PROVE I = {}
      BY <3>2 DEF Range
    <3> QED BY <3>1, <3>2, FS_EmptySet, FS_Singleton, Zenon
  <2>2. /\ ((\E w \in Worker : t \in cur[w]) => Cardinality(W) = 1)
        /\ ((\A w \in Worker : t \notin cur[w]) => Cardinality(W) = 0)
    <3>1. ASSUME NEW w \in Worker, t \in cur[w] PROVE W = {w}
      BY <3>1, <2>i DEF Placed
    <3>2. ASSUME \A w \in Worker : t \notin cur[w] PROVE W = {}
      BY <3>2
    <3> QED BY <3>1, <3>2, FS_EmptySet, FS_Singleton, SMTT(20)
  <2> HIDE DEF I, W
  <2>3. CASE t \in Range(rx)
    <3>1. (\A w \in Worker : t \notin cur[w]) /\ t <= posted /\ fate[t] = "none"
      BY <2>3, <2>i DEF Placed
    <3> QED BY <2>1, <2>2, <2>3, <3>1 DEF I, W
  <2>4. CASE t \notin Range(rx) /\ \E w \in Worker : t \in cur[w]
    <3>1. t <= posted /\ fate[t] = "none"
      BY <2>4, <2>i DEF Placed
    <3> QED BY <2>1, <2>2, <2>4, <3>1 DEF I, W
  <2>5. CASE t \notin Range(rx) /\ \A w \in Worker : t \notin cur[w]
    <3>1. t <= posted <=> fate[t] # "none"
      <4>1. t \in Nat /\ posted \in Nat
        BY <1>1, PoolAssumption DEF Task, Inv, TypeOK
      <4> QED BY <2>5, <2>i, <4>1 DEF Placed
    <3> QED BY <2>1, <2>2, <2>5, <3>1 DEF I, W
  <2> QED BY <2>3, <2>4, <2>5
<1> QED BY <1>1, Invariance, PTL
================================================================================
