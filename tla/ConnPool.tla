------------------------------- MODULE ConnPool -------------------------------
(***************************************************************************)
(* ConnPool (stream/src/client/pool.rs): a bounded channel of tasks for    *)
(* one server address and the worker coroutines that serve it.  The worker *)
(* with id 0 is the monitor; when traffic grows it turns into an ordinary  *)
(* worker and spawns its own successor.  A worker owns a ClientStream,     *)
(* which is reduced here to what the worker sees of it: it connects or     *)
(* not, and may be broken when it is used next.  A task that send_task     *)
(* accepted is the stream's to complete (TaskLedger).                      *)
(***************************************************************************)
EXTENDS Naturals, Sequences, FiniteSets, Functions

CONSTANTS
  Worker,        \* slots for worker coroutines
  MaxPosts,      \* bound: how many tasks users send
  MaxSpawns,     \* bound: how often the user calls spawn
  MaxFlips,      \* bound: how often the server goes down or comes back
  ChannelArg,    \* the channel_size argument of new
  Thresholds     \* ClientConfig.thresholds

ASSUME PoolAssumption ==
  /\ IsFiniteSet(Worker) /\ Cardinality(Worker) >= 2 + MaxSpawns
  /\ MaxPosts \in Nat /\ MaxSpawns \in Nat /\ MaxFlips \in Nat
  /\ ChannelArg \in Nat /\ Thresholds \in Nat

VARIABLES
  handle,         \* some clone of the ConnPool is alive, and with it the senders
  rx,             \* the channel of tasks
  is_ok,
  worker_count,
  connected_worker_count,
  pc, id,         \* where each worker is, and its worker_id
  conn,           \* the worker's stream
  used,           \* the stream has carried a task, which may be in flight
  cur,            \* the task in the worker's hands
  posted,         \* how many tasks were sent
  fate,           \* what became of each task
  spawned, flips, \* counters of the two bounds
  srv,            \* the server accepts connections
  freed           \* the ConnPoolInner has been dropped

userVars == <<handle, posted, spawned, freed>>
srvVars == <<flips, srv>>
taskVars == <<rx, cur, fate>>
countVars == <<worker_count, connected_worker_count>>
streamVars == <<conn, used>>
vars == <<userVars, srvVars, taskVars, countVars, is_ok, pc, id, streamVars>>

Task == 1 .. MaxPosts

WorkerPc == {"none", "connect", "backoff", "monitor", "sleep", "wait", "ping", "got", "send",
             "enter", "work", "burst", "wsend", "flush", "last_flush", "leave",
             "leave_err", "exit"}

channel_size ==
  CASE Thresholds > 0 /\ ChannelArg < Thresholds -> Thresholds
    [] Thresholds = 0 /\ ChannelArg = 0 -> 128
    [] OTHER -> ChannelArg

\* new: one worker, which gets worker_id 0.
Init ==
  /\ handle = TRUE /\ rx = <<>> /\ is_ok = TRUE
  /\ worker_count = 1 /\ connected_worker_count = 0
  /\ \E w \in Worker : pc = [v \in Worker |-> IF v = w THEN "connect" ELSE "none"]
  /\ id = [w \in Worker |-> 0]
  /\ conn = [w \in Worker |-> "none"] /\ used = {}
  /\ cur = [w \in Worker |-> {}]
  /\ posted = 0 /\ fate = [t \in Task |-> "none"]
  /\ spawned = 0 /\ flips = 0 /\ srv = TRUE /\ freed = FALSE

Live == {w \in Worker : pc[w] # "none"}
--------------------------------------------------------------------------------
(* What the workers' code is made of.                                        *)

Goto(w, l) == pc' = [pc EXCEPT ![w] = l]

set_err == is_ok' = FALSE

Settle(S, o) == fate' = [t \in Task |-> IF t \in S THEN o ELSE fate[t]]

\* cleanup: everything in the channel comes back as unreachable.
cleanup_Silent ==
  /\ rx' = <<>>
  /\ UNCHANGED fate
cleanup ==
  /\ Settle(Range(rx), "unreachable")
  /\ rx' = <<>>

\* A use of the stream fails if it is broken, and may go through even then.
UseOk(w) == conn[w] \in {"ok", "broken"}
UseErr(w) == conn[w] = "broken"

Take(w) ==
  /\ rx # <<>>
  /\ cur' = [cur EXCEPT ![w] = {Head(rx)}]
  /\ rx' = Tail(rx)
--------------------------------------------------------------------------------
(* The user.                                                                 *)

\* send_req: waits while the channel is full.
SendReq ==
  /\ handle
  /\ posted < MaxPosts
  /\ Len(rx) < channel_size
  /\ posted' = posted + 1
  /\ rx' = Append(rx, posted + 1)
  /\ UNCHANGED <<handle, spawned, freed, srvVars, cur, fate, countVars, is_ok, pc, id, streamVars>>

Spawn ==
  /\ handle
  /\ spawned < MaxSpawns
  /\ spawned' = spawned + 1
  /\ worker_count' = worker_count + 1
  /\ \E w \in Worker : pc[w] = "none" /\ Goto(w, "connect") /\ id' = [id EXCEPT ![w] = worker_count]
  /\ UNCHANGED <<handle, posted, freed, srvVars, taskVars, connected_worker_count, is_ok, streamVars>>

DropPool ==
  /\ handle
  /\ handle' = FALSE
  /\ UNCHANGED <<posted, spawned, freed, srvVars, taskVars, countVars, is_ok, pc, id, streamVars>>

\* Drop of the ConnPoolInner, when neither a handle nor a worker refers to it.
DropInner ==
  /\ ~handle /\ Live = {} /\ ~freed
  /\ cleanup
  /\ freed' = TRUE
  /\ UNCHANGED <<handle, posted, spawned, srvVars, cur, countVars, is_ok, pc, id, streamVars>>

\* The server goes down, breaking every connection, or comes back.
Flip ==
  /\ flips < MaxFlips
  /\ flips' = flips + 1
  /\ srv' = ~srv
  /\ conn' = [w \in Worker |-> IF conn[w] = "ok" THEN "broken" ELSE conn[w]]
  /\ UNCHANGED <<userVars, taskVars, countVars, is_ok, pc, id, used>>
--------------------------------------------------------------------------------
(* run: connecting and monitoring.                                           *)

Connect(w) ==
  /\ pc[w] = "connect"
  /\ \/ /\ srv
        /\ conn' = [conn EXCEPT ![w] = "ok"]
        /\ used' = used \ {w}
        /\ Goto(w, IF id[w] = 0 THEN "monitor" ELSE "enter")
        /\ UNCHANGED <<rx, fate, is_ok>>
     \/ /\ ~srv
        /\ set_err
        /\ cleanup
        /\ Goto(w, "backoff")
        /\ UNCHANGED streamVars
  /\ UNCHANGED <<userVars, srvVars, cur, countVars, id>>

\* The sleep of a second before the next attempt.
Backoff(w) ==
  /\ pc[w] = "backoff"
  /\ Goto(w, "connect")
  /\ UNCHANGED <<userVars, srvVars, taskVars, countVars, is_ok, id, streamVars>>

\* The head of the monitor's loop: are there other workers?
Monitor(w) ==
  /\ pc[w] = "monitor"
  /\ Goto(w, IF worker_count > 1 THEN "sleep" ELSE "wait")
  /\ UNCHANGED <<userVars, srvVars, taskVars, countVars, is_ok, id, streamVars>>

\* Its ping, after a second's sleep or a second without tasks.  Alone, the
\* monitor also cleans the channel when the ping fails; tasks may have come in
\* while it waited for the ping.
Ping(w) ==
  /\ pc[w] \in {"sleep", "ping"}
  /\ \/ /\ UseOk(w)
        /\ Goto(w, "monitor")
        /\ UNCHANGED <<rx, fate, is_ok, conn>>
     \/ /\ UseErr(w)
        /\ set_err
        /\ IF pc[w] = "ping" THEN cleanup ELSE UNCHANGED <<rx, fate>>
        /\ conn' = [conn EXCEPT ![w] = "none"]
        /\ Goto(w, "connect")
  /\ UNCHANGED <<userVars, srvVars, cur, countVars, id, used>>

\* The lone monitor receives a task, learns that the pool was dropped, or gets
\* neither within a second.
MonitorRecv(w) ==
  /\ pc[w] = "wait"
  /\ \/ Take(w) /\ Goto(w, "got")
     \/ rx = <<>> /\ ~handle /\ Goto(w, "exit") /\ UNCHANGED <<rx, cur>>
     \/ rx = <<>> /\ handle /\ Goto(w, "ping") /\ UNCHANGED <<rx, cur>>
  /\ UNCHANGED <<userVars, srvVars, fate, countVars, is_ok, id, streamVars>>

\* With requests in flight and no other worker it hands its identity over.
Promote_Keeps(w) ==
  /\ pc[w] = "got"
  /\ \/ /\ w \in used /\ worker_count = 1
        /\ worker_count' = 2
        /\ \E v \in Worker : /\ pc[v] = "none"
                             /\ pc' = [pc EXCEPT ![w] = "send", ![v] = "connect"]
                             /\ id' = [id EXCEPT ![v] = 0]
     \/ Goto(w, "send") /\ UNCHANGED <<worker_count, id>>
  /\ UNCHANGED <<userVars, srvVars, taskVars, connected_worker_count, is_ok, streamVars>>
Promote(w) ==
  /\ pc[w] = "got"
  /\ \/ /\ w \in used /\ worker_count = 1
        /\ worker_count' = 2
        /\ \E v \in Worker : /\ pc[v] = "none"
                             /\ pc' = [pc EXCEPT ![w] = "send", ![v] = "connect"]
                             /\ id' = [id EXCEPT ![w] = 1, ![v] = 0]
     \/ Goto(w, "send") /\ UNCHANGED <<worker_count, id>>
  /\ UNCHANGED <<userVars, srvVars, taskVars, connected_worker_count, is_ok, streamVars>>

\* send_task of the monitor, or of the worker it has just become.
MonitorSend(w) ==
  /\ pc[w] = "send"
  /\ cur' = [cur EXCEPT ![w] = {}]
  /\ \/ /\ UseOk(w)
        /\ Settle(cur[w], "sent")
        /\ used' = used \union {w}
        /\ Goto(w, IF id[w] = 0 THEN "monitor" ELSE "enter")
        /\ UNCHANGED <<rx, is_ok, conn>>
     \/ /\ UseErr(w)
        /\ set_err
        /\ conn' = [conn EXCEPT ![w] = "none"]
        /\ UNCHANGED used
        /\ IF id[w] = 0
           THEN /\ fate' = [t \in Task |-> CASE t \in cur[w] -> "io"
                                             [] t \in Range(rx) -> "unreachable"
                                             [] OTHER -> fate[t]]
                /\ rx' = <<>>
                /\ Goto(w, "backoff")
           ELSE Settle(cur[w], "io") /\ Goto(w, "exit") /\ UNCHANGED rx
  /\ UNCHANGED <<userVars, srvVars, countVars, id>>
--------------------------------------------------------------------------------
(* run_worker.                                                               *)

EnterWorker(w) ==
  /\ pc[w] = "enter"
  /\ connected_worker_count' = connected_worker_count + 1
  /\ Goto(w, "work")
  /\ UNCHANGED <<userVars, srvVars, taskVars, worker_count, is_ok, id, streamVars>>

\* recv and try_recv of _run_worker.
WorkerRecv(w) ==
  /\ \/ pc[w] \in {"work", "burst"} /\ Take(w) /\ Goto(w, "wsend")
     \/ pc[w] = "burst" /\ rx = <<>> /\ Goto(w, "flush") /\ UNCHANGED <<rx, cur>>
     \/ pc[w] = "work" /\ rx = <<>> /\ ~handle /\ Goto(w, "last_flush") /\ UNCHANGED <<rx, cur>>
  /\ UNCHANGED <<userVars, srvVars, fate, countVars, is_ok, id, streamVars>>

WorkerSend(w) ==
  /\ pc[w] = "wsend"
  /\ cur' = [cur EXCEPT ![w] = {}]
  /\ \/ UseOk(w) /\ Settle(cur[w], "sent") /\ Goto(w, "burst")
     \/ UseErr(w) /\ Settle(cur[w], "io") /\ Goto(w, "leave_err")
  /\ UNCHANGED <<userVars, srvVars, rx, countVars, is_ok, id, streamVars>>

WorkerFlush(w) ==
  /\ \/ pc[w] = "flush" /\ UseOk(w) /\ Goto(w, "work")
     \/ pc[w] = "last_flush" /\ UseOk(w) /\ Goto(w, "leave")
     \/ pc[w] \in {"flush", "last_flush"} /\ UseErr(w) /\ Goto(w, "leave_err")
  /\ UNCHANGED <<userVars, srvVars, taskVars, countVars, is_ok, id, streamVars>>

\* The end of run_worker; the counter is raised once more.
LeaveWorker(w) ==
  /\ pc[w] \in {"leave", "leave_err"}
  /\ connected_worker_count' = connected_worker_count + 1
  /\ IF pc[w] = "leave_err" THEN set_err ELSE UNCHANGED is_ok
  /\ Goto(w, "exit")
  /\ UNCHANGED <<userVars, srvVars, taskVars, worker_count, id, streamVars>>

\* The coroutine of spawn_worker ends.
Exit_Uncounted(w) ==
  /\ pc[w] = "exit"
  /\ Goto(w, "none")
  /\ conn' = [conn EXCEPT ![w] = "none"]
  /\ UNCHANGED <<userVars, srvVars, taskVars, countVars, is_ok, id, used>>
Exit(w) ==
  /\ pc[w] = "exit"
  /\ worker_count' = worker_count - 1
  /\ Goto(w, "none")
  /\ conn' = [conn EXCEPT ![w] = "none"]
  /\ UNCHANGED <<userVars, srvVars, taskVars, connected_worker_count, is_ok, id, used>>
--------------------------------------------------------------------------------
WorkerStep(w) ==
  \/ Connect(w) \/ Backoff(w) \/ Monitor(w) \/ Ping(w) \/ MonitorRecv(w) \/ Promote(w)
  \/ MonitorSend(w) \/ EnterWorker(w) \/ WorkerRecv(w) \/ WorkerSend(w)
  \/ WorkerFlush(w) \/ LeaveWorker(w) \/ Exit(w)

Terminated == freed /\ UNCHANGED vars

Next ==
  \/ SendReq \/ Spawn \/ DropPool \/ DropInner \/ Flip \/ Terminated
  \/ \E w \in Worker : WorkerStep(w)

Spec == Init /\ [][Next]_vars

\* The runtime keeps polling the workers and serves their timers; send_task
\* returns, which the throttler and task_timeout see to.
FairSpec == Spec /\ WF_vars(DropInner) /\ \A w \in Worker : WF_vars(WorkerStep(w))
--------------------------------------------------------------------------------
\* Every variable of the pool has its type.
TypeOK ==
  /\ handle \in BOOLEAN /\ is_ok \in BOOLEAN /\ srv \in BOOLEAN /\ freed \in BOOLEAN
  /\ rx \in Seq(Task) /\ Len(rx) <= channel_size
  /\ worker_count \in Nat /\ connected_worker_count \in Nat
  /\ pc \in [Worker -> WorkerPc] /\ id \in [Worker -> Nat]
  /\ conn \in [Worker -> {"none", "ok", "broken"}]
  /\ cur \in [Worker -> SUBSET Task] /\ used \subseteq Worker
  /\ posted \in 0 .. MaxPosts
  /\ fate \in [Task -> {"none", "sent", "io", "unreachable"}]

\* As long as a handle exists there is exactly one monitor: identity passes on
\* without a gap and without a copy, however promotion, spawn, failures and
\* exits interleave; after that there is at most one.
OneMonitor ==
  LET monitors == {w \in Live : id[w] = 0}
  IN  Cardinality(monitors) <= 1 /\ (handle => monitors # {})

\* worker_count, which decides how the monitor acts, is the number of workers that
\* run, the monitor among them.  The comment on the field (client/pool.rs) says "not
\* the monitor"; but spawn counts every worker, the monitor too, run uses 1 as "the
\* monitor is alone", and get_workers returns this number.
WorkersCounted == worker_count = Cardinality(Live)

\* A task posted to the pool is in the channel, in the hands of one worker, or
\* settled, and nowhere twice.
PoolConserved ==
  \A t \in Task :
    LET places == Cardinality({i \in DOMAIN rx : rx[i] = t})
                    + Cardinality({w \in Worker : t \in cur[w]})
                    + (IF fate[t] # "none" THEN 1 ELSE 0)
    IN  places = IF t <= posted THEN 1 ELSE 0

\* Every task posted is handed to a stream or comes back with an error.
TaskServed == \A t \in Task : posted >= t ~> fate[t] # "none"

\* Dropping a pool whose server stays reachable in the end ends its workers and
\* frees it: none waits for ever in the channel, a ping or a back-off.
ReachableExits == <>[]srv => (~handle ~> freed)
================================================================================
