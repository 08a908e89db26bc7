----------------------------- MODULE FailoverPool -----------------------------
(***************************************************************************)
(* FailoverPool (stream/src/client/failover.rs) and the call loop on top   *)
(* of it (src/client/mod.rs): a request is routed to one of several        *)
(* ConnPools, goes to the retry coroutine when it comes back with a        *)
(* retryable error, and is resubmitted by its caller when the server       *)
(* answers with a redirect.  The cluster configuration may change at any   *)
(* time.  A ConnPool is reduced to what is seen of it: it answers every    *)
(* request it takes (TaskServed of ConnPool), and once it has reported an  *)
(* error it stays unhealthy.  max_retries of FailoverTask is 0, as every   *)
(* caller passes None.                                                     *)
(***************************************************************************)
EXTENDS Naturals, Sequences, FiniteSets, Functions

CONSTANTS
  Call,          \* requests
  Raw,           \* those sent with send_req alone; the others use call
  Addr,          \* server addresses
  Addrs,         \* the addresses given to new
  Updates,       \* the address lists update_addrs may be given
  Stateless,     \* the stateless argument of new
  RetryLimit,    \* the retry_limit argument of new
  MaxUpdates,    \* bound: how often update_addrs is called
  MaxSick        \* bound: how many pools become unhealthy

ASSUME FailoverAssumption ==
  /\ Raw \subseteq Call
  /\ Addrs \in Seq(Addr) /\ Updates \subseteq Seq(Addr)
  /\ Stateless \in BOOLEAN
  /\ RetryLimit \in Nat /\ MaxUpdates \in Nat /\ MaxSick \in Nat

VARIABLES
  pools,         \* the ClusterConfig: a version and a list of pools
  next_node,
  sick,          \* the pools whose is_healthy is false
  retry_rx,      \* channel to the retry coroutine
  retrying,      \* the request in that coroutine's hands (a set of at most one)
  handle,        \* some clone of the FailoverPool is alive
  pc,            \* where each request is
  at,            \* the pool it was last sent to
  task,          \* the fields of its FailoverTask
  retry_count,   \* of the call loop
  wish,          \* where the server asked it to go
  snap,          \* the configuration its router has loaded
  sends,         \* how often it was sent to a pool
  updates,       \* how often update_addrs was called
  leader         \* the address a redirect last made the leader

taskVars == <<pc, at, task, retry_count, wish, snap, sends>>
poolVars == <<pools, next_node, sick, handle, updates, leader>>
workerVars == <<retry_rx, retrying>>
vars == <<taskVars, poolVars, workerVars>>

\* A ConnPool is known by its address and the configuration that created it.
Pool(a, v) == <<a, v>>
FreshTask == [last_index |-> 0, config_ver |-> 0, retry |-> 0, should_retry |-> FALSE]

Init ==
  /\ pools = [ver |-> 0, list |-> [i \in DOMAIN Addrs |-> Pool(Addrs[i], 0)]]
  /\ next_node = 0 /\ sick = {} /\ handle = TRUE /\ updates = 0
  /\ leader = {}
  /\ retry_rx = <<>> /\ retrying = {}
  /\ pc = [c \in Call |-> "idle"]
  /\ at = [c \in Call |-> <<>>]
  /\ task = [c \in Call |-> FreshTask]
  /\ retry_count = [c \in Call |-> 0]
  /\ wish = [c \in Call |-> {}]
  /\ snap = [c \in Call |-> [ver |-> 0, list |-> <<>>]]
  /\ sends = [c \in Call |-> 0]
--------------------------------------------------------------------------------
(* ClusterConfig.                                                            *)

\* The indices select tries, in order, that lead to a healthy pool.  An index
\* is not reduced modulo the number of pools before it is remembered.
Candidates(cl, seed) ==
  LET l == Len(cl.list)
  IN  {i \in seed .. seed + l - 1 : cl.list[(i % l) + 1] \notin sick}

PoolAt(cl, i) == cl.list[(i % Len(cl.list)) + 1]

\* The index select returns for seed, as a set of at most one.
select(cl, seed) ==
  IF cl.list = <<>> THEN {}
  ELSE {i \in Candidates(cl, seed) : \A j \in Candidates(cl, seed) : i <= j}

\* The seed of a first selection comes from next_node, which a stateless pool
\* advances.
advance(cl) == next_node' = IF Stateless /\ cl.list # <<>> THEN next_node + 1 ELSE next_node

\* The seed of a retry is the index after the last one.
backup_Same(index) == index
backup(index) == index + 1

IndexOf(cl, a) == {i \in DOMAIN cl.list : cl.list[i][1] = a}
--------------------------------------------------------------------------------
Goto(c, l) == pc' = [pc EXCEPT ![c] = l]

\* pool.send_req of a FailoverTask.
SendTo(c, p, t) ==
  /\ Goto(c, "pool")
  /\ at' = [at EXCEPT ![c] = p]
  /\ task' = [task EXCEPT ![c] = t]
  /\ sends' = [sends EXCEPT ![c] = @ + 1]

NotSent == UNCHANGED <<at, task, sends>>

\* send_req loads the configuration and then selects from it.
Load(c) ==
  /\ handle
  /\ pc[c] = "idle"
  /\ Goto(c, "route")
  /\ snap' = [snap EXCEPT ![c] = pools]
  /\ UNCHANGED <<at, task, retry_count, wish, sends, poolVars, workerVars>>

send_req(c) ==
  /\ pc[c] = "route"
  /\ advance(snap[c])
  /\ \/ \E i \in select(snap[c], next_node) :
          SendTo(c, PoolAt(snap[c], i),
                 [FreshTask EXCEPT !.last_index = i, !.config_ver = snap[c].ver])
     \/ /\ select(snap[c], next_node) = {}
        /\ Goto(c, "returned")
        /\ NotSent
  /\ UNCHANGED <<retry_count, wish, snap, pools, sick, handle, updates, leader, workerVars>>
--------------------------------------------------------------------------------
(* The answer of a pool: FailoverTask's setters and error_handle.            *)

AnswerOk(c) ==
  /\ pc[c] = "pool"
  /\ Goto(c, "returned")
  /\ NotSent
  /\ UNCHANGED <<retry_count, wish, snap, poolVars, workerVars>>

\* set_rpc_error with an error below RpcIntErr::Method is worth a retry.
set_rpc_error(c, retriable) ==
  [task[c] EXCEPT !.should_retry = retriable, !.retry = IF retriable THEN @ + 1 ELSE @]

error_handle(c, t) ==
  IF t.should_retry /\ t.retry <= RetryLimit
  THEN Goto(c, "queued") /\ retry_rx' = Append(retry_rx, c)
  ELSE Goto(c, "returned") /\ UNCHANGED retry_rx

AnswerRpcError(c) ==
  /\ pc[c] = "pool"
  /\ \E retriable \in BOOLEAN :
       /\ task' = [task EXCEPT ![c] = set_rpc_error(c, retriable)]
       /\ error_handle(c, set_rpc_error(c, retriable))
  /\ UNCHANGED <<at, sends, retry_count, wish, snap, poolVars, retrying>>

\* set_custom_error: the error is the caller's business.
AnswerUserError(c) ==
  /\ pc[c] = "pool"
  /\ task' = [task EXCEPT ![c].should_retry = FALSE]
  /\ \/ Goto(c, "returned") /\ UNCHANGED wish
     \/ /\ c \notin Raw
        /\ Goto(c, "user_err")
        /\ \E w \in {{}} \union {{a} : a \in Addr} : wish' = [wish EXCEPT ![c] = w]
  /\ UNCHANGED <<at, sends, retry_count, snap, poolVars, workerVars>>

Answer(c) == AnswerOk(c) \/ AnswerRpcError(c) \/ AnswerUserError(c)
--------------------------------------------------------------------------------
(* The call loop, and resubmit.                                              *)

\* The caller counts the attempt, looks whether one is left, and calls resubmit,
\* which loads the configuration.
CallLoop_OneMore(c) ==
  /\ pc[c] = "user_err"
  /\ retry_count' = [retry_count EXCEPT ![c] = @ + 1]
  /\ Goto(c, IF retry_count[c] + 1 > RetryLimit THEN "returned"
             ELSE IF wish[c] = {} THEN "resubmit" ELSE "redirect")
  /\ snap' = [snap EXCEPT ![c] = pools]
  /\ NotSent
  /\ UNCHANGED <<wish, poolVars, workerVars>>
CallLoop(c) ==
  /\ pc[c] = "user_err"
  /\ retry_count' = [retry_count EXCEPT ![c] = @ + 1]
  /\ Goto(c, IF retry_count[c] + 1 >= RetryLimit THEN "returned"
             ELSE IF wish[c] = {} THEN "resubmit" ELSE "redirect")
  /\ snap' = [snap EXCEPT ![c] = pools]
  /\ NotSent
  /\ UNCHANGED <<wish, poolVars, workerVars>>

\* resubmit to the next node of what it loaded, starting from the last index
\* whatever the configuration it was an index of.
ResubmitNext(c) ==
  /\ pc[c] = "resubmit"
  /\ \/ \E i \in select(snap[c], backup(task[c].last_index)) :
          SendTo(c, PoolAt(snap[c], i),
                 [FreshTask EXCEPT !.last_index = i, !.config_ver = snap[c].ver])
     \/ /\ select(snap[c], backup(task[c].last_index)) = {}
        /\ Goto(c, "returned")
        /\ NotSent
  /\ UNCHANGED <<retry_count, wish, snap, poolVars, workerVars>>

\* get_or_add_addr: the pool of the address, or a new one at the front.  What it
\* returns (the configuration, in which the address has its index) is in snap.
get_or_add_addr(c) ==
  /\ pc[c] = "redirect"
  /\ LET a == CHOOSE x \in wish[c] : TRUE
         v == pools.ver + 1
         new == IF IndexOf(pools, a) # {} THEN pools
                ELSE [ver |-> v, list |-> <<Pool(a, v)>> \o pools.list]
     IN  pools' = new /\ snap' = [snap EXCEPT ![c] = new]
  /\ Goto(c, "found")
  /\ NotSent
  /\ UNCHANGED <<retry_count, wish, next_node, sick, handle, updates, leader, workerVars>>

\* resubmit makes the index it was given the leader and sends, healthy or not.
ResubmitTo(c) ==
  /\ pc[c] = "found"
  /\ LET i == CHOOSE i \in IndexOf(snap[c], CHOOSE x \in wish[c] : TRUE) : TRUE
     IN  /\ next_node' = i - 1
         /\ SendTo(c, snap[c].list[i],
                   [FreshTask EXCEPT !.last_index = i - 1, !.config_ver = snap[c].ver,
                                     !.retry = retry_count[c]])
  /\ leader' = wish[c]
  /\ UNCHANGED <<retry_count, wish, snap, pools, sick, handle, updates, workerVars>>
--------------------------------------------------------------------------------
(* retry_worker.                                                             *)

\* It receives a request and, if the pool still exists, loads the
\* configuration; otherwise the request is done.
RetryRecv(c) ==
  /\ retrying = {}
  /\ retry_rx # <<>>
  /\ c = Head(retry_rx)
  /\ retry_rx' = Tail(retry_rx)
  /\ \/ /\ handle
        /\ retrying' = {c}
        /\ snap' = [snap EXCEPT ![c] = pools]
        /\ UNCHANGED pc
     \/ ~handle /\ Goto(c, "returned") /\ UNCHANGED <<retrying, snap>>
  /\ NotSent
  /\ UNCHANGED <<retry_count, wish, poolVars>>

\* In the configuration the request knows it moves on to the next node; in a
\* new one its selection starts afresh.
RetryRoute_Drops(c) ==
  /\ c \in retrying
  /\ retrying' = {}
  /\ LET same == snap[c].ver = task[c].config_ver
         seed == IF same THEN backup(task[c].last_index) ELSE next_node
     IN  /\ IF same THEN UNCHANGED next_node ELSE advance(snap[c])
         /\ \/ \E i \in select(snap[c], seed) :
                 SendTo(c, PoolAt(snap[c], i),
                        [task[c] EXCEPT !.last_index = i, !.config_ver = snap[c].ver])
            \/ /\ select(snap[c], seed) = {}
               /\ UNCHANGED <<pc, at, task, sends>>
  /\ UNCHANGED <<retry_count, wish, snap, pools, sick, handle, updates, leader, retry_rx>>
RetryRoute_Requeues(c) ==
  /\ c \in retrying
  /\ retrying' = {}
  /\ LET same == snap[c].ver = task[c].config_ver
         seed == IF same THEN backup(task[c].last_index) ELSE next_node
     IN  /\ IF same THEN UNCHANGED next_node ELSE advance(snap[c])
         /\ \/ \E i \in select(snap[c], seed) :
                 /\ SendTo(c, PoolAt(snap[c], i),
                           [task[c] EXCEPT !.last_index = i, !.config_ver = snap[c].ver])
                 /\ UNCHANGED retry_rx
            \/ /\ select(snap[c], seed) = {}
               /\ retry_rx' = Append(retry_rx, c)
               /\ UNCHANGED <<pc, at, task, sends>>
  /\ UNCHANGED <<retry_count, wish, snap, pools, sick, handle, updates, leader>>
RetryRoute(c) ==
  /\ c \in retrying
  /\ retrying' = {}
  /\ LET same == snap[c].ver = task[c].config_ver
         seed == IF same THEN backup(task[c].last_index) ELSE next_node
     IN  /\ IF same THEN UNCHANGED next_node ELSE advance(snap[c])
         /\ \/ \E i \in select(snap[c], seed) :
                 SendTo(c, PoolAt(snap[c], i),
                        [task[c] EXCEPT !.last_index = i, !.config_ver = snap[c].ver])
            \/ /\ select(snap[c], seed) = {}
               /\ Goto(c, "returned")
               /\ NotSent
  /\ UNCHANGED <<retry_count, wish, snap, pools, sick, handle, updates, leader, retry_rx>>
--------------------------------------------------------------------------------
(* The rest of the program.                                                  *)

\* update_addrs keeps the pool of an address that stays.  A list names an address
\* once; the code makes the second of two copies a pool of its own.
update_addrs(l) ==
  /\ handle
  /\ updates < MaxUpdates
  /\ updates' = updates + 1
  /\ LET v == pools.ver + 1
         kept(a) == IndexOf(pools, a)
     IN  pools' = [ver |-> v,
                   list |-> [i \in DOMAIN l |->
                               IF kept(l[i]) # {}
                               THEN pools.list[CHOOSE k \in kept(l[i]) : TRUE]
                               ELSE Pool(l[i], v)]]
  /\ UNCHANGED <<taskVars, next_node, sick, handle, leader, workerVars>>

\* A pool reports an error.
set_err(p) ==
  /\ Cardinality(sick) < MaxSick
  /\ sick' = sick \union {p}
  /\ UNCHANGED <<taskVars, pools, next_node, handle, updates, leader, workerVars>>

\* The last clone goes; a running call or send_req, and a retry_worker that has
\* upgraded its reference, hold one.
DropHandle ==
  /\ handle
  /\ retrying = {}
  /\ \A c \in Call : pc[c] \in {"idle", "returned"} \/ (c \in Raw /\ pc[c] \in {"pool", "queued"})
  /\ handle' = FALSE
  /\ UNCHANGED <<taskVars, pools, next_node, sick, updates, leader, workerVars>>

Caller(c) ==
  send_req(c) \/ CallLoop(c) \/ ResubmitNext(c) \/ get_or_add_addr(c) \/ ResubmitTo(c)

retry_worker == \E c \in Call : RetryRecv(c) \/ RetryRoute(c)

Terminated == ~handle /\ (\A c \in Call : pc[c] \in {"idle", "returned"}) /\ UNCHANGED vars

Next ==
  \/ \E c \in Call : Load(c) \/ Caller(c) \/ Answer(c)
  \/ retry_worker
  \/ \E l \in Updates : update_addrs(l)
  \/ \E p \in Range(pools.list) : set_err(p)
  \/ DropHandle \/ Terminated

Spec == Init /\ [][Next]_vars

\* Callers and the retry coroutine keep being polled, and a pool answers every
\* request it takes.
FairSpec ==
  Spec /\ WF_vars(retry_worker) /\ \A c \in Call : WF_vars(Caller(c)) /\ WF_vars(Answer(c))
--------------------------------------------------------------------------------
\* Every variable of the pool has its type.
TypeOK ==
  /\ pools.ver \in Nat /\ \A i \in DOMAIN pools.list : pools.list[i] \in Addr \X Nat
  /\ next_node \in Nat /\ Cardinality(sick) <= MaxSick
  /\ handle \in BOOLEAN /\ updates \in 0 .. MaxUpdates /\ Cardinality(leader) <= 1
  /\ retry_rx \in Seq(Call) /\ Cardinality(retrying) <= 1 /\ retrying \subseteq Call
  /\ pc \in [Call -> {"idle", "route", "pool", "queued", "user_err", "resubmit", "redirect",
                      "found", "returned"}]
  /\ \A c \in Call :
       task[c] \in [last_index : Nat, config_ver : 0 .. pools.ver,
                    retry : 0 .. RetryLimit + 1, should_retry : BOOLEAN]
  /\ retry_count \in [Call -> 0 .. RetryLimit + 1]

\* How often a request may reach a server: the retry coroutine resends each
\* submission at most retry_limit times, and the call loop makes at most
\* retry_limit submissions, however redirects, errors and new configurations
\* mix.
SendsBounded ==
  \A c \in Call :
    sends[c] <= (RetryLimit + 1) * (IF c \in Raw \/ RetryLimit = 0 THEN 1 ELSE RetryLimit)

\* A request waits for the retry coroutine exactly while it is in its channel or
\* in its hands, and never twice: none is lost or sent twice on the way.
QueuedOnce ==
  /\ IsInjective(retry_rx)
  /\ Range(retry_rx) \intersect retrying = {}
  /\ {c \in Call : pc[c] = "queued"} = Range(retry_rx) \union retrying

\* A retry in an unchanged configuration does not go back to the pool that just
\* failed while another one is healthy.
RetryMovesOn ==
  [][\A c \in retrying :
       ( /\ pc'[c] = "pool"
         /\ snap[c].ver = task[c].config_ver
         /\ \E p \in Range(snap[c].list) \ sick : p # at[c] ) => at'[c] # at[c]]_vars

\* Every call and every request sent comes back: again and again there is a moment
\* at which none is under way (a request of Call is made once).
CallReturns == []<>(\A c \in Call : pc[c] \in {"idle", "returned"})

\* With a leader (stateless = FALSE), no error and no redirect under way, a new
\* request goes to the address the last redirect made the leader, if the
\* configuration has it.
LeaderPicked ==
  [][\A c \in Call :
       ( /\ pc[c] = "route" /\ pc'[c] = "pool"
         /\ ~Stateless /\ sick = {} /\ \A d \in Call : pc[d] # "found"
         /\ \E p \in Range(snap[c].list) : p[1] \in leader ) => at'[c][1] \in leader]_vars
================================================================================
