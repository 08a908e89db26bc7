-------------------------- MODULE FailoverPoolProofs --------------------------
(***************************************************************************)
(* The safety of the failover pool for every number of requests, servers   *)
(* and configuration changes, and every retry_limit: requests that wait    *)
(* for the retry coroutine are not lost or doubled, the two retry loops    *)
(* together stay within their budget of sends, and a retry goes to another *)
(* pool than the one that failed.                                          *)
(***************************************************************************)
EXTENDS FailoverPool, TLAPS

\* A step may use this fact and gains nothing from it, but a record update among its
\* facts spares tlapm the inference of types, which takes most of the time otherwise.
LEMMA RecordUpdate == \A r : [r EXCEPT !.field = 1] = [r EXCEPT !.field = 1]
OBVIOUS

USE RecordUpdate

(* What a channel holds, which is modelled as a sequence. *)

\* An empty channel holds nothing, and nothing twice.
LEMMA RangeEmpty == Range(<<>>) = {} /\ IsInjective(<<>>)
BY DEF Range, IsInjective

\* Sending one element into a channel adds it to the channel's contents.
LEMMA RangeAppend ==
  ASSUME NEW S, NEW s \in Seq(S), NEW x \in S
  PROVE  Range(Append(s, x)) = Range(s) \cup {x}
<1>1. /\ Len(Append(s, x)) = Len(s) + 1
      /\ \A i \in 1 .. Len(s) : Append(s, x)[i] = s[i]
      /\ Append(s, x)[Len(s) + 1] = x
  OBVIOUS
<1>2. DOMAIN s = 1 .. Len(s) /\ DOMAIN Append(s, x) = 1 .. Len(s) + 1 /\ Len(s) \in Nat
  OBVIOUS
<1>3. ASSUME NEW y \in Range(Append(s, x)) PROVE y \in Range(s) \cup {x}
  BY <1>1, <1>2 DEF Range
<1>4. ASSUME NEW y \in Range(s) \cup {x} PROVE y \in Range(Append(s, x))
  BY <1>1, <1>2 DEF Range
<1> QED BY <1>3, <1>4

\* Sending an element that is not in the channel puts nothing there twice.
LEMMA InjAppend ==
  ASSUME NEW S, NEW s \in Seq(S), NEW x \in S, IsInjective(s), x \notin Range(s)
  PROVE  IsInjective(Append(s, x))
<1>1. DOMAIN s = 1 .. Len(s) /\ DOMAIN Append(s, x) = 1 .. Len(s) + 1 /\ Len(s) \in Nat
  OBVIOUS
<1>2. /\ \A i \in 1 .. Len(s) : Append(s, x)[i] = s[i]
      /\ Append(s, x)[Len(s) + 1] = x
  OBVIOUS
<1>3. \A i \in 1 .. Len(s) : s[i] # x
  BY <1>1 DEF Range
<1> QED BY <1>1, <1>2, <1>3 DEF IsInjective

\* Receiving from a channel takes away its head and nothing else.
LEMMA Received ==
  ASSUME NEW S, NEW s \in Seq(S), s # <<>>
  PROVE  /\ Head(s) \in S /\ Tail(s) \in Seq(S)
         /\ Range(s) = {Head(s)} \cup Range(Tail(s))
         /\ IsInjective(s) => IsInjective(Tail(s)) /\ Head(s) \notin Range(Tail(s))
<1> DEFINE t == Tail(s)
<1>1. /\ Head(s) \in S /\ t \in Seq(S) /\ Head(s) = s[1] /\ Len(s) \in Nat /\ Len(s) > 0
      /\ DOMAIN s = 1 .. Len(s) /\ DOMAIN t = 1 .. Len(s) - 1
      /\ \A i \in 1 .. Len(s) - 1 : t[i] = s[i + 1]
  OBVIOUS
<1> HIDE DEF t
<1>2. \A i \in 1 .. Len(s) : i = 1 \/ (i - 1 \in 1 .. Len(s) - 1 /\ s[i] = t[i - 1])
  <2>1. ASSUME NEW i \in 1 .. Len(s), i # 1 PROVE i - 1 \in 1 .. Len(s) - 1 /\ s[i] = t[i - 1]
    <3>1. i - 1 \in 1 .. Len(s) - 1 /\ (i - 1) + 1 = i
      BY <2>1, <1>1
    <3> QED BY <3>1, <1>1
  <2> QED BY <2>1
<1>3. Range(s) \subseteq {Head(s)} \cup Range(t)
  BY <1>1, <1>2 DEF Range
<1>4. Head(s) \in Range(s)
  BY <1>1 DEF Range
<1>5. Range(t) \subseteq Range(s)
  <2>1. ASSUME NEW i \in 1 .. Len(s) - 1 PROVE i + 1 \in DOMAIN s /\ t[i] = s[i + 1]
    BY <1>1
  <2> QED BY <2>1, <1>1 DEF Range
<1>6. ASSUME IsInjective(s) PROVE IsInjective(t) /\ Head(s) \notin Range(t)
  <2>1. ASSUME NEW i \in 1 .. Len(s) - 1, NEW j \in 1 .. Len(s) - 1, t[i] = t[j]
        PROVE  i = j
    <3>1. i + 1 \in DOMAIN s /\ j + 1 \in DOMAIN s /\ s[i + 1] = s[j + 1]
      BY <1>1, <2>1
    <3>2. i + 1 = j + 1
      BY <3>1, <1>6 DEF IsInjective
    <3> QED BY <3>2
  <2>2. ASSUME NEW i \in 1 .. Len(s) - 1 PROVE t[i] # Head(s)
    <3>1. i + 1 \in DOMAIN s /\ 1 \in DOMAIN s /\ i + 1 # 1 /\ t[i] = s[i + 1]
      BY <1>1
    <3> QED BY <3>1, <1>1, <1>6 DEF IsInjective
  <2> QED BY <2>1, <2>2, <1>1 DEF IsInjective, Range
<1> QED BY <1>1, <1>3, <1>4, <1>5, <1>6 DEF t

--------------------------------------------------------------------------------

Place == {"idle", "route", "pool", "queued", "user_err", "resubmit", "redirect", "found",
          "returned"}
Config == [ver : Nat, list : Seq(Addr \X Nat)]
TaskRec == [last_index : Nat, config_ver : Nat, retry : Nat, should_retry : BOOLEAN]

\* The sends of k submissions, each of which may be retried retry_limit times.
Cost(k) == (RetryLimit + 1) * k

Limit(c) == (RetryLimit + 1) * (IF c \in Raw \/ RetryLimit = 0 THEN 1 ELSE RetryLimit)

\* What a request may have used of its budget when it is at l, its FailoverTask
\* was retried r times, its call loop has counted k errors, and it was sent n
\* times.
Budget(c, l, r, k, n) ==
  /\ (l \in {"idle", "route"} => r = 0 /\ k = 0 /\ n = 0)
  /\ (l = "pool" => r <= RetryLimit /\ n <= Cost(k) + r + 1)
  /\ (l = "queued" => r <= RetryLimit /\ n <= Cost(k) + r)
  /\ (l = "user_err" => n <= Cost(k + 1))
  /\ (l \in {"resubmit", "redirect", "found"} => n <= Cost(k) /\ k < RetryLimit)
  /\ (l # "returned" => k = 0 \/ k < RetryLimit)
  /\ r <= RetryLimit + 1 /\ k <= RetryLimit + 1
  /\ (c \in Raw => k = 0 /\ l \notin {"user_err", "resubmit", "redirect", "found"})
  /\ n <= Limit(c)

InBudget(c) == Budget(c, pc[c], task[c].retry, retry_count[c], sends[c])

\* A redirect names one address, which the configuration in the caller's hands
\* has once get_or_add_addr is through.
Wished(c) ==
  /\ wish[c] = {} \/ \E a \in Addr : wish[c] = {a}
  /\ (pc[c] \in {"redirect", "found"} => wish[c] # {})
  /\ (pc[c] = "found" => \A a \in wish[c] : IndexOf(snap[c], a) # {})

\* No configuration in use is newer than the pool's.
Known(c) == snap[c].ver <= pools.ver /\ task[c].config_ver <= pools.ver

CallTypes ==
  /\ pc \in [Call -> Place] /\ task \in [Call -> TaskRec] /\ retry_count \in [Call -> Nat]
  /\ wish \in [Call -> SUBSET Addr] /\ snap \in [Call -> Config] /\ sends \in [Call -> Nat]

PoolTypes ==
  /\ pools \in Config /\ next_node \in Nat
  /\ handle \in BOOLEAN /\ updates \in 0 .. MaxUpdates
  /\ (leader = {} \/ \E a \in Addr : leader = {a})

Queue ==
  /\ retry_rx \in Seq(Call)
  /\ (retrying = {} \/ \E c \in Call : retrying = {c})
  /\ QueuedOnce

Inv == CallTypes /\ PoolTypes /\ Queue /\ \A c \in Call : InBudget(c) /\ Wished(c) /\ Known(c)
--------------------------------------------------------------------------------
(* The arithmetic of the budget.                                             *)

LEMMA CostStep ==
  ASSUME NEW k \in Nat
  PROVE  Cost(k) \in Nat /\ Cost(k + 1) = Cost(k) + RetryLimit + 1 /\ Cost(0) = 0
BY FailoverAssumption, SMTT(20) DEF Cost

LEMMA CostBound ==
  ASSUME NEW c, NEW k \in Nat, k = 0 \/ k < RetryLimit, c \in Raw => k = 0
  PROVE  Limit(c) \in Nat /\ Cost(k + 1) <= Limit(c)
<1> DEFINE R == RetryLimit
<1>1. R \in Nat
  BY FailoverAssumption
<1>2. CASE c \in Raw \/ R = 0
  BY <1>1, <1>2 DEF Limit, Cost
<1>3. CASE ~(c \in Raw \/ R = 0)
  <2>1. k + 1 <= R /\ k + 1 \in Nat /\ R + 1 \in Nat
    BY <1>1, <1>3
  <2>2. (R + 1) * (k + 1) <= (R + 1) * R
    <3>1. \A x, y, z \in Nat : x <= y => z * x <= z * y
      OBVIOUS
    <3> QED BY <1>1, <2>1, <3>1
  <2>3. Limit(c) = (R + 1) * R /\ (R + 1) * R \in Nat
    BY <1>1, <1>3 DEF Limit
  <2> QED BY <2>2, <2>3 DEF Cost
<1> QED BY <1>2, <1>3

\* The moves a request makes.
LEMMA Moves ==
  ASSUME NEW c, NEW l \in Place, NEW r \in Nat, NEW k \in Nat, NEW n \in Nat,
         Budget(c, l, r, k, n)
  PROVE  /\ (l = "idle" => Budget(c, "route", r, k, n))
         /\ (l = "route" => Budget(c, "pool", 0, k, n + 1))
         /\ Budget(c, "returned", r, k, n)
         /\ (l = "pool" => Budget(c, "returned", r + 1, k, n))
         /\ (l = "pool" /\ r + 1 <= RetryLimit => Budget(c, "queued", r + 1, k, n))
         /\ (l = "pool" /\ c \notin Raw => Budget(c, "user_err", r, k, n))
         /\ (l = "user_err" => Budget(c, "returned", r, k + 1, n))
         /\ (l = "user_err" /\ k + 1 < RetryLimit =>
               Budget(c, "resubmit", r, k + 1, n) /\ Budget(c, "redirect", r, k + 1, n))
         /\ (l = "resubmit" => Budget(c, "pool", 0, k, n + 1))
         /\ (l = "redirect" => Budget(c, "found", r, k, n))
         /\ (l = "found" => Budget(c, "pool", k, k, n + 1))
         /\ (l = "queued" => Budget(c, "pool", r, k, n + 1))
<1> DEFINE R == RetryLimit
<1>1. R \in Nat /\ Cost(k) \in Nat /\ Cost(k + 1) = Cost(k) + R + 1
  BY FailoverAssumption, CostStep
<1>2. l # "returned" => Limit(c) \in Nat /\ Cost(k + 1) <= Limit(c)
  BY CostBound DEF Budget
<1>3. l \in {"idle", "route", "resubmit", "found", "queued"} => n + 1 <= Limit(c)
  BY <1>1, <1>2 DEF Budget
<1> HIDE DEF R
<1>4. l = "idle" => Budget(c, "route", r, k, n)
  BY DEF Budget
<1>5. l = "route" => Budget(c, "pool", 0, k, n + 1)
  BY <1>1, <1>3 DEF Budget, R
<1>6. Budget(c, "returned", r, k, n)
  BY DEF Budget
<1>7. l = "pool" => Budget(c, "returned", r + 1, k, n)
  BY <1>1 DEF Budget, R
<1>8. l = "pool" /\ r + 1 <= RetryLimit => Budget(c, "queued", r + 1, k, n)
  BY <1>1 DEF Budget, R
<1>9. l = "pool" /\ c \notin Raw => Budget(c, "user_err", r, k, n)
  BY <1>1 DEF Budget, R
<1>10. l = "user_err" => Budget(c, "returned", r, k + 1, n)
  BY <1>1 DEF Budget, R
<1>11. l = "user_err" /\ k + 1 < RetryLimit =>
         Budget(c, "resubmit", r, k + 1, n) /\ Budget(c, "redirect", r, k + 1, n)
  BY <1>1 DEF Budget, R
<1>12. l = "resubmit" => Budget(c, "pool", 0, k, n + 1)
  BY <1>1, <1>3 DEF Budget, R
<1>13. l = "redirect" => Budget(c, "found", r, k, n)
  BY DEF Budget
<1>14. l = "found" => Budget(c, "pool", k, k, n + 1)
  BY <1>1, <1>3 DEF Budget, R
<1>15. l = "queued" => Budget(c, "pool", r, k, n + 1)
  BY <1>1, <1>3 DEF Budget, R
<1> QED BY <1>4, <1>5, <1>6, <1>7, <1>8, <1>9, <1>10, <1>11, <1>12, <1>13, <1>14, <1>15
--------------------------------------------------------------------------------
(* The configuration.                                                        *)

\* The index select returns is a number, never negative.
LEMMA Selected ==
  ASSUME NEW cl \in Config, NEW seed \in Nat, NEW i \in select(cl, seed)
  PROVE  i \in Nat
<1>1. cl.list # <<>> /\ i \in Candidates(cl, seed)
  BY DEF select
<1>2. i \in seed .. seed + Len(cl.list) - 1
  BY <1>1 DEF Candidates
<1> QED BY <1>2 DEF Config

\* The address a redirect names.
LEMMA Named ==
  ASSUME NEW c \in Call, CallTypes, Wished(c), pc[c] \in {"redirect", "found"}
  PROVE  /\ (CHOOSE x \in wish[c] : TRUE) \in wish[c] /\ (CHOOSE x \in wish[c] : TRUE) \in Addr
         /\ \E a \in Addr : wish[c] = {a}
BY DEF Wished, CallTypes

\* The index of an address in a configuration.
LEMMA Indexed ==
  ASSUME NEW cl \in Config, NEW a, IndexOf(cl, a) # {}
  PROVE  /\ (CHOOSE i \in IndexOf(cl, a) : TRUE) \in DOMAIN cl.list
         /\ (CHOOSE i \in IndexOf(cl, a) : TRUE) - 1 \in Nat
<1> DEFINE i == CHOOSE i \in IndexOf(cl, a) : TRUE
<1>1. i \in IndexOf(cl, a)
  OBVIOUS
<1> HIDE DEF i
<1>2. i \in DOMAIN cl.list /\ cl.list \in Seq(Addr \X Nat)
  BY <1>1 DEF IndexOf, Config
<1>3. i \in 1 .. Len(cl.list)
  BY <1>2
<1>4. i - 1 \in Nat
  BY <1>3, <1>2
<1> QED BY <1>2, <1>4 DEF i

\* A step that leaves the pool's own state alone.
LEMMA PoolSame ==
  ASSUME PoolTypes, UNCHANGED poolVars
  PROVE  PoolTypes' /\ pools'.ver >= pools.ver
BY DEF PoolTypes, poolVars, Config

\* next_node moves on.
LEMMA PoolAdvance ==
  ASSUME PoolTypes, next_node' \in Nat, UNCHANGED <<pools, sick, handle, updates, leader>>
  PROVE  PoolTypes' /\ pools'.ver >= pools.ver
BY DEF PoolTypes, Config

LEMMA AddAddr ==
  ASSUME Inv, NEW c \in Call, get_or_add_addr(c)
  PROVE  /\ PoolTypes' /\ pools'.ver >= pools.ver
         /\ snap' = [snap EXCEPT ![c] = pools']
         /\ \A a \in wish[c] : IndexOf(pools', a) # {}
<1> DEFINE a == CHOOSE x \in wish[c] : TRUE
           v == pools.ver + 1
           new == [ver |-> v, list |-> <<Pool(a, v)>> \o pools.list]
<1>1. /\ pc[c] = "redirect"
      /\ pools' = (IF IndexOf(pools, a) # {} THEN pools ELSE new)
      /\ snap' = [snap EXCEPT ![c] = pools']
      /\ UNCHANGED <<next_node, sick, handle, updates, leader>>
  BY DEF get_or_add_addr
<1>2. a \in wish[c] /\ a \in Addr /\ \A b \in wish[c] : b = a
  BY <1>1, Named DEF Inv
<1>3. pools \in Config /\ pools.ver \in Nat /\ v \in Nat /\ pools.list \in Seq(Addr \X Nat)
  BY DEF Inv, PoolTypes, Config
<1> HIDE DEF a, v
<1>4. /\ new \in Config /\ new.ver = v /\ new.list[1] = <<a, v>> /\ 1 \in DOMAIN new.list
  <2>1. <<Pool(a, v)>> \in Seq(Addr \X Nat)
    BY <1>2, <1>3 DEF Pool
  <2> QED BY <1>3, <2>1 DEF Config, Pool
<1>5. IndexOf(new, a) # {}
  <2>1. new.list[1][1] = a
    BY <1>4
  <2> QED BY <1>4, <2>1 DEF IndexOf
<1> HIDE DEF new
<1>6. pools' \in Config /\ pools'.ver >= pools.ver /\ IndexOf(pools', a) # {}
  <2>1. v >= pools.ver
    BY <1>3 DEF v
  <2>2. CASE IndexOf(pools, a) # {}
    BY <1>1, <1>3, <2>2
  <2>3. CASE ~(IndexOf(pools, a) # {})
    BY <1>1, <1>4, <1>5, <2>1, <2>3
  <2> QED BY <2>2, <2>3
<1> QED BY <1>1, <1>2, <1>6 DEF Inv, PoolTypes

LEMMA UpdateAddrs ==
  ASSUME Inv, NEW l \in Updates, update_addrs(l)
  PROVE  PoolTypes' /\ pools'.ver >= pools.ver
<1> DEFINE v == pools.ver + 1
           pool(i) == IF IndexOf(pools, l[i]) # {}
                      THEN pools.list[CHOOSE k \in IndexOf(pools, l[i]) : TRUE]
                      ELSE Pool(l[i], v)
           list == [i \in DOMAIN l |-> pool(i)]
<1>1. /\ pools' = [ver |-> v, list |-> list] /\ updates < MaxUpdates /\ updates' = updates + 1
      /\ UNCHANGED <<next_node, sick, handle, leader>>
  BY DEF update_addrs
<1>2. /\ l \in Seq(Addr) /\ pools \in Config /\ v \in Nat /\ pools.list \in Seq(Addr \X Nat)
      /\ pools.ver \in Nat /\ updates \in 0 .. MaxUpdates /\ MaxUpdates \in Nat
  BY FailoverAssumption DEF Inv, PoolTypes, Config
<1>3. ASSUME NEW i \in DOMAIN l PROVE pool(i) \in Addr \X Nat
  <2>1. l[i] \in Addr
    BY <1>2
  <2>2. CASE IndexOf(pools, l[i]) # {}
    <3>1. (CHOOSE k \in IndexOf(pools, l[i]) : TRUE) \in DOMAIN pools.list
      BY <1>2, <2>2, Indexed
    <3> QED BY <1>2, <2>2, <3>1
  <2>3. CASE ~(IndexOf(pools, l[i]) # {})
    BY <1>2, <2>1, <2>3 DEF Pool
  <2> QED BY <2>2, <2>3
<1> HIDE DEF pool
<1> HIDE RecordUpdate
<1>4. list \in Seq(Addr \X Nat)
  BY <1>2, <1>3
<1> USE RecordUpdate
<1> HIDE DEF list
<1>5. pools' \in Config /\ pools'.ver = v /\ v >= pools.ver
  BY <1>1, <1>2, <1>4 DEF Config
<1>6. updates' \in 0 .. MaxUpdates
  BY <1>1, <1>2
<1> QED BY <1>1, <1>5, <1>6 DEF Inv, PoolTypes

LEMMA PoolStep ==
  ASSUME Inv, [Next]_vars
  PROVE  PoolTypes' /\ pools'.ver >= pools.ver
<1>i. PoolTypes /\ CallTypes /\ next_node \in Nat /\ \A c \in Call : Wished(c)
  BY DEF Inv, PoolTypes
<1>1. ASSUME NEW c \in Call,
             \/ Load(c) \/ AnswerOk(c) \/ AnswerRpcError(c) \/ AnswerUserError(c)
             \/ CallLoop(c) \/ ResubmitNext(c) \/ RetryRecv(c)
      PROVE  PoolTypes' /\ pools'.ver >= pools.ver
  <2>1. UNCHANGED poolVars
    BY <1>1, Zenon DEF Load, AnswerOk, AnswerRpcError, AnswerUserError, CallLoop, ResubmitNext, RetryRecv
  <2> QED BY <1>i, <2>1, PoolSame
<1>2. ASSUME NEW c \in Call, send_req(c) \/ RetryRoute(c)
      PROVE  PoolTypes' /\ pools'.ver >= pools.ver
  <2>1. /\ next_node' = next_node \/ next_node' = next_node + 1
        /\ UNCHANGED <<pools, sick, handle, updates, leader>>
    BY <1>2, Zenon DEF send_req, RetryRoute, advance
  <2> QED BY <1>i, <2>1, PoolAdvance
<1>3. ASSUME NEW c \in Call, ResubmitTo(c)
      PROVE  PoolTypes' /\ pools'.ver >= pools.ver
  <2> DEFINE i == CHOOSE i \in IndexOf(snap[c], CHOOSE x \in wish[c] : TRUE) : TRUE
  <2>1. /\ pc[c] = "found" /\ next_node' = i - 1 /\ leader' = wish[c]
        /\ UNCHANGED <<pools, sick, handle, updates>>
    BY <1>3 DEF ResubmitTo
  <2>2. snap[c] \in Config /\ IndexOf(snap[c], CHOOSE x \in wish[c] : TRUE) # {}
    BY <1>i, <2>1, Named, Zenon DEF CallTypes, Wished
  <2>3. i - 1 \in Nat
    BY <2>2, Indexed, Zenon
  <2>4. \E a \in Addr : wish[c] = {a}
    BY <1>i, <2>1, Named
  <2> HIDE DEF i
  <2> QED BY <1>i, <2>1, <2>3, <2>4 DEF PoolTypes, Config
<1>4. ASSUME NEW q, set_err(q) PROVE PoolTypes' /\ pools'.ver >= pools.ver
  BY <1>4, <1>i DEF set_err, PoolTypes, Config
<1>5. CASE DropHandle
  <2>1. handle' = FALSE /\ UNCHANGED <<pools, next_node, sick, updates, leader>>
    BY <1>5 DEF DropHandle
  <2>2. handle' \in BOOLEAN
    BY <2>1, Zenon
  <2>3. pools'.ver >= pools.ver
    BY <1>i, <2>1 DEF PoolTypes, Config
  <2>4. UNCHANGED <<pools, next_node, sick, updates, leader>>
    BY <2>1
  <2> QED BY ONLY <1>i, <2>2, <2>3, <2>4 DEF PoolTypes
<1>6. CASE Terminated \/ UNCHANGED vars
  BY <1>6, <1>i, PoolSame DEF Terminated, vars
<1>7. ASSUME NEW c \in Call, get_or_add_addr(c) PROVE PoolTypes' /\ pools'.ver >= pools.ver
  BY <1>7, AddAddr
<1>8. ASSUME NEW l \in Updates, update_addrs(l) PROVE PoolTypes' /\ pools'.ver >= pools.ver
  BY <1>8, UpdateAddrs
<1> QED BY <1>1, <1>2, <1>3, <1>4, <1>5, <1>6, <1>7, <1>8
        DEF Next, Caller, Answer, retry_worker
--------------------------------------------------------------------------------
(* The requests.                                                             *)

Requests == CallTypes /\ \A c \in Call : InBudget(c) /\ Wished(c) /\ Known(c)

\* Request c moves to l with FailoverTask t, its call loop has counted k errors,
\* it was sent n times, has wish w and holds the configuration s.
Move(c, l, t, k, n, w, s) ==
  /\ pc' = [pc EXCEPT ![c] = l]
  /\ task' = [task EXCEPT ![c] = t]
  /\ retry_count' = [retry_count EXCEPT ![c] = k]
  /\ sends' = [sends EXCEPT ![c] = n]
  /\ wish' = [wish EXCEPT ![c] = w]
  /\ snap' = [snap EXCEPT ![c] = s]

\* What an action leaves alone it sets to what it was.
LEMMA Kept ==
  ASSUME NEW S, NEW f \in [Call -> S], NEW c \in Call
  PROVE  f = [f EXCEPT ![c] = f[c]]
OBVIOUS

LEMMA MoveInv ==
  ASSUME Inv, PoolTypes', pools'.ver >= pools.ver, NEW c \in Call,
         NEW l \in Place, NEW t \in TaskRec, NEW k \in Nat, NEW n \in Nat,
         NEW w \in SUBSET Addr, NEW s \in Config,
         Move(c, l, t, k, n, w, s), Budget(c, l, t.retry, k, n),
         t.config_ver <= pools'.ver, s.ver <= pools'.ver,
         w = {} \/ \E a \in Addr : w = {a},
         l \in {"redirect", "found"} => w # {},
         l = "found" => \A a \in w : IndexOf(s, a) # {}
  PROVE  Requests'
<1>t. CallTypes /\ pools \in Config /\ pools' \in Config
  BY DEF Inv, PoolTypes
<1>1. CallTypes'
  BY <1>t DEF Move, CallTypes
<1>2. /\ pc'[c] = l /\ task'[c] = t /\ retry_count'[c] = k /\ sends'[c] = n /\ wish'[c] = w
      /\ snap'[c] = s
  BY <1>t DEF Move, CallTypes
<1>3. InBudget(c)' /\ Wished(c)' /\ Known(c)'
  <2>1. InBudget(c)'
    BY <1>2 DEF InBudget, Budget
  <2>2. Wished(c)'
    BY <1>2 DEF Wished, IndexOf
  <2>3. Known(c)'
    BY <1>2 DEF Known
  <2> QED BY <2>1, <2>2, <2>3
<1>4. ASSUME NEW d \in Call, d # c PROVE InBudget(d)' /\ Wished(d)' /\ Known(d)'
  <2>1. /\ pc'[d] = pc[d] /\ task'[d] = task[d] /\ retry_count'[d] = retry_count[d]
        /\ sends'[d] = sends[d] /\ wish'[d] = wish[d] /\ snap'[d] = snap[d]
    BY <1>4, <1>t DEF Move, CallTypes
  <2>2. InBudget(d)'
    BY <2>1 DEF Inv, InBudget, Budget
  <2>3. Wished(d)'
    <3>1. Wished(d)
      BY DEF Inv, Requests
    <3> QED BY <2>1, <3>1 DEF Wished, IndexOf
  <2>4. Known(d)'
    <3>1. /\ snap[d].ver \in Nat /\ task[d].config_ver \in Nat /\ pools.ver \in Nat
          /\ pools'.ver \in Nat
      BY <1>t, Zenon DEF CallTypes, Config, TaskRec
    <3>2. Known(d)
      BY DEF Inv, Requests
    <3> QED BY <2>1, <3>1, <3>2 DEF Known
  <2> QED BY <2>2, <2>3, <2>4
<1> QED BY <1>1, <1>3, <1>4 DEF Requests

\* What is known of a request before it moves.
LEMMA Here ==
  ASSUME Inv, NEW c \in Call
  PROVE  /\ pc[c] \in Place /\ task[c] \in TaskRec /\ task[c].retry \in Nat
         /\ retry_count[c] \in Nat /\ sends[c] \in Nat /\ wish[c] \in SUBSET Addr
         /\ snap[c] \in Config /\ pools \in Config
         /\ Budget(c, pc[c], task[c].retry, retry_count[c], sends[c])
         /\ task[c].config_ver \in Nat /\ snap[c].ver \in Nat /\ pools.ver \in Nat
         /\ task[c].config_ver <= pools.ver /\ snap[c].ver <= pools.ver
         /\ (wish[c] = {} \/ \E a \in Addr : wish[c] = {a})
BY Zenon DEF Inv, CallTypes, PoolTypes, TaskRec, Config, InBudget, Known, Wished

\* A request is given up, or goes on without being sent.
LEMMA GoesOn ==
  ASSUME Inv, PoolTypes', pools'.ver >= pools.ver, NEW c \in Call, NEW l \in Place, Goto(c, l),
         UNCHANGED <<task, retry_count, sends, wish, snap>>,
         l \notin {"redirect", "found"},
         Budget(c, l, task[c].retry, retry_count[c], sends[c])
  PROVE  Requests'
<1>1. Move(c, l, task[c], retry_count[c], sends[c], wish[c], snap[c])
  BY Kept DEF Move, Goto, Inv, CallTypes
<1>2. pools'.ver \in Nat
  BY DEF PoolTypes, Config
<1>3. task[c].config_ver <= pools'.ver /\ snap[c].ver <= pools'.ver
  BY <1>2, Here
<1> QED BY <1>1, <1>3, Here, MoveInv, Zenon

\* A request is sent to a pool of a configuration no newer than the pool's.
LEMMA IsSent ==
  ASSUME Inv, PoolTypes', pools'.ver >= pools.ver, NEW c \in Call, NEW q, NEW t \in TaskRec,
         SendTo(c, q, t), UNCHANGED <<retry_count, wish, snap>>, t.config_ver <= pools.ver,
         Budget(c, "pool", t.retry, retry_count[c], sends[c] + 1)
  PROVE  Requests'
<1>1. Move(c, "pool", t, retry_count[c], sends[c] + 1, wish[c], snap[c])
  BY Kept DEF Move, SendTo, Goto, Inv, CallTypes
<1>2. pools'.ver \in Nat /\ t.config_ver \in Nat /\ "pool" \in Place
  BY DEF PoolTypes, Config, TaskRec, Place
<1>h. /\ retry_count[c] \in Nat /\ sends[c] \in Nat /\ wish[c] \in SUBSET Addr
      /\ snap[c] \in Config /\ pools.ver \in Nat /\ snap[c].ver \in Nat /\ snap[c].ver <= pools.ver
      /\ (wish[c] = {} \/ \E a \in Addr : wish[c] = {a})
  BY Here
<1>3. t.config_ver <= pools'.ver /\ snap[c].ver <= pools'.ver /\ sends[c] + 1 \in Nat
  BY <1>2, <1>h
<1> DEFINE n == sends[c] + 1
<1>4. Move(c, "pool", t, retry_count[c], n, wish[c], snap[c]) /\ n \in Nat
      /\ Budget(c, "pool", t.retry, retry_count[c], n)
  BY <1>1, <1>3
<1> HIDE DEF n
<1> QED BY <1>2, <1>3, <1>4, <1>h, MoveInv, Zenon

\* The caller's steps.
LEMMA CallerStep ==
  ASSUME Inv, PoolTypes', pools'.ver >= pools.ver, NEW c \in Call, Load(c) \/ Caller(c)
  PROVE  Requests'
<1>n. pools' \in Config /\ pools'.ver \in Nat
  BY DEF PoolTypes, Config
<1>h. /\ pc[c] \in Place /\ task[c] \in TaskRec /\ task[c].retry \in Nat
      /\ retry_count[c] \in Nat /\ sends[c] \in Nat /\ wish[c] \in SUBSET Addr
      /\ snap[c] \in Config /\ pools \in Config /\ pools' \in Config
      /\ Budget(c, pc[c], task[c].retry, retry_count[c], sends[c])
      /\ task[c].config_ver \in Nat /\ snap[c].ver \in Nat /\ pools.ver \in Nat
      /\ task[c].config_ver <= pools.ver /\ snap[c].ver <= pools.ver
      /\ (wish[c] = {} \/ \E a \in Addr : wish[c] = {a}) /\ pools'.ver \in Nat
  BY <1>n, Here
<1>v. task[c].config_ver <= pools'.ver /\ snap[c].ver <= pools'.ver
  BY <1>h
<1>1. CASE Load(c)
  <2>1. Move(c, "route", task[c], retry_count[c], sends[c], wish[c], pools)
    BY <1>1, Kept DEF Load, Move, Goto, Inv, CallTypes
  <2>2. Budget(c, "route", task[c].retry, retry_count[c], sends[c])
    BY <1>1, <1>h, Moves DEF Load
  <2>3. "route" \in Place /\ pools.ver <= pools'.ver
    BY <1>h DEF Place
  <2> QED BY <2>1, <2>2, <2>3, <1>h, <1>v, MoveInv, Zenon
<1>2. CASE send_req(c)
  <2>1. pc[c] = "route" /\ UNCHANGED <<retry_count, wish, snap>> /\ next_node \in Nat
    BY <1>2, Zenon DEF send_req, Inv, PoolTypes
  <2>2. ASSUME NEW i \in select(snap[c], next_node),
               SendTo(c, PoolAt(snap[c], i),
                      [FreshTask EXCEPT !.last_index = i, !.config_ver = snap[c].ver])
        PROVE  Requests'
    <3> DEFINE t == [FreshTask EXCEPT !.last_index = i, !.config_ver = snap[c].ver]
    <3>1. i \in Nat
      BY <1>h, <2>1, Selected
    <3>a. snap[c].ver \in Nat
      BY <1>h
    <3>2. t \in TaskRec /\ t.retry = 0 /\ t.config_ver = snap[c].ver
      BY <3>1, <3>a, Zenon DEF FreshTask, TaskRec
    <3>4. SendTo(c, PoolAt(snap[c], i), t) /\ t.config_ver <= pools.ver
      BY <2>2, <3>2, <1>h
    <3> HIDE DEF t
    <3>3. Budget(c, "pool", 0, retry_count[c], sends[c] + 1)
      BY <2>1, <1>h, Moves
    <3> QED BY <2>1, <3>2, <3>3, <3>4, IsSent
  <2>3. CASE Goto(c, "returned") /\ NotSent
    <3>1. Budget(c, "returned", task[c].retry, retry_count[c], sends[c]) /\ "returned" \in Place
      BY <1>h, Moves DEF Place
    <3> QED BY <2>1, <2>3, <3>1, GoesOn DEF NotSent
  <2> QED BY <1>2, <2>2, <2>3, Zenon DEF send_req
<1>3. CASE CallLoop(c)
  <2>1. /\ pc[c] = "user_err" /\ retry_count' = [retry_count EXCEPT ![c] = retry_count[c] + 1]
        /\ UNCHANGED <<task, sends, wish, pools>> /\ retry_count[c] + 1 \in Nat
        /\ snap' = [snap EXCEPT ![c] = pools]
    BY <1>3, <1>h DEF CallLoop, NotSent, poolVars
  <2>2. PICK l \in {"returned", "resubmit", "redirect"} :
          /\ Goto(c, l) /\ (l # "returned" => ~(retry_count[c] + 1 >= RetryLimit))
          /\ (l = "redirect" => wish[c] # {})
    BY <1>3 DEF CallLoop
  <2>3. l # "returned" => retry_count[c] + 1 < RetryLimit
    BY <2>2, <1>h, FailoverAssumption
  <2>4. Budget(c, l, task[c].retry, retry_count[c] + 1, sends[c])
    <3>1. /\ Budget(c, "returned", task[c].retry, retry_count[c] + 1, sends[c])
          /\ retry_count[c] + 1 < RetryLimit =>
               /\ Budget(c, "resubmit", task[c].retry, retry_count[c] + 1, sends[c])
               /\ Budget(c, "redirect", task[c].retry, retry_count[c] + 1, sends[c])
      BY <2>1, <1>h, Moves
    <3> QED BY <2>2, <2>3, <3>1
  <2>5. Move(c, l, task[c], retry_count[c] + 1, sends[c], wish[c], pools)
    BY <2>1, <2>2, Kept DEF Move, Goto, Inv, CallTypes
  <2>6. l \in Place /\ l # "found" /\ pools.ver <= pools'.ver
    BY <2>1, <2>2, <1>h DEF Place
  <2> QED BY <2>1, <2>2, <2>4, <2>5, <2>6, <1>h, <1>v, MoveInv, Zenon
<1>4. CASE ResubmitNext(c)
  <2>1. pc[c] = "resubmit" /\ UNCHANGED <<retry_count, wish, snap>>
        /\ backup(task[c].last_index) \in Nat
    <3>1. task[c].last_index \in Nat
      BY <1>h DEF TaskRec
    <3>2. backup(task[c].last_index) \in Nat
      BY <3>1 DEF backup
    <3> QED BY <1>4, <3>2, Zenon DEF ResubmitNext
  <2>2. ASSUME NEW i \in select(snap[c], backup(task[c].last_index)),
               SendTo(c, PoolAt(snap[c], i),
                      [FreshTask EXCEPT !.last_index = i, !.config_ver = snap[c].ver])
        PROVE  Requests'
    <3> DEFINE t == [FreshTask EXCEPT !.last_index = i, !.config_ver = snap[c].ver]
    <3>1. i \in Nat
      BY <1>h, <2>1, Selected
    <3>a. snap[c].ver \in Nat
      BY <1>h
    <3>2. t \in TaskRec /\ t.retry = 0 /\ t.config_ver = snap[c].ver
      BY <3>1, <3>a, Zenon DEF FreshTask, TaskRec
    <3>4. SendTo(c, PoolAt(snap[c], i), t) /\ t.config_ver <= pools.ver
      BY <2>2, <3>2, <1>h
    <3> HIDE DEF t
    <3>3. Budget(c, "pool", 0, retry_count[c], sends[c] + 1)
      BY <2>1, <1>h, Moves
    <3> QED BY <2>1, <3>2, <3>3, <3>4, IsSent
  <2>3. CASE Goto(c, "returned") /\ NotSent
    <3>1. Budget(c, "returned", task[c].retry, retry_count[c], sends[c]) /\ "returned" \in Place
      BY <1>h, Moves DEF Place
    <3> QED BY <2>1, <2>3, <3>1, GoesOn DEF NotSent
  <2> QED BY <1>4, <2>2, <2>3, Zenon DEF ResubmitNext
<1>5. CASE get_or_add_addr(c)
  <2>1. /\ snap' = [snap EXCEPT ![c] = pools'] /\ \A a \in wish[c] : IndexOf(pools', a) # {}
    BY <1>5, AddAddr
  <2>2. Move(c, "found", task[c], retry_count[c], sends[c], wish[c], pools')
    BY <1>5, <2>1, Kept DEF get_or_add_addr, Move, Goto, NotSent, Inv, CallTypes
  <2>3. Budget(c, "found", task[c].retry, retry_count[c], sends[c])
    BY <1>5, <1>h, Moves, Zenon DEF get_or_add_addr
  <2>4. wish[c] # {}
    BY <1>5 DEF get_or_add_addr, Inv, Wished
  <2>5. "found" \in Place /\ pools'.ver <= pools'.ver
    BY <1>h DEF Place
  <2> DEFINE s == pools'
  <2> HIDE DEF s
  <2>6. s \in Config /\ s.ver <= pools'.ver /\ (\A a \in wish[c] : IndexOf(s, a) # {})
        /\ Move(c, "found", task[c], retry_count[c], sends[c], wish[c], s)
    BY <1>h, <2>1, <2>2, <2>5 DEF s
  <2> QED BY <2>3, <2>4, <2>5, <2>6, <1>h, <1>v, MoveInv, ZenonT(30)
<1>6. CASE ResubmitTo(c)
  <2> DEFINE i == CHOOSE i \in IndexOf(snap[c], CHOOSE x \in wish[c] : TRUE) : TRUE
             t == [FreshTask EXCEPT !.last_index = i - 1, !.config_ver = snap[c].ver,
                                    !.retry = retry_count[c]]
  <2>1. /\ pc[c] = "found" /\ SendTo(c, snap[c].list[i], t)
        /\ UNCHANGED <<retry_count, wish, snap>>
    BY <1>6 DEF ResubmitTo
  <2>2. IndexOf(snap[c], CHOOSE x \in wish[c] : TRUE) # {}
    BY <2>1, Named DEF Inv, CallTypes, Wished
  <2>3. i - 1 \in Nat
    BY <1>h, <2>2, Indexed, Zenon
  <2> HIDE DEF i
  <2>4. t \in TaskRec /\ t.retry = retry_count[c] /\ t.config_ver = snap[c].ver
    <3>1. snap[c].ver \in Nat /\ retry_count[c] \in Nat
      BY <1>h
    <3> QED BY <2>3, <3>1, Zenon DEF FreshTask, TaskRec
  <2> HIDE DEF t
  <2>5. Budget(c, "pool", retry_count[c], retry_count[c], sends[c] + 1)
    BY <2>1, <1>h, Moves
  <2>6. Budget(c, "pool", t.retry, retry_count[c], sends[c] + 1) /\ t.config_ver <= pools.ver
    BY <2>4, <2>5, <1>h
  <2> QED BY <2>1, <2>4, <2>6, IsSent
<1> QED BY <1>1, <1>2, <1>3, <1>4, <1>5, <1>6 DEF Caller

\* The answers of a pool and the retry coroutine.
LEMMA RetryStep ==
  ASSUME Inv, PoolTypes', pools'.ver >= pools.ver, NEW c \in Call,
         Answer(c) \/ RetryRecv(c) \/ RetryRoute(c)
  PROVE  Requests'
<1>n. pools' \in Config /\ pools'.ver \in Nat
  BY DEF PoolTypes, Config
<1>h. /\ pc[c] \in Place /\ task[c] \in TaskRec /\ task[c].retry \in Nat
      /\ retry_count[c] \in Nat /\ sends[c] \in Nat /\ wish[c] \in SUBSET Addr
      /\ snap[c] \in Config /\ pools \in Config /\ pools' \in Config
      /\ Budget(c, pc[c], task[c].retry, retry_count[c], sends[c])
      /\ task[c].config_ver \in Nat /\ snap[c].ver \in Nat /\ pools.ver \in Nat
      /\ task[c].config_ver <= pools.ver /\ snap[c].ver <= pools.ver
      /\ (wish[c] = {} \/ \E a \in Addr : wish[c] = {a}) /\ pools'.ver \in Nat
  BY <1>n, Here
<1>v. task[c].config_ver <= pools'.ver /\ snap[c].ver <= pools'.ver
  BY <1>h
<1>r. Budget(c, "returned", task[c].retry, retry_count[c], sends[c]) /\ "returned" \in Place
  BY <1>h, Moves, SMTT(20) DEF Place
<1>1. CASE AnswerOk(c)
  BY <1>1, <1>r, GoesOn DEF AnswerOk, NotSent
<1>2. CASE AnswerRpcError(c)
  <2> PICK x \in BOOLEAN : /\ task' = [task EXCEPT ![c] = set_rpc_error(c, x)]
                           /\ error_handle(c, set_rpc_error(c, x))
    BY <1>2, Zenon DEF AnswerRpcError
  <2> DEFINE t == set_rpc_error(c, x)
  <2>1. /\ pc[c] = "pool" /\ UNCHANGED <<sends, retry_count, wish, snap>>
    BY <1>2 DEF AnswerRpcError
  <2>2. /\ t \in TaskRec /\ t.config_ver = task[c].config_ver
        /\ (t.retry = task[c].retry \/ t.retry = task[c].retry + 1)
        /\ (t.should_retry => t.retry = task[c].retry + 1)
    <3>1. CASE x = TRUE
      <4>1. t = [task[c] EXCEPT !.should_retry = TRUE, !.retry = task[c].retry + 1]
        BY <3>1 DEF set_rpc_error
      <4> HIDE DEF t
      <4>2. task[c] \in TaskRec /\ task[c].retry + 1 \in Nat
        BY <1>h
      <4> QED BY <4>1, <4>2, Zenon DEF TaskRec
    <3>2. CASE x = FALSE
      BY <1>h, <3>2, Zenon DEF set_rpc_error, TaskRec
    <3> QED BY <3>1, <3>2, Zenon
  <2>3. \/ Goto(c, "queued") /\ t.should_retry /\ t.retry <= RetryLimit
        \/ Goto(c, "returned")
    BY DEF error_handle
  <2>4. task' = [task EXCEPT ![c] = t]
    OBVIOUS
  <2> HIDE DEF t
  <2>5. /\ Budget(c, "returned", task[c].retry, retry_count[c], sends[c])
        /\ Budget(c, "returned", task[c].retry + 1, retry_count[c], sends[c])
        /\ (task[c].retry + 1 <= RetryLimit
              => Budget(c, "queued", task[c].retry + 1, retry_count[c], sends[c]))
    BY <1>h, <2>1, Moves, SMTT(20)
  <2>6. PICK l \in {"queued", "returned"} :
          Goto(c, l) /\ Budget(c, l, t.retry, retry_count[c], sends[c])
    BY <2>2, <2>3, <2>5
  <2>7. Move(c, l, t, retry_count[c], sends[c], wish[c], snap[c])
    BY <2>1, <2>4, <2>6, Kept DEF Move, Goto, Inv, CallTypes
  <2>8. l \in Place /\ l \notin {"redirect", "found"} /\ t.config_ver <= pools'.ver
    BY <2>2, <2>6, <1>v DEF Place
  <2> QED BY <2>2, <2>6, <2>7, <2>8, <1>h, <1>v, MoveInv, Zenon
<1>3. CASE AnswerUserError(c)
  <2> DEFINE t == [task[c] EXCEPT !.should_retry = FALSE]
  <2>1. /\ pc[c] = "pool" /\ UNCHANGED <<sends, retry_count, snap>>
        /\ task' = [task EXCEPT ![c] = t]
    BY <1>3 DEF AnswerUserError
  <2>2. t \in TaskRec /\ t.retry = task[c].retry /\ t.config_ver = task[c].config_ver
    BY <1>h, Zenon DEF TaskRec
  <2> HIDE DEF t
  <2>3. CASE Goto(c, "returned") /\ UNCHANGED wish
    <3>1. Move(c, "returned", t, retry_count[c], sends[c], wish[c], snap[c])
      BY <2>1, <2>3, Kept DEF Move, Goto, Inv, CallTypes
    <3>2. Budget(c, "returned", t.retry, retry_count[c], sends[c]) /\ t.config_ver <= pools'.ver
      BY <1>r, <1>v, <2>2
    <3> QED BY <2>2, <3>1, <3>2, <1>h, <1>r, <1>v, MoveInv, Zenon
  <2>4. ASSUME c \notin Raw, Goto(c, "user_err"), NEW w \in {{}} \cup {{a} : a \in Addr},
               wish' = [wish EXCEPT ![c] = w]
        PROVE  Requests'
    <3>1. Move(c, "user_err", t, retry_count[c], sends[c], w, snap[c])
      BY <2>1, <2>4, Kept DEF Move, Goto, Inv, CallTypes
    <3>2. Budget(c, "user_err", task[c].retry, retry_count[c], sends[c])
      BY <1>h, <2>1, <2>4, Moves
    <3>3. Budget(c, "user_err", t.retry, retry_count[c], sends[c]) /\ t.config_ver <= pools'.ver
      BY <3>2, <1>v, <2>2
    <3>4. w \in SUBSET Addr /\ (w = {} \/ \E a \in Addr : w = {a})
      OBVIOUS
    <3>5. "user_err" \in Place /\ "user_err" \notin {"redirect", "found"} /\ "user_err" # "found"
      BY DEF Place
    <3>6. /\ retry_count[c] \in Nat /\ sends[c] \in Nat /\ snap[c] \in Config
      BY <1>h
    <3> QED BY ONLY Inv, PoolTypes', pools'.ver >= pools.ver, c \in Call, <2>2, <3>1, <3>3, <3>4,
                    <3>5, <3>6, <1>v, MoveInv, Zenon
  <2> QED BY <1>3, <2>3, <2>4, Zenon DEF AnswerUserError
<1>4. CASE RetryRecv(c)
  <2>1. /\ retry_rx # <<>> /\ c = Head(retry_rx) /\ UNCHANGED <<task, sends, retry_count, wish>>
    BY <1>4 DEF RetryRecv, NotSent
  <2>2. c \in Range(retry_rx)
    BY <2>1, Received DEF Inv, Queue
  <2>3. pc[c] = "queued"
    BY <2>2 DEF Inv, Queue, QueuedOnce
  <2>4. CASE snap' = [snap EXCEPT ![c] = pools] /\ UNCHANGED pc
    <3>1. Move(c, pc[c], task[c], retry_count[c], sends[c], wish[c], pools)
      BY <2>1, <2>4, Kept DEF Move, Inv, CallTypes
    <3>2. pools.ver <= pools'.ver
      BY <1>h
    <3>3. pc[c] \notin {"redirect", "found"}
      BY <2>3
    <3> QED BY <3>1, <3>2, <3>3, <1>h, <1>v, MoveInv, Zenon
  <2>5. CASE Goto(c, "returned") /\ UNCHANGED snap
    BY <2>1, <2>5, <1>r, GoesOn
  <2> QED BY <1>4, <2>4, <2>5 DEF RetryRecv
<1>5. CASE RetryRoute(c)
  <2> DEFINE seed == IF snap[c].ver = task[c].config_ver THEN backup(task[c].last_index)
                     ELSE next_node
  <2>1. c \in retrying /\ UNCHANGED <<retry_count, wish, snap>>
    BY <1>5, Zenon DEF RetryRoute
  <2>2. pc[c] = "queued"
    BY <2>1 DEF Inv, Queue, QueuedOnce
  <2>3. seed \in Nat
    <3>1. task[c].last_index \in Nat /\ next_node \in Nat
      BY <1>h DEF TaskRec, Inv, PoolTypes
    <3> QED BY <3>1 DEF backup
  <2>4. \/ \E i \in select(snap[c], seed) :
              SendTo(c, PoolAt(snap[c], i),
                     [task[c] EXCEPT !.last_index = i, !.config_ver = snap[c].ver])
        \/ Goto(c, "returned") /\ NotSent
    BY <1>5, Zenon DEF RetryRoute
  <2> HIDE DEF seed
  <2>5. ASSUME NEW i \in select(snap[c], seed),
               SendTo(c, PoolAt(snap[c], i),
                      [task[c] EXCEPT !.last_index = i, !.config_ver = snap[c].ver])
        PROVE  Requests'
    <3> DEFINE t == [task[c] EXCEPT !.last_index = i, !.config_ver = snap[c].ver]
    <3>1. i \in Nat
      BY <1>h, <2>3, Selected
    <3>2. t \in TaskRec /\ t.retry = task[c].retry /\ t.config_ver = snap[c].ver
      BY <3>1, <1>h, Zenon DEF TaskRec
    <3>3. SendTo(c, PoolAt(snap[c], i), t)
      BY <2>5
    <3> HIDE DEF t
    <3>4. Budget(c, "pool", task[c].retry, retry_count[c], sends[c] + 1)
      BY <1>h, <2>2, Moves
    <3>5. Budget(c, "pool", t.retry, retry_count[c], sends[c] + 1) /\ t.config_ver <= pools.ver
      BY <3>2, <3>4, <1>h
    <3> QED BY <2>1, <3>2, <3>3, <3>5, IsSent
  <2>6. CASE Goto(c, "returned") /\ NotSent
    BY <2>1, <2>6, <1>r, GoesOn DEF NotSent
  <2> QED BY <2>4, <2>5, <2>6, Zenon
<1> QED BY <1>1, <1>2, <1>3, <1>4, <1>5 DEF Answer

LEMMA RequestsStep ==
  ASSUME Inv, PoolTypes', pools'.ver >= pools.ver, [Next]_vars
  PROVE  Requests'
<1>1. ASSUME UNCHANGED taskVars PROVE Requests'
  <2>1. UNCHANGED <<pc, task, retry_count, wish, snap, sends>>
    BY <1>1 DEF taskVars
  <2>2. CallTypes'
    BY <2>1 DEF Inv, CallTypes
  <2>3. ASSUME NEW c \in Call PROVE InBudget(c)' /\ Wished(c)' /\ Known(c)'
    <3>1. InBudget(c)'
      BY <2>1 DEF Inv, InBudget, Budget
    <3>2. Wished(c)'
      BY <2>1 DEF Inv, Wished, IndexOf
    <3>3. pools'.ver \in Nat
      BY DEF PoolTypes, Config
    <3>4. Known(c)'
      BY <2>1, <3>3, Here DEF Known
    <3> QED BY <3>1, <3>2, <3>4
  <2> QED BY <2>2, <2>3 DEF Requests
<1>2. ASSUME NEW q, set_err(q) PROVE Requests'
  BY <1>1, <1>2 DEF set_err
<1>3. ASSUME NEW l \in Updates, update_addrs(l) PROVE Requests'
  BY <1>1, <1>3 DEF update_addrs
<1>4. CASE DropHandle \/ Terminated \/ UNCHANGED vars
  BY <1>1, <1>4 DEF DropHandle, Terminated, vars
<1> QED BY <1>2, <1>3, <1>4, CallerStep, RetryStep DEF Next, retry_worker
--------------------------------------------------------------------------------
(* The queue of the retry coroutine.                                         *)

\* A request moves without touching the queue.
LEMMA QueueKept ==
  ASSUME Inv, NEW c \in Call, NEW l \in Place, pc[c] # "queued", l # "queued", Goto(c, l),
         UNCHANGED workerVars
  PROVE  Queue'
<1>1. /\ pc'[c] = l /\ (\A d \in Call \ {c} : pc'[d] = pc[d]) /\ UNCHANGED <<retry_rx, retrying>>
  BY DEF Goto, Inv, CallTypes, workerVars
<1>2. {d \in Call : pc'[d] = "queued"} = {d \in Call : pc[d] = "queued"}
  BY <1>1
<1> QED BY <1>1, <1>2 DEF Inv, Queue, QueuedOnce

LEMMA QueueStep ==
  ASSUME Inv, [Next]_vars
  PROVE  Queue'
<1>t. /\ pc \in [Call -> Place] /\ Queue /\ retry_rx \in Seq(Call)
      /\ {"idle", "route", "pool", "user_err", "resubmit", "redirect", "found", "returned"}
           \subseteq Place
  BY DEF Inv, Queue, CallTypes, Place
<1>1. ASSUME UNCHANGED <<pc, workerVars>> PROVE Queue'
  BY <1>1, <1>t DEF Queue, QueuedOnce, workerVars
<1>2. ASSUME NEW c \in Call, Load(c) \/ Caller(c) \/ AnswerOk(c) \/ AnswerUserError(c)
      PROVE  Queue'
  <2>1. UNCHANGED workerVars /\ pc[c] # "queued"
    BY <1>2, Zenon DEF Load, Caller, send_req, CallLoop, ResubmitNext, get_or_add_addr, ResubmitTo,
                AnswerOk, AnswerUserError
  <2>2. \E l \in {"route", "pool", "user_err", "resubmit", "redirect", "found", "returned"} :
          Goto(c, l)
    BY <1>2, Zenon DEF Load, Caller, send_req, CallLoop, ResubmitNext, get_or_add_addr, ResubmitTo,
                AnswerOk, AnswerUserError, SendTo
  <2> QED BY <1>t, <2>1, <2>2, QueueKept
<1>3. ASSUME NEW c \in Call, AnswerRpcError(c) PROVE Queue'
  <2>1. pc[c] = "pool" /\ retrying' = retrying
    BY <1>3 DEF AnswerRpcError
  <2>2. CASE Goto(c, "returned") /\ UNCHANGED retry_rx
    BY <1>t, <2>1, <2>2, QueueKept DEF workerVars
  <2>3. CASE Goto(c, "queued") /\ retry_rx' = Append(retry_rx, c)
    <3>1. pc'[c] = "queued" /\ \A d \in Call \ {c} : pc'[d] = pc[d]
      BY <1>t, <2>3 DEF Goto
    <3>2. c \notin Range(retry_rx) /\ c \notin retrying /\ IsInjective(retry_rx)
      BY <1>t, <2>1 DEF Queue, QueuedOnce
    <3>3. retry_rx' \in Seq(Call) /\ IsInjective(retry_rx') /\ Range(retry_rx') = Range(retry_rx) \cup {c}
      BY <1>t, <2>3, <3>2, RangeAppend, InjAppend
    <3>4. {d \in Call : pc'[d] = "queued"} = {d \in Call : pc[d] = "queued"} \cup {c}
      BY <3>1
    <3> QED BY <1>t, <2>1, <3>2, <3>3, <3>4 DEF Queue, QueuedOnce
  <2> QED BY <1>3, <2>2, <2>3 DEF AnswerRpcError, error_handle
<1>4. ASSUME NEW c \in Call, RetryRecv(c) PROVE Queue'
  <2>1. retrying = {} /\ retry_rx # <<>> /\ c = Head(retry_rx) /\ retry_rx' = Tail(retry_rx)
    BY <1>4 DEF RetryRecv
  <2>2. /\ retry_rx' \in Seq(Call) /\ Range(retry_rx) = {c} \cup Range(retry_rx')
        /\ IsInjective(retry_rx') /\ c \notin Range(retry_rx')
    BY <1>t, <2>1, Received DEF Queue, QueuedOnce
  <2>3. CASE retrying' = {c} /\ UNCHANGED pc
    BY <1>t, <2>1, <2>2, <2>3 DEF Queue, QueuedOnce
  <2>4. CASE Goto(c, "returned") /\ UNCHANGED retrying
    <3>1. pc'[c] = "returned" /\ \A d \in Call \ {c} : pc'[d] = pc[d]
      BY <1>t, <2>4 DEF Goto
    <3>2. {d \in Call : pc'[d] = "queued"} = {d \in Call : pc[d] = "queued"} \ {c}
      BY <3>1
    <3> QED BY <1>t, <2>1, <2>2, <2>4, <3>2 DEF Queue, QueuedOnce
  <2> QED BY <1>4, <2>3, <2>4 DEF RetryRecv
<1>5. ASSUME NEW c \in Call, RetryRoute(c) PROVE Queue'
  <2>1. c \in retrying /\ retrying' = {} /\ retry_rx' = retry_rx
        /\ \E l \in {"pool", "returned"} : Goto(c, l)
    BY <1>5, Zenon DEF RetryRoute, SendTo
  <2>2. pc'[c] # "queued" /\ \A d \in Call \ {c} : pc'[d] = pc[d]
    BY <1>t, <2>1 DEF Goto
  <2>3. {d \in Call : pc'[d] = "queued"} = {d \in Call : pc[d] = "queued"} \ {c}
    BY <2>2
  <2>4. retrying = {c}
    BY <1>t, <2>1 DEF Queue
  <2> QED BY <1>t, <2>1, <2>3, <2>4 DEF Queue, QueuedOnce
<1>6. ASSUME NEW q, set_err(q) PROVE Queue'
  BY <1>1, <1>6 DEF set_err, taskVars
<1>7. ASSUME NEW l \in Updates, update_addrs(l) PROVE Queue'
  BY <1>1, <1>7 DEF update_addrs, taskVars
<1>8. CASE DropHandle \/ Terminated \/ UNCHANGED vars
  BY <1>1, <1>8 DEF DropHandle, Terminated, vars, taskVars
<1> QED BY <1>2, <1>3, <1>4, <1>5, <1>6, <1>7, <1>8 DEF Next, Answer, retry_worker
--------------------------------------------------------------------------------
LEMMA InitInv == Init => Inv
<1> SUFFICES ASSUME Init PROVE Inv
  OBVIOUS
<1>1. CallTypes
  BY DEF Init, CallTypes, Place, TaskRec, FreshTask, Config
<1>2. PoolTypes
  <2>1. [i \in DOMAIN Addrs |-> Pool(Addrs[i], 0)] \in Seq(Addr \X Nat)
    BY FailoverAssumption DEF Pool
  <2>2. pools \in Config
    BY <2>1 DEF Init, Config
  <2>4. handle \in BOOLEAN
    BY DEF Init
  <2>5. next_node \in Nat /\ updates \in 0 .. MaxUpdates /\ leader = {}
    BY FailoverAssumption DEF Init
  <2> QED BY ONLY <2>2, <2>4, <2>5 DEF PoolTypes
<1>3. Queue
  BY RangeEmpty DEF Init, Queue, QueuedOnce
<1>4. ASSUME NEW c \in Call PROVE InBudget(c) /\ Wished(c) /\ Known(c)
  <2>1. /\ pc[c] = "idle" /\ task[c].retry = 0 /\ retry_count[c] = 0 /\ sends[c] = 0
        /\ wish[c] = {} /\ task[c].config_ver = 0 /\ snap[c].ver = 0 /\ pools.ver = 0
    BY DEF Init, FreshTask
  <2>2. 0 <= Limit(c) /\ RetryLimit \in Nat
    BY FailoverAssumption DEF Limit
  <2>3. InBudget(c)
    BY <2>1, <2>2 DEF InBudget, Budget
  <2> QED BY <2>1, <2>3 DEF Wished, Known
<1> QED BY <1>1, <1>2, <1>3, <1>4 DEF Inv

LEMMA NextInv == Inv /\ [Next]_vars => Inv'
BY PoolStep, RequestsStep, QueueStep DEF Inv, Requests

\* The inductive invariant of the failover pool.
THEOREM Invariance == Spec => []Inv
BY InitInv, NextInv, PTL DEF Spec

\* No request waiting for a retry is lost or waits twice.
THEOREM Queueing == Spec => []QueuedOnce
<1>1. Inv => QueuedOnce
  BY DEF Inv, Queue
<1> QED BY <1>1, Invariance, PTL

\* However errors, redirects and new configurations mix, the two retry loops
\* send a request no more often than their limits allow.
THEOREM Bounding == Spec => []SendsBounded
<1>1. Inv => SendsBounded
  BY DEF Inv, InBudget, Budget, Limit, SendsBounded
<1> QED BY <1>1, Invariance, PTL

--------------------------------------------------------------------------------
(* The pools a request is sent to.                                           *)

LEMMA MulLe ==
  ASSUME NEW l \in Nat \ {0}, NEW p \in Nat, NEW q \in Nat, p < q
  PROVE  l * p + l <= l * q
<1>1. \E d \in Nat : q = p + 1 + d
  <2> WITNESS q - p - 1 \in Nat
  <2> QED OBVIOUS
<1>2. PICK d \in Nat : q = p + 1 + d
  BY <1>1
<1>3. l * q = l * p + l + l * d
  BY <1>2
<1>4. l * d >= 0
  OBVIOUS
<1>5. l * p \in Nat /\ l * d \in Nat /\ l * q \in Nat
  OBVIOUS
<1> QED BY <1>3, <1>4, <1>5

LEMMA DivUnique ==
  ASSUME NEW l \in Nat \ {0}, NEW p \in Nat, NEW q \in Nat, NEW r \in 0 .. l - 1, NEW s \in 0 .. l - 1,
         l * p + r = l * q + s
  PROVE  p = q /\ r = s
<1>0. l * p \in Nat /\ l * q \in Nat
  OBVIOUS
<1>1. ~(p < q)
  <2>1. p < q => l * p + l <= l * q
    BY MulLe
  <2> QED BY <1>0, <2>1
<1>2. ~(q < p)
  <2>1. q < p => l * q + l <= l * p
    BY MulLe
  <2> QED BY <1>0, <2>1
<1>3. p = q
  BY <1>1, <1>2
<1> QED BY <1>0, <1>3

\* Numbers less than l apart have different remainders.
LEMMA ModApart ==
  ASSUME NEW l \in Nat \ {0}, NEW x \in Nat, NEW y \in Nat, x < y, y < x + l
  PROVE  x % l # y % l
<1>0. PICK p, q, r : p = x \div l /\ q = y \div l /\ r = x % l
  OBVIOUS
<1> SUFFICES ASSUME y % l = r PROVE FALSE
  BY <1>0
<1>1. p \in Nat /\ q \in Nat /\ r \in 0 .. l - 1 /\ x = l * p + r /\ y = l * q + r
  <2>1. p \in Nat /\ q \in Nat /\ r \in 0 .. l - 1
    BY <1>0
  <2> HIDE RecordUpdate
  <2>2. x = l * p + r
    BY <1>0
  <2>3. y = l * q + r
    BY <1>0
  <2> USE RecordUpdate
  <2> QED BY <2>1, <2>2, <2>3
<1>2. l * p \in Nat /\ l * q \in Nat
  BY <1>1
<1>3. l * p < l * q /\ l * q < l * p + l
  BY <1>1, <1>2
<1>4. p < q => l * p + l <= l * q
  BY <1>1, MulLe
<1>5. q < p => l * q + l <= l * p
  BY <1>1, MulLe
<1>6. p # q
  BY <1>3, <1>2
<1> HIDE RecordUpdate
<1> QED BY <1>1, <1>2, <1>3, <1>4, <1>5, <1>6

\* l numbers in a row have every remainder.
LEMMA ModHit ==
  ASSUME NEW l \in Nat \ {0}, NEW x \in Nat, NEW k \in 0 .. l - 1
  PROVE  \E y \in Nat : x <= y /\ y < x + l /\ y % l = k
<1>0. PICK q, r : q = x \div l /\ r = x % l
  OBVIOUS
<1>1. q \in Nat /\ r \in 0 .. l - 1 /\ x = l * q + r
  <2>1. q \in Nat /\ r \in 0 .. l - 1
    BY <1>0
  <2> HIDE RecordUpdate
  <2>2. x = l * q + r
    BY <1>0
  <2> USE RecordUpdate
  <2> QED BY <2>1, <2>2
<1>2. ASSUME NEW n \in Nat PROVE (l * n + k) % l = k
  <2>1. PICK z \in Nat : z = l * n + k
    OBVIOUS
  <2>2. PICK p, s : p = z \div l /\ s = z % l
    OBVIOUS
  <2>3. p \in Nat /\ s \in 0 .. l - 1 /\ z = l * p + s
    <3>1. p \in Nat /\ s \in 0 .. l - 1
      BY <2>2
    <3> HIDE RecordUpdate
    <3>2. z = l * p + s
      BY <2>2
    <3> USE RecordUpdate
    <3> QED BY <3>1, <3>2
  <2>4. k = s
    BY <2>1, <2>3, DivUnique
  <2> QED BY <2>1, <2>2, <2>4
<1>3. l * q \in Nat /\ l * (q + 1) = l * q + l /\ q + 1 \in Nat
  <2>1. q \in Nat /\ q + 1 \in Nat
    BY <1>1
  <2> HIDE RecordUpdate
  <2>2. l * q \in Nat /\ l * (q + 1) = l * q + l
    BY <2>1
  <2> USE RecordUpdate
  <2> QED BY <2>1, <2>2
<1>4. CASE k >= r
  <2>1. l * q + k \in Nat /\ x <= l * q + k /\ l * q + k < x + l
    BY <1>1, <1>3, <1>4
  <2> QED BY <1>1, <1>2, <2>1
<1>5. CASE k < r
  <2>1. l * q + l + k \in Nat /\ x <= l * q + l + k /\ l * q + l + k < x + l
    BY <1>1, <1>3, <1>5
  <2>2. (l * (q + 1) + k) % l = k
    BY <1>2, <1>3, Zenon
  <2> QED BY <1>3, <2>1, <2>2
<1> QED BY <1>1, <1>4, <1>5

\* The configurations that are in use.
Confs == {pools} \cup {snap[d] : d \in {e \in Call : pc[e] # "idle"}}

\* No address is in a configuration twice.
Addressed(cl) == \A i, j \in DOMAIN cl.list : cl.list[i][1] = cl.list[j][1] => i = j

\* No address is in a list twice that new or update_addrs is given.
NoDuplicates == IsInjective(Addrs) /\ \A l \in Updates : IsInjective(l)

\* The index after the last one leads to another pool if there is a healthy one.
LEMMA OtherPool ==
  ASSUME NEW cl \in Config, Addressed(cl), NEW n \in Nat, NEW i \in select(cl, n + 1),
         NEW p \in Range(cl.list) \ sick, p # PoolAt(cl, n)
  PROVE  PoolAt(cl, i) # PoolAt(cl, n)
<1> DEFINE s == cl.list
           l == Len(s)
<1>1. s \in Seq(Addr \X Nat) /\ l \in Nat /\ DOMAIN s = 1 .. l
  BY DEF Config
<1>2. PICK k \in 1 .. l : s[k] = p
  BY <1>1 DEF Range
<1>3. l \in Nat \ {0}
  BY <1>1, <1>2
<1>4. /\ i \in n + 1 .. n + 1 + l - 1
      /\ \A j \in n + 1 .. n + 1 + l - 1 : s[(j % l) + 1] \notin sick => i <= j
  BY Zenon DEF select, Candidates
<1> HIDE DEF l
<1>5. \A x \in Nat : x % l \in 0 .. l - 1
  BY <1>3
<1>m. PICK m \in Nat : m = n + 1
  OBVIOUS
<1>6. PICK y \in Nat : m <= y /\ y < m + l /\ y % l = k - 1
  <2>1. k - 1 \in 0 .. l - 1
    BY <1>2, <1>3
  <2> QED BY <1>3, <2>1, ModHit, Zenon
<1>7. (n + l) % l = n % l
  <2>1. n % l \in 0 .. l - 1
    BY <1>5
  <2>2. PICK z \in Nat : m <= z /\ z < m + l /\ z % l = n % l
    BY <1>3, <2>1, ModHit, Zenon
  <2>3. ~(z < n + l)
    <3>1. n < z
      BY <1>m, <2>2
    <3> QED BY <1>3, <2>2, <3>1, ModApart, Zenon
  <2> HIDE RecordUpdate
  <2>4. z = n + l
    BY <1>3, <1>m, <2>2, <2>3
  <2> USE RecordUpdate
  <2> QED BY <2>2, <2>4
<1>8. i <= y /\ y # n + l
  <2>1. (k - 1) + 1 = k
    BY <1>2, <1>3
  <2>2. s[(y % l) + 1] = p
    BY <1>2, <1>6, <2>1
  <2>3. y # n + l
    BY <1>7, <2>2, Zenon DEF PoolAt, l
  <2>4. y \in n + 1 .. n + 1 + l - 1
    BY <1>3, <1>m, <1>6
  <2> QED BY <1>4, <2>2, <2>3, <2>4
<1>9. i \in Nat /\ n < i /\ i < n + l
  BY <1>3, <1>4, <1>m, <1>6, <1>8
<1>10. n % l # i % l
  BY <1>3, <1>9, ModApart, Zenon
<1>11. /\ (n % l) + 1 \in DOMAIN s /\ (i % l) + 1 \in DOMAIN s /\ (n % l) + 1 # (i % l) + 1
  <2>1. n % l \in 0 .. l - 1 /\ i % l \in 0 .. l - 1
    BY <1>5, <1>9
  <2>2. \A a, b \in 0 .. l - 1 : a # b => a + 1 \in 1 .. l /\ b + 1 \in 1 .. l /\ a + 1 # b + 1
    BY <1>3
  <2>3. DOMAIN s = 1 .. l
    BY <1>1 DEF l
  <2> QED BY <1>10, <2>1, <2>2, <2>3
<1>12. \A a, b \in DOMAIN s : a # b => s[a] # s[b]
  BY DEF Addressed
<1> QED BY <1>11, <1>12, Zenon DEF PoolAt, l

\* A request a pool has was sent to the pool that its FailoverTask names in its
\* configuration.
Placed(c) ==
  pc[c] \in {"pool", "queued"} =>
    \A cl \in Confs : cl.ver = task[c].config_ver => at[c] = PoolAt(cl, task[c].last_index)

Track ==
  /\ DOMAIN at = Call
  /\ \A cl, cm \in Confs : cl.ver = cm.ver => cl = cm
  /\ \A cl \in Confs : Addressed(cl)
  /\ \A c \in Call : Placed(c)

\* What a step may do to a request: it holds the configuration it held or the newest
\* one, and stays with its pool or is sent to one of a configuration it knows.
Holds(c) == snap'[c] = pools' \/ (snap'[c] = snap[c] /\ pc[c] # "idle")
Stays(c) ==
  /\ pc[c] \in {"pool", "queued"} /\ at'[c] = at[c]
  /\ task'[c].last_index = task[c].last_index /\ task'[c].config_ver = task[c].config_ver
Sent(c) ==
  \E cl \in {pools', snap'[c]} : at'[c] = PoolAt(cl, task'[c].last_index) /\ cl.ver = task'[c].config_ver
Tracked(c) ==
  /\ pc'[c] # "idle" => Holds(c)
  /\ pc'[c] \in {"pool", "queued"} => Stays(c) \/ Sent(c)

\* Only request c moves.
Alone(c) ==
  /\ DOMAIN at' = Call
  /\ \A d \in Call : d # c => /\ pc'[d] = pc[d] /\ at'[d] = at[d] /\ task'[d] = task[d]
                              /\ snap'[d] = snap[d]

LEMMA AloneTracked ==
  ASSUME NEW c \in Call, Alone(c), Tracked(c)
  PROVE  DOMAIN at' = Call /\ \A d \in Call : Tracked(d)
BY DEF Alone, Tracked, Holds, Stays

\* Request c is sent to the pool with index i of the configuration cl.
LEMMA SendTracked ==
  ASSUME Inv, DOMAIN at = Call, NEW c \in Call, NEW cl, NEW p, NEW i, NEW t, SendTo(c, p, t),
         p = PoolAt(cl, i), t.last_index = i, t.config_ver = cl.ver,
         cl = pools' \/ cl = snap[c], snap' = snap, pc[c] # "idle"
  PROVE  Alone(c) /\ Tracked(c)
<1>1. pc \in [Call -> Place] /\ task \in [Call -> TaskRec]
  BY DEF Inv, CallTypes
<1>2. /\ pc'[c] = "pool" /\ at'[c] = p /\ task'[c] = t /\ DOMAIN at' = Call
      /\ \A d \in Call : d # c => pc'[d] = pc[d] /\ at'[d] = at[d] /\ task'[d] = task[d]
  BY <1>1 DEF SendTo, Goto
<1> QED BY <1>2 DEF Alone, Tracked, Holds, Sent

\* Request c goes on without being sent.
LEMMA GotoTracked ==
  ASSUME Inv, DOMAIN at = Call, NEW c \in Call, NEW l, Goto(c, l), at' = at, snap' = snap,
         \A d \in Call : d # c => task'[d] = task[d],
         pc[c] # "idle", l \in {"pool", "queued"} => Stays(c)
  PROVE  Alone(c) /\ Tracked(c)
<1>1. pc'[c] = l /\ \A d \in Call : d # c => pc'[d] = pc[d]
  BY DEF Inv, CallTypes, Goto
<1> QED BY <1>1 DEF Alone, Tracked, Holds

LEMMA CallerTracked ==
  ASSUME Inv, DOMAIN at = Call, NEW c \in Call, Load(c) \/ Caller(c)
  PROVE  Alone(c) /\ Tracked(c)
<1>t. pc \in [Call -> Place] /\ task \in [Call -> TaskRec] /\ snap \in [Call -> Config]
  BY DEF Inv, CallTypes
<1>f. ASSUME NEW i, NEW v
      PROVE  /\ [FreshTask EXCEPT !.last_index = i, !.config_ver = v].last_index = i
             /\ [FreshTask EXCEPT !.last_index = i, !.config_ver = v].config_ver = v
  BY DEF FreshTask
<1>1. CASE Load(c)
  <2>1. /\ pc'[c] = "route" /\ snap'[c] = pools' /\ at' = at /\ task' = task
        /\ \A d \in Call : d # c => pc'[d] = pc[d] /\ snap'[d] = snap[d]
    BY <1>1, <1>t DEF Load, Goto, poolVars
  <2> QED BY <2>1 DEF Alone, Tracked, Holds
<1>2. CASE send_req(c)
  <2>1. pc[c] = "route" /\ snap' = snap /\ pools' = pools
    BY <1>2, Zenon DEF send_req
  <2>2. CASE Goto(c, "returned") /\ NotSent
    BY <2>1, <2>2, GotoTracked DEF NotSent
  <2>3. ASSUME NEW i \in select(snap[c], next_node),
               SendTo(c, PoolAt(snap[c], i), [FreshTask EXCEPT !.last_index = i, !.config_ver = snap[c].ver])
        PROVE  Alone(c) /\ Tracked(c)
    <3> DEFINE t == [FreshTask EXCEPT !.last_index = i, !.config_ver = snap[c].ver]
    <3>1. t.last_index = i /\ t.config_ver = snap[c].ver
      BY <1>f
    <3>2. SendTo(c, PoolAt(snap[c], i), t)
      BY <2>3
    <3> HIDE DEF t
    <3> QED BY <2>1, <3>1, <3>2, SendTracked
  <2> QED BY <1>2, <2>2, <2>3, Zenon DEF send_req
<1>3. CASE CallLoop(c)
  <2>1. /\ pools' = pools /\ NotSent /\ snap' = [snap EXCEPT ![c] = pools]
        /\ \E l \in {"returned", "resubmit", "redirect"} : Goto(c, l)
    BY <1>3 DEF CallLoop, poolVars
  <2>2. /\ pc'[c] \in {"returned", "resubmit", "redirect"} /\ snap'[c] = pools'
        /\ at' = at /\ task' = task
        /\ \A d \in Call : d # c => pc'[d] = pc[d] /\ snap'[d] = snap[d]
    BY <1>t, <2>1 DEF Goto, NotSent
  <2> QED BY <2>2 DEF Alone, Tracked, Holds
<1>4. CASE ResubmitNext(c)
  <2>1. pc[c] = "resubmit" /\ snap' = snap /\ pools' = pools
    BY <1>4, Zenon DEF ResubmitNext, poolVars
  <2>2. CASE Goto(c, "returned") /\ NotSent
    BY <2>1, <2>2, GotoTracked DEF NotSent
  <2>3. ASSUME NEW i, SendTo(c, PoolAt(snap[c], i),
                             [FreshTask EXCEPT !.last_index = i, !.config_ver = snap[c].ver])
        PROVE  Alone(c) /\ Tracked(c)
    <3> DEFINE t == [FreshTask EXCEPT !.last_index = i, !.config_ver = snap[c].ver]
    <3>1. t.last_index = i /\ t.config_ver = snap[c].ver
      BY <1>f
    <3>2. SendTo(c, PoolAt(snap[c], i), t)
      BY <2>3
    <3> HIDE DEF t
    <3> QED BY <2>1, <3>1, <3>2, SendTracked
  <2> QED BY <1>4, <2>2, <2>3, Zenon DEF ResubmitNext
<1>5. CASE get_or_add_addr(c)
  <2>1. snap' = [snap EXCEPT ![c] = pools']
    BY <1>5, AddAddr
  <2>2. at' = at /\ task' = task /\ Goto(c, "found")
    BY <1>5 DEF get_or_add_addr, NotSent
  <2>3. pc'[c] = "found" /\ snap'[c] = pools' /\ \A d \in Call : d # c => pc'[d] = pc[d] /\ snap'[d] = snap[d]
    BY <1>t, <2>1, <2>2 DEF Goto
  <2> QED BY <2>2, <2>3 DEF Alone, Tracked, Holds
<1>6. CASE ResubmitTo(c)
  <2> DEFINE i == CHOOSE i \in IndexOf(snap[c], CHOOSE x \in wish[c] : TRUE) : TRUE
             t == [FreshTask EXCEPT !.last_index = i - 1, !.config_ver = snap[c].ver,
                                    !.retry = retry_count[c]]
  <2>1. pc[c] = "found" /\ snap' = snap /\ pools' = pools /\ SendTo(c, snap[c].list[i], t)
    BY <1>6 DEF ResubmitTo
  <2>2. t.last_index = i - 1 /\ t.config_ver = snap[c].ver
    BY DEF FreshTask
  <2>3. IndexOf(snap[c], CHOOSE x \in wish[c] : TRUE) # {} /\ snap[c] \in Config
    BY <1>t, <2>1, Named, Zenon DEF Inv, Wished
  <2>4. i \in DOMAIN snap[c].list
    BY <2>3, Indexed, Zenon
  <2> HIDE DEF t, i
  <2>5. snap[c].list[i] = PoolAt(snap[c], i - 1)
    <3>1. PICK l \in Nat : l = Len(snap[c].list) /\ DOMAIN snap[c].list = 1 .. l
      BY <2>3 DEF Config
    <3>2. i \in 1 .. l
      BY <2>4, <3>1
    <3>3. (i - 1) % l = i - 1
      BY <3>2
    <3>4. (i - 1) + 1 = i
      BY <3>2
    <3> QED BY <3>1, <3>3, <3>4 DEF PoolAt
  <2> QED BY <2>1, <2>2, <2>5, SendTracked
<1> QED BY <1>1, <1>2, <1>3, <1>4, <1>5, <1>6 DEF Caller

LEMMA RetryTracked ==
  ASSUME Inv, DOMAIN at = Call, NEW c \in Call, Answer(c) \/ RetryRecv(c) \/ RetryRoute(c)
  PROVE  Alone(c) /\ Tracked(c)
<1>t. pc \in [Call -> Place] /\ task \in [Call -> TaskRec] /\ snap \in [Call -> Config]
  BY DEF Inv, CallTypes
<1>q. c \in retrying => pc[c] = "queued"
  BY DEF Inv, Queue, QueuedOnce
<1>1. CASE AnswerOk(c)
  BY <1>1, GotoTracked DEF AnswerOk, NotSent
<1>2. CASE AnswerRpcError(c)
  <2> PICK x \in BOOLEAN : /\ task' = [task EXCEPT ![c] = set_rpc_error(c, x)]
                           /\ error_handle(c, set_rpc_error(c, x))
    BY <1>2, Zenon DEF AnswerRpcError
  <2>1. /\ set_rpc_error(c, x).last_index = task[c].last_index
        /\ set_rpc_error(c, x).config_ver = task[c].config_ver
    BY <1>t DEF set_rpc_error, TaskRec
  <2>2. pc[c] = "pool" /\ at' = at /\ snap' = snap
    BY <1>2 DEF AnswerRpcError
  <2>3. PICK l \in {"queued", "returned"} : Goto(c, l)
    BY DEF error_handle
  <2>4. task'[c] = set_rpc_error(c, x) /\ \A d \in Call : d # c => task'[d] = task[d]
    BY <1>t
  <2>5. Stays(c)
    BY <2>1, <2>2, <2>4 DEF Stays
  <2> QED BY <2>2, <2>3, <2>4, <2>5, GotoTracked
<1>3. CASE AnswerUserError(c)
  <2>1. pc[c] = "pool" /\ at' = at /\ snap' = snap /\ \A d \in Call : d # c => task'[d] = task[d]
    BY <1>3, <1>t DEF AnswerUserError
  <2>2. PICK l \in {"user_err", "returned"} : Goto(c, l)
    BY <1>3 DEF AnswerUserError
  <2> QED BY <2>1, <2>2, GotoTracked
<1>4. CASE RetryRecv(c)
  <2>1. at' = at /\ task' = task /\ pools' = pools /\ c \in Range(retry_rx)
    <3>1. retry_rx \in Seq(Call) /\ retry_rx # <<>> /\ c = Head(retry_rx)
      BY <1>4 DEF Inv, Queue, RetryRecv
    <3>2. 1 \in DOMAIN retry_rx /\ c = retry_rx[1]
      BY <3>1
    <3> QED BY <1>4, <3>2 DEF RetryRecv, NotSent, poolVars, Range
  <2>2. pc[c] = "queued"
    BY <2>1 DEF Inv, Queue, QueuedOnce
  <2>3. CASE snap' = [snap EXCEPT ![c] = pools] /\ UNCHANGED pc
    <3>1. snap'[c] = pools' /\ \A d \in Call : d # c => snap'[d] = snap[d]
      BY <1>t, <2>1, <2>3
    <3> QED BY <2>1, <2>2, <2>3, <3>1 DEF Alone, Tracked, Holds, Stays
  <2>4. CASE Goto(c, "returned") /\ UNCHANGED snap
    BY <2>1, <2>2, <2>4, GotoTracked
  <2> QED BY <1>4, <2>3, <2>4 DEF RetryRecv
<1>5. CASE RetryRoute(c)
  <2>1. pc[c] = "queued" /\ snap' = snap
    BY <1>5, <1>q, Zenon DEF RetryRoute
  <2>2. CASE Goto(c, "returned") /\ NotSent
    BY <2>1, <2>2, GotoTracked DEF NotSent
  <2>3. ASSUME NEW i, SendTo(c, PoolAt(snap[c], i),
                             [task[c] EXCEPT !.last_index = i, !.config_ver = snap[c].ver])
        PROVE  Alone(c) /\ Tracked(c)
    <3> DEFINE t == [task[c] EXCEPT !.last_index = i, !.config_ver = snap[c].ver]
    <3>1. t.last_index = i /\ t.config_ver = snap[c].ver
      BY <1>t DEF TaskRec
    <3>2. SendTo(c, PoolAt(snap[c], i), t)
      BY <2>3
    <3> HIDE DEF t
    <3> QED BY <2>1, <3>1, <3>2, SendTracked
  <2> QED BY <1>5, <2>2, <2>3, Zenon DEF RetryRoute
<1> QED BY <1>1, <1>2, <1>3, <1>4, <1>5 DEF Answer

\* A configuration is replaced by one with the next version, in which no address is
\* twice either.
LEMMA Configured ==
  ASSUME Inv, Addressed(pools), NoDuplicates, [Next]_vars
  PROVE  pools' = pools \/ (pools'.ver = pools.ver + 1 /\ Addressed(pools'))
<1>t. pools \in Config /\ pools.list \in Seq(Addr \X Nat)
  BY DEF Inv, PoolTypes, Config
<1>1. ASSUME NEW c \in Call, get_or_add_addr(c), pools' # pools
      PROVE  pools'.ver = pools.ver + 1 /\ Addressed(pools')
  <2> DEFINE a == CHOOSE x \in wish[c] : TRUE
             v == pools.ver + 1
             s == pools.list
  <2>1. IndexOf(pools, a) = {} /\ pools' = [ver |-> v, list |-> <<Pool(a, v)>> \o s] /\ pc[c] = "redirect"
    BY <1>1, Zenon DEF get_or_add_addr
  <2>2. a \in Addr /\ v \in Nat
    <3>1. a \in Addr
      BY <2>1, Named DEF Inv
    <3>2. v \in Nat
      BY <1>t DEF Config
    <3> QED BY <3>1, <3>2
  <2>3. \A k \in DOMAIN s : s[k][1] # a
    BY <2>1 DEF IndexOf
  <2>4. \A j, k \in DOMAIN s : s[j][1] = s[k][1] => j = k
    BY DEF Addressed
  <2> HIDE DEF a, v
  <2>5. PICK q \in Addr \X Nat : q = Pool(a, v) /\ q[1] = a
    <3>1. <<a, v>> \in Addr \X Nat /\ <<a, v>>[1] = a
      BY <2>2
    <3> QED BY <3>1 DEF Pool
  <2>6. PICK u : u = <<q>> \o s
    BY Zenon
  <2>7. /\ s \in Seq(Addr \X Nat) /\ Len(s) \in Nat /\ DOMAIN s = 1 .. Len(s)
        /\ DOMAIN u = 1 .. Len(s) + 1 /\ u[1] = q
        /\ \A j \in 2 .. Len(s) + 1 : u[j] = s[j - 1]
    BY <1>t, <2>6
  <2> HIDE DEF s
  <2>8. ASSUME NEW j \in DOMAIN u, NEW k \in DOMAIN u, u[j][1] = u[k][1] PROVE j = k
    <3>1. \A x \in DOMAIN u : x = 1 \/ (x - 1 \in DOMAIN s /\ u[x] = s[x - 1])
      BY <2>7, SMTT(20)
    <3>2. \A x \in DOMAIN u : x \in Int
      BY <2>7
    <3>3. CASE j = 1 \/ k = 1
      BY <2>3, <2>5, <2>7, <2>8, <3>1, <3>3
    <3>4. CASE j # 1 /\ k # 1
      <4>1. j - 1 = k - 1
        BY <2>4, <2>8, <3>1, <3>4
      <4> QED BY <3>2, <4>1
    <3> QED BY <3>3, <3>4
  <2>9. pools'.ver = v /\ pools'.list = u
    BY <2>1, <2>5, <2>6
  <2> QED BY <2>8, <2>9 DEF Addressed, v
<1>2. ASSUME NEW l \in Updates, update_addrs(l)
      PROVE  pools'.ver = pools.ver + 1 /\ Addressed(pools')
  <2> DEFINE v == pools.ver + 1
             pool(i) == IF IndexOf(pools, l[i]) # {}
                        THEN pools.list[CHOOSE k \in IndexOf(pools, l[i]) : TRUE]
                        ELSE Pool(l[i], v)
  <2>1. pools' = [ver |-> v, list |-> [i \in DOMAIN l |-> pool(i)]]
    BY <1>2 DEF update_addrs
  <2>2. ASSUME NEW i PROVE pool(i)[1] = l[i]
    <3>1. CASE IndexOf(pools, l[i]) # {}
      <4>1. (CHOOSE k \in IndexOf(pools, l[i]) : TRUE) \in IndexOf(pools, l[i])
        BY <3>1
      <4> QED BY <3>1, <4>1 DEF IndexOf
    <3>2. CASE ~(IndexOf(pools, l[i]) # {})
      BY <3>2 DEF Pool
    <3> QED BY <3>1, <3>2
  <2> HIDE DEF pool
  <2>3. \A i, j \in DOMAIN l : l[i] = l[j] => i = j
    BY DEF NoDuplicates, IsInjective
  <2>4. DOMAIN pools'.list = DOMAIN l /\ \A i \in DOMAIN l : pools'.list[i][1] = l[i]
    BY <2>1, <2>2
  <2>5. pools'.ver = v
    BY <2>1
  <2> QED BY <2>3, <2>4, <2>5 DEF Addressed
<1>3. CASE UNCHANGED vars
  BY <1>3 DEF vars, poolVars
<1>4. ASSUME NEW c \in Call,
             Load(c) \/ send_req(c) \/ CallLoop(c) \/ ResubmitNext(c) \/ ResubmitTo(c)
      PROVE  pools' = pools
  BY <1>4, Zenon DEF Load, send_req, CallLoop, ResubmitNext, ResubmitTo, poolVars
<1>5. ASSUME NEW c \in Call, Answer(c) \/ RetryRecv(c) \/ RetryRoute(c)
      PROVE  pools' = pools
  BY <1>5, Zenon DEF Answer, AnswerOk, AnswerRpcError, AnswerUserError, RetryRecv, RetryRoute, poolVars
<1>6. ASSUME NEW p, set_err(p) PROVE pools' = pools
  BY <1>6 DEF set_err
<1>7. CASE DropHandle \/ Terminated
  BY <1>7 DEF DropHandle, Terminated, vars, poolVars
<1> QED BY <1>1, <1>2, <1>3, <1>4, <1>5, <1>6, <1>7 DEF Next, Caller, retry_worker

\* A step moves one request, or none.
LEMMA StepOf ==
  ASSUME Inv, DOMAIN at = Call, [Next]_vars
  PROVE  \/ \E c \in Call : /\ Load(c) \/ Caller(c) \/ Answer(c) \/ RetryRecv(c) \/ RetryRoute(c)
                            /\ Alone(c) /\ Tracked(c)
         \/ UNCHANGED <<pc, at, task, snap>>
<1>1. ASSUME NEW c \in Call, Load(c) \/ Caller(c) PROVE Alone(c) /\ Tracked(c)
  BY <1>1, CallerTracked
<1>2. ASSUME NEW c \in Call, Answer(c) \/ RetryRecv(c) \/ RetryRoute(c)
      PROVE  Alone(c) /\ Tracked(c)
  BY <1>2, RetryTracked
<1>3. ASSUME NEW l, update_addrs(l) PROVE UNCHANGED <<pc, at, task, snap>>
  BY <1>3 DEF update_addrs, taskVars
<1>4. ASSUME NEW p, set_err(p) PROVE UNCHANGED <<pc, at, task, snap>>
  BY <1>4 DEF set_err, taskVars
<1>5. CASE DropHandle \/ Terminated \/ UNCHANGED vars
  BY <1>5 DEF DropHandle, Terminated, vars, taskVars
<1> QED BY <1>1, <1>2, <1>3, <1>4, <1>5 DEF Next, retry_worker

LEMMA TrackStep ==
  ASSUME Inv, Track, NoDuplicates, [Next]_vars
  PROVE  Track'
<1>1. DOMAIN at' = Call /\ \A c \in Call : Tracked(c)
  <2>1. CASE UNCHANGED <<pc, at, task, snap>>
    BY <2>1 DEF Track, Tracked, Holds, Stays
  <2> QED BY <2>1, StepOf, AloneTracked DEF Track
<1>2. pools' = pools \/ (pools'.ver = pools.ver + 1 /\ Addressed(pools'))
  BY Configured DEF Track, Confs
<1>3. ASSUME NEW cl \in Confs'
      PROVE  cl \in Confs \/ (cl = pools' /\ pools'.ver = pools.ver + 1 /\ Addressed(pools'))
  <2>1. CASE cl = pools'
    BY <1>2, <2>1 DEF Confs
  <2>2. ASSUME NEW d \in Call, pc'[d] # "idle", cl = snap'[d]
        PROVE  cl = pools' \/ cl \in Confs
    BY <1>1, <2>2 DEF Tracked, Holds, Confs
  <2> QED BY <2>1, <2>2 DEF Confs
<1>4. pools.ver \in Nat /\ \A cl \in Confs : cl.ver \in Nat /\ cl.ver <= pools.ver
  BY DEF Inv, PoolTypes, CallTypes, Config, Known, Confs
<1>5. ASSUME NEW cl \in Confs', NEW cm \in Confs', cl.ver = cm.ver PROVE cl = cm
  BY <1>3, <1>4, <1>5 DEF Track
<1>6. ASSUME NEW cl \in Confs' PROVE Addressed(cl)
  BY <1>3 DEF Track
<1>7. ASSUME NEW c \in Call, pc'[c] \in {"pool", "queued"}, NEW cl \in Confs',
             cl.ver = task'[c].config_ver
      PROVE  at'[c] = PoolAt(cl, task'[c].last_index)
  <2>1. CASE Stays(c)
    <3>1. task[c].config_ver \in Nat /\ task[c].config_ver <= pools.ver
      BY DEF Inv, CallTypes, TaskRec, Known
    <3>2. cl \in Confs
      BY <1>3, <1>4, <1>7, <2>1, <3>1 DEF Stays
    <3> QED BY <1>7, <2>1, <3>2 DEF Track, Placed, Stays
  <2>2. CASE Sent(c)
    <3>1. PICK cm \in {pools', snap'[c]} :
            at'[c] = PoolAt(cm, task'[c].last_index) /\ cm.ver = task'[c].config_ver
      BY <2>2 DEF Sent
    <3>2. cm \in Confs'
      BY <1>7 DEF Confs
    <3> QED BY <1>5, <1>7, <3>1, <3>2
  <2> QED BY <1>1, <1>7, <2>1, <2>2 DEF Tracked
<1>8. \A c \in Call : Placed(c)'
  BY <1>7 DEF Placed
<1> QED BY <1>1, <1>5, <1>6, <1>8 DEF Track, Addressed

LEMMA TrackInit == ASSUME NoDuplicates, Init PROVE Track
<1>1. Confs = {pools} /\ DOMAIN at = Call /\ \A c \in Call : pc[c] = "idle"
  BY DEF Init, Confs
<1>2. Addressed(pools)
  BY DEF Init, Addressed, Pool, NoDuplicates, IsInjective
<1> QED BY <1>1, <1>2 DEF Track, Placed

\* A retry in an unchanged configuration does not go back to the pool that just
\* failed while another one is healthy (retry_worker: backup of last_index), however
\* configurations, redirects and retries mix, when no address is given twice.
THEOREM MovingOn == ASSUME NoDuplicates PROVE Spec => RetryMovesOn
<1>1. ASSUME Inv, Track, [Next]_vars, NEW c \in retrying,
             pc'[c] = "pool", snap[c].ver = task[c].config_ver,
             NEW p \in Range(snap[c].list) \ sick, p # at[c]
      PROVE  at'[c] # at[c]
  <2>1. c \in Call /\ pc[c] = "queued"
    BY <1>1 DEF Inv, Queue, QueuedOnce
  <2>2. RetryRoute(c)
    <3>1. PICK d \in Call : /\ Load(d) \/ Caller(d) \/ Answer(d) \/ RetryRecv(d) \/ RetryRoute(d)
                            /\ Alone(d)
      BY <1>1, <2>1, StepOf DEF Track
    <3>2. d = c
      BY <1>1, <2>1, <3>1 DEF Alone
    <3>3. ~RetryRecv(c)
      BY <1>1 DEF RetryRecv
    <3>4. ~Load(c) /\ ~Caller(c)
      BY <2>1 DEF Load, Caller, send_req, CallLoop, ResubmitNext, get_or_add_addr, ResubmitTo
    <3>5. ~Answer(c)
      BY <2>1 DEF Answer, AnswerOk, AnswerRpcError, AnswerUserError
    <3> QED BY <3>1, <3>2, <3>3, <3>4, <3>5
  <2>3. PICK n : n = task[c].last_index
    OBVIOUS
  <2>4. pc \in [Call -> Place] /\ n \in Nat /\ snap[c] \in Config
    <3>1. CallTypes
      BY <1>1 DEF Inv
    <3> QED BY <2>1, <2>3, <3>1 DEF CallTypes, TaskRec
  <2>5. Addressed(snap[c]) /\ at[c] = PoolAt(snap[c], n)
    <3>1. snap[c] \in Confs
      BY <2>1 DEF Confs
    <3> QED BY <1>1, <2>1, <2>3, <3>1 DEF Track, Placed
  <2>6. CASE Goto(c, "returned")
    BY <1>1, <2>1, <2>4, <2>6 DEF Goto
  <2>7. ASSUME NEW i \in select(snap[c], backup(n)), NEW t, SendTo(c, PoolAt(snap[c], i), t)
        PROVE  at'[c] # at[c]
    <3>1. at'[c] = PoolAt(snap[c], i)
      BY <1>1, <2>1, <2>7 DEF SendTo, Track
    <3>2. i \in select(snap[c], n + 1)
      BY DEF backup
    <3> QED BY <1>1, <2>4, <2>5, <3>1, <3>2, OtherPool
  <2>8. \/ Goto(c, "returned")
        \/ \E i \in select(snap[c], backup(n)) :
             SendTo(c, PoolAt(snap[c], i), [task[c] EXCEPT !.last_index = i, !.config_ver = snap[c].ver])
    BY <1>1, <2>2, <2>3, Zenon DEF RetryRoute
  <2> QED BY <2>6, <2>7, <2>8, Zenon
<1>2. Inv /\ Track /\ [Next]_vars =>
        \A c \in retrying :
          ( /\ pc'[c] = "pool"
            /\ snap[c].ver = task[c].config_ver
            /\ \E p \in Range(snap[c].list) \ sick : p # at[c] ) => at'[c] # at[c]
  BY <1>1
<1>3. Init => Track
  BY TrackInit
<1>4. Inv /\ Track /\ [Next]_vars => Track'
  BY TrackStep
<1> QED BY <1>2, <1>3, <1>4, Invariance, PTL DEF Spec, RetryMovesOn
--------------------------------------------------------------------------------
(* The pools that failed are counted; the facts about finite sets are only     *)
(* needed here.                                                                *)

Sickness == IsFiniteSet(sick) /\ Cardinality(sick) <= MaxSick

LEMMA SickStep ==
  ASSUME [Next]_vars
  PROVE  sick' = sick \/ (Cardinality(sick) < MaxSick /\ \E q : sick' = sick \cup {q})
<1>1. ASSUME NEW c \in Call, Load(c) \/ Caller(c) PROVE sick' = sick
  BY <1>1, Zenon DEF Load, Caller, send_req, CallLoop, ResubmitNext, get_or_add_addr, ResubmitTo, poolVars
<1>2. ASSUME NEW c \in Call, Answer(c) \/ RetryRecv(c) \/ RetryRoute(c) PROVE sick' = sick
  BY <1>2, Zenon DEF Answer, AnswerOk, AnswerRpcError, AnswerUserError, RetryRecv, RetryRoute, poolVars
<1>3. ASSUME NEW l, update_addrs(l) PROVE sick' = sick
  BY <1>3 DEF update_addrs
<1>4. ASSUME NEW q, set_err(q) PROVE Cardinality(sick) < MaxSick /\ sick' = sick \cup {q}
  BY <1>4 DEF set_err
<1>5. CASE DropHandle \/ Terminated \/ UNCHANGED vars
  BY <1>5 DEF DropHandle, Terminated, vars, poolVars
<1> QED BY <1>1, <1>2, <1>3, <1>4, <1>5, Zenon DEF Next, retry_worker

INSTANCE FiniteSetTheorems

\* Every variable of the failover pool keeps its type: versions only refer to
\* configurations that existed, and the retry counters stay within the limit.
THEOREM Typing == Spec => []TypeOK
<1>1. ASSUME Inv, Sickness PROVE TypeOK
  <2>1. pools.ver \in Nat /\ \A i \in DOMAIN pools.list : pools.list[i] \in Addr \X Nat
    BY <1>1 DEF Inv, PoolTypes, Config
  <2>2. Cardinality(leader) <= 1 /\ Cardinality(retrying) <= 1 /\ retrying \subseteq Call
    <3>1. Cardinality({}) = 0 /\ \A x : Cardinality({x}) = 1
      BY FS_EmptySet, FS_Singleton
    <3>2. leader = {} \/ \E a : leader = {a}
      BY <1>1 DEF Inv, PoolTypes
    <3>3. retrying = {} \/ \E c \in Call : retrying = {c}
      BY <1>1 DEF Inv, Queue
    <3>4. Cardinality(leader) = 0 \/ Cardinality(leader) = 1
      BY <3>1, <3>2
    <3>5. Cardinality(retrying) = 0 \/ Cardinality(retrying) = 1
      BY <3>1, <3>3, Zenon
    <3> QED BY <3>3, <3>4, <3>5, SMTT(20)
  <2>3. ASSUME NEW c \in Call
        PROVE  /\ task[c] \in [last_index : Nat, config_ver : 0 .. pools.ver,
                                retry : 0 .. RetryLimit + 1, should_retry : BOOLEAN]
               /\ retry_count[c] \in 0 .. RetryLimit + 1
    <3>1. /\ task[c] \in TaskRec /\ retry_count[c] \in Nat
          /\ task[c].config_ver <= pools.ver /\ task[c].retry <= RetryLimit + 1
          /\ retry_count[c] <= RetryLimit + 1
      BY <1>1, Here DEF Budget
    <3> QED BY <2>1, <3>1, FailoverAssumption, SMTT(20) DEF TaskRec
  <2>4. retry_count \in [Call -> 0 .. RetryLimit + 1]
    BY <1>1, <2>3 DEF Inv, CallTypes
  <2>5. retry_rx \in Seq(Call) /\ pc \in [Call -> Place]
    BY <1>1 DEF Inv, Queue, CallTypes
  <2>6. /\ next_node \in Nat /\ Cardinality(sick) <= MaxSick /\ handle \in BOOLEAN
        /\ updates \in 0 .. MaxUpdates
    BY <1>1 DEF Inv, PoolTypes, Sickness
  <2> QED BY ONLY <2>1, <2>2, <2>3, <2>4, <2>5, <2>6, SMTT(20) DEF TypeOK, Place
<1>2. Init => Sickness
  BY FS_EmptySet, FailoverAssumption, SMTT(20) DEF Init, Sickness
<1>3. ASSUME Inv, Sickness, [Next]_vars PROVE Sickness'
  <2>1. \/ sick' = sick
        \/ Cardinality(sick) < MaxSick /\ \E q : sick' = sick \cup {q}
    BY <1>3, SickStep, SMTT(20)
  <2>2. IsFiniteSet(sick) /\ Cardinality(sick) \in Nat /\ Cardinality(sick) <= MaxSick
    BY <1>3, FS_CardinalityType DEF Sickness
  <2>3. ASSUME NEW q
        PROVE  /\ IsFiniteSet(sick \cup {q})
               /\ \/ Cardinality(sick \cup {q}) = Cardinality(sick)
                  \/ Cardinality(sick \cup {q}) = Cardinality(sick) + 1
    BY <2>2, FS_AddElement, SMTT(20)
  <2>4. MaxSick \in Nat
    BY FailoverAssumption
  <2>5. CASE sick' = sick
    BY <1>3, <2>5, Zenon DEF Sickness
  <2>6. ASSUME NEW q, sick' = sick \cup {q}, Cardinality(sick) < MaxSick PROVE Sickness'
    <3>1. IsFiniteSet(sick \cup {q}) /\ Cardinality(sick \cup {q}) <= MaxSick
      BY <2>2, <2>3, <2>4, <2>6, SMTT(20)
    <3> QED BY <2>6, <3>1, Zenon DEF Sickness
  <2> QED BY <2>1, <2>5, <2>6
<1>4. Inv /\ Sickness => TypeOK
  BY <1>1
<1>5. Inv /\ Sickness /\ [Next]_vars => Sickness'
  BY <1>3
<1> QED BY <1>2, <1>4, <1>5, Invariance, PTL DEF Spec
================================================================================
