-------------------------- MODULE ClientStreamProofs --------------------------
(***************************************************************************)
(* Invariants of a client connection for every number of tasks, every      *)
(* window, every task_timeout and read_timeout and any set of faults: what *)
(* its channel and its timer hold, that no task is in two places, and the  *)
(* order of the sequence numbers.  ClientPromiseProofs has the theorems.   *)
(***************************************************************************)
EXTENDS ClientStream, TLAPS

\* A step may use this fact and gains nothing from it, but a record update among its
\* facts spares tlapm the inference of types, which takes most of the time otherwise.
LEMMA RecordUpdate == \A r : [r EXCEPT !.field = 1] = [r EXCEPT !.field = 1]
OBVIOUS

USE RecordUpdate

(* What a channel holds, which is modelled as a sequence. *)

LEMMA EmptySeq ==
  ASSUME NEW S
  PROVE  <<>> \in Seq(S) /\ \A s \in Seq(S) : (s = <<>>) <=> (Len(s) = 0)
OBVIOUS

\* Sending once more, or replacing the first element.
LEMMA SendType ==
  ASSUME NEW S, NEW s \in Seq(S), NEW x \in S
  PROVE  Append(s, x) \in Seq(S) /\ (s # <<>> => <<x>> \o Tail(s) \in Seq(S))
OBVIOUS

\* An empty channel holds nothing, and nothing twice.
LEMMA RangeEmpty == Range(<<>>) = {} /\ IsInjective(<<>>)
BY DEF Range, IsInjective

\* Sending one element into a channel adds it to the channel's contents.
LEMMA RangeAppend ==
  ASSUME NEW S, NEW s \in Seq(S), NEW x \in S
  PROVE  Range(Append(s, x)) = Range(s) \cup {x}
<1>1. /\ Len(Append(s, x)) = Len(s) + 1
      /\ \A i \in 1 .. Len(s) : Append(s, x)[i] = s[i]
      /\ Append(s, x)[Len(s) + 1] = x
  OBVIOUS
<1>2. DOMAIN s = 1 .. Len(s) /\ DOMAIN Append(s, x) = 1 .. Len(s) + 1 /\ Len(s) \in Nat
  OBVIOUS
<1>3. ASSUME NEW y \in Range(Append(s, x)) PROVE y \in Range(s) \cup {x}
  BY <1>1, <1>2 DEF Range
<1>4. ASSUME NEW y \in Range(s) \cup {x} PROVE y \in Range(Append(s, x))
  BY <1>1, <1>2 DEF Range
<1> QED BY <1>3, <1>4

\* Sending an element that is not in the channel puts nothing there twice.
LEMMA InjAppend ==
  ASSUME NEW S, NEW s \in Seq(S), NEW x \in S, IsInjective(s), x \notin Range(s)
  PROVE  IsInjective(Append(s, x))
<1>1. DOMAIN s = 1 .. Len(s) /\ DOMAIN Append(s, x) = 1 .. Len(s) + 1 /\ Len(s) \in Nat
  OBVIOUS
<1>2. /\ \A i \in 1 .. Len(s) : Append(s, x)[i] = s[i]
      /\ Append(s, x)[Len(s) + 1] = x
  OBVIOUS
<1>3. \A i \in 1 .. Len(s) : s[i] # x
  BY <1>1 DEF Range
<1> QED BY <1>1, <1>2, <1>3 DEF IsInjective

--------------------------------------------------------------------------------

(* What each operation of ClientTaskTimer does to the set of registered tasks. *)

\* No task is in two places of the timer at once.
Apart ==
  /\ Range(pending_tasks) \cap InTimer = {}
  /\ sent_tasks \cap Delayed = {}
  /\ \A i, j \in DOMAIN delay_tasks_queue :
       i # j => delay_tasks_queue[i] \cap delay_tasks_queue[j] = {}

\* The timer's containers: where the sender and the receiver put tasks.
containers == <<pending_tasks, sent_tasks, delay_tasks_queue>>

\* The type of the containers alone.
ContainersOK ==
  /\ pending_tasks \in Seq(Task)
  /\ sent_tasks \subseteq Task
  /\ delay_tasks_queue \in Seq(SUBSET Task)
--------------------------------------------------------------------------------
\* Pushing a batch in front adds its tasks to the delayed ones.
LEMMA UnionPush ==
  ASSUME NEW S, NEW A \in SUBSET S, NEW q \in Seq(SUBSET S)
  PROVE  UNION Range(<<A>> \o q) = A \cup UNION Range(q)
<1> DEFINE p == <<A>> \o q
<1>1. p \in Seq(SUBSET S) /\ Len(p) = Len(q) + 1 /\ Len(q) \in Nat
  OBVIOUS
<1>2. p[1] = A /\ \A i \in 1 .. Len(q) : p[i + 1] = q[i]
  OBVIOUS
<1>3. DOMAIN p = 1 .. Len(q) + 1 /\ DOMAIN q = 1 .. Len(q)
  BY <1>1
<1>4. ASSUME NEW y \in UNION Range(p) PROVE y \in A \cup UNION Range(q)
  <2>1. PICK i \in 1 .. Len(q) + 1 : y \in p[i]
    BY <1>3 DEF Range
  <2>2. CASE i = 1
    BY <2>1, <2>2, <1>2
  <2>3. CASE i # 1
    <3>1. i - 1 \in 1 .. Len(q) /\ p[i] = q[i - 1]
      BY <2>3, <1>1, <1>2
    <3> QED BY <2>1, <3>1, <1>3 DEF Range
  <2> QED BY <2>2, <2>3
<1>5. ASSUME NEW y \in A PROVE y \in UNION Range(p)
  <2>1. 1 \in DOMAIN p
    BY <1>1, <1>3
  <2> QED BY <2>1, <1>2, <1>5 DEF Range
<1>6. ASSUME NEW y \in UNION Range(q) PROVE y \in UNION Range(p)
  <2>1. PICK i \in 1 .. Len(q) : y \in q[i]
    BY <1>3 DEF Range
  <2>2. i + 1 \in DOMAIN p /\ p[i + 1] = q[i]
    BY <1>1, <1>2, <1>3
  <2> QED BY <2>1, <2>2 DEF Range
<1> QED BY <1>4, <1>5, <1>6
--------------------------------------------------------------------------------
\* Every batch of the delay queue is part of Delayed.
LEMMA DelayedElem ==
  ASSUME ContainersOK
  PROVE  /\ DOMAIN delay_tasks_queue = 1 .. Len(delay_tasks_queue)
         /\ \A i \in DOMAIN delay_tasks_queue : delay_tasks_queue[i] \subseteq Delayed
         /\ \A t \in Delayed : \E i \in DOMAIN delay_tasks_queue : t \in delay_tasks_queue[i]
         /\ Registered \subseteq Task
BY DEF Delayed, Range, ContainersOK, Registered, InTimer

\* reg_task: exactly the new task becomes registered, and in one place only.
LEMMA RegStep ==
  ASSUME ContainersOK, Apart, NEW t \in Task, t \notin Registered, reg_task(t),
         UNCHANGED <<sent_tasks, delay_tasks_queue>>
  PROVE  ContainersOK' /\ Apart' /\ Registered' = Registered \cup {t}
<1>1. Range(pending_tasks') = Range(pending_tasks) \cup {t}
  BY RangeAppend DEF reg_task, ContainersOK
<1>2. Delayed' = Delayed /\ InTimer' = InTimer
  BY DEF Delayed, InTimer
<1>3. pending_tasks' \in Seq(Task)
  BY DEF reg_task, ContainersOK
<1> QED BY <1>1, <1>2, <1>3 DEF Apart, ContainersOK, Registered

\* poll_sent_task: draining the channel moves tasks, it neither adds nor loses
\* one, and none ends up in two places.
LEMMA DrainStep ==
  ASSUME ContainersOK, Apart, poll_sent_task, UNCHANGED delay_tasks_queue
  PROVE  /\ ContainersOK' /\ Apart'
         /\ Registered' = Registered /\ InTimer' = Registered
<1>1. pending_tasks' = <<>> /\ Range(pending_tasks') = {}
  BY RangeEmpty DEF poll_sent_task, DrainChannel
<1>2. Delayed' = Delayed
  BY DEF Delayed
<1>3. sent_tasks' = sent_tasks \cup Range(pending_tasks)
  BY DEF poll_sent_task
<1>4. Range(pending_tasks) \subseteq Task
  BY DelayedElem DEF Registered
<1>5. ContainersOK'
  BY <1>1, <1>3, <1>4 DEF ContainersOK
<1>6. InTimer' = Registered /\ Registered' = Registered
  BY <1>1, <1>2, <1>3 DEF InTimer, Registered
<1>7. Apart'
  BY <1>1, <1>2, <1>3 DEF Apart, InTimer
<1> QED BY <1>5, <1>6, <1>7

\* take_task: exactly the tasks taken leave the timer.
LEMMA TakeStep ==
  ASSUME ContainersOK, Apart, NEW S, S \subseteq InTimer, remove_task(S),
         UNCHANGED pending_tasks
  PROVE  ContainersOK' /\ Apart' /\ Registered' = Registered \ S
<1> DEFINE q == delay_tasks_queue
           r == delay_tasks_queue'
<1>1. DOMAIN r = DOMAIN q /\ \A i \in DOMAIN q : r[i] = q[i] \ S
  BY DEF remove_task
<1>2. q \in Seq(SUBSET Task) /\ DOMAIN q = 1 .. Len(q) /\ Len(q) \in Nat
  BY DEF ContainersOK
<1>3. r \in Seq(SUBSET Task)
  <2>1. r = [i \in 1 .. Len(q) |-> q[i] \ S]
    BY <1>2 DEF remove_task
  <2>2. \A i \in 1 .. Len(q) : q[i] \ S \in SUBSET Task
    BY <1>2
  <2> QED BY <2>1, <2>2, <1>2
<1>4. Delayed' = Delayed \ S
  BY <1>1 DEF Delayed, Range
<1>5. sent_tasks' = sent_tasks \ S
  BY DEF remove_task
<1>6. Registered' = Registered \ S
  BY <1>4, <1>5 DEF Registered, InTimer, Apart
<1>7. Apart'
  BY <1>1, <1>4, <1>5 DEF Apart, InTimer
<1> QED BY <1>3, <1>5, <1>6, <1>7 DEF ContainersOK

\* clean_pending_tasks leaves the timer and its channel empty.
LEMMA CleanStep ==
  ASSUME ContainersOK, clean_pending_tasks
  PROVE  ContainersOK' /\ Apart' /\ Registered' = {}
<1> DEFINE q == delay_tasks_queue
           r == delay_tasks_queue'
<1>1. pending_tasks' = <<>> /\ Range(pending_tasks') = {} /\ sent_tasks' = {}
  BY RangeEmpty DEF clean_pending_tasks, DrainChannel
<1>2. q \in Seq(SUBSET Task) /\ DOMAIN q = 1 .. Len(q) /\ Len(q) \in Nat
  BY DEF ContainersOK
<1>3. r = [i \in 1 .. Len(q) |-> {}]
  BY <1>2 DEF clean_pending_tasks
<1>4. r \in Seq(SUBSET Task) /\ \A i \in DOMAIN r : r[i] = {}
  BY <1>2, <1>3
<1>5. Delayed' = {}
  BY <1>4 DEF Delayed, Range
<1> QED BY <1>1, <1>4, <1>5 DEF ContainersOK, Apart, Registered, InTimer

\* adjust_task_queue: exactly the expired batch leaves the timer.
LEMMA AdjustStep ==
  ASSUME ContainersOK, Apart, TaskTimeout \in Nat, adjust_task_queue,
         UNCHANGED pending_tasks
  PROVE  /\ ContainersOK' /\ Apart'
         /\ Expired \subseteq Registered /\ Registered' = Registered \ Expired
<1> DEFINE q == delay_tasks_queue
           n == Len(q)
<1>1. q \in Seq(SUBSET Task) /\ DOMAIN q = 1 .. n /\ n \in Nat /\ sent_tasks \in SUBSET Task
  BY DEF ContainersOK
<1>2. /\ Pushed \in Seq(SUBSET Task) /\ Len(Pushed) = n + 1
      /\ Pushed[1] = sent_tasks
      /\ \A i \in 1 .. n : Pushed[i + 1] = q[i]
      /\ UNION Range(Pushed) = InTimer
  <2>1. UNION Range(Pushed) = sent_tasks \cup UNION Range(q)
    <3>1. ASSUME NEW A \in SUBSET Task PROVE UNION Range(<<A>> \o q) = A \cup UNION Range(q)
      BY <1>1, UnionPush
    <3> QED BY <1>1, <3>1 DEF Pushed
  <2>2. Pushed \in Seq(SUBSET Task) /\ Len(Pushed) = n + 1 /\ Pushed[1] = sent_tasks
    BY <1>1 DEF Pushed
  <2>3. \A i \in 1 .. n : Pushed[i + 1] = q[i]
    BY <1>1 DEF Pushed
  <2> QED BY <2>1, <2>2, <2>3 DEF InTimer, Delayed
<1>3. DOMAIN Pushed = 1 .. n + 1
  BY <1>2
<1>4. \A i, j \in 1 .. n + 1 : i # j => Pushed[i] \cap Pushed[j] = {}
  <2> SUFFICES ASSUME NEW i \in 1 .. n + 1, NEW j \in 1 .. n + 1, i < j
               PROVE  Pushed[i] \cap Pushed[j] = {}
    BY <1>1
  <2>1. j - 1 \in 1 .. n /\ Pushed[j] = q[j - 1]
    BY <1>1, <1>2
  <2>2. CASE i = 1
    BY <2>1, <2>2, <1>1, <1>2, DelayedElem DEF Apart
  <2>3. CASE i # 1
    <3>1. i - 1 \in 1 .. n /\ Pushed[i] = q[i - 1]
      BY <2>3, <1>1, <1>2
    <3> QED BY <2>1, <3>1, <1>1 DEF Apart
  <2> QED BY <2>2, <2>3
<1>5. CASE TooLong
  <2>1. delay_tasks_queue' = SubSeq(Pushed, 1, Len(Pushed) - 1) /\ Expired = Pushed[n + 1]
    BY <1>5, <1>2 DEF adjust_task_queue, Expired
  <2>2. /\ SubSeq(Pushed, 1, Len(Pushed) - 1) \in Seq(SUBSET Task) /\ Len(SubSeq(Pushed, 1, Len(Pushed) - 1)) = n
        /\ \A i \in 1 .. n : SubSeq(Pushed, 1, Len(Pushed) - 1)[i] = Pushed[i]
    BY <1>1, <1>2
  <2>3. DOMAIN SubSeq(Pushed, 1, Len(Pushed) - 1) = 1 .. n
    BY <2>2
  <2>4. Delayed' = InTimer \ Expired
    <3>1. ASSUME NEW t \in Delayed' PROVE t \in InTimer \ Expired
      <4>1. PICK i \in 1 .. n : t \in Pushed[i]
        BY <2>1, <2>2, <2>3 DEF Delayed, Range
      <4>2. i \in 1 .. n + 1 /\ n + 1 \in 1 .. n + 1 /\ i # n + 1
        BY <1>1
      <4>3. t \notin Pushed[n + 1]
        BY <4>1, <4>2, <1>4
      <4>4. t \in UNION Range(Pushed)
        BY <4>1, <4>2, <1>3 DEF Range
      <4> QED BY <4>3, <4>4, <2>1, <1>2
    <3>2. ASSUME NEW t \in InTimer \ Expired PROVE t \in Delayed'
      <4>1. PICK i \in 1 .. n + 1 : t \in Pushed[i]
        BY <1>2, <1>3 DEF Range
      <4>2. i \in 1 .. n
        BY <4>1, <2>1, <3>2, <1>1
      <4> QED BY <4>1, <4>2, <2>1, <2>2, <2>3 DEF Delayed, Range
    <3> QED BY <3>1, <3>2
  <2>5. Expired \subseteq InTimer
    BY <2>1, <1>1, <1>2, <1>3 DEF Range
  <2>6. \A i, j \in DOMAIN delay_tasks_queue' :
          i # j => delay_tasks_queue'[i] \cap delay_tasks_queue'[j] = {}
    <3>1. /\ DOMAIN delay_tasks_queue' = 1 .. n
          /\ \A i \in 1 .. n : delay_tasks_queue'[i] = Pushed[i]
      BY <2>1, <2>2, <2>3
    <3>2. \A i \in 1 .. n : i \in 1 .. n + 1
      BY <1>1
    <3> QED BY <3>1, <3>2, <1>4
  <2>7. sent_tasks' = {}
    BY DEF adjust_task_queue
  <2>8. ContainersOK'
    BY <2>1, <2>2, <2>7 DEF ContainersOK
  <2>9. Apart'
    BY <2>4, <2>6, <2>7 DEF Apart, InTimer
  <2> QED BY <2>4, <2>5, <2>7, <2>8, <2>9 DEF Registered, InTimer, Apart
<1>6. CASE ~TooLong
  <2>1. delay_tasks_queue' = Pushed /\ Expired = {} /\ sent_tasks' = {}
    BY <1>6 DEF adjust_task_queue, Expired
  <2>2. Delayed' = InTimer
    BY <2>1, <1>2 DEF Delayed
  <2>3. ContainersOK'
    BY <2>1, <1>2 DEF ContainersOK
  <2>4. Apart'
    BY <2>1, <2>2, <1>3, <1>4 DEF Apart, InTimer
  <2> QED BY <2>1, <2>2, <2>3, <2>4 DEF Registered, InTimer
<1> QED BY <1>5, <1>6

--------------------------------------------------------------------------------
(* The connection. *)

\* Where the sender has a task in its hands.
Carrying == {"counted", "request", "reg", "write_err", "write_err_flag",
             "write_err_done"}

\* The sender's hands: the task of the latest call, or nothing.
CurShape ==
  /\ spc \in Carrying => submitted \in Task /\ cur = {submitted}
  /\ spc \notin Carrying => cur = {}

\* The receiver holds a task only from take_task to the end of the frame, or
\* until it exits if the read was abandoned.
HeldShape == rpc \notin {"body", "failed", "clean", "spin"} => held = {}

\* The sender's hands, the timer and the receiver's hands never share a task.
HandsApart ==
  /\ cur \cap (Registered \cup held) = {}
  /\ held \cap Registered = {}

\* The task of a request that did not encode was destroyed.
UnsentGone == unsent \subseteq dropped

\* From its first cleaning on the receiver has set closed; when it is about to
\* test pending_task_count, only the channel can hold tasks.
ClosedShape ==
  /\ rpc \in {"clean", "spin", "gone", "freed"} => closed
  /\ rpc = "spin" => InTimer = {}

\* What holds besides the types.
Core ==
  /\ Apart
  /\ CurShape
  /\ HeldShape
  /\ HandsApart
  /\ UnsentGone
  /\ ClosedShape
  /\ TaskConserved
  /\ CountExact
  /\ NothingStranded

\* What the counting argument needs to know of cardinalities.
Countable ==
  /\ Cardinality({}) = 0
  /\ \A S \in SUBSET Task : Cardinality(S) \in Nat
  /\ \A S \in SUBSET Task, t \in Task : t \notin S => Cardinality(S \cup {t}) = Cardinality(S) + 1

Inv == Countable /\ TypeOK /\ Core
--------------------------------------------------------------------------------
\* Steps that leave the timer's containers alone leave what is in them alone.
LEMMA SameTimer ==
  ASSUME UNCHANGED containers
  PROVE  /\ Registered' = Registered /\ InTimer' = InTimer
         /\ Apart <=> Apart'
         /\ ContainersOK <=> ContainersOK'
BY DEF containers, Registered, InTimer, Delayed, Apart, ContainersOK

\* Steps of the connection that touch neither tasks nor the timer.
Idle ==
  \/ SendError \/ Throttle \/ FlushReq \/ FlushErrorFlags \/ Ping \/ SendPing
  \/ SetErrorAndExit \/ DropStream \/ DropStreamFlags
  \/ ReadHeader \/ ReadClosed \/ ReadHeaderError \/ RecvAndDump \/ Pending
  \/ ReceiveLoopError \/ PeerBody \/ Peer \/ Terminated

LEMMA IdleCore ==
  ASSUME Inv, Idle
  PROVE  Core'
<1>1. UNCHANGED <<results, dropped, containers, pending_task_count, cur, held, submitted, unsent>>
  BY Zenon DEF Idle, SendError, Throttle, FlushReq, FlushErrorFlags, Ping, SendPing,
         SetErrorAndExit, DropStream, DropStreamFlags, ReadHeader, ReadClosed,
         ReadHeaderError, RecvAndDump, Pending, ReceiveLoopError, PeerBody, Peer,
         Terminated, containers, taskVars, timerVars, senderVars, readerVars, vars,
         stop_reg_task
<1>2. closed => closed'
  BY Zenon DEF Idle, SendError, Throttle, FlushReq, FlushErrorFlags, Ping, SendPing,
         SetErrorAndExit, DropStream, DropStreamFlags, ReadHeader, ReadClosed,
         ReadHeaderError, RecvAndDump, Pending, ReceiveLoopError, PeerBody, Peer,
         Terminated, flags, vars
<1>3. \/ spc' = spc
      \/ spc \notin Carrying /\ spc' \notin Carrying
  BY Zenon DEF Idle, SendError, Throttle, FlushReq, FlushErrorFlags, Ping, SendPing,
         SetErrorAndExit, DropStream, DropStreamFlags, ReadHeader, ReadClosed,
         ReadHeaderError, RecvAndDump, Pending, ReceiveLoopError, PeerBody, Peer,
         Terminated, senderVars, vars, Carrying
<1>4. \/ rpc' = rpc
      \/ rpc = "failed" /\ rpc' = "clean" /\ closed'
      \/ rpc \in Awaiting \ {"body"} /\ rpc' \in Awaiting \cup {"failed"}
  BY Zenon DEF Idle, SendError, Throttle, FlushReq, FlushErrorFlags, Ping, SendPing,
         SetErrorAndExit, DropStream, DropStreamFlags, ReadHeader, ReadClosed,
         ReadHeaderError, RecvAndDump, Pending, ReceiveLoopError, PeerBody, Peer,
         Terminated, readerVars, vars, Awaiting
<1>5. /\ Registered' = Registered /\ InTimer' = InTimer /\ Outstanding' = Outstanding
      /\ Apart' /\ UNCHANGED <<results, dropped, pending_task_count, cur, held, submitted, unsent,
                               pending_tasks>>
  BY <1>1, SameTimer DEF Inv, Core, containers, Outstanding
<1>6. CurShape' /\ HeldShape' /\ ClosedShape' /\ NothingStranded'
  BY <1>2, <1>3, <1>4, <1>5
     DEF Inv, Core, CurShape, HeldShape, ClosedShape, NothingStranded, Carrying, Awaiting
<1>7. HandsApart' /\ UnsentGone'
  BY <1>3, <1>5 DEF Inv, Core, HandsApart, UnsentGone, Carrying
<1>8. TaskConserved'
  BY <1>5 DEF Inv, Core, TaskConserved
<1>9. CountExact'
  BY <1>3, <1>5 DEF Inv, Core, CountExact, Carrying, Counted
<1> QED BY <1>5, <1>6, <1>7, <1>8, <1>9 DEF Core
--------------------------------------------------------------------------------
\* The ways a step can treat the tasks that are owed, and that each of them
\* keeps every task in exactly one state: they move, ...
LEMMA ConservedMove ==
  ASSUME TaskConserved, Outstanding' = Outstanding, UNCHANGED <<results, dropped, submitted>>
  PROVE  TaskConserved'
BY DEF TaskConserved

\* ... they complete, ...
LEMMA ConservedComplete ==
  ASSUME TypeOK, TaskConserved, NEW S, NEW o \in Outcome, S \subseteq Outstanding,
         Complete(S, o), Outstanding' = Outstanding \ S, UNCHANGED <<dropped, submitted>>
  PROVE  TaskConserved' /\ results' \in [Task -> Seq(Outcome)]
<1>1. \A t \in Task : results[t] \in Seq(Outcome)
  BY DEF TypeOK, TaskTypeOK
<1>2. \A t \in Task : /\ t \in S => results'[t] = Append(results[t], o)
                      /\ t \notin S => results'[t] = results[t]
  BY DEF Complete
<1>3. results' \in [Task -> Seq(Outcome)]
  BY <1>1 DEF Complete
<1>4. ASSUME NEW t \in Task, t \in S PROVE Len(results'[t]) = 1 /\ t <= submitted /\ t \notin dropped
  <2>1. t \in Outstanding
    BY <1>4
  <2>2. ~(t > submitted) /\ results[t] = <<>> /\ t \notin dropped
    BY <2>1, <1>1 DEF TaskConserved, TypeOK, Task
  <2>3. t <= submitted
    BY <2>2, MaxTasksAssumption DEF TypeOK, Task
  <2>4. results'[t] = Append(<<>>, o)
    BY <2>2, <1>2, <1>4
  <2> QED BY <2>2, <2>3, <2>4
<1>5. TaskConserved'
  <2> SUFFICES ASSUME NEW t \in Task
               PROVE /\ t > submitted => t \notin Outstanding' /\ t \notin dropped /\ results'[t] = <<>>
                     /\ t <= submitted =>
                          \/ t \in Outstanding' /\ t \notin dropped /\ results'[t] = <<>>
                          \/ t \notin Outstanding' /\ t \in dropped /\ results'[t] = <<>>
                          \/ t \notin Outstanding' /\ t \notin dropped /\ Len(results'[t]) = 1
    BY DEF TaskConserved
  <2>1. CASE t \in S
    BY <2>1, <1>4, MaxTasksAssumption DEF TypeOK, Task
  <2>2. CASE t \notin S
    BY <2>2, <1>2 DEF TaskConserved
  <2> QED BY <2>1, <2>2
<1> QED BY <1>3, <1>5

\* ... they are destroyed, ...
LEMMA ConservedDrop ==
  ASSUME TypeOK, TaskConserved, NEW S, S \subseteq Outstanding,
         dropped' = dropped \cup S, Outstanding' = Outstanding \ S,
         UNCHANGED <<results, submitted>>
  PROVE  TaskConserved' /\ dropped' \subseteq Task
<1>1. Outstanding \subseteq Task
  BY DEF TypeOK, TimerTypeOK, Outstanding, Registered, InTimer, Delayed, Range
<1>2. dropped' \subseteq Task
  BY <1>1 DEF TypeOK, TaskTypeOK
<1>3. ASSUME NEW t \in Task, t \in S
      PROVE  t <= submitted /\ t \in dropped' /\ t \notin Outstanding' /\ results[t] = <<>>
  <2>1. t \in Outstanding /\ t \in Nat /\ submitted \in Nat
    BY <1>3, MaxTasksAssumption DEF TypeOK, Task
  <2>2. t <= submitted /\ results[t] = <<>>
    BY <2>1 DEF TaskConserved
  <2> QED BY <2>2, <1>3
<1>4. TaskConserved'
  <2> SUFFICES ASSUME NEW t \in Task
               PROVE /\ t > submitted => t \notin Outstanding' /\ t \notin dropped' /\ results[t] = <<>>
                     /\ t <= submitted =>
                          \/ t \in Outstanding' /\ t \notin dropped' /\ results[t] = <<>>
                          \/ t \notin Outstanding' /\ t \in dropped' /\ results[t] = <<>>
                          \/ t \notin Outstanding' /\ t \notin dropped' /\ Len(results[t]) = 1
    BY DEF TaskConserved
  <2>1. CASE t \in S
    BY <2>1, <1>3, MaxTasksAssumption DEF TypeOK, Task
  <2>2. CASE t \notin S
    BY <2>2 DEF TaskConserved
  <2> QED BY <2>1, <2>2
<1> QED BY <1>2, <1>4

\* ... or one is accepted.
LEMMA ConservedSubmit ==
  ASSUME TypeOK, TaskConserved, submitted < MaxTasks, submitted' = submitted + 1,
         Outstanding' = Outstanding \cup {submitted + 1}, UNCHANGED <<results, dropped>>
  PROVE  TaskConserved' /\ submitted + 1 \in Task /\ submitted + 1 \notin Outstanding
<1>1. submitted \in Nat /\ submitted + 1 \in Task
  BY MaxTasksAssumption DEF TypeOK, Task
<1>2. submitted + 1 \notin Outstanding /\ submitted + 1 \notin dropped /\ results[submitted + 1] = <<>>
  BY <1>1 DEF TaskConserved
<1>3. \A t \in Task : t \in Nat
  BY MaxTasksAssumption DEF Task
<1>4. TaskConserved'
  <2> SUFFICES ASSUME NEW t \in Task
               PROVE /\ t > submitted + 1 => t \notin Outstanding' /\ t \notin dropped /\ results[t] = <<>>
                     /\ t <= submitted + 1 =>
                          \/ t \in Outstanding' /\ t \notin dropped /\ results[t] = <<>>
                          \/ t \notin Outstanding' /\ t \in dropped /\ results[t] = <<>>
                          \/ t \notin Outstanding' /\ t \notin dropped /\ Len(results[t]) = 1
    BY DEF TaskConserved
  <2>1. CASE t = submitted + 1
    BY <2>1, <1>1, <1>2
  <2>2. CASE t # submitted + 1
    <3>1. /\ t > submitted + 1 => t > submitted
          /\ t <= submitted + 1 => t <= submitted
          /\ t \in Outstanding' <=> t \in Outstanding
      BY <2>2, <1>1, <1>3
    <3> QED BY <3>1 DEF TaskConserved
  <2> QED BY <2>1, <2>2
<1> QED BY <1>1, <1>2, <1>4
--------------------------------------------------------------------------------
\* The types of what the counting argument is about.
LEMMA CountTypes ==
  ASSUME Countable, TypeOK
  PROVE  /\ ContainersOK
         /\ Len(pending_tasks) \in Nat
         /\ pending_task_count \in Nat
         /\ Cardinality(unsent) \in Nat
<1>1. unsent \in SUBSET Task
  BY DEF TypeOK
<1> QED BY <1>1 DEF TypeOK, TimerTypeOK, ContainersOK, Countable

\* Steps of the receiver that may drain the registration channel.
LEMMA DrainCore ==
  ASSUME Inv, Poll \/ RecvOneResp \/ WaitRegTask
  PROVE  Core'
<1>1. UNCHANGED <<results, dropped, cur, held, submitted, unsent, spc, closed, delay_tasks_queue>>
  BY DEF Poll, RecvOneResp, WaitRegTask, taskVars, senderVars, flags
<1>2. /\ rpc \in Awaiting
      /\ \/ rpc' = rpc \/ rpc' = "failed"
         \/ rpc \in {"loop", "wait"} /\ rpc' \in {"hdr", "hdr_timed", "dump"}
  BY DEF Poll, RecvOneResp, WaitRegTask, Awaiting
<1>3. \/ poll_sent_task
      \/ UNCHANGED <<pending_tasks, pending_task_count, sent_tasks>>
  BY DEF Poll, RecvOneResp, WaitRegTask
<1>4. ContainersOK
  BY CountTypes DEF Inv
<1>5. Registered' = Registered /\ Apart'
  BY <1>1, <1>3, <1>4, SameTimer, DrainStep DEF containers, Inv, Core
<1>6. Outstanding' = Outstanding
  BY <1>1, <1>5 DEF Outstanding
<1>7. TaskConserved'
  BY <1>1, <1>6, ConservedMove DEF Inv, Core
<1>8. CountExact'
  <2>1. CASE poll_sent_task
    <3>1. pending_tasks' = <<>> /\ pending_task_count' = pending_task_count - Len(pending_tasks)
      BY <2>1 DEF poll_sent_task, DrainChannel
    <3>2. pending_task_count = Len(pending_tasks) + (IF spc \in Counted THEN 1 ELSE 0)
                                 + Cardinality(unsent)
      BY DEF Inv, Core, CountExact
    <3>3. pending_task_count' = 0 + (IF spc \in Counted THEN 1 ELSE 0)
                                  + Cardinality(unsent)
      BY <3>1, <3>2, CountTypes DEF Inv
    <3> QED BY <3>1, <3>3, <1>1 DEF CountExact
  <2>2. CASE UNCHANGED <<pending_tasks, pending_task_count, sent_tasks>>
    BY <2>2, <1>1 DEF Inv, Core, CountExact
  <2> QED BY <2>1, <2>2, <1>3
<1>9. CurShape' /\ HeldShape' /\ ClosedShape' /\ NothingStranded'
  BY <1>1, <1>2 DEF Inv, Core, CurShape, HeldShape, ClosedShape, NothingStranded, Awaiting
<1>10. HandsApart' /\ UnsentGone'
  BY <1>1, <1>5 DEF Inv, Core, HandsApart, UnsentGone
<1> QED BY <1>5, <1>7, <1>8, <1>9, <1>10, SMTT(20) DEF Core
--------------------------------------------------------------------------------
\* send_task up to the increment: the new task is counted before anything else.
LEMMA SendTaskCore ==
  ASSUME Inv, NEW flush \in BOOLEAN, SendTask(flush)
  PROVE  Core'
<1>1. /\ spc = "idle" /\ spc' = "counted" /\ submitted < MaxTasks
      /\ submitted' = submitted + 1 /\ cur' = {submitted + 1}
      /\ pending_task_count' = pending_task_count + 1
      /\ UNCHANGED <<results, dropped, unsent, containers, held, rpc, closed, pending_tasks>>
  BY DEF SendTask, count_task, taskVars, containers, readerVars, flags
<1>2. Registered' = Registered /\ InTimer' = InTimer /\ Apart'
  BY <1>1, SameTimer DEF Inv, Core
<1>3. cur = {}
  BY <1>1 DEF Inv, Core, CurShape, Carrying
<1>4. Outstanding' = Outstanding \cup {submitted + 1}
  BY <1>1, <1>2, <1>3 DEF Outstanding
<1>5. TaskConserved' /\ submitted + 1 \in Task /\ submitted + 1 \notin Outstanding
  BY <1>1, <1>4, ConservedSubmit DEF Inv, Core
<1>6. CountExact'
  BY <1>1, CountTypes DEF Inv, Core, CountExact, Counted
<1>7. CurShape' /\ HeldShape' /\ ClosedShape' /\ NothingStranded'
  BY <1>1, <1>2, <1>5
     DEF Inv, Core, CurShape, HeldShape, ClosedShape, NothingStranded, Carrying
<1>8. HandsApart' /\ UnsentGone'
  BY <1>1, <1>2, <1>5 DEF Inv, Core, HandsApart, UnsentGone, Outstanding
<1> QED BY <1>2, <1>5, <1>6, <1>7, <1>8 DEF Core

\* The closed check: the task is handed back and the count rolled back, or the
\* connection was open and the receiver has not reached its exit test.
LEMMA CheckClosedCore ==
  ASSUME Inv, CheckClosed
  PROVE  Core'
<1>1. /\ spc = "counted"
      /\ UNCHANGED <<dropped, containers, held, rpc, closed, submitted, unsent, pending_tasks>>
  BY DEF CheckClosed, containers, readerVars, flags
<1>2. Registered' = Registered /\ InTimer' = InTimer /\ Apart'
  BY <1>1, SameTimer DEF Inv, Core
<1>3. cur = {submitted} /\ submitted \in Task /\ cur \cap (Registered \cup held) = {}
  BY <1>1 DEF Inv, Core, CurShape, HandsApart, Carrying
<1>4. CASE closed
  <2>1. /\ Complete(cur, "io") /\ spc' = "idle" /\ cur' = {}
        /\ pending_task_count' = pending_task_count - 1
    BY <1>4, <1>1 DEF CheckClosed, rollback_count
  <2>2. Outstanding' = Outstanding \ cur /\ cur \subseteq Outstanding
    BY <2>1, <1>1, <1>2, <1>3 DEF Outstanding
  <2>3. TaskConserved'
    BY <2>1, <2>2, <1>1, ConservedComplete DEF Inv, Core, Outcome
  <2>4. CountExact'
    BY <2>1, <1>1, CountTypes DEF Inv, Core, CountExact, Counted
  <2>5. CurShape' /\ HeldShape' /\ ClosedShape' /\ NothingStranded' /\ HandsApart' /\ UnsentGone'
    BY <2>1, <1>1, <1>2 DEF Inv, Core, CurShape, HeldShape, ClosedShape, NothingStranded,
       HandsApart, UnsentGone, Carrying
  <2> QED BY <1>2, <2>3, <2>4, <2>5 DEF Core
<1>5. CASE ~closed
  <2>1. spc' = "request" /\ UNCHANGED <<results, pending_task_count, cur>>
    BY <1>5, <1>1 DEF CheckClosed
  <2>2. Outstanding' = Outstanding
    BY <2>1, <1>1, <1>2 DEF Outstanding
  <2>3. TaskConserved'
    BY <2>1, <2>2, <1>1, ConservedMove DEF Inv, Core
  <2>4. CountExact'
    BY <2>1, <1>1 DEF Inv, Core, CountExact, Counted
  <2>5. rpc \notin {"clean", "spin", "gone", "freed"}
    BY <1>5 DEF Inv, Core, ClosedShape
  <2>6. CurShape' /\ HeldShape' /\ ClosedShape' /\ NothingStranded' /\ HandsApart' /\ UnsentGone'
    BY <2>1, <2>5, <1>1, <1>2 DEF Inv, Core, CurShape, HeldShape, ClosedShape,
       NothingStranded, HandsApart, UnsentGone, Carrying
  <2> QED BY <1>2, <2>3, <2>4, <2>6 DEF Core
<1> QED BY <1>4, <1>5

\* The write of a request that encodes, successful or not.
LEMMA WriteCore ==
  ASSUME Inv, WriteRequest \/ WriteError
  PROVE  Core'
<1>1. /\ spc = "request" /\ spc' \in {"reg", "write_err"} /\ (closed => closed')
      /\ UNCHANGED <<results, dropped, containers, pending_task_count, cur, held, rpc,
                     submitted, unsent, pending_tasks>>
  BY DEF WriteRequest, WriteError, containers, timerVars, readerVars, flags
<1>2. Registered' = Registered /\ InTimer' = InTimer /\ Apart' /\ Outstanding' = Outstanding
  BY <1>1, SameTimer DEF Inv, Core, Outstanding
<1>3. cur = {submitted}
  BY <1>1 DEF Inv, Core, CurShape, Carrying
<1>5. TaskConserved'
  BY <1>1, <1>2, ConservedMove DEF Inv, Core
<1>6. CountExact'
  BY <1>1 DEF Inv, Core, CountExact, Counted
<1>7. CurShape' /\ HeldShape' /\ ClosedShape' /\ NothingStranded' /\ HandsApart' /\ UnsentGone'
  BY <1>1, <1>2 DEF Inv, Core, CurShape, HeldShape, ClosedShape, NothingStranded,
     HandsApart, UnsentGone, Carrying
<1> QED BY <1>2, <1>5, <1>6, <1>7 DEF Core

\* A request that does not encode: the task is destroyed and its count stays.
LEMMA EncodeErrorCore ==
  ASSUME Inv, EncodeError
  PROVE  Core'
<1>1. /\ spc = "request" /\ spc' = "send_err" /\ cur' = {} /\ dropped' = dropped \cup cur
      /\ unsent' = unsent \cup cur
      /\ UNCHANGED <<results, containers, pending_task_count, held, rpc, closed,
                     submitted, pending_tasks>>
  BY DEF EncodeError, containers, timerVars, readerVars, flags
<1>2. Registered' = Registered /\ InTimer' = InTimer /\ Apart'
  BY <1>1, SameTimer DEF Inv, Core
<1>3. cur = {submitted} /\ submitted \in Task /\ cur \cap (Registered \cup held) = {}
  BY <1>1 DEF Inv, Core, CurShape, HandsApart, Carrying
<1>5. Outstanding' = Outstanding \ cur /\ cur \subseteq Outstanding
  BY <1>1, <1>2, <1>3 DEF Outstanding
<1>6. TaskConserved'
  BY <1>1, <1>5, ConservedDrop DEF Inv, Core
<1>7. CountExact'
  <2> DEFINE D == unsent
  <2>1. submitted \notin dropped
    BY <1>3, <1>5, MaxTasksAssumption DEF Inv, Core, TaskConserved, TypeOK, Task
  <2>a. submitted \notin D
    BY <2>1 DEF Inv, Core, UnsentGone
  <2>2. unsent' = D \cup {submitted}
    BY <1>1, <1>3
  <2>3. D \in SUBSET Task /\ submitted \in Task
    BY <1>3 DEF Inv, TypeOK
  <2>4. Cardinality(D \cup {submitted}) = Cardinality(D) + 1
    BY <2>a, <2>3 DEF Inv, Countable
  <2>5. pending_task_count = Len(pending_tasks) + 1 + Cardinality(D)
    BY <1>1 DEF Inv, Core, CountExact, Counted
  <2>6. pending_task_count' = Len(pending_tasks) + 0 + (Cardinality(D) + 1)
    BY <1>1, <2>5, CountTypes DEF Inv
  <2> QED BY <1>1, <2>2, <2>4, <2>6, Zenon DEF CountExact, Counted
<1>8. CurShape' /\ HeldShape' /\ ClosedShape' /\ NothingStranded' /\ HandsApart' /\ UnsentGone'
  BY <1>1, <1>2 DEF Inv, Core, CurShape, HeldShape, ClosedShape, NothingStranded,
     HandsApart, UnsentGone, Carrying
<1> QED BY <1>2, <1>6, <1>7, <1>8 DEF Core

\* After a failed write: has_err, the rollback, and last the task's completion.
LEMMA WriteErrorCleanupCore ==
  ASSUME Inv, WriteErrorCleanup
  PROVE  Core'
<1>1. UNCHANGED <<dropped, containers, held, rpc, closed, submitted, unsent, pending_tasks>>
  BY DEF WriteErrorCleanup, containers, readerVars
<1>2. Registered' = Registered /\ InTimer' = InTimer /\ Apart'
  BY <1>1, SameTimer DEF Inv, Core
<1>3. CASE spc \in {"write_err", "write_err_flag"}
  <2>1. /\ UNCHANGED <<results, cur>>
        /\ \/ spc = "write_err" /\ spc' = "write_err_flag" /\ UNCHANGED pending_task_count
           \/ /\ spc = "write_err_flag" /\ spc' = "write_err_done"
              /\ pending_task_count' = pending_task_count - 1
    BY <1>3 DEF WriteErrorCleanup, rollback_count
  <2>2. Outstanding' = Outstanding
    BY <2>1, <1>1, <1>2 DEF Outstanding
  <2>3. TaskConserved'
    BY <2>1, <2>2, <1>1, ConservedMove DEF Inv, Core
  <2>4. CountExact'
    BY <2>1, <1>1, CountTypes DEF Inv, Core, CountExact, Counted
  <2>5. CurShape' /\ HeldShape' /\ ClosedShape' /\ NothingStranded' /\ HandsApart' /\ UnsentGone'
    BY <2>1, <1>1, <1>2 DEF Inv, Core, CurShape, HeldShape, ClosedShape, NothingStranded,
       HandsApart, UnsentGone, Carrying
  <2> QED BY <1>2, <2>3, <2>4, <2>5 DEF Core
<1>4. CASE spc = "write_err_done"
  <2>1. /\ Complete(cur, "io") /\ spc' = "idle" /\ cur' = {}
        /\ UNCHANGED pending_task_count
    BY <1>4 DEF WriteErrorCleanup
  <2>2. cur \cap (Registered \cup held) = {}
    BY DEF Inv, Core, HandsApart
  <2>3. Outstanding' = Outstanding \ cur /\ cur \subseteq Outstanding
    BY <2>1, <2>2, <1>1, <1>2 DEF Outstanding
  <2>4. TaskConserved'
    BY <2>1, <2>3, <1>1, ConservedComplete DEF Inv, Core, Outcome
  <2>5. CountExact'
    BY <2>1, <1>1, <1>4 DEF Inv, Core, CountExact, Counted
  <2>6. CurShape' /\ HeldShape' /\ ClosedShape' /\ NothingStranded' /\ HandsApart' /\ UnsentGone'
    BY <2>1, <1>1, <1>2 DEF Inv, Core, CurShape, HeldShape, ClosedShape, NothingStranded,
       HandsApart, UnsentGone, Carrying
  <2> QED BY <1>2, <2>4, <2>5, <2>6 DEF Core
<1> QED BY <1>3, <1>4 DEF WriteErrorCleanup

\* reg_task: the task passes from the sender to the timer, counted throughout.
LEMMA RegTaskCore ==
  ASSUME Inv, RegTask
  PROVE  Core'
<1>1. /\ spc = "reg" /\ spc' = "throttle" /\ cur' = {}
      /\ UNCHANGED <<results, dropped, pending_task_count, held, rpc, closed, submitted, unsent,
                     sent_tasks, delay_tasks_queue>>
  BY DEF RegTask, taskVars, readerVars, flags
<1>2. /\ cur = {submitted} /\ submitted \in Task /\ submitted \notin Registered
      /\ submitted \notin held
  BY <1>1 DEF Inv, Core, CurShape, HandsApart, Carrying
<1>3. reg_task(submitted)
  BY <1>2 DEF RegTask
<1>4. Registered' = Registered \cup {submitted} /\ Apart'
  BY <1>1, <1>2, <1>3, RegStep, CountTypes DEF Inv, Core
<1>5. Outstanding' = Outstanding
  BY <1>1, <1>2, <1>4 DEF Outstanding
<1>6. TaskConserved'
  BY <1>1, <1>5, ConservedMove DEF Inv, Core
<1>7. CountExact'
  <2>1. Len(pending_tasks') = Len(pending_tasks) + 1
    BY <1>2, <1>3, CountTypes DEF Inv, reg_task, ContainersOK
  <2> QED BY <2>1, <1>1, CountTypes DEF Inv, Core, CountExact, Counted
<1>8. rpc \notin {"gone", "freed"} /\ InTimer' = InTimer
  BY <1>1 DEF Inv, Core, NothingStranded, InTimer, Delayed
<1>9. CurShape' /\ HeldShape' /\ ClosedShape' /\ NothingStranded' /\ HandsApart' /\ UnsentGone'
  BY <1>1, <1>2, <1>4, <1>8 DEF Inv, Core, CurShape, HeldShape, ClosedShape,
     NothingStranded, HandsApart, UnsentGone, Carrying
<1> QED BY <1>4, <1>6, <1>7, <1>9 DEF Core
--------------------------------------------------------------------------------
\* A tick: the expired batch, and nothing else, completes with a timeout.
LEMMA TickCore ==
  ASSUME Inv, Tick
  PROVE  Core'
<1>1. /\ adjust_task_queue /\ rpc \in Awaiting
      /\ UNCHANGED <<dropped, pending_tasks, pending_task_count, cur, held, submitted, unsent,
                     spc, rpc, closed>>
  BY DEF Tick, senderVars, flags
<1>2. /\ Expired \subseteq Registered /\ Registered' = Registered \ Expired /\ Apart'
  BY <1>1, AdjustStep, CountTypes, TaskTimeoutAssumption DEF Inv, Core
<1>3. Complete(Expired, "timeout")
  BY <1>1 DEF adjust_task_queue
<1>4. Outstanding' = Outstanding \ Expired /\ Expired \subseteq Outstanding
  BY <1>1, <1>2 DEF Outstanding, Inv, Core, HandsApart
<1>5. TaskConserved'
  BY <1>1, <1>3, <1>4, ConservedComplete DEF Inv, Core, Outcome
<1>6. CountExact'
  BY <1>1 DEF Inv, Core, CountExact
<1>7. CurShape' /\ HeldShape' /\ ClosedShape' /\ NothingStranded' /\ HandsApart' /\ UnsentGone'
  BY <1>1, <1>2 DEF Inv, Core, CurShape, HeldShape, ClosedShape, NothingStranded,
     HandsApart, UnsentGone, Awaiting
<1> QED BY <1>2, <1>5, <1>6, <1>7 DEF Core

\* take_task: the task of the frame passes from the timer to the receiver.
LEMMA TakeTaskCore ==
  ASSUME Inv, TakeTask
  PROVE  Core'
<1>1. /\ held' = take_task(rseq) /\ remove_task(held') /\ rpc = "wait"
      /\ rpc' \in {"dump", "body"} /\ (rpc' = "dump" => held' = {})
      /\ UNCHANGED <<results, dropped, pending_tasks, pending_task_count, cur, submitted, unsent,
                     spc, closed>>
  BY DEF TakeTask, taskVars, senderVars, flags
<1>2. held' \subseteq InTimer /\ held = {}
  BY <1>1 DEF take_task, Inv, Core, HeldShape
<1>3. Registered' = Registered \ held' /\ Apart'
  BY <1>1, <1>2, TakeStep, CountTypes DEF Inv, Core
<1>4. Outstanding' = Outstanding
  BY <1>1, <1>2, <1>3 DEF Outstanding, Registered
<1>5. TaskConserved'
  BY <1>1, <1>4, ConservedMove DEF Inv, Core
<1>6. CountExact'
  BY <1>1 DEF Inv, Core, CountExact
<1>7. CurShape' /\ HeldShape' /\ ClosedShape' /\ NothingStranded'
  BY <1>1, <1>2 DEF Inv, Core, CurShape, HeldShape, ClosedShape, NothingStranded
<1>8. held' \subseteq Registered
  BY <1>2 DEF Registered
<1>9. HandsApart' /\ UnsentGone'
  BY <1>1, <1>3, <1>8 DEF Inv, Core, HandsApart, UnsentGone
<1> QED BY <1>3, <1>5, <1>6, <1>7, <1>9 DEF Core

\* The end of a frame: the task in hand, if any, completes.
LEMMA BodyCore ==
  ASSUME Inv, RecvRespBody \/ RecvBodyError
  PROVE  Core'
<1>1. /\ rpc \in {"body", "dump"} /\ rpc' \in {"loop", "dump", "failed"} /\ held' = {}
      /\ UNCHANGED <<dropped, containers, pending_tasks, pending_task_count, cur, submitted, unsent,
                     spc, closed>>
  BY DEF RecvRespBody, RecvBodyError, containers, timerVars, senderVars, flags
<1>2. \E o \in Outcome : Complete(held, o)
  BY DEF RecvRespBody, RecvBodyError, Outcome
<1>3. Registered' = Registered /\ InTimer' = InTimer /\ Apart'
  BY <1>1, SameTimer DEF Inv, Core
<1>4. Outstanding' = Outstanding \ held /\ held \subseteq Outstanding
  BY <1>1, <1>3 DEF Outstanding, Inv, Core, HandsApart
<1>5. TaskConserved'
  BY <1>1, <1>2, <1>4, ConservedComplete DEF Inv, Core
<1>6. CountExact'
  BY <1>1 DEF Inv, Core, CountExact
<1>7. CurShape' /\ HeldShape' /\ ClosedShape' /\ NothingStranded' /\ HandsApart' /\ UnsentGone'
  BY <1>1, <1>3 DEF Inv, Core, CurShape, HeldShape, ClosedShape, NothingStranded,
     HandsApart, UnsentGone
<1> QED BY <1>3, <1>5, <1>6, <1>7 DEF Core

\* clean_pending_tasks, in receive_loop or when the shared state is dropped.
LEMMA CleanCore ==
  ASSUME Inv, CleanPendingTasks \/ DropInner
  PROVE  Core'
<1>1. /\ clean_pending_tasks
      /\ \/ rpc \in {"clean", "spin"} /\ rpc' = "spin"
         \/ rpc = "gone" /\ rpc' = "freed" /\ spc = "gone"
      /\ UNCHANGED <<dropped, cur, held, submitted, unsent, spc, closed>>
  BY DEF CleanPendingTasks, DropInner, senderVars, flags
<1>2. Registered' = {} /\ Apart'
  BY <1>1, CleanStep, CountTypes DEF Inv
<1>3. Complete(Registered, "io")
  BY <1>1 DEF clean_pending_tasks
<1>4. Outstanding' = Outstanding \ Registered /\ Registered \subseteq Outstanding
  BY <1>1, <1>2 DEF Outstanding, Inv, Core, HandsApart
<1>5. TaskConserved'
  BY <1>1, <1>3, <1>4, ConservedComplete DEF Inv, Core, Outcome
<1>6. CountExact'
  <2>1. pending_tasks' = <<>> /\ pending_task_count' = pending_task_count - Len(pending_tasks)
    BY <1>1 DEF clean_pending_tasks, DrainChannel
  <2>2. pending_task_count = Len(pending_tasks) + (IF spc \in Counted THEN 1 ELSE 0)
                               + Cardinality(unsent)
    BY DEF Inv, Core, CountExact
  <2>3. pending_task_count' = 0 + (IF spc \in Counted THEN 1 ELSE 0)
                                + Cardinality(unsent)
    BY <2>1, <2>2, CountTypes DEF Inv
  <2> QED BY <2>1, <2>3, <1>1 DEF CountExact
<1>7. InTimer' = {}
  BY <1>2 DEF Registered
<1>8. CurShape' /\ HeldShape' /\ ClosedShape' /\ NothingStranded'
  BY <1>1, <1>2, <1>7 DEF Inv, Core, CurShape, HeldShape, ClosedShape, NothingStranded
<1>9. HandsApart' /\ UnsentGone'
  BY <1>1, <1>2 DEF Inv, Core, HandsApart, UnsentGone
<1> QED BY <1>2, <1>5, <1>6, <1>8, <1>9 DEF Core

\* receive_loop returns: a count of zero means that the channel is empty and the
\* sender is not past its closed check.
LEMMA ExitCore ==
  ASSUME Inv, ReceiveLoopExit
  PROVE  Core'
<1>1. /\ rpc = "spin" /\ rpc' = "gone" /\ pending_task_count = 0
      /\ dropped' = dropped \cup held /\ held' = {}
      /\ UNCHANGED <<results, containers, pending_tasks, pending_task_count, cur, submitted, unsent,
                     spc, closed>>
  BY DEF ReceiveLoopExit, AllDrained, containers, timerVars, senderVars, flags
<1>2. Registered' = Registered /\ InTimer' = InTimer /\ Apart'
  BY <1>1, SameTimer DEF Inv, Core
<1>3. Len(pending_tasks) = 0 /\ spc \notin Counted
  BY <1>1, CountTypes DEF Inv, Core, CountExact
<1>4. Registered = {}
  <2>1. pending_tasks = <<>>
    BY <1>3, CountTypes DEF Inv, ContainersOK
  <2> QED BY <2>1, <1>1, RangeEmpty DEF Registered, Inv, Core, ClosedShape
<1>5. Outstanding' = Outstanding \ held /\ held \subseteq Outstanding
  BY <1>1, <1>2 DEF Outstanding, Inv, Core, HandsApart
<1>6. TaskConserved'
  BY <1>1, <1>5, ConservedDrop DEF Inv, Core
<1>8. CountExact'
  BY <1>1, Zenon DEF Inv, Core, CountExact
<1>9. CurShape' /\ HeldShape' /\ ClosedShape' /\ NothingStranded' /\ HandsApart' /\ UnsentGone'
  BY <1>1, <1>2, <1>3, <1>4 DEF Inv, Core, CurShape, HeldShape, ClosedShape,
     NothingStranded, HandsApart, UnsentGone, Counted
<1> QED BY <1>2, <1>6, <1>8, <1>9 DEF Core
--------------------------------------------------------------------------------
\* The types, part by part.  The socket and the peer: only steps that write, read
\* or come from the peer touch them.
LEMMA TcpTypeStep ==
  ASSUME TypeOK, Next
  PROVE  TcpTypeOK'
<1>t. TcpTypeOK
  BY DEF TypeOK
<1> USE <1>t DEF TcpTypeOK
<1>1. CASE UNCHANGED tcpVars
  BY <1>1 DEF tcpVars
<1>2. ASSUME NEW s \in Nat, NEW f \in BOOLEAN, write_req(s, f) PROVE TcpTypeOK'
  BY <1>2 DEF write_req, Send, Buffer
<1>3. CASE flush_req
  BY <1>3 DEF flush_req, Flush, Send
<1>4. ASSUME NEW S \in SUBSET Nat, io_error(S) PROVE TcpTypeOK'
  BY <1>4 DEF io_error, Send
<1>5. CASE close_conn
  <2>1. CASE io_error({})
    BY <2>1, <1>4
  <2>2. CASE ~io_error({})
    BY <2>2, <1>5, Zenon DEF close_conn, Flush, Send
  <2> QED BY <2>1, <2>2
<1>6. CASE Peer
  <2>1. CASE PeerClose
    <3>1. reqs' = {} /\ faults' = faults + 1 /\ UNCHANGED <<wbuf, wshut>>
      BY <2>1, Zenon DEF PeerClose
    <3>2. up' \in BOOLEAN
      BY <2>1, Zenon DEF PeerClose
    <3>3. wire' = wire \/ wire' = <<>>
      BY <2>1, Zenon DEF PeerClose
    <3>4. wire' \in Seq(Nat)
      BY <3>3, EmptySeq, Zenon
    <3> QED BY <3>1, <3>2, <3>4
  <2>2. ASSUME NEW s \in reqs, PeerRespond(s) PROVE TcpTypeOK'
    <3>1. /\ wire' = Append(wire, s) \/ wire' = Append(Append(wire, s), s)
          /\ reqs' = reqs \ {s} /\ faults' \in {faults, faults + 1} /\ UNCHANGED <<wbuf, up, wshut>>
      BY <2>2, Zenon DEF PeerRespond
    <3>2. wire' \in Seq(Nat)
      <4>1. s \in Nat
        OBVIOUS
      <4> QED BY <4>1, <3>1, SendType, Zenon
    <3> QED BY <3>1, <3>2
  <2> QED BY <1>6, <2>1, <2>2 DEF Peer
<1>7. CASE ReadHeader
  BY <1>7 DEF ReadHeader
<1>a. CASE ReadClosed
  <2>1. /\ wire' = wire \/ (wire # <<>> /\ wire' = <<0>> \o Tail(wire))
        /\ UNCHANGED <<wbuf, reqs, up, wshut, faults>>
    BY <1>a, Zenon DEF ReadClosed, AbandonHeader
  <2>2. wire' \in Seq(Nat)
    BY <2>1
  <2> QED BY <2>1, <2>2
<1>8. seq \in Nat /\ need_flush \in BOOLEAN
  BY DEF TypeOK
<1>9. CASE WriteRequest
  BY <1>9, <1>8, <1>2 DEF WriteRequest
<1>10. CASE WriteError
  BY <1>10, <1>8, <1>4 DEF WriteError
<1>11. CASE FlushReq
  BY <1>11, <1>3, <1>4 DEF FlushReq
<1>12. CASE SendPing
  BY <1>12, <1>8, <1>2, <1>4, Zenon DEF SendPing
<1>13. CASE SetErrorAndExit
  BY <1>13, <1>5 DEF SetErrorAndExit
<1>14. \/ UNCHANGED tcpVars \/ Peer \/ ReadHeader \/ ReadClosed \/ WriteRequest \/ WriteError
       \/ FlushReq \/ SendPing \/ SetErrorAndExit
  BY Zenon DEF Next, UserCall, SenderStep, ReaderStep, SendTask, CheckClosed, EncodeError,
     SendError, WriteErrorCleanup, RegTask, Throttle, FlushErrorFlags, Ping, DropStream,
     DropStreamFlags, Tick, Poll, RecvOneResp, ReadHeaderError, WaitRegTask,
     TakeTask, RecvRespBody, RecvAndDump, RecvBodyError, Pending, ReceiveLoopError,
     CleanPendingTasks, ReceiveLoopExit, DropInner, PeerBody, Terminated, vars
<1> QED BY <1>1, <1>6, <1>7, <1>a, <1>9, <1>10, <1>11, <1>12, <1>13, <1>14, SMTT(20)

\* The timer's containers: each is only touched by the operations of the timer.
LEMMA ContainersStep ==
  ASSUME Inv, Next
  PROVE  ContainersOK'
<1>1. ContainersOK /\ Apart
  BY CountTypes DEF Inv, Core
<1>2. CASE UNCHANGED containers
  BY <1>1, <1>2, SameTimer
<1>3. CASE Poll \/ RecvOneResp \/ WaitRegTask
  <2>1. UNCHANGED containers \/ (poll_sent_task /\ UNCHANGED delay_tasks_queue)
    BY <1>3 DEF Poll, RecvOneResp, WaitRegTask, containers
  <2> QED BY <2>1, <1>1, <1>2, DrainStep
<1>4. CASE CleanPendingTasks \/ DropInner
  BY <1>1, <1>4, CleanStep DEF CleanPendingTasks, DropInner
<1>5. CASE Tick
  BY <1>1, <1>5, AdjustStep, TaskTimeoutAssumption DEF Tick
<1>6. CASE TakeTask
  <2>1. held' \subseteq InTimer /\ remove_task(held') /\ UNCHANGED pending_tasks
    BY <1>6 DEF TakeTask, take_task
  <2> QED BY <2>1, <1>1, TakeStep
<1>7. CASE RegTask
  <2>1. submitted \in Task /\ cur = {submitted} /\ submitted \notin Registered
    BY <1>7 DEF RegTask, Inv, Core, CurShape, HandsApart, Carrying
  <2>2. reg_task(submitted) /\ UNCHANGED <<sent_tasks, delay_tasks_queue>>
    BY <1>7, <2>1 DEF RegTask
  <2> QED BY <2>1, <2>2, <1>1, RegStep
<1>8. \/ UNCHANGED containers \/ Poll \/ RecvOneResp \/ WaitRegTask \/ CleanPendingTasks
      \/ DropInner \/ Tick \/ TakeTask \/ RegTask
  BY Zenon DEF Next, UserCall, SenderStep, ReaderStep, SendTask, CheckClosed, WriteRequest,
     EncodeError, SendError, WriteError, WriteErrorCleanup, Throttle, FlushReq,
     FlushErrorFlags, Ping, SendPing, SetErrorAndExit, DropStream, DropStreamFlags,
     ReadHeader, ReadClosed, ReadHeaderError, RecvRespBody, RecvAndDump, RecvBodyError,
     Pending, ReceiveLoopError, ReceiveLoopExit, PeerBody, Peer, Terminated, timerVars,
     containers, vars
<1> QED BY <1>2, <1>3, <1>4, <1>5, <1>6, <1>7, <1>8

\* Whatever the outcome, delivering it keeps the record of completions well formed.
LEMMA CompleteType ==
  ASSUME TaskTypeOK, NEW S, NEW o \in Outcome, Complete(S, o)
  PROVE  results' \in [Task -> Seq(Outcome)]
BY DEF TaskTypeOK, Complete

\* The tasks: sequence numbers, completions and losses.
LEMMA TaskTypeStep ==
  ASSUME Inv, Next
  PROVE  TaskTypeOK'
<1>t. TaskTypeOK /\ seq \in Nat /\ cur \subseteq Task /\ held \subseteq Task
  BY DEF Inv, TypeOK
<1>1. seq_of' \in [Task -> Nat]
  <2>1. CASE UNCHANGED seq_of
    BY <2>1, <1>t DEF TaskTypeOK
  <2>2. CASE \E t \in Task : set_seq(t, seq)
    BY <2>2, <1>t DEF TaskTypeOK, set_seq
  <2>3. UNCHANGED seq_of \/ \E t \in Task : set_seq(t, seq)
    BY <1>t, Zenon DEF Next, UserCall, SenderStep, ReaderStep, SendTask, CheckClosed, WriteRequest,
     EncodeError, SendError, WriteError, WriteErrorCleanup, RegTask, Throttle, FlushReq,
     FlushErrorFlags, Ping, SendPing, SetErrorAndExit, DropStream, DropStreamFlags, Tick,
     Poll, RecvOneResp, ReadHeader, ReadClosed, ReadHeaderError, WaitRegTask, TakeTask,
     RecvRespBody, RecvAndDump, RecvBodyError, Pending, ReceiveLoopError,
     CleanPendingTasks, ReceiveLoopExit, DropInner, PeerBody, Peer, Terminated,
     taskVars, vars
  <2> QED BY <2>1, <2>2, <2>3
<1>2. results' \in [Task -> Seq(Outcome)]
  <2>1. CASE UNCHANGED results
    BY <2>1, <1>t DEF TaskTypeOK
  <2>2. ASSUME NEW S, NEW o \in Outcome, Complete(S, o)
        PROVE  results' \in [Task -> Seq(Outcome)]
    BY <2>2, <1>t, CompleteType
  <2>3. CASE CheckClosed \/ WriteErrorCleanup
    BY <2>3, <2>1, <2>2 DEF CheckClosed, WriteErrorCleanup, Outcome
  <2>4. CASE RecvRespBody \/ RecvBodyError
    BY <2>4, <2>2 DEF RecvRespBody, RecvBodyError, Outcome
  <2>5. CASE CleanPendingTasks \/ DropInner \/ Tick
    BY <2>5, <2>2 DEF CleanPendingTasks, DropInner, Tick, clean_pending_tasks,
       adjust_task_queue, Outcome
  <2>6. \/ UNCHANGED results \/ CheckClosed \/ WriteErrorCleanup \/ RecvRespBody
        \/ RecvBodyError \/ CleanPendingTasks \/ DropInner \/ Tick
    BY Zenon DEF Next, UserCall, SenderStep, ReaderStep, SendTask, WriteRequest, EncodeError,
     SendError, WriteError, RegTask, Throttle, FlushReq, FlushErrorFlags, Ping, SendPing,
     SetErrorAndExit, DropStream, DropStreamFlags, Poll, RecvOneResp, ReadHeader,
     ReadClosed, ReadHeaderError, WaitRegTask, TakeTask, RecvAndDump, Pending,
     ReceiveLoopError, ReceiveLoopExit, PeerBody, Peer, Terminated, taskVars, vars
  <2> QED BY <2>1, <2>3, <2>4, <2>5, <2>6
<1>3. dropped' \subseteq Task
  <2>1. dropped' \in {dropped, dropped \cup cur, dropped \cup held}
    BY Zenon DEF Next, UserCall, SenderStep, ReaderStep, SendTask, CheckClosed, WriteRequest,
     EncodeError, SendError, WriteError, WriteErrorCleanup, RegTask, Throttle, FlushReq,
     FlushErrorFlags, Ping, SendPing, SetErrorAndExit, DropStream, DropStreamFlags, Tick,
     Poll, RecvOneResp, ReadHeader, ReadClosed, ReadHeaderError, WaitRegTask, TakeTask,
     RecvRespBody, RecvAndDump, RecvBodyError, Pending, ReceiveLoopError,
     CleanPendingTasks, ReceiveLoopExit, DropInner, PeerBody, Peer, Terminated,
     taskVars, vars
  <2> QED BY <2>1, <1>t DEF TaskTypeOK
<1> QED BY <1>1, <1>2, <1>3 DEF TaskTypeOK

\* The rest of the timer; the counter stays a natural number because it is exact.
LEMMA TimerTypeStep ==
  ASSUME Inv, Next, Core', TaskTypeOK', ContainersOK', unsent' \subseteq Task
  PROVE  TimerTypeOK'
<1>t. TaskTypeOK /\ TimerTypeOK /\ ContainersOK
  BY CountTypes DEF Inv, TypeOK
<1>1. pending_task_count' \in Nat
  <2>1. unsent' \in SUBSET Task
    OBVIOUS
  <2>2. Len(pending_tasks') \in Nat
    BY DEF ContainersOK
  <2>3. Cardinality(unsent') \in Nat
    BY <2>1 DEF Inv, Countable
  <2> QED BY <2>2, <2>3 DEF Core, CountExact
<1>2. min_delay_seq' \in Nat
  <2>1. CASE Tick
    <3>1. Expired \subseteq Task
      BY <2>1, <1>t, AdjustStep, DelayedElem, TaskTimeoutAssumption DEF Tick, Inv, Core
    <3>2. SeqsOf(Expired) \subseteq Nat
      BY <3>1, <1>t DEF SeqsOf, TaskTypeOK
    <3>3. min_delay_seq' \in MinDelaySeq
      BY <2>1 DEF Tick, adjust_task_queue
    <3> QED BY <3>2, <3>3, <1>t DEF MinDelaySeq, TimerTypeOK
  <2>2. CASE UNCHANGED min_delay_seq
    BY <2>2, <1>t DEF TimerTypeOK
  <2>3. Tick \/ UNCHANGED min_delay_seq
    BY Zenon DEF Next, UserCall, SenderStep, ReaderStep, SendTask, CheckClosed, WriteRequest,
     EncodeError, SendError, WriteError, WriteErrorCleanup, RegTask, Throttle, FlushReq,
     FlushErrorFlags, Ping, SendPing, SetErrorAndExit, DropStream, DropStreamFlags,
     Poll, RecvOneResp, ReadHeader, ReadClosed, ReadHeaderError, WaitRegTask, TakeTask,
     RecvRespBody, RecvAndDump, RecvBodyError, Pending, ReceiveLoopError,
     CleanPendingTasks, ReceiveLoopExit, DropInner, PeerBody, Peer, Terminated,
     timerVars, vars
  <2> QED BY <2>1, <2>2, <2>3
<1>3. processed_seq' \in Nat
  <2>1. ProcessedAfter \in Nat
    <3>1. pending_tasks # <<>> => pending_tasks[Len(pending_tasks)] \in Task
      BY <1>t DEF ContainersOK
    <3> QED BY <3>1, <1>t DEF ProcessedAfter, TaskTypeOK, TimerTypeOK
  <2>2. processed_seq' \in {processed_seq, ProcessedAfter}
    BY Zenon DEF Next, UserCall, SenderStep, ReaderStep, SendTask, CheckClosed, WriteRequest,
     EncodeError, SendError, WriteError, WriteErrorCleanup, RegTask, Throttle, FlushReq,
     FlushErrorFlags, Ping, SendPing, SetErrorAndExit, DropStream, DropStreamFlags, Tick,
     Poll, RecvOneResp, ReadHeader, ReadClosed, ReadHeaderError, WaitRegTask, TakeTask,
     RecvRespBody, RecvAndDump, RecvBodyError, Pending, ReceiveLoopError,
     CleanPendingTasks, ReceiveLoopExit, DropInner, PeerBody, Peer, Terminated,
     poll_sent_task, clean_pending_tasks, DrainChannel, timerVars, vars
  <2> QED BY <2>1, <2>2, <1>t DEF TimerTypeOK
<1>4. reg_stopped_flag' \in BOOLEAN
  <2>1. reg_stopped_flag' = TRUE \/ UNCHANGED reg_stopped_flag
    BY Zenon DEF Next, UserCall, SenderStep, ReaderStep, SendTask, CheckClosed, WriteRequest,
     EncodeError, SendError, WriteError, WriteErrorCleanup, RegTask, Throttle, FlushReq,
     FlushErrorFlags, Ping, SendPing, SetErrorAndExit, DropStream, DropStreamFlags, Tick,
     Poll, RecvOneResp, ReadHeader, ReadClosed, ReadHeaderError, WaitRegTask, TakeTask,
     RecvRespBody, RecvAndDump, RecvBodyError, Pending, ReceiveLoopError,
     CleanPendingTasks, ReceiveLoopExit, DropInner, PeerBody, Peer, Terminated,
     stop_reg_task, timerVars, vars
  <2> QED BY <2>1, <1>t, Zenon DEF TimerTypeOK
<1>5. age' \in [Task -> Nat]
  <2>1. CASE Tick
    BY <2>1, <1>t DEF Tick, adjust_task_queue, TimerTypeOK
  <2>2. CASE RegTask
    <3>1. PICK t \in cur : age' = [age EXCEPT ![t] = 0]
      BY <2>2, Zenon DEF RegTask, reg_task
    <3>2. age \in [Task -> Nat]
      BY <1>t DEF TimerTypeOK
    <3> QED BY <3>1, <3>2, Zenon
  <2>3. CASE UNCHANGED age \/ \E S : Forget(S)
    BY <2>3, <1>t DEF TimerTypeOK, Forget
  <2>4. Tick \/ RegTask \/ UNCHANGED age \/ \E S : Forget(S)
    BY Zenon DEF remove_task, clean_pending_tasks, Next, UserCall, SenderStep, ReaderStep, SendTask, CheckClosed, WriteRequest,
     EncodeError, SendError, WriteError, WriteErrorCleanup, Throttle, FlushReq,
     FlushErrorFlags, Ping, SendPing, SetErrorAndExit, DropStream, DropStreamFlags,
     Poll, RecvOneResp, ReadHeader, ReadClosed, ReadHeaderError, WaitRegTask, TakeTask,
     RecvRespBody, RecvAndDump, RecvBodyError, Pending, ReceiveLoopError,
     CleanPendingTasks, ReceiveLoopExit, DropInner, PeerBody, Peer, Terminated,
     timerVars, vars
  <2> QED BY <2>1, <2>2, <2>3, <2>4
<1> QED BY <1>1, <1>2, <1>3, <1>4, <1>5 DEF TimerTypeOK, ContainersOK

\* The handle's and the receiver's own variables.
LEMMA StreamTypeStep ==
  ASSUME Inv, Next
  PROVE  /\ seq' \in Nat \ {0}
         /\ closed' \in BOOLEAN /\ has_err' \in BOOLEAN /\ close_tx' \in BOOLEAN
         /\ spc' \in SenderPc /\ cur' \subseteq Task /\ need_flush' \in BOOLEAN
         /\ submitted' \in 0 .. MaxTasks /\ unsent' \subseteq Task
         /\ rpc' \in ReaderPc /\ polling' \in BOOLEAN /\ rseq' \in Nat
         /\ held' \subseteq Task /\ item' \subseteq Task /\ body_in' \in BOOLEAN
         /\ read_ticks' \in Nat
<1>1. seq' \in Nat \ {0}
  <2>1. seq' \in {seq, seq + 1}
    BY Zenon DEF Next, UserCall, SenderStep, ReaderStep, SendTask, CheckClosed, WriteRequest,
     EncodeError, SendError, WriteError, WriteErrorCleanup, RegTask, Throttle, FlushReq,
     FlushErrorFlags, Ping, SendPing, SetErrorAndExit, DropStream, DropStreamFlags, Tick,
     Poll, RecvOneResp, ReadHeader, ReadClosed, ReadHeaderError, WaitRegTask, TakeTask,
     RecvRespBody, RecvAndDump, RecvBodyError, Pending, ReceiveLoopError,
     CleanPendingTasks, ReceiveLoopExit, DropInner, PeerBody, Peer, Terminated,
     vars
  <2> QED BY <2>1, SMTT(20) DEF Inv, TypeOK
<1>2. closed' \in BOOLEAN
  <2>1. closed' = TRUE \/ UNCHANGED closed \/ closed' = (closed \/ rpc = "hdr_timed")
    BY Zenon DEF Next, UserCall, SenderStep, ReaderStep, SendTask, CheckClosed, WriteRequest,
     EncodeError, SendError, WriteError, WriteErrorCleanup, RegTask, Throttle, FlushReq,
     FlushErrorFlags, Ping, SendPing, SetErrorAndExit, DropStream, DropStreamFlags, Tick,
     Poll, RecvOneResp, ReadHeader, ReadClosed, ReadHeaderError, WaitRegTask, TakeTask,
     RecvRespBody, RecvAndDump, RecvBodyError, Pending, ReceiveLoopError,
     CleanPendingTasks, ReceiveLoopExit, DropInner, PeerBody, Peer, Terminated,
     flags, vars
  <2> QED BY <2>1, Zenon DEF Inv, TypeOK
<1>3. has_err' \in BOOLEAN
  <2>1. has_err' = TRUE \/ UNCHANGED has_err
    BY Zenon DEF Next, UserCall, SenderStep, ReaderStep, SendTask, CheckClosed, WriteRequest,
     EncodeError, SendError, WriteError, WriteErrorCleanup, RegTask, Throttle, FlushReq,
     FlushErrorFlags, Ping, SendPing, SetErrorAndExit, DropStream, DropStreamFlags, Tick,
     Poll, RecvOneResp, ReadHeader, ReadClosed, ReadHeaderError, WaitRegTask, TakeTask,
     RecvRespBody, RecvAndDump, RecvBodyError, Pending, ReceiveLoopError,
     CleanPendingTasks, ReceiveLoopExit, DropInner, PeerBody, Peer, Terminated,
     flags, vars
  <2> QED BY <2>1, Zenon DEF Inv, TypeOK
<1>4. close_tx' \in BOOLEAN
  <2>1. close_tx' = FALSE \/ UNCHANGED close_tx
    BY Zenon DEF Next, UserCall, SenderStep, ReaderStep, SendTask, CheckClosed, WriteRequest,
     EncodeError, SendError, WriteError, WriteErrorCleanup, RegTask, Throttle, FlushReq,
     FlushErrorFlags, Ping, SendPing, SetErrorAndExit, DropStream, DropStreamFlags, Tick,
     Poll, RecvOneResp, ReadHeader, ReadClosed, ReadHeaderError, WaitRegTask, TakeTask,
     RecvRespBody, RecvAndDump, RecvBodyError, Pending, ReceiveLoopError,
     CleanPendingTasks, ReceiveLoopExit, DropInner, PeerBody, Peer, Terminated,
     flags, vars
  <2> QED BY <2>1, Zenon DEF Inv, TypeOK
<1>5. spc' \in SenderPc
  BY ZenonT(30) DEF Inv, TypeOK, SenderPc, Next, UserCall, SenderStep, ReaderStep, SendTask, CheckClosed, WriteRequest,
     EncodeError, SendError, WriteError, WriteErrorCleanup, RegTask, Throttle, FlushReq,
     FlushErrorFlags, Ping, SendPing, SetErrorAndExit, DropStream, DropStreamFlags, Tick,
     Poll, RecvOneResp, ReadHeader, ReadClosed, ReadHeaderError, WaitRegTask, TakeTask,
     RecvRespBody, RecvAndDump, RecvBodyError, Pending, ReceiveLoopError,
     CleanPendingTasks, ReceiveLoopExit, DropInner, PeerBody, Peer, Terminated,
     senderVars, vars
<1>6. /\ cur' \in {cur, {}, {submitted + 1}}
      /\ cur' \in {cur, {}} \/ (submitted < MaxTasks /\ submitted' = submitted + 1)
      /\ UNCHANGED submitted \/ (submitted < MaxTasks /\ submitted' = submitted + 1)
      /\ unsent' \in {unsent, unsent \cup cur}
  BY Zenon DEF Next, UserCall, SenderStep, ReaderStep, SendTask, CheckClosed, WriteRequest,
     EncodeError, SendError, WriteError, WriteErrorCleanup, RegTask, Throttle, FlushReq,
     FlushErrorFlags, Ping, SendPing, SetErrorAndExit, DropStream, DropStreamFlags, Tick,
     Poll, RecvOneResp, ReadHeader, ReadClosed, ReadHeaderError, WaitRegTask, TakeTask,
     RecvRespBody, RecvAndDump, RecvBodyError, Pending, ReceiveLoopError,
     CleanPendingTasks, ReceiveLoopExit, DropInner, PeerBody, Peer, Terminated,
     senderVars, vars
<1>7. cur' \subseteq Task /\ submitted' \in 0 .. MaxTasks /\ unsent' \subseteq Task
  BY <1>6, MaxTasksAssumption DEF Inv, TypeOK, Task
<1>8. need_flush' \in BOOLEAN
  <2>1. \/ need_flush' = FALSE \/ UNCHANGED need_flush
        \/ \E f \in BOOLEAN : need_flush' = (f \/ nearly_full)
    BY Zenon DEF Next, UserCall, SenderStep, ReaderStep, SendTask, CheckClosed, WriteRequest,
     EncodeError, SendError, WriteError, WriteErrorCleanup, RegTask, Throttle, FlushReq,
     FlushErrorFlags, Ping, SendPing, SetErrorAndExit, DropStream, DropStreamFlags, Tick,
     Poll, RecvOneResp, ReadHeader, ReadClosed, ReadHeaderError, WaitRegTask, TakeTask,
     RecvRespBody, RecvAndDump, RecvBodyError, Pending, ReceiveLoopError,
     CleanPendingTasks, ReceiveLoopExit, DropInner, PeerBody, Peer, Terminated,
     senderVars, vars
  <2> QED BY <2>1, Zenon DEF Inv, TypeOK
<1>9. rpc' \in ReaderPc
  BY ZenonT(30) DEF Inv, TypeOK, ReaderPc, Next, UserCall, SenderStep, ReaderStep, SendTask, CheckClosed, WriteRequest,
     EncodeError, SendError, WriteError, WriteErrorCleanup, RegTask, Throttle, FlushReq,
     FlushErrorFlags, Ping, SendPing, SetErrorAndExit, DropStream, DropStreamFlags, Tick,
     Poll, RecvOneResp, ReadHeader, ReadClosed, ReadHeaderError, WaitRegTask, TakeTask,
     RecvRespBody, RecvAndDump, RecvBodyError, Pending, ReceiveLoopError,
     CleanPendingTasks, ReceiveLoopExit, DropInner, PeerBody, Peer, Terminated,
     readerVars, vars
<1>10. polling' \in BOOLEAN
  <2>1. polling' = TRUE \/ polling' = FALSE \/ UNCHANGED polling \/ polling' = (processed_seq' >= rseq)
    BY Zenon DEF Next, UserCall, SenderStep, ReaderStep, SendTask, CheckClosed, WriteRequest,
     EncodeError, SendError, WriteError, WriteErrorCleanup, RegTask, Throttle, FlushReq,
     FlushErrorFlags, Ping, SendPing, SetErrorAndExit, DropStream, DropStreamFlags, Tick,
     Poll, RecvOneResp, ReadHeader, ReadClosed, ReadHeaderError, WaitRegTask, TakeTask,
     RecvRespBody, RecvAndDump, RecvBodyError, Pending, ReceiveLoopError,
     CleanPendingTasks, ReceiveLoopExit, DropInner, PeerBody, Peer, Terminated,
     readerVars, vars
  <2>2. CASE polling' = (processed_seq' >= rseq)
    <3>1. CASE processed_seq' >= rseq
      BY <3>1, <2>2, Zenon
    <3>2. CASE ~(processed_seq' >= rseq)
      BY <3>2, <2>2, SMT DEF Inv, TypeOK
    <3> QED BY <3>1, <3>2
  <2>3. CASE polling' = TRUE \/ polling' = FALSE \/ UNCHANGED polling
    BY <2>3, Zenon DEF Inv, TypeOK
  <2> QED BY <2>1, <2>2, <2>3, Zenon
<1>11. rseq' \in Nat
  <2>1. rseq' \in {rseq, 0} \/ (wire # <<>> /\ rseq' = Head(wire))
    BY Zenon DEF Next, UserCall, SenderStep, ReaderStep, SendTask, CheckClosed, WriteRequest,
     EncodeError, SendError, WriteError, WriteErrorCleanup, RegTask, Throttle, FlushReq,
     FlushErrorFlags, Ping, SendPing, SetErrorAndExit, DropStream, DropStreamFlags, Tick,
     Poll, RecvOneResp, ReadHeader, ReadClosed, ReadHeaderError, WaitRegTask, TakeTask,
     RecvRespBody, RecvAndDump, RecvBodyError, Pending, ReceiveLoopError,
     CleanPendingTasks, ReceiveLoopExit, DropInner, PeerBody, Peer, Terminated,
     readerVars, vars
  <2> QED BY <2>1 DEF Inv, TypeOK, TcpTypeOK
<1>12. held' \subseteq Task /\ item' \subseteq Task
  <2>1. /\ held' \in {held, {}, take_task(rseq)}
        /\ item' \in {item, {}, take_task(rseq)}
    BY Zenon DEF Next, UserCall, SenderStep, ReaderStep, SendTask, CheckClosed, WriteRequest,
     EncodeError, SendError, WriteError, WriteErrorCleanup, RegTask, Throttle, FlushReq,
     FlushErrorFlags, Ping, SendPing, SetErrorAndExit, DropStream, DropStreamFlags, Tick,
     Poll, RecvOneResp, ReadHeader, ReadClosed, ReadHeaderError, WaitRegTask, TakeTask,
     RecvRespBody, RecvAndDump, RecvBodyError, Pending, ReceiveLoopError,
     CleanPendingTasks, ReceiveLoopExit, DropInner, PeerBody, Peer, Terminated,
     readerVars, vars
  <2>2. take_task(rseq) \subseteq Task
    BY CountTypes, DelayedElem DEF Inv, take_task, Registered
  <2> QED BY <2>1, <2>2 DEF Inv, TypeOK
<1>13. body_in' \in BOOLEAN
  <2>1. body_in' \in BOOLEAN \/ UNCHANGED body_in
    BY Zenon DEF Next, UserCall, SenderStep, ReaderStep, SendTask, CheckClosed, WriteRequest,
     EncodeError, SendError, WriteError, WriteErrorCleanup, RegTask, Throttle, FlushReq,
     FlushErrorFlags, Ping, SendPing, SetErrorAndExit, DropStream, DropStreamFlags, Tick,
     Poll, RecvOneResp, ReadHeader, ReadClosed, ReadHeaderError, WaitRegTask, TakeTask,
     RecvRespBody, RecvAndDump, RecvBodyError, Pending, ReceiveLoopError,
     CleanPendingTasks, ReceiveLoopExit, DropInner, PeerBody, Peer, Terminated,
     readerVars, vars
  <2> QED BY <2>1 DEF Inv, TypeOK
<1>14. read_ticks' \in Nat
  <2>1. read_ticks' \in {read_ticks, 0, read_ticks + 1}
    BY Zenon DEF Next, UserCall, SenderStep, ReaderStep, SendTask, CheckClosed, WriteRequest,
     EncodeError, SendError, WriteError, WriteErrorCleanup, RegTask, Throttle, FlushReq,
     FlushErrorFlags, Ping, SendPing, SetErrorAndExit, DropStream, DropStreamFlags, Tick,
     Poll, RecvOneResp, ReadHeader, ReadClosed, ReadHeaderError, WaitRegTask, TakeTask,
     RecvRespBody, RecvAndDump, RecvBodyError, Pending, ReceiveLoopError,
     CleanPendingTasks, ReceiveLoopExit, DropInner, PeerBody, Peer, Terminated,
     readerVars, vars
  <2> QED BY <2>1 DEF Inv, TypeOK
<1> QED BY <1>1, <1>2, <1>3, <1>4, <1>5, <1>7, <1>8, <1>9, <1>10, <1>11, <1>12, <1>13, <1>14, SMTT(20)

--------------------------------------------------------------------------------
LEMMA InitInv ==
  ASSUME Countable, Init
  PROVE  Inv
<1> USE DEF Init, TaskInit, TimerInit, TcpInit
<1>1. Registered = {} /\ InTimer = {}
  BY RangeEmpty DEF Registered, InTimer, Delayed
<1>2. TaskTypeOK
  BY EmptySeq DEF TaskTypeOK
<1>3. TimerTypeOK
  <2>1. pending_tasks \in Seq(Task) /\ delay_tasks_queue \in Seq(SUBSET Task)
    BY EmptySeq, Zenon
  <2>2. /\ pending_task_count \in Nat /\ sent_tasks \subseteq Task /\ min_delay_seq \in Nat
        /\ processed_seq \in Nat /\ age \in [Task -> Nat]
    OBVIOUS
  <2>3. reg_stopped_flag \in BOOLEAN
    BY Zenon
  <2> QED BY <2>1, <2>2, <2>3, Zenon DEF TimerTypeOK
<1>4. TcpTypeOK
  <2>1. wire \in Seq(Nat)
    BY EmptySeq, Zenon
  <2>2. up \in BOOLEAN /\ wshut \in BOOLEAN
    BY Zenon
  <2>3. wbuf \subseteq Nat /\ reqs \subseteq Nat /\ faults \in Nat
    OBVIOUS
  <2> QED BY <2>1, <2>2, <2>3, Zenon DEF TcpTypeOK
<1>5. /\ closed \in BOOLEAN /\ has_err \in BOOLEAN /\ close_tx \in BOOLEAN
      /\ need_flush \in BOOLEAN /\ polling \in BOOLEAN /\ body_in \in BOOLEAN
  BY Zenon
<1>6. /\ seq \in Nat \ {0} /\ spc \in SenderPc /\ cur \subseteq Task
      /\ submitted \in 0 .. MaxTasks /\ unsent \subseteq Task /\ rpc \in ReaderPc /\ rseq \in Nat
      /\ held \subseteq Task /\ item \subseteq Task /\ read_ticks \in Nat
  BY MaxTasksAssumption DEF SenderPc, ReaderPc
<1>7. TypeOK
  BY <1>2, <1>3, <1>4, <1>5, <1>6, Zenon DEF TypeOK
<1>8. Apart
  BY RangeEmpty DEF Apart, Delayed
<1>9. CurShape /\ HeldShape /\ HandsApart /\ UnsentGone /\ ClosedShape /\ NothingStranded
  BY <1>1 DEF CurShape, HeldShape, HandsApart, UnsentGone, ClosedShape, NothingStranded, Carrying
<1>10. TaskConserved
  BY <1>1 DEF TaskConserved, Outstanding, Task
<1>11. CountExact
  <2>1. unsent = {} /\ Len(pending_tasks) = 0 /\ spc \notin Counted
    BY DEF Counted
  <2> QED BY <2>1 DEF CountExact, Countable
<1> QED BY <1>7, <1>8, <1>9, <1>10, <1>11 DEF Inv, Core

LEMMA StutterInv ==
  ASSUME Inv, UNCHANGED vars
  PROVE  Inv'
<1>1. UNCHANGED <<taskVars, timerVars, tcpVars, seq, flags, senderVars, readerVars>>
  BY DEF vars
<1>2. TypeOK'
  BY <1>1, SMTT(60) DEF Inv, TypeOK, TaskTypeOK, TimerTypeOK, TcpTypeOK, taskVars, timerVars, tcpVars,
              flags, senderVars, readerVars
<1>3. Core'
  BY <1>1 DEF Inv, Core, Apart, CurShape, HeldShape, HandsApart, UnsentGone, ClosedShape,
     TaskConserved, CountExact, NothingStranded, Outstanding, Registered, InTimer, Delayed,
     taskVars, timerVars, flags, senderVars, readerVars
<1> QED BY <1>2, <1>3 DEF Inv, Countable

\* Every step of the connection keeps the invariant.
LEMMA NextInv ==
  ASSUME Inv, Next
  PROVE  Inv'
<1>1. Core'
  <2>1. CASE Idle
    BY <2>1, IdleCore
  <2>2. CASE Poll \/ RecvOneResp \/ WaitRegTask
    BY <2>2, DrainCore
  <2>3. CASE \E flush \in BOOLEAN : SendTask(flush)
    BY <2>3, SendTaskCore
  <2>4. CASE CheckClosed
    BY <2>4, CheckClosedCore
  <2>5. CASE WriteRequest \/ WriteError
    BY <2>5, WriteCore
  <2>6. CASE EncodeError
    BY <2>6, EncodeErrorCore
  <2>7. CASE WriteErrorCleanup
    BY <2>7, WriteErrorCleanupCore
  <2>8. CASE RegTask
    BY <2>8, RegTaskCore
  <2>9. CASE Tick
    BY <2>9, TickCore
  <2>10. CASE TakeTask
    BY <2>10, TakeTaskCore
  <2>11. CASE RecvRespBody \/ RecvBodyError
    BY <2>11, BodyCore
  <2>12. CASE CleanPendingTasks \/ DropInner
    BY <2>12, CleanCore
  <2>13. CASE ReceiveLoopExit
    BY <2>13, ExitCore
  <2> QED
    BY <2>1, <2>2, <2>3, <2>4, <2>5, <2>6, <2>7, <2>8, <2>9, <2>10, <2>11, <2>12, <2>13
       DEF Next, UserCall, SenderStep, ReaderStep, Idle
<1>2. TaskTypeOK' /\ ContainersOK' /\ TcpTypeOK'
  BY TaskTypeStep, ContainersStep, TcpTypeStep DEF Inv
<1>3. TimerTypeOK'
  BY <1>1, <1>2, TimerTypeStep, StreamTypeStep
<1>4. TypeOK'
  BY <1>2, <1>3, StreamTypeStep, Zenon DEF TypeOK
<1> QED BY <1>1, <1>4 DEF Inv, Countable
--------------------------------------------------------------------------------
\* Where send_task has a task whose sequence number is set.
Numbered == {"reg", "write_err", "write_err_flag", "write_err_done"}

\* processed_seq and min_delay_seq are numbers already given out, and so are those
\* of the registered tasks.
Bounds ==
  /\ min_delay_seq <= processed_seq /\ processed_seq < seq
  /\ \A t \in Registered : seq_of[t] < seq

\* A task has no number before send_request; then its number is the largest.
Hands ==
  /\ \A t \in Task : t > submitted => seq_of[t] = 0
  /\ (spc \in {"counted", "request"} => seq_of[submitted] = 0)
  /\ (spc \in Numbered => /\ processed_seq < seq_of[submitted] /\ seq_of[submitted] < seq
                          /\ \A t \in Registered : seq_of[t] < seq_of[submitted])

\* The channel is in order, above processed_seq.
ChannelOrder ==
  /\ \A i \in DOMAIN pending_tasks : processed_seq < seq_of[pending_tasks[i]]
  /\ \A i, j \in DOMAIN pending_tasks :
       i < j => seq_of[pending_tasks[i]] < seq_of[pending_tasks[j]]

\* The timer is in order, from the oldest batch to the current second, between
\* min_delay_seq and processed_seq.
TimerOrder ==
  /\ \A t \in InTimer : min_delay_seq <= seq_of[t] /\ seq_of[t] <= processed_seq
  /\ \A t \in sent_tasks, u \in Delayed : seq_of[u] < seq_of[t]
  /\ \A i, j \in DOMAIN delay_tasks_queue : i < j =>
       \A t \in delay_tasks_queue[i], u \in delay_tasks_queue[j] : seq_of[u] < seq_of[t]

\* Sequence numbers grow from the timer to the channel and on to the task in the
\* sender's hands; min_delay_seq is below everything that has not timed out.
Ordered == Bounds /\ Hands /\ ChannelOrder /\ TimerOrder

\* Frames carry sequence numbers of requests, which start at 1, unless their
\* first bytes are lost.
Frames ==
  /\ wbuf \subseteq Nat \ {0} /\ reqs \subseteq Nat \ {0} /\ wire \in Seq(Nat)
  /\ (rpc = "wait" => rseq \in Nat \ {0})

\* The types the ordering argument uses.
LEMMA OrderTypes ==
  ASSUME Inv
  PROVE  /\ seq_of \in [Task -> Nat] /\ seq \in Nat /\ processed_seq \in Nat
         /\ min_delay_seq \in Nat /\ submitted \in Nat
         /\ Registered \subseteq Task /\ InTimer \subseteq Registered
         /\ Delayed \subseteq InTimer /\ sent_tasks \subseteq InTimer
         /\ pending_tasks \in Seq(Task) /\ Len(pending_tasks) \in Nat
         /\ DOMAIN pending_tasks = 1 .. Len(pending_tasks)
         /\ \A i \in DOMAIN pending_tasks : pending_tasks[i] \in Registered
         /\ \A t \in Task : t \in Nat
<1>1. Registered \subseteq Task /\ ContainersOK
  BY CountTypes, DelayedElem DEF Inv
<1>2. pending_tasks \in Seq(Task) /\ InTimer \subseteq Registered
  BY <1>1 DEF ContainersOK, Registered
<1>3. \A i \in DOMAIN pending_tasks : pending_tasks[i] \in Registered
  BY DEF Registered, Range
<1>4. Delayed \subseteq InTimer /\ sent_tasks \subseteq InTimer
  BY DEF InTimer
<1>5. submitted \in Nat /\ \A t \in Task : t \in Nat
  BY MaxTasksAssumption DEF Inv, TypeOK, Task
<1>6. seq_of \in [Task -> Nat] /\ seq \in Nat /\ processed_seq \in Nat /\ min_delay_seq \in Nat
  BY DEF Inv, TypeOK, TaskTypeOK, TimerTypeOK
<1> QED BY <1>1, <1>2, <1>3, <1>4, <1>5, <1>6

\* Steps that leave the numbers and the timer alone.
LEMMA QuietOrder ==
  ASSUME Inv, Ordered, UNCHANGED <<containers, seq_of, min_delay_seq, processed_seq>>,
         seq' \in Nat, seq' >= seq, submitted' \in {submitted, submitted + 1},
         spc' \in Numbered => spc \in Numbered /\ submitted' = submitted,
         spc' \in {"counted", "request"} =>
           \/ spc \in {"counted", "request"} /\ submitted' = submitted
           \/ submitted' = submitted + 1 /\ submitted' \in Task
  PROVE  Ordered'
<1>1. Registered' = Registered /\ InTimer' = InTimer /\ Delayed' = Delayed
  BY DEF containers, Registered, InTimer, Delayed
<1>2. UNCHANGED <<pending_tasks, sent_tasks, delay_tasks_queue>>
  BY DEF containers
<1>3. Bounds'
  BY <1>1, OrderTypes DEF Ordered, Bounds
<1>4. ChannelOrder' /\ TimerOrder'
  BY <1>1, <1>2 DEF Ordered, ChannelOrder, TimerOrder
<1>5. \A t \in Task : t > submitted' => seq_of'[t] = 0
  BY OrderTypes DEF Ordered, Hands
<1>6. spc' \in {"counted", "request"} => seq_of'[submitted'] = 0
  <2>1. submitted + 1 \in Task => seq_of[submitted + 1] = 0
    BY OrderTypes DEF Ordered, Hands
  <2> QED BY <2>1 DEF Ordered, Hands
<1>7. spc' \in Numbered => /\ processed_seq' < seq_of'[submitted'] /\ seq_of'[submitted'] < seq'
                           /\ \A t \in Registered' : seq_of'[t] < seq_of'[submitted']
  <2> SUFFICES ASSUME spc' \in Numbered
               PROVE  /\ processed_seq < seq_of[submitted] /\ seq_of[submitted] < seq'
                      /\ \A t \in Registered : seq_of[t] < seq_of[submitted]
    BY <1>1
  <2>1. submitted \in Task
    BY DEF Inv, Core, CurShape, Carrying, Numbered
  <2> QED BY <2>1, OrderTypes DEF Ordered, Hands
<1> QED BY <1>3, <1>4, <1>5, <1>6, <1>7 DEF Ordered, Hands

\* send_request gives the task in hand the largest number so far.
LEMMA NumberOrder ==
  ASSUME Inv, Ordered, WriteRequest \/ WriteError \/ EncodeError
  PROVE  Ordered'
<1>1. /\ spc = "request" /\ seq' = seq + 1 /\ UNCHANGED <<containers, min_delay_seq, processed_seq, submitted>>
      /\ spc' \notin {"counted", "request"}
  BY DEF WriteRequest, WriteError, EncodeError, timerVars, containers, senderVars
<1>2. cur = {submitted} /\ submitted \in Task /\ submitted \notin Registered
  BY <1>1 DEF Inv, Core, CurShape, HandsApart, Carrying
<1>3. seq_of' = [seq_of EXCEPT ![submitted] = seq]
  <2>1. \E t \in cur : set_seq(t, seq)
    BY DEF WriteRequest, WriteError, EncodeError
  <2> QED BY <1>2, <2>1 DEF set_seq
<1>4. /\ seq_of'[submitted] = seq
      /\ \A t \in Task \ {submitted} : seq_of'[t] = seq_of[t]
      /\ \A t \in Registered : seq_of'[t] = seq_of[t]
  BY <1>2, <1>3, OrderTypes
<1>5. Registered' = Registered /\ InTimer' = InTimer /\ Delayed' = Delayed
  BY <1>1 DEF containers, Registered, InTimer, Delayed
<1>6. UNCHANGED <<pending_tasks, sent_tasks, delay_tasks_queue>>
  BY <1>1 DEF containers
<1>7. Bounds'
  BY <1>1, <1>4, <1>5, OrderTypes DEF Ordered, Bounds
<1>8. ChannelOrder'
  BY <1>1, <1>4, <1>6, OrderTypes, SMTT(20) DEF Ordered, ChannelOrder
<1>9. TimerOrder'
  <2>1. \A t \in InTimer : seq_of'[t] = seq_of[t]
    BY <1>4, OrderTypes
  <2>2. \A i \in DOMAIN delay_tasks_queue : delay_tasks_queue[i] \subseteq InTimer
    BY CountTypes, DelayedElem, OrderTypes DEF Inv
  <2>3. \A t \in InTimer : min_delay_seq' <= seq_of'[t] /\ seq_of'[t] <= processed_seq'
    BY <1>1, <2>1 DEF Ordered, TimerOrder
  <2>4. \A t \in sent_tasks, u \in Delayed : seq_of'[u] < seq_of'[t]
    BY <2>1, OrderTypes DEF Ordered, TimerOrder
  <2>5. ASSUME NEW i \in DOMAIN delay_tasks_queue, NEW j \in DOMAIN delay_tasks_queue, i < j,
               NEW t \in delay_tasks_queue[i], NEW u \in delay_tasks_queue[j]
        PROVE  seq_of'[u] < seq_of'[t]
    <3>1. seq_of'[u] = seq_of[u] /\ seq_of'[t] = seq_of[t]
      BY <2>1, <2>2
    <3> QED BY <2>5, <3>1 DEF Ordered, TimerOrder
  <2> QED BY <1>5, <1>6, <2>3, <2>4, <2>5 DEF TimerOrder
<1>10. \A t \in Task : t > submitted' => seq_of'[t] = 0
  BY <1>1, <1>4, OrderTypes DEF Ordered, Hands
<1>11. /\ processed_seq' < seq_of'[submitted'] /\ seq_of'[submitted'] < seq'
       /\ \A t \in Registered' : seq_of'[t] < seq_of'[submitted']
  BY <1>1, <1>4, <1>5, OrderTypes DEF Ordered, Bounds
<1> QED BY <1>1, <1>7, <1>8, <1>9, <1>10, <1>11 DEF Ordered, Hands

\* reg_task puts the task with the largest number at the end of the channel.
LEMMA RegOrder ==
  ASSUME Inv, Ordered, RegTask
  PROVE  Ordered'
<1>1. /\ spc = "reg" /\ spc' = "throttle"
      /\ UNCHANGED <<seq_of, min_delay_seq, processed_seq, seq, submitted, sent_tasks,
                     delay_tasks_queue>>
  BY DEF RegTask, taskVars
<1>2. cur = {submitted} /\ submitted \in Task /\ submitted \notin Registered
  BY <1>1 DEF Inv, Core, CurShape, HandsApart, Carrying
<1>3. reg_task(submitted)
  BY <1>2 DEF RegTask
<1>4. Registered' = Registered \cup {submitted}
  BY <1>1, <1>2, <1>3, RegStep, CountTypes DEF Inv, Core
<1>5. InTimer' = InTimer /\ Delayed' = Delayed
  BY <1>1 DEF InTimer, Delayed
<1>6. /\ processed_seq < seq_of[submitted] /\ seq_of[submitted] < seq
      /\ \A t \in Registered : seq_of[t] < seq_of[submitted]
  BY <1>1 DEF Ordered, Hands, Numbered
<1>7. Bounds'
  BY <1>1, <1>4, <1>6 DEF Ordered, Bounds
<1>8. Hands'
  BY <1>1 DEF Ordered, Hands, Numbered
<1>9. TimerOrder'
  BY <1>1, <1>5 DEF Ordered, TimerOrder
<1>10. ChannelOrder'
  <2> DEFINE p == pending_tasks
             n == Len(pending_tasks)
  <2>1. pending_tasks' = Append(p, submitted)
    BY <1>3 DEF reg_task
  <2>2. /\ DOMAIN pending_tasks' = 1 .. n + 1 /\ pending_tasks'[n + 1] = submitted
        /\ \A i \in 1 .. n : pending_tasks'[i] = p[i]
    BY <1>2, <2>1, OrderTypes
  <2>3. \A i \in 1 .. n : seq_of[p[i]] < seq_of[submitted] /\ processed_seq < seq_of[p[i]]
    BY <1>6, OrderTypes DEF Ordered, ChannelOrder
  <2>4. \A i, j \in 1 .. n : i < j => seq_of[p[i]] < seq_of[p[j]]
    BY OrderTypes DEF Ordered, ChannelOrder
  <2>5. ASSUME NEW i \in 1 .. n + 1 PROVE processed_seq < seq_of[pending_tasks'[i]]
    <3>1. CASE i \in 1 .. n
      BY <2>2, <2>3, <3>1
    <3>2. CASE i = n + 1
      BY <1>6, <2>2, <3>2
    <3> QED BY <3>1, <3>2, OrderTypes
  <2>6. ASSUME NEW i \in 1 .. n + 1, NEW j \in 1 .. n + 1, i < j
        PROVE  seq_of[pending_tasks'[i]] < seq_of[pending_tasks'[j]]
    <3>1. i \in 1 .. n
      BY <2>6, OrderTypes
    <3>2. CASE j \in 1 .. n
      BY <2>2, <2>4, <2>6, <3>1, <3>2
    <3>3. CASE j = n + 1
      BY <2>2, <2>3, <3>1, <3>3
    <3> QED BY <3>2, <3>3, OrderTypes, SMTT(60)
  <2> QED BY <1>1, <2>2, <2>5, <2>6 DEF ChannelOrder
<1> QED BY <1>7, <1>8, <1>9, <1>10 DEF Ordered

\* Draining the channel moves processed_seq past everything that was registered.
LEMMA DrainBound ==
  ASSUME Inv, Ordered, DrainChannel
  PROVE  /\ processed_seq' \in Nat /\ processed_seq <= processed_seq' /\ processed_seq' < seq
         /\ \A t \in Registered : seq_of[t] <= processed_seq'
         /\ (spc \in Numbered => processed_seq' < seq_of[submitted])
         /\ pending_tasks' = <<>>
<1> DEFINE p == pending_tasks
           n == Len(pending_tasks)
<1>1. pending_tasks' = <<>> /\ processed_seq' = ProcessedAfter
  BY DEF DrainChannel
<1>2. \A t \in InTimer : seq_of[t] <= processed_seq
  BY DEF Ordered, TimerOrder
<1>3. CASE p = <<>>
  <2>1. Registered = InTimer /\ processed_seq' = processed_seq
    BY <1>1, <1>3, RangeEmpty DEF Registered, ProcessedAfter
  <2> QED BY <1>1, <1>2, <2>1, OrderTypes DEF Ordered, Bounds, Hands
<1>4. CASE p # <<>>
  <2>1. n \in 1 .. n /\ n \in DOMAIN p
    BY <1>4, OrderTypes
  <2>2. processed_seq' = seq_of[p[n]] /\ p[n] \in Registered
    BY <1>1, <1>4, <2>1, OrderTypes, SMTT(20) DEF ProcessedAfter
  <2>3. processed_seq < seq_of[p[n]] /\ seq_of[p[n]] \in Nat
    BY <2>1, <2>2, OrderTypes DEF Ordered, ChannelOrder
  <2>4. \A i \in 1 .. n : seq_of[p[i]] <= seq_of[p[n]]
    <3> SUFFICES ASSUME NEW i \in 1 .. n PROVE seq_of[p[i]] <= seq_of[p[n]]
      OBVIOUS
    <3>1. seq_of[p[i]] \in Nat
      BY OrderTypes
    <3>2. CASE i = n
      BY <2>3, <3>2
    <3>3. CASE i < n
      <4>1. i \in DOMAIN p /\ n \in DOMAIN p
        BY <2>1, OrderTypes
      <4>2. seq_of[p[i]] < seq_of[p[n]]
        BY <3>3, <4>1 DEF Ordered, ChannelOrder
      <4> QED BY <2>3, <3>1, <4>2
    <3>4. n \in Nat
      BY OrderTypes
    <3> HIDE DEF n
    <3> QED BY <3>2, <3>3, <3>4
  <2>5. ASSUME NEW t \in Registered PROVE seq_of[t] <= processed_seq'
    <3>1. seq_of[t] \in Nat
      BY OrderTypes
    <3>2. CASE t \in InTimer
      BY <1>2, <2>2, <2>3, <3>1, <3>2, OrderTypes, SMTT(20)
    <3>3. CASE t \in Range(p)
      <4>1. PICK i \in 1 .. n : t = p[i]
        BY <3>3, OrderTypes DEF Range
      <4> QED BY <2>2, <2>4, <4>1
    <3> QED BY <3>2, <3>3 DEF Registered
  <2>6. processed_seq' < seq
    BY <2>2 DEF Ordered, Bounds
  <2>7. spc \in Numbered => processed_seq' < seq_of[submitted]
    BY <2>2 DEF Ordered, Hands
  <2> QED BY <1>1, <2>2, <2>3, <2>5, <2>6, <2>7, OrderTypes, SMTT(20)
<1> QED BY <1>3, <1>4

\* poll_sent_task: what was in the channel is younger than what was in the timer.
LEMMA DrainOrder ==
  ASSUME Inv, Ordered, poll_sent_task,
         UNCHANGED <<seq_of, min_delay_seq, delay_tasks_queue, seq, submitted, spc>>
  PROVE  Ordered'
<1>1. /\ processed_seq' \in Nat /\ processed_seq <= processed_seq' /\ processed_seq' < seq
      /\ \A t \in Registered : seq_of[t] <= processed_seq'
      /\ (spc \in Numbered => processed_seq' < seq_of[submitted])
      /\ pending_tasks' = <<>>
  BY DrainBound DEF poll_sent_task
<1>2. Registered' = Registered /\ InTimer' = Registered
  BY DrainStep, CountTypes DEF Inv, Core
<1>3. Delayed' = Delayed /\ sent_tasks' = sent_tasks \cup Range(pending_tasks)
  BY DEF Delayed, poll_sent_task
<1>4. Bounds'
  BY <1>1, <1>2, OrderTypes DEF Ordered, Bounds
<1>5. Hands'
  BY <1>1, <1>2 DEF Ordered, Hands
<1>6. ChannelOrder'
  BY <1>1 DEF ChannelOrder
<1>7. \A t \in InTimer' : min_delay_seq' <= seq_of'[t] /\ seq_of'[t] <= processed_seq'
  <2>1. ASSUME NEW t \in Registered PROVE min_delay_seq <= seq_of[t]
    <3>1. CASE t \in InTimer
      BY <3>1 DEF Ordered, TimerOrder
    <3>2. CASE t \in Range(pending_tasks)
      <4>1. processed_seq < seq_of[t] /\ seq_of[t] \in Nat
        BY <3>2, OrderTypes DEF Range, Ordered, ChannelOrder
      <4> QED BY <4>1, OrderTypes DEF Ordered, Bounds
    <3> QED BY <3>1, <3>2 DEF Registered
  <2> QED BY <1>1, <1>2, <2>1
<1>8. ASSUME NEW t \in sent_tasks', NEW u \in Delayed' PROVE seq_of[u] < seq_of[t]
  <2>1. CASE t \in sent_tasks
    BY <1>3, <2>1 DEF Ordered, TimerOrder
  <2>2. CASE t \in Range(pending_tasks)
    <3>1. processed_seq < seq_of[t] /\ seq_of[t] \in Nat
      BY <2>2, OrderTypes DEF Range, Ordered, ChannelOrder
    <3>2. seq_of[u] <= processed_seq /\ seq_of[u] \in Nat
      BY <1>3, OrderTypes DEF Ordered, TimerOrder
    <3> QED BY <3>1, <3>2, OrderTypes
  <2> QED BY <1>3, <2>1, <2>2
<1>9. TimerOrder'
  BY <1>7, <1>8 DEF Ordered, TimerOrder
<1> QED BY <1>4, <1>5, <1>6, <1>9 DEF Ordered

\* take_task and clean_pending_tasks only take tasks out.
LEMMA RemoveOrder ==
  ASSUME Inv, Ordered, UNCHANGED <<seq_of, min_delay_seq, seq, submitted, spc>>,
         Registered' \subseteq Registered, InTimer' \subseteq InTimer,
         sent_tasks' \subseteq sent_tasks, Delayed' \subseteq Delayed,
         DOMAIN delay_tasks_queue' = DOMAIN delay_tasks_queue,
         \A i \in DOMAIN delay_tasks_queue : delay_tasks_queue'[i] \subseteq delay_tasks_queue[i],
         \/ UNCHANGED <<processed_seq, pending_tasks>>
         \/ DrainChannel
  PROVE  Ordered'
<1>1. /\ processed_seq' \in Nat /\ processed_seq <= processed_seq' /\ processed_seq' < seq
      /\ (spc \in Numbered => processed_seq' < seq_of[submitted])
  BY DrainBound, OrderTypes DEF Ordered, Bounds, Hands
<1>2. ChannelOrder'
  <2>1. CASE UNCHANGED <<processed_seq, pending_tasks>>
    BY <2>1 DEF Ordered, ChannelOrder
  <2>2. CASE DrainChannel
    BY <2>2 DEF DrainChannel, ChannelOrder
  <2> QED BY <2>1, <2>2
<1>3. Bounds'
  BY <1>1, OrderTypes DEF Ordered, Bounds
<1>4. Hands'
  BY <1>1 DEF Ordered, Hands
<1>5. \A t \in InTimer' : min_delay_seq' <= seq_of'[t] /\ seq_of'[t] <= processed_seq'
  <2> SUFFICES ASSUME NEW t \in InTimer
               PROVE  min_delay_seq <= seq_of[t] /\ seq_of[t] <= processed_seq'
    OBVIOUS
  <2>1. seq_of[t] \in Nat /\ min_delay_seq <= seq_of[t] /\ seq_of[t] <= processed_seq
    BY OrderTypes DEF Ordered, TimerOrder
  <2> QED BY <1>1, <2>1, OrderTypes
<1>6. \A t \in sent_tasks', u \in Delayed' : seq_of'[u] < seq_of'[t]
  BY DEF Ordered, TimerOrder
<1>7. \A i, j \in DOMAIN delay_tasks_queue' : i < j =>
        \A t \in delay_tasks_queue'[i], u \in delay_tasks_queue'[j] : seq_of'[u] < seq_of'[t]
  BY DEF Ordered, TimerOrder
<1> QED BY <1>2, <1>3, <1>4, <1>5, <1>6, <1>7, SMTT(20) DEF Ordered, TimerOrder

\* The batches before and after adjust_task_queue.
LEMMA TickQueue ==
  ASSUME Inv, adjust_task_queue
  PROVE  /\ Len(delay_tasks_queue) \in Nat
         /\ DOMAIN delay_tasks_queue = 1 .. Len(delay_tasks_queue)
         /\ Pushed[1] = sent_tasks
         /\ \A i \in 1 .. Len(delay_tasks_queue) : Pushed[i + 1] = delay_tasks_queue[i]
         /\ \A i \in DOMAIN delay_tasks_queue' :
              /\ i \in 1 .. Len(delay_tasks_queue) + 1 /\ delay_tasks_queue'[i] = Pushed[i]
              /\ (Expired # {} => i < Len(delay_tasks_queue) + 1)
         /\ (Expired # {} => Expired = Pushed[Len(delay_tasks_queue) + 1])
<1> DEFINE q == delay_tasks_queue
           n == Len(q)
<1>1. q \in Seq(SUBSET Task) /\ n \in Nat /\ DOMAIN q = 1 .. n /\ sent_tasks \in SUBSET Task
  BY DEF Inv, TypeOK, TimerTypeOK
<1>2. /\ Pushed \in Seq(SUBSET Task) /\ Len(Pushed) = n + 1 /\ Pushed[1] = sent_tasks
      /\ \A i \in 1 .. n : Pushed[i + 1] = q[i]
  BY <1>1 DEF Pushed
<1>3. delay_tasks_queue' = IF TooLong THEN SubSeq(Pushed, 1, Len(Pushed) - 1) ELSE Pushed
  BY DEF adjust_task_queue
<1>4. CASE TooLong
  <2>1. /\ delay_tasks_queue' = SubSeq(Pushed, 1, Len(Pushed) - 1) /\ DOMAIN SubSeq(Pushed, 1, Len(Pushed) - 1) = 1 .. n
        /\ \A i \in 1 .. n : SubSeq(Pushed, 1, Len(Pushed) - 1)[i] = Pushed[i]
    BY <1>1, <1>2, <1>3, <1>4
  <2>2. Expired = Pushed[n + 1]
    BY <1>2, <1>4 DEF Expired
  <2>3. \A i \in 1 .. n : i \in 1 .. n + 1 /\ i < n + 1
    BY <1>1
  <2> QED BY <1>1, <1>2, <2>1, <2>2, <2>3
<1>5. CASE ~TooLong
  <2>1. delay_tasks_queue' = Pushed /\ DOMAIN Pushed = 1 .. n + 1 /\ Expired = {}
    BY <1>1, <1>2, <1>3, <1>5 DEF Expired
  <2> QED BY <1>1, <1>2, <2>1
<1> QED BY <1>4, <1>5

\* A tick pops the batch with the smallest numbers.
LEMMA TickOrder ==
  ASSUME Inv, Ordered, Tick
  PROVE  Ordered'
<1> DEFINE q == delay_tasks_queue
           n == Len(delay_tasks_queue)
<1>1. /\ adjust_task_queue /\ sent_tasks' = {} /\ min_delay_seq' \in MinDelaySeq
      /\ UNCHANGED <<seq_of, processed_seq, pending_tasks, seq, submitted, spc>>
  BY DEF Tick, adjust_task_queue, senderVars
<1>2. /\ n \in Nat /\ DOMAIN q = 1 .. n /\ Pushed[1] = sent_tasks
      /\ \A i \in 1 .. n : Pushed[i + 1] = q[i]
      /\ \A i \in DOMAIN delay_tasks_queue' :
           /\ i \in 1 .. n + 1 /\ delay_tasks_queue'[i] = Pushed[i]
           /\ (Expired # {} => i < n + 1)
      /\ (Expired # {} => Expired = Pushed[n + 1])
  BY <1>1, TickQueue
<1>3. /\ Expired \subseteq Registered /\ Registered' = Registered \ Expired
  BY <1>1, AdjustStep, CountTypes, TaskTimeoutAssumption, SMTT(20) DEF Inv, Core
<1>4. \A i \in 1 .. n : q[i] \subseteq Delayed /\ q[i] \subseteq InTimer
  BY <1>2, CountTypes, DelayedElem, OrderTypes, SMTT(20) DEF Inv
<1>5. \A i \in 1 .. n + 1 : Pushed[i] \subseteq InTimer
  <2> SUFFICES ASSUME NEW i \in 1 .. n + 1 PROVE Pushed[i] \subseteq InTimer
    OBVIOUS
  <2>1. CASE i = 1
    BY <1>2, <2>1, OrderTypes
  <2>2. CASE i # 1
    <3>1. i - 1 \in 1 .. n /\ Pushed[i] = q[i - 1]
      BY <1>2, <2>2
    <3> QED BY <1>4, <3>1
  <2> QED BY <2>1, <2>2
<1>6. ASSUME NEW i \in 1 .. n + 1, NEW j \in 1 .. n + 1, i < j, NEW t \in Pushed[i], NEW u \in Pushed[j]
      PROVE  seq_of[u] < seq_of[t]
  <2>1. j - 1 \in 1 .. n /\ Pushed[j] = q[j - 1]
    BY <1>2, <1>6
  <2>2. CASE i = 1
    <3>1. t \in sent_tasks /\ u \in Delayed
      BY <1>2, <1>4, <1>6, <2>1, <2>2
    <3> QED BY <3>1 DEF Ordered, TimerOrder
  <2>3. CASE i # 1
    <3>1. i - 1 \in 1 .. n /\ Pushed[i] = q[i - 1] /\ i - 1 < j - 1
      BY <1>2, <1>6, <2>3, SMTT(20)
    <3>2. i - 1 \in DOMAIN q /\ j - 1 \in DOMAIN q /\ t \in q[i - 1] /\ u \in q[j - 1]
      BY <1>2, <1>6, <2>1, <3>1
    <3> QED BY <3>1, <3>2 DEF Ordered, TimerOrder
  <2> QED BY <2>2, <2>3
<1>7. \A t \in Delayed' : \E i \in DOMAIN delay_tasks_queue' : t \in Pushed[i]
  BY <1>2 DEF Delayed, Range
<1>8. /\ min_delay_seq' <= processed_seq
      /\ \A t \in Delayed' : min_delay_seq' <= seq_of[t] /\ seq_of[t] <= processed_seq
  <2>1. \A t \in Delayed' : /\ t \in InTimer /\ seq_of[t] \in Nat
                            /\ min_delay_seq <= seq_of[t] /\ seq_of[t] <= processed_seq
    BY <1>2, <1>5, <1>7, OrderTypes, SMTT(20) DEF Ordered, TimerOrder
  <2>2. CASE Expired = {}
    <3>1. min_delay_seq' = min_delay_seq
      BY <1>1, <2>2, SMTT(20) DEF MinDelaySeq
    <3> QED BY <2>1, <3>1 DEF Ordered, Bounds
  <2>3. CASE Expired # {}
    <3>1. min_delay_seq' \in SeqsOf(Expired)
      BY <1>1, <2>3 DEF MinDelaySeq
    <3>2. PICK e \in Expired : min_delay_seq' = seq_of[e]
      BY <3>1 DEF SeqsOf
    <3>3. e \in Pushed[n + 1] /\ n + 1 \in 1 .. n + 1
      BY <1>2, <2>3, <3>2
    <3>4. e \in InTimer /\ seq_of[e] \in Nat /\ seq_of[e] <= processed_seq
      BY <1>5, <3>3, OrderTypes, Zenon DEF Ordered, TimerOrder
    <3>5. ASSUME NEW t \in Delayed' PROVE seq_of[e] < seq_of[t]
      <4>1. PICK i \in DOMAIN delay_tasks_queue' : t \in Pushed[i]
        BY <1>7
      <4>2. i \in 1 .. n + 1 /\ i < n + 1
        BY <1>2, <2>3
      <4> QED BY <1>6, <3>3, <4>1, <4>2
    <3>6. \A t \in Delayed' : min_delay_seq' <= seq_of[t]
      BY <2>1, <3>2, <3>4, <3>5
    <3> QED BY <2>1, <3>2, <3>4, <3>6, SMTT(20)
  <2> QED BY <2>2, <2>3
<1>9. InTimer' = Delayed'
  BY <1>1 DEF InTimer
<1>10. Bounds'
  BY <1>1, <1>3, <1>8, SMTT(20) DEF Ordered, Bounds
<1>11. Hands' /\ ChannelOrder'
  BY <1>1, <1>3 DEF Ordered, Hands, ChannelOrder
<1>12. \A i, j \in DOMAIN delay_tasks_queue' : i < j =>
         \A t \in delay_tasks_queue'[i], u \in delay_tasks_queue'[j] : seq_of'[u] < seq_of'[t]
  BY <1>1, <1>2, <1>6
<1>13. TimerOrder'
  BY <1>1, <1>8, <1>9, <1>12, SMTT(20) DEF TimerOrder
<1> QED BY <1>10, <1>11, <1>13 DEF Ordered

\* Every step keeps the numbers in order.
LEMMA OrderStep ==
  ASSUME Inv, Inv', Ordered, [Next]_vars
  PROVE  Ordered'
<1>1. CASE WriteRequest \/ WriteError \/ EncodeError
  BY <1>1, NumberOrder
<1>2. CASE RegTask
  BY <1>2, RegOrder
<1>3. CASE Tick
  BY <1>3, TickOrder
<1>q. ASSUME UNCHANGED <<containers, seq_of, min_delay_seq, processed_seq, seq, spc, submitted>>
      PROVE  Ordered'
  BY <1>q, QuietOrder, OrderTypes
<1>4. CASE Poll \/ RecvOneResp \/ WaitRegTask
  <2>1. /\ UNCHANGED <<seq_of, min_delay_seq, delay_tasks_queue, seq, submitted, spc>>
        /\ poll_sent_task \/ UNCHANGED <<containers, processed_seq>>
    BY <1>4 DEF Poll, RecvOneResp, WaitRegTask, taskVars, senderVars, containers
  <2> QED BY <1>q, <2>1, DrainOrder, SMTT(20)
<1>5. CASE TakeTask
  <2>1. /\ UNCHANGED <<seq_of, min_delay_seq, seq, submitted, spc, processed_seq, pending_tasks>>
        /\ remove_task(held') /\ held' \subseteq InTimer
    BY <1>5 DEF TakeTask, take_task, taskVars, senderVars
  <2>2. /\ sent_tasks' \subseteq sent_tasks
        /\ DOMAIN delay_tasks_queue' = DOMAIN delay_tasks_queue
        /\ \A i \in DOMAIN delay_tasks_queue : delay_tasks_queue'[i] \subseteq delay_tasks_queue[i]
    BY <2>1 DEF remove_task
  <2>3. Delayed' \subseteq Delayed
    BY <2>2 DEF Delayed, Range
  <2>4. InTimer' \subseteq InTimer /\ Registered' \subseteq Registered
    BY <2>1, <2>2, <2>3 DEF InTimer, Registered
  <2> QED BY <2>1, <2>2, <2>3, <2>4, RemoveOrder, SMTT(20)
<1>6. CASE CleanPendingTasks \/ DropInner
  <2>1. UNCHANGED <<seq_of, min_delay_seq, seq, submitted, spc>> /\ clean_pending_tasks
    BY <1>6 DEF CleanPendingTasks, DropInner, senderVars
  <2>2. /\ sent_tasks' \subseteq sent_tasks /\ DrainChannel
        /\ DOMAIN delay_tasks_queue' = DOMAIN delay_tasks_queue
        /\ \A i \in DOMAIN delay_tasks_queue : delay_tasks_queue'[i] \subseteq delay_tasks_queue[i]
    BY <2>1 DEF clean_pending_tasks
  <2>3. Delayed' \subseteq Delayed
    BY <2>2 DEF Delayed, Range
  <2>4. Registered' = {}
    BY <2>1, CleanStep, CountTypes DEF Inv
  <2>5. InTimer' \subseteq InTimer
    BY <2>2, <2>3 DEF InTimer
  <2> QED BY <2>1, <2>2, <2>3, <2>4, <2>5, RemoveOrder, SMTT(20)
<1>7. CASE \E flush \in BOOLEAN : SendTask(flush)
  <2>1. /\ spc' = "counted" /\ submitted' = submitted + 1 /\ submitted < MaxTasks
        /\ UNCHANGED <<containers, seq_of, min_delay_seq, processed_seq, seq>>
    BY <1>7 DEF SendTask, taskVars, containers
  <2>2. submitted' \in Task
    BY <2>1, OrderTypes, MaxTasksAssumption DEF Task
  <2> QED BY <2>1, <2>2, QuietOrder, OrderTypes DEF Numbered
<1>8. CASE CheckClosed \/ WriteErrorCleanup \/ SendError \/ Throttle \/ FlushErrorFlags
           \/ SendPing \/ DropStreamFlags \/ FlushReq \/ Ping \/ SetErrorAndExit \/ DropStream
  <2>1. UNCHANGED <<containers, seq_of, min_delay_seq, processed_seq, submitted>>
    BY <1>8, Zenon DEF CheckClosed, WriteErrorCleanup, SendError, Throttle, FlushErrorFlags, SendPing,
       DropStreamFlags, FlushReq, Ping, SetErrorAndExit, DropStream, containers, taskVars,
       timerVars, senderVars
  <2>2. seq' = seq \/ seq' = seq + 1
    BY <1>8, Zenon DEF CheckClosed, WriteErrorCleanup, SendError, Throttle, FlushErrorFlags, SendPing,
       DropStreamFlags, FlushReq, Ping, SetErrorAndExit, DropStream
  <2>3. /\ (spc' \in Numbered => spc \in Numbered)
        /\ (spc' \in {"counted", "request"} => spc \in {"counted", "request"})
    BY <1>8, Zenon DEF CheckClosed, WriteErrorCleanup, SendError, Throttle, FlushErrorFlags, SendPing,
       DropStreamFlags, FlushReq, Ping, SetErrorAndExit, DropStream, senderVars, Numbered
  <2>4. seq' \in Nat /\ seq' >= seq
    BY <2>2, OrderTypes
  <2> QED BY <2>1, <2>3, <2>4, QuietOrder
<1>9. CASE \/ ReadHeader \/ ReadClosed \/ ReadHeaderError \/ RecvRespBody \/ RecvAndDump
           \/ RecvBodyError \/ Pending \/ ReceiveLoopError \/ ReceiveLoopExit \/ PeerBody
           \/ Peer \/ Terminated \/ UNCHANGED vars
  <2>1. UNCHANGED <<containers, seq_of, min_delay_seq, processed_seq, seq, spc, submitted>>
    BY <1>9, Zenon DEF ReadHeader, ReadClosed, ReadHeaderError, RecvRespBody, RecvAndDump,
       RecvBodyError, Pending, ReceiveLoopError, ReceiveLoopExit, PeerBody, Peer, Terminated,
       vars, containers, taskVars, timerVars, senderVars
  <2> QED BY <1>q, <2>1
<1> QED BY <1>1, <1>2, <1>3, <1>4, <1>5, <1>6, <1>7, <1>8, <1>9, SMTT(20)
        DEF Next, UserCall, SenderStep, ReaderStep

LEMMA OrderInit == Init => Ordered
<1> SUFFICES ASSUME Init PROVE Ordered
  OBVIOUS
<1>1. /\ sent_tasks = {} /\ pending_tasks = <<>> /\ delay_tasks_queue = <<>>
      /\ min_delay_seq = 0 /\ processed_seq = 0 /\ seq = 1 /\ spc = "idle"
      /\ seq_of = [t \in Task |-> 0]
  BY DEF Init, TaskInit, TimerInit
<1>2. Delayed = {} /\ Registered = {} /\ InTimer = {}
  BY <1>1, RangeEmpty DEF Delayed, Registered, InTimer
<1>3. DOMAIN delay_tasks_queue = {} /\ DOMAIN pending_tasks = {}
  BY <1>1, SMTT(20)
<1> QED BY <1>1, <1>2, <1>3 DEF Ordered, Bounds, Hands, ChannelOrder, TimerOrder, Numbered

\* Only write_req and the peer put frames under way, and both use numbers of requests.
LEMMA FramesStep ==
  ASSUME Inv, Ordered, Frames, [Next]_vars
  PROVE  Frames'
<1> DEFINE P == Nat \ {0}
           Flow == wbuf' \subseteq P /\ reqs' \subseteq P /\ wire' \in Seq(Nat)
           Hold == rpc' = "wait" => rpc = "wait" /\ rseq' = rseq
<1>t. wbuf \subseteq P /\ reqs \subseteq P /\ wire \in Seq(Nat) /\ (rpc = "wait" => rseq \in P)
  BY DEF Frames
<1>s. seq \in P /\ need_flush \in BOOLEAN
  BY OrderTypes DEF Ordered, Bounds, Inv, TypeOK
<1>1. ASSUME UNCHANGED tcpVars PROVE Flow
  BY <1>1, <1>t DEF tcpVars
<1>2. ASSUME NEW x \in P, NEW f \in BOOLEAN, write_req(x, f) PROVE Flow
  BY <1>2, <1>t DEF write_req, Send, Buffer
<1>3. ASSUME flush_req PROVE Flow
  BY <1>3, <1>t DEF flush_req, Flush, Send
<1>4. ASSUME NEW S \in SUBSET P, io_error(S) PROVE Flow
  BY <1>4, <1>t DEF io_error, Send
<1>5. ASSUME close_conn PROVE Flow
  <2>1. CASE io_error({})
    BY <2>1, <1>4
  <2>2. CASE ~io_error({})
    BY <2>2, <1>5, <1>t DEF close_conn, Flush, Send
  <2> QED BY <2>1, <2>2
<1>6. ASSUME Peer PROVE Flow
  <2>1. CASE PeerClose
    <3>1. reqs' = {} /\ wbuf' = wbuf
      BY <2>1, Zenon DEF PeerClose
    <3>2. wire' = wire \/ wire' = <<>>
      BY <2>1, Zenon DEF PeerClose
    <3>3. wire' \in Seq(Nat)
      BY <3>2, <1>t, EmptySeq, Zenon
    <3> QED BY <3>1, <3>3, <1>t
  <2>2. ASSUME NEW x \in reqs, PeerRespond(x) PROVE Flow
    <3>1. /\ wire' = Append(wire, x) \/ wire' = Append(Append(wire, x), x)
          /\ reqs' = reqs \ {x} /\ wbuf' = wbuf
      BY <2>2, Zenon DEF PeerRespond
    <3>2. wire' \in Seq(Nat)
      <4>1. x \in Nat
        BY <1>t
      <4> QED BY <4>1, <3>1, <1>t, SendType, Zenon
    <3> QED BY <3>1, <3>2, <1>t
  <2> QED BY <1>6, <2>1, <2>2 DEF Peer
<1>7. CASE ReadHeader
  <2>1. /\ wire # <<>> /\ wire' = Tail(wire) /\ rseq' = Head(wire) /\ Head(wire) # 0
        /\ UNCHANGED <<wbuf, reqs>>
    BY <1>7 DEF ReadHeader, Cut
  <2> QED BY <2>1, <1>t DEF Frames
<1>8. CASE WriteRequest \/ WriteError \/ FlushReq \/ SendPing \/ SetErrorAndExit
  <2>1. Flow
    <3>1. CASE WriteRequest
      BY <3>1, <1>s, <1>2 DEF WriteRequest
    <3>2. CASE WriteError
      BY <3>2, <1>s, <1>4 DEF WriteError
    <3>3. CASE FlushReq
      BY <3>3, <1>3, <1>4 DEF FlushReq
    <3>4. CASE SendPing
      BY <3>4, <1>s, <1>2, <1>4, Zenon DEF SendPing
    <3>5. CASE SetErrorAndExit
      BY <3>5, <1>5 DEF SetErrorAndExit
    <3> QED BY <1>8, <3>1, <3>2, <3>3, <3>4, <3>5, SMTT(20)
  <2>2. rpc' = rpc /\ rseq' = rseq
    BY <1>8, Zenon DEF WriteRequest, WriteError, FlushReq, SendPing, SetErrorAndExit, readerVars
  <2> QED BY <2>1, <2>2, <1>t DEF Frames
<1>9. CASE UNCHANGED tcpVars /\ Hold
  BY <1>1, <1>9, <1>t DEF Frames
<1>10. Peer => rpc' = rpc /\ rseq' = rseq
  BY DEF Peer, readerVars
<1>11. CASE \/ CheckClosed \/ EncodeError \/ SendError \/ WriteErrorCleanup \/ RegTask \/ Throttle
            \/ FlushErrorFlags \/ Ping \/ DropStream \/ DropStreamFlags \/ Tick \/ PeerBody
            \/ Terminated \/ UNCHANGED vars \/ \E flush \in BOOLEAN : SendTask(flush)
  <2>1. UNCHANGED tcpVars
    BY <1>11, Zenon DEF SendTask, CheckClosed, EncodeError, SendError, WriteErrorCleanup, RegTask,
       Throttle, FlushErrorFlags, Ping, DropStream, DropStreamFlags, Tick, PeerBody, Terminated,
       vars
  <2>2. rpc' = rpc /\ rseq' = rseq
    BY <1>11, Zenon DEF SendTask, CheckClosed, EncodeError, SendError, WriteErrorCleanup, RegTask,
       Throttle, FlushErrorFlags, Ping, DropStream, DropStreamFlags, Tick, PeerBody, Terminated,
       vars, readerVars
  <2> QED BY <1>9, <2>1, <2>2
<1>a. CASE ReadClosed
  <2>1. /\ wire' = wire \/ (wire # <<>> /\ wire' = <<0>> \o Tail(wire))
        /\ UNCHANGED <<wbuf, reqs>> /\ rpc' = "loop"
    BY <1>a, Zenon DEF ReadClosed, AbandonHeader
  <2>2. wire' \in Seq(Nat)
    BY <2>1, <1>t
  <2> QED BY <2>1, <2>2, <1>t DEF Frames
<1>12. CASE \/ Poll \/ RecvOneResp \/ ReadHeaderError \/ WaitRegTask \/ TakeTask
            \/ RecvRespBody \/ RecvAndDump \/ RecvBodyError \/ Pending \/ ReceiveLoopError
            \/ CleanPendingTasks \/ ReceiveLoopExit \/ DropInner
  <2>1. UNCHANGED tcpVars
    BY <1>12, Zenon DEF Poll, RecvOneResp, ReadHeaderError, WaitRegTask, TakeTask,
       RecvRespBody, RecvAndDump, RecvBodyError, Pending, ReceiveLoopError, CleanPendingTasks,
       ReceiveLoopExit, DropInner
  <2>2. Hold
    BY <1>12, Zenon DEF Poll, RecvOneResp, ReadHeaderError, WaitRegTask, TakeTask,
       RecvRespBody, RecvAndDump, RecvBodyError, Pending, ReceiveLoopError, CleanPendingTasks,
       ReceiveLoopExit, DropInner
  <2> QED BY <1>9, <2>1, <2>2
<1> QED BY <1>6, <1>7, <1>8, <1>10, <1>11, <1>a, <1>12, <1>t, SMTT(20)
        DEF Next, UserCall, SenderStep, ReaderStep, Frames

\* A task still in the channel or in the sender's hands has a number above
\* processed_seq, or none yet.
LEMMA Unprocessed ==
  ASSUME Inv, Ordered
  PROVE  \A t \in (Registered \cup cur) \ InTimer : processed_seq < seq_of[t] \/ seq_of[t] = 0
<1> SUFFICES ASSUME NEW t \in Registered \cup cur, t \notin InTimer
             PROVE  processed_seq < seq_of[t] \/ seq_of[t] = 0
  OBVIOUS
<1>1. CASE t \in Registered
  <2>1. PICK i \in DOMAIN pending_tasks : pending_tasks[i] = t
    BY <1>1 DEF Registered, Range
  <2> QED BY <2>1 DEF Ordered, ChannelOrder
<1>2. CASE t \in cur
  <2>1. spc \in Carrying /\ t = submitted
    BY <1>2 DEF Inv, Core, CurShape
  <2>2. spc \in {"counted", "request"} \/ spc \in Numbered
    BY <2>1 DEF Carrying, Numbered
  <2> QED BY <2>1, <2>2 DEF Ordered, Hands
<1> QED BY <1>1, <1>2
================================================================================
