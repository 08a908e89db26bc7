--------------------------- MODULE ClientTaskTimer ---------------------------
(***************************************************************************)
(* ClientTaskTimer (stream/src/client/timer.rs): the sent tasks that wait  *)
(* for a response.  The sender registers a task through the bounded        *)
(* channel pending_tasks; everything else is owned by the receiver         *)
(* coroutine.  sent_tasks holds the tasks of the current second and        *)
(* delay_tasks_queue one batch per past second, the youngest first.        *)
(***************************************************************************)
EXTENDS ClientTask, FiniteSets, Functions

CONSTANT TaskTimeout   \* ClientConfig.task_timeout, in ticks of one second

ASSUME TaskTimeoutAssumption == TaskTimeout \in Nat

VARIABLES
  pending_tasks,        \* the channel from reg_task to the receiver
  pending_task_count,   \* send_task calls whose task has not left the channel
  sent_tasks,
  delay_tasks_queue,
  min_delay_seq,
  processed_seq,
  reg_stopped_flag,
  age                   \* history: ticks since reg_task, up to AgeCap

AgeCap == TaskTimeout + 1

timerVars == <<pending_tasks, pending_task_count, sent_tasks, delay_tasks_queue,
               min_delay_seq, processed_seq, reg_stopped_flag, age>>

TimerTypeOK ==
  /\ pending_tasks \in Seq(Task)
  /\ pending_task_count \in Nat
  /\ sent_tasks \subseteq Task
  /\ delay_tasks_queue \in Seq(SUBSET Task)
  /\ min_delay_seq \in Nat
  /\ processed_seq \in Nat
  /\ reg_stopped_flag \in BOOLEAN
  /\ age \in [Task -> Nat]

TimerInit ==
  /\ pending_tasks = <<>>
  /\ pending_task_count = 0
  /\ sent_tasks = {}
  /\ delay_tasks_queue = <<>>
  /\ min_delay_seq = 0
  /\ processed_seq = 0
  /\ reg_stopped_flag = FALSE
  /\ age = [t \in Task |-> 0]

Delayed == UNION Range(delay_tasks_queue)

\* The tasks the receiver owns, and those registered at all.
InTimer == sent_tasks \cup Delayed

Registered == Range(pending_tasks) \cup InTimer
--------------------------------------------------------------------------------
\* Called by the sender.
reg_task(t) ==
  /\ pending_tasks' = Append(pending_tasks, t)
  /\ age' = [age EXCEPT ![t] = 0]

stop_reg_task == reg_stopped_flag' = TRUE

\* The last task taken from the channel sets processed_seq.
ProcessedAfter ==
  IF pending_tasks = <<>> THEN processed_seq ELSE seq_of[pending_tasks[Len(pending_tasks)]]

\* The counter's fetch_add and fetch_sub in the sender's code.
count_task == pending_task_count' = pending_task_count + 1
rollback_count_Forgotten == UNCHANGED pending_task_count
rollback_count == pending_task_count' = pending_task_count - 1

\* What got_pending_task does to the channel side for every queued task.
DrainChannel ==
  /\ pending_tasks' = <<>>
  /\ pending_task_count' = pending_task_count - Len(pending_tasks)
  /\ processed_seq' = ProcessedAfter

\* poll_sent_task: move everything queued into sent_tasks.
poll_sent_task ==
  /\ DrainChannel
  /\ sent_tasks' = sent_tasks \cup Range(pending_tasks)

\* check_pending_tasks_empty, evaluated after the same draining.
check_pending_tasks_empty_Undrained == InTimer = {}
check_pending_tasks_empty == Registered = {}

\* The age of a task ends with its registration.
Forget(S) == age' = [t \in Task |-> IF t \in S THEN 0 ELSE age[t]]

\* The tasks take_task(s) can find once processed_seq covers s ...
take_task(s) == {t \in InTimer : seq_of[t] = s}

\* ... and what it leaves in the timer.
remove_task_CurrentOnly(S) ==
  /\ sent_tasks' = sent_tasks \ S
  /\ Forget(S)
  /\ UNCHANGED delay_tasks_queue
remove_task(S) ==
  /\ sent_tasks' = sent_tasks \ S
  /\ Forget(S)
  /\ delay_tasks_queue' =
       [i \in DOMAIN delay_tasks_queue |-> delay_tasks_queue[i] \ S]

\* clean_pending_tasks: drain, then hand back every task with an IO error.
clean_pending_tasks ==
  /\ DrainChannel
  /\ sent_tasks' = {}
  /\ delay_tasks_queue' = [i \in DOMAIN delay_tasks_queue |-> {}]
  /\ Forget(Task)
  /\ Complete(Registered, "io")
--------------------------------------------------------------------------------
(* adjust_task_queue, run by the receiver on every tick.                     *)

\* The current second's tasks become the youngest batch ...
Pushed == <<sent_tasks>> \o delay_tasks_queue

\* ... and the oldest batch is popped when there are more than task_timeout.
TooLong_OneEarly == Len(Pushed) >= TaskTimeout
TooLong == Len(Pushed) > TaskTimeout

Expired == IF TooLong THEN Pushed[Len(Pushed)] ELSE {}

\* min_delay_seq afterwards: the least sequence number that expired, if any did.
MinDelaySeq_Processed == {IF Expired = {} THEN min_delay_seq ELSE processed_seq + 1}
MinDelaySeq ==
  IF Expired = {} THEN {min_delay_seq}
  ELSE {s \in SeqsOf(Expired) : \A r \in SeqsOf(Expired) : s <= r}

adjust_task_queue ==
  /\ delay_tasks_queue' = IF TooLong THEN SubSeq(Pushed, 1, Len(Pushed) - 1) ELSE Pushed
  /\ sent_tasks' = {}
  /\ min_delay_seq' \in MinDelaySeq
  /\ Complete(Expired, "timeout")
  /\ age' = [t \in Task |-> CASE t \notin Registered \ Expired -> 0
                            [] t \in Registered \ Expired /\ age[t] < AgeCap -> age[t] + 1
                            [] OTHER -> age[t]]
================================================================================
