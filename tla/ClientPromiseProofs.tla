-------------------------- MODULE ClientPromiseProofs --------------------------
(***************************************************************************)
(* What a client connection promises its user, for every number of tasks,  *)
(* every window and any set of faults: no task is lost or completed twice, *)
(* the count of pending tasks and the throttler's window are kept, no task *)
(* times out early and no live response is thrown away, a connection that  *)
(* is closed is read until its tasks have waited for read_timeout, and     *)
(* TaskLedger is implemented.  All of it rests on the invariants of        *)
(* ClientStreamProofs.                                                     *)
(***************************************************************************)
EXTENDS ClientStreamProofs

USE RecordUpdate

(* The window. *)

\* The window, as the sender goes through send_task: what is in flight is above
\* the window only between add_task and the end of the throttler's wait, and
\* then the frame that filled it was flushed.
Window ==
  /\ IsInjective(pending_tasks)
  /\ get_inflight_count <= Thresholds + 1
  /\ (spc \notin {"reg", "throttle"} => get_inflight_count <= Thresholds)
  /\ (spc \in {"counted", "request"} /\ ~need_flush => get_inflight_count + 1 <= Thresholds)
  /\ (spc \in {"reg", "throttle"} => get_inflight_count <= Thresholds \/ wbuf = {})

\* What the sender's steps do to the places the window depends on, the writing
\* of a request, the call itself and the end of the wait apart.
Passing ==
  \/ UNCHANGED <<spc, need_flush>> /\ (spc \in {"reg", "throttle"} => UNCHANGED wbuf)
  \/ spc' \notin {"counted", "request", "reg", "throttle"} /\ spc \notin {"reg", "throttle"}
  \/ spc = "counted" /\ spc' = "request" /\ UNCHANGED need_flush
  \/ spc = "reg" /\ spc' = "throttle" /\ UNCHANGED wbuf

\* A step other than write_req moves guards along, from the sender's hands to the
\* timer and from there to the receiver's item, and adds none.
LEMMA GuardsMove ==
  ASSUME Inv, [Next]_vars, ~WriteRequest
  PROVE  Guarded' \subseteq Guarded
<1>i. ContainersOK /\ Apart
  BY CountTypes DEF Inv, Core
<1>1. CASE /\ UNCHANGED containers /\ item' \subseteq item
           /\ (spc' = "reg" => spc = "reg" /\ cur' = cur)
  <2>1. Registered' = Registered
    BY <1>1, SameTimer
  <2> QED BY <1>1, <2>1 DEF Guarded
<1>2. CASE RegTask
  <2>1. /\ spc = "reg" /\ spc' = "throttle" /\ item' = item
        /\ UNCHANGED <<sent_tasks, delay_tasks_queue>>
    BY <1>2 DEF RegTask, readerVars
  <2>2. PICK t \in cur : reg_task(t)
    BY <1>2 DEF RegTask
  <2>3. t \in Task /\ t \notin Registered
    BY <2>2 DEF Inv, TypeOK, Core, HandsApart
  <2>4. Registered' = Registered \cup {t}
    BY <1>i, <2>1, <2>2, <2>3, RegStep
  <2> QED BY <2>1, <2>2, <2>4 DEF Guarded
<1>3. CASE Poll \/ RecvOneResp \/ WaitRegTask
  <2>1. /\ item' = item /\ spc' = spc /\ cur' = cur
        /\ UNCHANGED containers \/ (poll_sent_task /\ UNCHANGED delay_tasks_queue)
    BY <1>3 DEF Poll, RecvOneResp, WaitRegTask, containers, senderVars
  <2>2. Registered' = Registered
    BY <1>i, <2>1, SameTimer, DrainStep
  <2> QED BY <2>1, <2>2 DEF Guarded
<1>4. CASE Tick
  <2>1. item' = item /\ spc' = spc /\ cur' = cur /\ adjust_task_queue /\ UNCHANGED pending_tasks
    BY <1>4 DEF Tick, senderVars
  <2>2. Registered' \subseteq Registered
    BY <1>i, <2>1, AdjustStep, TaskTimeoutAssumption
  <2> QED BY <2>1, <2>2 DEF Guarded
<1>5. CASE TakeTask
  <2>1. /\ item' = held' /\ held' = take_task(rseq) /\ spc' = spc /\ cur' = cur
        /\ remove_task(held') /\ UNCHANGED pending_tasks
    BY <1>5 DEF TakeTask, senderVars
  <2>2. held' \subseteq InTimer
    BY <2>1 DEF take_task
  <2>3. Registered' = Registered \ held'
    BY <1>i, <2>1, <2>2, TakeStep
  <2> QED BY <2>1, <2>2, <2>3 DEF Guarded, Registered
<1>6. CASE CleanPendingTasks \/ DropInner
  <2>1. item' = item /\ spc' = spc /\ cur' = cur /\ clean_pending_tasks
    BY <1>6 DEF CleanPendingTasks, DropInner, senderVars
  <2>2. Registered' = {}
    BY <1>i, <2>1, CleanStep
  <2> QED BY <2>1, <2>2 DEF Guarded
<1>7. CASE \/ RecvRespBody \/ RecvBodyError \/ RecvAndDump \/ ReceiveLoopExit \/ EncodeError
           \/ CheckClosed \/ WriteError \/ WriteErrorCleanup
           \/ \E flush \in BOOLEAN : SendTask(flush)
  <2>1. /\ UNCHANGED containers /\ item' \subseteq item
        /\ (spc' = "reg" => spc = "reg" /\ cur' = cur)
    BY <1>7, Zenon DEF RecvRespBody, RecvBodyError, RecvAndDump, ReceiveLoopExit, EncodeError,
       CheckClosed, WriteError, WriteErrorCleanup, SendTask, containers, timerVars, senderVars,
       readerVars
  <2> QED BY <1>1, <2>1
<1>8. CASE Idle /\ ~RecvAndDump
  <2>1. /\ UNCHANGED containers /\ item' \subseteq item
        /\ (spc' = "reg" => spc = "reg" /\ cur' = cur)
    BY <1>8, Zenon DEF Idle, SendError, Throttle, FlushReq, FlushErrorFlags, Ping, SendPing,
         SetErrorAndExit, DropStream, DropStreamFlags, ReadHeader, ReadClosed,
         ReadHeaderError, RecvAndDump, Pending, ReceiveLoopError, PeerBody, Peer,
         Terminated, containers, timerVars, senderVars, readerVars, vars
  <2> QED BY <1>1, <2>1
<1>9. CASE UNCHANGED vars
  <2>1. UNCHANGED containers /\ item' = item /\ spc' = spc /\ cur' = cur
    BY <1>9 DEF vars, containers, timerVars, senderVars, readerVars
  <2> QED BY <1>1, <2>1
<1> QED
  BY <1>2, <1>3, <1>4, <1>5, <1>6, <1>7, <1>8, <1>9, SMTT(20)
     DEF Next, UserCall, SenderStep, ReaderStep, Idle

\* The steps that neither begin send_task, nor write a request, nor end the wait.
LEMMA PassingStep ==
  ASSUME [Next]_vars, ~WriteRequest, ~Throttle, ~\E flush \in BOOLEAN : SendTask(flush)
  PROVE  Passing
<1>1. CASE CheckClosed
  <2>1. spc = "counted" /\ spc' \in {"idle", "request"}
    BY <1>1 DEF CheckClosed
  <2>2. spc' = "request" => UNCHANGED <<results, pending_task_count, cur, need_flush>>
    BY <1>1, Zenon DEF CheckClosed
  <2> QED BY <2>1, <2>2 DEF Passing
<1>2. CASE EncodeError \/ SendError \/ WriteError \/ WriteErrorCleanup \/ FlushErrorFlags
           \/ Ping \/ SendPing \/ DropStream \/ DropStreamFlags
  <2>1. /\ spc' \in SenderPc \ {"counted", "request", "reg", "throttle"}
        /\ spc \notin {"reg", "throttle"}
    BY <1>2, Zenon DEF EncodeError, SendError, WriteError, WriteErrorCleanup, FlushErrorFlags,
       Ping, SendPing, DropStream, DropStreamFlags, SenderPc
  <2> QED BY <2>1 DEF Passing
<1>3. CASE RegTask
  BY <1>3 DEF RegTask, Passing, tcpVars
<1>4. CASE FlushReq
  <2>1. spc = "idle" /\ spc' \in {"idle", "flush_err"}
    BY <1>4 DEF FlushReq
  <2> QED BY <2>1 DEF Passing
<1>5. CASE SetErrorAndExit
  <2>1. spc = "idle" /\ spc' = "idle"
    BY <1>5 DEF SetErrorAndExit, senderVars
  <2> QED BY <2>1 DEF Passing
<1>6. CASE ReaderStep \/ Tick \/ PeerBody \/ Peer \/ Terminated \/ UNCHANGED vars
  <2>1. UNCHANGED <<spc, need_flush, wbuf>>
    BY <1>6, Zenon DEF ReaderStep, Poll, RecvOneResp, ReadHeader, ReadClosed, ReadHeaderError,
       WaitRegTask, TakeTask, RecvRespBody, RecvAndDump, RecvBodyError, Pending,
       ReceiveLoopError, CleanPendingTasks, ReceiveLoopExit, DropInner, Tick, PeerBody, Peer,
       PeerClose, PeerRespond, AbandonHeader, Terminated, vars, senderVars, tcpVars
  <2> QED BY <2>1 DEF Passing
<1> QED BY <1>1, <1>2, <1>3, <1>4, <1>5, <1>6, SMTT(20) DEF Next, UserCall, SenderStep

\* The registration channel never gets the same task twice.
LEMMA DistinctStep ==
  ASSUME Inv, [Next]_vars, IsInjective(pending_tasks)
  PROVE  IsInjective(pending_tasks')
<1>1. CASE UNCHANGED pending_tasks
  BY <1>1
<1>2. CASE pending_tasks' = <<>>
  BY <1>2, RangeEmpty
<1>3. CASE RegTask
  <2>1. PICK t \in cur : pending_tasks' = Append(pending_tasks, t)
    BY <1>3 DEF RegTask, reg_task
  <2>2. t \in Task /\ t \notin Range(pending_tasks)
    BY <2>1 DEF Inv, TypeOK, Core, HandsApart, Registered
  <2>3. pending_tasks \in Seq(Task)
    BY DEF Inv, TypeOK, TimerTypeOK
  <2> QED BY <2>1, <2>2, <2>3, InjAppend
<1>4. CASE Poll \/ RecvOneResp \/ WaitRegTask \/ CleanPendingTasks \/ DropInner
  <2>1. UNCHANGED pending_tasks \/ pending_tasks' = <<>>
    BY <1>4 DEF Poll, RecvOneResp, WaitRegTask, CleanPendingTasks, DropInner,
       clean_pending_tasks, poll_sent_task, DrainChannel
  <2> QED BY <1>1, <1>2, <2>1, SMTT(20)
<1>5. CASE \/ UserCall \/ (SenderStep /\ ~RegTask) \/ Tick \/ PeerBody \/ Peer
           \/ Terminated \/ UNCHANGED vars
  <2>1. UNCHANGED pending_tasks
    BY <1>5, Zenon DEF UserCall, SendTask, FlushReq, Ping, SetErrorAndExit, DropStream, SenderStep,
       CheckClosed, WriteRequest, EncodeError, SendError, WriteError, WriteErrorCleanup,
       Throttle, FlushErrorFlags, SendPing, DropStreamFlags, Tick, PeerBody, Peer, Terminated,
       vars, timerVars
  <2> QED BY <1>1, <2>1
<1>6. CASE \/ ReadHeader \/ ReadClosed \/ ReadHeaderError \/ TakeTask \/ RecvRespBody
           \/ RecvAndDump \/ RecvBodyError \/ Pending \/ ReceiveLoopError \/ ReceiveLoopExit
  <2>1. UNCHANGED pending_tasks
    BY <1>6, Zenon DEF ReadHeader, ReadClosed, ReadHeaderError, TakeTask, RecvRespBody, RecvAndDump,
       RecvBodyError, Pending, ReceiveLoopError, ReceiveLoopExit, timerVars
  <2> QED BY <1>1, <2>1
<1> QED BY <1>3, <1>4, <1>5, <1>6 DEF Next, ReaderStep, SenderStep

--------------------------------------------------------------------------------
(* The ledger. *)

\* The shared state is freed only after the ClientStream was dropped.
Freed == rpc = "freed" => spc = "gone"

\* The parts of the state the ledger looks at.
ledger == <<submitted, results, dropped, rpc>>

\* Once freed, a connection does nothing its user could see.
LEMMA FreedStep ==
  ASSUME Freed, rpc = "freed", [Next]_vars
  PROVE  UNCHANGED ledger /\ Freed'
<1>1. spc = "gone"
  BY DEF Freed
<1>2. ~UserCall /\ ~SenderStep
  BY <1>1 DEF UserCall, SendTask, FlushReq, Ping, SetErrorAndExit, DropStream, SenderStep,
     CheckClosed, WriteRequest, EncodeError, SendError, WriteError, WriteErrorCleanup, RegTask,
     Throttle, FlushErrorFlags, SendPing, DropStreamFlags
<1>3. ~ReaderStep /\ ~Tick /\ ~PeerBody
  BY DEF ReaderStep, Poll, RecvOneResp, ReadHeader, ReadClosed, ReadHeaderError, WaitRegTask,
     TakeTask, RecvRespBody, RecvAndDump, RecvBodyError, Pending, ReceiveLoopError,
     CleanPendingTasks, ReceiveLoopExit, DropInner, Tick, PeerBody, Awaiting
<1>4. UNCHANGED <<taskVars, senderVars, readerVars>>
  BY <1>2, <1>3 DEF Next, Peer, Terminated, vars
<1> QED BY <1>1, <1>4 DEF ledger, Freed, taskVars, senderVars, readerVars

LEMMA FreedInductive ==
  ASSUME Freed, [Next]_vars
  PROVE  Freed'
<1>1. CASE rpc = "freed"
  BY <1>1, FreedStep
<1>2. CASE rpc # "freed" /\ ~DropInner
  <2>1. rpc' # "freed"
    BY <1>2, Zenon DEF Next, UserCall, SendTask, FlushReq, Ping, SetErrorAndExit, DropStream, SenderStep,
       CheckClosed, WriteRequest, EncodeError, SendError, WriteError, WriteErrorCleanup, RegTask,
       Throttle, FlushErrorFlags, SendPing, DropStreamFlags, ReaderStep, Poll, RecvOneResp,
       ReadHeader, ReadClosed, ReadHeaderError, WaitRegTask, TakeTask, RecvRespBody, RecvAndDump,
       RecvBodyError, Pending, ReceiveLoopError, CleanPendingTasks, ReceiveLoopExit, Tick,
       PeerBody, Peer, Terminated, Awaiting, vars, readerVars
  <2> QED BY <2>1, SMTT(20) DEF Freed
<1>3. CASE DropInner
  BY <1>3 DEF DropInner, Freed, senderVars
<1> QED BY <1>1, <1>2, <1>3

\* A task some part of the connection still owes is owed in the ledger.
LEMMA OwedTasks ==
  ASSUME Inv
  PROVE  /\ Outstanding \subseteq Ledger!Owed
         /\ (Outstanding = {} => Ledger!Owed = {})
         /\ \A t \in Outstanding : results[t] = <<>> /\ t \notin dropped
<1>1. Outstanding \subseteq Task
  <2>1. Registered \subseteq Task
    BY CountTypes, DelayedElem DEF Inv
  <2> QED BY <2>1 DEF Inv, TypeOK, Outstanding
<1>2. submitted \in 0 .. MaxTasks /\ \A t \in Task : t \in Nat
  BY MaxTasksAssumption DEF Inv, TypeOK, Task
<1>3. ASSUME NEW t \in Outstanding
      PROVE  t \in Ledger!Owed /\ results[t] = <<>> /\ t \notin dropped
  <2>1. t \in Task /\ t <= submitted /\ results[t] = <<>> /\ t \notin dropped
    BY <1>1, <1>2, <1>3 DEF Inv, Core, TaskConserved
  <2>2. t \in 1 .. submitted
    BY <1>2, <2>1 DEF Task
  <2>3. Verdict(t) = "none"
    BY <2>1 DEF Verdict
  <2> QED BY <2>1, <2>2, <2>3 DEF Ledger!Owed
<1>4. ASSUME Outstanding = {}, NEW t \in 1 .. submitted, [u \in Task |-> Verdict(u)][t] = "none"
      PROVE  FALSE
  <2>1. t \in Task /\ t <= submitted
    BY <1>2, MaxTasksAssumption DEF Task
  <2>2. Verdict(t) = "none"
    BY <1>4, <2>1
  <2>3. \/ t \in dropped
        \/ t \notin dropped /\ Len(results[t]) = 1 /\ results[t] \in Seq(Outcome)
    BY <1>4, <2>1 DEF Inv, Core, TaskConserved, TypeOK, TaskTypeOK
  <2>4. CASE t \in dropped
    BY <2>2, <2>4 DEF Verdict
  <2>5. CASE t \notin dropped /\ Len(results[t]) = 1 /\ results[t] \in Seq(Outcome)
    <3>1. results[t] # <<>> /\ results[t][Len(results[t])] \in Outcome
      BY <2>5, SMTT(20)
    <3>2. Verdict(t) = results[t][Len(results[t])]
      BY <2>5, <3>1 DEF Verdict
    <3> QED BY <2>2, <3>1, <3>2 DEF Outcome
  <2> QED BY <2>3, <2>4, <2>5
<1> QED BY <1>3, <1>4, Zenon DEF Ledger!Owed

\* The ledger's view of the tasks.
verdicts == [t \in Task |-> Verdict(t)]

\* Completing tasks that are outstanding settles them in the ledger.
LEMMA LedgerSettle ==
  ASSUME Inv, NEW S, S \subseteq Outstanding, NEW o \in Outcome, Complete(S, o),
         UNCHANGED <<submitted, dropped>>, rpc # "freed", rpc' # "freed"
  PROVE  Ledger!Next
<1>1. S \in SUBSET Ledger!Owed /\ \A t \in S : results[t] = <<>> /\ t \notin dropped
  BY OwedTasks
<1>2. ASSUME NEW t \in Task
      PROVE  Verdict(t)' = IF t \in S THEN o ELSE Verdict(t)
  <2>1. CASE t \in S
    <3>1. /\ results'[t] = Append(results[t], o) /\ t \notin dropped'
          /\ results[t] = <<>> /\ results[t] \in Seq(Outcome)
      <4>1. results[t] \in Seq(Outcome)
        BY DEF Inv, TypeOK, TaskTypeOK
      <4>2. results'[t] = Append(results[t], o)
        BY <2>1 DEF Complete
      <4> QED BY <1>1, <2>1, <4>1, <4>2
    <3>2. /\ Append(results[t], o) \in Seq(Outcome) /\ Len(Append(results[t], o)) = 1
          /\ Append(results[t], o)[1] = o
      BY <3>1
    <3>3. results'[t] # <<>> /\ results'[t][Len(results'[t])] = o
      BY <3>1, <3>2
    <3> QED BY <2>1, <3>1, <3>3 DEF Verdict
  <2>2. CASE t \notin S
    <3>1. results'[t] = results[t]
      BY <2>2 DEF Complete
    <3> QED BY <2>2, <3>1 DEF Verdict
  <2> QED BY <2>1, <2>2
<1>3. verdicts' = [t \in 1 .. MaxTasks |-> IF t \in S THEN o ELSE verdicts[t]]
  BY <1>2 DEF verdicts, Task
<1>4. Ledger!Settle(S, o)
  BY <1>3 DEF Ledger!Settle, verdicts
<1> QED BY <1>1, <1>4 DEF Ledger!Next, Outcome

\* Destroying an outstanding task settles it as lost.
LEMMA LedgerLose ==
  ASSUME Inv, NEW S, S \subseteq Outstanding, dropped' = dropped \cup S,
         UNCHANGED <<submitted, results>>, rpc # "freed", rpc' # "freed"
  PROVE  Ledger!Next
<1>1. S \in SUBSET Ledger!Owed
  BY OwedTasks
<1>2. \A t \in Task : Verdict(t)' = IF t \in S THEN "lost" ELSE Verdict(t)
  BY DEF Verdict
<1>3. verdicts' = [t \in 1 .. MaxTasks |-> IF t \in S THEN "lost" ELSE verdicts[t]]
  BY <1>2 DEF verdicts, Task
<1>4. Ledger!Settle(S, "lost")
  BY <1>3 DEF Ledger!Settle, verdicts
<1> QED BY <1>1, <1>4 DEF Ledger!Next

\* Steps the ledger does not see.
LEMMA LedgerStutter ==
  ASSUME UNCHANGED <<submitted, results, dropped>>, rpc' = "freed" <=> rpc = "freed"
  PROVE  UNCHANGED Ledger!ledgerVars
<1>1. \A t \in Task : Verdict(t)' = Verdict(t)
  BY DEF Verdict
<1>2. verdicts' = verdicts
  BY <1>1 DEF verdicts
<1>3. (rpc # "freed")' = (rpc # "freed")
  OBVIOUS
<1> QED BY <1>2, <1>3 DEF Ledger!ledgerVars, verdicts

\* The steps that complete no task, take none over and free nothing.
LEMMA QuietStep ==
  ASSUME rpc # "freed",
         \/ Idle \/ Poll \/ RecvOneResp \/ WaitRegTask \/ TakeTask \/ RegTask
         \/ WriteRequest \/ WriteError \/ UNCHANGED vars
  PROVE  UNCHANGED Ledger!ledgerVars
<1>1. UNCHANGED <<submitted, results, dropped>>
  BY Zenon DEF Idle, SendError, Throttle, FlushReq, FlushErrorFlags, Ping, SendPing,
     SetErrorAndExit, DropStream, DropStreamFlags, ReadHeader, ReadClosed, ReadHeaderError,
     RecvAndDump, Pending, ReceiveLoopError, PeerBody, Peer, Terminated, Poll, RecvOneResp,
     WaitRegTask, TakeTask, RegTask, WriteRequest, WriteError, vars, taskVars, senderVars
<1>2. rpc' # "freed"
  BY Zenon DEF Idle, SendError, Throttle, FlushReq, FlushErrorFlags, Ping, SendPing,
     SetErrorAndExit, DropStream, DropStreamFlags, ReadHeader, ReadClosed, ReadHeaderError,
     RecvAndDump, Pending, ReceiveLoopError, PeerBody, Peer, Terminated, Poll, RecvOneResp,
     WaitRegTask, TakeTask, RegTask, WriteRequest, WriteError, vars, readerVars
<1> QED BY <1>1, <1>2, LedgerStutter

\* Every step of the connection is a step of the ledger or invisible in it.
LEMMA LedgerStep ==
  ASSUME Inv, Freed, [Next]_vars
  PROVE  [Ledger!Next]_(Ledger!ledgerVars)
<1>1. CASE rpc = "freed"
  BY <1>1, FreedStep, LedgerStutter, SMTT(20) DEF ledger
<1>2. CASE rpc # "freed"
  <2>1. CASE \E flush \in BOOLEAN : SendTask(flush)
    <3>1. /\ submitted < MaxTasks /\ submitted' = submitted + 1
          /\ UNCHANGED <<results, dropped, rpc>>
      BY <2>1 DEF SendTask, taskVars, readerVars
    <3>2. \A t \in Task : Verdict(t)' = Verdict(t)
      BY <3>1 DEF Verdict
    <3>3. verdicts' = verdicts
      BY <3>2 DEF verdicts
    <3>4. Ledger!Submit
      BY <1>2, <3>1, <3>3 DEF Ledger!Submit, verdicts
    <3> QED BY <3>4 DEF Ledger!Next
  <2>2. CASE CheckClosed
    <3>1. UNCHANGED <<submitted, dropped, rpc>>
      BY <2>2 DEF CheckClosed, readerVars
    <3>2. Complete(cur, "io") \/ UNCHANGED results
      BY <2>2, Zenon DEF CheckClosed
    <3> QED BY <1>2, <3>1, <3>2, LedgerSettle, LedgerStutter, SMTT(20) DEF Outcome, Outstanding
  <2>3. CASE WriteErrorCleanup
    <3>1. UNCHANGED <<submitted, dropped, rpc>> /\ (Complete(cur, "io") \/ UNCHANGED results)
      BY <2>3 DEF WriteErrorCleanup, readerVars
    <3> QED BY <1>2, <3>1, LedgerSettle, LedgerStutter DEF Outcome, Outstanding
  <2>4. CASE Tick
    <3>1. UNCHANGED <<submitted, dropped, rpc, pending_tasks>> /\ adjust_task_queue
      BY <2>4 DEF Tick, senderVars
    <3>2. Expired \subseteq Registered
      BY <3>1, AdjustStep, CountTypes, TaskTimeoutAssumption DEF Inv, Core
    <3>3. Complete(Expired, "timeout")
      BY <3>1 DEF adjust_task_queue
    <3> QED BY <1>2, <3>1, <3>2, <3>3, LedgerSettle, SMTT(20) DEF Outcome, Outstanding
  <2>5. CASE RecvRespBody \/ RecvBodyError
    <3>1. UNCHANGED <<submitted, dropped>> /\ rpc' # "freed"
      BY <2>5 DEF RecvRespBody, RecvBodyError, senderVars
    <3>2. \E o \in Outcome : Complete(held, o)
      BY <2>5 DEF RecvRespBody, RecvBodyError, Outcome
    <3> QED BY <1>2, <3>1, <3>2, LedgerSettle DEF Outstanding
  <2>6. CASE CleanPendingTasks
    <3>1. UNCHANGED <<submitted, dropped>> /\ rpc' # "freed" /\ Complete(Registered, "io")
      BY <2>6 DEF CleanPendingTasks, clean_pending_tasks, senderVars
    <3> QED BY <1>2, <3>1, LedgerSettle DEF Outcome, Outstanding
  <2>7. CASE EncodeError
    <3>1. UNCHANGED <<submitted, results, rpc>> /\ dropped' = dropped \cup cur
      BY <2>7 DEF EncodeError, readerVars
    <3> QED BY <1>2, <3>1, LedgerLose DEF Outstanding
  <2>8. CASE ReceiveLoopExit
    <3>1. UNCHANGED <<submitted, results>> /\ rpc' # "freed" /\ dropped' = dropped \cup held
      BY <2>8 DEF ReceiveLoopExit, senderVars
    <3> QED BY <1>2, <3>1, LedgerLose DEF Outstanding
  <2>9. CASE DropInner
    <3>1. /\ spc = "gone" /\ rpc = "gone" /\ rpc' = "freed" /\ UNCHANGED <<submitted, dropped>>
          /\ Complete(Registered, "io")
      BY <2>9 DEF DropInner, clean_pending_tasks, senderVars
    <3>2. cur = {} /\ held = {} /\ Registered = {}
      BY <3>1 DEF Inv, Core, CurShape, HeldShape, NothingStranded, Carrying
    <3>3. Ledger!Owed = {}
      BY <3>2, OwedTasks DEF Outstanding
    <3>4. \A t \in Task : results'[t] = results[t]
      BY <3>1, <3>2 DEF Complete
    <3>5. \A t \in Task : Verdict(t)' = Verdict(t)
      BY <3>1, <3>4 DEF Verdict
    <3>6. verdicts' = verdicts
      BY <3>5 DEF verdicts
    <3>7. Ledger!Free
      BY <3>1, <3>3, <3>6 DEF Ledger!Free, verdicts
    <3> QED BY <3>7 DEF Ledger!Next
  <2>10. CASE \/ Idle \/ Poll \/ RecvOneResp \/ WaitRegTask \/ TakeTask \/ RegTask
              \/ WriteRequest \/ WriteError \/ UNCHANGED vars
    BY <1>2, <2>10, QuietStep
  <2> QED
    BY <2>1, <2>2, <2>3, <2>4, <2>5, <2>6, <2>7, <2>8, <2>9, <2>10, SMTT(20)
       DEF Next, UserCall, SenderStep, ReaderStep, Idle
<1> QED BY <1>1, <1>2

LEMMA LedgerInit == Init => Ledger!Init
<1> SUFFICES ASSUME Init PROVE Ledger!Init
  OBVIOUS
<1>1. \A t \in Task : Verdict(t) = "none"
  BY DEF Init, TaskInit, Verdict
<1>2. verdicts = [t \in 1 .. MaxTasks |-> "none"]
  BY <1>1 DEF verdicts, Task
<1>3. submitted = 0 /\ rpc # "freed"
  BY DEF Init
<1> QED BY <1>2, <1>3 DEF Ledger!Init, verdicts

--------------------------------------------------------------------------------
(* The ages of tasks. *)

\* A task in the i-th batch of the delay queue was registered at least i ticks
\* ago, and no batch stays longer than task_timeout ticks.
Aging ==
  \A i \in DOMAIN delay_tasks_queue :
    i <= TaskTimeout /\ \A t \in delay_tasks_queue[i] : age[t] >= i

\* The oldest batch, which adjust_task_queue pops, is task_timeout ticks old.
LEMMA ExpiredAged ==
  ASSUME Inv, Aging, NEW t \in Expired
  PROVE  age[t] >= TaskTimeout
<1> DEFINE q == delay_tasks_queue
           n == Len(q)
<1>1. q \in Seq(SUBSET Task) /\ n \in Nat /\ DOMAIN q = 1 .. n /\ TaskTimeout \in Nat
  BY TaskTimeoutAssumption DEF Inv, TypeOK, TimerTypeOK
<1>2. sent_tasks \in SUBSET Task /\ age \in [Task -> Nat]
  BY SMTT(20) DEF Inv, TypeOK, TimerTypeOK
<1>3. Len(Pushed) = n + 1 /\ \A i \in 1 .. n : Pushed[i + 1] = q[i]
  BY <1>1, <1>2 DEF Pushed
<1>4. TooLong /\ t \in Pushed[Len(Pushed)]
  BY DEF Expired
<1>5. n + 1 > TaskTimeout /\ t \in Pushed[n + 1]
  BY <1>3, <1>4 DEF TooLong
<1>6. CASE n = 0
  <2>1. TaskTimeout = 0 /\ Pushed[1] = sent_tasks
    BY <1>1, <1>2, <1>5, <1>6 DEF Pushed
  <2>2. t \in sent_tasks
    BY <1>5, <1>6, <2>1
  <2> QED BY <1>2, <2>1, <2>2
<1>7. CASE n # 0
  <2>1. n \in 1 .. n
    BY <1>1, <1>7
  <2>2. t \in q[n]
    BY <1>3, <1>5, <2>1
  <2>3. n <= TaskTimeout /\ age[t] >= n
    BY <1>1, <2>1, <2>2 DEF Aging
  <2>4. n = TaskTimeout
    BY <1>1, <1>5, <2>3
  <2> QED BY <2>3, <2>4
<1> QED BY <1>6, <1>7

\* A tick ages every task by one, and every batch by one place.
LEMMA TickAging ==
  ASSUME Inv, Aging, Tick
  PROVE  Aging'
<1> DEFINE q == delay_tasks_queue
           n == Len(q)
<1>1. q \in Seq(SUBSET Task) /\ n \in Nat /\ DOMAIN q = 1 .. n /\ TaskTimeout \in Nat
  BY TaskTimeoutAssumption DEF Inv, TypeOK, TimerTypeOK
<1>2. sent_tasks \in SUBSET Task /\ age \in [Task -> Nat]
  BY DEF Inv, TypeOK, TimerTypeOK
<1>3. /\ Pushed \in Seq(SUBSET Task) /\ Len(Pushed) = n + 1 /\ Pushed[1] = sent_tasks
      /\ \A i \in 1 .. n : Pushed[i + 1] = q[i]
  BY <1>1, <1>2 DEF Pushed
<1>4. /\ delay_tasks_queue' = IF TooLong THEN SubSeq(Pushed, 1, Len(Pushed) - 1) ELSE Pushed
      /\ age' = [t \in Task |-> CASE t \notin Registered \ Expired -> 0
                                [] t \in Registered \ Expired /\ age[t] < AgeCap -> age[t] + 1
                                [] OTHER -> age[t]]
  BY DEF Tick, adjust_task_queue
<1>5. \A t \in Registered \ Expired :
        t \in Task /\ age'[t] = IF age[t] < AgeCap THEN age[t] + 1 ELSE age[t]
  <2>1. Registered \subseteq Task
    BY CountTypes, DelayedElem DEF Inv
  <2> QED BY <1>4, <2>1
<1>6. \A i \in DOMAIN delay_tasks_queue' :
        i \in 1 .. n + 1 /\ i <= TaskTimeout /\ delay_tasks_queue'[i] = Pushed[i]
  <2>1. CASE TooLong
    <3>1. /\ delay_tasks_queue' = SubSeq(Pushed, 1, Len(Pushed) - 1) /\ DOMAIN SubSeq(Pushed, 1, Len(Pushed) - 1) = 1 .. n
          /\ \A i \in 1 .. n : SubSeq(Pushed, 1, Len(Pushed) - 1)[i] = Pushed[i]
      BY <1>1, <1>3, <1>4, <2>1
    <3>2. \A i \in 1 .. n : i <= TaskTimeout
      BY <1>1 DEF Aging
    <3> QED BY <1>1, <3>1, <3>2
  <2>2. CASE ~TooLong
    <3>1. delay_tasks_queue' = Pushed /\ n + 1 <= TaskTimeout /\ DOMAIN Pushed = 1 .. n + 1
      BY <1>1, <1>3, <1>4, <2>2 DEF TooLong
    <3> QED BY <1>1, <3>1
  <2> QED BY <2>1, <2>2
<1>7. ASSUME NEW i \in DOMAIN delay_tasks_queue', NEW t \in delay_tasks_queue'[i]
      PROVE  age'[t] >= i
  <2>1. i \in 1 .. n + 1 /\ i <= TaskTimeout /\ t \in Pushed[i]
    BY <1>6
  <2>2. t \in Registered \ Expired
    <3>1. Registered' = Registered \ Expired
      BY AdjustStep, CountTypes, TaskTimeoutAssumption DEF Tick, Inv, Core
    <3>2. t \in Registered'
      BY DEF Registered, InTimer, Delayed, Range
    <3> QED BY <3>1, <3>2
  <2>3. CASE i = 1
    BY <1>1, <1>2, <1>5, <2>2, <2>3 DEF AgeCap
  <2>4. CASE i # 1
    <3>1. i - 1 \in 1 .. n /\ t \in q[i - 1]
      BY <1>1, <1>3, <2>1, <2>4
    <3>2. age[t] \in Nat /\ age[t] >= i - 1
      BY <1>1, <1>2, <1>5, <2>2, <3>1, SMTT(20) DEF Aging
    <3> QED BY <1>1, <1>5, <2>1, <2>2, <3>2 DEF AgeCap
  <2> QED BY <2>3, <2>4
<1> QED BY <1>6, <1>7 DEF Aging

\* Nothing but a tick changes the age of a task in the queue.
LEMMA AgingStep ==
  ASSUME Inv, Aging, [Next]_vars
  PROVE  Aging'
<1>1. CASE UNCHANGED <<delay_tasks_queue, age>>
  BY <1>1 DEF Aging
<1>2. CASE Tick
  BY <1>2, TickAging
<1>3. CASE RegTask
  <2>1. PICK u \in cur : reg_task(u)
    BY <1>3 DEF RegTask
  <2>2. u \notin Registered /\ UNCHANGED delay_tasks_queue /\ age' = [age EXCEPT ![u] = 0]
    BY <1>3, <2>1, Zenon DEF RegTask, reg_task, Inv, Core, HandsApart
  <2>3. \A i \in DOMAIN delay_tasks_queue : u \notin delay_tasks_queue[i]
    BY <2>2, CountTypes, DelayedElem DEF Registered, InTimer, Inv
  <2>4. age \in [Task -> Nat]
    BY DEF Inv, TypeOK, TimerTypeOK
  <2>5. \A i \in DOMAIN delay_tasks_queue : \A t \in delay_tasks_queue[i] : age'[t] = age[t]
    <3>1. \A i \in DOMAIN delay_tasks_queue : \A t \in delay_tasks_queue[i] : t \in Task
      BY DEF Inv, TypeOK, TimerTypeOK
    <3> QED BY <2>2, <2>3, <2>4, <3>1
  <2> QED BY <2>2, <2>5 DEF Aging
<1>4. CASE TakeTask \/ CleanPendingTasks \/ DropInner
  <2>1. PICK S : /\ Forget(S) /\ DOMAIN delay_tasks_queue' = DOMAIN delay_tasks_queue
                 /\ \A i \in DOMAIN delay_tasks_queue :
                      delay_tasks_queue'[i] \subseteq delay_tasks_queue[i] \ S
    <3>1. CASE TakeTask
      BY <3>1 DEF TakeTask, remove_task
    <3>2. CASE CleanPendingTasks \/ DropInner
      BY <3>2 DEF CleanPendingTasks, DropInner, clean_pending_tasks
    <3> QED BY <1>4, <3>1, <3>2
  <2>2. \A i \in DOMAIN delay_tasks_queue : \A t \in delay_tasks_queue[i] : t \in Task
    BY DEF Inv, TypeOK, TimerTypeOK
  <2>3. \A i \in DOMAIN delay_tasks_queue : \A t \in delay_tasks_queue'[i] : age'[t] = age[t]
    BY <2>1, <2>2 DEF Forget
  <2> QED BY <2>1, <2>3 DEF Aging
<1>5. CASE \/ UserCall \/ (SenderStep /\ ~RegTask) \/ PeerBody \/ Peer \/ Terminated
           \/ UNCHANGED vars
  <2>1. UNCHANGED <<delay_tasks_queue, age>>
    BY <1>5, Zenon DEF UserCall, SendTask, FlushReq, Ping, SetErrorAndExit, DropStream, SenderStep,
       CheckClosed, WriteRequest, EncodeError, SendError, WriteError, WriteErrorCleanup,
       Throttle, FlushErrorFlags, SendPing, DropStreamFlags, PeerBody, Peer, Terminated,
       vars, timerVars
  <2> QED BY <1>1, <2>1
<1>6. CASE \/ Poll \/ RecvOneResp \/ WaitRegTask \/ ReadHeader \/ ReadClosed
           \/ ReadHeaderError \/ RecvRespBody \/ RecvAndDump \/ RecvBodyError \/ Pending
           \/ ReceiveLoopError \/ ReceiveLoopExit
  <2>1. UNCHANGED <<delay_tasks_queue, age>>
    BY <1>6, Zenon DEF Poll, RecvOneResp, WaitRegTask, ReadHeader, ReadClosed, ReadHeaderError,
       RecvRespBody, RecvAndDump, RecvBodyError, Pending, ReceiveLoopError, ReceiveLoopExit,
       timerVars
  <2> QED BY <1>1, <2>1
<1> QED BY <1>2, <1>3, <1>4, <1>5, <1>6, SMTT(20) DEF Next, ReaderStep, SenderStep

\* A completion with another outcome is no timeout.
LEMMA OtherOutcome ==
  ASSUME Inv, NEW S, NEW o \in Outcome \ {"timeout"}, Complete(S, o), NEW t \in Task,
         results'[t] # results[t]
  PROVE  results'[t][Len(results'[t])] # "timeout"
<1>1. results'[t] = Append(results[t], o) /\ results[t] \in Seq(Outcome)
  BY DEF Complete, Inv, TypeOK, TaskTypeOK
<1>2. /\ Len(Append(results[t], o)) = Len(results[t]) + 1
      /\ Append(results[t], o)[Len(results[t]) + 1] = o
  BY <1>1, SMTT(20)
<1> QED BY <1>1, <1>2

--------------------------------------------------------------------------------
(* The end of a connection. *)

\* A connection that is closed while it is still being read has no sender on
\* its way to the registration channel, so a read that began after the close
\* (header reads with read_timeout) began with the channel drained for good.
Closing ==
  /\ (rpc \in Awaiting /\ closed => spc \notin {"request", "reg"})
  /\ (~close_tx => spc \in {"drop", "drop_flag", "gone"})
  /\ (rpc = "hdr_timed" => closed /\ pending_tasks = <<>>)

\* During such a read every tick leaves one more batch empty behind it.
Fading ==
  rpc = "hdr_timed" =>
    /\ (read_ticks # 0 => sent_tasks = {})
    /\ \A i \in DOMAIN delay_tasks_queue : i < read_ticks => delay_tasks_queue[i] = {}

\* The sender checks closed before it goes on to register, and every other step
\* that sets closed finds it elsewhere.
LEMMA ClosingStep ==
  ASSUME Inv, Closing, [Next]_vars
  PROVE  Closing'
<1> USE DEF Closing
<1>1. CASE UNCHANGED <<rpc, closed, close_tx, spc, pending_tasks>>
  BY <1>1
<1>2. CASE \/ \E flush \in BOOLEAN : SendTask(flush)
           \/ Ping \/ SetErrorAndExit \/ DropStream \/ Throttle
  <2>1. /\ UNCHANGED <<rpc, closed, pending_tasks>>
        /\ spc' \notin {"request", "reg"} \/ UNCHANGED spc
        /\ spc \notin {"drop", "drop_flag", "gone"}
        /\ UNCHANGED close_tx \/ spc' = "drop"
    BY <1>2 DEF SendTask, Ping, SetErrorAndExit, DropStream, Throttle, readerVars, flags,
       timerVars, senderVars
  <2> QED BY <2>1, SMTT(20)
<1>3. CASE CheckClosed \/ EncodeError \/ WriteRequest
  <2>1. /\ UNCHANGED <<rpc, closed, close_tx, pending_tasks>>
        /\ spc' \in {"request", "reg"} => ~closed \/ spc \in {"request", "reg"}
        /\ spc \notin {"drop", "drop_flag", "gone"}
    BY <1>3 DEF CheckClosed, EncodeError, WriteRequest, readerVars, flags, timerVars
  <2> QED BY <2>1
<1>4. CASE \/ SendError \/ WriteError \/ WriteErrorCleanup \/ FlushReq
           \/ FlushErrorFlags \/ SendPing \/ DropStreamFlags
  <2>1. /\ UNCHANGED <<rpc, close_tx, pending_tasks>>
        /\ closed => closed'
        /\ spc' \notin {"request", "reg"}
        /\ spc \in {"drop", "drop_flag", "gone"} => spc' \in {"drop", "drop_flag", "gone"}
    BY <1>4, Zenon DEF SendError, WriteError, WriteErrorCleanup, FlushReq, FlushErrorFlags, SendPing,
       DropStreamFlags, readerVars, flags, timerVars
  <2> QED BY <2>1
<1>5. CASE RegTask
  <2>1. UNCHANGED <<rpc, closed, close_tx>> /\ spc = "reg" /\ spc' = "throttle"
    BY <1>5, Zenon DEF RegTask, readerVars, flags
  <2>2. rpc # "hdr_timed"
    BY <2>1 DEF Awaiting
  <2> QED BY <2>1, <2>2
<1>6. CASE Poll \/ RecvOneResp \/ WaitRegTask
  <2>1. /\ UNCHANGED <<closed, close_tx, spc>> /\ rpc \in Awaiting
        /\ UNCHANGED pending_tasks \/ pending_tasks' = <<>>
        /\ rpc' = "hdr_timed" => closed /\ pending_tasks' = <<>>
    BY <1>6 DEF Poll, RecvOneResp, WaitRegTask, poll_sent_task, DrainChannel, senderVars, flags,
       Awaiting
  <2> QED BY <2>1, SMTT(20)
<1>7. CASE \/ ReadHeader \/ TakeTask \/ RecvRespBody \/ RecvAndDump \/ RecvBodyError
           \/ Pending \/ Tick \/ PeerBody
  <2>1. /\ UNCHANGED <<closed, close_tx, spc, pending_tasks>> /\ rpc \in Awaiting
        /\ rpc' = "hdr_timed" => UNCHANGED rpc
    BY <1>7 DEF ReadHeader, TakeTask, RecvRespBody, RecvAndDump, RecvBodyError, Pending, Tick,
       PeerBody, senderVars, flags, timerVars, Awaiting
  <2> QED BY <2>1, SMTT(20)
<1>8. CASE ReadClosed
  <2>1. UNCHANGED <<close_tx, spc>> /\ ~close_tx /\ rpc' = "loop"
    BY <1>8, Zenon DEF ReadClosed, senderVars
  <2> QED BY <2>1
<1>9. CASE \/ ReadHeaderError \/ ReceiveLoopError \/ CleanPendingTasks \/ ReceiveLoopExit
           \/ DropInner
  <2>1. UNCHANGED <<close_tx, spc>> /\ rpc' \in {"failed", "clean", "spin", "gone", "freed"}
    BY <1>9 DEF ReadHeaderError, ReceiveLoopError, CleanPendingTasks, ReceiveLoopExit, DropInner,
       senderVars, flags
  <2> QED BY <2>1, SMTT(20) DEF Awaiting
<1>10. CASE Peer \/ Terminated \/ UNCHANGED vars
  <2>1. UNCHANGED <<rpc, closed, close_tx, spc, pending_tasks>>
    BY <1>10, Zenon DEF Peer, Terminated, vars, timerVars, flags, senderVars, readerVars
  <2> QED BY <1>1, <2>1
<1> QED BY <1>2, <1>3, <1>4, <1>5, <1>6, <1>7, <1>8, <1>9, <1>10, SMTT(20)
        DEF Next, UserCall, SenderStep, ReaderStep

\* A tick moves what was sent before the read one batch further.
LEMMA TickFading ==
  ASSUME Inv, Fading, Tick
  PROVE  Fading'
<1> SUFFICES ASSUME rpc' = "hdr_timed" PROVE Fading'
  BY DEF Fading
<1>1. rpc = "hdr_timed" /\ adjust_task_queue /\ sent_tasks' = {}
  BY DEF Tick, adjust_task_queue
<1>2. read_ticks \in Nat /\ read_ticks' \in {read_ticks, read_ticks + 1}
  BY DEF Tick, Inv, TypeOK
<1>3. ASSUME NEW i \in DOMAIN delay_tasks_queue', i < read_ticks'
      PROVE  delay_tasks_queue'[i] = {}
  <2>1. Len(delay_tasks_queue) \in Nat /\ i \in 1 .. Len(delay_tasks_queue) + 1 /\ delay_tasks_queue'[i] = Pushed[i]
    BY <1>1, <1>3, TickQueue
  <2>2. CASE i = 1
    <3>1. read_ticks # 0
      BY <1>2, <1>3, <2>2
    <3>2. Pushed[1] = sent_tasks /\ sent_tasks = {}
      BY <1>1, <3>1, TickQueue DEF Fading
    <3> QED BY <2>1, <2>2, <3>2
  <2>3. CASE i # 1
    <3>1. i - 1 \in 1 .. Len(delay_tasks_queue) /\ i - 1 < read_ticks /\ i = (i - 1) + 1
      BY <1>2, <1>3, <2>1, <2>3
    <3>2. Pushed[(i - 1) + 1] = delay_tasks_queue[i - 1] /\ i - 1 \in DOMAIN delay_tasks_queue
      BY <1>1, <3>1, TickQueue
    <3>3. delay_tasks_queue[i - 1] = {}
      BY <1>1, <3>1, <3>2 DEF Fading
    <3> QED BY <2>1, <3>1, <3>2, <3>3, SMTT(20)
  <2> QED BY <2>2, <2>3
<1> QED BY <1>1, <1>3 DEF Fading

\* Nothing else adds to a batch while that read lasts.
LEMMA FadingStep ==
  ASSUME Inv, Closing, Fading, [Next]_vars
  PROVE  Fading'
<1>1. CASE UNCHANGED <<rpc, read_ticks, sent_tasks, delay_tasks_queue>>
  BY <1>1 DEF Fading
<1>2. CASE rpc' # "hdr_timed"
  BY <1>2 DEF Fading
<1>3. CASE Tick
  BY <1>3, TickFading
<1>4. CASE RecvOneResp
  <2>1. read_ticks' = 0 /\ UNCHANGED delay_tasks_queue
    BY <1>4, Zenon DEF RecvOneResp
  <2>2. \A i \in DOMAIN delay_tasks_queue : ~(i < 0)
    BY DEF Inv, TypeOK, TimerTypeOK
  <2> QED BY <2>1, <2>2 DEF Fading
<1>5. CASE Poll
  <2>1. UNCHANGED <<read_ticks, delay_tasks_queue>> /\ rpc' \in {rpc, "failed"}
    BY <1>5 DEF Poll
  <2>2. sent_tasks' \in {sent_tasks, sent_tasks \cup Range(pending_tasks)}
    BY <1>5 DEF Poll, poll_sent_task
  <2>3. CASE rpc = "hdr_timed"
    <3>1. UNCHANGED sent_tasks
      BY Zenon, <2>2, <2>3, RangeEmpty DEF Closing
    <3> QED BY <2>1, <2>3, <3>1 DEF Fading
  <2> QED BY <1>2, <2>1, <2>3
<1>6. CASE \/ ReadHeader \/ ReadClosed \/ ReadHeaderError \/ WaitRegTask \/ TakeTask
           \/ RecvRespBody \/ RecvAndDump \/ RecvBodyError \/ ReceiveLoopError
           \/ CleanPendingTasks \/ ReceiveLoopExit \/ DropInner
  <2>1. rpc' # "hdr_timed"
    BY <1>6, Zenon DEF ReadHeader, ReadClosed, ReadHeaderError, WaitRegTask, TakeTask, RecvRespBody,
       RecvAndDump, RecvBodyError, ReceiveLoopError, CleanPendingTasks, ReceiveLoopExit, DropInner
  <2> QED BY <1>2, <2>1
<1>7. CASE UserCall \/ SenderStep \/ Pending \/ PeerBody \/ Peer \/ Terminated \/ UNCHANGED vars
  <2>1. UNCHANGED <<rpc, read_ticks, sent_tasks, delay_tasks_queue>>
    BY <1>7, Zenon DEF UserCall, SendTask, FlushReq, Ping, SetErrorAndExit, DropStream, SenderStep,
       CheckClosed, WriteRequest, EncodeError, SendError, WriteError, WriteErrorCleanup, RegTask,
       Throttle, FlushErrorFlags, SendPing, DropStreamFlags, Pending, PeerBody, Peer, Terminated,
       vars, timerVars, readerVars
  <2> QED BY <1>1, <2>1
<1> QED BY <1>3, <1>4, <1>5, <1>6, <1>7 DEF Next, ReaderStep

--------------------------------------------------------------------------------
(* Sets of tasks can be counted, and the theorems that rest on it. *)

INSTANCE FiniteSetTheorems

\* The tasks are finitely many, so sets of them can be counted.
LEMMA TasksFinite ==
  ASSUME NEW S, S \subseteq Task
  PROVE  IsFiniteSet(S) /\ Cardinality(S) \in Nat
<1>1. IsFiniteSet(Task)
  BY MaxTasksAssumption, FS_Interval DEF Task
<1> QED BY <1>1, FS_Subset, FS_CardinalityType, SMTT(20)

LEMMA TasksCountable == Countable
<1>1. \A S \in SUBSET Task : IsFiniteSet(S) /\ Cardinality(S) \in Nat
  BY TasksFinite
<1>2. ASSUME NEW S \in SUBSET Task, NEW t \in Task, t \notin S
      PROVE  Cardinality(S \cup {t}) = Cardinality(S) + 1
  BY <1>1, <1>2, FS_AddElement, SMTT(20)
<1> QED BY <1>1, <1>2, FS_EmptySet, SMTT(20) DEF Countable

\* The inductive invariant holds in every reachable state.
THEOREM Invariance == Spec => []Inv
<1>1. Init => Inv
  BY InitInv, TasksCountable, SMTT(20)
<1>2. Inv /\ [Next]_vars => Inv'
  BY NextInv, StutterInv
<1> QED BY <1>1, <1>2, PTL DEF Spec

\* Every variable of the connection keeps its type; in particular the
\* subtractions on pending_task_count never take it below zero.
THEOREM Typing == Spec => []TypeOK
<1>1. Inv => TypeOK
  BY SMTT(20) DEF Inv
<1> QED BY <1>1, Invariance, PTL

\* No task is completed twice or forgotten by the sender, the timer and the
\* receiver together, however their steps, the ticks and the peer interleave.
THEOREM Conservation == Spec => []TaskConserved
<1>1. Inv => TaskConserved
  BY SMTT(20) DEF Inv, Core
<1> QED BY <1>1, Invariance, PTL

\* pending_task_count is exact but for the requests that failed to encode.
THEOREM Counting == Spec => []CountExact
<1>1. Inv => CountExact
  BY SMTT(20) DEF Inv, Core
<1> QED BY <1>1, Invariance, PTL

\* The protocol between the counter of send_task and the closed flag of
\* receive_loop leaves no task behind when the receiver has returned.
THEOREM Draining == Spec => []NothingStranded
<1>1. Inv => NothingStranded
  BY DEF Inv, Core
<1> QED BY <1>1, Invariance, PTL

\* A channel without duplicates is no longer than a set that covers it.
LEMMA DistinctLen ==
  ASSUME NEW S, NEW s \in Seq(S), IsInjective(s), NEW T, IsFiniteSet(T), Range(s) \subseteq T
  PROVE  Len(s) <= Cardinality(T)
<1>1. DOMAIN s = 1 .. Len(s) /\ Len(s) \in Nat
  OBVIOUS
<1>2. s \in [1 .. Len(s) -> T]
  <2>1. \A i \in 1 .. Len(s) : s[i] \in T
    BY <1>1, SMTT(20) DEF Range
  <2> QED BY <1>1, <2>1, SMTT(20)
<1>3. s \in Injection(1 .. Len(s), T)
  BY <1>1, <1>2, SMTT(20) DEF Injection, IsInjective
<1>4. Cardinality(1 .. Len(s)) = Len(s)
  <2>1. 1 \in Int /\ Len(s) \in Int
    BY <1>1, SMTT(20)
  <2>2. Cardinality(1 .. Len(s)) = IF 1 > Len(s) THEN 0 ELSE Len(s) - 1 + 1
    BY <2>1, FS_Interval, ZenonT(30)
  <2> QED BY <1>1, <2>2, SMTT(20)
<1> QED BY <1>3, <1>4, FS_Injection, SMTT(20)

\* What carries a guard of the throttler is a finite set of tasks.
LEMMA GuardedFinite ==
  ASSUME TypeOK
  PROVE  Guarded \subseteq Task /\ IsFiniteSet(Guarded) /\ get_inflight_count \in Nat
<1>1. Registered \subseteq Task
  BY CountTypes, DelayedElem, TasksCountable, SMTT(20)
<1>2. Guarded \subseteq Task
  BY <1>1, SMTT(20) DEF TypeOK, Guarded
<1> QED BY <1>2, TasksFinite, SMTT(20) DEF get_inflight_count

\* A task that enters no new place is in flight only if it was before.
LEMMA GuardedShrinks ==
  ASSUME TypeOK, TypeOK', Guarded' \subseteq Guarded
  PROVE  get_inflight_count' <= get_inflight_count
<1>1. IsFiniteSet(Guarded)
  BY GuardedFinite, SMTT(20)
<1> QED BY <1>1, FS_Subset, SMTT(20) DEF get_inflight_count

\* Fewer tasks in flight leave at least as much room.
LEMMA RoomKept ==
  ASSUME NEW k \in Nat, NEW m \in Nat, NEW w \in Nat, k <= m, m + 1 <= w
  PROVE  k + 1 <= w
BY SMTT(20)

\* Every step keeps the window.
LEMMA WindowStep ==
  ASSUME Inv, Inv', Window, [Next]_vars
  PROVE  Window'
<1> DEFINE n == get_inflight_count
<1>1. n \in Nat /\ n' \in Nat /\ Thresholds \in Nat
  <2>1. n \in Nat
    BY GuardedFinite, SMTT(20) DEF Inv
  <2> HIDE RecordUpdate
  <2>2. Guarded' \subseteq Task
    BY SMTT(20) DEF Inv, TypeOK, TimerTypeOK, Guarded, Registered, InTimer, Delayed, Range
  <2> USE RecordUpdate
  <2> QED BY <2>1, <2>2, TasksFinite, StreamAssumption, SMTT(20) DEF get_inflight_count
<1>2. IsInjective(pending_tasks')
  BY DistinctStep DEF Window
<1>3. ASSUME ~WriteRequest PROVE n' <= n
  BY <1>3, GuardsMove, GuardedShrinks, SMTT(20) DEF Inv
<1>w. /\ n <= Thresholds + 1
      /\ (spc \notin {"reg", "throttle"} => n <= Thresholds)
      /\ (spc \in {"reg", "throttle"} => n <= Thresholds \/ wbuf = {})
  BY DEF Window
<1>v. spc \in {"counted", "request"} /\ ~need_flush => n + 1 <= Thresholds
  BY DEF Window
<1> HIDE DEF n
<1> SUFFICES /\ n' <= Thresholds + 1
             /\ (spc' \notin {"reg", "throttle"} => n' <= Thresholds)
             /\ (spc' \in {"counted", "request"} /\ ~need_flush' => n' + 1 <= Thresholds)
             /\ (spc' \in {"reg", "throttle"} => n' <= Thresholds \/ wbuf' = {})
  BY <1>2, SMTT(20) DEF Window, n
<1>4. CASE WriteRequest
  <2>1. /\ spc = "request" /\ spc' = "reg"
        /\ UNCHANGED <<cur, item, containers>>
    BY <1>4, SMTT(20) DEF WriteRequest, timerVars, readerVars, containers
  <2>2. wbuf' = {} \/ ~need_flush
    BY <1>4 DEF WriteRequest, write_req, Send
  <2>3. n' <= n + 1
    <3>1. cur = {submitted}
      BY <2>1, SMTT(20) DEF Inv, Core, CurShape, Carrying
    <3>2. Guarded' = Guarded \cup {submitted}
      BY <2>1, <3>1, SameTimer, SMTT(20) DEF Guarded
    <3>3. IsFiniteSet(Guarded)
      BY GuardedFinite, SMTT(20) DEF Inv
    <3> QED BY <1>1, <3>2, <3>3, FS_AddElement, SMTT(20) DEF n, get_inflight_count
  <2> QED BY <1>1, <1>v, <1>w, <2>1, <2>2, <2>3, SMTT(20)
<1>5. CASE \E flush \in BOOLEAN : SendTask(flush)
  <2>1. PICK flush \in BOOLEAN : SendTask(flush)
    BY <1>5, SMTT(20)
  <2>2. spc = "idle" /\ spc' = "counted"
    BY <2>1, SMTT(20) DEF SendTask
  <2>3. ~need_flush' => ~nearly_full
    BY <2>1, Zenon DEF SendTask
  <2>4. ~need_flush' => n + 1 <= Thresholds
    BY <1>1, <2>3, SMTT(20) DEF nearly_full, n
  <2>5. ~WriteRequest
    BY <2>2, SMTT(20) DEF WriteRequest
  <2>6. n' <= n /\ n' <= Thresholds /\ n' <= Thresholds + 1
    BY <1>1, <1>3, <1>w, <2>2, <2>5, SMTT(20)
  <2>7. spc' \notin {"reg", "throttle"}
    BY <2>2, SMTT(20)
  <2> QED BY <1>1, <2>4, <2>6, <2>7, RoomKept, Zenon
<1>6. CASE Throttle
  <2>1. spc' = "idle" /\ n <= Thresholds /\ spc = "throttle"
    BY <1>6 DEF Throttle, throttle, n
  <2>2. ~WriteRequest
    BY <2>1, SMTT(20) DEF WriteRequest
  <2> QED BY <1>1, <1>3, <2>1, <2>2, SMTT(20)
<1>7. CASE ~WriteRequest /\ ~Throttle /\ ~\E flush \in BOOLEAN : SendTask(flush)
  <2>1. Passing
    BY <1>7, PassingStep, SMTT(20)
  <2>2. n' <= n
    BY <1>3, <1>7, SMTT(20)
  <2>3. n' <= Thresholds + 1
    BY <1>1, <1>w, <2>2, SMTT(20)
  <2>4. spc' \notin {"reg", "throttle"} => n' <= Thresholds
    BY <1>1, <1>w, <2>1, <2>2, SMTT(20) DEF Passing
  <2>5. spc' \in {"counted", "request"} /\ ~need_flush' => n' + 1 <= Thresholds
    <3>1. spc' \in {"counted", "request"} => spc \in {"counted", "request"}
      BY <2>1 DEF Passing
    <3>2. spc' \in {"counted", "request"} => need_flush' = need_flush
      BY <2>1, SMTT(20) DEF Passing
    <3> QED BY <1>1, <1>v, <2>2, <3>1, <3>2, RoomKept, ZenonT(30)
  <2>6. spc' \in {"reg", "throttle"} => n' <= Thresholds \/ wbuf' = {}
    BY <1>1, <1>w, <2>1, <2>2, SMTT(20) DEF Passing
  <2> QED BY <2>3, <2>4, <2>5, <2>6, SMTT(20)
<1> QED BY <1>4, <1>5, <1>6, <1>7, SMTT(20)

LEMMA WindowInit == Init => Window
<1> SUFFICES ASSUME Init PROVE Window
  OBVIOUS
<1>1. Guarded = {} /\ pending_tasks = <<>> /\ spc = "idle"
  <2>1. Registered = {}
    BY RangeEmpty DEF Init, TimerInit, Registered, InTimer, Delayed
  <2> QED BY <2>1, SMTT(20) DEF Init, TimerInit, Guarded
<1>2. get_inflight_count = 0
  BY <1>1, FS_EmptySet, SMTT(20) DEF get_inflight_count
<1> QED BY <1>1, <1>2, RangeEmpty, StreamAssumption, SMTT(20) DEF Window

\* The window holds in every reachable state.
LEMMA WindowInvariance == Spec => []Window
<1>1. Inv /\ Inv' /\ Window /\ [Next]_vars => Window'
  BY WindowStep
<1> QED BY <1>1, Invariance, WindowInit, PTL DEF Spec

\* However sends, responses, timeouts and cleanups interleave, at most one task
\* more than the configured window is in flight (throttler.rs).
THEOREM Throttling == Spec => []WindowBound
<1>1. Window => WindowBound
  BY DEF Window, WindowBound
<1> QED BY <1>1, WindowInvariance, PTL

\* send_task waits for room only after a flush: the requests whose answers make
\* room are never left in the write buffer meanwhile.
THEOREM FlushFirst == Spec => []FlushedBeforeWait
<1>1. Inv /\ Window => FlushedBeforeWait
  BY DEF Window, FlushedBeforeWait, throttle
<1> QED BY <1>1, WindowInvariance, Invariance, PTL

\* reg_task finds room in the registration channel, which has twice the
\* window's size, so send_task cannot block on a slow receiver there.
THEOREM Registering == Spec => []RegNeverBlocks
<1>1. ASSUME Inv, Window PROVE RegNeverBlocks
  <2> SUFFICES ASSUME spc = "reg" PROVE Len(pending_tasks) < ChannelCap
    BY DEF RegNeverBlocks
  <2>1. /\ cur = {submitted} /\ submitted \notin Registered
        /\ submitted \in Guarded /\ Range(pending_tasks) \subseteq Guarded \ {submitted}
    BY <1>1 DEF Inv, Core, CurShape, HandsApart, Carrying, Guarded, Registered
  <2>2. IsFiniteSet(Guarded) /\ get_inflight_count \in Nat
    BY <1>1, GuardedFinite, SMTT(20) DEF Inv
  <2>3. /\ IsFiniteSet(Guarded \ {submitted})
        /\ Cardinality(Guarded \ {submitted}) = get_inflight_count - 1
    BY <2>1, <2>2, FS_RemoveElement, SMTT(20) DEF get_inflight_count
  <2>4. pending_tasks \in Seq(Task) /\ Len(pending_tasks) \in Nat
    BY <1>1 DEF Inv, TypeOK, TimerTypeOK
  <2>5. Len(pending_tasks) <= get_inflight_count - 1
    BY <1>1, <2>1, <2>3, <2>4, DistinctLen, SMTT(20) DEF Window
  <2>6. get_inflight_count <= Thresholds + 1
    BY <1>1 DEF Window
  <2> QED BY <2>2, <2>4, <2>5, <2>6, StreamAssumption, SMTT(20) DEF ChannelCap
<1> QED BY <1>1, WindowInvariance, Invariance, PTL

\* The connection implements the ledger: through timeouts, errors, duplicates
\* and cleanup a task's outcome is settled once and for good, and the shared
\* state is freed only when no task is owed an answer.
THEOREM Refinement == Spec => LedgerSpec
<1>1. Init => Freed
  BY DEF Init, Freed
<1>2. Freed /\ [Next]_vars => Freed'
  BY FreedInductive
<1>3. Inv /\ Freed /\ [Next]_vars => [Ledger!Next]_(Ledger!ledgerVars)
  BY LedgerStep
<1> QED BY <1>1, <1>2, <1>3, LedgerInit, Invariance, PTL DEF Spec, LedgerSpec, Ledger!Spec

\* No task is timed out before task_timeout full seconds have passed since its
\* registration, wherever in a second it was registered.
THEOREM Punctuality == Spec => NoEarlyTimeout
<1> DEFINE Early == \A t \in Task :
              results'[t] # results[t] /\ results'[t][Len(results'[t])] = "timeout" => age[t] >= TaskTimeout
<1>1. Init => Aging
  BY DEF Init, TimerInit, Aging
<1>2. Inv /\ Aging /\ [Next]_vars => Aging'
  BY AgingStep, SMTT(20)
<1>3. ASSUME Inv, Aging, [Next]_vars PROVE [Early]_vars
  <2> SUFFICES ASSUME NEW t \in Task, results'[t] # results[t], results'[t][Len(results'[t])] = "timeout"
               PROVE  age[t] >= TaskTimeout
    OBVIOUS
  <2>1. CASE Tick
    <3>1. Complete(Expired, "timeout")
      BY <2>1 DEF Tick, adjust_task_queue
    <3>2. t \in Expired
      BY <3>1, SMTT(20) DEF Complete
    <3> QED BY <1>3, <3>2, ExpiredAged, SMTT(20)
  <2>2. CASE UNCHANGED results
    BY <2>2
  <2>3. CASE \E S : \E o \in Outcome \ {"timeout"} : Complete(S, o)
    BY <1>3, <2>3, OtherOutcome, SMTT(20)
  <2>4. CASE CheckClosed \/ WriteErrorCleanup
    <3>1. Complete(cur, "io") \/ UNCHANGED results
      <4>1. CASE CheckClosed
        BY <4>1, Zenon DEF CheckClosed
      <4>2. CASE WriteErrorCleanup
        BY <4>2 DEF WriteErrorCleanup
      <4> QED BY <2>4, <4>1, <4>2, SMTT(20)
    <3>2. "io" \in Outcome \ {"timeout"}
      BY DEF Outcome
    <3> QED BY <2>2, <2>3, <3>1, <3>2, SMTT(20)
  <2>5. CASE RecvRespBody \/ RecvBodyError \/ CleanPendingTasks \/ DropInner
    <3>1. \E o \in Outcome \ {"timeout"} : Complete(held, o) \/ Complete(Registered, o)
      BY <2>5 DEF RecvRespBody, RecvBodyError, CleanPendingTasks, DropInner,
         clean_pending_tasks, Outcome
    <3> QED BY <2>3, <3>1, SMTT(20)
  <2>6. CASE \/ \E flush \in BOOLEAN : SendTask(flush)
             \/ EncodeError \/ ReceiveLoopExit \/ Idle \/ Poll \/ RecvOneResp
             \/ WaitRegTask \/ TakeTask \/ RegTask \/ WriteRequest \/ WriteError
             \/ UNCHANGED vars
    <3>1. UNCHANGED results
      BY <2>6, Zenon DEF SendTask, EncodeError, ReceiveLoopExit, Idle, SendError, Throttle, FlushReq,
         FlushErrorFlags, Ping, SendPing, SetErrorAndExit, DropStream, DropStreamFlags,
         ReadHeader, ReadClosed, ReadHeaderError, RecvAndDump, Pending, ReceiveLoopError,
         PeerBody, Peer, Terminated, Poll, RecvOneResp, WaitRegTask, TakeTask, RegTask,
         WriteRequest, WriteError, vars, taskVars
    <3> QED BY <2>2, <3>1, SMTT(20)
  <2> QED BY <1>3, <2>1, <2>4, <2>5, <2>6, SMTT(20) DEF Next, UserCall, SenderStep, ReaderStep, Idle
<1> QED BY <1>1, <1>2, <1>3, Invariance, PTL DEF Spec, NoEarlyTimeout

\* While reg_task may still register, the receiver never discards the frame of a
\* task that waits for it: neither take_task's shortcut on min_delay_seq nor its
\* search of the timer misses a live task.
THEOREM Delivery == Spec => LiveFrameKept
<1> DEFINE Kept == rpc \in {"hdr", "hdr_timed", "wait"} /\ rpc' = "dump" /\ ~reg_stopped_flag
                     => rseq' \notin SeqsOf(Registered \cup cur)
<1>1. Init => Frames
  BY DEF Init, TcpInit, Frames
<1>2. Inv /\ Inv' /\ Ordered /\ [Next]_vars => Ordered'
  BY OrderStep
<1>3. Inv /\ Ordered /\ Frames /\ [Next]_vars => Frames'
  BY FramesStep
<1>4. ASSUME Inv, Ordered, Frames, [Next]_vars PROVE [Kept]_vars
  <2> SUFFICES ASSUME rpc \in {"hdr", "hdr_timed", "wait"}, rpc' = "dump", ~reg_stopped_flag,
                      NEW t \in Registered \cup cur, rseq' = seq_of[t]
               PROVE  FALSE
    BY DEF SeqsOf
  <2>1. t \in Task /\ seq_of[t] \in Nat
    BY <1>4, OrderTypes, SMTT(20) DEF Inv, Core, CurShape
  <2>2. t \in InTimer => min_delay_seq <= seq_of[t] /\ seq_of[t] <= processed_seq
    BY <1>4 DEF Ordered, TimerOrder
  <2>3. t \notin InTimer => processed_seq < seq_of[t] \/ seq_of[t] = 0
    BY <1>4, Unprocessed
  <2>4. CASE ReadHeader
    <3>1. wire # <<>> /\ rseq' = Head(wire) /\ Head(wire) < min_delay_seq /\ Head(wire) # 0
      BY <2>4 DEF ReadHeader, Cut
    <3>2. rseq' > 0
      BY <1>4, <3>1, SMTT(20) DEF Frames
    <3>3. min_delay_seq <= processed_seq
      BY <1>4 DEF Ordered, Bounds
    <3> QED BY <1>4, <2>1, <2>2, <2>3, <3>1, <3>2, <3>3, OrderTypes, SMTT(20)
  <2>5. CASE TakeTask
    <3>1. /\ rpc = "wait" /\ processed_seq >= rseq /\ rseq' = rseq /\ held' = {}
          /\ held' = {u \in InTimer : seq_of[u] = rseq}
      BY <2>5 DEF TakeTask, take_task
    <3>2. rseq \in Nat /\ rseq > 0
      BY <1>4, <3>1, SMTT(20) DEF Frames
    <3>3. t \notin InTimer
      BY <3>1, Zenon
    <3>4. processed_seq < rseq
      BY <2>3, <3>1, <3>2, <3>3, SMTT(20)
    <3> QED BY <1>4, <3>1, <3>2, <3>4, OrderTypes, SMTT(20)
  <2>6. CASE WaitRegTask
    <3>1. rpc = "wait" /\ rpc' = rpc
      BY <2>6 DEF WaitRegTask
    <3> QED BY <3>1
  <2>7. ReadHeader \/ TakeTask \/ WaitRegTask
    <3>1. CASE UserCall \/ SenderStep \/ Tick \/ PeerBody \/ Peer \/ Terminated \/ UNCHANGED vars
      <4>1. rpc' = rpc
        BY <3>1, ZenonT(30) DEF UserCall, SenderStep, SendTask, FlushReq, Ping, SetErrorAndExit, DropStream,
           CheckClosed, WriteRequest, EncodeError, SendError, WriteError, WriteErrorCleanup,
           RegTask, Throttle, FlushErrorFlags, SendPing, DropStreamFlags, Tick, PeerBody, Peer,
           Terminated, vars, readerVars
      <4> QED BY <4>1
    <3>2. CASE ReaderStep
      <4>1. ~Poll
        BY DEF Poll
      <4>2. ~RecvOneResp
        BY DEF RecvOneResp
      <4>3. ~ReadClosed
        BY DEF ReadClosed
      <4>4. ~ReadHeaderError
        BY DEF ReadHeaderError
      <4>5. ~RecvRespBody
        BY DEF RecvRespBody
      <4>6. ~RecvAndDump
        BY DEF RecvAndDump
      <4>7. ~RecvBodyError
        BY DEF RecvBodyError
      <4>8. ~Pending
        BY DEF Pending
      <4>9. ~ReceiveLoopError
        BY DEF ReceiveLoopError
      <4>10. ~CleanPendingTasks
        BY DEF CleanPendingTasks
      <4>11. ~ReceiveLoopExit
        BY DEF ReceiveLoopExit
      <4>12. ~DropInner
        BY DEF DropInner
      <4> QED BY <3>2, <4>1, <4>2, <4>3, <4>4, <4>5, <4>6,
                 <4>7, <4>8, <4>9, <4>10, <4>11, <4>12, ZenonT(30) DEF ReaderStep
    <3> QED BY <1>4, <3>1, <3>2, SMTT(20) DEF Next
  <2> QED BY <2>4, <2>5, <2>6, <2>7, SMTT(20)
<1> QED BY <1>1, <1>2, <1>3, <1>4, Invariance, OrderInit, PTL DEF Spec, LiveFrameKept

\* Whatever the two timeouts are, a closed connection without an error is given up
\* with tasks waiting only when read_timeout has passed since the last of them was
\* registered: the header read that gives up began with the channel drained for
\* good, and what the timer holds has moved one batch with every tick of it.
THEOREM Patience == Spec => PatientExit
<1> DEFINE Patient == GivesUp /\ ~Cut => \A t \in Registered : ReadTimeout > 0 /\ age[t] >= ReadTimeout
<1>1. Init => Aging /\ Closing /\ Fading
  BY DEF Init, TimerInit, Aging, Closing, Fading
<1>2. Inv /\ Aging /\ [Next]_vars => Aging'
  BY AgingStep
<1>3. Inv /\ Closing /\ Fading /\ [Next]_vars => Closing' /\ Fading'
  BY ClosingStep, FadingStep, SMTT(20)
<1>4. ASSUME Inv, Aging, Closing, Fading, [Next]_vars PROVE [Patient]_vars
  <2> SUFFICES ASSUME rpc \in {"loop", "hdr_timed"}, rpc' = "failed", up, ~has_err, ~Cut,
                      NEW t \in Registered
               PROVE  ReadTimeout > 0 /\ age[t] >= ReadTimeout
    BY DEF GivesUp
  <2>1. CASE RecvOneResp
    BY <2>1 DEF RecvOneResp, check_pending_tasks_empty
  <2>2. CASE ReadHeaderError
    <3>1. rpc = "hdr_timed" /\ read_ticks >= ReadTimeout /\ ReadTimeout > 0
      BY <2>2, SMTT(20) DEF ReadHeaderError, ReadTimedOut
    <3>2. ReadTimeout \in Nat /\ read_ticks \in Nat /\ age \in [Task -> Nat] /\ t \in Task
      BY <1>4, StreamAssumption, OrderTypes, SMTT(20) DEF Inv, TypeOK, TimerTypeOK
    <3>3. pending_tasks = <<>> /\ sent_tasks = {}
      BY <1>4, <3>1, <3>2, SMTT(20) DEF Closing, Fading
    <3>4. t \in Delayed
      BY <3>3, RangeEmpty DEF Registered, InTimer
    <3>5. PICK i \in DOMAIN delay_tasks_queue : t \in delay_tasks_queue[i]
      BY <3>4 DEF Delayed, Range
    <3>6. i \in Nat /\ ~(i < read_ticks)
      BY <1>4, <3>1, <3>5, SMTT(20) DEF Fading, Inv, TypeOK, TimerTypeOK
    <3>7. age[t] >= i
      BY <1>4, <3>5 DEF Aging
    <3> QED BY <3>1, <3>2, <3>6, <3>7, SMTT(20)
  <2>3. CASE \/ Poll \/ ReadHeader \/ ReadClosed \/ WaitRegTask \/ TakeTask \/ RecvRespBody
             \/ RecvAndDump \/ RecvBodyError \/ Pending \/ ReceiveLoopError
             \/ CleanPendingTasks \/ ReceiveLoopExit \/ DropInner
    BY <2>3 DEF Poll, ReadHeader, ReadClosed, WaitRegTask, TakeTask, RecvRespBody, RecvAndDump,
       RecvBodyError, Pending, ReceiveLoopError, CleanPendingTasks, ReceiveLoopExit, DropInner
  <2>4. CASE \/ UserCall \/ SenderStep \/ Tick \/ PeerBody \/ Peer \/ Terminated
             \/ UNCHANGED vars
    <3>1. UNCHANGED rpc
      BY <2>4, Zenon DEF UserCall, SendTask, FlushReq, Ping, SetErrorAndExit, DropStream, SenderStep,
         CheckClosed, WriteRequest, EncodeError, SendError, WriteError, WriteErrorCleanup, RegTask,
         Throttle, FlushErrorFlags, SendPing, DropStreamFlags, Tick, PeerBody, Peer, Terminated,
         vars, readerVars
    <3> QED BY <3>1
  <2> QED BY <1>4, <2>1, <2>2, <2>3, <2>4, SMTT(20) DEF Next, ReaderStep
<1> QED BY <1>1, <1>2, <1>3, <1>4, Invariance, PTL DEF Spec, PatientExit
================================================================================
