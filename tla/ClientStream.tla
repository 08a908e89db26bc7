----------------------------- MODULE ClientStream -----------------------------
(***************************************************************************)
(* One client connection (stream/src/client/stream.rs): the ClientStream   *)
(* handle, driven by one sender (send_task, flush_req, ping,               *)
(* set_error_and_exit, drop), and the receiver coroutine receive_loop      *)
(* with the TCP read path it drives (transport/tcp/src/client.rs).  Sender *)
(* and receiver run on different threads and share the atomics closed,     *)
(* has_err, pending_task_count and reg_stopped_flag, the registration      *)
(* channel and the close channel; every step below is the code between two *)
(* accesses to that shared state.                                          *)
(***************************************************************************)
EXTENDS ClientTaskTimer, TcpClient

CONSTANTS
  Thresholds,    \* ClientConfig.thresholds: the throttler's window
  ReadTimeout,   \* ClientConfig.read_timeout, in ticks; 0 is none
  MaxCalls,      \* bound: how often the user calls send_task and ping in all
  BadTasks       \* the tasks whose request may fail to encode

ASSUME StreamAssumption ==
  /\ Thresholds \in Nat \ {0}
  /\ ReadTimeout \in Nat
  /\ MaxCalls \in Nat
  /\ BadTasks \subseteq Task

VARIABLES
  seq,          \* the next sequence number
  closed, has_err,
  close_tx,     \* the ClientStream still holds its end of the close channel
  spc,          \* where the sender is
  cur,          \* the task send_task is working on, a set of at most one
  need_flush,
  submitted,    \* how often send_task was called
  unsent,       \* history: the tasks whose request did not encode
  rpc,          \* where the receiver coroutine is
  polling,      \* the receiver's future is being polled, not waiting
  rseq,         \* resp_head.seq of the frame being read
  held,         \* the task taken out for the frame being read
  item,         \* its ClientTaskItem, which lives until the read returns
  body_in,      \* the rest of that frame has arrived
  read_ticks    \* ticks since the pending socket read began

flags == <<closed, has_err, close_tx>>
senderVars == <<spc, cur, need_flush, submitted, unsent>>
readerVars == <<rpc, polling, rseq, held, item, body_in, read_ticks>>
vars == <<taskVars, timerVars, tcpVars, seq, flags, senderVars, readerVars>>

SenderPc == {"idle", "counted", "request", "reg", "throttle", "write_err",
             "write_err_flag", "write_err_done", "send_err", "send_err_flag",
             "flush_err", "ping", "drop", "drop_flag", "gone"}

ReaderPc == {"loop", "hdr", "hdr_timed", "wait", "body", "dump", "failed",
             "clean", "spin", "gone", "freed"}

Init ==
  /\ TaskInit /\ TimerInit /\ TcpInit
  /\ seq = 1
  /\ closed = FALSE /\ has_err = FALSE /\ close_tx = TRUE
  /\ spc = "idle" /\ cur = {} /\ need_flush = FALSE /\ submitted = 0 /\ unsent = {}
  /\ rpc = "loop" /\ polling = FALSE /\ rseq = 0 /\ held = {}
  /\ item = {} /\ body_in = FALSE /\ read_ticks = 0
--------------------------------------------------------------------------------
(* The throttler (stream/src/client/throttler.rs).  A task carries a guard   *)
(* of the wait group from add_task until its ClientTaskItem is destroyed.    *)

Guarded == Registered \cup item \cup (IF spc = "reg" THEN cur ELSE {})

get_inflight_count == Cardinality(Guarded)

nearly_full_OneLate == get_inflight_count > Thresholds
nearly_full == get_inflight_count + 1 > Thresholds

\* WaitGroup::wait_async returns: no more than the threshold is left.
throttle == get_inflight_count <= Thresholds
--------------------------------------------------------------------------------
(* The sender.                                                               *)

\* Sequence numbers spent on pings so far.
PingsSent == (seq - 1) - Cardinality({t \in Task : seq_of[t] # 0})

\* send_task up to the increment of pending_task_count.
SendTask(flush) ==
  /\ spc = "idle"
  /\ submitted < MaxTasks /\ submitted + PingsSent < MaxCalls
  /\ submitted' = submitted + 1
  /\ cur' = {submitted + 1}
  /\ need_flush' = (flush \/ nearly_full)
  /\ count_task
  /\ spc' = "counted"
  /\ UNCHANGED <<taskVars, pending_tasks, sent_tasks, delay_tasks_queue,
                 min_delay_seq, processed_seq, reg_stopped_flag, age,
                 tcpVars, seq, flags, unsent, readerVars>>

\* The closed check that follows it: refuse the task and roll back, or go on.
CheckClosed ==
  /\ spc = "counted"
  /\ \/ /\ closed
        /\ Complete(cur, "io")
        /\ rollback_count
        /\ spc' = "idle"
        /\ cur' = {}
        /\ need_flush' = FALSE
     \/ /\ ~closed
        /\ spc' = "request"
        /\ UNCHANGED <<results, pending_task_count, cur, need_flush>>
  /\ UNCHANGED <<seq_of, dropped, pending_tasks, sent_tasks, delay_tasks_queue,
                 min_delay_seq, processed_seq, reg_stopped_flag, age, tcpVars,
                 seq, flags, submitted, unsent, readerVars>>

\* send_request: the request encodes and is written.
WriteRequest ==
  /\ spc = "request"
  /\ \E t \in cur : set_seq(t, seq)
  /\ seq' = seq + 1
  /\ write_req(seq, need_flush)
  /\ need_flush' = FALSE
  /\ spc' = "reg"
  /\ UNCHANGED <<results, dropped, timerVars, flags, cur, submitted, unsent, readerVars>>

\* send_request: the request does not encode.  The task is destroyed.
EncodeError ==
  /\ spc = "request"
  /\ \E t \in cur \cap BadTasks : set_seq(t, seq)
  /\ seq' = seq + 1
  /\ dropped' = dropped \cup cur
  /\ unsent' = unsent \cup cur
  /\ cur' = {}
  /\ need_flush' = FALSE
  /\ spc' = "send_err"
  /\ UNCHANGED <<results, timerVars, tcpVars, flags, submitted, readerVars>>

\* send_task's error branch after it: closed, then has_err.
SendError ==
  /\ \/ spc = "send_err" /\ closed' = TRUE /\ spc' = "send_err_flag" /\ UNCHANGED has_err
     \/ spc = "send_err_flag" /\ has_err' = TRUE /\ spc' = "idle" /\ UNCHANGED closed
  /\ UNCHANGED <<taskVars, timerVars, tcpVars, seq, close_tx, cur, need_flush,
                 submitted, unsent, readerVars>>

\* send_request: the write fails; closed is stored first.
WriteError ==
  /\ spc = "request"
  /\ \E t \in cur : set_seq(t, seq)
  /\ seq' = seq + 1
  /\ io_error({seq})
  /\ closed' = TRUE
  /\ need_flush' = FALSE
  /\ spc' = "write_err"
  /\ UNCHANGED <<results, dropped, timerVars, has_err, close_tx, cur, submitted, unsent,
                 readerVars>>

\* ... then has_err, then the counter rollback and stop_reg_task, and last the
\* task is handed back.
WriteErrorCleanup ==
  /\ \/ /\ spc = "write_err"
        /\ has_err' = TRUE
        /\ spc' = "write_err_flag"
        /\ UNCHANGED <<pending_task_count, reg_stopped_flag, results, cur>>
     \/ /\ spc = "write_err_flag"
        /\ rollback_count
        /\ stop_reg_task
        /\ spc' = "write_err_done"
        /\ UNCHANGED <<has_err, results, cur>>
     \/ /\ spc = "write_err_done"
        /\ Complete(cur, "io")
        /\ cur' = {}
        /\ spc' = "idle"
        /\ UNCHANGED <<has_err, pending_task_count, reg_stopped_flag>>
  /\ UNCHANGED <<seq_of, dropped, pending_tasks, sent_tasks, delay_tasks_queue,
                 min_delay_seq, processed_seq, age, tcpVars, seq, closed,
                 close_tx, need_flush, submitted, unsent, readerVars>>

\* The capacity of the registration channel.
ChannelCap_Single == Thresholds
ChannelCap == Thresholds * 2

\* reg_task blocks while the channel is full.
RegTask ==
  /\ spc = "reg"
  /\ Len(pending_tasks) < ChannelCap
  /\ \E t \in cur : reg_task(t)
  /\ cur' = {}
  /\ spc' = "throttle"
  /\ UNCHANGED <<taskVars, pending_task_count, sent_tasks, delay_tasks_queue,
                 min_delay_seq, processed_seq, reg_stopped_flag, tcpVars, seq,
                 flags, need_flush, submitted, unsent, readerVars>>

\* send_task waits for the throttler and returns.
Throttle ==
  /\ spc = "throttle"
  /\ throttle
  /\ spc' = "idle"
  /\ UNCHANGED <<taskVars, timerVars, tcpVars, seq, flags, cur, need_flush,
                 submitted, unsent, readerVars>>

FlushReq ==
  /\ spc = "idle"
  /\ \/ flush_req /\ UNCHANGED <<closed, spc>>
     \/ io_error({}) /\ closed' = TRUE /\ spc' = "flush_err"
  /\ UNCHANGED <<taskVars, timerVars, seq, has_err, close_tx, cur, need_flush,
                 submitted, unsent, readerVars>>

FlushErrorFlags ==
  /\ spc = "flush_err"
  /\ has_err' = TRUE
  /\ stop_reg_task
  /\ spc' = "idle"
  /\ UNCHANGED <<taskVars, pending_tasks, pending_task_count, sent_tasks,
                 delay_tasks_queue, min_delay_seq, processed_seq, age, tcpVars,
                 seq, closed, close_tx, cur, need_flush, submitted, unsent, readerVars>>

\* send_ping_req: skipped on a closed connection; otherwise a frame of its own,
\* flushed, never registered.  A failed write sets closed and nothing else.
Ping ==
  /\ spc = "idle"
  /\ submitted + PingsSent < MaxCalls
  /\ ~closed
  /\ spc' = "ping"
  /\ UNCHANGED <<taskVars, timerVars, tcpVars, seq, flags, cur, need_flush,
                 submitted, unsent, readerVars>>

SendPing ==
  /\ spc = "ping"
  /\ seq' = seq + 1
  /\ \/ write_req(seq, TRUE) /\ UNCHANGED closed
     \/ io_error({seq}) /\ closed' = TRUE
  /\ spc' = "idle"
  /\ UNCHANGED <<taskVars, timerVars, has_err, close_tx, cur, need_flush,
                 submitted, unsent, readerVars>>

SetErrorAndExit ==
  /\ spc = "idle"
  /\ has_err' = TRUE
  /\ close_conn
  /\ UNCHANGED <<taskVars, timerVars, seq, closed, close_tx, senderVars,
                 readerVars>>

\* Drop of the ClientStream: the close channel first ...
DropStream ==
  /\ spc = "idle"
  /\ spc' = "drop"
  /\ close_tx' = FALSE
  /\ UNCHANGED <<taskVars, timerVars, tcpVars, seq, closed, has_err, cur,
                 need_flush, submitted, unsent, readerVars>>

\* ... then reg_stopped_flag, then closed.
DropStreamFlags ==
  /\ \/ spc = "drop" /\ spc' = "drop_flag" /\ stop_reg_task /\ UNCHANGED closed
     \/ spc = "drop_flag" /\ spc' = "gone" /\ closed' = TRUE /\ UNCHANGED reg_stopped_flag
  /\ UNCHANGED <<taskVars, pending_tasks, pending_task_count, sent_tasks,
                 delay_tasks_queue, min_delay_seq, processed_seq, age, tcpVars,
                 seq, has_err, close_tx, cur, need_flush, submitted, unsent, readerVars>>
--------------------------------------------------------------------------------
(* The receiver coroutine.  ReceiverTimerFuture::poll first serves the       *)
(* ticks, then looks at has_err, then drains the registration channel, and   *)
(* only then polls the read in progress until it has to wait.                *)

Awaiting == {"loop", "hdr", "hdr_timed", "wait", "body", "dump"}

\* A tick of the one-second interval: time_reach.
Tick ==
  /\ rpc \in Awaiting
  /\ ~polling
  /\ adjust_task_queue
  /\ read_ticks' = IF rpc \in {"hdr_timed", "body", "dump"} /\ read_ticks < ReadTimeout
                   THEN read_ticks + 1 ELSE read_ticks
  /\ UNCHANGED <<seq_of, dropped, pending_tasks, pending_task_count, processed_seq,
                 reg_stopped_flag, tcpVars, seq, flags, senderVars, rpc, polling,
                 rseq, held, item, body_in>>

\* The rest of a poll's beginning: give up on has_err, or drain the channel.
Poll ==
  /\ rpc \in Awaiting
  /\ ~polling
  /\ \/ /\ has_err
        /\ rpc' = "failed"
        /\ UNCHANGED <<polling, pending_tasks, pending_task_count, processed_seq,
                       sent_tasks>>
     \/ /\ ~has_err
        /\ poll_sent_task
        /\ polling' = TRUE
        /\ UNCHANGED rpc
  /\ UNCHANGED <<taskVars, delay_tasks_queue, min_delay_seq, reg_stopped_flag, age,
                 tcpVars, seq, flags, senderVars, rseq, held, item, body_in, read_ticks>>

\* The head of recv_one_resp's loop: once closed, read on only while tasks wait.
RecvOneResp ==
  /\ rpc = "loop"
  /\ polling
  /\ \/ /\ closed
        /\ poll_sent_task
        /\ IF check_pending_tasks_empty \/ has_err
           THEN rpc' = "failed" /\ polling' = FALSE
           ELSE rpc' = "hdr_timed" /\ UNCHANGED polling
     \/ /\ ~closed
        /\ rpc' = "hdr"
        /\ UNCHANGED <<pending_tasks, pending_task_count, processed_seq, sent_tasks,
                       polling>>
  /\ read_ticks' = 0
  /\ UNCHANGED <<taskVars, delay_tasks_queue, min_delay_seq, reg_stopped_flag, age,
                 tcpVars, seq, flags, senderVars, rseq, held, item, body_in>>

\* read_resp has a header; take_task begins with its test of min_delay_seq.
ReadHeader ==
  /\ rpc \in {"hdr", "hdr_timed"}
  /\ polling
  /\ wire # <<>> /\ ~Cut
  /\ wire' = Tail(wire)
  /\ rseq' = Head(wire)
  /\ rpc' = IF Head(wire) < min_delay_seq THEN "dump" ELSE "wait"
  /\ body_in' \in BOOLEAN
  /\ read_ticks' = 0
  /\ UNCHANGED <<taskVars, timerVars, wbuf, reqs, up, wshut, faults, seq, flags,
                 senderVars, polling, held, item>>

\* read_resp finds the close channel closed before it has the whole header:
\* Ok(false), and Cancellable drops the read with what it has.
ReadClosed ==
  /\ rpc = "hdr"
  /\ polling
  /\ ~close_tx
  /\ closed' = TRUE
  /\ AbandonHeader
  /\ rpc' = "loop"
  /\ UNCHANGED <<taskVars, timerVars, seq, has_err, close_tx, senderVars,
                 polling, rseq, held, item, body_in, read_ticks>>

ReadTimedOut == rpc # "hdr" /\ ReadTimeout > 0 /\ read_ticks >= ReadTimeout

\* The header read fails: end of stream, bytes that are no header, or
\* read_timeout after a close.
ReadHeaderError ==
  /\ rpc \in {"hdr", "hdr_timed"}
  /\ polling
  /\ (wire = <<>> /\ ~up) \/ Cut \/ ReadTimedOut
  /\ closed' = (closed \/ rpc = "hdr_timed")
  /\ rpc' = "failed"
  /\ polling' = FALSE
  /\ UNCHANGED <<taskVars, timerVars, tcpVars, seq, has_err, close_tx, senderVars,
                 rseq, held, item, body_in, read_ticks>>

\* WaitRegTaskFuture::poll, while the frame's task has not been registered.
WaitRegTask ==
  /\ rpc = "wait"
  /\ polling
  /\ processed_seq < rseq
  /\ \/ /\ reg_stopped_flag
        /\ rpc' = "dump"
        /\ UNCHANGED <<polling, pending_tasks, pending_task_count, processed_seq,
                       sent_tasks>>
     \/ /\ ~reg_stopped_flag
        /\ poll_sent_task
        /\ polling' = (processed_seq' >= rseq)
        /\ UNCHANGED rpc
  /\ UNCHANGED <<taskVars, delay_tasks_queue, min_delay_seq, reg_stopped_flag, age,
                 tcpVars, seq, flags, senderVars, rseq, held, item, body_in, read_ticks>>

\* The rest of take_task: the task of the frame, or a frame to be discarded.
TakeTask ==
  /\ rpc = "wait"
  /\ polling
  /\ processed_seq >= rseq
  /\ held' = take_task(rseq)
  /\ item' = held'
  /\ remove_task(held')
  /\ rpc' = IF held' = {} THEN "dump" ELSE "body"
  /\ UNCHANGED <<taskVars, pending_tasks, pending_task_count, min_delay_seq,
                 processed_seq, reg_stopped_flag, tcpVars, seq, flags,
                 senderVars, polling, rseq, body_in, read_ticks>>

\* _recv_resp_body and _recv_error end with the task's completion: a result,
\* an error the server sent, or a body that does not decode.  A task without a
\* buffer for the blob is completed first and the blob is discarded afterwards.
RecvRespBody ==
  /\ rpc = "body"
  /\ polling
  /\ \/ /\ body_in
        /\ rpc' = "loop"
        /\ body_in' = FALSE
        /\ item' = {}
     \/ /\ rpc' = "dump"
        /\ body_in' \in BOOLEAN
        /\ UNCHANGED item
  /\ Complete(held, "answer")
  /\ held' = {}
  /\ rseq' = 0
  /\ read_ticks' = 0
  /\ UNCHANGED <<seq_of, dropped, timerVars, tcpVars, seq, flags, senderVars,
                 polling>>

\* _recv_and_dump: the frame of no task is read and discarded.
RecvAndDump ==
  /\ rpc = "dump"
  /\ polling
  /\ body_in
  /\ rpc' = "loop"
  /\ rseq' = 0
  /\ item' = {}
  /\ body_in' = FALSE
  /\ read_ticks' = 0
  /\ UNCHANGED <<taskVars, timerVars, tcpVars, seq, flags, senderVars, polling,
                 held>>

\* Reading the rest of a frame fails; the task in hand gets an IO error.
RecvBodyError ==
  /\ rpc \in {"body", "dump"}
  /\ polling
  /\ ~body_in
  /\ ~up \/ ReadTimedOut
  /\ Complete(held, "io")
  /\ held' = {}
  /\ item' = {}
  /\ rpc' = "failed"
  /\ polling' = FALSE
  /\ UNCHANGED <<seq_of, dropped, timerVars, tcpVars, seq, flags, senderVars,
                 rseq, body_in, read_ticks>>

\* The read in progress has nothing to work on: the poll returns Pending.
Pending ==
  /\ polling
  /\ ~ReadTimedOut
  /\ \/ rpc = "hdr" /\ wire = <<>> /\ up /\ close_tx
     \/ rpc = "hdr_timed" /\ (wire = <<>> \/ Cut) /\ up
     \/ rpc \in {"body", "dump"} /\ ~body_in /\ up
  /\ polling' = FALSE
  /\ UNCHANGED <<taskVars, timerVars, tcpVars, seq, flags, senderVars, rpc, rseq,
                 held, item, body_in, read_ticks>>

\* receive_loop's error branch sets closed ...
ReceiveLoopError ==
  /\ rpc = "failed"
  /\ closed' = TRUE
  /\ rpc' = "clean"
  /\ rseq' = 0
  /\ body_in' = FALSE
  /\ read_ticks' = 0
  /\ UNCHANGED <<taskVars, timerVars, tcpVars, seq, has_err, close_tx, senderVars,
                 polling, held, item>>

\* The test that ends the cleaning loop.
AllDrained_Assumed == TRUE
AllDrained == pending_task_count = 0

\* ... cleans the timer, and repeats that while tasks may still be on the way.
CleanPendingTasks ==
  /\ rpc = "clean" \/ (rpc = "spin" /\ ~AllDrained)
  /\ clean_pending_tasks
  /\ rpc' = "spin"
  /\ UNCHANGED <<seq_of, dropped, min_delay_seq, reg_stopped_flag, tcpVars,
                 seq, flags, senderVars, polling, rseq, held, item, body_in, read_ticks>>

\* receive_loop returns; a task still held by the abandoned read goes with it.
ReceiveLoopExit ==
  /\ rpc = "spin"
  /\ AllDrained
  /\ rpc' = "gone"
  /\ dropped' = dropped \cup held
  /\ held' = {}
  /\ item' = {}
  /\ UNCHANGED <<seq_of, results, timerVars, tcpVars, seq, flags, senderVars,
                 polling, rseq, body_in, read_ticks>>

\* Drop of the ClientStreamInner once neither side refers to it.
DropInner ==
  /\ spc = "gone"
  /\ rpc = "gone"
  /\ clean_pending_tasks
  /\ rpc' = "freed"
  /\ UNCHANGED <<seq_of, dropped, min_delay_seq, reg_stopped_flag, tcpVars,
                 seq, flags, senderVars, polling, rseq, held, item, body_in, read_ticks>>
--------------------------------------------------------------------------------
\* The rest of the frame the receiver is reading arrives.
PeerBody ==
  /\ rpc \in {"wait", "body", "dump"}
  /\ ~body_in
  /\ up
  /\ body_in' = TRUE
  /\ UNCHANGED <<taskVars, timerVars, tcpVars, seq, flags, senderVars, rpc,
                 polling, rseq, held, item, read_ticks>>

\* Responses are of no interest once nobody reads them.
Peer ==
  /\ PeerClose \/ (rpc \in Awaiting /\ \E s \in reqs : PeerRespond(s))
  /\ UNCHANGED <<taskVars, timerVars, seq, flags, senderVars, readerVars>>

Terminated == rpc = "freed" /\ UNCHANGED vars

\* What the sender does on its own, once called, and what the receiver does.
SenderStep ==
  \/ CheckClosed \/ WriteRequest \/ EncodeError \/ SendError
  \/ WriteError \/ WriteErrorCleanup \/ RegTask \/ Throttle
  \/ FlushErrorFlags \/ SendPing \/ DropStreamFlags

UserCall ==
  \/ \E flush \in BOOLEAN : SendTask(flush)
  \/ FlushReq \/ Ping \/ SetErrorAndExit \/ DropStream

ReaderStep ==
  \/ Poll \/ RecvOneResp \/ ReadHeader \/ ReadClosed \/ ReadHeaderError
  \/ WaitRegTask \/ TakeTask \/ RecvRespBody \/ RecvAndDump \/ RecvBodyError
  \/ Pending \/ ReceiveLoopError \/ CleanPendingTasks \/ ReceiveLoopExit
  \/ DropInner

Next == UserCall \/ SenderStep \/ ReaderStep \/ Tick \/ PeerBody \/ Peer \/ Terminated

Spec == Init /\ [][Next]_vars

\* The runtime keeps polling both coroutines, and every poll of the receiver
\* serves the ticks that are due; neither the user nor the peer is forced to act.
FairSpec == Spec /\ WF_vars(SenderStep) /\ WF_vars(ReaderStep) /\ SF_vars(Tick)
--------------------------------------------------------------------------------
\* Every variable of the connection has its type.
TypeOK ==
  /\ TaskTypeOK /\ TimerTypeOK /\ TcpTypeOK
  /\ seq \in Nat \ {0}
  /\ closed \in BOOLEAN /\ has_err \in BOOLEAN /\ close_tx \in BOOLEAN
  /\ spc \in SenderPc /\ cur \subseteq Task /\ need_flush \in BOOLEAN
  /\ submitted \in 0 .. MaxTasks /\ unsent \subseteq Task
  /\ rpc \in ReaderPc /\ polling \in BOOLEAN /\ rseq \in Nat
  /\ held \subseteq Task /\ item \subseteq Task /\ body_in \in BOOLEAN /\ read_ticks \in Nat

\* The tasks some part of the connection still owes a completion.
Outstanding == cur \cup Registered \cup held

\* A task passed to send_task is at any moment in exactly one state: still
\* owned by the sender, the timer or the receiver; completed, once; or
\* destroyed without a completion.  So no interleaving of sender, ticks,
\* responses, duplicates and cleanup completes a task twice (client/task.rs,
\* ClientTaskDone) or forgets one.
TaskConserved ==
  \A t \in Task :
    /\ t > submitted => t \notin Outstanding /\ t \notin dropped /\ results[t] = <<>>
    /\ t <= submitted =>
         \/ t \in Outstanding /\ t \notin dropped /\ results[t] = <<>>
         \/ t \notin Outstanding /\ t \in dropped /\ results[t] = <<>>
         \/ t \notin Outstanding /\ t \notin dropped /\ Len(results[t]) = 1

Counted == {"counted", "request", "reg", "write_err", "write_err_flag"}

\* pending_task_count, which receive_loop waits on before it exits, counts the
\* tasks in the channel and the one the sender is working on, and never wraps
\* below zero; each request that failed to encode adds one for good.
CountExact ==
  pending_task_count = Len(pending_tasks) + (IF spc \in Counted THEN 1 ELSE 0)
                         + Cardinality(unsent)

\* Once receive_loop has returned nothing is left behind in the timer or its
\* channel, and the sender is not on its way to put a task there: the counter
\* raised before the closed check and the flag set before the counter check
\* exclude each other's blind spot.
NothingStranded ==
  rpc \in {"gone", "freed"} => Registered = {} /\ spc \notin {"request", "reg"}

\* send_task never waits for a full window while requests that would make room
\* sit unflushed in the write buffer.
FlushedBeforeWait == spc = "throttle" /\ ~throttle => wbuf = {}

\* However sends, responses, timeouts and cleanups interleave, at most one task
\* more than the configured window is in flight.
WindowBound == get_inflight_count <= Thresholds + 1

\* The registration channel, sized from the throttler's window, has room
\* whenever reg_task sends, so the sender never blocks there.
RegNeverBlocks == spc = "reg" => Len(pending_tasks) < ChannelCap

\* The receiver discards a frame only if no live task waits for it: neither the
\* min_delay_seq shortcut nor the registration race makes take_task miss.  Only
\* after stop_reg_task may a task that is still in the channel be missed.
LiveFrameKept ==
  [][(rpc \in {"hdr", "hdr_timed", "wait"} /\ rpc' = "dump" /\ ~reg_stopped_flag)
       => rseq' \notin SeqsOf(Registered \cup cur)]_vars

\* adjust_task_queue times a task out no earlier than task_timeout full seconds
\* after its registration.
NoEarlyTimeout ==
  [][\A t \in Task : results'[t] # results[t] /\ results'[t][Len(results'[t])] = "timeout"
       => age[t] >= TaskTimeout]_vars

\* The receiver stops reading a closed connection that has shown no error.
GivesUp == rpc \in {"loop", "hdr_timed"} /\ rpc' = "failed" /\ up /\ ~has_err

\* On Drop, the response reader coroutine does not exit until all the ClientTask
\* have a response or task_timeout is reached (the head of client/stream.rs).
GracefulExit == [][GivesUp => Registered = {}]_vars

\* What the code does hold to, whatever the two timeouts are: a closed connection
\* without an error is given up with tasks waiting only when every one of them
\* has waited for read_timeout (transport/tcp/src/client.rs, read_resp) since it
\* was registered, or when the close had cut off the header being read.
PatientExit ==
  [][GivesUp /\ ~Cut => \A t \in Registered : ReadTimeout > 0 /\ age[t] >= ReadTimeout]_vars

Verdict(t) ==
  CASE t \in dropped -> "lost"
    [] t \notin dropped /\ results[t] = <<>> -> "none"
    [] OTHER -> results[t][Len(results[t])]

Ledger == INSTANCE TaskLedger WITH
  calls <- submitted, outcome <- [t \in Task |-> Verdict(t)], open <- rpc # "freed"

\* The connection implements the abstract ledger of tasks: what a task came back
\* with is never replaced, tasks come back only after they were accepted, and
\* the shared state is freed only when no task is owed.
LedgerSpec == Ledger!Spec

\* The framework signals completion of every task it was given.
NoTaskDropped == dropped = {}

\* What is asked of the connection comes to an end: again and again every task
\* given to send_task has been completed (or destroyed), and a dropped connection
\* is torn down, the receiver gone and the shared state freed.  Not so after a
\* request that did not encode: the count it leaves behind keeps receive_loop
\* waiting for ever, and a task in its hands with it.
Settles ==
  []<>(\/ unsent # {}
       \/ /\ \A t \in 1 .. submitted : IsDone(t) \/ t \in dropped
          /\ spc = "gone" => rpc = "freed")
================================================================================
