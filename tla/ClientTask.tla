------------------------------ MODULE ClientTask ------------------------------
(***************************************************************************)
(* The tasks a user hands to a client connection, as the framework sees    *)
(* them (stream/src/client/task.rs, and ClientFacts::error_handle of       *)
(* stream/src/client/mod.rs): a sequence number that send_request assigns, *)
(* and the completions the framework has delivered through done() or       *)
(* error_handle().  A task is named by the order of its send_task call.    *)
(***************************************************************************)
EXTENDS Naturals, Sequences

CONSTANT MaxTasks     \* bound: how often the user calls send_task

ASSUME MaxTasksAssumption == MaxTasks \in Nat

Task == 1 .. MaxTasks

\* What a completed task carries: what its response says (set_ok, an error of the
\* server, or a decode error: WireCall), RpcIntErr::IO, RpcIntErr::Timeout.
Outcome == {"answer", "io", "timeout"}

VARIABLES
  seq_of,    \* ClientTaskCommon.seq of each task; 0 until set_seq
  results,   \* the completions delivered for each task, in order
  dropped    \* the tasks destroyed without any completion

taskVars == <<seq_of, results, dropped>>

TaskTypeOK ==
  /\ seq_of \in [Task -> Nat]
  /\ results \in [Task -> Seq(Outcome)]
  /\ dropped \subseteq Task

TaskInit ==
  /\ seq_of = [t \in Task |-> 0]
  /\ results = [t \in Task |-> <<>>]
  /\ dropped = {}

set_seq(t, s) == seq_of' = [seq_of EXCEPT ![t] = s]

\* set_ok / set_rpc_error / set_custom_error followed by done() or
\* error_handle(), for every task of S.
Complete(S, o) ==
  results' = [t \in Task |-> IF t \in S THEN Append(results[t], o) ELSE results[t]]

IsDone(t) == results[t] # <<>>

SeqsOf(S) == {seq_of[t] : t \in S}
================================================================================
