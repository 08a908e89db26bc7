------------------------------ MODULE TaskLedger ------------------------------
(***************************************************************************)
(* What a client connection promises its user (client/task.rs,             *)
(* ClientTaskDone, and the documentation of ClientStream): tasks are       *)
(* accepted one after another, each comes back at most once and for good   *)
(* with an outcome, and the connection is only freed when it owes nobody   *)
(* an answer.  Tasks may also be lost; in this abstract view that is an    *)
(* outcome of its own.                                                     *)
(***************************************************************************)
EXTENDS Naturals

CONSTANT MaxTasks

VARIABLES
  calls,     \* how many tasks were handed over
  outcome,   \* "none" while a task is owed
  open       \* the connection has not been freed

ledgerVars == <<calls, outcome, open>>

Owed == {t \in 1 .. calls : outcome[t] = "none"}

Init ==
  /\ calls = 0
  /\ outcome = [t \in 1 .. MaxTasks |-> "none"]
  /\ open = TRUE

Submit ==
  /\ open
  /\ calls < MaxTasks
  /\ calls' = calls + 1
  /\ UNCHANGED <<outcome, open>>

\* Some of the tasks that are owed get the same outcome, all in one go.
Settle(S, o) ==
  /\ open
  /\ outcome' = [t \in 1 .. MaxTasks |-> IF t \in S THEN o ELSE outcome[t]]
  /\ UNCHANGED <<calls, open>>

Free ==
  /\ open
  /\ Owed = {}
  /\ open' = FALSE
  /\ UNCHANGED <<calls, outcome>>

Next ==
  \/ Submit
  \/ \E S \in SUBSET Owed, o \in {"answer", "io", "timeout", "lost"} : Settle(S, o)
  \/ Free

Spec == Init /\ [][Next]_ledgerVars
================================================================================
