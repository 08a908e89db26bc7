--------------------------- MODULE GracefulServer --------------------------
(***************************************************************************)
(* stream/src/server/graceful.rs: a server process that starts its         *)
(* successor on a signal, hands it the listening sockets and leaves once   *)
(* the successor has announced itself by a file named after its pid.       *)
(* Processes, signals, files and sockets are those of the system (external *)
(* to the code): a socket listens as long as some process has it open, a   *)
(* second bind of its address fails, and a pid may be given out again when *)
(* its process is gone and reaped.                                         *)
(***************************************************************************)
EXTENDS Naturals, Sequences, Functions

CONSTANTS
  Pids,           \* process ids
  First,          \* the process the operator starts
  Addrs,          \* the addresses the program listens on, in the order of the calls
  RestartTimeout, \* restart_timeout, in rounds of the polling loop
  Reuse,          \* whether a pid may be given out again
  Faults,         \* what may fail: "convert", "pid", "sync", "spawn", "remove", "wait"
  MaxFaults, MaxCrashes, MaxSignals   \* bounds

ASSUME GracefulAssumption ==
  /\ Pids \subseteq Nat \ {0} /\ First \in Pids /\ Reuse \in BOOLEAN
  /\ Addrs \in Seq(Range(Addrs)) /\ Len(Addrs) > 0 /\ RestartTimeout \in Nat
  /\ MaxFaults \in Nat /\ MaxCrashes \in Nat /\ MaxSignals \in Nat

VARIABLES
  st,             \* where each process is
  recovered, recover,  \* started by a predecessor, inherited sockets not taken yet
  listen,         \* listen_fds
  held,           \* sockets each process has open
  child, waited,  \* in restart(): the successor, rounds of polling
  pend,           \* signals delivered and not handled
  pid_file,       \* the content of the pid file
  sync_files,     \* pids for which a file prog_<pid> exists
  faults, crashes, signals,
  announced,      \* history: the process has written the pid file
  misled,         \* history: the process serves on although a successor that had
                  \* written the pid file is dead
  excused         \* history: events that excuse a property

vars == <<st, recovered, recover, listen, held, child, waited, pend, pid_file,
          sync_files, faults, crashes, signals, announced, misled, excused>>

env == <<faults, crashes, signals>>

\* "none" is a pid no process has; "gone" is an exited process not waited for.
Alive(p) == st[p] \notin {"none", "gone"}
NoPid == 0

\* A fault of the system, within the bound.
Fault(f) == f \in Faults /\ faults < MaxFaults /\ faults' = faults + 1

Init ==
  /\ st = [p \in Pids |-> IF p = First THEN "init" ELSE "none"]
  /\ recovered = [p \in Pids |-> FALSE]
  /\ recover = [p \in Pids |-> <<>>]
  /\ listen = [p \in Pids |-> <<>>]
  /\ held = [p \in Pids |-> {}]
  /\ child = [p \in Pids |-> NoPid]
  /\ waited = [p \in Pids |-> 0]
  /\ pend = [p \in Pids |-> {}]
  /\ pid_file = NoPid
  /\ sync_files = {}
  /\ faults = 0 /\ crashes = 0 /\ signals = 0
  /\ announced = [p \in Pids |-> FALSE]
  /\ misled = {}
  /\ excused = {}

\* The end of a process: its sockets are closed.  A predecessor that is still there
\* keeps the pid from being given out again.
End(p) ==
  /\ st' = [st EXCEPT ![p] = "gone"]
  /\ held' = [held EXCEPT ![p] = {}]

----------------------------------------------------------------------------
(* Starting. *)

NextAddr(p) == Addrs[Len(listen[p]) + 1]

Inherit_Last(fds) == [fd |-> fds[Len(fds)], rest |-> SubSeq(fds, 1, Len(fds) - 1)]

\* recover_listen_fds.remove(0): the socket taken, and those left.
Inherit(fds) == [fd |-> Head(fds), rest |-> Tail(fds)]

\* new_listener, with an inherited socket that converts.
TakeListener(p) ==
  /\ st[p] = "init" /\ Len(listen[p]) < Len(Addrs) /\ recover[p] # <<>>
  /\ listen' = [listen EXCEPT ![p] = Append(@, Inherit(recover[p]).fd)]
  /\ recover' = [recover EXCEPT ![p] = Inherit(@).rest]
  /\ UNCHANGED <<st, recovered, held, child, waited, pend, pid_file, sync_files, env,
                 announced, misled, excused>>

\* new_listener, with nothing to inherit or a socket that does not convert: bind.  It
\* fails if the address is in use, and the program does not start.
BindListener(p) ==
  /\ st[p] = "init" /\ Len(listen[p]) < Len(Addrs)
  /\ IF recover[p] = <<>> THEN UNCHANGED <<recover, faults>>
     ELSE Fault("convert") /\ recover' = [recover EXCEPT ![p] = Inherit(@).rest]
  /\ IF \E q \in Pids : NextAddr(p) \in held[q]
     THEN End(p) /\ UNCHANGED listen
     ELSE /\ listen' = [listen EXCEPT ![p] = Append(@, NextAddr(p))]
          /\ held' = [held EXCEPT ![p] = @ \cup {NextAddr(p)}]
          /\ UNCHANGED st
  /\ UNCHANGED <<recovered, child, waited, pend, pid_file, sync_files, crashes, signals,
                 announced, misled, excused>>

write_pid_file_Once(p) == IF recovered[p] THEN pid_file ELSE p

\* The content of the pid file after write_pid_file.
write_pid_file(p) == p

\* ready: write_pid_file.  If it fails the program does not start; the file may have
\* been truncated or written before the failure.
WritePidFile(p) ==
  /\ st[p] = "init" /\ Len(listen[p]) = Len(Addrs)
  /\ \/ /\ st' = [st EXCEPT ![p] = IF recovered[p] THEN "sync" ELSE "loop"]
        /\ pid_file' = write_pid_file(p)
        /\ announced' = [announced EXCEPT ![p] = TRUE]
        /\ UNCHANGED <<held, faults, excused>>
     \/ /\ Fault("pid") /\ End(p)
        /\ pid_file' \in {pid_file, NoPid, p}
        /\ excused' = IF pid_file' = pid_file THEN excused ELSE excused \cup {"torn"}
        /\ UNCHANGED announced
  /\ UNCHANGED <<recovered, recover, listen, child, waited, pend, sync_files, crashes, signals, misled>>

\* ready: write_child_pid_file, whose failure is ignored; then the signal loop.
WriteSyncFile(p) ==
  /\ st[p] = "sync"
  /\ \/ sync_files' = sync_files \cup {p} /\ UNCHANGED faults
     \/ Fault("sync") /\ UNCHANGED sync_files
  /\ st' = [st EXCEPT ![p] = "loop"]
  /\ UNCHANGED <<recovered, recover, listen, held, child, waited, pend, pid_file, crashes,
                 signals, announced, misled, excused>>

----------------------------------------------------------------------------
(* Signals and restart. *)

\* A signal arrives; in restart() it stays pending.
Signal(p, s) ==
  /\ st[p] \in {"loop", "wait"} /\ signals < MaxSignals
  /\ signals' = signals + 1
  /\ pend' = [pend EXCEPT ![p] = @ \cup {s}]
  /\ UNCHANGED <<st, recovered, recover, listen, held, child, waited, pid_file,
                 sync_files, faults, crashes, announced, misled, excused>>

\* A close signal: break, and exit_closure runs.
Close(p) ==
  /\ st[p] = "loop" /\ "close" \in pend[p]
  /\ st' = [st EXCEPT ![p] = "exit"]
  /\ pend' = [pend EXCEPT ![p] = @ \ {"close"}]
  /\ excused' = excused \cup {"closed"}
  /\ UNCHANGED <<recovered, recover, listen, held, child, waited, pid_file, sync_files,
                 env, announced, misled>>

\* A pid for a new process: the next one, or one whose process is gone and reaped.
Unused(q) ==
  \/ st[q] = "none" /\ \A r \in Pids : st[r] = "none" => q <= r
  \/ Reuse /\ st[q] = "gone" /\ \A p \in Pids : child[p] # q

\* restart, up to the first look for the file: spawn a successor that inherits the
\* listening sockets, or fail to and go on.
Spawn(p) ==
  /\ st[p] = "loop" /\ "restart" \in pend[p]
  /\ \/ \E q \in Pids :
          /\ Unused(q) /\ q # p
          /\ pend' = [pend EXCEPT ![p] = @ \ {"restart"}, ![q] = {}]
          /\ st' = [st EXCEPT ![p] = "wait", ![q] = "init"]
          /\ child' = [child EXCEPT ![p] = q, ![q] = NoPid]
          /\ waited' = [waited EXCEPT ![p] = 0]
          /\ recovered' = [recovered EXCEPT ![q] = TRUE]
          /\ recover' = [recover EXCEPT ![q] = listen[p]]
          /\ listen' = [listen EXCEPT ![q] = <<>>]
          /\ held' = [held EXCEPT ![q] = Range(listen[p])]
          /\ announced' = [announced EXCEPT ![q] = FALSE]
          /\ misled' = misled \ {q}
          /\ UNCHANGED faults
     \/ /\ Fault("spawn")
        /\ pend' = [pend EXCEPT ![p] = @ \ {"restart"}]
        /\ UNCHANGED <<st, recovered, recover, listen, held, child, waited, announced, misled>>
  /\ UNCHANGED <<pid_file, sync_files, crashes, signals, excused>>

\* The condition of the polling loop, and a round of it that ends in a sleep.
InTime(p) == waited[p] <= RestartTimeout

Round_Restarts(p) == waited[p]

Round(p) == waited[p] + 1

\* The loop of restart finds the file of the successor, removes it, and restart
\* returns Ok: the signal loop ends.
Found(p) ==
  /\ st[p] = "wait" /\ InTime(p) /\ child[p] \in sync_files
  /\ \/ sync_files' = sync_files \ {child[p]} /\ UNCHANGED faults
     \/ Fault("remove") /\ UNCHANGED sync_files
  /\ st' = [st EXCEPT ![p] = "exit"]
  /\ UNCHANGED <<recovered, recover, listen, held, child, waited, pend, pid_file, crashes,
                 signals, announced, misled, excused>>

\* It does not, and sleeps for a second.
Sleep(p) ==
  /\ st[p] = "wait" /\ InTime(p) /\ child[p] \notin sync_files
  /\ waited' = [waited EXCEPT ![p] = Round(p)]
  /\ UNCHANGED <<st, recovered, recover, listen, held, child, pend, pid_file, sync_files,
                 env, announced, misled, excused>>

AfterTimeout_Leave(p) == "exit"

AfterTimeout_Stay(p) == "loop"

\* What try_wait says once the time is up: leave if the successor lives, stay if not.
AfterTimeout(p) == IF Alive(child[p]) THEN "exit" ELSE "loop"

\* A process other than p is the server or may become it.
Rival(p) ==
  \E r \in Pids \ {p} :
    st[r] \in {"init", "sync", "loop"} \/ (st[r] = "wait" /\ ~announced[child[r]])

\* restart, after the loop: the successor is dead, or is trusted to come up, or
\* nothing is known of it.
TimeUp(p) ==
  /\ st[p] = "wait" /\ ~InTime(p)
  /\ \/ /\ st' = [st EXCEPT ![p] = AfterTimeout(p)]
        /\ child' = [child EXCEPT ![p] = IF Alive(child[p]) THEN @ ELSE NoPid]
        /\ excused' = excused \cup
             (IF Alive(child[p]) THEN IF announced[child[p]] THEN {} ELSE {"late"}
              ELSE IF announced[child[p]] /\ Rival(p) THEN {"outrun"} ELSE {})
        /\ misled' = IF ~Alive(child[p]) /\ announced[child[p]] THEN misled \cup {p} ELSE misled
        /\ UNCHANGED faults
     \/ /\ Fault("wait")
        /\ st' = [st EXCEPT ![p] = "loop"]
        /\ excused' = excused \cup {"two"}
        /\ UNCHANGED <<child, misled>>
  /\ UNCHANGED <<recovered, recover, listen, held, waited, pend, pid_file, sync_files,
                 crashes, signals, announced>>

\* exit_closure has returned, and with it ready and the program.
Exit(p) ==
  /\ st[p] = "exit"
  /\ End(p)
  /\ child' = [child EXCEPT ![p] = NoPid]
  /\ UNCHANGED <<recovered, recover, listen, waited, pend, pid_file, sync_files, env,
                 announced, misled, excused>>

\* A process dies: a panic, a kill, or a signal before its handler is installed.
Crash(p) ==
  /\ Alive(p) /\ crashes < MaxCrashes
  /\ crashes' = crashes + 1
  /\ End(p)
  /\ child' = [child EXCEPT ![p] = NoPid]
  /\ excused' = IF announced[p] THEN excused \cup {"crash"} ELSE excused
  /\ UNCHANGED <<recovered, recover, listen, waited, pend, pid_file, sync_files, faults,
                 signals, announced, misled>>

\* A process waits for signals, or none is left.
Idle ==
  /\ \A p \in Pids : st[p] \in {"none", "gone"} \/ (st[p] = "loop" /\ pend[p] = {})
  /\ UNCHANGED vars

Step(p) ==
  \/ TakeListener(p) \/ BindListener(p) \/ WritePidFile(p) \/ WriteSyncFile(p)
  \/ Close(p) \/ Spawn(p) \/ Found(p) \/ Sleep(p) \/ TimeUp(p) \/ Exit(p)

Next ==
  \/ \E p \in Pids : \/ TakeListener(p) \/ BindListener(p) \/ WritePidFile(p)
                     \/ WriteSyncFile(p) \/ Close(p) \/ Spawn(p) \/ Found(p) \/ Sleep(p)
                     \/ TimeUp(p) \/ Exit(p) \/ Crash(p)
                     \/ \E s \in {"close", "restart"} : Signal(p, s)
  \/ Idle

Spec == Init /\ [][Next]_vars

\* The scheduler runs every process; nothing else is forced.
FairSpec == Spec /\ \A p \in Pids : WF_vars(Step(p))

----------------------------------------------------------------------------
(* Properties. *)

Places == {"none", "init", "sync", "loop", "wait", "exit", "gone"}

\* Every variable of the processes, files and sockets has its type; restart() polls
\* no longer than restart_timeout.
TypeOK ==
  /\ st \in [Pids -> Places]
  /\ recovered \in [Pids -> BOOLEAN] /\ announced \in [Pids -> BOOLEAN]
  /\ recover \in [Pids -> Seq(Range(Addrs))]
  /\ listen \in [Pids -> Seq(Range(Addrs))]
  /\ held \in [Pids -> SUBSET Range(Addrs)]
  /\ child \in [Pids -> Pids \cup {NoPid}]
  /\ waited \in [Pids -> 0..(RestartTimeout + 1)]
  /\ pend \in [Pids -> SUBSET {"close", "restart"}]
  /\ pid_file \in Pids \cup {NoPid} /\ sync_files \subseteq Pids
  /\ faults \in 0..MaxFaults /\ crashes \in 0..MaxCrashes /\ signals \in 0..MaxSignals
  /\ misled \subseteq Pids
  /\ excused \subseteq {"closed", "crash", "late", "outrun", "torn", "two"}

\* A process past its start has all its sockets, each at its place in the list it
\* would hand on (new_listener: "always call with the same order").
ListensInOrder ==
  \A p \in Pids : st[p] \in {"sync", "loop", "wait", "exit"} =>
    listen[p] = Addrs /\ held[p] = Range(Addrs)

\* Once the program is up, every address stays open without a gap: a failed start of
\* a successor (its bind, its pid file, its death before it is ready) never takes the
\* service down.  Only a close, the death of a ready process, or a successor that fails
\* after the time its predecessor gives it may ("All socket listener managed by
\* `Graceful` is inherited to the new program").
AddressesKept ==
  (\E p \in Pids : announced[p]) /\ excused \cap {"closed", "crash", "late"} = {} =>
    \A i \in DOMAIN Addrs : \E p \in Pids : Addrs[i] \in held[p]

\* Two processes never both take signals as the server, although successors came and
\* went at any point.  The exceptions: try_wait failed, or the successor had been ready,
\* had handed over to one of its own and was gone when try_wait was called.
OneServer ==
  excused \cap {"two", "outrun"} = {} =>
    \A p, q \in Pids : st[p] = "loop" /\ st[q] = "loop" => p = q

\* With the same exceptions, and unless writing the file failed midway, the pid file
\* names the process that takes signals as the server, or names a successor of it that
\* had written the file and was dead when restart() gave it up.  In that case the
\* process goes on serving under a stale pid file: restart() does not write it back.
PidFileCurrent ==
  \A p \in Pids :
    st[p] = "loop" /\ excused \cap {"two", "outrun", "torn"} = {}
      => pid_file = p \/ p \in misled

\* A process that leaves for its successor leaves a successor that is alive or was
\* ready (restart: "child is exited, parent do not exit").
ChildTookOver ==
  [][\A p \in Pids : st[p] = "wait" /\ st'[p] = "exit" =>
       Alive(child[p]) \/ announced[child[p]]]_vars

\* restart() returns.
RestartReturns == \A p \in Pids : st[p] = "wait" ~> st[p] # "wait"

\* The program comes up or was excused: restarts, however they end, lead back to a
\* process that waits for signals.
KeepsServing ==
  (\E p \in Pids : announced[p]) ~>
    ((\E p \in Pids : st[p] = "loop") \/ excused \cap {"closed", "crash", "late"} # {})

=============================================================================
