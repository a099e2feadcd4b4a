--------------------------- MODULE BackgroundTasks ---------------------------
(***************************************************************************)
(* The background task table: background.Manager, the tasks other parts of *)
(* the agent register in it, the goroutine that adopts a command already   *)
(* running in a container, Kill, the retention sweep, and the waiters of   *)
(* wait_until.                                                             *)
(*                                                                         *)
(* A section under Task.mu is a step.  Manager.mu only guards the map.     *)
(* Kill marks the task in one section and cancels its context in another.  *)
(*                                                                         *)
(* Abstractions.  Output, reports and events are left out, and with them   *)
(* the idle outcome of a wait, which is a wait that gives up.  A task is   *)
(* as old as the sweep finds it.  The sweep reads a task without its lock; *)
(* what it can read is a task that ended at no time, which it removes.     *)
(***************************************************************************)
CONSTANTS
  ManagedTasks,  \* tasks whose work another component drives
  ExecTasks,     \* commands handed over by the container tool
  Waiters,       \* calls of WaitForSessionTask
  NoTask

ASSUME TableAssumption ==
  ManagedTasks \cap ExecTasks = {} /\ NoTask \notin ManagedTasks \cup ExecTasks

VARIABLES
  status,    \* Task.Status, "none" before the task is registered
  listed,    \* keys of Manager.tasks
  ctx,       \* Task.cancel: no context, a live one, or a cancelled one
  killing,   \* tasks Kill has marked and not cancelled yet
  wait,      \* step of each waiter and its task
  stalled,   \* Task.stalled
  runner,    \* step of the goroutine runAdopt of each command
  process    \* commands still running in their container

table    == <<status, listed, ctx, killing>>
commands == <<stalled, runner, process>>
taskVars == <<table, wait, commands>>

Tasks  == ManagedTasks \cup ExecTasks
Ended  == {"completed", "failed", "killed"}
Open   == {"queued", "running"}
NoWait == [at |-> "idle", task |-> NoTask]

TableInit ==
  /\ status = [t \in Tasks |-> "none"] /\ listed = {}
  /\ ctx = [t \in Tasks |-> "none"] /\ killing = {}
  /\ wait = [w \in Waiters |-> NoWait]
  /\ stalled = {}
  /\ runner = [e \in ExecTasks |-> "none"] /\ process = {}

\* signalChangedLocked: whoever sleeps on the task looks at it again.
Signal(t) ==
  wait' = [w \in Waiters |-> IF wait[w] = [at |-> "asleep", task |-> t]
                             THEN [wait[w] EXCEPT !.at = "check"] ELSE wait[w]]

CancelContext(t) == ctx' = [ctx EXCEPT ![t] = IF @ = "live" THEN "done" ELSE @]
-----------------------------------------------------------------------------
(* Tasks driven by another component                                       *)

\* StartAgentTask; the other kinds start running.
StartAgentTask(t, queued) ==
  /\ status[t] = "none"
  /\ status' = [status EXCEPT ![t] = IF queued THEN "queued" ELSE "running"]
  /\ ctx' = [ctx EXCEPT ![t] = IF queued THEN "none" ELSE "live"]
  /\ listed' = listed \cup {t}
  /\ UNCHANGED <<killing, wait>>

\* The answers of MarkAgentTaskRunning: not found, killed, or started.
CanMarkRunning(t) == t \in listed /\ status[t] = "queued"

\* The context is cancelled by nobody: its cancel function is not kept.
MarkAgentTaskRunning_KeepsNoCancel(t) ==
  /\ CanMarkRunning(t)
  /\ status' = [status EXCEPT ![t] = "running"]
  /\ Signal(t)
  /\ UNCHANGED <<listed, ctx, killing>>

MarkAgentTaskRunning(t) ==
  /\ CanMarkRunning(t)
  /\ status' = [status EXCEPT ![t] = "running"]
  /\ ctx' = [ctx EXCEPT ![t] = "live"]
  /\ Signal(t)
  /\ UNCHANGED <<listed, killing>>

\* The waiters are not told.
CompleteAgentTask_Silent(t, result) ==
  /\ IF t \in listed /\ status[t] # "killed"
     THEN status' = [status EXCEPT ![t] = result]
     ELSE UNCHANGED status
  /\ IF t \in listed THEN CancelContext(t) ELSE UNCHANGED ctx
  /\ UNCHANGED <<listed, killing, wait>>

\* CompleteAgentTask: a task nobody lists any more is left as it is.
CompleteAgentTask(t, result) ==
  /\ IF t \in listed /\ status[t] # "killed"
     THEN status' = [status EXCEPT ![t] = result] /\ Signal(t)
     ELSE UNCHANGED <<status, wait>>
  /\ IF t \in listed THEN CancelContext(t) ELSE UNCHANGED ctx
  /\ UNCHANGED <<listed, killing>>
-----------------------------------------------------------------------------
(* Commands of a container                                                 *)

\* SpawnAdopt registers a running command; its goroutine has not started.
SpawnAdopt(e) ==
  /\ status[e] = "none"
  /\ status' = [status EXCEPT ![e] = "running"]
  /\ listed' = listed \cup {e}
  /\ runner' = [runner EXCEPT ![e] = "spawned"]
  /\ process' = process \cup {e}
  /\ UNCHANGED <<ctx, killing, wait, stalled>>

\* runAdopt makes a context of its own; the stream of the command has another.
RunAdopt(e) ==
  /\ runner[e] = "spawned"
  /\ runner' = [runner EXCEPT ![e] = "waiting"]
  /\ ctx' = [ctx EXCEPT ![e] = "live"]
  /\ UNCHANGED <<status, listed, killing, wait, stalled, process>>

\* The goroutine listens to its context only.
FinishAdopt_WaitsForContext(e) ==
  /\ runner[e] = "waiting" /\ ctx[e] = "done"
  /\ runner' = [runner EXCEPT ![e] = "ended"]
  /\ IF status[e] = "killed" THEN UNCHANGED <<status, wait>>
     ELSE status' = [status EXCEPT ![e] = "failed"] /\ Signal(e)
  /\ CancelContext(e)
  /\ UNCHANGED <<listed, killing, stalled, process>>

\* completeTask, with the result of the command or without one.
FinishAdopt(e) ==
  /\ runner[e] = "waiting"
  /\ e \notin process \/ ctx[e] = "done"
  /\ runner' = [runner EXCEPT ![e] = "ended"]
  /\ IF status[e] = "killed" THEN UNCHANGED <<status, wait>>
     ELSE /\ \E result \in (IF e \in process THEN {"failed"} ELSE {"completed", "failed"}) :
               status' = [status EXCEPT ![e] = result]
          /\ Signal(e)
  /\ CancelContext(e)
  /\ UNCHANGED <<listed, killing, stalled, process>>

\* The command exits, or its stream breaks or reaches its time limit.
ProcessEnds(e) ==
  /\ e \in process
  /\ process' = process \ {e}
  /\ UNCHANGED <<table, wait, stalled, runner>>

\* stallWatchdog checks the status and marks the task in two sections: it may
\* mark a task that has just ended.
MarkStalled(e) ==
  /\ runner[e] \in {"waiting", "ended"} /\ e \notin stalled
  /\ stalled' = stalled \cup {e}
  /\ Signal(e)
  /\ UNCHANGED <<table, runner, process>>
-----------------------------------------------------------------------------
(* Kill, the sweep and the waiters                                         *)

Kill(t) ==
  /\ t \in listed /\ status[t] \in Open
  /\ status' = [status EXCEPT ![t] = "killed"]
  /\ killing' = killing \cup {t}
  /\ Signal(t)
  /\ UNCHANGED <<listed, ctx, commands>>

CancelKilled(t) ==
  /\ t \in killing
  /\ killing' = killing \ {t}
  /\ CancelContext(t)
  /\ UNCHANGED <<status, listed, wait, commands>>

\* The deadline of a task passes.
Deadline(t) ==
  /\ ctx[t] = "live"
  /\ CancelContext(t)
  /\ UNCHANGED <<status, listed, killing, wait, commands>>

\* Cleanup removes the ended tasks that are old enough.  A queued task has no time
\* of completion, which is earlier than every cutoff.
Cleanup(old) ==
  /\ old \subseteq {t \in listed : status[t] \in Ended}
  /\ listed' = listed \ (old \cup {t \in Tasks : status[t] = "queued"})
  /\ listed' # listed
  /\ UNCHANGED <<status, ctx, killing, wait, commands>>

BeginWait(w, t) ==
  /\ wait[w].at = "idle" /\ t \in listed
  /\ wait' = [wait EXCEPT ![w] = [at |-> "check", task |-> t]]
  /\ UNCHANGED <<table, commands>>

\* The task has ended, or waits for input itself.
Settled(t) == status[t] \in Ended \/ (t \in stalled /\ status[t] = "running")

\* The status is read and the channel to sleep on is taken in one section.
CheckTask(w) ==
  /\ wait[w].at = "check"
  /\ wait' = [wait EXCEPT ![w] = IF Settled(@.task) THEN NoWait ELSE [@ EXCEPT !.at = "asleep"]]
  /\ UNCHANGED <<table, commands>>

\* The time of the call is over, or the output has gone quiet.
GiveUp(w) ==
  /\ wait[w].at = "asleep"
  /\ wait' = [wait EXCEPT ![w] = NoWait]
  /\ UNCHANGED <<table, commands>>
-----------------------------------------------------------------------------
\* The goroutine of an adopted command.
AdoptStep(e) == RunAdopt(e) \/ FinishAdopt(e)

TableNext ==
  \/ \E e \in ExecTasks : SpawnAdopt(e) \/ AdoptStep(e) \/ ProcessEnds(e) \/ MarkStalled(e)
  \/ \E t \in Tasks : Kill(t) \/ CancelKilled(t) \/ Deadline(t)
  \/ \E old \in SUBSET listed : Cleanup(old)
  \/ \E w \in Waiters : CheckTask(w) \/ GiveUp(w) \/ \E t \in Tasks : BeginWait(w, t)

\* Domains of the variables of the task table.
TableTypeOK ==
  /\ status \in [Tasks -> {"none"} \cup Open \cup Ended]
  /\ listed \subseteq Tasks /\ killing \subseteq Tasks
  /\ ctx \in [Tasks -> {"none", "live", "done"}]
  /\ wait \in [Waiters -> [at : {"idle", "check", "asleep"}, task : Tasks \cup {NoTask}]]
  /\ stalled \subseteq ExecTasks /\ process \subseteq ExecTasks
  /\ runner \in [ExecTasks -> {"none", "spawned", "waiting", "ended"}]
=============================================================================
