------------------------ MODULE SubagentQueue_proofs ------------------------
(***************************************************************************)
(* Proofs about the background task table and the subagent queue on it,    *)
(* for any tasks, waiters and failing calls.                               *)
(*                                                                         *)
(* Of the table: nobody sleeps on a task that has ended, a task that ended *)
(* stays as it is, and a kill reaches the run of its task.  Added to make  *)
(* these inductive: an adopted command is never queued and has no stall    *)
(* before it has a goroutine, and a request a goroutine works on is        *)
(* running, or is killed with its context there to be cancelled.           *)
(*                                                                         *)
(* Of the queue: one goroutine drives the agent, on the request it names,  *)
(* and the next request finds the slot free.  Added: what is in the queue  *)
(* is there once and has not started, a request about to be promoted has   *)
(* left the queue, and the slot's holder still executes.                   *)
(***************************************************************************)
EXTENDS SubagentQueue, SequenceTheorems, WellFoundedInduction, TLAPS

Statuses == {"none"} \cup Open \cup Ended
Wait     == {NoWait} \cup [at : {"check", "asleep"}, task : Tasks]

\* The part of QueueTypeOK the proofs rest on.
TableTypes ==
  /\ status \in [Tasks -> Statuses]
  /\ ctx \in [Tasks -> {"none", "live", "done"}]
  /\ listed \subseteq Tasks
  /\ wait \in [Waiters -> Wait]
  /\ stalled \subseteq ExecTasks
  /\ runner \in [ExecTasks -> {"none", "spawned", "waiting", "ended"}]
  /\ result \in [ManagedTasks -> Ended]
  /\ pc \in [ManagedTasks -> Steps]

CommandsStartRunning ==
  \A e \in ExecTasks :
    /\ status[e] # "queued"
    /\ status[e] = "none" => runner[e] = "none"
    /\ runner[e] = "none" => e \notin stalled
    /\ runner[e] \in {"spawned", "waiting"} => status[e] \in {"running", "killed"}

WorkedOn(t) ==
  \/ status[t] = "running" /\ ctx[t] # "none"
  \/ status[t] = "killed" /\ (ctx[t] = "done" \/ (t \in killing /\ ctx[t] # "none"))

WorkHasContext == \A t \in ManagedTasks : pc[t] \in Working => WorkedOn(t)

\* The inductive invariant of the table and the queue.
TableInvariant ==
  TableTypes /\ CommandsStartRunning /\ WorkHasContext /\ NobodySleepsOnEnded
-----------------------------------------------------------------------------
\* Before the first task is registered, nobody waits.
LEMMA InitEstablishes == QueueInit => TableInvariant
<1> SUFFICES ASSUME QueueInit PROVE TableInvariant
  OBVIOUS
<1> USE DEF QueueInit, TableInit
<1>1. TableTypes
  BY DEF TableTypes, Statuses, Wait, NoWait, Steps, Ended
<1>2. CommandsStartRunning
  BY DEF CommandsStartRunning, Tasks
<1>3. WorkHasContext
  BY DEF WorkHasContext, Working
<1>4. NobodySleepsOnEnded
  BY DEF NobodySleepsOnEnded, NoWait
<1> QED BY <1>1, <1>2, <1>3, <1>4 DEF TableInvariant

\* A signal leaves nobody asleep on its task, and everybody else where they are.
LEMMA SignalWakes ==
  ASSUME TableTypes, NEW t \in Tasks, Signal(t)
  PROVE  /\ wait' \in [Waiters -> Wait]
         /\ \A w \in Waiters : wait'[w].at = "asleep" => wait'[w] = wait[w] /\ wait[w].task # t
<1>1. \A w \in Waiters : wait[w] \in Wait
  BY DEF TableTypes
<1>2. \A w \in Waiters : wait[w].task = t /\ wait[w].at = "asleep" =>
                          wait[w] = [at |-> "asleep", task |-> t]
  BY <1>1 DEF Wait, NoWait
<1>3. \A w \in Waiters : wait'[w] = IF wait[w] = [at |-> "asleep", task |-> t]
                                    THEN [wait[w] EXCEPT !.at = "check"] ELSE wait[w]
  BY DEF Signal
<1>4. [[at |-> "asleep", task |-> t] EXCEPT !.at = "check"] = [at |-> "check", task |-> t]
  OBVIOUS
<1>5. wait' \in [Waiters -> Wait]
  BY <1>1, <1>4 DEF Signal, Wait
<1> QED BY <1>2, <1>3, <1>4, <1>5

\* Sleepers are safe when whatever settles is signalled, or settles nothing.
LEMMA SleepersSafe ==
  ASSUME TableInvariant, NEW t \in Tasks,
         \A u \in Tasks : u # t => status'[u] = status[u] /\ (u \in stalled' <=> u \in stalled),
         Signal(t) \/ (UNCHANGED wait /\ (Settled(t)' => Settled(t)))
  PROVE  NobodySleepsOnEnded'
<1> USE DEF TableInvariant, NobodySleepsOnEnded
<1>1. \A u \in Tasks : u # t => (Settled(u)' <=> Settled(u))
  BY DEF Settled
<1>2. \A w \in Waiters : wait[w].at = "asleep" => wait[w].task \in Tasks
  BY DEF TableTypes, Wait, NoWait
<1>3. CASE Signal(t)
  BY <1>1, <1>2, <1>3, SignalWakes
<1>4. CASE UNCHANGED wait /\ (Settled(t)' => Settled(t))
  BY <1>1, <1>2, <1>4
<1> QED BY <1>3, <1>4

\* A step that touches neither the table nor its waiters, and starts no request.
LEMMA QueueOnlyStep ==
  ASSUME TableInvariant, UNCHANGED taskVars,
         result' \in [ManagedTasks -> Ended], pc' \in [ManagedTasks -> Steps],
         \A t \in ManagedTasks : pc'[t] \in Working => pc[t] \in Working
  PROVE  TableInvariant'
<1> USE DEF TableInvariant, taskVars, table, commands
<1>1. TableTypes'
  BY DEF TableTypes
<1>2. CommandsStartRunning'
  BY DEF CommandsStartRunning
<1>3. WorkHasContext'
  BY DEF WorkHasContext, WorkedOn
<1>4. NobodySleepsOnEnded'
  BY DEF NobodySleepsOnEnded, Settled
<1> QED BY <1>1, <1>2, <1>3, <1>4

\* The steps of a request that only concern the queue, the slot or the execution.
LEMMA QuietRequestStep ==
  ASSUME TableInvariant, NEW t \in ManagedTasks,
         \/ Admit(t) \/ AdmitRefused(t) \/ (\E how \in {"completed", "failed"} : ExecutionReturns(t, how))
         \/ CheckKilled(t) \/ FinishRun(t) \/ FinishRunFails(t)
         \/ FinishAgentRequest(t) \/ PromotionRefused(t)
  PROVE  TableInvariant'
<1> USE DEF TableInvariant, TableTypes, Steps, Working, Ended, Goto
<1>1. CASE Admit(t)
  BY <1>1, QueueOnlyStep DEF Admit
<1>2. CASE AdmitRefused(t)
  BY <1>2, QueueOnlyStep DEF AdmitRefused
<1>3. ASSUME NEW how \in {"completed", "failed"}, ExecutionReturns(t, how)
      PROVE  TableInvariant'
  BY <1>3, QueueOnlyStep DEF ExecutionReturns
<1>4. CASE CheckKilled(t)
  BY <1>4, QueueOnlyStep DEF CheckKilled
<1>5. CASE FinishRun(t)
  BY <1>5, QueueOnlyStep DEF FinishRun
<1>6. CASE FinishRunFails(t)
  BY <1>6, QueueOnlyStep DEF FinishRunFails
<1>7. CASE FinishAgentRequest(t)
  <2>1. \A n : Take(t, n) => /\ pc' \in [ManagedTasks -> Steps]
                             /\ \A u \in ManagedTasks : pc'[u] \in Working => pc[u] \in Working
    BY DEF Take
  <2> QED BY <1>7, <2>1, QueueOnlyStep DEF FinishAgentRequest
<1>8. CASE PromotionRefused(t)
  BY <1>8, QueueOnlyStep DEF PromotionRefused
<1> QED BY <1>1, <1>2, <1>3, <1>4, <1>5, <1>6, <1>7, <1>8

\* A request is registered; it has a context when it is worked on.
LEMMA SubmitKeeps ==
  ASSUME TableInvariant, NEW t \in ManagedTasks, SubmitAgentTask(t)
  PROVE  TableInvariant'
<1> USE TableAssumption
    DEF TableInvariant, SubmitAgentTask, StartAgentTask, Goto, Tasks, commands
<1>1. TableTypes'
  BY DEF TableTypes, Statuses, Open, Steps
<1>2. CommandsStartRunning'
  BY DEF CommandsStartRunning, TableTypes
<1>3. WorkHasContext'
  BY DEF WorkHasContext, WorkedOn, Working, TableTypes
<1>4. NobodySleepsOnEnded'
  <2>1. status'[t] \in Open /\ t \notin stalled'
    BY DEF TableTypes, Open
  <2>2. ~Settled(t)'
    BY <2>1 DEF Settled, Open, Ended
  <2>3. \A u \in Tasks : u # t => status'[u] = status[u] /\ (u \in stalled' <=> u \in stalled)
    BY DEF TableTypes
  <2>4. UNCHANGED wait
    OBVIOUS
  <2> HIDE DEF TableInvariant
  <2> QED BY <2>2, <2>3, <2>4, SleepersSafe
<1> QED BY <1>1, <1>2, <1>3, <1>4

\* A request completes: its task ends unless it was killed, and its context is over.
LEMMA CompleteKeeps ==
  ASSUME TableInvariant, NEW t \in ManagedTasks, CompleteAgentRequest(t)
  PROVE  TableInvariant'
<1> USE TableAssumption
    DEF TableInvariant, CompleteAgentRequest, CompleteAgentTask, CancelContext, Goto, Tasks,
        commands
<1>1. CASE t \in listed /\ status[t] # "killed"
  <2>1. TableTypes'
    BY <1>1, SignalWakes DEF TableTypes, Statuses, Ended, Steps
  <2>2. CommandsStartRunning'
    BY <1>1 DEF CommandsStartRunning, TableTypes
  <2>3. WorkHasContext'
    BY <1>1 DEF WorkHasContext, WorkedOn, Working, TableTypes
  <2>4. NobodySleepsOnEnded'
    <3>1. \A u \in Tasks : u # t => status'[u] = status[u] /\ (u \in stalled' <=> u \in stalled)
      BY <1>1 DEF TableTypes
    <3>2. Signal(t)
      BY <1>1
    <3> HIDE DEF TableInvariant
    <3> QED BY <3>1, <3>2, SleepersSafe
  <2> QED BY <2>1, <2>2, <2>3, <2>4
<1>2. CASE ~(t \in listed /\ status[t] # "killed")
  <2>1. TableTypes'
    BY <1>2 DEF TableTypes, Ended, Steps
  <2>2. CommandsStartRunning'
    BY <1>2 DEF CommandsStartRunning, TableTypes
  <2>3. WorkHasContext'
    BY <1>2 DEF WorkHasContext, WorkedOn, Working, TableTypes
  <2>4. NobodySleepsOnEnded'
    BY <1>2 DEF NobodySleepsOnEnded, Settled
  <2> QED BY <2>1, <2>2, <2>3, <2>4
<1> QED BY <1>1, <1>2

\* The next request is promoted: it was queued, so it is no command, and gets a context.
LEMMA PromoteKeeps ==
  ASSUME TableInvariant, NEW t \in ManagedTasks, Promote(t)
  PROVE  TableInvariant'
<1> USE TableAssumption
    DEF TableInvariant, Promote, MarkAgentTaskRunning, CanMarkRunning, Tasks, commands
<1>1. current \in Tasks /\ current \notin ExecTasks /\ current \in ManagedTasks
  BY DEF TableTypes, CommandsStartRunning
<1>2. TableTypes'
  BY <1>1, SignalWakes DEF TableTypes, Statuses, Open, Steps
<1>3. CommandsStartRunning'
  BY <1>1 DEF CommandsStartRunning, TableTypes
<1>4. WorkHasContext'
  BY <1>1 DEF WorkHasContext, WorkedOn, Working, TableTypes
<1>5. NobodySleepsOnEnded'
  <2>1. \A u \in Tasks : u # current =>
          status'[u] = status[u] /\ (u \in stalled' <=> u \in stalled)
    BY DEF TableTypes
  <2>2. Signal(current)
    OBVIOUS
  <2> HIDE DEF TableInvariant
  <2> QED BY <1>1, <2>1, <2>2, SleepersSafe
<1> QED BY <1>2, <1>3, <1>4, <1>5
-----------------------------------------------------------------------------
\* An adopted command: registered, given its goroutine, stalled, and ended.
LEMMA CommandKeeps ==
  ASSUME TableInvariant, NEW e \in ExecTasks, UNCHANGED agentVars,
         SpawnAdopt(e) \/ AdoptStep(e) \/ ProcessEnds(e) \/ MarkStalled(e)
  PROVE  TableInvariant'
<1> USE TableAssumption DEF TableInvariant, Tasks, agentVars, table, CancelContext
<1>1. e \notin ManagedTasks /\ e \in Tasks
  OBVIOUS
<1>2. CASE SpawnAdopt(e)
  <2> USE <1>2 DEF SpawnAdopt
  <2>1. TableTypes'
    BY DEF TableTypes, Statuses, Open
  <2>2. CommandsStartRunning'
    BY DEF CommandsStartRunning, TableTypes
  <2>3. WorkHasContext'
    BY <1>1 DEF WorkHasContext, WorkedOn, TableTypes
  <2>4. NobodySleepsOnEnded'
    <3>1. \A u \in Tasks : u # e => status'[u] = status[u] /\ (u \in stalled' <=> u \in stalled)
      BY DEF TableTypes
    <3>2. status'[e] = "running" /\ e \notin stalled'
      BY DEF TableTypes, CommandsStartRunning
    <3>3. UNCHANGED wait /\ ~Settled(e)'
      BY <3>2 DEF Settled, Ended
    <3> HIDE DEF TableInvariant
    <3> QED BY <1>1, <3>1, <3>3, SleepersSafe
  <2> QED BY <2>1, <2>2, <2>3, <2>4
<1>3. CASE RunAdopt(e)
  <2> USE <1>3 DEF RunAdopt
  <2>1. TableTypes'
    BY DEF TableTypes
  <2>2. CommandsStartRunning'
    BY DEF CommandsStartRunning, TableTypes
  <2>3. WorkHasContext'
    BY <1>1 DEF WorkHasContext, WorkedOn, TableTypes
  <2>4. NobodySleepsOnEnded'
    BY DEF NobodySleepsOnEnded, Settled
  <2> QED BY <2>1, <2>2, <2>3, <2>4
<1>4. CASE FinishAdopt(e)
  <2>1. CASE status[e] = "killed"
    <3> USE <1>4, <2>1 DEF FinishAdopt
    <3>1. TableTypes'
      BY DEF TableTypes
    <3>2. CommandsStartRunning'
      BY DEF CommandsStartRunning, TableTypes
    <3>3. WorkHasContext'
      BY <1>1 DEF WorkHasContext, WorkedOn, TableTypes
    <3>4. NobodySleepsOnEnded'
      BY DEF NobodySleepsOnEnded, Settled
    <3> QED BY <3>1, <3>2, <3>3, <3>4
  <2>2. CASE status[e] # "killed"
    <3> USE <1>4, <2>2 DEF FinishAdopt
    <3>1. PICK outcome \in {"completed", "failed"} : status' = [status EXCEPT ![e] = outcome]
      OBVIOUS
    <3>2. TableTypes'
      BY <3>1, <1>1, SignalWakes DEF TableTypes, Statuses, Ended
    <3>3. CommandsStartRunning'
      BY <3>1 DEF CommandsStartRunning, TableTypes
    <3>4. WorkHasContext'
      BY <1>1, <3>1 DEF WorkHasContext, WorkedOn, TableTypes
    <3>5. NobodySleepsOnEnded'
      <4>1. \A u \in Tasks : u # e => status'[u] = status[u] /\ (u \in stalled' <=> u \in stalled)
        BY <3>1 DEF TableTypes
      <4>2. Signal(e)
        OBVIOUS
      <4> HIDE DEF TableInvariant
      <4> QED BY <1>1, <4>1, <4>2, SleepersSafe
    <3> QED BY <3>2, <3>3, <3>4, <3>5
  <2> QED BY <2>1, <2>2
<1>5. CASE ProcessEnds(e)
  BY <1>5 DEF ProcessEnds, TableTypes, CommandsStartRunning, WorkHasContext, WorkedOn,
              NobodySleepsOnEnded, Settled
<1>6. CASE MarkStalled(e)
  <2> USE <1>6 DEF MarkStalled
  <2>1. TableTypes'
    BY <1>1, SignalWakes DEF TableTypes
  <2>2. CommandsStartRunning'
    BY DEF CommandsStartRunning, TableTypes
  <2>3. WorkHasContext'
    BY DEF WorkHasContext, WorkedOn
  <2>4. NobodySleepsOnEnded'
    <3>1. \A u \in Tasks : u # e => status'[u] = status[u] /\ (u \in stalled' <=> u \in stalled)
      OBVIOUS
    <3>2. Signal(e)
      OBVIOUS
    <3> HIDE DEF TableInvariant
    <3> QED BY <1>1, <3>1, <3>2, SleepersSafe
  <2> QED BY <2>1, <2>2, <2>3, <2>4
<1> QED BY <1>2, <1>3, <1>4, <1>5, <1>6 DEF AdoptStep

\* Kill marks a task and cancels it later; its context may also end by itself.
LEMMA KillKeeps ==
  ASSUME TableInvariant, NEW t \in Tasks, UNCHANGED agentVars,
         Kill(t) \/ CancelKilled(t) \/ Deadline(t)
  PROVE  TableInvariant'
<1> USE DEF TableInvariant, agentVars, commands, CancelContext
<1>1. CASE Kill(t)
  <2> USE <1>1 DEF Kill
  <2>1. TableTypes'
    BY SignalWakes DEF TableTypes, Statuses, Ended
  <2>2. CommandsStartRunning'
    BY DEF CommandsStartRunning, TableTypes, Open
  <2>3. WorkHasContext'
    BY DEF WorkHasContext, WorkedOn, TableTypes, Open, Tasks
  <2>4. NobodySleepsOnEnded'
    <3>1. \A u \in Tasks : u # t => status'[u] = status[u] /\ (u \in stalled' <=> u \in stalled)
      BY DEF TableTypes
    <3>2. Signal(t)
      OBVIOUS
    <3> HIDE DEF TableInvariant
    <3> QED BY <3>1, <3>2, SleepersSafe
  <2> QED BY <2>1, <2>2, <2>3, <2>4
<1>2. CASE CancelKilled(t)
  BY <1>2 DEF CancelKilled, TableTypes, CommandsStartRunning, WorkHasContext, WorkedOn, Tasks,
              NobodySleepsOnEnded, Settled
<1>3. CASE Deadline(t)
  BY <1>3 DEF Deadline, TableTypes, CommandsStartRunning, WorkHasContext, WorkedOn, Tasks,
              NobodySleepsOnEnded, Settled
<1> QED BY <1>1, <1>2, <1>3

\* The sweep only takes tasks off the list.
LEMMA CleanupKeeps ==
  ASSUME TableInvariant, NEW old \in SUBSET listed, UNCHANGED agentVars, Cleanup(old)
  PROVE  TableInvariant'
BY DEF TableInvariant, Cleanup, agentVars, commands, TableTypes, CommandsStartRunning,
       WorkHasContext, WorkedOn, NobodySleepsOnEnded, Settled

\* A waiter looks before it sleeps, and sleeps on a task that goes on.
LEMMA WaiterKeeps ==
  ASSUME TableInvariant, NEW w \in Waiters, UNCHANGED agentVars,
         CheckTask(w) \/ GiveUp(w) \/ \E t \in Tasks : BeginWait(w, t)
  PROVE  TableInvariant'
<1> USE DEF TableInvariant, agentVars, table, commands
<1>1. UNCHANGED <<status, ctx, listed, killing, stalled, runner, result, pc>>
  BY DEF CheckTask, GiveUp, BeginWait
<1>2. wait[w] \in Wait
  BY DEF TableTypes
<1>3. PICK next \in Wait : /\ wait' = [wait EXCEPT ![w] = next]
                           /\ next.at = "asleep" => ~Settled(next.task)
  <2>0. NoWait \in Wait /\ NoWait.at = "idle"
    BY DEF Wait, NoWait
  <2>1. CASE CheckTask(w)
    <3>1. wait[w] \in [at : {"check", "asleep"}, task : Tasks]
      BY <2>1, <1>2 DEF CheckTask, Wait, NoWait
    <3>2. CASE Settled(wait[w].task)
      <4>1. wait' = [wait EXCEPT ![w] = NoWait]
        BY <2>1, <3>2 DEF CheckTask
      <4> QED BY <2>0, <4>1
    <3>3. CASE ~Settled(wait[w].task)
      <4> DEFINE next == [wait[w] EXCEPT !.at = "asleep"]
      <4>1. next \in Wait /\ next.task = wait[w].task
        BY <3>1 DEF Wait
      <4>2. wait' = [wait EXCEPT ![w] = next]
        BY <2>1, <3>3 DEF CheckTask
      <4>3. ~Settled(next.task)
        BY <4>1, <3>3
      <4> HIDE DEF next
      <4> QED BY <4>1, <4>2, <4>3
    <3> QED BY <3>2, <3>3
  <2>2. CASE GiveUp(w)
    BY <2>0, <2>2 DEF GiveUp
  <2>3. ASSUME NEW t \in Tasks, BeginWait(w, t)
        PROVE  \E next \in Wait : /\ wait' = [wait EXCEPT ![w] = next]
                                  /\ next.at = "asleep" => ~Settled(next.task)
    <3> DEFINE next == [at |-> "check", task |-> t]
    <3>1. next \in Wait /\ next.at = "check"
      BY DEF Wait
    <3>2. wait' = [wait EXCEPT ![w] = next]
      BY <2>3 DEF BeginWait
    <3> HIDE DEF next
    <3> QED BY <3>1, <3>2
  <2> QED BY <2>1, <2>2, <2>3
<1>4. TableTypes'
  BY <1>1, <1>3 DEF TableTypes
<1>5. CommandsStartRunning' /\ WorkHasContext'
  BY <1>1 DEF CommandsStartRunning, WorkHasContext, WorkedOn
<1>6. NobodySleepsOnEnded'
  BY <1>1, <1>3 DEF NobodySleepsOnEnded, Settled, TableTypes
<1> QED BY <1>4, <1>5, <1>6

\* The invariant is kept by every step of the table and of the queue.
LEMMA TableStep == TableInvariant /\ [QueueNext]_queueVars => TableInvariant'
<1> SUFFICES ASSUME TableInvariant, [QueueNext]_queueVars
             PROVE  TableInvariant'
  OBVIOUS
<1>1. CASE TableNext /\ UNCHANGED agentVars
  BY <1>1, CommandKeeps, KillKeeps, CleanupKeeps, WaiterKeeps DEF TableNext
<1>2. ASSUME NEW t \in ManagedTasks, SubmitAgentTask(t)
      PROVE  TableInvariant'
  BY <1>2, SubmitKeeps
<1>3. ASSUME NEW t \in ManagedTasks, RequestStep(t)
      PROVE  TableInvariant'
  BY <1>3, QuietRequestStep, CompleteKeeps, PromoteKeeps DEF RequestStep
<1>4. CASE SlotReaped \/ UNCHANGED queueVars
  <2>1. UNCHANGED <<taskVars, pc, result>>
    BY <1>4 DEF SlotReaped, queueVars, agentVars
  <2> QED BY <2>1, QueueOnlyStep DEF TableInvariant, TableTypes
<1> QED
  BY <1>1, <1>2, <1>3, <1>4 DEF QueueNext

\* A task that has ended does not change its status.
LEMMA EndedStep ==
  TableInvariant /\ [QueueNext]_queueVars =>
    \A t \in Tasks : status[t] \in Ended => status'[t] = status[t]
<1> SUFFICES ASSUME TableInvariant, [QueueNext]_queueVars, NEW t \in Tasks, status[t] \in Ended
             PROVE  status'[t] = status[t]
  OBVIOUS
<1> USE TableAssumption DEF TableInvariant, TableTypes, Tasks, Ended
<1>1. CASE TableNext /\ UNCHANGED agentVars
  <2>1. ASSUME NEW e \in ExecTasks, SpawnAdopt(e) \/ AdoptStep(e) \/ ProcessEnds(e) \/ MarkStalled(e)
        PROVE  status'[t] = status[t]
    BY <2>1 DEF SpawnAdopt, AdoptStep, RunAdopt, FinishAdopt, ProcessEnds, MarkStalled, table,
                CommandsStartRunning
  <2>2. ASSUME NEW u \in Tasks, Kill(u) \/ CancelKilled(u) \/ Deadline(u)
        PROVE  status'[t] = status[t]
    BY <2>2 DEF Kill, CancelKilled, Deadline, Open
  <2>3. ASSUME NEW old \in SUBSET listed, Cleanup(old)
        PROVE  status'[t] = status[t]
    BY <2>3 DEF Cleanup
  <2>4. ASSUME NEW w \in Waiters, CheckTask(w) \/ GiveUp(w) \/ \E u \in Tasks : BeginWait(w, u)
        PROVE  status'[t] = status[t]
    BY <2>4 DEF CheckTask, GiveUp, BeginWait, table
  <2> QED BY <1>1, <2>1, <2>2, <2>3, <2>4 DEF TableNext
<1>2. ASSUME NEW u \in ManagedTasks, SubmitAgentTask(u)
      PROVE  status'[t] = status[t]
  BY <1>2 DEF SubmitAgentTask, StartAgentTask
<1>3. ASSUME NEW u \in ManagedTasks, CompleteAgentRequest(u)
      PROVE  status'[t] = status[t]
  <2>1. status[u] \in {"running", "killed"}
    BY <1>3 DEF CompleteAgentRequest, WorkHasContext, WorkedOn, Working
  <2> QED BY <1>3, <2>1 DEF CompleteAgentRequest, CompleteAgentTask
<1>4. ASSUME NEW u \in ManagedTasks, Promote(u)
      PROVE  status'[t] = status[t]
  BY <1>4 DEF Promote, MarkAgentTaskRunning, CanMarkRunning
<1>5. ASSUME NEW u \in ManagedTasks, RequestStep(u), ~CompleteAgentRequest(u), ~Promote(u)
      PROVE  status'[t] = status[t]
  BY <1>5 DEF RequestStep, Admit, AdmitRefused, ExecutionReturns, CheckKilled, FinishRun,
              FinishRunFails, FinishAgentRequest, PromotionRefused, taskVars, table
<1>6. CASE SlotReaped \/ UNCHANGED queueVars
  BY <1>6 DEF SlotReaped, queueVars, taskVars, table
<1> QED
  BY <1>1, <1>2, <1>3, <1>4, <1>5, <1>6 DEF QueueNext
-----------------------------------------------------------------------------
(* The queue of the agent and the slot of its thread.                      *)

\* A request is queued at most once, and waits there as long as it is queued.
QueueHolds ==
  /\ \A i, j \in 1..Len(queue) : queue[i] = queue[j] => i = j
  /\ \A i \in 1..Len(queue) : pc[queue[i]] = "queued"

\* The driver works on the current request, or has taken it off the queue.
DriverHolds ==
  /\ \A t, u \in Drivers : t = u
  /\ current # NoTask <=> Drivers # {}
  /\ queue # <<>> => current # NoTask
  /\ \A t \in ManagedTasks :
       /\ pc[t] \in Working => current = t
       /\ pc[t] = "mark" => /\ pc[current] = "queued"
                            /\ \A i \in 1..Len(queue) : queue[i] # current

\* The slot is held by the request that executes, unless a call failed.
SlotHeld == slot # NoTask => pc[slot] \in {"execute", "check", "finish"} \/ errors > 0

QueueTypes ==
  /\ current \in ManagedTasks \cup {NoTask} /\ slot \in ManagedTasks \cup {NoTask}
  /\ queue \in Seq(ManagedTasks) /\ pc \in [ManagedTasks -> Steps] /\ errors \in Nat

\* The inductive invariant of the queue and the slot.
AgentInvariant == QueueTypes /\ QueueHolds /\ DriverHolds /\ SlotHeld

\* A set of numbers has a least one.
LEMMA LeastNatural ==
  ASSUME NEW T \in SUBSET Nat, T # {}
  PROVE  \E n \in T : \A m \in T : n <= m
<1>1. IsWellFoundedOn(OpToRel(<, Nat), Nat)
  BY NatLessThanWellFounded
<1>2. PICK n \in T : \A m \in T : <<m, n>> \notin OpToRel(<, Nat)
  BY <1>1, WFMin
<1>3. \A m \in T : ~(m < n)
  BY <1>2 DEF OpToRel
<1> QED BY <1>3

\* The search for a request that is not killed ends: at one, or behind the last.
LEMMA FirstIsFound ==
  ASSUME queue \in Seq(ManagedTasks)
  PROVE  First \in 1..(Len(queue) + 1)
<1> DEFINE Stops(i) == i <= Len(queue) => ~Skipped(queue[i])
           T == {i \in 1..(Len(queue) + 1) : Stops(i)}
<1>1. Len(queue) \in Nat
  BY LenProperties
<1>2. Len(queue) + 1 \in T /\ T \subseteq Nat
  BY <1>1
<1>3. PICK n \in T : \A m \in T : n <= m
  <2> HIDE DEF T
  <2> QED BY <1>2, LeastNatural
<1>4. n \in 1..(Len(queue) + 1) /\ Stops(n)
  BY <1>3
<1>5. \A j \in 1..(n - 1) : Skipped(queue[j])
  <2> SUFFICES ASSUME NEW j \in 1..(n - 1), ~Skipped(queue[j]) PROVE FALSE
    OBVIOUS
  <2>1. j \in T
    BY <1>1, <1>4
  <2> HIDE DEF T
  <2> QED BY <1>1, <1>3, <1>4, <2>1
<1> QED BY <1>4, <1>5 DEF First

\* A free agent has no driver, no queue and no slot.
LEMMA AgentInit == QueueInit => AgentInvariant
<1> SUFFICES ASSUME QueueInit PROVE AgentInvariant
  OBVIOUS
<1> USE DEF QueueInit
<1>1. QueueTypes
  BY EmptySeq, QueueAssumption DEF QueueTypes, Steps
<1>2. QueueHolds
  BY DEF QueueHolds
<1>3. DriverHolds
  BY DEF DriverHolds, Drivers, Working
<1>4. SlotHeld
  BY DEF SlotHeld
<1> QED BY <1>1, <1>2, <1>3, <1>4 DEF AgentInvariant

\* A request is registered: behind the others, or as the driver of a free agent.
LEMMA SubmitKeepsAgent ==
  ASSUME AgentInvariant, NEW t \in ManagedTasks, SubmitAgentTask(t)
  PROVE  AgentInvariant'
<1> USE TableAssumption DEF AgentInvariant
<1>1. pc[t] = "idle" /\ UNCHANGED <<slot, errors>>
  BY DEF SubmitAgentTask
<1>2. \A i \in 1..Len(queue) : queue[i] # t /\ queue[i] \in ManagedTasks
  BY <1>1, ElementOfSeq DEF QueueHolds, QueueTypes
<1>3. CASE current # NoTask
  <2>1. queue' = Append(queue, t) /\ pc' = [pc EXCEPT ![t] = "queued"] /\ UNCHANGED current
    BY <1>3 DEF SubmitAgentTask, Goto
  <2>2. /\ queue' \in Seq(ManagedTasks) /\ Len(queue') = Len(queue) + 1 /\ Len(queue) \in Nat
        /\ \A i \in 1..Len(queue) : queue'[i] = queue[i]
        /\ queue'[Len(queue) + 1] = t
    BY <2>1, AppendProperties, LenProperties DEF QueueTypes
  <2>3. QueueTypes'
    BY <1>1, <2>1, <2>2 DEF QueueTypes, Steps
  <2>4. \A i \in 1..Len(queue') : i \in 1..Len(queue) \/ i = Len(queue) + 1
    BY <2>2
  <2>5. QueueHolds'
    BY <1>2, <2>1, <2>2, <2>4 DEF QueueHolds, QueueTypes
  <2>6. Drivers' = Drivers
    BY <1>1, <2>1 DEF Drivers, QueueTypes, Working
  <2>7. \A u \in ManagedTasks : pc'[u] # "queued" => pc'[u] = pc[u]
    BY <2>1 DEF QueueTypes
  <2>8. ASSUME NEW u \in ManagedTasks, pc'[u] = "mark"
        PROVE  pc'[current'] = "queued" /\ \A i \in 1..Len(queue') : queue'[i] # current'
    <3>1. pc[u] = "mark"
      BY <2>7, <2>8
    <3>2. pc[current] = "queued" /\ current \in ManagedTasks /\ current # t
      BY <1>1, <1>3, <3>1 DEF DriverHolds, QueueTypes
    <3> QED BY <2>1, <2>2, <2>4, <3>1, <3>2 DEF DriverHolds, QueueTypes
  <2>9. DriverHolds'
    BY <1>3, <2>1, <2>6, <2>7, <2>8 DEF DriverHolds, Working
  <2>10. SlotHeld'
    BY <1>1, <2>1 DEF SlotHeld, QueueTypes
  <2> QED BY <2>3, <2>5, <2>9, <2>10
<1>4. CASE current = NoTask
  <2>1. current' = t /\ pc' = [pc EXCEPT ![t] = "admit"] /\ UNCHANGED queue
    BY <1>4 DEF SubmitAgentTask, Goto
  <2>2. queue = <<>> /\ Len(queue) = 0 /\ Drivers = {}
    BY <1>4 DEF DriverHolds
  <2>3. QueueTypes'
    BY <1>1, <2>1 DEF QueueTypes, Steps
  <2>4. QueueHolds'
    BY <2>1, <2>2 DEF QueueHolds
  <2>5. Drivers' = {t}
    BY <2>1, <2>2 DEF Drivers, Working, QueueTypes
  <2>6. \A u \in ManagedTasks : pc'[u] \in Working \cup {"mark"} => u = t
    BY <2>5 DEF Drivers
  <2>7. pc'[t] = "admit" /\ t # NoTask
    BY <2>1 DEF QueueTypes
  <2>8. DriverHolds'
    BY <2>1, <2>2, <2>5, <2>6, <2>7 DEF DriverHolds
  <2>9. SlotHeld'
    BY <1>1, <2>1 DEF SlotHeld, QueueTypes
  <2> QED BY <2>3, <2>4, <2>8, <2>9
<1> QED BY <1>3, <1>4

\* The driver goes on with the current request.
LEMMA DriverGoesOn ==
  ASSUME AgentInvariant, NEW t \in ManagedTasks, pc[t] \in Working,
         NEW to \in Working \cup {"pop"}, pc' = [pc EXCEPT ![t] = to],
         UNCHANGED <<current, queue>>, errors' \in Nat,
         slot' \in ManagedTasks \cup {NoTask}, SlotHeld'
  PROVE  AgentInvariant'
<1> USE TableAssumption DEF AgentInvariant
<1>1. QueueTypes'
  BY DEF QueueTypes, Steps, Working
<1>2. QueueHolds'
  <2>1. \A i \in 1..Len(queue) : queue[i] # t /\ queue[i] \in ManagedTasks
    BY ElementOfSeq DEF QueueHolds, QueueTypes, Working
  <2> QED BY <2>1 DEF QueueHolds, QueueTypes
<1>3. Drivers' = Drivers /\ t \in Drivers
  BY DEF Drivers, QueueTypes, Working
<1>4. current = t /\ \A u \in ManagedTasks : u # t => pc'[u] = pc[u] /\ u \notin Drivers
  BY <1>3 DEF DriverHolds, QueueTypes
<1>5. \A u \in ManagedTasks : pc'[u] \in Working \cup {"mark"} => u = t
  BY <1>4 DEF Drivers
<1>6. pc'[t] # "mark"
  BY DEF QueueTypes, Working
<1>7. DriverHolds'
  BY <1>3, <1>4, <1>5, <1>6 DEF DriverHolds
<1> QED BY <1>1, <1>2, <1>7

\* Admission, execution and the terminal write: each keeps or frees the slot it owns.
LEMMA WorkKeepsAgent ==
  ASSUME AgentInvariant, NEW t \in ManagedTasks,
         \/ Admit(t) \/ AdmitRefused(t) \/ (\E how \in {"completed", "failed"} : ExecutionReturns(t, how))
         \/ CheckKilled(t) \/ FinishRun(t) \/ FinishRunFails(t) \/ CompleteAgentRequest(t)
  PROVE  AgentInvariant'
<1> USE TableAssumption DEF Fails
<1>1. QueueTypes /\ SlotHeld
  BY DEF AgentInvariant
<1>2. CASE Admit(t)
  <2>1. SlotHeld' /\ errors' \in Nat /\ slot' \in ManagedTasks
    BY <1>1, <1>2 DEF Admit, Goto, SlotHeld, QueueTypes
  <2> QED BY <1>2, <2>1, DriverGoesOn DEF Admit, Goto, Working
<1>3. CASE AdmitRefused(t)
  <2>1. SlotHeld' /\ errors' \in Nat /\ slot' \in ManagedTasks \cup {NoTask}
    BY <1>1, <1>3 DEF AdmitRefused, Goto, SlotHeld, QueueTypes
  <2> QED BY <1>3, <2>1, DriverGoesOn DEF AdmitRefused, Goto, Working
<1>4. ASSUME NEW how \in {"completed", "failed"}, ExecutionReturns(t, how)
      PROVE  AgentInvariant'
  <2>1. SlotHeld' /\ errors' \in Nat /\ slot' \in ManagedTasks \cup {NoTask}
    BY <1>1, <1>4 DEF ExecutionReturns, Goto, SlotHeld, QueueTypes
  <2> QED BY <1>4, <2>1, DriverGoesOn DEF ExecutionReturns, Goto, Working
<1>5. CASE CheckKilled(t)
  <2>1. SlotHeld' /\ errors' \in Nat /\ slot' \in ManagedTasks \cup {NoTask}
    BY <1>1, <1>5 DEF CheckKilled, Goto, SlotHeld, QueueTypes
  <2> QED BY <1>5, <2>1, DriverGoesOn DEF CheckKilled, Goto, Working
<1>6. CASE FinishRun(t)
  <2>1. SlotHeld' /\ errors' \in Nat /\ slot' = NoTask
    BY <1>1, <1>6 DEF FinishRun, Goto, SlotHeld, QueueTypes
  <2> QED BY <1>6, <2>1, DriverGoesOn DEF FinishRun, Goto, Working
<1>7. CASE FinishRunFails(t)
  <2>1. errors' \in Nat /\ errors' > 0 /\ slot' \in ManagedTasks \cup {NoTask}
    BY <1>1, <1>7 DEF FinishRunFails, QueueTypes
  <2>2. SlotHeld'
    BY <2>1 DEF SlotHeld
  <2> QED BY <1>7, <2>1, <2>2, DriverGoesOn DEF FinishRunFails, Goto, Working
<1>8. CASE CompleteAgentRequest(t)
  <2>1. SlotHeld' /\ errors' \in Nat /\ slot' \in ManagedTasks \cup {NoTask}
    BY <1>1, <1>8 DEF CompleteAgentRequest, Goto, SlotHeld, QueueTypes
  <2> QED BY <1>8, <2>1, DriverGoesOn DEF CompleteAgentRequest, Goto, Working
<1> QED BY <1>2, <1>3, <1>4, <1>5, <1>6, <1>7, <1>8

\* The agent goes to the first request that is not killed, or is free.
LEMMA PopKeepsAgent ==
  ASSUME AgentInvariant, NEW t \in ManagedTasks, FinishAgentRequest(t)
  PROVE  AgentInvariant'
<1> USE TableAssumption DEF AgentInvariant
<1> DEFINE n == First
<1>1. /\ pc[t] = "pop" /\ Take(t, n) /\ UNCHANGED <<slot, errors>>
      /\ n \in 1..(Len(queue) + 1) /\ Len(queue) \in Nat
  BY FirstIsFound, LenProperties DEF FinishAgentRequest, QueueTypes
<1> HIDE DEF n
<1>2. /\ current' = IF n <= Len(queue) THEN queue[n] ELSE NoTask
      /\ queue' = SubSeq(queue, n + 1, Len(queue))
      /\ pc' = [u \in ManagedTasks |->
                 IF u = t THEN IF n <= Len(queue) THEN "mark" ELSE "done"
                 ELSE IF \E j \in 1..(n - 1) : queue[j] = u THEN "done" ELSE pc[u]]
  BY <1>1 DEF Take
<1>3. \A i \in 1..Len(queue) : /\ queue[i] \in ManagedTasks /\ queue[i] # t
                               /\ pc[queue[i]] = "queued"
                               /\ \A j \in 1..Len(queue) : queue[i] = queue[j] => i = j
  BY <1>1, ElementOfSeq DEF QueueHolds, QueueTypes
<1>4. \A i \in 1..Len(queue) : i >= n => pc'[queue[i]] = "queued"
  <2> SUFFICES ASSUME NEW i \in 1..Len(queue), i >= n PROVE pc'[queue[i]] = "queued"
    OBVIOUS
  <2>1. ~ \E j \in 1..(n - 1) : queue[j] = queue[i]
    BY <1>1, <1>3
  <2> QED BY <1>2, <1>3, <2>1
<1>5. /\ queue' \in Seq(ManagedTasks)
      /\ Len(queue') = IF n + 1 <= Len(queue) THEN Len(queue) - n ELSE 0
      /\ \A i \in 1..Len(queue') : queue'[i] = queue[n + i] /\ n + i \in 1..Len(queue)
  <2>1. \A i \in (n + 1)..Len(queue) : queue[i] \in ManagedTasks
    BY <1>1, <1>3
  <2>2. /\ queue' \in Seq(ManagedTasks)
        /\ Len(queue') = IF n + 1 <= Len(queue) THEN Len(queue) - n ELSE 0
        /\ \A i \in 1..(Len(queue) - n) : queue'[i] = queue[n + i]
    <3>1. /\ SubSeq(queue, n + 1, Len(queue)) \in Seq(ManagedTasks)
          /\ Len(SubSeq(queue, n + 1, Len(queue)))
               = IF n + 1 <= Len(queue) THEN Len(queue) - (n + 1) + 1 ELSE 0
          /\ \A i \in 1..(Len(queue) - (n + 1) + 1) :
               SubSeq(queue, n + 1, Len(queue))[i] = queue[(n + 1) + i - 1]
      <4>1. n + 1 \in Int /\ Len(queue) \in Int
        BY <1>1
      <4> QED BY <2>1, <4>1, SubSeqProperties
    <3>2. \A i \in 1..(Len(queue) - n) : (n + 1) + i - 1 = n + i
      BY <1>1
    <3> QED BY <1>1, <1>2, <3>1, <3>2
  <2> QED BY <1>1, <2>2
<1>6. pc' \in [ManagedTasks -> Steps] /\ current' \in ManagedTasks \cup {NoTask}
  <2>1. pc \in [ManagedTasks -> Steps]
    BY DEF QueueTypes
  <2>2. \A u \in ManagedTasks : pc'[u] \in {pc[u], "mark", "done"}
    BY <1>2
  <2> QED BY <1>1, <1>2, <1>3, <2>1, <2>2 DEF Steps
<1>7. QueueTypes'
  BY <1>1, <1>5, <1>6 DEF QueueTypes
<1>8. QueueHolds'
  <2>1. \A i \in 1..Len(queue') : pc'[queue'[i]] = "queued"
    BY <1>1, <1>4, <1>5
  <2>2. ASSUME NEW i \in 1..Len(queue'), NEW j \in 1..Len(queue'), queue'[i] = queue'[j]
        PROVE  i = j
    <3>1. n + i = n + j
      BY <1>3, <1>5, <2>2
    <3>2. i \in Int /\ j \in Int
      BY <1>5
    <3> QED BY <1>1, <3>1, <3>2
  <2> QED BY <2>1, <2>2 DEF QueueHolds
<1>9. t \in Drivers /\ \A u \in ManagedTasks : u # t => u \notin Drivers
  BY <1>1 DEF DriverHolds, Drivers
<1>10. \A u \in ManagedTasks : u # t => pc'[u] \notin Working \cup {"pop", "mark"}
  <2>1. \A u \in ManagedTasks : u # t => pc'[u] \in {pc[u], "done"}
    BY <1>2
  <2> QED BY <1>9, <2>1 DEF Drivers, Working
<1>11. DriverHolds'
  <2>1. CASE n <= Len(queue)
    <3>1. pc'[t] = "mark" /\ current' = queue[n] /\ n \in 1..Len(queue)
      BY <1>1, <1>2, <2>1
    <3>2. Drivers' = {t}
      BY <1>10, <3>1 DEF Drivers
    <3>3. current' # NoTask /\ pc'[current'] = "queued"
      BY <1>1, <1>3, <1>4, <3>1
    <3>4. \A i \in 1..Len(queue') : queue'[i] # current'
      <4> SUFFICES ASSUME NEW i \in 1..Len(queue') PROVE queue[n + i] # queue[n]
        BY <1>5, <3>1
      <4>1. n + i # n /\ n + i \in 1..Len(queue)
        BY <1>1, <1>5
      <4> QED BY <1>3, <3>1, <4>1
    <3>5. pc'[t] \notin Working
      BY <3>1 DEF Working
    <3> QED BY <1>10, <3>1, <3>2, <3>3, <3>4, <3>5 DEF DriverHolds
  <2>2. CASE ~(n <= Len(queue))
    <3>1. pc'[t] = "done" /\ current' = NoTask /\ Len(queue') = 0
      BY <1>1, <1>2, <1>5, <2>2
    <3>2. Drivers' = {}
      BY <1>10, <3>1 DEF Drivers, Working
    <3>3. queue' = <<>>
      BY <1>5, <3>1, EmptySeq, LenProperties
    <3>4. \A u \in ManagedTasks : pc'[u] \notin Working \cup {"mark"}
      BY <3>2 DEF Drivers
    <3> QED BY <3>1, <3>2, <3>3, <3>4 DEF DriverHolds
  <2> QED BY <2>1, <2>2
<1>12. SlotHeld'
  <2> SUFFICES ASSUME slot # NoTask, ~(errors > 0)
               PROVE  pc'[slot] \in {"execute", "check", "finish"}
    BY <1>1 DEF SlotHeld
  <2>1. slot \in ManagedTasks /\ pc[slot] \in {"execute", "check", "finish"}
    BY DEF SlotHeld, QueueTypes
  <2>2. FALSE
    BY <1>1, <1>9, <2>1 DEF Drivers, Working
  <2> QED BY <2>2
<1> QED BY <1>7, <1>8, <1>11, <1>12

\* The next request is started by its predecessor, which is done, or is passed over.
LEMMA PromotionKeepsAgent ==
  ASSUME AgentInvariant, NEW t \in ManagedTasks, Promote(t) \/ PromotionRefused(t)
  PROVE  AgentInvariant'
<1> USE TableAssumption DEF AgentInvariant
<1>1. pc[t] = "mark" /\ UNCHANGED <<current, queue, slot, errors>>
  BY DEF Promote, PromotionRefused
<1>2. t \in Drivers /\ \A u \in ManagedTasks : u # t => u \notin Drivers
  BY <1>1 DEF DriverHolds, Drivers
<1>3. /\ current \in ManagedTasks /\ current # NoTask /\ pc[current] = "queued" /\ current # t
      /\ \A i \in 1..Len(queue) : queue[i] # current
  <2>1. current # NoTask
    BY <1>2 DEF DriverHolds
  <2> QED BY <1>1, <2>1 DEF DriverHolds, QueueTypes
<1>4. \A i \in 1..Len(queue) : queue[i] \in ManagedTasks /\ queue[i] # t
  BY <1>1, ElementOfSeq DEF QueueHolds, QueueTypes
<1>5. \/ pc' = [pc EXCEPT ![t] = "done", ![current] = "admit"]
      \/ pc' = [pc EXCEPT ![t] = "pop", ![current] = "done"]
  BY DEF Promote, PromotionRefused
<1>6. /\ pc' \in [ManagedTasks -> Steps]
      /\ \/ pc'[t] = "done" /\ pc'[current] = "admit"
         \/ pc'[t] = "pop" /\ pc'[current] = "done"
      /\ \A u \in ManagedTasks : u # t /\ u # current => pc'[u] = pc[u]
  BY <1>3, <1>5 DEF QueueTypes, Steps
<1>7. QueueTypes'
  BY <1>1, <1>6 DEF QueueTypes
<1>8. QueueHolds'
  BY <1>1, <1>3, <1>4, <1>6 DEF QueueHolds
<1>9. \A u \in ManagedTasks : u # t /\ u # current =>
        pc'[u] \notin Working \cup {"pop", "mark"}
  BY <1>2, <1>6 DEF Drivers
<1>10. Drivers' = {current} \/ Drivers' = {t}
  <2>1. CASE pc'[t] = "done" /\ pc'[current] = "admit"
    BY <1>3, <1>9, <2>1 DEF Drivers, Working
  <2>2. CASE pc'[t] = "pop" /\ pc'[current] = "done"
    BY <1>3, <1>9, <2>2 DEF Drivers, Working
  <2> QED BY <1>6, <2>1, <2>2
<1>11. DriverHolds'
  <2>1. \A u \in ManagedTasks : pc'[u] \in Working \cup {"mark"} => u = current'
    BY <1>1, <1>6, <1>9 DEF Working
  <2>2. pc'[current] # "mark"
    BY <1>6
  <2>3. (\A u, v \in Drivers' : u = v) /\ Drivers' # {}
    BY <1>10
  <2> QED BY <1>1, <1>3, <2>1, <2>2, <2>3 DEF DriverHolds
<1>12. SlotHeld'
  <2> SUFFICES ASSUME slot # NoTask, ~(errors > 0)
               PROVE  FALSE
    BY <1>1 DEF SlotHeld
  <2>1. slot \in ManagedTasks /\ pc[slot] \in {"execute", "check", "finish"}
    BY DEF SlotHeld, QueueTypes
  <2> QED BY <1>1, <1>2, <2>1 DEF Drivers, Working
<1> QED BY <1>7, <1>8, <1>11, <1>12

\* The steps of the table leave the agent alone.
LEMMA AgentStep == AgentInvariant /\ [QueueNext]_queueVars => AgentInvariant'
<1> SUFFICES ASSUME AgentInvariant, [QueueNext]_queueVars
             PROVE  AgentInvariant'
  OBVIOUS
<1>1. CASE UNCHANGED agentVars
  BY <1>1
  DEF agentVars, AgentInvariant, QueueTypes, QueueHolds, DriverHolds, Drivers, SlotHeld
<1>2. ASSUME NEW t \in ManagedTasks, SubmitAgentTask(t) \/ RequestStep(t)
      PROVE  AgentInvariant'
  BY <1>2, SubmitKeepsAgent, WorkKeepsAgent, PopKeepsAgent, PromotionKeepsAgent DEF RequestStep
<1>3. CASE SlotReaped
  BY <1>3
  DEF SlotReaped, AgentInvariant, QueueTypes, QueueHolds, DriverHolds, Drivers, SlotHeld
<1> QED BY <1>1, <1>2, <1>3 DEF QueueNext, queueVars
-----------------------------------------------------------------------------
\* The inductive invariant holds for any tasks, kills, sweeps and waiters.
THEOREM TableIsInvariant == QueueSpec => []TableInvariant
  BY InitEstablishes, TableStep, PTL DEF QueueSpec

\* WaitForSessionTask: whoever sleeps on a task is woken when it ends.
THEOREM SleeperIsWoken == QueueSpec => []NobodySleepsOnEnded
<1>1. TableInvariant => NobodySleepsOnEnded
  BY DEF TableInvariant
<1> QED BY <1>1, TableIsInvariant, PTL

\* MarkAgentTaskRunning and Kill: the run of a killed task has its context cancelled.
THEOREM KillIsNotLost == QueueSpec => []KillReachesRun
<1>1. TableInvariant => KillReachesRun
  BY DEF TableInvariant, KillReachesRun, WorkHasContext, WorkedOn, Working
<1> QED BY <1>1, TableIsInvariant, PTL

\* Task.Status: completed, failed and killed are final.
THEOREM EndedIsFinal == QueueSpec => EndedStays
<1>1. TableInvariant /\ [QueueNext]_queueVars =>
        [\A t \in Tasks : status[t] \in Ended => status'[t] = status[t]]_queueVars
  BY EndedStep
<1> QED BY <1>1, TableIsInvariant, PTL DEF QueueSpec, EndedStays

\* The invariant of the queue holds for any tasks, kills and failing calls.
THEOREM AgentIsInvariant == QueueSpec => []AgentInvariant
  BY AgentInit, AgentStep, PTL DEF QueueSpec

\* agentCoordinator: one goroutine drives the agent, on the request it names.
THEOREM OneDriverAtATime == QueueSpec => []OneRequestAtATime
<1>1. AgentInvariant => OneRequestAtATime
  BY DEF AgentInvariant, DriverHolds, OneRequestAtATime, Drivers
<1> QED BY <1>1, AgentIsInvariant, PTL

\* runAgentRequest: the slot is free before the queue promotes the next message.
THEOREM SlotIsFreeForSuccessor == QueueSpec => []SuccessorFindsSlot
<1>1. AgentInvariant => SuccessorFindsSlot
  <2> SUFFICES ASSUME AgentInvariant, NEW t \in ManagedTasks, pc[t] = "admit",
                      slot # NoTask, ~(errors > 0)
               PROVE  FALSE
    BY DEF SuccessorFindsSlot, AgentInvariant, QueueTypes
  <2>1. slot \in ManagedTasks /\ pc[slot] \in {"execute", "check", "finish"}
    BY DEF AgentInvariant, SlotHeld, QueueTypes
  <2> QED BY <2>1 DEF AgentInvariant, DriverHolds, Drivers, Working
<1> QED BY <1>1, AgentIsInvariant, PTL
=============================================================================
