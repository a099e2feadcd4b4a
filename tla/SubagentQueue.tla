---------------------------- MODULE SubagentQueue ----------------------------
(***************************************************************************)
(* Messages to a managed subagent: submitAgentTask, the goroutine of each  *)
(* request, the coordinator's queue, and the slot of the agent's thread,   *)
(* on top of the background task table.                                    *)
(*                                                                         *)
(* A section under the coordinator's lock is a step, and so is every call  *)
(* of the task table or of the run admission.  A goroutine exists for each *)
(* request that was started; the one that ends promotes the next.          *)
(*                                                                         *)
(* Abstractions.  One agent: coordinator state, thread and slot belong to  *)
(* one.  Nobody but the agent uses its thread.  What admission and the     *)
(* terminal write do inside is the subject of SessionRuntime; here they    *)
(* take and release the slot, or fail.                                     *)
(***************************************************************************)
EXTENDS BackgroundTasks, Sequences, Naturals

CONSTANTS MaxErrors   \* bound on admissions and terminal writes that fail

ASSUME QueueAssumption == MaxErrors \in Nat

VARIABLES
  current,   \* agentState.runningTaskID
  queue,     \* agentState.queue
  slot,      \* the request whose run holds the slot of the agent's thread
  pc,        \* step of the request: queued, or where its goroutine is
  result,    \* how the execution of a request ended
  errors     \* calls that failed so far

agentVars == <<current, queue, slot, pc, result, errors>>
queueVars == <<taskVars, agentVars>>

Fails == errors < MaxErrors /\ errors' = errors + 1
Goto(t, to) == pc' = [pc EXCEPT ![t] = to]

QueueInit ==
  /\ TableInit
  /\ current = NoTask /\ queue = <<>> /\ slot = NoTask
  /\ pc = [t \in ManagedTasks |-> "idle"]
  /\ result = [t \in ManagedTasks |-> "completed"]
  /\ errors = 0
-----------------------------------------------------------------------------
\* submitAgentTask holds the coordinator's lock over the registration.
SubmitAgentTask(t) ==
  /\ pc[t] = "idle"
  /\ StartAgentTask(t, current # NoTask)
  /\ IF current # NoTask
     THEN queue' = Append(queue, t) /\ Goto(t, "queued") /\ UNCHANGED current
     ELSE current' = t /\ Goto(t, "admit") /\ UNCHANGED queue
  /\ UNCHANGED <<commands, slot, result, errors>>

\* admitAgentRun: one run at a time holds the slot of the thread ...
Admit(t) ==
  /\ pc[t] = "admit" /\ slot = NoTask
  /\ slot' = t
  /\ Goto(t, "execute")
  /\ UNCHANGED <<taskVars, current, queue, result, errors>>

\* ... and the admission is refused for that, for its cancelled context, or for an error.
AdmitRefused(t) ==
  /\ pc[t] = "admit"
  /\ \/ (slot # NoTask \/ ctx[t] = "done") /\ UNCHANGED errors
     \/ Fails
  /\ result' = [result EXCEPT ![t] = "failed"]
  /\ Goto(t, "complete")
  /\ UNCHANGED <<taskVars, current, queue, slot>>

\* runSubagentTask returns, cancelled or not.
ExecutionReturns(t, how) ==
  /\ pc[t] = "execute"
  /\ result' = [result EXCEPT ![t] = how]
  /\ Goto(t, "check")
  /\ UNCHANGED <<taskVars, current, queue, slot, errors>>

\* A task that was killed meanwhile reports so, while the table lists it.
CheckKilled(t) ==
  /\ pc[t] = "check"
  /\ result' = [result EXCEPT ![t] = IF t \in listed /\ status[t] = "killed"
                                     THEN "killed" ELSE @]
  /\ Goto(t, "finish")
  /\ UNCHANGED <<taskVars, current, queue, slot, errors>>

\* The slot is given back when the goroutine returns, after the promotion.
FinishRun_Deferred(t) ==
  /\ pc[t] = "finish"
  /\ Goto(t, "complete")
  /\ UNCHANGED <<taskVars, current, queue, slot, result, errors>>

\* finishRun: the terminal write releases the slot ...
FinishRun(t) ==
  /\ pc[t] = "finish"
  /\ slot' = NoTask
  /\ Goto(t, "complete")
  /\ UNCHANGED <<taskVars, current, queue, result, errors>>

\* ... or fails, and leaves it to a reaper.
FinishRunFails(t) ==
  /\ pc[t] = "finish"
  /\ Fails
  /\ Goto(t, "complete")
  /\ UNCHANGED <<taskVars, current, queue, slot, result>>

SlotReaped ==
  /\ slot # NoTask
  /\ pc[slot] \in {"complete", "pop", "mark", "done"}
  /\ slot' = NoTask
  /\ UNCHANGED <<taskVars, current, queue, pc, result, errors>>

CompleteAgentRequest(t) ==
  /\ pc[t] = "complete"
  /\ CompleteAgentTask(t, result[t])
  /\ result' = [result EXCEPT ![t] = "completed"]
  /\ Goto(t, "pop")
  /\ UNCHANGED <<commands, current, queue, slot, errors>>

\* Requests killed while they were queued are passed over.
Skipped(t) == t \in listed /\ status[t] = "killed"
First      == CHOOSE i \in 1..(Len(queue) + 1) :
                /\ \A j \in 1..(i - 1) : Skipped(queue[j])
                /\ i <= Len(queue) => ~Skipped(queue[i])

\* The first n requests leave the queue, and t goes on to the last of them, if any.
Take(t, n) ==
  /\ current' = IF n <= Len(queue) THEN queue[n] ELSE NoTask
  /\ queue' = SubSeq(queue, n + 1, Len(queue))
  /\ pc' = [u \in ManagedTasks |->
             IF u = t THEN IF n <= Len(queue) THEN "mark" ELSE "done"
             ELSE IF \E j \in 1..(n - 1) : queue[j] = u THEN "done" ELSE pc[u]]

\* A killed request at the head ends the search.
FinishAgentRequest_StopsAtKilled(t) ==
  /\ pc[t] = "pop"
  /\ IF First = 1 THEN Take(t, 1)
     ELSE current' = NoTask /\ Goto(t, "done") /\ queue' = Tail(queue)
  /\ UNCHANGED <<taskVars, slot, result, errors>>

\* The agent is free as soon as a request is done, and promotes after that.
FinishAgentRequest_Unlocked(t) ==
  /\ pc[t] = "pop"
  /\ \/ Take(t, First)
     \/ current # NoTask /\ current' = NoTask /\ UNCHANGED <<queue, pc>>
  /\ UNCHANGED <<taskVars, slot, result, errors>>

\* finishAgentRequest gives the agent to the first request that is not killed ...
FinishAgentRequest(t) ==
  /\ pc[t] = "pop"
  /\ Take(t, First)
  /\ UNCHANGED <<taskVars, slot, result, errors>>

\* ... and starts its goroutine ...
Promote(t) ==
  /\ pc[t] = "mark"
  /\ MarkAgentTaskRunning(current)
  /\ pc' = [pc EXCEPT ![t] = "done", ![current] = "admit"]
  /\ UNCHANGED <<commands, current, queue, slot, result, errors>>

\* ... or goes on to the one after it: it was killed just now, or is not found.
PromotionRefused(t) ==
  /\ pc[t] = "mark"
  /\ ~CanMarkRunning(current)
  /\ pc' = [pc EXCEPT ![t] = "pop", ![current] = "done"]
  /\ UNCHANGED <<taskVars, current, queue, slot, result, errors>>
-----------------------------------------------------------------------------
RequestStep(t) ==
  \/ Admit(t) \/ AdmitRefused(t)
  \/ \E how \in {"completed", "failed"} : ExecutionReturns(t, how)
  \/ CheckKilled(t) \/ FinishRun(t) \/ FinishRunFails(t) \/ CompleteAgentRequest(t)
  \/ FinishAgentRequest(t) \/ Promote(t) \/ PromotionRefused(t)

QueueNext ==
  \/ TableNext /\ UNCHANGED agentVars
  \/ \E t \in ManagedTasks : SubmitAgentTask(t) \/ RequestStep(t)
  \/ SlotReaped

\* Goroutines go on; an execution returns, for its context has a deadline.
QueueSpec ==
  /\ QueueInit /\ [][QueueNext]_queueVars
  /\ \A e \in ExecTasks : WF_queueVars(AdoptStep(e) /\ UNCHANGED agentVars)
  /\ \A t \in Tasks : WF_queueVars(CancelKilled(t) /\ UNCHANGED agentVars)
  /\ \A t \in ManagedTasks : WF_queueVars(RequestStep(t))
-----------------------------------------------------------------------------
(* Properties                                                              *)

Steps  == {"idle", "queued", "admit", "execute", "check", "finish", "complete", "pop", "mark",
           "done"}
Working == {"admit", "execute", "check", "finish", "complete"}
Drivers == {t \in ManagedTasks : pc[t] \in Working \cup {"pop", "mark"}}

\* Domains of the variables of the agent's queue.
QueueTypeOK ==
  /\ TableTypeOK
  /\ current \in ManagedTasks \cup {NoTask} /\ slot \in ManagedTasks \cup {NoTask}
  /\ queue \in Seq(ManagedTasks) /\ pc \in [ManagedTasks -> Steps]
  /\ result \in [ManagedTasks -> Ended] /\ errors \in 0..MaxErrors

\* agentCoordinator: one goroutine drives the agent while it is taken, and works on
\* the request the coordinator names; the queue always has a driver to empty it.
OneRequestAtATime ==
  /\ \A t, u \in Drivers : t = u
  /\ current # NoTask <=> Drivers # {}
  /\ \A t \in Drivers : pc[t] \in Working => current = t
  /\ queue # <<>> => current # NoTask

\* runAgentRequest: "Release the thread's slot before the queue promotes the next
\* message, or the successor's admission finds this run still active and is told the
\* agent is busy."
SuccessorFindsSlot ==
  \A t \in ManagedTasks : pc[t] = "admit" => slot = NoTask \/ errors > 0

\* MarkAgentTaskRunning: "If the task was killed while queued, ok is false and no run
\* should start."  A run of a killed task has its context cancelled once Kill returns.
KillReachesRun ==
  \A t \in ManagedTasks :
    status[t] = "killed" /\ t \notin killing /\ pc[t] = "execute" => ctx[t] = "done"

\* What a task ended as is what it stays.
EndedStays ==
  [][\A t \in Tasks : status[t] \in Ended => status'[t] = status[t]]_queueVars

\* WaitForSessionTask: nobody sleeps on a task that has ended.
NobodySleepsOnEnded == \A w \in Waiters : wait[w].at = "asleep" => ~Settled(wait[w].task)

\* finishAgentRequest: whatever fails or is killed before it, a queued message is executed
\* or ends with an error, unless it is itself killed or was swept away.
QueuedMessageSettles ==
  \A t \in ManagedTasks :
    pc[t] = "queued" ~> \/ pc[t] \in {"execute", "complete"}
                         \/ status[t] = "killed" \/ t \notin listed

\* runAdopt: the end of a command is reported, whatever became of its task.
EndedCommandReported ==
  \A e \in ExecTasks : runner[e] # "none" /\ e \notin process ~> runner[e] = "ended"

\* submitAgentTask: "Agent is currently running.  Message queued."  A queued message is
\* run, unless it is killed, its time runs out first, or a call fails.
QueuedMessageRuns ==
  \A t \in ManagedTasks :
    pc[t] = "queued" ~> \/ pc[t] = "execute" \/ status[t] = "killed"
                         \/ ctx[t] = "done" \/ errors > 0

\* Kill: "cancels a running background task".
KillStopsCommand ==
  \A e \in ExecTasks : status[e] = "killed" /\ runner[e] = "ended" => e \notin process
=============================================================================
