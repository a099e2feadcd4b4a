---------------------------- MODULE ApprovalFlow ----------------------------
(***************************************************************************)
(* One tool approval that tool calls of an ACP runtime wait for in their   *)
(* process: RunFlow and the Waiter on the side of the calls, answers that  *)
(* reach the server of the calls, the cleanup of the runtime that made     *)
(* them, and a newer run of the session that supersedes the request.       *)
(*                                                                         *)
(* Every statement on the request's row is a step, and so is every section *)
(* under the Waiter's lock: between the UPDATE that decides a request and  *)
(* the Notify that wakes the calls, anything can happen, and so it can     *)
(* between the channels that a Notify takes and each of its sends.         *)
(*                                                                         *)
(* Abstractions.  Policy bypasses and denials create no request.  Answers  *)
(* carry the fence of the run, as ControlRouting delivers them; that they  *)
(* may be answered elsewhere is its subject.  A failed UPDATE has not been *)
(* committed.  A crash of the server ends its calls with it.               *)
(***************************************************************************)
EXTENDS Integers

CONSTANTS
  Calls,       \* tool calls that share the request: one tool call id
  Responders,  \* answers given by users
  Pool,        \* the session pool, which closes the runtime of the calls
  MaxErrors    \* bound on statements that fail

ASSUME FlowAssumption ==
  /\ Calls \cap Responders = {} /\ Pool \notin Calls \cup Responders
  /\ MaxErrors \in Nat

VARIABLES
  row,         \* status of the request, "none" before it is created
  stale,       \* the session's fence has moved past the run's token
  pc,          \* step of a call, of an answer, or of the pool
  ctx,         \* context of a call: its wait may time out, then it may be cancelled
  subscribers, \* Waiter.subscribers of the request
  heard,       \* what is in the channel of a call
  registered,  \* Waiter.registered, as the calls that count in it
  sending,     \* channels that a Notify took and has not sent on yet
  announced,   \* calls whose request reached the user's stream
  out,         \* what a call goes on with, once it returns
  said,        \* what became of an answer
  errors       \* statements that failed so far

waiterVars == <<subscribers, heard, registered, sending>>
flowVars   == <<row, stale, pc, ctx, waiterVars, announced, out, said, errors>>

Decided == {"approved", "rejected", "cancelled"}

ApprovalInit ==
  /\ row = "none" /\ stale = FALSE
  /\ pc = [p \in Calls \cup Responders \cup {Pool} |-> "idle"]
  /\ ctx = [f \in Calls |-> "live"]
  /\ subscribers = {} /\ heard = [f \in Calls |-> "none"] /\ registered = {}
  /\ sending = [p \in Calls \cup Responders \cup {Pool} |-> {}]
  /\ announced = {}
  /\ out = [f \in Calls |-> "none"]
  /\ said = [x \in Responders |-> "none"]
  /\ errors = 0

Goto(p, to) == pc' = [pc EXCEPT ![p] = to]
Works == UNCHANGED errors
Fails == errors < MaxErrors /\ errors' = errors + 1

\* The guarded UPDATEs: a pending request of the current fence.
Decidable == row = "pending" /\ ~stale

\* Notify takes the channels of the calls that have subscribed under the lock ...
TakeSubscribers(p, send, done) ==
  /\ sending' = [sending EXCEPT ![p] = subscribers]
  /\ subscribers' = {}
  /\ Goto(p, IF subscribers = {} THEN done ELSE send)
  /\ UNCHANGED <<heard, registered>>

\* ... and sends without it: a channel that holds a value keeps it.
SendOn(p, value, done) ==
  /\ \E f \in sending[p] :
       /\ heard' = [heard EXCEPT ![f] = IF @ = "none" THEN value ELSE @]
       /\ sending' = [sending EXCEPT ![p] = @ \ {f}]
       /\ IF sending[p] = {f} THEN Goto(p, done) ELSE UNCHANGED pc
  /\ UNCHANGED <<subscribers, registered>>

Return_DropsAll(f, value, to) ==
  /\ out' = [out EXCEPT ![f] = value]
  /\ Goto(f, to)
  /\ subscribers' = {}
  /\ UNCHANGED <<heard, registered, sending>>

\* The call goes on with a decision, or with an error, and leaves the Waiter.
Return(f, value, to) ==
  /\ out' = [out EXCEPT ![f] = value]
  /\ Goto(f, to)
  /\ subscribers' = subscribers \ {f}
  /\ UNCHANGED <<heard, registered, sending>>
-----------------------------------------------------------------------------
(* RunFlow                                                                 *)

\* CreatePending, and whether a stream can ask the user.
Create(f) ==
  /\ pc[f] = "idle"
  /\ ctx[f] = "live" /\ ~stale /\ row \in {"none", "pending"}
  /\ row' = "pending"
  /\ \/ Goto(f, "register") /\ UNCHANGED out
     \/ Goto(f, "reject") /\ out' = [out EXCEPT ![f] = "rejected"]
  /\ UNCHANGED <<stale, ctx, waiterVars, announced, said, errors>>

CreateRefused(f) ==
  /\ pc[f] = "idle"
  /\ \/ (ctx[f] # "live" \/ stale \/ row \in Decided) /\ Works
     \/ Fails
  /\ Return(f, "error", "returned")
  /\ UNCHANGED <<row, stale, ctx, announced, said>>

RegisterWaiter(f) ==
  /\ pc[f] = "register"
  /\ registered' = registered \cup {f}
  /\ Goto(f, "emit")
  /\ UNCHANGED <<row, stale, ctx, subscribers, heard, sending, announced, out, said, errors>>

Emit(f) ==
  /\ pc[f] = "emit"
  /\ \/ Goto(f, "subscribe") /\ announced' = announced \cup {f} /\ UNCHANGED out
     \/ Goto(f, "reject") /\ out' = [out EXCEPT ![f] = "rejected"] /\ UNCHANGED announced
  /\ UNCHANGED <<row, stale, ctx, waiterVars, said, errors>>

\* Subscribed before the first poll: a decision is either read or heard.
Subscribe(f) ==
  /\ pc[f] = "subscribe"
  /\ subscribers' = subscribers \cup {f}
  /\ Goto(f, "poll")
  /\ UNCHANGED <<row, stale, ctx, heard, registered, sending, announced, out, said, errors>>

Poll(f) ==
  /\ pc[f] = "poll" /\ ctx[f] = "live"
  /\ IF row \in Decided
     THEN Return(f, row, "release")
     ELSE Goto(f, "select") /\ UNCHANGED <<waiterVars, out>>
  /\ UNCHANGED <<row, stale, ctx, announced, said, errors>>

\* A failed poll is the end of the flow, and the request stays as it is ...
PollFails(f) ==
  /\ pc[f] = "poll" /\ ctx[f] = "live"
  /\ Fails
  /\ Return(f, "error", "release")
  /\ UNCHANGED <<row, stale, ctx, announced, said>>

\* ... unless the wait is over, when the channel is drained, before a poll or in it.
WaitOver(f) ==
  /\ pc[f] \in {"poll", "select"} /\ ctx[f] # "live"
  /\ IF heard[f] # "none" THEN Return(f, heard[f], "release") ELSE Return(f, "none", "final")
  /\ UNCHANGED <<row, stale, ctx, announced, said, errors>>

Woken(f) ==
  /\ pc[f] = "select" /\ heard[f] # "none"
  /\ Return(f, heard[f], "release")
  /\ UNCHANGED <<row, stale, ctx, announced, said, errors>>

Tick(f) ==
  /\ pc[f] = "select" /\ ctx[f] = "live"
  /\ Goto(f, "poll")
  /\ UNCHANGED <<row, stale, ctx, waiterVars, announced, out, said, errors>>

\* resolvedAfterContextDone prefers the answer over the end of the wait.
ReadAfterWait(f) ==
  /\ pc[f] = "final"
  /\ \/ row \in Decided /\ Works /\ Return(f, row, "release")
     \/ /\ IF row \in Decided THEN Fails ELSE Works
        /\ Return(f, IF ctx[f] = "timeout" THEN "rejected" ELSE "error", "reject")
  /\ UNCHANGED <<row, stale, ctx, announced, said>>

Reject_CallersContext(f) ==
  /\ pc[f] = "reject" /\ Decidable
  /\ IF ctx[f] = "cancelled"
     THEN UNCHANGED row /\ Goto(f, "release")
     ELSE row' = "rejected" /\ Goto(f, "tell")
  /\ UNCHANGED <<stale, ctx, waiterVars, announced, out, said, errors>>

\* Reject on a detached context: the request must not dangle.
Reject(f) ==
  /\ pc[f] = "reject" /\ Decidable
  /\ row' = "rejected"
  /\ Goto(f, "tell")
  /\ UNCHANGED <<stale, ctx, waiterVars, announced, out, said, errors>>

RejectLost_Forgets(f) ==
  /\ pc[f] = "reject" /\ ~Decidable
  /\ Goto(f, "release")
  /\ UNCHANGED <<row, stale, ctx, waiterVars, announced, out, said, errors>>

\* ErrAlreadyDecided: somebody was faster, and recoverTerminalDecision reads who.
RejectLost(f) ==
  /\ pc[f] = "reject" /\ ~stale /\ row \in Decided
  /\ Goto(f, "recover")
  /\ UNCHANGED <<row, stale, ctx, waiterVars, announced, out, said, errors>>

\* ErrStale, or a failed statement.
RejectFails(f) ==
  /\ pc[f] = "reject"
  /\ \/ stale /\ Works
     \/ Fails
  /\ Return(f, "error", "release")
  /\ UNCHANGED <<row, stale, ctx, announced, said>>

Recover(f) ==
  /\ pc[f] = "recover"
  /\ \/ Works /\ Return(f, row, "release")
     \/ Fails /\ Return(f, "error", "release")
  /\ UNCHANGED <<row, stale, ctx, announced, said>>

TellRejected(f) ==
  /\ \/ pc[f] = "tell" /\ TakeSubscribers(f, "send", "release")
     \/ pc[f] = "send" /\ SendOn(f, "rejected", "release")
  /\ UNCHANGED <<row, stale, ctx, announced, out, said, errors>>

ReleaseWaiter_DropsAll(f) ==
  /\ pc[f] = "release"
  /\ registered' = {}
  /\ Goto(f, "returned")
  /\ UNCHANGED <<row, stale, ctx, subscribers, heard, sending, announced, out, said, errors>>

\* The deferred release is the last thing a call does.
ReleaseWaiter(f) ==
  /\ pc[f] = "release"
  /\ registered' = registered \ {f}
  /\ Goto(f, "returned")
  /\ UNCHANGED <<row, stale, ctx, subscribers, heard, sending, announced, out, said, errors>>

CallStep(f) ==
  \/ Create(f) \/ CreateRefused(f) \/ RegisterWaiter(f) \/ Emit(f)
  \/ Subscribe(f) \/ Poll(f) \/ PollFails(f) \/ WaitOver(f) \/ Woken(f) \/ Tick(f)
  \/ ReadAfterWait(f) \/ Reject(f) \/ RejectLost(f) \/ RejectFails(f) \/ Recover(f)
  \/ TellRejected(f) \/ ReleaseWaiter(f)

\* DefaultWaitTimeout, over the wait only.
TimeOut(f) ==
  /\ pc[f] \in {"subscribe", "poll", "select"} /\ ctx[f] = "live"
  /\ ctx' = [ctx EXCEPT ![f] = "timeout"]
  /\ UNCHANGED <<row, stale, pc, waiterVars, announced, out, said, errors>>

\* The agent or its prompt gives up on the call.
CancelCall(f) ==
  /\ pc[f] # "returned" /\ ctx[f] # "cancelled"
  /\ ctx' = [ctx EXCEPT ![f] = "cancelled"]
  /\ UNCHANGED <<row, stale, pc, waiterVars, announced, out, said, errors>>
-----------------------------------------------------------------------------
(* CommitToolApprovalResponse                                              *)

\* ResolveTarget finds pending requests, announced or not.
Resolve(x) ==
  /\ pc[x] = "idle" /\ row = "pending"
  /\ Goto(x, "target")
  /\ UNCHANGED <<row, stale, ctx, waiterVars, announced, out, said, errors>>

\* CanRespond: the request that was read, and a call that waits for it now.
CanRespond(x) ==
  /\ pc[x] = "target"
  /\ Goto(x, IF registered # {} THEN "decide" ELSE "expire")
  /\ UNCHANGED <<row, stale, ctx, waiterVars, announced, out, said, errors>>

Answer(x, decision) ==
  /\ pc[x] = "decide" /\ Decidable
  /\ row' = decision
  /\ said' = [said EXCEPT ![x] = decision]
  /\ Goto(x, "tell")
  /\ UNCHANGED <<stale, ctx, waiterVars, announced, out, errors>>

\* Nobody waits: the request is rejected for the user.
Expire(x) ==
  /\ pc[x] = "expire" /\ Decidable
  /\ row' = "rejected"
  /\ said' = [said EXCEPT ![x] = "expired"]
  /\ Goto(x, "tell")
  /\ UNCHANGED <<stale, ctx, waiterVars, announced, out, errors>>

\* Somebody was faster than the expiry, and the answer is acknowledged all the same.
ExpireLost(x) ==
  /\ pc[x] = "expire" /\ ~stale /\ row \in Decided
  /\ said' = [said EXCEPT ![x] = "expired"]
  /\ Goto(x, "done")
  /\ UNCHANGED <<row, stale, ctx, waiterVars, announced, out, errors>>

\* An answer comes too late, a newer run has the fence, or a statement fails.
AnswerRefused(x) ==
  /\ pc[x] \in {"decide", "expire"}
  /\ \/ (stale \/ (pc[x] = "decide" /\ row \in Decided)) /\ Works
     \/ Fails
  /\ said' = [said EXCEPT ![x] = "refused"]
  /\ Goto(x, "done")
  /\ UNCHANGED <<row, stale, ctx, waiterVars, announced, out>>

TellAnswer(x) ==
  /\ \/ pc[x] = "tell" /\ TakeSubscribers(x, "send", "done")
     \/ /\ pc[x] = "send"
        /\ SendOn(x, IF said[x] = "expired" THEN "rejected" ELSE said[x], "done")
  /\ UNCHANGED <<row, stale, ctx, announced, out, said, errors>>

AnswerStep(x) ==
  \/ Resolve(x) \/ CanRespond(x) \/ Expire(x) \/ ExpireLost(x) \/ AnswerRefused(x)
  \/ TellAnswer(x)
  \/ \E decision \in {"approved", "rejected"} : Answer(x, decision)
-----------------------------------------------------------------------------
(* The pool closes the runtime, and a newer run begins                     *)

\* CancelPendingForSession, before and after the session of the agent is closed.
CleanUp ==
  /\ pc[Pool] \in {"idle", "closing"}
  /\ LET tell == IF pc[Pool] = "idle" THEN "tell" ELSE "finaltell"
         skip == IF pc[Pool] = "idle" THEN "closing" ELSE "closed"
     IN \/ Decidable /\ row' = "cancelled" /\ Goto(Pool, tell) /\ Works
        \/ ~Decidable /\ UNCHANGED row /\ Goto(Pool, skip) /\ Works
        \/ UNCHANGED row /\ Goto(Pool, skip) /\ Fails
  /\ UNCHANGED <<stale, ctx, waiterVars, announced, out, said>>

TellCancelled ==
  /\ \/ pc[Pool] = "tell" /\ TakeSubscribers(Pool, "send", "closing")
     \/ pc[Pool] = "finaltell" /\ TakeSubscribers(Pool, "finalsend", "closed")
     \/ pc[Pool] = "send" /\ SendOn(Pool, "cancelled", "closing")
     \/ pc[Pool] = "finalsend" /\ SendOn(Pool, "cancelled", "closed")
  /\ UNCHANGED <<row, stale, ctx, announced, out, said, errors>>

\* Activate moves the fence and closes what is pending, telling nobody.
Supersede ==
  /\ ~stale
  /\ stale' = TRUE
  /\ row' = IF row = "pending" THEN "cancelled" ELSE row
  /\ UNCHANGED <<pc, ctx, waiterVars, announced, out, said, errors>>

ApprovalNext ==
  \/ \E f \in Calls : CallStep(f) \/ TimeOut(f) \/ CancelCall(f)
  \/ \E x \in Responders : AnswerStep(x)
  \/ CleanUp \/ TellCancelled \/ Supersede

\* Calls run, their wait is bounded, and what began to answer goes on.  Nothing
\* says that a user answers, or that the runtime is ever closed.
ApprovalSpec ==
  /\ ApprovalInit /\ [][ApprovalNext]_flowVars
  /\ \A f \in Calls : WF_flowVars(CallStep(f)) /\ WF_flowVars(TimeOut(f))
  /\ \A x \in Responders : WF_flowVars(pc[x] # "idle" /\ AnswerStep(x))
  /\ WF_flowVars(TellCancelled)
-----------------------------------------------------------------------------
(* Properties                                                              *)

CallSteps   == {"idle", "register", "emit", "subscribe", "poll", "select", "final",
                "reject", "recover", "tell", "send", "release", "returned"}
AnswerSteps == {"idle", "target", "decide", "expire", "tell", "send", "done"}
PoolSteps   == {"idle", "tell", "send", "closing", "finaltell", "finalsend", "closed"}
Processes   == Calls \cup Responders \cup {Pool}

ApprovalTypeOK ==
  /\ row \in {"none", "pending"} \cup Decided /\ stale \in BOOLEAN /\ errors \in Nat
  /\ pc \in [Processes -> CallSteps \cup AnswerSteps \cup PoolSteps]
  /\ \A f \in Calls : pc[f] \in CallSteps
  /\ \A x \in Responders : pc[x] \in AnswerSteps
  /\ pc[Pool] \in PoolSteps
  /\ ctx \in [Calls -> {"live", "timeout", "cancelled"}]
  /\ subscribers \subseteq Calls /\ registered \subseteq Calls /\ announced \subseteq Calls
  /\ sending \in [Processes -> SUBSET Calls]
  /\ heard \in [Calls -> Decided \cup {"none"}]
  /\ out \in [Calls -> Decided \cup {"none", "error"}]
  /\ said \in [Responders -> {"none", "approved", "rejected", "expired", "refused"}]

\* A call that returned goes on with what the row says, whoever decided it, and an
\* answer that was recorded is what some call went on with: flow.go:98-213.
CallsFollowTheRow ==
  /\ \A f \in Calls : pc[f] = "returned" /\ out[f] \in Decided => out[f] = row
  /\ \A x \in Responders :
       /\ said[x] \in {"approved", "rejected"}
       /\ \A f \in Calls : pc[f] \in {"idle", "returned"}
       /\ errors = 0 /\ ~stale
       => \E f \in Calls : out[f] = said[x]

\* An answer is taken for an orphan only when every call that announced the
\* request has returned: the promise of Register, waiter.go:80-102.
AnnouncedNotOrphaned ==
  [][\A x \in Responders : pc[x] = "target" /\ pc'[x] = "expire" =>
       \A f \in announced : pc[f] = "returned"]_flowVars

\* A call sleeps through no decision: when it waits with an empty channel, the row
\* is pending, or somebody is about to notify and has or will find its channel, or
\* a newer run superseded it, which the fallback poll finds: waiter.go:61-78, 114-165.
NoMissedDecision ==
  \A f \in Calls : pc[f] = "select" /\ heard[f] = "none" /\ row \in Decided =>
    \/ stale
    \/ f \in subscribers /\ \E p \in Processes : pc[p] \in {"tell", "finaltell"}
    \/ \E p \in Processes : f \in sending[p]

\* "The pending row must not dangle": unless a statement failed, a request does
\* not stay pending, although nobody answers and whenever its calls are
\* cancelled: flow.go:105-125, 136-209.
RequestSettlesUnlessFailed ==
  row = "pending" ~> (row # "pending" \/ errors > 0)

\* The comment says so whatever happens: flow.go:32-34, 110-111 and 161-163.
RequestSettles == row = "pending" ~> row # "pending"
=============================================================================
