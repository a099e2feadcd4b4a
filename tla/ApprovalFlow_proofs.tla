------------------------- MODULE ApprovalFlow_proofs -------------------------
(***************************************************************************)
(* What the waiters of one tool approval can rely on, for any number of    *)
(* calls, answers and failing statements.                                  *)
(*                                                                         *)
(* CallsFollowTheRow relates calls that returned to answers given long     *)
(* before, so it is not inductive.  What carries it: a decided row is      *)
(* final, and as long as no statement failed somebody is on the way to     *)
(* read it or has read it.  NoMissedDecision needs that a call which polls *)
(* or sleeps has subscribed or was told.                                   *)
(***************************************************************************)
EXTENDS ApprovalFlow, TLAPS

Accepted(x) == said[x] \in {"approved", "rejected"}
Underway(f) == pc[f] \notin {"idle", "release", "returned"}
Telling(p)  == pc[p] \in {"tell", "finaltell"}
Sending(p)  == pc[p] \in {"send", "finalsend"}

\* What a call knows, and what it is going to do about it.
CallFits(f) ==
  /\ heard[f] # "none" => heard[f] = row
  /\ pc[f] = "idle" => out[f] = "none"
  /\ pc[f] = "reject" => out[f] \in {"rejected", "error"}
  /\ pc[f] = "recover" => row \in Decided
  /\ pc[f] \in {"tell", "send"} => row = "rejected" /\ out[f] \in {"rejected", "error"}
  /\ pc[f] \in {"release", "returned"} /\ out[f] \in Decided => out[f] = row
  /\ pc[f] \in {"poll", "select"} => \/ f \in subscribers \/ heard[f] # "none"
                                    \/ \E p \in Processes : f \in sending[p]
  /\ pc[f] = "emit" => f \in registered
  /\ f \in announced => f \in registered \/ pc[f] = "returned"

AnswerFits(x) ==
  /\ Accepted(x) => said[x] = row /\ \A f \in Calls : pc[f] \notin {"tell", "send"}
  /\ pc[x] \in {"idle", "target", "decide", "expire"} => said[x] = "none"
  /\ pc[x] \in {"tell", "send"} => row = (IF said[x] = "expired" THEN "rejected" ELSE said[x])
  /\ pc[x] \in {"tell", "send"} => said[x] \in {"approved", "rejected", "expired"}

PoolFits == Telling(Pool) \/ Sending(Pool) => row = "cancelled"

\* Somebody is on the way to the decision, or has it.
Heir ==
  /\ errors = 0 /\ ~stale /\ row # "none"
  /\ row = "pending" \/ \E x \in Responders : Accepted(x)
  => \E f \in Calls : Underway(f) \/ out[f] = row

FlowInvariant ==
  /\ ApprovalTypeOK
  /\ \A f \in Calls : CallFits(f)
  /\ \A x \in Responders : AnswerFits(x)
  /\ \A p \in Processes : sending[p] # {} => Sending(p)
  /\ PoolFits
  /\ NoMissedDecision
  /\ Heir
-----------------------------------------------------------------------------
\* What every statement and every section of the Waiter is made of.
USE FlowAssumption
    DEF Decided, Processes, CallSteps, AnswerSteps, PoolSteps, waiterVars,
        Goto, Works, Fails, Decidable, TakeSubscribers, SendOn, Return, Accepted, Underway,
        Telling, Sending

LEMMA InitInvariant == ApprovalInit => FlowInvariant
<1> SUFFICES ASSUME ApprovalInit PROVE FlowInvariant
  OBVIOUS
<1>1. ApprovalTypeOK
  BY DEF ApprovalInit, ApprovalTypeOK
<1>2. \A p \in Processes : pc[p] = "idle"
  BY DEF ApprovalInit
<1>3. (\A f \in Calls : CallFits(f)) /\ (\A x \in Responders : AnswerFits(x))
  BY <1>2 DEF ApprovalInit, CallFits, AnswerFits
<1>4. PoolFits /\ NoMissedDecision /\ Heir
  BY <1>2 DEF ApprovalInit, PoolFits, NoMissedDecision, Heir
<1>5. \A p \in Processes : sending[p] = {}
  BY DEF ApprovalInit
<1> QED BY <1>1, <1>3, <1>4, <1>5 DEF FlowInvariant

(* The calls.  A call leaves its wait with the row, with an error, or with *)
(* the end of the wait, and in that case only the row lets it past Reject. *)
LEMMA CallWaitsPreserve ==
  ASSUME FlowInvariant, NEW f \in Calls,
         \/ Create(f) \/ CreateRefused(f) \/ RegisterWaiter(f) \/ Emit(f) \/ Subscribe(f)
         \/ Poll(f) \/ PollFails(f) \/ WaitOver(f) \/ Woken(f) \/ Tick(f)
  PROVE  FlowInvariant'
<1> USE DEF FlowInvariant, ApprovalTypeOK, CallFits, AnswerFits, PoolFits,
            NoMissedDecision, Heir
<1>1. CASE Create(f)
  BY <1>1 DEF Create
<1>2. CASE CreateRefused(f)
  BY <1>2 DEF CreateRefused
<1>3. CASE RegisterWaiter(f)
  BY <1>3 DEF RegisterWaiter
<1>4. CASE Emit(f)
  BY <1>4 DEF Emit
<1>5. CASE Subscribe(f)
  BY <1>5 DEF Subscribe
<1>6. CASE Poll(f)
  BY <1>6 DEF Poll
<1>7. CASE PollFails(f)
  BY <1>7 DEF PollFails
<1>8. CASE WaitOver(f)
  BY <1>8 DEF WaitOver
<1>9. CASE Woken(f)
  BY <1>9 DEF Woken
<1>10. CASE Tick(f)
  BY <1>10 DEF Tick
<1> QED
  BY <1>1, <1>2, <1>3, <1>4, <1>5, <1>6, <1>7, <1>8, <1>9, <1>10

LEMMA CallEndsPreserve ==
  ASSUME FlowInvariant, NEW f \in Calls,
         \/ ReadAfterWait(f) \/ Reject(f) \/ RejectLost(f) \/ RejectFails(f) \/ Recover(f)
         \/ TellRejected(f) \/ ReleaseWaiter(f) \/ TimeOut(f) \/ CancelCall(f)
  PROVE  FlowInvariant'
<1> USE DEF FlowInvariant, ApprovalTypeOK, CallFits, AnswerFits, PoolFits,
            NoMissedDecision, Heir
<1>1. CASE ReadAfterWait(f)
  BY <1>1 DEF ReadAfterWait
<1>2. CASE Reject(f)
  BY <1>2 DEF Reject
<1>3. CASE RejectLost(f)
  BY <1>3 DEF RejectLost
<1>4. CASE RejectFails(f)
  BY <1>4 DEF RejectFails
<1>5. CASE Recover(f)
  BY <1>5 DEF Recover
<1>6. CASE TellRejected(f)
  <2>1. CASE pc[f] = "tell"
    <3>1. CASE subscribers = {}
      BY <1>6, <2>1, <3>1 DEF TellRejected
    <3>2. CASE subscribers # {}
      BY <1>6, <2>1, <3>2 DEF TellRejected
    <3> QED BY <3>1, <3>2
  <2>2. ASSUME NEW g \in sending[f], pc[f] = "send", SendOn(f, "rejected", "release"),
               heard' = [heard EXCEPT ![g] = IF @ = "none" THEN "rejected" ELSE @],
               sending' = [sending EXCEPT ![f] = @ \ {g}],
               pc' = [pc EXCEPT ![f] = IF sending[f] = {g} THEN "release" ELSE @]
        PROVE  FlowInvariant'
    BY <1>6, <2>2 DEF TellRejected
  <2>3. CASE pc[f] = "send"
    BY <1>6, <2>2, <2>3 DEF TellRejected
  <2> QED BY <1>6, <2>1, <2>3 DEF TellRejected
<1>7. CASE ReleaseWaiter(f)
  BY <1>7 DEF ReleaseWaiter
<1>8. CASE TimeOut(f)
  BY <1>8 DEF TimeOut
<1>9. CASE CancelCall(f)
  BY <1>9 DEF CancelCall
<1> QED
  BY <1>1, <1>2, <1>3, <1>4, <1>5, <1>6, <1>7, <1>8, <1>9

(* The answers.  An accepted answer makes the row what it says, while some *)
(* call is still under way to read it.                                     *)
LEMMA AnswersPreserve ==
  ASSUME FlowInvariant, NEW x \in Responders, AnswerStep(x)
  PROVE  FlowInvariant'
<1> USE DEF FlowInvariant, ApprovalTypeOK, CallFits, AnswerFits, PoolFits,
            NoMissedDecision, Heir
<1>1. CASE \E decision \in {"approved", "rejected"} : Answer(x, decision)
  BY <1>1 DEF Answer
<1>2. CASE Resolve(x)
  BY <1>2 DEF Resolve
<1>3. CASE CanRespond(x)
  BY <1>3 DEF CanRespond
<1>4. CASE Expire(x)
  BY <1>4 DEF Expire
<1>5. CASE AnswerRefused(x)
  BY <1>5 DEF AnswerRefused
<1>6. CASE ExpireLost(x)
  BY <1>6 DEF ExpireLost
<1>7. CASE TellAnswer(x)
  BY <1>7 DEF TellAnswer
<1> QED
  BY <1>1, <1>2, <1>3, <1>4, <1>5, <1>6, <1>7 DEF AnswerStep

(* The pool, and a newer run of the session.                               *)
LEMMA PoolPreserves ==
  ASSUME FlowInvariant, CleanUp \/ TellCancelled \/ Supersede
  PROVE  FlowInvariant'
<1> USE DEF FlowInvariant, ApprovalTypeOK, CallFits, AnswerFits, PoolFits,
            NoMissedDecision, Heir
<1>1. CASE CleanUp
  BY <1>1 DEF CleanUp
<1>2. CASE TellCancelled
  BY <1>2 DEF TellCancelled
<1>3. CASE Supersede
  BY <1>3 DEF Supersede
<1> QED
  BY <1>1, <1>2, <1>3

LEMMA NextPreserves == FlowInvariant /\ [ApprovalNext]_flowVars => FlowInvariant'
<1> SUFFICES ASSUME FlowInvariant, [ApprovalNext]_flowVars PROVE FlowInvariant'
  OBVIOUS
<1>1. ASSUME NEW f \in Calls, CallStep(f) \/ TimeOut(f) \/ CancelCall(f)
      PROVE  FlowInvariant'
  BY <1>1, CallWaitsPreserve, CallEndsPreserve DEF CallStep
<1>2. CASE UNCHANGED flowVars
  BY <1>2 DEF flowVars, FlowInvariant, ApprovalTypeOK, CallFits, AnswerFits, PoolFits,
              NoMissedDecision, Heir
<1> QED
  BY <1>1, <1>2, AnswersPreserve, PoolPreserves DEF ApprovalNext

(* The state of a request and of everybody at it fit together, for any     *)
(* number of calls, answers and failing statements.                        *)
THEOREM FlowIsInvariant == ApprovalSpec => []FlowInvariant
BY InitInvariant, NextPreserves, PTL DEF ApprovalSpec

-----------------------------------------------------------------------------
(* RunFlow: a call that returned goes on with what the row says, and an    *)
(* answer that was recorded is what a call went on with.                   *)
THEOREM CallsReadTheRow == ApprovalSpec => []CallsFollowTheRow
<1>1. FlowInvariant => CallsFollowTheRow
  <2> SUFFICES ASSUME FlowInvariant PROVE CallsFollowTheRow
    OBVIOUS
  <2>1. \A f \in Calls : pc[f] = "returned" /\ out[f] \in Decided => out[f] = row
    BY DEF FlowInvariant, CallFits
  <2>2. ASSUME NEW x \in Responders, Accepted(x), errors = 0, ~stale,
               \A f \in Calls : pc[f] \in {"idle", "returned"}
        PROVE  \E f \in Calls : out[f] = said[x]
    <3>1. said[x] = row /\ row # "none"
      BY <2>2 DEF FlowInvariant, AnswerFits
    <3>2. PICK f \in Calls : Underway(f) \/ out[f] = row
      BY <2>2, <3>1 DEF FlowInvariant, Heir
    <3> QED BY <2>2, <3>1, <3>2
  <2> QED BY <2>1, <2>2 DEF CallsFollowTheRow
<1> QED BY <1>1, FlowIsInvariant, PTL

(* Waiter.Await: no call sleeps through the decision of its request.       *)
THEOREM SleepersAreTold == ApprovalSpec => []NoMissedDecision
<1>1. FlowInvariant => NoMissedDecision
  BY DEF FlowInvariant
<1> QED BY <1>1, FlowIsInvariant, PTL

(* Waiter.Register: CanRespond takes an answer for an orphan only after    *)
(* every call that announced the request has returned.                     *)
THEOREM AnnouncedHaveWaiters == ApprovalSpec => AnnouncedNotOrphaned
<1> DEFINE Orphans == \A x \in Responders : pc[x] = "target" /\ pc'[x] = "expire" =>
                        \A f \in announced : pc[f] = "returned"
<1>1. FlowInvariant /\ [ApprovalNext]_flowVars => [Orphans]_flowVars
  <2> SUFFICES ASSUME FlowInvariant, ApprovalNext, NEW x \in Responders,
                      pc[x] = "target", pc'[x] = "expire"
               PROVE  \A f \in announced : pc[f] = "returned"
    OBVIOUS
  <2>1. ASSUME NEW f \in Calls, CallStep(f) \/ TimeOut(f) \/ CancelCall(f)
        PROVE  pc'[x] = pc[x]
    BY <2>1 DEF CallStep, Create, CreateRefused, RegisterWaiter, Emit, Subscribe, Poll,
         PollFails, WaitOver, Woken, Tick, ReadAfterWait, Reject, RejectLost, RejectFails,
         Recover, TellRejected, ReleaseWaiter, TimeOut, CancelCall,
         FlowInvariant, ApprovalTypeOK
  <2>2. ~ (CleanUp \/ TellCancelled \/ Supersede)
    BY DEF CleanUp, TellCancelled, Supersede, FlowInvariant, ApprovalTypeOK
  <2>3. ASSUME NEW y \in Responders, AnswerStep(y)
        PROVE  registered = {}
    BY <2>3 DEF AnswerStep, Resolve, CanRespond, Expire, ExpireLost, AnswerRefused,
         TellAnswer, Answer,
         FlowInvariant, ApprovalTypeOK
  <2>4. \E y \in Responders : AnswerStep(y)
    <3>1. ~ \E f \in Calls : CallStep(f) \/ TimeOut(f) \/ CancelCall(f)
      BY <2>1
    <3> QED BY <3>1, <2>2 DEF ApprovalNext
  <2> QED BY <2>3, <2>4 DEF FlowInvariant, ApprovalTypeOK, CallFits
<1> QED BY <1>1, FlowIsInvariant, PTL DEF ApprovalSpec, AnnouncedNotOrphaned
=============================================================================
