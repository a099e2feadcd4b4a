-------------------------- MODULE RouteDispatcher --------------------------
(***************************************************************************)
(* The dispatcher of one route (channel/inbound/dispatcher.go): how many   *)
(* streams own the route, what was injected for them, and what waits until *)
(* the last of them is done.  Each method is one step, under routeState.mu.*)
(* Spec leaves open who calls which method when; InboundProcessor is the   *)
(* caller.  Cleanup and AddPendingPersist have no caller outside tests.    *)
(***************************************************************************)
EXTENDS Integers, Sequences

CONSTANTS
  Messages,      \* inbound messages of the route
  InjectBuffer   \* capacity of injectCh

ASSUME DispatcherAssumption == InjectBuffer \in Nat

VARIABLES
  activeOwners,  \* streams that marked the route active
  injectCh,      \* messages acknowledged as injected, not yet taken
  queue          \* tasks waiting for the route to become idle

dispatcherVars == <<activeOwners, injectCh, queue>>

DispatcherInit == activeOwners = 0 /\ injectCh = <<>> /\ queue = <<>>

IsActive == activeOwners > 0

MarkActive ==
  /\ activeOwners' = activeOwners + 1
  /\ UNCHANGED <<injectCh, queue>>

\* Accepted only while a stream owns the route and there is room.
CanInject == IsActive /\ Len(injectCh) < InjectBuffer
Inject(m) ==
  /\ CanInject
  /\ injectCh' = Append(injectCh, m)
  /\ UNCHANGED <<activeOwners, queue>>

\* Whether the route is still active is not looked at again.
Enqueue(m) ==
  /\ queue' = Append(queue, m)
  /\ UNCHANGED <<activeOwners, injectCh>>

\* A stream's forwarder takes the oldest injected message.
TakeInjected ==
  /\ injectCh # <<>>
  /\ injectCh' = Tail(injectCh)
  /\ UNCHANGED <<activeOwners, queue>>

\* Only the last owner drains: what it did not forward is discarded, what was
\* queued is its to run.
LeavesIdle    == activeOwners <= 1
QueuedTasks   == IF LeavesIdle THEN queue ELSE <<>>
DrainedInject == IF LeavesIdle THEN injectCh ELSE <<>>

MarkDone_KeepsInjected ==
  /\ activeOwners' = IF activeOwners > 0 THEN activeOwners - 1 ELSE 0
  /\ IF LeavesIdle THEN queue' = <<>> /\ UNCHANGED injectCh
     ELSE UNCHANGED <<injectCh, queue>>

MarkDone_KeepsQueue ==
  /\ activeOwners' = IF activeOwners > 0 THEN activeOwners - 1 ELSE 0
  /\ IF LeavesIdle THEN injectCh' = <<>> /\ UNCHANGED queue
     ELSE UNCHANGED <<injectCh, queue>>

MarkDone ==
  /\ activeOwners' = IF activeOwners > 0 THEN activeOwners - 1 ELSE 0
  /\ IF LeavesIdle THEN injectCh' = <<>> /\ queue' = <<>>
     ELSE UNCHANGED <<injectCh, queue>>

DispatcherNext ==
  \/ MarkActive \/ MarkDone \/ TakeInjected
  \/ \E m \in Messages : Inject(m) \/ Enqueue(m)

DispatcherSpec == DispatcherInit /\ [][DispatcherNext]_dispatcherVars

DispatcherTypeOK ==
  /\ activeOwners \in Nat
  /\ injectCh \in Seq(Messages)
  /\ queue \in Seq(Messages)

(* dispatcher.go drains the channel with the last owner: an injection      *)
(* meant for one conversation turn never reaches the next, unrelated one.  *)
IdleHasNoInjection == injectCh # <<>> => IsActive

(* The bound of the channel is kept, whoever sends and however often.      *)
InjectionsBounded == Len(injectCh) <= InjectBuffer
=============================================================================
