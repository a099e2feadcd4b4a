-------------------------- MODULE InboundProcessor --------------------------
(***************************************************************************)
(* How inbound channel messages of one route become turns: the pool of     *)
(* channel.Manager that takes them from the inbound queue, and             *)
(* ChannelInboundProcessor.HandleInbound, which injects, queues or starts  *)
(* a stream, and on the way out drains the route and runs, in the same     *)
(* goroutine, what was queued.  The session runtime is seen as the slot    *)
(* of its thread (SessionLedger: one active run per session).  Messages    *)
(* have distinct idempotency keys: a redelivery is a message of its own.   *)
(***************************************************************************)
EXTENDS RouteDispatcher, FiniteSets, Functions

CONSTANTS
  Workers,      \* goroutines of the pool
  InboxSize,    \* capacity of the inbound queue
  NoMessage     \* a free slot

ASSUME InboundAssumption == InboxSize \in Nat /\ NoMessage \notin Messages

VARIABLES
  inbox,     \* messages accepted from a webhook, whose response was sent
  mode,      \* what the message asks for
  stack,     \* per worker: the nested calls of HandleInbound, innermost last
  forwarders,  \* messages whose goroutine forwards injections to their run
  stoppable,   \* activeStreams: the stream /stop finds
  slot,      \* the thread's active run: its message, and if it is parked
  outcome    \* history: what became of each message

inboundVars == <<activeOwners, injectCh, queue, inbox, mode, stack, forwarders,
                 stoppable, slot, outcome>>
streamVars  == <<forwarders, stoppable, slot>>

\* inject, queue and parallel are the mode prefixes; answer responds to a
\* pending decision of a parked run.
Modes == {"inject", "queue", "parallel", "answer"}
Outcomes == {"none", "accepted", "injected", "queued", "streamed", "handed",
             "dropped", "busy", "refused"}
Pcs == {"route", "offer", "mark", "admit", "stream", "ending", "closing",
        "drain", "batch"}
Frame == [msg : Messages, pc : Pcs, tasks : Seq(Messages)]
Free == [msg |-> NoMessage, parked |-> FALSE]

Call(m) == [msg |-> m, pc |-> "route", tasks |-> <<>>]
Top(w) == stack[w][Len(stack[w])]
In(w, pc) == stack[w] # <<>> /\ Top(w).pc = pc
Msg(w) == Top(w).msg

SetTop(w, f) == stack' = [stack EXCEPT ![w][Len(stack[w])] = f]
Goto(w, pc) == SetTop(w, [Top(w) EXCEPT !.pc = pc])
Return(w) == stack' = [stack EXCEPT ![w] = SubSeq(@, 1, Len(@) - 1)]
Leave_SkipsDrain(w) == Return(w)
\* Parallel streams never marked the route, so they do not drain it either.
Leave(w) == IF mode[Msg(w)] = "parallel" THEN Return(w) ELSE Goto(w, "drain")

Becomes(m, o) == outcome' = [outcome EXCEPT ![m] = o]

\* Every call in progress, as a worker and a depth.
Calls == UNION {{w} \X (1..Len(stack[w])) : w \in Workers}
CallAt(c) == stack[c[1]][c[2]]
Streaming(m) == \E c \in Calls : CallAt(c).msg = m /\ CallAt(c).pc = "stream"
\* The stream's context lives until HandleInbound is left.
ContextOpen(m) == \E c \in Calls : /\ CallAt(c).msg = m
                                  /\ CallAt(c).pc \in {"stream", "ending", "closing"}

InboundInit ==
  /\ DispatcherInit
  /\ inbox = <<>>
  /\ mode \in [Messages -> Modes]
  /\ stack = [w \in Workers |-> <<>>]
  /\ forwarders = {} /\ stoppable = NoMessage
  /\ slot = Free
  /\ outcome = [m \in Messages |-> "none"]

\* Manager.HandleInbound accepts a webhook's message, or reports a full queue.
Accept(m) ==
  /\ outcome[m] = "none"
  /\ Len(inbox) < InboxSize
  /\ inbox' = Append(inbox, m)
  /\ Becomes(m, "accepted")
  /\ UNCHANGED <<dispatcherVars, mode, stack, streamVars>>

\* A worker of the pool takes the next message.
Take(w) ==
  /\ stack[w] = <<>> /\ inbox # <<>>
  /\ inbox' = Tail(inbox)
  /\ stack' = [stack EXCEPT ![w] = <<Call(Head(inbox))>>]
  /\ UNCHANGED <<dispatcherVars, mode, streamVars, outcome>>

\* IsActive is read here; what follows is done on what it said.  An answer and
\* a parallel message do not ask.
Route(w) ==
  /\ In(w, "route")
  /\ \/ /\ mode[Msg(w)] = "parallel"
        /\ Goto(w, "admit")
     \/ /\ mode[Msg(w)] = "answer"
        /\ Goto(w, "mark")
     \/ /\ mode[Msg(w)] \in {"inject", "queue"}
        /\ Goto(w, IF IsActive THEN "offer" ELSE "mark")
  /\ UNCHANGED <<dispatcherVars, inbox, mode, streamVars, outcome>>

\* A refused injection falls through to a stream of its own.
OfferInject(w) ==
  /\ In(w, "offer") /\ mode[Msg(w)] = "inject"
  /\ \/ /\ Inject(Msg(w))
        /\ Becomes(Msg(w), "injected")
        /\ Return(w)
     \/ /\ ~CanInject
        /\ Goto(w, "mark")
        /\ UNCHANGED <<dispatcherVars, outcome>>
  /\ UNCHANGED <<inbox, mode, streamVars>>

OfferQueue(w) ==
  /\ In(w, "offer") /\ mode[Msg(w)] = "queue"
  /\ Enqueue(Msg(w))
  /\ Becomes(Msg(w), "queued")
  /\ Return(w)
  /\ UNCHANGED <<inbox, mode, streamVars>>

Mark(w) ==
  /\ In(w, "mark")
  /\ MarkActive
  /\ Goto(w, "admit")
  /\ UNCHANGED <<inbox, mode, streamVars, outcome>>

\* The reply stream cannot be opened: the message is left before it marks the route.
OpenFails(w) ==
  /\ \/ In(w, "mark") /\ mode[Msg(w)] # "answer"
     \/ In(w, "admit") /\ mode[Msg(w)] = "parallel"
  /\ Becomes(Msg(w), "refused")
  /\ Return(w)
  /\ UNCHANGED <<dispatcherVars, inbox, mode, streamVars>>

\* The cancel function is registered for /stop, then StartTurn finds the
\* thread's slot free, refuses the turn as busy, or fails.  Returning takes the
\* registration of the route away, whosever it is.
StartTurn(w) ==
  /\ In(w, "admit") /\ mode[Msg(w)] # "answer"
  /\ \/ /\ slot = Free
        /\ slot' = [msg |-> Msg(w), parked |-> FALSE]
        /\ stoppable' = Msg(w)
        /\ forwarders' = forwarders \cup
             (IF mode[Msg(w)] = "parallel" THEN {} ELSE {Msg(w)})
        /\ Goto(w, "stream")
        /\ Becomes(Msg(w), "streamed")
     \/ /\ slot # Free
        /\ stoppable' = NoMessage
        /\ Leave(w)
        /\ Becomes(Msg(w), "busy")
        /\ UNCHANGED <<slot, forwarders>>
     \/ /\ stoppable' = NoMessage
        /\ Leave(w)
        /\ Becomes(Msg(w), "refused")
        /\ UNCHANGED <<slot, forwarders>>
  /\ UNCHANGED <<dispatcherVars, inbox, mode>>

\* The answer resumes the parked run, in a stream that neither forwards
\* injections nor registers for /stop; no decision may be waiting any more, or
\* the stream may not open.
Resume(w) ==
  /\ In(w, "admit") /\ mode[Msg(w)] = "answer"
  /\ \/ /\ slot.parked
        /\ slot' = [slot EXCEPT !.parked = FALSE]
        /\ Goto(w, "stream")
        /\ Becomes(Msg(w), "streamed")
     \/ /\ Leave(w)
        /\ Becomes(Msg(w), "refused")
        /\ UNCHANGED slot
  /\ UNCHANGED <<dispatcherVars, inbox, mode, forwarders, stoppable>>

\* A forwarder hands the oldest injection to its run.  A run that has ended
\* refuses: the message is lost and the forwarder stops.
Forward(m) ==
  /\ m \in forwarders
  /\ TakeInjected
  /\ \/ /\ Streaming(m)
        /\ Becomes(Head(injectCh), "handed")
        /\ UNCHANGED forwarders
     \/ /\ ~Streaming(m)
        /\ Becomes(Head(injectCh), "dropped")
        /\ forwarders' = forwarders \ {m}
  /\ UNCHANGED <<inbox, mode, stack, stoppable, slot>>

\* With its stream's context done a forwarder may stop; select may also still
\* pick an injection.
ForwarderStops(m) ==
  /\ m \in forwarders /\ ~ContextOpen(m)
  /\ forwarders' = forwarders \ {m}
  /\ UNCHANGED <<dispatcherVars, inbox, mode, stack, stoppable, slot, outcome>>

\* /stop cancels the stream it finds.
Stop ==
  /\ stoppable # NoMessage
  /\ stoppable' = NoMessage
  /\ stack' = [w \in Workers |->
       IF In(w, "stream") /\ Msg(w) = stoppable
       THEN [stack[w] EXCEPT ![Len(stack[w])].pc = "ending"] ELSE stack[w]]
  /\ UNCHANGED <<dispatcherVars, inbox, mode, forwarders, slot, outcome>>

\* The run's context is cancelled first, so it takes no more injections ...
TurnEnds(w) ==
  /\ In(w, "stream")
  /\ Goto(w, "ending")
  /\ UNCHANGED <<dispatcherVars, inbox, mode, streamVars, outcome>>

\* ... then its row is finished, or parked on a decision.
FinishRun(w) ==
  /\ In(w, "ending")
  /\ \/ slot' = Free
     \/ slot' = [slot EXCEPT !.parked = TRUE]
  /\ Goto(w, "closing")
  /\ UNCHANGED <<dispatcherVars, inbox, mode, forwarders, stoppable, outcome>>

\* A stream is left when a reply cannot be pushed, its run still going or ending:
\* the registration goes and the route is drained before the slot is free ...
Abandon(w) ==
  /\ In(w, "stream") \/ In(w, "ending")
  /\ Leave(w)
  /\ stoppable' = IF mode[Msg(w)] = "answer" THEN stoppable ELSE NoMessage
  /\ UNCHANGED <<dispatcherVars, inbox, mode, forwarders, slot, outcome>>

\* ... and the run, cancelled with its stream or resumed by an answer, ends or parks
\* on its own.
DetachedRunEnds ==
  /\ slot # Free /\ ~slot.parked
  /\ \A c \in Calls : CallAt(c).pc \notin {"stream", "ending"}
  /\ \/ slot' = Free
     \/ slot' = [slot EXCEPT !.parked = TRUE]
  /\ UNCHANGED <<dispatcherVars, inbox, mode, stack, forwarders, stoppable, outcome>>

\* The replies are sent and the handler returns: first the registration goes.
Close(w) ==
  /\ In(w, "closing")
  /\ Leave(w)
  /\ stoppable' = IF mode[Msg(w)] = "answer" THEN stoppable ELSE NoMessage
  /\ UNCHANGED <<dispatcherVars, inbox, mode, forwarders, slot, outcome>>

Drain(w) ==
  /\ In(w, "drain")
  /\ MarkDone
  /\ SetTop(w, [Top(w) EXCEPT !.pc = "batch", !.tasks = QueuedTasks])
  /\ outcome' = [m \in Messages |->
                   IF m \in Range(DrainedInject) THEN "dropped" ELSE outcome[m]]
  /\ UNCHANGED <<inbox, mode, streamVars>>

\* drainQueue runs the queued tasks one after the other, each a whole
\* HandleInbound with a drain of its own.
NextTask(w) ==
  /\ In(w, "batch")
  /\ LET f == Top(w) IN
       IF f.tasks = <<>> THEN Return(w)
       ELSE stack' = [stack EXCEPT ![w] =
              Append([@ EXCEPT ![Len(@)].tasks = Tail(f.tasks)], Call(Head(f.tasks)))]
  /\ UNCHANGED <<dispatcherVars, inbox, mode, streamVars, outcome>>

WorkerStep(w) ==
  \/ Take(w) \/ Route(w) \/ OfferInject(w) \/ OfferQueue(w) \/ Mark(w)
  \/ StartTurn(w) \/ Resume(w) \/ TurnEnds(w) \/ FinishRun(w) \/ Close(w)
  \/ Drain(w) \/ NextTask(w)

InboundNext ==
  \/ \E m \in Messages : Accept(m) \/ Forward(m) \/ ForwarderStops(m)
  \/ \E w \in Workers : WorkerStep(w) \/ OpenFails(w) \/ Abandon(w)
  \/ Stop \/ DetachedRunEnds

\* Goroutines of the pool run, and a turn with a stream ends.
InboundFairness == \A w \in Workers : WF_inboundVars(WorkerStep(w))

InboundSpec == InboundInit /\ [][InboundNext]_inboundVars /\ InboundFairness

-----------------------------------------------------------------------------
(* Properties                                                              *)

InboundTypeOK ==
  /\ DispatcherTypeOK
  /\ inbox \in Seq(Messages) /\ Len(inbox) <= InboxSize
  /\ mode \in [Messages -> Modes]
  /\ stack \in [Workers -> Seq(Frame)]
  /\ forwarders \subseteq Messages
  /\ stoppable \in Messages \cup {NoMessage}
  /\ slot \in [msg : Messages \cup {NoMessage}, parked : BOOLEAN]
  /\ outcome \in [Messages -> Outcomes]

(* A message is in one place: accepted, handled, injected or queued, never *)
(* handled twice or both queued and injected.                              *)
Count(s, m) == Cardinality({i \in 1..Len(s) : s[i] = m})
Places(m) ==
  Count(inbox, m) + Count(queue, m) + Count(injectCh, m)
  + Cardinality({c \in Calls : CallAt(c).msg = m /\ CallAt(c).pc # "batch"})
  + Cardinality({c \in Calls : m \in Range(CallAt(c).tasks)})
OnePlace == \A m \in Messages : Places(m) <= 1

(* The last owner takes what was queued while the route was active: no     *)
(* task is left behind by a stream that was still to drain.                *)
QueuedWhileActiveIsTaken ==
  \A m \in Messages : (m \in Range(queue) /\ IsActive) ~> m \notin Range(queue)

(* channel.go: a message refused as busy is carried by "the platform's own *)
(* retry", asked for with the response of the adapter: it must not have    *)
(* been acknowledged to the platform before.                               *)
BusyIsRedelivered == \A m \in Messages : outcome[m] # "busy"

(* dispatcher.go, ModeQueue: a queued message is processed "after the      *)
(* current agent stream completes".  What is queued has a stream that will *)
(* drain it.                                                               *)
QueueHasOwner == queue # <<>> => IsActive

(* channel.go: injected messages a stopped forwarder left "surface via     *)
(* drainQueue at turn end"; an injection the user saw acknowledged is not  *)
(* discarded.                                                              *)
InjectionKept == \A m \in Messages : outcome[m] # "dropped"

(* channel.go: activeStreams holds the cancel function of the running      *)
(* stream, "so /stop can abort the stream": a stream that started its own  *)
(* turn and was not stopped is found.                                      *)
StreamIsStoppable ==
  \A c \in Calls :
    CallAt(c).pc = "stream" /\ mode[CallAt(c).msg] # "answer"
      => stoppable = CallAt(c).msg
=============================================================================
