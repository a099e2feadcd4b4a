--------------------------- MODULE AbortHandshake ---------------------------
(***************************************************************************)
(* Aborts that reach the owner of a run while startRun is still admitting  *)
(* it: abortLocal and the four flags of runControl under abortStateMu,     *)
(* against the reservation, the lease confirmation, the admission builder  *)
(* and the promotion to running.  Either side may have to end the run, and *)
(* exactly one of them may.                                                *)
(*                                                                         *)
(* A section under abortStateMu is a step, and so is every call to Redis   *)
(* or PostgreSQL.  The starter and each abort request is a process.        *)
(*                                                                         *)
(* Abstractions.  One run, one server, one ownership of it: that a lease   *)
(* can be taken away from an owner is the subject of SessionRuntime.       *)
(* Parking on a decision is left out (RuntimeCluster), and a live release  *)
(* is retried by retryFinishRun until it succeeds, so it does not fail.    *)
(***************************************************************************)
EXTENDS Integers

CONSTANTS
  Aborters,    \* abort requests that reach this server
  Starter,     \* the goroutine of startRun and of the execution after it
  MaxErrors    \* bound on failing Redis calls

ASSUME HandshakeAssumption == Starter \notin Aborters /\ MaxErrors \in Nat

VARIABLES
  pc,        \* next call or lock section of a process
  flags,     \* runControl: the four flags under abortStateMu
  control,   \* the run control is registered in Manager.controls
  canceled,  \* the contexts of the admission and of the execution are cancelled
  renewing,  \* the lease renewal loop runs
  live,      \* status of the run in the projection, "none" before it is reserved
  row,       \* durable state of the claimed row
  ending,    \* the status with which a process calls FinishRun
  takers,    \* history: the processes that were made the finalizer of an abort
  errors     \* Redis calls that failed so far

handshakeVars == <<pc, flags, control, canceled, renewing, live, row, ending, takers, errors>>

Procs == {Starter} \cup Aborters
ActiveLive   == {"admitting", "running", "aborting"}
TerminalRows == {"aborted", "failed", "completed", "lost"}

StarterPcs == {"register", "reserve", "unreserved", "reconcile", "refence", "establish", "confirm",
               "build", "promote", "complete", "running", "resolve", "forget", "abandon", "done"}
AborterPcs == {"idle", "early", "visible", "take", "halt",
               "acked", "halted", "refused", "error"}
SharedPcs  == {"fence", "ledger", "release"}   \* abortClaimedAdmission, FinishRun

\* The starter marks the projection from startRun or from reconcileCanceledRunClaim.
FencePcs == {"fence", "refence"}

LiveActive == live \in ActiveLive

HandshakeInit ==
  /\ pc = [x \in Procs |-> IF x = Starter THEN "register" ELSE "idle"]
  /\ flags = [requested |-> FALSE, established |-> FALSE, complete |-> FALSE,
              finalizing |-> FALSE]
  /\ control = FALSE /\ canceled = FALSE /\ renewing = FALSE
  /\ live = "none" /\ row = "running"
  /\ ending = [x \in Procs |-> "aborted"]
  /\ takers = {} /\ errors = 0

Goto(x, to) == pc' = [pc EXCEPT ![x] = to]
End(x, status, to) ==
  pc' = [pc EXCEPT ![x] = to] /\ ending' = [ending EXCEPT ![x] = status]

RedisFails == errors < MaxErrors /\ errors' = errors + 1
RedisWorks == UNCHANGED errors

\* Taking abortFinalizing under the lock; the loser leaves the run to the winner.
Take(x, won, lost) ==
  IF flags.finalizing
  THEN Goto(x, lost) /\ UNCHANGED takers
  ELSE Goto(x, won) /\ takers' = takers \cup {x}
-----------------------------------------------------------------------------
(* startRun                                                                *)

Register ==
  /\ pc[Starter] = "register"
  /\ control' = TRUE
  /\ Goto(Starter, "reserve")
  /\ UNCHANGED <<flags, canceled, renewing, live, row, ending, takers, errors>>

\* DistributedBackend.StartRun answers.
Reserve ==
  /\ pc[Starter] = "reserve"
  /\ live' = "admitting"
  /\ Goto(Starter, "establish")
  /\ UNCHANGED <<flags, control, canceled, renewing, row, ending, takers, errors>>

\* StartRun fails, for a cancelled context or a Redis error, and may have been
\* applied all the same.
ReserveFails ==
  /\ pc[Starter] = "reserve"
  /\ \/ canceled /\ RedisWorks
     \/ RedisFails
  /\ live' \in {"none", "admitting"}
  /\ Goto(Starter, "unreserved")
  /\ UNCHANGED <<flags, control, canceled, renewing, row, ending, takers>>

\* abortWasRequested: only an aborted reservation is looked up again ...
LookForAbort ==
  /\ pc[Starter] = "unreserved"
  /\ Goto(Starter, IF flags.requested THEN "reconcile" ELSE "forget")
  /\ UNCHANGED <<flags, control, canceled, renewing, live, row, ending, takers, errors>>

\* ... and removeLocalControl comes after, where an abort may have entered meanwhile.
RemoveControl ==
  /\ pc[Starter] = "forget"
  /\ control' = FALSE
  /\ Goto(Starter, "abandon")
  /\ UNCHANGED <<flags, canceled, renewing, live, row, ending, takers, errors>>

\* reconcileCanceledRunClaim: the projection decides what became of the claim.
Reconcile ==
  /\ pc[Starter] = "reconcile"
  /\ IF LiveActive
     THEN /\ flags' = [flags EXCEPT !.established = TRUE, !.finalizing = TRUE]
          /\ Take(Starter, "refence", "abandon")
     ELSE Goto(Starter, "forget") /\ UNCHANGED <<flags, takers>>
  /\ UNCHANGED <<control, canceled, renewing, live, row, ending, errors>>

\* The same when the projection cannot be read.
ReconcileFails ==
  /\ pc[Starter] = "reconcile"
  /\ RedisFails
  /\ Goto(Starter, "forget")
  /\ UNCHANGED <<flags, control, canceled, renewing, live, row, ending, takers>>

\* Two finalizers: a claim takes the abort although someone has it already.
EstablishClaimForAbort_TakesTwice ==
  /\ pc[Starter] = "establish"
  /\ flags' = [flags EXCEPT !.established = TRUE]
  /\ IF flags.requested
     THEN Goto(Starter, "fence") /\ takers' = takers \cup {Starter}
     ELSE Goto(Starter, "confirm") /\ UNCHANGED takers
  /\ UNCHANGED <<control, canceled, renewing, live, row, ending, errors>>

EstablishClaimForAbort ==
  /\ pc[Starter] = "establish"
  /\ flags' = [flags EXCEPT !.established = TRUE,
                            !.finalizing = @ \/ flags.requested]
  /\ IF flags.requested
     THEN Take(Starter, "fence", "abandon")
     ELSE Goto(Starter, "confirm") /\ UNCHANGED takers
  /\ UNCHANGED <<control, canceled, renewing, live, row, ending, errors>>

\* RenewLease confirms the reservation and starts the renewal loop.
Confirm ==
  /\ pc[Starter] = "confirm"
  /\ IF LiveActive
     THEN renewing' = TRUE /\ Goto(Starter, "build")
     ELSE Goto(Starter, "forget") /\ UNCHANGED renewing
  /\ UNCHANGED <<flags, control, canceled, live, row, ending, takers, errors>>

ConfirmFails ==
  /\ pc[Starter] = "confirm"
  /\ RedisFails
  /\ End(Starter, "failed", "ledger")
  /\ UNCHANGED <<flags, control, canceled, renewing, live, row, takers>>

\* The admission builder writes the user turn.
Build ==
  /\ pc[Starter] = "build"
  /\ Goto(Starter, IF control THEN "promote" ELSE "abandon")
  /\ UNCHANGED <<flags, control, canceled, renewing, live, row, ending, takers, errors>>

BuildFails ==
  /\ pc[Starter] = "build"
  /\ \E how \in {"failed"} \cup (IF canceled THEN {"aborted"} ELSE {}) :
       End(Starter, how, "ledger")
  /\ UNCHANGED <<flags, control, canceled, renewing, live, row, takers, errors>>

\* The update from admitting to running, which sees an abort in the projection.
Promote ==
  /\ pc[Starter] = "promote"
  /\ \/ /\ control /\ live = "admitting"
        /\ live' = "running"
        /\ Goto(Starter, "complete") /\ UNCHANGED ending
     \/ /\ control /\ live = "aborting"
        /\ End(Starter, "aborted", "ledger") /\ UNCHANGED live
     \/ /\ ~(control /\ LiveActive)
        /\ Goto(Starter, "abandon") /\ UNCHANGED <<live, ending>>
  /\ UNCHANGED <<flags, control, canceled, renewing, row, takers, errors>>

\* A promotion whose call fails, applied or not, ends the run as errored.
PromoteFails ==
  /\ pc[Starter] = "promote"
  /\ RedisFails
  /\ live' \in {live} \cup (IF control /\ live = "admitting" THEN {"running"} ELSE {})
  /\ End(Starter, "failed", "ledger")
  /\ UNCHANGED <<flags, control, canceled, renewing, row, takers>>

\* A run that was promoted starts: nobody looks at the flags again.
CompleteAdmissionForAbort_Unchecked ==
  /\ pc[Starter] = "complete"
  /\ flags' = [flags EXCEPT !.complete = TRUE]
  /\ Goto(Starter, "running")
  /\ UNCHANGED <<control, canceled, renewing, live, row, ending, takers, errors>>

CompleteAdmissionForAbort ==
  /\ pc[Starter] = "complete"
  /\ IF flags.requested \/ flags.finalizing
     THEN Goto(Starter, "abandon") /\ UNCHANGED flags
     ELSE Goto(Starter, "running") /\ flags' = [flags EXCEPT !.complete = TRUE]
  /\ UNCHANGED <<control, canceled, renewing, live, row, ending, takers, errors>>

\* abandonClaim: a run that was claimed and could not be started is ended durably.
Abandon ==
  /\ pc[Starter] = "abandon"
  /\ row' = IF row = "running" THEN "failed" ELSE row
  /\ Goto(Starter, "done")
  /\ UNCHANGED <<flags, control, canceled, renewing, live, ending, takers, errors>>

\* The execution returns, by itself or because it was cancelled ...
ExecutionEnds ==
  /\ pc[Starter] = "running"
  /\ Goto(Starter, "resolve")
  /\ UNCHANGED <<flags, control, canceled, renewing, live, row, ending, takers, errors>>

\* ... and resolveTerminalStatus reads the outcome off the projection.
Resolve ==
  /\ pc[Starter] = "resolve"
  /\ End(Starter, IF live = "aborting" THEN "aborted" ELSE "completed", "ledger")
  /\ UNCHANGED <<flags, control, canceled, renewing, live, row, takers, errors>>
-----------------------------------------------------------------------------
(* abortLocal                                                              *)

\* requestAbortPhase.  A second abort of an admission leaves it to the first.
EnterAbort(a) ==
  /\ pc[a] = "idle"
  /\ IF control
     THEN /\ flags' = [flags EXCEPT !.requested = TRUE,
                          !.finalizing = @ \/ (flags.established /\ ~flags.complete)]
          /\ IF flags.complete THEN Goto(a, "halt") /\ UNCHANGED takers
             ELSE IF ~flags.established THEN Goto(a, "early") /\ UNCHANGED takers
             ELSE Take(a, "fence", "acked")
     ELSE Goto(a, "refused") /\ UNCHANGED <<flags, takers>>
  /\ UNCHANGED <<control, canceled, renewing, live, row, ending, errors>>

\* Before the claim is known here, the projection may already show it.
RequestEarly(a) ==
  /\ pc[a] = "early"
  /\ IF LiveActive
     THEN live' = "aborting" /\ Goto(a, "visible")
     ELSE Goto(a, "take") /\ UNCHANGED live
  /\ UNCHANGED <<flags, control, canceled, renewing, row, ending, takers, errors>>

RequestEarlyFails(a) ==
  /\ pc[a] = "early"
  /\ RedisFails
  /\ Goto(a, "error")
  /\ UNCHANGED <<flags, control, canceled, renewing, live, row, ending, takers>>

ClaimVisibleAndTakeAbort(a) ==
  /\ pc[a] = "visible"
  /\ flags' = [flags EXCEPT !.established = TRUE, !.finalizing = TRUE]
  /\ Take(a, "fence", "acked")
  /\ UNCHANGED <<control, canceled, renewing, live, row, ending, errors>>

\* takeAbortIfClaimed; without a claim the admission is cancelled, and whoever
\* reserves the run next finds the request.
TakeAbortIfClaimed(a) ==
  /\ pc[a] = "take"
  /\ IF flags.established
     THEN /\ flags' = [flags EXCEPT !.finalizing = TRUE]
          /\ Take(a, "fence", "acked")
          /\ UNCHANGED canceled
     ELSE canceled' = TRUE /\ Goto(a, "acked") /\ UNCHANGED <<flags, takers>>
  /\ UNCHANGED <<control, renewing, live, row, ending, errors>>

\* An admitted run is told to stop and ends itself.
Halt(a) ==
  /\ pc[a] = "halt"
  /\ IF LiveActive
     THEN live' = "aborting" /\ canceled' = TRUE /\ Goto(a, "halted")
     ELSE Goto(a, "refused") /\ UNCHANGED <<live, canceled>>
  /\ UNCHANGED <<flags, control, renewing, row, ending, takers, errors>>

HaltFails(a) ==
  /\ pc[a] = "halt"
  /\ RedisFails
  /\ Goto(a, "error")
  /\ UNCHANGED <<flags, control, canceled, renewing, live, row, ending, takers>>
-----------------------------------------------------------------------------
(* abortClaimedAdmission and FinishRun                                     *)

AfterFinish(x, ok) ==
  IF x = Starter
  THEN IF flags.complete THEN "done" ELSE "abandon"
  ELSE IF ok THEN "acked" ELSE "error"

\* abortClaimedAdmission fails; a reconciliation then forgets the run as well.
NotMarked(x) ==
  /\ Goto(x, AfterFinish(x, FALSE))
  /\ control' = (control /\ pc[x] # "refence")
  /\ UNCHANGED <<live, canceled, ending>>

\* The finalizer marks the projection, then cancels the admission.
RequestFinal(x) ==
  /\ pc[x] \in FencePcs
  /\ IF control /\ LiveActive
     THEN /\ live' = "aborting" /\ canceled' = TRUE /\ End(x, "aborted", "ledger")
          /\ UNCHANGED control
     ELSE NotMarked(x)
  /\ UNCHANGED <<flags, renewing, row, takers, errors>>

RequestFinalFails(x) ==
  /\ pc[x] \in FencePcs
  /\ RedisFails
  /\ NotMarked(x)
  /\ UNCHANGED <<flags, renewing, row, takers>>

\* FinishRun returns when the row has ended already, and leaves the live half.
FinalizeRow_StopsWhenTerminal(x) ==
  /\ pc[x] = "ledger"
  /\ row' = IF row = "running" THEN ending[x] ELSE row
  /\ Goto(x, IF row = "running" THEN "release" ELSE AfterFinish(x, TRUE))
  /\ UNCHANGED <<flags, control, canceled, renewing, live, ending, takers, errors>>

\* finalizeLedgerRun: the first terminal write stands.
FinalizeRow(x) ==
  /\ pc[x] = "ledger"
  /\ row' = IF row = "running" THEN ending[x] ELSE row
  /\ Goto(x, "release")
  /\ UNCHANGED <<flags, control, canceled, renewing, live, ending, takers, errors>>

\* finishRunState and cleanupFinishedRun; a run released before is cleaned up again.
Release(x) ==
  /\ pc[x] = "release"
  /\ live' = "ended"
  /\ control' = FALSE
  /\ renewing' = FALSE
  /\ Goto(x, AfterFinish(x, TRUE))
  /\ UNCHANGED <<flags, canceled, row, ending, takers, errors>>

\* Nobody renews: the reservation runs out and the reaper ends the row.
LeaseExpires ==
  /\ LiveActive /\ ~renewing
  /\ pc[Starter] \in {"done", "abandon"}
  /\ live' = "ended"
  /\ row' = IF row = "running" THEN "lost" ELSE row
  /\ UNCHANGED <<pc, flags, control, canceled, renewing, ending, takers, errors>>
-----------------------------------------------------------------------------
FinishStep(x) == RequestFinal(x) \/ RequestFinalFails(x) \/ FinalizeRow(x) \/ Release(x)

StartStep ==
  \/ Register \/ Reserve \/ ReserveFails \/ LookForAbort \/ RemoveControl
  \/ Reconcile \/ ReconcileFails \/ EstablishClaimForAbort \/ Confirm \/ ConfirmFails
  \/ Build \/ BuildFails \/ Promote \/ PromoteFails \/ CompleteAdmissionForAbort
  \/ Abandon \/ ExecutionEnds \/ Resolve
  \/ FinishStep(Starter)

AbortStep(a) ==
  \/ RequestEarly(a) \/ RequestEarlyFails(a) \/ ClaimVisibleAndTakeAbort(a)
  \/ TakeAbortIfClaimed(a) \/ Halt(a) \/ HaltFails(a) \/ FinishStep(a)

HandshakeNext ==
  \/ StartStep
  \/ \E a \in Aborters : EnterAbort(a) \/ AbortStep(a)
  \/ LeaseExpires

\* Goroutines go on, an execution returns, an unrenewed lease runs out.
HandshakeSpec ==
  /\ HandshakeInit /\ [][HandshakeNext]_handshakeVars
  /\ WF_handshakeVars(StartStep)
  /\ \A a \in Aborters : WF_handshakeVars(AbortStep(a))
  /\ WF_handshakeVars(LeaseExpires)
-----------------------------------------------------------------------------
(* Properties                                                              *)

\* Domains of the variables of an admission and the aborts that meet it.
HandshakeTypeOK ==
  /\ pc \in [Procs -> StarterPcs \cup AborterPcs \cup SharedPcs]
  /\ flags \in [requested : BOOLEAN, established : BOOLEAN, complete : BOOLEAN,
                finalizing : BOOLEAN]
  /\ control \in BOOLEAN /\ canceled \in BOOLEAN /\ renewing \in BOOLEAN
  /\ live \in ActiveLive \cup {"none", "ended"}
  /\ row \in TerminalRows \cup {"running"}
  /\ ending \in [Procs -> TerminalRows]
  /\ takers \subseteq Procs
  /\ errors \in 0..MaxErrors

\* The flags of runControl exist so that an abort and the admission it meets agree
\* on who ends the run: at most one of them is ever made the finalizer.
OneFinalizer == \A x, y \in takers : x = y

\* abortLocal: an abort acknowledged while the run was being admitted means that
\* the run is never handed to its execution.
StoppedPcs == {"early", "visible", "take", "acked"}
AckedNeverStarts ==
  (\E a \in Aborters : pc[a] \in StoppedPcs \/ a \in takers) => ~flags.complete

\* admit.go: "live state reserved without an executor is a run holding a session's
\* only slot with nothing driving it to a terminal state".  A run that ended durably
\* does not keep the slot ...
SlotReleased == row \in TerminalRows ~> ~LiveActive

\* ... as long as no call to Redis failed.
SlotReleasedUnlessRefused == row \in TerminalRows ~> (~LiveActive \/ errors > 0)

\* AbortControl: "a run that is aborted survives as aborted-on-purpose rather than
\* as an unexplained cancellation".  A row that ends after an abort of its admission
\* was acknowledged ends as aborted.
AckedEndsAborted ==
  [][(\E a \in Aborters : pc[a] = "acked") /\ row' # row => row' = "aborted"]_handshakeVars
=============================================================================
