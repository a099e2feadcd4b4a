--------------------------- MODULE SessionRuntime ---------------------------
(***************************************************************************)
(* The distributed session runtime of one session: servers that admit,     *)
(* claim, reserve, execute, park and finish runs (sessionruntime.Manager), *)
(* the shared live backend (RedisBackend), and the leader-elected Reaper.  *)
(* The ledger variables and statements are those of SessionLedger, so that *)
(* module's Spec is the abstract specification of this one.                *)
(*                                                                         *)
(* Every call to PostgreSQL or Redis is a step of its own; everything a    *)
(* server does between two calls belongs to the first of them.             *)
(*                                                                         *)
(* Abstractions.  A run is named by the invocation that submits it (see    *)
(* LedgerAdmission for the race behind that).  The runtime generation of a *)
(* reservation is minted with it and is identified with the fencing token  *)
(* it carries.  Time is a nondeterministic LeaseExpires: the reservation   *)
(* key and the score of the lease index pass their deadline together.      *)
(***************************************************************************)
EXTENDS SessionLedger

CONSTANTS
  Session,       \* the session modelled
  Faults,        \* which faults the environment may inject
  MaxFaults      \* bound on injected faults

\* A deadline passing on a live holder: an owner's lease, the leader's lease, the
\* grace of an unclaimed row.  Then processes, the live backend, the ledger.
FaultKinds == {"expiry", "failover", "slow", "crash", "shutdown", "backend_loss",
               "store_error"}

ASSUME RuntimeAssumption ==
  /\ Sessions = {Session}
  /\ Runs \subseteq Invocations
  /\ Generations \subseteq Nat /\ 1 \in Generations
  /\ Faults \subseteq FaultKinds
  /\ MaxFaults \in Nat

VARIABLES
  fence,      \* bot_sessions.runtime_fencing_token: the persistence fence
  decision,   \* token of the run's pending decision, 0 when none is pending
  view,       \* CurrentRunView of the live snapshot
  ref,        \* token of the run's reservation key, 0 when it is gone
  index,      \* the lease index: members and whether their score has passed
  generation, \* liveness generation marker of the live backend
  leader,     \* holder of the reaper leader lease
  up,         \* "up", "closing" (Shutdown has run) or "down", by server
  exec,       \* the goroutine and run control of a run, by server
  reap,       \* the reaper pass of a server
  started,    \* history: how often a run's turn was built
  lastWrite,  \* history: token of the last fenced history write
  halted,     \* history: run ownerships whose abort was acknowledged before the
              \* execution had resolved how it ended
  faults      \* faults injected so far

liveVars    == <<view, ref, index, generation, leader>>
serverVars  == <<up, exec, reap>>
historyVars == <<started, lastWrite, halted, faults>>
runtimeVars == <<rows, nextPosition, tokenSeq, drawn, fence, decision, view,
                 ref, index, generation, leader, up, exec, reap, started,
                 lastWrite, halted, faults>>

NoView == [run |-> NoInvocation, token |-> 0, status |-> "none", leased |-> FALSE]
ActiveStatuses == {"admitting", "running", "waiting_decision", "aborting"}
EndStatuses    == {"completed", "aborted", "errored", "lost"}

ExecPcs == {"idle", "draw", "claim", "activate", "reserve", "confirm", "build",
            "promote", "run", "asking", "ask", "parked", "resuming", "resumed",
            "end", "unwind", "finish", "release", "abandon", "stuck"}
Exec == [pc    : ExecPcs,
         token : 0..MaxToken,
         gen   : Generations \cup {NoGeneration},
         own   : {"none", "held", "lost"},   \* run control: absent, held, revoked
         renew : BOOLEAN,                    \* the lease renewal loop runs
         asked : BOOLEAN,                    \* the projection has shown a decision of it
         out   : TerminalStates \cup {"none"}]
Idle == [pc |-> "idle", token |-> 0, gen |-> NoGeneration, own |-> "none",
         renew |-> FALSE, asked |-> FALSE, out |-> "none"]

ReapPcs == {"idle", "sweep", "judge", "recover", "redraw", "reclaim", "rereserve",
            "condemn", "drop"}
Reap == [pc      : ReapPcs,
         run     : Runs \cup {NoInvocation},
         token   : 0..MaxToken,              \* token the pass was given
         indexed : BOOLEAN,                  \* it came from the lease index
         prev    : 0..MaxToken,              \* token being reclaimed
         next    : 0..MaxToken,              \* token drawn for the reclaim
         gen     : Generations \cup {NoGeneration}]
Resting == [pc |-> "idle", run |-> NoInvocation, token |-> 0,
            indexed |-> FALSE, prev |-> 0, next |-> 0, gen |-> NoGeneration]

Entry(r, t, e) == [run |-> r, token |-> t, expired |-> e]
Without(r, t)  == {e \in index : ~(e.run = r /\ e.token = t)}

At(p, r, pc) == up[p] # "down" /\ exec[p][r].pc = pc
Tok(p, r)    == exec[p][r].token

\* The live projection still shows this reservation of the run.
ViewIs(r, t)   == view.run = r /\ view.token = t
\* A Redis update fenced to an unexpired reservation would go through.
LiveOwner(r, t) ==
  ref[r] = t /\ ViewIs(r, t) /\ view.status \in ActiveStatuses /\ view.leased
\* markLostIfExpired: an active projection whose reservation key is gone.
ViewExpired ==
  view.status \in ActiveStatuses /\ view.leased /\ ref[view.run] # view.token

\* The contexts of this ownership of the run were cancelled by an abort.
HaltedAt(r, t) == [run |-> r, token |-> t] \in halted

Inject(kind) == kind \in Faults /\ faults < MaxFaults /\ faults' = faults + 1

\* The ledger is unreachable for this one statement.
StoreFails == Inject("store_error") /\ UNCHANGED ledgerVars

Goto(p, r, pc) == exec' = [exec EXCEPT ![p][r].pc = pc]

Forget(p, r) == exec' = [exec EXCEPT ![p][r] = Idle]

\* The goroutine returns; a run control it did not remove goes on renewing.
LeaveControl(p, r) ==
  exec' = [exec EXCEPT ![p][r] =
             IF @.own = "held" /\ @.renew THEN [@ EXCEPT !.pc = "stuck"] ELSE Idle]

RuntimeInit ==
  /\ Init
  /\ fence = 0
  /\ decision = [r \in Runs |-> 0]
  /\ view = NoView
  /\ ref = [r \in Runs |-> 0]
  /\ index = {}
  /\ generation = 1
  /\ leader = NoOwner
  /\ up = [p \in Owners |-> "up"]
  /\ exec = [p \in Owners |-> [r \in Runs |-> Idle]]
  /\ reap = [p \in Owners |-> Resting]
  /\ started = [r \in Runs |-> 0]
  /\ lastWrite = 0
  /\ halted = {}
  /\ faults = 0

-----------------------------------------------------------------------------
(* Admission: Manager.Admit, claimAndStart, startRun, abandonClaim         *)

\* Admit commits the row, or adopts an accepted row nobody owns yet.
AdmitRun(p, r) ==
  /\ up[p] = "up" /\ exec[p][r] = Idle
  /\ \/ Admit(r, Session, r)
     \/ /\ rows[r].state = "accepted" /\ rows[r].owner = NoOwner
        /\ UNCHANGED ledgerVars
  /\ Goto(p, r, "draw")
  /\ UNCHANGED <<fence, decision, liveVars, up, reap, historyVars>>

\* NextFencingToken, then the generation the claim will be stamped with.
DrawToken(p, r) ==
  /\ At(p, r, "draw")
  /\ \/ /\ NextFencingToken(r)
        /\ exec' = [exec EXCEPT ![p][r] = [@ EXCEPT !.pc = "claim",
                                             !.token = tokenSeq + 1, !.gen = generation]]
        /\ UNCHANGED faults
     \/ StoreFails /\ Forget(p, r)
  /\ UNCHANGED <<fence, decision, liveVars, up, reap, started, lastWrite, halted>>

\* A claim that does not apply means a peer claimed first, or the run ended.
ClaimRun_IgnoresRefusal(p, r) ==
  /\ At(p, r, "claim")
  /\ \/ Claim(r, p, Tok(p, r), exec[p][r].gen)
     \/ ~ClaimApplies(r, Tok(p, r)) /\ UNCHANGED ledgerVars
  /\ Goto(p, r, "activate")
  /\ UNCHANGED <<fence, decision, liveVars, up, reap, historyVars>>

ClaimRun(p, r) ==
  /\ At(p, r, "claim")
  /\ \/ /\ Claim(r, p, Tok(p, r), exec[p][r].gen)
        /\ Goto(p, r, "activate")
     \/ /\ ~ClaimApplies(r, Tok(p, r))
        /\ Forget(p, r)
        /\ UNCHANGED ledgerVars
  /\ UNCHANGED <<fence, decision, liveVars, up, reap, historyVars>>

\* runtimefence.Activate: an older token is stale, the current one is a no-op,
\* a newer one advances the fence and supersedes every pending decision.
ActivateFence(p, r) ==
  /\ At(p, r, "activate")
  /\ \/ /\ (fence > Tok(p, r) /\ UNCHANGED faults) \/ Inject("store_error")
        /\ Goto(p, r, "abandon")
        /\ UNCHANGED <<fence, decision>>
     \/ /\ fence <= Tok(p, r)
        /\ fence' = Tok(p, r)
        /\ decision' = IF fence < Tok(p, r) THEN [q \in Runs |-> 0] ELSE decision
        /\ Goto(p, r, "reserve")
        /\ UNCHANGED faults
  /\ UNCHANGED <<ledgerVars, liveVars, up, reap, started, lastWrite, halted>>

Reserve_Unindexed(r, t, status) ==
  /\ view'  = [run |-> r, token |-> t, status |-> status, leased |-> TRUE]
  /\ ref'   = [ref EXCEPT ![r] = t]
  /\ index' = index

\* What RedisBackend.StartRun writes in one transaction.
Reserve(r, t, status) ==
  /\ view'  = [run |-> r, token |-> t, status |-> status, leased |-> TRUE]
  /\ ref'   = [ref EXCEPT ![r] = t]
  /\ index' = index \cup {Entry(r, t, FALSE)}

SlotTakenByOther(r) ==
  view.status \in ActiveStatuses /\ view.run # r /\ ~ViewExpired

ReserveRun(p, r) ==
  /\ At(p, r, "reserve")
  /\ \/ /\ up[p] = "closing" \/ ref[r] # 0 \/ SlotTakenByOther(r)
        /\ Goto(p, r, "abandon")
        /\ UNCHANGED liveVars
     \/ /\ up[p] = "up" /\ ref[r] = 0 /\ ~SlotTakenByOther(r)
        /\ Reserve(r, Tok(p, r), "admitting")
        /\ exec' = [exec EXCEPT ![p][r] = [@ EXCEPT !.pc = "confirm", !.own = "held"]]
        /\ UNCHANGED <<generation, leader>>
  /\ UNCHANGED <<ledgerVars, fence, decision, up, reap, historyVars>>

\* The first renewal confirms the lease and starts the renewal loop.
ConfirmLease(p, r) ==
  /\ At(p, r, "confirm")
  /\ \/ /\ up[p] = "up" /\ ref[r] = Tok(p, r) /\ ViewIs(r, Tok(p, r)) /\ view.leased
        /\ exec' = [exec EXCEPT ![p][r] = [@ EXCEPT !.pc = "build", !.renew = TRUE]]
     \/ /\ up[p] = "closing" \/ ref[r] # Tok(p, r) \/ ~ViewIs(r, Tok(p, r))
             \/ ~view.leased
        /\ exec' = [exec EXCEPT ![p][r] = [@ EXCEPT !.pc = "abandon", !.own = "none"]]
  /\ UNCHANGED <<ledgerVars, fence, decision, liveVars, up, reap, historyVars>>

FencedWrite_Unchecked(t) == lastWrite' = t

\* A history write goes through only under the current fence.
FencedWrite(t) == fence = t /\ lastWrite' = t

\* The admission builder persists the user turn; it may also fail on its own.
BuildTurn(p, r) ==
  /\ At(p, r, "build")
  /\ \/ /\ FencedWrite(Tok(p, r)) /\ exec[p][r].own # "lost"
        /\ started' = [started EXCEPT ![r] = @ + 1]
        /\ Goto(p, r, "promote")
     \/ /\ exec' = [exec EXCEPT ![p][r] = [@ EXCEPT !.pc = "unwind", !.out = "failed"]]
        /\ UNCHANGED <<lastWrite, started>>
  /\ UNCHANGED <<ledgerVars, fence, decision, liveVars, up, reap, halted, faults>>

\* admitting -> running, unless an abort or a lost reservation came first.
PromoteRun(p, r) ==
  /\ At(p, r, "promote")
  /\ \/ /\ up[p] = "up" /\ exec[p][r].own # "none" /\ LiveOwner(r, Tok(p, r))
        /\ \/ /\ view.status = "admitting"
              /\ view' = [view EXCEPT !.status = "running"]
              /\ Goto(p, r, "run")
           \/ /\ view.status = "aborting"
              /\ exec' = [exec EXCEPT ![p][r] =
                            [@ EXCEPT !.pc = "unwind", !.out = "aborted"]]
              /\ UNCHANGED view
     \/ /\ up[p] = "closing" \/ exec[p][r].own = "none" \/ ~LiveOwner(r, Tok(p, r))
        /\ Goto(p, r, "abandon")
        /\ UNCHANGED view
  /\ UNCHANGED <<ledgerVars, fence, decision, ref, index, generation, leader,
                 up, reap, historyVars>>

\* A statement that matched no row leaves the ledger as it was.
FinalizeOrNothing_Unguarded(r, t, st) ==
  /\ rows' = [rows EXCEPT ![r].state = st]
  /\ UNCHANGED <<nextPosition, tokenSeq, drawn>>

FinalizeOrNothing(r, t, st) ==
  \/ Finalize(r, t, st)
  \/ ~FinalizeApplies(r, t) /\ UNCHANGED ledgerVars

\* FinishRun of a turn that never started: durable write first.
UnwindAdmission(p, r) ==
  /\ At(p, r, "unwind")
  /\ \/ /\ exec[p][r].own = "lost"
        /\ exec' = [exec EXCEPT ![p][r] = [@ EXCEPT !.pc = "abandon", !.own = "none",
                                             !.renew = FALSE]]
        /\ UNCHANGED <<ledgerVars, faults>>
     \/ /\ exec[p][r].own # "lost"
        /\ FinalizeOrNothing(r, Tok(p, r), exec[p][r].out)
        /\ Goto(p, r, "release")
        /\ UNCHANGED faults
     \/ /\ exec[p][r].own # "lost"
        /\ StoreFails
        /\ Goto(p, r, "abandon")
  /\ UNCHANGED <<fence, decision, liveVars, up, reap, started, lastWrite, halted>>

\* abandonClaim: the row is ended under the claim's own token.
AbandonClaim(p, r) ==
  /\ At(p, r, "abandon")
  /\ \/ FinalizeOrNothing(r, Tok(p, r), "failed") /\ UNCHANGED faults
     \/ StoreFails
  /\ LeaveControl(p, r)
  /\ UNCHANGED <<fence, decision, liveVars, up, reap, started, lastWrite, halted>>

-----------------------------------------------------------------------------
(* Execution: HandleAgentEvent, FinishRun, the decision park and resume    *)

\* The agent appends history while it runs.
WriteHistory(p, r) ==
  /\ At(p, r, "run")
  /\ FencedWrite(Tok(p, r))
  /\ UNCHANGED <<ledgerVars, fence, decision, liveVars, serverVars,
                 started, halted, faults>>

\* FinishRun with an outcome, up to its first write; a revoked owner only forgets.
FinishAs(p, r, outcome) ==
  exec' = [exec EXCEPT ![p][r] =
             IF @.own = "lost" THEN Idle ELSE [@ EXCEPT !.pc = "finish", !.out = outcome]]

\* A first execution logs an event it could not publish and runs to its end;
\* a continued one reports it as its own error.
PublishFails(p, r) == Goto(p, r, "end") \/ FinishAs(p, r, "failed")

\* A tool approval or user input request is persisted under the fence ...
CreateDecision(p, r) ==
  /\ At(p, r, "run") /\ exec[p][r].own = "held"
  /\ fence = Tok(p, r)
  /\ decision' = [decision EXCEPT ![r] = Tok(p, r)]
  /\ Goto(p, r, "asking")
  /\ UNCHANGED <<ledgerVars, fence, liveVars, up, reap, historyVars>>

\* ... then its event parks the run, durably first ...
ParkLedger(p, r) ==
  /\ At(p, r, "asking")
  /\ \/ /\ exec[p][r].own # "none"
        /\ SetWaitingDecision(r, Tok(p, r))
        /\ Goto(p, r, "ask")
     \/ /\ exec[p][r].own = "none" \/ ~FencedLive(r, Tok(p, r))
        /\ PublishFails(p, r)
        /\ UNCHANGED ledgerVars
  /\ UNCHANGED <<fence, decision, liveVars, up, reap, historyVars>>

\* ... and in the live projection second, whatever active status that shows.
ParkView(p, r) ==
  /\ At(p, r, "ask")
  /\ \/ /\ LiveOwner(r, Tok(p, r))
        /\ view' = [view EXCEPT !.status = "waiting_decision"]
        /\ exec' = [exec EXCEPT ![p][r] = [@ EXCEPT !.pc = "end", !.asked = TRUE]]
     \/ /\ ~LiveOwner(r, Tok(p, r))
        /\ PublishFails(p, r)
        /\ UNCHANGED view
  /\ UNCHANGED <<ledgerVars, fence, decision, ref, index, generation, leader,
                 up, reap, historyVars>>

\* AgentEnd or AgentAbort ends the projection and its lease; only an AgentAbort,
\* which a cancelled execution sends, does so while it shows a decision.
EndEvent(p, r, st) ==
  /\ At(p, r, "run") \/ At(p, r, "end")
  /\ exec[p][r].own # "none" /\ LiveOwner(r, Tok(p, r))
  /\ st = "completed" => view.status = "running" /\ ~HaltedAt(r, Tok(p, r))
  /\ view.status = "waiting_decision" =>
       HaltedAt(r, Tok(p, r)) \/ exec[p][r].own = "lost"
  /\ view' = [view EXCEPT !.leased = FALSE, !.status = st]
  /\ Goto(p, r, "end")
  /\ UNCHANGED <<ledgerVars, fence, decision, ref, index, generation, leader,
                 up, reap, historyVars>>

\* resolveTerminalStatus for a finish that names no outcome.
Resolve_IgnoresAborting(r, t) ==
  IF ViewIs(r, t) /\ view.status \in {"errored", "lost"} THEN "failed"
  ELSE "completed"

Resolve(r, t) ==
  IF ~ViewIs(r, t) THEN "completed"
  ELSE IF view.status \in {"aborting", "aborted"} THEN "aborted"
  ELSE IF view.status \in {"errored", "lost"} THEN "failed"
  ELSE "completed"

\* A stream that ended on a deferred decision leaves its run parked.
FinishUnnamed(p, r) ==
  /\ At(p, r, "run") \/ At(p, r, "end")
  /\ IF ViewIs(r, Tok(p, r)) /\ view.status = "waiting_decision"
     THEN exec' = [exec EXCEPT ![p][r] = IF @.own = "none" THEN Idle
                                         ELSE [@ EXCEPT !.pc = "parked"]]
     ELSE FinishAs(p, r, Resolve(r, Tok(p, r)))
  /\ UNCHANGED <<ledgerVars, fence, decision, liveVars, up, reap, historyVars>>

FinishErrored(p, r) ==
  /\ At(p, r, "run")
  /\ FinishAs(p, r, "failed")
  /\ UNCHANGED <<ledgerVars, fence, decision, liveVars, up, reap, historyVars>>

\* The durable write comes first; failing it leaves the lease alone.
FinalizeRow(p, r) ==
  /\ At(p, r, "finish")
  /\ \/ /\ FinalizeOrNothing(r, Tok(p, r), exec[p][r].out)
        /\ Goto(p, r, "release")
        /\ UNCHANGED faults
     \/ StoreFails /\ LeaveControl(p, r)
  /\ UNCHANGED <<fence, decision, liveVars, up, reap, started, lastWrite, halted>>

\* ReleaseRun, or the lookup that follows its refusal: a projection that already
\* ended still has its reservation deleted, any other reservation is left alone.
ReleaseSlot(p, r) ==
  /\ At(p, r, "release")
  /\ \/ /\ LiveOwner(r, Tok(p, r))
        /\ view' = [view EXCEPT !.leased = FALSE, !.status =
                      IF exec[p][r].out = "failed" THEN "errored" ELSE exec[p][r].out]
        /\ ref' = [ref EXCEPT ![r] = 0]
        /\ index' = Without(r, Tok(p, r))
     \/ /\ ViewIs(r, Tok(p, r)) /\ view.status \in EndStatuses
        /\ ref[r] = Tok(p, r)
        /\ ref' = [ref EXCEPT ![r] = 0]
        /\ index' = Without(r, Tok(p, r))
        /\ UNCHANGED view
     \/ /\ ~LiveOwner(r, Tok(p, r))
        /\ ViewIs(r, Tok(p, r)) => view.status \notin EndStatuses \/ ref[r] # Tok(p, r)
        /\ UNCHANGED <<view, ref, index>>
  /\ Forget(p, r)
  /\ UNCHANGED <<ledgerVars, fence, decision, generation, leader, up, reap,
                 historyVars>>

\* A routed answer reaches the owner and is committed before it continues.
AnswerDecision(p, r) ==
  /\ At(p, r, "parked") /\ exec[p][r].own = "held" /\ ~HaltedAt(r, Tok(p, r))
  /\ LiveOwner(r, Tok(p, r))
  /\ rows[r].state = "waiting_decision"
  /\ fence = Tok(p, r) /\ decision[r] = Tok(p, r)
  /\ decision' = [decision EXCEPT ![r] = 0]
  /\ Goto(p, r, "resuming")
  /\ UNCHANGED <<ledgerVars, fence, liveVars, up, reap, historyVars>>

\* The continuation's AgentStart resumes the row only under a parked projection ...
ResumeLedger(p, r) ==
  /\ At(p, r, "resuming")
  /\ LET parked == ViewIs(r, Tok(p, r)) /\ view.status = "waiting_decision" IN
     \/ /\ exec[p][r].own # "none" /\ parked
        /\ Resume(r, Tok(p, r))
        /\ Goto(p, r, "resumed")
     \/ /\ exec[p][r].own # "none" /\ ~parked
        /\ Goto(p, r, "resumed")
        /\ UNCHANGED ledgerVars
     \/ /\ exec[p][r].own = "none" \/ (parked /\ ~FencedLive(r, Tok(p, r)))
        /\ FinishAs(p, r, "failed")
        /\ UNCHANGED ledgerVars
  /\ UNCHANGED <<fence, decision, liveVars, up, reap, historyVars>>

\* ... and then the projection itself.
ResumeView(p, r) ==
  /\ At(p, r, "resumed")
  /\ \/ /\ exec[p][r].own # "none" /\ LiveOwner(r, Tok(p, r))
        /\ view' = [view EXCEPT !.status = IF @ = "waiting_decision" THEN "running" ELSE @]
        /\ Goto(p, r, "run")
     \/ /\ exec[p][r].own = "none" \/ ~LiveOwner(r, Tok(p, r))
        /\ FinishAs(p, r, "failed")
        /\ UNCHANGED view
  /\ UNCHANGED <<ledgerVars, fence, decision, ref, index, generation, leader,
                 up, reap, historyVars>>

-----------------------------------------------------------------------------
(* Abort: AbortControl, abortLocal, abortClaimedAdmission                  *)

\* The intent is recorded durably wherever the request arrives.
AbortIntent(r) ==
  /\ RequestAbort(r)
  /\ UNCHANGED <<fence, decision, liveVars, serverVars, historyVars>>

\* The owner acknowledges through the projection, which it may do until its control
\* is removed, also once the execution has resolved how it ended.  It cancels the
\* execution and ends an admission under way, unless that ends itself first.  A run
\* is finished for it when an earlier read of the projection showed a decision; one
\* that parks after that read stays parked.
AbortRun(p, r) ==
  /\ up[p] = "up" /\ exec[p][r].own # "none"
  /\ LiveOwner(r, Tok(p, r))
  /\ view' = [view EXCEPT !.status = "aborting"]
  /\ halted' = IF exec[p][r].pc \in {"finish", "release"} THEN halted
               ELSE halted \cup {[run |-> r, token |-> Tok(p, r)]}
  /\ \/ /\ view.status = "admitting" /\ exec[p][r].pc # "release"
        /\ exec' = [exec EXCEPT ![p][r] = [@ EXCEPT !.pc = "unwind", !.out = "aborted"]]
     \/ /\ view.status = "admitting" => exec[p][r].pc \in {"unwind", "abandon", "release"}
        /\ UNCHANGED exec
     \/ /\ exec[p][r].asked /\ exec[p][r].pc # "release"
        /\ FinishAs(p, r, "aborted")
  /\ UNCHANGED <<ledgerVars, fence, decision, ref, index, generation, leader,
                 up, reap, started, lastWrite, faults>>

-----------------------------------------------------------------------------
(* Leases: startLeaseRenewal, watchLeaseDeadline, liveSnapshot             *)

CanRenew(r, t) == ref[r] = t /\ ViewIs(r, t) /\ view.leased

\* A refused renewal, or the owner's own deadline, revokes the ownership.
LoseOwnership(p, r) ==
  /\ up[p] = "up" /\ exec[p][r].own = "held" /\ exec[p][r].renew
  /\ \/ ~CanRenew(r, Tok(p, r)) /\ UNCHANGED faults
     \/ CanRenew(r, Tok(p, r)) /\ Inject("expiry")
  /\ exec' = [exec EXCEPT ![p][r] =
                IF @.pc = "stuck" THEN Idle ELSE [@ EXCEPT !.own = "lost", !.renew = FALSE]]
  /\ UNCHANGED <<ledgerVars, fence, decision, liveVars, up, reap, started,
                 lastWrite, halted>>

\* Its owner renews it, or reserved it less than one lease ago.
Renewed(r) ==
  \E p \in Owners : up[p] = "up" /\ Tok(p, r) = ref[r] /\ exec[p][r].own = "held"

\* The reservation key and its index score pass their deadline.
LeaseExpires(r) ==
  /\ ref[r] # 0
  /\ \/ ~Renewed(r) /\ UNCHANGED faults
     \/ Renewed(r) /\ Inject("expiry")
  /\ ref' = [ref EXCEPT ![r] = 0]
  /\ index' = {IF e = Entry(r, ref[r], FALSE) THEN Entry(r, ref[r], TRUE) ELSE e :
                 e \in index}
  /\ UNCHANGED <<ledgerVars, fence, decision, view, generation, leader,
                 serverVars, started, lastWrite, halted>>

\* Any reader of the session's snapshot marks an expired projection lost.
ObserveExpiredLease(p) ==
  /\ up[p] = "up" /\ ViewExpired
  /\ view' = [view EXCEPT !.status = "lost", !.leased = FALSE]
  /\ exec' = [exec EXCEPT ![p][view.run] =
                IF @.own = "held" /\ @.token = view.token
                THEN [@ EXCEPT !.own = "lost", !.renew = FALSE] ELSE @]
  /\ UNCHANGED <<ledgerVars, fence, decision, ref, index, generation, leader,
                 up, reap, historyVars>>

-----------------------------------------------------------------------------
(* Shutdown: Manager.shutdown                                              *)

\* Live reservations are released as lost, controls and leadership dropped.
Shutdown(p) ==
  /\ up[p] = "up" /\ Inject("shutdown")
  /\ LET owned == {r \in Runs : exec[p][r].own # "none" /\ LiveOwner(r, Tok(p, r))} IN
       /\ view' = IF owned = {} THEN view
                  ELSE [view EXCEPT !.status = "lost", !.leased = FALSE]
       /\ ref' = [r \in Runs |-> IF r \in owned THEN 0 ELSE ref[r]]
       /\ index' = {e \in index : ~(e.run \in owned /\ e.token = Tok(p, e.run))}
  /\ exec' = [exec EXCEPT ![p] = [r \in Runs |->
                IF exec[p][r].pc \in {"parked", "stuck"} THEN Idle
                ELSE [exec[p][r] EXCEPT !.own = "none", !.renew = FALSE]]]
  /\ leader' = IF leader = p THEN NoOwner ELSE leader
  /\ up' = [up EXCEPT ![p] = "closing"]
  /\ reap' = [reap EXCEPT ![p] = Resting]
  /\ UNCHANGED <<ledgerVars, fence, decision, generation, started, lastWrite, halted>>

\* The process is gone, with everything it held in memory.
Stop(p) ==
  /\ up' = [up EXCEPT ![p] = "down"]
  /\ exec' = [exec EXCEPT ![p] = [r \in Runs |-> Idle]]
  /\ reap' = [reap EXCEPT ![p] = Resting]
  /\ UNCHANGED <<ledgerVars, fence, decision, liveVars, started, lastWrite, halted>>

Exit(p)  == up[p] = "closing" /\ Stop(p) /\ UNCHANGED faults
Crash(p) == up[p] = "up" /\ Inject("crash") /\ Stop(p)

\* A replaced Redis comes back empty, under a new generation marker.
BackendLoss ==
  /\ Inject("backend_loss")
  /\ generation + 1 \in Generations
  /\ generation' = generation + 1
  /\ view' = NoView
  /\ ref' = [r \in Runs |-> 0]
  /\ index' = {}
  /\ leader' = NoOwner
  /\ UNCHANGED <<ledgerVars, fence, decision, serverVars, started, lastWrite, halted>>
=============================================================================
