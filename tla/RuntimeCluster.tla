--------------------------- MODULE RuntimeCluster ---------------------------
(***************************************************************************)
(* The session runtime as deployed: owners, leases, faults and reapers     *)
(* together, with what the whole promises.                                 *)
(***************************************************************************)
EXTENDS SessionReaper

AdmissionStep(p, r) ==
  \/ AdmitRun(p, r) \/ DrawToken(p, r) \/ ClaimRun(p, r) \/ ActivateFence(p, r)
  \/ ReserveRun(p, r) \/ ConfirmLease(p, r) \/ BuildTurn(p, r)
  \/ PromoteRun(p, r) \/ UnwindAdmission(p, r) \/ AbandonClaim(p, r)

ExecutionStep(p, r) ==
  \/ WriteHistory(p, r) \/ CreateDecision(p, r)
  \/ ParkLedger(p, r) \/ ParkView(p, r)
  \/ \E st \in {"completed", "aborted"} : EndEvent(p, r, st)
  \/ FinishUnnamed(p, r) \/ FinishErrored(p, r)
  \/ FinalizeRow(p, r) \/ ReleaseSlot(p, r)
  \/ AnswerDecision(p, r) \/ ResumeLedger(p, r) \/ ResumeView(p, r)

ScanStep(p) ==
  \/ \E e \in index : ScanExpired(p, e)
  \/ \E r \in Runs : ScanOrphaned(p, r)
  \/ RefreshGeneration(p)

PassStep(p) ==
  \/ ListStale(p) \/ Judge(p) \/ Recover(p) \/ Redraw(p) \/ Reclaim(p)
  \/ Rereserve(p) \/ Condemn(p) \/ Drop(p)

ReapStep(p) == ScanStep(p) \/ PassStep(p)

LeaseStep ==
  \/ \E p \in Owners, r \in Runs : LoseOwnership(p, r)
  \/ \E r \in Runs : LeaseExpires(r)
  \/ \E p \in Owners : ObserveExpiredLease(p)
  \/ LeaderExpires

FaultStep == BackendLoss \/ \E p \in Owners : Shutdown(p) \/ Exit(p) \/ Crash(p)

RuntimeNext ==
  \/ \E p \in Owners, r \in Runs :
       AdmissionStep(p, r) \/ ExecutionStep(p, r) \/ AbortRun(p, r)
  \/ \E r \in Runs : AbortIntent(r)
  \/ \E p \in Owners : ReapStep(p)
  \/ LeaseStep
  \/ FaultStep

RuntimeSpec == RuntimeInit /\ [][RuntimeNext]_runtimeVars

\* A goroutine that has a call to make makes it; a turn ends by itself.
OwnerFairness(p, r) ==
  /\ WF_runtimeVars(AdmissionStep(p, r) /\ exec[p][r] # Idle)
  /\ WF_runtimeVars(FinishUnnamed(p, r) /\ exec[p][r].pc = "end")
  /\ WF_runtimeVars(FinishUnnamed(p, r) \/ FinishErrored(p, r))
  /\ WF_runtimeVars(ParkLedger(p, r) \/ ParkView(p, r))
  /\ WF_runtimeVars(ResumeLedger(p, r) \/ ResumeView(p, r))
  /\ WF_runtimeVars(FinalizeRow(p, r) \/ ReleaseSlot(p, r))
  /\ WF_runtimeVars(LoseOwnership(p, r) /\ ~CanRenew(r, Tok(p, r)))

\* A duty of the reaper that has something to do.
ScanFinds(p) ==
  \/ \E e \in index : ScanExpired(p, e)
  \/ \E r \in Runs : ScanOrphaned(p, r) \/ (Stale(r) /\ RefreshGeneration(p))

\* The ticks of the leader come round to what they can find, and a pass goes on;
\* unrenewed leases run out, and a process told to exit does.
Fairness ==
  /\ \A p \in Owners : /\ \A r \in Runs : OwnerFairness(p, r)
                       /\ WF_runtimeVars(PassStep(p))
                       /\ WF_runtimeVars(Exit(p))
  /\ SF_runtimeVars(\E p \in Owners : ScanFinds(p))
  /\ \A r \in Runs : WF_runtimeVars(LeaseExpires(r) /\ ~Renewed(r))
  /\ WF_runtimeVars(LeaderExpires /\ up[leader] # "up")

FairRuntimeSpec == RuntimeSpec /\ Fairness

-----------------------------------------------------------------------------
(* Properties                                                              *)

(* Domains, and the shape of a server's memory: a goroutine that is done   *)
(* leaves no run control behind, only a held ownership is renewed, and a   *)
(* dead process holds nothing.                                             *)
RuntimeTypeOK ==
  /\ TypeOK
  /\ fence \in 0..MaxToken
  /\ decision \in [Runs -> 0..MaxToken]
  /\ view \in [run : Runs \cup {NoInvocation}, token : 0..MaxToken,
               status : ActiveStatuses \cup EndStatuses \cup {"none"}, leased : BOOLEAN]
  /\ ref \in [Runs -> 0..MaxToken]
  /\ index \subseteq [run : Runs, token : 1..MaxToken, expired : BOOLEAN]
  /\ generation \in Generations
  /\ leader \in Owners \cup {NoOwner}
  /\ up \in [Owners -> {"up", "closing", "down"}]
  /\ exec \in [Owners -> [Runs -> Exec]]
  /\ reap \in [Owners -> Reap]
  /\ started \in [Runs -> Nat]
  /\ lastWrite \in 0..MaxToken
  /\ halted \subseteq [run : Runs, token : 1..MaxToken]
  /\ faults \in 0..MaxFaults
  /\ \A p \in Owners, r \in Runs :
       /\ exec[p][r].pc = "idle" => exec[p][r] = Idle
       /\ exec[p][r].renew => exec[p][r].own = "held"
       /\ up[p] = "down" => exec[p][r] = Idle /\ reap[p] = Resting

(* Owners, aborts and reapers together only ever take steps the durable    *)
(* ledger's contract allows, so what SessionLedger promises holds here.    *)
LedgerContract == Spec

(* admit.go: "claiming before activating is what stops a loser from        *)
(* fencing out the legitimate owner".  No claimed run in progress is ever  *)
(* fenced out by a larger token than its own.                              *)
OwnerNotFencedOut ==
  \A r \in Runs : rows[r].state \in {"running", "waiting_decision"} =>
                    fence <= rows[r].token

(* A live reservation of an active run carries the token of its row: the   *)
(* server commands and answers are routed to is the durable owner.         *)
RoutedToOwner ==
  \A r \in Runs : ref[r] # 0 /\ Active(r) => ref[r] = rows[r].token

(* SR-ADM-001: two servers racing on one invocation, retries that adopt an *)
(* orphan, and recoveries never build the same turn twice.                 *)
ExecutedOnce == \A r \in Runs : started[r] <= 1

(* redis.go: "there is no window in which an owner holds a run that no     *)
(* reaper can find".  Every reservation has its member in the lease index. *)
ReservationIndexed ==
  \A r \in Runs : ref[r] # 0 => Entry(r, ref[r], FALSE) \in index

(* The fence orders every history write of the session: once a successor   *)
(* has written, no earlier ownership writes again.                         *)
WritesFollowTokens == [][lastWrite' >= lastWrite]_runtimeVars

(* finalize.go, reaper.go: a run in progress is driven by a live server or *)
(* can be found by a reaper, through the lease index, as an orphan, or by  *)
(* its generation.                                                         *)
Driven(r) ==
  \E p \in Owners :
    /\ up[p] # "down"
    /\ \/ /\ exec[p][r].pc # "idle"
          /\ exec[p][r].pc \in {"draw", "claim"} \/ Tok(p, r) = rows[r].token
       \/ reap[p].run = r /\ reap[p].next = rows[r].token
Discoverable(r) ==
  \/ Orphaned(r) \/ Stale(r)
  \/ \E e \in index : e.run = r /\ e.token = rows[r].token
Reapable == \A r \in Runs : Active(r) => Driven(r) \/ Discoverable(r)

(* reaper.go: the lease index is how a run that lost its owner is found.   *)
(* Whatever fails, no late drop, release or expiry takes the member of a   *)
(* run in progress whose reservation the projection shows; only a shutdown *)
(* does, of the run it reports lost.                                       *)
ReservedIsFound ==
  \A r \in Runs :
    /\ Active(r) /\ ViewIs(r, rows[r].token)
    /\ "shutdown" \in Faults => view.status # "lost"
    => \E e \in index : e.run = r /\ e.token = rows[r].token

(* A parked run's pending decision follows the ownership of the run: no    *)
(* reclaim, fence or late owner leaves it on a token other than the row's, *)
(* where the current owner's answer would be refused.                      *)
DecisionFollowsOwnership ==
  \A r \in Runs : rows[r].state = "waiting_decision" /\ decision[r] # 0
                    => decision[r] = rows[r].token

(* resolveTerminalStatus in manager.go: reporting a cancelled execution as *)
(* its own outcome "would contradict the intent already recorded           *)
(* (SR-CTL-001)".  An ownership whose abort was acknowledged before its    *)
(* execution resolved an outcome is never recorded as a success.           *)
StoppedNeverCompletes ==
  \A h \in halted : rows[h.run].token = h.token => rows[h.run].state # "completed"

(* SR-CTL-001: an acknowledgement says whether the control took effect.    *)
(* No run is recorded as a success while its projection shows that its     *)
(* abort was acknowledged.                                                 *)
AbortNeverCompletes ==
  [][\A r \in Runs :
       rows'[r].state = "completed" /\ Active(r)
         => ~(ViewIs(r, rows[r].token) /\ view.status = "aborting")]_runtimeVars

(* manager.go, on resolving an outcome once for both terminal writes:      *)
(* "what keeps the two agreeing".  A run that ended durably and in the     *)
(* live projection ended the same way in both.                             *)
EndOf(status) == IF status = "errored" THEN "failed" ELSE status
StatusesAgree ==
  \A r \in Runs : Terminal(r) /\ view.run = r /\ view.status \in EndStatuses
                    => rows[r].state = EndOf(view.status)

(* recovery.go, of the lease-index member under which a parked run's owner *)
(* expired: it "remains until reserveRecoveredWaitingDecision succeeds ... *)
(* the retry pointer if this process dies between the two stores".         *)
ParkedRunKeepsPointer ==
  \A r \in Runs : rows[r].state = "waiting_decision"
                    => Driven(r) \/ \E e \in index : e.run = r

(* commands.go: an aborted run "survives as aborted-on-purpose".  An       *)
(* ownership an acknowledged abort stopped is not left waiting for the     *)
(* user's answer, with its command executor stopped.                       *)
AbortedNeverParked ==
  \A p \in Owners, r \in Runs :
    exec[p][r].pc = "parked" => ~HaltedAt(r, Tok(p, r))

(* SR-OWN-001, SR-DUR-002: a run in progress ends, or waits for an answer. *)
RunsSettle ==
  \A r \in Runs : Active(r) ~> (Terminal(r) \/ rows[r].state = "waiting_decision")
=============================================================================
