--------------------------- MODULE SessionReaper ---------------------------
(***************************************************************************)
(* The reaper of the session runtime (Reaper.tick, markLost) and the       *)
(* recovery of parked runs it calls (Manager.recoverWaitingDecision,       *)
(* runtimefence reclaim, reserveRecoveredWaitingDecision), on the state of *)
(* SessionRuntime.  A pass handles one candidate; each call it makes to    *)
(* PostgreSQL or Redis is a step, so a pass whose leadership has expired   *)
(* interleaves with its successor's.                                       *)
(***************************************************************************)
EXTENDS SessionRuntime

Reaping(p, pc) == up[p] = "up" /\ reap[p].pc = pc

Pass(p, pc) == reap' = [reap EXCEPT ![p].pc = pc]
Rest(p)     == reap' = [reap EXCEPT ![p] = Resting]

StaleAgainst(r, g) == Active(r) /\ rows[r].generation \notin {NoGeneration, g}
Stale(r)    == StaleAgainst(r, generation)
Orphaned(r) == rows[r].state = "accepted" /\ rows[r].owner = NoOwner

Start(p, pass) == reap' = [reap EXCEPT ![p] = pass]
Taking(r, t, pc, indexed) ==
  [Resting EXCEPT !.pc = pc, !.run = r, !.token = t, !.indexed = indexed]

\* AcquireLeaderLease elects and renews before a pass begins.
BeginPass(p, pass) ==
  /\ Reaping(p, "idle")
  /\ leader \in {NoOwner, p}
  /\ leader' = p
  /\ Start(p, pass)
  /\ UNCHANGED <<ledgerVars, fence, decision, view, ref, index, generation, up,
                 exec, started, lastWrite, halted>>

ScanExpired(p, e) ==
  e.expired /\ BeginPass(p, Taking(e.run, e.token, "judge", TRUE)) /\ UNCHANGED faults

\* The sweep reads the generation marker; one that can find nothing is left out ...
RefreshGeneration(p) ==
  /\ Generations # {generation}
  /\ BeginPass(p, [Resting EXCEPT !.pc = "sweep", !.gen = generation])
  /\ UNCHANGED faults

\* ... and then lists the rows that carry another generation than it has read.
ListStale(p) ==
  /\ Reaping(p, "sweep")
  /\ \/ \E r \in Runs : /\ StaleAgainst(r, reap[p].gen)
                        /\ Start(p, Taking(r, rows[r].token, "condemn", FALSE))
     \/ (\A r \in Runs : ~StaleAgainst(r, reap[p].gen)) /\ Rest(p)
  /\ UNCHANGED <<ledgerVars, fence, decision, liveVars, up, exec, historyVars>>

\* The grace of three lease TTLs passes an admission that is still being claimed
\* only when its server is paused for that long.
BeingClaimed(r) ==
  \E p \in Owners : up[p] # "down" /\ exec[p][r].pc \in {"draw", "claim"}

ScanOrphaned(p, r) ==
  /\ Orphaned(r)
  /\ BeginPass(p, Taking(r, rows[r].token, "condemn", FALSE))
  /\ IF BeingClaimed(r) THEN Inject("slow") ELSE UNCHANGED faults

\* Losing the leader lease needs the leader gone, or paused for a whole TTL.
LeaderExpires ==
  /\ leader # NoOwner
  /\ \/ up[leader] # "up" /\ UNCHANGED faults
     \/ up[leader] = "up" /\ Inject("failover")
  /\ leader' = NoOwner
  /\ UNCHANGED <<ledgerVars, fence, decision, view, ref, index, generation,
                 serverVars, started, lastWrite, halted>>

\* Only a parked row still fenced by the candidate's token is recoverable.
Judge_SkipsRunning(p) ==
  /\ Reaping(p, "judge")
  /\ LET r == reap[p].run IN
       Pass(p, IF /\ rows[r].state = "waiting_decision"
                  /\ rows[r].token = reap[p].token
               THEN "recover" ELSE "drop")
  /\ UNCHANGED <<ledgerVars, fence, decision, liveVars, up, exec, historyVars>>

Judge(p) ==
  /\ Reaping(p, "judge")
  /\ LET r == reap[p].run IN
       Pass(p, IF /\ rows[r].state = "waiting_decision"
                  /\ rows[r].token = reap[p].token
               THEN "recover" ELSE "condemn")
  /\ UNCHANGED <<ledgerVars, fence, decision, liveVars, up, exec, historyVars>>

\* The run is read afresh: recovered by an earlier pass, recoverable, or not.
Recover(p) ==
  /\ Reaping(p, "recover")
  /\ LET r == reap[p].run IN
       \/ /\ rows[r].state # "waiting_decision" \/ decision[r] = 0
          /\ Pass(p, "condemn")
          /\ UNCHANGED exec
       \/ /\ rows[r].state = "waiting_decision"
          /\ decision[r] \notin {0, rows[r].token}
          /\ Rest(p)
          /\ UNCHANGED exec
       \/ /\ rows[r].state = "waiting_decision" /\ decision[r] = rows[r].token
          /\ IF ref[r] = rows[r].token
             THEN Pass(p, "drop") /\ UNCHANGED exec
             ELSE /\ reap' = [reap EXCEPT ![p] = [@ EXCEPT !.pc = "redraw",
                                                           !.prev = rows[r].token]]
                  /\ exec' = [exec EXCEPT ![p][r] =
                       IF @.pc = "parked" THEN Idle
                       ELSE [@ EXCEPT !.own = "none", !.renew = FALSE]]
  /\ UNCHANGED <<ledgerVars, fence, decision, liveVars, up, historyVars>>

\* A token for the reclaim, then the generation it will be stamped with.
Redraw(p) ==
  /\ Reaping(p, "redraw")
  /\ NextFencingToken(reap[p].run)
  /\ reap' = [reap EXCEPT ![p] = [@ EXCEPT !.pc = "reclaim", !.next = tokenSeq + 1,
                                           !.gen = generation]]
  /\ UNCHANGED <<fence, decision, liveVars, up, exec, historyVars>>

\* One transaction: the decision, the row and the fence move to the new token
\* together, every other pending decision of the session is superseded.
Reclaim_LeavesDecision(p) ==
  /\ Reaping(p, "reclaim")
  /\ LET r == reap[p].run  prev == reap[p].prev  next == reap[p].next IN
       \/ /\ fence < next /\ decision[r] \in 1..next
          /\ ReclaimWaitingDecision(r, p, prev, next, reap[p].gen)
          /\ fence' = next
          /\ Pass(p, "rereserve")
          /\ UNCHANGED decision
       \/ /\ fence >= next \/ decision[r] \notin 1..next \/ ~ReclaimApplies(r, prev, next)
          /\ Rest(p)
          /\ UNCHANGED <<ledgerVars, fence, decision>>
  /\ UNCHANGED <<liveVars, up, exec, historyVars>>

Reclaim(p) ==
  /\ Reaping(p, "reclaim")
  /\ LET r == reap[p].run  prev == reap[p].prev  next == reap[p].next IN
       \/ /\ fence < next /\ decision[r] \in 1..next
          /\ ReclaimWaitingDecision(r, p, prev, next, reap[p].gen)
          /\ fence' = next
          /\ decision' = [q \in Runs |-> IF q = r THEN next ELSE 0]
          /\ Pass(p, "rereserve")
       \/ /\ fence >= next \/ decision[r] \notin 1..next \/ ~ReclaimApplies(r, prev, next)
          /\ Rest(p)
          /\ UNCHANGED <<ledgerVars, fence, decision>>
  /\ UNCHANGED <<liveVars, up, exec, historyVars>>

\* The recovered run is reserved again, parked; an execution left from the old
\* ownership has returned first, its fenced writes having become no-ops.
Rereserve(p) ==
  /\ Reaping(p, "rereserve")
  /\ LET r == reap[p].run
         blocked == \/ ref[r] # 0 \/ exec[p][r].own # "none"
                    \/ view.status \in ActiveStatuses /\ view.run # r IN
       \/ /\ blocked
          /\ Rest(p)
          /\ UNCHANGED <<view, ref, index, exec>>
       \/ /\ ~blocked /\ exec[p][r] = Idle
          /\ Reserve(r, reap[p].next, "waiting_decision")
          /\ exec' = [exec EXCEPT ![p][r] =
               [Idle EXCEPT !.pc = "parked", !.token = reap[p].next, !.own = "held",
                            !.renew = TRUE, !.asked = TRUE]]
          /\ Pass(p, "drop")
  /\ UNCHANGED <<ledgerVars, fence, decision, generation, leader, up, historyVars>>

\* markLost, with the token the pass was given; a failed write keeps the entry.
Condemn(p) ==
  /\ Reaping(p, "condemn")
  /\ \/ /\ FinalizeOrNothing(reap[p].run, reap[p].token, "lost")
        /\ IF reap[p].indexed THEN Pass(p, "drop") ELSE Rest(p)
        /\ UNCHANGED faults
     \/ StoreFails /\ Rest(p)
  /\ UNCHANGED <<fence, decision, liveVars, up, exec, started, lastWrite, halted>>

\* ReleaseLeaseCandidate removes exactly the member that was read.
Drop(p) ==
  /\ Reaping(p, "drop")
  /\ index' = Without(reap[p].run, reap[p].token)
  /\ Rest(p)
  /\ UNCHANGED <<ledgerVars, fence, decision, view, ref, generation, leader, up,
                 exec, historyVars>>
=============================================================================
