----------------------- MODULE RuntimeCluster_proofs -----------------------
(***************************************************************************)
(* Proofs about RuntimeCluster: for any servers, runs, generations and any *)
(* number of faults, the deployed runtime keeps the contract of the ledger *)
(* and the promises that rest on its tokens.                               *)
(*                                                                         *)
(* The invariant says what each memory may rely on.  A server past its     *)
(* claim holds the token of its row, or the fence has followed the token   *)
(* of a reclaim past it (ClaimInvariant); the fence never exceeds every    *)
(* row, and a decision carries its row's token (FenceInvariant); one       *)
(* server at most is starting a run, whose turn is not built yet           *)
(* (StartInvariant); a token that is about to be reserved is held by one   *)
(* server or pass, and by no reservation, index member or candidate        *)
(* (TokenInvariant), which is why a reaper never drops a live member.      *)
(*                                                                         *)
(* Most steps are calm: a server or a pass goes on with what it has, or    *)
(* forgets, and the backend loses what it held.  CalmStep covers them; the *)
(* few that draw, claim, reserve, build, take a candidate or reclaim are   *)
(* proved one by one, from the newness of a drawn token and the guards of  *)
(* the ledger's statements.                                                *)
(*                                                                         *)
(* Where commands are routed rests on more: who is about to reserve a run, *)
(* or executes it, holds the token of its row (BuiltInvariant), and only   *)
(* one pass recovers a parked run at a time (OnePass, PassInvariant).  The *)
(* second is false once a leader loses its lease while it works, so it is  *)
(* proved of deployments in which that does not happen (Undisputed).       *)
(*                                                                         *)
(* That a stopped execution is never recorded as a success rests on all of *)
(* this and on AbortInvariant: a token has one holder, what is reserved is *)
(* in progress, and as long as a stopped ownership holds its row, the      *)
(* projection shows it, so that a finish without an outcome resolves to    *)
(* none that succeeded.  Most steps are steady: nobody claims, and a row   *)
(* that ends is left to the server that ends it (Steady, SteadyKeeps).     *)
(*                                                                         *)
(* That the lease index keeps the member of every reservation in progress  *)
(* rests on who writes and removes it (FoundInvariant): a token is shown   *)
(* only after it was drawn and when nobody is about to reserve it, and a   *)
(* member is removed, by the server that releases its slot or the pass     *)
(* that drops its candidate, only of an ownership that has lost its row.   *)
(* Every step is one that gives no row a token (NoneArrives) or gives the  *)
(* one that was about to be reserved (FoundStep).  No fault is excluded.   *)
(***************************************************************************)
EXTENDS RuntimeCluster, SessionLedger_proofs

-----------------------------------------------------------------------------
(* The invariant                                                           *)

\* What a server remembers of a run: past its draw a token drawn for the run and not
\* before it a run control, at the claim a generation, at its end an outcome.
ExecFits(e, r, known) ==
  /\ e.pc \in {"idle", "draw"} => e.own = "none"
  /\ e.pc \notin {"idle", "draw"} => [run |-> r, token |-> e.token] \in known
  /\ e.pc = "claim" => e.gen \in Generations
  /\ e.pc \in {"unwind", "finish", "release"} => e.out \in TerminalStates

\* What a reaper's pass remembers: only a pass from the lease index recovers or drops.
FromIndex == {"judge", "recover", "redraw", "reclaim", "rereserve", "drop"}
PassFits(x, known) ==
  /\ x.pc \notin {"idle", "sweep"} => x.run \in Runs
  /\ x.pc = "sweep" => ~x.indexed /\ x.gen \in Generations
  /\ x.pc \in FromIndex => x.indexed
  /\ x.pc # "idle" /\ x.indexed => [run |-> x.run, token |-> x.token] \in known
  /\ x.pc \in {"reclaim", "rereserve"} => [run |-> x.run, token |-> x.next] \in known
  /\ x.pc = "reclaim" => x.gen \in Generations

ServersFit ==
  /\ exec \in [Owners -> [Runs -> Exec]]
  /\ \A p \in Owners, r \in Runs : ExecFits(exec[p][r], r, drawn)

PassesFit ==
  /\ reap \in [Owners -> Reap]
  /\ \A p \in Owners : PassFits(reap[p], drawn)

\* What the live backend holds.
BackendFits ==
  /\ generation \in Generations
  /\ ref \in [Runs -> 0..MaxToken]
  /\ \A r \in Runs : ref[r] # 0 => Drawn(r, ref[r])
  /\ index \subseteq [run : Runs, token : 1..MaxToken, expired : BOOLEAN]
  /\ \A e \in index : Drawn(e.run, e.token)

\* The token fenced the row; if it no longer does, the fence has followed.
Owned(row, t, f) ==
  /\ row.state \notin {Absent, "accepted"}
  /\ t <= row.token
  /\ t < row.token => row.token <= f

ClaimInvariant ==
  /\ \A p \in Owners, r \in Runs :
       exec[p][r].pc \notin {"idle", "draw", "claim"} => Owned(rows[r], exec[p][r].token, fence)
  /\ \A p \in Owners :
       reap[p].pc = "rereserve" => Owned(rows[reap[p].run], reap[p].next, fence)

FenceInvariant ==
  /\ fence \in Nat /\ lastWrite \in Nat /\ lastWrite <= fence
  /\ fence = 0 \/ \E r \in Runs : fence <= rows[r].token
  /\ decision \in [Runs -> Nat]
  /\ \A r \in Runs : decision[r] \in {0, rows[r].token}

Starting == {"activate", "reserve", "confirm", "build"}
StartInvariant ==
  /\ started \in [Runs -> {0, 1}]
  /\ \A r \in Runs :
       /\ rows[r].state \in {Absent, "accepted"} => started[r] = 0
       /\ \A p, q \in Owners :
            exec[p][r].pc \in Starting =>
              started[r] = 0 /\ (exec[q][r].pc \in Starting => p = q)

Coming(kind, p, r, t) ==
  IF kind = "claim" THEN exec[p][r].pc \in {"claim", "activate", "reserve"} /\ exec[p][r].token = t
  ELSE reap[p].pc \in {"reclaim", "rereserve"} /\ reap[p].run = r /\ reap[p].next = t
Kinds == {"claim", "reclaim"}
Candidate(p, r, t) == reap[p].pc # "idle" /\ reap[p].indexed /\ reap[p].run = r /\ reap[p].token = t

TokenInvariant ==
  /\ \A r \in Runs, t \in 1..MaxToken, k \in Kinds, p \in Owners :
       Coming(k, p, r, t) =>
         /\ ref[r] # t
         /\ \A e \in index : ~(e.run = r /\ e.token = t)
         /\ \A q \in Owners : ~Candidate(q, r, t)
         /\ \A l \in Kinds, q \in Owners : Coming(l, q, r, t) => l = k /\ q = p
  /\ \A e \in index : e.expired => ref[e.run] # e.token
  /\ \A p \in Owners, r \in Runs, t \in 1..MaxToken : Candidate(p, r, t) => ref[r] # t

ClusterInvariant ==
  /\ LedgerInvariant /\ ServersFit /\ PassesFit /\ BackendFits
  /\ ClaimInvariant /\ FenceInvariant /\ StartInvariant /\ TokenInvariant /\ ReservationIndexed

-----------------------------------------------------------------------------
(* The ledger under the steps of the runtime                               *)

Fresh(r) == rows[r].state \in {Absent, "accepted"}

\* A step of the ledger that gives no row a token.
RowsStay ==
  /\ [Next]_ledgerVars
  /\ drawn \subseteq drawn'
  /\ \A r \in Runs : rows'[r].token = rows[r].token /\ (Fresh(r)' => Fresh(r))

LEMMA IdleStays == UNCHANGED ledgerVars => RowsStay
BY DEF RowsStay, Fresh, ledgerVars

LEMMA AdmitStays ==
  ASSUME LedgerInvariant, RuntimeAssumption, NEW r \in Runs, Admit(r, Session, r)
  PROVE  RowsStay
<1>1. Next
  BY DEF RuntimeAssumption, Next, AdmitStep
<1>2. rows \in [Runs -> Row] /\ rows[r] = AbsentRow
  BY DEF LedgerInvariant, TypeOK, Admit
<1>3. /\ rows'[r] = AcceptedRow(Session, r, nextPosition[Session]) /\ drawn' = drawn
      /\ \A q \in Runs \ {r} : rows'[q] = rows[q]
  BY <1>2 DEF Admit
<1> QED BY <1>1, <1>2, <1>3 DEF RowsStay, Fresh, AcceptedRow, AbsentRow, Absent

\* A statement that only writes the state or the abort request of an active row.
LEMMA ColumnStays ==
  ASSUME LedgerInvariant, Next, NEW r \in Runs, NEW st, drawn' = drawn,
         \/ rows' = [rows EXCEPT ![r].state = st] /\ st \notin {Absent, "accepted"}
         \/ rows' = [rows EXCEPT ![r].abort = TRUE]
  PROVE  RowsStay
<1>1. rows \in [Runs -> Row]
  BY DEF LedgerInvariant, TypeOK
<1>2. \A q \in Runs \ {r} : rows'[q] = rows[q]
  BY <1>1
<1>3. rows'[r].token = rows[r].token
  BY <1>1 DEF Row
<1>4. (rows'[r].state = st /\ st \notin {Absent, "accepted"}) \/ rows'[r].state = rows[r].state
  BY <1>1 DEF Row
<1> QED BY <1>2, <1>3, <1>4 DEF RowsStay, Fresh

LEMMA FinalizeStays ==
  ASSUME LedgerInvariant, NEW r \in Runs, NEW t \in 0..MaxToken, NEW st \in TerminalStates,
         FinalizeOrNothing(r, t, st)
  PROVE  RowsStay
<1>1. CASE Finalize(r, t, st)
  <2>1. Next
    BY <1>1 DEF Next, FinalizeStep
  <2>2. TerminalState(r, st) \notin {Absent, "accepted"}
    BY DEF TerminalState, TerminalStates, Absent
  <2> QED BY <1>1, <2>1, <2>2, ColumnStays DEF Finalize
<1> QED BY <1>1, IdleStays DEF FinalizeOrNothing

LEMMA WaitStays ==
  ASSUME LedgerInvariant, NEW r \in Runs, NEW t \in 0..MaxToken,
         SetWaitingDecision(r, t) \/ Resume(r, t)
  PROVE  RowsStay
<1>1. Next
  BY DEF Next, WaitStep, ResumeStep
<1>2. \E st \in {"waiting_decision", "running"} : rows' = [rows EXCEPT ![r].state = st]
  BY DEF SetWaitingDecision, Resume
<1>3. drawn' = drawn
  BY DEF SetWaitingDecision, Resume
<1> QED BY <1>1, <1>2, <1>3, ColumnStays DEF Absent

LEMMA RequestAbortStays ==
  ASSUME LedgerInvariant, NEW r \in Runs, RequestAbort(r)
  PROVE  RowsStay
<1>1. Next
  BY DEF Next, AbortStep
<1> QED BY <1>1, ColumnStays DEF RequestAbort

-----------------------------------------------------------------------------
(* The memory of the servers                                               *)

Unclaimed == {"idle", "draw", "claim"}
Reserving == {"claim", "activate", "reserve"}

\* A server goes on with a run, or forgets it, without a new token or reservation.
Calm(e, e2) ==
  \/ e2.pc \in {"idle", "draw"}
  \/ /\ e2.token = e.token
     /\ e.pc \in Unclaimed => e2.pc \in Unclaimed
     /\ e2.pc \in Starting => e.pc \in Starting
     /\ e2.pc \in Reserving => e.pc \in Reserving

ServersCalm == \A p \in Owners, r \in Runs : Calm(exec[p][r], exec'[p][r])

\* The server p goes on with the run r as e says.
Becomes(p, r, e) == exec' = [exec EXCEPT ![p][r] = e]

LEMMA IdleFits == Idle \in Exec /\ \A r, known : ExecFits(Idle, r, known)
<1>1. Idle \in Exec
  BY LedgerAssumption DEF Idle, Exec, ExecPcs
<1>2. \A r, known : ExecFits(Idle, r, known)
  BY DEF Idle, ExecFits
<1> QED BY <1>1, <1>2

LEMMA CellMoves ==
  ASSUME ServersFit, NEW p \in Owners, NEW r \in Runs, NEW e \in Exec,
         Becomes(p, r, e), drawn \subseteq drawn', ExecFits(e, r, drawn')
  PROVE  /\ ServersFit'
         /\ Calm(exec[p][r], e) => ServersCalm
         /\ exec'[p][r] = e
         /\ \A q \in Owners, s \in Runs : ~(q = p /\ s = r) => exec'[q][s] = exec[q][s]
<1>1. exec \in [Owners -> [Runs -> Exec]] /\ \A q \in Owners, s \in Runs : ExecFits(exec[q][s], s, drawn)
  BY DEF ServersFit
<1>2. exec' \in [Owners -> [Runs -> Exec]]
  BY <1>1 DEF Becomes
<1>3. /\ exec'[p][r] = e
      /\ \A q \in Owners, s \in Runs : ~(q = p /\ s = r) => exec'[q][s] = exec[q][s]
  BY <1>1 DEF Becomes
<1>4. \A q \in Owners, s \in Runs : ExecFits(exec'[q][s], s, drawn')
  BY <1>1, <1>3 DEF ExecFits
<1>5. Calm(exec[p][r], e) => ServersCalm
  BY <1>3 DEF ServersCalm, Calm
<1> QED BY <1>2, <1>3, <1>4, <1>5 DEF ServersFit

\* A server remembers all but the place it is at.
LEMMA PlaceMoves ==
  ASSUME ServersFit, NEW p \in Owners, NEW r \in Runs, NEW pc \in ExecPcs, Goto(p, r, pc)
  PROVE  \E e \in Exec : /\ Becomes(p, r, e)
                         /\ e.pc = pc /\ e.token = exec[p][r].token /\ e.own = exec[p][r].own
                         /\ e.gen = exec[p][r].gen /\ e.out = exec[p][r].out
<1> DEFINE e == [exec[p][r] EXCEPT !.pc = pc]
<1>1. exec \in [Owners -> [Runs -> Exec]] /\ exec[p][r] \in Exec
  BY DEF ServersFit
<1>2. Becomes(p, r, e)
  BY <1>1 DEF Goto, Becomes
<1>3. e \in Exec
  BY <1>1 DEF Exec
<1>4. /\ e.pc = pc /\ e.token = exec[p][r].token /\ e.own = exec[p][r].own
      /\ e.gen = exec[p][r].gen /\ e.out = exec[p][r].out
  BY <1>1 DEF Exec
<1> HIDE DEF e
<1> QED BY <1>2, <1>3, <1>4

\* The projection shows its decision, and the execution returns.
Asks(p, r) == exec' = [exec EXCEPT ![p][r] = [@ EXCEPT !.pc = "end", !.asked = TRUE]]

LEMMA AsksMoves ==
  ASSUME ServersFit, NEW p \in Owners, NEW r \in Runs, Asks(p, r)
  PROVE  \E e \in Exec : /\ Becomes(p, r, e)
                         /\ e.pc = "end" /\ e.token = exec[p][r].token /\ e.out = exec[p][r].out
<1> DEFINE e == [exec[p][r] EXCEPT !.pc = "end", !.asked = TRUE]
<1>1. exec \in [Owners -> [Runs -> Exec]] /\ exec[p][r] \in Exec
  BY DEF ServersFit
<1>2. Becomes(p, r, e)
  BY <1>1 DEF Asks, Becomes
<1>3. e \in Exec
  BY <1>1 DEF Exec, ExecPcs
<1>4. e.pc = "end" /\ e.token = exec[p][r].token /\ e.out = exec[p][r].out
  BY <1>1 DEF Exec
<1> HIDE DEF e
<1> QED BY <1>2, <1>3, <1>4

\* A server goes on past its claim where less is known, or stays where it is.
LEMMA CellCalm ==
  ASSUME ServersFit, NEW p \in Owners, NEW r \in Runs, NEW e \in Exec, Becomes(p, r, e),
         drawn \subseteq drawn', e.token = exec[p][r].token,
         \/ /\ e.pc = exec[p][r].pc /\ e.gen = exec[p][r].gen /\ e.out = exec[p][r].out
            /\ e.own = "none" \/ exec[p][r].own # "none"
         \/ /\ exec[p][r].pc \notin {"idle", "draw", "claim"}
            /\ e.pc \notin {"idle", "draw", "claim"}
            /\ e.pc \in {"unwind", "finish", "release"} => e.out \in TerminalStates
            /\ e.pc \in Starting => exec[p][r].pc \in Starting
            /\ e.pc \in Reserving => exec[p][r].pc \in Reserving
  PROVE  ServersFit' /\ ServersCalm
<1>1. ExecFits(exec[p][r], r, drawn)
  BY DEF ServersFit
<1>2. ExecFits(e, r, drawn') /\ Calm(exec[p][r], e)
  BY <1>1 DEF ExecFits, Calm, Unclaimed, Starting, Reserving
<1> QED BY <1>2, CellMoves

LEMMA GotoCalm ==
  ASSUME ServersFit, NEW p \in Owners, NEW r \in Runs, NEW pc \in ExecPcs, Goto(p, r, pc),
         drawn \subseteq drawn',
         exec[p][r].pc \notin {"idle", "draw", "claim"}, pc \notin {"idle", "draw", "claim"},
         pc \in {"unwind", "finish", "release"} => exec[p][r].out \in TerminalStates,
         pc \in Starting => exec[p][r].pc \in Starting,
         pc \in Reserving => exec[p][r].pc \in Reserving
  PROVE  ServersFit' /\ ServersCalm
<1>1. PICK e \in Exec : /\ Becomes(p, r, e)
                        /\ e.pc = pc /\ e.token = exec[p][r].token /\ e.out = exec[p][r].out
  BY PlaceMoves
<1> QED BY <1>1, CellCalm

LEMMA ForgetCalm ==
  ASSUME ServersFit, NEW p \in Owners, NEW r \in Runs, Forget(p, r), drawn \subseteq drawn'
  PROVE  ServersFit' /\ ServersCalm
<1>1. ExecFits(Idle, r, drawn') /\ Calm(exec[p][r], Idle)
  BY DEF Idle, ExecFits, Calm
<1> QED BY <1>1, IdleFits, CellMoves DEF Forget, Becomes

LEMMA LeaveCalm ==
  ASSUME ServersFit, NEW p \in Owners, NEW r \in Runs, LeaveControl(p, r), drawn \subseteq drawn',
         exec[p][r].pc \notin {"idle", "draw", "claim"}
  PROVE  ServersFit' /\ ServersCalm
<1>1. CASE exec[p][r].own = "held" /\ exec[p][r].renew
  <2>1. Goto(p, r, "stuck")
    BY <1>1 DEF LeaveControl, Goto, ServersFit, Exec
  <2> QED BY <2>1, GotoCalm DEF ExecPcs, Starting, Reserving
<1>2. CASE ~(exec[p][r].own = "held" /\ exec[p][r].renew)
  <2>1. Forget(p, r)
    BY <1>2 DEF LeaveControl, Forget
  <2> QED BY <2>1, ForgetCalm
<1> QED BY <1>1, <1>2

-----------------------------------------------------------------------------
(* The memory of the reapers, and the live backend                         *)

\* A pass goes on with its candidate, or ends, without a new token or reservation.
CalmPass(x, x2) ==
  \/ x2.pc = "idle"
  \/ /\ x.pc # "idle"
     /\ x2.run = x.run /\ x2.token = x.token /\ x2.indexed = x.indexed
     /\ x2.pc \in {"reclaim", "rereserve"} => x2.pc = x.pc /\ x2.next = x.next
PassesCalm == \A p \in Owners : CalmPass(reap[p], reap'[p])

\* Reservations go, members of the index go or pass their deadline.
BackendCalm ==
  /\ \A r \in Runs : ref'[r] \in {0, ref[r]}
  /\ \A e \in index' :
       /\ \E d \in index : d.run = e.run /\ d.token = e.token
       /\ e.expired => e \in index \/ ref'[e.run] = 0

\* The fence rises or not at all, what is written carries its token, decisions go.
FenceCalm ==
  /\ fence' = fence /\ lastWrite' \in {lastWrite, fence}
  /\ decision' \in [Runs -> Nat] /\ \A r \in Runs : decision'[r] \in {0, decision[r]}

\* What claims rest on: nobody gets past a claim, or begins a turn.
ServersFollow ==
  \A p \in Owners, r \in Runs :
    /\ exec'[p][r].pc \notin Unclaimed =>
         exec[p][r].pc \notin Unclaimed /\ exec'[p][r].token = exec[p][r].token
    /\ exec'[p][r].pc \in Starting => exec[p][r].pc \in Starting
PassesFollow ==
  \A p \in Owners : reap'[p].pc = "rereserve" =>
    reap[p].pc = "rereserve" /\ reap'[p].run = reap[p].run /\ reap'[p].next = reap[p].next

\* What reservations rest on: no token is about to be reserved that was not before.
NoneComes ==
  /\ \A k \in Kinds, p \in Owners, r \in Runs, t \in 1..MaxToken :
       Coming(k, p, r, t)' => Coming(k, p, r, t)
  /\ \A p \in Owners, r \in Runs, t \in 1..MaxToken :
       Candidate(p, r, t)' => Candidate(p, r, t)

LEMMA ServersCalmFollow == ServersCalm => ServersFollow
BY DEF ServersCalm, Calm, ServersFollow, Unclaimed, Starting

LEMMA PassesCalmFollow == PassesCalm => PassesFollow
BY DEF PassesCalm, CalmPass, PassesFollow

LEMMA CalmNoneComes == ServersCalm /\ PassesCalm => NoneComes
<1> SUFFICES ASSUME ServersCalm, PassesCalm PROVE NoneComes
  OBVIOUS
<1>1. ASSUME NEW k \in Kinds, NEW p \in Owners, NEW r \in Runs, NEW t \in 1..MaxToken,
             Coming(k, p, r, t)'
      PROVE  Coming(k, p, r, t)
  <2>1. CASE k = "claim"
    BY <1>1, <2>1 DEF Coming, ServersCalm, Calm, Reserving
  <2>2. CASE k # "claim"
    BY <1>1, <2>2 DEF Coming, PassesCalm, CalmPass
  <2> QED BY <2>1, <2>2
<1>2. ASSUME NEW p \in Owners, NEW r \in Runs, NEW t \in 1..MaxToken, Candidate(p, r, t)'
      PROVE  Candidate(p, r, t)
  BY <1>2 DEF Candidate, PassesCalm, CalmPass
<1> QED BY <1>1, <1>2 DEF NoneComes

LEMMA PassesRest ==
  ASSUME PassesFit, UNCHANGED reap, drawn \subseteq drawn'
  PROVE  PassesFit' /\ PassesCalm
BY DEF PassesFit, PassFits, PassesCalm, CalmPass

LEMMA ServersRest ==
  ASSUME ServersFit, UNCHANGED exec, drawn \subseteq drawn'
  PROVE  ServersFit' /\ ServersCalm
BY DEF ServersFit, ExecFits, ServersCalm, Calm

LEMMA BackendRests ==
  ASSUME BackendFits, ReservationIndexed, UNCHANGED <<generation, ref, index>>, drawn \subseteq drawn'
  PROVE  BackendFits' /\ BackendCalm /\ ReservationIndexed'
BY DEF BackendFits, BackendCalm, Drawn, ReservationIndexed, Entry

-----------------------------------------------------------------------------
(* What calm steps keep                                                    *)

LEMMA RowTokens ==
  ASSUME LedgerInvariant, NEW r \in Runs
  PROVE  rows[r].token \in Nat /\ (Fresh(r) => rows[r].token = 0)
<1>1. rows[r] \in Row /\ (rows[r].state = Absent => rows[r] = AbsentRow)
      /\ (rows[r].state = "accepted" => rows[r].token = 0)
  BY DEF LedgerInvariant, TypeOK
<1>2. rows[r].token \in Nat
  BY <1>1, LedgerAssumption DEF Row
<1> QED BY <1>1, <1>2 DEF Fresh, AbsentRow

LEMMA OwnedStays ==
  ASSUME RowsStay, LedgerInvariant, fence \in Nat, fence' \in Nat, fence <= fence',
         NEW r \in Runs, NEW t, Owned(rows[r], t, fence)
  PROVE  Owned(rows'[r], t, fence')
<1>1. rows'[r].token = rows[r].token /\ rows'[r].state \notin {Absent, "accepted"}
      /\ rows[r].token \in Nat
  BY RowTokens DEF RowsStay, Fresh, Owned
<1> QED BY <1>1 DEF Owned

LEMMA ClaimsKept ==
  ASSUME LedgerInvariant, PassesFit, ClaimInvariant, RowsStay, ServersFollow, PassesFollow,
         fence <= fence', fence \in Nat, fence' \in Nat
  PROVE  ClaimInvariant'
<1>1. ASSUME NEW p \in Owners, NEW r \in Runs, exec'[p][r].pc \notin {"idle", "draw", "claim"}
      PROVE  Owned(rows'[r], exec'[p][r].token, fence')
  <2>1. exec[p][r].pc \notin {"idle", "draw", "claim"} /\ exec'[p][r].token = exec[p][r].token
    BY <1>1 DEF ServersFollow, Unclaimed
  <2> QED BY <2>1, OwnedStays DEF ClaimInvariant
<1>2. ASSUME NEW p \in Owners, reap'[p].pc = "rereserve"
      PROVE  Owned(rows'[reap'[p].run], reap'[p].next, fence')
  <2>1. reap[p].pc = "rereserve" /\ reap'[p].run = reap[p].run /\ reap'[p].next = reap[p].next
    BY <1>2 DEF PassesFollow
  <2>2. Owned(rows[reap[p].run], reap[p].next, fence) /\ reap[p].run \in Runs
    BY <2>1 DEF ClaimInvariant, PassesFit, PassFits
  <2> QED BY <2>1, <2>2, OwnedStays
<1> QED BY <1>1, <1>2 DEF ClaimInvariant

LEMMA StartKept ==
  ASSUME StartInvariant, RowsStay, ServersFollow, started' = started
  PROVE  StartInvariant'
<1>1. ASSUME NEW p \in Owners, NEW r \in Runs, exec'[p][r].pc \in Starting
      PROVE  exec[p][r].pc \in Starting
  BY <1>1 DEF ServersFollow
<1>2. \A r \in Runs : rows'[r].state \in {Absent, "accepted"} => rows[r].state \in {Absent, "accepted"}
  BY DEF RowsStay, Fresh
<1> QED BY <1>1, <1>2 DEF StartInvariant

LEMMA FenceKept ==
  ASSUME FenceInvariant, RowsStay, FenceCalm
  PROVE  FenceInvariant'
BY DEF FenceInvariant, RowsStay, FenceCalm

LEMMA TokensKept ==
  ASSUME BackendFits, TokenInvariant, NoneComes, BackendCalm, BackendFits'
  PROVE  TokenInvariant'
<1>1. /\ \A k \in Kinds, p \in Owners, r \in Runs, t \in 1..MaxToken :
           Coming(k, p, r, t)' => Coming(k, p, r, t)
      /\ \A p \in Owners, r \in Runs, t \in 1..MaxToken :
           Candidate(p, r, t)' => Candidate(p, r, t)
  BY DEF NoneComes
<1>3. \A r \in Runs, t \in 1..MaxToken : ref'[r] = t => ref[r] = t
  BY LedgerAssumption DEF BackendCalm
<1>4. \A e \in index' : e.run \in Runs /\ e.token \in 1..MaxToken
  BY DEF BackendFits
<1>5. \A e \in index' : \E d \in index : d.run = e.run /\ d.token = e.token
  BY DEF BackendCalm
<1>6. ASSUME NEW e \in index', e.expired
      PROVE  ref'[e.run] # e.token
  <2>1. CASE e \in index
    BY <1>3, <1>4, <1>6, <2>1 DEF TokenInvariant
  <2>2. CASE ref'[e.run] = 0
    BY <1>4, <2>2, LedgerAssumption
  <2> QED BY <1>6, <2>1, <2>2 DEF BackendCalm
<1>7. ASSUME NEW r \in Runs, NEW t \in 1..MaxToken, NEW k \in Kinds, NEW p \in Owners,
             Coming(k, p, r, t)'
      PROVE  /\ ref'[r] # t
             /\ \A e \in index' : ~(e.run = r /\ e.token = t)
             /\ \A q \in Owners : ~Candidate(q, r, t)'
             /\ \A l \in Kinds, q \in Owners : Coming(l, q, r, t)' => l = k /\ q = p
  <2>1. Coming(k, p, r, t)
    BY <1>1, <1>7
  <2>2. /\ ref[r] # t
        /\ \A e \in index : ~(e.run = r /\ e.token = t)
        /\ \A q \in Owners : ~Candidate(q, r, t)
        /\ \A l \in Kinds, q \in Owners : Coming(l, q, r, t) => l = k /\ q = p
    BY <2>1 DEF TokenInvariant
  <2> QED BY <1>1, <1>3, <1>5, <2>2
<1>8. \A p \in Owners, r \in Runs, t \in 1..MaxToken : Candidate(p, r, t)' => ref'[r] # t
  BY <1>1, <1>3 DEF TokenInvariant
<1> QED BY <1>6, <1>7, <1>8 DEF TokenInvariant

\* Most steps are calm in what servers, reapers and the backend remember.
LEMMA CalmStep ==
  ASSUME ClusterInvariant, RowsStay, ServersFit', ServersCalm, PassesFit', PassesCalm,
         BackendFits', BackendCalm, ReservationIndexed', fence <= fence', FenceInvariant',
         StartInvariant'
  PROVE  ClusterInvariant'
<1>1. LedgerInvariant'
  BY NextPreserves DEF ClusterInvariant, RowsStay
<1>2. ClaimInvariant'
  <2>1. fence \in Nat /\ fence' \in Nat
    BY DEF ClusterInvariant, FenceInvariant
  <2> QED BY <2>1, ClaimsKept, ServersCalmFollow, PassesCalmFollow DEF ClusterInvariant
<1>3. TokenInvariant'
  BY TokensKept, CalmNoneComes DEF ClusterInvariant
<1> QED BY <1>1, <1>2, <1>3 DEF ClusterInvariant

\* A step of a server that writes no fence and starts no turn.
LEMMA ServerStep ==
  ASSUME ClusterInvariant, RowsStay, ServersFit', ServersCalm, FenceCalm,
         UNCHANGED <<reap, generation, ref, index, started>>
  PROVE  ClusterInvariant'
<1>1. PassesFit' /\ PassesCalm
  BY PassesRest DEF ClusterInvariant, RowsStay
<1>2. BackendFits' /\ BackendCalm /\ ReservationIndexed'
  BY BackendRests DEF ClusterInvariant, RowsStay
<1>3. fence <= fence' /\ FenceInvariant'
  BY FenceKept DEF ClusterInvariant, FenceInvariant, FenceCalm
<1>4. StartInvariant'
  BY StartKept, ServersCalmFollow DEF ClusterInvariant
<1> QED BY <1>1, <1>2, <1>3, <1>4, CalmStep

LEMMA FenceRests ==
  ASSUME ClusterInvariant, UNCHANGED <<fence, lastWrite, decision>>
  PROVE  FenceCalm
BY DEF ClusterInvariant, FenceInvariant, FenceCalm

-----------------------------------------------------------------------------
(* Admission                                                               *)

LEMMA AdmitRunKeeps ==
  ASSUME ClusterInvariant, RuntimeAssumption, NEW p \in Owners, NEW r \in Runs, AdmitRun(p, r)
  PROVE  RowsStay /\ ClusterInvariant'
<1> USE DEF ClusterInvariant
<1>1. RowsStay
  BY AdmitStays, IdleStays DEF AdmitRun
<1>2. ServersFit' /\ ServersCalm
  <2>1. PICK e \in Exec : Becomes(p, r, e) /\ e.pc = "draw" /\ e.own = "none"
    <3>1. "draw" \in ExecPcs /\ Goto(p, r, "draw") /\ exec[p][r].own = "none"
      BY DEF AdmitRun, ExecPcs, Idle
    <3> QED BY <3>1, PlaceMoves
  <2>2. ExecFits(e, r, drawn') /\ Calm(exec[p][r], e)
    BY <2>1 DEF ExecFits, Calm
  <2> QED BY <1>1, <2>1, <2>2, CellMoves DEF RowsStay
<1>3. FenceCalm
  BY FenceRests DEF AdmitRun, historyVars
<1> QED BY <1>1, <1>2, <1>3, ServerStep DEF AdmitRun, liveVars, historyVars

\* A server learns how its run ends, or gives up or begins its lease.
LEMMA OutcomeCalm ==
  ASSUME ServersFit, NEW p \in Owners, NEW r \in Runs, drawn \subseteq drawn',
         exec[p][r].pc \notin {"idle", "draw", "claim"},
         NEW pc \in ExecPcs, NEW out \in TerminalStates,
         pc \notin {"idle", "draw"} \cup Starting \cup Reserving,
         exec' = [exec EXCEPT ![p][r] = [exec[p][r] EXCEPT !.pc = pc, !.out = out]]
  PROVE  ServersFit' /\ ServersCalm
<1> DEFINE e == [exec[p][r] EXCEPT !.pc = pc, !.out = out]
<1>1. exec[p][r] \in Exec
  BY DEF ServersFit
<1>2. /\ e \in Exec /\ Becomes(p, r, e)
      /\ e.pc = pc /\ e.token = exec[p][r].token /\ e.out = out
  BY <1>1 DEF Becomes, Exec
<1>3. "claim" \in Reserving
  BY DEF Reserving
<1> HIDE DEF e
<1> QED BY <1>2, <1>3, CellCalm

LEMMA LeaseCalm ==
  ASSUME ServersFit, NEW p \in Owners, NEW r \in Runs, drawn \subseteq drawn',
         NEW own \in {"none", "held", "lost"}, NEW renew \in BOOLEAN,
         own = "none" \/ exec[p][r].own # "none",
         exec' = [exec EXCEPT ![p][r] = [exec[p][r] EXCEPT !.own = own, !.renew = renew]]
  PROVE  ServersFit' /\ ServersCalm
<1> DEFINE e == [exec[p][r] EXCEPT !.own = own, !.renew = renew]
<1>1. exec[p][r] \in Exec
  BY DEF ServersFit
<1>2. e \in Exec /\ Becomes(p, r, e)
  BY <1>1 DEF Becomes, Exec
<1>3. /\ e.pc = exec[p][r].pc /\ e.token = exec[p][r].token /\ e.own = own
      /\ e.gen = exec[p][r].gen /\ e.out = exec[p][r].out
  BY <1>1 DEF Exec
<1> HIDE DEF e
<1> QED BY <1>2, <1>3, CellCalm

LEMMA ConfirmLeaseKeeps ==
  ASSUME ClusterInvariant, NEW p \in Owners, NEW r \in Runs, ConfirmLease(p, r)
  PROVE  RowsStay /\ ClusterInvariant'
<1> USE DEF ClusterInvariant
<1>1. RowsStay /\ FenceCalm
  BY IdleStays, FenceRests DEF ConfirmLease, historyVars
<1>2. exec[p][r] \in Exec /\ exec[p][r].pc = "confirm"
  BY DEF ServersFit, ConfirmLease, At
<1>3. ServersFit' /\ ServersCalm
  <2>1. CASE exec' = [exec EXCEPT ![p][r] = [@ EXCEPT !.pc = "build", !.renew = TRUE]]
    <3> DEFINE e == [exec[p][r] EXCEPT !.pc = "build", !.renew = TRUE]
    <3>1. e \in Exec /\ Becomes(p, r, e) /\ e.pc = "build" /\ e.token = exec[p][r].token
      BY <1>2, <2>1 DEF Becomes, Exec, ExecPcs
    <3> HIDE DEF e
    <3> QED BY <1>1, <1>2, <3>1, CellCalm DEF RowsStay, Starting, Reserving
  <2>2. CASE exec' = [exec EXCEPT ![p][r] = [@ EXCEPT !.pc = "abandon", !.own = "none"]]
    <3> DEFINE e == [exec[p][r] EXCEPT !.pc = "abandon", !.own = "none"]
    <3>1. e \in Exec /\ Becomes(p, r, e) /\ e.pc = "abandon" /\ e.token = exec[p][r].token
      BY <1>2, <2>2 DEF Becomes, Exec, ExecPcs
    <3> HIDE DEF e
    <3> QED BY <1>1, <1>2, <3>1, CellCalm DEF RowsStay, Starting, Reserving
  <2> QED BY <2>1, <2>2 DEF ConfirmLease
<1> QED BY <1>1, <1>3, ServerStep DEF ConfirmLease, liveVars, historyVars

LEMMA PromoteRunKeeps ==
  ASSUME ClusterInvariant, NEW p \in Owners, NEW r \in Runs, PromoteRun(p, r)
  PROVE  RowsStay /\ ClusterInvariant'
<1> USE DEF ClusterInvariant
<1>1. RowsStay /\ FenceCalm
  BY IdleStays, FenceRests DEF PromoteRun, historyVars
<1>2. exec[p][r].pc = "promote" /\ drawn \subseteq drawn'
  BY <1>1 DEF PromoteRun, At, RowsStay
<1>3. ServersFit' /\ ServersCalm
  <2>1. CASE Goto(p, r, "run")
    BY <1>2, <2>1, GotoCalm DEF ExecPcs, Starting, Reserving
  <2>2. CASE Goto(p, r, "abandon")
    BY <1>2, <2>2, GotoCalm DEF ExecPcs, Starting, Reserving
  <2>3. CASE exec' = [exec EXCEPT ![p][r] = [@ EXCEPT !.pc = "unwind", !.out = "aborted"]]
    <3>1. "unwind" \in ExecPcs \ ({"idle", "draw"} \cup Starting \cup Reserving) /\ "aborted" \in TerminalStates
      BY DEF ExecPcs, Starting, Reserving, TerminalStates
    <3> QED BY <1>2, <2>3, <3>1, OutcomeCalm
  <2> QED BY <2>1, <2>2, <2>3 DEF PromoteRun
<1> QED BY <1>1, <1>3, ServerStep DEF PromoteRun, historyVars

LEMMA FinishCalm ==
  ASSUME ServersFit, NEW p \in Owners, NEW r \in Runs, drawn \subseteq drawn',
         exec[p][r].pc \notin {"idle", "draw", "claim"},
         NEW out \in TerminalStates, FinishAs(p, r, out)
  PROVE  ServersFit' /\ ServersCalm
<1>1. CASE exec[p][r].own = "lost"
  <2>1. Forget(p, r)
    BY <1>1 DEF FinishAs, Forget
  <2> QED BY <2>1, ForgetCalm
<1>2. CASE exec[p][r].own # "lost"
  <2>1. exec' = [exec EXCEPT ![p][r] = [exec[p][r] EXCEPT !.pc = "finish", !.out = out]]
    BY <1>2 DEF FinishAs
  <2>2. "finish" \in ExecPcs \ ({"idle", "draw"} \cup Starting \cup Reserving)
    BY DEF ExecPcs, Starting, Reserving
  <2> QED BY <2>1, <2>2, OutcomeCalm
<1> QED BY <1>1, <1>2

LEMMA PublishFailsCalm ==
  ASSUME ServersFit, NEW p \in Owners, NEW r \in Runs, drawn \subseteq drawn',
         exec[p][r].pc \notin {"idle", "draw", "claim"}, PublishFails(p, r)
  PROVE  ServersFit' /\ ServersCalm
<1>1. CASE Goto(p, r, "end")
  BY <1>1, GotoCalm DEF ExecPcs, Starting, Reserving
<1>2. CASE FinishAs(p, r, "failed")
  BY <1>2, FinishCalm DEF TerminalStates
<1> QED BY <1>1, <1>2 DEF PublishFails

LEMMA UnwindAdmissionKeeps ==
  ASSUME ClusterInvariant, NEW p \in Owners, NEW r \in Runs, UnwindAdmission(p, r)
  PROVE  RowsStay /\ ClusterInvariant'
<1> USE DEF ClusterInvariant
<1>1. exec[p][r] \in Exec /\ exec[p][r].pc = "unwind" /\ exec[p][r].out \in TerminalStates
      /\ Tok(p, r) \in 0..MaxToken
  <2>1. exec[p][r] \in Exec /\ exec[p][r].pc = "unwind" /\ ExecFits(exec[p][r], r, drawn)
    BY DEF UnwindAdmission, At, ServersFit
  <2>2. exec[p][r].token \in 0..MaxToken
    BY <2>1 DEF Exec
  <2> QED BY <2>1, <2>2 DEF ExecFits, Tok
<1>2. RowsStay
  BY <1>1, IdleStays, FinalizeStays DEF UnwindAdmission, StoreFails
<1>3. ServersFit' /\ ServersCalm
  <2>0. drawn \subseteq drawn'
    BY <1>2 DEF RowsStay
  <2>1. CASE exec' = [exec EXCEPT ![p][r] = [@ EXCEPT !.pc = "abandon", !.own = "none",
                                                      !.renew = FALSE]]
    <3> DEFINE e == [exec[p][r] EXCEPT !.pc = "abandon", !.own = "none", !.renew = FALSE]
    <3>1. e \in Exec /\ Becomes(p, r, e) /\ e.pc = "abandon" /\ e.token = exec[p][r].token
      BY <1>1, <2>1 DEF Becomes, Exec, ExecPcs
    <3> HIDE DEF e
    <3> QED BY <1>1, <2>0, <3>1, CellCalm DEF Starting, Reserving
  <2>2. CASE Goto(p, r, "release")
    BY <1>1, <2>0, <2>2, GotoCalm DEF ExecPcs, Starting, Reserving
  <2>3. CASE Goto(p, r, "abandon")
    BY <1>1, <2>0, <2>3, GotoCalm DEF ExecPcs, Starting, Reserving
  <2> QED BY <2>1, <2>2, <2>3 DEF UnwindAdmission
<1>4. FenceCalm
  BY FenceRests DEF UnwindAdmission
<1> QED BY <1>2, <1>3, <1>4, ServerStep DEF UnwindAdmission, liveVars

LEMMA AbandonClaimKeeps ==
  ASSUME ClusterInvariant, NEW p \in Owners, NEW r \in Runs, AbandonClaim(p, r)
  PROVE  RowsStay /\ ClusterInvariant'
<1> USE DEF ClusterInvariant
<1>1. exec[p][r] \in Exec /\ exec[p][r].pc = "abandon" /\ Tok(p, r) \in 0..MaxToken
      /\ "failed" \in TerminalStates
  BY DEF AbandonClaim, At, ServersFit, Tok, Exec, TerminalStates
<1>2. RowsStay
  BY <1>1, IdleStays, FinalizeStays DEF AbandonClaim, StoreFails
<1>3. ServersFit' /\ ServersCalm
  BY <1>1, <1>2, LeaveCalm DEF RowsStay, AbandonClaim
<1>4. FenceCalm
  BY FenceRests DEF AbandonClaim
<1> QED BY <1>2, <1>3, <1>4, ServerStep DEF AbandonClaim, liveVars

-----------------------------------------------------------------------------
(* Execution                                                               *)

LEMMA WriteHistoryKeeps ==
  ASSUME ClusterInvariant, NEW p \in Owners, NEW r \in Runs, WriteHistory(p, r)
  PROVE  RowsStay /\ ClusterInvariant'
<1> USE DEF ClusterInvariant
<1>1. RowsStay
  BY IdleStays DEF WriteHistory
<1>2. ServersFit' /\ ServersCalm
  BY <1>1, ServersRest DEF RowsStay, WriteHistory, serverVars
<1>3. FenceCalm
  BY DEF WriteHistory, FencedWrite, FenceCalm, FenceInvariant
<1> QED BY <1>1, <1>2, <1>3, ServerStep DEF WriteHistory, liveVars, serverVars

LEMMA ParkLedgerKeeps ==
  ASSUME ClusterInvariant, NEW p \in Owners, NEW r \in Runs, ParkLedger(p, r)
  PROVE  RowsStay /\ ClusterInvariant'
<1> USE DEF ClusterInvariant
<1>1. exec[p][r] \in Exec /\ exec[p][r].pc = "asking" /\ Tok(p, r) \in 0..MaxToken
  BY DEF ParkLedger, At, ServersFit, Tok, Exec
<1>2. RowsStay
  BY <1>1, IdleStays, WaitStays DEF ParkLedger
<1>3. ServersFit' /\ ServersCalm
  <2>1. CASE Goto(p, r, "ask")
    BY <1>1, <1>2, <2>1, GotoCalm DEF RowsStay, ExecPcs, Starting, Reserving
  <2>2. CASE PublishFails(p, r)
    BY <1>1, <1>2, <2>2, PublishFailsCalm DEF RowsStay
  <2> QED BY <2>1, <2>2 DEF ParkLedger
<1>4. FenceCalm
  BY FenceRests DEF ParkLedger, historyVars
<1> QED BY <1>2, <1>3, <1>4, ServerStep DEF ParkLedger, liveVars, historyVars

LEMMA ParkViewKeeps ==
  ASSUME ClusterInvariant, NEW p \in Owners, NEW r \in Runs, ParkView(p, r)
  PROVE  RowsStay /\ ClusterInvariant'
<1> USE DEF ClusterInvariant
<1>1. RowsStay /\ FenceCalm /\ exec[p][r].pc = "ask"
  BY IdleStays, FenceRests DEF ParkView, historyVars, At
<1>2. ServersFit' /\ ServersCalm
  <2>1. CASE Asks(p, r)
    BY <1>1, <2>1, AsksMoves, CellCalm DEF RowsStay, Starting, Reserving
  <2>2. CASE PublishFails(p, r)
    BY <1>1, <2>2, PublishFailsCalm DEF RowsStay
  <2> QED BY <2>1, <2>2 DEF ParkView, Asks
<1> QED BY <1>1, <1>2, ServerStep DEF ParkView, historyVars

LEMMA EndEventKeeps ==
  ASSUME ClusterInvariant, NEW p \in Owners, NEW r \in Runs, NEW st, EndEvent(p, r, st)
  PROVE  RowsStay /\ ClusterInvariant'
<1> USE DEF ClusterInvariant
<1>1. RowsStay /\ FenceCalm /\ exec[p][r].pc \in {"run", "end"} /\ Goto(p, r, "end")
  BY IdleStays, FenceRests DEF EndEvent, historyVars, At
<1>2. ServersFit' /\ ServersCalm
  BY <1>1, GotoCalm DEF RowsStay, ExecPcs, Starting, Reserving
<1> QED BY <1>1, <1>2, ServerStep DEF EndEvent, historyVars

LEMMA FinishUnnamedKeeps ==
  ASSUME ClusterInvariant, NEW p \in Owners, NEW r \in Runs, FinishUnnamed(p, r)
  PROVE  RowsStay /\ ClusterInvariant'
<1> USE DEF ClusterInvariant
<1>1. RowsStay /\ FenceCalm /\ exec[p][r].pc \in {"run", "end"}
  BY IdleStays, FenceRests DEF FinishUnnamed, historyVars, At
<1>2. ServersFit' /\ ServersCalm
  <2>1. CASE exec' = [exec EXCEPT ![p][r] = IF @.own = "none" THEN Idle
                                            ELSE [@ EXCEPT !.pc = "parked"]]
    <3>1. CASE exec[p][r].own = "none"
      <4>1. Forget(p, r)
        BY <2>1, <3>1 DEF Forget
      <4> QED BY <1>1, <4>1, ForgetCalm DEF RowsStay
    <3>2. CASE exec[p][r].own # "none"
      <4>1. Goto(p, r, "parked")
        BY <2>1, <3>2 DEF Goto, ServersFit, Exec
      <4> QED BY <1>1, <4>1, GotoCalm DEF RowsStay, ExecPcs, Starting, Reserving
    <3> QED BY <3>1, <3>2
  <2>2. CASE FinishAs(p, r, Resolve(r, Tok(p, r)))
    <3>1. Resolve(r, Tok(p, r)) \in TerminalStates
      BY DEF Resolve, TerminalStates
    <3> QED BY <1>1, <2>2, <3>1, FinishCalm DEF RowsStay
  <2> QED BY <2>1, <2>2 DEF FinishUnnamed
<1> QED BY <1>1, <1>2, ServerStep DEF FinishUnnamed, liveVars, historyVars

LEMMA FinishErroredKeeps ==
  ASSUME ClusterInvariant, NEW p \in Owners, NEW r \in Runs, FinishErrored(p, r)
  PROVE  RowsStay /\ ClusterInvariant'
<1> USE DEF ClusterInvariant
<1>1. RowsStay /\ FenceCalm /\ exec[p][r].pc = "run" /\ FinishAs(p, r, "failed")
  BY IdleStays, FenceRests DEF FinishErrored, historyVars, At
<1>2. ServersFit' /\ ServersCalm
  BY <1>1, FinishCalm DEF RowsStay, TerminalStates
<1> QED BY <1>1, <1>2, ServerStep DEF FinishErrored, liveVars, historyVars

LEMMA FinalizeRowKeeps ==
  ASSUME ClusterInvariant, NEW p \in Owners, NEW r \in Runs, FinalizeRow(p, r)
  PROVE  RowsStay /\ ClusterInvariant'
<1> USE DEF ClusterInvariant
<1>1. exec[p][r] \in Exec /\ exec[p][r].pc = "finish" /\ exec[p][r].out \in TerminalStates
      /\ Tok(p, r) \in 0..MaxToken
  <2>1. exec[p][r] \in Exec /\ exec[p][r].pc = "finish" /\ ExecFits(exec[p][r], r, drawn)
    BY DEF FinalizeRow, At, ServersFit
  <2>2. exec[p][r].token \in 0..MaxToken
    BY <2>1 DEF Exec
  <2> QED BY <2>1, <2>2 DEF ExecFits, Tok
<1>2. RowsStay
  BY <1>1, IdleStays, FinalizeStays DEF FinalizeRow, StoreFails
<1>3. ServersFit' /\ ServersCalm
  <2>1. CASE Goto(p, r, "release")
    BY <1>1, <1>2, <2>1, GotoCalm DEF RowsStay, ExecPcs, Starting, Reserving
  <2>2. CASE LeaveControl(p, r)
    BY <1>1, <1>2, <2>2, LeaveCalm DEF RowsStay
  <2> QED BY <2>1, <2>2 DEF FinalizeRow
<1>4. FenceCalm
  BY FenceRests DEF FinalizeRow
<1> QED BY <1>2, <1>3, <1>4, ServerStep DEF FinalizeRow, liveVars

LEMMA AnswerDecisionKeeps ==
  ASSUME ClusterInvariant, NEW p \in Owners, NEW r \in Runs, AnswerDecision(p, r)
  PROVE  RowsStay /\ ClusterInvariant'
<1> USE DEF ClusterInvariant
<1>1. RowsStay /\ exec[p][r].pc = "parked" /\ Goto(p, r, "resuming")
  BY IdleStays DEF AnswerDecision, At
<1>2. FenceCalm
  BY DEF AnswerDecision, FenceCalm, FenceInvariant, historyVars
<1>3. ServersFit' /\ ServersCalm
  BY <1>1, GotoCalm DEF RowsStay, ExecPcs, Starting, Reserving
<1> QED BY <1>1, <1>2, <1>3, ServerStep DEF AnswerDecision, liveVars, historyVars

LEMMA ResumeLedgerKeeps ==
  ASSUME ClusterInvariant, NEW p \in Owners, NEW r \in Runs, ResumeLedger(p, r)
  PROVE  RowsStay /\ ClusterInvariant'
<1> USE DEF ClusterInvariant
<1>1. exec[p][r] \in Exec /\ exec[p][r].pc = "resuming" /\ Tok(p, r) \in 0..MaxToken
  BY DEF ResumeLedger, At, ServersFit, Tok, Exec
<1>2. RowsStay
  BY <1>1, IdleStays, WaitStays DEF ResumeLedger
<1>3. ServersFit' /\ ServersCalm
  <2>1. CASE Goto(p, r, "resumed")
    BY <1>1, <1>2, <2>1, GotoCalm DEF RowsStay, ExecPcs, Starting, Reserving
  <2>2. CASE FinishAs(p, r, "failed")
    BY <1>1, <1>2, <2>2, FinishCalm DEF RowsStay, TerminalStates
  <2> QED BY <2>1, <2>2 DEF ResumeLedger
<1>4. FenceCalm
  BY FenceRests DEF ResumeLedger, historyVars
<1> QED BY <1>2, <1>3, <1>4, ServerStep DEF ResumeLedger, liveVars, historyVars

LEMMA ResumeViewKeeps ==
  ASSUME ClusterInvariant, NEW p \in Owners, NEW r \in Runs, ResumeView(p, r)
  PROVE  RowsStay /\ ClusterInvariant'
<1> USE DEF ClusterInvariant
<1>1. RowsStay /\ FenceCalm /\ exec[p][r].pc = "resumed"
  BY IdleStays, FenceRests DEF ResumeView, historyVars, At
<1>2. ServersFit' /\ ServersCalm
  <2>1. CASE Goto(p, r, "run")
    BY <1>1, <2>1, GotoCalm DEF RowsStay, ExecPcs, Starting, Reserving
  <2>2. CASE FinishAs(p, r, "failed")
    BY <1>1, <2>2, FinishCalm DEF RowsStay, TerminalStates
  <2> QED BY <2>1, <2>2 DEF ResumeView
<1> QED BY <1>1, <1>2, ServerStep DEF ResumeView, historyVars

-----------------------------------------------------------------------------
(* Aborts, leases and faults                                               *)

LEMMA AbortIntentKeeps ==
  ASSUME ClusterInvariant, NEW r \in Runs, AbortIntent(r)
  PROVE  RowsStay /\ ClusterInvariant'
<1> USE DEF ClusterInvariant
<1>1. RowsStay /\ FenceCalm
  BY RequestAbortStays, FenceRests DEF AbortIntent, historyVars
<1>2. ServersFit' /\ ServersCalm
  BY <1>1, ServersRest DEF RowsStay, AbortIntent, serverVars
<1> QED BY <1>1, <1>2, ServerStep DEF AbortIntent, serverVars, liveVars, historyVars

\* An abort finds the run control that a claimed and reserved run has.
LEMMA AbortFinds ==
  ASSUME ClusterInvariant, NEW p \in Owners, NEW r \in Runs, AbortRun(p, r)
  PROVE  exec[p][r].pc \notin {"idle", "draw"} \cup Reserving
<1> USE DEF ClusterInvariant
<1>1. /\ exec[p][r].pc \notin {"idle", "draw"} /\ ref[r] = exec[p][r].token
      /\ [run |-> r, token |-> exec[p][r].token] \in drawn
  BY DEF AbortRun, LiveOwner, Tok, ServersFit, ExecFits
<1>2. PICK t \in 1..MaxToken : t = exec[p][r].token
  BY <1>1 DEF LedgerInvariant, TypeOK
<1>3. ~Coming("claim", p, r, t)
  BY <1>1, <1>2 DEF TokenInvariant, Kinds
<1> QED BY <1>1, <1>2, <1>3 DEF Coming, Reserving

LEMMA AbortRunKeeps ==
  ASSUME ClusterInvariant, NEW p \in Owners, NEW r \in Runs, AbortRun(p, r)
  PROVE  RowsStay /\ ClusterInvariant'
<1>1. RowsStay /\ FenceCalm
  BY IdleStays, FenceRests DEF AbortRun
<1>2. /\ exec[p][r].pc \notin {"idle", "draw", "claim"} /\ drawn \subseteq drawn'
      /\ ServersFit /\ "aborted" \in TerminalStates
  BY <1>1, AbortFinds DEF RowsStay, Reserving, ClusterInvariant, TerminalStates
<1>3. ServersFit' /\ ServersCalm
  <2>1. CASE exec' = [exec EXCEPT ![p][r] = [@ EXCEPT !.pc = "unwind", !.out = "aborted"]]
    <3>1. "unwind" \in ExecPcs \ ({"idle", "draw"} \cup Starting \cup Reserving)
      BY DEF ExecPcs, Starting, Reserving
    <3> QED BY <1>2, <2>1, <3>1, OutcomeCalm
  <2>2. CASE FinishAs(p, r, "aborted")
    BY <1>2, <2>2, FinishCalm
  <2>3. CASE UNCHANGED exec
    BY <1>2, <2>3, ServersRest
  <2> QED BY <2>1, <2>2, <2>3 DEF AbortRun
<1> QED BY <1>1, <1>3, ServerStep DEF AbortRun

LEMMA LoseOwnershipKeeps ==
  ASSUME ClusterInvariant, NEW p \in Owners, NEW r \in Runs, LoseOwnership(p, r)
  PROVE  RowsStay /\ ClusterInvariant'
<1> USE DEF ClusterInvariant
<1>1. RowsStay /\ FenceCalm
  BY IdleStays, FenceRests DEF LoseOwnership
<1>2. ServersFit' /\ ServersCalm
  <2>1. CASE exec[p][r].pc = "stuck"
    <3>1. Forget(p, r)
      BY <2>1 DEF LoseOwnership, Forget
    <3> QED BY <1>1, <3>1, ForgetCalm DEF RowsStay
  <2>2. CASE exec[p][r].pc # "stuck"
    <3>1. /\ exec' = [exec EXCEPT ![p][r] = [exec[p][r] EXCEPT !.own = "lost", !.renew = FALSE]]
          /\ exec[p][r].own # "none"
      BY <2>2 DEF LoseOwnership
    <3> QED BY <1>1, <3>1, LeaseCalm DEF RowsStay
  <2> QED BY <2>1, <2>2
<1> QED BY <1>1, <1>2, ServerStep DEF LoseOwnership, liveVars

LEMMA ObserveExpiredLeaseKeeps ==
  ASSUME ClusterInvariant, NEW p \in Owners, ObserveExpiredLease(p)
  PROVE  RowsStay /\ ClusterInvariant'
<1> USE DEF ClusterInvariant
<1> DEFINE r == view.run
<1>1. RowsStay /\ FenceCalm
  BY IdleStays, FenceRests DEF ObserveExpiredLease, historyVars
<1>2. ServersFit' /\ ServersCalm
  <2>0. exec \in [Owners -> [Runs -> Exec]] /\ drawn \subseteq drawn'
    BY <1>1 DEF ServersFit, RowsStay
  <2>1. CASE /\ r \in Runs /\ exec[p][r].own # "none"
             /\ exec' = [exec EXCEPT ![p][r] = [exec[p][r] EXCEPT !.own = "lost", !.renew = FALSE]]
    BY <2>0, <2>1, LeaseCalm
  <2>2. CASE UNCHANGED exec
    BY <2>0, <2>2, ServersRest
  <2>3. \/ /\ r \in Runs /\ exec[p][r].own # "none"
           /\ exec' = [exec EXCEPT ![p][r] = [exec[p][r] EXCEPT !.own = "lost", !.renew = FALSE]]
        \/ UNCHANGED exec
    BY <2>0 DEF ObserveExpiredLease
  <2> QED BY <2>1, <2>2, <2>3
<1> QED BY <1>1, <1>2, ServerStep DEF ObserveExpiredLease, historyVars

\* A step that changes the live backend, and the ledger and its fence not at all.
LEMMA BackendStep ==
  ASSUME ClusterInvariant, UNCHANGED <<ledgerVars, fence, decision, started, lastWrite>>,
         ServersFit', ServersCalm, PassesFit', PassesCalm, BackendFits', BackendCalm,
         ReservationIndexed'
  PROVE  RowsStay /\ ClusterInvariant'
<1> USE DEF ClusterInvariant
<1>1. RowsStay /\ FenceCalm
  BY IdleStays, FenceRests
<1>2. fence <= fence' /\ FenceInvariant'
  BY <1>1, FenceKept DEF FenceInvariant
<1>3. StartInvariant'
  BY <1>1, StartKept, ServersCalmFollow
<1> QED BY <1>1, <1>2, <1>3, CalmStep

\* Reservations that go take their members along or leave them for the reaper.
LEMMA ReservationsGo ==
  ASSUME BackendFits, ReservationIndexed, UNCHANGED ledgerVars, generation' \in Generations,
         ref' \in [Runs -> 0..MaxToken], \A r \in Runs : ref'[r] \in {0, ref[r]},
         index' \subseteq index, 
         \A e \in index : e.run \in Runs /\ ref'[e.run] # 0 => e \in index'
  PROVE  BackendFits' /\ BackendCalm /\ ReservationIndexed'
<1>1. \A e \in index : e.run \in Runs
  BY DEF BackendFits
<1>2. ReservationIndexed'
  <2> SUFFICES ASSUME NEW r \in Runs, ref'[r] # 0
               PROVE  Entry(r, ref'[r], FALSE) \in index'
    BY DEF ReservationIndexed, Entry
  <2>1. ref'[r] = ref[r] /\ Entry(r, ref[r], FALSE) \in index
    BY DEF ReservationIndexed
  <2> QED BY <2>1 DEF Entry
<1>3. BackendFits'
  BY DEF BackendFits, Drawn, ledgerVars
<1>4. BackendCalm
  BY DEF BackendCalm
<1> QED BY <1>2, <1>3, <1>4

LEMMA LeaseExpiresKeeps ==
  ASSUME ClusterInvariant, NEW r \in Runs, LeaseExpires(r)
  PROVE  RowsStay /\ ClusterInvariant'
<1> USE DEF ClusterInvariant
<1> DEFINE old == Entry(r, ref[r], FALSE)
           new == Entry(r, ref[r], TRUE)
<1>1. /\ ref \in [Runs -> 0..MaxToken] /\ ref[r] # 0 /\ ref' = [ref EXCEPT ![r] = 0]
      /\ UNCHANGED <<ledgerVars, generation, drawn>>
      /\ index' = {IF e = old THEN new ELSE e : e \in index}
  BY DEF LeaseExpires, BackendFits, ledgerVars
<1>2. ref' \in [Runs -> 0..MaxToken] /\ ref'[r] = 0 /\ \A s \in Runs \ {r} : ref'[s] = ref[s]
  BY <1>1, LedgerAssumption
<1>3. /\ new \in [run : Runs, token : 1..MaxToken, expired : BOOLEAN]
      /\ new.run = r /\ new.token = ref[r] /\ old.run = r /\ old.token = ref[r]
      /\ Drawn(r, ref[r])
  BY <1>1, LedgerAssumption DEF Entry, BackendFits
<1>4. old \in index
  BY <1>1 DEF ReservationIndexed
<1> HIDE DEF new, old
<1>5. index' \subseteq index \cup {new} /\ \A e \in index : e # old => e \in index'
  BY <1>1
<1>6. BackendFits'
  BY <1>1, <1>2, <1>3, <1>5 DEF BackendFits, Drawn
<1>7. BackendCalm
  BY <1>2, <1>3, <1>4, <1>5 DEF BackendCalm
<1>8. ReservationIndexed'
  <2> SUFFICES ASSUME NEW s \in Runs, ref'[s] # 0
               PROVE  Entry(s, ref'[s], FALSE) \in index'
    BY DEF ReservationIndexed, Entry
  <2>1. s # r /\ Entry(s, ref[s], FALSE) \in index /\ ref'[s] = ref[s]
    BY <1>2 DEF ReservationIndexed
  <2>2. Entry(s, ref[s], FALSE) # old
    BY <1>3, <2>1 DEF Entry
  <2> QED BY <1>5, <2>1, <2>2
<1>9. ServersFit' /\ ServersCalm /\ PassesFit' /\ PassesCalm
  BY <1>1, ServersRest, PassesRest DEF LeaseExpires, serverVars
<1> QED BY <1>6, <1>7, <1>8, <1>9, BackendStep DEF LeaseExpires

LEMMA ReleaseSlotKeeps ==
  ASSUME ClusterInvariant, NEW p \in Owners, NEW r \in Runs, ReleaseSlot(p, r)
  PROVE  RowsStay /\ ClusterInvariant'
<1> USE DEF ClusterInvariant
<1>1. /\ ref \in [Runs -> 0..MaxToken] /\ UNCHANGED <<ledgerVars, generation, reap>>
      /\ \/ ref' = [ref EXCEPT ![r] = 0] /\ index' = Without(r, Tok(p, r))
         \/ UNCHANGED <<ref, index>>
  BY DEF ReleaseSlot, BackendFits
<1>2. /\ ref' \in [Runs -> 0..MaxToken] /\ \A s \in Runs : ref'[s] \in {0, ref[s]}
      /\ index' \subseteq index
      /\ \A e \in index : e.run \in Runs /\ ref'[e.run] # 0 => e \in index'
  BY <1>1, LedgerAssumption DEF Without
<1>3. BackendFits' /\ BackendCalm /\ ReservationIndexed'
  <2>1. generation' \in Generations
    BY <1>1 DEF BackendFits
  <2> QED BY <1>1, <1>2, <2>1, ReservationsGo
<1>4. drawn \subseteq drawn'
  BY <1>1 DEF ledgerVars
<1>5. ServersFit' /\ ServersCalm /\ PassesFit' /\ PassesCalm
  BY <1>1, <1>4, ForgetCalm, PassesRest DEF ReleaseSlot
<1> QED BY <1>3, <1>5, BackendStep DEF ReleaseSlot, historyVars

LEMMA LeaderExpiresKeeps ==
  ASSUME ClusterInvariant, LeaderExpires
  PROVE  RowsStay /\ ClusterInvariant'
<1> USE DEF ClusterInvariant
<1>1. drawn \subseteq drawn'
  BY DEF LeaderExpires, ledgerVars
<1>2. ServersFit' /\ ServersCalm /\ PassesFit' /\ PassesCalm
  BY <1>1, ServersRest, PassesRest DEF LeaderExpires, serverVars
<1>3. BackendFits' /\ BackendCalm /\ ReservationIndexed'
  BY <1>1, BackendRests DEF LeaderExpires
<1> QED BY <1>2, <1>3, BackendStep DEF LeaderExpires

LEMMA BackendLossKeeps ==
  ASSUME ClusterInvariant, BackendLoss
  PROVE  RowsStay /\ ClusterInvariant'
<1> USE DEF ClusterInvariant
<1>1. drawn \subseteq drawn'
  BY DEF BackendLoss, ledgerVars
<1>2. ServersFit' /\ ServersCalm /\ PassesFit' /\ PassesCalm
  BY <1>1, ServersRest, PassesRest DEF BackendLoss, serverVars
<1>3. /\ ref' \in [Runs -> 0..MaxToken] /\ \A r \in Runs : ref'[r] = 0
      /\ index' = {} /\ generation' \in Generations
  BY LedgerAssumption DEF BackendLoss
<1>4. BackendFits' /\ BackendCalm /\ ReservationIndexed'
  BY <1>3, ReservationsGo DEF BackendLoss
<1> QED BY <1>2, <1>4, BackendStep DEF BackendLoss

\* A server that goes down, or that is told to, has forgotten or goes on with less.
LEMMA RowCalm ==
  ASSUME ServersFit, NEW p \in Owners, drawn \subseteq drawn', NEW cells \in [Runs -> Exec],
         exec' = [exec EXCEPT ![p] = cells],
         \A r \in Runs : \/ cells[r] = Idle
                         \/ /\ cells[r].pc = exec[p][r].pc /\ cells[r].token = exec[p][r].token
                            /\ cells[r].gen = exec[p][r].gen /\ cells[r].out = exec[p][r].out
                            /\ cells[r].own = "none"
  PROVE  ServersFit' /\ ServersCalm
<1>1. /\ exec \in [Owners -> [Runs -> Exec]]
      /\ \A q \in Owners, r \in Runs : ExecFits(exec[q][r], r, drawn)
  BY DEF ServersFit
<1>2. /\ exec' \in [Owners -> [Runs -> Exec]]
      /\ \A r \in Runs : exec'[p][r] = cells[r]
      /\ \A q \in Owners \ {p}, r \in Runs : exec'[q][r] = exec[q][r]
  BY <1>1
<1>3. ASSUME NEW q \in Owners, NEW r \in Runs
      PROVE  ExecFits(exec'[q][r], r, drawn') /\ Calm(exec[q][r], exec'[q][r])
  <2>1. CASE q = p /\ cells[r] = Idle
    BY <1>2, <2>1 DEF ExecFits, Calm, Idle
  <2>2. CASE q # p \/ cells[r] # Idle
    BY <1>1, <1>2, <2>2 DEF ExecFits, Calm
  <2> QED BY <2>1, <2>2
<1> QED BY <1>2, <1>3 DEF ServersFit, ServersCalm

LEMMA PassesEnd ==
  ASSUME PassesFit, NEW p \in Owners, Rest(p), drawn \subseteq drawn'
  PROVE  PassesFit' /\ PassesCalm
<1>1. Resting \in Reap
  BY LedgerAssumption DEF Resting, Reap, ReapPcs
<1>2. /\ reap' \in [Owners -> Reap] /\ reap'[p] = Resting
      /\ \A q \in Owners \ {p} : reap'[q] = reap[q]
  BY <1>1 DEF PassesFit, Rest
<1>3. ASSUME NEW q \in Owners
      PROVE  PassFits(reap'[q], drawn') /\ CalmPass(reap[q], reap'[q])
  <2>1. CASE q = p
    BY <1>2, <2>1 DEF PassFits, CalmPass, Resting, FromIndex
  <2>2. CASE q # p
    BY <1>2, <2>2 DEF PassesFit, PassFits, CalmPass
  <2> QED BY <2>1, <2>2
<1> QED BY <1>2, <1>3 DEF PassesFit, PassesCalm

LEMMA StopKeeps ==
  ASSUME ClusterInvariant, NEW p \in Owners, Stop(p)
  PROVE  RowsStay /\ ClusterInvariant'
<1> USE DEF ClusterInvariant
<1>1. drawn \subseteq drawn'
  BY DEF Stop, ledgerVars
<1>2. ServersFit' /\ ServersCalm
  <2> DEFINE cells == [r \in Runs |-> Idle]
  <2>1. cells \in [Runs -> Exec]
    BY IdleFits
  <2>2. \A r \in Runs :
          \/ cells[r] = Idle
          \/ /\ cells[r].pc = exec[p][r].pc /\ cells[r].token = exec[p][r].token
             /\ cells[r].gen = exec[p][r].gen /\ cells[r].out = exec[p][r].out
             /\ cells[r].own = "none"
    OBVIOUS
  <2>3. exec' = [exec EXCEPT ![p] = cells]
    BY DEF Stop
  <2>4. ServersFit
    OBVIOUS
  <2> HIDE DEF cells, ClusterInvariant
  <2> QED BY <1>1, <2>1, <2>2, <2>3, <2>4, RowCalm
<1>3. PassesFit' /\ PassesCalm
  BY <1>1, PassesEnd DEF Stop, Rest
<1>4. BackendFits' /\ BackendCalm /\ ReservationIndexed'
  BY <1>1, BackendRests DEF Stop, liveVars
<1> QED BY <1>2, <1>3, <1>4, BackendStep DEF Stop

LEMMA ShutdownKeeps ==
  ASSUME ClusterInvariant, NEW p \in Owners, Shutdown(p)
  PROVE  RowsStay /\ ClusterInvariant'
<1> USE DEF ClusterInvariant
<1>1. drawn \subseteq drawn'
  BY DEF Shutdown, ledgerVars
<1>2. ServersFit' /\ ServersCalm
  <2> DEFINE cells == [r \in Runs |-> IF exec[p][r].pc \in {"parked", "stuck"} THEN Idle
                                      ELSE [exec[p][r] EXCEPT !.own = "none", !.renew = FALSE]]
  <2>1. ASSUME NEW r \in Runs
        PROVE  /\ cells[r] \in Exec
               /\ \/ cells[r] = Idle
                  \/ /\ cells[r].pc = exec[p][r].pc /\ cells[r].token = exec[p][r].token
                     /\ cells[r].gen = exec[p][r].gen /\ cells[r].out = exec[p][r].out
                     /\ cells[r].own = "none"
    <3> DEFINE e == [exec[p][r] EXCEPT !.own = "none", !.renew = FALSE]
    <3>1. exec[p][r] \in Exec
      BY DEF ServersFit
    <3>2. /\ e \in Exec /\ e.pc = exec[p][r].pc /\ e.token = exec[p][r].token
          /\ e.gen = exec[p][r].gen /\ e.out = exec[p][r].out /\ e.own = "none"
      BY <3>1 DEF Exec
    <3>3. cells[r] = Idle \/ cells[r] = e
      OBVIOUS
    <3> HIDE DEF e, cells
    <3> QED BY <3>2, <3>3, IdleFits
  <2>2. exec' = [exec EXCEPT ![p] = cells]
    BY DEF Shutdown
  <2>3. cells \in [Runs -> Exec]
    BY <2>1
  <2>4. ServersFit
    OBVIOUS
  <2> HIDE DEF cells, ClusterInvariant
  <2> QED BY <1>1, <2>1, <2>2, <2>3, <2>4, RowCalm
<1>3. PassesFit' /\ PassesCalm
  BY <1>1, PassesEnd DEF Shutdown, Rest
<1>4. BackendFits' /\ BackendCalm /\ ReservationIndexed'
  <2>1. PICK owned \in SUBSET Runs :
          /\ ref' = [r \in Runs |-> IF r \in owned THEN 0 ELSE ref[r]]
          /\ index' = {e \in index : ~(e.run \in owned /\ e.token = Tok(p, e.run))}
    BY DEF Shutdown
  <2>2. /\ ref' \in [Runs -> 0..MaxToken] /\ \A r \in Runs : ref'[r] \in {0, ref[r]}
        /\ index' \subseteq index
        /\ \A e \in index : e.run \in Runs /\ ref'[e.run] # 0 => e \in index'
    BY <2>1, LedgerAssumption DEF BackendFits
  <2>3. generation' \in Generations
    BY DEF Shutdown, BackendFits
  <2> QED BY <2>2, <2>3, ReservationsGo DEF Shutdown
<1> QED BY <1>2, <1>3, <1>4, BackendStep DEF Shutdown

-----------------------------------------------------------------------------
(* Passes of a reaper that draw, reclaim and reserve nothing               *)

LEMMA PassMoves ==
  ASSUME PassesFit, NEW p \in Owners, NEW x \in Reap, reap' = [reap EXCEPT ![p] = x],
         drawn \subseteq drawn', PassFits(x, drawn')
  PROVE  /\ PassesFit'
         /\ CalmPass(reap[p], x) => PassesCalm
         /\ reap'[p] = x
         /\ \A q \in Owners \ {p} : reap'[q] = reap[q]
<1>1. /\ reap' \in [Owners -> Reap] /\ reap'[p] = x
      /\ \A q \in Owners \ {p} : reap'[q] = reap[q]
  BY DEF PassesFit
<1>2. \A q \in Owners : PassFits(reap'[q], drawn')
  BY <1>1 DEF PassesFit, PassFits
<1>3. CalmPass(reap[p], x) => PassesCalm
  BY <1>1 DEF PassesCalm, CalmPass
<1> QED BY <1>1, <1>2, <1>3 DEF PassesFit

LEMMA PassGoes ==
  ASSUME PassesFit, NEW p \in Owners, NEW pc \in ReapPcs \ {"idle", "sweep", "reclaim", "rereserve"},
         NEW prev \in 0..MaxToken, drawn \subseteq drawn', reap[p].pc \notin {"idle", "sweep"},
         pc \in FromIndex => reap[p].indexed,
         reap' = [reap EXCEPT ![p] = [reap[p] EXCEPT !.pc = pc, !.prev = prev]]
  PROVE  PassesFit' /\ PassesCalm
<1> DEFINE x == [reap[p] EXCEPT !.pc = pc, !.prev = prev]
<1>1. reap[p] \in Reap /\ PassFits(reap[p], drawn)
  BY DEF PassesFit
<1>2. /\ x \in Reap /\ x.pc = pc /\ x.run = reap[p].run /\ x.token = reap[p].token
      /\ x.indexed = reap[p].indexed /\ reap' = [reap EXCEPT ![p] = x]
  BY <1>1 DEF Reap
<1> HIDE DEF x
<1>3. PassFits(x, drawn') /\ CalmPass(reap[p], x)
  BY <1>1, <1>2 DEF PassFits, CalmPass
<1> QED BY <1>2, <1>3, PassMoves

LEMMA PassTurns ==
  ASSUME PassesFit, NEW p \in Owners, NEW pc \in ReapPcs \ {"idle", "sweep", "reclaim", "rereserve"},
         drawn \subseteq drawn', reap[p].pc \notin {"idle", "sweep"},
         pc \in FromIndex => reap[p].indexed, Pass(p, pc)
  PROVE  PassesFit' /\ PassesCalm
<1>1. reap \in [Owners -> Reap] /\ reap[p] \in Reap
  BY DEF PassesFit
<1>2. /\ reap[p].prev \in 0..MaxToken
      /\ [reap[p] EXCEPT !.pc = pc] = [reap[p] EXCEPT !.pc = pc, !.prev = reap[p].prev]
  BY <1>1 DEF Reap
<1>3. reap' = [reap EXCEPT ![p] = [reap[p] EXCEPT !.pc = pc, !.prev = reap[p].prev]]
  BY <1>1, <1>2 DEF Pass
<1> QED BY <1>2, <1>3, PassGoes

\* A step of a reaper that leaves the fence and the backend alone.
LEMMA ReaperStep ==
  ASSUME ClusterInvariant, RowsStay, ServersFit', ServersCalm, PassesFit', PassesCalm,
         FenceCalm, UNCHANGED <<generation, ref, index, started>>
  PROVE  ClusterInvariant'
<1>2. BackendFits' /\ BackendCalm /\ ReservationIndexed'
  BY BackendRests DEF ClusterInvariant, RowsStay
<1>3. fence <= fence' /\ FenceInvariant'
  BY FenceKept DEF ClusterInvariant, FenceInvariant, FenceCalm
<1>4. StartInvariant'
  BY StartKept, ServersCalmFollow DEF ClusterInvariant
<1> QED BY <1>2, <1>3, <1>4, CalmStep

LEMMA JudgeKeeps ==
  ASSUME ClusterInvariant, NEW p \in Owners, Judge(p)
  PROVE  RowsStay /\ ClusterInvariant'
<1> USE DEF ClusterInvariant
<1>1. RowsStay /\ FenceCalm /\ reap[p].pc = "judge"
  BY IdleStays, FenceRests DEF Judge, historyVars, Reaping
<1>2. ServersFit' /\ ServersCalm
  BY <1>1, ServersRest DEF RowsStay, Judge
<1>3. PassesFit' /\ PassesCalm
  <2>1. PICK pc \in {"recover", "condemn"} : Pass(p, pc)
    BY DEF Judge
  <2>2. reap[p].indexed
    BY <1>1 DEF PassesFit, PassFits, FromIndex
  <2>3. pc \in ReapPcs \ {"idle", "sweep", "reclaim", "rereserve"}
    BY DEF ReapPcs
  <2> QED BY <1>1, <2>1, <2>2, <2>3, PassTurns DEF RowsStay
<1> QED BY <1>1, <1>2, <1>3, ReaperStep DEF Judge, liveVars, historyVars

LEMMA RecoverKeeps ==
  ASSUME ClusterInvariant, NEW p \in Owners, Recover(p)
  PROVE  RowsStay /\ ClusterInvariant'
<1> USE DEF ClusterInvariant
<1> DEFINE r == reap[p].run
<1>1. RowsStay /\ FenceCalm /\ reap[p].pc = "recover"
  BY IdleStays, FenceRests DEF Recover, historyVars, Reaping
<1>2. /\ drawn \subseteq drawn' /\ reap[p].indexed /\ r \in Runs
      /\ {"condemn", "drop", "redraw"} \subseteq ReapPcs \ {"idle", "sweep", "reclaim", "rereserve"}
      /\ exec \in [Owners -> [Runs -> Exec]] /\ rows[r].token \in 0..MaxToken
  BY <1>1 DEF RowsStay, PassesFit, PassFits, FromIndex, ReapPcs, ServersFit,
              LedgerInvariant, TypeOK, Row
<1>3. PassesFit' /\ PassesCalm
  <2>1. CASE Rest(p)
    BY <1>2, <2>1, PassesEnd
  <2>2. CASE Pass(p, "condemn") \/ Pass(p, "drop")
    BY <1>1, <1>2, <2>2, PassTurns
  <2>3. CASE reap' = [reap EXCEPT ![p] = [@ EXCEPT !.pc = "redraw", !.prev = rows[r].token]]
    BY <1>1, <1>2, <2>3, PassGoes
  <2> QED BY <2>1, <2>2, <2>3 DEF Recover
<1>4. ServersFit' /\ ServersCalm
  <2>1. CASE UNCHANGED exec
    BY <1>2, <2>1, ServersRest
  <2>2. CASE exec' = [exec EXCEPT ![p][r] = IF @.pc = "parked" THEN Idle
                                            ELSE [@ EXCEPT !.own = "none", !.renew = FALSE]]
    <3>1. CASE exec[p][r].pc = "parked"
      <4>1. Forget(p, r)
        BY <2>2, <3>1 DEF Forget
      <4> QED BY <1>2, <4>1, ForgetCalm
    <3>2. CASE exec[p][r].pc # "parked"
      <4>1. exec' = [exec EXCEPT ![p][r] = [exec[p][r] EXCEPT !.own = "none", !.renew = FALSE]]
        BY <2>2, <3>2
      <4> QED BY <1>2, <4>1, LeaseCalm
    <3> QED BY <3>1, <3>2
  <2> QED BY <2>1, <2>2 DEF Recover
<1> QED BY <1>1, <1>3, <1>4, ReaperStep DEF Recover, liveVars, historyVars

LEMMA CondemnKeeps ==
  ASSUME ClusterInvariant, NEW p \in Owners, Condemn(p)
  PROVE  RowsStay /\ ClusterInvariant'
<1> USE DEF ClusterInvariant
<1>1. /\ reap[p].pc = "condemn" /\ reap[p].run \in Runs /\ reap[p].token \in 0..MaxToken
      /\ "lost" \in TerminalStates /\ "drop" \in ReapPcs \ {"idle", "sweep", "reclaim", "rereserve"}
  BY DEF Condemn, Reaping, PassesFit, PassFits, Reap, TerminalStates, ReapPcs
<1>2. RowsStay
  BY <1>1, IdleStays, FinalizeStays DEF Condemn, StoreFails
<1>3. drawn \subseteq drawn' /\ FenceCalm
  BY <1>2, FenceRests DEF RowsStay, Condemn
<1>4. ServersFit' /\ ServersCalm
  BY <1>3, ServersRest DEF Condemn
<1>5. PassesFit' /\ PassesCalm
  <2>1. CASE Rest(p)
    BY <1>3, <2>1, PassesEnd
  <2>2. CASE reap[p].indexed /\ Pass(p, "drop")
    BY <1>1, <1>3, <2>2, PassTurns
  <2> QED BY <2>1, <2>2 DEF Condemn
<1> QED BY <1>2, <1>3, <1>4, <1>5, ReaperStep DEF Condemn, liveVars

\* The member a pass removes is not that of a live reservation.
LEMMA DropKeeps ==
  ASSUME ClusterInvariant, NEW p \in Owners, Drop(p)
  PROVE  RowsStay /\ ClusterInvariant'
<1> USE DEF ClusterInvariant
<1> DEFINE r == reap[p].run
           t == reap[p].token
<1>1. /\ reap[p].pc = "drop" /\ reap[p].indexed /\ r \in Runs /\ [run |-> r, token |-> t] \in drawn
      /\ drawn \subseteq drawn'
  BY DEF Drop, Reaping, PassesFit, PassFits, FromIndex, ledgerVars
<1>2. t \in 1..MaxToken
  BY <1>1 DEF LedgerInvariant, TypeOK
<1>3. ref[r] # t
  BY <1>1, <1>2 DEF TokenInvariant, Candidate
<1>4. ServersFit' /\ ServersCalm /\ PassesFit' /\ PassesCalm
  BY <1>1, ServersRest, PassesEnd DEF Drop
<1>5. BackendFits' /\ BackendCalm
  BY <1>1 DEF Drop, Without, BackendFits, BackendCalm, Drawn
<1>6. ReservationIndexed'
  <2> SUFFICES ASSUME NEW s \in Runs, ref[s] # 0
               PROVE  Entry(s, ref[s], FALSE) \in Without(r, t)
    BY DEF ReservationIndexed, Entry, Drop
  <2>1. Entry(s, ref[s], FALSE) \in index
    BY DEF ReservationIndexed
  <2> QED BY <1>3, <2>1 DEF Without, Entry
<1> QED BY <1>4, <1>5, <1>6, BackendStep DEF Drop, historyVars

-----------------------------------------------------------------------------
(* The fence, the turn and the decision                                    *)

LEMMA FencedServerStep ==
  ASSUME ClusterInvariant, UNCHANGED <<ledgerVars, reap, generation, ref, index>>,
         ServersFit', ServersCalm, fence <= fence', FenceInvariant', StartInvariant'
  PROVE  RowsStay /\ ClusterInvariant'
<1>1. RowsStay
  BY IdleStays
<1>2. PassesFit' /\ PassesCalm
  BY <1>1, PassesRest DEF ClusterInvariant, RowsStay
<1>3. BackendFits' /\ BackendCalm /\ ReservationIndexed'
  BY <1>1, BackendRests DEF ClusterInvariant, RowsStay
<1> QED BY <1>1, <1>2, <1>3, CalmStep

\* The fence a server activates is that of a row, its own or a successor's.
LEMMA ActivateFenceKeeps ==
  ASSUME ClusterInvariant, NEW p \in Owners, NEW r \in Runs, ActivateFence(p, r)
  PROVE  RowsStay /\ ClusterInvariant'
<1> USE DEF ClusterInvariant
<1>1. RowsStay /\ exec[p][r].pc = "activate" /\ drawn \subseteq drawn'
  BY IdleStays DEF ActivateFence, At, ledgerVars
<1>2. CASE Goto(p, r, "abandon") /\ UNCHANGED <<fence, decision>>
  <2>1. ServersFit' /\ ServersCalm
    BY <1>1, <1>2, GotoCalm DEF ExecPcs, Starting, Reserving
  <2>2. FenceCalm
    BY <1>2, FenceRests DEF ActivateFence
  <2> QED BY <1>1, <2>1, <2>2, ServerStep DEF ActivateFence, liveVars
<1>3. CASE /\ fence <= Tok(p, r)
           /\ fence' = Tok(p, r)
           /\ decision' = IF fence < Tok(p, r) THEN [q \in Runs |-> 0] ELSE decision
           /\ Goto(p, r, "reserve")
  <2>1. ServersFit' /\ ServersCalm
    BY <1>1, <1>3, GotoCalm DEF ExecPcs, Starting, Reserving
  <2>2. Owned(rows[r], Tok(p, r), fence) /\ rows' = rows
    BY <1>1 DEF ClaimInvariant, ActivateFence, ledgerVars, Tok
  <2>3. Tok(p, r) \in Nat
    BY LedgerAssumption DEF ServersFit, Exec, Tok
  <2>4. FenceInvariant'
    BY <1>3, <2>2, <2>3 DEF FenceInvariant, Owned, ActivateFence
  <2>5. StartInvariant'
    BY <1>1, <2>1, StartKept, ServersCalmFollow DEF ActivateFence
  <2> QED BY <1>3, <2>1, <2>4, <2>5, FencedServerStep DEF ActivateFence, liveVars
<1> QED BY <1>2, <1>3 DEF ActivateFence

\* A turn is built once, by the one server that starts the run.
LEMMA BuildTurnKeeps ==
  ASSUME ClusterInvariant, NEW p \in Owners, NEW r \in Runs, BuildTurn(p, r)
  PROVE  RowsStay /\ ClusterInvariant'
<1> USE DEF ClusterInvariant
<1>1. RowsStay /\ exec[p][r].pc = "build" /\ drawn \subseteq drawn'
  BY IdleStays DEF BuildTurn, At, ledgerVars
<1>2. CASE /\ FencedWrite(Tok(p, r))
           /\ started' = [started EXCEPT ![r] = @ + 1]
           /\ Goto(p, r, "promote")
  <2>1. ServersFit' /\ ServersCalm
    BY <1>1, <1>2, GotoCalm DEF ExecPcs, Starting, Reserving
  <2>2. FenceCalm
    BY <1>2 DEF BuildTurn, FencedWrite, FenceCalm, FenceInvariant
  <2>3. FenceInvariant' /\ fence <= fence'
    BY <1>1, <2>2, FenceKept DEF FenceInvariant, FenceCalm
  <2>4. /\ started[r] = 0 /\ rows[r].state \notin {Absent, "accepted"}
        /\ \A q \in Owners : exec[q][r].pc \in Starting => q = p
    BY <1>1 DEF StartInvariant, ClaimInvariant, Owned, Starting
  <2>5. PICK e \in Exec : Becomes(p, r, e) /\ e.pc = "promote"
    BY <1>2, PlaceMoves DEF ExecPcs
  <2>6. exec'[p][r].pc = "promote" /\
        \A q \in Owners, s \in Runs : ~(q = p /\ s = r) => exec'[q][s] = exec[q][s]
    BY <2>5 DEF Becomes, ServersFit
  <2>7. started' \in [Runs -> {0, 1}] /\ \A s \in Runs \ {r} : started'[s] = started[s]
    BY <1>2, <2>4 DEF StartInvariant
  <2>8. rows' = rows
    BY DEF BuildTurn, ledgerVars
  <2>9. StartInvariant'
    BY <2>4, <2>6, <2>7, <2>8 DEF StartInvariant, Starting
  <2> QED BY <2>1, <2>3, <2>9, FencedServerStep DEF BuildTurn, liveVars
<1>3. CASE /\ exec' = [exec EXCEPT ![p][r] = [@ EXCEPT !.pc = "unwind", !.out = "failed"]]
           /\ UNCHANGED <<lastWrite, started>>
  <2>1. "unwind" \in ExecPcs \ ({"idle", "draw"} \cup Starting \cup Reserving) /\ "failed" \in TerminalStates
    BY DEF ExecPcs, Starting, Reserving, TerminalStates
  <2>2. ServersFit' /\ ServersCalm
    BY <1>1, <1>3, <2>1, OutcomeCalm
  <2>3. FenceCalm
    BY <1>3, FenceRests DEF BuildTurn
  <2> QED BY <1>1, <1>3, <2>2, <2>3, ServerStep DEF BuildTurn, liveVars
<1> QED BY <1>2, <1>3 DEF BuildTurn

\* Under the fence, the server that asks is the owner of the row.
LEMMA CreateDecisionKeeps ==
  ASSUME ClusterInvariant, NEW p \in Owners, NEW r \in Runs, CreateDecision(p, r)
  PROVE  RowsStay /\ ClusterInvariant'
<1> USE DEF ClusterInvariant
<1>1. RowsStay /\ exec[p][r].pc = "run" /\ drawn \subseteq drawn' /\ rows' = rows
  BY IdleStays DEF CreateDecision, At, ledgerVars
<1>2. ServersFit' /\ ServersCalm
  BY <1>1, GotoCalm DEF CreateDecision, ExecPcs, Starting, Reserving
<1>3. Tok(p, r) = rows[r].token /\ Tok(p, r) \in Nat
  <2>1. Owned(rows[r], Tok(p, r), fence) /\ fence = Tok(p, r) /\ fence \in Nat
    BY <1>1 DEF ClaimInvariant, CreateDecision, Tok, FenceInvariant
  <2>2. rows[r].token \in Nat
    BY RowTokens
  <2> QED BY <2>1, <2>2 DEF Owned
<1>4. FenceInvariant' /\ fence <= fence'
  BY <1>1, <1>3 DEF FenceInvariant, CreateDecision, historyVars
<1>5. StartInvariant'
  BY <1>1, <1>2, StartKept, ServersCalmFollow DEF CreateDecision, historyVars
<1> QED BY <1>2, <1>4, <1>5, FencedServerStep DEF CreateDecision, liveVars

-----------------------------------------------------------------------------
(* Tokens: drawn, found again by a reaper, and reserved                    *)

\* A new token is above every token drawn, reserved or indexed before.
LEMMA TokenIsNew ==
  ASSUME LedgerInvariant, NEW r \in Runs, NextFencingToken(r)
  PROVE  /\ RowsStay /\ rows' = rows
         /\ tokenSeq + 1 \in 1..MaxToken
         /\ [run |-> r, token |-> tokenSeq + 1] \in drawn'
         /\ \A d \in drawn : d.token # tokenSeq + 1
<1>1. Next
  BY DEF Next, TokenStep
<1>2. tokenSeq \in 0..MaxToken /\ \A d \in drawn : d.token <= tokenSeq /\ d.token \in Nat
  BY LedgerAssumption DEF LedgerInvariant, TypeOK, DrawnForRows
<1>3. RowsStay
  BY <1>1 DEF RowsStay, NextFencingToken, Fresh
<1> QED BY <1>2, <1>3, LedgerAssumption DEF NextFencingToken

\* Tokens that come were never seen: candidates that come have passed their deadline.
LEMMA TokensArrive ==
  ASSUME BackendFits, ServersFit, PassesFit, TokenInvariant, UNCHANGED <<ref, index>>,
         NEW n \in Nat, \A d \in drawn : d.token # n,
         NEW k0 \in Kinds, NEW p0 \in Owners, NEW r0 \in Runs,
         \A k \in Kinds, p \in Owners, r \in Runs, t \in 1..MaxToken :
           Coming(k, p, r, t)' =>
             Coming(k, p, r, t) \/ (k = k0 /\ p = p0 /\ r = r0 /\ t = n),
         \A p \in Owners, r \in Runs, t \in 1..MaxToken :
           Candidate(p, r, t)' => Candidate(p, r, t)
  PROVE  TokenInvariant'
<1>1. ASSUME NEW k \in Kinds, NEW p \in Owners, NEW r \in Runs, NEW t \in 1..MaxToken,
             Coming(k, p, r, t)
      PROVE  t # n
  <2>1. [run |-> r, token |-> t] \in drawn
    <3>1. CASE k = "claim"
      BY <1>1, <3>1 DEF Coming, ServersFit, ExecFits
    <3>2. CASE k # "claim"
      BY <1>1, <3>2 DEF Coming, PassesFit, PassFits
    <3> QED BY <3>1, <3>2
  <2> QED BY <2>1
<1>2. \A p \in Owners, r \in Runs, t \in 1..MaxToken : Candidate(p, r, t) => t # n
  BY DEF Candidate, PassesFit, PassFits
<1>3. \A r \in Runs : ref[r] = n => n = 0
  BY DEF BackendFits, Drawn
<1>4. \A e \in index : e.token # n
  BY DEF BackendFits, Drawn
<1>5. ASSUME NEW r \in Runs, NEW t \in 1..MaxToken, NEW k \in Kinds, NEW p \in Owners,
             Coming(k, p, r, t)'
      PROVE  /\ ref[r] # t
             /\ \A e \in index : ~(e.run = r /\ e.token = t)
             /\ \A q \in Owners : ~Candidate(q, r, t)'
             /\ \A l \in Kinds, q \in Owners : Coming(l, q, r, t)' => l = k /\ q = p
  <2>1. CASE t = n
    <3>1. \A l \in Kinds, q \in Owners : Coming(l, q, r, t)' => l = k0 /\ q = p0
      BY <1>1, <2>1
    <3> QED BY <1>2, <1>3, <1>4, <1>5, <2>1, <3>1
  <2>2. CASE t # n
    <3>1. \A l \in Kinds, q \in Owners : Coming(l, q, r, t)' => Coming(l, q, r, t)
      BY <2>2
    <3> QED BY <1>5, <3>1 DEF TokenInvariant
  <2> QED BY <2>1, <2>2
<1>6. /\ \A e \in index : e.expired => ref[e.run] # e.token
      /\ \A p \in Owners, r \in Runs, t \in 1..MaxToken : Candidate(p, r, t)' => ref[r] # t
  BY DEF TokenInvariant
<1> QED BY <1>5, <1>6 DEF TokenInvariant

LEMMA CandidatesArrive ==
  ASSUME BackendFits, TokenInvariant, UNCHANGED <<ref, index>>,
         \A k \in Kinds, p \in Owners, r \in Runs, t \in 1..MaxToken :
           Coming(k, p, r, t)' => Coming(k, p, r, t),
         \A p \in Owners, r \in Runs, t \in 1..MaxToken :
           Candidate(p, r, t)' => \/ Candidate(p, r, t)
                                  \/ \E e \in index : e.expired /\ e.run = r /\ e.token = t
  PROVE  TokenInvariant'
<1>1. ASSUME NEW r \in Runs, NEW t \in 1..MaxToken, NEW k \in Kinds, NEW p \in Owners,
             Coming(k, p, r, t)'
      PROVE  /\ ref[r] # t
             /\ \A e \in index : ~(e.run = r /\ e.token = t)
             /\ \A q \in Owners : ~Candidate(q, r, t)'
             /\ \A l \in Kinds, q \in Owners : Coming(l, q, r, t)' => l = k /\ q = p
  <2>1. Coming(k, p, r, t)
    BY <1>1
  <2>2. /\ ref[r] # t
        /\ \A e \in index : ~(e.run = r /\ e.token = t)
        /\ \A q \in Owners : ~Candidate(q, r, t)
        /\ \A l \in Kinds, q \in Owners : Coming(l, q, r, t) => l = k /\ q = p
    BY <2>1 DEF TokenInvariant
  <2> QED BY <2>2
<1>2. /\ \A e \in index : e.expired => ref[e.run] # e.token
      /\ \A p \in Owners, r \in Runs, t \in 1..MaxToken : Candidate(p, r, t)' => ref[r] # t
  BY DEF TokenInvariant
<1> QED BY <1>1, <1>2 DEF TokenInvariant

\* A token that was coming is reserved: no member, candidate or other server has it.
LEMMA TokenReserved ==
  ASSUME BackendFits, ReservationIndexed, TokenInvariant, NoneComes, drawn' = drawn,
         generation' = generation,
         NEW k0 \in Kinds, NEW p0 \in Owners, NEW r0 \in Runs, NEW t0 \in 1..MaxToken,
         Coming(k0, p0, r0, t0), ~Coming(k0, p0, r0, t0)', Drawn(r0, t0),
         ref' = [ref EXCEPT ![r0] = t0], index' = index \cup {Entry(r0, t0, FALSE)}
  PROVE  BackendFits' /\ ReservationIndexed' /\ TokenInvariant'
<1> DEFINE new == Entry(r0, t0, FALSE)
<1>1. /\ ref' \in [Runs -> 0..MaxToken] /\ ref'[r0] = t0
      /\ \A r \in Runs \ {r0} : ref'[r] = ref[r]
  BY DEF BackendFits
<1>2. /\ new.run = r0 /\ new.token = t0 /\ ~new.expired
      /\ new \in [run : Runs, token : 1..MaxToken, expired : BOOLEAN]
      /\ index' = index \cup {new}
  BY DEF Entry
<1>3. ReservationIndexed'
  BY <1>1, <1>2 DEF ReservationIndexed, Entry
<1> HIDE DEF new
<1>4. BackendFits'
  BY <1>1, <1>2 DEF BackendFits, Drawn
<1>5. /\ \A e \in index : ~(e.run = r0 /\ e.token = t0)
      /\ \A q \in Owners : ~Candidate(q, r0, t0)
      /\ \A l \in Kinds, q \in Owners : Coming(l, q, r0, t0) => l = k0 /\ q = p0
  BY DEF TokenInvariant
<1>6. ASSUME NEW r \in Runs, NEW t \in 1..MaxToken, NEW k \in Kinds, NEW p \in Owners,
             Coming(k, p, r, t)'
      PROVE  /\ ref'[r] # t
             /\ \A e \in index' : ~(e.run = r /\ e.token = t)
             /\ \A q \in Owners : ~Candidate(q, r, t)'
             /\ \A l \in Kinds, q \in Owners : Coming(l, q, r, t)' => l = k /\ q = p
  <2>1. Coming(k, p, r, t)
    BY <1>6 DEF NoneComes
  <2>2. /\ ref[r] # t
        /\ \A e \in index : ~(e.run = r /\ e.token = t)
        /\ \A q \in Owners : ~Candidate(q, r, t)
        /\ \A l \in Kinds, q \in Owners : Coming(l, q, r, t) => l = k /\ q = p
    BY <2>1 DEF TokenInvariant
  <2>3. ~(r = r0 /\ t = t0)
    BY <1>5, <1>6, <2>1
  <2>4. /\ \A q \in Owners : ~Candidate(q, r, t)'
        /\ \A l \in Kinds, q \in Owners : Coming(l, q, r, t)' => l = k /\ q = p
    BY <2>2 DEF NoneComes
  <2> QED BY <1>1, <1>2, <2>2, <2>3, <2>4
<1>7. ASSUME NEW e \in index', e.expired
      PROVE  ref'[e.run] # e.token
  <2>1. e \in index /\ e.run \in Runs
    BY <1>2, <1>7 DEF BackendFits
  <2> QED BY <1>1, <1>5, <1>7, <2>1 DEF TokenInvariant
<1>8. ASSUME NEW p \in Owners, NEW r \in Runs, NEW t \in 1..MaxToken, Candidate(p, r, t)'
      PROVE  ref'[r] # t
  <2>1. Candidate(p, r, t)
    BY <1>8 DEF NoneComes
  <2> QED BY <1>1, <1>5, <2>1 DEF TokenInvariant
<1> QED BY <1>3, <1>4, <1>6, <1>7, <1>8 DEF TokenInvariant

-----------------------------------------------------------------------------
(* The steps that draw, claim and reserve                                  *)

LEMMA DrawTokenKeeps ==
  ASSUME ClusterInvariant, NEW p \in Owners, NEW r \in Runs, DrawToken(p, r)
  PROVE  [Next]_ledgerVars /\ ClusterInvariant'
<1> USE DEF ClusterInvariant
<1>1. exec[p][r] \in Exec /\ exec[p][r].pc = "draw" /\ FenceCalm
  BY FenceRests DEF DrawToken, At, ServersFit
<1>2. CASE StoreFails /\ Forget(p, r)
  <2>1. RowsStay
    BY <1>2, IdleStays DEF StoreFails
  <2>2. ServersFit' /\ ServersCalm
    BY <1>2, <2>1, ForgetCalm DEF RowsStay
  <2> QED BY <1>1, <2>1, <2>2, ServerStep DEF DrawToken, liveVars, RowsStay
<1>3. CASE /\ NextFencingToken(r)
           /\ exec' = [exec EXCEPT ![p][r] = [@ EXCEPT !.pc = "claim",
                                                !.token = tokenSeq + 1, !.gen = generation]]
  <2> DEFINE n == tokenSeq + 1
             e == [exec[p][r] EXCEPT !.pc = "claim", !.token = n, !.gen = generation]
  <2>1. /\ RowsStay /\ n \in 1..MaxToken /\ [run |-> r, token |-> n] \in drawn'
        /\ \A d \in drawn : d.token # n
    BY <1>3, TokenIsNew
  <2>2. generation \in Generations
    BY DEF BackendFits
  <2>3. e \in Exec /\ Becomes(p, r, e) /\ e.pc = "claim" /\ e.token = n /\ e.gen \in Generations
    <3>1. Becomes(p, r, e)
      BY <1>3 DEF Becomes
    <3>2. n \in 0..MaxToken
      BY <2>1
    <3> HIDE DEF n
    <3>3. /\ e \in Exec /\ e.pc = "claim" /\ e.token = n /\ e.gen = generation
      BY <1>1, <2>2, <3>2 DEF Exec, ExecPcs
    <3> QED BY <2>2, <3>1, <3>3
  <2> HIDE DEF e
  <2>4. ExecFits(e, r, drawn')
    BY <2>1, <2>3 DEF ExecFits
  <2>5. /\ ServersFit' /\ exec'[p][r] = e
        /\ \A q \in Owners, s \in Runs : ~(q = p /\ s = r) => exec'[q][s] = exec[q][s]
    BY <2>1, <2>3, <2>4, CellMoves DEF RowsStay
  <2>6. PassesFit' /\ PassesCalm
    BY <2>1, PassesRest DEF RowsStay, DrawToken
  <2>7. BackendFits' /\ BackendCalm /\ ReservationIndexed'
    BY <2>1, BackendRests DEF RowsStay, DrawToken, liveVars
  <2>8. ServersFollow
    BY <1>1, <2>3, <2>5 DEF ServersFollow, Unclaimed, Starting
  <2>9. FenceInvariant' /\ StartInvariant'
    BY <1>1, <2>1, <2>8, FenceKept, StartKept DEF DrawToken
  <2>10. ClaimInvariant'
    BY <2>1, <2>6, <2>8, PassesCalmFollow, ClaimsKept DEF FenceInvariant, DrawToken
  <2>11. TokenInvariant'
    <3>1. ASSUME NEW k \in Kinds, NEW q \in Owners, NEW s \in Runs, NEW t \in 1..MaxToken,
                 Coming(k, q, s, t)'
          PROVE  Coming(k, q, s, t) \/ (k = "claim" /\ q = p /\ s = r /\ t = n)
      BY <2>3, <2>5, <3>1 DEF Coming, DrawToken
    <3>2. \A q \in Owners, s \in Runs, t \in 1..MaxToken : Candidate(q, s, t)' => Candidate(q, s, t)
      BY DEF Candidate, DrawToken
    <3>3. "claim" \in Kinds /\ n \in Nat /\ UNCHANGED <<ref, index>>
      BY <2>1 DEF Kinds, DrawToken, liveVars
    <3> HIDE DEF n
    <3> QED BY <2>1, <3>1, <3>2, <3>3, TokensArrive
  <2>12. LedgerInvariant'
    BY <2>1, NextPreserves DEF RowsStay
  <2> QED BY <2>1, <2>5, <2>6, <2>7, <2>9, <2>10, <2>11, <2>12 DEF RowsStay
<1> QED BY <1>2, <1>3 DEF DrawToken

\* The claimed row was accepted, so nobody was past a claim of it.
LEMMA ClaimRunKeeps ==
  ASSUME ClusterInvariant, NEW p \in Owners, NEW r \in Runs, ClaimRun(p, r)
  PROVE  [Next]_ledgerVars /\ ClusterInvariant'
<1> USE DEF ClusterInvariant
<1>1. exec[p][r] \in Exec /\ exec[p][r].pc = "claim" /\ FenceCalm
  BY FenceRests DEF ClaimRun, At, ServersFit, historyVars
<1>2. CASE Forget(p, r) /\ UNCHANGED ledgerVars
  <2>1. RowsStay
    BY <1>2, IdleStays
  <2>2. ServersFit' /\ ServersCalm
    BY <1>2, <2>1, ForgetCalm DEF RowsStay
  <2> QED BY <1>1, <2>1, <2>2, ServerStep DEF ClaimRun, liveVars, historyVars, RowsStay
<1>3. CASE Claim(r, p, Tok(p, r), exec[p][r].gen) /\ Goto(p, r, "activate")
  <2> DEFINE t == Tok(p, r)
  <2>1. /\ [run |-> r, token |-> t] \in drawn /\ t \in 1..MaxToken
        /\ exec[p][r].gen \in Generations
    BY <1>1 DEF ServersFit, ExecFits, Tok, LedgerInvariant, TypeOK
  <2>2. Next
    BY <1>3, <2>1 DEF Next, ClaimStep
  <2>3. LedgerInvariant'
    BY <2>2, NextPreserves
  <2>4. rows \in [Runs -> Row] /\ rows[r].state = "accepted" /\ rows[r].token = 0
    BY <1>3 DEF LedgerInvariant, TypeOK, Claim, ClaimApplies
  <2>5. /\ rows'[r].state = "running" /\ rows'[r].token = t
        /\ \A s \in Runs \ {r} : rows'[s] = rows[s]
        /\ drawn' = drawn
    BY <1>3, <2>4 DEF Claim, Row
  <2>6. PICK e \in Exec : Becomes(p, r, e) /\ e.pc = "activate" /\ e.token = t
    BY <1>3, PlaceMoves DEF ExecPcs, Tok
  <2>7. ExecFits(e, r, drawn')
    BY <2>1, <2>5, <2>6 DEF ExecFits
  <2>8. /\ ServersFit' /\ exec'[p][r] = e
        /\ \A q \in Owners, s \in Runs : ~(q = p /\ s = r) => exec'[q][s] = exec[q][s]
    BY <2>5, <2>6, <2>7, CellMoves
  <2>9. PassesFit' /\ PassesCalm
    BY <2>5, PassesRest DEF ClaimRun
  <2>10. BackendFits' /\ BackendCalm /\ ReservationIndexed'
    BY <2>5, BackendRests DEF ClaimRun, liveVars
  <2>11. /\ \A q \in Owners : exec[q][r].pc \in {"idle", "draw", "claim"}
         /\ \A q \in Owners : reap[q].pc = "rereserve" => reap[q].run # r
    BY <2>4 DEF ClaimInvariant, Owned
  <2>12. t \in Nat /\ fence' = fence /\ reap' = reap
    BY <2>1 DEF ClaimRun
  <2> HIDE DEF t
  <2>13. ClaimInvariant'
    <3>1. ASSUME NEW q \in Owners, NEW s \in Runs, exec'[q][s].pc \notin {"idle", "draw", "claim"}
          PROVE  Owned(rows'[s], exec'[q][s].token, fence')
      <4>1. CASE q = p /\ s = r
        BY <2>5, <2>6, <2>8, <2>12, <4>1 DEF Owned, Absent
      <4>2. CASE ~(q = p /\ s = r)
        BY <2>5, <2>8, <2>11, <2>12, <3>1, <4>2 DEF ClaimInvariant
      <4> QED BY <4>1, <4>2
    <3>2. ASSUME NEW q \in Owners, reap'[q].pc = "rereserve"
          PROVE  Owned(rows'[reap'[q].run], reap'[q].next, fence')
      <4>1. reap[q].run \in Runs \ {r}
        BY <2>11, <2>12, <3>2 DEF PassesFit, PassFits
      <4> QED BY <2>5, <2>12, <3>2, <4>1 DEF ClaimInvariant
    <3> QED BY <3>1, <3>2 DEF ClaimInvariant
  <2>14. FenceInvariant'
    <3>1. \A s \in Runs : rows[s].token \in Nat /\ rows'[s].token \in Nat /\ rows[s].token <= rows'[s].token
      BY <2>4, <2>5, <2>12, RowTokens
    <3>2. UNCHANGED <<fence, lastWrite, decision>> /\ decision[r] = 0
      BY <2>4 DEF ClaimRun, historyVars, FenceInvariant
    <3> QED BY <2>5, <3>1, <3>2 DEF FenceInvariant
  <2>15. StartInvariant'
    <3>1. started' = started /\ started[r] = 0
      BY <2>4 DEF ClaimRun, historyVars, StartInvariant
    <3> QED BY <2>5, <2>6, <2>8, <2>11, <3>1 DEF StartInvariant, Starting
  <2>16. TokenInvariant'
    <3>1. NoneComes
      BY <1>1, <2>6, <2>8, <2>12 DEF NoneComes, Coming, Candidate, Tok, t
    <3> QED BY <2>10, <3>1, TokensKept
  <2> QED BY <2>2, <2>3, <2>8, <2>9, <2>10, <2>13, <2>14, <2>15, <2>16
<1> QED BY <1>2, <1>3 DEF ClaimRun

LEMMA ReserveRunKeeps ==
  ASSUME ClusterInvariant, NEW p \in Owners, NEW r \in Runs, ReserveRun(p, r)
  PROVE  RowsStay /\ ClusterInvariant'
<1> USE DEF ClusterInvariant
<1>1. /\ RowsStay /\ FenceCalm /\ exec[p][r] \in Exec /\ exec[p][r].pc = "reserve"
      /\ drawn' = drawn
  BY IdleStays, FenceRests DEF ReserveRun, At, ServersFit, historyVars, ledgerVars
<1>2. CASE Goto(p, r, "abandon") /\ UNCHANGED liveVars
  <2>1. ServersFit' /\ ServersCalm
    BY <1>1, <1>2, GotoCalm DEF ExecPcs, Starting, Reserving
  <2> QED BY <1>1, <1>2, <2>1, ServerStep DEF ReserveRun, liveVars, historyVars
<1>3. CASE /\ Reserve(r, Tok(p, r), "admitting")
           /\ exec' = [exec EXCEPT ![p][r] = [@ EXCEPT !.pc = "confirm", !.own = "held"]]
           /\ UNCHANGED <<generation, leader>>
  <2> DEFINE e == [exec[p][r] EXCEPT !.pc = "confirm", !.own = "held"]
  <2>1. /\ e \in Exec /\ Becomes(p, r, e) /\ e.pc = "confirm" /\ e.token = exec[p][r].token
        /\ e.gen = exec[p][r].gen /\ e.out = exec[p][r].out
    BY <1>1, <1>3 DEF Becomes, Exec, ExecPcs, Tok
  <2> HIDE DEF e
  <2>2. ServersFit' /\ ServersCalm
    BY <1>1, <2>1, CellCalm DEF Starting, Reserving, Tok
  <2>3. PassesFit' /\ PassesCalm
    BY <1>1, PassesRest DEF ReserveRun
  <2>4. PICK t \in 1..MaxToken : t = Tok(p, r) /\ [run |-> r, token |-> t] \in drawn
    <3>1. [run |-> r, token |-> Tok(p, r)] \in drawn
      BY <1>1 DEF ServersFit, ExecFits, Tok
    <3> QED BY <3>1 DEF LedgerInvariant, TypeOK
  <2>5. exec'[p][r] = e
    BY <2>1 DEF Becomes, ServersFit
  <2>6. NoneComes
    BY <2>2, <2>3, CalmNoneComes
  <2>7. "claim" \in Kinds /\ Coming("claim", p, r, t) /\ ~Coming("claim", p, r, t)'
    BY <1>1, <2>1, <2>4, <2>5 DEF Kinds, Coming, Tok
  <2>8. BackendFits' /\ ReservationIndexed' /\ TokenInvariant'
    BY <1>1, <1>3, <2>4, <2>6, <2>7, TokenReserved DEF Reserve, Drawn
  <2>9. fence <= fence' /\ FenceInvariant'
    BY <1>1, FenceKept DEF FenceInvariant, FenceCalm
  <2>10. StartInvariant'
    BY <1>1, <2>2, StartKept, ServersCalmFollow DEF ReserveRun, historyVars
  <2>11. ClaimInvariant'
    BY <1>1, <2>2, <2>3, <2>9, ClaimsKept, ServersCalmFollow, PassesCalmFollow DEF FenceInvariant
  <2>12. LedgerInvariant'
    BY <1>1, NextPreserves DEF RowsStay
  <2> QED BY <1>1, <2>2, <2>3, <2>8, <2>9, <2>10, <2>11, <2>12
<1> QED BY <1>2, <1>3 DEF ReserveRun

-----------------------------------------------------------------------------
(* The passes that take a candidate, draw, reclaim and reserve             *)

\* A pass that is given a candidate, from the lease index only when it says so, or that
\* begins a sweep: it draws, recovers and reserves nothing.
LEMMA StartKeeps ==
  ASSUME ClusterInvariant, NEW p \in Owners, NEW x \in Reap, Start(p, x),
         UNCHANGED <<ledgerVars, fence, decision, ref, index, generation, exec, started, lastWrite>>,
         x.pc \in {"judge", "condemn", "sweep"}, PassFits(x, drawn),
         x.indexed => \E e \in index : e.expired /\ e.run = x.run /\ e.token = x.token
  PROVE  RowsStay /\ ClusterInvariant'
<1> USE DEF ClusterInvariant
<1>1. RowsStay /\ FenceCalm /\ drawn' = drawn
  BY IdleStays, FenceRests DEF ledgerVars
<1>2. ServersFit' /\ ServersCalm
  BY <1>1, ServersRest
<1>3. BackendFits' /\ BackendCalm /\ ReservationIndexed'
  BY <1>1, BackendRests
<1>6. /\ PassesFit' /\ reap'[p] = x
      /\ \A q \in Owners \ {p} : reap'[q] = reap[q]
  BY <1>1, PassMoves DEF Start
<1>7. PassesFollow
  BY <1>6 DEF PassesFollow
<1>8. FenceInvariant' /\ StartInvariant' /\ ClaimInvariant'
  BY <1>1, <1>2, <1>7, FenceKept, StartKept, ClaimsKept, ServersCalmFollow DEF FenceInvariant
<1>9. TokenInvariant'
  <2>1. ASSUME NEW k \in Kinds, NEW q \in Owners, NEW s \in Runs, NEW u \in 1..MaxToken,
               Coming(k, q, s, u)'
        PROVE  Coming(k, q, s, u)
    BY <1>6, <2>1 DEF Coming
  <2>2. ASSUME NEW q \in Owners, NEW s \in Runs, NEW u \in 1..MaxToken, Candidate(q, s, u)'
        PROVE  \/ Candidate(q, s, u)
               \/ \E e \in index : e.expired /\ e.run = s /\ e.token = u
    BY <1>6, <2>2 DEF Candidate
  <2> QED BY <2>1, <2>2, CandidatesArrive
<1>10. LedgerInvariant'
  BY <1>1, NextPreserves DEF RowsStay
<1> QED BY <1>1, <1>2, <1>3, <1>6, <1>8, <1>9, <1>10

\* The records such a pass begins with.
LEMMA JudgingFits ==
  ASSUME NEW r \in Runs, NEW t \in 0..MaxToken, [run |-> r, token |-> t] \in drawn
  PROVE  LET x == Taking(r, t, "judge", TRUE) IN
           /\ x \in Reap /\ PassFits(x, drawn)
           /\ x.pc = "judge" /\ x.run = r /\ x.token = t /\ x.indexed
<1> DEFINE x == Taking(r, t, "judge", TRUE)
<1>1. Resting \in Reap
  BY LedgerAssumption DEF Resting, Reap, ReapPcs
<1>2. x \in Reap /\ x.pc = "judge" /\ x.run = r /\ x.token = t /\ x.indexed
  BY <1>1 DEF Taking, Reap, ReapPcs
<1> HIDE DEF x
<1>3. PassFits(x, drawn)
  BY <1>2 DEF PassFits, FromIndex
<1> QED BY <1>2, <1>3 DEF x

LEMMA CondemningFits ==
  ASSUME NEW r \in Runs, NEW t \in 0..MaxToken
  PROVE  LET x == Taking(r, t, "condemn", FALSE) IN
           /\ x \in Reap /\ PassFits(x, drawn)
           /\ x.pc = "condemn" /\ x.run = r /\ x.token = t /\ ~x.indexed
<1> DEFINE x == Taking(r, t, "condemn", FALSE)
<1>1. Resting \in Reap
  BY LedgerAssumption DEF Resting, Reap, ReapPcs
<1>2. x \in Reap /\ x.pc = "condemn" /\ x.run = r /\ x.token = t /\ ~x.indexed
  BY <1>1 DEF Taking, Reap, ReapPcs
<1> HIDE DEF x
<1>3. PassFits(x, drawn)
  BY <1>2 DEF PassFits, FromIndex
<1> QED BY <1>2, <1>3 DEF x

Sweeping(g) == [Resting EXCEPT !.pc = "sweep", !.gen = g]

LEMMA SweepFits ==
  ASSUME NEW g \in Generations
  PROVE  /\ Sweeping(g) \in Reap /\ PassFits(Sweeping(g), drawn)
         /\ Sweeping(g).pc = "sweep" /\ ~Sweeping(g).indexed /\ Sweeping(g).token = 0
         /\ Sweeping(g).gen = g
<1>1. Resting \in Reap /\ Resting.token = 0 /\ ~Resting.indexed
  BY LedgerAssumption DEF Resting, Reap, ReapPcs
<1> DEFINE x == Sweeping(g)
<1>2. x \in Reap /\ x.pc = "sweep" /\ ~x.indexed /\ x.token = 0 /\ x.gen = g
  BY <1>1 DEF Sweeping, Reap, ReapPcs
<1> HIDE DEF x
<1>3. PassFits(x, drawn)
  BY <1>2 DEF PassFits, FromIndex
<1> QED BY <1>2, <1>3 DEF x

LEMMA ScanStepKeeps ==
  ASSUME ClusterInvariant, NEW p \in Owners, ScanStep(p)
  PROVE  RowsStay /\ ClusterInvariant'
<1> USE DEF ClusterInvariant
<1>1. ASSUME NEW e \in index, ScanExpired(p, e)
      PROVE  RowsStay /\ ClusterInvariant'
  <2>1. /\ e.run \in Runs /\ e.token \in 0..MaxToken
        /\ [run |-> e.run, token |-> e.token] \in drawn
    BY LedgerAssumption DEF BackendFits, Drawn
  <2> DEFINE x == Taking(e.run, e.token, "judge", TRUE)
  <2>2. e.expired /\ BeginPass(p, x)
    BY <1>1 DEF ScanExpired
  <2>3. /\ x \in Reap /\ PassFits(x, drawn) /\ x.pc = "judge"
        /\ x.run = e.run /\ x.token = e.token
    BY <2>1, JudgingFits
  <2> HIDE DEF x
  <2> QED BY <2>2, <2>3, StartKeeps DEF BeginPass
<1>2. ASSUME NEW r \in Runs, ScanOrphaned(p, r)
      PROVE  RowsStay /\ ClusterInvariant'
  <2> DEFINE x == Taking(r, rows[r].token, "condemn", FALSE)
  <2>1. rows[r].token \in 0..MaxToken
    BY DEF LedgerInvariant, TypeOK, Row
  <2>2. BeginPass(p, x)
    BY <1>2 DEF ScanOrphaned
  <2>3. x \in Reap /\ PassFits(x, drawn) /\ x.pc = "condemn" /\ ~x.indexed
    BY <2>1, CondemningFits
  <2> HIDE DEF x
  <2> QED BY <2>2, <2>3, StartKeeps DEF BeginPass
<1>3. CASE RefreshGeneration(p)
  <2>1. BeginPass(p, Sweeping(generation)) /\ generation \in Generations
    BY <1>3 DEF RefreshGeneration, Sweeping, BackendFits
  <2> QED BY <2>1, SweepFits, StartKeeps DEF BeginPass
<1> QED BY <1>1, <1>2, <1>3 DEF ScanStep

LEMMA ListStaleKeeps ==
  ASSUME ClusterInvariant, NEW p \in Owners, ListStale(p)
  PROVE  RowsStay /\ ClusterInvariant'
<1>1. ASSUME NEW r \in Runs, Start(p, Taking(r, rows[r].token, "condemn", FALSE))
      PROVE  RowsStay /\ ClusterInvariant'
  <2> DEFINE x == Taking(r, rows[r].token, "condemn", FALSE)
  <2>1. rows[r].token \in 0..MaxToken
    BY DEF ClusterInvariant, LedgerInvariant, TypeOK, Row
  <2>2. Start(p, x) /\ x \in Reap /\ PassFits(x, drawn) /\ x.pc = "condemn" /\ ~x.indexed
    BY <1>1, <2>1, CondemningFits
  <2> HIDE DEF x
  <2> QED BY <2>2, StartKeeps DEF ListStale, liveVars, historyVars
<1>2. CASE Rest(p)
  <2>1. RowsStay /\ FenceCalm /\ drawn \subseteq drawn'
    BY IdleStays, FenceRests DEF ListStale, ledgerVars, historyVars
  <2>2. ServersFit' /\ ServersCalm /\ PassesFit' /\ PassesCalm
    BY <1>2, <2>1, ServersRest, PassesEnd DEF ListStale, ClusterInvariant
  <2> QED BY <2>1, <2>2, ReaperStep DEF ListStale, liveVars, historyVars
<1> QED BY <1>1, <1>2 DEF ListStale

LEMMA RedrawKeeps ==
  ASSUME ClusterInvariant, NEW p \in Owners, Redraw(p)
  PROVE  [Next]_ledgerVars /\ ClusterInvariant'
<1> USE DEF ClusterInvariant
<1> DEFINE r == reap[p].run
           n == tokenSeq + 1
           x == [reap[p] EXCEPT !.pc = "reclaim", !.next = n, !.gen = generation]
<1>1. /\ reap[p] \in Reap /\ reap[p].pc = "redraw" /\ reap[p].indexed /\ r \in Runs
      /\ [run |-> r, token |-> reap[p].token] \in drawn
      /\ NextFencingToken(r) /\ generation \in Generations
      /\ UNCHANGED <<exec, generation, ref, index, fence, decision, lastWrite, started>>
  BY DEF Redraw, Reaping, PassesFit, PassFits, FromIndex, BackendFits, liveVars, historyVars
<1>2. /\ RowsStay /\ n \in 1..MaxToken /\ [run |-> r, token |-> n] \in drawn'
      /\ \A d \in drawn : d.token # n
  BY <1>1, TokenIsNew
<1>3. FenceCalm /\ drawn \subseteq drawn'
  BY <1>1, <1>2, FenceRests DEF RowsStay
<1>4. /\ x \in Reap /\ x.pc = "reclaim" /\ x.run = r /\ x.token = reap[p].token
      /\ x.indexed /\ x.next = n /\ x.gen \in Generations
      /\ reap' = [reap EXCEPT ![p] = x]
  <2>1. reap' = [reap EXCEPT ![p] = x]
    BY DEF Redraw
  <2>2. n \in 0..MaxToken
    BY <1>2
  <2> HIDE DEF n
  <2>3. /\ x \in Reap /\ x.pc = "reclaim" /\ x.run = r /\ x.token = reap[p].token
        /\ x.indexed = reap[p].indexed /\ x.next = n /\ x.gen = generation
    BY <1>1, <2>2 DEF Reap, ReapPcs
  <2> QED BY <1>1, <2>1, <2>3
<1> HIDE DEF x
<1>5. PassFits(x, drawn')
  BY <1>1, <1>2, <1>3, <1>4 DEF PassFits, FromIndex
<1>6. /\ PassesFit' /\ reap'[p] = x
      /\ \A q \in Owners \ {p} : reap'[q] = reap[q]
  BY <1>3, <1>4, <1>5, PassMoves
<1>7. ServersFit' /\ ServersCalm
  BY <1>1, <1>3, ServersRest
<1>8. BackendFits' /\ BackendCalm /\ ReservationIndexed'
  BY <1>1, <1>3, BackendRests
<1>9. PassesFollow
  BY <1>4, <1>6 DEF PassesFollow
<1>10. FenceInvariant' /\ StartInvariant' /\ ClaimInvariant'
  BY <1>1, <1>2, <1>3, <1>7, <1>9, FenceKept, StartKept, ClaimsKept, ServersCalmFollow
     DEF FenceInvariant
<1>11. TokenInvariant'
  <2>1. ASSUME NEW k \in Kinds, NEW q \in Owners, NEW s \in Runs, NEW t \in 1..MaxToken,
               Coming(k, q, s, t)'
        PROVE  Coming(k, q, s, t) \/ (k = "reclaim" /\ q = p /\ s = r /\ t = n)
    BY <1>1, <1>4, <1>6, <2>1 DEF Coming, Kinds
  <2>2. ASSUME NEW q \in Owners, NEW s \in Runs, NEW t \in 1..MaxToken, Candidate(q, s, t)'
        PROVE  Candidate(q, s, t)
    BY <1>1, <1>4, <1>6, <2>2 DEF Candidate
  <2>3. "reclaim" \in Kinds /\ n \in Nat
    BY <1>2 DEF Kinds
  <2>4. r \in Runs /\ UNCHANGED <<ref, index>> /\ \A d \in drawn : d.token # n
    BY <1>1, <1>2
  <2> HIDE DEF n, r
  <2> QED BY <2>1, <2>2, <2>3, <2>4, TokensArrive
<1>12. LedgerInvariant'
  BY <1>2, NextPreserves DEF RowsStay
<1> QED BY <1>2, <1>6, <1>7, <1>8, <1>10, <1>11, <1>12 DEF RowsStay

\* The reclaimed row, its decision and the fence move to the token together.
LEMMA ReclaimKeeps ==
  ASSUME ClusterInvariant, NEW p \in Owners, Reclaim(p)
  PROVE  [Next]_ledgerVars /\ ClusterInvariant'
<1> USE DEF ClusterInvariant
<1> DEFINE r == reap[p].run
           prev == reap[p].prev
           next == reap[p].next
<1>1. /\ reap[p] \in Reap /\ reap[p].pc = "reclaim" /\ reap[p].indexed /\ r \in Runs
      /\ [run |-> r, token |-> reap[p].token] \in drawn
      /\ [run |-> r, token |-> next] \in drawn /\ reap[p].gen \in Generations
      /\ UNCHANGED <<exec, generation, ref, index, lastWrite, started>>
  BY DEF Reclaim, Reaping, PassesFit, PassFits, FromIndex, liveVars, historyVars
<1>2. next \in 1..MaxToken /\ next \in Nat /\ prev \in 0..MaxToken
  BY <1>1 DEF LedgerInvariant, TypeOK, Reap
<1>3. CASE Rest(p) /\ UNCHANGED <<ledgerVars, fence, decision>>
  <2>1. RowsStay /\ FenceCalm /\ drawn \subseteq drawn'
    BY <1>1, <1>3, IdleStays, FenceRests DEF ledgerVars
  <2>2. ServersFit' /\ ServersCalm /\ PassesFit' /\ PassesCalm
    BY <1>1, <1>3, <2>1, ServersRest, PassesEnd
  <2> QED BY <1>1, <2>1, <2>2, ReaperStep DEF RowsStay
<1>4. CASE /\ fence < next /\ decision[r] \in 1..next
           /\ ReclaimWaitingDecision(r, p, prev, next, reap[p].gen)
           /\ fence' = next
           /\ decision' = [q \in Runs |-> IF q = r THEN next ELSE 0]
           /\ Pass(p, "rereserve")
  <2> DEFINE x == [reap[p] EXCEPT !.pc = "rereserve"]
  <2>1. Next
    BY <1>1, <1>2, <1>4 DEF Next, ReclaimStep
  <2>2. LedgerInvariant'
    BY <2>1, NextPreserves
  <2>3. /\ rows \in [Runs -> Row] /\ rows[r].state = "waiting_decision"
        /\ rows[r].token < next /\ drawn' = drawn
        /\ \A s \in Runs : rows[s].token \in Nat
    BY <1>4, RowTokens DEF LedgerInvariant, TypeOK, ReclaimWaitingDecision, ReclaimApplies
  <2>4. /\ rows'[r].state = "waiting_decision" /\ rows'[r].token = next
        /\ \A s \in Runs \ {r} : rows'[s] = rows[s]
    BY <1>1, <1>4, <2>3 DEF ReclaimWaitingDecision, Row
  <2>5. /\ x \in Reap /\ x.pc = "rereserve" /\ x.run = r /\ x.token = reap[p].token
        /\ x.indexed /\ x.next = next
        /\ reap' = [reap EXCEPT ![p] = x]
    BY <1>1, <1>4 DEF Pass, Reap, ReapPcs
  <2> HIDE DEF x
  <2>6. PassFits(x, drawn')
    BY <1>1, <2>3, <2>5 DEF PassFits, FromIndex
  <2>7. /\ PassesFit' /\ reap'[p] = x
        /\ \A q \in Owners \ {p} : reap'[q] = reap[q]
    BY <2>3, <2>5, <2>6, PassMoves
  <2>8. ServersFit' /\ ServersCalm
    BY <1>1, <2>3, ServersRest
  <2>9. BackendFits' /\ BackendCalm /\ ReservationIndexed'
    BY <1>1, <2>3, BackendRests
  <2>10. fence \in Nat /\ fence < fence' /\ fence' = next
    BY <1>4 DEF FenceInvariant
  <2>11. ASSUME NEW s \in Runs, NEW t \in Nat, Owned(rows[s], t, fence)
         PROVE  Owned(rows'[s], t, fence')
    <3>1. CASE s = r
      BY <1>2, <2>3, <2>4, <2>10, <2>11, <3>1 DEF Owned, Absent
    <3>2. CASE s # r
      BY <1>2, <2>3, <2>4, <2>10, <2>11, <3>2 DEF Owned
    <3> QED BY <3>1, <3>2
  <2>12. ClaimInvariant'
    <3>1. ASSUME NEW q \in Owners, NEW s \in Runs, exec'[q][s].pc \notin {"idle", "draw", "claim"}
          PROVE  Owned(rows'[s], exec'[q][s].token, fence')
      <4>1. exec[q][s].token \in Nat
        BY LedgerAssumption DEF ServersFit, Exec
      <4> QED BY <1>1, <2>11, <3>1, <4>1 DEF ClaimInvariant
    <3>2. ASSUME NEW q \in Owners, reap'[q].pc = "rereserve"
          PROVE  Owned(rows'[reap'[q].run], reap'[q].next, fence')
      <4>1. CASE q = p
        BY <1>2, <2>4, <2>5, <2>7, <2>10, <4>1 DEF Owned, Absent
      <4>2. CASE q # p
        <5>1. reap[q].next \in Nat /\ reap[q].run \in Runs /\ reap'[q] = reap[q]
          <6>1. reap'[q] = reap[q] /\ reap[q] \in Reap /\ PassFits(reap[q], drawn)
            BY <2>7, <4>2 DEF PassesFit
          <6>2. reap[q].next \in 0..MaxToken
            BY <6>1 DEF Reap
          <6>3. reap[q].run \in Runs
            BY <3>2, <6>1 DEF PassFits
          <6> QED BY <6>1, <6>2, <6>3, LedgerAssumption
        <5> QED BY <2>11, <3>2, <5>1 DEF ClaimInvariant
      <4> QED BY <4>1, <4>2
    <3> QED BY <3>1, <3>2 DEF ClaimInvariant
  <2>13. FenceInvariant'
    <3>1. decision' \in [Runs -> Nat] /\ \A s \in Runs : decision'[s] \in {0, rows'[s].token}
      BY <1>2, <1>4, <2>4
    <3> QED BY <1>1, <2>4, <2>10, <3>1, <1>2 DEF FenceInvariant
  <2>14. StartInvariant'
    <3>1. \A s \in Runs : rows'[s].state \in {Absent, "accepted"} => rows[s].state \in {Absent, "accepted"}
      BY <2>4 DEF Absent
    <3> QED BY <1>1, <3>1 DEF StartInvariant
  <2>15. TokenInvariant'
    <3>1. NoneComes
      BY <1>1, <2>5, <2>7 DEF NoneComes, Coming, Candidate
    <3> QED BY <2>9, <3>1, TokensKept
  <2> QED BY <2>1, <2>2, <2>7, <2>8, <2>9, <2>12, <2>13, <2>14, <2>15
<1>5. \/ Rest(p) /\ UNCHANGED <<ledgerVars, fence, decision>>
      \/ /\ fence < next /\ decision[r] \in 1..next
         /\ ReclaimWaitingDecision(r, p, prev, next, reap[p].gen)
         /\ fence' = next
         /\ decision' = [q \in Runs |-> IF q = r THEN next ELSE 0]
         /\ Pass(p, "rereserve")
  BY DEF Reclaim
<1> QED BY <1>3, <1>4, <1>5

LEMMA RereserveKeeps ==
  ASSUME ClusterInvariant, NEW p \in Owners, Rereserve(p)
  PROVE  RowsStay /\ ClusterInvariant'
<1> USE DEF ClusterInvariant
<1> DEFINE r == reap[p].run
<1>1. /\ reap[p] \in Reap /\ reap[p].pc = "rereserve" /\ reap[p].indexed /\ r \in Runs
      /\ [run |-> r, token |-> reap[p].token] \in drawn
      /\ [run |-> r, token |-> reap[p].next] \in drawn
      /\ UNCHANGED <<ledgerVars, fence, decision, generation, lastWrite, started>>
  BY DEF Rereserve, Reaping, PassesFit, PassFits, FromIndex, historyVars
<1>2. RowsStay /\ FenceCalm /\ drawn' = drawn /\ rows' = rows
  BY <1>1, IdleStays, FenceRests DEF ledgerVars
<1>3. CASE Rest(p) /\ UNCHANGED <<ref, index, exec>>
  <2>1. ServersFit' /\ ServersCalm /\ PassesFit' /\ PassesCalm
    BY <1>2, <1>3, ServersRest, PassesEnd
  <2> QED BY <1>1, <1>2, <1>3, <2>1, ReaperStep
<1>4. CASE /\ exec[p][r] = Idle
           /\ Reserve(r, reap[p].next, "waiting_decision")
           /\ exec' = [exec EXCEPT ![p][r] =
                [Idle EXCEPT !.pc = "parked", !.token = reap[p].next, !.own = "held",
                             !.renew = TRUE, !.asked = TRUE]]
           /\ Pass(p, "drop")
  <2>1. PICK t \in 1..MaxToken : t = reap[p].next /\ [run |-> r, token |-> t] \in drawn
    BY <1>1 DEF LedgerInvariant, TypeOK
  <2> DEFINE e == [Idle EXCEPT !.pc = "parked", !.token = t, !.own = "held", !.renew = TRUE,
                                 !.asked = TRUE]
             x == [reap[p] EXCEPT !.pc = "drop"]
  <2>2. e \in Exec /\ e.pc = "parked" /\ e.token = t /\ Becomes(p, r, e)
    <3>1. Becomes(p, r, e)
      BY <1>4, <2>1 DEF Becomes
    <3>2. t \in 0..MaxToken
      OBVIOUS
    <3> QED BY <3>1, <3>2, IdleFits DEF Exec, ExecPcs
  <2>3. /\ x \in Reap /\ x.pc = "drop" /\ x.run = r /\ x.token = reap[p].token /\ x.indexed
        /\ reap' = [reap EXCEPT ![p] = x]
    BY <1>1, <1>4 DEF Pass, Reap, ReapPcs
  <2> HIDE DEF e, x
  <2>4. ExecFits(e, r, drawn')
    BY <1>2, <2>1, <2>2 DEF ExecFits
  <2>5. /\ ServersFit' /\ exec'[p][r] = e
        /\ \A q \in Owners, s \in Runs : ~(q = p /\ s = r) => exec'[q][s] = exec[q][s]
    BY <1>1, <1>2, <2>2, <2>4, CellMoves
  <2>6. PassFits(x, drawn')
    BY <1>1, <1>2, <2>3 DEF PassFits, FromIndex
  <2>7. /\ PassesFit' /\ reap'[p] = x
        /\ \A q \in Owners \ {p} : reap'[q] = reap[q]
    BY <1>2, <2>3, <2>6, PassMoves
  <2>8. NoneComes
    <3>1. ASSUME NEW k \in Kinds, NEW q \in Owners, NEW s \in Runs, NEW u \in 1..MaxToken,
                 Coming(k, q, s, u)'
          PROVE  Coming(k, q, s, u)
      <4>1. CASE k = "claim"
        BY <2>2, <2>5, <3>1, <4>1 DEF Coming
      <4>2. CASE k # "claim"
        BY <2>3, <2>7, <3>1, <4>2 DEF Coming
      <4> QED BY <4>1, <4>2
    <3>2. ASSUME NEW q \in Owners, NEW s \in Runs, NEW u \in 1..MaxToken, Candidate(q, s, u)'
          PROVE  Candidate(q, s, u)
      BY <1>1, <2>3, <2>7, <3>2 DEF Candidate
    <3> QED BY <3>1, <3>2 DEF NoneComes
  <2>9. "reclaim" \in Kinds /\ Coming("reclaim", p, r, t) /\ ~Coming("reclaim", p, r, t)'
    BY <1>1, <2>1, <2>3, <2>7 DEF Kinds, Coming
  <2>10. BackendFits' /\ ReservationIndexed' /\ TokenInvariant'
    <3>1. PICK s \in Runs : s = r
      BY <1>1
    <3>2. /\ Coming("reclaim", p, s, t) /\ ~Coming("reclaim", p, s, t)' /\ Drawn(s, t)
          /\ ref' = [ref EXCEPT ![s] = t] /\ index' = index \cup {Entry(s, t, FALSE)}
      BY <1>1, <1>4, <2>1, <2>3, <2>7, <3>1 DEF Reserve, Drawn, Coming
    <3> QED BY <1>1, <1>2, <2>8, <2>9, <3>2, TokenReserved
  <2>11. FenceInvariant' /\ fence' = fence
    BY <1>1, <1>2, FenceKept
  <2>12. ClaimInvariant'
    <3>1. ASSUME NEW q \in Owners, NEW s \in Runs, exec'[q][s].pc \notin {"idle", "draw", "claim"}
          PROVE  Owned(rows'[s], exec'[q][s].token, fence')
      <4>1. CASE q = p /\ s = r
        BY <1>1, <1>2, <2>1, <2>2, <2>5, <2>11, <4>1 DEF ClaimInvariant
      <4>2. CASE ~(q = p /\ s = r)
        BY <1>2, <2>5, <2>11, <3>1, <4>2 DEF ClaimInvariant
      <4> QED BY <4>1, <4>2
    <3>2. ASSUME NEW q \in Owners, reap'[q].pc = "rereserve"
          PROVE  Owned(rows'[reap'[q].run], reap'[q].next, fence')
      BY <1>2, <2>3, <2>7, <2>11, <3>2 DEF ClaimInvariant
    <3> QED BY <3>1, <3>2 DEF ClaimInvariant
  <2>13. StartInvariant'
    BY <1>1, <1>2, <2>2, <2>5 DEF StartInvariant, Starting
  <2>14. LedgerInvariant'
    BY <1>2, NextPreserves DEF RowsStay
  <2> QED BY <1>2, <2>5, <2>7, <2>10, <2>11, <2>12, <2>13, <2>14
<1>5. \/ Rest(p) /\ UNCHANGED <<ref, index, exec>>
      \/ /\ exec[p][r] = Idle
         /\ Reserve(r, reap[p].next, "waiting_decision")
         /\ exec' = [exec EXCEPT ![p][r] =
              [Idle EXCEPT !.pc = "parked", !.token = reap[p].next, !.own = "held",
                           !.renew = TRUE, !.asked = TRUE]]
         /\ Pass(p, "drop")
  BY DEF Rereserve
<1> QED BY <1>3, <1>4, <1>5

-----------------------------------------------------------------------------
(* The invariant, and what follows from it                                 *)

LEMMA AdmissionStepKeeps ==
  ASSUME ClusterInvariant, NEW p \in Owners, NEW r \in Runs, AdmissionStep(p, r)
  PROVE  [Next]_ledgerVars /\ ClusterInvariant'
<1>1. CASE DrawToken(p, r) \/ ClaimRun(p, r)
  BY <1>1, DrawTokenKeeps, ClaimRunKeeps
<1>2. CASE ~(DrawToken(p, r) \/ ClaimRun(p, r))
  <2>1. RowsStay /\ ClusterInvariant'
    BY <1>2, RuntimeAssumption, AdmitRunKeeps, ActivateFenceKeeps, ReserveRunKeeps,
       ConfirmLeaseKeeps, BuildTurnKeeps, PromoteRunKeeps, UnwindAdmissionKeeps,
       AbandonClaimKeeps DEF AdmissionStep
  <2> QED BY <2>1 DEF RowsStay
<1> QED BY <1>1, <1>2

LEMMA ExecutionStepKeeps ==
  ASSUME ClusterInvariant, NEW p \in Owners, NEW r \in Runs, ExecutionStep(p, r)
  PROVE  [Next]_ledgerVars /\ ClusterInvariant'
<1>1. RowsStay /\ ClusterInvariant'
  BY WriteHistoryKeeps, CreateDecisionKeeps, ParkLedgerKeeps, ParkViewKeeps, EndEventKeeps,
     FinishUnnamedKeeps, FinishErroredKeeps, FinalizeRowKeeps, ReleaseSlotKeeps,
     AnswerDecisionKeeps, ResumeLedgerKeeps, ResumeViewKeeps DEF ExecutionStep
<1> QED BY <1>1 DEF RowsStay

LEMMA ReapStepKeeps ==
  ASSUME ClusterInvariant, NEW p \in Owners, ReapStep(p)
  PROVE  [Next]_ledgerVars /\ ClusterInvariant'
<1>1. CASE Redraw(p) \/ Reclaim(p)
  BY <1>1, RedrawKeeps, ReclaimKeeps
<1>2. CASE ~(Redraw(p) \/ Reclaim(p))
  <2>1. RowsStay /\ ClusterInvariant'
    BY <1>2, ScanStepKeeps, ListStaleKeeps, JudgeKeeps, RecoverKeeps, RereserveKeeps,
       CondemnKeeps, DropKeeps DEF ReapStep, PassStep
  <2> QED BY <2>1 DEF RowsStay
<1> QED BY <1>1, <1>2

LEMMA EnvironmentKeeps ==
  ASSUME ClusterInvariant, LeaseStep \/ FaultStep
  PROVE  [Next]_ledgerVars /\ ClusterInvariant'
<1>1. RowsStay /\ ClusterInvariant'
  <2>1. CASE LeaseStep
    BY <2>1, LoseOwnershipKeeps, LeaseExpiresKeeps, ObserveExpiredLeaseKeeps, LeaderExpiresKeeps
       DEF LeaseStep
  <2>2. CASE FaultStep
    BY <2>2, BackendLossKeeps, ShutdownKeeps, StopKeeps DEF FaultStep, Exit, Crash
  <2> QED BY <2>1, <2>2
<1> QED BY <1>1 DEF RowsStay

LEMMA RuntimeStepKeeps ==
  ASSUME ClusterInvariant, [RuntimeNext]_runtimeVars
  PROVE  [Next]_ledgerVars /\ ClusterInvariant'
<1>1. ASSUME NEW p \in Owners, NEW r \in Runs,
             AdmissionStep(p, r) \/ ExecutionStep(p, r) \/ AbortRun(p, r)
      PROVE  [Next]_ledgerVars /\ ClusterInvariant'
  BY <1>1, AdmissionStepKeeps, ExecutionStepKeeps, AbortRunKeeps DEF RowsStay
<1>2. ASSUME NEW r \in Runs, AbortIntent(r)
      PROVE  [Next]_ledgerVars /\ ClusterInvariant'
  BY <1>2, AbortIntentKeeps DEF RowsStay
<1>3. CASE UNCHANGED runtimeVars
  <2>1. UNCHANGED <<ledgerVars, fence, decision, started, lastWrite, exec, reap,
                    generation, ref, index>> /\ drawn' = drawn
    BY <1>3 DEF runtimeVars, ledgerVars
  <2>2. ServersFit' /\ ServersCalm /\ PassesFit' /\ PassesCalm
    BY <2>1, ServersRest, PassesRest DEF ClusterInvariant
  <2>3. BackendFits' /\ BackendCalm /\ ReservationIndexed'
    BY <2>1, BackendRests DEF ClusterInvariant
  <2> QED BY <2>1, <2>2, <2>3, BackendStep DEF RowsStay
<1> QED BY <1>1, <1>2, <1>3, ReapStepKeeps, EnvironmentKeeps DEF RuntimeNext

LEMMA RuntimeInitInvariant == RuntimeInit => ClusterInvariant
<1> SUFFICES ASSUME RuntimeInit PROVE ClusterInvariant
  OBVIOUS
<1>1. LedgerInvariant
  BY InitInvariant DEF RuntimeInit
<1>2. /\ exec \in [Owners -> [Runs -> Exec]]
      /\ \A p \in Owners, r \in Runs : exec[p][r] = Idle
  BY IdleFits DEF RuntimeInit
<1>3. ServersFit
  BY <1>2, IdleFits DEF ServersFit
<1>4. Resting \in Reap /\ \A p \in Owners : reap[p] = Resting
  BY LedgerAssumption DEF RuntimeInit, Resting, Reap, ReapPcs
<1>5. PassesFit
  BY <1>4 DEF RuntimeInit, PassesFit, PassFits, Resting, FromIndex
<1>6. BackendFits /\ ReservationIndexed
  BY RuntimeAssumption, LedgerAssumption DEF RuntimeInit, BackendFits, ReservationIndexed
<1>7. ClaimInvariant
  BY <1>2, <1>4 DEF ClaimInvariant, Idle, Resting
<1>8. FenceInvariant
  BY DEF RuntimeInit, FenceInvariant
<1>9. StartInvariant
  BY <1>2 DEF RuntimeInit, StartInvariant, Starting, Idle
<1>10. TokenInvariant
  <2>1. \A k \in Kinds, p \in Owners, r \in Runs, t \in 1..MaxToken : ~Coming(k, p, r, t)
    BY <1>2, <1>4 DEF Coming, Idle, Resting
  <2>2. \A p \in Owners, r \in Runs, t \in 1..MaxToken : ~Candidate(p, r, t)
    BY <1>4 DEF Candidate, Resting
  <2> QED BY <2>1, <2>2 DEF TokenInvariant, RuntimeInit
<1> QED BY <1>1, <1>3, <1>5, <1>6, <1>7, <1>8, <1>9, <1>10 DEF ClusterInvariant

(* Servers, reapers, leases and faults keep the invariant of the cluster.  *)
THEOREM ClusterIsInvariant == RuntimeSpec => []ClusterInvariant
<1>1. ClusterInvariant /\ [RuntimeNext]_runtimeVars => ClusterInvariant'
  BY RuntimeStepKeeps
<1> QED BY RuntimeInitInvariant, <1>1, PTL DEF RuntimeSpec

(* Every step of the deployed runtime is a statement the ledger's contract *)
(* allows, or none: the callers supply the tokens, states and generations  *)
(* the statements of store.go leave open.                                  *)
THEOREM RuntimeImplementsLedger == RuntimeSpec => LedgerContract
<1>1. RuntimeInit => Init
  BY DEF RuntimeInit
<1>2. ClusterInvariant /\ [RuntimeNext]_runtimeVars => [Next]_ledgerVars
  BY RuntimeStepKeeps
<1> QED BY <1>1, <1>2, ClusterIsInvariant, PTL DEF RuntimeSpec, LedgerContract, Spec

(* A claim that loses, an activation that comes late and a reclaim never   *)
(* raise the fence of the session above the token of a run in progress.    *)
THEOREM OwnersKeepTheFence == RuntimeSpec => []OwnerNotFencedOut
<1>1. ClusterInvariant => OwnerNotFencedOut
  <2> SUFFICES ASSUME ClusterInvariant, NEW r \in Runs,
                      rows[r].state \in {"running", "waiting_decision"}
               PROVE  fence <= rows[r].token
    BY DEF OwnerNotFencedOut
  <2>1. rows[r].token \in Nat /\ fence \in Nat
    BY RowTokens DEF ClusterInvariant, FenceInvariant
  <2>2. ASSUME NEW q \in Runs, fence <= rows[q].token, fence # 0, q # r
        PROVE  rows[q].token < rows[r].token
    <3>1. rows[q].token \in Nat /\ Exists(q) /\ Exists(r) /\ Active(r) /\ rows[r].token > 0
      BY <2>1, <2>2, RowTokens
         DEF ClusterInvariant, LedgerInvariant, TypeOK, Exists, Active, ActiveStates,
             Absent, Fresh
    <3>2. rows[q].session = rows[r].session
      BY <3>1, RuntimeAssumption DEF ClusterInvariant, LedgerInvariant, TypeOK
    <3>3. rows[q].position < rows[r].position
      BY <2>2, <3>1, <3>2 DEF ClusterInvariant, LedgerInvariant, ActiveIsNewest
    <3>4. [run |-> r, token |-> rows[r].token] \in drawn
      BY <3>1 DEF ClusterInvariant, LedgerInvariant, TokensAreDrawn, Drawn
    <3> QED BY <3>1, <3>2, <3>3, <3>4
            DEF ClusterInvariant, LedgerInvariant, DrawnFollowAdmission
  <2>3. CASE fence = 0
    BY <2>1, <2>3
  <2>4. CASE fence # 0
    <3>1. PICK q \in Runs : fence <= rows[q].token
      BY <2>4 DEF ClusterInvariant, FenceInvariant
    <3>2. rows[q].token \in Nat
      BY RowTokens DEF ClusterInvariant
    <3> QED BY <2>1, <2>2, <2>4, <3>1, <3>2
  <2> QED BY <2>3, <2>4
<1> QED BY <1>1, ClusterIsInvariant, PTL

(* No turn is built twice, by whatever servers admit, adopt or recover it. *)
THEOREM TurnsAreBuiltOnce == RuntimeSpec => []ExecutedOnce
<1>1. ClusterInvariant => ExecutedOnce
  BY DEF ClusterInvariant, StartInvariant, ExecutedOnce
<1> QED BY <1>1, ClusterIsInvariant, PTL

(* A pending decision carries the token that fences its run.               *)
THEOREM DecisionsFollowOwners == RuntimeSpec => []DecisionFollowsOwnership
<1>1. ClusterInvariant => DecisionFollowsOwnership
  BY DEF ClusterInvariant, FenceInvariant, DecisionFollowsOwnership
<1> QED BY <1>1, ClusterIsInvariant, PTL

(* Every reservation has its member in the lease index: what a reaper      *)
(* drops is never the member of a reservation that is still there.         *)
THEOREM ReservationsAreIndexed == RuntimeSpec => []ReservationIndexed
<1>1. ClusterInvariant => ReservationIndexed
  BY DEF ClusterInvariant
<1> QED BY <1>1, ClusterIsInvariant, PTL

-----------------------------------------------------------------------------
(* The order of the writes                                                 *)

LEMMA WritesCarryTheFence ==
  RuntimeNext => lastWrite' \in {lastWrite, fence}
<1> SUFFICES ASSUME RuntimeNext PROVE lastWrite' \in {lastWrite, fence}
  OBVIOUS
<1>1. ASSUME NEW p \in Owners, NEW r \in Runs, AdmissionStep(p, r)
      PROVE  lastWrite' \in {lastWrite, fence}
  BY <1>1 DEF AdmissionStep, AdmitRun, DrawToken, ClaimRun, ActivateFence, ReserveRun,
              ConfirmLease, BuildTurn, FencedWrite, PromoteRun, UnwindAdmission,
              AbandonClaim, historyVars
<1>2. ASSUME NEW p \in Owners, NEW r \in Runs, ExecutionStep(p, r)
      PROVE  lastWrite' \in {lastWrite, fence}
  BY <1>2 DEF ExecutionStep, WriteHistory, FencedWrite, CreateDecision, ParkLedger, ParkView,
              EndEvent, FinishUnnamed, FinishErrored, FinalizeRow, ReleaseSlot,
              AnswerDecision, ResumeLedger, ResumeView, historyVars
<1>3. ASSUME NEW p \in Owners, ReapStep(p)
      PROVE  lastWrite' = lastWrite
  BY <1>3 DEF ReapStep, ScanStep, ScanExpired, ScanOrphaned, RefreshGeneration, BeginPass,
              PassStep, ListStale, Judge, Recover, Redraw, Reclaim, Rereserve, Condemn, Drop,
              historyVars
<1>4. CASE LeaseStep \/ FaultStep
  BY <1>4 DEF LeaseStep, LoseOwnership, LeaseExpires, ObserveExpiredLease, LeaderExpires,
              FaultStep, BackendLoss, Shutdown, Exit, Crash, Stop, historyVars
<1>5. ASSUME NEW p \in Owners, NEW r \in Runs, AbortRun(p, r)
      PROVE  lastWrite' = lastWrite
  BY <1>5 DEF AbortRun
<1>6. ASSUME NEW r \in Runs, AbortIntent(r)
      PROVE  lastWrite' = lastWrite
  BY <1>6 DEF AbortIntent, historyVars
<1> QED BY <1>1, <1>2, <1>3, <1>4, <1>5, <1>6 DEF RuntimeNext

(* Once a successor has written to the session's history, no earlier       *)
(* ownership writes again: a write carries the fence, which never falls.   *)
THEOREM WritesAreOrdered == RuntimeSpec => WritesFollowTokens
<1>1. ClusterInvariant /\ [RuntimeNext]_runtimeVars => [lastWrite' >= lastWrite]_runtimeVars
  BY WritesCarryTheFence DEF ClusterInvariant, FenceInvariant
<1> QED BY <1>1, ClusterIsInvariant, PTL DEF RuntimeSpec, WritesFollowTokens

-----------------------------------------------------------------------------
(* Reservations follow the rows                                            *)

\* The places of a server whose turn has been built, and of a pass that recovers.
Executing  == {"promote", "run", "asking", "ask", "end", "parked", "resuming", "resumed"}
Recovering == {"redraw", "reclaim", "rereserve"}

\* Only a built turn parks, so the row of a claim that is not reserved yet waits for
\* nothing that could be reclaimed; what is reserved was claimed.
BuiltInvariant ==
  /\ \A r \in Runs :
       /\ rows[r].state = "waiting_decision" => started[r] = 1
       /\ ref[r] # 0 => ~Fresh(r)
       /\ \A p \in Owners :
            /\ exec[p][r].pc \in Executing => started[r] = 1
            /\ exec[p][r].pc \in {"activate", "reserve"} => rows[r].token = exec[p][r].token
  /\ \A p \in Owners : reap[p].pc \in Recovering => started[reap[p].run] = 1

\* What most steps do to a server: it goes on with the run it holds, and does not
\* claim or execute unless it did; or it lets go.
Claimed   == {"activate", "reserve"}
Onward(e, e2) ==
  \/ e2.pc \in {"idle", "draw"}
  \/ /\ e.pc \notin {"idle", "draw"} /\ e2.token = e.token
     /\ e2.pc = "claim" <=> e.pc = "claim"
     /\ e2.pc = "claim" => e2.gen = e.gen
     /\ e2.pc \in Claimed => e.pc \in Claimed
     /\ e2.pc \in Executing => e.pc \in Executing
     /\ e.pc = "release" => e2.pc = "release"
CellsOnward == \A p \in Owners, r \in Runs : Onward(exec[p][r], exec'[p][r])

\* A pass goes on with its candidate and what it recovers, or rests.
Recovers(x, x2) ==
  x2.pc \in Recovering => /\ x.pc = x2.pc /\ x2.run = x.run
                          /\ x2.prev = x.prev /\ x2.next = x.next /\ x2.gen = x.gen
PassOnward(x, x2) ==
  \/ x2.pc = "idle"
  \/ /\ x.pc # "idle" /\ x2.run = x.run /\ x2.token = x.token /\ x2.indexed = x.indexed
     /\ Recovers(x, x2) /\ (x2.pc = "sweep" => x.pc = "sweep" /\ x2.gen = x.gen)
PassesOnward  == \A p \in Owners : PassOnward(reap[p], reap'[p])
RecoveriesGoOn == \A p \in Owners : Recovers(reap[p], reap'[p])

\* A row begins to wait only when its turn has been built.
NoneWaits == \A r \in Runs : rows'[r].state = "waiting_decision" =>
                               rows[r].state = "waiting_decision" \/ started[r] = 1

LEMMA BuiltKept ==
  ASSUME BuiltInvariant, RowsStay, NoneWaits, CellsOnward, RecoveriesGoOn,
         started' = started, \A r \in Runs : ref'[r] \in {0, ref[r]}
  PROVE  BuiltInvariant'
<1>1. ASSUME NEW r \in Runs
      PROVE  /\ rows'[r].state = "waiting_decision" => started'[r] = 1
             /\ ref'[r] # 0 => ~Fresh(r)'
  BY <1>1 DEF BuiltInvariant, NoneWaits, RowsStay
<1>2. ASSUME NEW r \in Runs, NEW p \in Owners
      PROVE  /\ exec'[p][r].pc \in Executing => started'[r] = 1
             /\ exec'[p][r].pc \in {"activate", "reserve"} => rows'[r].token = exec'[p][r].token
  <2>1. Onward(exec[p][r], exec'[p][r]) /\ rows'[r].token = rows[r].token
    BY DEF CellsOnward, RowsStay
  <2> QED BY <2>1 DEF BuiltInvariant, Onward, Claimed, Executing
<1>3. ASSUME NEW p \in Owners
      PROVE  reap'[p].pc \in Recovering => started'[reap'[p].run] = 1
  BY <1>3 DEF BuiltInvariant, RecoveriesGoOn, Recovers, Recovering
<1> QED BY <1>1, <1>2, <1>3 DEF BuiltInvariant

-----------------------------------------------------------------------------
(* The steps that only go on                                               *)

LEMMA CellsRest == exec' = exec => CellsOnward
BY DEF CellsOnward, Onward

LEMMA PassesRestOnward == reap' = reap => PassesOnward
BY DEF PassesOnward, PassOnward, Recovers

LEMMA OnwardRecovers == PassesOnward => RecoveriesGoOn
BY DEF PassesOnward, PassOnward, RecoveriesGoOn, Recovers, Recovering

LEMMA CellOnward ==
  ASSUME ServersFit, NEW p \in Owners, NEW r \in Runs, NEW e,
         Becomes(p, r, e), Onward(exec[p][r], e)
  PROVE  /\ CellsOnward
         /\ exec'[p][r] = e
         /\ \A q \in Owners, s \in Runs : ~(q = p /\ s = r) => exec'[q][s] = exec[q][s]
BY DEF ServersFit, CellsOnward, Onward, Becomes

\* A server remembers all but its place.
LEMMA GotoOnward ==
  ASSUME ServersFit, NEW p \in Owners, NEW r \in Runs, NEW pc, Goto(p, r, pc),
         exec[p][r].pc \notin {"idle", "draw", "claim", "release"},
         pc # "claim",
         pc \in Claimed => exec[p][r].pc \in Claimed,
         pc \in Executing => exec[p][r].pc \in Executing
  PROVE  /\ CellsOnward
         /\ exec'[p][r].pc = pc /\ exec'[p][r].token = exec[p][r].token
         /\ exec'[p][r].out = exec[p][r].out
         /\ \A q \in Owners, s \in Runs : ~(q = p /\ s = r) => exec'[q][s] = exec[q][s]
<1>1. exec[p][r] \in Exec
  BY DEF ServersFit
<1>2. PICK e : e = [exec[p][r] EXCEPT !.pc = pc]
  OBVIOUS
<1>3. e.pc = pc /\ e.token = exec[p][r].token /\ e.out = exec[p][r].out
  BY <1>1, <1>2 DEF Exec
<1>4. Onward(exec[p][r], e)
  BY <1>3 DEF Onward
<1>5. Becomes(p, r, e)
  BY <1>2 DEF Goto, Becomes
<1>6. /\ CellsOnward /\ exec'[p][r] = e
      /\ \A q \in Owners, s \in Runs : ~(q = p /\ s = r) => exec'[q][s] = exec[q][s]
  BY <1>4, <1>5, CellOnward
<1> QED BY <1>3, <1>6

LEMMA ForgetOnward ==
  ASSUME ServersFit, NEW p \in Owners, NEW r \in Runs, Forget(p, r)
  PROVE  /\ CellsOnward
         /\ exec'[p][r] = Idle
         /\ \A q \in Owners, s \in Runs : ~(q = p /\ s = r) => exec'[q][s] = exec[q][s]
<1>1. Onward(exec[p][r], Idle)
  BY DEF Onward, Idle
<1> QED BY <1>1, CellOnward DEF Forget, Becomes

LEMMA LeaveOnward ==
  ASSUME ServersFit, NEW p \in Owners, NEW r \in Runs, LeaveControl(p, r),
         exec[p][r].pc \notin {"idle", "draw", "claim", "release"}
  PROVE  /\ CellsOnward
         /\ exec'[p][r].pc \in {"idle", "stuck"}
         /\ \A q \in Owners, s \in Runs : ~(q = p /\ s = r) => exec'[q][s] = exec[q][s]
<1>1. CASE exec[p][r].own = "held" /\ exec[p][r].renew
  <2>1. Goto(p, r, "stuck")
    BY <1>1 DEF LeaveControl, Goto, ServersFit, Exec
  <2> QED BY <2>1, GotoOnward DEF Claimed, Executing
<1>2. CASE ~(exec[p][r].own = "held" /\ exec[p][r].renew)
  <2>1. Forget(p, r)
    BY <1>2 DEF LeaveControl, Forget
  <2> QED BY <2>1, ForgetOnward DEF Idle
<1> QED BY <1>1, <1>2

LEMMA FinishOnward ==
  ASSUME ServersFit, NEW p \in Owners, NEW r \in Runs, NEW out, FinishAs(p, r, out),
         exec[p][r].pc \notin {"idle", "draw", "claim", "release"}
  PROVE  /\ CellsOnward
         /\ exec'[p][r].pc = "idle" \/ (exec'[p][r].pc = "finish" /\ exec'[p][r].out = out)
         /\ \A q \in Owners, s \in Runs : ~(q = p /\ s = r) => exec'[q][s] = exec[q][s]
<1>1. CASE exec[p][r].own = "lost"
  <2>1. Forget(p, r)
    BY <1>1 DEF FinishAs, Forget
  <2> QED BY <2>1, ForgetOnward DEF Idle
<1>2. CASE exec[p][r].own # "lost"
  <2>1. exec[p][r] \in Exec
    BY DEF ServersFit
  <2>2. PICK e : e = [exec[p][r] EXCEPT !.pc = "finish", !.out = out]
    OBVIOUS
  <2>3. e.pc = "finish" /\ e.token = exec[p][r].token /\ e.out = out
    BY <2>1, <2>2 DEF Exec
  <2>4. Onward(exec[p][r], e)
    BY <2>3 DEF Onward, Claimed, Executing
  <2>5. Becomes(p, r, e)
    BY <1>2, <2>2 DEF FinishAs, Becomes
  <2> QED BY <2>3, <2>4, <2>5, CellOnward
<1> QED BY <1>1, <1>2

LEMMA PublishOnward ==
  ASSUME ServersFit, NEW p \in Owners, NEW r \in Runs, PublishFails(p, r),
         exec[p][r].pc \in Executing
  PROVE  /\ CellsOnward
         /\ exec'[p][r].pc \in {"idle", "end"}
              \/ (exec'[p][r].pc = "finish" /\ exec'[p][r].out = "failed")
         /\ \A q \in Owners, s \in Runs : ~(q = p /\ s = r) => exec'[q][s] = exec[q][s]
<1>1. CASE Goto(p, r, "end")
  BY <1>1, GotoOnward DEF Claimed, Executing
<1>2. CASE FinishAs(p, r, "failed")
  BY <1>2, FinishOnward DEF Executing
<1> QED BY <1>1, <1>2 DEF PublishFails

\* A step that writes other fields of a server than its token.
LEMMA WriteOnward ==
  ASSUME ServersFit, NEW p \in Owners, NEW r \in Runs, NEW e, Becomes(p, r, e),
         exec[p][r].pc \notin {"idle", "draw", "claim", "release"}, e.token = exec[p][r].token,
         e.pc \notin {"claim", "activate", "reserve"}, e.pc \in Executing => exec[p][r].pc \in Executing
  PROVE  /\ CellsOnward /\ exec'[p][r] = e
         /\ \A q \in Owners, s \in Runs : ~(q = p /\ s = r) => exec'[q][s] = exec[q][s]
<1>1. Onward(exec[p][r], e)
  BY DEF Onward, Claimed
<1> QED BY <1>1, CellOnward

-----------------------------------------------------------------------------
(* Admission and execution, where they only go on                          *)

LEMMA AdmissionOnward ==
  ASSUME ServersFit, NEW p \in Owners, NEW r \in Runs,
         \/ AdmitRun(p, r) \/ ActivateFence(p, r) \/ ReserveRun(p, r) \/ ConfirmLease(p, r)
         \/ PromoteRun(p, r) \/ UnwindAdmission(p, r) \/ AbandonClaim(p, r)
  PROVE  CellsOnward /\ PassesOnward
<1> USE DEF Claimed, Executing
<1>0. PassesOnward
  BY PassesRestOnward DEF AdmitRun, ActivateFence, ReserveRun, ConfirmLease, PromoteRun,
                          UnwindAdmission, AbandonClaim
<1>1. exec[p][r] \in Exec
  BY DEF ServersFit
<1>2. CASE AdmitRun(p, r)
  <2>1. PICK e : e = [exec[p][r] EXCEPT !.pc = "draw"]
    OBVIOUS
  <2>2. Onward(exec[p][r], e) /\ Becomes(p, r, e)
    BY <1>1, <1>2, <2>1 DEF Onward, AdmitRun, Goto, Becomes, Exec
  <2> QED BY <1>0, <2>2, CellOnward
<1>3. CASE ActivateFence(p, r)
  <2>1. exec[p][r].pc = "activate" /\ (Goto(p, r, "abandon") \/ Goto(p, r, "reserve"))
    BY <1>3 DEF ActivateFence, At
  <2> QED BY <1>0, <2>1, GotoOnward
<1>4. CASE ReserveRun(p, r)
  <2>1. PICK e : e = [exec[p][r] EXCEPT !.pc = "confirm", !.own = "held"]
    OBVIOUS
  <2>2. e.pc = "confirm" /\ e.token = exec[p][r].token /\ exec[p][r].pc = "reserve"
    BY <1>1, <1>4, <2>1 DEF Exec, ReserveRun, At
  <2>3. Goto(p, r, "abandon") \/ Becomes(p, r, e)
    BY <1>4, <2>1 DEF ReserveRun, Becomes
  <2> QED BY <1>0, <2>2, <2>3, GotoOnward, WriteOnward
<1>5. CASE ConfirmLease(p, r)
  <2>1. \E e : /\ e \in {[exec[p][r] EXCEPT !.pc = "build", !.renew = TRUE],
                         [exec[p][r] EXCEPT !.pc = "abandon", !.own = "none"]}
               /\ Becomes(p, r, e)
    BY <1>5 DEF ConfirmLease, Becomes
  <2>2. PICK e : /\ e \in {[exec[p][r] EXCEPT !.pc = "build", !.renew = TRUE],
                           [exec[p][r] EXCEPT !.pc = "abandon", !.own = "none"]}
                 /\ Becomes(p, r, e)
    BY <2>1
  <2>3. e.pc \in {"build", "abandon"} /\ e.token = exec[p][r].token /\ exec[p][r].pc = "confirm"
    BY <1>1, <1>5, <2>2 DEF Exec, ConfirmLease, At
  <2> QED BY <1>0, <2>2, <2>3, WriteOnward
<1>6. CASE PromoteRun(p, r)
  <2>1. PICK e : e = [exec[p][r] EXCEPT !.pc = "unwind", !.out = "aborted"]
    OBVIOUS
  <2>2. e.pc = "unwind" /\ e.token = exec[p][r].token /\ exec[p][r].pc = "promote"
    BY <1>1, <1>6, <2>1 DEF Exec, PromoteRun, At
  <2>3. Goto(p, r, "run") \/ Goto(p, r, "abandon") \/ Becomes(p, r, e)
    BY <1>6, <2>1 DEF PromoteRun, Becomes
  <2> QED BY <1>0, <2>2, <2>3, GotoOnward, WriteOnward
<1>7. CASE UnwindAdmission(p, r)
  <2>1. PICK e : e = [exec[p][r] EXCEPT !.pc = "abandon", !.own = "none", !.renew = FALSE]
    OBVIOUS
  <2>2. e.pc = "abandon" /\ e.token = exec[p][r].token /\ exec[p][r].pc = "unwind"
    BY <1>1, <1>7, <2>1 DEF Exec, UnwindAdmission, At
  <2>3. Goto(p, r, "release") \/ Goto(p, r, "abandon") \/ Becomes(p, r, e)
    BY <1>7, <2>1 DEF UnwindAdmission, Becomes
  <2> QED BY <1>0, <2>2, <2>3, GotoOnward, WriteOnward
<1>8. CASE AbandonClaim(p, r)
  BY <1>0, <1>8, LeaveOnward DEF AbandonClaim, At
<1> QED BY <1>2, <1>3, <1>4, <1>5, <1>6, <1>7, <1>8

LEMMA ExecutionOnward ==
  ASSUME ServersFit, NEW p \in Owners, NEW r \in Runs, ExecutionStep(p, r)
  PROVE  CellsOnward /\ PassesOnward
<1> USE DEF Claimed, Executing
<1>0. PassesOnward
  BY PassesRestOnward DEF ExecutionStep, WriteHistory, CreateDecision, ParkLedger, ParkView,
       EndEvent, FinishUnnamed, FinishErrored, FinalizeRow, ReleaseSlot, AnswerDecision,
       ResumeLedger, ResumeView, serverVars
<1>1. CASE WriteHistory(p, r)
  BY <1>0, <1>1, CellsRest DEF WriteHistory, serverVars
<1>2. CASE CreateDecision(p, r) \/ AnswerDecision(p, r)
  BY <1>0, <1>2, GotoOnward DEF CreateDecision, AnswerDecision, At
<1>3. CASE ParkLedger(p, r)
  <2>1. exec[p][r].pc = "asking" /\ (Goto(p, r, "ask") \/ PublishFails(p, r))
    BY <1>3 DEF ParkLedger, At
  <2> QED BY <1>0, <2>1, GotoOnward, PublishOnward
<1>4. CASE ParkView(p, r)
  <2>1. exec[p][r].pc = "ask" /\ (Asks(p, r) \/ PublishFails(p, r))
    BY <1>4 DEF ParkView, At, Asks
  <2>2. CASE Asks(p, r)
    BY <1>0, <2>1, <2>2, AsksMoves, WriteOnward
  <2>3. CASE PublishFails(p, r)
    BY <1>0, <2>1, <2>3, PublishOnward
  <2> QED BY <2>1, <2>2, <2>3
<1>5. CASE \E st \in {"completed", "aborted"} : EndEvent(p, r, st)
  BY <1>0, <1>5, GotoOnward DEF EndEvent, At
<1>6. CASE FinishUnnamed(p, r)
  <2>1. /\ exec[p][r].pc \in {"run", "end"}
        /\ \/ Forget(p, r) \/ Goto(p, r, "parked")
           \/ FinishAs(p, r, Resolve(r, Tok(p, r)))
    BY <1>6 DEF FinishUnnamed, At, Forget, Goto
  <2> QED BY <1>0, <2>1, ForgetOnward, GotoOnward, FinishOnward
<1>7. CASE FinishErrored(p, r)
  BY <1>0, <1>7, FinishOnward DEF FinishErrored, At
<1>8. CASE FinalizeRow(p, r)
  <2>1. exec[p][r].pc = "finish" /\ (Goto(p, r, "release") \/ LeaveControl(p, r))
    BY <1>8 DEF FinalizeRow, At
  <2> QED BY <1>0, <2>1, GotoOnward, LeaveOnward
<1>9. CASE ReleaseSlot(p, r)
  BY <1>0, <1>9, ForgetOnward DEF ReleaseSlot
<1>10. CASE ResumeLedger(p, r)
  <2>1. exec[p][r].pc = "resuming" /\ (Goto(p, r, "resumed") \/ FinishAs(p, r, "failed"))
    BY <1>10 DEF ResumeLedger, At
  <2> QED BY <1>0, <2>1, GotoOnward, FinishOnward
<1>11. CASE ResumeView(p, r)
  <2>1. exec[p][r].pc = "resumed" /\ (Goto(p, r, "run") \/ FinishAs(p, r, "failed"))
    BY <1>11 DEF ResumeView, At
  <2> QED BY <1>0, <2>1, GotoOnward, FinishOnward
<1> QED BY <1>1, <1>2, <1>3, <1>4, <1>5, <1>6, <1>7, <1>8, <1>9, <1>10, <1>11 DEF ExecutionStep

-----------------------------------------------------------------------------
(* Aborts, leases and faults                                               *)

LEMMA AbortOnward ==
  ASSUME ClusterInvariant, NEW p \in Owners, NEW r \in Runs, AbortRun(p, r)
  PROVE  /\ CellsOnward /\ PassesOnward
         /\ \/ exec' = exec
            \/ /\ exec[p][r].pc # "release"
               /\ \/ exec'[p][r].pc = "idle"
                  \/ exec'[p][r].pc \in {"unwind", "finish"} /\ exec'[p][r].out = "aborted"
               /\ \A q \in Owners, s \in Runs : ~(q = p /\ s = r) => exec'[q][s] = exec[q][s]
<1>1. /\ ServersFit /\ exec[p][r] \in Exec
      /\ exec[p][r].pc \notin {"idle", "draw", "claim", "activate", "reserve"}
  BY AbortFinds DEF ClusterInvariant, ServersFit, Reserving
<1>2. PassesOnward
  BY PassesRestOnward DEF AbortRun
<1>3. CASE UNCHANGED exec
  BY <1>2, <1>3, CellsRest
<1>4. CASE /\ exec[p][r].pc # "release"
           /\ exec' = [exec EXCEPT ![p][r] = [@ EXCEPT !.pc = "unwind", !.out = "aborted"]]
  <2>1. PICK e : e = [exec[p][r] EXCEPT !.pc = "unwind", !.out = "aborted"]
    OBVIOUS
  <2>2. e.pc = "unwind" /\ e.token = exec[p][r].token /\ e.out = "aborted"
    BY <1>1, <2>1 DEF Exec
  <2>3. Becomes(p, r, e)
    BY <1>4, <2>1 DEF Becomes
  <2> QED BY <1>1, <1>2, <1>4, <2>2, <2>3, WriteOnward DEF Executing
<1>5. CASE exec[p][r].pc # "release" /\ FinishAs(p, r, "aborted")
  BY <1>1, <1>2, <1>5, FinishOnward
<1> QED BY <1>3, <1>4, <1>5 DEF AbortRun

\* Nobody comes nearer to its end than it was.
NoneFinishes ==
  \A p \in Owners, r \in Runs :
    \/ exec'[p][r].pc \in {"idle", "draw"}
    \/ exec'[p][r].pc = exec[p][r].pc /\ exec'[p][r].out = exec[p][r].out

\* A server that keeps its place, its token and its outcome.
LEMMA OwnershipOnward ==
  ASSUME ServersFit, NEW p \in Owners, NEW r \in Runs,
         NEW own \in {"none", "held", "lost"}, NEW renew \in BOOLEAN,
         exec' = [exec EXCEPT ![p][r] = [exec[p][r] EXCEPT !.own = own, !.renew = renew]]
  PROVE  CellsOnward /\ NoneFinishes
<1>1. exec[p][r] \in Exec
  BY DEF ServersFit
<1>2. PICK e : e = [exec[p][r] EXCEPT !.own = own, !.renew = renew]
  OBVIOUS
<1>3. /\ e.pc = exec[p][r].pc /\ e.token = exec[p][r].token
      /\ e.out = exec[p][r].out /\ e.gen = exec[p][r].gen
  BY <1>1, <1>2 DEF Exec
<1>4. Onward(exec[p][r], e) /\ Becomes(p, r, e)
  BY <1>2, <1>3 DEF Onward, Becomes
<1>5. /\ CellsOnward /\ exec'[p][r] = e
      /\ \A q \in Owners, s \in Runs : ~(q = p /\ s = r) => exec'[q][s] = exec[q][s]
  BY <1>4, CellOnward
<1>6. NoneFinishes
  BY <1>3, <1>5 DEF NoneFinishes
<1> QED BY <1>5, <1>6

LEMMA LoseOwnershipOnward ==
  ASSUME ServersFit, NEW p \in Owners, NEW r \in Runs, LoseOwnership(p, r)
  PROVE  CellsOnward /\ PassesOnward /\ NoneFinishes
<1>1. PassesOnward
  BY PassesRestOnward DEF LoseOwnership
<1>2. CASE exec[p][r].pc = "stuck"
  <2>1. Forget(p, r)
    BY <1>2 DEF LoseOwnership, Forget
  <2> QED BY <1>1, <2>1, ForgetOnward DEF NoneFinishes, Idle
<1>3. CASE exec[p][r].pc # "stuck"
  <2>1. exec' = [exec EXCEPT ![p][r] = [exec[p][r] EXCEPT !.own = "lost", !.renew = FALSE]]
    BY <1>3 DEF LoseOwnership
  <2> QED BY <1>1, <2>1, OwnershipOnward
<1> QED BY <1>2, <1>3

LEMMA ObserveOnward ==
  ASSUME ServersFit, NEW p \in Owners, ObserveExpiredLease(p)
  PROVE  CellsOnward /\ PassesOnward /\ NoneFinishes
<1> DEFINE r == view.run
<1>1. PassesOnward
  BY PassesRestOnward DEF ObserveExpiredLease
<1>2. exec \in [Owners -> [Runs -> Exec]]
  BY DEF ServersFit
<1>3. CASE r \in Runs /\ exec' = [exec EXCEPT ![p][r] = [exec[p][r] EXCEPT !.own = "lost",
                                                                           !.renew = FALSE]]
  BY <1>1, <1>3, OwnershipOnward
<1>4. CASE exec' = exec
  BY <1>1, <1>4, CellsRest DEF NoneFinishes
<1>5. \/ r \in Runs /\ exec' = [exec EXCEPT ![p][r] = [exec[p][r] EXCEPT !.own = "lost",
                                                                         !.renew = FALSE]]
      \/ exec' = exec
  BY <1>2 DEF ObserveExpiredLease
<1> QED BY <1>3, <1>4, <1>5

\* A process that ends keeps its place in a run or loses it, and its pass.
Ends(p, cells) == exec' = [exec EXCEPT ![p] = cells]
LEMMA CellsEnd ==
  ASSUME ServersFit, NEW p \in Owners, NEW cells, Ends(p, cells),
         \A r \in Runs : \/ cells[r] = Idle
                         \/ /\ cells[r].pc = exec[p][r].pc /\ cells[r].token = exec[p][r].token
                            /\ cells[r].out = exec[p][r].out /\ cells[r].gen = exec[p][r].gen
  PROVE  CellsOnward /\ NoneFinishes
<1>1. exec'[p] = cells /\ \A q \in Owners \ {p} : exec'[q] = exec[q]
  BY DEF ServersFit, Ends
<1>2. ASSUME NEW q \in Owners, NEW r \in Runs
      PROVE  /\ Onward(exec[q][r], exec'[q][r])
             /\ \/ exec'[q][r].pc \in {"idle", "draw"}
                \/ exec'[q][r].pc = exec[q][r].pc /\ exec'[q][r].out = exec[q][r].out
  <2>1. CASE q = p
    <3>1. \/ exec'[q][r] = Idle
          \/ /\ exec'[q][r].pc = exec[q][r].pc /\ exec'[q][r].token = exec[q][r].token
             /\ exec'[q][r].out = exec[q][r].out /\ exec'[q][r].gen = exec[q][r].gen
      BY <1>1, <2>1
    <3> QED BY <3>1 DEF Onward, Idle
  <2>2. CASE q # p
    BY <1>1, <2>2 DEF Onward
  <2> QED BY <2>1, <2>2
<1> QED BY <1>2 DEF CellsOnward, NoneFinishes

LEMMA RestOnward ==
  ASSUME PassesFit, NEW p \in Owners, Rest(p)
  PROVE  PassesOnward
BY DEF PassesFit, Rest, Resting, PassesOnward, PassOnward, Recovers

LEMMA StopOnward ==
  ASSUME ServersFit, PassesFit, NEW p \in Owners, Stop(p)
  PROVE  CellsOnward /\ PassesOnward /\ NoneFinishes
<1> DEFINE cells == [r \in Runs |-> Idle]
<1>1. \A r \in Runs : cells[r] = Idle
  OBVIOUS
<1>2. Ends(p, cells)
  BY DEF Stop, Ends
<1> HIDE DEF cells
<1>3. CellsOnward /\ NoneFinishes
  BY <1>1, <1>2, CellsEnd
<1> QED BY <1>3, RestOnward DEF Stop, Rest

LEMMA ShutdownOnward ==
  ASSUME ServersFit, PassesFit, NEW p \in Owners, Shutdown(p)
  PROVE  CellsOnward /\ PassesOnward /\ NoneFinishes
<1> DEFINE cells == [r \in Runs |-> IF exec[p][r].pc \in {"parked", "stuck"} THEN Idle
                                    ELSE [exec[p][r] EXCEPT !.own = "none", !.renew = FALSE]]
<1>1. ASSUME NEW r \in Runs
      PROVE  \/ cells[r] = Idle
             \/ /\ cells[r].pc = exec[p][r].pc /\ cells[r].token = exec[p][r].token
                /\ cells[r].out = exec[p][r].out /\ cells[r].gen = exec[p][r].gen
  <2>1. PICK e : e = [exec[p][r] EXCEPT !.own = "none", !.renew = FALSE]
    OBVIOUS
  <2>2. exec[p][r] \in Exec
    BY DEF ServersFit
  <2>3. /\ e.pc = exec[p][r].pc /\ e.token = exec[p][r].token
        /\ e.out = exec[p][r].out /\ e.gen = exec[p][r].gen
    BY <2>1, <2>2 DEF Exec
  <2>4. cells[r] = Idle \/ cells[r] = e
    BY <2>1
  <2> HIDE DEF cells
  <2> QED BY <2>3, <2>4
<1>2. Ends(p, cells)
  BY DEF Shutdown, Ends
<1> HIDE DEF cells
<1>3. CellsOnward /\ NoneFinishes
  BY <1>1, <1>2, CellsEnd
<1> QED BY <1>3, RestOnward DEF Shutdown, Rest

-----------------------------------------------------------------------------
(* What statements of the ledger write                                     *)

\* At most the state of the run's row is written, to one of the states given.
Writes(r, states) ==
  \A q \in Runs :
    /\ rows'[q].token = rows[q].token /\ rows'[q].generation = rows[q].generation
    /\ rows'[q].state = rows[q].state \/ (q = r /\ rows'[q].state \in states)
    /\ Active(q)' => Active(q) \/ rows[q].token = 0

LEMMA NothingWritten == \A r, states : UNCHANGED ledgerVars => Writes(r, states)
BY DEF Writes, Active, ledgerVars

LEMMA StateWritten ==
  ASSUME LedgerInvariant, NEW r \in Runs, NEW st,
         \/ rows' = [rows EXCEPT ![r].state = st] /\ (st \in ActiveStates => Active(r))
         \/ rows' = [rows EXCEPT ![r].abort = TRUE]
  PROVE  Writes(r, {st})
<1>1. rows \in [Runs -> Row] /\ rows[r] \in Row
  BY DEF LedgerInvariant, TypeOK
<1>2. /\ \A q \in Runs \ {r} : rows'[q] = rows[q]
      /\ rows'[r].token = rows[r].token /\ rows'[r].generation = rows[r].generation
      /\ \/ rows'[r].state = rows[r].state
         \/ rows'[r].state = st /\ (st \in ActiveStates => Active(r))
  BY <1>1 DEF Row
<1> QED BY <1>2 DEF Writes, Active

LEMMA AdmitWrites ==
  ASSUME LedgerInvariant, NEW r \in Runs, Admit(r, Session, r)
  PROVE  Writes(r, {"accepted"})
<1>1. rows \in [Runs -> Row] /\ rows[r] = AbsentRow
  BY DEF LedgerInvariant, TypeOK, Admit
<1>2. /\ rows'[r] = AcceptedRow(Session, r, nextPosition[Session])
      /\ \A q \in Runs \ {r} : rows'[q] = rows[q]
  BY <1>1 DEF Admit
<1> QED BY <1>1, <1>2 DEF Writes, AcceptedRow, AbsentRow, Active

LEMMA FinalizeWrites ==
  ASSUME LedgerInvariant, NEW r \in Runs, NEW t, NEW st \in TerminalStates,
         FinalizeOrNothing(r, t, st)
  PROVE  \/ Writes(r, {TerminalState(r, st)}) /\ rows[r].token = t /\ Active(r)
            /\ Terminal(r)'
         \/ UNCHANGED ledgerVars /\ ~FinalizeApplies(r, t)
<1>1. CASE Finalize(r, t, st)
  <2>1. TerminalState(r, st) \in TerminalStates /\ TerminalState(r, st) \notin ActiveStates
    BY DEF TerminalState, TerminalStates, ActiveStates
  <2>2. rows' = [rows EXCEPT ![r].state = TerminalState(r, st)]
    BY <1>1 DEF Finalize
  <2>3. Writes(r, {TerminalState(r, st)})
    BY <2>1, <2>2, StateWritten
  <2>4. rows'[r].state = TerminalState(r, st)
    BY <2>2 DEF LedgerInvariant, TypeOK, Row
  <2> QED BY <1>1, <2>1, <2>3, <2>4 DEF Finalize, FinalizeApplies, Terminal
<1> QED BY <1>1 DEF FinalizeOrNothing

LEMMA WaitWrites ==
  ASSUME LedgerInvariant, NEW r \in Runs, NEW t, SetWaitingDecision(r, t)
  PROVE  Writes(r, {"waiting_decision"})
BY StateWritten DEF SetWaitingDecision, FencedLive, Active, ActiveStates

LEMMA ResumeWrites ==
  ASSUME LedgerInvariant, NEW r \in Runs, NEW t, Resume(r, t)
  PROVE  Writes(r, {"running"})
BY StateWritten DEF Resume, FencedLive, Active, ActiveStates

LEMMA AbortWrites ==
  ASSUME LedgerInvariant, NEW r \in Runs, RequestAbort(r)
  PROVE  Writes(r, {"accepted"})
BY StateWritten DEF RequestAbort

LEMMA NoneWritesWaiting ==
  ASSUME NEW r, NEW states, Writes(r, states),
         "waiting_decision" \in states => r \in Runs /\ started[r] = 1
  PROVE  NoneWaits
BY DEF Writes, NoneWaits

-----------------------------------------------------------------------------
(* The passes of the reapers                                               *)

Turns(p, x) == reap' = [reap EXCEPT ![p] = x]

LEMMA PassAlone ==
  ASSUME PassesFit, NEW p \in Owners, NEW x, Turns(p, x)
  PROVE  /\ reap'[p] = x /\ \A q \in Owners \ {p} : reap'[q] = reap[q]
         /\ PassOnward(reap[p], x) => PassesOnward
         /\ Recovers(reap[p], x) => RecoveriesGoOn
BY DEF PassesFit, Turns, PassesOnward, PassOnward, Recovers, RecoveriesGoOn

LEMMA PassOn ==
  ASSUME PassesFit, NEW p \in Owners, NEW pc, Pass(p, pc), reap[p].pc # "idle",
         pc \notin Recovering \cup {"sweep"}
  PROVE  /\ PassesOnward /\ reap'[p].pc = pc
         /\ reap'[p].run = reap[p].run /\ reap'[p].token = reap[p].token
         /\ \A q \in Owners \ {p} : reap'[q] = reap[q]
<1>1. reap[p] \in Reap
  BY DEF PassesFit
<1>2. PICK x : x = [reap[p] EXCEPT !.pc = pc]
  OBVIOUS
<1>3. x.pc = pc /\ x.run = reap[p].run /\ x.token = reap[p].token /\ x.indexed = reap[p].indexed
  BY <1>1, <1>2 DEF Reap
<1>4. Turns(p, x) /\ PassOnward(reap[p], x)
  BY <1>2, <1>3 DEF Pass, Turns, PassOnward, Recovers
<1>5. reap'[p] = x /\ PassesOnward /\ \A q \in Owners \ {p} : reap'[q] = reap[q]
  BY <1>4, PassAlone
<1> QED BY <1>3, <1>5

\* What a pass does with a candidate it only judges, ends or drops.
LEMMA PlainPassOnward ==
  ASSUME PassesFit, NEW p \in Owners, Judge(p) \/ Condemn(p) \/ Drop(p)
  PROVE  CellsOnward /\ NoneFinishes /\ PassesOnward
<1>1. exec' = exec
  BY DEF Judge, Condemn, Drop
<1>2. CASE Judge(p)
  <2>1. PICK pc \in {"recover", "condemn"} : Pass(p, pc)
    BY <1>2 DEF Judge
  <2>2. PassesOnward
    BY <1>2, <2>1, PassOn DEF Judge, Reaping, Recovering
  <2> QED BY <1>1, <2>2, CellsRest DEF NoneFinishes
<1>3. CASE Condemn(p) \/ Drop(p)
  <2>1. reap[p].pc \in {"condemn", "drop"} /\ (Rest(p) \/ Pass(p, "drop"))
    BY <1>3 DEF Condemn, Drop, Reaping
  <2>2. PassesOnward
    BY <2>1, RestOnward, PassOn DEF Recovering
  <2> QED BY <1>1, <2>2, CellsRest DEF NoneFinishes
<1> QED BY <1>2, <1>3

LEMMA StartOnward ==
  ASSUME PassesFit, NEW p \in Owners, NEW x, Start(p, x), exec' = exec,
         x.pc \in {"judge", "condemn", "sweep"}
  PROVE  /\ CellsOnward /\ NoneFinishes /\ RecoveriesGoOn /\ reap'[p] = x
         /\ \A q \in Owners \ {p} : reap'[q] = reap[q]
<1>1. Turns(p, x) /\ Recovers(reap[p], x)
  BY DEF Start, Turns, Recovers, Recovering
<1>2. reap'[p] = x /\ RecoveriesGoOn /\ \A q \in Owners \ {p} : reap'[q] = reap[q]
  BY <1>1, PassAlone
<1> QED BY <1>2, CellsRest DEF NoneFinishes

\* A pass begins, and the sweep takes what it lists.
LEMMA ScanBegins ==
  ASSUME NEW p \in Owners, ScanStep(p)
  PROVE  \E x : x.pc \in {"judge", "condemn", "sweep"} /\ BeginPass(p, x)
<1>1. ASSUME NEW r, NEW t, NEW pc \in {"judge", "condemn"}, NEW indexed,
             BeginPass(p, Taking(r, t, pc, indexed))
      PROVE  \E x : x.pc \in {"judge", "condemn", "sweep"} /\ BeginPass(p, x)
  <2>1. Taking(r, t, pc, indexed).pc = pc
    BY DEF Taking, Resting
  <2> QED BY <1>1, <2>1
<1>2. ASSUME NEW e \in index, ScanExpired(p, e)
      PROVE  \E x : x.pc \in {"judge", "condemn", "sweep"} /\ BeginPass(p, x)
  BY <1>1, <1>2 DEF ScanExpired
<1>3. ASSUME NEW r \in Runs, ScanOrphaned(p, r)
      PROVE  \E x : x.pc \in {"judge", "condemn", "sweep"} /\ BeginPass(p, x)
  BY <1>1, <1>3 DEF ScanOrphaned
<1>4. CASE RefreshGeneration(p)
  <2>1. Sweeping(generation).pc = "sweep"
    BY DEF Sweeping, Resting
  <2>2. BeginPass(p, Sweeping(generation))
    BY <1>4 DEF RefreshGeneration, Sweeping
  <2> QED BY <2>1, <2>2
<1> QED BY <1>2, <1>3, <1>4 DEF ScanStep

LEMMA ListStaleOnward ==
  ASSUME PassesFit, NEW p \in Owners, ListStale(p)
  PROVE  CellsOnward /\ NoneFinishes /\ RecoveriesGoOn
<1>1. exec' = exec
  BY DEF ListStale
<1>2. ASSUME NEW r \in Runs, Start(p, Taking(r, rows[r].token, "condemn", FALSE))
      PROVE  CellsOnward /\ NoneFinishes /\ RecoveriesGoOn
  <2>1. Taking(r, rows[r].token, "condemn", FALSE).pc = "condemn"
    BY DEF Taking, Resting
  <2> QED BY <1>1, <1>2, <2>1, StartOnward
<1>3. CASE Rest(p)
  BY <1>1, <1>3, RestOnward, CellsRest, OnwardRecovers DEF NoneFinishes
<1> QED BY <1>2, <1>3 DEF ListStale

\* A pass that finds a parked run to recover takes the token of its row.
LEMMA RecoverOnward ==
  ASSUME ServersFit, PassesFit, NEW p \in Owners, Recover(p)
  PROVE  /\ CellsOnward /\ NoneFinishes
         /\ \/ PassesOnward
            \/ /\ reap'[p].pc = "redraw" /\ reap'[p].run = reap[p].run
               /\ reap'[p].token = reap[p].token /\ reap'[p].indexed = reap[p].indexed
               /\ reap'[p].prev = rows[reap[p].run].token
               /\ rows[reap[p].run].state = "waiting_decision"
               /\ ref[reap[p].run] # rows[reap[p].run].token
               /\ \A q \in Owners \ {p} : reap'[q] = reap[q]
<1> DEFINE r == reap[p].run
<1>1. reap[p].pc = "recover" /\ reap[p] \in Reap /\ r \in Runs
      /\ exec \in [Owners -> [Runs -> Exec]]
  BY DEF Recover, Reaping, PassesFit, PassFits, ServersFit
<1>2. CellsOnward /\ NoneFinishes
  <2>1. CASE exec' = exec
    BY <2>1, CellsRest DEF NoneFinishes
  <2>2. CASE Forget(p, r)
    BY <1>1, <2>2, ForgetOnward DEF NoneFinishes, Idle
  <2>3. CASE exec' = [exec EXCEPT ![p][r] = [exec[p][r] EXCEPT !.own = "none", !.renew = FALSE]]
    BY <1>1, <2>3, OwnershipOnward
  <2> QED BY <1>1, <2>1, <2>2, <2>3 DEF Recover, Forget
<1>3. CASE Rest(p)
  BY <1>2, <1>3, RestOnward
<1>4. CASE Pass(p, "condemn") \/ Pass(p, "drop")
  BY <1>1, <1>2, <1>4, PassOn DEF Recovering
<1>5. CASE /\ reap' = [reap EXCEPT ![p] = [@ EXCEPT !.pc = "redraw", !.prev = rows[r].token]]
           /\ rows[r].state = "waiting_decision" /\ ref[r] # rows[r].token
  <2>1. PICK x : x = [reap[p] EXCEPT !.pc = "redraw", !.prev = rows[r].token]
    OBVIOUS
  <2>2. /\ x.pc = "redraw" /\ x.run = r /\ x.token = reap[p].token
        /\ x.indexed = reap[p].indexed /\ x.prev = rows[r].token
    BY <1>1, <2>1 DEF Reap
  <2>3. Turns(p, x)
    BY <1>5, <2>1 DEF Turns
  <2>4. reap'[p] = x /\ \A q \in Owners \ {p} : reap'[q] = reap[q]
    BY <2>3, PassAlone
  <2> QED BY <1>2, <1>5, <2>2, <2>4
<1> QED BY <1>3, <1>4, <1>5 DEF Recover

-----------------------------------------------------------------------------
(* Reservations follow the rows, while passes are alone                    *)

\* No pass of a reaper outlives its leadership into a successor's.
OnePass ==
  \A p, q \in Owners : reap[p].pc # "idle" /\ reap[q].pc # "idle" => p = q

\* What a pass relies on between the calls of a recovery.
PassInvariant ==
  \A p \in Owners :
    /\ reap[p].pc = "rereserve" => rows[reap[p].run].token = reap[p].next
    /\ reap[p].pc \in {"redraw", "reclaim"} => ref[reap[p].run] = 0

Routed == PassInvariant /\ RoutedToOwner
KeepsRouting == BuiltInvariant' /\ (OnePass /\ Routed => Routed')

\* A step that gives no row a token, builds no turn and reserves nothing.
Quiet ==
  /\ RowsStay /\ NoneWaits /\ CellsOnward /\ RecoveriesGoOn /\ started' = started
  /\ \A r \in Runs : ref'[r] \in {0, ref[r]}

LEMMA NoneRevives ==
  ASSUME LedgerInvariant, [Next]_ledgerVars, NEW r \in Runs, Active(r)'
  PROVE  Active(r) \/ Fresh(r)
<1>1. rows[r].state \in ActiveStates \cup TerminalStates \cup {Absent}
  BY DEF LedgerInvariant, TypeOK, Row
<1>2. rows'[r] = rows[r] \/ ~Terminal(r)
  BY RowsMoveForward DEF ledgerVars
<1> QED BY <1>1, <1>2 DEF Active, Terminal, Fresh

\* A step on one row, one turn or one reservation at most: what is new is built,
\* claimed under the token of its row, or recovered.
LEMMA BuiltStep ==
  ASSUME BuiltInvariant, NoneWaits,
         \A r \in Runs :
           /\ Fresh(r)' => Fresh(r)
           /\ rows'[r].token = rows[r].token \/ \A p \in Owners : exec[p][r].pc \notin Claimed
           /\ started'[r] \in {started[r], 1}
           /\ ref'[r] \in {0, ref[r]} \/ ~Fresh(r),
         \A p \in Owners, r \in Runs :
           \/ Onward(exec[p][r], exec'[p][r])
           \/ /\ exec'[p][r].pc \in Executing => started'[r] = 1
              /\ exec'[p][r].pc \in Claimed => rows'[r].token = exec'[p][r].token,
         \A p \in Owners :
           \/ Recovers(reap[p], reap'[p])
           \/ reap'[p].pc \in Recovering => started'[reap'[p].run] = 1,
         \A p \in Owners : reap[p].pc \in Recovering => reap[p].run \in Runs
  PROVE  BuiltInvariant'
<1>1. ASSUME NEW r \in Runs
      PROVE  /\ rows'[r].state = "waiting_decision" => started'[r] = 1
             /\ ref'[r] # 0 => ~Fresh(r)'
  BY <1>1 DEF BuiltInvariant, NoneWaits
<1>2. ASSUME NEW r \in Runs, NEW p \in Owners
      PROVE  /\ exec'[p][r].pc \in Executing => started'[r] = 1
             /\ exec'[p][r].pc \in Claimed => rows'[r].token = exec'[p][r].token
  <2>1. CASE Onward(exec[p][r], exec'[p][r])
    <3>1. CASE exec'[p][r].pc \in {"idle", "draw"}
      BY <3>1 DEF Claimed, Executing
    <3>2. CASE exec'[p][r].pc \notin {"idle", "draw"}
      <4>1. /\ exec'[p][r].token = exec[p][r].token
            /\ exec'[p][r].pc \in Claimed => exec[p][r].pc \in Claimed
            /\ exec'[p][r].pc \in Executing => exec[p][r].pc \in Executing
        BY <2>1, <3>2 DEF Onward
      <4>2. /\ exec[p][r].pc \in Executing => started[r] = 1
            /\ exec[p][r].pc \in Claimed => rows[r].token = exec[p][r].token
        BY DEF BuiltInvariant, Claimed
      <4> QED BY <4>1, <4>2
    <3> QED BY <3>1, <3>2
  <2> QED BY <2>1
<1>3. ASSUME NEW p \in Owners, reap'[p].pc \in Recovering
      PROVE  started'[reap'[p].run] = 1
  <2>1. CASE Recovers(reap[p], reap'[p])
    <3>1. reap[p].pc \in Recovering /\ reap'[p].run = reap[p].run
      BY <1>3, <2>1 DEF Recovers
    <3>2. started[reap[p].run] = 1 /\ reap[p].run \in Runs
      BY <3>1 DEF BuiltInvariant
    <3> QED BY <3>1, <3>2
  <2> QED BY <1>3, <2>1
<1> QED BY <1>1, <1>2, <1>3 DEF BuiltInvariant, Claimed

LEMMA PassesNameRuns ==
  ASSUME PassesFit
  PROVE  \A p \in Owners : reap[p].pc \in Recovering => reap[p].run \in Runs
BY DEF PassesFit, PassFits, Recovering

\* Where a reservation may stand after a step.
Placed(r) ==
  \/ ref'[r] = 0
  \/ Active(r)' => ref'[r] = rows'[r].token
  \/ ref'[r] = ref[r] /\ rows'[r].token = rows[r].token

LEMMA PlacedRouted ==
  ASSUME LedgerInvariant, [Next]_ledgerVars, BuiltInvariant, RoutedToOwner,
         \A r \in Runs : Placed(r)
  PROVE  RoutedToOwner'
<1> SUFFICES ASSUME NEW r \in Runs, ref'[r] # 0, Active(r)'
             PROVE  ref'[r] = rows'[r].token
  BY DEF RoutedToOwner, Active
<1>1. CASE ref'[r] = ref[r] /\ rows'[r].token = rows[r].token
  <2>1. ~Fresh(r)
    BY <1>1 DEF BuiltInvariant
  <2>2. Active(r)
    BY <2>1, NoneRevives
  <2> QED BY <1>1, <2>2 DEF RoutedToOwner
<1> QED BY <1>1 DEF Placed

LEMMA QuietKeeps ==
  ASSUME ClusterInvariant, BuiltInvariant, Quiet
  PROVE  KeepsRouting
<1> USE DEF ClusterInvariant
<1>1. BuiltInvariant'
  BY BuiltKept DEF Quiet
<1>2. ASSUME Routed PROVE RoutedToOwner'
  <2>1. \A r \in Runs : Placed(r)
    BY DEF Quiet, RowsStay, Placed
  <2> QED BY <1>2, <2>1, PlacedRouted DEF Quiet, RowsStay, Routed
<1>3. ASSUME Routed PROVE PassInvariant'
  <2> SUFFICES ASSUME NEW p \in Owners, reap'[p].pc \in Recovering
               PROVE  /\ reap'[p].pc = "rereserve" => rows'[reap'[p].run].token = reap'[p].next
                      /\ reap'[p].pc \in {"redraw", "reclaim"} => ref'[reap'[p].run] = 0
    BY DEF PassInvariant, Recovering
  <2>1. /\ reap[p].pc = reap'[p].pc /\ reap'[p].run = reap[p].run
        /\ reap'[p].next = reap[p].next
    BY DEF Quiet, RecoveriesGoOn, Recovers
  <2>2. reap[p].run \in Runs
    BY <2>1, PassesNameRuns
  <2>3. /\ rows'[reap[p].run].token = rows[reap[p].run].token
        /\ ref'[reap[p].run] \in {0, ref[reap[p].run]}
    BY <2>2 DEF Quiet, RowsStay
  <2>4. /\ reap[p].pc = "rereserve" => rows[reap[p].run].token = reap[p].next
        /\ reap[p].pc \in {"redraw", "reclaim"} => ref[reap[p].run] = 0
    BY <1>3 DEF Routed, PassInvariant
  <2> QED BY <2>1, <2>3, <2>4
<1> QED BY <1>1, <1>2, <1>3 DEF KeepsRouting, Routed

-----------------------------------------------------------------------------
(* The quiet steps                                                         *)

LEMMA NothingWaits == UNCHANGED ledgerVars => NoneWaits
BY DEF NoneWaits, ledgerVars

LEMMA FinalizedNotWaiting ==
  ASSUME LedgerInvariant, NEW r \in Runs, NEW t, NEW st \in TerminalStates,
         FinalizeOrNothing(r, t, st)
  PROVE  NoneWaits
<1>1. TerminalState(r, st) # "waiting_decision"
  BY DEF TerminalState, TerminalStates
<1>2. Writes(r, {TerminalState(r, st)}) \/ UNCHANGED ledgerVars
  BY FinalizeWrites
<1> QED BY <1>1, <1>2, NoneWritesWaiting, NothingWaits

LEMMA QuietAdmission ==
  ASSUME ClusterInvariant, NEW p \in Owners, NEW r \in Runs,
         \/ AdmitRun(p, r) \/ ActivateFence(p, r) \/ ConfirmLease(p, r)
         \/ PromoteRun(p, r) \/ UnwindAdmission(p, r) \/ AbandonClaim(p, r)
  PROVE  Quiet
<1> USE DEF ClusterInvariant
<1>1. RowsStay
  BY RuntimeAssumption, AdmitRunKeeps, ActivateFenceKeeps, ConfirmLeaseKeeps, PromoteRunKeeps,
     UnwindAdmissionKeeps, AbandonClaimKeeps
<1>2. CellsOnward /\ RecoveriesGoOn
  BY AdmissionOnward, OnwardRecovers
<1>3. started' = started /\ ref' = ref
  BY DEF AdmitRun, ActivateFence, ConfirmLease, PromoteRun, UnwindAdmission, AbandonClaim,
         liveVars, historyVars
<1>4. NoneWaits
  <2>1. CASE AdmitRun(p, r)
    <3>1. Writes(r, {"accepted"})
      BY <2>1, AdmitWrites, NothingWritten DEF AdmitRun
    <3> QED BY <3>1, NoneWritesWaiting
  <2>2. CASE UnwindAdmission(p, r)
    <3>1. exec[p][r].out \in TerminalStates
      BY <2>2 DEF UnwindAdmission, At, ServersFit, ExecFits
    <3>2. \/ FinalizeOrNothing(r, Tok(p, r), exec[p][r].out)
          \/ UNCHANGED ledgerVars
      BY <2>2 DEF UnwindAdmission, StoreFails
    <3> QED BY <3>1, <3>2, FinalizedNotWaiting, NothingWaits
  <2>3. CASE AbandonClaim(p, r)
    <3>1. "failed" \in TerminalStates
      BY DEF TerminalStates
    <3>2. FinalizeOrNothing(r, Tok(p, r), "failed") \/ UNCHANGED ledgerVars
      BY <2>3 DEF AbandonClaim, StoreFails
    <3> QED BY <3>1, <3>2, FinalizedNotWaiting, NothingWaits
  <2>4. CASE ActivateFence(p, r) \/ ConfirmLease(p, r) \/ PromoteRun(p, r)
    BY <2>4, NothingWaits DEF ActivateFence, ConfirmLease, PromoteRun
  <2> QED BY <2>1, <2>2, <2>3, <2>4
<1> QED BY <1>1, <1>2, <1>3, <1>4 DEF Quiet

LEMMA QuietExecution ==
  ASSUME ClusterInvariant, BuiltInvariant, NEW p \in Owners, NEW r \in Runs, ExecutionStep(p, r)
  PROVE  Quiet
<1> USE DEF ClusterInvariant
<1>1. RowsStay
  BY WriteHistoryKeeps, CreateDecisionKeeps, ParkLedgerKeeps, ParkViewKeeps, EndEventKeeps,
     FinishUnnamedKeeps, FinishErroredKeeps, FinalizeRowKeeps, ReleaseSlotKeeps,
     AnswerDecisionKeeps, ResumeLedgerKeeps, ResumeViewKeeps DEF ExecutionStep
<1>2. CellsOnward /\ RecoveriesGoOn
  BY ExecutionOnward, OnwardRecovers
<1>3. started' = started
  BY DEF ExecutionStep, WriteHistory, CreateDecision, ParkLedger, ParkView, EndEvent,
         FinishUnnamed, FinishErrored, FinalizeRow, ReleaseSlot, AnswerDecision, ResumeLedger,
         ResumeView, historyVars
<1>4. \A q \in Runs : ref'[q] \in {0, ref[q]}
  <2>1. CASE ReleaseSlot(p, r)
    <3>1. ref' = ref \/ ref' = [ref EXCEPT ![r] = 0]
      BY <2>1 DEF ReleaseSlot
    <3> QED BY <3>1 DEF BackendFits
  <2>2. CASE ~ReleaseSlot(p, r)
    <3>1. ref' = ref
      BY <2>2 DEF ExecutionStep, WriteHistory, CreateDecision, ParkLedger, ParkView, EndEvent,
             FinishUnnamed, FinishErrored, FinalizeRow, AnswerDecision, ResumeLedger,
             ResumeView, liveVars
    <3> QED BY <3>1
  <2> QED BY <2>1, <2>2
<1>5. NoneWaits
  <2>1. CASE ParkLedger(p, r)
    <3>1. exec[p][r].pc = "asking" /\ (SetWaitingDecision(r, Tok(p, r)) \/ UNCHANGED ledgerVars)
      BY <2>1 DEF ParkLedger, At
    <3>2. started[r] = 1
      BY <3>1 DEF BuiltInvariant, Executing
    <3> QED BY <3>1, <3>2, WaitWrites, NoneWritesWaiting, NothingWaits
  <2>2. CASE ResumeLedger(p, r)
    <3>1. Resume(r, Tok(p, r)) \/ UNCHANGED ledgerVars
      BY <2>2 DEF ResumeLedger
    <3> QED BY <3>1, ResumeWrites, NoneWritesWaiting, NothingWaits
  <2>3. CASE FinalizeRow(p, r)
    <3>1. exec[p][r].out \in TerminalStates
      BY <2>3 DEF FinalizeRow, At, ServersFit, ExecFits
    <3>2. \/ FinalizeOrNothing(r, Tok(p, r), exec[p][r].out)
          \/ UNCHANGED ledgerVars
      BY <2>3 DEF FinalizeRow, StoreFails
    <3> QED BY <3>1, <3>2, FinalizedNotWaiting, NothingWaits
  <2>4. CASE ~(ParkLedger(p, r) \/ ResumeLedger(p, r) \/ FinalizeRow(p, r))
    BY <2>4, NothingWaits
       DEF ExecutionStep, WriteHistory, CreateDecision, ParkView, EndEvent, FinishUnnamed,
           FinishErrored, ReleaseSlot, AnswerDecision, ResumeView
  <2> QED BY <2>1, <2>2, <2>3, <2>4
<1> QED BY <1>1, <1>2, <1>3, <1>4, <1>5 DEF Quiet

LEMMA QuietAbort ==
  ASSUME ClusterInvariant, NEW r \in Runs,
         AbortIntent(r) \/ \E p \in Owners : AbortRun(p, r)
  PROVE  Quiet
<1> USE DEF ClusterInvariant
<1>1. RowsStay
  BY AbortIntentKeeps, AbortRunKeeps
<1>2. CellsOnward /\ RecoveriesGoOn
  <2>1. CASE AbortIntent(r)
    BY <2>1, CellsRest, PassesRestOnward, OnwardRecovers DEF AbortIntent, serverVars
  <2>2. ASSUME NEW p \in Owners, AbortRun(p, r) PROVE CellsOnward /\ RecoveriesGoOn
    BY <2>2, AbortOnward, OnwardRecovers
  <2> QED BY <2>1, <2>2
<1>3. started' = started /\ ref' = ref
  BY DEF AbortIntent, AbortRun, liveVars, historyVars
<1>4. NoneWaits
  <2>1. CASE AbortIntent(r)
    BY <2>1, AbortWrites, NoneWritesWaiting DEF AbortIntent
  <2>2. ASSUME NEW p \in Owners, AbortRun(p, r) PROVE NoneWaits
    BY <2>2, NothingWaits DEF AbortRun
  <2> QED BY <2>1, <2>2
<1> QED BY <1>1, <1>2, <1>3, <1>4 DEF Quiet

LEMMA QuietEnvironment ==
  ASSUME ClusterInvariant, LeaseStep \/ FaultStep
  PROVE  Quiet
<1> USE DEF ClusterInvariant
<1>1. RowsStay
  <2>1. CASE LeaseStep
    BY <2>1, LoseOwnershipKeeps, LeaseExpiresKeeps, ObserveExpiredLeaseKeeps, LeaderExpiresKeeps
       DEF LeaseStep
  <2>2. CASE FaultStep
    BY <2>2, BackendLossKeeps, ShutdownKeeps, StopKeeps DEF FaultStep, Exit, Crash
  <2> QED BY <2>1, <2>2
<1>2. CellsOnward /\ RecoveriesGoOn
  <2>1. CASE \/ \E p \in Owners, r \in Runs : LoseOwnership(p, r)
             \/ \E p \in Owners : ObserveExpiredLease(p) \/ Shutdown(p) \/ Exit(p) \/ Crash(p)
    BY <2>1, LoseOwnershipOnward, ObserveOnward, StopOnward, ShutdownOnward, OnwardRecovers
       DEF Exit, Crash
  <2>2. CASE (\E r \in Runs : LeaseExpires(r)) \/ LeaderExpires \/ BackendLoss
    BY <2>2, CellsRest, PassesRestOnward, OnwardRecovers
       DEF LeaseExpires, LeaderExpires, BackendLoss, serverVars
  <2> QED BY <2>1, <2>2 DEF LeaseStep, FaultStep
<1>3. started' = started /\ NoneWaits
  <2>1. UNCHANGED ledgerVars /\ started' = started
    BY DEF LeaseStep, LoseOwnership, LeaseExpires, ObserveExpiredLease, LeaderExpires,
           FaultStep, BackendLoss, Shutdown, Exit, Crash, Stop, historyVars
  <2> QED BY <2>1, NothingWaits
<1>4. \A q \in Runs : ref'[q] \in {0, ref[q]}
  <2>1. ASSUME NEW r \in Runs, LeaseExpires(r) PROVE \A q \in Runs : ref'[q] \in {0, ref[q]}
    BY <2>1 DEF LeaseExpires, BackendFits
  <2>2. CASE BackendLoss
    BY <2>2 DEF BackendLoss
  <2>3. ASSUME NEW p \in Owners, Shutdown(p) PROVE \A q \in Runs : ref'[q] \in {0, ref[q]}
    BY <2>3 DEF Shutdown
  <2>4. CASE \/ \E p \in Owners, r \in Runs : LoseOwnership(p, r)
             \/ \E p \in Owners : ObserveExpiredLease(p) \/ Exit(p) \/ Crash(p)
             \/ LeaderExpires
    <3>1. ref' = ref
      BY <2>4 DEF LoseOwnership, ObserveExpiredLease, Exit, Crash, Stop, LeaderExpires, liveVars
    <3> QED BY <3>1
  <2> QED BY <2>1, <2>2, <2>3, <2>4 DEF LeaseStep, FaultStep
<1> QED BY <1>1, <1>2, <1>3, <1>4 DEF Quiet

LEMMA QuietReaper ==
  ASSUME ClusterInvariant, NEW p \in Owners,
         ScanStep(p) \/ ListStale(p) \/ Judge(p) \/ Condemn(p) \/ Drop(p)
  PROVE  Quiet
<1> USE DEF ClusterInvariant
<1>1. RowsStay
  BY ScanStepKeeps, ListStaleKeeps, JudgeKeeps, CondemnKeeps, DropKeeps
<1>2. CASE ScanStep(p)
  <2>1. PICK x : x.pc \in {"judge", "condemn", "sweep"} /\ BeginPass(p, x)
    BY <1>2, ScanBegins
  <2>2. Start(p, x) /\ UNCHANGED <<ledgerVars, ref, exec, started>>
    BY <2>1 DEF BeginPass
  <2> QED BY <1>1, <2>1, <2>2, StartOnward, NothingWaits DEF Quiet
<1>3. CASE ListStale(p)
  <2>1. UNCHANGED <<ledgerVars, ref, started>>
    BY <1>3 DEF ListStale, liveVars, historyVars
  <2> QED BY <1>1, <1>3, <2>1, ListStaleOnward, NothingWaits DEF Quiet
<1>4. CASE Judge(p) \/ Condemn(p) \/ Drop(p)
  <2>1. CellsOnward /\ RecoveriesGoOn
    BY <1>4, PlainPassOnward, OnwardRecovers
  <2>2. started' = started /\ ref' = ref
    BY <1>4 DEF Judge, Condemn, Drop, liveVars, historyVars
  <2>3. NoneWaits
    <3>1. CASE Condemn(p)
      <4>1. "lost" \in TerminalStates /\ reap[p].run \in Runs
        BY <3>1 DEF TerminalStates, Condemn, Reaping, PassesFit, PassFits
      <4>2. FinalizeOrNothing(reap[p].run, reap[p].token, "lost") \/ UNCHANGED ledgerVars
        BY <3>1 DEF Condemn, StoreFails
      <4> QED BY <4>1, <4>2, FinalizedNotWaiting, NothingWaits
    <3>2. CASE Judge(p) \/ Drop(p)
      BY <3>2, NothingWaits DEF Judge, Drop
    <3> QED BY <1>4, <3>1, <3>2
  <2> QED BY <1>1, <2>1, <2>2, <2>3 DEF Quiet
<1> QED BY <1>2, <1>3, <1>4

-----------------------------------------------------------------------------
(* The steps that draw, claim, reserve, build and recover                  *)

LEMMA CellBuilt ==
  ASSUME ServersFit, NEW p \in Owners, NEW r \in Runs, NEW e, Becomes(p, r, e),
         e.pc \in Executing => started'[r] = 1,
         e.pc \in Claimed => rows'[r].token = e.token
  PROVE  \A q \in Owners, s \in Runs :
           \/ Onward(exec[q][s], exec'[q][s])
           \/ /\ exec'[q][s].pc \in Executing => started'[s] = 1
              /\ exec'[q][s].pc \in Claimed => rows'[s].token = exec'[q][s].token
<1>1. exec'[p][r] = e /\ \A q \in Owners, s \in Runs : ~(q = p /\ s = r) => exec'[q][s] = exec[q][s]
  BY DEF ServersFit, Becomes
<1> QED BY <1>1 DEF Onward

\* What a pass relies on still holds, or the pass has just established it.
LEMMA PassKept ==
  ASSUME PassesFit, PassInvariant,
         \A r \in Runs :
           /\ \/ rows'[r].token = rows[r].token
              \/ \A q \in Owners : reap'[q].pc = "rereserve" /\ reap'[q].run = r
                                     => rows'[r].token = reap'[q].next
           /\ \/ ref'[r] \in {0, ref[r]}
              \/ \A q \in Owners : reap'[q].pc \in {"redraw", "reclaim"} => reap'[q].run # r,
         \A p \in Owners :
           \/ Recovers(reap[p], reap'[p])
           \/ /\ reap'[p].pc = "rereserve" => rows'[reap'[p].run].token = reap'[p].next
              /\ reap'[p].pc \in {"redraw", "reclaim"} => ref'[reap'[p].run] = 0
  PROVE  PassInvariant'
<1> SUFFICES ASSUME NEW p \in Owners, reap'[p].pc \in Recovering, Recovers(reap[p], reap'[p])
             PROVE  /\ reap'[p].pc = "rereserve" => rows'[reap'[p].run].token = reap'[p].next
                    /\ reap'[p].pc \in {"redraw", "reclaim"} => ref'[reap'[p].run] = 0
  BY DEF PassInvariant, Recovering
<1>1. /\ reap[p].pc = reap'[p].pc /\ reap'[p].run = reap[p].run
      /\ reap'[p].next = reap[p].next
  BY DEF Recovers
<1>2. reap'[p].run \in Runs
  BY <1>1, PassesNameRuns
<1>3. /\ reap[p].pc = "rereserve" => rows[reap[p].run].token = reap[p].next
      /\ reap[p].pc \in {"redraw", "reclaim"} => ref[reap[p].run] = 0
  BY DEF PassInvariant
<1> QED BY <1>1, <1>2, <1>3

LEMMA PassesStay == reap' = reap => \A p \in Owners : Recovers(reap[p], reap'[p])
BY DEF Recovers

LEMMA DrawRoutes ==
  ASSUME ClusterInvariant, BuiltInvariant, NEW p \in Owners, NEW r \in Runs, DrawToken(p, r)
  PROVE  KeepsRouting
<1> USE DEF ClusterInvariant
<1>1. exec[p][r] \in Exec /\ reap' = reap /\ ref' = ref /\ started' = started
  BY DEF DrawToken, ServersFit, liveVars
<1>2. CASE StoreFails /\ Forget(p, r)
  <2>1. RowsStay /\ NoneWaits
    BY <1>2, IdleStays, NothingWaits DEF StoreFails
  <2>2. CellsOnward /\ RecoveriesGoOn
    BY <1>1, <1>2, ForgetOnward, PassesStay DEF RecoveriesGoOn
  <2>3. Quiet
    BY <1>1, <2>1, <2>2 DEF Quiet
  <2> QED BY <2>3, QuietKeeps
<1>3. CASE /\ NextFencingToken(r)
           /\ exec' = [exec EXCEPT ![p][r] = [@ EXCEPT !.pc = "claim",
                                                !.token = tokenSeq + 1, !.gen = generation]]
  <2>1. PICK e : e = [exec[p][r] EXCEPT !.pc = "claim", !.token = tokenSeq + 1, !.gen = generation]
    OBVIOUS
  <2>2. e.pc = "claim" /\ Becomes(p, r, e)
    BY <1>1, <1>3, <2>1 DEF Exec, Becomes
  <2>3. rows' = rows
    BY <1>3 DEF NextFencingToken
  <2>4. NoneWaits /\ \A s \in Runs : Fresh(s)' => Fresh(s)
    BY <2>3 DEF NoneWaits, Fresh
  <2>5. \A q \in Owners, s \in Runs :
          \/ Onward(exec[q][s], exec'[q][s])
          \/ /\ exec'[q][s].pc \in Executing => started'[s] = 1
             /\ exec'[q][s].pc \in Claimed => rows'[s].token = exec'[q][s].token
    BY <2>2, CellBuilt DEF Executing, Claimed
  <2>6. BuiltInvariant'
    BY <1>1, <2>3, <2>4, <2>5, BuiltStep, PassesStay, PassesNameRuns
  <2>7. Routed => Routed'
    BY <1>1, <2>3 DEF Routed, PassInvariant, RoutedToOwner, Active
  <2> QED BY <2>6, <2>7 DEF KeepsRouting
<1> QED BY <1>2, <1>3 DEF DrawToken

LEMMA ClaimRoutes ==
  ASSUME ClusterInvariant, BuiltInvariant, NEW p \in Owners, NEW r \in Runs, ClaimRun(p, r)
  PROVE  KeepsRouting
<1> USE DEF ClusterInvariant
<1>1. exec[p][r] \in Exec /\ reap' = reap /\ ref' = ref /\ started' = started
  BY DEF ClaimRun, ServersFit, liveVars, historyVars
<1>2. CASE Forget(p, r) /\ UNCHANGED ledgerVars
  <2>1. RowsStay /\ NoneWaits
    BY <1>2, IdleStays, NothingWaits
  <2>2. CellsOnward /\ RecoveriesGoOn
    BY <1>1, <1>2, ForgetOnward, PassesStay DEF RecoveriesGoOn
  <2>3. Quiet
    BY <1>1, <2>1, <2>2 DEF Quiet
  <2> QED BY <2>3, QuietKeeps
<1>3. CASE Claim(r, p, Tok(p, r), exec[p][r].gen) /\ Goto(p, r, "activate")
  <2>1. rows \in [Runs -> Row] /\ rows[r].state = "accepted"
    BY <1>3 DEF LedgerInvariant, TypeOK, Claim, ClaimApplies
  <2>2. /\ rows'[r].state = "running" /\ rows'[r].token = Tok(p, r)
        /\ \A s \in Runs \ {r} : rows'[s] = rows[s]
    BY <1>3, <2>1 DEF Claim, Row
  <2>3. PICK e : e = [exec[p][r] EXCEPT !.pc = "activate"]
    OBVIOUS
  <2>4. e.pc = "activate" /\ e.token = Tok(p, r) /\ Becomes(p, r, e)
    BY <1>1, <1>3, <2>3 DEF Exec, Becomes, Goto, Tok
  <2>5. /\ \A q \in Owners : exec[q][r].pc \in {"idle", "draw", "claim"}
        /\ \A q \in Owners : reap[q].pc = "rereserve" => reap[q].run # r
    BY <2>1 DEF ClaimInvariant, Owned
  <2>6. NoneWaits /\ \A s \in Runs : Fresh(s)' => Fresh(s)
    BY <2>2 DEF NoneWaits, Fresh, Absent
  <2>7. \A s \in Runs : rows'[s].token = rows[s].token \/ \A q \in Owners : exec[q][s].pc \notin Claimed
    BY <2>2, <2>5 DEF Claimed
  <2>8. \A q \in Owners, s \in Runs :
          \/ Onward(exec[q][s], exec'[q][s])
          \/ /\ exec'[q][s].pc \in Executing => started'[s] = 1
             /\ exec'[q][s].pc \in Claimed => rows'[s].token = exec'[q][s].token
    BY <2>2, <2>4, CellBuilt DEF Executing, Claimed
  <2>9. BuiltInvariant'
    BY <1>1, <2>6, <2>7, <2>8, BuiltStep, PassesStay, PassesNameRuns
  <2>10. ref[r] = 0
    BY <2>1 DEF BuiltInvariant, Fresh
  <2>11. RoutedToOwner => RoutedToOwner'
    BY <1>1, <2>2, <2>10 DEF RoutedToOwner, Active
  <2>12. PassInvariant => PassInvariant'
    BY <1>1, <2>2, <2>5, PassKept, PassesStay
  <2> QED BY <2>9, <2>11, <2>12 DEF KeepsRouting, Routed
<1> QED BY <1>2, <1>3 DEF ClaimRun

\* The row of a claim that reserves is still its own; nobody recovers a run that has
\* not been built.
LEMMA ReserveRoutes ==
  ASSUME ClusterInvariant, BuiltInvariant, NEW p \in Owners, NEW r \in Runs, ReserveRun(p, r)
  PROVE  KeepsRouting
<1> USE DEF ClusterInvariant
<1>1. /\ exec[p][r] \in Exec /\ exec[p][r].pc = "reserve" /\ UNCHANGED ledgerVars
      /\ reap' = reap /\ started' = started
  BY DEF ReserveRun, At, ServersFit, historyVars
<1>2. RowsStay /\ NoneWaits /\ CellsOnward /\ RecoveriesGoOn
  BY <1>1, IdleStays, NothingWaits, AdmissionOnward, OnwardRecovers
<1>3. CASE ref' = ref
  <2>1. Quiet
    BY <1>1, <1>2, <1>3 DEF Quiet
  <2> QED BY <2>1, QuietKeeps
<1>4. CASE ref' = [ref EXCEPT ![r] = Tok(p, r)]
  <2>1. /\ rows[r].token = Tok(p, r) /\ ~Fresh(r) /\ started[r] = 0
    BY <1>1 DEF BuiltInvariant, ClaimInvariant, Owned, Fresh, StartInvariant, Starting, Tok
  <2>2. /\ ref'[r] = Tok(p, r) /\ \A s \in Runs \ {r} : ref'[s] = ref[s]
        /\ rows' = rows
    BY <1>1, <1>4 DEF BackendFits, ledgerVars
  <2>3. BuiltInvariant'
    BY <1>1, <1>2, <2>1, <2>2, BuiltStep, PassesStay, PassesNameRuns
       DEF RowsStay, CellsOnward
  <2>4. RoutedToOwner => RoutedToOwner'
    BY <2>1, <2>2 DEF RoutedToOwner, Active
  <2>5. \A q \in Owners : reap'[q].pc \in {"redraw", "reclaim"} => reap'[q].run # r
    BY <1>1, <2>1 DEF BuiltInvariant, Recovering
  <2>6. PassInvariant => PassInvariant'
    BY <1>1, <2>2, <2>5, PassKept, PassesStay
  <2> QED BY <2>3, <2>4, <2>6 DEF KeepsRouting, Routed
<1> QED BY <1>3, <1>4 DEF ReserveRun, Reserve, liveVars

LEMMA BuildRoutes ==
  ASSUME ClusterInvariant, BuiltInvariant, NEW p \in Owners, NEW r \in Runs, BuildTurn(p, r)
  PROVE  KeepsRouting
<1> USE DEF ClusterInvariant
<1>1. /\ exec[p][r] \in Exec /\ exec[p][r].pc = "build" /\ UNCHANGED ledgerVars
      /\ reap' = reap /\ ref' = ref /\ rows' = rows
  BY DEF BuildTurn, At, ServersFit, liveVars, ledgerVars
<1>2. RowsStay /\ NoneWaits
  BY <1>1, IdleStays, NothingWaits
<1>3. PICK e : /\ Becomes(p, r, e)
               /\ \/ e.pc = "unwind" /\ started' = started
                  \/ e.pc = "promote" /\ started' = [started EXCEPT ![r] = @ + 1]
  <2>1. PICK e : e = [exec[p][r] EXCEPT !.pc = "promote"]
    OBVIOUS
  <2>2. PICK f : f = [exec[p][r] EXCEPT !.pc = "unwind", !.out = "failed"]
    OBVIOUS
  <2>3. e.pc = "promote" /\ f.pc = "unwind"
    BY <1>1, <2>1, <2>2 DEF Exec
  <2>4. \/ Becomes(p, r, f) /\ started' = started
        \/ Becomes(p, r, e) /\ started' = [started EXCEPT ![r] = @ + 1]
    BY <2>1, <2>2 DEF BuildTurn, Goto, Becomes
  <2> QED BY <2>3, <2>4
<1>4. started[r] = 0 /\ started \in [Runs -> {0, 1}]
  BY <1>1 DEF StartInvariant, Starting
<1>5. /\ \A s \in Runs : started'[s] \in {started[s], 1}
      /\ e.pc = "promote" => started'[r] = 1
  BY <1>3, <1>4
<1>6. \A q \in Owners, s \in Runs :
        \/ Onward(exec[q][s], exec'[q][s])
        \/ /\ exec'[q][s].pc \in Executing => started'[s] = 1
           /\ exec'[q][s].pc \in Claimed => rows'[s].token = exec'[q][s].token
  BY <1>3, <1>5, CellBuilt DEF Executing, Claimed
<1>7. BuiltInvariant'
  BY <1>1, <1>2, <1>5, <1>6, BuiltStep, PassesStay, PassesNameRuns DEF RowsStay
<1>8. Routed => Routed'
  BY <1>1 DEF Routed, PassInvariant, RoutedToOwner, Active
<1> QED BY <1>7, <1>8 DEF KeepsRouting

-----------------------------------------------------------------------------
(* The steps of a recovery                                                 *)

\* A recovery begins with a parked run whose reservation has run out: a reservation
\* that is still there carries the token of the row, and the pass drops it.
LEMMA RecoverRoutes ==
  ASSUME ClusterInvariant, BuiltInvariant, NEW p \in Owners, Recover(p)
  PROVE  KeepsRouting
<1> USE DEF ClusterInvariant
<1>1. /\ UNCHANGED ledgerVars /\ ref' = ref /\ started' = started /\ rows' = rows
      /\ reap[p].run \in Runs
  BY DEF Recover, Reaping, PassesFit, PassFits, liveVars, historyVars, ledgerVars
<1>2. RowsStay /\ NoneWaits /\ CellsOnward
  BY <1>1, IdleStays, NothingWaits, RecoverOnward
<1>3. CASE PassesOnward
  <2>1. Quiet
    BY <1>1, <1>2, <1>3, OnwardRecovers DEF Quiet
  <2> QED BY <2>1, QuietKeeps
<1>4. CASE /\ reap'[p].pc = "redraw" /\ reap'[p].run = reap[p].run
           /\ rows[reap[p].run].state = "waiting_decision"
           /\ ref[reap[p].run] # rows[reap[p].run].token
           /\ \A q \in Owners \ {p} : reap'[q] = reap[q]
  <2>1. started[reap[p].run] = 1
    BY <1>1, <1>4 DEF BuiltInvariant
  <2>2. \A q \in Owners : \/ Recovers(reap[q], reap'[q])
                          \/ reap'[q].pc \in Recovering => started'[reap'[q].run] = 1
    BY <1>1, <1>4, <2>1 DEF Recovers
  <2>3. BuiltInvariant'
    BY <1>1, <1>2, <2>2, BuiltStep, PassesNameRuns DEF RowsStay, CellsOnward
  <2>4. RoutedToOwner => RoutedToOwner' /\ ref[reap[p].run] = 0
    BY <1>1, <1>4 DEF RoutedToOwner, Active, ActiveStates
  <2>5. RoutedToOwner =>
          \A q \in Owners :
            \/ Recovers(reap[q], reap'[q])
            \/ /\ reap'[q].pc = "rereserve" => rows'[reap'[q].run].token = reap'[q].next
               /\ reap'[q].pc \in {"redraw", "reclaim"} => ref'[reap'[q].run] = 0
    BY <1>1, <1>4, <2>4 DEF Recovers
  <2>6. Routed => PassInvariant'
    BY <1>1, <2>5, PassKept DEF Routed
  <2> QED BY <2>3, <2>4, <2>6 DEF KeepsRouting, Routed
<1> QED BY <1>3, <1>4, RecoverOnward

LEMMA RedrawRoutes ==
  ASSUME ClusterInvariant, BuiltInvariant, NEW p \in Owners, Redraw(p)
  PROVE  KeepsRouting
<1> USE DEF ClusterInvariant
<1>1. /\ reap[p] \in Reap /\ reap[p].pc = "redraw" /\ reap[p].run \in Runs
      /\ ref' = ref /\ started' = started /\ rows' = rows /\ exec' = exec
  BY DEF Redraw, Reaping, PassesFit, PassFits, liveVars, historyVars, NextFencingToken
<1>2. NoneWaits /\ CellsOnward /\ \A s \in Runs : Fresh(s)' => Fresh(s)
  BY <1>1, CellsRest DEF NoneWaits, Fresh
<1>3. PICK x : x = [reap[p] EXCEPT !.pc = "reclaim", !.next = tokenSeq + 1, !.gen = generation]
  OBVIOUS
<1>4. x.pc = "reclaim" /\ x.run = reap[p].run /\ Turns(p, x)
  BY <1>1, <1>3 DEF Reap, Redraw, Turns
<1>5. reap'[p] = x /\ \A q \in Owners \ {p} : reap'[q] = reap[q]
  BY <1>4, PassAlone
<1>6. \A q \in Owners : \/ Recovers(reap[q], reap'[q])
                        \/ reap'[q].pc \in Recovering => started'[reap'[q].run] = 1
  BY <1>1, <1>4, <1>5 DEF Recovers, BuiltInvariant, Recovering
<1>7. BuiltInvariant'
  BY <1>1, <1>2, <1>6, BuiltStep, PassesNameRuns DEF CellsOnward
<1>8. RoutedToOwner => RoutedToOwner'
  BY <1>1 DEF RoutedToOwner, Active
<1>9. ASSUME PassInvariant PROVE PassInvariant'
  <2>1. ref[reap[p].run] = 0
    BY <1>1, <1>9 DEF PassInvariant
  <2>2. \A q \in Owners :
          \/ Recovers(reap[q], reap'[q])
          \/ /\ reap'[q].pc = "rereserve" => rows'[reap'[q].run].token = reap'[q].next
             /\ reap'[q].pc \in {"redraw", "reclaim"} => ref'[reap'[q].run] = 0
    BY <1>1, <1>4, <1>5, <2>1 DEF Recovers
  <2> QED BY <1>1, <1>9, <2>2, PassKept
<1> QED BY <1>7, <1>8, <1>9 DEF KeepsRouting, Routed

\* The parked row moves to the new token while nothing is reserved for it.
LEMMA ReclaimRoutes ==
  ASSUME ClusterInvariant, BuiltInvariant, NEW p \in Owners, Reclaim(p)
  PROVE  KeepsRouting
<1> USE DEF ClusterInvariant
<1> DEFINE r == reap[p].run
           next == reap[p].next
<1>1. /\ reap[p] \in Reap /\ reap[p].pc = "reclaim" /\ r \in Runs
      /\ ref' = ref /\ started' = started /\ exec' = exec
  BY DEF Reclaim, Reaping, PassesFit, PassFits, liveVars, historyVars
<1>2. CASE Rest(p) /\ UNCHANGED ledgerVars
  <2>1. RowsStay /\ NoneWaits /\ CellsOnward /\ RecoveriesGoOn
    BY <1>1, <1>2, IdleStays, NothingWaits, CellsRest, RestOnward, OnwardRecovers
  <2>2. Quiet
    BY <1>1, <2>1 DEF Quiet
  <2> QED BY <2>2, QuietKeeps
<1>3. CASE ReclaimWaitingDecision(r, p, reap[p].prev, next, reap[p].gen) /\ Pass(p, "rereserve")
  <2>1. rows \in [Runs -> Row] /\ rows[r].state = "waiting_decision"
    BY <1>3 DEF LedgerInvariant, TypeOK, ReclaimWaitingDecision, ReclaimApplies
  <2>2. /\ rows'[r].state = "waiting_decision" /\ rows'[r].token = next
        /\ \A s \in Runs \ {r} : rows'[s] = rows[s]
    BY <1>1, <1>3, <2>1 DEF ReclaimWaitingDecision, Row
  <2>3. started[r] = 1
    BY <1>1, <2>1 DEF BuiltInvariant
  <2>4. \A q \in Owners : exec[q][r].pc \notin Claimed
    BY <1>1, <2>3 DEF StartInvariant, Starting, Claimed
  <2>5. PICK x : x = [reap[p] EXCEPT !.pc = "rereserve"]
    OBVIOUS
  <2>6. x.pc = "rereserve" /\ x.run = r /\ x.next = next /\ Turns(p, x)
    BY <1>1, <1>3, <2>5 DEF Reap, Pass, Turns
  <2>7. reap'[p] = x /\ \A q \in Owners \ {p} : reap'[q] = reap[q]
    BY <2>6, PassAlone
  <2>8. NoneWaits /\ \A s \in Runs : Fresh(s)' => Fresh(s)
    BY <2>1, <2>2 DEF NoneWaits, Fresh, Absent
  <2>9. \A s \in Runs : rows'[s].token = rows[s].token \/ \A q \in Owners : exec[q][s].pc \notin Claimed
    BY <2>2, <2>4
  <2>10. \A q \in Owners : \/ Recovers(reap[q], reap'[q])
                           \/ reap'[q].pc \in Recovering => started'[reap'[q].run] = 1
    BY <1>1, <2>3, <2>6, <2>7 DEF Recovers
  <2>11. BuiltInvariant'
    BY <1>1, <2>8, <2>9, <2>10, BuiltStep, CellsRest, PassesNameRuns DEF CellsOnward
  <2>12. PassInvariant => ref[r] = 0
    BY <1>1 DEF PassInvariant
  <2>13. Routed => RoutedToOwner'
    BY <1>1, <2>2, <2>12 DEF Routed, RoutedToOwner, Active
  <2>14. ASSUME OnePass, PassInvariant PROVE PassInvariant'
    <3>1. \A q \in Owners \ {p} : reap'[q].pc = "idle"
      BY <1>1, <2>7, <2>14 DEF OnePass
    <3> QED BY <2>2, <2>6, <2>7, <3>1 DEF PassInvariant
  <2> QED BY <2>11, <2>13, <2>14 DEF KeepsRouting, Routed
<1>4. \/ Rest(p) /\ UNCHANGED ledgerVars
      \/ ReclaimWaitingDecision(r, p, reap[p].prev, next, reap[p].gen) /\ Pass(p, "rereserve")
  BY DEF Reclaim
<1> QED BY <1>2, <1>3, <1>4

\* The reservation is made under the token its pass has moved the row to.
LEMMA RereserveRoutes ==
  ASSUME ClusterInvariant, BuiltInvariant, NEW p \in Owners, Rereserve(p)
  PROVE  KeepsRouting
<1> USE DEF ClusterInvariant
<1> DEFINE r == reap[p].run
           next == reap[p].next
<1>1. /\ reap[p] \in Reap /\ reap[p].pc = "rereserve" /\ r \in Runs
      /\ UNCHANGED ledgerVars /\ rows' = rows /\ started' = started
  BY DEF Rereserve, Reaping, PassesFit, PassFits, historyVars, ledgerVars
<1>2. RowsStay /\ NoneWaits
  BY <1>1, IdleStays, NothingWaits
<1>3. CASE Rest(p) /\ UNCHANGED <<ref, exec>>
  <2>1. CellsOnward /\ RecoveriesGoOn
    BY <1>3, CellsRest, RestOnward, OnwardRecovers
  <2>2. Quiet
    BY <1>1, <1>2, <1>3, <2>1 DEF Quiet
  <2> QED BY <2>2, QuietKeeps
<1>4. CASE /\ ref' = [ref EXCEPT ![r] = next]
           /\ exec' = [exec EXCEPT ![p][r] =
                [Idle EXCEPT !.pc = "parked", !.token = next, !.own = "held",
                             !.renew = TRUE, !.asked = TRUE]]
           /\ Pass(p, "drop")
  <2>1. /\ ref'[r] = next /\ \A s \in Runs \ {r} : ref'[s] = ref[s]
    BY <1>1, <1>4 DEF BackendFits
  <2>2. PICK e : e = [Idle EXCEPT !.pc = "parked", !.token = next, !.own = "held",
                                  !.renew = TRUE, !.asked = TRUE]
    OBVIOUS
  <2>3. e.pc = "parked" /\ Becomes(p, r, e)
    BY <1>4, <2>2 DEF Idle, Becomes
  <2>4. RecoveriesGoOn /\ reap'[p].pc = "drop" /\ \A q \in Owners \ {p} : reap'[q] = reap[q]
    BY <1>1, <1>4, PassOn, OnwardRecovers DEF Recovering
  <2>5. ~Fresh(r) /\ started[r] = 1
    BY <1>1 DEF ClaimInvariant, Owned, Fresh, BuiltInvariant, Recovering
  <2>6. \A q \in Owners, s \in Runs :
          \/ Onward(exec[q][s], exec'[q][s])
          \/ /\ exec'[q][s].pc \in Executing => started'[s] = 1
             /\ exec'[q][s].pc \in Claimed => rows'[s].token = exec'[q][s].token
    BY <1>1, <2>3, <2>5, CellBuilt DEF Claimed
  <2>7. BuiltInvariant'
    BY <1>1, <1>2, <2>1, <2>4, <2>5, <2>6, BuiltStep, PassesNameRuns DEF RowsStay, RecoveriesGoOn
  <2>8. PassInvariant => rows[r].token = next
    BY <1>1 DEF PassInvariant
  <2>9. Routed => RoutedToOwner'
    BY <1>1, <2>1, <2>8 DEF Routed, RoutedToOwner, Active
  <2>10. ASSUME OnePass, PassInvariant PROVE PassInvariant'
    <3>1. \A q \in Owners \ {p} : reap'[q].pc = "idle"
      BY <1>1, <2>4, <2>10 DEF OnePass
    <3> QED BY <2>4, <3>1 DEF PassInvariant
  <2> QED BY <2>7, <2>9, <2>10 DEF KeepsRouting, Routed
<1>5. \/ Rest(p) /\ UNCHANGED <<ref, exec>>
      \/ /\ ref' = [ref EXCEPT ![r] = next]
         /\ exec' = [exec EXCEPT ![p][r] =
              [Idle EXCEPT !.pc = "parked", !.token = next, !.own = "held",
                           !.renew = TRUE, !.asked = TRUE]]
         /\ Pass(p, "drop")
  BY DEF Rereserve, Reserve
<1> QED BY <1>3, <1>4, <1>5

-----------------------------------------------------------------------------
(* Routing                                                                 *)

LEMMA RoutingStep ==
  ASSUME ClusterInvariant, BuiltInvariant, [RuntimeNext]_runtimeVars
  PROVE  KeepsRouting
<1>1. ASSUME NEW p \in Owners, NEW r \in Runs,
             AdmissionStep(p, r) \/ ExecutionStep(p, r) \/ AbortRun(p, r)
      PROVE  KeepsRouting
  <2>1. CASE DrawToken(p, r) \/ ClaimRun(p, r) \/ ReserveRun(p, r) \/ BuildTurn(p, r)
    BY <2>1, DrawRoutes, ClaimRoutes, ReserveRoutes, BuildRoutes
  <2>2. CASE ~(DrawToken(p, r) \/ ClaimRun(p, r) \/ ReserveRun(p, r) \/ BuildTurn(p, r))
    <3>1. Quiet
      BY <1>1, <2>2, QuietAdmission, QuietExecution, QuietAbort DEF AdmissionStep
    <3> QED BY <3>1, QuietKeeps
  <2> QED BY <2>1, <2>2
<1>2. ASSUME NEW r \in Runs, AbortIntent(r)
      PROVE  KeepsRouting
  BY <1>2, QuietAbort, QuietKeeps
<1>3. ASSUME NEW p \in Owners, ReapStep(p)
      PROVE  KeepsRouting
  <2>1. CASE ScanStep(p) \/ ListStale(p) \/ Judge(p) \/ Condemn(p) \/ Drop(p)
    BY <2>1, QuietReaper, QuietKeeps
  <2> QED BY <1>3, <2>1, RecoverRoutes, RedrawRoutes, ReclaimRoutes, RereserveRoutes
          DEF ReapStep, PassStep
<1>4. CASE LeaseStep \/ FaultStep
  BY <1>4, QuietEnvironment, QuietKeeps
<1>5. CASE UNCHANGED runtimeVars
  <2>1. UNCHANGED <<rows, exec, reap, started, ref>>
    BY <1>5 DEF runtimeVars
  <2> QED BY <2>1 DEF KeepsRouting, BuiltInvariant, Fresh, Routed, PassInvariant, RoutedToOwner,
                      Active
<1> QED BY <1>1, <1>2, <1>3, <1>4, <1>5 DEF RuntimeNext

LEMMA RoutingInit == RuntimeInit => BuiltInvariant /\ Routed
<1> SUFFICES ASSUME RuntimeInit PROVE BuiltInvariant /\ Routed
  OBVIOUS
<1>1. /\ \A p \in Owners, r \in Runs : exec[p][r] = Idle
      /\ \A p \in Owners : reap[p] = Resting
      /\ \A r \in Runs : ref[r] = 0 /\ rows[r] = AbsentRow
  BY DEF RuntimeInit, Init
<1> QED BY <1>1 DEF BuiltInvariant, Routed, PassInvariant, RoutedToOwner, Idle, Resting, Executing,
                    Recovering, AbsentRow, Absent

(* What runs in the memory of a server was built once and claimed under    *)
(* the token of its row: a row waits for an answer only when its turn has  *)
(* been built, and a claim still holds its row when it reserves.           *)
THEOREM BuiltIsInvariant == RuntimeSpec => []BuiltInvariant
<1>1. ClusterInvariant /\ BuiltInvariant /\ [RuntimeNext]_runtimeVars => BuiltInvariant'
  BY RoutingStep DEF KeepsRouting
<1> QED BY RoutingInit, <1>1, ClusterIsInvariant, PTL DEF RuntimeSpec

(* As long as no pass of a reaper goes on beside its successor's, a live   *)
(* reservation of a run in progress carries the token of its row, whatever *)
(* else fails.                                                             *)
THEOREM LonePassesRoute == RuntimeSpec /\ []OnePass => []RoutedToOwner
<1>1. ClusterInvariant /\ BuiltInvariant /\ OnePass /\ Routed /\ [RuntimeNext]_runtimeVars
        => Routed'
  BY RoutingStep DEF KeepsRouting
<1>2. Routed => RoutedToOwner
  BY DEF Routed
<1> QED BY RoutingInit, <1>1, <1>2, ClusterIsInvariant, BuiltIsInvariant, PTL DEF RuntimeSpec

-----------------------------------------------------------------------------
(* Passes lead                                                             *)

\* Without a failover past a live leader, and without a backend that comes back
\* empty, a pass ends before the leadership passes on.
Undisputed == Faults \cap {"failover", "backend_loss"} = {}

PassLeads ==
  /\ up \in [Owners -> {"up", "closing", "down"}]
  /\ \A p \in Owners : reap[p].pc # "idle" => leader = p /\ up[p] = "up"

NoneBegins == \A p \in Owners : reap'[p].pc # "idle" => reap[p].pc # "idle"

LEMMA PassesGoOn ==
  ASSUME PassesFit, NEW p \in Owners, NEW x, Turns(p, x), reap[p].pc # "idle"
  PROVE  NoneBegins
BY DEF PassesFit, Turns, NoneBegins

LEMMA ReapersGoOn ==
  ASSUME PassesFit, NEW p \in Owners, PassStep(p)
  PROVE  NoneBegins /\ leader' = leader /\ up' = up
<1>1. reap[p].pc # "idle"
  BY DEF PassStep, ListStale, Judge, Recover, Redraw, Reclaim, Rereserve, Condemn, Drop, Reaping
<1>2. leader' = leader /\ up' = up
  BY DEF PassStep, ListStale, Judge, Recover, Redraw, Reclaim, Rereserve, Condemn, Drop, liveVars
<1>3. \E x : Turns(p, x)
  BY DEF PassStep, ListStale, Start, Judge, Recover, Redraw, Reclaim, Rereserve, Condemn, Drop,
         Pass, Rest, Turns
<1> QED BY <1>1, <1>2, <1>3, PassesGoOn

LEMMA LeadsKept ==
  ASSUME PassLeads, NoneBegins, leader' = leader, up' = up
  PROVE  PassLeads'
BY DEF PassLeads, NoneBegins

LEMMA ScanLeads ==
  ASSUME PassesFit, PassLeads, NEW p \in Owners, ScanStep(p)
  PROVE  PassLeads'
<1>1. /\ up[p] = "up" /\ leader \in {NoOwner, p} /\ leader' = p /\ up' = up
      /\ \E x : Turns(p, x)
  BY ScanBegins DEF BeginPass, Start, Reaping, Turns
<1>2. \A q \in Owners \ {p} : reap[q].pc = "idle" /\ reap'[q] = reap[q]
  BY <1>1, PassAlone, LedgerAssumption DEF PassLeads
<1> QED BY <1>1, <1>2 DEF PassLeads

LEMMA ServersLead ==
  ASSUME Undisputed, PassesFit, PassLeads, LeaseStep \/ FaultStep
  PROVE  PassLeads'
<1>1. CASE \/ \E p \in Owners, r \in Runs : LoseOwnership(p, r)
           \/ \E r \in Runs : LeaseExpires(r)
           \/ \E p \in Owners : ObserveExpiredLease(p)
  BY <1>1 DEF LoseOwnership, LeaseExpires, ObserveExpiredLease, liveVars, serverVars, PassLeads
<1>2. CASE LeaderExpires
  BY <1>2 DEF LeaderExpires, Inject, Undisputed, PassLeads, serverVars
<1>3. CASE BackendLoss
  BY <1>3 DEF BackendLoss, Inject, Undisputed
<1>4. ASSUME NEW p \in Owners, Shutdown(p) \/ Exit(p) \/ Crash(p)
      PROVE  PassLeads'
  <2>1. /\ Turns(p, Resting) /\ leader' \in {leader, IF leader = p THEN NoOwner ELSE leader}
        /\ up' \in [Owners -> {"up", "closing", "down"}]
        /\ \A q \in Owners \ {p} : up'[q] = up[q]
    BY <1>4 DEF Shutdown, Exit, Crash, Stop, Turns, liveVars, PassLeads
  <2>2. reap'[p].pc = "idle" /\ \A q \in Owners \ {p} : reap'[q] = reap[q]
    BY <2>1, PassAlone DEF Resting
  <2> QED BY <2>1, <2>2 DEF PassLeads
<1> QED BY <1>1, <1>2, <1>3, <1>4 DEF LeaseStep, FaultStep

LEMMA PassesKeepLeading ==
  ASSUME Undisputed, PassesFit, PassLeads, [RuntimeNext]_runtimeVars
  PROVE  PassLeads'
<1>1. ASSUME NEW p \in Owners, NEW r \in Runs,
             AdmissionStep(p, r) \/ ExecutionStep(p, r) \/ AbortRun(p, r) \/ AbortIntent(r)
      PROVE  PassLeads'
  <2>1. reap' = reap /\ leader' = leader /\ up' = up
    BY <1>1 DEF AdmissionStep, AdmitRun, DrawToken, ClaimRun, ActivateFence, ReserveRun,
                ConfirmLease, BuildTurn, PromoteRun, UnwindAdmission, AbandonClaim,
                ExecutionStep, WriteHistory, CreateDecision, ParkLedger, ParkView, EndEvent,
                FinishUnnamed, FinishErrored, FinalizeRow, ReleaseSlot, AnswerDecision,
                ResumeLedger, ResumeView, AbortRun, AbortIntent, liveVars, serverVars
  <2> QED BY <2>1 DEF PassLeads
<1>2. ASSUME NEW r \in Runs, AbortIntent(r)
      PROVE  PassLeads'
  BY <1>2 DEF AbortIntent, liveVars, serverVars, PassLeads
<1>3. ASSUME NEW p \in Owners, ReapStep(p)
      PROVE  PassLeads'
  BY <1>3, ScanLeads, ReapersGoOn, LeadsKept DEF ReapStep
<1>4. CASE LeaseStep \/ FaultStep
  BY <1>4, ServersLead
<1>5. CASE UNCHANGED runtimeVars
  BY <1>5 DEF runtimeVars, PassLeads
<1> QED BY <1>1, <1>2, <1>3, <1>4, <1>5 DEF RuntimeNext

LEMMA InitLeads == RuntimeInit => PassLeads
BY DEF RuntimeInit, PassLeads, Resting

(* While no leadership is lost to a live leader, the pass of a reaper has  *)
(* none beside it.                                                         *)
THEOREM PassesAreAlone ==
  ASSUME Undisputed
  PROVE  RuntimeSpec => []OnePass
<1>1. ClusterInvariant /\ PassLeads /\ [RuntimeNext]_runtimeVars => PassLeads'
  BY PassesKeepLeading DEF ClusterInvariant
<1>2. PassLeads => OnePass
  BY DEF PassLeads, OnePass
<1> QED BY InitLeads, <1>1, <1>2, ClusterIsInvariant, PTL DEF RuntimeSpec

(* With a leadership that fails only with its leader, the server that      *)
(* commands and answers are routed to is the one that owns the run         *)
(* durably, through crashes, expiries, shutdowns and failed statements.    *)
THEOREM CommandsReachTheOwner ==
  ASSUME Undisputed
  PROVE  RuntimeSpec => []RoutedToOwner
BY LonePassesRoute, PassesAreAlone, PTL

-----------------------------------------------------------------------------
(* An ownership that was stopped is never recorded as a success            *)

\* A token has one holder: the server it was drawn by, or the pass that reclaims with it.
Holds(p, r, t)  == exec[p][r].pc \notin {"idle", "draw"} /\ exec[p][r].token = t
NextOf(p, r, t) == reap[p].pc \in {"reclaim", "rereserve"} /\ reap[p].run = r /\ reap[p].next = t
HoldersDiffer ==
  \A p, q \in Owners, r \in Runs, t \in 1..MaxToken :
    Holds(p, r, t) => (Holds(q, r, t) => p = q) /\ ~NextOf(q, r, t)

\* Every claim is of the backend's generation, and so is every sweep: none finds a
\* claimed run stale, and what is condemned beside the lease index was never claimed.
GenerationKept ==
  /\ \A r \in Runs : rows[r].generation \in {NoGeneration, generation}
  /\ \A p \in Owners, r \in Runs : exec[p][r].pc = "claim" => exec[p][r].gen = generation
  /\ \A p \in Owners :
       /\ reap[p].pc \in {"reclaim", "sweep"} => reap[p].gen = generation
       /\ reap[p].pc # "idle" /\ ~reap[p].indexed => reap[p].token = 0

\* What is about to be reserved is in progress.
ReservedAreActive ==
  /\ \A p \in Owners, r \in Runs : exec[p][r].pc \in Claimed => Active(r)
  /\ \A p \in Owners : reap[p].pc = "rereserve" => Active(reap[p].run)

\* Only the server that recorded a success is left with it, and it has ended the row.
OutcomeInvariant ==
  \A p \in Owners, r \in Runs :
    /\ exec[p][r].pc = "unwind" => exec[p][r].out # "completed"
    /\ exec[p][r].pc = "release" => ~(Active(r) /\ rows[r].token = exec[p][r].token)
    /\ rows[r].state = "completed" /\ exec[p][r].pc \notin Unclaimed
         /\ exec[p][r].token = rows[r].token => exec[p][r].pc = "release"

\* While a stopped ownership still holds its row, the projection says so, and what the
\* server makes of it is no success.
StoppedStatuses == {"aborting", "waiting_decision", "aborted", "errored", "lost"}
Stopped(r, t) == HaltedAt(r, t) /\ Active(r) /\ rows[r].token = t
HaltInvariant ==
  /\ halted \subseteq drawn
  /\ \A r \in Runs, t \in 1..MaxToken, p \in Owners :
       HaltedAt(r, t) =>
         /\ Holds(p, r, t) => exec[p][r].pc \notin Reserving
         /\ ~NextOf(p, r, t)
  /\ \A r \in Runs, t \in 1..MaxToken :
       Stopped(r, t) =>
         /\ ViewIs(r, t) /\ view.status \in StoppedStatuses
         /\ \A p \in Owners :
              Holds(p, r, t) =>
                /\ exec[p][r].pc \in {"resuming", "resumed"} => view.status # "waiting_decision"
                /\ exec[p][r].pc = "finish" => exec[p][r].out # "completed"

ViewFits ==
  view \in [run : Runs \cup {NoInvocation}, token : 0..MaxToken,
            status : ActiveStatuses \cup EndStatuses \cup {"none"}, leased : BOOLEAN]

AbortInvariant ==
  /\ ViewFits /\ HoldersDiffer /\ GenerationKept /\ ReservedAreActive /\ OutcomeInvariant
  /\ HaltInvariant /\ StoppedNeverCompletes

\* What the invariant rests on.
Base == ClusterInvariant /\ BuiltInvariant /\ PassInvariant

-----------------------------------------------------------------------------
(* The steps of servers that hold what they held                           *)

\* A server goes on with its token, or forgets it; it claims nothing new and keeps to
\* the release of its slot.
Follows(e, e2) ==
  \/ e2.pc \in {"idle", "draw"}
  \/ /\ e.pc \notin {"idle", "draw"} /\ e2.token = e.token
     /\ e2.pc = "claim" <=> e.pc = "claim"
     /\ e2.pc = "claim" => e2.gen = e.gen
     /\ e2.pc \in Claimed => e.pc \in Claimed
     /\ e.pc = "release" => e2.pc = "release"
CellsFollow == \A p \in Owners, r \in Runs : Follows(exec[p][r], exec'[p][r])

PassFollows(x, x2) ==
  /\ x2.pc \in {"reclaim", "rereserve"} =>
       x.pc = x2.pc /\ x.run = x2.run /\ x.next = x2.next /\ x.gen = x2.gen
  /\ x2.pc = "sweep" => x2.gen = generation \/ (x.pc = "sweep" /\ x2.gen = x.gen)
  /\ x2.pc # "idle" /\ ~x2.indexed =>
       x2.token = 0 \/ (x.pc # "idle" /\ ~x.indexed /\ x2.token = x.token)
PassesFollowOn == \A p \in Owners : PassFollows(reap[p], reap'[p])

\* How a server comes to an end, or to a continuation.
Turn(p, r) ==
  LET e == exec[p][r]  e2 == exec'[p][r] IN
  /\ e2.pc = "unwind" => e2.out # "completed" \/ (e.pc = "unwind" /\ e.out = e2.out)
  /\ e2.pc = "finish" => \/ e2.out # "completed" \/ ~Stopped(r, e.token)
                         \/ e.pc = "finish" /\ e.out = e2.out
  /\ e2.pc \in {"resuming", "resumed"} =>
       e.pc \in {"resuming", "resumed"} \/ ~HaltedAt(r, e.token)
  /\ e2.pc = "release" => e.pc = "release" \/ ~(Active(r)' /\ rows'[r].token = e2.token)
CellsTurn == \A p \in Owners, r \in Runs : Turn(p, r)

\* No row is claimed or reclaimed; a row that ends is about to be reserved by nobody,
\* and one that ends as a success was not stopped, and is left to a release.
RowsSettle ==
  \A r \in Runs :
    /\ rows'[r].token = rows[r].token /\ rows'[r].generation = rows[r].generation
    /\ Active(r)' => Active(r) \/ rows[r].token = 0
    /\ Active(r) => \/ Active(r)'
                    \/ \A p \in Owners :
                         /\ exec'[p][r].pc \in Claimed => exec'[p][r].token # rows[r].token
                         /\ ~(/\ reap'[p].pc = "rereserve" /\ reap'[p].run = r
                              /\ reap'[p].next = rows[r].token)
    /\ rows'[r].state = "completed" =>
         \/ rows[r].state = "completed"
         \/ /\ ~Stopped(r, rows[r].token)
            /\ Active(r)
            /\ \A p \in Owners :
                 exec'[p][r].pc \notin Unclaimed /\ exec'[p][r].token = rows[r].token
                   => exec'[p][r].pc = "release"

\* The projection goes on showing what was stopped.
ViewStays ==
  \A r \in Runs, t \in 1..MaxToken :
    Stopped(r, t) =>
      /\ view'.run = r /\ view'.token = t /\ view'.status \in StoppedStatuses
      /\ view'.status = "waiting_decision" =>
           \/ view.status = "waiting_decision"
           \/ \A p \in Owners : Holds(p, r, t)' => exec'[p][r].pc \notin {"resuming", "resumed"}

Going ==
  /\ CellsFollow /\ PassesFollowOn /\ CellsTurn /\ RowsSettle
  /\ generation' = generation /\ drawn \subseteq drawn'
Steady == Going /\ ViewFits' /\ ViewStays /\ halted' = halted

LEMMA HoldersFollow ==
  ASSUME CellsFollow
  PROVE  \A p \in Owners, r \in Runs : \A t : Holds(p, r, t)' => Holds(p, r, t)
BY DEF CellsFollow, Follows, Holds

LEMMA NextsFollow ==
  ASSUME PassesFollowOn
  PROVE  \A p \in Owners, r \in Runs : \A t : NextOf(p, r, t)' => NextOf(p, r, t)
BY DEF PassesFollowOn, PassFollows, NextOf

LEMMA GoingHolders ==
  ASSUME HoldersDiffer, CellsFollow, PassesFollowOn
  PROVE  HoldersDiffer'
BY HoldersFollow, NextsFollow DEF HoldersDiffer

LEMMA GoingGenerations ==
  ASSUME GenerationKept, Going
  PROVE  GenerationKept'
<1>1. \A r \in Runs : rows'[r].generation \in {NoGeneration, generation'}
  BY DEF GenerationKept, Going, RowsSettle
<1>2. \A p \in Owners, r \in Runs : exec'[p][r].pc = "claim" => exec'[p][r].gen = generation'
  BY DEF GenerationKept, Going, CellsFollow, Follows
<1>3. \A p \in Owners :
        /\ reap'[p].pc \in {"reclaim", "sweep"} => reap'[p].gen = generation'
        /\ reap'[p].pc # "idle" /\ ~reap'[p].indexed => reap'[p].token = 0
  BY DEF GenerationKept, Going, PassesFollowOn, PassFollows
<1> QED BY <1>1, <1>2, <1>3 DEF GenerationKept

LEMMA GoingReserved ==
  ASSUME Base, ReservedAreActive, Going
  PROVE  ReservedAreActive'
<1>1. RowsSettle
  BY DEF Going
<1>2. ASSUME NEW p \in Owners, NEW r \in Runs, exec'[p][r].pc \in Claimed
      PROVE  Active(r)'
  <2>1. exec[p][r].pc \in Claimed /\ exec'[p][r].token = exec[p][r].token
    BY <1>2 DEF Going, CellsFollow, Follows, Claimed
  <2>2. Active(r) /\ rows[r].token = exec'[p][r].token
    BY <2>1 DEF ReservedAreActive, Base, BuiltInvariant, Claimed
  <2> QED BY <1>1, <1>2, <2>2 DEF RowsSettle
<1>3. ASSUME NEW p \in Owners, reap'[p].pc = "rereserve"
      PROVE  Active(reap[p].run)' /\ reap'[p].run = reap[p].run
  <2>1. reap[p].pc = "rereserve" /\ reap[p].run = reap'[p].run /\ reap[p].next = reap'[p].next
    BY <1>3 DEF Going, PassesFollowOn, PassFollows
  <2>2. PICK r \in Runs : r = reap[p].run
    BY <2>1, PassesNameRuns DEF Base, ClusterInvariant, Recovering
  <2>3. Active(r) /\ rows[r].token = reap'[p].next
    BY <2>1, <2>2 DEF ReservedAreActive, Base, PassInvariant
  <2>5. Active(r)'
    BY <1>1, <1>3, <2>1, <2>2, <2>3 DEF RowsSettle
  <2> QED BY <2>1, <2>2, <2>5 DEF Active
<1> QED BY <1>2, <1>3 DEF ReservedAreActive, Active

\* The token of a server that is past its draw was drawn.
LEMMA HeldIsDrawn ==
  ASSUME ClusterInvariant, NEW p \in Owners, NEW r \in Runs,
         exec[p][r].pc \notin {"idle", "draw"}
  PROVE  exec[p][r].token \in 1..MaxToken /\ [run |-> r, token |-> exec[p][r].token] \in drawn
BY DEF ClusterInvariant, ServersFit, ExecFits, LedgerInvariant, TypeOK

LEMMA GoingOutcomes ==
  ASSUME Base, OutcomeInvariant, Going
  PROVE  OutcomeInvariant'
<1>1. RowsSettle
  BY DEF Going
<1> SUFFICES ASSUME NEW p \in Owners, NEW r \in Runs, exec'[p][r].pc \notin {"idle", "draw"}
             PROVE  /\ exec'[p][r].pc = "unwind" => exec'[p][r].out # "completed"
                    /\ exec'[p][r].pc = "release"
                         => ~(Active(r)' /\ rows'[r].token = exec'[p][r].token)
                    /\ rows'[r].state = "completed" /\ exec'[p][r].pc \notin Unclaimed
                         /\ exec'[p][r].token = rows'[r].token => exec'[p][r].pc = "release"
  BY DEF OutcomeInvariant, Unclaimed, Active
<1>2. /\ Turn(p, r) /\ exec[p][r].pc \notin {"idle", "draw"}
      /\ exec'[p][r].token = exec[p][r].token
      /\ exec[p][r].pc = "claim" => exec'[p][r].pc = "claim"
      /\ exec[p][r].pc = "release" => exec'[p][r].pc = "release"
  BY DEF Going, CellsTurn, CellsFollow, Follows
<1>3. exec[p][r].token # 0 /\ rows'[r].token = rows[r].token
  <2>1. exec[p][r].token \in 1..MaxToken
    BY <1>2, HeldIsDrawn DEF Base
  <2>2. rows'[r].token = rows[r].token
    BY <1>1 DEF RowsSettle
  <2> QED BY <2>1, <2>2
<1>4. exec'[p][r].pc = "unwind" => exec'[p][r].out # "completed"
  BY <1>2 DEF Turn, OutcomeInvariant
<1>5. exec'[p][r].pc = "release" => ~(Active(r)' /\ rows'[r].token = exec'[p][r].token)
  <2>1. Active(r)' => Active(r) \/ rows[r].token = 0
    BY <1>1 DEF RowsSettle
  <2> QED BY <1>2, <1>3, <2>1 DEF Turn, OutcomeInvariant
<1>6. ASSUME rows'[r].state = "completed", exec'[p][r].pc \notin Unclaimed,
             exec'[p][r].token = rows'[r].token
      PROVE  exec'[p][r].pc = "release"
  <2>1. CASE rows[r].state = "completed"
    <3>1. exec[p][r].pc \notin Unclaimed /\ exec[p][r].token = rows[r].token
      BY <1>2, <1>3, <1>6 DEF Unclaimed
    <3> QED BY <1>2, <2>1, <3>1 DEF OutcomeInvariant
  <2>2. CASE rows[r].state # "completed"
    BY <1>1, <1>3, <1>6, <2>2 DEF RowsSettle
  <2> QED BY <2>1, <2>2
<1> QED BY <1>4, <1>5, <1>6

\* A halted ownership goes on to no claim or reservation.
LEMMA HaltsFollow ==
  ASSUME HaltInvariant, CellsFollow, PassesFollowOn, NEW r \in Runs, NEW t \in 1..MaxToken,
         NEW p \in Owners, HaltedAt(r, t)
  PROVE  /\ Holds(p, r, t)' => exec'[p][r].pc \notin Reserving
         /\ ~NextOf(p, r, t)'
<1>1. ~NextOf(p, r, t)'
  BY NextsFollow DEF HaltInvariant
<1>2. ASSUME Holds(p, r, t)', exec'[p][r].pc \in Reserving
      PROVE  FALSE
  <2>1. Holds(p, r, t)
    BY <1>2, HoldersFollow
  <2>2. exec[p][r].pc \notin Reserving
    BY <2>1 DEF HaltInvariant
  <2>3. Follows(exec[p][r], exec'[p][r])
    BY DEF CellsFollow
  <2> QED BY <1>2, <2>2, <2>3 DEF Follows, Reserving, Claimed, Holds
<1> QED BY <1>1, <1>2

LEMMA SteadyHalts ==
  ASSUME Base, HaltInvariant, StoppedNeverCompletes, Steady
  PROVE  HaltInvariant' /\ StoppedNeverCompletes'
<1>1. RowsSettle /\ Going
  BY DEF Steady, Going
<1>2. halted' = halted /\ drawn \subseteq drawn' /\ CellsFollow /\ PassesFollowOn
  BY DEF Steady, Going
<1>3. \A r, t : HaltedAt(r, t)' => HaltedAt(r, t)
  BY <1>2 DEF HaltedAt
<1>4. ASSUME NEW r \in Runs, NEW t \in 1..MaxToken, NEW p \in Owners, HaltedAt(r, t)'
      PROVE  /\ Holds(p, r, t)' => exec'[p][r].pc \notin Reserving
             /\ ~NextOf(p, r, t)'
  BY <1>2, <1>3, <1>4, HaltsFollow
<1>5. ASSUME NEW r \in Runs, NEW t \in 1..MaxToken, Stopped(r, t)'
      PROVE  /\ ViewIs(r, t)' /\ view'.status \in StoppedStatuses
             /\ \A p \in Owners :
                  Holds(p, r, t)' =>
                    /\ exec'[p][r].pc \in {"resuming", "resumed"}
                         => view'.status # "waiting_decision"
                    /\ exec'[p][r].pc = "finish" => exec'[p][r].out # "completed"
  <2>1. Stopped(r, t)
    BY <1>1, <1>3, <1>5 DEF Stopped, RowsSettle
  <2>2. ViewIs(r, t)' /\ view'.status \in StoppedStatuses
    BY <2>1 DEF Steady, ViewStays, ViewIs
  <2>3. ASSUME NEW p \in Owners, Holds(p, r, t)'
        PROVE  /\ exec'[p][r].pc \in {"resuming", "resumed"} => view'.status # "waiting_decision"
               /\ exec'[p][r].pc = "finish" => exec'[p][r].out # "completed"
    <3>1. Holds(p, r, t) /\ exec[p][r].token = t /\ Turn(p, r)
      BY <1>1, <1>2, <2>3, HoldersFollow DEF Holds, Going, CellsTurn
    <3>2. /\ exec[p][r].pc \in {"resuming", "resumed"} => view.status # "waiting_decision"
          /\ exec[p][r].pc = "finish" => exec[p][r].out # "completed"
      BY <2>1, <3>1 DEF HaltInvariant
    <3>3. HaltedAt(r, t)
      BY <2>1 DEF Stopped
    <3>4. exec'[p][r].pc = "finish" => exec'[p][r].out # "completed"
      BY <2>1, <3>1, <3>2 DEF Turn
    <3>5. exec'[p][r].pc \in {"resuming", "resumed"} => exec[p][r].pc \in {"resuming", "resumed"}
      BY <3>1, <3>3 DEF Turn
    <3> QED BY <2>1, <2>3, <3>2, <3>4, <3>5 DEF Steady, ViewStays
  <2> QED BY <2>2, <2>3
<1>6. HaltInvariant'
  BY <1>2, <1>4, <1>5 DEF HaltInvariant
<1>7. StoppedNeverCompletes'
  <2> SUFFICES ASSUME NEW h \in halted, rows'[h.run].token = h.token,
                      rows'[h.run].state = "completed"
               PROVE  FALSE
    BY <1>2 DEF StoppedNeverCompletes
  <2>1. PICK r \in Runs, t \in 1..MaxToken : h = [run |-> r, token |-> t]
    BY DEF HaltInvariant, Base, ClusterInvariant, LedgerInvariant, TypeOK
  <2>2. HaltedAt(r, t) /\ rows'[r].state = "completed" /\ rows[r].token = t
    BY <1>1, <2>1 DEF HaltedAt, RowsSettle
  <2>3. rows[r].state # "completed"
    BY <2>1, <2>2 DEF StoppedNeverCompletes
  <2>4. Active(r) /\ ~Stopped(r, t)
    BY <1>1, <2>2, <2>3 DEF RowsSettle
  <2> QED BY <2>2, <2>4 DEF Stopped
<1> QED BY <1>6, <1>7

LEMMA SteadyKeeps ==
  ASSUME Base, AbortInvariant, Steady
  PROVE  AbortInvariant'
BY GoingHolders, GoingGenerations, GoingReserved, GoingOutcomes, SteadyHalts
   DEF AbortInvariant, Steady, Going

-----------------------------------------------------------------------------
(* What makes a step steady                                                *)

LEMMA OnwardFollows == CellsOnward => CellsFollow
BY DEF CellsOnward, Onward, CellsFollow, Follows

LEMMA PassesOnwardFollow == PassesOnward => PassesFollowOn
BY DEF PassesOnward, PassOnward, Recovers, Recovering, PassesFollowOn, PassFollows

LEMMA NoneFinishesTurns == NoneFinishes => CellsTurn
BY DEF NoneFinishes, CellsTurn, Turn

LEMMA DrawnStay == [Next]_ledgerVars => drawn \subseteq drawn'
BY DEF Next, AdmitStep, SkipStep, TokenStep, ClaimStep, WaitStep, ResumeStep, ReclaimStep,
       FinalizeStep, AbortStep, Admit, SkipPosition, NextFencingToken, Claim, SetWaitingDecision,
       Resume, ReclaimWaitingDecision, Finalize, RequestAbort, ledgerVars

OthersStay(p, r) ==
  \A q \in Owners, s \in Runs : ~(q = p /\ s = r) => exec'[q][s] = exec[q][s]

LEMMA CellTurns ==
  ASSUME NEW p \in Owners, NEW r \in Runs, OthersStay(p, r), Turn(p, r)
  PROVE  CellsTurn
<1>1. ASSUME NEW q \in Owners, NEW s \in Runs, exec'[q][s] = exec[q][s]
      PROVE  Turn(q, s)
  BY <1>1 DEF Turn
<1> QED BY <1>1 DEF CellsTurn, OthersStay

\* A place at which nothing has been decided, or a failure.
Harmless(e) == \/ e.pc \notin {"unwind", "finish", "resuming", "resumed", "release"}
               \/ e.pc \in {"unwind", "finish"} /\ e.out # "completed"

LEMMA HarmlessTurns ==
  ASSUME NEW p \in Owners, NEW r \in Runs, OthersStay(p, r), Harmless(exec'[p][r])
  PROVE  CellsTurn
<1>1. Turn(p, r)
  BY DEF Turn, Harmless
<1> QED BY <1>1, CellTurns

LEMMA GotoPlace ==
  ASSUME ServersFit, NEW p \in Owners, NEW r \in Runs, NEW pc, Goto(p, r, pc)
  PROVE  /\ exec'[p][r].pc = pc /\ exec'[p][r].token = exec[p][r].token
         /\ exec'[p][r].out = exec[p][r].out /\ OthersStay(p, r)
<1>1. exec[p][r] \in Exec
  BY DEF ServersFit
<1>2. PICK e : e = [exec[p][r] EXCEPT !.pc = pc]
  OBVIOUS
<1>3. e.pc = pc /\ e.token = exec[p][r].token /\ e.out = exec[p][r].out
  BY <1>1, <1>2 DEF Exec
<1>4. exec'[p][r] = e /\ OthersStay(p, r)
  BY <1>2 DEF Goto, ServersFit, OthersStay
<1> QED BY <1>3, <1>4

LEMMA CellPlace ==
  ASSUME ServersFit, NEW p \in Owners, NEW r \in Runs, NEW e, Becomes(p, r, e)
  PROVE  exec'[p][r] = e /\ OthersStay(p, r)
BY DEF ServersFit, Becomes, OthersStay

LEMMA AsksPlace ==
  ASSUME ServersFit, NEW p \in Owners, NEW r \in Runs, Asks(p, r)
  PROVE  exec'[p][r].pc = "end" /\ OthersStay(p, r)
BY AsksMoves, CellPlace

LEMMA FinishPlace ==
  ASSUME ServersFit, NEW p \in Owners, NEW r \in Runs, NEW out, FinishAs(p, r, out),
         exec[p][r].pc \notin {"idle", "draw", "claim", "release"}
  PROVE  /\ exec'[p][r].pc = "idle" \/ (exec'[p][r].pc = "finish" /\ exec'[p][r].out = out)
         /\ OthersStay(p, r)
BY FinishOnward DEF OthersStay

LEMMA PublishPlace ==
  ASSUME ServersFit, NEW p \in Owners, NEW r \in Runs, PublishFails(p, r),
         exec[p][r].pc \in Executing
  PROVE  Harmless(exec'[p][r]) /\ OthersStay(p, r)
BY PublishOnward DEF OthersStay, Harmless

\* Statements that end nothing.
LEMMA MildSettles ==
  ASSUME NEW r, NEW states, Writes(r, states), states \subseteq ActiveStates,
         \A q \in Runs : rows[q].token \in Nat
  PROVE  RowsSettle
<1>1. "completed" \notin ActiveStates
  BY DEF ActiveStates
<1> QED BY <1>1 DEF Writes, RowsSettle, Active

LEMMA IdleSettles == UNCHANGED ledgerVars => RowsSettle
BY DEF RowsSettle, Active, ledgerVars

\* A statement that ends the run of a server which is past its reservation.
LEMMA HolderSettles ==
  ASSUME Base, AbortInvariant, NEW p \in Owners, NEW r \in Runs, NEW states,
         exec[p][r].pc \notin Reserving \cup {"idle", "draw"},
         CellsFollow, PassesFollowOn, Writes(r, states), Active(r), rows[r].token = Tok(p, r),
         "completed" \in states => ~Stopped(r, Tok(p, r)) /\ exec'[p][r].pc = "release"
  PROVE  RowsSettle
<1>0. PICK t : t = Tok(p, r)
  OBVIOUS
<1>1. t \in 1..MaxToken /\ Holds(p, r, t)
  <2>1. exec[p][r].token \in 1..MaxToken
    BY HeldIsDrawn DEF Base
  <2> QED BY <1>0, <2>1 DEF Holds, Tok
<1>2. \A q \in Owners : Holds(q, r, t)' => q = p
  BY <1>1, HoldersFollow DEF AbortInvariant, HoldersDiffer
<1>3. \A q \in Owners : ~NextOf(q, r, t)'
  BY <1>1, NextsFollow DEF AbortInvariant, HoldersDiffer
<1>4. \A q \in Owners : exec'[q][r].pc \in Claimed => exec'[q][r].token # t
  <2> SUFFICES ASSUME NEW q \in Owners, exec'[q][r].pc \in Claimed, exec'[q][r].token = t
               PROVE  FALSE
    OBVIOUS
  <2>1. q = p
    BY <1>2 DEF Holds, Claimed
  <2>2. Follows(exec[p][r], exec'[p][r])
    BY DEF CellsFollow
  <2> QED BY <2>1, <2>2 DEF Follows, Claimed, Reserving
<1>5. \A q \in Owners : ~(/\ reap'[q].pc = "rereserve" /\ reap'[q].run = r
                          /\ reap'[q].next = t)
  BY <1>3 DEF NextOf
<1>6. "completed" \in states =>
        /\ ~Stopped(r, t)
        /\ \A q \in Owners : exec'[q][r].pc \notin Unclaimed /\ exec'[q][r].token = t
                                => exec'[q][r].pc = "release"
  BY <1>0, <1>2 DEF Holds, Unclaimed
<1>7. rows[r].token = t
  BY <1>0
<1> SUFFICES ASSUME NEW q \in Runs
             PROVE  /\ rows'[q].token = rows[q].token /\ rows'[q].generation = rows[q].generation
                    /\ Active(q)' => Active(q) \/ rows[q].token = 0
                    /\ Active(q) => \/ Active(q)'
                                    \/ \A u \in Owners :
                                         /\ exec'[u][q].pc \in Claimed => exec'[u][q].token # rows[q].token
                                         /\ ~(/\ reap'[u].pc = "rereserve" /\ reap'[u].run = q
                                              /\ reap'[u].next = rows[q].token)
                    /\ rows'[q].state = "completed" =>
                         \/ rows[q].state = "completed"
                         \/ /\ ~Stopped(q, rows[q].token)
                            /\ Active(q)
                            /\ \A u \in Owners :
                                 exec'[u][q].pc \notin Unclaimed /\ exec'[u][q].token = rows[q].token
                                   => exec'[u][q].pc = "release"
  BY DEF RowsSettle
<1>8. CASE q = r
  BY <1>4, <1>5, <1>6, <1>7, <1>8 DEF Writes
<1>9. CASE q # r
  BY <1>9 DEF Writes, Active
<1> QED BY <1>8, <1>9

LEMMA FinalSettles ==
  ASSUME Base, AbortInvariant, NEW p \in Owners, NEW r \in Runs, NEW st \in TerminalStates,
         exec[p][r].pc \notin Reserving \cup {"idle", "draw"},
         CellsFollow, PassesFollowOn, FinalizeOrNothing(r, Tok(p, r), st),
         st = "completed" => ~Stopped(r, Tok(p, r)) /\ exec'[p][r].pc = "release"
  PROVE  RowsSettle /\ ~(Active(r)' /\ rows'[r].token = Tok(p, r))
<1>1. LedgerInvariant
  BY DEF Base, ClusterInvariant
<1>2. CASE Writes(r, {TerminalState(r, st)}) /\ rows[r].token = Tok(p, r) /\ Active(r) /\ Terminal(r)'
  <2>1. "completed" \in {TerminalState(r, st)} => st = "completed"
    BY DEF TerminalState
  <2>2. RowsSettle
    BY <1>2, <2>1, HolderSettles
  <2> QED BY <1>2, <2>2 DEF Terminal, Active, TerminalStates, ActiveStates
<1>3. CASE UNCHANGED ledgerVars /\ ~FinalizeApplies(r, Tok(p, r))
  BY <1>3, IdleSettles DEF ledgerVars, FinalizeApplies, Active
<1> QED BY <1>1, <1>2, <1>3, FinalizeWrites

-----------------------------------------------------------------------------
(* What the projection goes on showing                                     *)

LEMMA ViewRests ==
  ASSUME AbortInvariant, view' = view
  PROVE  ViewFits' /\ ViewStays
BY DEF AbortInvariant, HaltInvariant, ViewFits, ViewStays, ViewIs

\* A projection that shows an ownership which was not stopped may show anything next.
LEMMA NoneStopped ==
  ASSUME \A r \in Runs, t \in 1..MaxToken : ~Stopped(r, t)
  PROVE  ViewStays
BY DEF ViewStays

LEMMA StatusStays ==
  ASSUME AbortInvariant, view'.run = view.run, view'.token = view.token,
         view'.status \in StoppedStatuses \ {"waiting_decision"}
  PROVE  ViewStays
BY DEF AbortInvariant, HaltInvariant, ViewStays, ViewIs

\* A written status, and a lease that is kept or dropped.
LEMMA StatusFits ==
  ASSUME ViewFits, NEW st \in ActiveStatuses \cup EndStatuses,
         \/ view' = [view EXCEPT !.status = st]
         \/ view' = [view EXCEPT !.leased = FALSE, !.status = st]
         \/ view' = [view EXCEPT !.status = st, !.leased = FALSE]
  PROVE  ViewFits' /\ view'.run = view.run /\ view'.token = view.token /\ view'.status = st
BY DEF ViewFits

\* One run of the session is in progress.
LEMMA OneActive ==
  ASSUME Base, NEW q \in Runs, NEW r \in Runs, Active(q), Active(r)
  PROVE  q = r
<1>1. Exists(q) /\ Exists(r)
  BY DEF Active, Exists, Absent, ActiveStates
<1>2. rows[q].session = rows[r].session
  BY <1>1, RuntimeAssumption DEF Base, ClusterInvariant, LedgerInvariant, TypeOK
<1>3. q # r => rows[q].position < rows[r].position /\ rows[r].position < rows[q].position
  BY <1>1, <1>2 DEF Base, ClusterInvariant, LedgerInvariant, ActiveIsNewest
<1>4. rows[q].position \in Int /\ rows[r].position \in Int
  BY DEF Base, ClusterInvariant, LedgerInvariant, TypeOK, Row
<1> QED BY <1>3, <1>4

-----------------------------------------------------------------------------
(* Admission                                                               *)

LEMMA AdmissionSettles ==
  ASSUME Base, AbortInvariant, NEW p \in Owners, NEW r \in Runs,
         \/ AdmitRun(p, r) \/ ActivateFence(p, r) \/ ReserveRun(p, r) \/ ConfirmLease(p, r)
         \/ PromoteRun(p, r) \/ UnwindAdmission(p, r) \/ AbandonClaim(p, r)
  PROVE  CellsTurn /\ RowsSettle
<1>1. /\ ServersFit /\ LedgerInvariant /\ CellsFollow /\ PassesFollowOn
      /\ exec[p][r] \in Exec
  <2>1. ServersFit /\ LedgerInvariant
    BY DEF Base, ClusterInvariant
  <2> QED BY <2>1, AdmissionOnward, OnwardFollows, PassesOnwardFollow DEF ServersFit
<1>2. CASE AdmitRun(p, r)
  <2>1. exec'[p][r].pc = "draw" /\ OthersStay(p, r)
    BY <1>1, <1>2, GotoPlace DEF AdmitRun
  <2>2. CellsTurn
    BY <2>1, HarmlessTurns DEF Harmless
  <2>3. CASE Admit(r, Session, r)
    BY <1>1, <2>2, <2>3, AdmitWrites, MildSettles, RowTokens DEF ActiveStates
  <2>4. CASE UNCHANGED ledgerVars
    BY <2>2, <2>4, IdleSettles
  <2> QED BY <1>2, <2>3, <2>4 DEF AdmitRun
<1>3. CASE ActivateFence(p, r) \/ ReserveRun(p, r) \/ ConfirmLease(p, r)
  <2>1. RowsSettle
    BY <1>3, IdleSettles DEF ActivateFence, ReserveRun, ConfirmLease
  <2>2. CASE ActivateFence(p, r)
    <3>1. Goto(p, r, "abandon") \/ Goto(p, r, "reserve")
      BY <2>2 DEF ActivateFence
    <3>2. Harmless(exec'[p][r]) /\ OthersStay(p, r)
      BY <1>1, <3>1, GotoPlace DEF Harmless
    <3> QED BY <2>1, <3>2, HarmlessTurns
  <2>3. CASE ReserveRun(p, r)
    <3>1. PICK e : e = [exec[p][r] EXCEPT !.pc = "confirm", !.own = "held"]
      OBVIOUS
    <3>2. e.pc = "confirm"
      BY <1>1, <3>1 DEF Exec
    <3>3. Goto(p, r, "abandon") \/ Becomes(p, r, e)
      BY <2>3, <3>1 DEF ReserveRun, Becomes
    <3>4. Harmless(exec'[p][r]) /\ OthersStay(p, r)
      BY <1>1, <3>2, <3>3, GotoPlace, CellPlace DEF Harmless
    <3> QED BY <2>1, <3>4, HarmlessTurns
  <2>4. CASE ConfirmLease(p, r)
    <3>1. \E e : /\ e \in {[exec[p][r] EXCEPT !.pc = "build", !.renew = TRUE],
                           [exec[p][r] EXCEPT !.pc = "abandon", !.own = "none"]}
                 /\ Becomes(p, r, e)
      BY <2>4 DEF ConfirmLease, Becomes
    <3>2. PICK e : /\ e \in {[exec[p][r] EXCEPT !.pc = "build", !.renew = TRUE],
                             [exec[p][r] EXCEPT !.pc = "abandon", !.own = "none"]}
                   /\ Becomes(p, r, e)
      BY <3>1
    <3>3. e.pc \in {"build", "abandon"}
      BY <1>1, <3>2 DEF Exec
    <3>4. Harmless(exec'[p][r]) /\ OthersStay(p, r)
      BY <1>1, <3>2, <3>3, CellPlace DEF Harmless
    <3> QED BY <2>1, <3>4, HarmlessTurns
  <2> QED BY <1>3, <2>2, <2>3, <2>4
<1>4. CASE PromoteRun(p, r)
  <2>1. PICK e : e = [exec[p][r] EXCEPT !.pc = "unwind", !.out = "aborted"]
    OBVIOUS
  <2>2. e.pc = "unwind" /\ e.out = "aborted"
    BY <1>1, <2>1 DEF Exec
  <2>3. Goto(p, r, "run") \/ Goto(p, r, "abandon") \/ Becomes(p, r, e)
    BY <1>4, <2>1 DEF PromoteRun, Becomes
  <2>4. Harmless(exec'[p][r]) /\ OthersStay(p, r)
    BY <1>1, <2>2, <2>3, GotoPlace, CellPlace DEF Harmless
  <2>5. RowsSettle
    BY <1>4, IdleSettles DEF PromoteRun
  <2> QED BY <2>4, <2>5, HarmlessTurns
<1>5. CASE UnwindAdmission(p, r)
  <2>0. exec[p][r].pc = "unwind" /\ exec[p][r].out \in TerminalStates
    BY <1>1, <1>5 DEF UnwindAdmission, At, ServersFit, ExecFits
  <2>1. PICK e : e = [exec[p][r] EXCEPT !.pc = "abandon", !.own = "none", !.renew = FALSE]
    OBVIOUS
  <2>2. e.pc = "abandon"
    BY <1>1, <2>1 DEF Exec
  <2>3. CASE Becomes(p, r, e) /\ UNCHANGED ledgerVars
    <3>1. Harmless(exec'[p][r]) /\ OthersStay(p, r)
      BY <1>1, <2>2, <2>3, CellPlace DEF Harmless
    <3> QED BY <2>3, <3>1, HarmlessTurns, IdleSettles
  <2>4. CASE FinalizeOrNothing(r, Tok(p, r), exec[p][r].out) /\ Goto(p, r, "release")
    <3>1. /\ exec'[p][r].pc = "release" /\ exec'[p][r].token = Tok(p, r)
          /\ OthersStay(p, r)
      BY <1>1, <2>4, GotoPlace DEF Tok
    <3>2. exec[p][r].out # "completed"
      BY <2>0 DEF AbortInvariant, OutcomeInvariant
    <3>3. RowsSettle /\ ~(Active(r)' /\ rows'[r].token = Tok(p, r))
      BY <1>1, <2>0, <2>4, <3>2, FinalSettles DEF Reserving
    <3>4. Turn(p, r)
      BY <3>1, <3>3 DEF Turn
    <3> QED BY <3>1, <3>3, <3>4, CellTurns
  <2>5. CASE UNCHANGED ledgerVars /\ Goto(p, r, "abandon")
    <3>1. Harmless(exec'[p][r]) /\ OthersStay(p, r)
      BY <1>1, <2>5, GotoPlace DEF Harmless
    <3> QED BY <2>5, <3>1, HarmlessTurns, IdleSettles
  <2> QED BY <1>5, <2>1, <2>3, <2>4, <2>5 DEF UnwindAdmission, StoreFails, Becomes
<1>6. CASE AbandonClaim(p, r)
  <2>0. exec[p][r].pc = "abandon"
    BY <1>6 DEF AbandonClaim, At
  <2>1. Harmless(exec'[p][r]) /\ OthersStay(p, r)
    BY <1>1, <1>6, <2>0, LeaveOnward DEF AbandonClaim, Harmless, OthersStay
  <2>2. CASE FinalizeOrNothing(r, Tok(p, r), "failed")
    <3>1. "failed" \in TerminalStates
      BY DEF TerminalStates
    <3> QED BY <1>1, <2>0, <2>1, <2>2, <3>1, HarmlessTurns, FinalSettles DEF Reserving
  <2>3. CASE UNCHANGED ledgerVars
    BY <2>1, <2>3, HarmlessTurns, IdleSettles
  <2> QED BY <1>6, <2>2, <2>3 DEF AbandonClaim, StoreFails
<1> QED BY <1>2, <1>3, <1>4, <1>5, <1>6

LEMMA AdmissionViews ==
  ASSUME Base, AbortInvariant, NEW p \in Owners, NEW r \in Runs,
         \/ AdmitRun(p, r) \/ ActivateFence(p, r) \/ ReserveRun(p, r) \/ ConfirmLease(p, r)
         \/ PromoteRun(p, r) \/ UnwindAdmission(p, r) \/ AbandonClaim(p, r)
  PROVE  ViewFits' /\ ViewStays
<1>1. CASE view' = view
  BY <1>1, ViewRests
<1>2. CASE ReserveRun(p, r) /\ Reserve(r, Tok(p, r), "admitting")
  <2>1. exec[p][r].pc = "reserve" /\ exec[p][r].token = Tok(p, r)
    BY <1>2 DEF ReserveRun, At, Tok
  <2>2. Tok(p, r) \in 1..MaxToken /\ Active(r) /\ rows[r].token = Tok(p, r)
    BY <2>1, HeldIsDrawn DEF Base, BuiltInvariant, AbortInvariant, ReservedAreActive, Claimed
  <2>3. ~HaltedAt(r, Tok(p, r))
    BY <2>1, <2>2 DEF AbortInvariant, HaltInvariant, Holds, Reserving
  <2>4. \A s \in Runs, t \in 1..MaxToken : ~Stopped(s, t)
    BY <2>2, <2>3, OneActive DEF Stopped
  <2>5. ViewFits'
    BY <1>2, <2>2 DEF Reserve, ViewFits, ActiveStatuses
  <2> QED BY <2>4, <2>5, NoneStopped
<1>3. CASE PromoteRun(p, r) /\ view.status = "admitting" /\ view' = [view EXCEPT !.status = "running"]
  <2>1. \A s \in Runs, t \in 1..MaxToken : ~Stopped(s, t)
    BY <1>3 DEF AbortInvariant, HaltInvariant, StoppedStatuses
  <2>2. ViewFits'
    BY <1>3, StatusFits DEF AbortInvariant, ActiveStatuses
  <2> QED BY <2>1, <2>2, NoneStopped
<1> QED BY <1>1, <1>2, <1>3
    DEF AdmitRun, ActivateFence, ReserveRun, ConfirmLease, PromoteRun, UnwindAdmission,
        AbandonClaim, liveVars

LEMMA AdmissionSteady ==
  ASSUME Base, AbortInvariant, [Next]_ledgerVars, NEW p \in Owners, NEW r \in Runs,
         \/ AdmitRun(p, r) \/ ActivateFence(p, r) \/ ReserveRun(p, r) \/ ConfirmLease(p, r)
         \/ PromoteRun(p, r) \/ UnwindAdmission(p, r) \/ AbandonClaim(p, r)
  PROVE  Steady
<1>1. CellsFollow /\ PassesFollowOn
  BY AdmissionOnward, OnwardFollows, PassesOnwardFollow DEF Base, ClusterInvariant
<1>2. generation' = generation /\ halted' = halted
  BY DEF AdmitRun, ActivateFence, ReserveRun, ConfirmLease, PromoteRun, UnwindAdmission,
         AbandonClaim, liveVars, historyVars
<1> QED BY <1>1, <1>2, AdmissionSettles, AdmissionViews, DrawnStay DEF Steady, Going

-----------------------------------------------------------------------------
(* Execution                                                               *)

LEMMA ExecutionSettles ==
  ASSUME Base, AbortInvariant, NEW p \in Owners, NEW r \in Runs, ExecutionStep(p, r)
  PROVE  CellsTurn /\ RowsSettle
<1>1. /\ ServersFit /\ LedgerInvariant /\ CellsFollow /\ PassesFollowOn
      /\ exec[p][r] \in Exec
  <2>1. ServersFit /\ LedgerInvariant
    BY DEF Base, ClusterInvariant
  <2> QED BY <2>1, ExecutionOnward, OnwardFollows, PassesOnwardFollow DEF ServersFit
<1>2. CASE WriteHistory(p, r)
  <2>1. exec' = exec /\ UNCHANGED ledgerVars
    BY <1>2 DEF WriteHistory, serverVars
  <2> QED BY <2>1, IdleSettles DEF CellsTurn, Turn
<1>3. CASE CreateDecision(p, r) \/ \E st \in {"completed", "aborted"} : EndEvent(p, r, st)
  <2>1. (Goto(p, r, "asking") \/ Goto(p, r, "end")) /\ UNCHANGED ledgerVars
    BY <1>3 DEF CreateDecision, EndEvent
  <2>2. Harmless(exec'[p][r]) /\ OthersStay(p, r)
    BY <1>1, <2>1, GotoPlace DEF Harmless
  <2> QED BY <2>1, <2>2, HarmlessTurns, IdleSettles
<1>4. CASE ParkLedger(p, r)
  <2>1. exec[p][r].pc = "asking" /\ (Goto(p, r, "ask") \/ PublishFails(p, r))
    BY <1>4 DEF ParkLedger, At
  <2>2. Harmless(exec'[p][r]) /\ OthersStay(p, r)
    BY <1>1, <2>1, GotoPlace, PublishPlace DEF Harmless, Executing
  <2>3. RowsSettle
    BY <1>1, <1>4, WaitWrites, MildSettles, RowTokens, IdleSettles DEF ParkLedger, ActiveStates
  <2> QED BY <2>2, <2>3, HarmlessTurns
<1>5. CASE ParkView(p, r)
  <2>1. exec[p][r].pc = "ask" /\ (Asks(p, r) \/ PublishFails(p, r))
    BY <1>5 DEF ParkView, At, Asks
  <2>2. Harmless(exec'[p][r]) /\ OthersStay(p, r)
    BY <1>1, <2>1, AsksPlace, PublishPlace DEF Harmless, Executing
  <2> QED BY <1>5, <2>2, HarmlessTurns, IdleSettles DEF ParkView
<1>6. CASE FinishUnnamed(p, r)
  <2>0. /\ UNCHANGED ledgerVars /\ exec[p][r].pc \in {"run", "end"}
    BY <1>6 DEF FinishUnnamed, At
  <2>1. CASE Forget(p, r) \/ Goto(p, r, "parked")
    <3>1. Harmless(exec'[p][r]) /\ OthersStay(p, r)
      BY <1>1, <2>1, ForgetOnward, GotoPlace DEF Harmless, Idle, OthersStay
    <3> QED BY <2>0, <3>1, HarmlessTurns, IdleSettles
  <2>2. CASE /\ FinishAs(p, r, Resolve(r, Tok(p, r)))
             /\ ~(ViewIs(r, Tok(p, r)) /\ view.status = "waiting_decision")
    <3>1. /\ OthersStay(p, r)
          /\ \/ exec'[p][r].pc = "idle"
             \/ exec'[p][r].pc = "finish" /\ exec'[p][r].out = Resolve(r, Tok(p, r))
      BY <1>1, <2>0, <2>2, FinishPlace
    <3>2. Stopped(r, Tok(p, r)) => Resolve(r, Tok(p, r)) # "completed"
      <4>1. Tok(p, r) \in 1..MaxToken
        BY <2>0, HeldIsDrawn DEF Base, Tok
      <4>2. Stopped(r, Tok(p, r)) => ViewIs(r, Tok(p, r)) /\ view.status \in StoppedStatuses
        BY <4>1 DEF AbortInvariant, HaltInvariant
      <4> QED BY <2>2, <4>2 DEF Resolve, StoppedStatuses
    <3>3. Turn(p, r)
      BY <3>1, <3>2 DEF Turn, Tok
    <3> QED BY <2>0, <3>1, <3>3, CellTurns, IdleSettles
  <2>3. Forget(p, r) \/ Goto(p, r, "parked") \/
          (/\ FinishAs(p, r, Resolve(r, Tok(p, r)))
           /\ ~(ViewIs(r, Tok(p, r)) /\ view.status = "waiting_decision"))
    BY <1>6 DEF FinishUnnamed, Forget, Goto
  <2> QED BY <2>1, <2>2, <2>3
<1>7. CASE FinishErrored(p, r)
  <2>1. /\ OthersStay(p, r)
        /\ exec'[p][r].pc = "idle" \/ (exec'[p][r].pc = "finish" /\ exec'[p][r].out = "failed")
    BY <1>1, <1>7, FinishPlace DEF FinishErrored, At
  <2>2. Harmless(exec'[p][r])
    BY <2>1 DEF Harmless
  <2> QED BY <1>7, <2>1, <2>2, HarmlessTurns, IdleSettles DEF FinishErrored
<1>8. CASE FinalizeRow(p, r)
  <2>0. exec[p][r].pc = "finish" /\ exec[p][r].out \in TerminalStates
    BY <1>1, <1>8 DEF FinalizeRow, At, ServersFit, ExecFits
  <2>1. CASE FinalizeOrNothing(r, Tok(p, r), exec[p][r].out) /\ Goto(p, r, "release")
    <3>1. /\ exec'[p][r].pc = "release" /\ exec'[p][r].token = Tok(p, r)
          /\ OthersStay(p, r)
      BY <1>1, <2>1, GotoPlace DEF Tok
    <3>2. exec[p][r].out = "completed" => ~Stopped(r, Tok(p, r))
      <4>1. Tok(p, r) \in 1..MaxToken /\ Holds(p, r, Tok(p, r))
        BY <2>0, HeldIsDrawn DEF Base, Tok, Holds
      <4> QED BY <2>0, <4>1 DEF AbortInvariant, HaltInvariant
    <3>3. RowsSettle /\ ~(Active(r)' /\ rows'[r].token = Tok(p, r))
      BY <1>1, <2>0, <2>1, <3>1, <3>2, FinalSettles DEF Reserving
    <3>4. Turn(p, r)
      BY <3>1, <3>3 DEF Turn
    <3> QED BY <3>1, <3>3, <3>4, CellTurns
  <2>2. CASE UNCHANGED ledgerVars /\ LeaveControl(p, r)
    <3>1. Harmless(exec'[p][r]) /\ OthersStay(p, r)
      BY <1>1, <2>0, <2>2, LeaveOnward DEF Harmless, OthersStay
    <3> QED BY <2>2, <3>1, HarmlessTurns, IdleSettles
  <2> QED BY <1>8, <2>1, <2>2 DEF FinalizeRow, StoreFails
<1>9. CASE ReleaseSlot(p, r)
  <2>1. Harmless(exec'[p][r]) /\ OthersStay(p, r)
    BY <1>1, <1>9, ForgetOnward DEF ReleaseSlot, Harmless, Idle, OthersStay
  <2> QED BY <1>9, <2>1, HarmlessTurns, IdleSettles DEF ReleaseSlot
<1>10. CASE AnswerDecision(p, r)
  <2>1. exec'[p][r].pc = "resuming" /\ OthersStay(p, r) /\ ~HaltedAt(r, exec[p][r].token)
    BY <1>1, <1>10, GotoPlace DEF AnswerDecision, Tok
  <2>2. Turn(p, r)
    BY <2>1 DEF Turn
  <2> QED BY <1>10, <2>1, <2>2, CellTurns, IdleSettles DEF AnswerDecision
<1>11. CASE ResumeLedger(p, r)
  <2>1. exec[p][r].pc = "resuming" /\ (Goto(p, r, "resumed") \/ FinishAs(p, r, "failed"))
    BY <1>11 DEF ResumeLedger, At
  <2>2. /\ OthersStay(p, r)
        /\ \/ exec'[p][r].pc \in {"resumed", "idle"}
           \/ exec'[p][r].pc = "finish" /\ exec'[p][r].out = "failed"
    BY <1>1, <2>1, GotoPlace, FinishPlace
  <2>3. Turn(p, r)
    BY <2>1, <2>2 DEF Turn
  <2>4. RowsSettle
    BY <1>1, <1>11, ResumeWrites, MildSettles, RowTokens, IdleSettles DEF ResumeLedger, ActiveStates
  <2> QED BY <2>2, <2>3, <2>4, CellTurns
<1>12. CASE ResumeView(p, r)
  <2>1. exec[p][r].pc = "resumed" /\ (Goto(p, r, "run") \/ FinishAs(p, r, "failed"))
    BY <1>12 DEF ResumeView, At
  <2>2. Harmless(exec'[p][r]) /\ OthersStay(p, r)
    BY <1>1, <2>1, GotoPlace, FinishPlace DEF Harmless
  <2> QED BY <1>12, <2>2, HarmlessTurns, IdleSettles DEF ResumeView
<1> QED BY <1>2, <1>3, <1>4, <1>5, <1>6, <1>7, <1>8, <1>9, <1>10, <1>11, <1>12 DEF ExecutionStep

\* What a live owner's ownership has to do with one that was stopped.
LEMMA LiveStopped ==
  ASSUME AbortInvariant, NEW r \in Runs, NEW t, LiveOwner(r, t),
         NEW s \in Runs, NEW u \in 1..MaxToken, Stopped(s, u)
  PROVE  s = r /\ u = t
BY DEF AbortInvariant, HaltInvariant, LiveOwner, ViewIs

LEMMA ParkViewStays ==
  ASSUME Base, AbortInvariant, NEW p \in Owners, NEW r \in Runs, ParkView(p, r)
  PROVE  ViewFits' /\ ViewStays
<1>1. CASE view' = view
  BY <1>1, ViewRests
<1>2. CASE /\ LiveOwner(r, Tok(p, r)) /\ view' = [view EXCEPT !.status = "waiting_decision"]
           /\ Asks(p, r)
  <2>1. /\ ViewFits' /\ view'.run = view.run /\ view'.token = view.token
        /\ view'.status = "waiting_decision"
    BY <1>2, StatusFits DEF AbortInvariant, ActiveStatuses
  <2>2. ServersFit /\ exec[p][r].pc = "ask"
    BY <1>2 DEF Base, ClusterInvariant, ParkView, At
  <2>3. exec'[p][r].pc = "end" /\ CellsFollow
    BY <1>2, <2>2, AsksPlace, ExecutionOnward, OnwardFollows DEF ExecutionStep
  <2>4. ASSUME NEW s \in Runs, NEW u \in 1..MaxToken, Stopped(s, u)
        PROVE  /\ view'.run = s /\ view'.token = u /\ view'.status \in StoppedStatuses
               /\ \A q \in Owners : Holds(q, s, u)' => exec'[q][s].pc \notin {"resuming", "resumed"}
    <3>1. s = r /\ u = Tok(p, r)
      BY <1>2, <2>4, LiveStopped
    <3>2. view'.run = s /\ view'.token = u
      BY <1>2, <2>1, <3>1 DEF LiveOwner, ViewIs
    <3>3. Holds(p, r, u)
      BY <2>2, <3>1 DEF Holds, Tok
    <3>4. \A q \in Owners : Holds(q, s, u)' => q = p
      BY <2>3, <3>1, <3>3, HoldersFollow DEF AbortInvariant, HoldersDiffer
    <3> QED BY <2>1, <2>3, <3>1, <3>2, <3>4 DEF StoppedStatuses
  <2> QED BY <2>1, <2>4 DEF ViewStays
<1> QED BY <1>1, <1>2 DEF ParkView, Asks

LEMMA EndEventStays ==
  ASSUME Base, AbortInvariant, NEW p \in Owners, NEW r \in Runs,
         NEW st \in {"completed", "aborted"}, EndEvent(p, r, st)
  PROVE  ViewFits' /\ ViewStays
<1>1. ViewFits' /\ view'.run = view.run /\ view'.token = view.token /\ view'.status = st
  BY StatusFits DEF EndEvent, AbortInvariant, EndStatuses
<1>2. CASE st = "aborted"
  BY <1>1, <1>2, StatusStays DEF StoppedStatuses
<1>3. CASE st = "completed"
  <2>1. \A s \in Runs, t \in 1..MaxToken : ~Stopped(s, t)
    BY <1>3 DEF EndEvent, AbortInvariant, HaltInvariant, StoppedStatuses
  <2> QED BY <1>1, <2>1, NoneStopped
<1> QED BY <1>2, <1>3

LEMMA ResumeViewStays ==
  ASSUME Base, AbortInvariant, NEW p \in Owners, NEW r \in Runs, ResumeView(p, r)
  PROVE  ViewFits' /\ ViewStays
<1>1. CASE view' = view
  BY <1>1, ViewRests
<1>2. CASE LiveOwner(r, Tok(p, r)) /\ view.status = "waiting_decision"
             /\ view' = [view EXCEPT !.status = "running"]
  <2>1. ViewFits'
    BY <1>2, StatusFits DEF AbortInvariant, ActiveStatuses
  <2>2. \A s \in Runs, u \in 1..MaxToken : ~Stopped(s, u)
    <3> SUFFICES ASSUME NEW s \in Runs, NEW u \in 1..MaxToken, Stopped(s, u)
                 PROVE  FALSE
      OBVIOUS
    <3>1. s = r /\ u = Tok(p, r)
      BY <1>2, LiveStopped
    <3>2. Holds(p, s, u) /\ exec[p][s].pc = "resumed"
      BY <3>1 DEF ResumeView, At, Holds, Tok
    <3> QED BY <1>2, <3>2 DEF AbortInvariant, HaltInvariant
  <2> QED BY <2>1, <2>2, NoneStopped
<1>3. CASE LiveOwner(r, Tok(p, r)) /\ view.status # "waiting_decision"
             /\ view' = [view EXCEPT !.status = view.status]
  <2>1. view' = view
    BY <1>3 DEF AbortInvariant, ViewFits
  <2> QED BY <2>1, ViewRests
<1> QED BY <1>1, <1>2, <1>3 DEF ResumeView

LEMMA ReleaseSlotStays ==
  ASSUME Base, AbortInvariant, NEW p \in Owners, NEW r \in Runs, ReleaseSlot(p, r)
  PROVE  ViewFits' /\ ViewStays
<1>1. CASE view' = view
  BY <1>1, ViewRests
<1>2. PICK st : st = IF exec[p][r].out = "failed" THEN "errored" ELSE exec[p][r].out
  OBVIOUS
<1>3. CASE LiveOwner(r, Tok(p, r)) /\ view' = [view EXCEPT !.leased = FALSE, !.status = st]
  <2>1. exec[p][r].pc = "release" /\ exec[p][r].out \in TerminalStates
    BY DEF ReleaseSlot, At, Base, ClusterInvariant, ServersFit, ExecFits
  <2>2. st \in EndStatuses
    BY <1>2, <2>1 DEF TerminalStates, EndStatuses
  <2>3. ViewFits'
    BY <1>3, <2>2, StatusFits DEF AbortInvariant
  <2>4. \A s \in Runs, u \in 1..MaxToken : ~Stopped(s, u)
    <3> SUFFICES ASSUME NEW s \in Runs, NEW u \in 1..MaxToken, Stopped(s, u)
                 PROVE  FALSE
      OBVIOUS
    <3>1. s = r /\ u = exec[p][r].token
      BY <1>3, LiveStopped DEF Tok
    <3> QED BY <2>1, <3>1 DEF AbortInvariant, OutcomeInvariant, Stopped
  <2> QED BY <2>3, <2>4, NoneStopped
<1> QED BY <1>1, <1>2, <1>3 DEF ReleaseSlot

LEMMA ExecutionSteady ==
  ASSUME Base, AbortInvariant, [Next]_ledgerVars, NEW p \in Owners, NEW r \in Runs,
         ExecutionStep(p, r)
  PROVE  Steady
<1>1. CellsFollow /\ PassesFollowOn
  BY ExecutionOnward, OnwardFollows, PassesOnwardFollow DEF Base, ClusterInvariant
<1>2. generation' = generation /\ halted' = halted
  BY DEF ExecutionStep, WriteHistory, CreateDecision, ParkLedger, ParkView,
       EndEvent, FinishUnnamed, FinishErrored, FinalizeRow, ReleaseSlot, AnswerDecision,
       ResumeLedger, ResumeView, liveVars, historyVars
<1>3. ViewFits' /\ ViewStays
  <2>1. CASE view' = view
    BY <2>1, ViewRests
  <2>2. \/ view' = view \/ ParkView(p, r) \/ ResumeView(p, r) \/ ReleaseSlot(p, r)
        \/ \E st \in {"completed", "aborted"} : EndEvent(p, r, st)
    BY DEF ExecutionStep, WriteHistory, CreateDecision, ParkLedger,
       FinishUnnamed, FinishErrored, FinalizeRow, AnswerDecision, ResumeLedger, liveVars
  <2> QED BY <2>1, <2>2, ParkViewStays, ResumeViewStays, ReleaseSlotStays, EndEventStays
<1> QED BY <1>1, <1>2, <1>3, ExecutionSettles, DrawnStay DEF Steady, Going

-----------------------------------------------------------------------------
(* Leases, faults and the intent of an abort                               *)

LEMMA AbortIntentSteady ==
  ASSUME Base, AbortInvariant, [Next]_ledgerVars, NEW r \in Runs, AbortIntent(r)
  PROVE  Steady
<1>1. CellsFollow /\ PassesFollowOn /\ CellsTurn
  BY CellsRest, PassesRestOnward, OnwardFollows, PassesOnwardFollow
     DEF AbortIntent, serverVars, CellsTurn, Turn
<1>2. RowsSettle
  BY AbortWrites, MildSettles, RowTokens DEF AbortIntent, Base, ClusterInvariant, ActiveStates
<1> QED BY <1>1, <1>2, ViewRests, DrawnStay DEF Steady, Going, AbortIntent, liveVars, historyVars

LEMMA ObserveStays ==
  ASSUME AbortInvariant, NEW p \in Owners, ObserveExpiredLease(p)
  PROVE  ViewFits' /\ ViewStays
<1>1. ViewFits' /\ view'.run = view.run /\ view'.token = view.token /\ view'.status = "lost"
  BY StatusFits DEF ObserveExpiredLease, AbortInvariant, EndStatuses
<1> QED BY <1>1, StatusStays DEF StoppedStatuses

LEMMA ShutdownStays ==
  ASSUME AbortInvariant, NEW p \in Owners, Shutdown(p)
  PROVE  ViewFits' /\ ViewStays
<1>1. CASE view' = view
  BY <1>1, ViewRests
<1>2. CASE view' = [view EXCEPT !.status = "lost", !.leased = FALSE]
  <2>1. ViewFits' /\ view'.run = view.run /\ view'.token = view.token /\ view'.status = "lost"
    BY <1>2, StatusFits DEF AbortInvariant, EndStatuses
  <2> QED BY <2>1, StatusStays DEF StoppedStatuses
<1> QED BY <1>1, <1>2 DEF Shutdown

LEMMA EnvironmentSteady ==
  ASSUME Undisputed, Base, AbortInvariant, LeaseStep \/ FaultStep
  PROVE  Steady
<1>1. ServersFit /\ PassesFit
  BY DEF Base, ClusterInvariant
<1>2. UNCHANGED ledgerVars => RowsSettle /\ drawn \subseteq drawn'
  BY IdleSettles DEF ledgerVars
<1>3. CASE \E p \in Owners, r \in Runs : LoseOwnership(p, r)
  <2>1. CellsOnward /\ PassesOnward /\ NoneFinishes
    BY <1>1, <1>3, LoseOwnershipOnward
  <2>2. CellsFollow /\ PassesFollowOn /\ CellsTurn
    BY <2>1, OnwardFollows, PassesOnwardFollow, NoneFinishesTurns
  <2>3. UNCHANGED ledgerVars /\ view' = view /\ generation' = generation /\ halted' = halted
    BY <1>3 DEF LoseOwnership, liveVars
  <2> QED BY <1>2, <2>2, <2>3, ViewRests DEF Steady, Going
<1>4. CASE (\E r \in Runs : LeaseExpires(r)) \/ LeaderExpires
  <2>1. UNCHANGED <<ledgerVars, exec, reap, view, generation, halted>>
    BY <1>4 DEF LeaseExpires, LeaderExpires, serverVars
  <2>2. CellsFollow /\ PassesFollowOn /\ CellsTurn
    BY <2>1, CellsRest, PassesRestOnward, OnwardFollows, PassesOnwardFollow DEF CellsTurn, Turn
  <2> QED BY <1>2, <2>1, <2>2, ViewRests DEF Steady, Going
<1>5. CASE \E p \in Owners : ObserveExpiredLease(p)
  <2>1. CellsOnward /\ PassesOnward /\ NoneFinishes /\ ViewFits' /\ ViewStays
    BY <1>1, <1>5, ObserveOnward, ObserveStays
  <2>2. CellsFollow /\ PassesFollowOn /\ CellsTurn
    BY <2>1, OnwardFollows, PassesOnwardFollow, NoneFinishesTurns
  <2>3. UNCHANGED ledgerVars /\ generation' = generation /\ halted' = halted
    BY <1>5 DEF ObserveExpiredLease, historyVars
  <2> QED BY <1>2, <2>1, <2>2, <2>3 DEF Steady, Going
<1>6. CASE \E p \in Owners : Shutdown(p)
  <2>1. CellsOnward /\ PassesOnward /\ NoneFinishes /\ ViewFits' /\ ViewStays
    BY <1>1, <1>6, ShutdownOnward, ShutdownStays
  <2>2. CellsFollow /\ PassesFollowOn /\ CellsTurn
    BY <2>1, OnwardFollows, PassesOnwardFollow, NoneFinishesTurns
  <2>3. UNCHANGED ledgerVars /\ generation' = generation /\ halted' = halted
    BY <1>6 DEF Shutdown
  <2> QED BY <1>2, <2>1, <2>2, <2>3 DEF Steady, Going
<1>7. CASE \E p \in Owners : Exit(p) \/ Crash(p)
  <2>1. PICK p \in Owners : Stop(p)
    BY <1>7 DEF Exit, Crash
  <2>2. CellsOnward /\ PassesOnward /\ NoneFinishes
    BY <1>1, <2>1, StopOnward
  <2>3. CellsFollow /\ PassesFollowOn /\ CellsTurn
    BY <2>2, OnwardFollows, PassesOnwardFollow, NoneFinishesTurns
  <2>4. UNCHANGED ledgerVars /\ view' = view /\ generation' = generation /\ halted' = halted
    BY <2>1 DEF Stop, liveVars
  <2> QED BY <1>2, <2>3, <2>4, ViewRests DEF Steady, Going
<1>8. ~BackendLoss
  BY DEF BackendLoss, Inject, Undisputed
<1> QED BY <1>3, <1>4, <1>5, <1>6, <1>7, <1>8 DEF LeaseStep, FaultStep

-----------------------------------------------------------------------------
(* Reapers                                                                 *)

LEMMA RestSteady ==
  ASSUME Base, AbortInvariant, NEW p \in Owners, Rest(p), exec' = exec,
         UNCHANGED <<ledgerVars, view, generation, halted>>
  PROVE  Steady
<1>1. PassesFit
  BY DEF Base, ClusterInvariant
<1>2. CellsFollow /\ CellsTurn /\ PassesFollowOn
  BY <1>1, CellsRest, OnwardFollows, RestOnward, PassesOnwardFollow DEF CellsTurn, Turn
<1>3. drawn' = drawn
  BY DEF ledgerVars
<1> QED BY <1>2, <1>3, IdleSettles, ViewRests DEF Steady, Going

\* A candidate taken beside the lease index has no token, and a sweep reads the
\* generation all claims are of.
LEMMA StartSteady ==
  ASSUME Base, AbortInvariant, NEW p \in Owners, NEW x, Start(p, x),
         x.pc \in {"judge", "condemn", "sweep"}, x.indexed \/ x.token = 0,
         x.pc = "sweep" => x.gen = generation,
         UNCHANGED <<ledgerVars, exec, view, generation, halted>>
  PROVE  Steady
<1>1. /\ CellsOnward /\ NoneFinishes /\ reap'[p] = x
      /\ \A q \in Owners \ {p} : reap'[q] = reap[q]
  BY StartOnward DEF Base, ClusterInvariant
<1>2. PassFollows(reap[p], reap'[p])
  BY <1>1 DEF PassFollows
<1>3. \A q \in Owners \ {p} : PassFollows(reap[q], reap'[q])
  BY <1>1 DEF PassFollows
<1>4. CellsFollow /\ CellsTurn /\ PassesFollowOn
  BY <1>1, <1>2, <1>3, OnwardFollows, NoneFinishesTurns DEF PassesFollowOn
<1>5. drawn' = drawn
  BY DEF ledgerVars
<1> QED BY <1>4, <1>5, IdleSettles, ViewRests DEF Steady, Going

LEMMA ScanSteady ==
  ASSUME Base, AbortInvariant, NEW p \in Owners, ScanStep(p)
  PROVE  Steady
<1>1. ASSUME NEW x, BeginPass(p, x), x.pc \in {"judge", "condemn", "sweep"},
             x.indexed \/ x.token = 0, x.pc = "sweep" => x.gen = generation
      PROVE  Steady
  BY <1>1, StartSteady DEF BeginPass
<1>2. ASSUME NEW e \in index, ScanExpired(p, e) PROVE Steady
  <2>1. PICK x : x = Taking(e.run, e.token, "judge", TRUE)
    OBVIOUS
  <2>2. x.pc = "judge" /\ x.indexed
    BY <2>1 DEF Taking, Resting
  <2>3. BeginPass(p, x)
    BY <1>2, <2>1 DEF ScanExpired
  <2> QED BY <1>1, <2>2, <2>3
<1>3. ASSUME NEW r \in Runs, ScanOrphaned(p, r) PROVE Steady
  <2>1. PICK x : x = Taking(r, rows[r].token, "condemn", FALSE)
    OBVIOUS
  <2>2. x.pc = "condemn" /\ x.token = rows[r].token
    BY <2>1 DEF Taking, Resting
  <2>3. BeginPass(p, x)
    BY <1>3, <2>1 DEF ScanOrphaned
  <2>4. rows[r].token = 0
    BY <1>3, RowsWellFormed
       DEF ScanOrphaned, Orphaned, Base, ClusterInvariant, LedgerInvariant, WellFormed
  <2> QED BY <1>1, <2>2, <2>3, <2>4
<1>4. CASE RefreshGeneration(p)
  <2>1. PICK x : x = Sweeping(generation)
    OBVIOUS
  <2>2. x.pc = "sweep" /\ x.token = 0 /\ x.gen = generation
    BY <2>1 DEF Sweeping, Resting
  <2>3. BeginPass(p, x)
    BY <1>4, <2>1 DEF RefreshGeneration, Sweeping
  <2> QED BY <1>1, <2>2, <2>3
<1> QED BY <1>2, <1>3, <1>4 DEF ScanStep

LEMMA ListStaleSteady ==
  ASSUME Base, AbortInvariant, NEW p \in Owners, ListStale(p)
  PROVE  Steady
<1>1. reap[p].gen = generation /\ \A r \in Runs : rows[r].generation \in {NoGeneration, generation}
  BY DEF ListStale, Reaping, AbortInvariant, GenerationKept
<1>2. \A r \in Runs : ~StaleAgainst(r, reap[p].gen)
  BY <1>1 DEF StaleAgainst
<1>3. Rest(p) /\ UNCHANGED <<ledgerVars, exec, view, generation, halted>>
  BY <1>2 DEF ListStale, liveVars, historyVars
<1> QED BY <1>3, RestSteady

LEMMA RecoverSteady ==
  ASSUME Base, AbortInvariant, NEW p \in Owners, Recover(p)
  PROVE  Steady
<1>1. /\ CellsOnward /\ NoneFinishes
      /\ \/ PassesOnward
         \/ /\ reap'[p].pc = "redraw"
            /\ reap'[p].token = reap[p].token /\ reap'[p].indexed = reap[p].indexed
            /\ \A q \in Owners \ {p} : reap'[q] = reap[q]
  BY RecoverOnward DEF Base, ClusterInvariant
<1>2. PassesFollowOn
  <2>1. CASE PassesOnward
    BY <2>1, PassesOnwardFollow
  <2>2. CASE /\ reap'[p].pc = "redraw"
             /\ reap'[p].token = reap[p].token /\ reap'[p].indexed = reap[p].indexed
             /\ \A q \in Owners \ {p} : reap'[q] = reap[q]
    <3>1. reap[p].pc # "idle"
      BY DEF Recover, Reaping
    <3> QED BY <2>2, <3>1 DEF PassesFollowOn, PassFollows
  <2> QED BY <1>1, <2>1, <2>2
<1>3. UNCHANGED <<ledgerVars, view, generation, halted>>
  BY DEF Recover, liveVars, historyVars
<1>4. drawn' = drawn
  BY <1>3 DEF ledgerVars
<1> QED BY <1>1, <1>2, <1>3, <1>4, OnwardFollows, NoneFinishesTurns, IdleSettles, ViewRests
    DEF Steady, Going

\* A condemned run is about to be reserved by nobody: a candidate's token never is, and
\* beside the lease index only unclaimed runs are condemned.
LEMMA CondemnSettles ==
  ASSUME Base, AbortInvariant, NEW p \in Owners, Condemn(p), CellsFollow, PassesFollowOn
  PROVE  RowsSettle
<1>1. CASE UNCHANGED ledgerVars
  BY <1>1, IdleSettles
<1>2. CASE FinalizeOrNothing(reap[p].run, reap[p].token, "lost")
  <2>1. PICK r \in Runs : r = reap[p].run
    BY DEF Condemn, Reaping, Base, ClusterInvariant, PassesFit, PassFits
  <2>2. PICK t : t = reap[p].token
    OBVIOUS
  <2>3. "lost" \in TerminalStates /\ LedgerInvariant /\ reap[p].pc = "condemn"
    BY DEF TerminalStates, Base, ClusterInvariant, Condemn, Reaping
  <2>6. t # 0 => Candidate(p, r, t)
    <3>1. reap[p].indexed \/ reap[p].token = 0
      BY <2>3 DEF AbortInvariant, GenerationKept
    <3> QED BY <2>1, <2>2, <2>3, <3>1 DEF Candidate
  <2>4. CASE Writes(r, {TerminalState(r, "lost")}) /\ rows[r].token = t
    <3>1. TerminalState(r, "lost") # "completed"
      BY DEF TerminalState
    <3>2. ASSUME NEW q \in Owners
          PROVE  /\ exec'[q][r].pc \in Claimed => exec'[q][r].token # t
                 /\ ~(reap'[q].pc = "rereserve" /\ reap'[q].run = r /\ reap'[q].next = t)
      <4>1. CASE exec'[q][r].pc \in Claimed /\ exec'[q][r].token = t
        <5>1. exec[q][r].pc \in Claimed /\ exec[q][r].token = t
          BY <4>1 DEF CellsFollow, Follows, Claimed
        <5>2. t \in 1..MaxToken
          BY <5>1, HeldIsDrawn DEF Base, Claimed
        <5>3. Coming("claim", q, r, t)
          BY <5>1 DEF Coming, Claimed
        <5>4. Candidate(p, r, t)
          BY <2>6, <5>2
        <5> QED BY <5>2, <5>3, <5>4 DEF Base, ClusterInvariant, TokenInvariant, Kinds
      <4>2. CASE reap'[q].pc = "rereserve" /\ reap'[q].run = r /\ reap'[q].next = t
        <5>1. reap[q].pc = "rereserve" /\ reap[q].run = r /\ reap[q].next = t
          BY <4>2 DEF PassesFollowOn, PassFollows
        <5>2. t \in 1..MaxToken
          BY <5>1 DEF Base, ClusterInvariant, PassesFit, PassFits, LedgerInvariant, TypeOK
        <5>3. Coming("reclaim", q, r, t)
          BY <5>1 DEF Coming
        <5>4. Candidate(p, r, t)
          BY <2>6, <5>2
        <5> QED BY <5>2, <5>3, <5>4 DEF Base, ClusterInvariant, TokenInvariant, Kinds
      <4> QED BY <4>1, <4>2
    <3> SUFFICES ASSUME NEW s \in Runs
                 PROVE  /\ rows'[s].token = rows[s].token
                        /\ rows'[s].generation = rows[s].generation
                        /\ Active(s)' => Active(s) \/ rows[s].token = 0
                        /\ \/ Active(s)'
                           \/ \A u \in Owners :
                                /\ exec'[u][s].pc \in Claimed => exec'[u][s].token # rows[s].token
                                /\ ~(/\ reap'[u].pc = "rereserve" /\ reap'[u].run = s
                                     /\ reap'[u].next = rows[s].token)
                           \/ ~Active(s)
                        /\ rows'[s].state = "completed" => rows[s].state = "completed"
      BY DEF RowsSettle
    <3>3. CASE s = r
      BY <2>4, <3>1, <3>2, <3>3 DEF Writes
    <3>4. CASE s # r
      BY <2>4, <3>4 DEF Writes, Active
    <3> QED BY <3>3, <3>4
  <2>5. CASE UNCHANGED ledgerVars
    BY <2>5, IdleSettles
  <2> QED BY <1>2, <2>1, <2>2, <2>3, <2>4, <2>5, FinalizeWrites
<1> QED BY <1>1, <1>2 DEF Condemn, StoreFails

LEMMA PlainPassSteady ==
  ASSUME Base, AbortInvariant, [Next]_ledgerVars, NEW p \in Owners,
         Judge(p) \/ Condemn(p) \/ Drop(p)
  PROVE  Steady
<1>1. CellsFollow /\ PassesFollowOn /\ CellsTurn
  BY PlainPassOnward, OnwardFollows, PassesOnwardFollow, NoneFinishesTurns
     DEF Base, ClusterInvariant
<1>2. RowsSettle
  BY <1>1, CondemnSettles, IdleSettles DEF Judge, Drop
<1>3. view' = view /\ generation' = generation /\ halted' = halted
  BY DEF Judge, Condemn, Drop, liveVars, historyVars
<1> QED BY <1>1, <1>2, <1>3, ViewRests, DrawnStay DEF Steady, Going

-----------------------------------------------------------------------------
(* Steps of a server or a pass that claims nothing                         *)

\* A server comes to a harmless place, and nothing is written.
LEMMA PlainSteady ==
  ASSUME AbortInvariant, NEW p \in Owners, NEW r \in Runs,
         OthersStay(p, r), Follows(exec[p][r], exec'[p][r]), Harmless(exec'[p][r]),
         reap' = reap, UNCHANGED <<ledgerVars, view, generation, halted>>
  PROVE  Steady
<1>1. CellsFollow
  <2>1. ASSUME NEW q \in Owners, NEW s \in Runs, exec'[q][s] = exec[q][s]
        PROVE  Follows(exec[q][s], exec'[q][s])
    BY <2>1 DEF Follows
  <2> QED BY <2>1 DEF CellsFollow, OthersStay
<1>2. CellsTurn /\ PassesFollowOn
  BY HarmlessTurns, PassesRestOnward, PassesOnwardFollow
<1>3. drawn' = drawn
  BY DEF ledgerVars
<1> QED BY <1>1, <1>2, <1>3, IdleSettles, ViewRests DEF Steady, Going

LEMMA BuildSteady ==
  ASSUME Base, AbortInvariant, NEW p \in Owners, NEW r \in Runs, BuildTurn(p, r)
  PROVE  Steady
<1>1. ServersFit /\ exec[p][r] \in Exec /\ exec[p][r].pc = "build"
  BY DEF Base, ClusterInvariant, ServersFit, BuildTurn, At
<1>2. reap' = reap /\ UNCHANGED <<ledgerVars, view, generation, halted>>
  BY DEF BuildTurn, liveVars
<1>3. CASE Goto(p, r, "promote")
  <2>1. /\ exec'[p][r].pc = "promote" /\ exec'[p][r].token = exec[p][r].token
        /\ OthersStay(p, r)
    BY <1>1, <1>3, GotoPlace
  <2>2. Follows(exec[p][r], exec'[p][r]) /\ Harmless(exec'[p][r])
    BY <1>1, <2>1 DEF Follows, Harmless, Claimed
  <2> QED BY <1>2, <2>1, <2>2, PlainSteady
<1>4. PICK e : e = [exec[p][r] EXCEPT !.pc = "unwind", !.out = "failed"]
  OBVIOUS
<1>5. CASE Becomes(p, r, e)
  <2>1. e.pc = "unwind" /\ e.out = "failed" /\ e.token = exec[p][r].token
    BY <1>1, <1>4 DEF Exec
  <2>2. exec'[p][r] = e /\ OthersStay(p, r)
    BY <1>1, <1>5, CellPlace
  <2>3. Follows(exec[p][r], exec'[p][r]) /\ Harmless(exec'[p][r])
    BY <1>1, <2>1, <2>2 DEF Follows, Harmless, Claimed
  <2> QED BY <1>2, <2>2, <2>3, PlainSteady
<1> QED BY <1>3, <1>4, <1>5 DEF BuildTurn, Becomes

\* A draw that fails and a claim that is refused leave nothing behind.
LEMMA ForgetSteady ==
  ASSUME Base, AbortInvariant, NEW p \in Owners, NEW r \in Runs, Forget(p, r),
         reap' = reap, UNCHANGED <<ledgerVars, view, generation, halted>>
  PROVE  Steady
<1>1. ServersFit
  BY DEF Base, ClusterInvariant
<1>2. exec'[p][r] = Idle /\ OthersStay(p, r)
  BY <1>1, ForgetOnward DEF OthersStay
<1>3. Follows(exec[p][r], exec'[p][r]) /\ Harmless(exec'[p][r])
  BY <1>2 DEF Follows, Harmless, Idle
<1> QED BY <1>2, <1>3, PlainSteady

-----------------------------------------------------------------------------
(* A token that is drawn                                                   *)

\* A token nobody drew is held by nobody and was never halted.
LEMMA NewIsFree ==
  ASSUME Base, AbortInvariant, NEW n, \A d \in drawn : d.token # n
  PROVE  /\ \A p \in Owners, r \in Runs : ~Holds(p, r, n) /\ ~NextOf(p, r, n)
         /\ \A r \in Runs : ~HaltedAt(r, n)
<1>1. ASSUME NEW p \in Owners, NEW r \in Runs, Holds(p, r, n)
      PROVE  FALSE
  <2>1. [run |-> r, token |-> exec[p][r].token] \in drawn /\ exec[p][r].token = n
    BY <1>1, HeldIsDrawn DEF Base, Holds
  <2> QED BY <2>1
<1>2. ASSUME NEW p \in Owners, NEW r \in Runs, NextOf(p, r, n)
      PROVE  FALSE
  <2>1. [run |-> r, token |-> n] \in drawn
    BY <1>2 DEF NextOf, Base, ClusterInvariant, PassesFit, PassFits
  <2> QED BY <2>1
<1>3. ASSUME NEW r \in Runs, HaltedAt(r, n)
      PROVE  FALSE
  <2>1. [run |-> r, token |-> n] \in drawn
    BY <1>3 DEF HaltedAt, AbortInvariant, HaltInvariant
  <2> QED BY <2>1
<1> QED BY <1>1, <1>2, <1>3

\* One server or one pass comes to hold the new token, of the current generation.
LEMMA DrawKeeps ==
  ASSUME Base, AbortInvariant, NEW n, \A d \in drawn : d.token # n, drawn \subseteq drawn',
         UNCHANGED <<rows, view, halted, generation>>,
         \A q \in Owners, s \in Runs :
           \/ exec'[q][s] = exec[q][s]
           \/ /\ exec'[q][s].pc = "claim" /\ exec'[q][s].token = n
              /\ exec'[q][s].gen = generation,
         \A q \in Owners :
           \/ reap'[q] = reap[q]
           \/ /\ reap'[q].pc = "reclaim" /\ reap'[q].next = n /\ reap'[q].gen = generation
              /\ reap'[q].indexed \/ reap'[q].token = 0,
         \A q, u \in Owners, s \in Runs :
           Holds(q, s, n)' => (Holds(u, s, n)' => q = u) /\ ~NextOf(u, s, n)'
  PROVE  AbortInvariant'
<1>1. ASSUME NEW q \in Owners, NEW s \in Runs, NEW t, t # n
      PROVE  /\ Holds(q, s, t)' => Holds(q, s, t) /\ exec'[q][s] = exec[q][s]
             /\ NextOf(q, s, t)' => NextOf(q, s, t)
  BY <1>1 DEF Holds, NextOf
<1>2. \A s \in Runs : ~HaltedAt(s, n)
  BY NewIsFree
<1>3. HoldersDiffer'
  <2> SUFFICES ASSUME NEW q \in Owners, NEW u \in Owners, NEW s \in Runs, NEW t \in 1..MaxToken,
                      Holds(q, s, t)'
               PROVE  (Holds(u, s, t)' => q = u) /\ ~NextOf(u, s, t)'
    BY DEF HoldersDiffer
  <2>1. CASE t = n
    BY <2>1
  <2>2. CASE t # n
    <3>1. Holds(q, s, t)
      BY <1>1, <2>2
    <3>2. (Holds(u, s, t) => q = u) /\ ~NextOf(u, s, t)
      BY <3>1 DEF AbortInvariant, HoldersDiffer
    <3> QED BY <1>1, <2>2, <3>2
  <2> QED BY <2>1, <2>2
<1>4. GenerationKept'
  <2>1. \A s \in Runs : rows'[s].generation \in {NoGeneration, generation'}
    <3>1. \A s \in Runs : rows[s].generation \in {NoGeneration, generation}
      BY DEF AbortInvariant, GenerationKept
    <3>2. rows' = rows /\ generation' = generation
      OBVIOUS
    <3> QED BY <3>1, <3>2
  <2>2. \A q \in Owners, s \in Runs : exec'[q][s].pc = "claim" => exec'[q][s].gen = generation'
    BY DEF AbortInvariant, GenerationKept
  <2>3. ASSUME NEW q \in Owners
        PROVE  /\ reap'[q].pc \in {"reclaim", "sweep"} => reap'[q].gen = generation'
               /\ reap'[q].pc # "idle" /\ ~reap'[q].indexed => reap'[q].token = 0
    <3>1. CASE reap'[q] = reap[q]
      BY <3>1 DEF AbortInvariant, GenerationKept
    <3>2. CASE /\ reap'[q].gen = generation
               /\ reap'[q].indexed \/ reap'[q].token = 0
      BY <3>2
    <3> QED BY <3>1, <3>2
  <2> QED BY <2>1, <2>2, <2>3 DEF GenerationKept
<1>5. ReservedAreActive'
  <2>1. \A q \in Owners, s \in Runs : exec'[q][s].pc \in Claimed => Active(s)'
    BY DEF AbortInvariant, ReservedAreActive, Active, Claimed
  <2>2. \A q \in Owners : reap'[q].pc = "rereserve" =>
          reap'[q] = reap[q] /\ rows[reap[q].run].state \in ActiveStates
    BY DEF AbortInvariant, ReservedAreActive, Active
  <2> QED BY <2>1, <2>2 DEF ReservedAreActive, Active
<1>6. OutcomeInvariant'
  <2> SUFFICES ASSUME NEW q \in Owners, NEW s \in Runs
               PROVE  /\ exec'[q][s].pc = "unwind" => exec'[q][s].out # "completed"
                      /\ exec'[q][s].pc = "release"
                           => ~(Active(s)' /\ rows'[s].token = exec'[q][s].token)
                      /\ rows'[s].state = "completed" /\ exec'[q][s].pc \notin Unclaimed
                           /\ exec'[q][s].token = rows'[s].token => exec'[q][s].pc = "release"
    BY DEF OutcomeInvariant, Active
  <2>1. CASE exec'[q][s] = exec[q][s]
    BY <2>1 DEF AbortInvariant, OutcomeInvariant, Active
  <2>2. CASE exec'[q][s].pc = "claim"
    BY <2>2 DEF Unclaimed
  <2> QED BY <2>1, <2>2
<1>7. HaltInvariant'
  <2>1. halted' \subseteq drawn'
    BY DEF AbortInvariant, HaltInvariant
  <2>2. ASSUME NEW s \in Runs, NEW t \in 1..MaxToken, HaltedAt(s, t)'
        PROVE  HaltedAt(s, t) /\ t # n
    BY <1>2, <2>2 DEF HaltedAt
  <2>3. ASSUME NEW s \in Runs, NEW t \in 1..MaxToken, NEW q \in Owners, HaltedAt(s, t)'
        PROVE  /\ Holds(q, s, t)' => exec'[q][s].pc \notin Reserving
               /\ ~NextOf(q, s, t)'
    <3>1. /\ Holds(q, s, t) => exec[q][s].pc \notin Reserving
          /\ ~NextOf(q, s, t)
      BY <2>2, <2>3 DEF AbortInvariant, HaltInvariant
    <3>2. t # n
      BY <2>2, <2>3
    <3>3. NextOf(q, s, t)' => NextOf(q, s, t)
      BY <1>1, <3>2
    <3>4. Holds(q, s, t)' => Holds(q, s, t) /\ exec'[q][s] = exec[q][s]
      BY <1>1, <3>2
    <3> QED BY <3>1, <3>3, <3>4
  <2>4. ASSUME NEW s \in Runs, NEW t \in 1..MaxToken, Stopped(s, t)'
        PROVE  /\ ViewIs(s, t)' /\ view'.status \in StoppedStatuses
               /\ \A q \in Owners :
                    Holds(q, s, t)' =>
                      /\ exec'[q][s].pc \in {"resuming", "resumed"}
                           => view'.status # "waiting_decision"
                      /\ exec'[q][s].pc = "finish" => exec'[q][s].out # "completed"
    <3>1. Stopped(s, t) /\ t # n
      BY <2>2, <2>4 DEF Stopped, Active
    <3>2. /\ ViewIs(s, t) /\ view.status \in StoppedStatuses
          /\ \A q \in Owners :
               Holds(q, s, t) =>
                 /\ exec[q][s].pc \in {"resuming", "resumed"} => view.status # "waiting_decision"
                 /\ exec[q][s].pc = "finish" => exec[q][s].out # "completed"
      BY <3>1 DEF AbortInvariant, HaltInvariant
    <3>3. \A q \in Owners : Holds(q, s, t)' => Holds(q, s, t) /\ exec'[q][s] = exec[q][s]
      BY <1>1, <3>1
    <3> QED BY <3>2, <3>3 DEF ViewIs
  <2> QED BY <2>1, <2>3, <2>4 DEF HaltInvariant
<1>8. ViewFits' /\ StoppedNeverCompletes'
  BY DEF AbortInvariant, ViewFits, StoppedNeverCompletes
<1> QED BY <1>3, <1>4, <1>5, <1>6, <1>7, <1>8 DEF AbortInvariant

LEMMA DrawTokenAborts ==
  ASSUME Base, AbortInvariant, NEW p \in Owners, NEW r \in Runs, DrawToken(p, r)
  PROVE  AbortInvariant'
<1>1. ServersFit /\ LedgerInvariant /\ exec[p][r] \in Exec /\ reap' = reap
      /\ UNCHANGED <<view, halted, generation>>
  BY DEF Base, ClusterInvariant, ServersFit, DrawToken, liveVars
<1>2. CASE StoreFails /\ Forget(p, r)
  <2>1. Steady
    BY <1>1, <1>2, ForgetSteady DEF StoreFails
  <2> QED BY <2>1, SteadyKeeps
<1>3. PICK n : n = tokenSeq + 1
  OBVIOUS
<1>4. PICK e : e = [exec[p][r] EXCEPT !.pc = "claim", !.token = n, !.gen = generation]
  OBVIOUS
<1>5. CASE NextFencingToken(r) /\ Becomes(p, r, e)
  <2>1. rows' = rows /\ drawn \subseteq drawn' /\ \A d \in drawn : d.token # n
    BY <1>1, <1>3, <1>5, TokenIsNew DEF RowsStay
  <2>2. e.pc = "claim" /\ e.token = n /\ e.gen = generation
    BY <1>1, <1>4 DEF Exec
  <2>3. exec'[p][r] = e /\ OthersStay(p, r)
    BY <1>1, <1>5, CellPlace
  <2>4. \A q \in Owners, s \in Runs : ~Holds(q, s, n) /\ ~NextOf(q, s, n)
    BY <2>1, NewIsFree
  <2>5. \A q \in Owners, s \in Runs : Holds(q, s, n)' => q = p /\ s = r
    BY <2>3, <2>4 DEF Holds, OthersStay
  <2>6. \A q \in Owners, s \in Runs : ~NextOf(q, s, n)'
    BY <1>1, <2>4 DEF NextOf
  <2>7. \A q, u \in Owners, s \in Runs :
          Holds(q, s, n)' => (Holds(u, s, n)' => q = u) /\ ~NextOf(u, s, n)'
    BY <2>5, <2>6
  <2>8. \A q \in Owners, s \in Runs :
          \/ exec'[q][s] = exec[q][s]
          \/ exec'[q][s].pc = "claim" /\ exec'[q][s].token = n /\ exec'[q][s].gen = generation
    BY <2>2, <2>3 DEF OthersStay
  <2> QED BY <1>1, <2>1, <2>7, <2>8, DrawKeeps
<1> QED BY <1>2, <1>3, <1>4, <1>5 DEF DrawToken, Becomes

LEMMA RedrawAborts ==
  ASSUME Base, AbortInvariant, NEW p \in Owners, Redraw(p)
  PROVE  AbortInvariant'
<1>1. /\ PassesFit /\ LedgerInvariant /\ reap[p] \in Reap /\ reap[p].run \in Runs
      /\ reap[p].indexed /\ exec' = exec /\ NextFencingToken(reap[p].run)
      /\ UNCHANGED <<view, halted, generation>>
  BY DEF Base, ClusterInvariant, PassesFit, PassFits, FromIndex, Redraw, Reaping, liveVars,
         historyVars
<1>2. PICK n : n = tokenSeq + 1
  OBVIOUS
<1>3. PICK x : x = [reap[p] EXCEPT !.pc = "reclaim", !.next = n, !.gen = generation]
  OBVIOUS
<1>4. x.pc = "reclaim" /\ x.next = n /\ x.gen = generation /\ x.indexed /\ Turns(p, x)
  BY <1>1, <1>2, <1>3 DEF Reap, Redraw, Turns
<1>5. reap'[p] = x /\ \A q \in Owners \ {p} : reap'[q] = reap[q]
  BY <1>1, <1>4, PassAlone
<1>6. rows' = rows /\ drawn \subseteq drawn' /\ \A d \in drawn : d.token # n
  BY <1>1, <1>2, TokenIsNew DEF RowsStay
<1>7. \A q \in Owners, s \in Runs : ~Holds(q, s, n)'
  BY <1>1, <1>6, NewIsFree DEF Holds
<1>8. \A q \in Owners :
        \/ reap'[q] = reap[q]
        \/ /\ reap'[q].pc = "reclaim" /\ reap'[q].next = n /\ reap'[q].gen = generation
           /\ reap'[q].indexed \/ reap'[q].token = 0
  BY <1>4, <1>5
<1> QED BY <1>1, <1>6, <1>7, <1>8, DrawKeeps

-----------------------------------------------------------------------------
(* A row that is claimed or reclaimed                                      *)

\* A run in progress moves to a token that is coming for it.
LEMMA MoveKeeps ==
  ASSUME Base, AbortInvariant, NEW r \in Runs, NEW t \in 1..MaxToken, ~HaltedAt(r, t),
         Active(r)', rows'[r].token = t, rows'[r].generation = generation,
         \A s \in Runs \ {r} : rows'[s] = rows[s],
         UNCHANGED <<view, halted, generation, drawn>>,
         \A q \in Owners, s \in Runs :
           \/ exec'[q][s] = exec[q][s]
           \/ /\ s = r /\ exec[q][s].pc = "claim"
              /\ exec'[q][s].pc = "activate" /\ exec'[q][s].token = exec[q][s].token,
         \A q \in Owners : exec[q][r].pc = "release" => exec[q][r].token # t,
         \A q \in Owners :
           \/ reap'[q] = reap[q]
           \/ /\ reap[q].pc = "reclaim" /\ reap'[q].pc = "rereserve" /\ reap[q].run = r
              /\ reap'[q].run = reap[q].run /\ reap'[q].next = reap[q].next
              /\ reap'[q].token = reap[q].token /\ reap'[q].indexed = reap[q].indexed
  PROVE  AbortInvariant'
<1>1. \A q \in Owners, s \in Runs : \A u :
        Holds(q, s, u)' => /\ Holds(q, s, u)
                           /\ \/ exec'[q][s] = exec[q][s]
                              \/ exec[q][s].pc = "claim" /\ exec'[q][s].pc = "activate"
  BY DEF Holds
<1>2. \A q \in Owners, s \in Runs : \A u : NextOf(q, s, u)' => NextOf(q, s, u)
  BY DEF NextOf
<1>3. rows'[r].state \in ActiveStates /\ rows'[r].state # "completed"
  BY DEF Active, ActiveStates
<1>4. HoldersDiffer'
  BY <1>1, <1>2 DEF AbortInvariant, HoldersDiffer
<1>5. GenerationKept'
  <2>1. ASSUME NEW s \in Runs
        PROVE  rows'[s].generation \in {NoGeneration, generation'}
    BY DEF AbortInvariant, GenerationKept
  <2>2. ASSUME NEW q \in Owners, NEW s \in Runs, exec'[q][s].pc = "claim"
        PROVE  exec'[q][s].gen = generation'
    BY <2>2 DEF AbortInvariant, GenerationKept
  <2>3. ASSUME NEW q \in Owners
        PROVE  /\ reap'[q].pc \in {"reclaim", "sweep"} => reap'[q].gen = generation'
               /\ reap'[q].pc # "idle" /\ ~reap'[q].indexed => reap'[q].token = 0
    <3>1. /\ reap[q].pc \in {"reclaim", "sweep"} => reap[q].gen = generation
          /\ reap[q].pc # "idle" /\ ~reap[q].indexed => reap[q].token = 0
      BY DEF AbortInvariant, GenerationKept
    <3>2. CASE reap'[q] = reap[q]
      BY <3>1, <3>2
    <3>3. CASE reap'[q] # reap[q]
      BY <3>1, <3>3
    <3> QED BY <3>2, <3>3
  <2> QED BY <2>1, <2>2, <2>3 DEF GenerationKept
<1>6. ReservedAreActive'
  <2>1. ASSUME NEW q \in Owners, NEW s \in Runs, exec'[q][s].pc \in Claimed
        PROVE  Active(s)'
    <3>1. CASE s = r
      BY <3>1
    <3>2. CASE s # r
      <4>1. exec'[q][s] = exec[q][s] /\ rows'[s] = rows[s]
        BY <3>2
      <4>2. Active(s)
        BY <2>1, <4>1 DEF AbortInvariant, ReservedAreActive
      <4> QED BY <4>1, <4>2 DEF Active
    <3> QED BY <3>1, <3>2
  <2>2. ASSUME NEW q \in Owners, reap'[q].pc = "rereserve"
        PROVE  Active(reap[q].run)' /\ reap'[q].run = reap[q].run
    <3>1. CASE reap[q].run = r
      BY <2>2, <3>1 DEF Active
    <3>2. CASE reap[q].run # r
      <4>1. reap'[q] = reap[q]
        BY <3>2
      <4>2. reap[q].run \in Runs /\ rows[reap[q].run].state \in ActiveStates
        BY <2>2, <4>1, PassesNameRuns
           DEF Base, ClusterInvariant, Recovering, AbortInvariant, ReservedAreActive, Active
      <4> QED BY <3>2, <4>1, <4>2 DEF Active
    <3> QED BY <3>1, <3>2
  <2> QED BY <2>1, <2>2 DEF ReservedAreActive, Active
<1>7. OutcomeInvariant'
  <2> SUFFICES ASSUME NEW q \in Owners, NEW s \in Runs
               PROVE  /\ exec'[q][s].pc = "unwind" => exec'[q][s].out # "completed"
                      /\ exec'[q][s].pc = "release"
                           => ~(Active(s)' /\ rows'[s].token = exec'[q][s].token)
                      /\ rows'[s].state = "completed" /\ exec'[q][s].pc \notin Unclaimed
                           /\ exec'[q][s].token = rows'[s].token => exec'[q][s].pc = "release"
    BY DEF OutcomeInvariant, Active
  <2>1. CASE s # r
    <3>1. exec'[q][s] = exec[q][s] /\ rows'[s] = rows[s]
      BY <2>1
    <3> QED BY <3>1 DEF AbortInvariant, OutcomeInvariant, Active
  <2>2. CASE s = r /\ exec'[q][s] = exec[q][s]
    BY <1>3, <2>2 DEF AbortInvariant, OutcomeInvariant
  <2>3. CASE s = r /\ exec'[q][s].pc = "activate"
    BY <1>3, <2>3
  <2> QED BY <2>1, <2>2, <2>3
<1>8. HaltInvariant'
  <2>1. halted' \subseteq drawn'
    BY DEF AbortInvariant, HaltInvariant
  <2>2. ASSUME NEW s \in Runs, NEW u \in 1..MaxToken, NEW q \in Owners, HaltedAt(s, u)'
        PROVE  /\ Holds(q, s, u)' => exec'[q][s].pc \notin Reserving
               /\ ~NextOf(q, s, u)'
    <3>1. HaltedAt(s, u)
      BY <2>2 DEF HaltedAt
    <3>2. (Holds(q, s, u) => exec[q][s].pc \notin Reserving) /\ ~NextOf(q, s, u)
      BY <3>1 DEF AbortInvariant, HaltInvariant
    <3>3. ~NextOf(q, s, u)'
      BY <1>2, <3>2
    <3>4. Holds(q, s, u)' => exec'[q][s] = exec[q][s] /\ exec[q][s].pc \notin Reserving
      BY <1>1, <3>2 DEF Reserving
    <3> QED BY <3>3, <3>4
  <2>3. ASSUME NEW s \in Runs, NEW u \in 1..MaxToken, Stopped(s, u)'
        PROVE  /\ ViewIs(s, u)' /\ view'.status \in StoppedStatuses
               /\ \A q \in Owners :
                    Holds(q, s, u)' =>
                      /\ exec'[q][s].pc \in {"resuming", "resumed"}
                           => view'.status # "waiting_decision"
                      /\ exec'[q][s].pc = "finish" => exec'[q][s].out # "completed"
    <3>1. s # r
      BY <2>3 DEF Stopped, HaltedAt
    <3>2. Stopped(s, u) /\ \A q \in Owners : exec'[q][s] = exec[q][s]
      BY <2>3, <3>1 DEF Stopped, HaltedAt, Active
    <3>3. \A q \in Owners : Holds(q, s, u)' => Holds(q, s, u)
      BY <1>1
    <3>4. /\ ViewIs(s, u) /\ view.status \in StoppedStatuses
          /\ \A q \in Owners :
               Holds(q, s, u) =>
                 /\ exec[q][s].pc \in {"resuming", "resumed"} => view.status # "waiting_decision"
                 /\ exec[q][s].pc = "finish" => exec[q][s].out # "completed"
      BY <3>2 DEF AbortInvariant, HaltInvariant
    <3> QED BY <3>2, <3>3, <3>4 DEF ViewIs
  <2> QED BY <2>1, <2>2, <2>3 DEF HaltInvariant
<1>9. StoppedNeverCompletes'
  <2> SUFFICES ASSUME NEW h \in halted, rows'[h.run].token = h.token,
                      rows'[h.run].state = "completed"
               PROVE  FALSE
    BY DEF StoppedNeverCompletes
  <2>1. PICK s \in Runs, u \in 1..MaxToken : h = [run |-> s, token |-> u]
    BY DEF AbortInvariant, HaltInvariant, Base, ClusterInvariant, LedgerInvariant, TypeOK
  <2>2. s # r
    BY <1>3, <2>1
  <2>3. rows[h.run].token = h.token /\ rows[h.run].state = "completed"
    BY <2>1, <2>2
  <2> QED BY <2>3 DEF AbortInvariant, StoppedNeverCompletes
<1>10. ViewFits'
  BY DEF AbortInvariant, ViewFits
<1> QED BY <1>4, <1>5, <1>6, <1>7, <1>8, <1>9, <1>10 DEF AbortInvariant

LEMMA ClaimRunAborts ==
  ASSUME Base, AbortInvariant, NEW p \in Owners, NEW r \in Runs, ClaimRun(p, r)
  PROVE  AbortInvariant'
<1>1. /\ ServersFit /\ LedgerInvariant /\ exec[p][r].pc = "claim" /\ reap' = reap
      /\ UNCHANGED <<view, halted, generation>>
  BY DEF Base, ClusterInvariant, ServersFit, ClaimRun, At, liveVars, historyVars
<1>2. CASE Forget(p, r) /\ UNCHANGED ledgerVars
  <2>1. Steady
    BY <1>1, <1>2, ForgetSteady
  <2> QED BY <2>1, SteadyKeeps
<1>3. CASE Claim(r, p, Tok(p, r), exec[p][r].gen) /\ Goto(p, r, "activate")
  <2>1. PICK t : t = Tok(p, r)
    OBVIOUS
  <2>2. t \in 1..MaxToken /\ t = exec[p][r].token
    BY <1>1, <2>1, HeldIsDrawn DEF Base, Tok
  <2>3. exec[p][r].gen = generation
    BY <1>1 DEF AbortInvariant, GenerationKept
  <2>4. rows \in [Runs -> Row] /\ rows[r].state = "accepted" /\ drawn' = drawn
    BY <1>1, <1>3 DEF LedgerInvariant, TypeOK, Claim, ClaimApplies
  <2>5. /\ rows'[r].state = "running" /\ rows'[r].token = t /\ rows'[r].generation = generation
        /\ \A s \in Runs \ {r} : rows'[s] = rows[s]
    BY <1>3, <2>1, <2>3, <2>4 DEF Claim, Row
  <2>6. Active(r)'
    BY <2>5 DEF Active, ActiveStates
  <2>7. /\ exec'[p][r].pc = "activate" /\ exec'[p][r].token = exec[p][r].token
        /\ OthersStay(p, r)
    BY <1>1, <1>3, GotoPlace
  <2>8. \A q \in Owners, s \in Runs :
          \/ exec'[q][s] = exec[q][s]
          \/ /\ s = r /\ exec[q][s].pc = "claim"
             /\ exec'[q][s].pc = "activate" /\ exec'[q][s].token = exec[q][s].token
    BY <1>1, <2>7 DEF OthersStay
  <2>9. \A q \in Owners : exec[q][r].pc # "release"
    BY <2>4 DEF Base, ClusterInvariant, ClaimInvariant, Owned
  <2>10. ~HaltedAt(r, t)
    BY <1>1, <2>2 DEF AbortInvariant, HaltInvariant, Holds, Reserving
  <2> QED BY <1>1, <2>2, <2>4, <2>5, <2>6, <2>8, <2>9, <2>10, MoveKeeps
<1> QED BY <1>2, <1>3 DEF ClaimRun

LEMMA ReclaimAborts ==
  ASSUME Base, AbortInvariant, NEW p \in Owners, Reclaim(p)
  PROVE  AbortInvariant'
<1>1. /\ PassesFit /\ LedgerInvariant /\ reap[p] \in Reap /\ reap[p].pc = "reclaim"
      /\ reap[p].run \in Runs /\ [run |-> reap[p].run, token |-> reap[p].next] \in drawn
      /\ exec' = exec /\ UNCHANGED <<view, halted, generation>>
  BY DEF Base, ClusterInvariant, PassesFit, PassFits, Reclaim, Reaping, liveVars, historyVars
<1>2. CASE Rest(p) /\ UNCHANGED ledgerVars
  <2>1. Steady
    BY <1>1, <1>2, RestSteady
  <2> QED BY <2>1, SteadyKeeps
<1>3. PICK r \in Runs : r = reap[p].run
  BY <1>1
<1>4. PICK t \in 1..MaxToken : t = reap[p].next
  BY <1>1 DEF LedgerInvariant, TypeOK
<1>5. CASE ReclaimWaitingDecision(r, p, reap[p].prev, t, reap[p].gen) /\ Pass(p, "rereserve")
  <2>1. reap[p].gen = generation /\ NextOf(p, r, t)
    BY <1>1, <1>3, <1>4 DEF AbortInvariant, GenerationKept, NextOf
  <2>2. /\ rows \in [Runs -> Row] /\ rows[r].state = "waiting_decision" /\ drawn' = drawn
    BY <1>1, <1>5 DEF LedgerInvariant, TypeOK, ReclaimWaitingDecision, ReclaimApplies
  <2>3. /\ rows'[r].state = "waiting_decision" /\ rows'[r].token = t
        /\ rows'[r].generation = generation
        /\ \A s \in Runs \ {r} : rows'[s] = rows[s]
    BY <1>5, <2>1, <2>2 DEF ReclaimWaitingDecision, Row
  <2>4. Active(r)'
    BY <2>3 DEF Active, ActiveStates
  <2>5. PICK x : x = [reap[p] EXCEPT !.pc = "rereserve"]
    OBVIOUS
  <2>6. /\ x.pc = "rereserve" /\ x.run = reap[p].run /\ x.next = reap[p].next
        /\ x.token = reap[p].token /\ x.indexed = reap[p].indexed /\ Turns(p, x)
    BY <1>1, <1>5, <2>5 DEF Reap, Pass, Turns
  <2>7. reap'[p] = x /\ \A q \in Owners \ {p} : reap'[q] = reap[q]
    BY <1>1, <2>6, PassAlone
  <2>8. \A q \in Owners :
          \/ reap'[q] = reap[q]
          \/ /\ reap[q].pc = "reclaim" /\ reap'[q].pc = "rereserve" /\ reap[q].run = r
             /\ reap'[q].run = reap[q].run /\ reap'[q].next = reap[q].next
             /\ reap'[q].token = reap[q].token /\ reap'[q].indexed = reap[q].indexed
    BY <1>1, <1>3, <2>6, <2>7
  <2>9. \A q \in Owners : exec[q][r].pc = "release" => exec[q][r].token # t
    BY <2>1 DEF AbortInvariant, HoldersDiffer, Holds
  <2>10. ~HaltedAt(r, t)
    BY <2>1 DEF AbortInvariant, HaltInvariant
  <2> QED BY <1>1, <2>2, <2>3, <2>4, <2>8, <2>9, <2>10, MoveKeeps
<1> QED BY <1>2, <1>3, <1>4, <1>5 DEF Reclaim

\* The reservation of a reclaimed run shows an ownership that was not stopped.
LEMMA RereserveAborts ==
  ASSUME Base, AbortInvariant, NEW p \in Owners, Rereserve(p)
  PROVE  AbortInvariant'
<1>1. /\ PassesFit /\ ServersFit /\ LedgerInvariant /\ TokenInvariant
      /\ reap[p] \in Reap /\ reap[p].pc = "rereserve"
      /\ reap[p].run \in Runs /\ [run |-> reap[p].run, token |-> reap[p].next] \in drawn
      /\ rows' = rows /\ drawn' = drawn /\ UNCHANGED <<ledgerVars, halted, generation>>
  BY DEF Base, ClusterInvariant, PassesFit, PassFits, Rereserve, Reaping, ledgerVars, historyVars
<1>2. CASE Rest(p) /\ UNCHANGED <<view, exec>>
  <2>1. Steady
    BY <1>1, <1>2, RestSteady
  <2> QED BY <2>1, SteadyKeeps
<1>3. PICK r \in Runs : r = reap[p].run
  BY <1>1
<1>4. PICK t \in 1..MaxToken : t = reap[p].next
  BY <1>1 DEF LedgerInvariant, TypeOK
<1>5. CASE /\ Reserve(r, t, "waiting_decision")
           /\ exec' = [exec EXCEPT ![p][r] =
                [Idle EXCEPT !.pc = "parked", !.token = t, !.own = "held",
                             !.renew = TRUE, !.asked = TRUE]]
           /\ Pass(p, "drop")
  <2>1. NextOf(p, r, t) /\ Active(r) /\ rows[r].token = t
    BY <1>1, <1>3, <1>4
       DEF NextOf, AbortInvariant, ReservedAreActive, Active, Base, PassInvariant
  <2>2. PICK e : e = [Idle EXCEPT !.pc = "parked", !.token = t, !.own = "held",
                                  !.renew = TRUE, !.asked = TRUE]
    OBVIOUS
  <2>3. e.pc = "parked" /\ e.token = t /\ Becomes(p, r, e)
    BY <1>5, <2>2 DEF Idle, Becomes
  <2>4. exec'[p][r] = e /\ OthersStay(p, r)
    BY <1>1, <2>3, CellPlace
  <2>5. /\ PassesOnward /\ reap'[p].pc = "drop"
        /\ \A q \in Owners \ {p} : reap'[q] = reap[q]
    BY <1>1, <1>5, PassOn DEF Recovering
  <2>6. PassesFollowOn
    BY <2>5, PassesOnwardFollow
  <2>7. \A q \in Owners : ~Holds(q, r, t)
    BY <2>1 DEF AbortInvariant, HoldersDiffer
  <2>8. \A q \in Owners, s \in Runs : \A u :
          Holds(q, s, u)' => \/ Holds(q, s, u) /\ exec'[q][s] = exec[q][s]
                             \/ q = p /\ s = r /\ u = t
    BY <2>3, <2>4 DEF Holds, OthersStay
  <2>9. \A q \in Owners : ~NextOf(q, r, t)'
    <3>1. "reclaim" \in Kinds /\ Coming("reclaim", p, r, t)
      BY <2>1 DEF Kinds, Coming, NextOf
    <3>2. \A q \in Owners : Coming("reclaim", q, r, t) => q = p
      BY <1>1, <3>1 DEF TokenInvariant
    <3>3. ASSUME NEW q \in Owners, NextOf(q, r, t)' PROVE FALSE
      <4>1. NextOf(q, r, t)
        BY <2>6, <3>3, NextsFollow
      <4>2. q = p
        BY <3>2, <4>1 DEF Coming, NextOf
      <4> QED BY <2>5, <3>3, <4>2 DEF NextOf
    <3> QED BY <3>3
  <2>10. \A q \in Owners, s \in Runs : \A u : NextOf(q, s, u)' => NextOf(q, s, u)
    BY <2>6, NextsFollow
  <2>11. HoldersDiffer'
    <3> SUFFICES ASSUME NEW q \in Owners, NEW v \in Owners, NEW s \in Runs, NEW u \in 1..MaxToken,
                        Holds(q, s, u)'
                 PROVE  (Holds(v, s, u)' => q = v) /\ ~NextOf(v, s, u)'
      BY DEF HoldersDiffer
    <3>1. CASE s = r /\ u = t
      BY <2>7, <2>8, <2>9, <3>1
    <3>2. CASE ~(s = r /\ u = t)
      <4>1. Holds(q, s, u)
        BY <2>8, <3>2
      <4>2. (Holds(v, s, u) => q = v) /\ ~NextOf(v, s, u)
        BY <4>1 DEF AbortInvariant, HoldersDiffer
      <4> QED BY <2>8, <2>10, <3>2, <4>2
    <3> QED BY <3>1, <3>2
  <2>12. GenerationKept'
    <3>1. \A s \in Runs : rows'[s].generation \in {NoGeneration, generation'}
      BY <1>1 DEF AbortInvariant, GenerationKept
    <3>2. ASSUME NEW q \in Owners, NEW s \in Runs, exec'[q][s].pc = "claim"
          PROVE  exec'[q][s].gen = generation'
      <4>1. exec'[q][s] = exec[q][s]
        BY <2>3, <2>4, <3>2 DEF OthersStay
      <4> QED BY <1>1, <3>2, <4>1 DEF AbortInvariant, GenerationKept
    <3>3. ASSUME NEW q \in Owners
          PROVE  /\ reap'[q].pc \in {"reclaim", "sweep"} => reap'[q].gen = generation'
                 /\ reap'[q].pc # "idle" /\ ~reap'[q].indexed => reap'[q].token = 0
      <4>1. PassFollows(reap[q], reap'[q])
        BY <2>6 DEF PassesFollowOn
      <4> QED BY <1>1, <4>1 DEF PassFollows, AbortInvariant, GenerationKept
    <3> QED BY <3>1, <3>2, <3>3 DEF GenerationKept
  <2>13. ReservedAreActive'
    <3>1. ASSUME NEW q \in Owners, NEW s \in Runs, exec'[q][s].pc \in Claimed
          PROVE  Active(s)'
      <4>1. exec'[q][s] = exec[q][s]
        BY <2>3, <2>4, <3>1 DEF OthersStay, Claimed
      <4> QED BY <1>1, <3>1, <4>1 DEF AbortInvariant, ReservedAreActive, Active
    <3>2. ASSUME NEW q \in Owners, reap'[q].pc = "rereserve"
          PROVE  reap'[q] = reap[q] /\ Active(reap[q].run)
      BY <2>5, <3>2 DEF AbortInvariant, ReservedAreActive
    <3> QED BY <1>1, <3>1, <3>2 DEF ReservedAreActive, Active
  <2>14. OutcomeInvariant'
    <3> SUFFICES ASSUME NEW q \in Owners, NEW s \in Runs
                 PROVE  /\ exec'[q][s].pc = "unwind" => exec'[q][s].out # "completed"
                        /\ exec'[q][s].pc = "release"
                             => ~(Active(s)' /\ rows'[s].token = exec'[q][s].token)
                        /\ rows'[s].state = "completed" /\ exec'[q][s].pc \notin Unclaimed
                             /\ exec'[q][s].token = rows'[s].token => exec'[q][s].pc = "release"
      BY DEF OutcomeInvariant, Active
    <3>1. CASE exec'[q][s] = exec[q][s]
      BY <1>1, <3>1 DEF AbortInvariant, OutcomeInvariant, Active
    <3>2. CASE s = r /\ exec'[q][s].pc = "parked"
      <4>1. rows'[s].state # "completed"
        BY <1>1, <2>1, <3>2 DEF Active, ActiveStates
      <4> QED BY <3>2, <4>1
    <3> QED BY <2>3, <2>4, <3>1, <3>2 DEF OthersStay
  <2>15. ~HaltedAt(r, t)
    BY <2>1 DEF AbortInvariant, HaltInvariant
  <2>16. \A s \in Runs, u \in 1..MaxToken : ~Stopped(s, u)'
    BY <1>1, <2>1, <2>15, OneActive DEF Stopped, HaltedAt, Active
  <2>17. HaltInvariant'
    <3>1. halted' \subseteq drawn'
      BY <1>1 DEF AbortInvariant, HaltInvariant
    <3>2. ASSUME NEW s \in Runs, NEW u \in 1..MaxToken, NEW q \in Owners, HaltedAt(s, u)'
          PROVE  /\ Holds(q, s, u)' => exec'[q][s].pc \notin Reserving
                 /\ ~NextOf(q, s, u)'
      <4>1. HaltedAt(s, u)
        BY <1>1, <3>2 DEF HaltedAt
      <4>2. (Holds(q, s, u) => exec[q][s].pc \notin Reserving) /\ ~NextOf(q, s, u)
        BY <4>1 DEF AbortInvariant, HaltInvariant
      <4>3. ~(s = r /\ u = t)
        BY <2>15, <4>1
      <4> QED BY <2>8, <2>10, <4>2, <4>3
    <3> QED BY <2>16, <3>1, <3>2 DEF HaltInvariant
  <2>18. ViewFits'
    BY <1>5 DEF Reserve, ViewFits, ActiveStatuses
  <2>19. StoppedNeverCompletes'
    BY <1>1 DEF AbortInvariant, StoppedNeverCompletes
  <2> QED BY <2>11, <2>12, <2>13, <2>14, <2>17, <2>18, <2>19 DEF AbortInvariant
<1> QED BY <1>2, <1>3, <1>4, <1>5 DEF Rereserve

-----------------------------------------------------------------------------
(* The abort itself                                                        *)

\* Where an abort finds a server, and where it leaves it.
LEMMA AbortPlaces ==
  ASSUME Base, NEW p \in Owners, NEW r \in Runs, AbortRun(p, r)
  PROVE  /\ CellsOnward /\ PassesOnward /\ CellsTurn
         /\ exec[p][r].pc \notin Reserving \cup {"idle", "draw"}
         /\ exec'[p][r].pc = "finish" /\ exec[p][r].pc # "finish" => exec'[p][r].out # "completed"
<1>1. exec[p][r].pc \notin Reserving \cup {"idle", "draw"}
  BY AbortFinds DEF Base
<1>2. CASE exec' = exec
  BY <1>1, <1>2, AbortOnward DEF Base, CellsTurn, Turn
<1>3. CASE /\ \/ exec'[p][r].pc = "idle"
              \/ exec'[p][r].pc \in {"unwind", "finish"} /\ exec'[p][r].out = "aborted"
           /\ \A q \in Owners, s \in Runs : ~(q = p /\ s = r) => exec'[q][s] = exec[q][s]
  <2>1. Harmless(exec'[p][r]) /\ OthersStay(p, r)
    BY <1>3 DEF Harmless, OthersStay
  <2> QED BY <1>1, <1>3, <2>1, AbortOnward, HarmlessTurns DEF Base
<1> QED BY <1>2, <1>3, AbortOnward DEF Base

\* An abort that comes after the outcome stops no execution.
LEMMA LateAbortSteady ==
  ASSUME Base, AbortInvariant, NEW p \in Owners, NEW r \in Runs, AbortRun(p, r),
         exec[p][r].pc \in {"finish", "release"}
  PROVE  Steady
<1>1. /\ view' = [view EXCEPT !.status = "aborting"] /\ halted' = halted
      /\ generation' = generation /\ UNCHANGED ledgerVars /\ drawn' = drawn
  BY DEF AbortRun, ledgerVars
<1>2. CellsFollow /\ PassesFollowOn /\ CellsTurn
  BY AbortPlaces, OnwardFollows, PassesOnwardFollow
<1>3. ViewFits' /\ view'.run = view.run /\ view'.token = view.token /\ view'.status = "aborting"
  BY <1>1, StatusFits DEF AbortInvariant, ActiveStatuses
<1>4. ViewStays
  BY <1>3, StatusStays DEF StoppedStatuses
<1> QED BY <1>1, <1>2, <1>3, <1>4, IdleSettles DEF Steady, Going

LEMMA AbortRunAborts ==
  ASSUME Base, AbortInvariant, NEW p \in Owners, NEW r \in Runs, AbortRun(p, r)
  PROVE  AbortInvariant'
<1>0. CASE exec[p][r].pc \in {"finish", "release"}
  BY <1>0, LateAbortSteady, SteadyKeeps
<1> SUFFICES ASSUME exec[p][r].pc \notin {"finish", "release"}
             PROVE  AbortInvariant'
  BY <1>0
<1>1. /\ LiveOwner(r, Tok(p, r)) /\ view' = [view EXCEPT !.status = "aborting"]
      /\ halted' = halted \cup {[run |-> r, token |-> Tok(p, r)]}
      /\ generation' = generation /\ UNCHANGED ledgerVars /\ rows' = rows /\ drawn' = drawn
  BY DEF AbortRun, ledgerVars
<1>2. PICK t : t = Tok(p, r)
  OBVIOUS
<1>3. /\ exec[p][r].pc \notin Reserving \cup {"idle", "draw", "finish", "release"}
      /\ exec'[p][r].pc = "finish" => exec'[p][r].out # "completed"
      /\ CellsFollow /\ PassesFollowOn /\ CellsTurn
  BY AbortPlaces, OnwardFollows, PassesOnwardFollow
<1>4. t \in 1..MaxToken /\ [run |-> r, token |-> t] \in drawn /\ Holds(p, r, t)
  BY <1>2, <1>3, HeldIsDrawn DEF Base, Tok, Holds
<1>5. Going
  BY <1>1, <1>3, IdleSettles DEF Going
<1>6. HoldersDiffer' /\ GenerationKept' /\ ReservedAreActive' /\ OutcomeInvariant'
  BY <1>5, GoingHolders, GoingGenerations, GoingReserved, GoingOutcomes DEF AbortInvariant, Going
<1>7. \A s \in Runs, u \in 1..MaxToken : HaltedAt(s, u)' => HaltedAt(s, u) \/ (s = r /\ u = t)
  BY <1>1, <1>2 DEF HaltedAt
<1>8. \A q \in Owners : Holds(q, r, t)' => q = p
  BY <1>3, <1>4, HoldersFollow DEF AbortInvariant, HoldersDiffer
<1>9. ASSUME NEW s \in Runs, NEW u \in 1..MaxToken, NEW q \in Owners, HaltedAt(s, u)'
      PROVE  /\ Holds(q, s, u)' => exec'[q][s].pc \notin Reserving
             /\ ~NextOf(q, s, u)'
  <2>1. CASE HaltedAt(s, u)
    BY <1>3, <2>1, HaltsFollow DEF AbortInvariant
  <2>2. CASE s = r /\ u = t
    <3>1. ~NextOf(q, r, t)
      BY <1>4 DEF AbortInvariant, HoldersDiffer
    <3>2. ~NextOf(q, r, t)'
      BY <1>3, <3>1, NextsFollow
    <3>3. exec'[p][r].pc \notin Reserving
      <4>1. Follows(exec[p][r], exec'[p][r])
        BY <1>3 DEF CellsFollow
      <4> QED BY <1>3, <4>1 DEF Follows, Reserving, Claimed
    <3> QED BY <1>8, <2>2, <3>2, <3>3
  <2> QED BY <1>7, <1>9, <2>1, <2>2
<1>10. ASSUME NEW s \in Runs, NEW u \in 1..MaxToken, Stopped(s, u)'
       PROVE  /\ ViewIs(s, u)' /\ view'.status \in StoppedStatuses
              /\ \A q \in Owners :
                   Holds(q, s, u)' =>
                     /\ exec'[q][s].pc \in {"resuming", "resumed"}
                          => view'.status # "waiting_decision"
                     /\ exec'[q][s].pc = "finish" => exec'[q][s].out # "completed"
  <2>1. s = r /\ u = t
    <3>1. CASE HaltedAt(s, u)
      <4>1. Stopped(s, u)
        BY <1>1, <1>10, <3>1 DEF Stopped, Active
      <4> QED BY <1>1, <1>2, <4>1, LiveStopped
    <3> QED BY <1>7, <1>10, <3>1 DEF Stopped
  <2>2. view'.run = view.run /\ view'.token = view.token /\ view'.status = "aborting"
    BY <1>1, StatusFits DEF AbortInvariant, ActiveStatuses
  <2>3. ViewIs(s, u)' /\ view'.status \in StoppedStatuses
    BY <1>1, <1>2, <2>1, <2>2 DEF LiveOwner, ViewIs, StoppedStatuses
  <2> QED BY <1>3, <1>8, <2>1, <2>2, <2>3
<1>11. HaltInvariant'
  <2>1. halted' \subseteq drawn'
    BY <1>1, <1>2, <1>4 DEF AbortInvariant, HaltInvariant
  <2> QED BY <1>9, <1>10, <2>1 DEF HaltInvariant
<1>12. StoppedNeverCompletes'
  <2>1. rows[r].token = t => rows[r].state # "completed"
    BY <1>2, <1>3 DEF AbortInvariant, OutcomeInvariant, Tok, Unclaimed, Reserving
  <2> QED BY <1>1, <1>2, <2>1 DEF AbortInvariant, StoppedNeverCompletes
<1>13. ViewFits'
  BY <1>1, StatusFits DEF AbortInvariant, ActiveStatuses
<1> QED BY <1>6, <1>11, <1>12, <1>13 DEF AbortInvariant

-----------------------------------------------------------------------------
(* Every step                                                              *)

LEMMA AbortInit == RuntimeInit => AbortInvariant
<1> SUFFICES ASSUME RuntimeInit PROVE AbortInvariant
  OBVIOUS
<1>1. /\ \A p \in Owners, r \in Runs : exec[p][r] = Idle
      /\ \A p \in Owners : reap[p] = Resting
      /\ \A r \in Runs : rows[r] = AbsentRow
      /\ halted = {} /\ view = NoView
  BY DEF RuntimeInit, Init
<1>2. ViewFits
  BY <1>1, LedgerAssumption DEF ViewFits, NoView
<1>3. HoldersDiffer /\ GenerationKept /\ ReservedAreActive
  BY <1>1 DEF HoldersDiffer, Holds, GenerationKept, ReservedAreActive, Idle, Resting, AbsentRow,
              Claimed
<1>4. OutcomeInvariant
  BY <1>1 DEF OutcomeInvariant, Idle, Unclaimed
<1>5. HaltInvariant /\ StoppedNeverCompletes
  BY <1>1 DEF HaltInvariant, StoppedNeverCompletes, HaltedAt, Stopped
<1> QED BY <1>2, <1>3, <1>4, <1>5 DEF AbortInvariant

LEMMA AbortsKept ==
  ASSUME Undisputed, Base, AbortInvariant, [RuntimeNext]_runtimeVars
  PROVE  AbortInvariant'
<1>0. [Next]_ledgerVars
  BY RuntimeStepKeeps DEF Base
<1>1. ASSUME NEW p \in Owners, NEW r \in Runs, AdmissionStep(p, r)
      PROVE  AbortInvariant'
  <2>1. CASE DrawToken(p, r) \/ ClaimRun(p, r)
    BY <2>1, DrawTokenAborts, ClaimRunAborts
  <2>2. CASE BuildTurn(p, r)
    BY <2>2, BuildSteady, SteadyKeeps
  <2>3. CASE \/ AdmitRun(p, r) \/ ActivateFence(p, r) \/ ReserveRun(p, r) \/ ConfirmLease(p, r)
             \/ PromoteRun(p, r) \/ UnwindAdmission(p, r) \/ AbandonClaim(p, r)
    BY <1>0, <2>3, AdmissionSteady, SteadyKeeps
  <2> QED BY <1>1, <2>1, <2>2, <2>3 DEF AdmissionStep
<1>2. ASSUME NEW p \in Owners, NEW r \in Runs, ExecutionStep(p, r) \/ AbortRun(p, r)
      PROVE  AbortInvariant'
  BY <1>0, <1>2, ExecutionSteady, SteadyKeeps, AbortRunAborts
<1>3. ASSUME NEW r \in Runs, AbortIntent(r)
      PROVE  AbortInvariant'
  BY <1>0, <1>3, AbortIntentSteady, SteadyKeeps
<1>4. ASSUME NEW p \in Owners, ReapStep(p)
      PROVE  AbortInvariant'
  <2>1. CASE ScanStep(p) \/ ListStale(p) \/ Recover(p) \/ Judge(p) \/ Condemn(p) \/ Drop(p)
    BY <1>0, <2>1, ScanSteady, ListStaleSteady, RecoverSteady, PlainPassSteady, SteadyKeeps
  <2>2. CASE Redraw(p) \/ Reclaim(p) \/ Rereserve(p)
    BY <2>2, RedrawAborts, ReclaimAborts, RereserveAborts
  <2> QED BY <1>4, <2>1, <2>2 DEF ReapStep, PassStep
<1>5. CASE LeaseStep \/ FaultStep
  BY <1>5, EnvironmentSteady, SteadyKeeps
<1>6. CASE UNCHANGED runtimeVars
  <2>1. UNCHANGED <<rows, exec, reap, view, generation, halted, drawn>>
    BY <1>6 DEF runtimeVars
  <2>2. UNCHANGED ledgerVars
    BY <1>6 DEF runtimeVars, ledgerVars
  <2>3. Steady
    BY <2>1, <2>2, CellsRest, PassesRestOnward, OnwardFollows, PassesOnwardFollow, IdleSettles,
       ViewRests DEF Steady, Going, CellsTurn, Turn
  <2> QED BY <2>3, SteadyKeeps
<1> QED BY <1>1, <1>2, <1>3, <1>4, <1>5, <1>6 DEF RuntimeNext

(* SR-CTL-001.  While Redis comes back with what it held, and leadership   *)
(* is lost only with the leader, an ownership whose abort is acknowledged  *)
(* before its execution has resolved how it ended is never recorded as a   *)
(* success: not by its own server, not by a peer or a recovery, and        *)
(* whatever crashes, expires or fails.                                     *)
THEOREM StoppedNeverSucceeds ==
  ASSUME Undisputed
  PROVE  RuntimeSpec => []StoppedNeverCompletes
<1>1. ClusterInvariant /\ BuiltInvariant /\ PassInvariant /\ AbortInvariant
        /\ [RuntimeNext]_runtimeVars => AbortInvariant'
  BY AbortsKept DEF Base
<1>2. ClusterInvariant /\ BuiltInvariant /\ OnePass /\ Routed /\ [RuntimeNext]_runtimeVars
        => Routed'
  BY RoutingStep DEF KeepsRouting
<1>3. Routed => PassInvariant
  BY DEF Routed
<1>4. AbortInvariant => StoppedNeverCompletes
  BY DEF AbortInvariant
<1>5. RuntimeSpec => []Routed
  BY RoutingInit, <1>2, ClusterIsInvariant, BuiltIsInvariant, PassesAreAlone, PTL DEF RuntimeSpec
<1> QED BY AbortInit, <1>1, <1>3, <1>4, <1>5, ClusterIsInvariant, BuiltIsInvariant, PTL
        DEF RuntimeSpec

-----------------------------------------------------------------------------
(* What the reaper finds                                                   *)

\* A run in progress under a token, its member in the lease index, and a projection
\* that shows it, other than as one a shutdown gave up.
OnToken(r, t) == Active(r) /\ rows[r].token = t
Member(r, t)  == \E e \in index : e.run = r /\ e.token = t
Shows(r, t)   == ViewIs(r, t) /\ ("shutdown" \in Faults => view.status # "lost")

\* About to remove the member: a server gives back its slot, a pass drops its candidate.
Removing(p, r, t) ==
  \/ exec[p][r].pc = "release" /\ exec[p][r].token = t
  \/ reap[p].pc \in {"rereserve", "drop"} /\ reap[p].run = r /\ reap[p].token = t

\* A token is shown only after it was drawn and when nobody is about to reserve it, and
\* a member is removed only of an ownership that has lost its row.
FoundInvariant ==
  /\ ViewFits
  /\ \A r \in Runs : view.run = r => Drawn(r, view.token)
  /\ \A r \in Runs, t \in 1..MaxToken, p \in Owners :
       /\ \A k \in Kinds : Coming(k, p, r, t) => ~ViewIs(r, t)
       /\ Removing(p, r, t) => ~OnToken(r, t)
  /\ ReservedIsFound

\* A row takes a token that was about to be reserved, larger than the one it had.
RowsArrive ==
  \A r \in Runs, t \in 1..MaxToken :
    OnToken(r, t)' =>
      \/ OnToken(r, t)
      \/ /\ Fresh(r) \/ rows[r].token < t
         /\ \E k \in Kinds, p \in Owners : Coming(k, p, r, t)

ComersFit ==
  \A k \in Kinds, p \in Owners, r \in Runs, t \in 1..MaxToken :
    Coming(k, p, r, t)' => Coming(k, p, r, t) \/ ~ViewIs(r, t)'

RemovalsFit ==
  \A p \in Owners, r \in Runs, t \in 1..MaxToken :
    Removing(p, r, t)' => Removing(p, r, t) \/ ~OnToken(r, t)'

\* The projection shows what it showed, or a token nobody is about to reserve.
ViewFollows ==
  /\ ViewFits'
  /\ \A r \in Runs : \A t :
       ViewIs(r, t)' => \/ ViewIs(r, t)
                        \/ /\ Drawn(r, t)'
                           /\ \A k \in Kinds, p \in Owners : ~Coming(k, p, r, t)'

MembersStay ==
  \A r \in Runs, t \in 1..MaxToken :
    OnToken(r, t)' /\ Shows(r, t)' =>
      \/ Member(r, t)'
      \/ Shows(r, t) /\ (OnToken(r, t) /\ Member(r, t) => Member(r, t)')

LEMMA FoundStep ==
  ASSUME ClusterInvariant, ClusterInvariant', FoundInvariant, RowsArrive, ComersFit,
         RemovalsFit, ViewFollows, MembersStay, drawn \subseteq drawn'
  PROVE  FoundInvariant'
<1>1. ASSUME NEW r \in Runs, view'.run = r
      PROVE  Drawn(r, view.token)'
  BY <1>1 DEF FoundInvariant, ViewFollows, ViewIs, Drawn
<1>2. ASSUME NEW r \in Runs, NEW t \in 1..MaxToken, NEW p \in Owners, NEW k \in Kinds,
             Coming(k, p, r, t)'
      PROVE  ~ViewIs(r, t)'
  BY <1>2 DEF FoundInvariant, ComersFit, ViewFollows
<1>3. ASSUME NEW r \in Runs, NEW t \in 1..MaxToken, NEW p \in Owners,
             Removing(p, r, t)', OnToken(r, t)'
      PROVE  FALSE
  <2>1. Removing(p, r, t) /\ ~OnToken(r, t)
    BY <1>3 DEF RemovalsFit, FoundInvariant
  <2>2. /\ Fresh(r) \/ rows[r].token < t
        /\ \E k \in Kinds, q \in Owners : Coming(k, q, r, t)
    BY <1>3, <2>1 DEF RowsArrive
  <2>3. CASE exec[p][r].pc = "release" /\ exec[p][r].token = t
    <3>1. Owned(rows[r], t, fence)
      BY <2>3 DEF ClusterInvariant, ClaimInvariant
    <3>2. rows[r].token \in Nat
      BY RowTokens DEF ClusterInvariant
    <3> QED BY <2>2, <3>1, <3>2 DEF Owned, Fresh
  <2>4. CASE reap[p].pc \in {"rereserve", "drop"} /\ reap[p].run = r /\ reap[p].token = t
    <3>1. Candidate(p, r, t)
      BY <2>4 DEF ClusterInvariant, PassesFit, PassFits, FromIndex, Candidate
    <3> QED BY <2>2, <3>1 DEF ClusterInvariant, TokenInvariant
  <2> QED BY <2>1, <2>3, <2>4 DEF Removing
<1>4. ASSUME NEW r \in Runs, Active(r)', ViewIs(r, rows[r].token)',
             ("shutdown" \in Faults => view.status # "lost")'
      PROVE  Member(r, rows[r].token)'
  <2>1. PICK t : t = rows'[r].token
    OBVIOUS
  <2>2. t \in 1..MaxToken
    BY <1>1, <1>4, <2>1 DEF ViewIs, Drawn, ClusterInvariant, LedgerInvariant, TypeOK
  <2>3. OnToken(r, t)' /\ Shows(r, t)'
    BY <1>4, <2>1 DEF OnToken, Shows, ViewIs
  <2>4. CASE Shows(r, t) /\ (OnToken(r, t) /\ Member(r, t) => Member(r, t)')
    <3>1. OnToken(r, t)
      BY <2>2, <2>3, <2>4 DEF RowsArrive, FoundInvariant, Shows
    <3>2. Member(r, t)
      BY <2>4, <3>1 DEF FoundInvariant, ReservedIsFound, OnToken, Shows, Member
    <3> QED BY <2>1, <2>4, <3>1, <3>2 DEF Member
  <2> QED BY <2>1, <2>2, <2>3, <2>4 DEF MembersStay, Member
<1> QED BY <1>1, <1>2, <1>3, <1>4 DEF FoundInvariant, ReservedIsFound, ViewFollows, Member

-----------------------------------------------------------------------------
(* What most steps leave as it is                                          *)

LEMMA NoneArrives ==
  ASSUME LedgerInvariant, RowsStay
  PROVE  RowsArrive
<1>1. ASSUME NEW r \in Runs, NEW t \in 1..MaxToken, OnToken(r, t)'
      PROVE  OnToken(r, t)
  <2>1. rows[r].token = t /\ ~Fresh(r)
    BY <1>1, RowTokens DEF OnToken, RowsStay
  <2> QED BY <1>1, <2>1, NoneRevives DEF OnToken, RowsStay
<1> QED BY <1>1 DEF RowsArrive

LEMMA ComingGoesOn ==
  ASSUME CellsFollow, RecoveriesGoOn, NEW k \in Kinds, NEW p \in Owners, NEW r \in Runs,
         NEW t \in 1..MaxToken, Coming(k, p, r, t)'
  PROVE  Coming(k, p, r, t)
<1>1. CASE k = "claim"
  BY <1>1 DEF Coming, CellsFollow, Follows, Claimed
<1>2. CASE k # "claim"
  BY <1>2 DEF Coming, RecoveriesGoOn, Recovers, Recovering
<1> QED BY <1>1, <1>2

LEMMA NoneComesOnward ==
  ASSUME CellsFollow, RecoveriesGoOn
  PROVE  ComersFit
BY ComingGoesOn DEF ComersFit

\* No server comes to give back a slot, no pass to drop a candidate.
NoneEnds  == \A p \in Owners, r \in Runs :
               exec'[p][r].pc = "release" => exec[p][r].pc = "release"
NoneDrops == \A p \in Owners :
               reap'[p].pc \in {"rereserve", "drop"} => reap'[p] = reap[p]

LEMMA RemovalsFollow ==
  ASSUME CellsFollow, NoneEnds, NoneDrops
  PROVE  RemovalsFit
BY DEF CellsFollow, Follows, NoneEnds, NoneDrops, RemovalsFit, Removing

\* The projection is the same but for its status, and is shown lost only by what lost it.
ViewGoesOn ==
  /\ ViewFits' /\ view'.run = view.run /\ view'.token = view.token
  /\ view.status = "lost" => view'.status = "lost"

LEMMA ViewKept ==
  ASSUME ViewGoesOn, \A r \in Runs, t \in 1..MaxToken : Member(r, t) => Member(r, t)'
  PROVE  ViewFollows /\ MembersStay
BY DEF ViewGoesOn, ViewFollows, MembersStay, Shows, ViewIs

\* A step that gives no row a token, and leaves reservations and the index alone.
LEMMA OnwardFound ==
  ASSUME ClusterInvariant, ClusterInvariant', FoundInvariant, RowsStay, CellsFollow,
         RecoveriesGoOn, RemovalsFit, ViewGoesOn, index' = index
  PROVE  FoundInvariant'
<1>1. \A r \in Runs, t \in 1..MaxToken : Member(r, t) => Member(r, t)'
  BY DEF Member
<1>2. ViewFollows /\ MembersStay
  BY <1>1, ViewKept
<1>3. RowsArrive /\ ComersFit /\ drawn \subseteq drawn'
  BY NoneArrives, NoneComesOnward DEF ClusterInvariant, RowsStay
<1> QED BY <1>2, <1>3, FoundStep

LEMMA ViewUntouched ==
  ASSUME FoundInvariant, view' = view
  PROVE  ViewGoesOn
BY DEF FoundInvariant, ViewGoesOn, ViewFits

LEMMA StatusGoesOn ==
  ASSUME FoundInvariant, NEW st \in ActiveStatuses \cup EndStatuses,
         st = "lost" \/ view.status # "lost",
         \/ view' = [view EXCEPT !.status = st]
         \/ view' = [view EXCEPT !.leased = FALSE, !.status = st]
         \/ view' = [view EXCEPT !.status = st, !.leased = FALSE]
  PROVE  ViewGoesOn
BY StatusFits DEF FoundInvariant, ViewGoesOn

-----------------------------------------------------------------------------
(* Admission                                                               *)

LEMMA CellEnds ==
  ASSUME NEW p \in Owners, NEW r \in Runs, OthersStay(p, r), exec'[p][r].pc # "release"
  PROVE  NoneEnds
BY DEF OthersStay, NoneEnds

LEMMA PassesDrop == reap' = reap => NoneDrops
BY DEF NoneDrops

LEMMA RestDrops ==
  ASSUME PassesFit, NEW p \in Owners, Rest(p)
  PROVE  NoneDrops
<1>1. reap'[p] = Resting /\ \A q \in Owners \ {p} : reap'[q] = reap[q]
  BY DEF PassesFit, Rest
<1> QED BY <1>1 DEF NoneDrops, Resting

\* A server that ends its run leaves no row in progress under its token.
LEMMA FinalRemovals ==
  ASSUME LedgerInvariant, CellsFollow, reap' = reap, NEW p \in Owners, NEW r \in Runs,
         NEW st \in TerminalStates, FinalizeOrNothing(r, Tok(p, r), st), OthersStay(p, r),
         exec'[p][r].token = Tok(p, r)
  PROVE  RemovalsFit
<1>0. PICK u : u = Tok(p, r)
  OBVIOUS
<1>1. ~OnToken(r, u)'
  <2>1. \/ Terminal(r)'
        \/ UNCHANGED ledgerVars /\ ~FinalizeApplies(r, u)
    BY <1>0, FinalizeWrites
  <2>2. CASE Terminal(r)'
    BY <2>2 DEF OnToken, Active, Terminal, ActiveStates, TerminalStates
  <2>3. CASE UNCHANGED ledgerVars /\ ~FinalizeApplies(r, u)
    BY <2>3 DEF OnToken, Active, FinalizeApplies, ledgerVars
  <2> QED BY <2>1, <2>2, <2>3
<1>2. ASSUME NEW q \in Owners, NEW s \in Runs, NEW t \in 1..MaxToken, Removing(q, s, t)'
      PROVE  Removing(q, s, t) \/ ~OnToken(s, t)'
  <2>1. CASE q = p /\ s = r /\ exec'[p][r].token = t
    BY <1>0, <1>1, <2>1
  <2>2. CASE ~(q = p /\ s = r)
    BY <1>2, <2>2 DEF Removing, OthersStay
  <2>3. CASE exec'[q][s].token # t
    BY <1>2, <2>3 DEF Removing
  <2> QED BY <2>1, <2>2, <2>3
<1> QED BY <1>2 DEF RemovalsFit

LEMMA AdmissionFound ==
  ASSUME ClusterInvariant, ClusterInvariant', FoundInvariant, RowsStay,
         NEW p \in Owners, NEW r \in Runs,
         \/ AdmitRun(p, r) \/ ActivateFence(p, r) \/ ConfirmLease(p, r)
         \/ PromoteRun(p, r) \/ UnwindAdmission(p, r) \/ AbandonClaim(p, r)
  PROVE  FoundInvariant'
<1>1. /\ ServersFit /\ LedgerInvariant /\ CellsFollow /\ RecoveriesGoOn
      /\ exec[p][r] \in Exec
  <2>1. ServersFit /\ LedgerInvariant
    BY DEF ClusterInvariant
  <2> QED BY <2>1, AdmissionOnward, OnwardFollows, OnwardRecovers DEF ServersFit
<1>2. reap' = reap /\ index' = index
  BY DEF AdmitRun, ActivateFence, ConfirmLease, PromoteRun, UnwindAdmission, AbandonClaim, liveVars
<1>3. ViewGoesOn
  <2>1. CASE view' = view
    BY <2>1, ViewUntouched
  <2>2. CASE view.status = "admitting" /\ view' = [view EXCEPT !.status = "running"]
    BY <2>2, StatusGoesOn DEF ActiveStatuses
  <2> QED BY <2>1, <2>2 DEF AdmitRun, ActivateFence, ConfirmLease, PromoteRun, UnwindAdmission,
                            AbandonClaim, liveVars
<1>4. ASSUME OthersStay(p, r), exec'[p][r].pc # "release"
      PROVE  RemovalsFit
  BY <1>1, <1>2, <1>4, CellEnds, PassesDrop, RemovalsFollow
<1>5. CASE AdmitRun(p, r)
  <2>1. exec'[p][r].pc = "draw" /\ OthersStay(p, r)
    BY <1>1, <1>5, GotoPlace DEF AdmitRun
  <2> QED BY <1>1, <1>2, <1>3, <1>4, <2>1, OnwardFound
<1>6. CASE ActivateFence(p, r)
  <2>1. Goto(p, r, "abandon") \/ Goto(p, r, "reserve")
    BY <1>6 DEF ActivateFence
  <2>2. exec'[p][r].pc # "release" /\ OthersStay(p, r)
    BY <1>1, <2>1, GotoPlace
  <2> QED BY <1>1, <1>2, <1>3, <1>4, <2>2, OnwardFound
<1>7. CASE ConfirmLease(p, r)
  <2>1. \E e : /\ e \in {[exec[p][r] EXCEPT !.pc = "build", !.renew = TRUE],
                         [exec[p][r] EXCEPT !.pc = "abandon", !.own = "none"]}
               /\ Becomes(p, r, e)
    BY <1>7 DEF ConfirmLease, Becomes
  <2>2. PICK e : /\ e \in {[exec[p][r] EXCEPT !.pc = "build", !.renew = TRUE],
                           [exec[p][r] EXCEPT !.pc = "abandon", !.own = "none"]}
                 /\ Becomes(p, r, e)
    BY <2>1
  <2>3. e.pc \in {"build", "abandon"}
    BY <1>1, <2>2 DEF Exec
  <2>4. exec'[p][r].pc # "release" /\ OthersStay(p, r)
    BY <1>1, <2>2, <2>3, CellPlace
  <2> QED BY <1>1, <1>2, <1>3, <1>4, <2>4, OnwardFound
<1>8. CASE PromoteRun(p, r)
  <2>1. PICK e : e = [exec[p][r] EXCEPT !.pc = "unwind", !.out = "aborted"]
    OBVIOUS
  <2>2. e.pc = "unwind"
    BY <1>1, <2>1 DEF Exec
  <2>3. Goto(p, r, "run") \/ Goto(p, r, "abandon") \/ Becomes(p, r, e)
    BY <1>8, <2>1 DEF PromoteRun, Becomes
  <2>4. exec'[p][r].pc # "release" /\ OthersStay(p, r)
    BY <1>1, <2>2, <2>3, GotoPlace, CellPlace
  <2> QED BY <1>1, <1>2, <1>3, <1>4, <2>4, OnwardFound
<1>9. CASE UnwindAdmission(p, r)
  <2>0. exec[p][r].pc = "unwind" /\ exec[p][r].out \in TerminalStates
    BY <1>1, <1>9 DEF UnwindAdmission, At, ServersFit, ExecFits
  <2>1. PICK e : e = [exec[p][r] EXCEPT !.pc = "abandon", !.own = "none", !.renew = FALSE]
    OBVIOUS
  <2>2. e.pc = "abandon"
    BY <1>1, <2>1 DEF Exec
  <2>3. CASE Becomes(p, r, e) \/ Goto(p, r, "abandon")
    <3>1. exec'[p][r].pc # "release" /\ OthersStay(p, r)
      BY <1>1, <2>2, <2>3, GotoPlace, CellPlace
    <3> QED BY <1>1, <1>2, <1>3, <1>4, <3>1, OnwardFound
  <2>4. CASE FinalizeOrNothing(r, Tok(p, r), exec[p][r].out) /\ Goto(p, r, "release")
    <3>1. exec'[p][r].token = Tok(p, r) /\ OthersStay(p, r)
      BY <1>1, <2>4, GotoPlace DEF Tok
    <3>2. RemovalsFit
      BY <1>1, <1>2, <2>0, <2>4, <3>1, FinalRemovals
    <3> QED BY <1>1, <1>2, <1>3, <3>2, OnwardFound
  <2> QED BY <1>9, <2>1, <2>3, <2>4 DEF UnwindAdmission, Becomes
<1>10. CASE AbandonClaim(p, r)
  <2>1. exec[p][r].pc = "abandon"
    BY <1>10 DEF AbandonClaim, At
  <2>2. exec'[p][r].pc # "release" /\ OthersStay(p, r)
    BY <1>1, <1>10, <2>1, LeaveOnward DEF AbandonClaim, OthersStay
  <2> QED BY <1>1, <1>2, <1>3, <1>4, <2>2, OnwardFound
<1> QED BY <1>5, <1>6, <1>7, <1>8, <1>9, <1>10

LEMMA ForgetFound ==
  ASSUME ClusterInvariant, ClusterInvariant', FoundInvariant, RowsStay,
         NEW p \in Owners, NEW r \in Runs, Forget(p, r), UNCHANGED <<reap, view, index>>
  PROVE  FoundInvariant'
<1>1. CellsFollow /\ OthersStay(p, r) /\ exec'[p][r].pc # "release"
  BY ForgetOnward, OnwardFollows DEF ClusterInvariant, OthersStay, Idle
<1>2. RecoveriesGoOn
  BY PassesRestOnward, OnwardRecovers
<1> QED BY <1>1, <1>2, CellEnds, PassesDrop, RemovalsFollow, ViewUntouched, OnwardFound

\* A token that is not drawn yet is in no projection.
LEMMA UnseenToken ==
  ASSUME FoundInvariant, NEW r \in Runs, NEW n, \A d \in drawn : d.token # n
  PROVE  ~ViewIs(r, n)
<1> SUFFICES ASSUME ViewIs(r, n) PROVE FALSE
  OBVIOUS
<1>1. [run |-> r, token |-> n] \in drawn
  BY DEF FoundInvariant, ViewIs, Drawn
<1>2. [run |-> r, token |-> n].token = n
  OBVIOUS
<1> QED BY <1>1, <1>2

LEMMA DrawTokenFound ==
  ASSUME ClusterInvariant, ClusterInvariant', FoundInvariant, NEW p \in Owners, NEW r \in Runs,
         DrawToken(p, r)
  PROVE  FoundInvariant'
<1>1. UNCHANGED <<reap, view, index>>
  BY DEF DrawToken, liveVars
<1>2. CASE UNCHANGED ledgerVars /\ Forget(p, r)
  BY <1>1, <1>2, IdleStays, ForgetFound
<1>3. CASE /\ NextFencingToken(r)
           /\ exec' = [exec EXCEPT ![p][r] = [@ EXCEPT !.pc = "claim", !.token = tokenSeq + 1,
                                                       !.gen = generation]]
  <2>1. RowsStay /\ tokenSeq + 1 \in 1..MaxToken /\ \A d \in drawn : d.token # tokenSeq + 1
    BY <1>3, TokenIsNew DEF ClusterInvariant
  <2>2. PICK e : e = [exec[p][r] EXCEPT !.pc = "claim", !.token = tokenSeq + 1, !.gen = generation]
    OBVIOUS
  <2>3. e.pc = "claim" /\ e.token = tokenSeq + 1
    BY <2>2 DEF ClusterInvariant, ServersFit, Exec
  <2>4. exec'[p][r] = e /\ OthersStay(p, r)
    <3>1. ServersFit /\ Becomes(p, r, e)
      BY <1>3, <2>2 DEF Becomes, ClusterInvariant
    <3> QED BY <3>1, CellPlace
  <2>5. ~ViewIs(r, tokenSeq + 1)
    BY <2>1, UnseenToken
  <2>6. ComersFit
    <3>1. ASSUME NEW k \in Kinds, NEW q \in Owners, NEW s \in Runs, NEW t \in 1..MaxToken,
                 Coming(k, q, s, t)'
          PROVE  Coming(k, q, s, t) \/ ~ViewIs(s, t)'
      <4>1. CASE k = "claim" /\ q = p /\ s = r
        BY <1>1, <2>3, <2>4, <2>5, <3>1, <4>1 DEF Coming, ViewIs
      <4>2. CASE ~(k = "claim" /\ q = p /\ s = r)
        BY <1>1, <2>4, <3>1, <4>2 DEF Coming, OthersStay
      <4> QED BY <4>1, <4>2
    <3> QED BY <3>1 DEF ComersFit
  <2>7. RemovalsFit
    <3>1. ASSUME NEW q \in Owners, NEW s \in Runs, NEW t \in 1..MaxToken, Removing(q, s, t)'
          PROVE  Removing(q, s, t)
      <4>1. CASE q = p /\ s = r
        BY <1>1, <2>3, <2>4, <3>1, <4>1 DEF Removing
      <4>2. CASE ~(q = p /\ s = r)
        BY <1>1, <2>4, <3>1, <4>2 DEF Removing, OthersStay
      <4> QED BY <4>1, <4>2
    <3> QED BY <3>1 DEF RemovalsFit
  <2>8. ViewFollows /\ MembersStay
    BY <1>1, ViewUntouched, ViewKept DEF Member
  <2>9. RowsArrive /\ drawn \subseteq drawn'
    BY <2>1, NoneArrives DEF ClusterInvariant, RowsStay
  <2> QED BY <2>6, <2>7, <2>8, <2>9, FoundStep
<1> QED BY <1>2, <1>3 DEF DrawToken, StoreFails

\* A claim gives the row the server's token, which nobody holds past a claim.
LEMMA ClaimRunFound ==
  ASSUME ClusterInvariant, ClusterInvariant', FoundInvariant, NEW p \in Owners, NEW r \in Runs,
         ClaimRun(p, r)
  PROVE  FoundInvariant'
<1>1. UNCHANGED <<reap, view, index>> /\ exec[p][r].pc = "claim" /\ ServersFit
  BY DEF ClaimRun, liveVars, At, ClusterInvariant
<1>2. CASE UNCHANGED ledgerVars /\ Forget(p, r)
  BY <1>1, <1>2, IdleStays, ForgetFound
<1>3. CASE Claim(r, p, Tok(p, r), exec[p][r].gen) /\ Goto(p, r, "activate")
  <2>1. PICK u \in 1..MaxToken : u = Tok(p, r)
    BY <1>1, HeldIsDrawn DEF Tok
  <2>2. /\ Coming("claim", p, r, u)
        /\ rows[r].state = "accepted" /\ rows[r].token < u
        /\ rows'[r].token = u /\ \A s \in Runs \ {r} : rows'[s] = rows[s]
        /\ drawn' = drawn
    BY <1>1, <1>3, <2>1 DEF Coming, Tok, Claim, ClaimApplies, ClusterInvariant, LedgerInvariant,
                            TypeOK, Row
  <2>3. RowsArrive
    <3>1. ASSUME NEW s \in Runs, NEW t \in 1..MaxToken, OnToken(s, t)'
          PROVE  OnToken(s, t) \/ (/\ Fresh(s) \/ rows[s].token < t
                                  /\ \E k \in Kinds, q \in Owners : Coming(k, q, s, t))
      <4>1. CASE s = r
        BY <2>2, <3>1, <4>1 DEF OnToken, Fresh, Kinds
      <4>2. CASE s # r
        BY <2>2, <3>1, <4>2 DEF OnToken, Active
      <4> QED BY <4>1, <4>2
    <3> QED BY <3>1 DEF RowsArrive
  <2>4. exec'[p][r].pc = "activate" /\ exec'[p][r].token = exec[p][r].token /\ OthersStay(p, r)
    BY <1>1, <1>3, GotoPlace
  <2>5. ComersFit /\ RemovalsFit
    <3>1. ASSUME NEW k \in Kinds, NEW q \in Owners, NEW s \in Runs, NEW t \in 1..MaxToken,
                 Coming(k, q, s, t)'
          PROVE  Coming(k, q, s, t)
      BY <1>1, <2>4, <3>1 DEF Coming, OthersStay
    <3>2. ASSUME NEW q \in Owners, NEW s \in Runs, NEW t \in 1..MaxToken, Removing(q, s, t)'
          PROVE  Removing(q, s, t)
      BY <1>1, <2>4, <3>2 DEF Removing, OthersStay
    <3> QED BY <3>1, <3>2 DEF ComersFit, RemovalsFit
  <2>6. ViewFollows /\ MembersStay
    BY <1>1, ViewUntouched, ViewKept DEF Member
  <2> QED BY <2>2, <2>3, <2>5, <2>6, FoundStep
<1> QED BY <1>2, <1>3 DEF ClaimRun

LEMMA EntryIsMember ==
  ASSUME NEW r, NEW t, NEW x, Entry(r, t, x) \in index'
  PROVE  Member(r, t)'
<1>1. Entry(r, t, x).run = r /\ Entry(r, t, x).token = t
  BY DEF Entry
<1> QED BY <1>1 DEF Member

\* A reservation is shown with its member, and its server is no longer about to reserve.
LEMMA ReserveRunFound ==
  ASSUME ClusterInvariant, ClusterInvariant', FoundInvariant, RowsStay,
         NEW p \in Owners, NEW r \in Runs, ReserveRun(p, r)
  PROVE  FoundInvariant'
<1>1. /\ ServersFit /\ CellsFollow /\ RecoveriesGoOn
      /\ exec[p][r].pc = "reserve" /\ exec[p][r] \in Exec /\ reap' = reap
  <2>1. ServersFit /\ exec[p][r].pc = "reserve" /\ reap' = reap
    BY DEF ClusterInvariant, ReserveRun, At
  <2> QED BY <2>1, AdmissionOnward, OnwardFollows, OnwardRecovers DEF ServersFit
<1>2. CASE Goto(p, r, "abandon") /\ UNCHANGED liveVars
  <2>1. exec'[p][r].pc # "release" /\ OthersStay(p, r)
    BY <1>1, <1>2, GotoPlace
  <2>2. RemovalsFit
    BY <1>1, <2>1, CellEnds, PassesDrop, RemovalsFollow
  <2> QED BY <1>1, <1>2, <2>2, ViewUntouched, OnwardFound DEF liveVars
<1>3. CASE /\ Reserve(r, Tok(p, r), "admitting")
           /\ exec' = [exec EXCEPT ![p][r] = [@ EXCEPT !.pc = "confirm", !.own = "held"]]
  <2>1. PICK u \in 1..MaxToken : u = Tok(p, r)
    BY <1>1, HeldIsDrawn DEF Tok
  <2>2. PICK e : e = [exec[p][r] EXCEPT !.pc = "confirm", !.own = "held"]
    OBVIOUS
  <2>3. e.pc = "confirm"
    BY <1>1, <2>2 DEF Exec
  <2>4. exec'[p][r] = e /\ OthersStay(p, r)
    <3>1. Becomes(p, r, e)
      BY <1>3, <2>2 DEF Becomes
    <3> QED BY <1>1, <3>1, CellPlace
  <2>5. RemovalsFit
    BY <1>1, <2>3, <2>4, CellEnds, PassesDrop, RemovalsFollow
  <2>6. /\ view' = [run |-> r, token |-> u, status |-> "admitting", leased |-> TRUE]
        /\ index' = index \cup {Entry(r, u, FALSE)}
    BY <1>3, <2>1 DEF Reserve
  <2>7. Coming("claim", p, r, u) /\ [run |-> r, token |-> u] \in drawn
    BY <1>1, <2>1, HeldIsDrawn DEF Coming, Tok
  <2>8. \A k \in Kinds, q \in Owners : ~Coming(k, q, r, u)'
    <3>1. ASSUME NEW k \in Kinds, NEW q \in Owners, Coming(k, q, r, u)'
          PROVE  FALSE
      <4>1. Coming(k, q, r, u)
        BY <1>1, <3>1, NoneComesOnward, ComingGoesOn
      <4>2. k = "claim" /\ q = p
        BY <2>7, <4>1 DEF ClusterInvariant, TokenInvariant, Kinds
      <4> QED BY <2>3, <2>4, <3>1, <4>2 DEF Coming
    <3> QED BY <3>1
  <2>9. ViewFollows
    <3>1. ViewFits'
      BY <2>6 DEF ViewFits, ActiveStatuses
    <3>2. drawn \subseteq drawn'
      BY DEF RowsStay
    <3>3. ASSUME NEW q \in Runs, NEW t, ViewIs(q, t)'
          PROVE  q = r /\ t = u
      BY <2>6, <3>3 DEF ViewIs
    <3>4. Drawn(r, u)'
      BY <2>7, <3>2 DEF Drawn
    <3> QED BY <2>8, <3>1, <3>3, <3>4 DEF ViewFollows
  <2>10. MembersStay
    <3>1. Member(r, u)'
      BY <2>6, EntryIsMember
    <3>2. ASSUME NEW q \in Runs, NEW t \in 1..MaxToken, Shows(q, t)'
          PROVE  q = r /\ t = u
      BY <2>6, <3>2 DEF Shows, ViewIs
    <3> QED BY <3>1, <3>2 DEF MembersStay
  <2>11. RowsArrive /\ ComersFit /\ drawn \subseteq drawn'
    BY <1>1, NoneArrives, NoneComesOnward DEF ClusterInvariant, RowsStay
  <2> QED BY <2>5, <2>9, <2>10, <2>11, FoundStep
<1> QED BY <1>2, <1>3 DEF ReserveRun

LEMMA BuildTurnFound ==
  ASSUME ClusterInvariant, ClusterInvariant', FoundInvariant, RowsStay,
         NEW p \in Owners, NEW r \in Runs, BuildTurn(p, r)
  PROVE  FoundInvariant'
<1>1. ServersFit /\ exec[p][r].pc = "build" /\ exec[p][r] \in Exec
      /\ UNCHANGED <<reap, view, index>>
  BY DEF ClusterInvariant, ServersFit, BuildTurn, At, liveVars
<1>2. PICK e : e = [exec[p][r] EXCEPT !.pc = "unwind", !.out = "failed"]
  OBVIOUS
<1>3. e.pc = "unwind" /\ e.token = exec[p][r].token
  BY <1>1, <1>2 DEF Exec
<1>4. Goto(p, r, "promote") \/ Becomes(p, r, e)
  BY <1>2 DEF BuildTurn, Becomes
<1>5. /\ exec'[p][r].pc \in {"promote", "unwind"} /\ exec'[p][r].token = exec[p][r].token
      /\ OthersStay(p, r)
  BY <1>1, <1>3, <1>4, GotoPlace, CellPlace
<1>6. CellsFollow
  BY <1>1, <1>5 DEF CellsFollow, Follows, OthersStay, Claimed
<1>7. RecoveriesGoOn
  BY <1>1, PassesRestOnward, OnwardRecovers
<1> QED BY <1>1, <1>5, <1>6, <1>7, CellEnds, PassesDrop, RemovalsFollow, ViewUntouched, OnwardFound

-----------------------------------------------------------------------------
(* Execution and aborts                                                    *)

LEMMA ExecutionKeeps ==
  ASSUME ClusterInvariant, NEW p \in Owners, NEW r \in Runs, ExecutionStep(p, r)
  PROVE  RowsStay
<1>1. ASSUME NEW st, EndEvent(p, r, st) PROVE RowsStay
  BY <1>1, EndEventKeeps
<1> QED BY <1>1, WriteHistoryKeeps, CreateDecisionKeeps, ParkLedgerKeeps, ParkViewKeeps,
           FinishUnnamedKeeps, FinishErroredKeeps, FinalizeRowKeeps, ReleaseSlotKeeps,
           AnswerDecisionKeeps, ResumeLedgerKeeps, ResumeViewKeeps DEF ExecutionStep

\* Nobody but the server that ended the row comes to give back the slot.
LEMMA ExecutionRemovals ==
  ASSUME ClusterInvariant, NEW p \in Owners, NEW r \in Runs, ExecutionStep(p, r)
  PROVE  RemovalsFit
<1>1. /\ ServersFit /\ LedgerInvariant /\ CellsFollow /\ reap' = reap /\ exec[p][r] \in Exec
  <2>1. ServersFit /\ LedgerInvariant
    BY DEF ClusterInvariant
  <2>2. reap' = reap
    BY DEF ExecutionStep, WriteHistory, CreateDecision, ParkLedger, ParkView, EndEvent,
           FinishUnnamed, FinishErrored, FinalizeRow, ReleaseSlot, AnswerDecision, ResumeLedger,
           ResumeView, serverVars
  <2> QED BY <2>1, <2>2, ExecutionOnward, OnwardFollows DEF ServersFit
<1>2. ASSUME OthersStay(p, r), exec'[p][r].pc # "release"
      PROVE  RemovalsFit
  BY <1>1, <1>2, CellEnds, PassesDrop, RemovalsFollow
<1>3. CASE WriteHistory(p, r)
  <2>1. NoneEnds
    BY <1>3 DEF WriteHistory, serverVars, NoneEnds
  <2> QED BY <1>1, <2>1, PassesDrop, RemovalsFollow
<1>4. CASE \/ CreateDecision(p, r) \/ AnswerDecision(p, r)
          \/ \E st \in {"completed", "aborted"} : EndEvent(p, r, st)
  <2>1. \E pc \in {"asking", "resuming", "end"} : Goto(p, r, pc)
    BY <1>4 DEF CreateDecision, AnswerDecision, EndEvent
  <2> QED BY <1>1, <1>2, <2>1, GotoPlace
<1>5. CASE ParkLedger(p, r)
  <2>1. exec[p][r].pc = "asking" /\ (Goto(p, r, "ask") \/ PublishFails(p, r))
    BY <1>5 DEF ParkLedger, At
  <2>2. exec'[p][r].pc # "release" /\ OthersStay(p, r)
    BY <1>1, <2>1, GotoPlace, PublishPlace DEF Harmless, Executing
  <2> QED BY <1>2, <2>2
<1>6. CASE ParkView(p, r)
  <2>1. exec[p][r].pc = "ask" /\ (Asks(p, r) \/ PublishFails(p, r))
    BY <1>6 DEF ParkView, At, Asks
  <2>2. exec'[p][r].pc # "release" /\ OthersStay(p, r)
    BY <1>1, <2>1, AsksPlace, PublishPlace DEF Harmless, Executing
  <2> QED BY <1>2, <2>2
<1>7. CASE FinishUnnamed(p, r)
  <2>1. /\ exec[p][r].pc \in {"run", "end"}
        /\ \/ Forget(p, r) \/ Goto(p, r, "parked")
           \/ FinishAs(p, r, Resolve(r, Tok(p, r)))
    BY <1>7 DEF FinishUnnamed, At, Forget, Goto
  <2>2. exec'[p][r].pc # "release" /\ OthersStay(p, r)
    BY <1>1, <2>1, ForgetOnward, GotoPlace, FinishPlace DEF Idle, OthersStay
  <2> QED BY <1>2, <2>2
<1>8. CASE FinishErrored(p, r)
  <2>1. exec'[p][r].pc # "release" /\ OthersStay(p, r)
    BY <1>1, <1>8, FinishPlace DEF FinishErrored, At
  <2> QED BY <1>2, <2>1
<1>9. CASE FinalizeRow(p, r)
  <2>1. exec[p][r].pc = "finish" /\ exec[p][r].out \in TerminalStates
    BY <1>1, <1>9 DEF FinalizeRow, At, ServersFit, ExecFits
  <2>2. CASE FinalizeOrNothing(r, Tok(p, r), exec[p][r].out) /\ Goto(p, r, "release")
    <3>1. exec'[p][r].token = Tok(p, r) /\ OthersStay(p, r)
      BY <1>1, <2>2, GotoPlace DEF Tok
    <3> QED BY <1>1, <2>1, <2>2, <3>1, FinalRemovals
  <2>3. CASE LeaveControl(p, r)
    <3>1. exec'[p][r].pc # "release" /\ OthersStay(p, r)
      BY <1>1, <2>1, <2>3, LeaveOnward DEF OthersStay
    <3> QED BY <1>2, <3>1
  <2> QED BY <1>9, <2>2, <2>3 DEF FinalizeRow
<1>10. CASE ReleaseSlot(p, r)
  <2>1. exec'[p][r].pc # "release" /\ OthersStay(p, r)
    BY <1>1, <1>10, ForgetOnward DEF ReleaseSlot, Idle, OthersStay
  <2> QED BY <1>2, <2>1
<1>11. CASE ResumeLedger(p, r)
  <2>1. exec[p][r].pc = "resuming" /\ (Goto(p, r, "resumed") \/ FinishAs(p, r, "failed"))
    BY <1>11 DEF ResumeLedger, At
  <2>2. exec'[p][r].pc # "release" /\ OthersStay(p, r)
    BY <1>1, <2>1, GotoPlace, FinishPlace
  <2> QED BY <1>2, <2>2
<1>12. CASE ResumeView(p, r)
  <2>1. exec[p][r].pc = "resumed" /\ (Goto(p, r, "run") \/ FinishAs(p, r, "failed"))
    BY <1>12 DEF ResumeView, At
  <2>2. exec'[p][r].pc # "release" /\ OthersStay(p, r)
    BY <1>1, <2>1, GotoPlace, FinishPlace
  <2> QED BY <1>2, <2>2
<1> QED BY <1>3, <1>4, <1>5, <1>6, <1>7, <1>8, <1>9, <1>10, <1>11, <1>12 DEF ExecutionStep

\* Only a live owner writes the projection, which is then not one given up.
LEMMA ExecutionViews ==
  ASSUME ClusterInvariant, FoundInvariant, NEW p \in Owners, NEW r \in Runs, ExecutionStep(p, r)
  PROVE  ViewGoesOn
<1>1. ASSUME NEW st \in ActiveStatuses \cup EndStatuses, LiveOwner(r, Tok(p, r)),
             \/ view' = [view EXCEPT !.status = st]
             \/ view' = [view EXCEPT !.leased = FALSE, !.status = st]
      PROVE  ViewGoesOn
  <2>1. view.status # "lost"
    BY <1>1 DEF LiveOwner, ActiveStatuses
  <2> QED BY <1>1, <2>1, StatusGoesOn
<1>2. CASE view' = view
  BY <1>2, ViewUntouched
<1>3. CASE ParkView(p, r)
  BY <1>1, <1>2, <1>3 DEF ParkView, ActiveStatuses
<1>4. CASE \E st \in {"completed", "aborted"} : EndEvent(p, r, st)
  <2>1. PICK st \in {"completed", "aborted"} : EndEvent(p, r, st)
    BY <1>4
  <2>2. st \in EndStatuses
    BY DEF EndStatuses
  <2> QED BY <1>1, <2>1, <2>2 DEF EndEvent
<1>5. CASE ResumeView(p, r)
  <2>1. CASE LiveOwner(r, Tok(p, r)) /\ view' = [view EXCEPT !.status =
                                          IF @ = "waiting_decision" THEN "running" ELSE @]
    <3>1. PICK st : st = IF view.status = "waiting_decision" THEN "running" ELSE view.status
      OBVIOUS
    <3>2. st \in ActiveStatuses
      BY <2>1, <3>1 DEF LiveOwner, ActiveStatuses
    <3>3. view' = [view EXCEPT !.status = st]
      BY <2>1, <3>1
    <3> QED BY <1>1, <2>1, <3>2, <3>3
  <2> QED BY <1>2, <1>5, <2>1 DEF ResumeView
<1>6. CASE FinishUnnamed(p, r) \/ FinishErrored(p, r) \/ ParkLedger(p, r) \/ FinalizeRow(p, r)
             \/ WriteHistory(p, r) \/ CreateDecision(p, r) \/ AnswerDecision(p, r)
             \/ ResumeLedger(p, r)
  BY <1>2, <1>6 DEF FinishUnnamed, FinishErrored, ParkLedger, FinalizeRow, WriteHistory,
                    CreateDecision, AnswerDecision, ResumeLedger, liveVars
<1>7. CASE ReleaseSlot(p, r)
  <2>1. CASE LiveOwner(r, Tok(p, r)) /\ view' = [view EXCEPT !.leased = FALSE, !.status =
                      IF exec[p][r].out = "failed" THEN "errored" ELSE exec[p][r].out]
    <3>1. PICK st : st = IF exec[p][r].out = "failed" THEN "errored" ELSE exec[p][r].out
      OBVIOUS
    <3>2. exec[p][r].out \in TerminalStates
      BY <1>7 DEF ReleaseSlot, At, ClusterInvariant, ServersFit, ExecFits
    <3>3. st \in EndStatuses
      BY <3>1, <3>2 DEF EndStatuses, TerminalStates
    <3>4. view' = [view EXCEPT !.leased = FALSE, !.status = st]
      BY <2>1, <3>1
    <3> QED BY <1>1, <2>1, <3>3, <3>4
  <2> QED BY <1>2, <1>7, <2>1 DEF ReleaseSlot
<1> QED BY <1>3, <1>4, <1>5, <1>6, <1>7 DEF ExecutionStep

\* A slot is given back with its member only when its run has lost its row.
LEMMA ReleaseSlotMembers ==
  ASSUME ClusterInvariant', FoundInvariant, RowsArrive, NEW p \in Owners, NEW r \in Runs,
         ReleaseSlot(p, r), ViewGoesOn
  PROVE  ViewFollows /\ MembersStay
<1>1. ASSUME NEW s \in Runs, NEW t \in 1..MaxToken, OnToken(s, t), Member(s, t)
      PROVE  Member(s, t)'
  <2>1. CASE index' = index
    BY <1>1, <2>1 DEF Member
  <2>2. CASE index' = Without(r, Tok(p, r))
    <3>1. ~(s = r /\ t = Tok(p, r))
      BY <1>1 DEF FoundInvariant, Removing, ReleaseSlot, At, Tok
    <3> QED BY <1>1, <2>2, <3>1 DEF Member, Without
  <2> QED BY <2>1, <2>2 DEF ReleaseSlot
<1> QED BY <1>1 DEF ViewGoesOn, ViewFollows, MembersStay, Shows, ViewIs

LEMMA ExecutionFound ==
  ASSUME ClusterInvariant, ClusterInvariant', FoundInvariant,
         NEW p \in Owners, NEW r \in Runs, ExecutionStep(p, r)
  PROVE  FoundInvariant'
<1>1. RowsStay /\ RemovalsFit /\ ViewGoesOn
  BY ExecutionKeeps, ExecutionRemovals, ExecutionViews
<1>2. CellsFollow /\ RecoveriesGoOn
  BY ExecutionOnward, OnwardFollows, OnwardRecovers DEF ClusterInvariant
<1>3. CASE ReleaseSlot(p, r)
  <2>1. RowsArrive /\ ComersFit /\ drawn \subseteq drawn'
    BY <1>1, <1>2, NoneArrives, NoneComesOnward DEF ClusterInvariant, RowsStay
  <2> QED BY <1>1, <1>3, <2>1, ReleaseSlotMembers, FoundStep
<1>4. CASE index' = index
  BY <1>1, <1>2, <1>4, OnwardFound
<1> QED BY <1>3, <1>4
    DEF ExecutionStep, WriteHistory, CreateDecision, ParkLedger, ParkView, EndEvent, FinishUnnamed,
        FinishErrored, FinalizeRow, AnswerDecision, ResumeLedger, ResumeView, liveVars

LEMMA AbortRunFound ==
  ASSUME ClusterInvariant, ClusterInvariant', FoundInvariant,
         NEW p \in Owners, NEW r \in Runs, AbortRun(p, r)
  PROVE  FoundInvariant'
<1>1. RowsStay /\ reap' = reap /\ index' = index
  BY AbortRunKeeps DEF AbortRun
<1>2. CellsFollow /\ RecoveriesGoOn
  BY AbortOnward, OnwardFollows, OnwardRecovers
<1>3. NoneEnds
  BY AbortOnward DEF NoneEnds
<1>4. ViewGoesOn
  BY StatusGoesOn DEF AbortRun, LiveOwner, ActiveStatuses
<1> QED BY <1>1, <1>2, <1>3, <1>4, PassesDrop, RemovalsFollow, OnwardFound

LEMMA AbortIntentFound ==
  ASSUME ClusterInvariant, ClusterInvariant', FoundInvariant, NEW r \in Runs, AbortIntent(r)
  PROVE  FoundInvariant'
<1>1. RowsStay /\ UNCHANGED <<exec, reap, view, index>>
  BY AbortIntentKeeps DEF AbortIntent, serverVars, liveVars
<1>2. CellsFollow /\ RecoveriesGoOn
  BY <1>1, CellsRest, OnwardFollows, PassesRestOnward, OnwardRecovers
<1> QED BY <1>1, <1>2, PassesDrop, RemovalsFollow, ViewUntouched, OnwardFound DEF NoneEnds

-----------------------------------------------------------------------------
(* Leases and faults                                                       *)

LEMMA NoneFinishesEnds == NoneFinishes => NoneEnds
BY DEF NoneFinishes, NoneEnds

\* An expired lease keeps its member, at another score.
LEMMA LeaseExpiresFound ==
  ASSUME ClusterInvariant, ClusterInvariant', FoundInvariant, NEW r \in Runs, LeaseExpires(r)
  PROVE  FoundInvariant'
<1>1. RowsStay /\ UNCHANGED <<exec, reap, view>>
  BY LeaseExpiresKeeps DEF LeaseExpires, serverVars
<1>2. CellsFollow /\ RecoveriesGoOn
  BY <1>1, CellsRest, OnwardFollows, PassesRestOnward, OnwardRecovers
<1>3. RemovalsFit
  BY <1>1, <1>2, PassesDrop, RemovalsFollow DEF NoneEnds
<1>4. ASSUME NEW s \in Runs, NEW t \in 1..MaxToken, Member(s, t)
      PROVE  Member(s, t)'
  <2>1. PICK e \in index : e.run = s /\ e.token = t
    BY <1>4 DEF Member
  <2>2. CASE e = Entry(r, ref[r], FALSE)
    <3>1. s = r /\ t = ref[r]
      BY <2>1, <2>2 DEF Entry
    <3>2. Entry(s, t, TRUE) \in index'
      BY <2>1, <2>2, <3>1 DEF LeaseExpires
    <3> QED BY <3>2, EntryIsMember
  <2>3. CASE e # Entry(r, ref[r], FALSE)
    <3>1. e \in index'
      BY <2>1, <2>3 DEF LeaseExpires
    <3> QED BY <2>1, <3>1 DEF Member
  <2> QED BY <2>2, <2>3
<1>5. ViewFollows /\ MembersStay
  BY <1>1, <1>4, ViewUntouched, ViewKept
<1> QED BY <1>1, <1>2, <1>3, <1>5, NoneArrives, NoneComesOnward, FoundStep
    DEF ClusterInvariant, RowsStay

\* A shutdown takes the member of the run it reports lost.
LEMMA ShutdownFound ==
  ASSUME ClusterInvariant, ClusterInvariant', FoundInvariant, NEW p \in Owners, Shutdown(p)
  PROVE  FoundInvariant'
<1>1. RowsStay /\ CellsOnward /\ PassesOnward /\ NoneFinishes /\ Rest(p) /\ PassesFit
  BY ShutdownKeeps, ShutdownOnward DEF ClusterInvariant, Shutdown, Rest
<1>2. CellsFollow /\ RecoveriesGoOn
  BY <1>1, OnwardFollows, OnwardRecovers
<1>3. RemovalsFit
  <2>1. NoneDrops
    BY <1>1, RestDrops
  <2> QED BY <1>1, <1>2, <2>1, NoneFinishesEnds, RemovalsFollow
<1>4. PICK owned : /\ owned = {r \in Runs : exec[p][r].own # "none" /\ LiveOwner(r, Tok(p, r))}
                   /\ view' = IF owned = {} THEN view
                              ELSE [view EXCEPT !.status = "lost", !.leased = FALSE]
                   /\ index' = {e \in index : ~(e.run \in owned /\ e.token = Tok(p, e.run))}
  BY DEF Shutdown
<1>5. ViewGoesOn
  BY <1>4, ViewUntouched, StatusGoesOn DEF EndStatuses
<1>6. ViewFollows /\ MembersStay
  <2>1. CASE owned = {}
    BY <1>4, <1>5, <2>1, ViewKept DEF Member
  <2>2. CASE owned # {}
    <3>1. view'.status = "lost" /\ "shutdown" \in Faults
      BY <1>4, <2>2 DEF Shutdown, Inject, FoundInvariant, ViewFits
    <3> QED BY <1>5, <3>1 DEF ViewGoesOn, ViewFollows, MembersStay, Shows, ViewIs
  <2> QED BY <2>1, <2>2
<1> QED BY <1>1, <1>2, <1>3, <1>6, NoneArrives, NoneComesOnward, FoundStep
    DEF ClusterInvariant, RowsStay

LEMMA BackendLossFound ==
  ASSUME ClusterInvariant, ClusterInvariant', FoundInvariant, BackendLoss
  PROVE  FoundInvariant'
<1>1. RowsStay /\ UNCHANGED <<exec, reap>> /\ view' = NoView
  BY BackendLossKeeps DEF BackendLoss, serverVars
<1>2. CellsFollow /\ RecoveriesGoOn
  BY <1>1, CellsRest, OnwardFollows, PassesRestOnward, OnwardRecovers
<1>3. RemovalsFit
  BY <1>1, <1>2, PassesDrop, RemovalsFollow DEF NoneEnds
<1>4. \A r \in Runs : \A t : ~ViewIs(r, t)'
  BY <1>1, LedgerAssumption, RuntimeAssumption DEF ViewIs, NoView
<1>5. ViewFits'
  BY <1>1, LedgerAssumption DEF ViewFits, NoView
<1>6. ViewFollows /\ MembersStay
  BY <1>4, <1>5 DEF ViewFollows, MembersStay, Shows
<1> QED BY <1>1, <1>2, <1>3, <1>6, NoneArrives, NoneComesOnward, FoundStep
    DEF ClusterInvariant, RowsStay

LEMMA EnvironmentFound ==
  ASSUME ClusterInvariant, ClusterInvariant', FoundInvariant, LeaseStep \/ FaultStep
  PROVE  FoundInvariant'
<1>1. ServersFit /\ PassesFit
  BY DEF ClusterInvariant
<1>2. ASSUME RowsStay, CellsOnward, PassesOnward, NoneFinishes, NoneDrops, ViewGoesOn,
             index' = index
      PROVE  FoundInvariant'
  BY <1>2, OnwardFollows, OnwardRecovers, NoneFinishesEnds, RemovalsFollow, OnwardFound
<1>3. ASSUME NEW p \in Owners, NEW r \in Runs, LoseOwnership(p, r)
      PROVE  FoundInvariant'
  BY <1>1, <1>2, <1>3, LoseOwnershipKeeps, LoseOwnershipOnward, PassesDrop, ViewUntouched
     DEF LoseOwnership, liveVars
<1>4. ASSUME NEW p \in Owners, ObserveExpiredLease(p)
      PROVE  FoundInvariant'
  <2>1. ViewGoesOn
    BY <1>4, StatusGoesOn DEF ObserveExpiredLease, EndStatuses
  <2> QED BY <1>1, <1>2, <1>4, <2>1, ObserveExpiredLeaseKeeps, ObserveOnward, PassesDrop
          DEF ObserveExpiredLease
<1>5. CASE LeaderExpires
  BY <1>2, <1>5, LeaderExpiresKeeps, CellsRest, PassesRestOnward, PassesDrop, ViewUntouched
     DEF LeaderExpires, serverVars, NoneFinishes
<1>6. ASSUME NEW p \in Owners, Stop(p)
      PROVE  FoundInvariant'
  <2>1. NoneDrops
    BY <1>1, <1>6, RestDrops DEF Stop, Rest
  <2> QED BY <1>1, <1>2, <1>6, <2>1, StopKeeps, StopOnward, ViewUntouched DEF Stop, liveVars
<1> QED BY <1>3, <1>4, <1>5, <1>6, LeaseExpiresFound, ShutdownFound, BackendLossFound
    DEF LeaseStep, FaultStep, Exit, Crash

-----------------------------------------------------------------------------
(* Reapers                                                                 *)

\* A pass that rests, begins or goes on to no drop.
LEMMA PassFound ==
  ASSUME ClusterInvariant, ClusterInvariant', FoundInvariant, RowsStay, CellsOnward,
         NoneFinishes, RecoveriesGoOn, NoneDrops, UNCHANGED <<view, index>>
  PROVE  FoundInvariant'
BY OnwardFollows, NoneFinishesEnds, RemovalsFollow, ViewUntouched, OnwardFound

LEMMA StartDrops ==
  ASSUME PassesFit, NEW p \in Owners, NEW x, Start(p, x), exec' = exec,
         x.pc \in {"judge", "condemn", "sweep"}
  PROVE  CellsOnward /\ NoneFinishes /\ RecoveriesGoOn /\ NoneDrops
<1>1. /\ CellsOnward /\ NoneFinishes /\ RecoveriesGoOn /\ reap'[p] = x
      /\ \A q \in Owners \ {p} : reap'[q] = reap[q]
  BY StartOnward
<1> QED BY <1>1 DEF NoneDrops

LEMMA ScanFound ==
  ASSUME ClusterInvariant, ClusterInvariant', FoundInvariant, NEW p \in Owners,
         ScanStep(p) \/ ListStale(p)
  PROVE  FoundInvariant'
<1>1. PassesFit /\ RowsStay
  BY ScanStepKeeps, ListStaleKeeps DEF ClusterInvariant
<1>2. CASE ScanStep(p)
  <2>1. PICK x : x.pc \in {"judge", "condemn", "sweep"} /\ BeginPass(p, x)
    BY <1>2, ScanBegins
  <2>2. Start(p, x) /\ UNCHANGED <<exec, view, index>>
    BY <2>1 DEF BeginPass
  <2> QED BY <1>1, <2>1, <2>2, StartDrops, PassFound
<1>3. CASE ListStale(p)
  <2>1. UNCHANGED <<exec, view, index>>
    BY <1>3 DEF ListStale, liveVars
  <2>2. ASSUME NEW r \in Runs, Start(p, Taking(r, rows[r].token, "condemn", FALSE))
        PROVE  FoundInvariant'
    <3>1. Taking(r, rows[r].token, "condemn", FALSE).pc = "condemn"
      BY DEF Taking, Resting
    <3> QED BY <1>1, <2>1, <2>2, <3>1, StartDrops, PassFound
  <2>3. CASE Rest(p)
    BY <1>1, <1>3, <2>1, <2>3, ListStaleOnward, RestDrops, PassFound
  <2> QED BY <1>3, <2>2, <2>3 DEF ListStale
<1> QED BY <1>2, <1>3

LEMMA JudgeFound ==
  ASSUME ClusterInvariant, ClusterInvariant', FoundInvariant, NEW p \in Owners, Judge(p)
  PROVE  FoundInvariant'
<1>1. RowsStay /\ CellsOnward /\ NoneFinishes /\ RecoveriesGoOn /\ PassesFit
  BY JudgeKeeps, PlainPassOnward, OnwardRecovers DEF ClusterInvariant
<1>2. PICK pc \in {"recover", "condemn"} : Pass(p, pc)
  BY DEF Judge
<1>3. reap'[p].pc = pc /\ \A q \in Owners \ {p} : reap'[q] = reap[q]
  BY <1>1, <1>2, PassOn DEF Judge, Reaping, Recovering
<1>4. NoneDrops
  BY <1>3 DEF NoneDrops
<1> QED BY <1>1, <1>4, PassFound DEF Judge, liveVars

\* A pass comes to drop the candidate of an ownership that has lost its row.
LEMMA DropComes ==
  ASSUME CellsFollow, NoneEnds, NEW p \in Owners, NEW r \in Runs, NEW t,
         reap'[p].run = r, reap'[p].token = t, \A q \in Owners \ {p} : reap'[q] = reap[q],
         ~OnToken(r, t)'
  PROVE  RemovalsFit
<1>1. ASSUME NEW q \in Owners, NEW s \in Runs, NEW u \in 1..MaxToken, Removing(q, s, u)'
      PROVE  Removing(q, s, u) \/ ~OnToken(s, u)'
  <2>1. CASE exec'[q][s].pc = "release" /\ exec'[q][s].token = u
    BY <2>1 DEF Removing, CellsFollow, Follows, NoneEnds
  <2>2. CASE q = p /\ reap'[q].run = s /\ reap'[q].token = u
    BY <2>2
  <2>3. CASE q # p /\ ~(exec'[q][s].pc = "release" /\ exec'[q][s].token = u)
    BY <1>1, <2>3 DEF Removing
  <2> QED BY <1>1, <2>1, <2>2, <2>3 DEF Removing
<1> QED BY <1>1 DEF RemovalsFit

LEMMA RecoverFound ==
  ASSUME ClusterInvariant, ClusterInvariant', FoundInvariant, NEW p \in Owners, Recover(p)
  PROVE  FoundInvariant'
<1>1. RowsStay /\ CellsOnward /\ NoneFinishes /\ CellsFollow /\ NoneEnds
  BY RecoverKeeps, RecoverOnward, OnwardFollows, NoneFinishesEnds DEF ClusterInvariant
<1>2. PassesFit /\ reap[p].pc = "recover" /\ UNCHANGED <<rows, view, index>>
  BY DEF ClusterInvariant, Recover, Reaping, ledgerVars, liveVars
<1>3. PICK r \in Runs : r = reap[p].run
  BY <1>2 DEF PassesFit, PassFits
<1>4. PICK t \in 0..MaxToken : t = reap[p].token
  BY <1>2 DEF PassesFit, Reap
<1>5. CASE Rest(p)
  BY <1>1, <1>2, <1>5, RestOnward, OnwardRecovers, RestDrops, PassFound
<1>6. CASE Pass(p, "condemn")
  <2>1. PassesOnward /\ reap'[p].pc = "condemn" /\ \A q \in Owners \ {p} : reap'[q] = reap[q]
    BY <1>2, <1>6, PassOn DEF Recovering
  <2>2. RecoveriesGoOn /\ NoneDrops
    BY <2>1, OnwardRecovers DEF NoneDrops
  <2> QED BY <1>1, <1>2, <2>2, PassFound
<1>7. CASE Pass(p, "drop") /\ ref[r] = rows[r].token
  <2>1. /\ PassesOnward /\ reap'[p].run = r /\ reap'[p].token = t
        /\ \A q \in Owners \ {p} : reap'[q] = reap[q]
    BY <1>2, <1>3, <1>4, <1>7, PassOn DEF Recovering
  <2>2. t \in 1..MaxToken /\ Candidate(p, r, t)
    BY <1>2, <1>3, <1>4 DEF PassesFit, PassFits, FromIndex, Candidate, ClusterInvariant,
                            LedgerInvariant, TypeOK
  <2>3. ~OnToken(r, t)'
    BY <1>2, <1>7, <2>2 DEF ClusterInvariant, TokenInvariant, OnToken
  <2>4. RemovalsFit /\ RecoveriesGoOn
    BY <1>1, <2>1, <2>3, DropComes, OnwardRecovers
  <2> QED BY <1>1, <1>2, <2>4, ViewUntouched, OnwardFound
<1>8. CASE reap'[p].pc = "redraw" /\ \A q \in Owners \ {p} : reap'[q] = reap[q]
  <2>1. NoneDrops
    BY <1>8 DEF NoneDrops
  <2>2. CellsFollow /\ RemovalsFit
    BY <1>1, <2>1, RemovalsFollow
  <2>3. ComersFit
    <3>1. ASSUME NEW k \in Kinds, NEW q \in Owners, NEW s \in Runs, NEW u \in 1..MaxToken,
                 Coming(k, q, s, u)'
          PROVE  Coming(k, q, s, u)
      BY <1>1, <1>8, <3>1 DEF Coming, CellsFollow, Follows, Claimed
    <3> QED BY <3>1 DEF ComersFit
  <2>4. ViewFollows /\ MembersStay
    BY <1>2, ViewUntouched, ViewKept DEF Member
  <2> QED BY <1>1, <2>2, <2>3, <2>4, NoneArrives, FoundStep DEF ClusterInvariant, RowsStay
<1>9. \/ Rest(p) \/ Pass(p, "condemn") \/ (Pass(p, "drop") /\ ref[r] = rows[r].token)
      \/ (reap'[p].pc = "redraw" /\ \A q \in Owners \ {p} : reap'[q] = reap[q])
  <2>1. ASSUME reap' = [reap EXCEPT ![p] = [@ EXCEPT !.pc = "redraw", !.prev = rows[r].token]]
        PROVE  reap'[p].pc = "redraw" /\ \A q \in Owners \ {p} : reap'[q] = reap[q]
    BY <1>2, <2>1 DEF PassesFit, Reap
  <2> QED BY <1>3, <2>1 DEF Recover
<1> QED BY <1>5, <1>6, <1>7, <1>8, <1>9

LEMMA CondemnFound ==
  ASSUME ClusterInvariant, ClusterInvariant', FoundInvariant, NEW p \in Owners, Condemn(p)
  PROVE  FoundInvariant'
<1>1. /\ RowsStay /\ CellsOnward /\ NoneFinishes /\ CellsFollow /\ NoneEnds /\ RecoveriesGoOn
  BY CondemnKeeps, PlainPassOnward, OnwardFollows, OnwardRecovers, NoneFinishesEnds
     DEF ClusterInvariant
<1>2. PassesFit /\ LedgerInvariant /\ reap[p].pc = "condemn" /\ UNCHANGED <<view, index>>
  BY DEF ClusterInvariant, Condemn, Reaping, liveVars
<1>3. CASE Rest(p)
  BY <1>1, <1>2, <1>3, RestDrops, PassFound
<1>4. CASE FinalizeOrNothing(reap[p].run, reap[p].token, "lost") /\ Pass(p, "drop")
  <2>1. PICK r \in Runs : r = reap[p].run
    BY <1>2 DEF PassesFit, PassFits
  <2>2. PICK t : t = reap[p].token
    OBVIOUS
  <2>3. /\ reap'[p].run = r /\ reap'[p].token = t /\ \A q \in Owners \ {p} : reap'[q] = reap[q]
    BY <1>2, <1>4, <2>1, <2>2, PassOn DEF Recovering
  <2>4. "lost" \in TerminalStates
    BY DEF TerminalStates
  <2>5. Terminal(r)' \/ (UNCHANGED ledgerVars /\ ~FinalizeApplies(r, t))
    BY <1>2, <1>4, <2>1, <2>2, <2>4, FinalizeWrites
  <2>6. ~OnToken(r, t)'
    <3>1. CASE Terminal(r)'
      BY <3>1 DEF OnToken, Active, Terminal, ActiveStates, TerminalStates
    <3>2. CASE UNCHANGED ledgerVars /\ ~FinalizeApplies(r, t)
      BY <3>2 DEF OnToken, Active, FinalizeApplies, ledgerVars
    <3> QED BY <2>5, <3>1, <3>2
  <2>7. RemovalsFit
    BY <1>1, <2>3, <2>6, DropComes
  <2> QED BY <1>1, <1>2, <2>7, ViewUntouched, OnwardFound
<1> QED BY <1>3, <1>4 DEF Condemn

\* The member a pass drops is of an ownership that has lost its row.
LEMMA DropFound ==
  ASSUME ClusterInvariant, ClusterInvariant', FoundInvariant, NEW p \in Owners, Drop(p)
  PROVE  FoundInvariant'
<1>1. RowsStay /\ CellsOnward /\ NoneFinishes /\ CellsFollow /\ NoneEnds /\ RecoveriesGoOn
  BY DropKeeps, PlainPassOnward, OnwardFollows, OnwardRecovers, NoneFinishesEnds
     DEF ClusterInvariant
<1>2. /\ PassesFit /\ reap[p].pc = "drop" /\ Rest(p) /\ view' = view
      /\ index' = Without(reap[p].run, reap[p].token)
  BY DEF ClusterInvariant, Drop, Reaping
<1>3. RemovalsFit
  BY <1>1, <1>2, RestDrops, RemovalsFollow
<1>4. ASSUME NEW s \in Runs, NEW t \in 1..MaxToken, OnToken(s, t), Member(s, t)
      PROVE  Member(s, t)'
  <2>1. ~(s = reap[p].run /\ t = reap[p].token)
    BY <1>2, <1>4 DEF FoundInvariant, Removing
  <2> QED BY <1>2, <1>4, <2>1 DEF Member, Without
<1>5. ViewFollows /\ MembersStay
  BY <1>2, <1>4, ViewUntouched DEF ViewGoesOn, ViewFollows, MembersStay, Shows, ViewIs
<1> QED BY <1>1, <1>3, <1>5, NoneArrives, NoneComesOnward, FoundStep
    DEF ClusterInvariant, RowsStay

\* The new token of a recovery is shown nowhere.
LEMMA RedrawFound ==
  ASSUME ClusterInvariant, ClusterInvariant', FoundInvariant, NEW p \in Owners, Redraw(p)
  PROVE  FoundInvariant'
<1>1. /\ PassesFit /\ LedgerInvariant /\ reap[p] \in Reap /\ exec' = exec
      /\ NextFencingToken(reap[p].run) /\ UNCHANGED <<view, index>>
  BY DEF ClusterInvariant, PassesFit, Redraw, Reaping, liveVars
<1>2. PICK r \in Runs : r = reap[p].run
  BY DEF ClusterInvariant, PassesFit, PassFits, Redraw, Reaping
<1>3. PICK n : n = tokenSeq + 1
  OBVIOUS
<1>4. PICK x : x = [reap[p] EXCEPT !.pc = "reclaim", !.next = n, !.gen = generation]
  OBVIOUS
<1>5. x.pc = "reclaim" /\ x.run = r /\ x.next = n /\ Turns(p, x)
  BY <1>1, <1>2, <1>3, <1>4 DEF Reap, Redraw, Turns
<1>6. reap'[p] = x /\ \A q \in Owners \ {p} : reap'[q] = reap[q]
  BY <1>1, <1>5, PassAlone
<1>7. RowsStay /\ \A d \in drawn : d.token # n
  BY <1>1, <1>2, <1>3, TokenIsNew
<1>8. ComersFit
  <2>1. ASSUME NEW k \in Kinds, NEW q \in Owners, NEW s \in Runs, NEW t \in 1..MaxToken,
               Coming(k, q, s, t)'
        PROVE  Coming(k, q, s, t) \/ ~ViewIs(s, t)'
    <3>1. CASE k # "claim" /\ q = p
      <4>1. t = n
        BY <1>5, <1>6, <2>1, <3>1 DEF Coming
      <4> QED BY <1>1, <1>7, <4>1, UnseenToken DEF ViewIs
    <3>2. CASE k = "claim" \/ q # p
      BY <1>1, <1>6, <2>1, <3>2 DEF Coming
    <3> QED BY <3>1, <3>2
  <2> QED BY <2>1 DEF ComersFit
<1>9. RemovalsFit
  <2>1. NoneEnds /\ NoneDrops /\ CellsFollow
    BY <1>1, <1>5, <1>6, CellsRest, OnwardFollows DEF NoneEnds, NoneDrops
  <2> QED BY <2>1, RemovalsFollow
<1>10. ViewFollows /\ MembersStay
  BY <1>1, ViewUntouched, ViewKept DEF Member
<1> QED BY <1>1, <1>7, <1>8, <1>9, <1>10, NoneArrives, FoundStep DEF RowsStay

\* A row that is reclaimed leaves the token of the candidate.
LEMMA ReclaimFound ==
  ASSUME ClusterInvariant, ClusterInvariant', FoundInvariant, NEW p \in Owners, Reclaim(p)
  PROVE  FoundInvariant'
<1>1. /\ PassesFit /\ LedgerInvariant /\ reap[p] \in Reap /\ reap[p].pc = "reclaim"
      /\ reap[p].indexed /\ [run |-> reap[p].run, token |-> reap[p].token] \in drawn
      /\ [run |-> reap[p].run, token |-> reap[p].next] \in drawn
      /\ exec' = exec /\ UNCHANGED <<view, index>>
  BY DEF ClusterInvariant, PassesFit, PassFits, FromIndex, Reclaim, Reaping, liveVars
<1>2. PICK r \in Runs : r = reap[p].run
  BY <1>1 DEF PassesFit, PassFits
<1>3. PICK t \in 1..MaxToken : t = reap[p].next
  BY <1>1 DEF LedgerInvariant, TypeOK
<1>4. PICK c \in 1..MaxToken : c = reap[p].token
  BY <1>1 DEF LedgerInvariant, TypeOK
<1>5. CellsOnward /\ CellsFollow /\ NoneFinishes /\ NoneEnds
  BY <1>1, CellsRest, OnwardFollows DEF NoneFinishes, NoneEnds
<1>6. CASE Rest(p) /\ UNCHANGED ledgerVars
  <2>1. RowsStay /\ RecoveriesGoOn /\ NoneDrops
    BY <1>1, <1>6, IdleStays, RestOnward, OnwardRecovers, RestDrops
  <2> QED BY <1>1, <1>5, <2>1, PassFound
<1>7. CASE ReclaimWaitingDecision(r, p, reap[p].prev, t, reap[p].gen) /\ Pass(p, "rereserve")
  <2>1. Coming("reclaim", p, r, t) /\ Candidate(p, r, c)
    BY <1>1, <1>2, <1>3, <1>4 DEF Coming, Candidate
  <2>2. /\ rows[r].token < t /\ rows'[r].token = t /\ drawn' = drawn
        /\ \A s \in Runs \ {r} : rows'[s] = rows[s]
    BY <1>1, <1>7
       DEF LedgerInvariant, TypeOK, ReclaimWaitingDecision, ReclaimApplies, Row
  <2>3. RowsArrive
    <3>1. ASSUME NEW s \in Runs, NEW u \in 1..MaxToken, OnToken(s, u)'
          PROVE  OnToken(s, u) \/ (/\ Fresh(s) \/ rows[s].token < u
                                  /\ \E k \in Kinds, q \in Owners : Coming(k, q, s, u))
      <4>1. CASE s = r
        BY <2>1, <2>2, <3>1, <4>1 DEF OnToken, Kinds
      <4>2. CASE s # r
        BY <2>2, <3>1, <4>2 DEF OnToken, Active
      <4> QED BY <4>1, <4>2
    <3> QED BY <3>1 DEF RowsArrive
  <2>4. PICK x : x = [reap[p] EXCEPT !.pc = "rereserve"]
    OBVIOUS
  <2>5. x.run = r /\ x.next = t /\ x.token = c /\ Turns(p, x)
    BY <1>1, <1>2, <1>3, <1>4, <1>7, <2>4 DEF Reap, Pass, Turns
  <2>6. reap'[p] = x /\ \A q \in Owners \ {p} : reap'[q] = reap[q]
    BY <1>1, <2>5, PassAlone
  <2>7. ComersFit
    <3>1. ASSUME NEW k \in Kinds, NEW q \in Owners, NEW s \in Runs, NEW u \in 1..MaxToken,
                 Coming(k, q, s, u)'
          PROVE  Coming(k, q, s, u)
      <4>1. CASE k # "claim" /\ q = p
        BY <2>1, <2>5, <2>6, <3>1, <4>1 DEF Coming
      <4>2. CASE k = "claim" \/ q # p
        BY <1>1, <2>6, <3>1, <4>2 DEF Coming
      <4> QED BY <4>1, <4>2
    <3> QED BY <3>1 DEF ComersFit
  <2>8. RemovalsFit
    <3>1. c # t
      BY <2>1 DEF ClusterInvariant, TokenInvariant, Kinds
    <3>2. ~OnToken(r, c)'
      BY <2>2, <3>1 DEF OnToken
    <3> QED BY <1>5, <2>5, <2>6, <3>2, DropComes
  <2>9. ViewFollows /\ MembersStay
    BY <1>1, ViewUntouched, ViewKept DEF Member
  <2> QED BY <2>2, <2>3, <2>7, <2>8, <2>9, FoundStep
<1> QED BY <1>2, <1>3, <1>6, <1>7 DEF Reclaim

\* A recovered run is shown with its member; the pass goes on to drop its candidate.
LEMMA RereserveFound ==
  ASSUME ClusterInvariant, ClusterInvariant', FoundInvariant, NEW p \in Owners, Rereserve(p)
  PROVE  FoundInvariant'
<1>1. /\ PassesFit /\ ServersFit /\ LedgerInvariant /\ RowsStay
      /\ reap[p] \in Reap /\ reap[p].pc = "rereserve"
      /\ [run |-> reap[p].run, token |-> reap[p].next] \in drawn
  BY RereserveKeeps DEF ClusterInvariant, PassesFit, PassFits, Rereserve, Reaping
<1>2. PICK r \in Runs : r = reap[p].run
  BY <1>1 DEF PassesFit, PassFits
<1>3. PICK t \in 1..MaxToken : t = reap[p].next
  BY <1>1 DEF LedgerInvariant, TypeOK
<1>4. CASE Rest(p) /\ UNCHANGED <<view, index, exec>>
  <2>1. CellsOnward /\ NoneFinishes /\ RecoveriesGoOn /\ NoneDrops
    BY <1>1, <1>4, CellsRest, RestOnward, OnwardRecovers, RestDrops DEF NoneFinishes
  <2> QED BY <1>1, <1>4, <2>1, PassFound
<1>5. CASE /\ Reserve(r, t, "waiting_decision")
           /\ exec' = [exec EXCEPT ![p][r] =
                [Idle EXCEPT !.pc = "parked", !.token = t, !.own = "held",
                             !.renew = TRUE, !.asked = TRUE]]
           /\ Pass(p, "drop")
  <2>1. Coming("reclaim", p, r, t)
    BY <1>1, <1>2, <1>3 DEF Coming
  <2>2. PICK e : e = [Idle EXCEPT !.pc = "parked", !.token = t, !.own = "held",
                                  !.renew = TRUE, !.asked = TRUE]
    OBVIOUS
  <2>3. e.pc = "parked" /\ Becomes(p, r, e)
    BY <1>5, <2>2 DEF Idle, Becomes
  <2>4. exec'[p][r] = e /\ OthersStay(p, r)
    BY <1>1, <2>3, CellPlace
  <2>5. /\ reap'[p].pc = "drop" /\ reap'[p].run = r /\ reap'[p].token = reap[p].token
        /\ \A q \in Owners \ {p} : reap'[q] = reap[q]
    BY <1>1, <1>2, <1>5, PassOn DEF Recovering
  <2>6. ASSUME NEW k \in Kinds, NEW q \in Owners, NEW s \in Runs, NEW u \in 1..MaxToken,
               Coming(k, q, s, u)'
        PROVE  Coming(k, q, s, u) /\ ~(k # "claim" /\ q = p)
    <3>1. CASE k = "claim"
      BY <2>3, <2>4, <2>6, <3>1 DEF Coming, OthersStay
    <3>2. CASE k # "claim"
      BY <2>5, <2>6, <3>2 DEF Coming
    <3> QED BY <3>1, <3>2
  <2>7. \A k \in Kinds, q \in Owners : ~Coming(k, q, r, t)'
    <3>1. ASSUME NEW k \in Kinds, NEW q \in Owners, Coming(k, q, r, t)'
          PROVE  FALSE
      <4>1. Coming(k, q, r, t) /\ ~(k # "claim" /\ q = p)
        BY <2>6, <3>1
      <4>2. k = "reclaim" /\ q = p
        BY <2>1, <4>1 DEF ClusterInvariant, TokenInvariant, Kinds
      <4> QED BY <4>1, <4>2
    <3> QED BY <3>1
  <2>8. RemovalsFit
    <3>1. ASSUME NEW q \in Owners, NEW s \in Runs, NEW u \in 1..MaxToken, Removing(q, s, u)'
          PROVE  Removing(q, s, u)
      <4>1. CASE exec'[q][s].pc = "release" /\ exec'[q][s].token = u
        BY <2>3, <2>4, <4>1 DEF Removing, OthersStay
      <4>2. CASE reap'[q].pc \in {"rereserve", "drop"} /\ reap'[q].run = s /\ reap'[q].token = u
        BY <1>1, <1>2, <2>5, <4>2 DEF Removing
      <4> QED BY <3>1, <4>1, <4>2 DEF Removing
    <3> QED BY <3>1 DEF RemovalsFit
  <2>9. /\ view' = [run |-> r, token |-> t, status |-> "waiting_decision", leased |-> TRUE]
        /\ index' = index \cup {Entry(r, t, FALSE)}
    BY <1>5 DEF Reserve
  <2>10. ASSUME NEW s \in Runs, NEW u, ViewIs(s, u)'
         PROVE  s = r /\ u = t
    BY <2>9, <2>10 DEF ViewIs
  <2>11. ViewFollows
    <3>1. ViewFits'
      BY <2>9 DEF ViewFits, ActiveStatuses
    <3>2. Drawn(r, t)'
      BY <1>1, <1>2, <1>3 DEF Drawn, RowsStay
    <3> QED BY <2>7, <2>10, <3>1, <3>2 DEF ViewFollows
  <2>12. MembersStay
    <3>1. Member(r, t)'
      BY <2>9, EntryIsMember
    <3> QED BY <2>10, <3>1 DEF MembersStay, Shows
  <2>13. ComersFit
    BY <2>6 DEF ComersFit
  <2> QED BY <1>1, <2>8, <2>11, <2>12, <2>13, NoneArrives, FoundStep DEF RowsStay
<1> QED BY <1>2, <1>3, <1>4, <1>5 DEF Rereserve

-----------------------------------------------------------------------------
(* Every step                                                              *)

LEMMA FoundInit == RuntimeInit => FoundInvariant
<1> SUFFICES ASSUME RuntimeInit PROVE FoundInvariant
  OBVIOUS
<1>1. /\ \A p \in Owners, r \in Runs : exec[p][r] = Idle
      /\ \A p \in Owners : reap[p] = Resting
      /\ view = NoView
  BY DEF RuntimeInit, Init
<1>2. ViewFits
  BY <1>1, LedgerAssumption DEF ViewFits, NoView
<1>3. \A r \in Runs : view.run # r
  BY <1>1, LedgerAssumption, RuntimeAssumption DEF NoView
<1> QED BY <1>1, <1>2, <1>3
    DEF FoundInvariant, ViewIs, Removing, Idle, Resting, ReservedIsFound

LEMMA FoundKept ==
  ASSUME ClusterInvariant, FoundInvariant, [RuntimeNext]_runtimeVars
  PROVE  FoundInvariant'
<1>0. ClusterInvariant'
  BY RuntimeStepKeeps
<1>1. ASSUME NEW p \in Owners, NEW r \in Runs, AdmissionStep(p, r)
      PROVE  FoundInvariant'
  <2>1. CASE DrawToken(p, r) \/ ClaimRun(p, r)
    BY <1>0, <2>1, DrawTokenFound, ClaimRunFound
  <2>2. CASE ReserveRun(p, r) \/ BuildTurn(p, r)
    BY <1>0, <2>2, ReserveRunKeeps, BuildTurnKeeps, ReserveRunFound, BuildTurnFound
  <2>3. CASE AdmitRun(p, r) \/ ActivateFence(p, r) \/ ConfirmLease(p, r)
    BY <1>0, <2>3, RuntimeAssumption, AdmitRunKeeps, ActivateFenceKeeps, ConfirmLeaseKeeps,
       AdmissionFound
  <2>4. CASE PromoteRun(p, r) \/ UnwindAdmission(p, r) \/ AbandonClaim(p, r)
    BY <1>0, <2>4, PromoteRunKeeps, UnwindAdmissionKeeps, AbandonClaimKeeps, AdmissionFound
  <2> QED BY <1>1, <2>1, <2>2, <2>3, <2>4 DEF AdmissionStep
<1>2. ASSUME NEW p \in Owners, NEW r \in Runs, ExecutionStep(p, r) \/ AbortRun(p, r)
      PROVE  FoundInvariant'
  BY <1>0, <1>2, ExecutionFound, AbortRunFound
<1>3. ASSUME NEW r \in Runs, AbortIntent(r)
      PROVE  FoundInvariant'
  BY <1>0, <1>3, AbortIntentFound
<1>4. ASSUME NEW p \in Owners, ReapStep(p)
      PROVE  FoundInvariant'
  <2>1. CASE ScanStep(p) \/ ListStale(p) \/ Judge(p) \/ Condemn(p) \/ Drop(p)
    BY <1>0, <2>1, ScanFound, JudgeFound, CondemnFound, DropFound
  <2>2. CASE Recover(p) \/ Redraw(p) \/ Reclaim(p) \/ Rereserve(p)
    BY <1>0, <2>2, RecoverFound, RedrawFound, ReclaimFound, RereserveFound
  <2> QED BY <1>4, <2>1, <2>2 DEF ReapStep, PassStep
<1>5. CASE LeaseStep \/ FaultStep
  BY <1>0, <1>5, EnvironmentFound
<1>6. CASE UNCHANGED runtimeVars
  <2>1. UNCHANGED <<rows, exec, reap, view, index, drawn>> /\ UNCHANGED ledgerVars
    BY <1>6 DEF runtimeVars, ledgerVars
  <2>2. RowsStay /\ CellsOnward /\ RecoveriesGoOn /\ NoneFinishes /\ NoneDrops
    BY <2>1, IdleStays, CellsRest, PassesRestOnward, OnwardRecovers, PassesDrop DEF NoneFinishes
  <2> QED BY <1>0, <2>1, <2>2, PassFound
<1> QED BY <1>1, <1>2, <1>3, <1>4, <1>5, <1>6 DEF RuntimeNext

(* Whatever crashes, is lost, fails over or shuts down, and whatever a     *)
(* reaper was doing: as long as the projection shows the ownership under   *)
(* which the ledger has a run in progress, the lease index holds the       *)
(* member by which the next pass finds it.  Only a run a shutdown gave up  *)
(* on is left to the sweep of a new generation.                            *)
THEOREM ReservedRunsAreFound == RuntimeSpec => []ReservedIsFound
<1>1. ClusterInvariant /\ FoundInvariant /\ [RuntimeNext]_runtimeVars => FoundInvariant'
  BY FoundKept
<1>2. FoundInvariant => ReservedIsFound
  BY DEF FoundInvariant
<1> QED BY FoundInit, <1>1, <1>2, ClusterIsInvariant, PTL DEF RuntimeSpec

=============================================================================
