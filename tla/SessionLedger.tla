--------------------------- MODULE SessionLedger ---------------------------
(***************************************************************************)
(* The durable run ledger of the session runtime: the session_runs table   *)
(* of PostgreSQL and the fencing token sequence, seen through the          *)
(* ledger.Store interface.  Every statement is one step.  A fenced         *)
(* statement that matches no row changes nothing and reports               *)
(* applied=false, so only the applied statements are actions here.         *)
(*                                                                         *)
(* This is the contract the rest of the runtime is written against: who    *)
(* calls which statement, with which token and when, is left open.         *)
(* LedgerAdmission implements the admission statement, SessionRuntime      *)
(* supplies the callers; both refine this module.                          *)
(***************************************************************************)
EXTENDS Integers, FiniteSets

CONSTANTS
  Runs,          \* run ids minted by callers of Admit
  Sessions,
  Invocations,   \* client supplied idempotency keys
  Owners,        \* server processes
  Generations,   \* incarnations of the live backend
  NoOwner, NoGeneration, NoSession, NoInvocation,   \* SQL NULL, or no row yet
  MaxToken,      \* bound on fencing tokens drawn
  MaxPosition    \* bound on turn positions allocated per session

ASSUME LedgerAssumption ==
  /\ MaxToken \in Nat
  /\ MaxPosition \in Nat
  /\ NoOwner \notin Owners
  /\ NoGeneration \notin Generations
  /\ NoSession \notin Sessions
  /\ NoInvocation \notin Invocations

VARIABLES
  rows,          \* session_runs, by run id
  nextPosition,  \* bot_sessions.next_turn_position, by session
  tokenSeq,      \* last value of session_runtime_fencing_token_seq
  drawn          \* history: which run each token was drawn for

ledgerVars == <<rows, nextPosition, tokenSeq, drawn>>

ActiveStates_NotParked == {"accepted", "running"}

ActiveStates == {"accepted", "running", "waiting_decision"}
TerminalStates == {"completed", "aborted", "failed", "lost"}
Absent == "absent"

Row == [session    : Sessions \cup {NoSession},
        invocation : Invocations \cup {NoInvocation},
        position   : 0..MaxPosition,
        state      : ActiveStates \cup TerminalStates \cup {Absent},
        owner      : Owners \cup {NoOwner},
        token      : 0..MaxToken,
        generation : Generations \cup {NoGeneration},
        abort      : BOOLEAN]

AbsentRow == [session |-> NoSession, invocation |-> NoInvocation,
              position |-> 0, state |-> Absent, owner |-> NoOwner,
              token |-> 0, generation |-> NoGeneration, abort |-> FALSE]

AcceptedRow(s, i, pos) ==
  [session |-> s, invocation |-> i, position |-> pos, state |-> "accepted",
   owner |-> NoOwner, token |-> 0, generation |-> NoGeneration, abort |-> FALSE]

Exists(r)   == rows[r].state # Absent
Active(r)   == rows[r].state \in ActiveStates
Terminal(r) == rows[r].state \in TerminalStates

\* session_runs_single_active: the session's one active row, if any.
ActiveRuns(s) == {r \in Runs : rows[r].session = s /\ Active(r)}

Drawn(r, t) == [run |-> r, token |-> t] \in drawn

-----------------------------------------------------------------------------
Init ==
  /\ rows = [r \in Runs |-> AbsentRow]
  /\ nextPosition = [s \in Sessions |-> 1]
  /\ tokenSeq = 0
  /\ drawn = {}

\* A busy session persists nothing, a known invocation is answered from its row.
Admit(r, s, i) ==
  /\ rows[r].state = Absent
  /\ ActiveRuns(s) = {}
  /\ \A q \in Runs : rows[q].session = s => rows[q].invocation # i
  /\ nextPosition[s] <= MaxPosition
  /\ rows' = [rows EXCEPT ![r] = AcceptedRow(s, i, nextPosition[s])]
  /\ nextPosition' = [nextPosition EXCEPT ![s] = @ + 1]
  /\ UNCHANGED <<tokenSeq, drawn>>

\* Two callers racing on one invocation, where the loser's increment commits
\* alone, or a turn that is persisted without a run.
SkipPosition(s) ==
  /\ nextPosition[s] <= MaxPosition
  /\ nextPosition' = [nextPosition EXCEPT ![s] = @ + 1]
  /\ UNCHANGED <<rows, tokenSeq, drawn>>

\* nextval() hands every caller a token of its own, before it owns anything.
NextFencingToken_Cached(r) ==
  /\ Exists(r)
  /\ drawn' = drawn \cup {[run |-> r, token |-> tokenSeq + 1]}
  /\ tokenSeq < MaxToken
  /\ tokenSeq' \in {tokenSeq, tokenSeq + 1}
  /\ UNCHANGED <<rows, nextPosition>>

NextFencingToken(r) ==
  /\ Exists(r)
  /\ tokenSeq < MaxToken
  /\ tokenSeq' = tokenSeq + 1
  /\ drawn' = drawn \cup {[run |-> r, token |-> tokenSeq + 1]}
  /\ UNCHANGED <<rows, nextPosition>>

ClaimApplies_Again(r, t) ==
  rows[r].state \in ActiveStates /\ rows[r].token < t

ClaimApplies(r, t) ==
  rows[r].state = "accepted" /\ rows[r].token < t

Claim(r, o, t, g) ==
  /\ Drawn(r, t)
  /\ ClaimApplies(r, t)
  /\ rows' = [rows EXCEPT ![r] = [@ EXCEPT !.state = "running", !.owner = o,
                                           !.token = t, !.generation = g]]
  /\ UNCHANGED <<nextPosition, tokenSeq, drawn>>

\* The guard SetWaitingDecision and Resume share.
FencedLive(r, t) ==
  rows[r].token = t /\ rows[r].state \in {"running", "waiting_decision"}

SetWaitingDecision(r, t) ==
  /\ FencedLive(r, t)
  /\ rows' = [rows EXCEPT ![r].state = "waiting_decision"]
  /\ UNCHANGED <<nextPosition, tokenSeq, drawn>>

Resume(r, t) ==
  /\ FencedLive(r, t)
  /\ rows' = [rows EXCEPT ![r].state = "running"]
  /\ UNCHANGED <<nextPosition, tokenSeq, drawn>>

ReclaimApplies(r, prev, t) ==
  rows[r].state = "waiting_decision" /\ rows[r].token = prev /\ prev < t

ReclaimWaitingDecision(r, o, prev, t, g) ==
  /\ Drawn(r, t)
  /\ ReclaimApplies(r, prev, t)
  /\ rows' = [rows EXCEPT ![r] = [@ EXCEPT !.owner = o, !.token = t,
                                           !.generation = g]]
  /\ UNCHANGED <<nextPosition, tokenSeq, drawn>>

FinalizeApplies(r, t) == rows[r].token = t /\ Active(r)

\* What a terminal write leaves: `lost' over a recorded abort is `aborted'.
TerminalState(r, st) ==
  IF st = "lost" /\ rows[r].abort THEN "aborted" ELSE st

Finalize_Unguarded(r, t, st) ==
  /\ rows[r].token = t /\ Exists(r)
  /\ rows' = [rows EXCEPT ![r].state = TerminalState(r, st)]
  /\ UNCHANGED <<nextPosition, tokenSeq, drawn>>

Finalize_IgnoresAbort(r, t, st) ==
  /\ FinalizeApplies(r, t)
  /\ rows' = [rows EXCEPT ![r].state = st]
  /\ UNCHANGED <<nextPosition, tokenSeq, drawn>>

Finalize(r, t, st) ==
  /\ FinalizeApplies(r, t)
  /\ rows' = [rows EXCEPT ![r].state = TerminalState(r, st)]
  /\ UNCHANGED <<nextPosition, tokenSeq, drawn>>

RequestAbort(r) ==
  /\ Active(r)
  /\ rows' = [rows EXCEPT ![r].abort = TRUE]
  /\ UNCHANGED <<nextPosition, tokenSeq, drawn>>

-----------------------------------------------------------------------------
AdmitStep    == \E r \in Runs, s \in Sessions, i \in Invocations : Admit(r, s, i)
SkipStep     == \E s \in Sessions : SkipPosition(s)
TokenStep    == \E r \in Runs : NextFencingToken(r)
ClaimStep    == \E r \in Runs, o \in Owners, t \in 1..MaxToken, g \in Generations :
                  Claim(r, o, t, g)
WaitStep     == \E r \in Runs, t \in 0..MaxToken : SetWaitingDecision(r, t)
ResumeStep   == \E r \in Runs, t \in 0..MaxToken : Resume(r, t)
ReclaimStep  == \E r \in Runs, o \in Owners, prev \in 0..MaxToken,
                  t \in 1..MaxToken, g \in Generations :
                  ReclaimWaitingDecision(r, o, prev, t, g)
FinalizeStep == \E r \in Runs, t \in 0..MaxToken, st \in TerminalStates :
                  Finalize(r, t, st)
AbortStep    == \E r \in Runs : RequestAbort(r)

Next ==
  \/ AdmitStep
  \/ SkipStep
  \/ TokenStep
  \/ ClaimStep
  \/ WaitStep
  \/ ResumeStep
  \/ ReclaimStep
  \/ FinalizeStep
  \/ AbortStep

Spec == Init /\ [][Next]_ledgerVars

-----------------------------------------------------------------------------
(* Properties                                                              *)

(* Every column stays in its domain, and the ownership columns move with   *)
(* the state: NULL until a claim, set from the claim on.  The orphan and   *)
(* recovery queries select on exactly that distinction.                    *)
TypeOK ==
  /\ rows \in [Runs -> Row]
  /\ nextPosition \in [Sessions -> 1..(MaxPosition + 1)]
  /\ tokenSeq \in 0..MaxToken
  /\ drawn \in SUBSET [run : Runs, token : 1..MaxToken]
  /\ \A r \in Runs :
       /\ rows[r].state = Absent => rows[r] = AbsentRow
       /\ Exists(r) => rows[r].session \in Sessions
       /\ rows[r].state = "accepted" =>
            rows[r].token = 0 /\ rows[r].generation = NoGeneration
       /\ rows[r].state \in {"running", "waiting_decision"} =>
            /\ rows[r].token > 0
            /\ rows[r].generation # NoGeneration
            /\ rows[r].owner # NoOwner

(* SR-OWN-001: a session has at most one run in progress, whatever mix of  *)
(* admissions, claims, reclaims and terminal writes reaches the table.     *)
SingleActive ==
  \A q, r \in Runs :
    (Active(q) /\ Active(r) /\ rows[q].session = rows[r].session) => q = r

(* SR-ADM-001: one invocation of a session is one run, before and after it *)
(* ends, so a redelivered submission can only find the original.           *)
OneRunPerInvocation ==
  \A q, r \in Runs :
    (/\ Exists(q) /\ Exists(r)
     /\ rows[q].session = rows[r].session
     /\ rows[q].invocation = rows[r].invocation) => q = r

(* SR-TURN-001: no two runs of a session write into the same turn          *)
(* position, gaps included.                                                *)
PositionsDistinct ==
  \A q, r \in Runs :
    (/\ Exists(q) /\ Exists(r) /\ q # r
     /\ rows[q].session = rows[r].session)
      => rows[q].position # rows[r].position

(* One token orders every writer of a session: a run admitted later is     *)
(* fenced with a strictly larger token than every run before it, although  *)
(* tokens are drawn before, and apart from, the claim that uses them.      *)
TokensFollowAdmission ==
  \A q, r \in Runs :
    (/\ Exists(q) /\ Exists(r)
     /\ rows[q].session = rows[r].session
     /\ rows[q].position < rows[r].position
     /\ rows[r].token > 0)
      => rows[q].token < rows[r].token

(* A token never fences two runs.                                          *)
TokensDistinct ==
  \A q, r \in Runs :
    (rows[q].token > 0 /\ rows[q].token = rows[r].token) => q = r

(* SR-CTL-001: a run the user aborted while it was active is never         *)
(* reported lost, whoever writes the terminal state.                       *)
AbortSurvivesLoss ==
  \A r \in Runs : rows[r].state = "lost" => ~rows[r].abort

(* A terminal row is never written again: no late owner, reaper or abort   *)
(* resurrects or relabels it.                                              *)
TerminalIsFinal ==
  [][\A r \in Runs : Terminal(r) => rows'[r] = rows[r]]_ledgerVars

(* Ownership moves forward only: a change of owner, generation or token of *)
(* a row raises its token.                                                 *)
OwnershipMovesForward ==
  [][\A r \in Runs :
       (\/ rows'[r].owner # rows[r].owner
        \/ rows'[r].generation # rows[r].generation
        \/ rows'[r].token # rows[r].token)
         => rows'[r].token > rows[r].token]_ledgerVars

(* The inductive invariant behind the safety properties above.  A claim    *)
(* compares tokens on one row only; what orders the rows of a session is   *)
(* that its active row is its newest, and that tokens are drawn for rows   *)
(* that exist, each after every token of the rows before it.               *)
PositionsBelowNext ==
  \A r \in Runs : Exists(r) => rows[r].position < nextPosition[rows[r].session]

ActiveIsNewest ==
  \A q, r \in Runs :
    (Active(r) /\ Exists(q) /\ rows[q].session = rows[r].session /\ q # r)
      => rows[q].position < rows[r].position

TokensAreDrawn == \A r \in Runs : rows[r].token > 0 => Drawn(r, rows[r].token)

DrawnForRows == \A d \in drawn : Exists(d.run) /\ d.token <= tokenSeq

DrawnOnce == \A c, d \in drawn : c.token = d.token => c.run = d.run

DrawnFollowAdmission ==
  \A d \in drawn, q \in Runs :
    (/\ Exists(q) /\ rows[q].session = rows[d.run].session
     /\ rows[q].position < rows[d.run].position)
      => rows[q].token < d.token

LedgerInvariant ==
  /\ TypeOK
  /\ OneRunPerInvocation
  /\ PositionsDistinct
  /\ PositionsBelowNext
  /\ ActiveIsNewest
  /\ TokensAreDrawn
  /\ DrawnForRows
  /\ DrawnOnce
  /\ DrawnFollowAdmission
  /\ AbortSurvivesLoss

(* What session_runs.sql:102-103 and store.go say of live_generation:      *)
(* stamped once by the claim and never updated after.                      *)
GenerationStampedOnce ==
  [][\A r \in Runs : rows[r].generation # NoGeneration
       => rows'[r].generation = rows[r].generation]_ledgerVars
=============================================================================
