-------------------------- MODULE LedgerAdmission --------------------------
(***************************************************************************)
(* The durable admission of a run, as PostgresStore.Admit performs it for  *)
(* several callers at once: an unlocked read of the session's active run,  *)
(* the AdmitSessionRun statement, whose guard sees the snapshot the        *)
(* statement began with while its row lock and unique indexes see the      *)
(* latest rows, and the read that tells a known invocation from a missing  *)
(* session.  Manager.Admit then compares the payload fingerprints.         *)
(*                                                                         *)
(* SessionLedger does all of this in one step, Admit.  Its other steps     *)
(* are taken here by the rest of the runtime.                              *)
(***************************************************************************)
EXTENDS SessionLedger

CONSTANTS
  Callers,             \* concurrent calls of Manager.Admit
  Payloads, NoPayload  \* fingerprints of the submitted input

ASSUME AdmissionAssumption == NoPayload \notin Payloads

VARIABLES
  caller,       \* one call of Manager.Admit
  fingerprint,  \* session_runs.input_fingerprint, by run
  deleted       \* sessions whose bot_sessions.deleted_at is set

admissionVars == <<rows, nextPosition, tokenSeq, drawn, caller, fingerprint, deleted>>

Caller == [pc : {"idle", "peek", "begin", "write", "reselect", "admitted", "replayed",
                 "conflict", "not_found"},
           session    : Sessions \cup {NoSession},
           invocation : Invocations \cup {NoInvocation},
           payload    : Payloads \cup {NoPayload}]
Unused == [pc |-> "idle", session |-> NoSession, invocation |-> NoInvocation,
           payload |-> NoPayload]

\* The session's row of an invocation, as a set of at most one run.
ByInvocation(s, i) ==
  {r \in Runs : rows[r].session = s /\ rows[r].invocation = i}

AdmissionInit ==
  /\ Init
  /\ caller = [c \in Callers |-> Unused]
  /\ fingerprint = [r \in Runs |-> NoPayload]
  /\ deleted = {}

-----------------------------------------------------------------------------
Advance(c, pc) == caller' = [caller EXCEPT ![c].pc = pc]

\* Busy persists nothing, and the call may be made again.
Busy(c) == caller' = [caller EXCEPT ![c] = Unused] /\ UNCHANGED ledgerVars

\* The committed run answers a replay, unless its payload differs.
Answer_IgnoresPayload(c, r) == Advance(c, "replayed")

Answer(c, r) ==
  Advance(c, IF fingerprint[r] = caller[c].payload THEN "replayed" ELSE "conflict")

Submit(c, s, i, f) ==
  /\ caller[c] = Unused
  /\ caller' = [caller EXCEPT ![c] = [pc |-> "peek", session |-> s, invocation |-> i,
                                      payload |-> f]]
  /\ UNCHANGED <<ledgerVars, fingerprint, deleted>>

\* admitFastPath: the active row alone decides, without a lock.
Peek(c) ==
  /\ caller[c].pc = "peek"
  /\ LET active == ActiveRuns(caller[c].session)
         own    == {r \in active : rows[r].invocation = caller[c].invocation} IN
       \/ active = {} /\ Advance(c, "begin") /\ UNCHANGED ledgerVars
       \/ (\E r \in own : Answer(c, r)) /\ UNCHANGED ledgerVars
       \/ active # {} /\ own = {} /\ Busy(c)
  /\ UNCHANGED <<fingerprint, deleted>>

\* The statement reads its snapshot: a known invocation or a deleted session
\* allocates no position and inserts nothing.
BeginStatement(c) ==
  /\ caller[c].pc = "begin"
  /\ Advance(c, IF \/ ByInvocation(caller[c].session, caller[c].invocation) # {}
                   \/ caller[c].session \in deleted
                THEN "reselect" ELSE "write")
  /\ UNCHANGED <<ledgerVars, fingerprint, deleted>>

\* ON CONFLICT DO NOTHING: the increment commits without a row.
InsertNothing(c) ==
  /\ SkipPosition(caller[c].session)
  /\ Advance(c, "reselect")
  /\ UNCHANGED fingerprint

Insert(c) ==
  /\ \E r \in Runs :
       /\ Admit(r, caller[c].session, caller[c].invocation)
       /\ fingerprint' = [fingerprint EXCEPT ![r] = caller[c].payload]
  /\ Advance(c, "admitted")

\* session_runs_single_active rolls the statement back, position included.
RollBack_IsNoRow(c) ==
  /\ Advance(c, "reselect")
  /\ UNCHANGED <<ledgerVars, fingerprint>>

RollBack(c) == Busy(c) /\ UNCHANGED fingerprint

WriteStatement_NoArbiter(c) ==
  /\ caller[c].pc = "write"
  /\ ActiveRuns(caller[c].session) = {}
  /\ \E r \in Runs, pos \in 1..MaxPosition :
       /\ rows[r].state = Absent /\ pos = nextPosition[caller[c].session]
       /\ rows' = [rows EXCEPT ![r] =
                     AcceptedRow(caller[c].session, caller[c].invocation, pos)]
       /\ nextPosition' = [nextPosition EXCEPT ![caller[c].session] = pos + 1]
       /\ fingerprint' = [fingerprint EXCEPT ![r] = caller[c].payload]
  /\ Advance(c, "admitted")
  /\ UNCHANGED <<tokenSeq, drawn, deleted>>

\* Under the lock on the session row the indexes decide: the invocation first.
WriteStatement(c) ==
  /\ caller[c].pc = "write"
  /\ LET known == ByInvocation(caller[c].session, caller[c].invocation) # {}
         busy  == ActiveRuns(caller[c].session) # {} IN
       \/ known /\ InsertNothing(c)
       \/ ~known /\ busy /\ RollBack(c)
       \/ ~known /\ ~busy /\ Insert(c)
  /\ UNCHANGED deleted

Reselect(c) ==
  /\ caller[c].pc = "reselect"
  /\ LET found == ByInvocation(caller[c].session, caller[c].invocation) IN
       \/ \E r \in found : Answer(c, r)
       \/ found = {} /\ Advance(c, "not_found")
  /\ UNCHANGED <<ledgerVars, fingerprint, deleted>>

DeleteSession(s) ==
  /\ s \notin deleted
  /\ deleted' = deleted \cup {s}
  /\ UNCHANGED <<ledgerVars, caller, fingerprint>>

\* The rest of the runtime, at any moment between the steps of a call.
RuntimeStep ==
  /\ \/ TokenStep \/ ClaimStep \/ WaitStep \/ ResumeStep
     \/ ReclaimStep \/ FinalizeStep \/ AbortStep
  /\ UNCHANGED <<caller, fingerprint, deleted>>

AdmissionNext ==
  \/ \E c \in Callers, s \in Sessions, i \in Invocations, f \in Payloads :
       Submit(c, s, i, f)
  \/ \E c \in Callers :
       Peek(c) \/ BeginStatement(c) \/ WriteStatement(c) \/ Reselect(c)
  \/ \E s \in Sessions : DeleteSession(s)
  \/ RuntimeStep

AdmissionSpec == AdmissionInit /\ [][AdmissionNext]_admissionVars

-----------------------------------------------------------------------------
(* Properties                                                              *)

(* Domains; a call in progress names what it submits, and exactly the      *)
(* persisted runs have an input to compare a replay with.                  *)
AdmissionTypeOK ==
  /\ caller \in [Callers -> Caller]
  /\ fingerprint \in [Runs -> Payloads \cup {NoPayload}]
  /\ deleted \subseteq Sessions
  /\ \A c \in Callers : caller[c].pc # "idle" =>
       caller[c].session \in Sessions /\ caller[c].invocation \in Invocations
  /\ \A r \in Runs : fingerprint[r] = NoPayload <=> ~Exists(r)

(* Whatever the callers read before they write, each call takes at most    *)
(* one step of the ledger contract: Admit, a skipped position, or nothing. *)
AdmissionContract == Spec

(* SR-ADM-001: callers of one invocation that were given a run were given  *)
(* the same input, and a caller that submitted other input was refused.    *)
InvocationHasOneInput ==
  \A b, c \in Callers :
    (/\ caller[b].pc \in {"admitted", "replayed"}
     /\ caller[c].pc \in {"admitted", "replayed"}
     /\ caller[b].session = caller[c].session
     /\ caller[b].invocation = caller[c].invocation)
      => caller[b].payload = caller[c].payload

(* postgres.go: "the re-select is guaranteed to see it".  A caller that    *)
(* inserted nothing finds the row that stopped it; only a deleted session  *)
(* is reported as not found.                                               *)
NotFoundMeansDeleted ==
  \A c \in Callers : caller[c].pc = "not_found" => caller[c].session \in deleted
=============================================================================
