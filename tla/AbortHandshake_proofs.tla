------------------------ MODULE AbortHandshake_proofs ------------------------
(***************************************************************************)
(* Proofs about AbortHandshake, for any set of abort requests and any      *)
(* number of failing calls: an admission and the aborts that meet it agree *)
(* on one finalizer, and a run whose abort was acknowledged before it was  *)
(* handed to its execution is never handed to it.                          *)
(*                                                                         *)
(* Neither property is inductive.  That there is one finalizer needs that  *)
(* the flag is up as soon as there is one; that an acknowledged abort is   *)
(* final needs that the request is on record while an abort of the         *)
(* admission goes on, and that an abort only finishes a run it has taken.  *)
(***************************************************************************)
EXTENDS AbortHandshake, TLAPS

FinishPcs == FencePcs \cup {"ledger", "release"}

\* The part of HandshakeTypeOK the agreement rests on.
FlagsTypeOK ==
  /\ pc \in [Procs -> StarterPcs \cup AborterPcs \cup SharedPcs]
  /\ flags \in [requested : BOOLEAN, established : BOOLEAN, complete : BOOLEAN,
                finalizing : BOOLEAN]
  /\ takers \subseteq Procs

FlagFollowsTaker == takers # {} => flags.finalizing

RequestOnRecord ==
  \A a \in Aborters : pc[a] \in StoppedPcs \/ a \in takers => flags.requested

FinishesWhatItTook == \A a \in Aborters : pc[a] \in FinishPcs => a \in takers

\* The inductive invariant of the handshake.
HandshakeInvariant ==
  /\ FlagsTypeOK
  /\ FlagFollowsTaker
  /\ OneFinalizer
  /\ RequestOnRecord
  /\ FinishesWhatItTook
  /\ AckedNeverStarts
-----------------------------------------------------------------------------
\* An admission starts with its flags down and nobody as its finalizer.
LEMMA InitEstablishes == HandshakeInit => HandshakeInvariant
<1> SUFFICES ASSUME HandshakeInit PROVE HandshakeInvariant
  OBVIOUS
<1> USE HandshakeAssumption DEF HandshakeInit, Procs
<1>1. FlagsTypeOK
  BY DEF FlagsTypeOK, StarterPcs, AborterPcs, SharedPcs
<1>2. FlagFollowsTaker /\ OneFinalizer
  BY DEF FlagFollowsTaker, OneFinalizer
<1>3. RequestOnRecord /\ FinishesWhatItTook
  BY DEF RequestOnRecord, FinishesWhatItTook, StoppedPcs, FinishPcs, FencePcs
<1>4. AckedNeverStarts
  BY DEF AckedNeverStarts, StoppedPcs
<1> QED BY <1>1, <1>2, <1>3, <1>4 DEF HandshakeInvariant

\* Steps that leave the flags alone, and let an abort go on only where it may.
LEMMA QuietStep ==
  ASSUME HandshakeInvariant, NEW x \in Procs, NEW to \in StarterPcs \cup AborterPcs \cup SharedPcs,
         pc' = [pc EXCEPT ![x] = to],
         UNCHANGED <<flags, takers>>,
         x \in Aborters => /\ to \in StoppedPcs => pc[x] \in StoppedPcs \/ x \in takers
                           /\ to \in FinishPcs  => pc[x] \in FinishPcs
  PROVE  HandshakeInvariant'
<1> USE DEF HandshakeInvariant, FlagsTypeOK
<1>1. FlagsTypeOK'
  OBVIOUS
<1>2. FlagFollowsTaker' /\ OneFinalizer'
  BY DEF FlagFollowsTaker, OneFinalizer
<1>3. RequestOnRecord'
  BY DEF RequestOnRecord
<1>4. FinishesWhatItTook'
  BY DEF FinishesWhatItTook
<1>5. AckedNeverStarts'
  BY DEF AckedNeverStarts
<1> QED BY <1>1, <1>2, <1>3, <1>4, <1>5

\* Steps by which one process is made the finalizer, or leaves it to the one there is.
LEMMA TakingStep ==
  ASSUME HandshakeInvariant, NEW x \in Procs, NEW won \in {"fence", "refence"},
         NEW lost \in {"acked", "abandon"},
         Take(x, won, lost), flags' = [flags EXCEPT !.established = TRUE, !.finalizing = TRUE],
         x \in Aborters => pc[x] \in StoppedPcs
  PROVE  HandshakeInvariant'
<1> USE HandshakeAssumption
    DEF HandshakeInvariant, FlagsTypeOK, Take, Goto, Procs, StoppedPcs, FinishPcs, FencePcs
<1>1. FlagsTypeOK'
  BY DEF StarterPcs, AborterPcs, SharedPcs
<1>2. FlagFollowsTaker' /\ OneFinalizer'
  BY DEF FlagFollowsTaker, OneFinalizer
<1>3. RequestOnRecord'
  BY DEF RequestOnRecord
<1>4. FinishesWhatItTook'
  BY DEF FinishesWhatItTook
<1>5. AckedNeverStarts'
  BY DEF AckedNeverStarts
<1> QED BY <1>1, <1>2, <1>3, <1>4, <1>5

\* Taking up an abort: the request goes on record before anything else happens.
LEMMA EnterAbortStep ==
  ASSUME HandshakeInvariant, NEW a \in Aborters, EnterAbort(a)
  PROVE  HandshakeInvariant'
<1> USE HandshakeAssumption
    DEF HandshakeInvariant, FlagsTypeOK, EnterAbort, Take, Goto, Procs, StoppedPcs, FinishPcs,
        FencePcs
<1>1. FlagsTypeOK'
  <2>1. pc' \in [Procs -> StarterPcs \cup AborterPcs \cup SharedPcs]
    BY DEF StarterPcs, AborterPcs, SharedPcs
  <2>2. CASE flags' = flags
    BY <2>1, <2>2
  <2>3. CASE flags' # flags
    <3>1. flags' = [flags EXCEPT !.requested = TRUE,
                       !.finalizing = @ \/ (flags.established /\ ~flags.complete)]
      BY <2>3
    <3>2. (flags.finalizing \/ (flags.established /\ ~flags.complete)) \in BOOLEAN
      OBVIOUS
    <3>3. flags' \in [requested : BOOLEAN, established : BOOLEAN, complete : BOOLEAN,
                      finalizing : BOOLEAN]
      BY <3>1, <3>2
    <3> QED BY <2>1, <3>3
  <2> QED BY <2>2, <2>3
<1>2. FlagFollowsTaker' /\ OneFinalizer'
  BY DEF FlagFollowsTaker, OneFinalizer
<1>3. RequestOnRecord'
  BY DEF RequestOnRecord
<1>4. FinishesWhatItTook'
  BY DEF FinishesWhatItTook
<1>5. AckedNeverStarts'
  BY DEF AckedNeverStarts
<1> QED BY <1>1, <1>2, <1>3, <1>4, <1>5

\* The claim becomes known to the admission, which looks for a request.
LEMMA EstablishStep ==
  ASSUME HandshakeInvariant, EstablishClaimForAbort
  PROVE  HandshakeInvariant'
<1> USE HandshakeAssumption DEF EstablishClaimForAbort, Procs
<1>1. CASE flags.requested
  <2>1. flags' = [flags EXCEPT !.established = TRUE, !.finalizing = TRUE]
    BY <1>1
  <2> QED BY <1>1, <2>1, TakingStep
<1>2. CASE ~flags.requested
  <2> USE <1>2 DEF HandshakeInvariant, FlagsTypeOK, Goto, StoppedPcs, FinishPcs, FencePcs
  <2>1. /\ flags' = [flags EXCEPT !.established = TRUE, !.finalizing = flags.finalizing]
        /\ takers' = takers /\ pc' = [pc EXCEPT ![Starter] = "confirm"]
    OBVIOUS
  <2>2. FlagsTypeOK'
    BY <2>1 DEF StarterPcs, AborterPcs, SharedPcs
  <2>3. /\ flags'.requested = flags.requested /\ flags'.complete = flags.complete
        /\ flags'.finalizing = flags.finalizing
    BY <2>1
  <2>4. \A a \in Aborters : pc'[a] = pc[a]
    BY <2>1
  <2>5. FlagFollowsTaker' /\ OneFinalizer'
    BY <2>1, <2>3 DEF FlagFollowsTaker, OneFinalizer
  <2>6. RequestOnRecord' /\ FinishesWhatItTook'
    BY <2>1, <2>3, <2>4 DEF RequestOnRecord, FinishesWhatItTook
  <2>7. AckedNeverStarts'
    BY <2>1, <2>3, <2>4 DEF AckedNeverStarts
  <2> QED BY <2>2, <2>5, <2>6, <2>7
<1> QED BY <1>1, <1>2

\* The run is handed to its execution only while nobody asked for its end.
LEMMA CompleteStep ==
  ASSUME HandshakeInvariant, CompleteAdmissionForAbort
  PROVE  HandshakeInvariant'
<1> USE HandshakeAssumption DEF CompleteAdmissionForAbort, Goto, Procs
<1>1. CASE flags.requested \/ flags.finalizing
  BY <1>1, QuietStep DEF StarterPcs
<1>2. CASE ~(flags.requested \/ flags.finalizing)
  <2> USE <1>2 DEF HandshakeInvariant, FlagsTypeOK, StoppedPcs, FinishPcs, FencePcs
  <2>1. /\ flags' = [flags EXCEPT !.complete = TRUE]
        /\ takers' = takers /\ pc' = [pc EXCEPT ![Starter] = "running"]
    OBVIOUS
  <2>2. FlagsTypeOK'
    BY <2>1 DEF StarterPcs, AborterPcs, SharedPcs
  <2>3. takers = {}
    BY DEF FlagFollowsTaker
  <2>4. \A a \in Aborters : pc'[a] = pc[a] /\ pc[a] \notin StoppedPcs
    BY <2>1 DEF RequestOnRecord
  <2>5. FlagFollowsTaker' /\ OneFinalizer'
    BY <2>1, <2>3 DEF FlagFollowsTaker, OneFinalizer
  <2>6. RequestOnRecord' /\ FinishesWhatItTook'
    BY <2>1, <2>3, <2>4 DEF RequestOnRecord, FinishesWhatItTook
  <2>7. AckedNeverStarts'
    BY <2>1, <2>3, <2>4 DEF AckedNeverStarts
  <2> QED BY <2>2, <2>5, <2>6, <2>7
<1> QED BY <1>1, <1>2

\* abortClaimedAdmission and FinishRun, of the starter or of an abort.
LEMMA FinishKeeps ==
  ASSUME HandshakeInvariant, NEW x \in Procs, FinishStep(x)
  PROVE  HandshakeInvariant'
<1> USE DEF HandshakeInvariant, Procs, StarterPcs, AborterPcs, SharedPcs, StoppedPcs, FinishPcs,
            FencePcs, Goto, End, FinishesWhatItTook
<1>1. x \in Aborters /\ pc[x] \in FinishPcs => x \in takers
  OBVIOUS
<1>2. AfterFinish(x, TRUE) \in {"done", "abandon", "acked"}
  BY DEF AfterFinish
<1>3. AfterFinish(x, FALSE) \in {"done", "abandon", "error"}
  BY DEF AfterFinish
<1>4. CASE RequestFinal(x)
  <2>1. CASE control /\ LiveActive
    BY <1>4, <2>1, <1>1, QuietStep DEF RequestFinal
  <2>2. CASE ~(control /\ LiveActive)
    BY <1>4, <2>2, <1>1, <1>3, QuietStep DEF RequestFinal, NotMarked
  <2> QED BY <2>1, <2>2
<1>5. CASE RequestFinalFails(x)
  BY <1>5, <1>1, <1>3, QuietStep DEF RequestFinalFails, NotMarked
<1>6. CASE FinalizeRow(x)
  BY <1>6, <1>1, QuietStep DEF FinalizeRow
<1>7. CASE Release(x)
  BY <1>7, <1>1, <1>2, QuietStep DEF Release
<1> QED BY <1>4, <1>5, <1>6, <1>7 DEF FinishStep

\* Every other step of the admission and of the execution leaves the flags alone.
LEMMA StarterKeeps ==
  ASSUME HandshakeInvariant, StartStep
  PROVE  HandshakeInvariant'
<1> USE HandshakeAssumption DEF Procs, StarterPcs, Goto, End
<1>1. CASE Register
  BY <1>1, QuietStep DEF Register
<1>2. CASE Reserve
  BY <1>2, QuietStep DEF Reserve
<1>3. CASE ReserveFails
  BY <1>3, QuietStep DEF ReserveFails
<1>4. CASE Reconcile
  <2>1. CASE LiveActive
    BY <1>4, <2>1, TakingStep DEF Reconcile
  <2>2. CASE ~LiveActive
    BY <1>4, <2>2, QuietStep DEF Reconcile
  <2> QED BY <2>1, <2>2
<1>5. CASE ReconcileFails
  BY <1>5, QuietStep DEF ReconcileFails
<1>6. CASE EstablishClaimForAbort
  BY <1>6, EstablishStep
<1>7. CASE Confirm
  BY <1>7, QuietStep DEF Confirm
<1>8. CASE ConfirmFails
  BY <1>8, QuietStep DEF ConfirmFails, SharedPcs
<1>9. CASE Build
  BY <1>9, QuietStep DEF Build
<1>10. CASE BuildFails
  BY <1>10, QuietStep DEF BuildFails, SharedPcs
<1>11. CASE Promote
  BY <1>11, QuietStep DEF Promote, SharedPcs
<1>12. CASE CompleteAdmissionForAbort
  BY <1>12, CompleteStep
<1>13. CASE Abandon
  BY <1>13, QuietStep DEF Abandon
<1>14. CASE ExecutionEnds
  BY <1>14, QuietStep DEF ExecutionEnds
<1>15. CASE Resolve
  BY <1>15, QuietStep DEF Resolve, SharedPcs
<1>16. CASE LookForAbort \/ RemoveControl
  BY <1>16, QuietStep DEF LookForAbort, RemoveControl
<1>17. CASE PromoteFails
  BY <1>17, QuietStep DEF PromoteFails, SharedPcs
<1>18. CASE FinishStep(Starter)
  BY <1>18, FinishKeeps
<1> QED
  BY <1>1, <1>2, <1>3, <1>4, <1>5, <1>6, <1>7, <1>8, <1>9, <1>10, <1>11, <1>12, <1>13,
     <1>14, <1>15, <1>16, <1>17, <1>18 DEF StartStep

\* An abort goes on from what requestAbortPhase told it.
LEMMA AborterKeeps ==
  ASSUME HandshakeInvariant, NEW a \in Aborters, EnterAbort(a) \/ AbortStep(a)
  PROVE  HandshakeInvariant'
<1> USE DEF Procs, AborterPcs, StoppedPcs, FinishPcs, FencePcs, Goto
<1>1. CASE EnterAbort(a)
  BY <1>1, EnterAbortStep
<1>2. CASE RequestEarly(a)
  BY <1>2, QuietStep DEF RequestEarly
<1>3. CASE RequestEarlyFails(a)
  BY <1>3, QuietStep DEF RequestEarlyFails
<1>4. CASE ClaimVisibleAndTakeAbort(a)
  BY <1>4, TakingStep DEF ClaimVisibleAndTakeAbort
<1>5. CASE TakeAbortIfClaimed(a)
  <2>1. CASE flags.established
    <3>1. flags' = [flags EXCEPT !.established = TRUE, !.finalizing = TRUE]
      BY <1>5, <2>1 DEF TakeAbortIfClaimed, HandshakeInvariant, FlagsTypeOK
    <3> QED BY <1>5, <2>1, <3>1, TakingStep DEF TakeAbortIfClaimed
  <2>2. CASE ~flags.established
    BY <1>5, <2>2, QuietStep DEF TakeAbortIfClaimed
  <2> QED BY <2>1, <2>2
<1>6. CASE Halt(a)
  BY <1>6, QuietStep DEF Halt
<1>7. CASE HaltFails(a)
  BY <1>7, QuietStep DEF HaltFails
<1>8. CASE FinishStep(a)
  BY <1>8, FinishKeeps
<1> QED
  BY <1>1, <1>2, <1>3, <1>4, <1>5, <1>6, <1>7, <1>8 DEF AbortStep

\* The invariant is kept by every step.
LEMMA HandshakeStep ==
  HandshakeInvariant /\ [HandshakeNext]_handshakeVars => HandshakeInvariant'
<1> SUFFICES ASSUME HandshakeInvariant, [HandshakeNext]_handshakeVars
             PROVE  HandshakeInvariant'
  OBVIOUS
<1>1. CASE StartStep
  BY <1>1, StarterKeeps
<1>2. ASSUME NEW a \in Aborters, EnterAbort(a) \/ AbortStep(a)
      PROVE  HandshakeInvariant'
  BY <1>2, AborterKeeps
<1>3. CASE UNCHANGED <<pc, flags, takers>>
  BY <1>3 DEF HandshakeInvariant, FlagsTypeOK, FlagFollowsTaker, OneFinalizer, RequestOnRecord,
              FinishesWhatItTook, AckedNeverStarts
<1> QED
  BY <1>1, <1>2, <1>3 DEF HandshakeNext, LeaseExpires, handshakeVars
-----------------------------------------------------------------------------
\* The inductive invariant holds whatever calls fail and however aborts arrive.
THEOREM HandshakeIsInvariant == HandshakeSpec => []HandshakeInvariant
  BY InitEstablishes, HandshakeStep, PTL DEF HandshakeSpec

\* abortStateMu: at most one process is ever made the finalizer of a run.
THEOREM FinalizerIsUnique == HandshakeSpec => []OneFinalizer
<1>1. HandshakeInvariant => OneFinalizer
  BY DEF HandshakeInvariant
<1> QED BY <1>1, HandshakeIsInvariant, PTL

\* completeAdmissionForAbort: an abort acknowledged during the admission is final.
THEOREM AcknowledgedAbortIsFinal == HandshakeSpec => []AckedNeverStarts
<1>1. HandshakeInvariant => AckedNeverStarts
  BY DEF HandshakeInvariant
<1> QED BY <1>1, HandshakeIsInvariant, PTL
=============================================================================
