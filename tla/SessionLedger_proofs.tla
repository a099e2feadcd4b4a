------------------------ MODULE SessionLedger_proofs ------------------------
(***************************************************************************)
(* Proofs about the durable run ledger, for any number of runs, sessions,  *)
(* owners, generations, tokens and positions.                              *)
(*                                                                         *)
(* Two kinds of steps write rows: an admission fills in an absent row, and *)
(* every other statement rewrites one active row without touching its      *)
(* session, invocation or position, under its own token or a token drawn   *)
(* for it.  RewritePreserves is that second kind, once for all statements. *)
(*                                                                         *)
(* The second half is about LedgerAdmission, for any number of callers and *)
(* inputs: every step of every caller is an Admit, a SkipPosition, or a    *)
(* stutter of SessionLedger, so what the first half proves holds of it,    *)
(* too.  A caller whose insert found the invocation taken reads it again   *)
(* later; that read cannot miss, because rows keep their session and       *)
(* invocation and never disappear.  And a row keeps the input it was       *)
(* admitted with, so that a replay compares with it for good.              *)
(***************************************************************************)
EXTENDS LedgerAdmission, TLAPS

\* What TypeOK asks of one row.
WellFormed(row) ==
  /\ row \in Row
  /\ row.state = Absent => row = AbsentRow
  /\ row.state # Absent => row.session \in Sessions
  /\ row.state = "accepted" => row.token = 0 /\ row.generation = NoGeneration
  /\ row.state \in {"running", "waiting_decision"} =>
       row.token > 0 /\ row.generation # NoGeneration /\ row.owner # NoOwner

\* One active row is rewritten, in place, by a statement fenced for it.
Rewrites(r, row) ==
  /\ Active(r)
  /\ WellFormed(row)
  /\ row.state # Absent
  /\ row.session = rows[r].session
  /\ row.invocation = rows[r].invocation
  /\ row.position = rows[r].position
  /\ row.token = rows[r].token \/ Drawn(r, row.token)
  /\ row.state = "lost" => ~row.abort
  /\ rows' = [rows EXCEPT ![r] = row]
  /\ UNCHANGED <<nextPosition, tokenSeq, drawn>>

-----------------------------------------------------------------------------
LEMMA RowsWellFormed ==
  ASSUME TypeOK, NEW r \in Runs
  PROVE  WellFormed(rows[r])
BY DEF TypeOK, WellFormed, Exists

LEMMA RewritePreserves ==
  ASSUME LedgerInvariant, NEW r \in Runs, NEW row, Rewrites(r, row)
  PROVE  LedgerInvariant'
<1>1. rows \in [Runs -> Row] /\ row \in Row
  BY DEF LedgerInvariant, TypeOK, Rewrites, WellFormed
<1>2. rows'[r] = row /\ \A q \in Runs : q # r => rows'[q] = rows[q]
  BY <1>1 DEF Rewrites
<1>3. /\ nextPosition' = nextPosition /\ tokenSeq' = tokenSeq /\ drawn' = drawn
      /\ row.session = rows[r].session /\ row.invocation = rows[r].invocation
      /\ row.position = rows[r].position
      /\ row.state # Absent /\ Exists(r)
  BY DEF Rewrites, Active, Exists, ActiveStates, Absent
<1>4. /\ \A q \in Runs : rows'[q].session = rows[q].session
      /\ \A q \in Runs : rows'[q].invocation = rows[q].invocation
      /\ \A q \in Runs : rows'[q].position = rows[q].position
  BY <1>2, <1>3
<1>5. \A q \in Runs : Exists(q)' <=> Exists(q)
  BY <1>2, <1>3 DEF Exists
<1>6. \A q \in Runs : Active(q)' => Active(q)
  BY <1>2 DEF Active, Rewrites
<1>7. \A q \in Runs : rows[q].position \in Int /\ rows[q].token \in Int
  BY <1>1 DEF Row
<1>8. row.token \in Int
  BY <1>1 DEF Row
<1>a. TypeOK'
  <2>1. rows' \in [Runs -> Row]
    BY <1>1 DEF Rewrites
  <2>2. \A q \in Runs : WellFormed(rows'[q])
    BY <1>2, RowsWellFormed DEF LedgerInvariant, Rewrites
  <2> QED
    BY <2>1, <2>2, <1>3 DEF LedgerInvariant, TypeOK, WellFormed, Exists
<1>b. OneRunPerInvocation'
  BY <1>4, <1>5 DEF LedgerInvariant, OneRunPerInvocation
<1>c. PositionsDistinct'
  BY <1>4, <1>5 DEF LedgerInvariant, PositionsDistinct
<1>d. PositionsBelowNext'
  BY <1>3, <1>4, <1>5 DEF LedgerInvariant, PositionsBelowNext
<1>e. ActiveIsNewest'
  BY <1>4, <1>5, <1>6 DEF LedgerInvariant, ActiveIsNewest
<1>f. TokensAreDrawn'
  <2> SUFFICES ASSUME NEW q \in Runs, rows'[q].token > 0
               PROVE  [run |-> q, token |-> rows'[q].token] \in drawn
    BY <1>3 DEF TokensAreDrawn, Drawn
  <2>1. CASE q # r
    BY <2>1, <1>2 DEF LedgerInvariant, TokensAreDrawn, Drawn
  <2>2. CASE q = r
    BY <2>2, <1>2 DEF LedgerInvariant, TokensAreDrawn, Drawn, Rewrites
  <2> QED BY <2>1, <2>2
<1>g. DrawnForRows'
  <2>1. \A d \in drawn : d.run \in Runs
    BY DEF LedgerInvariant, TypeOK
  <2> QED BY <2>1, <1>3, <1>5 DEF LedgerInvariant, DrawnForRows
<1>h. DrawnOnce'
  BY <1>3 DEF LedgerInvariant, DrawnOnce
<1>i. DrawnFollowAdmission'
  <2> SUFFICES ASSUME NEW d \in drawn, NEW q \in Runs, Exists(q),
                      rows[q].session = rows[d.run].session,
                      rows[q].position < rows[d.run].position
               PROVE  rows'[q].token < d.token
    <3>1. \A d \in drawn : d.run \in Runs
      BY DEF LedgerInvariant, TypeOK
    <3> QED BY <3>1, <1>3, <1>4, <1>5 DEF DrawnFollowAdmission
  <2>1. CASE q # r
    BY <2>1, <1>2 DEF LedgerInvariant, DrawnFollowAdmission
  \* The rewritten row is its session's newest: no token follows its admission.
  <2>2. CASE q = r
    <3>1. d.run \in Runs /\ Exists(d.run)
      BY DEF LedgerInvariant, TypeOK, DrawnForRows
    <3>2. d.run # r
      BY <2>2, <1>7
    <3>3. rows[d.run].position < rows[r].position
      BY <2>2, <3>1, <3>2 DEF LedgerInvariant, ActiveIsNewest, Rewrites
    <3> QED BY <2>2, <3>1, <3>3, <1>7
  <2> QED BY <2>1, <2>2
<1>j. AbortSurvivesLoss'
  BY <1>2 DEF LedgerInvariant, AbortSurvivesLoss, Rewrites
<1> QED
  BY <1>a, <1>b, <1>c, <1>d, <1>e, <1>f, <1>g, <1>h, <1>i, <1>j DEF LedgerInvariant

-----------------------------------------------------------------------------
(* The statements, one lemma each                                          *)

LEMMA InitInvariant == Init => LedgerInvariant
<1> SUFFICES ASSUME Init PROVE LedgerInvariant
  OBVIOUS
<1>1. AbsentRow \in Row
  BY LedgerAssumption DEF AbsentRow, Row, Absent
<1>2. \A r \in Runs : rows[r] = AbsentRow /\ ~Exists(r) /\ ~Active(r)
  BY DEF Init, Exists, Active, ActiveStates, AbsentRow, Absent
<1>3. TypeOK
  <2>1. rows \in [Runs -> Row] /\ nextPosition \in [Sessions -> 1..(MaxPosition + 1)]
    BY <1>1, LedgerAssumption DEF Init
  <2>2. \A r \in Runs : rows[r].state = Absent
    BY <1>2 DEF AbsentRow
  <2>3. tokenSeq \in 0..MaxToken /\ drawn \in SUBSET [run : Runs, token : 1..MaxToken]
    BY LedgerAssumption DEF Init
  <2> QED
    BY <2>1, <2>2, <2>3, <1>2 DEF TypeOK, Absent
<1>4. \A r \in Runs : rows[r].token = 0 /\ rows[r].state # "lost"
  BY <1>2 DEF AbsentRow, Absent
<1> QED
  BY <1>2, <1>3, <1>4 DEF Init, LedgerInvariant, OneRunPerInvocation, PositionsDistinct,
     PositionsBelowNext, ActiveIsNewest, TokensAreDrawn, DrawnForRows, DrawnOnce,
     DrawnFollowAdmission, AbortSurvivesLoss

LEMMA AdmitPreserves ==
  ASSUME LedgerInvariant, NEW r \in Runs, NEW s \in Sessions, NEW i \in Invocations,
         Admit(r, s, i)
  PROVE  LedgerInvariant'
<1> DEFINE row == AcceptedRow(s, i, nextPosition[s])
<1>1. /\ rows \in [Runs -> Row]
      /\ nextPosition \in [Sessions -> 1..(MaxPosition + 1)]
      /\ nextPosition[s] \in 1..MaxPosition
  BY LedgerAssumption DEF LedgerInvariant, TypeOK, Admit
<1>2. /\ row = [session |-> s, invocation |-> i, position |-> nextPosition[s],
                state |-> "accepted", owner |-> NoOwner, token |-> 0,
                generation |-> NoGeneration, abort |-> FALSE]
      /\ row \in Row
  BY <1>1, LedgerAssumption DEF AcceptedRow, AbsentRow, Row, ActiveStates
<1>3. /\ rows' = [rows EXCEPT ![r] = row]
      /\ rows'[r] = row /\ \A q \in Runs : q # r => rows'[q] = rows[q]
  BY <1>1 DEF Admit
<1>4. /\ nextPosition'[s] = nextPosition[s] + 1
      /\ \A z \in Sessions : z # s => nextPosition'[z] = nextPosition[z]
      /\ tokenSeq' = tokenSeq /\ drawn' = drawn
  BY <1>1 DEF Admit
<1>5. /\ \A q \in Runs : q # r => (Exists(q)' <=> Exists(q)) /\ (Active(q)' <=> Active(q))
      /\ Exists(r)' /\ Active(r)' /\ ~Exists(r)
  BY <1>2, <1>3 DEF Exists, Active, Admit, Absent, ActiveStates
<1>6. \A q \in Runs : rows[q].position \in Int /\ rows[q].token \in Int
  BY <1>1 DEF Row
\* Everything already in the session is over, and came before.
<1>7. \A q \in Runs : Exists(q) /\ rows[q].session = s =>
        ~Active(q) /\ rows[q].position < nextPosition[s] /\ rows[q].invocation # i
  BY DEF LedgerInvariant, PositionsBelowNext, Admit, ActiveRuns
<1>8. \A d \in drawn : d.run \in Runs /\ d.run # r /\ Exists(d.run)
  BY <1>5 DEF LedgerInvariant, TypeOK, DrawnForRows
<1>9. \A q \in Runs : Exists(q) => rows[q].session \in Sessions
  BY DEF LedgerInvariant, TypeOK
<1>a. TypeOK'
  <2>1. rows' \in [Runs -> Row]
    BY <1>1, <1>2, <1>3
  <2>2. nextPosition' \in [Sessions -> 1..(MaxPosition + 1)]
    BY <1>1, LedgerAssumption DEF Admit
  <2>3. \A q \in Runs : WellFormed(rows'[q])
    BY <1>2, <1>3, RowsWellFormed DEF LedgerInvariant, WellFormed, Absent
  <2> QED
    BY <2>1, <2>2, <2>3, <1>4 DEF LedgerInvariant, TypeOK, WellFormed, Exists
<1>b. OneRunPerInvocation'
  BY <1>2, <1>3, <1>5, <1>7 DEF LedgerInvariant, OneRunPerInvocation
<1>c. PositionsDistinct'
  BY <1>1, <1>2, <1>3, <1>5, <1>6, <1>7 DEF LedgerInvariant, PositionsDistinct
<1>d. PositionsBelowNext'
  <2> SUFFICES ASSUME NEW q \in Runs, Exists(q)'
               PROVE  rows'[q].position < nextPosition'[rows'[q].session]
    BY DEF PositionsBelowNext
  <2>1. CASE q = r
    BY <2>1, <1>1, <1>2, <1>3, <1>4
  <2>2. CASE q # r
    <3>1. Exists(q) /\ rows'[q] = rows[q] /\ rows[q].position < nextPosition[rows[q].session]
      BY <2>2, <1>3, <1>5 DEF LedgerInvariant, PositionsBelowNext
    <3> QED BY <3>1, <1>1, <1>4, <1>6, <1>9
  <2> QED BY <2>1, <2>2
<1>e. ActiveIsNewest'
  <2>1. \A q \in Runs : Active(q) => Exists(q)
    BY DEF Active, Exists, ActiveStates, Absent
  <2> QED
    BY <2>1, <1>2, <1>3, <1>5, <1>7 DEF LedgerInvariant, ActiveIsNewest
<1>f. TokensAreDrawn'
  BY <1>2, <1>3, <1>4 DEF LedgerInvariant, TokensAreDrawn, Drawn
<1>g. DrawnForRows'
  BY <1>4, <1>5, <1>8 DEF LedgerInvariant, DrawnForRows
<1>h. DrawnOnce'
  BY <1>4 DEF LedgerInvariant, DrawnOnce
<1>i. DrawnFollowAdmission'
  <2> SUFFICES ASSUME NEW d \in drawn, NEW q \in Runs, Exists(q)',
                      rows'[q].session = rows[d.run].session,
                      rows'[q].position < rows[d.run].position
               PROVE  rows'[q].token < d.token
    BY <1>3, <1>4, <1>8 DEF DrawnFollowAdmission
  <2>1. CASE q # r
    BY <2>1, <1>3, <1>5 DEF LedgerInvariant, DrawnFollowAdmission
  <2>2. CASE q = r
    BY <2>2, <1>1, <1>2, <1>3, <1>6, <1>7, <1>8
  <2> QED BY <2>1, <2>2
<1>j. AbortSurvivesLoss'
  BY <1>2, <1>3 DEF LedgerInvariant, AbortSurvivesLoss
<1> QED
  BY <1>a, <1>b, <1>c, <1>d, <1>e, <1>f, <1>g, <1>h, <1>i, <1>j DEF LedgerInvariant

LEMMA SkipPreserves ==
  ASSUME LedgerInvariant, NEW s \in Sessions, SkipPosition(s)
  PROVE  LedgerInvariant'
<1>1. /\ nextPosition \in [Sessions -> 1..(MaxPosition + 1)]
      /\ nextPosition[s] \in 1..MaxPosition
      /\ rows' = rows /\ tokenSeq' = tokenSeq /\ drawn' = drawn
  BY LedgerAssumption DEF LedgerInvariant, TypeOK, SkipPosition
<1>2. nextPosition' \in [Sessions -> 1..(MaxPosition + 1)]
  BY <1>1, LedgerAssumption DEF SkipPosition
<1>3. TypeOK'
  BY <1>1, <1>2 DEF LedgerInvariant, TypeOK, Exists
<1>4. PositionsBelowNext'
  <2> SUFFICES ASSUME NEW r \in Runs, Exists(r)
               PROVE  rows[r].position < nextPosition'[rows[r].session]
    BY <1>1 DEF PositionsBelowNext, Exists
  <2>1. /\ rows[r].position < nextPosition[rows[r].session]
        /\ rows[r].session \in Sessions /\ rows[r].position \in Int
    BY DEF LedgerInvariant, PositionsBelowNext, TypeOK, Row
  <2>2. nextPosition[rows[r].session] <= nextPosition'[rows[r].session]
    BY <2>1, <1>1 DEF SkipPosition
  <2> QED BY <2>1, <2>2, <1>1, <1>2
<1> QED
  BY <1>1, <1>3, <1>4 DEF LedgerInvariant, OneRunPerInvocation, PositionsDistinct,
     ActiveIsNewest, TokensAreDrawn, DrawnForRows, DrawnOnce, DrawnFollowAdmission,
     AbortSurvivesLoss, Exists, Active, Drawn

LEMMA TokenPreserves ==
  ASSUME LedgerInvariant, NEW r \in Runs, NextFencingToken(r)
  PROVE  LedgerInvariant'
<1> DEFINE new == [run |-> r, token |-> tokenSeq + 1]
<1>1. /\ rows' = rows /\ nextPosition' = nextPosition
      /\ tokenSeq' = tokenSeq + 1 /\ drawn' = drawn \cup {new}
      /\ Exists(r)
      /\ tokenSeq \in 0..MaxToken /\ tokenSeq < MaxToken
  BY DEF NextFencingToken, LedgerInvariant, TypeOK
<1>2. drawn \in SUBSET [run : Runs, token : 1..MaxToken]
  BY DEF LedgerInvariant, TypeOK
<1>3. \A d \in drawn : d.token <= tokenSeq /\ d.token \in Int
  BY <1>2 DEF LedgerInvariant, DrawnForRows
\* A row's token was drawn before, so the new one exceeds it.
<1>4. \A q \in Runs : rows[q].token < tokenSeq + 1
  <2> SUFFICES ASSUME NEW q \in Runs PROVE rows[q].token < tokenSeq + 1
    OBVIOUS
  <2>1. rows[q].token \in Nat
    BY LedgerAssumption DEF LedgerInvariant, TypeOK, Row
  <2>2. CASE rows[q].token = 0
    BY <2>2, <1>1
  <2>3. CASE rows[q].token > 0
    <3>1. [run |-> q, token |-> rows[q].token] \in drawn
      BY <2>3 DEF LedgerInvariant, TokensAreDrawn, Drawn
    <3> QED BY <3>1, <1>3, <1>1
  <2> QED BY <2>1, <2>2, <2>3
<1>5. TypeOK'
  <2>1. new \in [run : Runs, token : 1..MaxToken]
    BY <1>1, LedgerAssumption
  <2>2. tokenSeq + 1 \in 0..MaxToken
    BY <1>1, LedgerAssumption
  <2> QED BY <2>1, <2>2, <1>1, <1>2 DEF LedgerInvariant, TypeOK, Exists
<1>6. TokensAreDrawn'
  BY <1>1 DEF LedgerInvariant, TokensAreDrawn, Drawn
<1>7. DrawnForRows'
  BY <1>1, <1>2, <1>3 DEF LedgerInvariant, DrawnForRows, Exists
<1>8. DrawnOnce'
  BY <1>1, <1>3 DEF LedgerInvariant, DrawnOnce
<1>9. DrawnFollowAdmission'
  <2> SUFFICES ASSUME NEW d \in drawn', NEW q \in Runs, Exists(q),
                      rows[q].session = rows[d.run].session,
                      rows[q].position < rows[d.run].position
               PROVE  rows[q].token < d.token
    BY <1>1 DEF DrawnFollowAdmission, Exists
  <2>1. CASE d \in drawn
    BY <2>1 DEF LedgerInvariant, DrawnFollowAdmission
  <2>2. CASE d = new
    BY <2>2, <1>4
  <2> QED BY <2>1, <2>2, <1>1
<1> QED
  BY <1>1, <1>5, <1>6, <1>7, <1>8, <1>9 DEF LedgerInvariant, OneRunPerInvocation,
     PositionsDistinct, PositionsBelowNext, ActiveIsNewest, AbortSurvivesLoss,
     Exists, Active

LEMMA OwnedRow ==
  ASSUME NEW old \in Row, NEW st \in ActiveStates, NEW o \in Owners,
         NEW t \in 1..MaxToken, NEW g \in Generations
  PROVE  [old EXCEPT !.state = st, !.owner = o, !.token = t, !.generation = g] \in Row
<1> DEFINE r0 == [old EXCEPT !.state = st]
           r1 == [r0 EXCEPT !.owner = o]
           r2 == [r1 EXCEPT !.token = t]
           r3 == [r2 EXCEPT !.generation = g]
<1>1. r0 \in Row
  BY DEF Row
<1> HIDE DEF r0
<1>2. r1 \in Row
  BY <1>1 DEF Row
<1> HIDE DEF r1
<1>3. t \in 0..MaxToken
  BY LedgerAssumption
<1>4. r2 \in Row
  BY <1>2, <1>3 DEF Row
<1> HIDE DEF r2
<1>5. r3 \in Row
  BY <1>4 DEF Row
<1> QED BY <1>5 DEF r0, r1, r2, r3

LEMMA ClaimPreserves ==
  ASSUME LedgerInvariant, NEW r \in Runs, NEW o \in Owners, NEW t \in 1..MaxToken,
         NEW g \in Generations, Claim(r, o, t, g)
  PROVE  LedgerInvariant'
<1> DEFINE row == [rows[r] EXCEPT !.state = "running", !.owner = o, !.token = t,
                                  !.generation = g]
<1>1. rows[r] \in Row /\ WellFormed(rows[r]) /\ rows[r].state = "accepted"
  BY RowsWellFormed DEF LedgerInvariant, TypeOK, Claim, ClaimApplies
<1>2. /\ row.session = rows[r].session /\ row.invocation = rows[r].invocation
      /\ row.position = rows[r].position /\ row.abort = rows[r].abort
      /\ row.state = "running" /\ row.owner = o /\ row.token = t /\ row.generation = g
  BY <1>1 DEF Row
<1>3. WellFormed(row)
  <2>1. row \in Row
    BY <1>1, OwnedRow DEF ActiveStates
  <2> QED
    BY <2>1, <1>1, <1>2, LedgerAssumption DEF WellFormed, Absent
<1>4. Rewrites(r, row)
  BY <1>1, <1>2, <1>3 DEF Claim, Rewrites, Active, ActiveStates, Absent
<1> QED BY <1>4, RewritePreserves

LEMMA ReclaimPreserves ==
  ASSUME LedgerInvariant, NEW r \in Runs, NEW o \in Owners, NEW prev \in 0..MaxToken,
         NEW t \in 1..MaxToken, NEW g \in Generations,
         ReclaimWaitingDecision(r, o, prev, t, g)
  PROVE  LedgerInvariant'
<1> DEFINE row == [rows[r] EXCEPT !.owner = o, !.token = t, !.generation = g]
<1>1. rows[r] \in Row /\ WellFormed(rows[r]) /\ rows[r].state = "waiting_decision"
  BY RowsWellFormed DEF LedgerInvariant, TypeOK, ReclaimWaitingDecision, ReclaimApplies
<1>2. /\ row.session = rows[r].session /\ row.invocation = rows[r].invocation
      /\ row.position = rows[r].position /\ row.abort = rows[r].abort
      /\ row.state = rows[r].state /\ row.owner = o /\ row.token = t
      /\ row.generation = g
  BY <1>1 DEF Row
<1>3. WellFormed(row)
  <2>1. row = [rows[r] EXCEPT !.state = rows[r].state, !.owner = o, !.token = t,
                              !.generation = g]
    BY <1>1 DEF Row
  <2>2. row \in Row
    BY <2>1, <1>1, OwnedRow DEF ActiveStates
  <2> QED
    BY <2>2, <1>1, <1>2, LedgerAssumption DEF WellFormed, Absent
<1>4. Rewrites(r, row)
  BY <1>1, <1>2, <1>3 DEF ReclaimWaitingDecision, Rewrites, Active, ActiveStates, Absent
<1> QED BY <1>4, RewritePreserves

LEMMA WaitPreserves ==
  ASSUME LedgerInvariant, NEW r \in Runs, NEW t \in 0..MaxToken, SetWaitingDecision(r, t)
  PROVE  LedgerInvariant'
<1> DEFINE row == [rows[r] EXCEPT !.state = "waiting_decision"]
<1>1. Rewrites(r, row)
  BY RowsWellFormed
     DEF LedgerInvariant, SetWaitingDecision, FencedLive, Rewrites, WellFormed, Row,
         Active, ActiveStates, TerminalStates, Absent
<1> QED BY <1>1, RewritePreserves

LEMMA ResumePreserves ==
  ASSUME LedgerInvariant, NEW r \in Runs, NEW t \in 0..MaxToken, Resume(r, t)
  PROVE  LedgerInvariant'
<1> DEFINE row == [rows[r] EXCEPT !.state = "running"]
<1>1. Rewrites(r, row)
  BY RowsWellFormed
     DEF LedgerInvariant, Resume, FencedLive, Rewrites, WellFormed, Row,
         Active, ActiveStates, TerminalStates, Absent
<1> QED BY <1>1, RewritePreserves

LEMMA FinalizePreserves ==
  ASSUME LedgerInvariant, NEW r \in Runs, NEW t \in 0..MaxToken,
         NEW st \in TerminalStates, Finalize(r, t, st)
  PROVE  LedgerInvariant'
<1> DEFINE row == [rows[r] EXCEPT !.state = TerminalState(r, st)]
<1>1. TerminalState(r, st) \in TerminalStates /\ (TerminalState(r, st) = "lost" => ~rows[r].abort)
  BY DEF TerminalState, TerminalStates
<1>2. Rewrites(r, row)
  BY <1>1, RowsWellFormed
     DEF LedgerInvariant, Finalize, FinalizeApplies, Rewrites, WellFormed, Row,
         Active, ActiveStates, TerminalStates, Absent
<1> QED BY <1>2, RewritePreserves

LEMMA RequestAbortPreserves ==
  ASSUME LedgerInvariant, NEW r \in Runs, RequestAbort(r)
  PROVE  LedgerInvariant'
<1> DEFINE row == [rows[r] EXCEPT !.abort = TRUE]
<1>1. Rewrites(r, row)
  BY RowsWellFormed
     DEF LedgerInvariant, RequestAbort, Rewrites, WellFormed, Row,
         Active, ActiveStates, TerminalStates, Absent
<1> QED BY <1>1, RewritePreserves

LEMMA NextPreserves == LedgerInvariant /\ [Next]_ledgerVars => LedgerInvariant'
<1> SUFFICES ASSUME LedgerInvariant, [Next]_ledgerVars PROVE LedgerInvariant'
  OBVIOUS
<1>1. CASE AdmitStep
  BY <1>1, AdmitPreserves DEF AdmitStep
<1>2. CASE SkipStep
  BY <1>2, SkipPreserves DEF SkipStep
<1>3. CASE TokenStep
  BY <1>3, TokenPreserves DEF TokenStep
<1>4. CASE ClaimStep
  BY <1>4, ClaimPreserves DEF ClaimStep
<1>5. CASE WaitStep
  BY <1>5, WaitPreserves DEF WaitStep
<1>6. CASE ResumeStep
  BY <1>6, ResumePreserves DEF ResumeStep
<1>7. CASE ReclaimStep
  BY <1>7, ReclaimPreserves DEF ReclaimStep
<1>8. CASE FinalizeStep
  BY <1>8, FinalizePreserves DEF FinalizeStep
<1>9. CASE AbortStep
  BY <1>9, RequestAbortPreserves DEF AbortStep
<1>10. CASE UNCHANGED ledgerVars
  BY <1>10 DEF ledgerVars, LedgerInvariant, TypeOK, OneRunPerInvocation,
     PositionsDistinct, PositionsBelowNext, ActiveIsNewest, TokensAreDrawn,
     DrawnForRows, DrawnOnce, DrawnFollowAdmission, AbortSurvivesLoss, Exists,
     Active, Drawn
<1> QED
  BY <1>1, <1>2, <1>3, <1>4, <1>5, <1>6, <1>7, <1>8, <1>9, <1>10 DEF Next

-----------------------------------------------------------------------------
(* What the ledger promises                                                *)

(* The inductive invariant holds in every reachable state of the ledger.   *)
THEOREM LedgerIsInvariant == Spec => []LedgerInvariant
BY InitInvariant, NextPreserves, PTL DEF Spec

(* Every column of session_runs stays in its domain, and ownership columns *)
(* move with the state.                                                    *)
THEOREM TypeCorrect == Spec => []TypeOK
<1>1. LedgerInvariant => TypeOK
  BY DEF LedgerInvariant
<1> QED BY <1>1, LedgerIsInvariant, PTL

(* A session has at most one run in progress: an active row is newer than  *)
(* every other row of its session, so two of them would each be newer.     *)
THEOREM AtMostOneActive == Spec => []SingleActive
<1>1. LedgerInvariant => SingleActive
  <2> SUFFICES ASSUME LedgerInvariant, NEW q \in Runs, NEW r \in Runs,
                      Active(q), Active(r), rows[q].session = rows[r].session, q # r
               PROVE  FALSE
    BY DEF SingleActive
  <2>1. Exists(q) /\ Exists(r)
    BY DEF Active, Exists, ActiveStates, Absent
  <2>2. rows[q].position < rows[r].position /\ rows[r].position < rows[q].position
    BY <2>1 DEF LedgerInvariant, ActiveIsNewest
  <2>3. rows[q].position \in Int /\ rows[r].position \in Int
    BY DEF LedgerInvariant, TypeOK, Row
  <2> QED BY <2>2, <2>3
<1> QED BY <1>1, LedgerIsInvariant, PTL

(* One invocation of a session is one run, and one turn position is one    *)
(* run, for any number of admissions.                                      *)
THEOREM AdmissionIsUnique == Spec => [](OneRunPerInvocation /\ PositionsDistinct)
<1>1. LedgerInvariant => OneRunPerInvocation /\ PositionsDistinct
  BY DEF LedgerInvariant
<1> QED BY <1>1, LedgerIsInvariant, PTL

(* A run admitted later is fenced with a larger token than every run of    *)
(* its session before it.                                                  *)
THEOREM TokensOrderRuns == Spec => []TokensFollowAdmission
<1>1. LedgerInvariant => TokensFollowAdmission
  <2> SUFFICES ASSUME LedgerInvariant, NEW q \in Runs, NEW r \in Runs,
                      Exists(q), rows[q].session = rows[r].session,
                      rows[q].position < rows[r].position, rows[r].token > 0
               PROVE  rows[q].token < rows[r].token
    BY DEF TokensFollowAdmission
  <2> DEFINE d == [run |-> r, token |-> rows[r].token]
  <2>1. d \in drawn /\ d.run = r /\ d.token = rows[r].token
    BY DEF LedgerInvariant, TokensAreDrawn, Drawn
  <2> QED BY <2>1 DEF LedgerInvariant, DrawnFollowAdmission
<1> QED BY <1>1, LedgerIsInvariant, PTL

(* A fencing token never fences two runs.                                  *)
THEOREM TokensFenceOneRun == Spec => []TokensDistinct
<1>1. LedgerInvariant => TokensDistinct
  <2> SUFFICES ASSUME LedgerInvariant, NEW q \in Runs, NEW r \in Runs,
                      rows[q].token > 0, rows[q].token = rows[r].token
               PROVE  q = r
    BY DEF TokensDistinct
  <2>1. /\ [run |-> q, token |-> rows[q].token] \in drawn
        /\ [run |-> r, token |-> rows[r].token] \in drawn
    BY DEF LedgerInvariant, TokensAreDrawn, Drawn
  <2> QED BY <2>1 DEF LedgerInvariant, DrawnOnce
<1> QED BY <1>1, LedgerIsInvariant, PTL

(* A run whose abort was recorded while it was active is never lost.       *)
THEOREM AbortIsKept == Spec => []AbortSurvivesLoss
<1>1. LedgerInvariant => AbortSurvivesLoss
  BY DEF LedgerInvariant
<1> QED BY <1>1, LedgerIsInvariant, PTL

-----------------------------------------------------------------------------
(* A step that changes a row finds it absent or active, and moves its      *)
(* ownership forward or not at all.                                        *)
LEMMA RowsMoveForward ==
  ASSUME LedgerInvariant, Next, NEW r \in Runs, rows'[r] # rows[r]
  PROVE  /\ ~Terminal(r)
         /\ \/ /\ rows'[r].owner = rows[r].owner
               /\ rows'[r].generation = rows[r].generation
               /\ rows'[r].token = rows[r].token
            \/ rows'[r].token > rows[r].token
<1>1. rows \in [Runs -> Row]
  BY DEF LedgerInvariant, TypeOK
<1>2. CASE AdmitStep
  <2>1. PICK s \in Sessions, i \in Invocations :
          rows[r].state = Absent /\ rows'[r] = AcceptedRow(s, i, nextPosition[s])
    BY <1>1, <1>2 DEF AdmitStep, Admit
  <2>2. rows[r] = AbsentRow
    BY <2>1 DEF LedgerInvariant, TypeOK
  <2> QED
    BY <2>1, <2>2 DEF AcceptedRow, AbsentRow, Terminal, TerminalStates, Absent
<1>3. CASE SkipStep \/ TokenStep
  BY <1>3 DEF SkipStep, SkipPosition, TokenStep, NextFencingToken
<1>4. CASE ClaimStep
  <2>0. PICK q \in Runs, o \in Owners, t \in 1..MaxToken, g \in Generations :
          Claim(q, o, t, g)
    BY <1>4 DEF ClaimStep
  <2>q. q = r
    BY <1>1, <2>0 DEF Claim
  <2>1. Claim(r, o, t, g)
    BY <2>0, <2>q
  <2> DEFINE row == [rows[r] EXCEPT !.state = "running", !.owner = o, !.token = t,
                                    !.generation = g]
  <2>a. row.token = t
    BY <1>1 DEF Row
  <2>b. rows'[r] = row
    BY <1>1, <2>1 DEF Claim
  <2> HIDE DEF row
  <2>2. rows'[r].token = t /\ rows[r].token < t /\ rows[r].state = "accepted"
    BY <2>1, <2>a, <2>b DEF Claim, ClaimApplies
  <2> QED BY <2>2, <1>1, LedgerAssumption DEF Terminal, TerminalStates, Row
<1>5. CASE ReclaimStep
  <2>0. PICK q \in Runs, o \in Owners, prev \in 0..MaxToken, t \in 1..MaxToken,
             g \in Generations :
          ReclaimWaitingDecision(q, o, prev, t, g)
    BY <1>5 DEF ReclaimStep
  <2>q. q = r
    BY <1>1, <2>0 DEF ReclaimWaitingDecision
  <2>1. ReclaimWaitingDecision(r, o, prev, t, g)
    BY <2>0, <2>q
  <2> DEFINE row == [rows[r] EXCEPT !.owner = o, !.token = t, !.generation = g]
  <2>a. row.token = t
    BY <1>1 DEF Row
  <2>b. rows'[r] = row
    BY <1>1, <2>1 DEF ReclaimWaitingDecision
  <2> HIDE DEF row
  <2>2. rows'[r].token = t /\ rows[r].token < t /\ rows[r].state = "waiting_decision"
    BY <2>1, <2>a, <2>b DEF ReclaimWaitingDecision, ReclaimApplies
  <2> QED BY <2>2, <1>1, LedgerAssumption DEF Terminal, TerminalStates, Row
<1>6. CASE WaitStep \/ ResumeStep
  BY <1>1, <1>6 DEF WaitStep, SetWaitingDecision, ResumeStep, Resume, FencedLive, Terminal,
     TerminalStates, Row
<1>7. CASE FinalizeStep
  BY <1>1, <1>7 DEF FinalizeStep, Finalize, FinalizeApplies, Active, ActiveStates, Terminal,
     TerminalStates, Row
<1>8. CASE AbortStep
  BY <1>1, <1>8 DEF AbortStep, RequestAbort, Active, ActiveStates, Terminal,
     TerminalStates, Row
<1> QED
  BY <1>2, <1>3, <1>4, <1>5, <1>6, <1>7, <1>8 DEF Next

(* A terminal row is never written again, whoever writes.                  *)
THEOREM TerminalStays == Spec => TerminalIsFinal
<1>1. LedgerInvariant /\ [Next]_ledgerVars
        => [\A r \in Runs : Terminal(r) => rows'[r] = rows[r]]_ledgerVars
  BY RowsMoveForward
<1> QED BY <1>1, LedgerIsInvariant, PTL DEF Spec, TerminalIsFinal

(* Owner, generation and token of a row change only under a larger token.  *)
THEOREM OwnershipIsFenced == Spec => OwnershipMovesForward
<1> DEFINE Moves == \A r \in Runs :
             (\/ rows'[r].owner # rows[r].owner
              \/ rows'[r].generation # rows[r].generation
              \/ rows'[r].token # rows[r].token)
               => rows'[r].token > rows[r].token
<1>1. LedgerInvariant /\ [Next]_ledgerVars => [Moves]_ledgerVars
  BY RowsMoveForward
<1> QED BY <1>1, LedgerIsInvariant, PTL DEF Spec, OwnershipMovesForward

-----------------------------------------------------------------------------
(* Durable admission                                                       *)

\* A call in progress names what it submits.
CallersTyped ==
  /\ caller \in [Callers -> Caller]
  /\ \A c \in Callers : caller[c].pc # "idle" =>
       caller[c].session \in Sessions /\ caller[c].invocation \in Invocations

\* No call is in progress at first.
LEMMA CallersTypedInit == AdmissionInit => CallersTyped
BY DEF AdmissionInit, CallersTyped, Caller, Unused

\* Advancing a call that is in progress keeps what it submits.
LEMMA AdvanceTyped ==
  ASSUME CallersTyped, NEW c \in Callers, caller[c].pc # "idle",
         NEW pc \in {"peek", "begin", "write", "reselect", "admitted", "replayed",
                     "conflict", "not_found"},
         Advance(c, pc)
  PROVE  CallersTyped'
<1>1. caller' = [caller EXCEPT ![c].pc = pc] /\ caller \in [Callers -> Caller]
  BY DEF CallersTyped, Advance
<1>2. caller' \in [Callers -> Caller]
  BY <1>1 DEF Caller
<1>3. \A b \in Callers : /\ caller'[b].session = caller[b].session
                         /\ caller'[b].invocation = caller[b].invocation
                         /\ b # c => caller'[b].pc = caller[b].pc
  BY <1>1 DEF Caller
<1> QED BY <1>2, <1>3 DEF CallersTyped

\* A call that is told to come back leaves nothing behind.
LEMMA BusyTyped ==
  ASSUME CallersTyped, NEW c \in Callers, caller' = [caller EXCEPT ![c] = Unused]
  PROVE  CallersTyped'
<1>1. caller' \in [Callers -> Caller]
  BY DEF CallersTyped, Caller, Unused
<1>2. Unused.pc = "idle"
  BY DEF Unused
<1> QED BY <1>1, <1>2 DEF CallersTyped

\* No step makes a call forget what it submits.
LEMMA CallersStayTyped ==
  ASSUME CallersTyped, [AdmissionNext]_admissionVars
  PROVE  CallersTyped'
<1>1. ASSUME NEW c \in Callers, NEW s \in Sessions, NEW i \in Invocations,
             NEW f \in Payloads, Submit(c, s, i, f)
      PROVE  CallersTyped'
  <2> DEFINE new == [pc |-> "peek", session |-> s, invocation |-> i, payload |-> f]
  <2>1. new \in Caller /\ new.session = s /\ new.invocation = i
    BY DEF Caller
  <2>2. caller' = [caller EXCEPT ![c] = new]
    BY <1>1 DEF Submit
  <2> HIDE DEF new
  <2> QED BY <2>1, <2>2 DEF CallersTyped
<1>2. ASSUME NEW c \in Callers, Peek(c)
      PROVE  CallersTyped'
  BY <1>2, AdvanceTyped, BusyTyped DEF Peek, Answer, Busy
<1>3. ASSUME NEW c \in Callers, BeginStatement(c)
      PROVE  CallersTyped'
  BY <1>3, AdvanceTyped DEF BeginStatement
<1>4. ASSUME NEW c \in Callers, WriteStatement(c)
      PROVE  CallersTyped'
  <2>1. CASE InsertNothing(c)
    BY <1>4, <2>1, AdvanceTyped DEF InsertNothing, WriteStatement
  <2>2. CASE RollBack(c)
    BY <2>2, BusyTyped DEF RollBack, Busy
  <2>3. CASE Insert(c)
    BY <1>4, <2>3, AdvanceTyped DEF Insert, WriteStatement
  <2> QED BY <1>4, <2>1, <2>2, <2>3 DEF WriteStatement
<1>5. ASSUME NEW c \in Callers, Reselect(c)
      PROVE  CallersTyped'
  BY <1>5, AdvanceTyped DEF Reselect, Answer
<1>6. CASE (\E s \in Sessions : DeleteSession(s)) \/ RuntimeStep \/ UNCHANGED admissionVars
  BY <1>6 DEF DeleteSession, RuntimeStep, admissionVars, CallersTyped
<1> QED
  BY <1>1, <1>2, <1>3, <1>4, <1>5, <1>6 DEF AdmissionNext

-----------------------------------------------------------------------------
\* One step of the callers is one step of the contract, or none.
LEMMA StepsRefine ==
  ASSUME CallersTyped, [AdmissionNext]_admissionVars
  PROVE  [Next]_ledgerVars
<1>1. ASSUME NEW c \in Callers, WriteStatement(c)
      PROVE  [Next]_ledgerVars
  <2>1. caller[c].session \in Sessions /\ caller[c].invocation \in Invocations
    BY <1>1 DEF WriteStatement, CallersTyped
  <2>2. CASE InsertNothing(c)
    BY <2>1, <2>2 DEF InsertNothing, SkipStep, Next
  <2>3. CASE RollBack(c)
    BY <2>3 DEF RollBack, Busy
  <2>4. CASE Insert(c)
    BY <2>1, <2>4 DEF Insert, AdmitStep, Next
  <2> QED BY <1>1, <2>2, <2>3, <2>4 DEF WriteStatement
<1>2. CASE \E c \in Callers, s \in Sessions, i \in Invocations, f \in Payloads :
             Submit(c, s, i, f)
  BY <1>2 DEF Submit
<1>3. CASE \E c \in Callers : Peek(c) \/ BeginStatement(c) \/ Reselect(c)
  BY <1>3 DEF Peek, Busy, BeginStatement, Reselect
<1>4. CASE (\E s \in Sessions : DeleteSession(s)) \/ UNCHANGED admissionVars
  BY <1>4 DEF DeleteSession, admissionVars, ledgerVars
<1>5. CASE RuntimeStep
  BY <1>5 DEF RuntimeStep, Next
<1> QED
  BY <1>1, <1>2, <1>3, <1>4, <1>5 DEF AdmissionNext

(* Several concurrent callers, their unlocked reads, stale snapshots and   *)
(* unique-index conflicts included, implement the atomic admission of the  *)
(* ledger contract.                                                        *)
THEOREM AdmissionRefinesLedger == AdmissionSpec => AdmissionContract
<1>1. AdmissionInit => Init
  BY DEF AdmissionInit
<1>2. CallersTyped /\ [AdmissionNext]_admissionVars => CallersTyped'
  BY CallersStayTyped
<1>3. CallersTyped /\ [AdmissionNext]_admissionVars => [Next]_ledgerVars
  BY StepsRefine
<1> QED
  BY <1>1, <1>2, <1>3, CallersTypedInit, PTL DEF AdmissionSpec, AdmissionContract, Spec

(* So concurrent admission never leaves two active runs in a session, or   *)
(* two runs for one invocation, for any number of callers.                 *)
THEOREM AdmissionKeepsOneRun ==
  AdmissionSpec => [](SingleActive /\ OneRunPerInvocation)
BY AdmissionRefinesLedger, AtMostOneActive, AdmissionIsUnique, PTL DEF AdmissionContract

-----------------------------------------------------------------------------
\* No statement rewrites the session or the invocation of a row that exists.
LEMMA RowsKeepIdentity ==
  ASSUME LedgerInvariant, [Next]_ledgerVars, NEW r \in Runs, Exists(r)
  PROVE  /\ rows'[r].session = rows[r].session
         /\ rows'[r].invocation = rows[r].invocation
         /\ Exists(r)'
<1> DEFINE Kept == /\ rows'[r].session = rows[r].session
                   /\ rows'[r].invocation = rows[r].invocation
                   /\ Exists(r)'
<1>1. rows \in [Runs -> Row]
  BY DEF LedgerInvariant, TypeOK
<1>2. CASE UNCHANGED rows
  BY <1>2 DEF Exists
<1>3. CASE AdmitStep
  BY <1>1, <1>3 DEF AdmitStep, Admit, Exists
<1>4. ASSUME NEW q \in Runs, NEW row,
             rows' = [rows EXCEPT ![q] = row], row.session = rows[q].session,
             row.invocation = rows[q].invocation, row.state # Absent
      PROVE  Kept
  BY <1>1, <1>4 DEF Exists
<1>5. CASE ClaimStep
  <2>1. PICK q \in Runs, o \in Owners, t \in 1..MaxToken, g \in Generations :
          Claim(q, o, t, g)
    BY <1>5 DEF ClaimStep
  <2> DEFINE row == [rows[q] EXCEPT !.state = "running", !.owner = o, !.token = t,
                                    !.generation = g]
  <2>2. row.session = rows[q].session /\ row.invocation = rows[q].invocation
    BY <1>1 DEF Row
  <2>3. row.state # Absent
    BY <1>1 DEF Row, Absent
  <2>4. rows' = [rows EXCEPT ![q] = row]
    BY <1>1, <2>1 DEF Claim
  <2> HIDE DEF row
  <2> QED BY <1>4, <2>2, <2>3, <2>4
<1>6. CASE ReclaimStep
  <2>1. PICK q \in Runs, o \in Owners, prev \in 0..MaxToken, t \in 1..MaxToken,
             g \in Generations : ReclaimWaitingDecision(q, o, prev, t, g)
    BY <1>6 DEF ReclaimStep
  <2> DEFINE row == [rows[q] EXCEPT !.owner = o, !.token = t, !.generation = g]
  <2>2. row.session = rows[q].session /\ row.invocation = rows[q].invocation
    BY <1>1 DEF Row
  <2>3. row.state # Absent
    BY <1>1, <2>1 DEF Row, Absent, ReclaimWaitingDecision, ReclaimApplies
  <2>4. rows' = [rows EXCEPT ![q] = row]
    BY <1>1, <2>1 DEF ReclaimWaitingDecision
  <2> HIDE DEF row
  <2> QED BY <1>4, <2>2, <2>3, <2>4
<1>7. CASE WaitStep \/ ResumeStep \/ FinalizeStep \/ AbortStep
  <2>1. ASSUME NEW q \in Runs, NEW st, rows' = [rows EXCEPT ![q].state = st], st # Absent
        PROVE  Kept
    <3>1. [rows[q] EXCEPT !.state = st].state = st
      BY <1>1 DEF Row
    <3> QED BY <1>1, <2>1, <3>1 DEF Row, Exists
  <2>2. CASE WaitStep \/ ResumeStep
    BY <2>1, <2>2 DEF WaitStep, ResumeStep, SetWaitingDecision, Resume, Absent
  <2>3. CASE FinalizeStep
    BY <2>1, <2>3 DEF FinalizeStep, Finalize, TerminalState, TerminalStates, Absent
  <2>4. CASE AbortStep
    BY <1>1, <2>4 DEF AbortStep, RequestAbort, Row, Exists
  <2> QED BY <1>7, <2>2, <2>3, <2>4
<1> QED
  BY <1>2, <1>3, <1>5, <1>6, <1>7 DEF Next, ledgerVars, SkipStep, SkipPosition, TokenStep,
     NextFencingToken

\* A caller about to read its invocation has a row to find, or no session.
LookupSafe(c) ==
  /\ caller[c].pc = "reselect" =>
       \/ ByInvocation(caller[c].session, caller[c].invocation) # {}
       \/ caller[c].session \in deleted
  /\ caller[c].pc = "not_found" => caller[c].session \in deleted

LookupInvariant == CallersTyped /\ \A c \in Callers : LookupSafe(c)

\* Between finding the invocation taken and reading it, the row stays.
LEMMA LookupPreserved ==
  ASSUME LedgerInvariant, LookupInvariant, [AdmissionNext]_admissionVars
  PROVE  LookupInvariant'
<1>1. CallersTyped'
  BY CallersStayTyped DEF LookupInvariant
<1>2. \A s, i : ByInvocation(s, i) # {} /\ s \in Sessions => ByInvocation(s, i)' # {}
  <2> SUFFICES ASSUME NEW s \in Sessions, NEW i, NEW r \in Runs,
                      rows[r].session = s, rows[r].invocation = i
               PROVE  ByInvocation(s, i)' # {}
    BY DEF ByInvocation
  <2>1. Exists(r)
    BY LedgerAssumption DEF LedgerInvariant, TypeOK, Exists, AbsentRow
  <2>2. [Next]_ledgerVars
    BY StepsRefine DEF LookupInvariant
  <2> QED BY <2>1, <2>2, RowsKeepIdentity DEF ByInvocation
<1>3. deleted \subseteq deleted'
  BY DEF AdmissionNext, Submit, Peek, BeginStatement, WriteStatement, Reselect,
     DeleteSession, RuntimeStep, admissionVars
<1>4. ASSUME NEW c \in Callers, caller'[c] = caller[c]
      PROVE  LookupSafe(c)'
  BY <1>2, <1>3, <1>4 DEF LookupInvariant, LookupSafe, CallersTyped
\* So it is enough to look at the call that moved.
<1>5. ASSUME NEW c \in Callers,
             \A b \in Callers : b # c => caller'[b] = caller[b], LookupSafe(c)'
      PROVE  LookupInvariant'
  BY <1>1, <1>4, <1>5 DEF LookupInvariant
<1>6. ASSUME NEW c \in Callers, NEW pc, Advance(c, pc)
      PROVE  /\ \A b \in Callers : b # c => caller'[b] = caller[b]
             /\ caller'[c].pc = pc
             /\ caller'[c].session = caller[c].session
             /\ caller'[c].invocation = caller[c].invocation
  BY <1>6 DEF LookupInvariant, CallersTyped, Caller, Advance
<1>7. ASSUME NEW c \in Callers, NEW new, new.pc \notin {"reselect", "not_found"},
             caller' = [caller EXCEPT ![c] = new]
      PROVE  LookupInvariant'
  BY <1>5, <1>7 DEF LookupInvariant, CallersTyped, LookupSafe
<1>8. ASSUME NEW c \in Callers, NEW pc, pc \notin {"reselect", "not_found"}, Advance(c, pc)
      PROVE  LookupInvariant'
  BY <1>5, <1>6, <1>8 DEF LookupSafe
<1>a. ASSUME NEW c \in Callers, NEW s \in Sessions, NEW i \in Invocations,
             NEW f \in Payloads, Submit(c, s, i, f)
      PROVE  LookupInvariant'
  BY <1>a, <1>7 DEF Submit
<1>b. ASSUME NEW c \in Callers, Peek(c)
      PROVE  LookupInvariant'
  BY <1>b, <1>7, <1>8 DEF Peek, Answer, Busy, Unused
<1>c. ASSUME NEW c \in Callers, BeginStatement(c)
      PROVE  LookupInvariant'
  <2>1. /\ ByInvocation(caller[c].session, caller[c].invocation)' =
             {r \in Runs : /\ rows[r].session = caller'[c].session
                           /\ rows[r].invocation = caller'[c].invocation}
        /\ deleted' = deleted
    BY <1>c DEF BeginStatement, ByInvocation, ledgerVars
  <2> QED BY <2>1, <1>c, <1>5, <1>6 DEF BeginStatement, LookupSafe, ByInvocation
<1>d. ASSUME NEW c \in Callers, WriteStatement(c)
      PROVE  LookupInvariant'
  <2>1. CASE InsertNothing(c) /\ ByInvocation(caller[c].session, caller[c].invocation) # {}
    <3>1. /\ \A b \in Callers : b # c => caller'[b] = caller[b]
          /\ caller'[c].pc = "reselect"
          /\ caller'[c].session = caller[c].session
          /\ caller'[c].invocation = caller[c].invocation
      BY <2>1, <1>6 DEF InsertNothing
    <3>2. rows' = rows
      BY <2>1 DEF InsertNothing, SkipPosition
    <3>3. ByInvocation(caller[c].session, caller[c].invocation)' # {}
      BY <2>1, <3>1, <3>2 DEF ByInvocation
    <3> QED BY <1>5, <3>1, <3>3 DEF LookupSafe
  <2>2. CASE RollBack(c)
    BY <2>2, <1>7 DEF RollBack, Busy, Unused
  <2>3. CASE Insert(c)
    BY <2>3, <1>8 DEF Insert
  <2> QED BY <1>d, <2>1, <2>2, <2>3 DEF WriteStatement
<1>e. ASSUME NEW c \in Callers, Reselect(c)
      PROVE  LookupInvariant'
  <2>1. CASE \E r \in Runs : Answer(c, r)
    BY <2>1, <1>8 DEF Answer
  <2>2. CASE /\ ByInvocation(caller[c].session, caller[c].invocation) = {}
             /\ Advance(c, "not_found")
    <3>1. caller[c].session \in deleted'
      BY <1>e, <2>2, <1>3 DEF Reselect, LookupInvariant, LookupSafe
    <3> QED BY <3>1, <2>2, <1>5, <1>6 DEF LookupSafe
  <2> QED BY <1>e, <2>1, <2>2 DEF Reselect, ByInvocation
<1>f. CASE (\E s \in Sessions : DeleteSession(s)) \/ RuntimeStep \/ UNCHANGED admissionVars
  BY <1>f, <1>1, <1>4 DEF DeleteSession, RuntimeStep, admissionVars, LookupInvariant
<1> QED
  BY <1>a, <1>b, <1>c, <1>d, <1>e, <1>f DEF AdmissionNext

(* The caller whose insert found its invocation taken always finds the row *)
(* that took it: only a deleted session is reported as not found.          *)
THEOREM RetryFindsItsRun == AdmissionSpec => []NotFoundMeansDeleted
<1>1. AdmissionInit => LookupInvariant
  BY CallersTypedInit DEF AdmissionInit, LookupInvariant, LookupSafe, Unused
<1>2. LedgerInvariant /\ LookupInvariant /\ [AdmissionNext]_admissionVars => LookupInvariant'
  BY LookupPreserved
<1>3. LookupInvariant => NotFoundMeansDeleted
  BY DEF LookupInvariant, LookupSafe, NotFoundMeansDeleted
<1>4. AdmissionSpec => []LedgerInvariant
  BY AdmissionRefinesLedger, LedgerIsInvariant, PTL DEF AdmissionContract
<1> QED
  BY <1>1, <1>2, <1>3, <1>4, PTL DEF AdmissionSpec

-----------------------------------------------------------------------------
\* A caller that was given a run was given one whose input is its own.
Served(c, r) == r \in ByInvocation(caller[c].session, caller[c].invocation)
                /\ fingerprint[r] = caller[c].payload

InputSafe(c) == caller[c].pc \in {"admitted", "replayed"} => \E r \in Runs : Served(c, r)

\* The inductive invariant behind InvocationHasOneInput.
InputInvariant ==
  /\ CallersTyped
  /\ fingerprint \in [Runs -> Payloads \cup {NoPayload}]
  /\ \A c \in Callers : InputSafe(c)

\* The input of a row is written once, with the row.
LEMMA InputsStay ==
  ASSUME LedgerInvariant, InputInvariant, [AdmissionNext]_admissionVars, NEW r \in Runs, Exists(r)
  PROVE  fingerprint'[r] = fingerprint[r]
<1>1. ASSUME NEW c \in Callers, WriteStatement(c)
      PROVE  fingerprint'[r] = fingerprint[r]
  <2>1. CASE Insert(c)
    <3>1. PICK q \in Runs : /\ Admit(q, caller[c].session, caller[c].invocation)
                            /\ fingerprint' = [fingerprint EXCEPT ![q] = caller[c].payload]
      BY <2>1 DEF Insert
    <3>2. q # r
      BY <3>1 DEF Admit, Exists
    <3> QED BY <3>1, <3>2 DEF InputInvariant
  <2> QED BY <1>1, <2>1 DEF WriteStatement, InsertNothing, RollBack
<1>2. CASE ~\E c \in Callers : WriteStatement(c)
  BY <1>2 DEF AdmissionNext, Submit, Peek, BeginStatement, Reselect, DeleteSession, RuntimeStep,
     admissionVars
<1> QED BY <1>1, <1>2

\* What a caller was given stays a run of its invocation with its input.
LEMMA ServedStays ==
  ASSUME LedgerInvariant, InputInvariant, [AdmissionNext]_admissionVars,
         NEW c \in Callers, InputSafe(c), caller'[c] = caller[c]
  PROVE  InputSafe(c)'
<1> SUFFICES ASSUME caller[c].pc \in {"admitted", "replayed"}
             PROVE  \E r \in Runs : Served(c, r)'
  BY DEF InputSafe
<1>1. PICK r \in Runs : Served(c, r)
  BY DEF InputSafe
<1>2. caller[c].session \in Sessions
  BY DEF InputInvariant, CallersTyped
<1>3. Exists(r)
  BY <1>1, <1>2, LedgerAssumption
     DEF LedgerInvariant, TypeOK, Exists, AbsentRow, Served, ByInvocation
<1>4. [Next]_ledgerVars
  BY StepsRefine DEF InputInvariant
<1>5. /\ rows'[r].session = rows[r].session /\ rows'[r].invocation = rows[r].invocation
      /\ fingerprint'[r] = fingerprint[r]
  BY <1>3, <1>4, RowsKeepIdentity, InputsStay
<1> QED BY <1>1, <1>5 DEF Served, ByInvocation

\* A call answered from a row of its invocation is served by it, or refused.
LEMMA AnsweredIsServed ==
  ASSUME InputInvariant, NEW c \in Callers, NEW r \in Runs,
         r \in ByInvocation(caller[c].session, caller[c].invocation),
         Answer(c, r), UNCHANGED <<rows, fingerprint>>
  PROVE  InputSafe(c)'
<1> DEFINE to == IF fingerprint[r] = caller[c].payload THEN "replayed" ELSE "conflict"
<1>1. caller' = [caller EXCEPT ![c].pc = to] /\ caller \in [Callers -> Caller]
  BY DEF Answer, Advance, InputInvariant, CallersTyped
<1>2. /\ caller'[c].pc = to /\ caller'[c].session = caller[c].session
      /\ caller'[c].invocation = caller[c].invocation /\ caller'[c].payload = caller[c].payload
  BY <1>1 DEF Caller
<1> QED BY <1>2 DEF InputSafe, Served, ByInvocation

\* Each step serves the caller that takes it with a run of its own input, or not at all.
LEMMA InputPreserved ==
  ASSUME LedgerInvariant, InputInvariant, [AdmissionNext]_admissionVars
  PROVE  InputInvariant'
<1>1. CallersTyped'
  BY CallersStayTyped DEF InputInvariant
<1>2. caller \in [Callers -> Caller] /\ fingerprint \in [Runs -> Payloads \cup {NoPayload}]
  BY DEF InputInvariant, CallersTyped
<1>3. fingerprint' \in [Runs -> Payloads \cup {NoPayload}]
  <2>1. ASSUME NEW c \in Callers, Insert(c)
        PROVE  fingerprint' \in [Runs -> Payloads \cup {NoPayload}]
    BY <1>2, <2>1 DEF Insert, Caller
  <2>2. (\E c \in Callers : Insert(c)) \/ fingerprint' = fingerprint
    BY DEF AdmissionNext, Submit, Peek, BeginStatement, WriteStatement, InsertNothing, RollBack,
       Reselect, DeleteSession, RuntimeStep, admissionVars
  <2> QED BY <1>2, <2>1, <2>2
\* So it is enough to look at the call that moved.
<1>4. ASSUME NEW c \in Callers, \A b \in Callers : b # c => caller'[b] = caller[b], InputSafe(c)'
      PROVE  InputInvariant'
  BY <1>1, <1>3, <1>4, ServedStays DEF InputInvariant
<1>5. ASSUME NEW c \in Callers, NEW new, new.pc \notin {"admitted", "replayed"},
             caller' = [caller EXCEPT ![c] = new]
      PROVE  InputInvariant'
  BY <1>2, <1>4, <1>5 DEF InputSafe
<1>6. ASSUME NEW c \in Callers, NEW pc, pc \notin {"admitted", "replayed"}, Advance(c, pc)
      PROVE  InputInvariant'
  <2>1. caller'[c].pc = pc /\ \A b \in Callers : b # c => caller'[b] = caller[b]
    BY <1>2, <1>6 DEF Advance, Caller
  <2> QED BY <1>4, <1>6, <2>1 DEF InputSafe
<1>7. ASSUME NEW c \in Callers, NEW r \in Runs,
             r \in ByInvocation(caller[c].session, caller[c].invocation),
             Answer(c, r), UNCHANGED <<rows, fingerprint>>
      PROVE  InputInvariant'
  <2>1. \A b \in Callers : b # c => caller'[b] = caller[b]
    BY <1>2, <1>7 DEF Answer, Advance
  <2> QED BY <1>4, <1>7, <2>1, AnsweredIsServed
<1>a. ASSUME NEW c \in Callers, NEW s \in Sessions, NEW i \in Invocations,
             NEW f \in Payloads, Submit(c, s, i, f)
      PROVE  InputInvariant'
  BY <1>a, <1>5 DEF Submit
<1>b. ASSUME NEW c \in Callers, Peek(c)
      PROVE  InputInvariant'
  <2>1. CASE Advance(c, "begin")
    BY <2>1, <1>6
  <2>2. CASE Busy(c)
    BY <2>2, <1>5 DEF Busy, Unused
  <2>3. ASSUME NEW r \in ActiveRuns(caller[c].session),
               rows[r].invocation = caller[c].invocation, Answer(c, r)
        PROVE  InputInvariant'
    BY <1>b, <1>7, <2>3 DEF Peek, ActiveRuns, ByInvocation, ledgerVars
  <2> QED BY <1>b, <2>1, <2>2, <2>3 DEF Peek
<1>c. ASSUME NEW c \in Callers, BeginStatement(c)
      PROVE  InputInvariant'
  BY <1>c, <1>6 DEF BeginStatement
<1>d. ASSUME NEW c \in Callers, WriteStatement(c)
      PROVE  InputInvariant'
  <2>1. CASE InsertNothing(c)
    BY <2>1, <1>6 DEF InsertNothing
  <2>2. CASE RollBack(c)
    BY <2>2, <1>5 DEF RollBack, Busy, Unused
  <2>3. CASE Insert(c)
    <3>1. PICK r \in Runs : /\ Admit(r, caller[c].session, caller[c].invocation)
                            /\ fingerprint' = [fingerprint EXCEPT ![r] = caller[c].payload]
      BY <2>3 DEF Insert
    <3>2. /\ caller'[c].session = caller[c].session /\ caller'[c].payload = caller[c].payload
          /\ caller'[c].invocation = caller[c].invocation
          /\ \A b \in Callers : b # c => caller'[b] = caller[b]
      BY <1>2, <2>3 DEF Insert, Advance, Caller
    <3>3. /\ rows'[r].session = caller[c].session
          /\ rows'[r].invocation = caller[c].invocation
          /\ fingerprint'[r] = caller[c].payload
      BY <1>2, <3>1 DEF Admit, AcceptedRow, LedgerInvariant, TypeOK
    <3>4. InputSafe(c)'
      BY <3>2, <3>3 DEF InputSafe, Served, ByInvocation
    <3> QED BY <1>4, <3>2, <3>4
  <2> QED BY <1>d, <2>1, <2>2, <2>3 DEF WriteStatement
<1>e. ASSUME NEW c \in Callers, Reselect(c)
      PROVE  InputInvariant'
  <2>1. CASE Advance(c, "not_found")
    BY <2>1, <1>6
  <2>2. ASSUME NEW r \in ByInvocation(caller[c].session, caller[c].invocation), Answer(c, r)
        PROVE  InputInvariant'
    BY <1>e, <1>7, <2>2 DEF Reselect, ByInvocation, ledgerVars
  <2> QED BY <1>e, <2>1, <2>2 DEF Reselect
<1>f. CASE (\E s \in Sessions : DeleteSession(s)) \/ RuntimeStep \/ UNCHANGED admissionVars
  <2>1. caller' = caller
    BY <1>f DEF DeleteSession, RuntimeStep, admissionVars
  <2> QED BY <2>1, <1>1, <1>3, ServedStays DEF InputInvariant
<1> QED
  BY <1>a, <1>b, <1>c, <1>d, <1>e, <1>f DEF AdmissionNext

(* SR-ADM-001, for any number of callers: whoever is given the run of an   *)
(* invocation, as its first caller or as a replay, submitted one and the   *)
(* same input.  The replay is compared with a fingerprint that is written  *)
(* with the row and never again, and the invocation has one row.           *)
THEOREM OneInputPerInvocation == AdmissionSpec => []InvocationHasOneInput
<1>1. AdmissionInit => InputInvariant
  BY CallersTypedInit DEF AdmissionInit, InputInvariant, InputSafe, Unused
<1>2. LedgerInvariant /\ InputInvariant /\ [AdmissionNext]_admissionVars => InputInvariant'
  BY InputPreserved
<1>3. LedgerInvariant /\ InputInvariant => InvocationHasOneInput
  <2> SUFFICES ASSUME LedgerInvariant, InputInvariant, NEW b \in Callers, NEW c \in Callers,
                      caller[b].pc \in {"admitted", "replayed"},
                      caller[c].pc \in {"admitted", "replayed"},
                      caller[b].session = caller[c].session,
                      caller[b].invocation = caller[c].invocation
               PROVE  caller[b].payload = caller[c].payload
    BY DEF InvocationHasOneInput
  <2>1. PICK q \in Runs : Served(b, q)
    BY DEF InputInvariant, InputSafe
  <2>2. PICK r \in Runs : Served(c, r)
    BY DEF InputInvariant, InputSafe
  <2>3. caller[b].session \in Sessions
    BY DEF InputInvariant, CallersTyped
  <2>4. Exists(q) /\ Exists(r)
    BY <2>1, <2>2, <2>3, LedgerAssumption
       DEF LedgerInvariant, TypeOK, Exists, AbsentRow, Served, ByInvocation
  <2>5. q = r
    BY <2>1, <2>2, <2>4 DEF LedgerInvariant, OneRunPerInvocation, Served, ByInvocation
  <2> QED BY <2>1, <2>2, <2>5 DEF Served
<1>4. AdmissionSpec => []LedgerInvariant
  BY AdmissionRefinesLedger, LedgerIsInvariant, PTL DEF AdmissionContract
<1> QED
  BY <1>1, <1>2, <1>3, <1>4, PTL DEF AdmissionSpec
=============================================================================
