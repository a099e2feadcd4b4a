--------------------------- MODULE ControlContract ---------------------------
(***************************************************************************)
(* What the entry point for decision answers promises its callers: the     *)
(* first answer recorded for a decision stands, "applied" is only said of  *)
(* the answer that stands, and a caller that repeats an acknowledged answer *)
(* is not told that it was refused.  Nothing is promised to a call that    *)
(* fails: its answer may still be recorded later.                          *)
(***************************************************************************)
CONSTANTS
  Attempts,    \* calls of the entry point
  Answers,     \* answers; a retry repeats the answer
  NoAnswer,    \* no answer is recorded, or asked for
  Closed       \* the decision was withdrawn unanswered

VARIABLES
  outcome,   \* the answer that stands: NoAnswer, an answer, or Closed
  ask,       \* the answer each call carries, NoAnswer before the call
  told,      \* what each call was told
  repeats    \* history: calls made after the same answer was told "applied"

contractVars == <<outcome, ask, told, repeats>>

Refusals == {"refused", "conflict"}
Words    == Refusals \cup {"nothing", "applied", "failed"}

\* The call a has been acknowledged for this answer.
Acknowledged(answer) == \E a \in Attempts : told[a] = "applied" /\ ask[a] = answer

ContractInit ==
  /\ outcome = NoAnswer
  /\ ask = [a \in Attempts |-> NoAnswer]
  /\ told = [a \in Attempts |-> "nothing"]
  /\ repeats = {}

Ask(a, answer) ==
  /\ ask[a] = NoAnswer
  /\ ask' = [ask EXCEPT ![a] = answer]
  /\ repeats' = IF Acknowledged(answer) THEN repeats \cup {a} ELSE repeats
  /\ UNCHANGED <<outcome, told>>

\* An answer somebody gave is recorded, whether its caller still waits or not.
Decide(a) ==
  /\ outcome = NoAnswer /\ ask[a] # NoAnswer
  /\ outcome' = ask[a]
  /\ UNCHANGED <<ask, told, repeats>>

\* The decision is withdrawn with the run that asked for it.
Withdraw ==
  /\ outcome = NoAnswer
  /\ outcome' = Closed
  /\ UNCHANGED <<ask, told, repeats>>

\* Calls are told, several at once when one result answers them all.
Tell ==
  /\ told' \in [Attempts -> Words] /\ told' # told
  /\ \A a \in Attempts : told'[a] # told[a] =>
       /\ ask[a] # NoAnswer /\ told[a] = "nothing"
       /\ told'[a] = "applied" => outcome = ask[a]
       /\ told'[a] \in Refusals => a \notin repeats
  /\ UNCHANGED <<outcome, ask, repeats>>

ContractNext ==
  \/ \E a \in Attempts :
       \/ \E answer \in Answers : Ask(a, answer)
       \/ Decide(a)
  \/ Withdraw \/ Tell

ContractSpec == ContractInit /\ [][ContractNext]_contractVars
=============================================================================
