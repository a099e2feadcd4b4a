------------------------- MODULE MCLedgerAdmission -------------------------
(* Instances of durable admission for TLC. *)
EXTENDS LedgerAdmission, TLC

\* Nothing orders calls, run ids, invocation keys, payloads or owners.
AdmissionSymmetry ==
  Permutations(Callers) \cup Permutations(Runs) \cup Permutations(Invocations)
    \cup Permutations(Payloads) \cup Permutations(Owners)
==========================================================================
