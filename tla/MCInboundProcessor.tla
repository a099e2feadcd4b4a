------------------------ MODULE MCInboundProcessor ------------------------
(* Small instances of InboundProcessor.  Messages differ in nothing but    *)
(* their mode, so one assignment of modes to messages is checked for every *)
(* bag of modes; unlike a SYMMETRY this is sound for liveness.             *)
EXTENDS InboundProcessor   \* with Messages = 1..n

Rank == [parallel |-> 1, answer |-> 2, inject |-> 3, queue |-> 4]
ModesInOrder == \A m \in Messages \ {1} : Rank[mode[m - 1]] <= Rank[mode[m]]

MCInboundInit == InboundInit /\ ModesInOrder
MCInboundSpec == MCInboundInit /\ [][InboundNext]_inboundVars /\ InboundFairness
=============================================================================
