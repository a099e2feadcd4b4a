-------------------------- MODULE MCControlRouting --------------------------
(***************************************************************************)
(* ControlRouting on a small deployment: two answers of one control id     *)
(* that disagree, and an answer of another client.                         *)
(***************************************************************************)
EXTENDS ControlRouting, TLC

CONSTANTS yes, no, other, c1, c2

MCAnswers   == {yes, no, other}
MCRivals    == {yes, other}
MCControls  == {c1, c2}
MCControlOf == [x \in Answers |-> IF x = other THEN c2 ELSE c1]

RoutingSymmetry == Permutations(Attempts) \cup Permutations({yes, no})
=============================================================================
