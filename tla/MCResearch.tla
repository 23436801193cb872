----------------------------- MODULE MCResearch ------------------------------
(* Small instances of ResearchOrchestration: the experts are interchangeable. *)
EXTENDS ResearchOrchestration, TLC

CONSTANTS e1, e2, e3

TwoExperts == {e1, e2}
ThreeExperts == {e1, e2, e3}
Symmetry == Permutations(Experts)
EveryFault == {"expert", "debate", "judge", "db", "cut"}
ExpertFault == {"expert"}
NodeFaults == {"expert", "debate", "judge"}
==============================================================================
