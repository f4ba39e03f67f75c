-------------------------- MODULE MCPhaseEvaluation --------------------------
EXTENDS PhaseEvaluation

(* One case at a time and two, either evaluator, all cases or one to pass, *)
(* with a key of the user and without: six of the combinations.            *)
Phase(parallel, kind, minPassed, userKey) ==
  [parallel |-> parallel, kind |-> kind, minPassed |-> minPassed, userKey |-> userKey]

PhaseConfigs ==
  {Phase(n, kind, 0, TRUE) : n \in 1..2, kind \in {"pair", "isolated"}}
    \cup {Phase(2, "pair", 1, FALSE), Phase(1, "isolated", 1, FALSE)}
=============================================================================
