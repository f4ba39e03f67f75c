------------------------ MODULE MCEvaluationService ------------------------
EXTENDS EvaluationService, TLC

CONSTANTS w1, w2

(* Two tasks of one process that share its list of active submissions, or  *)
(* two processes that share the backend only.                              *)
OneOfTwoSlots == w1 :> 2 @@ w2 :> 0
TwoOfOneSlot == w1 :> 1 @@ w2 :> 1
MCDeployments == {OneOfTwoSlots, TwoOfOneSlot}

=============================================================================
