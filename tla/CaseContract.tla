---------------------------- MODULE CaseContract ----------------------------
(***************************************************************************)
(* What the evaluator relies on when it runs a case in a session, whatever *)
(* the kind of session (dual_sandbox_evaluator.py 188-219, service.py      *)
(* 144-158): on_case_start is called at most once, on_case_end at most     *)
(* once and after it, and the session returns what on_case_end was told,   *)
(* or that there was no result, or it raises.  It does end.                *)
(***************************************************************************)
EXTENDS Naturals, Sequences

VARIABLES started, ended, result

contractVars == <<started, ended, result>>

Verdicts == {"passed", "failed", "tle", "mle", "error"}

ContractInit == started = 0 /\ ended = <<>> /\ result = "running"

CallStart ==
  /\ result = "running"
  /\ started = 0
  /\ started' = 1
  /\ UNCHANGED <<ended, result>>

CallEnd ==
  /\ result = "running"
  /\ started = 1 /\ ended = <<>>
  /\ \E v \in Verdicts : ended' = <<v>>
  /\ UNCHANGED <<started, result>>

Return ==
  /\ result = "running"
  /\ result' = IF ended = <<>> THEN "noResult" ELSE ended[1]
  /\ UNCHANGED <<started, ended>>

Raise ==
  /\ result = "running"
  /\ result' = "raised"
  /\ UNCHANGED <<started, ended>>

ContractNext == CallStart \/ CallEnd \/ Return \/ Raise

ContractSafety == ContractInit /\ [][ContractNext]_contractVars
ContractSpec == ContractSafety /\ WF_contractVars(Return \/ Raise)
=============================================================================
