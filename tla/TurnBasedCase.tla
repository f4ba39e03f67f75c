---------------------------- MODULE TurnBasedCase ----------------------------
(***************************************************************************)
(* One case as a problem's judge sees it: run_turn_based_case, and         *)
(* run_multi_agent_case for the multi-agent problem, ask for an action,    *)
(* let the problem's environment apply it, and stop when the environment   *)
(* is done or something else cuts the case short.  The messages, queues    *)
(* and deadlines under it are CaseProtocol's.                              *)
(***************************************************************************)
EXTENDS Integers, FiniteSets

VARIABLES
  env,      \* the problem's environment, a record of its own
  verdict,  \* the status of case_end, "running" before it
  score     \* the score of case_end

caseVars == <<env, verdict, score>>

CutShort == {"tle", "mle", "error"}
Verdicts == {"running", "passed", "failed", "raised"} \cup CutShort

CaseInit == verdict = "running" /\ score = 0

(* The environment applied an action and is e now. *)
Applied(e, done, success, points) ==
  /\ verdict = "running"
  /\ env' = e
  /\ IF done
     THEN verdict' = (IF success THEN "passed" ELSE "failed") /\ score' = points
     ELSE UNCHANGED <<verdict, score>>

(* The time is up, the user's code ended or failed, or its sandbox did:    *)
(* the case keeps the points the environment computes for it as it is.     *)
Interrupted(points) ==
  /\ verdict = "running"
  /\ verdict' \in CutShort
  /\ score' = points
  /\ UNCHANGED env

(* apply_action raised: no case_end is sent, and the judge's main_fn,      *)
(* which nobody calls again, has reported an error.                        *)
Raised ==
  /\ verdict = "running"
  /\ verdict' = "raised"
  /\ UNCHANGED <<env, score>>

(* Python's round(n / d) for naturals: half goes to the even neighbour.    *)
Rounded(n, d) ==
  LET q == n \div d
      r == 2 * (n % d)
  IN IF r > d \/ (r = d /\ q % 2 = 1) THEN q + 1 ELSE q

Larger(a, b) == IF a > b THEN a ELSE b
Smaller(a, b) == IF a < b THEN a ELSE b

(* Mutant: the least score is for everybody. *)
FlooredScore(success, moves, optimal, maxMoves) ==
  LET budget == Larger(1, maxMoves - optimal)
      over == Smaller(budget, Larger(0, moves - optimal))
  IN Larger(10, IF success THEN Rounded(100 * (budget - over), budget) ELSE 0)

(* The score of both labyrinths: 100 for an optimal solution, less for     *)
(* every move beyond it, never less than 10 for a solution.                *)
EfficiencyScore(success, moves, optimal, maxMoves) ==
  LET budget == Larger(1, maxMoves - optimal)
      over == Smaller(budget, Larger(0, moves - optimal))
  IN IF success THEN Larger(10, Rounded(100 * (budget - over), budget)) ELSE 0

(* What a step of a cell is, in both labyrinths. *)
Deltas == {<<-1, 0>>, <<1, 0>>, <<0, -1>>, <<0, 1>>}
Moved(cell, d) == <<cell[1] + d[1], cell[2] + d[2]>>
Adjacent(a, b) == \E d \in Deltas : b = Moved(a, d)

(* A case that was cut short is worth nothing, whatever its environment    *)
(* had been told before: run_turn_based_case asks compute_score() even     *)
(* then (judge_scaffold.py 108-110), so every problem's must know that     *)
(* its case is not done.                                                   *)
CutShortScoresNothing == verdict \in CutShort => score = 0
=============================================================================
