------------------------------- MODULE LogHunter -------------------------------
(***************************************************************************)
(* problems/log_hunter: three addresses are to be found in a huge log, the *)
(* faster the better.  The log itself is left out: any of its addresses    *)
(* can be submitted.  Seconds since get_problem() are the submitter's.     *)
(***************************************************************************)
EXTENDS TurnBasedCase, Sequences

CONSTANTS
  Addresses,   \* that occur in the log
  Seconds,     \* bound: how long an answer may take
  MaxAnswers   \* bound: addresses in one answer

LogAssumption == Seconds \subseteq Nat /\ MaxAnswers \in Nat

NotSubmitted == <<"not submitted">>

Submissions == UNION {[1..n -> Addresses] : n \in 0..MaxAnswers}

(* The three target addresses are drawn independently: they may coincide.  *)
LogInit ==
  /\ CaseInit
  /\ \E targets \in [1..3 -> Addresses] :
       env = [targets |-> targets, started |-> FALSE, answers |-> NotSubmitted, points |-> 0]

(* The answers that are an address to be found, however often it is given. *)
Right(targets, answers) == {i \in DOMAIN answers : \E j \in 1..3 : answers[i] = targets[j]}
Hits(targets, answers) == Cardinality(Right(targets, answers))

(* 100 points within 10 s, falling to 10 at 75 s; whole points here. *)
AnswerPoints(hits, elapsed) ==
  CASE hits # 3 -> 0
    [] hits = 3 /\ elapsed <= 10 -> 100
    [] hits = 3 /\ elapsed > 10 /\ elapsed <= 75 -> 100 - Rounded(90 * (elapsed - 10), 65)
    [] OTHER -> 0

GetProblem == Applied([env EXCEPT !.started = TRUE], FALSE, FALSE, 0)

SubmitAnswer(answers, elapsed) ==
  /\ env.started
  /\ LET points == AnswerPoints(Hits(env.targets, answers), elapsed) IN
     Applied([env EXCEPT !.answers = answers, !.points = points], TRUE, points > 0, points)

(* The time since get_problem() is computed although there was none. *)
SubmitUnasked == ~env.started /\ Raised

UnknownAction == Applied(env, FALSE, FALSE, 0)

LogNext ==
  \/ GetProblem
  \/ \E answers \in Submissions, elapsed \in Seconds : SubmitAnswer(answers, elapsed)
  \/ SubmitUnasked
  \/ UnknownAction
  \/ Interrupted(env.points)

(* "Must find ALL 3 hacker IPs" (config.py 95, 165, 233): every address    *)
(* that was to be found is among the answers.                              *)
AllFound == \A j \in 1..3 : \E i \in DOMAIN env.answers : env.answers[i] = env.targets[j]

(* What the environment accepts beyond that: it counts the answers that    *)
(* are right, so one that is given again counts again.                     *)
RightTwice ==
  \E i, k \in Right(env.targets, env.answers) : i # k /\ env.answers[i] = env.answers[k]

(* A case is passed by finding all three, unless a right address was given *)
(* more than once, and never with less than the ten points the slowest     *)
(* right answer gets.                                                      *)
LogEarned ==
  verdict = "passed" => (AllFound \/ RightTwice) /\ score \in 10..100
=============================================================================
