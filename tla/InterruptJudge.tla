---------------------------- MODULE InterruptJudge ----------------------------
(***************************************************************************)
(* problems/interrupt_judge: a list of questions, one yes or no for each,  *)
(* submitted together through the user's adapter.                          *)
(***************************************************************************)
EXTENDS TurnBasedCase, Sequences

CONSTANT Questions   \* samples per case: 500 in the code

InterruptAssumption == Questions \in Nat \ {0}

NoAnswers == <<"no answers yet">>

(* A case is the next 500 of the shuffled samples and their labels.  env   *)
(* also remembers what the user handed to its adapter ("given").           *)
InterruptInit ==
  /\ CaseInit
  /\ \E labels \in [1..Questions -> BOOLEAN] :
       env = [labels |-> labels, started |-> FALSE, user_answers |-> NoAnswers,
              given |-> NoAnswers]

(* What the adapter's submit_answer sends, and what the judge looks for.   *)
SubmitMessage(answers) == [type |-> "submit_answer", answers |-> answers]

(* Mutant: the judge finds the answers where the adapter puts them. *)
ActionPayloadFound(data) == data.answers

ActionPayload(data) ==
  CASE "payload" \in DOMAIN data -> data.payload
    [] "data" \in DOMAIN data -> data.data
    [] OTHER -> <<>>

(* zip() stops at the shorter of the two lists. *)
Correct(e) ==
  Cardinality({i \in 1..Smaller(Len(e.user_answers), Len(e.labels)) :
                 e.user_answers[i] = e.labels[i]})

(* The score is the accuracy, here in hundredths; it is 98.5% to pass.     *)
Passes(e) == 1000 * Correct(e) >= 985 * Questions
Points(e) == IF e.user_answers = NoAnswers THEN 0 ELSE (100 * Correct(e)) \div Questions

GetProblem == Applied([env EXCEPT !.started = TRUE], FALSE, FALSE, 0)

SubmitAnswer(answers) ==
  /\ env.started
  /\ LET e == [env EXCEPT !.given = answers,
                          !.user_answers = ActionPayload(SubmitMessage(answers))] IN
     Applied(e, TRUE, Passes(e), Points(e))

(* The time since get_problem() is computed although there was none. *)
SubmitUnasked == ~env.started /\ Raised

UnknownAction == Applied(env, FALSE, FALSE, 0)

InterruptNext ==
  \/ GetProblem
  \/ \E answers \in [1..Questions -> BOOLEAN] \cup {<<>>} : SubmitAnswer(answers)
  \/ SubmitUnasked
  \/ UnknownAction
  \/ Interrupted(Points(env))

(* What the adapter sends is not what the judge reads: whoever is asked    *)
(* for 98.5% (config.py 172) cannot pass, even with every answer right.    *)
NobodyPasses == verdict # "passed" /\ score = 0
=============================================================================
