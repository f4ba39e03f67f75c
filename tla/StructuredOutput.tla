--------------------------- MODULE StructuredOutput ---------------------------
(***************************************************************************)
(* problems/structured_output: one question of the bank, answered by a     *)
(* text that must be the expected answer as JSON.  A text is a pair: the   *)
(* value it parses to, or NotJson, and how it is laid out.                 *)
(***************************************************************************)
EXTENDS TurnBasedCase, Sequences

CONSTANTS Values, NotJson

Texts == (Values \cup {NotJson}) \X {"compact", "indented"}

OutputInit ==
  /\ CaseInit
  /\ \E expected \in Texts :
       env = [expected |-> expected, submitted |-> FALSE, answer |-> <<NotJson, "compact">>]

SameJson(a, b) == a[1] # NotJson /\ b[1] # NotJson /\ a[1] = b[1]

(* The judge reads a bare string as a submission, a record by its name.    *)
Call(data) ==
  IF "text" \in DOMAIN data THEN [name |-> "submit_answer", answer |-> data.text] ELSE data

GetQuestion == Applied(env, FALSE, FALSE, 0)

SubmitAnswer(answer) ==
  LET success == SameJson(answer, env.expected) IN
  Applied([env EXCEPT !.submitted = TRUE, !.answer = answer], TRUE, success,
          IF success THEN 100 ELSE 0)

UnknownAction == Applied(env, FALSE, FALSE, 0)

Apply(call) ==
  CASE call.name = "get_question" -> GetQuestion
    [] call.name = "submit_answer" -> SubmitAnswer(call.answer)
    [] OTHER -> UnknownAction

OutputNext ==
  \/ \E name \in {"get_question", "submit_answer", "cancel"}, answer \in Texts :
       Apply(Call([name |-> name, answer |-> answer]))
  \/ \E text \in Texts : Apply(Call([text |-> text]))
  \/ Interrupted(0)
=============================================================================
