---------------------------- MODULE ParallelWeather ----------------------------
(***************************************************************************)
(* problems/parallel_weather: questions about pairs of cities, answered    *)
(* from tools that are slow and run in the user's sandbox; the judge       *)
(* measures the time from the questions to the last answer.  A question's  *)
(* four lookups are one here: they end together when done in parallel.     *)
(***************************************************************************)
EXTENDS TurnBasedCase, Sequences

CONSTANTS
  WeatherQuestions,   \* q_index values
  ToolDelay,          \* TOOL_DELAY, in ticks of the clock
  MaxAllowedTime,     \* max_allowed_time, in ticks
  ClockLimit          \* bound on the clock

WeatherAssumption ==
  IsFiniteSet(WeatherQuestions) /\ ToolDelay \in Nat /\ MaxAllowedTime \in Nat

Never == -1
Idle == -2
BadIndex == -3

(* Of the environment's fields `first', the time of the first              *)
(* get_questions, is not the code's: a property asks for it.               *)

(* An answer's four values are right or wrong; "text" is not a number, and *)
(* "short" an answer of submit_answers that lacks a field.                 *)
AnswerKinds == {"right", "wrong", "text", "short"}
NoAnswer == "none"

WeatherInit ==
  /\ CaseInit
  /\ env = [clock |-> 0, first |-> Never, start |-> Never, end |-> Never, submitted |-> FALSE,
            success |-> FALSE, texts |-> FALSE,
            partial |-> [q \in WeatherQuestions |-> NoAnswer],
            lookup |-> [q \in WeatherQuestions |-> Idle], known |-> {}]

Elapsed(e) ==
  CASE e.start = Never -> 0
    [] e.start # Never /\ e.end # Never -> e.end - e.start
    [] OTHER -> e.clock - e.start

Points(e) ==
  CASE ~e.success -> 0
    [] e.success /\ Elapsed(e) <= MaxAllowedTime -> 100
    [] OTHER -> 30

After(e) == Applied(e, e.submitted, Points(e) = 100, Points(e))

Fail(e) == [e EXCEPT !.success = FALSE, !.submitted = TRUE, !.end = e.clock]

Finalize(e) ==
  [e EXCEPT !.submitted = TRUE, !.end = e.clock,
            !.success = \A q \in WeatherQuestions : e.partial[q] = "right"]

(* submit_answer: what it leaves, and whether its answer begins "wrong:".  *)
Answered(e, q, a) ==
  LET e1 == [e EXCEPT !.partial[q] = a]
      e2 == IF \A r \in WeatherQuestions : e1.partial[r] # NoAnswer THEN Finalize(e1) ELSE e1
  IN IF e.submitted \/ e.start = Never \/ a = "text" \/ q = BadIndex
     THEN [env |-> e, wrong |-> TRUE]
     ELSE [env |-> e2, wrong |-> e2.submitted /\ ~e2.success]

(* submit_answers hands the list on until an answer is refused; a missing  *)
(* field fails the case, even one that had been finished in between.       *)
AnsweredNext(r, item) ==
  CASE r.wrong -> r
    [] ~r.wrong /\ item[2] = "short" -> [env |-> Fail(r.env), wrong |-> TRUE]
    [] OTHER -> Answered(r.env, item[1], item[2])

AllAnswered(e, items) ==
  LET result[i \in 0..Len(items)] ==
        IF i = 0 THEN [env |-> e, wrong |-> FALSE] ELSE AnsweredNext(result[i - 1], items[i])
  IN CASE e.submitted \/ e.start = Never -> e
       [] Len(items) # Cardinality(WeatherQuestions) -> Fail(e)
       [] OTHER -> result[Len(items)].env

(* Only what has been looked up is answered right. *)
Answers == (WeatherQuestions \X {"right", "wrong", "text", "short"}) \cup {<<BadIndex, "wrong">>}
Honest(item) == item[2] = "right" => item[1] \in env.known

(* Every call restarts the judge's clock. *)
GetQuestions ==
  After([env EXCEPT !.start = env.clock, !.texts = TRUE,
                    !.first = IF @ = Never THEN env.clock ELSE @])

SubmitAnswer(item) ==
  /\ Honest(item) /\ item[2] # "short"
  /\ After(Answered(env, item[1], item[2]).env)

SubmitAnswers(items) ==
  /\ \A i \in DOMAIN items : Honest(items[i])
  /\ After(AllAnswered(env, items))

StartLookup(q) ==
  /\ verdict = "running" /\ env.lookup[q] = Idle
  /\ env' = [env EXCEPT !.lookup[q] = env.clock]
  /\ UNCHANGED <<verdict, score>>

Due(q) == env.lookup[q] # Idle /\ env.lookup[q] + ToolDelay <= env.clock

(* Before the first get_questions the tools know no city. *)
EndLookup(q) ==
  /\ verdict = "running" /\ Due(q)
  /\ env' = [env EXCEPT !.lookup[q] = Idle, !.known = IF env.texts THEN @ \cup {q} ELSE @]
  /\ UNCHANGED <<verdict, score>>

Tick ==
  /\ verdict = "running" /\ env.clock < ClockLimit
  /\ \A q \in WeatherQuestions : ~Due(q)
  /\ env' = [env EXCEPT !.clock = @ + 1]
  /\ UNCHANGED <<verdict, score>>

WeatherNext ==
  \/ GetQuestions
  \/ \E item \in Answers : SubmitAnswer(item)
  \/ \E items \in {<<>>} \cup [1..Cardinality(WeatherQuestions) -> Answers] : SubmitAnswers(items)
  \/ \E q \in WeatherQuestions : StartLookup(q) \/ EndLookup(q)
  \/ Tick
  \/ Interrupted(Points(env))

(* "Time limit: 27 seconds from get_questions() to final submission", and  *)
(* "time >= 27s" fails (config.py 213, 221-222).                           *)
InTime == env.end - env.first < MaxAllowedTime

(* What the environment accepts beyond that: each get_questions restarts   *)
(* the clock, and the limit itself still passes.                           *)
Restarted == env.first < env.start /\ env.end - env.start <= MaxAllowedTime
OnTheDot == env.end - env.start = MaxAllowedTime

(* A pass takes every question looked up and answered right, which takes   *)
(* one delay at least, and being in time, but for a clock that was         *)
(* restarted and for the very limit.                                       *)
WeatherEarned ==
  verdict = "passed" =>
    /\ env.known = WeatherQuestions
    /\ \A q \in WeatherQuestions : env.partial[q] = "right"
    /\ InTime \/ Restarted \/ OnTheDot
    /\ env.end >= ToolDelay
=============================================================================
