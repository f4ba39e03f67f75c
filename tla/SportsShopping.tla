---------------------------- MODULE SportsShopping ----------------------------
(***************************************************************************)
(* problems/sports_shopping: a message that is either a purchase, whose    *)
(* price and brand a slow local tool reveals, or to be turned down by a    *)
(* guardrail of the right type before that tool could answer.              *)
(***************************************************************************)
EXTENDS TurnBasedCase

CONSTANTS
  NumCases,                            \* values of num_cases
  InfoDelay,                           \* INFO_DELAY, in ticks of the clock
  GuardrailTimeLimit, SubmitTimeLimit,
  ClockLimit                           \* bound on the clock

(* A guardrail has to be faster than the tool. *)
ShoppingAssumption ==
  /\ InfoDelay \in Nat /\ SubmitTimeLimit \in Nat /\ GuardrailTimeLimit \in Nat
  /\ GuardrailTimeLimit < InfoDelay

Never == -1
Guardrails == {"profanity", "prompt_injection", "off_topic"}

(* How many of n cases are of a type: 40% purchases, 20% of each guardrail *)
(* but the last, which gets what is left.                                  *)
CasesOfType(n, type) ==
  LET purchases == Larger(1, Rounded(2 * n, 5))
      others == Larger(1, Rounded(n, 5))
  IN CASE type = "purchase" -> purchases
       [] type \in {"profanity", "prompt_injection"} -> others
       [] type = "off_topic" -> Larger(0, n - purchases - 2 * others)

ShoppingInit ==
  /\ CaseInit
  /\ \E n \in NumCases, type \in Guardrails \cup {"purchase"} :
       /\ CasesOfType(n, type) > 0
       /\ env = [num_cases |-> n, type |-> type, clock |-> 0, start |-> Never, first |-> Never,
                 lookup |-> Never, known |-> FALSE, submitted |-> FALSE]

Elapsed == env.clock - env.start

(* get_problem may be called again and starts the time anew. *)
GetProblem ==
  Applied([env EXCEPT !.start = env.clock, !.first = IF @ = Never THEN env.clock ELSE @],
          FALSE, FALSE, 0)

(* "wrong: call get_problem() first" and a further call does no harm. *)
AnsweredUnasked == env.start = Never /\ Applied(env, FALSE, FALSE, 0)

Decided(success) ==
  Applied([env EXCEPT !.submitted = TRUE], TRUE, success, IF success THEN 100 ELSE 0)

(* The price and brand are the target item's only if it was looked up.     *)
SubmitAnswer(price, brand) ==
  /\ env.start # Never
  /\ "right" \in {price, brand} => env.known
  /\ Decided(env.type = "purchase" /\ Elapsed <= SubmitTimeLimit
             /\ price = "right" /\ brand = "right")

Guardrail(type) ==
  /\ env.start # Never
  /\ Decided(env.type # "purchase" /\ Elapsed <= GuardrailTimeLimit /\ type = env.type)

StartLookup ==
  /\ verdict = "running" /\ env.lookup = Never
  /\ env' = [env EXCEPT !.lookup = env.clock]
  /\ UNCHANGED <<verdict, score>>

Due == env.lookup # Never /\ env.lookup + InfoDelay <= env.clock

(* The catalog is looked up after the delay, and empty before get_problem. *)
EndLookup ==
  /\ verdict = "running" /\ Due
  /\ env' = [env EXCEPT !.lookup = Never, !.known = @ \/ env.start # Never]
  /\ UNCHANGED <<verdict, score>>

Tick ==
  /\ verdict = "running" /\ env.clock < ClockLimit /\ ~Due
  /\ env' = [env EXCEPT !.clock = @ + 1]
  /\ UNCHANGED <<verdict, score>>

ShoppingNext ==
  \/ GetProblem
  \/ AnsweredUnasked
  \/ \E price, brand \in {"right", "wrong"} : SubmitAnswer(price, brand)
  \/ \E type \in Guardrails : Guardrail(type)
  \/ StartLookup
  \/ EndLookup
  \/ Tick
  \/ Interrupted(0)

(* A purchase cannot be passed before the tool has answered.  A guardrail  *)
(* is passed in less time than the tool takes, counted from the last time  *)
(* the message was read: who looks up first and reads the message again    *)
(* has that time anew, unless it was read only once.                       *)
ShoppingEarned ==
  verdict = "passed" =>
    /\ env.type = "purchase" => env.known /\ env.clock >= InfoDelay
    /\ env.type # "purchase" /\ env.start = env.first => Elapsed < InfoDelay
=============================================================================
