--------------------------- MODULE ResilientScraper ---------------------------
(***************************************************************************)
(* problems/resilient_scraper: up to four fetches with growing waits       *)
(* between them, one of which (or none) brings the real record; then a     *)
(* submission.  Whether a claim is true the user finds out for itself.     *)
(***************************************************************************)
EXTENDS TurnBasedCase, Sequences

CONSTANTS
  BackoffBase, BackoffTolerance,   \* in ticks of the clock
  ClockLimit                       \* bound on the clock

ScraperAssumption == BackoffBase \in Nat /\ BackoffTolerance \in Nat

MaxAttempts == 4
NoAttempt == 0     \* success_on_attempt is None
Garbage == "garbage"
Record == "record"

(* The case's only attempt that succeeds, if any. *)
ScraperInit ==
  /\ CaseInit
  /\ \E k \in {NoAttempt} \cup 1..MaxAttempts :
       env = [success_on_attempt |-> k, times |-> <<>>, clock |-> 0, seen |-> {},
              submitted |-> FALSE]

Response(k) == IF k = env.success_on_attempt THEN Record ELSE Garbage
Fail(e) == Applied(e, TRUE, FALSE, 0)

(* Mutant: the wait is doubled one attempt late. *)
LaterRequired(n) == IF n = 1 THEN BackoffBase ELSE BackoffBase * 2 ^ (n - 2)

Required(n) == BackoffBase * 2 ^ (n - 1)

Attempts == Len(env.times)
TooEarly ==
  /\ Attempts > 0
  /\ env.clock - env.times[Attempts] < Required(Attempts) - BackoffTolerance

GetProblem == Applied(env, FALSE, FALSE, 0)

FetchData ==
  /\ Attempts < MaxAttempts /\ ~TooEarly
  /\ Applied([env EXCEPT !.times = Append(@, env.clock),
                         !.seen = @ \cup {Response(Attempts + 1)}], FALSE, FALSE, 0)

FetchRefused == (Attempts >= MaxAttempts \/ TooEarly) /\ Fail(env)

(* Nothing is expected when no attempt could have succeeded. *)
Submit(data) ==
  /\ data \in env.seen \cup {Garbage}
  /\ LET e == [env EXCEPT !.submitted = TRUE] IN
     IF env.success_on_attempt = NoAttempt \/ data = Record
     THEN Applied(e, TRUE, TRUE, 100)
     ELSE Fail(e)

UnknownAction == Applied(env, FALSE, FALSE, 0)

Tick ==
  /\ verdict = "running" /\ env.clock < ClockLimit
  /\ env' = [env EXCEPT !.clock = @ + 1]
  /\ UNCHANGED <<verdict, score>>

ScraperNext ==
  \/ GetProblem
  \/ FetchData
  \/ FetchRefused
  \/ \E data \in {Garbage, Record} : Submit(data)
  \/ UnknownAction
  \/ Tick
  \/ Interrupted(IF env.submitted THEN 100 ELSE 0)

(* The k-th record takes k fetches, each twice as far from its predecessor *)
(* as that from its own: a case whose record comes late is passed late.    *)
ScraperEarned ==
  LET k == env.success_on_attempt IN
  verdict = "passed" /\ k # NoAttempt =>
    /\ Attempts >= k
    /\ env.clock >= BackoffBase * (2 ^ (k - 1) - 1) - BackoffTolerance * (k - 1)
=============================================================================
