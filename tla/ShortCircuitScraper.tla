-------------------------- MODULE ShortCircuitScraper --------------------------
(***************************************************************************)
(* problems/short_circuit_scraper: the user sends a scraper to every       *)
(* endpoint, takes the profile of the first that finds it, cancels the     *)
(* others and submits.  The scrapers run in the user's sandbox, where the  *)
(* adapter counts those that come home after the submission.               *)
(***************************************************************************)
EXTENDS TurnBasedCase

CONSTANTS
  Endpoints,
  ValidDelay, InvalidDelay,   \* VALID_DELAY and INVALID_DELAY, in ticks
  BlockDelay,                 \* SUBMIT_BLOCK_DELAY
  SubmitDeadline,             \* submit_deadline
  ClockLimit                  \* bound on the clock

(* A scraper of an invalid endpoint takes longest, but no longer than the  *)
(* submission is held back.                                                *)
CircuitAssumption ==
  /\ ValidDelay \in Nat /\ InvalidDelay \in Nat /\ BlockDelay \in Nat /\ SubmitDeadline \in Nat
  /\ ValidDelay <= InvalidDelay /\ InvalidDelay <= BlockDelay

Never == -1

(* stage: where the user's submitting thread is; scrapers: the time each   *)
(* one's wait began and ends, and how it came home.                        *)
CircuitInit ==
  /\ CaseInit
  /\ \E valid \in Endpoints :
       env = [valid |-> valid, told |-> Never, start |-> Never, clock |-> 0,
              cancelled |-> FALSE, profile |-> FALSE, stage |-> "idle", submitAt |-> Never,
              correct |-> FALSE, leaked |-> 0,
              scraper |-> [i \in Endpoints |-> [state |-> "idle", began |-> Never, due |-> Never]]]

Local(e) == verdict = "running" /\ env' = e /\ UNCHANGED <<verdict, score>>
Fail(e) == Applied(e, TRUE, FALSE, 0)

(* get_user starts the clock anew, whenever it is called. *)
GetUser ==
  /\ env.stage = "idle"
  /\ Applied([env EXCEPT !.start = env.clock, !.told = env.valid], FALSE, FALSE, 0)

(* Before get_user the adapter takes every endpoint for an invalid one.    *)
GetInfo(i) ==
  /\ env.scraper[i].state = "idle"
  /\ LET delay == IF i = env.told THEN ValidDelay ELSE InvalidDelay IN
     Local([env EXCEPT !.scraper[i] =
              IF env.cancelled THEN [state |-> "cancelled", began |-> env.clock, due |-> Never]
              ELSE [state |-> "waiting", began |-> env.clock, due |-> env.clock + delay]])

Waiting(i) == env.scraper[i].state = "waiting"

(* A wait that is over: it counts as leaked once submit() has begun. *)
ComesHome(i) ==
  /\ Waiting(i) /\ env.scraper[i].due <= env.clock
  /\ Local([env EXCEPT !.scraper[i].state = "home",
                       !.leaked = IF env.stage = "idle" THEN @ ELSE @ + 1,
                       !.profile = @ \/ i = env.told])

(* The event is never cleared: it wakes every scraper, and later ones too. *)
Cancel ==
  /\ ~env.cancelled
  /\ Local([env EXCEPT !.cancelled = TRUE,
              !.scraper = [i \in Endpoints |->
                             IF Waiting(i) THEN [@[i] EXCEPT !.state = "cancelled"] ELSE @[i]]])

(* submit: the flag under the lock, the judge's verdict on the fields, the *)
(* sleep, the count under the lock, the cascade check.                     *)
BeginSubmit == env.stage = "idle" /\ Local([env EXCEPT !.stage = "judge", !.submitAt = env.clock])

JudgeSubmit(right) ==
  /\ env.stage = "judge"
  /\ right => env.profile
  /\ IF env.start = Never \/ env.clock - env.start > SubmitDeadline \/ ~right
     THEN Fail([env EXCEPT !.stage = "refused"])
     ELSE Applied([env EXCEPT !.stage = "block", !.correct = TRUE], FALSE, FALSE, 0)

(* Mutant: the judge looks before the detection window is over. *)
HastyCascadeCheck ==
  /\ env.stage = "block"
  /\ IF env.leaked > 0 THEN Fail(env)
     ELSE Applied(env, TRUE, env.correct, IF env.correct THEN 100 ELSE 0)

CascadeCheck ==
  /\ env.stage = "block" /\ env.clock >= env.submitAt + BlockDelay
  /\ IF env.leaked > 0 THEN Fail(env)
     ELSE Applied(env, TRUE, env.correct, IF env.correct THEN 100 ELSE 0)

(* Time passes when no wait is over; the submitting thread's sleep, which  *)
(* began with the judge's answer, is taken to begin with the submission.   *)
Tick ==
  /\ env.clock < ClockLimit
  /\ env.stage # "judge"
  /\ env.stage = "block" => env.clock < env.submitAt + BlockDelay
  /\ \A i \in Endpoints : Waiting(i) => env.clock < env.scraper[i].due
  /\ Local([env EXCEPT !.clock = @ + 1])

CircuitNext ==
  \/ GetUser
  \/ \E i \in Endpoints : GetInfo(i) \/ ComesHome(i)
  \/ Cancel
  \/ BeginSubmit
  \/ \E right \in BOOLEAN : JudgeSubmit(right)
  \/ CascadeCheck
  \/ Tick
  \/ Interrupted(0)

(* Who passes has cancelled every scraper that was out when the submission *)
(* began: one that had left before it cannot outlast the detection window. *)
CascadeCaught ==
  verdict = "passed" =>
    /\ env.profile /\ env.submitAt - env.start <= SubmitDeadline
    /\ \A i \in Endpoints :
         env.scraper[i].began \in 0..(env.submitAt - 1) =>
           /\ ~Waiting(i)
           /\ env.scraper[i].state = "home" => env.scraper[i].due <= env.submitAt
=============================================================================
