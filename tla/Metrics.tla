------------------------------- MODULE Metrics -------------------------------
(***************************************************************************)
(* The metrics of a worker process and its health server (health.py).      *)
(* One collector is shared by all threads; every record_ call is one step  *)
(* under its lock.  One server is shared by all services of the process:   *)
(* the first that runs creates it, the first that ends stops it.           *)
(***************************************************************************)
EXTENDS Integers, Sequences, FiniteSets, FiniteSetsExt, SequencesExt

CONSTANTS
  Services,        \* each runs once, with its health server enabled
  Submissions,
  Durations,       \* bound: milliseconds, rounded down, a submission takes
  MaxCases,        \* bound: cases of a submission
  MaxErrors,       \* max_errors
  MaxTold          \* bound: errors recorded

MetricsAssumption ==
  /\ IsFiniteSet(Submissions) /\ Durations \subseteq Nat
  /\ MaxCases \in Nat /\ MaxErrors \in Nat \ {0}

VARIABLES
  metrics,         \* the collector
  submission,      \* what process_submission does with each
  ended,           \* history: the ends recorded, in order
  told,            \* history: the errors recorded, in order
  service,         \* where each run() is
  server,          \* _health_server: none, idle (it never started) or up
  checks,          \* the server's checks: name -> critical
  health           \* the last answer of /health: code, status, results

metricsVars == <<metrics, submission, ended, told, service, server, checks, health>>
collected == <<metrics, submission, ended, told>>
served == <<service, server, checks, health>>

NoAnswer == [code |-> 0, status |-> "", failing |-> {}]

MetricsInit ==
  /\ metrics = [current |-> 0, total |-> 0, success |-> 0, failed |-> 0, cases |-> 0, passed |-> 0,
                notPassed |-> 0, time |-> 0, min |-> 0, max |-> 0, errors |-> <<>>]
  /\ submission = [s \in Submissions |-> "pending"]
  /\ ended = <<>> /\ told = <<>>
  /\ service = [s \in Services |-> "off"]
  /\ server = "none" /\ checks = <<>> /\ health = NoAnswer

-----------------------------------------------------------------------------
(* The collector *)

(* Mutant: a full list takes no more errors. *)
AddErrorUntilFull(errors, e) == IF Len(errors) < MaxErrors THEN Append(errors, e) ELSE errors

(* _add_error keeps the last max_errors. *)
AddError(errors, e) ==
  LET more == Append(errors, e) IN SubSeq(more, Max({1, Len(more) - MaxErrors + 1}), Len(more))

NextError == Len(told) + 1
Tell == Len(told) < MaxTold /\ told' = Append(told, NextError)

RecordStart(s) ==
  /\ submission[s] = "pending"
  /\ submission' = [submission EXCEPT ![s] = "running"]
  /\ metrics' = [metrics EXCEPT !.current = @ + 1]
  /\ UNCHANGED <<ended, told, served>>

(* Mutant: the first duration is compared with the initial 0. *)
LeastOnlyLess(min, ms) == IF ms < min THEN ms ELSE min

(* 0 stands for no duration yet, also when it is one. *)
Least(min, ms) == IF min = 0 \/ ms < min THEN ms ELSE min

(* record_submission_end: a result, or an exception with its error, which  *)
(* is told unless the exception's text is empty: r.error.                  *)
RecordEnd(s, r) ==
  /\ submission[s] = "running"
  /\ submission' = [submission EXCEPT ![s] = "ended"]
  /\ ended' = Append(ended, r)
  /\ metrics' = [current |-> metrics.current - 1,
                 total |-> metrics.total + 1,
                 success |-> metrics.success + (IF r.success THEN 1 ELSE 0),
                 failed |-> metrics.failed + (IF r.success THEN 0 ELSE 1),
                 cases |-> metrics.cases + r.cases,
                 passed |-> metrics.passed + r.passed,
                 notPassed |-> metrics.notPassed + (r.cases - r.passed),
                 time |-> metrics.time + r.ms,
                 min |-> Least(metrics.min, r.ms),
                 max |-> Max({metrics.max, r.ms}),
                 errors |-> IF r.error THEN AddError(metrics.errors, NextError) ELSE metrics.errors]
  /\ IF r.error THEN Tell ELSE UNCHANGED told
  /\ UNCHANGED served

Results ==
  {r \in [success : BOOLEAN, error : BOOLEAN, ms : Durations, cases : 0..MaxCases, passed : 0..MaxCases] :
     /\ r.passed <= r.cases
     /\ r.error => ~r.success /\ r.cases = 0}

(* Sandbox busy: the error is told in a step of its own. *)
RecordCancel(s) ==
  /\ submission[s] = "running"
  /\ submission' = [submission EXCEPT ![s] = "cancelled"]
  /\ metrics' = [metrics EXCEPT !.current = @ - 1]
  /\ UNCHANGED <<ended, told, served>>

(* A claim that fails returns without a word to the collector. *)
ClaimFails(s) ==
  /\ submission[s] = "running"
  /\ submission' = [submission EXCEPT ![s] = "not claimed"]
  /\ UNCHANGED <<metrics, ended, told, served>>

(* Timeouts, the main loop's exceptions, a busy sandbox. *)
RecordError ==
  /\ Tell
  /\ metrics' = [metrics EXCEPT !.errors = AddError(@, NextError)]
  /\ UNCHANGED <<submission, ended, served>>

(* What /metrics and /stats read: the counters as they are, the average,   *)
(* and as eval_errors_total the length of the list.                        *)
Scraped ==
  [counters |-> metrics, errors_total |-> Len(metrics.errors),
   avg |-> IF metrics.total > 0 THEN metrics.time \div metrics.total ELSE 0]

-----------------------------------------------------------------------------
(* The server *)

Default == [name \in {"worker", "sandbox"} |-> name = "worker"]

(* Mutant: a port that is taken stops nobody. *)
StartUnbound(s, bound) ==
  /\ service[s] = "off"
  /\ service' = [service EXCEPT ![s] = "running"]
  /\ server' = IF server # "none" THEN server ELSE IF bound THEN "up" ELSE "idle"
  /\ checks' = IF server = "none" THEN Default ELSE checks
  /\ UNCHANGED <<collected, health>>

(* run() up to start_health_server: the server is made, remembered, given  *)
(* its checks, and then bound to its port, which may be taken: that raises *)
(* out of run().  Whoever finds a server, of whatever port, leaves it.     *)
StartHealthServer(s, bound) ==
  /\ service[s] = "off"
  /\ service' = [service EXCEPT ![s] = IF server = "none" /\ ~bound THEN "raised" ELSE "running"]
  /\ server' = IF server # "none" THEN server ELSE IF bound THEN "up" ELSE "idle"
  /\ checks' = IF server = "none" THEN Default ELSE checks
  /\ UNCHANGED <<collected, health>>

AddHealthCheck(critical) ==
  /\ server # "none" /\ "more" \notin DOMAIN checks
  /\ checks' = [name \in DOMAIN checks \cup {"more"} |-> IF name = "more" THEN critical ELSE checks[name]]
  /\ UNCHANGED <<collected, service, server, health>>

(* The end of run(), whoever started the server. *)
StopHealthServer(s) ==
  /\ service[s] = "running"
  /\ service' = [service EXCEPT ![s] = "over"]
  /\ server' = "none"
  /\ UNCHANGED <<collected, checks, health>>

(* run_all.  A check that raises counts as failed. *)
Status(failing) ==
  IF \E name \in failing : checks[name] THEN "unhealthy"
  ELSE IF failing # {} THEN "degraded" ELSE "healthy"

(* GET /health: the worker's check always succeeds, the sandbox's fails    *)
(* when every permit is taken.                                             *)
HandleHealth ==
  /\ server = "up"
  /\ \E failing \in SUBSET (DOMAIN checks \ {"worker"}) :
       health' = [code |-> IF Status(failing) = "unhealthy" THEN 503 ELSE 200,
                  status |-> Status(failing), failing |-> failing]
  /\ UNCHANGED <<collected, service, server, checks>>

MetricsNext ==
  \/ \E s \in Submissions :
       \/ RecordStart(s) \/ RecordCancel(s) \/ ClaimFails(s)
       \/ \E r \in Results : RecordEnd(s, r)
  \/ RecordError
  \/ \E s \in Services :
       \/ \E bound \in BOOLEAN : StartHealthServer(s, bound)
       \/ StopHealthServer(s)
  \/ \E critical \in BOOLEAN : AddHealthCheck(critical)
  \/ HandleHealth

-----------------------------------------------------------------------------
In(status) == Cardinality({s \in Submissions : submission[s] \in status})
Ends == 1..Len(ended)
EndedCases == Ends \X (1..MaxCases)

(* The ends since the last one with a duration of 0. *)
SinceZero == {i \in Ends : \A j \in i..Len(ended) : ended[j].ms > 0}

(* The counters agree with what was recorded, whatever the order of the    *)
(* threads: ends are successes or failures, cases passed or not; what is   *)
(* current is running, or was not claimed; the minimum starts over after a *)
(* submission of 0 ms; and the errors are the latest, so that their number *)
(* stops being their total.                                                *)
CountersAgree ==
  LET m == Scraped.counters IN
  /\ m.current = In({"running", "not claimed"})
  /\ m.total = In({"ended"}) /\ m.total = m.success + m.failed
  /\ m.success = Cardinality({i \in Ends : ended[i].success})
  /\ m.cases = m.passed + m.notPassed
  /\ m.passed = Cardinality({c \in EndedCases : c[2] <= ended[c[1]].passed})
  /\ m.notPassed = Cardinality({c \in EndedCases : ended[c[1]].passed < c[2] /\ c[2] <= ended[c[1]].cases})
  /\ m.min = IF SinceZero = {} THEN 0 ELSE Min({ended[i].ms : i \in SinceZero})
  /\ m.max = Max({0} \cup {ended[i].ms : i \in Ends})
  /\ Scraped.avg <= m.max
  /\ m.errors = SubSeq(told, Len(told) - Len(m.errors) + 1, Len(told))
  /\ Scraped.errors_total = Min({Len(told), MaxErrors})

(* A running service has its health server, unless another one could not   *)
(* start it, which leaves it there for the next to find, or has ended and  *)
(* taken it away.  No server outlives its services, and only a critical    *)
(* check, which the package has none of that fails, makes it answer 503.   *)
ServerServes ==
  /\ \A s \in Services : service[s] = "running" /\ server # "up" =>
       \E t \in Services \ {s} : service[t] \in {"raised", "over"}
  /\ server = "idle" => \E s \in Services : service[s] = "raised"
  /\ server = "up" => \E s \in Services : service[s] = "running"
  /\ health.code = 503 => "more" \in health.failing

MetricsRight == CountersAgree /\ ServerServes
=============================================================================
