-------------------------- MODULE EvaluationService --------------------------
(***************************************************************************)
(* The evaluation workers (service.py) and the backend they share.         *)
(*                                                                         *)
(* A worker is one EvaluationService process: a main loop that polls the   *)
(* backend for as many submissions as it has free slots, a thread per      *)
(* submission that runs process_submission(), and a SIGTERM handler that   *)
(* interrupts the main thread.  Workers meet only at the backend, whose    *)
(* claim is meant as a lock.  Its requests carry the submission and        *)
(* nothing that names the worker.                                          *)
(*                                                                         *)
(* The backend is external, modelled from how client.py uses it: a claim   *)
(* answers 200 iff the submission is pending, an unclaim returns a claimed *)
(* submission to pending, a `complete' update is final whatever came       *)
(* before.  The cases of an evaluation are the subject of another module;  *)
(* here an evaluation takes some time and ends, fails or finds no sandbox. *)
(***************************************************************************)
EXTENDS Integers, FiniteSets

CONSTANTS
  Workers,       \* service processes
  Slots,         \* the most max_workers of one of them
  Deployments,   \* the max_workers of each process, 0 for one that is not run
  Submissions,
  NoSubmission,
  Retries,       \* max_retries of report_result
  MaxFaults,     \* bound: requests that fail, answers lost, sandboxes busy
  Signals,       \* the workers that may receive SIGTERM
  BusyEscapes    \* TRUE: the evaluator lets SandboxBusyError through

ASSUME ServiceAssumption ==
  /\ IsFiniteSet(Workers) /\ IsFiniteSet(Submissions)
  /\ Slots \in Nat \ {0} /\ Deployments \subseteq [Workers -> 0..Slots]
  /\ Retries \in Nat \ {0} /\ MaxFaults \in Nat
  /\ NoSubmission \notin Submissions
  /\ Signals \subseteq Workers
  /\ BusyEscapes \in BOOLEAN

Tasks == {t \in Workers \X (1..Slots) : \E maxWorkers \in Deployments : t[2] <= maxWorkers[t[1]]}
NoVerdict == <<>>

VARIABLES
  status,      \* backend: what each submission is
  verdict,     \* backend: the terminal result it shows, with the task that sent it
  pc, sub,     \* each slot of each executor: where its thread is, on what
  attempts,    \* how often its report_result has tried
  mainPc,      \* where each worker's main thread is
  running,     \* _running
  batch,       \* the submissions the last poll returned
  active,      \* _active_submit_ids
  unclaiming,  \* what the SIGTERM handler still has to unclaim
  gauge,       \* current_submissions
  faults,      \* how much of that has happened so far
  terminated,  \* history: workers that got SIGTERM
  rejected,    \* history: how many claims of a worker did not succeed
  givenBack,   \* history: submissions some worker unclaimed
  lost         \* history: submissions whose claim, return or result got lost for good

backend == <<status, verdict>>
threads == <<pc, sub, attempts>>
loop == <<mainPc, running, batch, unclaiming>>
history == <<terminated, rejected, givenBack, lost>>
vars == <<backend, threads, loop, active, gauge, faults, history>>

TaskPc == {"absent", "free", "queued", "claim", "download", "giveBack", "prepare", "evaluate",
           "busy", "report", "reportError", "end", "leave", "done"}
Verdicts == {NoVerdict} \cup (Tasks \X {"result", "error"})

ServiceTypeOK ==
  /\ status \in [Submissions -> {"pending", "claimed", "completed"}]
  /\ verdict \in [Submissions -> Verdicts]
  /\ pc \in [Tasks -> TaskPc]
  /\ sub \in [Tasks -> Submissions \cup {NoSubmission}]
  /\ \A t \in Tasks : sub[t] = NoSubmission <=> pc[t] \in {"absent", "free"}
  /\ attempts \in [Tasks -> 0..(Retries - 1)]
  /\ mainPc \in [Workers -> {"poll", "enqueue", "wait", "join", "stopped"}]
  /\ running \in [Workers -> BOOLEAN]
  /\ batch \in [Workers -> SUBSET Submissions]
  /\ active \in [Workers -> SUBSET Submissions]
  /\ unclaiming \in [Workers -> SUBSET Submissions]
  /\ gauge \in [Workers -> Int]
  /\ faults \in 0..MaxFaults
  /\ terminated \in SUBSET Workers
  /\ rejected \in [Workers -> Nat]
  /\ givenBack \in SUBSET Submissions
  /\ lost \in SUBSET Submissions

Init ==
  /\ status = [s \in Submissions |-> "pending"]
  /\ verdict = [s \in Submissions |-> NoVerdict]
  /\ sub = [t \in Tasks |-> NoSubmission]
  /\ attempts = [t \in Tasks |-> 0]
  /\ \E maxWorkers \in Deployments :
       /\ pc = [t \in Tasks |-> IF t[2] <= maxWorkers[t[1]] THEN "free" ELSE "absent"]
       /\ mainPc = [w \in Workers |-> IF maxWorkers[w] > 0 THEN "poll" ELSE "stopped"]
       /\ running = [w \in Workers |-> maxWorkers[w] > 0]
  /\ batch = [w \in Workers |-> {}]
  /\ active = [w \in Workers |-> {}]
  /\ unclaiming = [w \in Workers |-> {}]
  /\ gauge = [w \in Workers |-> 0]
  /\ faults = 0
  /\ terminated = {}
  /\ rejected = [w \in Workers |-> 0]
  /\ givenBack = {}
  /\ lost = {}

Goto(t, from, to) == pc[t] = from /\ pc' = [pc EXCEPT ![t] = to]
MainGoto(w, from, to) == mainPc[w] = from /\ mainPc' = [mainPc EXCEPT ![w] = to]
Fault == faults < MaxFaults /\ faults' = faults + 1

WorkerOf(t) == t[1]
TasksOf(w) == {t \in Tasks : WorkerOf(t) = w}
FreeSlots(w) == {t \in TasksOf(w) : pc[t] = "free"}
Pending == {s \in Submissions : status[s] = "pending"}

-----------------------------------------------------------------------------
(* Backend: /internal/claim-submission, unclaim-submission, eval-update *)

BackendClaims(s) == status[s] = "pending" /\ status' = [status EXCEPT ![s] = "claimed"]

BackendUnclaims(s) ==
  status' = [status EXCEPT ![s] = IF @ = "claimed" THEN "pending" ELSE @]

BackendCompletes(s, v) ==
  /\ status' = [status EXCEPT ![s] = "completed"]
  /\ verdict' = [verdict EXCEPT ![s] = v]

(* client.unclaim_submission: its failure is ignored by every caller *)
Unclaim(s) ==
  /\ \/ BackendUnclaims(s) /\ givenBack' = givenBack \cup {s} /\ UNCHANGED <<faults, lost>>
     \/ Fault /\ UNCHANGED <<status, givenBack>> /\ lost' = lost \cup {s}
  /\ UNCHANGED verdict

-----------------------------------------------------------------------------
(* process_submission *)

(* Mutant: the submission is not listed as active. *)
StartUnlisted(t) ==
  /\ Goto(t, "queued", "claim")
  /\ gauge' = [gauge EXCEPT ![WorkerOf(t)] = @ + 1]
  /\ UNCHANGED <<backend, sub, attempts, loop, active, faults, history>>

Start(t) ==
  LET w == WorkerOf(t) IN
  /\ Goto(t, "queued", "claim")
  /\ active' = [active EXCEPT ![w] = @ \cup {sub[t]}]
  /\ gauge' = [gauge EXCEPT ![w] = @ + 1]
  /\ UNCHANGED <<backend, sub, attempts, loop, faults, history>>

(* Mutant: a claim that is not a lock. *)
ClaimAnyway(t) ==
  /\ Goto(t, "claim", "download")
  /\ status' = [status EXCEPT ![sub[t]] = "claimed"]
  /\ UNCHANGED <<verdict, sub, attempts, loop, active, gauge, faults, history>>

Claim(t) ==
  /\ Goto(t, "claim", "download")
  /\ BackendClaims(sub[t])
  /\ UNCHANGED <<verdict, sub, attempts, loop, active, gauge, faults, history>>

(* The backend refuses, the request fails, or its answer is lost.  None of *)
(* the three tells the metrics that the submission is over.                *)
ClaimFails(t) ==
  /\ Goto(t, "claim", "leave")
  /\ rejected' = [rejected EXCEPT ![WorkerOf(t)] = @ + 1]
  /\ \/ status[sub[t]] # "pending" /\ UNCHANGED <<status, faults, lost>>
     \/ Fault /\ UNCHANGED <<status, lost>>
     \/ Fault /\ BackendClaims(sub[t]) /\ lost' = lost \cup {sub[t]}
  /\ UNCHANGED <<verdict, sub, attempts, loop, active, gauge, terminated, givenBack>>

Download(t) ==
  /\ \/ Goto(t, "download", "prepare") /\ UNCHANGED faults
     \/ Goto(t, "download", "giveBack") /\ Fault
  /\ UNCHANGED <<backend, sub, attempts, loop, active, gauge, history>>

(* The code could not be downloaded: the claim is returned, and then the   *)
(* ValueError reaches the generic handler, which reports a final error.    *)
GiveBack(t) ==
  /\ Goto(t, "giveBack", "reportError")
  /\ Unclaim(sub[t])
  /\ UNCHANGED <<sub, attempts, loop, active, gauge, terminated, rejected>>

(* requirements.txt is missing, or the evaluator class is not one *)
Prepare(t) ==
  /\ Goto(t, "prepare", "evaluate") \/ Goto(t, "prepare", "reportError")
  /\ UNCHANGED <<backend, sub, attempts, loop, active, gauge, faults, history>>

Evaluate(t) ==
  /\ \/ Goto(t, "evaluate", "report") /\ UNCHANGED faults
     \/ Goto(t, "evaluate", "reportError") /\ UNCHANGED faults
     \/ BusyEscapes /\ Goto(t, "evaluate", "busy") /\ Fault
  /\ UNCHANGED <<backend, sub, attempts, loop, active, gauge, history>>

ReturnBusy(t) ==
  /\ Goto(t, "busy", "end")
  /\ Unclaim(sub[t])
  /\ UNCHANGED <<sub, attempts, loop, active, gauge, terminated, rejected>>

-----------------------------------------------------------------------------
(* client.report_result, for a result and for an error *)

VerdictOf(t) == <<t, IF pc[t] = "report" THEN "result" ELSE "error">>
Reporting(t) == pc[t] \in {"report", "reportError"}

Report(t) ==
  /\ Reporting(t)
  /\ BackendCompletes(sub[t], VerdictOf(t))
  /\ pc' = [pc EXCEPT ![t] = "end"]
  /\ attempts' = [attempts EXCEPT ![t] = 0]
  /\ UNCHANGED <<sub, loop, active, gauge, faults, history>>

(* A try fails, before or after the backend took it in; the last one gives *)
(* the report up, and process_submission ignores that.                     *)
ReportFails(t) ==
  LET last == attempts[t] = Retries - 1
      taken == BackendCompletes(sub[t], VerdictOf(t))
      missed == UNCHANGED backend
  IN
  /\ Reporting(t)
  /\ Fault
  /\ taken \/ missed
  /\ pc' = [pc EXCEPT ![t] = IF last THEN "end" ELSE @]
  /\ attempts' = [attempts EXCEPT ![t] = IF last THEN 0 ELSE @ + 1]
  /\ lost' = IF last THEN lost \cup {sub[t]} ELSE lost
  /\ UNCHANGED <<sub, loop, active, gauge, terminated, rejected, givenBack>>

(* Mutant: the metrics are not told. *)
FinishUnrecorded(t) ==
  /\ Goto(t, "end", "done")
  /\ active' = [active EXCEPT ![WorkerOf(t)] = @ \ {sub[t]}]
  /\ UNCHANGED <<backend, sub, attempts, loop, gauge, faults, history>>

(* record_submission_end or record_submission_cancel, then the `finally' *)
Finish(t) ==
  LET w == WorkerOf(t) IN
  /\ Goto(t, "end", "done")
  /\ gauge' = [gauge EXCEPT ![w] = @ - 1]
  /\ active' = [active EXCEPT ![w] = @ \ {sub[t]}]
  /\ UNCHANGED <<backend, sub, attempts, loop, faults, history>>

(* The `finally' alone, after a claim that failed *)
Leave(t) ==
  /\ Goto(t, "leave", "done")
  /\ active' = [active EXCEPT ![WorkerOf(t)] = @ \ {sub[t]}]
  /\ UNCHANGED <<backend, sub, attempts, loop, gauge, faults, history>>

Process(t) ==
  \/ Start(t) \/ Claim(t) \/ ClaimFails(t) \/ Download(t) \/ GiveBack(t)
  \/ Prepare(t) \/ Evaluate(t) \/ ReturnBusy(t)
  \/ Report(t) \/ ReportFails(t) \/ Finish(t) \/ Leave(t)

-----------------------------------------------------------------------------
(* The main loop; the SIGTERM handler runs in its thread, between its steps *)

Undisturbed(w) == unclaiming[w] = {}

(* One tick: ask for as many submissions as there are slots... *)
GetPending(w) ==
  /\ Undisturbed(w)
  /\ running[w]
  /\ MainGoto(w, "poll", "enqueue")
  /\ \/ /\ \E S \in SUBSET Pending :
             /\ \/ Cardinality(S) = Cardinality(FreeSlots(w))
                \/ S = Pending /\ Cardinality(S) < Cardinality(FreeSlots(w))
             /\ batch' = [batch EXCEPT ![w] = S]
        /\ UNCHANGED faults
     \/ Fault /\ batch' = [batch EXCEPT ![w] = {}]
  /\ UNCHANGED <<backend, threads, running, unclaiming, active, gauge, history>>

(* ... submit them to the executor one by one, each to a thread of its own ... *)
Enqueue(w) ==
  LET t == CHOOSE t \in FreeSlots(w) : TRUE IN
  /\ Undisturbed(w)
  /\ mainPc[w] = "enqueue"
  /\ \E s \in batch[w] :
       /\ pc' = [pc EXCEPT ![t] = "queued"]
       /\ sub' = [sub EXCEPT ![t] = s]
       /\ batch' = [batch EXCEPT ![w] = @ \ {s}]
  /\ UNCHANGED <<backend, attempts, mainPc, running, unclaiming, active, gauge, faults, history>>

Enqueued(w) ==
  /\ Undisturbed(w)
  /\ batch[w] = {}
  /\ MainGoto(w, "enqueue", "wait")
  /\ UNCHANGED <<backend, threads, running, batch, unclaiming, active, gauge, faults, history>>

(* Mutant: a finished future is popped but its task is not. *)
CollectHalf(w) ==
  /\ Undisturbed(w)
  /\ MainGoto(w, "wait", "poll")
  /\ pc' = [t \in Tasks |-> IF WorkerOf(t) = w /\ pc[t] = "done" THEN "free" ELSE pc[t]]
  /\ UNCHANGED <<backend, sub, attempts, running, batch, unclaiming, active, gauge, faults, history>>

(* Mutant: finished futures are never popped. *)
CollectNothing(w) ==
  /\ Undisturbed(w)
  /\ MainGoto(w, "wait", "poll")
  /\ UNCHANGED <<backend, threads, running, batch, unclaiming, active, gauge, faults, history>>

(* ... wait for one to be done or for poll_interval, pop what is done.  A  *)
(* task past its timeout is logged once and keeps its slot.                *)
Collect(w) ==
  LET done == {t \in TasksOf(w) : pc[t] = "done"} IN
  /\ Undisturbed(w)
  /\ MainGoto(w, "wait", "poll")
  /\ pc' = [t \in Tasks |-> IF t \in done THEN "free" ELSE pc[t]]
  /\ sub' = [t \in Tasks |-> IF t \in done THEN NoSubmission ELSE sub[t]]
  /\ UNCHANGED <<backend, attempts, running, batch, unclaiming, active, gauge, faults, history>>

LeaveLoop(w) ==
  /\ Undisturbed(w)
  /\ ~running[w]
  /\ MainGoto(w, "poll", "join")
  /\ UNCHANGED <<backend, threads, running, batch, unclaiming, active, gauge, faults, history>>

(* The executor's `with' waits for every thread; then SandboxManager is    *)
(* shut down and run() returns.                                            *)
Join(w) ==
  /\ Undisturbed(w)
  /\ MainGoto(w, "join", "stopped")
  /\ \A t \in TasksOf(w) : pc[t] \in {"absent", "free", "done"}
  /\ UNCHANGED <<backend, threads, running, batch, unclaiming, active, gauge, faults, history>>

Sigterm(w) ==
  /\ w \in Signals \ terminated
  /\ mainPc[w] # "stopped"
  /\ running' = [running EXCEPT ![w] = FALSE]
  /\ unclaiming' = [unclaiming EXCEPT ![w] = active[w]]
  /\ terminated' = terminated \cup {w}
  /\ UNCHANGED <<backend, threads, mainPc, batch, active, gauge, faults, rejected, givenBack, lost>>

(* Mutant: the handler retries an unclaim until the backend agrees. *)
HandlerUnclaimsUntilHeard(w) ==
  /\ \E s \in unclaiming[w] :
       /\ unclaiming' = [unclaiming EXCEPT ![w] = IF status[s] = "claimed" THEN @ \ {s} ELSE @]
       /\ Unclaim(s)
  /\ UNCHANGED <<threads, mainPc, running, batch, active, gauge, terminated, rejected>>

HandlerUnclaims(w) ==
  /\ \E s \in unclaiming[w] :
       /\ unclaiming' = [unclaiming EXCEPT ![w] = @ \ {s}]
       /\ Unclaim(s)
  /\ UNCHANGED <<threads, mainPc, running, batch, active, gauge, terminated, rejected>>

(* Ctrl+C and stop(): _running becomes FALSE and a tick under way is left. *)
Interrupt(w) ==
  /\ Undisturbed(w)
  /\ w \in Signals
  /\ running[w]
  /\ mainPc[w] \in {"poll", "enqueue", "wait"}
  /\ running' = [running EXCEPT ![w] = FALSE]
  /\ mainPc' = [mainPc EXCEPT ![w] = "poll"]
  /\ batch' = [batch EXCEPT ![w] = {}]
  /\ UNCHANGED <<backend, threads, unclaiming, active, gauge, faults, history>>

Main(w) ==
  \/ GetPending(w) \/ Enqueue(w) \/ Enqueued(w) \/ Collect(w)
  \/ LeaveLoop(w) \/ Join(w) \/ HandlerUnclaims(w)

Next ==
  \/ \E t \in Tasks : Process(t)
  \/ \E w \in Workers : Main(w) \/ Sigterm(w) \/ Interrupt(w)

(* Threads keep running.  An evaluation ends because every case has a      *)
(* deadline; a request ends because it has a timeout.                      *)
Fairness ==
  /\ \A t \in Tasks : WF_vars(Process(t))
  /\ \A w \in Workers : WF_vars(Main(w))

Spec == Init /\ [][Next]_vars /\ Fairness

-----------------------------------------------------------------------------
(* Properties *)

(* Where a task works on a submission because its claim succeeded. *)
Owning == {"download", "giveBack", "prepare", "evaluate", "busy"}
Deciding == Owning \cup {"report", "reportError"}
Processing == TaskPc \ {"absent", "free", "queued", "leave", "done"}

Alone(t, phases) == \A u \in Tasks \ {t} : ~(pc[u] \in phases /\ sub[u] = sub[t])

(* The claim is the lock the docs call it (docs, `claim lock'): one        *)
(* evaluation of a submission at a time, whatever the workers poll, lose   *)
(* or give back.  After a SIGTERM it is not.                               *)
ClaimIsALock == \A t \in Tasks : pc[t] \in Owning => Alone(t, Owning)

(* The lock holds as long as no SIGTERM handler unclaims behind the back   *)
(* of a running thread (service.py 303-305): duplicate polls, lost claims  *)
(* and returned claims do not break it.                                    *)
LockedUntilSigterm == terminated = {} => ClaimIsALock

(* A terminal result the backend shows is never replaced by another task's *)
(* unless some worker gave the submission back (service.py 133, 305): the  *)
(* retries of report_result only ever repeat the same verdict.             *)
VerdictStands ==
  [][\A s \in Submissions :
       verdict[s] # NoVerdict /\ verdict'[s] # verdict[s] => s \in givenBack]_vars

(* current_submissions (health.py 36, 143) counts the submissions being    *)
(* processed and, for ever, the claims that did not succeed: no other path *)
(* through process_submission forgets or repeats a decrement.              *)
GaugeExplained ==
  \A w \in Workers :
    gauge[w] = rejected[w] + Cardinality({t \in TasksOf(w) : pc[t] \in Processing})

(* The SIGTERM handler unclaims what _active_submit_ids holds.  The tasks  *)
(* of a worker share it, so that the `finally' of one takes out the id     *)
(* another still works on (service.py 116, 122, 133, 219).  The handler    *)
(* misses a submission a thread owns only after that: the other task's     *)
(* claim was refused, or the submission had been given back before.        *)
HandlerMissesOnlyShared ==
  \A t \in Tasks :
    pc[t] \in Owning =>
      \/ sub[t] \in active[WorkerOf(t)]
      \/ rejected[WorkerOf(t)] > 0
      \/ sub[t] \in givenBack

(* What a worker keeps about its tasks is off only by refused and returned *)
(* claims.                                                                 *)
BookkeepingExplained == GaugeExplained /\ HandlerMissesOnlyShared

(* Whatever fails, a worker told to stop does stop, once the threads of *)
(* its executor are all through (service.py 272-297) ...                   *)
WorkerStops == \A w \in Signals : ~running[w] ~> mainPc[w] = "stopped"

(* ... and while some worker runs, every submission is decided, unless its *)
(* claim, its return or its result got lost for good: given back, polled   *)
(* twice or refused, it is found again by a later tick.                    *)
EverySubmissionDecided ==
  \A s \in Submissions :
    <>(status[s] = "completed" \/ s \in lost \/ \A w \in Workers : ~running[w])

=============================================================================
