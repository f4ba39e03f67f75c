----------------------- MODULE EvaluationServiceProofs -----------------------
(***************************************************************************)
(* The claim is a lock, a verdict stands, and gauge and handler's list are *)
(* explained, for any number of workers, slots, submissions and faults.    *)
(* The first two follow from what a task in a phase after its claim knows  *)
(* of the backend's status; the gauge from counting a worker's tasks.      *)
(***************************************************************************)
EXTENDS EvaluationService, FiniteSetTheorems, TLAPS

LEMMA TaskWorker == ASSUME NEW t \in Tasks PROVE WorkerOf(t) \in Workers
BY DEF Tasks, WorkerOf

LEMMA TypingInit == ASSUME Init PROVE ServiceTypeOK
<1> USE ServiceAssumption
<1>1. /\ pc \in [Tasks -> TaskPc]
      /\ \A t \in Tasks : pc[t] \in {"absent", "free"}
      /\ mainPc \in [Workers -> {"poll", "enqueue", "wait", "join", "stopped"}]
      /\ running \in [Workers -> BOOLEAN]
  <2>1. PICK maxWorkers \in Deployments :
          /\ pc = [t \in Tasks |-> IF t[2] <= maxWorkers[t[1]] THEN "free" ELSE "absent"]
          /\ mainPc = [w \in Workers |-> IF maxWorkers[w] > 0 THEN "poll" ELSE "stopped"]
          /\ running = [w \in Workers |-> maxWorkers[w] > 0]
    BY DEF Init
  <2>2. \A w \in Workers : maxWorkers[w] \in Int
    BY <2>1
  <2> QED
    BY <2>1, <2>2 DEF TaskPc
<1>2. /\ status \in [Submissions -> {"pending", "claimed", "completed"}]
      /\ verdict \in [Submissions -> Verdicts]
      /\ sub \in [Tasks -> Submissions \cup {NoSubmission}]
      /\ \A t \in Tasks : sub[t] = NoSubmission
      /\ attempts \in [Tasks -> 0..(Retries - 1)]
  BY DEF Init, Verdicts, NoVerdict
<1>3. /\ batch \in [Workers -> SUBSET Submissions]
      /\ active \in [Workers -> SUBSET Submissions]
      /\ unclaiming \in [Workers -> SUBSET Submissions]
      /\ gauge \in [Workers -> Int]
      /\ faults \in 0..MaxFaults
      /\ terminated \in SUBSET Workers
      /\ rejected \in [Workers -> Nat]
      /\ givenBack \in SUBSET Submissions
      /\ lost \in SUBSET Submissions
  BY DEF Init
<1>4. \A t \in Tasks : sub[t] = NoSubmission <=> pc[t] \in {"absent", "free"}
  BY <1>1, <1>2
<1> QED
  BY <1>1, <1>2, <1>3, <1>4, Zenon DEF ServiceTypeOK

LEMMA TypingStep == ASSUME ServiceTypeOK, [Next]_vars PROVE ServiceTypeOK'
<1> USE ServiceAssumption
<1>1. ASSUME NEW t \in Tasks, Start(t) PROVE ServiceTypeOK'
  BY <1>1, TaskWorker DEF Start, Goto, backend, threads, loop, history, ServiceTypeOK,
      TaskPc, Verdicts
<1>2. ASSUME NEW t \in Tasks, Claim(t) PROVE ServiceTypeOK'
  BY <1>2 DEF Claim, Goto, BackendClaims, backend, threads, loop, history,
      ServiceTypeOK, TaskPc, Verdicts
<1>3. ASSUME NEW t \in Tasks, ClaimFails(t) PROVE ServiceTypeOK'
  <2>1. sub[t] \in Submissions /\ WorkerOf(t) \in Workers
    BY <1>3, TaskWorker DEF ClaimFails, Goto, ServiceTypeOK
  <2>2. rejected' \in [Workers -> Nat]
    BY <1>3, <2>1 DEF ClaimFails, ServiceTypeOK
  <2>3. status' \in [Submissions -> {"pending", "claimed", "completed"}]
    BY <1>3, <2>1 DEF ClaimFails, BackendClaims, ServiceTypeOK
  <2>4. faults' \in 0..MaxFaults /\ lost' \in SUBSET Submissions
    BY <1>3, <2>1 DEF ClaimFails, Fault, ServiceTypeOK
  <2> QED
    BY <1>3, <2>1, <2>2, <2>3, <2>4 DEF ClaimFails, Goto, loop, ServiceTypeOK, TaskPc
<1>4. ASSUME NEW t \in Tasks, Download(t) PROVE ServiceTypeOK'
  BY <1>4 DEF Download, Goto, Fault, backend, threads, loop, history, ServiceTypeOK,
      TaskPc, Verdicts
<1>5. ASSUME NEW t \in Tasks, GiveBack(t) PROVE ServiceTypeOK'
  BY <1>5 DEF GiveBack, Goto, Unclaim, BackendUnclaims, Fault, backend, threads, loop,
      history, ServiceTypeOK, TaskPc, Verdicts
<1>6. ASSUME NEW t \in Tasks, Prepare(t) PROVE ServiceTypeOK'
  BY <1>6 DEF Prepare, Goto, backend, threads, loop, history, ServiceTypeOK, TaskPc,
      Verdicts
<1>7. ASSUME NEW t \in Tasks, Evaluate(t) PROVE ServiceTypeOK'
  BY <1>7 DEF Evaluate, Goto, Fault, backend, threads, loop, history, ServiceTypeOK,
      TaskPc, Verdicts
<1>8. ASSUME NEW t \in Tasks, ReturnBusy(t) PROVE ServiceTypeOK'
  BY <1>8 DEF ReturnBusy, Goto, Unclaim, BackendUnclaims, Fault, backend, threads, loop,
      history, ServiceTypeOK, TaskPc, Verdicts
<1>9. ASSUME NEW t \in Tasks, Report(t) PROVE ServiceTypeOK'
  BY <1>9 DEF Report, Goto, Reporting, BackendCompletes, VerdictOf, backend, threads,
      loop, history, ServiceTypeOK, TaskPc, Verdicts
<1>10. ASSUME NEW t \in Tasks, ReportFails(t) PROVE ServiceTypeOK'
  <2> DEFINE last == attempts[t] = Retries - 1
  <2>1. /\ status' \in [Submissions -> {"pending", "claimed", "completed"}]
        /\ verdict' \in [Submissions -> Verdicts]
    <3>1. PICK v \in Verdicts : verdict' \in {verdict, [verdict EXCEPT ![sub[t]] = v]}
      <4>1. VerdictOf(t) \in Verdicts
        BY DEF VerdictOf, Verdicts
      <4> QED
        BY <1>10, <4>1 DEF ReportFails, BackendCompletes, backend
    <3>2. status' \in {status, [status EXCEPT ![sub[t]] = "completed"]}
      BY <1>10 DEF ReportFails, BackendCompletes, backend
    <3> QED
      BY <3>1, <3>2 DEF ServiceTypeOK
  <2>2. attempts' \in [Tasks -> 0..(Retries - 1)]
    <3>1. attempts[t] \in 0..(Retries - 1) /\ attempts \in [Tasks -> 0..(Retries - 1)]
      BY DEF ServiceTypeOK
    <3>2. (IF last THEN 0 ELSE attempts[t] + 1) \in 0..(Retries - 1)
      BY <3>1
    <3> QED
      BY <1>10, <3>1, <3>2 DEF ReportFails
  <2>3. /\ pc' \in [Tasks -> TaskPc]
        /\ \A u \in Tasks : sub'[u] = NoSubmission <=> pc'[u] \in {"absent", "free"}
    BY <1>10 DEF ReportFails, Reporting, ServiceTypeOK, TaskPc
  <2>4. lost' \in SUBSET Submissions /\ faults' \in 0..MaxFaults
    BY <1>10 DEF ReportFails, Fault, Reporting, ServiceTypeOK
  <2> QED
    BY <1>10, <2>1, <2>2, <2>3, <2>4 DEF ReportFails, loop, ServiceTypeOK
<1>11. ASSUME NEW t \in Tasks, Finish(t) PROVE ServiceTypeOK'
  BY <1>11, TaskWorker DEF Finish, Goto, backend, threads, loop, history, ServiceTypeOK,
      TaskPc, Verdicts
<1>12. ASSUME NEW t \in Tasks, Leave(t) PROVE ServiceTypeOK'
  BY <1>12 DEF Leave, Goto, WorkerOf, backend, threads, loop, history, ServiceTypeOK,
      TaskPc, Verdicts
<1>13. ASSUME NEW w \in Workers, GetPending(w) PROVE ServiceTypeOK'
  BY <1>13 DEF GetPending, MainGoto, Fault, Pending, Undisturbed, backend, threads,
      loop, history, ServiceTypeOK, TaskPc, Verdicts
<1>14. ASSUME NEW w \in Workers, Enqueue(w) PROVE ServiceTypeOK'
  <2> DEFINE slot == CHOOSE t \in FreeSlots(w) : TRUE
  <2>1. PICK s \in batch[w] :
          /\ pc' = [pc EXCEPT ![slot] = "queued"]
          /\ sub' = [sub EXCEPT ![slot] = s]
          /\ batch' = [batch EXCEPT ![w] = @ \ {s}]
    BY <1>14 DEF Enqueue
  <2>2. s \in Submissions
    BY <2>1 DEF ServiceTypeOK
  <2> HIDE DEF slot
  <2> QED
    BY <1>14, <2>1, <2>2 DEF Enqueue, backend, history, ServiceTypeOK, TaskPc
<1>15. ASSUME NEW w \in Workers, Enqueued(w) PROVE ServiceTypeOK'
  BY <1>15 DEF Enqueued, MainGoto, backend, threads, loop, history, ServiceTypeOK,
      TaskPc, Verdicts
<1>16. ASSUME NEW w \in Workers, Collect(w) PROVE ServiceTypeOK'
  BY <1>16 DEF Collect, MainGoto, TasksOf, backend, threads, loop, history,
      ServiceTypeOK, TaskPc, Verdicts
<1>17. ASSUME NEW w \in Workers, LeaveLoop(w) PROVE ServiceTypeOK'
  BY <1>17 DEF LeaveLoop, MainGoto, backend, threads, loop, history, ServiceTypeOK,
      TaskPc, Verdicts
<1>18. ASSUME NEW w \in Workers, Join(w) PROVE ServiceTypeOK'
  BY <1>18 DEF Join, MainGoto, backend, threads, loop, history, ServiceTypeOK, TaskPc,
      Verdicts
<1>19. ASSUME NEW w \in Workers, HandlerUnclaims(w) PROVE ServiceTypeOK'
  BY <1>19 DEF HandlerUnclaims, Unclaim, BackendUnclaims, Fault, backend, threads, loop,
      history, ServiceTypeOK, TaskPc, Verdicts
<1>20. ASSUME NEW w \in Workers, Sigterm(w) PROVE ServiceTypeOK'
  BY <1>20 DEF Sigterm, backend, threads, loop, history, ServiceTypeOK, TaskPc, Verdicts
<1>21. ASSUME NEW w \in Workers, Interrupt(w) PROVE ServiceTypeOK'
  BY <1>21 DEF Interrupt, backend, threads, loop, history, ServiceTypeOK, TaskPc, Verdicts
<1>22. CASE UNCHANGED vars
  BY <1>22 DEF vars, backend, threads, loop, history, ServiceTypeOK, TaskPc, Verdicts
<1> QED
  BY <1>1, <1>2, <1>3, <1>4, <1>5, <1>6, <1>7, <1>8, <1>9, <1>10, <1>11, <1>12, <1>13,
      <1>14, <1>15, <1>16, <1>17, <1>18, <1>19, <1>20, <1>21, <1>22 DEF Next, Process,
      Main

(* The types of the service's state hold in every behaviour. *)
THEOREM Typing == Spec => []ServiceTypeOK
<1>1. Init => ServiceTypeOK
  BY TypingInit
<1>2. ServiceTypeOK /\ [Next]_vars => ServiceTypeOK'
  BY TypingStep
<1> QED
  BY <1>1, <1>2, PTL DEF Spec

-----------------------------------------------------------------------------
(* What holds of the backend while a task owns a submission, as long as no *)
(* SIGTERM handler has run: it is not pending, and no other task owns it.  *)
LockInv ==
  terminated = {} =>
    /\ \A w \in Workers : unclaiming[w] = {}
    /\ \A t \in Tasks : pc[t] \in Owning => status[sub[t]] # "pending"
    /\ ClaimIsALock

LEMMA LockInit == ASSUME Init PROVE LockInv
BY DEF Init, LockInv, ClaimIsALock, Owning, Alone

LEMMA LockStep == ASSUME ServiceTypeOK, LockInv, [Next]_vars PROVE LockInv'
<1>1. ASSUME NEW t \in Tasks, Start(t) PROVE LockInv'
  BY <1>1 DEF Start, Goto, WorkerOf, backend, threads, loop, history, ServiceTypeOK,
      LockInv, ClaimIsALock, Owning, Alone, TaskPc
<1>2. ASSUME NEW t \in Tasks, Claim(t) PROVE LockInv'
  BY <1>2 DEF Claim, Goto, BackendClaims, backend, threads, loop, history,
      ServiceTypeOK, LockInv, ClaimIsALock, Owning, Alone, TaskPc
<1>3. ASSUME NEW t \in Tasks, ClaimFails(t) PROVE LockInv'
  BY <1>3 DEF ClaimFails, Goto, BackendClaims, Fault, WorkerOf, backend, threads, loop,
      history, ServiceTypeOK, LockInv, ClaimIsALock, Owning, Alone, TaskPc
<1>4. ASSUME NEW t \in Tasks, Download(t) PROVE LockInv'
  BY <1>4 DEF Download, Goto, Fault, backend, threads, loop, history, ServiceTypeOK,
      LockInv, ClaimIsALock, Owning, Alone, TaskPc
<1>5. ASSUME NEW t \in Tasks, GiveBack(t) PROVE LockInv'
  BY <1>5 DEF GiveBack, Goto, Unclaim, BackendUnclaims, Fault, backend, threads, loop,
      history, ServiceTypeOK, LockInv, ClaimIsALock, Owning, Alone, TaskPc
<1>6. ASSUME NEW t \in Tasks, Prepare(t) PROVE LockInv'
  BY <1>6 DEF Prepare, Goto, backend, threads, loop, history, ServiceTypeOK, LockInv,
      ClaimIsALock, Owning, Alone, TaskPc
<1>7. ASSUME NEW t \in Tasks, Evaluate(t) PROVE LockInv'
  BY <1>7 DEF Evaluate, Goto, Fault, backend, threads, loop, history, ServiceTypeOK,
      LockInv, ClaimIsALock, Owning, Alone, TaskPc
<1>8. ASSUME NEW t \in Tasks, ReturnBusy(t) PROVE LockInv'
  BY <1>8 DEF ReturnBusy, Goto, Unclaim, BackendUnclaims, Fault, backend, threads, loop,
      history, ServiceTypeOK, LockInv, ClaimIsALock, Owning, Alone, TaskPc
<1>9. ASSUME NEW t \in Tasks, Report(t) PROVE LockInv'
  BY <1>9 DEF Report, Goto, Reporting, BackendCompletes, VerdictOf, backend, threads,
      loop, history, ServiceTypeOK, LockInv, ClaimIsALock, Owning, Alone, TaskPc
<1>10. ASSUME NEW t \in Tasks, ReportFails(t) PROVE LockInv'
  BY <1>10 DEF ReportFails, Goto, Reporting, BackendCompletes, VerdictOf, Fault,
      backend, threads, loop, history, ServiceTypeOK, LockInv, ClaimIsALock, Owning,
      Alone, TaskPc
<1>11. ASSUME NEW t \in Tasks, Finish(t) PROVE LockInv'
  BY <1>11 DEF Finish, Goto, WorkerOf, backend, threads, loop, history, ServiceTypeOK,
      LockInv, ClaimIsALock, Owning, Alone, TaskPc
<1>12. ASSUME NEW t \in Tasks, Leave(t) PROVE LockInv'
  BY <1>12 DEF Leave, Goto, WorkerOf, backend, threads, loop, history, ServiceTypeOK,
      LockInv, ClaimIsALock, Owning, Alone, TaskPc
<1>13. ASSUME NEW w \in Workers, GetPending(w) PROVE LockInv'
  BY <1>13 DEF GetPending, MainGoto, Fault, Pending, Undisturbed, backend, threads,
      loop, history, ServiceTypeOK, LockInv, ClaimIsALock, Owning, Alone, TaskPc
<1>14. ASSUME NEW w \in Workers, Enqueue(w) PROVE LockInv'
  BY <1>14 DEF Enqueue, backend, threads, loop, history, ServiceTypeOK, LockInv,
      ClaimIsALock, Owning, Alone, TaskPc
<1>15. ASSUME NEW w \in Workers, Enqueued(w) PROVE LockInv'
  BY <1>15 DEF Enqueued, MainGoto, backend, threads, loop, history, ServiceTypeOK,
      LockInv, ClaimIsALock, Owning, Alone, TaskPc
<1>16. ASSUME NEW w \in Workers, Collect(w) PROVE LockInv'
  BY <1>16 DEF Collect, MainGoto, TasksOf, backend, threads, loop, history,
      ServiceTypeOK, LockInv, ClaimIsALock, Owning, Alone, TaskPc
<1>17. ASSUME NEW w \in Workers, LeaveLoop(w) PROVE LockInv'
  BY <1>17 DEF LeaveLoop, MainGoto, backend, threads, loop, history, ServiceTypeOK,
      LockInv, ClaimIsALock, Owning, Alone, TaskPc
<1>18. ASSUME NEW w \in Workers, Join(w) PROVE LockInv'
  BY <1>18 DEF Join, MainGoto, backend, threads, loop, history, ServiceTypeOK, LockInv,
      ClaimIsALock, Owning, Alone, TaskPc
<1>19. ASSUME NEW w \in Workers, HandlerUnclaims(w) PROVE LockInv'
  BY <1>19 DEF HandlerUnclaims, Unclaim, BackendUnclaims, Fault, backend, threads, loop,
      history, ServiceTypeOK, LockInv, ClaimIsALock, Owning, Alone, TaskPc
<1>20. ASSUME NEW w \in Workers, Sigterm(w) PROVE LockInv'
  BY <1>20 DEF Sigterm, backend, threads, loop, history, ServiceTypeOK, LockInv,
      ClaimIsALock, Owning, Alone, TaskPc
<1>21. ASSUME NEW w \in Workers, Interrupt(w) PROVE LockInv'
  BY <1>21 DEF Interrupt, backend, threads, loop, history, ServiceTypeOK, LockInv,
      ClaimIsALock, Owning, Alone, TaskPc
<1>22. CASE UNCHANGED vars
  BY <1>22 DEF vars, backend, threads, loop, history, ServiceTypeOK, LockInv,
      ClaimIsALock, Owning, Alone, TaskPc
<1> QED
  BY <1>1, <1>2, <1>3, <1>4, <1>5, <1>6, <1>7, <1>8, <1>9, <1>10, <1>11, <1>12, <1>13,
      <1>14, <1>15, <1>16, <1>17, <1>18, <1>19, <1>20, <1>21, <1>22 DEF Next, Process,
      Main

(* The claim is a lock until a SIGTERM handler has unclaimed behind the    *)
(* back of a running thread (service.py 303-305): no duplicate poll, lost  *)
(* answer or returned claim makes two tasks evaluate one submission.       *)
THEOREM Locked == Spec => []LockedUntilSigterm
<1>1. Init => LockInv
  BY LockInit
<1>2. ServiceTypeOK /\ LockInv /\ [Next]_vars => LockInv'
  BY LockStep
<1>3. LockInv => LockedUntilSigterm
  BY DEF LockInv, LockedUntilSigterm
<1> QED
  BY <1>1, <1>2, <1>3, Typing, PTL DEF Spec

-----------------------------------------------------------------------------
(* As long as nobody has given a submission back: nothing is decided while *)
(* it is pending, one task at most may decide it, and that task has        *)
(* reported nothing but the verdict it is still reporting.                 *)
Undecided(s) ==
  status[s] = "pending" =>
    /\ verdict[s] = NoVerdict
    /\ \A t \in Tasks : sub[t] = s => pc[t] \notin Deciding

OneDecides(s) ==
  \A t \in Tasks : sub[t] = s /\ pc[t] \in Deciding =>
    /\ Alone(t, Deciding)
    /\ verdict[s] = NoVerdict \/ (Reporting(t) /\ verdict[s] = VerdictOf(t))

VerdictInv == \A s \in Submissions \ givenBack : Undecided(s) /\ OneDecides(s)

LEMMA VerdictInit == ASSUME Init PROVE VerdictInv
BY DEF Init, VerdictInv, Undecided, OneDecides, Deciding, Owning

LEMMA VerdictStep == ASSUME ServiceTypeOK, VerdictInv, [Next]_vars PROVE VerdictInv'
<1>1. ASSUME NEW t \in Tasks, Start(t) PROVE VerdictInv'
  BY <1>1 DEF Start, Goto, WorkerOf, backend, threads, loop, history, ServiceTypeOK,
      VerdictInv, Undecided, OneDecides, Reporting, VerdictOf, Deciding, Owning, Alone,
      TaskPc
<1>2. ASSUME NEW t \in Tasks, Claim(t) PROVE VerdictInv'
  BY <1>2 DEF Claim, Goto, BackendClaims, backend, threads, loop, history,
      ServiceTypeOK, VerdictInv, Undecided, OneDecides, Reporting, VerdictOf, Deciding,
      Owning, Alone, TaskPc
<1>3. ASSUME NEW t \in Tasks, ClaimFails(t) PROVE VerdictInv'
  BY <1>3 DEF ClaimFails, Goto, BackendClaims, Fault, WorkerOf, backend, threads, loop,
      history, ServiceTypeOK, VerdictInv, Undecided, OneDecides, Reporting, VerdictOf,
      Deciding, Owning, Alone, TaskPc
<1>4. ASSUME NEW t \in Tasks, Download(t) PROVE VerdictInv'
  BY <1>4 DEF Download, Goto, Fault, backend, threads, loop, history, ServiceTypeOK,
      VerdictInv, Undecided, OneDecides, Reporting, VerdictOf, Deciding, Owning, Alone,
      TaskPc
<1>5. ASSUME NEW t \in Tasks, GiveBack(t) PROVE VerdictInv'
  BY <1>5 DEF GiveBack, Goto, Unclaim, BackendUnclaims, Fault, backend, threads, loop,
      history, ServiceTypeOK, VerdictInv, Undecided, OneDecides, Reporting, VerdictOf,
      Deciding, Owning, Alone, TaskPc
<1>6. ASSUME NEW t \in Tasks, Prepare(t) PROVE VerdictInv'
  BY <1>6 DEF Prepare, Goto, backend, threads, loop, history, ServiceTypeOK, VerdictInv,
      Undecided, OneDecides, Reporting, VerdictOf, Deciding, Owning, Alone, TaskPc
<1>7. ASSUME NEW t \in Tasks, Evaluate(t) PROVE VerdictInv'
  BY <1>7 DEF Evaluate, Goto, Fault, backend, threads, loop, history, ServiceTypeOK,
      VerdictInv, Undecided, OneDecides, Reporting, VerdictOf, Deciding, Owning, Alone,
      TaskPc
<1>8. ASSUME NEW t \in Tasks, ReturnBusy(t) PROVE VerdictInv'
  BY <1>8 DEF ReturnBusy, Goto, Unclaim, BackendUnclaims, Fault, backend, threads, loop,
      history, ServiceTypeOK, VerdictInv, Undecided, OneDecides, Reporting, VerdictOf,
      Deciding, Owning, Alone, TaskPc
<1>9. ASSUME NEW t \in Tasks, Report(t) PROVE VerdictInv'
  BY <1>9 DEF Report, Goto, Reporting, BackendCompletes, VerdictOf, backend, threads,
      loop, history, ServiceTypeOK, VerdictInv, Undecided, OneDecides, Reporting,
      VerdictOf, Deciding, Owning, Alone, TaskPc
<1>10. ASSUME NEW t \in Tasks, ReportFails(t) PROVE VerdictInv'
  BY <1>10 DEF ReportFails, Goto, Reporting, BackendCompletes, VerdictOf, Fault,
      backend, threads, loop, history, ServiceTypeOK, VerdictInv, Undecided, OneDecides,
      Reporting, VerdictOf, Deciding, Owning, Alone, TaskPc
<1>11. ASSUME NEW t \in Tasks, Finish(t) PROVE VerdictInv'
  BY <1>11 DEF Finish, Goto, WorkerOf, backend, threads, loop, history, ServiceTypeOK,
      VerdictInv, Undecided, OneDecides, Reporting, VerdictOf, Deciding, Owning, Alone,
      TaskPc
<1>12. ASSUME NEW t \in Tasks, Leave(t) PROVE VerdictInv'
  BY <1>12 DEF Leave, Goto, WorkerOf, backend, threads, loop, history, ServiceTypeOK,
      VerdictInv, Undecided, OneDecides, Reporting, VerdictOf, Deciding, Owning, Alone,
      TaskPc
<1>13. ASSUME NEW w \in Workers, GetPending(w) PROVE VerdictInv'
  BY <1>13 DEF GetPending, MainGoto, Fault, Pending, Undisturbed, backend, threads,
      loop, history, ServiceTypeOK, VerdictInv, Undecided, OneDecides, Reporting,
      VerdictOf, Deciding, Owning, Alone, TaskPc
<1>14. ASSUME NEW w \in Workers, Enqueue(w) PROVE VerdictInv'
  BY <1>14 DEF Enqueue, backend, threads, loop, history, ServiceTypeOK, VerdictInv,
      Undecided, OneDecides, Reporting, VerdictOf, Deciding, Owning, Alone, TaskPc
<1>15. ASSUME NEW w \in Workers, Enqueued(w) PROVE VerdictInv'
  BY <1>15 DEF Enqueued, MainGoto, backend, threads, loop, history, ServiceTypeOK,
      VerdictInv, Undecided, OneDecides, Reporting, VerdictOf, Deciding, Owning, Alone,
      TaskPc
<1>16. ASSUME NEW w \in Workers, Collect(w) PROVE VerdictInv'
  BY <1>16 DEF Collect, MainGoto, TasksOf, backend, threads, loop, history,
      ServiceTypeOK, VerdictInv, Undecided, OneDecides, Reporting, VerdictOf, Deciding,
      Owning, Alone, TaskPc
<1>17. ASSUME NEW w \in Workers, LeaveLoop(w) PROVE VerdictInv'
  BY <1>17 DEF LeaveLoop, MainGoto, backend, threads, loop, history, ServiceTypeOK,
      VerdictInv, Undecided, OneDecides, Reporting, VerdictOf, Deciding, Owning, Alone,
      TaskPc
<1>18. ASSUME NEW w \in Workers, Join(w) PROVE VerdictInv'
  BY <1>18 DEF Join, MainGoto, backend, threads, loop, history, ServiceTypeOK,
      VerdictInv, Undecided, OneDecides, Reporting, VerdictOf, Deciding, Owning, Alone,
      TaskPc
<1>19. ASSUME NEW w \in Workers, HandlerUnclaims(w) PROVE VerdictInv'
  BY <1>19 DEF HandlerUnclaims, Unclaim, BackendUnclaims, Fault, backend, threads, loop,
      history, ServiceTypeOK, VerdictInv, Undecided, OneDecides, Reporting, VerdictOf,
      Deciding, Owning, Alone, TaskPc
<1>20. ASSUME NEW w \in Workers, Sigterm(w) PROVE VerdictInv'
  BY <1>20 DEF Sigterm, backend, threads, loop, history, ServiceTypeOK, VerdictInv,
      Undecided, OneDecides, Reporting, VerdictOf, Deciding, Owning, Alone, TaskPc
<1>21. ASSUME NEW w \in Workers, Interrupt(w) PROVE VerdictInv'
  BY <1>21 DEF Interrupt, backend, threads, loop, history, ServiceTypeOK, VerdictInv,
      Undecided, OneDecides, Reporting, VerdictOf, Deciding, Owning, Alone, TaskPc
<1>22. CASE UNCHANGED vars
  BY <1>22 DEF vars, backend, threads, loop, history, ServiceTypeOK, VerdictInv,
      Undecided, OneDecides, Reporting, VerdictOf, Deciding, Owning, Alone, TaskPc
<1> QED
  BY <1>1, <1>2, <1>3, <1>4, <1>5, <1>6, <1>7, <1>8, <1>9, <1>10, <1>11, <1>12, <1>13,
      <1>14, <1>15, <1>16, <1>17, <1>18, <1>19, <1>20, <1>21, <1>22 DEF Next, Process,
      Main

LEMMA VerdictChange ==
  ASSUME ServiceTypeOK, VerdictInv, [Next]_vars,
         NEW s \in Submissions, verdict[s] # NoVerdict, verdict'[s] # verdict[s]
  PROVE  s \in givenBack
<1>1. ASSUME NEW t \in Tasks, Reporting(t), BackendCompletes(sub[t], VerdictOf(t)) PROVE s \in givenBack
  BY <1>1 DEF ServiceTypeOK, VerdictInv, OneDecides, BackendCompletes, Reporting, Deciding
<1>2. CASE UNCHANGED verdict
  BY <1>2
<1>3. ASSUME NEW t \in Tasks, Process(t) PROVE s \in givenBack
  BY <1>1, <1>2, <1>3 DEF Process, Start, Claim, ClaimFails, Download, GiveBack,
      Prepare, Evaluate,
    ReturnBusy, Report, ReportFails, Finish, Leave, Unclaim, backend
<1>4. ASSUME NEW w \in Workers, Main(w) \/ Sigterm(w) \/ Interrupt(w) PROVE s \in givenBack
  BY <1>2, <1>4 DEF Main, GetPending, Enqueue, Enqueued, Collect, LeaveLoop, Join,
    HandlerUnclaims, Unclaim, Sigterm, Interrupt, backend
<1> QED
  BY <1>2, <1>3, <1>4 DEF Next, vars, backend

(* A verdict the backend shows is replaced only for a submission that some *)
(* worker gave back (service.py 133, 196, 305): neither the retries of     *)
(* report_result nor a second worker overwrite it otherwise.               *)
THEOREM VerdictsStand == Spec => VerdictStands
<1>1. Init => VerdictInv
  BY VerdictInit
<1>2. ServiceTypeOK /\ VerdictInv /\ [Next]_vars => VerdictInv'
  BY VerdictStep
<1>3. ServiceTypeOK /\ VerdictInv /\ [Next]_vars =>
        [\A s \in Submissions :
           verdict[s] # NoVerdict /\ verdict'[s] # verdict[s] => s \in givenBack]_vars
  BY VerdictChange
<1> QED
  BY <1>1, <1>2, <1>3, Typing, PTL DEF Spec, VerdictStands
-----------------------------------------------------------------------------
(* A submission nobody gave back is claimed once: from its claim until its *)
(* `finally' the task that did is the only one past its claim.             *)
Past == Deciding \cup {"end"}

OnceInv ==
  \A s \in Submissions \ givenBack :
    /\ status[s] = "pending" => \A t \in Tasks : sub[t] = s => pc[t] \notin Past
    /\ \A t \in Tasks : sub[t] = s /\ pc[t] \in Past => Alone(t, Past)

LEMMA OnceInit == ASSUME Init PROVE OnceInv
BY TypingInit DEF Init, OnceInv, Past, Deciding, Owning, ServiceTypeOK

LEMMA OnceStep == ASSUME ServiceTypeOK, OnceInv, [Next]_vars PROVE OnceInv'
<1>1. ASSUME NEW t \in Tasks, Start(t) PROVE OnceInv'
  BY <1>1 DEF Start, Goto, WorkerOf, backend, threads, loop, history, ServiceTypeOK, OnceInv,
      Past, Deciding, Owning, Alone, TaskPc
<1>2. ASSUME NEW t \in Tasks, Claim(t) PROVE OnceInv'
  BY <1>2 DEF Claim, Goto, BackendClaims, backend, threads, loop, history, ServiceTypeOK,
      OnceInv, Past, Deciding, Owning, Alone, TaskPc
<1>3. ASSUME NEW t \in Tasks, ClaimFails(t) PROVE OnceInv'
  BY <1>3 DEF ClaimFails, Goto, BackendClaims, Fault, WorkerOf, backend, threads, loop, history,
      ServiceTypeOK, OnceInv, Past, Deciding, Owning, Alone, TaskPc
<1>4. ASSUME NEW t \in Tasks, Download(t) PROVE OnceInv'
  BY <1>4 DEF Download, Goto, Fault, backend, threads, loop, history, ServiceTypeOK, OnceInv,
      Past, Deciding, Owning, Alone, TaskPc
<1>5. ASSUME NEW t \in Tasks, GiveBack(t) PROVE OnceInv'
  BY <1>5 DEF GiveBack, Goto, Unclaim, BackendUnclaims, Fault, backend, threads, loop, history,
      ServiceTypeOK, OnceInv, Past, Deciding, Owning, Alone, TaskPc
<1>6. ASSUME NEW t \in Tasks, Prepare(t) PROVE OnceInv'
  BY <1>6 DEF Prepare, Goto, backend, threads, loop, history, ServiceTypeOK, OnceInv, Past,
      Deciding, Owning, Alone, TaskPc
<1>7. ASSUME NEW t \in Tasks, Evaluate(t) PROVE OnceInv'
  BY <1>7 DEF Evaluate, Goto, Fault, backend, threads, loop, history, ServiceTypeOK, OnceInv,
      Past, Deciding, Owning, Alone, TaskPc
<1>8. ASSUME NEW t \in Tasks, ReturnBusy(t) PROVE OnceInv'
  BY <1>8 DEF ReturnBusy, Goto, Unclaim, BackendUnclaims, Fault, backend, threads, loop,
      history, ServiceTypeOK, OnceInv, Past, Deciding, Owning, Alone, TaskPc
<1>9. ASSUME NEW t \in Tasks, Report(t) PROVE OnceInv'
  BY <1>9 DEF Report, Goto, Reporting, BackendCompletes, VerdictOf, backend, threads, loop,
      history, ServiceTypeOK, OnceInv, Past, Deciding, Owning, Alone, TaskPc
<1>10. ASSUME NEW t \in Tasks, ReportFails(t) PROVE OnceInv'
  BY <1>10 DEF ReportFails, Goto, Reporting, BackendCompletes, VerdictOf, Fault, backend,
      threads, loop, history, ServiceTypeOK, OnceInv, Past, Deciding, Owning, Alone, TaskPc
<1>11. ASSUME NEW t \in Tasks, Finish(t) PROVE OnceInv'
  BY <1>11 DEF Finish, Goto, WorkerOf, backend, threads, loop, history, ServiceTypeOK, OnceInv,
      Past, Deciding, Owning, Alone, TaskPc
<1>12. ASSUME NEW t \in Tasks, Leave(t) PROVE OnceInv'
  BY <1>12 DEF Leave, Goto, WorkerOf, backend, threads, loop, history, ServiceTypeOK, OnceInv,
      Past, Deciding, Owning, Alone, TaskPc
<1>13. ASSUME NEW w \in Workers, GetPending(w) PROVE OnceInv'
  BY <1>13 DEF GetPending, MainGoto, Fault, Pending, Undisturbed, backend, threads, loop,
      history, ServiceTypeOK, OnceInv, Past, Deciding, Owning, Alone, TaskPc
<1>14. ASSUME NEW w \in Workers, Enqueue(w) PROVE OnceInv'
  BY <1>14 DEF Enqueue, backend, threads, loop, history, ServiceTypeOK, OnceInv, Past, Deciding,
      Owning, Alone, TaskPc
<1>15. ASSUME NEW w \in Workers, Enqueued(w) PROVE OnceInv'
  BY <1>15 DEF Enqueued, MainGoto, backend, threads, loop, history, ServiceTypeOK, OnceInv,
      Past, Deciding, Owning, Alone, TaskPc
<1>16. ASSUME NEW w \in Workers, Collect(w) PROVE OnceInv'
  BY <1>16 DEF Collect, MainGoto, TasksOf, backend, threads, loop, history, ServiceTypeOK,
      OnceInv, Past, Deciding, Owning, Alone, TaskPc
<1>17. ASSUME NEW w \in Workers, LeaveLoop(w) PROVE OnceInv'
  BY <1>17 DEF LeaveLoop, MainGoto, backend, threads, loop, history, ServiceTypeOK, OnceInv,
      Past, Deciding, Owning, Alone, TaskPc
<1>18. ASSUME NEW w \in Workers, Join(w) PROVE OnceInv'
  BY <1>18 DEF Join, MainGoto, backend, threads, loop, history, ServiceTypeOK, OnceInv, Past,
      Deciding, Owning, Alone, TaskPc
<1>19. ASSUME NEW w \in Workers, HandlerUnclaims(w) PROVE OnceInv'
  BY <1>19 DEF HandlerUnclaims, Unclaim, BackendUnclaims, Fault, backend, threads, loop,
      history, ServiceTypeOK, OnceInv, Past, Deciding, Owning, Alone, TaskPc
<1>20. ASSUME NEW w \in Workers, Sigterm(w) PROVE OnceInv'
  BY <1>20 DEF Sigterm, backend, threads, loop, history, ServiceTypeOK, OnceInv, Past, Deciding,
      Owning, Alone, TaskPc
<1>21. ASSUME NEW w \in Workers, Interrupt(w) PROVE OnceInv'
  BY <1>21 DEF Interrupt, backend, threads, loop, history, ServiceTypeOK, OnceInv, Past,
      Deciding, Owning, Alone, TaskPc
<1>22. CASE UNCHANGED vars
  BY <1>22 DEF vars, backend, threads, loop, history, ServiceTypeOK, OnceInv, Past, Deciding,
      Owning, Alone, TaskPc
<1> QED
  BY <1>1, <1>2, <1>3, <1>4, <1>5, <1>6, <1>7, <1>8, <1>9, <1>10, <1>11, <1>12, <1>13, <1>14,
      <1>15, <1>16, <1>17, <1>18, <1>19, <1>20, <1>21, <1>22 DEF Next, Process, Main
(* The list of active submissions has the submission of every task that    *)
(* has claimed it or is about to, unless another task of the worker took   *)
(* it out.                                                                 *)
Listed(t) ==
  \/ sub[t] \in active[WorkerOf(t)]
  \/ rejected[WorkerOf(t)] > 0
  \/ sub[t] \in givenBack

ListInv ==
  \A t \in Tasks :
    /\ pc[t] = "leave" => rejected[WorkerOf(t)] > 0
    /\ pc[t] \in Past \/ (pc[t] = "claim" /\ status[sub[t]] = "pending") => Listed(t)

LEMMA ListInit == ASSUME Init PROVE ListInv
BY TypingInit DEF Init, ListInv, Past, Deciding, Owning, ServiceTypeOK

LEMMA ListStep == ASSUME ServiceTypeOK, OnceInv, ListInv, [Next]_vars PROVE ListInv'
<1>1. ASSUME NEW t \in Tasks, Start(t) PROVE ListInv'
  BY <1>1, TaskWorker DEF Start, Goto, backend, threads, loop, history, ServiceTypeOK, OnceInv,
      ListInv, Listed, Past, Deciding, Owning, Alone, TaskPc
<1>2. ASSUME NEW t \in Tasks, Claim(t) PROVE ListInv'
  BY <1>2 DEF Claim, Goto, BackendClaims, backend, threads, loop, history, ServiceTypeOK,
      OnceInv, ListInv, Listed, Past, Deciding, Owning, Alone, TaskPc
<1>3. ASSUME NEW t \in Tasks, ClaimFails(t) PROVE ListInv'
  <2> DEFINE w == WorkerOf(t)
  <2>1. /\ pc' = [pc EXCEPT ![t] = "leave"]
        /\ rejected' = [rejected EXCEPT ![w] = @ + 1]
        /\ UNCHANGED <<sub, active, givenBack>>
        /\ \A s \in Submissions : status'[s] = "pending" => status[s] = "pending"
    BY <1>3 DEF ClaimFails, Goto, BackendClaims, ServiceTypeOK
  <2>2. w \in Workers /\ \A u \in Tasks : WorkerOf(u) \in Workers
    BY TaskWorker
  <2>3. rejected'[w] > 0 /\ \A x \in Workers : rejected[x] > 0 => rejected'[x] > 0
    BY <2>1, <2>2 DEF ServiceTypeOK
  <2> HIDE DEF w
  <2>4. \A u \in Tasks : Listed(u) => Listed(u)'
    BY <2>1, <2>2, <2>3 DEF Listed
  <2>5. \A u \in Tasks :
          /\ u # t => pc'[u] = pc[u]
          /\ pc'[t] = "leave"
          /\ sub[u] \in Submissions \cup {NoSubmission}
          /\ pc[u] = "claim" => sub[u] \in Submissions
    BY <2>1 DEF ServiceTypeOK
  <2>6. "leave" \notin Past
    BY DEF Past, Deciding, Owning
  <2> QED
    BY <2>1, <2>3, <2>4, <2>5, <2>6 DEF ListInv, w
<1>4. ASSUME NEW t \in Tasks, Download(t) PROVE ListInv'
  BY <1>4 DEF Download, Goto, Fault, backend, threads, loop, history, ServiceTypeOK, OnceInv,
      ListInv, Listed, Past, Deciding, Owning, Alone, TaskPc
<1>5. ASSUME NEW t \in Tasks, GiveBack(t) PROVE ListInv'
  BY <1>5 DEF GiveBack, Goto, Unclaim, BackendUnclaims, Fault, backend, threads, loop, history,
      ServiceTypeOK, OnceInv, ListInv, Listed, Past, Deciding, Owning, Alone, TaskPc
<1>6. ASSUME NEW t \in Tasks, Prepare(t) PROVE ListInv'
  BY <1>6 DEF Prepare, Goto, backend, threads, loop, history, ServiceTypeOK, OnceInv, ListInv,
      Listed, Past, Deciding, Owning, Alone, TaskPc
<1>7. ASSUME NEW t \in Tasks, Evaluate(t) PROVE ListInv'
  BY <1>7 DEF Evaluate, Goto, Fault, backend, threads, loop, history, ServiceTypeOK, OnceInv,
      ListInv, Listed, Past, Deciding, Owning, Alone, TaskPc
<1>8. ASSUME NEW t \in Tasks, ReturnBusy(t) PROVE ListInv'
  BY <1>8 DEF ReturnBusy, Goto, Unclaim, BackendUnclaims, Fault, backend, threads, loop,
      history, ServiceTypeOK, OnceInv, ListInv, Listed, Past, Deciding, Owning, Alone, TaskPc
<1>9. ASSUME NEW t \in Tasks, Report(t) PROVE ListInv'
  BY <1>9 DEF Report, Goto, Reporting, BackendCompletes, VerdictOf, backend, threads, loop,
      history, ServiceTypeOK, OnceInv, ListInv, Listed, Past, Deciding, Owning, Alone, TaskPc
<1>10. ASSUME NEW t \in Tasks, ReportFails(t) PROVE ListInv'
  BY <1>10 DEF ReportFails, Goto, Reporting, BackendCompletes, VerdictOf, Fault, backend,
      threads, loop, history, ServiceTypeOK, OnceInv, ListInv, Listed, Past, Deciding, Owning,
      Alone, TaskPc
<1>11. ASSUME NEW t \in Tasks, Finish(t) PROVE ListInv'
  BY <1>11 DEF Finish, Goto, WorkerOf, backend, threads, loop, history, ServiceTypeOK, OnceInv,
      ListInv, Listed, Past, Deciding, Owning, Alone, TaskPc
<1>12. ASSUME NEW t \in Tasks, Leave(t) PROVE ListInv'
  BY <1>12 DEF Leave, Goto, WorkerOf, backend, threads, loop, history, ServiceTypeOK, OnceInv,
      ListInv, Listed, Past, Deciding, Owning, Alone, TaskPc
<1>13. ASSUME NEW w \in Workers, GetPending(w) PROVE ListInv'
  BY <1>13 DEF GetPending, MainGoto, Fault, Pending, Undisturbed, backend, threads, loop,
      history, ServiceTypeOK, OnceInv, ListInv, Listed, Past, Deciding, Owning, Alone, TaskPc
<1>14. ASSUME NEW w \in Workers, Enqueue(w) PROVE ListInv'
  BY <1>14 DEF Enqueue, backend, threads, loop, history, ServiceTypeOK, OnceInv, ListInv,
      Listed, Past, Deciding, Owning, Alone, TaskPc
<1>15. ASSUME NEW w \in Workers, Enqueued(w) PROVE ListInv'
  BY <1>15 DEF Enqueued, MainGoto, backend, threads, loop, history, ServiceTypeOK, OnceInv,
      ListInv, Listed, Past, Deciding, Owning, Alone, TaskPc
<1>16. ASSUME NEW w \in Workers, Collect(w) PROVE ListInv'
  BY <1>16 DEF Collect, MainGoto, TasksOf, backend, threads, loop, history, ServiceTypeOK,
      OnceInv, ListInv, Listed, Past, Deciding, Owning, Alone, TaskPc
<1>17. ASSUME NEW w \in Workers, LeaveLoop(w) PROVE ListInv'
  BY <1>17 DEF LeaveLoop, MainGoto, backend, threads, loop, history, ServiceTypeOK, OnceInv,
      ListInv, Listed, Past, Deciding, Owning, Alone, TaskPc
<1>18. ASSUME NEW w \in Workers, Join(w) PROVE ListInv'
  BY <1>18 DEF Join, MainGoto, backend, threads, loop, history, ServiceTypeOK, OnceInv, ListInv,
      Listed, Past, Deciding, Owning, Alone, TaskPc
<1>19. ASSUME NEW w \in Workers, HandlerUnclaims(w) PROVE ListInv'
  BY <1>19 DEF HandlerUnclaims, Unclaim, BackendUnclaims, Fault, backend, threads, loop,
      history, ServiceTypeOK, OnceInv, ListInv, Listed, Past, Deciding, Owning, Alone, TaskPc
<1>20. ASSUME NEW w \in Workers, Sigterm(w) PROVE ListInv'
  BY <1>20 DEF Sigterm, backend, threads, loop, history, ServiceTypeOK, OnceInv, ListInv,
      Listed, Past, Deciding, Owning, Alone, TaskPc
<1>21. ASSUME NEW w \in Workers, Interrupt(w) PROVE ListInv'
  BY <1>21 DEF Interrupt, backend, threads, loop, history, ServiceTypeOK, OnceInv, ListInv,
      Listed, Past, Deciding, Owning, Alone, TaskPc
<1>22. CASE UNCHANGED vars
  BY <1>22 DEF vars, backend, threads, loop, history, ServiceTypeOK, OnceInv, ListInv, Listed,
      Past, Deciding, Owning, Alone, TaskPc
<1> QED
  BY <1>1, <1>2, <1>3, <1>4, <1>5, <1>6, <1>7, <1>8, <1>9, <1>10, <1>11, <1>12, <1>13, <1>14,
      <1>15, <1>16, <1>17, <1>18, <1>19, <1>20, <1>21, <1>22 DEF Next, Process, Main
-----------------------------------------------------------------------------
(* Counting the tasks of a worker that are being processed *)

Busy(w) == {t \in TasksOf(w) : pc[t] \in Processing}

Unused == {"absent", "free"}

LEMMA TasksFinite ==
  ASSUME NEW T, T \in SUBSET Tasks
  PROVE  IsFiniteSet(T) /\ Cardinality(T) \in Nat
<1>1. IsFiniteSet(Workers) /\ IsFiniteSet(1..Slots)
  BY ServiceAssumption, FS_Interval
<1>2. IsFiniteSet(Workers \X (1..Slots))
  BY <1>1, FS_Product, Zenon
<1>3. T \in SUBSET (Workers \X (1..Slots))
  BY DEF Tasks
<1>4. IsFiniteSet(T)
  BY <1>2, <1>3, FS_Subset
<1> QED
  BY <1>4, FS_CardinalityType

(* A step of one task changes what is processed by that task at most.      *)
LEMMA BusyMove ==
  ASSUME ServiceTypeOK, NEW t \in Tasks, NEW to, pc' = [pc EXCEPT ![t] = to],
         NEW w \in Workers
  PROVE  /\ w # WorkerOf(t) \/ (pc[t] \in Processing <=> to \in Processing) => Busy(w)' = Busy(w)
         /\ w = WorkerOf(t) /\ pc[t] \notin Processing /\ to \in Processing =>
              Cardinality(Busy(w)') = Cardinality(Busy(w)) + 1
         /\ w = WorkerOf(t) /\ pc[t] \in Processing /\ to \notin Processing =>
              Cardinality(Busy(w)') = Cardinality(Busy(w)) - 1
<1>1. \A u \in Tasks : pc'[u] = IF u = t THEN to ELSE pc[u]
  BY DEF ServiceTypeOK
<1>2. w # WorkerOf(t) \/ (pc[t] \in Processing <=> to \in Processing) => Busy(w)' = Busy(w)
  BY <1>1 DEF Busy, TasksOf
<1>3. IsFiniteSet(Busy(w)) /\ Cardinality(Busy(w)) \in Nat
  BY TasksFinite DEF Busy, TasksOf
<1>4. ASSUME w = WorkerOf(t), pc[t] \notin Processing, to \in Processing
      PROVE  Cardinality(Busy(w)') = Cardinality(Busy(w)) + 1
  <2>1. Busy(w)' = Busy(w) \cup {t} /\ t \notin Busy(w)
    BY <1>1, <1>4 DEF Busy, TasksOf
  <2> QED
    BY <1>3, <2>1, FS_AddElement
<1>5. ASSUME w = WorkerOf(t), pc[t] \in Processing, to \notin Processing
      PROVE  Cardinality(Busy(w)') = Cardinality(Busy(w)) - 1
  <2>1. Busy(w)' = Busy(w) \ {t} /\ t \in Busy(w)
    BY <1>1, <1>5 DEF Busy, TasksOf
  <2> QED
    BY <1>3, <2>1, FS_RemoveElement
<1> QED
  BY <1>2, <1>4, <1>5

(* What a step of process_submission does to the gauge and to the refused  *)
(* claims, and whether the task is processed before and after.             *)
Entered(t, to) ==
  /\ pc[t] \notin Processing /\ to \in Processing
  /\ gauge' = [gauge EXCEPT ![WorkerOf(t)] = @ + 1]
  /\ rejected' = rejected

Ended(t, to) ==
  /\ pc[t] \in Processing /\ to \notin Processing
  /\ gauge' = [gauge EXCEPT ![WorkerOf(t)] = @ - 1]
  /\ rejected' = rejected

Refused(t, to) ==
  /\ pc[t] \in Processing /\ to \notin Processing
  /\ gauge' = gauge
  /\ rejected' = [rejected EXCEPT ![WorkerOf(t)] = @ + 1]

Continued(t, to) ==
  /\ pc[t] \in Processing <=> to \in Processing
  /\ gauge' = gauge
  /\ rejected' = rejected

LEMMA TaskStep ==
  ASSUME ServiceTypeOK, NEW t \in Tasks, Process(t)
  PROVE  \E to \in TaskPc \ Unused :
           /\ pc' = [pc EXCEPT ![t] = to]
           /\ pc[t] \notin Unused
           /\ batch' = batch
           /\ Entered(t, to) \/ Ended(t, to) \/ Refused(t, to) \/ Continued(t, to)
<1> DEFINE to == pc'[t]
<1> SUFFICES /\ to \in TaskPc \ Unused
             /\ pc' = [pc EXCEPT ![t] = to]
             /\ pc[t] \notin Unused
             /\ batch' = batch
             /\ Entered(t, to) \/ Ended(t, to) \/ Refused(t, to) \/ Continued(t, to)
  OBVIOUS
<1>0. pc \in [Tasks -> TaskPc]
  BY DEF ServiceTypeOK
<1> USE <1>0 DEF Unused, TaskPc, Processing, Goto, loop, history, Entered, Ended, Refused, Continued
<1>1. CASE Start(t) \/ Claim(t) \/ ClaimFails(t)
  BY <1>1 DEF Start, Claim, ClaimFails
<1>2. CASE Download(t) \/ GiveBack(t) \/ Prepare(t)
  BY <1>2 DEF Download, GiveBack, Prepare
<1>3. CASE Evaluate(t) \/ ReturnBusy(t)
  BY <1>3 DEF Evaluate, ReturnBusy
<1>4. CASE Report(t) \/ ReportFails(t)
  BY <1>4 DEF Report, ReportFails, Reporting
<1>5. CASE Finish(t) \/ Leave(t)
  BY <1>5 DEF Finish, Leave
<1> QED
  BY <1>1, <1>2, <1>3, <1>4, <1>5 DEF Process

(* A poll never returns more submissions than the executor has slots, so   *)
(* that every one of them finds one (service.py 318-331).                  *)
BatchFits == \A w \in Workers : Cardinality(batch[w]) <= Cardinality(FreeSlots(w))

LEMMA BatchFinite ==
  ASSUME NEW S, S \in SUBSET Submissions
  PROVE  IsFiniteSet(S) /\ Cardinality(S) \in Nat
BY ServiceAssumption, FS_Subset, FS_CardinalityType

LEMMA FreeFinite ==
  ASSUME NEW w
  PROVE  IsFiniteSet(FreeSlots(w)) /\ Cardinality(FreeSlots(w)) \in Nat
<1>1. FreeSlots(w) \in SUBSET Tasks
  BY DEF FreeSlots, TasksOf
<1> QED
  BY <1>1, TasksFinite

LEMMA FitsInit == ASSUME Init PROVE BatchFits
<1> SUFFICES ASSUME NEW w \in Workers
             PROVE  Cardinality(batch[w]) <= Cardinality(FreeSlots(w))
  BY DEF BatchFits
<1>1. Cardinality(batch[w]) = 0
  BY FS_EmptySet DEF Init
<1> QED
  BY <1>1, FreeFinite

(* Where there is a submission to hand out, there is a slot for it.        *)
LEMMA SlotFound ==
  ASSUME ServiceTypeOK, BatchFits, NEW w \in Workers, batch[w] # {}
  PROVE  (CHOOSE t \in FreeSlots(w) : TRUE) \in FreeSlots(w)
<1>1. IsFiniteSet(batch[w]) /\ Cardinality(batch[w]) \in Nat
  BY BatchFinite DEF ServiceTypeOK
<1>2. Cardinality(batch[w]) # 0
  BY <1>1, FS_EmptySet
<1>3. Cardinality(FreeSlots(w)) # 0
  BY <1>1, <1>2, FreeFinite DEF BatchFits
<1>4. FreeSlots(w) # {}
  BY <1>3, FS_EmptySet
<1> QED
  BY <1>4

LEMMA FitsStep == ASSUME ServiceTypeOK, BatchFits, [Next]_vars PROVE BatchFits'
<1>1. ASSUME NEW t \in Tasks, Process(t) PROVE BatchFits'
  <2>1. PICK to \in TaskPc \ Unused :
          pc' = [pc EXCEPT ![t] = to] /\ pc[t] \notin Unused /\ batch' = batch
    BY <1>1, TaskStep
  <2>2. \A w \in Workers : FreeSlots(w)' = FreeSlots(w)
    BY <2>1 DEF ServiceTypeOK, FreeSlots, TasksOf, Unused
  <2> QED
    BY <2>1, <2>2 DEF BatchFits
<1>2. ASSUME NEW x \in Workers, GetPending(x) PROVE BatchFits'
  <2>1. \A w \in Workers : FreeSlots(w)' = FreeSlots(w)
    BY <1>2 DEF GetPending, threads, FreeSlots, TasksOf
  <2>2. PICK S \in SUBSET Submissions :
          batch' = [batch EXCEPT ![x] = S] /\ Cardinality(S) <= Cardinality(FreeSlots(x))
    <3>1. Cardinality({}) <= Cardinality(FreeSlots(x)) /\ {} \in SUBSET Submissions
      BY FreeFinite, FS_EmptySet
    <3>2. CASE batch' = [batch EXCEPT ![x] = {}]
      BY <3>1, <3>2
    <3>3. CASE batch' # [batch EXCEPT ![x] = {}]
      <4>1. PICK S \in SUBSET Pending :
              /\ \/ Cardinality(S) = Cardinality(FreeSlots(x))
                 \/ Cardinality(S) < Cardinality(FreeSlots(x))
              /\ batch' = [batch EXCEPT ![x] = S]
        BY <1>2, <3>3, SMT DEF GetPending
      <4>2. S \in SUBSET Submissions
        BY DEF Pending
      <4>3. Cardinality(S) <= Cardinality(FreeSlots(x))
        <5>1. Cardinality(S) \in Nat /\ Cardinality(FreeSlots(x)) \in Nat
          BY <4>2, BatchFinite, FreeFinite
        <5> QED
          BY <4>1, <5>1
      <4> QED
        BY <4>1, <4>2, <4>3
    <3> QED
      BY <3>2, <3>3
  <2> QED
    BY <2>1, <2>2 DEF BatchFits, ServiceTypeOK
<1>3. ASSUME NEW x \in Workers, Enqueue(x) PROVE BatchFits'
  <2> DEFINE slot == CHOOSE t \in FreeSlots(x) : TRUE
  <2>1. PICK s \in batch[x] :
          pc' = [pc EXCEPT ![slot] = "queued"] /\ batch' = [batch EXCEPT ![x] = @ \ {s}]
    BY <1>3 DEF Enqueue
  <2>2. slot \in FreeSlots(x)
    BY <2>1, SlotFound
  <2> HIDE DEF slot
  <2>3. /\ FreeSlots(x)' = FreeSlots(x) \ {slot}
        /\ \A w \in Workers \ {x} : FreeSlots(w)' = FreeSlots(w)
    BY <2>1, <2>2 DEF FreeSlots, TasksOf, ServiceTypeOK
  <2>4. Cardinality(FreeSlots(x)') = Cardinality(FreeSlots(x)) - 1
    BY <2>2, <2>3, FreeFinite, FS_RemoveElement
  <2>5. IsFiniteSet(batch[x]) /\ Cardinality(batch[x]) \in Nat
    BY BatchFinite DEF ServiceTypeOK
  <2>6. Cardinality(batch[x] \ {s}) = Cardinality(batch[x]) - 1
    BY <2>5, FS_RemoveElement
  <2>7. /\ batch'[x] = batch[x] \ {s}
        /\ \A w \in Workers \ {x} : batch'[w] = batch[w]
    BY <2>1 DEF ServiceTypeOK
  <2>8. Cardinality(batch'[x]) <= Cardinality(FreeSlots(x)')
    BY <2>4, <2>5, <2>6, <2>7, FreeFinite DEF BatchFits
  <2> QED
    BY <2>3, <2>7, <2>8 DEF BatchFits
<1>4. ASSUME NEW x \in Workers, Collect(x) PROVE BatchFits'
  <2> SUFFICES ASSUME NEW w \in Workers
               PROVE  Cardinality(batch[w]) <= Cardinality(FreeSlots(w)') /\ batch' = batch
    BY DEF BatchFits
  <2>1. FreeSlots(w) \in SUBSET (FreeSlots(w)') /\ FreeSlots(w)' \in SUBSET Tasks
    BY <1>4 DEF Collect, FreeSlots, TasksOf
  <2>2. IsFiniteSet(FreeSlots(w)') /\ Cardinality(FreeSlots(w)') \in Nat
    BY <2>1, TasksFinite
  <2>3. Cardinality(FreeSlots(w)) <= Cardinality(FreeSlots(w)')
    BY <2>1, <2>2, FS_Subset
  <2>4. Cardinality(batch[w]) \in Nat
    BY BatchFinite DEF ServiceTypeOK
  <2> QED
    BY <1>4, <2>2, <2>3, <2>4, FreeFinite DEF BatchFits, Collect
<1>5. ASSUME NEW x \in Workers, Interrupt(x) PROVE BatchFits'
  <2>1. \A w \in Workers : FreeSlots(w)' = FreeSlots(w)
    BY <1>5 DEF Interrupt, threads, FreeSlots, TasksOf
  <2>2. Cardinality({}) <= Cardinality(FreeSlots(x))
    BY FreeFinite, FS_EmptySet
  <2>3. batch' = [batch EXCEPT ![x] = {}]
    BY <1>5 DEF Interrupt
  <2> QED
    BY <2>1, <2>2, <2>3 DEF BatchFits, ServiceTypeOK
<1>6. CASE UNCHANGED <<pc, batch>>
  BY <1>6 DEF BatchFits, FreeSlots, TasksOf
<1> QED
  BY <1>1, <1>2, <1>3, <1>4, <1>5, <1>6 DEF Next, Main, Sigterm, Enqueued, LeaveLoop, Join,
     HandlerUnclaims, threads, loop, vars

LEMMA GaugeInit == ASSUME Init PROVE GaugeExplained
<1> SUFFICES ASSUME NEW w \in Workers PROVE gauge[w] = rejected[w] + Cardinality(Busy(w))
  BY DEF GaugeExplained, Busy
<1>1. \A t \in Tasks : pc[t] \in Unused
  BY DEF Init, Unused
<1>2. Busy(w) = {}
  BY <1>1 DEF Busy, TasksOf, Unused, Processing
<1> QED
  BY <1>2, FS_EmptySet DEF Init

LEMMA GaugeStep ==
  ASSUME ServiceTypeOK, BatchFits, GaugeExplained, [Next]_vars
  PROVE  GaugeExplained'
<1> SUFFICES ASSUME NEW w \in Workers PROVE gauge'[w] = rejected'[w] + Cardinality(Busy(w)')
  BY DEF GaugeExplained, Busy
<1>0. /\ gauge[w] = rejected[w] + Cardinality(Busy(w))
      /\ gauge[w] \in Int /\ rejected[w] \in Nat /\ Cardinality(Busy(w)) \in Nat
  BY TasksFinite DEF GaugeExplained, Busy, TasksOf, ServiceTypeOK
<1>1. ASSUME NEW t \in Tasks, Process(t)
      PROVE  gauge'[w] = rejected'[w] + Cardinality(Busy(w)')
  <2>1. PICK to \in TaskPc \ Unused :
          /\ pc' = [pc EXCEPT ![t] = to]
          /\ Entered(t, to) \/ Ended(t, to) \/ Refused(t, to) \/ Continued(t, to)
    BY <1>1, TaskStep
  <2>2. CASE w # WorkerOf(t)
    <3>1. Busy(w)' = Busy(w)
      BY <2>1, <2>2, BusyMove
    <3>2. gauge'[w] = gauge[w] /\ rejected'[w] = rejected[w]
      BY <2>1, <2>2 DEF Entered, Ended, Refused, Continued, ServiceTypeOK
    <3> QED
      BY <1>0, <3>1, <3>2
  <2>3. CASE w = WorkerOf(t)
    <3>1. CASE Entered(t, to)
      <4>1. Cardinality(Busy(w)') = Cardinality(Busy(w)) + 1
        BY <2>1, <2>3, <3>1, BusyMove DEF Entered
      <4>2. gauge'[w] = gauge[w] + 1 /\ rejected'[w] = rejected[w]
        BY <2>3, <3>1 DEF Entered, ServiceTypeOK
      <4> QED
        BY <1>0, <4>1, <4>2
    <3>2. CASE Ended(t, to)
      <4>1. Cardinality(Busy(w)') = Cardinality(Busy(w)) - 1
        BY <2>1, <2>3, <3>2, BusyMove DEF Ended
      <4>2. gauge'[w] = gauge[w] - 1 /\ rejected'[w] = rejected[w]
        BY <2>3, <3>2 DEF Ended, ServiceTypeOK
      <4> QED
        BY <1>0, <4>1, <4>2
    <3>3. CASE Refused(t, to)
      <4>1. Cardinality(Busy(w)') = Cardinality(Busy(w)) - 1
        BY <2>1, <2>3, <3>3, BusyMove DEF Refused
      <4>2. gauge'[w] = gauge[w] /\ rejected'[w] = rejected[w] + 1
        BY <2>3, <3>3 DEF Refused, ServiceTypeOK
      <4> QED
        BY <1>0, <4>1, <4>2
    <3>4. CASE Continued(t, to)
      <4>1. Busy(w)' = Busy(w)
        BY <2>1, <2>3, <3>4, BusyMove DEF Continued
      <4> QED
        BY <1>0, <3>4, <4>1 DEF Continued
    <3> QED
      BY <2>1, <3>1, <3>2, <3>3, <3>4
  <2> QED
    BY <2>2, <2>3
<1>2. ASSUME NEW x \in Workers, Enqueue(x)
      PROVE  gauge'[w] = rejected'[w] + Cardinality(Busy(w)')
  <2> DEFINE slot == CHOOSE t \in FreeSlots(x) : TRUE
  <2>1. /\ batch[x] # {}
        /\ pc' = [pc EXCEPT ![slot] = "queued"]
        /\ gauge' = gauge /\ rejected' = rejected
    BY <1>2 DEF Enqueue, history
  <2>2. slot \in FreeSlots(x)
    BY <2>1, SlotFound
  <2> HIDE DEF slot
  <2>3. slot \in Tasks /\ pc[slot] \notin Processing /\ "queued" \notin Processing
    BY <2>2 DEF FreeSlots, TasksOf, Processing
  <2>4. Busy(w)' = Busy(w)
    BY <2>1, <2>3, BusyMove
  <2> QED
    BY <1>0, <2>1, <2>4
<1>3. ASSUME NEW x \in Workers, Collect(x)
      PROVE  gauge'[w] = rejected'[w] + Cardinality(Busy(w)')
  <2>1. Busy(w)' = Busy(w)
    BY <1>3 DEF Collect, Busy, TasksOf, Processing, ServiceTypeOK, TaskPc
  <2> QED
    BY <1>0, <1>3, <2>1 DEF Collect, history
<1>4. CASE UNCHANGED <<pc, gauge, rejected>>
  <2>1. Busy(w)' = Busy(w)
    BY <1>4 DEF Busy, TasksOf
  <2> QED
    BY <1>0, <1>4, <2>1
<1>5. ASSUME NEW x \in Workers,
             \/ GetPending(x) \/ Enqueued(x) \/ LeaveLoop(x) \/ Join(x)
             \/ HandlerUnclaims(x) \/ Sigterm(x) \/ Interrupt(x)
      PROVE  UNCHANGED <<pc, gauge, rejected>>
  BY <1>5 DEF GetPending, Enqueued, LeaveLoop, Join, HandlerUnclaims, Sigterm, Interrupt,
     threads, history
<1>6. CASE UNCHANGED vars
  BY <1>4, <1>6 DEF vars, threads, history
<1> QED
  BY <1>1, <1>2, <1>3, <1>4, <1>5, <1>6 DEF Next, Main

(* current_submissions counts the submissions being processed and every    *)
(* claim that was refused, and the list of active submissions lacks one a  *)
(* thread owns only after another task of the worker took it out, for any  *)
(* number of workers and slots, any faults and any signals (health.py 36,  *)
(* 143, service.py 116, 122, 219).                                         *)
THEOREM Bookkeeping == Spec => []BookkeepingExplained
<1>1. Init => OnceInv /\ ListInv /\ BatchFits /\ GaugeExplained
  BY OnceInit, ListInit, FitsInit, GaugeInit
<1>2. ServiceTypeOK /\ OnceInv /\ ListInv /\ BatchFits /\ GaugeExplained /\ [Next]_vars
        => (OnceInv /\ ListInv /\ BatchFits /\ GaugeExplained)'
  BY OnceStep, ListStep, FitsStep, GaugeStep
<1>3. ListInv /\ GaugeExplained => BookkeepingExplained
  BY DEF ListInv, Listed, Past, Deciding, BookkeepingExplained, HandlerMissesOnlyShared
<1> QED
  BY <1>1, <1>2, <1>3, Typing, PTL DEF Spec
=============================================================================
