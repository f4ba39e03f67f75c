------------------------- MODULE EmergencyShutdown -------------------------
(***************************************************************************)
(* LocalEvaluator.evaluate (local/evaluator.py) over the SandboxManager.   *)
(*                                                                         *)
(* The evaluator's outermost `finally' calls shutdown_all_sandboxes().     *)
(* When the main thread leaves by KeyboardInterrupt the pool was shut down *)
(* with wait=False, so the sessions' threads are still running: the main   *)
(* thread destroys the sandboxes of the snapshot it takes while sessions   *)
(* create more and later destroy their own once again.  Sessions that      *)
(* start afterwards belong to the next evaluate() of the same process.     *)
(***************************************************************************)
EXTENDS SandboxManager

CONSTANT MaxPresses   \* bound: how often the user presses Ctrl+C

VARIABLES
  shutPc,   \* where the main thread is: running cases, in shutdown(), or out of it
  todo,     \* the snapshot of active sandboxes it still has to destroy
  victim,   \* the sandbox it is destroying, a set of at most one
  handler,  \* the SIGINT handler installed: the guard, or the one before it
  presses   \* number of Ctrl+C so far

shutVars == <<shutPc, todo, victim, handler, presses>>
evars == <<vars, shutVars>>

Cleaning == {"next", "close", "unregister", "release"}

EInit ==
  /\ Init
  /\ shutPc = "waiting"
  /\ todo = {}
  /\ victim = {}
  /\ handler = "guard"
  /\ presses = 0

ShutGoto(from, to) == shutPc = from /\ shutPc' = to

(* The outermost `finally': the flag is set, the registry is snapshot.     *)
EnterCleanup ==
  /\ ShutGoto("waiting", "next")
  /\ todo' = active

(* Every future is done: the `finally' is entered with the guard in place. *)
CasesDone ==
  /\ Quiescent
  /\ EnterCleanup
  /\ UNCHANGED <<vars, victim, handler, presses>>

(* While cases run, the guard puts the previous handler back and raises    *)
(* KeyboardInterrupt; pending futures are cancelled, running ones are not. *)
(* During cleanup the guard would swallow the signal, but after a first    *)
(* Ctrl+C it is not installed any more.                                    *)
CtrlC ==
  /\ presses < MaxPresses
  /\ presses' = presses + 1
  /\ \/ /\ handler = "guard"
        /\ EnterCleanup
        /\ handler' = "original"
        /\ UNCHANGED victim
     \/ /\ handler = "guard"
        /\ shutPc \in Cleaning
        /\ UNCHANGED <<shutPc, todo, victim, handler>>
     \/ /\ handler = "original"
        /\ shutPc \in Cleaning
        /\ shutPc' = "aborted"
        /\ todo' = {}
        /\ victim' = {}
        /\ UNCHANGED handler
  /\ UNCHANGED vars

ShutNext ==
  /\ shutPc = "next"
  /\ \/ /\ todo = {}
        /\ shutPc' = "returned"
        /\ UNCHANGED <<todo, victim>>
     \/ \E s \in todo :
          /\ shutPc' = "close"
          /\ victim' = {s}
          /\ todo' = todo \ {s}
  /\ UNCHANGED <<vars, handler, presses>>

(* close() may fail here as well; the session's own cleanup tries again. *)
ShutClose ==
  /\ ShutGoto("close", "unregister")
  /\ containers' \in {containers \ victim, containers}
  /\ UNCHANGED <<permits, active, stats, orphans, caseVars, mainPc, todo, victim, handler, presses>>

ShutUnregister ==
  /\ ShutGoto("unregister", "release")
  /\ active' = active \ victim
  /\ stats' = Counted(stats.created, stats.destroyed + 1, active')
  /\ UNCHANGED <<permits, containers, orphans, caseVars, mainPc, todo, victim, handler, presses>>

ShutRelease ==
  /\ ShutGoto("release", "next")
  /\ permits' = permits + 1
  /\ victim' = {}
  /\ UNCHANGED <<active, stats, containers, orphans, caseVars, mainPc, todo, handler, presses>>

Shutdown == ShutNext \/ ShutClose \/ ShutUnregister \/ ShutRelease

(* A session started while the main thread is still inside the interrupted *)
(* evaluate() would have been one of its cancelled futures.                *)
LocalSession(c) ==
  /\ pc[c] = "idle" => shutPc \notin Cleaning
  /\ Session(c)
  /\ UNCHANGED shutVars

ENext == CasesDone \/ CtrlC \/ Shutdown \/ \E c \in Cases : LocalSession(c)

EFairness == WF_evars(Shutdown) /\ \A c \in Cases : WF_evars(LocalSession(c))

ESpec == EInit /\ [][ENext]_evars /\ EFairness

-----------------------------------------------------------------------------
(* Properties *)

(* What still holds after an emergency shutdown: no permit is lost, so the *)
(* next evaluation of the process is never starved by the interrupted one, *)
(* not even when the shutdown itself was cut short inside a destroy().     *)
PermitsNeverLost == permits + Cardinality(Holding) >= MaxConcurrent

(* Every container is removed in the end, even one created after the       *)
(* snapshot or left by an aborted shutdown: its own session's cleanup      *)
(* destroys it (evaluator.py 371-386, pair_session.py 537-541), unless     *)
(* Docker refused.                                                         *)
EveryContainerGoes == <>[](containers \subseteq orphans)

(* A second destroy() of the same sandbox leaves the registry and its      *)
(* gauge right, and nothing stays registered once all threads are out.     *)
GaugeRight ==
  /\ stats.current = Cardinality(active)
  /\ Quiescent /\ shutPc \notin Cleaning => active = {}

(* Both accounts of the sandboxes survive a double destroy(). *)
AccountsKept == PermitsNeverLost /\ GaugeRight

(* The claim of the manager's documentation: the semaphore bounds the      *)
(* sandboxes of the whole machine.  A sandbox destroyed both by shutdown() *)
(* and by its session's cleanup is released twice, so that later sessions  *)
(* run more containers than max_concurrent.                                *)
MachineLimit == Cardinality(containers \ orphans) <= MaxConcurrent
=============================================================================
