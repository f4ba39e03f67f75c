--------------------------- MODULE SandboxManager ---------------------------
(***************************************************************************)
(* SandboxManager (sandbox_pool.py) and the case sessions that use it.     *)
(*                                                                         *)
(* The manager is a process-wide singleton: a semaphore of max_concurrent  *)
(* permits, a registry of active sandboxes and a statistics record, the    *)
(* last two guarded by one lock.  Every case of every submission runs in a *)
(* thread of its own and creates Need sandboxes one after the other (judge *)
(* and user for a pair session, judge and N agents for an isolated one),   *)
(* runs, and destroys in its `finally' whatever it was given.  A block     *)
(* under the manager's lock is one step; everything else interleaves.      *)
(*                                                                         *)
(* Not modelled: the 60 s of the semaphore's timeout (it may fire whenever *)
(* no permit is free), and the keep-alive process that ends a container by *)
(* itself after sandbox_timeout seconds (the container remains).           *)
(***************************************************************************)
EXTENDS Integers, FiniteSets

CONSTANTS
  Cases,          \* the case sessions, each run once by a thread of its own
  Need,           \* the number of sandboxes a session creates
  MaxConcurrent,  \* max_concurrent, the permits of the semaphore
  Isolated        \* TRUE: a session prepares each sandbox before the next create

ASSUME ManagerAssumption ==
  /\ IsFiniteSet(Cases)
  /\ Need \in Nat \ {0}
  /\ MaxConcurrent \in Nat \ {0}
  /\ Isolated \in BOOLEAN

VARIABLES
  permits,     \* value of _semaphore
  active,      \* keys of _active_sandboxes
  stats,       \* _stats
  containers,  \* what the Docker daemon keeps: containers not yet removed
  orphans,     \* history: containers no thread will ever try to remove (again)
  pc,          \* where each session's thread is
  made,        \* number of sandboxes create() has returned to the session
  gone,        \* number of those destroy() is finished with
  outcome,     \* how the session ended, for its evaluator
  mainPc       \* the thread that calls shutdown()

managerVars == <<permits, active, stats, containers, orphans>>
caseVars == <<pc, made, gone, outcome>>
vars == <<permits, active, stats, containers, orphans, pc, made, gone, outcome, mainPc>>

(* The k-th sandbox a case creates; Docker gives every container a fresh id. *)
Sandboxes == Cases \X (1..Need)

InCreate == {"docker", "register", "giveback"}
InDestroy == {"close", "unregister", "release"}
CasePc == {"idle", "acquire", "body", "done"} \cup InCreate \cup InDestroy
Outcomes == {"none", "busy", "failed", "ran"}

TypeOK ==
  /\ permits \in Nat
  /\ active \in SUBSET Sandboxes
  /\ stats \in [created : Nat, destroyed : Nat, current : Nat]
  /\ containers \in SUBSET Sandboxes
  /\ orphans \in SUBSET Sandboxes
  /\ pc \in [Cases -> CasePc]
  /\ made \in [Cases -> 0..Need]
  /\ gone \in [Cases -> 0..Need]
  /\ outcome \in [Cases -> Outcomes]
  /\ mainPc \in {"running", "stopped"}

Init ==
  /\ permits = MaxConcurrent
  /\ active = {}
  /\ stats = [created |-> 0, destroyed |-> 0, current |-> 0]
  /\ containers = {}
  /\ orphans = {}
  /\ pc = [c \in Cases |-> "idle"]
  /\ made = [c \in Cases |-> 0]
  /\ gone = [c \in Cases |-> 0]
  /\ outcome = [c \in Cases |-> "none"]
  /\ mainPc = "running"

Goto(c, from, to) == pc[c] = from /\ pc' = [pc EXCEPT ![c] = to]

(* The sandbox c is creating, and the one it is destroying. *)
Fresh(c) == <<c, made[c] + 1>>
Leaving(c) == <<c, gone[c] + 1>>

(* current_active is recomputed from the registry at every change. *)
Counted(created, destroyed, registry) ==
  [created |-> created, destroyed |-> destroyed, current |-> Cardinality(registry)]

(* Mutants of CleanupEntry: a failed setup leaks, or destroys what it never got. *)
CleanupEntryForgets(c) == "done"
CleanupEntryAlways(c) == "close"

(* Where a session goes when it has nothing more to do with its sandboxes  *)
(* or enters its `finally' after a failure.                                *)
CleanupEntry(c) == IF made[c] = 0 THEN "done" ELSE "close"

StartCase(c) ==
  /\ Goto(c, "idle", "acquire")
  /\ mainPc = "running"
  /\ UNCHANGED <<managerVars, made, gone, outcome, mainPc>>

(* Mutants of the definitions below: a plausible slip each.     *)
AcquireTwice(c) ==
  /\ Goto(c, "acquire", "docker")
  /\ permits' = IF permits > 0 THEN permits - 1 ELSE 0
  /\ UNCHANGED <<active, stats, containers, orphans, made, gone, outcome, mainPc>>

(* waiting for ever while holding a sandbox *)
AcquireTimeoutFirstOnly(c) ==
  /\ Goto(c, "acquire", CleanupEntry(c))
  /\ permits = 0
  /\ made[c] = 0
  /\ outcome' = [outcome EXCEPT ![c] = "busy"]
  /\ UNCHANGED <<managerVars, made, gone, mainPc>>

UnregisterStaleGauge(c) ==
  /\ Goto(c, "unregister", "release")
  /\ active' = active \ {Leaving(c)}
  /\ stats' = Counted(stats.created, stats.destroyed + 1, active)
  /\ UNCHANGED <<permits, containers, orphans, made, gone, outcome, mainPc>>

ReleaseNothing(c) ==
  /\ Goto(c, "release", IF gone[c] + 1 = made[c] THEN "done" ELSE "close")
  /\ gone' = [gone EXCEPT ![c] = @ + 1]
  /\ UNCHANGED <<permits, active, stats, containers, orphans, made, outcome, mainPc>>

-----------------------------------------------------------------------------
(* SandboxManager.create *)

Acquire(c) ==
  /\ Goto(c, "acquire", "docker")
  /\ permits > 0
  /\ permits' = permits - 1
  /\ UNCHANGED <<active, stats, containers, orphans, made, gone, outcome, mainPc>>

(* semaphore.acquire(timeout=60) gave up: SandboxBusyError ends the session *)
AcquireTimeout(c) ==
  /\ Goto(c, "acquire", CleanupEntry(c))
  /\ permits = 0
  /\ outcome' = [outcome EXCEPT ![c] = "busy"]
  /\ UNCHANGED <<managerVars, made, gone, mainPc>>

RunContainer(c) ==
  /\ Goto(c, "docker", "register")
  /\ containers' = containers \cup {Fresh(c)}
  /\ UNCHANGED <<permits, active, stats, orphans, made, gone, outcome, mainPc>>

RunContainerFails(c) ==
  /\ Goto(c, "docker", "giveback")
  /\ UNCHANGED <<managerVars, made, gone, outcome, mainPc>>

(* containers.run returned but DockerSandbox(container) raised on reload:  *)
(* the caller's `sandbox' is still None, so nobody kills the container.    *)
WrapContainerFails(c) ==
  /\ Goto(c, "docker", "giveback")
  /\ containers' = containers \cup {Fresh(c)}
  /\ orphans' = orphans \cup {Fresh(c)}
  /\ UNCHANGED <<permits, active, stats, made, gone, outcome, mainPc>>

Register(c) ==
  /\ Goto(c, "register", IF made[c] + 1 = Need THEN "body" ELSE "acquire")
  /\ active' = active \cup {Fresh(c)}
  /\ stats' = Counted(stats.created + 1, stats.destroyed, active')
  /\ made' = [made EXCEPT ![c] = @ + 1]
  /\ UNCHANGED <<permits, containers, orphans, gone, outcome, mainPc>>

(* The `finally' of a create() that failed, and the error it raises *)
GiveBack(c) ==
  /\ Goto(c, "giveback", CleanupEntry(c))
  /\ permits' = permits + 1
  /\ outcome' = [outcome EXCEPT ![c] = "failed"]
  /\ UNCHANGED <<active, stats, containers, orphans, made, gone, mainPc>>

-----------------------------------------------------------------------------
(* The session's own work: preparing files, starting runtimes, routing *)

BodyEnds(c) ==
  /\ Goto(c, "body", "close")
  /\ outcome' = [outcome EXCEPT ![c] = "ran"]
  /\ UNCHANGED <<managerVars, made, gone, mainPc>>

BodyFails(c) ==
  /\ \/ Goto(c, "body", "close")
     \/ Isolated /\ made[c] > 0 /\ Goto(c, "acquire", "close")
  /\ outcome' = [outcome EXCEPT ![c] = "failed"]
  /\ UNCHANGED <<managerVars, made, gone, mainPc>>

-----------------------------------------------------------------------------
(* SandboxManager.destroy, called once per sandbox by the session's cleanup *)

CloseContainer(c) ==
  /\ Goto(c, "close", "unregister")
  /\ containers' = containers \ {Leaving(c)}
  /\ UNCHANGED <<permits, active, stats, orphans, made, gone, outcome, mainPc>>

(* kill() and remove() failed; close() swallows the error *)
CloseContainerFails(c) ==
  /\ Goto(c, "close", "unregister")
  /\ orphans' = orphans \cup (containers \cap {Leaving(c)})
  /\ UNCHANGED <<permits, active, stats, containers, made, gone, outcome, mainPc>>

Unregister(c) ==
  /\ Goto(c, "unregister", "release")
  /\ active' = active \ {Leaving(c)}
  /\ stats' = Counted(stats.created, stats.destroyed + 1, active')
  /\ UNCHANGED <<permits, containers, orphans, made, gone, outcome, mainPc>>

Release(c) ==
  /\ Goto(c, "release", IF gone[c] + 1 = made[c] THEN "done" ELSE "close")
  /\ permits' = permits + 1
  /\ gone' = [gone EXCEPT ![c] = @ + 1]
  /\ UNCHANGED <<active, stats, containers, orphans, made, outcome, mainPc>>

-----------------------------------------------------------------------------
Create(c) ==
  \/ Acquire(c) \/ AcquireTimeout(c)
  \/ RunContainer(c) \/ RunContainerFails(c) \/ WrapContainerFails(c)
  \/ Register(c) \/ GiveBack(c)

Destroy(c) == CloseContainer(c) \/ CloseContainerFails(c) \/ Unregister(c) \/ Release(c)

Session(c) == StartCase(c) \/ Create(c) \/ BodyEnds(c) \/ BodyFails(c) \/ Destroy(c)

(* EvaluationService.run leaves its executor, which waits for every thread, *)
(* before it calls shutdown(): there is nothing left to destroy then.       *)
Quiescent == \A c \in Cases : pc[c] \in {"idle", "done"}

ServiceShutdown ==
  /\ mainPc = "running"
  /\ Quiescent
  /\ mainPc' = "stopped"
  /\ UNCHANGED <<managerVars, caseVars>>

Next == ServiceShutdown \/ \E c \in Cases : Session(c)

(* Threads keep running: every started session takes its next step.  The   *)
(* body of a session ends because the session has a deadline.  A failure   *)
(* is never assumed: it must not be what ends a wait for a permit.         *)
Fairness ==
  \A c \in Cases : WF_vars(StartCase(c) \/ Create(c) \/ BodyEnds(c) \/ Destroy(c))

Spec == Init /\ [][Next]_vars /\ Fairness

-----------------------------------------------------------------------------
(* Properties *)

(* The sandboxes a permit is held for: the ones being created or kept. *)
Holding ==
  {s \in Sandboxes :
     /\ gone[s[1]] < s[2]
     /\ s[2] <= made[s[1]] + IF pc[s[1]] \in InCreate THEN 1 ELSE 0}

(* No path through create() and destroy() loses or duplicates a permit     *)
(* (sandbox_pool.py 421-477): the busy path takes none, both failing paths *)
(* give theirs back, and cleanup returns one per sandbox received.         *)
PermitsConserved == permits + Cardinality(Holding) = MaxConcurrent

(* The limit the permits stand for: containers somebody will still remove  *)
(* never outnumber max_concurrent, at any point between docker run and the *)
(* removal (the permit outlives the container at both ends).               *)
ContainerLimit == Cardinality(containers \ orphans) <= MaxConcurrent

(* The three counters health.py reports agree with the registry, and what  *)
(* is registered is exactly what has been returned and not yet destroyed.  *)
StatsAgree ==
  /\ stats.current = Cardinality(active)
  /\ stats.created - stats.destroyed = stats.current

(* When shutdown() runs in the service every container has been removed or *)
(* lost for good, and every permit is back: no session's `finally' was cut *)
(* short by the failure that brought it there (pair_session.py 137-138).   *)
NothingLeftAtShutdown ==
  mainPc = "stopped" =>
    /\ containers \subseteq orphans
    /\ active = {}
    /\ permits = MaxConcurrent

(* Sessions keep the permits they have while they wait 60 s for the next   *)
(* (pair_session.py 144-157), so that all can hold one and wait for        *)
(* another.  A started session ends all the same, whatever fails: the      *)
(* semaphore's timeout resolves the mutual wait, never luck.               *)
SessionsEnd == \A c \in Cases : pc[c] = "acquire" ~> pc[c] = "done"

(* The manager and its sessions keep the promise of the abstract pool: a   *)
(* place per permit, returned exactly once and eventually.                 *)
Pool == INSTANCE SandboxPool WITH
  inUse <- Holding,
  ended <- {c \in Cases : pc[c] = "done"}

ImplementsPool == Pool!PoolSpec
=============================================================================
