# The evaluation runtime of AgentGenesis in TLA+

AgentGenesis evaluates programs that users submit: a worker polls a backend,
runs each case of a submission in Docker sandboxes, in which a judge plays a
protocol against the user's agents, and reports the results. This directory
specifies that runtime, the library around it and the problems that come with
it, checks them with TLC on small instances and proves every invariant so checked
for every value of the constants with TLAPS. File and line numbers refer
to the repository, the core package lies at its root.

Run `tlc -config MC<Name>.cfg MC<Module>.tla` to check a configuration
(`MCTemplatePool.cfg` goes with `TemplatePool.tla` itself) and
`tlapm <Module>Proofs.tla` to check the proofs. `PROJECT.json` lists runs,
mutations, theorems, hazards, and the source lines behind every definition.

## 1. The system

    backend <--HTTP--> EvaluationService  (worker process, one or more)
                         | a thread per submission: process_submission()
                         v
                  DualSandboxEvaluator / IsolatedMultiAgentEvaluator
                         | a thread per case            |  gateway token, usage
                         v                              v
                  pair / isolated session           LLM gateway
                     |  TemplateImagePool: which image?
                     |  SandboxManager: create / destroy, a global limit
                     v
                  judge sandbox  <- gRPC bridge -> router <- gRPC -> agent sandboxes

| Part | State | Operations | Interacts with |
|---|---|---|---|
| `SandboxManager` (`sandbox_pool.py` 388-495) | semaphore of `max_concurrent` permits, registry, statistics | `create`, `destroy`, `shutdown`, statistics | sessions of all submissions call it; Docker; shutdown by service or local evaluator |
| `TemplateImagePool` (`sandbox_pool.py` 77-385) | cached tags, last use, build locks, a GC timer | `get_or_create`, `evict_stale`, startup cleanup | cases ask for images while the timer's thread evicts them |
| `EvaluationService` (`service.py`, `client.py`, `health.py`) | running flag, executor, active submissions, metrics | tick, `process_submission`, SIGTERM handler, retrying requests | several workers share the backend's queue; the claim is the lock |
| Phase evaluation (`dual_sandbox_evaluator.py`, `isolated_evaluator.py`, `runtime/gateway.py`, `runtime/results.py`) | case results, callback lock, gateway token, previous usage | `evaluate`, callbacks, saving of case records | starts sessions, reports cases to the backend |
| Case protocol (`runtime/judge_scaffold.py`, `multi_agent_scaffold.py`, `judge_runtime.py`, `user_runtime.py`, `router.py`) | queues on both sides of each bridge, judge's step, statuses | `case_start`, action requests, actions, observations, `case_end` | judge and agents only ever meet through the router |
| Pair session (`runtime/pair_session.py`) | two sandboxes, transports, processes | setup, request a user action, cleanup | router, manager |
| Isolated session (`runtime/isolated_session.py`) | a judge and N agent sandboxes | setup, barrier over all agents, cleanup | router, manager |
| Setup and transport (both sessions, `runtime/process.py`, `runtime/sandbox.py`, `sandbox_backend.py`, `transport.py`) | boxes with their files, variables, programs and channels; the bound service name | create, prepare, start, probe, clean up | Docker or local processes, bridges |
| Trace of a case (`runtime/history.py`, the sessions' wrappers) | histories per case index, offsets into the programs' output | record, attach, read output | router, callbacks, the logs of a result |
| `LocalEvaluator` (`local/evaluator.py`, `local/visualization.py`) | event callback, SIGINT guard, lines of open cases | `evaluate`, `evaluate_stream`, emergency cleanup | the manager, a UI |
| Metrics and health server (`health.py`) | counters and latest errors; one server per process | `record_*`, `/metrics`, `/stats`, `/health`, start and stop | all threads of a worker, monitoring |
| Registry (`registry.py`, `api.py`, `client.py` 597-640) | nothing between calls; the backend's phases and revisions | register or revise each phase, skip an unchanged upload, merge, close | backend, other publishers |
| Tool calling (`tool_calling/`) | conversation, retry count, semaphore | `Agent.chat`, `batch` | LLM, tools |
| Problems (`problems/`) | each problem's environment; some users' adapters | generator, the calls of its environment, verdict and score | run by the judge's scaffold, behind the protocol |
| Models, configuration, artifacts, local tools, sample answers | none that outlives a call | functions over data | all of the above |

### Where it is hard

* *Threads.* One process runs up to 15 submissions with up to 5 cases each. They
  share one semaphore, one image pool, one set of metrics; an isolated session
  adds a thread for each agent of each round.
* *Signals.* SIGTERM and Ctrl+C run in the main thread between any two steps of
  the others, and what they clean up is still in use.
* *Requests.* Backend, gateway, Docker and bridges may fail, be late, or act and
  lose the answer. Some requests are retried, some are given up silently.
* *Deadlines.* Every wait of the router has one. An answer that misses its
  deadline is not gone: it stays in a queue.
* *Order of overwriting.* Files, variables, artifacts and checksums come from several
  sources and replace one another; who is last decides.
* *Several copies of one fact.* Claims in backend and `_active_submit_ids`; case
  results in the records, in the shown statuses and in the phase result; permits,
  registry and gauge; cached tags and images.

### What makes each part correct

| Part | Promise |
|---|---|
| Manager | permits are neither lost nor duplicated; the machine's limit holds; sessions that hold one sandbox and wait for another do not block each other for ever; nothing is left at shutdown |
| Image pool | one builder per key at a time; who got an image finds it; cache and disk agree; callers are served whatever fails; stale images go |
| Service | one evaluation of a submission at a time; a verdict stands; no submission is forgotten; the gauge counts; a worker that is told to stop stops |
| Phase | each case recorded once and as the result says; success only with enough passed cases; calls charged once; the token covers the sessions and is revoked |
| Setup | only programs that were started as they should be are routed to; nothing is left behind, wherever the setup broke off |
| Trace | the logs of a result tell every message of its case once and in order, and no output twice while it is plain text |
| Local evaluation | a stream yields its own evaluation's events, all of them; the user's callback comes back |
| Metrics | the counters agree with what the threads recorded; a running service has its server |
| Publication | artifact and checksum belong together; the answer given to the publisher is true |
| Tool calling | every earlier call is answered once in every request; results belong to their observations |
| Problems | what is generated can be solved; a pass has been earned; a case that is cut short is worth nothing; who obeys the rules is not disqualified |
| Protocol | no two parties wait for each other; round n is played with the n-th actions; a session ends, and tells its evaluator of the case at most once |

## 2. The modules

| Module | Models | Used by |
|---|---|---|
| `SandboxPool` | abstract: places granted and returned exactly once | refined by `SandboxManager` |
| `SandboxManager` | manager and sessions that use it | `EmergencyShutdown` |
| `EmergencyShutdown` | `LocalEvaluator.evaluate` interrupted, over the manager | |
| `EvaluationService` | workers, their threads and SIGTERM handlers, the backend | |
| `CaseContract` | abstract: what an evaluator may expect of a session | refined by both sessions |
| `CaseProtocol` | judge, agents' bridges and user threads, router | both sessions |
| `PairSession`, `IsolatedSession` | how each session obtains an action | |
| `PhaseEvaluation` | `evaluate` of both evaluators and the service's callbacks, sessions being what `CaseContract` promises | |
| `TemplatePool` | image pool and its collector | |
| `SessionSetup` | setup, readiness probe and cleanup of both sessions on both backends | `MCSdk` |
| `CaseTrace` | histories, program output and logs of a case | `MCSdk` |
| `EvalStream` | the events of `evaluate` and `evaluate_stream` | `MCSdk` |
| `Metrics` | collector and health server | `MCSdk` |
| `ProblemSync` | `sync_to_db` of several publishers, the backend, a maintainer | `MCSdk` |
| `ToolAgent` | `Agent.chat` and `batch` | `MCSdk` |
| `TurnBasedCase` | one case as a problem's judge sees it | all problems |
| `Maze`, `KeyedLabyrinth`, `InterruptJudge`, `LogHunter`, `StructuredOutput`, `HyperparamTuner`, `ParallelWeather`, `ResilientScraper`, `ShortCircuitScraper`, `SportsShopping`, `ToolCreator`, `Werewolf` | the twelve problems | `Problems` |
| `Problems` | one case of any of the twelve, with the properties they share | `MCProblems` |
| `*Proofs` | theorems about the module of that name; `CaseProtocolProofs` holds the lemmas both sessions rest on, `SandboxManagerProofs` those of the emergency shutdown and the image pool too | |
| `LibraryProofs` | theorems about the six modules `MCSdk` extends | |
| `MC*` | instances for TLC; `MCSdk` extends six modules that share no variable | |

In every module a lower-case variable is the field of the code that its comment
names, `pc`-like variables say where a thread is, and variables called *history*
in the declarations are not in the code: no guard reads them. What a thread does
under a lock, or in one request, is one step; all else interleaves. Operators
that begin with *Mutant:* are not part of a specification: each is a plausible
mistake in the definition after it, and `PROJECT.json` says which property fails
if it is made.

### SandboxManager, EmergencyShutdown

`create` is `Acquire | AcquireTimeout`, `RunContainer | RunContainerFails |
WrapContainerFails`, `Register` or `GiveBack`; `destroy` is `CloseContainer |
CloseContainerFails`, `Unregister`, `Release`. A session (`StartCase` to the end
of its cleanup) creates `Need` sandboxes, may fail at any point after the first,
and destroys what it received. `ServiceShutdown` is the end of `service.py`'s
`run`, after the executor has joined its threads. `EmergencyShutdown` adds the
main thread of a local evaluation: a first Ctrl+C lets it out of the wait for the
cases, the `finally` runs `shutdown()` over a snapshot while sessions go on, and
a second one interrupts that, because the guard removes itself (235-236).

### EvaluationService

Each slot of the executor runs `process_submission` with all six ways out of it;
`Init` chooses from `Deployments` how many slots each worker has.
The main thread polls for as many submissions as it has free slots, reaps
finished futures and drops late ones. The handler of SIGTERM interrupts the main
thread, clears `running` and unclaims a snapshot of the active submissions. The
backend is external: it answers a claim with 200 iff the submission is pending,
an unclaim returns only a claimed one, and `complete` is final whenever it
comes. `BusyEscapes` is for evaluators that let `SandboxBusyError` through; the
two of this repository turn it into a case error (`dual_sandbox_evaluator.py`
228), so that with them the requeue of `service.py` 194-199 is never reached,
although `tests/test_service.py` 106 tests it.

### CaseProtocol, PairSession, IsolatedSession

The judge's scaffold, its environment being any that ends by step `MaxSteps`;
each agent's bridge with its inbound, outbound, action and observation queues;
the user's thread, which acts, waits for observations, raises, ends or hangs; the
router loop with `case_start`, `case_end`, forwarding, `CASE_STOP` and its
deadlines. A deadline may pass whenever its wait is under way. Faults: a request
fails before or after it arrived, an answer is lost with the message it had
popped, a process dies. `PairSession` asks one user; `IsolatedSession` asks all,
collects in one thread for each and combines what came. To the evaluator both
are `CaseContract` (`started`, `ended`, `result`).

### PhaseEvaluation

`evaluate` from the gateway token over the artifact and the pool of case threads
to the result, `on_case_start` and `on_case_end` under the evaluator's lock with
their requests, `run_case` with its `except`, the usage of the gateway, revoking
the token, and `_save_cases`. Results are sorted by index as Python sorts, equal ones
keeping their order (`ByIndex`); the sum of the charges is the number of characters
charged (`SumCharged`). Sessions start, end or raise as the contract
permits; a judge may name another case's index. Six configurations choose kind,
parallelism, `min_passed_cases` and whether the gateway is used.

### TemplatePool

`get_or_create` in its steps (look up, find the key's build lock, take it, look
again, build, publish) and `evict_stale` in its (choose under the lock, remove
an image without it, forget under it). Time is the set of stale keys. The
evaluator's fallback to the base image is part of `BuildFails`. A build that fails
may have committed its image, or the commit it gave up may still be carried out
(`CommitActs`): nobody publishes such an image.

### SessionSetup

The setup is a script of steps for each session and backend (`PairScript`,
`IsolatedScript`); every step may raise, and the cleanup follows from wherever it
broke off. A file or variable is a name with where it came from, so that the
order of `update` calls decides what a box runs with. A bridge serves, or dies,
when it likes; the probe goes through the candidate service names. A creation may raise
half-way (`CreateHalfway`) and leave a container or a directory that nobody holds.

### CaseTrace

What the router does with histories, for a judge that sends what it likes.
Whether the session is an isolated one on Docker or a pair's on the local backend,
`docker`, is chosen initially. A program's output is bytes of five kinds, a character,
the two halves of another, carriage return and line feed, because the offset is counted
in the decoded text: `Broken` and `LineEnds` are what decoding changes there. The part of the protocol that decides who may send what is
`CaseProtocol`'s.

### EvalStream, Metrics

Evaluations share one `LocalEvaluator` and its `on_event`; a stream puts a queue
in its place, and may be read to its end, overlap another evaluation, or be
abandoned. Queues are counts, since events do not overtake one another. In
`Metrics` each `record_*` is one step under the collector's lock, in any order of
the threads, and every service of a process starts and stops the one server.

### ProblemSync, ToolAgent

A publisher asks, prepares, sends, and believes the answer, while others do the
same; the backend (external) takes a version in at once or leaves it to a
maintainer, and an answer may be lost. In `ToolAgent` the model (external) asks
for any tools with any arguments; tools end in any order, or go on after their
chat has raised.

### The problems

`TurnBasedCase` is the loop of `run_turn_based_case` as the environment sees it:
an action is asked for, applied, and the case ends when the environment is done
or something cuts it short. Each problem extends it with what its generator may
draw, the calls of its environment with every way they fail, its user's adapter
where that keeps state, and verdict and score. Times are ticks of a clock that
runs while the user works.

## 3. What is checked

| Run | Instance | States | Shows |
|---|---|---|---|
| `manager` | 3 sessions of 2 sandboxes, 2 permits | 127,000 | permits, limit, shutdown; sessions that block each other end; refinement of `SandboxPool` |
| `emergency` | 2 sessions of 2, 2 permits, 2 interrupts | 443,000 | no permit lost and gauge right (`AccountsKept`), every container removed in the end |
| `emergency_limit` | 3 sessions, 1 permit, 1 interrupt | *violation* | after an emergency shutdown more containers run than `max_concurrent` |
| `service` | 2 workers of 1 slot or 1 of 2, 1 submission, 2 faults, SIGTERM to one | 288,000 | the lock holds until a SIGTERM; verdicts stand; gauge and handler's list explained; a worker told to stop does so; every submission is decided |
| `claim_lock` | 2 workers, 1 submission, no fault | *violation* | two evaluations of one submission after a SIGTERM |
| `pair_session` | 3 steps, 2 faults | 22,000 | nobody starves, rounds aligned, the verdict told fits what became of the user (`VerdictFits`); the contract, which says that the session ends |
| `isolated_session` | 2 agents, 2 steps, 1 fault | 672,000 | rounds are whole until somebody is late, crashes are reported, rounds fail for a reason (`WholeRounds`); the contract |
| `isolated_rounds` | 2 agents, no fault | *violation* | after a late answer rounds are mixed |
| `phase_evaluation` | 2 cases, 2 threads, 2 calls, 2 faults, 6 configurations | 613,000 | recorded once and as reported, success covers, calls charged once and the token right (`GatewayRight`), the evaluation ends |
| `template_pool` | 2 threads, 2 keys and the base, 1 eviction of each, 2 failures | 149,000 | one builder, images in use exist, cache and disk, callers served and stale images evicted (`PoolProgress`) |
| `problems` | one case of each problem, see below | 1,224,000 | what is generated can be solved, a pass is earned, cut short is worth nothing; in `werewolf` obedience is safe and the winner has won |
| `sdk` | one part at a time, see below | 634,000 | setup, publication, streams, tool conversations, metrics and traces are right |

`problems` and `sdk` each compose independent parts: `which` names the part, is
chosen initially and never changes. In `Problems` the parts use the same variables
and the properties are implications from `which`. In `MCSdk` each part has its own,
those of the others rest where they began, and the properties are the parts' own;
three parts run several times, each time with other bounds (`Only`, `Rounds`,
`Traced`), and of two arrangements that differ in who is called what, one is left out.

### Bounds, and why they are enough

* *Sessions, workers, threads.* Two suffice for a race of two parties. The manager
  has three sessions on two permits, so that the two that hold one permit each
  can wait for a third to end or for each other; `emergency_limit` needs one
  interrupted session and two later ones to exceed a limit of one. Two tasks race
  differently in two workers, which share the backend, and in one, where they also
  share `_active_submit_ids`: `service` starts with either (`Deployments`).
* *Sandboxes per session.* Two, the least with a state between two creates. The
  sessions of the isolated kind may also fail in between and so include the pair's.
* *Faults.* `MaxFaults` counts requests that fail, answers lost and processes
  that die. One reaches every error path; two reach failures of the failure
  handling: a report given up after its retries, a build that fails for both
  callers, `case_stop` failing after another request.
* *Steps.* Three for a pair (a late answer, the round it spoils, one after), two
  for isolated agents, whose late answer spoils the second.
* *Keys.* Two, to evict one while the other is built, and `base`, which has a
  build lock but no image. One eviction of each renews its build lock.
* *Problems.* Mazes of 3 by 3 cells and 6 moves, labyrinths of 5 by 5 with two locks,
  any of the walks `MCWalks` as branches and any of their cells `MCExtraWalls` made walls
  again, walked in all ways; answers of log_hunter have up to `MaxAnswers` addresses. A game of a wolf,
  seer, witch and villager, two rounds, two votes, in which everybody may die and
  act out of turn. Elsewhere two questions, trials or endpoints, and as many ticks
  as make both sides of each time limit reachable.
* *Library.* Two agents and two service names; two publishers and two phases with
  one lost answer; two evaluations of one case each, and one of two; two chats,
  and one chat of two rounds; three submissions, three services; a trace of three
  messages and a report, two reports of a message and two bytes, two reports of two agents,
  and two reports of up to four bytes of every kind, on either backend.
* *Calls.* Two, so that one can be counted twice or charged to another case.

No run uses state constraints: each bound is a guard of an action that is the
environment's (faults, calls, signals, aging).

Deadlock is checked in `template_pool`, where the timer and the callers never
stop. In the others the modelled activity ends (all sessions done, the worker
stopped, the case closed), so that TLC's deadlock is the normal end; that nothing
stops earlier is what their liveness properties say (`SessionsEnd`,
`EveryContainerGoes`, `WorkerStops`, `EverySubmissionDecided`, `KeepsContract`,
`EvaluationEnds`). `problems` and `sdk` check safety only: their waits either are
those of `CaseProtocol` or are not bounded by the code (a model's answer, a tool,
the reader of a stream).

### Fairness

Weak fairness of a whole thread and never of a chosen outcome: a session's
thread (without the action in which its work fails, so that no failure is what
ends a wait), a task, the worker's main thread, the evaluator, the timer. It is
justified as each runs on a thread of its own and each of its waits ends:
semaphores, requests and the router's polls have timeouts, processes are run with
a time limit. Nothing is assumed of what has no such bound: not of the judge's or
the user's code, which may hang, nor of a user pressing Ctrl+C, nor of SIGTERM.
`SessionsEnd` therefore rests on the semaphore's timeout and
`KeepsContract` on the router's deadlines.

### Where the code does not do what its documentation says

The three violation runs, each with its counterexample in the output of TLC:

* `MachineLimit` (`sandbox_pool.py` 477): a sandbox destroyed by the emergency
  shutdown and again by its session is released to the semaphore twice.
* `ClaimIsALock` (`service.py` 305): the handler unclaims what threads are still
  evaluating.
* `RoundsAligned` for isolated agents (`runtime/isolated_session.py` 343): an
  answer that came too late is taken for the next round's.

Further deviations that the invariants spell out, because they are what the code
does:

* `current_submissions` (`eval_submissions_current`) stays one too high for ever
  after each claim that failed (`service.py` 122-124; `GaugeExplained`).
* The SIGTERM handler misses a submission if another task of the worker, refused or
  finished, took its id out of the shared set, or if it was given back meanwhile
  (`HandlerMissesOnlyShared`), and a task enqueued before the signal still claims
  after it (`service.py` 309).
* The guard against a second Ctrl+C does not guard the cleanup (`local/evaluator.py`
  220-240).
* The isolated barrier lets partial answers through (`isolated_session.py` 391),
  and if all agents are silent the case is an `error`, where the guide promises
  TLE (`isolated_session.py` 355-362, `docs/出题指南.md` 103).
* An isolated agent's action that is a dict with a key `error` is taken for a crash,
  and the status of anybody's error is read from the first agent's dict, which may
  say `tle` (`isolated_session.py` 366-381; `StatusOfError`).
* A case whose record request answers nothing counts as streamed and is never
  recorded (`service.py` 153; the `unsaved` exception of `RecordedOnce`).
* A session that raises after `case_end` leaves a record the result contradicts
  (`dual_sandbox_evaluator.py` 228; the exception of `RecordsMatch`).
* The isolated evaluator does not notice missing or doubled cases
  (`isolated_evaluator.py` 375-395; the exceptions of `RecordedOnce`, `SuccessCovers`).
* A template looked up between being chosen and being forgotten by the collector
  is gone when it is used (`sandbox_pool.py` 328-347; the `doomed` threads of
  `InUseExists`).
* Images whose removal failed, of an earlier process, or of a commit that acted although
  the build raised, are never evicted (`sandbox_pool.py` 341, 299-303; the `leaked`
  images of `CacheMatchesDisk`).

Sessions (`SessionSetup`, `CaseTrace`):

* The pair session calls `grpc_bind_address`, which only `LocalSandbox` has, so its
  setup raises on Docker (`runtime/pair_session.py` 174); an isolated session
  looks for a port where a local sandbox has a socket, and is never ready there.
  `RoutingStartsReady` says so of both.
* The channel to the isolated agent whose wait failed stays open
  (`isolated_session.py` 205; the exception in `NothingLeftBehind`), and a
  creation that raises half-way leaves a container or a directory that nobody removes
  (`sandbox_backend.py` 118, 288-290, 447-474; the debris of `NothingLeftBehind`).
* Whether the requirements could be installed is not looked at, and the Docker
  backend does not keep the time limit of a command (`sandbox_backend.py` 133-178).
* How far output was read is counted in the text, encoded again (`pair_session.py` 256,
  `isolated_session.py` 247). Bytes that are no UTF-8, also half of a character that
  was still being written, hide later output on Docker, where each is replaced by
  three, and stop the telling on the local backend, where decoding raises. There
  `text=True` makes one byte of a carriage return and line feed (`sandbox_backend.py`
  376-384), so later reports repeat output. `TraceFaithful` excepts just these.
* The trace of a case that ends without `case_end` is thrown away. A judge's line
  that is JSON but no object raises out of the router (`router.py` 134).
* `on_judge_log` is accepted and never called (`pair_session.py` 104-115).

Around the cases (`EvalStream`, `Metrics`, `ProblemSync`, `ToolAgent`):

* `evaluate_stream` drops the `PhaseResult`; overlapping or abandoned streams mix
  the callbacks of one evaluator (the `tangled` streams of `StreamFaithful`), and
  the end of one evaluation shuts down the other's sandboxes. The grouped
  visualizer loses the lines of cases that raise; with parallel cases the last
  progress told may be less than the total.
* A duration of 0 ms restarts the minimum (`health.py` 62), and
  `eval_errors_total`, declared a counter, stops at a hundred (175-177); an exception
  without a text is not among the errors (67). The
  health server is shared by the services of a process: the first to end stops it,
  and one that could not be bound is taken for running (425). With the package's
  own checks `/health` never answers 503.
* An artifact with an injected manifest has a new checksum each time, so its upload
  is never skipped (`registry.py` 112); an artifact that is no zip file ends the
  sync of the later phases (104); the fallback to a revision loses title and
  description (301). A skipped upload can leave a checksum that does not fit the
  artifact (247; the `overtaken` exception of `PublicationRight`).
* Tool arguments that are a JSON list raise out of `chat`, but not when debugging
  (`async_tool_calling.py` 109-129); a final answer that was cut off may carry calls
  nobody answers; when a batch raises, its other chats go on.

Problems:

* `interrupt_judge` cannot be passed: `parse_action` reads `payload` or `data`
  (`sandbox/run.py` 34), the adapter sends `answers` (`sandbox/user_adapter.py` 23-32), though
  `config.py` 172 names an accuracy to reach (`NobodyPasses`).
* `werewolf`: the seer's result never gets into an observation, though `config.py`
  190 says that a check returns it. The witch is always offered both potions
  (`environment.py` 265-270), a used one is refused and ends the game (479-482); the wolves
  are offered each other (234-248), and if all of them take that offer the game
  ends as an error too (553-557; the exceptions of `ObedienceIsSafe`).
* `log_hunter` counts a right address as often as it is given (`environment.py` 29-35),
  though `config.py` 95, 165 and 233 ask for all three (`RightTwice`, the exception of
  `LogEarned`).
* `parallel_weather` fails at 27 s and later by `config.py` 221-222, but passes at just 27 s
  (`environment.py` 184-191), and measures from the last `get_questions` (101), where
  `config.py` 213 counts from the questions (`OnTheDot` and `Restarted`, the exceptions of
  `WeatherEarned`). Asking again restarts the clock of `log_hunter` (20) and
  `interrupt_judge` (29) too.

## 4. What is proved

| Module | Theorem | Says |
|---|---|---|
| `SandboxManagerProofs` | `Typing`, `PermitConservation`, `GlobalSandboxLimit`, `StatsAgreement`, `CleanShutdown` | all invariants of run `manager`, and that the statistics agree with the registry |
| | `Refinement` | initial states and steps of the manager are those of `SandboxPool`, or stutters |
| | `EmergencyAccounts`, `OwnersCleanUp` | `AccountsKept`; once all threads are out the only containers left are those Docker refused to remove |
| | `PoolTyping`, `NoDoubleBuild`, `ImagesInUse`, `DiskAgreement` | all invariants of run `template_pool` |
| `EvaluationServiceProofs` | `Typing`, `Locked`, `Bookkeeping`, `VerdictsStand` | all invariants of run `service` and the action property on verdicts |
| `PairSessionProofs` | `PairFed`, `PairAligned`, `PairVerdict`, `PairContract` | all invariants of run `pair_session`; initial states and steps are those of `CaseContract`, or stutters |
| `IsolatedSessionProofs` | `IsolatedRounds`, `IsolatedFed`, `IsolatedContract` | all invariants of run `isolated_session`, and the same of `CaseContract` |
| `PhaseEvaluationProofs` | `PhaseTyping`, `Gateway`, `Success`, `Records` | types, and all invariants of run `phase_evaluation` |
| `LibraryProofs` | `SetupSafe`, `SyncRight`, `StreamRight`, `ConversationsSound`, `MetricsAgree`, `TraceTells` | all invariants of run `sdk` |
| `ProblemProofs` | `NothingForTheCutShort`, `PassesAreEarned`, `LabyrinthsFair`, `ObedientAreSafe`, `WinnersHaveWon` | all invariants of run `problems`; the passes of `tool_creator_challenge` under a hypothesis, see below |

With them every invariant that a passing run checks is a theorem, for every number
of sessions, workers, slots, agents, steps, cases, keys, publishers, evaluations,
chats, reports, players, cells, faults and so on.

Where a property excepts something, because the code does it, the theorem does too:
the exceptions are named in section 3 and defined beside the property.

Assumed are the named assumptions of the modules alone. Of the runtime: the sets of
actors are finite, counts are in Nat, sentinels lie outside their sets; there is at
least one permit, slot, retry, agent, step and case, and exactly one agent in a pair
session; a deployment gives each worker at most `Slots` slots; the phase's
configurations are records of the right types. Of the library (the `...Assumption`
definitions, which TLC evaluates in `MCSdk`'s `Constants`): types, that there are finitely
many submissions, that `MaxErrors` is not 0, and that the user's callback is no stream.
Of the problems (`ProblemsAssumption`): types, and what their configuration says of
its numbers. A keyed labyrinth has 1 to 3 locks and sides of at least 5, as its
generator clamps them (`max(7, width | 1)` with a wall around, `num_locks` to 1..3), and the
bound on moves is at least the length of the path; its branches are walks within it. In a game the wolves are fewer than
the others, who are not wolves; the three delays of the circuit breaker grow; the guardrail
must answer before the information does.

One theorem has a hypothesis of another kind, for one problem: `PassesAreEarned`
supposes of `tool_creator_challenge` `SolversRight`, that its `_compute_answer` computes
the function it is named for. These are loops over numbers (Collatz among them), which TLC evaluates on the
arguments of the run and the prover cannot in general; given them, the theorem says
that only a program whose answers are all right passes.

*Manager.* `PermitsConserved` is not inductive: that a release adds back what an
acquire took needs to know which sandboxes a session at a given `pc` can hold, so
`IInv` relates `pc`, `made` and `gone`, and says which of a session's sandboxes
are registered and which containers exist or are orphans at each point. The
limit follows by counting: containers that are not orphans are among the held
sandboxes, of which there are `MaxConcurrent - permits`. `Refinement` maps a place
to each held sandbox.

*Emergency shutdown.* The main thread takes sandboxes out of the registry behind
their sessions' backs. What the manager's invariant says exactly, that the registry
holds what sessions made and did not unregister, becomes an upper bound
(`ActiveKnown` in `EInv`); the lemmas about counters and containers carry over.
Permits may get too many, as run `emergency_limit` shows, but never too few.

*Service.* The lock: as long as there was no SIGTERM a submission with an owner is
not `pending`, and it has one owner (`LockInv`): a claim succeeds only from
`pending`, and only the owner, or a handler, makes it pending again. Verdicts
(`VerdictInv`): a submission nobody gave back has one task at most that decides
it, nothing is shown before that task reports, and its retries repeat what it
sent. The gauge: each step of a task enters the processing, ends it, is refused or
continues (`TaskStep`), and changes the gauge as it changes the number of busy
tasks; and what is enqueued finds a free slot, as a batch is never larger than
their number (`BatchFits`). The handler's list: a submission nobody gave back has one
task at most past its claim (`OnceInv`), and its id is listed unless another task
of the worker took it out (`ListInv`).

*Sessions.* Four layers over the types, each with lemmas for every thread of
`CaseProtocol`, and in the session's module for what it does while it asks.
`Dialogue` ties the judge's place to its two queues and to the router's, so that
both always speak in turn. `Rounds`: an agent's action is in one place at most between
its thread and the judge, so is its observation, and what the judge is about to
apply has an action of each agent for the present step. `NothingLost`: as long as no
request failed and nobody was late, what an agent waits for is in one of these
places. `Callbacks`: what the judge has sent and may still send allows for one start
of the case and one end after it, which makes each step one of `CaseContract`'s. In a
pair session the verdict is followed from the router's reply through the judge's queue and
its override to the `case_end` (`VerdictInPlay`): it fits the user's fate at every place. In an
isolated session `Rounds` and `NothingLost` hold until an agent is late; run
`isolated_rounds` shows why not longer. `Combined` says what the barrier makes of the answers.

*Phase.* Charges: if usage is tracked one case runs at a time (`OneRuns`), so what a
session read of the gateway is current when it compares and remembers it
(`UsageOK`); the sum is the size of a set of characters, and a step that charges
one case adds that much to it. Success: as many results are gathered as there are
cases, so if none is missing none is there twice (`NoneMissing`, from the pigeonhole
principle), and sorting changes nothing of that (`SortedKeeps`). Records: for each
case and place of its thread, what may have been recorded, streamed and shown
(`RecordOK`), and that results neither streamed nor saved are still to be saved
(`SavingOK`).

*Image pool.* Why is it safe to find a build lock under one lock and to take it
outside, while `evict_stale` drops locks from the table? Because who waits for a
key has seen it uncached, what is evicted is cached, and what gets cached ends the
wait of everybody with that key in `Recheck`. So as long as somebody wants a key
it is neither stale nor chosen, its lock is the current one (`WantingOK`), and one
lock has one holder (`LocksOK`). Whoever looked up an image in time keeps it
fresh (`UsingOK`), `DiskOK` accounts for every image.

*Setup.* The script up to `pc` is done, and what it has done to a box is what there is
of it (`BoxDone`): its sandbox, the files and variables with their origin, its
bridge, its channel. So a session that routes has done all of it to every box, and the
cleanup finds what it has to remove wherever the script broke off.

*Publication.* Who leaves the artifact out has found its checksum at the backend or has
been overtaken since (`ArtifactsThere`), and answers fit what was taken in
(`AnswersTrue`). Both need to know that a publisher is past each phase of which a
version waits or lacks its artifact (`VersionsOld`), so that a preparation
later in the same phase does not count.

*Streams.* Two evaluations that are active together have been noted (`OverlapsNoted`),
and but for those the callback is the user's or the one open stream's
(`CallbackKnown`). With one case after the other, the progress told is the number of
the cases that ended (`Sequential`).

*Conversations.* All of a conversation is answered when the model is asked, all but its
last message while tools run (`Tidy`), and the hints in it are counted (`HintsCounted`);
`Joins` and `Replied` say what appending the calls and their replies makes of that.

*Metrics.* Counters are sizes of sets over the history of ends (`CountersExact`), which grow
by one where the code adds one; the minimum is reached since the last 0 ms
(`ExtremesExact`); the errors kept are the last told (`LatestErrors`).

*Traces.* `Tells(h, i, r, m)`: history `h` holds, in order, just the events of those of the first
`m` messages `r` that were for index `i`. Each history tells all messages so far and each
report's logs begin with one that tells those before it (`HistoriesTell`,
`ReportsTell`); what is appended tells the next message. What was reported of a program lies before its
offset as long as no line end was counted short (`OutputOnce`), and is all of its first n
bytes, with the offset at n at most, as long as nothing was counted that is no character
(`OutputWhole`).

*Mazes.* The cells within n steps are defined by recursion on n. They grow until they
are closed under steps, which happens within as many rounds as there are open cells
(`ReachedClosed`), and then, steps being symmetric, all of them reach each other
(`ConnectedEverywhere`): carving a neighbour of an open cell and thinning only what
leaves the rest connected keep `Ground`. `ShortestPath` is the least of the distances
at which the end is reached (`ShortestIsLeast`), and where the user is after n moves
lies within n steps of the start (`WalkedFrom`), so no walk is shorter.

*Keyed labyrinths.* The cells of the main path have coordinates that sum to their place on it
(`Carved`), a step changes that sum by one at most, so nobody is at the goal before
`Apart` moves (`NotSooner`, and `OnTheWay` of the user). In that many
moves one gets there: the path's n-th cell, with the keys that lie up to it, is among the states
of the n-th round of the search (`AlongThePath`), as every key lies before its door
(`KeysBeforeDoors`).

*Other passes.* The invariant of each problem says what must have been done to have what a pass
needs: times are compared with what the environment noted when it asked
(`ShoppingInv`, `Waited`, `Timed`), right answers with those looked up
(`WeatherInv`). Nothing is scored before the verdict of a case that was not cut short
(`Unscored`).

*Werewolf.* Every handler takes a game under way to one that is under way, or over by its
own rules (`Handed`), and what is looked up after each action leaves only games in
which the wolves are fewer but some are left (`Even`), or the winner is right (`Over`). The
number of steps is bounded by phase and round (`InTime`), so the game ends.
An action the observation asked for passes the check that would make it an error
(`AskedIsValid`).

*Induction.* The theorems of the library about induction take an operator as a parameter,
which the installed provers cannot instantiate. Where a fact is about a recursive
definition, as in the mazes, it is proved from `WFMin`, which takes a set: a set of
naturals that is not empty has a least element (`Least`), so a set that has 0 and with
each number the next has them all (`UpFromZero`, `UpTo`), and a function defined by
recursion exists (`Iterated`).

*Only model-checked:* liveness, as fairness and ENABLED are out of the prover's
reach: `SessionsEnd`, `EveryContainerGoes`, `WorkerStops`, `EverySubmissionDecided`,
`EvaluationEnds`, `PoolProgress`, and of `KeepsContract` that a session ends
(`PairContract` and `IsolatedContract` state its other half, `ContractSafety`); and
`SolversRight`, as far as `PassEarned` rests on it.

## 5. What is not modelled

* *Backend, LLM gateway, Docker, models, users:* external, as far as this code uses
  them: a claim, unclaim and `complete` as above; the gateway counts the calls of a
  live token; Docker removes, refuses, or raises after having acted; the backend of
  `ProblemSync` refuses to register what is published.
* *Time:* a deadline may pass whenever its wait is under way, and a key gets stale
  only while no case holds it (`max_age` is seven days, a case minutes). Only the
  problems, which measure it, have clocks.
* *Contents:* code, observations, questions, prompts, JSON. Messages keep their
  type, step, sender and status; files and variables their name and origin.
* *Submissions that cannot be parsed* (`client.py` 96-117): `_parse_submission`
  raises, the poll skips them, and as they stay pending they use up a poll's limit
  every time. Also left out are the retries of a download.
* *Crashes of a worker:* it keeps nothing; a submission it had claimed stays so
  until somebody outside of this code releases it.
* *Containers that build templates* are outside the semaphore (`sandbox_pool.py`
  266), and outside `ContainerLimit` for that reason.
* *A second Ctrl+C to the service* while its executor joins its threads leaves
  before the sandboxes are removed (`service.py` 290).
* *Several workers on one host* share images while each has its own pool and
  collector.
* *Data only:* models, configuration, unpacking of artifacts, generated stubs, the
  local tools and exporters, the read-only queries of the client, the problems'
  texts, sample answers, the command line and the printed summaries.

## 6. Plan

Done, the most consequential first: manager and its refinement, service, protocol
with both sessions, phase evaluation, image pool; then the twelve problems, setup
and transport, publication, streams, tool calling, metrics, traces; then proofs of
every invariant, of the runtime first, then of the library and the problems. Left:

1. Compositions: `EmergencyShutdown` over sessions in the steps of `SessionSetup`;
   the service with `PhaseEvaluation`'s saving under a second worker.
2. The poll with submissions that cannot be parsed.

One run asks one question; where modules are independent of each other they share
a run (`problems`, `sdk`).
