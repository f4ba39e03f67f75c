--------------------------- MODULE PhaseEvaluation ---------------------------
(***************************************************************************)
(* One evaluation of a submission: DualSandboxEvaluator.evaluate and       *)
(* IsolatedMultiAgentEvaluator.evaluate with the callbacks and the saving  *)
(* of process_submission (service.py 141-185).                             *)
(*                                                                         *)
(* A gateway token is created, the artifact is prepared, the cases run in  *)
(* sessions on a pool of threads, the results are put together, the token  *)
(* is revoked, and the cases nobody recorded yet are recorded.  A session  *)
(* is what CaseContract promises and no more: it may raise at any time.    *)
(* The backend and the gateway are external: they store a record, show a   *)
(* status, count the calls made with a live token.                         *)
(***************************************************************************)
EXTENDS Integers, Sequences, SequencesExt, FiniteSets, FiniteSetsExt, TLC

CONSTANTS
  NumCases,            \* num_cases
  MaxCaseParallelism,  \* max_case_parallelism of this worker
  Configs,             \* the phase configurations: see PhaseAssumption
  MaxCalls,            \* bound: LLM calls made with the token
  MaxFaults            \* bound: requests that fail, judges that misname a case

Cases == 0..(NumCases - 1)
NoCase == NumCases     \* no index of a case; a judge may name it all the same

ASSUME PhaseAssumption ==
  /\ NumCases \in Nat \ {0} /\ MaxCaseParallelism \in Nat
  /\ Configs \subseteq [parallel : Nat, kind : {"pair", "isolated"},
                        minPassed : Nat, userKey : BOOLEAN]
  /\ MaxCalls \in Nat /\ MaxFaults \in Nat

VARIABLES
  config,    \* the phase configuration, chosen initially
  phase,     \* where evaluate() and its caller are
  spc,       \* where each case's thread is
  ended,     \* what each session told on_case_end: one case result or none
  returned,  \* what run_case returned for each case: one case result or none
  lock,      \* the case that holds the lock of the callbacks
  reading,   \* the usage each thread has just read
  prev,      \* _prev_usage_chars
  charged,   \* chars_used of each case
  known,     \* _gateway_token_info is set
  streamed,  \* streamed_case_indexes
  toSave,    \* the cases of the phase result, as far as not yet saved
  outcome,   \* status and cases of the phase result
  total,     \* total_chars of the phase result
  live,      \* gateway: the token is valid
  used,      \* gateway: calls made with it
  records,   \* backend: the statuses recorded for each index
  shown,     \* backend: the status it shows for each index
  faults,
  unsaved    \* history: indexes whose record got lost or may have

threads == <<spc, ended, returned, lock>>
usage == <<reading, prev, charged, total>>
token == <<known, live>>
phaseResult == <<outcome, toSave>>
backend == <<records, shown>>
vars == <<config, phase, threads, usage, token, used, streamed, phaseResult,
          backend, faults, unsaved>>

Statuses == {"passed", "failed", "error"}
Indexes == Cases \cup {NoCase}
CaseResults == [index : Indexes, status : Statuses]
Optional(S) == {<<>>} \cup {<<x>> : x \in S}

PhaseTypeOK ==
  /\ config \in Configs
  /\ phase \in {"start", "prepare", "cases", "revoke", "save", "over"}
  /\ spc \in [Cases -> {"queued", "running", "playing", "usage", "remember", "end", "record", "status", "after", "over"}]
  /\ ended \in [Cases -> Optional(CaseResults)]
  /\ returned \in [Cases -> Optional(CaseResults)]
  /\ \A c \in Cases : returned[c] # <<>> <=> spc[c] = "over"
  /\ lock \in Indexes
  /\ reading \in [Cases -> 0..MaxCalls] /\ prev \in 0..MaxCalls
  /\ charged \in [Cases -> 0..MaxCalls] /\ total \in Nat
  /\ known \in BOOLEAN /\ live \in BOOLEAN
  /\ used \in 0..MaxCalls
  /\ streamed \subseteq Indexes
  /\ toSave \in Seq(CaseResults)
  /\ outcome \in [status : {"none", "SUCCESS", "FAILED", "ERROR"}, cases : Seq(CaseResults)]
  /\ records \in [Indexes -> Seq(Statuses)]
  /\ shown \in [Indexes -> {"none", "running"} \cup Statuses]
  /\ faults \in 0..MaxFaults
  /\ unsaved \subseteq Indexes

Init ==
  /\ config \in Configs
  /\ phase = "start"
  /\ spc = [c \in Cases |-> "queued"]
  /\ ended = [c \in Cases |-> <<>>]
  /\ returned = [c \in Cases |-> <<>>]
  /\ lock = NoCase
  /\ reading = [c \in Cases |-> 0] /\ prev = 0
  /\ charged = [c \in Cases |-> 0] /\ total = 0
  /\ known = FALSE /\ live = FALSE
  /\ used = 0
  /\ streamed = {}
  /\ toSave = <<>>
  /\ outcome = [status |-> "none", cases |-> <<>>]
  /\ records = [i \in Indexes |-> <<>>]
  /\ shown = [i \in Indexes |-> "none"]
  /\ faults = 0
  /\ unsaved = {}

Fault == faults < MaxFaults /\ faults' = faults + 1
Goto(c, from, to) == spc[c] = from /\ spc' = [spc EXCEPT ![c] = to]
Fail == outcome' = [status |-> "ERROR", cases |-> <<>>]

EffectiveParallel ==
  IF config.parallel > 1 /\ NumCases > 1 THEN Min({config.parallel, NumCases}) ELSE 1
ActiveWorkers == Max({1, Min({EffectiveParallel, NumCases, MaxCaseParallelism})})

(* Mutant: usage is tracked per case whatever runs in parallel. *)
TrackAlways == known

Tracked == known /\ EffectiveParallel <= 1

-----------------------------------------------------------------------------
(* evaluate(): before the cases *)

(* No key allowed, no token; else the backend creates one, or refuses, or  *)
(* creates it and the answer gets lost: then nobody knows it to revoke it. *)
CreateToken ==
  /\ phase = "start"
  /\ \/ ~config.userKey /\ phase' = "prepare" /\ UNCHANGED <<token, outcome, faults>>
     \/ /\ config.userKey
        /\ phase' = "prepare" /\ known' = TRUE /\ live' = TRUE
        /\ UNCHANGED <<outcome, faults>>
     \/ /\ config.userKey
        /\ phase' = "revoke" /\ Fail
        /\ UNCHANGED known
        /\ live' \in BOOLEAN
        /\ IF live' THEN Fault ELSE UNCHANGED faults
  /\ UNCHANGED <<config, threads, usage, used, streamed, toSave, backend, unsaved>>

Prepared ==
  /\ phase = "prepare"
  /\ \/ phase' = "cases" /\ UNCHANGED outcome
     \/ phase' = "revoke" /\ Fail
  /\ UNCHANGED <<config, threads, usage, token, used, streamed, toSave, backend, faults, unsaved>>

(* Artifact and code are fetched and checked, which may raise.  The pair   *)
(* evaluator also builds the user's bridge; the other leaves that to the   *)
(* sessions.                                                               *)
PreparePair == config.kind = "pair" /\ Prepared
PrepareIsolated == config.kind = "isolated" /\ Prepared

-----------------------------------------------------------------------------
(* A case: run_case on a thread of the pool, which takes them in order *)

Busy == {c \in Cases : spc[c] \notin {"queued", "over"}}

RunCase(c) ==
  /\ phase = "cases"
  /\ Goto(c, "queued", "running")
  /\ \A d \in Cases : d < c => spc[d] # "queued"
  /\ Cardinality(Busy) < ActiveWorkers
  /\ UNCHANGED <<config, phase, ended, returned, lock, usage, token, used, streamed,
                 phaseResult, backend, faults, unsaved>>

(* on_case_start, under the lock: the case is shown as running. *)
OnCaseStart(c) ==
  /\ Goto(c, "running", "playing")
  /\ lock = NoCase
  /\ \/ shown' = [shown EXCEPT ![c] = "running"] /\ UNCHANGED faults
     \/ Fault /\ UNCHANGED shown
  /\ UNCHANGED <<config, phase, ended, returned, lock, usage, token, used, streamed,
                 phaseResult, records, unsaved>>

(* A program of the submission uses its token. *)
CallLLM(c) ==
  /\ spc[c] \notin {"queued", "over"}
  /\ live /\ used < MaxCalls
  /\ used' = used + 1
  /\ UNCHANGED <<config, phase, threads, usage, token, streamed, phaseResult, backend,
                 faults, unsaved>>

(* The judge ends its case, and names it in its message: wrongly, perhaps. *)
JudgeEnds(c) ==
  /\ ended[c] = <<>>
  /\ Goto(c, "playing", IF Tracked THEN "usage" ELSE "end")
  /\ \E r \in CaseResults :
       /\ ended' = [ended EXCEPT ![c] = <<r>>]
       /\ IF r.index = c THEN UNCHANGED faults ELSE Fault
  /\ reading' = [reading EXCEPT ![c] = IF Tracked THEN used ELSE @]
  /\ UNCHANGED <<config, phase, returned, lock, prev, charged, total, token, used, streamed,
                 phaseResult, backend, unsaved>>

(* attach_llm_usage_delta, after its request: what was used since the last *)
(* case is this one's, and is remembered.  Not if the request failed.      *)
ChargeUsage(c) ==
  /\ \/ /\ Goto(c, "usage", "remember")
        /\ charged' = [charged EXCEPT ![c] = Max({0, reading[c] - prev})]
        /\ UNCHANGED faults
     \/ Goto(c, "usage", "end") /\ Fault /\ UNCHANGED charged
  /\ UNCHANGED <<config, phase, ended, returned, lock, reading, prev, total, token, used,
                 streamed, phaseResult, backend, unsaved>>

RememberUsage(c) ==
  /\ Goto(c, "remember", "end")
  /\ prev' = reading[c]
  /\ UNCHANGED <<config, phase, ended, returned, lock, reading, charged, total, token, used,
                 streamed, phaseResult, backend, faults, unsaved>>

Lock(c) ==
  /\ Goto(c, "end", "record")
  /\ lock = NoCase /\ lock' = c
  /\ UNCHANGED <<config, phase, ended, returned, usage, token, used, streamed, phaseResult,
                 backend, faults, unsaved>>

(* client.create_case_record.  It answers None when the request failed,    *)
(* before or after the backend took it in; nobody asks which.              *)
CreateRecord(r) ==
  \/ /\ records' = [records EXCEPT ![r.index] = Append(@, r.status)]
     /\ UNCHANGED <<faults, unsaved>>
  \/ Fault /\ UNCHANGED records /\ unsaved' = unsaved \cup {r.index}

(* Mutant: the index is not remembered. *)
StreamForgotten(c) ==
  /\ Goto(c, "record", "status")
  /\ CreateRecord(ended[c][1])
  /\ UNCHANGED <<config, phase, ended, returned, lock, usage, token, used, streamed, phaseResult, shown>>

(* on_case_end: the result is recorded at once.  Its index counts as       *)
(* recorded whatever the client answered...                                *)
Stream(c) ==
  /\ Goto(c, "record", "status")
  /\ CreateRecord(ended[c][1])
  /\ streamed' = streamed \cup {ended[c][1].index}
  /\ UNCHANGED <<config, phase, ended, returned, lock, usage, token, used, phaseResult, shown>>

(* Mutant: the lock is kept if the request fails. *)
ShowStatusLocked(c) ==
  LET r == ended[c][1] IN
  /\ Goto(c, "status", "after")
  /\ \/ shown' = [shown EXCEPT ![r.index] = r.status] /\ lock' = NoCase /\ UNCHANGED faults
     \/ Fault /\ UNCHANGED <<shown, lock>>
  /\ UNCHANGED <<config, phase, ended, returned, usage, token, used, streamed, phaseResult,
                 records, unsaved>>

(* ... and then shown. *)
ShowStatus(c) ==
  LET r == ended[c][1] IN
  /\ Goto(c, "status", "after")
  /\ lock' = NoCase
  /\ \/ shown' = [shown EXCEPT ![r.index] = r.status] /\ UNCHANGED faults
     \/ Fault /\ UNCHANGED shown
  /\ UNCHANGED <<config, phase, ended, returned, usage, token, used, streamed, phaseResult,
                 records, unsaved>>

(* The session returns what its judge said, or that it said nothing. *)
SessionReturns(c) ==
  /\ spc[c] \in {"running", "playing", "after"}
  /\ spc' = [spc EXCEPT ![c] = "over"]
  /\ returned' = [returned EXCEPT ![c] =
       IF ended[c] = <<>> THEN <<[index |-> c, status |-> "error"]>> ELSE ended[c]]
  /\ UNCHANGED <<config, phase, ended, lock, usage, token, used, streamed, phaseResult, backend,
                 faults, unsaved>>

(* It raises, no sandbox being free among the reasons: run_case makes an   *)
(* error of it, whatever was recorded before, and that has used nothing.   *)
SessionRaises(c) ==
  /\ spc[c] \in {"running", "playing", "after"}
  /\ spc' = [spc EXCEPT ![c] = "over"]
  /\ returned' = [returned EXCEPT ![c] = <<[index |-> c, status |-> "error"]>>]
  /\ charged' = [charged EXCEPT ![c] = 0]
  /\ UNCHANGED <<config, phase, ended, lock, reading, prev, total, token, used, streamed,
                 phaseResult, backend, faults, unsaved>>

Session(c) ==
  \/ RunCase(c) \/ OnCaseStart(c) \/ JudgeEnds(c) \/ ChargeUsage(c) \/ RememberUsage(c)
  \/ Lock(c) \/ Stream(c) \/ ShowStatus(c) \/ SessionReturns(c) \/ SessionRaises(c)

-----------------------------------------------------------------------------
(* evaluate(): after the cases *)

(* The results sorted by index, those of one index staying as they are. *)
ByIndex(results) ==
  LET Before(m) ==
        {n \in DOMAIN results :
           \/ results[n].index < results[m].index
           \/ results[n].index = results[m].index /\ n <= m}
      place == [m \in DOMAIN results |-> Cardinality(Before(m))]
  IN  [k \in DOMAIN results |-> results[CHOOSE m \in DOMAIN results : place[m] = k]]

Gathered == [n \in 1..NumCases |-> returned[n - 1][1]]
Missing == Cases \ {r.index : r \in ToSet(Gathered)}
AsErrors(indexes) == SetToSeq({[index |-> i, status |-> "error"] : i \in indexes})

Passed(results) == Cardinality({n \in DOMAIN results : results[n].status = "passed"})
Enough(results) ==
  IF config.minPassed > 0 THEN Passed(results) >= config.minPassed
  ELSE Passed(results) = Len(results)

(* The sum of chars_used, each character counted: case c's are <<c, 1>>,   *)
(* <<c, 2>> and so on.                                                     *)
SumCharged == Cardinality({ch \in Cases \X (1..MaxCalls) : ch[2] <= charged[ch[1]]})

Conclude(results, error) ==
  /\ outcome' = [cases |-> results,
                 status |-> IF error THEN "ERROR"
                            ELSE IF Enough(results) THEN "SUCCESS" ELSE "FAILED"]
  /\ toSave' = results

CasesOver(kind) == config.kind = kind /\ phase = "cases" /\ \A c \in Cases : spc[c] = "over"

(* Mutant: a result is indexed by when it came. *)
GatherByArrival ==
  LET results == [n \in 1..NumCases |-> [index |-> n - 1, status |-> returned[NumCases - n][1].status]]
  IN
  /\ CasesOver("pair") /\ phase' = "revoke"
  /\ Conclude(results, FALSE)
  /\ total' = SumCharged
  /\ UNCHANGED <<config, threads, reading, prev, charged, token, used, streamed, backend, faults, unsaved>>

(* Mutant: nobody misses a case that was reported under another's name. *)
GatherNotMissed ==
  /\ CasesOver("pair") /\ phase' = "revoke"
  /\ Conclude(ByIndex(Gathered), FALSE)
  /\ total' = SumCharged
  /\ UNCHANGED <<config, threads, reading, prev, charged, token, used, streamed, backend, faults, unsaved>>

(* The results in order.  The pair evaluator adds a case that nobody       *)
(* reported as an error, and asks the gateway for the total if the cases   *)
(* ran in parallel.                                                        *)
GatherPair ==
  /\ CasesOver("pair") /\ phase' = "revoke"
  /\ Conclude(ByIndex(Gathered \o AsErrors(Missing)), Missing # {})
  /\ \/ total' = (IF EffectiveParallel > 1 /\ known THEN used ELSE SumCharged) /\ UNCHANGED faults
     \/ Fault /\ EffectiveParallel > 1 /\ known /\ total' = SumCharged
  /\ UNCHANGED <<config, threads, reading, prev, charged, token, used, streamed, backend, unsaved>>

(* The isolated evaluator does neither. *)
GatherIsolated ==
  /\ CasesOver("isolated") /\ phase' = "revoke"
  /\ Conclude(ByIndex(Gathered), FALSE)
  /\ total' = 0
  /\ UNCHANGED <<config, threads, reading, prev, charged, token, used, streamed, backend, faults, unsaved>>

(* Mutant: the token is only revoked after the cases. *)
RevokeOnSuccess ==
  /\ phase = "revoke"
  /\ phase' = "save"
  /\ known' = FALSE
  /\ live' = (live /\ ~(known /\ outcome.cases # <<>>))
  /\ UNCHANGED <<config, threads, usage, used, streamed, phaseResult, backend, faults, unsaved>>

(* The `finally': a token that is known is revoked, or the request fails. *)
Revoke ==
  /\ phase = "revoke"
  /\ phase' = "save"
  /\ known' = FALSE
  /\ \/ live' = (live /\ ~known) /\ UNCHANGED faults
     \/ known /\ Fault /\ UNCHANGED live
  /\ UNCHANGED <<config, threads, usage, used, streamed, phaseResult, backend, unsaved>>

(* _save_cases: the cases that were not streamed. *)
SaveCase ==
  /\ phase = "save"
  /\ toSave # <<>>
  /\ toSave' = Tail(toSave)
  /\ IF toSave[1].index \in streamed THEN UNCHANGED <<records, faults, unsaved>>
     ELSE CreateRecord(toSave[1])
  /\ UNCHANGED <<config, phase, threads, usage, token, used, streamed, outcome, shown>>

Saved ==
  /\ phase = "save"
  /\ toSave = <<>>
  /\ phase' = "over"
  /\ UNCHANGED <<config, threads, usage, token, used, streamed, phaseResult, backend, faults, unsaved>>

Evaluator ==
  \/ CreateToken \/ PreparePair \/ PrepareIsolated
  \/ GatherPair \/ GatherIsolated \/ Revoke \/ SaveCase \/ Saved

Next ==
  \/ Evaluator
  \/ \E c \in Cases : Session(c) \/ CallLLM(c)

(* The evaluator's thread and the pool's run; a session ends, says the     *)
(* contract, though its judge may never end the case.                      *)
Fairness == WF_vars(Evaluator) /\ \A c \in Cases : WF_vars(Session(c))

Spec == Init /\ [][Next]_vars /\ Fairness

-----------------------------------------------------------------------------
(* Properties *)

Ran == outcome.cases # <<>>
Misnamed == \E c \in Cases : ended[c] # <<>> /\ ended[c][1].index # c
OverruledByRaise(c) == ended[c] # <<>> /\ returned[c] # ended[c]

(* No case is recorded twice, by its session and by _save_cases, or under  *)
(* another's name while judges name their cases right; and at the end of   *)
(* an evaluation that got to its cases each is recorded, unless the one    *)
(* request for it failed (service.py 147-158, 237-252).  The pair          *)
(* evaluator records each whatever the judges say.                         *)
RecordedOnce ==
  /\ ~Misnamed => \A c \in Cases : Len(records[c]) <= 1
  /\ phase = "over" /\ Ran =>
       \A c \in Cases :
         c \in unsaved \/ records[c] # <<>> \/ (config.kind = "isolated" /\ Misnamed)

(* What the backend holds of a case is what the phase result says of it,   *)
(* though the one was sent from the session's thread and the other came    *)
(* through the pool.  The exception: a session raised after its judge had  *)
(* ended the case, so the record is kept and the result is an error.       *)
RecordsMatch ==
  phase = "over" /\ ~Misnamed =>
    \A r \in ToSet(outcome.cases) :
      ~OverruledByRaise(r.index) =>
        /\ ToSet(records[r.index]) \subseteq {r.status}
        /\ shown[r.index] \in {"none", "running", r.status}

(* The records are complete, single and right. *)
RecordsRight == RecordedOnce /\ RecordsMatch

(* A phase is successful only if as many different cases as it takes were  *)
(* passed (dual_sandbox_evaluator.py 381-447).  The isolated evaluator     *)
(* (isolated_evaluator.py 376-392) has that from judges that name their    *)
(* cases right.                                                            *)
SuccessCovers ==
  outcome.status = "SUCCESS" /\ (config.kind = "isolated" => ~Misnamed) =>
    Cardinality({c \in Cases : [index |-> c, status |-> "passed"] \in ToSet(outcome.cases)})
      >= IF config.minPassed > 0 THEN config.minPassed ELSE NumCases

(* No call is charged to two cases, and the total never exceeds what the   *)
(* gateway counted: the usage is read and then compared by each session's  *)
(* own thread, without the lock (gateway.py 82-103), and that is why it is *)
(* only tracked when the cases run one after the other                     *)
(* (dual_sandbox_evaluator.py 378).                                        *)
NoCallCountedTwice == SumCharged <= used /\ total <= used

(* The token of an evaluation is good as long as one of its sessions may   *)
(* use it, and is not left behind unless a request failed, also if the     *)
(* evaluation does not get to its cases.                                   *)
TokenCoversSessions ==
  /\ config.userKey /\ Busy # {} => live
  /\ phase = "over" /\ live => faults > 0

(* What the evaluator takes from the gateway and charges for it is right. *)
GatewayRight == NoCallCountedTwice /\ TokenCoversSessions

(* The evaluation ends: no session keeps the lock from another or the pool *)
(* from its next case.                                                     *)
EvaluationEnds == <>(phase = "over")
=============================================================================
