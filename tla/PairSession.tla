----------------------------- MODULE PairSession -----------------------------
(***************************************************************************)
(* The single-agent session (runtime/pair_session.py): one judge sandbox,  *)
(* one user sandbox, one case.                                             *)
(***************************************************************************)
EXTENDS CaseProtocol

CONSTANT Backend   \* which Sandbox class the case runs on

ASSUME PairAssumption == Backend \in {"docker", "local"} /\ Cardinality(Agents) = 1

User == CHOOSE a \in Agents : TRUE

(* grpc_bind_address exists on LocalSandbox only. *)
HasBindAddress == Backend = "local"

PairSetup ==
  \/ HasBindAddress /\ SetupDone
  \/ SetupRaises /\ IF HasBindAddress THEN Fault ELSE UNCHANGED faults

(* request_user_action returns m *)
Answer(m) ==
  /\ rpc' = "answer"
  /\ reply' = m
  /\ UNCHANGED <<jin, jout, served, cases, started, ended, result, ElsewhereThanRouter>>

(* A request whose acknowledgement is lost may have arrived. *)
AskUser ==
  LET sent == [ain EXCEPT ![User] = Append(@, [type |-> "action_request", step |-> step])] IN
  /\ rpc = "ask"
  /\ \/ /\ agentUp[User]
        /\ rpc' = "collect"
        /\ ain' = sent
        /\ UNCHANGED <<jin, jout, served, cases, started, ended, reply, result, faults, ElsewhereThanRouter>>
     \/ /\ \/ ~agentUp[User] /\ UNCHANGED <<ain, faults>>
           \/ agentUp[User] /\ Fault /\ ain' \in {ain, sent}
        /\ Answer(ErrorAction("error"))
  /\ UNCHANGED <<aout, got, late>>

(* Mutant: an answer that came too late is taken for the next request. *)
UserAnswersStale ==
  /\ rpc = "collect"
  /\ agentUp[User]
  /\ aout[User] # <<>>
  /\ got' = [got EXCEPT ![User] = Head(aout[User])]
  /\ Answer(Action([a \in Agents |-> Head(aout[User])]))
  /\ UNCHANGED <<ain, aout, faults, late>>

UserAnswers ==
  /\ rpc = "collect"
  /\ agentUp[User]
  /\ aout[User] # <<>>
  /\ aout' = [aout EXCEPT ![User] = Tail(@)]
  /\ got' = [got EXCEPT ![User] = Head(aout[User])]
  /\ Answer(CASE got'[User] = Raised -> ErrorAction("error")
              [] got'[User] = Ended -> Action(<<>>)
              [] OTHER -> Action(got'))
  /\ UNCHANGED <<ain, faults, late>>

(* the process is gone: out of memory, or not *)
UserGone ==
  /\ rpc = "collect"
  /\ ~agentUp[User]
  /\ \E status \in {"mle", "error"} : Answer(ErrorAction(status))
  /\ UNCHANGED <<ain, aout, got, faults, late>>

(* Mutant: whatever ends the wait is an error. *)
UserLateIsError ==
  /\ rpc = "collect"
  /\ got' = [got EXCEPT ![User] = NoAnswer]
  /\ late' = Agents
  /\ Answer(ErrorAction("error"))
  /\ UNCHANGED <<ain, aout, faults>>

(* A deadline passed, which is looked at before the queue and the process. *)
(* A failed request, which may have taken the answer with it, counts as    *)
(* the same thing.                                                         *)
UserLate ==
  /\ rpc = "collect"
  /\ \/ UNCHANGED <<aout, faults>>
     \/ aout[User] # <<>> /\ Fault /\ aout' = [aout EXCEPT ![User] = Tail(@)]
  /\ got' = [got EXCEPT ![User] = NoAnswer]
  /\ late' = Agents
  /\ Answer(ErrorAction("tle"))
  /\ UNCHANGED ain

PairRequest == AskUser \/ UserAnswers \/ UserGone \/ UserLate

PairInit == ProtocolInit
PairNext == PairSetup \/ PairRequest \/ Others

(* Only the worker's own thread is assumed to run: its waits end by their  *)
(* deadlines.  Judge and user may do nothing at all.                       *)
PairSpec ==
  PairInit /\ [][PairNext]_vars /\ WF_vars(PairSetup \/ PairRequest \/ Route)

-----------------------------------------------------------------------------
(* The verdict the evaluator is told fits what became of the user, through *)
(* the router's reply, the judge's override and the case_end, whatever     *)
(* fails on the way: who was late once is judged tle and nothing else      *)
(* (the guide's case_idle_timeout), mle is for a process that died, error  *)
(* for code that ended or a request that failed, and a user who passes or  *)
(* fails has played a step.  (A judge out of time says tle to anybody.)    *)
Fits(verdict) ==
  /\ late # {} => verdict = "tle"
  /\ verdict = "mle" => ~agentUp[User]
  /\ verdict = "error" => upc[User] = "over" \/ faults > 0
  /\ verdict \in {"passed", "failed"} => step > 0

VerdictFits == \A i \in 1..Len(ended) : Fits(ended[i])
=============================================================================
