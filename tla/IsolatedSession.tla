--------------------------- MODULE IsolatedSession ---------------------------
(***************************************************************************)
(* The multi-agent session (runtime/isolated_session.py): one judge        *)
(* sandbox and one sandbox per agent.  An action request goes to every     *)
(* agent; a thread per agent waits for the answer by a deadline of its     *)
(* own, and what came is combined into one action for the judge.           *)
(***************************************************************************)
EXTENDS CaseProtocol

IsolatedSetup ==
  \/ SetupDone
  \/ SetupRaises /\ Fault

ElsewhereThanReply == <<jin, jout, served, cases, started, ended, result, aout, ElsewhereThanRouter>>
Request == [type |-> "action_request", step |-> step]
SentTo(S) == [a \in Agents |-> IF a \in S THEN Append(ain[a], Request) ELSE ain[a]]

(* One send after the other; the first that fails ends the request, and    *)
(* the agents before it, or even the one it failed for, keep a request     *)
(* nobody will collect.                                                    *)
AskAgents ==
  LET up == {a \in Agents : agentUp[a]} IN
  /\ rpc = "ask"
  /\ \/ /\ up = Agents
        /\ ain' = SentTo(Agents)
        /\ rpc' = "collect"
        /\ UNCHANGED <<reply, faults>>
     \/ /\ IF up = Agents THEN Fault ELSE UNCHANGED faults
        /\ \E reached \in SUBSET up : ain' = SentTo(reached)
        /\ rpc' = "answer"
        /\ reply' = ErrorAction("error")
  /\ UNCHANGED <<got, late, ElsewhereThanReply>>

Collecting(a) == rpc = "collect" /\ got[a] = Waiting
ElsewhereThanCollect ==
  <<jin, jout, rpc, served, cases, started, ended, reply, result, ain, ElsewhereThanRouter>>

AgentAnswers(a) ==
  /\ Collecting(a)
  /\ agentUp[a] /\ aout[a] # <<>>
  /\ got' = [got EXCEPT ![a] = Head(aout[a])]
  /\ aout' = [aout EXCEPT ![a] = Tail(@)]
  /\ UNCHANGED <<faults, late, ElsewhereThanCollect>>

(* Mutant: only the end of its process ends the wait for an agent. *)
AgentNeverSilent(a) ==
  /\ Collecting(a)
  /\ ~agentUp[a]
  /\ got' = [got EXCEPT ![a] = NoAnswer]
  /\ late' = late \cup {a}
  /\ UNCHANGED <<aout, faults, ElsewhereThanCollect>>

(* A deadline, a dead process or a failed request are all one: no answer.  *)
AgentSilent(a) ==
  /\ Collecting(a)
  /\ \/ UNCHANGED <<aout, faults>>
     \/ aout[a] # <<>> /\ Fault /\ aout' = [aout EXCEPT ![a] = Tail(@)]
  /\ got' = [got EXCEPT ![a] = NoAnswer]
  /\ late' = late \cup {a}
  /\ UNCHANGED ElsewhereThanCollect

(* Mutant: the futures are taken as they complete, the rest is dropped. *)
CombineFirst ==
  /\ rpc = "collect"
  /\ \E a \in Agents : got[a] \notin {Waiting, NoAnswer}
  /\ rpc' = "answer"
  /\ reply' = Action([a \in {b \in Agents : got[b] \notin {Waiting, NoAnswer}} |-> got[a]])
  /\ UNCHANGED <<ain, got, faults, late, ElsewhereThanReply>>

(* agent_ids[0].  What a problem's adapter hands over is a dict with keys  *)
(* of its choice, and the session unwraps it: an action that has a key     *)
(* "error" is taken for a crash, and the status of the error reply is that *)
(* of the first agent's dict, be it about another agent's error.           *)
First == CHOOSE a \in Agents : TRUE
Acted(a) == got[a] > Ended
StatusOfError == IF Acted(First) THEN {"error", "tle", "mle"} ELSE {"error"}

Complete == rpc = "collect" /\ \A a \in Agents : got[a] # Waiting
Answered == {a \in Agents : got[a] # NoAnswer}
Data(answered) ==
  IF \A a \in answered : got[a] = Ended THEN Action(<<>>) ELSE Action([a \in answered |-> got[a]])

(* Mutant: an agent's error is dropped like its silence. *)
CombineCareless ==
  /\ Complete
  /\ rpc' = "answer"
  /\ reply' = Action([a \in {b \in Answered : Acted(b)} |-> got[a]])
  /\ UNCHANGED <<ain, got, faults, late, ElsewhereThanReply>>

(* Mutant: who has nothing more to say has failed. *)
CombineNullFails ==
  /\ Complete
  /\ rpc' = "answer"
  /\ reply' = IF \E a \in Agents : ~Acted(a) THEN ErrorAction("error") ELSE Data(Answered)
  /\ UNCHANGED <<ain, got, faults, late, ElsewhereThanReply>>

(* Nobody answered, or an answer is an error: an error, a timeout only if  *)
(* the first agent says so.  Nobody has more to say: null.  Otherwise the  *)
(* answers of those who gave one.                                          *)
Combine ==
  /\ Complete
  /\ rpc' = "answer"
  /\ \E odd \in SUBSET {a \in Agents : Acted(a)} :
       LET errors == odd \cup {a \in Agents : got[a] = Raised} IN
       \/ Answered = {} /\ reply' = ErrorAction("error")
       \/ errors # {} /\ \E status \in StatusOfError : reply' = ErrorAction(status)
       \/ Answered # {} /\ errors = {} /\ reply' = Data(Answered)
  /\ UNCHANGED <<ain, got, faults, late, ElsewhereThanReply>>

IsolatedRequest ==
  \/ AskAgents \/ Combine
  \/ \E a \in Agents : AgentAnswers(a) \/ AgentSilent(a)

IsolatedInit == ProtocolInit
IsolatedNext == IsolatedSetup \/ IsolatedRequest \/ Others

IsolatedSpec ==
  IsolatedInit /\ [][IsolatedNext]_vars /\ WF_vars(IsolatedSetup \/ IsolatedRequest \/ Route)

-----------------------------------------------------------------------------
(* Properties *)

(* A barrier: what the judge applies has an answer of every agent.         *)
BarrierComplete == \A m \in Actions : m.error = "none" /\ m.data # <<>> => DOMAIN m.data = Agents

(* The rounds are bulk-synchronous as long as the session has not given up *)
(* waiting for an agent (isolated_session.py 325-353): all answers belong  *)
(* to the judge's step, and all agents see the same steps.                 *)
SynchronousUntilLate == late = {} => RoundsAligned /\ BarrierComplete

(* An agent's crash is never hidden from the judge by another's answer     *)
(* (isolated_session.py 364-382); only the first agent's action can give   *)
(* it a status of its own.                                                 *)
CrashReported ==
  rpc = "answer" /\ (\E a \in Agents : got[a] = Raised) =>
    reply.error # "none" /\ (~Acted(First) => reply.error = "error")

(* A round in which all were asked and answered fails only by a crash, or  *)
(* by an action that looks like one (isolated_session.py 364-382); an      *)
(* agent that is done or late ends no other's game.                        *)
FailedForAReason ==
  rpc = "answer" /\ Waiting \notin Range(got) /\ reply.error # "none" =>
    Answered = {} \/ \E a \in Agents : got[a] = Raised \/ Acted(a)

(* What the judge is told of a round is the whole round. *)
WholeRounds == SynchronousUntilLate /\ CrashReported /\ FailedForAReason
=============================================================================
