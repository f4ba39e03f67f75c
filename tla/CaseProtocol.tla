---------------------------- MODULE CaseProtocol ----------------------------
(***************************************************************************)
(* One case: the judge's scaffold, the router between the sandboxes, and   *)
(* each agent's bridge with the thread that runs the user's code.          *)
(*                                                                         *)
(* The judge (runtime/judge_scaffold.py, runtime/multi_agent_scaffold.py,  *)
(* runtime/judge_runtime.py) and the agents (runtime/user_runtime.py) are  *)
(* servers with an inbound and an outbound queue; the router               *)
(* (runtime/router.py) is the client of all of them and the only one that  *)
(* knows the time.  How it obtains an action from one agent or from many   *)
(* is left to PairSession and IsolatedSession.                             *)
(*                                                                         *)
(* Messages keep their type, the step they belong to, and for an action    *)
(* who answered with which of its own actions.  Deadlines are abstract: a  *)
(* wait may give up at any time.  Lines that are not                       *)
(* JSON and messages of unknown type, which the two runtimes never send,   *)
(* are left out, and so are the case's history and its usage of tokens.    *)
(***************************************************************************)
EXTENDS Integers, Sequences, FiniteSets, Functions

CONSTANTS
  Agents,      \* the user of a pair session, or the agents of an isolated one
  MaxSteps,    \* bound: steps after which the judge's environment is done
  MaxFaults    \* bound: requests that fail or whose answer is lost, processes that die

ASSUME ProtocolAssumption ==
  /\ IsFiniteSet(Agents) /\ Agents # {}
  /\ MaxSteps \in Nat \ {0}
  /\ MaxFaults \in Nat

VARIABLES
  jpc,        \* where the judge's main_fn is
  step,       \* get_step(): actions applied so far
  override,   \* case_status_override
  jin, jout,  \* the judge's inbound and outbound queues
  judgeUp,    \* its process is alive
  upc,        \* where each user thread is
  acted,      \* how many actions it has handed to its bridge
  seen,       \* the steps of the observations it received, in order
  act, obs,   \* act_queue and obs_queue between user thread and bridge
  ain, aout,  \* the bridge's inbound and outbound queues
  agentUp,    \* its process is alive
  rpc,        \* where the router is
  served,     \* case_served
  cases,      \* the case results of the router
  started,    \* how often on_case_start was called
  ended,      \* the results on_case_end was called with
  got,        \* answers to the current action request
  reply,      \* the action about to be sent to the judge
  result,     \* what the session returns or raises
  faults,     \* how much of MaxFaults has happened
  late        \* history: agents the router stopped waiting for

judgeVars == <<jpc, step, override>>
userVars == <<upc, acted, seen>>
bridgeVars == <<act, obs>>
agentVars == <<userVars, bridgeVars, ain, aout, agentUp>>
routerVars == <<rpc, served, cases, started, ended, got, reply, result>>
vars == <<judgeVars, jin, jout, judgeUp, agentVars, routerVars, faults, late>>

Waiting == -2   \* no answer collected yet
Raised == -1    \* the user's code raised
Ended == 0      \* the user's code returned
NoAnswer == -3  \* nothing came from the agent

Overrides == {"none", "tle", "mle", "error"}
Statuses == {"passed", "failed", "tle", "mle", "error"}
Results == Statuses \cup {"running", "raised", "noResult"}
ActionIds == {Raised, Ended} \cup 1..(MaxSteps + 1)

Msg(type) == [type |-> type]
AgentMsgs == [type : {"observation", "action_request"}, step : 0..MaxSteps]
JudgeMsgs ==
  [type : {"case_request", "case_start", "eval_complete", "error"}]
    \cup [type : {"observation", "action_request"}, step : 0..MaxSteps]
    \cup [type : {"case_end"}, status : Statuses]

(* what reaches the judge as an action: answers by agent, or an error *)
Action(answers) == [type |-> "action", data |-> answers, error |-> "none"]
ErrorAction(status) == [type |-> "action", data |-> <<>>, error |-> status]
NoReply == Msg("none")
Replies ==
  [type : {"action"}, error : Overrides,
   data : {<<>>} \cup UNION {[S -> ActionIds] : S \in SUBSET Agents}]
JudgeInbox == [type : {"case_assign", "case_stop"}] \cup Replies

ProtocolTypeOK ==
  /\ jpc \in {"request", "awaitCase", "start", "loop", "awaitAction", "end", "complete", "over"}
  /\ step \in 0..MaxSteps
  /\ override \in Overrides
  /\ jin \in Seq(JudgeInbox)
  /\ jout \in Seq(JudgeMsgs)
  /\ judgeUp \in BOOLEAN
  /\ upc \in [Agents -> {"run", "awaitObs", "over"}]
  /\ acted \in [Agents -> 0..(MaxSteps + 1)]
  /\ seen \in [Agents -> Seq(0..MaxSteps)]
  /\ act \in [Agents -> Seq(ActionIds)]
  /\ obs \in [Agents -> Seq(0..MaxSteps)]
  /\ ain \in [Agents -> Seq(AgentMsgs)]
  /\ aout \in [Agents -> Seq(ActionIds)]
  /\ agentUp \in [Agents -> BOOLEAN]
  /\ rpc \in {"setup", "poll", "ask", "collect", "answer", "closing", "closed"}
  /\ served \in BOOLEAN
  /\ cases \in Seq(Statuses) /\ ended \in Seq(Statuses)
  /\ started \in Nat
  /\ got \in [Agents -> {Waiting, NoAnswer} \cup ActionIds]
  /\ reply \in {NoReply} \cup Replies
  /\ result \in Results
  /\ faults \in 0..MaxFaults
  /\ late \in SUBSET Agents

ProtocolInit ==
  /\ jpc = "request" /\ step = 0 /\ override = "none"
  /\ jin = <<>> /\ jout = <<>> /\ judgeUp = FALSE
  /\ upc = [a \in Agents |-> "run"]
  /\ acted = [a \in Agents |-> 0]
  /\ seen = [a \in Agents |-> <<>>]
  /\ act = [a \in Agents |-> <<>>] /\ obs = [a \in Agents |-> <<>>]
  /\ ain = [a \in Agents |-> <<>>] /\ aout = [a \in Agents |-> <<>>]
  /\ agentUp = [a \in Agents |-> FALSE]
  /\ rpc = "setup"
  /\ served = FALSE
  /\ cases = <<>> /\ started = 0 /\ ended = <<>>
  /\ got = [a \in Agents |-> Waiting] /\ reply = NoReply
  /\ result = "running"
  /\ faults = 0
  /\ late = {}

Fault == faults < MaxFaults /\ faults' = faults + 1

-----------------------------------------------------------------------------
(* The judge: run_case_scheduler and run_turn_based_case *)

JudgeGoto(from, to) == judgeUp /\ jpc = from /\ jpc' = to
JudgeSends(m) == jout' = Append(jout, m) /\ UNCHANGED jin
JudgeTakes(m) == jin # <<>> /\ m = Head(jin) /\ jin' = Tail(jin)
ElsewhereThanJudge == <<judgeUp, agentVars, routerVars, faults, late>>

RequestCase ==
  /\ JudgeGoto("request", "awaitCase")
  /\ JudgeSends(Msg("case_request"))
  /\ UNCHANGED <<step, override, ElsewhereThanJudge>>

ReceiveCase ==
  /\ \E m \in {Msg("case_assign"), Msg("case_stop")} :
       /\ JudgeTakes(m)
       /\ JudgeGoto("awaitCase", IF m.type = "case_stop" THEN "complete" ELSE "start")
  /\ UNCHANGED <<step, override, jout, ElsewhereThanJudge>>

CompleteEvaluation ==
  /\ JudgeGoto("complete", "over")
  /\ JudgeSends(Msg("eval_complete"))
  /\ UNCHANGED <<step, override, ElsewhereThanJudge>>

StartCase ==
  /\ JudgeGoto("start", "loop")
  /\ JudgeSends(Msg("case_start"))
  /\ step' = 0 /\ override' = "none"
  /\ UNCHANGED ElsewhereThanJudge

RequestAction ==
  /\ JudgeGoto("loop", "awaitAction")
  /\ JudgeSends([type |-> "action_request", step |-> step])
  /\ UNCHANGED <<step, override, ElsewhereThanJudge>>

(* the judge's own clock, read between two steps *)
TimeLimit ==
  /\ JudgeGoto("loop", "end")
  /\ override' = "tle"
  /\ UNCHANGED <<step, jin, jout, ElsewhereThanJudge>>

(* Mutant: the observation is not sent. *)
ApplyActionUnobserved ==
  /\ jpc = "awaitAction" /\ jin # <<>>
  /\ LET m == Head(jin) IN
       /\ m.error = "none"
       /\ m.data # <<>>
       /\ jin' = Tail(jin)
       /\ step' = step + 1
       /\ JudgeGoto("awaitAction", "end") \/ (step' < MaxSteps /\ JudgeGoto("awaitAction", "loop"))
  /\ UNCHANGED <<override, jout, ElsewhereThanJudge>>

(* The environment is told every answer; it is done at any step, and at    *)
(* MaxSteps for sure.                                                      *)
ApplyAction ==
  /\ jpc = "awaitAction" /\ jin # <<>>
  /\ LET m == Head(jin) IN
       /\ m.error = "none"
       /\ m.data # <<>>
       /\ jin' = Tail(jin)
       /\ step' = step + 1
       /\ jout' = Append(jout, [type |-> "observation", step |-> step'])
       /\ JudgeGoto("awaitAction", "end") \/ (step' < MaxSteps /\ JudgeGoto("awaitAction", "loop"))
  /\ UNCHANGED <<override, ElsewhereThanJudge>>

(* Mutant: the status of an error is not looked at. *)
RejectActionUnread ==
  /\ jpc = "awaitAction" /\ jin # <<>>
  /\ LET m == Head(jin) IN
       /\ JudgeGoto("awaitAction", "end")
       /\ jin' = Tail(jin)
       /\ m.error # "none" \/ m.data = <<>>
       /\ override' = "error"
  /\ UNCHANGED <<step, jout, ElsewhereThanJudge>>

(* An error, or data null: the agent has nothing more to say. *)
RejectAction ==
  /\ jpc = "awaitAction" /\ jin # <<>>
  /\ LET m == Head(jin) IN
       /\ JudgeGoto("awaitAction", "end")
       /\ jin' = Tail(jin)
       /\ m.error # "none" \/ m.data = <<>>
       /\ override' = IF m.error = "none" THEN "error" ELSE m.error
  /\ UNCHANGED <<step, jout, ElsewhereThanJudge>>

EndCase ==
  /\ JudgeGoto("end", "request")
  /\ \E status \in IF override = "none" THEN {"passed", "failed"} ELSE {override} :
       JudgeSends([type |-> "case_end", status |-> status])
  /\ UNCHANGED <<step, override, ElsewhereThanJudge>>

(* The environment raises: main_fn ends with an error message. *)
JudgeRaises ==
  /\ \/ JudgeGoto("loop", "over") /\ UNCHANGED jin
     \/ JudgeGoto("awaitAction", "over") /\ jin # <<>> /\ jin' = Tail(jin)
  /\ Fault
  /\ jout' = Append(jout, Msg("error"))
  /\ UNCHANGED <<step, override, judgeUp, agentVars, routerVars, late>>

JudgeDies ==
  /\ judgeUp
  /\ Fault
  /\ judgeUp' = FALSE
  /\ UNCHANGED <<judgeVars, jin, jout, agentVars, routerVars, late>>

Judge ==
  \/ RequestCase \/ ReceiveCase \/ CompleteEvaluation
  \/ StartCase \/ RequestAction \/ TimeLimit \/ ApplyAction \/ RejectAction \/ EndCase

-----------------------------------------------------------------------------
(* An agent: the user's thread and bridge_main *)

ElsewhereThanAgent == <<judgeVars, jin, jout, judgeUp, agentUp, routerVars, faults, late>>

(* a tool call of the user's code: hand an action over, wait for its observation *)
UserActs(a) ==
  /\ agentUp[a]
  /\ upc[a] = "run"
  /\ acted[a] <= MaxSteps
  /\ upc' = [upc EXCEPT ![a] = "awaitObs"]
  /\ acted' = [acted EXCEPT ![a] = @ + 1]
  /\ act' = [act EXCEPT ![a] = Append(@, acted'[a])]
  /\ UNCHANGED <<seen, obs, ain, aout, ElsewhereThanAgent>>

UserSees(a) ==
  /\ agentUp[a]
  /\ upc[a] = "awaitObs"
  /\ obs[a] # <<>>
  /\ upc' = [upc EXCEPT ![a] = "run"]
  /\ seen' = [seen EXCEPT ![a] = Append(@, Head(obs[a]))]
  /\ obs' = [obs EXCEPT ![a] = Tail(@)]
  /\ UNCHANGED <<acted, act, ain, aout, ElsewhereThanAgent>>

(* the entry function returns or raises; the `finally' of _user_thread *)
UserEnds(a) ==
  /\ agentUp[a]
  /\ upc[a] = "run"
  /\ upc' = [upc EXCEPT ![a] = "over"]
  /\ \E how \in {Ended, Raised} : act' = [act EXCEPT ![a] = Append(@, how)]
  /\ UNCHANGED <<acted, seen, obs, ain, aout, ElsewhereThanAgent>>

(* bridge_main takes the next message; an action request blocks it until   *)
(* the user's code has an action, and its end is answered only once.       *)
BridgeOver(a) == upc[a] = "over" /\ act[a] = <<>>

BridgeObservation(a) ==
  /\ agentUp[a]
  /\ ~BridgeOver(a)
  /\ ain[a] # <<>>
  /\ Head(ain[a]).type = "observation"
  /\ ain' = [ain EXCEPT ![a] = Tail(@)]
  /\ obs' = [obs EXCEPT ![a] = Append(@, Head(ain[a]).step)]
  /\ UNCHANGED <<userVars, act, aout, ElsewhereThanAgent>>

BridgeAction(a) ==
  /\ agentUp[a]
  /\ ain[a] # <<>>
  /\ Head(ain[a]).type = "action_request"
  /\ act[a] # <<>>
  /\ ain' = [ain EXCEPT ![a] = Tail(@)]
  /\ act' = [act EXCEPT ![a] = Tail(@)]
  /\ aout' = [aout EXCEPT ![a] = Append(@, Head(act[a]))]
  /\ UNCHANGED <<userVars, obs, ElsewhereThanAgent>>

AgentDies(a) ==
  /\ agentUp[a]
  /\ Fault
  /\ agentUp' = [agentUp EXCEPT ![a] = FALSE]
  /\ UNCHANGED <<judgeVars, jin, jout, judgeUp, userVars, bridgeVars, ain, aout, routerVars, late>>

Agent(a) == UserActs(a) \/ UserSees(a) \/ UserEnds(a) \/ BridgeObservation(a) \/ BridgeAction(a)

-----------------------------------------------------------------------------
(* The router *)

ElsewhereThanRouter == <<judgeVars, judgeUp, userVars, bridgeVars, agentUp>>

Take(type) ==
  /\ rpc = "poll"
  /\ judgeUp
  /\ jout # <<>>
  /\ Head(jout).type = type
  /\ jout' = Tail(jout)

(* send_to_judge is not guarded: its exception ends the session. *)
SendToJudge(m) ==
  \/ /\ judgeUp
     /\ jin' = Append(jin, m)
     /\ rpc' = "poll"
     /\ UNCHANGED <<result, faults>>
  \/ /\ (~judgeUp /\ UNCHANGED faults) \/ Fault
     /\ rpc' = "closing"
     /\ result' = "raised"
     /\ UNCHANGED jin

(* Mutant of CaseRequested: the case is served again and again. *)
CaseRequestedAgain ==
  /\ Take("case_request")
  /\ SendToJudge(Msg("case_assign"))
  /\ served' = TRUE
  /\ UNCHANGED <<cases, started, ended, got, reply, ain, aout, late, ElsewhereThanRouter>>

CaseRequested ==
  /\ Take("case_request")
  /\ SendToJudge(Msg(IF served THEN "case_stop" ELSE "case_assign"))
  /\ served' = TRUE
  /\ UNCHANGED <<cases, started, ended, got, reply, ain, aout, late, ElsewhereThanRouter>>

CaseStarted ==
  /\ Take("case_start")
  /\ started' = started + 1
  /\ UNCHANGED <<jin, rpc, served, cases, ended, got, reply, result, ain, aout, faults, late, ElsewhereThanRouter>>

(* send_to_user: each send may fail alone, and the failure is swallowed *)
Observed ==
  /\ Take("observation")
  /\ LET m == Head(jout)
         arrived(S) == ain' = [a \in Agents |-> IF a \in S THEN Append(ain[a], m) ELSE ain[a]]
         up == {a \in Agents : agentUp[a]}
     IN \/ arrived(up) /\ UNCHANGED faults
        \/ Fault /\ \E a \in up : arrived(up \ {a})
  /\ UNCHANGED <<jin, rpc, served, cases, started, ended, got, reply, result, aout, late, ElsewhereThanRouter>>

ActionRequested ==
  /\ Take("action_request")
  /\ rpc' = "ask"
  /\ got' = [a \in Agents |-> Waiting]
  /\ UNCHANGED <<jin, served, cases, started, ended, reply, result, ain, aout, faults, late, ElsewhereThanRouter>>

(* the answer of request_user_action, whatever it is, goes to the judge *)
SendReply ==
  /\ rpc = "answer"
  /\ SendToJudge(reply)
  /\ reply' = NoReply
  /\ UNCHANGED <<jout, served, cases, started, ended, got, ain, aout, late, ElsewhereThanRouter>>

CaseEnded ==
  /\ Take("case_end")
  /\ cases' = Append(cases, Head(jout).status)
  /\ ended' = Append(ended, Head(jout).status)
  /\ UNCHANGED <<jin, rpc, served, started, got, reply, result, ain, aout, faults, late, ElsewhereThanRouter>>

(* what run() makes of the router's cases *)
FirstCase == IF cases = <<>> THEN "noResult" ELSE cases[1]

Leave ==
  /\ rpc' = "closing"
  /\ result' = FirstCase
  /\ UNCHANGED <<jin, served, cases, started, ended, got, reply, ain, aout, late, ElsewhereThanRouter>>

EvaluationOver ==
  /\ Take("eval_complete") \/ Take("error")
  /\ Leave
  /\ UNCHANGED faults

(* No line from the judge: idle, dead, or the overall deadline passed,     *)
(* which is looked at before the queue; or a failed request, which may     *)
(* have taken a line with it.                                              *)
JudgeSilent ==
  /\ rpc = "poll"
  /\ \/ UNCHANGED <<faults, jout>>
     \/ jout # <<>> /\ Fault /\ jout' = Tail(jout)
  /\ Leave

(* _cleanup: processes stopped, sandboxes destroyed *)
Cleanup ==
  /\ rpc = "closing"
  /\ rpc' = "closed"
  /\ judgeUp' = FALSE
  /\ agentUp' = [a \in Agents |-> FALSE]
  /\ UNCHANGED <<judgeVars, jin, jout, userVars, bridgeVars, ain, aout,
                 served, cases, started, ended, got, reply, result, faults, late>>

Route ==
  \/ CaseRequested \/ CaseStarted \/ Observed \/ ActionRequested \/ SendReply
  \/ CaseEnded \/ EvaluationOver \/ JudgeSilent \/ Cleanup

-----------------------------------------------------------------------------
(* Setup: everything starts, or something is not ready in time *)

SetupDone ==
  /\ rpc = "setup"
  /\ rpc' = "poll"
  /\ judgeUp' = TRUE
  /\ agentUp' = [a \in Agents |-> TRUE]
  /\ UNCHANGED <<judgeVars, jin, jout, userVars, bridgeVars, ain, aout,
                 served, cases, started, ended, got, reply, result, faults, late>>

SetupRaises ==
  /\ rpc = "setup"
  /\ rpc' = "closing"
  /\ result' = "raised"
  /\ UNCHANGED <<jin, jout, served, cases, started, ended, got, reply, ain, aout, late, ElsewhereThanRouter>>

-----------------------------------------------------------------------------
(* what a session of either kind does around its own way to get an action *)
Others ==
  \/ Judge \/ JudgeRaises \/ JudgeDies \/ Route
  \/ \E a \in Agents : Agent(a) \/ AgentDies(a)

-----------------------------------------------------------------------------
(* Properties of every session *)

Actions == {m \in Range(jin) : m.type = "action"}

(* Nobody waits for somebody who waits for him: as long as no request is   *)
(* lost and nothing dies, the router never polls a judge that waits for an *)
(* answer (router.py 152-191), and never waits for an action of a user's   *)
(* thread that waits for an observation (user_runtime.py 86-100).          *)
JudgeStarved == rpc = "poll" /\ jout = <<>> /\ jin = <<>> /\ jpc \in {"awaitCase", "awaitAction"}
AgentStarved(a) ==
  /\ rpc = "collect"
  /\ got[a] = Waiting
  /\ upc[a] = "awaitObs"
  /\ aout[a] = <<>> /\ act[a] = <<>> /\ obs[a] = <<>>
  /\ \A i \in 1..Len(ain[a]) : ain[a][i].type # "observation"

NobodyStarves ==
  faults = 0 => ~JudgeStarved /\ (late = {} => \A a \in Agents : ~AgentStarved(a))

(* The judge's step n is played with each agent's n-th action, and an      *)
(* agent's n-th observation is the one of step n.                          *)
InRound(m) == \A a \in DOMAIN m.data : m.data[a] \in {Ended, step + 1}
RoundsAligned ==
  /\ \A m \in Actions : InRound(m)
  /\ \A a \in Agents : \A i \in 1..Len(seen[a]) : seen[a][i] = i

(* Seen from the evaluator the session keeps its contract on callbacks,    *)
(* and run() returns or raises whatever judge and agents do: every wait of *)
(* the router has a deadline.                                              *)
Contract == INSTANCE CaseContract
KeepsContract == Contract!ContractSpec
=============================================================================
