------------------------- MODULE CaseProtocolProofs -------------------------
(***************************************************************************)
(* What the sessions of both kinds have in common.  The lemmas are about   *)
(* the steps of the judge, of the agents and of the router that do not     *)
(* depend on how an action is obtained; PairSessionProofs and              *)
(* IsolatedSessionProofs add the others.                                   *)
(*                                                                         *)
(* The argument has four layers.  Types; the dialogue of judge and router, *)
(* in which one of the two always waits for the other; the rounds, in      *)
(* which an agent's next action and its next observation are each in one   *)
(* place at most; and the callbacks to the evaluator.                      *)
(***************************************************************************)
EXTENDS CaseProtocol, SequenceTheorems, TLAPS

(* The router still serves the judge. *)
Live == rpc \notin {"closing", "closed"}
Asking == rpc \in {"ask", "collect", "answer"}

-----------------------------------------------------------------------------
(* The dialogue.  The judge's requests are the last thing it said, its     *)
(* queue holds one message at most, and only while it waits for it.        *)

JudgeAwaits(m) ==
  \/ m.type \in {"case_assign", "case_stop"} /\ jpc = "awaitCase"
  \/ m.type = "action" /\ jpc = "awaitAction"

JudgeHears ==
  jin # <<>> => /\ Len(jin) = 1 /\ jout = <<>> /\ ~Asking /\ served
                /\ JudgeAwaits(jin[1])
                /\ jin[1].type = "case_assign" => step = 0

JudgeSays ==
  \A i \in 1..Len(jout) :
    /\ jout[i].type = "case_request" => i = Len(jout) /\ jpc = "awaitCase"
    /\ jout[i].type = "action_request" => i = Len(jout) /\ jpc = "awaitAction"
    /\ jout[i].type \in {"action_request", "observation"} => jout[i].step = step
    /\ jout[i].type \in {"case_start", "observation"} => i = 1

RouterAsks == Asking => jpc = "awaitAction" /\ jout = <<>>

BeforeCase ==
  /\ ~served => jpc \in {"request", "awaitCase"} /\ step = 0 /\ Len(jout) <= 1
                /\ \A i \in 1..Len(jout) : jout[i].type = "case_request"
  /\ jpc = "start" => jout = <<>> /\ step = 0
  /\ jpc \in {"start", "loop", "awaitAction"} => step < MaxSteps

(* While the router is there, a judge that waits is heard or answered.     *)
JudgeServed ==
  /\ Live /\ jpc = "awaitCase" =>
       \/ jin # <<>>
       \/ jout # <<>> /\ jout[Len(jout)].type = "case_request"
  /\ Live /\ jpc = "awaitAction" =>
       \/ jin # <<>> \/ Asking
       \/ jout # <<>> /\ jout[Len(jout)].type = "action_request"

ReplyReady == rpc = "answer" => reply \in Replies

Dialogue == JudgeHears /\ JudgeSays /\ RouterAsks /\ BeforeCase /\ JudgeServed /\ ReplyReady

-----------------------------------------------------------------------------
(* The rounds.  An agent's next item, an action or the end of its code, is *)
(* with its thread, its bridge, the router or the judge, in one place at   *)
(* most; so is the observation it waits for.                               *)

Items(a) ==
  IF upc[a] = "awaitObs" THEN {acted[a]} ELSE IF upc[a] = "over" THEN {Ended, Raised} ELSE {}

InOrder(a) ==
  /\ \A i \in 1..Len(seen[a]) : seen[a][i] = i
  /\ acted[a] = Len(seen[a]) + IF upc[a] = "awaitObs" THEN 1 ELSE 0
  /\ step \in {Len(seen[a]), Len(seen[a]) + 1}
  /\ upc[a] = "run" => step = Len(seen[a])

AtAgent(a) == act[a] # <<>> \/ aout[a] # <<>>

ItemOnce(a) ==
  /\ Len(act[a]) <= 1 /\ Len(aout[a]) <= 1
  /\ act[a] # <<>> => act[a][1] \in Items(a) /\ aout[a] = <<>>
  /\ aout[a] # <<>> => aout[a][1] \in Items(a)
  /\ AtAgent(a) => step = Len(seen[a])
  /\ rpc \in {"collect", "answer"} /\ got[a] \notin {Waiting, NoAnswer} =>
       got[a] \in Items(a) /\ step = Len(seen[a]) /\ ~AtAgent(a)

(* An action the judge will apply has an answer of every agent.            *)
WholeRound(m) ==
  m.data # <<>> =>
    /\ m.error = "none" /\ DOMAIN m.data = Agents
    /\ \A a \in Agents : /\ m.data[a] \in Items(a) \ {Raised}
                         /\ step = Len(seen[a]) /\ ~AtAgent(a)

RoundInPlay ==
  /\ rpc = "ask" => \A a \in Agents : got[a] = Waiting
  /\ rpc = "answer" => WholeRound(reply)
  /\ jin # <<>> /\ jin[1].type = "action" => WholeRound(jin[1])

Told(a) == \E i \in 1..Len(ain[a]) : ain[a][i].type = "observation"
Announced == jout # <<>> /\ jout[1].type = "observation"

ObservedOnce(a) ==
  /\ Len(obs[a]) <= 1
  /\ obs[a] # <<>> => obs[a][1] = Len(seen[a]) + 1 /\ step = Len(seen[a]) + 1
  /\ \A i \in 1..Len(ain[a]) : ain[a][i].type = "observation" =>
       /\ ain[a][i].step = Len(seen[a]) + 1 /\ step = Len(seen[a]) + 1
       /\ obs[a] = <<>>
       /\ \A j \in 1..Len(ain[a]) : ain[a][j].type = "observation" => j = i
  /\ Announced => step = Len(seen[a]) + 1 /\ obs[a] = <<>> /\ ~Told(a)

Rounds == RoundInPlay /\ \A a \in Agents : InOrder(a) /\ ItemOnce(a) /\ ObservedOnce(a)

(* The judge has nothing more to ask of the agents. *)
Settled ==
  /\ jpc \in {"end", "complete", "over", "request", "awaitCase"}
  /\ served
  /\ jin # <<>> => jin[1].type # "case_assign"

(* Without a fault, and before somebody is late, nothing gets lost: the    *)
(* item of a thread that waits is somewhere, or its observation is.        *)
ItemAround(a) ==
  step = Len(seen[a]) /\ \/ AtAgent(a)
                         \/ rpc \in {"collect", "answer"} /\ got[a] # Waiting
                         \/ jin # <<>> /\ jin[1].type = "action"
ObservationAround(a) ==
  step = Len(seen[a]) + 1 /\ (Announced \/ Told(a) \/ obs[a] # <<>>)

NothingLost ==
  Live /\ faults = 0 /\ late = {} =>
    /\ rpc # "setup" => \A a \in Agents : agentUp[a]
    /\ \A a \in Agents : upc[a] = "awaitObs" => Settled \/ ItemAround(a) \/ ObservationAround(a)

-----------------------------------------------------------------------------
(* The callbacks.  One case is assigned, so that one case is started and   *)
(* one is ended after it.                                                  *)

HeadIs(type) == jout # <<>> /\ jout[1].type = type

Callbacks ==
  Live =>
    /\ result = "running"
    /\ cases = ended /\ Len(ended) <= 1
    /\ started \in {0, 1}
    /\ ended # <<>> => started = 1
    /\ ~served \/ jpc = "start" \/ (jin # <<>> /\ jin[1].type = "case_assign") => started = 0
    /\ HeadIs("case_start") => started = 0 /\ served
    /\ jpc \in {"loop", "awaitAction", "end"} =>
         /\ ended = <<>>
         /\ started = 1 \/ HeadIs("case_start")
         /\ \A i \in 1..Len(jout) : jout[i].type # "case_end"
    /\ \A i \in 1..Len(jout) : jout[i].type = "case_end" =>
         /\ ended = <<>>
         /\ started = 1 \/ HeadIs("case_start")
         /\ \A j \in 1..Len(jout) : jout[j].type = "case_end" => j = i

-----------------------------------------------------------------------------
(* Queues *)

LEMMA Appended ==
  ASSUME NEW S, NEW q \in Seq(S), NEW x \in S
  PROVE  /\ Append(q, x) \in Seq(S)
         /\ Len(Append(q, x)) = Len(q) + 1
         /\ Append(q, x) # <<>>
         /\ \A i \in 1..Len(q) : Append(q, x)[i] = q[i]
         /\ Append(q, x)[Len(q) + 1] = x
BY AppendProperties

LEMMA NotEmptied ==
  ASSUME NEW S, NEW q \in Seq(S), NEW x
  PROVE  Append(q, x) # <<>>
<1>1. Len(Append(q, x)) = Len(q) + 1 /\ Len(q) \in Nat
  OBVIOUS
<1> QED
  BY <1>1, EmptySeq

LEMMA Taken ==
  ASSUME NEW S, NEW q \in Seq(S), q # <<>>
  PROVE  /\ Head(q) = q[1] /\ Head(q) \in S
         /\ Tail(q) \in Seq(S)
         /\ Len(q) \in Nat \ {0}
         /\ Len(Tail(q)) = Len(q) - 1
         /\ \A i \in 1..Len(Tail(q)) : Tail(q)[i] = q[i + 1]
         /\ Tail(q) # <<>> <=> Len(q) > 1
<1>1. Head(q) = q[1] /\ Head(q) \in S /\ Tail(q) \in Seq(S) /\ Len(Tail(q)) = Len(q) - 1
  BY HeadTailProperties
<1>2. Len(q) \in Nat \ {0}
  BY EmptySeq
<1>3. \A i \in 1..Len(Tail(q)) : Tail(q)[i] = q[i + 1]
  BY HeadTailProperties
<1>4. Tail(q) # <<>> <=> Len(Tail(q)) # 0
  BY <1>1, EmptySeq
<1> QED
  BY <1>1, <1>2, <1>3, <1>4

LEMMA Elements ==
  ASSUME NEW S, NEW q \in Seq(S)
  PROVE  /\ Len(q) \in Nat
         /\ q # <<>> <=> Len(q) # 0
         /\ \A i \in 1..Len(q) : q[i] \in S
BY ElementOfSeq, EmptySeq, LenProperties

LEMMA QueuesTyped ==
  ASSUME NEW S, NEW q \in [Agents -> Seq(S)], NEW a \in Agents
  PROVE  /\ \A x \in S : [q EXCEPT ![a] = Append(@, x)] \in [Agents -> Seq(S)]
         /\ q[a] # <<>> => /\ Head(q[a]) \in S
                           /\ [q EXCEPT ![a] = Tail(@)] \in [Agents -> Seq(S)]
<1>1. \A x \in S : Append(q[a], x) \in Seq(S)
  BY Appended
<1>2. q[a] # <<>> => Head(q[a]) \in S /\ Tail(q[a]) \in Seq(S)
  BY Taken
<1> QED
  BY <1>1, <1>2

-----------------------------------------------------------------------------
(* Types *)

LEMMA TypeInit == ProtocolInit => ProtocolTypeOK
<1> SUFFICES ASSUME ProtocolInit PROVE ProtocolTypeOK
  OBVIOUS
<1>1. \A S : <<>> \in Seq(S)
  BY EmptySeq
<1>2. /\ step \in 0..MaxSteps /\ started \in Nat /\ faults \in 0..MaxFaults
      /\ acted \in [Agents -> 0..(MaxSteps + 1)]
  BY ProtocolAssumption DEF ProtocolInit
<1> QED
  BY <1>1, <1>2 DEF ProtocolInit, ProtocolTypeOK, Overrides, Results, NoReply, ActionIds

LEMMA FaultTyped == ASSUME ProtocolTypeOK, Fault PROVE faults' \in 0..MaxFaults
BY ProtocolAssumption DEF Fault, ProtocolTypeOK

LEMMA JudgeTyped ==
  ASSUME ProtocolTypeOK, Dialogue, Judge \/ JudgeRaises \/ JudgeDies
  PROVE  ProtocolTypeOK'
<1> USE ProtocolAssumption DEF ProtocolTypeOK, JudgeGoto, JudgeSends, JudgeMsgs, Msg, ElsewhereThanJudge,
          agentVars, userVars, bridgeVars, routerVars, Overrides, Statuses
<1>1. CASE RequestCase
  BY <1>1 DEF RequestCase
<1>2. CASE ReceiveCase
  BY <1>2 DEF ReceiveCase, JudgeTakes
<1>3. CASE CompleteEvaluation
  BY <1>3 DEF CompleteEvaluation
<1>4. CASE StartCase
  BY <1>4 DEF StartCase
<1>5. CASE RequestAction
  BY <1>5 DEF RequestAction
<1>6. CASE TimeLimit
  BY <1>6 DEF TimeLimit
<1>7. CASE ApplyAction
  <2>1. step < MaxSteps /\ step \in Nat
    BY <1>7 DEF ApplyAction, Dialogue, BeforeCase
  <2>2. step' \in 0..MaxSteps
    BY <1>7, <2>1 DEF ApplyAction
  <2>3. [type |-> "observation", step |-> step'] \in JudgeMsgs
    BY <2>2
  <2>4. jout' \in Seq(JudgeMsgs)
    BY <1>7, <2>3, Appended DEF ApplyAction
  <2>5. jin' \in Seq(JudgeInbox)
    BY <1>7, Taken DEF ApplyAction
  <2> QED
    BY <1>7, <2>2, <2>4, <2>5 DEF ApplyAction
<1>8. CASE RejectAction
  <2>1. jin' \in Seq(JudgeInbox) /\ jpc' = "end"
    BY <1>8, Taken DEF RejectAction
  <2>2. Head(jin) \in Replies
    <3>1. jin # <<>> /\ jpc = "awaitAction"
      BY <1>8 DEF RejectAction
    <3>2. Head(jin) = jin[1] /\ Head(jin) \in JudgeInbox
      BY <3>1, Taken
    <3> QED
      BY <3>1, <3>2 DEF JudgeInbox, Dialogue, JudgeHears, JudgeAwaits
  <2>3. override' \in Overrides
    BY <1>8, <2>2 DEF RejectAction, Replies
  <2> QED
    BY <1>8, <2>1, <2>3 DEF RejectAction
<1>9. CASE EndCase
  BY <1>9 DEF EndCase
<1>10. CASE JudgeRaises
  <2>1. faults' \in 0..MaxFaults
    BY <1>10, FaultTyped DEF JudgeRaises
  <2>2. jin' \in Seq(JudgeInbox) /\ jpc' = "over"
    <3>1. /\ UNCHANGED jin \/ (jin # <<>> /\ jin' = Tail(jin))
          /\ jpc' = "over"
      BY <1>10 DEF JudgeRaises
    <3>2. jin # <<>> => Tail(jin) \in Seq(JudgeInbox)
      BY Taken
    <3> QED
      BY <3>1, <3>2
  <2>3. jout' \in Seq(JudgeMsgs)
    BY <1>10, Appended DEF JudgeRaises
  <2> QED
    BY <1>10, <2>1, <2>2, <2>3 DEF JudgeRaises
<1>11. CASE JudgeDies
  <2>1. faults' \in 0..MaxFaults
    BY <1>11, FaultTyped DEF JudgeDies
  <2>2. judgeUp' \in BOOLEAN
    BY <1>11 DEF JudgeDies
  <2>3. UNCHANGED <<judgeVars, jin, jout, agentVars, routerVars, late>>
    BY <1>11 DEF JudgeDies
  <2> QED
    BY <2>1, <2>2, <2>3 DEF judgeVars
<1> QED
  BY <1>1, <1>2, <1>3, <1>4, <1>5, <1>6, <1>7, <1>8, <1>9, <1>10, <1>11 DEF Judge

LEMMA NextItem ==
  ASSUME NEW n \in 0..(MaxSteps + 1), n <= MaxSteps
  PROVE  n + 1 \in 0..(MaxSteps + 1) /\ n + 1 \in ActionIds
<1>1. MaxSteps \in Nat
  BY ProtocolAssumption
<1>2. n + 1 \in 1..(MaxSteps + 1)
  BY <1>1
<1> QED
  BY <1>1, <1>2 DEF ActionIds

LEMMA AgentTyped ==
  ASSUME ProtocolTypeOK, NEW a \in Agents, Agent(a) \/ AgentDies(a)
  PROVE  ProtocolTypeOK'
<1> USE ProtocolAssumption DEF ProtocolTypeOK, ElsewhereThanAgent,
          judgeVars, userVars, bridgeVars, routerVars
<1>1. CASE UserActs(a)
  <2>1. acted' \in [Agents -> 0..(MaxSteps + 1)] /\ acted'[a] \in ActionIds
    <3>1. acted[a] \in 0..(MaxSteps + 1) /\ acted[a] <= MaxSteps
      BY <1>1 DEF UserActs
    <3>2. acted' = [acted EXCEPT ![a] = acted[a] + 1]
      BY <1>1 DEF UserActs
    <3> QED
      BY <3>1, <3>2, NextItem
  <2>2. act' \in [Agents -> Seq(ActionIds)]
    BY <1>1, <2>1, QueuesTyped DEF UserActs
  <2> QED
    BY <1>1, <2>1, <2>2 DEF UserActs
<1>2. CASE UserSees(a)
  <2>1. Head(obs[a]) \in 0..MaxSteps /\ obs' \in [Agents -> Seq(0..MaxSteps)]
    BY <1>2, QueuesTyped DEF UserSees
  <2>2. seen' \in [Agents -> Seq(0..MaxSteps)]
    BY <1>2, <2>1, QueuesTyped DEF UserSees
  <2> QED
    BY <1>2, <2>1, <2>2 DEF UserSees
<1>3. CASE UserEnds(a)
  <2>1. act' \in [Agents -> Seq(ActionIds)]
    <3>1. PICK how \in {Ended, Raised} : act' = [act EXCEPT ![a] = Append(@, how)]
      BY <1>3 DEF UserEnds
    <3>2. how \in ActionIds
      BY DEF ActionIds
    <3> QED
      BY <3>1, <3>2, QueuesTyped
  <2> QED
    BY <1>3, <2>1 DEF UserEnds
<1>4. CASE BridgeObservation(a)
  <2>1. Head(ain[a]) \in AgentMsgs /\ ain' \in [Agents -> Seq(AgentMsgs)]
    BY <1>4, QueuesTyped DEF BridgeObservation
  <2>2. Head(ain[a]).step \in 0..MaxSteps
    BY <2>1 DEF AgentMsgs
  <2>3. obs' \in [Agents -> Seq(0..MaxSteps)]
    BY <1>4, <2>2, QueuesTyped DEF BridgeObservation
  <2> QED
    BY <1>4, <2>1, <2>3 DEF BridgeObservation
<1>5. CASE BridgeAction(a)
  <2>1. /\ ain' \in [Agents -> Seq(AgentMsgs)] /\ act' \in [Agents -> Seq(ActionIds)]
        /\ Head(act[a]) \in ActionIds
    BY <1>5, QueuesTyped DEF BridgeAction
  <2>2. aout' \in [Agents -> Seq(ActionIds)]
    BY <1>5, <2>1, QueuesTyped DEF BridgeAction
  <2> QED
    BY <1>5, <2>1, <2>2 DEF BridgeAction
<1>6. CASE AgentDies(a)
  <2>1. faults' \in 0..MaxFaults
    BY <1>6, FaultTyped DEF AgentDies
  <2>2. agentUp' \in [Agents -> BOOLEAN]
    BY <1>6 DEF AgentDies
  <2>3. UNCHANGED <<judgeVars, jin, jout, judgeUp, userVars, bridgeVars, ain, aout, routerVars, late>>
    BY <1>6 DEF AgentDies
  <2> QED
    BY <2>1, <2>2, <2>3
<1> QED
  BY <1>1, <1>2, <1>3, <1>4, <1>5, <1>6 DEF Agent

LEMMA SendTyped ==
  ASSUME ProtocolTypeOK, NEW m \in JudgeInbox, SendToJudge(m)
  PROVE  /\ jin' \in Seq(JudgeInbox) /\ faults' \in 0..MaxFaults
         /\ rpc' \in {"poll", "closing"} /\ result' \in Results
<1>1. Append(jin, m) \in Seq(JudgeInbox)
  BY Appended DEF ProtocolTypeOK
<1>2. jin \in Seq(JudgeInbox) /\ faults \in 0..MaxFaults /\ result \in Results /\ "raised" \in Results
  BY DEF ProtocolTypeOK, Results
<1> QED
  BY <1>1, <1>2, FaultTyped DEF SendToJudge

LEMMA ResultTyped == ASSUME ProtocolTypeOK PROVE FirstCase \in Results
<1>1. cases # <<>> => cases[1] \in Statuses
  BY Taken DEF ProtocolTypeOK
<1> QED
  BY <1>1 DEF FirstCase, Results

LEMMA TakenTyped ==
  ASSUME ProtocolTypeOK, jout # <<>>
  PROVE  Head(jout) = jout[1] /\ jout[1] \in JudgeMsgs /\ Tail(jout) \in Seq(JudgeMsgs)
BY Taken DEF ProtocolTypeOK

LEMMA RouteTyped ==
  ASSUME ProtocolTypeOK, Dialogue, Route
  PROVE  ProtocolTypeOK'
<1> USE DEF ProtocolTypeOK, ElsewhereThanRouter, Take, judgeVars, userVars, bridgeVars
<1>1. CASE CaseRequested
  <2> Msg("case_stop") \in JudgeInbox /\ Msg("case_assign") \in JudgeInbox
    BY DEF JudgeInbox, Msg
  <2> QED
    BY <1>1, SendTyped DEF CaseRequested
<1>2. CASE CaseStarted
  BY <1>2 DEF CaseStarted
<1>3. CASE Observed
  <2>1. jout # <<>> /\ Head(jout).type = "observation" /\ jout' = Tail(jout)
    BY <1>3 DEF Observed
  <2>2. Head(jout) \in AgentMsgs
    BY <2>1, TakenTyped DEF JudgeMsgs, AgentMsgs
  <2>3. PICK S \in SUBSET Agents : ain' = [a \in Agents |-> IF a \in S THEN Append(ain[a], Head(jout)) ELSE ain[a]]
    <3>1. \A a \in Agents : {b \in Agents : agentUp[b]} \ {a} \in SUBSET Agents
      OBVIOUS
    <3>2. {b \in Agents : agentUp[b]} \in SUBSET Agents
      OBVIOUS
    <3> QED
      BY <1>3, <3>1, <3>2 DEF Observed
  <2>4. \A a \in Agents : Append(ain[a], Head(jout)) \in Seq(AgentMsgs)
    BY <2>2, Appended
  <2>5. ain' \in [Agents -> Seq(AgentMsgs)]
    BY <2>3, <2>4
  <2>6. faults' \in 0..MaxFaults
    BY <1>3, FaultTyped DEF Observed
  <2> QED
    BY <1>3, <2>1, <2>5, <2>6, TakenTyped DEF Observed
<1>4. CASE ActionRequested
  BY <1>4 DEF ActionRequested
<1>5. CASE SendReply
  <2> reply \in JudgeInbox
    BY <1>5 DEF SendReply, Dialogue, ReplyReady, JudgeInbox
  <2> QED
    BY <1>5, SendTyped DEF SendReply
<1>6. CASE CaseEnded
  <2>1. jout # <<>> /\ Head(jout).type = "case_end" /\ jout' = Tail(jout)
    BY <1>6 DEF CaseEnded
  <2>2. Head(jout).status \in Statuses
    BY <2>1, TakenTyped DEF JudgeMsgs
  <2>3. cases' \in Seq(Statuses) /\ ended' \in Seq(Statuses)
    BY <1>6, <2>2, Appended DEF CaseEnded
  <2> QED
    BY <1>6, <2>1, <2>3, TakenTyped DEF CaseEnded
<1>7. CASE EvaluationOver
  BY <1>7, ResultTyped, TakenTyped DEF EvaluationOver, Leave
<1>8. CASE JudgeSilent
  <2>1. faults' \in 0..MaxFaults /\ jout' \in Seq(JudgeMsgs)
    BY <1>8, FaultTyped, TakenTyped DEF JudgeSilent
  <2> QED
    BY <1>8, <2>1, ResultTyped DEF JudgeSilent, Leave
<1>9. CASE Cleanup
  BY <1>9 DEF Cleanup
<1> QED
  BY <1>1, <1>2, <1>3, <1>4, <1>5, <1>6, <1>7, <1>8, <1>9 DEF Route

LEMMA SetupTyped ==
  ASSUME ProtocolTypeOK, SetupDone \/ (SetupRaises /\ (Fault \/ UNCHANGED faults))
  PROVE  ProtocolTypeOK'
<1>1. CASE SetupDone
  BY <1>1 DEF ProtocolTypeOK, SetupDone, judgeVars, userVars, bridgeVars
<1>2. CASE SetupRaises /\ (Fault \/ UNCHANGED faults)
  BY <1>2, FaultTyped DEF ProtocolTypeOK, SetupRaises, ElsewhereThanRouter, Results, judgeVars, userVars, bridgeVars
<1> QED
  BY <1>1, <1>2

-----------------------------------------------------------------------------
(* The dialogue *)

LEMMA Said ==
  ASSUME ProtocolTypeOK, NEW m \in JudgeMsgs, jout' = Append(jout, m)
  PROVE  /\ Len(jout) \in Nat /\ (jout = <<>> <=> Len(jout) = 0)
         /\ Len(jout') = Len(jout) + 1 /\ jout' # <<>>
         /\ \A i \in 1..Len(jout) : jout'[i] = jout[i]
         /\ jout'[Len(jout) + 1] = m
<1>1. jout \in Seq(JudgeMsgs)
  BY DEF ProtocolTypeOK
<1> QED
  BY <1>1, Appended, Elements

LEMMA Heard ==
  ASSUME ProtocolTypeOK, jout # <<>>, jout' = Tail(jout)
  PROVE  /\ Len(jout) \in Nat /\ Len(jout) > 0
         /\ Len(jout') = Len(jout) - 1 /\ (jout' = <<>> <=> Len(jout) = 1)
         /\ \A i \in 1..Len(jout') : jout'[i] = jout[i + 1]
         /\ Head(jout) = jout[1]
<1>1. jout \in Seq(JudgeMsgs)
  BY DEF ProtocolTypeOK
<1>2. /\ Head(jout) = jout[1] /\ Len(jout) \in Nat \ {0} /\ Len(jout') = Len(jout) - 1
      /\ \A i \in 1..Len(jout') : jout'[i] = jout[i + 1]
      /\ jout' # <<>> <=> Len(jout) > 1
  BY <1>1, Taken
<1> QED
  BY <1>2

(* What the judge takes is all there was, and it had said nothing since. *)
LEMMA Received ==
  ASSUME ProtocolTypeOK, JudgeHears, jin # <<>>, jin' = Tail(jin)
  PROVE  jin' = <<>> /\ Head(jin) = jin[1] /\ JudgeAwaits(jin[1]) /\ jout = <<>> /\ ~Asking /\ served
<1>1. jin \in Seq(JudgeInbox)
  BY DEF ProtocolTypeOK
<1>2. Head(jin) = jin[1] /\ (jin' # <<>> <=> Len(jin) > 1)
  BY <1>1, Taken
<1>3. Len(jin) = 1 /\ jout = <<>> /\ ~Asking /\ served /\ JudgeAwaits(jin[1])
  BY DEF JudgeHears
<1> QED
  BY <1>2, <1>3

LEMMA JudgeDialogue ==
  ASSUME ProtocolTypeOK, Dialogue, Judge \/ JudgeRaises \/ JudgeDies
  PROVE  Dialogue'
<1> USE DEF Dialogue, JudgeHears, JudgeAwaits, JudgeSays, RouterAsks, BeforeCase, JudgeServed, ReplyReady, Live, Asking,
            JudgeGoto, JudgeSends, ElsewhereThanJudge, agentVars, routerVars
<1>0. MaxSteps \in Nat /\ MaxSteps > 0 /\ step \in 0..MaxSteps
  BY ProtocolAssumption DEF ProtocolTypeOK
<1>1. CASE RequestCase
  <2>1. Msg("case_request") \in JudgeMsgs /\ Msg("case_request").type = "case_request"
    BY DEF Msg, JudgeMsgs
  <2> QED
    BY <1>1, <2>1, Said DEF RequestCase
<1>2. CASE ReceiveCase
  <2>1. jin # <<>> /\ jin' = Tail(jin) /\ jpc = "awaitCase"
    BY <1>2 DEF ReceiveCase, JudgeTakes
  <2>2. jin' = <<>> /\ jout = <<>> /\ Head(jin) = jin[1] /\ served /\ ~Asking
    BY <2>1, Received
  <2>3. jpc' = "complete" \/ (jpc' = "start" /\ jin[1].type = "case_assign")
    BY <1>2, <2>2 DEF ReceiveCase, JudgeTakes, Msg
  <2>4. UNCHANGED <<step, jout, rpc, served>>
    BY <1>2 DEF ReceiveCase
  <2> QED
    BY <1>0, <2>1, <2>2, <2>3, <2>4
<1>3. CASE CompleteEvaluation
  <2>1. Msg("eval_complete") \in JudgeMsgs /\ Msg("eval_complete").type = "eval_complete"
    BY DEF Msg, JudgeMsgs
  <2> QED
    BY <1>3, <2>1, Said DEF CompleteEvaluation
<1>4. CASE StartCase
  <2>1. Msg("case_start") \in JudgeMsgs /\ Msg("case_start").type = "case_start"
    BY DEF Msg, JudgeMsgs
  <2> QED
    BY <1>0, <1>4, <2>1, Said DEF StartCase
<1>5. CASE RequestAction
  <2>1. [type |-> "action_request", step |-> step] \in JudgeMsgs
    BY <1>0 DEF JudgeMsgs
  <2> QED
    BY <1>5, <2>1, Said DEF RequestAction
<1>6. CASE TimeLimit
  BY <1>6 DEF TimeLimit
<1>7. CASE ApplyAction
  <2>1. [type |-> "observation", step |-> step'] \in JudgeMsgs
    BY <1>0, <1>7 DEF ApplyAction, JudgeMsgs
  <2> QED
    BY <1>0, <1>7, <2>1, Said, Received DEF ApplyAction
<1>8. CASE RejectAction
  BY <1>8, Received DEF RejectAction
<1>9. CASE EndCase
  <2>1. PICK status \in Statuses : jout' = Append(jout, [type |-> "case_end", status |-> status])
    BY <1>9 DEF EndCase, ProtocolTypeOK, Overrides, Statuses
  <2>2. [type |-> "case_end", status |-> status] \in JudgeMsgs
    BY DEF JudgeMsgs
  <2> QED
    BY <1>9, <2>1, <2>2, Said DEF EndCase
<1>10. CASE JudgeRaises
  <2>1. Msg("error") \in JudgeMsgs /\ Msg("error").type = "error"
    BY DEF Msg, JudgeMsgs
  <2> QED
    BY <1>10, <2>1, Said, Received DEF JudgeRaises
<1>11. CASE JudgeDies
  BY <1>11 DEF JudgeDies, judgeVars
<1> QED
  BY <1>1, <1>2, <1>3, <1>4, <1>5, <1>6, <1>7, <1>8, <1>9, <1>10, <1>11 DEF Judge

LEMMA Sent ==
  ASSUME ProtocolTypeOK, NEW m \in JudgeInbox, SendToJudge(m)
  PROVE  \/ rpc' = "poll" /\ jin' = Append(jin, m) /\ UNCHANGED result
            /\ jin' # <<>> /\ Len(jin') = Len(jin) + 1 /\ (jin = <<>> => Len(jin') = 1 /\ jin'[1] = m)
         \/ rpc' = "closing" /\ jin' = jin
<1>1. jin \in Seq(JudgeInbox)
  BY DEF ProtocolTypeOK
<1>2. /\ Append(jin, m) # <<>> /\ Len(Append(jin, m)) = Len(jin) + 1
      /\ Append(jin, m)[Len(jin) + 1] = m
      /\ jin = <<>> => Len(jin) = 0
  BY <1>1, Appended, Elements
<1>3. CASE jin' = Append(jin, m) /\ rpc' = "poll" /\ UNCHANGED result
  BY <1>2, <1>3
<1>4. CASE rpc' = "closing" /\ jin' = jin
  BY <1>4
<1> QED
  BY <1>3, <1>4 DEF SendToJudge

(* The router takes a message of the judge. *)
LEMMA HeardDialogue ==
  ASSUME ProtocolTypeOK, Dialogue,
         jout # <<>>, jout' = Tail(jout), UNCHANGED <<jpc, step, jin, served>>, rpc = "poll",
         \/ rpc' = "poll" /\ jout[1].type \notin {"case_request", "action_request"}
         \/ rpc' = "ask" /\ jout[1].type = "action_request"
         \/ rpc' = "closing"
  PROVE  Dialogue'
<1> USE DEF Dialogue, Asking
<1>1. /\ Len(jout) \in Nat /\ Len(jout) > 0
      /\ Len(jout') = Len(jout) - 1 /\ (jout' = <<>> <=> Len(jout) = 1)
      /\ \A i \in 1..Len(jout') : jout'[i] = jout[i + 1]
  BY Heard
<1>2. \A i \in 1..Len(jout') : i + 1 \in 1..Len(jout)
  BY <1>1
<1>3. jin' = <<>> /\ JudgeHears'
  BY DEF JudgeHears
<1>4. JudgeSays'
  <2>1. ASSUME NEW i \in 1..Len(jout')
        PROVE  /\ jout'[i].type = "case_request" => i = Len(jout') /\ jpc' = "awaitCase"
               /\ jout'[i].type = "action_request" => i = Len(jout') /\ jpc' = "awaitAction"
               /\ jout'[i].type \in {"action_request", "observation"} => jout'[i].step = step'
               /\ jout'[i].type \in {"case_start", "observation"} => i = 1
    <3>1. i \in Nat /\ i + 1 \in 1..Len(jout) /\ i + 1 # 1 /\ jout'[i] = jout[i + 1]
      BY <1>1, <1>2
    <3> DEFINE m == jout[i + 1]
    <3>2. /\ m.type = "case_request" => i + 1 = Len(jout) /\ jpc = "awaitCase"
          /\ m.type = "action_request" => i + 1 = Len(jout) /\ jpc = "awaitAction"
          /\ m.type \in {"action_request", "observation"} => m.step = step
          /\ m.type \notin {"case_start", "observation"}
      BY <3>1 DEF JudgeSays
    <3>3. jout'[i] = m
      BY <3>1
    <3>4. ASSUME i + 1 = Len(jout) PROVE i = Len(jout')
      <4>1. Len(jout') = (i + 1) - 1
        BY <1>1, <3>4
      <4> QED
        BY <3>1, <4>1
    <3> HIDE DEF m
    <3> QED
      BY <3>2, <3>3, <3>4
  <2> QED
    BY <2>1 DEF JudgeSays
<1>5. jout[1].type = "action_request" => jpc = "awaitAction" /\ jout' = <<>>
  <2>1. 1 \in 1..Len(jout)
    BY <1>1
  <2>2. jout[1].type = "action_request" => 1 = Len(jout) /\ jpc = "awaitAction"
    BY <2>1 DEF JudgeSays
  <2> QED
    BY <1>1, <2>2
<1>6. RouterAsks'
  BY <1>5 DEF RouterAsks
<1>7. BeforeCase'
  BY <1>1, <1>2 DEF BeforeCase
<1>8. rpc' = "poll" /\ jpc' \in {"awaitCase", "awaitAction"} => Len(jout) > 1 /\ jout'[Len(jout')] = jout[Len(jout)]
  <2> SUFFICES ASSUME rpc' = "poll", jpc' \in {"awaitCase", "awaitAction"}
               PROVE  Len(jout) > 1 /\ jout'[Len(jout')] = jout[Len(jout)]
    OBVIOUS
  <2>1. jout[Len(jout)].type \in {"case_request", "action_request"}
    BY <1>3 DEF JudgeServed, Live
  <2>2. Len(jout) # 1
    BY <2>1
  <2> QED
    BY <1>1, <2>2
<1>9. JudgeServed'
  BY <1>1, <1>3, <1>8 DEF JudgeServed, Live
<1>10. ReplyReady'
  BY DEF ReplyReady
<1> QED
  BY <1>3, <1>4, <1>6, <1>7, <1>9, <1>10

LEMMA RouteDialogue ==
  ASSUME ProtocolTypeOK, Dialogue, Route
  PROVE  Dialogue'
<1> USE DEF Dialogue, JudgeHears, JudgeAwaits, JudgeSays, RouterAsks, BeforeCase, JudgeServed, ReplyReady, Live, Asking,
            Take, ElsewhereThanRouter, judgeVars
<1>1. CASE CaseRequested
  <2>1. PICK m \in {Msg("case_stop"), Msg("case_assign")} :
          SendToJudge(m) /\ (m.type = "case_assign" => ~served)
    BY <1>1 DEF CaseRequested, Msg
  <2>2. m \in JudgeInbox /\ m.type \in {"case_assign", "case_stop"}
    BY DEF JudgeInbox, Msg
  <2>3. /\ jout # <<>> /\ jout' = Tail(jout) /\ served' = TRUE /\ rpc = "poll"
        /\ UNCHANGED <<jpc, step>> /\ Head(jout).type = "case_request"
    BY <1>1 DEF CaseRequested
  <2>4. Len(jout) = 1 /\ jpc = "awaitCase"
    <3>1. Len(jout) \in Nat /\ Len(jout) > 0 /\ Head(jout) = jout[1]
      BY <2>3, Heard
    <3>2. 1 \in 1..Len(jout) /\ jout[1].type = "case_request"
      BY <2>3, <3>1
    <3> QED
      BY <3>2
  <2>5. jout' = <<>> /\ jpc = "awaitCase" /\ jin = <<>>
    BY <2>3, <2>4, Heard
  <2> QED
    BY <2>1, <2>2, <2>3, <2>5, Sent
<1>2. CASE CaseStarted
  BY <1>2, Heard, HeardDialogue DEF CaseStarted
<1>3. CASE Observed
  BY <1>3, Heard, HeardDialogue DEF Observed
<1>4. CASE ActionRequested
  BY <1>4, Heard, HeardDialogue DEF ActionRequested
<1>5. CASE SendReply
  <2>1. SendToJudge(reply) /\ rpc = "answer" /\ UNCHANGED <<jpc, step, jout, served>>
    BY <1>5 DEF SendReply
  <2>2. reply \in JudgeInbox /\ reply.type = "action"
    BY <2>1 DEF JudgeInbox, Replies
  <2> QED
    BY <2>1, <2>2, Sent
<1>6. CASE CaseEnded
  BY <1>6, Heard, HeardDialogue DEF CaseEnded
<1>7. CASE EvaluationOver
  BY <1>7, Heard, HeardDialogue DEF EvaluationOver, Leave
<1>8. CASE JudgeSilent
  BY <1>8, Heard DEF JudgeSilent, Leave
<1>9. CASE Cleanup
  BY <1>9 DEF Cleanup
<1> QED
  BY <1>1, <1>2, <1>3, <1>4, <1>5, <1>6, <1>7, <1>8, <1>9 DEF Route

(* Who takes no part in the dialogue. *)
LEMMA ElsewhereDialogue ==
  ASSUME Dialogue, UNCHANGED <<jpc, step, jin, jout, served>>,
         \/ rpc' = rpc /\ reply' = reply
         \/ Asking /\ Asking' /\ ReplyReady'
         \/ rpc = "setup" /\ rpc' \in {"poll", "closing"}
  PROVE  Dialogue'
BY DEF Dialogue, JudgeHears, JudgeAwaits, JudgeSays, RouterAsks, BeforeCase, JudgeServed, ReplyReady, Live, Asking

LEMMA DialogueInit == ProtocolInit => Dialogue
BY EmptySeq, ProtocolAssumption DEF ProtocolInit, Dialogue, JudgeHears, JudgeSays, RouterAsks, BeforeCase, JudgeServed, ReplyReady, Asking

-----------------------------------------------------------------------------
(* The rounds *)

LEMMA RoundsInit == ProtocolInit => Rounds
BY EmptySeq DEF ProtocolInit, Rounds, RoundInPlay, InOrder, ItemOnce, ObservedOnce, AtAgent, Items, Told, Announced

(* The agents are where they were, the observations too; no new answers.   *)
LEMMA SameRounds ==
  ASSUME Rounds, UNCHANGED <<step, userVars, act, obs, ain, aout>>,
         rpc' \in {"collect", "answer"} => rpc \in {"collect", "answer"} /\ got' = got,
         Announced' => Announced, RoundInPlay'
  PROVE  Rounds'
<1>1. ASSUME NEW a \in Agents
      PROVE  InOrder(a)' /\ ItemOnce(a)' /\ ObservedOnce(a)'
  <2>1. InOrder(a) /\ ItemOnce(a) /\ ObservedOnce(a)
    BY DEF Rounds
  <2>2. InOrder(a)'
    BY <2>1 DEF InOrder, userVars
  <2>3. ItemOnce(a)'
    BY <2>1 DEF ItemOnce, Items, AtAgent, userVars
  <2>4. ObservedOnce(a)'
    BY <2>1 DEF ObservedOnce, Told, userVars
  <2> QED
    BY <2>2, <2>3, <2>4
<1> QED
  BY <1>1 DEF Rounds


(* The judge says something else than an observation, or nothing.          *)
LEMMA JudgeSpeaks ==
  ASSUME ProtocolTypeOK, Rounds, UNCHANGED <<step, userVars, act, obs, ain, aout, rpc, got, reply>>,
         jin' \in {jin, <<>>},
         jout' = jout \/ \E m \in JudgeMsgs : m.type # "observation" /\ jout' = Append(jout, m)
  PROVE  Rounds'
<1>1. Announced' => Announced
  <2>1. CASE jout' = jout
    BY <2>1 DEF Announced
  <2>2. ASSUME NEW m \in JudgeMsgs, m.type # "observation", jout' = Append(jout, m)
        PROVE  Announced' => Announced
    BY <2>2, Said DEF Announced
  <2> QED
    BY <2>1, <2>2
<1>2. RoundInPlay'
  BY DEF Rounds, RoundInPlay, WholeRound, Items, AtAgent, userVars
<1> QED
  BY <1>1, <1>2, SameRounds

LEMMA ObservationSent ==
  ASSUME ProtocolTypeOK, Dialogue, Rounds, ApplyAction
  PROVE  Rounds'
<1>1. /\ jin # <<>> /\ jin' = Tail(jin) /\ jpc = "awaitAction"
      /\ Head(jin).error = "none" /\ Head(jin).data # <<>>
      /\ step' = step + 1
      /\ jout' = Append(jout, [type |-> "observation", step |-> step'])
  BY DEF ApplyAction, JudgeGoto
<1>2. UNCHANGED <<upc, acted, seen, act, obs, ain, aout, rpc, got, reply>>
  BY DEF ApplyAction, ElsewhereThanJudge, agentVars, userVars, bridgeVars, routerVars
<1>3. jin' = <<>> /\ Head(jin) = jin[1] /\ jin[1].type = "action" /\ ~Asking /\ jout = <<>>
  BY <1>1, Received DEF Dialogue, JudgeAwaits
<1>4. \A a \in Agents : Items(a) # {} /\ step = Len(seen[a]) /\ ~AtAgent(a)
  BY <1>1, <1>3 DEF Rounds, RoundInPlay, WholeRound
<1>5. step \in Nat
  BY DEF ProtocolTypeOK
<1>6. RoundInPlay'
  BY <1>2, <1>3 DEF RoundInPlay, Asking
<1>7. ASSUME NEW a \in Agents
      PROVE  InOrder(a)' /\ ItemOnce(a)' /\ ObservedOnce(a)'
  <2>1. InOrder(a) /\ ItemOnce(a) /\ ObservedOnce(a)
    BY DEF Rounds
  <2>2. upc[a] # "run" /\ step = Len(seen[a]) /\ ~AtAgent(a) /\ step # step + 1
    BY <1>4, <1>5 DEF Items
  <2>3. InOrder(a)'
    BY <1>1, <1>2, <2>1, <2>2 DEF InOrder
  <2>4. ItemOnce(a)'
    BY <1>1, <1>2, <1>3, <2>1, <2>2 DEF ItemOnce, AtAgent, Items, Asking
  <2>5. obs[a] = <<>> /\ ~Told(a)
    BY <2>1, <2>2 DEF ObservedOnce, Told
  <2>6. ObservedOnce(a)'
    BY <1>1, <1>2, <2>2, <2>5 DEF ObservedOnce, Told
  <2> QED
    BY <2>3, <2>4, <2>6
<1> QED
  BY <1>6, <1>7 DEF Rounds

LEMMA JudgeRounds ==
  ASSUME ProtocolTypeOK, Dialogue, Rounds, Judge \/ JudgeRaises \/ JudgeDies
  PROVE  Rounds'
<1> USE DEF ElsewhereThanJudge, agentVars, bridgeVars, routerVars, JudgeGoto, JudgeSends, Msg, JudgeMsgs
<1>0. step \in 0..MaxSteps
  BY DEF ProtocolTypeOK
<1>1. CASE RequestCase
  BY <1>1, JudgeSpeaks DEF RequestCase
<1>2. CASE ReceiveCase
  BY <1>2, JudgeSpeaks, Received DEF ReceiveCase, JudgeTakes, Dialogue
<1>3. CASE CompleteEvaluation
  BY <1>3, JudgeSpeaks DEF CompleteEvaluation
<1>4. CASE StartCase
  BY <1>4, JudgeSpeaks DEF StartCase, Dialogue, BeforeCase
<1>5. CASE RequestAction
  BY <1>0, <1>5, JudgeSpeaks DEF RequestAction
<1>6. CASE TimeLimit
  BY <1>6, JudgeSpeaks DEF TimeLimit
<1>7. CASE ApplyAction
  BY <1>7, ObservationSent
<1>8. CASE RejectAction
  BY <1>8, JudgeSpeaks, Received DEF RejectAction, Dialogue
<1>9. CASE EndCase
  BY <1>9, JudgeSpeaks DEF EndCase, ProtocolTypeOK, Overrides, Statuses
<1>10. CASE JudgeRaises
  BY <1>10, JudgeSpeaks, Received DEF JudgeRaises, Dialogue
<1>11. CASE JudgeDies
  BY <1>11, JudgeSpeaks DEF JudgeDies, judgeVars
<1> QED
  BY <1>1, <1>2, <1>3, <1>4, <1>5, <1>6, <1>7, <1>8, <1>9, <1>10, <1>11 DEF Judge

LEMMA OneAnnounced ==
  ASSUME ProtocolTypeOK, Dialogue, jout # <<>>, jout' = Tail(jout)
  PROVE  ~Announced'
<1>1. /\ Len(jout) \in Nat /\ Len(jout) > 0 /\ (jout' = <<>> <=> Len(jout) = 1)
      /\ Len(jout') = Len(jout) - 1 /\ \A i \in 1..Len(jout') : jout'[i] = jout[i + 1]
  BY Heard
<1>2. SUFFICES ASSUME Len(jout) > 1 PROVE jout'[1].type # "observation"
  BY <1>1 DEF Announced
<1>3. 1 \in 1..Len(jout') /\ 2 \in 1..Len(jout)
  BY <1>1, <1>2
<1>4. jout'[1] = jout[2]
  BY <1>1, <1>3
<1>5. jout[2].type # "observation"
  BY <1>3 DEF Dialogue, JudgeSays
<1> QED
  BY <1>4, <1>5

(* The router takes something else than an observation, or leaves.         *)
LEMMA RouterHears ==
  ASSUME ProtocolTypeOK, Dialogue, Rounds, UNCHANGED <<step, userVars, act, obs, ain, aout>>,
         jout' = jout \/ (jout # <<>> /\ jout' = Tail(jout)),
         \/ rpc' \in {"poll", "closing", "closed"}
         \/ rpc' = "ask" /\ got' = [a \in Agents |-> Waiting],
         jin' # <<>> /\ jin'[1].type = "action" => WholeRound(jin'[1])
  PROVE  Rounds'
<1>2. Announced' => Announced
  BY OneAnnounced DEF Announced
<1>3. RoundInPlay'
  BY DEF RoundInPlay, WholeRound, Items, AtAgent, userVars
<1> QED
  BY <1>2, <1>3, SameRounds

LEMMA ObservationForwarded ==
  ASSUME ProtocolTypeOK, Dialogue, Rounds, Observed
  PROVE  Rounds'
<1>1. /\ jout # <<>> /\ jout' = Tail(jout) /\ Head(jout).type = "observation"
      /\ UNCHANGED <<upc, acted, seen, act, obs, aout, rpc, got, reply, step, jin>>
  BY DEF Observed, Take, ElsewhereThanRouter, userVars, bridgeVars, judgeVars
<1>2. \A a \in Agents : ain'[a] \in {ain[a], Append(ain[a], Head(jout))}
  BY DEF Observed
<1>3. Head(jout) = jout[1] /\ jout[1].step = step /\ Announced /\ ~Announced'
  <2>1. Head(jout) = jout[1] /\ 1 \in 1..Len(jout)
    <3>1. Len(jout) \in Nat /\ Len(jout) > 0 /\ Head(jout) = jout[1]
      BY <1>1, Heard
    <3> QED
      BY <3>1
  <2>2. jout[1].step = step
    BY <1>1, <2>1 DEF Dialogue, JudgeSays
  <2> QED
    BY <1>1, <2>1, <2>2, OneAnnounced DEF Announced
<1>4. RoundInPlay'
  BY <1>1 DEF Rounds, RoundInPlay, WholeRound, Items, AtAgent
<1>5. ASSUME NEW a \in Agents
      PROVE  InOrder(a)' /\ ItemOnce(a)' /\ ObservedOnce(a)'
  <2>1. InOrder(a) /\ ItemOnce(a) /\ ObservedOnce(a)
    BY DEF Rounds
  <2>2. InOrder(a)' /\ ItemOnce(a)'
    BY <1>1, <2>1 DEF InOrder, ItemOnce, Items, AtAgent
  <2>3. /\ step = Len(seen[a]) + 1 /\ obs[a] = <<>>
        /\ \A i \in 1..Len(ain[a]) : ain[a][i].type # "observation"
    BY <1>3, <2>1 DEF ObservedOnce, Told
  <2>4. obs'[a] = <<>> /\ Len(obs'[a]) = 0 /\ UNCHANGED <<step, seen>>
    BY <1>1, <2>3
  <2>5. \A i \in 1..Len(ain'[a]) : ain'[a][i].type = "observation" =>
            ain'[a][i].step = step /\ i = Len(ain'[a])
    <3>1. CASE ain'[a] = ain[a]
      BY <2>3, <3>1
    <3>2. CASE ain'[a] = Append(ain[a], Head(jout))
      <4>1. ain[a] \in Seq(AgentMsgs) /\ Head(jout) \in AgentMsgs
        BY <1>1, TakenTyped DEF ProtocolTypeOK, JudgeMsgs, AgentMsgs
      <4>2. /\ Len(ain[a]) \in Nat /\ Len(ain'[a]) = Len(ain[a]) + 1
            /\ \A i \in 1..Len(ain[a]) : ain'[a][i] = ain[a][i]
            /\ ain'[a][Len(ain[a]) + 1] = Head(jout)
        BY <3>2, <4>1, Appended, Elements
      <4>3. \A i \in 1..Len(ain'[a]) : i \in 1..Len(ain[a]) \/ i = Len(ain'[a])
        BY <4>2
      <4> QED
        BY <1>3, <2>3, <4>2, <4>3
    <3> QED
      BY <1>2, <3>1, <3>2
  <2>6. ObservedOnce(a)'
    BY <1>3, <2>3, <2>4, <2>5 DEF ObservedOnce
  <2> QED
    BY <2>2, <2>6
<1> QED
  BY <1>4, <1>5 DEF Rounds

LEMMA RouteRounds ==
  ASSUME ProtocolTypeOK, Dialogue, Rounds, Route
  PROVE  Rounds'
<1> USE DEF ElsewhereThanRouter, judgeVars, bridgeVars, Take, Msg
<1>0. jin # <<>> => WholeRound(jin[1]) \/ jin[1].type # "action"
  BY DEF Rounds, RoundInPlay
<1>1. CASE CaseRequested
  <2>1. PICK m \in {Msg("case_stop"), Msg("case_assign")} : SendToJudge(m)
    BY <1>1 DEF CaseRequested
  <2>2. m \in JudgeInbox /\ m.type # "action"
    BY DEF JudgeInbox
  <2>3. jin = <<>>
    BY <1>1, Heard DEF CaseRequested, Dialogue, JudgeHears
  <2> QED
    BY <1>1, <2>1, <2>2, <2>3, Sent, RouterHears DEF CaseRequested
<1>2. CASE CaseStarted
  BY <1>0, <1>2, RouterHears DEF CaseStarted
<1>3. CASE Observed
  BY <1>3, ObservationForwarded
<1>4. CASE ActionRequested
  BY <1>0, <1>4, RouterHears DEF ActionRequested
<1>5. CASE SendReply
  <2>1. reply \in JudgeInbox /\ WholeRound(reply) /\ jin = <<>>
    BY <1>5 DEF SendReply, JudgeInbox, Dialogue, ReplyReady, JudgeHears, Asking, Rounds, RoundInPlay
  <2> QED
    BY <1>5, <2>1, Sent, RouterHears DEF SendReply
<1>6. CASE CaseEnded
  BY <1>0, <1>6, RouterHears DEF CaseEnded
<1>7. CASE EvaluationOver
  BY <1>0, <1>7, RouterHears DEF EvaluationOver, Leave
<1>8. CASE JudgeSilent
  BY <1>0, <1>8, RouterHears DEF JudgeSilent, Leave
<1>9. CASE Cleanup
  BY <1>9, RouterHears DEF Cleanup, Rounds, RoundInPlay
<1> QED
  BY <1>1, <1>2, <1>3, <1>4, <1>5, <1>6, <1>7, <1>8, <1>9 DEF Route

LEMMA SetupRounds ==
  ASSUME ProtocolTypeOK, Dialogue, Rounds, SetupDone \/ SetupRaises
  PROVE  Rounds'
BY RouterHears DEF SetupDone, SetupRaises, ElsewhereThanRouter, judgeVars, bridgeVars, Rounds, RoundInPlay

LEMMA Bystander ==
  ASSUME Rounds, NEW c \in Agents,
         UNCHANGED <<upc[c], acted[c], seen[c], act[c], obs[c], ain[c], aout[c], step, jout, rpc, got>>
  PROVE  InOrder(c)' /\ ItemOnce(c)' /\ ObservedOnce(c)'
<1>1. InOrder(c) /\ ItemOnce(c) /\ ObservedOnce(c)
  BY DEF Rounds
<1>2. InOrder(c)' /\ ItemOnce(c)'
  BY <1>1 DEF InOrder, ItemOnce, AtAgent, Items
<1>3. ObservedOnce(c)'
  BY <1>1 DEF ObservedOnce, Told, Announced
<1> QED
  BY <1>2, <1>3

LEMMA ActingRounds ==
  ASSUME ProtocolTypeOK, Rounds, NEW a \in Agents, UserActs(a) \/ UserEnds(a)
  PROVE  Rounds'
<1>1. /\ upc[a] = "run" /\ UNCHANGED <<seen, obs, ain, aout, step, jin, jout, rpc, got, reply>>
      /\ \A c \in Agents \ {a} : UNCHANGED <<upc[c], acted[c], act[c]>>
  BY DEF ProtocolTypeOK, UserActs, UserEnds, ElsewhereThanAgent, judgeVars, routerVars
<1>2. InOrder(a) /\ ItemOnce(a) /\ ObservedOnce(a) /\ Items(a) = {}
  BY <1>1 DEF Rounds, Items
<1>3. act[a] = <<>> /\ aout[a] = <<>> /\ step = Len(seen[a]) /\ acted[a] = Len(seen[a])
  BY <1>1, <1>2 DEF InOrder, ItemOnce
<1>4. rpc \in {"collect", "answer"} => got[a] \in {Waiting, NoAnswer}
  BY <1>2 DEF ItemOnce
<1>5. /\ upc'[a] \in {"awaitObs", "over"} /\ acted'[a] = acted[a] + (IF upc'[a] = "awaitObs" THEN 1 ELSE 0)
      /\ \E x \in Items(a)' : act'[a] = Append(act[a], x)
  <2>0. acted \in [Agents -> 0..(MaxSteps + 1)] /\ act \in [Agents -> Seq(ActionIds)]
        /\ upc \in [Agents -> {"run", "awaitObs", "over"}]
    BY DEF ProtocolTypeOK
  <2>1. CASE UserActs(a)
    <3>1. upc'[a] = "awaitObs" /\ acted'[a] = acted[a] + 1 /\ act'[a] = Append(act[a], acted'[a])
      BY <2>0, <2>1 DEF UserActs
    <3> QED
      BY <3>1 DEF Items
  <2>2. CASE UserEnds(a)
    <3>1. PICK how \in {Ended, Raised} : act' = [act EXCEPT ![a] = Append(@, how)]
      BY <2>2 DEF UserEnds
    <3>2. upc'[a] = "over" /\ acted'[a] = acted[a] /\ act'[a] = Append(act[a], how)
      BY <2>0, <2>2, <3>1 DEF UserEnds
    <3>3. acted[a] + 0 = acted[a]
      BY <2>0
    <3> QED
      BY <3>2, <3>3 DEF Items
  <2> QED
    BY <2>1, <2>2
<1>6. Len(act'[a]) = 1 /\ act'[a][1] \in Items(a)'
  BY <1>3, <1>5
<1>7. InOrder(a)' /\ ItemOnce(a)' /\ ObservedOnce(a)'
  <2>1. InOrder(a)'
    BY <1>1, <1>2, <1>3, <1>5 DEF InOrder
  <2>2. ItemOnce(a)'
    BY <1>1, <1>3, <1>4, <1>6, EmptySeq DEF ItemOnce
  <2>3. ObservedOnce(a)'
    BY <1>1, <1>2 DEF ObservedOnce, Told, Announced
  <2> QED
    BY <2>1, <2>2, <2>3
<1>8. RoundInPlay'
  BY <1>1, <1>2 DEF Rounds, RoundInPlay, WholeRound, Items, AtAgent
<1> QED
  BY <1>1, <1>7, <1>8, Bystander DEF Rounds

LEMMA SeeingRounds ==
  ASSUME ProtocolTypeOK, Rounds, NEW a \in Agents, UserSees(a)
  PROVE  Rounds'
<1>1. /\ upc[a] = "awaitObs" /\ upc'[a] = "run" /\ obs[a] # <<>>
      /\ seen'[a] = Append(seen[a], Head(obs[a])) /\ obs'[a] = Tail(obs[a])
      /\ UNCHANGED <<acted, act, ain, aout, step, jin, jout, rpc, got, reply>>
      /\ \A c \in Agents \ {a} : UNCHANGED <<upc[c], seen[c], obs[c]>>
  BY DEF ProtocolTypeOK, UserSees, ElsewhereThanAgent, judgeVars, routerVars
<1>2. InOrder(a) /\ ItemOnce(a) /\ ObservedOnce(a)
  BY DEF Rounds
<1>3. obs[a] \in Seq(0..MaxSteps) /\ seen[a] \in Seq(0..MaxSteps)
  BY DEF ProtocolTypeOK
<1>4. /\ obs'[a] = <<>> /\ Head(obs[a]) = Len(seen[a]) + 1 /\ Head(obs[a]) \in 0..MaxSteps
      /\ step = Len(seen[a]) + 1 /\ Len(seen[a]) \in Nat
  <2>1. /\ Len(obs[a]) <= 1 /\ obs[a][1] = Len(seen[a]) + 1 /\ step = Len(seen[a]) + 1
    BY <1>1, <1>2 DEF ObservedOnce
  <2>2. /\ Head(obs[a]) = obs[a][1] /\ Head(obs[a]) \in 0..MaxSteps
        /\ (Tail(obs[a]) # <<>> <=> Len(obs[a]) > 1) /\ Len(obs[a]) \in Nat
    BY <1>1, <1>3, Taken
  <2>3. Len(seen[a]) \in Nat
    BY <1>3, Elements
  <2> QED
    BY <1>1, <2>1, <2>2, <2>3
<1>5. /\ Len(seen'[a]) = Len(seen[a]) + 1
      /\ \A i \in 1..Len(seen[a]) : seen'[a][i] = seen[a][i]
      /\ seen'[a][Len(seen[a]) + 1] = Len(seen[a]) + 1
  BY <1>1, <1>3, <1>4, Appended
<1>6. ~AtAgent(a) /\ ~Told(a) /\ ~Announced
      /\ (rpc \in {"collect", "answer"} => got[a] \in {Waiting, NoAnswer})
  BY <1>1, <1>2, <1>4 DEF ItemOnce, ObservedOnce, Told
<1>7. InOrder(a)' /\ ItemOnce(a)' /\ ObservedOnce(a)'
  <2>1. InOrder(a)'
    <3>1. \A i \in 1..Len(seen'[a]) : i \in 1..Len(seen[a]) \/ i = Len(seen[a]) + 1
      BY <1>4, <1>5
    <3> QED
      BY <1>1, <1>2, <1>4, <1>5, <3>1 DEF InOrder
  <2>2. ItemOnce(a)'
    BY <1>1, <1>2, <1>6 DEF ItemOnce, AtAgent
  <2>3. ObservedOnce(a)'
    <3>1. Len(obs'[a]) = 0 /\ obs'[a] = <<>>
      BY <1>4, EmptySeq
    <3>2. \A i \in 1..Len(ain'[a]) : ain'[a][i].type # "observation"
      BY <1>1, <1>6 DEF Told
    <3>3. ~Announced'
      BY <1>1, <1>6 DEF Announced
    <3> QED
      BY <3>1, <3>2, <3>3 DEF ObservedOnce
  <2> QED
    BY <2>1, <2>2, <2>3
<1>8. RoundInPlay'
  <2>1. step # Len(seen[a])
    BY <1>4
  <2> QED
    BY <1>1, <2>1 DEF Rounds, RoundInPlay, WholeRound
<1> QED
  BY <1>1, <1>7, <1>8, Bystander DEF Rounds

LEMMA BridgeRounds ==
  ASSUME ProtocolTypeOK, Rounds, NEW a \in Agents, BridgeObservation(a) \/ BridgeAction(a)
  PROVE  Rounds'
<1>1. /\ ain[a] # <<>> /\ ain'[a] = Tail(ain[a])
      /\ UNCHANGED <<upc, acted, seen, step, jin, jout, rpc, got, reply>>
      /\ \A c \in Agents \ {a} : UNCHANGED <<act[c], obs[c], ain[c], aout[c]>>
  BY DEF ProtocolTypeOK, BridgeObservation, BridgeAction, ElsewhereThanAgent, judgeVars, userVars, routerVars
<1>2. InOrder(a) /\ ItemOnce(a) /\ ObservedOnce(a)
  BY DEF Rounds
<1>3. /\ ain[a] \in Seq(AgentMsgs) /\ obs[a] \in Seq(0..MaxSteps)
      /\ act[a] \in Seq(ActionIds) /\ aout[a] \in Seq(ActionIds)
  BY DEF ProtocolTypeOK
<1>4. /\ Head(ain[a]) = ain[a][1] /\ Head(ain[a]) \in AgentMsgs
      /\ Len(ain[a]) \in Nat \ {0} /\ Len(ain'[a]) = Len(ain[a]) - 1
      /\ \A i \in 1..Len(ain'[a]) : ain'[a][i] = ain[a][i + 1]
  BY <1>1, <1>3, Taken
<1>5. InOrder(a)'
  BY <1>1, <1>2 DEF InOrder
<1>6. CASE BridgeObservation(a)
  <2>1. /\ Head(ain[a]).type = "observation" /\ obs'[a] = Append(obs[a], Head(ain[a]).step)
        /\ UNCHANGED <<act, aout>>
    BY <1>6 DEF ProtocolTypeOK, BridgeObservation
  <2>2. 1 \in 1..Len(ain[a])
    BY <1>4
  <2>3. /\ Head(ain[a]).step = Len(seen[a]) + 1 /\ step = Len(seen[a]) + 1 /\ obs[a] = <<>>
        /\ Told(a) /\ ~Announced
        /\ \A i \in 1..Len(ain[a]) : ain[a][i].type = "observation" => i = 1
    BY <1>2, <1>4, <2>1, <2>2 DEF ObservedOnce, Told
  <2>4. ~Told(a)'
    <3>1. \A i \in 1..Len(ain'[a]) : i + 1 \in 1..Len(ain[a]) /\ i + 1 # 1
      BY <1>4
    <3> QED
      BY <1>4, <2>3, <3>1 DEF Told
  <2>5. Len(obs'[a]) = 1 /\ obs'[a][1] = Len(seen[a]) + 1
    BY <2>1, <2>3
  <2>6. ObservedOnce(a)'
    BY <1>1, <2>3, <2>4, <2>5 DEF ObservedOnce, Told, Announced
  <2>7. ItemOnce(a)'
    BY <1>1, <1>2, <2>1 DEF ItemOnce, AtAgent, Items
  <2>8. RoundInPlay'
    BY <1>1, <2>1 DEF Rounds, RoundInPlay, WholeRound, AtAgent, Items
  <2> QED
    BY <1>1, <1>5, <2>6, <2>7, <2>8, Bystander DEF Rounds
<1>7. CASE BridgeAction(a)
  <2>1. /\ Head(ain[a]).type = "action_request" /\ act[a] # <<>> /\ act'[a] = Tail(act[a])
        /\ aout'[a] = Append(aout[a], Head(act[a])) /\ UNCHANGED obs
    BY <1>7 DEF ProtocolTypeOK, BridgeAction
  <2>2. aout[a] = <<>> /\ AtAgent(a) /\ step = Len(seen[a]) /\ act[a][1] \in Items(a) /\ Len(act[a]) <= 1
    BY <1>2, <2>1 DEF ItemOnce, AtAgent
  <2>3. act'[a] = <<>> /\ Head(act[a]) = act[a][1]
    BY <1>3, <2>1, <2>2, Taken
  <2>4. Len(aout'[a]) = 1 /\ aout'[a][1] = act[a][1] /\ aout'[a] # <<>>
    BY <2>1, <2>2, <2>3
  <2>5. ItemOnce(a)'
    BY <1>1, <1>2, <2>2, <2>3, <2>4, EmptySeq DEF ItemOnce, AtAgent, Items
  <2>6. ObservedOnce(a)'
    <3>1. \A i \in 1..Len(ain'[a]) : i + 1 \in 1..Len(ain[a])
      BY <1>4
    <3> QED
      BY <1>1, <1>2, <1>4, <2>1, <3>1 DEF ObservedOnce, Told, Announced
  <2>7. RoundInPlay'
    BY <1>1, <2>2 DEF Rounds, RoundInPlay, WholeRound
  <2> QED
    BY <1>1, <1>5, <2>5, <2>6, <2>7, Bystander DEF Rounds
<1> QED
  BY <1>6, <1>7

LEMMA AgentRounds ==
  ASSUME ProtocolTypeOK, Rounds, NEW a \in Agents, Agent(a) \/ AgentDies(a)
  PROVE  Rounds'
BY ActingRounds, SeeingRounds, BridgeRounds, JudgeSpeaks DEF Agent, AgentDies, bridgeVars, judgeVars, routerVars

-----------------------------------------------------------------------------
(* Nothing gets lost *)

LEMMA NothingLostInit == ProtocolInit => NothingLost
BY DEF ProtocolInit, NothingLost

LEMMA FaultLoses ==
  ASSUME ProtocolTypeOK, Fault PROVE NothingLost'
<1>1. faults' # 0
  BY DEF ProtocolTypeOK, Fault
<1> QED
  BY <1>1 DEF NothingLost

(* A step that leaves the agents alone. *)
LEMMA SameWhereabouts ==
  ASSUME NothingLost, UNCHANGED <<upc, agentUp, faults, late>>,
         Live' => Live /\ (rpc' # "setup" => rpc # "setup"),
         \A a \in Agents : upc[a] = "awaitObs" /\ (Settled \/ ItemAround(a) \/ ObservationAround(a))
           => (Settled \/ ItemAround(a) \/ ObservationAround(a))'
  PROVE  NothingLost'
BY DEF NothingLost

LEMMA StillAround ==
  ASSUME NothingLost, UNCHANGED <<upc, agentUp, faults, late, rpc>>, ~Settled,
         \A a \in Agents : /\ ItemAround(a) => ItemAround(a)'
                           /\ ObservationAround(a) => ObservationAround(a)'
  PROVE  NothingLost'
<1>1. \A a \in Agents : upc[a] = "awaitObs" /\ (Settled \/ ItemAround(a) \/ ObservationAround(a))
         => (Settled \/ ItemAround(a) \/ ObservationAround(a))'
  OBVIOUS
<1> QED
  BY <1>1, SameWhereabouts DEF Live

LEMMA JudgeLosesNothing ==
  ASSUME ProtocolTypeOK, Dialogue, Rounds, NothingLost, Judge \/ JudgeRaises \/ JudgeDies
  PROVE  NothingLost'
<1> USE DEF ElsewhereThanJudge, agentVars, userVars, bridgeVars, routerVars, JudgeGoto, JudgeSends, Dialogue, BeforeCase
<1>1. CASE JudgeRaises \/ JudgeDies
  BY <1>1, FaultLoses DEF JudgeRaises, JudgeDies
<1>2. ASSUME Judge PROVE UNCHANGED <<upc, acted, seen, act, obs, ain, aout, agentUp, rpc, served, got, faults, late>>
  BY <1>2 DEF Judge, RequestCase, ReceiveCase, CompleteEvaluation, StartCase, RequestAction, TimeLimit, ApplyAction,
              RejectAction, EndCase
<1>3. jin # <<>> => jpc \in {"awaitCase", "awaitAction"}
  BY DEF JudgeHears, JudgeAwaits
<1>4. ASSUME Judge, Settled' PROVE NothingLost'
  BY <1>2, <1>4, SameWhereabouts DEF Live
<1>5. ASSUME NEW m \in JudgeMsgs, Judge, jout' = Append(jout, m), UNCHANGED <<step, jin>>, ~Settled
      PROVE  NothingLost'
  <2>1. Announced => Announced'
    BY <1>5, Said DEF Announced
  <2>2. \A a \in Agents : /\ ItemAround(a) => ItemAround(a)'
                          /\ ObservationAround(a) => ObservationAround(a)'
    BY <1>2, <1>5, <2>1 DEF ItemAround, ObservationAround, AtAgent, Told
  <2> QED
    BY <1>2, <1>5, <2>2, StillAround
<1>6. CASE RequestCase
  <2>1. Msg("case_request") \in JudgeMsgs
    BY DEF Msg, JudgeMsgs
  <2>2. Judge /\ (Settled => Settled')
    BY <1>3, <1>6 DEF Judge, Settled, RequestCase
  <2> QED
    BY <1>4, <1>5, <1>6, <2>1, <2>2 DEF RequestCase
<1>7. CASE ReceiveCase
  <2>1. /\ jin # <<>> /\ jin' = Tail(jin) /\ Judge /\ UNCHANGED <<step, jout>> /\ jpc = "awaitCase"
        /\ jpc' = "complete" \/ Head(jin).type = "case_assign"
    BY <1>7 DEF ReceiveCase, JudgeTakes, Judge, Msg
  <2>2. jin' = <<>> /\ Head(jin) = jin[1] /\ jin[1].type # "action" /\ served
    BY <2>1, Received DEF JudgeAwaits
  <2>3. CASE jpc' = "complete"
    BY <1>2, <1>4, <2>1, <2>2, <2>3 DEF Settled
  <2>4. CASE jin[1].type = "case_assign"
    <3>1. ~Settled
      BY <2>1, <2>4 DEF Settled
    <3>2. \A a \in Agents : /\ ItemAround(a) => ItemAround(a)'
                            /\ ObservationAround(a) => ObservationAround(a)'
      BY <1>2, <2>1, <2>2 DEF ItemAround, ObservationAround, AtAgent, Told, Announced
    <3> QED
      BY <1>2, <2>1, <3>1, <3>2, StillAround
  <2> QED
    BY <2>1, <2>2, <2>3, <2>4
<1>8. CASE CompleteEvaluation
  <2>1. Msg("eval_complete") \in JudgeMsgs
    BY DEF Msg, JudgeMsgs
  <2>2. Judge /\ (Settled => Settled')
    BY <1>3, <1>8 DEF Judge, Settled, CompleteEvaluation
  <2> QED
    BY <1>4, <1>5, <1>8, <2>1, <2>2 DEF CompleteEvaluation
<1>9. CASE StartCase
  <2>1. Msg("case_start") \in JudgeMsgs
    BY DEF Msg, JudgeMsgs
  <2>2. Judge /\ ~Settled
    BY <1>9 DEF Judge, Settled, StartCase
  <2> QED
    BY <1>5, <1>9, <2>1, <2>2 DEF StartCase
<1>10. CASE RequestAction
  <2>1. [type |-> "action_request", step |-> step] \in JudgeMsgs
    BY DEF JudgeMsgs, ProtocolTypeOK
  <2>2. Judge /\ ~Settled
    BY <1>10 DEF Judge, Settled, RequestAction
  <2> QED
    BY <1>5, <1>10, <2>1, <2>2 DEF RequestAction
<1>11. CASE TimeLimit
  <2>1. Judge /\ Settled'
    BY <1>3, <1>11 DEF Judge, Settled, TimeLimit
  <2> QED
    BY <1>4, <2>1
<1>12. CASE ApplyAction
  <2>1. /\ jin # <<>> /\ jin' = Tail(jin) /\ jpc = "awaitAction"
        /\ Head(jin).error = "none" /\ Head(jin).data # <<>> /\ step' = step + 1
        /\ jout' = Append(jout, [type |-> "observation", step |-> step'])
    BY <1>12 DEF ApplyAction
  <2>2. Head(jin) = jin[1] /\ jin[1].type = "action" /\ jout = <<>>
    BY <2>1, Received DEF JudgeAwaits
  <2>3. \A a \in Agents : step = Len(seen[a])
    BY <2>1, <2>2 DEF Rounds, RoundInPlay, WholeRound
  <2>4. Judge /\ Announced'
    BY <1>12, <2>1, <2>2 DEF Judge, Announced
  <2> QED
    BY <1>2, <2>1, <2>3, <2>4, SameWhereabouts DEF ObservationAround, Live
<1>13. CASE RejectAction
  <2>1. jin # <<>> /\ jin' = Tail(jin) /\ jpc' = "end" /\ Judge
    BY <1>13 DEF RejectAction, Judge
  <2>2. jin' = <<>> /\ served
    BY <2>1, Received
  <2>3. Settled'
    BY <1>2, <2>1, <2>2 DEF Settled
  <2> QED
    BY <1>4, <2>1, <2>3
<1>14. CASE EndCase
  <2>1. Judge /\ Settled'
    BY <1>3, <1>14 DEF Judge, Settled, EndCase
  <2> QED
    BY <1>4, <2>1
<1> QED
  BY <1>1, <1>6, <1>7, <1>8, <1>9, <1>10, <1>11, <1>12, <1>13, <1>14 DEF Judge

LEMMA AgentLosesNothing ==
  ASSUME ProtocolTypeOK, Dialogue, Rounds, NothingLost, NEW a \in Agents, Agent(a) \/ AgentDies(a)
  PROVE  NothingLost'
<1>1. CASE AgentDies(a)
  BY <1>1, FaultLoses DEF AgentDies
<1>2. CASE Agent(a)
  <2>1. UNCHANGED <<jpc, step, jin, jout, agentUp, rpc, served, got, faults, late>>
    BY <1>2 DEF Agent, UserActs, UserSees, UserEnds, BridgeObservation, BridgeAction, ElsewhereThanAgent,
                judgeVars, routerVars
  <2>2. \A c \in Agents \ {a} : UNCHANGED <<upc[c], seen[c], act[c], obs[c], ain[c], aout[c]>>
    BY <1>2 DEF ProtocolTypeOK, Agent, UserActs, UserSees, UserEnds, BridgeObservation, BridgeAction, userVars
  <2>3. ASSUME NEW c \in Agents \ {a}
        PROVE  upc'[c] = upc[c] /\ (ItemAround(c) => ItemAround(c)') /\ (ObservationAround(c) => ObservationAround(c)')
    BY <2>1, <2>2 DEF ItemAround, ObservationAround, AtAgent, Announced, Told
  <2>4. Settled => Settled'
    BY <2>1 DEF Settled
  <2>5. InOrder(a) /\ ItemOnce(a) /\ ObservedOnce(a)
    BY DEF Rounds
  <2>6. /\ ain[a] \in Seq(AgentMsgs) /\ obs[a] \in Seq(0..MaxSteps) /\ acted[a] \in 0..(MaxSteps + 1)
        /\ act[a] \in Seq(ActionIds) /\ aout[a] \in Seq(ActionIds)
    BY DEF ProtocolTypeOK
  <2>7. ASSUME upc'[a] = "awaitObs", upc[a] = "awaitObs" => Settled \/ ItemAround(a) \/ ObservationAround(a)
        PROVE  (Settled \/ ItemAround(a) \/ ObservationAround(a))'
    <3>1. CASE UserActs(a)
      <4>1. upc[a] = "run" /\ act'[a] = Append(act[a], acted'[a]) /\ seen' = seen
        BY <3>1 DEF UserActs, ProtocolTypeOK
      <4>2. act'[a] # <<>>
        BY <2>6, <4>1, NotEmptied
      <4>3. ItemAround(a)'
        BY <2>1, <2>5, <4>1, <4>2 DEF ItemAround, AtAgent, InOrder
      <4> QED
        BY <4>3
    <3>2. CASE UserSees(a) \/ UserEnds(a)
      BY <2>7, <3>2 DEF UserSees, UserEnds, ProtocolTypeOK
    <3>3. CASE BridgeObservation(a)
      <4>1. /\ UNCHANGED <<upc, seen, act, aout>>
            /\ obs'[a] = Append(obs[a], Head(ain[a]).step) /\ obs'[a] # <<>>
        BY <2>6, <3>3, NotEmptied DEF BridgeObservation, ProtocolTypeOK, userVars
      <4>2. ItemAround(a) => ItemAround(a)'
        BY <2>1, <4>1 DEF ItemAround, AtAgent
      <4>3. ObservationAround(a) => ObservationAround(a)'
        BY <2>1, <4>1 DEF ObservationAround
      <4> QED
        BY <2>4, <2>7, <4>1, <4>2, <4>3
    <3>4. CASE BridgeAction(a)
      <4>1. /\ UNCHANGED <<upc, seen>> /\ act[a] # <<>>
            /\ aout'[a] = Append(aout[a], Head(act[a])) /\ aout'[a] # <<>>
        BY <2>6, <3>4, NotEmptied DEF BridgeAction, ProtocolTypeOK, userVars
      <4>2. ItemAround(a)'
        BY <2>1, <2>5, <4>1 DEF ItemAround, AtAgent, ItemOnce
      <4> QED
        BY <4>2
    <3> QED
      BY <1>2, <3>1, <3>2, <3>3, <3>4 DEF Agent
  <2>8. SUFFICES ASSUME Live', faults' = 0, late' = {}, NEW c \in Agents, upc'[c] = "awaitObs"
                 PROVE  (Settled \/ ItemAround(c) \/ ObservationAround(c))'
    BY <2>1 DEF NothingLost, Live
  <2>9. upc[c] = "awaitObs" => Settled \/ ItemAround(c) \/ ObservationAround(c)
    BY <2>1, <2>8 DEF NothingLost, Live
  <2> QED
    BY <2>3, <2>4, <2>7, <2>8, <2>9
<1> QED
  BY <1>1, <1>2

LEMMA ObservedLosesNothing ==
  ASSUME ProtocolTypeOK, Dialogue, Rounds, NothingLost, Observed
  PROVE  NothingLost'
<1>1. CASE Fault
  BY <1>1, FaultLoses
<1>2. CASE ~Fault
  <2>1. /\ jout # <<>> /\ jout' = Tail(jout) /\ Head(jout).type = "observation" /\ rpc = "poll" /\ rpc' = rpc
        /\ UNCHANGED <<step, upc, seen, agentUp, faults, late>>
    BY <1>2 DEF Observed, Take, ElsewhereThanRouter, userVars, judgeVars
  <2>2. Announced
    BY <2>1, Heard DEF Announced
  <2>3. \A a \in Agents : step = Len(seen[a]) + 1
    BY <2>2 DEF Rounds, ObservedOnce
  <2>4. ASSUME Live', faults' = 0, late' = {}, NEW a \in Agents PROVE Told(a)'
    <3>1. agentUp[a]
      BY <2>1, <2>4 DEF NothingLost, Live
    <3>2. ain'[a] = Append(ain[a], Head(jout))
      BY <1>2, <3>1 DEF Observed
    <3>3. ain[a] \in Seq(AgentMsgs) /\ Head(jout) \in AgentMsgs
      BY <2>1, TakenTyped DEF ProtocolTypeOK, JudgeMsgs, AgentMsgs
    <3>4. Len(ain[a]) \in Nat /\ Len(ain'[a]) = Len(ain[a]) + 1 /\ ain'[a][Len(ain[a]) + 1] = Head(jout)
      BY <3>2, <3>3, Appended, Elements
    <3>5. Len(ain[a]) + 1 \in 1..Len(ain'[a])
      BY <3>4
    <3> QED
      BY <2>1, <3>4, <3>5 DEF Told
  <2>5. ASSUME Live', faults' = 0, late' = {}, NEW a \in Agents PROVE ObservationAround(a)'
    BY <2>1, <2>3, <2>4, <2>5 DEF ObservationAround
  <2> QED
    BY <2>1, <2>5 DEF NothingLost, Live
<1> QED
  BY <1>1, <1>2

LEMMA RouteLosesNothing ==
  ASSUME ProtocolTypeOK, Dialogue, Rounds, NothingLost, Route
  PROVE  NothingLost'
<1> USE DEF ElsewhereThanRouter, judgeVars, userVars, bridgeVars, Take, Msg
<1>1. ASSUME jout # <<>>, jout' = Tail(jout), Head(jout).type # "observation",
             UNCHANGED <<jpc, step, jin, upc, seen, act, obs, ain, aout, agentUp, served, faults, late>>,
             rpc = "poll", rpc' \in {"poll", "ask"}
      PROVE  NothingLost'
  <2>1. ~Announced
    BY <1>1, Heard DEF Announced
  <2>2. Settled => Settled'
    BY <1>1 DEF Settled
  <2>3. \A a \in Agents : ItemAround(a) => ItemAround(a)'
    BY <1>1 DEF ItemAround, AtAgent
  <2>4. \A a \in Agents : ObservationAround(a) => ObservationAround(a)'
    BY <1>1, <2>1 DEF ObservationAround, Told
  <2> QED
    BY <1>1, <2>2, <2>3, <2>4, SameWhereabouts DEF Live
<1>2. CASE CaseRequested
  <2>1. PICK m \in {Msg("case_stop"), Msg("case_assign")} : SendToJudge(m) /\ (served => m.type = "case_stop")
    BY <1>2 DEF CaseRequested
  <2>2. m \in JudgeInbox
    BY DEF JudgeInbox
  <2>3. CASE rpc' = "closing"
    BY <2>3 DEF NothingLost, Live
  <2>4. CASE Fault
    BY <2>4, FaultLoses
  <2>5. CASE rpc' # "closing" /\ ~Fault
    <3>1. jin = <<>> /\ ~Announced
      BY <1>2, Heard DEF CaseRequested, Dialogue, JudgeHears, Announced
    <3>2. /\ UNCHANGED <<jpc, step, upc, seen, act, obs, ain, aout, agentUp, faults, late, got>>
          /\ rpc = "poll" /\ rpc' = "poll" /\ jin'[1] = m /\ served' = TRUE
      BY <1>2, <2>1, <2>2, <2>5, <3>1, Sent DEF CaseRequested, SendToJudge
    <3>3. Settled => Settled'
      BY <2>1, <3>2 DEF Settled
    <3>4. \A a \in Agents : ItemAround(a) => ItemAround(a)'
      BY <3>1, <3>2 DEF ItemAround, AtAgent
    <3>5. \A a \in Agents : ObservationAround(a) => ObservationAround(a)'
      BY <3>1, <3>2 DEF ObservationAround, Told
    <3> QED
      BY <3>2, <3>3, <3>4, <3>5, SameWhereabouts DEF Live
  <2> QED
    BY <2>3, <2>4, <2>5
<1>3. CASE CaseStarted
  BY <1>1, <1>3 DEF CaseStarted
<1>4. CASE Observed
  BY <1>4, ObservedLosesNothing
<1>5. CASE ActionRequested
  BY <1>1, <1>5 DEF ActionRequested
<1>6. CASE SendReply
  <2>1. SendToJudge(reply) /\ reply \in Replies /\ rpc = "answer"
    BY <1>6 DEF SendReply, Dialogue, ReplyReady
  <2>2. reply \in JudgeInbox /\ reply.type = "action" /\ jin = <<>>
    BY <2>1 DEF JudgeInbox, Replies, Dialogue, JudgeHears, Asking
  <2>3. CASE rpc' = "closing"
    BY <2>3 DEF NothingLost, Live
  <2>4. CASE Fault
    BY <2>4, FaultLoses
  <2>5. CASE rpc' # "closing" /\ ~Fault
    <3>1. /\ UNCHANGED <<jpc, step, upc, seen, act, obs, ain, aout, agentUp, faults, late, got, served, jout>>
          /\ rpc' = "poll" /\ jin' # <<>> /\ jin'[1] = reply
      BY <1>6, <2>1, <2>2, <2>5, Sent DEF SendReply, SendToJudge
    <3>2. Settled => Settled'
      BY <2>2, <3>1 DEF Settled
    <3>3. \A a \in Agents : ItemAround(a) => ItemAround(a)'
      BY <2>2, <3>1 DEF ItemAround
    <3>4. \A a \in Agents : ObservationAround(a) => ObservationAround(a)'
      BY <3>1 DEF ObservationAround, Told, Announced
    <3> QED
      BY <2>1, <3>1, <3>2, <3>3, <3>4, SameWhereabouts DEF Live
  <2> QED
    BY <2>3, <2>4, <2>5
<1>7. CASE CaseEnded
  BY <1>1, <1>7 DEF CaseEnded
<1>8. CASE EvaluationOver \/ JudgeSilent \/ Cleanup
  <2>1. rpc' \in {"closing", "closed"}
    BY <1>8 DEF EvaluationOver, JudgeSilent, Cleanup, Leave
  <2> QED
    BY <2>1 DEF NothingLost, Live
<1> QED
  BY <1>2, <1>3, <1>4, <1>5, <1>6, <1>7, <1>8 DEF Route

LEMMA SetupLosesNothing ==
  ASSUME NothingLost, SetupDone \/ SetupRaises
  PROVE  NothingLost'
<1>1. CASE SetupDone
  <2>1. /\ rpc = "setup" /\ rpc' = "poll" /\ \A a \in Agents : agentUp'[a]
        /\ UNCHANGED <<jpc, step, jin, jout, upc, acted, seen, act, obs, ain, aout, served, got, faults, late>>
    BY <1>1 DEF SetupDone, judgeVars, userVars, bridgeVars
  <2>2. Live
    BY <2>1 DEF Live
  <2>3. \A a \in Agents : Settled \/ ItemAround(a) \/ ObservationAround(a)
                        => (Settled \/ ItemAround(a) \/ ObservationAround(a))'
    BY <2>1 DEF Settled, ItemAround, ObservationAround, AtAgent, Told, Announced
  <2> QED
    BY <2>1, <2>2, <2>3 DEF NothingLost
<1>2. CASE SetupRaises
  BY <1>2 DEF SetupRaises, NothingLost, Live
<1> QED
  BY <1>1, <1>2

-----------------------------------------------------------------------------
(* The callbacks *)

CallsKept == Callbacks' /\ [Contract!ContractNext]_(Contract!contractVars)

LEMMA CallbacksInit == ProtocolInit => Callbacks /\ Contract!ContractInit
BY EmptySeq DEF ProtocolInit, Callbacks, HeadIs, Contract!ContractInit

(* Nothing is called as long as the router does not take its turn.         *)
LEMMA NoCall ==
  ASSUME UNCHANGED <<started, ended, result>>
  PROVE  [Contract!ContractNext]_(Contract!contractVars)
BY DEF Contract!contractVars

LEMMA SilentCallbacks ==
  ASSUME Callbacks, UNCHANGED <<jpc, jin, jout, routerVars>>
  PROVE  CallsKept
BY NoCall DEF CallsKept, Callbacks, Live, HeadIs, routerVars

LEMMA JudgeCallbacks ==
  ASSUME ProtocolTypeOK, Dialogue, Callbacks, Judge \/ JudgeRaises \/ JudgeDies
  PROVE  CallsKept
<1>0. UNCHANGED routerVars
  BY DEF Judge, RequestCase, ReceiveCase, CompleteEvaluation, StartCase, RequestAction, TimeLimit, ApplyAction,
         RejectAction, EndCase, JudgeRaises, JudgeDies, ElsewhereThanJudge
<1> SUFFICES ASSUME Live PROVE Callbacks'
  BY <1>0, NoCall DEF CallsKept, routerVars, Callbacks, Live
<1> USE <1>0 DEF routerVars, JudgeGoto, JudgeSends, Callbacks, Live, HeadIs
<1>1. jin # <<>> => jpc \in {"awaitCase", "awaitAction"} /\ jout = <<>>
  BY DEF Dialogue, JudgeHears, JudgeAwaits
<1>2. Len(<<>>) = 0
  BY EmptySeq
<1>3. ASSUME NEW m \in JudgeMsgs, jout' = Append(jout, m), m.type \notin {"case_start", "case_end"}, jin' = jin,
             jpc' \in {jpc, "awaitCase", "over"} \/ (jpc = "loop" /\ jpc' = "awaitAction")
      PROVE  Callbacks'
  <2>1. /\ Len(jout) \in Nat /\ Len(jout') = Len(jout) + 1 /\ jout' # <<>>
        /\ \A i \in 1..Len(jout) : jout'[i] = jout[i]
        /\ jout'[Len(jout) + 1] = m
        /\ jout = <<>> <=> Len(jout) = 0
    BY <1>3, Said
  <2>2. \A i \in 1..Len(jout') : i \in 1..Len(jout) \/ i = Len(jout) + 1
    BY <2>1
  <2>3. HeadIs("case_start")' <=> HeadIs("case_start")
    BY <1>3, <2>1
  <2> QED
    BY <1>3, <2>1, <2>2, <2>3
<1>4. CASE RequestCase \/ CompleteEvaluation \/ RequestAction
  BY <1>3, <1>4 DEF RequestCase, CompleteEvaluation, RequestAction, JudgeMsgs, Msg, ProtocolTypeOK
<1>5. CASE ReceiveCase
  <2>1. /\ jin # <<>> /\ jin' = Tail(jin) /\ jout' = jout /\ jpc = "awaitCase"
        /\ jpc' = "complete" \/ (jpc' = "start" /\ Head(jin).type = "case_assign")
    BY <1>5 DEF ReceiveCase, JudgeTakes, Msg
  <2>2. jin' = <<>> /\ Head(jin) = jin[1] /\ jout = <<>>
    BY <2>1, Received DEF Dialogue
  <2> QED
    BY <1>2, <2>1, <2>2
<1>6. CASE StartCase
  <2>1. /\ jpc = "start" /\ jpc' = "loop" /\ jin' = jin /\ jin = <<>> /\ jout = <<>>
        /\ jout' = Append(jout, Msg("case_start"))
    BY <1>1, <1>6 DEF StartCase, Dialogue, BeforeCase
  <2>2. /\ started = 0 /\ served
    BY <2>1 DEF Dialogue, BeforeCase
  <2>3. Len(jout') = 1 /\ jout'[1].type = "case_start" /\ jout' # <<>>
    BY <2>1 DEF Msg
  <2>4. ended = <<>>
    BY <2>2
  <2> QED
    BY <2>1, <2>2, <2>3, <2>4
<1>7. CASE TimeLimit
  BY <1>7 DEF TimeLimit
<1>8. CASE ApplyAction
  <2>1. /\ jin # <<>> /\ jin' = Tail(jin) /\ jpc = "awaitAction" /\ jpc' \in {"loop", "end"}
        /\ jout' = Append(jout, [type |-> "observation", step |-> step'])
    BY <1>8 DEF ApplyAction
  <2>2. jin' = <<>> /\ jout = <<>>
    BY <2>1, Received DEF Dialogue
  <2>3. Len(jout') = 1 /\ jout'[1].type = "observation"
    BY <2>1, <2>2
  <2> QED
    BY <2>1, <2>2, <2>3
<1>9. CASE RejectAction
  <2>1. jin # <<>> /\ jin' = Tail(jin) /\ jpc = "awaitAction" /\ jpc' = "end" /\ jout' = jout
    BY <1>9 DEF RejectAction
  <2>2. jin' = <<>> /\ jout = <<>>
    BY <2>1, Received DEF Dialogue
  <2> QED
    BY <1>2, <2>1, <2>2
<1>10. CASE EndCase
  <2>1. PICK status \in Statuses : jout' = Append(jout, [type |-> "case_end", status |-> status])
    BY <1>10 DEF EndCase, ProtocolTypeOK, Overrides, Statuses
  <2>2. [type |-> "case_end", status |-> status] \in JudgeMsgs
    BY DEF JudgeMsgs
  <2>3. jpc = "end" /\ jpc' = "request" /\ jin' = jin /\ jin = <<>>
    BY <1>1, <1>10 DEF EndCase
  <2>4. /\ Len(jout) \in Nat /\ Len(jout') = Len(jout) + 1 /\ jout' # <<>>
        /\ \A i \in 1..Len(jout) : jout'[i] = jout[i]
        /\ jout'[Len(jout) + 1].type = "case_end"
        /\ jout = <<>> <=> Len(jout) = 0
    BY <2>1, <2>2, Said
  <2>5. \A i \in 1..Len(jout') : i \in 1..Len(jout) \/ i = Len(jout) + 1
    BY <2>4
  <2>6. HeadIs("case_start")' <=> HeadIs("case_start")
    BY <2>4
  <2> QED
    BY <2>3, <2>4, <2>5, <2>6
<1>11. CASE JudgeRaises
  <2>1. jout' = Append(jout, Msg("error")) /\ Msg("error") \in JudgeMsgs /\ jpc' = "over"
    BY <1>11 DEF JudgeRaises, Msg, JudgeMsgs
  <2>2. CASE jin' = jin
    BY <1>3, <2>1, <2>2 DEF Msg
  <2>3. CASE jin # <<>> /\ jin' = Tail(jin)
    <3>1. jin' = <<>> /\ jout = <<>>
      BY <2>3, Received DEF Dialogue
    <3>2. Len(jout') = 1 /\ jout'[1].type = "error"
      BY <2>1, <3>1 DEF Msg
    <3> QED
      BY <2>1, <3>1, <3>2
  <2> QED
    BY <1>11, <2>2, <2>3 DEF JudgeRaises
<1>12. CASE JudgeDies
  BY <1>12 DEF JudgeDies, judgeVars
<1> QED
  BY <1>4, <1>5, <1>6, <1>7, <1>8, <1>9, <1>10, <1>11, <1>12 DEF Judge

(* What is left in the judge's queue when its first message is taken.      *)
LEMMA RestOfQueue ==
  ASSUME ProtocolTypeOK, Dialogue, jout # <<>>, jout' = Tail(jout)
  PROVE  /\ jin = <<>> /\ jpc # "start" /\ Head(jout) = jout[1] /\ 1 \in 1..Len(jout)
         /\ ~HeadIs("case_start")'
         /\ \A i \in 1..Len(jout') : i + 1 \in 1..Len(jout) /\ i + 1 # 1 /\ i \in Nat /\ jout'[i] = jout[i + 1]
<1>1. /\ Len(jout) \in Nat /\ Len(jout) > 0 /\ (jout' = <<>> <=> Len(jout) = 1) /\ Head(jout) = jout[1]
      /\ Len(jout') = Len(jout) - 1 /\ \A i \in 1..Len(jout') : jout'[i] = jout[i + 1]
  BY Heard
<1>2. jin = <<>> /\ jpc # "start"
  BY DEF Dialogue, JudgeHears, BeforeCase
<1>3. \A i \in 1..Len(jout') : i + 1 \in 1..Len(jout) /\ i + 1 # 1 /\ i \in Nat
  BY <1>1
<1>4. ASSUME jout' # <<>> PROVE jout'[1].type # "case_start"
  <2>1. 1 \in 1..Len(jout') /\ 2 \in 1..Len(jout)
    BY <1>1, <1>4
  <2>2. jout'[1] = jout[1 + 1] /\ 1 + 1 = 2
    BY <1>1, <2>1
  <2>3. jout[2].type # "case_start"
    BY <2>1 DEF Dialogue, JudgeSays
  <2>4. jout'[1] = jout[2]
    BY <2>2
  <2> QED
    BY <2>3, <2>4
<1> QED
  BY <1>1, <1>2, <1>3, <1>4 DEF HeadIs

(* A message without a callback is taken. *)
LEMMA HeardCallbacks ==
  ASSUME ProtocolTypeOK, Dialogue, Callbacks, jout # <<>>, jout' = Tail(jout),
         Head(jout).type \notin {"case_start", "case_end"}, Live,
         UNCHANGED <<jpc, cases, started, ended, result>>,
         served' \in {served, TRUE}, jin' # <<>> => jin'[1].type # "case_assign" \/ ~served
  PROVE  CallsKept
<1>1. Callbacks'
  <2> SUFFICES ASSUME Live' PROVE Callbacks'
    BY DEF Callbacks
  <2>1. ~HeadIs("case_start")
    BY RestOfQueue DEF HeadIs
  <2>2. /\ ~HeadIs("case_start")' /\ jpc # "start"
        /\ \A i \in 1..Len(jout') : i + 1 \in 1..Len(jout) /\ i \in Nat /\ jout'[i] = jout[i + 1]
    BY RestOfQueue
  <2>3. /\ result = "running" /\ cases = ended /\ Len(ended) <= 1 /\ started \in {0, 1}
        /\ ended # <<>> => started = 1
        /\ ~served => started = 0
        /\ jpc \in {"loop", "awaitAction", "end"} =>
              /\ ended = <<>> /\ started = 1
              /\ \A i \in 1..Len(jout) : jout[i].type # "case_end"
        /\ \A i \in 1..Len(jout) : jout[i].type = "case_end" =>
              /\ ended = <<>> /\ started = 1
              /\ \A j \in 1..Len(jout) : jout[j].type = "case_end" => j = i
    BY <2>1 DEF Callbacks
  <2>4. ~served' \/ jpc' = "start" \/ (jin' # <<>> /\ jin'[1].type = "case_assign") => started' = 0
    BY <2>2, <2>3
  <2>5. jpc' \in {"loop", "awaitAction", "end"} => \A i \in 1..Len(jout') : jout'[i].type # "case_end"
    BY <2>2, <2>3
  <2>6. ASSUME NEW i \in 1..Len(jout'), jout'[i].type = "case_end"
        PROVE  ended = <<>> /\ started = 1 /\ \A j \in 1..Len(jout') : jout'[j].type = "case_end" => j = i
    <3>1. i + 1 \in 1..Len(jout) /\ jout[i + 1].type = "case_end" /\ i \in Nat
      BY <2>2, <2>6
    <3>2. \A j \in 1..Len(jout') : jout'[j].type = "case_end" => j + 1 = i + 1 /\ j \in Nat
      BY <2>2, <2>3, <3>1
    <3> QED
      BY <2>3, <3>1, <3>2
  <2> QED
    BY <2>2, <2>3, <2>4, <2>5, <2>6 DEF Callbacks
<1> QED
  BY <1>1, NoCall DEF CallsKept

LEMMA Called ==
  ASSUME ProtocolTypeOK, Dialogue, Callbacks, CaseStarted \/ CaseEnded
  PROVE  CallsKept
<1>1. /\ jout # <<>> /\ jout' = Tail(jout) /\ rpc = "poll" /\ rpc' = rpc
      /\ UNCHANGED <<jpc, jin, served, result>>
  BY DEF CaseStarted, CaseEnded, Take, ElsewhereThanRouter, judgeVars
<1>2. /\ jin = <<>> /\ jpc # "start" /\ Head(jout) = jout[1] /\ 1 \in 1..Len(jout)
      /\ ~HeadIs("case_start")'
      /\ \A i \in 1..Len(jout') : i + 1 \in 1..Len(jout) /\ i + 1 # 1 /\ i \in Nat /\ jout'[i] = jout[i + 1]
  BY <1>1, RestOfQueue
<1>3. Live /\ result = "running" /\ cases = ended /\ started \in {0, 1}
  BY <1>1 DEF Live, Callbacks
<1>4. CASE CaseStarted
  <2>1. HeadIs("case_start") /\ started' = started + 1 /\ UNCHANGED <<cases, ended>>
    BY <1>1, <1>2, <1>4 DEF CaseStarted, Take, HeadIs
  <2>2. started = 0 /\ started' = 1 /\ served /\ ended = <<>>
    BY <1>3, <2>1 DEF Callbacks
  <2>3. Callbacks'
    BY <1>1, <1>2, <1>3, <2>1, <2>2 DEF Callbacks
  <2>4. Contract!CallStart
    BY <1>1, <1>3, <2>1, <2>2 DEF Contract!CallStart
  <2> QED
    BY <2>3, <2>4 DEF CallsKept, Contract!ContractNext
<1>5. CASE CaseEnded
  <2>1. /\ jout[1].type = "case_end" /\ ended' = Append(ended, jout[1].status) /\ started' = started
        /\ cases' = Append(cases, jout[1].status)
    BY <1>1, <1>2, <1>5 DEF CaseEnded, Take
  <2>2. /\ jout[1].type = "case_end" => /\ ended = <<>>
                                        /\ started = 1 \/ HeadIs("case_start")
                                        /\ \A j \in 1..Len(jout) : jout[j].type = "case_end" => j = 1
        /\ ~(jpc \in {"loop", "awaitAction", "end"} /\ jout[1].type = "case_end")
    BY <1>2, <1>3 DEF Callbacks
  <2>3. ended = <<>> /\ started = 1 /\ served
    BY <1>3, <2>1, <2>2 DEF HeadIs, Callbacks
  <2>4. jout[1].status \in Statuses
    BY <1>1, <2>1, TakenTyped DEF JudgeMsgs
  <2>5. ended' = <<jout[1].status>> /\ Len(ended') = 1 /\ cases' = ended'
    BY <1>3, <2>1, <2>3
  <2>6. \A i \in 1..Len(jout') : jout'[i].type # "case_end"
    BY <1>2, <2>1, <2>2
  <2>7. Callbacks'
    BY <1>1, <1>2, <1>3, <2>1, <2>2, <2>3, <2>5, <2>6 DEF Callbacks
  <2>8. Contract!CallEnd
    BY <1>1, <1>3, <2>1, <2>3, <2>4, <2>5 DEF Contract!CallEnd, Contract!Verdicts, Statuses
  <2> QED
    BY <2>7, <2>8 DEF CallsKept, Contract!ContractNext
<1> QED
  BY <1>4, <1>5

(* The session raises or returns. *)
LEMMA OverCallbacks ==
  ASSUME Callbacks, Live, ~Live', UNCHANGED <<started, ended>>, result' = "raised" \/ result' = FirstCase
  PROVE  CallsKept
<1>1. Callbacks'
  BY DEF Callbacks
<1>2. result = "running" /\ cases = ended
  BY DEF Callbacks
<1>3. Contract!Raise \/ Contract!Return
  BY <1>2 DEF Contract!Raise, Contract!Return, FirstCase
<1> QED
  BY <1>1, <1>3 DEF CallsKept, Contract!ContractNext

LEMMA RouteCallbacks ==
  ASSUME ProtocolTypeOK, Dialogue, Callbacks, Route
  PROVE  CallsKept
<1> USE DEF Take, ElsewhereThanRouter, judgeVars, Live, Msg
<1>1. CASE CaseRequested
  <2>1. PICK m \in {Msg("case_stop"), Msg("case_assign")} : SendToJudge(m) /\ (m.type = "case_assign" => ~served)
    BY <1>1 DEF CaseRequested
  <2>2. m \in JudgeInbox
    BY DEF JudgeInbox
  <2>3. /\ jout # <<>> /\ jout' = Tail(jout) /\ Head(jout).type = "case_request" /\ rpc = "poll"
        /\ served' = TRUE /\ UNCHANGED <<jpc, cases, started, ended>>
    BY <1>1 DEF CaseRequested
  <2>4. CASE rpc' = "closing"
    BY <2>1, <2>3, <2>4, OverCallbacks DEF SendToJudge
  <2>5. CASE rpc' # "closing"
    <3>1. jin = <<>>
      BY <2>3, RestOfQueue
    <3>2. jin'[1] = m /\ result' = result
      BY <2>1, <2>2, <2>5, <3>1, Sent
    <3> QED
      BY <2>1, <2>3, <3>2, HeardCallbacks
  <2> QED
    BY <2>4, <2>5
<1>2. CASE CaseStarted \/ CaseEnded
  BY <1>2, Called
<1>3. CASE Observed \/ ActionRequested
  <2>1. /\ jout # <<>> /\ jout' = Tail(jout) /\ Head(jout).type \in {"observation", "action_request"} /\ rpc = "poll"
        /\ UNCHANGED <<jpc, jin, served, cases, started, ended, result>>
    BY <1>3 DEF Observed, ActionRequested
  <2>2. jin = <<>>
    BY <2>1, RestOfQueue
  <2> QED
    BY <2>1, <2>2, HeardCallbacks
<1>4. CASE SendReply
  <2>1. /\ SendToJudge(reply) /\ reply \in Replies /\ rpc = "answer"
        /\ UNCHANGED <<jpc, jout, served, cases, started, ended>>
    BY <1>4 DEF SendReply, Dialogue, ReplyReady
  <2>2. reply \in JudgeInbox /\ reply.type = "action" /\ jin = <<>>
    BY <2>1 DEF JudgeInbox, Replies, Dialogue, JudgeHears, Asking
  <2>3. CASE rpc' = "closing"
    BY <2>1, <2>3, OverCallbacks DEF SendToJudge
  <2>4. CASE rpc' # "closing"
    <3>1. jin'[1] = reply /\ result' = result
      BY <2>1, <2>2, <2>4, Sent
    <3>2. Callbacks'
      BY <2>1, <2>2, <3>1 DEF Callbacks, HeadIs
    <3> QED
      BY <2>1, <3>1, <3>2, NoCall DEF CallsKept
  <2> QED
    BY <2>3, <2>4
<1>5. CASE EvaluationOver \/ JudgeSilent
  BY <1>5, OverCallbacks DEF EvaluationOver, JudgeSilent, Leave
<1>6. CASE Cleanup
  <2>1. ~Live' /\ UNCHANGED <<started, ended, result>>
    BY <1>6 DEF Cleanup
  <2> QED
    BY <2>1, NoCall DEF CallsKept, Callbacks
<1> QED
  BY <1>1, <1>2, <1>3, <1>4, <1>5, <1>6 DEF Route

LEMMA SetupCallbacks ==
  ASSUME Callbacks, SetupDone \/ SetupRaises
  PROVE  CallsKept
<1>1. CASE SetupDone
  <2>1. UNCHANGED <<jpc, jin, jout, served, cases, started, ended, result>> /\ Live
    BY <1>1 DEF SetupDone, judgeVars, Live
  <2> QED
    BY <2>1, NoCall DEF CallsKept, Callbacks, HeadIs
<1>2. CASE SetupRaises
  BY <1>2, OverCallbacks DEF SetupRaises, Live
<1> QED
  BY <1>1, <1>2

-----------------------------------------------------------------------------
(* What a session adds to its request for an action *)

LEMMA OthersTyped ==
  ASSUME ProtocolTypeOK, Dialogue, Others \/ UNCHANGED vars
  PROVE  ProtocolTypeOK' /\ Dialogue'
<1>1. CASE Judge \/ JudgeRaises \/ JudgeDies
  BY <1>1, JudgeTyped, JudgeDialogue
<1>2. CASE Route
  BY <1>2, RouteTyped, RouteDialogue
<1>3. CASE \E a \in Agents : Agent(a) \/ AgentDies(a)
  <2>1. PICK a \in Agents : Agent(a) \/ AgentDies(a)
    BY <1>3
  <2>2. UNCHANGED <<jpc, step, jin, jout, served, rpc, reply>>
    BY <2>1 DEF Agent, UserActs, UserSees, UserEnds, BridgeObservation, BridgeAction, AgentDies, ElsewhereThanAgent,
                judgeVars, routerVars
  <2> QED
    BY <2>1, <2>2, AgentTyped, ElsewhereDialogue
<1>4. CASE UNCHANGED vars
  <2>1. ProtocolTypeOK'
    BY <1>4 DEF ProtocolTypeOK, vars, judgeVars, agentVars, userVars, bridgeVars, routerVars
  <2> QED
    BY <1>4, <2>1, ElsewhereDialogue DEF vars, judgeVars, routerVars
<1> QED
  BY <1>1, <1>2, <1>3, <1>4 DEF Others

LEMMA OthersCalls ==
  ASSUME ProtocolTypeOK, Dialogue, Callbacks, Others \/ UNCHANGED vars
  PROVE  CallsKept
<1>1. CASE Judge \/ JudgeRaises \/ JudgeDies
  BY <1>1, JudgeCallbacks
<1>2. CASE Route
  BY <1>2, RouteCallbacks
<1>3. ASSUME NEW a \in Agents, Agent(a) \/ AgentDies(a) PROVE CallsKept
  <2>1. UNCHANGED <<jpc, jin, jout, routerVars>>
    BY <1>3 DEF Agent, UserActs, UserSees, UserEnds, BridgeObservation, BridgeAction, AgentDies, ElsewhereThanAgent, judgeVars
  <2> QED
    BY <2>1, SilentCallbacks
<1>4. CASE UNCHANGED vars
  BY <1>4, SilentCallbacks DEF vars, judgeVars
<1> QED
  BY <1>1, <1>2, <1>3, <1>4 DEF Others

LEMMA OthersRounds ==
  ASSUME ProtocolTypeOK, Dialogue, Rounds, Others \/ UNCHANGED vars
  PROVE  Rounds' /\ (NothingLost => NothingLost')
<1>1. CASE Judge \/ JudgeRaises \/ JudgeDies
  BY <1>1, JudgeRounds, JudgeLosesNothing
<1>2. CASE Route
  BY <1>2, RouteRounds, RouteLosesNothing
<1>3. ASSUME NEW a \in Agents, Agent(a) \/ AgentDies(a) PROVE Rounds' /\ (NothingLost => NothingLost')
  BY <1>3, AgentRounds, AgentLosesNothing
<1>4. CASE UNCHANGED vars
  <2>1. Rounds'
    BY <1>4, JudgeSpeaks DEF vars, judgeVars, agentVars, bridgeVars, routerVars
  <2>2. NothingLost => NothingLost'
    BY <1>4 DEF NothingLost, Live, Settled, ItemAround, ObservationAround, AtAgent, Told, Announced,
                vars, judgeVars, agentVars, userVars, bridgeVars, routerVars
  <2> QED
    BY <2>1, <2>2
<1> QED
  BY <1>1, <1>2, <1>3, <1>4 DEF Others

(* The others neither wait for an answer nor give up waiting. *)
LEMMA OthersAnswer ==
  ASSUME ProtocolTypeOK, Others \/ UNCHANGED vars
  PROVE  UNCHANGED late /\ (rpc' \in {"collect", "answer"} => UNCHANGED <<rpc, got, reply>>)
<1>1. ASSUME Judge \/ JudgeRaises \/ JudgeDies PROVE UNCHANGED <<late, rpc, got, reply>>
  BY <1>1 DEF Judge, RequestCase, ReceiveCase, CompleteEvaluation, StartCase, RequestAction, TimeLimit, ApplyAction,
              RejectAction, EndCase, JudgeRaises, JudgeDies, ElsewhereThanJudge, routerVars
<1>2. ASSUME NEW a \in Agents, Agent(a) \/ AgentDies(a) PROVE UNCHANGED <<late, rpc, got, reply>>
  BY <1>2 DEF Agent, UserActs, UserSees, UserEnds, BridgeObservation, BridgeAction, AgentDies, ElsewhereThanAgent, routerVars
<1>3. CASE CaseRequested \/ SendReply \/ EvaluationOver \/ JudgeSilent \/ Cleanup \/ ActionRequested
  BY <1>3 DEF CaseRequested, SendReply, EvaluationOver, JudgeSilent, Cleanup, ActionRequested, SendToJudge, Leave
<1>4. CASE CaseStarted \/ CaseEnded \/ Observed
  BY <1>4 DEF CaseStarted, CaseEnded, Observed
<1>5. CASE UNCHANGED vars
  BY <1>5 DEF vars, routerVars
<1> QED
  BY <1>1, <1>2, <1>3, <1>4, <1>5 DEF Others, Route

LEMMA AskedAfresh ==
  ASSUME ProtocolTypeOK, Others \/ UNCHANGED vars, rpc' = "ask",
         rpc = "ask" => \A a \in Agents : got[a] = Waiting
  PROVE  \A a \in Agents : got'[a] = Waiting
<1>1. CASE ActionRequested
  BY <1>1 DEF ActionRequested
<1>2. CASE UNCHANGED <<rpc, got>>
  BY <1>2
<1>3. Judge \/ JudgeRaises \/ JudgeDies => UNCHANGED <<rpc, got>>
  BY DEF Judge, RequestCase, ReceiveCase, CompleteEvaluation, StartCase, RequestAction, TimeLimit, ApplyAction,
         RejectAction, EndCase, JudgeRaises, JudgeDies, ElsewhereThanJudge, routerVars
<1>4. \A a \in Agents : Agent(a) \/ AgentDies(a) => UNCHANGED <<rpc, got>>
  BY DEF Agent, UserActs, UserSees, UserEnds, BridgeObservation, BridgeAction, AgentDies, ElsewhereThanAgent, routerVars
<1>5. ~(CaseRequested \/ SendReply \/ EvaluationOver \/ JudgeSilent \/ Cleanup)
  BY DEF CaseRequested, SendReply, EvaluationOver, JudgeSilent, Cleanup, SendToJudge, Leave
<1>6. CaseStarted \/ CaseEnded \/ Observed => UNCHANGED <<rpc, got>>
  BY DEF CaseStarted, CaseEnded, Observed
<1>7. UNCHANGED vars => UNCHANGED <<rpc, got>>
  BY DEF vars, routerVars
<1> QED
  BY <1>1, <1>2, <1>3, <1>4, <1>5, <1>6, <1>7 DEF Others, Route

(* A request for an action: who speaks is neither judge nor user. *)
RequestFrame == <<jpc, step, override, jin, jout, judgeUp, upc, acted, seen, act, obs, agentUp,
                  served, cases, started, ended, result>>

LEMMA RequestKeeps ==
  ASSUME Dialogue, Callbacks, Asking, Asking', ReplyReady', UNCHANGED RequestFrame
  PROVE  Dialogue' /\ CallsKept
<1>1. Dialogue'
  BY ElsewhereDialogue DEF RequestFrame
<1>2. Callbacks'
  BY DEF Callbacks, Live, Asking, HeadIs, RequestFrame
<1> QED
  BY <1>1, <1>2, NoCall DEF CallsKept, RequestFrame

(* An error has no data, and says nothing of a round. *)
LEMMA ErrorReply ==
  ASSUME NEW status \in Overrides, status # "none"
  PROVE  /\ ErrorAction(status) \in Replies /\ ErrorAction(status).error = status
         /\ ErrorAction(status).data = <<>>
BY DEF ErrorAction, Replies

(* The request is on its way to some of the agents, or to all. *)
LEMMA Requested ==
  ASSUME ProtocolTypeOK, NEW m \in AgentMsgs, m.type = "action_request",
         ain' \in [Agents -> Seq(AgentMsgs)],
         \A a \in Agents : ain'[a] \in {ain[a], Append(ain[a], m)},
         rpc = "ask", rpc' \in {"collect", "answer"}, rpc' = "answer" => reply' = ErrorAction("error"),
         UNCHANGED <<RequestFrame, got, aout, late>>
  PROVE  /\ Rounds => Rounds'
         /\ NothingLost /\ UNCHANGED faults => NothingLost'
<1> USE DEF RequestFrame
<1>1. ASSUME NEW a \in Agents
      PROVE  /\ Told(a)' <=> Told(a)
             /\ \A i \in 1..Len(ain'[a]) : ain'[a][i].type = "observation" =>
                    i \in 1..Len(ain[a]) /\ ain'[a][i] = ain[a][i]
  <2>1. CASE ain'[a] = ain[a]
    BY <2>1 DEF Told
  <2>2. CASE ain'[a] = Append(ain[a], m)
    <3>1. ain[a] \in Seq(AgentMsgs)
      BY DEF ProtocolTypeOK
    <3>2. /\ Len(ain[a]) \in Nat /\ Len(ain'[a]) = Len(ain[a]) + 1 /\ ain'[a][Len(ain[a]) + 1] = m
          /\ \A i \in 1..Len(ain[a]) : ain'[a][i] = ain[a][i]
      BY <2>2, <3>1, Appended, Elements
    <3>3. \A i \in 1..Len(ain'[a]) : i \in 1..Len(ain[a]) \/ i = Len(ain[a]) + 1
      BY <3>2
    <3>4. \A i \in 1..Len(ain[a]) : i \in 1..Len(ain'[a])
      BY <3>2
    <3> QED
      BY <3>2, <3>3, <3>4 DEF Told
  <2> QED
    BY <2>1, <2>2
<1>2. ASSUME Rounds PROVE Rounds'
  <2>1. ASSUME NEW a \in Agents PROVE InOrder(a)' /\ ItemOnce(a)' /\ ObservedOnce(a)'
    <3>1. InOrder(a) /\ ItemOnce(a) /\ ObservedOnce(a) /\ got[a] = Waiting
      BY <1>2 DEF Rounds, RoundInPlay
    <3>2. InOrder(a)' /\ ItemOnce(a)'
      BY <3>1 DEF InOrder, ItemOnce, Items, AtAgent
    <3>3. ObservedOnce(a)'
      BY <1>1, <3>1 DEF ObservedOnce, Announced
    <3> QED
      BY <3>2, <3>3
  <2>2. RoundInPlay'
    BY <1>2, ErrorReply DEF Rounds, RoundInPlay, WholeRound, Items, AtAgent, Overrides
  <2> QED
    BY <2>1, <2>2 DEF Rounds
<1>3. ASSUME NothingLost, UNCHANGED faults PROVE NothingLost'
  <2>1. Settled => Settled'
    BY DEF Settled
  <2>2. \A a \in Agents : ItemAround(a) => ItemAround(a)'
    BY DEF ItemAround, AtAgent
  <2>3. \A a \in Agents : ObservationAround(a) => ObservationAround(a)'
    BY <1>1 DEF ObservationAround, Announced
  <2> QED
    BY <1>3, <2>1, <2>2, <2>3, SameWhereabouts DEF Live
<1> QED
  BY <1>2, <1>3

(* An agent's answer is collected. *)
LEMMA Collected ==
  ASSUME ProtocolTypeOK, Rounds, NEW a \in Agents, rpc = "collect", rpc' \in {"collect", "answer"},
         aout[a] # <<>>, got' = [got EXCEPT ![a] = Head(aout[a])], aout' = [aout EXCEPT ![a] = Tail(@)],
         UNCHANGED <<RequestFrame, ain, faults, late>>
  PROVE  /\ \A c \in Agents : InOrder(c)' /\ ItemOnce(c)' /\ ObservedOnce(c)'
         /\ got'[a] \in Items(a) /\ got'[a] \in ActionIds /\ step = Len(seen[a]) /\ ~AtAgent(a)'
         /\ got' \in [Agents -> {Waiting, NoAnswer} \cup ActionIds] /\ aout' \in [Agents -> Seq(ActionIds)]
         /\ NothingLost => NothingLost'
<1> USE DEF RequestFrame
<1>1. /\ got \in [Agents -> {Waiting, NoAnswer} \cup ActionIds] /\ aout \in [Agents -> Seq(ActionIds)]
      /\ aout[a] \in Seq(ActionIds)
  BY DEF ProtocolTypeOK
<1>2. ItemOnce(a)
  BY DEF Rounds
<1>3. /\ Head(aout[a]) = aout[a][1] /\ Head(aout[a]) \in ActionIds /\ Tail(aout[a]) \in Seq(ActionIds)
      /\ (Tail(aout[a]) # <<>> <=> Len(aout[a]) > 1)
  BY <1>1, Taken
<1>4. Len(aout[a]) \in Nat
  BY <1>1, Elements
<1>5. /\ got'[a] = aout[a][1] /\ aout'[a] = <<>> /\ act[a] = <<>> /\ step = Len(seen[a])
      /\ aout[a][1] \in Items(a)
  BY <1>1, <1>2, <1>3, <1>4 DEF ItemOnce, AtAgent
<1>6. ASSUME NEW c \in Agents PROVE InOrder(c)' /\ ItemOnce(c)' /\ ObservedOnce(c)'
  <2>1. InOrder(c) /\ ItemOnce(c) /\ ObservedOnce(c)
    BY DEF Rounds
  <2>2. InOrder(c)' /\ ObservedOnce(c)'
    BY <2>1 DEF InOrder, ObservedOnce, Told, Announced
  <2>3. CASE c = a
    <3>0. act'[a] = <<>> /\ aout'[a] = <<>> /\ step' = Len(seen'[a]) /\ Len(<<>>) <= 1
      BY <1>5
    <3>1. /\ Len(act'[a]) <= 1 /\ Len(aout'[a]) <= 1 /\ ~AtAgent(a)'
          /\ act'[a] = <<>> /\ aout'[a] = <<>> /\ step' = Len(seen'[a])
      BY <3>0 DEF AtAgent
    <3>2. Items(a)' = Items(a)
      BY DEF Items
    <3>3. ItemOnce(a)'
      BY <1>5, <3>1, <3>2 DEF ItemOnce
    <3> QED
      BY <2>2, <2>3, <3>3
  <2>4. CASE c # a
    <3>1. got'[c] = got[c] /\ aout'[c] = aout[c]
      BY <1>1, <2>4
    <3> QED
      BY <2>1, <2>2, <3>1 DEF ItemOnce, AtAgent, Items
  <2> QED
    BY <2>2, <2>3, <2>4
<1>7. ASSUME NothingLost PROVE NothingLost'
  <2>1. Settled => Settled'
    BY DEF Settled
  <2>2. ASSUME NEW c \in Agents, ItemAround(c) PROVE ItemAround(c)'
    <3>1. CASE c = a
      <4>1. got'[a] # Waiting
        BY <1>3, <1>5 DEF ActionIds, Waiting, Raised, Ended
      <4> QED
        BY <1>5, <3>1, <4>1 DEF ItemAround
    <3>2. CASE c # a
      <4>1. got'[c] = got[c] /\ aout'[c] = aout[c]
        BY <1>1, <3>2
      <4> QED
        BY <2>2, <4>1 DEF ItemAround, AtAgent
    <3> QED
      BY <3>1, <3>2
  <2>3. \A c \in Agents : ObservationAround(c) => ObservationAround(c)'
    BY DEF ObservationAround, Announced, Told
  <2> QED
    BY <1>7, <2>1, <2>2, <2>3, SameWhereabouts DEF Live
<1> QED
  BY <1>1, <1>3, <1>5, <1>6, <1>7 DEF AtAgent

-----------------------------------------------------------------------------
(* What the invariants say of the properties *)

LEMMA Alignment ==
  ASSUME ProtocolTypeOK, Dialogue, Rounds
  PROVE  RoundsAligned /\ \A m \in Actions : m.error = "none" /\ m.data # <<>> => DOMAIN m.data = Agents
<1>1. ASSUME NEW m \in Actions PROVE WholeRound(m) /\ m = jin[1] /\ m \in Replies /\ jin # <<>>
  <2>1. PICK i \in DOMAIN jin : m = jin[i]
    BY DEF Actions, Range
  <2>2. jin \in Seq(JudgeInbox) /\ DOMAIN jin = 1..Len(jin)
    BY LenProperties DEF ProtocolTypeOK
  <2>3. jin # <<>> /\ i = 1
    BY <2>1, <2>2, EmptySeq DEF Dialogue, JudgeHears
  <2> QED
    BY <2>1, <2>2, <2>3, Elements DEF Actions, Rounds, RoundInPlay, JudgeInbox
<1>2. ASSUME NEW m \in Actions PROVE InRound(m)
  <2>1. CASE m.data # <<>>
    <3>1. ASSUME NEW a \in DOMAIN m.data PROVE m.data[a] \in {Ended, step + 1}
      <4>1. a \in Agents /\ m.data[a] \in Items(a) \ {Raised} /\ step = Len(seen[a]) /\ InOrder(a)
        BY <1>1, <2>1, <3>1 DEF WholeRound, Rounds
      <4> QED
        BY <4>1 DEF Items, InOrder
    <3> QED
      BY <3>1 DEF InRound
  <2>2. CASE m.data = <<>>
    <3>1. DOMAIN <<>> = {}
      OBVIOUS
    <3> QED
      BY <2>2, <3>1 DEF InRound
  <2> QED
    BY <2>1, <2>2
<1>3. \A a \in Agents : \A i \in 1..Len(seen[a]) : seen[a][i] = i
  BY DEF Rounds, InOrder
<1>4. \A m \in Actions : m.error = "none" /\ m.data # <<>> => DOMAIN m.data = Agents
  BY <1>1 DEF WholeRound
<1> QED
  BY <1>2, <1>3, <1>4 DEF RoundsAligned

LEMMA Fed ==
  ASSUME Dialogue, NothingLost
  PROVE  NobodyStarves
<1> SUFFICES ASSUME faults = 0 PROVE ~JudgeStarved /\ (late = {} => \A a \in Agents : ~AgentStarved(a))
  BY DEF NobodyStarves
<1>1. ~JudgeStarved
  BY DEF JudgeStarved, Dialogue, JudgeServed, Live, Asking
<1>2. ASSUME late = {}, NEW a \in Agents, AgentStarved(a) PROVE FALSE
  <2>1. /\ rpc = "collect" /\ got[a] = Waiting /\ upc[a] = "awaitObs" /\ ~AtAgent(a)
        /\ obs[a] = <<>> /\ ~Told(a)
    BY <1>2 DEF AgentStarved, AtAgent, Told
  <2>2. jpc = "awaitAction" /\ jout = <<>> /\ jin = <<>>
    BY <2>1 DEF Dialogue, RouterAsks, JudgeHears, Asking
  <2>3. Settled \/ ItemAround(a) \/ ObservationAround(a)
    BY <1>2, <2>1 DEF NothingLost, Live
  <2> QED
    BY <2>1, <2>2, <2>3 DEF Settled, ItemAround, ObservationAround, Announced
<1> QED
  BY <1>1, <1>2
=============================================================================
