----------------------- MODULE IsolatedSessionProofs -----------------------
(***************************************************************************)
(* The multi-agent session.  What CaseProtocolProofs shows of the rounds   *)
(* holds until the session gives up waiting for an agent: the late agent's *)
(* action is then collected for the judge's next step.                     *)
(***************************************************************************)
EXTENDS IsolatedSession, CaseProtocolProofs

(* What the session has heard of the agents, and what it makes of it.      *)
SilenceIsLate ==
  /\ rpc = "ask" => \A a \in Agents : got[a] = Waiting
  /\ rpc \in {"collect", "answer"} => \A a \in Agents : got[a] = NoAnswer => a \in late

NotAsked == (\A a \in Agents : got[a] = Waiting) /\ reply = ErrorAction("error")
AllFailed == Answered = {} /\ reply = ErrorAction("error")
SomeFailed ==
  /\ \E a \in Agents : got[a] = Raised \/ Acted(a)
  /\ \E status \in StatusOfError : reply = ErrorAction(status)
NoneFailed ==
  /\ Answered # {} /\ \A a \in Agents : got[a] # Raised
  /\ reply = Data(Answered)

Combined ==
  rpc = "answer" =>
    NotAsked \/ ((\A a \in Agents : got[a] # Waiting) /\ (AllFailed \/ SomeFailed \/ NoneFailed))

IsolatedInv ==
  /\ ProtocolTypeOK
  /\ Dialogue
  /\ Callbacks
  /\ SilenceIsLate /\ Combined
  /\ late = {} => Rounds /\ NothingLost

LEMMA InitIsolated == IsolatedInit => IsolatedInv
<1>1. ProtocolInit => SilenceIsLate /\ Combined
  BY DEF ProtocolInit, SilenceIsLate, Combined
<1> QED
  BY <1>1, TypeInit, DialogueInit, RoundsInit, NothingLostInit, CallbacksInit DEF IsolatedInit, IsolatedInv

(* The answers decide, and nothing else. *)
LEMMA SameCombined ==
  ASSUME UNCHANGED <<got, reply, rpc>>, Combined PROVE Combined'
BY DEF Combined, NotAsked, AllFailed, SomeFailed, NoneFailed, Answered, Acted, StatusOfError, Data

LEMMA ErrorsOfAgents == StatusOfError \subseteq {"error", "tle", "mle"}
BY DEF StatusOfError

-----------------------------------------------------------------------------
(* The request for an action *)

LEMMA RequestIsolated ==
  ASSUME IsolatedRequest
  PROVE  UNCHANGED RequestFrame /\ Asking /\ Asking'
BY DEF IsolatedRequest, AskAgents, Combine, Complete, AgentAnswers, AgentSilent, Collecting, ElsewhereThanReply,
       ElsewhereThanCollect, ElsewhereThanRouter, Asking, RequestFrame, judgeVars, userVars, bridgeVars

LEMMA AskingIsolated ==
  ASSUME IsolatedInv, AskAgents
  PROVE  ProtocolTypeOK' /\ ReplyReady' /\ SilenceIsLate' /\ Combined' /\ (late' = {} => Rounds' /\ NothingLost')
<1>1. ProtocolTypeOK /\ SilenceIsLate
  BY DEF IsolatedInv
<1>2. Request \in AgentMsgs /\ Request.type = "action_request"
  BY <1>1 DEF AgentMsgs, ProtocolTypeOK, Request
<1>3. UNCHANGED RequestFrame
  BY RequestIsolated DEF IsolatedRequest
<1>4. /\ rpc = "ask" /\ UNCHANGED <<aout, got, late>>
      /\ \E S \in SUBSET Agents : ain' = SentTo(S)
      /\ \/ rpc' = "collect" /\ UNCHANGED <<reply, faults>>
         \/ rpc' = "answer" /\ reply' = ErrorAction("error") /\ (Fault \/ UNCHANGED faults)
  BY DEF AskAgents, ElsewhereThanReply
<1>5. /\ ain' \in [Agents -> Seq(AgentMsgs)]
      /\ \A a \in Agents : ain'[a] \in {ain[a], Append(ain[a], Request)}
  <2>1. PICK S \in SUBSET Agents : ain' = SentTo(S)
    BY <1>4
  <2>2. ain \in [Agents -> Seq(AgentMsgs)]
    BY <1>1 DEF ProtocolTypeOK
  <2>3. \A a \in Agents : Append(ain[a], Request) \in Seq(AgentMsgs)
    BY <1>2, <2>2, Appended
  <2> QED
    BY <2>1, <2>2, <2>3 DEF SentTo
<1>6. ASSUME late' = {} PROVE Rounds' /\ NothingLost'
  <2>1. Rounds /\ NothingLost
    BY <1>4, <1>6 DEF IsolatedInv
  <2>2. Rounds' /\ (UNCHANGED faults => NothingLost')
    BY <1>1, <1>2, <1>3, <1>4, <1>5, <2>1, Requested
  <2> QED
    BY <1>1, <1>4, <2>2, FaultLoses
<1>7. ProtocolTypeOK' /\ ReplyReady'
  <2>1. faults' \in 0..MaxFaults /\ ErrorAction("error") \in Replies
    BY <1>1, <1>4, FaultTyped, ErrorReply DEF ProtocolTypeOK, Overrides
  <2> QED
    BY <1>1, <1>3, <1>4, <1>5, <2>1 DEF ProtocolTypeOK, ReplyReady, RequestFrame
<1>8. SilenceIsLate' /\ Combined'
  <2>1. \A a \in Agents : got'[a] = Waiting /\ Waiting # NoAnswer
    BY <1>1, <1>4 DEF SilenceIsLate, Waiting, NoAnswer
  <2> QED
    BY <1>4, <2>1 DEF SilenceIsLate, Combined, NotAsked
<1> QED
  BY <1>6, <1>7, <1>8

LEMMA CollectingIsolated ==
  ASSUME IsolatedInv, NEW a \in Agents, AgentAnswers(a) \/ AgentSilent(a)
  PROVE  ProtocolTypeOK' /\ ReplyReady' /\ SilenceIsLate' /\ Combined' /\ (late' = {} => Rounds' /\ NothingLost')
<1>1. ProtocolTypeOK /\ SilenceIsLate
  BY DEF IsolatedInv
<1>2. UNCHANGED RequestFrame /\ UNCHANGED <<ain, reply>> /\ rpc = "collect" /\ rpc' = "collect" /\ got[a] = Waiting
  BY RequestIsolated DEF IsolatedRequest, AgentAnswers, AgentSilent, Collecting, ElsewhereThanCollect
<1>3. aout \in [Agents -> Seq(ActionIds)] /\ got \in [Agents -> {Waiting, NoAnswer} \cup ActionIds] /\ late \in SUBSET Agents
  BY <1>1 DEF ProtocolTypeOK
<1>4. Combined' /\ ReplyReady'
  BY <1>2 DEF Combined, ReplyReady
<1>5. CASE AgentAnswers(a)
  <2>1. /\ aout[a] # <<>> /\ got' = [got EXCEPT ![a] = Head(aout[a])] /\ aout' = [aout EXCEPT ![a] = Tail(@)]
        /\ UNCHANGED <<faults, late>>
    BY <1>5 DEF AgentAnswers
  <2>2. Head(aout[a]) \in ActionIds /\ aout' \in [Agents -> Seq(ActionIds)]
    BY <1>3, <2>1, QueuesTyped
  <2>3. ProtocolTypeOK'
    BY <1>1, <1>2, <1>3, <2>1, <2>2 DEF ProtocolTypeOK, RequestFrame
  <2>4. SilenceIsLate'
    <3>1. Head(aout[a]) # NoAnswer
      BY <2>2 DEF ActionIds, NoAnswer, Raised, Ended
    <3> QED
      BY <1>1, <1>2, <1>3, <2>1, <3>1 DEF SilenceIsLate
  <2>5. ASSUME late' = {} PROVE Rounds' /\ NothingLost'
    <3>1. Rounds /\ NothingLost
      BY <2>1, <2>5 DEF IsolatedInv
    <3>2. NothingLost' /\ \A c \in Agents : InOrder(c)' /\ ItemOnce(c)' /\ ObservedOnce(c)'
      BY <1>1, <1>2, <2>1, <3>1, Collected
    <3>3. jin' = <<>>
      BY <1>2 DEF RequestFrame, IsolatedInv, Dialogue, JudgeHears, Asking
    <3>4. RoundInPlay'
      BY <1>2, <3>3 DEF RoundInPlay
    <3> QED
      BY <3>2, <3>4 DEF Rounds
  <2> QED
    BY <1>4, <2>3, <2>4, <2>5
<1>6. CASE AgentSilent(a)
  <2>1. /\ got' = [got EXCEPT ![a] = NoAnswer] /\ late' = late \cup {a}
        /\ UNCHANGED <<aout, faults>> \/ (aout[a] # <<>> /\ Fault /\ aout' = [aout EXCEPT ![a] = Tail(@)])
    BY <1>6 DEF AgentSilent
  <2>2. aout' \in [Agents -> Seq(ActionIds)] /\ faults' \in 0..MaxFaults
    <3>1. CASE UNCHANGED <<aout, faults>>
      BY <1>1, <3>1 DEF ProtocolTypeOK
    <3>2. CASE aout[a] # <<>> /\ Fault /\ aout' = [aout EXCEPT ![a] = Tail(@)]
      BY <1>1, <1>3, <3>2, QueuesTyped, FaultTyped
    <3> QED
      BY <2>1, <3>1, <3>2
  <2>3. got' \in [Agents -> {Waiting, NoAnswer} \cup ActionIds] /\ late' \in SUBSET Agents
    BY <1>3, <2>1
  <2>4. ProtocolTypeOK'
    BY <1>1, <1>2, <2>2, <2>3 DEF ProtocolTypeOK, RequestFrame
  <2>5. SilenceIsLate' /\ late' # {}
    BY <1>1, <1>2, <1>3, <2>1 DEF SilenceIsLate
  <2> QED
    BY <1>4, <2>4, <2>5
<1> QED
  BY <1>5, <1>6

LEMMA CombiningIsolated ==
  ASSUME IsolatedInv, Combine
  PROVE  ProtocolTypeOK' /\ ReplyReady' /\ SilenceIsLate' /\ Combined' /\ (late' = {} => Rounds' /\ NothingLost')
<1>1. ProtocolTypeOK /\ SilenceIsLate
  BY DEF IsolatedInv
<1>2. /\ UNCHANGED RequestFrame /\ UNCHANGED <<ain, aout, got, faults, late>> /\ rpc = "collect" /\ rpc' = "answer"
      /\ \A a \in Agents : got[a] # Waiting
  BY RequestIsolated DEF IsolatedRequest, Combine, Complete, ElsewhereThanReply
<1>3. AllFailed' \/ SomeFailed' \/ NoneFailed'
  <2>1. PICK odd \in SUBSET {a \in Agents : Acted(a)} :
          \/ Answered = {} /\ reply' = ErrorAction("error")
          \/ /\ odd \cup {a \in Agents : got[a] = Raised} # {}
             /\ \E status \in StatusOfError : reply' = ErrorAction(status)
          \/ Answered # {} /\ odd \cup {a \in Agents : got[a] = Raised} = {} /\ reply' = Data(Answered)
    BY DEF Combine
  <2>2. Answered' = Answered /\ StatusOfError' = StatusOfError /\ Data(Answered)' = Data(Answered)
    BY <1>2 DEF Answered, StatusOfError, Acted, Data
  <2>3. \A a \in Agents : Acted(a)' = Acted(a)
    BY <1>2 DEF Acted
  <2> QED
    BY <1>2, <2>1, <2>2, <2>3 DEF AllFailed, SomeFailed, NoneFailed
<1>4. Combined'
  BY <1>2, <1>3 DEF Combined
<1>5. \A a \in Answered' : got[a] \in ActionIds /\ a \in Agents
  BY <1>1, <1>2 DEF Answered, ProtocolTypeOK
<1>6. reply' \in Replies /\ (reply'.data # <<>> => NoneFailed' /\ reply'.error = "none"
                                               /\ reply'.data = [a \in Answered' |-> got[a]])
  <2>1. CASE AllFailed' \/ SomeFailed'
    <3>1. \E status \in {"error", "tle", "mle"} : reply' = ErrorAction(status)
      BY <2>1, ErrorsOfAgents DEF AllFailed, SomeFailed, StatusOfError
    <3>2. \A status \in {"error", "tle", "mle"} : /\ ErrorAction(status) \in Replies
                                                  /\ ErrorAction(status).data = <<>>
      BY ErrorReply DEF Overrides
    <3> QED
      BY <3>1, <3>2
  <2>2. CASE NoneFailed'
    <3>1. reply' \in {Action(<<>>), Action([a \in Answered' |-> got[a]])}
      BY <1>2, <2>2 DEF NoneFailed, Data
    <3>2. Action(<<>>) \in Replies /\ Action(<<>>).data = <<>>
      BY DEF Action, Replies, Overrides
    <3>3. [a \in Answered' |-> got[a]] \in UNION {[S -> ActionIds] : S \in SUBSET Agents}
      BY <1>5
    <3>4. /\ Action([a \in Answered' |-> got[a]]) \in Replies
          /\ Action([a \in Answered' |-> got[a]]).error = "none"
          /\ Action([a \in Answered' |-> got[a]]).data = [a \in Answered' |-> got[a]]
      BY <3>3 DEF Action, Replies, Overrides
    <3> QED
      BY <2>2, <3>1, <3>2, <3>4
  <2> QED
    BY <1>3, <2>1, <2>2
<1>7. ProtocolTypeOK' /\ ReplyReady' /\ SilenceIsLate'
  BY <1>1, <1>2, <1>6 DEF ProtocolTypeOK, ReplyReady, SilenceIsLate, RequestFrame
<1>8. ASSUME late' = {} PROVE Rounds' /\ NothingLost'
  <2>1. Rounds /\ NothingLost /\ \A a \in Agents : got[a] # NoAnswer
    BY <1>1, <1>2, <1>8 DEF IsolatedInv, SilenceIsLate
  <2>2. Answered' = Agents
    BY <1>2, <2>1 DEF Answered
  <2>3. \A a \in Agents : got[a] \in Items(a) /\ step = Len(seen[a]) /\ ~AtAgent(a)
    BY <1>2, <2>1 DEF Rounds, ItemOnce
  <2>4. UNCHANGED <<upc, acted, seen, act, aout, obs, step, jin, jout>> /\ jin' = <<>>
    BY <1>2 DEF RequestFrame, IsolatedInv, Dialogue, JudgeHears, Asking
  <2>5. WholeRound(reply)'
    <3>1. ASSUME reply'.data # <<>> PROVE /\ reply'.error = "none" /\ reply'.data = [a \in Agents |-> got[a]]
                                          /\ \A a \in Agents : got[a] # Raised
      BY <1>2, <1>6, <2>2, <3>1 DEF NoneFailed
    <3> QED
      BY <2>3, <2>4, <3>1 DEF WholeRound, Items, AtAgent
  <2>6. RoundInPlay'
    BY <1>2, <2>4, <2>5 DEF RoundInPlay
  <2>7. Rounds'
    BY <1>2, <2>1, <2>4, <2>6, SameRounds DEF Announced, userVars
  <2>8. NothingLost'
    <3>1. \A a \in Agents : /\ Settled => Settled'
                            /\ ItemAround(a) => ItemAround(a)'
                            /\ ObservationAround(a) => ObservationAround(a)'
      BY <1>2, <2>4 DEF Settled, ItemAround, ObservationAround, AtAgent, Told, Announced, RequestFrame
    <3> QED
      BY <1>2, <2>1, <3>1, SameWhereabouts DEF Live, RequestFrame
  <2> QED
    BY <2>7, <2>8
<1> QED
  BY <1>4, <1>7, <1>8

-----------------------------------------------------------------------------
LEMMA StepIsolated ==
  ASSUME IsolatedInv, IsolatedNext \/ UNCHANGED vars
  PROVE  IsolatedInv' /\ [Contract!ContractNext]_(Contract!contractVars)
<1> USE DEF IsolatedInv, CallsKept
<1>1. CASE Others \/ UNCHANGED vars
  <2>1. ProtocolTypeOK' /\ Dialogue'
    BY <1>1, OthersTyped
  <2>2. CallsKept
    BY <1>1, OthersCalls
  <2>3. UNCHANGED late /\ (rpc' \in {"collect", "answer"} => UNCHANGED <<rpc, got, reply>>)
    BY <1>1, OthersAnswer
  <2>4. late' = {} => Rounds' /\ NothingLost'
    BY <1>1, <2>3, OthersRounds
  <2>5. Combined'
    BY <2>3, SameCombined DEF Combined
  <2>6. SilenceIsLate'
    <3>1. rpc' = "ask" => \A a \in Agents : got'[a] = Waiting
      BY <1>1, AskedAfresh DEF SilenceIsLate
    <3> QED
      BY <2>3, <3>1 DEF SilenceIsLate
  <2> QED
    BY <2>1, <2>2, <2>4, <2>5, <2>6
<1>2. CASE IsolatedRequest
  <2>1. ProtocolTypeOK' /\ ReplyReady' /\ SilenceIsLate' /\ Combined' /\ (late' = {} => Rounds' /\ NothingLost')
    BY <1>2, AskingIsolated, CollectingIsolated, CombiningIsolated DEF IsolatedRequest
  <2> QED
    BY <1>2, <2>1, RequestIsolated, RequestKeeps
<1>3. CASE IsolatedSetup
  <2>1. SetupDone \/ (SetupRaises /\ (Fault \/ UNCHANGED faults))
    BY <1>3 DEF IsolatedSetup
  <2>2. /\ UNCHANGED <<jpc, step, jin, jout, served, late>>
        /\ rpc = "setup" /\ rpc' \in {"poll", "closing"}
    BY <2>1 DEF SetupDone, SetupRaises, ElsewhereThanRouter, judgeVars
  <2>3. ProtocolTypeOK'
    BY <2>1, SetupTyped
  <2>4. Dialogue'
    BY <2>2, ElsewhereDialogue
  <2>5. late' = {} => Rounds' /\ NothingLost'
    BY <2>1, <2>2, SetupRounds, SetupLosesNothing
  <2>6. CallsKept
    BY <2>1, SetupCallbacks
  <2>7. SilenceIsLate' /\ Combined'
    BY <2>2 DEF SilenceIsLate, Combined
  <2> QED
    BY <2>3, <2>4, <2>5, <2>6, <2>7
<1> QED
  BY <1>1, <1>2, <1>3 DEF IsolatedNext

LEMMA IsolatedInvariant == IsolatedSpec => []IsolatedInv
<1>1. IsolatedInv /\ [IsolatedNext]_vars => IsolatedInv'
  BY StepIsolated
<1> QED
  BY InitIsolated, <1>1, PTL DEF IsolatedSpec

(* What the judge is told of a round is the whole round: until an agent is *)
(* late all answers are of the judge's step and of every agent, a crash is *)
(* always reported, and a round everybody answered fails only by a crash   *)
(* or by an action that looks like one.                                    *)
THEOREM IsolatedRounds == IsolatedSpec => []WholeRounds
<1>1. ASSUME IsolatedInv PROVE WholeRounds
  <2>1. SynchronousUntilLate
    BY <1>1, Alignment DEF IsolatedInv, SynchronousUntilLate, BarrierComplete
  <2>2. \A status \in {"error", "tle", "mle"} : ErrorAction(status).error = status
    BY ErrorReply DEF Overrides
  <2>3. Raised # Waiting /\ Raised # NoAnswer
    BY DEF Raised, Waiting, NoAnswer
  <2>4. CrashReported
    <3> SUFFICES ASSUME rpc = "answer", NEW a \in Agents, got[a] = Raised
                 PROVE  reply.error # "none" /\ (~Acted(First) => reply.error = "error")
      BY DEF CrashReported
    <3>1. SomeFailed
      BY <1>1, <2>3 DEF IsolatedInv, Combined, NotAsked, AllFailed, NoneFailed, Answered
    <3> QED
      BY <2>2, <3>1 DEF SomeFailed, StatusOfError
  <2>5. FailedForAReason
    <3> SUFFICES ASSUME rpc = "answer", Waiting \notin Range(got), reply.error # "none"
                 PROVE  Answered = {} \/ \E a \in Agents : got[a] = Raised \/ Acted(a)
      BY DEF FailedForAReason
    <3>1. \A a \in Agents : got[a] # Waiting
      BY <1>1 DEF IsolatedInv, ProtocolTypeOK, Range
    <3>2. ~NotAsked
      BY <3>1, ProtocolAssumption DEF NotAsked
    <3>3. ~NoneFailed
      <4>1. \A answered : Data(answered).error = "none"
        BY DEF Data, Action
      <4> QED
        BY <4>1 DEF NoneFailed
    <3>4. AllFailed \/ SomeFailed
      BY <1>1, <3>2, <3>3 DEF IsolatedInv, Combined
    <3> QED
      BY <3>4 DEF AllFailed, SomeFailed
  <2> QED
    BY <2>1, <2>4, <2>5 DEF WholeRounds
<1> QED
  BY IsolatedInvariant, <1>1, PTL

(* As long as nothing fails and no agent is late, nobody waits for         *)
(* somebody who waits for him, however many agents there are.              *)
THEOREM IsolatedFed == IsolatedSpec => []NobodyStarves
<1>1. ASSUME IsolatedInv PROVE NobodyStarves
  <2>1. NothingLost
    BY <1>1 DEF IsolatedInv, NothingLost
  <2> QED
    BY <1>1, <2>1, Fed DEF IsolatedInv
<1> QED
  BY IsolatedInvariant, <1>1, PTL

(* The session implements the safety part of the contract on callbacks.    *)
THEOREM IsolatedContract == IsolatedSpec => Contract!ContractSafety
<1>1. IsolatedInit => Contract!ContractInit
  BY CallbacksInit DEF IsolatedInit
<1>2. IsolatedInv /\ [IsolatedNext]_vars => [Contract!ContractNext]_(Contract!contractVars)
  BY StepIsolated
<1> QED
  BY IsolatedInvariant, <1>1, <1>2, PTL DEF IsolatedSpec, Contract!ContractSafety
=============================================================================
