------------------------- MODULE PairSessionProofs -------------------------
(***************************************************************************)
(* The single-agent session.  To what CaseProtocolProofs shows of the      *)
(* others it adds setup and the request for an action.                     *)
(***************************************************************************)
EXTENDS PairSession, CaseProtocolProofs, FiniteSetTheorems

(* The router collects one answer. *)
Unanswered == rpc = "collect" => got[User] = Waiting

(* Up to the last request for an action nobody has been late... *)
InTime ==
  \/ ~served
  \/ jin # <<>> /\ jin[1].type = "case_assign"
  \/ jpc \in {"start", "loop"}
  \/ rpc \in {"ask", "collect"}
  \/ \E i \in 1..Len(jout) : jout[i].type = "action_request"

(* ... and what the answer to it will become, or has become, fits.         *)
Fitting(m) ==
  IF m.error # "none" THEN Fits(m.error) ELSE IF m.data = <<>> THEN Fits("error") ELSE late = {}

Punctual == InTime => late = {}
Untouched == rpc = "setup" => jpc = "request" /\ jin = <<>> /\ jout = <<>> /\ ended = <<>> /\ ~judgeUp
NotOverridden == jpc \in {"loop", "awaitAction"} => override = "none"
ReplyFits == rpc = "answer" => Fitting(reply)
InboxFits == jin # <<>> /\ jin[1].type = "action" => Fitting(jin[1])
EndFits == jpc = "end" => IF override = "none" THEN late = {} /\ step > 0 ELSE Fits(override)
OutboxFits == \A i \in 1..Len(jout) : jout[i].type = "case_end" => Fits(jout[i].status)

VerdictInPlay ==
  /\ Punctual /\ Untouched /\ NotOverridden
  /\ ReplyFits /\ InboxFits /\ EndFits /\ OutboxFits /\ VerdictFits

PairInv ==
  /\ ProtocolTypeOK
  /\ Dialogue
  /\ Rounds
  /\ NothingLost
  /\ Callbacks
  /\ Unanswered
  /\ VerdictInPlay

LEMMA OneUser == Agents = {User}
<1>1. \E a : Agents = {a}
  BY PairAssumption, ProtocolAssumption, FS_Singleton
<1> QED
  BY <1>1 DEF User

LEMMA InitPair == PairInit => PairInv
<1>1. ProtocolInit => Unanswered
  BY DEF ProtocolInit, Unanswered
<1>2. ProtocolInit => VerdictInPlay
  BY EmptySeq DEF ProtocolInit, VerdictInPlay, Punctual, Untouched, NotOverridden, ReplyFits, InboxFits,
                  EndFits, OutboxFits, InTime, VerdictFits
<1> QED
  BY <1>1, <1>2, TypeInit, DialogueInit, RoundsInit, NothingLostInit, CallbacksInit DEF PairInit, PairInv

-----------------------------------------------------------------------------
(* The request for an action *)

LEMMA RequestPair ==
  ASSUME PairRequest
  PROVE  UNCHANGED RequestFrame /\ Asking /\ Asking'
BY DEF PairRequest, AskUser, UserAnswers, UserGone, UserLate, Answer, ElsewhereThanRouter, Asking,
       RequestFrame, judgeVars, userVars, bridgeVars

LEMMA AskingPair ==
  ASSUME PairInv, AskUser
  PROVE  ProtocolTypeOK' /\ ReplyReady' /\ Rounds' /\ NothingLost' /\ Unanswered'
<1> DEFINE m == [type |-> "action_request", step |-> step]
<1>1. ProtocolTypeOK /\ Rounds /\ NothingLost /\ User \in Agents
  BY OneUser DEF PairInv
<1>2. m \in AgentMsgs /\ m.type = "action_request"
  BY <1>1 DEF AgentMsgs, ProtocolTypeOK
<1>3. UNCHANGED RequestFrame
  BY RequestPair DEF PairRequest
<1>4. /\ rpc = "ask" /\ UNCHANGED <<aout, got, late>>
      /\ ain' \in {ain, [ain EXCEPT ![User] = Append(@, m)]}
      /\ \/ rpc' = "collect" /\ UNCHANGED <<reply, faults>>
         \/ rpc' = "answer" /\ reply' = ErrorAction("error") /\ (Fault \/ UNCHANGED faults)
  BY DEF AskUser, Answer
<1>5. ain' \in [Agents -> Seq(AgentMsgs)]
  <2>1. ain \in [Agents -> Seq(AgentMsgs)]
    BY <1>1 DEF ProtocolTypeOK
  <2> HIDE DEF m
  <2>2. [ain EXCEPT ![User] = Append(@, m)] \in [Agents -> Seq(AgentMsgs)]
    BY <1>1, <1>2, <2>1, QueuesTyped
  <2> QED
    BY <1>4, <2>1, <2>2
<1>6. \A a \in Agents : ain'[a] \in {ain[a], Append(ain[a], m)}
  BY <1>1, <1>4 DEF ProtocolTypeOK
<1>7. Rounds' /\ (UNCHANGED faults => NothingLost')
  <2> HIDE DEF m
  <2> QED
    BY <1>1, <1>2, <1>3, <1>4, <1>5, <1>6, Requested
<1>8. NothingLost'
  BY <1>1, <1>4, <1>7, FaultLoses
<1>9. ProtocolTypeOK' /\ ReplyReady'
  <2>1. faults' \in 0..MaxFaults /\ ErrorAction("error") \in Replies
    BY <1>1, <1>4, FaultTyped, ErrorReply DEF ProtocolTypeOK, Overrides
  <2> QED
    BY <1>1, <1>3, <1>4, <1>5, <2>1 DEF ProtocolTypeOK, ReplyReady, RequestFrame
<1>10. Unanswered'
  <2>1. got[User] = Waiting /\ Waiting # NoAnswer
    BY <1>1, <1>4 DEF Rounds, RoundInPlay, Waiting, NoAnswer
  <2> QED
    BY <1>4, <2>1 DEF Unanswered
<1> QED
  BY <1>7, <1>8, <1>9, <1>10

LEMMA AnsweringPair ==
  ASSUME PairInv, UserAnswers
  PROVE  ProtocolTypeOK' /\ ReplyReady' /\ Rounds' /\ NothingLost' /\ Unanswered'
<1>1. ProtocolTypeOK /\ Rounds /\ NothingLost /\ User \in Agents
  BY OneUser DEF PairInv
<1>2. UNCHANGED RequestFrame
  BY RequestPair DEF PairRequest
<1>3. /\ rpc = "collect" /\ rpc' = "answer" /\ UNCHANGED <<ain, faults, late>> /\ aout[User] # <<>>
      /\ aout' = [aout EXCEPT ![User] = Tail(@)] /\ got' = [got EXCEPT ![User] = Head(aout[User])]
      /\ got'[User] = Raised => reply' = ErrorAction("error")
      /\ got'[User] = Ended => reply' = Action(<<>>)
      /\ got'[User] \notin {Raised, Ended} => reply' = Action(got')
  BY DEF UserAnswers, Answer, Raised, Ended
<1>4. /\ \A c \in Agents : InOrder(c)' /\ ItemOnce(c)' /\ ObservedOnce(c)'
      /\ got'[User] \in Items(User) /\ got'[User] \in ActionIds /\ step = Len(seen[User]) /\ ~AtAgent(User)'
      /\ got' \in [Agents -> {Waiting, NoAnswer} \cup ActionIds] /\ aout' \in [Agents -> Seq(ActionIds)]
      /\ NothingLost => NothingLost'
  BY <1>1, <1>2, <1>3, Collected
<1>5. got' \in [Agents -> ActionIds] /\ DOMAIN got' = Agents
  BY <1>4, OneUser
<1>6. /\ reply' \in Replies
      /\ reply'.data # <<>> => reply'.error = "none" /\ reply'.data = got' /\ got'[User] # Raised
  <2>1. CASE got'[User] = Raised
    <3>1. reply' = ErrorAction("error")
      BY <1>3, <2>1
    <3> QED
      BY <3>1, ErrorReply DEF Overrides
  <2>2. CASE got'[User] = Ended
    <3>1. reply' = Action(<<>>)
      BY <1>3, <2>2 DEF Raised, Ended
    <3> QED
      BY <3>1 DEF Action, Replies, Overrides
  <2>3. CASE got'[User] \notin {Raised, Ended}
    <3>1. reply' = Action(got')
      BY <1>3, <2>3
    <3> QED
      BY <1>5, <2>3, <3>1 DEF Action, Replies, Overrides
  <2> QED
    BY <2>1, <2>2, <2>3
<1>7. WholeRound(reply)'
  <2>1. UNCHANGED <<upc, acted, seen, step>>
    BY <1>2 DEF RequestFrame
  <2>2. Items(User)' = Items(User)
    BY <2>1 DEF Items
  <2> QED
    BY <1>4, <1>5, <1>6, <2>1, <2>2, OneUser DEF WholeRound
<1>8. Rounds'
  <2>1. RoundInPlay'
    <3>1. jin' = <<>>
      BY <1>2, <1>3 DEF RequestFrame, PairInv, Dialogue, JudgeHears, Asking
    <3> QED
      BY <1>3, <1>7, <3>1 DEF RoundInPlay
  <2> QED
    BY <1>4, <2>1 DEF Rounds
<1>9. ProtocolTypeOK' /\ ReplyReady'
  BY <1>1, <1>2, <1>3, <1>4, <1>6 DEF ProtocolTypeOK, ReplyReady, RequestFrame
<1>10. Unanswered'
  BY <1>3 DEF Unanswered
<1> QED
  BY <1>1, <1>4, <1>8, <1>9, <1>10

(* A user who is gone or late leaves an error behind, no answer. *)
LEMMA GivingUpPair ==
  ASSUME PairInv, UserGone \/ UserLate
  PROVE  ProtocolTypeOK' /\ ReplyReady' /\ Rounds' /\ NothingLost' /\ Unanswered'
<1>1. ProtocolTypeOK /\ Rounds /\ NothingLost /\ User \in Agents /\ Unanswered
  BY OneUser DEF PairInv
<1>2. UNCHANGED RequestFrame
  BY RequestPair DEF PairRequest
<1>3. /\ rpc = "collect" /\ rpc' = "answer" /\ UNCHANGED ain
      /\ \E status \in {"mle", "error", "tle"} : reply' = ErrorAction(status)
      /\ got' \in {got, [got EXCEPT ![User] = NoAnswer]}
      /\ late' \in {late, Agents}
  <2>1. CASE UserGone
    BY <2>1 DEF UserGone, Answer
  <2>2. CASE UserLate
    BY <2>2 DEF UserLate, Answer
  <2> QED
    BY <2>1, <2>2
<1>4. got'[User] \in {Waiting, NoAnswer}
  BY <1>1, <1>3 DEF Unanswered, ProtocolTypeOK
<1>5. /\ aout' = aout \/ (aout[User] # <<>> /\ aout' = [aout EXCEPT ![User] = Tail(@)])
      /\ Fault \/ UNCHANGED faults
  BY DEF UserGone, UserLate
<1>6. /\ aout' \in [Agents -> Seq(ActionIds)] /\ aout'[User] \in {aout[User], <<>>}
  <2>1. aout \in [Agents -> Seq(ActionIds)] /\ aout[User] \in Seq(ActionIds) /\ Len(aout[User]) <= 1
    BY <1>1 DEF ProtocolTypeOK, Rounds, ItemOnce
  <2>2. CASE aout[User] # <<>> /\ aout' = [aout EXCEPT ![User] = Tail(@)]
    <3>1. aout'[User] = Tail(aout[User])
      BY <1>1, <2>1, <2>2
    <3>2. (Tail(aout[User]) # <<>> <=> Len(aout[User]) > 1) /\ Len(aout[User]) \in Nat
      BY <2>1, <2>2, Taken
    <3> QED
      BY <1>1, <2>1, <2>2, <3>1, <3>2, QueuesTyped
  <2> QED
    BY <1>5, <2>1, <2>2
<1>7. reply' \in Replies /\ WholeRound(reply)'
  <2>1. \A status \in {"mle", "error", "tle"} :
          ErrorAction(status) \in Replies /\ ErrorAction(status).data = <<>>
    BY ErrorReply DEF Overrides
  <2> QED
    BY <1>3, <2>1 DEF WholeRound
<1>8. Rounds'
  <2>1. RoundInPlay'
    <3>1. jin' = <<>>
      BY <1>2, <1>3 DEF RequestFrame, PairInv, Dialogue, JudgeHears, Asking
    <3> QED
      BY <1>3, <1>7, <3>1 DEF RoundInPlay
  <2>2. InOrder(User) /\ ItemOnce(User) /\ ObservedOnce(User)
    BY <1>1 DEF Rounds
  <2>3. InOrder(User)' /\ ObservedOnce(User)'
    BY <1>2, <1>3, <2>2 DEF InOrder, ObservedOnce, Told, Announced, RequestFrame
  <2>4. ItemOnce(User)'
    <3>1. UNCHANGED <<upc, acted, seen, act, step>> /\ Len(<<>>) <= 1
      BY <1>2 DEF RequestFrame
    <3> QED
      BY <1>4, <1>6, <2>2, <3>1 DEF ItemOnce, AtAgent, Items
  <2> QED
    BY <2>1, <2>3, <2>4, OneUser DEF Rounds
<1>9. ProtocolTypeOK' /\ ReplyReady'
  <2>1. faults' \in 0..MaxFaults
    BY <1>1, <1>5, FaultTyped DEF ProtocolTypeOK
  <2>2. got' \in [Agents -> {Waiting, NoAnswer} \cup ActionIds] /\ late' \in SUBSET Agents
    BY <1>1, <1>3 DEF ProtocolTypeOK
  <2> QED
    BY <1>1, <1>2, <1>3, <1>6, <1>7, <2>1, <2>2 DEF ProtocolTypeOK, ReplyReady, RequestFrame
<1>10. Unanswered'
  BY <1>3 DEF Unanswered
<1>11. NothingLost'
  <2>1. CASE UserLate
    <3>1. late' # {}
      BY <1>1, <2>1 DEF UserLate
    <3> QED
      BY <3>1 DEF NothingLost
  <2>2. CASE UserGone
    <3>1. ~agentUp[User] /\ UNCHANGED <<faults, late>> /\ Live
      BY <1>3, <2>2 DEF UserGone, Live
    <3>2. ~(faults = 0 /\ late = {})
      BY <1>1, <1>3, <3>1 DEF NothingLost
    <3> QED
      BY <3>1, <3>2 DEF NothingLost
  <2> QED
    BY <2>1, <2>2
<1> QED
  BY <1>8, <1>9, <1>10, <1>11

-----------------------------------------------------------------------------
(* The verdict *)

(* What fits stays fitting as long as nobody new is late. *)
NextFits(verdict) ==
  /\ late' # {} => verdict = "tle"
  /\ verdict = "mle" => ~agentUp'[User]
  /\ verdict = "error" => upc'[User] = "over" \/ faults' > 0
  /\ verdict \in {"passed", "failed"} => step' > 0
NextFitting(m) ==
  IF m.error # "none" THEN NextFits(m.error) ELSE IF m.data = <<>> THEN NextFits("error") ELSE late' = {}

Steady ==
  /\ UNCHANGED late
  /\ ~agentUp[User] => ~agentUp'[User]
  /\ upc[User] = "over" => upc'[User] = "over"
  /\ faults > 0 => faults' > 0
  /\ step > 0 => step' > 0

LEMMA StillFits ==
  ASSUME Steady
  PROVE  /\ \A v : Fits(v) => NextFits(v)
         /\ \A m : Fitting(m) => NextFitting(m)
BY DEF Steady, Fits, NextFits, Fitting, NextFitting

LEMMA StillInPlay ==
  ASSUME ProtocolTypeOK, VerdictInPlay, Steady
  PROVE  /\ UNCHANGED <<rpc, reply>> => ReplyFits'
         /\ UNCHANGED jin => InboxFits'
         /\ UNCHANGED <<jpc, override>> => EndFits'
         /\ UNCHANGED jout => OutboxFits'
         /\ jout # <<>> /\ jout' = Tail(jout) => OutboxFits'
         /\ UNCHANGED ended => VerdictFits'
<1>1. /\ \A v : Fits(v) => NextFits(v)
      /\ \A m : Fitting(m) => NextFitting(m)
  BY StillFits
<1>2. ReplyFits /\ InboxFits /\ EndFits /\ OutboxFits /\ VerdictFits
  BY DEF VerdictInPlay
<1>3. UNCHANGED <<rpc, reply>> => ReplyFits'
  BY <1>1, <1>2 DEF ReplyFits, Fitting, NextFitting, Fits, NextFits
<1>4. UNCHANGED jin => InboxFits'
  BY <1>1, <1>2 DEF InboxFits, Fitting, NextFitting, Fits, NextFits
<1>5. UNCHANGED <<jpc, override>> => EndFits'
  BY <1>1, <1>2 DEF EndFits, Fits, NextFits, Steady
<1>6. ASSUME \A i \in 1..Len(jout') : \E j \in 1..Len(jout) : jout'[i] = jout[j] PROVE OutboxFits'
  BY <1>1, <1>2, <1>6 DEF OutboxFits, Fits, NextFits
<1>7. UNCHANGED jout => OutboxFits'
  BY <1>6
<1>8. ASSUME jout # <<>>, jout' = Tail(jout) PROVE OutboxFits'
  <2>1. \A i \in 1..Len(jout') : i + 1 \in 1..Len(jout) /\ jout'[i] = jout[i + 1]
    BY <1>8, Heard
  <2> QED
    BY <1>6, <2>1
<1>9. UNCHANGED ended => VerdictFits'
  <2>1. \A i \in 1..Len(ended) : NextFits(ended[i])
    BY <1>1, <1>2 DEF VerdictFits
  <2> QED
    BY <2>1 DEF VerdictFits, Fits, NextFits
<1> QED
  BY <1>3, <1>4, <1>5, <1>7, <1>8, <1>9

(* Faults add up. *)
LEMMA FaultsStay == ASSUME ProtocolTypeOK, Fault \/ UNCHANGED faults PROVE faults > 0 => faults' > 0
BY DEF ProtocolTypeOK, Fault

LEMMA AgentVerdict ==
  ASSUME PairInv, NEW a \in Agents, Agent(a) \/ AgentDies(a)
  PROVE  VerdictInPlay'
<1>1. UNCHANGED <<judgeVars, jin, jout, judgeUp, routerVars, late>> /\ (Fault \/ UNCHANGED faults)
  BY DEF Agent, UserActs, UserSees, UserEnds, BridgeObservation, BridgeAction, AgentDies, ElsewhereThanAgent
<1>2. /\ ~agentUp[User] => ~agentUp'[User]
      /\ upc[User] = "over" => upc'[User] = "over"
  <2>1. a = User /\ agentUp \in [Agents -> BOOLEAN] /\ upc \in [Agents -> {"run", "awaitObs", "over"}]
    BY OneUser DEF PairInv, ProtocolTypeOK
  <2>2. CASE Agent(a)
    BY <2>1, <2>2 DEF Agent, UserActs, UserSees, UserEnds, BridgeObservation, BridgeAction, ElsewhereThanAgent, userVars
  <2>3. CASE AgentDies(a)
    BY <2>1, <2>3 DEF AgentDies, userVars
  <2> QED
    BY <2>2, <2>3
<1>3. faults > 0 => faults' > 0
  BY <1>1, FaultsStay DEF PairInv
<1>4. UNCHANGED <<jpc, step, override, jin, jout, judgeUp, rpc, served, ended, reply, late>>
  BY <1>1 DEF judgeVars, routerVars
<1>5. Steady
  BY <1>2, <1>3, <1>4 DEF Steady
<1>6. (Punctual /\ Untouched /\ NotOverridden)'
  BY <1>4 DEF PairInv, VerdictInPlay, Punctual, Untouched, NotOverridden, InTime
<1> QED
  BY <1>4, <1>5, <1>6, StillInPlay DEF PairInv, VerdictInPlay

(* What the judge adds to its queue. *)
LEMMA Spoken ==
  ASSUME ProtocolTypeOK, VerdictInPlay, Steady, NEW m \in JudgeMsgs, jout' = Append(jout, m),
         m.type = "case_end" => NextFits(m.status)
  PROVE  /\ OutboxFits'
         /\ \A i \in 1..Len(jout') : jout'[i].type = "action_request" =>
              m.type = "action_request" \/ \E j \in 1..Len(jout) : jout[j].type = "action_request"
<1>1. /\ Len(jout) \in Nat /\ Len(jout') = Len(jout) + 1 /\ jout'[Len(jout) + 1] = m
      /\ \A i \in 1..Len(jout) : jout'[i] = jout[i]
  BY Said
<1>2. \A i \in 1..Len(jout') : (i \in 1..Len(jout) /\ jout'[i] = jout[i]) \/ jout'[i] = m
  BY <1>1
<1>3. \A i \in 1..Len(jout') : jout'[i].type = "case_end" => NextFits(jout'[i].status)
  BY <1>2, StillFits DEF VerdictInPlay, OutboxFits
<1>4. OutboxFits'
  BY <1>3 DEF OutboxFits, Fits, NextFits
<1> QED
  BY <1>2, <1>4

LEMMA JudgeVerdict ==
  ASSUME PairInv, Judge \/ JudgeRaises \/ JudgeDies
  PROVE  VerdictInPlay'
<1> USE DEF JudgeGoto
<1>1. /\ ProtocolTypeOK /\ Dialogue /\ VerdictInPlay /\ step \in Nat /\ JudgeHears
      /\ Punctual /\ NotOverridden /\ InboxFits /\ EndFits
  BY ProtocolAssumption DEF PairInv, ProtocolTypeOK, Dialogue, VerdictInPlay
<1>2. UNCHANGED <<agentVars, routerVars, late>> /\ (Fault \/ UNCHANGED faults) /\ judgeUp
  BY DEF Judge, RequestCase, ReceiveCase, CompleteEvaluation, StartCase, RequestAction, TimeLimit, ApplyAction,
         RejectAction, EndCase, JudgeRaises, JudgeDies, ElsewhereThanJudge
<1>3. UNCHANGED <<upc, agentUp, rpc, served, ended, reply, late>>
  BY <1>2 DEF agentVars, userVars, routerVars
<1>4. step > 0 => step' > 0
  <2>1. jpc = "start" => step = 0
    BY <1>1 DEF Dialogue, BeforeCase
  <2>2. step' \in {step, step + 1} \/ StartCase
    BY DEF Judge, RequestCase, ReceiveCase, CompleteEvaluation, RequestAction, TimeLimit, ApplyAction,
           RejectAction, EndCase, JudgeRaises, JudgeDies, ElsewhereThanJudge, judgeVars
  <2>3. StartCase => jpc = "start"
    BY DEF StartCase
  <2> QED
    BY <1>1, <2>1, <2>2, <2>3
<1>5. Steady
  BY <1>1, <1>2, <1>3, <1>4, FaultsStay DEF Steady
<1>6. ReplyFits' /\ VerdictFits' /\ Untouched'
  BY <1>1, <1>2, <1>3, <1>5, StillInPlay DEF VerdictInPlay, Untouched
<1>7. UNCHANGED jin => InboxFits'
  BY <1>1, <1>5, StillInPlay
<1>8. UNCHANGED jout => OutboxFits'
  BY <1>1, <1>5, StillInPlay
<1>9. (jin # <<>> /\ jin' = Tail(jin)) => InboxFits' /\ jin' = <<>> /\ Head(jin) = jin[1] /\ JudgeAwaits(jin[1])
                                           /\ jout = <<>> /\ ~Asking /\ served
  BY <1>1, Received DEF InboxFits
<1> USE DEF VerdictInPlay
<1>10. ASSUME NEW type \in {"case_request", "eval_complete", "case_start", "error"},
              jout' = Append(jout, Msg(type))
       PROVE  OutboxFits' /\ \A i \in 1..Len(jout') : jout'[i].type = "action_request" =>
                               \E j \in 1..Len(jout) : jout[j].type = "action_request"
  <2>1. Msg(type) \in JudgeMsgs /\ Msg(type).type = type
    BY DEF Msg, JudgeMsgs
  <2> QED
    BY <1>1, <1>5, <1>10, <2>1, Spoken
<1>11. CASE RequestCase
  <2>1. jout' = Append(jout, Msg("case_request")) /\ UNCHANGED jin /\ jpc' = "awaitCase" /\ override' = override /\ jpc = "request"
    BY <1>11 DEF RequestCase, JudgeSends
  <2>2. Punctual' /\ NotOverridden' /\ EndFits'
    BY <1>1, <1>3, <1>10, <2>1 DEF Punctual, InTime, NotOverridden, EndFits
  <2> QED
    BY <1>6, <1>7, <1>10, <2>1, <2>2
<1>12. CASE ReceiveCase
  <2>1. jin # <<>> /\ jin' = Tail(jin) /\ jpc' \in {"complete", "start"} /\ UNCHANGED jout
        /\ (jpc' = "start" => Head(jin).type = "case_assign")
    BY <1>12 DEF ReceiveCase, JudgeTakes, Msg
  <2>2. Punctual' /\ NotOverridden' /\ EndFits'
    BY <1>1, <1>3, <1>9, <2>1 DEF Punctual, InTime, NotOverridden, EndFits
  <2> QED
    BY <1>6, <1>8, <1>9, <2>1, <2>2
<1>13. CASE CompleteEvaluation
  <2>1. jout' = Append(jout, Msg("eval_complete")) /\ UNCHANGED jin /\ jpc' = "over"
    BY <1>13 DEF CompleteEvaluation, JudgeSends
  <2>2. Punctual' /\ NotOverridden' /\ EndFits'
    BY <1>1, <1>3, <1>10, <2>1 DEF Punctual, InTime, NotOverridden, EndFits
  <2> QED
    BY <1>6, <1>7, <1>10, <2>1, <2>2
<1>14. CASE StartCase
  <2>1. jout' = Append(jout, Msg("case_start")) /\ UNCHANGED jin /\ override' = "none" /\ jpc = "start" /\ jpc' = "loop"
    BY <1>14 DEF StartCase, JudgeSends
  <2>2. Punctual' /\ NotOverridden' /\ EndFits'
    BY <1>1, <1>3, <1>10, <2>1 DEF Punctual, InTime, NotOverridden, EndFits
  <2> QED
    BY <1>6, <1>7, <1>10, <2>1, <2>2
<1>15. CASE RequestAction
  <2> DEFINE m == [type |-> "action_request", step |-> step]
  <2>1. m \in JudgeMsgs /\ m.type = "action_request"
    BY <1>1 DEF JudgeMsgs, ProtocolTypeOK
  <2>2. jout' = Append(jout, m) /\ UNCHANGED <<jin, override>> /\ jpc = "loop" /\ jpc' = "awaitAction"
    BY <1>15 DEF RequestAction, JudgeSends
  <2>3. late = {} /\ late' = {}
    BY <1>1, <1>3, <2>2 DEF Punctual, InTime
  <2> HIDE DEF m
  <2>4. OutboxFits'
    BY <1>1, <1>5, <2>1, <2>2, Spoken
  <2>5. Punctual' /\ NotOverridden' /\ EndFits'
    BY <1>1, <2>2, <2>3 DEF Punctual, NotOverridden, EndFits
  <2> QED
    BY <1>6, <1>7, <2>2, <2>4, <2>5
<1>16. CASE TimeLimit
  <2>1. UNCHANGED <<jin, jout>> /\ override' = "tle" /\ jpc' = "end" /\ jpc = "loop"
    BY <1>16 DEF TimeLimit
  <2>2. EndFits'
    BY <2>1 DEF EndFits, Fits
  <2>3. Punctual' /\ NotOverridden'
    BY <1>1, <1>3, <2>1 DEF Punctual, InTime, NotOverridden
  <2> QED
    BY <1>6, <1>7, <1>8, <2>1, <2>2, <2>3
<1>17. CASE ApplyAction
  <2> DEFINE m == [type |-> "observation", step |-> step']
  <2>1. /\ jin # <<>> /\ jin' = Tail(jin) /\ jpc = "awaitAction" /\ jpc' \in {"end", "loop"} /\ UNCHANGED override
        /\ Head(jin).error = "none" /\ Head(jin).data # <<>> /\ step' = step + 1
        /\ jout' = Append(jout, m)
    BY <1>17 DEF ApplyAction
  <2>2. late = {} /\ late' = {}
    BY <1>1, <1>3, <1>9, <2>1 DEF InboxFits, Fitting, JudgeAwaits
  <2>3. m \in JudgeMsgs /\ m.type = "observation"
    <3>1. step < MaxSteps
      BY <1>1, <2>1 DEF Dialogue, BeforeCase
    <3> QED
      BY <1>1, <2>1, <3>1, ProtocolAssumption DEF JudgeMsgs
  <2> HIDE DEF m
  <2>4. OutboxFits'
    BY <1>1, <1>5, <2>1, <2>3, Spoken
  <2>5. step' > 0 /\ override' = "none"
    BY <1>1, <2>1 DEF NotOverridden
  <2>6. Punctual' /\ NotOverridden' /\ EndFits'
    BY <2>2, <2>5 DEF Punctual, NotOverridden, EndFits
  <2> QED
    BY <1>6, <1>9, <2>1, <2>4, <2>6
<1>18. CASE RejectAction
  <2>1. /\ jin # <<>> /\ jin' = Tail(jin) /\ jpc = "awaitAction" /\ jpc' = "end" /\ UNCHANGED <<jout, step>>
        /\ Head(jin).error # "none" \/ Head(jin).data = <<>>
        /\ override' = IF Head(jin).error = "none" THEN "error" ELSE Head(jin).error
    BY <1>18 DEF RejectAction
  <2>2. NextFits(override') /\ override' # "none"
    BY <1>1, <1>5, <1>9, <2>1, StillFits DEF InboxFits, Fitting, JudgeAwaits
  <2>3. EndFits'
    BY <2>2 DEF EndFits, Fits, NextFits
  <2>4. Punctual' /\ NotOverridden'
    <3>1. ~InTime'
      BY <1>3, <1>9, <2>1, EmptySeq DEF InTime, Asking
    <3> QED
      BY <2>1, <3>1 DEF Punctual, NotOverridden
  <2> QED
    BY <1>6, <1>8, <1>9, <2>1, <2>3, <2>4
<1>19. CASE EndCase
  <2>1. PICK status \in Statuses :
          /\ jout' = Append(jout, [type |-> "case_end", status |-> status])
          /\ status \in IF override = "none" THEN {"passed", "failed"} ELSE {override}
    <3>1. override \in Overrides
      BY <1>1 DEF ProtocolTypeOK
    <3> QED
      BY <1>19, <3>1 DEF EndCase, JudgeSends, Statuses, Overrides
  <2>2. UNCHANGED <<jin, override>> /\ jpc = "end" /\ jpc' = "request"
    BY <1>19 DEF EndCase, JudgeSends
  <2>3. NextFits(status)
    <3>1. Fits(status)
      BY <1>1, <2>1, <2>2 DEF EndFits, Fits
    <3> QED
      BY <1>5, <3>1, StillFits
  <2> DEFINE m == [type |-> "case_end", status |-> status]
  <2>4. m \in JudgeMsgs /\ m.type = "case_end" /\ m.status = status /\ jout' = Append(jout, m)
    BY <2>1 DEF JudgeMsgs
  <2> HIDE DEF m
  <2>5. /\ OutboxFits'
        /\ \A i \in 1..Len(jout') : jout'[i].type = "action_request" =>
             \E j \in 1..Len(jout) : jout[j].type = "action_request"
    BY <1>1, <1>5, <2>3, <2>4, Spoken
  <2>6. Punctual' /\ NotOverridden' /\ EndFits'
    BY <1>1, <1>3, <2>2, <2>5 DEF Punctual, InTime, NotOverridden, EndFits
  <2> QED
    BY <1>6, <1>7, <2>2, <2>5, <2>6
<1>20. CASE JudgeRaises
  <2>1. jpc' = "over" /\ (jin' = jin \/ (jin # <<>> /\ jin' = Tail(jin))) /\ jout' = Append(jout, Msg("error"))
    BY <1>20 DEF JudgeRaises
  <2>2. Punctual' /\ NotOverridden' /\ EndFits'
    BY <1>1, <1>3, <1>9, <1>10, <2>1 DEF Punctual, InTime, NotOverridden, EndFits
  <2> QED
    BY <1>6, <1>7, <1>9, <1>10, <2>1, <2>2
<1>21. CASE JudgeDies
  <2>1. UNCHANGED <<jpc, override, jin, jout>>
    BY <1>21 DEF JudgeDies, judgeVars
  <2>2. Punctual' /\ NotOverridden' /\ EndFits'
    BY <1>1, <1>3, <1>5, <2>1, StillInPlay DEF Punctual, InTime, NotOverridden
  <2> QED
    BY <1>6, <1>7, <1>8, <2>1, <2>2
<1> QED
  BY <1>11, <1>12, <1>13, <1>14, <1>15, <1>16, <1>17, <1>18, <1>19, <1>20, <1>21 DEF Judge

LEMMA RouteVerdict ==
  ASSUME PairInv, Route
  PROVE  VerdictInPlay'
<1>1. ProtocolTypeOK /\ Dialogue /\ VerdictInPlay /\ JudgeHears /\ Punctual /\ ReplyFits /\ VerdictFits /\ OutboxFits
  BY DEF PairInv, Dialogue, VerdictInPlay
<1>2. /\ UNCHANGED <<jpc, step, override, upc, late>>
      /\ rpc # "setup" /\ rpc' # "setup" /\ (Fault \/ UNCHANGED faults)
      /\ \A a \in Agents : ~agentUp[a] => ~agentUp'[a]
  <2>1. CASE Cleanup
    BY <2>1 DEF Cleanup, judgeVars, userVars
  <2>2. CASE ~Cleanup
    BY <2>2 DEF Route, CaseRequested, CaseStarted, Observed, ActionRequested, SendReply, CaseEnded, EvaluationOver,
                JudgeSilent, Leave, SendToJudge, Take, ElsewhereThanRouter, judgeVars, userVars
  <2> QED
    BY <2>1, <2>2
<1>3. Steady
  <2>1. faults > 0 => faults' > 0
    BY <1>1, <1>2, FaultsStay
  <2> QED
    BY <1>2, <2>1, OneUser DEF Steady
<1>4. NotOverridden' /\ EndFits' /\ Untouched'
  BY <1>1, <1>2, <1>3, StillInPlay DEF VerdictInPlay, NotOverridden, Untouched
<1>5. UNCHANGED ended => VerdictFits'
  BY <1>1, <1>3, StillInPlay
<1>6. UNCHANGED jin => InboxFits'
  BY <1>1, <1>3, StillInPlay
<1>7. jout' = jout \/ (jout # <<>> /\ jout' = Tail(jout)) =>
        /\ OutboxFits'
        /\ \A i \in 1..Len(jout') : jout'[i].type = "action_request" =>
             \E j \in 1..Len(jout) : jout[j].type = "action_request"
  <2>1. OutboxFits' \/ ~(jout' = jout \/ (jout # <<>> /\ jout' = Tail(jout)))
    BY <1>1, <1>3, StillInPlay
  <2>2. ASSUME jout # <<>>, jout' = Tail(jout)
        PROVE  \A i \in 1..Len(jout') : i + 1 \in 1..Len(jout) /\ jout'[i] = jout[i + 1]
    BY <1>1, <2>2, Heard
  <2> QED
    BY <2>1, <2>2
<1>8. jout # <<>> => jin = <<>> /\ Head(jout) = jout[1] /\ 1 \in 1..Len(jout)
  <2>1. jout # <<>> => jin = <<>>
    BY <1>1 DEF JudgeHears
  <2>2. jout # <<>> => Head(jout) = jout[1] /\ Len(jout) \in Nat \ {0}
    BY <1>1, Taken DEF ProtocolTypeOK
  <2> QED
    BY <2>1, <2>2
<1> USE DEF VerdictInPlay
<1>9. CASE CaseRequested
  <2> DEFINE m == Msg(IF served THEN "case_stop" ELSE "case_assign")
  <2>1. /\ jout # <<>> /\ jout' = Tail(jout) /\ SendToJudge(m) /\ served' = TRUE /\ UNCHANGED <<ended, reply>>
    BY <1>9 DEF CaseRequested, Take
  <2>2. m \in JudgeInbox /\ m.type # "action" /\ (m.type = "case_assign" => ~served)
    BY DEF Msg, JudgeInbox
  <2> HIDE DEF m
  <2>3. \/ rpc' = "poll" /\ jin' # <<>> /\ jin'[1] = m
        \/ rpc' = "closing" /\ jin' = <<>>
    BY <1>1, <1>8, <2>1, <2>2, Sent
  <2>4. Punctual' /\ InboxFits' /\ ReplyFits'
    BY <1>1, <1>2, <1>7, <2>1, <2>2, <2>3 DEF Punctual, InTime, InboxFits, ReplyFits
  <2> QED
    BY <1>4, <1>5, <1>7, <2>1, <2>4
<1>10. CASE CaseStarted \/ Observed
  <2>1. jout # <<>> /\ jout' = Tail(jout) /\ UNCHANGED <<jin, rpc, served, ended, reply>>
    BY <1>10 DEF CaseStarted, Observed, Take
  <2>2. Punctual' /\ ReplyFits'
    BY <1>1, <1>2, <1>3, <1>7, <2>1, StillInPlay DEF Punctual, InTime
  <2> QED
    BY <1>4, <1>5, <1>6, <1>7, <2>1, <2>2
<1>11. CASE ActionRequested
  <2>1. /\ jout # <<>> /\ jout' = Tail(jout) /\ Head(jout).type = "action_request" /\ rpc' = "ask"
        /\ UNCHANGED <<jin, served, ended, reply>>
    BY <1>11 DEF ActionRequested, Take
  <2>2. late' = {}
    BY <1>1, <1>2, <1>8, <2>1 DEF Punctual, InTime
  <2>3. Punctual' /\ ReplyFits'
    BY <2>1, <2>2 DEF Punctual, ReplyFits
  <2> QED
    BY <1>4, <1>5, <1>6, <1>7, <2>1, <2>3
<1>12. CASE SendReply
  <2>1. rpc = "answer" /\ SendToJudge(reply) /\ UNCHANGED <<jout, served, ended>>
    BY <1>12 DEF SendReply
  <2>2. reply \in JudgeInbox /\ reply.type = "action" /\ jin = <<>>
    BY <1>1, <2>1 DEF Dialogue, ReplyReady, JudgeHears, Asking, JudgeInbox, Replies
  <2>3. \/ rpc' = "poll" /\ jin' # <<>> /\ jin'[1] = reply
        \/ rpc' = "closing" /\ jin' = <<>>
    BY <1>1, <2>1, <2>2, Sent
  <2>4. jin' # <<>> => NextFitting(jin'[1])
    BY <1>1, <1>3, <2>1, <2>3, StillFits DEF ReplyFits
  <2>5. InboxFits'
    BY <2>4 DEF InboxFits, Fitting, NextFitting, Fits, NextFits
  <2>6. Punctual' /\ ReplyFits'
    BY <1>1, <1>2, <1>7, <2>1, <2>2, <2>3 DEF Punctual, InTime, ReplyFits
  <2> QED
    BY <1>4, <1>5, <1>7, <2>1, <2>5, <2>6
<1>13. CASE CaseEnded
  <2> DEFINE v == jout[1].status
  <2>1. /\ jout # <<>> /\ jout' = Tail(jout) /\ Head(jout).type = "case_end"
        /\ ended' = Append(ended, v) /\ UNCHANGED <<jin, rpc, served, reply>> /\ rpc = "poll"
    BY <1>8, <1>13 DEF CaseEnded, Take
  <2>2. ended \in Seq(Statuses) /\ v \in Statuses
    <3>1. jout[1] \in JudgeMsgs
      BY <1>1, <2>1, TakenTyped
    <3> QED
      BY <1>1, <1>8, <2>1, <3>1 DEF ProtocolTypeOK, JudgeMsgs
  <2>3. NextFits(v)
    BY <1>1, <1>3, <1>8, <2>1, StillFits DEF OutboxFits
  <2> HIDE DEF v
  <2>4. \A i \in 1..Len(ended') : (i \in 1..Len(ended) /\ ended'[i] = ended[i]) \/ ended'[i] = v
    <3>1. /\ Len(ended') = Len(ended) + 1 /\ ended'[Len(ended) + 1] = v /\ Len(ended) \in Nat
          /\ \A i \in 1..Len(ended) : ended'[i] = ended[i]
      BY <2>1, <2>2, Appended, Elements
    <3> QED
      BY <3>1
  <2>5. \A i \in 1..Len(ended') : NextFits(ended'[i])
    BY <1>1, <1>3, <2>3, <2>4, StillFits DEF VerdictFits
  <2>6. VerdictFits'
    BY <2>5 DEF VerdictFits, Fits, NextFits
  <2>7. Punctual' /\ ReplyFits'
    BY <1>1, <1>2, <1>3, <1>7, <2>1, StillInPlay DEF Punctual, InTime
  <2> QED
    BY <1>4, <1>6, <1>7, <2>1, <2>6, <2>7
<1>14. CASE EvaluationOver \/ JudgeSilent \/ Cleanup
  <2>1. /\ rpc' \in {"closing", "closed"} /\ UNCHANGED <<jin, served, ended, reply>>
        /\ jout' = jout \/ (jout # <<>> /\ jout' = Tail(jout))
    BY <1>14 DEF EvaluationOver, JudgeSilent, Cleanup, Leave, Take
  <2>2. Punctual' /\ ReplyFits'
    BY <1>1, <1>2, <1>7, <2>1 DEF Punctual, InTime, ReplyFits
  <2> QED
    BY <1>4, <1>5, <1>6, <1>7, <2>1, <2>2
<1> QED
  BY <1>9, <1>10, <1>11, <1>12, <1>13, <1>14 DEF Route

LEMMA OthersVerdict ==
  ASSUME PairInv, Others \/ UNCHANGED vars
  PROVE  VerdictInPlay'
<1>1. CASE UNCHANGED vars
  BY <1>1 DEF PairInv, VerdictInPlay, Punctual, Untouched, NotOverridden, ReplyFits, InboxFits, EndFits, OutboxFits,
              VerdictFits, InTime, Fitting, Fits, vars, judgeVars, agentVars, userVars, bridgeVars, routerVars
<1> QED
  BY <1>1, JudgeVerdict, RouteVerdict, AgentVerdict DEF Others

LEMMA SetupVerdict ==
  ASSUME PairInv, PairSetup
  PROVE  VerdictInPlay'
<1>1. rpc = "setup" /\ rpc' \in {"poll", "closing"} /\ VerdictInPlay
      /\ UNCHANGED <<jpc, step, override, jin, jout, served, ended, reply, late>>
  BY DEF PairSetup, SetupDone, SetupRaises, ElsewhereThanRouter, judgeVars, PairInv
<1>2. jpc = "request" /\ jin = <<>> /\ jout = <<>> /\ ended = <<>> /\ Len(jout) = 0 /\ Len(ended) = 0
  BY <1>1, EmptySeq DEF VerdictInPlay, Untouched
<1>3. Punctual'
  BY <1>1, <1>2 DEF VerdictInPlay, Punctual, InTime
<1> QED
  BY <1>1, <1>2, <1>3 DEF VerdictInPlay, Untouched, NotOverridden, ReplyFits, InboxFits, EndFits, OutboxFits, VerdictFits

(* Only the answer has to fit: the case has no verdict yet.                *)
LEMMA RequestVerdict ==
  ASSUME PairInv, PairRequest
  PROVE  VerdictInPlay'
<1>1. ProtocolTypeOK /\ Dialogue /\ Rounds /\ NothingLost /\ Callbacks /\ VerdictInPlay
  BY DEF PairInv
<1>2. UNCHANGED RequestFrame /\ Asking /\ Asking'
  BY RequestPair
<1>3. jpc = "awaitAction" /\ jout = <<>> /\ jin = <<>> /\ served /\ Live /\ ended = <<>> /\ override = "none"
      /\ Len(jout) = 0 /\ Len(ended) = 0
  <2>1. jpc = "awaitAction" /\ jout = <<>> /\ jin = <<>> /\ served /\ Live
    BY <1>1, <1>2 DEF Dialogue, RouterAsks, JudgeHears, BeforeCase, Live, Asking
  <2> QED
    BY <1>1, <2>1, EmptySeq DEF Callbacks, VerdictInPlay, NotOverridden
<1>4. rpc \in {"ask", "collect"} /\ late = {}
  <2>1. rpc \in {"ask", "collect"}
    BY DEF PairRequest, AskUser, UserAnswers, UserGone, UserLate
  <2> QED
    BY <1>1, <2>1 DEF VerdictInPlay, Punctual, InTime
<1>5. User \in Agents /\ faults \in Nat
  BY <1>1, OneUser, ProtocolAssumption DEF ProtocolTypeOK
<1>6. ~agentUp[User] => faults > 0
  BY <1>1, <1>3, <1>4, <1>5 DEF NothingLost
<1>7. ReplyFits' /\ (rpc' \in {"ask", "collect"} => late' = {})
  <2>1. \A status \in Overrides : status # "none" => ErrorAction(status).error = status
    BY ErrorReply
  <2>2. UNCHANGED <<upc, agentUp, step>>
    BY <1>2 DEF RequestFrame
  <2>3. CASE AskUser
    <3>1. late' = late /\ (rpc' = "answer" => reply' = ErrorAction("error") /\ faults' > 0)
      BY <1>5, <1>6, <2>3 DEF AskUser, Answer, Fault
    <3> QED
      BY <1>4, <2>1, <3>1 DEF ReplyFits, Fitting, Fits, Overrides
  <2>4. CASE UserGone
    <3>1. late' = late /\ rpc' = "answer" /\ ~agentUp[User] /\ faults' = faults
          /\ \E status \in {"mle", "error"} : reply' = ErrorAction(status)
      BY <2>4 DEF UserGone, Answer
    <3> QED
      BY <1>4, <1>6, <2>1, <2>2, <3>1 DEF ReplyFits, Fitting, Fits, Overrides
  <2>5. CASE UserLate
    <3>1. rpc' = "answer" /\ reply' = ErrorAction("tle")
      BY <2>5 DEF UserLate, Answer
    <3> QED
      BY <2>1, <3>1 DEF ReplyFits, Fitting, Fits, Overrides
  <2>6. CASE UserAnswers
    <3>1. /\ rpc = "collect" /\ aout[User] # <<>> /\ late' = late /\ rpc' = "answer"
          /\ aout' = [aout EXCEPT ![User] = Tail(@)] /\ got' = [got EXCEPT ![User] = Head(aout[User])]
          /\ UNCHANGED <<ain, faults>>
      BY <2>6 DEF UserAnswers, Answer
    <3>2. got'[User] \in Items(User) /\ got'[User] \in ActionIds
      BY <1>1, <1>2, <1>5, <3>1, Collected
    <3>3. got'[User] \in {Raised, Ended} => upc[User] = "over"
      <4>1. upc[User] = "awaitObs" => acted[User] > 0
        BY <1>1, <1>5 DEF Rounds, InOrder, ProtocolTypeOK
      <4> QED
        BY <3>2, <4>1 DEF Items, Raised, Ended
    <3>4. CASE got'[User] = Raised
      <4>1. reply' = ErrorAction("error")
        BY <2>6, <3>4 DEF UserAnswers, Answer, Raised, Ended
      <4> QED
        BY <1>4, <2>1, <2>2, <3>1, <3>3, <3>4, <4>1 DEF ReplyFits, Fitting, Fits, Overrides
    <3>5. CASE got'[User] = Ended
      <4>1. reply' = Action(<<>>)
        BY <2>6, <3>5 DEF UserAnswers, Answer, Raised, Ended
      <4> QED
        BY <1>4, <2>2, <3>1, <3>3, <3>5, <4>1 DEF ReplyFits, Fitting, Fits, Action
    <3>6. CASE got'[User] \notin {Raised, Ended}
      <4>1. reply' = Action(got')
        BY <2>6, <3>6 DEF UserAnswers, Answer
      <4>2. got' # <<>>
        BY <1>1, <1>5, <3>1 DEF ProtocolTypeOK
      <4> QED
        BY <1>4, <3>1, <4>1, <4>2 DEF ReplyFits, Fitting, Action
    <3> QED
      BY <3>4, <3>5, <3>6
  <2> QED
    BY <2>3, <2>4, <2>5, <2>6 DEF PairRequest
<1>8. UNCHANGED <<jpc, step, override, jin, jout, served, ended>> /\ rpc' # "setup"
  BY <1>2 DEF RequestFrame, Asking
<1>9. Punctual'
  BY <1>3, <1>7, <1>8 DEF Punctual, InTime
<1> QED
  BY <1>3, <1>7, <1>8, <1>9 DEF VerdictInPlay, Untouched, NotOverridden, InboxFits, EndFits, OutboxFits, VerdictFits

-----------------------------------------------------------------------------
LEMMA StepPair ==
  ASSUME PairInv, PairNext \/ UNCHANGED vars
  PROVE  PairInv' /\ [Contract!ContractNext]_(Contract!contractVars)
<1> USE DEF PairInv, CallsKept
<1>1. CASE Others \/ UNCHANGED vars
  <2>1. ProtocolTypeOK' /\ Dialogue' /\ Rounds' /\ NothingLost' /\ CallsKept
    BY <1>1, OthersTyped, OthersRounds, OthersCalls
  <2>2. Unanswered'
    BY <1>1, OthersAnswer DEF Unanswered
  <2> QED
    BY <1>1, <2>1, <2>2, OthersVerdict
<1>2. CASE PairRequest
  <2>1. ProtocolTypeOK' /\ ReplyReady' /\ Rounds' /\ NothingLost' /\ Unanswered'
    BY <1>2, AskingPair, AnsweringPair, GivingUpPair DEF PairRequest
  <2> QED
    BY <1>2, <2>1, RequestPair, RequestKeeps, RequestVerdict
<1>3. CASE PairSetup
  <2>1. SetupDone \/ (SetupRaises /\ (Fault \/ UNCHANGED faults))
    BY <1>3 DEF PairSetup
  <2>2. /\ UNCHANGED <<jpc, step, jin, jout, served>>
        /\ rpc = "setup" /\ rpc' \in {"poll", "closing"}
    BY <2>1 DEF SetupDone, SetupRaises, ElsewhereThanRouter, judgeVars
  <2>3. ProtocolTypeOK'
    BY <2>1, SetupTyped
  <2>4. Dialogue'
    BY <2>2, ElsewhereDialogue
  <2>5. Rounds' /\ NothingLost'
    BY <2>1, SetupRounds, SetupLosesNothing
  <2>6. CallsKept
    BY <2>1, SetupCallbacks
  <2>7. Unanswered'
    BY <2>2 DEF Unanswered
  <2> QED
    BY <1>3, <2>3, <2>4, <2>5, <2>6, <2>7, SetupVerdict
<1> QED
  BY <1>1, <1>2, <1>3 DEF PairNext

LEMMA PairInvariant == PairSpec => []PairInv
<1>1. PairInv /\ [PairNext]_vars => PairInv'
  BY StepPair
<1> QED
  BY InitPair, <1>1, PTL DEF PairSpec

(* Judge, router and user never wait in a circle: as long as nothing fails *)
(* and the user is not late, a judge that waits for an answer is being     *)
(* served, and a user's thread that waits for an observation while its     *)
(* action is awaited will find one on its way.                             *)
THEOREM PairFed == PairSpec => []NobodyStarves
<1>1. PairInv => NobodyStarves
  BY Fed DEF PairInv
<1> QED
  BY PairInvariant, <1>1, PTL

(* Whatever fails or comes late, the judge's step n is played with the     *)
(* user's n-th action, and the n-th observation the user's code sees is    *)
(* the one of step n.                                                      *)
THEOREM PairAligned == PairSpec => []RoundsAligned
<1>1. PairInv => RoundsAligned
  BY Alignment DEF PairInv
<1> QED
  BY PairInvariant, <1>1, PTL

(* Whatever is lost on the way from the router to the judge and back, the  *)
(* evaluator is told tle of a user who was late, mle only of one that      *)
(* died, an error only if the user's code ended or something failed, and   *)
(* passed or failed only after a step was played.                          *)
THEOREM PairVerdict == PairSpec => []VerdictFits
<1>1. PairInv => VerdictFits
  BY DEF PairInv, VerdictInPlay
<1> QED
  BY PairInvariant, <1>1, PTL

(* The session implements the safety part of the contract on callbacks     *)
(* that the evaluator relies on: every step is a call, the return, the     *)
(* exception, or nothing the evaluator sees.                               *)
THEOREM PairContract == PairSpec => Contract!ContractSafety
<1>1. PairInit => Contract!ContractInit
  BY CallbacksInit DEF PairInit
<1>2. PairInv /\ [PairNext]_vars => [Contract!ContractNext]_(Contract!contractVars)
  BY StepPair
<1> QED
  BY PairInvariant, <1>1, <1>2, PTL DEF PairSpec, Contract!ContractSafety
=============================================================================
