------------------------------- MODULE Werewolf -------------------------------
(***************************************************************************)
(* problems/werewolf: the game's phases.  In every step each agent has     *)
(* made one call; the environment validates them all, applies them and     *)
(* moves on.  A target is the agent its public number resolves to, or      *)
(* Nobody; what is said, and what the seer learns, changes no state.       *)
(***************************************************************************)
EXTENDS TurnBasedCase

CONSTANTS
  Wolves, Seer, Witch, Villagers,
  MaxRounds,        \* max_rounds
  VoteMaxRounds,    \* vote_max_rounds
  Nobody

Agents == Wolves \cup {Seer, Witch} \cup Villagers
Good == Agents \ Wolves

WerewolfAssumption ==
  /\ IsFiniteSet(Agents) /\ Nobody \notin Agents
  /\ Wolves \cap ({Seer, Witch} \cup Villagers) = {}
  /\ 0 < Cardinality(Wolves) /\ Cardinality(Wolves) < Cardinality(Good)
  /\ MaxRounds \in Nat \ {0} /\ VoteMaxRounds \in Nat \ {0}

NoWinner == "none"

(* error_reason: a refused call, but for a potion that the witch has used, *)
(* and no living player to kill that is no wolf.  The code has one text    *)
(* for "no kill" and "wolves only", where every wolf has named a wolf.     *)
Fine == "fine"
Missing == [action |-> "missing", target |-> Nobody]
Call(name) == [action |-> name, target |-> Nobody]
CallOn(name, targets) == {[action |-> name, target |-> t] : t \in targets}

WerewolfInit ==
  /\ CaseInit
  /\ env = [phase |-> "SYNC", round |-> 1, steps |-> 0, alive |-> Agents, kill |-> Nobody,
            has_save |-> TRUE, has_poison |-> TRUE, saved |-> FALSE, poison |-> Nobody,
            to_speak |-> {}, speaker |-> Nobody, vote_round |-> 0,
            votes |-> [a \in Agents |-> Nobody], last_words |-> Nobody,
            winner |-> NoWinner, error |-> Fine, obeyed |-> TRUE]

Alive(a) == a \in env.alive
LastWords(a) == env.phase = "DAY_LAST_WORDS" /\ a = env.last_words
Others(a) == env.alive \ {a}
FirstDay == env.round = 1
FinalRound == env.vote_round >= VoteMaxRounds
HasVoted(a) == env.votes[a] # Nobody

(* --- The calls an observation asks an agent for (build_obs). ---------- *)

(* The witch is told which potions she has, and offered both.              *)
WitchChoice == {Call("connection"), Call("save")} \cup CallOn("poison", Agents)

(* The candidates are all who are alive; only a vote that must be given is *)
(* asked to be for somebody else.                                          *)
VoteChoice(a) ==
  IF FinalRound /\ ~FirstDay /\ ~HasVoted(a) THEN CallOn("vote", Others(a))
  ELSE {Call("connection")} \cup CallOn("vote", env.alive)

Asked(a) ==
  CASE ~Alive(a) /\ ~LastWords(a) -> {Call("connection")}
    [] LastWords(a) -> {Call("speak")}
    [] Alive(a) /\ env.phase = "NIGHT_WOLF" /\ a \in Wolves -> CallOn("kill", env.alive)
    [] Alive(a) /\ env.phase = "NIGHT_WITCH" /\ a = Witch -> WitchChoice
    [] Alive(a) /\ env.phase = "NIGHT_SEER" /\ a = Seer -> CallOn("check", Others(Seer))
    [] Alive(a) /\ env.phase = "DAY_SPEAK" /\ a = env.speaker -> {Call("speak")}
    [] Alive(a) /\ env.phase = "DAY_VOTE" -> VoteChoice(a)
    [] OTHER -> {Call("connection")}

(* --- Validation. ------------------------------------------------------- *)

(* The call's name, for an agent who may act in this phase. *)
ValidName(a, name) ==
  \/ /\ name = "connection"
     /\ ~(env.phase = "DAY_VOTE" /\ FinalRound /\ ~HasVoted(a) /\ ~FirstDay)
  \/ env.phase = "NIGHT_WOLF" /\ a \in Wolves /\ name = "kill"
  \/ env.phase = "NIGHT_WITCH" /\ a = Witch /\ name = "save" /\ env.has_save
  \/ env.phase = "NIGHT_WITCH" /\ a = Witch /\ name = "poison" /\ env.has_poison
  \/ env.phase = "NIGHT_SEER" /\ a = Seer /\ name = "check"
  \/ env.phase = "DAY_SPEAK" /\ a = env.speaker /\ name = "speak"
  \/ env.phase = "DAY_VOTE" /\ name = "vote"
  \/ LastWords(a) /\ name = "speak"

ValidVote(a, act) == act.action = "vote" /\ act.target \in Others(a)

ForcedVoteInvalid(a, act) ==
  /\ env.phase = "DAY_VOTE" /\ FinalRound /\ ~FirstDay /\ ~HasVoted(a)
  /\ act.action = "vote" /\ ~ValidVote(a, act)

(* Mutant: the day is counted from the second night on. *)
InvalidOnDayOne(acts) ==
  \E a \in Agents :
    \/ acts[a] = Missing
    \/ ~Alive(a) /\ ~LastWords(a) /\ acts[a].action # "connection"
    \/ /\ Alive(a) \/ LastWords(a)
       /\ \/ ~ValidName(a, acts[a].action)
          \/ env.phase = "DAY_VOTE" /\ FinalRound /\ ~HasVoted(a) /\ ~ValidVote(a, acts[a])

Invalid(acts) ==
  \E a \in Agents :
    \/ acts[a] = Missing
    \/ ~Alive(a) /\ ~LastWords(a) /\ acts[a].action # "connection"
    \/ (Alive(a) \/ LastWords(a)) /\ ~ValidName(a, acts[a].action)
    \/ Alive(a) /\ ForcedVoteInvalid(a, acts[a])

(* With several refusals at once the first agent's is told; here a potion's. *)
SpentPotion(act) ==
  /\ env.phase = "NIGHT_WITCH" /\ Alive(Witch)
  /\ \/ act.action = "save" /\ ~env.has_save
     \/ act.action = "poison" /\ ~env.has_poison

(* --- The handlers: the environments a step may lead to. --------------- *)

Ended(e, winner) == [e EXCEPT !.winner = winner, !.phase = "GAME_OVER"]
Error(e, reason) == [Ended(e, NoWinner) EXCEPT !.error = reason]

(* Mutant: the wolves win only by a majority of their own. *)
GameOverLate(e) ==
  LET wolves == Cardinality(e.alive \cap Wolves)
      good == Cardinality(e.alive \cap Good)
  IN CASE wolves = 0 -> Ended(e, "good")
       [] wolves > good -> Ended(e, "wolf")
       [] OTHER -> e

CheckGameOver(e) ==
  LET wolves == Cardinality(e.alive \cap Wolves)
      good == Cardinality(e.alive \cap Good)
  IN CASE wolves = 0 -> Ended(e, "good")
       [] wolves > 0 /\ wolves >= good -> Ended(e, "wolf")
       [] OTHER -> e

NextRound(e) ==
  LET over == CheckGameOver(e) IN
  CASE over.phase = "GAME_OVER" -> over
    [] over.phase # "GAME_OVER" /\ e.round = MaxRounds -> Ended([e EXCEPT !.round = @ + 1], "wolf")
    [] OTHER -> [e EXCEPT !.round = @ + 1, !.phase = "NIGHT_WOLF"]

NightWolf(e, acts) ==
  LET wolves == e.alive \cap Wolves
      targets == {acts[w].target : w \in {v \in wolves : acts[v].action = "kill"}}
                   \cap (e.alive \ Wolves)
      friendly == \A w \in wolves : acts[w].action = "kill" /\ acts[w].target \in wolves
  IN IF targets = {} THEN {Error(e, IF friendly THEN "wolves only" ELSE "no kill")}
     ELSE {[e EXCEPT !.kill = t, !.phase = "NIGHT_WITCH"] : t \in targets}

NightWitch(e, act) ==
  LET saves == Witch \in e.alive /\ act.action = "save" /\ e.has_save
      poisons == Witch \in e.alive /\ act.action = "poison" /\ e.has_poison
                   /\ act.target \in e.alive \ {Witch}
  IN [e EXCEPT !.saved = saves, !.has_save = @ /\ ~saves,
               !.poison = IF poisons THEN act.target ELSE Nobody,
               !.has_poison = @ /\ ~poisons, !.phase = "NIGHT_SEER"]

(* The seer's check, then _resolve_night. *)
NightSeer(e) ==
  [e EXCEPT !.alive = @ \ ({e.poison} \cup (IF e.saved THEN {} ELSE {e.kill})),
            !.kill = Nobody, !.saved = FALSE, !.poison = Nobody, !.phase = "DAY_ANNOUNCE"]

(* The order of speaking is shuffled: who is next is any who has not been. *)
DayAnnounce(e) ==
  {[e EXCEPT !.to_speak = e.alive, !.speaker = s, !.phase = "DAY_SPEAK"] : s \in e.alive}

DaySpeak(e) ==
  LET left == e.to_speak \ {e.speaker} IN
  IF left # {} THEN {[e EXCEPT !.to_speak = left, !.speaker = s] : s \in left}
  ELSE {[e EXCEPT !.to_speak = {}, !.speaker = Nobody, !.vote_round = 1,
                  !.votes = [a \in Agents |-> Nobody], !.phase = "DAY_VOTE"]}

(* Votes for the dead do not count; a tie is broken by chance. *)
ResolveVotes(e) ==
  LET count(t) == Cardinality({a \in DOMAIN e.votes : e.votes[a] = t})
      top == {t \in e.alive : count(t) > 0 /\ \A u \in e.alive : count(u) <= count(t)}
  IN IF top = {} THEN {NextRound([e EXCEPT !.last_words = Nobody])}
     ELSE {[e EXCEPT !.alive = @ \ {t}, !.last_words = t, !.phase = "DAY_LAST_WORDS"] : t \in top}

DayVote(e, acts) ==
  LET e1 == [e EXCEPT !.votes = [a \in Agents |->
                IF a \in e.alive /\ ValidVote(a, acts[a]) THEN acts[a].target ELSE @[a]]]
  IN IF e.vote_round >= VoteMaxRounds \/ \A a \in e.alive : e1.votes[a] # Nobody
     THEN ResolveVotes(e1)
     ELSE {[e1 EXCEPT !.vote_round = @ + 1]}

Handled(e, acts) ==
  CASE e.phase = "SYNC" -> {[e EXCEPT !.phase = "NIGHT_WOLF"]}
    [] e.phase = "NIGHT_WOLF" -> NightWolf(e, acts)
    [] e.phase = "NIGHT_WITCH" -> {NightWitch(e, acts[Witch])}
    [] e.phase = "NIGHT_SEER" -> {NightSeer(e)}
    [] e.phase = "DAY_ANNOUNCE" -> DayAnnounce(e)
    [] e.phase = "DAY_SPEAK" -> DaySpeak(e)
    [] e.phase = "DAY_VOTE" -> DayVote(e, acts)
    [] e.phase = "DAY_LAST_WORDS" -> {NextRound(e)}

(* A game the good won is worth twice one the wolves won.                  *)
Points(e) == CASE e.winner = "good" -> 100 [] e.winner = "wolf" -> 50 [] OTHER -> 0

(* env remembers whether everyone has obeyed the observations so far.      *)
ApplyActions(acts, obeyed) ==
  LET e == [env EXCEPT !.steps = @ + 1, !.obeyed = @ /\ obeyed]
      after == IF Invalid(acts)
               THEN {Error(e, IF SpentPotion(acts[Witch]) THEN "spent potion" ELSE "refused")}
               ELSE {IF x.error # Fine THEN x ELSE CheckGameOver(x) : x \in Handled(e, acts)}
  IN \E x \in after : Applied(x, x.phase = "GAME_OVER", x.winner # NoWinner, Points(x))

(* Everyone does as asked: `asked' has every agent's calls, <<agent, call>>. *)
Play ==
  /\ env.phase # "GAME_OVER"
  /\ \E asked \in {UNION {{a} \X Asked(a) : a \in Agents}} :
       \E acts \in {f \in [Agents -> {x[2] : x \in asked}] : \A a \in DOMAIN f : <<a, f[a]>> \in asked} :
         ApplyActions(acts, TRUE)

(* One agent does something else its tools allow, or has not answered.  A  *)
(* call that is refused outside its phase is made for Nobody only.         *)
Targets(phase) == IF env.phase = phase THEN Agents \cup {Nobody} ELSE {Nobody}

Tools(a) ==
  {Call("speak"), Call("connection")} \cup CallOn("vote", Targets("DAY_VOTE"))
  \cup (IF a \in Wolves THEN CallOn("kill", Targets("NIGHT_WOLF")) ELSE {})
  \cup (IF a = Seer THEN CallOn("check", Targets("NIGHT_SEER")) ELSE {})
  \cup (IF a = Witch THEN {Call("save")} \cup CallOn("poison", Targets("NIGHT_WITCH")) ELSE {})

Misplay(a, act) ==
  /\ env.phase # "GAME_OVER"
  /\ act \notin Asked(a)
  /\ ApplyActions([b \in Agents |-> IF b = a THEN act ELSE CHOOSE x \in Asked(b) : TRUE], FALSE)

WerewolfNext ==
  \/ Play
  \/ \E a \in Agents : \E act \in Tools(a) \cup {Missing} : Misplay(a, act)
  \/ Interrupted(0)   \* run_multi_agent_case does not ask the environment

(* Doing what the observation asks for is no error: the hints of the       *)
(* observations and the checks of the validation, written separately,      *)
(* agree in every phase, on every day and in every round of a vote, but    *)
(* in two places.  The witch is offered a potion that she has used, and    *)
(* the wolves are offered themselves: when all of them take that offer,    *)
(* the game ends as an error too.                                          *)
ObedienceIsSafe ==
  env.obeyed =>
    /\ env.error \in {Fine, "spent potion", "wolves only"}
    /\ env.error = "spent potion" => ~env.has_save \/ ~env.has_poison

(* Nobody wins or loses behind the game's back: as long as it goes on the  *)
(* wolves are outnumbered but there, the good win when the wolves are gone *)
(* and some good are not, the wolves when they are not outnumbered or the  *)
(* rounds are up, and nobody after an error.  It ends in as many steps as  *)
(* its rounds have.                                                        *)
WinnerRight ==
  LET wolves == Cardinality(env.alive \cap Wolves)
      good == Cardinality(env.alive \cap Good)
  IN /\ env.phase # "GAME_OVER" => 0 < wolves /\ wolves < good
     /\ env.winner = "good" => wolves = 0 /\ good > 0
     /\ env.winner = "wolf" => wolves >= good \/ env.round > MaxRounds
     /\ env.phase = "GAME_OVER" => (env.error # Fine <=> env.winner = NoWinner)
     /\ env.steps <= 1 + MaxRounds * (5 + VoteMaxRounds + Cardinality(Agents))
=============================================================================
